--------------------------- MODULE BrowserBridge ---------------------------
(* The way of a browser tool from a CLI to Chrome and back: the MCP server   *)
(* of each CLI (verboo-in-chrome/src/mcp_server.rs, lib.rs), the native host *)
(* that relays for all of them (native_host.rs), and in the extension the    *)
(* native bridge with its turn, the approval executor, the policy and the    *)
(* lease of the tab acted on (native/bridge.js, controller/approvedExecute.js, *)
(* background.js, controller/backgroundWorkspace.js).                        *)
(*                                                                           *)
(* A request's id is the JSON-RPC id its own CLI gave it, so two clients use *)
(* the same ids.  A turn of the bridge is named by the request that opened   *)
(* it.  All tools act on one host.                                           *)
EXTENDS Integers, Sequences, Functions

CONSTANTS
  Client,       \* CLI processes, each with an MCP server of its own
  Call,         \* their tool requests
  Of,           \* the client of each request
  Id, IdOf,     \* JSON-RPC ids and the one of each request
  NoCall,
  MaxPorts      \* bound: connections the extension opens, and acts of its user

ASSUME CallAssumption == NoCall \notin Call /\ Client \cap Call = {} /\ NoCall \notin Client
ASSUME OfAssumption == Of \in [Call -> Client] /\ IdOf \in [Call -> Id]
ASSUME BoundsAssumption == MaxPorts \in Nat \ {0}

VARIABLES
  ending,       \* how far a client's turn completion is
  up,           \* the native host runs
  relay,        \* relay_one of each request
  waiter,       \* pending_responses: id -> request whose relay waits
  completionIds,\* completion_ids, each completion named by its client
  toChrome, toHost, \* the native messaging pipes
  port, opened, \* the current port, and how many were opened so far
  timer,        \* reconnectTimer is set
  turn,         \* currentTurnId
  cleanups,     \* running cleanupTurn calls
  step,         \* where the handler of a request is
  origin,       \* port and turn a request was received with
  decision,     \* answer to its approval
  approvals,    \* pendingApprovals of source 'native': id -> request
  grants,       \* turns with the site in turnSiteGrants
  lease,        \* currentLease of the background workspace
  site, mode,   \* stored site grant and permission mode
  surface,      \* a side panel is open
  acts          \* acts of the user so far

hostVars == <<up, relay, waiter, completionIds>>
pipes == <<toChrome, toHost>>
portVars == <<port, opened, timer>>
callVars == <<step, origin, decision>>
userVars == <<site, mode, surface, acts>>
vars == <<ending, hostVars, pipes, portVars, turn, cleanups, callVars, approvals,
          grants, lease, userVars>>

Ports == 0 .. MaxPorts
Tab == {"none", "workspace", "user"}
Refusals == {"deny", "cancelled", "timeout"}
Consents == {"once", "turn", "always"}
Frame == [kind : {"tool", "complete"}, of : Call \cup Client]

TypeOK ==
  /\ ending \in [Client -> {"open", "accepted", "inserted", "over"}]
  /\ up \in BOOLEAN
  /\ relay \in [Call -> {"none", "queued", "registered", "sent", "answered", "over"}]
  /\ waiter \in [Id -> Call \cup {NoCall}]
  /\ completionIds \subseteq Client
  /\ toChrome \in Seq(Frame) /\ toHost \in Seq(Frame)
  /\ port \in Ports /\ opened \in Ports /\ timer \in BOOLEAN
  /\ turn \in Call \cup {NoCall}
  /\ cleanups \subseteq [turn : Call \cup {NoCall}, of : Client \cup {NoCall}, port : Ports]
  /\ step \in [Call -> {"none", "context", "policy", "asking", "pending", "decided",
                        "running", "done"}]
  /\ origin \in [Call -> [port : Ports, turn : Call \cup {NoCall}]]
  /\ decision \in [Call -> {"none"} \cup Consents \cup Refusals]
  /\ approvals \in [Id -> Call \cup {NoCall}]
  /\ grants \subseteq Call
  /\ lease \in Tab
  /\ site \in {"none", "always", "deny"} /\ mode \in {"manual", "skip"} /\ surface \in BOOLEAN
  /\ acts \in Ports

Init ==
  /\ ending = [k \in Client |-> "open"]
  /\ up = FALSE
  /\ relay = [c \in Call |-> "none"]
  /\ waiter = [i \in Id |-> NoCall]
  /\ completionIds = {}
  /\ toChrome = <<>> /\ toHost = <<>>
  /\ port = 0 /\ opened = 0 /\ timer = TRUE
  /\ turn = NoCall
  /\ cleanups = {}
  /\ step = [c \in Call |-> "none"]
  /\ origin = [c \in Call |-> [port |-> 0, turn |-> NoCall]]
  /\ decision = [c \in Call |-> "none"]
  /\ approvals = [i \in Id |-> NoCall]
  /\ grants = {}
  /\ lease = "none"
  /\ site = "none" /\ mode = "manual" /\ surface = TRUE
  /\ acts = 0

-----------------------------------------------------------------------------
(* The clients.                                                              *)

(* call_tool: without a host the answer is ChromeNotConnected at once.       *)
CallTool(c) ==
  /\ relay[c] = "none" /\ ending[Of[c]] = "open"
  /\ relay' = [relay EXCEPT ![c] = IF up THEN "queued" ELSE "over"]
  /\ UNCHANGED <<ending, up, waiter, completionIds, pipes, portVars, turn, cleanups, callVars,
                 approvals, grants, lease, userVars>>

(* The CLI ends, whatever it still waits for (the host relays on), and        *)
(* complete_turn reaches the host if there is one and the 200 ms suffice.     *)
EndClient(k) ==
  /\ ending[k] = "open"
  /\ \E sent \in IF up THEN BOOLEAN ELSE {FALSE} :
       ending' = [ending EXCEPT ![k] = IF sent THEN "accepted" ELSE "over"]
  /\ UNCHANGED <<hostVars, pipes, portVars, turn, cleanups, callVars, approvals, grants, lease,
                 userVars>>

-----------------------------------------------------------------------------
(* The native host.                                                          *)

Holds_UntilWritten(c) == relay[c] = "registered"
Holds(c) == relay[c] \in {"registered", "sent", "answered"}
TransactionFree == \A c \in Call : ~Holds(c)

(* tool_transaction is taken and the response sender registered.             *)
Register(c) ==
  /\ relay[c] = "queued" /\ TransactionFree
  /\ relay' = [relay EXCEPT ![c] = "registered"]
  /\ waiter' = [waiter EXCEPT ![IdOf[c]] = c]
  /\ UNCHANGED <<ending, up, completionIds, pipes, portVars, turn, cleanups, callVars,
                 approvals, grants, lease, userVars>>

WriteTool(c) ==
  /\ relay[c] = "registered"
  /\ toChrome' = Append(toChrome, [kind |-> "tool", of |-> c])
  /\ relay' = [relay EXCEPT ![c] = "sent"]
  /\ UNCHANGED <<ending, up, waiter, completionIds, toHost, portVars, turn, cleanups,
                 callVars, approvals, grants, lease, userVars>>

(* A completion bypasses the transaction; its id is noted before it is sent.  *)
InsertCompletion(k) ==
  /\ ending[k] = "accepted"
  /\ ending' = [ending EXCEPT ![k] = "inserted"]
  /\ completionIds' = completionIds \cup {k}
  /\ UNCHANGED <<up, relay, waiter, pipes, portVars, turn, cleanups, callVars, approvals,
                 grants, lease, userVars>>

WriteCompletion(k) ==
  /\ ending[k] = "inserted"
  /\ ending' = [ending EXCEPT ![k] = "over"]
  /\ toChrome' = Append(toChrome, [kind |-> "complete", of |-> k])
  /\ UNCHANGED <<hostVars, toHost, portVars, turn, cleanups, callVars, approvals, grants,
                 lease, userVars>>

(* Whatever ends the host (among it, a message nobody waits for): its relays  *)
(* are aborted, their clients see the connection close.                       *)
HostDies ==
  /\ up /\ up' = FALSE
  /\ relay' = [c \in Call |-> IF relay[c] = "none" THEN "none" ELSE "over"]
  /\ ending' = [k \in Client |-> IF ending[k] = "open" THEN "open"
                                 ELSE "over"]
  /\ waiter' = [i \in Id |-> NoCall]
  /\ completionIds' = {}
  /\ toChrome' = <<>> /\ toHost' = <<>>
  /\ UNCHANGED <<portVars, turn, cleanups, callVars, approvals, grants, lease, userVars>>

(* read_chrome_messages: an acknowledged completion is dropped, an answer goes *)
(* to the relay that waits for its id.                                        *)
Key(m) == IF m.kind = "tool" THEN IdOf[m.of] ELSE m.of

ReadAck ==
  /\ toHost # <<>> /\ Head(toHost).kind = "complete" /\ Head(toHost).of \in completionIds
  /\ completionIds' = completionIds \ {Head(toHost).of}
  /\ toHost' = Tail(toHost)
  /\ UNCHANGED <<ending, up, relay, waiter, toChrome, portVars, turn, cleanups, callVars,
                 approvals, grants, lease, userVars>>

ReadAnswer ==
  /\ toHost # <<>> /\ Head(toHost).kind = "tool" /\ waiter[Key(Head(toHost))] # NoCall
  /\ LET i == Key(Head(toHost)) IN
       /\ relay' = [relay EXCEPT ![waiter[i]] = "answered"]
       /\ waiter' = [waiter EXCEPT ![i] = NoCall]
  /\ toHost' = Tail(toHost)
  /\ UNCHANGED <<ending, up, completionIds, toChrome, portVars, turn, cleanups, callVars,
                 approvals, grants, lease, userVars>>

(* The relay writes the answer to its client, which may be gone.              *)
Deliver(c) ==
  /\ relay[c] = "answered"
  /\ relay' = [relay EXCEPT ![c] = "over"]
  /\ UNCHANGED <<ending, up, waiter, completionIds, pipes, portVars, turn, cleanups, callVars,
                 approvals, grants, lease, userVars>>

-----------------------------------------------------------------------------
(* The extension: connection and turn.                                       *)

(* postTo: only the port a message came from is answered, and only while it   *)
(* is the current one.                                                        *)
Post_Anyway(p, m) == toHost' = IF up THEN Append(toHost, m) ELSE toHost
Post(p, m) == toHost' = IF up /\ p = port THEN Append(toHost, m) ELSE toHost

(* connect, at the start of the worker and whenever the timer fires.          *)
Connect ==
  /\ timer /\ port = 0 /\ opened + acts < MaxPorts
  /\ timer' = FALSE
  /\ opened' = opened + 1 /\ port' = opened + 1
  /\ up' = TRUE
  /\ UNCHANGED <<ending, relay, waiter, completionIds, pipes, turn, cleanups, callVars,
                 approvals, grants, lease, userVars>>

(* pending.resolve('cancelled') for the entries of these requests.            *)
Pending == {c \in Call : step[c] = "pending"}

Settle_OnlyDeletes(D, answer) ==
  /\ approvals' = [i \in Id |-> IF approvals[i] \in D THEN NoCall ELSE approvals[i]]
  /\ UNCHANGED <<step, decision>>

Settle(D, answer) ==
  /\ step' = [c \in Call |-> IF c \in D THEN "decided" ELSE step[c]]
  /\ decision' = [c \in Call |-> IF c \in D THEN answer ELSE decision[c]]
  /\ approvals' = [i \in Id |-> IF approvals[i] \in D THEN NoCall ELSE approvals[i]]

(* takeTurnId, and the first, synchronous, part of cleanupTurn.               *)
EndTurn(k, p) ==
  /\ turn' = NoCall
  /\ cleanups' = cleanups \cup {[turn |-> turn, of |-> k, port |-> p]}
  /\ Settle(Pending, "cancelled")

(* onDisconnect of the current port, scheduleReconnect included.              *)
OnDisconnect ==
  /\ port # 0 /\ ~up
  /\ port' = 0
  /\ timer' = TRUE
  /\ EndTurn(NoCall, 0)
  /\ UNCHANGED <<ending, hostVars, pipes, opened, origin, grants, lease, userVars>>

(* The rest of cleanupTurn once the presence is cleared: onTurnEnded, and the *)
(* answer to a turnComplete.                                                  *)
FinishCleanup(r) ==
  /\ r \in cleanups
  /\ cleanups' = cleanups \ {r}
  /\ grants' = grants \ {r.turn}
  /\ IF r.of = NoCall THEN UNCHANGED toHost ELSE Post(r.port, [kind |-> "complete", of |-> r.of])
  /\ UNCHANGED <<ending, hostVars, toChrome, portVars, turn, callVars, approvals, lease,
                 userVars>>

(* handleMessage(turnComplete).                                               *)
TurnComplete ==
  /\ port # 0 /\ toChrome # <<>> /\ Head(toChrome).kind = "complete"
  /\ toChrome' = Tail(toChrome)
  /\ EndTurn(Head(toChrome).of, port)
  /\ UNCHANGED <<ending, hostVars, toHost, portVars, origin, grants, lease, userVars>>

(* handleMessage(toolRequest) up to its first await: the turn is bound.       *)
ToolRequest ==
  /\ port # 0 /\ toChrome # <<>> /\ Head(toChrome).kind = "tool"
  /\ LET c == Head(toChrome).of IN
       /\ turn' = IF turn = NoCall THEN c ELSE turn
       /\ origin' = [origin EXCEPT ![c] = [port |-> port, turn |-> turn']]
       /\ step' = [step EXCEPT ![c] = "context"]
  /\ toChrome' = Tail(toChrome)
  /\ UNCHANGED <<ending, hostVars, toHost, portVars, cleanups, decision, approvals,
                 grants, lease, userVars>>

-----------------------------------------------------------------------------
(* The extension: executeWithApproval of one request.                        *)

(* Every way the handler ends posts a toolResponse or an error; its locals go. *)
PostResult_InTurn(c) ==
  IF origin[c].turn = turn THEN Post(origin[c].port, [kind |-> "tool", of |-> c])
  ELSE UNCHANGED toHost
PostResult(c) == Post(origin[c].port, [kind |-> "tool", of |-> c])

Respond(c) ==
  /\ step' = [step EXCEPT ![c] = "done"]
  /\ origin' = [origin EXCEPT ![c] = [port |-> 0, turn |-> NoCall]]
  /\ decision' = [decision EXCEPT ![c] = "none"]
  /\ PostResult(c)

Unanswered(c) ==
  /\ Respond(c)
  /\ UNCHANGED <<ending, hostVars, toChrome, portVars, turn, cleanups, approvals, grants, lease,
                 userVars>>

(* The context keeps the turn the request was bound to at its arrival.        *)
ContextTurn_Current(c) == turn
ContextTurn(c) == origin[c].turn

(* contextFactory: acquire takes the lease there is, whoever made it, or      *)
(* opens a workspace.  After a consent the grant is stored before the tool is *)
(* executed.                                                                 *)
Acquire(c) ==
  /\ step[c] = "context"
  /\ lease' = IF lease = "none" THEN "workspace" ELSE lease
  /\ grants' = IF decision[c] = "turn" THEN grants \cup {ContextTurn(c)} ELSE grants
  /\ site' = IF decision[c] = "always" THEN "always" ELSE site
  /\ step' = [step EXCEPT ![c] = "policy"]
  /\ UNCHANGED <<ending, hostVars, pipes, portVars, turn, cleanups, origin, decision, approvals,
                 mode, surface, acts>>

AcquireFails(c) == step[c] = "context" /\ Unanswered(c)

(* getSiteGrant and evaluateToolPolicy; an approved call needs no second one. *)
SiteGrant(c) == IF ContextTurn(c) \in grants THEN "always" ELSE site

Allowed(c) ==
  \/ SiteGrant(c) = "always"
  \/ SiteGrant(c) # "deny" /\ (mode = "skip" \/ decision[c] \in Consents)

NeedsApproval(c) == SiteGrant(c) = "none" /\ mode = "manual" /\ decision[c] = "none"

Execute(c) ==
  /\ step[c] = "policy" /\ Allowed(c)
  /\ step' = [step EXCEPT ![c] = "running"]
  /\ UNCHANGED <<ending, hostVars, pipes, portVars, turn, cleanups, origin, decision,
                 approvals, grants, lease, userVars>>

(* Denied by the policy, or no panel to ask in.                               *)
Deny(c) ==
  /\ step[c] = "policy" /\ ~Allowed(c) /\ ~(NeedsApproval(c) /\ surface)
  /\ Unanswered(c)

(* The panel is there to ask in; the request is shown after another await.    *)
MayAsk(c) ==
  /\ step[c] = "policy" /\ NeedsApproval(c) /\ surface
  /\ step' = [step EXCEPT ![c] = "asking"]
  /\ UNCHANGED <<ending, hostVars, pipes, portVars, turn, cleanups, origin, decision,
                 approvals, grants, lease, userVars>>

(* waitForApproval: an earlier request of the same id is cancelled.           *)
Earlier_Forgotten(c) == NoCall
Earlier(c) == approvals[IdOf[c]]

Ask(c) ==
  /\ step[c] = "asking"
  /\ LET old == Earlier(c) IN
       /\ step' = [d \in Call |-> IF d = c THEN "pending" ELSE IF d = old THEN "decided"
                                  ELSE step[d]]
       /\ decision' = [d \in Call |-> IF d = old THEN "cancelled" ELSE decision[d]]
  /\ approvals' = [approvals EXCEPT ![IdOf[c]] = c]
  /\ UNCHANGED <<ending, hostVars, pipes, portVars, turn, cleanups, origin, grants,
                 lease, userVars>>

(* TOOL_APPROVE and TOOL_DENY of the request the panel shows.                 *)
UserAnswers(c) ==
  /\ step[c] = "pending" /\ surface
  /\ \E answer \in Consents \cup {"deny"} : Settle({c}, answer)
  /\ UNCHANGED <<ending, hostVars, pipes, portVars, turn, cleanups, origin, grants,
                 lease, userVars>>

(* After 60 s nobody answered.                                                *)
ApprovalTimesOut(c) ==
  /\ step[c] = "pending"
  /\ Settle({c}, "timeout")
  /\ UNCHANGED <<ending, hostVars, pipes, portVars, turn, cleanups, origin, grants,
                 lease, userVars>>

Refused(c) == step[c] = "decided" /\ decision[c] \in Refusals /\ Unanswered(c)

(* A consent: a fresh context for the approved call.                          *)
Approved(c) ==
  /\ step[c] = "decided" /\ decision[c] \in Consents
  /\ step' = [step EXCEPT ![c] = "context"]
  /\ UNCHANGED <<ending, hostVars, pipes, portVars, turn, cleanups, origin, decision,
                 approvals, grants, lease, userVars>>

ToolEnds(c) == step[c] = "running" /\ Unanswered(c)

-----------------------------------------------------------------------------
(* The panel and its user.                                                   *)

Act == opened + acts < MaxPorts /\ acts' = acts + 1

(* A turn of the panel leases the tab its user is on: leaseSourceTab.         *)
PanelTurn ==
  /\ Act
  /\ lease' = "user"
  /\ UNCHANGED <<ending, hostVars, pipes, portVars, turn, cleanups, callVars, approvals, grants,
                 site, mode, surface>>

(* Stop in the panel: cancelTurn cancels every pending approval.              *)
CancelTurn ==
  /\ Pending # {}
  /\ Settle(Pending, "cancelled")
  /\ UNCHANGED <<ending, hostVars, pipes, portVars, turn, cleanups, origin, grants,
                 lease, userVars>>

(* The leased tab is closed: the next restore finds nothing.                  *)
TabCloses ==
  /\ Act
  /\ lease # "none" /\ lease' = "none"
  /\ UNCHANGED <<ending, hostVars, pipes, portVars, turn, cleanups, callVars, approvals, grants,
                 site, mode, surface>>

(* Settings: site grants and permission mode; the panel opens and closes.     *)
UserSets ==
  /\ Act
  /\ \/ site' \in {"none", "always", "deny"} \ {site} /\ UNCHANGED <<mode, surface>>
     \/ mode' \in {"manual", "skip"} \ {mode} /\ UNCHANGED <<site, surface>>
     \/ surface' = ~surface /\ UNCHANGED <<site, mode>>
  /\ UNCHANGED <<ending, hostVars, pipes, portVars, turn, cleanups, callVars, approvals, grants,
                 lease>>

-----------------------------------------------------------------------------
Host ==
  \/ \E c \in Call : Register(c) \/ WriteTool(c) \/ Deliver(c)
  \/ \E k \in Client : InsertCompletion(k) \/ WriteCompletion(k)
  \/ ReadAck \/ ReadAnswer

Handle(c) ==
  \/ Acquire(c) \/ AcquireFails(c) \/ Execute(c) \/ Deny(c) \/ MayAsk(c) \/ Ask(c)
  \/ Refused(c) \/ Approved(c) \/ ToolEnds(c)

Bridge == ToolRequest \/ TurnComplete \/ OnDisconnect \/ \E r \in cleanups : FinishCleanup(r)

Worker == Bridge \/ \E c \in Call : Handle(c) \/ ApprovalTimesOut(c)

User == CancelTurn \/ PanelTurn \/ TabCloses \/ UserSets \/ \E c \in Call : UserAnswers(c)

Next ==
  \/ Host \/ HostDies \/ Worker \/ Connect \/ User
  \/ \E c \in Call : CallTool(c)
  \/ \E k \in Client : EndClient(k)

(* The tasks of the host and of the worker run on and the wait for an approval *)
(* ends; that a tool does is assumed, for nothing times the page out.  Nothing *)
(* makes a user or a CLI act, nor the host start.                            *)
Fairness == WF_vars(Host) /\ WF_vars(Worker)

Spec == Init /\ [][Next]_vars
FairSpec == Spec /\ Fairness

-----------------------------------------------------------------------------
(* Properties.                                                               *)

(* read_chrome_messages ends the host at a message nobody waits for: whatever *)
(* connections came and went, every message on its way to the host is an      *)
(* answer or an acknowledgement its own registry expects, and an answer       *)
(* reaches the relay of the very request it answers, although ids repeat.     *)
ReaderKnows ==
  \A n \in 1 .. Len(toHost) :
    LET m == toHost[n] IN
      IF m.kind = "complete" THEN m.of \in completionIds ELSE waiter[IdOf[m.of]] = m.of

(* tool_transaction in the host serialises the extension: of one connection   *)
(* at most one tool is in its hands, and none that was not sent on it.        *)
InHands(c) == step[c] \notin {"none", "done"}
OneAtATime ==
  \A c, d \in Call : InHands(c) /\ InHands(d) /\ origin[c].port = origin[d].port => c = d

(* Whoever waits for an approval is the one its id leads to, so that an       *)
(* answer, a stop or the end of the turn finds it.                            *)
ApprovalMinded ==
  \A i \in Id : \A c \in Call :
    approvals[i] = c <=> step[c] = "pending" /\ IdOf[c] = i

(* A request the host waits for is still with somebody on this connection: on *)
(* its way to the extension, in its hands, or answered and on its way back.   *)
(* The end of the turn it belonged to, of its approval or of an earlier       *)
(* connection takes nothing away.                                             *)
RequestMinded ==
  \A c \in Call : up /\ relay[c] = "sent" =>
    \/ [kind |-> "tool", of |-> c] \in Range(toChrome) \cup Range(toHost)
    \/ InHands(c) /\ origin[c].port = opened

(* Behind an approval, a tool or a lost connection: the transaction always   *)
(* comes free and no request stays in the host, since again and again all     *)
(* relays there are have ended.                                              *)
RelayEnds == []<>(\A c \in Call : relay[c] \in {"none", "over"})

(* "The MCP/CLI path still uses acquire() below for its invisible workspace;  *)
(* this method is the PANEL path only" (backgroundWorkspace.js:190).          *)
NativeInWorkspace ==
  [][\A c \in Call : step[c] = "context" /\ step'[c] = "policy" => lease' = "workspace"]_vars

=============================================================================
