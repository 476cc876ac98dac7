---------------------------- MODULE BridgeProofs ----------------------------
(***************************************************************************)
(* What BrowserBridge promises for any clients, requests and ids, and any    *)
(* number of connections.                                                    *)
(***************************************************************************)
EXTENDS BrowserBridge, TLAPS

-----------------------------------------------------------------------------
(* A pipe in which no message is twice is a set as far as its members go.     *)

Single(s) == \A m, n \in 1..Len(s) : s[m] = s[n] => m = n

LEMMA EmptyPipe == Range(<< >>) = {} /\ Single(<< >>)
  BY DEF Range, Single

LEMMA HeadTail ==
  ASSUME NEW S, NEW s \in Seq(S), s # << >>, Single(s)
  PROVE  /\ Head(s) \in Range(s) /\ Head(s) \in S
         /\ Tail(s) \in Seq(S) /\ Single(Tail(s))
         /\ Range(Tail(s)) = Range(s) \ {Head(s)}
<1> DEFINE t == Tail(s)
<1>1. Len(s) \in Nat \ {0} /\ Head(s) = s[1] /\ DOMAIN s = 1..Len(s)
  OBVIOUS
<1>2. t \in Seq(S) /\ Len(t) = Len(s) - 1 /\ DOMAIN t = 1..Len(t)
  OBVIOUS
<1>3. \A i \in 1..Len(t) : t[i] = s[i + 1] /\ i + 1 \in 1..Len(s)
  OBVIOUS
<1> HIDE DEF t
<1>4. Single(t)
  <2> SUFFICES ASSUME NEW m \in 1..Len(t), NEW n \in 1..Len(t), t[m] = t[n] PROVE m = n
    BY DEF Single
  <2>1. s[m + 1] = s[n + 1] /\ m + 1 \in 1..Len(s) /\ n + 1 \in 1..Len(s)
    BY <1>3
  <2>2. m + 1 = n + 1
    BY <2>1 DEF Single
  <2> QED
    BY <2>2
<1>5. Range(t) \subseteq Range(s) \ {Head(s)}
  <2> SUFFICES ASSUME NEW i \in 1..Len(t) PROVE t[i] \in Range(s) /\ t[i] # s[1]
    BY <1>1, <1>2 DEF Range
  <2>1. t[i] = s[i + 1] /\ i + 1 \in 1..Len(s)
    BY <1>3
  <2>2. s[i + 1] # s[1]
    BY <2>1, <1>1 DEF Single
  <2> QED
    BY <2>1, <2>2, <1>1 DEF Range
<1>6. Range(s) \ {Head(s)} \subseteq Range(t)
  <2> SUFFICES ASSUME NEW j \in 1..Len(s), s[j] # s[1] PROVE s[j] \in Range(t)
    BY <1>1 DEF Range
  <2>1. j - 1 \in 1..Len(t) /\ j - 1 + 1 = j
    BY <1>1, <1>2
  <2>2. t[j - 1] = s[j]
    BY <2>1, <1>3
  <2> QED
    BY <2>1, <2>2, <1>2 DEF Range
<1>7. Head(s) \in Range(s) /\ Head(s) \in S
  <2>1. 1 \in 1..Len(s)
    BY <1>1
  <2> QED
    BY <2>1, <1>1 DEF Range
<1> QED
  BY <1>2, <1>4, <1>5, <1>6, <1>7 DEF t

LEMMA AppendNew ==
  ASSUME NEW S, NEW s \in Seq(S), NEW x \in S, Single(s), x \notin Range(s)
  PROVE  /\ Append(s, x) \in Seq(S) /\ Single(Append(s, x))
         /\ Range(Append(s, x)) = Range(s) \cup {x}
<1> DEFINE u == Append(s, x)
           l == Len(s)
<1>1. u \in Seq(S) /\ Len(u) = l + 1 /\ DOMAIN u = 1..(l + 1) /\ l \in Nat /\ DOMAIN s = 1..l
  OBVIOUS
<1>2. u[l + 1] = x /\ \A i \in 1..l : u[i] = s[i]
  OBVIOUS
<1>3. \A i \in 1..l : s[i] # x
  BY <1>1 DEF Range
<1>4. \A m, n \in 1..l : s[m] = s[n] => m = n
  BY DEF Single
<1> HIDE DEF u, l
<1>5. \A i \in 1..(l + 1) : i = l + 1 \/ i \in 1..l
  BY <1>1
<1>6. Single(u)
  <2> SUFFICES ASSUME NEW m \in 1..(l + 1), NEW n \in 1..(l + 1), u[m] = u[n] PROVE m = n
    BY <1>1 DEF Single
  <2> QED
    BY <1>2, <1>3, <1>4, <1>5
<1>7. Range(u) = Range(s) \cup {x}
  <2>1. l + 1 \in 1..(l + 1) /\ \A i \in 1..l : i \in 1..(l + 1)
    BY <1>1
  <2> QED
    BY <2>1, <1>1, <1>2, <1>5 DEF Range
<1> QED
  BY <1>1, <1>6, <1>7 DEF u

-----------------------------------------------------------------------------
(* The inductive invariant.                                                   *)

Req(c) == [kind |-> "tool", of |-> c]
Ack(k) == [kind |-> "complete", of |-> k]
Out == Range(toChrome)
Back == Range(toHost)
Messages == {Req(c) : c \in Call} \cup {Ack(k) : k \in Client}

(* No message is twice on its way.                                            *)
PipeInv ==
  /\ toChrome \in Seq(Messages) /\ toHost \in Seq(Messages)
  /\ Single(toChrome) /\ Single(toHost)
  /\ Out \cap Back = {}

(* The host lives no longer than the connection it was opened with, and takes *)
(* along all that was on its way.                                             *)
ConnInv ==
  /\ port \in {0, opened}
  /\ up => port = opened /\ opened # 0
  /\ ~up => /\ Out = {} /\ Back = {} /\ completionIds = {}
            /\ \A c \in Call : relay[c] \in {"none", "over"}
            /\ \A k \in Client : ending[k] \in {"open", "over"}
  /\ \A c \in Call : origin[c].port <= opened
  /\ \A r \in cleanups : r.port <= opened

(* One relay has the transaction, and the waiter of its id until the answer.  *)
HostInv ==
  /\ \A c, d \in Call : Holds(c) /\ Holds(d) => c = d
  /\ \A c \in Call : relay[c] \in {"registered", "sent"} => waiter[IdOf[c]] = c
  /\ \A i \in Id : waiter[i] # NoCall =>
       relay[waiter[i]] \in {"registered", "sent"} /\ IdOf[waiter[i]] = i

(* Where a request is: not yet at the extension, sent to it, in its hands, on *)
(* the way back, or of a connection that is lost.                             *)
Here(c) == InHands(c) /\ origin[c].port = opened

Placed(c) ==
  /\ relay[c] \in {"none", "queued", "registered"} => step[c] = "none"
  /\ Req(c) \in Out => relay[c] = "sent" /\ step[c] = "none"
  /\ Req(c) \in Back => relay[c] = "sent" /\ step[c] = "done"
  /\ up /\ Here(c) => relay[c] = "sent"
  /\ InHands(c) => origin[c].turn \in Call

ToolInv == \A c \in Call : Placed(c)

(* A completion is noted from before it is sent until it is acknowledged.     *)
Closing(r, k) == r \in cleanups /\ r.of = k /\ r.port = opened /\ up

AckInv ==
  \A k \in Client :
    /\ ending[k] = "inserted" => k \in completionIds
    /\ Ack(k) \in Out \cup Back => ending[k] = "over" /\ k \in completionIds
    /\ \A r : Closing(r, k) => /\ ending[k] = "over" /\ k \in completionIds
                              /\ Ack(k) \notin Out \cup Back
    /\ \A r, s : Closing(r, k) /\ Closing(s, k) => r = s

BridgeInv ==
  /\ TypeOK
  /\ PipeInv
  /\ ConnInv
  /\ HostInv
  /\ ToolInv
  /\ AckInv
  /\ ApprovalMinded
  /\ OneAtATime
  /\ RequestMinded

-----------------------------------------------------------------------------
(* Types.                                                                     *)

LEMMA ReqTypes ==
  ASSUME NEW c \in Call
  PROVE  Req(c) \in Messages /\ Req(c) \in Frame /\ Req(c).kind = "tool" /\ Req(c).of = c
  BY DEF Req, Messages, Frame

LEMMA AckTypes ==
  ASSUME NEW k \in Client
  PROVE  Ack(k) \in Messages /\ Ack(k) \in Frame /\ Ack(k).kind = "complete" /\ Ack(k).of = k
  BY DEF Ack, Messages, Frame

LEMMA MessageTypes ==
  ASSUME NEW m \in Messages
  PROVE  /\ m.kind = "tool" => m.of \in Call /\ m = Req(m.of)
         /\ m.kind = "complete" => m.of \in Client /\ m = Ack(m.of)
         /\ m.kind \in {"tool", "complete"}
  BY DEF Req, Ack, Messages

LEMMA MessagesAreFrames == Messages \subseteq Frame /\ Seq(Messages) \subseteq Seq(Frame)
<1>1. Messages \subseteq Frame
  BY ReqTypes, AckTypes DEF Messages
<1> QED
  BY <1>1

(* The first message of a pipe.                                               *)
LEMMA FirstOut ==
  ASSUME PipeInv, toChrome # << >>, toChrome' = Tail(toChrome), UNCHANGED toHost
  PROVE  /\ Head(toChrome) \in Out /\ Head(toChrome) \in Messages
         /\ PipeInv' /\ Out' = Out \ {Head(toChrome)} /\ Back' = Back
<1>1. /\ Head(toChrome) \in Out /\ Head(toChrome) \in Messages
      /\ toChrome' \in Seq(Messages) /\ Single(toChrome') /\ Out' = Out \ {Head(toChrome)}
  BY HeadTail DEF PipeInv, Out
<1>2. Back' = Back
  BY DEF Back
<1> QED
  BY <1>1, <1>2 DEF PipeInv

LEMMA FirstBack ==
  ASSUME PipeInv, toHost # << >>, toHost' = Tail(toHost), UNCHANGED toChrome
  PROVE  /\ Head(toHost) \in Back /\ Head(toHost) \in Messages
         /\ PipeInv' /\ Back' = Back \ {Head(toHost)} /\ Out' = Out
<1>1. /\ Head(toHost) \in Back /\ Head(toHost) \in Messages
      /\ toHost' \in Seq(Messages) /\ Single(toHost') /\ Back' = Back \ {Head(toHost)}
  BY HeadTail DEF PipeInv, Back
<1>2. Out' = Out
  BY DEF Out
<1> QED
  BY <1>1, <1>2 DEF PipeInv

(* A new message at the end of one.                                           *)
LEMMA LastOut ==
  ASSUME PipeInv, NEW m \in Messages, m \notin Out, m \notin Back,
         toChrome' = Append(toChrome, m), UNCHANGED toHost
  PROVE  PipeInv' /\ Out' = Out \cup {m} /\ Back' = Back
<1>1. toChrome' \in Seq(Messages) /\ Single(toChrome') /\ Out' = Out \cup {m}
  BY AppendNew DEF PipeInv, Out
<1>2. Back' = Back
  BY DEF Back
<1> QED
  BY <1>1, <1>2 DEF PipeInv

LEMMA LastBack ==
  ASSUME PipeInv, NEW m \in Messages, m \notin Out, m \notin Back,
         toHost' = Append(toHost, m), UNCHANGED toChrome
  PROVE  PipeInv' /\ Back' = Back \cup {m} /\ Out' = Out
<1>1. toHost' \in Seq(Messages) /\ Single(toHost') /\ Back' = Back \cup {m}
  BY AppendNew DEF PipeInv, Back
<1>2. Out' = Out
  BY DEF Out
<1> QED
  BY <1>1, <1>2 DEF PipeInv

LEMMA TypesOfPipes == ASSUME PipeInv PROVE toChrome \in Seq(Frame) /\ toHost \in Seq(Frame)
  BY MessagesAreFrames DEF PipeInv

LEMMA InitBridge == Init => BridgeInv
<1> SUFFICES ASSUME Init PROVE BridgeInv
  OBVIOUS
<1>1. Out = {} /\ Back = {} /\ Single(toChrome) /\ Single(toHost)
  BY EmptyPipe DEF Init, Out, Back
<1>2. TypeOK
  <2>1. toChrome \in Seq(Frame) /\ toHost \in Seq(Frame)
    BY DEF Init
  <2>2. 0 \in Ports
    BY BoundsAssumption DEF Ports
  <2> QED
    BY <2>1, <2>2 DEF Init, TypeOK, Tab, Consents, Refusals
<1>3. PipeInv
  BY <1>1 DEF Init, PipeInv
<1>4. ConnInv /\ HostInv
  BY <1>1, CallAssumption, OfAssumption DEF Init, ConnInv, HostInv, Holds
<1>5. ToolInv /\ AckInv
  BY <1>1 DEF Init, ToolInv, Placed, AckInv, Here, InHands, Closing
<1>6. ApprovalMinded /\ OneAtATime /\ RequestMinded
  BY CallAssumption DEF Init, ApprovalMinded, OneAtATime, RequestMinded, InHands
<1> QED
  BY <1>2, <1>3, <1>4, <1>5, <1>6 DEF BridgeInv

LEMMA HostTypes ==
  ASSUME TypeOK, PipeInv', HostInv, Host \/ HostDies
  PROVE  TypeOK'
<1> USE DEF TypeOK
<1>1. toChrome' \in Seq(Frame) /\ toHost' \in Seq(Frame)
  BY TypesOfPipes, MessagesAreFrames DEF PipeInv
<1>2. ASSUME NEW c \in Call, Register(c) PROVE TypeOK'
  BY <1>2, OfAssumption DEF Register, pipes, portVars, callVars, userVars
<1>3. ASSUME NEW c \in Call, WriteTool(c) PROVE TypeOK'
  BY <1>1, <1>3 DEF WriteTool, portVars, callVars, userVars
<1>4. ASSUME NEW c \in Call, Deliver(c) PROVE TypeOK'
  BY <1>4 DEF Deliver, pipes, portVars, callVars, userVars
<1>5. ASSUME NEW k \in Client, InsertCompletion(k) PROVE TypeOK'
  BY <1>5 DEF InsertCompletion, pipes, portVars, callVars, userVars
<1>6. ASSUME NEW k \in Client, WriteCompletion(k) PROVE TypeOK'
  BY <1>1, <1>6 DEF WriteCompletion, hostVars, portVars, callVars, userVars
<1>7. CASE ReadAck
  BY <1>1, <1>7 DEF ReadAck, portVars, callVars, userVars
<1>8. CASE ReadAnswer
  <2> DEFINE i == Key(Head(toHost))
  <2>1. /\ relay' = [relay EXCEPT ![waiter[i]] = "answered"]
        /\ waiter' = [waiter EXCEPT ![i] = NoCall]
    BY <1>8 DEF ReadAnswer
  <2> QED
    BY <2>1, <1>1, <1>8 DEF ReadAnswer, portVars, callVars, userVars
<1>9. CASE HostDies
  BY <1>1, <1>9 DEF HostDies, portVars, callVars, userVars
<1> QED
  BY <1>2, <1>3, <1>4, <1>5, <1>6, <1>7, <1>8, <1>9 DEF Host

LEMMA HandleTypes ==
  ASSUME TypeOK, ToolInv, PipeInv', NEW c \in Call,
         Handle(c) \/ UserAnswers(c) \/ ApprovalTimesOut(c)
  PROVE  TypeOK'
<1> USE DEF TypeOK
<1>1. toChrome' \in Seq(Frame) /\ toHost' \in Seq(Frame)
  BY TypesOfPipes, MessagesAreFrames DEF PipeInv
<1>2. ASSUME Unanswered(c) PROVE TypeOK'
  <2>1. 0 \in Ports
    BY BoundsAssumption DEF Ports
  <2> QED
    BY <2>1, <1>1, <1>2 DEF Unanswered, Respond, hostVars, portVars, userVars
<1>3. CASE Acquire(c)
  <2>1. InHands(c)
    BY <1>3 DEF Acquire, InHands
  <2>2. origin[c].turn \in Call
    BY <2>1 DEF ToolInv, Placed
  <2> QED
    BY <2>2, <1>3 DEF Acquire, hostVars, pipes, portVars, ContextTurn, Tab
<1>4. CASE Execute(c) \/ MayAsk(c) \/ Approved(c)
  BY <1>4 DEF Execute, MayAsk, Approved, hostVars, pipes, portVars, userVars
<1>5. CASE Ask(c)
  <2>1. decision' \in [Call -> {"none"} \cup Consents \cup Refusals]
    BY <1>5 DEF Ask, Refusals
  <2>2. step' = [d \in Call |-> IF d = c THEN "pending" ELSE IF d = Earlier(c) THEN "decided" ELSE step[d]]
    BY <1>5 DEF Ask
  <2> QED
    BY <2>1, <2>2, <1>5, OfAssumption DEF Ask, hostVars, pipes, portVars, userVars
<1>6. ASSUME NEW answer \in Consents \cup Refusals, Settle({c}, answer),
             UNCHANGED <<ending, hostVars, pipes, portVars, turn, cleanups, origin, grants, lease,
                         userVars>>
      PROVE  TypeOK'
  BY <1>6 DEF Settle, hostVars, pipes, portVars, userVars
<1>7. CASE UserAnswers(c)
  BY <1>6, <1>7 DEF UserAnswers, Refusals
<1>8. CASE ApprovalTimesOut(c)
  BY <1>6, <1>8 DEF ApprovalTimesOut, Refusals
<1> QED
  BY <1>2, <1>3, <1>4, <1>5, <1>7, <1>8 DEF Handle, AcquireFails, Deny, Refused, ToolEnds

LEMMA BridgeTypes ==
  ASSUME TypeOK, PipeInv, PipeInv', Bridge \/ Connect
  PROVE  TypeOK'
<1> USE DEF TypeOK
<1>1. toChrome' \in Seq(Frame) /\ toHost' \in Seq(Frame)
  BY TypesOfPipes, MessagesAreFrames DEF PipeInv
<1>2. ASSUME NEW k \in Client \cup {NoCall}, NEW p \in Ports, EndTurn(k, p)
      PROVE  /\ turn' \in Call \cup {NoCall}
             /\ cleanups' \subseteq [turn : Call \cup {NoCall}, of : Client \cup {NoCall}, port : Ports]
             /\ step' \in [Call -> {"none", "context", "policy", "asking", "pending", "decided",
                                    "running", "done"}]
             /\ decision' \in [Call -> {"none"} \cup Consents \cup Refusals]
             /\ approvals' \in [Id -> Call \cup {NoCall}]
  BY <1>2 DEF EndTurn, Settle, Refusals
<1>3. CASE ToolRequest
  <2> DEFINE c == Head(toChrome).of
  <2>1. c \in Call
    BY <1>3, HeadTail, MessageTypes DEF ToolRequest, PipeInv
  <2>2. turn' = (IF turn = NoCall THEN c ELSE turn) /\ turn' \in Call \cup {NoCall}
    BY <2>1, <1>3 DEF ToolRequest
  <2>3. /\ origin' = [origin EXCEPT ![c] = [port |-> port, turn |-> turn']]
        /\ step' = [step EXCEPT ![c] = "context"]
    BY <1>3 DEF ToolRequest
  <2> HIDE DEF c
  <2>4. origin' \in [Call -> [port : Ports, turn : Call \cup {NoCall}]]
    BY <2>1, <2>2, <2>3
  <2> QED
    BY <2>1, <2>2, <2>3, <2>4, <1>1, <1>3 DEF ToolRequest, hostVars, portVars, userVars
<1>4. CASE TurnComplete
  <2> DEFINE k == Head(toChrome).of
  <2>1. k \in Client
    BY <1>4, HeadTail, MessageTypes DEF TurnComplete, PipeInv
  <2>2. EndTurn(k, port)
    BY <1>4 DEF TurnComplete
  <2> HIDE DEF k
  <2> QED
    BY <2>1, <2>2, <1>1, <1>2, <1>4 DEF TurnComplete, hostVars, portVars, userVars
<1>5. CASE OnDisconnect
  <2>1. 0 \in Ports
    BY BoundsAssumption DEF Ports
  <2>2. EndTurn(NoCall, 0)
    BY <1>5 DEF OnDisconnect
  <2> QED
    BY <2>1, <2>2, <1>2, <1>5 DEF OnDisconnect, hostVars, pipes, userVars
<1>6. ASSUME NEW r \in cleanups, FinishCleanup(r) PROVE TypeOK'
  BY <1>1, <1>6 DEF FinishCleanup, hostVars, portVars, callVars, userVars
<1>7. CASE Connect
  <2>1. opened + 1 \in Ports
    BY <1>7, BoundsAssumption DEF Connect, Ports
  <2> QED
    BY <2>1, <1>7 DEF Connect, pipes, callVars, userVars
<1> QED
  BY <1>3, <1>4, <1>5, <1>6, <1>7 DEF Bridge

LEMMA UserTypes ==
  ASSUME TypeOK,
         \/ CancelTurn \/ PanelTurn \/ TabCloses \/ UserSets
         \/ \E c \in Call : CallTool(c)
         \/ \E k \in Client : EndClient(k)
  PROVE  TypeOK'
<1> USE DEF TypeOK
<1>1. Act => acts' \in Ports
  BY BoundsAssumption DEF Act, Ports
<1>2. CASE CancelTurn
  BY <1>2 DEF CancelTurn, Settle, Refusals, hostVars, pipes, portVars, userVars
<1>3. CASE PanelTurn \/ TabCloses
  BY <1>1, <1>3 DEF PanelTurn, TabCloses, Tab, hostVars, pipes, portVars, callVars, userVars
<1>4. CASE UserSets
  BY <1>1, <1>4 DEF UserSets, hostVars, pipes, portVars, callVars, userVars
<1>5. ASSUME NEW c \in Call, CallTool(c) PROVE TypeOK'
  BY <1>5 DEF CallTool, pipes, portVars, callVars, userVars
<1>6. ASSUME NEW k \in Client, EndClient(k) PROVE TypeOK'
  BY <1>6 DEF EndClient, hostVars, pipes, portVars, callVars, userVars
<1> QED
  BY <1>2, <1>3, <1>4, <1>5, <1>6

-----------------------------------------------------------------------------
(* The handler of a request, its approval and the user's.                     *)

(* The parts that only depend on where requests and completions are.          *)
PlaceInv == PipeInv /\ ConnInv /\ HostInv /\ ToolInv /\ AckInv /\ OneAtATime /\ RequestMinded

(* A step that leaves every request in the hands it is in.                    *)
LEMMA QuietPlaces ==
  ASSUME BridgeInv, UNCHANGED <<ending, hostVars, pipes, portVars, cleanups, origin>>,
         \A c \in Call : step'[c] = step[c] \/ (InHands(c) /\ InHands(c)')
  PROVE  PlaceInv'
<1>1. Out' = Out /\ Back' = Back
  BY DEF Out, Back, pipes
<1>2. \A c \in Call : /\ InHands(c)' <=> InHands(c)
                      /\ step'[c] = "none" <=> step[c] = "none"
                      /\ step'[c] = "done" <=> step[c] = "done"
  BY DEF InHands
<1>3. /\ UNCHANGED <<ending, up, relay, waiter, completionIds, toChrome, toHost, port, opened>>
      /\ UNCHANGED <<cleanups, origin>>
  BY DEF hostVars, pipes, portVars
<1>4. PipeInv' /\ ConnInv' /\ HostInv'
  BY <1>1, <1>3 DEF BridgeInv, PipeInv, ConnInv, HostInv, Holds
<1>5. ToolInv' /\ OneAtATime'
  BY <1>1, <1>2, <1>3 DEF BridgeInv, ToolInv, Placed, OneAtATime, Here
<1>6. AckInv'
  BY <1>1, <1>3 DEF BridgeInv, AckInv, Closing
<1>7. RequestMinded'
  BY <1>2, <1>3 DEF BridgeInv, RequestMinded
<1> QED
  BY <1>4, <1>5, <1>6, <1>7 DEF PlaceInv

(* The handler of a request ends, and answers.                                *)
LEMMA RespondPlaces ==
  ASSUME BridgeInv, NEW c \in Call, InHands(c), step[c] # "pending", Unanswered(c)
  PROVE  PlaceInv' /\ ApprovalMinded'
<1>1. /\ UNCHANGED <<ending, up, relay, waiter, completionIds, toChrome, port, opened, cleanups, approvals>>
      /\ step' = [step EXCEPT ![c] = "done"]
      /\ origin' = [origin EXCEPT ![c] = [port |-> 0, turn |-> NoCall]]
      /\ toHost' = IF up /\ origin[c].port = port THEN Append(toHost, Req(c)) ELSE toHost
  BY DEF Unanswered, Respond, PostResult, Post, Req, hostVars, portVars
<1>2. step \in [Call -> {"none", "context", "policy", "asking", "pending", "decided", "running", "done"}]
  BY DEF BridgeInv, TypeOK
<1>3. origin \in [Call -> [port : Ports, turn : Call \cup {NoCall}]] /\ opened \in Nat
  BY BoundsAssumption DEF BridgeInv, TypeOK, Ports
<1>4. Req(c) \notin Out \cup Back /\ Req(c) \in Messages
  BY ReqTypes DEF BridgeInv, ToolInv, Placed, InHands
<1>5. \A d \in Call : /\ d # c => step'[d] = step[d] /\ origin'[d] = origin[d]
                      /\ InHands(d)' <=> InHands(d) /\ d # c
  BY <1>1, <1>2, <1>3 DEF InHands
<1>6. step'[c] = "done" /\ origin'[c].port = 0
  BY <1>1, <1>2, <1>3
<1>7. CASE up /\ origin[c].port = port
  <2>1. PipeInv' /\ Out' = Out /\ Back' = Back \cup {Req(c)}
    BY <1>1, <1>4, <1>7, LastBack DEF BridgeInv
  <2>2. relay[c] = "sent" /\ ~(~up)
    BY <1>7 DEF BridgeInv, ConnInv, ToolInv, Placed, Here
  <2>3. ConnInv' /\ HostInv'
    BY <1>1, <1>3, <1>5, <1>6, <2>1, <2>2 DEF BridgeInv, ConnInv, HostInv, Holds
  <2>4. \A d \in Call : Req(d) \in Back' => d = c \/ Req(d) \in Back
    BY <2>1 DEF Req
  <2>5. ToolInv' /\ OneAtATime'
    <3>1. ASSUME NEW d \in Call, d # c PROVE Placed(d)'
      BY <1>1, <1>5, <2>1, <2>4, <3>1 DEF BridgeInv, ToolInv, Placed, Here
    <3>2. Placed(c)'
      BY <1>1, <1>4, <1>5, <1>6, <2>1, <2>2 DEF Placed
    <3>3. OneAtATime'
      BY <1>5 DEF BridgeInv, OneAtATime
    <3> QED
      BY <3>1, <3>2, <3>3 DEF ToolInv
  <2>6. AckInv'
    <3>1. \A k \in Client : Ack(k) \in Back' => Ack(k) \in Back
      BY <2>1 DEF Req, Ack
    <3> QED
      BY <1>1, <2>1, <3>1 DEF BridgeInv, AckInv, Closing
  <2>7. RequestMinded'
    <3>1. Req(c) \in Out' \cup Back'
      BY <2>1
    <3> QED
      BY <1>1, <1>5, <2>1, <3>1 DEF BridgeInv, RequestMinded, Out, Back, Req
  <2> QED
    BY <1>1, <1>5, <1>6, <2>1, <2>3, <2>5, <2>6, <2>7 DEF PlaceInv, BridgeInv, ApprovalMinded
<1>8. CASE ~(up /\ origin[c].port = port)
  <2>1. UNCHANGED toHost /\ Out' = Out /\ Back' = Back
    BY <1>1, <1>8 DEF Out, Back
  <2>2. PipeInv' /\ ConnInv' /\ HostInv'
    BY <1>1, <1>3, <1>5, <1>6, <2>1 DEF BridgeInv, PipeInv, ConnInv, HostInv, Holds
  <2>3. ToolInv' /\ OneAtATime'
    <3>1. step[c] # "none" /\ step[c] # "done"
      BY DEF InHands
    <3> QED
      BY <1>1, <1>4, <1>5, <1>6, <2>1, <3>1 DEF BridgeInv, ToolInv, Placed, OneAtATime, Here
  <2>4. AckInv'
    BY <1>1, <2>1 DEF BridgeInv, AckInv, Closing
  <2>5. RequestMinded'
    <3>1. ~(up /\ origin[c].port = opened)
      BY <1>8 DEF BridgeInv, ConnInv
    <3> QED
      BY <1>1, <1>5, <2>1, <3>1 DEF BridgeInv, RequestMinded
  <2> QED
    BY <1>1, <1>5, <1>6, <2>2, <2>3, <2>4, <2>5 DEF PlaceInv, BridgeInv, ApprovalMinded
<1> QED
  BY <1>7, <1>8

(* The end of a wait for an approval, whoever ends it.                        *)
LEMMA SettleStep ==
  ASSUME BridgeInv, NEW D \in SUBSET Pending, NEW answer, Settle(D, answer),
         UNCHANGED <<ending, hostVars, pipes, portVars, cleanups, origin>>
  PROVE  PlaceInv' /\ ApprovalMinded'
<1>1. \A c \in Call : step'[c] = IF c \in D THEN "decided" ELSE step[c]
  BY DEF Settle
<1>2. \A c \in D : step[c] = "pending"
  BY DEF Pending
<1>3. \A c \in Call : step'[c] = step[c] \/ (InHands(c) /\ InHands(c)')
  BY <1>1, <1>2 DEF InHands
<1>4. \A i \in Id : approvals'[i] = IF approvals[i] \in D THEN NoCall ELSE approvals[i]
  BY DEF Settle
<1>5. ApprovalMinded'
  BY <1>1, <1>2, <1>4, CallAssumption DEF BridgeInv, ApprovalMinded
<1> QED
  BY <1>3, <1>5, QuietPlaces

LEMMA HandlePlaces ==
  ASSUME BridgeInv, NEW c \in Call, Handle(c) \/ UserAnswers(c) \/ ApprovalTimesOut(c)
  PROVE  PlaceInv' /\ ApprovalMinded'
<1>1. step \in [Call -> {"none", "context", "policy", "asking", "pending", "decided", "running", "done"}]
  BY DEF BridgeInv, TypeOK
<1>2. CASE AcquireFails(c) \/ Deny(c) \/ Refused(c) \/ ToolEnds(c)
  <2>1. InHands(c) /\ step[c] # "pending" /\ Unanswered(c)
    BY <1>2 DEF AcquireFails, Deny, Refused, ToolEnds, InHands
  <2> QED
    BY <2>1, RespondPlaces
<1>3. CASE Acquire(c) \/ Execute(c) \/ MayAsk(c) \/ Approved(c)
  <2>1. /\ UNCHANGED <<ending, hostVars, pipes, portVars, cleanups, origin, approvals>>
        /\ step[c] \in {"context", "policy", "decided"}
        /\ \E s \in {"context", "policy", "asking", "running"} : step' = [step EXCEPT ![c] = s]
    BY <1>3 DEF Acquire, Execute, MayAsk, Approved
  <2>2. \A d \in Call : /\ step'[d] = step[d] \/ (InHands(d) /\ InHands(d)')
                        /\ step'[d] = "pending" <=> step[d] = "pending"
    BY <1>1, <2>1 DEF InHands
  <2> QED
    BY <2>1, <2>2, QuietPlaces DEF BridgeInv, ApprovalMinded
<1>4. CASE Ask(c)
  <2> DEFINE old == Earlier(c)
  <2>1. /\ UNCHANGED <<ending, hostVars, pipes, portVars, cleanups, origin>>
        /\ step[c] = "asking"
        /\ approvals' = [approvals EXCEPT ![IdOf[c]] = c]
        /\ \A d \in Call : step'[d] = IF d = c THEN "pending" ELSE IF d = old THEN "decided" ELSE step[d]
    BY <1>4 DEF Ask
  <2>2. IdOf[c] \in Id /\ approvals \in [Id -> Call \cup {NoCall}]
    BY OfAssumption DEF BridgeInv, TypeOK
  <2>3. old \in Call => step[old] = "pending" /\ IdOf[old] = IdOf[c]
    BY <2>2 DEF Earlier, BridgeInv, ApprovalMinded
  <2>4. \A d \in Call : step'[d] = step[d] \/ (InHands(d) /\ InHands(d)')
    BY <2>1, <2>3 DEF InHands
  <2>5. ASSUME NEW i \in Id, NEW d \in Call
        PROVE  approvals'[i] = d <=> step'[d] = "pending" /\ IdOf[d] = i
    <3>1. approvals[i] = d <=> step[d] = "pending" /\ IdOf[d] = i
      BY DEF BridgeInv, ApprovalMinded
    <3>2. CASE i # IdOf[c]
      <4>1. approvals'[i] = approvals[i]
        BY <2>1, <2>2, <3>2
      <4> QED
        BY <4>1, <2>1, <2>3, <3>1, <3>2
    <3>3. CASE i = IdOf[c]
      <4>1. approvals'[i] = c /\ old = approvals[i]
        BY <2>1, <2>2, <3>3 DEF Earlier
      <4> QED
        BY <4>1, <2>1, <2>3, <3>1, <3>3
    <3> QED
      BY <3>2, <3>3
  <2> QED
    BY <2>1, <2>4, <2>5, QuietPlaces DEF ApprovalMinded
<1>5. CASE UserAnswers(c) \/ ApprovalTimesOut(c)
  <2>1. /\ \E answer : Settle({c}, answer)
        /\ {c} \in SUBSET Pending
        /\ UNCHANGED <<ending, hostVars, pipes, portVars, cleanups, origin>>
    BY <1>5 DEF UserAnswers, ApprovalTimesOut, Pending
  <2> QED
    BY <2>1, SettleStep
<1> QED
  BY <1>2, <1>3, <1>4, <1>5 DEF Handle

LEMMA UserPlaces ==
  ASSUME BridgeInv,
         \/ CancelTurn \/ PanelTurn \/ TabCloses \/ UserSets
         \/ \E c \in Call : CallTool(c)
         \/ \E k \in Client : EndClient(k)
  PROVE  PlaceInv' /\ ApprovalMinded'
<1>1. CASE CancelTurn
  <2>1. Pending \in SUBSET Pending
    OBVIOUS
  <2> QED
    BY <1>1, <2>1, SettleStep DEF CancelTurn
<1>2. CASE PanelTurn \/ TabCloses \/ UserSets
  <2>1. UNCHANGED <<ending, hostVars, pipes, portVars, cleanups, origin, step, approvals>>
    BY <1>2 DEF PanelTurn, TabCloses, UserSets, callVars
  <2> QED
    BY <2>1, QuietPlaces DEF BridgeInv, ApprovalMinded
<1>3. ASSUME NEW c \in Call, CallTool(c) PROVE PlaceInv' /\ ApprovalMinded'
  <2>1. /\ UNCHANGED <<ending, up, waiter, completionIds, toChrome, toHost, port, opened, cleanups, step, origin, approvals>>
        /\ relay[c] = "none" /\ relay' = [relay EXCEPT ![c] = IF up THEN "queued" ELSE "over"]
        /\ relay \in [Call -> {"none", "queued", "registered", "sent", "answered", "over"}]
    BY <1>3 DEF CallTool, pipes, portVars, callVars, BridgeInv, TypeOK
  <2>2. Out' = Out /\ Back' = Back
    BY <2>1 DEF Out, Back
  <2>3. \A d \in Call : d # c => relay'[d] = relay[d]
    BY <2>1
  <2>4. relay'[c] \in {"queued", "over"} /\ (up => relay'[c] = "queued") /\ (~up => relay'[c] = "over")
    BY <2>1
  <2>5. PipeInv' /\ ConnInv'
    BY <2>1, <2>2, <2>3, <2>4 DEF BridgeInv, PipeInv, ConnInv
  <2>6. HostInv'
    BY <2>1, <2>3, <2>4, CallAssumption DEF BridgeInv, TypeOK, HostInv, Holds
  <2>7. ToolInv'
    BY <2>1, <2>2, <2>3, <2>4 DEF BridgeInv, ToolInv, Placed, Here, InHands
  <2>8. AckInv' /\ OneAtATime' /\ ApprovalMinded'
    BY <2>1, <2>2 DEF BridgeInv, AckInv, Closing, OneAtATime, ApprovalMinded, InHands
  <2>9. RequestMinded'
    BY <2>1, <2>3, <2>4 DEF BridgeInv, RequestMinded, InHands
  <2> QED
    BY <2>5, <2>6, <2>7, <2>8, <2>9 DEF PlaceInv
<1>4. ASSUME NEW k \in Client, EndClient(k) PROVE PlaceInv' /\ ApprovalMinded'
  <2>1. /\ UNCHANGED <<up, relay, waiter, completionIds, toChrome, toHost, port, opened, cleanups, step, origin, approvals>>
        /\ ending[k] = "open"
        /\ \E e \in {"accepted", "over"} : ending' = [ending EXCEPT ![k] = e] /\ (~up => e = "over")
        /\ ending \in [Client -> {"open", "accepted", "inserted", "over"}]
    BY <1>4 DEF EndClient, hostVars, pipes, portVars, callVars, BridgeInv, TypeOK
  <2>2. Out' = Out /\ Back' = Back
    BY <2>1 DEF Out, Back
  <2>3. PipeInv' /\ ConnInv' /\ HostInv' /\ ToolInv'
    BY <2>1, <2>2 DEF BridgeInv, PipeInv, ConnInv, HostInv, Holds, ToolInv, Placed, Here, InHands
  <2>4. AckInv'
    BY <2>1, <2>2 DEF BridgeInv, AckInv, Closing
  <2>5. OneAtATime' /\ ApprovalMinded' /\ RequestMinded'
    BY <2>1 DEF BridgeInv, OneAtATime, ApprovalMinded, RequestMinded, InHands
  <2> QED
    BY <2>3, <2>4, <2>5 DEF PlaceInv
<1> QED
  BY <1>1, <1>2, <1>3, <1>4

-----------------------------------------------------------------------------
(* The host.                                                                  *)

(* Nobody holds the transaction: no id has a waiter, no request is at Chrome. *)
LEMMA FreeTransaction ==
  ASSUME BridgeInv, TransactionFree
  PROVE  /\ \A i \in Id : waiter[i] = NoCall
         /\ \A c \in Call : Req(c) \notin Out \cup Back /\ ~(up /\ Here(c))
<1>1. \A i \in Id : waiter[i] \in Call \cup {NoCall}
  BY DEF BridgeInv, TypeOK
<1>2. \A c \in Call : relay[c] \notin {"registered", "sent"}
  BY DEF TransactionFree, Holds
<1> QED
  BY <1>1, <1>2 DEF BridgeInv, HostInv, ToolInv, Placed

LEMMA RegisterPlaces ==
  ASSUME BridgeInv, NEW c \in Call, Register(c)
  PROVE  PlaceInv' /\ ApprovalMinded'
<1>1. /\ UNCHANGED <<ending, up, completionIds, toChrome, toHost, port, opened, cleanups, step, origin, approvals>>
      /\ relay[c] = "queued" /\ relay' = [relay EXCEPT ![c] = "registered"]
      /\ waiter' = [waiter EXCEPT ![IdOf[c]] = c]
      /\ TransactionFree
      /\ relay \in [Call -> {"none", "queued", "registered", "sent", "answered", "over"}]
      /\ waiter \in [Id -> Call \cup {NoCall}]
  BY DEF Register, pipes, portVars, callVars, BridgeInv, TypeOK
<1>2. Out' = Out /\ Back' = Back
  BY <1>1 DEF Out, Back
<1>3. \A d \in Call : d # c => relay'[d] = relay[d]
  BY <1>1
<1>4. relay'[c] = "registered" /\ up
  BY <1>1 DEF BridgeInv, ConnInv
<1>5. PipeInv' /\ ConnInv' /\ AckInv' /\ OneAtATime' /\ ApprovalMinded'
  BY <1>1, <1>2, <1>4 DEF BridgeInv, PipeInv, ConnInv, AckInv, Closing, OneAtATime, ApprovalMinded, InHands
<1>6. HostInv'
  <2>1. \A d \in Call : ~Holds(d)
    BY <1>1 DEF TransactionFree
  <2>2. \A d \in Call : Holds(d)' => d = c
    BY <1>3, <2>1 DEF Holds
  <2>3. IdOf[c] \in Id /\ waiter'[IdOf[c]] = c /\ \A i \in Id : i # IdOf[c] => waiter'[i] = waiter[i]
    BY <1>1, OfAssumption
  <2>4. \A i \in Id : waiter'[i] # NoCall => i = IdOf[c]
    BY <1>1, <2>3, FreeTransaction
  <2> QED
    BY <1>4, <2>2, <2>3, <2>4 DEF HostInv, Holds
<1>7. ToolInv' /\ RequestMinded'
  BY <1>1, <1>2, <1>3, <1>4, FreeTransaction DEF BridgeInv, ToolInv, Placed, RequestMinded, Here, InHands
<1> QED
  BY <1>5, <1>6, <1>7 DEF PlaceInv

LEMMA WriteToolPlaces ==
  ASSUME BridgeInv, NEW c \in Call, WriteTool(c)
  PROVE  PlaceInv' /\ ApprovalMinded'
<1>1. /\ UNCHANGED <<ending, up, waiter, completionIds, toHost, port, opened, cleanups, step, origin, approvals>>
      /\ relay[c] = "registered" /\ relay' = [relay EXCEPT ![c] = "sent"]
      /\ toChrome' = Append(toChrome, Req(c))
      /\ relay \in [Call -> {"none", "queued", "registered", "sent", "answered", "over"}]
  BY DEF WriteTool, Req, portVars, callVars, BridgeInv, TypeOK
<1>2. Req(c) \in Messages /\ Req(c) \notin Out /\ Req(c) \notin Back /\ step[c] = "none"
  BY <1>1, ReqTypes DEF BridgeInv, ToolInv, Placed
<1>3. PipeInv' /\ Out' = Out \cup {Req(c)} /\ Back' = Back
  BY <1>1, <1>2, LastOut DEF BridgeInv
<1>4. \A d \in Call : d # c => relay'[d] = relay[d]
  BY <1>1
<1>5. relay'[c] = "sent" /\ up
  BY <1>1 DEF BridgeInv, ConnInv
<1>6. ConnInv' /\ HostInv'
  BY <1>1, <1>3, <1>4, <1>5 DEF BridgeInv, ConnInv, HostInv, Holds
<1>7. ToolInv'
  <2>1. \A d \in Call : Req(d) \in Out' => d = c \/ Req(d) \in Out
    BY <1>3 DEF Req
  <2> QED
    BY <1>1, <1>2, <1>3, <1>4, <1>5, <2>1 DEF BridgeInv, ToolInv, Placed, Here, InHands
<1>8. AckInv'
  <2>1. \A k \in Client : Ack(k) \in Out' => Ack(k) \in Out
    BY <1>3 DEF Req, Ack
  <2> QED
    BY <1>1, <1>3, <2>1 DEF BridgeInv, AckInv, Closing
<1>9. OneAtATime' /\ ApprovalMinded'
  BY <1>1 DEF BridgeInv, OneAtATime, ApprovalMinded, InHands
<1>10. RequestMinded'
  <2>1. Req(c) \in Out'
    BY <1>3
  <2> QED
    BY <1>1, <1>3, <1>4, <2>1 DEF BridgeInv, RequestMinded, InHands, Out, Back, Req
<1> QED
  BY <1>3, <1>6, <1>7, <1>8, <1>9, <1>10 DEF PlaceInv

LEMMA DeliverPlaces ==
  ASSUME BridgeInv, NEW c \in Call, Deliver(c)
  PROVE  PlaceInv' /\ ApprovalMinded'
<1>1. /\ UNCHANGED <<ending, up, waiter, completionIds, toChrome, toHost, port, opened, cleanups, step, origin, approvals>>
      /\ relay[c] = "answered" /\ relay' = [relay EXCEPT ![c] = "over"]
      /\ relay \in [Call -> {"none", "queued", "registered", "sent", "answered", "over"}]
      /\ waiter \in [Id -> Call \cup {NoCall}]
  BY DEF Deliver, pipes, portVars, callVars, BridgeInv, TypeOK
<1>2. Out' = Out /\ Back' = Back
  BY <1>1 DEF Out, Back
<1>3. relay'[c] = "over" /\ \A d \in Call : d # c => relay'[d] = relay[d]
  BY <1>1
<1>4. PipeInv' /\ ConnInv' /\ AckInv' /\ OneAtATime' /\ ApprovalMinded'
  BY <1>1, <1>2, <1>3 DEF BridgeInv, PipeInv, ConnInv, AckInv, Closing, OneAtATime, ApprovalMinded, InHands
<1>5. HostInv'
  BY <1>1, <1>3 DEF BridgeInv, HostInv, Holds
<1>6. ToolInv' /\ RequestMinded'
  BY <1>1, <1>2, <1>3 DEF BridgeInv, ToolInv, Placed, RequestMinded, Here, InHands
<1> QED
  BY <1>4, <1>5, <1>6 DEF PlaceInv

LEMMA CompletionPlaces ==
  ASSUME BridgeInv, NEW k \in Client, InsertCompletion(k) \/ WriteCompletion(k)
  PROVE  PlaceInv' /\ ApprovalMinded'
<1>0. ending \in [Client -> {"open", "accepted", "inserted", "over"}]
  BY DEF BridgeInv, TypeOK
<1>1. CASE InsertCompletion(k)
  <2>1. /\ UNCHANGED <<up, relay, waiter, toChrome, toHost, port, opened, cleanups, step, origin, approvals>>
        /\ ending[k] = "accepted" /\ ending' = [ending EXCEPT ![k] = "inserted"]
        /\ completionIds' = completionIds \cup {k}
    BY <1>1 DEF InsertCompletion, pipes, portVars, callVars
  <2>2. Out' = Out /\ Back' = Back /\ up
    BY <2>1 DEF Out, Back, BridgeInv, ConnInv
  <2>3. PipeInv' /\ ConnInv' /\ HostInv' /\ ToolInv'
    BY <2>1, <2>2 DEF BridgeInv, PipeInv, ConnInv, HostInv, Holds, ToolInv, Placed, Here, InHands
  <2>4. AckInv'
    BY <1>0, <2>1, <2>2 DEF BridgeInv, AckInv, Closing
  <2>5. OneAtATime' /\ ApprovalMinded' /\ RequestMinded'
    BY <2>1 DEF BridgeInv, OneAtATime, ApprovalMinded, RequestMinded, InHands
  <2> QED
    BY <2>3, <2>4, <2>5 DEF PlaceInv
<1>2. CASE WriteCompletion(k)
  <2>1. /\ UNCHANGED <<up, relay, waiter, completionIds, toHost, port, opened, cleanups, step, origin, approvals>>
        /\ ending[k] = "inserted" /\ ending' = [ending EXCEPT ![k] = "over"]
        /\ toChrome' = Append(toChrome, Ack(k))
    BY <1>2 DEF WriteCompletion, Ack, hostVars, portVars, callVars
  <2>2. /\ Ack(k) \in Messages /\ Ack(k) \notin Out /\ Ack(k) \notin Back
        /\ k \in completionIds /\ \A r : ~Closing(r, k)
    BY <2>1, AckTypes DEF BridgeInv, AckInv
  <2>3. PipeInv' /\ Out' = Out \cup {Ack(k)} /\ Back' = Back
    BY <2>1, <2>2, LastOut DEF BridgeInv
  <2>4. up
    BY <2>1 DEF BridgeInv, ConnInv
  <2>5. ConnInv' /\ HostInv'
    BY <2>1, <2>3, <2>4 DEF BridgeInv, ConnInv, HostInv, Holds
  <2>6. ToolInv'
    <3>1. \A d \in Call : Req(d) \in Out' => Req(d) \in Out
      BY <2>3 DEF Req, Ack
    <3> QED
      BY <2>1, <2>3, <3>1 DEF BridgeInv, ToolInv, Placed, Here, InHands
  <2>7. AckInv'
    <3>1. \A l \in Client : Ack(l) \in Out' => l = k \/ Ack(l) \in Out
      BY <2>3 DEF Ack
    <3>2. \A r, l : Closing(r, l)' <=> Closing(r, l)
      BY <2>1 DEF Closing
    <3> QED
      BY <1>0, <2>1, <2>2, <2>3, <3>1, <3>2 DEF BridgeInv, AckInv
  <2>8. OneAtATime' /\ ApprovalMinded'
    BY <2>1 DEF BridgeInv, OneAtATime, ApprovalMinded, InHands
  <2>9. RequestMinded'
    BY <2>1, <2>3 DEF BridgeInv, RequestMinded, InHands, Out, Back
  <2> QED
    BY <2>3, <2>5, <2>6, <2>7, <2>8, <2>9 DEF PlaceInv
<1> QED
  BY <1>1, <1>2

LEMMA ReadPlaces ==
  ASSUME BridgeInv, ReadAck \/ ReadAnswer
  PROVE  PlaceInv' /\ ApprovalMinded'
<1> DEFINE m == Head(toHost)
<1>1. /\ toHost # << >> /\ toHost' = Tail(toHost)
      /\ UNCHANGED <<ending, up, toChrome, port, opened, cleanups, step, origin, approvals>>
  BY DEF ReadAck, ReadAnswer, portVars, callVars
<1>2. m \in Back /\ m \in Messages /\ PipeInv' /\ Back' = Back \ {m} /\ Out' = Out
  BY <1>1, FirstBack DEF BridgeInv
<1>3. up
  BY <1>2 DEF BridgeInv, ConnInv
<1>4. OneAtATime' /\ ApprovalMinded'
  BY <1>1 DEF BridgeInv, OneAtATime, ApprovalMinded, InHands
<1>5. CASE ReadAck
  <2>1. /\ UNCHANGED <<relay, waiter>> /\ m.kind = "complete"
        /\ completionIds' = completionIds \ {m.of}
    BY <1>5 DEF ReadAck
  <2>2. m = Ack(m.of) /\ m.of \in Client
    BY <1>2, <2>1, MessageTypes
  <2>3. ConnInv' /\ HostInv'
    BY <1>1, <1>2, <1>3, <2>1 DEF BridgeInv, ConnInv, HostInv, Holds
  <2>4. ToolInv'
    BY <1>1, <1>2, <2>1 DEF BridgeInv, ToolInv, Placed, Here, InHands
  <2>5. AckInv'
    <3>1. ASSUME NEW k \in Client, k # m.of
          PROVE  k \in completionIds' <=> k \in completionIds
      BY <2>1, <3>1
    <3>2. ASSUME NEW k \in Client, k = m.of
          PROVE  Ack(k) \notin Out' \cup Back' /\ ending[k] = "over" /\ \A r : ~Closing(r, k)
      BY <1>2, <2>2, <3>2 DEF BridgeInv, PipeInv, AckInv
    <3>3. \A r, k : Closing(r, k)' <=> Closing(r, k)
      BY <1>1 DEF Closing
    <3> QED
      BY <1>1, <1>2, <3>1, <3>2, <3>3 DEF BridgeInv, AckInv
  <2>6. RequestMinded'
    <3>1. \A c \in Call : Req(c) \in Back => Req(c) \in Back'
      BY <1>2, <2>2 DEF Req, Ack
    <3> QED
      BY <1>1, <1>2, <2>1, <3>1 DEF BridgeInv, RequestMinded, InHands, Out, Back, Req
  <2> QED
    BY <1>2, <1>4, <2>3, <2>4, <2>5, <2>6 DEF PlaceInv
<1>6. CASE ReadAnswer
  <2>1. /\ UNCHANGED completionIds /\ m.kind = "tool"
        /\ relay' = [relay EXCEPT ![waiter[Key(m)]] = "answered"]
        /\ waiter' = [waiter EXCEPT ![Key(m)] = NoCall]
    BY <1>6 DEF ReadAnswer
  <2>2. PICK c \in Call : m = Req(c) /\ Key(m) = IdOf[c]
    BY <1>2, <2>1, MessageTypes DEF Key
  <2>3. relay[c] = "sent" /\ step[c] = "done" /\ waiter[IdOf[c]] = c
    BY <1>2, <2>2 DEF BridgeInv, ToolInv, Placed, HostInv
  <2>4. /\ relay \in [Call -> {"none", "queued", "registered", "sent", "answered", "over"}]
        /\ waiter \in [Id -> Call \cup {NoCall}] /\ IdOf[c] \in Id
    BY OfAssumption DEF BridgeInv, TypeOK
  <2>5. /\ relay'[c] = "answered" /\ \A d \in Call : d # c => relay'[d] = relay[d]
        /\ waiter'[IdOf[c]] = NoCall /\ \A i \in Id : i # IdOf[c] => waiter'[i] = waiter[i]
    BY <2>1, <2>2, <2>3, <2>4
  <2>6. \A d \in Call : Holds(d) => d = c
    BY <2>3 DEF BridgeInv, HostInv, Holds
  <2>7. \A d \in Call : relay'[d] \notin {"registered", "sent"} /\ (Holds(d)' => d = c)
    BY <2>5, <2>6 DEF Holds
  <2>8. ConnInv'
    BY <1>1, <1>2, <1>3, <2>1 DEF BridgeInv, ConnInv
  <2>9. HostInv'
    <3>1. ASSUME NEW i \in Id, i # IdOf[c] PROVE waiter[i] = NoCall
      BY <2>4, <2>6, <3>1 DEF BridgeInv, HostInv, Holds
    <3> QED
      BY <2>5, <2>7, <3>1 DEF HostInv
  <2>10. ToolInv'
    <3>1. Req(c) \notin Out' /\ Req(c) \notin Back'
      BY <1>2, <2>2 DEF BridgeInv, PipeInv
    <3>2. Placed(c)'
      BY <1>1, <2>3, <2>5, <3>1 DEF BridgeInv, ToolInv, Placed, Here, InHands
    <3>3. ASSUME NEW d \in Call, d # c PROVE Placed(d)'
      BY <1>1, <1>2, <2>5, <3>3 DEF BridgeInv, ToolInv, Placed, Here, InHands
    <3> QED
      BY <3>2, <3>3 DEF ToolInv
  <2>11. AckInv'
    BY <1>1, <1>2, <2>1 DEF BridgeInv, AckInv, Closing
  <2>12. RequestMinded'
    BY <2>7 DEF RequestMinded
  <2> QED
    BY <1>2, <1>4, <2>8, <2>9, <2>10, <2>11, <2>12 DEF PlaceInv
<1> QED
  BY <1>5, <1>6

LEMMA HostDiesPlaces == ASSUME BridgeInv, HostDies PROVE PlaceInv' /\ ApprovalMinded'
<1>1. /\ UNCHANGED <<port, opened, cleanups, step, origin, approvals>>
      /\ ~up' /\ completionIds' = {} /\ toChrome' = << >> /\ toHost' = << >>
      /\ relay' = [c \in Call |-> IF relay[c] = "none" THEN "none" ELSE "over"]
      /\ ending' = [k \in Client |-> IF ending[k] = "open" THEN "open" ELSE "over"]
      /\ waiter' = [i \in Id |-> NoCall]
  BY DEF HostDies, portVars, callVars
<1>2. Out' = {} /\ Back' = {} /\ PipeInv'
  BY <1>1, EmptyPipe DEF PipeInv, Out, Back
<1>3. \A c \in Call : relay'[c] \in {"none", "over"} /\ (relay'[c] = "none" => relay[c] = "none")
  BY <1>1
<1>4. ConnInv' /\ HostInv'
  BY <1>1, <1>2, <1>3 DEF BridgeInv, ConnInv, HostInv, Holds
<1>5. ToolInv'
  BY <1>1, <1>2, <1>3 DEF BridgeInv, ToolInv, Placed, InHands
<1>6. AckInv'
  BY <1>1, <1>2 DEF AckInv, Closing
<1>7. OneAtATime' /\ ApprovalMinded' /\ RequestMinded'
  BY <1>1 DEF BridgeInv, OneAtATime, ApprovalMinded, RequestMinded, InHands
<1> QED
  BY <1>2, <1>4, <1>5, <1>6, <1>7 DEF PlaceInv

-----------------------------------------------------------------------------
(* Connection and turn.                                                       *)

LEMMA ConnectPlaces == ASSUME BridgeInv, Connect PROVE PlaceInv' /\ ApprovalMinded'
<1>1. /\ UNCHANGED <<ending, relay, waiter, completionIds, toChrome, toHost, cleanups, step, origin, approvals>>
      /\ port = 0 /\ up' /\ opened' = opened + 1 /\ port' = opened + 1
  BY DEF Connect, pipes, callVars
<1>2. opened \in Nat /\ \A c \in Call : origin[c].port \in Nat
  BY BoundsAssumption DEF BridgeInv, TypeOK, Ports
<1>3. \A r \in cleanups : r.port \in Nat
  BY BoundsAssumption DEF BridgeInv, TypeOK, Ports
<1>4. ~up
  BY <1>1 DEF BridgeInv, ConnInv
<1>5. Out' = Out /\ Back' = Back /\ Out = {} /\ Back = {} /\ completionIds = {}
  BY <1>1, <1>4 DEF Out, Back, BridgeInv, ConnInv
<1>6. \A c \in Call : relay[c] \in {"none", "over"} /\ ~Here(c)'
  BY <1>1, <1>2, <1>4 DEF BridgeInv, ConnInv, Here
<1>7. \A r, k : ~Closing(r, k)'
  BY <1>1, <1>2, <1>3 DEF BridgeInv, ConnInv, Closing
<1>8. PipeInv' /\ ConnInv' /\ HostInv'
  BY <1>1, <1>2, <1>3, <1>5 DEF BridgeInv, PipeInv, ConnInv, HostInv, Holds
<1>9. ToolInv'
  BY <1>1, <1>5, <1>6 DEF BridgeInv, ToolInv, Placed, InHands
<1>10. AckInv'
  BY <1>1, <1>4, <1>5, <1>7 DEF BridgeInv, ConnInv, AckInv
<1>11. OneAtATime' /\ ApprovalMinded' /\ RequestMinded'
  BY <1>1, <1>6 DEF BridgeInv, OneAtATime, ApprovalMinded, RequestMinded, InHands
<1> QED
  BY <1>8, <1>9, <1>10, <1>11 DEF PlaceInv

(* EndTurn as far as requests go: the pending ones are decided.               *)
LEMMA EndTurnHands ==
  ASSUME BridgeInv, NEW k, NEW p, EndTurn(k, p), UNCHANGED origin
  PROVE  /\ ApprovalMinded' /\ OneAtATime'
         /\ \A c \in Call : /\ InHands(c)' <=> InHands(c)
                            /\ step'[c] = "none" <=> step[c] = "none"
                            /\ step'[c] = "done" <=> step[c] = "done"
<1>1. \A c \in Call : step'[c] = IF step[c] = "pending" THEN "decided" ELSE step[c]
  BY DEF EndTurn, Settle, Pending
<1>2. \A i \in Id : approvals'[i] = IF approvals[i] \in Pending THEN NoCall ELSE approvals[i]
  BY DEF EndTurn, Settle
<1>3. ApprovalMinded'
  BY <1>1, <1>2, CallAssumption DEF BridgeInv, ApprovalMinded, Pending
<1>4. \A c \in Call : /\ InHands(c)' <=> InHands(c)
                      /\ step'[c] = "none" <=> step[c] = "none"
                      /\ step'[c] = "done" <=> step[c] = "done"
  BY <1>1 DEF InHands
<1> QED
  BY <1>3, <1>4 DEF BridgeInv, OneAtATime

LEMMA DisconnectPlaces == ASSUME BridgeInv, OnDisconnect PROVE PlaceInv' /\ ApprovalMinded'
<1>1. /\ UNCHANGED <<ending, up, relay, waiter, completionIds, toChrome, toHost, opened, origin>>
      /\ ~up /\ port' = 0 /\ EndTurn(NoCall, 0)
      /\ cleanups' = cleanups \cup {[turn |-> turn, of |-> NoCall, port |-> 0]}
  BY DEF OnDisconnect, EndTurn, hostVars, pipes
<1>2. Out' = Out /\ Back' = Back /\ opened \in Nat
  BY <1>1, BoundsAssumption DEF Out, Back, BridgeInv, TypeOK, Ports
<1>3. /\ ApprovalMinded' /\ OneAtATime'
      /\ \A c \in Call : /\ InHands(c)' <=> InHands(c)
                         /\ step'[c] = "none" <=> step[c] = "none"
                         /\ step'[c] = "done" <=> step[c] = "done"
  BY <1>1, EndTurnHands
<1>4. PipeInv' /\ ConnInv' /\ HostInv'
  BY <1>1, <1>2 DEF BridgeInv, PipeInv, ConnInv, HostInv, Holds
<1>5. ToolInv' /\ RequestMinded'
  BY <1>1, <1>2, <1>3 DEF BridgeInv, ToolInv, Placed, Here, RequestMinded
<1>6. AckInv'
  BY <1>1, <1>2 DEF BridgeInv, AckInv, Closing
<1> QED
  BY <1>3, <1>4, <1>5, <1>6 DEF PlaceInv

LEMMA CleanupPlaces ==
  ASSUME BridgeInv, NEW r \in cleanups, FinishCleanup(r)
  PROVE  PlaceInv' /\ ApprovalMinded'
<1>1. /\ UNCHANGED <<ending, up, relay, waiter, completionIds, toChrome, port, opened, step, origin, approvals>>
      /\ cleanups' = cleanups \ {r}
  BY DEF FinishCleanup, hostVars, portVars, callVars
<1>2. OneAtATime' /\ ApprovalMinded'
  BY <1>1 DEF BridgeInv, OneAtATime, ApprovalMinded, InHands
<1>3. CASE UNCHANGED toHost
  <2>1. Out' = Out /\ Back' = Back
    BY <1>1, <1>3 DEF Out, Back
  <2>2. PipeInv' /\ ConnInv' /\ HostInv'
    BY <1>1, <1>3, <2>1 DEF BridgeInv, PipeInv, ConnInv, HostInv, Holds
  <2>3. ToolInv' /\ RequestMinded'
    BY <1>1, <1>3, <2>1 DEF BridgeInv, ToolInv, Placed, Here, InHands, RequestMinded
  <2>4. AckInv'
    BY <1>1, <2>1 DEF BridgeInv, AckInv, Closing
  <2> QED
    BY <1>2, <2>2, <2>3, <2>4 DEF PlaceInv
<1>4. CASE r.of # NoCall /\ up /\ r.port = port /\ toHost' = Append(toHost, Ack(r.of))
  <2>1. r.of \in Client /\ Closing(r, r.of)
    BY <1>4 DEF BridgeInv, TypeOK, ConnInv, Closing
  <2>2. /\ Ack(r.of) \in Messages /\ Ack(r.of) \notin Out /\ Ack(r.of) \notin Back
        /\ r.of \in completionIds /\ ending[r.of] = "over"
    BY <2>1, AckTypes DEF BridgeInv, AckInv
  <2>3. PipeInv' /\ Out' = Out /\ Back' = Back \cup {Ack(r.of)}
    BY <1>1, <1>4, <2>2, LastBack DEF BridgeInv
  <2>4. ConnInv' /\ HostInv'
    BY <1>1, <1>4, <2>3 DEF BridgeInv, ConnInv, HostInv, Holds
  <2>5. ToolInv'
    <3>1. \A d \in Call : Req(d) \in Back' => Req(d) \in Back
      BY <2>3 DEF Req, Ack
    <3> QED
      BY <1>1, <2>3, <3>1 DEF BridgeInv, ToolInv, Placed, Here, InHands
  <2>6. RequestMinded'
    BY <1>1, <2>3 DEF BridgeInv, RequestMinded, InHands, Out, Back
  <2>7. AckInv'
    <3>1. \A l \in Client : Ack(l) \in Out' \cup Back' => l = r.of \/ Ack(l) \in Out \cup Back
      BY <2>3 DEF Ack
    <3>2. \A s, l : Closing(s, l)' => Closing(s, l) /\ s # r
      BY <1>1 DEF Closing
    <3>3. \A s : ~Closing(s, r.of)'
      BY <2>1, <3>2 DEF BridgeInv, AckInv
    <3> QED
      BY <1>1, <2>2, <3>1, <3>2, <3>3 DEF BridgeInv, AckInv
  <2> QED
    BY <1>2, <2>3, <2>4, <2>5, <2>6, <2>7 DEF PlaceInv
<1> QED
  BY <1>3, <1>4 DEF FinishCleanup, Post, Ack

LEMMA TurnCompletePlaces == ASSUME BridgeInv, TurnComplete PROVE PlaceInv' /\ ApprovalMinded'
<1> DEFINE m == Head(toChrome)
           k == m.of
           new == [turn |-> turn, of |-> k, port |-> port]
<1>1. /\ UNCHANGED <<ending, up, relay, waiter, completionIds, toHost, port, opened, origin>>
      /\ toChrome # << >> /\ toChrome' = Tail(toChrome)
      /\ port # 0 /\ m.kind = "complete" /\ EndTurn(k, port)
      /\ cleanups' = cleanups \cup {new}
  BY DEF TurnComplete, EndTurn, hostVars, portVars
<1>2. m \in Out /\ m \in Messages /\ PipeInv' /\ Out' = Out \ {m} /\ Back' = Back
  BY <1>1, FirstOut DEF BridgeInv
<1>3. m = Ack(k) /\ k \in Client
  BY <1>1, <1>2, MessageTypes
<1>4. up /\ port = opened /\ opened \in Nat
  BY <1>1, <1>2, BoundsAssumption DEF BridgeInv, ConnInv, TypeOK, Ports
<1>5. /\ ApprovalMinded' /\ OneAtATime'
      /\ \A c \in Call : /\ InHands(c)' <=> InHands(c)
                         /\ step'[c] = "none" <=> step[c] = "none"
                         /\ step'[c] = "done" <=> step[c] = "done"
  BY <1>1, EndTurnHands
<1>6. ConnInv' /\ HostInv'
  <2>1. new.port = opened
    BY <1>4
  <2> HIDE DEF new
  <2> QED
    BY <1>1, <1>2, <1>4, <2>1 DEF BridgeInv, ConnInv, HostInv, Holds
<1>7. ToolInv' /\ RequestMinded'
  <2>1. \A c \in Call : Req(c) \in Out' <=> Req(c) \in Out
    BY <1>2, <1>3 DEF Req, Ack
  <2>2. ToolInv'
    BY <1>1, <1>2, <1>5, <2>1 DEF BridgeInv, ToolInv, Placed, Here
  <2>3. RequestMinded'
    BY <1>1, <1>2, <1>5, <2>1 DEF BridgeInv, RequestMinded, Out, Back, Req
  <2> QED
    BY <2>2, <2>3
<1>8. AckInv'
  <2>1. ending[k] = "over" /\ k \in completionIds /\ \A r : ~Closing(r, k)
    BY <1>2, <1>3 DEF BridgeInv, AckInv
  <2>2. Ack(k) \notin Out' \cup Back'
    BY <1>2, <1>3 DEF BridgeInv, PipeInv
  <2>3. \A r, l : Closing(r, l)' => Closing(r, l) \/ (r = new /\ l = k)
    BY <1>1 DEF Closing
  <2> HIDE DEF new
  <2> QED
    BY <1>1, <1>2, <2>1, <2>2, <2>3 DEF BridgeInv, AckInv
<1> QED
  BY <1>2, <1>5, <1>6, <1>7, <1>8 DEF PlaceInv

(* The transaction is held by the request that arrives, so that no other one *)
(* of this connection is in the hands of the extension.                       *)
LEMMA ToolRequestPlaces == ASSUME BridgeInv, ToolRequest PROVE PlaceInv' /\ ApprovalMinded'
<1> DEFINE m == Head(toChrome)
<1>1. /\ UNCHANGED <<ending, up, relay, waiter, completionIds, toHost, port, opened, cleanups, approvals>>
      /\ toChrome # << >> /\ toChrome' = Tail(toChrome)
      /\ port # 0 /\ m.kind = "tool"
  BY DEF ToolRequest, hostVars, portVars
<1>2. m \in Out /\ m \in Messages /\ PipeInv' /\ Out' = Out \ {m} /\ Back' = Back
  BY <1>1, FirstOut DEF BridgeInv
<1>3. PICK c \in Call : m = Req(c) /\ m.of = c
  BY <1>1, <1>2, MessageTypes
<1>bind. /\ turn' = IF turn = NoCall THEN c ELSE turn
      /\ origin' = [origin EXCEPT ![c] = [port |-> port, turn |-> turn']]
      /\ step' = [step EXCEPT ![c] = "context"]
  BY <1>3 DEF ToolRequest
<1>4. up /\ port = opened /\ opened \in Nat
  BY <1>1, <1>2, BoundsAssumption DEF BridgeInv, ConnInv, TypeOK, Ports
<1>5. relay[c] = "sent" /\ step[c] = "none"
  BY <1>2, <1>3 DEF BridgeInv, ToolInv, Placed
<1>6. Req(c) \notin Out' \cup Back'
  BY <1>2, <1>3 DEF BridgeInv, PipeInv
<1>7. /\ origin \in [Call -> [port : Ports, turn : Call \cup {NoCall}]]
      /\ step \in [Call -> {"none", "context", "policy", "asking", "pending", "decided", "running", "done"}]
      /\ turn \in Call \cup {NoCall}
  BY DEF BridgeInv, TypeOK
<1> HIDE DEF m
<1>8. step'[c] = "context" /\ origin'[c].port = opened /\ origin'[c].turn \in Call
  BY <1>bind, <1>3, <1>4, <1>7
<1>9. \A d \in Call : d # c => step'[d] = step[d] /\ origin'[d] = origin[d]
  BY <1>bind, <1>3, <1>7
<1>10. \A d \in Call : Req(d) \in Out' <=> d # c /\ Req(d) \in Out
  BY <1>2, <1>3, <1>6 DEF Req
<1>11. ConnInv' /\ HostInv'
  BY <1>1, <1>2, <1>4, <1>8, <1>9 DEF BridgeInv, ConnInv, HostInv, Holds
<1>12. ToolInv'
  <2>1. Placed(c)'
    BY <1>1, <1>5, <1>6, <1>8 DEF Placed
  <2>2. ASSUME NEW d \in Call, d # c PROVE Placed(d)'
    BY <1>1, <1>2, <1>9, <1>10, <2>2 DEF BridgeInv, ToolInv, Placed, Here, InHands
  <2> QED
    BY <2>1, <2>2 DEF ToolInv
<1>13. OneAtATime'
  <2>1. ASSUME NEW d \in Call, d # c, InHands(d)' PROVE origin'[d].port # opened
    <3>1. InHands(d) /\ origin'[d] = origin[d]
      BY <1>9, <2>1 DEF InHands
    <3>2. relay[d] # "sent"
      BY <1>3, <1>5, <2>1 DEF BridgeInv, HostInv, Holds
    <3> QED
      BY <1>4, <3>1, <3>2 DEF BridgeInv, ToolInv, Placed, Here
  <2>2. \A d \in Call : d # c => (InHands(d)' <=> InHands(d))
    BY <1>9 DEF InHands
  <2> QED
    BY <1>8, <1>9, <2>1, <2>2 DEF BridgeInv, OneAtATime
<1>14. AckInv'
  <2>1. \A k \in Client : Ack(k) \in Out' => Ack(k) \in Out
    BY <1>2
  <2> QED
    BY <1>1, <1>2, <2>1 DEF BridgeInv, AckInv, Closing
<1>15. ApprovalMinded'
  BY <1>1, <1>5, <1>8, <1>9 DEF BridgeInv, ApprovalMinded
<1>16. RequestMinded'
  <2>1. InHands(c)' /\ origin'[c].port = opened'
    BY <1>1, <1>8 DEF InHands
  <2>2. ASSUME NEW d \in Call, d # c, relay[d] = "sent" PROVE FALSE
    BY <1>3, <1>5, <2>2 DEF BridgeInv, HostInv, Holds
  <2> QED
    BY <1>1, <2>1, <2>2 DEF RequestMinded
<1> QED
  BY <1>2, <1>11, <1>12, <1>13, <1>14, <1>15, <1>16 DEF PlaceInv

-----------------------------------------------------------------------------
(* The invariant and what it gives.                                           *)

LEMMA StepBridge == BridgeInv /\ [Next]_vars => BridgeInv'
<1> SUFFICES ASSUME BridgeInv, [Next]_vars PROVE BridgeInv'
  OBVIOUS
<1>1. TypeOK /\ PipeInv /\ HostInv /\ ToolInv
  BY DEF BridgeInv
<1> DEFINE Goal == PlaceInv' /\ ApprovalMinded'
<1>2. ASSUME Host \/ HostDies PROVE BridgeInv'
  <2>1. Goal
    BY <1>2, RegisterPlaces, WriteToolPlaces, DeliverPlaces, CompletionPlaces, ReadPlaces,
       HostDiesPlaces DEF Host
  <2>2. TypeOK'
    BY <1>1, <1>2, <2>1, HostTypes DEF PlaceInv
  <2> QED
    BY <2>1, <2>2 DEF BridgeInv, PlaceInv
<1>3. ASSUME Bridge \/ Connect PROVE BridgeInv'
  <2>1. Goal
    BY <1>3, ToolRequestPlaces, TurnCompletePlaces, DisconnectPlaces, CleanupPlaces,
       ConnectPlaces DEF Bridge
  <2>2. TypeOK'
    BY <1>1, <1>3, <2>1, BridgeTypes DEF PlaceInv
  <2> QED
    BY <2>1, <2>2 DEF BridgeInv, PlaceInv
<1>4. ASSUME NEW c \in Call, Handle(c) \/ UserAnswers(c) \/ ApprovalTimesOut(c) PROVE BridgeInv'
  <2>1. Goal
    BY <1>4, HandlePlaces
  <2>2. TypeOK'
    BY <1>1, <1>4, <2>1, HandleTypes DEF PlaceInv
  <2> QED
    BY <2>1, <2>2 DEF BridgeInv, PlaceInv
<1>5. ASSUME \/ CancelTurn \/ PanelTurn \/ TabCloses \/ UserSets
             \/ \E c \in Call : CallTool(c)
             \/ \E k \in Client : EndClient(k)
      PROVE  BridgeInv'
  <2>1. Goal
    BY <1>5, UserPlaces
  <2>2. TypeOK'
    BY <1>1, <1>5, UserTypes
  <2> QED
    BY <2>1, <2>2 DEF BridgeInv, PlaceInv
<1>6. CASE UNCHANGED vars
  <2>1. UNCHANGED <<ending, hostVars, pipes, portVars, cleanups, origin, step, approvals>>
    BY <1>6 DEF vars, callVars
  <2>2. PlaceInv' /\ ApprovalMinded'
    BY <2>1, QuietPlaces DEF BridgeInv, ApprovalMinded
  <2>3. TypeOK'
    BY <1>1, <1>6 DEF TypeOK, vars, hostVars, pipes, portVars, callVars, userVars
  <2> QED
    BY <2>2, <2>3 DEF BridgeInv, PlaceInv
<1> QED
  BY <1>2, <1>3, <1>4, <1>5, <1>6 DEF Next, Worker, User

(* Every message on its way to the host is of a kind the reader has a place  *)
(* for: an acknowledgement of a completion it noted, or the answer of the    *)
(* request that waits under its id.                                           *)
LEMMA ReaderServed == BridgeInv => ReaderKnows
<1> SUFFICES ASSUME BridgeInv, NEW n \in 1..Len(toHost)
             PROVE  IF toHost[n].kind = "complete" THEN toHost[n].of \in completionIds
                    ELSE waiter[IdOf[toHost[n].of]] = toHost[n].of
  BY DEF ReaderKnows
<1>1. toHost \in Seq(Messages)
  BY DEF BridgeInv, PipeInv
<1>2. toHost[n] \in Messages /\ toHost[n] \in Back
  BY <1>1 DEF Back, Range
<1> DEFINE m == toHost[n]
<1> HIDE DEF m
<1>3. m \in Messages /\ m \in Back
  BY <1>2 DEF m
<1>4. CASE m.kind = "complete"
  BY <1>3, <1>4, MessageTypes DEF BridgeInv, AckInv, m
<1>5. CASE m.kind = "tool"
  <2>1. m.of \in Call /\ m = Req(m.of)
    BY <1>3, <1>5, MessageTypes
  <2>2. relay[m.of] = "sent"
    BY <1>3, <2>1 DEF BridgeInv, ToolInv, Placed
  <2>3. waiter[IdOf[m.of]] = m.of
    BY <2>1, <2>2 DEF BridgeInv, HostInv
  <2> QED
    BY <1>5, <2>3 DEF m
<1> QED
  BY <1>3, <1>4, <1>5, MessageTypes

(* What host, pipes and extension hold of the requests and completions stays *)
(* in agreement: the inductive invariant behind the theorems below.           *)
THEOREM BridgeInvariance == Spec => []BridgeInv
<1>1. Init => BridgeInv
  BY InitBridge
<1>2. BridgeInv /\ [Next]_vars => BridgeInv'
  BY StepBridge
<1> QED
  BY <1>1, <1>2, PTL DEF Spec

(* The variables of host, bridge and handlers keep their types.               *)
THEOREM BridgeTypeCorrect == Spec => []TypeOK
<1>1. BridgeInv => TypeOK
  BY DEF BridgeInv
<1> QED
  BY <1>1, BridgeInvariance, PTL

(* read_chrome_messages never meets a message nobody waits for, and gives an  *)
(* answer to the relay of the very request it answers.                        *)
THEOREM ReaderKnowsAll == Spec => []ReaderKnows
  BY ReaderServed, BridgeInvariance, PTL

(* tool_transaction serialises the extension: of one connection at most one   *)
(* tool is in its hands.                                                      *)
THEOREM Serialised == Spec => []OneAtATime
<1>1. BridgeInv => OneAtATime
  BY DEF BridgeInv
<1> QED
  BY <1>1, BridgeInvariance, PTL

(* waitForApproval and pendingApprovals agree: an id leads to the one that    *)
(* waits under it and to nobody else.                                         *)
THEOREM ApprovalsMinded == Spec => []ApprovalMinded
<1>1. BridgeInv => ApprovalMinded
  BY DEF BridgeInv
<1> QED
  BY <1>1, BridgeInvariance, PTL

(* A request relay_one waits for is on its way or in the hands of the         *)
(* extension under the current connection; nothing takes it away.             *)
THEOREM RequestsMinded == Spec => []RequestMinded
<1>1. BridgeInv => RequestMinded
  BY DEF BridgeInv
<1> QED
  BY <1>1, BridgeInvariance, PTL
=============================================================================
