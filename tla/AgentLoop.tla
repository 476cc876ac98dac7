----------------------------- MODULE AgentLoop -----------------------------
(***************************************************************************)
(* One turn of the Chrome extension's agent: the model is asked, its tool  *)
(* calls are executed one after another, their results are sent back, until*)
(* it closes with a text. A step is what runLlmAgentTurn does between two  *)
(* awaits; the user, or the time budget, may stop the turn at any of them. *)
(***************************************************************************)
EXTENDS Integers, Sequences

CONSTANTS
  Call,       \* tool calls, by name and canonical arguments
  Batches,    \* what one completion may call, without repetitions
  MaxSteps,   \* MAX_AGENT_STEPS
  HintAfter,  \* failures in a row of one tool before the strategy hint
  StopAfter   \* and after it, before the turn gives up

ASSUME CallAssumption ==
  Call \subseteq [name : {"navigate", "click", "type", "read_page", "screenshot",
                          "extract_page_content"}, args : Nat]
ASSUME BatchAssumption == Batches \subseteq Seq(Call) /\ << >> \notin Batches
ASSUME LimitAssumption == MaxSteps \in Nat \ {0} /\ HintAfter \in Nat \ {0} /\ StopAfter \in Nat \ {0}

VARIABLES
  pc,          \* the await the turn is in
  tools,       \* browserToolsEnabled
  step,
  calls,       \* the calls of the last assistant message that has any
  at,          \* the one that is executed
  tail,        \* the messages behind it: i answers calls[i], 0 is any other message
  queued,      \* pendingSystemMessages has something
  fails,       \* failedMutateCounts
  missing,     \* failedSelectorCounts; the search was made at 2
  shots,       \* screenshotFailures
  streak,      \* failStreak
  pinned,      \* browserActionsComplete
  unverified,  \* requiresVerification
  nudges,      \* what was used up of what may happen once in a turn
  ran,         \* allToolResults: which of "ok" and "failed" it has
  mutated,     \* "none", "failed" (every one did) or "done"
  doubtful,    \* the last mutation failed and the page was not read since
  injected,    \* promptInjectionDetected
  navigated,   \* lastWasSuccessfulNavigate
  signal,      \* what has aborted it: the user, the time budget
  outcome,     \* how the turn ends: what the loop returned or threw
  unseen       \* a click or type had no look at its effect (for the properties)

progress == <<fails, missing, shots, streak, mutated, doubtful, injected>>
closing == <<pinned, unverified, nudges, unseen>>
batch == <<calls, at, tail, queued, navigated>>
vars == <<pc, tools, step, ran, signal, outcome, progress, closing, batch>>

Names == {c.name : c \in Call}
Mutates(c) == c.name \in {"navigate", "click", "type"}
NoStreak == [name |-> "none", count |-> 0, hint |-> FALSE]

TypeOK ==
  /\ pc \in {"preparing", "starting", "asking", "calling", "finding", "looking", "napping", "evidence",
             "requeued", "reporting", "over"}
  /\ tools \in BOOLEAN /\ step \in 0..MaxSteps
  /\ calls \in Seq(Call) /\ at \in Nat
  /\ pc \in {"calling", "finding", "looking"} => at \in DOMAIN calls
  /\ tail \in Seq(Nat) /\ queued \in BOOLEAN /\ navigated \in BOOLEAN
  /\ fails \in [Call -> 0..2] /\ missing \in [Names -> 0..2] /\ shots \in 0..2
  /\ streak \in [name : Names \cup {"none"}, count : 0..(HintAfter + StopAfter), hint : BOOLEAN]
  /\ pinned \in BOOLEAN /\ unverified \in BOOLEAN /\ unseen \in BOOLEAN
  /\ nudges \subseteq {"format", "evidence", "inspect", "close"}
  /\ ran \subseteq {"ok", "failed"} /\ mutated \in {"none", "failed", "done"}
  /\ doubtful \in BOOLEAN /\ injected \in BOOLEAN /\ signal \subseteq {"stop", "time"}
  /\ outcome \in {"none", "said", "noted", "replaced", "closed", "partial", "stuck", "limit",
                  "injection", "refused", "cancelled", "error"}

Init ==
  /\ tools \in BOOLEAN /\ signal = {}
  /\ pc = "preparing" /\ step = 0 /\ ran = {} /\ outcome = "none"
  /\ calls = << >> /\ at = 1 /\ tail = << >> /\ queued = FALSE /\ navigated = FALSE
  /\ fails = [c \in Call |-> 0] /\ missing = [n \in Names |-> 0] /\ shots = 0
  /\ streak = NoStreak /\ mutated = "none" /\ doubtful = FALSE /\ injected = FALSE
  /\ pinned = FALSE /\ unverified = FALSE /\ nudges = {} /\ unseen = FALSE

-----------------------------------------------------------------------------
(* How a turn ends or goes on to the next request.                         *)

(* The terminal event is sent.                                             *)
Over(o) == pc' = "over" /\ outcome' = o

(* The loop returns a text: the caller asks for the tab before it sends it. *)
Returns(o) == pc' = "reporting" /\ outcome' = o

Aborted == signal # {}

(* What the loop throws is reported as cancelled if the user has stopped the*)
(* turn.                                                                   *)
Thrown == Over(IF "stop" \in signal THEN "cancelled" ELSE "error")

NextRequest ==
  /\ step' = step + 1
  /\ IF Aborted THEN Thrown
     ELSE IF step + 1 = MaxSteps THEN Returns("limit")
     ELSE pc' = "asking" /\ UNCHANGED outcome

Nudge(kind) ==
  /\ nudges' = nudges \cup {kind}
  /\ tail' = Append(tail, 0)
  /\ NextRequest
  /\ UNCHANGED <<calls, at, queued, navigated, pinned, unverified, unseen>>

Ends(o) == Returns(o) /\ UNCHANGED <<step, batch, closing>>

(* The model's reply cannot be used: the loop throws, unaborted.           *)
Unusable == Thrown /\ UNCHANGED <<step, batch, closing>>

(* The model showed that it needs tools: the caller runs the turn again.   *)
Reclassify == pc' = "requeued" /\ UNCHANGED <<outcome, step, batch, closing>>

-----------------------------------------------------------------------------
(* The calls of one completion.                                            *)

(* A mutation that failed twice, or a screenshot of a hidden tab, is answered*)
(* without being executed.                                                 *)
Blocked(c) == (Mutates(c) /\ fails'[c] = 2) \/ (c.name = "screenshot" /\ shots' = 2)

(* The calls that are not skipped: executed, or refused with the whole turn.*)
Open(c) == (injected' /\ Mutates(c)) \/ ~Blocked(c)

EndBatch(t, notes) ==
  /\ tail' = IF notes THEN Append(t, 0) ELSE t
  /\ queued' = FALSE
  /\ UNCHANGED at
  /\ IF navigated' /\ ~Aborted
     THEN pc' = "napping" /\ UNCHANGED <<step, outcome>>
     ELSE NextRequest

(* From call i on, with t behind the assistant message and results r so far.*)
Proceed(t, notes, r, i) ==
  \/ /\ ~Aborted
     /\ \E j \in i..Len(calls') :
          /\ Open(calls'[j])
          /\ \A k \in i..(j - 1) : ~Open(calls'[k])
          /\ tail' = t \o [k \in 1..(j - i) |-> i + k - 1]
          /\ ran' = r \cup (IF j > i THEN {"failed"} ELSE {})
          /\ IF injected' /\ Mutates(calls'[j])
             THEN Returns("injection") /\ UNCHANGED at
             ELSE pc' = "calling" /\ at' = j /\ UNCHANGED outcome
     /\ queued' = notes
     /\ UNCHANGED step
  \/ /\ ~Aborted
     /\ \A k \in i..Len(calls') : ~Open(calls'[k])
     /\ ran' = r \cup (IF i <= Len(calls') THEN {"failed"} ELSE {})
     /\ EndBatch(t \o [k \in 1..(Len(calls') - i + 1) |-> i + k - 1], notes)
  \/ Aborted /\ ran' = r /\ EndBatch(t, notes)

Begins(b) ==
  /\ calls' = b
  /\ navigated' = FALSE
  /\ UNCHANGED <<progress, closing>>
  /\ Proceed(<< >>, FALSE, ran, 1)

-----------------------------------------------------------------------------
(* The request.                                                            *)

(* The session, the models and the tab, before the try that asks for stops: *)
(* the turn cannot run, or one of them throws, or the loop begins.         *)
Prepared ==
  /\ pc = "preparing"
  /\ \/ Over("refused")
     \/ Over("error")
     \/ pc' = "starting" /\ UNCHANGED outcome
  /\ UNCHANGED <<tools, step, ran, signal, progress, closing, batch>>

(* The text is refused (hard blocks), or what it begins with cannot be read.*)
Began ==
  /\ pc = "starting"
  /\ \/ Returns("refused")
     \/ Thrown
     \/ ~Aborted /\ pc' = "asking" /\ UNCHANGED outcome
  /\ UNCHANGED <<tools, step, ran, signal, progress, closing, batch>>

(* A stop that fails the request is taken for a router that fails.         *)
RouterFails_Stopped ==
  /\ pc = "asking"
  /\ IF ran # {} THEN Returns("partial") ELSE Thrown
  /\ UNCHANGED <<tools, step, ran, signal, progress, closing, batch>>

(* The router, or its 60 s, or a token that cannot be refreshed.           *)
RouterFails ==
  /\ pc = "asking"
  /\ IF ~Aborted /\ ran # {} THEN Returns("partial") ELSE Thrown
  /\ UNCHANGED <<tools, step, ran, signal, progress, closing, batch>>

(* The text of the model, as honestTurnMessage lets it pass.               *)
Claim == Returns(IF mutated = "failed" THEN "replaced"
                 ELSE IF mutated = "done" /\ doubtful THEN "noted" ELSE "said")

(* The text is words, empty, or markup that is stripped to nothing.        *)
Close(text) ==
  CASE text = "words" -> Claim /\ UNCHANGED <<step, batch, closing>>
    [] text # "words" /\ "ok" \notin ran -> Unusable
    [] text = "empty" /\ "ok" \in ran /\ "close" \notin nudges -> Nudge("close")
    [] OTHER -> Ends("closed")

(* A mutation must have been looked at: the loop reads the page itself, once,*)
(* then asks the model to, once.                                           *)
CloseVerified(text) ==
  CASE unverified /\ "evidence" \notin nudges ->
         /\ pc' = "evidence"
         /\ nudges' = nudges \cup {"evidence"}
         /\ UNCHANGED <<outcome, step, batch, pinned, unverified, unseen>>
    [] unverified /\ "evidence" \in nudges /\ "inspect" \notin nudges -> Nudge("inspect")
    [] OTHER -> Close(text)

(* A completion without calls. A browser turn that has executed nothing yet*)
(* reads the page instead, if the user asked about it.                     *)
Replies(text) ==
  /\ pc = "asking" /\ ~Aborted
  /\ IF tools /\ ran = {}
     THEN \/ \E c \in Call : c.name = "read_page" /\ Begins(<<c>>)
          \/ Unusable /\ UNCHANGED <<ran, progress>>
     ELSE CloseVerified(text) /\ UNCHANGED <<ran, progress>>
  /\ UNCHANGED <<tools, signal>>

(* The text says that there is no browser, in a turn that has none.        *)
Admits ==
  /\ pc = "asking" /\ ~Aborted /\ ~tools
  /\ Reclassify
  /\ UNCHANGED <<tools, ran, signal, progress>>

(* Tool markup that is not a call: asked for the right format once; after  *)
(* that the text is what is left of it.                                    *)
RepliesMarkup ==
  /\ pc = "asking" /\ ~Aborted
  /\ ~tools \/ "format" \notin nudges
  /\ IF tools THEN Nudge("format") ELSE Reclassify
  /\ UNCHANGED <<tools, ran, signal, progress>>

(* A completion with calls: not in a conversation, and not once the task is*)
(* done.                                                                   *)
Calls(b) ==
  /\ pc = "asking" /\ ~Aborted
  /\ CASE ~tools -> Reclassify /\ UNCHANGED <<ran, progress>>
       [] tools /\ pinned -> Ends("partial") /\ UNCHANGED <<ran, progress>>
       [] OTHER -> Begins(b)
  /\ UNCHANGED <<tools, signal>>

-----------------------------------------------------------------------------
(* The tools.                                                              *)

(* "long" needs several messages, "suspicious" looks like an instruction,  *)
(* "notFound" is about a selector, "hidden" about a tab in the background. *)
Ok(r) == r \in {"ok", "long", "suspicious"}
Result(c) ==
  {"ok", "failed", "suspicious"}
    \cup (IF c.name \in {"click", "type"} THEN {"notFound"} ELSE {})
    \cup (IF c.name = "screenshot" THEN {"hidden"} ELSE {})
    \cup (IF c.name = "extract_page_content" THEN {"long"} ELSE {})

(* A screenshot counts as a look at the page.                              *)
Verified_ByScreenshot(c, flag) ==
  c.name \in {"click", "type"} \/ (flag /\ c.name \notin {"read_page", "screenshot"})

(* The effect of a click or type is checked by reading the page, by nothing*)
(* else.                                                                   *)
Verified(c, flag) == c.name \in {"click", "type"} \/ (flag /\ c.name # "read_page")

Streak(c) ==
  IF streak.name = c.name THEN [streak EXCEPT !.count = @ + 1]
  ELSE [name |-> c.name, count |-> 1, hint |-> FALSE]

(* A long text is cut into no chunk at all.                                *)
Answer_NoChunk(r) == IF r = "long" THEN << >> ELSE <<at>>

(* A tool message, or two for a text that is too long for one.             *)
Answer(r) == IF r = "long" THEN <<at, at>> ELSE <<at>>

(* The result is answered; a tool that keeps failing gets a hint, then ends*)
(* the turn; after a click or a navigation the tab is looked at.           *)
SettleOk(c, r, notes) ==
  /\ injected' = (injected \/ r = "suspicious")
  /\ streak' = NoStreak
  /\ unverified' = Verified(c, unverified)
  /\ unseen' = (c.name \in {"click", "type"} \/ (unseen /\ c.name # "read_page"))
  /\ navigated' = (navigated \/ c.name = "navigate")
  /\ LET t == tail \o Answer(r) IN
     IF c.name \in {"click", "navigate"}
     THEN /\ pc' = "looking"
          /\ tail' = t /\ queued' = notes /\ ran' = ran \cup {"ok"}
          /\ UNCHANGED <<at, step, outcome>>
     ELSE Proceed(t, notes \/ c.name = "screenshot", ran \cup {"ok"}, at + 1)

SettleFailed(c, notes) ==
  LET s == Streak(c)
      hints == s.count >= HintAfter /\ ~s.hint
  IN
  /\ UNCHANGED <<injected, navigated>>
  /\ streak' = IF hints THEN [s EXCEPT !.count = 0, !.hint = TRUE] ELSE s
  /\ IF s.hint /\ s.count >= StopAfter
     THEN /\ Returns("stuck")
          /\ tail' = tail \o <<at>> /\ ran' = ran \cup {"failed"}
          /\ UNCHANGED <<at, queued, step>>
     ELSE Proceed(tail \o <<at>>, notes \/ hints, ran \cup {"failed"}, at + 1)
  /\ UNCHANGED <<unverified, unseen>>

Tally(c, r) ==
  /\ fails' = IF Mutates(c) THEN [fails EXCEPT ![c] = IF Ok(r) THEN 0 ELSE @ + 1] ELSE fails
  /\ mutated' = IF ~Mutates(c) THEN mutated
                ELSE IF Ok(r) THEN "done" ELSE IF mutated = "none" THEN "failed" ELSE mutated
  /\ doubtful' = IF Mutates(c) THEN ~Ok(r) ELSE doubtful /\ c.name # "read_page"
  /\ shots' = IF r = "hidden" THEN shots + 1 ELSE shots

(* executeTool answers: the second selector that is not found makes the loop*)
(* look for the real ones.                                                 *)
Called(r) ==
  /\ pc = "calling"
  /\ UNCHANGED <<tools, calls, signal, pinned, nudges>>
  /\ LET c == calls[at]
         finds == r = "notFound" /\ missing[c.name] = 1
     IN
     /\ r \in Result(c)
     /\ Tally(c, r)
     /\ missing' = IF r = "notFound" /\ missing[c.name] < 2
                   THEN [missing EXCEPT ![c.name] = @ + 1] ELSE missing
     /\ CASE finds -> /\ pc' = "finding"
                      /\ UNCHANGED <<batch, step, outcome, ran, streak, injected, unverified, unseen>>
          [] ~finds /\ Ok(r) -> SettleOk(c, r, queued)
          [] OTHER -> SettleFailed(c, queued \/ (r = "hidden" /\ shots' = 2))

Found ==
  /\ pc = "finding"
  /\ UNCHANGED <<tools, calls, signal, pinned, nudges, fails, missing, shots, mutated, doubtful>>
  /\ \E answered \in BOOLEAN : SettleFailed(calls[at], queued \/ answered)

(* executeTool rejects: the turn ends.                                     *)
CallThrows ==
  /\ pc = "calling"
  /\ Thrown
  /\ UNCHANGED <<tools, step, ran, signal, progress, closing, batch>>

(* The tab shows what the task was about: the model may only reply.        *)
Pins ==
  /\ pc = "looking"
  /\ pinned' = TRUE /\ unverified' = FALSE
  /\ UNCHANGED <<ran, calls, navigated>>
  /\ EndBatch(tail, TRUE)
  /\ UNCHANGED <<tools, signal, progress, nudges, unseen>>

Looked ==
  /\ pc = "looking"
  /\ UNCHANGED <<progress, calls, navigated>>
  /\ Proceed(tail, queued, ran, at + 1)
  /\ UNCHANGED <<tools, signal, closing>>

(* The request behind a navigation is not counted.                         *)
Napped_Uncounted ==
  /\ pc = "napping"
  /\ IF Aborted THEN Thrown ELSE pc' = "asking" /\ UNCHANGED outcome
  /\ UNCHANGED <<tools, step, ran, signal, progress, closing, batch>>

Napped ==
  /\ pc = "napping"
  /\ NextRequest
  /\ UNCHANGED <<tools, ran, signal, progress, closing, batch>>

(* The page as the loop has read it is evidence, if there is any text.     *)
EvidenceRead ==
  /\ pc = "evidence"
  /\ \E text \in BOOLEAN :
       /\ nudges' = IF text THEN nudges ELSE nudges \cup {"inspect"}
       /\ unseen' = (unseen /\ ~text)
  /\ tail' = Append(tail, 0)
  /\ NextRequest
  /\ UNCHANGED <<tools, ran, signal, progress, pinned, unverified, calls, at, queued, navigated>>

-----------------------------------------------------------------------------
(* The caller.                                                             *)

(* The metadata of the tab has come, or null, and the text is sent: nobody *)
(* asks any more whether the turn was stopped.                             *)
Reported ==
  /\ pc = "reporting"
  /\ pc' = "over"
  /\ UNCHANGED <<tools, step, ran, signal, outcome, progress, closing, batch>>

(* The turn runs again, with tools and behind the queue; or its tab cannot be*)
(* had, or it was cancelled in the queue.                                  *)
ReRun ==
  /\ pc = "requeued"
  /\ \/ Thrown /\ UNCHANGED <<tools, step, ran, signal, progress, closing, batch>>
     \/ /\ tools' = TRUE /\ signal' = signal \ {"time"} /\ pc' = "starting" /\ step' = 0 /\ ran' = {} /\ UNCHANGED outcome
        /\ calls' = << >> /\ at' = 1 /\ tail' = << >> /\ queued' = FALSE /\ navigated' = FALSE
        /\ fails' = [c \in Call |-> 0] /\ missing' = [n \in Names |-> 0] /\ shots' = 0
        /\ streak' = NoStreak /\ mutated' = "none" /\ doubtful' = FALSE /\ injected' = FALSE
        /\ pinned' = FALSE /\ unverified' = FALSE /\ nudges' = {} /\ unseen' = FALSE

(* Stop, or the end of the time budget of the loop.                        *)
Abort(why) ==
  /\ pc # "over" /\ why \notin signal
  /\ why = "time" => pc \notin {"preparing", "requeued", "reporting"}
  /\ signal' = signal \cup {why}
  /\ UNCHANGED <<pc, tools, step, ran, outcome, progress, closing, batch>>

LoopStep ==
  \/ Prepared \/ Began \/ RouterFails \/ Admits \/ RepliesMarkup
  \/ \E text \in {"words", "empty", "tags"} : Replies(text)
  \/ \E b \in Batches : Calls(b)
  \/ \E r \in {"ok", "long", "suspicious", "failed", "notFound", "hidden"} : Called(r)
  \/ Found \/ CallThrows \/ Pins \/ Looked \/ Napped \/ EvidenceRead \/ ReRun \/ Reported

Next == LoopStep \/ \E why \in {"stop", "time"} : Abort(why)

Spec == Init /\ [][Next]_vars

(* Nothing times these awaits out: the session and the tab, a tool, and the *)
(* queue behind the tools of another turn.                                 *)
Untimed == pc \in {"preparing", "calling", "finding", "evidence", "requeued"}

(* The router answers or times out, and Chrome answers about its tabs.      *)
FairSpec == Spec /\ WF_vars(~Untimed /\ LoopStep)

-----------------------------------------------------------------------------
(* Properties.                                                             *)

(* The "adjacency contract" of loop.js: when the router is asked again, every*)
(* call of the last assistant message has been answered, in order, before  *)
(* anything else was said; unless the task was found done between two calls.*)
CallsAnswered ==
  pc = "asking" =>
    /\ \A j \in DOMAIN calls : pinned \/ \E i \in DOMAIN tail : tail[i] = j
    /\ \A i, k \in DOMAIN tail : i < k /\ tail[k] # 0 => tail[i] # 0 /\ tail[i] <= tail[k]

(* "the OpenAI contract is 1:1 (one tool message per tool_call_id)".       *)
AnsweredOnce ==
  pc = "asking" => \A i, k \in DOMAIN tail : i # k /\ tail[i] = tail[k] => tail[i] = 0

(* "never claim completion without observing the result": the words of the *)
(* model end the turn only if somebody has read the page since its last click*)
(* or input, the task was seen to be done, or the model was asked to look. *)
ClaimIsChecked ==
  outcome \in {"said", "noted", "replaced"} /\ unseen => pinned \/ "inspect" \in nudges

(* "an explicit stop wins": after it, or after the time-out, no tool of the*)
(* model begins, and the loop returns no text of it; only the tool that was *)
(* running may end the turn as stuck.  A text that was returned before is   *)
(* sent in spite of the stop, and an error before the loop stays one.       *)
StopIsHeeded ==
  [][Aborted /\ outcome = "none" =>
       /\ ~(pc' = "calling" /\ <<pc, at>> # <<pc', at'>>)
       /\ outcome' \in {"none", "cancelled", "error", "stuck", "refused"}
       /\ outcome' = "error" => "stop" \notin signal \/ pc = "preparing"]_vars

(* However the model, the tools and the user behave, the turn ends, unless it*)
(* stays in an await that nothing times out: it asks the router a bounded  *)
(* number of times, and becomes a browser turn at most once.               *)
TurnEnds == <>(pc = "over") \/ <>[]Untimed
=============================================================================
