----------------------------- MODULE ChatTurns ------------------------------
(***************************************************************************)
(* The renderer's side of a turn (App.tsx): messages are sent at once or     *)
(* queued behind the running turn of their conversation, a queued message    *)
(* may be interjected by interrupting that turn, and a turn that fails may   *)
(* be replaced by another one.  JavaScript runs one task at a time; a step   *)
(* is what happens between two awaits, and another task may run in between.  *)
(* A message is named by the turn that works on it.  Of the backend only     *)
(* what the renderer can see is here: TurnService has the rest.              *)
(***************************************************************************)
EXTENDS Naturals, FiniteSets, SequencesExt

CONSTANTS
  Turn,           \* turn ids; bounds the number of messages and replacements
  Conversation,
  NoTurn,
  Of              \* the conversation each turn belongs to

ASSUME NoTurnAssumption == NoTurn \notin Turn
ASSUME OfAssumption == Of \in [Turn -> Conversation]

VARIABLES
  at,           \* where the function that sends the message is
  queue,        \* queuedFollowUpsRef
  running,      \* runningTurnByConversationRef
  known,        \* the keys of turnConversationIds, in insertion order
  lock,         \* the message whose send holds sendMessageLock
  deferred,     \* the interjected message that interjectDeferred belongs to
  target,       \* the turn whose end an interjected message waits for
  resolved,     \* interjected messages whose promise has been resolved
  summarising,  \* turns whose clean-up waits for their summary
  work,         \* the backend's work on the turn
  mapped,       \* TurnService.active_by_conversation
  answer,       \* what the interrupt of an interjected message returned
  inbox         \* replies and events on their way to the renderer

chat == <<at, queue, running, known, lock>>
interjection == <<deferred, target, resolved>>
backend == <<work, mapped>>
vars == <<chat, interjection, summarising, backend, answer, inbox>>

Message == {"started", "reply", "refused", "terminal"} \X Turn

TypeOK ==
  /\ at \in [Turn -> {"new", "queued", "interrupting", "waiting",
                      "preparing", "asking", "sent", "failed"}]
  /\ queue \in Seq(Turn)
  /\ running \in [Conversation -> Turn \cup {NoTurn}]
  /\ known \in Seq(Turn) /\ IsInjective(known)
  /\ lock \in Turn \cup {NoTurn}
  /\ deferred \in Turn \cup {NoTurn}
  /\ target \in [Turn -> Turn \cup {NoTurn}]
  /\ resolved \subseteq Turn
  /\ summarising \subseteq Turn
  /\ work \in [Turn -> {"none", "starting", "running", "over"}]
  /\ mapped \in [Conversation -> Turn \cup {NoTurn}]
  /\ answer \in [Turn -> {"none", "yes", "no"}]
  /\ inbox \in Seq(Message)

Init ==
  /\ at = [t \in Turn |-> "new"]
  /\ queue = <<>>
  /\ running = [c \in Conversation |-> NoTurn]
  /\ known = <<>>
  /\ lock = NoTurn
  /\ deferred = NoTurn
  /\ target = [t \in Turn |-> NoTurn]
  /\ resolved = {}
  /\ summarising = {}
  /\ work = [t \in Turn |-> "none"]
  /\ mapped = [c \in Conversation |-> NoTurn]
  /\ answer = [t \in Turn |-> "none"]
  /\ inbox = <<>>

Live(t) == work[t] \in {"starting", "running"}

-----------------------------------------------------------------------------
(* runTurn, markTurnStarted, markTurnFinished.                                *)

(* turnConversationIds[turn] = conversation: a key keeps its place.           *)
Noted(ids, t) == IF t = NoTurn \/ Contains(ids, t) THEN ids ELSE Append(ids, t)

(* delete turnConversationIds[turn].                                          *)
Forgotten(ids, t) ==
  IF Contains(ids, t) THEN RemoveAt(ids, CHOOSE i \in DOMAIN ids : ids[i] = t) ELSE ids

MarkStarted(t) == [running EXCEPT ![Of[t]] = t]

(* The conversation is not reserved before the first await.                   *)
RunTurn_NoReserve(t) ==
  /\ at' = [at EXCEPT ![t] = "preparing"]
  /\ known' = Noted(known, t)
  /\ UNCHANGED running

(* Up to its first await runTurn notes the turn and reserves the conversation. *)
RunTurn(t) ==
  /\ at' = [at EXCEPT ![t] = "preparing"]
  /\ known' = Noted(known, t)
  /\ running' = MarkStarted(t)

(* A stale terminal event does not clear a newer turn.                        *)
MarkFinished(t) == [running EXCEPT ![Of[t]] = IF @ = t THEN NoTurn ELSE @]

(* sendMessage's finally.                                                     *)
Unlocked(t) == IF lock = t THEN NoTurn ELSE lock

-----------------------------------------------------------------------------
(* Sending and queueing.                                                      *)

(* sendMessage, after its checks: queue behind the running turn, or run the   *)
(* turn and hold the lock until send_turn has answered.                       *)
SendMessage(t) ==
  /\ at[t] = "new"
  /\ lock = NoTurn
  /\ IF running[Of[t]] # NoTurn
     THEN /\ queue' = Append(queue, t)
          /\ at' = [at EXCEPT ![t] = "queued"]
          /\ UNCHANGED <<running, known, lock>>
     ELSE /\ RunTurn(t)
          /\ lock' = t
          /\ UNCHANGED queue
  /\ UNCHANGED <<interjection, summarising, backend, answer, inbox>>

(* flushQueuedFollowUps, the effect of a change of the queue or of running:   *)
(* the first message whose conversation is free is run.                       *)
FlushQueued ==
  \E i \in DOMAIN queue :
    /\ running[Of[queue[i]]] = NoTurn
    /\ \A j \in 1 .. i - 1 : running[Of[queue[j]]] # NoTurn
    /\ RunTurn(queue[i])
    /\ queue' = RemoveAt(queue, i)
    /\ UNCHANGED <<lock, interjection, summarising, backend, answer, inbox>>

(* The request is prepared and the workspace snapshot taken.                  *)
Prepare(t) ==
  /\ at[t] = "preparing"
  /\ at' = [at EXCEPT ![t] = "asking"]
  /\ UNCHANGED <<queue, running, known, lock, interjection, summarising, backend, answer, inbox>>

(* Nothing is undone when the turn could not be sent.                         *)
Throw_KeepsBusy(t) ==
  /\ at' = [at EXCEPT ![t] = "failed"]
  /\ lock' = Unlocked(t)
  /\ UNCHANGED <<queue, running, known, interjection, summarising, backend, answer>>

(* runTurn's catch: the conversation is free again, but the turn stays noted. *)
Throw(t) ==
  /\ at' = [at EXCEPT ![t] = "failed"]
  /\ running' = MarkFinished(t)
  /\ lock' = Unlocked(t)
  /\ UNCHANGED <<queue, known, interjection, summarising, backend, answer>>

-----------------------------------------------------------------------------
(* The backend, as the renderer sees it.                                      *)

Accept(t) ==
  /\ at[t] = "asking" /\ work[t] = "none"
  /\ work' = [work EXCEPT ![t] = "starting"]
  /\ mapped' = [mapped EXCEPT ![Of[t]] = t]
  /\ inbox' = Append(Append(inbox, <<"started", t>>), <<"reply", t>>)
  /\ UNCHANGED <<chat, interjection, summarising, answer>>

(* An update is being installed, or the thread cannot be spawned.             *)
Refuse(t) ==
  /\ at[t] = "asking" /\ work[t] = "none"
  /\ work' = [work EXCEPT ![t] = "over"]
  /\ \E before \in {inbox, Append(inbox, <<"started", t>>)} : inbox' = Append(before, <<"refused", t>>)
  /\ UNCHANGED <<chat, interjection, summarising, mapped, answer>>

(* There is something an interrupt can signal: a media job or the CLI.        *)
BecomesInterruptible(t) ==
  /\ work[t] = "starting"
  /\ work' = [work EXCEPT ![t] = "running"]
  /\ UNCHANGED <<chat, interjection, summarising, mapped, answer, inbox>>

TurnEnds(t) ==
  /\ Live(t)
  /\ work' = [work EXCEPT ![t] = "over"]
  /\ mapped' = [mapped EXCEPT ![Of[t]] = IF @ = t THEN NoTurn ELSE @]
  /\ inbox' = Append(inbox, <<"terminal", t>>)
  /\ UNCHANGED <<chat, interjection, summarising, answer>>

Interrupt(t) ==
  /\ at[t] = "interrupting" /\ answer[t] = "none"
  /\ LET u == mapped[Of[t]]
     IN  answer' = [answer EXCEPT ![t] =
                      IF u # NoTurn /\ work[u] = "running" THEN "yes" ELSE "no"]
  /\ UNCHANGED <<chat, interjection, summarising, backend, inbox>>

-----------------------------------------------------------------------------
(* Interjecting a queued message.                                             *)

(* The first turn noted for the conversation is taken for its current turn.   *)
CurrentTurn(i, c) ==
  /\ i \in DOMAIN known
  /\ Of[known[i]] = c
  /\ \A j \in 1 .. i - 1 : Of[known[j]] # c

(* The message leaves the queue.  Without a current turn it is run, otherwise *)
(* that turn is interrupted and its end awaited.                              *)
Interject(t) ==
  /\ deferred = NoTurn
  /\ \E i \in DOMAIN queue : queue[i] = t /\ queue' = RemoveAt(queue, i)
  /\ \/ /\ \A i \in DOMAIN known : Of[known[i]] # Of[t]
        /\ RunTurn(t)
        /\ UNCHANGED interjection
     \/ /\ \E i \in DOMAIN known :
             CurrentTurn(i, Of[t]) /\ target' = [target EXCEPT ![t] = known[i]]
        /\ deferred' = t
        /\ at' = [at EXCEPT ![t] = "interrupting"]
        /\ UNCHANGED <<running, known, resolved>>
  /\ UNCHANGED <<lock, summarising, backend, answer, inbox>>

(* "no": the promise is resolved at once, and interjectDeferred forgotten     *)
(* whoever it belongs to by now.  "yes": the message goes on if the turn has  *)
(* ended meanwhile, and waits otherwise.                                      *)
InterruptAnswered(t) ==
  /\ at[t] = "interrupting" /\ answer[t] # "none"
  /\ IF answer[t] = "no"
     THEN deferred' = NoTurn /\ resolved' = resolved \cup {t}
     ELSE UNCHANGED <<deferred, resolved>>
  /\ IF t \in resolved'
     THEN RunTurn(t)
     ELSE at' = [at EXCEPT ![t] = "waiting"] /\ UNCHANGED <<running, known>>
  /\ UNCHANGED <<queue, lock, target, summarising, backend, answer, inbox>>

-----------------------------------------------------------------------------
(* handleAgentEvent and the replies of send_turn.                             *)

Takes(kind, t) == inbox # <<>> /\ Head(inbox) = <<kind, t>> /\ inbox' = Tail(inbox)

OnStarted(t) ==
  /\ Takes("started", t)
  /\ running' = MarkStarted(t)
  /\ known' = Noted(known, t)
  /\ UNCHANGED <<at, queue, lock, interjection, summarising, backend, answer>>

OnReply(t) ==
  /\ Takes("reply", t)
  /\ at' = [at EXCEPT ![t] = "sent"]
  /\ running' = MarkStarted(t)
  /\ known' = Noted(known, t)
  /\ lock' = Unlocked(t)
  /\ UNCHANGED <<queue, interjection, summarising, backend, answer>>

OnRefused(t) == Takes("refused", t) /\ Throw(t)

(* The turn is over.  A promise that waits for it is resolved, and a message  *)
(* that awaits that promise runs right after the handler, which may itself    *)
(* have begun a turn in replacement.                                          *)
Conclude(t, replacement, cleanup) ==
  LET woken == IF deferred # NoTurn /\ target[deferred] = t THEN deferred ELSE NoTurn
      resumed == IF woken # NoTurn /\ at[woken] = "waiting" THEN woken ELSE NoTurn
      last == IF resumed # NoTurn THEN resumed ELSE replacement
      kept == IF cleanup THEN Forgotten(known, t) ELSE known
  IN  /\ deferred' = IF woken = NoTurn THEN deferred ELSE NoTurn
      /\ resolved' = resolved \cup ({woken} \ {NoTurn})
      /\ at' = [u \in Turn |-> IF u \in {replacement, resumed} THEN "preparing" ELSE at[u]]
      /\ running' = [running EXCEPT ![Of[t]] =
                       IF last # NoTurn THEN last ELSE IF @ = t THEN NoTurn ELSE @]
      /\ known' = Noted(Noted(kept, replacement), resumed)
      /\ UNCHANGED <<queue, lock, target, backend, answer>>

(* Done: clean-up waits for the summary of the changed files.                 *)
OnDone(t) ==
  /\ Takes("terminal", t)
  /\ Conclude(t, NoTurn, FALSE)
  /\ summarising' = summarising \cup {t}

(* A plain Error.                                                             *)
OnError(t) ==
  /\ Takes("terminal", t)
  /\ Conclude(t, NoTurn, TRUE)
  /\ UNCHANGED summarising

(* An Error or Done the renderer recovers from (credentials refreshed, context *)
(* too long, session gone): another turn of the same conversation is begun.   *)
OnRecoverable(t) ==
  /\ Takes("terminal", t)
  /\ \E r \in Turn :
       /\ at[r] = "new" /\ Of[r] = Of[t]
       /\ Conclude(t, r, TRUE)
  /\ UNCHANGED summarising

(* settleGoalTurnAfterSummary.                                                *)
Summarised(t) ==
  /\ t \in summarising
  /\ summarising' = summarising \ {t}
  /\ known' = Forgotten(known, t)
  /\ UNCHANGED <<at, queue, running, lock, interjection, backend, answer, inbox>>

-----------------------------------------------------------------------------
Deliver(t) ==
  \/ OnStarted(t) \/ OnReply(t) \/ OnRefused(t)
  \/ OnDone(t) \/ OnError(t) \/ OnRecoverable(t)

Next ==
  \/ FlushQueued
  \/ \E t \in Turn :
       \/ SendMessage(t) \/ Prepare(t)
       \/ Accept(t) \/ Refuse(t) \/ BecomesInterruptible(t) \/ TurnEnds(t) \/ Interrupt(t)
       \/ Interject(t) \/ InterruptAnswered(t) \/ Deliver(t) \/ Summarised(t)

(* Tasks, commands and effects run and turns end; nothing makes a user act.   *)
Fairness ==
  /\ WF_vars(FlushQueued)
  /\ \A t \in Turn :
       /\ WF_vars(Prepare(t))
       /\ WF_vars(Accept(t) \/ Refuse(t))
       /\ WF_vars(TurnEnds(t))
       /\ WF_vars(Interrupt(t))
       /\ WF_vars(InterruptAnswered(t))
       /\ WF_vars(Deliver(t))
       /\ WF_vars(Summarised(t))

Spec == Init /\ [][Next]_vars
FairSpec == Spec /\ Fairness

-----------------------------------------------------------------------------
(* Properties.                                                                *)

Interjected(c) == \E t \in Turn : Of[t] = c /\ target[t] # NoTurn

AtWork(t) == Live(t) \/ at[t] \in {"preparing", "asking"}

(* "Reserve the conversation before the async request preparation": as long   *)
(* as nobody interjects, sends, queue flushes and recoveries never put two    *)
(* turns of a conversation to work.                                           *)
ReservedForOne ==
  \A t, u \in Turn :
    AtWork(t) /\ AtWork(u) /\ Of[t] = Of[u] /\ ~Interjected(Of[t]) => t = u

(* A conversation without interjections is shown busy, and its messages are   *)
(* queued, from the click until the turn has ended.                           *)
BusyWhileLive ==
  \A t \in Turn : Live(t) /\ ~Interjected(Of[t]) => running[Of[t]] = t

(* A conversation is not left busy by a turn that is over: whoever occupies   *)
(* it still has a step to take that frees it.                                 *)
BusyWillEnd ==
  \A c \in Conversation : running[c] # NoTurn =>
    LET t == running[c]
    IN  \/ at[t] \in {"preparing", "asking"} \/ Live(t)
        \/ <<"terminal", t>> \in Range(inbox) \/ <<"refused", t>> \in Range(inbox)

(* A queued message leaves the queue, whatever happens to the turns before it. *)
QueuedLeaves == \A t \in Turn : at[t] = "queued" ~> at[t] # "queued"

-----------------------------------------------------------------------------
(* The invariant behind BusyWillEnd and ReservedForOne.                       *)

(* What is on its way from a turn arrives in the order of its life, once.     *)
Ordered(box) ==
  \A i, j \in DOMAIN box :
    i < j /\ box[i][2] = box[j][2] =>
      /\ box[i][1] \in {"started", "reply"} /\ box[j][1] # "started"
      /\ box[i][1] = "reply" => box[j][1] = "terminal"

InOrder == Ordered(inbox)

(* How far the renderer is with a turn, the backend may be, and what is still *)
(* on its way between them.                                                   *)
Stage(t) ==
  /\ at[t] \in {"new", "queued", "interrupting", "waiting", "preparing"} => work[t] = "none"
  /\ work[t] = "none" => at[t] \notin {"sent", "failed"} /\ \A m \in Range(inbox) : m[2] # t
  /\ at[t] = "asking" /\ work[t] # "none" =>
       <<"refused", t>> \in Range(inbox) \/ <<"reply", t>> \in Range(inbox)
  /\ Live(t) =>
       at[t] # "failed" /\ <<"refused", t>> \notin Range(inbox) /\ <<"terminal", t>> \notin Range(inbox)
  /\ <<"reply", t>> \in Range(inbox) => Live(t) \/ <<"terminal", t>> \in Range(inbox)
  /\ at[t] = "sent" => \A m \in Range(inbox) : m[2] = t => m[1] = "terminal"
  /\ at[t] = "failed" => \A m \in Range(inbox) : m[2] # t

StageInv == \A t \in Turn : Stage(t)

(* A message is in the queue once, and only while it is queued.               *)
QueueInv == IsInjective(queue) /\ \A t \in Range(queue) : at[t] = "queued"

(* Waiting for a turn, and occupying a conversation, stay in the conversation. *)
OwnInv ==
  /\ \A t \in Turn : target[t] # NoTurn => Of[target[t]] = Of[t]
  /\ \A c \in Conversation : running[c] # NoTurn => Of[running[c]] = c

LifeInv == TypeOK /\ InOrder /\ StageInv /\ QueueInv /\ OwnInv /\ BusyWillEnd

(* A turn at work, or with a message on its way, is noted; it has its         *)
(* conversation to itself until somebody interjects there.                    *)
Claims(t) == AtWork(t) \/ \E m \in Range(inbox) : m[2] = t

ClaimInv ==
  \A t \in Turn : Claims(t) =>
    t \in Range(known) /\ (~Interjected(Of[t]) => running[Of[t]] = t)

(* Only a turn that is over is forgotten after its summary; who waits for the  *)
(* end of a turn has interjected.                                              *)
PauseInv ==
  /\ \A t \in summarising : at[t] = "sent" /\ ~Claims(t)
  /\ \A t \in Turn : at[t] \in {"interrupting", "waiting"} => target[t] # NoTurn

IndInv == LifeInv /\ ClaimInv /\ PauseInv
=============================================================================
