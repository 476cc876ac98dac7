----------------------------- MODULE GoalCycle ------------------------------
(***************************************************************************)
(* The goal loop of the renderer: runGoalCycle (goalScheduler.ts), the       *)
(* delegate and the /goal commands of App.tsx.  A goal is one objective (a   *)
(* legacy goal, with no tasks) or a batch of tasks.  The loop evaluates the  *)
(* goal, sends a turn, evaluates again, and compacts the conversation        *)
(* between two tasks.  A loop is stopped by aborting its controller, but it  *)
(* notices only after its next await: an old loop and a new one may be live  *)
(* at once, and both write the one goal.                                     *)
(* Every action is what happens between two awaits of one loop.              *)
(***************************************************************************)
EXTENDS Naturals, Sequences

CONSTANTS
  Cycle,          \* runs of runGoalCycle; bounds the starts and resumes
  NoCycle,
  NoGoal,
  Batches,        \* the numbers of tasks a goal may be started with; 0: legacy
  Toolless,       \* the tasks declared toolless
  Text,           \* what an evaluation says besides its decision
  MaxErrors,      \* MAX_EVALUATION_ERRORS
  LoopThreshold,  \* LOOP_FINGERPRINT_THRESHOLD
  Stagnation      \* BATCH_STAGNATION_K

ASSUME NoCycleAssumption == NoCycle \notin Cycle
ASSUME BatchesAssumption == Batches \subseteq Nat
ASSUME ThresholdsAssumption ==
  /\ MaxErrors \in Nat \ {0}
  /\ LoopThreshold \in Nat \ {0}
  /\ Stagnation \in Nat \ {0}

VARIABLES
  goal,           \* the goal of the conversation, or NoGoal
  at,             \* the await each loop is suspended at
  after,          \* where a loop goes on after the compaction it waits for
  snap,           \* the goal a loop read before it asked for an evaluation
  aborted,        \* the loops whose controller is aborted
  abortRef,       \* goalAbortRef: the loop the user's commands abort
  turnWaiter,     \* turnCompletionDeferred
  compactWaiter,  \* compactCompletionDeferred
  work,           \* the CLI turn of each loop
  disturbed       \* a loop was started before the last one and its turn were
                  \* over, or a compaction was cut short (for the properties)

loops == <<at, after, snap>>
waiters == <<turnWaiter, compactWaiter>>
vars == <<goal, loops, aborted, abortRef, waiters, work, disturbed>>

TaskStatus == {"pending", "active", "blocked", "done", "failed"}
Decision == {"complete", "continue", "needsUser", "unsafe"}
Fingerprint == (Decision \X Text) \cup ({"d1"} \X Nat)
Why == {"none", "userPaused", "goalError", "infraError", "batchStagnation", "needsUser", "unsafe"}

(* Of recentFingerprints the code reads the last entry and whether the last   *)
(* three are the same; noProgressCount is one less than the length of that    *)
(* repetition, and always reset with the ring, so it adds nothing.            *)
EmptyRing == [last |-> <<>>, run |-> 0]

Goal == [by: Cycle,
         status: {"active", "evaluating", "continuing", "paused", "blocked", "completed"},
         why: Why,
         tasks: Seq(TaskStatus),
         idx: Nat \ {0},
         worked: BOOLEAN,              \* turnsRunThisTask > 0
         errs: 0 .. MaxErrors,
         ring: [last: Fingerprint \cup {<<>>}, run: 0 .. LoopThreshold],
         failedRun: 0 .. Stagnation,   \* consecutiveFailedTasks
         compactionFailed: BOOLEAN,    \* compactionFailures > 0
         acted: SUBSET {"turn", "compact"},  \* who acted in the task's evidence window
         read: BOOLEAN]                \* the task has been evaluated (for a property)

ASSUME NoGoalAssumption == NoGoal \notin Goal

TypeOK ==
  /\ goal \in Goal \cup {NoGoal}
  /\ at \in [Cycle -> {"unused", "evaluating", "sleeping", "sending", "turn",
                       "compactSending", "compacting", "over"}]
  /\ after \in [Cycle -> {"none", "top", "continue"}]
  /\ snap \in [Cycle -> Goal \cup {NoGoal}]
  /\ aborted \subseteq Cycle
  /\ abortRef \in Cycle \cup {NoCycle}
  /\ turnWaiter \in Cycle \cup {NoCycle}
  /\ compactWaiter \in Cycle \cup {NoCycle}
  /\ work \in [Cycle -> {"none", "turn", "compact", "settling", "over"}]
  /\ disturbed \in BOOLEAN

Init ==
  /\ goal = NoGoal
  /\ at = [c \in Cycle |-> "unused"]
  /\ after = [c \in Cycle |-> "none"]
  /\ snap = [c \in Cycle |-> NoGoal]
  /\ aborted = {}
  /\ abortRef = NoCycle
  /\ turnWaiter = NoCycle
  /\ compactWaiter = NoCycle
  /\ work = [c \in Cycle |-> "none"]
  /\ disturbed = FALSE

Live(c) == at[c] \notin {"unused", "over"}
Working(c) == work[c] \in {"turn", "compact", "settling"}
Compacting(c) == at[c] \in {"compactSending", "compacting"}
Running(g) == g # NoGoal /\ g.status \in {"active", "evaluating", "continuing"}

-----------------------------------------------------------------------------
(* What the writes make of a goal.  updateGoal drops a write to no goal.      *)

(* updateGoal.                                                                *)
Write(g, new) == IF g = NoGoal THEN NoGoal ELSE new

(* createGoalState.                                                           *)
NewGoal(c, n) ==
  [by |-> c, status |-> "active", why |-> "none",
   tasks |-> [i \in 1 .. n |-> IF i = 1 THEN "active" ELSE "pending"],
   idx |-> 1, worked |-> FALSE, errs |-> 0, ring |-> EmptyRing, failedRun |-> 0,
   compactionFailed |-> FALSE, acted |-> {}, read |-> FALSE]

Paused(g, why) == Write(g, [g EXCEPT !.status = "paused", !.why = why])

(* The loop ends without a word.                                              *)
GoalError_Silent(g) == g

(* The pause at the end of a loop whose turn gave no session, and the one in  *)
(* the catch of startGoalScheduler.                                           *)
GoalError(g) == Paused(g, "goalError")
Thrown(g) == IF g # NoGoal /\ g.status \in {"paused", "completed"} THEN g ELSE GoalError(g)

(* stampCurrentTask.                                                          *)
Stamped(g, outcome) ==
  Write(g, IF g.tasks = <<>> THEN g ELSE [g EXCEPT !.tasks[g.idx] = outcome])

(* The next task is not activated.                                            *)
Advanced_NoActivate(g, i, outcome, failedRun) ==
  Write(g, [g EXCEPT !.tasks[i] = outcome, !.idx = i + 1, !.worked = FALSE,
                     !.failedRun = failedRun, !.acted = {}, !.read = FALSE])

(* advanceGoalTasks and the fields written with it; i is the task left.       *)
Advanced(g, i, outcome, failedRun) ==
  Write(g, [g EXCEPT !.tasks = [k \in DOMAIN @ |-> CASE k = i     -> outcome
                                                     [] k = i + 1 -> "active"
                                                     [] OTHER     -> @[k]],
                     !.idx = i + 1, !.worked = FALSE, !.failedRun = failedRun,
                     !.acted = {}, !.read = FALSE])

(* The evidence window stays as the advance left it.                          *)
Reopened_Never(g) == g

(* reopenTaskEvidenceWindow.                                                  *)
Reopened(g) ==
  IF g.tasks # <<>> /\ g.tasks[g.idx] = "active" THEN [g EXCEPT !.acted = {}] ELSE g

(* The ring of the task before is kept.                                       *)
Frontier_KeepsRing(g, compacted, poisoned) ==
  Write(g, [Reopened(g) EXCEPT !.worked = FALSE, !.compactionFailed = @ \/ ~compacted])

(* runTaskBoundaryFrontier after the compaction has settled.                  *)
Frontier(g, compacted, poisoned) ==
  Write(g, [Reopened(g) EXCEPT !.worked = FALSE,
                               !.ring = IF compacted \/ poisoned THEN EmptyRing ELSE @,
                               !.compactionFailed = @ \/ ~compacted])

(* The ring after one more evaluation.                                        *)
Pushed(ring, fingerprint) ==
  [last |-> fingerprint,
   run |-> IF ring.last # fingerprint THEN 1
           ELSE IF ring.run < LoopThreshold THEN ring.run + 1 ELSE ring.run]

Loops(g) == g.ring.run >= LoopThreshold

-----------------------------------------------------------------------------
(* Where a loop goes from one await to the next: the goal it leaves and the   *)
(* await it reaches.  dead says whether its controller is aborted.            *)

Reach(g, where) == [goal |-> g, at |-> where, after |-> "none", snap |-> NoGoal]
Over(g) == Reach(g, "over")

Evaluating(g) ==
  [Reach([g EXCEPT !.status = "evaluating"], "evaluating") EXCEPT !.snap = g]

(* continueGoal: nothing is sent by an aborted loop.                          *)
Continue(g, dead) ==
  IF dead THEN Over(GoalError(g))
  ELSE Reach(Write(g, [g EXCEPT !.status = "continuing"]), "sending")

(* The goal is completed and the loop returns.                                *)
Completed(g) == Over(Write(g, [g EXCEPT !.status = "completed"]))

(* A task whose loop was detected fails.                                      *)
Kill(g, dead) ==
  LET failedRun == IF g.failedRun < Stagnation THEN g.failedRun + 1 ELSE g.failedRun
      killed == Advanced(g, g.idx, "failed", failedRun)
      cleared == [killed EXCEPT !.ring = EmptyRing]
  IN IF g.idx = Len(g.tasks)
     THEN Completed([Stamped(g, "failed") EXCEPT !.failedRun = failedRun, !.ring = EmptyRing])
     ELSE IF failedRun >= Stagnation THEN Over(Paused(cleared, "batchStagnation"))
     ELSE IF ~g.worked THEN Evaluating(cleared)
     ELSE IF dead THEN Evaluating(Frontier(killed, FALSE, TRUE))
     ELSE [Reach(killed, "compactSending") EXCEPT !.after = "top"]

(* A pause does not stop the loop.                                            *)
LoopTop_Heedless(g, dead) ==
  IF g = NoGoal THEN Over(g)
  ELSE IF ~Loops(g) THEN Evaluating(g)
  ELSE IF g.tasks = <<>> THEN Over([g EXCEPT !.status = "blocked"])
  ELSE Kill(g, dead)

(* The top of the loop: neither completed nor blocked stops it.               *)
LoopTop(g, dead) ==
  IF g = NoGoal THEN Over(g)
  ELSE IF g.status = "paused" THEN Over(g)
  ELSE IF ~Loops(g) THEN Evaluating(g)
  ELSE IF g.tasks = <<>> THEN Over([g EXCEPT !.status = "blocked"])
  ELSE Kill(g, dead)

(* After the compaction; a ring that has just killed a task is poisoned.      *)
AfterCompaction(g, compacted, next, dead) ==
  LET reset == Frontier(g, compacted, next = "top")
  IN IF next = "top" THEN LoopTop(reset, dead) ELSE Continue(reset, dead)

(* The start of a loop: a blocked task is active again.                       *)
Starting(g) ==
  LoopTop(IF g.tasks # <<>> /\ g.tasks[g.idx] = "blocked" THEN Stamped(g, "active") ELSE g, FALSE)

(* A failed evaluation: s is the goal that was read before it.                *)
AfterError(g, s) ==
  LET errs == IF s.errs < MaxErrors THEN s.errs + 1 ELSE s.errs
  IN IF errs >= MaxErrors
     THEN Over(Stamped(Paused(Write(g, [g EXCEPT !.errs = errs]), "infraError"), "failed"))
     ELSE Reach(Write(g, [g EXCEPT !.errs = errs]), "sleeping")

(* The action-evidence guard (D1) on a task declared complete.                *)
Proven(s) == s.worked /\ (s.idx \in Toolless \/ s.acted # {})

(* A successful evaluation.                                                   *)
AfterVerdict(g, s, decision, text) ==
  LET batch == s.tasks # <<>>
      rejected == decision = "complete" /\ batch /\ ~Proven(s)
      advances == decision = "complete" /\ batch /\ Proven(s) /\ s.idx < Len(s.tasks)
      print == IF rejected THEN <<"d1", s.idx>> ELSE <<decision, text>>
      fresh == Write(g, [g EXCEPT !.errs = IF s.errs > 0 THEN 0 ELSE @, !.read = TRUE])
      moved == IF advances THEN Advanced(fresh, s.idx, "done", 0) ELSE fresh
      noted == Write(moved, [moved EXCEPT !.ring = Pushed(@, print)])
  IN IF advances THEN [Reach(noted, "compactSending") EXCEPT !.after = "continue"]
     ELSE IF decision = "complete" /\ ~rejected
     THEN Completed(Write(noted,
            [noted EXCEPT !.tasks = IF batch THEN [s.tasks EXCEPT ![s.idx] = "done"] ELSE @,
                          !.failedRun = IF batch THEN 0 ELSE @]))
     ELSE IF decision = "needsUser" THEN Over(Stamped(Paused(noted, decision), "blocked"))
     ELSE IF decision = "unsafe" THEN Over(Stamped(Paused(noted, decision), "failed"))
     ELSE Continue(noted, FALSE)

(* Loop c takes the step o; the turn it waited for, if any, is over.          *)
Take(c, o) ==
  /\ goal' = o.goal
  /\ at' = [at EXCEPT ![c] = o.at]
  /\ after' = [after EXCEPT ![c] = o.after]
  /\ snap' = [snap EXCEPT ![c] = o.snap]
  /\ work' = [work EXCEPT ![c] = CASE o.at \in {"sending", "compactSending"} -> "none"
                                   [] at[c] \in {"turn", "compacting"} -> "none"
                                   [] OTHER -> @]

-----------------------------------------------------------------------------
(* The loop.                                                                  *)

(* evaluateGoal throws when the loop was aborted meanwhile.                   *)
Evaluated(c) ==
  /\ at[c] = "evaluating"
  /\ c \notin aborted
  /\ \E decision \in Decision, text \in Text : Take(c, AfterVerdict(goal, snap[c], decision, text))
  /\ UNCHANGED <<aborted, abortRef, waiters, disturbed>>

EvaluationFails(c) ==
  /\ at[c] = "evaluating"
  /\ Take(c, AfterError(goal, snap[c]))
  /\ UNCHANGED <<aborted, abortRef, waiters, disturbed>>

(* The end of the back-off is the top of the loop.                            *)
Wake(c) ==
  /\ at[c] = "sleeping"
  /\ Take(c, LoopTop(goal, c \in aborted))
  /\ UNCHANGED <<aborted, abortRef, waiters, disturbed>>

(* sendTrackedTurn and runTurn take a workspace snapshot and then send,       *)
(* whether or not the loop was aborted meanwhile.                             *)
Send(c) ==
  /\ at[c] \in {"sending", "compactSending"}
  /\ work[c] = "none"
  /\ work' = [work EXCEPT ![c] = IF at[c] = "sending" THEN "turn" ELSE "compact"]
  /\ UNCHANGED <<goal, loops, aborted, abortRef, waiters, disturbed>>

(* send_turn refuses: a turn's loop throws, a compaction has failed (as it    *)
(* has in a conversation without a session).                                  *)
SendFails(c) ==
  /\ at[c] \in {"sending", "compactSending"}
  /\ work[c] = "none"
  /\ Take(c, IF at[c] = "sending" THEN Over(Thrown(goal))
             ELSE AfterCompaction(goal, FALSE, after[c], c \in aborted))
  /\ UNCHANGED <<aborted, abortRef, waiters, disturbed>>

(* The reply to a sent turn: it is counted and waited for.                    *)
TurnSent(c) ==
  /\ at[c] = "sending"
  /\ work[c] # "none"
  /\ IF c \in aborted
     THEN Take(c, Over(GoalError(goal))) /\ UNCHANGED turnWaiter
     ELSE /\ Take(c, Reach(Write(goal, [goal EXCEPT !.worked = goal.tasks # <<>>]), "turn"))
          /\ turnWaiter' = c
  /\ UNCHANGED <<aborted, abortRef, compactWaiter, disturbed>>

CompactSent(c) ==
  /\ at[c] = "compactSending"
  /\ work[c] # "none"
  /\ IF c \in aborted
     THEN Take(c, AfterCompaction(goal, FALSE, after[c], TRUE)) /\ UNCHANGED compactWaiter
     ELSE /\ Take(c, [Reach(goal, "compacting") EXCEPT !.after = after[c]])
          /\ compactWaiter' = c
  /\ UNCHANGED <<aborted, abortRef, turnWaiter, disturbed>>

(* The terminal event of a turn.  Only a loop that is registered is told:     *)
(* after a done event once the summary is there, after an error at once.      *)
Unheard(c) == IF at[c] \in {"sending", "compactSending"} THEN "over" ELSE "none"

TurnDone(c) ==
  /\ work[c] = "turn"
  /\ work' = [work EXCEPT ![c] = IF turnWaiter = c THEN "settling" ELSE Unheard(c)]
  /\ UNCHANGED <<goal, loops, aborted, abortRef, waiters, disturbed>>

TurnFails(c) ==
  /\ work[c] = "turn"
  /\ IF turnWaiter = c
     THEN Take(c, Over(Thrown(goal))) /\ turnWaiter' = NoCycle
     ELSE /\ work' = [work EXCEPT ![c] = Unheard(c)]
          /\ UNCHANGED <<goal, loops, turnWaiter>>
  /\ UNCHANGED <<aborted, abortRef, compactWaiter, disturbed>>

(* settleGoalTurnAfterSummary; a turn without a session ends the loop.        *)
TurnSettled(c) ==
  /\ work[c] = "settling"
  /\ IF turnWaiter = c
     THEN /\ \E o \in {LoopTop(goal, FALSE), Over(GoalError(goal))} : Take(c, o)
          /\ turnWaiter' = NoCycle
     ELSE /\ work' = [work EXCEPT ![c] = Unheard(c)]
          /\ UNCHANGED <<goal, loops, turnWaiter>>
  /\ UNCHANGED <<aborted, abortRef, compactWaiter, disturbed>>

CompactEnds(c) ==
  /\ work[c] = "compact"
  /\ IF compactWaiter = c
     THEN /\ \E compacted \in BOOLEAN :
               Take(c, AfterCompaction(goal, compacted, after[c], FALSE))
          /\ compactWaiter' = NoCycle
     ELSE /\ work' = [work EXCEPT ![c] = Unheard(c)]
          /\ UNCHANGED <<goal, loops, compactWaiter>>
  /\ UNCHANGED <<aborted, abortRef, turnWaiter, disturbed>>

(* A whitelisted activity of a turn appears in the transcript; its time is    *)
(* inside every evidence window that is open.                                 *)
Noticed(g, who) ==
  IF g = NoGoal THEN g
  ELSE IF g.tasks = <<>> THEN g
  ELSE [g EXCEPT !.acted = @ \cup {who}]

Act(c) ==
  /\ work[c] \in {"turn", "compact"}
  /\ goal' = Noticed(goal, work[c])
  /\ snap' = [d \in Cycle |-> Noticed(snap[d], work[c])]
  /\ UNCHANGED <<at, after, aborted, abortRef, waiters, work, disturbed>>

-----------------------------------------------------------------------------
(* The user's commands.                                                       *)

Fresh == CHOOSE c \in Cycle : at[c] = "unused"

(* An abort does not end the wait.                                            *)
Waits_Deaf(d) == FALSE

(* The loop the user aborts waits for a turn: it goes on in the microtasks    *)
(* that follow the command, before anything else runs.                        *)
Waits(d) == d \in {turnWaiter, compactWaiter}

Interrupted(d, g) ==
  IF at[d] = "turn" THEN Over(GoalError(g)) ELSE AfterCompaction(g, FALSE, after[d], TRUE)

(* The command leaves the goal g and has started loop c with o (c = NoCycle:  *)
(* it has started none); stops says whether it aborts the last loop.          *)
Command(g, c, o, stops) ==
  LET d == abortRef
      stopped == stops /\ d # NoCycle
      wakes == stopped /\ Waits(d)
      i == IF wakes THEN Interrupted(d, g) ELSE o
  IN /\ goal' = i.goal
     /\ at' = [e \in Cycle |-> CASE e = c -> o.at
                                  [] e = d /\ wakes -> i.at
                                  [] OTHER -> at[e]]
     /\ after' = [e \in Cycle |-> IF e = d /\ wakes THEN i.after ELSE after[e]]
     /\ snap' = [e \in Cycle |-> CASE e = c -> o.snap
                                    [] e = d /\ wakes -> i.snap
                                    [] OTHER -> snap[e]]
     /\ turnWaiter' = IF wakes /\ turnWaiter = d THEN NoCycle ELSE turnWaiter
     /\ compactWaiter' = IF wakes /\ compactWaiter = d THEN NoCycle ELSE compactWaiter
     /\ aborted' = IF stopped THEN aborted \cup {d} ELSE aborted
     /\ abortRef' = IF c = NoCycle THEN abortRef ELSE c
     /\ disturbed' = \/ disturbed
                     \/ c # NoCycle /\ \E e \in Cycle : Live(e) \/ Working(e)
                     \/ stopped /\ Compacting(d)
     /\ UNCHANGED work

(* /goal <objective>.                                                         *)
Start(n) ==
  /\ \E c \in Cycle : at[c] = "unused"
  /\ LET new == Starting(NewGoal(Fresh, n)) IN Command(new.goal, Fresh, new, TRUE)

(* /goal pause, in whatever status the goal is; the CLI turn goes on.         *)
Pause == LET g == Paused(goal, "userPaused") IN Command(g, NoCycle, Reach(g, "over"), TRUE)

(* resumePausedGoal, by command or by a reply; the last loop is not aborted.  *)
Resume ==
  /\ goal # NoGoal
  /\ goal.status \in {"paused", "blocked"}
  /\ \E c \in Cycle : at[c] = "unused"
  /\ LET new == Starting([goal EXCEPT !.status = "active", !.errs = 0, !.ring = EmptyRing])
     IN Command(new.goal, Fresh, new, FALSE)

(* /goal clear.                                                               *)
Clear ==
  /\ goal # NoGoal
  /\ Command(NoGoal, NoCycle, Reach(NoGoal, "over"), TRUE)

(* handleEditObjective: refused for a batch.                                  *)
EditObjective ==
  /\ goal # NoGoal
  /\ goal.tasks = <<>>
  /\ goal' = [goal EXCEPT !.ring = EmptyRing]
  /\ UNCHANGED <<loops, aborted, abortRef, waiters, work, disturbed>>

(* The application is restarted: a stored goal comes back paused, one that    *)
(* was completed or blocked does not come back.                               *)
Restored(g) ==
  IF g = NoGoal \/ g.status \in {"completed", "blocked"} THEN NoGoal
  ELSE [g EXCEPT !.status = "paused"]

Restart ==
  /\ goal' = Restored(goal)
  /\ at' = [c \in Cycle |-> IF at[c] = "unused" THEN "unused" ELSE "over"]
  /\ after' = [c \in Cycle |-> "none"]
  /\ snap' = [c \in Cycle |-> NoGoal]
  /\ work' = [c \in Cycle |-> "none"]
  /\ aborted' = {}
  /\ abortRef' = NoCycle
  /\ turnWaiter' = NoCycle
  /\ compactWaiter' = NoCycle
  /\ disturbed' = (disturbed \/ \E c \in Cycle : Compacting(c))

LoopStep(c) ==
  \/ Evaluated(c)
  \/ EvaluationFails(c)
  \/ Wake(c)
  \/ Send(c)
  \/ SendFails(c)
  \/ TurnSent(c)
  \/ CompactSent(c)
  \/ TurnDone(c)
  \/ TurnFails(c)
  \/ TurnSettled(c)
  \/ CompactEnds(c)

UserStep ==
  \/ \E n \in Batches : Start(n)
  \/ Pause
  \/ Resume
  \/ Clear
  \/ EditObjective

Next ==
  \/ \E c \in Cycle : LoopStep(c) \/ Act(c)
  \/ UserStep
  \/ Restart

Spec == Init /\ [][Next]_vars

-----------------------------------------------------------------------------
(* Properties.                                                                *)

(* A goal that is shown as running has a loop that has not ended: whatever    *)
(* was awaited, refused, thrown or aborted, no exit of the loop leaves the    *)
(* badge running with nobody behind it.                                       *)
RunningIsDriven == Running(goal) => \E c \in Cycle : Live(c)

(* Unless a loop was started before the last one and its turn were over, the  *)
(* loops fit the goal: a running goal is driven by exactly one loop, the one  *)
(* a pause aborts; a goal that has ended has none; and a goal that is paused  *)
(* or gone has none but those that were aborted.                              *)
LoopsFitGoal ==
  LET live == {c \in Cycle : Live(c)} IN
  ~disturbed =>
    /\ Running(goal) => abortRef \notin aborted /\ live = {abortRef}
    /\ (goal # NoGoal /\ goal.status \in {"completed", "blocked"}) => live = {}
    /\ live \subseteq {abortRef}
    /\ ~Running(goal) => live \subseteq aborted

(* The pointer separates the tasks that are settled from those that have not  *)
(* been started, however the loop left the last one.                          *)
PointerConsistent ==
  (goal # NoGoal /\ ~disturbed) =>
    \A i \in DOMAIN goal.tasks :
      /\ i < goal.idx => goal.tasks[i] \in {"done", "failed"}
      /\ i > goal.idx => goal.tasks[i] = "pending"
      /\ i = goal.idx => goal.tasks[i] # "pending"

SameGoal == goal # NoGoal /\ goal' # NoGoal /\ goal.by = goal'.by

Becomes(i, outcome) == goal.tasks[i] # outcome /\ goal'.tasks[i] = outcome

OwnEvidence(i) ==
  i = goal.idx /\ goal.worked /\ (i \in Toolless \/ "turn" \in goal.acted)

(* A task is done only by a turn of its own that acted, or is toolless; the   *)
(* activity of a compaction the loop waited for never counts.                 *)
DoneByEvidence ==
  [][SameGoal => \A i \in DOMAIN goal.tasks :
       Becomes(i, "done") => disturbed \/ OwnEvidence(i)]_vars

(* A task fails by loop detection: the other failures pause the goal.        *)
Killed(i) ==
  /\ Becomes(i, "failed")
  /\ goal'.status = "paused" => goal'.why = "batchStagnation"

(* Unless a compaction has failed, no task is killed for the repetitions of   *)
(* the tasks before it: it has been evaluated itself.                         *)
KilledWasRead ==
  [][SameGoal => \A i \in DOMAIN goal.tasks :
       Killed(i) => disturbed \/ goal.compactionFailed \/ goal.read]_vars

(* Another loop has taken the slot loop c waits in.                           *)
Displaced(c) ==
  \/ at[c] = "turn" /\ turnWaiter # c
  \/ at[c] = "compacting" /\ compactWaiter # c

(* A loop that was aborted does not wait for a turn or a compaction: nobody   *)
(* would wake it again; unless another loop has taken its place.              *)
AbortedNeverWaits ==
  \A c \in aborted : at[c] \in {"turn", "compacting"} => Displaced(c)
=============================================================================
