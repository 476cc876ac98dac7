----------------------------- MODULE GoalProofs ------------------------------
(***************************************************************************)
(* What GoalCycle promises for any loops, any batches and any thresholds.    *)
(***************************************************************************)
EXTENDS GoalCycle, SequenceTheorems, TLAPS

-----------------------------------------------------------------------------
(* The inductive invariant.                                                   *)

(* Who waits for the end of a turn or a compaction is registered for it and   *)
(* was not aborted; only a loop that was started can be aborted.              *)
WaitInv ==
  /\ turnWaiter # NoCycle => at[turnWaiter] = "turn" /\ turnWaiter \notin aborted
  /\ compactWaiter # NoCycle => at[compactWaiter] = "compacting" /\ compactWaiter \notin aborted
  /\ \A c \in aborted : at[c] # "unused"
  /\ abortRef # NoCycle => at[abortRef] # "unused"

SnapInv == \A c \in Cycle : at[c] = "evaluating" => snap[c] # NoGoal

(* The pointer is at a task of the batch, between the settled ones and those  *)
(* that have not been started.                                                *)
Pointed(g) == g # NoGoal =>
  /\ g.tasks # <<>> => g.idx \in DOMAIN g.tasks
  /\ \A i \in DOMAIN g.tasks :
       /\ i < g.idx => g.tasks[i] \in {"done", "failed"}
       /\ i > g.idx => g.tasks[i] = "pending"
       /\ i = g.idx => g.tasks[i] # "pending"

(* No activity of a compaction is in the evidence, and what the ring repeats  *)
(* was said of the task itself, unless a compaction failed.                   *)
Clean(g) == g # NoGoal =>
  /\ "compact" \notin g.acted
  /\ g.ring.run = 0 \/ g.read \/ g.compactionFailed

(* Between two tasks the next one is active already.                          *)
Between(g) == g # NoGoal /\ g.tasks # <<>> /\ g.tasks[g.idx] = "active"

(* What an evaluation was asked about is what its verdict is applied to.      *)
SameTask(s, g) ==
  /\ s # NoGoal /\ g # NoGoal
  /\ s.tasks = g.tasks /\ s.idx = g.idx /\ s.worked = g.worked /\ s.acted = g.acted

Quiescent == \A c \in Cycle : ~Compacting(c)

(* A goal whose loops nobody disturbed.                                       *)
OrderInv == ~disturbed =>
  /\ LoopsFitGoal
  /\ Pointed(goal)
  /\ Quiescent => Clean(goal)
  /\ \A c \in Cycle :
       /\ Compacting(c) => Between(goal) /\ c \notin aborted
       /\ work[c] = "compact" => Compacting(c)
       /\ at[c] = "evaluating" /\ c \notin aborted => SameTask(snap[c], goal)

GoalInv ==
  /\ TypeOK
  /\ WaitInv
  /\ SnapInv
  /\ RunningIsDriven
  /\ OrderInv

-----------------------------------------------------------------------------
(* The operators on goals.                                                    *)

(* A function over the indices of a sequence is one of the same length.       *)
LEMMA SameLength ==
  ASSUME NEW S, NEW s \in Seq(S), NEW f \in [DOMAIN s -> S]
  PROVE  f \in Seq(S) /\ Len(f) = Len(s) /\ DOMAIN f = DOMAIN s /\ (f = <<>> <=> s = <<>>)
<1>1. DOMAIN s = 1 .. Len(s) /\ Len(s) \in Nat
  BY LenProperties
<1>2. f \in Seq(S)
  BY <1>1, SeqDef
<1>3. DOMAIN f = 1 .. Len(f) /\ Len(f) \in Nat
  BY <1>2, LenProperties
<1>4. Len(f) = Len(s)
  BY <1>1, <1>3
<1> QED
  BY <1>2, <1>4, EmptySeq, <1>1, <1>3

MaybeGoal == Goal \cup {NoGoal}

(* What a loop has at its next await.                                         *)
Good(o) ==
  /\ o \in [goal: MaybeGoal,
            at: {"evaluating", "sleeping", "sending", "turn", "compactSending", "compacting", "over"},
            after: {"none", "top", "continue"},
            snap: MaybeGoal]
  /\ o.at = "over" => ~Running(o.goal)
  /\ o.at = "evaluating" => o.snap # NoGoal

LEMMA PausedType ==
  ASSUME NEW g \in MaybeGoal, NEW why \in Why
  PROVE  Paused(g, why) \in MaybeGoal /\ ~Running(Paused(g, why))
BY NoGoalAssumption DEF MaybeGoal, Goal, Paused, Write, Running

LEMMA StampedType ==
  ASSUME NEW g \in MaybeGoal, NEW outcome \in TaskStatus
  PROVE  /\ Stamped(g, outcome) \in MaybeGoal
         /\ g \in Goal => Stamped(g, outcome) \in Goal
         /\ Stamped(g, outcome) = NoGoal <=> g = NoGoal
         /\ g # NoGoal => Stamped(g, outcome).status = g.status
<1>1. CASE g = NoGoal
  BY <1>1, NoGoalAssumption DEF MaybeGoal, Stamped, Write
<1>2. CASE g \in Goal
  <2> DEFINE f == [g.tasks EXCEPT ![g.idx] = outcome]
  <2>1. g.tasks \in Seq(TaskStatus) /\ g.tasks \in [DOMAIN g.tasks -> TaskStatus]
    BY <1>2, ElementOfSeq, LenProperties DEF Goal
  <2>2. f \in [DOMAIN g.tasks -> TaskStatus]
    BY <2>1
  <2>2a. f \in Seq(TaskStatus)
    BY <2>1, <2>2, SameLength
  <2> HIDE DEF f
  <2>3. [g EXCEPT !.tasks = f] \in Goal
    BY <2>2a, <1>2 DEF Goal
  <2>4. [g EXCEPT !.tasks[g.idx] = outcome] = [g EXCEPT !.tasks = f]
    BY DEF f
  <2>5. g # NoGoal
    BY <1>2, NoGoalAssumption
  <2>6. [g EXCEPT !.tasks = f].status = g.status
    BY <1>2 DEF Goal
  <2> QED
    BY <1>2, <2>3, <2>4, <2>5, <2>6, NoGoalAssumption DEF Stamped, Write, MaybeGoal
<1> QED
  BY <1>1, <1>2 DEF MaybeGoal

LEMMA AdvanceType ==
  ASSUME NEW g \in Goal, NEW tasks \in Seq(TaskStatus), NEW i \in Nat \ {0},
         NEW worked \in BOOLEAN, NEW n \in 0 .. Stagnation,
         NEW who \in SUBSET {"turn", "compact"}, NEW read \in BOOLEAN
  PROVE  [g EXCEPT !.tasks = tasks, !.idx = i, !.worked = worked, !.failedRun = n,
                   !.acted = who, !.read = read] \in Goal
BY DEF Goal

LEMMA AdvancedType ==
  ASSUME NEW g \in MaybeGoal, NEW i \in Nat, NEW outcome \in TaskStatus, NEW n \in 0 .. Stagnation
  PROVE  /\ Advanced(g, i, outcome, n) \in MaybeGoal
         /\ g \in Goal => Advanced(g, i, outcome, n) \in Goal
         /\ g # NoGoal =>
              /\ Advanced(g, i, outcome, n).status = g.status
              /\ Advanced(g, i, outcome, n).ring = g.ring
<1>1. CASE g = NoGoal
  BY <1>1, NoGoalAssumption DEF MaybeGoal, Advanced, Write
<1>2. CASE g \in Goal
  <2> DEFINE f == [k \in DOMAIN g.tasks |-> CASE k = i     -> outcome
                                              [] k = i + 1 -> "active"
                                              [] OTHER     -> g.tasks[k]]
             new == [g EXCEPT !.tasks = f, !.idx = i + 1, !.worked = FALSE, !.failedRun = n,
                              !.acted = {}, !.read = FALSE]
  <2>1. g.tasks \in Seq(TaskStatus) /\ g.tasks \in [DOMAIN g.tasks -> TaskStatus]
    BY <1>2, ElementOfSeq, LenProperties DEF Goal
  <2>2. f \in [DOMAIN g.tasks -> TaskStatus]
    BY <2>1 DEF TaskStatus
  <2>3. f \in Seq(TaskStatus)
    BY <2>1, <2>2, SameLength
  <2>4. Advanced(g, i, outcome, n) = new
    BY <1>2, NoGoalAssumption DEF Advanced, Write
  <2> HIDE DEF f
  <2>5. i + 1 \in Nat \ {0}
    OBVIOUS
  <2>6. new \in Goal
    BY <2>3, <2>5, <1>2, AdvanceType
  <2>7. new.status = g.status /\ new.ring = g.ring
    BY <1>2 DEF Goal
  <2> HIDE DEF new
  <2> QED
    BY <1>2, <2>4, <2>6, <2>7, NoGoalAssumption DEF MaybeGoal
<1> QED
  BY <1>1, <1>2 DEF MaybeGoal

LEMMA GoalErrorType ==
  ASSUME NEW g \in MaybeGoal
  PROVE  /\ GoalError(g) \in MaybeGoal /\ ~Running(GoalError(g))
         /\ Thrown(g) \in MaybeGoal /\ ~Running(Thrown(g))
<1>1. "goalError" \in Why
  BY DEF Why
<1>2. GoalError(g) \in MaybeGoal /\ ~Running(GoalError(g))
  BY <1>1, PausedType DEF GoalError
<1> QED
  BY <1>2 DEF Thrown, Running

LEMMA FrontierType ==
  ASSUME NEW g \in MaybeGoal, NEW compacted \in BOOLEAN, NEW poisoned \in BOOLEAN
  PROVE  /\ Frontier(g, compacted, poisoned) \in MaybeGoal
         /\ g # NoGoal => /\ Frontier(g, compacted, poisoned) \in Goal
                          /\ Frontier(g, compacted, poisoned).status = g.status
<1>1. CASE g = NoGoal
  BY <1>1, NoGoalAssumption DEF MaybeGoal, Frontier, Write
<1>2. CASE g \in Goal
  <2> DEFINE r == Reopened(g)
             ring == IF compacted \/ poisoned THEN EmptyRing ELSE r.ring
             failed == r.compactionFailed \/ ~compacted
             new == [r EXCEPT !.worked = FALSE, !.ring = ring, !.compactionFailed = failed]
  <2>1. r \in Goal /\ r.status = g.status
    BY <1>2 DEF Reopened, Goal
  <2>2. EmptyRing \in [last: Fingerprint \cup {<<>>}, run: 0 .. LoopThreshold]
    BY ThresholdsAssumption DEF EmptyRing
  <2>3. r.ring \in [last: Fingerprint \cup {<<>>}, run: 0 .. LoopThreshold]
    BY <2>1 DEF Goal
  <2>4. ring \in [last: Fingerprint \cup {<<>>}, run: 0 .. LoopThreshold]
    BY <2>2, <2>3
  <2>5. failed \in BOOLEAN
    OBVIOUS
  <2>6. Frontier(g, compacted, poisoned) = new
    BY <1>2, NoGoalAssumption DEF Frontier, Write
  <2> HIDE DEF r, ring, failed
  <2>7. new \in Goal /\ new.status = r.status
    BY <2>1, <2>4, <2>5 DEF Goal
  <2> QED
    BY <1>2, <2>1, <2>6, <2>7 DEF MaybeGoal
<1> QED
  BY <1>1, <1>2 DEF MaybeGoal

LEMMA RingType ==
  ASSUME NEW g \in Goal, NEW ring \in [last: Fingerprint \cup {<<>>}, run: 0 .. LoopThreshold]
  PROVE  [g EXCEPT !.ring = ring] \in Goal
BY DEF Goal

LEMMA PushedType ==
  ASSUME NEW ring \in [last: Fingerprint \cup {<<>>}, run: 0 .. LoopThreshold],
         NEW print \in Fingerprint
  PROVE  Pushed(ring, print) \in [last: Fingerprint \cup {<<>>}, run: 0 .. LoopThreshold]
BY ThresholdsAssumption DEF Pushed

LEMMA EvaluatingGood ==
  ASSUME NEW g \in Goal
  PROVE  Good(Evaluating(g))
<1>1. [g EXCEPT !.status = "evaluating"] \in Goal
  BY DEF Goal
<1> QED
  BY <1>1, NoGoalAssumption DEF Good, Evaluating, Reach, MaybeGoal

LEMMA OverGood ==
  ASSUME NEW g \in MaybeGoal, ~Running(g)
  PROVE  Good(Over(g))
BY DEF Good, Over, Reach, MaybeGoal

LEMMA StatusType ==
  ASSUME NEW g \in MaybeGoal,
         NEW status \in {"active", "evaluating", "continuing", "paused", "blocked", "completed"}
  PROVE  /\ Write(g, [g EXCEPT !.status = status]) \in MaybeGoal
         /\ g # NoGoal => [g EXCEPT !.status = status] \in Goal
         /\ g # NoGoal => [g EXCEPT !.status = status].status = status
BY DEF MaybeGoal, Goal, Write

LEMMA ContinueGood ==
  ASSUME NEW g \in MaybeGoal, NEW dead \in BOOLEAN
  PROVE  Good(Continue(g, dead))
<1>1. CASE dead
  BY <1>1, GoalErrorType, OverGood DEF Continue
<1>2. CASE ~dead
  BY <1>2, StatusType DEF Continue, Good, Reach, MaybeGoal
<1> QED
  BY <1>1, <1>2

LEMMA CompletedGood ==
  ASSUME NEW g \in MaybeGoal
  PROVE  Good(Completed(g))
<1>1. ~Running(Write(g, [g EXCEPT !.status = "completed"]))
  BY StatusType DEF Write, Running
<1> QED
  BY <1>1, StatusType, OverGood DEF Completed

LEMMA KillGood ==
  ASSUME NEW g \in Goal, NEW dead \in BOOLEAN
  PROVE  Good(Kill(g, dead))
<1> DEFINE n == IF g.failedRun < Stagnation THEN g.failedRun + 1 ELSE g.failedRun
           killed == Advanced(g, g.idx, "failed", n)
           cleared == [killed EXCEPT !.ring = EmptyRing]
           last == [Stamped(g, "failed") EXCEPT !.failedRun = n, !.ring = EmptyRing]
<1>1. n \in 0 .. Stagnation /\ g.idx \in Nat /\ "failed" \in TaskStatus
  BY ThresholdsAssumption DEF Goal, TaskStatus
<1>2. EmptyRing \in [last: Fingerprint \cup {<<>>}, run: 0 .. LoopThreshold]
  BY ThresholdsAssumption DEF EmptyRing
<1>3. g \in MaybeGoal /\ g # NoGoal
  BY NoGoalAssumption DEF MaybeGoal
<1> HIDE DEF n
<1>4. killed \in Goal
  BY <1>1, <1>3, AdvancedType
<1> HIDE DEF killed
<1>5. cleared \in Goal /\ cleared \in MaybeGoal
  BY <1>4, <1>2, RingType DEF MaybeGoal
<1> HIDE DEF cleared
<1>6. Stamped(g, "failed") \in Goal
  BY <1>1, <1>3, StampedType
<1>7. last \in MaybeGoal
  <2> DEFINE x == Stamped(g, "failed")
  <2>1. x \in Goal
    BY <1>6
  <2> HIDE DEF x
  <2>2. [x EXCEPT !.failedRun = n, !.ring = EmptyRing] \in Goal
    BY <2>1, <1>1, <1>2 DEF Goal
  <2> QED
    BY <2>2 DEF x, MaybeGoal
<1> HIDE DEF last
<1>8. Good(Completed(last))
  BY <1>7, CompletedGood
<1>9. Good(Over(Paused(cleared, "batchStagnation")))
  BY <1>5, PausedType, OverGood DEF Why
<1>10. Good(Evaluating(cleared))
  BY <1>5, EvaluatingGood
<1>11. Good(Evaluating(Frontier(killed, FALSE, TRUE)))
  BY <1>4, NoGoalAssumption, FrontierType, EvaluatingGood DEF MaybeGoal
<1>12. Good([Reach(killed, "compactSending") EXCEPT !.after = "top"])
  BY <1>4 DEF Good, Reach, MaybeGoal
<1> QED
  BY <1>8, <1>9, <1>10, <1>11, <1>12 DEF Kill, n, killed, cleared, last

LEMMA LoopTopGood ==
  ASSUME NEW g \in MaybeGoal, NEW dead \in BOOLEAN
  PROVE  Good(LoopTop(g, dead))
<1>1. CASE g = NoGoal \/ g.status = "paused"
  BY <1>1, OverGood DEF LoopTop, Running
<1>2. CASE g # NoGoal /\ g.status # "paused"
  <2>1. g \in Goal
    BY <1>2 DEF MaybeGoal
  <2>2. Good(Over([g EXCEPT !.status = "blocked"]))
    <3>1. [g EXCEPT !.status = "blocked"] \in MaybeGoal
      BY <1>2, StatusType DEF MaybeGoal
    <3>2. ~Running([g EXCEPT !.status = "blocked"])
      BY <1>2, StatusType DEF Running
    <3> QED
      BY <3>1, <3>2, OverGood
  <2> QED
    BY <1>2, <2>1, <2>2, EvaluatingGood, KillGood DEF LoopTop
<1> QED
  BY <1>1, <1>2

LEMMA AfterCompactionGood ==
  ASSUME NEW g \in MaybeGoal, NEW compacted \in BOOLEAN, NEW next, NEW dead \in BOOLEAN
  PROVE  Good(AfterCompaction(g, compacted, next, dead))
<1>1. Frontier(g, compacted, next = "top") \in MaybeGoal
  BY FrontierType
<1> QED
  BY <1>1, LoopTopGood, ContinueGood DEF AfterCompaction

LEMMA StartingGood ==
  ASSUME NEW g \in Goal
  PROVE  Good(Starting(g))
<1>1. g \in MaybeGoal /\ Stamped(g, "active") \in MaybeGoal
  BY StampedType DEF MaybeGoal, TaskStatus
<1> QED
  BY <1>1, LoopTopGood DEF Starting

LEMMA AfterErrorGood ==
  ASSUME NEW g \in MaybeGoal, NEW s \in Goal
  PROVE  Good(AfterError(g, s))
<1> DEFINE errs == IF s.errs < MaxErrors THEN s.errs + 1 ELSE s.errs
           new == Write(g, [g EXCEPT !.errs = errs])
<1>1. errs \in 0 .. MaxErrors
  BY ThresholdsAssumption DEF Goal
<1> HIDE DEF errs
<1>2. new \in MaybeGoal
  BY <1>1 DEF MaybeGoal, Goal, Write
<1> HIDE DEF new
<1>3. Paused(new, "infraError") \in MaybeGoal /\ ~Running(Paused(new, "infraError"))
  BY <1>2, PausedType DEF Why
<1>4. Stamped(Paused(new, "infraError"), "failed") \in MaybeGoal
      /\ ~Running(Stamped(Paused(new, "infraError"), "failed"))
  BY <1>3, StampedType DEF TaskStatus, Running
<1>5. Good(Over(Stamped(Paused(new, "infraError"), "failed")))
  BY <1>4, OverGood
<1>6. Good(Reach(new, "sleeping"))
  BY <1>2 DEF Good, Reach, MaybeGoal
<1> QED
  BY <1>5, <1>6 DEF AfterError, errs, new

LEMMA AfterVerdictGood ==
  ASSUME NEW g \in MaybeGoal, NEW s \in Goal, NEW decision \in Decision, NEW text \in Text
  PROVE  Good(AfterVerdict(g, s, decision, text))
<1> DEFINE batch == s.tasks # <<>>
           rejected == decision = "complete" /\ batch /\ ~Proven(s)
           advances == decision = "complete" /\ batch /\ Proven(s) /\ s.idx < Len(s.tasks)
           print == IF rejected THEN <<"d1", s.idx>> ELSE <<decision, text>>
           errs == IF s.errs > 0 THEN 0 ELSE g.errs
           fresh == Write(g, [g EXCEPT !.errs = errs, !.read = TRUE])
           moved == IF advances THEN Advanced(fresh, s.idx, "done", 0) ELSE fresh
           noted == Write(moved, [moved EXCEPT !.ring = Pushed(@, print)])
           tasks == IF batch THEN [s.tasks EXCEPT ![s.idx] = "done"] ELSE noted.tasks
           failedRun == IF batch THEN 0 ELSE noted.failedRun
           final == Write(noted, [noted EXCEPT !.tasks = tasks, !.failedRun = failedRun])
<1>1. print \in Fingerprint
  <2>1. s.idx \in Nat
    BY DEF Goal
  <2> QED
    BY <2>1 DEF Fingerprint
<1>2. fresh \in MaybeGoal
  <2>1. CASE g = NoGoal
    BY <2>1 DEF Write, MaybeGoal
  <2>2. CASE g \in Goal
    <3>1. errs \in 0 .. MaxErrors
      BY <2>2, ThresholdsAssumption DEF Goal
    <3> HIDE DEF errs
    <3>2. [g EXCEPT !.errs = errs, !.read = TRUE] \in Goal
      BY <3>1, <2>2 DEF Goal
    <3> QED
      BY <3>2, <2>2 DEF Write, MaybeGoal
  <2> QED
    BY <2>1, <2>2 DEF MaybeGoal
<1> HIDE DEF print, errs, fresh
<1>3. moved \in MaybeGoal
  <2>1. s.idx \in Nat /\ 0 \in 0 .. Stagnation /\ "done" \in TaskStatus
    BY ThresholdsAssumption DEF Goal, TaskStatus
  <2> QED
    BY <2>1, <1>2, AdvancedType
<1> HIDE DEF moved
<1>4. noted \in MaybeGoal
  <2>1. CASE moved = NoGoal
    BY <2>1 DEF Write, MaybeGoal
  <2>2. CASE moved \in Goal
    <3>1. moved.ring \in [last: Fingerprint \cup {<<>>}, run: 0 .. LoopThreshold]
      BY <2>2 DEF Goal
    <3>2. Pushed(moved.ring, print) \in [last: Fingerprint \cup {<<>>}, run: 0 .. LoopThreshold]
      BY <3>1, <1>1, PushedType
    <3>3. [moved EXCEPT !.ring = Pushed(moved.ring, print)] \in Goal
      BY <2>2, <3>2, RingType
    <3> QED
      BY <2>2, <3>3 DEF Write, MaybeGoal
  <2> QED
    BY <1>3, <2>1, <2>2 DEF MaybeGoal
<1> HIDE DEF noted
<1>5. final \in MaybeGoal
  <2>1. CASE noted = NoGoal
    BY <2>1 DEF Write, MaybeGoal
  <2>2. CASE noted \in Goal
    <3>1. tasks \in Seq(TaskStatus)
      <4>1. s.tasks \in Seq(TaskStatus) /\ noted.tasks \in Seq(TaskStatus)
        BY <2>2 DEF Goal
      <4>2. s.tasks \in [DOMAIN s.tasks -> TaskStatus]
        BY <4>1, ElementOfSeq, LenProperties
      <4>3. [s.tasks EXCEPT ![s.idx] = "done"] \in [DOMAIN s.tasks -> TaskStatus]
        BY <4>2 DEF TaskStatus
      <4>4. [s.tasks EXCEPT ![s.idx] = "done"] \in Seq(TaskStatus)
        BY <4>1, <4>3, SameLength
      <4> QED
        BY <4>1, <4>4
    <3>2. failedRun \in 0 .. Stagnation
      BY <2>2, ThresholdsAssumption DEF Goal
    <3> HIDE DEF tasks, failedRun
    <3>3. [noted EXCEPT !.tasks = tasks, !.failedRun = failedRun] \in Goal
      BY <2>2, <3>1, <3>2 DEF Goal
    <3> QED
      BY <2>2, <3>3 DEF Write, MaybeGoal
  <2> QED
    BY <1>4, <2>1, <2>2 DEF MaybeGoal
<1> HIDE DEF final
<1>6. Good([Reach(noted, "compactSending") EXCEPT !.after = "continue"])
  BY <1>4 DEF Good, Reach, MaybeGoal
<1>7. Good(Completed(final))
  BY <1>5, CompletedGood
<1>8. ASSUME NEW why \in {"needsUser", "unsafe"}, NEW outcome \in {"blocked", "failed"}
      PROVE  Good(Over(Stamped(Paused(noted, why), outcome)))
  <2>1. Paused(noted, why) \in MaybeGoal /\ ~Running(Paused(noted, why))
    BY <1>4, PausedType DEF Why
  <2>2. Stamped(Paused(noted, why), outcome) \in MaybeGoal
        /\ ~Running(Stamped(Paused(noted, why), outcome))
    BY <2>1, StampedType DEF TaskStatus, Running
  <2> QED
    BY <2>2, OverGood
<1>9. Good(Continue(noted, FALSE))
  BY <1>4, ContinueGood
<1> QED
  BY <1>6, <1>7, <1>8, <1>9
  DEF AfterVerdict, print, errs, fresh, moved, noted, final, tasks, failedRun

-----------------------------------------------------------------------------
(* The types, who waits, and that a running goal is driven.                   *)

BaseInv ==
  /\ TypeOK
  /\ WaitInv
  /\ SnapInv
  /\ RunningIsDriven

LEMMA InitBase == Init => BaseInv
BY DEF Init, BaseInv, TypeOK, WaitInv, SnapInv, RunningIsDriven, Running

(* A loop that is not waiting, or is waiting and let go, takes a step.        *)
LEMMA TakeBase ==
  ASSUME BaseInv, NEW c \in Cycle, Live(c), NEW o, Good(o), Take(c, o),
         UNCHANGED <<aborted, abortRef, disturbed>>,
         turnWaiter' \in {turnWaiter, c, NoCycle},
         turnWaiter' = c => o.at = "turn" /\ c \notin aborted,
         compactWaiter' \in {compactWaiter, c, NoCycle},
         compactWaiter' = c => o.at = "compacting" /\ c \notin aborted
  PROVE  BaseInv'
<1> USE DEF BaseInv
<1>1. at' = [at EXCEPT ![c] = o.at] /\ DOMAIN at = Cycle /\ o.at # "unused"
  BY DEF Take, Good, TypeOK
<1>2. TypeOK'
  <2>1. goal' \in Goal \cup {NoGoal}
    BY DEF Take, Good, MaybeGoal
  <2>2. at' \in [Cycle -> {"unused", "evaluating", "sleeping", "sending", "turn",
                           "compactSending", "compacting", "over"}]
    BY DEF Take, Good, TypeOK
  <2>3. after' \in [Cycle -> {"none", "top", "continue"}]
    BY DEF Take, Good, TypeOK
  <2>4. snap' \in [Cycle -> Goal \cup {NoGoal}]
    BY DEF Take, Good, TypeOK, MaybeGoal
  <2>5. work' \in [Cycle -> {"none", "turn", "compact", "settling", "over"}]
    BY DEF Take, TypeOK
  <2>6. /\ aborted' \subseteq Cycle /\ abortRef' \in Cycle \cup {NoCycle}
        /\ turnWaiter' \in Cycle \cup {NoCycle} /\ compactWaiter' \in Cycle \cup {NoCycle}
        /\ disturbed' \in BOOLEAN
    BY DEF TypeOK
  <2> QED
    BY <2>1, <2>2, <2>3, <2>4, <2>5, <2>6 DEF TypeOK
<1>3. WaitInv'
  <2>1. ASSUME turnWaiter' # NoCycle
        PROVE  at'[turnWaiter'] = "turn" /\ turnWaiter' \notin aborted'
    BY <2>1, <1>1 DEF WaitInv, TypeOK
  <2>2. ASSUME compactWaiter' # NoCycle
        PROVE  at'[compactWaiter'] = "compacting" /\ compactWaiter' \notin aborted'
    BY <2>2, <1>1 DEF WaitInv, TypeOK
  <2>3. \A d \in aborted' : at'[d] # "unused"
    BY <1>1 DEF WaitInv, TypeOK
  <2>4. abortRef' # NoCycle => at'[abortRef'] # "unused"
    BY <1>1 DEF WaitInv, TypeOK
  <2> QED
    BY <2>1, <2>2, <2>3, <2>4 DEF WaitInv
<1>4. SnapInv'
  BY <1>1 DEF SnapInv, Take, Good, TypeOK
<1>5. RunningIsDriven'
  <2>1. SUFFICES ASSUME Running(goal')
                 PROVE  \E e \in Cycle : Live(e)'
    BY DEF RunningIsDriven, Running
  <2>2. o.at # "over"
    BY <2>1 DEF Take, Good
  <2> QED
    BY <2>2, <1>1 DEF Live
<1> QED
  BY <1>2, <1>3, <1>4, <1>5

(* What a waiting loop that is woken by a command does.                       *)
LEMMA InterruptedGood ==
  ASSUME TypeOK, NEW d \in Cycle, NEW g \in MaybeGoal
  PROVE  Good(Interrupted(d, g))
BY GoalErrorType, OverGood, AfterCompactionGood DEF Interrupted

LEMMA CommandBase ==
  ASSUME BaseInv, NEW g \in MaybeGoal, NEW c \in Cycle \cup {NoCycle}, NEW o,
         NEW stops \in BOOLEAN, Command(g, c, o, stops), o.goal = g,
         c = NoCycle => ~Running(g),
         c # NoCycle => at[c] = "unused" /\ Good(o)
  PROVE  BaseInv'
<1> USE DEF BaseInv
<1> DEFINE d == abortRef
           stopped == stops /\ d # NoCycle
           wakes == stopped /\ Waits(d)
           i == IF wakes THEN Interrupted(d, g) ELSE o
<1>1. /\ goal' = i.goal
      /\ at' = [e \in Cycle |-> CASE e = c -> o.at
                                  [] e = d /\ wakes -> i.at
                                  [] OTHER -> at[e]]
      /\ after' = [e \in Cycle |-> IF e = d /\ wakes THEN i.after ELSE after[e]]
      /\ snap' = [e \in Cycle |-> CASE e = c -> o.snap
                                    [] e = d /\ wakes -> i.snap
                                    [] OTHER -> snap[e]]
      /\ turnWaiter' = IF wakes /\ turnWaiter = d THEN NoCycle ELSE turnWaiter
      /\ compactWaiter' = IF wakes /\ compactWaiter = d THEN NoCycle ELSE compactWaiter
      /\ aborted' = IF stopped THEN aborted \cup {d} ELSE aborted
      /\ abortRef' = IF c = NoCycle THEN abortRef ELSE c
      /\ disturbed' \in BOOLEAN
      /\ work' = work
  BY DEF Command, TypeOK
<1>2. d \in Cycle \cup {NoCycle} /\ (d # NoCycle => at[d] # "unused" /\ d # c)
  BY DEF TypeOK, WaitInv
<1>3. wakes => d \in Cycle /\ at[d] \in {"turn", "compacting"} /\ Good(i)
  BY <1>1, <1>2, InterruptedGood DEF Waits, WaitInv, TypeOK
<1> HIDE DEF i
<1>4. i.goal \in MaybeGoal
  BY <1>1, <1>3 DEF Good, i
<1> HIDE DEF d, stopped, wakes
<1>5. TypeOK'
  <2>1. goal' \in Goal \cup {NoGoal}
    BY <1>1, <1>4 DEF MaybeGoal
  <2>2. at' \in [Cycle -> {"unused", "evaluating", "sleeping", "sending", "turn",
                           "compactSending", "compacting", "over"}]
    BY <1>1, <1>3, NoCycleAssumption DEF Good, TypeOK
  <2>3. after' \in [Cycle -> {"none", "top", "continue"}]
    BY <1>1, <1>3 DEF Good, TypeOK
  <2>4. snap' \in [Cycle -> Goal \cup {NoGoal}]
    BY <1>1, <1>3, NoCycleAssumption DEF Good, TypeOK, MaybeGoal
  <2>5. /\ aborted' \subseteq Cycle /\ abortRef' \in Cycle \cup {NoCycle}
        /\ turnWaiter' \in Cycle \cup {NoCycle} /\ compactWaiter' \in Cycle \cup {NoCycle}
        /\ work' \in [Cycle -> {"none", "turn", "compact", "settling", "over"}]
    BY <1>1, <1>2 DEF TypeOK, stopped
  <2> QED
    BY <1>1, <2>1, <2>2, <2>3, <2>4, <2>5 DEF TypeOK
<1>6. ASSUME NEW e \in Cycle, e # c, e # d \/ ~wakes
      PROVE  at'[e] = at[e] /\ snap'[e] = snap[e]
  BY <1>6, <1>1
<1>7. c # NoCycle => at'[c] = o.at /\ snap'[c] = o.snap /\ o.at # "unused"
  BY <1>1, <1>2, NoCycleAssumption DEF Good
<1>8. wakes => at'[d] = i.at /\ snap'[d] = i.snap /\ i.at # "unused"
  BY <1>1, <1>2, <1>3, NoCycleAssumption DEF Good
<1>9. WaitInv'
  <2>1. ASSUME turnWaiter' # NoCycle
        PROVE  at'[turnWaiter'] = "turn" /\ turnWaiter' \notin aborted'
    <3>1. turnWaiter' = turnWaiter /\ at[turnWaiter] = "turn" /\ turnWaiter \in Cycle
          /\ turnWaiter \notin aborted /\ ~(wakes /\ turnWaiter = d)
      BY <2>1, <1>1 DEF WaitInv, TypeOK
    <3>2. turnWaiter # c
      BY <3>1, NoCycleAssumption
    <3>3. ~(stopped /\ turnWaiter = d)
      BY <3>1, <1>1 DEF Waits, wakes
    <3> QED
      BY <3>1, <3>2, <3>3, <1>6, <1>1
  <2>2. ASSUME compactWaiter' # NoCycle
        PROVE  at'[compactWaiter'] = "compacting" /\ compactWaiter' \notin aborted'
    <3>1. compactWaiter' = compactWaiter /\ at[compactWaiter] = "compacting"
          /\ compactWaiter \in Cycle
          /\ compactWaiter \notin aborted /\ ~(wakes /\ compactWaiter = d)
      BY <2>2, <1>1 DEF WaitInv, TypeOK
    <3>2. compactWaiter # c
      BY <3>1, NoCycleAssumption
    <3>3. ~(stopped /\ compactWaiter = d)
      BY <3>1, <1>1 DEF Waits, wakes
    <3> QED
      BY <3>1, <3>2, <3>3, <1>6, <1>1
  <2>3. ASSUME NEW e \in Cycle, at[e] # "unused"
        PROVE  at'[e] # "unused"
    BY <2>3, <1>6, <1>7, <1>8, NoCycleAssumption
  <2>4. \A e \in aborted' : at'[e] # "unused"
    BY <2>3, <1>1, <1>2 DEF WaitInv, TypeOK, stopped
  <2>5. abortRef' # NoCycle => at'[abortRef'] # "unused"
    BY <2>3, <1>1, <1>2, <1>7 DEF d
  <2> QED
    BY <2>1, <2>2, <2>4, <2>5 DEF WaitInv
<1>10. SnapInv'
  <2>1. SUFFICES ASSUME NEW e \in Cycle, at'[e] = "evaluating"
                 PROVE  snap'[e] # NoGoal
    BY DEF SnapInv
  <2>2. CASE e = c
    BY <2>1, <2>2, <1>7, NoCycleAssumption DEF Good
  <2>3. CASE e # c /\ e = d /\ wakes
    BY <2>1, <2>3, <1>8, <1>3 DEF Good
  <2>4. CASE e # c /\ ~(e = d /\ wakes)
    BY <2>1, <2>4, <1>6 DEF SnapInv
  <2> QED
    BY <2>2, <2>3, <2>4
<1>11. RunningIsDriven'
  <2>1. SUFFICES ASSUME Running(goal')
                 PROVE  \E e \in Cycle : Live(e)'
    BY DEF RunningIsDriven, Running
  <2>2. CASE wakes
    <3>1. i.at # "over"
      BY <2>1, <2>2, <1>1, <1>3 DEF Good
    <3> QED
      BY <2>2, <3>1, <1>3, <1>8 DEF Live
  <2>3. CASE ~wakes
    <3>1. c # NoCycle /\ o.at # "over"
      BY <2>1, <2>3, <1>1 DEF Good, i
    <3> QED
      BY <3>1, <1>7 DEF Live
  <2> QED
    BY <2>2, <2>3
<1> QED
  BY <1>5, <1>9, <1>10, <1>11

(* A step of a loop that changes no goal and no await.                        *)
LEMMA WorkBase ==
  ASSUME BaseInv, NEW c \in Cycle,
         NEW w \in {"none", "turn", "compact", "settling", "over"},
         work' = [work EXCEPT ![c] = w],
         UNCHANGED <<goal, loops, aborted, abortRef, waiters, disturbed>>
  PROVE  BaseInv'
<1>1. TypeOK'
  BY DEF BaseInv, TypeOK, loops, waiters
<1>2. WaitInv' /\ SnapInv' /\ RunningIsDriven'
  BY DEF BaseInv, WaitInv, SnapInv, RunningIsDriven, Running, Live, loops, waiters
<1> QED
  BY <1>1, <1>2 DEF BaseInv

LEMMA NoticedType ==
  ASSUME NEW g \in MaybeGoal, NEW who \in {"turn", "compact"}
  PROVE  /\ Noticed(g, who) \in MaybeGoal
         /\ Noticed(g, who) = NoGoal <=> g = NoGoal
         /\ Running(Noticed(g, who)) <=> Running(g)
<1>1. CASE g = NoGoal
  BY <1>1 DEF Noticed, MaybeGoal
<1>2. CASE g \in Goal
  <2> DEFINE a == g.acted \cup {who}
  <2>1. a \in SUBSET {"turn", "compact"}
    BY <1>2 DEF Goal
  <2> HIDE DEF a
  <2>2. [g EXCEPT !.acted = a] \in Goal /\ [g EXCEPT !.acted = a].status = g.status
    BY <1>2, <2>1 DEF Goal
  <2> QED
    BY <1>2, <2>2, NoGoalAssumption DEF Noticed, MaybeGoal, Running, a
<1> QED
  BY <1>1, <1>2 DEF MaybeGoal

LEMMA ActBase == ASSUME BaseInv, NEW c \in Cycle, Act(c) PROVE BaseInv'
<1>1. work[c] \in {"turn", "compact"} /\ goal' = Noticed(goal, work[c])
      /\ snap' = [d \in Cycle |-> Noticed(snap[d], work[c])]
      /\ UNCHANGED <<at, after, aborted, abortRef, turnWaiter, compactWaiter, work, disturbed>>
  BY DEF Act, waiters
<1>2. goal \in MaybeGoal /\ \A d \in Cycle : snap[d] \in MaybeGoal
  BY DEF BaseInv, TypeOK, MaybeGoal
<1>3. goal' \in MaybeGoal /\ (Running(goal') <=> Running(goal))
  BY <1>1, <1>2, NoticedType
<1>4. \A d \in Cycle : snap'[d] \in MaybeGoal /\ (snap'[d] = NoGoal <=> snap[d] = NoGoal)
  BY <1>1, <1>2, NoticedType
<1>5. TypeOK'
  BY <1>1, <1>3, <1>4 DEF BaseInv, TypeOK, MaybeGoal
<1>6. WaitInv' /\ SnapInv'
  BY <1>1, <1>4 DEF BaseInv, WaitInv, SnapInv
<1>7. RunningIsDriven'
  BY <1>1, <1>3 DEF BaseInv, RunningIsDriven, Live, Running
<1> QED
  BY <1>5, <1>6, <1>7 DEF BaseInv

LEMMA ReachGood ==
  ASSUME NEW g \in MaybeGoal, NEW where \in {"turn", "compacting"},
         NEW next \in {"none", "top", "continue"}
  PROVE  Good(Reach(g, where)) /\ Good([Reach(g, where) EXCEPT !.after = next])
BY DEF Good, Reach, MaybeGoal

LEMMA LoopBase ==
  ASSUME BaseInv, NEW c \in Cycle, LoopStep(c)
  PROVE  BaseInv'
<1>1. /\ goal \in MaybeGoal
      /\ snap[c] \in MaybeGoal
      /\ at[c] = "evaluating" => snap[c] \in Goal
      /\ turnWaiter = c => at[c] = "turn"
      /\ compactWaiter = c => at[c] = "compacting"
  BY NoCycleAssumption DEF BaseInv, TypeOK, WaitInv, SnapInv, MaybeGoal
<1>2. ASSUME NEW o, Good(o), Take(c, o), at[c] \notin {"unused", "over", "turn", "compacting"},
             UNCHANGED <<aborted, abortRef, waiters, disturbed>>
      PROVE  BaseInv'
  BY <1>1, <1>2, TakeBase DEF Live, waiters
<1>3. CASE Evaluated(c)
  <2>1. PICK decision \in Decision, text \in Text : Take(c, AfterVerdict(goal, snap[c], decision, text))
    BY <1>3 DEF Evaluated
  <2>2. Good(AfterVerdict(goal, snap[c], decision, text))
    BY <1>1, <1>3, AfterVerdictGood DEF Evaluated
  <2> QED
    BY <1>2, <1>3, <2>1, <2>2 DEF Evaluated
<1>4. CASE EvaluationFails(c)
  BY <1>1, <1>2, <1>4, AfterErrorGood DEF EvaluationFails
<1>5. CASE Wake(c)
  <2>1. (c \in aborted) \in BOOLEAN
    OBVIOUS
  <2>2. Good(LoopTop(goal, c \in aborted))
    BY <2>1, <1>1, LoopTopGood, Zenon
  <2> QED
    BY <1>2, <1>5, <2>2 DEF Wake
<1>6. CASE Send(c)
  BY <1>6, WorkBase DEF Send
<1>7. CASE SendFails(c)
  <2>1. Good(Over(Thrown(goal)))
    BY <1>1, GoalErrorType, OverGood
  <2>2. (c \in aborted) \in BOOLEAN /\ FALSE \in BOOLEAN
    OBVIOUS
  <2>3. Good(AfterCompaction(goal, FALSE, after[c], c \in aborted))
    BY <2>2, <1>1, AfterCompactionGood, Zenon
  <2> QED
    BY <1>2, <1>7, <2>1, <2>3 DEF SendFails
<1>8. CASE TurnSent(c)
  <2>1. CASE c \in aborted
    <3>1. Good(Over(GoalError(goal)))
      BY <1>1, GoalErrorType, OverGood
    <3> QED
      BY <1>2, <1>8, <2>1, <3>1 DEF TurnSent, waiters
  <2>2. CASE c \notin aborted
    <3> DEFINE g == Write(goal, [goal EXCEPT !.worked = goal.tasks # <<>>])
    <3>1. g \in MaybeGoal
      <4>1. PICK b \in BOOLEAN : b = (goal.tasks # <<>>)
        OBVIOUS
      <4>2. goal \in Goal => [goal EXCEPT !.worked = b] \in Goal
        BY DEF Goal
      <4> QED
        BY <1>1, <4>1, <4>2 DEF Write, MaybeGoal
    <3>2. Good(Reach(g, "turn")) /\ Reach(g, "turn").at = "turn"
      BY <3>1, ReachGood DEF Reach
    <3>3. Take(c, Reach(g, "turn")) /\ turnWaiter' = c /\ Live(c) /\ at[c] = "sending"
          /\ UNCHANGED <<aborted, abortRef, compactWaiter, disturbed>>
      BY <1>8, <2>2 DEF TurnSent, Live
    <3> HIDE DEF g
    <3>4. compactWaiter' \in {compactWaiter, c, NoCycle} /\ compactWaiter' # c
      BY <3>3, <1>1
    <3>5. turnWaiter' \in {turnWaiter, c, NoCycle}
      BY <3>3
    <3> QED
      BY <3>2, <3>3, <3>4, <3>5, <2>2, TakeBase
  <2> QED
    BY <2>1, <2>2
<1>9. CASE CompactSent(c)
  <2>1. CASE c \in aborted
    <3>1. Good(AfterCompaction(goal, FALSE, after[c], TRUE))
      BY <1>1, AfterCompactionGood
    <3> QED
      BY <1>2, <1>9, <2>1, <3>1 DEF CompactSent, waiters
  <2>2. CASE c \notin aborted
    <3> DEFINE o == [Reach(goal, "compacting") EXCEPT !.after = after[c]]
    <3>1. after[c] \in {"none", "top", "continue"}
      BY DEF BaseInv, TypeOK
    <3>2. Good(o) /\ o.at = "compacting"
      BY <3>1, <1>1, ReachGood DEF Reach
    <3>3. Take(c, o) /\ compactWaiter' = c /\ Live(c) /\ at[c] = "compactSending"
          /\ UNCHANGED <<aborted, abortRef, turnWaiter, disturbed>>
      BY <1>9, <2>2 DEF CompactSent, Live
    <3> HIDE DEF o
    <3>4. turnWaiter' \in {turnWaiter, c, NoCycle} /\ turnWaiter' # c
      BY <3>3, <1>1
    <3>5. compactWaiter' \in {compactWaiter, c, NoCycle}
      BY <3>3
    <3> QED
      BY <3>2, <3>3, <3>4, <3>5, <2>2, TakeBase
  <2> QED
    BY <2>1, <2>2
<1>10. Unheard(c) \in {"none", "over"}
  BY DEF Unheard
<1>11. ASSUME NEW o, Good(o), Take(c, o), turnWaiter = c, turnWaiter' = NoCycle,
              UNCHANGED <<aborted, abortRef, compactWaiter, disturbed>>
       PROVE  BaseInv'
  <2>1. Live(c) /\ compactWaiter # c /\ NoCycle # c
    BY <1>11, <1>1, NoCycleAssumption DEF Live
  <2> QED
    BY <1>11, <2>1, TakeBase
<1>12. CASE TurnDone(c)
  BY <1>12, <1>10, WorkBase DEF TurnDone
<1>13. CASE TurnFails(c)
  <2>1. Good(Over(Thrown(goal)))
    BY <1>1, GoalErrorType, OverGood
  <2>2. CASE turnWaiter = c
    BY <1>13, <2>1, <2>2, <1>11 DEF TurnFails
  <2>3. CASE turnWaiter # c
    BY <1>13, <2>3, <1>10, WorkBase DEF TurnFails, waiters
  <2> QED
    BY <2>2, <2>3
<1>14. CASE TurnSettled(c)
  <2>1. Good(LoopTop(goal, FALSE)) /\ Good(Over(GoalError(goal)))
    BY <1>1, GoalErrorType, OverGood, LoopTopGood
  <2>2. CASE turnWaiter = c
    BY <1>14, <2>1, <2>2, <1>11 DEF TurnSettled
  <2>3. CASE turnWaiter # c
    BY <1>14, <2>3, <1>10, WorkBase DEF TurnSettled, waiters
  <2> QED
    BY <2>2, <2>3
<1>15. CASE CompactEnds(c)
  <2>1. CASE compactWaiter = c
    <3>1. PICK compacted \in BOOLEAN : Take(c, AfterCompaction(goal, compacted, after[c], FALSE))
      BY <1>15, <2>1 DEF CompactEnds
    <3>2. Good(AfterCompaction(goal, compacted, after[c], FALSE))
      BY <1>1, AfterCompactionGood
    <3>3. Live(c) /\ turnWaiter # c /\ NoCycle # c
      BY <2>1, <1>1, NoCycleAssumption DEF Live
    <3>4. compactWaiter' = NoCycle /\ UNCHANGED <<aborted, abortRef, turnWaiter, disturbed>>
      BY <1>15, <2>1 DEF CompactEnds
    <3> QED
      BY <3>1, <3>2, <3>3, <3>4, TakeBase
  <2>2. CASE compactWaiter # c
    BY <1>15, <2>2, <1>10, WorkBase DEF CompactEnds, waiters
  <2> QED
    BY <2>1, <2>2
<1> QED
  BY <1>3, <1>4, <1>5, <1>6, <1>7, <1>8, <1>9, <1>12, <1>13, <1>14, <1>15 DEF LoopStep

LEMMA FreshUnused ==
  ASSUME \E c \in Cycle : at[c] = "unused"
  PROVE  Fresh \in Cycle /\ at[Fresh] = "unused"
BY DEF Fresh

LEMMA NewGoalType ==
  ASSUME NEW c \in Cycle, NEW n \in Nat
  PROVE  NewGoal(c, n) \in Goal
<1> DEFINE f == [i \in 1 .. n |-> IF i = 1 THEN "active" ELSE "pending"]
<1>1. f \in Seq(TaskStatus)
  <2>1. f \in [1 .. n -> TaskStatus]
    BY DEF TaskStatus
  <2> HIDE DEF f
  <2> QED
    BY <2>1, SeqDef
<1>2. EmptyRing \in [last: Fingerprint \cup {<<>>}, run: 0 .. LoopThreshold]
  BY ThresholdsAssumption DEF EmptyRing
<1>3. 0 \in 0 .. MaxErrors /\ 0 \in 0 .. Stagnation
  BY ThresholdsAssumption
<1> HIDE DEF f
<1> QED
  BY <1>1, <1>2, <1>3 DEF NewGoal, Goal, Why, f

LEMMA ResumedType ==
  ASSUME NEW g \in Goal
  PROVE  [g EXCEPT !.status = "active", !.errs = 0, !.ring = EmptyRing] \in Goal
<1>1. EmptyRing \in [last: Fingerprint \cup {<<>>}, run: 0 .. LoopThreshold]
  BY ThresholdsAssumption DEF EmptyRing
<1>2. 0 \in 0 .. MaxErrors
  BY ThresholdsAssumption
<1> QED
  BY <1>1, <1>2 DEF Goal

LEMMA RestoredType ==
  ASSUME NEW g \in MaybeGoal
  PROVE  Restored(g) \in MaybeGoal /\ ~Running(Restored(g))
BY NoGoalAssumption DEF MaybeGoal, Goal, Restored, Running

LEMMA UserBase ==
  ASSUME BaseInv, UserStep
  PROVE  BaseInv'
<1>1. goal \in MaybeGoal /\ (goal # NoGoal => goal \in Goal)
  BY DEF BaseInv, TypeOK, MaybeGoal
<1>2. ASSUME NEW n \in Batches, Start(n)
      PROVE  BaseInv'
  <2>1. Fresh \in Cycle /\ at[Fresh] = "unused" /\ Fresh # NoCycle
    BY <1>2, FreshUnused, NoCycleAssumption DEF Start
  <2> DEFINE new == Starting(NewGoal(Fresh, n))
  <2>2. Command(new.goal, Fresh, new, TRUE)
    BY <1>2 DEF Start
  <2>3. Good(new)
    BY <2>1, BatchesAssumption, NewGoalType, StartingGood
  <2>4. new.goal \in MaybeGoal
    BY <2>3 DEF Good
  <2> HIDE DEF new
  <2> QED
    BY <2>1, <2>2, <2>3, <2>4, CommandBase
<1>3. CASE Pause
  <2> DEFINE g == Paused(goal, "userPaused")
  <2>1. g \in MaybeGoal /\ ~Running(g)
    BY <1>1, PausedType DEF Why
  <2>2. Command(g, NoCycle, Reach(g, "over"), TRUE) /\ Reach(g, "over").goal = g
    BY <1>3 DEF Pause, Reach
  <2> HIDE DEF g
  <2> QED
    BY <2>1, <2>2, CommandBase
<1>4. CASE Resume
  <2>1. Fresh \in Cycle /\ at[Fresh] = "unused" /\ Fresh # NoCycle
    BY <1>4, FreshUnused, NoCycleAssumption DEF Resume
  <2> DEFINE new == Starting([goal EXCEPT !.status = "active", !.errs = 0, !.ring = EmptyRing])
  <2>2. Command(new.goal, Fresh, new, FALSE)
    BY <1>4 DEF Resume
  <2>3. Good(new)
    BY <1>4, <1>1, ResumedType, StartingGood DEF Resume
  <2>4. new.goal \in MaybeGoal
    BY <2>3 DEF Good
  <2> HIDE DEF new
  <2> QED
    BY <2>1, <2>2, <2>3, <2>4, CommandBase
<1>5. CASE Clear
  <2>1. Command(NoGoal, NoCycle, Reach(NoGoal, "over"), TRUE) /\ Reach(NoGoal, "over").goal = NoGoal
    BY <1>5 DEF Clear, Reach
  <2>2. NoGoal \in MaybeGoal /\ ~Running(NoGoal)
    BY DEF MaybeGoal, Running
  <2> QED
    BY <2>1, <2>2, CommandBase
<1>6. CASE EditObjective
  <2>1. EmptyRing \in [last: Fingerprint \cup {<<>>}, run: 0 .. LoopThreshold]
    BY ThresholdsAssumption DEF EmptyRing
  <2>2. goal' \in Goal /\ goal'.status = goal.status /\ goal # NoGoal
    BY <1>1, <1>6, <2>1, RingType DEF EditObjective, Goal
  <2>3. UNCHANGED <<at, after, snap, aborted, abortRef, turnWaiter, compactWaiter, work, disturbed>>
    BY <1>6 DEF EditObjective, loops, waiters
  <2>4. TypeOK'
    BY <2>2, <2>3 DEF BaseInv, TypeOK
  <2>5. WaitInv' /\ SnapInv' /\ RunningIsDriven'
    BY <2>2, <2>3 DEF BaseInv, WaitInv, SnapInv, RunningIsDriven, Running, Live
  <2> QED
    BY <2>4, <2>5 DEF BaseInv
<1> QED
  BY <1>2, <1>3, <1>4, <1>5, <1>6 DEF UserStep

LEMMA RestartBase ==
  ASSUME BaseInv, Restart
  PROVE  BaseInv'
<1>1. goal' \in MaybeGoal /\ ~Running(goal')
  BY RestoredType DEF Restart, BaseInv, TypeOK, MaybeGoal
<1>2. disturbed' \in BOOLEAN
  BY DEF Restart, BaseInv, TypeOK
<1>3. TypeOK'
  BY <1>1, <1>2 DEF Restart, BaseInv, TypeOK, MaybeGoal
<1>4. WaitInv' /\ SnapInv'
  BY DEF Restart, BaseInv, TypeOK, WaitInv, SnapInv
<1>5. RunningIsDriven'
  BY <1>1 DEF RunningIsDriven, Running
<1> QED
  BY <1>3, <1>4, <1>5 DEF BaseInv

LEMMA StutterBase ==
  ASSUME BaseInv, UNCHANGED vars
  PROVE  BaseInv'
<1>1. TypeOK'
  BY DEF vars, loops, waiters, BaseInv, TypeOK
<1>2. WaitInv' /\ SnapInv' /\ RunningIsDriven'
  BY DEF vars, loops, waiters, BaseInv, WaitInv, SnapInv, RunningIsDriven, Running, Live
<1> QED
  BY <1>1, <1>2 DEF BaseInv

LEMMA NextBase ==
  ASSUME BaseInv, [Next]_vars
  PROVE  BaseInv'
BY LoopBase, ActBase, UserBase, RestartBase, StutterBase DEF Next

-----------------------------------------------------------------------------
(* What the operators leave of a goal.                                        *)

(* The goals are one as to the tasks, their evidence and what was said.       *)
Alike(g, h) ==
  /\ g # NoGoal /\ h # NoGoal
  /\ h.by = g.by /\ h.tasks = g.tasks /\ h.idx = g.idx /\ h.worked = g.worked
  /\ h.acted = g.acted /\ h.ring = g.ring /\ h.read = g.read
  /\ h.compactionFailed = g.compactionFailed

LEMMA AlikeOrder ==
  ASSUME NEW g, NEW h, Alike(g, h)
  PROVE  /\ Pointed(g) => Pointed(h)
         /\ Clean(g) => Clean(h)
         /\ Between(g) => Between(h)
         /\ SameTask(g, h) /\ SameTask(h, g)
BY DEF Alike, Pointed, Clean, Between, SameTask

LEMMA StatusAlike ==
  ASSUME NEW g \in Goal, NEW status \in {"active", "evaluating", "continuing", "paused", "blocked", "completed"}
  PROVE  Alike(g, [g EXCEPT !.status = status])
<1>1. [g EXCEPT !.status = status] \in Goal
  BY DEF Goal
<1> QED
  BY <1>1, NoGoalAssumption DEF Alike, Goal

LEMMA PausedAlike ==
  ASSUME NEW g \in Goal, NEW why \in Why
  PROVE  Paused(g, why) \in Goal /\ Alike(g, Paused(g, why))
         /\ Paused(g, why).status = "paused" /\ Paused(g, why).why = why
<1>1. [g EXCEPT !.status = "paused", !.why = why] \in Goal
  BY DEF Goal
<1> QED
  BY <1>1, NoGoalAssumption DEF Alike, Goal, Paused, Write

LEMMA ErrsAlike ==
  ASSUME NEW g \in Goal, NEW errs \in 0 .. MaxErrors
  PROVE  [g EXCEPT !.errs = errs] \in Goal /\ Alike(g, [g EXCEPT !.errs = errs])
         /\ [g EXCEPT !.errs = errs].status = g.status
<1>1. [g EXCEPT !.errs = errs] \in Goal
  BY DEF Goal
<1> QED
  BY <1>1, NoGoalAssumption DEF Alike, Goal

(* Goal h is g with the outcome of its current task.                          *)
LEMMA StampedFacts ==
  ASSUME NEW g \in Goal, NEW outcome \in TaskStatus, NEW h, h = Stamped(g, outcome)
  PROVE  /\ h \in Goal
         /\ h.by = g.by /\ h.idx = g.idx /\ h.worked = g.worked /\ h.acted = g.acted
         /\ h.ring = g.ring /\ h.read = g.read /\ h.compactionFailed = g.compactionFailed
         /\ h.status = g.status /\ h.why = g.why
         /\ DOMAIN h.tasks = DOMAIN g.tasks /\ (h.tasks = <<>> <=> g.tasks = <<>>)
         /\ \A k \in DOMAIN g.tasks : h.tasks[k] = IF k = g.idx THEN outcome ELSE g.tasks[k]
<1>1. h \in Goal
  BY StampedType DEF MaybeGoal
<1>2. CASE g.tasks = <<>>
  <2>1. h = g
    BY <1>2, NoGoalAssumption DEF Stamped, Write
  <2> QED
    BY <2>1, <1>1, <1>2
<1>3. CASE g.tasks # <<>>
  <2> DEFINE f == [g.tasks EXCEPT ![g.idx] = outcome]
  <2>1. h = [g EXCEPT !.tasks = f]
    BY <1>3, NoGoalAssumption DEF Stamped, Write
  <2>2. g.tasks \in Seq(TaskStatus) /\ g.tasks \in [DOMAIN g.tasks -> TaskStatus]
    BY ElementOfSeq, LenProperties DEF Goal
  <2>3. f \in [DOMAIN g.tasks -> TaskStatus]
        /\ \A k \in DOMAIN g.tasks : f[k] = IF k = g.idx THEN outcome ELSE g.tasks[k]
    BY <2>2
  <2>4. DOMAIN f = DOMAIN g.tasks /\ (f = <<>> <=> g.tasks = <<>>)
    BY <2>2, <2>3, SameLength
  <2> HIDE DEF f
  <2>5. h.tasks = f
    BY <2>1 DEF Goal
  <2>6. /\ h.by = g.by /\ h.idx = g.idx /\ h.worked = g.worked /\ h.acted = g.acted
        /\ h.ring = g.ring /\ h.read = g.read /\ h.compactionFailed = g.compactionFailed
        /\ h.status = g.status /\ h.why = g.why
    BY <2>1 DEF Goal
  <2> QED
    BY <1>1, <2>3, <2>4, <2>5, <2>6
<1> QED
  BY <1>2, <1>3

LEMMA StampedOrder ==
  ASSUME NEW g \in Goal, NEW outcome \in TaskStatus, outcome # "pending"
  PROVE  /\ Pointed(g) => Pointed(Stamped(g, outcome))
         /\ Clean(g) => Clean(Stamped(g, outcome))
<1>1. PICK h : h = Stamped(g, outcome)
  OBVIOUS
<1>2. /\ h \in Goal /\ h.idx = g.idx /\ h.acted = g.acted /\ h.ring = g.ring
      /\ h.read = g.read /\ h.compactionFailed = g.compactionFailed
      /\ DOMAIN h.tasks = DOMAIN g.tasks /\ (h.tasks = <<>> <=> g.tasks = <<>>)
      /\ \A k \in DOMAIN g.tasks : h.tasks[k] = IF k = g.idx THEN outcome ELSE g.tasks[k]
  BY <1>1, StampedFacts
<1>3. g # NoGoal /\ h # NoGoal
  BY <1>2, NoGoalAssumption
<1>4. Clean(g) => Clean(h)
  BY <1>2, <1>3 DEF Clean
<1>5. g.idx \in Nat /\ DOMAIN g.tasks \subseteq Nat
  BY LenProperties DEF Goal
<1>6. ASSUME Pointed(g)
      PROVE  Pointed(h)
  <2>1. h.tasks # <<>> => h.idx \in DOMAIN h.tasks
    BY <1>2, <1>3, <1>6 DEF Pointed
  <2>2. \A i \in DOMAIN g.tasks :
          /\ i < g.idx => g.tasks[i] \in {"done", "failed"}
          /\ i > g.idx => g.tasks[i] = "pending"
    BY <1>3, <1>6 DEF Pointed
  <2>3. ASSUME NEW i \in DOMAIN h.tasks
        PROVE  /\ i < h.idx => h.tasks[i] \in {"done", "failed"}
               /\ i > h.idx => h.tasks[i] = "pending"
               /\ i = h.idx => h.tasks[i] # "pending"
    BY <2>2, <2>3, <1>2, <1>5
  <2> QED
    BY <2>1, <2>3 DEF Pointed
<1> QED
  BY <1>1, <1>4, <1>6

(* Goal h is g after the advance past the task i.                             *)
AdvancedPast(g, h, i, outcome) ==
  /\ h.by = g.by /\ h.idx = i + 1 /\ ~h.worked /\ h.acted = {} /\ ~h.read
  /\ h.ring = g.ring /\ h.compactionFailed = g.compactionFailed
  /\ h.status = g.status /\ h.why = g.why
  /\ DOMAIN h.tasks = DOMAIN g.tasks /\ (h.tasks = <<>> <=> g.tasks = <<>>)
  /\ \A k \in DOMAIN g.tasks :
       h.tasks[k] = IF k = i THEN outcome ELSE IF k = i + 1 THEN "active" ELSE g.tasks[k]

LEMMA AdvancedFacts ==
  ASSUME NEW g \in Goal, NEW i \in Nat, NEW outcome \in TaskStatus, NEW n \in 0 .. Stagnation,
         NEW h, h = Advanced(g, i, outcome, n)
  PROVE  h \in Goal /\ AdvancedPast(g, h, i, outcome)
<1> DEFINE f == [k \in DOMAIN g.tasks |-> CASE k = i     -> outcome
                                            [] k = i + 1 -> "active"
                                            [] OTHER     -> g.tasks[k]]
<1>1. h \in Goal
  BY AdvancedType DEF MaybeGoal
<1>2. h = [g EXCEPT !.tasks = f, !.idx = i + 1, !.worked = FALSE, !.failedRun = n,
                    !.acted = {}, !.read = FALSE]
  BY NoGoalAssumption DEF Advanced, Write
<1>3. g.tasks \in Seq(TaskStatus) /\ g.tasks \in [DOMAIN g.tasks -> TaskStatus]
      /\ DOMAIN g.tasks \subseteq Nat
  BY ElementOfSeq, LenProperties DEF Goal
<1>4. f \in [DOMAIN g.tasks -> TaskStatus]
  BY <1>3 DEF TaskStatus
<1>5. \A k \in DOMAIN g.tasks :
        f[k] = IF k = i THEN outcome ELSE IF k = i + 1 THEN "active" ELSE g.tasks[k]
  BY <1>3
<1>6. DOMAIN f = DOMAIN g.tasks /\ (f = <<>> <=> g.tasks = <<>>)
  BY <1>3, <1>4, SameLength
<1> HIDE DEF f
<1>7. h.tasks = f /\ h.idx = i + 1 /\ ~h.worked /\ h.acted = {} /\ ~h.read
  BY <1>2 DEF Goal
<1>8. /\ h.by = g.by /\ h.ring = g.ring /\ h.compactionFailed = g.compactionFailed
      /\ h.status = g.status /\ h.why = g.why
  BY <1>2 DEF Goal
<1> QED
  BY <1>1, <1>5, <1>6, <1>7, <1>8 DEF AdvancedPast

Settled == {"done", "failed"}

(* A task that has been settled leaves the pointer at the next one, active    *)
(* and without evidence.                                                      *)
LEMMA AdvancedOrder ==
  ASSUME NEW g \in Goal, NEW outcome \in TaskStatus, outcome \in Settled, NEW n \in 0 .. Stagnation,
         Pointed(g), g.idx < Len(g.tasks)
  PROVE  /\ Pointed(Advanced(g, g.idx, outcome, n))
         /\ Between(Advanced(g, g.idx, outcome, n))
<1>1. PICK h : h = Advanced(g, g.idx, outcome, n)
  OBVIOUS
<1>2. g.idx \in Nat /\ g.idx # 0
  BY DEF Goal
<1>3. /\ h \in Goal /\ h.idx = g.idx + 1
      /\ DOMAIN h.tasks = DOMAIN g.tasks /\ (h.tasks = <<>> <=> g.tasks = <<>>)
      /\ \A k \in DOMAIN g.tasks :
           h.tasks[k] = IF k = g.idx THEN outcome ELSE IF k = g.idx + 1 THEN "active" ELSE g.tasks[k]
  <2>1. PICK i \in Nat : i = g.idx
    BY <1>2
  <2>2. h = Advanced(g, i, outcome, n)
    BY <1>1, <2>1
  <2>3. /\ h \in Goal /\ h.idx = i + 1
        /\ DOMAIN h.tasks = DOMAIN g.tasks /\ (h.tasks = <<>> <=> g.tasks = <<>>)
        /\ \A k \in DOMAIN g.tasks :
             h.tasks[k] = IF k = i THEN outcome ELSE IF k = i + 1 THEN "active" ELSE g.tasks[k]
    <3>1. "done" \in TaskStatus /\ "failed" \in TaskStatus
      BY DEF TaskStatus
    <3>2. h \in Goal /\ AdvancedPast(g, h, i, outcome)
      BY <2>2, <3>1, AdvancedFacts DEF Settled
    <3> QED
      BY <3>2 DEF AdvancedPast
  <2> QED
    BY <2>1, <2>3
<1>4. g # NoGoal /\ h # NoGoal
  BY <1>3, NoGoalAssumption
<1>5. DOMAIN g.tasks = 1 .. Len(g.tasks) /\ Len(g.tasks) \in Nat /\ g.tasks # <<>>
  BY LenProperties, EmptySeq, <1>2 DEF Goal
<1>6. g.idx + 1 \in DOMAIN g.tasks /\ h.tasks[h.idx] = "active"
  BY <1>2, <1>3, <1>5
<1>7. \A k \in DOMAIN g.tasks :
        /\ k < g.idx => g.tasks[k] \in {"done", "failed"}
        /\ k > g.idx => g.tasks[k] = "pending"
  BY <1>4 DEF Pointed
<1>8. ASSUME NEW k \in DOMAIN h.tasks
      PROVE  /\ k < h.idx => h.tasks[k] \in {"done", "failed"}
             /\ k > h.idx => h.tasks[k] = "pending"
             /\ k = h.idx => h.tasks[k] # "pending"
  <2>1. k \in Nat
    BY <1>3, <1>5, <1>8
  <2> QED
    BY <2>1, <1>2, <1>3, <1>7, <1>8 DEF Settled
<1>9. Pointed(h)
  BY <1>3, <1>6, <1>8 DEF Pointed
<1>10. Between(h)
  BY <1>3, <1>4, <1>5, <1>6 DEF Between
<1> QED
  BY <1>1, <1>9, <1>10

(* Goal h is g after the boundary between two tasks.                          *)
(* Goal h is g after the compaction between two tasks.                        *)
Compacted(g, h, compacted, poisoned) ==
  /\ h.by = g.by /\ h.tasks = g.tasks /\ h.idx = g.idx /\ h.read = g.read
  /\ h.status = g.status /\ h.why = g.why
  /\ Between(g) => h.acted = {}
  /\ h.ring = IF compacted \/ poisoned THEN EmptyRing ELSE g.ring
  /\ h.compactionFailed = (g.compactionFailed \/ ~compacted)

LEMMA FrontierFacts ==
  ASSUME NEW g \in Goal, NEW compacted \in BOOLEAN, NEW poisoned \in BOOLEAN,
         NEW h, h = Frontier(g, compacted, poisoned)
  PROVE  h \in Goal /\ Compacted(g, h, compacted, poisoned)
<1>1. h \in Goal
  BY FrontierType, NoGoalAssumption DEF MaybeGoal
<1>2. g # NoGoal
  BY NoGoalAssumption
<1> DEFINE ring == IF compacted \/ poisoned THEN EmptyRing ELSE Reopened(g).ring
           failed == Reopened(g).compactionFailed \/ ~compacted
<1>3. h = [Reopened(g) EXCEPT !.worked = FALSE, !.ring = ring, !.compactionFailed = failed]
  BY <1>2 DEF Frontier, Write
<1>4. PICK r : r = Reopened(g)
  OBVIOUS
<1>5. /\ r \in Goal
      /\ r.by = g.by /\ r.tasks = g.tasks /\ r.idx = g.idx /\ r.read = g.read
      /\ r.status = g.status /\ r.why = g.why /\ r.ring = g.ring
      /\ r.compactionFailed = g.compactionFailed
      /\ Between(g) => r.acted = {}
  BY <1>4 DEF Reopened, Goal, Between
<1> HIDE DEF ring, failed
<1>6. /\ h.by = r.by /\ h.tasks = r.tasks /\ h.idx = r.idx /\ h.read = r.read
      /\ h.status = r.status /\ h.why = r.why /\ h.acted = r.acted
      /\ h.ring = ring /\ h.compactionFailed = failed
  BY <1>3, <1>4, <1>5 DEF Goal
<1> QED
  BY <1>1, <1>4, <1>5, <1>6 DEF ring, failed, Compacted

LEMMA FrontierTasks ==
  ASSUME NEW g \in Goal, NEW compacted \in BOOLEAN, NEW poisoned \in BOOLEAN
  PROVE  /\ Frontier(g, compacted, poisoned) \in Goal
         /\ Frontier(g, compacted, poisoned).tasks = g.tasks
         /\ Frontier(g, compacted, poisoned).by = g.by
         /\ compacted \/ poisoned => Frontier(g, compacted, poisoned).ring = EmptyRing
<1>1. PICK h : h = Frontier(g, compacted, poisoned)
  OBVIOUS
<1>2. h \in Goal /\ h.tasks = g.tasks /\ h.by = g.by /\ h.ring = IF compacted \/ poisoned THEN EmptyRing ELSE g.ring
  <2>1. h \in Goal /\ Compacted(g, h, compacted, poisoned)
    BY <1>1, FrontierFacts
  <2> QED
    BY <2>1 DEF Compacted
<1> QED
  BY <1>1, <1>2

LEMMA FrontierOrder ==
  ASSUME NEW g \in Goal, NEW compacted \in BOOLEAN, NEW poisoned \in BOOLEAN,
         Pointed(g), Between(g)
  PROVE  /\ Pointed(Frontier(g, compacted, poisoned))
         /\ Clean(Frontier(g, compacted, poisoned))
<1>1. PICK h : h = Frontier(g, compacted, poisoned)
  OBVIOUS
<1>2. /\ h \in Goal
      /\ h.tasks = g.tasks /\ h.idx = g.idx /\ h.acted = {}
      /\ h.ring = IF compacted \/ poisoned THEN EmptyRing ELSE g.ring
      /\ h.compactionFailed = (g.compactionFailed \/ ~compacted)
  <2>1. h \in Goal /\ Compacted(g, h, compacted, poisoned)
    BY <1>1, FrontierFacts
  <2> QED
    BY <2>1 DEF Compacted
<1>3. Pointed(h)
  BY <1>2, NoGoalAssumption DEF Pointed
<1>4. EmptyRing.run = 0
  BY DEF EmptyRing
<1>5. Clean(h)
  BY <1>2, <1>4 DEF Clean
<1> QED
  BY <1>1, <1>3, <1>5

-----------------------------------------------------------------------------
(* The order a step of an undisturbed loop leaves.                            *)

Between2 == {"compactSending", "compacting"}

Tidy(o) ==
  /\ Pointed(o.goal)
  /\ o.at \in Between2 => Between(o.goal)
  /\ o.at \notin Between2 => Clean(o.goal)
  /\ o.at = "evaluating" => SameTask(o.snap, o.goal)

LEMMA ReachTidy ==
  ASSUME NEW g, Pointed(g), NEW where
  PROVE  /\ Clean(g) /\ where \notin Between2 /\ where # "evaluating" => Tidy(Reach(g, where))
         /\ Between(g) /\ where \in Between2 =>
              \A next : Tidy([Reach(g, where) EXCEPT !.after = next])
BY DEF Tidy, Reach, Between2

LEMMA OverTidy ==
  ASSUME NEW g, Pointed(g), Clean(g)
  PROVE  Tidy(Over(g))
BY ReachTidy DEF Over, Between2

LEMMA EvaluatingTidy ==
  ASSUME NEW g \in Goal, Pointed(g), Clean(g)
  PROVE  Tidy(Evaluating(g))
<1>1. PICK h : h = [g EXCEPT !.status = "evaluating"]
  OBVIOUS
<1>2. Pointed(h) /\ Clean(h) /\ SameTask(g, h)
  BY <1>1, StatusAlike, AlikeOrder
<1>3. Evaluating(g).goal = h /\ Evaluating(g).at = "evaluating" /\ Evaluating(g).snap = g
  BY <1>1 DEF Evaluating, Reach
<1> QED
  BY <1>2, <1>3 DEF Tidy, Between2

LEMMA NoGoalOrder == Pointed(NoGoal) /\ Clean(NoGoal)
BY DEF Pointed, Clean

LEMMA PausedOrder ==
  ASSUME NEW g \in MaybeGoal, NEW why \in Why, Pointed(g), Clean(g)
  PROVE  Pointed(Paused(g, why)) /\ Clean(Paused(g, why))
<1>1. CASE g = NoGoal
  BY <1>1, NoGoalOrder DEF Paused, Write
<1>2. CASE g \in Goal
  BY <1>2, PausedAlike, AlikeOrder
<1> QED
  BY <1>1, <1>2 DEF MaybeGoal

LEMMA GoalErrorOrder ==
  ASSUME NEW g \in MaybeGoal, Pointed(g), Clean(g)
  PROVE  /\ Pointed(GoalError(g)) /\ Clean(GoalError(g))
         /\ Pointed(Thrown(g)) /\ Clean(Thrown(g))
<1>1. Pointed(GoalError(g)) /\ Clean(GoalError(g))
  BY PausedOrder DEF GoalError, Why
<1> QED
  BY <1>1 DEF Thrown

LEMMA ContinueTidy ==
  ASSUME NEW g \in MaybeGoal, NEW dead \in BOOLEAN, Pointed(g), Clean(g)
  PROVE  Tidy(Continue(g, dead))
<1>1. CASE dead
  BY <1>1, GoalErrorOrder, OverTidy DEF Continue
<1>2. CASE ~dead
  <2>1. PICK h : h = Write(g, [g EXCEPT !.status = "continuing"])
    OBVIOUS
  <2>2. Pointed(h) /\ Clean(h)
    BY <2>1, StatusAlike, AlikeOrder, NoGoalOrder DEF Write, MaybeGoal
  <2>3. Tidy(Reach(h, "sending"))
    BY <2>2, ReachTidy DEF Between2
  <2> QED
    BY <1>2, <2>1, <2>3 DEF Continue
<1> QED
  BY <1>1, <1>2

LEMMA CompletedTidy ==
  ASSUME NEW g \in MaybeGoal, Pointed(g), Clean(g)
  PROVE  Tidy(Completed(g))
<1>1. PICK h : h = Write(g, [g EXCEPT !.status = "completed"])
  OBVIOUS
<1>2. Pointed(h) /\ Clean(h)
  BY <1>1, StatusAlike, AlikeOrder, NoGoalOrder DEF Write, MaybeGoal
<1> QED
  BY <1>1, <1>2, OverTidy DEF Completed

(* A goal whose ring is emptied.                                              *)
LEMMA RingFacts ==
  ASSUME NEW g \in Goal, NEW h, NEW n \in 0 .. Stagnation,
         h = [g EXCEPT !.ring = EmptyRing] \/ h = [g EXCEPT !.failedRun = n, !.ring = EmptyRing]
  PROVE  /\ h \in Goal /\ h.ring = EmptyRing /\ h.ring.run = 0
         /\ h.by = g.by /\ h.tasks = g.tasks /\ h.idx = g.idx /\ h.worked = g.worked
         /\ h.acted = g.acted /\ h.read = g.read /\ h.compactionFailed = g.compactionFailed
         /\ h.status = g.status /\ h.why = g.why
<1>1. PICK ring : ring = EmptyRing
  OBVIOUS
<1>2. ring \in [last: Fingerprint \cup {<<>>}, run: 0 .. LoopThreshold]
  BY <1>1, ThresholdsAssumption DEF EmptyRing
<1>3. h = [g EXCEPT !.ring = ring] \/ h = [g EXCEPT !.failedRun = n, !.ring = ring]
  BY <1>1
<1>4. h \in Goal
  <2>1. [g EXCEPT !.ring = ring] \in Goal
    BY <1>2, RingType
  <2>2. [g EXCEPT !.failedRun = n, !.ring = ring] \in Goal
    BY <1>2 DEF Goal
  <2> QED
    BY <1>3, <2>1, <2>2
<1>5. /\ h.ring = ring
      /\ h.by = g.by /\ h.tasks = g.tasks /\ h.idx = g.idx /\ h.worked = g.worked
      /\ h.acted = g.acted /\ h.read = g.read /\ h.compactionFailed = g.compactionFailed
      /\ h.status = g.status /\ h.why = g.why
  <2>1. CASE h = [g EXCEPT !.ring = ring]
    BY <2>1 DEF Goal
  <2>2. CASE h = [g EXCEPT !.failedRun = n, !.ring = ring]
    BY <2>2 DEF Goal
  <2> QED
    BY <1>3, <2>1, <2>2
<1>6. ring.run = 0
  BY <1>1 DEF EmptyRing
<1> QED
  BY <1>1, <1>4, <1>5, <1>6

LEMMA KillTidy ==
  ASSUME NEW g \in Goal, NEW dead \in BOOLEAN, g.tasks # <<>>, Pointed(g), Clean(g)
  PROVE  Tidy(Kill(g, dead))
<1> DEFINE n == IF g.failedRun < Stagnation THEN g.failedRun + 1 ELSE g.failedRun
           killed == Advanced(g, g.idx, "failed", n)
           cleared == [killed EXCEPT !.ring = EmptyRing]
           last == [Stamped(g, "failed") EXCEPT !.failedRun = n, !.ring = EmptyRing]
<1>1. n \in 0 .. Stagnation
  BY ThresholdsAssumption DEF Goal
<1>2. g.idx \in Nat /\ g # NoGoal
  BY NoGoalAssumption DEF Goal
<1>2a. "failed" \in TaskStatus /\ "failed" \in Settled
  BY DEF TaskStatus, Settled
<1> HIDE DEF n
<1>3. CASE g.idx = Len(g.tasks)
  <2>1. PICK x : x = Stamped(g, "failed")
    OBVIOUS
  <2>2. x \in Goal /\ Pointed(x) /\ Clean(x)
    BY <2>1, <1>2a, StampedType, StampedOrder DEF MaybeGoal
  <2>3. last = [x EXCEPT !.failedRun = n, !.ring = EmptyRing]
    BY <2>1
  <2> HIDE DEF last
  <2>4. /\ last \in Goal /\ last.ring.run = 0
        /\ last.tasks = x.tasks /\ last.idx = x.idx /\ last.acted = x.acted
    BY <2>2, <2>3, <1>1, RingFacts
  <2>5. Pointed(last) /\ Clean(last)
    BY <2>2, <2>4, NoGoalAssumption DEF Pointed, Clean
  <2>6. Tidy(Completed(last))
    BY <2>4, <2>5, CompletedTidy DEF MaybeGoal
  <2> QED
    BY <1>3, <2>6 DEF Kill, last, n
<1>4. CASE g.idx # Len(g.tasks)
  <2>1. g.idx < Len(g.tasks)
    <3>1. g.idx \in DOMAIN g.tasks
      BY <1>2 DEF Pointed
    <3>2. DOMAIN g.tasks = 1 .. Len(g.tasks) /\ Len(g.tasks) \in Nat
      BY LenProperties DEF Goal
    <3> QED
      BY <3>1, <3>2, <1>4
  <2>2. killed \in Goal
    BY <1>1, <1>2, <1>2a, AdvancedType DEF MaybeGoal
  <2>3. Pointed(killed) /\ Between(killed)
    BY <1>1, <1>2a, <2>1, AdvancedOrder
  <2>4. killed.acted = {}
    <3>1. AdvancedPast(g, killed, g.idx, "failed")
      BY <1>1, <1>2, <1>2a, AdvancedFacts
    <3> QED
      BY <3>1 DEF AdvancedPast
  <2> HIDE DEF killed
  <2>5. /\ cleared \in Goal /\ cleared.ring.run = 0
        /\ cleared.tasks = killed.tasks /\ cleared.idx = killed.idx
        /\ cleared.acted = killed.acted
    BY <2>2, <1>1, RingFacts
  <2> HIDE DEF cleared
  <2>6. Pointed(cleared) /\ Clean(cleared)
    BY <2>2, <2>3, <2>4, <2>5, NoGoalAssumption DEF Pointed, Clean
  <2>7. Tidy(Over(Paused(cleared, "batchStagnation")))
    BY <2>5, <2>6, PausedOrder, OverTidy DEF Why, MaybeGoal
  <2>8. Tidy(Evaluating(cleared))
    BY <2>5, <2>6, EvaluatingTidy
  <2>9. Tidy(Evaluating(Frontier(killed, FALSE, TRUE)))
    <3>1. PICK f : f = Frontier(killed, FALSE, TRUE)
      OBVIOUS
    <3>2. f \in Goal
      BY <3>1, <2>2, FrontierType, NoGoalAssumption DEF MaybeGoal
    <3>3. Pointed(f) /\ Clean(f)
      BY <3>1, <2>2, <2>3, FrontierOrder
    <3> QED
      BY <3>1, <3>2, <3>3, EvaluatingTidy
  <2>10. Tidy([Reach(killed, "compactSending") EXCEPT !.after = "top"])
    BY <2>3, ReachTidy DEF Between2
  <2> QED
    BY <1>4, <2>7, <2>8, <2>9, <2>10 DEF Kill, n, killed, cleared
<1> QED
  BY <1>3, <1>4

LEMMA LoopTopTidy ==
  ASSUME NEW g \in MaybeGoal, NEW dead \in BOOLEAN, Pointed(g), Clean(g)
  PROVE  Tidy(LoopTop(g, dead))
<1>1. CASE g = NoGoal \/ g.status = "paused"
  BY <1>1, OverTidy DEF LoopTop
<1>2. CASE g # NoGoal /\ g.status # "paused"
  <2>1. g \in Goal
    BY <1>2 DEF MaybeGoal
  <2>2. Tidy(Over([g EXCEPT !.status = "blocked"]))
    <3>1. PICK h : h = [g EXCEPT !.status = "blocked"]
      OBVIOUS
    <3>2. Pointed(h) /\ Clean(h)
      BY <2>1, <3>1, StatusAlike, AlikeOrder
    <3> QED
      BY <3>1, <3>2, OverTidy
  <2> QED
    BY <1>2, <2>1, <2>2, EvaluatingTidy, KillTidy DEF LoopTop
<1> QED
  BY <1>1, <1>2

LEMMA AfterCompactionTidy ==
  ASSUME NEW g \in MaybeGoal, NEW compacted \in BOOLEAN, NEW next, NEW dead \in BOOLEAN,
         Pointed(g), Between(g)
  PROVE  Tidy(AfterCompaction(g, compacted, next, dead))
<1>1. PICK poisoned \in BOOLEAN : poisoned = (next = "top")
  OBVIOUS
<1>2. PICK f : f = Frontier(g, compacted, poisoned)
  OBVIOUS
<1>3. g \in Goal
  BY DEF MaybeGoal, Between
<1>4. f \in MaybeGoal /\ Pointed(f) /\ Clean(f)
  BY <1>2, <1>3, FrontierOrder, FrontierType DEF MaybeGoal
<1>5. Tidy(LoopTop(f, dead)) /\ Tidy(Continue(f, dead))
  BY <1>4, LoopTopTidy, ContinueTidy
<1>6. CASE next = "top"
  <2>1. f = Frontier(g, compacted, TRUE)
    BY <1>1, <1>2, <1>6
  <2> QED
    BY <1>5, <1>6, <2>1 DEF AfterCompaction
<1>7. CASE next # "top"
  <2>1. f = Frontier(g, compacted, FALSE)
    BY <1>1, <1>2, <1>7
  <2> QED
    BY <1>5, <1>7, <2>1 DEF AfterCompaction
<1> QED
  BY <1>6, <1>7

LEMMA AfterErrorTidy ==
  ASSUME NEW g \in MaybeGoal, NEW s \in Goal, Pointed(g), Clean(g)
  PROVE  Tidy(AfterError(g, s))
<1> DEFINE errs == IF s.errs < MaxErrors THEN s.errs + 1 ELSE s.errs
           new == Write(g, [g EXCEPT !.errs = errs])
           paused == Paused(new, "infraError")
<1>1. errs \in 0 .. MaxErrors
  BY ThresholdsAssumption DEF Goal
<1> HIDE DEF errs
<1>2. new \in MaybeGoal /\ Pointed(new) /\ Clean(new)
  BY <1>1, ErrsAlike, AlikeOrder, NoGoalOrder DEF MaybeGoal, Write
<1> HIDE DEF new
<1>3. paused \in MaybeGoal /\ Pointed(paused) /\ Clean(paused)
  BY <1>2, PausedType, PausedOrder DEF Why
<1> HIDE DEF paused
<1>4. Pointed(Stamped(paused, "failed")) /\ Clean(Stamped(paused, "failed"))
  <2>1. CASE paused = NoGoal
    BY <2>1, NoGoalOrder DEF Stamped, Write
  <2>2. CASE paused \in Goal
    BY <2>2, <1>3, StampedOrder DEF TaskStatus
  <2> QED
    BY <1>3, <2>1, <2>2 DEF MaybeGoal
<1>5. Tidy(Over(Stamped(paused, "failed")))
  BY <1>4, OverTidy
<1>6. Tidy(Reach(new, "sleeping"))
  BY <1>2, ReachTidy DEF Between2
<1> QED
  BY <1>5, <1>6 DEF AfterError, errs, new, paused

-----------------------------------------------------------------------------
(* What a step may make of the outcome of a task.                             *)

(* It is the same goal, and no task is done without evidence of its own or    *)
(* killed before it was read.                                                 *)
Honest(g, h) == h # NoGoal =>
  /\ g # NoGoal /\ h.by = g.by
  /\ \A i \in DOMAIN g.tasks :
       /\ h.tasks[i] = "done" /\ g.tasks[i] # "done" =>
            i = g.idx /\ g.worked /\ (i \in Toolless \/ "turn" \in g.acted)
       /\ h.tasks[i] = "failed" /\ g.tasks[i] # "failed"
          /\ (h.status = "paused" => h.why = "batchStagnation") =>
            g.compactionFailed \/ g.read

(* It is the same goal with the same outcomes.                                *)
SameTasks(g, h) == h # NoGoal => g # NoGoal /\ h.by = g.by /\ h.tasks = g.tasks

LEMMA SameTasksHonest ==
  ASSUME NEW g, NEW h, SameTasks(g, h)
  PROVE  Honest(g, h)
BY DEF SameTasks, Honest

LEMMA AlikeSameTasks ==
  ASSUME NEW g, NEW h, Alike(g, h)
  PROVE  SameTasks(g, h)
BY DEF Alike, SameTasks

LEMMA GoalErrorSameTasks ==
  ASSUME NEW g \in MaybeGoal
  PROVE  SameTasks(g, GoalError(g)) /\ SameTasks(g, Thrown(g))
<1>1. SameTasks(g, GoalError(g))
  <2>1. CASE g = NoGoal
    BY <2>1 DEF SameTasks, GoalError, Paused, Write
  <2>2. CASE g \in Goal
    BY <2>2, PausedAlike, AlikeSameTasks DEF GoalError, Why
  <2> QED
    BY <2>1, <2>2 DEF MaybeGoal
<1> QED
  BY <1>1 DEF Thrown, SameTasks

LEMMA ContinueSameTasks ==
  ASSUME NEW g \in MaybeGoal, NEW dead \in BOOLEAN
  PROVE  SameTasks(g, Continue(g, dead).goal)
<1>1. CASE dead
  BY <1>1, GoalErrorSameTasks DEF Continue, Over, Reach
<1>2. CASE ~dead
  <2>1. PICK h : h = Write(g, [g EXCEPT !.status = "continuing"])
    OBVIOUS
  <2>2. Continue(g, dead).goal = h
    BY <1>2, <2>1 DEF Continue, Reach
  <2>3. SameTasks(g, h)
    BY <2>1, StatusAlike, AlikeSameTasks DEF Write, MaybeGoal, SameTasks
  <2> QED
    BY <2>2, <2>3
<1> QED
  BY <1>1, <1>2

(* A loop that is not detected leaves the tasks alone.                        *)
LEMMA UnloopedSameTasks ==
  ASSUME NEW g \in MaybeGoal, NEW dead \in BOOLEAN, g # NoGoal => ~Loops(g)
  PROVE  SameTasks(g, LoopTop(g, dead).goal)
<1>1. CASE g = NoGoal
  BY <1>1 DEF SameTasks, LoopTop, Over, Reach
<1>2. CASE g # NoGoal
  <2>1. PICK h : h = [g EXCEPT !.status = "evaluating"]
    OBVIOUS
  <2>2. LoopTop(g, dead).goal \in {g, h}
    BY <1>2, <2>1 DEF LoopTop, Over, Reach, Evaluating
  <2>3. SameTasks(g, h) /\ SameTasks(g, g)
    BY <1>2, <2>1, StatusAlike, AlikeSameTasks DEF MaybeGoal, SameTasks
  <2> QED
    BY <2>2, <2>3
<1> QED
  BY <1>1, <1>2

LEMMA AfterCompactionSameTasks ==
  ASSUME NEW g \in MaybeGoal, NEW compacted \in BOOLEAN, NEW next, NEW dead \in BOOLEAN
  PROVE  SameTasks(g, AfterCompaction(g, compacted, next, dead).goal)
<1>1. PICK poisoned \in BOOLEAN : poisoned = (next = "top")
  OBVIOUS
<1>2. PICK f : f = Frontier(g, compacted, poisoned)
  OBVIOUS
<1>3. f \in MaybeGoal /\ SameTasks(g, f) /\ (f = NoGoal <=> g = NoGoal)
      /\ (f # NoGoal /\ poisoned => ~Loops(f))
  <2>1. CASE g = NoGoal
    BY <2>1, <1>2 DEF Frontier, Write, SameTasks, MaybeGoal
  <2>2. CASE g \in Goal
    <3>1. f \in Goal /\ f.tasks = g.tasks /\ f.by = g.by /\ (compacted \/ poisoned => f.ring = EmptyRing)
      BY <2>2, <1>2, FrontierTasks
    <3>2. poisoned => ~Loops(f)
      BY <3>1, ThresholdsAssumption DEF Loops, EmptyRing
    <3> QED
      BY <2>2, <3>1, <3>2, NoGoalAssumption DEF SameTasks, MaybeGoal
  <2> QED
    BY <2>1, <2>2 DEF MaybeGoal
<1>4. SameTasks(f, Continue(f, dead).goal) /\ (poisoned => SameTasks(f, LoopTop(f, dead).goal))
  BY <1>3, ContinueSameTasks, UnloopedSameTasks
<1>5. SameTasks(g, Continue(f, dead).goal) /\ (poisoned => SameTasks(g, LoopTop(f, dead).goal))
  BY <1>3, <1>4 DEF SameTasks
<1>6. CASE next = "top"
  <2>1. f = Frontier(g, compacted, TRUE)
    BY <1>1, <1>2, <1>6
  <2> QED
    BY <1>1, <1>5, <1>6, <2>1 DEF AfterCompaction
<1>7. CASE next # "top"
  <2>1. f = Frontier(g, compacted, FALSE)
    BY <1>1, <1>2, <1>7
  <2> QED
    BY <1>5, <1>7, <2>1 DEF AfterCompaction
<1> QED
  BY <1>6, <1>7

(* A task in which a loop is detected has been read, or is still poisoned by  *)
(* a compaction that failed.                                                  *)
LEMMA KillHonest ==
  ASSUME NEW g \in Goal, NEW dead \in BOOLEAN, g.tasks # <<>>, Clean(g), Loops(g)
  PROVE  Honest(g, Kill(g, dead).goal)
<1>1. g.compactionFailed \/ g.read
  BY ThresholdsAssumption, NoGoalAssumption DEF Clean, Loops, Goal
<1> DEFINE n == IF g.failedRun < Stagnation THEN g.failedRun + 1 ELSE g.failedRun
           killed == Advanced(g, g.idx, "failed", n)
           cleared == [killed EXCEPT !.ring = EmptyRing]
           last == [Stamped(g, "failed") EXCEPT !.failedRun = n, !.ring = EmptyRing]
           Undone(h) == h.by = g.by /\ \A i \in DOMAIN g.tasks :
                         h.tasks[i] = "done" => g.tasks[i] = "done"
<1>2. n \in 0 .. Stagnation
  BY ThresholdsAssumption DEF Goal
<1>3. g.idx \in Nat /\ g # NoGoal
  BY NoGoalAssumption DEF Goal
<1>4. "failed" \in TaskStatus
  BY DEF TaskStatus
<1> HIDE DEF n
<1>5. killed \in Goal /\ Undone(killed)
  <2>1. PICK i, h : i \in Nat /\ i = g.idx /\ h = Advanced(g, i, "failed", n)
    BY <1>3
  <2>2. /\ h \in Goal /\ h.by = g.by
        /\ \A k \in DOMAIN g.tasks :
             h.tasks[k] = IF k = i THEN "failed" ELSE IF k = i + 1 THEN "active" ELSE g.tasks[k]
    <3>1. h \in Goal /\ AdvancedPast(g, h, i, "failed")
      BY <2>1, <1>2, <1>4, AdvancedFacts
    <3> QED
      BY <3>1 DEF AdvancedPast
  <2> QED
    BY <2>1, <2>2
<1>6. PICK x : x = Stamped(g, "failed")
  OBVIOUS
<1>7. x \in Goal /\ Undone(x)
  <2>1. /\ x \in Goal /\ x.by = g.by
        /\ \A k \in DOMAIN g.tasks : x.tasks[k] = IF k = g.idx THEN "failed" ELSE g.tasks[k]
    BY <1>6, <1>4, StampedFacts
  <2> QED
    BY <2>1
<1> HIDE DEF killed
<1>8. last = [x EXCEPT !.failedRun = n, !.ring = EmptyRing]
  BY <1>6
<1> HIDE DEF last
<1>9. last \in Goal /\ last.tasks = x.tasks /\ last.by = x.by
  BY <1>2, <1>7, <1>8, RingFacts
<1>10. cleared \in Goal /\ cleared.tasks = killed.tasks /\ cleared.by = killed.by
  BY <1>2, <1>5, RingFacts
<1> HIDE DEF cleared
<1>11. Undone(Completed(last).goal)
  <2>1. PICK h : h = [last EXCEPT !.status = "completed"]
    OBVIOUS
  <2>2. h.tasks = last.tasks /\ h.by = last.by
    BY <2>1, <1>9, StatusAlike DEF Alike
  <2>3. Completed(last).goal = h
    BY <2>1, <1>9, NoGoalAssumption DEF Completed, Over, Reach, Write
  <2> QED
    BY <2>2, <2>3, <1>7, <1>9, NoGoalAssumption
<1>12. Undone(Over(Paused(cleared, "batchStagnation")).goal)
  <2>1. PICK h : h = Paused(cleared, "batchStagnation")
    OBVIOUS
  <2>2. h.tasks = cleared.tasks /\ h.by = cleared.by
    BY <2>1, <1>10, PausedAlike DEF Alike, Why
  <2> QED
    BY <2>1, <2>2, <1>5, <1>10, NoGoalAssumption DEF Over, Reach
<1>13. Undone(Evaluating(cleared).goal)
  <2>1. PICK h : h = [cleared EXCEPT !.status = "evaluating"]
    OBVIOUS
  <2>2. h.tasks = cleared.tasks /\ h.by = cleared.by
    BY <2>1, <1>10, StatusAlike DEF Alike
  <2> QED
    BY <2>1, <2>2, <1>5, <1>10, NoGoalAssumption DEF Evaluating, Reach
<1>14. Undone(Evaluating(Frontier(killed, FALSE, TRUE)).goal)
  <2>1. PICK f : f = Frontier(killed, FALSE, TRUE)
    OBVIOUS
  <2>2. f \in Goal /\ f.tasks = killed.tasks /\ f.by = killed.by
    BY <2>1, <1>5, FrontierTasks
  <2>3. PICK h : h = [f EXCEPT !.status = "evaluating"]
    OBVIOUS
  <2>4. h.tasks = f.tasks /\ h.by = f.by
    BY <2>2, <2>3, StatusAlike DEF Alike
  <2>5. Evaluating(Frontier(killed, FALSE, TRUE)).goal = h
    BY <2>1, <2>3 DEF Evaluating, Reach
  <2> QED
    BY <2>2, <2>4, <2>5, <1>5, NoGoalAssumption
<1>15. Undone([Reach(killed, "compactSending") EXCEPT !.after = "top"].goal)
  BY <1>5 DEF Reach
<1>16. Undone(Kill(g, dead).goal)
  <2> HIDE DEF Undone
  <2> QED
    BY <1>11, <1>12, <1>13, <1>14, <1>15 DEF Kill, n, killed, cleared, last
<1> QED
  BY <1>1, <1>3, <1>16 DEF Honest

LEMMA LoopTopHonest ==
  ASSUME NEW g \in MaybeGoal, NEW dead \in BOOLEAN, Clean(g)
  PROVE  Honest(g, LoopTop(g, dead).goal)
<1>1. CASE g = NoGoal
  BY <1>1 DEF Honest, LoopTop, Over, Reach
<1>2. CASE g # NoGoal /\ ~Loops(g)
  BY <1>2, UnloopedSameTasks, SameTasksHonest
<1>3. CASE g # NoGoal /\ Loops(g)
  <2>1. g \in Goal
    BY <1>3 DEF MaybeGoal
  <2>2. PICK h : h = [g EXCEPT !.status = "blocked"]
    OBVIOUS
  <2>3. Honest(g, h) /\ Honest(g, g)
    <3>1. Alike(g, h)
      BY <2>1, <2>2, StatusAlike
    <3>2. SameTasks(g, h)
      BY <3>1, AlikeSameTasks
    <3>3. SameTasks(g, g)
      BY DEF SameTasks
    <3> QED
      BY <3>2, <3>3, SameTasksHonest
  <2>4. g.tasks # <<>> => Honest(g, Kill(g, dead).goal)
    BY <2>1, <1>3, KillHonest
  <2> QED
    BY <1>3, <2>2, <2>3, <2>4 DEF LoopTop, Over, Reach
<1> QED
  BY <1>1, <1>2, <1>3

LEMMA AfterErrorHonest ==
  ASSUME NEW g \in MaybeGoal, NEW s \in Goal
  PROVE  Honest(g, AfterError(g, s).goal)
<1> DEFINE errs == IF s.errs < MaxErrors THEN s.errs + 1 ELSE s.errs
           new == Write(g, [g EXCEPT !.errs = errs])
           paused == Paused(new, "infraError")
<1>1. errs \in 0 .. MaxErrors
  BY ThresholdsAssumption DEF Goal
<1> HIDE DEF errs
<1>2. CASE g = NoGoal
  BY <1>2 DEF Honest, AfterError, Over, Reach, Paused, Stamped, Write
<1>3. CASE g \in Goal
  <2>1. new \in Goal /\ Alike(g, new) /\ g # NoGoal
    BY <1>1, <1>3, ErrsAlike, NoGoalAssumption DEF Write
  <2> HIDE DEF new
  <2>2. paused \in Goal /\ Alike(new, paused) /\ paused.status = "paused" /\ paused.why = "infraError"
    BY <2>1, PausedAlike DEF Why
  <2> HIDE DEF paused
  <2>3. PICK h : h = Stamped(paused, "failed")
    OBVIOUS
  <2>4. "failed" \in TaskStatus
    BY DEF TaskStatus
  <2>5. /\ h.by = paused.by /\ h.status = paused.status /\ h.why = paused.why
        /\ \A k \in DOMAIN paused.tasks :
             h.tasks[k] = IF k = paused.idx THEN "failed" ELSE paused.tasks[k]
    BY <2>2, <2>3, <2>4, StampedFacts
  <2>6. paused.tasks = g.tasks /\ paused.by = g.by /\ g # NoGoal
    BY <2>1, <2>2 DEF Alike
  <2>7. Honest(g, h)
    BY <2>2, <2>5, <2>6 DEF Honest
  <2>8. Honest(g, new)
    BY <2>1, AlikeSameTasks, SameTasksHonest
  <2> QED
    BY <2>3, <2>7, <2>8 DEF AfterError, Over, Reach, errs, new, paused
<1> QED
  BY <1>2, <1>3 DEF MaybeGoal

-----------------------------------------------------------------------------
(* A step of a loop that goes on leaves a running goal running, and one of an *)
(* aborted loop leaves a paused goal paused.                                  *)

Onward(g, o) == Running(g) /\ o.at # "over" => Running(o.goal)

Halted(g) == g = NoGoal \/ g.status = "paused"

LEMMA OverOnward ==
  ASSUME NEW g, NEW h
  PROVE  Onward(g, Over(h)) /\ Over(h).at = "over" /\ Over(h).goal = h
BY DEF Onward, Over, Reach

LEMMA ContinueOnward ==
  ASSUME NEW g \in MaybeGoal
  PROVE  Onward(g, Continue(g, FALSE))
<1>1. CASE g = NoGoal
  BY <1>1 DEF Onward, Running
<1>2. CASE g # NoGoal
  <2>1. PICK h : h = [g EXCEPT !.status = "continuing"]
    OBVIOUS
  <2>2. h \in Goal /\ h.status = "continuing" /\ h # NoGoal
    BY <1>2, <2>1, StatusType, NoGoalAssumption
  <2>3. Continue(g, FALSE).goal = h
    BY <1>2, <2>1 DEF Continue, Reach, Write
  <2> QED
    BY <2>2, <2>3 DEF Onward, Running
<1> QED
  BY <1>1, <1>2

LEMMA EvaluatingOnward ==
  ASSUME NEW g, NEW h \in Goal
  PROVE  Onward(g, Evaluating(h))
<1>1. PICK x : x = [h EXCEPT !.status = "evaluating"]
  OBVIOUS
<1>2. x.status = "evaluating" /\ x # NoGoal
  BY <1>1, StatusType, NoGoalAssumption DEF MaybeGoal
<1> QED
  BY <1>1, <1>2 DEF Onward, Evaluating, Reach, Running

LEMMA KillOnward ==
  ASSUME NEW g \in Goal
  PROVE  Onward(g, Kill(g, FALSE))
<1> DEFINE n == IF g.failedRun < Stagnation THEN g.failedRun + 1 ELSE g.failedRun
           killed == Advanced(g, g.idx, "failed", n)
           cleared == [killed EXCEPT !.ring = EmptyRing]
           last == [Stamped(g, "failed") EXCEPT !.failedRun = n, !.ring = EmptyRing]
<1>1. n \in 0 .. Stagnation
  BY ThresholdsAssumption DEF Goal
<1>2. g.idx \in Nat /\ g # NoGoal /\ g \in MaybeGoal
  BY NoGoalAssumption DEF Goal, MaybeGoal
<1>3. "failed" \in TaskStatus
  BY DEF TaskStatus
<1> HIDE DEF n
<1>4. killed \in Goal /\ killed.status = g.status
  BY <1>1, <1>2, <1>3, AdvancedType
<1> HIDE DEF killed
<1>5. cleared \in Goal
  BY <1>1, <1>4, RingFacts
<1>6. Onward(g, [Reach(killed, "compactSending") EXCEPT !.after = "top"])
  BY <1>2, <1>4, NoGoalAssumption DEF Onward, Reach, Running
<1>7. Onward(g, Evaluating(cleared))
  BY <1>5, EvaluatingOnward
<1>8. Onward(g, Over(Paused(cleared, "batchStagnation"))) /\ Onward(g, Completed(last))
  BY OverOnward DEF Completed
<1> HIDE DEF cleared, last
<1> QED
  BY <1>6, <1>7, <1>8 DEF Kill, n, killed, cleared, last

LEMMA LoopTopOnward ==
  ASSUME NEW g \in MaybeGoal
  PROVE  Onward(g, LoopTop(g, FALSE))
<1>1. CASE g = NoGoal
  BY <1>1 DEF Onward, Running
<1>2. CASE g # NoGoal
  <2>1. g \in Goal
    BY <1>2 DEF MaybeGoal
  <2>2. /\ Onward(g, Over(g)) /\ Onward(g, Over([g EXCEPT !.status = "blocked"]))
        /\ Onward(g, Evaluating(g)) /\ Onward(g, Kill(g, FALSE))
    BY <2>1, OverOnward, EvaluatingOnward, KillOnward
  <2> QED
    BY <2>2 DEF LoopTop
<1> QED
  BY <1>1, <1>2

LEMMA HaltedLoopTop ==
  ASSUME NEW g, NEW dead, Halted(g)
  PROVE  LoopTop(g, dead) = Over(g)
BY DEF Halted, LoopTop

LEMMA AfterCompactionOnward ==
  ASSUME NEW g \in MaybeGoal, NEW compacted \in BOOLEAN, NEW next
  PROVE  Onward(g, AfterCompaction(g, compacted, next, FALSE))
<1>1. CASE g = NoGoal
  BY <1>1 DEF Onward, Running
<1>2. CASE g # NoGoal
  <2>1. PICK poisoned \in BOOLEAN : poisoned = (next = "top")
    OBVIOUS
  <2>2. PICK f : f = Frontier(g, compacted, poisoned)
    OBVIOUS
  <2>3. f \in Goal /\ f.status = g.status
    BY <1>2, <2>2, FrontierType
  <2>4. Onward(f, LoopTop(f, FALSE)) /\ Onward(f, Continue(f, FALSE))
    BY <2>3, LoopTopOnward, ContinueOnward DEF MaybeGoal
  <2>5. Onward(g, LoopTop(f, FALSE)) /\ Onward(g, Continue(f, FALSE))
    BY <2>3, <2>4, NoGoalAssumption DEF Onward, Running
  <2>6. CASE next = "top"
    <3>1. f = Frontier(g, compacted, TRUE)
      BY <2>1, <2>2, <2>6
    <3> QED
      BY <2>5, <2>6, <3>1 DEF AfterCompaction
  <2>7. CASE next # "top"
    <3>1. f = Frontier(g, compacted, FALSE)
      BY <2>1, <2>2, <2>7
    <3> QED
      BY <2>5, <2>7, <3>1 DEF AfterCompaction
  <2> QED
    BY <2>6, <2>7
<1> QED
  BY <1>1, <1>2

LEMMA HaltedGoalError ==
  ASSUME NEW g \in MaybeGoal
  PROVE  Halted(GoalError(g)) /\ (Halted(g) => Halted(Thrown(g)))
<1>1. Halted(GoalError(g))
  BY PausedAlike DEF GoalError, Halted, Why, MaybeGoal, Paused, Write
<1> QED
  BY <1>1 DEF Thrown, Halted

LEMMA AfterErrorOnward ==
  ASSUME NEW g \in MaybeGoal, NEW s \in Goal
  PROVE  /\ Onward(g, AfterError(g, s))
         /\ Halted(g) => Halted(AfterError(g, s).goal)
         /\ AfterError(g, s).at \notin Between2
<1> DEFINE errs == IF s.errs < MaxErrors THEN s.errs + 1 ELSE s.errs
           new == Write(g, [g EXCEPT !.errs = errs])
           paused == Paused(new, "infraError")
<1>1. errs \in 0 .. MaxErrors
  BY ThresholdsAssumption DEF Goal
<1> HIDE DEF errs
<1>2. new \in MaybeGoal /\ (new = NoGoal <=> g = NoGoal) /\ (g # NoGoal => new.status = g.status)
  BY <1>1, ErrsAlike, NoGoalAssumption DEF MaybeGoal, Write
<1> HIDE DEF new
<1>3. paused \in MaybeGoal /\ Halted(paused)
  BY <1>2, PausedType, PausedAlike DEF Why, Halted, MaybeGoal, Paused, Write
<1> HIDE DEF paused
<1>4. Halted(Stamped(paused, "failed"))
  BY <1>3, StampedType DEF Halted, TaskStatus
<1>5. Onward(g, Over(Stamped(paused, "failed"))) /\ Over(Stamped(paused, "failed")).at = "over"
      /\ Over(Stamped(paused, "failed")).goal = Stamped(paused, "failed")
  BY OverOnward
<1>6. Onward(g, Reach(new, "sleeping")) /\ (Halted(g) => Halted(new))
      /\ Reach(new, "sleeping").goal = new /\ Reach(new, "sleeping").at = "sleeping"
  BY <1>2 DEF Onward, Reach, Running, Halted
<1>7. AfterError(g, s) \in {Over(Stamped(paused, "failed")), Reach(new, "sleeping")}
  BY DEF AfterError, errs, new, paused
<1> QED
  BY <1>4, <1>5, <1>6, <1>7 DEF Between2

(* The verdict on the goal s, applied to the goal g whose current task it was *)
(* asked about.                                                               *)
LEMMA AfterVerdictOrder ==
  ASSUME NEW g \in Goal, NEW s \in Goal, NEW decision \in Decision, NEW text \in Text,
         SameTask(s, g), Pointed(g), Clean(g)
  PROVE  /\ Tidy(AfterVerdict(g, s, decision, text))
         /\ Honest(g, AfterVerdict(g, s, decision, text).goal)
         /\ Onward(g, AfterVerdict(g, s, decision, text))
<1> DEFINE batch == s.tasks # <<>>
           rejected == decision = "complete" /\ batch /\ ~Proven(s)
           advances == decision = "complete" /\ batch /\ Proven(s) /\ s.idx < Len(s.tasks)
           print == IF rejected THEN <<"d1", s.idx>> ELSE <<decision, text>>
           errs == IF s.errs > 0 THEN 0 ELSE g.errs
           fresh == Write(g, [g EXCEPT !.errs = errs, !.read = TRUE])
           moved == IF advances THEN Advanced(fresh, s.idx, "done", 0) ELSE fresh
           noted == Write(moved, [moved EXCEPT !.ring = Pushed(@, print)])
           tasks == IF batch THEN [s.tasks EXCEPT ![s.idx] = "done"] ELSE noted.tasks
           failedRun == IF batch THEN 0 ELSE noted.failedRun
           final == Write(noted, [noted EXCEPT !.tasks = tasks, !.failedRun = failedRun])
<1>1. print \in Fingerprint
  <2>1. s.idx \in Nat
    BY DEF Goal
  <2> QED
    BY <2>1 DEF Fingerprint
<1>2. g # NoGoal
  BY NoGoalAssumption
<1>3. s.tasks = g.tasks /\ s.idx = g.idx /\ s.worked = g.worked /\ s.acted = g.acted
  BY DEF SameTask
<1>4. Proven(s) => g.worked /\ (g.idx \in Toolless \/ "turn" \in g.acted)
  BY <1>2, <1>3 DEF Proven, Clean, Goal
<1>5. /\ fresh \in Goal /\ fresh.tasks = g.tasks /\ fresh.idx = g.idx
      /\ fresh.acted = g.acted /\ fresh.read /\ fresh.status = g.status
      /\ fresh.by = g.by
  <2>1. errs \in 0 .. MaxErrors
    BY ThresholdsAssumption DEF Goal
  <2>2. fresh = [g EXCEPT !.errs = errs, !.read = TRUE]
    BY <1>2 DEF Write
  <2> HIDE DEF errs, fresh
  <2>3. fresh \in Goal
    BY <2>1, <2>2 DEF Goal
  <2>4. fresh.tasks = g.tasks /\ fresh.idx = g.idx /\ fresh.acted = g.acted /\ fresh.read
        /\ fresh.status = g.status /\ fresh.by = g.by
    BY <2>2 DEF Goal
  <2> QED
    BY <2>3, <2>4
<1> HIDE DEF print, errs, fresh
<1>6. fresh # NoGoal
  BY <1>5, NoGoalAssumption
<1>7. Pointed(fresh) /\ Clean(fresh)
  BY <1>2, <1>5 DEF Pointed, Clean
<1>8. /\ moved \in Goal
      /\ advances => Pointed(moved) /\ Between(moved)
      /\ ~advances => moved = fresh
      /\ moved.status = fresh.status
  <2>1. CASE advances
    <3>1. 0 \in 0 .. Stagnation
      BY ThresholdsAssumption
    <3>2. "done" \in TaskStatus /\ "done" \in Settled
      BY DEF TaskStatus, Settled
    <3>3. fresh.idx \in Nat
      BY <1>5 DEF Goal
    <3>4. moved = Advanced(fresh, fresh.idx, "done", 0)
      BY <2>1, <1>3, <1>5
    <3>5. fresh.idx < Len(fresh.tasks)
      BY <2>1, <1>3, <1>5
    <3> HIDE DEF moved
    <3>6. moved \in Goal /\ moved.status = fresh.status
      BY <1>5, <1>6, <3>1, <3>2, <3>3, <3>4, AdvancedType DEF MaybeGoal
    <3>7. Pointed(moved) /\ Between(moved)
      BY <1>5, <1>7, <3>1, <3>2, <3>4, <3>5, AdvancedOrder
    <3> QED
      BY <2>1, <3>6, <3>7
  <2>2. CASE ~advances
    BY <2>2, <1>5
  <2> QED
    BY <2>1, <2>2
<1>8a. Running(g) => Running(moved)
  BY <1>2, <1>5, <1>8, NoGoalAssumption DEF Running
<1>9. Honest(g, moved)
  <2>1. CASE advances
    <3>1. 0 \in 0 .. Stagnation
      BY ThresholdsAssumption
    <3>2. "done" \in TaskStatus
      BY DEF TaskStatus
    <3>3. PICK i, h : i \in Nat /\ i = s.idx /\ h = Advanced(fresh, i, "done", 0)
      BY DEF Goal
    <3>4. /\ h.by = fresh.by
          /\ \A k \in DOMAIN fresh.tasks :
               h.tasks[k] = IF k = i THEN "done" ELSE IF k = i + 1 THEN "active" ELSE fresh.tasks[k]
      <4>1. AdvancedPast(fresh, h, i, "done")
        BY <3>1, <3>2, <3>3, <1>5, AdvancedFacts
      <4> QED
        BY <4>1 DEF AdvancedPast
    <3>5. h = moved
      BY <2>1, <3>3
    <3> HIDE DEF moved
    <3>6. Proven(s)
      BY <2>1
    <3> QED
      BY <3>3, <3>4, <3>5, <3>6, <1>2, <1>3, <1>4, <1>5 DEF Honest
  <2>2. CASE ~advances
    <3>1. moved = fresh
      BY <2>2
    <3> QED
      BY <3>1, <1>2, <1>5 DEF Honest
  <2> QED
    BY <2>1, <2>2
<1> HIDE DEF moved
<1>10. /\ noted \in Goal /\ noted.tasks = moved.tasks /\ noted.idx = moved.idx
       /\ noted.acted = moved.acted /\ noted.read = moved.read
       /\ noted.compactionFailed = moved.compactionFailed
       /\ noted.status = moved.status /\ noted.why = moved.why /\ noted.by = moved.by
  <2>1. PICK ring : ring = Pushed(moved.ring, print)
    OBVIOUS
  <2>2. moved.ring \in [last: Fingerprint \cup {<<>>}, run: 0 .. LoopThreshold]
    BY <1>8 DEF Goal
  <2>3. ring \in [last: Fingerprint \cup {<<>>}, run: 0 .. LoopThreshold]
    BY <2>1, <2>2, <1>1, PushedType
  <2>4. noted = [moved EXCEPT !.ring = ring]
    BY <2>1, <1>8, NoGoalAssumption DEF Write
  <2> HIDE DEF noted
  <2>5. noted \in Goal
    BY <2>3, <2>4, <1>8, RingType
  <2>6. /\ noted.tasks = moved.tasks /\ noted.idx = moved.idx
        /\ noted.acted = moved.acted /\ noted.read = moved.read
        /\ noted.compactionFailed = moved.compactionFailed
        /\ noted.status = moved.status /\ noted.why = moved.why /\ noted.by = moved.by
    BY <2>4, <1>8 DEF Goal
  <2> QED
    BY <2>5, <2>6
<1>11. Honest(g, noted)
  BY <1>8, <1>9, <1>10, NoGoalAssumption DEF Honest
<1>12. noted # NoGoal /\ noted \in MaybeGoal
  BY <1>10, NoGoalAssumption DEF MaybeGoal
<1>12a. Running(g) => Running(noted)
  BY <1>8a, <1>10, <1>12 DEF Running
<1> HIDE DEF noted
<1>13. CASE advances
  <2>1. Pointed(noted) /\ Between(noted)
    BY <1>8, <1>10, <1>13, NoGoalAssumption DEF Pointed, Between
  <2>2. AfterVerdict(g, s, decision, text) = [Reach(noted, "compactSending") EXCEPT !.after = "continue"]
    BY <1>13 DEF AfterVerdict, print, errs, fresh, moved, noted
  <2>3. AfterVerdict(g, s, decision, text).goal = noted
    BY <2>2 DEF Reach
  <2>4. Tidy([Reach(noted, "compactSending") EXCEPT !.after = "continue"])
    BY <2>1, ReachTidy DEF Between2
  <2>5. Onward(g, AfterVerdict(g, s, decision, text))
    BY <2>3, <1>12a DEF Onward
  <2> QED
    BY <2>2, <2>3, <2>4, <2>5, <1>11
<1>14. CASE ~advances
  <2>1. /\ moved = fresh
        /\ noted.by = g.by /\ noted.tasks = g.tasks /\ noted.idx = g.idx /\ noted.acted = g.acted /\ noted.read
    BY <1>5, <1>8, <1>10, <1>14
  <2>2. Pointed(noted) /\ Clean(noted)
    BY <1>2, <2>1, <1>12 DEF Pointed, Clean
  <2> HIDE DEF rejected, advances
  <2>3. CASE decision = "complete" /\ ~rejected
    <3>1. /\ final \in Goal /\ final.idx = noted.idx /\ final.acted = noted.acted
          /\ final.read = noted.read /\ final.tasks = tasks
          /\ final.by = noted.by
      <4>1. tasks \in Seq(TaskStatus)
        <5>1. s.tasks \in Seq(TaskStatus) /\ noted.tasks \in Seq(TaskStatus)
          BY <1>10 DEF Goal
        <5>2. s.tasks \in [DOMAIN s.tasks -> TaskStatus]
          BY <5>1, ElementOfSeq, LenProperties
        <5>3. [s.tasks EXCEPT ![s.idx] = "done"] \in [DOMAIN s.tasks -> TaskStatus]
          BY <5>2 DEF TaskStatus
        <5>4. [s.tasks EXCEPT ![s.idx] = "done"] \in Seq(TaskStatus)
          BY <5>1, <5>3, SameLength
        <5> QED
          BY <5>1, <5>4
      <4>2. failedRun \in 0 .. Stagnation
        BY <1>10, ThresholdsAssumption DEF Goal
      <4>3. final = [noted EXCEPT !.tasks = tasks, !.failedRun = failedRun]
        BY <1>12 DEF Write
      <4> HIDE DEF tasks, failedRun, final
      <4>4. final \in Goal
        BY <1>10, <4>1, <4>2, <4>3 DEF Goal
      <4>5. /\ final.idx = noted.idx /\ final.acted = noted.acted
            /\ final.read = noted.read /\ final.tasks = tasks
            /\ final.by = noted.by
        BY <1>10, <4>3 DEF Goal
      <4> QED
        BY <4>4, <4>5
    <3>2. /\ DOMAIN tasks = DOMAIN g.tasks /\ (tasks = <<>> <=> g.tasks = <<>>)
          /\ \A k \in DOMAIN g.tasks : tasks[k] = IF k = g.idx THEN "done" ELSE g.tasks[k]
      <4>1. CASE batch
        <5>1. tasks = [g.tasks EXCEPT ![g.idx] = "done"]
          BY <4>1, <1>3
        <5>2. g.tasks \in Seq(TaskStatus) /\ g.tasks \in [DOMAIN g.tasks -> TaskStatus]
          BY ElementOfSeq, LenProperties DEF Goal
        <5> HIDE DEF tasks
        <5>3. tasks \in [DOMAIN g.tasks -> TaskStatus]
              /\ \A k \in DOMAIN g.tasks : tasks[k] = IF k = g.idx THEN "done" ELSE g.tasks[k]
          BY <5>1, <5>2 DEF TaskStatus
        <5>4. DOMAIN tasks = DOMAIN g.tasks /\ (tasks = <<>> <=> g.tasks = <<>>)
          BY <5>2, <5>3, SameLength
        <5> QED
          BY <5>3, <5>4
      <4>2. CASE ~batch
        <5>1. tasks = g.tasks /\ g.tasks = <<>>
          BY <4>2, <1>3, <2>1
        <5>2. DOMAIN g.tasks = {}
          BY <5>1
        <5> QED
          BY <5>1, <5>2
      <4> QED
        BY <4>1, <4>2
    <3>3. batch => Proven(s)
      BY <2>3 DEF rejected
    <3>4. batch <=> g.tasks # <<>>
      BY <1>3
    <3> HIDE DEF final, tasks, batch
    <3>5. g.idx \in Nat /\ DOMAIN g.tasks \subseteq Nat
      BY LenProperties DEF Goal
    <3>6. final # NoGoal
      BY <3>1, NoGoalAssumption
    <3>7. Pointed(final) /\ Clean(final)
      <4>1. Clean(final)
        BY <2>1, <2>2, <3>1, <1>12 DEF Clean
      <4>2. final.tasks # <<>> => final.idx \in DOMAIN final.tasks
        BY <3>1, <3>2, <2>1, <1>2 DEF Pointed
      <4>3. \A i \in DOMAIN g.tasks :
              /\ i < g.idx => g.tasks[i] \in {"done", "failed"}
              /\ i > g.idx => g.tasks[i] = "pending"
        BY <1>2 DEF Pointed
      <4>4. ASSUME NEW i \in DOMAIN final.tasks
            PROVE  /\ i < final.idx => final.tasks[i] \in {"done", "failed"}
                   /\ i > final.idx => final.tasks[i] = "pending"
                   /\ i = final.idx => final.tasks[i] # "pending"
        BY <4>3, <4>4, <3>1, <3>2, <3>5, <2>1
      <4> QED
        BY <4>1, <4>2, <4>4 DEF Pointed
    <3>8. PICK h : h = [final EXCEPT !.status = "completed"]
      OBVIOUS
    <3>9. h.tasks = final.tasks /\ h.by = final.by
      BY <3>1, <3>8, StatusAlike DEF Alike
    <3>10. Completed(final).goal = h
      BY <3>6, <3>8 DEF Completed, Over, Reach, Write
    <3>11. \A i \in DOMAIN g.tasks : g.tasks # <<>>
      OBVIOUS
    <3>12. Honest(g, h)
      BY <2>1, <3>1, <3>2, <3>3, <3>4, <3>9, <3>11, <1>2, <1>4 DEF Honest
    <3>13. Tidy(Completed(final))
      BY <3>1, <3>7, CompletedTidy DEF MaybeGoal
    <3>14. AfterVerdict(g, s, decision, text) = Completed(final)
      BY <1>14, <2>3
      DEF AfterVerdict, print, errs, fresh, moved, noted, rejected, advances, tasks, failedRun,
          final, batch
    <3>15. Onward(g, Completed(final))
      BY OverOnward DEF Completed
    <3> QED
      BY <3>10, <3>12, <3>13, <3>14, <3>15
  <2>4. ASSUME NEW why \in {"needsUser", "unsafe"}, NEW outcome \in TaskStatus,
               outcome \in {"blocked", "failed"}
        PROVE  /\ Tidy(Over(Stamped(Paused(noted, why), outcome)))
               /\ Honest(g, Over(Stamped(Paused(noted, why), outcome)).goal)
               /\ Onward(g, Over(Stamped(Paused(noted, why), outcome)))
    <3>1. PICK p : p = Paused(noted, why)
      OBVIOUS
    <3>2. p \in Goal /\ Alike(noted, p) /\ p.status = "paused" /\ p.why = why
      BY <3>1, <1>10, PausedAlike DEF Why
    <3>3. Pointed(p) /\ Clean(p)
      BY <2>2, <3>2, AlikeOrder
    <3>4. PICK h : h = Stamped(p, outcome)
      OBVIOUS
    <3>5. outcome # "pending" /\ outcome # "done"
      BY <2>4
    <3>6. Pointed(h) /\ Clean(h)
      BY <3>2, <3>3, <3>4, <3>5, StampedOrder
    <3>7. /\ h.by = p.by /\ h.status = p.status /\ h.why = p.why
          /\ \A k \in DOMAIN p.tasks : h.tasks[k] = IF k = p.idx THEN outcome ELSE p.tasks[k]
      BY <3>2, <3>4, StampedFacts
    <3>8. p.tasks = g.tasks /\ p.by = g.by
      BY <2>1, <3>2 DEF Alike
    <3>9. Honest(g, h)
      BY <1>2, <2>4, <3>2, <3>5, <3>7, <3>8 DEF Honest
    <3>10. Tidy(Over(h)) /\ Over(h).goal = h
      BY <3>6, OverTidy DEF Over, Reach
    <3> QED
      BY <3>1, <3>4, <3>9, <3>10, OverOnward
  <2>5. Tidy(Continue(noted, FALSE)) /\ Honest(g, Continue(noted, FALSE).goal)
        /\ Onward(g, Continue(noted, FALSE))
    <3>1. Tidy(Continue(noted, FALSE))
      BY <2>2, <1>12, ContinueTidy
    <3>2. SameTasks(noted, Continue(noted, FALSE).goal)
      BY <1>12, ContinueSameTasks
    <3>3. SameTasks(g, Continue(noted, FALSE).goal)
      BY <3>2, <2>1, <1>2, <1>12 DEF SameTasks
    <3> QED
      BY <3>1, <3>3, SameTasksHonest, <1>12, <1>12a, ContinueOnward DEF Onward
  <2>6. CASE ~(decision = "complete" /\ ~rejected)
    <3>1. PICK o : o = AfterVerdict(g, s, decision, text)
      OBVIOUS
    <3>2. "blocked" \in TaskStatus /\ "failed" \in TaskStatus
      BY DEF TaskStatus
    <3>3. o \in {Over(Stamped(Paused(noted, "needsUser"), "blocked")),
                 Over(Stamped(Paused(noted, "unsafe"), "failed")),
                 Continue(noted, FALSE)}
      BY <1>14, <2>6, <3>1
      DEF AfterVerdict, print, errs, fresh, moved, noted, rejected, advances
    <3> QED
      BY <2>4, <2>5, <3>1, <3>2, <3>3
  <2> QED
    BY <2>3, <2>6
<1> QED
  BY <1>13, <1>14

-----------------------------------------------------------------------------
(* Loops that nobody disturbs stay in order.                                  *)

(* LoopsFitGoal, loop by loop.                                                *)
EachFits ==
  ~disturbed =>
    /\ \A c \in Cycle : Live(c) => c = abortRef
    /\ Running(goal) => abortRef \notin aborted /\ abortRef \in Cycle /\ Live(abortRef)
    /\ (goal # NoGoal /\ goal.status \in {"completed", "blocked"}) =>
         \A c \in Cycle : ~Live(c)
    /\ ~Running(goal) => \A c \in Cycle : Live(c) => c \in aborted

LEMMA FitByLoop == LoopsFitGoal <=> EachFits
<1> DEFINE live == {c \in Cycle : Live(c)}
<1>1. LoopsFitGoal <=>
        (~disturbed =>
          /\ Running(goal) => abortRef \notin aborted /\ live = {abortRef}
          /\ (goal # NoGoal /\ goal.status \in {"completed", "blocked"}) => live = {}
          /\ live \subseteq {abortRef}
          /\ ~Running(goal) => live \subseteq aborted)
  BY DEF LoopsFitGoal
<1>2. live \subseteq {abortRef} <=> \A c \in Cycle : Live(c) => c = abortRef
  OBVIOUS
<1>3. live = {} <=> \A c \in Cycle : ~Live(c)
  OBVIOUS
<1>4. live \subseteq aborted <=> \A c \in Cycle : Live(c) => c \in aborted
  OBVIOUS
<1>5. live = {abortRef} <=>
        abortRef \in Cycle /\ Live(abortRef) /\ \A c \in Cycle : Live(c) => c = abortRef
  OBVIOUS
<1> HIDE DEF live
<1> QED
  BY <1>1, <1>2, <1>3, <1>4, <1>5, Zenon DEF EachFits

(* An undisturbed live loop is alone with its goal.                           *)
LEMMA Lone ==
  ASSUME TypeOK, OrderInv, ~disturbed, NEW c \in Cycle, Live(c)
  PROVE  /\ c = abortRef /\ \A e \in Cycle : Live(e) => e = c
         /\ c \notin aborted => Running(goal)
         /\ c \in aborted => Halted(goal)
         /\ Pointed(goal)
         /\ ~Compacting(c) => Clean(goal)
         /\ Compacting(c) => Between(goal) /\ c \notin aborted
<1>1. /\ \A e \in Cycle : Live(e) => e = abortRef
      /\ Running(goal) => abortRef \notin aborted
      /\ (goal # NoGoal /\ goal.status \in {"completed", "blocked"}) =>
           \A e \in Cycle : ~Live(e)
      /\ ~Running(goal) => \A e \in Cycle : Live(e) => e \in aborted
  BY FitByLoop DEF OrderInv, EachFits
<1>2. c = abortRef /\ \A e \in Cycle : Live(e) => e = c
  BY <1>1
<1>3. c \notin aborted => Running(goal)
  BY <1>1
<1>4. c \in aborted => Halted(goal)
  <2>1. ASSUME c \in aborted
        PROVE  Halted(goal)
    <3>1. ~Running(goal)
      BY <1>1, <1>2, <2>1
    <3>2. ~(goal # NoGoal /\ goal.status \in {"completed", "blocked"})
      BY <1>1
    <3>3. goal # NoGoal => goal.status \in {"active", "evaluating", "continuing", "paused", "blocked", "completed"}
      BY DEF TypeOK, Goal
    <3> QED
      BY <3>1, <3>2, <3>3 DEF Running, Halted
  <2> QED
    BY <2>1
<1>5. ~Compacting(c) => Quiescent
  BY <1>2 DEF Quiescent, Compacting, Live
<1> QED
  BY <1>2, <1>3, <1>4, <1>5 DEF OrderInv

(* What the step of loop c has to leave of the goal and the loop.             *)
InOrder(c, o) ==
  /\ Tidy(o)
  /\ c \notin aborted => (o.at # "over" => Running(o.goal))
  /\ c \in aborted => Halted(o.goal) /\ o.at \notin Between2

LEMMA TakeOrder ==
  ASSUME BaseInv, OrderInv, NEW c \in Cycle, Live(c), NEW o, Good(o), Take(c, o),
         UNCHANGED <<aborted, abortRef, disturbed>>,
         ~disturbed => InOrder(c, o),
         work[c] = "compact" => o.at = "compacting" \/ at[c] = "compacting"
  PROVE  OrderInv'
<1>1. SUFFICES ASSUME ~disturbed
               PROVE  OrderInv'
  BY DEF OrderInv
<1>2. /\ c = abortRef /\ \A e \in Cycle : Live(e) => e = c
      /\ c \notin aborted => Running(goal)
      /\ c \in aborted => Halted(goal)
  BY <1>1, Lone DEF BaseInv
<1>3. /\ goal' = o.goal
      /\ at' = [at EXCEPT ![c] = o.at]
      /\ snap' = [snap EXCEPT ![c] = o.snap]
      /\ work' = [work EXCEPT ![c] = CASE o.at \in {"sending", "compactSending"} -> "none"
                                       [] at[c] \in {"turn", "compacting"} -> "none"
                                       [] OTHER -> @]
      /\ aborted' = aborted /\ abortRef' = abortRef /\ disturbed' = disturbed
  BY DEF Take
<1>4. DOMAIN at = Cycle /\ DOMAIN snap = Cycle /\ DOMAIN work = Cycle
  BY DEF BaseInv, TypeOK
<1>5. /\ at'[c] = o.at /\ snap'[c] = o.snap
      /\ \A e \in Cycle : e # c => at'[e] = at[e] /\ snap'[e] = snap[e] /\ work'[e] = work[e]
  BY <1>3, <1>4
<1>6. work'[c] = "compact" => o.at = "compacting"
  BY <1>3, <1>4
<1>7. ASSUME NEW e \in Cycle, e # c
      PROVE  ~Live(e)' /\ ~Compacting(e)' /\ work'[e] # "compact" /\ at'[e] # "evaluating"
  <2>1. ~Live(e)
    BY <1>2, <1>7
  <2>2. work[e] # "compact"
    BY <1>1, <2>1 DEF OrderInv, Compacting, Live
  <2> QED
    BY <1>5, <1>7, <2>1, <2>2 DEF Live, Compacting
<1>8. InOrder(c, o)
  BY <1>1
<1>9. LoopsFitGoal'
  <2>1. \A e \in Cycle : Live(e)' => e = c
    BY <1>7
  <2>2. Live(c)' <=> o.at # "over"
    BY <1>5 DEF Live, Good
  <2>3. o.at = "over" => ~Running(o.goal)
    BY DEF Good
  <2>4. Halted(o.goal) => ~Running(o.goal) /\ (o.goal # NoGoal => o.goal.status \notin {"completed", "blocked"})
    BY DEF Halted, Running
  <2>5. Running(o.goal) => o.goal.status \notin {"completed", "blocked"}
    BY DEF Running
  <2>6. Running(goal)' <=> Running(o.goal)
    BY <1>3 DEF Running
  <2>7. EachFits'
    <3>1. \A e \in Cycle : Live(e)' => e = abortRef'
      BY <1>2, <1>3, <2>1
    <3>2. Running(goal)' => abortRef' \notin aborted' /\ abortRef' \in Cycle /\ Live(abortRef)'
      <4>1. Running(o.goal) => c \notin aborted /\ Live(c)'
        BY <1>8, <2>2, <2>3, <2>4 DEF InOrder
      <4>2. Live(abortRef)' <=> Live(c)'
        BY <1>2, <1>3 DEF Live
      <4> QED
        BY <4>1, <4>2, <2>6, <1>2, <1>3
    <3>3. (goal' # NoGoal /\ goal'.status \in {"completed", "blocked"}) =>
               \A e \in Cycle : ~Live(e)'
      BY <1>3, <1>8, <2>1, <2>2, <2>4, <2>5 DEF InOrder
    <3>4. ~Running(goal)' => \A e \in Cycle : Live(e)' => e \in aborted'
      BY <1>3, <1>8, <2>1, <2>2, <2>6 DEF InOrder
    <3> QED
      BY <3>1, <3>2, <3>3, <3>4 DEF EachFits, Live, Running
  <2> QED
    BY <2>7, FitByLoop, PTL
<1>10. Pointed(goal')
  BY <1>3, <1>8 DEF InOrder, Tidy
<1>11. Quiescent' => Clean(goal')
  BY <1>3, <1>5, <1>8 DEF InOrder, Tidy, Quiescent, Compacting, Between2
<1>12. ASSUME NEW e \in Cycle
       PROVE  /\ Compacting(e)' => Between(goal') /\ e \notin aborted'
              /\ work'[e] = "compact" => Compacting(e)'
              /\ at'[e] = "evaluating" /\ e \notin aborted' => SameTask(snap'[e], goal')
  <2>1. CASE e = c
    BY <2>1, <1>3, <1>5, <1>6, <1>8 DEF InOrder, Tidy, Compacting, Between2
  <2>2. CASE e # c
    BY <2>2, <1>7
  <2> QED
    BY <2>1, <2>2
<1> QED
  BY <1>9, <1>10, <1>11, <1>12 DEF OrderInv, Pointed, Clean, Between, SameTask

LEMMA WorkOrder ==
  ASSUME BaseInv, OrderInv, NEW c \in Cycle, NEW w, work' = [work EXCEPT ![c] = w],
         w = "compact" => Compacting(c),
         UNCHANGED <<goal, loops, aborted, abortRef, waiters, disturbed>>
  PROVE  OrderInv'
<1>1. SUFFICES ASSUME ~disturbed
               PROVE  OrderInv'
  BY DEF OrderInv
<1>2. UNCHANGED <<goal, at, snap, aborted, abortRef, disturbed>>
  BY DEF loops
<1>3. EachFits'
  BY <1>2, FitByLoop DEF OrderInv, EachFits, Live, Running
<1>4. LoopsFitGoal'
  BY <1>3, FitByLoop, PTL
<1>5. \A e \in Cycle : work'[e] = "compact" => Compacting(e)
  BY <1>1 DEF OrderInv, BaseInv, TypeOK
<1> QED
  BY <1>1, <1>2, <1>4, <1>5
  DEF OrderInv, Quiescent, Compacting, Pointed, Clean, Between, SameTask

(* Goal h is g after an activity was noticed in it.                           *)
Seen(g, h, who) ==
  /\ h = NoGoal <=> g = NoGoal
  /\ g # NoGoal =>
       /\ h.by = g.by /\ h.tasks = g.tasks /\ h.idx = g.idx /\ h.worked = g.worked
       /\ h.ring = g.ring /\ h.read = g.read /\ h.status = g.status
       /\ h.compactionFailed = g.compactionFailed
       /\ h.acted = IF g.tasks = <<>> THEN g.acted ELSE g.acted \cup {who}

LEMMA NoticedFacts ==
  ASSUME NEW g \in MaybeGoal, NEW who \in {"turn", "compact"}, NEW h, h = Noticed(g, who)
  PROVE  Seen(g, h, who)
<1>1. CASE g = NoGoal
  BY <1>1 DEF Noticed, Seen
<1>2. CASE g \in Goal
  <2>1. CASE g.tasks = <<>>
    BY <1>2, <2>1, NoGoalAssumption DEF Noticed, Seen
  <2>2. CASE g.tasks # <<>>
    <3>1. PICK acts : acts = g.acted \cup {who}
      OBVIOUS
    <3>2. acts \in SUBSET {"turn", "compact"}
      BY <3>1, <1>2 DEF Goal
    <3>3. h = [g EXCEPT !.acted = acts] /\ g # NoGoal
      BY <1>2, <2>2, <3>1, NoGoalAssumption DEF Noticed
    <3>4. h \in Goal
      BY <1>2, <3>2, <3>3 DEF Goal
    <3>5. /\ h.by = g.by /\ h.tasks = g.tasks /\ h.idx = g.idx /\ h.worked = g.worked
          /\ h.ring = g.ring /\ h.read = g.read /\ h.status = g.status
          /\ h.compactionFailed = g.compactionFailed /\ h.acted = acts
      BY <1>2, <3>3 DEF Goal
    <3> QED
      BY <2>2, <3>1, <3>3, <3>4, <3>5, NoGoalAssumption DEF Seen
  <2> QED
    BY <2>1, <2>2
<1> QED
  BY <1>1, <1>2 DEF MaybeGoal

LEMMA NoticedOrder ==
  ASSUME NEW g \in MaybeGoal, NEW who \in {"turn", "compact"}
  PROVE  /\ Pointed(g) => Pointed(Noticed(g, who))
         /\ Clean(g) /\ who = "turn" => Clean(Noticed(g, who))
         /\ Between(g) => Between(Noticed(g, who))
         /\ \A s \in MaybeGoal : SameTask(s, g) => SameTask(Noticed(s, who), Noticed(g, who))
<1>1. PICK h : h = Noticed(g, who)
  OBVIOUS
<1>2. /\ h = NoGoal <=> g = NoGoal
      /\ g # NoGoal =>
           /\ h.tasks = g.tasks /\ h.idx = g.idx /\ h.worked = g.worked
           /\ h.ring = g.ring /\ h.read = g.read
           /\ h.compactionFailed = g.compactionFailed
           /\ h.acted = IF g.tasks = <<>> THEN g.acted ELSE g.acted \cup {who}
  <2>1. Seen(g, h, who)
    BY <1>1, NoticedFacts
  <2> QED
    BY <2>1 DEF Seen
<1>3. Pointed(g) => Pointed(h)
  BY <1>2 DEF Pointed
<1>4. Clean(g) /\ who = "turn" => Clean(h)
  BY <1>2 DEF Clean
<1>5. Between(g) => Between(h)
  BY <1>2 DEF Between
<1>6. ASSUME NEW s \in MaybeGoal, SameTask(s, g)
      PROVE  SameTask(Noticed(s, who), h)
  <2>1. PICK t : t = Noticed(s, who)
    OBVIOUS
  <2>2. /\ t = NoGoal <=> s = NoGoal
        /\ s # NoGoal =>
             /\ t.tasks = s.tasks /\ t.idx = s.idx /\ t.worked = s.worked
             /\ t.acted = IF s.tasks = <<>> THEN s.acted ELSE s.acted \cup {who}
    <3>1. Seen(s, t, who)
      BY <2>1, NoticedFacts
    <3> QED
      BY <3>1 DEF Seen
  <2>3. SameTask(t, h)
    BY <1>2, <1>6, <2>2 DEF SameTask
  <2> QED
    BY <2>1, <2>3
<1> QED
  BY <1>1, <1>3, <1>4, <1>5, <1>6

LEMMA ActOrder ==
  ASSUME BaseInv, OrderInv, NEW c \in Cycle, Act(c)
  PROVE  OrderInv'
<1>1. SUFFICES ASSUME ~disturbed
               PROVE  OrderInv'
  BY DEF Act, OrderInv
<1>2. PICK who \in {"turn", "compact"} : who = work[c]
  BY DEF Act
<1>3. /\ goal' = Noticed(goal, who) /\ snap' = [d \in Cycle |-> Noticed(snap[d], who)]
      /\ UNCHANGED <<at, aborted, abortRef, work, disturbed>>
  BY <1>2 DEF Act
<1>4. goal \in MaybeGoal /\ \A d \in Cycle : snap[d] \in MaybeGoal
  BY DEF BaseInv, TypeOK, MaybeGoal
<1>5. /\ Pointed(goal) => Pointed(goal')
      /\ Clean(goal) /\ who = "turn" => Clean(goal')
      /\ Between(goal) => Between(goal')
      /\ \A s \in MaybeGoal : SameTask(s, goal) => SameTask(Noticed(s, who), goal')
  BY <1>3, <1>4, NoticedOrder
<1>6. who = "compact" => ~Quiescent
  BY <1>1, <1>2 DEF OrderInv, Quiescent
<1>7. (goal' = NoGoal <=> goal = NoGoal) /\ (goal # NoGoal => goal'.status = goal.status)
  <2>1. Seen(goal, goal', who)
    BY <1>3, <1>4, NoticedFacts
  <2> QED
    BY <2>1 DEF Seen
<1>8. EachFits'
  BY <1>3, <1>7, FitByLoop DEF OrderInv, EachFits, Live, Running
<1>9. LoopsFitGoal'
  BY <1>8, FitByLoop, PTL
<1>10. Quiescent' => Clean(goal')
  BY <1>1, <1>3, <1>5, <1>6 DEF OrderInv, Quiescent, Compacting
<1>11. ASSUME NEW e \in Cycle
       PROVE  /\ Compacting(e)' => Between(goal') /\ e \notin aborted'
              /\ work'[e] = "compact" => Compacting(e)'
              /\ at'[e] = "evaluating" /\ e \notin aborted' => SameTask(snap'[e], goal')
  <2>1. /\ Compacting(e) => Between(goal) /\ e \notin aborted
        /\ work[e] = "compact" => Compacting(e)
        /\ at[e] = "evaluating" /\ e \notin aborted => SameTask(snap[e], goal)
    BY <1>1 DEF OrderInv
  <2>2. SameTask(snap[e], goal) => SameTask(snap'[e], goal')
    BY <1>3, <1>4, <1>5
  <2> QED
    BY <2>1, <2>2, <1>3, <1>5 DEF Compacting
<1>12. Pointed(goal')
  BY <1>1, <1>5 DEF OrderInv
<1> QED
  BY <1>9, <1>10, <1>11, <1>12 DEF OrderInv, Pointed, Clean, Between, SameTask

LEMMA TruthValue ==
  ASSUME NEW a, NEW S
  PROVE  \E b \in BOOLEAN : b = (a \in S)
<1>1. CASE a \in S
  <2>1. TRUE \in BOOLEAN /\ TRUE = (a \in S)
    BY <1>1
  <2> QED
    BY <2>1
<1>2. CASE a \notin S
  <2>1. FALSE \in BOOLEAN /\ FALSE = (a \in S)
    BY <1>2
  <2> QED
    BY <2>1
<1> QED
  BY <1>1, <1>2

LEMMA LoopOrder ==
  ASSUME BaseInv, OrderInv, NEW c \in Cycle, LoopStep(c)
  PROVE  OrderInv'
<1>1. /\ goal \in MaybeGoal
      /\ snap[c] \in MaybeGoal
      /\ at[c] = "evaluating" => snap[c] \in Goal
      /\ turnWaiter = c => at[c] = "turn" /\ c \notin aborted
      /\ compactWaiter = c => at[c] = "compacting" /\ c \notin aborted
  BY NoCycleAssumption DEF BaseInv, TypeOK, WaitInv, SnapInv, MaybeGoal
<1>2. ASSUME ~disturbed, Live(c)
      PROVE  /\ c \notin aborted => Running(goal)
             /\ c \in aborted => Halted(goal)
             /\ Pointed(goal)
             /\ ~Compacting(c) => Clean(goal)
             /\ Compacting(c) => Between(goal) /\ c \notin aborted
             /\ work[c] = "compact" => Compacting(c)
             /\ at[c] = "evaluating" /\ c \notin aborted => SameTask(snap[c], goal)
  BY <1>2, Lone DEF BaseInv, OrderInv
<1>3. ASSUME NEW o, Good(o), Tidy(o), Onward(goal, o), ~disturbed, Live(c), c \notin aborted
      PROVE  InOrder(c, o)
  BY <1>2, <1>3 DEF InOrder, Onward
<1>4. ASSUME NEW h, ~disturbed, c \in aborted => Halted(h), Pointed(h), Clean(h)
      PROVE  InOrder(c, Over(h))
  BY <1>4, OverTidy, OverOnward DEF InOrder, Between2
<1>5. CASE Evaluated(c)
  <2>1. PICK decision \in Decision, text \in Text : Take(c, AfterVerdict(goal, snap[c], decision, text))
    BY <1>5 DEF Evaluated
  <2>2. PICK o : o = AfterVerdict(goal, snap[c], decision, text)
    OBVIOUS
  <2>3. at[c] = "evaluating" /\ c \notin aborted /\ Live(c) /\ ~Compacting(c)
        /\ UNCHANGED <<aborted, abortRef, disturbed>>
    BY <1>5 DEF Evaluated, Live, Compacting
  <2>4. Good(o)
    BY <1>1, <2>2, <2>3, AfterVerdictGood
  <2>5. ASSUME ~disturbed
        PROVE  InOrder(c, o) /\ work[c] # "compact"
    <3>1. SameTask(snap[c], goal) /\ Pointed(goal) /\ Clean(goal) /\ work[c] # "compact"
      BY <1>2, <2>3, <2>5
    <3>2. goal \in Goal
      BY <1>1, <3>1 DEF SameTask, MaybeGoal
    <3>3. Tidy(o) /\ Onward(goal, o)
      BY <1>1, <2>2, <2>3, <3>1, <3>2, AfterVerdictOrder
    <3> QED
      BY <1>3, <2>3, <2>4, <2>5, <3>1, <3>3
  <2>6. CASE disturbed
    BY <2>3, <2>6 DEF OrderInv
  <2>7. CASE ~disturbed
    BY <2>1, <2>2, <2>3, <2>4, <2>5, <2>7, TakeOrder
  <2> QED
    BY <2>6, <2>7
<1>6. CASE EvaluationFails(c)
  <2>1. PICK o : o = AfterError(goal, snap[c])
    OBVIOUS
  <2>2. at[c] = "evaluating" /\ Live(c) /\ ~Compacting(c) /\ Take(c, o)
        /\ UNCHANGED <<aborted, abortRef, disturbed>>
    BY <1>6, <2>1 DEF EvaluationFails, Live, Compacting
  <2>3. Good(o)
    BY <1>1, <2>1, <2>2, AfterErrorGood
  <2>4. ASSUME ~disturbed
        PROVE  InOrder(c, o) /\ work[c] # "compact"
    <3>1. /\ Pointed(goal) /\ Clean(goal) /\ work[c] # "compact"
          /\ c \notin aborted => Running(goal)
          /\ c \in aborted => Halted(goal)
      BY <1>2, <2>2, <2>4
    <3>2. Tidy(o)
      BY <1>1, <2>1, <2>2, <3>1, AfterErrorTidy
    <3>3. Onward(goal, o) /\ (Halted(goal) => Halted(o.goal)) /\ o.at \notin Between2
      BY <1>1, <2>1, <2>2, AfterErrorOnward
    <3> QED
      BY <3>1, <3>2, <3>3 DEF InOrder, Onward
  <2>5. CASE disturbed
    BY <2>2, <2>5 DEF OrderInv
  <2>6. CASE ~disturbed
    BY <2>2, <2>3, <2>4, <2>6, TakeOrder
  <2> QED
    BY <2>5, <2>6
<1>7. CASE Wake(c)
  <2>1. PICK dead \in BOOLEAN : dead = (c \in aborted)
    BY TruthValue
  <2>2. PICK o : o = LoopTop(goal, dead)
    OBVIOUS
  <2>3. o = LoopTop(goal, c \in aborted)
    BY <2>1, <2>2, Zenon
  <2>4. at[c] = "sleeping" /\ Live(c) /\ ~Compacting(c) /\ Take(c, o)
        /\ UNCHANGED <<aborted, abortRef, disturbed>>
    BY <1>7, <2>3 DEF Wake, Live, Compacting
  <2>5. Good(o)
    BY <1>1, <2>2, LoopTopGood
  <2>6. ASSUME ~disturbed
        PROVE  InOrder(c, o) /\ work[c] # "compact"
    <3>1. /\ Pointed(goal) /\ Clean(goal) /\ work[c] # "compact"
          /\ c \in aborted => Halted(goal)
      BY <1>2, <2>4, <2>6
    <3>2. CASE c \in aborted
      <4>1. o = Over(goal)
        BY <2>2, <3>1, <3>2, HaltedLoopTop
      <4> QED
        BY <1>4, <2>6, <3>1, <4>1
    <3>3. CASE c \notin aborted
      <4>1. o = LoopTop(goal, FALSE)
        BY <2>1, <2>2, <3>3
      <4>2. Tidy(o) /\ Onward(goal, o)
        BY <1>1, <3>1, <4>1, LoopTopTidy, LoopTopOnward
      <4> QED
        BY <1>3, <2>4, <2>5, <2>6, <3>1, <3>3, <4>2
    <3> QED
      BY <3>2, <3>3
  <2>7. CASE disturbed
    BY <2>4, <2>7 DEF OrderInv
  <2>8. CASE ~disturbed
    BY <2>4, <2>5, <2>6, <2>8, TakeOrder
  <2> QED
    BY <2>7, <2>8
<1>8. CASE Send(c)
  <2>1. PICK w : /\ w = IF at[c] = "sending" THEN "turn" ELSE "compact"
                 /\ work' = [work EXCEPT ![c] = w]
    BY <1>8 DEF Send
  <2>2. w = "compact" => Compacting(c)
    BY <1>8, <2>1 DEF Send, Compacting
  <2> QED
    BY <1>8, <2>1, <2>2, WorkOrder DEF Send
<1>9. ASSUME NEW next, NEW compacted \in BOOLEAN, ~disturbed, Live(c), Compacting(c)
      PROVE  InOrder(c, AfterCompaction(goal, compacted, next, FALSE)) /\ c \notin aborted
  <2>1. Pointed(goal) /\ Between(goal) /\ c \notin aborted
    BY <1>2, <1>9
  <2>2. PICK o : o = AfterCompaction(goal, compacted, next, FALSE)
    OBVIOUS
  <2>3. Good(o) /\ Tidy(o) /\ Onward(goal, o)
    BY <1>1, <2>1, <2>2, AfterCompactionGood, AfterCompactionTidy, AfterCompactionOnward
  <2> QED
    BY <1>3, <1>9, <2>1, <2>2, <2>3
<1>10. CASE SendFails(c)
  <2>1. Live(c) /\ work[c] = "none" /\ UNCHANGED <<aborted, abortRef, disturbed>>
    BY <1>10 DEF SendFails, Live
  <2>2. CASE disturbed
    BY <2>1, <2>2 DEF OrderInv
  <2>3. CASE ~disturbed /\ at[c] = "sending"
    <3>1. Take(c, Over(Thrown(goal))) /\ ~Compacting(c)
      BY <1>10, <2>3 DEF SendFails, Compacting
    <3>2. Good(Over(Thrown(goal)))
      BY <1>1, GoalErrorType, OverGood
    <3>3. InOrder(c, Over(Thrown(goal)))
      BY <1>1, <1>2, <1>4, <2>1, <2>3, <3>1, GoalErrorOrder, HaltedGoalError
    <3> QED
      BY <2>1, <2>3, <3>1, <3>2, <3>3, TakeOrder
  <2>4. CASE ~disturbed /\ at[c] = "compactSending"
    <3>1. Compacting(c)
      BY <2>4 DEF Compacting
    <3>2. InOrder(c, AfterCompaction(goal, FALSE, after[c], FALSE)) /\ c \notin aborted
      BY <1>9, <2>1, <2>4, <3>1
    <3>3. PICK dead \in BOOLEAN : dead = (c \in aborted)
      BY TruthValue
    <3>4. PICK o : o = AfterCompaction(goal, FALSE, after[c], dead)
      OBVIOUS
    <3>5. o = AfterCompaction(goal, FALSE, after[c], c \in aborted)
      BY <3>3, <3>4, Zenon
    <3>6. o = AfterCompaction(goal, FALSE, after[c], FALSE)
      BY <3>2, <3>3, <3>4
    <3>7. Take(c, o)
      BY <1>10, <2>4, <3>5 DEF SendFails
    <3>8. Good(o)
      BY <1>1, <3>6, AfterCompactionGood
    <3> QED
      BY <2>1, <2>4, <3>2, <3>6, <3>7, <3>8, TakeOrder
  <2> QED
    BY <1>10, <2>2, <2>3, <2>4 DEF SendFails
<1>11. CASE TurnSent(c)
  <2>1. Live(c) /\ at[c] = "sending" /\ ~Compacting(c)
        /\ UNCHANGED <<aborted, abortRef, disturbed>>
    BY <1>11 DEF TurnSent, Live, Compacting
  <2>2. CASE disturbed
    BY <2>1, <2>2 DEF OrderInv
  <2>3. CASE ~disturbed /\ c \in aborted
    <3>1. Take(c, Over(GoalError(goal)))
      BY <1>11, <2>3 DEF TurnSent
    <3>2. Good(Over(GoalError(goal)))
      BY <1>1, GoalErrorType, OverGood
    <3>3. InOrder(c, Over(GoalError(goal))) /\ work[c] # "compact"
      BY <1>1, <1>2, <1>4, <2>1, <2>3, GoalErrorOrder, HaltedGoalError
    <3> QED
      BY <2>1, <3>1, <3>2, <3>3, TakeOrder
  <2>4. CASE ~disturbed /\ c \notin aborted
    <3>1. PICK g : g = Write(goal, [goal EXCEPT !.worked = goal.tasks # <<>>])
      OBVIOUS
    <3>2. Take(c, Reach(g, "turn"))
      BY <1>11, <2>4, <3>1 DEF TurnSent
    <3>3. Running(goal) /\ Pointed(goal) /\ Clean(goal) /\ work[c] # "compact"
      BY <1>2, <2>1, <2>4
    <3>4. goal \in Goal /\ goal # NoGoal
      BY <1>1, <3>3, NoGoalAssumption DEF Running, MaybeGoal
    <3>5. /\ g \in Goal /\ g.status = goal.status /\ g.tasks = goal.tasks /\ g.idx = goal.idx
          /\ g.acted = goal.acted /\ g.ring = goal.ring /\ g.read = goal.read
          /\ g.compactionFailed = goal.compactionFailed
      <4>1. PICK b \in BOOLEAN : b = (goal.tasks # <<>>)
        OBVIOUS
      <4>2. g = [goal EXCEPT !.worked = b]
        BY <3>1, <3>4, <4>1 DEF Write
      <4>3. g \in Goal
        BY <3>4, <4>2 DEF Goal
      <4> QED
        BY <3>4, <4>2, <4>3 DEF Goal
    <3>6. Pointed(g) /\ Clean(g) /\ Running(g)
      BY <3>3, <3>4, <3>5, NoGoalAssumption DEF Pointed, Clean, Running
    <3>7. Tidy(Reach(g, "turn")) /\ Good(Reach(g, "turn"))
      BY <3>5, <3>6, ReachTidy, ReachGood DEF MaybeGoal, Between2
    <3>8. InOrder(c, Reach(g, "turn"))
      BY <2>4, <3>6, <3>7 DEF InOrder, Reach
    <3> QED
      BY <2>1, <3>2, <3>3, <3>7, <3>8, TakeOrder
  <2> QED
    BY <2>2, <2>3, <2>4
<1>12. CASE CompactSent(c)
  <2>1. Live(c) /\ at[c] = "compactSending" /\ Compacting(c)
        /\ UNCHANGED <<aborted, abortRef, disturbed>>
    BY <1>12 DEF CompactSent, Live, Compacting
  <2>2. CASE disturbed
    BY <2>1, <2>2 DEF OrderInv
  <2>3. CASE ~disturbed
    <3>1. Pointed(goal) /\ Between(goal) /\ c \notin aborted /\ Running(goal)
      BY <1>2, <2>1, <2>3
    <3>2. PICK o : o = [Reach(goal, "compacting") EXCEPT !.after = after[c]]
      OBVIOUS
    <3>3. Take(c, o)
      BY <1>12, <3>1, <3>2 DEF CompactSent
    <3>4. after[c] \in {"none", "top", "continue"}
      BY DEF BaseInv, TypeOK
    <3>5. Good(o)
      BY <1>1, <3>2, <3>4, ReachGood
    <3>6. Tidy(o)
      BY <3>1, <3>2, ReachTidy DEF Between2
    <3>7. o.goal = goal /\ o.at = "compacting"
      BY <3>2 DEF Reach
    <3> QED
      BY <2>1, <3>1, <3>3, <3>5, <3>6, <3>7, TakeOrder DEF InOrder
  <2> QED
    BY <2>2, <2>3
<1>13. Unheard(c) # "compact"
  BY DEF Unheard
<1>14. CASE TurnDone(c)
  BY <1>13, <1>14, WorkOrder DEF TurnDone
<1>15. CASE TurnFails(c)
  <2>1. CASE turnWaiter # c
    BY <1>13, <1>15, <2>1, WorkOrder DEF TurnFails, waiters
  <2>2. CASE turnWaiter = c
    <3>1. at[c] = "turn" /\ c \notin aborted /\ Live(c) /\ ~Compacting(c) /\ work[c] = "turn"
          /\ Take(c, Over(Thrown(goal))) /\ UNCHANGED <<aborted, abortRef, disturbed>>
      BY <1>1, <1>15, <2>2 DEF TurnFails, Live, Compacting
    <3>2. Good(Over(Thrown(goal)))
      BY <1>1, GoalErrorType, OverGood
    <3>3. ~disturbed => InOrder(c, Over(Thrown(goal)))
      BY <1>1, <1>2, <1>4, <3>1, GoalErrorOrder
    <3> QED
      BY <3>1, <3>2, <3>3, TakeOrder
  <2> QED
    BY <2>1, <2>2
<1>16. CASE TurnSettled(c)
  <2>1. CASE turnWaiter # c
    BY <1>13, <1>16, <2>1, WorkOrder DEF TurnSettled, waiters
  <2>2. CASE turnWaiter = c
    <3>1. at[c] = "turn" /\ c \notin aborted /\ Live(c) /\ ~Compacting(c) /\ work[c] # "compact"
          /\ UNCHANGED <<aborted, abortRef, disturbed>>
      BY <1>1, <1>16, <2>2 DEF TurnSettled, Live, Compacting
    <3>2. PICK o \in {LoopTop(goal, FALSE), Over(GoalError(goal))} : Take(c, o)
      BY <1>16, <2>2 DEF TurnSettled
    <3>3. Good(o)
      BY <1>1, <3>2, LoopTopGood, GoalErrorType, OverGood
    <3>4. ASSUME ~disturbed
          PROVE  InOrder(c, o)
      <4>1. Pointed(goal) /\ Clean(goal)
        BY <1>2, <3>1, <3>4
      <4>2. CASE o = LoopTop(goal, FALSE)
        <5>1. Tidy(o) /\ Onward(goal, o)
          BY <1>1, <4>1, <4>2, LoopTopTidy, LoopTopOnward
        <5> QED
          BY <1>3, <3>1, <3>3, <3>4, <5>1
      <4>3. CASE o = Over(GoalError(goal))
        BY <1>1, <1>4, <3>1, <3>4, <4>1, <4>3, GoalErrorOrder
      <4> QED
        BY <3>2, <4>2, <4>3
    <3> QED
      BY <3>1, <3>2, <3>3, <3>4, TakeOrder
  <2> QED
    BY <2>1, <2>2
<1>17. CASE CompactEnds(c)
  <2>1. CASE compactWaiter # c
    BY <1>13, <1>17, <2>1, WorkOrder DEF CompactEnds, waiters
  <2>2. CASE compactWaiter = c
    <3>1. at[c] = "compacting" /\ Live(c) /\ Compacting(c)
          /\ UNCHANGED <<aborted, abortRef, disturbed>>
      BY <1>1, <1>17, <2>2 DEF CompactEnds, Live, Compacting
    <3>2. PICK compacted \in BOOLEAN : Take(c, AfterCompaction(goal, compacted, after[c], FALSE))
      BY <1>17, <2>2 DEF CompactEnds
    <3>3. PICK o : o = AfterCompaction(goal, compacted, after[c], FALSE)
      OBVIOUS
    <3>4. Good(o)
      BY <1>1, <3>3, AfterCompactionGood
    <3>5. ~disturbed => InOrder(c, o)
      BY <1>9, <3>1, <3>3
    <3> QED
      BY <3>1, <3>2, <3>3, <3>4, <3>5, TakeOrder
  <2> QED
    BY <2>1, <2>2
<1> QED
  BY <1>5, <1>6, <1>7, <1>8, <1>10, <1>11, <1>12, <1>14, <1>15, <1>16, <1>17 DEF LoopStep

LEMMA StartingOrder ==
  ASSUME NEW g \in Goal, Pointed(g), Clean(g)
  PROVE  Tidy(Starting(g)) /\ Onward(g, Starting(g))
<1>1. PICK h : h = IF g.tasks # <<>> /\ g.tasks[g.idx] = "blocked" THEN Stamped(g, "active") ELSE g
  OBVIOUS
<1>2. "active" \in TaskStatus
  BY DEF TaskStatus
<1>3. h \in Goal /\ Pointed(h) /\ Clean(h) /\ h.status = g.status
  <2>1. Stamped(g, "active") \in Goal /\ Stamped(g, "active").status = g.status
    BY <1>2, StampedFacts
  <2>2. Pointed(Stamped(g, "active")) /\ Clean(Stamped(g, "active"))
    BY <1>2, StampedOrder
  <2> QED
    BY <1>1, <2>1, <2>2
<1>4. Tidy(LoopTop(h, FALSE)) /\ Onward(h, LoopTop(h, FALSE))
  BY <1>3, LoopTopTidy, LoopTopOnward DEF MaybeGoal
<1>5. Starting(g) = LoopTop(h, FALSE)
  BY <1>1 DEF Starting
<1> QED
  BY <1>3, <1>4, <1>5, NoGoalAssumption DEF Onward, Running

(* A loop that is started after the last one and its turn were over.          *)
LEMMA StartOrder ==
  ASSUME BaseInv, OrderInv, NEW c \in Cycle, at[c] = "unused", NEW o, NEW stops \in BOOLEAN,
         Command(o.goal, c, o, stops), Good(o),
         ~disturbed /\ Quiescent => Tidy(o) /\ (o.at # "over" => Running(o.goal))
  PROVE  OrderInv'
<1>1. SUFFICES ASSUME ~disturbed'
               PROVE  OrderInv'
  BY DEF OrderInv
<1>2. ~disturbed /\ \A e \in Cycle : ~Live(e) /\ ~Working(e)
  BY <1>1, NoCycleAssumption DEF Command
<1>3. ~(abortRef # NoCycle /\ Waits(abortRef))
  BY <1>2, NoCycleAssumption DEF Waits, BaseInv, WaitInv, TypeOK, Live
<1>4. /\ goal' = o.goal
      /\ at' = [e \in Cycle |-> IF e = c THEN o.at ELSE at[e]]
      /\ snap' = [e \in Cycle |-> IF e = c THEN o.snap ELSE snap[e]]
      /\ aborted' \subseteq aborted \cup {abortRef}
      /\ abortRef' = c /\ work' = work
  BY <1>3, NoCycleAssumption DEF Command
<1>5. Tidy(o) /\ (o.at # "over" => Running(o.goal))
  BY <1>2 DEF Quiescent, Compacting, Live
<1>6. c \notin aborted'
  BY <1>4, NoCycleAssumption DEF BaseInv, WaitInv
<1>7. \A e \in Cycle : e # c => ~Live(e)' /\ ~Compacting(e)' /\ at'[e] # "evaluating"
  BY <1>2, <1>4 DEF Live, Compacting
<1>8. at'[c] = o.at /\ snap'[c] = o.snap /\ (Live(c)' <=> o.at # "over")
  BY <1>4 DEF Live, Good
<1>9. \A e \in Cycle : work'[e] # "compact"
  BY <1>2, <1>4 DEF Working
<1>10. o.at = "over" => ~Running(o.goal)
  BY DEF Good
<1>11. Running(o.goal) => o.goal.status \notin {"completed", "blocked"}
  BY DEF Running
<1>12. EachFits'
  <2>1. Live(c)' => Running(o.goal)
    BY <1>5, <1>8
  <2>2. Running(o.goal) => Live(c)'
    BY <1>8, <1>10
  <2> QED
    BY <1>4, <1>6, <1>7, <1>11, <2>1, <2>2 DEF EachFits, Running, Live
<1>13. LoopsFitGoal'
  BY <1>12, FitByLoop, PTL
<1>14. Quiescent' => Clean(goal')
  BY <1>4, <1>5, <1>8 DEF Tidy, Quiescent, Compacting, Between2
<1>15. ASSUME NEW e \in Cycle
       PROVE  /\ Compacting(e)' => Between(goal') /\ e \notin aborted'
              /\ work'[e] = "compact" => Compacting(e)'
              /\ at'[e] = "evaluating" /\ e \notin aborted' => SameTask(snap'[e], goal')
  <2>1. CASE e = c
    BY <2>1, <1>4, <1>5, <1>6, <1>8, <1>9 DEF Tidy, Compacting, Between2
  <2>2. CASE e # c
    BY <2>2, <1>7, <1>9
  <2> QED
    BY <2>1, <2>2
<1>16. Pointed(goal')
  BY <1>4, <1>5 DEF Tidy
<1> QED
  BY <1>13, <1>14, <1>15, <1>16 DEF OrderInv, Pointed, Clean, Between, SameTask

(* The loop that is stopped was not compacting, and leaves the goal halted.   *)
LEMMA StopOrder ==
  ASSUME BaseInv, OrderInv, NEW g \in MaybeGoal, Halted(g), NEW o,
         Command(g, NoCycle, o, TRUE), o.goal = g,
         ~disturbed /\ Quiescent => Pointed(g) /\ Clean(g)
  PROVE  OrderInv'
<1>1. SUFFICES ASSUME ~disturbed'
               PROVE  OrderInv'
  BY DEF OrderInv
<1> DEFINE d == abortRef
<1>2. ~disturbed /\ (d # NoCycle => ~Compacting(d))
  BY <1>1 DEF Command
<1>3. EachFits
  BY FitByLoop, <1>2 DEF OrderInv
<1>4. \A e \in Cycle : Live(e) => e = d /\ d # NoCycle
  BY <1>2, <1>3, NoCycleAssumption DEF EachFits
<1>5. Quiescent
  BY <1>2, <1>4 DEF Quiescent, Compacting, Live
<1>6. Pointed(g) /\ Clean(g)
  BY <1>2, <1>5
<1>7. /\ aborted' = IF d # NoCycle THEN aborted \cup {d} ELSE aborted
      /\ abortRef' = d /\ work' = work
      /\ \A e \in Cycle : e # d => at'[e] = at[e]
  BY NoCycleAssumption DEF Command
<1>8. goal' \in {g, GoalError(g)} /\ (d \in Cycle => at'[d] \in {at[d], "over"})
  <2>1. CASE d # NoCycle /\ Waits(d)
    <3>1. d \in Cycle /\ at[d] = "turn"
      BY <1>2, <2>1 DEF Waits, BaseInv, WaitInv, TypeOK, Compacting
    <3>2. Interrupted(d, g) = Over(GoalError(g))
      BY <3>1 DEF Interrupted
    <3> QED
      BY <2>1, <3>1, <3>2, NoCycleAssumption, OverOnward DEF Command
  <2>2. CASE ~(d # NoCycle /\ Waits(d))
    <3>1. goal' = o.goal
      BY <2>2 DEF Command
    <3>2. d \in Cycle => at'[d] = at[d]
      BY <2>2, NoCycleAssumption DEF Command
    <3> QED
      BY <3>1, <3>2
  <2> QED
    BY <2>1, <2>2
<1>9. Halted(goal') /\ Pointed(goal') /\ Clean(goal')
  BY <1>6, <1>8, HaltedGoalError, GoalErrorOrder
<1>10. \A e \in Cycle : Live(e)' => Live(e)
  BY <1>7, <1>8 DEF Live
<1>11. \A e \in Cycle : Live(e)' => e = d /\ e \in aborted'
  BY <1>4, <1>7, <1>10
<1> HIDE DEF d
<1>12. ~Running(goal)' /\ (goal' # NoGoal => goal'.status \notin {"completed", "blocked"})
  BY <1>9 DEF Halted, Running
<1>13. EachFits'
  BY <1>7, <1>11, <1>12 DEF EachFits
<1>14. LoopsFitGoal'
  BY <1>13, FitByLoop, PTL
<1>15. \A e \in Cycle : work'[e] # "compact" /\ ~Compacting(e)'
  <2>1. \A e \in Cycle : work[e] # "compact"
    BY <1>2, <1>5 DEF OrderInv, Quiescent
  <2>2. ASSUME NEW e \in Cycle
        PROVE  ~Compacting(e)'
    <3>1. ~Compacting(e)
      BY <1>5 DEF Quiescent
    <3> QED
      BY <3>1, <1>7, <1>8 DEF Compacting, d
  <2> QED
    BY <2>1, <2>2, <1>7
<1>16. \A e \in Cycle : at'[e] = "evaluating" => e \in aborted'
  BY <1>11 DEF Live
<1> QED
  BY <1>9, <1>14, <1>15, <1>16 DEF OrderInv, Pointed, Clean, Between, SameTask

LEMMA NewGoalOrder ==
  ASSUME NEW c \in Cycle, NEW n \in Nat
  PROVE  Pointed(NewGoal(c, n)) /\ Clean(NewGoal(c, n))
<1>1. PICK g : g = NewGoal(c, n)
  OBVIOUS
<1>2. /\ g.idx = 1 /\ g.acted = {} /\ g.ring = EmptyRing
      /\ g.tasks = [i \in 1 .. n |-> IF i = 1 THEN "active" ELSE "pending"]
  BY <1>1 DEF NewGoal
<1>3. g.tasks \in Seq(TaskStatus) /\ DOMAIN g.tasks = 1 .. n
  BY <1>1, <1>2, NewGoalType DEF Goal
<1>4. g.tasks # <<>> => 1 \in 1 .. n
  BY <1>3, EmptySeq, LenProperties
<1>5. Pointed(g)
  BY <1>2, <1>3, <1>4 DEF Pointed
<1>6. Clean(g)
  BY <1>2 DEF Clean, EmptyRing
<1> QED
  BY <1>1, <1>5, <1>6

LEMMA ResumedFacts ==
  ASSUME NEW g \in Goal, NEW h,
         h = [g EXCEPT !.status = "active", !.errs = 0, !.ring = EmptyRing]
  PROVE  /\ h \in Goal /\ h.status = "active" /\ h.tasks = g.tasks /\ h.idx = g.idx
         /\ h.by = g.by /\ h.acted = g.acted /\ h.ring.run = 0 /\ ~Loops(h)
<1>1. PICK ring : ring = EmptyRing
  OBVIOUS
<1>2. h = [g EXCEPT !.status = "active", !.errs = 0, !.ring = ring]
  BY <1>1
<1>3. h \in Goal
  BY ResumedType
<1>4. /\ h.status = "active" /\ h.tasks = g.tasks /\ h.idx = g.idx /\ h.acted = g.acted
      /\ h.ring = ring /\ h.by = g.by
  BY <1>2 DEF Goal
<1>5. h.ring.run = 0
  BY <1>1, <1>4 DEF EmptyRing
<1> QED
  BY <1>3, <1>4, <1>5, ThresholdsAssumption DEF Loops

LEMMA ResumedOrder ==
  ASSUME NEW g \in Goal, Pointed(g), Clean(g), NEW h,
         h = [g EXCEPT !.status = "active", !.errs = 0, !.ring = EmptyRing]
  PROVE  Pointed(h) /\ Clean(h) /\ h.status = "active"
<1>1. /\ h.status = "active" /\ h.tasks = g.tasks /\ h.idx = g.idx
      /\ h.acted = g.acted /\ h.ring.run = 0
  BY ResumedFacts
<1> QED
  BY <1>1, NoGoalAssumption DEF Pointed, Clean

LEMMA UserOrder ==
  ASSUME BaseInv, OrderInv, UserStep
  PROVE  OrderInv'
<1>1. goal \in MaybeGoal /\ (goal # NoGoal => goal \in Goal)
  BY DEF BaseInv, TypeOK, MaybeGoal
<1>2. ~disturbed => Pointed(goal) /\ (Quiescent => Clean(goal))
  BY DEF OrderInv
<1>3. ASSUME NEW n \in Batches, Start(n)
      PROVE  OrderInv'
  <2>1. Fresh \in Cycle /\ at[Fresh] = "unused"
    BY <1>3, FreshUnused DEF Start
  <2>2. PICK g : g = NewGoal(Fresh, n)
    OBVIOUS
  <2>3. g \in Goal /\ Pointed(g) /\ Clean(g) /\ Running(g)
    <3>1. g \in Goal /\ Pointed(g) /\ Clean(g)
      BY <2>1, <2>2, BatchesAssumption, NewGoalType, NewGoalOrder
    <3>2. g.status = "active"
      BY <2>2 DEF NewGoal
    <3> QED
      BY <3>1, <3>2, NoGoalAssumption DEF Running
  <2>4. PICK o : o = Starting(g)
    OBVIOUS
  <2>5. Command(o.goal, Fresh, o, TRUE)
    BY <1>3, <2>2, <2>4 DEF Start
  <2>6. Good(o) /\ Tidy(o) /\ (o.at # "over" => Running(o.goal))
    BY <2>3, <2>4, StartingGood, StartingOrder DEF Onward
  <2> QED
    BY <2>1, <2>5, <2>6, StartOrder
<1>4. CASE Pause
  <2>1. PICK g : g = Paused(goal, "userPaused")
    OBVIOUS
  <2>2. g \in MaybeGoal /\ Halted(g)
    BY <1>1, <2>1, PausedType, PausedAlike DEF Why, Halted, Paused, Write
  <2>3. Command(g, NoCycle, Reach(g, "over"), TRUE) /\ Reach(g, "over").goal = g
    BY <1>4, <2>1 DEF Pause, Reach
  <2>4. ~disturbed /\ Quiescent => Pointed(g) /\ Clean(g)
    BY <1>1, <1>2, <2>1, PausedOrder DEF Why
  <2> QED
    BY <2>2, <2>3, <2>4, StopOrder
<1>5. CASE Resume
  <2>1. Fresh \in Cycle /\ at[Fresh] = "unused" /\ goal \in Goal
    BY <1>1, <1>5, FreshUnused DEF Resume
  <2>2. PICK g : g = [goal EXCEPT !.status = "active", !.errs = 0, !.ring = EmptyRing]
    OBVIOUS
  <2>3. g \in Goal
    BY <2>1, <2>2, ResumedType
  <2>4. PICK o : o = Starting(g)
    OBVIOUS
  <2>5. Command(o.goal, Fresh, o, FALSE)
    BY <1>5, <2>2, <2>4 DEF Resume
  <2>6. Good(o)
    BY <2>3, <2>4, StartingGood
  <2>7. ASSUME ~disturbed, Quiescent
        PROVE  Tidy(o) /\ (o.at # "over" => Running(o.goal))
    <3>1. Pointed(g) /\ Clean(g) /\ g.status = "active"
      BY <1>2, <2>1, <2>2, <2>7, ResumedOrder
    <3>2. Running(g)
      BY <2>3, <3>1, NoGoalAssumption DEF Running
    <3> QED
      BY <2>3, <2>4, <3>1, <3>2, StartingOrder DEF Onward
  <2> QED
    BY <2>1, <2>5, <2>6, <2>7, StartOrder
<1>6. CASE Clear
  <2>1. Command(NoGoal, NoCycle, Reach(NoGoal, "over"), TRUE) /\ Reach(NoGoal, "over").goal = NoGoal
    BY <1>6 DEF Clear, Reach
  <2>2. NoGoal \in MaybeGoal /\ Halted(NoGoal)
    BY DEF MaybeGoal, Halted
  <2> QED
    BY <2>1, <2>2, NoGoalOrder, StopOrder
<1>7. CASE EditObjective
  <2>1. SUFFICES ASSUME ~disturbed
                 PROVE  OrderInv'
    BY <1>7 DEF EditObjective, OrderInv
  <2>2. goal \in Goal /\ goal' = [goal EXCEPT !.ring = EmptyRing] /\ 0 \in 0 .. Stagnation
    BY <1>1, <1>7, ThresholdsAssumption DEF EditObjective
  <2>3. /\ goal' \in Goal /\ goal'.ring.run = 0
        /\ goal'.tasks = goal.tasks /\ goal'.idx = goal.idx /\ goal'.worked = goal.worked
        /\ goal'.acted = goal.acted /\ goal'.status = goal.status
    BY <2>2, RingFacts
  <2>4. UNCHANGED <<at, snap, aborted, abortRef, work, disturbed>>
    BY <1>7 DEF EditObjective, loops
  <2>5. goal # NoGoal /\ goal' # NoGoal
    BY <2>2, <2>3, NoGoalAssumption
  <2>6. EachFits'
    BY <2>3, <2>4, <2>5, FitByLoop DEF OrderInv, EachFits, Live, Running
  <2>7. LoopsFitGoal'
    BY <2>6, FitByLoop, PTL
  <2>8. Pointed(goal') /\ (Quiescent' => Clean(goal'))
    BY <2>1, <2>3, <2>4, <2>5 DEF OrderInv, Pointed, Clean, Quiescent, Compacting
  <2>9. \A e \in Cycle :
          /\ Compacting(e)' => Between(goal') /\ e \notin aborted'
          /\ work'[e] = "compact" => Compacting(e)'
          /\ at'[e] = "evaluating" /\ e \notin aborted' => SameTask(snap'[e], goal')
    BY <2>1, <2>3, <2>4, <2>5 DEF OrderInv, Compacting, Between, SameTask
  <2> QED
    BY <2>7, <2>8, <2>9 DEF OrderInv, Pointed, Clean, Between, SameTask
<1> QED
  BY <1>3, <1>4, <1>5, <1>6, <1>7 DEF UserStep

LEMMA RestoredOrder ==
  ASSUME NEW g \in MaybeGoal
  PROVE  /\ Halted(Restored(g))
         /\ Pointed(g) => Pointed(Restored(g))
         /\ Clean(g) => Clean(Restored(g))
         /\ SameTasks(g, Restored(g))
<1>1. PICK h : h = [g EXCEPT !.status = "paused"]
  OBVIOUS
<1>2. g # NoGoal => Alike(g, h) /\ h.status = "paused"
  BY <1>1, StatusAlike, StatusType DEF MaybeGoal
<1>3. Restored(g) = NoGoal \/ (g # NoGoal /\ Restored(g) = h)
  BY <1>1 DEF Restored
<1> QED
  BY <1>2, <1>3, AlikeOrder, AlikeSameTasks, NoGoalOrder DEF Halted, SameTasks

LEMMA RestartOrder ==
  ASSUME BaseInv, OrderInv, Restart
  PROVE  OrderInv'
<1>1. SUFFICES ASSUME ~disturbed'
               PROVE  OrderInv'
  BY DEF OrderInv
<1>2. ~disturbed /\ Quiescent
  BY <1>1 DEF Restart, Quiescent
<1>3. goal' = Restored(goal) /\ goal \in MaybeGoal
  BY DEF Restart, BaseInv, TypeOK, MaybeGoal
<1>4. Halted(goal') /\ Pointed(goal') /\ Clean(goal')
  BY <1>2, <1>3, RestoredOrder DEF OrderInv
<1>5. \A e \in Cycle : ~Live(e)' /\ ~Compacting(e)' /\ work'[e] # "compact" /\ at'[e] # "evaluating"
  BY DEF Restart, Live, Compacting
<1>6. EachFits'
  BY <1>4, <1>5 DEF EachFits, Running, Halted
<1>7. LoopsFitGoal'
  BY <1>6, FitByLoop, PTL
<1> QED
  BY <1>4, <1>5, <1>7 DEF OrderInv, Pointed, Clean, Between, SameTask

LEMMA StutterOrder ==
  ASSUME OrderInv, UNCHANGED vars
  PROVE  OrderInv'
<1>1. UNCHANGED <<goal, at, snap, aborted, abortRef, work, disturbed>>
  BY DEF vars, loops
<1>2. EachFits'
  BY <1>1, FitByLoop DEF OrderInv, EachFits, Live, Running
<1>3. LoopsFitGoal' \/ disturbed'
  BY <1>2, FitByLoop, PTL
<1> QED
  BY <1>1, <1>3 DEF OrderInv, Quiescent, Compacting, Pointed, Clean, Between, SameTask

LEMMA InitOrder == Init => OrderInv
<1>1. SUFFICES ASSUME Init
               PROVE  OrderInv
  OBVIOUS
<1>2. goal = NoGoal /\ \A c \in Cycle : ~Live(c) /\ at[c] = "unused" /\ work[c] = "none"
  BY <1>1 DEF Init, Live
<1>3. EachFits
  BY <1>2 DEF EachFits, Running
<1> QED
  BY <1>2, <1>3, FitByLoop, NoGoalOrder DEF OrderInv, Compacting

-----------------------------------------------------------------------------
(* The theorems.                                                              *)

LEMMA NextInv ==
  ASSUME GoalInv, [Next]_vars
  PROVE  GoalInv'
<1>1. BaseInv /\ OrderInv
  BY DEF GoalInv, BaseInv
<1>2. BaseInv'
  BY <1>1, NextBase
<1>3. OrderInv'
  BY <1>1, LoopOrder, ActOrder, UserOrder, RestartOrder, StutterOrder DEF Next
<1> QED
  BY <1>2, <1>3 DEF GoalInv, BaseInv

(* The inductive invariant: the loops, their waits and the goal fit together. *)
THEOREM GoalInvariance == Spec => []GoalInv
<1>1. Init => GoalInv
  BY InitBase, InitOrder DEF GoalInv, BaseInv
<1>2. GoalInv /\ [Next]_vars => GoalInv'
  BY NextInv
<1> QED
  BY <1>1, <1>2, PTL DEF Spec

(* The goal, its tasks and what the loops hold of it are of their types: no   *)
(* write of the loop makes a goal of nothing.                                 *)
THEOREM GoalTypes == Spec => []TypeOK
<1>1. GoalInv => TypeOK
  BY DEF GoalInv
<1> QED
  BY <1>1, GoalInvariance, PTL

(* The badge never says that a goal is running when no loop is behind it.     *)
THEOREM RunningDriven == Spec => []RunningIsDriven
<1>1. GoalInv => RunningIsDriven
  BY DEF GoalInv
<1> QED
  BY <1>1, GoalInvariance, PTL

(* A loop that was aborted is not left waiting for a turn or a compaction.    *)
THEOREM WaitsAreWoken == Spec => []AbortedNeverWaits
<1>1. GoalInv => AbortedNeverWaits
  <2>1. SUFFICES ASSUME GoalInv, NEW c \in aborted, at[c] \in {"turn", "compacting"}
                 PROVE  Displaced(c)
    BY DEF AbortedNeverWaits
  <2>2. c \in Cycle /\ c # NoCycle
    BY <2>1, NoCycleAssumption DEF GoalInv, TypeOK
  <2> QED
    BY <2>1, <2>2 DEF GoalInv, WaitInv, Displaced
<1> QED
  BY <1>1, GoalInvariance, PTL

(* One loop drives a running goal, the one a pause aborts; a goal that has    *)
(* ended has none.                                                            *)
THEOREM LoopsFit == Spec => []LoopsFitGoal
<1>1. GoalInv => LoopsFitGoal
  BY DEF GoalInv, OrderInv, LoopsFitGoal
<1> QED
  BY <1>1, GoalInvariance, PTL

(* The pointer of a batch separates the settled tasks from the pending ones.  *)
THEOREM PointerHolds == Spec => []PointerConsistent
<1>1. GoalInv => PointerConsistent
  BY DEF GoalInv, OrderInv, Pointed, PointerConsistent
<1> QED
  BY <1>1, GoalInvariance, PTL

-----------------------------------------------------------------------------
(* The outcomes of the tasks: the action properties.                          *)

(* The goal of an undisturbed conversation belongs to a loop that was started. *)
OwnerInv == ~disturbed /\ goal # NoGoal => at[goal.by] # "unused"

Started(c) == at[c] # "unused"

LEMMA TakeHonest ==
  ASSUME BaseInv, NEW c \in Cycle, Live(c), NEW o, Good(o), Take(c, o), Honest(goal, o.goal)
  PROVE  Honest(goal, goal') /\ \A e \in Cycle : Started(e) => Started(e)'
<1>1. goal' = o.goal /\ at' = [at EXCEPT ![c] = o.at] /\ DOMAIN at = Cycle /\ o.at # "unused"
  BY DEF Take, Good, BaseInv, TypeOK
<1> QED
  BY <1>1 DEF Started

LEMMA LoopHonest ==
  ASSUME BaseInv, OrderInv, ~disturbed, NEW c \in Cycle, LoopStep(c)
  PROVE  Honest(goal, goal') /\ \A e \in Cycle : Started(e) => Started(e)'
<1>1. /\ goal \in MaybeGoal
      /\ snap[c] \in MaybeGoal
      /\ at[c] = "evaluating" => snap[c] \in Goal
      /\ turnWaiter = c => at[c] = "turn" /\ c \notin aborted
      /\ compactWaiter = c => at[c] = "compacting" /\ c \notin aborted
  BY NoCycleAssumption DEF BaseInv, TypeOK, WaitInv, SnapInv, MaybeGoal
<1>2. ASSUME Live(c)
      PROVE  /\ Pointed(goal)
             /\ ~Compacting(c) => Clean(goal)
             /\ at[c] = "evaluating" /\ c \notin aborted => SameTask(snap[c], goal)
  BY <1>2, Lone DEF BaseInv, OrderInv
<1>3. ASSUME goal' = goal, at' = at
      PROVE  Honest(goal, goal') /\ \A e \in Cycle : Started(e) => Started(e)'
  BY <1>3, SameTasksHonest DEF SameTasks, Started
<1>4. /\ Good(Over(Thrown(goal))) /\ Honest(goal, Over(Thrown(goal)).goal)
      /\ Good(Over(GoalError(goal))) /\ Honest(goal, Over(GoalError(goal)).goal)
  BY <1>1, GoalErrorType, OverGood, GoalErrorSameTasks, SameTasksHonest, OverOnward
<1>5. ASSUME NEW compacted \in BOOLEAN, NEW dead \in BOOLEAN
      PROVE  /\ Good(AfterCompaction(goal, compacted, after[c], dead))
             /\ Honest(goal, AfterCompaction(goal, compacted, after[c], dead).goal)
  BY <1>1, AfterCompactionGood, AfterCompactionSameTasks, SameTasksHonest
<1>6. CASE Evaluated(c)
  <2>1. PICK decision \in Decision, text \in Text : Take(c, AfterVerdict(goal, snap[c], decision, text))
    BY <1>6 DEF Evaluated
  <2>2. at[c] = "evaluating" /\ c \notin aborted /\ Live(c) /\ ~Compacting(c)
    BY <1>6 DEF Evaluated, Live, Compacting
  <2>3. SameTask(snap[c], goal) /\ Pointed(goal) /\ Clean(goal)
    BY <1>2, <2>2
  <2>4. goal \in Goal
    BY <1>1, <2>3 DEF SameTask, MaybeGoal
  <2>5. Good(AfterVerdict(goal, snap[c], decision, text))
    BY <1>1, <2>2, AfterVerdictGood
  <2>6. Honest(goal, AfterVerdict(goal, snap[c], decision, text).goal)
    BY <1>1, <2>2, <2>3, <2>4, AfterVerdictOrder
  <2> QED
    BY <2>1, <2>2, <2>5, <2>6, TakeHonest
<1>7. CASE EvaluationFails(c)
  <2>1. at[c] = "evaluating" /\ Live(c) /\ Take(c, AfterError(goal, snap[c]))
    BY <1>7 DEF EvaluationFails, Live
  <2> QED
    BY <1>1, <2>1, AfterErrorGood, AfterErrorHonest, TakeHonest
<1>8. CASE Wake(c)
  <2>1. PICK dead \in BOOLEAN : dead = (c \in aborted)
    BY TruthValue
  <2>2. PICK o : o = LoopTop(goal, dead)
    OBVIOUS
  <2>3. o = LoopTop(goal, c \in aborted)
    BY <2>1, <2>2, Zenon
  <2>4. Live(c) /\ ~Compacting(c) /\ Take(c, o)
    BY <1>8, <2>3 DEF Wake, Live, Compacting
  <2>5. Good(o) /\ Honest(goal, o.goal)
    BY <1>1, <1>2, <2>2, <2>4, LoopTopGood, LoopTopHonest
  <2> QED
    BY <2>4, <2>5, TakeHonest
<1>9. CASE SendFails(c)
  <2>1. PICK dead \in BOOLEAN : dead = (c \in aborted)
    BY TruthValue
  <2>2. PICK o : o = AfterCompaction(goal, FALSE, after[c], dead)
    OBVIOUS
  <2>3. o = AfterCompaction(goal, FALSE, after[c], c \in aborted)
    BY <2>1, <2>2, Zenon
  <2>4. Live(c)
    BY <1>9 DEF SendFails, Live
  <2>5. Take(c, Over(Thrown(goal))) \/ Take(c, o)
    BY <1>9, <2>3 DEF SendFails
  <2>6. Good(o) /\ Honest(goal, o.goal)
    BY <1>5, <2>2
  <2> QED
    BY <1>4, <2>4, <2>5, <2>6, TakeHonest
<1>10. CASE TurnSent(c)
  <2>1. Live(c)
    BY <1>10 DEF TurnSent, Live
  <2>2. CASE Take(c, Over(GoalError(goal)))
    BY <1>4, <2>1, <2>2, TakeHonest
  <2>3. CASE Take(c, Reach(Write(goal, [goal EXCEPT !.worked = goal.tasks # <<>>]), "turn"))
    <3>1. PICK b \in BOOLEAN : b = (goal.tasks # <<>>)
      OBVIOUS
    <3>2. PICK g : g = Write(goal, [goal EXCEPT !.worked = b])
      OBVIOUS
    <3>3. g \in MaybeGoal /\ SameTasks(goal, g)
      BY <1>1, <3>2 DEF Write, MaybeGoal, SameTasks, Goal
    <3>4. Good(Reach(g, "turn")) /\ Reach(g, "turn").goal = g
      BY <3>3, ReachGood DEF Reach
    <3>5. Take(c, Reach(g, "turn"))
      BY <2>3, <3>1, <3>2
    <3> QED
      BY <2>1, <3>3, <3>4, <3>5, SameTasksHonest, TakeHonest
  <2> QED
    BY <1>10, <2>2, <2>3 DEF TurnSent
<1>11. CASE CompactSent(c)
  <2>1. Live(c) /\ after[c] \in {"none", "top", "continue"}
    BY <1>11 DEF CompactSent, Live, BaseInv, TypeOK
  <2>2. CASE Take(c, AfterCompaction(goal, FALSE, after[c], TRUE))
    BY <1>5, <2>1, <2>2, TakeHonest
  <2>3. CASE Take(c, [Reach(goal, "compacting") EXCEPT !.after = after[c]])
    <3>1. PICK o : o = [Reach(goal, "compacting") EXCEPT !.after = after[c]]
      OBVIOUS
    <3>2. Good(o) /\ o.goal = goal
      BY <1>1, <2>1, <3>1, ReachGood DEF Reach
    <3>3. Honest(goal, o.goal)
      BY <3>2, SameTasksHonest DEF SameTasks
    <3> QED
      BY <2>1, <2>3, <3>1, <3>2, <3>3, TakeHonest
  <2> QED
    BY <1>11, <2>2, <2>3 DEF CompactSent
<1>12. CASE Send(c) \/ TurnDone(c)
  BY <1>3, <1>12 DEF Send, TurnDone, loops
<1>13. CASE TurnFails(c)
  <2>1. CASE turnWaiter # c
    BY <1>3, <1>13, <2>1 DEF TurnFails, loops
  <2>2. CASE turnWaiter = c
    BY <1>1, <1>4, <1>13, <2>2, TakeHonest DEF TurnFails, Live
  <2> QED
    BY <2>1, <2>2
<1>14. CASE TurnSettled(c)
  <2>1. CASE turnWaiter # c
    BY <1>3, <1>14, <2>1 DEF TurnSettled, loops
  <2>2. CASE turnWaiter = c
    <3>1. Live(c) /\ ~Compacting(c)
      BY <1>1, <2>2 DEF Live, Compacting
    <3>2. Good(LoopTop(goal, FALSE)) /\ Honest(goal, LoopTop(goal, FALSE).goal)
      BY <1>1, <1>2, <3>1, LoopTopGood, LoopTopHonest
    <3>3. PICK o \in {LoopTop(goal, FALSE), Over(GoalError(goal))} : Take(c, o)
      BY <1>14, <2>2 DEF TurnSettled
    <3> QED
      BY <1>4, <3>1, <3>2, <3>3, TakeHonest
  <2> QED
    BY <2>1, <2>2
<1>15. CASE CompactEnds(c)
  <2>1. CASE compactWaiter # c
    BY <1>3, <1>15, <2>1 DEF CompactEnds, loops
  <2>2. CASE compactWaiter = c
    <3>1. PICK compacted \in BOOLEAN : Take(c, AfterCompaction(goal, compacted, after[c], FALSE))
      BY <1>15, <2>2 DEF CompactEnds
    <3>2. Live(c)
      BY <1>1, <2>2 DEF Live
    <3> QED
      BY <1>5, <3>1, <3>2, TakeHonest
  <2> QED
    BY <2>1, <2>2
<1> QED
  BY <1>6, <1>7, <1>8, <1>9, <1>10, <1>11, <1>12, <1>13, <1>14, <1>15 DEF LoopStep

LEMMA InterruptedSameTasks ==
  ASSUME NEW d \in Cycle, NEW g \in MaybeGoal
  PROVE  SameTasks(g, Interrupted(d, g).goal)
BY GoalErrorSameTasks, AfterCompactionSameTasks, OverOnward DEF Interrupted

(* A command leaves what it made of the tasks, whoever it woke.               *)
LEMMA CommandHonest ==
  ASSUME BaseInv, NEW g \in MaybeGoal, NEW c \in Cycle \cup {NoCycle}, NEW o,
         NEW stops \in BOOLEAN, Command(g, c, o, stops), o.goal = g,
         c # NoCycle => Good(o)
  PROVE  /\ SameTasks(g, goal')
         /\ \A e \in Cycle : Started(e) => Started(e)'
         /\ c # NoCycle => Started(c)'
<1> DEFINE d == abortRef
           wakes == stops /\ d # NoCycle /\ Waits(d)
<1>1. wakes => d \in Cycle /\ Good(Interrupted(d, g))
  BY InterruptedGood DEF BaseInv, TypeOK
<1>2. /\ goal' = IF wakes THEN Interrupted(d, g).goal ELSE o.goal
      /\ at' = [e \in Cycle |-> CASE e = c -> o.at
                                  [] e = d /\ wakes -> Interrupted(d, g).at
                                  [] OTHER -> at[e]]
  BY DEF Command
<1> HIDE DEF wakes, d
<1>3. SameTasks(g, goal')
  BY <1>1, <1>2, InterruptedSameTasks DEF SameTasks
<1>4. /\ c # NoCycle => o.at # "unused"
      /\ wakes => Interrupted(d, g).at # "unused"
  BY <1>1 DEF Good
<1>5. ASSUME NEW e \in Cycle, Started(e) \/ e = c
      PROVE  Started(e)'
  BY <1>2, <1>4, <1>5, NoCycleAssumption DEF Started
<1> QED
  BY <1>3, <1>5

(* No outcome is new: a task of goal h is as in g, or it is active.           *)
Reactivated(g, h) == h # NoGoal =>
  /\ g # NoGoal /\ h.by = g.by
  /\ \A k \in DOMAIN g.tasks : h.tasks[k] \in {"active", g.tasks[k]}

LEMMA ReactivatedHonest ==
  ASSUME NEW g, NEW h, NEW k, Reactivated(g, h), SameTasks(h, k)
  PROVE  Honest(g, k)
BY DEF Reactivated, SameTasks, Honest

(* A loop that starts makes no task done or failed.                           *)
LEMMA StartingReactivates ==
  ASSUME NEW g \in Goal, ~Loops(g)
  PROVE  Reactivated(g, Starting(g).goal)
<1>1. PICK h : h = IF g.tasks # <<>> /\ g.tasks[g.idx] = "blocked" THEN Stamped(g, "active") ELSE g
  OBVIOUS
<1>2. "active" \in TaskStatus
  BY DEF TaskStatus
<1>3. /\ h \in Goal /\ h.by = g.by /\ h.ring = g.ring
      /\ \A k \in DOMAIN g.tasks : h.tasks[k] \in {"active", g.tasks[k]}
  <2>1. PICK x : x = Stamped(g, "active")
    OBVIOUS
  <2>2. /\ x \in Goal /\ x.by = g.by /\ x.ring = g.ring
        /\ \A k \in DOMAIN g.tasks : x.tasks[k] = IF k = g.idx THEN "active" ELSE g.tasks[k]
    BY <1>2, <2>1, StampedFacts
  <2> QED
    BY <1>1, <2>1, <2>2
<1>4. SameTasks(h, LoopTop(h, FALSE).goal)
  BY <1>3, UnloopedSameTasks DEF Loops, MaybeGoal
<1>5. Starting(g) = LoopTop(h, FALSE)
  BY <1>1 DEF Starting
<1> QED
  BY <1>3, <1>4, <1>5, NoGoalAssumption DEF Reactivated, SameTasks

(* A step that leaves another goal, or an honest one, of a loop that started. *)
Fair == (SameGoal => Honest(goal, goal')) /\ OwnerInv'

LEMMA HonestFair ==
  ASSUME BaseInv, OwnerInv, ~disturbed, Honest(goal, goal'),
         \A e \in Cycle : Started(e) => Started(e)'
  PROVE  Fair
<1>1. goal # NoGoal => goal.by \in Cycle /\ Started(goal.by)
  BY DEF BaseInv, TypeOK, Goal, OwnerInv, Started
<1>2. goal' # NoGoal => goal # NoGoal /\ goal'.by = goal.by
  BY DEF Honest
<1> QED
  BY <1>1, <1>2 DEF Fair, OwnerInv, Started

(* Whatever the user does, the goal left is another one, or no outcome in it  *)
(* is new.                                                                    *)
LEMMA UserHonest ==
  ASSUME BaseInv, OwnerInv, ~disturbed, UserStep
  PROVE  Fair
<1>1. goal \in MaybeGoal /\ (goal # NoGoal => goal \in Goal /\ goal.by \in Cycle)
  BY DEF BaseInv, TypeOK, MaybeGoal, Goal
<1>2. ASSUME NEW n \in Batches, Start(n)
      PROVE  Fair
  <2>1. PICK c \in Cycle : c = Fresh /\ at[c] = "unused" /\ c # NoCycle
    BY <1>2, FreshUnused, NoCycleAssumption DEF Start
  <2>2. PICK g : g = NewGoal(c, n)
    OBVIOUS
  <2>3. g \in Goal /\ g.by = c /\ ~Loops(g)
    <3>1. g \in Goal
      BY <2>1, <2>2, BatchesAssumption, NewGoalType
    <3>2. g.by = c /\ g.ring.run = 0
      BY <2>2 DEF NewGoal, EmptyRing
    <3> QED
      BY <3>1, <3>2, ThresholdsAssumption DEF Loops
  <2>4. PICK o : o = Starting(g)
    OBVIOUS
  <2>5. Command(o.goal, c, o, TRUE)
    BY <1>2, <2>1, <2>2, <2>4 DEF Start
  <2>6. Good(o) /\ o.goal \in MaybeGoal
    BY <2>3, <2>4, StartingGood DEF Good
  <2>7. Reactivated(g, o.goal)
    BY <2>3, <2>4, StartingReactivates
  <2>8. /\ SameTasks(o.goal, goal') /\ Started(c)'
        /\ \A e \in Cycle : Started(e) => Started(e)'
    BY <2>1, <2>5, <2>6, CommandHonest
  <2>9. goal # NoGoal => goal.by # c
    BY <2>1 DEF OwnerInv
  <2>10. goal' # NoGoal => goal'.by = c
    BY <2>3, <2>7, <2>8 DEF Reactivated, SameTasks
  <2>11. OwnerInv'
    BY <2>8, <2>10 DEF OwnerInv, Started
  <2>12. ~SameGoal
    BY <2>9, <2>10 DEF SameGoal
  <2> QED
    BY <2>11, <2>12 DEF Fair
<1>3. ASSUME NEW g \in MaybeGoal, Reactivated(goal, g), NEW c \in Cycle \cup {NoCycle}, NEW o,
             NEW stops \in BOOLEAN, Command(g, c, o, stops), o.goal = g,
             c # NoCycle => Good(o)
      PROVE  Fair
  <2>1. SameTasks(g, goal') /\ \A e \in Cycle : Started(e) => Started(e)'
    BY <1>3, CommandHonest
  <2>2. Honest(goal, goal')
    BY <1>3, <2>1, ReactivatedHonest
  <2> QED
    BY <2>1, <2>2, HonestFair
<1>4. CASE Pause
  <2>1. PICK g : g = Paused(goal, "userPaused")
    OBVIOUS
  <2>2. g \in MaybeGoal /\ Reactivated(goal, g)
    <3>1. CASE goal = NoGoal
      BY <2>1, <3>1 DEF Paused, Write, Reactivated, MaybeGoal
    <3>2. CASE goal \in Goal
      BY <2>1, <3>2, PausedAlike DEF Why, Alike, Reactivated, MaybeGoal
    <3> QED
      BY <1>1, <3>1, <3>2
  <2>3. Command(g, NoCycle, Reach(g, "over"), TRUE) /\ Reach(g, "over").goal = g
    BY <1>4, <2>1 DEF Pause, Reach
  <2> QED
    BY <1>3, <2>2, <2>3
<1>5. CASE Resume
  <2>1. PICK c \in Cycle : c = Fresh /\ at[c] = "unused"
    BY <1>5, FreshUnused DEF Resume
  <2>2. PICK g : g = [goal EXCEPT !.status = "active", !.errs = 0, !.ring = EmptyRing]
    OBVIOUS
  <2>3. goal \in Goal /\ goal # NoGoal
    BY <1>1, <1>5 DEF Resume
  <2>4. g \in Goal /\ ~Loops(g) /\ g.by = goal.by /\ g.tasks = goal.tasks
    BY <2>2, <2>3, ResumedFacts
  <2>5. PICK o : o = Starting(g)
    OBVIOUS
  <2>6. Command(o.goal, c, o, FALSE)
    BY <1>5, <2>1, <2>2, <2>5 DEF Resume
  <2>7. Good(o) /\ o.goal \in MaybeGoal
    BY <2>4, <2>5, StartingGood DEF Good
  <2>8. Reactivated(g, o.goal)
    BY <2>4, <2>5, StartingReactivates
  <2>9. Reactivated(goal, o.goal)
    BY <2>3, <2>4, <2>8 DEF Reactivated
  <2> QED
    BY <1>3, <2>6, <2>7, <2>9
<1>6. CASE Clear
  <2>1. Command(NoGoal, NoCycle, Reach(NoGoal, "over"), TRUE) /\ Reach(NoGoal, "over").goal = NoGoal
    BY <1>6 DEF Clear, Reach
  <2>2. NoGoal \in MaybeGoal /\ Reactivated(goal, NoGoal)
    BY DEF MaybeGoal, Reactivated
  <2> QED
    BY <1>3, <2>1, <2>2
<1>7. CASE EditObjective
  <2>1. goal \in Goal /\ goal' = [goal EXCEPT !.ring = EmptyRing] /\ 0 \in 0 .. Stagnation
    BY <1>1, <1>7, ThresholdsAssumption DEF EditObjective
  <2>2. goal'.tasks = goal.tasks /\ goal'.by = goal.by
    BY <2>1, RingFacts
  <2>3. at' = at /\ goal # NoGoal
    BY <1>7 DEF EditObjective, loops
  <2>4. Honest(goal, goal')
    BY <2>2, <2>3, SameTasksHonest DEF SameTasks
  <2> QED
    BY <2>3, <2>4, HonestFair DEF Started
<1> QED
  BY <1>1, <1>2, <1>4, <1>5, <1>6, <1>7 DEF UserStep

LEMMA NextHonest ==
  ASSUME BaseInv, OrderInv, OwnerInv, ~disturbed, [Next]_vars
  PROVE  Fair
<1>1. goal \in MaybeGoal
  BY DEF BaseInv, TypeOK, MaybeGoal
<1>2. ASSUME NEW c \in Cycle, LoopStep(c)
      PROVE  Fair
  BY <1>2, LoopHonest, HonestFair
<1>3. ASSUME NEW c \in Cycle, Act(c)
      PROVE  Fair
  <2>1. goal' = Noticed(goal, work[c]) /\ work[c] \in {"turn", "compact"} /\ at' = at
    BY <1>3 DEF Act
  <2>2. SameTasks(goal, goal')
    <3>1. PICK who \in {"turn", "compact"} : who = work[c]
      BY <2>1
    <3>2. PICK h : h = Noticed(goal, who)
      OBVIOUS
    <3>3. Seen(goal, h, who)
      BY <1>1, <3>1, <3>2, NoticedFacts
    <3> QED
      BY <2>1, <3>1, <3>2, <3>3 DEF SameTasks, Seen
  <2> QED
    BY <2>1, <2>2, SameTasksHonest, HonestFair DEF Started
<1>4. CASE Restart
  <2>1. SameTasks(goal, goal')
    <3>1. SameTasks(goal, Restored(goal))
      BY <1>1, RestoredOrder
    <3> QED
      BY <1>4, <3>1 DEF Restart
  <2>2. \A e \in Cycle : Started(e) => Started(e)'
    BY <1>4 DEF Restart, Started
  <2> QED
    BY <2>1, <2>2, SameTasksHonest, HonestFair
<1>5. CASE UNCHANGED vars
  <2>1. goal' = goal /\ at' = at
    BY <1>5 DEF vars, loops
  <2> QED
    BY <2>1, SameTasksHonest, HonestFair DEF SameTasks, Started
<1> QED
  BY <1>2, <1>3, <1>4, <1>5, UserHonest DEF Next

(* What is disturbed stays disturbed.                                         *)
LEMMA DisturbedStays ==
  ASSUME disturbed, [Next]_vars
  PROVE  disturbed'
<1>1. ASSUME NEW c \in Cycle, LoopStep(c) \/ Act(c)
      PROVE  disturbed'
  BY <1>1 DEF LoopStep, Evaluated, EvaluationFails, Wake, Send, SendFails, TurnSent, CompactSent,
              TurnDone, TurnFails, TurnSettled, CompactEnds, Act
<1>2. ASSUME UserStep
      PROVE  disturbed'
  BY <1>2 DEF UserStep, Start, Pause, Resume, Clear, EditObjective, Command
<1> QED
  BY <1>1, <1>2 DEF Next, Restart, vars

(* The owner of the goal has been started, which makes a new goal another one. *)
LEMMA Owned == Spec => []OwnerInv
<1>1. Init => OwnerInv
  BY DEF Init, OwnerInv
<1>2. GoalInv /\ OwnerInv /\ [Next]_vars => OwnerInv'
  <2>1. ASSUME GoalInv, OwnerInv, [Next]_vars, ~disturbed
        PROVE  OwnerInv'
    BY <2>1, NextHonest DEF GoalInv, BaseInv, Fair
  <2>2. ASSUME [Next]_vars, disturbed
        PROVE  OwnerInv'
    BY <2>2, DisturbedStays DEF OwnerInv
  <2> QED
    BY <2>1, <2>2
<1> QED
  BY <1>1, <1>2, GoalInvariance, PTL DEF Spec

LEMMA StepHonest ==
  ASSUME GoalInv, OwnerInv, [Next]_vars, SameGoal, ~disturbed
  PROVE  Honest(goal, goal') /\ goal' # NoGoal
BY NextHonest DEF GoalInv, BaseInv, Fair, SameGoal

(* No step makes a task done without a turn of its own that acted, or the     *)
(* task is toolless.                                                          *)
THEOREM DoneHasEvidence == Spec => DoneByEvidence
<1>1. ASSUME GoalInv, OwnerInv, [Next]_vars
      PROVE  SameGoal => \A i \in DOMAIN goal.tasks :
               Becomes(i, "done") => disturbed \/ OwnEvidence(i)
  BY <1>1, StepHonest DEF Honest, Becomes, OwnEvidence
<1> QED
  BY <1>1, GoalInvariance, Owned, PTL DEF Spec, DoneByEvidence

(* No step fails a task for the repetitions of the tasks before it.           *)
THEOREM KillsAreOwn == Spec => KilledWasRead
<1>1. ASSUME GoalInv, OwnerInv, [Next]_vars
      PROVE  SameGoal => \A i \in DOMAIN goal.tasks :
               Killed(i) => disturbed \/ goal.compactionFailed \/ goal.read
  BY <1>1, StepHonest DEF Honest, Becomes, Killed
<1> QED
  BY <1>1, GoalInvariance, Owned, PTL DEF Spec, KilledWasRead
=============================================================================
