--------------------------- MODULE ScheduleProofs ---------------------------
(***************************************************************************)
(* What Schedule promises, for every number of deliveries, every recurrence  *)
(* and every bound: TypeOK; an occurrence has one run; a due occurrence goes  *)
(* to a handler; and, with one settings page, a schedule has its alarm.       *)
(***************************************************************************)
EXTENDS Schedule, TLAPS

(* The next occurrence is a time.                                             *)
LEMMA NextOccurrenceType ==
  ASSUME NEW p \in Phase, NEW t \in Nat
  PROVE  NextOccurrence(p, t) \in Nat
<1>1. (t + Period - p) % Period \in 0 .. Period - 1
  BY PeriodAssumption DEF Phase
<1> QED
  BY <1>1, PeriodAssumption DEF NextOccurrence, Phase

(* What an actor plans has the type of what it has read.                      *)
LEMMA PlansType ==
  ASSUME TypeOK, NEW a \in Actor, NEW p \in Phase, NEW t \in Nat,
         Plans(a, p, NextOccurrence(p, t))
  PROVE  seen' \in [Actor -> Seen] /\ at' \in [Actor -> {"idle", "fired", "saved", "due",
           "writing", "arming", "armed", "running"}]
<1>1. NextOccurrence(p, t) \in Nat
  BY NextOccurrenceType
<1> QED
  BY <1>1 DEF TypeOK, Plans, Moves, Stored, Seen

LEMMA NothingType ==
  /\ Nothing \in Seen
  /\ \A p \in Phase \cup {Off} : [Nothing EXCEPT !.phase = p] \in Seen
  BY DEF Nothing, Seen

-----------------------------------------------------------------------------
(* The type invariant.                                                        *)
LEMMA InitType == Init => TypeOK
<1> SUFFICES ASSUME Init PROVE TypeOK
  OBVIOUS
<1>1. PICK p \in Phase \cup {Off}, e \in Editor :
        /\ routine = [revision |-> 1, phase |-> p, nextRunAt |-> NoTime]
        /\ at = [a \in Actor |-> IF a = e THEN "saved" ELSE "idle"]
        /\ seen = [a \in Actor |-> IF a = e THEN [Nothing EXCEPT !.phase = p] ELSE Nothing]
        /\ alarm = NoAlarm /\ session = TRUE /\ leaving = FALSE /\ up = TRUE /\ now = 0
        /\ runs = <<>> /\ dropped = FALSE /\ stops = 0
  BY DEF Init
<1>2. routine \in Stored
  BY <1>1 DEF Stored
<1>3. seen \in [Actor -> Seen]
  BY <1>1, NothingType
<1>4. at \in [Actor -> {"idle", "saved"}]
  BY <1>1
<1>5. alarm \in Nat \cup {NoAlarm} /\ now \in Nat /\ runs \in Seq(Nat \cup {NoTime}) /\ stops \in Nat
  BY <1>1
<1>6. session \in BOOLEAN /\ leaving \in BOOLEAN /\ up \in BOOLEAN /\ dropped \in BOOLEAN
  BY <1>1
<1> QED
  BY <1>2, <1>3, <1>4, <1>5, <1>6 DEF TypeOK

LEMMA StepType == TypeOK /\ [Next]_vars => TypeOK'
<1> SUFFICES ASSUME TypeOK, [Next]_vars PROVE TypeOK'
  OBVIOUS
<1> USE NothingType DEF TypeOK, Moves, Ends
<1>1. ASSUME NEW a \in Actor, Write(a) PROVE TypeOK'
  <2>1. routine' \in Stored
    BY <1>1 DEF Write, Matches, Stored, Seen
  <2> QED
    BY <1>1, <2>1 DEF Write, Actor
<1>2. ASSUME NEW a \in Actor, Arm(a) PROVE TypeOK'
  <2>1. seen[a].next \in Nat
    BY DEF Seen
  <2> QED
    BY <1>2, <2>1 DEF Arm, Planned
<1>3. ASSUME NEW h \in Handler, Read(h) PROVE TypeOK'
  <2>1. CASE Scheduled
    <3> DEFINE t == IF routine.nextRunAt = NoTime THEN now ELSE Later(now, routine.nextRunAt)
    <3>1. t \in Nat
      BY DEF Later, Stored
    <3>2. routine.phase \in Phase
      BY <2>1 DEF Scheduled, Stored
    <3>3. Plans(h, routine.phase, NextOccurrence(routine.phase, t))
      BY <1>3, <2>1 DEF Read
    <3> QED
      BY <1>3, <2>1, <3>1, <3>2, <3>3, PlansType DEF Read, Actor
  <2>2. CASE ~Scheduled
    BY <1>3, <2>2 DEF Read, Actor
  <2> QED
    BY <2>1, <2>2
<1>4. ASSUME NEW h \in Handler, Decide(h) PROVE TypeOK'
  BY <1>4 DEF Decide
<1>5. ASSUME NEW h \in Handler, CreateRun(h) PROVE TypeOK'
  <2>1. seen[h].nextRunAt \in Nat \cup {NoTime}
    BY DEF Seen, Actor
  <2>2. Append(runs, seen[h].nextRunAt) \in Seq(Nat \cup {NoTime})
    BY <2>1
  <2> QED
    BY <1>5, <2>2 DEF CreateRun
<1>6. ASSUME NEW e \in Editor, Reconcile(e) PROVE TypeOK'
  <2>1. CASE seen[e].phase = Off \/ routine.revision = 0
    BY <1>6, <2>1 DEF Reconcile
  <2>2. CASE seen[e].phase # Off /\ routine.revision # 0
    <3>1. seen[e].phase \in Phase
      BY <2>2 DEF Seen, Actor
    <3> QED
      BY <1>6, <2>2, <3>1, PlansType DEF Reconcile, Actor
  <2> QED
    BY <2>1, <2>2
<1>7. ASSUME Synchronise PROVE TypeOK'
  <2>1. CASE ToRestore /\ Unplanned
    <3>1. routine.phase \in Phase
      BY <2>1 DEF ToRestore, Scheduled, Stored
    <3> QED
      BY <1>7, <2>1, <3>1, PlansType DEF Synchronise, Actor
  <2>2. CASE ~ToRestore
    BY <1>7, <2>2 DEF Synchronise
  <2>3. CASE ToRestore /\ ~Unplanned
    <3>1. Later(routine.nextRunAt, now) \in Nat
      BY <2>3 DEF Later, Unplanned, Stored
    <3> QED
      BY <1>7, <2>3, <3>1 DEF Synchronise
  <2> QED
    BY <2>1, <2>2, <2>3
<1>8. ASSUME NEW h \in Handler, Fire(h) PROVE TypeOK'
  BY <1>8 DEF Fire
<1>9. ASSUME NEW e \in Editor, NEW p \in Phase \cup {Off}, Save(e, p) PROVE TypeOK'
  <2>1. routine' \in Stored
    BY <1>9 DEF Save, Stored
  <2> QED
    BY <1>9, <2>1 DEF Save, Actor
<1>10. ASSUME NEW e \in Editor, Delete(e) PROVE TypeOK'
  BY <1>10 DEF Delete, Stored
<1>11. CASE Touch
  <2>1. routine' \in Stored
    BY <1>11 DEF Touch, Stored
  <2> QED
    BY <1>11, <2>1 DEF Touch, worker
<1>12. CASE Suspend
  BY <1>12 DEF Suspend
<1>16. CASE Leave
  BY <1>16 DEF Leave
<1>17. CASE Tick
  BY <1>17 DEF Tick, worker
<1>13. CASE SignIn \/ Wake
  BY <1>13 DEF SignIn, Wake
<1>14. CASE Stop
  <2>1. at' \in [Actor -> {"idle"}] /\ seen' \in [Actor -> Seen]
    BY <1>14 DEF Stop
  <2>2. alarm' \in Nat \cup {NoAlarm} /\ stops' \in Nat
    BY <1>14 DEF Stop
  <2> QED
    BY <1>14, <2>1, <2>2 DEF Stop
<1>15. CASE UNCHANGED vars
  BY <1>15 DEF vars, worker
<1> QED
  BY <1>1, <1>2, <1>3, <1>4, <1>5, <1>6, <1>7, <1>8, <1>9, <1>10, <1>11, <1>12, <1>13,
     <1>14, <1>15, <1>16, <1>17 DEF Next, Proceeds

(* Every state of the schedule has its type: whatever was planned is a time.   *)
THEOREM TypeCorrect == Spec => []TypeOK
<1> QED
  BY InitType, StepType, PTL DEF Spec

-----------------------------------------------------------------------------
(* An occurrence has one run.                                                 *)
LEMMA StepRunsOnce == TypeOK /\ RunsOnce /\ [Next]_vars => RunsOnce'
<1> SUFFICES ASSUME TypeOK, RunsOnce, [Next]_vars PROVE RunsOnce'
  OBVIOUS
<1>1. CASE UNCHANGED runs
  BY <1>1 DEF RunsOnce
<1>2. ASSUME NEW h \in Handler, CreateRun(h), Fresh(h) PROVE RunsOnce'
  <2> DEFINE k == seen[h].nextRunAt
  <2>1. runs' = Append(runs, k) /\ \A i \in DOMAIN runs : runs[i] # k
    BY <1>2 DEF CreateRun, Fresh, Taken
  <2>2. runs \in Seq(Nat \cup {NoTime}) /\ k \in Nat \cup {NoTime}
    BY DEF TypeOK, Seen, Actor
  <2>3. DOMAIN runs' = 1 .. Len(runs) + 1 /\ runs'[Len(runs) + 1] = k
        /\ \A i \in DOMAIN runs : runs'[i] = runs[i]
    BY <2>1, <2>2
  <2>4. DOMAIN runs = 1 .. Len(runs) /\ Len(runs) \in Nat
    BY <2>2
  <2> SUFFICES ASSUME NEW i \in DOMAIN runs', NEW j \in DOMAIN runs', runs'[i] = runs'[j]
               PROVE  i = j
    BY DEF RunsOnce
  <2>5. CASE i \in DOMAIN runs /\ j \in DOMAIN runs
    BY <2>3, <2>5 DEF RunsOnce
  <2>6. CASE i \notin DOMAIN runs \/ j \notin DOMAIN runs
    BY <2>1, <2>3, <2>4, <2>6
  <2> QED
    BY <2>5, <2>6
<1> QED
  BY <1>1, <1>2 DEF Next, Proceeds, Write, Arm, Read, Decide, CreateRun, Reconcile,
     Synchronise, Fire, Save, Delete, Touch, Suspend, Leave, SignIn, Stop, Wake, Tick, vars

(* However often the alarm is delivered, and however often an edit makes an    *)
(* occurrence the next one again, it has at most one run.                      *)
THEOREM OccurrencesRunOnce == Spec => []RunsOnce
<1>1. Init => RunsOnce
  BY DEF Init, RunsOnce
<1> QED
  BY <1>1, TypeCorrect, StepRunsOnce, PTL DEF Spec

-----------------------------------------------------------------------------
(* No update is lost: who may still write has read the routine as it is.       *)
Older ==
  \A a \in Actor :
    at[a] = "writing" /\ routine.revision # 0 => seen[a].revision <= routine.revision
Carried ==
  \A a \in Actor : at[a] = "writing" /\ Matches(a) => seen[a].nextRunAt = routine.nextRunAt
SyncUnplanned == at[Sync] = "writing" => seen[Sync].nextRunAt = NoTime
NoLostUpdate == Older /\ Carried /\ SyncUnplanned

(* An actor that plans has read the routine just now.                         *)
LEMMA PlansNoLostUpdate ==
  ASSUME TypeOK, NoLostUpdate, NEW a \in Actor, NEW p, NEW n, Plans(a, p, n),
         UNCHANGED routine, a = Sync => routine.nextRunAt = NoTime
  PROVE  NoLostUpdate'
<1>1. \A b \in Actor \ {a} : at'[b] = at[b] /\ seen'[b] = seen[b]
  BY DEF Plans, Moves, TypeOK
<1>2. seen'[a].revision = routine.revision /\ seen'[a].nextRunAt = routine.nextRunAt
  BY DEF Plans, TypeOK
<1>3. Older'
  BY <1>1, <1>2 DEF NoLostUpdate, Older, TypeOK, Stored
<1>4. Carried'
  BY <1>1, <1>2 DEF NoLostUpdate, Carried, Matches
<1>5. SyncUnplanned'
  BY <1>1, <1>2 DEF NoLostUpdate, SyncUnplanned, Actor
<1> QED
  BY <1>3, <1>4, <1>5 DEF NoLostUpdate

(* A new revision, or a deletion, refuses everyone who has read an older one.  *)
LEMMA NewRevisionNoLostUpdate ==
  ASSUME TypeOK, NoLostUpdate, routine.revision # 0,
         routine'.revision \in {0, routine.revision + 1},
         \A b \in Actor : at'[b] = "writing" => at[b] = "writing" /\ seen'[b] = seen[b]
  PROVE  NoLostUpdate' /\ \A b \in Actor : at'[b] = "writing" => ~Matches(b)'
<1>1. routine.revision \in Nat /\ \A b \in Actor : seen[b].revision \in Nat
  BY DEF TypeOK, Stored, Seen
<1>2. \A b \in Actor : at'[b] = "writing" => ~Matches(b)'
  BY <1>1 DEF NoLostUpdate, Older, Matches
<1>3. Older'
  BY <1>1 DEF NoLostUpdate, Older
<1>4. Carried'
  BY <1>2 DEF Carried
<1>5. SyncUnplanned'
  BY DEF NoLostUpdate, SyncUnplanned, Actor
<1> QED
  BY <1>2, <1>3, <1>4, <1>5 DEF NoLostUpdate

(* Nobody begins to write and the routine stays.                              *)
LEMMA SameRevisionNoLostUpdate ==
  ASSUME TypeOK, NoLostUpdate,
         routine'.revision = routine.revision, routine'.nextRunAt = routine.nextRunAt,
         \A b \in Actor : at'[b] = "writing" => at[b] = "writing" /\ seen'[b] = seen[b]
  PROVE  NoLostUpdate'
<1>1. Older'
  BY DEF NoLostUpdate, Older
<1>2. Carried'
  BY DEF NoLostUpdate, Carried, Matches
<1>3. SyncUnplanned'
  BY DEF NoLostUpdate, SyncUnplanned, Actor
<1> QED
  BY <1>1, <1>2, <1>3 DEF NoLostUpdate

LEMMA StepNoLostUpdate == TypeOK /\ NoLostUpdate /\ [Next]_vars => NoLostUpdate'
<1> SUFFICES ASSUME TypeOK, NoLostUpdate, [Next]_vars PROVE NoLostUpdate'
  OBVIOUS
<1> USE DEF Moves, Ends
<1>t. at \in [Actor -> {"idle", "fired", "saved", "due", "writing", "arming", "armed", "running"}]
      /\ seen \in [Actor -> Seen] /\ routine.revision \in Nat
  BY DEF TypeOK, Stored
<1>1. ASSUME NEW a \in Actor, Write(a) PROVE NoLostUpdate'
  <2>1. CASE Matches(a)
    <3>1. routine.revision # 0 /\ routine'.revision = routine.revision + 1
      BY <1>1, <2>1 DEF Write, Matches
    <3>2. \A b \in Actor : at'[b] = "writing" => at[b] = "writing" /\ seen'[b] = seen[b]
      BY <1>1, <1>t, <2>1 DEF Write
    <3> QED
      BY <3>1, <3>2, NewRevisionNoLostUpdate
  <2>2. CASE ~Matches(a)
    BY <1>1, <1>t, <2>2, SameRevisionNoLostUpdate DEF Write
  <2> QED
    BY <2>1, <2>2
<1>2. ASSUME NEW a \in Actor, Arm(a) PROVE NoLostUpdate'
  BY <1>2, <1>t, SameRevisionNoLostUpdate DEF Arm
<1>3. ASSUME NEW h \in Handler, Read(h) PROVE NoLostUpdate'
  <2>1. CASE Scheduled
    BY <1>3, <2>1, PlansNoLostUpdate, ActorsAssumption DEF Read, Actor
  <2>2. CASE ~Scheduled
    BY <1>3, <1>t, <2>2, SameRevisionNoLostUpdate DEF Read, Actor
  <2> QED
    BY <2>1, <2>2
<1>4. ASSUME NEW h \in Handler, Decide(h) \/ CreateRun(h) PROVE NoLostUpdate'
  BY <1>4, <1>t, SameRevisionNoLostUpdate DEF Decide, CreateRun, Actor
<1>5. ASSUME NEW e \in Editor, Reconcile(e) PROVE NoLostUpdate'
  <2>1. CASE seen[e].phase = Off \/ routine.revision = 0
    BY <1>5, <1>t, <2>1, SameRevisionNoLostUpdate DEF Reconcile, Actor
  <2>2. CASE seen[e].phase # Off /\ routine.revision # 0
    BY <1>5, <2>2, PlansNoLostUpdate, ActorsAssumption DEF Reconcile, Actor
  <2> QED
    BY <2>1, <2>2
<1>6. ASSUME Synchronise PROVE NoLostUpdate'
  <2>1. CASE ToRestore /\ Unplanned
    BY <1>6, <2>1, PlansNoLostUpdate DEF Synchronise, Unplanned, Actor
  <2>2. CASE ~(ToRestore /\ Unplanned)
    BY <1>6, <1>t, <2>2, SameRevisionNoLostUpdate DEF Synchronise, Actor
  <2> QED
    BY <2>1, <2>2
<1>7. ASSUME NEW h \in Handler, Fire(h) PROVE NoLostUpdate'
  BY <1>7, <1>t, SameRevisionNoLostUpdate DEF Fire, Actor
<1>8. ASSUME NEW e \in Editor, NEW p \in Phase \cup {Off}, Save(e, p) PROVE NoLostUpdate'
  <2>1. routine.revision # 0 /\ routine'.revision = routine.revision + 1
    BY <1>8 DEF Save
  <2>2. \A b \in Actor : at'[b] = "writing" => at[b] = "writing" /\ seen'[b] = seen[b]
    BY <1>8, <1>t DEF Save, Actor
  <2> QED
    BY <2>1, <2>2, NewRevisionNoLostUpdate
<1>9. ASSUME NEW e \in Editor, Delete(e) PROVE NoLostUpdate'
  <2>1. routine.revision # 0 /\ routine'.revision = 0
    BY <1>9 DEF Delete
  <2>2. \A b \in Actor : at'[b] = "writing" => at[b] = "writing" /\ seen'[b] = seen[b]
    BY <1>9, <1>t DEF Delete, Actor
  <2> QED
    BY <2>1, <2>2, NewRevisionNoLostUpdate
<1>10. CASE Touch
  <2>1. routine.revision # 0 /\ routine'.revision = routine.revision + 1
    BY <1>10 DEF Touch, TypeOK, Stored
  <2> QED
    BY <1>10, <2>1, NewRevisionNoLostUpdate DEF Touch, worker
<1>11. CASE Suspend \/ Leave \/ SignIn \/ Wake \/ Tick \/ UNCHANGED vars
  BY <1>11, <1>t, SameRevisionNoLostUpdate DEF Suspend, Leave, SignIn, Wake, Tick, vars, worker, Actor
<1>12. CASE Stop
  BY <1>12, SameRevisionNoLostUpdate DEF Stop
<1> QED
  BY <1>1, <1>2, <1>3, <1>4, <1>5, <1>6, <1>7, <1>8, <1>9, <1>10, <1>11, <1>12
     DEF Next, Proceeds

LEMMA NoLostUpdateAlways == Spec => [](TypeOK /\ NoLostUpdate)
<1>1. Init => NoLostUpdate
  BY DEF Init, NoLostUpdate, Older, Carried, SyncUnplanned, Actor
<1> QED
  BY <1>1, TypeCorrect, StepNoLostUpdate, PTL DEF Spec

(* An occurrence that is due is never passed over: only a handler that carries *)
(* it, or an edit of the user, puts another one in its place.                  *)
THEOREM DueOccurrencesGoToHandlers == Spec => DueGoesToHandler
<1> DEFINE Taken2 ==
      Due /\ Scheduled' /\ routine'.nextRunAt # routine.nextRunAt =>
       \/ \E h \in Handler : at'[h] = "arming" /\ seen[h].nextRunAt = routine.nextRunAt
       \/ \E e \in Editor : at'[e] \in {"saved", "arming"}
<1>1. TypeOK /\ NoLostUpdate /\ [Next]_vars => [Taken2]_vars
  <2> SUFFICES ASSUME TypeOK, NoLostUpdate, Next, Due, Scheduled',
                      routine'.nextRunAt # routine.nextRunAt
               PROVE  \/ \E h \in Handler : at'[h] = "arming" /\ seen[h].nextRunAt = routine.nextRunAt
                      \/ \E e \in Editor : at'[e] \in {"saved", "arming"}
    OBVIOUS
  <2>1. ASSUME NEW a \in Actor, Write(a)
        PROVE  \/ \E h \in Handler : at'[h] = "arming" /\ seen[h].nextRunAt = routine.nextRunAt
               \/ \E e \in Editor : at'[e] \in {"saved", "arming"}
    <3>1. Matches(a) /\ at[a] = "writing" /\ at'[a] = "arming"
      BY <2>1 DEF Write, Goes, Moves, TypeOK
    <3>2. seen[a].nextRunAt = routine.nextRunAt
      BY <3>1 DEF NoLostUpdate, Carried
    <3>3. a # Sync
      BY <3>1, <3>2 DEF NoLostUpdate, SyncUnplanned, Due
    <3> QED
      BY <3>1, <3>2, <3>3 DEF Actor
  <2>2. ASSUME NEW e \in Editor, NEW p \in Phase \cup {Off}, Save(e, p)
        PROVE  at'[e] = "saved"
    BY <2>2 DEF Save, Moves, TypeOK, Actor
  <2>3. ASSUME NEW e \in Editor, Delete(e) PROVE FALSE
    BY <2>3 DEF Delete, Scheduled
  <2>4. ASSUME Touch PROVE FALSE
    BY <2>4 DEF Touch, TypeOK, Stored
  <2> QED
    BY <2>1, <2>2, <2>3, <2>4 DEF Next, Proceeds, Arm, Read, Decide, CreateRun, Reconcile,
       Synchronise, Fire, Suspend, Leave, SignIn, Stop, Wake, Tick
<1> QED
  BY <1>1, NoLostUpdateAlways, PTL DEF Spec, DueGoesToHandler

-----------------------------------------------------------------------------
(* With one settings page, nobody but its user changes the phase, and the      *)
(* alarm that follows an update is the one of the stored occurrence.           *)
OneEditor == \A e, f \in Editor : e = f

Deleted == routine.revision = 0 => routine.phase = Off
SavedPhase ==
  \A e \in Editor : at[e] \in {"saved", "writing"} => seen[e].phase = routine.phase
ReadPhase ==
  \A a \in Actor : at[a] = "writing" /\ Matches(a) => seen[a].phase = routine.phase
Written == \A a \in Actor : at[a] = "arming" => routine.nextRunAt = seen[a].next
Kept == Deleted /\ SavedPhase /\ ReadPhase /\ Written

LEMMA StepKept ==
  OneEditor /\ TypeOK /\ NoLostUpdate /\ Kept /\ [Next]_vars => Kept'
<1> SUFFICES ASSUME OneEditor, TypeOK, NoLostUpdate, Kept, [Next]_vars PROVE Kept'
  OBVIOUS
<1> USE DEF Moves, Ends
<1>t. at \in [Actor -> {"idle", "fired", "saved", "due", "writing", "arming", "armed", "running"}]
      /\ seen \in [Actor -> Seen] /\ routine.revision \in Nat
  BY DEF TypeOK, Stored
<1>n. Nothing.phase = Off
  BY DEF Nothing
(* Who plans has read the phase; what is saved is its own phase.              *)
<1>p. ASSUME NEW a \in Actor, NEW p, NEW n, Plans(a, p, n), UNCHANGED routine,
             p = routine.phase
      PROVE  Kept'
  <2>1. \A b \in Actor \ {a} : at'[b] = at[b] /\ seen'[b] = seen[b]
    BY <1>p, <1>t DEF Plans
  <2>2. seen'[a].phase = routine.phase /\ at'[a] = "writing"
    BY <1>p, <1>t DEF Plans
  <2>3. SavedPhase'
    BY <1>p, <2>1, <2>2 DEF Kept, SavedPhase, Actor
  <2>4. ReadPhase'
    BY <1>p, <2>1, <2>2 DEF Kept, ReadPhase, Matches
  <2>5. Written'
    BY <1>p, <2>1, <2>2 DEF Kept, Written
  <2> QED
    BY <1>p, <2>3, <2>4, <2>5 DEF Kept, Deleted
(* Nobody begins anything and the routine stays.                              *)
<1>s. ASSUME UNCHANGED routine,
             \A b \in Actor : at'[b] \in {"saved", "writing", "arming"} =>
                              at'[b] = at[b] /\ seen'[b] = seen[b]
      PROVE  Kept'
  BY <1>s DEF Kept, Deleted, SavedPhase, ReadPhase, Written, Matches, Actor
<1>1. ASSUME NEW a \in Actor, Write(a) PROVE Kept'
  <2>1. CASE Matches(a)
    <3>1. at[a] = "writing" /\ \A b \in Actor \ {a} : at[b] # "arming"
      BY <1>1 DEF Write, Goes
    <3>2. seen' = seen /\ at' = [at EXCEPT ![a] = "arming"]
      BY <1>1, <2>1 DEF Write
    <3>3. routine' = [revision |-> routine.revision + 1, phase |-> seen[a].phase,
                      nextRunAt |-> seen[a].next]
      BY <1>1, <2>1 DEF Write
    <3>4. routine'.phase = routine.phase /\ routine'.revision = routine.revision + 1
          /\ routine'.nextRunAt = seen[a].next
      BY <2>1, <3>1, <3>3 DEF Kept, ReadPhase
    <3>5. \A b \in Actor : at'[b] = "writing" => ~Matches(b)'
      <4>1. \A b \in Actor : at'[b] = "writing" => at[b] = "writing" /\ seen'[b] = seen[b]
        BY <1>t, <3>2
      <4> QED
        BY <2>1, <3>4, <4>1, NewRevisionNoLostUpdate DEF Matches
    <3>6. SavedPhase'
      BY <1>t, <3>2, <3>4 DEF Kept, SavedPhase, Actor
    <3>7. Written'
      BY <1>t, <3>1, <3>2, <3>4 DEF Written
    <3> QED
      BY <1>t, <3>4, <3>5, <3>6, <3>7 DEF Kept, Deleted, ReadPhase
  <2>2. CASE ~Matches(a)
    BY <1>1, <1>t, <1>s, <2>2 DEF Write
  <2> QED
    BY <2>1, <2>2
<1>2. ASSUME NEW a \in Actor, Arm(a) PROVE Kept'
  BY <1>2, <1>t, <1>s DEF Arm
<1>3. ASSUME NEW h \in Handler, Read(h) PROVE Kept'
  <2>1. CASE Scheduled
    BY <1>3, <1>p, <2>1 DEF Read, Actor
  <2>2. CASE ~Scheduled
    BY <1>3, <1>t, <1>s, <2>2 DEF Read, Actor
  <2> QED
    BY <2>1, <2>2
<1>4. ASSUME NEW h \in Handler, Decide(h) \/ CreateRun(h) PROVE Kept'
  BY <1>4, <1>t, <1>s DEF Decide, CreateRun, Actor
<1>5. ASSUME NEW e \in Editor, Reconcile(e) PROVE Kept'
  <2>1. CASE seen[e].phase = Off \/ routine.revision = 0
    BY <1>5, <1>t, <1>s, <2>1 DEF Reconcile, Actor
  <2>2. CASE seen[e].phase # Off /\ routine.revision # 0
    <3>1. seen[e].phase = routine.phase
      BY <1>5 DEF Reconcile, Goes, Kept, SavedPhase
    <3> QED
      BY <1>5, <1>p, <2>2, <3>1 DEF Reconcile, Actor
  <2> QED
    BY <2>1, <2>2
<1>6. ASSUME Synchronise PROVE Kept'
  <2>1. CASE ToRestore /\ Unplanned
    BY <1>6, <1>p, <2>1 DEF Synchronise, Actor
  <2>2. CASE ~(ToRestore /\ Unplanned)
    BY <1>6, <1>t, <1>s, <2>2 DEF Synchronise, Actor
  <2> QED
    BY <2>1, <2>2
<1>7. ASSUME NEW h \in Handler, Fire(h) PROVE Kept'
  BY <1>7, <1>t, <1>s DEF Fire, Actor
<1>8. ASSUME NEW e \in Editor, NEW p \in Phase \cup {Off},
             routine.revision # 0, Goes(e, "idle"), routine'.phase = p,
             \/ routine'.revision = routine.revision + 1
             \/ routine'.revision = 0 /\ p = Off,
             at' = [at EXCEPT ![e] = "saved"], seen'[e].phase = p,
             \A b \in Actor \ {e} : seen'[b] = seen[b]
      PROVE  Kept'
  <2>1. \A b \in Actor : at'[b] # "arming"
    BY <1>8, <1>t DEF Goes, Actor
  <2>2. \A b \in Actor : at'[b] = "writing" => ~Matches(b)'
    <3>1. \A b \in Actor : at'[b] = "writing" => at[b] = "writing" /\ seen'[b] = seen[b]
      BY <1>8, <1>t DEF Actor
    <3> QED
      BY <1>8, <3>1, NewRevisionNoLostUpdate
  <2>3. SavedPhase'
    BY <1>8 DEF OneEditor, SavedPhase
  <2>4. Deleted'
    BY <1>8, <1>t DEF Deleted
  <2> QED
    BY <2>1, <2>2, <2>3, <2>4 DEF Kept, ReadPhase, Written
<1>9. ASSUME NEW e \in Editor, NEW p \in Phase \cup {Off}, Save(e, p) PROVE Kept'
  <2>1. seen'[e].phase = p /\ \A b \in Actor \ {e} : seen'[b] = seen[b]
    BY <1>9, <1>t DEF Save, Nothing, Actor
  <2>2. routine.revision # 0 /\ routine'.phase = p /\ routine'.revision = routine.revision + 1
    BY <1>9 DEF Save
  <2>3. Goes(e, "idle") /\ at' = [at EXCEPT ![e] = "saved"]
    BY <1>9 DEF Save
  <2> QED
    BY <1>8, <2>1, <2>2, <2>3
<1>10. ASSUME NEW e \in Editor, Delete(e) PROVE Kept'
  <2>1. seen'[e].phase = Off /\ \A b \in Actor \ {e} : seen'[b] = seen[b]
    BY <1>10, <1>t, <1>n DEF Delete, Actor
  <2> QED
    BY <1>8, <1>10, <2>1 DEF Delete
<1>11. CASE Touch
  <2>1. routine.revision # 0 /\ routine'.revision = routine.revision + 1
        /\ routine'.phase = routine.phase /\ routine'.nextRunAt = routine.nextRunAt
    BY <1>11 DEF Touch, TypeOK, Stored
  <2>2. \A b \in Actor : at'[b] = "writing" => ~Matches(b)'
    BY <1>11, <2>1, NewRevisionNoLostUpdate DEF Touch, worker
  <2> QED
    BY <1>11, <1>t, <2>1, <2>2
       DEF Touch, worker, Kept, Deleted, SavedPhase, ReadPhase, Written
<1>12. CASE Suspend \/ Leave \/ SignIn \/ Wake \/ Tick \/ UNCHANGED vars
  BY <1>12, <1>t, <1>s DEF Suspend, Leave, SignIn, Wake, Tick, vars, worker, Actor
<1>13. CASE Stop
  BY <1>13, <1>s DEF Stop
<1> QED
  BY <1>1, <1>2, <1>3, <1>4, <1>5, <1>6, <1>7, <1>9, <1>10, <1>11, <1>12, <1>13
     DEF Next, Proceeds

-----------------------------------------------------------------------------
LEMMA StepArmed ==
  OneEditor /\ TypeOK /\ Kept /\ ArmedOrMinded /\ [Next]_vars => ArmedOrMinded'
<1> SUFFICES ASSUME OneEditor, TypeOK, Kept, ArmedOrMinded, [Next]_vars PROVE ArmedOrMinded'
  OBVIOUS
<1> USE DEF Moves, Ends
<1>t. at \in [Actor -> {"idle", "fired", "saved", "due", "writing", "arming", "armed", "running"}]
      /\ seen \in [Actor -> Seen]
  BY DEF TypeOK
(* Somebody is still at it.                                                   *)
<1>w. ASSUME NEW a \in Actor, at'[a] \in {"fired", "saved", "due", "writing", "arming"}
      PROVE  ArmedOrMinded'
  BY <1>w DEF ArmedOrMinded, Settled
(* Nothing the property is about has changed.                                 *)
<1>s. ASSUME Settled' => Settled, UNCHANGED <<alarm, session, dropped, now>>,
             routine'.phase = routine.phase, routine'.nextRunAt = routine.nextRunAt
      PROVE  ArmedOrMinded'
  BY <1>s DEF ArmedOrMinded, Scheduled, Later
<1>1. ASSUME NEW a \in Actor, Write(a) PROVE ArmedOrMinded'
  <2>1. CASE Matches(a)
    BY <1>1, <1>t, <1>w, <2>1 DEF Write
  <2>2. CASE ~Matches(a)
    BY <1>1, <2>2 DEF Write, ArmedOrMinded
  <2> QED
    BY <2>1, <2>2
<1>2. ASSUME NEW a \in Actor, Arm(a) PROVE ArmedOrMinded'
  <2>1. alarm' = seen[a].next /\ seen[a].next \in Nat /\ UNCHANGED <<routine, now>>
    BY <1>2, <1>t DEF Arm, Planned, Seen
  <2>2. routine.nextRunAt = seen[a].next
    BY <1>2 DEF Arm, Goes, Kept, Written
  <2> QED
    BY <2>1, <2>2, AbsentAssumption DEF ArmedOrMinded, Later, TypeOK
<1>3. ASSUME NEW h \in Handler, Read(h) PROVE ArmedOrMinded'
  <2>1. CASE Scheduled
    <3>1. at'[h] = "writing"
      BY <1>3, <1>t, <2>1 DEF Read, Plans, Actor
    <3> QED
      BY <1>w, <3>1 DEF Actor
  <2>2. CASE ~Scheduled
    BY <1>3, <2>2 DEF Read, ArmedOrMinded, Scheduled
  <2> QED
    BY <2>1, <2>2
<1>4. ASSUME NEW h \in Handler, Decide(h) \/ CreateRun(h) PROVE ArmedOrMinded'
  <2>1. at[h] \in {"armed", "running"} /\ \A b \in Actor \ {h} : at'[b] = at[b]
    BY <1>4, <1>t DEF Decide, CreateRun, Goes, Actor
  <2>2. UNCHANGED <<routine, alarm, session, leaving, up, now, dropped>>
    BY <1>4 DEF Decide, CreateRun
  <2>3. Settled' => Settled
    BY <2>1, <2>2 DEF Settled
  <2> QED
    BY <1>s, <2>2, <2>3
<1>5. ASSUME NEW e \in Editor, Reconcile(e) PROVE ArmedOrMinded'
  <2>1. seen[e].phase = routine.phase
    BY <1>5 DEF Reconcile, Goes, Kept, SavedPhase
  <2>2. CASE seen[e].phase = Off \/ routine.revision = 0
    <3>1. routine'.phase = Off
      BY <1>5, <2>1, <2>2 DEF Reconcile, Kept, Deleted
    <3> QED
      BY <3>1 DEF ArmedOrMinded, Scheduled
  <2>3. CASE seen[e].phase # Off /\ routine.revision # 0
    <3>1. at'[e] = "writing"
      BY <1>5, <1>t, <2>3 DEF Reconcile, Plans, Actor
    <3> QED
      BY <1>w, <3>1 DEF Actor
  <2> QED
    BY <2>2, <2>3
<1>6. ASSUME Synchronise PROVE ArmedOrMinded'
  <2>1. CASE ToRestore /\ Unplanned
    <3>1. at'[Sync] = "writing"
      BY <1>6, <1>t, <2>1 DEF Synchronise, Plans, Actor
    <3> QED
      BY <1>w, <3>1 DEF Actor
  <2>2. CASE ~ToRestore
    BY <1>6, <2>2 DEF Synchronise, ToRestore, ArmedOrMinded, Scheduled
  <2>3. CASE ToRestore /\ ~Unplanned
    <3>1. alarm' = Later(routine.nextRunAt, now) /\ UNCHANGED <<routine, now>>
      BY <1>6, <2>3 DEF Synchronise
    <3>2. routine.nextRunAt \in Nat /\ now \in Nat /\ routine.nextRunAt # NoTime
      BY <2>3 DEF Unplanned, TypeOK, Stored
    <3>3. Later(routine.nextRunAt, now) \in Nat
      BY <3>2 DEF Later
    <3> QED
      BY <3>1, <3>2, <3>3, AbsentAssumption DEF ArmedOrMinded, Later
  <2> QED
    BY <2>1, <2>2, <2>3
<1>7. ASSUME NEW h \in Handler, Fire(h) PROVE ArmedOrMinded'
  <2>1. at'[h] = "fired"
    BY <1>7, <1>t, ActorsAssumption DEF Fire, Actor
  <2> QED
    BY <1>w, <2>1 DEF Actor
<1>8. ASSUME NEW e \in Editor, at' = [at EXCEPT ![e] = "saved"] PROVE ArmedOrMinded'
  BY <1>8, <1>t, <1>w DEF Actor
<1>9. ASSUME NEW e \in Editor, NEW p \in Phase \cup {Off}, Save(e, p) PROVE ArmedOrMinded'
  BY <1>8, <1>9 DEF Save
<1>10. ASSUME NEW e \in Editor, Delete(e) PROVE ArmedOrMinded'
  BY <1>8, <1>10 DEF Delete
<1>11. CASE Touch
  <2>1. routine'.phase = routine.phase /\ routine'.nextRunAt = routine.nextRunAt
    BY <1>11 DEF Touch, TypeOK, Stored
  <2>2. UNCHANGED <<alarm, session, dropped, now, leaving, up, at>>
    BY <1>11 DEF Touch, worker
  <2> QED
    BY <1>s, <2>1, <2>2 DEF Settled
<1>12. CASE Suspend
  BY <1>12 DEF Suspend, ArmedOrMinded, Settled
<1>13. CASE Leave
  BY <1>13 DEF Leave, ArmedOrMinded
<1>14. CASE SignIn
  <2>1. CASE at'[Sync] = "due"
    BY <1>w, <2>1 DEF Actor
  <2>2. CASE dropped'
    BY <2>2 DEF ArmedOrMinded
  <2> QED
    BY <1>14, <1>t, <2>1, <2>2 DEF SignIn, Actor
<1>15. CASE Wake
  <2>1. at'[Sync] = "due"
    BY <1>15, <1>t DEF Wake, Actor
  <2> QED
    BY <1>w, <2>1 DEF Actor
<1>16. CASE Stop
  BY <1>16 DEF Stop, ArmedOrMinded, Settled
<1>17. CASE Tick
  <2>1. now \in Nat /\ now' = now + 1 /\ UNCHANGED <<routine, alarm, session, leaving, up, at, dropped>>
    BY <1>17 DEF Tick, worker, TypeOK
  <2>2. routine.nextRunAt \in Nat \cup {NoTime} /\ alarm \in Nat \cup {NoAlarm}
    BY DEF TypeOK, Stored
  <2> QED
    BY <2>1, <2>2 DEF ArmedOrMinded, Settled, Scheduled, Later
<1>18. CASE UNCHANGED vars
  BY <1>18, <1>s DEF vars, worker, Settled
<1> QED
  BY <1>1, <1>2, <1>3, <1>4, <1>5, <1>6, <1>7, <1>9, <1>10, <1>11, <1>12, <1>13, <1>14,
     <1>15, <1>16, <1>17, <1>18 DEF Next, Proceeds

(* With one settings page, a schedule is never left without its alarm: it is   *)
(* set, and in time, unless somebody is still at it or has failed.             *)
THEOREM SchedulesAreArmed == OneEditor => (Spec => []ArmedOrMinded)
<1> SUFFICES ASSUME OneEditor PROVE Spec => []ArmedOrMinded
  OBVIOUS
<1>1. Init => Kept /\ ArmedOrMinded
  <2> SUFFICES ASSUME Init PROVE Kept /\ ArmedOrMinded
    OBVIOUS
  <2>1. PICK p \in Phase \cup {Off}, e \in Editor :
          /\ routine = [revision |-> 1, phase |-> p, nextRunAt |-> NoTime]
          /\ at = [a \in Actor |-> IF a = e THEN "saved" ELSE "idle"]
          /\ seen = [a \in Actor |-> IF a = e THEN [Nothing EXCEPT !.phase = p] ELSE Nothing]
    BY DEF Init
  <2>2. at[e] = "saved" /\ seen[e].phase = routine.phase /\ \A a \in Actor : at[a] \in {"saved", "idle"}
    BY <2>1 DEF Actor, Nothing
  <2>3. SavedPhase
    BY <2>2 DEF OneEditor, SavedPhase
  <2>4. Deleted /\ ReadPhase /\ Written
    BY <2>1, <2>2 DEF Deleted, ReadPhase, Written
  <2>5. ArmedOrMinded
    BY <2>2 DEF ArmedOrMinded, Settled, Actor
  <2> QED
    BY <2>3, <2>4, <2>5 DEF Kept
<1>2. TypeOK /\ NoLostUpdate /\ Kept /\ ArmedOrMinded /\ [Next]_vars => (Kept /\ ArmedOrMinded)'
  BY StepKept, StepArmed
<1> QED
  BY <1>1, <1>2, NoLostUpdateAlways, PTL DEF Spec
=============================================================================
