---------------------------- MODULE RoutineProofs ----------------------------
(***************************************************************************)
(* What Routines promises for any runs, any calls that resume them and any   *)
(* number of recorded steps.                                                 *)
(***************************************************************************)
EXTENDS Routines, FiniteSetTheorems, TLAPS

-----------------------------------------------------------------------------
(* The inductive invariant.                                                   *)

(* What an item of the queue may rely on: the steps before its own were done, *)
(* an agent that works instead of the replay has taken the run over, and only *)
(* a run that was created as a simulation is simulated.                       *)
Backed(j) ==
  /\ j.pos <= acted[j.run]
  /\ j.agent => Steps = 0 \/ j.run \in handed
  /\ j.simulate => mode[j.run] = "simulation" /\ status[j.run] # "none"

Fresh(j) == j.stage = "begin" /\ j.pos = j.start /\ Backed(j)

PendingInv == \A j \in Range(pending) : Fresh(j)

(* A step is under way, or has been done and is not confirmed.                *)
InStep == {"asking", "marking", "approval", "closing", "unmarking", "granted", "acted"}

(* Where the replay of an item is.                                            *)
InPlace(j) ==
  /\ j.stage = "begin" => j.pos = j.start
  /\ j.stage = "simulate" => j.simulate
  /\ j.stage \in InStep /\ ~j.agent => j.pos < Steps
  /\ j.stage = "acted" => ~j.agent /\ j.pos < acted[j.run]
  /\ j.stage = "end" => j.agent \/ j.pos = Steps
  /\ j.stage \in InStep \cup {"call"} /\ j.run \notin disturbed => j.pos = checkpoint[j.run]

ActiveInv == active # NoJob => Backed(active) /\ InPlace(active)

(* A step from which a run is resumed was reached before.                     *)
CallInv == \A c \in Caller : callAt[c] = "context" =>
  \E r \in Run, n \in 0 .. Steps : target[c] = <<r, n>> /\ n <= acted[r]

StoreInv == \A r \in Run :
  /\ checkpoint[r] <= acted[r]
  /\ r \in creating => status[r] # "none"

(* Nobody is signed in, a sign-in has failed short of the recovery, or         *)
(* somebody is about to look for interrupted runs.                            *)
Recovering(r) == ~session \/ r \in forsaken \/ \E c \in Caller : callAt[c] \in {"boot", "login"}

(* A run that waits for an approval is at one, so that it does not end as     *)
(* one that waits.                                                            *)
MindedInv == \A r \in Run :
  \/ Recovering(r)
  \/ /\ status[r] = "running" => Active(r)
     /\ status[r] = "waiting_approval" =>
          Active(r) /\ active.stage \in {"approval", "closing", "unmarking"}

RoutineInv ==
  /\ TypeOK
  /\ PendingInv
  /\ ActiveInv
  /\ CallInv
  /\ StoreInv
  /\ MindedInv
  /\ ShownAsItRuns
  /\ OneUnconfirmed
  /\ CompletedRanAll

-----------------------------------------------------------------------------
(* The queue.                                                                 *)

LEMMA Waiting == ASSUME TypeOK PROVE Range(pending) \subseteq Job
  BY DEF TypeOK, Range

LEMMA NoneWaits == Range(<< >>) = {}
  BY DEF Range

LEMMA EnqueueQueue ==
  ASSUME TypeOK, NEW job \in Job, Enqueue(job)
  PROVE  /\ pending' \in Seq(Job) /\ Range(pending') \subseteq Range(pending) \cup {job}
         /\ active' = active \/ (active = NoJob /\ active' = job)
<1>1. pending \in Seq(Job)
  BY DEF TypeOK
<1>2. Append(pending, job) \in Seq(Job) /\ Range(Append(pending, job)) \subseteq Range(pending) \cup {job}
  <2>1. Append(pending, job) \in Seq(Job) /\ Len(Append(pending, job)) = Len(pending) + 1
    BY <1>1
  <2>2. \A i \in 1 .. Len(pending) + 1 : Append(pending, job)[i] = IF i = Len(pending) + 1 THEN job ELSE pending[i]
    BY <1>1
  <2>3. DOMAIN Append(pending, job) = 1 .. Len(pending) + 1 /\ DOMAIN pending = 1 .. Len(pending)
    BY <1>1, <2>1
  <2>4. \A i \in 1 .. Len(pending) + 1 : i = Len(pending) + 1 \/ i \in 1 .. Len(pending)
    BY <1>1
  <2> QED
    BY <2>1, <2>2, <2>3, <2>4 DEF Range
<1> QED
  BY <1>1, <1>2 DEF Enqueue, queue

LEMMA TailWaits ==
  ASSUME TypeOK, pending # << >>
  PROVE  /\ Head(pending) \in Range(pending) /\ Tail(pending) \in Seq(Job)
         /\ Range(Tail(pending)) \subseteq Range(pending)
<1>1. pending \in Seq(Job)
  BY DEF TypeOK
<1>2. Len(pending) \in Nat \ {0} /\ Head(pending) = pending[1] /\ DOMAIN pending = 1 .. Len(pending)
  BY <1>1
<1>3. Tail(pending) \in Seq(Job) /\ Len(Tail(pending)) = Len(pending) - 1
      /\ DOMAIN Tail(pending) = 1 .. Len(pending) - 1
  BY <1>1
<1>4. \A i \in 1 .. Len(pending) - 1 : Tail(pending)[i] = pending[i + 1] /\ i + 1 \in 1 .. Len(pending)
  BY <1>1
<1>5. 1 \in 1 .. Len(pending)
  BY <1>2
<1> QED
  BY <1>2, <1>3, <1>4, <1>5 DEF Range

LEMMA JobOverQueue ==
  ASSUME TypeOK, JobOver
  PROVE  /\ pending' \in Seq(Job) /\ Range(pending') \subseteq Range(pending)
         /\ active' = NoJob \/ active' \in Range(pending)
  BY TailWaits DEF JobOver, TypeOK

LEMMA RemoveQueue ==
  ASSUME TypeOK, NEW i \in DOMAIN pending, pending' = RemoveAt(pending, i)
  PROVE  pending' \in Seq(Job) /\ Range(pending') \subseteq Range(pending)
<1> DEFINE l == Len(pending)
           a == SubSeq(pending, 1, i - 1)
           b == SubSeq(pending, i + 1, l)
<1>1. pending \in Seq(Job) /\ l \in Nat /\ i \in 1 .. l /\ DOMAIN pending = 1 .. l
  BY DEF TypeOK
<1>2. a \in Seq(Job) /\ Len(a) = i - 1 /\ \A n \in 1 .. i - 1 : a[n] = pending[n]
  BY <1>1
<1>3. b \in Seq(Job) /\ Len(b) = l - i /\ \A n \in 1 .. l - i : b[n] = pending[i + n]
  BY <1>1
<1>4. pending' = a \o b
  BY DEF RemoveAt
<1> HIDE DEF a, b, l
<1>5. pending' \in Seq(Job) /\ DOMAIN pending' = 1 .. l - 1
  BY <1>1, <1>2, <1>3, <1>4
<1>6. ASSUME NEW n \in 1 .. l - 1 PROVE pending'[n] \in Range(pending)
  <2>1. CASE n <= i - 1
    <3>1. pending'[n] = pending[n] /\ n \in 1 .. l
      BY <1>1, <1>2, <1>3, <1>4, <2>1
    <3> QED
      BY <1>1, <3>1 DEF Range
  <2>2. CASE n > i - 1
    <3>1. pending'[n] = b[n - (i - 1)] /\ n - (i - 1) \in 1 .. l - i
      BY <1>1, <1>2, <1>3, <1>4, <2>2
    <3>2. b[n - (i - 1)] = pending[i + (n - (i - 1))]
      BY <1>3, <3>1
    <3>3. i + (n - (i - 1)) \in 1 .. l
      BY <1>1, <3>1
    <3> QED
      BY <1>1, <3>1, <3>2, <3>3 DEF Range
  <2> QED
    BY <1>1, <2>1, <2>2
<1> QED
  BY <1>5, <1>6 DEF Range

-----------------------------------------------------------------------------
(* The table of transitions.                                                  *)

LEMMA AllowedTable ==
  /\ Allowed["none"] = {} /\ \A s \in Terminal : Allowed[s] = {}
  /\ Allowed["draft"] = {"ready", "cancelled"}
  /\ Allowed["ready"] = {"queued", "cancelled"}
  /\ Allowed["queued"] = {"running", "cancelled"}
  /\ Allowed["running"] = {"waiting_approval", "queued"} \cup Terminal
  /\ Allowed["waiting_approval"] = {"running", "failed", "cancelled"}
  BY DEF Allowed, Status, Terminal

LEMMA TransitionFacts ==
  ASSUME TypeOK, NEW r \in Run, NEW next \in Status \ {"none"}, Transition(r, next)
  PROVE  /\ status' \in [Run -> Status]
         /\ \A q \in Run : q # r => status'[q] = status[q]
         /\ status'[r] = IF next \in Allowed[status[r]] THEN next ELSE status[r]
         /\ \A q \in Run : status'[q] = "none" <=> status[q] = "none"
<1>1. status \in [Run -> Status] /\ Allowed["none"] = {}
  BY AllowedTable DEF TypeOK
<1>2. CASE next \in Allowed[status[r]]
  <2>1. status' = [status EXCEPT ![r] = next] /\ status[r] # "none"
    BY <1>1, <1>2 DEF Transition
  <2> QED
    BY <1>1, <1>2, <2>1
<1>3. CASE next \notin Allowed[status[r]]
  BY <1>1, <1>3 DEF Transition
<1> QED
  BY <1>2, <1>3

LEMMA InitRoutine == Init => RoutineInv
<1> SUFFICES ASSUME Init PROVE RoutineInv
  OBVIOUS
<1>1. TypeOK
  BY StepsAssumption DEF Init, TypeOK, Status
<1>2. PendingInv /\ ActiveInv /\ CallInv /\ StoreInv
  BY NoneWaits, StepsAssumption DEF Init, PendingInv, ActiveInv, CallInv, StoreInv
<1>3. MindedInv /\ ShownAsItRuns /\ OneUnconfirmed /\ CompletedRanAll
  BY StepsAssumption DEF Init, MindedInv, ShownAsItRuns, OneUnconfirmed, CompletedRanAll
<1> QED
  BY <1>1, <1>2, <1>3 DEF RoutineInv

-----------------------------------------------------------------------------
(* Steps that leave the queue and the work done alone.                        *)

LEMMA KeptQueue ==
  ASSUME RoutineInv, UNCHANGED <<active, pending, checkpoint, acted, handed>>,
         disturbed \subseteq disturbed',
         \A r \in Run : status[r] = "none" \/ (mode'[r] = mode[r] /\ status'[r] # "none")
  PROVE  PendingInv' /\ ActiveInv' /\ OneUnconfirmed'
<1>1. /\ Range(pending) \subseteq Job /\ Range(pending)' = Range(pending)
      /\ active # NoJob => active \in Job
  BY Waiting DEF RoutineInv, TypeOK
<1>2. \A j \in Job : j.run \in Run
  BY DEF Job
<1>3. ASSUME NEW j \in Job, Backed(j) PROVE Backed(j)'
  BY <1>2, <1>3 DEF Backed
<1>4. PendingInv'
  BY <1>1, <1>3 DEF RoutineInv, PendingInv, Fresh
<1>5. ActiveInv'
  <2> SUFFICES ASSUME active # NoJob PROVE Backed(active)' /\ InPlace(active)'
    BY DEF ActiveInv
  <2>1. Backed(active) /\ InPlace(active) /\ active.run \in Run
    BY <1>1, <1>2 DEF RoutineInv, ActiveInv
  <2> QED
    BY <2>1 DEF Backed, InPlace
<1> QED
  BY <1>4, <1>5 DEF RoutineInv, OneUnconfirmed

LEMMA CreationStep ==
  ASSUME RoutineInv, NEW r \in Run,
         Promote(r) \/ \E m \in Mode : Create(r, m)
  PROVE  RoutineInv'
<1>0. /\ status \in [Run -> Status] /\ mode \in [Run -> {"none", "live", "simulation"}] /\ TypeOK
      /\ creating \subseteq Run
  BY DEF RoutineInv, TypeOK
<1>1. /\ UNCHANGED <<checkpoint, session, active, pending, cancelling, callAt, todo, target>>
      /\ UNCHANGED <<acted, handed, touched, disturbed, forsaken>>
  BY DEF Create, Promote, queue, calls, history
<1>2. /\ status' \in [Run -> Status] /\ mode' \in [Run -> {"none", "live", "simulation"}]
      /\ creating' \subseteq Run
      /\ status[r] \in {"none", "draft", "ready"} /\ status'[r] \in {"draft", "ready", "queued"}
      /\ \A q \in Run : q # r => status'[q] = status[q] /\ mode'[q] = mode[q] /\ (q \in creating' <=> q \in creating)
      /\ status[r] = "none" \/ mode'[r] = mode[r]
  <2>1. CASE Promote(r)
    <3>1. UNCHANGED <<mode, creating>>
      BY <2>1 DEF Promote
    <3>2. CASE status[r] = "draft" /\ Transition(r, "ready")
      BY <1>0, <3>1, <3>2, AllowedTable, TransitionFacts DEF Status
    <3>3. CASE status[r] = "ready" /\ Transition(r, "queued")
      BY <1>0, <3>1, <3>3, AllowedTable, TransitionFacts DEF Status
    <3> QED
      BY <2>1, <3>2, <3>3 DEF Promote
  <2>2. ASSUME NEW m \in Mode, Create(r, m)
        PROVE  <1>2!:
    BY <1>0, <2>2, ModeAssumption DEF Create, Status
  <2> QED
    BY <2>1, <2>2
<1>3. PendingInv' /\ ActiveInv' /\ OneUnconfirmed'
  BY <1>1, <1>2, KeptQueue
<1>4. TypeOK'
  BY <1>0, <1>1, <1>2 DEF TypeOK
<1>5. CallInv' /\ StoreInv'
  BY <1>1, <1>2 DEF RoutineInv, CallInv, StoreInv
<1>6. MindedInv'
  BY <1>1, <1>2 DEF RoutineInv, MindedInv, Recovering, Active
<1>7. ShownAsItRuns'
  BY <1>0, <1>1, <1>2 DEF RoutineInv, ShownAsItRuns, TypeOK, Job
<1>8. CompletedRanAll'
  BY <1>1, <1>2 DEF RoutineInv, CompletedRanAll
<1> QED
  BY <1>3, <1>4, <1>5, <1>6, <1>7, <1>8 DEF RoutineInv

(* Steps that store nothing but the session.                                  *)
LEMMA StoreKept ==
  ASSUME RoutineInv, TypeOK', UNCHANGED <<active, pending, status, mode, checkpoint, creating>>,
         UNCHANGED <<acted, handed, disturbed>>, CallInv', MindedInv'
  PROVE  RoutineInv'
<1>1. \A r \in Run : status[r] = "none" \/ (mode'[r] = mode[r] /\ status'[r] # "none")
  OBVIOUS
<1>2. PendingInv' /\ ActiveInv' /\ OneUnconfirmed'
  BY <1>1, KeptQueue
<1>3. StoreInv' /\ CompletedRanAll' /\ ShownAsItRuns'
  BY DEF RoutineInv, StoreInv, CompletedRanAll, ShownAsItRuns
<1> QED
  BY <1>2, <1>3 DEF RoutineInv

LEMMA SessionStep ==
  ASSUME RoutineInv, SignOut \/ \E c \in Caller : SignIn(c)
  PROVE  RoutineInv'
<1>1. /\ UNCHANGED <<active, pending, status, mode, checkpoint, creating>>
      /\ UNCHANGED <<acted, handed, disturbed, target, todo, cancelling, touched>>
      /\ session' \in BOOLEAN /\ callAt \in [Caller -> {"idle", "boot", "login", "loop", "context"}]
      /\ forsaken' \in {forsaken, {}}
      /\ \/ session' = FALSE /\ UNCHANGED callAt
         \/ \E c \in Caller : callAt' = [callAt EXCEPT ![c] = "login"]
  BY DEF SignOut, SignIn, queue, calls, history, RoutineInv, TypeOK
<1>2. TypeOK'
  BY <1>1 DEF RoutineInv, TypeOK
<1>3. CallInv'
  BY <1>1 DEF RoutineInv, CallInv
<1>4. MindedInv'
  BY <1>1 DEF MindedInv, Recovering
<1> QED
  BY <1>1, <1>2, <1>3, <1>4, StoreKept

(* A sign-in that fails forsakes whatever is in the middle.                   *)
LEMMA LoginFailsStep ==
  ASSUME RoutineInv, NEW c \in Caller, LoginFails(c)
  PROVE  RoutineInv'
<1>1. /\ UNCHANGED <<active, pending, status, mode, checkpoint, creating, session>>
      /\ UNCHANGED <<acted, handed, disturbed, target, todo, cancelling, touched>>
      /\ callAt \in [Caller -> {"idle", "boot", "login", "loop", "context"}]
      /\ callAt' = [callAt EXCEPT ![c] = "idle"]
      /\ forsaken' = Interrupted
  BY DEF LoginFails, stored, queue, RoutineInv, TypeOK
<1>2. Interrupted \subseteq Run /\ \A r \in Run : r \in Interrupted <=> status[r] \in {"running", "waiting_approval"}
  BY DEF Interrupted
<1>3. TypeOK'
  BY <1>1, <1>2 DEF RoutineInv, TypeOK
<1>4. CallInv'
  BY <1>1 DEF RoutineInv, CallInv
<1>5. MindedInv'
  BY <1>1, <1>2 DEF MindedInv, Recovering
<1> QED
  BY <1>1, <1>3, <1>4, <1>5, StoreKept

LEMMA RecoverStep ==
  ASSUME RoutineInv, NEW c \in Caller, Recover(c)
  PROVE  RoutineInv'
<1>1. /\ UNCHANGED <<active, pending, mode, checkpoint, creating, session, cancelling, target>>
      /\ UNCHANGED <<acted, handed, touched>>
      /\ callAt[c] \in {"boot", "login"}
  BY DEF Recover, queue
<1>2. callAt \in [Caller -> {"idle", "boot", "login", "loop", "context"}] /\ TypeOK
  BY DEF RoutineInv, TypeOK
<1>3. CASE callAt[c] = "boot" /\ ~session
  <2>1. callAt' = [callAt EXCEPT ![c] = "idle"] /\ UNCHANGED <<status, todo, disturbed, forsaken>>
    BY <1>3 DEF Recover
  <2>2. TypeOK'
    BY <1>1, <1>2, <2>1 DEF TypeOK
  <2>3. CallInv' /\ MindedInv'
    BY <1>1, <1>2, <1>3, <2>1 DEF RoutineInv, CallInv, MindedInv, Recovering
  <2> QED
    BY <1>1, <2>1, <2>2, <2>3, StoreKept
<1>4. CASE ~(callAt[c] = "boot" /\ ~session)
  <2>1. /\ status' = [r \in Run |-> IF r \in Interrupted THEN "queued" ELSE status[r]]
        /\ todo' = [todo EXCEPT ![c] = Interrupted]
        /\ callAt' = [callAt EXCEPT ![c] = "loop"]
        /\ disturbed' = disturbed \cup {r \in Interrupted : Active(r)}
        /\ forsaken' = {}
    BY <1>4 DEF Recover
  <2>2. \A r \in Run : r \in Interrupted <=> status[r] \in {"running", "waiting_approval"}
    BY DEF Interrupted
  <2>3. Interrupted \subseteq Run
    BY DEF Interrupted
  <2>4. \A r \in Run : status'[r] = IF status[r] \in {"running", "waiting_approval"} THEN "queued" ELSE status[r]
    BY <2>1, <2>2
  <2>5. TypeOK'
    BY <1>1, <1>2, <2>1, <2>3 DEF TypeOK, Status
  <2>6. PendingInv' /\ ActiveInv' /\ OneUnconfirmed'
    BY <1>1, <2>1, <2>4, KeptQueue
  <2>7. CallInv' /\ StoreInv'
    BY <1>1, <1>2, <2>1, <2>4 DEF RoutineInv, CallInv, StoreInv
  <2>8. MindedInv'
    BY <2>4 DEF MindedInv
  <2>9. ShownAsItRuns'
    <3> SUFFICES ASSUME active # NoJob, active.stage \notin {"begin", "catch"}, active.run \notin disturbed'
                 PROVE  status'[active.run] \in {"running", "waiting_approval"}
      BY <1>1 DEF ShownAsItRuns
    <3>1. active.run \in Run /\ Active(active.run)
      BY <1>2 DEF TypeOK, Job, Active
    <3>2. status[active.run] \in {"running", "waiting_approval"}
      BY <2>1 DEF RoutineInv, ShownAsItRuns
    <3> QED
      BY <2>1, <2>2, <3>1, <3>2
  <2>10. CompletedRanAll'
    BY <1>1, <2>4 DEF RoutineInv, CompletedRanAll
  <2> QED
    BY <2>5, <2>6, <2>7, <2>8, <2>9, <2>10 DEF RoutineInv
<1> QED
  BY <1>3, <1>4

(* A call that goes on with another run of its list, or is over.              *)
LEMMA NextOfCall ==
  ASSUME TypeOK, CallInv, NEW c \in Caller, NEW left \in SUBSET Run, NextOf(c, left),
         callAt[c] \notin {"boot", "login"}, UNCHANGED <<session, acted, forsaken>>
  PROVE  /\ callAt' \in [Caller -> {"idle", "boot", "login", "loop", "context"}]
         /\ todo' \in [Caller -> SUBSET Run]
         /\ target' \in [Caller -> Run \X (0 .. Steps) \cup {<<>>}]
         /\ CallInv' /\ (\A q \in Run : Recovering(q)' <=> Recovering(q))
<1>1. /\ callAt \in [Caller -> {"idle", "boot", "login", "loop", "context"}]
      /\ todo \in [Caller -> SUBSET Run]
      /\ target \in [Caller -> Run \X (0 .. Steps) \cup {<<>>}]
  BY DEF TypeOK
<1>2. /\ todo' = [todo EXCEPT ![c] = left]
      /\ target' = [target EXCEPT ![c] = <<>>]
      /\ \E w \in {"idle", "loop"} : callAt' = [callAt EXCEPT ![c] = w]
  BY DEF NextOf
<1>3. CallInv'
  BY <1>1, <1>2 DEF CallInv
<1> QED
  BY <1>1, <1>2, <1>3 DEF Recovering

LEMMA ResumesCall ==
  ASSUME RoutineInv, NEW c \in Caller, NEW r \in Run, NEW left \in SUBSET Run, Resumes(c, r, left),
         callAt[c] \notin {"boot", "login"}, UNCHANGED <<session, acted, forsaken>>
  PROVE  /\ callAt' \in [Caller -> {"idle", "boot", "login", "loop", "context"}]
         /\ todo' \in [Caller -> SUBSET Run]
         /\ target' \in [Caller -> Run \X (0 .. Steps) \cup {<<>>}]
         /\ CallInv' /\ (\A q \in Run : Recovering(q)' <=> Recovering(q))
<1>1. /\ callAt \in [Caller -> {"idle", "boot", "login", "loop", "context"}]
      /\ todo \in [Caller -> SUBSET Run]
      /\ target \in [Caller -> Run \X (0 .. Steps) \cup {<<>>}]
  BY DEF RoutineInv, TypeOK
<1>2. /\ todo' = [todo EXCEPT ![c] = left]
      /\ target' = [target EXCEPT ![c] = <<r, checkpoint[r]>>]
      /\ callAt' = [callAt EXCEPT ![c] = "context"]
  BY DEF Resumes
<1>3. checkpoint[r] \in 0 .. Steps /\ checkpoint[r] <= acted[r]
  BY DEF RoutineInv, TypeOK, StoreInv
<1>4. CallInv'
  BY <1>1, <1>2, <1>3 DEF RoutineInv, CallInv
<1>5. \A q \in Run : Recovering(q)' <=> Recovering(q)
  BY <1>1, <1>2 DEF Recovering
<1> QED
  BY <1>1, <1>2, <1>3, <1>4, <1>5

LEMMA CallsOnlyStep ==
  ASSUME RoutineInv, NEW c \in Caller,
         TakeRecovered(c) \/ ContextRefused(c) \/ \E r \in Run : ResumeByHand(c, r)
  PROVE  RoutineInv'
<1>1. /\ UNCHANGED <<active, pending, status, mode, checkpoint, creating, session, cancelling>>
      /\ UNCHANGED <<acted, handed, touched, disturbed, forsaken>>
      /\ callAt[c] \notin {"boot", "login"}
  BY DEF TakeRecovered, ContextRefused, ResumeByHand, stored, queue, history
<1>2. todo[c] \in SUBSET Run /\ \A r \in Run : todo[c] \ {r} \in SUBSET Run
  BY DEF RoutineInv, TypeOK
<1>3. \/ \E left \in SUBSET Run : NextOf(c, left)
      \/ \E r \in Run, left \in SUBSET Run : Resumes(c, r, left)
  <2>1. CASE TakeRecovered(c)
    <3>1. CASE todo[c] = {}
      BY <2>1, <3>1 DEF TakeRecovered
    <3>2. CASE todo[c] # {}
      <4>1. PICK r \in todo[c] : NextOf(c, todo[c] \ {r}) \/ Resumes(c, r, todo[c] \ {r})
        BY <2>1, <3>2 DEF TakeRecovered
      <4> QED
        BY <1>2, <4>1
    <3> QED
      BY <3>1, <3>2
  <2>2. CASE ContextRefused(c)
    BY <1>2, <2>2 DEF ContextRefused
  <2>3. ASSUME NEW r \in Run, ResumeByHand(c, r)
        PROVE  \E left \in SUBSET Run : Resumes(c, r, left)
    <3>1. {} \in SUBSET Run
      OBVIOUS
    <3> QED
      BY <2>3, <3>1 DEF ResumeByHand
  <2> QED
    BY <2>1, <2>2, <2>3
<1>4. /\ callAt' \in [Caller -> {"idle", "boot", "login", "loop", "context"}]
      /\ todo' \in [Caller -> SUBSET Run]
      /\ target' \in [Caller -> Run \X (0 .. Steps) \cup {<<>>}]
      /\ CallInv' /\ (\A q \in Run : Recovering(q)' <=> Recovering(q))
  BY <1>1, <1>3, NextOfCall, ResumesCall DEF RoutineInv
<1>5. TypeOK'
  BY <1>1, <1>4 DEF RoutineInv, TypeOK
<1>6. MindedInv'
  BY <1>1, <1>4 DEF RoutineInv, MindedInv, Active
<1> QED
  BY <1>1, <1>4, <1>5, <1>6, StoreKept

LEMMA CancellingStep ==
  ASSUME RoutineInv, NEW r \in Run, CancelReads(r) \/ CancelWrites(r)
  PROVE  RoutineInv'
<1>1. /\ UNCHANGED <<active, pending, mode, checkpoint, creating, session, callAt, todo, target>>
      /\ UNCHANGED <<acted, handed, touched, forsaken>> /\ TypeOK
      /\ cancelling' \in [Run -> {"no", "read", "write"}]
  BY DEF CancelReads, CancelWrites, stored, queue, calls, history, RoutineInv, TypeOK
<1>2. CASE CancelReads(r)
  <2>1. UNCHANGED <<status, disturbed>>
    BY <1>2 DEF CancelReads, stored, history
  <2>2. TypeOK' /\ CallInv' /\ MindedInv'
    BY <1>1, <2>1 DEF RoutineInv, TypeOK, CallInv, MindedInv, Recovering, Active
  <2> QED
    BY <1>1, <2>1, <2>2, StoreKept
<1>3. CASE CancelWrites(r)
  <2>1. /\ status' \in [Run -> Status]
        /\ \A q \in Run : q # r => status'[q] = status[q]
        /\ status'[r] \in {status[r], "cancelled"}
        /\ \A q \in Run : status'[q] = "none" <=> status[q] = "none"
    BY <1>1, <1>3, TransitionFacts DEF CancelWrites, Status
  <2>2. disturbed' = IF Active(r) THEN disturbed \cup {r} ELSE disturbed
    BY <1>3 DEF CancelWrites
  <2>3. TypeOK'
    BY <1>1, <2>1, <2>2 DEF TypeOK
  <2>4. PendingInv' /\ ActiveInv' /\ OneUnconfirmed'
    BY <1>1, <2>1, <2>2, KeptQueue
  <2>5. CallInv' /\ StoreInv' /\ MindedInv'
    BY <1>1, <2>1 DEF RoutineInv, CallInv, StoreInv, MindedInv, Recovering, Active
  <2>6. CompletedRanAll'
    BY <1>1, <2>1 DEF RoutineInv, CompletedRanAll
  <2>7. ShownAsItRuns'
    <3>1. active # NoJob => active.run \in Run
      BY <1>1 DEF TypeOK, Job
    <3> QED
      BY <1>1, <2>1, <2>2, <3>1 DEF RoutineInv, ShownAsItRuns, Active
  <2> QED
    BY <2>3, <2>4, <2>5, <2>6, <2>7 DEF RoutineInv
<1> QED
  BY <1>2, <1>3

-----------------------------------------------------------------------------
(* Steps that put a run into the queue or take one out.                       *)

LEMMA EnqueueStep ==
  ASSUME RoutineInv, TypeOK', CallInv', \A q \in Run : Recovering(q)' <=> Recovering(q),
         NEW job \in Job, Fresh(job), Enqueue(job), creating' \subseteq creating,
         UNCHANGED <<status, mode, checkpoint, acted, handed, disturbed>>
  PROVE  RoutineInv'
<1>1. /\ Range(pending') \subseteq Range(pending) \cup {job}
      /\ active' = active \/ (active = NoJob /\ active' = job)
  BY EnqueueQueue DEF RoutineInv
<1>2. \A j : Fresh(j) => Fresh(j)'
  BY DEF Fresh, Backed
<1>3. PendingInv'
  BY <1>1, <1>2 DEF RoutineInv, PendingInv
<1>4. ActiveInv'
  <2>1. CASE active' = active
    BY <2>1 DEF RoutineInv, ActiveInv, Backed, InPlace
  <2>2. CASE active' = job
    BY <2>2 DEF ActiveInv, Fresh, Backed, InPlace, InStep
  <2> QED
    BY <1>1, <2>1, <2>2
<1>5. StoreInv' /\ OneUnconfirmed' /\ CompletedRanAll'
  BY DEF RoutineInv, StoreInv, OneUnconfirmed, CompletedRanAll
<1>6. MindedInv'
  BY <1>1 DEF RoutineInv, MindedInv, Active
<1>7. ShownAsItRuns'
  BY <1>1 DEF RoutineInv, ShownAsItRuns, Fresh
<1> QED
  BY <1>3, <1>4, <1>5, <1>6, <1>7 DEF RoutineInv

LEMMA EnqueueNewStep ==
  ASSUME RoutineInv, NEW r \in Run, EnqueueNew(r)
  PROVE  RoutineInv'
<1> DEFINE job == NewJob(r, 0, mode[r] = "simulation")
<1>1. /\ UNCHANGED <<status, mode, checkpoint, session, cancelling, callAt, todo, target>>
      /\ UNCHANGED <<acted, handed, touched, disturbed, forsaken>>
      /\ r \in creating /\ creating' = creating \ {r} /\ Enqueue(job)
  BY DEF EnqueueNew, stored, calls, history
<1>2. job \in Job /\ job.run = r /\ job.stage = "begin" /\ job.pos = 0 /\ job.start = 0
      /\ (job.agent => Steps = 0) /\ (job.simulate => mode[r] = "simulation")
  <2>1. 0 \in 0 .. Steps /\ (mode[r] = "simulation") \in BOOLEAN
    BY StepsAssumption
  <2> QED
    BY <2>1 DEF NewJob, Job, Stage
<1> HIDE DEF job
<1>3. Fresh(job)
  BY <1>1, <1>2, StepsAssumption DEF Fresh, Backed, RoutineInv, TypeOK, StoreInv
<1>4. TypeOK'
  <2>1. pending' \in Seq(Job) /\ active' \in Job \cup {NoJob}
    BY <1>1, <1>2, EnqueueQueue DEF RoutineInv, TypeOK
  <2> QED
    BY <1>1, <2>1 DEF RoutineInv, TypeOK
<1>5. CallInv' /\ (\A q \in Run : Recovering(q)' <=> Recovering(q))
  BY <1>1 DEF RoutineInv, CallInv, Recovering
<1> QED
  BY <1>1, <1>2, <1>3, <1>4, <1>5, EnqueueStep

LEMMA ContextResolvedStep ==
  ASSUME RoutineInv, NEW c \in Caller, ContextResolved(c)
  PROVE  RoutineInv'
<1>1. /\ UNCHANGED <<status, mode, checkpoint, session, cancelling, creating>>
      /\ UNCHANGED <<acted, handed, touched, disturbed, forsaken>>
      /\ callAt[c] = "context" /\ NextOf(c, todo[c])
      /\ todo[c] \in SUBSET Run
  BY DEF ContextResolved, stored, history, RoutineInv, TypeOK
<1>2. PICK r \in Run, n \in 0 .. Steps : target[c] = <<r, n>> /\ n <= acted[r]
  BY <1>1 DEF RoutineInv, CallInv
<1> DEFINE job == NewJob(r, n, FALSE)
<1>3. Enqueue(job)
  <2>1. target[c][1] = r /\ target[c][2] = n
    BY <1>2
  <2> QED
    BY <2>1 DEF ContextResolved, NewJob
<1>4. job \in Job /\ job.run = r /\ job.stage = "begin" /\ job.pos = n /\ job.start = n
      /\ (job.agent => Steps = 0) /\ ~job.simulate
  BY DEF NewJob, Job, Stage
<1> HIDE DEF job
<1>5. Fresh(job)
  BY <1>2, <1>4 DEF Fresh, Backed
<1>6. /\ callAt' \in [Caller -> {"idle", "boot", "login", "loop", "context"}]
      /\ todo' \in [Caller -> SUBSET Run]
      /\ target' \in [Caller -> Run \X (0 .. Steps) \cup {<<>>}]
      /\ CallInv' /\ (\A q \in Run : Recovering(q)' <=> Recovering(q))
  BY <1>1, NextOfCall DEF RoutineInv
<1>7. TypeOK'
  <2>1. pending' \in Seq(Job) /\ active' \in Job \cup {NoJob}
    BY <1>3, <1>4, EnqueueQueue DEF RoutineInv, TypeOK
  <2> QED
    BY <1>1, <1>6, <2>1 DEF RoutineInv, TypeOK
<1> QED
  BY <1>1, <1>3, <1>4, <1>5, <1>6, <1>7, EnqueueStep

LEMMA CancelPendingStep ==
  ASSUME RoutineInv, NEW r \in Run, CancelPending(r)
  PROVE  RoutineInv'
<1>1. /\ UNCHANGED <<status, mode, checkpoint, session, active, creating, callAt, todo, target>>
      /\ UNCHANGED <<acted, handed, touched, disturbed, forsaken>> /\ TypeOK
      /\ cancelling' \in [Run -> {"no", "read", "write"}]
      /\ \E i \in DOMAIN pending : pending' = RemoveAt(pending, i)
  BY DEF CancelPending, stored, calls, history, RoutineInv, TypeOK
<1>2. pending' \in Seq(Job) /\ Range(pending') \subseteq Range(pending)
  BY <1>1, RemoveQueue
<1>3. TypeOK'
  BY <1>1, <1>2 DEF TypeOK
<1>4. PendingInv'
  BY <1>1, <1>2 DEF RoutineInv, PendingInv, Fresh, Backed
<1>5. ActiveInv' /\ CallInv' /\ StoreInv' /\ MindedInv'
  BY <1>1 DEF RoutineInv, ActiveInv, Backed, InPlace, CallInv, StoreInv, MindedInv, Recovering, Active
<1>6. ShownAsItRuns' /\ OneUnconfirmed' /\ CompletedRanAll'
  BY <1>1 DEF RoutineInv, ShownAsItRuns, OneUnconfirmed, CompletedRanAll
<1> QED
  BY <1>3, <1>4, <1>5, <1>6 DEF RoutineInv

(* Stop of the active item: only that it is stopped is noted.                 *)
LEMMA AbortStep ==
  ASSUME RoutineInv, NEW r \in Run, CancelActive(r) \/ Pause(r)
  PROVE  RoutineInv'
<1>1. /\ UNCHANGED <<status, mode, checkpoint, session, pending, creating, callAt, todo, target>>
      /\ UNCHANGED <<acted, handed, touched, disturbed, forsaken>> /\ TypeOK
      /\ cancelling' \in [Run -> {"no", "read", "write"}]
      /\ active # NoJob /\ active \in Job
  <2>1. TypeOK /\ cancelling \in [Run -> {"no", "read", "write"}] /\ active \in Job \cup {NoJob}
    BY DEF RoutineInv, TypeOK
  <2>2. CASE CancelActive(r)
    BY <2>1, <2>2 DEF CancelActive, stored, calls, history, Active
  <2>3. CASE Pause(r)
    BY <2>1, <2>3 DEF Pause, stored, calls, history, Active
  <2> QED
    BY <2>2, <2>3
<1>2. /\ active' \in Job
      /\ \A f \in {"run", "start", "simulate", "stage", "pos", "agent", "approved"} : active'[f] = active[f]
  BY <1>1 DEF CancelActive, Pause, Job
<1>3. /\ active'.run = active.run /\ active'.start = active.start /\ active'.simulate = active.simulate
      /\ active'.stage = active.stage /\ active'.pos = active.pos /\ active'.agent = active.agent
  BY <1>2
<1>4. active' # NoJob
  BY <1>2, NoJobAssumption
<1>5. TypeOK'
  BY <1>1, <1>2 DEF TypeOK
<1>6. PendingInv'
  BY <1>1 DEF RoutineInv, PendingInv, Fresh, Backed
<1>7. ActiveInv'
  BY <1>1, <1>3 DEF RoutineInv, ActiveInv, Backed, InPlace
<1>8. CallInv' /\ StoreInv' /\ MindedInv'
  BY <1>1, <1>3, <1>4 DEF RoutineInv, CallInv, StoreInv, MindedInv, Recovering, Active
<1>9. ShownAsItRuns' /\ OneUnconfirmed' /\ CompletedRanAll'
  BY <1>1, <1>3 DEF RoutineInv, ShownAsItRuns, OneUnconfirmed, CompletedRanAll
<1> QED
  BY <1>5, <1>6, <1>7, <1>8, <1>9 DEF RoutineInv

(* A worker that is started always looks for interrupted runs.                *)
LEMMA StopStep == ASSUME RoutineInv, Stop PROVE RoutineInv'
<1>1. /\ UNCHANGED <<status, mode, checkpoint, session, acted, handed, touched, disturbed>>
      /\ active' = NoJob /\ pending' = <<>> /\ creating' = {}
      /\ cancelling' = [r \in Run |-> "no"] /\ todo' = [c \in Caller |-> {}]
      /\ target' = [c \in Caller |-> <<>>] /\ forsaken' = {}
  BY DEF Stop, stored, history
<1>2. PICK restoring \in SUBSET Caller :
        /\ Cardinality(restoring) \in {1, 2}
        /\ callAt' = [c \in Caller |-> IF c \in restoring THEN "boot" ELSE "idle"]
  BY DEF Stop
<1>3. restoring # {}
  BY <1>2, FS_EmptySet
<1>4. TypeOK'
  BY <1>1, <1>2 DEF RoutineInv, TypeOK
<1>5. \A r \in Run : Recovering(r)'
  BY <1>2, <1>3 DEF Recovering
<1>6. PendingInv' /\ ActiveInv' /\ CallInv' /\ MindedInv'
  BY <1>1, <1>2, <1>5, NoneWaits DEF PendingInv, ActiveInv, CallInv, MindedInv
<1>7. StoreInv' /\ ShownAsItRuns' /\ OneUnconfirmed' /\ CompletedRanAll'
  BY <1>1 DEF RoutineInv, StoreInv, ShownAsItRuns, OneUnconfirmed, CompletedRanAll
<1> QED
  BY <1>4, <1>6, <1>7 DEF RoutineInv

-----------------------------------------------------------------------------
(* The execution of the active item.                                          *)

AtApproval == {"approval", "closing", "unmarking"}

LEMMA KeptPending ==
  ASSUME RoutineInv, UNCHANGED mode, handed \subseteq handed', acted' \in [Run -> 0 .. Steps],
         Range(pending') \subseteq Range(pending),
         \A r \in Run : acted[r] <= acted'[r] /\ (status[r] # "none" => status'[r] # "none")
  PROVE  PendingInv' /\ \A j \in Job : Backed(j) => Backed(j)'
<1>1. Range(pending) \subseteq Job /\ \A j \in Job : j.run \in Run /\ j.pos \in 0 .. Steps
  BY Waiting DEF RoutineInv, Job
<1>2. ASSUME NEW j \in Job, Backed(j) PROVE Backed(j)'
  <2>1. acted[j.run] \in 0 .. Steps /\ acted'[j.run] \in 0 .. Steps /\ acted[j.run] <= acted'[j.run]
    BY <1>1 DEF RoutineInv, TypeOK
  <2>2. j.pos <= acted'[j.run]
    BY <1>1, <1>2, <2>1, StepsAssumption DEF Backed
  <2> QED
    BY <1>1, <1>2, <2>2 DEF Backed
<1> QED
  BY <1>1, <1>2 DEF RoutineInv, PendingInv, Fresh

(* The item goes to another stage, nothing is stored.                         *)
LEMMA MoveStep ==
  ASSUME RoutineInv, active \in Job, NEW j \in Job, active' = j, UNCHANGED pending, Quiet,
         j.run = active.run, Backed(j), InPlace(j),
         j.stage = "catch" \/ active.stage \notin {"begin", "catch"}, 
         status[active.run] = "waiting_approval" => Recovering(active.run) \/ j.stage \in AtApproval
  PROVE  RoutineInv'
<1>1. /\ UNCHANGED <<status, mode, checkpoint, session, creating, cancelling, callAt, todo, target>>
      /\ UNCHANGED <<acted, handed, touched, disturbed, forsaken>>
  BY DEF Quiet, stored, calls, history
<1>2. active # NoJob /\ j # NoJob
  BY NoJobAssumption
<1>3. TypeOK'
  BY <1>1 DEF RoutineInv, TypeOK
<1>4. PendingInv' /\ CallInv' /\ StoreInv'
  BY <1>1 DEF RoutineInv, PendingInv, Fresh, Backed, CallInv, StoreInv
<1>5. ActiveInv'
  BY <1>1 DEF ActiveInv, Backed, InPlace
<1>6. MindedInv'
  BY <1>1, <1>2 DEF RoutineInv, MindedInv, Recovering, Active, AtApproval
<1>7. ShownAsItRuns' /\ OneUnconfirmed' /\ CompletedRanAll'
  BY <1>1, <1>2 DEF RoutineInv, ShownAsItRuns, OneUnconfirmed, CompletedRanAll
<1> QED
  BY <1>3, <1>4, <1>5, <1>6, <1>7 DEF RoutineInv

(* Outside the approval no run waits for one, unless it will be recovered.    *)
LEMMA NotWaiting ==
  ASSUME RoutineInv, active \in Job, active.stage \notin AtApproval
  PROVE  status[active.run] = "waiting_approval" => Recovering(active.run)
<1>1. active.run \in Run
  BY DEF Job
<1> QED
  BY <1>1 DEF RoutineInv, MindedInv, AtApproval

LEMMA ActiveFacts ==
  ASSUME RoutineInv, active # NoJob
  PROVE  /\ active \in Job /\ active.run \in Run /\ active.start \in 0 .. Steps /\ active.pos \in 0 .. Steps
         /\ active.simulate \in BOOLEAN /\ active.agent \in BOOLEAN
         /\ active.approved \in BOOLEAN /\ active.aborted \in BOOLEAN /\ active.paused \in BOOLEAN
         /\ Backed(active) /\ InPlace(active)
<1>1. active \in Job
  BY DEF RoutineInv, TypeOK
<1> QED
  BY <1>1 DEF RoutineInv, ActiveInv, Job

LEMMA StageMove ==
  ASSUME active \in Job, NEW s \in Stage
  PROVE  /\ [active EXCEPT !.stage = s] \in Job
         /\ [active EXCEPT !.stage = s].run = active.run
         /\ [active EXCEPT !.stage = s].start = active.start
         /\ [active EXCEPT !.stage = s].simulate = active.simulate
         /\ [active EXCEPT !.stage = s].stage = s
         /\ [active EXCEPT !.stage = s].pos = active.pos
         /\ [active EXCEPT !.stage = s].agent = active.agent
         /\ [active EXCEPT !.stage = s].approved = active.approved
  BY DEF Job

LEMMA QuietStep ==
  ASSUME RoutineInv, active # NoJob,
         \/ Throws \/ ReplayCancelled \/ ReplayCompleted \/ AgentEnds
         \/ NeedsApproval \/ Asking \/ Answered \/ Closing
  PROVE  RoutineInv'
<1>1. active \in Job /\ Backed(active) /\ InPlace(active)
  BY ActiveFacts
<1>2. Quiet /\ UNCHANGED pending
  BY DEF Throws, ReplayCancelled, ReplayCompleted, AgentEnds, NeedsApproval, Asking, Answered,
         Closing, Goes
<1>3. ASSUME Throws \/ ReplayCancelled PROVE RoutineInv'
  <2> DEFINE j == [active EXCEPT !.stage = "catch"]
  <2>1. active' = j /\ active.stage \in {"call", "granted", "end"}
    BY <1>3 DEF Throws, ReplayCancelled, MayCall, Goes
  <2>2. j \in Job /\ j.run = active.run /\ Backed(j) /\ InPlace(j) /\ j.stage = "catch"
    BY <1>1, StageMove DEF Stage, Backed, InPlace, InStep
  <2> HIDE DEF j
  <2>3. status[active.run] = "waiting_approval" => Recovering(active.run)
    BY <1>1, <2>1, NotWaiting DEF AtApproval
  <2> QED
    BY <1>1, <1>2, <2>1, <2>2, <2>3, MoveStep
<1>4. ASSUME ReplayCompleted \/ AgentEnds PROVE RoutineInv'
  <2> DEFINE j == [active EXCEPT !.stage = "end"]
  <2>1. active' = j /\ active.stage = "call" /\ (active.agent \/ active.pos = Steps)
    BY <1>4 DEF ReplayCompleted, AgentEnds, Goes
  <2>2. j \in Job /\ j.run = active.run /\ Backed(j) /\ InPlace(j)
    BY <1>1, <2>1, StageMove DEF Stage, Backed, InPlace, InStep
  <2> HIDE DEF j
  <2>3. status[active.run] = "waiting_approval" => Recovering(active.run)
    BY <1>1, <2>1, NotWaiting DEF AtApproval
  <2> QED
    BY <1>1, <1>2, <2>1, <2>2, <2>3, MoveStep
<1>5. ASSUME NeedsApproval PROVE RoutineInv'
  <2> DEFINE j == [active EXCEPT !.stage = "asking"]
  <2>1. active' = j /\ active.stage = "call" /\ (active.agent \/ active.pos < Steps)
    BY <1>5 DEF NeedsApproval, MayCall, Goes
  <2>2. j \in Job /\ j.run = active.run /\ Backed(j) /\ InPlace(j)
    BY <1>1, <2>1, StageMove DEF Stage, Backed, InPlace, InStep
  <2> HIDE DEF j
  <2>3. status[active.run] = "waiting_approval" => Recovering(active.run)
    BY <1>1, <2>1, NotWaiting DEF AtApproval
  <2> QED
    BY <1>1, <1>2, <2>1, <2>2, <2>3, MoveStep
<1>6. ASSUME Asking PROVE RoutineInv'
  <2>1. PICK s \in {"marking", "approval"} : active' = [active EXCEPT !.stage = s] /\ active.stage = "asking"
    BY <1>6 DEF Asking, Goes
  <2> DEFINE j == [active EXCEPT !.stage = s]
  <2>2. j \in Job /\ j.run = active.run /\ Backed(j) /\ InPlace(j)
    BY <1>1, <2>1, StageMove DEF Stage, Backed, InPlace, InStep
  <2> HIDE DEF j
  <2>3. status[active.run] = "waiting_approval" => Recovering(active.run)
    BY <1>1, <2>1, NotWaiting DEF AtApproval
  <2>4. active' = j
    BY <2>1 DEF j
  <2> QED
    BY <1>1, <1>2, <2>1, <2>2, <2>3, <2>4, MoveStep
<1>7. ASSUME Answered PROVE RoutineInv'
  <2>1. PICK a \in BOOLEAN : active' = [active EXCEPT !.stage = "closing", !.approved = a] /\ active.stage = "approval"
    BY <1>7 DEF Answered
  <2> DEFINE j == [active EXCEPT !.stage = "closing", !.approved = a]
  <2>2. j \in Job /\ j.run = active.run /\ j.stage = "closing" /\ j.pos = active.pos /\ j.agent = active.agent
        /\ j.simulate = active.simulate
    BY <1>1 DEF Job, Stage
  <2> HIDE DEF j
  <2>3. Backed(j) /\ InPlace(j) /\ j.stage \in AtApproval
    BY <1>1, <2>1, <2>2 DEF Backed, InPlace, InStep, AtApproval
  <2>4. active' = j
    BY <2>1 DEF j
  <2> QED
    BY <1>1, <1>2, <2>1, <2>2, <2>3, <2>4, MoveStep
<1>8. ASSUME Closing PROVE RoutineInv'
  <2>1. PICK s \in {"unmarking", "granted", "call", "catch"} :
          /\ active' = [active EXCEPT !.stage = s] /\ active.stage = "closing"
          /\ s # "unmarking" => ~(session /\ status[active.run] = "waiting_approval")
    BY <1>8 DEF Closing, AfterApproval, Goes
  <2> DEFINE j == [active EXCEPT !.stage = s]
  <2>2. j \in Job /\ j.run = active.run /\ j.stage = s /\ Backed(j) /\ InPlace(j)
    BY <1>1, <2>1, StageMove DEF Stage, Backed, InPlace, InStep
  <2> HIDE DEF j
  <2>3. active' = j
    BY <2>1 DEF j
  <2>4. status[active.run] = "waiting_approval" => Recovering(active.run) \/ j.stage \in AtApproval
    BY <2>1, <2>2 DEF Recovering, AtApproval
  <2> QED
    BY <1>1, <1>2, <2>1, <2>2, <2>3, <2>4, MoveStep
<1> QED
  BY <1>3, <1>4, <1>5, <1>6, <1>7, <1>8

(* An agent takes over: it is noted, so that the run may be completed.        *)
LEMMA StepFailsStep == ASSUME RoutineInv, active # NoJob, StepFails PROVE RoutineInv'
<1>1. /\ active \in Job /\ Backed(active) /\ InPlace(active) /\ active.run \in Run
      /\ active.agent \in BOOLEAN /\ active.aborted \in BOOLEAN
  BY ActiveFacts
<1>2. /\ UNCHANGED <<pending, status, mode, checkpoint, session, creating, cancelling, callAt, todo, target>>
      /\ UNCHANGED <<acted, touched, disturbed, forsaken>>
      /\ handed' = IF active.aborted THEN handed ELSE handed \cup {active.run}
      /\ active.stage \in {"call", "granted"}
  BY DEF StepFails, MayCall, stored, calls
<1>3. PICK s \in {"call", "catch"} :
        active' = [active EXCEPT !.stage = s, !.agent = @ \/ ~active.aborted]
  BY DEF StepFails
<1>4. /\ active' \in Job /\ active'.run = active.run /\ active'.pos = active.pos /\ active'.stage = s
      /\ active'.simulate = active.simulate
      /\ active'.agent => active.agent \/ ~active.aborted
  <2>1. (active.agent \/ ~active.aborted) \in BOOLEAN
    BY <1>1
  <2> QED
    BY <1>1, <1>3, <2>1 DEF Job, Stage
<1>5. active' # NoJob
  BY <1>4, NoJobAssumption
<1>6. TypeOK'
  BY <1>1, <1>2, <1>4 DEF RoutineInv, TypeOK
<1>7. \A r \in Run : acted[r] <= acted'[r]
  BY <1>2, StepsAssumption DEF RoutineInv, TypeOK
<1>8. PendingInv'
  BY <1>2, <1>6, <1>7, KeptPending DEF TypeOK
<1>9. ActiveInv'
  <2>1. Backed(active)'
    BY <1>1, <1>2, <1>4 DEF Backed
  <2>2. InPlace(active)'
    BY <1>1, <1>2, <1>4 DEF InPlace, InStep
  <2> QED
    BY <2>1, <2>2 DEF ActiveInv
<1>10. CallInv' /\ StoreInv' /\ OneUnconfirmed'
  BY <1>2 DEF RoutineInv, CallInv, StoreInv, OneUnconfirmed
<1>11. MindedInv'
  <2>1. status[active.run] = "waiting_approval" => Recovering(active.run)
    BY <1>1, <1>2, NotWaiting DEF AtApproval
  <2> QED
    BY <1>2, <1>4, <1>5, <2>1 DEF RoutineInv, MindedInv, Recovering, Active
<1>12. ShownAsItRuns' /\ CompletedRanAll'
  BY <1>2, <1>4, <1>5 DEF RoutineInv, ShownAsItRuns, CompletedRanAll
<1> QED
  BY <1>6, <1>8, <1>9, <1>10, <1>11, <1>12 DEF RoutineInv

(* The tool acts: one step more is done, at most one is unconfirmed.          *)
LEMMA ActStep == ASSUME RoutineInv, active # NoJob, Act PROVE RoutineInv'
<1>1. /\ active \in Job /\ Backed(active) /\ InPlace(active) /\ active.run \in Run
      /\ active.pos \in 0 .. Steps /\ active.agent \in BOOLEAN
  BY ActiveFacts
<1>2. /\ UNCHANGED <<pending, status, mode, checkpoint, session, creating, cancelling, callAt, todo, target>>
      /\ UNCHANGED <<handed, disturbed, forsaken>>
      /\ touched' = touched \cup {active.run}
      /\ active.stage \in {"call", "granted"}
      /\ active.stage = "call" => active.agent \/ active.pos < Steps
      /\ active' = [active EXCEPT !.stage = IF active.agent THEN "call" ELSE "acted"]
  BY DEF Act, Acts, MayCall, Goes, stored, calls
<1>3. active.agent \/ active.pos + 1 \in 0 .. Steps
  BY <1>1, <1>2, StepsAssumption DEF InPlace, InStep
<1>4. /\ acted \in [Run -> 0 .. Steps] /\ checkpoint \in [Run -> 0 .. Steps]
      /\ \A r \in Run : acted[r] \in Nat /\ checkpoint[r] \in Nat /\ checkpoint[r] <= acted[r]
  BY StepsAssumption DEF RoutineInv, TypeOK, StoreInv
<1>5. /\ acted' \in [Run -> 0 .. Steps]
      /\ \A r \in Run : r # active.run => acted'[r] = acted[r]
      /\ active.agent => acted' = acted
      /\ ~active.agent => acted'[active.run] = Larger(acted[active.run], active.pos + 1)
  <2>1. CASE active.agent
    BY <1>4, <2>1 DEF Act, Acts
  <2>2. CASE ~active.agent
    <3>1. acted' = [acted EXCEPT ![active.run] = Larger(acted[active.run], active.pos + 1)]
      BY <2>2 DEF Act, Acts
    <3>2. Larger(acted[active.run], active.pos + 1) \in 0 .. Steps
      BY <1>1, <1>3, <1>4, <2>2 DEF Larger
    <3> QED
      BY <1>1, <1>4, <2>2, <3>1, <3>2
  <2> QED
    BY <2>1, <2>2
<1>6. /\ active' \in Job /\ active'.run = active.run /\ active'.pos = active.pos
      /\ active'.simulate = active.simulate /\ active'.agent = active.agent
      /\ active'.stage = IF active.agent THEN "call" ELSE "acted"
  BY <1>1, <1>2, StageMove DEF Stage
<1>7. active' # NoJob
  BY <1>6, NoJobAssumption
<1>8. \A r \in Run : acted[r] <= acted'[r] /\ acted'[r] \in Nat
  BY <1>1, <1>4, <1>5 DEF Larger
<1>9. ~active.agent => active.pos < acted'[active.run]
  BY <1>1, <1>4, <1>5 DEF Larger
<1>10. TypeOK'
  BY <1>1, <1>2, <1>5, <1>6 DEF RoutineInv, TypeOK
<1>11. PendingInv' /\ \A j \in Job : Backed(j) => Backed(j)'
  BY <1>2, <1>5, <1>8, KeptPending
<1>12. ActiveInv'
  <2>1. Backed(active)'
    <3>1. active.pos <= acted'[active.run]
      BY <1>1, <1>4, <1>8 DEF Backed
    <3> QED
      BY <1>1, <1>2, <1>6, <3>1 DEF Backed
  <2>2. InPlace(active)'
    BY <1>1, <1>2, <1>3, <1>6, <1>9 DEF InPlace, InStep
  <2> QED
    BY <2>1, <2>2 DEF ActiveInv
<1>13. CallInv'
  <2> SUFFICES ASSUME NEW c \in Caller, callAt[c] = "context"
               PROVE  \E r \in Run, n \in 0 .. Steps : target[c] = <<r, n>> /\ n <= acted'[r]
    BY <1>2 DEF CallInv
  <2>1. PICK r \in Run, n \in 0 .. Steps : target[c] = <<r, n>> /\ n <= acted[r]
    BY DEF RoutineInv, CallInv
  <2>2. n <= acted'[r]
    BY <1>4, <1>8, <2>1
  <2> QED
    BY <2>1, <2>2
<1>14. StoreInv'
  <2>1. \A r \in Run : checkpoint[r] <= acted'[r]
    BY <1>4, <1>8
  <2> QED
    BY <1>2, <2>1 DEF RoutineInv, StoreInv
<1>15. OneUnconfirmed'
  <2>1. ASSUME active.run \notin disturbed, ~active.agent
        PROVE  acted'[active.run] <= checkpoint[active.run] + 1
    <3>1. active.pos = checkpoint[active.run]
      BY <1>1, <1>2, <2>1 DEF InPlace, InStep
    <3>2. acted[active.run] <= checkpoint[active.run] + 1
      BY <1>1, <2>1 DEF RoutineInv, OneUnconfirmed
    <3> QED
      BY <1>1, <1>4, <1>5, <2>1, <3>1, <3>2 DEF Larger
  <2>2. \A r \in Run : checkpoint[r] <= acted'[r]
    BY <1>4, <1>8
  <2> QED
    BY <1>2, <1>5, <2>1, <2>2 DEF RoutineInv, OneUnconfirmed
<1>16. MindedInv'
  <2>1. status[active.run] = "waiting_approval" => Recovering(active.run)
    BY <1>1, <1>2, NotWaiting DEF AtApproval
  <2> QED
    BY <1>2, <1>6, <1>7, <2>1 DEF RoutineInv, MindedInv, Recovering, Active
<1>17. ShownAsItRuns'
  BY <1>2, <1>6, <1>7 DEF RoutineInv, ShownAsItRuns
<1>18. CompletedRanAll'
  <2>1. \A r \in Run : acted[r] = Steps => acted'[r] = Steps
    <3>1. \A r \in Run : acted'[r] <= Steps
      BY <1>5, StepsAssumption
    <3> QED
      BY <1>4, <1>8, <3>1, StepsAssumption
  <2> QED
    BY <1>2, <2>1 DEF RoutineInv, CompletedRanAll
<1> QED
  BY <1>10, <1>11, <1>12, <1>13, <1>14, <1>15, <1>16, <1>17, <1>18 DEF RoutineInv

LEMMA CheckpointStep == ASSUME RoutineInv, active # NoJob, Checkpoint PROVE RoutineInv'
<1>1. /\ active \in Job /\ Backed(active) /\ InPlace(active) /\ active.run \in Run
      /\ active.pos \in 0 .. Steps
  BY ActiveFacts
<1>2. /\ UNCHANGED <<pending, status, mode, session, creating, cancelling, callAt, todo, target>>
      /\ UNCHANGED <<acted, handed, touched, disturbed, forsaken>>
      /\ active.stage = "acted"
  BY DEF Checkpoint, Goes, calls, history
<1>3. CASE active.aborted
  <2> DEFINE j == [active EXCEPT !.stage = "catch"]
  <2>1. active' = j /\ Quiet
    BY <1>2, <1>3 DEF Checkpoint, Goes, Quiet, stored, calls, history
  <2>2. j \in Job /\ j.run = active.run /\ Backed(j) /\ InPlace(j) /\ j.stage = "catch"
    BY <1>1, StageMove DEF Stage, Backed, InPlace, InStep
  <2> HIDE DEF j
  <2>3. status[active.run] = "waiting_approval" => Recovering(active.run)
    BY <1>1, <1>2, NotWaiting DEF AtApproval
  <2> QED
    BY <1>1, <1>2, <2>1, <2>2, <2>3, MoveStep
<1>4. CASE ~active.aborted
  <2>1. /\ checkpoint' = [checkpoint EXCEPT ![active.run] = active.pos + 1]
        /\ active' = [active EXCEPT !.stage = "call", !.pos = @ + 1]
    BY <1>4 DEF Checkpoint
  <2>2. ~active.agent /\ active.pos < Steps /\ active.pos < acted[active.run]
    BY <1>1, <1>2 DEF InPlace, InStep
  <2>3. active.pos + 1 \in 0 .. Steps /\ active.pos + 1 <= acted[active.run]
    BY <1>1, <2>2, StepsAssumption DEF RoutineInv, TypeOK
  <2>4. /\ active' \in Job /\ active'.run = active.run /\ active'.pos = active.pos + 1
        /\ active'.simulate = active.simulate /\ active'.agent = active.agent
        /\ active'.stage = "call"
    BY <1>1, <2>1, <2>3 DEF Job, Stage
  <2>5. active' # NoJob
    BY <2>4, NoJobAssumption
  <2>6. /\ checkpoint \in [Run -> 0 .. Steps]
        /\ checkpoint' \in [Run -> 0 .. Steps] /\ checkpoint'[active.run] = active.pos + 1
        /\ \A r \in Run : r # active.run => checkpoint'[r] = checkpoint[r]
    BY <1>1, <2>1, <2>3 DEF RoutineInv, TypeOK
  <2>7. TypeOK'
    BY <1>2, <2>4, <2>6 DEF RoutineInv, TypeOK
  <2>8. PendingInv' /\ CallInv' /\ CompletedRanAll'
    BY <1>2 DEF RoutineInv, PendingInv, Fresh, Backed, CallInv, CompletedRanAll
  <2>9. ActiveInv'
    <3>1. Backed(active)'
      BY <1>1, <1>2, <2>3, <2>4 DEF Backed
    <3>2. InPlace(active)'
      BY <1>1, <1>2, <2>4, <2>6 DEF InPlace, InStep
    <3> QED
      BY <3>1, <3>2 DEF ActiveInv
  <2>10. StoreInv'
    BY <1>2, <2>3, <2>6 DEF RoutineInv, StoreInv
  <2>11. MindedInv'
    <3>1. status[active.run] = "waiting_approval" => Recovering(active.run)
      BY <1>1, <1>2, NotWaiting DEF AtApproval
    <3> QED
      BY <1>2, <2>4, <2>5, <3>1 DEF RoutineInv, MindedInv, Recovering, Active
  <2>12. ShownAsItRuns'
    BY <1>2, <2>4, <2>5 DEF RoutineInv, ShownAsItRuns
  <2>13. OneUnconfirmed'
    <3>1. ASSUME active.run \notin disturbed
          PROVE  checkpoint'[active.run] <= acted[active.run] /\ acted[active.run] <= checkpoint'[active.run] + 1
      <4>1. active.pos = checkpoint[active.run]
        BY <1>1, <1>2, <3>1 DEF InPlace, InStep
      <4>2. acted[active.run] <= checkpoint[active.run] + 1 /\ acted[active.run] \in Nat
        BY <1>1, <3>1, StepsAssumption DEF RoutineInv, OneUnconfirmed, TypeOK
      <4> QED
        BY <1>1, <2>3, <2>6, <4>1, <4>2
    <3> QED
      BY <1>2, <2>6, <3>1 DEF RoutineInv, OneUnconfirmed
  <2> QED
    BY <2>7, <2>8, <2>9, <2>10, <2>11, <2>12, <2>13 DEF RoutineInv
<1> QED
  BY <1>3, <1>4

(* The active item writes its status: a run that is executed is stored as     *)
(* running or as waiting for the approval it waits for, or it goes to its end. *)
LEMMA StatusStep ==
  ASSUME RoutineInv, active # NoJob, NEW s \in Stage \ {"begin"}, active' = [active EXCEPT !.stage = s],
         UNCHANGED <<pending, checkpoint, mode, session, creating, cancelling, callAt, todo, target>>,
         UNCHANGED <<acted, handed, touched, forsaken>>,
         disturbed \subseteq disturbed', disturbed' \subseteq disturbed \cup {active.run},
         NEW next \in {"running", "waiting_approval"}, Transition(active.run, next), InPlace(active)',
         \/ status'[active.run] = "running"
         \/ status'[active.run] = "waiting_approval" /\ s = "approval"
         \/ status'[active.run] \notin {"running", "waiting_approval"} /\ s = "catch"
  PROVE  RoutineInv'
<1>1. active \in Job /\ active.run \in Run /\ Backed(active)
  BY ActiveFacts
<1>2. active' \in Job /\ active'.run = active.run /\ active'.pos = active.pos /\ active'.agent = active.agent
      /\ active'.simulate = active.simulate /\ active'.stage = s
  BY <1>1, StageMove
<1>3. active' # NoJob
  BY <1>2, NoJobAssumption
<1>4. /\ status' \in [Run -> Status]
      /\ \A q \in Run : q # active.run => status'[q] = status[q]
      /\ status'[active.run] \in {status[active.run], "running", "waiting_approval"}
      /\ \A q \in Run : status'[q] = "none" <=> status[q] = "none"
  BY <1>1, TransitionFacts DEF RoutineInv, Status
<1>5. TypeOK'
  BY <1>1, <1>2, <1>4 DEF RoutineInv, TypeOK
<1>6. \A r \in Run : acted[r] <= acted'[r] /\ (status[r] # "none" => status'[r] # "none")
  BY <1>4, StepsAssumption DEF RoutineInv, TypeOK
<1>7. PendingInv' /\ \A j \in Job : Backed(j) => Backed(j)'
  BY <1>5, <1>6, KeptPending DEF TypeOK
<1>8. ActiveInv'
  <2>1. Backed(active)'
    BY <1>1, <1>2, <1>4 DEF Backed
  <2> QED
    BY <2>1 DEF ActiveInv
<1>9. CallInv' /\ StoreInv'
  BY <1>4 DEF RoutineInv, CallInv, StoreInv
<1>10. MindedInv'
  BY <1>1, <1>2, <1>3, <1>4 DEF RoutineInv, MindedInv, Recovering, Active
<1>11. ShownAsItRuns'
  BY <1>2 DEF ShownAsItRuns
<1>12. OneUnconfirmed' /\ CompletedRanAll'
  BY <1>4 DEF RoutineInv, OneUnconfirmed, CompletedRanAll
<1> QED
  BY <1>5, <1>7, <1>8, <1>9, <1>10, <1>11, <1>12 DEF RoutineInv

LEMMA BeginStep == ASSUME RoutineInv, active # NoJob, Begin PROVE RoutineInv'
<1>1. /\ active \in Job /\ active.run \in Run /\ Backed(active) /\ InPlace(active)
      /\ active.simulate \in BOOLEAN
  BY ActiveFacts
<1>2. /\ active.stage = "begin" /\ active.pos = active.start /\ Transition(active.run, "running")
      /\ UNCHANGED <<checkpoint, mode, session, creating, cancelling, callAt, todo, target>>
      /\ UNCHANGED <<pending, acted, handed, touched, forsaken>>
  BY <1>1 DEF Begin, InPlace, Goes, calls
<1>3. /\ TypeOK /\ "running" \in Status \ {"none"}
      /\ status'[active.run] = IF "running" \in Allowed[status[active.run]] THEN "running" ELSE status[active.run]
  <2>1. TypeOK /\ "running" \in Status \ {"none"}
    BY DEF RoutineInv, Status
  <2> QED
    BY <1>1, <1>2, <2>1, TransitionFacts
<1>4. CASE "running" \in Allowed[status[active.run]]
  <2>1. PICK s \in {"simulate", "call"} :
          /\ active' = [active EXCEPT !.stage = s]
          /\ s = "simulate" => active.simulate
          /\ disturbed' = IF active.start # checkpoint[active.run]
                          THEN disturbed \cup {active.run} ELSE disturbed
    BY <1>4 DEF Begin, Goes
  <2>2. InPlace(active)'
    BY <1>1, <1>2, <2>1, StageMove DEF Stage, InPlace, InStep
  <2>3. s \in Stage \ {"begin"} /\ disturbed \subseteq disturbed' /\ disturbed' \subseteq disturbed \cup {active.run}
    BY <2>1 DEF Stage
  <2> QED
    BY <1>2, <1>3, <1>4, <2>1, <2>2, <2>3, StatusStep
<1>5. CASE "running" \notin Allowed[status[active.run]]
  <2>1. active' = [active EXCEPT !.stage = "catch"] /\ disturbed' = disturbed
    BY <1>5 DEF Begin, Goes
  <2>2. InPlace(active)' /\ "catch" \in Stage \ {"begin"}
    BY <1>1, <2>1, StageMove DEF Stage, InPlace, InStep
  <2>3. status[active.run] # "waiting_approval"
    BY <1>5, AllowedTable
  <2> QED
    BY <1>2, <1>3, <1>5, <2>1, <2>2, <2>3, StatusStep
<1> QED
  BY <1>4, <1>5

LEMMA ApprovalStep == ASSUME RoutineInv, active # NoJob, Marking \/ Unmarking PROVE RoutineInv'
<1>1. active \in Job /\ active.run \in Run /\ Backed(active) /\ InPlace(active)
  BY ActiveFacts
<1>2. /\ UNCHANGED <<checkpoint, mode, session, creating, cancelling, callAt, todo, target>>
      /\ UNCHANGED <<pending, acted, handed, touched, disturbed, forsaken>>
  BY DEF Marking, Unmarking, Goes, WritesStatus, calls, history
<1>3. TypeOK /\ "running" \in Status \ {"none"} /\ "waiting_approval" \in Status \ {"none"}
  BY DEF RoutineInv, Status
<1>4. ASSUME NEW s \in {"approval", "granted", "call", "catch"},
             active.stage \in {"marking", "unmarking"}, active' = [active EXCEPT !.stage = s]
      PROVE  s \in Stage \ {"begin"} /\ InPlace(active)'
  <2>1. s \in Stage \ {"begin"}
    BY DEF Stage
  <2>2. /\ active'.run = active.run /\ active'.pos = active.pos /\ active'.agent = active.agent
        /\ active'.stage = s
    BY <1>1, <1>4, <2>1, StageMove
  <2> QED
    BY <1>1, <1>2, <1>4, <2>1, <2>2 DEF InPlace, InStep
<1>5. CASE Marking
  <2>1. /\ active.stage = "marking" /\ Transition(active.run, "waiting_approval")
        /\ active' = [active EXCEPT !.stage = IF status'[active.run] = "waiting_approval" THEN "approval" ELSE "catch"]
    BY <1>5 DEF Marking, Goes
  <2>2. CASE status'[active.run] = "waiting_approval"
    BY <1>2, <1>4, <2>1, <2>2, StatusStep
  <2>3. CASE status'[active.run] # "waiting_approval"
    BY <1>2, <1>4, <2>1, <2>3, StatusStep
  <2> QED
    BY <2>2, <2>3
<1>6. CASE Unmarking
  <2>1. active.stage = "unmarking" /\ Transition(active.run, "running")
    BY <1>6 DEF Unmarking
  <2>2. status'[active.run] = IF "running" \in Allowed[status[active.run]] THEN "running" ELSE status[active.run]
    BY <1>1, <1>3, <2>1, TransitionFacts
  <2>3. CASE "running" \in Allowed[status[active.run]]
    <3>1. PICK s \in {"granted", "call", "catch"} : active' = [active EXCEPT !.stage = s]
      BY <1>6, <2>3 DEF Unmarking, AfterApproval, Goes
    <3> QED
      BY <1>2, <1>4, <2>1, <2>2, <2>3, <3>1, StatusStep
  <2>4. CASE "running" \notin Allowed[status[active.run]]
    <3>1. active' = [active EXCEPT !.stage = "catch"]
      BY <1>6, <2>4 DEF Unmarking, Goes
    <3>2. status[active.run] # "waiting_approval"
      BY <2>4, AllowedTable
    <3> QED
      BY <1>2, <1>4, <2>1, <2>2, <2>4, <3>1, <3>2, StatusStep
  <2> QED
    BY <2>3, <2>4
<1> QED
  BY <1>5, <1>6

(* The active item is over: what it was stored as, unless nobody is signed in *)
(* or a recovery is near, was running, from where every end is allowed.       *)
LEMMA OverStep ==
  ASSUME RoutineInv, active # NoJob, active.stage \in {"simulate", "end", "catch"},
         NEW next \in {"queued"} \cup Terminal, Transition(active.run, next), JobOver, WritesStatus,
         next = "completed" /\ mode[active.run] = "live" =>
           acted[active.run] = Steps \/ active.run \in handed
  PROVE  RoutineInv'
<1>1. active \in Job /\ active.run \in Run
  BY ActiveFacts
<1>2. /\ UNCHANGED <<checkpoint, mode, session, creating, cancelling, callAt, todo, target>>
      /\ UNCHANGED <<acted, handed, touched, disturbed, forsaken>>
  BY DEF WritesStatus, calls, history
<1>3. /\ status' \in [Run -> Status]
      /\ \A q \in Run : q # active.run => status'[q] = status[q]
      /\ status'[active.run] = IF next \in Allowed[status[active.run]] THEN next ELSE status[active.run]
      /\ \A q \in Run : status'[q] = "none" <=> status[q] = "none"
  <2>1. TypeOK /\ next \in Status \ {"none"}
    BY DEF RoutineInv, Status, Terminal
  <2> QED
    BY <1>1, <2>1, TransitionFacts
<1>4. /\ pending' \in Seq(Job) /\ Range(pending') \subseteq Range(pending)
      /\ active' = NoJob \/ active' \in Range(pending)
      /\ Range(pending) \subseteq Job
  BY JobOverQueue, Waiting DEF RoutineInv
<1>5. TypeOK'
  BY <1>2, <1>3, <1>4 DEF RoutineInv, TypeOK
<1>6. \A r \in Run : acted[r] <= acted'[r] /\ (status[r] # "none" => status'[r] # "none")
  BY <1>2, <1>3, StepsAssumption DEF RoutineInv, TypeOK
<1>7. PendingInv' /\ \A j \in Job : Backed(j) => Backed(j)'
  BY <1>2, <1>4, <1>5, <1>6, KeptPending DEF TypeOK
<1>8. active' # NoJob => active' \in Job /\ Fresh(active')
  BY <1>4 DEF RoutineInv, PendingInv
<1>9. ActiveInv'
  <2> SUFFICES ASSUME active' # NoJob PROVE Backed(active)' /\ InPlace(active)'
    BY DEF ActiveInv
  <2>1. Backed(active)'
    BY <1>2, <1>3, <1>8 DEF Fresh, Backed, Job
  <2>2. InPlace(active)'
    BY <1>8 DEF Fresh, InPlace, InStep
  <2> QED
    BY <2>1, <2>2
<1>10. CallInv' /\ StoreInv' /\ OneUnconfirmed'
  BY <1>2, <1>3 DEF RoutineInv, CallInv, StoreInv, OneUnconfirmed
<1>11. MindedInv'
  <2>1. status[active.run] = "waiting_approval" => Recovering(active.run)
    BY <1>1, NotWaiting DEF AtApproval
  <2>2. status'[active.run] \in {"running", "waiting_approval"} => Recovering(active.run)
    <3>1. status[active.run] = "running" => status'[active.run] = next
      BY <1>3, AllowedTable
    <3> QED
      BY <1>3, <2>1, <3>1 DEF Terminal
  <2> QED
    BY <1>2, <1>3, <2>2 DEF RoutineInv, MindedInv, Recovering, Active
<1>12. ShownAsItRuns'
  BY <1>8 DEF Fresh, ShownAsItRuns
<1>13. CompletedRanAll'
  BY <1>1, <1>2, <1>3 DEF RoutineInv, CompletedRanAll
<1> QED
  BY <1>5, <1>7, <1>9, <1>10, <1>11, <1>12, <1>13 DEF RoutineInv

LEMMA EndStep == ASSUME RoutineInv, active # NoJob, Simulate \/ End \/ Catch PROVE RoutineInv'
<1>1. /\ active \in Job /\ active.run \in Run /\ Backed(active) /\ InPlace(active)
      /\ active.pos \in 0 .. Steps /\ active.paused \in BOOLEAN /\ active.aborted \in BOOLEAN
  BY ActiveFacts
<1>2. acted[active.run] \in 0 .. Steps
  BY <1>1 DEF RoutineInv, TypeOK
<1>3. CASE Simulate
  <2>1. mode[active.run] # "live"
    BY <1>1, <1>3 DEF Simulate, InPlace, Backed
  <2> QED
    BY <1>3, <2>1, OverStep DEF Simulate, Terminal
<1>4. CASE End
  <2>1. active.stage = "end" /\ Settle("completed")
    BY <1>4 DEF End
  <2>2. acted[active.run] = Steps \/ active.run \in handed
    BY <1>1, <1>2, <2>1, StepsAssumption DEF InPlace, Backed
  <2>3. PICK next \in {"queued", "cancelled", "completed"} : Transition(active.run, next) /\ JobOver /\ WritesStatus
    BY <2>1 DEF Settle
  <2> QED
    BY <2>1, <2>2, <2>3, OverStep DEF Terminal
<1>5. CASE Catch
  <2>1. active.stage = "catch" /\ Settle("failed")
    BY <1>5 DEF Catch
  <2>2. PICK next \in {"queued", "cancelled", "failed"} : Transition(active.run, next) /\ JobOver /\ WritesStatus
    BY <2>1 DEF Settle
  <2> QED
    BY <2>1, <2>2, OverStep DEF Terminal
<1> QED
  BY <1>3, <1>4, <1>5

-----------------------------------------------------------------------------
(* The invariant and what it gives.                                           *)

LEMMA StepRoutine == RoutineInv /\ [Next]_vars => RoutineInv'
<1> SUFFICES ASSUME RoutineInv, [Next]_vars PROVE RoutineInv'
  OBVIOUS
<1>1. CASE JobStep
  BY <1>1, BeginStep, EndStep, ActStep, StepFailsStep, QuietStep, CheckpointStep, ApprovalStep DEF JobStep
<1>2. ASSUME NEW r \in Run, RunStep(r) PROVE RoutineInv'
  BY <1>2, CreationStep, EnqueueNewStep, CancellingStep DEF RunStep
<1>3. ASSUME NEW c \in Caller, CallStep(c) PROVE RoutineInv'
  BY <1>3, RecoverStep, LoginFailsStep, CallsOnlyStep, ContextResolvedStep DEF CallStep
<1>4. CASE UserStep
  BY <1>4, CreationStep, CancelPendingStep, AbortStep, CallsOnlyStep, SessionStep DEF UserStep
<1>5. CASE Stop
  BY <1>5, StopStep
<1>6. CASE UNCHANGED vars
  <2>1. /\ UNCHANGED <<active, pending, status, mode, checkpoint, creating, session, callAt, target>>
        /\ UNCHANGED <<acted, handed, disturbed>>
    BY <1>6 DEF vars, stored, queue, calls, history
  <2>2. TypeOK' /\ CallInv' /\ MindedInv'
    BY <1>6, <2>1 DEF RoutineInv, TypeOK, CallInv, MindedInv, Recovering, Active, vars, stored,
                      queue, calls, history
  <2> QED
    BY <2>1, <2>2, StoreKept
<1> QED
  BY <1>1, <1>2, <1>3, <1>4, <1>5, <1>6 DEF Next

(* Store, queue and the calls that resume agree about every run: the          *)
(* inductive invariant behind the theorems below.                             *)
THEOREM RoutineInvariance == Spec => []RoutineInv
<1>1. RoutineInv /\ [Next]_vars => RoutineInv'
  BY StepRoutine
<1> QED
  BY <1>1, InitRoutine, PTL DEF Spec

(* The variables of store, queue and calls keep their types.                  *)
THEOREM RoutineTypes == Spec => []TypeOK
<1>1. RoutineInv => TypeOK
  BY DEF RoutineInv
<1> QED
  BY <1>1, RoutineInvariance, PTL

(* While somebody is signed in, a run that is stored as running or as waiting *)
(* for an approval is executed, or recoverInterrupted is about to find it, or *)
(* the sign-in failed before it could.                                        *)
THEOREM NoRunForgotten == Spec => []RunIsMinded
<1>1. RoutineInv => RunIsMinded
  BY DEF RoutineInv, MindedInv, RunIsMinded, Recovering
<1> QED
  BY <1>1, RoutineInvariance, PTL

(* While a run acts in the browser it is stored as running or waiting, unless *)
(* it was recovered or cancelled while it was executed, or begun from an old  *)
(* checkpoint.                                                                *)
THEOREM RunsAreShown == Spec => []ShownAsItRuns
<1>1. RoutineInv => ShownAsItRuns
  BY DEF RoutineInv
<1> QED
  BY <1>1, RoutineInvariance, PTL

(* A stop, a pause or an error costs at most the repetition of one step:      *)
(* checkpointIndex is never ahead of the work and at most one step behind.    *)
THEOREM AtMostOneRepeated == Spec => []OneUnconfirmed
<1>1. RoutineInv => OneUnconfirmed
  BY DEF RoutineInv
<1> QED
  BY <1>1, RoutineInvariance, PTL

(* However often a run was paused, recovered or resumed, it is completed only *)
(* after all its recorded steps, or with an agent that took it over.          *)
THEOREM CompletionsAreEarned == Spec => []CompletedRanAll
<1>1. RoutineInv => CompletedRanAll
  BY DEF RoutineInv
<1> QED
  BY <1>1, RoutineInvariance, PTL
=============================================================================
