------------------------------ MODULE Schedule ------------------------------
(***************************************************************************)
(* The schedule of one recorded routine in the Chrome extension: the alarm   *)
(* that wakes the service worker (scheduler.js), the occurrence stored with  *)
(* the routine (store.js, recurrence.js), the edits of the user             *)
(* (messageHandler.js), and the synchronisation at every start of the worker *)
(* and every sign-in (background.js).                                       *)
(* The stored routine and the alarm survive a stop of the worker; whatever   *)
(* it was doing does not.  An action is what happens between two awaits: the *)
(* store rejects an update whose expected revision is not the stored one.    *)
(***************************************************************************)
EXTENDS Naturals, Sequences

CONSTANTS
  Handler,   \* deliveries of the alarm that are handled at the same time
  Editor,    \* requests of the settings page that are handled at the same time
  Sync,      \* the synchronisation of the account
  Period,    \* the recurrence: an occurrence every Period, at one of its phases
  Off,       \* no schedule
  NoTime,    \* a schedule without nextRunAt
  NoAlarm,
  MaxNow, MaxRev, MaxStops   \* bounds of the instance

ASSUME ActorsAssumption ==
  Handler \cap Editor = {} /\ Sync \notin Handler \cup Editor
ASSUME PeriodAssumption == Period \in Nat \ {0}
ASSUME AbsentAssumption == Off \notin Nat /\ NoTime \notin Nat /\ NoAlarm \notin Nat
ASSUME BoundAssumption == MaxNow \in Nat /\ MaxRev \in Nat /\ MaxStops \in Nat

VARIABLES
  routine,  \* stored: revision (0: deleted), phase, nextRunAt
  alarm,    \* kept by Chrome: when the alarm is due, or NoAlarm
  session,  \* stored: the account of the routine is signed in
  leaving,  \* a sign-out is between its two parts
  up,       \* the service worker runs
  now,
  at,       \* where each handler, each request and the synchronisation is
  seen,     \* the routine it has read, and the nextRunAt it will write
  runs,     \* stored: the occurrence keys of the runs, in order
  dropped,  \* an operation failed and the alarm was not set since (for the properties)
  stops     \* how often the worker was stopped (bound)

worker == <<leaving, up, at, seen>>
vars == <<routine, alarm, session, now, worker, runs, dropped, stops>>

Actor == Handler \cup Editor \cup {Sync}
Phase == 0 .. Period - 1
Stored == [revision: Nat, phase: Phase \cup {Off}, nextRunAt: Nat \cup {NoTime}]
Seen == [revision: Nat, phase: Phase \cup {Off}, nextRunAt: Nat \cup {NoTime},
         next: Nat]

TypeOK ==
  /\ routine \in Stored
  /\ alarm \in Nat \cup {NoAlarm}
  /\ session \in BOOLEAN
  /\ leaving \in BOOLEAN
  /\ up \in BOOLEAN
  /\ now \in Nat
  /\ at \in [Actor -> {"idle", "fired", "saved", "due", "writing", "arming", "armed", "running"}]
  /\ seen \in [Actor -> Seen]
  /\ runs \in Seq(Nat \cup {NoTime})
  /\ dropped \in BOOLEAN
  /\ stops \in Nat

Nothing == [revision |-> 0, phase |-> Off, nextRunAt |-> NoTime, next |-> 0]

(* A routine that has been created: the request that did has it still to      *)
(* reconcile.                                                                 *)
Init ==
  \E p \in Phase \cup {Off}, e \in Editor :
    /\ routine = [revision |-> 1, phase |-> p, nextRunAt |-> NoTime]
    /\ at = [a \in Actor |-> IF a = e THEN "saved" ELSE "idle"]
    /\ seen = [a \in Actor |-> IF a = e THEN [Nothing EXCEPT !.phase = p] ELSE Nothing]
    /\ alarm = NoAlarm
    /\ session = TRUE
    /\ leaving = FALSE
    /\ up = TRUE
    /\ now = 0
    /\ runs = <<>>
    /\ dropped = FALSE
    /\ stops = 0

-----------------------------------------------------------------------------
Later(x, y) == IF x >= y THEN x ELSE y

(* nextOccurrence: the first one strictly after t.                            *)
NextOccurrence(p, t) == t + Period - ((t + Period - p) % Period)

Scheduled == routine.phase # Off
Due == Scheduled /\ routine.nextRunAt # NoTime /\ routine.nextRunAt <= now

(* What follows an update of the store follows it in the same task: nobody    *)
(* else comes in between, but the worker may be stopped.                      *)
Goes(a, place) == up /\ at[a] = place /\ \A b \in Actor \ {a} : at[b] # "arming"

Moves(a, place) == at' = [at EXCEPT ![a] = place]

(* What it had read is forgotten.                                             *)
Ends(a) == Moves(a, "idle") /\ seen' = [seen EXCEPT ![a] = Nothing]

(* An actor has read the routine and knows the occurrence it will store.      *)
Plans(a, phase, next) ==
  /\ seen' = [seen EXCEPT ![a] = [revision |-> routine.revision, phase |-> phase,
                                   nextRunAt |-> routine.nextRunAt, next |-> next]]
  /\ Moves(a, "writing")

Matches_Always(a) == routine.revision # 0

(* The check of the expected revision in the store's update.                  *)
Matches(a) == routine.revision # 0 /\ routine.revision = seen[a].revision

(* update with the new nextRunAt.                                             *)
Write(a) ==
  /\ Goes(a, "writing")
  /\ IF Matches(a)
     THEN /\ routine' = [revision |-> routine.revision + 1, phase |-> seen[a].phase,
                         nextRunAt |-> seen[a].next]
          /\ Moves(a, "arming")
          /\ UNCHANGED <<seen, dropped>>
     ELSE Ends(a) /\ dropped' = TRUE /\ UNCHANGED routine
  /\ UNCHANGED <<alarm, session, leaving, up, now, runs, stops>>

Planned(a) == seen[a].next

(* alarms.create, which replaces the alarm.                                   *)
Arm(a) ==
  /\ Goes(a, "arming")
  /\ alarm' = Planned(a)
  /\ \/ a \in Handler /\ Moves(a, "armed") /\ UNCHANGED seen
     \/ a \notin Handler /\ Ends(a)
  /\ dropped' = FALSE
  /\ UNCHANGED <<routine, session, leaving, up, now, runs, stops>>

-----------------------------------------------------------------------------
(* handleAlarm.                                                               *)

(* Chrome delivers the alarm, and starts the worker if it has to.             *)
Fire(h) ==
  /\ alarm # NoAlarm /\ alarm <= now
  /\ at[h] = "idle" /\ \A b \in Actor : at[b] # "arming"
  /\ alarm' = NoAlarm
  /\ up' = TRUE
  /\ at' = [at EXCEPT ![h] = "fired", ![Sync] = IF up THEN @ ELSE "due"]
  /\ UNCHANGED <<routine, session, leaving, now, seen, runs, dropped, stops>>

Read(h) ==
  /\ Goes(h, "fired")
  /\ IF Scheduled
     THEN /\ Plans(h, routine.phase,
                   NextOccurrence(routine.phase,
                     IF routine.nextRunAt = NoTime THEN now ELSE Later(now, routine.nextRunAt)))
          /\ UNCHANGED alarm
     ELSE Ends(h) /\ alarm' = NoAlarm
  /\ UNCHANGED <<routine, session, leaving, up, now, runs, dropped, stops>>

Taken_Never(k) == FALSE
Taken(k) == \E i \in DOMAIN runs : runs[i] = k

(* occurrenceExists, then the conditions of a run: each of them, and an error *)
(* on the way, ends the handler; a missing one also shows a notification.     *)
Decide(h) ==
  /\ Goes(h, "armed")
  /\ \/ Ends(h)
     \/ session /\ ~Taken(seen[h].nextRunAt) /\ Moves(h, "running") /\ UNCHANGED seen
  /\ UNCHANGED <<routine, alarm, session, leaving, up, now, runs, dropped, stops>>

(* What run checks: the session, the revision the handler wrote, and, in the  *)
(* run store, that no run has the occurrence.                                 *)
Fresh(h) ==
  session /\ routine.revision = seen[h].revision + 1 /\ ~Taken(seen[h].nextRunAt)

CreateRun(h) ==
  /\ Goes(h, "running")
  /\ IF Fresh(h)
     THEN runs' = Append(runs, seen[h].nextRunAt)
     ELSE UNCHANGED runs
  /\ Ends(h)
  /\ UNCHANGED <<routine, alarm, session, leaving, up, now, dropped, stops>>

-----------------------------------------------------------------------------
(* The user.                                                                  *)

(* ROUTINE_UPDATE: the form sends the schedule without nextRunAt.             *)
Save(e, p) ==
  /\ Goes(e, "idle") /\ session
  /\ routine.revision \in 1 .. MaxRev - 1
  /\ routine' = [revision |-> routine.revision + 1, phase |-> p, nextRunAt |-> NoTime]
  /\ seen' = [seen EXCEPT ![e] = [Nothing EXCEPT !.phase = p]]
  /\ Moves(e, "saved")
  /\ UNCHANGED <<alarm, session, leaving, up, now, runs, dropped, stops>>

(* ROUTINE_DELETE: its id is never used again.                                *)
Delete(e) ==
  /\ Goes(e, "idle") /\ session
  /\ routine.revision # 0
  /\ routine' = [revision |-> 0, phase |-> Off, nextRunAt |-> NoTime]
  /\ seen' = [seen EXCEPT ![e] = Nothing]
  /\ Moves(e, "saved")
  /\ UNCHANGED <<alarm, session, leaving, up, now, runs, dropped, stops>>

(* reconcileRoutine, and upsert up to its update.                             *)
Reconcile(e) ==
  /\ Goes(e, "saved")
  /\ IF seen[e].phase = Off
     THEN Ends(e) /\ alarm' = NoAlarm
     ELSE IF routine.revision = 0
     THEN Ends(e) /\ UNCHANGED alarm
     ELSE Plans(e, seen[e].phase, NextOccurrence(seen[e].phase, now)) /\ UNCHANGED alarm
  /\ UNCHANGED <<routine, session, leaving, up, now, runs, dropped, stops>>

(* Reference files, and a suggested recovery the user accepts, write the      *)
(* routine and leave its schedule.                                            *)
Touch ==
  /\ up /\ session /\ \A a \in Actor : at[a] # "arming"
  /\ routine.revision \in 1 .. MaxRev - 1
  /\ routine' = [routine EXCEPT !.revision = @ + 1]
  /\ UNCHANGED <<alarm, session, now, worker, runs, dropped, stops>>

(* AUTH_LOGOUT: suspendAccount, then logout.                                  *)
Suspend ==
  /\ up /\ session /\ ~leaving /\ \A a \in Actor : at[a] # "arming"
  /\ alarm' = NoAlarm
  /\ leaving' = TRUE
  /\ UNCHANGED <<routine, session, up, now, at, seen, runs, dropped, stops>>

Leave ==
  /\ up /\ leaving
  /\ session' = FALSE
  /\ leaving' = FALSE
  /\ UNCHANGED <<routine, alarm, up, now, at, seen, runs, dropped, stops>>

(* AUTH_LOGIN: the models are loaded first, and if they cannot be, nothing is *)
(* synchronised.                                                              *)
SignIn ==
  /\ Goes(Sync, "idle") /\ ~session
  /\ session' = TRUE
  /\ \/ Moves(Sync, "due") /\ UNCHANGED dropped
     \/ dropped' = TRUE /\ UNCHANGED at
  /\ UNCHANGED <<routine, alarm, leaving, up, now, seen, runs, stops>>

-----------------------------------------------------------------------------
(* syncAccount: an occurrence that was missed is due at once and stays the     *)
(* stored one; a schedule without an occurrence gets its next one.            *)

ToRestore_NotLate == session /\ Scheduled /\ ~Due
ToRestore == session /\ Scheduled

Unplanned_OrLate == routine.nextRunAt = NoTime \/ Due
Unplanned == routine.nextRunAt = NoTime

Synchronise ==
  /\ Goes(Sync, "due")
  /\ \/ /\ ~ToRestore
        /\ Moves(Sync, "idle")
        /\ UNCHANGED <<alarm, seen, dropped>>
     \/ /\ ToRestore /\ Unplanned
        /\ Plans(Sync, routine.phase, NextOccurrence(routine.phase, now))
        /\ UNCHANGED <<alarm, dropped>>
     \/ /\ ToRestore /\ ~Unplanned
        /\ alarm' = Later(routine.nextRunAt, now)
        /\ dropped' = FALSE
        /\ Moves(Sync, "idle")
        /\ UNCHANGED seen
  /\ UNCHANGED <<routine, session, leaving, up, now, runs, stops>>

(* The worker is stopped, or the browser closed; an alarm may not outlive     *)
(* the browser.                                                               *)
Stop ==
  /\ up /\ stops < MaxStops
  /\ up' = FALSE
  /\ stops' = stops + 1
  /\ at' = [a \in Actor |-> "idle"]
  /\ seen' = [a \in Actor |-> Nothing]
  /\ leaving' = FALSE
  /\ alarm' \in {alarm, NoAlarm}
  /\ UNCHANGED <<routine, session, now, runs, dropped>>

(* A message or the start of the browser: the module synchronises first.      *)
Wake ==
  /\ ~up
  /\ up' = TRUE
  /\ Moves(Sync, "due")
  /\ UNCHANGED <<routine, alarm, session, leaving, now, seen, runs, dropped, stops>>

Tick ==
  /\ now < MaxNow
  /\ now' = now + 1
  /\ UNCHANGED <<routine, alarm, session, worker, runs, dropped, stops>>

-----------------------------------------------------------------------------
(* What an actor does next.                                                   *)
Proceeds(a) ==
  \/ Write(a) \/ Arm(a)
  \/ a \in Handler /\ (Read(a) \/ Decide(a) \/ CreateRun(a))
  \/ a \in Editor /\ Reconcile(a)
  \/ a = Sync /\ Synchronise

Next ==
  \/ \E a \in Actor : Proceeds(a)
  \/ \E h \in Handler : Fire(h)
  \/ \E e \in Editor : Delete(e) \/ \E p \in Phase \cup {Off} : Save(e, p)
  \/ Touch \/ Suspend \/ Leave \/ SignIn
  \/ Stop \/ Wake
  \/ Tick

Spec == Init /\ [][Next]_vars

(* Chrome delivers a due alarm and starts the worker again; a worker that     *)
(* runs goes on with something it has begun.                                  *)
Fairness ==
  /\ WF_vars(\E h \in Handler : Fire(h))
  /\ WF_vars(\E a \in Actor : Proceeds(a))
  /\ WF_vars(Leave)
  /\ WF_vars(Wake)

FairSpec == Spec /\ Fairness

-----------------------------------------------------------------------------
(* An occurrence has at most one run, however often its alarm is delivered     *)
(* and however often an edit makes it the next one again.                     *)
RunsOnce == \A i, j \in DOMAIN runs : runs[i] = runs[j] => i = j

Settled == up /\ ~leaving /\ \A a \in Actor : at[a] \in {"idle", "armed", "running"}

(* A routine with a schedule has an alarm no later than its next occurrence,   *)
(* unless a request, a handler, a synchronisation or a sign-out is still at   *)
(* it, or one of them has failed since the alarm was last set.                *)
ArmedOrMinded ==
  session /\ Scheduled /\ Settled /\ ~dropped =>
    /\ routine.nextRunAt # NoTime
    /\ alarm # NoAlarm
    /\ alarm <= Later(routine.nextRunAt, now)

(* An occurrence that is due is replaced by another one only by a handler that *)
(* carries it or by the user's edit: a missed one is not passed over.          *)
DueGoesToHandler ==
  [][Due /\ Scheduled' /\ routine'.nextRunAt # routine.nextRunAt =>
       \/ \E h \in Handler : at'[h] = "arming" /\ seen[h].nextRunAt = routine.nextRunAt
       \/ \E e \in Editor : at'[e] \in {"saved", "arming"}]_vars

(* An occurrence that is due is taken by a handler, in spite of stops of the   *)
(* worker and of lost alarms, unless an operation has failed.                 *)
DueIsTaken == Due ~> (~Due \/ ~session \/ dropped)
=============================================================================
