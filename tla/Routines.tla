------------------------------ MODULE Routines ------------------------------
(***************************************************************************)
(* The runs of recorded routines in the Chrome extension: the store that     *)
(* keeps them (runStore.js), the queue that executes one at a time           *)
(* (runQueue.js), the runner and the replay of recorded steps (runner.js,    *)
(* replay.js), the approval of a step, and the recovery that puts a run back *)
(* into the queue after the service worker was stopped (background.js).      *)
(* The store survives a stop; queue, active run and pending calls do not.    *)
(* Every action is one operation on the store, or what happens in memory     *)
(* between two awaits.                                                       *)
(***************************************************************************)
EXTENDS Naturals, FiniteSets, SequencesExt

CONSTANTS
  Run,      \* ids of runs
  Caller,   \* calls that put a stored run back: recoveries, and resumes by hand
  Steps,    \* the recorded steps of the routine; none: an agent does the work
  Mode,     \* how runs are asked for: "live", "simulation"
  NoJob

ASSUME StepsAssumption == Steps \in Nat
ASSUME ModeAssumption == Mode \subseteq {"live", "simulation"}

VARIABLES
  status,      \* stored: the status of each run
  checkpoint,  \* stored: checkpointIndex
  mode,        \* stored: live or simulation
  session,     \* stored: somebody is signed in
  active,      \* the item the queue executes, or NoJob
  pending,     \* the items that wait in the queue
  creating,    \* runs inside runner.run
  cancelling,  \* what cancel still does to the store for a run
  callAt,      \* where each call is
  todo,        \* the recovered runs a recovery has still to resume
  target,      \* the run a call resumes, and from which step
  acted,       \* the recorded steps done so far (for the properties)
  handed,      \* runs an agent has taken over (for the properties)
  touched,     \* runs that have acted in the browser (for the properties)
  disturbed,   \* runs recovered or cancelled while they were executed, or begun
               \* from an old checkpoint (for the properties)
  forsaken     \* runs in the middle when the last sign-in failed short of its
               \* recovery, until there is another one (for the properties)

stored == <<status, checkpoint, mode, session>>
queue == <<active, pending>>
calls == <<callAt, todo, target>>
history == <<acted, handed, touched, disturbed, forsaken>>
vars == <<stored, queue, creating, cancelling, calls, history>>

Status == {"none", "draft", "ready", "queued", "running", "waiting_approval",
           "completed", "failed", "cancelled"}
Terminal == {"completed", "failed", "cancelled"}

(* ALLOWED_TRANSITIONS.                                                       *)
Allowed == [s \in Status |->
  CASE s = "draft"            -> {"ready", "cancelled"}
    [] s = "ready"            -> {"queued", "cancelled"}
    [] s = "queued"           -> {"running", "cancelled"}
    [] s = "running"          -> {"waiting_approval", "queued"} \cup Terminal
    [] s = "waiting_approval" -> {"running", "failed", "cancelled"}
    [] OTHER                  -> {}]

Stage == {"begin", "simulate", "call", "asking", "marking", "approval", "closing",
          "unmarking", "granted", "acted", "end", "catch"}

Job == [run: Run,
        start: 0 .. Steps,    \* startIndex
        simulate: BOOLEAN,    \* request.simulate
        stage: Stage,
        pos: 0 .. Steps,      \* the step the replay is at
        agent: BOOLEAN,       \* the agent works, not the replay
        approved: BOOLEAN,    \* how the approval was closed
        aborted: BOOLEAN,
        paused: BOOLEAN]      \* pauseRequested

ASSUME NoJobAssumption == NoJob \notin Job

TypeOK ==
  /\ status \in [Run -> Status]
  /\ checkpoint \in [Run -> 0 .. Steps]
  /\ mode \in [Run -> {"none", "live", "simulation"}]
  /\ session \in BOOLEAN
  /\ active \in Job \cup {NoJob}
  /\ pending \in Seq(Job)
  /\ creating \subseteq Run
  /\ cancelling \in [Run -> {"no", "read", "write"}]
  /\ callAt \in [Caller -> {"idle", "boot", "login", "loop", "context"}]
  /\ todo \in [Caller -> SUBSET Run]
  /\ target \in [Caller -> Run \X (0 .. Steps) \cup {<<>>}]
  /\ acted \in [Run -> 0 .. Steps]
  /\ handed \subseteq Run
  /\ touched \subseteq Run
  /\ disturbed \subseteq Run
  /\ forsaken \subseteq Run

Init ==
  /\ status = [r \in Run |-> "none"]
  /\ checkpoint = [r \in Run |-> 0]
  /\ mode = [r \in Run |-> "none"]
  /\ session = TRUE
  /\ active = NoJob
  /\ pending = <<>>
  /\ creating = {}
  /\ cancelling = [r \in Run |-> "no"]
  /\ callAt = [c \in Caller |-> "idle"]
  /\ todo = [c \in Caller |-> {}]
  /\ target = [c \in Caller |-> <<>>]
  /\ acted = [r \in Run |-> 0]
  /\ handed = {}
  /\ touched = {}
  /\ disturbed = {}
  /\ forsaken = {}

Active(r) == active # NoJob /\ active.run = r
Pending(r) == \E i \in DOMAIN pending : pending[i].run = r

-----------------------------------------------------------------------------
(* The store.                                                                 *)

(* transition: it throws and writes nothing where the table has no entry.     *)
Transition(r, next) ==
  status' = IF next \in Allowed[status[r]] THEN [status EXCEPT ![r] = next] ELSE status

(* Approvals are not recovered.                                               *)
Interrupted_RunningOnly == {r \in Run : status[r] = "running"}

(* The runs recoverInterrupted finds.                                         *)
Interrupted == {r \in Run : status[r] \in {"running", "waiting_approval"}}

-----------------------------------------------------------------------------
(* The queue.                                                                 *)

NewJob(r, start, simulate) ==
  [run |-> r, start |-> start, simulate |-> simulate, stage |-> "begin", pos |-> start,
   agent |-> Steps = 0, approved |-> FALSE, aborted |-> FALSE, paused |-> FALSE]

(* enqueue, and the pump it calls: a run that is in the queue is rejected.    *)
Enqueue(job) ==
  IF Active(job.run) \/ Pending(job.run) THEN UNCHANGED queue
  ELSE IF active = NoJob THEN active' = job /\ UNCHANGED pending
  ELSE pending' = Append(pending, job) /\ UNCHANGED active

(* An item whose execution is rejected stays active.                          *)
JobOver_OnSuccess ==
  IF status'[active.run] \notin {"completed", "cancelled"} THEN UNCHANGED queue
  ELSE IF pending = <<>> THEN active' = NoJob /\ UNCHANGED pending
  ELSE active' = Head(pending) /\ pending' = Tail(pending)

(* The active item is settled, and the pump takes the next one.               *)
JobOver ==
  IF pending = <<>> THEN active' = NoJob /\ UNCHANGED pending
  ELSE active' = Head(pending) /\ pending' = Tail(pending)

-----------------------------------------------------------------------------
(* runner.run: the run is stored in three transactions, then enqueued.        *)

Create(r, m) ==
  /\ session
  /\ status[r] = "none"
  /\ status' = [status EXCEPT ![r] = "draft"]
  /\ mode' = [mode EXCEPT ![r] = m]
  /\ creating' = creating \cup {r}
  /\ UNCHANGED <<checkpoint, session, queue, cancelling, calls, history>>

Promote(r) ==
  /\ r \in creating
  /\ \/ status[r] = "draft" /\ Transition(r, "ready")
     \/ status[r] = "ready" /\ Transition(r, "queued")
  /\ UNCHANGED <<checkpoint, mode, session, queue, creating, cancelling, calls, history>>

EnqueueNew(r) ==
  /\ r \in creating
  /\ status[r] \notin {"draft", "ready"}
  /\ Enqueue(NewJob(r, 0, mode[r] = "simulation"))
  /\ creating' = creating \ {r}
  /\ UNCHANGED <<stored, cancelling, calls, history>>

-----------------------------------------------------------------------------
(* The recovery, and runner.resume.                                           *)

(* restoreRoutineExecutionState recovers if somebody is signed in; a sign-in  *)
(* recovers although the worker was never stopped.                            *)
Recover(c) ==
  /\ callAt[c] \in {"boot", "login"}
  /\ IF callAt[c] = "boot" /\ ~session
     THEN /\ callAt' = [callAt EXCEPT ![c] = "idle"]
          /\ UNCHANGED <<status, todo, disturbed, forsaken>>
     ELSE /\ status' = [r \in Run |-> IF r \in Interrupted THEN "queued" ELSE status[r]]
          /\ todo' = [todo EXCEPT ![c] = Interrupted]
          /\ callAt' = [callAt EXCEPT ![c] = "loop"]
          /\ disturbed' = disturbed \cup {r \in Interrupted : Active(r)}
          /\ forsaken' = {}
  /\ UNCHANGED <<checkpoint, mode, session, queue, creating, cancelling, target,
                 acted, handed, touched>>

(* The models cannot be loaded, or the alarms not be synchronised: the sign-in *)
(* is answered with the error, the session stays and nothing is recovered.    *)
LoginFails(c) ==
  /\ callAt[c] = "login"
  /\ callAt' = [callAt EXCEPT ![c] = "idle"]
  /\ forsaken' = Interrupted
  /\ UNCHANGED <<stored, queue, creating, cancelling, todo, target,
                 acted, handed, touched, disturbed>>

(* A call goes on with the next recovered run, or is over.                    *)
NextOf(c, left) ==
  /\ todo' = [todo EXCEPT ![c] = left]
  /\ target' = [target EXCEPT ![c] = <<>>]
  /\ callAt' = [callAt EXCEPT ![c] = IF left = {} THEN "idle" ELSE "loop"]

(* The step that was interrupted is skipped.                                  *)
Resumes_SkipsStep(c, r, left) ==
  /\ todo' = [todo EXCEPT ![c] = left]
  /\ target' = [target EXCEPT ![c] = <<r, IF checkpoint[r] < Steps THEN checkpoint[r] + 1 ELSE Steps>>]
  /\ callAt' = [callAt EXCEPT ![c] = "context"]

(* resume reads the run, which must be queued.                                *)
Resumes(c, r, left) ==
  /\ todo' = [todo EXCEPT ![c] = left]
  /\ target' = [target EXCEPT ![c] = <<r, checkpoint[r]>>]
  /\ callAt' = [callAt EXCEPT ![c] = "context"]

(* The tab of a recovered run is resolved, or cannot be; then it is resumed.  *)
TakeRecovered(c) ==
  /\ callAt[c] = "loop"
  /\ IF todo[c] = {} THEN NextOf(c, {})
     ELSE \E r \in todo[c] :
            \/ NextOf(c, todo[c] \ {r})
            \/ status[r] = "queued" /\ Resumes(c, r, todo[c] \ {r})
  /\ UNCHANGED <<stored, queue, creating, cancelling, history>>

ResumeByHand(c, r) ==
  /\ session
  /\ callAt[c] = "idle"
  /\ status[r] = "queued"
  /\ Resumes(c, r, {})
  /\ UNCHANGED <<stored, queue, creating, cancelling, history>>

(* resolveContext has answered; the request of a resume has no simulate.      *)
ContextResolved(c) ==
  /\ callAt[c] = "context"
  /\ session
  /\ Enqueue(NewJob(target[c][1], target[c][2], FALSE))
  /\ NextOf(c, todo[c])
  /\ UNCHANGED <<stored, creating, cancelling, history>>

(* The routine, its model or the page no longer fits, or nobody is signed in. *)
ContextRefused(c) ==
  /\ callAt[c] = "context"
  /\ NextOf(c, todo[c])
  /\ UNCHANGED <<stored, queue, creating, cancelling, history>>

-----------------------------------------------------------------------------
(* cancel and pause.                                                          *)

CancelPending(r) ==
  /\ session
  /\ \E i \in DOMAIN pending : pending[i].run = r /\ pending' = RemoveAt(pending, i)
  /\ cancelling' = [cancelling EXCEPT ![r] = "read"]
  /\ UNCHANGED <<stored, active, creating, calls, history>>

CancelActive(r) ==
  /\ session
  /\ Active(r)
  /\ active' = [active EXCEPT !.aborted = TRUE]
  /\ cancelling' = [cancelling EXCEPT ![r] = "read"]
  /\ UNCHANGED <<stored, pending, creating, calls, history>>

(* get waits for the writes already made, the one of Begin among them.        *)
CancelReads(r) ==
  /\ cancelling[r] = "read"
  /\ Active(r) => active.stage # "begin"
  /\ cancelling' = [cancelling EXCEPT
       ![r] = IF status[r] \in {"draft", "ready", "queued"} THEN "write" ELSE "no"]
  /\ UNCHANGED <<stored, queue, creating, calls, history>>

CancelWrites(r) ==
  /\ cancelling[r] = "write"
  /\ Transition(r, "cancelled")
  /\ cancelling' = [cancelling EXCEPT ![r] = "no"]
  /\ disturbed' = IF Active(r) THEN disturbed \cup {r} ELSE disturbed
  /\ UNCHANGED <<checkpoint, mode, session, queue, creating, calls, acted, handed, touched,
                 forsaken>>

(* The run is stored as queued before its execution has ended.                *)
Pause_AtOnce(r) ==
  /\ session
  /\ status[r] = "running"
  /\ Active(r)
  /\ active' = [active EXCEPT !.aborted = TRUE, !.paused = TRUE]
  /\ Transition(r, "queued")
  /\ UNCHANGED <<checkpoint, mode, session, pending, creating, cancelling, calls, history>>

(* pause answers true for a run that waits, and does nothing about it.        *)
Pause(r) ==
  /\ session
  /\ status[r] = "running"
  /\ Active(r)
  /\ active' = [active EXCEPT !.aborted = TRUE, !.paused = TRUE]
  /\ UNCHANGED <<stored, pending, creating, cancelling, calls, history>>

-----------------------------------------------------------------------------
(* The execution of the active item.                                          *)

Goes(stage) == active' = [active EXCEPT !.stage = stage] /\ UNCHANGED pending

(* A step that leaves the store and the history alone.                        *)
Quiet == UNCHANGED <<stored, history, creating, cancelling, calls>>

(* A write of the status, nothing else.                                       *)
WritesStatus == UNCHANGED <<checkpoint, mode, session, history, creating, cancelling, calls>>

Begin ==
  /\ active.stage = "begin"
  /\ Transition(active.run, "running")
  /\ IF "running" \in Allowed[status[active.run]]
     THEN /\ Goes(IF active.simulate THEN "simulate" ELSE "call")
          /\ disturbed' = IF active.start # checkpoint[active.run]
                          THEN disturbed \cup {active.run} ELSE disturbed
     ELSE Goes("catch") /\ UNCHANGED disturbed
  /\ UNCHANGED <<checkpoint, mode, session, acted, handed, touched, forsaken,
                 creating, cancelling, calls>>

(* The promise of the last transition is returned, not awaited: what it       *)
(* throws rejects the item and is not caught.                                 *)
Simulate ==
  /\ active.stage = "simulate"
  /\ Transition(active.run, "completed")
  /\ JobOver
  /\ WritesStatus

Larger(m, n) == IF m >= n THEN m ELSE n

(* The tool acts in the browser.                                              *)
Acts ==
  /\ touched' = touched \cup {active.run}
  /\ acted' = IF active.agent THEN acted
              ELSE [acted EXCEPT ![active.run] = Larger(@, active.pos + 1)]
  /\ Goes(IF active.agent THEN "call" ELSE "acted")
  /\ UNCHANGED <<stored, handed, disturbed, forsaken, creating, cancelling, calls>>

(* There is a step to execute: the replay does not begin one when aborted.    *)
MayCall == active.stage = "call" /\ (active.agent \/ (~active.aborted /\ active.pos < Steps))

Act == (MayCall \/ active.stage = "granted") /\ Acts

(* A step that fails is handed to the agent, once; the agent goes on after a  *)
(* tool that fails.                                                           *)
StepFails ==
  /\ MayCall \/ active.stage = "granted"
  /\ active' = [active EXCEPT !.stage = IF active.aborted /\ ~active.agent THEN "catch" ELSE "call",
                              !.agent = @ \/ ~active.aborted]
  /\ handed' = IF active.aborted THEN handed ELSE handed \cup {active.run}
  /\ UNCHANGED <<pending, stored, acted, touched, disturbed, forsaken,
                 creating, cancelling, calls>>

(* A terminal failure, one of the agent, or a branch, navigation or           *)
(* extraction that fails.                                                     *)
Throws == (MayCall \/ active.stage \in {"granted", "end"}) /\ Goes("catch") /\ Quiet

ReplayCancelled ==
  /\ active.stage = "call" /\ ~active.agent /\ active.aborted /\ active.pos < Steps
  /\ Goes("catch")
  /\ Quiet

ReplayCompleted ==
  /\ active.stage = "call" /\ ~active.agent /\ active.pos = Steps
  /\ Goes("end")
  /\ Quiet

AgentEnds == active.stage = "call" /\ active.agent /\ Goes("end") /\ Quiet

(* The index of the step is stored, not of the next one.                      *)
Checkpoint_OneLess ==
  /\ active.stage = "acted"
  /\ IF active.aborted THEN Goes("catch") /\ UNCHANGED checkpoint
     ELSE /\ checkpoint' = [checkpoint EXCEPT ![active.run] = active.pos]
          /\ active' = [active EXCEPT !.stage = "call", !.pos = @ + 1]
          /\ UNCHANGED pending
  /\ UNCHANGED <<status, mode, session, history, creating, cancelling, calls>>

(* The confirmation of a step.                                                *)
Checkpoint ==
  /\ active.stage = "acted"
  /\ IF active.aborted THEN Goes("catch") /\ UNCHANGED checkpoint
     ELSE /\ checkpoint' = [checkpoint EXCEPT ![active.run] = active.pos + 1]
          /\ active' = [active EXCEPT !.stage = "call", !.pos = @ + 1]
          /\ UNCHANGED pending
  /\ UNCHANGED <<status, mode, session, history, creating, cancelling, calls>>

(* setRoutineApprovalState reads the run, and later writes it.                *)
NeedsApproval == MayCall /\ Goes("asking") /\ Quiet

Asking ==
  /\ active.stage = "asking"
  /\ Goes(IF session /\ status[active.run] = "running" THEN "marking" ELSE "approval")
  /\ Quiet

Marking ==
  /\ active.stage = "marking"
  /\ Transition(active.run, "waiting_approval")
  /\ Goes(IF status'[active.run] = "waiting_approval" THEN "approval" ELSE "catch")
  /\ WritesStatus

(* Approved, denied, timed out, or cancelled with the run.                    *)
Answered ==
  /\ active.stage = "approval"
  /\ \E approved \in {FALSE, ~active.aborted} :
       active' = [active EXCEPT !.stage = "closing", !.approved = approved]
  /\ UNCHANGED pending
  /\ Quiet

AfterApproval == IF active.approved THEN "granted" ELSE IF active.agent THEN "call" ELSE "catch"

Closing ==
  /\ active.stage = "closing"
  /\ Goes(IF session /\ status[active.run] = "waiting_approval" THEN "unmarking" ELSE AfterApproval)
  /\ Quiet

Unmarking ==
  /\ active.stage = "unmarking"
  /\ Transition(active.run, "running")
  /\ Goes(IF "running" \in Allowed[status[active.run]] THEN AfterApproval ELSE "catch")
  /\ WritesStatus

(* The end of the try block, and the catch block.                             *)
Settle(otherwise) ==
  /\ Transition(active.run, IF active.paused THEN "queued"
                            ELSE IF active.aborted THEN "cancelled" ELSE otherwise)
  /\ JobOver
  /\ WritesStatus

End == active.stage = "end" /\ Settle("completed")
Catch == active.stage = "catch" /\ Settle("failed")

JobStep ==
  /\ active # NoJob
  /\ \/ Begin \/ Simulate
     \/ Act \/ StepFails \/ Throws \/ ReplayCancelled \/ ReplayCompleted \/ AgentEnds
     \/ Checkpoint
     \/ NeedsApproval \/ Asking \/ Marking \/ Answered \/ Closing \/ Unmarking
     \/ End \/ Catch

-----------------------------------------------------------------------------
(* Around the worker.                                                         *)

(* A sign-out stops no run.                                                   *)
SignOut ==
  /\ session
  /\ session' = FALSE
  /\ forsaken' = {}
  /\ UNCHANGED <<status, checkpoint, mode, queue, creating, cancelling, calls,
                 acted, handed, touched, disturbed>>

(* The session is stored before the models and the alarms are seen to.        *)
SignIn(c) ==
  /\ ~session
  /\ callAt[c] = "idle"
  /\ session' = TRUE
  /\ callAt' = [callAt EXCEPT ![c] = "login"]
  /\ UNCHANGED <<status, checkpoint, mode, queue, creating, cancelling, todo, target, history>>

(* Chrome stops the service worker; the next one restores the state when it   *)
(* is loaded, and a second time at the start of the browser.                  *)
Stop ==
  /\ active' = NoJob
  /\ pending' = <<>>
  /\ creating' = {}
  /\ cancelling' = [r \in Run |-> "no"]
  /\ \E restoring \in SUBSET Caller :
       /\ Cardinality(restoring) \in {1, 2}
       /\ callAt' = [c \in Caller |-> IF c \in restoring THEN "boot" ELSE "idle"]
  /\ todo' = [c \in Caller |-> {}]
  /\ target' = [c \in Caller |-> <<>>]
  /\ forsaken' = {}
  /\ UNCHANGED <<stored, acted, handed, touched, disturbed>>

CallStep(c) ==
  \/ Recover(c) \/ LoginFails(c)
  \/ TakeRecovered(c) \/ ContextResolved(c) \/ ContextRefused(c)

RunStep(r) == Promote(r) \/ EnqueueNew(r) \/ CancelReads(r) \/ CancelWrites(r)

UserStep ==
  \/ \E r \in Run :
       \/ \E m \in Mode : Create(r, m)
       \/ CancelPending(r) \/ CancelActive(r) \/ Pause(r)
       \/ \E c \in Caller : ResumeByHand(c, r)
  \/ SignOut
  \/ \E c \in Caller : SignIn(c)

Next ==
  \/ JobStep
  \/ \E r \in Run : RunStep(r)
  \/ \E c \in Caller : CallStep(c)
  \/ UserStep
  \/ Stop

Spec == Init /\ [][Next]_vars

(* What was begun goes on: approvals time out, and an agent has a budget of   *)
(* turns, so that it comes to an end however often it may go on.  That the    *)
(* page answers a step, or a tool of the agent, is assumed: nothing in the    *)
(* code times it out.                                                        *)
Fairness ==
  /\ WF_vars(JobStep)
  /\ SF_vars(active # NoJob /\ AgentEnds)
  /\ \A r \in Run : WF_vars(RunStep(r))
  /\ \A c \in Caller : WF_vars(CallStep(c))

FairSpec == Spec /\ Fairness

-----------------------------------------------------------------------------
(* Properties.                                                                *)

(* A run that is stored as running or as waiting for an approval is being     *)
(* executed, or a recovery is about to find it.  Only a sign-in that fails     *)
(* before its recovery leaves runs so, and no longer than to the next one.    *)
RunIsMinded ==
  \A r \in Run : (status[r] \in {"running", "waiting_approval"} /\ session) =>
    Active(r) \/ r \in forsaken \/ \E c \in Caller : callAt[c] \in {"boot", "login"}

(* While a run acts in the browser it is stored as running or waiting: it is  *)
(* not shown as over, nor as queued, where resume and cancel would take it    *)
(* for one that is not being executed.  Recoveries and cancellations that met *)
(* the run in execution, and resumes from an old checkpoint, are excepted.    *)
ShownAsItRuns ==
  (active # NoJob /\ active.stage \notin {"begin", "catch"}) =>
    active.run \in disturbed \/ status[active.run] \in {"running", "waiting_approval"}

(* The checkpoint is never ahead of what was done, and at most one step is    *)
(* done and not confirmed: after a stop, a pause or an error at most that one *)
(* is repeated.                                                               *)
OneUnconfirmed ==
  \A r \in Run \ disturbed : checkpoint[r] <= acted[r] /\ acted[r] <= checkpoint[r] + 1

(* A routine is completed only when every recorded step was done, or an agent *)
(* has taken it over; however often it was paused, recovered or resumed.      *)
CompletedRanAll ==
  \A r \in Run :
    (status[r] = "completed" /\ mode[r] = "live") => acted[r] = Steps \/ r \in handed

(* A run that waits in the queue leaves it: the one before it ends, whatever  *)
(* becomes of it.                                                             *)
PendingLeaves == \A r \in Run : Pending(r) ~> ~Pending(r)

(* A simulation never acts in the browser.                                    *)
SimulationNeverActs == \A r \in Run : mode[r] = "simulation" => r \notin touched
=============================================================================
