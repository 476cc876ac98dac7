---------------------------- MODULE TurnService ----------------------------
(***************************************************************************)
(* The backend's TurnService: a turn is one user message worked on by one    *)
(* CLI process.  A turn's background thread prepares attached media, spawns  *)
(* the CLI and hands its stdout to a reader thread; interrupt finds the turn *)
(* of a conversation and signals its CLI; the update installer may only go   *)
(* ahead when no turn is at work.  Each step below is what one thread does   *)
(* between two points where another thread can be seen: a lock, a process or *)
(* an event.                                                                *)
(***************************************************************************)
EXTENDS Naturals, FiniteSets

CONSTANTS
  Turn,           \* turn ids; the renderer makes a fresh one for every message
  Conversation,
  NoTurn,
  Of,             \* the conversation each turn is sent in
  Rogue           \* what a CLI may do: "survivor", "garbled"

ASSUME NoTurnAssumption == NoTurn \notin Turn
ASSUME OfAssumption == Of \in [Turn -> Conversation]
ASSUME RogueAssumption == Rogue \subseteq {"survivor", "garbled"}

VARIABLES
  phase,           \* where the thread that works on the turn is
  outcome,         \* the terminal event of the turn, or what send_turn replied
  cli,             \* the turn's CLI process
  survivor,        \* turns whose CLI left a descendant holding its output pipes
  active,          \* turns with a child handle: TurnService.active
  byConversation,  \* TurnService.active_by_conversation
  overtaken,       \* history: turns whose mapping a later turn has taken over
  job,             \* VideoJobRegistry.jobs_by_conversation; a job is named by its turn
  cancelled,       \* turns whose media job was cancelled
  killer,          \* turns with a pending 750 ms escalation thread
  intrAt,          \* control point of each conversation's interrupt command
  intrTurn,        \* the media job, then the turn, that command has looked up
  install,         \* control point of the install_update command
  counted,         \* the installer has seen a child
  installing       \* UpdateInstallGate.installing

turnVars == <<phase, outcome, cli, survivor>>
registry == <<active, byConversation, overtaken>>
media == <<job, cancelled>>
command == <<intrAt, intrTurn>>
interruption == <<killer, command>>
gate == <<install, counted, installing>>
vars == <<turnVars, registry, media, interruption, gate>>

Phase == {"new", "failed", "begun", "media", "assembly", "cancelling", "launch", "stdin",
          "reading", "reaping", "reaped", "unlisted", "unmapped", "over"}

TypeOK ==
  /\ phase \in [Turn -> Phase]
  /\ outcome \in [Turn -> {"none", "done", "error", "refused"}]
  /\ cli \in [Turn -> {"none", "running", "exited", "reaped"}]
  /\ survivor \subseteq Turn
  /\ active \subseteq Turn
  /\ byConversation \in [Conversation -> Turn \cup {NoTurn}]
  /\ overtaken \subseteq Turn
  /\ job \in [Conversation -> Turn \cup {NoTurn}]
  /\ cancelled \subseteq Turn
  /\ killer \subseteq Turn
  /\ intrAt \in [Conversation -> {"idle", "cancel", "flag", "mapping", "child", "signal"}]
  /\ intrTurn \in [Conversation -> Turn \cup {NoTurn}]
  /\ install \in {"idle", "children", "conversations", "holding", "exiting"}
  /\ counted \in BOOLEAN
  /\ installing \in BOOLEAN

Init ==
  /\ phase = [t \in Turn |-> "new"]
  /\ outcome = [t \in Turn |-> "none"]
  /\ cli = [t \in Turn |-> "none"]
  /\ survivor = {}
  /\ active = {}
  /\ byConversation = [c \in Conversation |-> NoTurn]
  /\ overtaken = {}
  /\ job = [c \in Conversation |-> NoTurn]
  /\ cancelled = {}
  /\ killer = {}
  /\ intrAt = [c \in Conversation |-> "idle"]
  /\ intrTurn = [c \in Conversation |-> NoTurn]
  /\ install = "idle"
  /\ counted = FALSE
  /\ installing = FALSE

(* A thread works on the turn and can still be found by an interrupt.         *)
Live(t) == phase[t] \notin {"new", "unmapped", "over"}

-----------------------------------------------------------------------------
(* Helpers.                                                                  *)

(* Whoever ends removes the mapping.                                          *)
Unmapped_Always(t) == [byConversation EXCEPT ![Of[t]] = NoTurn]

(* The mapping without the turn: it is left alone if a newer turn owns it.    *)
Unmapped(t) ==
  [byConversation EXCEPT ![Of[t]] = IF @ = t THEN NoTurn ELSE @]

(* finish_job clears the conversation's entry even if the job was cancelled.  *)
JobFinished_Always(t) == [job EXCEPT ![Of[t]] = NoTurn]

(* finish_job, by VideoJob::finish or its Drop: nothing if it was cancelled.  *)
JobFinished(t) == [job EXCEPT ![Of[t]] = IF @ = t THEN NoTurn ELSE @]

Goto(t, p) == phase' = [phase EXCEPT ![t] = p]

(* The installer counts the turns while it holds the gate's lock.             *)
GateLocked == install \in {"children", "conversations"}

-----------------------------------------------------------------------------
(* send_turn.                                                                *)

(* Under the gate's lock: Started is emitted, the turn is registered and its  *)
(* thread spawned, or the spawn fails.  Nothing asks whether a turn of the    *)
(* conversation is at work: the mapping is overwritten.                       *)
SendTurn(t) ==
  /\ phase[t] = "new"
  /\ ~GateLocked
  /\ ~installing
  /\ byConversation' = [byConversation EXCEPT ![Of[t]] = t]
  /\ overtaken' = overtaken \cup ({byConversation[Of[t]]} \ {NoTurn})
  /\ \E begun \in BOOLEAN : Goto(t, IF begun THEN "begun" ELSE "failed")
  /\ UNCHANGED <<outcome, cli, survivor, active, media, interruption, gate>>

(* The gate is closed: send_turn returns an error, nothing is registered.     *)
SendRefused(t) ==
  /\ phase[t] = "new"
  /\ ~GateLocked
  /\ installing
  /\ Goto(t, "over")
  /\ outcome' = [outcome EXCEPT ![t] = "refused"]
  /\ UNCHANGED <<cli, survivor, registry, media, interruption, gate>>

(* The thread could not be spawned: the mapping is taken back.                *)
TakeBack(t) ==
  /\ phase[t] = "failed"
  /\ byConversation' = Unmapped(t)
  /\ Goto(t, "over")
  /\ outcome' = [outcome EXCEPT ![t] = "refused"]
  /\ UNCHANGED <<cli, survivor, active, overtaken, media, interruption, gate>>

-----------------------------------------------------------------------------
(* maybe_run_video_pipeline.                                                 *)

(* No video, no consent, a cache hit, or no job to be had.                    *)
SkipMedia(t) ==
  /\ phase[t] = "begun"
  /\ Goto(t, "launch")
  /\ UNCHANGED <<outcome, cli, survivor, registry, media, interruption, gate>>

StartJob(t) ==
  /\ phase[t] = "begun"
  /\ job[Of[t]] = NoTurn
  /\ job' = [job EXCEPT ![Of[t]] = t]
  /\ Goto(t, "media")
  /\ UNCHANGED <<outcome, cli, survivor, registry, cancelled, interruption, gate>>

(* Extraction fails, perhaps because its ffmpeg was interrupted: the          *)
(* attachment is marked unavailable and the turn goes on.                     *)
MediaFails(t) ==
  /\ phase[t] = "media"
  /\ job' = JobFinished(t)
  /\ Goto(t, "launch")
  /\ UNCHANGED <<outcome, cli, survivor, registry, cancelled, interruption, gate>>

(* The last is_cancelled check of the pipeline.                               *)
CheckCancelled(t) ==
  /\ phase[t] = "media"
  /\ IF t \in cancelled
     THEN job' = JobFinished(t) /\ Goto(t, "cancelling")
     ELSE Goto(t, "assembly") /\ UNCHANGED job
  /\ UNCHANGED <<outcome, cli, survivor, registry, cancelled, interruption, gate>>

(* The results are cached and attached, and the job is over.                  *)
FinishMedia(t) ==
  /\ phase[t] = "assembly"
  /\ job' = JobFinished(t)
  /\ Goto(t, "launch")
  /\ UNCHANGED <<outcome, cli, survivor, registry, cancelled, interruption, gate>>

(* run_turn_background ends a turn that was cancelled during its media.       *)
EndCancelled(t) ==
  /\ phase[t] = "cancelling"
  /\ byConversation' = Unmapped(t)
  /\ Goto(t, "unmapped")
  /\ UNCHANGED <<outcome, cli, survivor, active, overtaken, media, interruption, gate>>

-----------------------------------------------------------------------------
(* The CLI and its reader.                                                   *)

(* The CLI cannot be spawned: an Error event, and the thread returns.         *)
LaunchFails(t) ==
  /\ phase[t] = "launch"
  /\ Goto(t, "over")
  /\ outcome' = [outcome EXCEPT ![t] = "error"]
  /\ UNCHANGED <<cli, survivor, registry, media, interruption, gate>>

Launch(t) ==
  /\ phase[t] = "launch"
  /\ cli' = [cli EXCEPT ![t] = "running"]
  /\ Goto(t, "stdin")
  /\ UNCHANGED <<outcome, survivor, registry, media, interruption, gate>>

(* The prompt cannot be written, or there is no stdout: an Error event, and   *)
(* the thread returns; dropping a Child does not end the process.             *)
StdinFails(t) ==
  /\ phase[t] = "stdin"
  /\ Goto(t, "over")
  /\ outcome' = [outcome EXCEPT ![t] = "error"]
  /\ UNCHANGED <<cli, survivor, registry, media, interruption, gate>>

(* The child handle becomes visible and the reader thread starts.             *)
Register(t) ==
  /\ phase[t] = "stdin"
  /\ active' = active \cup {t}
  /\ Goto(t, "reading")
  /\ UNCHANGED <<outcome, cli, survivor, byConversation, overtaken, media, interruption, gate>>

(* The CLI ends by itself or on SIGINT.                                       *)
CliExits(t) ==
  /\ cli[t] = "running"
  /\ cli' = [cli EXCEPT ![t] = "exited"]
  /\ survivor' \in {survivor} \cup (IF "survivor" \in Rogue THEN {survivor \cup {t}} ELSE {})
  /\ UNCHANGED <<phase, outcome, registry, media, interruption, gate>>

SurvivorExits(t) ==
  /\ t \in survivor
  /\ survivor' = survivor \ {t}
  /\ UNCHANGED <<phase, outcome, cli, registry, media, interruption, gate>>

(* stdout reaches its end: the reader takes the child's lock and waits.       *)
Eof(t) ==
  /\ phase[t] = "reading"
  /\ cli[t] # "running" /\ t \notin survivor
  /\ Goto(t, "reaping")
  /\ UNCHANGED <<outcome, cli, survivor, registry, media, interruption, gate>>

(* The CLI writes a line that cannot be decoded: the reader stops as at the   *)
(* end and waits for a process that may run on.                               *)
Garble(t) ==
  /\ "garbled" \in Rogue
  /\ phase[t] = "reading"
  /\ Goto(t, "reaping")
  /\ UNCHANGED <<outcome, cli, survivor, registry, media, interruption, gate>>

ChildLocked(t) == phase[t] = "reaping"

Reap(t) ==
  /\ phase[t] = "reaping"
  /\ cli[t] = "exited"
  /\ cli' = [cli EXCEPT ![t] = "reaped"]
  /\ Goto(t, "reaped")
  /\ UNCHANGED <<outcome, survivor, registry, media, interruption, gate>>

(* The stderr thread has joined, and the child handle is dropped.             *)
Unlist(t) ==
  /\ phase[t] = "reaped"
  /\ t \notin survivor
  /\ active' = active \ {t}
  /\ Goto(t, "unlisted")
  /\ UNCHANGED <<outcome, cli, survivor, byConversation, overtaken, media, interruption, gate>>

Unmap(t) ==
  /\ phase[t] = "unlisted"
  /\ byConversation' = Unmapped(t)
  /\ Goto(t, "unmapped")
  /\ UNCHANGED <<outcome, cli, survivor, active, overtaken, media, interruption, gate>>

(* The terminal event: Done(130) without a CLI, else Error or Done.           *)
Emit(t) ==
  /\ phase[t] = "unmapped"
  /\ Goto(t, "over")
  /\ \E kind \in IF cli[t] = "none" THEN {"done"} ELSE {"done", "error"} :
       outcome' = [outcome EXCEPT ![t] = kind]
  /\ UNCHANGED <<cli, survivor, registry, media, interruption, gate>>

-----------------------------------------------------------------------------
(* interrupt(conversation_id).                                               *)

(* The command goes on with a turn, or returns; what it answers is left out.  *)
Command(c, at, turn) ==
  /\ intrAt' = [intrAt EXCEPT ![c] = at]
  /\ intrTurn' = [intrTurn EXCEPT ![c] = turn]

Return(c) == Command(c, "idle", NoTurn)

(* VideoJobRegistry::interrupt looks the job up under the registry's lock.    *)
BeginInterrupt(c) ==
  /\ intrAt[c] = "idle"
  /\ Command(c, IF job[c] = NoTurn THEN "mapping" ELSE "cancel", job[c])
  /\ UNCHANGED <<turnVars, registry, media, killer, gate>>

(* cancel_job: the job leaves the registry, unless it is no longer there.     *)
CancelJob(c) ==
  /\ intrAt[c] = "cancel"
  /\ IF job[c] = intrTurn[c]
     THEN job' = [job EXCEPT ![c] = NoTurn] /\ Command(c, "flag", intrTurn[c])
     ELSE UNCHANGED job /\ Command(c, "mapping", NoTurn)
  /\ UNCHANGED <<turnVars, registry, cancelled, killer, gate>>

(* The flag is raised after the lock is released, the media processes are     *)
(* interrupted and the job's directory is removed; if that fails, interrupt   *)
(* returns the error.                                                        *)
RaiseFlag(c) ==
  /\ intrAt[c] = "flag"
  /\ cancelled' = cancelled \cup {intrTurn[c]}
  /\ Command(c, "mapping", NoTurn) \/ Return(c)
  /\ UNCHANGED <<turnVars, registry, job, killer, gate>>

LookupTurn(c) ==
  /\ intrAt[c] = "mapping"
  /\ IF byConversation[c] = NoTurn THEN Return(c) ELSE Command(c, "child", byConversation[c])
  /\ UNCHANGED <<turnVars, registry, media, killer, gate>>

LookupChild(c) ==
  /\ intrAt[c] = "child"
  /\ IF intrTurn[c] \in active THEN Command(c, "signal", intrTurn[c]) ELSE Return(c)
  /\ UNCHANGED <<turnVars, registry, media, killer, gate>>

(* SIGINT goes to the CLI's process group, which may or may not end by it;    *)
(* a thread is started that looks again after a grace period.  If the signal  *)
(* cannot be sent, interrupt returns the error and nobody looks again.        *)
Signal(c) ==
  /\ intrAt[c] = "signal"
  /\ ~ChildLocked(intrTurn[c])
  /\ killer' \in {killer, killer \cup {intrTurn[c]}}
  /\ Return(c)
  /\ UNCHANGED <<turnVars, registry, media, gate>>

(* The escalation thread only looks.                                          *)
Escalate_Never(t) ==
  /\ t \in killer
  /\ ~ChildLocked(t)
  /\ killer' = killer \ {t}
  /\ UNCHANGED <<turnVars, registry, media, command, gate>>

(* A CLI that still runs is killed together with its group.                   *)
Escalate(t) ==
  /\ t \in killer
  /\ ~ChildLocked(t)
  /\ killer' = killer \ {t}
  /\ cli' = [cli EXCEPT ![t] = IF @ = "running" THEN "exited" ELSE @]
  /\ survivor' = IF cli[t] = "running" THEN survivor \ {t} ELSE survivor
  /\ UNCHANGED <<phase, outcome, registry, media, command, gate>>

-----------------------------------------------------------------------------
(* install_update and the gate.                                              *)

BeginInstall ==
  /\ install = "idle"
  /\ ~installing
  /\ install' = "children"
  /\ UNCHANGED <<turnVars, registry, media, interruption, counted, installing>>

(* active_count reads the two registries one after the other.                 *)
CountChildren ==
  /\ install = "children"
  /\ counted' = (active # {})
  /\ install' = "conversations"
  /\ UNCHANGED <<turnVars, registry, media, interruption, installing>>

(* The children alone decide.                                                 *)
CountConversations_ChildrenOnly ==
  /\ install = "conversations"
  /\ IF counted
     THEN install' = "idle" /\ UNCHANGED installing
     ELSE install' = "holding" /\ installing' = TRUE
  /\ counted' = FALSE
  /\ UNCHANGED <<turnVars, registry, media, interruption>>

(* Busy, or the gate closes and the caller holds the lease.                   *)
CountConversations ==
  /\ install = "conversations"
  /\ IF counted \/ \E c \in Conversation : byConversation[c] # NoTurn
     THEN install' = "idle" /\ UNCHANGED installing
     ELSE install' = "holding" /\ installing' = TRUE
  /\ counted' = FALSE
  /\ UNCHANGED <<turnVars, registry, media, interruption>>

(* An error return drops the lease.                                           *)
InstallFails ==
  /\ install = "holding"
  /\ install' = "idle"
  /\ installing' = FALSE
  /\ UNCHANGED <<turnVars, registry, media, interruption, counted>>

(* keep_until_process_exit: the lease is forgotten, the restart is queued.    *)
InstallSucceeds ==
  /\ install = "holding"
  /\ install' = "exiting"
  /\ UNCHANGED <<turnVars, registry, media, interruption, counted, installing>>

-----------------------------------------------------------------------------
(* What a turn's own threads do once it was sent.                             *)
ThreadStep(t) ==
  \/ TakeBack(t) \/ SkipMedia(t) \/ StartJob(t) \/ MediaFails(t) \/ CheckCancelled(t)
  \/ FinishMedia(t) \/ EndCancelled(t) \/ LaunchFails(t) \/ Launch(t) \/ StdinFails(t)
  \/ Register(t) \/ Eof(t) \/ Reap(t) \/ Unlist(t) \/ Unmap(t) \/ Emit(t)

InterruptStep(c) ==
  CancelJob(c) \/ RaiseFlag(c) \/ LookupTurn(c) \/ LookupChild(c) \/ Signal(c)

InstallStep ==
  \/ BeginInstall \/ CountChildren \/ CountConversations
  \/ InstallFails \/ InstallSucceeds

Next ==
  \/ \E t \in Turn : SendTurn(t) \/ SendRefused(t) \/ ThreadStep(t) \/ CliExits(t)
                     \/ Garble(t) \/ SurvivorExits(t) \/ Escalate(t)
  \/ \E c \in Conversation : BeginInterrupt(c) \/ InterruptStep(c)
  \/ InstallStep

(* Threads run; nothing makes a user, an installer or a CLI act.              *)
Fairness ==
  /\ \A t \in Turn : WF_vars(ThreadStep(t)) /\ WF_vars(Escalate(t))
  /\ \A c \in Conversation : WF_vars(InterruptStep(c))

Spec == Init /\ [][Next]_vars
FairSpec == Spec /\ Fairness

-----------------------------------------------------------------------------
(* Properties.                                                               *)

(* UpdateInstallGate: once the gate is closed no conversation's newest turn    *)
(* has work in progress that the restart would cut off, and no turn begins.   *)
(* A turn whose mapping was taken over counts only while it has a child: in   *)
(* its media or its launch it is overlooked once the newer turn has ended.    *)
InstallExcludesTurns == installing => \A t \in Turn : Live(t) => t \in overtaken

(* "that new mapping must survive": whatever older turns of its conversation   *)
(* still run, wait for their CLI or end, the newest turn is the one the        *)
(* mapping names for as long as it is at work, so that Stop finds it.         *)
LiveTurnIsMapped ==
  \A t \in Turn : Live(t) /\ t \notin overtaken => byConversation[Of[t]] = t

(* A reader thread's CLI can be signalled from the moment its output is read  *)
(* until it has been reaped, and no handle outlives its turn.                 *)
HandleWhileRead ==
  \A t \in Turn : t \in active <=> phase[t] \in {"reading", "reaping", "reaped"}

(* "could kill the wrong chat in multichat": an interrupt only ever holds a   *)
(* turn or media job of the conversation it was asked for.                    *)
InterruptStaysInConversation ==
  \A c \in Conversation : intrTurn[c] # NoTurn => Of[intrTurn[c]] = c

(* VideoJobRegistry: the registered job belongs to a turn that is preparing   *)
(* media; a turn that has moved on, or a cancelled one, blocks no later job.  *)
JobBelongsToPreparation ==
  \A c \in Conversation : job[c] # NoTurn =>
    Of[job[c]] = c /\ phase[job[c]] \in {"media", "assembly"} /\ job[c] \notin cancelled

(* Only the turn a mapping names removes it, and only when it ends.           *)
MappingRemovedByItsTurn ==
  [][\A c \in Conversation :
       byConversation[c] # NoTurn /\ byConversation'[c] = NoTurn =>
         phase'[byConversation[c]] \in {"unmapped", "over"}]_vars

(* "cannot target a future job": a turn at its media is found by Stop from the *)
(* start of its job to the end, until an interrupt has taken the job and is    *)
(* about to raise its flag; no late finish or cancel of an older turn's job    *)
(* takes it out of the registry.                                              *)
PreparationIsStoppable ==
  \A t \in Turn : phase[t] \in {"media", "assembly"} =>
    \/ job[Of[t]] = t
    \/ t \in cancelled
    \/ intrAt[Of[t]] = "flag" /\ intrTurn[Of[t]] = t

(* What the escalation cannot end: a descendant that keeps the pipes of a CLI *)
(* that has ended, and a reader that stopped at a line it could not decode and *)
(* holds the child's lock while the CLI runs on.                              *)
BeyondSignals(t) == t \in survivor \/ (phase[t] = "reaping" /\ cli[t] = "running")

(* "guarantee that the turn closes so the renderer can receive Done/Error and *)
(* leave busy state": a turn whose CLI was signalled gets its terminal event, *)
(* but for those two cases.                                                   *)
InterruptCloses == \A t \in Turn : t \in killer ~> (outcome[t] # "none" \/ BeyondSignals(t))

-----------------------------------------------------------------------------
(* The invariant behind the safety properties.                                *)

(* What the phase says about the process, the outcome and a pending signal.   *)
PhaseInv ==
  \A t \in Turn :
    /\ phase[t] \in {"new", "failed", "begun", "media", "assembly", "cancelling", "launch"}
         => cli[t] = "none"
    /\ phase[t] \in {"stdin", "reading", "reaping"} => cli[t] \in {"running", "exited"}
    /\ phase[t] \in {"reaped", "unlisted"} => cli[t] = "reaped"
    /\ outcome[t] # "none" <=> phase[t] = "over"

(* A media job that an interrupt has looked up was begun; once it is taken     *)
(* from the registry it does not come back.                                   *)
MediaInv ==
  /\ \A t \in cancelled : phase[t] \notin {"new", "failed", "begun"} /\ job[Of[t]] # t
  /\ \A c \in Conversation :
       /\ intrAt[c] \in {"idle", "mapping"} <=> intrTurn[c] = NoTurn
       /\ intrAt[c] \in {"cancel", "flag"} => phase[intrTurn[c]] \notin {"new", "failed", "begun"}
       /\ intrAt[c] = "flag" => job[c] # intrTurn[c]

(* A conversation is mapped to a turn of its own that was sent, and so was     *)
(* every turn whose mapping was taken over.                                   *)
MappingInv ==
  /\ \A c \in Conversation : byConversation[c] # NoTurn =>
       Of[byConversation[c]] = c /\ phase[byConversation[c]] # "new"
  /\ \A t \in overtaken : phase[t] # "new"

(* The gate is closed exactly while the installer holds its lease.            *)
GateInv == installing <=> install \in {"holding", "exiting"}

(* What holds without the mapping of the newest turn.                          *)
BaseInv ==
  /\ TypeOK
  /\ PhaseInv
  /\ HandleWhileRead
  /\ JobBelongsToPreparation
  /\ PreparationIsStoppable
  /\ InterruptStaysInConversation
  /\ MediaInv
  /\ MappingInv
  /\ GateInv

(* What the installer has not counted as a child it will still count as a      *)
(* mapping, unless a newer turn has taken the mapping over.                   *)
IndInv == BaseInv /\ LiveTurnIsMapped /\ InstallExcludesTurns

-----------------------------------------------------------------------------
(* The service keeps the gate's promise.  A turn that only has its terminal   *)
(* event left to emit is over.                                                *)
Status(t) ==
  CASE phase[t] = "new" -> "new"
    [] Live(t) -> IF t \in overtaken THEN "overtaken" ELSE "live"
    [] OTHER -> "over"

Gate == INSTANCE TurnGate WITH status <- [t \in Turn |-> Status(t)], closed <- installing
GateSpec == Gate!Spec
=============================================================================
