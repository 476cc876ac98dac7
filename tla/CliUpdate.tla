----------------------------- MODULE CliUpdate ------------------------------
(***************************************************************************)
(* One app installation that updates its managed CLI: the process and its    *)
(* crashes, the update thread (CliUpdateService behind the two operation     *)
(* mutexes: startup validation, bootstrap, check, prepare, install) and the  *)
(* runtime thread that leases the current version for a child process.       *)
(*                                                                          *)
(* The renderer issues update commands only after get_update_status has      *)
(* returned, which waits for startup validation; so there is one update      *)
(* thread, whose control point is pc.  One app instance runs at a time.      *)
(***************************************************************************)
EXTENDS CliStore, FiniteSets

CONSTANTS
  NoPid,      \* no process is running
  MaxDamage,  \* bound: how often a payload may be damaged from outside the app
  MaxLeases   \* bound: how many lease files may exist at a time

ASSUME NoPidAssumption == NoPid \notin Pid
ASSUME MaxDamageAssumption == MaxDamage \in Nat

VARIABLES
  proc,               \* the pid of the running app, or NoPid
  service,            \* the CLI service and the runtime authority exist
  status,             \* snapshot.status
  bootstrapRequired,  \* snapshot.bootstrap_required
  candidate,          \* state.candidate, or NoVersion
  prepared,           \* state.prepared, or NoVersion
  held,               \* the versions AUTHORITY holds a lease for
  pc,                 \* control point of the update thread
  caller,             \* which command the update thread runs
  act,                \* PreparedCliActivation of the install in progress
  after,              \* what garbage_collect returns to
  retained,           \* the retained set of the running garbage_collect
  withApp,            \* this install also replaced the app itself
  acquiring,          \* version between acquire_runtime's read and its lease
  vetted,             \* versions that passed a smoke check in this process
  damage              \* outside damage so far

memory == <<proc, service, held>>
snapshot == <<status, bootstrapRequired, candidate, prepared>>
locals == <<caller, act, after, retained, withApp>>   \* of the update thread
vars == <<disk, memory, snapshot, locals, pc, acquiring, vetted, damage>>

Status == {"Idle", "Checking", "NotAvailable", "Available", "Downloading", "Ready",
           "BootstrapChecking", "BootstrapDownloading", "BootstrapError", "Error"}

Activation == [previous : Pointer, activated : Pointer]
NoActivation == [previous |-> NoVersion, activated |-> NoVersion]

ProcessTypeOK ==
  /\ proc \in Pid \cup {NoPid}
  /\ service \in BOOLEAN
  /\ held \subseteq Version
  /\ acquiring \in Pointer
  /\ vetted \subseteq Version
  /\ damage \in 0 .. MaxDamage

SnapshotTypeOK ==
  /\ status \in Status
  /\ bootstrapRequired \in BOOLEAN
  /\ candidate \in Pointer
  /\ prepared \in Pointer

LocalsTypeOK ==
  /\ caller \in {"startup", "bootstrap", "user"}
  /\ act \in Activation
  /\ after \in {"validate", "bootstrap", "commit"}
  /\ retained \subseteq Version
  /\ withApp \in BOOLEAN

ControlTypeOK ==
  pc \in {"down", "startup", "idle", "exit", "validate", "markGood", "clearRejected",
          "failed", "recordRejected", "restore", "check", "prepare", "preparing",
          "activate", "activateLkg", "activateCurrent", "installApp", "commit",
          "rollback", "rollbackLkg", "gcScan", "gcDelete"}

(* Every variable has its type.                                              *)
TypeOK == DiskTypeOK /\ ProcessTypeOK /\ SnapshotTypeOK /\ LocalsTypeOK /\ ControlTypeOK

(* Pointer presence taken for readiness.                                     *)
FreshMemory_TrustsPointer ==
  /\ service' = FALSE
  /\ held' = {}
  /\ status' = "Idle"
  /\ bootstrapRequired' = (current = NoVersion)
  /\ candidate' = NoVersion
  /\ prepared' = NoVersion
  /\ caller' = "startup"
  /\ act' = NoActivation
  /\ after' = "validate"
  /\ retained' = {}
  /\ withApp' = FALSE
  /\ acquiring' = NoVersion
  /\ vetted' = {}

(* The memory of a process that has just started, or that is gone.           *)
FreshMemory ==
  /\ service' = FALSE
  /\ held' = {}
  /\ status' = "Idle"
  /\ bootstrapRequired' = TRUE
  /\ candidate' = NoVersion
  /\ prepared' = NoVersion
  /\ caller' = "startup"
  /\ act' = NoActivation
  /\ after' = "validate"
  /\ retained' = {}
  /\ withApp' = FALSE
  /\ acquiring' = NoVersion
  /\ vetted' = {}

Init ==
  /\ DiskInit
  /\ proc = NoPid
  /\ pc = "down"
  /\ service = FALSE
  /\ held = {}
  /\ status = "Idle"
  /\ bootstrapRequired = TRUE
  /\ candidate = NoVersion
  /\ prepared = NoVersion
  /\ caller = "startup"
  /\ act = NoActivation
  /\ after = "validate"
  /\ retained = {}
  /\ withApp = FALSE
  /\ acquiring = NoVersion
  /\ vetted = {}
  /\ damage = 0

-----------------------------------------------------------------------------
(* The process, and what happens to it from outside.                         *)

StartProcess(p) ==
  /\ pc = "down"
  /\ proc' = p
  /\ pc' = "startup"
  /\ FreshMemory
  /\ UNCHANGED <<disk, damage>>

(* A crash at any point, or the restart that ends an installed update.       *)
ProcessEnds ==
  /\ pc # "down"
  /\ proc' = NoPid
  /\ pc' = "down"
  /\ FreshMemory
  /\ UNCHANGED <<disk, damage>>

(* dist/cli.mjs of an installed version is lost to something else.           *)
PayloadLost(v) ==
  /\ damage < MaxDamage
  /\ HasEntry(v)
  /\ dir' = [dir EXCEPT ![v] = "noEntry"]
  /\ damage' = damage + 1
  /\ UNCHANGED <<current, lkg, rejected, leases, staging,
                 memory, snapshot, locals, pc, acquiring, vetted>>

-----------------------------------------------------------------------------
(* Startup validation.                                                       *)

(* A command returns: the locals of its stack frames are gone.               *)
Return ==
  /\ pc' = "idle"
  /\ caller' = "user"
  /\ act' = NoActivation
  /\ after' = "validate"
  /\ retained' = {}
  /\ withApp' = FALSE

Fail(bootstrap) ==
  /\ status' = IF bootstrap THEN "BootstrapError" ELSE "Error"
  /\ bootstrapRequired' = (bootstrap \/ bootstrapRequired)
  /\ UNCHANGED <<candidate, prepared>>

(* The gate is opened, and the card left as it was.                           *)
MarkRuntimeReady_KeepsStatus ==
  /\ bootstrapRequired' = FALSE
  /\ UNCHANGED <<status, candidate, prepared>>

MarkRuntimeReady ==
  /\ status' = "Idle"
  /\ bootstrapRequired' = FALSE
  /\ UNCHANGED <<candidate, prepared>>

(* Without a managed Node runtime there is no CLI service until bootstrap.   *)
InitializeExistingCli ==
  /\ pc = "startup"
  /\ \/ /\ Return
        /\ UNCHANGED <<service, disk>>
     \/ /\ pc' = "validate"
        /\ service' = TRUE
        /\ UNCHANGED locals
        /\ CleanupAbandonedStaging(proc)
  /\ UNCHANGED <<proc, held, snapshot, acquiring, vetted, damage>>

ValidateMissing ==
  /\ pc = "validate"
  /\ ~HasEntry(current)
  /\ status' = "Idle"
  /\ bootstrapRequired' = TRUE
  /\ Return
  /\ UNCHANGED <<disk, memory, candidate, prepared, acquiring, vetted, damage>>

ValidateSmoke ==
  /\ pc = "validate"
  /\ HasEntry(current)
  /\ \/ pc' = "markGood" /\ vetted' = vetted \cup {current}
     \/ pc' = "failed" /\ UNCHANGED vetted
  /\ UNCHANGED <<disk, memory, snapshot, locals, acquiring, damage>>

MarkCurrentGood ==
  /\ pc = "markGood"
  /\ WriteLkg(current)
  /\ pc' = "clearRejected"
  /\ UNCHANGED <<memory, snapshot, locals, acquiring, vetted, damage>>

ClearRejected ==
  /\ pc = "clearRejected"
  /\ WriteRejected(NoVersion)
  /\ pc' = "gcScan"
  /\ after' = "validate"
  /\ UNCHANGED <<memory, snapshot, caller, act, retained, withApp, acquiring, vetted, damage>>

(* The current version failed: no rollback is possible, or the smoke check   *)
(* of last-known-good fails too.                                             *)
ValidateGivesUp ==
  /\ pc = "failed"
  /\ Fail(TRUE)
  /\ Return
  /\ UNCHANGED <<disk, memory, acquiring, vetted, damage>>

LkgSmokePasses ==
  /\ pc = "failed"
  /\ rejected # current
  /\ lkg # current
  /\ HasEntry(lkg)
  /\ vetted' = vetted \cup {lkg}
  /\ pc' = "recordRejected"
  /\ UNCHANGED <<disk, memory, snapshot, locals, acquiring, damage>>

RecordRejected ==
  /\ pc = "recordRejected"
  /\ WriteRejected(current)
  /\ pc' = "restore"
  /\ UNCHANGED <<memory, snapshot, locals, acquiring, vetted, damage>>

RestoreLastKnownGood ==
  /\ pc = "restore"
  /\ \/ HasEntry(lkg) /\ WriteCurrent(lkg) /\ MarkRuntimeReady
     \/ ~HasEntry(lkg) /\ Fail(TRUE) /\ UNCHANGED disk
  /\ Return
  /\ UNCHANGED <<memory, acquiring, vetted, damage>>

-----------------------------------------------------------------------------
(* garbage_collect.                                                          *)

GcScan ==
  /\ pc = "gcScan"
  /\ retained' = Retained(proc)
  /\ DropDeadLeases(proc)
  /\ pc' = "gcDelete"
  /\ UNCHANGED <<memory, snapshot, caller, act, after, withApp, acquiring, vetted, damage>>

GcUnlink(v) ==
  /\ pc = "gcDelete"
  /\ v \notin retained
  /\ dir[v] # "absent"
  /\ \E rest \in Payload : Unlink(v, rest)
  /\ UNCHANGED <<memory, snapshot, locals, pc, acquiring, vetted, damage>>

(* A successful validation that leaves the card on "ready".                  *)
GcDone_KeepsStatus ==
  /\ pc = "gcDelete"
  /\ \A v \in Version \ retained : dir[v] = "absent"
  /\ bootstrapRequired' = FALSE
  /\ \/ /\ after = "validate"
        /\ UNCHANGED <<status, candidate, prepared>>
     \/ /\ after \in {"bootstrap", "commit"}
        /\ status' = "Idle"
        /\ candidate' = NoVersion
        /\ prepared' = NoVersion
  /\ IF after = "commit" THEN pc' = "exit" /\ UNCHANGED locals ELSE Return
  /\ UNCHANGED <<disk, memory, acquiring, vetted, damage>>

GcDone ==
  /\ pc = "gcDelete"
  /\ \A v \in Version \ retained : dir[v] = "absent"
  /\ status' = "Idle"
  /\ bootstrapRequired' = FALSE
  /\ \/ /\ after = "validate"
        /\ UNCHANGED <<candidate, prepared>>
     \/ /\ after \in {"bootstrap", "commit"}
        /\ candidate' = NoVersion
        /\ prepared' = NoVersion
  /\ IF after = "commit" THEN pc' = "exit" /\ UNCHANGED locals ELSE Return
  /\ UNCHANGED <<disk, memory, acquiring, vetted, damage>>

-----------------------------------------------------------------------------
(* Check and prepare.                                                        *)

CheckForUpdates ==
  /\ pc = "idle"
  /\ service
  /\ status # "Ready"
  /\ pc' = "check"
  /\ caller' = "user"
  /\ status' = "Checking"
  /\ candidate' = NoVersion
  /\ UNCHANGED <<disk, memory, bootstrapRequired, prepared, act, after, retained, withApp,
                 acquiring, vetted, damage>>

CheckFails ==
  /\ pc = "check"
  /\ Fail(caller = "bootstrap")
  /\ Return
  /\ UNCHANGED <<disk, memory, acquiring, vetted, damage>>

(* The signed manifest offers v; a rejected digest ends in CheckFails.       *)
CheckNotAvailable(v) ==
  /\ pc = "check"
  /\ v # rejected
  /\ current # NoVersion
  /\ v <= current
  /\ status' = "NotAvailable"
  /\ Return
  /\ UNCHANGED <<disk, memory, bootstrapRequired, candidate, prepared,
                 acquiring, vetted, damage>>

CheckAvailable(v) ==
  /\ pc = "check"
  /\ v # rejected
  /\ v > current
  /\ status' = "Available"
  /\ candidate' = v
  /\ IF caller = "bootstrap" THEN pc' = "prepare" /\ UNCHANGED locals ELSE Return
  /\ UNCHANGED <<disk, memory, bootstrapRequired, prepared, acquiring, vetted, damage>>

DownloadUpdate ==
  /\ pc = "idle"
  /\ service
  /\ status = "Available"
  /\ pc' = "prepare"
  /\ caller' = "user"
  /\ UNCHANGED <<disk, memory, snapshot, act, after, retained, withApp, acquiring, vetted, damage>>

(* create_staging_dir may fail; the ? then skips self.fail, which only        *)
(* bootstrap_if_missing makes up for.                                        *)
PrepareBegins ==
  /\ pc = "prepare"
  /\ candidate # NoVersion
  /\ \/ /\ pc' = "preparing"
        /\ status' = IF caller = "bootstrap" THEN "BootstrapDownloading" ELSE "Downloading"
        /\ CreateStaging(proc)
        /\ UNCHANGED locals
        /\ UNCHANGED <<bootstrapRequired, candidate, prepared>>
     \/ /\ Return
        /\ UNCHANGED disk
        /\ IF caller = "bootstrap"
             THEN Fail(TRUE)
             ELSE status' = "Downloading" /\ UNCHANGED <<bootstrapRequired, candidate, prepared>>
  /\ UNCHANGED <<memory, acquiring, vetted, damage>>

(* Either versions/<candidate> passes validate_payload and a smoke check, or *)
(* there is none and the archive is downloaded, checked and promoted.        *)
PrepareSucceeds ==
  /\ pc = "preparing"
  /\ \/ HasEntry(candidate) /\ RemoveStaging(proc)
     \/ PromoteStaged(proc, candidate)
  /\ vetted' = vetted \cup {candidate}
  /\ status' = "Ready"
  /\ prepared' = candidate
  /\ IF caller = "bootstrap" THEN pc' = "activate" /\ UNCHANGED locals ELSE Return
  /\ UNCHANGED <<memory, bootstrapRequired, candidate, acquiring, damage>>

PrepareFails ==
  /\ pc = "preparing"
  /\ RemoveStaging(proc)
  /\ Fail(caller = "bootstrap")
  /\ Return
  /\ UNCHANGED <<memory, acquiring, vetted, damage>>

-----------------------------------------------------------------------------
(* Bootstrap, activation, and the install that ends in a restart.            *)

(* bootstrap_cli: ensure_cli_service, then bootstrap_if_required.            *)
BootstrapCli ==
  /\ pc = "idle"
  /\ bootstrapRequired
  /\ service' = TRUE
  /\ IF service THEN UNCHANGED disk ELSE CleanupAbandonedStaging(proc)
  /\ caller' = "bootstrap"
  /\ \/ /\ current # NoVersion
        /\ pc' = "validate"
        /\ UNCHANGED snapshot
     \/ /\ current = NoVersion
        /\ pc' = "check"
        /\ status' = "BootstrapChecking"
        /\ candidate' = NoVersion
        /\ UNCHANGED <<bootstrapRequired, prepared>>
  /\ UNCHANGED <<proc, held, act, after, retained, withApp, acquiring, vetted, damage>>

(* activate_prepared_inner (pc "activate") or activate_prepared_for_restart. *)
BeginActivation ==
  /\ \/ pc = "activate" /\ UNCHANGED caller
     \/ /\ pc = "idle" /\ service /\ status = "Ready" /\ current # NoVersion
        /\ caller' = "user"
  /\ HasEntry(prepared)
  /\ act' = [previous |-> current, activated |-> prepared]
  /\ withApp' = FALSE
  /\ pc' = "activateLkg"
  /\ UNCHANGED <<disk, memory, snapshot, after, retained, acquiring, vetted, damage>>

(* A payload that vanished: bootstrap reports the error, nothing changes.     *)
ActivationRefused ==
  /\ pc = "activate"
  /\ ~HasEntry(prepared)
  /\ Return
  /\ UNCHANGED <<disk, memory, snapshot, acquiring, vetted, damage>>

(* An activation that forgets to keep the previous version.                  *)
ActivateLkg_Skipped ==
  /\ pc = "activateLkg"
  /\ pc' = "activateCurrent"
  /\ UNCHANGED <<disk, memory, snapshot, locals, acquiring, vetted, damage>>

ActivateLkg ==
  /\ pc = "activateLkg"
  /\ IF current \in {NoVersion, act.activated} THEN UNCHANGED disk ELSE WriteLkg(current)
  /\ pc' = "activateCurrent"
  /\ UNCHANGED <<memory, snapshot, locals, acquiring, vetted, damage>>

ActivateCurrent ==
  /\ pc = "activateCurrent"
  /\ WriteCurrent(act.activated)
  /\ \/ caller = "bootstrap" /\ pc' = "gcScan" /\ after' = "bootstrap"
     \/ caller = "user" /\ pc' = "installApp" /\ UNCHANGED after
  /\ UNCHANGED <<memory, snapshot, caller, act, retained, withApp, acquiring, vetted, damage>>

(* A staged app update, if there is one, is installed between the two.       *)
InstallApp ==
  /\ pc = "installApp"
  /\ \/ pc' = "commit" /\ withApp' \in BOOLEAN
     \/ pc' = "rollback" /\ UNCHANGED withApp
  /\ UNCHANGED <<disk, memory, snapshot, caller, act, after, retained, acquiring, vetted, damage>>

(* A commit that fails without the app is tried again.                        *)
CommitFails_Retries == pc' = (IF withApp THEN "exit" ELSE "commit") /\ UNCHANGED locals

(* A commit that fails after the app was replaced is logged, and the app       *)
(* restarts; otherwise the install is rolled back.                            *)
CommitFails == pc' = (IF withApp THEN "exit" ELSE "rollback") /\ UNCHANGED locals

(* The pointer must still name what was activated.                            *)
CommitActivation ==
  /\ pc = "commit"
  /\ \/ /\ current = act.activated
        /\ pc' = "gcScan"
        /\ after' = "commit"
        /\ UNCHANGED <<caller, act, retained, withApp>>
     \/ current # act.activated /\ CommitFails
  /\ UNCHANGED <<disk, memory, snapshot, acquiring, vetted, damage>>

RollbackCurrent ==
  /\ pc = "rollback"
  /\ \/ /\ current = act.activated /\ HasEntry(act.previous)
        /\ WriteCurrent(act.previous)
        /\ pc' = "rollbackLkg"
        /\ UNCHANGED locals
     \/ /\ ~(current = act.activated /\ HasEntry(act.previous))
        /\ UNCHANGED disk
        /\ Return
  /\ UNCHANGED <<memory, snapshot, acquiring, vetted, damage>>

RollbackLkg ==
  /\ pc = "rollbackLkg"
  /\ WriteLkg(act.previous)
  /\ status' = "Ready"
  /\ Return
  /\ UNCHANGED <<memory, bootstrapRequired, candidate, prepared, acquiring, vetted, damage>>

-----------------------------------------------------------------------------
(* Failures of a single file operation.                                      *)

InGc == pc \in {"gcScan", "gcDelete"}

(* The operation fails before it took effect.                                *)
IoError ==
  /\ \/ /\ \/ pc \in {"markGood", "clearRejected", "recordRejected", "restore"}
           \/ InGc /\ after = "validate"
        /\ Fail(TRUE)
        /\ Return
     \/ /\ \/ pc \in {"activateLkg", "activateCurrent", "rollback", "rollbackLkg"}
           \/ InGc /\ after = "bootstrap"
        /\ UNCHANGED snapshot
        /\ Return
     \/ /\ InGc /\ after = "commit"
        /\ UNCHANGED snapshot
        /\ CommitFails
  /\ UNCHANGED <<disk, memory, acquiring, vetted, damage>>

(* The new pointer is in place, but syncing the directory fails: the caller  *)
(* sees an error.  (After any other write this is IoError at the next one.)   *)
SyncError ==
  /\ \/ pc = "restore" /\ HasEntry(lkg) /\ WriteCurrent(lkg) /\ Fail(TRUE)
     \/ pc = "activateCurrent" /\ WriteCurrent(act.activated) /\ UNCHANGED snapshot
     \/ pc = "rollbackLkg" /\ WriteLkg(act.previous) /\ UNCHANGED snapshot
  /\ Return
  /\ UNCHANGED <<memory, acquiring, vetted, damage>>

-----------------------------------------------------------------------------
(* The runtime authority: acquire reads the current pointer, then records a  *)
(* lease.  A version already leased needs no file access.                    *)

AcquireReadsCurrent ==
  /\ service
  /\ acquiring = NoVersion
  /\ HasEntry(current)
  /\ current \notin held
  /\ Cardinality(leases) < MaxLeases
  /\ acquiring' = current
  /\ UNCHANGED <<disk, memory, snapshot, locals, pc, vetted, damage>>

AcquireWritesLease ==
  /\ acquiring # NoVersion
  /\ acquiring' = NoVersion
  /\ \/ WriteLease(proc, acquiring) /\ held' = held \cup {acquiring}
     \/ UNCHANGED <<disk, held>>
  /\ UNCHANGED <<proc, service, snapshot, locals, pc, vetted, damage>>

-----------------------------------------------------------------------------
(* The steps of an operation that has begun.                                 *)
UpdateStep ==
  \/ InitializeExistingCli \/ ValidateMissing \/ ValidateSmoke
  \/ MarkCurrentGood \/ ClearRejected \/ ValidateGivesUp
  \/ LkgSmokePasses \/ RecordRejected \/ RestoreLastKnownGood
  \/ GcScan \/ (\E v \in Version : GcUnlink(v)) \/ GcDone
  \/ CheckFails \/ (\E v \in Version : CheckNotAvailable(v) \/ CheckAvailable(v))
  \/ PrepareBegins \/ PrepareSucceeds \/ PrepareFails
  \/ (pc = "activate" /\ BeginActivation) \/ ActivationRefused
  \/ ActivateLkg \/ ActivateCurrent \/ InstallApp \/ CommitActivation
  \/ RollbackCurrent \/ RollbackLkg
  \/ IoError \/ SyncError

Command ==
  CheckForUpdates \/ DownloadUpdate \/ BootstrapCli \/ (pc = "idle" /\ BeginActivation)

RuntimeStep == AcquireReadsCurrent \/ AcquireWritesLease

Next ==
  \/ \E p \in Pid : StartProcess(p)
  \/ ProcessEnds
  \/ \E v \in Version : PayloadLost(v)
  \/ Command
  \/ UpdateStep
  \/ RuntimeStep

Spec == Init /\ [][Next]_vars /\ WF_vars(UpdateStep)

-----------------------------------------------------------------------------
(* Properties.                                                               *)

(* current.json always names a version whose dist/cli.mjs is installed, after *)
(* a crash or an I/O error at any step of validate, bootstrap or install.     *)
CurrentHasEntry == current # NoVersion => HasEntry(current)

LkgHasEntry == lkg # NoVersion => HasEntry(lkg)

(* So does last-known-good.json: what is started next, and what a rollback    *)
(* falls back to, always has its payload.                                    *)
PointersInstalled == CurrentHasEntry /\ LkgHasEntry

(* "True until the selected app-owned CLI has passed a real smoke": once the  *)
(* gate is open, what current.json names passed a smoke check in this process. *)
GateMeansVetted == ~bootstrapRequired => current \in vetted

Installing ==
  \/ pc \in {"activateLkg", "activateCurrent", "installApp", "commit", "rollback", "rollbackLkg"}
  \/ InGc /\ after = "commit"

(* From activation to the end of commit or rollback the version that was      *)
(* running is installed and is one of the two pointers: a crash anywhere in   *)
(* install_update leaves it reachable.                                        *)
InstallRevertible ==
  Installing /\ act.previous # NoVersion
    => HasEntry(act.previous) /\ act.previous \in {current, lkg}

(* Whenever the card offers "restart to update", the prepared payload is      *)
(* still installed: no collection since prepare has removed it.               *)
ReadyIsInstallable == pc = "idle" /\ status = "Ready" => HasEntry(prepared)

(* A collection that starts retains every version this process has leased.    *)
LeasesSurviveScan == [][pc = "gcScan" /\ pc' = "gcDelete" => held \subseteq retained']_vars

(* Whenever the card offers an update, to download or to restart into, it is  *)
(* not the version that a validation has just refused and rolled back: not     *)
(* even if that version stayed current, ready and prepared after an install    *)
(* that neither committed nor rolled back.                                    *)
RejectedNotOffered ==
  pc = "idle" /\ rejected # NoVersion =>
    /\ status = "Available" => candidate # rejected
    /\ status = "Ready" => prepared # rejected

(* Every operation ends: it returns to idle, or the process restarts or dies. *)
OperationsEnd == pc \notin {"down", "idle", "exit"} ~> pc \in {"down", "idle", "exit"}

(* Through every crash the store behaves like a selection with a fallback.    *)
Selection == INSTANCE CliSelection WITH
  installed <- {v \in Version : HasEntry(v)}, selected <- current, fallback <- lkg

RefinesSelection == Selection!Spec

-----------------------------------------------------------------------------
(* The inductive strengthening of the safety invariants: what holds at each   *)
(* control point of an operation for the invariants to survive its next step, *)
(* whether that is the operation's own or a crash.                            *)
Activating == pc \in {"activateLkg", "activateCurrent"}
Activated == pc \in {"installApp", "commit", "rollback"} \/ (InGc /\ after = "commit")

(* A process is running, or nothing of one is left.                          *)
ProcessInv ==
  /\ pc # "down" => proc \in Pid
  /\ pc = "down" => ~service /\ acquiring = NoVersion

(* Only vetted payloads are prepared.                                        *)
PreparedInv ==
  /\ prepared # NoVersion => prepared \in vetted
  /\ pc = "preparing" => candidate # NoVersion

(* What validation found holds until it is acted on.                         *)
ValidationInv ==
  /\ pc \in {"markGood", "clearRejected"} \/ InGc => current \in vetted
  /\ pc \in {"recordRejected", "restore"} => lkg \in vetted

(* Only vetted versions are activated; until the install is over the way back *)
(* is open, and leads to a vetted version if the gate is open.               *)
ActivationInv ==
  /\ Activating => HasEntry(act.activated) /\ current = act.previous
  /\ Activating \/ Activated => act.activated \in vetted
  /\ Activated \/ (InGc /\ after = "bootstrap") => current = act.activated
  /\ pc = "activateCurrent" \/ Activated => act.previous \in {NoVersion, act.activated, lkg}
  /\ (Activating \/ Activated) /\ ~bootstrapRequired => act.previous \in vetted
  /\ pc = "rollbackLkg" => current = act.previous /\ HasEntry(current)

(* A collection spares both pointers.                                        *)
GcInv == pc = "gcDelete" => {current, lkg} \cap Version \subseteq retained

(* What the card offers to install stays installed until it is offered no     *)
(* more; only the collection that ends a validation may remove it.            *)
ReadyInv ==
  /\ status = "Ready" /\ ~(InGc /\ after = "validate") => HasEntry(prepared)
  /\ Activating \/ Activated \/ (InGc /\ after = "bootstrap") => prepared = act.activated
  /\ pc = "rollbackLkg" => HasEntry(prepared)

(* From the check that finds it to its activation what is offered is not the   *)
(* rejected version; a validation withdraws the offer when it rejects it.      *)
OfferInv ==
  /\ rejected # NoVersion /\ pc # "restore" =>
       /\ status = "Available" \/ pc \in {"prepare", "preparing"} => candidate # rejected
       /\ status = "Ready" => prepared # rejected
  /\ status = "Available" => candidate # NoVersion
  /\ status = "Ready" => prepared # NoVersion
  /\ Activating \/ Activated \/ pc \in {"activate", "rollbackLkg"} => status = "Ready"

(* Every lease the process holds has its file.                               *)
LeaseInv == \A v \in held : <<proc, v>> \in leases

(* The conjunction is inductive as long as nothing damages a payload.        *)
IndInv ==
  /\ TypeOK
  /\ CurrentHasEntry /\ LkgHasEntry /\ GateMeansVetted
  /\ ProcessInv /\ PreparedInv /\ ValidationInv /\ ActivationInv /\ GcInv
  /\ ReadyInv /\ OfferInv /\ LeaseInv
=============================================================================
