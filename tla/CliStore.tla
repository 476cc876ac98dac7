------------------------------ MODULE CliStore ------------------------------
(***************************************************************************)
(* The on-disk store of the managed Verboo CLI (cli_update/store.rs): the   *)
(* three pointer files, the installed version directories, the lease files  *)
(* and the staging directories.  Each operator below is one atomic change   *)
(* of the file system; CliUpdate says in which order the threads of the app *)
(* make them, and a crash may fall between any two.                         *)
(*                                                                          *)
(* A pointer (version, target, digest, timestamp) is represented by its     *)
(* version: a signed manifest binds each version to one digest.             *)
(***************************************************************************)
EXTENDS Integers

CONSTANTS
  Version,    \* CLI versions that are ever released, ordered as numbers
  Pid         \* operating-system process ids

NoVersion == 0

ASSUME VersionAssumption == Version \subseteq Nat \ {0}

VARIABLES
  current,    \* current.json, or NoVersion
  lkg,        \* last-known-good.json, or NoVersion
  rejected,   \* rejected.json, or NoVersion
  dir,        \* what versions/<v> holds
  leases,     \* lease files, as <<pid, version>>
  staging     \* the pids in the names of the directories under staging/

disk == <<current, lkg, rejected, dir, leases, staging>>

(* What versions/<v> holds: nothing; a directory without dist/cli.mjs; one  *)
(* that has dist/cli.mjs but lacks other files; or the whole payload.  The   *)
(* two in between are what an interrupted remove_dir_all leaves.             *)
Payload == {"absent", "noEntry", "entryOnly", "complete"}

Pointer == Version \cup {NoVersion}

DiskTypeOK ==
  /\ current \in Pointer
  /\ lkg \in Pointer
  /\ rejected \in Pointer
  /\ dir \in [Version -> Payload]
  /\ leases \subseteq Pid \X Version
  /\ staging \subseteq Pid

(* An app-data directory that was just created: no version, no pointer.     *)
DiskInit ==
  /\ current = NoVersion
  /\ lkg = NoVersion
  /\ rejected = NoVersion
  /\ dir = [v \in Version |-> "absent"]
  /\ leases = {}
  /\ staging = {}

-----------------------------------------------------------------------------
(* dist/cli.mjs of v is a file: the test activate, restore_last_known_good,  *)
(* rollback_activation, acquire_runtime and validate_startup make.           *)
HasEntry(v) == v \in Version /\ dir[v] \in {"entryOnly", "complete"}

(* What is left of a directory after remove_dir_all deleted some more of it. *)
Remains(p) ==
  CASE p = "complete"  -> {"entryOnly", "noEntry", "absent"}
    [] p = "entryOnly" -> {"noEntry", "absent"}
    [] OTHER           -> {"absent"}

WriteCurrent(v) == current' = v /\ UNCHANGED <<lkg, rejected, dir, leases, staging>>

WriteLkg(v) == lkg' = v /\ UNCHANGED <<current, rejected, dir, leases, staging>>

WriteRejected(v) == rejected' = v /\ UNCHANGED <<current, lkg, dir, leases, staging>>

(* The directory of the preparation is removed.  That may fail, which is      *)
(* ignored, and a dead process may have left another one with the same pid.   *)
DropStaging(p) == staging' \in {staging, staging \ {p}}

(* promote_staged: the verified payload is renamed into versions/<v>, and    *)
(* the caller removes what is left of its staging directory.                 *)
PromoteStaged(p, v) ==
  /\ dir[v] = "absent"
  /\ dir' = [dir EXCEPT ![v] = "complete"]
  /\ DropStaging(p)
  /\ UNCHANGED <<current, lkg, rejected, leases>>

Unlink(v, rest) ==
  /\ rest \in Remains(dir[v])
  /\ dir' = [dir EXCEPT ![v] = rest]
  /\ UNCHANGED <<current, lkg, rejected, leases, staging>>

WriteLease(p, v) ==
  /\ leases' = leases \cup {<<p, v>>}
  /\ UNCHANGED <<current, lkg, rejected, dir, staging>>

(* What would go wrong: collections that forget one thing they must retain.  *)
Retained_NoLkg(p) == ({current} \cap Version) \cup {v \in Version : <<p, v>> \in leases}
Retained_NoLeases(p) == {current, lkg} \cap Version

(* The first half of garbage_collect: what it retains while p is the only    *)
(* process alive, and the lease files of dead processes it removes.          *)
Retained(p) ==
  ({current, lkg} \cap Version) \cup {v \in Version : <<p, v>> \in leases}

DropDeadLeases(p) ==
  /\ leases' = {l \in leases : l[1] = p}
  /\ UNCHANGED <<current, lkg, rejected, dir, staging>>

CreateStaging(p) ==
  /\ staging' = staging \cup {p}
  /\ UNCHANGED <<current, lkg, rejected, dir, leases>>

RemoveStaging(p) == DropStaging(p) /\ UNCHANGED <<current, lkg, rejected, dir, leases>>

(* cleanup_abandoned_staging keeps the directories that bear the pid of a     *)
(* process that is alive: this one, or another program that got the pid since. *)
CleanupAbandonedStaging(p) ==
  /\ \E others \in SUBSET Pid : staging' = staging \cap (others \cup {p})
  /\ UNCHANGED <<current, lkg, rejected, dir, leases>>
=============================================================================
