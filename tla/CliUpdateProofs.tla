--------------------------- MODULE CliUpdateProofs --------------------------
(***************************************************************************)
(* Proofs about CliUpdate for any set of versions and of process ids, when   *)
(* nothing outside the app damages a payload (MaxDamage = 0).                *)
(***************************************************************************)
EXTENDS CliUpdate, TLAPS

USE DEF NoVersion

(* A first start on an empty app-data directory satisfies the invariant.      *)
LEMMA InitInv == Init => IndInv
<1> SUFFICES ASSUME Init PROVE IndInv
  OBVIOUS
<1>1. DiskTypeOK
  BY DEF Init, DiskInit, DiskTypeOK, Pointer, Payload
<1>2. ProcessTypeOK
  <2>1. service \in BOOLEAN
    BY DEF Init
  <2>2. damage \in 0 .. MaxDamage
    BY MaxDamageAssumption DEF Init
  <2> QED
    BY <2>1, <2>2 DEF Init, ProcessTypeOK, Pointer
<1>3. SnapshotTypeOK
  BY DEF Init, SnapshotTypeOK, Pointer, Status
<1>4. LocalsTypeOK
  BY DEF Init, LocalsTypeOK, Activation, NoActivation, Pointer
<1>5. ControlTypeOK
  BY DEF Init, ControlTypeOK
<1>6. CurrentHasEntry /\ LkgHasEntry /\ GateMeansVetted
  BY DEF Init, DiskInit, CurrentHasEntry, LkgHasEntry, GateMeansVetted
<1>7. ProcessInv /\ PreparedInv /\ ValidationInv /\ ActivationInv /\ GcInv
  BY DEF Init, ProcessInv, PreparedInv, ValidationInv, ActivationInv, GcInv, InGc,
         Activating, Activated
<1>8. ReadyInv /\ OfferInv /\ LeaseInv
  BY DEF Init, DiskInit, ReadyInv, OfferInv, LeaseInv, InGc, Activating, Activated
<1> QED
  BY <1>1, <1>2, <1>3, <1>4, <1>5, <1>6, <1>7, <1>8 DEF IndInv, TypeOK

-----------------------------------------------------------------------------
(* What the two ways out of a command leave is well typed.                    *)
LEMMA ReturnTyped == ASSUME Return PROVE LocalsTypeOK' /\ pc' = "idle"
  BY DEF Return, LocalsTypeOK, Activation, NoActivation, Pointer

(* A failure leaves a well-typed snapshot.                                    *)
LEMMA FailTyped ==
  ASSUME NEW bootstrap \in BOOLEAN, Fail(bootstrap), SnapshotTypeOK
  PROVE SnapshotTypeOK'
  BY DEF Fail, SnapshotTypeOK, Status

(* Every step keeps the types; that a process is running when one of its      *)
(* threads takes a step, and that a version is being prepared, come from the  *)
(* invariant.                                                                *)
LEMMA TypeStep == ASSUME IndInv, [Next]_vars PROVE TypeOK'
<1>0. /\ DiskTypeOK /\ ProcessTypeOK /\ SnapshotTypeOK /\ LocalsTypeOK /\ ControlTypeOK
      /\ ProcessInv /\ PreparedInv
  BY DEF IndInv, TypeOK
<1> USE VersionAssumption, NoPidAssumption, MaxDamageAssumption
<1> USE DEF DiskTypeOK, ProcessTypeOK, ControlTypeOK, ProcessInv, PreparedInv,
            Pointer, Activation, NoActivation, HasEntry, Payload, InGc, disk,
            memory, snapshot, locals
<1>1. ASSUME NEW p \in Pid, StartProcess(p) PROVE TypeOK'
  BY <1>0, <1>1 DEF TypeOK, SnapshotTypeOK, LocalsTypeOK, Status, StartProcess,
     FreshMemory, NoActivation
<1>2. CASE ProcessEnds
  BY <1>0, <1>2 DEF TypeOK, SnapshotTypeOK, LocalsTypeOK, Status, ProcessEnds,
     FreshMemory, NoActivation
<1>3. ASSUME NEW v \in Version, PayloadLost(v) PROVE TypeOK'
  BY <1>0, <1>3 DEF TypeOK, SnapshotTypeOK, LocalsTypeOK, Status, PayloadLost
<1>4. CASE CheckForUpdates
  BY <1>0, <1>4 DEF TypeOK, SnapshotTypeOK, LocalsTypeOK, Status, CheckForUpdates
<1>5. CASE DownloadUpdate
  BY <1>0, <1>5 DEF TypeOK, SnapshotTypeOK, LocalsTypeOK, Status, DownloadUpdate
<1>6. CASE BootstrapCli
  <2>1. DiskTypeOK'
    BY <1>0, <1>6 DEF BootstrapCli, CleanupAbandonedStaging, LocalsTypeOK
  <2>2. ProcessTypeOK'
    BY <1>0, <1>6 DEF BootstrapCli, CleanupAbandonedStaging
  <2>3. SnapshotTypeOK'
    BY <1>0, <1>6 DEF BootstrapCli, CleanupAbandonedStaging, SnapshotTypeOK, Status
  <2>4. LocalsTypeOK'
    BY <1>0, <1>6 DEF BootstrapCli, CleanupAbandonedStaging, LocalsTypeOK,
       SnapshotTypeOK
  <2>5. ControlTypeOK'
    BY <1>0, <1>6 DEF BootstrapCli, CleanupAbandonedStaging
  <2> QED
    BY <2>1, <2>2, <2>3, <2>4, <2>5 DEF TypeOK
<1>7. CASE BeginActivation
  <2>1. DiskTypeOK'
    BY <1>0, <1>7 DEF BeginActivation, Activation, LocalsTypeOK
  <2>2. ProcessTypeOK'
    BY <1>0, <1>7 DEF BeginActivation, Activation
  <2>3. SnapshotTypeOK'
    BY <1>0, <1>7 DEF BeginActivation, Activation, SnapshotTypeOK, Status
  <2>4. LocalsTypeOK'
    BY <1>0, <1>7 DEF BeginActivation, Activation, LocalsTypeOK, SnapshotTypeOK
  <2>5. ControlTypeOK'
    BY <1>0, <1>7 DEF BeginActivation, Activation
  <2> QED
    BY <2>1, <2>2, <2>3, <2>4, <2>5 DEF TypeOK
<1>8. CASE InitializeExistingCli
  <2>1. DiskTypeOK'
    BY <1>0, <1>8, ReturnTyped DEF InitializeExistingCli, CleanupAbandonedStaging,
       LocalsTypeOK
  <2>2. ProcessTypeOK'
    BY <1>0, <1>8, ReturnTyped DEF InitializeExistingCli, CleanupAbandonedStaging
  <2>3. SnapshotTypeOK'
    BY <1>0, <1>8, ReturnTyped DEF InitializeExistingCli, CleanupAbandonedStaging,
       SnapshotTypeOK, Status
  <2>4. LocalsTypeOK'
    BY <1>0, <1>8, ReturnTyped DEF InitializeExistingCli, CleanupAbandonedStaging,
       LocalsTypeOK, SnapshotTypeOK
  <2>5. ControlTypeOK'
    BY <1>0, <1>8, ReturnTyped DEF InitializeExistingCli, CleanupAbandonedStaging
  <2> QED
    BY <2>1, <2>2, <2>3, <2>4, <2>5 DEF TypeOK
<1>9. CASE ValidateMissing
  BY <1>0, <1>9, ReturnTyped DEF TypeOK, SnapshotTypeOK, LocalsTypeOK, Status,
     ValidateMissing
<1>10. CASE ValidateSmoke
  <2>1. DiskTypeOK'
    BY <1>0, <1>10 DEF ValidateSmoke, LocalsTypeOK
  <2>2. ProcessTypeOK'
    BY <1>0, <1>10 DEF ValidateSmoke
  <2>3. SnapshotTypeOK'
    BY <1>0, <1>10 DEF ValidateSmoke, SnapshotTypeOK, Status
  <2>4. LocalsTypeOK'
    BY <1>0, <1>10 DEF ValidateSmoke, LocalsTypeOK, SnapshotTypeOK
  <2>5. ControlTypeOK'
    BY <1>0, <1>10 DEF ValidateSmoke
  <2> QED
    BY <2>1, <2>2, <2>3, <2>4, <2>5 DEF TypeOK
<1>11. CASE MarkCurrentGood
  BY <1>0, <1>11 DEF TypeOK, SnapshotTypeOK, LocalsTypeOK, Status, MarkCurrentGood,
     WriteLkg
<1>12. CASE ClearRejected
  BY <1>0, <1>12 DEF TypeOK, SnapshotTypeOK, LocalsTypeOK, Status, ClearRejected,
     WriteRejected
<1>13. CASE ValidateGivesUp
  BY <1>0, <1>13, ReturnTyped, FailTyped DEF TypeOK, SnapshotTypeOK, LocalsTypeOK,
     Status, ValidateGivesUp
<1>14. CASE LkgSmokePasses
  BY <1>0, <1>14 DEF TypeOK, SnapshotTypeOK, LocalsTypeOK, Status, LkgSmokePasses
<1>15. CASE RecordRejected
  BY <1>0, <1>15 DEF TypeOK, SnapshotTypeOK, LocalsTypeOK, Status, RecordRejected,
     WriteRejected
<1>16. CASE RestoreLastKnownGood
  BY <1>0, <1>16, ReturnTyped, FailTyped DEF TypeOK, SnapshotTypeOK, LocalsTypeOK,
     Status, RestoreLastKnownGood, WriteCurrent, MarkRuntimeReady
<1>17. CASE GcScan
  BY <1>0, <1>17 DEF TypeOK, SnapshotTypeOK, LocalsTypeOK, Status, GcScan, Retained,
     DropDeadLeases
<1>18. ASSUME NEW v \in Version, GcUnlink(v) PROVE TypeOK'
  BY <1>0, <1>18 DEF TypeOK, SnapshotTypeOK, LocalsTypeOK, Status, GcUnlink, Unlink,
     Remains, Payload
<1>19. CASE GcDone
  BY <1>0, <1>19, ReturnTyped, ZenonT(40) DEF TypeOK, SnapshotTypeOK, LocalsTypeOK, Status,
     GcDone
<1>20. CASE CheckFails
  BY <1>0, <1>20, ReturnTyped, FailTyped DEF TypeOK, SnapshotTypeOK, LocalsTypeOK,
     Status, CheckFails
<1>21. ASSUME NEW v \in Version, CheckNotAvailable(v) PROVE TypeOK'
  BY <1>0, <1>21, ReturnTyped DEF TypeOK, SnapshotTypeOK, LocalsTypeOK, Status,
     CheckNotAvailable
<1>22. ASSUME NEW v \in Version, CheckAvailable(v) PROVE TypeOK'
  <2>1. DiskTypeOK'
    BY <1>0, <1>22, ReturnTyped DEF CheckAvailable, LocalsTypeOK
  <2>2. ProcessTypeOK'
    BY <1>0, <1>22, ReturnTyped DEF CheckAvailable
  <2>3. SnapshotTypeOK'
    BY <1>0, <1>22, ReturnTyped DEF CheckAvailable, SnapshotTypeOK, Status
  <2>4. LocalsTypeOK'
    BY <1>0, <1>22, ReturnTyped DEF CheckAvailable, LocalsTypeOK, SnapshotTypeOK
  <2>5. ControlTypeOK'
    BY <1>0, <1>22, ReturnTyped DEF CheckAvailable
  <2> QED
    BY <2>1, <2>2, <2>3, <2>4, <2>5 DEF TypeOK
<1>23. CASE PrepareBegins
  BY <1>0, <1>23, ReturnTyped, FailTyped, ZenonT(40) DEF TypeOK, SnapshotTypeOK, LocalsTypeOK,
     Status, PrepareBegins, CreateStaging
<1>24. CASE PrepareSucceeds
  BY <1>0, <1>24, ReturnTyped, ZenonT(40) DEF TypeOK, SnapshotTypeOK, LocalsTypeOK, Status,
     PrepareSucceeds, RemoveStaging, DropStaging, PromoteStaged, Payload
<1>25. CASE PrepareFails
  BY <1>0, <1>25, ReturnTyped, FailTyped DEF TypeOK, SnapshotTypeOK, LocalsTypeOK,
     Status, PrepareFails, RemoveStaging, DropStaging
<1>26. CASE ActivationRefused
  BY <1>0, <1>26, ReturnTyped DEF TypeOK, SnapshotTypeOK, LocalsTypeOK, Status,
     ActivationRefused
<1>27. CASE ActivateLkg
  BY <1>0, <1>27 DEF TypeOK, SnapshotTypeOK, LocalsTypeOK, Status, ActivateLkg,
     WriteLkg
<1>28. CASE ActivateCurrent
  BY <1>0, <1>28 DEF TypeOK, SnapshotTypeOK, LocalsTypeOK, Status, ActivateCurrent,
     WriteCurrent
<1>29. CASE InstallApp
  BY <1>0, <1>29 DEF TypeOK, SnapshotTypeOK, LocalsTypeOK, Status, InstallApp
<1>30. CASE CommitActivation
  <2>1. UNCHANGED <<disk, memory, snapshot, caller, act, retained, withApp, acquiring, vetted, damage>>
    BY <1>30 DEF CommitActivation, CommitFails
  <2>2. after' \in {after, "commit"} /\ pc' \in {"gcScan", "exit", "rollback"}
    BY <1>30 DEF CommitActivation, CommitFails
  <2>3. DiskTypeOK' /\ ProcessTypeOK' /\ ControlTypeOK'
    BY <1>0, <2>1, <2>2
  <2>4. SnapshotTypeOK' /\ LocalsTypeOK'
    BY <1>0, <2>1, <2>2 DEF SnapshotTypeOK, LocalsTypeOK
  <2> QED
    BY <2>3, <2>4 DEF TypeOK
<1>31. CASE RollbackCurrent
  <2>1. DiskTypeOK'
    BY <1>0, <1>31, ReturnTyped DEF RollbackCurrent, WriteCurrent, Activation,
       LocalsTypeOK
  <2>2. ProcessTypeOK'
    BY <1>0, <1>31, ReturnTyped DEF RollbackCurrent, WriteCurrent, Activation
  <2>3. SnapshotTypeOK'
    BY <1>0, <1>31, ReturnTyped DEF RollbackCurrent, WriteCurrent, Activation,
       SnapshotTypeOK, Status
  <2>4. LocalsTypeOK'
    BY <1>0, <1>31, ReturnTyped DEF RollbackCurrent, WriteCurrent, Activation,
       LocalsTypeOK, SnapshotTypeOK
  <2>5. ControlTypeOK'
    BY <1>0, <1>31, ReturnTyped DEF RollbackCurrent, WriteCurrent, Activation
  <2> QED
    BY <2>1, <2>2, <2>3, <2>4, <2>5 DEF TypeOK
<1>32. CASE RollbackLkg
  BY <1>0, <1>32, ReturnTyped DEF TypeOK, SnapshotTypeOK, LocalsTypeOK, Status,
     RollbackLkg, WriteLkg, Activation
<1>33. CASE IoError
  <2>1. DiskTypeOK'
    BY <1>0, <1>33, ReturnTyped, FailTyped DEF IoError, CommitFails, LocalsTypeOK
  <2>2. ProcessTypeOK'
    BY <1>0, <1>33, ReturnTyped, FailTyped DEF IoError
  <2>3. SnapshotTypeOK'
    BY <1>0, <1>33, ReturnTyped, FailTyped DEF IoError, CommitFails, SnapshotTypeOK, Status
  <2>4. LocalsTypeOK'
    BY <1>0, <1>33, ReturnTyped, FailTyped DEF IoError, CommitFails, LocalsTypeOK, SnapshotTypeOK
  <2>5. ControlTypeOK'
    BY <1>0, <1>33, ReturnTyped, FailTyped DEF IoError, CommitFails
  <2> QED
    BY <2>1, <2>2, <2>3, <2>4, <2>5 DEF TypeOK
<1>34. CASE SyncError
  <2>1. DiskTypeOK'
    BY <1>0, <1>34, ReturnTyped, FailTyped DEF SyncError, WriteCurrent, WriteLkg,
       LocalsTypeOK
  <2>2. ProcessTypeOK'
    BY <1>0, <1>34, ReturnTyped, FailTyped DEF SyncError, WriteCurrent, WriteLkg
  <2>3. SnapshotTypeOK'
    BY <1>0, <1>34, ReturnTyped, FailTyped DEF SyncError, WriteCurrent, WriteLkg,
       SnapshotTypeOK, Status
  <2>4. LocalsTypeOK'
    BY <1>0, <1>34, ReturnTyped, FailTyped DEF SyncError, WriteCurrent, WriteLkg,
       LocalsTypeOK, SnapshotTypeOK
  <2>5. ControlTypeOK'
    BY <1>0, <1>34, ReturnTyped, FailTyped DEF SyncError, WriteCurrent, WriteLkg
  <2> QED
    BY <2>1, <2>2, <2>3, <2>4, <2>5 DEF TypeOK
<1>35. CASE AcquireReadsCurrent
  BY <1>0, <1>35 DEF TypeOK, SnapshotTypeOK, LocalsTypeOK, Status,
     AcquireReadsCurrent
<1>36. CASE AcquireWritesLease
  <2>1. DiskTypeOK'
    BY <1>0, <1>36 DEF AcquireWritesLease, WriteLease, LocalsTypeOK
  <2>2. ProcessTypeOK'
    BY <1>0, <1>36 DEF AcquireWritesLease, WriteLease
  <2>3. SnapshotTypeOK'
    BY <1>0, <1>36 DEF AcquireWritesLease, WriteLease, SnapshotTypeOK, Status
  <2>4. LocalsTypeOK'
    BY <1>0, <1>36 DEF AcquireWritesLease, WriteLease, LocalsTypeOK, SnapshotTypeOK
  <2>5. ControlTypeOK'
    BY <1>0, <1>36 DEF AcquireWritesLease, WriteLease
  <2> QED
    BY <2>1, <2>2, <2>3, <2>4, <2>5 DEF TypeOK
<1>37. CASE UNCHANGED vars
  BY <1>0, <1>37 DEF vars, TypeOK, SnapshotTypeOK, LocalsTypeOK
<1> QED
  BY <1>1, <1>2, <1>3, <1>4, <1>5, <1>6, <1>7, <1>8, <1>9, <1>10, <1>11, <1>12,
     <1>13, <1>14, <1>15, <1>16, <1>17, <1>18, <1>19, <1>20, <1>21, <1>22, <1>23,
     <1>24, <1>25, <1>26, <1>27, <1>28, <1>29, <1>30, <1>31, <1>32, <1>33, <1>34,
     <1>35, <1>36, <1>37
     DEF Next, Command, UpdateStep, RuntimeStep

(* One step of any thread, or a crash, preserves the invariant.  A damaged    *)
(* payload is the one thing that would not.                                  *)
LEMMA IndStep == ASSUME MaxDamage = 0, IndInv, TypeOK', [Next]_vars PROVE IndInv'
<1>0. /\ TypeOK /\ CurrentHasEntry /\ LkgHasEntry /\ GateMeansVetted
      /\ ProcessInv /\ PreparedInv /\ ValidationInv /\ ActivationInv /\ GcInv
      /\ ReadyInv /\ OfferInv /\ LeaseInv
  BY DEF IndInv
<1> USE VersionAssumption, NoPidAssumption
<1> USE DEF IndInv, CurrentHasEntry, LkgHasEntry, GateMeansVetted, ProcessInv, PreparedInv,
            ValidationInv, ActivationInv, GcInv, ReadyInv, OfferInv, LeaseInv
<1> USE DEF TypeOK, DiskTypeOK, ProcessTypeOK, SnapshotTypeOK, LocalsTypeOK, ControlTypeOK,
            Pointer, HasEntry, InGc, Activating, Activated, disk, memory, snapshot, locals
<1>1. ASSUME NEW p \in Pid, StartProcess(p) PROVE IndInv'
  BY <1>0, <1>1 DEF StartProcess, FreshMemory, NoActivation
<1>2. CASE ProcessEnds
  BY <1>0, <1>2 DEF ProcessEnds, FreshMemory, NoActivation
<1>3. ASSUME NEW v \in Version, PayloadLost(v) PROVE IndInv'
  BY <1>0, <1>3 DEF PayloadLost
<1>4. CASE CheckForUpdates
  BY <1>0, <1>4 DEF CheckForUpdates
<1>5. CASE DownloadUpdate
  BY <1>0, <1>5 DEF DownloadUpdate
<1>6. CASE BootstrapCli
  BY <1>0, <1>6, ZenonT(40) DEF BootstrapCli, CleanupAbandonedStaging
<1>7. CASE BeginActivation
  BY <1>0, <1>7 DEF BeginActivation, Activation
<1>8. CASE InitializeExistingCli
  BY <1>0, <1>8 DEF InitializeExistingCli, Return, CleanupAbandonedStaging,
     Activation, NoActivation
<1>9. CASE ValidateMissing
  BY <1>0, <1>9 DEF ValidateMissing, Return, Activation, NoActivation
<1>10. CASE ValidateSmoke
  BY <1>0, <1>10 DEF ValidateSmoke
<1>11. CASE MarkCurrentGood
  BY <1>0, <1>11 DEF MarkCurrentGood, WriteLkg
<1>12. CASE ClearRejected
  BY <1>0, <1>12 DEF ClearRejected, WriteRejected
<1>13. CASE ValidateGivesUp
  BY <1>0, <1>13 DEF ValidateGivesUp, Fail, Return, Activation, NoActivation
<1>14. CASE LkgSmokePasses
  BY <1>0, <1>14 DEF LkgSmokePasses
<1>15. CASE RecordRejected
  BY <1>0, <1>15 DEF RecordRejected, WriteRejected
<1>16. CASE RestoreLastKnownGood
  BY <1>0, <1>16 DEF RestoreLastKnownGood, WriteCurrent, MarkRuntimeReady, Fail,
     Return, Activation, NoActivation
<1>17. CASE GcScan
  BY <1>0, <1>17 DEF GcScan, Retained, DropDeadLeases
<1>18. ASSUME NEW v \in Version, GcUnlink(v) PROVE IndInv'
  BY <1>0, <1>18 DEF GcUnlink, Unlink, Remains, Payload
<1>19. CASE GcDone
  BY <1>0, <1>19 DEF GcDone, Return, Activation, NoActivation
<1>20. CASE CheckFails
  BY <1>0, <1>20 DEF CheckFails, Fail, Return, Activation, NoActivation
<1>21. ASSUME NEW v \in Version, CheckNotAvailable(v) PROVE IndInv'
  BY <1>0, <1>21 DEF CheckNotAvailable, Return, Activation, NoActivation
<1>22. ASSUME NEW v \in Version, CheckAvailable(v) PROVE IndInv'
  BY <1>0, <1>22 DEF CheckAvailable, Return, Activation, NoActivation
<1>23. CASE PrepareBegins
  BY <1>0, <1>23 DEF PrepareBegins, Return, Fail, CreateStaging, Activation,
     NoActivation
<1>24. CASE PrepareSucceeds
  BY <1>0, <1>24 DEF PrepareSucceeds, RemoveStaging, PromoteStaged, Return, Payload,
     Activation, NoActivation
<1>25. CASE PrepareFails
  BY <1>0, <1>25 DEF PrepareFails, RemoveStaging, DropStaging, Fail, Return, Activation,
     NoActivation
<1>26. CASE ActivationRefused
  BY <1>0, <1>26 DEF ActivationRefused, Return, Activation, NoActivation
<1>27. CASE ActivateLkg
  BY <1>0, <1>27 DEF ActivateLkg, WriteLkg
<1>28. CASE ActivateCurrent
  BY <1>0, <1>28 DEF ActivateCurrent, WriteCurrent
<1>29. CASE InstallApp
  BY <1>0, <1>29 DEF InstallApp
<1>30. CASE CommitActivation
  BY <1>0, <1>30 DEF CommitActivation, CommitFails
<1>31. CASE RollbackCurrent
  BY <1>0, <1>31 DEF RollbackCurrent, WriteCurrent, Return, Activation, NoActivation
<1>32. CASE RollbackLkg
  BY <1>0, <1>32 DEF RollbackLkg, WriteLkg, Return, Activation, NoActivation
<1>33. CASE IoError
  BY <1>0, <1>33 DEF IoError, CommitFails, Fail, Return, Activation, NoActivation
<1>34. CASE SyncError
  BY <1>0, <1>34 DEF SyncError, WriteCurrent, WriteLkg, Fail, Return, Activation,
     NoActivation
<1>35. CASE AcquireReadsCurrent
  BY <1>0, <1>35 DEF AcquireReadsCurrent
<1>36. CASE AcquireWritesLease
  BY <1>0, <1>36 DEF AcquireWritesLease, WriteLease
<1>37. CASE UNCHANGED vars
  BY <1>0, <1>37 DEF vars
<1> QED
  BY <1>1, <1>2, <1>3, <1>4, <1>5, <1>6, <1>7, <1>8, <1>9, <1>10, <1>11, <1>12,
     <1>13, <1>14, <1>15, <1>16, <1>17, <1>18, <1>19, <1>20, <1>21, <1>22, <1>23,
     <1>24, <1>25, <1>26, <1>27, <1>28, <1>29, <1>30, <1>31, <1>32, <1>33, <1>34,
     <1>35, <1>36, <1>37
     DEF Next, Command, UpdateStep, RuntimeStep

(* The invariant holds in every state the program reaches, when nothing       *)
(* outside the app damages a payload.                                        *)
THEOREM Invariance == MaxDamage = 0 => (Spec => []IndInv)
<1> SUFFICES ASSUME MaxDamage = 0 PROVE Spec => []IndInv
  OBVIOUS
<1>1. IndInv /\ [Next]_vars => IndInv'
  BY TypeStep, IndStep
<1> QED
  BY <1>1, InitInv, PTL DEF Spec

(* Every variable keeps its type through every crash, I/O error and restart.  *)
THEOREM TypeCorrect == MaxDamage = 0 => (Spec => []TypeOK)
<1>1. IndInv => TypeOK
  BY DEF IndInv
<1> QED
  BY <1>1, Invariance, PTL

(* current.json and last-known-good.json always name installed payloads.      *)
THEOREM PointersSafe == MaxDamage = 0 => (Spec => []PointersInstalled)
<1>1. IndInv => PointersInstalled
  BY DEF IndInv, PointersInstalled
<1> QED
  BY <1>1, Invariance, PTL

(* The readiness gate is open only on a version that passed a smoke check.    *)
THEOREM GateSafe == MaxDamage = 0 => (Spec => []GateMeansVetted)
<1>1. IndInv => GateMeansVetted
  BY DEF IndInv
<1> QED
  BY <1>1, Invariance, PTL

(* A crash anywhere in install_update leaves the previous version reachable.  *)
THEOREM InstallSafe == MaxDamage = 0 => (Spec => []InstallRevertible)
<1>1. IndInv => InstallRevertible
  BY VersionAssumption DEF IndInv, InstallRevertible, Installing, ActivationInv, CurrentHasEntry,
     LkgHasEntry, Activating, Activated, InGc, HasEntry
<1> QED
  BY <1>1, Invariance, PTL

(* What the update card offers to install is installed.                       *)
THEOREM ReadySafe == MaxDamage = 0 => (Spec => []ReadyIsInstallable)
<1>1. IndInv => ReadyIsInstallable
  BY DEF IndInv, ReadyIsInstallable, ReadyInv, InGc
<1> QED
  BY <1>1, Invariance, PTL

(* A version that validation rejects is not offered again by what the card     *)
(* still showed.                                                              *)
THEOREM OfferSafe == MaxDamage = 0 => (Spec => []RejectedNotOffered)
<1>1. IndInv => RejectedNotOffered
  BY DEF IndInv, RejectedNotOffered, OfferInv
<1> QED
  BY <1>1, Invariance, PTL

-----------------------------------------------------------------------------
(* A collection's scan finds the lease file of every version this process     *)
(* holds: an action property, from LeaseInv at the step that takes the scan.  *)
THEOREM LeasesSafe == MaxDamage = 0 => (Spec => LeasesSurviveScan)
<1>1. ASSUME IndInv, [Next]_vars PROVE [pc = "gcScan" /\ pc' = "gcDelete" => held \subseteq retained']_vars
  <2> SUFFICES ASSUME pc = "gcScan", pc' = "gcDelete", Next PROVE held \subseteq retained'
    BY <1>1
  <2>1. GcScan
    BY DEF Next, Command, UpdateStep, RuntimeStep, StartProcess, ProcessEnds,
           PayloadLost, CheckForUpdates, DownloadUpdate, BootstrapCli,
           BeginActivation, InitializeExistingCli, ValidateMissing, ValidateSmoke,
           MarkCurrentGood, ClearRejected, ValidateGivesUp, LkgSmokePasses,
           RecordRejected, RestoreLastKnownGood, GcUnlink, GcDone, CheckFails,
           CheckNotAvailable, CheckAvailable, PrepareBegins, PrepareSucceeds,
           PrepareFails, ActivationRefused, ActivateLkg, ActivateCurrent,
           InstallApp, CommitActivation, CommitFails, RollbackCurrent, RollbackLkg, IoError,
           SyncError, AcquireReadsCurrent, AcquireWritesLease,
           Return
  <2>2. held \subseteq Version /\ LeaseInv
    BY <1>1 DEF IndInv, TypeOK, ProcessTypeOK
  <2> QED
    BY <2>1, <2>2 DEF GcScan, Retained, LeaseInv
<1> QED
  BY <1>1, Invariance, PTL DEF Spec, LeasesSurviveScan

-----------------------------------------------------------------------------
(* Steps that leave the pointers and the installed payloads alone are         *)
(* stutters of the selection.                                                *)
LEMMA SelectionStutters ==
  ASSUME UNCHANGED <<current, lkg, dir>> PROVE UNCHANGED Selection!vars
  BY DEF Selection!vars, HasEntry

(* Writing the fallback pointer with the selected version.                    *)
LEMMA WriteLkgKeeps == ASSUME WriteLkg(current) PROVE Selection!KeepAsFallback
  BY DEF WriteLkg, Selection!KeepAsFallback, HasEntry

(* Every step of the store is a step of the selection or a stutter: this is   *)
(* where the order of the two pointer writes of activate and of rollback,     *)
(* and the crash between them, matter.                                       *)
LEMMA SelectionStep ==
  ASSUME MaxDamage = 0, IndInv, [Next]_vars PROVE [Selection!Next]_Selection!vars
<1>0. TypeOK /\ CurrentHasEntry /\ LkgHasEntry /\ ActivationInv /\ GcInv /\ PreparedInv
  BY DEF IndInv
<1> USE DEF disk, HasEntry
<1>1. CASE UNCHANGED vars
  BY <1>1, SelectionStutters DEF vars
<1>2. CASE (\E p \in Pid : StartProcess(p)) \/ ProcessEnds \/ CheckForUpdates \/
           DownloadUpdate \/ BootstrapCli \/ BeginActivation \/
           InitializeExistingCli \/ ValidateMissing \/ ValidateSmoke \/
           ClearRejected \/ ValidateGivesUp \/ LkgSmokePasses \/ RecordRejected \/
           GcScan \/ GcDone \/ CheckFails \/ (\E v \in Version :
           CheckNotAvailable(v)) \/ (\E v \in Version : CheckAvailable(v)) \/
           PrepareBegins \/ PrepareFails \/ ActivationRefused \/ InstallApp \/
           CommitActivation \/ IoError \/ AcquireReadsCurrent \/ AcquireWritesLease
  BY <1>2, SelectionStutters DEF StartProcess, ProcessEnds, CheckForUpdates,
     DownloadUpdate, BootstrapCli, BeginActivation, InitializeExistingCli,
     ValidateMissing, ValidateSmoke, ClearRejected, ValidateGivesUp, LkgSmokePasses,
     RecordRejected, GcScan, GcDone, CheckFails, CheckNotAvailable, CheckAvailable,
     PrepareBegins, PrepareFails, ActivationRefused, InstallApp, CommitActivation,
     IoError, AcquireReadsCurrent, AcquireWritesLease, WriteRejected,
     CleanupAbandonedStaging, DropDeadLeases, CreateStaging, RemoveStaging,
     WriteLease
<1>3. CASE MarkCurrentGood
  BY <1>3, WriteLkgKeeps DEF MarkCurrentGood, Selection!Next
<1>4. CASE RestoreLastKnownGood
  BY <1>4, SelectionStutters DEF RestoreLastKnownGood, WriteCurrent, Selection!Next, Selection!Revert
<1>5. ASSUME NEW v \in Version, GcUnlink(v) PROVE [Selection!Next]_Selection!vars
  <2>1. v \notin {current, lkg}
    BY <1>0, <1>5 DEF GcUnlink, GcInv
  <2>2. dir' = [dir EXCEPT ![v] = dir'[v]] /\ UNCHANGED <<current, lkg>>
    BY <1>0, <1>5 DEF GcUnlink, Unlink, TypeOK, DiskTypeOK
  <2>3. CASE HasEntry(v)' <=> HasEntry(v)
    BY <1>0, <2>2, <2>3 DEF Selection!vars, TypeOK, DiskTypeOK
  <2>4. CASE ~HasEntry(v)' /\ HasEntry(v)
    <3>1. {w \in Version : HasEntry(w)}' = {w \in Version : HasEntry(w)} \ {v}
      BY <1>0, <2>2, <2>4 DEF TypeOK, DiskTypeOK
    <3>2. Selection!Retire(v)
      BY <2>1, <2>2, <3>1 DEF Selection!Retire
    <3> QED
      BY <3>2 DEF Selection!Next
  <2> QED
    BY <1>5, <2>3, <2>4 DEF GcUnlink, Unlink, Remains
<1>6. CASE PrepareSucceeds
  <2>1. candidate \in Version
    BY <1>0, <1>6, VersionAssumption DEF PrepareSucceeds, PreparedInv, TypeOK, SnapshotTypeOK, Pointer
  <2>2. CASE RemoveStaging(proc)
    BY <2>2, SelectionStutters DEF RemoveStaging
  <2>3. CASE PromoteStaged(proc, candidate)
    <3>1. {w \in Version : HasEntry(w)}' = {w \in Version : HasEntry(w)} \cup {candidate}
      BY <1>0, <2>1, <2>3 DEF PromoteStaged, TypeOK, DiskTypeOK
    <3>2. PICK v \in Version : v = candidate
      BY <2>1
    <3>3. Selection!Install(v)
      BY <2>3, <3>1, <3>2 DEF PromoteStaged, Selection!Install
    <3> QED
      BY <3>3 DEF Selection!Next
  <2> QED
    BY <1>6, <2>2, <2>3 DEF PrepareSucceeds
<1>7. CASE ActivateLkg
  BY <1>7, WriteLkgKeeps, SelectionStutters DEF ActivateLkg, Selection!Next
<1>8. ASSUME WriteCurrent(act.activated), pc = "activateCurrent" PROVE [Selection!Next]_Selection!vars
  <2>1. HasEntry(act.activated) /\ current \in {NoVersion, act.activated, lkg}
    BY <1>0, <1>8 DEF ActivationInv, Activating
  <2>2. CASE current = act.activated
    BY <1>8, <2>2, SelectionStutters DEF WriteCurrent
  <2>3. CASE current \in {NoVersion, lkg}
    <3>1. PICK v \in Version : v = act.activated
      BY <2>1
    <3>2. Selection!Upgrade(v)
      BY <1>8, <2>1, <2>3, <3>1 DEF WriteCurrent, Selection!Upgrade
    <3> QED
      BY <3>2 DEF Selection!Next
  <2> QED
    BY <2>1, <2>2, <2>3
<1>9. CASE ActivateCurrent
  BY <1>8, <1>9 DEF ActivateCurrent
<1>10. CASE RollbackCurrent
  <2>1. CASE UNCHANGED disk
    BY <2>1, SelectionStutters
  <2>2. CASE WriteCurrent(act.previous) /\ current = act.activated /\ HasEntry(act.previous)
    <3>1. act.previous \in {current, lkg}
      BY <1>0, <1>10, <2>2, VersionAssumption DEF RollbackCurrent, ActivationInv, Activated
    <3>2. CASE act.previous = current
      BY <2>2, <3>2, SelectionStutters DEF WriteCurrent
    <3>3. CASE act.previous = lkg
      BY <2>2, <3>3 DEF WriteCurrent, Selection!Next, Selection!Revert
    <3> QED
      BY <3>1, <3>2, <3>3
  <2> QED
    BY <1>10, <2>1, <2>2 DEF RollbackCurrent
<1>11. ASSUME WriteLkg(act.previous), pc = "rollbackLkg" PROVE [Selection!Next]_Selection!vars
  BY <1>0, <1>11, WriteLkgKeeps DEF ActivationInv, Selection!Next
<1>12. CASE RollbackLkg
  BY <1>11, <1>12 DEF RollbackLkg
<1>13. CASE SyncError
  <2>1. CASE HasEntry(lkg) /\ WriteCurrent(lkg)
    BY <2>1 DEF WriteCurrent, Selection!Next, Selection!Revert
  <2> QED
    BY <1>8, <1>11, <1>13, <2>1 DEF SyncError
<1>14. ASSUME NEW v \in Version, PayloadLost(v) PROVE FALSE
  BY <1>0, <1>14 DEF PayloadLost, TypeOK, ProcessTypeOK
<1> QED
  BY <1>1, <1>2, <1>3, <1>4, <1>5, <1>6, <1>7, <1>9, <1>10, <1>12, <1>13, <1>14
     DEF Next, Command, UpdateStep, RuntimeStep

(* The store implements the abstract selection, through every crash.          *)
THEOREM Refinement == MaxDamage = 0 => (Spec => RefinesSelection)
<1>1. Init => Selection!Init
  BY VersionAssumption DEF Init, DiskInit, Selection!Init, HasEntry
<1> SUFFICES ASSUME MaxDamage = 0 PROVE Spec => RefinesSelection
  OBVIOUS
<1>2. IndInv /\ [Next]_vars => [Selection!Next]_Selection!vars
  BY SelectionStep
<1> QED
  BY <1>1, <1>2, Invariance, PTL DEF Spec, RefinesSelection, Selection!Spec
=============================================================================
