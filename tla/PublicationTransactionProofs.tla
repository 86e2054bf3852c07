-------------------- MODULE PublicationTransactionProofs --------------------
(***************************************************************************)
(* Theorems about the file transaction of a publication, for any number of *)
(* outputs, any payloads, and with or without crashes and with or without  *)
(* faults inside rollback().                                               *)
(***************************************************************************)
EXTENDS PublicationTransaction, TLAPS

-----------------------------------------------------------------------------
(* The inductive invariant.                                                *)

(* A backup stands next to a file: no path has a backup and no target.     *)
BackupShadowsTarget == \A i \in Outputs : backup[i] # Absent => disk[i] # Absent

(* What stage_json() has decided, seen from any later point.  The targets  *)
(* outside of staged are never touched.                                    *)
StagedInv ==
  /\ \A i \in staged :
       /\ i < cursor
       /\ payload[i] # Absent
       /\ i \in Immutable => before[i] = Absent
  /\ \A i \in Outputs \ staged :
       /\ i < cursor => payload[i] = Absent \/ (i \in Immutable /\ before[i] = payload[i])
       /\ disk[i] = before[i]

RunningInv ==
  /\ pc # "idle" => outcome = "none"
  /\ pc \in {"stage", "copy", "replace", "verify"} => ~ faulted
  /\ pc = "stage" => committed = {} /\ disk = before
  /\ committed # {} => cursor = N + 1

(* commit(): _committed is a prefix of _staged, its outputs are in place   *)
(* and their backups hold what was there before.                           *)
CommitInv ==
  pc \in {"copy", "replace", "verify"} =>
    /\ cursor = N + 1
    /\ \A i \in committed : disk[i] = payload[i] /\ backup[i] = before[i]
    /\ \A i \in Outputs \ committed : disk[i] = before[i]
    /\ \A i \in committed, j \in staged \ committed : i < j
    /\ pc = "verify" => committed = staged
    /\ pc # "verify" => committed # staged
    /\ pc = "replace" => \A i \in Outputs : Committing(i) => backup[i] = before[i]

(* rollback(): until one of them raises, what is left to restore has a     *)
(* complete backup and the rest is as it was.  The registry is restored    *)
(* first, and is not in _committed when commit() rolls back.               *)
RollbackInv ==
  pc \in {"restore", "cleanup"} =>
    /\ \A i \in committed : backup[i] \in {Absent, before[i]}
    /\ nested => Registry \notin committed
    /\ Registry \in undo => Installed /\ ~ faulted /\ ~ nested
    /\ Registry \notin undo => disk[Registry] = before[Registry]
    /\ pc = "cleanup" => undo = {}
    /\ ~ faulted =>
         /\ \A i \in undo : backup[i] = before[i]
         /\ \A i \in Outputs \ undo : disk[i] = before[i]

IInv ==
  /\ TypeOK
  /\ BackupShadowsTarget
  /\ StagedInv
  /\ RunningInv
  /\ CommitInv
  /\ RollbackInv
  /\ NoPartialRegistration
  /\ ReplacedFilesRecoverable
  /\ AllOrNothing

-----------------------------------------------------------------------------
(* Every step of Next preserves the invariant: one lemma per action, one step *)
(* per conjunct the action can disturb, and one for those it leaves alone. *)

(* stage_json() on an output that needs no writing decides nothing new.    *)
LEMMA StageSkipPreserves ==
  ASSUME IInv, NEW i \in Outputs, StageSkip(i)
  PROVE  IInv'
<1> USE DEF IInv, StageSkip, Staging, Advance, AlreadyPublished, Outputs,
        Registry, Files, fileVars, rollbackVars, historyVars
<1>1. TypeOK'
  BY OutputsAssumption DEF TypeOK
<1>2. StagedInv'
  BY DEF TypeOK, StagedInv
<1>3. RunningInv'
  BY DEF RunningInv
<1>4. CommitInv'
  BY OutputsAssumption, PayloadsAssumption DEF TypeOK, CommitInv
<1>5. RollbackInv'
  BY DEF RollbackInv
<1>6. BackupShadowsTarget' /\ NoPartialRegistration'
     /\ ReplacedFilesRecoverable' /\ AllOrNothing'
  BY DEF BackupShadowsTarget, NoPartialRegistration, ReplacedFilesRecoverable,
         AllOrNothing, Installed
<1>7. QED
  BY <1>1, <1>2, <1>3, <1>4, <1>5, <1>6

(* A staged output is not an immutable one that existed.                   *)
LEMMA StageWritePreserves ==
  ASSUME IInv, NEW i \in Outputs, StageWrite(i)
  PROVE  IInv'
<1> USE DEF IInv, StageWrite, Staging, Advance, AlreadyPublished, Conflicting,
        Outputs, Registry, Files, rollbackVars, historyVars
<1>1. TypeOK'
  BY OutputsAssumption DEF TypeOK
<1>2. StagedInv'
  BY DEF TypeOK, StagedInv
<1>3. RunningInv'
  BY DEF RunningInv
<1>4. CommitInv'
  BY DEF RunningInv, CommitInv
<1>5. RollbackInv'
  BY DEF RollbackInv
<1>6. BackupShadowsTarget' /\ NoPartialRegistration'
     /\ ReplacedFilesRecoverable' /\ AllOrNothing'
  BY DEF BackupShadowsTarget, NoPartialRegistration, ReplacedFilesRecoverable,
         AllOrNothing, Installed
<1>7. QED
  BY <1>1, <1>2, <1>3, <1>4, <1>5, <1>6

(* An attempt is refused before it has committed anything.                 *)
LEMMA StageRefusePreserves ==
  ASSUME IInv, NEW i \in Outputs, StageRefuse(i)
  PROVE  IInv'
<1> USE DEF IInv, StageRefuse, Staging, EnterRollback, Outputs, Registry,
        Files, fileVars, txnVars, historyVars
<1>1. TypeOK'
  <2>1. nested' \in BOOLEAN
    BY DEF TypeOK
  <2>2. QED
    BY <2>1 DEF TypeOK
<1>2. RunningInv'
  BY DEF RunningInv
<1>3. CommitInv'
  BY DEF CommitInv
<1>4. RollbackInv'
  BY DEF RunningInv, RollbackInv
<1>5. BackupShadowsTarget' /\ StagedInv' /\ NoPartialRegistration'
     /\ ReplacedFilesRecoverable' /\ AllOrNothing'
  BY DEF BackupShadowsTarget, StagedInv, NoPartialRegistration,
         ReplacedFilesRecoverable, AllOrNothing, Installed
<1>6. QED
  BY <1>1, <1>2, <1>3, <1>4, <1>5

(* A fault while staging comes before anything is committed.               *)
LEMMA StageFaultPreserves ==
  ASSUME IInv, NEW i \in Outputs, StageFault(i)
  PROVE  IInv'
<1> USE DEF IInv, StageFault, Staging, EnterRollback, Outputs, Registry, Files,
        txnVars, historyVars
<1>1. TypeOK'
  <2>1. nested' \in BOOLEAN
    BY DEF TypeOK
  <2>2. QED
    BY <2>1 DEF TypeOK
<1>2. RunningInv'
  BY DEF RunningInv
<1>3. CommitInv'
  BY DEF CommitInv
<1>4. RollbackInv'
  BY DEF RunningInv, RollbackInv
<1>5. BackupShadowsTarget' /\ StagedInv' /\ NoPartialRegistration'
     /\ ReplacedFilesRecoverable' /\ AllOrNothing'
  BY DEF BackupShadowsTarget, StagedInv, NoPartialRegistration,
         ReplacedFilesRecoverable, AllOrNothing, Installed
<1>6. QED
  BY <1>1, <1>2, <1>3, <1>4, <1>5

(* The backup that commit() takes is of the file the attempt found.        *)
LEMMA CopyBackupPreserves ==
  ASSUME IInv, NEW i \in Outputs, CopyBackup(i)
  PROVE  IInv'
<1> USE DEF IInv, CopyBackup, Committing, First, Outputs, Registry, Files,
        txnVars, rollbackVars, historyVars
<1>1. TypeOK'
  BY DEF TypeOK
<1>2. BackupShadowsTarget'
  BY DEF BackupShadowsTarget
<1>3. RunningInv'
  BY DEF RunningInv
<1>4. CommitInv'
  BY DEF TypeOK, BackupShadowsTarget, RunningInv, CommitInv,
         NoPartialRegistration, AllOrNothing
<1>5. RollbackInv'
  BY DEF RollbackInv
<1>6. ReplacedFilesRecoverable'
  BY DEF TypeOK, CommitInv, RollbackInv, ReplacedFilesRecoverable
<1>7. StagedInv' /\ NoPartialRegistration' /\ AllOrNothing'
  BY DEF StagedInv, NoPartialRegistration, AllOrNothing, Installed
<1>8. QED
  BY <1>1, <1>2, <1>3, <1>4, <1>5, <1>6, <1>7

(* A torn backup is of an output that is not in _committed, so it is never *)
(* restored.                                                               *)
LEMMA CopyFaultPreserves ==
  ASSUME IInv, NEW i \in Outputs, CopyFault(i)
  PROVE  IInv'
<1> USE DEF IInv, CopyFault, EnterRollback, Committing, First, Outputs,
        Registry, Files, txnVars, historyVars
<1>1. TypeOK'
  BY DEF TypeOK
<1>2. BackupShadowsTarget'
  BY DEF BackupShadowsTarget
<1>3. RunningInv'
  BY DEF RunningInv
<1>4. CommitInv'
  BY DEF CommitInv
<1>5. RollbackInv'
  BY OutputsAssumption DEF TypeOK, CommitInv, RollbackInv
<1>6. ReplacedFilesRecoverable'
  BY DEF TypeOK, CommitInv, RollbackInv, ReplacedFilesRecoverable
<1>7. StagedInv' /\ NoPartialRegistration' /\ AllOrNothing'
  BY DEF StagedInv, NoPartialRegistration, AllOrNothing, Installed
<1>8. QED
  BY <1>1, <1>2, <1>3, <1>4, <1>5, <1>6, <1>7

(* The rename of the registry is the last one: the rest is in place.       *)
LEMMA ReplacePreserves ==
  ASSUME IInv, NEW i \in Outputs, Replace(i)
  PROVE  IInv'
<1> USE DEF IInv, Replace, Committing, First, Outputs, Registry, Files,
        rollbackVars, historyVars
<1>1. TypeOK'
  BY OutputsAssumption, PayloadsAssumption DEF TypeOK
<1>2. BackupShadowsTarget'
  BY DEF BackupShadowsTarget, StagedInv, RunningInv, RollbackInv
<1>3. StagedInv'
  BY DEF StagedInv
<1>4. RunningInv'
  BY DEF RunningInv, CommitInv, RollbackInv
<1>5. CommitInv'
  <2>1. cursor' = N + 1
    BY DEF CommitInv
  <2>2. \A j \in committed' : disk'[j] = payload'[j] /\ backup'[j] = before'[j]
    BY DEF TypeOK, CommitInv
  <2>3. \A j \in Outputs \ committed' : disk'[j] = before'[j]
    BY DEF TypeOK, CommitInv
  <2>4. \A j \in committed', k \in (staged \ committed)' : j < k
    <3>1. SUFFICES ASSUME NEW j \in committed', NEW k \in (staged \ committed)'
                   PROVE  j < k
      OBVIOUS
    <3>2. CASE j = i
      BY <3>2, OutputsAssumption DEF TypeOK
    <3>3. CASE j # i
      BY <3>3 DEF CommitInv
    <3>4. QED
      BY <3>2, <3>3
  <2>5. pc' # "replace"
    OBVIOUS
  <2>6. pc' = "verify" => committed' = staged'
    BY DEF TypeOK
  <2>7. pc' # "verify" => committed' # staged'
    OBVIOUS
  <2>8. QED
    BY <2>1, <2>2, <2>3, <2>4, <2>5, <2>6, <2>7 DEF CommitInv
<1>6. RollbackInv'
  BY DEF RollbackInv
<1>7. NoPartialRegistration'
  BY DEF StagedInv, CommitInv, NoPartialRegistration, Installed
<1>8. ReplacedFilesRecoverable'
  BY DEF TypeOK, CommitInv, RollbackInv, ReplacedFilesRecoverable
<1>9. AllOrNothing'
  BY DEF RunningInv, AllOrNothing
<1>10. QED
  BY <1>1, <1>2, <1>3, <1>4, <1>5, <1>6, <1>7, <1>8, <1>9

(* When a rename raises, the registry has not been renamed.                *)
LEMMA ReplaceFaultPreserves ==
  ASSUME IInv, NEW i \in Outputs, ReplaceFault(i)
  PROVE  IInv'
<1> USE DEF IInv, ReplaceFault, EnterRollback, Committing, First, Outputs,
        Registry, Files, fileVars, txnVars, historyVars
<1>1. TypeOK'
  BY DEF TypeOK
<1>2. RunningInv'
  BY DEF RunningInv
<1>3. CommitInv'
  BY DEF CommitInv
<1>4. RollbackInv'
  BY OutputsAssumption DEF TypeOK, CommitInv, RollbackInv
<1>5. BackupShadowsTarget' /\ StagedInv' /\ NoPartialRegistration'
     /\ ReplacedFilesRecoverable' /\ AllOrNothing'
  BY DEF BackupShadowsTarget, StagedInv, NoPartialRegistration,
         ReplacedFilesRecoverable, AllOrNothing, Installed
<1>6. QED
  BY <1>1, <1>2, <1>3, <1>4, <1>5

(* An attempt that returns has every output in place.                      *)
LEMMA VerifyOkPreserves ==
  ASSUME IInv, VerifyOk
  PROVE  IInv'
<1> USE DEF IInv, VerifyOk, Finish, Outputs, Registry, Files, fileVars,
        txnVars, rollbackVars
<1>1. TypeOK'
  BY DEF TypeOK
<1>2. RunningInv'
  BY DEF RunningInv
<1>3. CommitInv'
  BY DEF CommitInv
<1>4. RollbackInv'
  BY DEF RollbackInv
<1>5. AllOrNothing'
  BY OutputsAssumption
     DEF TypeOK, StagedInv, CommitInv, RollbackInv, AllOrNothing
<1>6. BackupShadowsTarget' /\ StagedInv' /\ NoPartialRegistration'
     /\ ReplacedFilesRecoverable'
  BY DEF BackupShadowsTarget, StagedInv, NoPartialRegistration,
         ReplacedFilesRecoverable, Installed
<1>7. QED
  BY <1>1, <1>2, <1>3, <1>4, <1>5, <1>6

(* The rollback of a whole commit starts with the registry.                *)
LEMMA VerifyFaultPreserves ==
  ASSUME IInv, VerifyFault
  PROVE  IInv'
<1> USE DEF IInv, VerifyFault, EnterRollback, Outputs, Registry, Files,
        fileVars, txnVars, historyVars
<1>1. TypeOK'
  <2>1. nested' \in BOOLEAN
    BY DEF TypeOK
  <2>2. QED
    BY <2>1 DEF TypeOK
<1>2. RunningInv'
  BY DEF RunningInv
<1>3. CommitInv'
  BY DEF CommitInv
<1>4. RollbackInv'
  BY OutputsAssumption
     DEF StagedInv, RunningInv, CommitInv, RollbackInv, Installed
<1>5. BackupShadowsTarget' /\ StagedInv' /\ NoPartialRegistration'
     /\ ReplacedFilesRecoverable' /\ AllOrNothing'
  BY DEF BackupShadowsTarget, StagedInv, NoPartialRegistration,
         ReplacedFilesRecoverable, AllOrNothing, Installed
<1>6. QED
  BY <1>1, <1>2, <1>3, <1>4, <1>5

(* The registry is restored first, while everything else is in place.      *)
LEMMA RestorePreserves ==
  ASSUME IInv, NEW i \in Outputs, Restore(i)
  PROVE  IInv'
<1> USE DEF IInv, Restore, Last, Outputs, Registry, Files, txnVars, historyVars
<1>1. TypeOK'
  BY DEF TypeOK, RunningInv, RollbackInv
<1>2. BackupShadowsTarget'
  BY DEF BackupShadowsTarget
<1>3. StagedInv'
  BY DEF TypeOK, StagedInv
<1>4. RunningInv'
  BY DEF RunningInv
<1>5. CommitInv'
  BY DEF CommitInv
<1>6. RollbackInv'
  BY OutputsAssumption DEF TypeOK, RollbackInv
<1>7. NoPartialRegistration'
  BY OutputsAssumption
     DEF TypeOK, RunningInv, RollbackInv, NoPartialRegistration
<1>8. ReplacedFilesRecoverable'
  BY DEF TypeOK, RunningInv, RollbackInv, ReplacedFilesRecoverable
<1>9. AllOrNothing'
  BY DEF RunningInv, AllOrNothing
<1>10. QED
  BY <1>1, <1>2, <1>3, <1>4, <1>5, <1>6, <1>7, <1>8, <1>9

(* rollback() goes on to the temporary files with nothing left to restore. *)
LEMMA RestoreDonePreserves ==
  ASSUME IInv, RestoreDone
  PROVE  IInv'
<1> USE DEF IInv, RestoreDone, Outputs, Registry, Files, fileVars, txnVars,
        historyVars
<1>1. TypeOK'
  BY DEF TypeOK
<1>2. RunningInv'
  BY DEF RunningInv
<1>3. CommitInv'
  BY DEF CommitInv
<1>4. RollbackInv'
  BY DEF RollbackInv
<1>5. BackupShadowsTarget' /\ StagedInv' /\ NoPartialRegistration'
     /\ ReplacedFilesRecoverable' /\ AllOrNothing'
  BY DEF BackupShadowsTarget, StagedInv, NoPartialRegistration,
         ReplacedFilesRecoverable, AllOrNothing, Installed
<1>6. QED
  BY <1>1, <1>2, <1>3, <1>4, <1>5

(* No backup that is removed is needed any more, unless a rollback()       *)
(* raised.                                                                 *)
LEMMA CleanupPreserves ==
  ASSUME IInv, NEW i \in Outputs, Cleanup(i)
  PROVE  IInv'
<1> USE DEF IInv, Cleanup, First, Outputs, Registry, Files, txnVars,
        historyVars
<1>1. TypeOK'
  BY DEF TypeOK
<1>2. BackupShadowsTarget'
  BY DEF BackupShadowsTarget
<1>3. CommitInv'
  BY DEF CommitInv
<1>4. RollbackInv'
  BY DEF RollbackInv
<1>5. ReplacedFilesRecoverable'
  BY DEF RunningInv, RollbackInv, ReplacedFilesRecoverable
<1>6. StagedInv' /\ RunningInv' /\ NoPartialRegistration' /\ AllOrNothing'
  BY DEF StagedInv, RunningInv, NoPartialRegistration, AllOrNothing, Installed
<1>7. QED
  BY <1>1, <1>2, <1>3, <1>4, <1>5, <1>6

(* When rollback() is done the targets are what the attempt found.         *)
LEMMA CleanupDonePreserves ==
  ASSUME IInv, CleanupDone
  PROVE  IInv'
<1> USE DEF IInv, CleanupDone, Finish, Outputs, Registry, Files, fileVars
<1>1. TypeOK'
  <2>1. nested' \in BOOLEAN
    BY DEF TypeOK
  <2>2. QED
    BY <2>1 DEF TypeOK, RollbackInv
<1>2. RunningInv'
  BY DEF RunningInv
<1>3. CommitInv'
  BY DEF CommitInv
<1>4. RollbackInv'
  BY DEF RollbackInv
<1>5. AllOrNothing'
  BY OutputsAssumption DEF TypeOK, RunningInv, RollbackInv, AllOrNothing
<1>6. BackupShadowsTarget' /\ StagedInv' /\ NoPartialRegistration'
     /\ ReplacedFilesRecoverable'
  BY DEF BackupShadowsTarget, StagedInv, NoPartialRegistration,
         ReplacedFilesRecoverable, Installed
<1>7. QED
  BY <1>1, <1>2, <1>3, <1>4, <1>5, <1>6

(* A rollback() that raises leaves the registry as it was, or everything   *)
(* in place.                                                               *)
LEMMA RollbackFaultPreserves ==
  ASSUME IInv, RollbackFault
  PROVE  IInv'
<1> USE DEF IInv, RollbackFault, Finish, First, Outputs, Registry, Files,
        txnVars
<1>1. TypeOK'
  <2>1. nested' \in BOOLEAN
    BY DEF TypeOK
  <2>2. QED
    BY <2>1 DEF TypeOK
<1>2. RunningInv'
  BY DEF RunningInv
<1>3. CommitInv'
  BY DEF CommitInv
<1>4. RollbackInv'
  BY DEF RollbackInv
<1>5. ReplacedFilesRecoverable'
  BY DEF ReplacedFilesRecoverable
<1>6. AllOrNothing'
  BY DEF AllOrNothing
<1>7. BackupShadowsTarget' /\ StagedInv' /\ NoPartialRegistration'
  BY DEF BackupShadowsTarget, StagedInv, NoPartialRegistration, Installed
<1>8. QED
  BY <1>1, <1>2, <1>3, <1>4, <1>5, <1>6, <1>7

(* A new attempt finds whole files and no backup without a target.         *)
LEMMA BeginPreserves ==
  ASSUME IInv, NEW p \in Payloads, Begin(p)
  PROVE  IInv'
<1> USE DEF IInv, Begin, Outputs, Registry, Files, fileVars
<1>1. TypeOK'
  <2>1. nested' \in BOOLEAN /\ faulted' \in BOOLEAN
    OBVIOUS
  <2>2. cursor' \in 1..N + 1
    BY OutputsAssumption
  <2>3. QED
    BY <2>1, <2>2 DEF TypeOK
<1>2. StagedInv'
  BY DEF StagedInv
<1>3. RunningInv'
  BY DEF RunningInv
<1>4. CommitInv'
  BY DEF CommitInv
<1>5. RollbackInv'
  BY DEF RollbackInv
<1>6. NoPartialRegistration'
  BY DEF NoPartialRegistration
<1>7. ReplacedFilesRecoverable'
  BY DEF ReplacedFilesRecoverable
<1>8. AllOrNothing'
  BY DEF AllOrNothing
<1>9. BackupShadowsTarget'
  BY DEF BackupShadowsTarget
<1>10. QED
  BY <1>1, <1>2, <1>3, <1>4, <1>5, <1>6, <1>7, <1>8, <1>9

(* A crash changes no file.                                                *)
LEMMA CrashPreserves ==
  ASSUME IInv, Crash
  PROVE  IInv'
<1> USE DEF IInv, Crash, Finish, Outputs, Registry, Files, fileVars, txnVars,
        rollbackVars
<1>1. TypeOK'
  BY DEF TypeOK
<1>2. RunningInv'
  BY DEF RunningInv
<1>3. CommitInv'
  BY DEF CommitInv
<1>4. RollbackInv'
  BY DEF RollbackInv
<1>5. AllOrNothing'
  BY DEF AllOrNothing
<1>6. BackupShadowsTarget' /\ StagedInv' /\ NoPartialRegistration'
     /\ ReplacedFilesRecoverable'
  BY DEF BackupShadowsTarget, StagedInv, NoPartialRegistration,
         ReplacedFilesRecoverable, Installed
<1>7. QED
  BY <1>1, <1>2, <1>3, <1>4, <1>5, <1>6

-----------------------------------------------------------------------------
(* The theorems.                                                           *)

(* The invariant holds when nothing has been published.                    *)
LEMMA InitEstablishes == Init => IInv
<1> SUFFICES ASSUME Init PROVE IInv
  OBVIOUS
<1>1. TypeOK
  <2>1. faulted \in BOOLEAN /\ nested \in BOOLEAN
    BY DEF Init
  <2>2. cursor \in 1..N + 1
    BY OutputsAssumption DEF Init
  <2>3. QED
    BY <2>1, <2>2 DEF Init, TypeOK, Outputs, Files
<1>2. BackupShadowsTarget /\ StagedInv /\ RunningInv /\ CommitInv /\ RollbackInv
  BY OutputsAssumption
     DEF Init, BackupShadowsTarget, StagedInv, RunningInv, CommitInv, RollbackInv, Outputs
<1>3. NoPartialRegistration /\ ReplacedFilesRecoverable /\ AllOrNothing
  BY DEF Init, NoPartialRegistration, ReplacedFilesRecoverable, AllOrNothing
<1>4. QED
  BY <1>1, <1>2, <1>3 DEF IInv

(* A step that changes nothing keeps the invariant.                        *)
LEMMA StutterPreserves ==
  ASSUME IInv, UNCHANGED vars
  PROVE  IInv'
<1> USE DEF vars, fileVars, txnVars, rollbackVars, historyVars
<1>1. TypeOK' /\ BackupShadowsTarget' /\ StagedInv'
  BY DEF IInv, TypeOK, BackupShadowsTarget, StagedInv
<1>2. RunningInv' /\ CommitInv' /\ RollbackInv'
  BY DEF IInv, RunningInv, CommitInv, RollbackInv, Committing, First, Installed
<1>3. NoPartialRegistration' /\ ReplacedFilesRecoverable' /\ AllOrNothing'
  BY DEF IInv, NoPartialRegistration, ReplacedFilesRecoverable, AllOrNothing, Installed
<1>4. QED
  BY <1>1, <1>2, <1>3 DEF IInv

(* Every step of an attempt, and the beginning and the death of one, keeps *)
(* the invariant.                                                          *)
LEMMA NextPreserves ==
  ASSUME IInv, Next
  PROVE  IInv'
<1>1. ASSUME NEW p \in Payloads, Begin(p)
      PROVE  IInv'
  BY <1>1, BeginPreserves
<1>2. ASSUME NEW i \in Outputs, Stage(i)
      PROVE  IInv'
  BY <1>2, StageSkipPreserves, StageWritePreserves, StageRefusePreserves,
     StageFaultPreserves DEF Stage
<1>3. ASSUME NEW i \in Outputs, Commit(i)
      PROVE  IInv'
  BY <1>3, CopyBackupPreserves, CopyFaultPreserves, ReplacePreserves,
     ReplaceFaultPreserves DEF Commit
<1>4. ASSUME NEW i \in Outputs, Rollback(i)
      PROVE  IInv'
  BY <1>4, RestorePreserves, CleanupPreserves DEF Rollback
<1>5. CASE VerifyOk \/ VerifyFault \/ RestoreDone \/ CleanupDone \/ RollbackFault \/ Crash
  BY <1>5, VerifyOkPreserves, VerifyFaultPreserves, RestoreDonePreserves,
     CleanupDonePreserves, RollbackFaultPreserves, CrashPreserves
<1>6. QED
  BY <1>1, <1>2, <1>3, <1>4, <1>5 DEF Next, Step

(* The invariant holds in every state of every behaviour.                  *)
LEMMA Invariance == Spec => []IInv
<1>1. IInv /\ [Next]_vars => IInv'
  BY NextPreserves, StutterPreserves
<1>2. QED
  BY InitEstablishes, <1>1, PTL DEF Spec

(* Every variable has its type: no target is ever a torn file.             *)
THEOREM TypeCorrect == Spec => []TypeOK
<1>1. IInv => TypeOK
  BY DEF IInv
<1>2. QED
  BY Invariance, <1>1, PTL

(* The registry never has an attempt's content while another output of the *)
(* attempt is missing, whatever fails and whenever the process dies.       *)
THEOREM NeverPartiallyRegistered == Spec => []NoPartialRegistration
<1>1. IInv => NoPartialRegistration
  BY DEF IInv
<1>2. QED
  BY Invariance, <1>1, PTL

(* An attempt that returned published everything; one that raised, without *)
(* a fault inside rollback(), changed no target.                           *)
THEOREM AttemptsAreAllOrNothing == Spec => []AllOrNothing
<1>1. IInv => AllOrNothing
  BY DEF IInv
<1>2. QED
  BY Invariance, <1>1, PTL

(* Until a rollback() raises, every file an attempt replaced is its target *)
(* or its backup.                                                          *)
THEOREM ReplacedFilesAreRecoverable == Spec => []ReplacedFilesRecoverable
<1>1. IInv => ReplacedFilesRecoverable
  BY DEF IInv
<1>2. QED
  BY Invariance, <1>1, PTL

(* No step of an attempt changes an immutable output that was there when   *)
(* the attempt began.                                                      *)
THEOREM ImmutableOutputsAreKept == Spec => ImmutableOutputsKept
<1> DEFINE Kept == \A i \in Immutable : pc # "idle" /\ before[i] # Absent => disk'[i] = disk[i]
<1>1. ASSUME IInv, Next
      PROVE  Kept
  <2> SUFFICES ASSUME NEW i \in Immutable, pc # "idle", before[i] # Absent
               PROVE  disk'[i] = disk[i]
    OBVIOUS
  <2>1. i \in Outputs /\ i \notin staged
    BY <1>1, OutputsAssumption DEF IInv, StagedInv
  <2>2. ASSUME NEW j \in staged, NEW c, disk' = [disk EXCEPT ![j] = c]
        PROVE  disk'[i] = disk[i]
    BY <1>1, <2>1, <2>2 DEF IInv, TypeOK
  <2>3. CASE \E j \in Outputs : Replace(j)
    BY <2>2, <2>3 DEF Replace, Committing, First
  <2>4. CASE \E j \in Outputs : Restore(j)
    BY <1>1, <2>2, <2>4 DEF Restore, Last, IInv, TypeOK
  <2>5. CASE ~ \E j \in Outputs : Replace(j) \/ Restore(j)
    <3>1. ASSUME NEW j \in Outputs, Stage(j) \/ CopyBackup(j) \/ CopyFault(j)
                                      \/ ReplaceFault(j) \/ Cleanup(j)
          PROVE  disk' = disk
      BY <3>1 DEF Stage, StageSkip, StageWrite, StageRefuse, StageFault, CopyBackup,
                  CopyFault, ReplaceFault, Cleanup, fileVars
    <3>2. ASSUME VerifyOk \/ VerifyFault \/ RestoreDone \/ CleanupDone
                   \/ RollbackFault \/ Crash \/ \E p \in Payloads : Begin(p)
          PROVE  disk' = disk
      BY <3>2 DEF VerifyOk, VerifyFault, RestoreDone, CleanupDone, RollbackFault,
                  Crash, Begin, fileVars
    <3>3. QED
      BY <1>1, <2>5, <3>1, <3>2 DEF Next, Step, Commit, Rollback
  <2>6. QED
    BY <2>3, <2>4, <2>5
<1>2. UNCHANGED vars => Kept
  BY DEF vars, fileVars
<1>3. IInv /\ [Next]_vars => [Kept]_vars
  BY <1>1, <1>2
<1>4. QED
  BY Invariance, <1>3, PTL DEF Spec, ImmutableOutputsKept

-----------------------------------------------------------------------------
(* A file transaction whose process does not die and whose rollbacks do    *)
(* not raise is one step of AtomicPublication, or none.                    *)

(* The state AtomicPublication sees.                                       *)
Seen == IF pc = "idle" THEN disk ELSE before

(* Only rollback() sets faulted.                                           *)
LEMMA NoRollbackFault ==
  ASSUME ~ RollbackFaultAllowed, ~ faulted, [Next]_vars
  PROVE  ~ faulted'
<1> USE DEF vars, historyVars
<1>1. ASSUME NEW i \in Outputs, Stage(i) \/ Commit(i) \/ Rollback(i)
      PROVE  faulted' = faulted
  BY <1>1 DEF Stage, StageSkip, StageWrite, StageRefuse, StageFault, Commit, CopyBackup,
     CopyFault, Replace, ReplaceFault, Rollback, Restore, Cleanup
<1>2. ASSUME VerifyOk \/ VerifyFault \/ RestoreDone \/ CleanupDone \/ Crash \/ UNCHANGED vars
      PROVE  faulted' = faulted
  BY <1>2 DEF VerifyOk, VerifyFault, RestoreDone, CleanupDone, Crash
<1>3. ASSUME NEW p \in Payloads, Begin(p)
      PROVE  ~ faulted'
  BY <1>3 DEF Begin
<1>4. ~ RollbackFault
  BY DEF RollbackFault
<1>5. QED
  BY <1>1, <1>2, <1>3, <1>4 DEF Next, Step

(* Returning from publish_review_file publishes the payload.               *)
LEMMA ReturnPublishes ==
  ASSUME IInv, IInv', VerifyOk
  PROVE  Atomic!Publish(payload)
<1>1. Atomic!Compatible(payload)
  <2> SUFFICES ASSUME NEW i \in Immutable
               PROVE  payload[i] = Absent \/ before[i] \in {Absent, payload[i]}
    BY DEF Atomic!Compatible, VerifyOk
  <2>1. i \in Outputs /\ cursor = N + 1
    BY OutputsAssumption DEF VerifyOk, IInv, CommitInv
  <2>2. CASE i \in staged
    BY <2>2 DEF IInv, StagedInv
  <2>3. CASE i \notin staged
    BY <2>1, <2>3, OutputsAssumption DEF IInv, StagedInv, Outputs
  <2>4. QED
    BY <2>2, <2>3
<1>2. Seen = before /\ Seen' = disk' /\ outcome' = "committed"
  BY DEF VerifyOk, Finish, Seen
<1>3. disk' = [i \in Outputs |-> IF payload[i] = Absent THEN before[i] ELSE payload[i]]
  BY <1>2 DEF VerifyOk, txnVars, IInv, AllOrNothing
<1>4. QED
  BY <1>1, <1>2, <1>3 DEF Atomic!Publish, Seen

(* The step that ends a failed attempt shows what the attempt found; every *)
(* other step but the return shows no change.                              *)
LEMMA OtherStepsStutter ==
  ASSUME IInv, IInv', ~ faulted', ~ CrashAllowed, ~ RollbackFaultAllowed, [Next]_vars, ~ VerifyOk
  PROVE  UNCHANGED Seen
<1>1. ASSUME NEW p \in Payloads, Begin(p)
      PROVE  UNCHANGED Seen
  BY <1>1 DEF Begin, Seen, fileVars
<1>2. ASSUME NEW i \in Outputs, Stage(i) \/ Commit(i) \/ Rollback(i)
      PROVE  UNCHANGED Seen
  <2>1. pc # "idle" /\ pc' # "idle" /\ before' = before
    BY <1>2 DEF Stage, StageSkip, StageWrite, StageRefuse, StageFault, Staging, Advance,
       Commit, CopyBackup, CopyFault, Replace, ReplaceFault, Rollback, Restore, Cleanup,
       EnterRollback, historyVars
  <2>2. QED
    BY <2>1 DEF Seen
<1>3. ASSUME VerifyFault \/ RestoreDone \/ UNCHANGED vars
      PROVE  UNCHANGED Seen
  BY <1>3 DEF VerifyFault, RestoreDone, EnterRollback, Seen, vars, fileVars, historyVars
<1>4. CASE CleanupDone
  <2>1. CASE nested
    BY <1>4, <2>1 DEF CleanupDone, Seen
  <2>2. CASE ~ nested
    <3>1. pc' = "idle" /\ outcome' = "failed" /\ before' = before
      BY <1>4, <2>2 DEF CleanupDone, Finish
    <3>2. disk' = before'
      BY <3>1 DEF IInv, AllOrNothing
    <3>3. QED
      BY <1>4, <3>1, <3>2 DEF Seen, CleanupDone
  <2>3. QED
    BY <2>1, <2>2
<1>5. ~ Crash /\ ~ RollbackFault
  BY DEF Crash, RollbackFault
<1>6. QED
  BY <1>1, <1>2, <1>3, <1>4, <1>5 DEF Next, Step

(* Publishing through the file system is atomic, seen when attempts end.   *)
THEOREM ImplementsAtomicPublication ==
  ASSUME ~ CrashAllowed, ~ RollbackFaultAllowed
  PROVE  Spec => AtomicSpec
<1> DEFINE Inv == IInv /\ ~ faulted
<1>1. Init => Inv
  BY InitEstablishes DEF Init
<1>2. Inv /\ [Next]_vars => Inv'
  BY NextPreserves, StutterPreserves, NoRollbackFault
<1>3. Init => Atomic!Init
  BY DEF Init, Atomic!Init
<1>4. Inv /\ Inv' /\ [Next]_vars => [Atomic!Next]_Seen
  <2> SUFFICES ASSUME Inv, Inv', [Next]_vars
               PROVE  [Atomic!Next]_Seen
    OBVIOUS
  <2>1. CASE VerifyOk
    BY <2>1, ReturnPublishes DEF Atomic!Next, IInv, TypeOK
  <2>2. CASE ~ VerifyOk
    BY <2>2, OtherStepsStutter
  <2>3. QED
    BY <2>1, <2>2
<1>5. QED
  BY <1>1, <1>2, <1>3, <1>4, PTL DEF Spec, AtomicSpec, Atomic!Spec, Seen
=============================================================================
