----------------------- MODULE PublicationTransaction -----------------------
(***************************************************************************)
(* The file transaction that publishes an authority: class                 *)
(* _PublicationTransaction of governance_ledger/publish.py and the part of *)
(* publish_review_file that drives it.  A run of publish_review_file is    *)
(* an attempt: it stages every output in a temporary file next to its      *)
(* target, renames the temporary files over the targets one by one, and on *)
(* any exception rolls back what it renamed.                               *)
(*                                                                         *)
(* The state is the directory tree as the attempts of one publisher leave  *)
(* it.  Every file operation is a step of its own and may raise; a process *)
(* may also die between any two of them.                                   *)
(*                                                                         *)
(* An output is a number, its place in the order publish_review_file       *)
(* stages the outputs in; the registry index.json is staged last.  Two     *)
(* attempts may have different outputs (a snapshot is named by the hash of *)
(* what it holds), so Outputs has every path any attempt writes and a      *)
(* payload is Absent at a path the attempt does not write.                 *)
(***************************************************************************)
EXTENDS Naturals

CONSTANTS
  N,                    \* number of paths; path N is contracts/index.json
  Immutable,            \* the paths staged with immutable=True
  Contents,             \* what a file may hold
  Absent,               \* no file
  Torn,                 \* a file cut short by a copy that raised
  Payloads,             \* the payloads an attempt may publish
  CrashAllowed,         \* may the process die between two file operations?
  RollbackFaultAllowed  \* may a file operation raise inside rollback()?

Outputs == 1..N
Registry == N

Files == Contents \cup {Absent}

(***************************************************************************)
(* The registry is written by every attempt and is not an immutable        *)
(* output; a payload writes whole files only.                              *)
(***************************************************************************)
ASSUME OutputsAssumption ==
  /\ N \in Nat \ {0}
  /\ Immutable \subseteq Outputs \ {Registry}

ASSUME ContentsAssumption ==
  /\ Absent \notin Contents
  /\ Torn \notin Contents
  /\ Absent # Torn

ASSUME PayloadsAssumption ==
  /\ Payloads \subseteq [Outputs -> Files]
  /\ \A p \in Payloads : p[Registry] # Absent

ASSUME FaultsAssumption ==
  /\ CrashAllowed \in BOOLEAN
  /\ RollbackFaultAllowed \in BOOLEAN

VARIABLES
  disk,       \* the targets
  temp,       \* the outputs whose temporary file exists
  backup,     \* the .bak files
  pc,         \* where the attempt is
  payload,    \* what the attempt publishes
  cursor,     \* next output to stage
  staged,     \* self._staged
  committed,  \* self._committed
  undo,       \* what the running rollback() has still to restore
  sweep,      \* what the running rollback() has still to clean up
  nested,     \* is rollback() running inside commit()'s except clause?
  before,     \* history: the targets when the attempt began
  outcome,    \* history: how the last attempt ended
  faulted     \* history: did a rollback() of this attempt raise?

fileVars == <<disk, temp, backup>>
txnVars == <<payload, cursor, staged, committed>>
rollbackVars == <<undo, sweep, nested>>
historyVars == <<before, outcome, faulted>>
vars == <<fileVars, pc, txnVars, rollbackVars, historyVars>>

Init ==
  /\ disk = [i \in Outputs |-> Absent]
  /\ temp = {}
  /\ backup = [i \in Outputs |-> Absent]
  /\ pc = "idle"
  /\ payload \in Payloads
  /\ cursor = 1
  /\ staged = {}
  /\ committed = {}
  /\ undo = {}
  /\ sweep = {}
  /\ nested = FALSE
  /\ before = disk
  /\ outcome = "none"
  /\ faulted = FALSE

-----------------------------------------------------------------------------
(* Control.                                                                *)

First(i, S) == i \in S /\ \A j \in S : i <= j
Last(i, S) == i \in S /\ \A j \in S : j <= i

Finish(result) == pc' = "idle" /\ outcome' = result

(* Mutant: _committed is cleared before commit() calls rollback().         *)
Mutant_EnterRollback(inCommit) ==
  /\ pc' = "restore"
  /\ undo' = IF inCommit THEN {} ELSE committed
  /\ nested' = inCommit

(* self.rollback(): called by commit() when inCommit, else by publish.     *)
EnterRollback(inCommit) ==
  /\ pc' = "restore"
  /\ undo' = committed
  /\ nested' = inCommit

(* A new call of publish_review_file, in a new transaction object.         *)
Begin(p) ==
  /\ pc = "idle"
  /\ pc' = "stage"
  /\ payload' = p
  /\ cursor' = 1
  /\ staged' = {}
  /\ committed' = {}
  /\ undo' = {}
  /\ sweep' = {}
  /\ nested' = FALSE
  /\ before' = disk
  /\ outcome' = "none"
  /\ faulted' = FALSE
  /\ UNCHANGED fileVars

-----------------------------------------------------------------------------
(* stage_json                                                              *)

(* Mutant: an existing immutable output with other content is no conflict. *)
Mutant_Conflicting(i) == FALSE

AlreadyPublished(i) == i \in Immutable /\ disk[i] = payload[i]
Conflicting(i) == i \in Immutable /\ disk[i] \notin {Absent, payload[i]}

Staging(i) == pc = "stage" /\ i = cursor

Advance(i) ==
  /\ cursor' = i + 1
  /\ pc' = IF i = N THEN "copy" ELSE "stage"

(* The path is no output of this attempt, or holds the immutable output.   *)
StageSkip(i) ==
  /\ Staging(i)
  /\ payload[i] = Absent \/ AlreadyPublished(i)
  /\ Advance(i)
  /\ UNCHANGED <<fileVars, payload, staged, committed, rollbackVars, historyVars>>

StageWrite(i) ==
  /\ Staging(i)
  /\ payload[i] # Absent
  /\ ~ AlreadyPublished(i)
  /\ ~ Conflicting(i)
  /\ temp' = temp \cup {i}
  /\ staged' = staged \cup {i}
  /\ Advance(i)
  /\ UNCHANGED <<disk, backup, payload, committed, rollbackVars, historyVars>>

(* "Refusing to overwrite immutable publication output".                   *)
StageRefuse(i) ==
  /\ Staging(i)
  /\ payload[i] # Absent
  /\ Conflicting(i)
  /\ EnterRollback(FALSE)
  /\ UNCHANGED <<fileVars, txnVars, sweep, historyVars>>

(* write_text raises, perhaps after creating the temporary file.           *)
StageFault(i) ==
  /\ Staging(i)
  /\ payload[i] # Absent
  /\ ~ AlreadyPublished(i)
  /\ ~ Conflicting(i)
  /\ temp' \in {temp, temp \cup {i}}
  /\ EnterRollback(FALSE)
  /\ UNCHANGED <<disk, backup, txnVars, sweep, historyVars>>

-----------------------------------------------------------------------------
(* commit                                                                  *)

Committing(i) == First(i, staged \ committed)

(* Mutant: the file about to be replaced is not backed up.                 *)
Mutant_CopyBackup(i) ==
  /\ pc = "copy"
  /\ Committing(i)
  /\ pc' = "replace"
  /\ UNCHANGED <<fileVars, txnVars, rollbackVars, historyVars>>

CopyBackup(i) ==
  /\ pc = "copy"
  /\ Committing(i)
  /\ backup' = IF disk[i] = Absent THEN backup ELSE [backup EXCEPT ![i] = disk[i]]
  /\ pc' = "replace"
  /\ UNCHANGED <<disk, temp, txnVars, rollbackVars, historyVars>>

(* Mutant: the item is appended to _committed before it is backed up.      *)
Mutant_CopyFault(i) ==
  /\ pc = "copy"
  /\ Committing(i)
  /\ disk[i] # Absent
  /\ \E copy \in {backup[i], Torn, disk[i]} : backup' = [backup EXCEPT ![i] = copy]
  /\ pc' = "restore"
  /\ committed' = committed \cup {i}
  /\ undo' = committed'
  /\ nested' = TRUE
  /\ UNCHANGED <<disk, temp, payload, cursor, staged, sweep, historyVars>>

(* copy2 raises, perhaps after writing part of the copy.                   *)
CopyFault(i) ==
  /\ pc = "copy"
  /\ Committing(i)
  /\ disk[i] # Absent
  /\ \E copy \in {backup[i], Torn, disk[i]} : backup' = [backup EXCEPT ![i] = copy]
  /\ EnterRollback(TRUE)
  /\ UNCHANGED <<disk, temp, txnVars, sweep, historyVars>>

Replace(i) ==
  /\ pc = "replace"
  /\ Committing(i)
  /\ disk' = [disk EXCEPT ![i] = payload[i]]
  /\ temp' = temp \ {i}
  /\ committed' = committed \cup {i}
  /\ pc' = IF staged \subseteq committed' THEN "verify" ELSE "copy"
  /\ UNCHANGED <<backup, payload, cursor, staged, rollbackVars, historyVars>>

(* A rename that raises leaves both names as they were.                    *)
ReplaceFault(i) ==
  /\ pc = "replace"
  /\ Committing(i)
  /\ EnterRollback(TRUE)
  /\ UNCHANGED <<fileVars, txnVars, sweep, historyVars>>

(* publish reads index.json back and validates its hash.                   *)
VerifyOk ==
  /\ pc = "verify"
  /\ Finish("committed")
  /\ UNCHANGED <<fileVars, txnVars, rollbackVars, before, faulted>>

VerifyFault ==
  /\ pc = "verify"
  /\ EnterRollback(FALSE)
  /\ UNCHANGED <<fileVars, txnVars, sweep, historyVars>>

-----------------------------------------------------------------------------
(* rollback                                                                *)

(* Mutant: what was renamed is unlinked, whether it has a backup or not.   *)
Mutant_Restore(i) ==
  /\ pc = "restore"
  /\ Last(i, undo)
  /\ disk' = [disk EXCEPT ![i] = Absent]
  /\ backup' = [backup EXCEPT ![i] = Absent]
  /\ undo' = undo \ {i}
  /\ UNCHANGED <<temp, pc, txnVars, sweep, nested, historyVars>>

(* for item in reversed(self._committed)                                   *)
Restore(i) ==
  /\ pc = "restore"
  /\ Last(i, undo)
  /\ disk' = [disk EXCEPT ![i] = backup[i]]
  /\ backup' = [backup EXCEPT ![i] = Absent]
  /\ undo' = undo \ {i}
  /\ UNCHANGED <<temp, pc, txnVars, sweep, nested, historyVars>>

RestoreDone ==
  /\ pc = "restore"
  /\ undo = {}
  /\ pc' = "cleanup"
  /\ sweep' = staged
  /\ UNCHANGED <<fileVars, txnVars, undo, nested, historyVars>>

(* for item in self._staged: unlink the temporary file and the backup.     *)
Cleanup(i) ==
  /\ pc = "cleanup"
  /\ First(i, sweep)
  /\ temp' = temp \ {i}
  /\ backup' = [backup EXCEPT ![i] = Absent]
  /\ sweep' = sweep \ {i}
  /\ UNCHANGED <<disk, pc, txnVars, undo, nested, historyVars>>

(* Mutant: commit() catches what its own rollback() lets through and tries *)
(* once more.                                                              *)
Mutant_RollbackFault ==
  /\ RollbackFaultAllowed
  /\ \/ pc = "restore" /\ undo # {} /\ temp' = temp
     \/ /\ pc = "cleanup"
        /\ \E i \in sweep : First(i, sweep) /\ temp' \in {temp, temp \ {i}}
  /\ faulted' = TRUE
  /\ IF nested
     THEN pc' = "restore" /\ undo' = committed /\ UNCHANGED <<nested, outcome>>
     ELSE Finish("failed") /\ UNCHANGED <<undo, nested>>
  /\ UNCHANGED <<disk, backup, txnVars, sweep, before>>

(* self._committed.clear(); commit() re-raises into publish's except,      *)
(* which calls rollback() once more.                                       *)
CleanupDone ==
  /\ pc = "cleanup"
  /\ sweep = {}
  /\ committed' = {}
  /\ IF nested
     THEN pc' = "restore" /\ undo' = {} /\ nested' = FALSE /\ UNCHANGED outcome
     ELSE Finish("failed") /\ UNCHANGED <<undo, nested>>
  /\ UNCHANGED <<fileVars, payload, cursor, staged, sweep, before, faulted>>

(* A rename or an unlink of rollback() raises.  Inside commit() the error  *)
(* reaches publish's except clause, which starts rollback() again with     *)
(* _committed as it was; from there it leaves publish.                     *)
RollbackFault ==
  /\ RollbackFaultAllowed
  /\ \/ pc = "restore" /\ undo # {} /\ temp' = temp
     \/ /\ pc = "cleanup"
        /\ \E i \in sweep : First(i, sweep) /\ temp' \in {temp, temp \ {i}}
  /\ faulted' = TRUE
  /\ IF nested
     THEN pc' = "restore" /\ undo' = committed /\ nested' = FALSE /\ UNCHANGED outcome
     ELSE Finish("failed") /\ UNCHANGED <<undo, nested>>
  /\ UNCHANGED <<disk, backup, txnVars, sweep, before>>

-----------------------------------------------------------------------------
(* The process dies; only the files survive it.                            *)
Crash ==
  /\ CrashAllowed
  /\ pc # "idle"
  /\ Finish("crashed")
  /\ UNCHANGED <<fileVars, txnVars, rollbackVars, before, faulted>>

Stage(i) == StageSkip(i) \/ StageWrite(i) \/ StageRefuse(i) \/ StageFault(i)
Commit(i) == CopyBackup(i) \/ CopyFault(i) \/ Replace(i) \/ ReplaceFault(i)
Rollback(i) == Restore(i) \/ Cleanup(i)

Step ==
  \/ \E i \in Outputs : Stage(i) \/ Commit(i) \/ Rollback(i)
  \/ VerifyOk
  \/ VerifyFault
  \/ RestoreDone
  \/ CleanupDone
  \/ RollbackFault

Next ==
  \/ \E p \in Payloads : Begin(p)
  \/ Step
  \/ Crash

Spec == Init /\ [][Next]_vars

(* A process that has begun an attempt and does not die runs it to its end. *)
FairSpec == Spec /\ WF_vars(Step)

-----------------------------------------------------------------------------
(* Properties.                                                             *)

(* The type invariant.  A target is always a whole file: no rollback() of  *)
(* any attempt ever restores a backup that copy2 left torn.                *)
TypeOK ==
  /\ disk \in [Outputs -> Files]
  /\ temp \subseteq Outputs
  /\ backup \in [Outputs -> Files \cup {Torn}]
  /\ pc \in {"idle", "stage", "copy", "replace", "verify", "restore", "cleanup"}
  /\ payload \in Payloads
  /\ cursor \in 1..N + 1
  /\ staged \subseteq Outputs
  /\ committed \subseteq staged
  /\ undo \subseteq committed
  /\ sweep \subseteq staged
  /\ nested \in BOOLEAN
  /\ before \in [Outputs -> Files]
  /\ outcome \in {"none", "committed", "failed", "crashed"}
  /\ faulted \in BOOLEAN

Installed == \A i \in Outputs : payload[i] # Absent => disk[i] = payload[i]

(* "Publication MUST fail without partial registration": the registry has  *)
(* this attempt's content only while every other output of the attempt is  *)
(* in place.  It holds at every point of commit() and rollback(), after a  *)
(* crash and after a rollback() that raised.                               *)
NoPartialRegistration == disk[Registry] # before[Registry] => Installed

(* publish_review_file that returned left every output in place and        *)
(* touched nothing else; one that raised left the targets as it found      *)
(* them, unless a rollback() of it raised too.                             *)
AllOrNothing ==
  /\ outcome = "committed" =>
       disk = [i \in Outputs |-> IF payload[i] = Absent THEN before[i] ELSE payload[i]]
  /\ outcome = "failed" /\ ~ faulted => disk = before

(* No attempt replaces or removes an immutable output that an earlier one  *)
(* left, whatever fails and whenever the process dies.                     *)
ImmutableOutputsKept ==
  [][\A i \in Immutable : pc # "idle" /\ before[i] # Absent => disk'[i] = disk[i]]_vars

(* What an attempt replaced can be had back by hand wherever the attempt   *)
(* stopped, a crash included: the file an output had when the attempt      *)
(* began is its target still, or its complete backup.                      *)
ReplacedFilesRecoverable ==
  ~ faulted =>
    \A i \in Outputs : before[i] # Absent => before[i] \in {disk[i], backup[i]}

(* A rollback gives back what the attempt replaced; it never leaves a path *)
(* empty that held a file when the attempt began.                          *)
RollbackDeletesNothing == \A i \in Outputs : before[i] # Absent => disk[i] # Absent

(* publish_review_file comes to an end: a rollback() that raises inside    *)
(* commit() is run again once, not for ever.                               *)
AttemptsEnd == pc # "idle" ~> pc = "idle"

(* What publishing promises: the outputs of an attempt appear at once.     *)
(* The targets count as seen when the attempt ends.                        *)
Atomic == INSTANCE AtomicPublication WITH
  store <- IF pc = "idle" THEN disk ELSE before

AtomicSpec == Atomic!Spec
=============================================================================
