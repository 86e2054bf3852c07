---------------------------- MODULE Publication ----------------------------
(***************************************************************************)
(* The file based workflow around a publication: drafts are generated from *)
(* policy texts (runner.py), reviews are approved and published            *)
(* (publish.py), and the lifecycle state of a published authority is set   *)
(* (registry.py).  Every operation is one call of a command line process;  *)
(* the processes share nothing but the files.                              *)
(*                                                                         *)
(* A publisher is a process that runs publish_review_file again and again. *)
(* Its steps are the points where it reads or writes a file another        *)
(* process may write: reading the review, reading the generated policy,    *)
(* choosing a publication id, reading the registry, staging, each rename   *)
(* of the commit, and each target restored by a rollback, which may raise  *)
(* and be run again.  The copy and the rename of one output are one step   *)
(* here; PublicationTransaction has them apart.  The operator is a process *)
(* of its own: it reads the registry, and then writes it.                  *)
(*                                                                         *)
(* A policy stands for a text together with the structured policy that     *)
(* extract_constraints makes of it.  A compiled contract is the policy it  *)
(* was compiled from and its lineage.  The other outputs of a publication  *)
(* are functions of the publication: its id, its timestamp, the approval   *)
(* in its deployed review, and its contract.                               *)
(***************************************************************************)
EXTENDS Naturals, Sequences, FiniteSets, Functions

CONSTANTS
  Stems,        \* policies/<stem>.txt
  Policies,     \* what a policy text may say
  RefOf,        \* the contract_id@contract_version a policy compiles to
  Blocked,      \* the policies with an error-severity authoring warning
  Approvers,    \* who may approve a review
  Times,        \* the timestamps, of one day, a call may publish at
  Publishers,   \* the processes that publish
  LifecycleStates, \* the lifecycle states an operator may set
  MaxAttempts,  \* bound: calls of publish_review_file
  Serial,       \* is at most one process running at a time?
  None

ASSUME PolicyAssumption ==
  /\ Blocked \subseteq Policies
  /\ DOMAIN RefOf = Policies
  /\ None \notin Policies

ASSUME BoundAssumption == MaxAttempts \in Nat /\ Serial \in BOOLEAN

VARIABLES
  generated,  \* generated/<stem>.generated.json
  review,     \* reviews/<stem>.review.json
  disk,       \* the outputs of publications: path -> content
  temp,       \* temporary files: <<publication id, path>> -> content
  backup,     \* backups, named like the temporary files
  job,        \* what each process is doing
  attempts,   \* number of calls of publish_review_file so far
  returned,   \* history: the publications a call returned as COMMITTED
  faulted     \* history: the stems of which a rollback raised in commit()

drafts == <<generated, review>>
files == <<disk, temp, backup>>
history == <<returned, faulted>>
vars == <<drafts, files, job, attempts, history>>

Operator == "operator"
Processes == Publishers \cup {Operator}

ASSUME ProcessAssumption == Operator \notin Publishers

Idle == [pc |-> "idle"]

Init ==
  /\ generated = [s \in Stems |-> None]
  /\ review = [s \in Stems |-> None]
  /\ disk = << >>
  /\ temp = << >>
  /\ backup = << >>
  /\ job = [p \in Processes |-> Idle]
  /\ attempts = 0
  /\ returned = {}
  /\ faulted = {}

(* The file x is written, or the key x of a registry is set.               *)
Put(f, x, v) == [y \in DOMAIN f \cup {x} |-> IF y = x THEN v ELSE f[y]]

Exists(path) == path \in DOMAIN disk
NoOtherProcess(p) == Serial => \A q \in Processes \ {p} : job[q] = Idle

-----------------------------------------------------------------------------
(* Drafts.                                                                 *)

(* run_policy_file on a text that says g.  A review that exists is kept.   *)
RunPolicy(s, g) ==
  /\ NoOtherProcess(None)
  /\ generated' = [generated EXCEPT ![s] = g]
  /\ review' = IF review[s] = None
               THEN [review EXCEPT ![s] = [status |-> "pending", source |-> g, approval |-> None]]
               ELSE review
  /\ UNCHANGED <<files, job, attempts, history>>

(* approve_review_file, which passes a pending review through "reviewed"   *)
(* and overwrites the approval of an approved one.                         *)
Approve(s, actor) ==
  /\ NoOtherProcess(None)
  /\ review[s] # None
  /\ review' = [review EXCEPT ![s].status = "approved", ![s].approval = actor]
  /\ UNCHANGED <<generated, files, job, attempts, history>>

-----------------------------------------------------------------------------
(* The outputs of a publication.                                           *)

Index == <<"index", "contracts">>

Ref(pub) == RefOf[pub.contract.policy]
Stem(pub) == pub.contract.stem

(* Mutant: the registry is staged first.                                   *)
Mutant_Outputs(pub) ==
  << Index, <<"contract", Ref(pub)>>, <<"deployed", Stem(pub)>>, <<"snapshot", pub>>,
     <<"manifest", Stem(pub)>>, <<"bundle", Ref(pub)>>, <<"receipt", Ref(pub)>> >>

(* In the order publish_review_file stages them.  The snapshot is named by *)
(* the hash of the deployed review.                                        *)
Outputs(pub) ==
  << <<"contract", Ref(pub)>>, <<"deployed", Stem(pub)>>, <<"snapshot", pub>>,
     <<"manifest", Stem(pub)>>, <<"bundle", Ref(pub)>>, <<"receipt", Ref(pub)>>,
     Index >>

Immutable(path) == path[1] \in {"contract", "manifest", "bundle", "receipt"}

Content(path, pub, registry) ==
  CASE path[1] = "contract" -> pub.contract
    [] path[1] = "index"    -> registry
    [] OTHER                -> pub

-----------------------------------------------------------------------------
(* publish_review_file                                                     *)

(* Mutant: a review that is not approved is published.                     *)
Mutant_Load(p, s, t) ==
  /\ job[p] = Idle
  /\ NoOtherProcess(p)
  /\ attempts < MaxAttempts
  /\ review[s] # None
  /\ review[s].source \notin Blocked
  /\ attempts' = attempts + 1
  /\ job' = [job EXCEPT ![p] =
       [pc |-> "compile", time |-> t, approval |-> review[s].approval,
        source |-> review[s].source, stem |-> s]]
  /\ UNCHANGED <<drafts, files, history>>

(* Reads the review.  A call whose review is not approved or has errors    *)
(* raises before it has touched anything and is no step.                   *)
Load(p, s, t) ==
  /\ job[p] = Idle
  /\ NoOtherProcess(p)
  /\ attempts < MaxAttempts
  /\ review[s] # None
  /\ review[s].status = "approved"
  /\ review[s].source \notin Blocked
  /\ attempts' = attempts + 1
  /\ job' = [job EXCEPT ![p] =
       [pc |-> "compile", time |-> t, approval |-> review[s].approval,
        source |-> review[s].source, stem |-> s]]
  /\ UNCHANGED <<drafts, files, history>>

(* Reads the generated policy and compiles it; the lineage of the contract *)
(* is the review's.  Policies compile: extract_constraints wrote them.     *)
Compile(p) ==
  /\ job[p].pc = "compile"
  /\ generated[job[p].stem] # None
  /\ job' = [job EXCEPT ![p] =
       [pc |-> "identify", time |-> job[p].time, approval |-> job[p].approval,
        contract |-> [policy |-> generated[job[p].stem], source |-> job[p].source,
                      stem |-> job[p].stem]]]
  /\ UNCHANGED <<drafts, files, attempts, history>>

Manifests == {path \in DOMAIN disk : path[1] = "manifest"}

(* Mutant: the sequence counts the manifests.                              *)
Mutant_NextPublicationSequence == 1

(* _next_publication_sequence: one more than the greatest in a manifest.   *)
NextPublicationSequence ==
  LET used == {0} \cup {disk[m].id : m \in Manifests}
  IN 1 + CHOOSE n \in used : \A k \in used : k <= n

(* Mutant: a call that finishes a publication takes a new id.              *)
Mutant_PublicationId(s) == NextPublicationSequence

(* _publication_id: the id in the stem's manifest, or a new one.           *)
PublicationId(s) ==
  IF Exists(<<"manifest", s>>) THEN disk[<<"manifest", s>>].id
  ELSE NextPublicationSequence

Identify(p) ==
  /\ job[p].pc = "identify"
  /\ job' = [job EXCEPT ![p] =
       [pc |-> "register",
        pub |-> [id |-> PublicationId(job[p].contract.stem),
                 time |-> job[p].time,
                 approval |-> job[p].approval,
                 contract |-> job[p].contract]]]
  /\ UNCHANGED <<drafts, files, attempts, history>>

Registry == IF Exists(Index) THEN disk[Index] ELSE << >>

(* validate_registry_identity: contract_hash and bundle_hash.  The bundle  *)
(* holds the manifest, so its hash identifies the publication.             *)
SameIdentity(registry, pub) ==
  Ref(pub) \in DOMAIN registry => registry[Ref(pub)].pub = pub

(* Mutant: the entries of the existing registry are not carried over.      *)
Mutant_ReadRegistry(p) ==
  /\ job[p].pc = "register"
  /\ LET pub == job[p].pub
     IN job' = [job EXCEPT ![p] =
          IF SameIdentity(Registry, pub)
          THEN [pc |-> "stage", pub |-> pub,
                registry |-> Put(<< >>, Ref(pub), [pub |-> pub, state |-> "active"])]
          ELSE Idle]
  /\ UNCHANGED <<drafts, files, attempts, history>>

(* _build_next_registry.  The new entry is always "active".                *)
ReadRegistry(p) ==
  /\ job[p].pc = "register"
  /\ LET pub == job[p].pub
     IN job' = [job EXCEPT ![p] =
          IF SameIdentity(Registry, pub)
          THEN [pc |-> "stage", pub |-> pub,
                registry |-> Put(Registry, Ref(pub), [pub |-> pub, state |-> "active"])]
          ELSE Idle]
  /\ UNCHANGED <<drafts, files, attempts, history>>

Conflict(path, content) == Immutable(path) /\ Exists(path) /\ disk[path] # content
Confirmed(path, content) == Immutable(path) /\ Exists(path) /\ disk[path] = content

Places(pub) == DOMAIN Outputs(pub)

Named(id, path) == <<id, path>>

(* What the call p publishes at a path.                                    *)
Payload(p, path) == Content(path, job[p].pub, job[p].registry)

(* Of the outputs at places S, those stage_json writes, and those it       *)
(* refuses to.                                                             *)
ToStage(p, S) ==
  {i \in S : LET path == Outputs(job[p].pub)[i] IN ~ Confirmed(path, Payload(p, path))}
Refused(p, S) ==
  {i \in S : LET path == Outputs(job[p].pub)[i] IN Conflict(path, Payload(p, path))}

(* The files of the transaction of pub for the outputs at places S.        *)
NamesOf(pub, S) == {Named(pub.id, Outputs(pub)[i]) : i \in S}

Written(p, S) ==
  LET names == NamesOf(job[p].pub, S)
  IN [n \in names \cup DOMAIN temp |->
        IF n \in names THEN Payload(p, n[2]) ELSE temp[n]]

(* stage_json for every output.  Staged are the places of the outputs that *)
(* will be written.                                                        *)
Stage(p) ==
  /\ job[p].pc = "stage"
  /\ Refused(p, Places(job[p].pub)) = {}
  /\ LET staged == ToStage(p, Places(job[p].pub))
     IN /\ temp' = Written(p, staged)
        /\ job' = [job EXCEPT ![p] =
             [pc |-> "commit", pub |-> job[p].pub, staged |-> staged, committed |-> {}]]
  /\ UNCHANGED <<drafts, disk, backup, attempts, history>>

(* The call of publish_review_file is in rollback().                       *)
InRollback(pub, staged, committed, nested) ==
  [pc |-> "rollback", pub |-> pub, staged |-> staged, committed |-> committed,
   undo |-> committed, nested |-> nested]

(* stage_json raises at place i: an immutable output with other content is *)
(* there, or a file operation fails.  The outputs before it are staged.    *)
StageFault(p) ==
  /\ job[p].pc = "stage"
  /\ \E i \in Places(job[p].pub) :
       /\ Refused(p, 1..i - 1) = {}
       /\ temp' = Written(p, ToStage(p, 1..i - 1))
       /\ job' = [job EXCEPT ![p] = InRollback(job[p].pub, ToStage(p, 1..i - 1), {}, FALSE)]
  /\ UNCHANGED <<drafts, disk, backup, attempts, history>>

(* The output that commit() comes to next.                                 *)
Committing(p, i) ==
  /\ i \in job[p].staged \ job[p].committed
  /\ \A j \in job[p].staged \ job[p].committed : i <= j

(* One round of commit()'s loop.                                           *)
Commit(p) ==
  /\ job[p].pc = "commit"
  /\ \E i \in job[p].staged :
       /\ Committing(p, i)
       /\ LET path == Outputs(job[p].pub)[i]
              name == Named(job[p].pub.id, path)
          IN /\ name \in DOMAIN temp
             /\ backup' = IF Exists(path) THEN Put(backup, name, disk[path]) ELSE backup
             /\ disk' = Put(disk, path, temp[name])
             /\ temp' = Restrict(temp, DOMAIN temp \ {name})
       /\ job' = [job EXCEPT ![p].committed = @ \cup {i}]
  /\ UNCHANGED <<drafts, attempts, history>>

(* An operation of commit() raises, or the validation after it; a          *)
(* temporary file that another process took is one reason to.  The         *)
(* rollback is nested in commit() unless commit() was done.                *)
Fail(p) ==
  /\ job[p].pc = "commit"
  /\ job' = [job EXCEPT ![p] =
       InRollback(job[p].pub, job[p].staged, job[p].committed, job[p].committed # job[p].staged)]
  /\ UNCHANGED <<drafts, files, attempts, history>>

(* One round of the first loop of rollback(), from the last output back: a *)
(* backup becomes the target again, without one the target is unlinked.    *)
Undo(p) ==
  /\ job[p].pc = "rollback"
  /\ \E i \in job[p].undo :
       /\ \A j \in job[p].undo : j <= i
       /\ LET path == Outputs(job[p].pub)[i]
              name == Named(job[p].pub.id, path)
          IN /\ disk' = IF name \in DOMAIN backup THEN Put(disk, path, backup[name])
                        ELSE Restrict(disk, DOMAIN disk \ {path})
             /\ backup' = Restrict(backup, DOMAIN backup \ {name})
       /\ job' = [job EXCEPT ![p].undo = @ \ {i}]
  /\ UNCHANGED <<drafts, temp, attempts, history>>

(* The second loop unlinks the temporary files and backups, and _committed *)
(* is cleared: if publish_review_file runs a rollback again, it finds      *)
(* nothing to do.                                                          *)
Sweep(p) ==
  /\ job[p].pc = "rollback"
  /\ job[p].undo = {}
  /\ LET names == NamesOf(job[p].pub, job[p].staged)
     IN /\ temp' = Restrict(temp, DOMAIN temp \ names)
        /\ backup' = Restrict(backup, DOMAIN backup \ names)
  /\ job' = [job EXCEPT ![p] = Idle]
  /\ UNCHANGED <<drafts, disk, attempts, history>>

(* rollback() raises: in its first loop, or in the second at place n.      *)
(* Nested in commit(), it is run again with _committed as it was;          *)
(* otherwise the call ends.                                                *)
RollbackFault(p) ==
  /\ job[p].pc = "rollback"
  /\ \/ job[p].undo # {} /\ UNCHANGED <<temp, backup>>
     \/ /\ job[p].undo = {}
        /\ \E n \in job[p].staged :
             LET names == NamesOf(job[p].pub, {i \in job[p].staged : i < n})
             IN /\ temp' = Restrict(temp, DOMAIN temp \ names)
                /\ backup' = Restrict(backup, DOMAIN backup \ names)
  /\ IF job[p].nested
     THEN /\ job' = [job EXCEPT ![p] =
                InRollback(job[p].pub, job[p].staged, job[p].committed, FALSE)]
          /\ faulted' = faulted \cup {Stem(job[p].pub)}
     ELSE job' = [job EXCEPT ![p] = Idle] /\ UNCHANGED faulted
  /\ UNCHANGED <<drafts, disk, attempts, returned>>

Return(p) ==
  /\ job[p].pc = "commit"
  /\ job[p].committed = job[p].staged
  /\ returned' = returned \cup {job[p].pub}
  /\ job' = [job EXCEPT ![p] = Idle]
  /\ UNCHANGED <<drafts, files, attempts, faulted>>

(* The process dies.                                                       *)
Crash(p) ==
  /\ job[p] # Idle
  /\ job' = [job EXCEPT ![p] = Idle]
  /\ UNCHANGED <<drafts, files, attempts, history>>

-----------------------------------------------------------------------------
(* update_contract_registry with the identity the registry has for ref and *)
(* another lifecycle_state.  It reads the registry and replaces it by what *)
(* it read with the new entry, without a lock.  An operator who dies in    *)
(* between has done nothing; one who dies while index.json is written is   *)
(* not modelled.                                                           *)
ReadForUpdate(ref, state) ==
  /\ job[Operator] = Idle
  /\ NoOtherProcess(Operator)
  /\ ref \in DOMAIN Registry
  /\ Registry[ref].state # state
  /\ job' = [job EXCEPT ![Operator] =
               [pc |-> "update", registry |-> [Registry EXCEPT ![ref].state = state]]]
  /\ UNCHANGED <<drafts, files, attempts, history>>

WriteUpdate ==
  /\ job[Operator] # Idle
  /\ disk' = Put(disk, Index, job[Operator].registry)
  /\ job' = [job EXCEPT ![Operator] = Idle]
  /\ UNCHANGED <<drafts, temp, backup, attempts, history>>

Publish(p) ==
  \/ \E s \in Stems, t \in Times : Load(p, s, t)
  \/ Compile(p)
  \/ Identify(p)
  \/ ReadRegistry(p)
  \/ Stage(p)
  \/ StageFault(p)
  \/ Commit(p)
  \/ Fail(p)
  \/ Undo(p)
  \/ Sweep(p)
  \/ RollbackFault(p)
  \/ Return(p)
  \/ Crash(p)

Next ==
  \/ \E s \in Stems, g \in Policies : RunPolicy(s, g)
  \/ \E s \in Stems, actor \in Approvers : Approve(s, actor)
  \/ \E p \in Publishers : Publish(p)
  \/ \E ref \in Range(RefOf), state \in LifecycleStates :
       ReadForUpdate(ref, state)
  \/ WriteUpdate

Spec == Init /\ [][Next]_vars

-----------------------------------------------------------------------------
(* Properties.                                                             *)

Publication == [id : Nat, time : Times, approval : Approvers,
                contract : [policy : Policies, source : Policies, stem : Stems]]

TypeOK ==
  /\ generated \in [Stems -> Policies \cup {None}]
  /\ review \in [Stems -> [status : {"pending", "approved"}, source : Policies,
                         approval : Approvers \cup {None}] \cup {None}]
  /\ \A path \in DOMAIN disk \ {Index} :
       disk[path] \in IF path[1] = "contract" THEN [policy : Policies, source : Policies, stem : Stems]
                      ELSE Publication
  /\ DOMAIN Registry \subseteq Range(RefOf)
  /\ \A p \in Publishers :
       job[p].pc \in {"idle", "compile", "identify", "register", "stage", "commit", "rollback"}
  /\ job[Operator].pc \in {"idle", "update"}
  /\ attempts \in 0..MaxAttempts
  /\ returned \subseteq Publication
  /\ faulted \subseteq Stems

(* A registered authority is complete: the contract, the deployed review,  *)
(* the snapshot, the manifest, the bundle and the receipt its entry stands *)
(* for are all on disk and are all of the publication it names.  This      *)
(* holds between any two renames and unlinks, so a reader of the registry  *)
(* never meets an entry whose files are missing, after a crash neither.    *)
(* The deployed review and the snapshot are not claimed for a policy file  *)
(* of which a rollback raised within commit(): it is run again and unlinks *)
(* what it had restored (RollbackDeletesNothing of PublicationTransaction  *)
(* shows it).                                                              *)
RegisteredIsComplete ==
  \A ref \in DOMAIN Registry :
    LET pub == Registry[ref].pub
    IN /\ Ref(pub) = ref
       /\ \A i \in DOMAIN Outputs(pub) :
            LET path == Outputs(pub)[i]
            IN \/ Exists(path) /\ (path # Index => disk[path] = Content(path, pub, << >>))
               \/ path[1] \in {"deployed", "snapshot"} /\ Stem(pub) \in faulted

(* What a call returned as COMMITTED stays resolvable under its reference, *)
(* with the same contract and bundle, whatever is published, refused,      *)
(* rolled back or interrupted later.                                       *)
ReturnedStaysRegistered ==
  \A pub \in returned :
    /\ Ref(pub) \in DOMAIN Registry
    /\ Registry[Ref(pub)].pub = pub

(* Two publications never share a publication id, the ones of interrupted  *)
(* calls included.                                                         *)
PublicationIdsDistinct ==
  \A m, n \in Manifests : m # n => disk[m].id # disk[n].id

(* A publication that was interrupted once its manifest was in place can   *)
(* be finished by publishing the same review at the same timestamp again:  *)
(* no other publication, of this stem or of another, stands in its way.    *)
InterruptedCanBeFinished ==
  (\A p \in Publishers : job[p] = Idle) =>
    \A m \in Manifests :
      LET pub == disk[m]
      IN /\ SameIdentity(Registry, pub)
         /\ PublicationId(Stem(pub)) = pub.id
         /\ \A i \in DOMAIN Outputs(pub) :
              ~ Conflict(Outputs(pub)[i], Content(Outputs(pub)[i], pub, << >>))

(* The lineage of a registered contract is that of its policy: the source  *)
(* text its review was approved for is the text it was compiled from.      *)
LineageIsOfThePolicy ==
  \A ref \in DOMAIN Registry :
    Registry[ref].pub.contract.policy = Registry[ref].pub.contract.source

(* A lifecycle state other than "active" is an operator's decision and is  *)
(* not undone by publishing the same authority again.                      *)
LifecycleStateKept ==
  [][\A ref \in DOMAIN Registry \cap DOMAIN Registry' :
       (\E p \in Publishers : Commit(p)) => Registry'[ref].state = Registry[ref].state]_vars
=============================================================================
