-------------------------- MODULE PublicationProofs --------------------------
(***************************************************************************)
(* Theorems about the workflow around a publication, for any policy files, *)
(* policies, publishers and calls.                                         *)
(***************************************************************************)
EXTENDS Publication, FiniteMaxima, TLAPS

-----------------------------------------------------------------------------
(* Types: what every file may hold and what a process may be doing,        *)
(* whatever runs at the same time.                                         *)

Refs == Range(RefOf)
Contracts == [policy : Policies, source : Policies, stem : Stems]
Entries == [pub : Publication, state : LifecycleStates \cup {"active"}]

IsRegistry(r) == r \in [DOMAIN r -> Entries] /\ DOMAIN r \subseteq Refs

Paths ==
  {Index} \cup ({"contract", "bundle", "receipt"} \X Refs)
    \cup ({"deployed", "manifest"} \X Stems) \cup ({"snapshot"} \X Publication)

(* c may be what is at path.                                               *)
MayHold(path, c) ==
  /\ path \in Paths
  /\ path = Index => IsRegistry(c)
  /\ path # Index /\ path[1] = "contract" => c \in Contracts
  /\ path # Index /\ path[1] # "contract" => c \in Publication

Reading == [pc : {"compile"}, time : Times, approval : Approvers,
            source : Policies, stem : Stems]
Compiled == [pc : {"identify"}, time : Times, approval : Approvers, contract : Contracts]
Identified == [pc : {"register"}, pub : Publication]
Committed == [pc : {"commit"}, pub : Publication, staged : SUBSET (1..7),
              committed : SUBSET (1..7)]
RollingBack == [pc : {"rollback"}, pub : Publication, staged : SUBSET (1..7),
                committed : SUBSET (1..7), undo : SUBSET (1..7), nested : BOOLEAN]

PublisherJob(j) ==
  \/ j = Idle
  \/ j \in Reading
  \/ j \in Compiled
  \/ j \in Identified
  \/ /\ j.pc = "stage" /\ j = [pc |-> j.pc, pub |-> j.pub, registry |-> j.registry]
     /\ j.pub \in Publication /\ IsRegistry(j.registry)
  \/ j \in Committed
  \/ j \in RollingBack

OperatorJob(j) ==
  \/ j = Idle
  \/ /\ j.pc = "update" /\ j = [pc |-> j.pc, registry |-> j.registry]
     /\ IsRegistry(j.registry)

DraftsTyped ==
  /\ generated \in [Stems -> Policies \cup {None}]
  /\ review \in [Stems -> [status : {"pending", "approved"}, source : Policies,
                         approval : Approvers \cup {None}] \cup {None}]
  /\ \A s \in Stems : review[s] # None /\ review[s].status = "approved" =>
       review[s].approval \in Approvers

IsFunction(f) == f = [x \in DOMAIN f |-> f[x]]

FilesTyped ==
  /\ \A path \in DOMAIN disk : MayHold(path, disk[path])
  /\ \A n \in DOMAIN temp : MayHold(n[2], temp[n])
  /\ \A n \in DOMAIN backup : MayHold(n[2], backup[n])
  /\ IsFiniteSet(DOMAIN disk)
  /\ IsFunction(disk)

JobsTyped ==
  /\ job = [p \in Processes |-> job[p]]
  /\ \A p \in Publishers : PublisherJob(job[p])
  /\ OperatorJob(job[Operator])

CountsTyped ==
  attempts \in 0..MaxAttempts /\ returned \subseteq Publication /\ faulted \subseteq Stems

Typed == DraftsTyped /\ FilesTyped /\ JobsTyped /\ CountsTyped

-----------------------------------------------------------------------------
(* Facts about the operators.                                              *)

LEMMA PutFacts ==
  ASSUME NEW f, NEW x, NEW v
  PROVE  /\ DOMAIN Put(f, x, v) = DOMAIN f \cup {x}
         /\ Put(f, x, v)[x] = v
         /\ \A y \in DOMAIN f : y # x => Put(f, x, v)[y] = f[y]
BY DEF Put

(* A file is backed up if it is there.                                     *)
LEMMA BackedUp ==
  ASSUME NEW b, NEW d, NEW path, NEW name, NEW c,
         c = IF path \in DOMAIN d THEN Put(b, name, d[path]) ELSE b
  PROVE  /\ \A n : n # name => (n \in DOMAIN c <=> n \in DOMAIN b)
         /\ \A n \in DOMAIN b : n # name => c[n] = b[n]
         /\ path \in DOMAIN d => name \in DOMAIN c /\ c[name] = d[path]
         /\ path \notin DOMAIN d => c = b
<1>1. CASE path \in DOMAIN d
  BY <1>1 DEF Put
<1>2. CASE path \notin DOMAIN d
  BY <1>2
<1> QED
  BY <1>1, <1>2

LEMMA PutIsFunction ==
  ASSUME NEW f, NEW x, NEW v
  PROVE  IsFunction(Put(f, x, v))
BY DEF Put, IsFunction

LEMMA RestrictFacts ==
  ASSUME NEW f, NEW S
  PROVE  /\ DOMAIN Restrict(f, S) = S
         /\ \A y \in S : Restrict(f, S)[y] = f[y]
BY DEF Restrict

LEMMA PutMayHold ==
  ASSUME NEW f, NEW k, NEW v
  PROVE  /\ MayHold(k, v) /\ (\A x \in DOMAIN f : MayHold(x, f[x])) =>
              \A x \in DOMAIN Put(f, k, v) : MayHold(x, Put(f, k, v)[x])
         /\ MayHold(k[2], v) /\ (\A x \in DOMAIN f : MayHold(x[2], f[x])) =>
              \A x \in DOMAIN Put(f, k, v) : MayHold(x[2], Put(f, k, v)[x])
BY DEF Put

(* A call is in one of its steps, and holds what the step needs.           *)
LEMMA JobCases ==
  ASSUME NEW j, PublisherJob(j)
  PROVE  /\ j.pc \in {"idle", "compile", "identify", "register", "stage", "commit", "rollback"}
         /\ j.pc = "idle" <=> j = Idle
         /\ j.pc = "compile" =>
              /\ j.time \in Times /\ j.approval \in Approvers
              /\ j.source \in Policies /\ j.stem \in Stems
         /\ j.pc = "identify" =>
              /\ j.time \in Times /\ j.approval \in Approvers /\ j.contract \in Contracts
         /\ j.pc \in {"register", "stage", "commit", "rollback"} => j.pub \in Publication
         /\ j.pc = "stage" => IsRegistry(j.registry)
         /\ j.pc = "commit" =>
              /\ j.staged \subseteq 1..7 /\ j.committed \subseteq 1..7
              /\ j = [pc |-> "commit", pub |-> j.pub, staged |-> j.staged,
                      committed |-> j.committed]
         /\ j.pc = "rollback" =>
              /\ j.staged \subseteq 1..7 /\ j.committed \subseteq 1..7 /\ j.undo \subseteq 1..7
              /\ j.nested \in BOOLEAN
              /\ j = [pc |-> "rollback", pub |-> j.pub, staged |-> j.staged,
                      committed |-> j.committed, undo |-> j.undo, nested |-> j.nested]
<1>1. CASE j = Idle
  BY <1>1 DEF Idle
<1>2. CASE j \in Reading
  BY <1>2 DEF Idle, Reading
<1>3. CASE j \in Compiled
  BY <1>3 DEF Idle, Compiled
<1>4. CASE j \in Identified
  BY <1>4 DEF Idle, Identified
<1>5. CASE /\ j.pc = "stage" /\ j = [pc |-> j.pc, pub |-> j.pub, registry |-> j.registry]
           /\ j.pub \in Publication /\ IsRegistry(j.registry)
  BY <1>5 DEF Idle
<1>6. CASE j \in Committed
  BY <1>6 DEF Idle, Committed
<1>7. CASE j \in RollingBack
  BY <1>7 DEF Idle, RollingBack
<1> QED
  BY <1>1, <1>2, <1>3, <1>4, <1>5, <1>6, <1>7 DEF PublisherJob

(* The outputs of a publication, by their places.                          *)
LEMMA OutputsAre ==
  ASSUME NEW pub
  PROVE  /\ Places(pub) = 1..7
         /\ DOMAIN Outputs(pub) = 1..7
         /\ Outputs(pub)[1] = <<"contract", Ref(pub)>>
         /\ Outputs(pub)[2] = <<"deployed", Stem(pub)>>
         /\ Outputs(pub)[3] = <<"snapshot", pub>>
         /\ Outputs(pub)[4] = <<"manifest", Stem(pub)>>
         /\ Outputs(pub)[5] = <<"bundle", Ref(pub)>>
         /\ Outputs(pub)[6] = <<"receipt", Ref(pub)>>
         /\ Outputs(pub)[7] = Index
BY DEF Outputs, Places

LEMMA PublicationParts ==
  ASSUME NEW pub \in Publication
  PROVE  /\ pub.id \in Nat /\ pub.contract \in Contracts
         /\ Stem(pub) \in Stems /\ Ref(pub) \in Refs
BY PolicyAssumption DEF Publication, Contracts, Stem, Ref, Refs, Range

LEMMA OutputsInPaths ==
  ASSUME NEW pub \in Publication, NEW i \in 1..7
  PROVE  Outputs(pub)[i] \in Paths
<1>1. i \in {1, 2, 3, 4, 5, 6, 7}
  OBVIOUS
<1>2. Stem(pub) \in Stems /\ Ref(pub) \in Refs
  BY PublicationParts
<1>3. CASE i \in {1, 5, 6}
  BY <1>2, <1>3, OutputsAre DEF Paths
<1>4. CASE i \in {2, 4}
  BY <1>2, <1>4, OutputsAre DEF Paths
<1>5. CASE i \in {3, 7}
  BY <1>5, OutputsAre DEF Paths
<1> QED
  BY <1>1, <1>3, <1>4, <1>5

LEMMA ContentFits ==
  ASSUME NEW pub \in Publication, NEW r, IsRegistry(r), NEW i \in 1..7
  PROVE  MayHold(Outputs(pub)[i], Content(Outputs(pub)[i], pub, r))
<1>1. i \in {1, 2, 3, 4, 5, 6, 7}
  OBVIOUS
<1>2. CASE i = 1
  BY <1>2, OutputsAre, PublicationParts, OutputsInPaths DEF MayHold, Content, Index
<1>3. CASE i = 7
  BY <1>3, OutputsAre, OutputsInPaths DEF MayHold, Content, Index
<1>4. CASE i \in {2, 3, 4, 5, 6}
  <2>1. Outputs(pub)[i][1] \notin {"contract", "index"} /\ Outputs(pub)[i] # Index
    BY <1>4, OutputsAre DEF Index
  <2> QED
    BY <2>1, OutputsInPaths DEF MayHold, Content
<1> QED
  BY <1>1, <1>2, <1>3, <1>4

(* A manifest has the id of a publication, and a new id is greater than    *)
(* all of them.                                                            *)
LEMMA ManifestTyped ==
  ASSUME FilesTyped, NEW m \in Manifests
  PROVE  m \in DOMAIN disk /\ disk[m] \in Publication /\ disk[m].id \in Nat
<1>1. m \in DOMAIN disk /\ m[1] = "manifest"
  BY DEF Manifests
<1>2. m # Index
  BY <1>1 DEF Index
<1>3. disk[m] \in Publication
  BY <1>1, <1>2 DEF FilesTyped, MayHold
<1> QED
  BY <1>1, <1>3, PublicationParts

LEMMA NewId ==
  ASSUME FilesTyped
  PROVE  /\ NextPublicationSequence \in Nat
         /\ \A m \in Manifests : disk[m].id < NextPublicationSequence
<1> DEFINE ids == {disk[m].id : m \in Manifests}
           used == {0} \cup ids
           f == [m \in Manifests |-> disk[m].id]
<1>1. IsFiniteSet(Manifests)
  <2>1. Manifests \subseteq DOMAIN disk
    BY DEF Manifests
  <2> QED
    BY <2>1, FS_Subset DEF FilesTyped
<1>2. IsFiniteSet(ids)
  <2>1. DOMAIN f = Manifests /\ ids = {f[m] : m \in Manifests}
    OBVIOUS
  <2> HIDE DEF f, ids
  <2> QED
    BY <1>1, <2>1, FiniteImage
<1>3. ids \subseteq Nat
  BY ManifestTyped
<1>4. IsFiniteSet(used) /\ used \subseteq Nat /\ used # {}
  <2> HIDE DEF ids
  <2>1. IsFiniteSet({0})
    BY FS_Singleton
  <2>2. IsFiniteSet(used)
    BY <1>2, <2>1, FS_Union
  <2>3. used \subseteq Nat /\ used # {}
    BY <1>3
  <2> QED
    BY <2>2, <2>3
<1>5. PICK n \in used : \A k \in used : k <= n
  <2> HIDE DEF used
  <2> QED BY <1>4, Maximum
<1> DEFINE top == CHOOSE x \in used : \A k \in used : k <= x
<1>6. top \in used /\ \A k \in used : k <= top
  <2> HIDE DEF used
  <2> QED BY <1>5
<1>7. NextPublicationSequence = 1 + top
  BY DEF NextPublicationSequence
<1>8. top \in Nat
  <2> HIDE DEF used, top
  <2> QED BY <1>4, <1>6
<1>9. \A m \in Manifests : disk[m].id \in Nat /\ disk[m].id <= top
  <2> HIDE DEF top
  <2> QED BY <1>6, ManifestTyped
<1> HIDE DEF top, used, ids
<1> QED
  BY <1>7, <1>8, <1>9

LEMMA RegistryTyped ==
  ASSUME FilesTyped
  PROVE  IsRegistry(Registry)
<1>1. CASE Exists(Index)
  BY <1>1 DEF Exists, FilesTyped, MayHold, Registry
<1>2. CASE ~ Exists(Index)
  <2>1. Registry = << >> /\ DOMAIN << >> = {}
    BY <1>2 DEF Registry
  <2>2. << >> \in [{} -> Entries]
    OBVIOUS
  <2> QED
    BY <2>1, <2>2 DEF IsRegistry
<1> QED
  BY <1>1, <1>2

(* An entry is set in a registry, or its state is.                         *)
LEMMA RegistryPut ==
  ASSUME NEW r, IsRegistry(r), NEW ref \in Refs, NEW e \in Entries
  PROVE  IsRegistry(Put(r, ref, e))
<1> DEFINE q == Put(r, ref, e)
<1>1. DOMAIN q = DOMAIN r \cup {ref} /\ q = [y \in DOMAIN r \cup {ref} |-> q[y]]
  BY DEF Put
<1>2. \A y \in DOMAIN r \cup {ref} : q[y] \in Entries
  BY DEF Put, IsRegistry
<1> HIDE DEF q
<1>3. q \in [DOMAIN q -> Entries]
  BY <1>1, <1>2
<1>4. IsRegistry(q)
  BY <1>1, <1>3 DEF IsRegistry
<1> QED
  BY <1>4 DEF q

LEMMA RegistryState ==
  ASSUME NEW r, IsRegistry(r), NEW ref \in DOMAIN r, NEW s \in LifecycleStates
  PROVE  /\ IsRegistry([r EXCEPT ![ref].state = s])
         /\ DOMAIN [r EXCEPT ![ref].state = s] = DOMAIN r
         /\ \A x \in DOMAIN r : [r EXCEPT ![ref].state = s][x].pub = r[x].pub
<1>1. r \in [DOMAIN r -> Entries] /\ DOMAIN r \subseteq Refs
  BY DEF IsRegistry
<1>2. [r[ref] EXCEPT !.state = s] \in Entries /\ [r[ref] EXCEPT !.state = s].pub = r[ref].pub
  BY <1>1 DEF Entries
<1> DEFINE q == [r EXCEPT ![ref].state = s]
<1>3. DOMAIN q = DOMAIN r /\ q \in [DOMAIN r -> Entries]
  BY <1>1, <1>2
<1>4. \A x \in DOMAIN r : q[x].pub = r[x].pub
  BY <1>1, <1>2
<1> HIDE DEF q
<1>5. IsRegistry(q)
  BY <1>1, <1>3 DEF IsRegistry
<1> QED
  BY <1>3, <1>4, <1>5 DEF q

-----------------------------------------------------------------------------
(* Every step keeps the types.                                             *)

LEMMA InitTyped == Init => Typed
<1> SUFFICES ASSUME Init PROVE Typed
  OBVIOUS
<1>1. DraftsTyped
  BY DEF Init, DraftsTyped
<1>2. DOMAIN << >> = {}
  OBVIOUS
<1>3. FilesTyped
  <2>1. IsFunction(<< >>)
    BY DEF IsFunction
  <2> QED
    BY <1>2, <2>1, FS_EmptySet DEF Init, FilesTyped
<1>4. JobsTyped
  <2>1. job = [p \in Processes |-> Idle]
    BY DEF Init
  <2> QED
    BY <2>1 DEF JobsTyped, PublisherJob, OperatorJob, Processes
<1>5. CountsTyped
  BY BoundAssumption DEF Init, CountsTyped
<1> QED
  BY <1>1, <1>3, <1>4, <1>5 DEF Typed

LEMMA JobSet ==
  ASSUME JobsTyped, NEW p \in Processes, NEW j, job' = [job EXCEPT ![p] = j],
         p \in Publishers => PublisherJob(j), p = Operator => OperatorJob(j)
  PROVE  /\ JobsTyped'
         /\ job'[p] = j
         /\ \A q \in Processes \ {p} : job'[q] = job[q]
<1>1. DOMAIN job = Processes
  BY DEF JobsTyped
<1>2. job'[p] = j /\ \A q \in Processes \ {p} : job'[q] = job[q]
  BY <1>1
<1>3. job' = [q \in Processes |-> job'[q]]
  BY <1>1
<1>4. \A q \in Publishers : PublisherJob(job'[q])
  BY <1>2 DEF JobsTyped, Processes
<1>5. OperatorJob(job'[Operator])
  BY <1>2 DEF JobsTyped, Processes
<1> QED
  BY <1>2, <1>3, <1>4, <1>5 DEF JobsTyped

LEMMA RunPolicyTyped ==
  ASSUME Typed, NEW s \in Stems, NEW g \in Policies, RunPolicy(s, g)
  PROVE  Typed'
<1>1. DraftsTyped'
  <2>1. generated' \in [Stems -> Policies \cup {None}]
    BY DEF Typed, DraftsTyped, RunPolicy
  <2> DEFINE new == [status |-> "pending", source |-> g, approval |-> None]
  <2>2. new \in [status : {"pending", "approved"}, source : Policies, approval : Approvers \cup {None}]
        /\ new.status # "approved"
    OBVIOUS
  <2>3. review' = IF review[s] = None THEN [review EXCEPT ![s] = new] ELSE review
    BY DEF RunPolicy
  <2> HIDE DEF new
  <2> QED
    BY <2>1, <2>2, <2>3 DEF Typed, DraftsTyped
<1>2. UNCHANGED <<files, job, attempts, history>>
  BY DEF RunPolicy
<1> QED
  BY <1>1, <1>2 DEF Typed, FilesTyped, JobsTyped, CountsTyped, history, files

LEMMA ApproveTyped ==
  ASSUME Typed, NEW s \in Stems, NEW actor \in Approvers, Approve(s, actor)
  PROVE  Typed'
<1>1. DraftsTyped'
  <2> DEFINE R == [status : {"pending", "approved"}, source : Policies,
                   approval : Approvers \cup {None}]
             new == [review[s] EXCEPT !.status = "approved", !.approval = actor]
  <2>1. review \in [Stems -> R \cup {None}] /\ review[s] \in R
    BY DEF Approve, Typed, DraftsTyped
  <2>2. new \in R /\ new.approval \in Approvers
    BY <2>1
  <2>3. review' = [review EXCEPT ![s] = new] /\ generated' = generated
    BY <2>1 DEF Approve
  <2> HIDE DEF new
  <2>4. review' \in [Stems -> R \cup {None}]
        /\ \A t \in Stems : review'[t] = IF t = s THEN new ELSE review[t]
    BY <2>1, <2>2, <2>3
  <2> QED
    BY <2>2, <2>3, <2>4 DEF Typed, DraftsTyped
<1>2. UNCHANGED <<files, job, attempts, history>>
  BY DEF Approve
<1> QED
  BY <1>1, <1>2 DEF Typed, FilesTyped, JobsTyped, CountsTyped, history, files

(* The steps of a process that change nothing but what it is doing.        *)
LEMMA OnlyJob ==
  ASSUME Typed, UNCHANGED <<drafts, files, attempts, history>>,
         NEW p \in Processes, NEW j, job' = [job EXCEPT ![p] = j],
         p \in Publishers => PublisherJob(j), p = Operator => OperatorJob(j)
  PROVE  Typed'
<1>1. JobsTyped'
  BY JobSet DEF Typed
<1> QED
  BY <1>1 DEF Typed, DraftsTyped, FilesTyped, CountsTyped, history, drafts, files

LEMMA LoadTyped ==
  ASSUME Typed, NEW p \in Publishers, NEW s \in Stems, NEW t \in Times, Load(p, s, t)
  PROVE  Typed'
<1> DEFINE j == [pc |-> "compile", time |-> t, approval |-> review[s].approval,
                 source |-> review[s].source, stem |-> s]
<1>1. review[s].approval \in Approvers /\ review[s].source \in Policies
  BY DEF Typed, DraftsTyped, Load
<1>2. PublisherJob(j)
  BY <1>1 DEF PublisherJob, Reading
<1>3. job' = [job EXCEPT ![p] = j]
  BY DEF Load
<1> HIDE DEF j
<1>4. JobsTyped'
  BY <1>2, <1>3, JobSet, ProcessAssumption DEF Typed, Processes
<1>5. attempts' \in 0..MaxAttempts
  BY BoundAssumption DEF Load, Typed, CountsTyped
<1>6. UNCHANGED <<drafts, files, history>>
  BY DEF Load
<1> QED
  BY <1>4, <1>5, <1>6 DEF Typed, DraftsTyped, FilesTyped, CountsTyped, history, drafts, files

LEMMA CompileTyped ==
  ASSUME Typed, NEW p \in Publishers, Compile(p)
  PROVE  Typed'
<1> DEFINE j == [pc |-> "identify", time |-> job[p].time, approval |-> job[p].approval,
                 contract |-> [policy |-> generated[job[p].stem], source |-> job[p].source,
                               stem |-> job[p].stem]]
<1>1. /\ job[p].time \in Times /\ job[p].approval \in Approvers
      /\ job[p].source \in Policies /\ job[p].stem \in Stems
  BY JobCases DEF Compile, Typed, JobsTyped
<1>2. generated[job[p].stem] \in Policies
  BY <1>1 DEF Compile, Typed, DraftsTyped
<1>3. PublisherJob(j)
  BY <1>1, <1>2 DEF PublisherJob, Compiled, Contracts
<1>4. job' = [job EXCEPT ![p] = j] /\ UNCHANGED <<drafts, files, attempts, history>>
  BY DEF Compile
<1> HIDE DEF j
<1> QED
  BY <1>3, <1>4, OnlyJob, ProcessAssumption DEF Processes

LEMMA PublicationIdTyped ==
  ASSUME FilesTyped, NEW s
  PROVE  PublicationId(s) \in Nat
<1>1. CASE Exists(<<"manifest", s>>)
  <2>1. <<"manifest", s>> \in Manifests
    BY <1>1 DEF Exists, Manifests
  <2> QED
    BY <1>1, <2>1, ManifestTyped DEF PublicationId
<1> QED
  BY <1>1, NewId DEF PublicationId

LEMMA IdentifyTyped ==
  ASSUME Typed, NEW p \in Publishers, Identify(p)
  PROVE  Typed'
<1> DEFINE pub == [id |-> PublicationId(job[p].contract.stem), time |-> job[p].time,
                   approval |-> job[p].approval, contract |-> job[p].contract]
           j == [pc |-> "register", pub |-> pub]
<1>1. job[p].time \in Times /\ job[p].approval \in Approvers /\ job[p].contract \in Contracts
  BY JobCases DEF Identify, Typed, JobsTyped
<1>2. pub \in Publication
  BY <1>1, PublicationIdTyped DEF Publication, Typed, Contracts
<1>3. PublisherJob(j)
  BY <1>2 DEF PublisherJob, Identified
<1>4. job' = [job EXCEPT ![p] = j] /\ UNCHANGED <<drafts, files, attempts, history>>
  BY DEF Identify
<1> HIDE DEF j
<1> QED
  BY <1>3, <1>4, OnlyJob, ProcessAssumption DEF Processes

LEMMA ReadRegistryTyped ==
  ASSUME Typed, NEW p \in Publishers, ReadRegistry(p)
  PROVE  Typed'
<1> DEFINE pub == job[p].pub
           e == [pub |-> pub, state |-> "active"]
           j == [pc |-> "stage", pub |-> pub, registry |-> Put(Registry, Ref(pub), e)]
<1>1. pub \in Publication /\ Ref(pub) \in Refs
  BY JobCases, PublicationParts DEF ReadRegistry, Typed, JobsTyped
<1>2. e \in Entries
  BY <1>1 DEF Entries
<1>3. IsRegistry(Put(Registry, Ref(pub), e))
  <2> HIDE DEF pub, e
  <2> QED BY <1>1, <1>2, RegistryTyped, RegistryPut DEF Typed
<1>4. PublisherJob(j)
  BY <1>1, <1>3 DEF PublisherJob
<1>5. PublisherJob(Idle)
  BY DEF PublisherJob
<1>6. job' = [job EXCEPT ![p] = IF SameIdentity(Registry, pub) THEN j ELSE Idle]
      /\ UNCHANGED <<drafts, files, attempts, history>>
  BY DEF ReadRegistry
<1> HIDE DEF j
<1> QED
  BY <1>4, <1>5, <1>6, OnlyJob, ProcessAssumption DEF Processes

TempOf(pub, i) == Named(pub.id, Outputs(pub)[i])

LEMMA TempIsNamed ==
  ASSUME NEW pub, NEW i
  PROVE  /\ TempOf(pub, i)[2] = Outputs(pub)[i]
         /\ \A j : TempOf(pub, i) = TempOf(pub, j) => Outputs(pub)[i] = Outputs(pub)[j]
BY DEF TempOf, Named

(* What stage_json writes, for the outputs at places S.                    *)
LEMMA WrittenFacts ==
  ASSUME NEW p, NEW S, temp' = Written(p, S)
  PROVE  LET pub == job[p].pub
         IN /\ DOMAIN temp' = {TempOf(pub, i) : i \in S} \cup DOMAIN temp
            /\ \A i \in S : temp'[TempOf(pub, i)] = Payload(p, Outputs(pub)[i])
            /\ \A n \in DOMAIN temp : temp'[n] = temp[n] \/ n \in {TempOf(pub, i) : i \in S}
<1> DEFINE names == {TempOf(job[p].pub, i) : i \in S}
<1>1. temp' = [n \in names \cup DOMAIN temp |->
                 IF n \in names THEN Payload(p, n[2]) ELSE temp[n]]
  BY DEF Written, NamesOf, TempOf
<1>2. \A i \in S : TempOf(job[p].pub, i) \in names
        /\ Payload(p, TempOf(job[p].pub, i)[2]) = Payload(p, Outputs(job[p].pub)[i])
  BY TempIsNamed
<1> HIDE DEF names
<1>3. DOMAIN temp' = names \cup DOMAIN temp
  BY <1>1
<1>4. \A i \in S : temp'[TempOf(job[p].pub, i)] = Payload(p, Outputs(job[p].pub)[i])
  BY <1>1, <1>2
<1>5. \A n \in DOMAIN temp : temp'[n] = temp[n] \/ n \in names
  BY <1>1
<1> QED
  BY <1>3, <1>4, <1>5 DEF names

LEMMA StagedTyped ==
  ASSUME Typed, NEW p \in Publishers, job[p].pc = "stage", NEW S \in SUBSET (1..7),
         temp' = Written(p, S), UNCHANGED <<disk, backup>>
  PROVE  FilesTyped'
<1> DEFINE pub == job[p].pub
           names == {TempOf(pub, i) : i \in S}
<1>1. pub \in Publication /\ IsRegistry(job[p].registry)
  BY JobCases DEF Typed, JobsTyped
<1>2. /\ DOMAIN temp' = names \cup DOMAIN temp
      /\ \A i \in S : temp'[TempOf(pub, i)] = Payload(p, Outputs(pub)[i])
      /\ \A n \in DOMAIN temp : temp'[n] = temp[n] \/ n \in names
  BY WrittenFacts
<1>3. \A i \in S : MayHold(TempOf(pub, i)[2], Payload(p, Outputs(pub)[i]))
  BY <1>1, ContentFits, TempIsNamed DEF Payload
<1>4. \A n \in names : MayHold(n[2], temp'[n])
  BY <1>2, <1>3
<1>5. \A n \in DOMAIN temp' : MayHold(n[2], temp'[n])
  <2> HIDE DEF names
  <2> QED BY <1>2, <1>4 DEF Typed, FilesTyped
<1> QED
  BY <1>5 DEF Typed, FilesTyped

LEMMA StageFacts ==
  ASSUME NEW p, Stage(p)
  PROVE  LET pub == job[p].pub
             staged == ToStage(p, 1..7)
             j == [pc |-> "commit", pub |-> pub, staged |-> staged, committed |-> {}]
         IN /\ job[p].pc = "stage"
            /\ UNCHANGED <<drafts, disk, backup, attempts, history>>
            /\ \A i \in 1..7 : ~ Conflict(Outputs(pub)[i], Payload(p, Outputs(pub)[i]))
            /\ staged \in SUBSET (1..7)
            /\ temp' = Written(p, staged)
            /\ job' = [job EXCEPT ![p] = j]
<1>1. Places(job[p].pub) = 1..7
  BY OutputsAre
<1>2. \A i \in 1..7 : ~ Conflict(Outputs(job[p].pub)[i], Payload(p, Outputs(job[p].pub)[i]))
  BY <1>1 DEF Stage, Refused
<1> QED
  BY <1>1, <1>2 DEF Stage, ToStage

LEMMA StageTyped ==
  ASSUME Typed, NEW p \in Publishers, Stage(p)
  PROVE  Typed'
<1> DEFINE j == [pc |-> "commit", pub |-> job[p].pub, staged |-> ToStage(p, 1..7),
                 committed |-> {}]
<1>1. /\ job[p].pc = "stage" /\ ToStage(p, 1..7) \in SUBSET (1..7)
      /\ temp' = Written(p, ToStage(p, 1..7)) /\ job' = [job EXCEPT ![p] = j]
      /\ UNCHANGED <<drafts, disk, backup, attempts, history>>
  BY StageFacts
<1>2. PublisherJob(j)
  BY <1>1, JobCases DEF PublisherJob, Committed, Typed, JobsTyped
<1> HIDE DEF j
<1>3. JobsTyped'
  BY <1>1, <1>2, JobSet, ProcessAssumption DEF Processes, Typed
<1>4. FilesTyped'
  BY <1>1, StagedTyped
<1> QED
  BY <1>1, <1>3, <1>4 DEF Typed, DraftsTyped, CountsTyped, history, drafts

(* stage_json raised at place i, when the outputs at places S were staged. *)
StageFaultAt(p, i) ==
  /\ job[p].pc = "stage"
  /\ \A k \in 1..i - 1 :
       ~ Conflict(Outputs(job[p].pub)[k], Payload(p, Outputs(job[p].pub)[k]))
  /\ temp' = Written(p, ToStage(p, 1..i - 1))
  /\ job' = [job EXCEPT ![p] =
               [pc |-> "rollback", pub |-> job[p].pub, staged |-> ToStage(p, 1..i - 1),
                committed |-> {}, undo |-> {}, nested |-> FALSE]]
  /\ ToStage(p, 1..i - 1) \in SUBSET (1..7)
  /\ UNCHANGED <<drafts, disk, backup, attempts, history>>

LEMMA StageFaultIsAt ==
  ASSUME NEW p, StageFault(p)
  PROVE  \E i \in 1..7 : StageFaultAt(p, i)
<1>1. Places(job[p].pub) = 1..7
  BY OutputsAre
<1>2. PICK i \in 1..7 :
        /\ Refused(p, 1..i - 1) = {}
        /\ temp' = Written(p, ToStage(p, 1..i - 1))
        /\ job' = [job EXCEPT ![p] = InRollback(job[p].pub, ToStage(p, 1..i - 1), {}, FALSE)]
  BY <1>1 DEF StageFault
<1>3. ToStage(p, 1..i - 1) \in SUBSET (1..7)
  BY DEF ToStage
<1>4. \A k \in 1..i - 1 :
        ~ Conflict(Outputs(job[p].pub)[k], Payload(p, Outputs(job[p].pub)[k]))
  BY <1>2 DEF Refused
<1>5. StageFaultAt(p, i)
  BY <1>2, <1>3, <1>4 DEF StageFaultAt, StageFault, InRollback
<1> QED
  BY <1>5

LEMMA StageFaultTyped ==
  ASSUME Typed, NEW p \in Publishers, StageFault(p)
  PROVE  Typed'
<1>1. PICK i \in 1..7 : StageFaultAt(p, i)
  BY StageFaultIsAt
<1> DEFINE S == ToStage(p, 1..i - 1)
           j == [pc |-> "rollback", pub |-> job[p].pub, staged |-> S,
                 committed |-> {}, undo |-> {}, nested |-> FALSE]
<1>2. /\ job[p].pc = "stage" /\ S \in SUBSET (1..7)
      /\ temp' = Written(p, S) /\ job' = [job EXCEPT ![p] = j]
      /\ UNCHANGED <<drafts, disk, backup, attempts, history>>
  BY <1>1 DEF StageFaultAt
<1>3. PublisherJob(j)
  BY <1>2, JobCases DEF PublisherJob, RollingBack, Typed, JobsTyped
<1> HIDE DEF j, S
<1>4. JobsTyped'
  BY <1>2, <1>3, JobSet, ProcessAssumption DEF Processes, Typed
<1>5. FilesTyped'
  BY <1>2, StagedTyped
<1> QED
  BY <1>2, <1>4, <1>5 DEF Typed, DraftsTyped, CountsTyped, history, drafts

(* One round of commit(), at place i.                                      *)
CommitAt(p, i) ==
  LET pub == job[p].pub
      path == Outputs(pub)[i]
  IN /\ job[p].pc = "commit"
     /\ i \in job[p].staged \ job[p].committed
     /\ \A j \in job[p].staged \ job[p].committed : i <= j
     /\ TempOf(pub, i) \in DOMAIN temp
     /\ backup' = IF Exists(path) THEN Put(backup, TempOf(pub, i), disk[path]) ELSE backup
     /\ disk' = Put(disk, path, temp[TempOf(pub, i)])
     /\ temp' = Restrict(temp, DOMAIN temp \ {TempOf(pub, i)})
     /\ job' = [job EXCEPT ![p].committed = @ \cup {i}]
     /\ UNCHANGED <<drafts, attempts, history>>

LEMMA CommitIsAt ==
  ASSUME NEW p, Commit(p)
  PROVE  \E i \in job[p].staged : CommitAt(p, i)
BY DEF Commit, Committing, CommitAt, TempOf

LEMMA CommitJob ==
  ASSUME JobsTyped, NEW p \in Publishers, NEW i \in 1..7, CommitAt(p, i)
  PROVE  LET j == [pc |-> "commit", pub |-> job[p].pub, staged |-> job[p].staged,
                   committed |-> job[p].committed \cup {i}]
         IN /\ PublisherJob(j)
            /\ job' = [job EXCEPT ![p] = j]
            /\ job'[p] = j
            /\ JobsTyped'
            /\ \A q \in Processes \ {p} : job'[q] = job[q]
<1> DEFINE j == [pc |-> "commit", pub |-> job[p].pub, staged |-> job[p].staged,
                 committed |-> job[p].committed \cup {i}]
<1>1. /\ job[p].staged \subseteq 1..7 /\ job[p].committed \subseteq 1..7
      /\ job[p] = [pc |-> "commit", pub |-> job[p].pub, staged |-> job[p].staged,
                   committed |-> job[p].committed]
      /\ job[p].pub \in Publication
  BY JobCases DEF JobsTyped, CommitAt
<1>2. [job[p] EXCEPT !.committed = @ \cup {i}] = j
  BY <1>1
<1>3. job' = [job EXCEPT ![p] = j]
  BY <1>2 DEF CommitAt
<1>4. PublisherJob(j)
  BY <1>1 DEF PublisherJob, Committed
<1> HIDE DEF j
<1>5. p \in Processes /\ p # Operator
  BY ProcessAssumption DEF Processes
<1>6. JobsTyped' /\ job'[p] = j /\ \A q \in Processes \ {p} : job'[q] = job[q]
  BY <1>3, <1>4, <1>5, JobSet
<1> QED
  BY <1>3, <1>4, <1>6 DEF j

LEMMA CommitTyped ==
  ASSUME Typed, NEW p \in Publishers, Commit(p)
  PROVE  Typed'
<1>1. PICK i \in job[p].staged : CommitAt(p, i)
  BY CommitIsAt
<1>2. job[p].pub \in Publication /\ i \in 1..7
  BY <1>1, JobCases DEF CommitAt, Typed, JobsTyped
<1> DEFINE path == Outputs(job[p].pub)[i]
           name == TempOf(job[p].pub, i)
<1>3. JobsTyped'
  BY <1>1, <1>2, CommitJob DEF Typed
<1>4. name[2] = path
  BY TempIsNamed
<1>5. /\ name \in DOMAIN temp
      /\ backup' = IF Exists(path) THEN Put(backup, name, disk[path]) ELSE backup
      /\ disk' = Put(disk, path, temp[name])
      /\ temp' = Restrict(temp, DOMAIN temp \ {name})
      /\ UNCHANGED <<drafts, attempts, history>>
  BY <1>1 DEF CommitAt
<1> HIDE DEF path, name
<1>6. \A x \in DOMAIN disk' : MayHold(x, disk'[x])
  <2>1. MayHold(path, temp[name])
    BY <1>4, <1>5 DEF Typed, FilesTyped
  <2> QED
    BY <1>5, <2>1, PutMayHold DEF Typed, FilesTyped
<1>7. \A n \in DOMAIN temp' : MayHold(n[2], temp'[n])
  BY <1>5, RestrictFacts DEF Typed, FilesTyped
<1>8. \A n \in DOMAIN backup' : MayHold(n[2], backup'[n])
  <2>1. CASE Exists(path)
    <3>1. MayHold(name[2], disk[path])
      BY <1>4, <2>1 DEF Typed, FilesTyped, Exists
    <3>2. \A n \in DOMAIN backup : MayHold(n[2], backup[n])
      BY DEF Typed, FilesTyped
    <3>3. backup' = Put(backup, name, disk[path])
      BY <1>5, <2>1
    <3> QED
      BY <3>1, <3>2, <3>3, PutMayHold
  <2> QED
    BY <1>5, <2>1 DEF Typed, FilesTyped
<1>9. IsFiniteSet(DOMAIN disk')
  <2>1. IsFiniteSet(DOMAIN disk \cup {path})
    BY FS_AddElement DEF Typed, FilesTyped
  <2> QED
    BY <1>5, <2>1, PutFacts
<1>10. IsFunction(disk')
  BY <1>5, PutIsFunction
<1> QED
  BY <1>3, <1>5, <1>6, <1>7, <1>8, <1>9, <1>10
     DEF Typed, DraftsTyped, FilesTyped, CountsTyped, history, drafts

LEMMA FailFacts ==
  ASSUME JobsTyped, NEW p \in Publishers, Fail(p)
  PROVE  LET nested == job[p].committed # job[p].staged
             j == [pc |-> "rollback", pub |-> job[p].pub, staged |-> job[p].staged,
                   committed |-> job[p].committed, undo |-> job[p].committed,
                   nested |-> nested]
         IN /\ job[p].pc = "commit"
            /\ PublisherJob(j) /\ job' = [job EXCEPT ![p] = j]
            /\ job'[p] = j
            /\ \A q \in Processes \ {p} : job'[q] = job[q]
            /\ UNCHANGED <<drafts, files, attempts, history>>
<1> DEFINE j == [pc |-> "rollback", pub |-> job[p].pub, staged |-> job[p].staged,
                 committed |-> job[p].committed, undo |-> job[p].committed,
                 nested |-> (job[p].committed # job[p].staged)]
<1>1. /\ job[p].pc = "commit" /\ job' = [job EXCEPT ![p] = j]
      /\ UNCHANGED <<drafts, files, attempts, history>>
  BY DEF Fail, InRollback
<1>2. /\ job[p].staged \subseteq 1..7 /\ job[p].committed \subseteq 1..7
      /\ job[p].pub \in Publication
  BY <1>1, JobCases DEF JobsTyped
<1>3. PublisherJob(j)
  BY <1>2 DEF PublisherJob, RollingBack
<1> HIDE DEF j
<1>4. job'[p] = j /\ \A q \in Processes \ {p} : job'[q] = job[q]
  BY <1>1, <1>3, JobSet, ProcessAssumption DEF Processes
<1> QED
  BY <1>1, <1>3, <1>4 DEF j

LEMMA FailTyped ==
  ASSUME Typed, NEW p \in Publishers, Fail(p)
  PROVE  Typed'
<1> DEFINE j == [pc |-> "rollback", pub |-> job[p].pub, staged |-> job[p].staged,
                 committed |-> job[p].committed, undo |-> job[p].committed,
                 nested |-> (job[p].committed # job[p].staged)]
<1>1. /\ PublisherJob(j) /\ job' = [job EXCEPT ![p] = j]
      /\ UNCHANGED <<drafts, files, attempts, history>>
  BY FailFacts DEF Typed
<1> HIDE DEF j
<1> QED
  BY <1>1, OnlyJob, ProcessAssumption DEF Processes

(* One round of the first loop of rollback(), at place i.                  *)
UndoAt(p, i) ==
  LET pub == job[p].pub
      path == Outputs(pub)[i]
      name == TempOf(pub, i)
  IN /\ job[p].pc = "rollback"
     /\ i \in job[p].undo
     /\ \A j \in job[p].undo : j <= i
     /\ disk' = IF name \in DOMAIN backup THEN Put(disk, path, backup[name])
                ELSE Restrict(disk, DOMAIN disk \ {path})
     /\ backup' = Restrict(backup, DOMAIN backup \ {name})
     /\ job' = [job EXCEPT ![p].undo = @ \ {i}]
     /\ UNCHANGED <<drafts, temp, attempts, history>>

LEMMA UndoIsAt ==
  ASSUME NEW p, Undo(p)
  PROVE  \E i \in job[p].undo : UndoAt(p, i)
BY DEF Undo, UndoAt, TempOf

LEMMA UndoJob ==
  ASSUME JobsTyped, NEW p \in Publishers, NEW i, UndoAt(p, i)
  PROVE  LET j == [pc |-> "rollback", pub |-> job[p].pub, staged |-> job[p].staged,
                   committed |-> job[p].committed, undo |-> job[p].undo \ {i},
                   nested |-> job[p].nested]
         IN /\ job'[p] = j
            /\ JobsTyped'
            /\ \A q \in Processes \ {p} : job'[q] = job[q]
<1> DEFINE j == [pc |-> "rollback", pub |-> job[p].pub, staged |-> job[p].staged,
                 committed |-> job[p].committed, undo |-> job[p].undo \ {i},
                 nested |-> job[p].nested]
<1>1. /\ job[p].staged \subseteq 1..7 /\ job[p].committed \subseteq 1..7
      /\ job[p].undo \subseteq 1..7 /\ job[p].nested \in BOOLEAN
      /\ job[p] = [pc |-> "rollback", pub |-> job[p].pub, staged |-> job[p].staged,
                   committed |-> job[p].committed, undo |-> job[p].undo,
                   nested |-> job[p].nested]
      /\ job[p].pub \in Publication
  BY JobCases DEF JobsTyped, UndoAt
<1>2. [job[p] EXCEPT !.undo = @ \ {i}] = j
  BY <1>1
<1>3. job' = [job EXCEPT ![p] = j]
  BY <1>2 DEF UndoAt
<1>4. PublisherJob(j)
  BY <1>1 DEF PublisherJob, RollingBack
<1> HIDE DEF j
<1>5. JobsTyped' /\ job'[p] = j /\ \A q \in Processes \ {p} : job'[q] = job[q]
  BY <1>3, <1>4, JobSet, ProcessAssumption DEF Processes
<1> QED
  BY <1>5 DEF j

LEMMA RestrictIsFunction ==
  ASSUME NEW f, NEW S
  PROVE  IsFunction(Restrict(f, S))
BY DEF Restrict, IsFunction

LEMMA UndoTyped ==
  ASSUME Typed, NEW p \in Publishers, Undo(p)
  PROVE  Typed'
<1>1. PICK i \in job[p].undo : UndoAt(p, i)
  BY UndoIsAt
<1> DEFINE path == Outputs(job[p].pub)[i]
           name == TempOf(job[p].pub, i)
<1>2. JobsTyped'
  BY <1>1, UndoJob DEF Typed
<1>3. name[2] = path
  BY TempIsNamed
<1>4. /\ disk' = IF name \in DOMAIN backup THEN Put(disk, path, backup[name])
                 ELSE Restrict(disk, DOMAIN disk \ {path})
      /\ backup' = Restrict(backup, DOMAIN backup \ {name})
      /\ UNCHANGED <<drafts, temp, attempts, history>>
  BY <1>1 DEF UndoAt
<1> HIDE DEF path, name
<1>5. \A x \in DOMAIN disk' : MayHold(x, disk'[x])
  <2>1. CASE name \in DOMAIN backup
    <3>1. MayHold(path, backup[name])
      BY <1>3, <2>1 DEF Typed, FilesTyped
    <3>2. disk' = Put(disk, path, backup[name])
      BY <1>4, <2>1
    <3>3. \A x \in DOMAIN disk : MayHold(x, disk[x])
      BY DEF Typed, FilesTyped
    <3> QED
      BY <3>1, <3>2, <3>3, PutMayHold
  <2>2. CASE name \notin DOMAIN backup
    <3>1. disk' = Restrict(disk, DOMAIN disk \ {path})
      BY <1>4, <2>2
    <3> QED
      BY <3>1, RestrictFacts DEF Typed, FilesTyped
  <2> QED
    BY <2>1, <2>2
<1>6. IsFiniteSet(DOMAIN disk')
  <2>1. IsFiniteSet(DOMAIN disk \cup {path})
    BY FS_AddElement DEF Typed, FilesTyped
  <2>2. \/ DOMAIN disk' = DOMAIN disk \cup {path}
        \/ DOMAIN disk' = DOMAIN disk \ {path}
    <3>1. DOMAIN Restrict(disk, DOMAIN disk \ {path}) = DOMAIN disk \ {path}
      BY RestrictFacts
    <3> QED
      BY <1>4, <3>1, PutFacts
  <2> QED
    BY <2>1, <2>2, FS_Subset
<1>7. IsFunction(disk')
  BY <1>4, PutIsFunction, RestrictIsFunction
<1>8. \A n \in DOMAIN backup' : MayHold(n[2], backup'[n])
  BY <1>4, RestrictFacts DEF Typed, FilesTyped
<1> QED
  BY <1>2, <1>4, <1>5, <1>6, <1>7, <1>8
     DEF Typed, DraftsTyped, FilesTyped, CountsTyped, history, drafts

(* A rollback removes some of the temporary files and backups.             *)
LEMMA SweptTyped ==
  ASSUME FilesTyped, NEW names, UNCHANGED disk,
         temp' = Restrict(temp, DOMAIN temp \ names),
         backup' = Restrict(backup, DOMAIN backup \ names)
  PROVE  /\ FilesTyped'
         /\ DOMAIN backup' \subseteq DOMAIN backup
         /\ \A n \in DOMAIN backup' : backup'[n] = backup[n]
BY RestrictFacts DEF FilesTyped

LEMMA SweepTyped ==
  ASSUME Typed, NEW p \in Publishers, Sweep(p)
  PROVE  Typed'
<1>1. PublisherJob(Idle)
  BY DEF PublisherJob
<1>2. JobsTyped'
  BY <1>1, JobSet, ProcessAssumption DEF Processes, Typed, Sweep
<1>3. FilesTyped'
  BY SweptTyped DEF Typed, Sweep
<1>4. UNCHANGED <<drafts, attempts, history>>
  BY DEF Sweep
<1> QED
  BY <1>2, <1>3, <1>4 DEF Typed, DraftsTyped, CountsTyped, history, drafts

LEMMA RollbackFaultFacts ==
  ASSUME Typed, NEW p \in Publishers, RollbackFault(p)
  PROVE  LET j == [pc |-> "rollback", pub |-> job[p].pub, staged |-> job[p].staged,
                   committed |-> job[p].committed, undo |-> job[p].committed,
                   nested |-> FALSE]
         IN /\ job[p].pc = "rollback" /\ job[p].pub \in Publication
            /\ FilesTyped' /\ JobsTyped'
            /\ DOMAIN backup' \subseteq DOMAIN backup
            /\ \A n \in DOMAIN backup' : backup'[n] = backup[n]
            /\ job[p].undo # {} => backup' = backup
            /\ \A q \in Processes \ {p} : job'[q] = job[q]
            /\ \/ job[p].nested /\ job'[p] = j /\ faulted' = faulted \cup {Stem(job[p].pub)}
               \/ job'[p] = Idle /\ UNCHANGED faulted
            /\ UNCHANGED <<drafts, disk, attempts, returned>>
<1> DEFINE j == [pc |-> "rollback", pub |-> job[p].pub, staged |-> job[p].staged,
                 committed |-> job[p].committed, undo |-> job[p].committed,
                 nested |-> FALSE]
<1>1. /\ job[p].staged \subseteq 1..7 /\ job[p].committed \subseteq 1..7
      /\ job[p].pub \in Publication
  BY JobCases DEF RollbackFault, Typed, JobsTyped
<1>2. PublisherJob(j)
  BY <1>1 DEF PublisherJob, RollingBack
<1>3. PublisherJob(Idle)
  BY DEF PublisherJob
<1>4. job[p].pc = "rollback" /\ UNCHANGED <<drafts, disk, attempts, returned>>
  BY DEF RollbackFault
<1>5. /\ FilesTyped' /\ DOMAIN backup' \subseteq DOMAIN backup
      /\ \A n \in DOMAIN backup' : backup'[n] = backup[n]
  <2>1. CASE UNCHANGED <<temp, backup>>
    BY <1>4, <2>1 DEF Typed, FilesTyped
  <2>2. ASSUME NEW names, temp' = Restrict(temp, DOMAIN temp \ names),
               backup' = Restrict(backup, DOMAIN backup \ names)
        PROVE  /\ FilesTyped' /\ DOMAIN backup' \subseteq DOMAIN backup
               /\ \A n \in DOMAIN backup' : backup'[n] = backup[n]
    BY <1>4, <2>2, SweptTyped DEF Typed
  <2> QED
    BY <2>1, <2>2 DEF RollbackFault
<1>0. job[p].undo # {} => backup' = backup
  BY DEF RollbackFault
<1>6. \/ /\ job[p].nested /\ job' = [job EXCEPT ![p] = j]
         /\ faulted' = faulted \cup {Stem(job[p].pub)}
      \/ job' = [job EXCEPT ![p] = Idle] /\ UNCHANGED faulted
  BY DEF RollbackFault, InRollback
<1> HIDE DEF j
<1>7. p \in Processes /\ p # Operator
  BY ProcessAssumption DEF Processes
<1>8. CASE /\ job[p].nested /\ job' = [job EXCEPT ![p] = j]
           /\ faulted' = faulted \cup {Stem(job[p].pub)}
  <2>1. JobsTyped' /\ job'[p] = j /\ \A q \in Processes \ {p} : job'[q] = job[q]
    BY <1>2, <1>7, <1>8, JobSet DEF Typed
  <2> QED
    BY <1>0, <1>1, <1>4, <1>5, <1>8, <2>1 DEF j
<1>9. CASE job' = [job EXCEPT ![p] = Idle] /\ UNCHANGED faulted
  <2>1. JobsTyped' /\ job'[p] = Idle /\ \A q \in Processes \ {p} : job'[q] = job[q]
    BY <1>3, <1>7, <1>9, JobSet DEF Typed
  <2> QED
    BY <1>0, <1>1, <1>4, <1>5, <1>9, <2>1
<1> QED
  BY <1>6, <1>8, <1>9

LEMMA RollbackFaultTyped ==
  ASSUME Typed, NEW p \in Publishers, RollbackFault(p)
  PROVE  Typed'
<1>1. /\ FilesTyped' /\ JobsTyped' /\ job[p].pub \in Publication
      /\ UNCHANGED <<drafts, attempts, returned>>
      /\ \/ faulted' = faulted \cup {Stem(job[p].pub)}
         \/ UNCHANGED faulted
  BY RollbackFaultFacts
<1>2. faulted' \subseteq Stems
  BY <1>1, PublicationParts DEF Typed, CountsTyped
<1> QED
  BY <1>1, <1>2 DEF Typed, DraftsTyped, CountsTyped, drafts

LEMMA ReturnTyped ==
  ASSUME Typed, NEW p \in Publishers, Return(p)
  PROVE  Typed'
<1>1. JobsTyped'
  <2>1. PublisherJob(Idle)
    BY DEF PublisherJob
  <2> QED
    BY <2>1, JobSet, ProcessAssumption DEF Processes, Typed, Return
<1>2. job[p].pub \in Publication
  BY JobCases DEF Return, Typed, JobsTyped
<1>3. UNCHANGED <<drafts, files, attempts, faulted>> /\ returned' = returned \cup {job[p].pub}
  BY DEF Return
<1> QED
  BY <1>1, <1>2, <1>3 DEF Typed, DraftsTyped, FilesTyped, CountsTyped, history, drafts, files

LEMMA CrashTyped ==
  ASSUME Typed, NEW p \in Publishers, Crash(p)
  PROVE  Typed'
<1>1. PublisherJob(Idle)
  BY DEF PublisherJob
<1>2. job' = [job EXCEPT ![p] = Idle] /\ UNCHANGED <<drafts, files, attempts, history>>
  BY DEF Crash
<1> QED
  BY <1>1, <1>2, OnlyJob, ProcessAssumption DEF Processes

(* The registry that an operator is about to write.                        *)
LEMMA ReadForUpdateFacts ==
  ASSUME Typed, NEW ref, NEW state \in LifecycleStates, ReadForUpdate(ref, state)
  PROVE  LET r == [Registry EXCEPT ![ref].state = state]
             j == [pc |-> "update", registry |-> r]
         IN /\ IsRegistry(r) /\ DOMAIN r = DOMAIN Registry
            /\ \A x \in DOMAIN Registry : r[x].pub = Registry[x].pub
            /\ OperatorJob(j) /\ job' = [job EXCEPT ![Operator] = j]
            /\ job'[Operator] = j
            /\ \A q \in Publishers : job'[q] = job[q]
            /\ UNCHANGED <<drafts, files, attempts, history>>
<1> DEFINE r == [Registry EXCEPT ![ref].state = state]
           j == [pc |-> "update", registry |-> r]
<1>1. IsRegistry(Registry) /\ ref \in DOMAIN Registry
  BY RegistryTyped DEF Typed, ReadForUpdate
<1>2. /\ IsRegistry(r) /\ DOMAIN r = DOMAIN Registry
      /\ \A x \in DOMAIN Registry : r[x].pub = Registry[x].pub
  <2> HIDE DEF r
  <2> QED BY <1>1, RegistryState DEF r
<1>3. OperatorJob(j)
  BY <1>2 DEF OperatorJob
<1>4. job' = [job EXCEPT ![Operator] = j] /\ UNCHANGED <<drafts, files, attempts, history>>
  BY DEF ReadForUpdate
<1> HIDE DEF r, j
<1>5. job'[Operator] = j /\ \A q \in Publishers : job'[q] = job[q]
  BY <1>3, <1>4, JobSet, ProcessAssumption DEF Typed, Processes
<1> QED
  BY <1>2, <1>3, <1>4, <1>5 DEF r, j

LEMMA ReadForUpdateTyped ==
  ASSUME Typed, NEW ref, NEW state \in LifecycleStates, ReadForUpdate(ref, state)
  PROVE  Typed'
<1> DEFINE j == [pc |-> "update", registry |-> [Registry EXCEPT ![ref].state = state]]
<1>1. OperatorJob(j) /\ job' = [job EXCEPT ![Operator] = j]
      /\ UNCHANGED <<drafts, files, attempts, history>>
  BY ReadForUpdateFacts
<1> HIDE DEF j
<1> QED
  BY <1>1, OnlyJob, ProcessAssumption DEF Processes

LEMMA WriteUpdateTyped ==
  ASSUME Typed, WriteUpdate
  PROVE  Typed'
<1>1. IsRegistry(job[Operator].registry)
  BY DEF WriteUpdate, Typed, JobsTyped, OperatorJob
<1>2. JobsTyped'
  <2>1. OperatorJob(Idle)
    BY DEF OperatorJob
  <2> QED
    BY <2>1, JobSet, ProcessAssumption DEF Processes, Typed, WriteUpdate
<1>3. disk' = Put(disk, Index, job[Operator].registry)
      /\ UNCHANGED <<drafts, temp, backup, attempts, history>>
  BY DEF WriteUpdate
<1>4. MayHold(Index, job[Operator].registry)
  BY <1>1 DEF MayHold, Paths
<1>5. \A x \in DOMAIN disk' : MayHold(x, disk'[x])
  BY <1>3, <1>4, PutMayHold DEF Typed, FilesTyped
<1>6. IsFiniteSet(DOMAIN disk')
  <2>1. IsFiniteSet(DOMAIN disk \cup {Index})
    BY FS_AddElement DEF Typed, FilesTyped
  <2> QED
    BY <1>3, <2>1, PutFacts
<1>7. IsFunction(disk')
  BY <1>3, PutIsFunction
<1> QED
  BY <1>2, <1>3, <1>5, <1>6, <1>7 DEF Typed, DraftsTyped, FilesTyped, CountsTyped, history, drafts

LEMMA NextTyped == Typed /\ [Next]_vars => Typed'
<1> SUFFICES ASSUME Typed, [Next]_vars PROVE Typed'
  OBVIOUS
<1>1. ASSUME NEW s \in Stems, NEW g \in Policies, RunPolicy(s, g)
      PROVE  Typed'
  BY <1>1, RunPolicyTyped
<1>2. ASSUME NEW s \in Stems, NEW actor \in Approvers, Approve(s, actor)
      PROVE  Typed'
  BY <1>2, ApproveTyped
<1>3. ASSUME NEW p \in Publishers, Publish(p)
      PROVE  Typed'
  BY <1>3, LoadTyped, CompileTyped, IdentifyTyped, ReadRegistryTyped, StageTyped,
     StageFaultTyped, CommitTyped, FailTyped, UndoTyped, SweepTyped, RollbackFaultTyped,
     ReturnTyped, CrashTyped DEF Publish
<1>4. ASSUME NEW ref, NEW state \in LifecycleStates, ReadForUpdate(ref, state)
      PROVE  Typed'
  BY <1>4, ReadForUpdateTyped
<1>5. CASE WriteUpdate
  BY <1>5, WriteUpdateTyped
<1>6. CASE UNCHANGED vars
  BY <1>6 DEF vars, Typed, DraftsTyped, FilesTyped, JobsTyped, CountsTyped, history, drafts, files
<1> QED
  BY <1>1, <1>2, <1>3, <1>4, <1>5, <1>6 DEF Next

(* Every file holds what is written to it, whoever else publishes at the   *)
(* same time, whatever is rolled back from whichever backup: two calls may *)
(* have one publication id, and then have each other's temporary files.    *)
THEOREM TypeCorrect == Spec => []TypeOK
<1>1. Typed => TypeOK
  <2> SUFFICES ASSUME Typed PROVE TypeOK
    OBVIOUS
  <2>1. \A path \in DOMAIN disk \ {Index} :
          disk[path] \in IF path[1] = "contract"
                         THEN [policy : Policies, source : Policies, stem : Stems]
                         ELSE Publication
    BY DEF Typed, FilesTyped, MayHold, Contracts
  <2>2. DOMAIN Registry \subseteq Range(RefOf)
    BY RegistryTyped DEF Typed, IsRegistry, Refs
  <2>3. \A p \in Publishers :
          job[p].pc \in {"idle", "compile", "identify", "register", "stage", "commit", "rollback"}
    BY JobCases DEF Typed, JobsTyped
  <2>4. job[Operator].pc \in {"idle", "update"}
    BY DEF Typed, JobsTyped, OperatorJob, Idle
  <2> QED
    BY <2>1, <2>2, <2>3, <2>4 DEF TypeOK, Typed, DraftsTyped, CountsTyped
<1> QED
  BY <1>1, InitTyped, NextTyped, PTL DEF Spec

-----------------------------------------------------------------------------
(* One process at a time: what the files amount to.                        *)

Holds(f, x, c) == x \in DOMAIN f /\ f[x] = c

RegistryOf(d) == IF Index \in DOMAIN d THEN d[Index] ELSE << >>

(* The outputs are put in place in their order, so that each stands for    *)
(* those before it.  d is what is on disk.  Of the policy files F, those   *)
(* of which a rollback raised in commit(), a deployed review and snapshot  *)
(* may be gone.                                                            *)
ManifestsWhole(d, F) ==
  \A s \in Stems : <<"manifest", s>> \in DOMAIN d =>
    LET pub == d[<<"manifest", s>>]
    IN /\ Stem(pub) = s
       /\ Holds(d, <<"contract", Ref(pub)>>, pub.contract)
       /\ s \notin F => Holds(d, <<"deployed", s>>, pub) /\ Holds(d, <<"snapshot", pub>>, pub)

BundlesWhole(d) ==
  \A ref \in Refs : <<"bundle", ref>> \in DOMAIN d =>
    LET pub == d[<<"bundle", ref>>]
    IN Ref(pub) = ref /\ Holds(d, <<"manifest", Stem(pub)>>, pub)

ReceiptsWhole(d) ==
  \A ref \in Refs : <<"receipt", ref>> \in DOMAIN d =>
    LET pub == d[<<"receipt", ref>>]
    IN Ref(pub) = ref /\ Holds(d, <<"bundle", ref>>, pub)

EntriesWhole(d) ==
  \A ref \in DOMAIN RegistryOf(d) :
    LET pub == RegistryOf(d)[ref].pub
    IN Ref(pub) = ref /\ Holds(d, <<"receipt", ref>>, pub)

IdsDistinct(d) ==
  \A s, t \in Stems :
    s # t /\ {<<"manifest", s>>, <<"manifest", t>>} \subseteq DOMAIN d =>
      d[<<"manifest", s>>].id # d[<<"manifest", t>>].id

ReturnedKept(d, R) ==
  \A pub \in R :
    Ref(pub) \in DOMAIN RegistryOf(d) /\ RegistryOf(d)[Ref(pub)].pub = pub

Whole(d, R, F) ==
  /\ ManifestsWhole(d, F)
  /\ BundlesWhole(d)
  /\ ReceiptsWhole(d)
  /\ EntriesWhole(d)
  /\ IdsDistinct(d)
  /\ ReturnedKept(d, R)

WholeDisk == Whole(disk, returned, faulted)

(* What is not claimed of the policy files F.                              *)
IsLoose(x, F) ==
  \/ x[1] = "deployed" /\ x[2] \in F
  \/ x[1] = "snapshot" /\ Stem(x[2]) \in F

(* A backup has its target, which tells a call that a target is new.       *)
Shadowed(b, d, F) == \A n \in DOMAIN b : n[2] \in DOMAIN d \/ IsLoose(n[2], F)

BackupsShadowTargets == Shadowed(backup, disk, faulted)

(* What the outputs d become when those of pub at the places U are undone  *)
(* from the backups b.                                                     *)
PathsAt(pub, U) == {Outputs(pub)[i] : i \in U}

After(d, b, pub, U) ==
  [x \in (DOMAIN d \ PathsAt(pub, U))
           \cup {y \in PathsAt(pub, U) : Named(pub.id, y) \in DOMAIN b} |->
     IF x \in PathsAt(pub, U) THEN b[Named(pub.id, x)] ELSE d[x]]

From(U, k) == {i \in U : k <= i}

(* Undoing the places U, from the last back, leaves a whole disk after     *)
(* each, and every backup then has its target.                             *)
LeadsBack(pub, U) ==
  /\ \A k \in 1..8 : Whole(After(disk, backup, pub, From(U, k)), returned, faulted)
  /\ Shadowed(backup, After(disk, backup, pub, U), faulted)

(* Of the outputs at places S, the immutable are nowhere yet; they have no *)
(* backup of an earlier call.                                              *)
NotYet(pub, S) == \A i \in S \ {2, 3, 7} : Outputs(pub)[i] \notin DOMAIN disk
NoOldBackups(pub, S) == \A i \in S \ {2, 3, 7} : TempOf(pub, i) \notin DOMAIN backup

(* No manifest of another policy file has the id of pub.                   *)
IdFits(pub) ==
  \A s \in Stems \ {Stem(pub)} :
    <<"manifest", s>> \in DOMAIN disk => disk[<<"manifest", s>>].id # pub.id

Entered(registry, pub) == Put(registry, Ref(pub), [pub |-> pub, state |-> "active"])

Fixed(pub, i) == IF i = 1 THEN pub.contract ELSE pub

(* A call in commit(): what is not to be written any more is in place, the *)
(* rest is in its temporary files, the immutable of it is nowhere yet, and *)
(* a rollback leads back to a whole disk.                                  *)
CommitOK(p) ==
  LET pub == job[p].pub
      committed == job[p].committed
      waiting == job[p].staged \ committed
  IN /\ committed \subseteq job[p].staged
     /\ {2, 3, 7} \subseteq job[p].staged
     /\ \A i \in committed, j \in waiting : i < j
     /\ \A i \in (1..6) \ waiting : Holds(disk, Outputs(pub)[i], Fixed(pub, i))
     /\ \A i \in waiting \ {7} : Holds(temp, TempOf(pub, i), Fixed(pub, i))
     /\ NotYet(pub, waiting)
     /\ 7 \in waiting => /\ SameIdentity(Registry, pub)
                         /\ Holds(temp, TempOf(pub, 7), Entered(Registry, pub))
     /\ 7 \in committed => Ref(pub) \in DOMAIN Registry /\ Registry[Ref(pub)].pub = pub
     /\ NoOldBackups(pub, job[p].staged)
     /\ LeadsBack(pub, committed)

(* A call in rollback(): the rest of it leads back to a whole disk, and so *)
(* does the whole of it again, which a nested one may come to.  There the  *)
(* registry was not renamed, so that all it can lose is the deployed       *)
(* review and the snapshot.                                                *)
RollbackOK(p) ==
  LET pub == job[p].pub
      undo == job[p].undo
  IN /\ undo \subseteq job[p].committed
     /\ job[p].committed \subseteq job[p].staged
     /\ job[p].nested => 7 \notin job[p].committed
     /\ NotYet(pub, job[p].staged \ undo)
     /\ NoOldBackups(pub, job[p].staged)
     /\ LeadsBack(pub, undo)

CallOK(p) ==
  /\ job[p].pc \in {"register", "stage", "commit"} => IdFits(job[p].pub)
  /\ job[p].pc = "stage" =>
       /\ SameIdentity(Registry, job[p].pub)
       /\ job[p].registry = Entered(Registry, job[p].pub)
  /\ job[p].pc = "commit" => CommitOK(p)
  /\ job[p].pc = "rollback" => RollbackOK(p)

UpdateOK ==
  job[Operator] # Idle =>
    LET registry == job[Operator].registry
    IN /\ DOMAIN registry = DOMAIN Registry
       /\ \A ref \in DOMAIN Registry : registry[ref].pub = Registry[ref].pub

OneAtATime == \A p, q \in Processes : p # q => job[p] = Idle \/ job[q] = Idle

SerialInv ==
  /\ Typed
  /\ OneAtATime
  /\ WholeDisk
  /\ BackupsShadowTargets
  /\ \A p \in Publishers : CallOK(p)
  /\ UpdateOK

(* What a file that is written leaves alone.                               *)
LEMMA PutHolds ==
  ASSUME NEW d, NEW k, NEW c
  PROVE  LET e == Put(d, k, c)
         IN /\ Holds(e, k, c)
            /\ \A x : x # k => (x \in DOMAIN e <=> x \in DOMAIN d)
            /\ \A x : x # k /\ x \in DOMAIN d => e[x] = d[x]
            /\ \A x, v : x # k /\ Holds(d, x, v) => Holds(e, x, v)
            /\ \A x, v : x = k /\ v = c => Holds(e, x, v)
            /\ k # Index => RegistryOf(e) = RegistryOf(d)
            /\ k = Index => RegistryOf(e) = c
<1> DEFINE e == Put(d, k, c)
<1>1. DOMAIN e = DOMAIN d \cup {k} /\ e[k] = c /\ \A y \in DOMAIN d : y # k => e[y] = d[y]
  BY DEF Put
<1> HIDE DEF e
<1>2. /\ Holds(e, k, c)
      /\ \A x : x # k => (x \in DOMAIN e <=> x \in DOMAIN d)
      /\ \A x : x # k /\ x \in DOMAIN d => e[x] = d[x]
      /\ \A x, v : x # k /\ Holds(d, x, v) => Holds(e, x, v)
      /\ \A x, v : x = k /\ v = c => Holds(e, x, v)
  BY <1>1 DEF Holds
<1>3. /\ k # Index => RegistryOf(e) = RegistryOf(d)
      /\ k = Index => RegistryOf(e) = c
  BY <1>1 DEF RegistryOf
<1> QED
  BY <1>2, <1>3 DEF e

(* The publications that a whole disk speaks of.                           *)
LEMMA WholeManifest ==
  ASSUME NEW d, NEW F, ManifestsWhole(d, F), NEW s \in Stems, <<"manifest", s>> \in DOMAIN d
  PROVE  LET pub == d[<<"manifest", s>>]
         IN /\ Stem(pub) = s
            /\ Holds(d, <<"manifest", s>>, pub)
            /\ Holds(d, <<"contract", Ref(pub)>>, pub.contract)
            /\ s \notin F => Holds(d, <<"deployed", s>>, pub)
            /\ s \notin F => Holds(d, <<"snapshot", pub>>, pub)
BY DEF ManifestsWhole, Holds

(* A file of another kind, or of the same kind and a new one, breaks none  *)
(* of the parts that do not depend on it.                                  *)
LEMMA ManifestsKept ==
  ASSUME NEW d, NEW F, ManifestsWhole(d, F), NEW k, NEW c,
         \A s : k # <<"manifest", s>>,
         \A ref : k = <<"contract", ref>> => k \notin DOMAIN d,
         \A s \in Stems : k = <<"deployed", s>> /\ <<"manifest", s>> \in DOMAIN d =>
           d[<<"manifest", s>>] = c,
         \A pub : k = <<"snapshot", pub>> => c = pub
  PROVE  ManifestsWhole(Put(d, k, c), F)
<1> DEFINE e == Put(d, k, c)
<1>1. /\ \A x : x # k => (x \in DOMAIN e <=> x \in DOMAIN d)
      /\ \A x : x # k /\ x \in DOMAIN d => e[x] = d[x]
      /\ \A x, v : x # k /\ Holds(d, x, v) => Holds(e, x, v)
      /\ \A x, v : x = k /\ v = c => Holds(e, x, v)
  BY PutHolds
<1> HIDE DEF e
<1>2. ASSUME NEW s \in Stems, <<"manifest", s>> \in DOMAIN e
      PROVE  LET pub == e[<<"manifest", s>>]
             IN /\ Stem(pub) = s
                /\ Holds(e, <<"contract", Ref(pub)>>, pub.contract)
                /\ s \notin F => Holds(e, <<"deployed", s>>, pub)
                /\ s \notin F => Holds(e, <<"snapshot", pub>>, pub)
  <2> DEFINE pub == d[<<"manifest", s>>]
  <2>1. <<"manifest", s>> \in DOMAIN d /\ e[<<"manifest", s>>] = pub
    BY <1>1, <1>2
  <2>2. /\ Stem(pub) = s
        /\ Holds(d, <<"contract", Ref(pub)>>, pub.contract)
        /\ s \notin F => Holds(d, <<"deployed", s>>, pub)
        /\ s \notin F => Holds(d, <<"snapshot", pub>>, pub)
    BY <2>1, WholeManifest
  <2>3. k = <<"deployed", s>> => pub = c
    BY <2>1
  <2> HIDE DEF pub
  <2>4. Holds(e, <<"contract", Ref(pub)>>, pub.contract)
    BY <1>1, <2>2 DEF Holds
  <2>5. s \notin F => Holds(e, <<"deployed", s>>, pub)
    BY <1>1, <2>2, <2>3
  <2>6. s \notin F => Holds(e, <<"snapshot", pub>>, pub)
    BY <1>1, <2>2
  <2> QED
    BY <2>1, <2>2, <2>4, <2>5, <2>6
<1> QED
  BY <1>2 DEF ManifestsWhole, e

LEMMA BundlesKept ==
  ASSUME NEW d, BundlesWhole(d), NEW k, NEW c,
         \A ref : k # <<"bundle", ref>>,
         \A s : k = <<"manifest", s>> => k \notin DOMAIN d
  PROVE  BundlesWhole(Put(d, k, c))
<1> DEFINE e == Put(d, k, c)
<1>1. /\ \A x : x # k => (x \in DOMAIN e <=> x \in DOMAIN d)
      /\ \A x : x # k /\ x \in DOMAIN d => e[x] = d[x]
      /\ \A x, v : x # k /\ Holds(d, x, v) => Holds(e, x, v)
  BY PutHolds
<1> HIDE DEF e
<1>2. ASSUME NEW ref \in Refs, <<"bundle", ref>> \in DOMAIN e
      PROVE  LET pub == e[<<"bundle", ref>>]
             IN Ref(pub) = ref /\ Holds(e, <<"manifest", Stem(pub)>>, pub)
  <2> DEFINE pub == d[<<"bundle", ref>>]
  <2>1. <<"bundle", ref>> \in DOMAIN d /\ e[<<"bundle", ref>>] = pub
    BY <1>1, <1>2
  <2>2. Ref(pub) = ref /\ Holds(d, <<"manifest", Stem(pub)>>, pub)
    BY <2>1 DEF BundlesWhole
  <2> HIDE DEF pub
  <2>3. Holds(e, <<"manifest", Stem(pub)>>, pub)
    BY <1>1, <2>2 DEF Holds
  <2> QED
    BY <2>1, <2>2, <2>3
<1> QED
  BY <1>2 DEF BundlesWhole, e

LEMMA ReceiptsKept ==
  ASSUME NEW d, ReceiptsWhole(d), NEW k, NEW c,
         \A ref : k # <<"receipt", ref>>,
         \A ref : k = <<"bundle", ref>> => k \notin DOMAIN d
  PROVE  ReceiptsWhole(Put(d, k, c))
<1> DEFINE e == Put(d, k, c)
<1>1. /\ \A x : x # k => (x \in DOMAIN e <=> x \in DOMAIN d)
      /\ \A x : x # k /\ x \in DOMAIN d => e[x] = d[x]
      /\ \A x, v : x # k /\ Holds(d, x, v) => Holds(e, x, v)
  BY PutHolds
<1> HIDE DEF e
<1>2. ASSUME NEW ref \in Refs, <<"receipt", ref>> \in DOMAIN e
      PROVE  LET pub == e[<<"receipt", ref>>]
             IN Ref(pub) = ref /\ Holds(e, <<"bundle", ref>>, pub)
  <2> DEFINE pub == d[<<"receipt", ref>>]
  <2>1. <<"receipt", ref>> \in DOMAIN d /\ e[<<"receipt", ref>>] = pub
    BY <1>1, <1>2
  <2>2. Ref(pub) = ref /\ Holds(d, <<"bundle", ref>>, pub)
    BY <2>1 DEF ReceiptsWhole
  <2> HIDE DEF pub
  <2>3. Holds(e, <<"bundle", ref>>, pub)
    BY <1>1, <2>2 DEF Holds
  <2> QED
    BY <2>1, <2>2, <2>3
<1> QED
  BY <1>2 DEF ReceiptsWhole, e

LEMMA EntriesKept ==
  ASSUME NEW d, EntriesWhole(d), NEW k, NEW c, k # Index,
         \A ref : k = <<"receipt", ref>> => k \notin DOMAIN d
  PROVE  EntriesWhole(Put(d, k, c))
<1> DEFINE e == Put(d, k, c)
<1>1. /\ RegistryOf(e) = RegistryOf(d)
      /\ \A x, v : x # k /\ Holds(d, x, v) => Holds(e, x, v)
  BY PutHolds
<1> HIDE DEF e
<1>2. ASSUME NEW ref \in DOMAIN RegistryOf(d)
      PROVE  Holds(e, <<"receipt", ref>>, RegistryOf(d)[ref].pub)
  BY <1>1, <1>2 DEF EntriesWhole, Holds
<1> QED
  BY <1>1, <1>2 DEF EntriesWhole, e

LEMMA IdsKept ==
  ASSUME NEW d, IdsDistinct(d), NEW k, NEW c, \A s : k # <<"manifest", s>>
  PROVE  IdsDistinct(Put(d, k, c))
<1> DEFINE e == Put(d, k, c)
<1>1. /\ \A x : x # k => (x \in DOMAIN e <=> x \in DOMAIN d)
      /\ \A x : x # k /\ x \in DOMAIN d => e[x] = d[x]
  BY PutHolds
<1> HIDE DEF e
<1> QED
  BY <1>1 DEF IdsDistinct, e

LEMMA ReturnedStay ==
  ASSUME NEW d, NEW R, ReturnedKept(d, R), NEW k, NEW c, k # Index
  PROVE  ReturnedKept(Put(d, k, c), R)
<1>1. RegistryOf(Put(d, k, c)) = RegistryOf(d)
  BY PutHolds
<1> QED
  BY <1>1 DEF ReturnedKept

(* A publication comes in place output by output.                          *)
LEMMA ManifestsExtended ==
  ASSUME NEW d, NEW F, ManifestsWhole(d, F), NEW pub \in Publication,
         Holds(d, <<"contract", Ref(pub)>>, pub.contract),
         Holds(d, <<"deployed", Stem(pub)>>, pub),
         Holds(d, <<"snapshot", pub>>, pub),
         <<"manifest", Stem(pub)>> \notin DOMAIN d
  PROVE  ManifestsWhole(Put(d, <<"manifest", Stem(pub)>>, pub), F)
<1> DEFINE k == <<"manifest", Stem(pub)>>
           e == Put(d, k, pub)
<1>1. /\ Holds(e, k, pub)
      /\ \A x : x # k => (x \in DOMAIN e <=> x \in DOMAIN d)
      /\ \A x : x # k /\ x \in DOMAIN d => e[x] = d[x]
      /\ \A x, v : x # k /\ Holds(d, x, v) => Holds(e, x, v)
  BY PutHolds
<1> HIDE DEF e
<1>2. ASSUME NEW s \in Stems, <<"manifest", s>> \in DOMAIN e
      PROVE  LET q == e[<<"manifest", s>>]
             IN /\ Stem(q) = s
                /\ Holds(e, <<"contract", Ref(q)>>, q.contract)
                /\ s \notin F => Holds(e, <<"deployed", s>>, q)
                /\ s \notin F => Holds(e, <<"snapshot", q>>, q)
  <2>1. CASE s = Stem(pub)
    <3>1. e[<<"manifest", s>>] = pub
      BY <1>1, <2>1 DEF Holds
    <3>2. /\ Holds(e, <<"contract", Ref(pub)>>, pub.contract)
          /\ Holds(e, <<"deployed", s>>, pub)
          /\ Holds(e, <<"snapshot", pub>>, pub)
      BY <1>1, <2>1
    <3> QED
      BY <2>1, <3>1, <3>2
  <2>2. CASE s # Stem(pub)
    <3> DEFINE q == d[<<"manifest", s>>]
    <3>1. <<"manifest", s>> \in DOMAIN d /\ e[<<"manifest", s>>] = q
      BY <1>1, <1>2, <2>2
    <3>2. /\ Stem(q) = s
          /\ Holds(d, <<"contract", Ref(q)>>, q.contract)
          /\ s \notin F => Holds(d, <<"deployed", s>>, q)
          /\ s \notin F => Holds(d, <<"snapshot", q>>, q)
      BY <3>1, WholeManifest
    <3> HIDE DEF q
    <3>3. /\ Holds(e, <<"contract", Ref(q)>>, q.contract)
          /\ s \notin F => Holds(e, <<"deployed", s>>, q)
          /\ s \notin F => Holds(e, <<"snapshot", q>>, q)
      BY <1>1, <3>2
    <3> QED
      BY <3>1, <3>2, <3>3
  <2> QED
    BY <2>1, <2>2
<1> QED
  BY <1>2 DEF ManifestsWhole, e

LEMMA IdsExtended ==
  ASSUME NEW d, IdsDistinct(d), NEW pub,
         \A s \in Stems \ {Stem(pub)} :
           <<"manifest", s>> \in DOMAIN d => d[<<"manifest", s>>].id # pub.id
  PROVE  IdsDistinct(Put(d, <<"manifest", Stem(pub)>>, pub))
<1> DEFINE k == <<"manifest", Stem(pub)>>
           e == Put(d, k, pub)
<1>1. /\ Holds(e, k, pub)
      /\ \A x : x # k => (x \in DOMAIN e <=> x \in DOMAIN d)
      /\ \A x : x # k /\ x \in DOMAIN d => e[x] = d[x]
  BY PutHolds
<1>2. \A s : s # Stem(pub) => <<"manifest", s>> # k
  OBVIOUS
<1>3. e[k] = pub
  BY <1>1 DEF Holds
<1> HIDE DEF e
<1>4. ASSUME NEW s \in Stems, NEW t \in Stems, s # t,
             <<"manifest", s>> \in DOMAIN e, <<"manifest", t>> \in DOMAIN e
      PROVE  e[<<"manifest", s>>].id # e[<<"manifest", t>>].id
  <2>1. CASE s = Stem(pub)
    <3>1. /\ <<"manifest", t>> \in DOMAIN d
          /\ e[<<"manifest", t>>] = d[<<"manifest", t>>] /\ e[<<"manifest", s>>] = pub
      BY <1>1, <1>2, <1>3, <1>4, <2>1
    <3> QED
      BY <1>4, <2>1, <3>1
  <2>2. CASE t = Stem(pub)
    <3>1. /\ <<"manifest", s>> \in DOMAIN d
          /\ e[<<"manifest", s>>] = d[<<"manifest", s>>] /\ e[<<"manifest", t>>] = pub
      BY <1>1, <1>2, <1>3, <1>4, <2>2
    <3> QED
      BY <1>4, <2>2, <3>1
  <2>3. CASE s # Stem(pub) /\ t # Stem(pub)
    <3>1. /\ <<"manifest", s>> \in DOMAIN d /\ <<"manifest", t>> \in DOMAIN d
          /\ e[<<"manifest", s>>] = d[<<"manifest", s>>]
          /\ e[<<"manifest", t>>] = d[<<"manifest", t>>]
      BY <1>1, <1>2, <1>4, <2>3
    <3> QED
      BY <1>4, <3>1 DEF IdsDistinct
  <2> QED
    BY <2>1, <2>2, <2>3
<1> QED
  BY <1>4 DEF IdsDistinct, e

LEMMA BundlesExtended ==
  ASSUME NEW d, BundlesWhole(d), NEW pub, Holds(d, <<"manifest", Stem(pub)>>, pub)
  PROVE  BundlesWhole(Put(d, <<"bundle", Ref(pub)>>, pub))
<1> DEFINE k == <<"bundle", Ref(pub)>>
           e == Put(d, k, pub)
<1>1. /\ Holds(e, k, pub)
      /\ \A x : x # k => (x \in DOMAIN e <=> x \in DOMAIN d)
      /\ \A x : x # k /\ x \in DOMAIN d => e[x] = d[x]
      /\ \A x, v : x # k /\ Holds(d, x, v) => Holds(e, x, v)
  BY PutHolds
<1> HIDE DEF e
<1>2. ASSUME NEW ref \in Refs, <<"bundle", ref>> \in DOMAIN e
      PROVE  LET q == e[<<"bundle", ref>>]
             IN Ref(q) = ref /\ Holds(e, <<"manifest", Stem(q)>>, q)
  <2>1. CASE ref = Ref(pub)
    <3>1. e[<<"bundle", ref>>] = pub
      BY <1>1, <2>1 DEF Holds
    <3>2. Holds(e, <<"manifest", Stem(pub)>>, pub)
      BY <1>1
    <3> QED
      BY <2>1, <3>1, <3>2
  <2>2. CASE ref # Ref(pub)
    <3> DEFINE q == d[<<"bundle", ref>>]
    <3>1. <<"bundle", ref>> \in DOMAIN d /\ e[<<"bundle", ref>>] = q
      BY <1>1, <1>2, <2>2
    <3>2. Ref(q) = ref /\ Holds(d, <<"manifest", Stem(q)>>, q)
      BY <3>1 DEF BundlesWhole
    <3> HIDE DEF q
    <3>3. Holds(e, <<"manifest", Stem(q)>>, q)
      BY <1>1, <3>2
    <3> QED
      BY <3>1, <3>2, <3>3
  <2> QED
    BY <2>1, <2>2
<1> QED
  BY <1>2 DEF BundlesWhole, e

LEMMA ReceiptsExtended ==
  ASSUME NEW d, ReceiptsWhole(d), NEW pub, Holds(d, <<"bundle", Ref(pub)>>, pub)
  PROVE  ReceiptsWhole(Put(d, <<"receipt", Ref(pub)>>, pub))
<1> DEFINE k == <<"receipt", Ref(pub)>>
           e == Put(d, k, pub)
<1>1. /\ Holds(e, k, pub)
      /\ \A x : x # k => (x \in DOMAIN e <=> x \in DOMAIN d)
      /\ \A x : x # k /\ x \in DOMAIN d => e[x] = d[x]
      /\ \A x, v : x # k /\ Holds(d, x, v) => Holds(e, x, v)
  BY PutHolds
<1> HIDE DEF e
<1>2. ASSUME NEW ref \in Refs, <<"receipt", ref>> \in DOMAIN e
      PROVE  LET q == e[<<"receipt", ref>>]
             IN Ref(q) = ref /\ Holds(e, <<"bundle", ref>>, q)
  <2>1. CASE ref = Ref(pub)
    <3>1. e[<<"receipt", ref>>] = pub
      BY <1>1, <2>1 DEF Holds
    <3>2. Holds(e, <<"bundle", Ref(pub)>>, pub)
      BY <1>1
    <3> QED
      BY <2>1, <3>1, <3>2
  <2>2. CASE ref # Ref(pub)
    <3> DEFINE q == d[<<"receipt", ref>>]
    <3>1. <<"receipt", ref>> \in DOMAIN d /\ e[<<"receipt", ref>>] = q
      BY <1>1, <1>2, <2>2
    <3>2. Ref(q) = ref /\ Holds(d, <<"bundle", ref>>, q)
      BY <3>1 DEF ReceiptsWhole
    <3> HIDE DEF q
    <3>3. Holds(e, <<"bundle", ref>>, q)
      BY <1>1, <3>2
    <3> QED
      BY <3>1, <3>2, <3>3
  <2> QED
    BY <2>1, <2>2
<1> QED
  BY <1>2 DEF ReceiptsWhole, e

(* A registry takes the entry of a publication whose receipt is in place   *)
(* and loses none.                                                         *)
LEMMA EnteredFacts ==
  ASSUME NEW registry, NEW pub, SameIdentity(registry, pub)
  PROVE  /\ DOMAIN Entered(registry, pub) = DOMAIN registry \cup {Ref(pub)}
         /\ Entered(registry, pub)[Ref(pub)].pub = pub
         /\ \A ref \in DOMAIN registry : Entered(registry, pub)[ref].pub = registry[ref].pub
<1> DEFINE r == Entered(registry, pub)
           entry == [pub |-> pub, state |-> "active"]
<1>1. /\ DOMAIN r = DOMAIN registry \cup {Ref(pub)} /\ r[Ref(pub)] = entry
      /\ \A ref \in DOMAIN registry : ref # Ref(pub) => r[ref] = registry[ref]
  <2>1. r = Put(registry, Ref(pub), entry)
    BY DEF Entered
  <2> HIDE DEF r, entry
  <2> QED
    BY <2>1 DEF Put
<1>2. entry.pub = pub
  OBVIOUS
<1> HIDE DEF r, entry
<1>3. \A ref \in DOMAIN registry : r[ref].pub = registry[ref].pub
  BY <1>1, <1>2 DEF SameIdentity
<1> QED
  BY <1>1, <1>2, <1>3 DEF r

(* The entry that ReadRegistry writes names the publication.               *)
LEMMA EnteredRef ==
  \A registry, pub :
    SameIdentity(registry, pub) =>
      Ref(pub) \in DOMAIN Entered(registry, pub) /\ Entered(registry, pub)[Ref(pub)].pub = pub
<1> SUFFICES ASSUME NEW registry, NEW pub, SameIdentity(registry, pub)
             PROVE  Ref(pub) \in DOMAIN Entered(registry, pub)
                    /\ Entered(registry, pub)[Ref(pub)].pub = pub
  OBVIOUS
<1>1. /\ DOMAIN Entered(registry, pub) = DOMAIN registry \cup {Ref(pub)}
      /\ Entered(registry, pub)[Ref(pub)].pub = pub
  BY EnteredFacts
<1> QED
  BY <1>1

LEMMA EntriesExtended ==
  ASSUME NEW d, EntriesWhole(d), NEW R, ReturnedKept(d, R), NEW pub,
         SameIdentity(RegistryOf(d), pub), Holds(d, <<"receipt", Ref(pub)>>, pub)
  PROVE  /\ EntriesWhole(Put(d, Index, Entered(RegistryOf(d), pub)))
         /\ ReturnedKept(Put(d, Index, Entered(RegistryOf(d), pub)), R)
<1> DEFINE r == Entered(RegistryOf(d), pub)
           e == Put(d, Index, r)
<1>1. /\ DOMAIN r = DOMAIN RegistryOf(d) \cup {Ref(pub)} /\ r[Ref(pub)].pub = pub
      /\ \A ref \in DOMAIN RegistryOf(d) : r[ref].pub = RegistryOf(d)[ref].pub
  BY EnteredFacts
<1> HIDE DEF r
<1>2. RegistryOf(e) = r /\ \A x, v : x # Index /\ Holds(d, x, v) => Holds(e, x, v)
  BY PutHolds
<1> HIDE DEF e
<1>3. \A ref : <<"receipt", ref>> # Index
  BY DEF Index
<1>4. ASSUME NEW ref \in DOMAIN r
      PROVE  Ref(r[ref].pub) = ref /\ Holds(e, <<"receipt", ref>>, r[ref].pub)
  <2>1. CASE ref = Ref(pub)
    BY <1>1, <1>2, <1>3, <2>1
  <2>2. CASE ref \in DOMAIN RegistryOf(d)
    BY <1>1, <1>2, <1>3, <2>2 DEF EntriesWhole
  <2> QED
    BY <1>1, <2>1, <2>2
<1>5. EntriesWhole(e)
  BY <1>2, <1>4 DEF EntriesWhole
<1>6. ReturnedKept(e, R)
  BY <1>1, <1>2 DEF ReturnedKept
<1> QED
  BY <1>5, <1>6 DEF e, r

(* Whether a disk is whole is a matter of what is not loose.               *)
Same(d, e, x) == (x \in DOMAIN d <=> x \in DOMAIN e) /\ (x \in DOMAIN d => d[x] = e[x])
Alike(d, e, F) == \A x : ~ IsLoose(x, F) => Same(d, e, x)

LEMMA AlikeHolds ==
  ASSUME NEW d, NEW e, NEW x, Same(d, e, x)
  PROVE  /\ x \in DOMAIN e <=> x \in DOMAIN d
         /\ x \in DOMAIN e => e[x] = d[x]
         /\ \A c : Holds(d, x, c) => Holds(e, x, c)
BY DEF Same, Holds

LEMMA AlikePaths ==
  ASSUME NEW d, NEW e, NEW F, Alike(d, e, F)
  PROVE  /\ Same(d, e, Index)
         /\ \A y : /\ Same(d, e, <<"manifest", y>>) /\ Same(d, e, <<"contract", y>>)
                   /\ Same(d, e, <<"bundle", y>>) /\ Same(d, e, <<"receipt", y>>)
                   /\ y \notin F => Same(d, e, <<"deployed", y>>)
                   /\ Stem(y) \notin F => Same(d, e, <<"snapshot", y>>)
<1>1. ~ IsLoose(Index, F)
  BY DEF IsLoose, Index
<1>2. \A y : /\ ~ IsLoose(<<"manifest", y>>, F) /\ ~ IsLoose(<<"contract", y>>, F)
             /\ ~ IsLoose(<<"bundle", y>>, F) /\ ~ IsLoose(<<"receipt", y>>, F)
             /\ y \notin F => ~ IsLoose(<<"deployed", y>>, F)
             /\ Stem(y) \notin F => ~ IsLoose(<<"snapshot", y>>, F)
  BY DEF IsLoose
<1> QED
  BY <1>1, <1>2 DEF Alike

LEMMA WholeAlike ==
  ASSUME NEW d, NEW e, NEW R, NEW F, NEW G, F \subseteq G, Whole(d, R, F), Alike(d, e, G)
  PROVE  Whole(e, R, G)
<1>1. /\ Same(d, e, Index)
      /\ \A y : /\ Same(d, e, <<"manifest", y>>) /\ Same(d, e, <<"contract", y>>)
                /\ Same(d, e, <<"bundle", y>>) /\ Same(d, e, <<"receipt", y>>)
                /\ y \notin G => Same(d, e, <<"deployed", y>>)
                /\ Stem(y) \notin G => Same(d, e, <<"snapshot", y>>)
  BY AlikePaths
<1>2. RegistryOf(e) = RegistryOf(d)
  BY <1>1 DEF Same, RegistryOf
<1>3. ManifestsWhole(e, G)
  <2> SUFFICES ASSUME NEW s \in Stems, <<"manifest", s>> \in DOMAIN e
               PROVE  LET pub == e[<<"manifest", s>>]
                      IN /\ Stem(pub) = s
                         /\ Holds(e, <<"contract", Ref(pub)>>, pub.contract)
                         /\ s \notin G => /\ Holds(e, <<"deployed", s>>, pub)
                                          /\ Holds(e, <<"snapshot", pub>>, pub)
    BY DEF ManifestsWhole
  <2> DEFINE pub == d[<<"manifest", s>>]
  <2>1. <<"manifest", s>> \in DOMAIN d /\ e[<<"manifest", s>>] = pub
    BY <1>1 DEF Same
  <2>2. /\ Stem(pub) = s
        /\ Holds(d, <<"contract", Ref(pub)>>, pub.contract)
        /\ s \notin F => Holds(d, <<"deployed", s>>, pub)
        /\ s \notin F => Holds(d, <<"snapshot", pub>>, pub)
    BY <2>1, WholeManifest DEF Whole
  <2> HIDE DEF pub
  <2>3. Holds(e, <<"contract", Ref(pub)>>, pub.contract)
    BY <1>1, <2>2, AlikeHolds
  <2>4. s \notin G => Holds(e, <<"deployed", s>>, pub) /\ Holds(e, <<"snapshot", pub>>, pub)
    BY <1>1, <2>2, AlikeHolds
  <2> QED
    BY <2>1, <2>2, <2>3, <2>4
<1>4. BundlesWhole(e)
  <2> SUFFICES ASSUME NEW ref \in Refs, <<"bundle", ref>> \in DOMAIN e
               PROVE  LET pub == e[<<"bundle", ref>>]
                      IN Ref(pub) = ref /\ Holds(e, <<"manifest", Stem(pub)>>, pub)
    BY DEF BundlesWhole
  <2>1. /\ <<"bundle", ref>> \in DOMAIN d
        /\ e[<<"bundle", ref>>] = d[<<"bundle", ref>>]
    BY <1>1 DEF Same
  <2> QED
    BY <1>1, <2>1, AlikeHolds DEF Whole, BundlesWhole
<1>5. ReceiptsWhole(e)
  <2> SUFFICES ASSUME NEW ref \in Refs, <<"receipt", ref>> \in DOMAIN e
               PROVE  LET pub == e[<<"receipt", ref>>]
                      IN Ref(pub) = ref /\ Holds(e, <<"bundle", ref>>, pub)
    BY DEF ReceiptsWhole
  <2>1. /\ <<"receipt", ref>> \in DOMAIN d
        /\ e[<<"receipt", ref>>] = d[<<"receipt", ref>>]
    BY <1>1 DEF Same
  <2> QED
    BY <1>1, <2>1, AlikeHolds DEF Whole, ReceiptsWhole
<1>6. EntriesWhole(e)
  BY <1>1, <1>2, AlikeHolds DEF Whole, EntriesWhole
<1>7. IdsDistinct(e)
  <2> SUFFICES ASSUME NEW s \in Stems, NEW t \in Stems, s # t,
                      <<"manifest", s>> \in DOMAIN e, <<"manifest", t>> \in DOMAIN e
               PROVE  e[<<"manifest", s>>].id # e[<<"manifest", t>>].id
    BY DEF IdsDistinct
  <2>1. /\ <<"manifest", s>> \in DOMAIN d /\ <<"manifest", t>> \in DOMAIN d
        /\ e[<<"manifest", s>>] = d[<<"manifest", s>>]
        /\ e[<<"manifest", t>>] = d[<<"manifest", t>>]
    BY <1>1 DEF Same
  <2> QED
    BY <2>1 DEF Whole, IdsDistinct
<1>8. ReturnedKept(e, R)
  BY <1>2 DEF Whole, ReturnedKept
<1> QED
  BY <1>3, <1>4, <1>5, <1>6, <1>7, <1>8 DEF Whole

(* Undoing a set of places, path by path.                                  *)
LEMMA AfterFacts ==
  ASSUME NEW d, NEW b, NEW pub, NEW U, NEW x
  PROVE  LET e == After(d, b, pub, U)
             name == Named(pub.id, x)
         IN /\ x \in PathsAt(pub, U) =>
                 (x \in DOMAIN e <=> name \in DOMAIN b) /\ (x \in DOMAIN e => e[x] = b[name])
            /\ x \notin PathsAt(pub, U) => Same(d, e, x) /\ Same(e, d, x)
BY DEF After, Same

LEMMA AfterNothing ==
  ASSUME NEW d, NEW b, NEW pub, NEW F
  PROVE  /\ \A x : Same(d, After(d, b, pub, {}), x)
         /\ Alike(d, After(d, b, pub, {}), F) /\ Alike(After(d, b, pub, {}), d, F)
<1>1. PathsAt(pub, {}) = {}
  BY DEF PathsAt
<1> QED
  BY <1>1, AfterFacts DEF Alike

LEMMA PutSame ==
  ASSUME NEW d, NEW k, NEW c
  PROVE  \A x : x # k => Same(d, Put(d, k, c), x)
BY PutHolds DEF Same

LEMMA AlikeRefl ==
  ASSUME NEW d, NEW F
  PROVE  Alike(d, d, F)
BY DEF Alike, Same

-----------------------------------------------------------------------------
(* Every step keeps the files whole when processes run one at a time.      *)

LEMMA OutputsDistinct ==
  ASSUME NEW pub, NEW i \in 1..7, NEW j \in 1..7, Outputs(pub)[i] = Outputs(pub)[j]
  PROVE  i = j
<1> DEFINE Kind == <<"contract", "deployed", "snapshot", "manifest", "bundle", "receipt", "index">>
<1>1. \A k \in {1, 2, 3, 4, 5, 6, 7} : Outputs(pub)[k][1] = Kind[k]
  BY OutputsAre DEF Index
<1>2. \A k, l \in {1, 2, 3, 4, 5, 6, 7} : Kind[k] = Kind[l] => k = l
  OBVIOUS
<1>3. i \in {1, 2, 3, 4, 5, 6, 7} /\ j \in {1, 2, 3, 4, 5, 6, 7}
  OBVIOUS
<1> HIDE DEF Kind
<1> QED
  BY <1>1, <1>2, <1>3

(* What is published of an output, and whether it may be written again.    *)
LEMMA FixedContent ==
  ASSUME NEW pub, NEW i \in 1..6, NEW registry
  PROVE  /\ Content(Outputs(pub)[i], pub, registry) = Fixed(pub, i)
         /\ Outputs(pub)[i] # Index
         /\ Immutable(Outputs(pub)[i]) <=> i \in {1, 4, 5, 6}
<1>1. i \in {1, 2, 3, 4, 5, 6}
  OBVIOUS
<1>2. CASE i = 1
  BY <1>2, OutputsAre DEF Content, Fixed, Index, Immutable
<1>3. CASE i \in {2, 3}
  BY <1>3, OutputsAre DEF Content, Fixed, Index, Immutable
<1>4. CASE i \in {4, 5, 6}
  BY <1>4, OutputsAre DEF Content, Fixed, Index, Immutable
<1> QED
  BY <1>1, <1>2, <1>3, <1>4

LEMMA RegistryContent ==
  ASSUME NEW pub, NEW registry
  PROVE  Content(Outputs(pub)[7], pub, registry) = registry /\ ~ Immutable(Outputs(pub)[7])
BY OutputsAre DEF Content, Index, Immutable

LEMMA RegistryIs == Registry = RegistryOf(disk)
BY DEF Registry, RegistryOf, Exists

(* With one process at a time, the others are idle.                        *)
LEMMA OthersIdle ==
  ASSUME OneAtATime, NEW p \in Processes, job[p] # Idle
  PROVE  \A q \in Processes \ {p} : job[q] = Idle
BY DEF OneAtATime

LEMMA IdleCall ==
  ASSUME NEW p, job[p] = Idle
  PROVE  CallOK(p)
<1>1. job[p].pc = "idle"
  BY DEF Idle
<1> QED
  BY <1>1 DEF CallOK

(* A step of publisher p disturbs only what is said of its own call.       *)
LEMMA OnlyCall ==
  ASSUME SerialInv, NEW p \in Publishers, Typed',
         \A q \in Processes \ {p} : job[q] = Idle /\ job'[q] = job[q],
         WholeDisk', BackupsShadowTargets', CallOK(p)'
  PROVE  SerialInv'
<1>1. OneAtATime'
  BY DEF OneAtATime
<1>2. job'[Operator] = Idle
  BY ProcessAssumption DEF Processes
<1>3. UpdateOK'
  BY <1>2 DEF UpdateOK
<1>4. \A q \in Publishers : q # p => CallOK(q)'
  <2> SUFFICES ASSUME NEW q \in Publishers, q # p PROVE CallOK(q)'
    OBVIOUS
  <2>1. job'[q] = Idle
    BY DEF Processes
  <2>2. job'[q].pc = "idle"
    BY <2>1 DEF Idle
  <2> QED
    BY <2>2 DEF CallOK
<1> QED
  BY <1>1, <1>3, <1>4 DEF SerialInv

(* The same for a step that leaves the files alone.                        *)
LEMMA OnlyCallInMemory ==
  ASSUME SerialInv, NEW p \in Publishers, NEW j, Typed',
         UNCHANGED <<disk, backup, history>>, job' = [job EXCEPT ![p] = j],
         \A q \in Processes \ {p} : job[q] = Idle,
         CallOK(p)'
  PROVE  SerialInv'
<1>1. \A q \in Processes \ {p} : job'[q] = job[q]
  BY DEF SerialInv, Typed, JobsTyped
<1>2. WholeDisk'
  BY DEF SerialInv, WholeDisk, history
<1>3. BackupsShadowTargets'
  BY DEF SerialInv, BackupsShadowTargets, history
<1> QED
  BY <1>1, <1>2, <1>3, OnlyCall

LEMMA ProcessSets == \A p \in Publishers : p \in Processes /\ p # Operator
BY ProcessAssumption DEF Processes

LEMMA LoadSerial ==
  ASSUME SerialInv, Serial, NEW p \in Publishers, NEW s \in Stems, NEW t \in Times, Load(p, s, t)
  PROVE  SerialInv'
<1> DEFINE j == [pc |-> "compile", time |-> t, approval |-> review[s].approval,
                 source |-> review[s].source, stem |-> s]
<1>1. Typed'
  BY LoadTyped DEF SerialInv
<1>2. job' = [job EXCEPT ![p] = j] /\ UNCHANGED <<disk, backup, history>>
  BY DEF Load, files
<1>3. \A q \in Processes \ {p} : job[q] = Idle
  BY DEF Load, NoOtherProcess
<1>4. job'[p] = j
  BY <1>2, ProcessSets DEF SerialInv, Typed, JobsTyped
<1>5. job'[p].pc = "compile"
  BY <1>4
<1> HIDE DEF j
<1>6. CallOK(p)'
  BY <1>5 DEF CallOK
<1> QED
  BY <1>1, <1>2, <1>3, <1>6, OnlyCallInMemory

LEMMA CompileSerial ==
  ASSUME SerialInv, NEW p \in Publishers, Compile(p)
  PROVE  SerialInv'
<1> DEFINE j == [pc |-> "identify", time |-> job[p].time, approval |-> job[p].approval,
                 contract |-> [policy |-> generated[job[p].stem], source |-> job[p].source,
                               stem |-> job[p].stem]]
<1>1. Typed'
  BY CompileTyped DEF SerialInv
<1>2. job' = [job EXCEPT ![p] = j] /\ UNCHANGED <<disk, backup, history>>
  BY DEF Compile, files
<1>3. job[p] # Idle
  BY DEF Compile, Idle
<1>4. \A q \in Processes \ {p} : job[q] = Idle
  BY <1>3, OthersIdle, ProcessSets DEF SerialInv
<1>5. job'[p] = j
  BY <1>2, ProcessSets DEF SerialInv, Typed, JobsTyped
<1>6. job'[p].pc = "identify"
  BY <1>5
<1> HIDE DEF j
<1>7. CallOK(p)'
  BY <1>6 DEF CallOK
<1> QED
  BY <1>1, <1>2, <1>4, <1>7, OnlyCallInMemory

LEMMA IdFound ==
  ASSUME SerialInv, NEW pub \in Publication, pub.id = PublicationId(Stem(pub))
  PROVE  IdFits(pub)
<1> SUFFICES ASSUME NEW s \in Stems, s # Stem(pub), <<"manifest", s>> \in DOMAIN disk
             PROVE  disk[<<"manifest", s>>].id # pub.id
  BY DEF IdFits
<1>1. <<"manifest", s>> \in Manifests /\ FilesTyped /\ IdsDistinct(disk)
  BY DEF Manifests, SerialInv, Typed, WholeDisk, Whole
<1>2. CASE Exists(<<"manifest", Stem(pub)>>)
  <2>1. pub.id = disk[<<"manifest", Stem(pub)>>].id
    BY <1>2 DEF PublicationId
  <2> QED
    BY <1>1, <1>2, <2>1, PublicationParts DEF IdsDistinct, Exists
<1>3. CASE ~ Exists(<<"manifest", Stem(pub)>>)
  <2>1. pub.id = NextPublicationSequence
    BY <1>3 DEF PublicationId
  <2>2. /\ disk[<<"manifest", s>>].id < NextPublicationSequence
        /\ disk[<<"manifest", s>>].id \in Nat /\ NextPublicationSequence \in Nat
    BY <1>1, NewId, ManifestTyped
  <2> QED
    BY <2>1, <2>2
<1> QED
  BY <1>2, <1>3

LEMMA IdentifySerial ==
  ASSUME SerialInv, NEW p \in Publishers, Identify(p)
  PROVE  SerialInv'
<1> DEFINE pub == [id |-> PublicationId(job[p].contract.stem), time |-> job[p].time,
                   approval |-> job[p].approval, contract |-> job[p].contract]
           j == [pc |-> "register", pub |-> pub]
<1>1. Typed'
  BY IdentifyTyped DEF SerialInv
<1>2. job' = [job EXCEPT ![p] = j] /\ UNCHANGED <<disk, backup, history>>
  BY DEF Identify, files
<1>3. job[p] # Idle
  BY DEF Identify, Idle
<1>4. \A q \in Processes \ {p} : job[q] = Idle
  BY <1>3, OthersIdle, ProcessSets DEF SerialInv
<1>5. job'[p] = j
  BY <1>2, ProcessSets DEF SerialInv, Typed, JobsTyped
<1>6. job'[p].pc = "register" /\ job'[p].pub = pub
  BY <1>5
<1>7. pub \in Publication
  <2>1. job'[p].pub \in Publication
    BY <1>1, <1>6, JobCases DEF Typed, JobsTyped
  <2> QED
    BY <1>6, <2>1
<1>8. pub.id = PublicationId(Stem(pub))
  BY DEF Stem
<1> HIDE DEF pub, j
<1>9. IdFits(pub)
  BY <1>7, <1>8, IdFound
<1>10. IdFits(job[p].pub)'
  BY <1>2, <1>6, <1>9 DEF IdFits
<1>11. CallOK(p)'
  BY <1>6, <1>10 DEF CallOK
<1> QED
  BY <1>1, <1>2, <1>4, <1>11, OnlyCallInMemory

LEMMA ReadRegistrySerial ==
  ASSUME SerialInv, NEW p \in Publishers, ReadRegistry(p)
  PROVE  SerialInv'
<1> DEFINE pub == job[p].pub
           j == [pc |-> "stage", pub |-> pub, registry |-> Entered(Registry, pub)]
<1>1. Typed'
  BY ReadRegistryTyped DEF SerialInv
<1>2. job' = [job EXCEPT ![p] = IF SameIdentity(Registry, pub) THEN j ELSE Idle]
      /\ UNCHANGED <<disk, backup, history>>
  BY DEF ReadRegistry, files, Entered
<1>3. job[p] # Idle /\ IdFits(pub)
  BY DEF ReadRegistry, Idle, SerialInv, CallOK
<1>4. \A q \in Processes \ {p} : job[q] = Idle
  BY <1>3, OthersIdle, ProcessSets DEF SerialInv
<1>5. job'[p] = IF SameIdentity(Registry, pub) THEN j ELSE Idle
  BY <1>2, ProcessSets DEF SerialInv, Typed, JobsTyped
<1>6. CASE SameIdentity(Registry, pub)
  <2>1. /\ job'[p].pc = "stage" /\ job'[p].pub = pub
        /\ job'[p].registry = Entered(Registry, pub)
    BY <1>5, <1>6
  <2>2. Registry' = Registry
    BY <1>2 DEF Registry, Exists
  <2> HIDE DEF pub, j
  <2>3. IdFits(job[p].pub)'
    BY <1>2, <1>3, <2>1 DEF IdFits
  <2>4. CallOK(p)'
    BY <1>6, <2>1, <2>2, <2>3 DEF CallOK
  <2> QED
    BY <1>1, <1>2, <1>4, <2>4, OnlyCallInMemory
<1>7. CASE ~ SameIdentity(Registry, pub)
  <2>1. job'[p].pc = "idle"
    BY <1>5, <1>7 DEF Idle
  <2>2. CallOK(p)'
    BY <2>1 DEF CallOK
  <2> HIDE DEF pub, j
  <2> QED
    BY <1>1, <1>2, <1>4, <2>2, OnlyCallInMemory
<1> QED
  BY <1>6, <1>7

(* What stage_json writes of the immutable outputs is nowhere yet, and has *)
(* no backup.                                                              *)
LEMMA StagedFresh ==
  ASSUME SerialInv, NEW p \in Publishers, NEW S \in SUBSET (1..7),
         \A i \in S : ~ Conflict(Outputs(job[p].pub)[i], Payload(p, Outputs(job[p].pub)[i]))
  PROVE  /\ NotYet(job[p].pub, ToStage(p, S))
         /\ NoOldBackups(job[p].pub, ToStage(p, S))
<1> DEFINE pub == job[p].pub
<1>1. ASSUME NEW i \in ToStage(p, S) \ {2, 3, 7}
      PROVE  Outputs(pub)[i] \notin DOMAIN disk /\ ~ IsLoose(Outputs(pub)[i], faulted)
  <2>1. i \in S /\ ~ Confirmed(Outputs(pub)[i], Payload(p, Outputs(pub)[i]))
    BY <1>1 DEF ToStage
  <2>2. i \in 1..6 /\ i \in {1, 4, 5, 6}
    BY <1>1, <2>1
  <2>3. Immutable(Outputs(pub)[i])
    BY <2>2, FixedContent
  <2>4. ~ Conflict(Outputs(pub)[i], Payload(p, Outputs(pub)[i]))
    BY <2>1
  <2> QED
    BY <2>1, <2>3, <2>4 DEF Conflict, Confirmed, Exists, Immutable, IsLoose
<1>2. \A i : TempOf(pub, i)[2] = Outputs(pub)[i]
  BY TempIsNamed
<1>3. \A n \in DOMAIN backup : n[2] \in DOMAIN disk \/ IsLoose(n[2], faulted)
  BY DEF SerialInv, BackupsShadowTargets, Shadowed
<1> HIDE DEF pub
<1>4. NotYet(pub, ToStage(p, S))
  BY <1>1 DEF NotYet
<1>5. NoOldBackups(pub, ToStage(p, S))
  BY <1>1, <1>2, <1>3 DEF NoOldBackups
<1> QED
  BY <1>4, <1>5 DEF pub

(* Where nothing is committed, a rollback leads to where one is.           *)
LEMMA LeadsNowhere ==
  ASSUME SerialInv, NEW pub
  PROVE  LeadsBack(pub, {})
<1>1. \A k : From({}, k) = {}
  BY DEF From
<1>2. Whole(After(disk, backup, pub, {}), returned, faulted)
  BY AfterNothing, WholeAlike DEF SerialInv, WholeDisk
<1>3. Shadowed(backup, After(disk, backup, pub, {}), faulted)
  BY AfterNothing DEF SerialInv, BackupsShadowTargets, Shadowed, Same
<1> QED
  BY <1>1, <1>2, <1>3 DEF LeadsBack

(* What is said of a call depends on the outputs and backups only.         *)
LEMMA SameFiles ==
  ASSUME UNCHANGED <<disk, backup, history>>
  PROVE  /\ Registry' = Registry
         /\ \A pub : SameIdentity(Registry', pub) <=> SameIdentity(Registry, pub)
         /\ \A pub, S : NotYet(pub, S)' <=> NotYet(pub, S)
         /\ \A pub, S : NoOldBackups(pub, S)' <=> NoOldBackups(pub, S)
         /\ \A pub, S : LeadsBack(pub, S)' <=> LeadsBack(pub, S)
<1>1. disk' = disk /\ backup' = backup /\ returned' = returned /\ faulted' = faulted
  BY DEF history
<1>2. Registry' = Registry
  BY <1>1 DEF Registry, Exists
<1>3. \A pub, S : LeadsBack(pub, S)' <=> LeadsBack(pub, S)
  BY <1>1 DEF LeadsBack
<1>4. /\ \A pub, S : NotYet(pub, S)' <=> NotYet(pub, S)
      /\ \A pub, S : NoOldBackups(pub, S)' <=> NoOldBackups(pub, S)
  BY <1>1 DEF NotYet, NoOldBackups
<1> QED
  BY <1>2, <1>3, <1>4

(* A call that has staged everything has written none of it yet.           *)
LEMMA StageSerial ==
  ASSUME SerialInv, NEW p \in Publishers, Stage(p)
  PROVE  SerialInv'
<1>0. PICK pub, staged : pub = job[p].pub /\ staged = ToStage(p, 1..7)
  OBVIOUS
<1> DEFINE j == [pc |-> "commit", pub |-> pub, staged |-> staged, committed |-> {}]
<1>1. Typed'
  BY StageTyped DEF SerialInv
<1>2. /\ job[p].pc = "stage"
      /\ UNCHANGED <<disk, backup, history>>
      /\ \A i \in 1..7 : ~ Conflict(Outputs(pub)[i], Payload(p, Outputs(pub)[i]))
      /\ staged \in SUBSET (1..7)
      /\ temp' = Written(p, staged)
      /\ job' = [job EXCEPT ![p] = j]
  BY <1>0, StageFacts
<1>3. /\ job[p] # Idle /\ IdFits(pub) /\ SameIdentity(Registry, pub)
      /\ job[p].registry = Entered(Registry, pub)
  BY <1>0, <1>2 DEF Idle, SerialInv, CallOK
<1>4. \A q \in Processes \ {p} : job[q] = Idle
  BY <1>3, OthersIdle, ProcessSets DEF SerialInv
<1>5. job'[p] = j
  BY <1>2, ProcessSets DEF SerialInv, Typed, JobsTyped
<1>6. /\ job'[p].pc = "commit" /\ job'[p].pub = pub
      /\ job'[p].staged = staged /\ job'[p].committed = {}
  BY <1>5
<1>7. \A i \in 1..6 : Payload(p, Outputs(pub)[i]) = Fixed(pub, i)
  BY <1>0, FixedContent DEF Payload
<1>8. Payload(p, Outputs(pub)[7]) = Entered(Registry, pub)
  BY <1>0, <1>3, RegistryContent DEF Payload
<1>9. \A i \in staged : TempOf(pub, i) \in DOMAIN temp'
                        /\ temp'[TempOf(pub, i)] = Payload(p, Outputs(pub)[i])
  <2>1. \A i \in staged :
          /\ TempOf(job[p].pub, i) \in DOMAIN temp'
          /\ temp'[TempOf(job[p].pub, i)] = Payload(p, Outputs(job[p].pub)[i])
    <3>1. /\ DOMAIN temp' = {TempOf(job[p].pub, i) : i \in staged} \cup DOMAIN temp
          /\ \A i \in staged : temp'[TempOf(job[p].pub, i)] = Payload(p, Outputs(job[p].pub)[i])
      BY <1>2, WrittenFacts
    <3> QED
      BY <3>1
  <2> QED
    BY <1>0, <2>1
<1>10. NotYet(pub, staged) /\ NoOldBackups(pub, staged)
  BY <1>0, <1>2, StagedFresh
<1>11. \A i \in (1..7) \ staged : i \in {1, 4, 5, 6} /\ Holds(disk, Outputs(pub)[i], Fixed(pub, i))
  <2> SUFFICES ASSUME NEW i \in (1..7) \ staged
               PROVE  i \in {1, 4, 5, 6} /\ Holds(disk, Outputs(pub)[i], Fixed(pub, i))
    OBVIOUS
  <2>1. /\ Immutable(Outputs(pub)[i]) /\ Exists(Outputs(pub)[i])
        /\ disk[Outputs(pub)[i]] = Payload(p, Outputs(pub)[i])
    BY <1>0 DEF ToStage, Confirmed
  <2>2. i \in 1..6
    BY <2>1, RegistryContent
  <2> QED
    BY <1>7, <2>1, <2>2, FixedContent DEF Holds, Exists
<1> HIDE DEF j
<1>12. \A i \in staged : i \in 1..7 /\ (i # 7 => i \in 1..6)
  BY <1>2
<1>13. {2, 3, 7} \subseteq staged
  BY <1>11
<1>14. /\ Registry' = Registry /\ (SameIdentity(Registry', pub) <=> SameIdentity(Registry, pub))
       /\ NotYet(pub, staged)' /\ NoOldBackups(pub, staged)' /\ LeadsBack(pub, {})'
  BY <1>2, <1>10, LeadsNowhere, SameFiles
<1>15. CommitOK(p)'
  <2>1. staged \ {} = staged
    OBVIOUS
  <2>2. \A i \in (1..6) \ staged : Holds(disk, Outputs(pub)[i], Fixed(pub, i))
    BY <1>11
  <2>3. \A i \in staged \ {7} : Holds(temp', TempOf(pub, i), Fixed(pub, i))
    BY <1>7, <1>9, <1>12 DEF Holds
  <2>4. Holds(temp', TempOf(pub, 7), Entered(Registry, pub))
    BY <1>8, <1>9, <1>13 DEF Holds
  <2>5. NotYet(job[p].pub, job[p].staged \ job[p].committed)'
    BY <1>6, <1>14, <2>1 DEF NotYet
  <2>6. NoOldBackups(job[p].pub, job[p].staged)'
    BY <1>6, <1>14 DEF NoOldBackups
  <2>7. LeadsBack(job[p].pub, job[p].committed)'
    BY <1>6, <1>14 DEF LeadsBack
  <2> QED
    BY <1>2, <1>3, <1>6, <1>13, <1>14, <2>1, <2>2, <2>3, <2>4, <2>5, <2>6, <2>7 DEF CommitOK
<1>16. IdFits(job[p].pub)'
  BY <1>2, <1>3, <1>6 DEF IdFits
<1>17. CallOK(p)'
  BY <1>6, <1>15, <1>16 DEF CallOK
<1> QED
  BY <1>1, <1>2, <1>4, <1>17, OnlyCallInMemory

(* A call that could not stage has nothing to undo.                        *)
LEMMA StageFaultSerial ==
  ASSUME SerialInv, NEW p \in Publishers, StageFault(p)
  PROVE  SerialInv'
<1>1. PICK i \in 1..7 : StageFaultAt(p, i)
  BY StageFaultIsAt
<1>0. PICK pub, staged : pub = job[p].pub /\ staged = ToStage(p, 1..i - 1)
  OBVIOUS
<1> DEFINE j == [pc |-> "rollback", pub |-> pub, staged |-> staged,
                 committed |-> {}, undo |-> {}, nested |-> FALSE]
<1>2. /\ job[p].pc = "stage"
      /\ UNCHANGED <<disk, backup, history>>
      /\ \A k \in 1..i - 1 : ~ Conflict(Outputs(pub)[k], Payload(p, Outputs(pub)[k]))
      /\ job' = [job EXCEPT ![p] = j]
  BY <1>0, <1>1 DEF StageFaultAt
<1>3. Typed' /\ job[p] # Idle
  BY <1>2, StageFaultTyped DEF SerialInv, Idle
<1>4. \A q \in Processes \ {p} : job[q] = Idle
  BY <1>3, OthersIdle, ProcessSets DEF SerialInv
<1>5. job'[p] = j
  BY <1>2, ProcessSets DEF SerialInv, Typed, JobsTyped
<1>6. /\ job'[p].pc = "rollback" /\ job'[p].pub = pub /\ job'[p].staged = staged
      /\ job'[p].committed = {} /\ job'[p].undo = {} /\ ~ job'[p].nested
  BY <1>5
<1>7. NotYet(pub, staged) /\ NoOldBackups(pub, staged)
  <2>1. 1..i - 1 \in SUBSET (1..7)
    OBVIOUS
  <2> QED
    BY <1>0, <1>2, <2>1, StagedFresh
<1> HIDE DEF j
<1>8. NotYet(pub, staged)' /\ NoOldBackups(pub, staged)' /\ LeadsBack(pub, {})'
  BY <1>2, <1>7, LeadsNowhere, SameFiles
<1>9. RollbackOK(p)'
  <2>1. NotYet(job[p].pub, job[p].staged \ job[p].undo)'
    <3>1. staged \ {} = staged
      OBVIOUS
    <3> QED
      BY <1>6, <1>8, <3>1 DEF NotYet
  <2>2. NoOldBackups(job[p].pub, job[p].staged)'
    BY <1>6, <1>8 DEF NoOldBackups
  <2>3. LeadsBack(job[p].pub, job[p].undo)'
    BY <1>6, <1>8 DEF LeadsBack
  <2> QED
    BY <1>6, <2>1, <2>2, <2>3 DEF RollbackOK
<1>10. CallOK(p)'
  BY <1>6, <1>9 DEF CallOK
<1> QED
  BY <1>2, <1>3, <1>4, <1>10, OnlyCallInMemory

(* What the rename at place i is about to write, and over what.            *)
LEMMA CommitFinds ==
  ASSUME SerialInv, NEW p \in Publishers, NEW i, CommitAt(p, i)
  PROVE  LET pub == job[p].pub
         IN /\ CommitOK(p) /\ IdFits(pub) /\ pub \in Publication /\ i \in 1..7
            /\ \A k \in 1..6 : k < i => Holds(disk, Outputs(pub)[k], Fixed(pub, k))
            /\ i \in {1, 4, 5, 6} => Outputs(pub)[i] \notin DOMAIN disk
            /\ i \in 1..6 => temp[TempOf(pub, i)] = Fixed(pub, i)
            /\ i = 7 => /\ temp[TempOf(pub, 7)] = Entered(Registry, pub)
                        /\ SameIdentity(Registry, pub)
            /\ <<"manifest", Stem(pub)>> \in DOMAIN disk => disk[<<"manifest", Stem(pub)>>] = pub
<1> DEFINE pub == job[p].pub
           waiting == job[p].staged \ job[p].committed
<1>1. /\ CommitOK(p) /\ IdFits(pub) /\ pub \in Publication
      /\ job[p].staged \subseteq 1..7
  BY JobCases DEF CommitAt, SerialInv, CallOK, Typed, JobsTyped
<1>2. /\ i \in waiting /\ i \in 1..7 /\ \A k \in waiting : i <= k
  BY <1>1 DEF CommitAt
<1>3. /\ \A k \in (1..6) \ waiting : Holds(disk, Outputs(pub)[k], Fixed(pub, k))
      /\ \A k \in waiting \ {7} : Holds(temp, TempOf(pub, k), Fixed(pub, k))
      /\ \A k \in waiting \ {2, 3, 7} : Outputs(pub)[k] \notin DOMAIN disk
      /\ 7 \in waiting => /\ SameIdentity(Registry, pub)
                          /\ Holds(temp, TempOf(pub, 7), Entered(Registry, pub))
  BY <1>1 DEF CommitOK, NotYet
<1>4. Outputs(pub)[4] = <<"manifest", Stem(pub)>>
  BY OutputsAre
<1> HIDE DEF pub, waiting
<1>5. \A k \in 1..6 : k < i => Holds(disk, Outputs(pub)[k], Fixed(pub, k))
  BY <1>2, <1>3
<1>6. i \in {1, 4, 5, 6} => Outputs(pub)[i] \notin DOMAIN disk
  BY <1>2, <1>3
<1>7. i \in 1..6 => temp[TempOf(pub, i)] = Fixed(pub, i)
  BY <1>2, <1>3 DEF Holds
<1>8. i = 7 => /\ temp[TempOf(pub, 7)] = Entered(Registry, pub)
               /\ SameIdentity(Registry, pub)
  BY <1>2, <1>3 DEF Holds
<1>9. <<"manifest", Stem(pub)>> \in DOMAIN disk => disk[<<"manifest", Stem(pub)>>] = pub
  <2>1. CASE 4 \in waiting
    BY <1>3, <1>4, <2>1
  <2>2. CASE 4 \notin waiting
    <3>1. Holds(disk, Outputs(pub)[4], Fixed(pub, 4))
      BY <1>3, <2>2
    <3> QED
      BY <1>4, <3>1 DEF Holds, Fixed
  <2> QED
    BY <2>1, <2>2
<1> QED
  BY <1>1, <1>2, <1>5, <1>6, <1>7, <1>8, <1>9 DEF pub

(* Whatever place it is at, a rename leaves a whole disk.                  *)
LEMMA CommitWhole ==
  ASSUME SerialInv, NEW p \in Publishers, NEW i, CommitAt(p, i)
  PROVE  Whole(disk', returned, faulted)
<1> DEFINE pub == job[p].pub
           k == Outputs(pub)[i]
           c == temp[TempOf(pub, i)]
<1>1. /\ IdFits(pub) /\ pub \in Publication /\ i \in 1..7
      /\ \A l \in 1..6 : l < i => Holds(disk, Outputs(pub)[l], Fixed(pub, l))
      /\ i \in {1, 4, 5, 6} => Outputs(pub)[i] \notin DOMAIN disk
      /\ i \in 1..6 => temp[TempOf(pub, i)] = Fixed(pub, i)
      /\ i = 7 => /\ temp[TempOf(pub, 7)] = Entered(Registry, pub)
                  /\ SameIdentity(Registry, pub)
      /\ <<"manifest", Stem(pub)>> \in DOMAIN disk => disk[<<"manifest", Stem(pub)>>] = pub
  BY CommitFinds
<1>2. disk' = Put(disk, k, c)
  BY DEF CommitAt
<1>3. /\ ManifestsWhole(disk, faulted) /\ BundlesWhole(disk) /\ ReceiptsWhole(disk)
      /\ EntriesWhole(disk) /\ IdsDistinct(disk) /\ ReturnedKept(disk, returned)
  BY DEF SerialInv, WholeDisk, Whole
<1>4. /\ Outputs(pub)[1] = <<"contract", Ref(pub)>>
      /\ Outputs(pub)[2] = <<"deployed", Stem(pub)>>
      /\ Outputs(pub)[3] = <<"snapshot", pub>>
      /\ Outputs(pub)[4] = <<"manifest", Stem(pub)>>
      /\ Outputs(pub)[5] = <<"bundle", Ref(pub)>>
      /\ Outputs(pub)[6] = <<"receipt", Ref(pub)>>
      /\ Outputs(pub)[7] = Index
  BY OutputsAre
<1> HIDE DEF pub, k, c
<1>5. i \in 1..6 /\ i # 1 => c = pub
  BY <1>1 DEF c, Fixed, pub
<1>6. CASE i = 1
  <2>1. k = <<"contract", Ref(pub)>> /\ k \notin DOMAIN disk
    BY <1>1, <1>4, <1>6 DEF k
  <2>2. /\ \A s : k # <<"manifest", s>>
        /\ \A s : k # <<"deployed", s>>
        /\ \A x : k # <<"snapshot", x>> /\ k # <<"bundle", x>> /\ k # <<"receipt", x>>
        /\ k # Index
    BY <2>1 DEF Index
  <2>3. ManifestsWhole(Put(disk, k, c), faulted)
    BY <1>3, <2>1, <2>2, ManifestsKept
  <2>4. BundlesWhole(Put(disk, k, c)) /\ ReceiptsWhole(Put(disk, k, c))
    BY <1>3, <2>2, BundlesKept, ReceiptsKept
  <2>5. /\ EntriesWhole(Put(disk, k, c)) /\ IdsDistinct(Put(disk, k, c))
        /\ ReturnedKept(Put(disk, k, c), returned)
    BY <1>3, <2>2, EntriesKept, IdsKept, ReturnedStay
  <2> QED
    BY <1>2, <2>3, <2>4, <2>5 DEF Whole
<1>7. CASE i = 2
  <2>1. k = <<"deployed", Stem(pub)>> /\ c = pub
    BY <1>1, <1>4, <1>5, <1>7 DEF k
  <2>2. /\ \A s : k # <<"manifest", s>>
        /\ \A x : k # <<"contract", x>> /\ k # <<"snapshot", x>>
        /\ \A x : k # <<"bundle", x>> /\ k # <<"receipt", x>>
        /\ k # Index
    BY <2>1 DEF Index
  <2>3. \A s \in Stems : k = <<"deployed", s>> /\ <<"manifest", s>> \in DOMAIN disk =>
          disk[<<"manifest", s>>] = c
    BY <1>1, <2>1
  <2>4. ManifestsWhole(Put(disk, k, c), faulted)
    BY <1>3, <2>2, <2>3, ManifestsKept
  <2>5. BundlesWhole(Put(disk, k, c)) /\ ReceiptsWhole(Put(disk, k, c))
    BY <1>3, <2>2, BundlesKept, ReceiptsKept
  <2>6. /\ EntriesWhole(Put(disk, k, c)) /\ IdsDistinct(Put(disk, k, c))
        /\ ReturnedKept(Put(disk, k, c), returned)
    BY <1>3, <2>2, EntriesKept, IdsKept, ReturnedStay
  <2> QED
    BY <1>2, <2>4, <2>5, <2>6 DEF Whole
<1>8. CASE i = 3
  <2>1. k = <<"snapshot", pub>> /\ c = pub
    BY <1>1, <1>4, <1>5, <1>8 DEF k
  <2>2. /\ \A s : k # <<"manifest", s>> /\ k # <<"deployed", s>>
        /\ \A x : k # <<"contract", x>> /\ k # <<"bundle", x>> /\ k # <<"receipt", x>>
        /\ \A x : k = <<"snapshot", x>> => c = x
        /\ k # Index
    BY <2>1 DEF Index
  <2>3. ManifestsWhole(Put(disk, k, c), faulted)
    BY <1>3, <2>2, ManifestsKept
  <2>4. BundlesWhole(Put(disk, k, c)) /\ ReceiptsWhole(Put(disk, k, c))
    BY <1>3, <2>2, BundlesKept, ReceiptsKept
  <2>5. /\ EntriesWhole(Put(disk, k, c)) /\ IdsDistinct(Put(disk, k, c))
        /\ ReturnedKept(Put(disk, k, c), returned)
    BY <1>3, <2>2, EntriesKept, IdsKept, ReturnedStay
  <2> QED
    BY <1>2, <2>3, <2>4, <2>5 DEF Whole
<1>9. CASE i = 4
  <2>1. k = <<"manifest", Stem(pub)>> /\ c = pub /\ k \notin DOMAIN disk
    BY <1>1, <1>4, <1>5, <1>9 DEF k
  <2>2. /\ \A x : k # <<"bundle", x>> /\ k # <<"receipt", x>>
        /\ k # Index
    BY <2>1 DEF Index
  <2>3. /\ Holds(disk, <<"contract", Ref(pub)>>, pub.contract)
        /\ Holds(disk, <<"deployed", Stem(pub)>>, pub)
        /\ Holds(disk, <<"snapshot", pub>>, pub)
    <3>1. Fixed(pub, 1) = pub.contract /\ Fixed(pub, 2) = pub /\ Fixed(pub, 3) = pub
      BY DEF Fixed
    <3> QED
      BY <1>1, <1>4, <1>9, <3>1
  <2>4. ManifestsWhole(Put(disk, k, c), faulted)
    BY <1>1, <1>3, <2>1, <2>3, ManifestsExtended
  <2>5. BundlesWhole(Put(disk, k, c)) /\ ReceiptsWhole(Put(disk, k, c))
    BY <1>3, <2>1, <2>2, BundlesKept, ReceiptsKept
  <2>6. EntriesWhole(Put(disk, k, c)) /\ ReturnedKept(Put(disk, k, c), returned)
    BY <1>3, <2>2, EntriesKept, ReturnedStay
  <2>7. IdsDistinct(Put(disk, k, c))
    BY <1>1, <1>3, <2>1, IdsExtended DEF IdFits
  <2> QED
    BY <1>2, <2>4, <2>5, <2>6, <2>7 DEF Whole
<1>10. CASE i = 5
  <2>1. k = <<"bundle", Ref(pub)>> /\ c = pub /\ k \notin DOMAIN disk
    BY <1>1, <1>4, <1>5, <1>10 DEF k
  <2>2. /\ \A s : k # <<"manifest", s>> /\ k # <<"deployed", s>>
        /\ \A x : k # <<"contract", x>> /\ k # <<"snapshot", x>> /\ k # <<"receipt", x>>
        /\ k # Index
    BY <2>1 DEF Index
  <2>3. Holds(disk, <<"manifest", Stem(pub)>>, pub)
    <3>1. Fixed(pub, 4) = pub
      BY DEF Fixed
    <3> QED
      BY <1>1, <1>4, <1>10, <3>1
  <2>4. ManifestsWhole(Put(disk, k, c), faulted)
    BY <1>3, <2>2, ManifestsKept
  <2>5. BundlesWhole(Put(disk, k, c)) /\ ReceiptsWhole(Put(disk, k, c))
    BY <1>3, <2>1, <2>2, <2>3, BundlesExtended, ReceiptsKept
  <2>6. /\ EntriesWhole(Put(disk, k, c)) /\ IdsDistinct(Put(disk, k, c))
        /\ ReturnedKept(Put(disk, k, c), returned)
    BY <1>3, <2>2, EntriesKept, IdsKept, ReturnedStay
  <2> QED
    BY <1>2, <2>4, <2>5, <2>6 DEF Whole
<1>11. CASE i = 6
  <2>1. k = <<"receipt", Ref(pub)>> /\ c = pub /\ k \notin DOMAIN disk
    BY <1>1, <1>4, <1>5, <1>11 DEF k
  <2>2. /\ \A s : k # <<"manifest", s>> /\ k # <<"deployed", s>>
        /\ \A x : k # <<"contract", x>> /\ k # <<"snapshot", x>> /\ k # <<"bundle", x>>
        /\ k # Index
    BY <2>1 DEF Index
  <2>3. Holds(disk, <<"bundle", Ref(pub)>>, pub)
    <3>1. Fixed(pub, 5) = pub
      BY DEF Fixed
    <3> QED
      BY <1>1, <1>4, <1>11, <3>1
  <2>4. ManifestsWhole(Put(disk, k, c), faulted)
    BY <1>3, <2>2, ManifestsKept
  <2>5. BundlesWhole(Put(disk, k, c)) /\ ReceiptsWhole(Put(disk, k, c))
    BY <1>3, <2>1, <2>2, <2>3, BundlesKept, ReceiptsExtended
  <2>6. /\ EntriesWhole(Put(disk, k, c)) /\ IdsDistinct(Put(disk, k, c))
        /\ ReturnedKept(Put(disk, k, c), returned)
    BY <1>3, <2>1, <2>2, EntriesKept, IdsKept, ReturnedStay
  <2> QED
    BY <1>2, <2>4, <2>5, <2>6 DEF Whole
<1>12. CASE i = 7
  <2>1. k = Index /\ c = Entered(RegistryOf(disk), pub) /\ SameIdentity(RegistryOf(disk), pub)
    BY <1>1, <1>4, <1>12, RegistryIs DEF k, c, pub
  <2>2. \A x : /\ k # <<"manifest", x>> /\ k # <<"deployed", x>> /\ k # <<"contract", x>>
               /\ k # <<"snapshot", x>> /\ k # <<"bundle", x>> /\ k # <<"receipt", x>>
    BY <2>1 DEF Index
  <2>3. Holds(disk, <<"receipt", Ref(pub)>>, pub)
    <3>1. Fixed(pub, 6) = pub
      BY DEF Fixed
    <3> QED
      BY <1>1, <1>4, <1>12, <3>1
  <2>4. ManifestsWhole(Put(disk, k, c), faulted)
    BY <1>3, <2>2, ManifestsKept
  <2>5. BundlesWhole(Put(disk, k, c)) /\ ReceiptsWhole(Put(disk, k, c))
    BY <1>3, <2>2, BundlesKept, ReceiptsKept
  <2>6. EntriesWhole(Put(disk, k, c)) /\ ReturnedKept(Put(disk, k, c), returned)
    BY <1>3, <2>1, <2>3, EntriesExtended
  <2>7. IdsDistinct(Put(disk, k, c))
    BY <1>3, <2>2, IdsKept
  <2> QED
    BY <1>2, <2>4, <2>5, <2>6, <2>7 DEF Whole
<1> QED
  <2>1. i \in {1, 2, 3, 4, 5, 6, 7}
    BY <1>1
  <2> QED
    BY <1>6, <1>7, <1>8, <1>9, <1>10, <1>11, <1>12, <2>1

(* A rename does not change where a rollback would lead: what it replaces  *)
(* is backed up, and where it replaces nothing there is no old backup.     *)
LEMMA CommitAlike ==
  ASSUME SerialInv, NEW p \in Publishers, NEW i \in 1..7, CommitAt(p, i),
         NEW U \in SUBSET (1..7), i \notin U
  PROVE  Alike(After(disk, backup, job[p].pub, U),
               After(disk', backup', job[p].pub, U \cup {i}), faulted)
<1> DEFINE pub == job[p].pub
           path == Outputs(pub)[i]
           name == TempOf(pub, i)
           old == After(disk, backup, pub, U)
           V == U \cup {i}
           new == After(disk', backup', pub, V)
<1>1. /\ backup' = IF Exists(path) THEN Put(backup, name, disk[path]) ELSE backup
      /\ disk' = Put(disk, path, temp[name])
  BY DEF CommitAt
<1>2. name = Named(pub.id, path) /\ name[2] = path
      /\ \A x : Named(pub.id, x) = name => x = path
  BY DEF TempOf, Named
<1>3. /\ PathsAt(pub, U \cup {i}) = PathsAt(pub, U) \cup {path}
      /\ path \notin PathsAt(pub, U)
  BY OutputsDistinct DEF PathsAt
<1>4. \A n \in DOMAIN backup : n[2] \in DOMAIN disk \/ IsLoose(n[2], faulted)
  BY DEF SerialInv, BackupsShadowTargets, Shadowed
<1>5. \A x : /\ x \in PathsAt(pub, U) =>
                  (x \in DOMAIN old <=> Named(pub.id, x) \in DOMAIN backup)
                  /\ (x \in DOMAIN old => old[x] = backup[Named(pub.id, x)])
             /\ x \notin PathsAt(pub, U) => Same(disk, old, x)
  BY AfterFacts
<1>6. \A x : /\ x \in PathsAt(pub, U) \cup {path} =>
                  (x \in DOMAIN new <=> Named(pub.id, x) \in DOMAIN backup')
                  /\ (x \in DOMAIN new => new[x] = backup'[Named(pub.id, x)])
             /\ x \notin PathsAt(pub, U) \cup {path} => Same(disk', new, x)
  <2>1. \A x : /\ x \in PathsAt(pub, V) =>
                    (x \in DOMAIN new <=> Named(pub.id, x) \in DOMAIN backup')
                    /\ (x \in DOMAIN new => new[x] = backup'[Named(pub.id, x)])
               /\ x \notin PathsAt(pub, V) => Same(disk', new, x)
    <3> HIDE DEF V
    <3> QED BY AfterFacts
  <2> HIDE DEF new, pub, path
  <2> QED
    BY <1>3, <2>1
<1> HIDE DEF pub, path, name, old, new
<1>7. /\ \A n : n # name => (n \in DOMAIN backup' <=> n \in DOMAIN backup)
      /\ \A n \in DOMAIN backup : n # name => backup'[n] = backup[n]
      /\ path \in DOMAIN disk => name \in DOMAIN backup' /\ backup'[name] = disk[path]
      /\ path \notin DOMAIN disk => backup' = backup
  BY <1>1, BackedUp DEF Exists
<1>8. \A x : x # path => Same(disk, disk', x)
  BY <1>1, PutSame
<1>9. ASSUME NEW x, ~ IsLoose(x, faulted)
      PROVE  Same(old, new, x)
  <2>1. CASE x = path
    <3>1. CASE path \in DOMAIN disk
      BY <1>2, <1>3, <1>5, <1>6, <1>7, <2>1, <3>1 DEF Same
    <3>2. CASE path \notin DOMAIN disk
      <4>1. name \notin DOMAIN backup
        BY <1>2, <1>4, <1>9, <2>1, <3>2
      <4>2. path \notin DOMAIN new
        BY <1>2, <1>6, <1>7, <3>2, <4>1
      <4>3. path \notin DOMAIN old
        BY <1>3, <1>5, <3>2 DEF Same
      <4> QED
        BY <2>1, <4>2, <4>3 DEF Same
    <3> QED
      BY <3>1, <3>2
  <2>2. CASE x # path /\ x \in PathsAt(pub, U)
    <3>1. Named(pub.id, x) # name
      BY <1>2, <2>2
    <3> QED
      BY <1>5, <1>6, <1>7, <2>2, <3>1 DEF Same
  <2>3. CASE x # path /\ x \notin PathsAt(pub, U)
    BY <1>5, <1>6, <1>8, <2>3 DEF Same
  <2> QED
    BY <2>1, <2>2, <2>3
<1>10. Alike(old, new, faulted)
  BY <1>9 DEF Alike
<1> QED
  BY <1>10 DEF pub, old, new

LEMMA CommitLeadsBack ==
  ASSUME SerialInv, NEW p \in Publishers, NEW i \in 1..7, CommitAt(p, i),
         job[p].committed \subseteq 1..7, \A k \in job[p].committed : k < i,
         LeadsBack(job[p].pub, job[p].committed)
  PROVE  LET committing == job[p].committed \cup {i}
         IN /\ \A k \in 1..8 :
                 Whole(After(disk', backup', job[p].pub, From(committing, k)), returned, faulted)
            /\ Shadowed(backup', After(disk', backup', job[p].pub, committing), faulted)
<1> DEFINE pub == job[p].pub
           committed == job[p].committed
           committing == committed \cup {i}
           path == Outputs(pub)[i]
           name == TempOf(pub, i)
<1>1. i \notin committed /\ committed \in SUBSET (1..7) /\ \A k \in committed : k < i
  OBVIOUS
<1>2. /\ \A k \in 1..8 : Whole(After(disk, backup, pub, From(committed, k)), returned, faulted)
      /\ Shadowed(backup, After(disk, backup, pub, committed), faulted)
  BY DEF LeadsBack
<1>3. \A U \in SUBSET (1..7) : i \notin U =>
        Alike(After(disk, backup, pub, U), After(disk', backup', pub, U \cup {i}), faulted)
  BY CommitAlike
<1>4. Whole(disk', returned, faulted)
  BY CommitWhole
<1>5. ASSUME NEW k \in 1..8
      PROVE  Whole(After(disk', backup', pub, From(committing, k)), returned, faulted)
  <2>1. CASE k <= i
    <3>1. /\ From(committing, k) = From(committed, k) \cup {i}
          /\ i \notin From(committed, k) /\ From(committed, k) \in SUBSET (1..7)
      BY <1>1, <2>1 DEF From
    <3> HIDE DEF pub, committed, committing
    <3>2. Alike(After(disk, backup, pub, From(committed, k)),
                After(disk', backup', pub, From(committing, k)), faulted)
      BY <1>3, <3>1
    <3> QED
      BY <1>2, <1>5, <3>2, WholeAlike
  <2>2. CASE ~ k <= i
    <3>1. From(committing, k) = {}
      BY <1>1, <1>5, <2>2 DEF From
    <3> QED
      BY <1>4, <3>1, AfterNothing, WholeAlike
  <2> QED
    BY <2>1, <2>2
<1>6. /\ backup' = IF Exists(path) THEN Put(backup, name, disk[path]) ELSE backup
      /\ name = Named(pub.id, path) /\ name[2] = path
  BY DEF CommitAt, TempOf, Named
<1>7. path \in PathsAt(pub, committing)
  BY DEF PathsAt
<1>8. Alike(After(disk, backup, pub, committed), After(disk', backup', pub, committing), faulted)
  BY <1>1, <1>3
<1>9. path \in DOMAIN After(disk', backup', pub, committing)
        <=> Named(pub.id, path) \in DOMAIN backup'
  BY <1>7, AfterFacts
<1> HIDE DEF pub, committed, committing, path, name
<1>10. \A n \in DOMAIN backup' : n \in DOMAIN backup \/ n = name
  BY <1>6, BackedUp DEF Exists
<1>11. ASSUME NEW n \in DOMAIN backup'
       PROVE  n[2] \in DOMAIN After(disk', backup', pub, committing) \/ IsLoose(n[2], faulted)
  <2>1. CASE n \in DOMAIN backup
    BY <1>2, <1>8, <2>1 DEF Shadowed, Alike, Same
  <2>2. CASE n = name
    BY <1>6, <1>9, <1>11, <2>2
  <2> QED
    BY <1>10, <2>1, <2>2
<1>12. Shadowed(backup', After(disk', backup', pub, committing), faulted)
  BY <1>11 DEF Shadowed
<1> QED
  BY <1>5, <1>12 DEF pub, committed, committing

LEMMA CommitSerial ==
  ASSUME SerialInv, NEW p \in Publishers, Commit(p)
  PROVE  SerialInv'
<1>1. PICK i \in job[p].staged : CommitAt(p, i)
  BY CommitIsAt
<1> DEFINE pub == job[p].pub
           path == Outputs(pub)[i]
           name == TempOf(pub, i)
           staged == job[p].staged
           committed == job[p].committed
           waiting == staged \ committed
<1>2. Typed'
  BY CommitTyped DEF SerialInv
<1>3. /\ CommitOK(p) /\ IdFits(pub) /\ pub \in Publication /\ i \in 1..7
      /\ i \in 1..6 => temp[TempOf(pub, i)] = Fixed(pub, i)
      /\ i = 7 => /\ temp[TempOf(pub, 7)] = Entered(Registry, pub)
                  /\ SameIdentity(Registry, pub)
  BY <1>1, CommitFinds
<1>4. /\ job'[p].pc = "commit" /\ job'[p].pub = pub /\ job'[p].staged = staged
      /\ job'[p].committed = committed \cup {i}
      /\ \A q \in Processes \ {p} : job'[q] = job[q]
  <2>1. /\ job'[p] = [pc |-> "commit", pub |-> pub, staged |-> staged,
                      committed |-> committed \cup {i}]
        /\ \A q \in Processes \ {p} : job'[q] = job[q]
    BY <1>1, <1>3, CommitJob DEF SerialInv, Typed
  <2> QED
    BY <2>1
<1>5. /\ i \in waiting /\ \A j \in waiting : i <= j
      /\ disk' = Put(disk, path, temp[name])
      /\ temp' = Restrict(temp, DOMAIN temp \ {name})
      /\ backup' = IF Exists(path) THEN Put(backup, name, disk[path]) ELSE backup
      /\ returned' = returned /\ faulted' = faulted /\ job[p] # Idle
      /\ staged \subseteq 1..7
  BY <1>1, JobCases DEF CommitAt, Idle, SerialInv, Typed, JobsTyped, history
<1>6. \A q \in Processes \ {p} : job[q] = Idle
  BY <1>5, OthersIdle, ProcessSets DEF SerialInv
<1>7. WholeDisk'
  BY <1>1, <1>5, CommitWhole DEF WholeDisk
<1>8. name[2] = path
  BY TempIsNamed
<1>9. BackupsShadowTargets'
  <2>1. \A n \in DOMAIN backup' : n \in DOMAIN backup \/ n = name
    BY <1>5, BackedUp DEF Exists
  <2>2. DOMAIN disk \subseteq DOMAIN disk' /\ path \in DOMAIN disk'
    <3>1. DOMAIN Put(disk, path, temp[name]) = DOMAIN disk \cup {path}
      <4> HIDE DEF path, name
      <4> QED BY PutFacts
    <3> QED
      BY <1>5, <3>1
  <2>3. faulted' = faulted
    BY <1>5
  <2> HIDE DEF path, name
  <2> QED
    BY <1>8, <2>1, <2>2, <2>3 DEF SerialInv, BackupsShadowTargets, Shadowed
<1>10. /\ committed \subseteq staged
       /\ {2, 3, 7} \subseteq staged
       /\ \A k \in committed, l \in waiting : k < l
       /\ \A k \in (1..6) \ waiting : Holds(disk, Outputs(pub)[k], Fixed(pub, k))
       /\ \A k \in waiting \ {7} : Holds(temp, TempOf(pub, k), Fixed(pub, k))
       /\ \A k \in waiting \ {2, 3, 7} : Outputs(pub)[k] \notin DOMAIN disk
       /\ \A k \in staged \ {2, 3, 7} : TempOf(pub, k) \notin DOMAIN backup
       /\ 7 \in waiting => /\ SameIdentity(Registry, pub)
                           /\ Holds(temp, TempOf(pub, 7), Entered(Registry, pub))
       /\ LeadsBack(pub, committed)
  BY <1>3 DEF CommitOK, NotYet, NoOldBackups
<1>11. /\ Holds(disk', path, temp[name])
       /\ \A x : x # path => (x \in DOMAIN disk' <=> x \in DOMAIN disk)
       /\ \A x : x # path /\ x \in DOMAIN disk => disk'[x] = disk[x]
       /\ \A x, v : x # path /\ Holds(disk, x, v) => Holds(disk', x, v)
       /\ path # Index => Registry' = Registry
       /\ path = Index => Registry' = temp[name]
  <2>1. Registry = RegistryOf(disk) /\ Registry' = RegistryOf(disk')
    BY RegistryIs, RegistryIs' DEF RegistryOf, Registry, Exists
  <2> HIDE DEF path, name
  <2> QED
    BY <1>5, <2>1, PutHolds
<1>12. \A k \in 1..7 : k # i => Outputs(pub)[k] # path
  BY <1>3, OutputsDistinct
<1>13. Outputs(pub)[7] = Index /\ Outputs(pub)[4] = <<"manifest", Stem(pub)>>
  BY OutputsAre
<1>14. \A k : TempOf(pub, k) = name => Outputs(pub)[k] = path
  BY TempIsNamed
<1>15. \A n \in DOMAIN temp : n # name => n \in DOMAIN temp' /\ temp'[n] = temp[n]
  BY <1>5 DEF Restrict
<1> HIDE DEF pub, path, name, staged, committed, waiting
<1> DEFINE committing == committed \cup {i}
           left == staged \ committing
<1>16. left = waiting \ {i} /\ left \subseteq 1..7 /\ waiting \subseteq 1..7
  BY <1>5 DEF waiting
<1>17. committing \subseteq staged
  BY <1>5, <1>10 DEF waiting
<1>18. \A k \in committing, l \in left : k < l
  <2>1. \A l \in left : i < l
    BY <1>3, <1>5, <1>16
  <2> QED
    BY <1>10, <1>16, <2>1
<1>19. \A k \in (1..6) \ left : Holds(disk', Outputs(pub)[k], Fixed(pub, k))
  <2> SUFFICES ASSUME NEW k \in (1..6) \ left PROVE Holds(disk', Outputs(pub)[k], Fixed(pub, k))
    OBVIOUS
  <2>1. CASE k = i
    BY <1>3, <1>11, <2>1 DEF path, name
  <2>2. CASE k # i
    BY <1>10, <1>11, <1>12, <1>16, <2>2
  <2> QED
    BY <2>1, <2>2
<1>20. \A k \in left \ {7} : Holds(temp', TempOf(pub, k), Fixed(pub, k))
  BY <1>10, <1>12, <1>14, <1>15, <1>16 DEF Holds
<1>21. \A k \in left \ {2, 3, 7} : Outputs(pub)[k] \notin DOMAIN disk'
  BY <1>10, <1>11, <1>12, <1>16
<1>22. 7 \in left => /\ SameIdentity(Registry, pub)'
                     /\ Holds(temp', TempOf(pub, 7), Entered(Registry', pub))
  <2> SUFFICES ASSUME 7 \in left
               PROVE  /\ SameIdentity(Registry, pub)'
                      /\ Holds(temp', TempOf(pub, 7), Entered(Registry', pub))
    OBVIOUS
  <2>1. 7 # i /\ 7 \in waiting
    BY <1>16
  <2>2. Registry' = Registry /\ pub' = pub
    BY <1>4, <1>11, <1>12, <1>13, <2>1 DEF pub
  <2>3. TempOf(pub, 7) # name
    BY <1>12, <1>14, <2>1
  <2> QED
    BY <1>10, <1>15, <2>1, <2>2, <2>3 DEF Holds, SameIdentity
<1>23. 7 \in committing => Ref(pub) \in DOMAIN Registry' /\ Registry'[Ref(pub)].pub = pub
  <2> SUFFICES ASSUME 7 \in committing
               PROVE  Ref(pub) \in DOMAIN Registry' /\ Registry'[Ref(pub)].pub = pub
    OBVIOUS
  <2>1. i = 7
    BY <1>3, <1>5, <1>10
  <2>2. Registry' = Entered(Registry, pub)
    BY <1>3, <1>11, <1>13, <2>1 DEF path, name
  <2>3. SameIdentity(Registry, pub)
    BY <1>10, <1>5, <2>1
  <2>4. Ref(pub) \in DOMAIN Entered(Registry, pub) /\ Entered(Registry, pub)[Ref(pub)].pub = pub
    BY <2>3, EnteredRef
  <2> QED
    BY <2>2, <2>4
<1>24. \A k \in staged \ {2, 3, 7} : TempOf(pub, k) \notin DOMAIN backup'
  <2> SUFFICES ASSUME NEW k \in staged \ {2, 3, 7}, TempOf(pub, k) \in DOMAIN backup'
               PROVE  FALSE
    OBVIOUS
  <2>1. TempOf(pub, k) \notin DOMAIN backup
    BY <1>10
  <2>2. TempOf(pub, k) = name /\ path \in DOMAIN disk
    BY <1>5, <2>1, BackedUp DEF Exists
  <2>3. k = i /\ k \in waiting
    BY <1>5, <1>12, <1>14, <2>2
  <2> QED
    BY <1>10, <2>2, <2>3 DEF path
<1>25. CommitOK(p)'
  <2>1. job'[p].pub = pub /\ job'[p].staged = staged /\ job'[p].committed = committing
    BY <1>4
  <2>2. job'[p].staged \ job'[p].committed = left
    BY <2>1
  <2>3. 7 \in left => SameIdentity(Registry', pub)
    BY <1>22, <2>1, <1>4 DEF SameIdentity, pub
  <2>4. /\ \A k \in 1..8 : Whole(After(disk', backup', pub, From(committing, k)), returned, faulted)
        /\ Shadowed(backup', After(disk', backup', pub, committing), faulted)
    <3>1. committed \subseteq 1..7 /\ \A k \in committed : k < i
      BY <1>5, <1>10
    <3> QED
      BY <1>1, <1>3, <1>10, <3>1, CommitLeadsBack DEF pub, committed
  <2> HIDE DEF committing, left
  <2>5. /\ committing \subseteq staged
        /\ {2, 3, 7} \subseteq staged
        /\ \A k \in committing, l \in left : k < l
    BY <1>10, <1>17, <1>18
  <2>6. LeadsBack(job[p].pub, job[p].committed)'
    BY <1>5, <2>1, <2>4 DEF LeadsBack
  <2>7. NotYet(job[p].pub, job[p].staged \ job[p].committed)'
    BY <1>21, <2>1, <2>2 DEF NotYet
  <2>8. NoOldBackups(job[p].pub, job[p].staged)'
    BY <1>24, <2>1 DEF NoOldBackups
  <2> QED
    BY <1>19, <1>20, <1>22, <1>23, <2>1, <2>2, <2>3, <2>5, <2>6, <2>7, <2>8 DEF CommitOK
<1>26. IdFits(job[p].pub)'
  <2> SUFFICES ASSUME NEW s \in Stems \ {Stem(pub)}, <<"manifest", s>> \in DOMAIN disk'
               PROVE  disk'[<<"manifest", s>>].id # pub.id
    BY <1>4 DEF IdFits
  <2>1. <<"manifest", s>> # path
    <3>1. i = 4 => path = <<"manifest", Stem(pub)>>
      BY <1>13 DEF path
    <3>2. i # 4 => path[1] # "manifest"
      <4>1. i \in {1, 2, 3, 4, 5, 6, 7}
        BY <1>3
      <4> QED
        BY <4>1, OutputsAre DEF path, Index
    <3> QED
      BY <3>1, <3>2
  <2>2. <<"manifest", s>> \in DOMAIN disk /\ disk'[<<"manifest", s>>] = disk[<<"manifest", s>>]
    BY <1>11, <2>1
  <2> QED
    BY <1>3, <2>2 DEF IdFits
<1>27. CallOK(p)'
  BY <1>4, <1>25, <1>26 DEF CallOK
<1> QED
  BY <1>2, <1>4, <1>6, <1>7, <1>9, <1>27, OnlyCall


(* A call that fails turns to its rollback.                                *)
LEMMA FailSerial ==
  ASSUME SerialInv, NEW p \in Publishers, Fail(p)
  PROVE  SerialInv'
<1>0. PICK pub, staged, committed :
        pub = job[p].pub /\ staged = job[p].staged /\ committed = job[p].committed
  OBVIOUS
<1>1. Typed'
  BY FailTyped DEF SerialInv
<1>2. /\ job'[p].pc = "rollback" /\ job'[p].pub = pub /\ job'[p].staged = staged
      /\ job'[p].committed = committed /\ job'[p].undo = committed
      /\ job'[p].nested <=> committed # staged
      /\ \A q \in Processes \ {p} : job'[q] = job[q]
      /\ job[p].pc = "commit"
  <2>1. /\ job'[p] = [pc |-> "rollback", pub |-> pub, staged |-> staged,
                      committed |-> committed, undo |-> committed,
                      nested |-> (committed # staged)]
        /\ \A q \in Processes \ {p} : job'[q] = job[q]
        /\ job[p].pc = "commit"
    BY <1>0, FailFacts DEF SerialInv, Typed
  <2>2. job'[p].nested = (committed # staged)
    BY <2>1
  <2>3. /\ job'[p].pc = "rollback" /\ job'[p].pub = pub /\ job'[p].staged = staged
        /\ job'[p].committed = committed /\ job'[p].undo = committed
    BY <2>1
  <2> QED
    BY <2>1, <2>2, <2>3
<1>3. \E j : job' = [job EXCEPT ![p] = j]
  BY DEF Fail
<1>4. UNCHANGED <<disk, backup, history>>
  BY DEF Fail, files
<1>5. \A q \in Processes \ {p} : job[q] = Idle
  <2>1. job[p] # Idle
    BY <1>2 DEF Idle
  <2> QED
    BY <2>1, OthersIdle, ProcessSets DEF SerialInv
<1>6. /\ committed \subseteq staged /\ staged \subseteq 1..7
      /\ \A i \in committed, j \in staged \ committed : i < j
      /\ NotYet(pub, staged \ committed) /\ NoOldBackups(pub, staged)
      /\ LeadsBack(pub, committed)
  <2>1. CommitOK(p)
    BY <1>2 DEF SerialInv, CallOK
  <2>2. job[p].staged \subseteq 1..7
    BY <1>2, JobCases DEF SerialInv, Typed, JobsTyped
  <2> QED
    BY <1>0, <2>1, <2>2 DEF CommitOK
<1>7. committed # staged => 7 \notin committed
  <2> SUFFICES ASSUME committed # staged, 7 \in committed
               PROVE  FALSE
    OBVIOUS
  <2>1. PICK j \in staged : j \notin committed
    BY <1>6
  <2>2. 7 < j /\ j \in 1..7
    BY <1>6, <2>1
  <2> QED
    BY <2>2
<1>8. /\ NotYet(pub, staged \ committed)' /\ NoOldBackups(pub, staged)'
      /\ LeadsBack(pub, committed)'
  BY <1>4, <1>6, SameFiles
<1>9. RollbackOK(p)'
  <2>1. NotYet(job[p].pub, job[p].staged \ job[p].undo)'
    BY <1>2, <1>8 DEF NotYet
  <2>2. NoOldBackups(job[p].pub, job[p].staged)'
    BY <1>2, <1>8 DEF NoOldBackups
  <2>3. LeadsBack(job[p].pub, job[p].undo)'
    BY <1>2, <1>8 DEF LeadsBack
  <2> QED
    BY <1>2, <1>6, <1>7, <2>1, <2>2, <2>3 DEF RollbackOK
<1>10. CallOK(p)'
  BY <1>2, <1>9 DEF CallOK
<1> QED
  BY <1>1, <1>3, <1>4, <1>5, <1>10, OnlyCallInMemory

(* A target becomes its backup, or goes.                                   *)
Undone(b, c, d, e, path, name) ==
  /\ e = IF name \in DOMAIN b THEN Put(d, path, b[name])
         ELSE Restrict(d, DOMAIN d \ {path})
  /\ c = Restrict(b, DOMAIN b \ {name})

LEMMA UndoneTarget ==
  ASSUME NEW b, NEW c, NEW d, NEW e, NEW path, NEW name, Undone(b, c, d, e, path, name)
  PROVE  /\ \A x : x # path => Same(d, e, x)
         /\ path \in DOMAIN e <=> name \in DOMAIN b
         /\ path \in DOMAIN e => e[path] = b[name]
         /\ \A n : n # name => Same(b, c, n)
         /\ name \notin DOMAIN c
<1>1. (\A n : n # name => Same(b, c, n)) /\ name \notin DOMAIN c
  BY DEF Undone, Restrict, Same
<1>2. CASE name \in DOMAIN b
  BY <1>1, <1>2 DEF Undone, Put, Same
<1>3. CASE name \notin DOMAIN b
  BY <1>1, <1>3 DEF Undone, Restrict, Same
<1> QED
  BY <1>2, <1>3

(* One round of a rollback does not change where the rest leads.           *)
LEMMA UndoSame ==
  ASSUME NEW p, NEW i \in 1..7, UndoAt(p, i), NEW U \in SUBSET (1..7), i \notin U
  PROVE  \A x : Same(After(disk, backup, job[p].pub, U \cup {i}),
                     After(disk', backup', job[p].pub, U), x)
<1> DEFINE pub == job[p].pub
           path == Outputs(pub)[i]
           name == TempOf(pub, i)
           V == U \cup {i}
           old == After(disk, backup, pub, V)
           new == After(disk', backup', pub, U)
<1>1. Undone(backup, backup', disk, disk', path, name)
  BY DEF UndoAt, Undone
<1>2. name = Named(pub.id, path) /\ \A x : Named(pub.id, x) = name => x = path
  BY DEF TempOf, Named
<1>3. PathsAt(pub, V) = PathsAt(pub, U) \cup {path} /\ path \notin PathsAt(pub, U)
  BY OutputsDistinct DEF PathsAt
<1>4. \A x : /\ x \in PathsAt(pub, V) =>
                  (x \in DOMAIN old <=> Named(pub.id, x) \in DOMAIN backup)
                  /\ (x \in DOMAIN old => old[x] = backup[Named(pub.id, x)])
             /\ x \notin PathsAt(pub, V) => Same(disk, old, x)
  <2> HIDE DEF V
  <2> QED BY AfterFacts
<1>5. \A x : /\ x \in PathsAt(pub, U) =>
                  (x \in DOMAIN new <=> Named(pub.id, x) \in DOMAIN backup')
                  /\ (x \in DOMAIN new => new[x] = backup'[Named(pub.id, x)])
             /\ x \notin PathsAt(pub, U) => Same(disk', new, x)
  BY AfterFacts
<1> HIDE DEF pub, path, name, old, new, V
<1>6. /\ \A x : x # path => Same(disk, disk', x)
      /\ path \in DOMAIN disk' <=> name \in DOMAIN backup
      /\ path \in DOMAIN disk' => disk'[path] = backup[name]
      /\ \A n : n # name => Same(backup, backup', n)
  BY <1>1, UndoneTarget
<1>7. ASSUME NEW x
      PROVE  Same(old, new, x)
  <2>1. CASE x = path
    BY <1>2, <1>3, <1>4, <1>5, <1>6, <2>1 DEF Same
  <2>2. CASE x # path /\ x \in PathsAt(pub, U)
    <3>1. Named(pub.id, x) # name
      BY <1>2, <2>2
    <3> QED
      BY <1>3, <1>4, <1>5, <1>6, <2>2, <3>1 DEF Same
  <2>3. CASE x # path /\ x \notin PathsAt(pub, U)
    BY <1>3, <1>4, <1>5, <1>6, <2>3 DEF Same
  <2> QED
    BY <2>1, <2>2, <2>3
<1> QED
  BY <1>7 DEF old, new, pub, V

LEMMA UndoLeadsBack ==
  ASSUME NEW p, NEW i \in 1..7, UndoAt(p, i), NEW undo \in SUBSET (1..7),
         undo = job[p].undo, LeadsBack(job[p].pub, undo)
  PROVE  LET left == undo \ {i}
         IN /\ \A k \in 1..8 :
                 Whole(After(disk', backup', job[p].pub, From(left, k)), returned, faulted)
            /\ Shadowed(backup', After(disk', backup', job[p].pub, left), faulted)
            /\ Whole(disk', returned, faulted)
<1> DEFINE pub == job[p].pub
           left == undo \ {i}
<1>1. i \in undo /\ \A k \in undo : k <= i
  BY DEF UndoAt
<1>2. /\ \A k \in 1..8 : Whole(After(disk, backup, pub, From(undo, k)), returned, faulted)
      /\ Shadowed(backup, After(disk, backup, pub, undo), faulted)
  BY DEF LeadsBack
<1>3. \A U \in SUBSET (1..7) : i \notin U =>
        /\ \A x : Same(After(disk, backup, pub, U \cup {i}), After(disk', backup', pub, U), x)
        /\ Alike(After(disk, backup, pub, U \cup {i}), After(disk', backup', pub, U), faulted)
  BY UndoSame DEF Alike
<1>4. backup' = Restrict(backup, DOMAIN backup \ {TempOf(pub, i)})
  BY DEF UndoAt
<1> HIDE DEF pub
<1>5. Whole(After(disk', backup', pub, {}), returned, faulted)
  <2>1. From(undo, i) = {} \cup {i}
    BY <1>1 DEF From
  <2>2. Alike(After(disk, backup, pub, From(undo, i)), After(disk', backup', pub, {}), faulted)
    BY <1>3, <2>1
  <2> QED
    BY <1>2, <2>2, WholeAlike
<1>6. ASSUME NEW k \in 1..8
      PROVE  Whole(After(disk', backup', pub, From(left, k)), returned, faulted)
  <2>1. CASE k <= i
    <3>1. /\ From(undo, k) = From(left, k) \cup {i}
          /\ i \notin From(left, k) /\ From(left, k) \in SUBSET (1..7)
      BY <1>1, <2>1 DEF From
    <3> HIDE DEF left
    <3>2. Alike(After(disk, backup, pub, From(undo, k)),
                After(disk', backup', pub, From(left, k)), faulted)
      BY <1>3, <3>1
    <3> QED
      BY <1>2, <1>6, <3>2, WholeAlike
  <2>2. CASE ~ k <= i
    <3>1. From(left, k) = {}
      BY <1>1, <1>6, <2>2 DEF From
    <3> QED
      BY <1>5, <3>1
  <2> QED
    BY <2>1, <2>2
<1>7. Shadowed(backup', After(disk', backup', pub, left), faulted)
  <2>1. undo = left \cup {i} /\ i \notin left /\ left \in SUBSET (1..7)
    BY <1>1
  <2>2. DOMAIN backup' \subseteq DOMAIN backup
    BY <1>4 DEF Restrict
  <2> HIDE DEF left
  <2>3. \A x : Same(After(disk, backup, pub, undo), After(disk', backup', pub, left), x)
    BY <1>3, <2>1
  <2> QED
    BY <1>2, <2>2, <2>3 DEF Shadowed, Same
<1>8. Whole(disk', returned, faulted)
  BY <1>5, AfterNothing, WholeAlike
<1> QED
  BY <1>6, <1>7, <1>8 DEF pub

LEMMA UndoSerial ==
  ASSUME SerialInv, NEW p \in Publishers, Undo(p)
  PROVE  SerialInv'
<1>1. PICK i \in job[p].undo : UndoAt(p, i)
  BY UndoIsAt
<1>0. PICK pub, staged, committed, undo :
        /\ pub = job[p].pub /\ staged = job[p].staged
        /\ committed = job[p].committed /\ undo = job[p].undo
  OBVIOUS
<1> DEFINE path == Outputs(pub)[i]
           name == TempOf(pub, i)
           left == undo \ {i}
<1>2. Typed'
  BY UndoTyped DEF SerialInv
<1>3. /\ job[p].pc = "rollback" /\ job[p] # Idle /\ i \in undo
      /\ Undone(backup, backup', disk, disk', path, name)
      /\ returned' = returned /\ faulted' = faulted
  BY <1>0, <1>1 DEF UndoAt, Undone, Idle, history
<1>4. /\ job'[p].pc = "rollback" /\ job'[p].pub = pub /\ job'[p].staged = staged
      /\ job'[p].committed = committed /\ job'[p].undo = left
      /\ job'[p].nested <=> job[p].nested
      /\ \A q \in Processes \ {p} : job'[q] = job[q]
  <2>1. /\ job'[p] = [pc |-> "rollback", pub |-> pub, staged |-> staged,
                      committed |-> committed, undo |-> left, nested |-> job[p].nested]
        /\ \A q \in Processes \ {p} : job'[q] = job[q]
    BY <1>0, <1>1, UndoJob DEF SerialInv, Typed
  <2> QED
    BY <2>1
<1>5. \A q \in Processes \ {p} : job[q] = Idle
  BY <1>3, OthersIdle, ProcessSets DEF SerialInv
<1>6. /\ undo \subseteq committed /\ committed \subseteq staged
      /\ staged \in SUBSET (1..7) /\ undo \in SUBSET (1..7) /\ i \in 1..7
      /\ job[p].nested => 7 \notin committed
      /\ \A k \in (staged \ undo) \ {2, 3, 7} : Outputs(pub)[k] \notin DOMAIN disk
      /\ \A k \in staged \ {2, 3, 7} : TempOf(pub, k) \notin DOMAIN backup
      /\ LeadsBack(pub, undo)
  <2>1. RollbackOK(p)
    BY <1>3 DEF SerialInv, CallOK
  <2>2. job[p].staged \subseteq 1..7 /\ job[p].undo \subseteq 1..7
    BY <1>3, JobCases DEF SerialInv, Typed, JobsTyped
  <2> QED
    BY <1>0, <1>3, <2>1, <2>2 DEF RollbackOK, NotYet, NoOldBackups
<1>7. /\ \A k \in 1..8 : Whole(After(disk', backup', pub, From(left, k)), returned, faulted)
      /\ Shadowed(backup', After(disk', backup', pub, left), faulted)
      /\ Whole(disk', returned, faulted)
  BY <1>0, <1>1, <1>6, UndoLeadsBack
<1>8. name[2] = path
  BY TempIsNamed
<1>9. \A k \in 1..7 : Outputs(pub)[k] = path => k = i
  BY <1>6, OutputsDistinct
<1> HIDE DEF path, name, left
<1>10. /\ \A x : x # path => Same(disk, disk', x)
       /\ path \in DOMAIN disk' <=> name \in DOMAIN backup
       /\ \A n : n # name => Same(backup, backup', n)
       /\ name \notin DOMAIN backup'
  BY <1>3, UndoneTarget
<1>11. WholeDisk'
  BY <1>3, <1>7 DEF WholeDisk
<1>12. BackupsShadowTargets'
  <2>1. \A n \in DOMAIN backup : n[2] \in DOMAIN disk \/ IsLoose(n[2], faulted)
    BY DEF SerialInv, BackupsShadowTargets, Shadowed
  <2>2. \A n \in DOMAIN backup :
          n[2] \in DOMAIN After(disk, backup, pub, undo) \/ IsLoose(n[2], faulted)
    BY <1>6 DEF LeadsBack, Shadowed
  <2>3. path \in PathsAt(pub, undo) /\ name = Named(pub.id, path)
    BY <1>3 DEF PathsAt, path, name, TempOf
  <2>4. path \in DOMAIN After(disk, backup, pub, undo) => name \in DOMAIN backup
    BY <2>3, AfterFacts
  <2>5. ASSUME NEW n \in DOMAIN backup'
        PROVE  n[2] \in DOMAIN disk' \/ IsLoose(n[2], faulted)
    <3>1. n \in DOMAIN backup
      BY <1>10, <2>5 DEF Same
    <3>2. CASE n[2] = path
      BY <1>10, <2>2, <2>4, <3>1, <3>2
    <3>3. CASE n[2] # path
      BY <1>10, <2>1, <3>1, <3>3 DEF Same
    <3> QED
      BY <3>2, <3>3
  <2> QED
    BY <1>3, <2>5 DEF BackupsShadowTargets, Shadowed
<1>13. \A k \in (staged \ left) \ {2, 3, 7} : Outputs(pub)[k] \notin DOMAIN disk'
  <2> SUFFICES ASSUME NEW k \in (staged \ left) \ {2, 3, 7}
               PROVE  Outputs(pub)[k] \notin DOMAIN disk'
    OBVIOUS
  <2>1. CASE k = i
    BY <1>6, <1>10, <2>1 DEF path, name
  <2>2. CASE k # i
    <3>1. k \in staged \ undo /\ k \in 1..7
      BY <1>6, <2>2 DEF left
    <3>2. Outputs(pub)[k] # path
      BY <1>9, <2>2, <3>1
    <3> QED
      BY <1>6, <1>10, <3>1, <3>2 DEF Same
  <2> QED
    BY <2>1, <2>2
<1>14. \A k \in staged \ {2, 3, 7} : TempOf(pub, k) \notin DOMAIN backup'
  BY <1>6, <1>10 DEF Same
<1>15. RollbackOK(p)'
  <2>1. NotYet(job[p].pub, job[p].staged \ job[p].undo)'
    BY <1>4, <1>13 DEF NotYet
  <2>2. NoOldBackups(job[p].pub, job[p].staged)'
    BY <1>4, <1>14 DEF NoOldBackups
  <2>3. LeadsBack(job[p].pub, job[p].undo)'
    BY <1>3, <1>4, <1>7 DEF LeadsBack
  <2>4. left \subseteq committed
    BY <1>6 DEF left
  <2> QED
    BY <1>4, <1>6, <2>1, <2>2, <2>3, <2>4 DEF RollbackOK
<1>16. CallOK(p)'
  BY <1>4, <1>15 DEF CallOK
<1> QED
  BY <1>2, <1>4, <1>5, <1>11, <1>12, <1>16, OnlyCall

(* A rollback that is done with its targets sweeps what is left.           *)
LEMMA SweepSerial ==
  ASSUME SerialInv, NEW p \in Publishers, Sweep(p)
  PROVE  SerialInv'
<1>1. Typed'
  BY SweepTyped DEF SerialInv
<1>2. /\ job[p].pc = "rollback" /\ job' = [job EXCEPT ![p] = Idle]
      /\ \E names : backup' = Restrict(backup, DOMAIN backup \ names)
      /\ disk' = disk /\ returned' = returned /\ faulted' = faulted
  BY DEF Sweep, history
<1>3. job'[p] = Idle /\ \A q \in Processes \ {p} : job'[q] = job[q]
  BY <1>2, ProcessSets DEF SerialInv, Typed, JobsTyped
<1>4. \A q \in Processes \ {p} : job[q] = Idle
  <2>1. job[p] # Idle
    BY <1>2 DEF Idle
  <2> QED
    BY <2>1, OthersIdle, ProcessSets DEF SerialInv
<1>5. WholeDisk'
  BY <1>2 DEF SerialInv, WholeDisk
<1>6. DOMAIN backup' \subseteq DOMAIN backup
  BY <1>2 DEF Restrict
<1>7. BackupsShadowTargets'
  BY <1>2, <1>6 DEF SerialInv, BackupsShadowTargets, Shadowed
<1>8. job'[p].pc = "idle"
  BY <1>3 DEF Idle
<1>9. CallOK(p)'
  BY <1>8 DEF CallOK
<1> QED
  BY <1>1, <1>3, <1>4, <1>5, <1>7, <1>9, OnlyCall

(* A rollback that starts again leads to what it led to before, but for    *)
(* the deployed review and the snapshot.                                   *)
LEMMA StartedAgain ==
  ASSUME NEW d, NEW b, NEW c, NEW pub, NEW G, Stem(pub) \in G,
         NEW committed \in SUBSET (1..7), NEW undo \in SUBSET committed, 7 \notin committed,
         \A i \in (committed \ undo) \ {2, 3} :
           Outputs(pub)[i] \notin DOMAIN d /\ TempOf(pub, i) \notin DOMAIN b,
         DOMAIN c \subseteq DOMAIN b, undo # {} => c = b,
         NEW k
  PROVE  Alike(After(d, b, pub, From(undo, k)), After(d, c, pub, From(committed, k)), G)
<1> DEFINE U == From(undo, k)
           V == From(committed, k)
           old == After(d, b, pub, U)
           new == After(d, c, pub, V)
<1>1. U \subseteq undo /\ V \subseteq committed /\ U = undo \cap V
  BY DEF From
<1> HIDE DEF U, V
<1> SUFFICES ASSUME NEW x, ~ IsLoose(x, G)
             PROVE  Same(old, new, x)
  BY DEF Alike, U, V
<1>2. /\ x \in PathsAt(pub, U) =>
           (x \in DOMAIN old <=> Named(pub.id, x) \in DOMAIN b)
           /\ (x \in DOMAIN old => old[x] = b[Named(pub.id, x)])
      /\ x \notin PathsAt(pub, U) => Same(d, old, x) /\ Same(old, d, x)
  BY AfterFacts
<1>3. /\ x \in PathsAt(pub, V) =>
           (x \in DOMAIN new <=> Named(pub.id, x) \in DOMAIN c)
           /\ (x \in DOMAIN new => new[x] = c[Named(pub.id, x)])
      /\ x \notin PathsAt(pub, V) => Same(d, new, x) /\ Same(new, d, x)
  BY AfterFacts
<1> HIDE DEF old, new
<1>4. CASE x \in PathsAt(pub, U)
  <2>1. c = b /\ x \in PathsAt(pub, V)
    BY <1>1, <1>4 DEF PathsAt
  <2> QED
    BY <1>2, <1>3, <1>4, <2>1 DEF Same
<1>5. CASE x \notin PathsAt(pub, U) /\ x \in PathsAt(pub, V)
  <2>1. PICK i \in V : Outputs(pub)[i] = x
    BY <1>5 DEF PathsAt
  <2>2. i \in committed \ undo
    BY <1>1, <1>5, <2>1 DEF PathsAt
  <2>3. i # 2 /\ i # 3
    BY <2>1, OutputsAre DEF IsLoose
  <2>4. x \notin DOMAIN d /\ Named(pub.id, x) \notin DOMAIN b
    BY <2>1, <2>2, <2>3 DEF TempOf
  <2>5. Named(pub.id, x) \notin DOMAIN c
    BY <2>4
  <2> QED
    BY <1>2, <1>3, <1>5, <2>4, <2>5 DEF Same
<1>6. CASE x \notin PathsAt(pub, U) /\ x \notin PathsAt(pub, V)
  BY <1>2, <1>3, <1>6 DEF Same
<1> QED
  BY <1>4, <1>5, <1>6 DEF Same

LEMMA StillShadowed ==
  ASSUME NEW b, NEW c, NEW d, NEW e, NEW F, NEW G, F \subseteq G, DOMAIN c \subseteq DOMAIN b,
         Shadowed(b, d, F), Alike(d, e, G)
  PROVE  Shadowed(c, e, G)
<1> SUFFICES ASSUME NEW n \in DOMAIN c, ~ IsLoose(n[2], G)
             PROVE  n[2] \in DOMAIN e
  BY DEF Shadowed
<1>1. ~ IsLoose(n[2], F)
  BY DEF IsLoose
<1>2. n[2] \in DOMAIN d
  BY <1>1 DEF Shadowed
<1> QED
  BY <1>2 DEF Alike, Same

(* A rollback that raises ends the call or starts again.                   *)
LEMMA RollbackFaultSerial ==
  ASSUME SerialInv, NEW p \in Publishers, RollbackFault(p), Typed'
  PROVE  SerialInv'
<1>0. PICK pub, staged, committed, undo, b, c, d, F, G :
        /\ pub = job[p].pub /\ staged = job[p].staged
        /\ committed = job[p].committed /\ undo = job[p].undo
        /\ b = backup /\ c = backup' /\ d = disk /\ F = faulted /\ G = faulted'
  OBVIOUS
<1>1. /\ job[p].pc = "rollback" /\ disk' = d /\ returned' = returned
      /\ DOMAIN c \subseteq DOMAIN b
      /\ undo # {} => c = b
      /\ \A q \in Processes \ {p} : job'[q] = job[q]
      /\ \/ /\ job[p].nested /\ G = F \cup {Stem(pub)}
            /\ job'[p] = [pc |-> "rollback", pub |-> pub, staged |-> staged,
                          committed |-> committed, undo |-> committed, nested |-> FALSE]
         \/ job'[p] = Idle /\ G = F
  <2>1. /\ job[p].pc = "rollback" /\ disk' = disk /\ returned' = returned
        /\ DOMAIN backup' \subseteq DOMAIN backup
        /\ job[p].undo # {} => backup' = backup
        /\ \A q \in Processes \ {p} : job'[q] = job[q]
    BY RollbackFaultFacts DEF SerialInv
  <2>2. \/ /\ job[p].nested /\ faulted' = faulted \cup {Stem(job[p].pub)}
           /\ job'[p] = [pc |-> "rollback", pub |-> job[p].pub, staged |-> job[p].staged,
                         committed |-> job[p].committed, undo |-> job[p].committed,
                         nested |-> FALSE]
        \/ job'[p] = Idle /\ faulted' = faulted
    BY RollbackFaultFacts DEF SerialInv
  <2> QED
    BY <1>0, <2>1, <2>2
<1>2. \A q \in Processes \ {p} : job[q] = Idle
  <2>1. job[p] # Idle
    BY <1>1 DEF Idle
  <2> QED
    BY <2>1, OthersIdle, ProcessSets DEF SerialInv
<1>3. F \subseteq G /\ DOMAIN c \subseteq DOMAIN b
  BY <1>1
<1>4. WholeDisk'
  <2>1. Whole(d, returned, F)
    BY <1>0 DEF SerialInv, WholeDisk
  <2>2. Whole(d, returned, G)
    BY <1>3, <2>1, AlikeRefl, WholeAlike
  <2> QED
    BY <1>0, <1>1, <2>2 DEF WholeDisk
<1>5. BackupsShadowTargets'
  <2>1. Shadowed(b, d, F)
    BY <1>0 DEF SerialInv, BackupsShadowTargets
  <2>2. Alike(d, d, G)
    BY AlikeRefl
  <2>3. Shadowed(c, d, G)
    BY <1>3, <2>1, <2>2, StillShadowed
  <2> QED
    BY <1>0, <1>1, <2>3 DEF BackupsShadowTargets
<1>6. CASE job'[p] = Idle
  <2>0. job'[p].pc = "idle"
    BY <1>6 DEF Idle
  <2>1. CallOK(p)'
    BY <2>0 DEF CallOK
  <2> QED
    BY <1>1, <1>2, <1>4, <1>5, <2>1, OnlyCall
<1>7. CASE /\ job[p].nested /\ G = F \cup {Stem(pub)}
           /\ job'[p] = [pc |-> "rollback", pub |-> pub, staged |-> staged,
                         committed |-> committed, undo |-> committed, nested |-> FALSE]
  <2>1. /\ undo \in SUBSET committed /\ committed \subseteq staged
        /\ committed \in SUBSET (1..7) /\ 7 \notin committed
        /\ \A i \in (staged \ undo) \ {2, 3, 7} : Outputs(pub)[i] \notin DOMAIN d
        /\ \A i \in staged \ {2, 3, 7} : TempOf(pub, i) \notin DOMAIN b
        /\ \A k \in 1..8 : Whole(After(d, b, pub, From(undo, k)), returned, F)
        /\ Shadowed(b, After(d, b, pub, undo), F)
    <3>1. RollbackOK(p)
      BY <1>1 DEF SerialInv, CallOK
    <3>2. job[p].committed \subseteq 1..7
      BY <1>1, JobCases DEF SerialInv, Typed, JobsTyped
    <3> QED
      BY <1>0, <1>7, <3>1, <3>2 DEF RollbackOK, NotYet, NoOldBackups, LeadsBack
  <2>2. \A k : Alike(After(d, b, pub, From(undo, k)), After(d, c, pub, From(committed, k)), G)
    <3>1. \A i \in (committed \ undo) \ {2, 3} :
            Outputs(pub)[i] \notin DOMAIN d /\ TempOf(pub, i) \notin DOMAIN b
      BY <2>1
    <3>2. Stem(pub) \in G
      BY <1>7
    <3>3. undo # {} => c = b
      BY <1>1
    <3> SUFFICES ASSUME NEW k
                 PROVE  Alike(After(d, b, pub, From(undo, k)),
                              After(d, c, pub, From(committed, k)), G)
      OBVIOUS
    <3>4. undo \in SUBSET committed /\ committed \in SUBSET (1..7) /\ 7 \notin committed
      BY <2>1
    <3> QED
      BY <1>3, <3>1, <3>2, <3>3, <3>4, StartedAgain
  <2>3. \A k \in 1..8 : Whole(After(d, c, pub, From(committed, k)), returned, G)
    BY <1>3, <2>1, <2>2, WholeAlike
  <2>4. Shadowed(c, After(d, c, pub, committed), G)
    <3>1. From(undo, 1) = undo /\ From(committed, 1) = committed
      <4>1. \A i \in undo \cup committed : i \in 1..7
        BY <2>1
      <4>2. \A i \in undo \cup committed : 1 <= i
        BY <4>1
      <4> QED
        BY <4>2 DEF From
    <3>2. Alike(After(d, b, pub, undo), After(d, c, pub, committed), G)
      BY <2>2, <3>1
    <3> QED
      BY <1>3, <2>1, <3>2, StillShadowed
  <2>5. /\ job'[p].pc = "rollback" /\ job'[p].pub = pub /\ job'[p].staged = staged
        /\ job'[p].committed = committed /\ job'[p].undo = committed
    BY <1>7
  <2>6. ~ job'[p].nested
    BY <1>7
  <2>7. RollbackOK(p)'
    <3>1. NotYet(job[p].pub, job[p].staged \ job[p].undo)'
      BY <1>1, <2>1, <2>5 DEF NotYet
    <3>2. NoOldBackups(job[p].pub, job[p].staged)'
      <4>1. \A i \in staged \ {2, 3, 7} : TempOf(pub, i) \notin DOMAIN c
        BY <1>3, <2>1
      <4> QED
        BY <1>0, <2>5, <4>1 DEF NoOldBackups
    <3>3. LeadsBack(job[p].pub, job[p].undo)'
      BY <1>0, <1>1, <2>3, <2>4, <2>5 DEF LeadsBack
    <3> QED
      BY <2>1, <2>5, <2>6, <3>1, <3>2, <3>3 DEF RollbackOK
  <2>8. CallOK(p)'
    BY <2>5, <2>7 DEF CallOK
  <2> QED
    BY <1>1, <1>2, <1>4, <1>5, <2>8, OnlyCall
<1> QED
  BY <1>1, <1>6, <1>7

(* A call that returns has put its registry in place.                      *)
LEMMA ReturnSerial ==
  ASSUME SerialInv, NEW p \in Publishers, Return(p)
  PROVE  SerialInv'
<1>1. Typed'
  BY ReturnTyped DEF SerialInv
<1>2. /\ job[p].pc = "commit" /\ job[p].committed = job[p].staged
      /\ disk' = disk /\ backup' = backup /\ faulted' = faulted
      /\ returned' = returned \cup {job[p].pub}
      /\ job' = [job EXCEPT ![p] = Idle]
  BY DEF Return, files
<1>3. job'[p] = Idle /\ \A q \in Processes \ {p} : job'[q] = job[q]
  BY <1>2, ProcessSets DEF SerialInv, Typed, JobsTyped
<1>4. CommitOK(p)
  BY <1>2 DEF SerialInv, CallOK
<1>5. \A q \in Processes \ {p} : job[q] = Idle
  <2>1. job[p] # Idle
    BY <1>2 DEF Idle
  <2> QED
    BY <2>1, OthersIdle, ProcessSets DEF SerialInv
<1>6. Ref(job[p].pub) \in DOMAIN Registry /\ Registry[Ref(job[p].pub)].pub = job[p].pub
  BY <1>2, <1>4 DEF CommitOK
<1>7. WholeDisk'
  <2>1. Whole(disk, returned, faulted)
    BY DEF SerialInv, WholeDisk
  <2>2. ReturnedKept(disk, returned')
    BY <1>2, <1>6, <2>1, RegistryIs DEF Whole, ReturnedKept
  <2>3. Whole(disk, returned', faulted)
    BY <2>1, <2>2 DEF Whole
  <2> QED
    BY <1>2, <2>3 DEF WholeDisk
<1>8. BackupsShadowTargets'
  BY <1>2 DEF SerialInv, BackupsShadowTargets
<1>9. CallOK(p)'
  <2>1. job'[p].pc = "idle"
    BY <1>3 DEF Idle
  <2> QED
    BY <2>1 DEF CallOK
<1> QED
  BY <1>1, <1>3, <1>5, <1>7, <1>8, <1>9, OnlyCall

(* A process may die anywhere: what it leaves on disk is whole already.    *)
LEMMA CrashSerial ==
  ASSUME SerialInv, NEW p \in Publishers, Crash(p)
  PROVE  SerialInv'
<1>1. Typed'
  BY CrashTyped DEF SerialInv
<1>2. /\ job[p] # Idle /\ job' = [job EXCEPT ![p] = Idle]
      /\ UNCHANGED <<disk, backup, history>>
  BY DEF Crash, files
<1>3. \A q \in Processes \ {p} : job[q] = Idle
  BY <1>2, OthersIdle, ProcessSets DEF SerialInv
<1>4. job'[p] = Idle
  BY <1>2, ProcessSets DEF SerialInv, Typed, JobsTyped
<1>5. CallOK(p)'
  <2>1. job'[p].pc = "idle"
    BY <1>4 DEF Idle
  <2> QED
    BY <2>1 DEF CallOK
<1> QED
  BY <1>1, <1>2, <1>3, <1>5, OnlyCallInMemory

(* Nothing is said of the drafts.                                          *)
LEMMA DraftsSerial ==
  ASSUME SerialInv, Typed', UNCHANGED <<files, job, history>>
  PROVE  SerialInv'
<1>1. UNCHANGED <<disk, backup, history>> /\ temp' = temp /\ job' = job
  BY DEF files
<1>2. Registry' = Registry
  BY <1>1, SameFiles
<1>3. /\ OneAtATime' /\ WholeDisk' /\ BackupsShadowTargets'
  BY <1>1 DEF SerialInv, OneAtATime, WholeDisk, BackupsShadowTargets, history
<1>4. UpdateOK'
  BY <1>1, <1>2 DEF SerialInv, UpdateOK
<1>5. ASSUME NEW p \in Publishers PROVE CallOK(p)'
  <2>1. CallOK(p)
    BY DEF SerialInv
  <2>2. /\ \A pub, S : NotYet(pub, S)' <=> NotYet(pub, S)
        /\ \A pub, S : NoOldBackups(pub, S)' <=> NoOldBackups(pub, S)
        /\ \A pub, S : LeadsBack(pub, S)' <=> LeadsBack(pub, S)
    BY <1>1, SameFiles
  <2>3. CASE job[p].pc = "commit"
    <3>1. CommitOK(p)
      BY <2>1, <2>3 DEF CallOK
    <3>2. NotYet(job[p].pub, job[p].staged \ job[p].committed)'
      BY <1>1, <3>1 DEF CommitOK, NotYet
    <3>3. NoOldBackups(job[p].pub, job[p].staged)'
      BY <1>1, <3>1 DEF CommitOK, NoOldBackups
    <3>4. LeadsBack(job[p].pub, job[p].committed)'
      BY <1>1, <3>1 DEF CommitOK, LeadsBack, history
    <3>5. CommitOK(p)'
      BY <1>1, <1>2, <3>1, <3>2, <3>3, <3>4 DEF CommitOK
    <3> QED
      BY <1>1, <2>1, <2>3, <3>5 DEF CallOK, IdFits
  <2>4. CASE job[p].pc = "rollback"
    <3>1. RollbackOK(p)
      BY <2>1, <2>4 DEF CallOK
    <3>2. NotYet(job[p].pub, job[p].staged \ job[p].undo)'
      BY <1>1, <3>1 DEF RollbackOK, NotYet
    <3>3. NoOldBackups(job[p].pub, job[p].staged)'
      BY <1>1, <3>1 DEF RollbackOK, NoOldBackups
    <3>4. LeadsBack(job[p].pub, job[p].undo)'
      BY <1>1, <3>1 DEF RollbackOK, LeadsBack, history
    <3>5. RollbackOK(p)'
      BY <1>1, <3>1, <3>2, <3>3, <3>4 DEF RollbackOK
    <3> QED
      BY <1>1, <2>4, <3>5 DEF CallOK
  <2>5. CASE job[p].pc \notin {"commit", "rollback"}
    BY <1>1, <1>2, <2>1, <2>5 DEF CallOK, IdFits
  <2> QED
    BY <2>3, <2>4, <2>5
<1> QED
  BY <1>3, <1>4, <1>5 DEF SerialInv

(* The operator reads while no call is under way.                          *)
LEMMA ReadForUpdateSerial ==
  ASSUME SerialInv, Serial, NEW ref, NEW state \in LifecycleStates, ReadForUpdate(ref, state)
  PROVE  SerialInv'
<1>1. Typed'
  BY ReadForUpdateTyped DEF SerialInv
<1> DEFINE r == [Registry EXCEPT ![ref].state = state]
<1>2. /\ DOMAIN r = DOMAIN Registry
      /\ \A x \in DOMAIN Registry : r[x].pub = Registry[x].pub
      /\ job'[Operator].registry = r
      /\ \A q \in Publishers : job'[q] = job[q]
      /\ UNCHANGED <<drafts, files, attempts, history>>
  <2>1. job'[Operator] = [pc |-> "update", registry |-> r]
    BY ReadForUpdateFacts DEF SerialInv
  <2>2. job'[Operator].registry = r
    BY <2>1
  <2>3. /\ DOMAIN r = DOMAIN Registry
        /\ \A x \in DOMAIN Registry : r[x].pub = Registry[x].pub
        /\ \A q \in Publishers : job'[q] = job[q]
        /\ UNCHANGED <<drafts, files, attempts, history>>
    BY ReadForUpdateFacts DEF SerialInv
  <2> HIDE DEF r
  <2> QED
    BY <2>2, <2>3
<1> HIDE DEF r
<1>3. UNCHANGED <<disk, temp, backup>>
  BY <1>2 DEF files
<1>4. \A q \in Publishers : job[q] = Idle /\ job'[q] = Idle
  BY <1>2, ProcessSets DEF ReadForUpdate, NoOtherProcess
<1>5. OneAtATime'
  BY <1>4 DEF OneAtATime, Processes
<1>6. WholeDisk' /\ BackupsShadowTargets'
  BY <1>2, <1>3 DEF SerialInv, WholeDisk, BackupsShadowTargets, history
<1>7. \A q \in Publishers : CallOK(q)'
  <2>1. \A q \in Publishers : job'[q].pc = "idle"
    BY <1>4 DEF Idle
  <2> QED
    BY <2>1 DEF CallOK
<1>8. UpdateOK'
  <2>1. Registry' = Registry
    BY <1>3 DEF Registry, Exists
  <2> QED
    BY <1>2, <2>1 DEF UpdateOK
<1> QED
  BY <1>1, <1>5, <1>6, <1>7, <1>8 DEF SerialInv

(* A registry with the same references and publications may replace it.    *)
LEMMA RegistryReplaced ==
  ASSUME NEW d, NEW R, NEW F, Whole(d, R, F), NEW r, DOMAIN r = DOMAIN RegistryOf(d),
         \A ref \in DOMAIN r : r[ref].pub = RegistryOf(d)[ref].pub
  PROVE  Whole(Put(d, Index, r), R, F)
<1> DEFINE e == Put(d, Index, r)
<1>1. /\ RegistryOf(e) = r
      /\ \A x, v : x # Index /\ Holds(d, x, v) => Holds(e, x, v)
  BY PutHolds
<1>2. \A x : /\ Index # <<"manifest", x>> /\ Index # <<"contract", x>> /\ Index # <<"deployed", x>>
             /\ Index # <<"snapshot", x>> /\ Index # <<"bundle", x>> /\ Index # <<"receipt", x>>
  BY DEF Index
<1>3. ManifestsWhole(e, F)
  BY <1>2, ManifestsKept DEF Whole
<1>4. BundlesWhole(e)
  BY <1>2, BundlesKept DEF Whole
<1>5. ReceiptsWhole(e)
  BY <1>2, ReceiptsKept DEF Whole
<1>6. IdsDistinct(e)
  BY <1>2, IdsKept DEF Whole
<1> HIDE DEF e
<1>7. EntriesWhole(e)
  BY <1>1, <1>2 DEF Whole, EntriesWhole
<1>8. ReturnedKept(e, R)
  BY <1>1 DEF Whole, ReturnedKept
<1> QED
  BY <1>3, <1>4, <1>5, <1>6, <1>7, <1>8 DEF Whole, e

(* The operator changes states only.                                       *)
LEMMA WriteUpdateSerial ==
  ASSUME SerialInv, WriteUpdate
  PROVE  SerialInv'
<1> DEFINE r == job[Operator].registry
<1>1. Typed'
  BY WriteUpdateTyped DEF SerialInv
<1>2. /\ job[Operator] # Idle /\ disk' = Put(disk, Index, r)
      /\ job' = [job EXCEPT ![Operator] = Idle]
      /\ backup' = backup /\ returned' = returned /\ faulted' = faulted
  BY DEF WriteUpdate, history
<1>3. Operator \in Processes
  BY DEF Processes
<1>4. \A q \in Publishers : job[q] = Idle
  BY <1>2, <1>3, OthersIdle, ProcessSets DEF SerialInv
<1>5. \A q \in Processes : job'[q] = Idle
  BY <1>2, <1>3, <1>4 DEF SerialInv, Typed, JobsTyped, Processes
<1>6. /\ DOMAIN r = DOMAIN Registry
      /\ \A ref \in DOMAIN Registry : r[ref].pub = Registry[ref].pub
  BY <1>2 DEF SerialInv, UpdateOK
<1> HIDE DEF r
<1>7. WholeDisk'
  <2>1. Whole(Put(disk, Index, r), returned, faulted)
    BY <1>6, RegistryIs, RegistryReplaced DEF SerialInv, WholeDisk
  <2> QED
    BY <1>2, <2>1 DEF WholeDisk
<1>8. BackupsShadowTargets'
  <2>1. DOMAIN disk \subseteq DOMAIN disk'
    BY <1>2 DEF Put
  <2> QED
    BY <1>2, <2>1 DEF SerialInv, BackupsShadowTargets, Shadowed
<1>9. OneAtATime' /\ UpdateOK'
  BY <1>3, <1>5 DEF OneAtATime, UpdateOK
<1>10. \A q \in Publishers : CallOK(q)'
  <2>1. \A q \in Publishers : job'[q].pc = "idle"
    BY <1>5, ProcessSets DEF Idle
  <2> QED
    BY <2>1 DEF CallOK
<1> QED
  BY <1>1, <1>7, <1>8, <1>9, <1>10 DEF SerialInv

LEMMA InitSerial == Init => SerialInv
<1> SUFFICES ASSUME Init PROVE SerialInv
  OBVIOUS
<1>1. /\ disk = << >> /\ backup = << >> /\ returned = {} /\ faulted = {}
      /\ \A p \in Processes : job[p] = Idle
  BY DEF Init
<1>2. DOMAIN disk = {} /\ DOMAIN backup = {} /\ Operator \in Processes
  BY <1>1 DEF Processes
<1>3. RegistryOf(disk) = << >> /\ DOMAIN RegistryOf(disk) = {}
  BY <1>2 DEF RegistryOf
<1>4. WholeDisk
  BY <1>1, <1>2, <1>3 DEF WholeDisk, Whole, ManifestsWhole, BundlesWhole, ReceiptsWhole, EntriesWhole,
                          IdsDistinct, ReturnedKept
<1>5. \A p \in Publishers : CallOK(p)
  BY <1>1, IdleCall, ProcessSets
<1>6. OneAtATime /\ UpdateOK /\ BackupsShadowTargets
  BY <1>1, <1>2 DEF OneAtATime, UpdateOK, BackupsShadowTargets, Shadowed
<1> QED
  BY <1>4, <1>5, <1>6, InitTyped DEF SerialInv

LEMMA NextSerial == SerialInv /\ Serial /\ [Next]_vars => SerialInv'
<1> SUFFICES ASSUME SerialInv, Serial, [Next]_vars PROVE SerialInv'
  OBVIOUS
<1>1. Typed'
  BY NextTyped DEF SerialInv
<1>2. ASSUME NEW s \in Stems, NEW g \in Policies, RunPolicy(s, g) PROVE SerialInv'
  BY <1>1, <1>2, DraftsSerial DEF RunPolicy
<1>3. ASSUME NEW s \in Stems, NEW actor \in Approvers, Approve(s, actor) PROVE SerialInv'
  BY <1>1, <1>3, DraftsSerial DEF Approve
<1>4. ASSUME NEW p \in Publishers, Publish(p) PROVE SerialInv'
  <2>1. ASSUME NEW s \in Stems, NEW t \in Times, Load(p, s, t) PROVE SerialInv'
    BY <2>1, LoadSerial
  <2>2. CASE Compile(p)
    BY <2>2, CompileSerial
  <2>3. CASE Identify(p)
    BY <2>3, IdentifySerial
  <2>4. CASE ReadRegistry(p)
    BY <2>4, ReadRegistrySerial
  <2>5. CASE Stage(p)
    BY <2>5, StageSerial
  <2>6. CASE StageFault(p)
    BY <2>6, StageFaultSerial
  <2>7. CASE Commit(p)
    BY <2>7, CommitSerial
  <2>8. CASE Fail(p)
    BY <2>8, FailSerial
  <2>9. CASE Undo(p)
    BY <2>9, UndoSerial
  <2>10. CASE Sweep(p)
    BY <2>10, SweepSerial
  <2>11. CASE RollbackFault(p)
    BY <1>1, <2>11, RollbackFaultSerial
  <2>12. CASE Return(p)
    BY <2>12, ReturnSerial
  <2>13. CASE Crash(p)
    BY <2>13, CrashSerial
  <2> QED
    BY <1>4, <2>1, <2>2, <2>3, <2>4, <2>5, <2>6, <2>7, <2>8, <2>9, <2>10, <2>11, <2>12, <2>13
       DEF Publish
<1>5. ASSUME NEW ref \in Range(RefOf), NEW state \in LifecycleStates, ReadForUpdate(ref, state)
      PROVE  SerialInv'
  BY <1>5, ReadForUpdateSerial
<1>6. CASE WriteUpdate
  BY <1>6, WriteUpdateSerial
<1>7. CASE UNCHANGED vars
  BY <1>1, <1>7, DraftsSerial DEF vars
<1> QED
  BY <1>2, <1>3, <1>4, <1>5, <1>6, <1>7 DEF Next


-----------------------------------------------------------------------------
(* One process at a time: what follows from the invariant.                 *)

(* A bundle stands for the publication in the manifest it names.           *)
LEMMA BundleStandsFor ==
  ASSUME FilesTyped, WholeDisk, NEW ref \in Refs, <<"bundle", ref>> \in DOMAIN disk
  PROVE  LET pub == disk[<<"bundle", ref>>]
         IN /\ pub \in Publication /\ Ref(pub) = ref
            /\ Holds(disk, <<"manifest", Stem(pub)>>, pub)
            /\ Holds(disk, <<"contract", ref>>, pub.contract)
            /\ Stem(pub) \notin faulted => /\ Holds(disk, <<"deployed", Stem(pub)>>, pub)
                                          /\ Holds(disk, <<"snapshot", pub>>, pub)
<1> DEFINE pub == disk[<<"bundle", ref>>]
<1>1. pub \in Publication
  BY DEF FilesTyped, MayHold, Index
<1>2. Ref(pub) = ref /\ Holds(disk, <<"manifest", Stem(pub)>>, pub)
  BY DEF WholeDisk, Whole, BundlesWhole
<1> HIDE DEF pub
<1>3. Stem(pub) \in Stems
  BY <1>1, PublicationParts
<1>4. /\ <<"manifest", Stem(pub)>> \in DOMAIN disk
      /\ disk[<<"manifest", Stem(pub)>>] = pub
  BY <1>2 DEF Holds
<1>5. /\ Holds(disk, <<"contract", ref>>, pub.contract)
      /\ Stem(pub) \notin faulted => Holds(disk, <<"deployed", Stem(pub)>>, pub)
      /\ Stem(pub) \notin faulted => Holds(disk, <<"snapshot", pub>>, pub)
  <2>1. LET q == disk[<<"manifest", Stem(pub)>>]
        IN /\ Holds(disk, <<"contract", Ref(q)>>, q.contract)
           /\ Stem(pub) \notin faulted => Holds(disk, <<"deployed", Stem(pub)>>, q)
           /\ Stem(pub) \notin faulted => Holds(disk, <<"snapshot", q>>, q)
    BY <1>3, <1>4, WholeManifest DEF WholeDisk, Whole
  <2> QED
    BY <1>2, <1>4, <2>1
<1> QED
  BY <1>1, <1>2, <1>5 DEF pub

(* An entry stands for a receipt and the receipt for a bundle.             *)
LEMMA EntryStandsFor ==
  ASSUME FilesTyped, WholeDisk, NEW ref \in DOMAIN Registry
  PROVE  LET pub == Registry[ref].pub
         IN /\ pub \in Publication /\ Ref(pub) = ref /\ ref \in Refs
            /\ Holds(disk, <<"receipt", ref>>, pub)
            /\ Holds(disk, <<"bundle", ref>>, pub)
<1> DEFINE pub == Registry[ref].pub
<1>1. pub \in Publication /\ ref \in Refs
  BY RegistryTyped DEF IsRegistry, Entries
<1>2. Ref(pub) = ref /\ Holds(disk, <<"receipt", ref>>, pub)
  BY RegistryIs DEF WholeDisk, Whole, EntriesWhole
<1> HIDE DEF pub
<1>3. Holds(disk, <<"bundle", ref>>, pub)
  BY <1>1, <1>2 DEF WholeDisk, Whole, ReceiptsWhole, Holds
<1> QED
  BY <1>1, <1>2, <1>3 DEF pub

LEMMA RegisteredIsWhole ==
  ASSUME FilesTyped, WholeDisk
  PROVE  RegisteredIsComplete
<1> SUFFICES ASSUME NEW ref \in DOMAIN Registry
             PROVE  LET pub == Registry[ref].pub
                    IN /\ Ref(pub) = ref
                       /\ \A i \in DOMAIN Outputs(pub) :
                            LET path == Outputs(pub)[i]
                            IN \/ Exists(path) /\ (path # Index => disk[path] = Content(path, pub, << >>))
                               \/ path[1] \in {"deployed", "snapshot"} /\ Stem(pub) \in faulted
  BY DEF RegisteredIsComplete
<1> DEFINE pub == Registry[ref].pub
<1>1. /\ pub \in Publication /\ Ref(pub) = ref /\ ref \in Refs
      /\ Holds(disk, <<"receipt", ref>>, pub)
      /\ Holds(disk, <<"bundle", ref>>, pub)
  BY EntryStandsFor
<1>2. Exists(Index)
  <2>1. DOMAIN << >> = {}
    OBVIOUS
  <2> QED
    BY <2>1 DEF Registry
<1> HIDE DEF pub
<1>3. /\ Holds(disk, <<"manifest", Stem(pub)>>, pub)
      /\ Holds(disk, <<"contract", ref>>, pub.contract)
      /\ Stem(pub) \notin faulted => Holds(disk, <<"deployed", Stem(pub)>>, pub)
      /\ Stem(pub) \notin faulted => Holds(disk, <<"snapshot", pub>>, pub)
  BY <1>1, BundleStandsFor DEF Holds
<1>4. ASSUME NEW i \in 1..6, i \notin {2, 3} \/ Stem(pub) \notin faulted
      PROVE  Holds(disk, Outputs(pub)[i], Fixed(pub, i))
  <2>1. i \in {1, 2, 3, 4, 5, 6}
    OBVIOUS
  <2>2. CASE i = 1
    BY <1>1, <1>3, <2>2, OutputsAre DEF Fixed
  <2>3. CASE i \in {2, 3, 4}
    BY <1>3, <1>4, <2>3, OutputsAre DEF Fixed
  <2>4. CASE i \in {5, 6}
    BY <1>1, <2>4, OutputsAre DEF Fixed
  <2> QED
    BY <2>1, <2>2, <2>3, <2>4
<1>5. ASSUME NEW i \in 1..7
      PROVE  LET path == Outputs(pub)[i]
             IN \/ Exists(path) /\ (path # Index => disk[path] = Content(path, pub, << >>))
                \/ path[1] \in {"deployed", "snapshot"} /\ Stem(pub) \in faulted
  <2>1. CASE i \in 1..6 /\ (i \notin {2, 3} \/ Stem(pub) \notin faulted)
    BY <1>4, <2>1, FixedContent DEF Holds, Exists
  <2>2. CASE i \in {2, 3} /\ Stem(pub) \in faulted
    BY <2>2, OutputsAre
  <2>3. CASE i = 7
    BY <1>2, <2>3, OutputsAre
  <2> QED
    BY <2>1, <2>2, <2>3
<1> QED
  BY <1>1, <1>5, OutputsAre DEF pub

LEMMA ManifestIds ==
  ASSUME FilesTyped, WholeDisk
  PROVE  PublicationIdsDistinct
<1> SUFFICES ASSUME NEW m \in Manifests, NEW n \in Manifests, m # n
             PROVE  disk[m].id # disk[n].id
  BY DEF PublicationIdsDistinct
<1>1. ASSUME NEW k \in Manifests
      PROVE  /\ k = <<"manifest", k[2]>> /\ k[2] \in Stems
             /\ k \in DOMAIN disk
  BY <1>1 DEF Manifests, FilesTyped, MayHold, Paths, Index
<1> QED
  BY <1>1 DEF WholeDisk, Whole, IdsDistinct

LEMMA ManifestFinishable ==
  ASSUME FilesTyped, WholeDisk, NEW m \in Manifests
  PROVE  LET pub == disk[m]
         IN /\ SameIdentity(Registry, pub)
            /\ PublicationId(Stem(pub)) = pub.id
            /\ \A i \in DOMAIN Outputs(pub) :
                 ~ Conflict(Outputs(pub)[i], Content(Outputs(pub)[i], pub, << >>))
<1> DEFINE pub == disk[m]
<1>1. m = <<"manifest", m[2]>> /\ m[2] \in Stems /\ m \in DOMAIN disk
  BY DEF Manifests, FilesTyped, MayHold, Paths, Index
<1>2. pub \in Publication
  BY ManifestTyped
<1>3. Stem(pub) = m[2] /\ Holds(disk, <<"contract", Ref(pub)>>, pub.contract)
  BY <1>1 DEF WholeDisk, Whole, ManifestsWhole
<1>4. disk[<<"manifest", Stem(pub)>>] = pub /\ <<"manifest", Stem(pub)>> \in DOMAIN disk
  BY <1>1, <1>3
<1> HIDE DEF pub
<1>5. Stem(pub) \in Stems /\ Ref(pub) \in Refs
  BY <1>2, PublicationParts
<1>6. \A q : <<"bundle", Ref(pub)>> \in DOMAIN disk /\ disk[<<"bundle", Ref(pub)>>] = q => q = pub
  <2> SUFFICES ASSUME NEW q, Holds(disk, <<"bundle", Ref(pub)>>, q)
               PROVE  q = pub
    BY DEF Holds
  <2>1. /\ Holds(disk, <<"manifest", Stem(q)>>, q)
        /\ Holds(disk, <<"contract", Ref(pub)>>, q.contract)
    BY <1>5, BundleStandsFor DEF Holds
  <2>2. q.contract = pub.contract
    BY <1>3, <2>1 DEF Holds
  <2>3. Stem(q) = Stem(pub)
    BY <2>2 DEF Stem
  <2> QED
    BY <1>4, <2>1, <2>3 DEF Holds
<1>7. \A q : <<"receipt", Ref(pub)>> \in DOMAIN disk /\ disk[<<"receipt", Ref(pub)>>] = q => q = pub
  BY <1>5, <1>6 DEF WholeDisk, Whole, ReceiptsWhole, Holds
<1>8. SameIdentity(Registry, pub)
  <2> SUFFICES ASSUME Ref(pub) \in DOMAIN Registry PROVE Registry[Ref(pub)].pub = pub
    BY DEF SameIdentity
  <2>1. Holds(disk, <<"bundle", Ref(pub)>>, Registry[Ref(pub)].pub)
    BY EntryStandsFor
  <2> QED
    BY <1>6, <2>1 DEF Holds
<1>9. PublicationId(Stem(pub)) = pub.id
  BY <1>4 DEF PublicationId, Exists
<1>10. ASSUME NEW i \in 1..7
       PROVE  ~ Conflict(Outputs(pub)[i], Content(Outputs(pub)[i], pub, << >>))
  <2>1. i \in {1, 2, 3, 4, 5, 6, 7}
    OBVIOUS
  <2>2. CASE i = 1
    <3>1. Outputs(pub)[1] = <<"contract", Ref(pub)>>
      BY OutputsAre
    <3>2. Content(Outputs(pub)[1], pub, << >>) = pub.contract
      BY FixedContent DEF Fixed
    <3> QED
      BY <1>3, <2>2, <3>1, <3>2 DEF Conflict, Holds
  <2>3. CASE i \in {2, 3}
    BY <2>3, FixedContent DEF Conflict
  <2>4. CASE i = 4
    BY <1>4, <2>4, OutputsAre, FixedContent DEF Conflict, Fixed
  <2>5. CASE i = 5
    BY <1>6, <2>5, OutputsAre, FixedContent DEF Conflict, Fixed, Exists
  <2>6. CASE i = 6
    BY <1>7, <2>6, OutputsAre, FixedContent DEF Conflict, Fixed, Exists
  <2>7. CASE i = 7
    BY <2>7, RegistryContent DEF Conflict
  <2> QED
    BY <2>1, <2>2, <2>3, <2>4, <2>5, <2>6, <2>7
<1> QED
  BY <1>8, <1>9, <1>10, OutputsAre DEF pub

(* With one process at a time, SerialInv is invariant.                     *)
LEMMA SerialInvariant ==
  ASSUME Serial
  PROVE  Spec => []SerialInv
<1>1. SerialInv /\ [Next]_vars => SerialInv'
  BY NextSerial
<1> QED
  BY <1>1, InitSerial, PTL DEF Spec

(* An entry of the registry never names a publication of which an output   *)
(* is missing or another publication's, after a crash at any point of      *)
(* commit() or of a rollback and after any number of calls: the renames go *)
(* in an order in which each output stands for those before it, the        *)
(* registry comes last, and a rollback goes back in reverse.  Excepted are *)
(* the deployed review and the snapshot of a policy file of which a        *)
(* rollback raised within commit(), which is run again and deletes what it *)
(* had restored; the contract, the manifest, the bundle and the receipt    *)
(* are safe there too.                                                     *)
THEOREM RegisteredComplete ==
  ASSUME Serial
  PROVE  Spec => []RegisteredIsComplete
<1>1. SerialInv => RegisteredIsComplete
  BY RegisteredIsWhole DEF SerialInv, Typed
<1> QED
  BY <1>1, SerialInvariant, PTL

(* What publish_review_file returned as COMMITTED stays resolvable with    *)
(* the same publication, if no two calls overlap (the registry is read and *)
(* replaced without a lock).  The calls are of publish_review_file and of  *)
(* update_contract_registry, which changes lifecycle states.               *)
THEOREM ReturnedRegistered ==
  ASSUME Serial
  PROVE  Spec => []ReturnedStaysRegistered
<1>1. SerialInv => ReturnedStaysRegistered
  BY RegistryIs DEF SerialInv, WholeDisk, Whole, ReturnedKept, ReturnedStaysRegistered
<1> QED
  BY <1>1, SerialInvariant, PTL

(* The publication ids of the manifests on disk are distinct: a new id is  *)
(* greater than all of them, and a call that finds its stem's manifest     *)
(* takes the id that is there.                                             *)
THEOREM IdsAreDistinct ==
  ASSUME Serial
  PROVE  Spec => []PublicationIdsDistinct
<1>1. SerialInv => PublicationIdsDistinct
  BY ManifestIds DEF SerialInv, Typed
<1> QED
  BY <1>1, SerialInvariant, PTL

(* A publication whose manifest is on disk can be published again as it    *)
(* was: the registry's entry for its reference, if there is one, and the   *)
(* immutable outputs at its paths are its own.                             *)
THEOREM InterruptedFinishable ==
  ASSUME Serial
  PROVE  Spec => []InterruptedCanBeFinished
<1>1. SerialInv => InterruptedCanBeFinished
  BY ManifestFinishable DEF SerialInv, Typed, InterruptedCanBeFinished
<1> QED
  BY <1>1, SerialInvariant, PTL
==============================================================================
