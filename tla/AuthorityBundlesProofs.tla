----------------------- MODULE AuthorityBundlesProofs -----------------------
(***************************************************************************)
(* Theorems about the bundles that the validators accept: for any policies,*)
(* authorities, answers and rules, and any number of bundles at hand.      *)
(***************************************************************************)
EXTENDS AuthorityBundles, TLAPS

-----------------------------------------------------------------------------
(* The inductive invariant.                                                *)

RoundsOf(version) == {r \in Rounds : r.version = version}

(* What is at hand was published, by this release or by one before it.     *)
ShelfOK ==
  /\ \A b \in shelf :
       /\ b = [round |-> b.round, parts |-> Built(b.round)]
       /\ b.round \in Rounds
       /\ FinalizerAccepts(b.round) \/ PublishedBefore(b.round)
  /\ \A b, c \in shelf : b.round.version = c.round.version

(* The parts b of a bundle come from rounds of one version.                *)
PutTogether(b, from, version) ==
  /\ from \in [DOMAIN from -> RoundsOf(version)]
  /\ DOMAIN from = DOMAIN Built(from["approval_record"])
  /\ "approval_record" \in DOMAIN from
  /\ b = [p \in DOMAIN from |-> Built(from[p])[p]]

BundleOK ==
  bundle # None =>
    \E from : /\ PutTogether(bundle.parts, from, bundle.version)
              /\ approved = from["approval_record"]

IInv == ShelfOK /\ BundleOK

-----------------------------------------------------------------------------
(* The parts of each version.                                              *)

LEMMA RoundShape ==
  ASSUME NEW r \in Rounds
  PROVE  /\ r.version \in Versions
         /\ r = [version |-> r.version, source |-> r.source, authority |-> r.authority,
                 choice |-> r.choice, answered |-> r.answered, approved |-> r.approved,
                 committed |-> r.committed, published |-> r.published]
         /\ r.source \in Sources /\ r.authority \in Authorities /\ r.choice \in Choices
         /\ {r.answered, r.approved, r.committed, r.published} \subseteq Times
         /\ <<r.source, r.authority, r.choice>> \in Contents
BY DEF Rounds

LEMMA RoundIntro ==
  ASSUME NEW v \in Versions, NEW c \in Rounds,
         NEW t1 \in Times, NEW t2 \in Times, NEW t3 \in Times, NEW t4 \in Times
  PROVE  [version |-> v, source |-> c.source, authority |-> c.authority,
          choice |-> c.choice, answered |-> t1, approved |-> t2,
          committed |-> t3, published |-> t4] \in Rounds
BY DEF Rounds

LEMMA BuiltCases ==
  ASSUME NEW r \in Rounds
  PROVE  /\ r.version = "v1" => Built(r) = CustomerParts(r)
         /\ r.version = "v2" => Built(r) = DomainParts(r)
         /\ r.version \in {"v3", "v4"} => Built(r) = TranslationParts(r)
BY DEF Built

CustomerNames ==
  {"source_policy", "source_statements", "interpretation", "resolution", "semantic_commit",
   "compiled", "approval_record", "version_binding", "manifest", "impact_preview"}
DomainNames ==
  {"source_policy", "authority", "decisions", "constraint_ir", "semantic_commit",
   "compiled", "approval_record", "manifest"}
TranslationNames ==
  {"source_policy", "authority", "commitment", "constraint_ir", "semantic_commit",
   "compiled", "approval_record", "manifest"}

LEMMA NamesOfParts ==
  ASSUME NEW r \in Rounds
  PROVE  /\ r.version = "v1" => DOMAIN Built(r) = CustomerNames
         /\ r.version = "v2" => DOMAIN Built(r) = DomainNames
         /\ r.version \in {"v3", "v4"} => DOMAIN Built(r) = TranslationNames
<1>1. DOMAIN CustomerParts(r) = CustomerNames
  BY DEF CustomerParts, CustomerNames
<1>2. DOMAIN DomainParts(r) = DomainNames
  BY DEF DomainParts, DomainNames
<1>3. DOMAIN TranslationParts(r) = TranslationNames
  BY DEF TranslationParts, TranslationNames
<1> QED
  BY <1>1, <1>2, <1>3, BuiltCases

LEMMA SameParts ==
  ASSUME NEW r \in Rounds, NEW s \in Rounds, r.version = s.version
  PROVE  /\ DOMAIN Built(r) = DOMAIN Built(s)
         /\ "approval_record" \in DOMAIN Built(r)
<1>1. "approval_record" \in CustomerNames \cap DomainNames \cap TranslationNames
  BY DEF CustomerNames, DomainNames, TranslationNames
<1> QED
  BY <1>1, NamesOfParts, RoundShape DEF Versions

-----------------------------------------------------------------------------
(* The invariant is inductive.                                             *)

LEMMA InitIInv == Init => IInv
BY DEF Init, IInv, ShelfOK, BundleOK

LEMMA ShelveKeeps ==
  ASSUME IInv, NEW r \in Rounds, Shelve(r), FinalizerAccepts(r) \/ PublishedBefore(r)
  PROVE  IInv'
<1> DEFINE new == [round |-> r, parts |-> Built(r)]
<1>1. shelf' = shelf \cup {new} /\ bundle = None /\ bundle' = bundle
  BY DEF Shelve
<1>2. new.round = r /\ new.parts = Built(r)
  OBVIOUS
<1>3. \A b \in shelf : b.round.version = r.version
  BY DEF Shelve
<1> HIDE DEF new
<1>4. new = [round |-> new.round, parts |-> Built(new.round)]
  BY <1>2 DEF new
<1>5. ShelfOK'
  BY <1>1, <1>2, <1>3, <1>4 DEF IInv, ShelfOK
<1> QED
  BY <1>1, <1>5 DEF IInv, BundleOK

LEMMA AssembleKeeps ==
  ASSUME IInv, NEW b \in shelf, NEW from \in [DOMAIN b.parts -> shelf], Assemble(from)
  PROVE  IInv'
<1> DEFINE v == b.round.version
           rounds == [p \in DOMAIN from |-> from[p].round]
<1>1. /\ b.parts = Built(b.round)
      /\ b.round \in Rounds
      /\ \A p \in DOMAIN from :
           /\ from[p].round \in RoundsOf(v)
           /\ from[p].parts = Built(from[p].round)
  BY DEF IInv, ShelfOK, RoundsOf
<1>2. DOMAIN from = DOMAIN Built(b.round) /\ "approval_record" \in DOMAIN from
  BY <1>1, SameParts
<1>3. rounds["approval_record"] = from["approval_record"].round
  BY <1>2
<1>4. from["approval_record"].round \in Rounds /\ from["approval_record"].round.version = v
  BY <1>1, <1>2 DEF RoundsOf
<1>5. DOMAIN rounds = DOMAIN Built(rounds["approval_record"])
  BY <1>1, <1>2, <1>3, <1>4, SameParts
<1>6. bundle' = [version |-> v, parts |-> [p \in DOMAIN from |-> from[p].parts[p]]]
  BY <1>4 DEF Assemble
<1>7. bundle'.parts = [p \in DOMAIN rounds |-> Built(rounds[p])[p]]
  BY <1>1, <1>6
<1>8. PutTogether(bundle'.parts, rounds, bundle'.version)
  <2>1. rounds \in [DOMAIN rounds -> RoundsOf(v)]
    BY <1>1
  <2>2. bundle'.version = v
    BY <1>6
  <2>3. "approval_record" \in DOMAIN rounds
    BY <1>2
  <2> HIDE DEF rounds, v
  <2> QED
    BY <1>5, <1>7, <2>1, <2>2, <2>3 DEF PutTogether
<1>9. approved' = rounds["approval_record"]
  BY <1>3 DEF Assemble
<1> HIDE DEF rounds
<1>10. BundleOK'
  BY <1>8, <1>9 DEF BundleOK
<1>11. ShelfOK'
  BY DEF Assemble, ShelfOK
<1> QED
  BY <1>10, <1>11 DEF IInv

LEMMA NextKeeps == IInv /\ [Next]_vars => IInv'
<1> SUFFICES ASSUME IInv, [Next]_vars PROVE IInv'
  OBVIOUS
<1>1. CASE UNCHANGED vars
  BY <1>1 DEF vars, IInv, ShelfOK, BundleOK
<1>2. CASE \E r \in Rounds : Finalize(r) \/ Recall(r)
  BY <1>2, ShelveKeeps DEF Finalize, Recall
<1>3. CASE \E from \in UNION {[DOMAIN b.parts -> shelf] : b \in shelf} : Assemble(from)
  BY <1>3, AssembleKeeps
<1> QED
  BY <1>1, <1>2, <1>3 DEF Next

-----------------------------------------------------------------------------
(* A bundle is accepted with its own receipt and no other.                 *)

LEMMA CustomerFields ==
  ASSUME NEW r
  PROVE  LET b == CustomerParts(r)
         IN /\ b.source_policy = r.source
            /\ b.source_statements = <<r.source, r.choice>>
            /\ b.interpretation.draft = <<r.source, r.authority>>
            /\ b.interpretation.mapping = <<r.source, r.choice>>
            /\ b.resolution = Records(r)
            /\ b.semantic_commit = Commit(r)
            /\ b.compiled = Compiled(r)
            /\ b.approval_record = [commit |-> CommitHash(Commit(r)), at |-> r.approved]
            /\ b.version_binding = <<r.source, r.authority>>
            /\ b.manifest = Manifest(r.source, Compiled(r), r.published)
BY DEF CustomerParts

LEMMA DomainFields ==
  ASSUME NEW r
  PROVE  LET b == DomainParts(r)
         IN /\ b.source_policy = r.source
            /\ b.authority = r.authority
            /\ b.decisions = Records(r)
            /\ b.constraint_ir = RulesIn(r)
            /\ b.semantic_commit = Commit(r)
            /\ b.compiled = Compiled(r)
            /\ b.approval_record =
                 [rules |-> RulesIn(r), commit |-> CommitHash(Commit(r)), at |-> r.approved]
            /\ b.manifest = Manifest(r.source, Compiled(r), r.published)
BY DEF DomainParts

LEMMA TranslationFields ==
  ASSUME NEW r
  PROVE  LET b == TranslationParts(r)
         IN /\ b.source_policy = r.source
            /\ b.authority = r.authority
            /\ b.commitment = Commitment(r)
            /\ b.constraint_ir = RulesIn(r)
            /\ b.semantic_commit = Commit(r)
            /\ b.compiled = Compiled(r)
            /\ b.approval_record = TranslationApproval(r)
            /\ b.manifest = Manifest(r.source, Compiled(r), r.published)
BY DEF TranslationParts

(* What the hashed parts say, field by field.                              *)
LEMMA PartFields ==
  ASSUME NEW r
  PROVE  /\ /\ Records(r).source = r.source
            /\ Records(r).choice = r.choice
            /\ Records(r).at = r.answered
         /\ /\ Commit(r).source = r.source
            /\ Commit(r).answers = Records(r)
            /\ Commit(r).meaning = Meaning(r)
            /\ Commit(r).bindings = Bindings(r)
            /\ Commit(r).at = r.committed
         /\ /\ Meaning(r).rules = RulesIn(r)
            /\ Meaning(r).authority = r.authority
         /\ /\ CommitHash(Commit(r)).meaning = Meaning(r)
            /\ CommitHash(Commit(r)).bindings = Bindings(r)
         /\ /\ Compiled(r).commit = CommitHash(Commit(r))
            /\ Compiled(r).source = r.source
            /\ Compiled(r).authority = r.authority
            /\ Compiled(r).rules = RulesIn(r)
         /\ /\ Commitment(r).records = Records(r)
            /\ Commitment(r).authority = r.authority
         /\ /\ TranslationApproval(r).commitment = Commitment(r)
            /\ TranslationApproval(r).rules = RulesIn(r)
            /\ TranslationApproval(r).commit = CommitHash(Commit(r))
            /\ TranslationApproval(r).at = r.approved
<1>1. /\ Records(r).source = r.source
      /\ Records(r).choice = r.choice
      /\ Records(r).at = r.answered
  BY DEF Records
<1>2. /\ Commit(r).source = r.source
      /\ Commit(r).answers = Records(r)
      /\ Commit(r).meaning = Meaning(r)
      /\ Commit(r).bindings = Bindings(r)
      /\ Commit(r).at = r.committed
  BY DEF Commit
<1>3. Meaning(r).rules = RulesIn(r) /\ Meaning(r).authority = r.authority
  BY DEF Meaning
<1>4. /\ CommitHash(Commit(r)).meaning = Meaning(r)
      /\ CommitHash(Commit(r)).bindings = Bindings(r)
  BY <1>2 DEF CommitHash
<1>5. /\ Compiled(r).commit = CommitHash(Commit(r))
      /\ Compiled(r).source = r.source
      /\ Compiled(r).authority = r.authority
      /\ Compiled(r).rules = RulesIn(r)
  BY DEF Compiled
<1>6. Commitment(r).records = Records(r) /\ Commitment(r).authority = r.authority
  BY DEF Commitment
<1>7. /\ TranslationApproval(r).commitment = Commitment(r)
      /\ TranslationApproval(r).rules = RulesIn(r)
      /\ TranslationApproval(r).commit = CommitHash(Commit(r))
      /\ TranslationApproval(r).at = r.approved
  BY DEF TranslationApproval
<1> QED
  BY <1>1, <1>2, <1>3, <1>4, <1>5, <1>6, <1>7

(* The round that the parts of one round tell of is that round.            *)
LEMMA ToldOfBuilt ==
  ASSUME NEW r \in Rounds
  PROVE  /\ r.version = "v2" => Told("v2", Built(r), Built(r).decisions) = r
         /\ r.version \in {"v3", "v4"} =>
              Told(r.version, Built(r), Built(r).commitment.records) = r
<1>0. /\ Records(r).choice = r.choice /\ Records(r).at = r.answered
      /\ Commitment(r).records = Records(r)
      /\ Commit(r).at = r.committed
      /\ TranslationApproval(r).at = r.approved
  BY PartFields
<1>a. Manifest(r.source, Compiled(r), r.published).at = r.published
  BY DEF Manifest
<1>1. ASSUME r.version = "v2" PROVE Told("v2", Built(r), Built(r).decisions) = r
  <2> DEFINE b == Built(r)
  <2>1. /\ b.source_policy = r.source
        /\ b.authority = r.authority
        /\ b.decisions = Records(r)
        /\ b.semantic_commit = Commit(r)
        /\ b.approval_record =
             [rules |-> RulesIn(r), commit |-> CommitHash(Commit(r)), at |-> r.approved]
        /\ b.manifest = Manifest(r.source, Compiled(r), r.published)
    BY <1>1, BuiltCases, DomainFields
  <2> HIDE DEF b
  <2>2. b.approval_record.at = r.approved
    BY <2>1
  <2>3. /\ b.decisions.choice = r.choice /\ b.decisions.at = r.answered
        /\ b.semantic_commit.at = r.committed /\ b.manifest.at = r.published
    BY <1>0, <1>a, <2>1
  <2>4. Told("v2", b, b.decisions) = r
    BY <1>1, <2>1, <2>2, <2>3, RoundShape DEF Told
  <2> QED
    BY <2>4 DEF b
<1>2. ASSUME r.version \in {"v3", "v4"}
      PROVE  Told(r.version, Built(r), Built(r).commitment.records) = r
  <2> DEFINE b == Built(r)
  <2>1. /\ b.source_policy = r.source
        /\ b.authority = r.authority
        /\ b.commitment = Commitment(r)
        /\ b.semantic_commit = Commit(r)
        /\ b.approval_record = TranslationApproval(r)
        /\ b.manifest = Manifest(r.source, Compiled(r), r.published)
    BY <1>2, BuiltCases, TranslationFields
  <2> HIDE DEF b
  <2>2. /\ b.commitment.records.choice = r.choice /\ b.commitment.records.at = r.answered
        /\ b.semantic_commit.at = r.committed /\ b.manifest.at = r.published
        /\ b.approval_record.at = r.approved
    BY <1>0, <1>a, <2>1
  <2>3. Told(r.version, b, b.commitment.records) = r
    BY <1>2, <2>1, <2>2, RoundShape DEF Told
  <2> QED
    BY <2>3 DEF b
<1> QED
  BY <1>1, <1>2

LEMMA AcceptsCases ==
  ASSUME NEW b
  PROVE  /\ Accepts("v1", b) <=> V1Accepts(b)
         /\ Accepts("v2", b) <=> V2Accepts(b)
         /\ Accepts("v3", b) <=> V3Accepts(b)
         /\ Accepts("v4", b) <=> V4Accepts(b)
BY Zenon DEF Accepts

LEMMA CustomerBuiltAccepted ==
  ASSUME NEW r \in Rounds, r.version = "v1", NEW b, b = CustomerParts(r)
  PROVE  V1Accepts(b)
<1>1. /\ b.source_policy = r.source
      /\ b.source_statements = <<r.source, r.choice>>
      /\ b.interpretation.draft = <<r.source, r.authority>>
      /\ b.interpretation.mapping = <<r.source, r.choice>>
      /\ b.resolution = Records(r)
      /\ b.semantic_commit = Commit(r)
      /\ b.compiled = Compiled(r)
      /\ b.approval_record = [commit |-> CommitHash(Commit(r)), at |-> r.approved]
      /\ b.version_binding = <<r.source, r.authority>>
      /\ b.manifest = Manifest(r.source, Compiled(r), r.published)
  BY CustomerFields
<1>2. /\ Records(r).source = r.source
      /\ Commit(r).source = r.source
      /\ Commit(r).answers = Records(r)
      /\ Commit(r).meaning.rules = RulesIn(r)
      /\ Commit(r).bindings = Bindings(r)
      /\ Compiled(r).commit = CommitHash(Commit(r))
      /\ Compiled(r).source = r.source
      /\ Compiled(r).authority = r.authority
  BY PartFields
<1>a. Manifest(r.source, Compiled(r), r.published).at = r.published
  BY DEF Manifest
<1>3. StatementsBound(b) /\ MappingsBound(b) /\ ResolutionsBound(b)
  BY <1>1, <1>2 DEF StatementsBound, MappingsBound, ResolutionsBound
<1>4. CommitBound(b)
  <2>1. Bindings(r) = [source |-> b.source_policy, draft |-> b.interpretation.draft,
                       classified |-> b.source_statements, resolution |-> b.resolution]
    BY <1>1 DEF Bindings
  <2>2. RulesIn(r) = RulesOf[b.interpretation.mapping]
    BY <1>1 DEF RulesIn
  <2> QED
    BY <1>1, <1>2, <2>1, <2>2 DEF CommitBound
<1>5. ApprovalBound(b)
  BY <1>1 DEF ApprovalBound
<1>6. CompiledBound(b) /\ VersionBound(b)
  BY <1>1, <1>2 DEF CompiledBound, VersionBound
<1>7. ManifestBound(b)
  BY <1>1, <1>a DEF ManifestBound
<1> QED
  BY <1>3, <1>4, <1>5, <1>6, <1>7 DEF V1Accepts

LEMMA DomainBuiltAccepted ==
  ASSUME NEW r \in Rounds, r.version = "v2", CommittedInOrder(r), NEW b, b = DomainParts(r)
  PROVE  V2Accepts(b)
<1>1. /\ b.source_policy = r.source
      /\ b.decisions = Records(r)
      /\ b.constraint_ir = RulesIn(r)
      /\ b.semantic_commit = Commit(r)
      /\ b.compiled = Compiled(r)
      /\ b.approval_record =
           [rules |-> RulesIn(r), commit |-> CommitHash(Commit(r)), at |-> r.approved]
      /\ b.manifest = Manifest(r.source, Compiled(r), r.published)
  BY DomainFields
<1>2. /\ Records(r).source = r.source
  BY PartFields
<1>a. Manifest(r.source, Compiled(r), r.published).at = r.published
  BY DEF Manifest
<1>3. Told("v2", b, b.decisions) = r
  BY ToldOfBuilt, BuiltCases
<1>4. ManifestBound(b)
  BY <1>1, <1>a DEF ManifestBound
<1>5. b.approval_record.rules = RulesIn(r) /\ b.approval_record.commit = CommitHash(Commit(r))
  BY <1>1
<1>6. b.decisions.source = b.source_policy
  BY <1>1, <1>2
<1> QED
  BY <1>1, <1>3, <1>4, <1>5, <1>6 DEF V2Accepts

LEMMA TranslationBuiltAccepted ==
  ASSUME NEW r \in Rounds, r.version \in {"v3", "v4"}, InOrder(r),
         r.version = "v4" => Grants(r), NEW b, b = TranslationParts(r)
  PROVE  IF r.version = "v3" THEN V3Accepts(b) ELSE V4Accepts(b)
<1>1. /\ b.source_policy = r.source
      /\ b.authority = r.authority
      /\ b.commitment = Commitment(r)
      /\ b.constraint_ir = RulesIn(r)
      /\ b.semantic_commit = Commit(r)
      /\ b.compiled = Compiled(r)
      /\ b.approval_record = TranslationApproval(r)
      /\ b.manifest = Manifest(r.source, Compiled(r), r.published)
  BY TranslationFields
<1>2. /\ Records(r).source = r.source /\ Records(r).at = r.answered
      /\ Commitment(r).records = Records(r) /\ Commitment(r).authority = r.authority
      /\ TranslationApproval(r).at = r.approved
  BY PartFields
<1>a. Manifest(r.source, Compiled(r), r.published).at = r.published
  BY DEF Manifest
<1>3. Told(r.version, b, b.commitment.records) = r
  BY ToldOfBuilt, BuiltCases
<1>4. ManifestBound(b)
  BY <1>1, <1>a DEF ManifestBound
<1>5. CommitmentBound(b)
  BY <1>1, <1>2 DEF CommitmentBound, InOrder
<1>6. CASE r.version = "v3"
  BY <1>1, <1>3, <1>4, <1>5, <1>6 DEF V3Accepts
<1>7. CASE r.version = "v4"
  BY <1>3, <1>5, <1>7 DEF V4Accepts
<1> QED
  BY <1>6, <1>7

LEMMA BuiltAccepted ==
  ASSUME NEW r \in Rounds, FinalizerAccepts(r) \/ PublishedBefore(r)
  PROVE  Accepts(r.version, Built(r))
<1>1. InOrder(r) /\ CommittedInOrder(r)
  BY DEF FinalizerAccepts, PublishedBefore, InOrder
<1>2. r.version = "v4" => Grants(r)
  BY DEF FinalizerAccepts, PublishedBefore
<1>3. CASE r.version = "v1"
  BY <1>3, CustomerBuiltAccepted, BuiltCases, AcceptsCases
<1>4. CASE r.version = "v2"
  BY <1>1, <1>4, DomainBuiltAccepted, BuiltCases, AcceptsCases
<1>5. CASE r.version = "v3"
  BY <1>1, <1>5, TranslationBuiltAccepted, BuiltCases, AcceptsCases
<1>6. CASE r.version = "v4"
  BY <1>1, <1>2, <1>6, TranslationBuiltAccepted, BuiltCases, AcceptsCases
<1> QED
  BY <1>3, <1>4, <1>5, <1>6, RoundShape DEF Versions

(* Equal parts tell of equal things.                                       *)
LEMMA HashesAreInjective ==
  ASSUME NEW r, NEW s
  PROVE  /\ Records(r) = Records(s) =>
              r.source = s.source /\ r.choice = s.choice /\ r.answered = s.answered
         /\ Commit(r) = Commit(s) =>
              Records(r) = Records(s) /\ Meaning(r) = Meaning(s) /\ r.committed = s.committed
         /\ Meaning(r) = Meaning(s) => r.authority = s.authority /\ RulesIn(r) = RulesIn(s)
         /\ CommitHash(Commit(r)) = CommitHash(Commit(s)) =>
              Meaning(r) = Meaning(s) /\ Bindings(r) = Bindings(s)
         /\ Compiled(r) = Compiled(s) =>
              r.source = s.source /\ r.authority = s.authority /\ RulesIn(r) = RulesIn(s)
         /\ TranslationApproval(r) = TranslationApproval(s) =>
              Commitment(r) = Commitment(s) /\ RulesIn(r) = RulesIn(s) /\ r.approved = s.approved
         /\ Commitment(r) = Commitment(s) =>
              Records(r) = Records(s) /\ r.authority = s.authority
<1>1. Records(r) = Records(s) =>
        r.source = s.source /\ r.choice = s.choice /\ r.answered = s.answered
  BY DEF Records
<1>2. Commit(r) = Commit(s) =>
        Records(r) = Records(s) /\ Meaning(r) = Meaning(s) /\ r.committed = s.committed
  BY DEF Commit
<1>3. Meaning(r) = Meaning(s) => r.authority = s.authority /\ RulesIn(r) = RulesIn(s)
  BY DEF Meaning
<1>4. CommitHash(Commit(r)) = CommitHash(Commit(s)) =>
        Meaning(r) = Meaning(s) /\ Bindings(r) = Bindings(s)
  <2>1. /\ CommitHash(Commit(r)).meaning = Meaning(r) /\ CommitHash(Commit(s)).meaning = Meaning(s)
        /\ CommitHash(Commit(r)).bindings = Bindings(r) /\ CommitHash(Commit(s)).bindings = Bindings(s)
    BY PartFields
  <2> QED
    BY <2>1
<1>5. Compiled(r) = Compiled(s) =>
        r.source = s.source /\ r.authority = s.authority /\ RulesIn(r) = RulesIn(s)
  BY DEF Compiled
<1>6. TranslationApproval(r) = TranslationApproval(s) =>
        Commitment(r) = Commitment(s) /\ RulesIn(r) = RulesIn(s) /\ r.approved = s.approved
  BY DEF TranslationApproval
<1>7. Commitment(r) = Commitment(s) => Records(r) = Records(s) /\ r.authority = s.authority
  BY DEF Commitment
<1> QED
  BY <1>1, <1>2, <1>3, <1>4, <1>5, <1>6, <1>7

(* A bundle tells its round.                                               *)
LEMMA BuiltInjective ==
  ASSUME NEW r \in Rounds, NEW s \in Rounds, r.version = s.version, Built(r) = Built(s)
  PROVE  r = s
<1>1. CASE r.version = "v1"
  <2>1. CustomerParts(r) = CustomerParts(s)
    BY <1>1, BuiltCases
  <2>2. /\ r.source = s.source
        /\ Commit(r) = Commit(s)
        /\ [commit |-> CommitHash(Commit(r)), at |-> r.approved]
             = [commit |-> CommitHash(Commit(s)), at |-> s.approved]
        /\ Manifest(r.source, Compiled(r), r.published) = Manifest(s.source, Compiled(s), s.published)
    BY <2>1, CustomerFields
  <2>3. r.approved = s.approved
    BY <2>2
  <2>4. r.published = s.published
    BY <2>2 DEF Manifest
  <2>5. /\ r.choice = s.choice /\ r.answered = s.answered /\ r.authority = s.authority
        /\ r.committed = s.committed
    BY <2>2, HashesAreInjective
  <2> QED
    BY <2>2, <2>3, <2>4, <2>5, RoundShape
<1>2. CASE r.version = "v2"
  BY <1>2, ToldOfBuilt
<1>3. CASE r.version \in {"v3", "v4"}
  BY <1>3, ToldOfBuilt
<1> QED
  BY <1>1, <1>2, <1>3, RoundShape DEF Versions

(* What any release published stays valid, with its own receipt and with   *)
(* no other: no gate of new authority is asked of earlier publications.    *)
THEOREM PublishedValid == Spec => []PublishedStaysValid
<1>1. IInv => PublishedStaysValid
  <2> SUFFICES ASSUME IInv, NEW b \in shelf, NEW c \in shelf
               PROVE  AcceptsReceipt(b.round.version, b.parts, Receipt(c.round.version, c.parts))
                        <=> b = c
    BY DEF PublishedStaysValid
  <2>1. /\ b = [round |-> b.round, parts |-> Built(b.round)]
        /\ c = [round |-> c.round, parts |-> Built(c.round)]
        /\ b.round \in Rounds /\ c.round \in Rounds
        /\ b.round.version = c.round.version
        /\ FinalizerAccepts(b.round) \/ PublishedBefore(b.round)
    BY DEF IInv, ShelfOK
  <2>2. b.parts = Built(b.round) /\ c.parts = Built(c.round)
    BY <2>1
  <2>3. ASSUME b = c
        PROVE  AcceptsReceipt(b.round.version, b.parts, Receipt(c.round.version, c.parts))
    BY <2>1, <2>2, <2>3, BuiltAccepted DEF AcceptsReceipt, Receipt
  <2>4. ASSUME AcceptsReceipt(b.round.version, b.parts, Receipt(c.round.version, c.parts))
        PROVE  b = c
    <3>1. c.parts = b.parts
      BY <2>4 DEF AcceptsReceipt, Receipt
    <3>2. b.round = c.round
      BY <2>1, <2>2, <3>1, BuiltInjective
    <3> QED
      BY <2>1, <3>2
  <2> QED
    BY <2>3, <2>4
<1> QED
  BY <1>1, InitIInv, NextKeeps, PTL DEF Spec

-----------------------------------------------------------------------------
(* What is accepted is one round.                                          *)

LEMMA PartFrom ==
  ASSUME NEW b, NEW from, NEW v, PutTogether(b, from, v), NEW p \in DOMAIN from
  PROVE  /\ from[p] \in Rounds
         /\ from[p].version = v
         /\ b[p] = Built(from[p])[p]
BY DEF PutTogether, RoundsOf

(* Part by part, what a round r and the bundle b must have in common.      *)
SameButPreview(r, b) ==
  \A p \in DOMAIN Built(r) \ {"impact_preview"} : Built(r)[p] = b[p]

(* What the approval was given for, in round a.                            *)
Covers(a, b) ==
  /\ RulesIn(a) = b.compiled.rules
  /\ a.authority = b.compiled.authority
  /\ a.version # "v2" => Records(a) = b.semantic_commit.answers

LEMMA CustomerPartsFrom ==
  ASSUME NEW b, NEW from, PutTogether(b, from, "v1")
  PROVE  /\ DOMAIN from = CustomerNames
         /\ \A p \in CustomerNames : from[p] \in Rounds /\ from[p].version = "v1"
         /\ b.source_policy = from["source_policy"].source
         /\ b.source_statements = <<from["source_statements"].source, from["source_statements"].choice>>
         /\ b.interpretation =
              [draft |-> <<from["interpretation"].source, from["interpretation"].authority>>,
               mapping |-> <<from["interpretation"].source, from["interpretation"].choice>>]
         /\ b.resolution = Records(from["resolution"])
         /\ b.semantic_commit = Commit(from["semantic_commit"])
         /\ b.compiled = Compiled(from["compiled"])
         /\ b.approval_record = [commit |-> CommitHash(Commit(from["approval_record"])),
                                 at |-> from["approval_record"].approved]
         /\ b.version_binding = <<from["version_binding"].source, from["version_binding"].authority>>
         /\ b.manifest = Manifest(from["manifest"].source, Compiled(from["manifest"]),
                                  from["manifest"].published)
<1>1. DOMAIN from = CustomerNames
  <2>1. /\ from["approval_record"] \in Rounds
        /\ from["approval_record"].version = "v1"
        /\ DOMAIN from = DOMAIN Built(from["approval_record"])
    BY PartFrom DEF PutTogether
  <2> QED
    BY <2>1, NamesOfParts
<1>2. ASSUME NEW p \in CustomerNames
      PROVE  from[p] \in Rounds /\ from[p].version = "v1" /\ b[p] = CustomerParts(from[p])[p]
  BY <1>1, PartFrom, BuiltCases
<1>3. /\ b.source_policy = CustomerParts(from["source_policy"]).source_policy
      /\ b.source_statements = CustomerParts(from["source_statements"]).source_statements
      /\ b.interpretation = CustomerParts(from["interpretation"]).interpretation
      /\ b.resolution = CustomerParts(from["resolution"]).resolution
      /\ b.semantic_commit = CustomerParts(from["semantic_commit"]).semantic_commit
      /\ b.compiled = CustomerParts(from["compiled"]).compiled
      /\ b.approval_record = CustomerParts(from["approval_record"]).approval_record
      /\ b.version_binding = CustomerParts(from["version_binding"]).version_binding
      /\ b.manifest = CustomerParts(from["manifest"]).manifest
  BY <1>2 DEF CustomerNames
<1>4. \A r : CustomerParts(r).interpretation =
               [draft |-> <<r.source, r.authority>>, mapping |-> <<r.source, r.choice>>]
  BY DEF CustomerParts
<1> QED
  BY <1>1, <1>2, <1>3, <1>4, CustomerFields

LEMMA DomainPartsFrom ==
  ASSUME NEW b, NEW from, PutTogether(b, from, "v2")
  PROVE  /\ DOMAIN from = DomainNames
         /\ \A p \in DomainNames : from[p] \in Rounds /\ from[p].version = "v2"
         /\ b.source_policy = from["source_policy"].source
         /\ b.authority = from["authority"].authority
         /\ b.decisions = Records(from["decisions"])
         /\ b.constraint_ir = RulesIn(from["constraint_ir"])
         /\ b.semantic_commit = Commit(from["semantic_commit"])
         /\ b.compiled = Compiled(from["compiled"])
         /\ b.approval_record = [rules |-> RulesIn(from["approval_record"]),
                                 commit |-> CommitHash(Commit(from["approval_record"])),
                                 at |-> from["approval_record"].approved]
         /\ b.manifest = Manifest(from["manifest"].source, Compiled(from["manifest"]),
                                  from["manifest"].published)
<1>1. DOMAIN from = DomainNames
  <2>1. /\ from["approval_record"] \in Rounds
        /\ from["approval_record"].version = "v2"
        /\ DOMAIN from = DOMAIN Built(from["approval_record"])
    BY PartFrom DEF PutTogether
  <2> QED
    BY <2>1, NamesOfParts
<1>2. ASSUME NEW p \in DomainNames
      PROVE  from[p] \in Rounds /\ from[p].version = "v2" /\ b[p] = DomainParts(from[p])[p]
  BY <1>1, PartFrom, BuiltCases
<1>3. /\ b.source_policy = DomainParts(from["source_policy"]).source_policy
      /\ b.authority = DomainParts(from["authority"]).authority
      /\ b.decisions = DomainParts(from["decisions"]).decisions
      /\ b.constraint_ir = DomainParts(from["constraint_ir"]).constraint_ir
      /\ b.semantic_commit = DomainParts(from["semantic_commit"]).semantic_commit
      /\ b.compiled = DomainParts(from["compiled"]).compiled
      /\ b.approval_record = DomainParts(from["approval_record"]).approval_record
      /\ b.manifest = DomainParts(from["manifest"]).manifest
  BY <1>2 DEF DomainNames
<1> QED
  BY <1>1, <1>2, <1>3, DomainFields

LEMMA TranslationPartsFrom ==
  ASSUME NEW b, NEW from, NEW v \in {"v3", "v4"}, PutTogether(b, from, v)
  PROVE  /\ DOMAIN from = TranslationNames
         /\ \A p \in TranslationNames : from[p] \in Rounds /\ from[p].version = v
         /\ b.source_policy = from["source_policy"].source
         /\ b.authority = from["authority"].authority
         /\ b.commitment = Commitment(from["commitment"])
         /\ b.constraint_ir = RulesIn(from["constraint_ir"])
         /\ b.semantic_commit = Commit(from["semantic_commit"])
         /\ b.compiled = Compiled(from["compiled"])
         /\ b.approval_record = TranslationApproval(from["approval_record"])
         /\ b.manifest = Manifest(from["manifest"].source, Compiled(from["manifest"]),
                                  from["manifest"].published)
<1>1. DOMAIN from = TranslationNames
  <2>1. /\ from["approval_record"] \in Rounds
        /\ from["approval_record"].version = v
        /\ DOMAIN from = DOMAIN Built(from["approval_record"])
    BY PartFrom DEF PutTogether
  <2> QED
    BY <2>1, NamesOfParts
<1>2. ASSUME NEW p \in TranslationNames
      PROVE  from[p] \in Rounds /\ from[p].version = v /\ b[p] = TranslationParts(from[p])[p]
  BY <1>1, PartFrom, BuiltCases
<1>3. /\ b.source_policy = TranslationParts(from["source_policy"]).source_policy
      /\ b.authority = TranslationParts(from["authority"]).authority
      /\ b.commitment = TranslationParts(from["commitment"]).commitment
      /\ b.constraint_ir = TranslationParts(from["constraint_ir"]).constraint_ir
      /\ b.semantic_commit = TranslationParts(from["semantic_commit"]).semantic_commit
      /\ b.compiled = TranslationParts(from["compiled"]).compiled
      /\ b.approval_record = TranslationParts(from["approval_record"]).approval_record
      /\ b.manifest = TranslationParts(from["manifest"]).manifest
  BY <1>2 DEF TranslationNames
<1> QED
  BY <1>1, <1>2, <1>3, TranslationFields

(* The commit says nothing of the approval and the publication.            *)
LEMMA CommitDependsOn ==
  ASSUME NEW r, NEW c, r.version = c.version, r.source = c.source, r.authority = c.authority,
         r.choice = c.choice, r.answered = c.answered
  PROVE  /\ Records(r) = Records(c)
         /\ RulesIn(r) = RulesIn(c)
         /\ Meaning(r) = Meaning(c)
         /\ Bindings(r) = Bindings(c)
         /\ r.committed = c.committed => Commit(r) = Commit(c)
<1>1. Records(r) = Records(c) /\ RulesIn(r) = RulesIn(c)
  BY DEF Records, RulesIn
<1>2. Meaning(r) = Meaning(c)
  BY <1>1 DEF Meaning
<1>3. Bindings(r) = Bindings(c)
  BY <1>1 DEF Bindings
<1> QED
  BY <1>1, <1>2, <1>3 DEF Commit

LEMMA CustomerIsOneRound ==
  ASSUME NEW b, NEW from, PutTogether(b, from, "v1"), V1Accepts(b)
  PROVE  /\ \E r \in Rounds : /\ r.version = "v1"
                              /\ r.source = b.source_policy
                              /\ SameButPreview(r, b)
         /\ Covers(from["approval_record"], b)
<1> DEFINE c == from["semantic_commit"]
           k == from["compiled"]
           a == from["approval_record"]
           m == from["manifest"]
           r == [version |-> "v1", source |-> c.source, authority |-> c.authority,
                 choice |-> c.choice, answered |-> c.answered, approved |-> a.approved,
                 committed |-> c.committed, published |-> m.published]
<1>1. /\ c \in Rounds /\ c.version = "v1"
      /\ k \in Rounds /\ k.version = "v1"
      /\ a \in Rounds /\ a.version = "v1"
      /\ m \in Rounds
  BY CustomerPartsFrom DEF CustomerNames
<1>2. /\ b.semantic_commit = Commit(c)
      /\ b.compiled = Compiled(k)
      /\ b.approval_record = [commit |-> CommitHash(Commit(a)), at |-> a.approved]
      /\ b.manifest = Manifest(m.source, Compiled(m), m.published)
  BY CustomerPartsFrom
<1>i. b.interpretation = [draft |-> b.interpretation.draft, mapping |-> b.interpretation.mapping]
  <2> DEFINE i == from["interpretation"]
  <2>1. b.interpretation = [draft |-> <<i.source, i.authority>>, mapping |-> <<i.source, i.choice>>]
    BY CustomerPartsFrom
  <2> QED
    BY <2>1
<1>3. r \in Rounds
  BY <1>1, RoundIntro, RoundShape DEF Versions
<1>4. /\ r.version = "v1" /\ r.source = c.source /\ r.authority = c.authority
      /\ r.choice = c.choice /\ r.answered = c.answered /\ r.approved = a.approved
      /\ r.committed = c.committed /\ r.published = m.published
  OBVIOUS
<1> HIDE DEF c, k, a, m, r
<1>5. /\ CommitBound(b) /\ ApprovalBound(b) /\ CompiledBound(b)
      /\ MappingsBound(b) /\ VersionBound(b) /\ ManifestBound(b)
  BY DEF V1Accepts
<1>6. /\ Commit(r) = Commit(c) /\ Records(r) = Records(c) /\ RulesIn(r) = RulesIn(c)
      /\ Meaning(r) = Meaning(c)
  BY <1>1, <1>4, CommitDependsOn
<1>7. /\ Commit(c).source = c.source /\ Commit(c).answers = Records(c)
      /\ Commit(c).bindings = Bindings(c)
  BY PartFields
<1>8. /\ b.source_policy = c.source
      /\ b.resolution = Records(c)
      /\ Bindings(c) = [source |-> b.source_policy, draft |-> b.interpretation.draft,
                        classified |-> b.source_statements, resolution |-> b.resolution]
  BY <1>2, <1>5, <1>7 DEF CommitBound
<1>9. /\ b.interpretation.draft = <<c.source, c.authority>>
      /\ b.source_statements = <<c.source, c.choice>>
  <2>1. Bindings(c) = [source |-> c.source, draft |-> <<c.source, c.authority>>,
                       classified |-> <<c.source, c.choice>>, resolution |-> Records(c)]
    BY <1>1 DEF Bindings
  <2> QED
    BY <1>8, <2>1
<1>10. b.interpretation = [draft |-> <<r.source, r.authority>>, mapping |-> <<r.source, r.choice>>]
  BY <1>i, <1>4, <1>5, <1>9 DEF MappingsBound
<1>11. /\ Compiled(k).commit = CommitHash(Commit(k)) /\ Compiled(k).source = k.source
       /\ Compiled(k).authority = k.authority /\ Compiled(k).rules = RulesIn(k)
  BY PartFields
<1>12. CommitHash(Commit(k)) = CommitHash(Commit(c)) /\ k.source = c.source
  BY <1>2, <1>5, <1>8, <1>11 DEF CompiledBound
<1>13. k.authority = c.authority /\ RulesIn(k) = RulesIn(c)
  BY <1>12, HashesAreInjective
<1>14. b.compiled = Compiled(r)
  BY <1>1, <1>2, <1>4, <1>6, <1>12, <1>13 DEF Compiled
<1>15. CommitHash(Commit(a)) = CommitHash(Commit(c))
  BY <1>2, <1>5 DEF ApprovalBound
<1>16. b.approval_record = [commit |-> CommitHash(Commit(r)), at |-> r.approved]
  BY <1>2, <1>4, <1>6, <1>15
<1>17. b.version_binding = <<r.source, r.authority>>
  BY <1>2, <1>4, <1>5, <1>8, <1>11, <1>13 DEF VersionBound
<1>18. b.manifest = Manifest(r.source, Compiled(r), r.published)
  <2>1. b.manifest.at = m.published
    BY <1>2 DEF Manifest
  <2> QED
    BY <1>4, <1>5, <1>8, <1>14, <2>1 DEF ManifestBound
<1>19. \A p \in CustomerNames \ {"impact_preview"} : CustomerParts(r)[p] = b[p]
  <2>1. /\ CustomerParts(r).source_policy = b.source_policy
        /\ CustomerParts(r).source_statements = b.source_statements
        /\ CustomerParts(r).resolution = b.resolution
        /\ CustomerParts(r).semantic_commit = b.semantic_commit
        /\ CustomerParts(r).compiled = b.compiled
        /\ CustomerParts(r).approval_record = b.approval_record
        /\ CustomerParts(r).version_binding = b.version_binding
        /\ CustomerParts(r).manifest = b.manifest
    BY <1>2, <1>4, <1>6, <1>8, <1>9, <1>14, <1>16, <1>17, <1>18, CustomerFields
  <2>2. CustomerParts(r).interpretation = b.interpretation
    BY <1>10 DEF CustomerParts
  <2> QED
    BY <2>1, <2>2 DEF CustomerNames
<1>20. SameButPreview(r, b)
  <2>1. Built(r) = CustomerParts(r) /\ DOMAIN Built(r) = CustomerNames
    BY <1>3, <1>4, BuiltCases, NamesOfParts
  <2> QED
    BY <1>19, <2>1 DEF SameButPreview
<1>21. Covers(a, b)
  <2>1. /\ Meaning(a) = Meaning(c) /\ Bindings(a) = Bindings(c)
    BY <1>15, HashesAreInjective
  <2>2. a.authority = c.authority /\ RulesIn(a) = RulesIn(c)
    BY <2>1, HashesAreInjective
  <2>3. Records(a) = Records(c)
    BY <1>1, <2>1 DEF Bindings
  <2> QED
    BY <1>2, <1>7, <1>11, <1>13, <2>2, <2>3 DEF Covers
<1> QED
  BY <1>3, <1>4, <1>8, <1>20, <1>21 DEF a

LEMMA DomainIsOneRound ==
  ASSUME NEW b, NEW from, PutTogether(b, from, "v2"), V2Accepts(b)
  PROVE  /\ \E r \in Rounds : /\ r.version = "v2"
                              /\ r.source = b.source_policy
                              /\ CommittedInOrder(r)
                              /\ SameButPreview(r, b)
         /\ Covers(from["approval_record"], b)
<1> DEFINE c == from["semantic_commit"]
           d == from["decisions"]
           a == from["approval_record"]
           m == from["manifest"]
           r == Told("v2", b, b.decisions)
<1>1. /\ c \in Rounds /\ c.version = "v2"
      /\ d \in Rounds
      /\ a \in Rounds /\ a.version = "v2"
      /\ m \in Rounds
  BY DomainPartsFrom DEF DomainNames
<1>2. /\ b.semantic_commit = Commit(c)
      /\ b.decisions = Records(d)
      /\ b.approval_record = [rules |-> RulesIn(a), commit |-> CommitHash(Commit(a)),
                              at |-> a.approved]
      /\ b.manifest = Manifest(m.source, Compiled(m), m.published)
  BY DomainPartsFrom
<1>3. /\ b.decisions.source = b.source_policy
      /\ b.constraint_ir = RulesIn(r)
      /\ b.semantic_commit = Commit(r)
      /\ b.compiled = Compiled(r)
      /\ b.approval_record.rules = b.constraint_ir
      /\ b.approval_record.commit = CommitHash(b.semantic_commit)
      /\ ManifestBound(b)
      /\ CommittedInOrder(r)
  BY DEF V2Accepts
<1>4. /\ r.version = "v2" /\ r.source = b.source_policy /\ r.authority = b.authority
      /\ r.choice = b.decisions.choice /\ r.answered = b.decisions.at
      /\ r.approved = b.approval_record.at /\ r.committed = b.semantic_commit.at
      /\ r.published = b.manifest.at
      /\ r = [version |-> "v2", source |-> r.source, authority |-> r.authority,
              choice |-> r.choice, answered |-> r.answered, approved |-> r.approved,
              committed |-> r.committed, published |-> r.published]
  BY DEF Told
<1> HIDE DEF c, d, a, m, r
<1>5. /\ Records(r) = Records(c) /\ Meaning(r) = Meaning(c) /\ r.committed = c.committed
  <2>1. Commit(r) = Commit(c)
    BY <1>2, <1>3
  <2> QED
    BY <2>1, HashesAreInjective
<1>6. /\ r.source = c.source /\ r.choice = c.choice /\ r.answered = c.answered
      /\ r.authority = c.authority /\ RulesIn(r) = RulesIn(c)
  BY <1>5, HashesAreInjective
<1>7. r.approved = a.approved
  BY <1>2, <1>4
<1>8. r.published = m.published
  BY <1>2, <1>4 DEF Manifest
<1>9. r \in Rounds
  <2>1. /\ c.answered \in Times /\ a.approved \in Times
        /\ c.committed \in Times /\ m.published \in Times
    BY <1>1, RoundShape
  <2>2. [version |-> "v2", source |-> c.source, authority |-> c.authority,
         choice |-> c.choice, answered |-> c.answered, approved |-> a.approved,
         committed |-> c.committed, published |-> m.published] \in Rounds
    BY <1>1, <2>1, RoundIntro DEF Versions
  <2> QED
    BY <1>4, <1>5, <1>6, <1>7, <1>8, <2>2
<1>10. b.decisions = Records(r)
  <2>1. /\ Records(d).source = d.source /\ Records(d).choice = d.choice
        /\ Records(d).at = d.answered
    BY PartFields
  <2>2. d.source = r.source /\ d.choice = r.choice /\ d.answered = r.answered
    BY <1>2, <1>3, <1>4, <2>1
  <2> QED
    BY <1>2, <2>2 DEF Records
<1>11. b.approval_record =
         [rules |-> RulesIn(r), commit |-> CommitHash(Commit(r)), at |-> r.approved]
  BY <1>2, <1>3, <1>7
<1>12. b.manifest = Manifest(r.source, Compiled(r), r.published)
  BY <1>3, <1>4 DEF ManifestBound
<1>13. \A p \in DomainNames : DomainParts(r)[p] = b[p]
  <2>1. /\ DomainParts(r).source_policy = b.source_policy
        /\ DomainParts(r).authority = b.authority
        /\ DomainParts(r).decisions = b.decisions
        /\ DomainParts(r).constraint_ir = b.constraint_ir
        /\ DomainParts(r).semantic_commit = b.semantic_commit
        /\ DomainParts(r).compiled = b.compiled
        /\ DomainParts(r).approval_record = b.approval_record
        /\ DomainParts(r).manifest = b.manifest
    BY <1>3, <1>4, <1>10, <1>11, <1>12, DomainFields
  <2> QED
    BY <2>1 DEF DomainNames
<1>14. SameButPreview(r, b)
  <2>1. Built(r) = DomainParts(r) /\ DOMAIN Built(r) = DomainNames
    BY <1>4, <1>9, BuiltCases, NamesOfParts
  <2> QED
    BY <1>13, <2>1 DEF SameButPreview
<1>15. Covers(a, b)
  <2>1. CommitHash(Commit(a)) = CommitHash(Commit(r))
    BY <1>2, <1>3
  <2>2. Meaning(a) = Meaning(r)
    BY <2>1, HashesAreInjective
  <2>3. a.authority = r.authority /\ RulesIn(a) = RulesIn(r)
    BY <2>2, HashesAreInjective
  <2>4. Compiled(r).authority = r.authority /\ Compiled(r).rules = RulesIn(r)
    BY PartFields
  <2> QED
    BY <1>1, <1>3, <2>3, <2>4 DEF Covers
<1> QED
  BY <1>3, <1>4, <1>9, <1>14, <1>15 DEF a

LEMMA TranslationIsOneRound ==
  ASSUME NEW b, NEW from, NEW v \in {"v3", "v4"}, PutTogether(b, from, v),
         IF v = "v3" THEN V3Accepts(b) ELSE V4Accepts(b)
  PROVE  /\ \E r \in Rounds : /\ r.version = v
                              /\ r.source = b.source_policy
                              /\ InOrder(r)
                              /\ v = "v4" => Grants(r)
                              /\ SameButPreview(r, b)
         /\ Covers(from["approval_record"], b)
<1> DEFINE c == from["semantic_commit"]
           d == from["commitment"]
           a == from["approval_record"]
           m == from["manifest"]
           r == Told(v, b, b.commitment.records)
<1>1. /\ c \in Rounds /\ c.version = v
      /\ d \in Rounds
      /\ a \in Rounds /\ a.version = v
      /\ m \in Rounds
  BY TranslationPartsFrom DEF TranslationNames
<1>2. /\ b.semantic_commit = Commit(c)
      /\ b.commitment = Commitment(d)
      /\ b.approval_record = TranslationApproval(a)
      /\ b.manifest = Manifest(m.source, Compiled(m), m.published)
  BY TranslationPartsFrom
<1>3. /\ CommitmentBound(b)
      /\ b.constraint_ir = RulesIn(r)
      /\ b.semantic_commit = Commit(r)
      /\ b.compiled = Compiled(r)
      /\ b.approval_record = TranslationApproval(r)
      /\ InOrder(r)
      /\ v = "v4" => Grants(r)
  <2>1. CASE v = "v3"
    BY <2>1 DEF V3Accepts
  <2>2. CASE v = "v4"
    <3>1. b = TranslationParts(r) /\ CommitmentBound(b) /\ InOrder(r) /\ Grants(r)
      BY <2>2 DEF V4Accepts
    <3> HIDE DEF r
    <3> QED
      BY <3>1, TranslationFields
  <2> QED
    BY <2>1, <2>2
<1>4. /\ r.version = v /\ r.source = b.source_policy /\ r.authority = b.authority
      /\ r.choice = b.commitment.records.choice /\ r.answered = b.commitment.records.at
      /\ r.approved = b.approval_record.at /\ r.committed = b.semantic_commit.at
      /\ r.published = b.manifest.at
      /\ r = [version |-> v, source |-> r.source, authority |-> r.authority,
              choice |-> r.choice, answered |-> r.answered, approved |-> r.approved,
              committed |-> r.committed, published |-> r.published]
  BY DEF Told
<1>5. b.manifest = Manifest(r.source, Compiled(r), r.published)
  <2>1. CASE v = "v3"
    BY <1>3, <1>4, <2>1 DEF V3Accepts, ManifestBound
  <2>2. CASE v = "v4"
    <3>1. b = TranslationParts(r)
      BY <2>2 DEF V4Accepts
    <3> HIDE DEF r
    <3> QED
      BY <3>1, TranslationFields
  <2> QED
    BY <2>1, <2>2
<1> HIDE DEF c, d, a, m, r
<1>6. /\ Records(r) = Records(c) /\ Meaning(r) = Meaning(c) /\ r.committed = c.committed
  <2>1. Commit(r) = Commit(c)
    BY <1>2, <1>3
  <2> QED
    BY <2>1, HashesAreInjective
<1>7. /\ r.source = c.source /\ r.choice = c.choice /\ r.answered = c.answered
      /\ r.authority = c.authority
  BY <1>6, HashesAreInjective
<1>8. /\ Commitment(r) = Commitment(a) /\ RulesIn(r) = RulesIn(a) /\ r.approved = a.approved
  <2>1. TranslationApproval(r) = TranslationApproval(a)
    BY <1>2, <1>3
  <2> QED
    BY <2>1, HashesAreInjective
<1>9. r.published = m.published
  BY <1>2, <1>4 DEF Manifest
<1>10. r \in Rounds
  <2>1. /\ c.answered \in Times /\ a.approved \in Times
        /\ c.committed \in Times /\ m.published \in Times
    BY <1>1, RoundShape
  <2>2. [version |-> v, source |-> c.source, authority |-> c.authority,
         choice |-> c.choice, answered |-> c.answered, approved |-> a.approved,
         committed |-> c.committed, published |-> m.published] \in Rounds
    BY <1>1, <2>1, RoundIntro DEF Versions
  <2> QED
    BY <1>4, <1>6, <1>7, <1>8, <1>9, <2>2
<1>11. b.commitment = Commitment(r)
  <2>1. /\ Commitment(d).records = Records(d) /\ Commitment(d).authority = d.authority
        /\ Records(d).source = d.source /\ Records(d).choice = d.choice
        /\ Records(d).at = d.answered
    BY PartFields
  <2>2. d.source = r.source /\ d.choice = r.choice /\ d.answered = r.answered
        /\ d.authority = r.authority
    BY <1>2, <1>3, <1>4, <2>1 DEF CommitmentBound
  <2>3. Records(d) = Records(r)
    BY <2>2 DEF Records
  <2> QED
    BY <1>2, <2>2, <2>3 DEF Commitment
<1>12. \A p \in TranslationNames : TranslationParts(r)[p] = b[p]
  <2>1. /\ TranslationParts(r).source_policy = b.source_policy
        /\ TranslationParts(r).authority = b.authority
        /\ TranslationParts(r).commitment = b.commitment
        /\ TranslationParts(r).constraint_ir = b.constraint_ir
        /\ TranslationParts(r).semantic_commit = b.semantic_commit
        /\ TranslationParts(r).compiled = b.compiled
        /\ TranslationParts(r).approval_record = b.approval_record
        /\ TranslationParts(r).manifest = b.manifest
    BY <1>3, <1>4, <1>5, <1>11, TranslationFields
  <2> QED
    BY <2>1 DEF TranslationNames
<1>13. SameButPreview(r, b)
  <2>1. Built(r) = TranslationParts(r) /\ DOMAIN Built(r) = TranslationNames
    BY <1>4, <1>10, BuiltCases, NamesOfParts
  <2> QED
    BY <1>12, <2>1 DEF SameButPreview
<1>14. Covers(a, b)
  <2>1. Records(a) = Records(r) /\ a.authority = r.authority
    BY <1>8, HashesAreInjective
  <2>2. /\ Compiled(r).authority = r.authority /\ Compiled(r).rules = RulesIn(r)
        /\ Commit(r).answers = Records(r)
    BY PartFields
  <2> QED
    BY <1>3, <1>8, <2>1, <2>2 DEF Covers
<1> QED
  BY <1>3, <1>4, <1>10, <1>13, <1>14 DEF a

LEMMA AcceptedBundle ==
  ASSUME IInv, Accepted
  PROVE  /\ \E r \in Rounds : /\ r.version = bundle.version
                              /\ r.source = bundle.parts.source_policy
                              /\ VouchedOrder(r)
                              /\ r.version = "v4" => Grants(r)
                              /\ SameButPreview(r, bundle.parts)
         /\ Covers(approved, bundle.parts)
         /\ approved.version = bundle.version
<1> DEFINE b == bundle.parts
           v == bundle.version
<1>1. PICK from : PutTogether(b, from, v) /\ approved = from["approval_record"]
  BY DEF IInv, BundleOK, Accepted
<1>2. approved \in Rounds /\ approved.version = v
  BY <1>1, PartFrom DEF PutTogether
<1>3. v \in Versions /\ Accepts(v, b)
  BY <1>2, RoundShape DEF Accepted
<1> HIDE DEF b, v
<1>4. CASE v = "v1"
  <2>1. V1Accepts(b)
    BY <1>3, <1>4, AcceptsCases
  <2>2. \A r : r.version = "v1" => VouchedOrder(r)
    BY DEF VouchedOrder
  <2> QED
    BY <1>1, <1>2, <1>4, <2>1, <2>2, CustomerIsOneRound DEF b, v
<1>5. CASE v = "v2"
  <2>1. V2Accepts(b)
    BY <1>3, <1>5, AcceptsCases
  <2>2. \A r : r.version = "v2" /\ CommittedInOrder(r) => VouchedOrder(r)
    BY DEF VouchedOrder
  <2> QED
    BY <1>1, <1>2, <1>5, <2>1, <2>2, DomainIsOneRound DEF b, v
<1>6. CASE v \in {"v3", "v4"}
  <2>1. IF v = "v3" THEN V3Accepts(b) ELSE V4Accepts(b)
    BY <1>3, <1>6, AcceptsCases
  <2>2. \A r : r.version \in {"v3", "v4"} /\ InOrder(r) => VouchedOrder(r)
    BY DEF VouchedOrder
  <2> QED
    BY <1>1, <1>2, <1>6, <2>1, <2>2, TranslationIsOneRound DEF b, v
<1> QED
  BY <1>3, <1>4, <1>5, <1>6 DEF Versions

(* Parts of several rounds never pass for one bundle: what a validator     *)
(* accepts is, part for part, the bundle of one round, in the order its    *)
(* version vouches for; only the preview of v1 is bound by nothing.        *)
THEOREM AcceptedOneRound == Spec => []AcceptedIsOneRound
<1>1. IInv => AcceptedIsOneRound
  BY AcceptedBundle DEF AcceptedIsOneRound, SameButPreview
<1> QED
  BY <1>1, InitIInv, NextKeeps, PTL DEF Spec

(* The approval in an accepted bundle was given for its rules and its      *)
(* authority and, except in v2, for these very answers.                    *)
THEOREM ApprovalCovers == Spec => []ApprovalCoversContent
<1>1. IInv => ApprovalCoversContent
  BY AcceptedBundle DEF ApprovalCoversContent, Covers
<1> QED
  BY <1>1, InitIInv, NextKeeps, PTL DEF Spec
=============================================================================
