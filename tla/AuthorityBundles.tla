-------------------------- MODULE AuthorityBundles --------------------------
(***************************************************************************)
(* An authority bundle is the published evidence of one round of work: a   *)
(* source, what people answered, the meaning, the commit, the compiled     *)
(* contract, the approval and the manifest.  Four finalizers publish       *)
(* bundles of four versions, and for each there is a validator that has    *)
(* only the bundle.  The rounds of one policy have parts in common, and an *)
(* archive, a merge or a retry may bring parts of two rounds together, with*)
(* the hashes of the whole computed again: the question is which of these  *)
(* bundles the validators take for one that was published.                 *)
(*                                                                         *)
(* A part is a record of what it says; a hash of a part is what the hash   *)
(* covers, so that equal hashes are equal values.  The bundle's own hash,  *)
(* provenance_bindings and immutable_inputs are functions of the parts.    *)
(***************************************************************************)
EXTENDS Naturals, FiniteSets

CONSTANTS
  Sources,      \* revisions of a policy, with their statements
  Authorities,  \* identities of the authority, with its version
  Choices,      \* what people may answer; it classifies the statements
  Contents,     \* the sources, authorities and answers that a round may have
  RulesOf,      \* the rules that a choice makes of a source
  Granting,     \* the rules that allow some path
  Times,
  MaxShelf,     \* bound: the published bundles at hand
  None

ASSUME TimesAssumption == Times \subseteq Nat /\ MaxShelf \in Nat
ASSUME ContentsAssumption == Contents \subseteq Sources \X Authorities \X Choices
ASSUME RulesAssumption == Sources \X Choices = DOMAIN RulesOf

VARIABLES
  shelf,     \* the published bundles at hand, each with its round
  bundle,    \* a bundle that was put together of their parts
  approved   \* history: the round that the approval in it was given in

vars == <<shelf, bundle, approved>>

Versions == {"v1", "v2", "v3", "v4"}

Rounds ==
  {r \in [version : Versions, source : Sources, authority : Authorities, choice : Choices,
          answered : Times, approved : Times, committed : Times, published : Times] :
     <<r.source, r.authority, r.choice>> \in Contents}

RulesIn(r) == RulesOf[<<r.source, r.choice>>]

-----------------------------------------------------------------------------
(* The parts.                                                              *)

Records(r) == [source |-> r.source, choice |-> r.choice, at |-> r.answered]

\* The confirmed meaning, which includes the authority it is for.  In v3 and
\* v4 it includes the hash of the commitment, and with it the answers.
Meaning(r) ==
  [rules |-> RulesIn(r), authority |-> r.authority,
   commitment |-> IF r.version \in {"v3", "v4"} THEN Records(r) ELSE None]

\* provenance_bindings of the commit, which only the customer policy gives it.
Bindings(r) ==
  IF r.version = "v1"
  THEN [source |-> r.source, draft |-> <<r.source, r.authority>>,
        classified |-> <<r.source, r.choice>>, resolution |-> Records(r)]
  ELSE None

Commit(r) ==
  [source |-> r.source, answers |-> Records(r), meaning |-> Meaning(r),
   bindings |-> Bindings(r), at |-> r.committed]

\* Mutant: the bindings are not in the hash.
Mutant_CommitHash(commit) == [meaning |-> commit.meaning]

\* semantic_commit_hash: not by whom and when it was committed.
CommitHash(commit) == [meaning |-> commit.meaning, bindings |-> commit.bindings]

\* lineage.compilation_report_hash is the hash of the draft: of v1 as it was
\* before the answers, of v2 with them, and of v3 and v4 the commitment's.
Compiled(r) ==
  [commit |-> CommitHash(Commit(r)), source |-> r.source, authority |-> r.authority,
   rules |-> RulesIn(r), lineage |-> IF r.version = "v1" THEN r.source ELSE Records(r)]

Manifest(source, compiled, at) == [contract |-> compiled, source |-> source, at |-> at]

CustomerParts(r) ==
  [source_policy     |-> r.source,
   source_statements |-> <<r.source, r.choice>>,
   interpretation    |-> [draft |-> <<r.source, r.authority>>, mapping |-> <<r.source, r.choice>>],
   resolution        |-> Records(r),
   semantic_commit   |-> Commit(r),
   compiled          |-> Compiled(r),
   approval_record   |-> [commit |-> CommitHash(Commit(r)), at |-> r.approved],
   version_binding   |-> <<r.source, r.authority>>,
   manifest          |-> Manifest(r.source, Compiled(r), r.published),
   impact_preview    |-> Compiled(r)]

DomainParts(r) ==
  [source_policy   |-> r.source,
   authority       |-> r.authority,
   decisions       |-> Records(r),
   constraint_ir   |-> RulesIn(r),
   semantic_commit |-> Commit(r),
   compiled        |-> Compiled(r),
   approval_record |-> [rules |-> RulesIn(r), commit |-> CommitHash(Commit(r)), at |-> r.approved],
   manifest        |-> Manifest(r.source, Compiled(r), r.published)]

\* The commitment names the authority; its hash is in the approval.
Commitment(r) == [records |-> Records(r), authority |-> r.authority]

TranslationApproval(r) ==
  [commitment |-> Commitment(r), rules |-> RulesIn(r),
   commit |-> CommitHash(Commit(r)), at |-> r.approved]

TranslationParts(r) ==
  [source_policy   |-> r.source,
   authority       |-> r.authority,
   commitment      |-> Commitment(r),
   constraint_ir   |-> RulesIn(r),
   semantic_commit |-> Commit(r),
   compiled        |-> Compiled(r),
   approval_record |-> TranslationApproval(r),
   manifest        |-> Manifest(r.source, Compiled(r), r.published)]

\* The bundle of a round.
Built(r) ==
  CASE r.version = "v1" -> CustomerParts(r)
    [] r.version = "v2" -> DomainParts(r)
    [] OTHER            -> TranslationParts(r)

-----------------------------------------------------------------------------
(* The finalizers: when a round is published.                              *)

CommittedInOrder(r) == r.approved <= r.committed /\ r.committed <= r.published

InOrder(r) == r.answered <= r.approved /\ CommittedInOrder(r)

\* _require_new_repository_path_grant, and lower_action_constraints of v4.
Grants(r) == RulesIn(r) \in Granting

FinalizerAccepts(r) == InOrder(r) /\ (r.version # "v1" => Grants(r))

\* Releases before the gate of new authority published deny-only v2 and v3.
PublishedBefore(r) == InOrder(r) /\ r.version \in {"v2", "v3"} /\ ~ Grants(r)

-----------------------------------------------------------------------------
(* The validators: what is required of the parts b of a bundle.            *)

\* The customer policy is not interpreted again, and no times are compared.
StatementsBound(b) == b.source_statements[1] = b.source_policy

\* The mapped statements are the ones that are enforced.
MappingsBound(b) == b.interpretation.mapping = b.source_statements

ResolutionsBound(b) == b.resolution.source = b.source_policy

CommitBound(b) ==
  /\ b.semantic_commit.source = b.source_policy
  /\ b.semantic_commit.answers = b.resolution
  /\ b.semantic_commit.meaning.rules = RulesOf[b.interpretation.mapping]
  /\ b.semantic_commit.bindings =
       [source |-> b.source_policy, draft |-> b.interpretation.draft,
        classified |-> b.source_statements, resolution |-> b.resolution]

ApprovalBound(b) == b.approval_record.commit = CommitHash(b.semantic_commit)

\* Mutant: only the source of the compiled contract is compared.
Mutant_CompiledBound(b) == b.compiled.source = b.source_policy

CompiledBound(b) ==
  /\ b.compiled.commit = CommitHash(b.semantic_commit)
  /\ b.compiled.source = b.source_policy

VersionBound(b) == b.version_binding = <<b.source_policy, b.compiled.authority>>

ManifestBound(b) == b.manifest = Manifest(b.source_policy, b.compiled, b.manifest.at)

V1Accepts(b) ==
  /\ StatementsBound(b) /\ MappingsBound(b) /\ ResolutionsBound(b)
  /\ CommitBound(b) /\ ApprovalBound(b) /\ CompiledBound(b)
  /\ VersionBound(b) /\ ManifestBound(b)

\* The round that the parts of a bundle tell of.
Told(version, b, records) ==
  [version |-> version, source |-> b.source_policy, authority |-> b.authority,
   choice |-> records.choice, answered |-> records.at, approved |-> b.approval_record.at,
   committed |-> b.semantic_commit.at, published |-> b.manifest.at]

\* The draft is replayed from the source and the decisions; the order of the
\* decisions and the approval is not looked at again.
V2Accepts(b) ==
  LET r == Told("v2", b, b.decisions)
  IN /\ b.decisions.source = b.source_policy
     /\ b.constraint_ir = RulesIn(r)
     /\ b.semantic_commit = Commit(r)
     /\ b.compiled = Compiled(r)
     /\ b.approval_record.rules = b.constraint_ir
     /\ b.approval_record.commit = CommitHash(b.semantic_commit)
     /\ ManifestBound(b)
     /\ CommittedInOrder(r)

CommitmentBound(b) ==
  /\ b.commitment.records.source = b.source_policy
  /\ b.commitment.authority = b.authority
  /\ b.commitment.records.at <= b.approval_record.at

\* Mutant: new authority's gate is asked of what was published before it.
Mutant_V3Accepts(b) ==
  LET r == Told("v3", b, b.commitment.records)
  IN CommitmentBound(b) /\ InOrder(r) /\ Grants(r) /\ b = Built(r)

V3Accepts(b) ==
  LET r == Told("v3", b, b.commitment.records)
  IN /\ CommitmentBound(b)
     /\ b.constraint_ir = RulesIn(r)
     /\ b.semantic_commit = Commit(r)
     /\ b.compiled = Compiled(r)
     /\ b.approval_record = TranslationApproval(r)
     /\ ManifestBound(b)
     /\ InOrder(r)

\* _reconstruct: the bundle is the one that its own inputs lead to.
V4Accepts(b) ==
  LET r == Told("v4", b, b.commitment.records)
  IN CommitmentBound(b) /\ Grants(r) /\ InOrder(r) /\ b = TranslationParts(r)

\* validate_authority_bundle; every version has fields of its own.
Accepts(version, b) ==
  CASE version = "v1" -> V1Accepts(b)
    [] version = "v2" -> V2Accepts(b)
    [] version = "v3" -> V3Accepts(b)
    [] version = "v4" -> V4Accepts(b)

\* What a receipt says of a bundle besides its hash is read off the bundle.
Receipt(version, b) == [version |-> version, bundle |-> b, published |-> b.manifest.at]

\* validate_publication_receipt
AcceptsReceipt(version, b, receipt) ==
  /\ receipt.version = version
  /\ Accepts(version, b)
  /\ receipt = Receipt(version, b)

-----------------------------------------------------------------------------
Init == shelf = {} /\ bundle = None /\ approved = None

Shelve(r) ==
  /\ bundle = None
  /\ Cardinality(shelf) < MaxShelf
  /\ \A b \in shelf : b.round.version = r.version
  /\ shelf' = shelf \cup {[round |-> r, parts |-> Built(r)]}
  /\ UNCHANGED <<bundle, approved>>

Finalize(r) == FinalizerAccepts(r) /\ Shelve(r)

\* A bundle of an earlier release is at hand.
Recall(r) == PublishedBefore(r) /\ Shelve(r)

\* A bundle is put together of parts of the bundles at hand; the validator
\* will have nothing else.
Assemble(from) ==
  /\ bundle = None
  /\ bundle' = [version |-> from["approval_record"].round.version,
                parts |-> [p \in DOMAIN from |-> from[p].parts[p]]]
  /\ approved' = from["approval_record"].round
  /\ shelf' = {}

Next ==
  \/ \E r \in Rounds : Finalize(r) \/ Recall(r)
  \/ \E from \in UNION {[DOMAIN b.parts -> shelf] : b \in shelf} : Assemble(from)

Spec == Init /\ [][Next]_vars

-----------------------------------------------------------------------------
(* Properties.                                                             *)

Accepted == bundle # None /\ Accepts(bundle.version, bundle.parts)

\* What any release published stays valid, with its own receipt and no other:
\* the gates of new authority are not asked of what was published before them.
PublishedStaysValid ==
  \A b, c \in shelf :
    AcceptsReceipt(b.round.version, b.parts, Receipt(c.round.version, c.parts)) <=> b = c

\* The times that the validator of a version can vouch for.
VouchedOrder(r) ==
  CASE r.version = "v1" -> TRUE
    [] r.version = "v2" -> CommittedInOrder(r)
    [] OTHER            -> InOrder(r)

\* A bundle that is put together is accepted only if it is, part for part, the
\* bundle of some one round, and that round was in the order that its version
\* vouches for.  The preview is the one part of v1 that nothing else binds.
AcceptedIsOneRound ==
  Accepted =>
    LET same(r) == LET built == Built(r)
                   IN \A p \in DOMAIN built \ {"impact_preview"} : built[p] = bundle.parts[p]
    IN \E r \in Rounds : /\ r.version = bundle.version
                        /\ r.source = bundle.parts.source_policy
                        /\ VouchedOrder(r) /\ (r.version = "v4" => Grants(r))
                        /\ same(r)

\* In an accepted bundle the approval was given for this source, this authority
\* and these answers, with the time they were given; in v2 only for an equal
\* meaning: the round it was given in may have had another text.
ApprovalCoversContent ==
  Accepted =>
    /\ RulesIn(approved) = bundle.parts.compiled.rules
    /\ approved.authority = bundle.parts.compiled.authority
    /\ bundle.version # "v2" => Records(approved) = bundle.parts.semantic_commit.answers

=============================================================================
