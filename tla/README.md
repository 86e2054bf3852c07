# A formal model of Waveframe Ledger

Waveframe Ledger turns policy texts into published authority: contracts that an
external evaluator (Waveframe Guard) enforces. The program is a Python library
and a command line, without threads and without a server. What makes it hard is
elsewhere:

* publication is a sequence of file operations, any of which may raise and
  between any two of which the process may die, in a directory that several
  command line processes share;
* authority comes about in a long conversation, in which the caller holds every
  artifact (proposal, confirmation, approval) and hands it back in, in any
  order and in combinations of different rounds;
* several pieces of code decide the same question (is this publishable, do
  these rules conflict, is this bundle the one that was published, did a
  requirement get lost) and are meant to agree.

This directory holds TLA+ modules that model those parts, TLC configurations
that check them on small instances, and proofs that the TLA+ proof system checks
for every instance: of the file transaction, the workflow around it, the review
lifecycle, the policy translation, the interpretation, the bundles and the semantic
layer. Every safety property that a passing run checks is a theorem. Source paths below are relative to `governance_ledger/`, those of documents and tests to the repository.

## Inventory

### Components, state and operations

| Component | Source | State it keeps | Operations | Must be true |
|---|---|---|---|---|
| Publication transaction | `publish.py` (`_PublicationTransaction`) | target files, temporary files, `.bak` files; `_staged`, `_committed` | `stage_json`, `commit`, `rollback` | all or nothing; the registry never ahead of what it names; immutable outputs kept; what was replaced recoverable |
| Publication workflow | `publish.py`, `runner.py`, `registry.py` | generated policies, reviews, published outputs, `contracts/index.json` | `run_policy_file`, `approve_review_file`, `publish_review_file`, `update_contract_registry` | a registered authority is complete and stays registered; publication ids are distinct; an interrupted publication can be finished |
| Review lifecycle | `lifecycle.py`, `contract_linkage.py`, `deployment.py`, `snapshot.py`, `rollback.py` | the review artifact, snapshots | transition, approve, attach contract, attach deployment, snapshot, rollback | the status is the one its history leads to; a deployment has an approval and a contract |
| Policy translation | `policy_translation.py` | none of its own: artifacts held by the caller | create/validate/inspect proposal, resolve binding, confirm control, decide clause, render review, approve, finalize (v2) | what is published is what was confirmed and approved; no dead end; readiness is reported truthfully |
| Translation publication | `policy_translation_publication.py` | as above | customer coverage, commitment, finalize (v3), validate bundle and receipt | as above; agrees with v2 where both apply |
| Action policy | `action_policy.py`, `action_policy_publication.py` | as above | parse, lower, finalize (v4), validate | as above, for separate create and modify actions |
| Domain policy | `domain_policy.py`, `domain_packs.py`, `constraint_ir.py` | interpretation draft | interpret, apply mapping decision, finalize (v2), validate | a draft is reconstructible from its decisions |
| Customer policy | `customer_policy.py` | interpretation draft | interpret, resolve ambiguity, finalize (v1), validate | no rule conflict survives; chronology |
| Contract registry lookup | `registry.py` | reads `index.json` | resolve, latest, list | version order |
| Bundle provenance | `publication_provenance.py` and the validators of v2, v3, v4 | none | rebuild what a bundle's inputs lead to and compare; validate a receipt | what any release published stays valid; an accepted bundle is of one round; its approval covers it |
| Publication artifacts | `semantics/publication.py`, `authority_contract.py`, `checks.py` | none | build bundle, receipt, checks | a receipt fits one bundle |
| Draft generation | `extract.py`, `statement_normalizer.py`, `patterns.py`, `pipeline.py`, `review.py`, `normalization_report.py`, `report.py` | none | text to structured policy and review | |
| Authoring diagnostics | `validation.py`, `diagnostics.py`, `summary.py`, `inspect.py`, `diff.py` | none | reports | |
| Replay | `replay.py` | none | recompile and compare | |
| Semantic extraction and compiler | `semantics/extraction.py`, `capabilities.py`, `compiler.py` | none of its own: texts, extractions, commits held by the caller | extract candidate meaning and ambiguities, commit, compile | what was decided is what is compiled |
| Semantic reconciliation | `semantics/reconciliation.py` | the operator's decisions | decide, reconcile, check completeness, compare a reinterpretation | nothing contradictory or open is committed |
| Semantic diff and enforcement | `semantics/diffing.py`, `lifecycle_enforcement.py`, `execution_projection.py` | none | diff two versions, project what becomes unsafe | a lost requirement is flagged; a relaxation cannot be split into unflagged steps |
| Command line, Guard adapter, paths | `cli.py`, `integrations/guard.py`, `paths.py`, `schema_versions.py` | none | dispatch | |

The policy compiler (`compiler.compile_policy`, CRI-CORE) and the Guard
evaluator are external packages.

### How the components interact

    policy text --run_policy_file--> generated policy + review
                                        |  approve_review_file
                                        v
    publish_review_file: load, compile, number, build registry,
                         stage, commit, verify  --> contracts/index.json
                                                        ^
                                update_contract_registry (operator)

    provider --> proposal --> binding / control / clause confirmations
                    --> approval --> finalize v2 | v3 | v4 --> authority bundle
    exact text --> ambiguities / pending statements --> resolutions | decisions
                    --> finalize v1 | v2 ----------------------------> ^
                                                     validate bundle, receipt
    text --> extraction --> decisions --> commit --> contract, one per version
                                             diff, enforcement projection

The two halves meet in the authority bundle format and in the compiler. The
first half communicates through files only; the second through values only,
each bound to the others by hashes. Nothing is locked, nothing is retried by the
program itself; a retry is a person running the command again.

### What is hard

`PROJECT.json` lists the hazards at their lines. In short: a rename that fails
half way and a rollback that fails too (`publish.py:469-498`); a crash between
renames and the retry after it; two publishers around the same registry and
the same publication number; a policy regenerated after its review was approved;
artifacts of different rounds presented together; confirmations given in an
order or at times that only a later check refuses; parts of two published
bundles brought together; versions of an authority that lose a requirement in
small steps; and checks of the same fact by different code.

## Modules

| Module | Models | State | Actions |
|---|---|---|---|
| `AtomicPublication` | what publishing promises: outputs appear at once | `store` | `Publish` |
| `PublicationTransaction` | the file transaction, one action per file operation, with its failing twin | `disk`, `temp`, `backup`, `pc`, `payload`, `cursor`, `staged`, `committed`, `undo`, `sweep`, `nested` and the history variables `before`, `outcome`, `faulted` | `Begin`, `Stage*`, `Copy*`, `Replace*`, `Verify*`, `Restore*`, `Cleanup*`, `RollbackFault`, `Crash` |
| `PublicationTransactionProofs` | theorems about it | | |
| `Publication` | the workflow around the transaction, several publisher processes | `generated`, `review`, `disk`, `temp`, `backup`, `job`, `attempts` and the history variables `returned`, `faulted` | `RunPolicy`, `Approve`, `Load`, `Compile`, `Identify`, `ReadRegistry`, `Stage`, `StageFault`, `Commit`, `Fail`, `Undo`, `Sweep`, `RollbackFault`, `Return`, `Crash`, and for the operator `ReadForUpdate`, `WriteUpdate` |
| `PublicationProofs` | theorems about it | | |
| `ReviewLifecycle` | one review from draft to deployment and back | `review`, `snapshots` | `Move`, `Approve`, `ApproveAgain`, `AttachCompiledContract`, `AttachDeployment`, `CreateSnapshot`, `Rollback` |
| `ReviewLifecycleProofs` | theorems about it | | |
| `PolicyRules` | what controls mean; the three checks of rules (constraint IR, customer policy, action policy) | | |
| `PolicyTranslation` | from a proposal to a published bundle | `proposal`, `confirmation`, `approval`, `publication` | `Propose`, `ResolveBinding`, `ConfirmControl`, `DecideClause`, `Approve`, `FinalizeV2`, `FinalizeV3`, `FinalizeV4` |
| `PolicyTranslationProofs` | theorems about it | | |
| `PolicyInterpretation` | from the exact text to authority without a translator: the customer track (v1) and the domain track (v2) | `source`, `resolutions`, `draft`, `publication` | `Resolve`, `Interpret`, `Decide`, `FinalizeV1`, `FinalizeV2` |
| `PolicyInterpretationProofs` | theorems about it | | |
| `AuthorityBundles` | what the four bundle versions bind, their finalizers and their independent validators | `shelf`, `bundle`, `approved` (history) | `Finalize`, `Recall`, `Assemble` |
| `AuthorityBundlesProofs` | theorems about it | | |
| `SemanticMeaning` | extraction, capabilities, reconciliation, commit, compilation | `text`, `decisions`, `normalized`, `versions` | `Extract`, `Decide`, `Commit`, `Abandon` |
| `SemanticDiff` | the diff of two meanings, the enforcement projection, the runtime conditions; extends `SemanticMeaning` | | |
| `SemanticProofs` | theorems about both | | |
| `FiniteMaxima` | lemmas: finite images, greatest elements | | |
| `MC*` | constants of the TLC instances | | |

Definitions whose name begins with `Mutant_` are plausible bugs of the
definition that follows them. No specification uses them; they are there to
show that each property can fail.

### Correspondence with the code

**PublicationTransaction.** `disk`, `temp` and `backup` are the files by output.
`staged` and `committed` are the two lists of the transaction object; they are
sets, since they are filled in the order of the outputs, and `First` and `Last`
recover that order. Each of `commit`'s two operations (`copy2`, `replace`) and
each of `rollback`'s is a step, and each may raise; a `copy2` that raises leaves a
torn backup. The exception path is the code's: `commit` calls `rollback` and
re-raises, and `publish_review_file` calls `rollback` again (`nested` tells the two
calls apart). `Outputs` are numbers in the order the code stages them, with the
registry last. The contents of files are model values: the transaction never
looks into them.

**Publication.** A publisher's call is cut where it reads or writes a file that
another process may write: read the review, read and compile the generated policy,
number the publication, read the registry, stage, one step per rename, return. The
copy and the rename of one output are one step here, which `PublicationTransaction`
has apart. A refusal or a fault while staging (`StageFault`) leaves the outputs before
it staged, and the rollback sweeps their temporary files and backups. A rollback is a
step per target it restores (`Undo`, from the last output back), then its clean-up
(`Sweep`), and may raise in either (`RollbackFault`); inside `commit` it is then run again
by `publish_review_file` with `_committed` as it was, and `faulted` records the policy file.
A publication is its id,
its time, the approval it carries and its contract; all outputs are functions
of it. The operator who changes a lifecycle state in the registry is a process
too, with one step that reads `index.json` and one that writes it back; no
publisher is that process (`ProcessAssumption`). The
constant `Serial` says whether processes overlap. The outputs of a call are known
by their places in the order they are staged, and `job[p].staged` and
`job[p].committed` are sets of places; `Committing` is the place the loop is at.
`Put` writes a file, or an entry of a registry.

**ReviewLifecycle.** The operations return new reviews; the state is the review
of a caller who goes on with what was returned. A snapshot is the review it froze.

**PolicyTranslation.** A proposal has clauses, each with the status the provider
claims, its controls, a residual flag and a limitation, and, for a clause the
deterministic grammar recognises, the meaning the grammar gives it. A hash that
binds artifacts is equality of what it covers: a confirmation has its proposal
in it, an approval its confirmation. The caller may start over with an empty
confirmation, change the proposal, and keep an old approval. The three
finalizers are modelled with their different checks: v2 replays mapping
decisions on the source (`V2Rules`, `V2Representable`), v3 and v4 build and
validate a commitment (`CommittedClause`, `ValidCommitment`). An approval is
always one that `approve_policy_translation_proposal` returned: a caller
that fabricates a consistently hashed approval is not modelled. Rules are
families, indexed by the control they come from (clause and position), since the
code keeps their order but decides nothing by it. The proposals that may be handed
in are any set of `Proposals` (`CandidatesAssumption`), which are of the shape
that the first lines of the validators require; each kind of control accepts some
literal (`WellFormedAssumption`: a path, a role).

**PolicyInterpretation.** A statement is what the grammars make of it: how it is
read, its rule, the rule that is left without its ambiguous word, the rules of
the action grammar. `Component` is the closure that `_conflict_components`
computes with a stack, `Ambiguities` and `Options` what a person may answer.
The domain track keeps its draft as the catalog, the decisions and the reported
readiness; `Replayed` is `_reconstruct_domain_draft`. Every operation replays
the draft before it acts, as the code does. Both tracks in one module allow the
statement that they mean the same (`TracksAgree`). The loops of the code that fill a list or
override an entry are given by their result: `Outcome` takes the last record about a
statement, `ConfirmedRules` keeps a rule at the first statement that states it, and
the constraints of a draft are a family over where they come from (a statement, or a
decision), since nothing is decided by their order. Policies are any sequences of
`Statements` (`SourcesAssumption`), so the theorems hold whatever a text is made of.

**AuthorityBundles.** A part of a bundle is a record of what it says, and a hash
of a part is the part: two hashes are equal when what they cover is. A round is
one complete conversation; `Built` is the bundle a finalizer returns for it. The
caller has up to two bundles and puts a third together, part by part; the
validators are translated conjunct by conjunct for v1, and as a comparison with
the reconstruction (`Told`, `Built`) where the code reconstructs. A mapping of v1 stands
for the source and the answers that led to it; `MappingsBound` compares these, a little more
than the statement ids that the code compares, and the commit binds both all the same.

**SemanticMeaning, SemanticDiff.** A text is a record of what the patterns of
`extraction.py` recognise in it, and `WellFormed` states of what kind each
recognition is and which imply others. The candidate meaning, its ambiguities and its capabilities are
then computed field by field as in the code, with the order of precedence of
each reader: the compiler prefers a capability's own copy, the diff reads the
meaning. Ambiguities are known by position, and any decision that names one
answers it. `build_governance_semantic_reconciliation` applies the decisions in a
loop over their list. Since the list only grows while a text is interpreted, the
model takes each turn of the loop when the decision comes: `normalized` is the
candidate with all decisions so far applied, and `Reconciliation` reads it together with
the list, as the code does after its loop. A decision has five fields, as in the code: its
type says where its value is applied, and its field and selected interpretation are what
the stability projection compares. The caller may leave the latter two to the code, which
then takes the field of the type and the value itself, or name others (`Labels`, `Wordings`).

## Runs

| Run | Asks | Instance | States |
|---|---|---|---|
| `txn_faults` | what holds of the files when any operation may fail, inside a rollback too, and the process may die anywhere; does an attempt end | 7 outputs, two payloads, any number of attempts | about 660,000 |
| `txn_atomic` | without crashes and without faults inside `rollback`, is the transaction a publication in one step | 7 outputs, three payloads | 7,846 |
| `pub_serial` | the workflow, one process at a time, each of which may fail or die, with an operator | 2 policy files, 2 texts, 2 times, 2 calls of publish | about 4,003,000 |
| `review_lifecycle` | all histories of a review | 1 actor, 2 snapshots | 22,049 |
| `translation` | all orders and combinations of the translation's operations | 7 valid and 4 invalid proposals, 2 times | about 96,000 |
| `interpretation` | all answers and decisions, in all orders, on both tracks | 140 policies of one to four statements, 2 times, 3 resolutions, 2 decisions | about 142,000 |
| `bundles` | every bundle of parts of two rounds, and every published one with every receipt | 5 contents, 2 times, 4 versions | about 154,000 |
| `semantics` | two versions of an authority, each of one of 15 texts, with two decisions in all of any type; three versions with one | 2 clocks, 1 subject, 2 amounts, 1 field and 1 wording of the caller's | about 369,000 |
| `txn_double_rollback`, `pub_stale_review`, `pub_concurrent`, `pub_revoked` | whether a statement of the documentation holds; each has a counterexample | | |

**Why the bounds are enough.** *Transaction:* the seven paths are those that two
publications of one policy write (each has a snapshot of its own; bundle and
receipt, staged alike one after the other, count as one) and have every kind of
output there is (immutable and replaceable, written by both attempts and by one
only, the registry last), and attempts are unbounded: a later attempt meets
every state of the files an earlier one can leave. *Workflow:* two files with two
texts give every clash of names (two files under one reference, one file under
two); two calls are one that returns, fails or is interrupted, and one that meets
what it left, with every fault in its commit, its rollback and the rollback of that.
`MaxAttempts` is the only bound, and the theorems hold for any number of calls; times are of one day because the
publication id has the day in it. Swapping the two files is a symmetry, and no
property tells them apart. *Lifecycle:* with two snapshots no history is longer
than four transitions and two rollbacks, so `MaxLifecycle = 6` cuts nothing off.
*Translation:* each proposal is the smallest with its case, and the cases are those
the operations tell apart: recognised and pending clauses, each status, a
literal and a binding, a conflict that appears with an answer, what v2 cannot
represent, both catalogs, invalid proposals. Two times give before, at and after;
two proposals complete their last run at the last time. A behaviour ends with
its first publication: a finalizer changes nothing it reads, so a second
publication is a first one of another behaviour. *Interpretation:* eleven
kinds of statement, alone and in every ordered pair, and eight longer policies
with a chain of conflicts whose ends agree, a dispute beside vague statements, and
repetitions. Three resolutions answer every policy with an answer to spare, so
that an ambiguity can be answered twice; two decisions settle every policy with
at most two pending statements. `MaxReferenced` is 64 in the code and 2 here, so
that a dispute can exceed it. *Bundles:* two rounds at hand suffice, because a
validator compares parts in pairs; the contents differ from each other in source,
authority or answers, and some of those that differ have equal rules. *Semantics:*
two policies and thirteen revisions, each of which changes the words of one or a few
concerns; three versions are the fewest in which a relaxation can be split. Two decisions are the
fewest of which one overrides the other; one foreign field and one foreign wording suffice for
two decisions that are compared though they are applied elsewhere, or alike though they differ.
Decisions that override each other, and names of the caller's own, matter to the properties
that judge one version or compare two; only `WeakeningNotLaundered` looks at three. The
constraint `ThirdVersionIsPlain` therefore lets a third version come only where there is at most
one decision, named plainly.

`translation`, `interpretation`, `bundles` and `semantics` do not check deadlock: their
behaviours end with a publication, an assembled bundle or the last version. All other runs do.

**What the passing runs show.**

* `NoPartialRegistration`, `AllOrNothing`, `ReplacedFilesRecoverable`,
  `ImmutableOutputsKept`: the registry is ahead of nothing; a call published all
  or nothing unless a rollback raised; what was replaced survives as target or
  backup wherever the call stopped; immutable outputs survive everything.
  `AttemptsEnd`: the second rollback does not go on for ever.
* `RegisteredIsComplete`, `ReturnedStaysRegistered`, `PublicationIdsDistinct`,
  `InterruptedCanBeFinished`: with one process at a time the workflow keeps its
  promises across crashes and rollbacks, those that raise included, and a publication
  that died past its manifest can be finished by the same call again. One thing is
  excluded from `RegisteredIsComplete`: the deployed review and the snapshot of a policy
  file of which a rollback inside `commit` raised, since the second rollback may delete
  them (`txn_double_rollback`). The contract, manifest, bundle and receipt survive that too.
* `StatusFollowsLifecycle`, `DeploymentIsEarned`,
  `TerminalStatusesAreLeftOnRecord`: the review's status is the one its recorded
  transitions lead to, rollbacks included.
* `PublishedMeaningWasConfirmed`, `PublishedInOrder`: whatever artifacts are
  combined, a finalizer publishes the confirmed meaning of the approved
  confirmation, in order of time. `RecordsAreFinal`: no answer changes under a
  confirmation. `ReadinessAgrees`: a confirmation is reported ready exactly when
  it can be approved, and then nothing is listed as waiting. `WorkCanProceed`: no order of calls is a dead end.
  `V2AgreesWithV3`: the narrower format is a restriction, not another meaning.
  `ApprovedIsPublishable`: the exact conditions under which an approved
  translation can still not be published.

* `AnswersSettleDisputes`, `ResolutionOrderImmaterial`,
  `AnsweredIsPublishable`: whatever answers are given, no dispute between plain
  statements survives, the order of the answers does not matter, and these are
  all the reasons for which a fully answered policy is refused.
  `DirectMeaningsAgree`: interpretation with a pack does not fail on what the
  released grammar reads. `DecisionOrderImmaterial`: a draft does not depend on
  the order of its decisions, which is what replaying them relies on.
  `TracksAgree`: the customer track and the domain track publish the same rules
  of the same policy, except where v2 asks for more.
* `PublishedStaysValid`: every bundle that any release published is valid with
  its own receipt and no other; deny-only bundles published before the gate of
  new authority are among them. `AcceptedIsOneRound`, `ApprovalCoversContent`: a
  bundle put together of two rounds is accepted only if some one round
  accounts for all its parts, and the approval in it is for its content.
* `CommitIsSettled`, `DecidedIsCompiled`, `ReinterpretationNoticed`: a commit has
  nothing open and contradicts no stated threshold; the contract has what was
  decided; another reading of the same text is reported as drift if the decisions are
  named alike (one field for one type, one value for one selected interpretation).
  `LostRequirementIsFlagged`, `ChangedConditionsAreFlagged`: a version that drops
  approvals, roles, approval flags, identity continuity, revalidation, snapshots or
  evidence, or changes the runtime conditions, is flagged as unsafe, although the
  compiler and the diff read the meaning with rules of their own. A threshold that is gone
  is at least in the diff. `human_in_loop_required` is not among these requirements: the code
  can lose it without a trace (see below).
  `WeakeningNotLaundered`: a relaxation cannot be hidden in a version between.

**What the other runs show.** Each states a sentence of the documentation
(quoted in `PROJECT.json`) that the code does not keep:

* `txn_double_rollback`: a rollback that raises inside `commit` is run again, has
  no backup left for what it had restored, and deletes it. In the trace that is a
  deployed review which an earlier attempt left; the registry is not touched.
* `pub_stale_review`: a text changed after its review was made (before or after the
  approval, in the trace before) is published with the lineage of the reviewed text.
* `pub_concurrent`: of two publishers at once one returns, and its registry entry is lost
  when the other replaces the registry by the one it had read before.
* `pub_revoked`: publishing a revoked authority again makes it active.

**Seen while modelling.** The models contain the following behaviour, as the
code has it. Where it limits a property, the property says so; no run is made
of it.

* `rollback.py:23`: a rollback restores the snapshot's lifecycle, so the entries
  since the snapshot are gone; `LIFECYCLE.md:171` says that a rollback does not
  delete later history.
* `policy_translation.py:1249-1261`: a clause that allows a prefix and denies a
  path below it passes validation, confirmation and approval, and no finalizer
  accepts it, while `docs/UNTRUSTED_POLICY_TRANSLATION.md:175` says that
  contradictory controls fail validation. Under the action
  catalog a control confirmed later than its clause was decided is likewise
  refused only by the v4 finalizer. Both are conditions of `ApprovedIsPublishable`.
* `customer_policy.py:723-728`: a rule recovered from a statement with an ambiguous
  word is not compared with the others when ambiguities are formed; an overlap is
  refused at finalization, not raised as an ambiguity (`README.md:322` of the repository). It is a
  condition of `AnsweredIsPublishable`.
* `domain_policy.py:1121`: after a first decision a draft of an action catalog is
  reported ready without a grant, which the first interpretation would not
  (`tests/test_action_policy_v4.py:188`).
* `semantics/compiler.py:242`, `semantics/extraction.py:252`: capabilities are made before the
  decisions, so a capability of the compiled contract keeps an unspecified
  timestamp source or snapshot subject that was decided for the authority.
  `DecidedIsCompiled` is about the authority's own fields.
* `semantics/compiler.py:348`: the contract's replay obligations lack the evidence
  obligations that the commit has; `LostRequirementIsFlagged` counts both.
* `semantics/diffing.py:92-149`: the approval chains are compared by their count, roles and
  three flags, not by `human_in_loop_required`, which the contract (`compiler.py:236`) and the
  execution projection (`execution_projection.py:70`) carry. A next version that differs
  in it alone has another contract and an empty diff, while the docstring at `diffing.py:16`
  says "Compare governance meaning, not source text or document structure."
  `LostRequirementIsFlagged` excludes it.
* `semantics/reconciliation.py:265-295`: the stability projection compares what was
  selected for each field, while `reconciliation.py:75-95` applies the resolved values by
  their types. A text committed with the threshold 60 and again with 70, both under one
  selected interpretation, is "stable", while `GOVERNANCE_SEMANTIC_RECONCILIATION.md:116`
  lists "semantic meaning drift between versions" among what is detected.
  `ReinterpretationNoticed` is for decisions that are named alike.
* `semantics/reconciliation.py`: ambiguities are known by position, and any
  decision that names one answers it, whatever it decides.
* `semantics/diffing.py`: a removed threshold or validity window counts as 0 and is
  classed `tightened_control`; the AI posture of the approval chain hides that of the
  AI boundary; the emergency delegation comes last where the compiler takes it
  first, so a change of its window alone yields no diff, and neither does one of
  the timestamp source;
  an approval chain that appears without any flag is called `approval_weakened`. Its input is the
  meaning, where `PROJECTION_DEPENDENCY_GRAPH.md:89` names compiled contracts.

### Fairness

Only `txn_faults` assumes fairness: weak fairness of the steps of an attempt
(`FairSpec`). The code is a single call on one thread: a process that has begun
an attempt and does not die runs on. Nothing makes a caller begin another
attempt, so `Begin` is not fair, and neither is `Crash`. Operations of the other
components are calls that a person makes or not; no liveness is claimed there,
and `WorkCanProceed` states instead that there always is an accepted call.

## Proofs

`PublicationTransactionProofs` proves, for every number of outputs, every choice
of immutable ones, every set of payloads, with or without crashes and faults:

| Theorem | Property |
|---|---|
| `TypeCorrect` | `TypeOK`, which includes that no target is ever a torn file |
| `NeverPartiallyRegistered` | `NoPartialRegistration` |
| `AttemptsAreAllOrNothing` | `AllOrNothing` |
| `ReplacedFilesAreRecoverable` | `ReplacedFilesRecoverable` |
| `ImmutableOutputsAreKept` | `ImmutableOutputsKept` |
| `ImplementsAtomicPublication` | `AtomicSpec`, when `CrashAllowed` and `RollbackFaultAllowed` are false |

Assumptions: there is at least one output, the registry is the last, is not
immutable and is written by every payload; a whole file is neither absent nor
torn. These are the `ASSUME`s of the module, and TLC evaluates them.

None of the safety properties is inductive. `IInv` adds to them
`BackupShadowsTarget` (a backup lies only beside a target), `StagedInv` (what
staging decided about each output, and that outputs that were not staged are as
before), `RunningInv` (nothing is committed before everything is staged),
`CommitInv` (the outputs are committed in order, so the registry comes last, and
each has what was there before as its backup) and `RollbackInv` (what is still
to restore has a complete backup, and the registry is restored first). The torn
backups are the subtle part: an output whose `copy2` raised is not in
`committed`, so no rollback restores it; one that is in `committed` either had a
file, and then its backup is complete, or had none, and then
`BackupShadowsTarget` says that no backup of an earlier attempt is there to be
restored in its place. There is one
lemma per action and one step per conjunct the action can disturb. The
refinement maps the store of `AtomicPublication` to the targets as seen between
attempts; only the step that returns is a `Publish`, all others stutter.

`ReviewLifecycleProofs` proves, for any actors and any number of snapshots and
transitions:

| Theorem | Property |
|---|---|
| `TypeCorrect` | `TypeOK` |
| `StatusIsTheOneRecorded` | `StatusFollowsLifecycle` |
| `DeploymentsAreEarned` | `DeploymentIsEarned` |
| `TerminalStatusesStay` | `TerminalStatusesAreLeftOnRecord` |

A rollback makes a snapshot the review, so none of these is inductive for the
review alone: `IInv` states them of the review and of every snapshot. It adds
`LinkEarned` (a linked contract was compiled after an approval), which is what a
deployment finds; the approval before a compilation comes from the status, by
`StatusFollowsLifecycle`. The lemmas in between are about a history that grows at
its end: what it showed, it shows with one entry more. `MaxLifecycle` and
`MaxSnapshots` are in guards only, and the proofs do not use them.

`PublicationProofs` proves, for any policies, policy files, publishers,
timestamps and number of calls:

| Theorem | Property | Assuming |
|---|---|---|
| `TypeCorrect` | `TypeOK` | nothing: any processes may overlap |
| `RegisteredComplete` | `RegisteredIsComplete` | `Serial` |
| `ReturnedRegistered` | `ReturnedStaysRegistered` | `Serial` |
| `IdsAreDistinct` | `PublicationIdsDistinct` | `Serial` |
| `InterruptedFinishable` | `InterruptedCanBeFinished` | `Serial` |

`Serial`, one process at a time, is what an operator must see to, since the code
has no lock: `pub_concurrent` is the counterexample without it. Crashes, faults,
rollbacks and faults of rollbacks are allowed at every point. `RegisteredComplete`
leaves out, as its property does, the deployed review and the snapshot of a policy file in
`faulted`.

The invariant `SerialInv` has at its centre `Whole(d, R, F)`, which says what a set of
files `d` amounts to, when the publications `R` were returned and `F` are the faulted
policy files: each manifest has its contract and, outside of `F`, its deployed review and
snapshot, each bundle its manifest, each receipt its bundle, each registry entry its
receipt, all of one publication; no two manifests have one id; what was returned is
registered. The outputs are renamed in the order of this chain, so the disk is whole
between any two renames, whence a crash needs no argument. A rollback does: `After(d, b,
pub, U)` is what is left of `d` when the outputs at the places `U` are undone from the
backups `b`, and `LeadsBack` says that undoing what was committed, from the last output
back, leaves a whole disk after each target. `CommitOK` says that of the call in `commit`,
and that what still waits to be renamed is new where it is immutable (`NotYet`);
`RollbackOK` says it of what is still to undo. When a rollback raises inside `commit` and
starts again, its backups are gone in part, so the places it undoes a second time lose
their file. The registry was not renamed then, and the immutable outputs it committed were
new; what can be lost is the deployed review and the snapshot, in `F` from then on.
Backups of interrupted calls stay on disk, and one with the same publication id could be
restored in place of a file that was not there: `Shadowed` (a backup lies only where the
target stays, or where it is not claimed) and `NoOldBackups` exclude that.
`IdFits` carries the number that a call
has chosen to the moment its manifest is in place.

`PolicyTranslationProofs` proves, for any literals, bindings, times and
candidate proposals:

| Theorem | Property |
|---|---|
| `TypeCorrect` | `TypeOK` |
| `MeaningWasConfirmed` | `PublishedMeaningWasConfirmed` |
| `InOrderPublished` | `PublishedInOrder` |
| `FinalRecords` | `RecordsAreFinal` |
| `V2IsNarrower` | `V2AgreesWithV3` |
| `ApprovedPublishable` | `ApprovedIsPublishable` |
| `ReadinessIsOne` | `ReadinessAgrees` |
| `OpenWorkProceeds` | `WorkCanProceed` |

`IInv` has the types, the two properties of what is published, and three facts about what the
caller holds: a proposal is a valid one (`ProposalHeld`), a confirmation is valid
for its own proposal and has at least one record (`ConfirmationHeld`), and an
approval was given for a confirmation that could be approved at that time
(`ApprovalHeld`, which does not say that it is the one held: the caller may have
started over). That each operation returns a valid confirmation is checked by
the code itself; that it leaves a way on is not, and is what `OpenWorkProceeds`
adds. `ReadinessIsOne` needs a latest time among the records, hence the lemmas of
`FiniteMaxima`; `V2IsNarrower` that a mapping decision of v2 can carry one
control, so that both formats index their rules by the same controls.

`AuthorityBundlesProofs` proves, for any sources, authorities, answers, times and
rounds:

| Theorem | Property |
|---|---|
| `PublishedValid` | `PublishedStaysValid` |
| `AcceptedOneRound` | `AcceptedIsOneRound` |
| `ApprovalCovers` | `ApprovalCoversContent` |

The invariant is that the shelf has bundles of rounds that a finalizer accepted,
and that each part of a bundle put together is the part of some round of its
version, the approval record that of the round in `approved`. The work is in the lemmas, one
group per version: what the comparisons of a validator force two rounds to share
when their parts are in one bundle. v1 has a chain of hashes with a link for each part,
v2 rebuilds the meaning but not the answers, v3 and v4 rebuild everything.

`PolicyInterpretationProofs` proves, for any policies, literals, times and limits,
and for lists of answers and decisions of any length:

| Theorem | Property |
|---|---|
| `TypeCorrect` | `TypeOK` |
| `AnswersSettle` | `AnswersSettleDisputes` |
| `AnyOrderOfAnswers` | `ResolutionOrderImmaterial` |
| `AnswersPublishable` | `AnsweredIsPublishable` |
| `DirectMeanings` | `DirectMeaningsAgree` |
| `AnyOrderOfDecisions` | `DecisionOrderImmaterial` |
| `TracksAgreed` | `TracksAgree` |

It assumes that some time can be given and that a resolution record may reference at
least one statement (`TimesAssumption`; 64 in the code). `IInv` says that the collected
resolutions are options that were offered, and that a draft is what its own decisions lead to
(`DraftHeld`); the properties follow from it by the theory of the operators. The first
part of that theory is about disputes: conflict is symmetric, so `Component` is an
equivalence on the enforced statements (`ComponentsEqual`, by the complement of a closed
set), ambiguities are disjoint (`AmbiguityShape`), and at most one record of full
answers is about a statement (`OutcomeOfAnswers`). The second is about
drafts: whether decisions are refused on the way can be seen from the whole list (`Fit`,
`ReplaysIsFit`), because what Constraint IR accepts it accepts without some of the
constraints (`FewerFit`); a permutation leaves the whole as it is. The third puts
the tracks beside each other: each enforced statement has exactly one constraint
in the draft (`DecidedRules`), a bijection made of the numbering of the open statements
(`Counting`). TLC checked `IInv` on the instance of `interpretation` before it was proved.

`SemanticProofs` proves, for any texts, clocks, subjects, amounts, labels, wordings and
roles, and for any number of decisions and commits:

| Theorem | Property |
|---|---|
| `CommitsSettled` | `CommitIsSettled` |
| `ReinterpretationsNoticed` | `ReinterpretationNoticed` |
| `DecisionsCompiled` | `DecidedIsCompiled` |
| `LostRequirementsFlagged` | `LostRequirementIsFlagged` |
| `ConditionsFlagged` | `ChangedConditionsAreFlagged` |
| `WeakeningsNotLaundered` | `WeakeningNotLaundered` |

It assumes that amounts are numbers, that a decision does not name "unspecified" as
a clock or a subject (`DecidedAssumption`), that `None` is no value of another kind
(`NoneAssumption`), and `WellFormed` of each text (`TextsAssumption`). The first assumption is
`int(resolved_value)` in `reconciliation.py:77`; the patterns give the last, which TLC
evaluates on the fifteen texts. The bounds are in guards only, and the proofs do not use them.

A decision overwrites what others decided before it, so what matters about a list of
decisions is the last one of each kind. `Decided(t, ds)` is the candidate of text
`t` with just those, in closed form, and `DecidedStep` says that one more turn of the loop
(`Normalize`) leads from the closed form of the list to that of the longer list. `IInv`
says that `normalized` is `Decided` of the text and the decisions so far, and that every version is
what its own text and decisions come to, with nothing unresolved and nothing in
conflict. It is inductive as it stands; none of the properties is, because a commit
copies what the caller has built up. TLC checked `IInv` on the instance of `semantics`
before it was proved.

`ReinterpretationsNoticed` has a condition (`NamedAlike`): in the decisions of the two
versions a field stands for one type, and a selected interpretation of a type for one value.
`SelectedDecides` derives from it that what was selected last for each field determines the
value applied last of each type. Without the condition the claim
is false of the code. `LostRequirementsFlagged` is about the requirements that
`Requirements` names; `human_in_loop_required` is not one of them, and of
a threshold that is gone it says only that the diff has it.

From `IInv` the six properties follow by what the operators compute. *Settled:* a text
that states a threshold conflicts with every other one that is decided, so the last one is the same. *Noticed:* equal
texts with equal last values have equal meanings (`Decided` reads nothing else).
*Compiled:* a capability has a copy of its own only when the candidate had
one, and then it is that copy. For the diff, `Shape(m)` is what every committed meaning has in common and the
rules of precedence depend on: an approval chain names the role that the text does, and
its flags are truth values; an execution context is one of the known ones; an emergency
posture comes with its capability; what is compared by size is a number. *Flagged:* by kind of requirement (`LostApprovals`,
`LostFlag`, `LostRole`, `LostIdentity`, `LostThreshold`, `LostContinuity`, `LostEvidence`), the change that must be in the diff, and
what that change makes unsafe. *Changed conditions:* the contraposition `SafeIsSame`, a
safe diff leaves each condition as it was. *Not laundered:* one lemma per concern of the
diff (`CapabilitySteps` to `ScopeSteps`), put together in `DiffSteps`: if an end differs from
the start, it differs in the step that changed it, and a step in the same direction has the
same class. For ordered values (counts, thresholds, windows, ranks of autonomy) that
is the argument that a sum of steps which are not downward is not downward either.

**Only model-checked:** `AttemptsEnd`, since liveness is out of the prover's reach. The
four runs that expect a violation have no theorem, of course.

## Not modelled

* Text recognition (the regular expressions of the authoring path, of the grammars
  and of `semantics/extraction.py`): a policy is what the code makes of its text, and
  the texts of `SemanticMeaning` are records of what is recognised in them.
* Hash computation: hashes are taken to be injective, so a hash of a part is the part.
* Byte spans of literals and residuals, rendered explanations, reason texts,
  display sections of a bundle, `checks.py`.
* Catalog 2.0.0, which is 3.0.0 with a development switch and other labels; the
  formats and runtime facts of domain packs.
* Reports, previews, packets, projections for display, diagnostics, replay, the
  command line, the Guard adapter: pure functions for display or dispatch.
* The registry lookup (`registry.py`: version order, latest, list): a sort of an
  index it only reads.
* Torn writes by the writers that do not use the transaction (`registry.py`,
  `runner.py`), and files edited by hand.

## Plan

Every module of the table is written, and every safety property is checked and proved.
What could be added next is listed above as not modelled; of those parts, governance
replay and the registry lookup are the ones with logic of their own.
