-------------------------- MODULE SemanticMeaning --------------------------
(***************************************************************************)
(* From policy text to a compiled contract (governance_ledger/semantics):  *)
(* a fixed set of patterns extracts a candidate meaning and its            *)
(* ambiguities, an operator answers the ambiguities with interpretation    *)
(* decisions, the reconciliation of both is committed when it is complete, *)
(* and the commit is compiled.  Each commit is a version of the authority. *)
(*                                                                         *)
(* A text is a record of what the patterns recognise in it.  A field of    *)
(* the code that may be None, "" or {} is None here.                       *)
(***************************************************************************)
EXTENDS Integers, Sequences, FiniteSets, SequencesExt

CONSTANTS
  Texts,            \* the policy texts
  Clocks,           \* timestamp sources that a decision may name
  Subjects,         \* snapshot subjects that a decision may name
  Amounts,          \* thresholds that a decision may name
  Labels,           \* fields that a caller may name instead of that of the type
  Wordings,         \* interpretations that a caller may name instead of the value
  Roles,            \* roles that a text may name
  Teams,            \* roles that are a team
  IndependentRoles, \* roles with "independent" in the name
  MaxDecisions,     \* bound: decisions over all reconciliations
  MaxVersions,      \* bound: commits
  None

Unspecified == "unspecified"
AiModification == "ai_assisted_operational_modification"

ASSUME BoundsAssumption == MaxDecisions \in Nat /\ MaxVersions \in Nat
ASSUME DecidedAssumption ==
  /\ Unspecified \notin Clocks \cup Subjects
  /\ Amounts \subseteq Int

\* The contexts in which an action may be executed, and where that usually is.
Boundary ==
  [queued_async |-> "external_worker", scheduled_execution |-> "scheduler",
   external_system_execution |-> "external_system", local_interactive |-> "local_process",
   human_approval_chain |-> "human_review", multi_stage_workflow |-> "agent_orchestrator",
   agent_orchestrated |-> "agent_orchestrator", cloud_attested_execution |-> "cloud_attestation",
   resumed_workflow |-> "external_worker"]

Contexts == DOMAIN Boundary

ASSUME NoneAssumption ==
  /\ None \notin BOOLEAN
  /\ None \notin Contexts
  /\ None \notin Clocks \cup Subjects
  /\ None \notin Amounts \cup Wordings
  /\ None \notin [source : Clocks, window : Nat \cup {None}]
  /\ None \notin [required : BOOLEAN]

\* The evidence terms that speak of replay even for a local execution.
ReplayTerms == {"replay_attestation", "cryptographically_linked_replay_evidence"}

\* What is recognised in one text, and what it implies of its other words.
WellFormed(t) ==
  /\ {t.independent, t.separation, t.attested, t.external} \subseteq BOOLEAN
  /\ t.roles \in Seq(Roles)
  /\ {t.approvals, t.threshold, t.validity} \subseteq Nat \cup {None}
  /\ t.recommendation => t.ai
  /\ t.humanActor => t.human
  /\ t.context = "resumed_workflow" => t.resumes
  /\ t.orchestration => t.context = "queued_async"
  /\ t.context = "human_approval_chain" \/ "approval_evidence" \in t.evidence => t.approvalWord
  /\ t.evidence \cap ReplayTerms # {} => "replay" \in t.evidence
  /\ t.context \in {None} \cup Contexts

ASSUME TextsAssumption == \A t \in Texts : WellFormed(t)

VARIABLES
  text,       \* the text that is interpreted now, or None
  decisions,  \* the operator's interpretation decisions about it
  normalized, \* the candidate meaning of the text, each decision applied, or None
  versions    \* the commits: the text, the decisions and the meaning

vars == <<text, decisions, normalized, versions>>

-----------------------------------------------------------------------------
(* Extraction.                                                             *)

\* A number that the code takes for true.
Positive(n) == n \notin {None, 0}

Role(t) == IF t.roles # <<>> THEN t.roles[1] ELSE t.roleLine

\* Two roles are two approvals, whatever number the text says.
ApprovalCount(t) ==
  IF Len(t.roles) > 1 THEN Len(t.roles)
  ELSE IF t.approvals # None THEN t.approvals
  ELSE IF t.approvalWord THEN 1 ELSE None

Temporal(t) ==
  IF t.validity = None /\ ~t.afterApproval THEN None
  ELSE [source |-> t.clock, window |-> t.validity]

Snapshot(t) ==
  IF ~(t.revalidates \/ t.revocation \/ t.snapshotWord) THEN None
  ELSE [subject |-> t.subject,
        comparison |-> IF t.subject = "original_governance_snapshot_hash"
                       THEN "original_hash" ELSE "active_state"]

ExecutionContext(t) ==
  IF t.context = None THEN None
  ELSE
    LET resumable == t.context = "resumed_workflow" \/ t.resumes IN
    [context |-> t.context,
     boundary |-> IF t.orchestration THEN "external_orchestration_system" ELSE Boundary[t.context],
     replay |-> t.context # "local_interactive" \/ t.evidence \cap ReplayTerms # {},
     snapshot |-> resumable \/ t.context \in {"queued_async", "scheduled_execution", "multi_stage_workflow"},
     temporal |-> t.context \in {"queued_async", "scheduled_execution",
                                 "external_system_execution", "cloud_attested_execution"},
     resume |-> resumable]

DelegationPosture(t) ==
  CASE t.delegation = None -> "not_allowed"
    [] t.delegation = "bounded" -> "allowed_with_boundary"
    [] OTHER -> "ambiguous"

ActorNamed(t) == IF Role(t) # None THEN Role(t) ELSE t.approvalOf

ActorType(t, actor) ==
  IF t.recommendation THEN "agent"
  ELSE IF t.external THEN "external_party"
  ELSE IF actor \in Teams THEN "team"
  ELSE "human_role"

GovernanceActor(t) ==
  LET actor == IF ActorNamed(t) # None THEN ActorNamed(t)
               ELSE IF t.humanActor THEN "human-operator" ELSE None IN
  IF actor = None THEN None
  ELSE [actor |-> actor, type |-> ActorType(t, actor), scope |-> {t.action},
        delegates |-> DelegationPosture(t) = "allowed_with_boundary",
        attested |-> t.attested, continuity |-> t.revalidates \/ t.sameOperator]

RoleBinding(t) ==
  IF ActorNamed(t) = None THEN None
  ELSE [role |-> ActorNamed(t), delegation |-> DelegationPosture(t)]

ApprovalChain(t) ==
  IF Role(t) = None /\ ApprovalCount(t) = None /\ ~t.approvalWord /\ ~t.independent THEN None
  ELSE
    LET independence == t.independent \/ t.separation IN
    [count |-> ApprovalCount(t),
     roles |-> IF t.roles # <<>> THEN ToSet(t.roles) ELSE {Role(t)} \ {None},
     independence |-> independence,
     noSelfApproval |-> t.separation,
     independentActors |-> IF independence THEN {Role(t)} \ ({None} \cup IndependentRoles) ELSE {},
     delegation |-> DelegationPosture(t),
     attested |-> t.attested,
     human |-> t.human,
     ai |-> IF t.recommendation \/ t.advisory THEN "advisory_only" ELSE "not_present"]

IdentityContinuity(t) ==
  IF t.revalidates \/ t.sameOperator \/ (t.context # None /\ t.resumes)
  THEN [required |-> TRUE] ELSE None

AiBoundary(t) ==
  IF ~t.ai THEN None
  ELSE [posture |-> IF t.advisory THEN "advisory_only" ELSE "operator_review_required"]

EmergencyDelegation(t) ==
  IF t.emergency = None THEN None
  ELSE [posture |-> "temporary_emergency_override", window |-> t.emergency]

GovernedOperations(t) ==
  t.verbs \cup (IF t.resumes THEN {"resume"} ELSE {})
    \cup (IF t.approvalWord THEN {"approve"} ELSE {})
    \cup (IF t.delegation # None \/ t.emergency # None THEN {"delegate"} ELSE {})
    \cup ({t.action} \ {None})

MutationClasses(t) ==
  (IF t.ai THEN {AiModification} ELSE {})
    \cup (IF t.revalidates \/ t.resumes \/ t.snapshotWord THEN {"continuity_sensitive_execution"} ELSE {})
    \cup (IF t.emergency # None THEN {"emergency_delegated_remediation"} ELSE {})
    \cup (IF t.recommendation THEN {"ai_recommendation_advisory_boundary"} ELSE {})
    \cup ({t.action} \ {None})

Candidate(t) ==
  [resource |-> t.resource, action |-> t.action,
   targets |-> IF t.targets # {} THEN t.targets ELSE {t.resource} \ {None},
   operations |-> GovernedOperations(t), mutations |-> MutationClasses(t),
   role |-> Role(t), count |-> ApprovalCount(t), threshold |-> t.threshold,
   temporal |-> Temporal(t), revalidates |-> t.revalidates, revocation |-> t.revocation,
   snapshot |-> Snapshot(t), execution |-> ExecutionContext(t),
   actor |-> GovernanceActor(t), binding |-> RoleBinding(t), chain |-> ApprovalChain(t),
   identity |-> IdentityContinuity(t), ai |-> AiBoundary(t),
   emergency |-> EmergencyDelegation(t)]

AmbiguityTypes ==
  <<"ambiguous_governance_language", "partial_continuity_language",
    "timestamp_source_unspecified", "state_snapshot_subject_unspecified",
    "execution_context_ambiguity", "approval_independence_ambiguity", "delegation_ambiguity">>

\* The ambiguities of a text, in the order in which they are looked for.
Ambiguities(t) ==
  LET temporal == Temporal(t)
      snapshot == Snapshot(t)
      chain == ApprovalChain(t)
      raised == [ambiguous_governance_language |-> t.vague,
                 partial_continuity_language |-> t.revalidates /\ ~t.revocation,
                 timestamp_source_unspecified |->
                   temporal # None /\ t.validity # None /\ t.clock = Unspecified,
                 state_snapshot_subject_unspecified |-> snapshot # None /\ t.subject = Unspecified,
                 execution_context_ambiguity |-> t.deferred /\ t.context = None,
                 approval_independence_ambiguity |->
                   chain # None /\ (t.independent \/ t.separation) /\ chain.independentActors = {},
                 delegation_ambiguity |-> chain # None /\ DelegationPosture(t) = "ambiguous"]
  IN SelectSeq(AmbiguityTypes, LAMBDA a : raised[a])

-----------------------------------------------------------------------------
(* Capabilities: what the candidate says of each kind of action.  They are *)
(* made of the candidate, before there is any decision.                    *)

CapabilityContinuity(c) ==
  IF ~c.revalidates /\ ~c.revocation /\ c.snapshot = None THEN None
  ELSE [revalidates |-> c.revalidates, revocation |-> c.revocation, snapshot |-> c.snapshot]

ExecutionConstraints(c) ==
  IF c.execution = None /\ c.temporal = None THEN None
  ELSE [execution |-> c.execution, temporal |-> c.temporal]

IdentityRequirements(c) ==
  [actor |-> c.actor, binding |-> c.binding, chain |-> c.chain, identity |-> c.identity]

ApprovalEvidence(evidence) == evidence \cup {"approval_evidence"}

ReplayEvidence(evidence) ==
  evidence \cup (IF "replay" \in evidence THEN {} ELSE {"replay_evidence"})

PrimaryRequirements(c, evidence) ==
  (IF Positive(c.threshold) THEN {"escalation_threshold"} ELSE {})
    \cup (IF c.role # None \/ Positive(c.count) THEN {"approval_requirement"} ELSE {})
    \cup (IF evidence # {} THEN {"evidence_requirement"} ELSE {})

CandidateDelegation(c) ==
  IF c.chain # None THEN c.chain.delegation
  ELSE IF c.binding # None THEN c.binding.delegation
  ELSE None

\* A capability is a kind of action on the governed action.
CapabilityIds(c) ==
  LET resumes == c.revalidates \/ c.snapshot # None
      ids == [execute |-> TRUE,
              approve |-> c.role # None \/ Positive(c.count),
              recommend |-> c.ai # None,
              resume |-> resumes,
              resumeAi |-> resumes /\ c.ai # None,
              delegate |-> CandidateDelegation(c) \notin {None, "not_allowed"},
              emergency |-> c.emergency # None]
      named == {"execute", "approve", "resume"}
  IN {<<kind, IF kind \in named THEN c.action ELSE None>> : kind \in {k \in DOMAIN ids : ids[k]}}
       \cup (IF c.ai # None THEN {<<"execute", AiModification>>} ELSE {})

Capability(c, evidence, kind) ==
  LET primary == kind = "execute"
      resumed == kind \in {"resume", "resumeAi"}
  IN [requirements |-> IF primary THEN PrimaryRequirements(c, evidence) ELSE {kind},
      threshold |-> IF primary /\ Positive(c.threshold) THEN c.threshold ELSE None,
      continuity |-> IF primary \/ resumed THEN CapabilityContinuity(c) ELSE None,
      evidence |-> CASE primary -> evidence
                     [] resumed -> ReplayEvidence(evidence)
                     [] kind = "approve" -> ApprovalEvidence(evidence)
                     [] kind = "recommend" -> {}
                     [] OTHER -> {"attested_delegation_evidence"},
      constraints |-> IF primary \/ resumed \/ kind = "emergency"
                      THEN ExecutionConstraints(c) ELSE None,
      identity |-> IdentityRequirements(c)]

Capabilities(c, evidence) == [id \in CapabilityIds(c) |-> Capability(c, evidence, id[1])]

Extraction(t) ==
  [candidate |-> Candidate(t),
   capabilities |-> Capabilities(Candidate(t), t.evidence),
   ambiguities |-> Ambiguities(t)]

-----------------------------------------------------------------------------
(* Reconciliation.  An ambiguity is known by its place among the           *)
(* ambiguities of the text, and any decision that names it answers it.     *)
(* The value of a decision is applied to the meaning, by its type; what it *)
(* selected is compared with other reconciliations, by its field.          *)

DecisionTypes == {"threshold", "timestamp_source", "snapshot_subject", "clarification"}

\* The field is that of the type and the selected interpretation is the
\* value, unless the caller names another.
DecisionsOf(type, values, about) ==
  {d \in [type : {type}, value : values, field : {type} \cup Labels,
          selected : values \cup Wordings, about : about] :
     d.selected \in {d.value} \cup Wordings}

Decisions(ambiguities) ==
  LET about == {None} \cup DOMAIN ambiguities IN
    DecisionsOf("threshold", Amounts, about)
      \cup DecisionsOf("timestamp_source", Clocks, about)
      \cup DecisionsOf("snapshot_subject", Subjects, about)
      \cup DecisionsOf("clarification", {None}, DOMAIN ambiguities)

\* Mutant: a source that the text names is kept.
Mutant_Normalize(m, d) ==
  CASE d.type = "threshold" -> [m EXCEPT !.threshold = d.value]
    [] d.type = "timestamp_source" /\ (m.temporal = None \/ m.temporal.source = Unspecified) ->
         [m EXCEPT !.temporal = [source |-> d.value,
                                 window |-> IF m.temporal = None THEN None ELSE m.temporal.window]]
    [] d.type = "snapshot_subject" ->
         [m EXCEPT !.snapshot = [subject |-> d.value, comparison |-> "active_state"]]
    [] OTHER -> m

Normalize(m, d) ==
  CASE d.type = "threshold" -> [m EXCEPT !.threshold = d.value]
    [] d.type = "timestamp_source" ->
         [m EXCEPT !.temporal = [source |-> d.value,
                                 window |-> IF m.temporal = None THEN None ELSE m.temporal.window]]
    [] d.type = "snapshot_subject" ->
         [m EXCEPT !.snapshot = [subject |-> d.value, comparison |-> "active_state"]]
    [] OTHER -> m

Unresolved(ambiguities, ds) ==
  {i \in DOMAIN ambiguities : \A k \in DOMAIN ds : ds[k].about # i}

\* Mutant: a decision that answers an ambiguity is not compared with the text.
Mutant_Conflicts(c, ds) ==
  {k \in DOMAIN ds : /\ ds[k].type = "threshold" /\ ds[k].about = None
                     /\ c.threshold \notin {None, ds[k].value}}

\* Only a threshold is compared with what was extracted.
Conflicts(c, ds) ==
  {k \in DOMAIN ds : ds[k].type = "threshold" /\ c.threshold \notin {None, ds[k].value}}

\* The list of decisions only grows, so its effect is kept as it grows.
Reconciliation(t, ds, applied) ==
  LET e == Extraction(t) IN
  [unresolved |-> Unresolved(e.ambiguities, ds),
   conflicts |-> Conflicts(e.candidate, ds),
   meaning |-> [authority |-> applied, capabilities |-> e.capabilities]]

\* _require_complete_reconciliation
Complete(r) == r.unresolved = {} /\ r.conflicts = {}

-----------------------------------------------------------------------------
(* Compilation.  cap is a capability, or None for the authority itself; a  *)
(* capability's own copy comes before what the authority says.             *)

CompileApproval(c, cap) ==
  LET chain == IF cap # None /\ cap.identity.chain # None THEN cap.identity.chain ELSE c.chain IN
  IF chain = None
  THEN [count |-> c.count, roles |-> {c.role} \ {None}, independence |-> FALSE,
        noSelfApproval |-> FALSE, attested |-> FALSE, human |-> FALSE]
  ELSE [count |-> IF Positive(chain.count) THEN chain.count ELSE c.count,
        roles |-> chain.roles, independence |-> chain.independence,
        noSelfApproval |-> chain.noSelfApproval, attested |-> chain.attested, human |-> chain.human]

CompileContinuity(c, cap) ==
  LET own == IF cap = None THEN None ELSE cap.continuity IN
  [revalidates |-> IF own = None THEN c.revalidates ELSE own.revalidates,
   revocation |-> IF own = None THEN c.revocation ELSE own.revocation,
   snapshot |-> IF own # None /\ own.snapshot # None THEN own.snapshot ELSE c.snapshot,
   identity |-> c.identity # None]

CompileObligations(c, evidence) ==
  evidence
    \cup (IF c.execution # None /\ c.execution.replay THEN {"replay_evidence"} ELSE {})
    \cup (IF c.snapshot # None THEN {"state_snapshot_evidence"} ELSE {})

CompileThreshold(c, cap) ==
  IF cap # None /\ cap.threshold # None THEN cap.threshold ELSE c.threshold

\* The emergency posture comes before that of the approval chain.
CompileDelegation(c) ==
  LET posture == IF c.emergency # None THEN c.emergency.posture
                 ELSE IF CandidateDelegation(c) # None THEN CandidateDelegation(c)
                 ELSE "not_allowed" IN
  [posture |-> posture, allowed |-> posture \notin {"not_allowed", "ambiguous"},
   window |-> IF c.emergency = None THEN None ELSE c.emergency.window]

CompileExecution(c, cap) ==
  LET own == IF cap = None THEN None ELSE cap.constraints IN
  [execution |-> IF own # None /\ own.execution # None THEN own.execution ELSE c.execution,
   temporal |-> IF own # None /\ own.temporal # None THEN own.temporal ELSE c.temporal]

CompileCapability(c, cap) ==
  [approval |-> CompileApproval(c, cap), threshold |-> CompileThreshold(c, cap),
   continuity |-> CompileContinuity(c, cap),
   obligations |-> CompileObligations(c, cap.evidence),
   execution |-> CompileExecution(c, cap)]

Evidence(m) == UNION {m.capabilities[id].evidence : id \in DOMAIN m.capabilities}

\* replay_obligations of the commit.
CommitObligations(m) == CompileObligations(m.authority, Evidence(m))

\* A compiled capability has no evidence_requirements, so the obligations of
\* the contract are those that the authority has without its capabilities.
Compile(m) ==
  LET c == m.authority IN
  [capabilities |-> [id \in DOMAIN m.capabilities |-> CompileCapability(c, m.capabilities[id])],
   targets |-> c.targets, operations |-> c.operations, mutations |-> c.mutations,
   approval |-> CompileApproval(c, None), continuity |-> CompileContinuity(c, None),
   obligations |-> CompileObligations(c, {}), threshold |-> CompileThreshold(c, None),
   delegation |-> CompileDelegation(c), execution |-> CompileExecution(c, None)]

\* required_runtime_conditions of the execution projection.
RuntimeConditions(contract) ==
  LET snapshot == contract.continuity.snapshot # None
      holds ==
        [replay_evidence |-> contract.obligations # {},
         continuity_snapshot |-> snapshot,
         continuity_validation |->
           contract.continuity.revalidates \/ contract.continuity.revocation \/ snapshot,
         approval_evidence |-> Positive(contract.approval.count),
         independent_approval |-> contract.approval.independence,
         attested_acknowledgment |-> contract.approval.attested,
         delegation_evidence |-> contract.delegation.allowed,
         temporal_validation |->
           contract.execution.temporal # None /\ contract.execution.temporal.window # None]
  IN {condition \in DOMAIN holds : holds[condition]}

-----------------------------------------------------------------------------
(* Comparing two interpretations.                                          *)

LastPlace(places) == CHOOSE k \in places : \A j \in places : j <= k

\* _decisions_by_field: the last decision of each field.
Selected(ds, field) ==
  LET places == {k \in DOMAIN ds : ds[k].field = field} IN
  IF places = {} THEN None ELSE ds[LastPlace(places)].selected

DecisionFields == DecisionTypes \cup Labels

\* Mutant: a field that was not decided before has not changed.
Mutant_DecisionChanges(p, c) ==
  {f \in DecisionFields : Selected(p.decisions, f) \notin {None, Selected(c.decisions, f)}}

DecisionChanges(p, c) ==
  {f \in DecisionFields : Selected(p.decisions, f) # Selected(c.decisions, f)}

\* Extraction is deterministic: only another text can have another meaning.
StabilityPosture(p, c) ==
  LET sameSourceDrift == p.text = c.text /\ Extraction(p.text) # Extraction(c.text) IN
  IF sameSourceDrift \/ DecisionChanges(p, c) # {} THEN "semantic_drift_detected" ELSE "stable"

-----------------------------------------------------------------------------
Init == text = None /\ decisions = <<>> /\ normalized = None /\ versions = <<>>

\* extract_governance_semantics, for a text of the next version.
Extract(t) ==
  /\ text = None
  /\ Len(versions) < MaxVersions
  /\ text' = t
  /\ normalized' = Candidate(t)
  /\ UNCHANGED <<decisions, versions>>

DecisionsMade == FoldLeft(LAMBDA n, v : n + Len(v.decisions), Len(decisions), versions)

\* build_semantic_interpretation_decision, and its turn in the loop of the
\* reconciliation.
Decide(d) ==
  /\ text # None
  /\ DecisionsMade < MaxDecisions
  /\ decisions' = Append(decisions, d)
  /\ normalized' = Normalize(normalized, d)
  /\ UNCHANGED <<text, versions>>

\* The next text starts without decisions.
Start == text' = None /\ decisions' = <<>> /\ normalized' = None

\* build_semantic_commit_bundle
Commit ==
  LET r == Reconciliation(text, decisions, normalized) IN
  /\ text # None
  /\ Complete(r)
  /\ versions' = Append(versions, [text |-> text, decisions |-> decisions, meaning |-> r.meaning])
  /\ Start

\* A reconciliation that cannot be committed is left.
Abandon ==
  /\ text # None
  /\ Start
  /\ UNCHANGED versions

Next ==
  \/ \E t \in Texts : Extract(t)
  \/ text # None /\ \E d \in Decisions(Ambiguities(text)) : Decide(d)
  \/ Commit
  \/ Abandon

Spec == Init /\ [][Next]_vars

-----------------------------------------------------------------------------
(* Properties.                                                             *)

\* Versions are only added, so that every version is the newest one at some
\* commit; that is when it is judged, and compared with those before it.
Committed == text = None /\ versions # <<>>

Newest == Len(versions)

\* A committed meaning is settled: someone answered each ambiguity of its
\* text, and no decision changed a threshold that the text states
\* (_require_complete_reconciliation over _semantic_conflicts; the decisions
\* were applied to the meaning before anyone looked for a conflict).
CommitIsSettled ==
  Committed =>
    LET v == versions[Newest] IN
    /\ Unresolved(Ambiguities(v.text), v.decisions) = {}
    /\ v.text.threshold # None => CompileThreshold(v.meaning.authority, None) = v.text.threshold

\* The value that was applied last, of the decisions of one type.
DecidedValue(ds, type) ==
  LET places == {k \in DOMAIN ds : ds[k].type = type} IN
  IF places = {} THEN None ELSE ds[LastPlace(places)].value

\* The callers name what they decide alike: one field for one type, and one
\* value for one interpretation of it.
NamedAlike(p, c) ==
  LET made == ToSet(p.decisions) \cup ToSet(c.decisions) IN
  \A d, e \in made :
    /\ d.field = e.field <=> d.type = e.type
    /\ d.type = e.type /\ d.selected = e.selected => d.value = e.value

\* The earlier versions of the text of the newest whose contract is another.
Reinterpreted ==
  {i \in 1 .. Newest - 1 :
     /\ versions[i].text = versions[Newest].text
     /\ Compile(versions[i].meaning) # Compile(versions[Newest].meaning)}

DriftNoticed(i) == StabilityPosture(versions[i], versions[Newest]) = "semantic_drift_detected"

\* When the same text is committed again with a contract that requires
\* something else, the stability projection of the two says so, if their
\* decisions are named alike (build_semantic_stability_projection compares
\* what the last decision of each field selected, the reconciliation applies
\* the values of all of them in turn, by their types).
ReinterpretationNoticed ==
  Committed =>
    \A i \in Reinterpreted : NamedAlike(versions[i], versions[Newest]) => DriftNoticed(i)

\* What was decided of time and of snapshots is what the contract says of the
\* authority.  A capability says otherwise only where it kept the copy of the
\* text that was made for it before there was any decision (the compiler
\* prefers that copy, _compile_execution_constraints and
\* _compile_continuity_requirements).
DecidedIsCompiled ==
  Committed =>
    LET v == versions[Newest]
        contract == Compile(v.meaning)
        clock == DecidedValue(v.decisions, "timestamp_source")
        subject == DecidedValue(v.decisions, "snapshot_subject")
        caps == {contract.capabilities[id] : id \in DOMAIN contract.capabilities}
    IN /\ clock # None =>
            /\ contract.execution.temporal.source = clock
            /\ \A cap \in caps :
                 cap.execution.temporal.source = clock \/ cap.execution.temporal = Temporal(v.text)
       /\ subject # None =>
            /\ contract.continuity.snapshot.subject = subject
            /\ \A cap \in caps :
                 cap.continuity.snapshot.subject = subject \/ cap.continuity.snapshot = Snapshot(v.text)
=============================================================================
