---------------------------- MODULE SemanticDiff ----------------------------
(***************************************************************************)
(* The operational diff of two committed meanings and what it says of the  *)
(* executions, approvals and evidence of the earlier one                   *)
(* (governance_ledger/semantics/diffing.py and lifecycle_enforcement.py).  *)
(* It is composed with SemanticMeaning: the versions that are compared are *)
(* those that were committed there, and what the diff reports is compared  *)
(* with the contracts that were compiled from them.                        *)
(*                                                                         *)
(* A change is [class, path, lost, obliges]: lost are the members of       *)
(* before that are not in after (of sets only), obliges whether Guard has  *)
(* something new to enforce.                                               *)
(***************************************************************************)
EXTENDS SemanticMeaning

Change(class, path, lost, obliges) ==
  [class |-> class, path |-> path, lost |-> lost, obliges |-> obliges]

\* float(value), and 0 for what is no number.
Number(value) == IF value = None THEN 0 ELSE value

Field(r, f) == IF r = None THEN None ELSE r[f]

-----------------------------------------------------------------------------
(* semantic_authority_diff.v1: p and c are the previous and the current    *)
(* meaning.                                                                *)

\* What both versions have is not compared, but for its evidence.
CapabilityChanges(p, c) ==
  LET before == DOMAIN p.capabilities
      after == DOMAIN c.capabilities
      obliges(id) == \/ c.capabilities[id].requirements # {}
                     \/ /\ c.capabilities[id].continuity # None
                        /\ c.authority.revalidates \/ c.authority.snapshot # None
                     \/ c.capabilities[id].evidence # {}
  IN {Change("capability_added", <<"capabilities", id>>, {}, obliges(id)) : id \in after \ before}
       \cup {Change("capability_removed", <<"capabilities", id>>, {}, FALSE) : id \in before \ after}

ApprovalCount_(a) == IF a.chain = None THEN a.count ELSE a.chain.count

ApprovalRoles(a) == ({a.role} \ {None}) \cup (IF a.chain = None THEN {} ELSE a.chain.roles)

ApprovalFields == {"independence", "noSelfApproval", "attested"}

ApprovalChange(path, strengthened) ==
  Change(IF strengthened THEN "approval_strengthened" ELSE "approval_weakened",
         <<"approval", path>>, {}, strengthened)

ApprovalChanges(p, c) ==
  LET changed == {f \in ApprovalFields : Field(p.chain, f) # Field(c.chain, f)}
      roles == ApprovalRoles(p) # ApprovalRoles(c)
      count == ApprovalCount_(p) # ApprovalCount_(c)
  IN (IF count
      THEN {ApprovalChange("count", Number(ApprovalCount_(c)) > Number(ApprovalCount_(p)))} ELSE {})
       \cup (IF roles THEN {Change("identity_change", <<"approval", "roles">>, {}, TRUE)} ELSE {})
       \cup {ApprovalChange(f, Field(c.chain, f) = TRUE) : f \in changed}

\* The posture of the approval chain hides that of the AI boundary, which has
\* no field of the name that is read.
AiPosture(a) == IF a.chain = None THEN "not_present" ELSE a.chain.ai

AiAutonomyRank(posture) == IF posture = "not_present" THEN 0 ELSE 1

AiAutonomyChanges(p, c) ==
  LET expanded == AiAutonomyRank(AiPosture(c)) > AiAutonomyRank(AiPosture(p)) IN
  IF AiPosture(p) = AiPosture(c) THEN {}
  ELSE {Change(IF expanded THEN "relaxed_control" ELSE "tightened_control",
               <<"ai", "autonomy">>, {}, expanded)}

ContinuityChanges(p, c) ==
  {Change("continuity_change", <<"continuity", f>>, {}, c[f]) :
     f \in {g \in {"revalidates", "revocation"} : p[g] # c[g]}}
    \cup (IF p.snapshot = c.snapshot THEN {}
          ELSE {Change("continuity_change", <<"continuity", "snapshot">>, {}, c.snapshot # None)})

\* The evidence of all capabilities.
ReplayChanges(p, c) ==
  LET before == Evidence(p)
      after == Evidence(c)
  IN IF before = after THEN {}
     ELSE {Change("replay_change", <<"replay", "obligations">>, before \ after, after \ before # {})}

\* Mutant: a threshold may grow to its double without being reported.
Mutant_EscalationChanges(p, c) ==
  IF p.threshold = c.threshold \/ Number(c.threshold) \in Number(p.threshold) .. 2 * Number(p.threshold)
  THEN {}
  ELSE {Change(IF Number(c.threshold) < Number(p.threshold)
               THEN "tightened_control" ELSE "relaxed_control",
               <<"escalation", "threshold">>, {}, c.threshold # None)}

\* An absent threshold counts as 0, the lowest.
EscalationChanges(p, c) ==
  IF p.threshold = c.threshold THEN {}
  ELSE {Change(IF Number(c.threshold) < Number(p.threshold)
               THEN "tightened_control" ELSE "relaxed_control",
               <<"escalation", "threshold">>, {}, c.threshold # None)}

ExecutionBoundaryChanges(p, c) ==
  {Change(IF f = "context" THEN "scope_expansion" ELSE "continuity_change",
          <<"execution", f>>, {}, TRUE) :
     f \in {g \in {"context", "boundary", "replay", "snapshot", "temporal", "resume"} :
              Field(p.execution, g) # Field(c.execution, g)}}

\* What identity continuity requires comes before what the actor does.
IdentityField(a, f) ==
  IF f = "continuity" /\ a.identity # None THEN a.identity.required ELSE Field(a.actor, f)

IdentityChanges(p, c) ==
  {Change("identity_change", <<"identity", f>>, {}, TRUE) :
     f \in {g \in {"actor", "type", "scope", "attested", "continuity"} :
              IdentityField(p, g) # IdentityField(c, g)}}

\* The emergency posture comes last here.
DiffDelegation(a) ==
  IF CandidateDelegation(a) # None THEN CandidateDelegation(a)
  ELSE IF a.emergency # None THEN "emergency_delegation"
  ELSE "not_allowed"

DelegationRank(posture) ==
  CASE posture = "not_allowed" -> 0
    [] posture = "ambiguous" -> 1
    [] posture = "allowed_with_boundary" -> 2
    [] OTHER -> 3

DelegationChanges(p, c) ==
  IF DiffDelegation(p) = DiffDelegation(c) THEN {}
  ELSE {Change("delegation_change", <<"delegation", "posture">>, {},
               DelegationRank(DiffDelegation(c)) > DelegationRank(DiffDelegation(p)))}

\* No window counts as one of no length.
ValidityWindowChanges(p, c) ==
  LET before == Field(p.temporal, "window")
      after == Field(c.temporal, "window")
  IN IF before = after THEN {}
     ELSE {Change(IF Number(after) > Number(before) THEN "relaxed_control" ELSE "tightened_control",
                  <<"temporal", "validity_window">>, {}, TRUE)}

ScopeField(a, f) == IF f = "mutation_targets" THEN {a.action} ELSE a[f]

ScopeChanges(p, c) ==
  {LET added == ScopeField(c, f) \ ScopeField(p, f)
       removed == ScopeField(p, f) \ ScopeField(c, f)
   IN Change(CASE removed = {} -> "scope_expansion"
               [] added = {} -> "scope_reduction"
               [] OTHER -> "scope_change", <<"scope", f>>, removed, added # {}) :
     f \in {g \in {"targets", "operations", "mutations", "mutation_targets"} :
              ScopeField(p, g) # ScopeField(c, g)}}

Diff(previous, current) ==
  LET p == previous.authority
      c == current.authority
  IN UNION {CapabilityChanges(previous, current), ApprovalChanges(p, c), AiAutonomyChanges(p, c),
            ContinuityChanges(p, c), ReplayChanges(previous, current), EscalationChanges(p, c),
            ExecutionBoundaryChanges(p, c), IdentityChanges(p, c), DelegationChanges(p, c),
            ValidityWindowChanges(p, c), ScopeChanges(p, c)}

-----------------------------------------------------------------------------
(* semantic_lifecycle_enforcement_projection.v1                            *)

\* Mutant: not when some other evidence takes its place.
Mutant_EvidenceRemoved(change) ==
  change.class = "replay_change" /\ change.lost # {} /\ ~change.obliges

EvidenceRemoved(change) == change.class = "replay_change" /\ change.lost # {}

BoundaryChanged(change) == change.path[1] = "execution" \/ change.class = "scope_expansion"

AutonomyWidened(change) == change.path = <<"ai", "autonomy">> /\ change.class = "relaxed_control"

ContinuityImpact(change) ==
  CASE change.class = "continuity_change" -> "revalidation_required"
    [] change.class = "replay_change" ->
         IF EvidenceRemoved(change) THEN "replay_continuity_degraded" ELSE "replay_continuity_expanded"
    [] change.class = "capability_removed" -> "prior_execution_lineage_required"
    [] change.class = "approval_weakened" -> "approval_evidence_may_be_stale"
    [] change.class = "delegation_change" -> "delegated_authority_boundary_changed"
    [] change.class \in {"scope_expansion", "relaxed_control"} -> "execution_boundary_review_required"
    [] change.class \in {"approval_strengthened", "identity_change"} ->
         "authority_evidence_revalidation_required"
    [] OTHER -> "none"

Admissibility(change) ==
  CASE change.class = "continuity_change" -> "resumed_workflows_require_revalidation"
    [] change.class = "approval_weakened" -> "prior_approval_evidence_needs_review"
    [] change.class = "approval_strengthened" -> "approval_evidence_may_be_insufficient"
    [] EvidenceRemoved(change) -> "replay_evidence_obligations_removed"
    [] change.class = "capability_removed" -> "removed_capability_not_admissible"
    [] change.class = "delegation_change" -> "delegation_evidence_requires_boundary_review"
    [] AutonomyWidened(change) -> "ai_autonomy_scope_widened"
    [] change.class = "scope_expansion" -> "execution_boundary_expanded"
    [] change.class = "identity_change" -> "identity_continuity_requires_revalidation"
    [] OTHER -> "no_admissibility_change_projected"

UnsafeObservations(change) ==
  LET observed ==
        [resumed_workflow_no_longer_admissible |-> change.class = "continuity_change",
         approval_requirements_weakened |-> change.class = "approval_weakened",
         approval_evidence_stale |-> change.class = "approval_strengthened",
         evidence_obligations_removed |-> EvidenceRemoved(change),
         delegated_authority_boundary_changed |-> change.class = "delegation_change",
         ai_autonomy_scope_widened |-> AutonomyWidened(change),
         execution_boundary_expanded |-> BoundaryChanged(change),
         identity_continuity_broken |-> change.class = "identity_change",
         removed_capability_reliance |-> change.class = "capability_removed"]
  IN {o \in DOMAIN observed : observed[o]}

\* Some changes come with a warning about replay.
ReplayWarning(change) ==
  \/ change.class \in {"capability_added", "capability_removed", "replay_change", "delegation_change"}
  \/ change.path[1] \in {"continuity", "ai"}

ReplayPosture(diff) ==
  LET impacts == {ContinuityImpact(change) : change \in diff} IN
  IF "replay_continuity_degraded" \in impacts THEN "invalidated"
  ELSE IF impacts \cap {"revalidation_required", "prior_execution_lineage_required"} # {}
  THEN "revalidation_required"
  ELSE IF \E change \in diff : ReplayWarning(change) THEN "review_required" ELSE "stable"

AdmissibilityPosture(diff) ==
  LET observations == {Admissibility(change) : change \in diff}
                        \ {"no_admissibility_change_projected"} IN
  IF observations \cap {"replay_evidence_obligations_removed", "ai_autonomy_scope_widened"} # {}
  THEN "potentially_weakened"
  ELSE IF observations # {} THEN "changed" ELSE "unchanged"

\* Mutant: obligations that are not new are not looked at.
Mutant_GuardPosture(diff) == AdmissibilityPosture(diff)

GuardPosture(diff) ==
  IF (\E change \in diff : change.obliges) \/ AdmissibilityPosture(diff) # "unchanged"
  THEN "changed" ELSE "unchanged"

\* what_becomes_unsafe_now
UnsafeNow(diff) ==
  (UNION {UnsafeObservations(change) : change \in diff})
    \cup (IF ReplayPosture(diff) = "invalidated" THEN {"replay_continuity_invalidated"} ELSE {})
    \cup (IF GuardPosture(diff) = "changed" THEN {"guard_policy_projection_changed"} ELSE {})

-----------------------------------------------------------------------------
(* Properties.                                                             *)

\* What the contract, and the evidence its commit asks for, requires of people
\* and of resumed executions, and whether it has a threshold of escalation.
\* Left out is human_in_loop_required, which the contract carries and the diff
\* does not compare (_approval_changes names the fields that it compares).
Requirements(m) ==
  LET contract == Compile(m)
      approval == contract.approval
      continuity == contract.continuity
      flags == [independence |-> approval.independence, noSelfApproval |-> approval.noSelfApproval,
                attested |-> approval.attested, revalidates |-> continuity.revalidates,
                revocation |-> continuity.revocation, snapshot |-> continuity.snapshot # None,
                identity |-> continuity.identity, escalation |-> contract.threshold # None]
  IN {<<"approvals", n>> : n \in 1 .. Number(approval.count)}
       \cup {<<"role", r>> : r \in approval.roles}
       \cup {<<"evidence", o>> : o \in CommitObligations(m)}
       \cup {<<f, TRUE>> : f \in {g \in DOMAIN flags : flags[g]}}

\* Where the projections must speak of a requirement that was dropped.  Of a
\* threshold only the diff does, and as a control that was tightened.
Flagged(requirement, diff) ==
  CASE requirement[1] \in {"approvals", "independence", "noSelfApproval", "attested"} ->
         "approval_requirements_weakened" \in UnsafeNow(diff)
    [] requirement[1] \in {"revalidates", "revocation", "snapshot"} ->
         "resumed_workflow_no_longer_admissible" \in UnsafeNow(diff)
    [] requirement[1] \in {"role", "identity"} -> "identity_continuity_broken" \in UnsafeNow(diff)
    [] requirement[1] = "evidence" -> ReplayPosture(diff) \in {"invalidated", "revalidation_required"}
    [] requirement[1] = "escalation" -> \E change \in diff : change.path = <<"escalation", "threshold">>

\* The diff of a version with the one before it.
StepDiff(i) == Diff(versions[i - 1].meaning, versions[i].meaning)

\* No version drops one of these requirements of the one before it
\* unnoticed: the enforcement projection names the approvals, resumptions,
\* roles, identities or evidence that the earlier version would no longer
\* vouch for, and the diff a threshold that is gone.  That a human is in the
\* loop is not among them.  The contract comes from compiler.py, the flag
\* from diffing.py and lifecycle_enforcement.py, which read the meaning with
\* precedence rules of their own.
LostRequirementIsFlagged ==
  Committed /\ Newest > 1 =>
    \A r \in Requirements(versions[Newest - 1].meaning) \ Requirements(versions[Newest].meaning) :
      Flagged(r, StepDiff(Newest))

\* When the conditions that an execution would have to meet are not those of
\* the version before (execution_projection.py), something is unsafe now.
ChangedConditionsAreFlagged ==
  Committed /\ Newest > 1 =>
    LET conditions(i) == RuntimeConditions(Compile(versions[i].meaning)) IN
    conditions(Newest - 1) # conditions(Newest) => UnsafeNow(StepDiff(Newest)) # {}

\* A control cannot be relaxed by way of a version in between: what the diff
\* of the first and the third version reports of a path, a step reports too.
WeakeningNotLaundered ==
  Committed /\ Newest > 2 =>
    LET steps == StepDiff(Newest - 1) \cup StepDiff(Newest) IN
    \A change \in Diff(versions[Newest - 2].meaning, versions[Newest].meaning) :
      LET same == {s \in steps : s.path = change.path} IN
      /\ same # {}
      /\ change.lost \subseteq UNION {s.lost : s \in same}
      /\ change.path[1] # "scope" => change.class \in {s.class : s \in same}
=============================================================================
