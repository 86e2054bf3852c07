--------------------------- MODULE MCSemanticDiff ---------------------------
(***************************************************************************)
(* Texts for SemanticDiff: two policies, and revisions of each that differ *)
(* from it in the words of one concern.                                    *)
(***************************************************************************)
EXTENDS SemanticDiff

CONSTANT signed_oracle  \* a clock that a text may name too

\* "Treasury Service transfers require approval by finance."
Plain ==
  [resource |-> "treasury", action |-> "transfer_funds", targets |-> {}, verbs |-> {},
   roles |-> <<"finance">>, roleLine |-> None, approvalOf |-> None, approvals |-> None,
   approvalWord |-> TRUE, independent |-> FALSE, separation |-> FALSE, attested |-> FALSE,
   human |-> FALSE, humanActor |-> FALSE, external |-> FALSE,
   threshold |-> None, validity |-> None, afterApproval |-> FALSE,
   clock |-> Unspecified, revalidates |-> FALSE, revocation |-> FALSE, snapshotWord |-> FALSE,
   subject |-> Unspecified, context |-> None, orchestration |-> FALSE,
   resumes |-> FALSE, deferred |-> FALSE,
   delegation |-> None, sameOperator |-> FALSE, recommendation |-> FALSE, ai |-> FALSE,
   advisory |-> FALSE, emergency |-> None, evidence |-> {}, vague |-> FALSE]

\* The same with every control that the patterns know.
Strict ==
  [Plain EXCEPT !.roles = <<"finance", "independent-reviewer">>, !.separation = TRUE,
     !.attested = TRUE, !.human = TRUE, !.threshold = 60, !.validity = 30, !.clock = signed_oracle,
     !.revalidates = TRUE, !.revocation = TRUE, !.subject = "current_policy_version",
     !.context = "queued_async", !.resumes = TRUE, !.evidence = {"approval_evidence", "replay"}]

MCTexts ==
  {Plain, Strict,
   [Plain EXCEPT !.roles = <<>>, !.approvals = 3, !.delegation = "bounded"],
   [Plain EXCEPT !.roles = <<>>, !.approvalWord = FALSE],
   [Plain EXCEPT !.roles = <<"independent-reviewer">>, !.independent = TRUE, !.threshold = 40],
   [Plain EXCEPT !.validity = 10, !.afterApproval = TRUE],
   [Plain EXCEPT !.snapshotWord = TRUE, !.emergency = 4],
   [Plain EXCEPT !.delegation = "open", !.vague = TRUE],
   [Plain EXCEPT !.ai = TRUE, !.recommendation = TRUE, !.action = None],
   [Plain EXCEPT !.deferred = TRUE, !.approvalOf = "manager", !.roles = <<>>, !.approvals = 0],
   [Strict EXCEPT !.threshold = 100, !.evidence = {"decision_trace"}],
   [Strict EXCEPT !.separation = FALSE, !.independent = TRUE, !.human = FALSE, !.revalidates = FALSE],
   [Strict EXCEPT !.revocation = FALSE, !.clock = Unspecified, !.orchestration = TRUE],
   [Strict EXCEPT !.context = "external_system_execution", !.external = TRUE, !.validity = 60,
                  !.targets = {"ledger", "payouts"}, !.verbs = {"modify"}, !.emergency = 24],
   [Strict EXCEPT !.context = "local_interactive", !.resumes = FALSE, !.sameOperator = TRUE]}

MCRoles == {"finance", "independent-reviewer"}
MCTeams == {"finance"}
MCIndependentRoles == {"independent-reviewer"}

PlainlyNamed(ds) == \A k \in DOMAIN ds : ds[k].field = ds[k].type /\ ds[k].selected = ds[k].value

\* Bound: a third version comes only where there is at most one decision in
\* all, with the names of its type and its value, so that more decisions and
\* other names are explored over two versions.
ThirdVersionIsPlain ==
  Len(versions) > 1 =>
    /\ DecisionsMade <= 1
    /\ PlainlyNamed(decisions)
    /\ \A i \in DOMAIN versions : PlainlyNamed(versions[i].decisions)
=============================================================================
