------------------------- MODULE PolicyTranslation -------------------------
(***************************************************************************)
(* From an untrusted translation of a policy to a published authority:     *)
(* proposals (policy_translation.py), what people confirm about them,      *)
(* approval, and the three finalizers, which publish authority_bundle.v2   *)
(* (domain_policy.py), .v3 (policy_translation_publication.py) and .v4     *)
(* (action_policy_publication.py).                                         *)
(*                                                                         *)
(* All artifacts are values that the caller holds and passes in again; a   *)
(* hash that binds one artifact to another is equality of what it hashes.  *)
(* The order of the records within one list of a confirmation is not kept. *)
(* An operation that raises returns nothing and is no step.                *)
(***************************************************************************)
EXTENDS PolicyRules

CONSTANTS
  Candidates,  \* what providers may hand in as proposals, valid or not
  Times,       \* what callers may give as the time of an act
  None

ASSUME TimesAssumption == Times \subseteq Nat

VARIABLES
  proposal,      \* the proposal the caller goes on with
  confirmation,  \* the last confirmation returned
  approval,      \* the last approval returned
  publication    \* what a finalizer returned; a behaviour ends with it

vars == <<proposal, confirmation, approval, publication>>

Init ==
  /\ proposal = None
  /\ confirmation = None
  /\ approval = None
  /\ publication = None

-----------------------------------------------------------------------------
(* Proposals.  A clause has the status the provider claims for it, its      *)
(* controls in order, whether it names residual unsupported spans, and its  *)
(* limitation code; "direct" is what the deterministic grammar made of the  *)
(* clause, <<>> when it is pending.                                         *)

Enforced == {"fully_represented", "partially_represented"}
Unrepresented == {"partially_represented", "entirely_unsupported"}
Statuses == Enforced \cup Unrepresented \cup {"informational"}

\* What a provider can hand in as one control, whether or not its effect and
\* its value fit its type.
CandidateControls ==
  [action : {"create", "modify"}, type : ControlTypes,
   effect : {"require", "allow", "deny"}, value : Literals \cup Bindings]

Clauses ==
  [direct : Seq(Rules), status : Statuses, controls : Seq(CandidateControls),
   residual : BOOLEAN, limitation : {"none", "connection", "other"}]

\* The functions with values in T on some part of S.
PartialOn(S, T) == UNION {[D -> T] : D \in SUBSET S}

Proposals ==
  [catalog : Catalogs, clauses : Seq(Clauses), bindings : PartialOn(Bindings, ControlTypes),
   runs : Seq([created : Nat, completed : Nat])]

ASSUME CandidatesAssumption == Candidates \subseteq Proposals

IsDirect(clause) == clause.direct # <<>>

\* The bindings among the values of a clause's controls.
BindingsOf(clause) ==
  {clause.controls[j].value : j \in DOMAIN clause.controls} \cap Bindings

ControlIds(p) ==
  UNION {{<<i, j>> : j \in DOMAIN p.clauses[i].controls} : i \in DOMAIN p.clauses}
Control(p, id) == p.clauses[id[1]].controls[id[2]]

\* A run begins when the one before it has completed.
ValidRuns(runs) ==
  /\ runs # <<>>
  /\ \A k \in DOMAIN runs : runs[k].created <= runs[k].completed
  /\ \A k \in DOMAIN runs \ {1} : runs[k - 1].completed <= runs[k].created

LastRun(p) == p.runs[Len(p.runs)].completed

ValidControl(p, c) ==
  /\ c.action \in ActionsOf(p.catalog)
  /\ c.effect \in Effects(c.type)
  /\ IF c.value \in Bindings
     THEN c.value \in DOMAIN p.bindings /\ p.bindings[c.value] = c.type
     ELSE c.value \in WellFormed[c.type]

\* What each status says about controls, residuals and limitation.
StatusFits(clause) ==
  LET limited == clause.residual /\ clause.limitation # "none"
      free == ~ clause.residual /\ clause.limitation = "none"
  IN CASE clause.status = "fully_represented"     -> clause.controls # <<>> /\ free
       [] clause.status = "partially_represented" -> clause.controls # <<>> /\ limited
       [] clause.status = "entirely_unsupported"  -> clause.controls = <<>> /\ limited
       [] OTHER                                   -> clause.controls = <<>> /\ free

\* Within a clause no control is there twice, no two differ in nothing but
\* the effect, and no two share a binding: on symbols, not on what they mean.
ValidClause(p, clause) ==
  /\ \A j \in DOMAIN clause.controls : ValidControl(p, clause.controls[j])
  /\ \A j, k \in DOMAIN clause.controls : j < k =>
       LET c == clause.controls[j]
           d == clause.controls[k]
       IN ~ SameSelector(c, d) /\ (c.value \in Bindings => c.value # d.value)
  /\ StatusFits(clause)

\* The source must have an interpretation, and a clause the grammar recognised
\* keeps exactly the meaning it has there.
FaithfulToSource(p) ==
  \A i \in DOMAIN p.clauses :
    LET clause == p.clauses[i]
    IN IF IsDirect(clause)
       THEN clause.status = "fully_represented" /\ clause.controls = clause.direct
       ELSE p.catalog # "1.0.0" => clause.controls = <<>>

\* The rules that the grammar makes of the source.
DirectIds(p) ==
  UNION {{<<i, j>> : j \in DOMAIN p.clauses[i].direct} : i \in DOMAIN p.clauses}
DirectRules(p) == [id \in DirectIds(p) |-> p.clauses[id[1]].direct[id[2]]]

ValidProposal(p) ==
  /\ ValidRuns(p.runs)
  /\ p.clauses # <<>>
  /\ DirectIds(p) # {} => IRAccepts(DirectRules(p))
  /\ \A i \in DOMAIN p.clauses : ValidClause(p, p.clauses[i])
  /\ \A i, k \in DOMAIN p.clauses : i # k =>
       BindingsOf(p.clauses[i]) \cap BindingsOf(p.clauses[k]) = {}
  /\ FaithfulToSource(p)
  /\ DOMAIN p.bindings = UNION {BindingsOf(p.clauses[i]) : i \in DOMAIN p.clauses}

-----------------------------------------------------------------------------
(* Confirmations: the answer to each binding, the time each control was     *)
(* confirmed, the decision on each clause.                                  *)

Unanswered(p) == [proposal |-> p, answers |-> <<>>, confirmed |-> <<>>, decided |-> <<>>]

Extend(f, x, y) == [z \in DOMAIN f \cup {x} |-> IF z = x THEN y ELSE f[z]]

\* The times of all the records of a confirmation.
ConfirmedAt(c) ==
  {c.answers[b].at : b \in DOMAIN c.answers}
    \cup {c.confirmed[id] : id \in DOMAIN c.confirmed}
    \cup {c.decided[i].at : i \in DOMAIN c.decided}

\* The controls of clause i that nobody has confirmed yet.
ControlsOpen(p, c, i) == {id \in ControlIds(p) : id[1] = i} \ DOMAIN c.confirmed

FitsDecision(p, i, d) ==
  /\ d.status = p.clauses[i].status
  /\ IsDirect(p.clauses[i]) => d.status = "fully_represented"
  /\ d.acknowledged <=> d.status \in Unrepresented

\* Mutant: an answer is not checked against the type of its binding.
Mutant_ValidConfirmation(p, c) ==
  /\ c.proposal = p
  /\ DOMAIN c.answers \subseteq DOMAIN p.bindings
  /\ \A t \in ConfirmedAt(c) : LastRun(p) <= t

ValidConfirmation(p, c) ==
  /\ c.proposal = p
  /\ ValidRuns(p.runs)
  /\ DOMAIN c.answers \subseteq DOMAIN p.bindings
  /\ \A b \in DOMAIN c.answers : c.answers[b].value \in WellFormed[p.bindings[b]]
  /\ DOMAIN c.confirmed \subseteq ControlIds(p)
  /\ \A id \in DOMAIN c.confirmed :
       Control(p, id).value \in Bindings => Control(p, id).value \in DOMAIN c.answers
  /\ DOMAIN c.decided \subseteq DOMAIN p.clauses
  /\ \A i \in DOMAIN c.decided :
       /\ FitsDecision(p, i, c.decided[i])
       /\ BindingsOf(p.clauses[i]) \subseteq DOMAIN c.answers
       /\ ControlsOpen(p, c, i) = {}
  /\ \A t \in ConfirmedAt(c) : LastRun(p) <= t

-----------------------------------------------------------------------------
(* Coverage, inspection and approval.                                       *)

DecidedAs(c, statuses) == {i \in DOMAIN c.decided : c.decided[i].status \in statuses}

Coverage(p, c) ==
  [openClauses   |-> Len(p.clauses) - Cardinality(DOMAIN c.decided),
   openControls  |-> Cardinality(ControlIds(p)) - Cardinality(DOMAIN c.confirmed),
   confirmed     |-> Cardinality(DOMAIN c.confirmed),
   unrepresented |-> Cardinality(DecidedAs(c, Unrepresented)),
   acknowledged  |-> Cardinality({i \in DOMAIN c.decided : c.decided[i].acknowledged})]

\* Confirmed controls, of clauses that were decided to be enforced, that grant.
AffirmativePathControls(p, c) ==
  {id \in DOMAIN c.confirmed : /\ id[1] \in DecidedAs(c, Enforced)
                               /\ Grants(Control(p, id))}

\* Mutant: inspection does not look for a grant.
Mutant_PublicationReady(p, c) ==
  /\ Coverage(p, c).openClauses = 0
  /\ Coverage(p, c).openControls = 0
  /\ Coverage(p, c).confirmed > 0

\* What inspect_policy_translation_proposal reports as publication_ready.
PublicationReady(p, c) ==
  /\ Coverage(p, c).openClauses = 0
  /\ Coverage(p, c).openControls = 0
  /\ Coverage(p, c).confirmed > 0
  /\ p.catalog = "1.0.0" => AffirmativePathControls(p, c) # {}

\* How inspect_policy_translation_customer_coverage shows clause i to a customer.
CustomerState(p, c, i) ==
  LET clause == p.clauses[i]
  IN CASE i \in DOMAIN c.decided -> c.decided[i].status
       [] i \notin DOMAIN c.decided /\ clause.limitation = "connection" -> "needs_a_connection"
       [] i \notin DOMAIN c.decided /\ clause.limitation # "connection" ->
            IF BindingsOf(clause) \subseteq DOMAIN c.answers /\ ControlsOpen(p, c, i) = {}
            THEN clause.status
            ELSE "needs_an_answer"

Waiting(p, c) ==
  {i \in DOMAIN p.clauses :
     CustomerState(p, c, i) \in {"needs_a_connection", "needs_an_answer"}}

\* An approval given at time t comes after every run and every confirmation.
InTimeFor(p, c, t) ==
  /\ \A k \in DOMAIN p.runs : p.runs[k].completed <= t
  /\ \A s \in ConfirmedAt(c) : s <= t

Approvable(p, c, t) ==
  /\ ValidProposal(p) /\ ValidConfirmation(p, c)
  /\ Coverage(p, c).openClauses = 0
  /\ Coverage(p, c).openControls = 0
  /\ Coverage(p, c).confirmed # 0
  /\ Coverage(p, c).unrepresented = Coverage(p, c).acknowledged
  /\ p.catalog = "1.0.0" => AffirmativePathControls(p, c) # {}
  /\ InTimeFor(p, c, t)

\* Mutant: the coverage is bound, the confirmation it was counted from is not.
Mutant_ValidApproval(p, c, a) ==
  /\ a.confirmation.proposal = p
  /\ Coverage(p, a.confirmation) = Coverage(p, c)
  /\ InTimeFor(p, c, a.at)

\* An approval is for one confirmation, and through it for one proposal.
ValidApproval(p, c, a) ==
  /\ a.confirmation = c
  /\ InTimeFor(p, c, a.at)

-----------------------------------------------------------------------------
(* Publication.  Every finalizer starts from the three artifacts.           *)

Presented(p, c, a) ==
  /\ ValidProposal(p)
  /\ ValidConfirmation(p, c)
  /\ ValidApproval(p, c, a)

\* Mutant: the commit is not compared with the approval.
Mutant_InOrder(a, committed, published) == committed <= published

InOrder(a, committed, published) == a.at <= committed /\ committed <= published

Meaning(clause, c) ==
  [j \in DOMAIN clause.controls |-> Rule(clause.controls[j], c.answers)]

\* authority_bundle.v2 replays the approval as decisions on the statements of
\* the source: first what the grammar makes of it, then one mapping decision
\* for each pending clause.
MappedIds(p) == {id \in ControlIds(p) : ~ IsDirect(p.clauses[id[1]])}

V2Rules(p, c) ==
  [id \in DirectIds(p) \cup MappedIds(p) |->
     IF id \in DirectIds(p) THEN DirectRules(p)[id] ELSE Rule(Control(p, id), c.answers)]

V2Representable(clause, c) ==
  IF IsDirect(clause)
  THEN Meaning(clause, c) = clause.direct
  ELSE clause.status # "partially_represented" /\ Len(clause.controls) <= 1

\* Mutant: the rules are lowered without the check for conflicts.
Mutant_V2Accepts(p, c, a, committed, published) ==
  /\ p.catalog = "1.0.0"
  /\ Presented(p, c, a)
  /\ \A i \in DOMAIN p.clauses : V2Representable(p.clauses[i], c)
  /\ IRAccepts(V2Rules(p, c))
  /\ InOrder(a, committed, published)
  /\ HasGrant(V2Rules(p, c))

V2Accepts(p, c, a, committed, published) ==
  /\ p.catalog = "1.0.0"
  /\ Presented(p, c, a)
  /\ \A i \in DOMAIN p.clauses : V2Representable(p.clauses[i], c)
  /\ IRAccepts(V2Rules(p, c))
  /\ \A i \in DOMAIN c.decided : ~ IsDirect(p.clauses[i]) => c.decided[i].at <= a.at
  /\ InOrder(a, committed, published)
  /\ ~ Conflicting(V2Rules(p, c))
  /\ HasGrant(V2Rules(p, c))

\* The commitment that v3 and v4 publish: the controls of every clause with
\* their answers and confirmations, the residuals with their acknowledgment.
CommittedRules(p, c) ==
  [id \in ControlIds(p) |-> Rule(Control(p, id), c.answers)]

\* Mutant: a clause with residual meaning is refused, as by authority_bundle.v2.
Mutant_CommittedClause(p, c, a, i) == ~ p.clauses[i].residual

CommittedClause(p, c, a, i) ==
  LET clause == p.clauses[i]
      d == c.decided[i]
  IN /\ d.acknowledged <=> d.status \in Unrepresented
     /\ StatusFits([clause EXCEPT !.status = d.status])
     /\ clause.residual => d.acknowledged
     /\ \A j \in DOMAIN clause.controls :
          /\ ValidControl(p, clause.controls[j])
          /\ c.confirmed[<<i, j>>] <= a.at
     /\ d.at <= a.at
     /\ p.catalog = "1.0.0" => ~ Conflicting(Meaning(clause, c))
     /\ IsDirect(clause) =>
          d.status = "fully_represented" /\ Meaning(clause, c) = clause.direct
     /\ ~ IsDirect(clause) /\ p.catalog # "1.0.0" => clause.controls = <<>>

ValidCommitment(p, c, a) ==
  /\ \A b \in DOMAIN c.answers : c.answers[b].at <= a.at
  /\ \A i \in DOMAIN p.clauses : CommittedClause(p, c, a, i)
  /\ UNION {BindingsOf(p.clauses[i]) : i \in DOMAIN p.clauses} = DOMAIN c.answers
  /\ IF p.catalog = "1.0.0"
     THEN ~ Conflicting(CommittedRules(p, c))
     ELSE ActionPolicyAccepts(CommittedRules(p, c))

V3Accepts(p, c, a, committed, published) ==
  /\ p.catalog = "1.0.0"
  /\ Presented(p, c, a)
  /\ ValidCommitment(p, c, a)
  /\ IRAccepts(CommittedRules(p, c))
  /\ HasGrant(CommittedRules(p, c))
  /\ InOrder(a, committed, published)

\* Only v4 asks that no control was confirmed after its clause was decided.
ConfirmedBeforeDecided(c) ==
  \A id \in DOMAIN c.confirmed : c.confirmed[id] <= c.decided[id[1]].at

V4Accepts(p, c, a, committed, published) ==
  /\ p.catalog # "1.0.0"
  /\ Presented(p, c, a)
  /\ ValidCommitment(p, c, a)
  /\ ConfirmedBeforeDecided(c)
  /\ IRAccepts(CommittedRules(p, c))
  /\ InOrder(a, committed, published)
-----------------------------------------------------------------------------
(* The operations.  Each takes a proposal and the confirmation made so far, *)
(* None for a new one, validates both and returns the next confirmation.    *)

Held == confirmation # None /\ ValidConfirmation(proposal, confirmation)

Given ==
  {Unanswered(proposal)} \cup IF Held THEN {confirmation} ELSE {}

\* Mutant: a second answer takes the place of the first.
Mutant_CanResolve(p, c, b) == b \in DOMAIN p.bindings

CanResolve(p, c, b) == b \in DOMAIN p.bindings \ DOMAIN c.answers

\* Mutant: a control is confirmed only once its clause has been decided.
Mutant_CanConfirm(p, c, id) ==
  /\ id \in ControlIds(p) \ DOMAIN c.confirmed
  /\ id[1] \in DOMAIN c.decided

CanConfirm(p, c, id) ==
  /\ id \in ControlIds(p) \ DOMAIN c.confirmed
  /\ Control(p, id).value \in Bindings => Control(p, id).value \in DOMAIN c.answers

CanDecide(p, c, i, d) ==
  /\ i \in DOMAIN p.clauses \ DOMAIN c.decided
  /\ FitsDecision(p, i, d)
  /\ BindingsOf(p.clauses[i]) \subseteq DOMAIN c.answers
  /\ ControlsOpen(p, c, i) = {}

Resolved(c, b, value, t) ==
  [c EXCEPT !.answers = Extend(c.answers, b, [value |-> value, at |-> t])]
Confirmed(c, id, t) == [c EXCEPT !.confirmed = Extend(c.confirmed, id, t)]
Decided(c, i, d) == [c EXCEPT !.decided = Extend(c.decided, i, d)]

DecisionsAt(t) == [status : Statuses, acknowledged : BOOLEAN, at : {t}]

\* The caller goes on with what it holds or with another proposal; whatever it
\* has of the one before stays in its hands.
Propose(p) ==
  /\ publication = None
  /\ ValidProposal(p)
  /\ proposal' = p
  /\ UNCHANGED <<confirmation, approval, publication>>

Return(c) ==
  /\ ValidConfirmation(proposal, c)
  /\ confirmation' = c
  /\ UNCHANGED <<proposal, approval, publication>>

Working == publication = None /\ proposal # None

ResolveBinding(b, value, t) ==
  /\ Working
  /\ \E c \in Given : CanResolve(proposal, c, b) /\ Return(Resolved(c, b, value, t))

ConfirmControl(id, t) ==
  /\ Working
  /\ \E c \in Given : CanConfirm(proposal, c, id) /\ Return(Confirmed(c, id, t))

DecideClause(i, d) ==
  /\ Working
  /\ \E c \in Given : CanDecide(proposal, c, i, d) /\ Return(Decided(c, i, d))

Approve(t) ==
  /\ Working /\ Held
  /\ Approvable(proposal, confirmation, t)
  /\ approval' = [confirmation |-> confirmation, at |-> t]
  /\ UNCHANGED <<proposal, confirmation, publication>>

Publish(version, rules, committed, published) ==
  /\ publication' = [version |-> version, confirmation |-> confirmation,
                     approval |-> approval, rules |-> rules,
                     committed |-> committed, published |-> published]
  /\ UNCHANGED <<proposal, confirmation, approval>>

FinalizeV2(committed, published) ==
  /\ Working /\ approval # None
  /\ V2Accepts(proposal, confirmation, approval, committed, published)
  /\ Publish("v2", V2Rules(proposal, confirmation), committed, published)

FinalizeV3(committed, published) ==
  /\ Working /\ approval # None
  /\ V3Accepts(proposal, confirmation, approval, committed, published)
  /\ Publish("v3", CommittedRules(proposal, confirmation), committed, published)

FinalizeV4(committed, published) ==
  /\ Working /\ approval # None
  /\ V4Accepts(proposal, confirmation, approval, committed, published)
  /\ Publish("v4", CommittedRules(proposal, confirmation), committed, published)

Next ==
  \/ \E p \in Candidates : Propose(p)
  \/ \E b \in Bindings, value \in Literals, t \in Times : ResolveBinding(b, value, t)
  \/ \E id \in UNION {ControlIds(p) : p \in Candidates}, t \in Times : ConfirmControl(id, t)
  \/ \E i \in UNION {DOMAIN p.clauses : p \in Candidates}, t \in Times :
       \E d \in DecisionsAt(t) : DecideClause(i, d)
  \/ \E t \in Times : Approve(t)
  \/ \E committed, published \in Times :
       \/ FinalizeV2(committed, published)
       \/ FinalizeV3(committed, published)
       \/ FinalizeV4(committed, published)

Spec == Init /\ [][Next]_vars

-----------------------------------------------------------------------------
(* Properties.                                                             *)

Confirmations(p) ==
  [proposal  : {p},
   answers   : PartialOn(DOMAIN p.bindings, [value : Literals, at : Times]),
   confirmed : PartialOn(ControlIds(p), Times),
   decided   : PartialOn(DOMAIN p.clauses,
                         [status : Statuses, acknowledged : BOOLEAN, at : Times])]

ConfirmationOK(c) ==
  /\ c.proposal \in Candidates
  /\ c \in Confirmations(c.proposal)
  /\ \A b \in DOMAIN c.answers : c.answers[b].value \in WellFormed[c.proposal.bindings[b]]

\* What the caller holds is what the operations return: an answer, for one,
\* is a value of its binding's type (_validate_binding_value).
TypeOK ==
  /\ proposal \in Candidates \cup {None}
  /\ confirmation # None => ConfirmationOK(confirmation)
  /\ approval # None => ConfirmationOK(approval.confirmation) /\ approval.at \in Times
  /\ publication # None =>
       /\ publication.version \in {"v2", "v3", "v4"}
       /\ publication.rules \in PartialOn(ControlIds(publication.confirmation.proposal), Rules)
       /\ {publication.committed, publication.published} \subseteq Times

\* The finalizers take three artifacts that the caller may have from different
\* rounds of work.  What they publish is the meaning of the controls that were
\* each confirmed, with the answers given, in the confirmation that was
\* approved: nothing else, nothing missing, nothing twice, and never a rule
\* together with its opposite.
PublishedMeaningWasConfirmed ==
  publication # None =>
    LET c == publication.confirmation
        p == c.proposal
        rules == publication.rules
    IN /\ publication.approval.confirmation = c
       /\ DOMAIN c.confirmed = ControlIds(p)
       /\ DOMAIN c.decided = DOMAIN p.clauses
       /\ rules = [id \in DOMAIN c.confirmed |-> Rule(Control(p, id), c.answers)]
       /\ HasGrant(rules)
       /\ \A i, j \in DOMAIN rules : i # j /\ IsPathRule(rules[i]) =>
            ~ SameSelector(rules[i], rules[j])

\* The last translation run, the confirmations, the approval, the commit and
\* the publication happened in this order, whichever finalizer checked it.
PublishedInOrder ==
  publication # None =>
    LET c == publication.confirmation
    IN /\ \A t \in ConfirmedAt(c) :
            LastRun(c.proposal) <= t /\ t <= publication.approval.at
       /\ publication.approval.at <= publication.committed
       /\ publication.committed <= publication.published

\* Three readings of one confirmation agree: publication_ready of the
\* inspection says exactly whether approve_policy_translation_proposal accepts,
\* at some time, what is held, and then the customer view has no clause waiting.
ReadinessAgrees ==
  Held =>
    /\ PublicationReady(proposal, confirmation)
         <=> \E t \in Times : Approvable(proposal, confirmation, t)
    /\ PublicationReady(proposal, confirmation) => Waiting(proposal, confirmation) = {}

\* No order of the operations leads to a confirmation with open work in which
\* no operation is accepted any more.
WorkCanProceed ==
  Held /\ (\/ Coverage(proposal, confirmation).openClauses > 0
           \/ Coverage(proposal, confirmation).openControls > 0) =>
    \E t \in Times :
      \/ \E b \in Bindings : /\ CanResolve(proposal, confirmation, b)
                            /\ \E value \in Literals : ValidConfirmation(proposal,
                                 Resolved(confirmation, b, value, t))
      \/ \E id \in ControlIds(proposal) :
           /\ CanConfirm(proposal, confirmation, id)
           /\ ValidConfirmation(proposal, Confirmed(confirmation, id, t))
      \/ \E i \in DOMAIN proposal.clauses, d \in DecisionsAt(t) :
           /\ CanDecide(proposal, confirmation, i, d)
           /\ ValidConfirmation(proposal, Decided(confirmation, i, d))

\* The artifacts are held together and the approval is for this confirmation.
Approved == Held /\ approval # None /\ Presented(proposal, confirmation, approval)

\* authority_bundle.v2 is the narrower format: what its finalizer accepts the
\* v3 finalizer accepts too, and publishes as the same rules.
V2AgreesWithV3 ==
  Approved => \A committed, published \in Times :
    V2Accepts(proposal, confirmation, approval, committed, published) =>
      /\ V3Accepts(proposal, confirmation, approval, committed, published)
      /\ V2Rules(proposal, confirmation) = CommittedRules(proposal, confirmation)

\* What an approval leaves undecided.  Under the historical catalog an approved
\* confirmation can be published (as v3) unless its rules are in conflict; under
\* the action catalog (as v4) unless the rules of an action conflict, nothing is
\* granted, or a control was confirmed after its clause was decided.
ApprovedIsPublishable ==
  Approved =>
    LET rules == CommittedRules(proposal, confirmation)
        v3 == \E s, t \in Times : V3Accepts(proposal, confirmation, approval, s, t)
        v4 == \E s, t \in Times : V4Accepts(proposal, confirmation, approval, s, t)
    IN IF proposal.catalog = "1.0.0"
       THEN v3 <=> ~ Conflicting(rules)
       ELSE v4 <=> /\ ActionPolicyAccepts(rules) /\ IRAccepts(rules)
                   /\ ConfirmedBeforeDecided(confirmation)

Keeps(c, d) ==
  LET kept(f, g) == DOMAIN f \subseteq DOMAIN g /\ \A x \in DOMAIN f : g[x] = f[x]
  IN kept(c.answers, d.answers) /\ kept(c.confirmed, d.confirmed) /\ kept(c.decided, d.decided)

\* A confirmation with a single record: the caller began a new one.
StartedOver(c) ==
  Cardinality(DOMAIN c.answers) + Cardinality(DOMAIN c.confirmed)
    + Cardinality(DOMAIN c.decided) = 1

\* An answer, a confirmation of a control and a decision are final: a later
\* confirmation has them all, unless the caller starts over.  A control stays
\* confirmed with the meaning that was shown to the person who confirmed it.
RecordsAreFinal ==
  [][confirmation # None =>
       StartedOver(confirmation') \/ Keeps(confirmation, confirmation')]_confirmation
=============================================================================
