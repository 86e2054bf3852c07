----------------------- MODULE PolicyTranslationProofs -----------------------
(***************************************************************************)
(* Theorems about the translation of a policy: for any proposals that have *)
(* the shape of one, any literals, bindings and times.                     *)
(***************************************************************************)
EXTENDS PolicyTranslation, FiniteMaxima, TLAPS

-----------------------------------------------------------------------------
(* The inductive invariant: what the caller holds has passed the checks of *)
(* the operation that returned it, whatever it is put together with later. *)

ProposalHeld == proposal # None => ValidProposal(proposal)

(* A confirmation has a record: that is how it came to be.                 *)
ConfirmationHeld ==
  confirmation # None =>
    /\ ValidProposal(confirmation.proposal)
    /\ ValidConfirmation(confirmation.proposal, confirmation)
    /\ ConfirmedAt(confirmation) # {}

ApprovalHeld ==
  approval # None =>
    Approvable(approval.confirmation.proposal, approval.confirmation, approval.at)

IInv ==
  /\ TypeOK
  /\ ProposalHeld
  /\ ConfirmationHeld
  /\ ApprovalHeld
  /\ PublishedMeaningWasConfirmed
  /\ PublishedInOrder

-----------------------------------------------------------------------------
(* Functions on a part of a set.                                           *)

LEMMA PartialElim ==
  ASSUME NEW S, NEW T, NEW f \in PartialOn(S, T)
  PROVE  /\ f \in [DOMAIN f -> T]
         /\ DOMAIN f \subseteq S
         /\ \A x \in DOMAIN f : f[x] \in T
BY DEF PartialOn

LEMMA PartialIntro ==
  ASSUME NEW S, NEW T, NEW D \in SUBSET S, NEW f \in [D -> T]
  PROVE  f \in PartialOn(S, T)
BY DEF PartialOn

LEMMA EmptyPartial ==
  ASSUME NEW S, NEW T
  PROVE  <<>> \in PartialOn(S, T) /\ DOMAIN <<>> = {}
<1>1. DOMAIN <<>> = {}
  OBVIOUS
<1>2. <<>> = [x \in {} |-> x]
  OBVIOUS
<1>3. [x \in {} |-> x] \in [{} -> T]
  OBVIOUS
<1> QED
  BY <1>1, <1>2, <1>3 DEF PartialOn

LEMMA ExtendFacts ==
  ASSUME NEW f, NEW x, NEW y
  PROVE  /\ DOMAIN Extend(f, x, y) = DOMAIN f \cup {x}
         /\ Extend(f, x, y)[x] = y
         /\ \A z \in DOMAIN f : z # x => Extend(f, x, y)[z] = f[z]
BY DEF Extend

LEMMA ExtendPartial ==
  ASSUME NEW S, NEW T, NEW f \in PartialOn(S, T), NEW x \in S, NEW y \in T
  PROVE  Extend(f, x, y) \in PartialOn(S, T)
<1>1. Extend(f, x, y) \in [DOMAIN f \cup {x} -> T]
  BY PartialElim DEF Extend
<1>2. DOMAIN f \cup {x} \in SUBSET S
  BY PartialElim
<1> QED
  BY <1>1, <1>2, PartialIntro

-----------------------------------------------------------------------------
(* Proposals and the identities of their controls.                         *)

LEMMA ProposalShape ==
  ASSUME NEW p \in Candidates
  PROVE  /\ p \in Proposals
         /\ p.clauses \in Seq(Clauses)
         /\ p.catalog \in Catalogs
         /\ p.bindings \in [DOMAIN p.bindings -> ControlTypes]
         /\ DOMAIN p.bindings \subseteq Bindings
         /\ p.runs \in Seq([created : Nat, completed : Nat])
<1>1. p \in Proposals
  BY CandidatesAssumption
<1>2. p.bindings \in PartialOn(Bindings, ControlTypes)
  BY <1>1 DEF Proposals
<1> QED
  BY <1>1, <1>2, PartialElim DEF Proposals

LEMMA ClauseShape ==
  ASSUME NEW p \in Candidates, NEW i \in DOMAIN p.clauses
  PROVE  /\ p.clauses[i] \in Clauses
         /\ p.clauses[i].controls \in Seq(CandidateControls)
         /\ p.clauses[i].direct \in Seq(Rules)
         /\ p.clauses[i].status \in Statuses
         /\ i \in Nat
<1>1. p.clauses \in Seq(Clauses)
  BY ProposalShape
<1>2. p.clauses[i] \in Clauses /\ i \in Nat
  BY <1>1
<1> QED
  BY <1>2 DEF Clauses

LEMMA ControlIdFacts ==
  ASSUME NEW p \in Candidates
  PROVE  /\ \A id \in ControlIds(p) :
              /\ id = <<id[1], id[2]>>
              /\ id[1] \in DOMAIN p.clauses
              /\ id[2] \in DOMAIN p.clauses[id[1]].controls
              /\ Control(p, id) \in CandidateControls
         /\ \A i \in DOMAIN p.clauses : \A j \in DOMAIN p.clauses[i].controls :
              /\ <<i, j>> \in ControlIds(p)
              /\ Control(p, <<i, j>>) = p.clauses[i].controls[j]
<1>1. ASSUME NEW id \in ControlIds(p)
      PROVE  /\ id = <<id[1], id[2]>>
             /\ id[1] \in DOMAIN p.clauses
             /\ id[2] \in DOMAIN p.clauses[id[1]].controls
             /\ Control(p, id) \in CandidateControls
  <2>1. PICK i \in DOMAIN p.clauses : id \in {<<i, j>> : j \in DOMAIN p.clauses[i].controls}
    BY DEF ControlIds
  <2>2. PICK j \in DOMAIN p.clauses[i].controls : id = <<i, j>>
    BY <2>1
  <2>3. p.clauses[i].controls \in Seq(CandidateControls)
    BY ClauseShape
  <2>4. p.clauses[i].controls[j] \in CandidateControls
    BY <2>3
  <2> QED
    BY <2>2, <2>4 DEF Control
<1>2. ASSUME NEW i \in DOMAIN p.clauses, NEW j \in DOMAIN p.clauses[i].controls
      PROVE  /\ <<i, j>> \in ControlIds(p)
             /\ Control(p, <<i, j>>) = p.clauses[i].controls[j]
  <2>1. <<i, j>> \in {<<i, k>> : k \in DOMAIN p.clauses[i].controls}
    OBVIOUS
  <2>2. <<i, j>> \in ControlIds(p)
    BY <2>1 DEF ControlIds
  <2> QED
    BY <2>2 DEF Control
<1> QED
  BY <1>1, <1>2

LEMMA FiniteIds ==
  ASSUME NEW p \in Candidates
  PROVE  /\ IsFiniteSet(ControlIds(p))
         /\ IsFiniteSet(DOMAIN p.clauses)
         /\ Cardinality(DOMAIN p.clauses) = Len(p.clauses)
<1> DEFINE I == DOMAIN p.clauses
           IdsOf == [i \in I |-> {<<i, j>> : j \in DOMAIN p.clauses[i].controls}]
           All == {IdsOf[i] : i \in I}
<1>1. I = 1 .. Len(p.clauses) /\ Len(p.clauses) \in Nat
  BY ProposalShape
<1>2. IsFiniteSet(I) /\ Cardinality(I) = Len(p.clauses)
  BY <1>1, FS_Interval
<1>3. IdsOf \in Surjection(I, All)
  BY DEF Surjection
<1>4. IsFiniteSet(All)
  <2> HIDE DEF I, IdsOf, All
  <2> QED BY <1>2, <1>3, FS_Surjection
<1>5. \A T \in All : IsFiniteSet(T)
  <2> SUFFICES ASSUME NEW i \in I PROVE IsFiniteSet(IdsOf[i])
    OBVIOUS
  <2> DEFINE J == DOMAIN p.clauses[i].controls
  <2>1. J = 1 .. Len(p.clauses[i].controls) /\ Len(p.clauses[i].controls) \in Nat
    BY ClauseShape
  <2>2. IsFiniteSet(J)
    BY <2>1, FS_Interval
  <2>3. IsFiniteSet({i} \X J)
    <3> HIDE DEF J
    <3> QED BY <2>2, FS_Singleton, FS_Product
  <2>4. IdsOf[i] = {i} \X J
    OBVIOUS
  <2> QED
    BY <2>3, <2>4
<1>6. ControlIds(p) = UNION All
  BY DEF ControlIds
<1>7. IsFiniteSet(UNION All)
  <2> HIDE DEF All
  <2> QED BY <1>4, <1>5, FS_UNION
<1> QED
  BY <1>2, <1>6, <1>7

-----------------------------------------------------------------------------
(* Type correctness.                                                       *)

Answers == [value : Literals, at : Times]
Answerings(p) == PartialOn(DOMAIN p.bindings, Answers)
Confirmings(p) == PartialOn(ControlIds(p), Times)
Decisions == [status : Statuses, acknowledged : BOOLEAN, at : Times]
Decidings(p) == PartialOn(DOMAIN p.clauses, Decisions)

LEMMA ConfirmationShape ==
  ASSUME NEW c, ConfirmationOK(c)
  PROVE  /\ c = [proposal |-> c.proposal, answers |-> c.answers,
                 confirmed |-> c.confirmed, decided |-> c.decided]
         /\ c.proposal \in Candidates
         /\ c.answers \in Answerings(c.proposal)
         /\ c.confirmed \in Confirmings(c.proposal)
         /\ c.decided \in Decidings(c.proposal)
BY DEF ConfirmationOK, Confirmations, Answers, Answerings, Confirmings, Decisions, Decidings

LEMMA ConfirmationIntro ==
  ASSUME NEW p, NEW a \in Answerings(p), NEW f \in Confirmings(p), NEW g \in Decidings(p)
  PROVE  [proposal |-> p, answers |-> a, confirmed |-> f, decided |-> g] \in Confirmations(p)
BY DEF Confirmations, Answers, Answerings, Confirmings, Decisions, Decidings

LEMMA RecordsShape ==
  ASSUME NEW c, ConfirmationOK(c)
  PROVE  /\ DOMAIN c.answers \subseteq DOMAIN c.proposal.bindings
         /\ \A b \in DOMAIN c.answers : c.answers[b] \in Answers
         /\ DOMAIN c.confirmed \subseteq ControlIds(c.proposal)
         /\ \A id \in DOMAIN c.confirmed : c.confirmed[id] \in Times
         /\ DOMAIN c.decided \subseteq DOMAIN c.proposal.clauses
         /\ \A i \in DOMAIN c.decided : c.decided[i] \in Decisions
<1>1. /\ c.answers \in PartialOn(DOMAIN c.proposal.bindings, Answers)
      /\ c.confirmed \in PartialOn(ControlIds(c.proposal), Times)
      /\ c.decided \in PartialOn(DOMAIN c.proposal.clauses, Decisions)
  BY ConfirmationShape DEF Answerings, Confirmings, Decidings
<1>2. /\ DOMAIN c.answers \subseteq DOMAIN c.proposal.bindings
      /\ \A b \in DOMAIN c.answers : c.answers[b] \in Answers
  BY <1>1, PartialElim
<1>3. /\ DOMAIN c.confirmed \subseteq ControlIds(c.proposal)
      /\ \A id \in DOMAIN c.confirmed : c.confirmed[id] \in Times
  BY <1>1, PartialElim
<1>4. /\ DOMAIN c.decided \subseteq DOMAIN c.proposal.clauses
      /\ \A i \in DOMAIN c.decided : c.decided[i] \in Decisions
  BY <1>1, PartialElim
<1> QED
  BY <1>2, <1>3, <1>4

(* What an operation returns is again a confirmation.                      *)
LEMMA GivenOK ==
  ASSUME IInv, Working, NEW c \in Given
  PROVE  c.proposal = proposal /\ ConfirmationOK(c)
<1>0. proposal \in Candidates
  BY DEF IInv, TypeOK, Working
<1>1. CASE c = Unanswered(proposal)
  <2>1. c = [proposal |-> proposal, answers |-> <<>>, confirmed |-> <<>>, decided |-> <<>>]
    BY <1>1 DEF Unanswered
  <2>2. c \in Confirmations(proposal)
    BY <2>1, EmptyPartial DEF Confirmations
  <2>3. DOMAIN c.answers = {}
    BY <2>1, EmptyPartial
  <2> QED
    BY <1>0, <2>1, <2>2, <2>3 DEF ConfirmationOK
<1>2. CASE Held /\ c = confirmation
  BY <1>2 DEF IInv, TypeOK, Held, ValidConfirmation
<1> QED
  BY <1>1, <1>2 DEF Given

LEMMA ResolvedOK ==
  ASSUME NEW c, ConfirmationOK(c), NEW b \in DOMAIN c.proposal.bindings,
         NEW value \in Literals, NEW t \in Times,
         ValidConfirmation(c.proposal, Resolved(c, b, value, t))
  PROVE  ConfirmationOK(Resolved(c, b, value, t))
<1> DEFINE d == Resolved(c, b, value, t)
<1>1. d = [proposal |-> c.proposal,
           answers |-> Extend(c.answers, b, [value |-> value, at |-> t]),
           confirmed |-> c.confirmed, decided |-> c.decided]
  BY ConfirmationShape DEF Resolved
<1>2. Extend(c.answers, b, [value |-> value, at |-> t]) \in Answerings(c.proposal)
  BY ConfirmationShape, ExtendPartial DEF Answers, Answerings
<1>3. d \in Confirmations(c.proposal)
  BY <1>1, <1>2, ConfirmationShape, ConfirmationIntro
<1>4. \A a \in DOMAIN d.answers : d.answers[a].value \in WellFormed[c.proposal.bindings[a]]
  BY DEF ValidConfirmation
<1>5. d.proposal = c.proposal
  BY <1>1
<1>6. ConfirmationOK(d)
  <2> HIDE DEF d
  <2> QED BY <1>3, <1>4, <1>5, ConfirmationShape DEF ConfirmationOK
<1> QED
  BY <1>6

LEMMA ConfirmedOK ==
  ASSUME NEW c, ConfirmationOK(c), NEW id \in ControlIds(c.proposal), NEW t \in Times
  PROVE  ConfirmationOK(Confirmed(c, id, t))
<1>1. Confirmed(c, id, t) = [proposal |-> c.proposal, answers |-> c.answers,
                             confirmed |-> Extend(c.confirmed, id, t), decided |-> c.decided]
  BY ConfirmationShape DEF Confirmed
<1>2. Extend(c.confirmed, id, t) \in Confirmings(c.proposal)
  BY ConfirmationShape, ExtendPartial DEF Confirmings
<1>3. Confirmed(c, id, t) \in Confirmations(c.proposal)
  BY <1>1, <1>2, ConfirmationShape, ConfirmationIntro
<1> QED
  BY <1>1, <1>3 DEF ConfirmationOK

LEMMA DecidedOK ==
  ASSUME NEW c, ConfirmationOK(c), NEW i \in DOMAIN c.proposal.clauses,
         NEW t \in Times, NEW d \in DecisionsAt(t)
  PROVE  ConfirmationOK(Decided(c, i, d))
<1>1. Decided(c, i, d) = [proposal |-> c.proposal, answers |-> c.answers,
                          confirmed |-> c.confirmed, decided |-> Extend(c.decided, i, d)]
  BY ConfirmationShape DEF Decided
<1>2. d \in Decisions
  BY DEF Decisions, DecisionsAt
<1>3. Extend(c.decided, i, d) \in Decidings(c.proposal)
  BY <1>2, ConfirmationShape, ExtendPartial DEF Decidings
<1>4. Decided(c, i, d) \in Confirmations(c.proposal)
  BY <1>1, <1>3, ConfirmationShape, ConfirmationIntro
<1> QED
  BY <1>1, <1>4 DEF ConfirmationOK

-----------------------------------------------------------------------------
(* The rule that a control means.                                          *)

LEMMA RuleIntro ==
  ASSUME NEW type \in ControlTypes, NEW action \in {"create", "modify"},
         NEW effect \in Effects(type), NEW value \in WellFormed[type]
  PROVE  [action |-> action, type |-> type, effect |-> effect, value |-> value] \in Rules
<1>1. value \in Literals
  BY WellFormedAssumption
<1>2. [action |-> action, type |-> type, effect |-> effect, value |-> value]
        \in [action : {"create", "modify"}, type : {type}, effect : Effects(type),
             value : WellFormed[type] \cup Bindings]
  OBVIOUS
<1> QED
  BY <1>1, <1>2 DEF Rules, Controls

LEMMA RuleElim ==
  ASSUME NEW r \in Rules
  PROVE  /\ r = [action |-> r.action, type |-> r.type, effect |-> r.effect, value |-> r.value]
         /\ r.type \in ControlTypes
         /\ r.effect \in Effects(r.type)
         /\ r.value \in Literals
BY DEF Rules, Controls

LEMMA ControlIsValid ==
  ASSUME NEW p \in Candidates, ValidProposal(p), NEW id \in ControlIds(p)
  PROVE  ValidControl(p, Control(p, id))
<1>1. id[1] \in DOMAIN p.clauses /\ id[2] \in DOMAIN p.clauses[id[1]].controls
  BY ControlIdFacts
<1>2. ValidClause(p, p.clauses[id[1]])
  BY <1>1 DEF ValidProposal
<1> QED
  BY <1>1, <1>2 DEF ValidClause, Control

LEMMA MeaningIsRule ==
  ASSUME NEW c, ConfirmationOK(c), ValidProposal(c.proposal),
         NEW id \in ControlIds(c.proposal),
         Control(c.proposal, id).value \in Bindings =>
           Control(c.proposal, id).value \in DOMAIN c.answers
  PROVE  LET control == Control(c.proposal, id)
             rule == Rule(control, c.answers)
         IN /\ rule \in Rules
            /\ rule.action = control.action
            /\ rule.type = control.type
            /\ rule.effect = control.effect
<1> DEFINE p == c.proposal
           control == Control(p, id)
           rule == Rule(control, c.answers)
<1>1. p \in Candidates
  BY DEF ConfirmationOK
<1>2. ValidControl(p, control)
  BY <1>1, ControlIsValid
<1>3. control \in CandidateControls
  BY <1>1, ControlIdFacts
<1>4. /\ control = [action |-> control.action, type |-> control.type,
                    effect |-> control.effect, value |-> control.value]
      /\ control.action \in {"create", "modify"}
      /\ control.type \in ControlTypes
      /\ control.effect \in Effects(control.type)
  <2> HIDE DEF control
  <2> QED BY <1>2, <1>3 DEF CandidateControls, ValidControl
<1>5. CASE control.value \in Bindings
  <2>1. c.answers[control.value].value \in WellFormed[control.type]
    BY <1>2, <1>5 DEF ConfirmationOK, ValidControl
  <2>2. rule = [action |-> control.action, type |-> control.type, effect |-> control.effect,
                value |-> c.answers[control.value].value]
    <3> HIDE DEF control
    <3> QED BY <1>4, <1>5 DEF Rule
  <2> HIDE DEF control, rule
  <2>3. rule \in Rules
    BY <1>4, <2>1, <2>2, RuleIntro
  <2> QED
    BY <2>2, <2>3 DEF control, rule
<1>6. CASE control.value \notin Bindings
  <2>1. control.value \in WellFormed[control.type]
    BY <1>2, <1>6 DEF ValidControl
  <2>2. rule = control
    BY <1>6 DEF Rule
  <2> HIDE DEF control
  <2>3. control \in Rules
    BY <1>4, <2>1, RuleIntro
  <2> QED
    BY <2>2, <2>3 DEF control
<1> QED
  BY <1>5, <1>6

-----------------------------------------------------------------------------
(* Approved work is complete.                                              *)

LEMMA DifferenceOfSubset ==
  ASSUME NEW S, IsFiniteSet(S), NEW T \in SUBSET S,
         Cardinality(S) - Cardinality(T) = 0
  PROVE  T = S
<1>1. Cardinality(S) \in Nat /\ IsFiniteSet(T) /\ Cardinality(T) \in Nat
  BY FS_Subset, FS_CardinalityType
<1>2. Cardinality(S) = Cardinality(T)
  BY <1>1
<1> QED
  BY <1>2, FS_Subset

LEMMA OpenCounts ==
  ASSUME NEW c, ConfirmationOK(c)
  PROVE  LET p == c.proposal
         IN /\ Coverage(p, c).openClauses = 0 <=> DOMAIN c.decided = DOMAIN p.clauses
            /\ Coverage(p, c).openControls = 0 <=> DOMAIN c.confirmed = ControlIds(p)
            /\ Coverage(p, c).confirmed \in Nat
            /\ Coverage(p, c).confirmed = 0 <=> DOMAIN c.confirmed = {}
            /\ Coverage(p, c).openClauses \in Nat
            /\ Coverage(p, c).openControls \in Nat
<1> DEFINE p == c.proposal
<1>1. p \in Candidates
  BY DEF ConfirmationOK
<1>2. /\ DOMAIN c.decided \in SUBSET DOMAIN p.clauses
      /\ DOMAIN c.confirmed \in SUBSET ControlIds(p)
  BY ConfirmationShape, PartialElim DEF Confirmings, Decidings
<1>3. /\ IsFiniteSet(ControlIds(p))
      /\ IsFiniteSet(DOMAIN p.clauses)
      /\ Cardinality(DOMAIN p.clauses) = Len(p.clauses)
  BY <1>1, FiniteIds
<1>4. /\ IsFiniteSet(DOMAIN c.confirmed)
      /\ Cardinality(DOMAIN c.confirmed) <= Cardinality(ControlIds(p))
      /\ Cardinality(DOMAIN c.decided) <= Cardinality(DOMAIN p.clauses)
      /\ IsFiniteSet(DOMAIN c.decided)
  BY <1>2, <1>3, FS_Subset
<1>5. /\ Cardinality(DOMAIN c.confirmed) \in Nat
      /\ Cardinality(ControlIds(p)) \in Nat
      /\ Cardinality(DOMAIN c.decided) \in Nat
      /\ Cardinality(DOMAIN p.clauses) \in Nat
  BY <1>3, <1>4, FS_CardinalityType
<1>6. /\ Coverage(p, c).openClauses = Cardinality(DOMAIN p.clauses) - Cardinality(DOMAIN c.decided)
      /\ Coverage(p, c).openControls = Cardinality(ControlIds(p)) - Cardinality(DOMAIN c.confirmed)
      /\ Coverage(p, c).confirmed = Cardinality(DOMAIN c.confirmed)
  BY <1>3 DEF Coverage
<1>7. /\ Coverage(p, c).openClauses \in Nat
      /\ Coverage(p, c).openControls \in Nat
  <2> HIDE DEF p
  <2> QED BY <1>4, <1>5, <1>6
<1>8. Coverage(p, c).openClauses = 0 <=> DOMAIN c.decided = DOMAIN p.clauses
  <2> HIDE DEF p
  <2> QED BY <1>2, <1>3, <1>5, <1>6, DifferenceOfSubset
<1>9. Coverage(p, c).openControls = 0 <=> DOMAIN c.confirmed = ControlIds(p)
  <2> HIDE DEF p
  <2> QED BY <1>2, <1>3, <1>5, <1>6, DifferenceOfSubset
<1>10. Coverage(p, c).confirmed = 0 <=> DOMAIN c.confirmed = {}
  <2> HIDE DEF p
  <2> QED BY <1>4, <1>6, FS_EmptySet
<1> QED
  BY <1>5, <1>6, <1>7, <1>8, <1>9, <1>10

(* Nothing of an approved confirmation is open.                            *)
LEMMA ApprovedIsComplete ==
  ASSUME NEW c, ConfirmationOK(c), NEW t, Approvable(c.proposal, c, t)
  PROVE  /\ DOMAIN c.decided = DOMAIN c.proposal.clauses
         /\ DOMAIN c.confirmed = ControlIds(c.proposal)
         /\ DOMAIN c.confirmed # {}
         /\ \A id \in ControlIds(c.proposal) :
              Control(c.proposal, id).value \in Bindings =>
                Control(c.proposal, id).value \in DOMAIN c.answers
<1>1. /\ DOMAIN c.decided = DOMAIN c.proposal.clauses
      /\ DOMAIN c.confirmed = ControlIds(c.proposal)
      /\ DOMAIN c.confirmed # {}
  BY OpenCounts DEF Approvable
<1> QED
  BY <1>1 DEF Approvable, ValidConfirmation

(* The committed rules of complete work are rules.                         *)
LEMMA CommittedAreRules ==
  ASSUME NEW c, ConfirmationOK(c), NEW t, Approvable(c.proposal, c, t)
  PROVE  LET rules == CommittedRules(c.proposal, c)
         IN /\ DOMAIN rules = ControlIds(c.proposal)
            /\ \A id \in DOMAIN rules :
                 /\ rules[id] = Rule(Control(c.proposal, id), c.answers)
                 /\ rules[id] \in Rules
                 /\ rules[id].type = Control(c.proposal, id).type
                 /\ rules[id].effect = Control(c.proposal, id).effect
            /\ rules \in PartialOn(ControlIds(c.proposal), Rules)
<1> DEFINE rules == CommittedRules(c.proposal, c)
<1>1. /\ DOMAIN rules = ControlIds(c.proposal)
      /\ \A id \in DOMAIN rules : rules[id] = Rule(Control(c.proposal, id), c.answers)
  BY DEF CommittedRules
<1>2. ASSUME NEW id \in ControlIds(c.proposal)
      PROVE  /\ Rule(Control(c.proposal, id), c.answers) \in Rules
             /\ Rule(Control(c.proposal, id), c.answers).type = Control(c.proposal, id).type
             /\ Rule(Control(c.proposal, id), c.answers).effect = Control(c.proposal, id).effect
  BY ApprovedIsComplete, MeaningIsRule DEF Approvable
<1>3. rules \in [ControlIds(c.proposal) -> Rules]
  BY <1>2 DEF CommittedRules
<1>4. rules \in PartialOn(ControlIds(c.proposal), Rules)
  BY <1>3, PartialIntro
<1> QED
  BY <1>1, <1>2, <1>4

(* What v2 can represent it publishes as the committed rules.              *)
LEMMA V2RulesAreCommitted ==
  ASSUME NEW c, NEW p \in Candidates,
         \A i \in DOMAIN p.clauses : V2Representable(p.clauses[i], c)
  PROVE  V2Rules(p, c) = CommittedRules(p, c)
<1>1. ASSUME NEW i \in DOMAIN p.clauses, IsDirect(p.clauses[i])
      PROVE  /\ DOMAIN p.clauses[i].direct = DOMAIN p.clauses[i].controls
             /\ \A j \in DOMAIN p.clauses[i].direct :
                  p.clauses[i].direct[j] = Rule(p.clauses[i].controls[j], c.answers)
  BY <1>1 DEF V2Representable, Meaning
<1>2. ASSUME NEW id \in DirectIds(p)
      PROVE  /\ id \in ControlIds(p)
             /\ DirectRules(p)[id] = Rule(Control(p, id), c.answers)
  <2>1. PICK i \in DOMAIN p.clauses : id \in {<<i, j>> : j \in DOMAIN p.clauses[i].direct}
    BY DEF DirectIds
  <2>2. PICK j \in DOMAIN p.clauses[i].direct : id = <<i, j>>
    BY <2>1
  <2>3. IsDirect(p.clauses[i])
    BY <2>2 DEF IsDirect
  <2>4. DirectRules(p)[id] = p.clauses[i].direct[j]
    BY <2>2 DEF DirectRules
  <2> QED
    BY <1>1, <2>2, <2>3, <2>4, ControlIdFacts
<1>3. ASSUME NEW id \in ControlIds(p), id \notin MappedIds(p)
      PROVE  id \in DirectIds(p)
  <2>1. /\ id = <<id[1], id[2]>>
        /\ id[1] \in DOMAIN p.clauses
        /\ id[2] \in DOMAIN p.clauses[id[1]].controls
        /\ IsDirect(p.clauses[id[1]])
    BY <1>3, ControlIdFacts DEF MappedIds
  <2>2. id \in {<<id[1], j>> : j \in DOMAIN p.clauses[id[1]].direct}
    BY <1>1, <2>1
  <2> QED
    BY <2>1, <2>2 DEF DirectIds
<1>4. DirectIds(p) \cup MappedIds(p) = ControlIds(p)
  BY <1>2, <1>3 DEF MappedIds
<1> QED
  BY <1>2, <1>4 DEF V2Rules, CommittedRules

(* Rules without a conflict have no two that differ in nothing but effect. *)
LEMMA NoOpposites ==
  ASSUME NEW l \in Rules, NEW r \in Rules, SameSelector(l, r)
  PROVE  /\ l = r \/ (IsPathRule(l) /\ IsPathRule(r) /\ Opposed(l, r) /\ l.value = r.value)
         /\ RulesConflict(l, r)
<1>1. /\ r.action = l.action /\ r.type = l.type /\ r.value = l.value
  BY RuleElim DEF SameSelector
<1>2. l.effect \in Effects(l.type) /\ r.effect \in Effects(l.type)
  BY <1>1, RuleElim
<1>3. CASE l.type = "acting_role"
  <2>1. l.effect = r.effect
    BY <1>2, <1>3 DEF Effects
  <2> QED
    BY <1>1, <2>1, RuleElim DEF RulesConflict
<1>4. CASE l.type # "acting_role"
  <2>1. l.effect \in {"allow", "deny"} /\ r.effect \in {"allow", "deny"}
    BY <1>2, <1>4 DEF Effects
  <2>2. CASE l.effect = r.effect
    BY <1>1, <2>2, RuleElim DEF RulesConflict
  <2>3. CASE l.effect # r.effect
    BY <1>1, <1>4, <2>1, <2>3 DEF RulesConflict, IsPathRule, Opposed
  <2> QED
    BY <2>2, <2>3
<1> QED
  BY <1>3, <1>4

LEMMA IRAcceptedNoOpposites ==
  ASSUME NEW rules, \A id \in DOMAIN rules : rules[id] \in Rules, IRAccepts(rules),
         NEW i \in DOMAIN rules, NEW j \in DOMAIN rules, i # j
  PROVE  ~ SameSelector(rules[i], rules[j])
BY NoOpposites DEF IRAccepts

-----------------------------------------------------------------------------
(* The invariant is inductive.                                             *)

LEMMA InitIInv == Init => IInv
BY DEF Init, IInv, TypeOK, ProposalHeld, ConfirmationHeld, ApprovalHeld,
       PublishedMeaningWasConfirmed, PublishedInOrder

LEMMA ProposeKeeps ==
  ASSUME IInv, NEW p \in Candidates, Propose(p)
  PROVE  IInv'
BY DEF Propose, IInv, TypeOK, ProposalHeld, ConfirmationHeld, ApprovalHeld,
       PublishedMeaningWasConfirmed, PublishedInOrder

LEMMA ReturnKeeps ==
  ASSUME IInv, Working, NEW c, ConfirmationOK(c), ConfirmedAt(c) # {}, Return(c)
  PROVE  IInv'
<1>1. c.proposal = proposal /\ ValidConfirmation(proposal, c)
  BY DEF Return, ValidConfirmation
<1>2. TypeOK'
  BY DEF Return, IInv, TypeOK, Working
<1>3. ConfirmationHeld'
  BY <1>1 DEF Return, IInv, ConfirmationHeld, ProposalHeld, Working
<1>4. ProposalHeld' /\ ApprovalHeld'
  BY DEF Return, IInv, ProposalHeld, ApprovalHeld
<1>5. PublishedMeaningWasConfirmed' /\ PublishedInOrder'
  BY DEF Return, Working, PublishedMeaningWasConfirmed, PublishedInOrder
<1> QED
  BY <1>2, <1>3, <1>4, <1>5 DEF IInv

LEMMA ResolveBindingKeeps ==
  ASSUME IInv, NEW b \in Bindings, NEW value \in Literals, NEW t \in Times,
         ResolveBinding(b, value, t)
  PROVE  IInv'
<1>1. PICK c \in Given : CanResolve(proposal, c, b) /\ Return(Resolved(c, b, value, t))
  BY DEF ResolveBinding
<1>2. Working
  BY DEF ResolveBinding
<1>3. c.proposal = proposal /\ ConfirmationOK(c)
  BY <1>1, <1>2, GivenOK
<1>4. ConfirmationOK(Resolved(c, b, value, t))
  BY <1>1, <1>3, ResolvedOK DEF CanResolve, Return
<1>5. ConfirmedAt(Resolved(c, b, value, t)) # {}
  <2>1. Resolved(c, b, value, t).answers = Extend(c.answers, b, [value |-> value, at |-> t])
    BY <1>3, ConfirmationShape DEF Resolved
  <2>2. b \in DOMAIN Extend(c.answers, b, [value |-> value, at |-> t])
    BY DEF Extend
  <2>3. b \in DOMAIN Resolved(c, b, value, t).answers
    BY <2>1, <2>2
  <2> QED
    BY <2>3 DEF ConfirmedAt
<1> QED
  BY <1>1, <1>2, <1>4, <1>5, ReturnKeeps

LEMMA ConfirmControlKeeps ==
  ASSUME IInv, NEW id, NEW t \in Times, ConfirmControl(id, t)
  PROVE  IInv'
<1>1. PICK c \in Given : CanConfirm(proposal, c, id) /\ Return(Confirmed(c, id, t))
  BY DEF ConfirmControl
<1>2. Working
  BY DEF ConfirmControl
<1>3. c.proposal = proposal /\ ConfirmationOK(c)
  BY <1>1, <1>2, GivenOK
<1>4. ConfirmationOK(Confirmed(c, id, t))
  BY <1>1, <1>3, ConfirmedOK DEF CanConfirm
<1>5. ConfirmedAt(Confirmed(c, id, t)) # {}
  <2>1. Confirmed(c, id, t).confirmed = Extend(c.confirmed, id, t)
    BY <1>3, ConfirmationShape DEF Confirmed
  <2>2. id \in DOMAIN Extend(c.confirmed, id, t)
    BY DEF Extend
  <2>3. id \in DOMAIN Confirmed(c, id, t).confirmed
    BY <2>1, <2>2
  <2> QED
    BY <2>3 DEF ConfirmedAt
<1> QED
  BY <1>1, <1>2, <1>4, <1>5, ReturnKeeps

LEMMA DecideClauseKeeps ==
  ASSUME IInv, NEW i, NEW t \in Times, NEW d \in DecisionsAt(t), DecideClause(i, d)
  PROVE  IInv'
<1>1. PICK c \in Given : CanDecide(proposal, c, i, d) /\ Return(Decided(c, i, d))
  BY DEF DecideClause
<1>2. Working
  BY DEF DecideClause
<1>3. c.proposal = proposal /\ ConfirmationOK(c)
  BY <1>1, <1>2, GivenOK
<1>4. ConfirmationOK(Decided(c, i, d))
  BY <1>1, <1>3, DecidedOK DEF CanDecide
<1>5. ConfirmedAt(Decided(c, i, d)) # {}
  <2>1. Decided(c, i, d).decided = Extend(c.decided, i, d)
    BY <1>3, ConfirmationShape DEF Decided
  <2>2. i \in DOMAIN Extend(c.decided, i, d)
    BY DEF Extend
  <2>3. i \in DOMAIN Decided(c, i, d).decided
    BY <2>1, <2>2
  <2> QED
    BY <2>3 DEF ConfirmedAt
<1> QED
  BY <1>1, <1>2, <1>4, <1>5, ReturnKeeps

LEMMA ApproveKeeps ==
  ASSUME IInv, NEW t \in Times, Approve(t)
  PROVE  IInv'
<1>1. /\ approval' = [confirmation |-> confirmation, at |-> t]
      /\ confirmation.proposal = proposal
      /\ confirmation # None
      /\ Approvable(proposal, confirmation, t)
      /\ UNCHANGED <<proposal, confirmation, publication>>
  BY DEF Approve, Held, ValidConfirmation
<1>2. TypeOK'
  BY <1>1 DEF IInv, TypeOK
<1>3. ApprovalHeld'
  BY <1>1 DEF ApprovalHeld
<1>4. /\ ProposalHeld' /\ ConfirmationHeld'
      /\ PublishedMeaningWasConfirmed' /\ PublishedInOrder'
  BY <1>1 DEF IInv, ProposalHeld, ConfirmationHeld, PublishedMeaningWasConfirmed,
              PublishedInOrder
<1> QED
  BY <1>2, <1>3, <1>4 DEF IInv

(* The three finalizers publish the same: the committed rules.             *)
LEMMA PublishKeeps ==
  ASSUME IInv, Working, approval # None, NEW version \in {"v2", "v3", "v4"},
         NEW committed \in Times, NEW published \in Times,
         Presented(proposal, confirmation, approval),
         InOrder(approval, committed, published),
         IRAccepts(CommittedRules(proposal, confirmation)),
         HasGrant(CommittedRules(proposal, confirmation)),
         Publish(version, CommittedRules(proposal, confirmation), committed, published)
  PROVE  IInv'
<1> DEFINE rules == CommittedRules(proposal, confirmation)
<1>1. /\ approval.confirmation = confirmation
      /\ confirmation.proposal = proposal
      /\ ConfirmationOK(confirmation)
      /\ approval.at \in Times
  BY DEF Presented, ValidApproval, ValidConfirmation, IInv, TypeOK
<1>2. Approvable(proposal, confirmation, approval.at)
  BY <1>1 DEF IInv, ApprovalHeld
<1>3. /\ DOMAIN confirmation.decided = DOMAIN proposal.clauses
      /\ DOMAIN confirmation.confirmed = ControlIds(proposal)
  BY <1>1, <1>2, ApprovedIsComplete
<1>4. /\ \A id \in DOMAIN rules : rules[id] \in Rules
      /\ rules \in PartialOn(ControlIds(proposal), Rules)
  BY <1>1, <1>2, CommittedAreRules
<1>5. publication' = [version |-> version, confirmation |-> confirmation,
                      approval |-> approval, rules |-> rules,
                      committed |-> committed, published |-> published]
  BY DEF Publish
<1>6. /\ publication'.version = version
      /\ publication'.confirmation = confirmation
      /\ publication'.approval = approval
      /\ publication'.rules = rules
      /\ publication'.committed = committed
      /\ publication'.published = published
  BY <1>5
<1>7. UNCHANGED <<proposal, confirmation, approval>>
  BY DEF Publish
<1> HIDE DEF rules
<1>8. TypeOK'
  BY <1>1, <1>4, <1>6, <1>7 DEF IInv, TypeOK
<1>9. PublishedMeaningWasConfirmed'
  <2>1. rules = [id \in DOMAIN confirmation.confirmed |->
                   Rule(Control(proposal, id), confirmation.answers)]
    BY <1>3 DEF rules, CommittedRules
  <2>2. \A i, j \in DOMAIN rules : i # j /\ IsPathRule(rules[i]) => ~ SameSelector(rules[i], rules[j])
    BY <1>4, IRAcceptedNoOpposites DEF rules
  <2>3. HasGrant(rules)
    BY DEF rules
  <2> QED
    BY <1>1, <1>3, <1>6, <2>1, <2>2, <2>3 DEF PublishedMeaningWasConfirmed
<1>10. PublishedInOrder'
  <2>1. \A t \in ConfirmedAt(confirmation) : LastRun(proposal) <= t /\ t <= approval.at
    BY DEF Presented, ValidConfirmation, ValidApproval, InTimeFor
  <2>2. approval.at <= committed /\ committed <= published
    BY DEF InOrder
  <2> QED
    BY <1>1, <1>6, <2>1, <2>2 DEF PublishedInOrder
<1>11. ProposalHeld' /\ ConfirmationHeld' /\ ApprovalHeld'
  BY <1>7 DEF IInv, ProposalHeld, ConfirmationHeld, ApprovalHeld
<1> QED
  BY <1>8, <1>9, <1>10, <1>11 DEF IInv

LEMMA FinalizeKeeps ==
  ASSUME IInv, NEW committed \in Times, NEW published \in Times,
         \/ FinalizeV2(committed, published)
         \/ FinalizeV3(committed, published)
         \/ FinalizeV4(committed, published)
  PROVE  IInv'
<1>1. CASE FinalizeV2(committed, published)
  <2>1. V2Accepts(proposal, confirmation, approval, committed, published)
    BY <1>1 DEF FinalizeV2
  <2>2. proposal \in Candidates
    BY <1>1 DEF FinalizeV2, Working, IInv, TypeOK
  <2>3. V2Rules(proposal, confirmation) = CommittedRules(proposal, confirmation)
    BY <2>1, <2>2, V2RulesAreCommitted DEF V2Accepts
  <2> QED
    BY <1>1, <2>1, <2>3, PublishKeeps DEF FinalizeV2, V2Accepts
<1>2. CASE FinalizeV3(committed, published)
  BY <1>2, PublishKeeps DEF FinalizeV3, V3Accepts
<1>3. CASE FinalizeV4(committed, published)
  <2>1. V4Accepts(proposal, confirmation, approval, committed, published)
    BY <1>3 DEF FinalizeV4
  <2>2. HasGrant(CommittedRules(proposal, confirmation))
    BY <2>1 DEF V4Accepts, ValidCommitment, ActionPolicyAccepts
  <2> QED
    BY <1>3, <2>1, <2>2, PublishKeeps DEF FinalizeV4, V4Accepts
<1> QED
  BY <1>1, <1>2, <1>3

LEMMA NextKeeps == IInv /\ [Next]_vars => IInv'
<1> SUFFICES ASSUME IInv, [Next]_vars PROVE IInv'
  OBVIOUS
<1>1. CASE UNCHANGED vars
  BY <1>1 DEF vars, IInv, TypeOK, ProposalHeld, ConfirmationHeld, ApprovalHeld,
              PublishedMeaningWasConfirmed, PublishedInOrder
<1>2. CASE \E p \in Candidates : Propose(p)
  BY <1>2, ProposeKeeps
<1>3. CASE \E b \in Bindings, value \in Literals, t \in Times : ResolveBinding(b, value, t)
  BY <1>3, ResolveBindingKeeps
<1>4. CASE \E id \in UNION {ControlIds(p) : p \in Candidates}, t \in Times : ConfirmControl(id, t)
  BY <1>4, ConfirmControlKeeps
<1>5. CASE \E i \in UNION {DOMAIN p.clauses : p \in Candidates}, t \in Times :
             \E d \in DecisionsAt(t) : DecideClause(i, d)
  BY <1>5, DecideClauseKeeps
<1>6. CASE \E t \in Times : Approve(t)
  BY <1>6, ApproveKeeps
<1>7. CASE \E committed, published \in Times :
             \/ FinalizeV2(committed, published)
             \/ FinalizeV3(committed, published)
             \/ FinalizeV4(committed, published)
  BY <1>7, FinalizeKeeps
<1> QED
  BY <1>1, <1>2, <1>3, <1>4, <1>5, <1>6, <1>7 DEF Next

(* What the caller holds is what the operations returned: each answer, for *)
(* one, is a value that its binding's type accepts.                        *)
THEOREM TypeCorrect == Spec => []TypeOK
<1>1. IInv => TypeOK
  BY DEF IInv
<1> QED
  BY <1>1, InitIInv, NextKeeps, PTL DEF Spec

(* Whichever finalizer published, and whatever the caller put together: it *)
(* published the meaning of the controls that were confirmed, with the     *)
(* answers given, in the confirmation that was approved, and no rule       *)
(* together with its opposite.                                             *)
THEOREM MeaningWasConfirmed == Spec => []PublishedMeaningWasConfirmed
<1>1. IInv => PublishedMeaningWasConfirmed
  BY DEF IInv
<1> QED
  BY <1>1, InitIInv, NextKeeps, PTL DEF Spec

(* The last run, the confirmations, the approval, the commit and the       *)
(* publication happened in this order.                                     *)
THEOREM InOrderPublished == Spec => []PublishedInOrder
<1>1. IInv => PublishedInOrder
  BY DEF IInv
<1> QED
  BY <1>1, InitIInv, NextKeeps, PTL DEF Spec

-----------------------------------------------------------------------------
(* Records are final.                                                      *)

LEMMA OneRecord ==
  ASSUME NEW x, NEW y
  PROVE  /\ Cardinality(DOMAIN Extend(<<>>, x, y)) = 1
         /\ Cardinality(DOMAIN <<>>) = 0
<1>1. DOMAIN Extend(<<>>, x, y) = DOMAIN <<>> \cup {x}
  BY DEF Extend
<1>2. DOMAIN <<>> = {}
  BY EmptyPartial
<1>3. DOMAIN Extend(<<>>, x, y) = {x}
  BY <1>1, <1>2
<1> QED
  BY <1>2, <1>3, FS_Singleton, FS_EmptySet

(* An operation starts over or keeps what the confirmation had.            *)
StepIsFinal(c) ==
  confirmation # None => StartedOver(c) \/ Keeps(confirmation, c)

LEMMA ResolveIsFinal ==
  ASSUME IInv, Working, NEW c \in Given, NEW b, NEW value, NEW t, CanResolve(proposal, c, b)
  PROVE  StepIsFinal(Resolved(c, b, value, t))
<1> DEFINE r == [value |-> value, at |-> t]
           d == Resolved(c, b, value, t)
<1>1. /\ d.answers = Extend(c.answers, b, r)
      /\ d.confirmed = c.confirmed
      /\ d.decided = c.decided
  BY GivenOK, ConfirmationShape DEF Resolved
<1> HIDE DEF d, r
<1>2. CASE c = Unanswered(proposal)
  <2>1. c.answers = <<>> /\ c.confirmed = <<>> /\ c.decided = <<>>
    BY <1>2 DEF Unanswered
  <2> QED
    BY <1>1, <2>1, OneRecord DEF StepIsFinal, StartedOver, d
<1>3. CASE c = confirmation
  <2>1. b \notin DOMAIN confirmation.answers
    BY <1>3 DEF CanResolve
  <2>2. /\ DOMAIN confirmation.answers \subseteq DOMAIN d.answers
        /\ \A x \in DOMAIN confirmation.answers : d.answers[x] = confirmation.answers[x]
    BY <1>1, <1>3, <2>1 DEF Extend
  <2> QED
    BY <1>1, <1>3, <2>2 DEF StepIsFinal, Keeps, d
<1> QED
  BY <1>2, <1>3 DEF Given

LEMMA ConfirmIsFinal ==
  ASSUME IInv, Working, NEW c \in Given, NEW id, NEW t, CanConfirm(proposal, c, id)
  PROVE  StepIsFinal(Confirmed(c, id, t))
<1> DEFINE d == Confirmed(c, id, t)
<1>1. /\ d.answers = c.answers
      /\ d.confirmed = Extend(c.confirmed, id, t)
      /\ d.decided = c.decided
  BY GivenOK, ConfirmationShape DEF Confirmed
<1> HIDE DEF d
<1>2. CASE c = Unanswered(proposal)
  <2>1. c.answers = <<>> /\ c.confirmed = <<>> /\ c.decided = <<>>
    BY <1>2 DEF Unanswered
  <2> QED
    BY <1>1, <2>1, OneRecord DEF StepIsFinal, StartedOver, d
<1>3. CASE c = confirmation
  <2>1. id \notin DOMAIN confirmation.confirmed
    BY <1>3 DEF CanConfirm
  <2>2. /\ DOMAIN confirmation.confirmed \subseteq DOMAIN d.confirmed
        /\ \A x \in DOMAIN confirmation.confirmed : d.confirmed[x] = confirmation.confirmed[x]
    BY <1>1, <1>3, <2>1 DEF Extend
  <2> QED
    BY <1>1, <1>3, <2>2 DEF StepIsFinal, Keeps, d
<1> QED
  BY <1>2, <1>3 DEF Given

LEMMA DecideIsFinal ==
  ASSUME IInv, Working, NEW c \in Given, NEW i, NEW e, CanDecide(proposal, c, i, e)
  PROVE  StepIsFinal(Decided(c, i, e))
<1> DEFINE d == Decided(c, i, e)
<1>1. /\ d.answers = c.answers
      /\ d.confirmed = c.confirmed
      /\ d.decided = Extend(c.decided, i, e)
  BY GivenOK, ConfirmationShape DEF Decided
<1> HIDE DEF d
<1>2. CASE c = Unanswered(proposal)
  <2>1. c.answers = <<>> /\ c.confirmed = <<>> /\ c.decided = <<>>
    BY <1>2 DEF Unanswered
  <2> QED
    BY <1>1, <2>1, OneRecord DEF StepIsFinal, StartedOver, d
<1>3. CASE c = confirmation
  <2>1. i \notin DOMAIN confirmation.decided
    BY <1>3 DEF CanDecide
  <2>2. /\ DOMAIN confirmation.decided \subseteq DOMAIN d.decided
        /\ \A x \in DOMAIN confirmation.decided : d.decided[x] = confirmation.decided[x]
    BY <1>1, <1>3, <2>1 DEF Extend
  <2> QED
    BY <1>1, <1>3, <2>2 DEF StepIsFinal, Keeps, d
<1> QED
  BY <1>2, <1>3 DEF Given

(* An answer, a confirmed control and a decision stay as they are in every *)
(* later confirmation, unless the caller starts over.                      *)
THEOREM FinalRecords == Spec => RecordsAreFinal
<1> DEFINE Final == confirmation # None =>
                      StartedOver(confirmation') \/ Keeps(confirmation, confirmation')
<1>1. IInv /\ [Next]_vars => [Final]_confirmation
  <2> SUFFICES ASSUME IInv, [Next]_vars PROVE [Final]_confirmation
    OBVIOUS
  <2>1. ASSUME NEW c, Return(c), StepIsFinal(c) PROVE Final
    BY <2>1 DEF Return, StepIsFinal
  <2>2. CASE UNCHANGED vars
    BY <2>2 DEF vars
  <2>3. ASSUME NEW p \in Candidates, Propose(p) PROVE UNCHANGED confirmation
    BY <2>3 DEF Propose
  <2>4. ASSUME NEW b, NEW value, NEW t, ResolveBinding(b, value, t) PROVE Final
    BY <2>1, <2>4, ResolveIsFinal DEF ResolveBinding
  <2>5. ASSUME NEW id, NEW t, ConfirmControl(id, t) PROVE Final
    BY <2>1, <2>5, ConfirmIsFinal DEF ConfirmControl
  <2>6. ASSUME NEW i, NEW d, DecideClause(i, d) PROVE Final
    BY <2>1, <2>6, DecideIsFinal DEF DecideClause
  <2>7. ASSUME NEW t, Approve(t) PROVE UNCHANGED confirmation
    BY <2>7 DEF Approve
  <2>8. ASSUME NEW s, NEW t, FinalizeV2(s, t) \/ FinalizeV3(s, t) \/ FinalizeV4(s, t)
        PROVE  UNCHANGED confirmation
    BY <2>8 DEF FinalizeV2, FinalizeV3, FinalizeV4, Publish
  <2> HIDE DEF Final
  <2> QED
    BY <2>2, <2>3, <2>4, <2>5, <2>6, <2>7, <2>8 DEF Next
<1> QED
  BY <1>1, InitIInv, NextKeeps, PTL DEF Spec, RecordsAreFinal

-----------------------------------------------------------------------------
(* What an approval promises to the finalizers.                            *)

LEMMA ApprovedFacts ==
  ASSUME IInv, Approved
  PROVE  /\ proposal \in Candidates
         /\ confirmation.proposal = proposal
         /\ approval.confirmation = confirmation
         /\ approval.at \in Times
         /\ ConfirmationOK(confirmation)
         /\ ValidProposal(proposal)
         /\ ValidConfirmation(proposal, confirmation)
         /\ Approvable(proposal, confirmation, approval.at)
         /\ InTimeFor(proposal, confirmation, approval.at)
BY DEF Approved, Held, Presented, ValidApproval, ValidConfirmation, IInv, TypeOK, ApprovalHeld,
       ConfirmationOK

(* A clause the grammar recognised has literals only.                      *)
LEMMA DirectMeaning ==
  ASSUME NEW p \in Candidates, ValidProposal(p), NEW i \in DOMAIN p.clauses,
         IsDirect(p.clauses[i]), NEW c
  PROVE  Meaning(p.clauses[i], c) = p.clauses[i].direct
<1> DEFINE direct == p.clauses[i].direct
<1>1. p.clauses[i].controls = direct
  BY DEF ValidProposal, FaithfulToSource
<1>2. direct \in Seq(Rules)
  BY ClauseShape
<1> HIDE DEF direct
<1>3. ASSUME NEW j \in DOMAIN direct PROVE Rule(direct[j], c.answers) = direct[j]
  <2>1. direct[j] \in Rules
    BY <1>2
  <2> QED
    BY <2>1, RuleElim, LiteralsAssumption DEF Rule
<1>4. Meaning(p.clauses[i], c) = [j \in DOMAIN direct |-> direct[j]]
  BY <1>1, <1>3 DEF Meaning
<1>5. direct = [j \in DOMAIN direct |-> direct[j]]
  BY <1>2
<1> QED
  BY <1>4, <1>5 DEF direct

LEMMA AllAnswered ==
  ASSUME IInv, Approved
  PROVE  UNION {BindingsOf(proposal.clauses[i]) : i \in DOMAIN proposal.clauses}
           = DOMAIN confirmation.answers
<1> DEFINE U == UNION {BindingsOf(proposal.clauses[i]) : i \in DOMAIN proposal.clauses}
<1>1. DOMAIN confirmation.answers \subseteq U
  BY ApprovedFacts DEF ValidConfirmation, ValidProposal
<1>2. ASSUME NEW i \in DOMAIN proposal.clauses
      PROVE  BindingsOf(proposal.clauses[i]) \subseteq DOMAIN confirmation.answers
  BY ApprovedFacts, ApprovedIsComplete DEF ValidConfirmation
<1>3. U \subseteq DOMAIN confirmation.answers
  BY <1>2
<1> QED
  BY <1>1, <1>3

LEMMA ClauseCommitted ==
  ASSUME IInv, Approved, NEW i \in DOMAIN proposal.clauses,
         proposal.catalog = "1.0.0" => ~ Conflicting(CommittedRules(proposal, confirmation))
  PROVE  CommittedClause(proposal, confirmation, approval, i)
<1> DEFINE clause == proposal.clauses[i]
           d == confirmation.decided[i]
<1>1. /\ proposal \in Candidates
      /\ ValidProposal(proposal)
      /\ ValidConfirmation(proposal, confirmation)
      /\ InTimeFor(proposal, confirmation, approval.at)
  BY ApprovedFacts
<1>2. /\ i \in DOMAIN confirmation.decided
      /\ DOMAIN confirmation.confirmed = ControlIds(proposal)
  BY ApprovedFacts, ApprovedIsComplete
<1>3. FitsDecision(proposal, i, d)
  BY <1>1, <1>2 DEF ValidConfirmation
<1>4. clause \in Clauses
  BY <1>1, ClauseShape
<1>5. ValidClause(proposal, clause)
  BY <1>1 DEF ValidProposal
<1>6. [clause EXCEPT !.status = d.status] = clause
  BY <1>3, <1>4 DEF FitsDecision, Clauses
<1>7. /\ d.status = clause.status
      /\ d.acknowledged <=> d.status \in Unrepresented
  BY <1>3 DEF FitsDecision
<1>8. clause.residual => d.acknowledged
  BY <1>5, <1>7 DEF ValidClause, StatusFits, Unrepresented
<1>9. ASSUME NEW j \in DOMAIN clause.controls
      PROVE  /\ ValidControl(proposal, clause.controls[j])
             /\ confirmation.confirmed[<<i, j>>] <= approval.at
  <2>1. <<i, j>> \in DOMAIN confirmation.confirmed
    BY <1>1, <1>2, ControlIdFacts
  <2>2. confirmation.confirmed[<<i, j>>] \in ConfirmedAt(confirmation)
    BY <2>1 DEF ConfirmedAt
  <2> QED
    BY <1>1, <1>5, <2>2 DEF ValidClause, InTimeFor
<1>10. d.at <= approval.at
  <2>1. d.at \in ConfirmedAt(confirmation)
    BY <1>2 DEF ConfirmedAt
  <2> QED
    BY <1>1, <2>1 DEF InTimeFor
<1>11. ASSUME Conflicting(Meaning(clause, confirmation))
       PROVE  Conflicting(CommittedRules(proposal, confirmation))
  <2>1. PICK j, k \in DOMAIN clause.controls :
          /\ j # k
          /\ RulesConflict(Rule(clause.controls[j], confirmation.answers),
                           Rule(clause.controls[k], confirmation.answers))
    BY <1>11 DEF Conflicting, Meaning
  <2>2. /\ <<i, j>> \in ControlIds(proposal)
        /\ <<i, k>> \in ControlIds(proposal)
        /\ Control(proposal, <<i, j>>) = clause.controls[j]
        /\ Control(proposal, <<i, k>>) = clause.controls[k]
    BY <1>1, ControlIdFacts
  <2>3. <<i, j>> # <<i, k>>
    BY <2>1
  <2> HIDE DEF clause
  <2> QED
    BY <2>1, <2>2, <2>3 DEF Conflicting, CommittedRules
<1>12. IsDirect(clause) =>
         d.status = "fully_represented" /\ Meaning(clause, confirmation) = clause.direct
  BY <1>1, <1>3, DirectMeaning DEF FitsDecision
<1>13. ~ IsDirect(clause) /\ proposal.catalog # "1.0.0" => clause.controls = <<>>
  BY <1>1 DEF ValidProposal, FaithfulToSource
<1>14. StatusFits([clause EXCEPT !.status = d.status])
  BY <1>5, <1>6 DEF ValidClause
<1> HIDE DEF clause, d
<1> QED
  BY <1>7, <1>8, <1>9, <1>10, <1>11, <1>12, <1>13, <1>14 DEF CommittedClause, clause, d

LEMMA CommitmentIsValid ==
  ASSUME IInv, Approved,
         IF proposal.catalog = "1.0.0"
         THEN ~ Conflicting(CommittedRules(proposal, confirmation))
         ELSE ActionPolicyAccepts(CommittedRules(proposal, confirmation))
  PROVE  ValidCommitment(proposal, confirmation, approval)
<1>1. \A b \in DOMAIN confirmation.answers : confirmation.answers[b].at <= approval.at
  BY ApprovedFacts DEF InTimeFor, ConfirmedAt
<1>2. \A i \in DOMAIN proposal.clauses : CommittedClause(proposal, confirmation, approval, i)
  BY ClauseCommitted
<1> QED
  BY <1>1, <1>2, AllAnswered DEF ValidCommitment

(* Of the checks of v3, the approval leaves only the conflicts.            *)
LEMMA ApprovedGrants ==
  ASSUME IInv, Approved, proposal.catalog = "1.0.0"
  PROVE  HasGrant(CommittedRules(proposal, confirmation))
<1>1. PICK id \in DOMAIN confirmation.confirmed : Grants(Control(proposal, id))
  BY ApprovedFacts DEF Approvable, AffirmativePathControls
<1>2. id \in ControlIds(proposal)
  BY ApprovedFacts, ApprovedIsComplete
<1> QED
  BY <1>1, <1>2, ApprovedFacts, CommittedAreRules DEF HasGrant, Grants, IsPathRule

LEMMA NoConflictIRAccepts ==
  ASSUME IInv, Approved, ~ Conflicting(CommittedRules(proposal, confirmation))
  PROVE  IRAccepts(CommittedRules(proposal, confirmation))
<1> DEFINE rules == CommittedRules(proposal, confirmation)
<1>1. /\ DOMAIN rules = ControlIds(proposal)
      /\ \A id \in DOMAIN rules : rules[id] \in Rules
  BY ApprovedFacts, CommittedAreRules
<1>2. DOMAIN rules # {}
  BY <1>1, ApprovedFacts, ApprovedIsComplete
<1>3. ASSUME NEW i \in DOMAIN rules, NEW j \in DOMAIN rules, i # j
      PROVE  rules[i] # rules[j] /\ ~ SameSelector(rules[i], rules[j])
  <2>1. ~ RulesConflict(rules[i], rules[j])
    BY <1>3 DEF Conflicting
  <2> HIDE DEF rules
  <2> QED
    BY <1>1, <1>3, <2>1, NoOpposites DEF RulesConflict
<1> HIDE DEF rules
<1>4. IRAccepts(rules)
  BY <1>2, <1>3 DEF IRAccepts
<1> QED
  BY <1>4 DEF rules

LEMMA V3AcceptsApproved ==
  ASSUME IInv, Approved, proposal.catalog = "1.0.0",
         ~ Conflicting(CommittedRules(proposal, confirmation)),
         NEW s, NEW t, InOrder(approval, s, t)
  PROVE  V3Accepts(proposal, confirmation, approval, s, t)
BY CommitmentIsValid, NoConflictIRAccepts, ApprovedGrants DEF V3Accepts, Approved

(* authority_bundle.v2 is the narrower format: what its finalizer accepts  *)
(* v3 accepts too, and both publish the same rules.                        *)
THEOREM V2IsNarrower == Spec => []V2AgreesWithV3
<1>1. IInv => V2AgreesWithV3
  <2> SUFFICES ASSUME IInv, Approved, NEW s \in Times, NEW t \in Times,
                      V2Accepts(proposal, confirmation, approval, s, t)
               PROVE  /\ V3Accepts(proposal, confirmation, approval, s, t)
                      /\ V2Rules(proposal, confirmation) = CommittedRules(proposal, confirmation)
    BY DEF V2AgreesWithV3
  <2>1. V2Rules(proposal, confirmation) = CommittedRules(proposal, confirmation)
    BY ApprovedFacts, V2RulesAreCommitted DEF V2Accepts
  <2> QED
    BY <2>1, V3AcceptsApproved DEF V2Accepts
<1> QED
  BY <1>1, InitIInv, NextKeeps, PTL DEF Spec

(* What an approval leaves undecided is exactly this: conflicts between    *)
(* the rules and, under the action catalog, a grant and the order in which *)
(* controls were confirmed and clauses decided.                            *)
THEOREM ApprovedPublishable == Spec => []ApprovedIsPublishable
<1>1. IInv => ApprovedIsPublishable
  <2> SUFFICES ASSUME IInv, Approved PROVE ApprovedIsPublishable
    BY DEF ApprovedIsPublishable
  <2> DEFINE rules == CommittedRules(proposal, confirmation)
             v3 == \E s, t \in Times : V3Accepts(proposal, confirmation, approval, s, t)
             v4 == \E s, t \in Times : V4Accepts(proposal, confirmation, approval, s, t)
  <2>1. approval.at \in Times /\ InOrder(approval, approval.at, approval.at)
    <3>1. approval.at \in Times
      BY ApprovedFacts
    <3>2. approval.at \in Nat
      BY <3>1, TimesAssumption
    <3> QED
      BY <3>1, <3>2 DEF InOrder
  <2>2. ASSUME proposal.catalog = "1.0.0" PROVE v3 <=> ~ Conflicting(rules)
    <3>1. ASSUME v3 PROVE ~ Conflicting(rules)
      BY <2>2, <3>1 DEF V3Accepts, ValidCommitment
    <3>2. ASSUME ~ Conflicting(rules) PROVE v3
      BY <2>1, <2>2, <3>2, V3AcceptsApproved
    <3> QED
      BY <3>1, <3>2
  <2>3. ASSUME proposal.catalog # "1.0.0"
        PROVE  v4 <=> /\ ActionPolicyAccepts(rules) /\ IRAccepts(rules)
                      /\ ConfirmedBeforeDecided(confirmation)
    <3>1. ASSUME v4
          PROVE  /\ ActionPolicyAccepts(rules) /\ IRAccepts(rules)
                 /\ ConfirmedBeforeDecided(confirmation)
      BY <2>3, <3>1 DEF V4Accepts, ValidCommitment
    <3>2. ASSUME ActionPolicyAccepts(rules), IRAccepts(rules), ConfirmedBeforeDecided(confirmation)
          PROVE  v4
      BY <2>1, <2>3, <3>2, CommitmentIsValid DEF V4Accepts, Approved
    <3> QED
      BY <3>1, <3>2
  <2> QED
    BY <2>2, <2>3 DEF ApprovedIsPublishable
<1> QED
  BY <1>1, InitIInv, NextKeeps, PTL DEF Spec

-----------------------------------------------------------------------------
(* Finite sets of times.                                                   *)

LEMMA FiniteConfirmedAt ==
  ASSUME NEW c, ConfirmationOK(c), ValidProposal(c.proposal)
  PROVE  IsFiniteSet(ConfirmedAt(c)) /\ ConfirmedAt(c) \subseteq Times
<1> DEFINE p == c.proposal
           ValueOf == [id \in ControlIds(p) |-> Control(p, id).value]
           Values == {ValueOf[id] : id \in ControlIds(p)}
           AnswerAt == [b \in DOMAIN c.answers |-> c.answers[b].at]
           DecisionAt == [i \in DOMAIN c.decided |-> c.decided[i].at]
<1>1. p \in Candidates
  BY DEF ConfirmationOK
<1>2. IsFiniteSet(ControlIds(p)) /\ IsFiniteSet(DOMAIN p.clauses)
  BY <1>1, FiniteIds
<1>3. IsFiniteSet(Values)
  <2>1. DOMAIN ValueOf = ControlIds(p)
    OBVIOUS
  <2> HIDE DEF ValueOf, p
  <2> QED BY <1>2, <2>1, FiniteImage
<1>4. \A i \in DOMAIN p.clauses : BindingsOf(p.clauses[i]) \subseteq Values
  <2> SUFFICES ASSUME NEW i \in DOMAIN p.clauses, NEW b \in BindingsOf(p.clauses[i])
               PROVE  b \in Values
    OBVIOUS
  <2>1. PICK j \in DOMAIN p.clauses[i].controls : b = p.clauses[i].controls[j].value
    BY DEF BindingsOf
  <2>2. <<i, j>> \in ControlIds(p) /\ Control(p, <<i, j>>) = p.clauses[i].controls[j]
    BY <1>1, ControlIdFacts
  <2>3. ValueOf[<<i, j>>] = b
    BY <2>1, <2>2
  <2> QED
    BY <2>2, <2>3
<1>5. DOMAIN p.bindings \subseteq Values
  BY <1>4 DEF ValidProposal
<1>6. /\ DOMAIN c.answers \subseteq DOMAIN p.bindings
      /\ \A b \in DOMAIN c.answers : c.answers[b] \in Answers
      /\ DOMAIN c.confirmed \subseteq ControlIds(p)
      /\ \A id \in DOMAIN c.confirmed : c.confirmed[id] \in Times
      /\ DOMAIN c.decided \subseteq DOMAIN p.clauses
      /\ \A i \in DOMAIN c.decided : c.decided[i] \in Decisions
  BY RecordsShape
<1>7. /\ IsFiniteSet(DOMAIN c.answers)
      /\ IsFiniteSet(DOMAIN c.confirmed)
      /\ IsFiniteSet(DOMAIN c.decided)
  <2> HIDE DEF Values
  <2> QED BY <1>2, <1>3, <1>5, <1>6, FS_Subset
<1>8. IsFiniteSet({AnswerAt[b] : b \in DOMAIN c.answers})
  <2>1. DOMAIN AnswerAt = DOMAIN c.answers
    OBVIOUS
  <2> HIDE DEF AnswerAt
  <2> QED BY <1>7, <2>1, FiniteImage
<1>9. IsFiniteSet({c.confirmed[id] : id \in DOMAIN c.confirmed})
  BY <1>7, FiniteImage
<1>10. IsFiniteSet({DecisionAt[i] : i \in DOMAIN c.decided})
  <2>1. DOMAIN DecisionAt = DOMAIN c.decided
    OBVIOUS
  <2> HIDE DEF DecisionAt
  <2> QED BY <1>7, <2>1, FiniteImage
<1>11. ConfirmedAt(c) = {AnswerAt[b] : b \in DOMAIN c.answers}
                          \cup {c.confirmed[id] : id \in DOMAIN c.confirmed}
                          \cup {DecisionAt[i] : i \in DOMAIN c.decided}
  BY DEF ConfirmedAt
<1>12. IsFiniteSet(ConfirmedAt(c))
  <2> HIDE DEF AnswerAt, DecisionAt
  <2>1. IsFiniteSet({AnswerAt[b] : b \in DOMAIN c.answers}
                      \cup {c.confirmed[id] : id \in DOMAIN c.confirmed})
    BY <1>8, <1>9, FS_Union
  <2>2. IsFiniteSet(({AnswerAt[b] : b \in DOMAIN c.answers}
                      \cup {c.confirmed[id] : id \in DOMAIN c.confirmed})
                      \cup {DecisionAt[i] : i \in DOMAIN c.decided})
    BY <1>10, <2>1, FS_Union
  <2> QED
    BY <1>11, <2>2
<1>13. ConfirmedAt(c) \subseteq Times
  BY <1>6 DEF ConfirmedAt, Answers, Decisions
<1> QED
  BY <1>12, <1>13

(* A run completes after all the runs before it.                           *)
LEMMA LastRunIsLast ==
  ASSUME NEW p \in Candidates, ValidRuns(p.runs), NEW k \in DOMAIN p.runs
  PROVE  p.runs[k].completed <= LastRun(p)
<1> DEFINE runs == p.runs
           n == Len(runs)
           Bad == {j \in DOMAIN runs : ~ (runs[j].completed <= runs[n].completed)}
<1>1. /\ runs \in Seq([created : Nat, completed : Nat])
      /\ DOMAIN runs = 1 .. n /\ n \in Nat
  BY ProposalShape
<1>2. n \in DOMAIN runs
  BY <1>1 DEF ValidRuns
<1>3. \A j \in DOMAIN runs : runs[j].created \in Nat /\ runs[j].completed \in Nat
  <2> DEFINE R == [created : Nat, completed : Nat]
  <2>1. runs \in Seq(R)
    BY <1>1
  <2>2. \A j \in DOMAIN runs : runs[j] \in R
    <3> HIDE DEF runs, R
    <3> QED BY <2>1
  <2> QED
    BY <2>2
<1>4. SUFFICES ASSUME Bad # {} PROVE FALSE
  BY DEF LastRun
<1>5. Bad \in SUBSET Nat /\ IsFiniteSet(Bad)
  <2>1. Bad \in SUBSET (1 .. n) /\ n \in Nat
    BY <1>1
  <2> HIDE DEF Bad, n
  <2>2. IsFiniteSet(1 .. n)
    BY <2>1, FS_Interval
  <2>3. IsFiniteSet(Bad)
    BY <2>1, <2>2, FS_Subset
  <2>4. Bad \in SUBSET Nat
    BY <2>1
  <2> QED
    BY <2>3, <2>4
<1> HIDE DEF Bad
<1>6. PICK j \in Bad : \A x \in Bad : x <= j
  BY <1>4, <1>5, Maximum
<1>7. j \in DOMAIN runs /\ ~ (runs[j].completed <= runs[n].completed)
  BY DEF Bad
<1>8. j # n
  BY <1>2, <1>3, <1>7
<1>9. j \in Nat /\ j + 1 \in DOMAIN runs \ {1} /\ ~ (j + 1 <= j)
  BY <1>1, <1>7, <1>8
<1>10. runs[j + 1].completed <= runs[n].completed
  BY <1>6, <1>9 DEF Bad
<1>11. runs[j].completed <= runs[j + 1].created
  <2>1. runs[(j + 1) - 1].completed <= runs[j + 1].created
    BY <1>9 DEF ValidRuns
  <2>2. (j + 1) - 1 = j
    BY <1>9
  <2> QED
    BY <2>1, <2>2
<1>12. runs[j + 1].created <= runs[j + 1].completed
  BY <1>9 DEF ValidRuns
<1> HIDE DEF runs, n
<1> QED
  BY <1>2, <1>3, <1>7, <1>9, <1>10, <1>11, <1>12

-----------------------------------------------------------------------------
(* Readiness, and that open work can go on.                                *)

LEMMA HeldFacts ==
  ASSUME IInv, Held
  PROVE  /\ proposal \in Candidates
         /\ confirmation.proposal = proposal
         /\ ConfirmationOK(confirmation)
         /\ ValidProposal(proposal)
         /\ ValidConfirmation(proposal, confirmation)
         /\ ConfirmedAt(confirmation) # {}
BY DEF Held, ValidConfirmation, IInv, TypeOK, ConfirmationHeld, ConfirmationOK

(* What is ready can be approved at the time of the last record.           *)
LEMMA ReadyIsApprovable ==
  ASSUME IInv, Held, PublicationReady(proposal, confirmation)
  PROVE  \E t \in Times : Approvable(proposal, confirmation, t)
<1>1. /\ IsFiniteSet(ConfirmedAt(confirmation))
      /\ ConfirmedAt(confirmation) \subseteq Times
      /\ ConfirmedAt(confirmation) # {}
  BY HeldFacts, FiniteConfirmedAt
<1>2. ConfirmedAt(confirmation) \in SUBSET Nat
  BY <1>1, TimesAssumption
<1>3. PICK t \in ConfirmedAt(confirmation) : \A s \in ConfirmedAt(confirmation) : s <= t
  BY <1>1, <1>2, Maximum
<1>4. LastRun(proposal) <= t
  BY HeldFacts DEF ValidConfirmation
<1>5. ASSUME NEW k \in DOMAIN proposal.runs PROVE proposal.runs[k].completed <= t
  <2>1. proposal.runs[k].completed <= LastRun(proposal)
    BY HeldFacts, LastRunIsLast DEF ValidConfirmation
  <2>2. /\ \A j \in DOMAIN proposal.runs : proposal.runs[j].completed \in Nat
        /\ Len(proposal.runs) \in DOMAIN proposal.runs
    <3> DEFINE R == [created : Nat, completed : Nat]
    <3>1. proposal.runs \in Seq(R) /\ proposal.runs # <<>>
      BY HeldFacts, ProposalShape DEF ValidConfirmation, ValidRuns
    <3>2. /\ \A j \in DOMAIN proposal.runs : proposal.runs[j] \in R
          /\ Len(proposal.runs) \in DOMAIN proposal.runs
      <4> HIDE DEF R
      <4> QED BY <3>1
    <3> QED
      BY <3>2
  <2>3. proposal.runs[k].completed \in Nat /\ LastRun(proposal) \in Nat /\ t \in Nat
    BY <1>2, <2>2 DEF LastRun
  <2> QED
    BY <1>4, <2>1, <2>3
<1>6. InTimeFor(proposal, confirmation, t)
  BY <1>3, <1>5 DEF InTimeFor
<1>7. DecidedAs(confirmation, Unrepresented)
        = {i \in DOMAIN confirmation.decided : confirmation.decided[i].acknowledged}
  BY HeldFacts DEF DecidedAs, ValidConfirmation, FitsDecision
<1>8. Coverage(proposal, confirmation).unrepresented = Coverage(proposal, confirmation).acknowledged
  BY <1>7 DEF Coverage
<1>9. Coverage(proposal, confirmation).confirmed # 0
  BY HeldFacts, OpenCounts DEF PublicationReady
<1>10. Approvable(proposal, confirmation, t)
  BY <1>6, <1>8, <1>9, HeldFacts DEF Approvable, PublicationReady
<1> QED
  BY <1>1, <1>10

(* The inspection, the approval and the customer view agree on what is     *)
(* ready.                                                                  *)
THEOREM ReadinessIsOne == Spec => []ReadinessAgrees
<1>1. IInv => ReadinessAgrees
  <2> SUFFICES ASSUME IInv, Held PROVE ReadinessAgrees
    BY DEF ReadinessAgrees
  <2>1. ASSUME NEW t \in Times, Approvable(proposal, confirmation, t)
        PROVE  PublicationReady(proposal, confirmation)
    <3>1. Coverage(proposal, confirmation).confirmed > 0
      BY <2>1, HeldFacts, OpenCounts DEF Approvable
    <3> QED
      BY <2>1, <3>1 DEF Approvable, PublicationReady
  <2>2. ASSUME PublicationReady(proposal, confirmation)
        PROVE  Waiting(proposal, confirmation) = {}
    <3>1. DOMAIN confirmation.decided = DOMAIN proposal.clauses
      BY <2>2, HeldFacts, OpenCounts DEF PublicationReady
    <3>2. ASSUME NEW i \in DOMAIN proposal.clauses
          PROVE  CustomerState(proposal, confirmation, i) \in Statuses
      <4>1. confirmation.decided[i].status \in Statuses
        BY <3>1, HeldFacts, ClauseShape DEF ValidConfirmation, FitsDecision
      <4> QED
        BY <3>1, <4>1 DEF CustomerState
    <3> QED
      BY <3>2 DEF Waiting, Statuses, Enforced, Unrepresented
  <2> QED
    BY <2>1, <2>2, ReadyIsApprovable DEF ReadinessAgrees
<1> QED
  BY <1>1, InitIInv, NextKeeps, PTL DEF Spec

LEMMA AnswerAccepted ==
  ASSUME NEW c, ConfirmationOK(c), ValidConfirmation(c.proposal, c),
         NEW b \in DOMAIN c.proposal.bindings \ DOMAIN c.answers,
         NEW value \in WellFormed[c.proposal.bindings[b]],
         NEW t, LastRun(c.proposal) <= t
  PROVE  ValidConfirmation(c.proposal, Resolved(c, b, value, t))
<1> DEFINE p == c.proposal
           r == [value |-> value, at |-> t]
           d == Resolved(c, b, value, t)
<1>1. /\ d.proposal = p
      /\ d.answers = Extend(c.answers, b, r)
      /\ d.confirmed = c.confirmed
      /\ d.decided = c.decided
  BY ConfirmationShape DEF Resolved
<1>2. r.value = value /\ r.at = t
  OBVIOUS
<1> HIDE DEF d, r
<1>3. /\ DOMAIN d.answers = DOMAIN c.answers \cup {b}
      /\ d.answers[b] = r
      /\ \A a \in DOMAIN c.answers : d.answers[a] = c.answers[a]
  BY <1>1 DEF Extend
<1>4. DOMAIN d.answers \subseteq DOMAIN p.bindings
  BY <1>3 DEF ValidConfirmation
<1>5. \A a \in DOMAIN d.answers : d.answers[a].value \in WellFormed[p.bindings[a]]
  BY <1>2, <1>3 DEF ValidConfirmation
<1>6. \A s \in ConfirmedAt(d) : s \in ConfirmedAt(c) \/ s = t
  BY <1>1, <1>2, <1>3 DEF ConfirmedAt
<1>7. \A s \in ConfirmedAt(d) : LastRun(p) <= s
  BY <1>6 DEF ValidConfirmation
<1>8. \A i : ControlsOpen(p, d, i) = ControlsOpen(p, c, i)
  BY <1>1 DEF ControlsOpen
<1>9. ValidConfirmation(p, d)
  BY <1>1, <1>3, <1>4, <1>5, <1>7, <1>8 DEF ValidConfirmation
<1> QED
  BY <1>9 DEF d

LEMMA ConfirmationAccepted ==
  ASSUME NEW c, ConfirmationOK(c), ValidConfirmation(c.proposal, c),
         NEW id, CanConfirm(c.proposal, c, id), NEW t, LastRun(c.proposal) <= t
  PROVE  ValidConfirmation(c.proposal, Confirmed(c, id, t))
<1> DEFINE p == c.proposal
           d == Confirmed(c, id, t)
<1>1. /\ d.proposal = p
      /\ d.answers = c.answers
      /\ d.confirmed = Extend(c.confirmed, id, t)
      /\ d.decided = c.decided
  BY ConfirmationShape DEF Confirmed
<1> HIDE DEF d
<1>2. /\ DOMAIN d.confirmed = DOMAIN c.confirmed \cup {id}
      /\ d.confirmed[id] = t
      /\ \A a \in DOMAIN c.confirmed : a # id => d.confirmed[a] = c.confirmed[a]
  BY <1>1 DEF Extend
<1>3. /\ id \in ControlIds(p) /\ id \notin DOMAIN c.confirmed
      /\ Control(p, id).value \in Bindings => Control(p, id).value \in DOMAIN c.answers
  BY DEF CanConfirm
<1>4. \A s \in ConfirmedAt(d) : s \in ConfirmedAt(c) \/ s = t
  BY <1>1, <1>2 DEF ConfirmedAt
<1>5. \A s \in ConfirmedAt(d) : LastRun(p) <= s
  BY <1>4 DEF ValidConfirmation
<1>6. \A i : ControlsOpen(p, c, i) = {} => ControlsOpen(p, d, i) = {}
  BY <1>2 DEF ControlsOpen
<1>7. ValidConfirmation(p, d)
  BY <1>1, <1>2, <1>3, <1>5, <1>6 DEF ValidConfirmation
<1> QED
  BY <1>7 DEF d

LEMMA DecisionAccepted ==
  ASSUME NEW c, ConfirmationOK(c), ValidConfirmation(c.proposal, c),
         NEW i, NEW e, CanDecide(c.proposal, c, i, e), LastRun(c.proposal) <= e.at
  PROVE  ValidConfirmation(c.proposal, Decided(c, i, e))
<1> DEFINE p == c.proposal
           d == Decided(c, i, e)
<1>1. /\ d.proposal = p
      /\ d.answers = c.answers
      /\ d.confirmed = c.confirmed
      /\ d.decided = Extend(c.decided, i, e)
  BY ConfirmationShape DEF Decided
<1> HIDE DEF d
<1>2. /\ DOMAIN d.decided = DOMAIN c.decided \cup {i}
      /\ d.decided[i] = e
      /\ \A a \in DOMAIN c.decided : a # i => d.decided[a] = c.decided[a]
  BY <1>1 DEF Extend
<1>3. /\ i \in DOMAIN p.clauses /\ i \notin DOMAIN c.decided
      /\ FitsDecision(p, i, e)
      /\ BindingsOf(p.clauses[i]) \subseteq DOMAIN c.answers
      /\ ControlsOpen(p, c, i) = {}
  BY DEF CanDecide
<1>4. \A s \in ConfirmedAt(d) : s \in ConfirmedAt(c) \/ s = e.at
  BY <1>1, <1>2 DEF ConfirmedAt
<1>5. \A s \in ConfirmedAt(d) : LastRun(p) <= s
  BY <1>4 DEF ValidConfirmation
<1>6. \A k : ControlsOpen(p, d, k) = ControlsOpen(p, c, k)
  BY <1>1 DEF ControlsOpen
<1>7. \A k \in DOMAIN d.decided :
        /\ FitsDecision(p, k, d.decided[k])
        /\ BindingsOf(p.clauses[k]) \subseteq DOMAIN d.answers
        /\ ControlsOpen(p, d, k) = {}
  BY <1>1, <1>2, <1>3, <1>6 DEF ValidConfirmation
<1>8. DOMAIN d.decided \subseteq DOMAIN p.clauses
  BY <1>2, <1>3 DEF ValidConfirmation
<1>9. ValidConfirmation(p, d)
  BY <1>1, <1>5, <1>7, <1>8 DEF ValidConfirmation
<1> QED
  BY <1>9 DEF d

(* No order of the operations ends where work is open and none of them is  *)
(* accepted: an answer, a control or a clause is next, at the time of any  *)
(* record made so far.                                                     *)
THEOREM OpenWorkProceeds == Spec => []WorkCanProceed
<1>1. IInv => WorkCanProceed
  <2> DEFINE p == proposal
             c == confirmation
             CanAnswer(t) == \E b \in Bindings :
                               /\ CanResolve(p, c, b)
                               /\ \E value \in Literals : ValidConfirmation(p, Resolved(c, b, value, t))
             CanCheck(t) == \E id \in ControlIds(p) :
                              CanConfirm(p, c, id) /\ ValidConfirmation(p, Confirmed(c, id, t))
             CanSettle(t) == \E i \in DOMAIN p.clauses, d \in DecisionsAt(t) :
                               CanDecide(p, c, i, d) /\ ValidConfirmation(p, Decided(c, i, d))
  <2> SUFFICES ASSUME IInv, Held,
                      \/ Coverage(p, c).openClauses > 0
                      \/ Coverage(p, c).openControls > 0
               PROVE  \E t \in Times : CanAnswer(t) \/ CanCheck(t) \/ CanSettle(t)
    BY DEF WorkCanProceed
  <2>1. PICK t \in ConfirmedAt(c) : TRUE
    BY HeldFacts
  <2>2. t \in Times /\ LastRun(p) <= t
    BY <2>1, HeldFacts, FiniteConfirmedAt DEF ValidConfirmation
  <2>3. DOMAIN p.bindings \subseteq Bindings /\ p.bindings \in [DOMAIN p.bindings -> ControlTypes]
    BY HeldFacts, ProposalShape
  <2>4. CASE \E b \in DOMAIN p.bindings : b \notin DOMAIN c.answers
    <3>1. PICK b \in DOMAIN p.bindings : b \notin DOMAIN c.answers
      BY <2>4
    <3>2. PICK value \in WellFormed[p.bindings[b]] : value \in Literals
      BY <2>3, WellFormedAssumption
    <3>3. CanResolve(p, c, b)
      BY <3>1 DEF CanResolve
    <3>4. ValidConfirmation(p, Resolved(c, b, value, t))
      BY <2>2, <3>1, <3>2, AnswerAccepted, HeldFacts
    <3>5. CanAnswer(t)
      BY <2>3, <3>2, <3>3, <3>4
    <3> QED
      BY <2>2, <3>5
  <2>5. CASE /\ \A b \in DOMAIN p.bindings : b \in DOMAIN c.answers
             /\ DOMAIN c.confirmed # ControlIds(p)
    <3>1. PICK id \in ControlIds(p) : id \notin DOMAIN c.confirmed
      BY <2>5, HeldFacts DEF ValidConfirmation
    <3>2. ValidControl(p, Control(p, id))
      BY HeldFacts, ControlIsValid
    <3>3. CanConfirm(p, c, id)
      BY <2>5, <3>1, <3>2 DEF CanConfirm, ValidControl
    <3>4. ValidConfirmation(p, Confirmed(c, id, t))
      BY <2>2, <3>3, ConfirmationAccepted, HeldFacts
    <3>5. CanCheck(t)
      BY <3>3, <3>4
    <3> QED
      BY <2>2, <3>5
  <2>6. CASE /\ \A b \in DOMAIN p.bindings : b \in DOMAIN c.answers
             /\ DOMAIN c.confirmed = ControlIds(p)
    <3>1. DOMAIN c.decided # DOMAIN p.clauses
      BY <2>6, HeldFacts, OpenCounts
    <3>2. PICK i \in DOMAIN p.clauses : i \notin DOMAIN c.decided
      BY <3>1, HeldFacts DEF ValidConfirmation
    <3> DEFINE d == [status |-> p.clauses[i].status,
                     acknowledged |-> p.clauses[i].status \in Unrepresented, at |-> t]
    <3>3. p.clauses[i].status \in Statuses
      BY HeldFacts, ClauseShape
    <3>4. d \in DecisionsAt(t)
      BY <3>3 DEF DecisionsAt
    <3>5. FitsDecision(p, i, d)
      BY HeldFacts DEF FitsDecision, ValidProposal, FaithfulToSource
    <3>6. BindingsOf(p.clauses[i]) \subseteq DOMAIN c.answers
      BY <2>6, HeldFacts DEF ValidProposal
    <3>7. ControlsOpen(p, c, i) = {}
      BY <2>6 DEF ControlsOpen
    <3>8. CanDecide(p, c, i, d) /\ d.at = t
      BY <3>2, <3>5, <3>6, <3>7 DEF CanDecide
    <3> HIDE DEF d
    <3>9. ValidConfirmation(p, Decided(c, i, d))
      BY <2>2, <3>8, DecisionAccepted, HeldFacts
    <3>10. CanSettle(t)
      BY <3>4, <3>8, <3>9
    <3> QED
      BY <2>2, <3>10
  <2> QED
    BY <2>4, <2>5, <2>6
<1> QED
  BY <1>1, InitIInv, NextKeeps, PTL DEF Spec
=============================================================================
