------------------------ MODULE PolicyInterpretation ------------------------
(***************************************************************************)
(* From the exact text of a policy to published authority without a        *)
(* translator.  Two tracks start from the same reading of the statements:  *)
(* the customer policy (customer_policy.py), whose ambiguities a person    *)
(* resolves and which publishes authority_bundle.v1, and the domain policy *)
(* (domain_policy.py), whose pending statements a person decides one by    *)
(* one and which publishes authority_bundle.v2.                            *)
(*                                                                         *)
(* A source is the sequence of its statements; a statement is what the     *)
(* grammars make of it.  Drafts and resolutions are values in the hands of *)
(* the caller, and a hash is equality of what it hashes.  The tracks share *)
(* nothing but the source, so a behaviour follows one of them.  An         *)
(* operation that raises returns nothing and is no step.                   *)
(***************************************************************************)
EXTENDS PolicyRules, Functions

CONSTANTS
  Sources,        \* the policies: sequences of statements
  Times,          \* what callers may give as the time of an act
  MaxReferenced,  \* the statements a resolution record may reference
  MaxResolutions, \* bound: the resolutions a caller collects
  MaxDecisions,   \* bound: the decisions a caller makes
  None

ASSUME TimesAssumption == Times \subseteq Nat /\ Times # {} /\ MaxReferenced \in Nat \ {0}
ASSUME BoundAssumption == MaxResolutions \in Nat /\ MaxDecisions \in Nat

VARIABLES
  source,       \* the policy of this behaviour
  resolutions,  \* customer track: the resolutions collected so far
  draft,        \* domain track: the interpretation the caller goes on with
  publication   \* what a finalizer returned; a behaviour ends with it

vars == <<source, resolutions, draft, publication>>

-----------------------------------------------------------------------------
(* What the grammars read.  The released grammar classifies a statement;   *)
(* "meaning" is its one rule, for a statement with an ambiguous word the   *)
(* rule that is left without the word, or None.  "pair" are the rules of   *)
(* the sentence that allows two paths, "actions" those of the action       *)
(* grammar.                                                                *)

Readings == {"enforced", "requires_resolution", "unsupported", "informational"}

\* The rules of the released grammar, which also knows approval thresholds and
\* the separation of duties.
Meanings ==
  Rules \cup [action : {"modify"}, type : {"approval_threshold", "separation_of_duties"},
             effect : {"require"}, value : Literals]

Statements ==
  {s \in [reading : Readings, meaning : Meanings \cup {None},
          pair : Seq(Rules), actions : Seq(Rules)] :
     /\ s.reading = "enforced" => s.meaning # None
     /\ s.reading \in {"unsupported", "informational"} => s.meaning = None}

ASSUME SourcesAssumption == Sources \subseteq Seq(Statements) /\ None \notin Meanings

Recognised(src) == {i \in DOMAIN src : src[i].reading = "enforced"}
Lexical(src) == {i \in DOMAIN src : src[i].reading = "requires_resolution"}

Clash(src, i, j) == i # j /\ RulesConflict(src[i].meaning, src[j].meaning)

\* Mutant: the neighbours of a statement, not what they lead to.
Mutant_Component(src, i) ==
  {i} \cup {j \in Recognised(src) : Clash(src, i, j)}

\* The statements that conflicts lead to from i, directly or not.
Component(src, i) ==
  LET closed(S) == \A k \in S, l \in Recognised(src) : Clash(src, k, l) => l \in S
  IN {j \in Recognised(src) :
        \A S \in SUBSET Recognised(src) : i \in S /\ closed(S) => j \in S}

\* _conflict_components: among what is enforced as it stands.
Disputes == [src \in Sources |->
  {Component(src, i) : i \in {k \in Recognised(src) : \E j \in Recognised(src) : Clash(src, k, j)}}]

Classification == [src \in Sources |->
  [i \in DOMAIN src |->
     IF i \in UNION Disputes[src] THEN "requires_resolution" ELSE src[i].reading]]

\* An ambiguity is known by its statements: one with an ambiguous word, or all
\* of a dispute.
Ambiguities == [src \in Sources |-> {{i} : i \in Lexical(src)} \cup Disputes[src]]

\* Mutant: every statement of a dispute may be kept.
Mutant_Options(src, a) ==
  IF a \in Disputes[src]
  THEN {[i \in a |-> IF i \in kept THEN "enforced" ELSE "unsupported"] : kept \in SUBSET a}
  ELSE [a -> {"unsupported", "informational"}]

\* What a person may choose: the classification each statement ends with.
Options(src, a) ==
  IF a \in Disputes[src]
  THEN {[i \in a |-> IF i \in kept THEN "enforced" ELSE "unsupported"]
          : kept \in {{}} \cup {{i} : i \in a}}
  ELSE {choice \in [a -> {"enforced", "unsupported", "informational"}] :
          \A i \in a : choice[i] = "enforced" => src[i].meaning # None}

\* What interpret_customer_policy reports as ready_for_finalization.
CustomerReady(src) == Ambiguities[src] = {} /\ Recognised(src) # {}

-----------------------------------------------------------------------------
(* Customer track.                                                         *)

\* A resolution for every ambiguity, none twice, each one of its options.
Answered(src, records) ==
  /\ {records[k].ambiguity : k \in DOMAIN records} = Ambiguities[src]
  /\ \A k, l \in DOMAIN records : k # l => records[k].ambiguity # records[l].ambiguity
  /\ \A k \in DOMAIN records : records[k].option \in Options(src, records[k].ambiguity)

\* _apply_resolutions, record by record: the last one about a statement counts.
Outcome(src, records) ==
  [i \in DOMAIN src |->
     LET about == {k \in DOMAIN records : i \in records[k].ambiguity}
         last == CHOOSE k \in about : \A l \in about : l <= k
     IN IF about = {} THEN Classification[src][i] ELSE records[last].option[i]]

EnforcedOf(src, records) == {i \in DOMAIN src : Outcome(src, records)[i] = "enforced"}

\* Mutant: a rule is confirmed as often as statements state it.
Mutant_ConfirmedRules(src, records) ==
  [i \in EnforcedOf(src, records) |-> src[i].meaning]

\* The rules of the enforced statements, each once, at the first that states it.
ConfirmedRules(src, records) ==
  LET stated == EnforcedOf(src, records)
      first == {i \in stated : \A j \in stated : src[j].meaning = src[i].meaning => i <= j}
  IN [i \in first |-> src[i].meaning]

InOrder(acts, approved, committed, published) ==
  /\ \A t \in acts : t <= approved
  /\ approved <= committed /\ committed <= published

\* finalize_customer_policy_authority.  The validator of the finished bundle
\* limits the statements of a resolution record; nothing before it does.
V1Accepts(src, records, approved, committed, published) ==
  /\ Answered(src, records)
  /\ \A i \in DOMAIN src : Outcome(src, records)[i] # "requires_resolution"
  /\ DOMAIN ConfirmedRules(src, records) # {}
  /\ ~ Conflicting(ConfirmedRules(src, records))
  /\ InOrder({records[k].at : k \in DOMAIN records}, approved, committed, published)
  /\ \A k \in DOMAIN records : Cardinality(records[k].ambiguity) <= MaxReferenced

-----------------------------------------------------------------------------
(* Domain track.                                                           *)

\* Mutant: a statement is direct although it is in dispute.
Mutant_Direct(src, catalog, i) ==
  IF catalog # "1.0.0" THEN src[i].actions
  ELSE IF src[i].reading = "enforced" /\ src[i].meaning \in Rules THEN <<src[i].meaning>>
  ELSE src[i].pair

\* What the grammar of the pack makes of statement i, <<>> when it is pending.
\* A recognised rule outside the vocabulary of the pack leaves it pending.
Direct(src, catalog, i) ==
  IF catalog # "1.0.0" THEN src[i].actions
  ELSE IF Classification[src][i] = "enforced" /\ src[i].meaning \in Rules THEN <<src[i].meaning>>
  ELSE src[i].pair

\* Constraints are known by where they come from: the place among the direct
\* meanings of a statement, or in a decision.
DirectIds(src, catalog) ==
  UNION {{<<"direct", i, j>> : j \in DOMAIN Direct(src, catalog, i)} : i \in DOMAIN src}

DirectRules(src, catalog) ==
  [id \in DirectIds(src, catalog) |-> Direct(src, catalog, id[2])[id[3]]]

Decided(d) == {d.decisions[k].statement : k \in DOMAIN d.decisions}

Pending(src, d) == {i \in DOMAIN src \ Decided(d) : Direct(src, d.catalog, i) = <<>>}

DecidedIds(d) ==
  UNION {{<<"decided", k, j>> : j \in DOMAIN d.decisions[k].constraint}
           : k \in DOMAIN d.decisions}

\* The constraints of a draft.
Constraints(src, d) ==
  [id \in DirectIds(src, d.catalog) \cup DecidedIds(d) |->
     IF id[1] = "direct" THEN DirectRules(src, d.catalog)[id]
     ELSE d.decisions[id[2]].constraint[id[3]]]

IRFits(rules) == DOMAIN rules = {} \/ IRAccepts(rules)

Interpretable(src, catalog) == IRFits(DirectRules(src, catalog))

\* _draft_status: ready_for_finalization.
Status(src, d) == Pending(src, d) = {} /\ DOMAIN Constraints(src, d) # {}

\* interpret_policy_with_domain_pack; only here an action catalog asks for a
\* grant before a draft is ready.
Interpreted(src, catalog) ==
  LET d == [catalog |-> catalog, decisions |-> <<>>, ready |-> FALSE]
  IN [d EXCEPT !.ready =
        Status(src, d) /\ (catalog # "1.0.0" => HasGrant(Constraints(src, d)))]

\* Mutant: the control may be of another catalog.
Mutant_Decisions(catalog, i, t) ==
  [statement : {i}, disposition : {"enforced"}, at : {t}, constraint : {<<r>> : r \in Rules}]
  \cup [statement : {i}, disposition : {"informational", "unsupported"}, at : {t},
        constraint : {<<>>}]

\* A decision enforces one control of the pack with its selections, or sets the
\* statement aside.
Decisions(catalog, i, t) ==
  [statement : {i}, disposition : {"enforced"}, at : {t},
   constraint : {<<r>> : r \in {c \in Rules : c.action \in ActionsOf(catalog)}}]
  \cup [statement : {i}, disposition : {"informational", "unsupported"}, at : {t},
        constraint : {<<>>}]

\* Mutant: the draft does not take the new constraint into its status.
Mutant_Applied(src, d, decision) ==
  [d EXCEPT !.decisions = Append(@, decision), !.ready = Status(src, d)]

\* _apply_canonical_decision
Applied(src, d, decision) ==
  LET next == [d EXCEPT !.decisions = Append(@, decision)]
  IN [next EXCEPT !.ready = Status(src, next)]

\* Mutant: only the first new constraint is checked against the others.
Mutant_CanApply(src, d, decision) ==
  /\ decision.statement \in Pending(src, d)
  /\ d.decisions = <<>> => IRFits(Constraints(src, Applied(src, d, decision)))

CanApply(src, d, decision) ==
  /\ decision.statement \in Pending(src, d)
  /\ IRFits(Constraints(src, Applied(src, d, decision)))

\* _reconstruct_domain_draft: the draft that a list of decisions leads to from
\* the source, and whether none of them is refused on the way.  Of the
\* readiness before the last decision nothing is left.
Replayed(src, catalog, decisions) ==
  LET n == Len(decisions)
  IN IF n = 0 THEN Interpreted(src, catalog)
     ELSE Applied(src, [catalog |-> catalog, decisions |-> SubSeq(decisions, 1, n - 1),
                        ready |-> FALSE], decisions[n])

Replays(src, catalog, decisions) ==
  /\ Interpretable(src, catalog)
  /\ \A k \in DOMAIN decisions :
       CanApply(src, Replayed(src, catalog, SubSeq(decisions, 1, k - 1)), decisions[k])

\* finalize_domain_policy_authority
V2Accepts(src, d, approved, committed, published) ==
  /\ d.catalog = "1.0.0"
  /\ Replays(src, d.catalog, d.decisions)
  /\ d = Replayed(src, d.catalog, d.decisions)
  /\ d.ready
  /\ InOrder({d.decisions[k].at : k \in DOMAIN d.decisions}, approved, committed, published)
  /\ ~ Conflicting(Constraints(src, d))
  /\ HasGrant(Constraints(src, d))

-----------------------------------------------------------------------------
Init ==
  /\ source \in Sources
  /\ resolutions = <<>>
  /\ draft = None
  /\ publication = None

Working == publication = None

\* The caller adds a resolution to the list it will hand in.
Resolve(a, option, t) ==
  /\ Working /\ draft = None
  /\ Len(resolutions) < MaxResolutions
  /\ a \in Ambiguities[source]
  /\ option \in Options(source, a)
  /\ resolutions' = Append(resolutions, [ambiguity |-> a, option |-> option, at |-> t])
  /\ UNCHANGED <<source, draft, publication>>

Interpret(catalog) ==
  /\ Working /\ draft = None /\ resolutions = <<>>
  /\ Interpretable(source, catalog)
  /\ draft' = Interpreted(source, catalog)
  /\ UNCHANGED <<source, resolutions, publication>>

\* apply_policy_mapping_decision, on a draft that it reconstructs first.
Decide(decision) ==
  /\ Working /\ draft # None
  /\ Len(draft.decisions) < MaxDecisions
  /\ Replays(source, draft.catalog, draft.decisions)
  /\ draft = Replayed(source, draft.catalog, draft.decisions)
  /\ CanApply(source, draft, decision)
  /\ draft' = Applied(source, draft, decision)
  /\ UNCHANGED <<source, resolutions, publication>>

Publish(version, rules) ==
  /\ publication' = [version |-> version, rules |-> rules]
  /\ UNCHANGED <<source, resolutions, draft>>

FinalizeV1(approved, committed, published) ==
  /\ Working /\ draft = None
  /\ V1Accepts(source, resolutions, approved, committed, published)
  /\ Publish("v1", ConfirmedRules(source, resolutions))

FinalizeV2(approved, committed, published) ==
  /\ Working /\ draft # None
  /\ V2Accepts(source, draft, approved, committed, published)
  /\ Publish("v2", Constraints(source, draft))

Next ==
  \/ \E a \in Ambiguities[source], t \in Times :
       \E option \in Options(source, a) : Resolve(a, option, t)
  \/ \E catalog \in Catalogs : Interpret(catalog)
  \/ draft # None /\ \E i \in Pending(source, draft), t \in Times :
       \E decision \in Decisions(draft.catalog, i, t) : Decide(decision)
  \/ \E approved, committed, published \in Times :
       \/ FinalizeV1(approved, committed, published)
       \/ FinalizeV2(approved, committed, published)

Spec == Init /\ [][Next]_vars

-----------------------------------------------------------------------------
(* Properties.                                                             *)

\* Every variable has its shape (the draft and the resolutions of
\* domain_policy.py and customer_policy.py, and what their finalizers return).
TypeOK ==
  /\ source \in Sources
  /\ \A k \in DOMAIN resolutions :
       /\ resolutions[k].ambiguity \subseteq DOMAIN source
       /\ resolutions[k].option \in
            [resolutions[k].ambiguity -> {"enforced", "unsupported", "informational"}]
       /\ resolutions[k].at \in Times
  /\ draft # None =>
       /\ draft.catalog \in Catalogs /\ draft.ready \in BOOLEAN
       /\ \A k \in DOMAIN draft.decisions :
            LET decision == draft.decisions[k]
            IN /\ decision.statement \in DOMAIN source /\ decision.at \in Times
               /\ IF decision.disposition = "enforced"
                  THEN \E r \in Rules :
                         r.action \in ActionsOf(draft.catalog) /\ decision.constraint = <<r>>
                  ELSE decision.constraint = <<>>
  /\ publication # None => publication.version \in {"v1", "v2"} /\ DOMAIN publication.rules # {}

Shuffled(s) == {[k \in DOMAIN s |-> s[f[k]]] : f \in Bijection(DOMAIN s, DOMAIN s)}

\* What a finalizer would accept if it were called late enough.
V1Publishable(src, records) == \E t \in Times : V1Accepts(src, records, t, t, t)
V2Publishable(src, d) == \E t \in Times : V2Accepts(src, d, t, t, t)

\* Once every ambiguity has an answer, two enforced statements conflict only if
\* one of them had an ambiguous word: whichever answers were given, the
\* disputes between plain statements are settled (_conflict_components,
\* _conflict_ambiguity), however long the chain of conflicts.
AnswersSettleDisputes ==
  Answered(source, resolutions) =>
    \A i, j \in EnforcedOf(source, resolutions) :
      Clash(source, i, j) => {i, j} \cap Lexical(source) # {}

\* Ambiguities have no statement in common, so what the answers amount to does
\* not depend on the order in which they are handed in, although
\* _apply_resolutions lets a later record override an earlier one.
ResolutionOrderImmaterial ==
  Answered(source, resolutions) =>
    \A other \in Shuffled(resolutions) :
      Outcome(source, other) = Outcome(source, resolutions)

\* When answers to everything can still not be published by
\* finalize_customer_policy_authority: when nothing is enforced, when a
\* recovered meaning overlaps another one (the same meaning twice is published
\* once), or when a dispute is longer than a resolution record may be.
AnsweredIsPublishable ==
  Answered(source, resolutions) =>
    ( V1Publishable(source, resolutions) <=>
        /\ EnforcedOf(source, resolutions) # {}
        /\ \A i, j \in EnforcedOf(source, resolutions) :
             Clash(source, i, j) => source[i].meaning = source[j].meaning
        /\ \A a \in Disputes[source] : Cardinality(a) <= MaxReferenced )

\* The direct meanings of the historical catalog neither stop the
\* interpretation nor contradict each other, unless the sentence with two
\* paths is there, which the released grammar does not read
\* (interpret_policy_with_domain_pack).
DirectMeaningsAgree ==
  (\A i \in DOMAIN source : source[i].pair = <<>>) =>
    /\ Interpretable(source, "1.0.0")
    /\ ~ Conflicting(DirectRules(source, "1.0.0"))

\* The decisions of a draft can be made in any order: no other order is refused
\* on the way, and it leads to the same readiness and the same constraints
\* (apply_policy_mapping_decision, _reconstruct_domain_draft).
DecisionOrderImmaterial ==
  draft # None =>
    \A other \in Shuffled(draft.decisions) :
      LET d == Replayed(source, draft.catalog, other)
      IN /\ Replays(source, draft.catalog, other)
         /\ d.ready = draft.ready
         /\ Range(Constraints(source, d)) = Range(Constraints(source, draft))

\* The two tracks mean the same by the same policy.  Let a person decide each
\* pending statement of the domain draft as the answers of the customer track
\* classify it: the v2 finalizer accepts what comes of it exactly when the v1
\* finalizer accepts the answers, a path is granted, no meaning is enforced
\* twice (v1 drops the second, Constraint IR refuses it); and then both publish
\* the same rules.
Comparable(src) ==
  /\ \A i \in DOMAIN src : src[i].meaning \in Rules \cup {None} /\ src[i].pair = <<>>
  /\ \A a \in Disputes[src] : Cardinality(a) <= MaxReferenced

\* In the order of the statements.
AsDecided(src, records) ==
  LET class == Outcome(src, records)
      open == {i \in DOMAIN src : Direct(src, "1.0.0", i) = <<>>}
      nth(k) == CHOOSE i \in open : Cardinality({j \in open : j <= i}) = k
      decided(i) == [statement |-> i, disposition |-> class[i], at |-> records[1].at,
                     constraint |-> IF class[i] = "enforced" THEN <<src[i].meaning>> ELSE <<>>]
  IN [k \in 1..Cardinality(open) |-> decided(nth(k))]

TracksAgree ==
  Comparable(source) /\ resolutions # <<>> /\ Answered(source, resolutions) =>
    LET d == Replayed(source, "1.0.0", AsDecided(source, resolutions))
        rules == ConfirmedRules(source, resolutions)
    IN /\ V2Publishable(source, d) <=>
            /\ V1Publishable(source, resolutions)
            /\ HasGrant(rules)
            /\ Cardinality(DOMAIN rules) = Cardinality(EnforcedOf(source, resolutions))
       /\ V2Publishable(source, d) => Range(Constraints(source, d)) = Range(rules)
=============================================================================
