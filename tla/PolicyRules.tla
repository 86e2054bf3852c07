---------------------------- MODULE PolicyRules ----------------------------
(***************************************************************************)
(* What a policy means once it is made of controls, and the checks of that *)
(* meaning.  A control is of one of three types and has a value, which is  *)
(* a literal of the source or an organizational binding that a person has  *)
(* to answer.  A control with its value is a rule: the constraint of       *)
(* domain_policy.py, and the rule it is lowered to, are the same record.   *)
(*                                                                         *)
(* Three checks of the meaning exist in the code and do not agree:         *)
(* IRAccepts (constraint_ir.py), Conflicting (customer_policy.py) and      *)
(* ActionPolicyAccepts (action_policy.py).  They are indifferent to the    *)
(* order of the rules, which are therefore a function of any identities.   *)
(***************************************************************************)
EXTENDS Naturals, Sequences, FiniteSets

CONSTANTS
  Literals,    \* roles, exact paths and path prefixes
  Bindings,    \* identities of organizational bindings
  StartsWith,  \* the pairs <<v, p>> of literals such that v begins with p
  WellFormed   \* the literals that each type of control accepts

ASSUME LiteralsAssumption == Literals \cap Bindings = {}

ControlTypes == {"acting_role", "exact_path_access", "prefix_path_access"}

ASSUME WellFormedAssumption == WellFormed \in [ControlTypes -> (SUBSET Literals) \ {{}}]

Effects(type) == IF type = "acting_role" THEN {"require"} ELSE {"allow", "deny"}

\* An action policy (catalog 3.0.0) tells apart the creation and the change of
\* a file; the historical catalog only has the change.
Catalogs == {"1.0.0", "3.0.0"}
ActionsOf(catalog) ==
  IF catalog = "1.0.0" THEN {"modify"} ELSE {"create", "modify"}

Controls ==
  UNION {[action : {"create", "modify"}, type : {type}, effect : Effects(type),
          value : WellFormed[type] \cup Bindings] : type \in ControlTypes}

Rules == {c \in Controls : c.value \in Literals}

-----------------------------------------------------------------------------
\* The constraint that stands for control c, answers being what people
\* answered to the bindings.
Rule(c, answers) ==
  IF c.value \in Bindings THEN [c EXCEPT !.value = answers[c.value].value] ELSE c

IsPathRule(r) == r.type # "acting_role"
Grants(r) == IsPathRule(r) /\ r.effect = "allow"
HasGrant(rules) == \E i \in DOMAIN rules : Grants(rules[i])

Opposed(l, r) == {l.effect, r.effect} = {"allow", "deny"}

SameSelector(l, r) == [l EXCEPT !.effect = r.effect] = r

-----------------------------------------------------------------------------
\* Two rules of a policy of the historical catalog are in conflict when they
\* are the same rule, or when one allows a path the other denies.
RulesConflict(l, r) ==
  \/ l = r
  \/ /\ IsPathRule(l) /\ IsPathRule(r)
     /\ Opposed(l, r)
     /\ \/ l.value = r.value
        \/ r.type = "prefix_path_access" /\ <<l.value, r.value>> \in StartsWith
        \/ l.type = "prefix_path_access" /\ <<r.value, l.value>> \in StartsWith

Conflicting(rules) ==
  \E i, j \in DOMAIN rules : i # j /\ RulesConflict(rules[i], rules[j])

\* Constraint IR refuses a constraint that is there twice and two constraints
\* that differ in nothing but an allow and a deny.
IRAccepts(rules) ==
  /\ DOMAIN rules # {}
  /\ \A i, j \in DOMAIN rules : i # j =>
       /\ rules[i] # rules[j]
       /\ ~ (SameSelector(rules[i], rules[j]) /\ Opposed(rules[i], rules[j]))

\* An action policy has at most one role per action, no selector twice within
\* an action, and at least one grant.  A deny inside an allowed prefix is fine.
ActionPolicyAccepts(rules) ==
  /\ \A i, j \in DOMAIN rules : i # j /\ rules[i].action = rules[j].action =>
       IF IsPathRule(rules[i])
       THEN ~ SameSelector(rules[i], rules[j])
       ELSE ~ IsPathRule(rules[j]) => rules[i].value = rules[j].value
  /\ HasGrant(rules)

=============================================================================
