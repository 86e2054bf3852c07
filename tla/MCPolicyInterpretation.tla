----------------------- MODULE MCPolicyInterpretation -----------------------
(***************************************************************************)
(* The texts of which the policies are made, each the smallest with its    *)
(* case: what the released grammar enforces, alone and in conflict with    *)
(* another; the same with an ambiguous word, whose meaning is recovered or *)
(* is lost; the sentence with two paths; a rule that no domain pack        *)
(* represents; prose; and the sentences of the action grammar.             *)
(***************************************************************************)
EXTENDS PolicyInterpretation

MCLiterals == {"editor", "docs/", "docs/a", "src/b"}
MCBindings == {}
MCStartsWith == {<<v, v>> : v \in MCLiterals} \cup {<<"docs/a", "docs/">>}
MCWellFormed ==
  [type \in ControlTypes |->
     CASE type = "acting_role"        -> {"editor"}
       [] type = "exact_path_access"  -> {"docs/a", "src/b"}
       [] type = "prefix_path_access" -> {"docs/"}]

Role == [action |-> "modify", type |-> "acting_role", effect |-> "require", value |-> "editor"]
Exact(action, effect, value) ==
  [action |-> action, type |-> "exact_path_access", effect |-> effect, value |-> value]
Prefix(effect) ==
  [action |-> "modify", type |-> "prefix_path_access", effect |-> effect, value |-> "docs/"]
Threshold ==
  [action |-> "modify", type |-> "approval_threshold", effect |-> "require", value |-> "editor"]

Statement(reading, meaning, actions) ==
  [reading |-> reading, meaning |-> meaning, pair |-> <<>>, actions |-> actions]
Plain(rule) == Statement("enforced", rule, IF rule.effect = "require" THEN <<>> ELSE <<rule>>)
Vague(rule) == Statement("requires_resolution", rule, <<>>)
Prose == Statement("informational", None, <<>>)
Creation(effect) == Statement("unsupported", None, <<Exact("create", effect, "src/b")>>)
Both(one, other) ==
  [Statement("unsupported", None, <<>>) EXCEPT
     !.pair = <<Exact("modify", "allow", one), Exact("modify", "allow", other)>>]

AllowDocs == Plain(Prefix("allow"))
DenyDocs == Plain(Prefix("deny"))
AllowA == Plain(Exact("modify", "allow", "docs/a"))
DenyA == Plain(Exact("modify", "deny", "docs/a"))
AllowB == Plain(Exact("modify", "allow", "src/b"))
VagueA == Vague(Exact("modify", "allow", "docs/a"))

Texts ==
  {AllowDocs, AllowA, DenyA, AllowB, Plain(Role), Plain(Threshold), VagueA, Vague(None),
   Prose, Creation("deny"), Both("docs/a", "src/b")}

\* A chain of conflicts whose ends are not in conflict, in two orders, and a
\* dispute together with two vague statements.
Longer ==
  {<<AllowDocs, DenyA, AllowA>>, <<DenyA, AllowA, AllowDocs>>, <<DenyDocs, AllowA, DenyA>>,
   <<AllowB, VagueA, Prose>>, <<DenyA, VagueA, VagueA>>, <<AllowB, AllowB, VagueA>>,
   <<AllowB, AllowB, VagueA, Vague(None)>>, <<AllowA, Prose, Prose>>}

MCSources == {<<t>> : t \in Texts} \cup {<<t, u>> : t, u \in Texts} \cup Longer
=============================================================================
