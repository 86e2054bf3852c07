------------------------ MODULE MCPolicyTranslation ------------------------
(***************************************************************************)
(* Two roles, two paths, one prefix that begins the first path, and one    *)
(* binding of each path type.  The candidates put side by side, at the     *)
(* smallest size that has each, the cases the operations tell apart:       *)
(* clauses the grammar recognised and pending ones, each status, literals  *)
(* and bindings, rules that conflict only once a binding is answered, what *)
(* v2 cannot represent, both catalogs, and proposals that are not valid.   *)
(***************************************************************************)
EXTENDS PolicyTranslation

MCLiterals == {"editor", "owner", "docs/", "docs/a", "src/b"}
MCBindings == {"$path"}
MCStartsWith == {<<v, v>> : v \in MCLiterals} \cup {<<"docs/a", "docs/">>}
MCWellFormed ==
  [type \in ControlTypes |->
     CASE type = "acting_role"        -> {"editor", "owner"}
       [] type = "exact_path_access"  -> {"docs/a", "src/b"}
       [] type = "prefix_path_access" -> {"docs/"}]

Role(action, value) ==
  [action |-> action, type |-> "acting_role", effect |-> "require", value |-> value]
Exact(action, effect, value) ==
  [action |-> action, type |-> "exact_path_access", effect |-> effect, value |-> value]
Prefix(effect) ==
  [action |-> "modify", type |-> "prefix_path_access", effect |-> effect, value |-> "docs/"]

Clause(status, controls) ==
  [direct |-> <<>>, status |-> status, controls |-> controls,
   residual |-> FALSE, limitation |-> "none"]
Direct(controls) == [Clause("fully_represented", controls) EXCEPT !.direct = controls]
Pending(controls) == Clause("fully_represented", controls)
Limited(status, controls, limitation) ==
  [Clause(status, controls) EXCEPT !.residual = TRUE, !.limitation = limitation]

Proposal(catalog, clauses) ==
  [catalog |-> catalog, clauses |-> clauses, bindings |-> <<>>,
   runs |-> <<[created |-> 0, completed |-> 1]>>]
Asking(p) == [p EXCEPT !.bindings = [b \in {"$path"} |-> "exact_path_access"]]

\* A second run that ends at the last of the times: all follows at that time.
Late(p) == [p EXCEPT !.runs = Append(@, [created |-> 1, completed |-> 2])]

\* An allowed prefix and the question which path to deny: one answer conflicts.
Conflict == Late(Asking(Proposal("1.0.0",
  <<Direct(<<Prefix("allow")>>), Pending(<<Exact("modify", "deny", "$path")>>)>>)))

Question == Asking(Proposal("1.0.0", <<Pending(<<Exact("modify", "allow", "$path")>>)>>))

\* A conflict within one clause, in several controls: v3 could represent it.
ClauseConflict == Proposal("1.0.0",
  <<Pending(<<Prefix("allow"), Exact("modify", "deny", "docs/a")>>)>>)

Partial == Proposal("1.0.0",
  <<Direct(<<Role("modify", "editor")>>),
    Limited("partially_represented", <<Prefix("allow")>>, "connection")>>)

DenyOnly == Late(Proposal("1.0.0",
  <<Direct(<<Exact("modify", "deny", "docs/a")>>),
    Limited("entirely_unsupported", <<>>, "other"),
    Clause("informational", <<>>)>>))

Actions == Proposal("3.0.0",
  <<Direct(<<Exact("create", "allow", "src/b"), Exact("modify", "allow", "src/b")>>)>>)

ActionRoles == Proposal("3.0.0",
  <<Direct(<<Role("modify", "editor")>>), Direct(<<Role("modify", "owner")>>)>>)

Refused ==
  {[Conflict EXCEPT !.runs[1].completed = 2],
   [Question EXCEPT !.bindings = <<>>],
   [Partial EXCEPT !.clauses[1].status = "informational", !.clauses[1].controls = <<>>],
   [Actions EXCEPT !.clauses[1].direct = <<>>]}

MCCandidates ==
  {Conflict, Question, ClauseConflict, Partial, DenyOnly, Actions, ActionRoles}
    \cup Refused
=============================================================================
