------------------------- MODULE MCAuthorityBundles -------------------------
(***************************************************************************)
(* Two revisions of a policy and two ways to answer it: one meaning that   *)
(* both revisions lead to, one of its own, and one that grants no path.    *)
(***************************************************************************)
EXTENDS AuthorityBundles

MCRulesOf ==
  [sc \in Sources \X Choices |->
     CASE sc = <<"s1", "c1">> -> "allow docs"
       [] sc = <<"s2", "c1">> -> "allow docs"
       [] sc = <<"s1", "c2">> -> "allow src"
       [] sc = <<"s2", "c2">> -> "deny src"]

\* Every two of them differ in the source, in the authority or in the answers,
\* some with one meaning.
MCContents ==
  {<<"s1", "a1", "c1">>, <<"s2", "a1", "c1">>, <<"s1", "a2", "c1">>,
   <<"s1", "a1", "c2">>, <<"s2", "a1", "c2">>}
MCGranting == {"allow docs", "allow src"}
=============================================================================
