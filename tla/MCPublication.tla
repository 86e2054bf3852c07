--------------------------- MODULE MCPublication ---------------------------
(***************************************************************************)
(* Two policy files and two texts that compile to different authority      *)
(* references.  Either file may say either text, so that two files publish *)
(* under one reference and one file under two.                             *)
(***************************************************************************)
EXTENDS Publication, TLC

MCRefOf == ("a" :> "r1") @@ ("b" :> "r2")
MCPolicies == DOMAIN MCRefOf
MCSymmetry == Permutations(Stems) \cup Permutations(Publishers)
=============================================================================
