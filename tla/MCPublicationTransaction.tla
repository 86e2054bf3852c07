---------------------- MODULE MCPublicationTransaction ----------------------
(***************************************************************************)
(* The paths that two publications of one policy write, in the order       *)
(* publish_review_file stages them (bundle and receipt, which are staged   *)
(* alike one after the other, are one path here), and the payloads of its  *)
(* attempts: the first publication, a later one of the same policy (its    *)
(* timestamp is in everything but the contract), and one of an edited      *)
(* policy under the same authority reference.                              *)
(***************************************************************************)
EXTENDS PublicationTransaction

MCImmutable == {1, 5, 6}
MCContents == {"a", "b"}

(*                contract deployed snapshots  manifest bundle index         *)
First_a  == << "a",     "a",     "a", Absent, "a",     "a",   "a" >>
Later_a  == << "a",     "b",     Absent, "b", "b",     "b",   "b" >>
Edited_b == << "b",     "b",     Absent, "b", "b",     "b",   "b" >>

MCPayloads == {First_a, Later_a, Edited_b}
MCSamePolicy == {First_a, Later_a}
=============================================================================
