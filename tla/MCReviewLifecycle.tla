------------------------- MODULE MCReviewLifecycle -------------------------
(***************************************************************************)
(* One person and two snapshots: a rollback has something to restore in    *)
(* either direction, and the second snapshot may freeze a review that was  *)
(* rolled back.  With two snapshots no lifecycle is longer than its four   *)
(* transitions and two rollbacks, so MaxLifecycle = 6 cuts nothing off.    *)
(***************************************************************************)
EXTENDS ReviewLifecycle
=============================================================================
