---------------------------- MODULE MCHeadReview ----------------------------
(* HeadReview for TLC: every bound is given its value by the configuration. *)
EXTENDS HeadReview
=============================================================================
