---------------------------- MODULE MCCollection ----------------------------
(* MCCollection.cfg: two sources of two pages each and three runs over them,  *)
(* with a fault, enough for a first source to starve the second.              *)
(* MCCollectionQuota.cfg: a page each and no fault, but comparisons with      *)
(* candidates that may change, and runs enough to use up all attempts.        *)
EXTENDS Collection
=============================================================================
