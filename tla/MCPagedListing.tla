---------------------------- MODULE MCPagedListing ----------------------------
(***************************************************************************)
(* An instance of PagedListing for TLC: every sort order, and pages that   *)
(* divide the initial rows and pages that do not; two values of createdAt  *)
(* for four rows, so that ties are met at every place.                     *)
(***************************************************************************)
EXTENDS PagedListing

SomeLimits == {1, 2, 3}
TwoTimes == {1, 2}
=============================================================================
