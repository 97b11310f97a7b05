---------------------------- MODULE MCSubscriptions ----------------------------
(***************************************************************************)
(* An instance of Subscriptions for TLC: a target for each channel, one    *)
(* that fits both and one that fits none, so that every subscription can   *)
(* be given another valid target and an invalid one.                       *)
(***************************************************************************)
EXTENDS Subscriptions, TLC

CONSTANTS e1, r1, r2, r3, r4, s1, s2

Fits == [x \in Targets |->
           CASE x = "address" -> {"email"}
             [] x = "url" -> {"webhook"}
             [] x = "urlwithaddress" -> {"email", "webhook"}
             [] x = "junk" -> {}]

AllOrders == [e \in Events |-> "order"]

Symmetry == Permutations(Requests) \cup Permutations(Ids)
=============================================================================
