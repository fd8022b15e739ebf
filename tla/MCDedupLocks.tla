---------------------------- MODULE MCDedupLocks ----------------------------
(* Deliveries for TLC: two batches of one action that share two keys in      *)
(* opposite row order, a second delivery of the first batch, and a batch of  *)
(* another action, which does not deduplicate, on the rows of the first.     *)
EXTENDS DedupLocks

FourDeliveries == {"b1", "b1again", "b2", "other"}
ActionOf == [t \in FourDeliveries |-> IF t = "other" THEN 2 ELSE 1]
BatchOf == [t \in FourDeliveries |-> CASE t = "b2" -> 2 [] t = "other" -> 3 [] OTHER -> 1]
SliceOf == [t \in FourDeliveries |-> IF t = "b2" THEN {3, 4} ELSE {1, 2}]
KeyOf == <<<<2, 1, 1, 2>>, <<0, 0, 0, 0>>>>
=============================================================================
