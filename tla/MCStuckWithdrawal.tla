------------------------- MODULE MCStuckWithdrawal -------------------------
(* Instance of StuckWithdrawal for TLC: two equal notes around a larger one. *)
EXTENDS StuckWithdrawal

MCAmount == [n \in Notes |-> IF n = 2 THEN 3 ELSE 2]
=============================================================================
