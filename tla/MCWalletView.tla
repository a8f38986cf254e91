---------------------------- MODULE MCWalletView ----------------------------
(***************************************************************************)
(* Instances of WalletView for TLC: calls are interchangeable.             *)
(***************************************************************************)
EXTENDS WalletView, TLC

CallerSymmetry == Permutations(Callers)
=============================================================================
