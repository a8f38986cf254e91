------------------------- MODULE MCCommitmentStore -------------------------
(***************************************************************************)
(* Instances of CommitmentStore for TLC.                                   *)
(***************************************************************************)
EXTENDS CommitmentStore
=============================================================================
