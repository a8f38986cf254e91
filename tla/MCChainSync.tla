---------------------------- MODULE MCChainSync ----------------------------
(***************************************************************************)
(* Instances of ChainSync for TLC: three blocks, a reorganisation depth of *)
(* two (so that one block at the tip can be replaced and the server can    *)
(* reach the two below it) and two resets.                                 *)
(***************************************************************************)
EXTENDS ChainSync
=============================================================================
