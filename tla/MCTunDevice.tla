---------------------------- MODULE MCTunDevice ----------------------------
(***************************************************************************)
(* An instance of TunDevice by itself; see MCKernel for the others.        *)
(***************************************************************************)
EXTENDS TunDevice
=============================================================================
