-------------------------------- MODULE MCMux --------------------------------
(***************************************************************************)
(* Mux for TLC: few ids, so that they run out, and few packets.            *)
(***************************************************************************)
EXTENDS Mux
=============================================================================
