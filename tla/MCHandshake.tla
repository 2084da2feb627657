---------------------------- MODULE MCHandshake ----------------------------
(***************************************************************************)
(* Handshake for TLC: udp, password and certificate authentication, every  *)
(* pair of configurations.                                                 *)
(***************************************************************************)
EXTENDS Handshake
=============================================================================
