------------------------------ MODULE MCServer ------------------------------
(* The instance of Server that TLC checks: one connection of each kind. *)
EXTENDS Server
=============================================================================
