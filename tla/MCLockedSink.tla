--------------------------- MODULE MCLockedSink ---------------------------
(***************************************************************************)
(* LockedSink for TLC: three clones are two waiters and an owner.          *)
(***************************************************************************)
EXTENDS LockedSink
=============================================================================
