--------------------------- MODULE MCFlowControl ---------------------------
(***************************************************************************)
(* FlowControl for TLC.  The buffer is small: 3 is one of the sizes with a *)
(* target of BufferSize - 1, and goes through several rounds of credit.    *)
(***************************************************************************)
EXTENDS FlowControl
=============================================================================
