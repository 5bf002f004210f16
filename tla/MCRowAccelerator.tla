--------------------------- MODULE MCRowAccelerator ---------------------------
(***************************************************************************)
(* Two harts with two filters of three rows each; rows longer than a FIFO. *)
(***************************************************************************)
EXTENDS RowAccelerator
=============================================================================
