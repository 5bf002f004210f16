------------------------------ MODULE MCLrScBus ------------------------------
(***************************************************************************)
(* Two harts and the DMA on two one-bit words, with a short window.        *)
(***************************************************************************)
EXTENDS LrScBus
=============================================================================
