----------------------------- MODULE MCDmaTransfer -----------------------------
(* Two harts, each computing two results of two inputs, at every quantum from  *)
(* the default of one cycle up to the largest the driver tolerates.            *)
EXTENDS DmaTransfer

SmallQuanta == 1..4
=============================================================================
