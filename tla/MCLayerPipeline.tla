---------------------------- MODULE MCLayerPipeline ----------------------------
(* Two harts, three layers of four outputs (fc1, fc2, fc3 have 120, 84 and 10). *)
EXTENDS LayerPipeline

TwoHarts == {0, 1}
=============================================================================
