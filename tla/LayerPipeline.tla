----------------------------- MODULE LayerPipeline -----------------------------
(***************************************************************************)
(* How the two-core programs split the network (sw/2-cores/.../main.cpp):  *)
(* in every layer each hart computes one half of the outputs from all the  *)
(* outputs of the layer before, the other hart's half included, and hart 0 *)
(* finally compares the scores of both.  Nothing makes a hart wait for the *)
(* other between two layers, so a hart may read an output that has not     *)
(* been computed yet.                                                      *)
(*                                                                         *)
(* The layers are the dense ones (do_fc1, do_fc2, do_fc3), whose inputs    *)
(* are all the outputs of the layer before; they have one width here.  A   *)
(* value is what matters about it: the one the array starts with, the      *)
(* right one or a wrong one.                                               *)
(***************************************************************************)
EXTENDS Integers

CONSTANTS
  Harts,  \* {0} on the single-core platforms, {0, 1} on the others
  Layers, \* number of layers
  Half,   \* outputs of a layer each hart computes
  Golden  \* use_golden_layer_input

ASSUME PipelineAssumption ==
  /\ Harts \in {{0}, {0, 1}}
  /\ Layers \in Nat \ {0}
  /\ Half \in Nat \ {0}
  /\ Golden \in BOOLEAN

VARIABLES
  layer,  \* the layer each hart computes
  output, \* m: the output it computes
  input,  \* h: the input it sends to its accelerator next
  exact,  \* whether the inputs sent for this output were all right
  pass,   \* pass of each hart's current do_fcX
  failed, \* whether some do_fcX has printed FAILED
  value,  \* fcX_quantized_result, layer by layer
  scanned,\* scores show_predict_result has compared
  scores  \* whether those scores were all right

vars == <<layer, output, input, exact, pass, failed, value, scanned, scores>>

\* start and end of do_fcX.
Width == IF Harts = {0} THEN Half ELSE 2 * Half
Start(h) == IF h = 0 THEN 0 ELSE Half
\* Faulty: the last output is left out.
EndShort(h) == IF h = 0 THEN Half ELSE Width - 1
End(h) == IF h = 0 THEN Half ELSE Width

Outputs == 0 .. Width - 1

\* The inputs of the first layer are constants of the program.
Right(l, i) == l = 0 \/ Golden \/ value[l][i] = "right"

Init ==
  /\ layer = [h \in Harts |-> 1]
  /\ output = [h \in Harts |-> Start(h)]
  /\ input = [h \in Harts |-> 0]
  /\ exact = [h \in Harts |-> TRUE]
  /\ pass = [h \in Harts |-> TRUE]
  /\ failed = FALSE
  /\ value = [l \in 1..Layers |-> [i \in Outputs |-> "initial"]]
  /\ scanned = 0
  /\ scores = TRUE

\* Faulty: the loop over the inputs runs once too often.
SendInputTooOften(h) ==
  /\ layer[h] <= Layers /\ output[h] < End(h) /\ input[h] <= Width
  /\ exact' = [exact EXCEPT ![h] = @ /\ (input[h] = Width \/ Right(layer[h] - 1, input[h]))]
  /\ input' = [input EXCEPT ![h] = @ + 1]
  /\ UNCHANGED <<layer, output, pass, failed, value, scanned, scores>>

\* write_data_to_ACC of one input and its weight.
SendInput(h) ==
  /\ layer[h] <= Layers /\ output[h] < End(h) /\ input[h] < Width
  /\ exact' = [exact EXCEPT ![h] = @ /\ Right(layer[h] - 1, input[h])]
  /\ input' = [input EXCEPT ![h] = @ + 1]
  /\ UNCHANGED <<layer, output, pass, failed, value, scanned, scores>>

\* Faulty: pass is overwritten by every comparison.
StoreOutputForgetting(h) ==
  /\ layer[h] <= Layers /\ output[h] < End(h) /\ input[h] = Width
  /\ pass' = [pass EXCEPT ![h] = exact[h]]
  /\ value' = [value EXCEPT ![layer[h]][output[h]] = IF exact[h] THEN "right" ELSE "wrong"]
  /\ output' = [output EXCEPT ![h] = @ + 1]
  /\ input' = [input EXCEPT ![h] = 0]
  /\ exact' = [exact EXCEPT ![h] = TRUE]
  /\ UNCHANGED <<layer, failed, scanned, scores>>

\* read_data_from_ACC, the comparison with the golden output, the quantised store.
StoreOutput(h) ==
  /\ layer[h] <= Layers /\ output[h] < End(h) /\ input[h] = Width
  /\ pass' = [pass EXCEPT ![h] = @ /\ exact[h]]
  /\ value' = [value EXCEPT ![layer[h]][output[h]] = IF exact[h] THEN "right" ELSE "wrong"]
  /\ output' = [output EXCEPT ![h] = @ + 1]
  /\ input' = [input EXCEPT ![h] = 0]
  /\ exact' = [exact EXCEPT ![h] = TRUE]
  /\ UNCHANGED <<layer, failed, scanned, scores>>

\* do_fcX prints PASS or FAILED and returns; main calls the next layer at once.
FinishLayer(h) ==
  /\ layer[h] <= Layers /\ output[h] = End(h)
  /\ failed' = (failed \/ ~pass[h])
  /\ pass' = [pass EXCEPT ![h] = TRUE]
  /\ layer' = [layer EXCEPT ![h] = @ + 1]
  /\ output' = [output EXCEPT ![h] = Start(h)]
  /\ UNCHANGED <<input, exact, value, scanned, scores>>

\* One score of show_predict_result.
ScanScore ==
  /\ layer[0] > Layers /\ scanned < Width
  /\ scores' = (scores /\ value[Layers][scanned] = "right")
  /\ scanned' = scanned + 1
  /\ UNCHANGED <<layer, output, input, exact, pass, failed, value>>

Next == (\E h \in Harts : SendInput(h) \/ StoreOutput(h) \/ FinishLayer(h)) \/ ScanScore

Spec == Init /\ [][Next]_vars

-----------------------------------------------------------------------------
TypeOK ==
  /\ layer \in [Harts -> 1 .. Layers + 1]
  /\ output \in [Harts -> Outputs \cup {Width}]
  /\ \A h \in Harts : output[h] \in Start(h) .. End(h)
  /\ input \in [Harts -> 0 .. Width]
  /\ exact \in [Harts -> BOOLEAN]
  /\ pass \in [Harts -> BOOLEAN]
  /\ failed \in BOOLEAN
  /\ value \in [1..Layers -> [Outputs -> {"initial", "right", "wrong"}]]
  /\ scanned \in 0 .. Width
  /\ scores \in BOOLEAN

\* How far a hart is, counted in the inputs it has sent and the results it has read.
Progress(h) ==
  ((layer[h] - 1) * Half + output[h] - Start(h)) * (Width + 1) + input[h]

\* A hart sends a value that is not final only when it is more than that input's
\* position ahead of the other hart: the slack by which programs without a barrier
\* get away with it, as long as dma_lock keeps the harts in step.
StaleNeedsLead ==
  [][\A h \in Harts :
       SendInput(h) /\ layer[h] > 1 /\ ~Golden /\ value[layer[h] - 1][input[h]] = "initial"
         => \E g \in Harts : Progress(h) - Progress(g) > input[h]]_vars

\* A wrong output is never silent: whenever one is in the arrays, the do_fcX that
\* stored it is going to print FAILED, or has.
WrongIsReported ==
  (\E l \in 1..Layers, i \in Outputs : value[l][i] = "wrong")
    => failed \/ \E h \in Harts : ~pass[h]

\* The prediction is made from the scores of the finished network.
PredictsFromFinalScores == scanned = Width => scores
=============================================================================
