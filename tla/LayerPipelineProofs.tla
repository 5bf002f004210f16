-------------------------- MODULE LayerPipelineProofs --------------------------
(***************************************************************************)
(* Proofs about LayerPipeline, for any number of layers of any width: the  *)
(* self-checks report every wrong output, and a stale input needs a lead.  *)
(***************************************************************************)
EXTENDS LayerPipeline, TLAPS

\* The outputs a hart has already stored.
Stored ==
  \A h \in Harts, l \in 1..Layers, i \in Outputs :
    /\ i \in Start(h) .. End(h) - 1
    /\ l < layer[h] \/ (l = layer[h] /\ i < output[h])
    => value[l][i] # "initial"

IInv == TypeOK /\ WrongIsReported /\ Stored

LEMMA Widths ==
  /\ Half \in Nat \ {0} /\ Width \in Nat \ {0} /\ Layers \in Nat \ {0}
  /\ \A h \in Harts :
       Start(h) \in Nat /\ End(h) \in Nat /\ End(h) = Start(h) + Half /\ End(h) <= Width
BY PipelineAssumption DEF Width, Start, End

\* Every output belongs to a hart.
LEMMA Halves ==
  ASSUME NEW i \in Outputs
  PROVE  \E h \in Harts : i \in Start(h) .. End(h) - 1
<1>1. CASE Harts = {0}
  BY <1>1, PipelineAssumption DEF Width, Start, End, Outputs
<1>2. CASE Harts = {0, 1}
  <2>1. i < Half => i \in Start(0) .. End(0) - 1
    BY <1>2, PipelineAssumption DEF Width, Start, End, Outputs
  <2>2. i >= Half => i \in Start(1) .. End(1) - 1
    BY <1>2, PipelineAssumption DEF Width, Start, End, Outputs
  <2> QED BY <1>2, <2>1, <2>2, PipelineAssumption DEF Outputs
<1> QED BY <1>1, <1>2, PipelineAssumption

LEMMA InitIInv == Init => IInv
<1> SUFFICES ASSUME Init PROVE IInv
  OBVIOUS
<1> USE PipelineAssumption, Widths
<1>1. TypeOK
  <2>1. [h \in Harts |-> 1] \in [Harts -> 1 .. Layers + 1]
    OBVIOUS
  <2>2. [h \in Harts |-> Start(h)] \in [Harts -> Outputs \cup {Width}]
    BY DEF Outputs
  <2>3. [h \in Harts |-> 0] \in [Harts -> 0 .. Width]
    OBVIOUS
  <2>4. [l \in 1..Layers |-> [i \in Outputs |-> "initial"]]
          \in [1..Layers -> [Outputs -> {"initial", "right", "wrong"}]]
    OBVIOUS
  <2>5. ASSUME NEW h \in Harts PROVE output[h] \in Start(h) .. End(h)
    <3>1. output[h] = Start(h)
      BY DEF Init
    <3>2. Start(h) \in Nat /\ End(h) = Start(h) + Half
      OBVIOUS
    <3> QED BY <3>1, <3>2
  <2> QED BY <2>1, <2>2, <2>3, <2>4, <2>5 DEF Init, TypeOK
<1>2. WrongIsReported
  BY DEF Init, WrongIsReported
<1>3. Stored
  BY DEF Init, Stored
<1> QED BY <1>1, <1>2, <1>3 DEF IInv

LEMMA SendInputIInv ==
  ASSUME IInv, NEW h \in Harts, SendInput(h)
  PROVE  IInv'
<1> USE PipelineAssumption, Widths DEF IInv
<1>1. PICK e \in BOOLEAN : exact' = [exact EXCEPT ![h] = e]
  BY DEF SendInput, Right
<1>2. TypeOK'
  BY <1>1 DEF TypeOK, SendInput
<1>3. WrongIsReported'
  BY DEF SendInput, WrongIsReported
<1>4. Stored'
  BY DEF SendInput, Stored
<1> QED BY <1>2, <1>3, <1>4

LEMMA StoreOutputIInv ==
  ASSUME IInv, NEW h \in Harts, StoreOutput(h)
  PROVE  IInv'
<1> USE PipelineAssumption, Widths DEF IInv
<1>1. PICK p \in BOOLEAN : pass' = [pass EXCEPT ![h] = p] /\ (p => pass[h] /\ exact[h])
  BY DEF StoreOutput, TypeOK
<1>2. PICK v \in {"right", "wrong"} :
        /\ value' = [value EXCEPT ![layer[h]][output[h]] = v]
        /\ v = "wrong" => ~exact[h]
  BY DEF StoreOutput
<1>3. layer[h] \in 1..Layers /\ output[h] \in Outputs
  <2>1. layer[h] \in 1..Layers
    BY DEF StoreOutput, TypeOK
  <2>2. output[h] \in Start(h) .. End(h) /\ output[h] < End(h)
    BY DEF StoreOutput, TypeOK
  <2> QED BY <2>1, <2>2 DEF Outputs
<1>4. \A l \in 1..Layers, i \in Outputs :
        value'[l][i] = IF l = layer[h] /\ i = output[h] THEN v ELSE value[l][i]
  BY <1>2, <1>3 DEF TypeOK
<1>5. TypeOK'
  <2>1. value' \in [1..Layers -> [Outputs -> {"initial", "right", "wrong"}]]
    BY <1>2, <1>3 DEF TypeOK
  <2>2. output' \in [Harts -> Outputs \cup {Width}]
    <3>1. output[h] + 1 \in Outputs \cup {Width}
      BY <1>3 DEF Outputs
    <3> QED BY <3>1 DEF StoreOutput, TypeOK
  <2>3. \A g \in Harts : output'[g] \in Start(g) .. End(g)
    BY <1>3 DEF StoreOutput, TypeOK
  <2> QED BY <1>1, <2>1, <2>2, <2>3 DEF TypeOK, StoreOutput
<1>6. WrongIsReported'
  <2>1. failed' = failed
    BY DEF StoreOutput
  <2>2. \A g \in Harts : pass'[g] => pass[g]
    BY <1>1 DEF TypeOK
  <2>3. v = "wrong" => ~pass'[h]
    BY <1>1, <1>2 DEF TypeOK
  <2> QED BY <1>2, <1>4, <2>1, <2>2, <2>3 DEF WrongIsReported
<1>7. Stored'
  <2> SUFFICES ASSUME NEW g \in Harts, NEW l \in 1..Layers, NEW i \in Outputs,
                      i \in Start(g) .. End(g) - 1,
                      l < layer'[g] \/ (l = layer'[g] /\ i < output'[g])
               PROVE  value'[l][i] # "initial"
    BY DEF Stored
  <2>1. CASE l = layer[h] /\ i = output[h]
    BY <1>4, <2>1
  <2>2. CASE ~(l = layer[h] /\ i = output[h])
    <3>1. layer' = layer /\ output' = [output EXCEPT ![h] = @ + 1]
      BY DEF StoreOutput
    <3>2. output[g] \in Nat /\ output'[g] = IF g = h THEN output[g] + 1 ELSE output[g]
      <4>1. output[g] \in Start(g) .. End(g)
        BY DEF TypeOK
      <4>2. output[g] \in Nat
        BY <4>1
      <4> QED BY <3>1, <4>2 DEF TypeOK
    <3>3. l < layer[g] \/ (l = layer[g] /\ i < output[g])
      BY <2>2, <3>1, <3>2 DEF Outputs
    <3> QED BY <1>4, <2>2, <3>3 DEF Stored
  <2> QED BY <2>1, <2>2
<1> QED BY <1>5, <1>6, <1>7

LEMMA FinishLayerIInv ==
  ASSUME IInv, NEW h \in Harts, FinishLayer(h)
  PROVE  IInv'
<1> USE PipelineAssumption, Widths DEF IInv
<1>1. TypeOK'
  <2>1. failed' \in BOOLEAN
    BY DEF FinishLayer
  <2>2. layer' \in [Harts -> 1 .. Layers + 1]
    BY DEF FinishLayer, TypeOK
  <2>3. output' \in [Harts -> Outputs \cup {Width}]
    <3>1. Start(h) \in Outputs \cup {Width}
      BY DEF Outputs
    <3> QED BY <3>1 DEF FinishLayer, TypeOK
  <2>4. \A g \in Harts : output'[g] \in Start(g) .. End(g)
    BY DEF FinishLayer, TypeOK
  <2> QED BY <2>1, <2>2, <2>3, <2>4 DEF TypeOK, FinishLayer
<1>2. WrongIsReported'
  <2>1. failed' <=> failed \/ ~pass[h]
    BY DEF FinishLayer
  <2>2. \A g \in Harts \ {h} : pass'[g] = pass[g]
    BY DEF FinishLayer, TypeOK
  <2>3. value' = value
    BY DEF FinishLayer
  <2> QED BY <2>1, <2>2, <2>3 DEF WrongIsReported
<1>3. Stored'
  <2> SUFFICES ASSUME NEW g \in Harts, NEW l \in 1..Layers, NEW i \in Outputs,
                      i \in Start(g) .. End(g) - 1,
                      l < layer'[g] \/ (l = layer'[g] /\ i < output'[g])
               PROVE  value[l][i] # "initial"
    BY DEF Stored, FinishLayer
  <2>1. CASE g = h
    <3>1. layer'[h] = layer[h] + 1 /\ output'[h] = Start(h) /\ output[h] = End(h)
      BY DEF FinishLayer, TypeOK
    <3>2. layer[h] \in Nat /\ i \in Nat /\ l \in Nat
      BY DEF TypeOK, Outputs
    <3>3. l < layer[h] \/ (l = layer[h] /\ i < output[h])
      BY <2>1, <3>1, <3>2
    <3> QED BY <2>1, <3>3 DEF Stored
  <2>2. CASE g # h
    <3>1. layer'[g] = layer[g] /\ output'[g] = output[g]
      BY <2>2 DEF FinishLayer, TypeOK
    <3> QED BY <3>1 DEF Stored
  <2> QED BY <2>1, <2>2
<1> QED BY <1>1, <1>2, <1>3

LEMMA ScanScoreIInv ==
  ASSUME IInv, ScanScore
  PROVE  IInv'
<1> USE PipelineAssumption, Widths DEF IInv
<1>1. TypeOK'
  BY DEF TypeOK, ScanScore
<1>2. WrongIsReported' /\ Stored'
  BY DEF ScanScore, WrongIsReported, Stored
<1> QED BY <1>1, <1>2

\* The strengthening is inductive: the outputs a hart has passed are stored.
THEOREM PipelineInvariance == Spec => []IInv
<1>1. IInv /\ [Next]_vars => IInv'
  <2>1. IInv /\ UNCHANGED vars => IInv'
    BY DEF IInv, TypeOK, WrongIsReported, Stored, vars
  <2> QED BY <2>1, SendInputIInv, StoreOutputIInv, FinishLayerIInv, ScanScoreIInv DEF Next
<1> QED BY <1>1, InitIInv, PTL DEF Spec

\* A wrong output is reported by the self-check of the hart that stored it.
THEOREM SelfChecksReport == Spec => []WrongIsReported
<1>1. IInv => WrongIsReported
  BY DEF IInv
<1> QED BY <1>1, PipelineInvariance, PTL

\* No do_fcX stores beyond its layer's arrays, and show_predict_result scans only scores.
THEOREM PipelineTypeCorrect == Spec => []TypeOK
<1>1. IInv => TypeOK
  BY DEF IInv
<1> QED BY <1>1, PipelineInvariance, PTL

\* The products in Progress.
LEMMA Products ==
  ASSUME NEW a \in Int, NEW b \in Int, NEW c \in Nat, a <= b
  PROVE  a * c <= b * c
<1>1. (b - a) * c >= 0
  OBVIOUS
<1>2. (b - a) * c = b * c - a * c
  OBVIOUS
<1>3. a * c \in Int /\ b * c \in Int
  OBVIOUS
<1> QED BY <1>1, <1>2, <1>3

\* A hart whose output i of layer l is not stored is behind a hart in layer l + 1.
LEMMA StaleLead ==
  ASSUME IInv, NEW h \in Harts, layer[h] > 1, layer[h] <= Layers, input[h] < Width,
         value[layer[h] - 1][input[h]] = "initial"
  PROVE  \E g \in Harts : Progress(h) - Progress(g) > input[h]
<1> USE PipelineAssumption, Widths
<1> DEFINE i == input[h]  l == layer[h] - 1
<1>1. i \in Outputs /\ l \in 1..Layers
  <2>1. input[h] \in 0 .. Width /\ layer[h] \in 1 .. Layers + 1
    BY DEF IInv, TypeOK
  <2> QED BY <2>1 DEF Outputs
<1>2. PICK g \in Harts : i \in Start(g) .. End(g) - 1
  BY <1>1, Halves
<1>3. /\ layer[g] \in Nat /\ layer[h] \in Nat /\ i \in Nat
      /\ output[g] \in Start(g) .. End(g) /\ output[h] \in Start(h) .. End(h)
      /\ input[g] \in 0 .. Width
  BY DEF IInv, TypeOK
<1>4. ~(l < layer[g]) /\ ~(l = layer[g] /\ i < output[g])
  BY <1>1, <1>2 DEF IInv, Stored
<1> DEFINE nh == (layer[h] - 1) * Half + output[h] - Start(h)
           ng == (layer[g] - 1) * Half + output[g] - Start(g)
<1>5. nh \in Int /\ ng \in Int
  BY <1>3
<1>6. ng + 1 <= nh
  <2>1. CASE layer[g] = l
    <3>1. output[g] - Start(g) + 1 <= Half
      BY <1>2, <1>3, <1>4, <2>1
    <3>2. (layer[h] - 1) * Half = (layer[g] - 1) * Half + Half
      BY <1>3, <2>1
    <3> QED BY <1>3, <3>1, <3>2
  <2>2. CASE layer[g] < l
    <3>0. layer[g] \in Int /\ layer[h] - 2 \in Int /\ layer[g] <= layer[h] - 2
      BY <1>3, <2>2
    <3>1. layer[g] * Half <= (layer[h] - 2) * Half
      BY <3>0, Products
    <3>2. /\ (layer[h] - 2) * Half = (layer[h] - 1) * Half - Half
          /\ layer[g] * Half = (layer[g] - 1) * Half + Half
      BY <1>3
    <3> QED BY <1>3, <3>1, <3>2
  <2> QED BY <1>3, <1>4, <2>1, <2>2
<1>7. (ng + 1) * (Width + 1) <= nh * (Width + 1)
  BY <1>5, <1>6, Products
<1>8. (ng + 1) * (Width + 1) = ng * (Width + 1) + Width + 1
  BY <1>5
<1>9. Progress(h) = nh * (Width + 1) + i /\ Progress(g) = ng * (Width + 1) + input[g]
  BY DEF Progress
<1> HIDE DEF nh, ng, i
<1>10. nh * (Width + 1) \in Int /\ ng * (Width + 1) \in Int
  BY <1>5
<1>11. Progress(h) - Progress(g) > i
  BY <1>3, <1>7, <1>8, <1>9, <1>10
<1> QED BY <1>11 DEF i

\* Whatever the number and the width of the layers, a hart sends a value that has
\* not been computed only when it is more than that input's position ahead.
THEOREM StaleNeedsLeadTheorem == Spec => StaleNeedsLead
<1>1. IInv /\ [Next]_vars =>
        [\A h \in Harts :
           SendInput(h) /\ layer[h] > 1 /\ ~Golden /\ value[layer[h] - 1][input[h]] = "initial"
             => \E g \in Harts : Progress(h) - Progress(g) > input[h]]_vars
  BY StaleLead DEF SendInput
<1> QED BY <1>1, PipelineInvariance, PTL DEF Spec, StaleNeedsLead
=============================================================================
