---------------------------- MODULE RowAccelerator ----------------------------
(***************************************************************************)
(* The row-based accelerators of platform/tiny32-row-based-dnn-2-cores,    *)
(* their FIFOs, and the program row-based-dnn/main.cpp that feeds them.    *)
(*                                                                         *)
(* The DMA serves one request of one hart at a time and in order; that the *)
(* driver makes it so is the subject of DmaTransfer.  A request that finds *)
(* a FIFO full or empty blocks the DMA, for the other hart too.            *)
(*                                                                         *)
(* Values are symbolic: a result is the weights and inputs it is made of.  *)
(***************************************************************************)
EXTENDS Integers, Sequences, SequencesExt

CONSTANTS
  NumHarts,    \* 1 or 2: the halves of a layer's outputs
  FifoSize,    \* capacity of an sc_fifo (16)
  Filters,     \* outputs channels of the convolution
  NumWeights,  \* weights of a filter (C * R * S)
  R,           \* rows of a filter, odd
  Rows,        \* rows of the input
  RowLen,      \* elements of an input row, all channels
  Pooled,      \* outputs of two convolution rows after pooling
  Inputs,      \* inputs of a dense layer
  Outputs,     \* outputs of a dense layer
  HalfRange,   \* 2^7: start and end are sc_int<8>
  InitialEven  \* what the uninitialised even_row of an accelerator may contain

ASSUME RowAssumption ==
  /\ NumHarts \in {1, 2}
  /\ {FifoSize, Filters, NumWeights, R, Rows, RowLen, Pooled} \subseteq Nat \ {0}
  /\ {Inputs, Outputs, HalfRange} \subseteq Nat \ {0}
  /\ Filters % NumHarts = 0 /\ Outputs % NumHarts = 0
  /\ R > 1 /\ R % 2 = 1 /\ Rows > R /\ Rows % 2 = 0
  /\ Outputs < HalfRange
  /\ InitialEven \subseteq BOOLEAN

VARIABLES
  at,    \* the driver call that each hart makes next, with its loop variables
  dma,   \* the hart whose request the DMA carries out
  fifo,  \* the FIFOs of each hart's accelerators
  conv,  \* Convolution_1: local variables of MAC
  fc,    \* FC_1 and FC_3: local variables of Fully_Connect
  got    \* what each hart has read

vars == <<at, dma, fifo, conv, fc, got>>

Harts == 0 .. NumHarts - 1
None == -1
Dense == {"fc1", "fc3"}
Accelerators == {"conv"} \cup Dense
Ports == {"weight", "source", "start", "end", "bias", "result"}

\* The convolution row p of filter m, as the rows p-R+1 .. p of the input under the
\* filter's weights.
Weight(m, k) == <<"weight", m, k>>
InputRow(p) == [q \in 1 .. RowLen |-> <<"source", p, q>>]
ConvRow(m, p) ==
  [weights |-> [k \in 1 .. NumWeights |-> Weight(m, k)],
   rows |-> [i \in 1 .. R |-> InputRow(p - R + i)]]

NoRow == [weights |-> <<>>, rows |-> <<>>]

-----------------------------------------------------------------------------
(***************************************************************************)
(* The program of a hart: the loops that make one driver call after the    *)
(* other, and what it expects to read.                                     *)
(***************************************************************************)
\* write_data_to_ACC or, at port "result", read_data_from_ACC: m is the output, p the
\* row or the input, k the element of the innermost loop.
Call(acc, port, m, p, k) == [acc |-> acc, port |-> port, m |-> m, p |-> p, k |-> k]
Finished == Call("none", "none", 0, 0, 0)

\* start and end of the loops over the outputs.
Share(all) == all \div NumHarts
First(h, all) == h * Share(all)
Past(h, all) == (h + 1) * Share(all)

\* What a call writes.
Value(h, c) ==
  CASE c.port = "weight" -> Weight(c.m, IF c.acc = "conv" THEN c.k ELSE c.p)
    [] c.port = "source" -> IF c.acc = "conv" THEN <<"source", c.p, c.k>> ELSE <<"source", c.p>>
    [] c.port = "start"  -> First(h, Outputs)
    [] c.port = "end"    -> Past(h, Outputs)
    [] c.port = "bias"   -> <<"bias", c.m>>

\* Faulty: the results of the last rows are not read.
ReadsAllButLast(p) == p % 2 = 1 /\ p >= R /\ p < Rows - 1

\* Faulty: results are read after the first of two rows.
ReadsTooEarly(p) == p % 2 = 0 /\ p >= R - 1

\* When the program reads results after it has sent row p.
ReadsAfter(p) == p % 2 = 1 /\ p >= R

\* The loops over the rows and over the filters.
NextRow(h, c) ==
  IF c.p + 1 < Rows THEN Call("conv", "source", c.m, c.p + 1, 1)
  ELSE IF c.m + 1 < Past(h, Filters) THEN Call("conv", "weight", c.m + 1, 0, 1)
  ELSE Call("fc1", "start", 0, 0, 0)

\* do_conv1 and do_conv2.
NextConv(h, c) ==
  CASE c.port = "weight" ->
         IF c.k < NumWeights THEN [c EXCEPT !.k = @ + 1] ELSE Call("conv", "source", c.m, 0, 1)
    [] c.port = "source" ->
         IF c.k < RowLen THEN [c EXCEPT !.k = @ + 1]
         ELSE IF ReadsAfter(c.p) THEN Call("conv", "result", c.m, c.p, 1) ELSE NextRow(h, c)
    [] c.port = "result" ->
         IF c.k < Pooled THEN [c EXCEPT !.k = @ + 1] ELSE NextRow(h, c)

\* The loop over the results; do_fc3 writes a bias for each.
OutputCall(acc, m) == Call(acc, IF acc = "fc3" THEN "bias" ELSE "result", m, 0, 0)

\* do_fc1 and do_fc2, and do_fc3.
NextDense(h, c) ==
  LET lo == First(h, Outputs)
      hi == Past(h, Outputs)
  IN  CASE c.port = "start"  -> Call(c.acc, "end", 0, 0, 0)
        [] c.port = "end"    -> Call(c.acc, "source", 0, 0, 0)
        [] c.port = "source" -> Call(c.acc, "weight", lo, c.p, 0)
        [] c.port = "weight" ->
             IF c.m + 1 < hi THEN [c EXCEPT !.m = @ + 1]
             ELSE IF c.p + 1 < Inputs THEN Call(c.acc, "source", 0, c.p + 1, 0)
             ELSE OutputCall(c.acc, lo)
        [] c.port = "bias"   -> [c EXCEPT !.port = "result"]
        [] c.port = "result" ->
             IF c.m + 1 < hi THEN OutputCall(c.acc, c.m + 1)
             ELSE IF c.acc = "fc1" THEN Call("fc3", "start", 0, 0, 0) ELSE Finished

\* The layers, by definition: two convolution rows under one pooling window; the sum of
\* products of an output.
Pairs == (Rows - R + 1) \div 2
PooledOutput(m, i, q) ==
  [top |-> ConvRow(m, R - 1 + 2 * i), bottom |-> ConvRow(m, R + 2 * i), q |-> q]

GoldenConv(h) ==
  [n \in 1 .. (Share(Filters) * Pairs) * Pooled |->
     LET row == (n - 1) \div Pooled
     IN  PooledOutput(First(h, Filters) + (row \div Pairs), row % Pairs,
                      ((n - 1) % Pooled) + 1)]

DenseOutput(acc, m) ==
  [terms |-> [i \in 1 .. Inputs |-> <<<<"source", i - 1>>, Weight(m, i - 1)>>],
   bias |-> IF acc = "fc3" THEN <<"bias", m>> ELSE <<>>]

GoldenDense(h, acc) ==
  [j \in 1 .. Share(Outputs) |-> DenseOutput(acc, First(h, Outputs) + j - 1)]

Golden == [h \in Harts |-> GoldenConv(h) \o GoldenDense(h, "fc1") \o GoldenDense(h, "fc3")]

-----------------------------------------------------------------------------
\* MAC before the weights of a filter.
IdleConv(even, rows) ==
  [weights |-> <<>>, rows |-> <<>>, row |-> <<>>, p |-> R - 1, even |-> even,
   activation |-> rows, out |-> <<>>]

\* Fully_Connect at the top of its loop.
IdleDense ==
  [start |-> None, end |-> None, i |-> 0, j |-> None, source |-> <<>>, bias |-> <<>>,
   acc |-> [j \in 0 .. Outputs - 1 |-> <<>>]]

Init ==
  /\ at = [h \in Harts |-> Call("conv", "weight", First(h, Filters), 0, 1)]
  /\ dma = None
  /\ fifo = [h \in Harts |-> [a \in Accelerators |-> [p \in Ports |-> <<>>]]]
  /\ \E even \in [Harts -> InitialEven] :
       conv = [h \in Harts |-> IdleConv(even[h], [b \in BOOLEAN |-> NoRow])]
  /\ fc = [h \in Harts |-> [a \in Dense |-> IdleDense]]
  /\ got = [h \in Harts |-> <<>>]

-----------------------------------------------------------------------------
(***************************************************************************)
(* The driver and the DMA: blocking_transport of the accelerators.         *)
(***************************************************************************)
\* The FIFO of the hart's request can take or give an element.
Ready(h) ==
  LET q == fifo[h][at[h].acc][at[h].port]
  IN  IF at[h].port = "result" THEN q # <<>> ELSE Len(q) < FifoSize

StartTransfer(h) ==
  /\ dma = None /\ at[h] # Finished
  /\ dma' = h
  /\ UNCHANGED <<at, fifo, conv, fc, got>>

FinishTransfer(h) ==
  /\ dma = h /\ Ready(h)
  /\ LET c == at[h]
     IN  /\ IF c.port = "result"
            THEN /\ got' = [got EXCEPT ![h] = Append(@, Head(fifo[h][c.acc].result))]
                 /\ fifo' = [fifo EXCEPT ![h][c.acc].result = Tail(@)]
            ELSE /\ fifo' = [fifo EXCEPT ![h][c.acc][c.port] = Append(@, Value(h, c))]
                 /\ UNCHANGED got
         /\ at' = [at EXCEPT ![h] = IF c.acc = "conv" THEN NextConv(h, c) ELSE NextDense(h, c)]
  /\ dma' = None
  /\ UNCHANGED <<conv, fc>>

-----------------------------------------------------------------------------
(***************************************************************************)
(* Convolution_1::MAC.                                                     *)
(***************************************************************************)
\* sc_fifo::read and write of an accelerator's thread.
Receive(h, acc, port) ==
  /\ fifo[h][acc][port] # <<>>
  /\ fifo' = [fifo EXCEPT ![h][acc][port] = Tail(@)]

Send(h, acc, value) ==
  /\ Len(fifo[h][acc].result) < FifoSize
  /\ fifo' = [fifo EXCEPT ![h][acc].result = Append(@, value)]

ConvWeight(h) ==
  /\ conv[h].out = <<>> /\ Len(conv[h].weights) < NumWeights
  /\ Receive(h, "conv", "weight")
  /\ conv' = [conv EXCEPT ![h].weights = Append(@, Head(fifo[h]["conv"].weight))]
  /\ UNCHANGED <<at, dma, fc, got>>

\* Faulty: the rows are not shifted.
StuckRows(rows) == SubSeq(rows, 1, R - 1)

\* The rows that the next convolution row shares with this one.
ShiftRows(rows) == Tail(rows)

\* Faulty: the buffers survive the end of a filter.
KeepAtEnd(c) == c

\* The next filter starts with new weights; even_row and activation_buffer stay.
ResetAtEnd(c) ==
  IF c.p = Rows
  THEN [IdleConv(c.even, c.activation) EXCEPT !.out = c.out] ELSE c

\* A complete convolution row goes to activation_buffer[even_row] and, after the second
\* of two, the pooled row is written.
Convolve(c, rows) ==
  LET activation == [c.activation EXCEPT ![c.even] = [weights |-> c.weights, rows |-> rows]]
      pooled == [q \in 1 .. Pooled |-> [top |-> activation[FALSE],
                                        bottom |-> activation[TRUE], q |-> q]]
  IN  ResetAtEnd([weights |-> c.weights, rows |-> ShiftRows(rows), row |-> <<>>, p |-> c.p + 1,
                  even |-> ~c.even, activation |-> activation,
                  out |-> IF c.even THEN pooled ELSE <<>>])

ConvSource(h) ==
  LET c == conv[h]
      row == Append(c.row, Head(fifo[h]["conv"].source))
  IN  /\ c.out = <<>> /\ Len(c.weights) = NumWeights
      /\ Receive(h, "conv", "source")
      /\ conv' = [conv EXCEPT ![h] =
                    IF Len(row) < RowLen THEN [c EXCEPT !.row = row]
                    ELSE IF Len(c.rows) < R - 1
                         THEN [c EXCEPT !.rows = Append(@, row), !.row = <<>>]
                         ELSE Convolve(c, Append(c.rows, row))]
      /\ UNCHANGED <<at, dma, fc, got>>

ConvResult(h) ==
  /\ conv[h].out # <<>>
  /\ Send(h, "conv", Head(conv[h].out))
  /\ conv' = [conv EXCEPT ![h].out = Tail(@)]
  /\ UNCHANGED <<at, dma, fc, got>>

-----------------------------------------------------------------------------
(***************************************************************************)
(* FC_1::Fully_Connect and FC_3::Fully_Connect.                            *)
(***************************************************************************)
\* Conversion to sc_int<8>.
Int8(x) == ((x + HalfRange) % (2 * HalfRange)) - HalfRange

Become(h, a, f) == fc' = [fc EXCEPT ![h][a] = f]

DenseStart(h, a) ==
  /\ fc[h][a].start = None
  /\ Receive(h, a, "start")
  /\ Become(h, a, [fc[h][a] EXCEPT !.start = Int8(Head(fifo[h][a].start))])
  /\ UNCHANGED <<at, dma, conv, got>>

DenseEnd(h, a) ==
  /\ fc[h][a].start # None /\ fc[h][a].end = None
  /\ Receive(h, a, "end")
  /\ Become(h, a, [fc[h][a] EXCEPT !.end = Int8(Head(fifo[h][a].end))])
  /\ UNCHANGED <<at, dma, conv, got>>

DenseSource(h, a) ==
  LET f == fc[h][a]
  IN  /\ f.end # None /\ f.i < Inputs /\ f.j = None
      /\ Receive(h, a, "source")
      /\ Become(h, a, [f EXCEPT !.source = Head(fifo[h][a].source), !.j = f.start])
      /\ UNCHANGED <<at, dma, conv, got>>

\* The last weight of the last input leads to the results, from start on.
DenseWeight(h, a) ==
  LET f == fc[h][a]
      rowDone == f.j + 1 = f.end
  IN  /\ f.i < Inputs /\ f.j # None
      /\ Receive(h, a, "weight")
      /\ Become(h, a,
                [f EXCEPT !.acc[f.j] = Append(@, <<f.source, Head(fifo[h][a].weight)>>),
                          !.i = IF rowDone THEN @ + 1 ELSE @,
                          !.j = IF ~rowDone THEN @ + 1
                                ELSE IF f.i + 1 = Inputs THEN f.start ELSE None])
      /\ UNCHANGED <<at, dma, conv, got>>

DenseBias(h) ==
  LET f == fc[h]["fc3"]
  IN  /\ f.i = Inputs /\ f.bias = <<>>
      /\ Receive(h, "fc3", "bias")
      /\ Become(h, "fc3", [f EXCEPT !.bias = Head(fifo[h]["fc3"].bias)])
      /\ UNCHANGED <<at, dma, conv, got>>

DenseResult(h, a) ==
  LET f == fc[h][a]
  IN  /\ f.i = Inputs /\ (a = "fc3" => f.bias # <<>>)
      /\ Send(h, a, [terms |-> f.acc[f.j], bias |-> f.bias])
      /\ Become(h, a, IF f.j + 1 = f.end THEN IdleDense
                      ELSE [f EXCEPT !.j = @ + 1, !.bias = <<>>])
      /\ UNCHANGED <<at, dma, conv, got>>

-----------------------------------------------------------------------------
ConvStep(h) == ConvWeight(h) \/ ConvSource(h) \/ ConvResult(h)

DenseStep(h, a) ==
  \/ DenseStart(h, a) \/ DenseEnd(h, a) \/ DenseSource(h, a) \/ DenseWeight(h, a)
  \/ a = "fc3" /\ DenseBias(h)
  \/ DenseResult(h, a)

Next ==
  \E h \in Harts :
    \/ StartTransfer(h) \/ FinishTransfer(h)
    \/ ConvStep(h) \/ \E a \in Dense : DenseStep(h, a)

Spec == Init /\ [][Next]_vars

\* The kernel runs every thread whose FIFO event has fired.
FairSpec ==
  /\ Spec
  /\ \A h \in Harts :
       /\ WF_vars(StartTransfer(h)) /\ WF_vars(FinishTransfer(h))
       /\ WF_vars(ConvStep(h)) /\ \A a \in Dense : WF_vars(DenseStep(h, a))

-----------------------------------------------------------------------------
\* The calls of a hart's program.
Calls(h) ==
  LET filters == First(h, Filters) .. Past(h, Filters) - 1
      outputs == First(h, Outputs) .. Past(h, Outputs) - 1
      rows == 0 .. Rows - 1
      inputs == 0 .. Inputs - 1
  IN  {Finished}
      \cup {Call("conv", "weight", m, 0, k) : m \in filters, k \in 1 .. NumWeights}
      \cup {Call("conv", "source", m, p, k) : m \in filters, p \in rows, k \in 1 .. RowLen}
      \cup {Call("conv", "result", m, p, k) :
              m \in filters, p \in {p \in rows : ReadsAfter(p)}, k \in 1 .. Pooled}
      \cup {Call(a, port, 0, 0, 0) : a \in Dense, port \in {"start", "end"}}
      \cup {Call(a, "source", 0, i, 0) : a \in Dense, i \in inputs}
      \cup {Call(a, "weight", m, i, 0) : a \in Dense, m \in outputs, i \in inputs}
      \cup {Call("fc3", "bias", m, 0, 0) : m \in outputs}
      \cup {Call(a, "result", m, 0, 0) : a \in Dense, m \in outputs}

TypeOK ==
  /\ \A h \in Harts : at[h] \in Calls(h)
  /\ dma \in Harts \cup {None}
  /\ \A h \in Harts, a \in Accelerators, p \in Ports : Len(fifo[h][a][p]) <= FifoSize
  /\ \A h \in Harts :
       /\ Len(conv[h].weights) <= NumWeights /\ Len(conv[h].rows) < R
       /\ Len(conv[h].row) < RowLen /\ conv[h].p \in R - 1 .. Rows
       /\ conv[h].even \in BOOLEAN /\ Len(conv[h].out) <= Pooled
       /\ \A a \in Dense : fc[h][a].i \in 0 .. Inputs /\ fc[h][a].j \in -1 .. Outputs - 1

\* The row buffers, the alternating activation rows and the accumulators give exactly
\* the layers' outputs, in order, whichever way the harts' requests and the
\* accelerators interleave.
Layers == INSTANCE GoldenLayers
ImplementsLayers == Layers!Spec

\* Every output of every layer is read in the end.
AllRead == \A h \in Harts : <>(got[h] = Golden[h])

\* The comparison with conv1_max_pool_1 and its like in the programs.
ResultsGolden == \A h \in Harts : IsPrefix(got[h], Golden[h])

\* Accelerator a of hart h can go on without the DMA.
CanStep(h, a) ==
  LET q == fifo[h][a]
      c == conv[h]
      f == fc[h][a]
  IN  IF a = "conv"
      THEN IF c.out # <<>> THEN Len(q.result) < FifoSize
           ELSE IF Len(c.weights) < NumWeights THEN q.weight # <<>> ELSE q.source # <<>>
      ELSE IF f.start = None THEN q.start # <<>>
           ELSE IF f.end = None THEN q.end # <<>>
           ELSE IF f.i < Inputs
                THEN IF f.j = None THEN q.source # <<>> ELSE q.weight # <<>>
                ELSE IF a = "fc3" /\ f.bias = <<>> THEN q.bias # <<>>
                     ELSE Len(q.result) < FifoSize

\* A request that blocks the DMA, and so the other hart, waits only for an accelerator
\* that needs nothing more from the DMA to go on.
StallIsShort == dma # None /\ ~Ready(dma) => CanStep(dma, at[dma].acc)

\* The first call of a filter or of a dense layer, or the end of the program.
AtBoundary(h) ==
  \/ at[h] = Finished \/ at[h].port = "start"
  \/ at[h].acc = "conv" /\ at[h].port = "weight" /\ at[h].k = 1

\* Nothing of a filter or a layer is left in a FIFO or a buffer when the program goes
\* on to the next one.
CleanHandover ==
  \A h \in Harts :
    AtBoundary(h) =>
      /\ \A a \in Accelerators, p \in Ports : fifo[h][a][p] = <<>>
      /\ conv[h] = IdleConv(conv[h].even, conv[h].activation) /\ ~conv[h].even
      /\ \A a \in Dense : fc[h][a] = IdleDense
=============================================================================
