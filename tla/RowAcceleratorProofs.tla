------------------------- MODULE RowAcceleratorProofs -------------------------
(***************************************************************************)
(* Proofs about RowAccelerator, for every number of rows, filters, inputs  *)
(* and outputs and every size of the FIFOs that RowAssumption allows.      *)
(*                                                                         *)
(* All of them are about the executions in which the uninitialised         *)
(* even_row of every accelerator happens to be false at the start, which   *)
(* each theorem says (EvenStartsFalse): Convolution_1.h does not make it   *)
(* so, and the run row_even shows that the results are wrong otherwise.    *)
(*                                                                         *)
(* A hart and its accelerators are a pipeline: the call of the program     *)
(* tells what has been sent, the variables of MAC and Fully_Connect tell   *)
(* what has been taken, and the FIFOs hold what is between.  RInv states   *)
(* this for every hart: of the convolution by Working and Delivering, of a *)
(* dense layer by Feeding and Answering, with elements, weights and        *)
(* results numbered in the order of transfer.  What a hart has read is the *)
(* beginning of Golden, its length a function of the call.                 *)
(*                                                                         *)
(* Records are taken apart into their fields before anything is proved of  *)
(* them (Mac, Fully and Call build them), and sequences are described by   *)
(* Longer and Shorter, so that a lemma speaks of one FIFO and one variable *)
(* at a time.                                                              *)
(***************************************************************************)
EXTENDS RowAccelerator, NaturalFacts

\* The condition on the initial state under which the accelerators work.
EvenStartsFalse == \A h \in Harts : ~conv[h].even

IsSeq(s) == Len(s) \in Nat /\ s = [i \in 1 .. Len(s) |-> s[i]]

\* t is s with e behind it, and s without its head.
Longer(t, s, e) ==
  /\ IsSeq(t) /\ Len(t) = Len(s) + 1
  /\ \A i \in 1 .. Len(s) : t[i] = s[i]
  /\ t[Len(s) + 1] = e
FirstOf(s) == s[1]
Shorter(t, s) ==
  /\ IsSeq(t) /\ Len(s) = Len(t) + 1
  /\ \A i \in 1 .. Len(t) : t[i] = s[i + 1]

\* The number of elements in n rows, and of weights in n columns.
Base(n) == n * RowLen
Width == Share(Outputs)
Block(n) == n * Width

\* The element number n of the input in the order in which it is sent.
Element(n) == <<"source", n \div RowLen, (n % RowLen) + 1>>

WeightsSent(c) == IF c.port = "weight" THEN c.k - 1 ELSE NumWeights
SourcesSent(c) ==
  IF c.port = "weight" THEN 0
  ELSE IF c.port = "source" THEN Base(c.p) + (c.k - 1) ELSE Base(c.p + 1)

\* The rows of the activation buffer.
Top(activation) == activation[FALSE]
Bottom(activation) == activation[TRUE]

\* even_row is true before the second of two rows.
Odd(even) == even

\* The buffers of MAC when it has the rows before row p of the input.
Buffers(m, p, rows, last, even, activation) ==
  /\ Len(rows) = (IF p < R - 1 THEN p ELSE R - 1)
  /\ \A i \in 1 .. Len(rows) : rows[i] = InputRow((p - Len(rows)) + (i - 1))
  /\ last = (IF p < R - 1 THEN R - 1 ELSE p)
  /\ Odd(even) <=> ReadsAfter(p)
  /\ Odd(even) => Top(activation) = ConvRow(m, p - 1)
BuffersOf(m, p, u) == Buffers(m, p, u.rows, u.p, u.even, u.activation)

Weights(m, s, n) == \A i \in 1 .. Len(s) : s[i] = Weight(m, n + i)

\* MAC receives row p; what it has and what is in the FIFOs is what was sent.
Working(c, w, s, r, u, p) ==
  /\ u.out = <<>> /\ r = <<>>
  /\ Len(u.weights) + Len(w) = WeightsSent(c)
  /\ Weights(c.m, u.weights, 0) /\ Weights(c.m, w, Len(u.weights))
  /\ (Base(p) + Len(u.row)) + Len(s) = SourcesSent(c)
  /\ \A i \in 1 .. Len(s) : s[i] = Element((Base(p) + Len(u.row)) + (i - 1))
  /\ Len(u.row) < RowLen
  /\ \A q \in 1 .. Len(u.row) : u.row[q] = <<"source", p, q>>
  /\ Len(u.weights) < NumWeights => p = 0 /\ Len(u.row) = 0
  /\ BuffersOf(c.m, p, u)
  /\ \A j \in p .. Rows - 1 : ReadsAfter(j) => c.p <= j
  /\ c.port = "result" => c.k = 1 /\ p <= c.p

RowPair(m, p, q) == [top |-> ConvRow(m, p - 1), bottom |-> ConvRow(m, p), q |-> q]

\* MAC has pooled the rows that the program reads.
Delivering(c, w, s, r, u) ==
  /\ c.port = "result"
  /\ w = <<>> /\ s = <<>> /\ u.row = <<>>
  /\ Len(r) + Len(u.out) = Pooled - (c.k - 1)
  /\ \A i \in 1 .. Len(r) : r[i] = RowPair(c.m, c.p, (c.k - 1) + i)
  /\ \A i \in 1 .. Len(u.out) : u.out[i] = RowPair(c.m, c.p, (c.k - 1) + (Len(r) + i))
  /\ \/ /\ c.p + 1 < Rows /\ BuffersOf(c.m, c.p + 1, u)
        /\ Len(u.weights) = NumWeights /\ Weights(c.m, u.weights, 0)
     \/ c.p + 1 = Rows /\ u.weights = <<>> /\ BuffersOf(c.m, 0, u)

ConvResting(w, s, r, u) ==
  /\ w = <<>> /\ s = <<>> /\ r = <<>>
  /\ u.weights = <<>> /\ u.row = <<>> /\ u.out = <<>> /\ BuffersOf(0, 0, u)

ConvOf(c, w, s, r, u) ==
  IF c.acc = "conv"
  THEN (\E p \in 0 .. Rows - 1 : Working(c, w, s, r, u, p)) \/ Delivering(c, w, s, r, u)
  ELSE ConvResting(w, s, r, u)

-----------------------------------------------------------------------------
Low(h) == First(h, Outputs)
High(h) == Past(h, Outputs)

\* s holds the elements n to t - 1 of g.
At(g, n) == g[n]
Stream(s, g, n, t) ==
  /\ n + Len(s) = t
  /\ \A i \in 1 .. Len(s) : s[i] = At(g, n + (i - 1))

\* The inputs and the weights in the order in which they are sent, and the products that
\* make up an output.
InputSeq == [n \in Nat |-> <<"source", n>>]
FactorSeq(h) == [n \in Nat |-> Weight(Low(h) + (n % Width), n \div Width)]
TermSeq(m) == [n \in Nat |-> <<<<"source", n>>, Weight(m, n)>>]
OutputSeq(a) == [m \in Nat |-> DenseOutput(a, m)]
Bias(m) == <<"bias", m>>

InputsSent(c) ==
  IF c.port \in {"start", "end"} THEN 0
  ELSE IF c.port = "source" THEN c.p ELSE IF c.port = "weight" THEN c.p + 1 ELSE Inputs

FactorsSent(h, c) ==
  IF c.port \in {"start", "end"} THEN 0
  ELSE IF c.port = "source" THEN Block(c.p)
  ELSE IF c.port = "weight" THEN Block(c.p) + (c.m - Low(h)) ELSE Block(Inputs)

\* n terms of every output of the hart, and one more of those below j.
Count(m, n, j) == IF m < j THEN n + 1 ELSE n
Sums(h, acc, n, j) ==
  \A m \in Low(h) .. High(h) - 1 : Stream(acc[m], TermSeq(m), 0, Count(m, n, j))

\* Element v on its way from the program through FIFO q to variable x.
One(q, v) == Len(q) = 1 /\ q[1] = v
Unsent(q, x) == q = <<>> /\ x = None
Sent(q, x, v) == (One(q, v) /\ x = None) \/ (q = <<>> /\ x = v)

Limits(h, port, ss, se, start, end) ==
  /\ IF port = "start" THEN Unsent(ss, start) ELSE Sent(ss, start, Low(h))
  /\ IF port \in {"start", "end"} THEN Unsent(se, end) ELSE Sent(se, end, High(h))
  /\ end # None => start # None

Column(h, j) == IF j = None THEN Low(h) ELSE j
Taken(i, j) == IF j = None THEN i ELSE i + 1
Used(h, i, j) == Block(i) + (Column(h, j) - Low(h))

\* The local variables of Fully_Connect.
Fully(start, end, i, j, source, bias, acc) ==
  [start |-> start, end |-> end, i |-> i, j |-> j, source |-> source, bias |-> bias,
   acc |-> acc]

\* Fully_Connect accumulates; ni inputs and nf weights have been sent.
Feeding(h, a, port, m, ni, nf, ss, se, s, w, bs, r, start, end, i, j, source, bias, acc) ==
  /\ Limits(h, port, ss, se, start, end)
  /\ i \in 0 .. Inputs - 1 /\ j \in {None} \cup Low(h) .. High(h) - 1
  /\ end = None => i = 0 /\ j = None
  /\ Stream(s, InputSeq, Taken(i, j), ni)
  /\ j # None => source = At(InputSeq, i)
  /\ Stream(w, FactorSeq(h), Used(h, i, j), nf)
  /\ Sums(h, acc, i, Column(h, j))
  /\ bias = <<>> /\ r = <<>>
  /\ IF a = "fc3" /\ port = "result" THEN One(bs, Bias(Low(h))) ELSE bs = <<>>
  /\ port \in {"bias", "result"} => m = Low(h)

\* Fully_Connect has the sums and writes the results, of which it has written those
\* below n.
Answering(h, a, port, m, ss, se, s, w, bs, r, start, end, i, j, source, bias, acc, n) ==
  /\ port \in {"bias", "result"}
  /\ ss = <<>> /\ se = <<>> /\ s = <<>> /\ w = <<>>
  /\ n \in m .. High(h) /\ Stream(r, OutputSeq(a), m, n)
  /\ \/ n = High(h) /\ Fully(start, end, i, j, source, bias, acc) = IdleDense
     \/ /\ n < High(h) /\ i = Inputs /\ j = n
        /\ start = Low(h) /\ end = High(h) /\ Sums(h, acc, Inputs, Low(h))
  /\ \/ bs = <<>> /\ bias = <<>> /\ (a = "fc3" /\ n = m => port = "bias")
     \/ /\ a = "fc3" /\ port = "result" /\ n = m
        /\ (One(bs, Bias(m)) /\ bias = <<>>) \/ (bs = <<>> /\ bias = Bias(m))
  /\ a = "fc3" => n <= m + 1 /\ (port = "bias" => n = m)

DenseResting(ss, se, s, w, bs, r, f) ==
  /\ ss = <<>> /\ se = <<>> /\ s = <<>> /\ w = <<>> /\ bs = <<>> /\ r = <<>>
  /\ f = IdleDense

DenseOf(h, a, c, ss, se, s, w, bs, r, f) ==
  IF c.acc = a
  THEN \/ Feeding(h, a, c.port, c.m, InputsSent(c), FactorsSent(h, c), ss, se, s, w, bs, r,
                  f.start, f.end, f.i, f.j, f.source, f.bias, f.acc)
       \/ \E n \in 0 .. High(h) :
            Answering(h, a, c.port, c.m, ss, se, s, w, bs, r,
                      f.start, f.end, f.i, f.j, f.source, f.bias, f.acc, n)
  ELSE DenseResting(ss, se, s, w, bs, r, f)

-----------------------------------------------------------------------------
\* What the variables are made of.
Mac(weights, rows, row, p, even, activation, out) ==
  [weights |-> weights, rows |-> rows, row |-> row, p |-> p, even |-> even,
   activation |-> activation, out |-> out]

IsPair(b) == b = [x \in BOOLEAN |-> b[x]]

IsConv(u) ==
  /\ u = Mac(u.weights, u.rows, u.row, u.p, u.even, u.activation, u.out)
  /\ IsSeq(u.weights) /\ IsSeq(u.rows) /\ IsSeq(u.row) /\ IsSeq(u.out)
  /\ u.p \in Nat /\ u.even \in BOOLEAN
  /\ IsPair(u.activation)

IsAcc(acc) ==
  /\ acc = [m \in 0 .. Outputs - 1 |-> acc[m]]
  /\ \A m \in 0 .. Outputs - 1 : IsSeq(acc[m])

IsDense(f) ==
  /\ f = Fully(f.start, f.end, f.i, f.j, f.source, f.bias, f.acc)
  /\ IsAcc(f.acc)

\* The results that the program has read when it makes call c.
PairsRead(p) == IF p < R THEN 0 ELSE ((p - R) + 1) \div 2
ConvReads(h, c) ==
  ((c.m - First(h, Filters)) * Pairs + PairsRead(c.p)) * Pooled
    + (IF c.port = "result" THEN c.k - 1 ELSE 0)
AllConvReads == (Share(Filters) * Pairs) * Pooled
DenseReads(h, c) == IF c.port \in {"bias", "result"} THEN c.m - Low(h) ELSE 0
Reads(h, c) ==
  CASE c.acc = "conv" -> ConvReads(h, c)
    [] c.acc = "fc1"  -> AllConvReads + DenseReads(h, c)
    [] c.acc = "fc3"  -> (AllConvReads + Width) + DenseReads(h, c)
    [] OTHER          -> (AllConvReads + Width) + Width

-----------------------------------------------------------------------------
\* The ports that the convolution does not have.
Unused == {"start", "end", "bias"}

\* A hart at call c, with FIFOs q, accelerators u and f, and what it has read.
Queues(q) ==
  /\ q = [a \in Accelerators |-> [p \in Ports |-> q[a][p]]]
  /\ \A a \in Accelerators, p \in Ports : IsSeq(q[a][p]) /\ Len(q[a][p]) <= FifoSize
  /\ \A p \in Unused : q["conv"][p] = <<>>

ConvInv(c, q, u) ==
  ConvOf(c, q["conv"]["weight"], q["conv"]["source"], q["conv"]["result"], u)

DenseInv(h, a, c, q, f) ==
  DenseOf(h, a, c, q[a]["start"], q[a]["end"], q[a]["source"], q[a]["weight"],
          q[a]["bias"], q[a]["result"], f)

GotInv(h, c, g) ==
  /\ IsSeq(g) /\ Len(g) = Reads(h, c)
  /\ \A n \in 1 .. Len(g) : n \in 1 .. Len(Golden[h]) /\ g[n] = Golden[h][n]

HartInv(h, c, q, u, f, g) ==
  /\ c \in Calls(h) /\ Queues(q) /\ IsConv(u)
  /\ f = [a \in Dense |-> f[a]] /\ \A a \in Dense : IsDense(f[a])
  /\ ConvInv(c, q, u)
  /\ \A a \in Dense : DenseInv(h, a, c, q, f[a])
  /\ GotInv(h, c, g)

RInv ==
  /\ at = [h \in Harts |-> at[h]] /\ fifo = [h \in Harts |-> fifo[h]]
  /\ conv = [h \in Harts |-> conv[h]] /\ fc = [h \in Harts |-> fc[h]]
  /\ got = [h \in Harts |-> got[h]]
  /\ dma \in Harts \cup {None} /\ (dma # None => at[dma] # Finished)
  /\ \A h \in Harts : HartInv(h, at[h], fifo[h], conv[h], fc[h], got[h])

-----------------------------------------------------------------------------
\* A sequence is the function of its elements.
LEMMA SeqIsSeq ==
  ASSUME NEW S, NEW s \in Seq(S)
  PROVE  IsSeq(s)
BY DEF IsSeq

\* Every such function is a sequence over some set.
LEMMA IsSeqSeq ==
  ASSUME NEW s, IsSeq(s)
  PROVE  \E S : s \in Seq(S)
<1>1. s \in Seq({s[i] : i \in 1 .. Len(s)})
  BY DEF IsSeq
<1> QED BY <1>1

\* The length of a sequence is a number.
LEMMA SeqLen ==
  ASSUME NEW s, IsSeq(s)
  PROVE  Len(s) \in Nat
BY DEF IsSeq

\* Append puts one element behind a sequence.
LEMMA SeqAppend ==
  ASSUME NEW s, IsSeq(s), NEW e
  PROVE  Longer(Append(s, e), s, e)
<1>1. PICK S : s \in Seq(S)
  BY IsSeqSeq
<1>2. Append(s, e) \in Seq(S \cup {e})
  BY <1>1
<1>3. IsSeq(Append(s, e))
  BY <1>2, SeqIsSeq
<1> QED BY <1>1, <1>3 DEF Longer

\* Tail and Head take a sequence apart.
LEMMA SeqTail ==
  ASSUME NEW s, IsSeq(s), s # <<>>
  PROVE  Shorter(Tail(s), s) /\ Head(s) = s[1]
<1>1. PICK S : s \in Seq(S)
  BY IsSeqSeq
<1>2. Len(s) \in Nat \ {0} /\ Tail(s) \in Seq(S)
  BY <1>1
<1>3. IsSeq(Tail(s))
  BY <1>2, SeqIsSeq
<1> QED BY <1>1, <1>2, <1>3 DEF Shorter

\* Only the empty sequence has length 0.
LEMMA SeqEmpty ==
  /\ IsSeq(<<>>) /\ Len(<<>>) = 0
  /\ \A s : IsSeq(s) /\ Len(s) = 0 => s = <<>>
<1>1. IsSeq(<<>>) /\ Len(<<>>) = 0
  BY DEF IsSeq
<1>2. ASSUME NEW s, IsSeq(s), Len(s) = 0 PROVE s = <<>>
  BY <1>2 DEF IsSeq
<1> QED BY <1>1, <1>2

\* Sequences with the same elements are equal.
LEMMA SeqSame ==
  ASSUME NEW s, IsSeq(s), NEW t, IsSeq(t), Len(s) = Len(t),
         \A i \in 1 .. Len(s) : s[i] = t[i]
  PROVE  s = t
<1>1. PICK S : s \in Seq(S)
  BY IsSeqSeq
<1>2. PICK T : t \in Seq(T)
  BY IsSeqSeq
<1>3. s = t
  BY <1>1, <1>2
<1> QED BY <1>3

-----------------------------------------------------------------------------
\* The constants, and the halves of a layer.
LEMMA Sizes ==
  /\ FifoSize \in Nat \ {0} /\ NumWeights \in Nat \ {0} /\ RowLen \in Nat \ {0}
  /\ Pooled \in Nat \ {0} /\ Inputs \in Nat \ {0} /\ Rows \in Nat /\ R \in Nat
  /\ Outputs \in Nat \ {0} /\ HalfRange \in Nat \ {0} /\ Outputs < HalfRange
  /\ R > 1 /\ Rows > R
BY RowAssumption

\* A filter has an odd number of rows, the input an even one.
LEMMA Parity == R % 2 = 1 /\ Rows % 2 = 0
BY RowAssumption

\* Each hart has its share of the filters or outputs of a layer.
LEMMA Halves ==
  ASSUME NEW all \in Nat \ {0}, all % NumHarts = 0, NEW h \in Harts
  PROVE  /\ Share(all) \in Nat \ {0}
         /\ First(h, all) \in Nat /\ Past(h, all) = First(h, all) + Share(all)
         /\ Past(h, all) <= all
<1>1. CASE NumHarts = 1
  <2>1. h = 0
    BY <1>1 DEF Harts
  <2>2. Share(all) = all
    BY <1>1 DEF Share
  <2> QED BY <2>1, <2>2 DEF First, Past
<1>2. CASE NumHarts = 2
  <2>1. h \in {0, 1}
    BY <1>2 DEF Harts
  <2>2. Share(all) \in Nat \ {0} /\ 2 * Share(all) = all
    BY <1>2 DEF Share
  <2> QED BY <2>1, <2>2 DEF First, Past
<1> QED BY <1>1, <1>2, RowAssumption

\* The filters of a hart.
LEMMA FilterHalf ==
  ASSUME NEW h \in Harts
  PROVE  /\ Share(Filters) \in Nat \ {0} /\ First(h, Filters) \in Nat
         /\ Past(h, Filters) = First(h, Filters) + Share(Filters)
BY Halves, RowAssumption

\* The outputs of a hart, whose numbers fit the accelerator's limits.
LEMMA OutputHalf ==
  ASSUME NEW h \in Harts
  PROVE  /\ Width \in Nat \ {0} /\ Low(h) \in Nat /\ High(h) = Low(h) + Width
         /\ High(h) <= Outputs /\ Low(h) < HalfRange /\ High(h) < HalfRange
<1>1. /\ Width \in Nat \ {0} /\ Low(h) \in Nat /\ High(h) = Low(h) + Width
      /\ High(h) <= Outputs
  BY Halves, RowAssumption DEF Width, Low, High
<1> HIDE DEF Low, High, Width
<1> QED BY <1>1, Sizes

\* Elements and weights are numbered row by row and column by column.
LEMMA BaseNext ==
  ASSUME NEW n, n \in Nat
  PROVE  Base(0) = 0 /\ Base(n) \in Nat /\ Base(n + 1) = Base(n) + RowLen
<1>1. RowLen \in Nat
  BY Sizes
<1> QED BY <1>1, Z3 DEF Base

\* An earlier row ends before a later one begins.
LEMMA BaseLess ==
  ASSUME NEW n, n \in Nat, NEW p, p \in Nat, n < p
  PROVE  Base(n) + RowLen <= Base(p)
<1>1. RowLen \in Nat
  BY Sizes
<1>2. (n + 1) * RowLen <= p * RowLen
  BY <1>1, TimesMonotonic
<1> QED BY <1>1, <1>2, BaseNext DEF Base

\* The number of an element tells its row and its place in the row.
LEMMA ElementAt ==
  ASSUME NEW n, n \in Nat, NEW k, k \in 0 .. RowLen - 1
  PROVE  Element(Base(n) + k) = <<"source", n, k + 1>>
<1>1. RowLen \in Nat \ {0}
  BY Sizes
<1>2. (n * RowLen + k) \div RowLen = n /\ (n * RowLen + k) % RowLen = k
  BY <1>1, DivisionUnique
<1> QED BY <1>2 DEF Element, Base

\* The weights of one input are a block.
LEMMA BlockNext ==
  ASSUME NEW h \in Harts, NEW n, n \in Nat
  PROVE  Block(0) = 0 /\ Block(n) \in Nat /\ Block(n + 1) = Block(n) + Width
<1>1. Width \in Nat
  BY OutputHalf
<1> HIDE DEF Width
<1> QED BY <1>1, Z3 DEF Block

\* An earlier block ends before a later one begins.
LEMMA BlockLess ==
  ASSUME NEW h \in Harts, NEW n, n \in Nat, NEW p, p \in Nat, n < p
  PROVE  Block(n) + Width <= Block(p)
<1>1. Width \in Nat
  BY OutputHalf
<1> HIDE DEF Width
<1>2. (n + 1) * Width <= p * Width
  BY <1>1, TimesMonotonic
<1> QED BY <1>1, <1>2, BlockNext DEF Block

\* The number of a weight tells its input and its output.
LEMMA FactorAt ==
  ASSUME NEW h \in Harts, NEW n, n \in Nat, NEW k, k \in 0 .. Width - 1
  PROVE  At(FactorSeq(h), Block(n) + k) = Weight(Low(h) + k, n)
<1>1. Width \in Nat \ {0}
  BY OutputHalf
<1> HIDE DEF Width
<1>2. (n * Width + k) \div Width = n /\ (n * Width + k) % Width = k
  BY <1>1, DivisionUnique
<1>3. n * Width + k \in Nat
  BY <1>1, Z3
<1> QED BY <1>2, <1>3 DEF FactorSeq, At, Block

-----------------------------------------------------------------------------
(***************************************************************************)
(* The convolution.  A step of the program or of MAC takes the relation    *)
(* between them to the same relation.                                      *)
(***************************************************************************)
\* Rows come in pairs: results are read after the last row, never after an even one.
LEMMA RowPairs == ReadsAfter(Rows - 1) /\ ~ReadsAfter(0)
BY Sizes, Parity DEF ReadsAfter

\* Results are read after every other row.
LEMMA Alternate ==
  ASSUME NEW p, p \in Nat, p + 1 >= R
  PROVE  /\ ReadsAfter(p) <=> ~ReadsAfter(p + 1)
         /\ p + 1 = Rows => ReadsAfter(p)
         /\ p - 1 \in Nat
BY Sizes, Parity DEF ReadsAfter

\* The program sends a weight of the filter.
LEMMA WorkingSendsWeight ==
  ASSUME NEW m, NEW k \in 1 .. NumWeights, NEW port, NEW n,
         \/ port = "weight" /\ n = k + 1
         \/ port = "source" /\ n = 1 /\ k = NumWeights,
         NEW w, IsSeq(w), NEW s, IsSeq(s), NEW r,
         NEW W, IsSeq(W), NEW A, NEW row, IsSeq(row), NEW l, NEW e, NEW b, NEW o,
         NEW p \in 0 .. Rows - 1,
         Working(Call("conv", "weight", m, 0, k), w, s, r, Mac(W, A, row, l, e, b, o), p),
         NEW w1, Longer(w1, w, Weight(m, k))
  PROVE  Working(Call("conv", port, m, 0, n), w1, s, r, Mac(W, A, row, l, e, b, o), p)
<1> USE Sizes
<1>1. Len(w) \in Nat /\ Len(W) \in Nat /\ Len(row) \in Nat /\ Len(s) \in Nat
  BY SeqLen
<1>2. Len(W) + Len(w) = k - 1 /\ Weights(m, w, Len(W))
  BY DEF Working, WeightsSent, Call, Mac
<1>3. /\ Len(w1) = Len(w) + 1 /\ w1[Len(w) + 1] = Weight(m, k)
      /\ \A i \in 1 .. Len(w) : w1[i] = w[i]
  BY DEF Longer
<1>4. Weights(m, w1, Len(W))
  <2> SUFFICES ASSUME NEW i \in 1 .. Len(w) + 1 PROVE w1[i] = Weight(m, Len(W) + i)
    BY <1>3 DEF Weights
  <2>1. CASE i \in 1 .. Len(w)
    BY <1>2, <1>3, <2>1 DEF Weights
  <2>2. CASE i = Len(w) + 1
    <3>1. Len(W) + i = k
      BY <1>1, <1>2, <2>2
    <3> QED BY <1>3, <2>2, <3>1
  <2> QED BY <1>1, <2>1, <2>2
<1>5. Len(W) + Len(w1) = k
  BY <1>1, <1>2, <1>3
<1>6. (Base(p) + Len(row)) + Len(s) = 0
  BY DEF Working, SourcesSent, Call, Mac
<1>7. Base(0) = 0
  BY BaseNext
<1>8. /\ WeightsSent(Call("conv", port, m, 0, n)) = k
      /\ SourcesSent(Call("conv", port, m, 0, n)) = 0
      /\ port # "result"
  BY <1>7 DEF WeightsSent, SourcesSent, Call, Mac
<1> QED BY <1>4, <1>5, <1>6, <1>8 DEF Working, Call, Mac

\* The program sends an element of the input.
LEMMA WorkingSendsSource ==
  ASSUME NEW m, NEW i \in 0 .. Rows - 1, NEW k \in 1 .. RowLen, NEW port, NEW j, NEW n,
         \/ port = "source" /\ j = i /\ n = k + 1 /\ k < RowLen
         \/ port = "result" /\ j = i /\ n = 1 /\ k = RowLen
         \/ port = "source" /\ j = i + 1 /\ n = 1 /\ k = RowLen /\ ~ReadsAfter(i),
         NEW w, NEW s, IsSeq(s), NEW r,
         NEW W, NEW A, NEW row, IsSeq(row), NEW l, NEW e, NEW b, NEW o,
         NEW p \in 0 .. Rows - 1,
         Working(Call("conv", "source", m, i, k), w, s, r, Mac(W, A, row, l, e, b, o), p),
         NEW s1, Longer(s1, s, <<"source", i, k>>)
  PROVE  Working(Call("conv", port, m, j, n), w, s1, r, Mac(W, A, row, l, e, b, o), p)
<1> USE Sizes
<1>1. Len(row) \in Nat /\ Len(s) \in Nat
  BY SeqLen
<1>2. Base(p) \in Nat /\ Base(i) \in Nat /\ Base(i + 1) = Base(i) + RowLen
  BY BaseNext
<1>3. /\ WeightsSent(Call("conv", "source", m, i, k)) = NumWeights
      /\ WeightsSent(Call("conv", port, m, j, n)) = NumWeights
  BY DEF WeightsSent, Call, Mac
<1>4. SourcesSent(Call("conv", port, m, j, n)) = (Base(i) + (k - 1)) + 1
  BY <1>2 DEF SourcesSent, Call, Mac
<1>5. /\ (Base(p) + Len(row)) + Len(s) = Base(i) + (k - 1)
      /\ \A x \in 1 .. Len(s) : s[x] = Element((Base(p) + Len(row)) + (x - 1))
      /\ \A x \in p .. Rows - 1 : ReadsAfter(x) => i <= x
  BY DEF Working, SourcesSent, Call, Mac
<1>6. /\ Len(s1) = Len(s) + 1 /\ s1[Len(s) + 1] = <<"source", i, k>>
      /\ \A x \in 1 .. Len(s) : s1[x] = s[x]
  BY DEF Longer
<1>7. ASSUME NEW x \in 1 .. Len(s1)
      PROVE  s1[x] = Element((Base(p) + Len(row)) + (x - 1))
  <2>1. CASE x \in 1 .. Len(s)
    BY <1>5, <1>6, <2>1
  <2>2. CASE x = Len(s) + 1
    <3>1. (Base(p) + Len(row)) + (x - 1) = Base(i) + (k - 1)
      BY <1>1, <1>2, <1>5, <2>2
    <3>2. Element(Base(i) + (k - 1)) = <<"source", i, (k - 1) + 1>>
      BY ElementAt
    <3> QED BY <1>6, <2>2, <3>1, <3>2
  <2> QED BY <1>1, <1>6, <2>1, <2>2
<1>8. p <= i
  <2>1. i < p => Base(i) + RowLen <= Base(p)
    BY BaseLess
  <2> QED BY <1>1, <1>2, <1>5, <2>1
<1>9. (Base(p) + Len(row)) + Len(s1) = (Base(i) + (k - 1)) + 1
  BY <1>1, <1>2, <1>5, <1>6
<1>10. \A x \in p .. Rows - 1 : ReadsAfter(x) => j <= x
  BY <1>5
<1>11. port = "result" => n = 1 /\ p <= j
  BY <1>8
<1> QED BY <1>3, <1>4, <1>7, <1>9, <1>10, <1>11 DEF Working, Call, Mac

\* The program reads a result of the row pair, and another one follows.
LEMMA DeliveringReads ==
  ASSUME NEW m, NEW i, NEW k \in 1 .. Pooled,
         NEW w, NEW s, NEW r, IsSeq(r),
         NEW W, NEW A, NEW row, NEW l, NEW e, NEW b, NEW o, IsSeq(o),
         Delivering(Call("conv", "result", m, i, k), w, s, r, Mac(W, A, row, l, e, b, o)),
         NEW r1, Shorter(r1, r)
  PROVE  Delivering(Call("conv", "result", m, i, k + 1), w, s, r1, Mac(W, A, row, l, e, b, o))
<1> USE Sizes
<1>1. Len(r) \in Nat /\ Len(r1) \in Nat /\ Len(o) \in Nat
  BY SeqLen DEF Shorter
<1>2. Len(r) + Len(o) = Pooled - (k - 1) /\ Len(r) = Len(r1) + 1
  BY DEF Delivering, Call, Mac, Shorter
<1>3. /\ \A x \in 1 .. Len(r) : r[x] = RowPair(m, i, (k - 1) + x)
      /\ \A x \in 1 .. Len(o) : o[x] = RowPair(m, i, (k - 1) + (Len(r) + x))
      /\ \A x \in 1 .. Len(r1) : r1[x] = r[x + 1]
  BY DEF Delivering, Call, Mac, Shorter
<1>4. Len(r1) + Len(o) = Pooled - ((k + 1) - 1)
  BY <1>1, <1>2
<1>5. ASSUME NEW x \in 1 .. Len(r1) PROVE r1[x] = RowPair(m, i, ((k + 1) - 1) + x)
  BY <1>1, <1>2, <1>3
<1>6. ASSUME NEW x \in 1 .. Len(o)
      PROVE  o[x] = RowPair(m, i, ((k + 1) - 1) + (Len(r1) + x))
  BY <1>1, <1>2, <1>3
<1> QED BY <1>4, <1>5, <1>6 DEF Delivering, Call, Mac

\* The program reads the last result of a row pair and goes on.
LEMMA DeliveringEnds ==
  ASSUME NEW h \in Harts, NEW m, NEW i \in 0 .. Rows - 1,
         NEW w, NEW s, NEW r, IsSeq(r), r # <<>>,
         NEW W, NEW A, NEW row, NEW l, NEW e, NEW b, NEW o, IsSeq(o),
         Delivering(Call("conv", "result", m, i, Pooled), w, s, r,
                    Mac(W, A, row, l, e, b, o)),
         NEW r1, Shorter(r1, r)
  PROVE  ConvOf(NextRow(h, Call("conv", "result", m, i, Pooled)), w, s, r1,
                Mac(W, A, row, l, e, b, o))
<1> USE Sizes
<1> DEFINE u == Mac(W, A, row, l, e, b, o)
           c == Call("conv", "result", m, i, Pooled)
<1>1. Len(r) \in Nat \ {0} /\ IsSeq(r1) /\ Len(r1) \in Nat /\ Len(o) \in Nat
  BY SeqLen, SeqEmpty DEF Shorter
<1>2. Len(r) + Len(o) = Pooled - (Pooled - 1) /\ w = <<>> /\ s = <<>> /\ row = <<>>
  BY DEF BuffersOf, Delivering, Call, Mac
<1>3. Len(r) = Len(r1) + 1
  BY DEF Shorter
<1>4. Len(r1) = 0 /\ Len(o) = 0
  BY <1>1, <1>2, <1>3
<1>5. r1 = <<>> /\ o = <<>>
  BY <1>1, <1>4, SeqEmpty
<1>6. Len(w) = 0 /\ Len(s) = 0 /\ Len(row) = 0
  BY <1>2, SeqEmpty
<1>7. CASE i + 1 < Rows
  <2>1. NextRow(h, c) = Call("conv", "source", m, i + 1, 1)
    BY <1>7 DEF NextRow, Call, Mac
  <2>2. Base(i + 1) \in Nat
    BY BaseNext
  <2>3. Buffers(m, i + 1, A, l, e, b) /\ Len(W) = NumWeights /\ Weights(m, W, 0)
    BY <1>7 DEF BuffersOf, Delivering, Call, Mac
  <2>4. Working(Call("conv", "source", m, i + 1, 1), w, s, r1, u, i + 1)
    <3>1. Weights(m, w, Len(W))
      BY <1>6 DEF Weights
    <3> QED BY <1>5, <1>6, <2>2, <2>3, <3>1 DEF BuffersOf, Working, WeightsSent, SourcesSent, Call, Mac
  <2> QED BY <1>7, <2>1, <2>4 DEF ConvOf, Call, Mac
<1>8. CASE ~(i + 1 < Rows)
  <2>1. W = <<>> /\ Buffers(m, 0, A, l, e, b) /\ Len(W) = 0
    BY <1>8, SeqEmpty DEF BuffersOf, Delivering, Call, Mac
  <2>2. Buffers(m + 1, 0, A, l, e, b) /\ Buffers(0, 0, A, l, e, b)
    BY <2>1, RowPairs DEF Buffers
  <2>3. CASE m + 1 < Past(h, Filters)
    <3>1. NextRow(h, c) = Call("conv", "weight", m + 1, 0, 1)
      BY <1>8, <2>3 DEF NextRow, Call, Mac
    <3>2. Base(0) = 0 /\ Weights(m + 1, W, 0) /\ Weights(m + 1, w, 0)
      BY <1>6, <2>1, BaseNext DEF Weights
    <3>3. Working(Call("conv", "weight", m + 1, 0, 1), w, s, r1, u, 0)
      BY <1>5, <1>6, <2>1, <2>2, <3>2 DEF BuffersOf, Working, WeightsSent, SourcesSent, Call, Mac
    <3> QED BY <3>1, <3>3 DEF ConvOf, Call, Mac
  <2>4. CASE ~(m + 1 < Past(h, Filters))
    <3>1. NextRow(h, c) = Call("fc1", "start", 0, 0, 0)
      BY <1>8, <2>4 DEF NextRow, Call, Mac
    <3>2. ConvResting(w, s, r1, u)
      BY <1>2, <1>5, <2>1, <2>2 DEF BuffersOf, ConvResting, Call, Mac
    <3> QED BY <3>1, <3>2 DEF ConvOf, Call, Mac
  <2> QED BY <2>3, <2>4
<1> QED BY <1>7, <1>8

\* MAC receives a weight.
LEMMA WorkingReceivesWeight ==
  ASSUME NEW c, NEW w, IsSeq(w), NEW s, IsSeq(s), NEW r,
         NEW W, IsSeq(W), NEW A, NEW row, IsSeq(row), NEW l, NEW e, NEW b, NEW o,
         NEW p \in 0 .. Rows - 1, Working(c, w, s, r, Mac(W, A, row, l, e, b, o), p),
         w # <<>>, Len(W) < NumWeights,
         NEW w1, Shorter(w1, w), NEW W1, Longer(W1, W, w[1])
  PROVE  Working(c, w1, s, r, Mac(W1, A, row, l, e, b, o), p)
<1> USE Sizes
<1> DEFINE m == c.m
           n == WeightsSent(c)
<1>1. Len(w) \in Nat \ {0} /\ Len(w1) \in Nat /\ Len(W) \in Nat
  BY SeqLen, SeqEmpty DEF Shorter
<1>2. Weights(m, W, 0) /\ Weights(m, w, Len(W)) /\ Len(W) + Len(w) = n
  BY DEF BuffersOf, Working, Mac
<1> HIDE DEF m, n
<1>3. Len(w) = Len(w1) + 1 /\ Len(W1) = Len(W) + 1
  BY DEF Shorter, Longer
<1>4. Len(W1) + Len(w1) = n
  BY <1>1, <1>2, <1>3
<1>5. \A i \in 1 .. Len(w1) : w1[i] = w[i + 1]
  BY DEF Shorter
<1>6. W1[Len(W) + 1] = w[1] /\ \A i \in 1 .. Len(W) : W1[i] = W[i]
  BY DEF Longer
<1>7. Weights(m, w1, Len(W1))
  <2> SUFFICES ASSUME NEW i \in 1 .. Len(w1) PROVE w1[i] = Weight(m, (Len(W) + 1) + i)
    BY <1>3 DEF Weights
  <2>1. w1[i] = w[i + 1]
    BY <1>5
  <2>2. w[i + 1] = Weight(m, Len(W) + (i + 1))
    BY <1>1, <1>2, <1>3 DEF Weights
  <2>3. Len(W) + (i + 1) = (Len(W) + 1) + i
    BY <1>1
  <2> QED BY <2>1, <2>2, <2>3
<1>8. Weights(m, W1, 0)
  <2> SUFFICES ASSUME NEW i \in 1 .. Len(W) + 1 PROVE W1[i] = Weight(m, 0 + i)
    BY <1>3 DEF Weights
  <2>1. CASE i \in 1 .. Len(W)
    BY <1>2, <1>6, <2>1 DEF Weights
  <2>2. CASE i = Len(W) + 1
    <3>1. w[1] = Weight(m, Len(W) + 1)
      BY <1>1, <1>2 DEF Weights
    <3>2. 0 + i = Len(W) + 1
      BY <1>1, <2>2
    <3> QED BY <1>6, <2>2, <3>1, <3>2
  <2> QED BY <1>1, <2>1, <2>2
<1>9. p = 0 /\ Len(row) = 0
  BY DEF BuffersOf, Working, Mac
<1> QED BY <1>4, <1>7, <1>8, <1>9 DEF BuffersOf, Working, Mac, m, n

\* MAC has received row of row p, and s is what was sent after it.
Taking(c, s, row, p) ==
  /\ Len(row) = RowLen => row = InputRow(p)
  /\ \A q \in 1 .. Len(row) : row[q] = <<"source", p, q>>
  /\ (Base(p) + Len(row)) + Len(s) = SourcesSent(c)
  /\ \A i \in 1 .. Len(s) : s[i] = Element((Base(p) + Len(row)) + (i - 1))
  /\ Len(row) <= RowLen

\* MAC receives an element of the row it is to receive.
LEMMA WorkingReceivesSource ==
  ASSUME NEW c, NEW w, NEW s, NEW r,
         NEW W, NEW A, NEW row, NEW l, NEW e, NEW b, NEW o, NEW p, NEW s1, NEW row1,
         IsSeq(s), IsSeq(row), p \in 0 .. Rows - 1,
         Working(c, w, s, r, Mac(W, A, row, l, e, b, o), p), s # <<>>, Len(W) = NumWeights,
         Shorter(s1, s), Longer(row1, row, FirstOf(s))
  PROVE  Taking(c, s1, row1, p)
<1> USE Sizes
<1> DEFINE n == SourcesSent(c)
<1>1. Len(s) \in Nat \ {0} /\ Len(s1) \in Nat /\ Len(row) \in Nat
  BY SeqLen, SeqEmpty DEF Shorter
<1>2. (Base(p) + Len(row)) + Len(s) = n /\ Len(row) < RowLen
  BY DEF BuffersOf, Working, Mac
<1>3. /\ \A i \in 1 .. Len(s) : s[i] = Element((Base(p) + Len(row)) + (i - 1))
      /\ \A q \in 1 .. Len(row) : row[q] = <<"source", p, q>>
  BY DEF BuffersOf, Working, Mac
<1> HIDE DEF n
<1>4. Len(s) = Len(s1) + 1 /\ Len(row1) = Len(row) + 1 /\ Base(p) \in Nat
  BY BaseNext DEF Shorter, Longer
<1>5. (Base(p) + Len(row1)) + Len(s1) = n
  BY <1>1, <1>2, <1>4
<1>6. ASSUME NEW i \in 1 .. Len(s1)
      PROVE  s1[i] = Element((Base(p) + Len(row1)) + (i - 1))
  <2>1. s1[i] = s[i + 1] /\ i + 1 \in 1 .. Len(s)
    BY <1>1, <1>4 DEF Shorter
  <2>2. (Base(p) + Len(row)) + ((i + 1) - 1) = (Base(p) + Len(row1)) + (i - 1)
    BY <1>1, <1>4
  <2> QED BY <1>3, <2>1, <2>2
<1>7. ASSUME NEW q \in 1 .. Len(row1) PROVE row1[q] = <<"source", p, q>>
  <2>1. CASE q \in 1 .. Len(row)
    BY <1>3, <2>1 DEF Longer
  <2>2. CASE q = Len(row) + 1
    <3>1. s[1] = Element((Base(p) + Len(row)) + (1 - 1))
      BY <1>1, <1>3
    <3>2. (Base(p) + Len(row)) + (1 - 1) = Base(p) + Len(row) /\ Len(row) \in 0 .. RowLen - 1
      BY <1>1, <1>2, <1>4
    <3>3. Element(Base(p) + Len(row)) = <<"source", p, Len(row) + 1>>
      BY <3>2, ElementAt
    <3> QED BY <2>2, <3>1, <3>2, <3>3 DEF Longer, FirstOf
  <2> QED BY <1>1, <1>4, <2>1, <2>2
<1>8. ASSUME Len(row1) = RowLen PROVE row1 = InputRow(p)
  <2>1. IsSeq(row1)
    BY DEF Longer
  <2>2. IsSeq(InputRow(p)) /\ Len(InputRow(p)) = RowLen
    BY DEF InputRow, IsSeq
  <2>3. \A q \in 1 .. Len(row1) : row1[q] = InputRow(p)[q]
    BY <1>7, <1>8 DEF InputRow
  <2> QED BY <1>8, <2>1, <2>2, <2>3, SeqSame
<1>9. Len(row1) <= RowLen
  BY <1>1, <1>2, <1>4
<1> QED BY <1>5, <1>6, <1>7, <1>8, <1>9 DEF n, Taking

\* The row is not complete yet.
LEMMA WorkingReceivesElement ==
  ASSUME NEW c, NEW w, NEW s, NEW r,
         NEW W, NEW A, NEW row, NEW l, NEW e, NEW b, NEW o, NEW p, NEW s1, NEW row1,
         IsSeq(s), IsSeq(row), p \in 0 .. Rows - 1,
         Working(c, w, s, r, Mac(W, A, row, l, e, b, o), p), s # <<>>, Len(W) = NumWeights,
         Shorter(s1, s), Longer(row1, row, FirstOf(s)), Len(row1) < RowLen
  PROVE  Working(c, w, s1, r, Mac(W, A, row1, l, e, b, o), p)
<1>1. Taking(c, s1, row1, p)
  BY WorkingReceivesSource
<1>2. ~(Len(W) < NumWeights)
  BY Sizes
<1> QED BY <1>1, <1>2 DEF BuffersOf, Working, Mac, Taking

\* What Convolve puts together.
Product(W, rows) == [weights |-> W, rows |-> rows]
Stored(b, e, v) == [b EXCEPT ![e] = v]
PooledRow(b) == [q \in 1 .. Pooled |-> [top |-> Top(b), bottom |-> Bottom(b), q |-> q]]
Flip(e) == ~e
Results(e, b) == IF Odd(e) THEN PooledRow(b) ELSE <<>>

\* One of the first rows of a filter is kept.
LEMMA BuffersGrow ==
  ASSUME NEW m, NEW p \in 0 .. Rows - 1, NEW A, IsSeq(A), NEW l, NEW e \in BOOLEAN, NEW b,
         Buffers(m, p, A, l, e, b), Len(A) < R - 1, NEW A1, Longer(A1, A, InputRow(p))
  PROVE  Buffers(m, p + 1, A1, l, e, b) /\ p + 1 \in 0 .. Rows - 1 /\ p + 1 < R
<1> USE Sizes
<1>1. Len(A) \in Nat /\ Len(A) = p /\ p < R - 1 /\ l = R - 1
  BY SeqLen DEF Buffers
<1>2. ~ReadsAfter(p) /\ ~ReadsAfter(p + 1)
  BY <1>1 DEF ReadsAfter
<1>3. \A i \in 1 .. Len(A) : A[i] = InputRow((p - Len(A)) + (i - 1))
  BY DEF Buffers
<1>4. /\ Len(A1) = p + 1 /\ A1[p + 1] = InputRow(p)
      /\ \A i \in 1 .. Len(A) : A1[i] = A[i]
  BY <1>1 DEF Longer
<1>5. ASSUME NEW i \in 1 .. p + 1 PROVE A1[i] = InputRow(((p + 1) - (p + 1)) + (i - 1))
  <2>1. CASE i \in 1 .. p
    <3>1. (p - Len(A)) + (i - 1) = ((p + 1) - (p + 1)) + (i - 1)
      BY <1>1
    <3> QED BY <1>1, <1>3, <1>4, <2>1, <3>1
  <2>2. CASE i = p + 1
    <3>1. ((p + 1) - (p + 1)) + (i - 1) = p
      BY <2>2
    <3> QED BY <1>4, <2>2, <3>1
  <2> QED BY <2>1, <2>2
<1>6. Len(A1) = (IF p + 1 < R - 1 THEN p + 1 ELSE R - 1) /\ l = (IF p + 1 < R - 1 THEN R - 1 ELSE p + 1)
  BY <1>1, <1>4
<1>7. ~Odd(e)
  BY <1>2 DEF Buffers
<1>8. Buffers(m, p + 1, A1, l, e, b)
  <2>1. \A i \in 1 .. Len(A1) : A1[i] = InputRow(((p + 1) - Len(A1)) + (i - 1))
    BY <1>4, <1>5
  <2>2. Odd(e) <=> ReadsAfter(p + 1)
    BY <1>2, <1>7
  <2> QED BY <1>6, <1>7, <2>1, <2>2, Zenon DEF Buffers
<1> QED BY <1>1, <1>7, <1>8

\* The rows under the filter are those of a convolution row; all but the first are kept.
Covered(A1, p, l, e) ==
  /\ Len(A1) = R /\ \A i \in 1 .. R : A1[i] = InputRow((p - R) + i)
  /\ l = p /\ p + 1 >= R /\ (Odd(e) <=> ReadsAfter(p))

\* With the rows kept before, the new row covers the filter.
LEMMA UnderFilter ==
  ASSUME NEW m, NEW p, NEW A, NEW l, NEW e, NEW b, NEW A1, p \in 0 .. Rows - 1,
         IsSeq(A), Buffers(m, p, A, l, e, b), ~(Len(A) < R - 1), Longer(A1, A, InputRow(p))
  PROVE  Covered(A1, p, l, e)
<1> USE Sizes
<1>1. Len(A) = R - 1 /\ p >= R - 1 /\ l = p
  BY SeqLen DEF Buffers
<1>2. Odd(e) <=> ReadsAfter(p)
  BY DEF Buffers
<1>3. \A i \in 1 .. Len(A) : A[i] = InputRow((p - Len(A)) + (i - 1))
  BY DEF Buffers
<1>4. /\ IsSeq(A1) /\ Len(A1) = R /\ A1[R] = InputRow(p)
      /\ \A i \in 1 .. Len(A) : A1[i] = A[i]
  BY <1>1 DEF Longer
<1>5. ASSUME NEW i \in 1 .. R PROVE A1[i] = InputRow((p - R) + i)
  <2>1. CASE i \in 1 .. R - 1
    <3>1. (p - Len(A)) + (i - 1) = (p - R) + i
      BY <1>1
    <3> QED BY <1>1, <1>3, <1>4, <2>1, <3>1
  <2>2. CASE i = R
    <3>1. (p - R) + i = p
      BY <2>2
    <3> QED BY <1>4, <2>2, <3>1
  <2> QED BY <2>1, <2>2
<1> QED BY <1>1, <1>2, <1>4, <1>5 DEF Covered

\* The product of the weights and the rows is the row of the convolution.
LEMMA RowComplete ==
  ASSUME NEW m, NEW p, NEW W, NEW A1, p \in 0 .. Rows - 1, IsSeq(W), IsSeq(A1),
         Len(W) = NumWeights, Weights(m, W, 0),
         Len(A1) = R, \A i \in 1 .. R : A1[i] = InputRow((p - R) + i)
  PROVE  Product(W, A1) = ConvRow(m, p)
<1> USE Sizes
<1> DEFINE V == [k \in 1 .. NumWeights |-> Weight(m, k)]
           I == [i \in 1 .. R |-> InputRow((p - R) + i)]
<1>1. W = V
  <2>1. IsSeq(V) /\ Len(V) = NumWeights
    BY DEF IsSeq
  <2>2. \A k \in 1 .. Len(W) : W[k] = V[k]
    BY DEF Weights
  <2> HIDE DEF V
  <2> QED BY <2>1, <2>2, SeqSame
<1>2. A1 = I
  <2>1. IsSeq(I) /\ Len(I) = R
    BY DEF IsSeq
  <2>2. \A k \in 1 .. Len(A1) : A1[k] = I[k]
    OBVIOUS
  <2> HIDE DEF I
  <2> QED BY <2>1, <2>2, SeqSame
<1> QED BY <1>1, <1>2 DEF ConvRow, Product

\* The oldest row leaves the buffers.
LEMMA BuffersShift ==
  ASSUME NEW m, NEW p, NEW e1, NEW A1, NEW A2, NEW b2, p \in 0 .. Rows - 1, p + 1 >= R,
         Len(A1) = R, \A i \in 1 .. R : A1[i] = InputRow((p - R) + i), Shorter(A2, A1),
         Odd(e1) <=> ~ReadsAfter(p), Odd(e1) => Top(b2) = ConvRow(m, p)
  PROVE  Buffers(m, p + 1, A2, p + 1, e1, b2)
<1> USE Sizes
<1>1. Len(A2) \in Nat /\ Len(A1) = Len(A2) + 1 /\ \A i \in 1 .. Len(A2) : A2[i] = A1[i + 1]
  BY SeqLen DEF Shorter
<1>2. Len(A2) = R - 1
  BY <1>1
<1>3. ASSUME NEW i \in 1 .. Len(A2) PROVE A2[i] = InputRow(((p + 1) - Len(A2)) + (i - 1))
  <2>1. ((p + 1) - Len(A2)) + (i - 1) = (p - R) + (i + 1) /\ i + 1 \in 1 .. R
    BY <1>2
  <2> QED BY <1>1, <2>1
<1>4. Odd(e1) <=> ReadsAfter(p + 1)
  <2>1. ReadsAfter(p) <=> ~ReadsAfter(p + 1)
    <3>1. p \in Nat /\ p + 1 >= R
      OBVIOUS
    <3> QED BY <3>1, Alternate
  <2> QED BY <2>1, Zenon
<1>5. Odd(e1) => Top(b2) = ConvRow(m, (p + 1) - 1)
  <2>1. ConvRow(m, (p + 1) - 1) = ConvRow(m, p)
    OBVIOUS
  <2> HIDE DEF ConvRow
  <2> QED BY <2>1, Zenon
<1>6. /\ Len(A2) = (IF p + 1 < R - 1 THEN p + 1 ELSE R - 1)
      /\ p + 1 = (IF p + 1 < R - 1 THEN R - 1 ELSE p + 1)
  BY <1>2
<1> QED BY <1>3, <1>4, <1>5, <1>6, Zenon DEF Buffers

\* MAC has received the whole of row p.
RowReceived(c, w, s, r, W, p) ==
  /\ r = <<>> /\ Len(W) + Len(w) = WeightsSent(c)
  /\ Len(W) = NumWeights /\ Weights(c.m, W, 0) /\ Weights(c.m, w, Len(W))
  /\ Base(p + 1) + Len(s) = SourcesSent(c)
  /\ \A i \in 1 .. Len(s) : s[i] = Element(Base(p + 1) + (i - 1))
  /\ \A j \in p .. Rows - 1 : ReadsAfter(j) => c.p <= j
  /\ c.port = "result" => c.k = 1 /\ p <= c.p

\* MAC goes on to the next row.
LEMMA NextRowWorking ==
  ASSUME NEW c, NEW w, NEW s, NEW r, NEW W, NEW A, NEW l, NEW e, NEW b,
         NEW p \in 0 .. Rows - 1, RowReceived(c, w, s, r, W, p), ~ReadsAfter(p),
         c.port = "result" => c.p \in Nat /\ ReadsAfter(c.p),
         Buffers(c.m, p + 1, A, l, e, b)
  PROVE  Working(c, w, s, r, Mac(W, A, <<>>, l, e, b, <<>>), p + 1)
<1> USE Sizes
<1> DEFINE n == SourcesSent(c)
           z == c.p
<1>1. Len(<<>>) = 0 /\ Base(p + 1) \in Nat /\ Base(p + 1) + 0 = Base(p + 1)
  BY BaseNext
<1>2. c.port = "result" => c.k = 1 /\ p <= z /\ z \in Nat /\ z # p
  BY DEF RowReceived
<1>3. c.port = "result" => c.k = 1 /\ p + 1 <= z
  <2> HIDE DEF z
  <2> QED BY <1>2
<1>4. \A j \in p + 1 .. Rows - 1 : ReadsAfter(j) => c.p <= j
  BY DEF RowReceived
<1>5. (Base(p + 1) + 0) + Len(s) = n
  BY <1>1 DEF RowReceived
<1>6. \A i \in 1 .. Len(s) : s[i] = Element((Base(p + 1) + 0) + (i - 1))
  BY <1>1 DEF RowReceived
<1>7. /\ r = <<>> /\ Len(W) + Len(w) = WeightsSent(c)
      /\ ~(Len(W) < NumWeights) /\ Weights(c.m, W, 0) /\ Weights(c.m, w, Len(W))
  BY DEF RowReceived
<1>8. BuffersOf(c.m, p + 1, Mac(W, A, <<>>, l, e, b, <<>>))
  BY DEF BuffersOf, Mac
<1>9. \A q \in 1 .. 0 : FALSE
  OBVIOUS
<1> QED BY <1>1, <1>3, <1>4, <1>5, <1>6, <1>7, <1>8, <1>9 DEF Working, Mac

\* The second of two rows: what the program has sent is all received.
LEMMA RowPairReceived ==
  ASSUME NEW port, NEW m, NEW i \in 0 .. Rows - 1, NEW k, NEW w, IsSeq(w), NEW s, IsSeq(s),
         NEW r, NEW W, NEW p \in 0 .. Rows - 1,
         (port = "source" /\ k \in 1 .. RowLen) \/ port \in {"weight", "result"},
         RowReceived(Call("conv", port, m, i, k), w, s, r, W, p), ReadsAfter(p)
  PROVE  port = "result" /\ i = p /\ k = 1 /\ w = <<>> /\ s = <<>> /\ r = <<>>
<1> USE Sizes
<1>1. Len(w) \in Nat /\ Len(s) \in Nat
  BY SeqLen
<1>2. i <= p /\ r = <<>> /\ Len(W) = NumWeights
  BY DEF RowReceived, Call
<1>3. /\ Base(p + 1) \in Nat /\ Base(p) \in Nat /\ Base(p + 1) = Base(p) + RowLen
      /\ Base(i) \in Nat
  BY BaseNext
<1>4. Base(i) <= Base(p)
  BY <1>2, <1>3, BaseLess
<1>5. port = "result"
  <2>1. CASE port = "weight"
    <3>1. Base(p + 1) + Len(s) = 0
      BY <2>1 DEF RowReceived, SourcesSent, Call
    <3> QED BY <1>1, <1>3, <3>1
  <2>2. CASE port = "source" /\ k \in 1 .. RowLen
    <3>1. Base(p + 1) + Len(s) = Base(i) + (k - 1)
      BY <2>2 DEF RowReceived, SourcesSent, Call
    <3>2. k \in 1 .. RowLen
      BY <2>2
    <3> QED BY <1>1, <1>3, <1>4, <3>1, <3>2
  <2> QED BY <2>1, <2>2
<1>6. k = 1 /\ p <= i
  BY <1>5 DEF RowReceived, Call
<1>7. i = p
  BY <1>2, <1>6
<1>8. Base(p + 1) + Len(s) = Base(p + 1) /\ NumWeights + Len(w) = NumWeights
  BY <1>2, <1>5, <1>7 DEF RowReceived, SourcesSent, WeightsSent, Call
<1>9. Len(s) = 0 /\ Len(w) = 0
  BY <1>1, <1>3, <1>8
<1> QED BY <1>2, <1>5, <1>6, <1>7, <1>9, SeqEmpty

\* The second of two rows is pooled into the results that the program reads.
LEMMA RowPairDelivered ==
  ASSUME NEW m, NEW p \in 0 .. Rows - 1, NEW W, Len(W) = NumWeights, Weights(m, W, 0),
         NEW A, NEW b, NEW e, ~Odd(e),
         Buffers(m, p + 1, A, p + 1, e, b),
         NEW o, Len(o) = Pooled, \A q \in 1 .. Pooled : o[q] = RowPair(m, p, q)
  PROVE  /\ p + 1 < Rows =>
              Delivering(Call("conv", "result", m, p, 1), <<>>, <<>>, <<>>,
                         Mac(W, A, <<>>, p + 1, e, b, o))
         /\ p + 1 = Rows =>
              Delivering(Call("conv", "result", m, p, 1), <<>>, <<>>, <<>>,
                         Mac(<<>>, <<>>, <<>>, R - 1, e, b, o))
<1> USE Sizes
<1>1. Len(<<>>) = 0 /\ 0 + Len(o) = Pooled - (1 - 1)
  OBVIOUS
<1>2. ASSUME NEW i \in 1 .. Len(o) PROVE o[i] = RowPair(m, p, (1 - 1) + (0 + i))
  OBVIOUS
<1>3. \A i \in 1 .. 0 : FALSE
  OBVIOUS
<1>4. Buffers(m, 0, <<>>, R - 1, e, b)
  <2>1. ~(0 >= R - 1) /\ Len(<<>>) = 0 /\ ~ReadsAfter(0)
    BY RowPairs
  <2> QED BY <2>1 DEF Buffers
<1>5. ASSUME p + 1 < Rows
      PROVE  Delivering(Call("conv", "result", m, p, 1), <<>>, <<>>, <<>>,
                        Mac(W, A, <<>>, p + 1, e, b, o))
  BY <1>1, <1>2, <1>3, <1>5 DEF Delivering, BuffersOf, Call, Mac
<1>6. ASSUME p + 1 = Rows
      PROVE  Delivering(Call("conv", "result", m, p, 1), <<>>, <<>>, <<>>,
                        Mac(<<>>, <<>>, <<>>, R - 1, e, b, o))
  BY <1>1, <1>2, <1>3, <1>4, <1>6 DEF Delivering, BuffersOf, Call, Mac
<1> QED BY <1>5, <1>6

\* MAC writes a result.
LEMMA DeliveringSends ==
  ASSUME NEW m, NEW i, NEW k \in 1 .. Pooled,
         NEW w, NEW s, NEW r, IsSeq(r),
         NEW W, NEW A, NEW row, NEW l, NEW e, NEW b, NEW o, IsSeq(o), o # <<>>,
         Delivering(Call("conv", "result", m, i, k), w, s, r, Mac(W, A, row, l, e, b, o)),
         NEW r1, Longer(r1, r, FirstOf(o)), NEW o1, Shorter(o1, o)
  PROVE  Delivering(Call("conv", "result", m, i, k), w, s, r1, Mac(W, A, row, l, e, b, o1))
<1> USE Sizes
<1>1. Len(r) \in Nat /\ Len(o1) \in Nat /\ Len(o) \in Nat \ {0}
  BY SeqLen, SeqEmpty DEF Shorter
<1>2. Len(r) + Len(o) = Pooled - (k - 1) /\ Len(r1) = Len(r) + 1 /\ Len(o) = Len(o1) + 1
  BY DEF Delivering, Call, Mac, Shorter, Longer
<1>3. /\ \A x \in 1 .. Len(r) : r[x] = RowPair(m, i, (k - 1) + x)
      /\ \A x \in 1 .. Len(o) : o[x] = RowPair(m, i, (k - 1) + (Len(r) + x))
  BY DEF Delivering, Call, Mac
<1>4. Len(r1) + Len(o1) = Pooled - (k - 1)
  BY <1>1, <1>2
<1>5. ASSUME NEW x \in 1 .. Len(r1) PROVE r1[x] = RowPair(m, i, (k - 1) + x)
  <2>1. CASE x \in 1 .. Len(r)
    BY <1>3, <2>1 DEF Longer
  <2>2. CASE x = Len(r) + 1
    <3>1. o[1] = RowPair(m, i, (k - 1) + (Len(r) + 1))
      BY <1>1, <1>3
    <3> QED BY <2>2, <3>1 DEF Longer, FirstOf
  <2> QED BY <1>1, <1>2, <2>1, <2>2
<1>6. ASSUME NEW x \in 1 .. Len(o1)
      PROVE  o1[x] = RowPair(m, i, (k - 1) + (Len(r1) + x))
  <2>1. o1[x] = o[x + 1] /\ x + 1 \in 1 .. Len(o)
    BY <1>1, <1>2 DEF Shorter
  <2>2. (k - 1) + (Len(r) + (x + 1)) = (k - 1) + (Len(r1) + x)
    BY <1>1, <1>2
  <2> QED BY <1>3, <2>1, <2>2
<1>7. /\ w = <<>> /\ s = <<>> /\ row = <<>>
      /\ \/ i + 1 < Rows /\ Buffers(m, i + 1, A, l, e, b) /\ Len(W) = NumWeights /\ Weights(m, W, 0)
         \/ i + 1 = Rows /\ W = <<>> /\ Buffers(m, 0, A, l, e, b)
  BY DEF Delivering, BuffersOf, Call, Mac
<1> HIDE Sizes
<1> QED BY <1>4, <1>5, <1>6, <1>7 DEF Delivering, BuffersOf, Call, Mac

-----------------------------------------------------------------------------
(***************************************************************************)
(* The calls of the program.                                               *)
(***************************************************************************)
LEMMA CallFields ==
  /\ \A a, port, m, p, k : Call(a, port, m, p, k).acc = a
  /\ Finished.acc = "none"
  /\ "conv" \notin Dense /\ "none" \notin Dense /\ "fc3" \in Dense /\ "none" # "conv"
BY DEF Call, Finished, Dense

\* The calls of do_conv.
LEMMA ConvCall ==
  ASSUME NEW h \in Harts, NEW c \in Calls(h), c.acc = "conv"
  PROVE  \E m \in First(h, Filters) .. Past(h, Filters) - 1 :
           \/ \E k \in 1 .. NumWeights : c = Call("conv", "weight", m, 0, k)
           \/ \E p \in 0 .. Rows - 1, k \in 1 .. RowLen : c = Call("conv", "source", m, p, k)
           \/ \E p \in 0 .. Rows - 1, k \in 1 .. Pooled :
                ReadsAfter(p) /\ c = Call("conv", "result", m, p, k)
<1>1. c # Finished /\ \A a \in Dense : \A port, m, p, k : c # Call(a, port, m, p, k)
  BY CallFields
<1> QED BY <1>1, CallFields, SMT DEF Calls

\* The results that do_conv reads.
LEMMA ResultCall ==
  ASSUME NEW h \in Harts, NEW c \in Calls(h), c.acc = "conv", c.port = "result"
  PROVE  \E m \in First(h, Filters) .. Past(h, Filters) - 1, p \in 0 .. Rows - 1,
            k \in 1 .. Pooled : ReadsAfter(p) /\ c = Call("conv", "result", m, p, k)
<1>1. PICK m \in First(h, Filters) .. Past(h, Filters) - 1 :
           \/ \E k \in 1 .. NumWeights : c = Call("conv", "weight", m, 0, k)
           \/ \E p \in 0 .. Rows - 1, k \in 1 .. RowLen : c = Call("conv", "source", m, p, k)
           \/ \E p \in 0 .. Rows - 1, k \in 1 .. Pooled :
                ReadsAfter(p) /\ c = Call("conv", "result", m, p, k)
  BY ConvCall
<1>2. \A port, n, p, k : Call("conv", port, n, p, k).port = port
  BY DEF Call
<1>3. \A p, k : c # Call("conv", "weight", m, p, k) /\ c # Call("conv", "source", m, p, k)
  BY <1>2
<1>4. \E p \in 0 .. Rows - 1, k \in 1 .. Pooled :
        ReadsAfter(p) /\ c = Call("conv", "result", m, p, k)
  BY <1>1, <1>3, Zenon
<1> QED BY <1>4, Zenon

\* The calls of do_fc1 and do_fc3.
LEMMA DenseCall ==
  ASSUME NEW h \in Harts, NEW c \in Calls(h), NEW a \in Dense, c.acc = a
  PROVE  \/ \E port \in {"start", "end"} : c = Call(a, port, 0, 0, 0)
         \/ \E i \in 0 .. Inputs - 1 : c = Call(a, "source", 0, i, 0)
         \/ \E m \in Low(h) .. High(h) - 1, i \in 0 .. Inputs - 1 : c = Call(a, "weight", m, i, 0)
         \/ \E m \in Low(h) .. High(h) - 1 : a = "fc3" /\ c = Call(a, "bias", m, 0, 0)
         \/ \E m \in Low(h) .. High(h) - 1 : c = Call(a, "result", m, 0, 0)
<1>1. c # Finished /\ \A port, m, p, k : c # Call("conv", port, m, p, k)
  BY CallFields
<1>2. \A x, port, m, p, k : c = Call(x, port, m, p, k) => x = a
  BY CallFields
<1> QED BY <1>1, <1>2, CallFields, SMT DEF Calls, Low, High

\* A hart is in one of the layers or has finished.
LEMMA CallAcc ==
  ASSUME NEW h \in Harts, NEW c \in Calls(h)
  PROVE  c = Finished \/ c.acc = "conv" \/ c.acc \in Dense
BY CallFields, SMT DEF Calls

\* What follows a weight of a filter.
LEMMA NextConvWeight ==
  ASSUME NEW h \in Harts, NEW m, NEW k \in 1 .. NumWeights
  PROVE  LET d == NextConv(h, Call("conv", "weight", m, 0, k)) IN
           \/ k < NumWeights /\ d = Call("conv", "weight", m, 0, k + 1)
           \/ k = NumWeights /\ d = Call("conv", "source", m, 0, 1)
BY Sizes DEF NextConv, Call

\* What follows an element of a row.
LEMMA NextConvSource ==
  ASSUME NEW h \in Harts, NEW m, NEW p \in 0 .. Rows - 1, NEW k \in 1 .. RowLen
  PROVE  LET d == NextConv(h, Call("conv", "source", m, p, k)) IN
           \/ k < RowLen /\ d = Call("conv", "source", m, p, k + 1)
           \/ k = RowLen /\ ReadsAfter(p) /\ d = Call("conv", "result", m, p, 1)
           \/ k = RowLen /\ ~ReadsAfter(p) /\ p + 1 < Rows /\ d = Call("conv", "source", m, p + 1, 1)
<1>1. CASE k < RowLen
  BY <1>1 DEF NextConv, Call
<1>2. CASE k = RowLen /\ ReadsAfter(p)
  BY <1>2, Sizes DEF NextConv, Call
<1>3. CASE k = RowLen /\ ~ReadsAfter(p)
  <2>1. p + 1 < Rows
    BY <1>3, RowPairs, Sizes
  <2> QED BY <1>3, <2>1, Sizes DEF NextConv, NextRow, Call
<1> QED BY <1>1, <1>2, <1>3, Sizes

\* What follows a result.
LEMMA NextConvResult ==
  ASSUME NEW h \in Harts, NEW m, NEW p \in 0 .. Rows - 1, NEW k \in 1 .. Pooled
  PROVE  LET c == Call("conv", "result", m, p, k)
             d == NextConv(h, c)
         IN  \/ k < Pooled /\ d = Call("conv", "result", m, p, k + 1)
             \/ k = Pooled /\ d = NextRow(h, c)
BY Sizes DEF NextConv, Call

\* What follows the last result of a row pair.
LEMMA NextRowIs ==
  ASSUME NEW h \in Harts, NEW m, NEW p \in 0 .. Rows - 1, NEW k
  PROVE  LET d == NextRow(h, Call("conv", "result", m, p, k)) IN
           \/ p + 1 < Rows /\ d = Call("conv", "source", m, p + 1, 1)
           \/ p + 1 = Rows /\ m + 1 < Past(h, Filters) /\ d = Call("conv", "weight", m + 1, 0, 1)
           \/ p + 1 = Rows /\ ~(m + 1 < Past(h, Filters)) /\ d = Call("fc1", "start", 0, 0, 0)
<1>1. CASE p + 1 < Rows
  BY <1>1 DEF NextRow, Call
<1>2. CASE p + 1 = Rows
  BY <1>2 DEF NextRow, Call
<1> QED BY <1>1, <1>2, Sizes

\* The calls of do_conv are calls of the program.
LEMMA CallsOfConv ==
  ASSUME NEW h \in Harts, NEW m, m \in First(h, Filters) .. Past(h, Filters) - 1
  PROVE  /\ \A k \in 1 .. NumWeights : Call("conv", "weight", m, 0, k) \in Calls(h)
         /\ \A p \in 0 .. Rows - 1, k \in 1 .. RowLen : Call("conv", "source", m, p, k) \in Calls(h)
         /\ \A p \in 0 .. Rows - 1, k \in 1 .. Pooled :
              ReadsAfter(p) => Call("conv", "result", m, p, k) \in Calls(h)
BY SMT DEF Calls

\* The calls of do_fc1 and do_fc3 are calls of the program.
LEMMA CallsOfDense ==
  ASSUME NEW h \in Harts, NEW a \in Dense
  PROVE  /\ Finished \in Calls(h)
         /\ \A port \in {"start", "end"} : Call(a, port, 0, 0, 0) \in Calls(h)
         /\ \A i \in 0 .. Inputs - 1 : Call(a, "source", 0, i, 0) \in Calls(h)
         /\ \A m \in Low(h) .. High(h) - 1, i \in 0 .. Inputs - 1 : Call(a, "weight", m, i, 0) \in Calls(h)
         /\ \A m \in Low(h) .. High(h) - 1 : Call("fc3", "bias", m, 0, 0) \in Calls(h)
         /\ \A m \in Low(h) .. High(h) - 1 : Call(a, "result", m, 0, 0) \in Calls(h)
BY SMT DEF Calls, Low, High

\* do_conv goes from a call to a call.
LEMMA NextConvCall ==
  ASSUME NEW h \in Harts, NEW c \in Calls(h), c.acc = "conv"
  PROVE  NextConv(h, c) \in Calls(h)
<1> USE Sizes
<1>1. PICK m \in First(h, Filters) .. Past(h, Filters) - 1 :
           \/ \E k \in 1 .. NumWeights : c = Call("conv", "weight", m, 0, k)
           \/ \E p \in 0 .. Rows - 1, k \in 1 .. RowLen : c = Call("conv", "source", m, p, k)
           \/ \E p \in 0 .. Rows - 1, k \in 1 .. Pooled :
                ReadsAfter(p) /\ c = Call("conv", "result", m, p, k)
  BY ConvCall
<1>2. ASSUME NEW k \in 1 .. NumWeights, c = Call("conv", "weight", m, 0, k)
      PROVE  NextConv(h, c) \in Calls(h)
  BY <1>2, NextConvWeight, CallsOfConv
<1>3. ASSUME NEW p \in 0 .. Rows - 1, NEW k \in 1 .. RowLen, c = Call("conv", "source", m, p, k)
      PROVE  NextConv(h, c) \in Calls(h)
  <2>1. CASE k < RowLen /\ NextConv(h, c) = Call("conv", "source", m, p, k + 1)
    BY <2>1, CallsOfConv
  <2>2. CASE ReadsAfter(p) /\ NextConv(h, c) = Call("conv", "result", m, p, 1)
    BY <2>2, CallsOfConv
  <2>3. CASE p + 1 < Rows /\ NextConv(h, c) = Call("conv", "source", m, p + 1, 1)
    BY <2>3, CallsOfConv
  <2> QED BY <1>3, <2>1, <2>2, <2>3, NextConvSource
<1>4. ASSUME NEW p \in 0 .. Rows - 1, NEW k \in 1 .. Pooled, ReadsAfter(p),
             c = Call("conv", "result", m, p, k)
      PROVE  NextConv(h, c) \in Calls(h)
  <2>1. CASE k < Pooled
    <3>1. NextConv(h, c) = Call("conv", "result", m, p, k + 1)
      BY <1>4, <2>1, NextConvResult
    <3> QED BY <1>4, <2>1, <3>1, CallsOfConv
  <2>2. CASE k = Pooled
    <3>1. NextConv(h, c) = NextRow(h, Call("conv", "result", m, p, k))
      BY <1>4, <2>2, NextConvResult
    <3>2. CASE NextConv(h, c) = Call("fc1", "start", 0, 0, 0)
      BY <3>2, CallsOfDense DEF Dense
    <3>3. CASE p + 1 < Rows /\ NextConv(h, c) = Call("conv", "source", m, p + 1, 1)
      BY <3>3, CallsOfConv
    <3>4. CASE m + 1 < Past(h, Filters) /\ NextConv(h, c) = Call("conv", "weight", m + 1, 0, 1)
      <4>1. m + 1 \in First(h, Filters) .. Past(h, Filters) - 1
        BY <3>4, FilterHalf
      <4> QED BY <3>4, <4>1, CallsOfConv
    <3> QED BY <3>1, <3>2, <3>3, <3>4, NextRowIs
  <2> QED BY <2>1, <2>2
<1> QED BY <1>1, <1>2, <1>3, <1>4

\* What MAC is made of.
LEMMA MacFields ==
  ASSUME NEW u, IsConv(u)
  PROVE  \E W, A, row, l, e, b, o :
           /\ u = Mac(W, A, row, l, e, b, o)
           /\ IsSeq(W) /\ IsSeq(A) /\ IsSeq(row) /\ IsSeq(o)
           /\ l \in Nat /\ e \in BOOLEAN /\ IsPair(b)
<1>1. /\ u = Mac(u.weights, u.rows, u.row, u.p, u.even, u.activation, u.out)
      /\ IsSeq(u.weights) /\ IsSeq(u.rows) /\ IsSeq(u.row) /\ IsSeq(u.out)
      /\ u.p \in Nat /\ u.even \in BOOLEAN
      /\ IsPair(u.activation)
  BY DEF IsConv
<1> DEFINE F(W, A, row, l, e, b, o) ==
             /\ u = Mac(W, A, row, l, e, b, o)
             /\ IsSeq(W) /\ IsSeq(A) /\ IsSeq(row) /\ IsSeq(o)
             /\ l \in Nat /\ e \in BOOLEAN /\ IsPair(b)
<1>2. F(u.weights, u.rows, u.row, u.p, u.even, u.activation, u.out)
  BY <1>1, Zenon
<1>3. \E W, A, row, l, e, b, o : F(W, A, row, l, e, b, o)
  <2> HIDE DEF F
  <2> QED BY <1>2, Zenon
<1> QED BY <1>3, Zenon

\* Such a record is a state of MAC.
LEMMA MacIsConv ==
  ASSUME NEW W, NEW A, NEW row, NEW l \in Nat, NEW e \in BOOLEAN, NEW b, NEW o,
         IsSeq(W), IsSeq(A), IsSeq(row), IsSeq(o), IsPair(b)
  PROVE  IsConv(Mac(W, A, row, l, e, b, o))
BY DEF IsConv, Mac

\* The program sends an element of the convolution.
LEMMA SendConv ==
  ASSUME NEW h \in Harts, NEW c \in Calls(h), c.acc = "conv", c.port # "result",
         NEW w, IsSeq(w), NEW s, IsSeq(s), NEW r, NEW u, IsConv(u), ConvOf(c, w, s, r, u)
  PROVE  /\ c.port = "weight" =>
              ConvOf(NextConv(h, c), Append(w, Value(h, c)), s, r, u)
         /\ c.port = "source" =>
              ConvOf(NextConv(h, c), w, Append(s, Value(h, c)), r, u)
         /\ c.port \in {"weight", "source"}
<1>1. PICK p \in 0 .. Rows - 1 : Working(c, w, s, r, u, p)
  BY DEF ConvOf, Delivering
<1>2. PICK W, A, row, l, e, b, o :
         /\ u = Mac(W, A, row, l, e, b, o)
         /\ IsSeq(W) /\ IsSeq(A) /\ IsSeq(row) /\ IsSeq(o)
  BY MacFields
<1>3. \A port, m, x, k : /\ Call("conv", port, m, x, k).acc = "conv"
                         /\ Call("conv", port, m, x, k).port = port
  BY DEF Call
<1>4. ASSUME NEW m, NEW k \in 1 .. NumWeights, c = Call("conv", "weight", m, 0, k)
      PROVE  ConvOf(NextConv(h, c), Append(w, Value(h, c)), s, r, u)
  <2>1. PICK port, n : /\ NextConv(h, c) = Call("conv", port, m, 0, n)
                       /\ \/ port = "weight" /\ n = k + 1
                          \/ port = "source" /\ n = 1 /\ k = NumWeights
    BY <1>4, NextConvWeight
  <2>2. Value(h, c) = Weight(m, k)
    BY <1>4 DEF Value, Call
  <2>3. Longer(Append(w, Value(h, c)), w, Weight(m, k))
    BY <2>2, SeqAppend
  <2>4. Working(Call("conv", port, m, 0, n), Append(w, Value(h, c)), s, r, u, p)
    BY <1>1, <1>2, <1>4, <2>1, <2>3, WorkingSendsWeight
  <2> QED BY <1>3, <2>1, <2>4 DEF ConvOf
<1>5. ASSUME NEW m, NEW i \in 0 .. Rows - 1, NEW k \in 1 .. RowLen,
             c = Call("conv", "source", m, i, k)
      PROVE  ConvOf(NextConv(h, c), w, Append(s, Value(h, c)), r, u)
  <2>1. PICK port, j, n :
          /\ NextConv(h, c) = Call("conv", port, m, j, n)
          /\ \/ port = "source" /\ j = i /\ n = k + 1 /\ k < RowLen
             \/ port = "result" /\ j = i /\ n = 1 /\ k = RowLen
             \/ port = "source" /\ j = i + 1 /\ n = 1 /\ k = RowLen /\ ~ReadsAfter(i)
    BY <1>5, NextConvSource
  <2>2. Value(h, c) = <<"source", i, k>>
    BY <1>5 DEF Value, Call
  <2>3. Longer(Append(s, Value(h, c)), s, <<"source", i, k>>)
    BY <2>2, SeqAppend
  <2>4. Working(Call("conv", port, m, j, n), w, Append(s, Value(h, c)), r, u, p)
    BY <1>1, <1>2, <1>5, <2>1, <2>3, WorkingSendsSource
  <2> QED BY <1>3, <2>1, <2>4 DEF ConvOf
<1> QED BY <1>3, <1>4, <1>5, ConvCall

\* The program reads a result of the convolution.
LEMMA ReadConv ==
  ASSUME NEW h \in Harts, NEW c \in Calls(h), c.acc = "conv", c.port = "result",
         NEW w, NEW s, NEW r, IsSeq(r), r # <<>>, NEW u, IsConv(u), ConvOf(c, w, s, r, u)
  PROVE  /\ ConvOf(NextConv(h, c), w, s, Tail(r), u)
         /\ r[1] = RowPair(c.m, c.p, c.k)
<1>1. Delivering(c, w, s, r, u)
  BY DEF ConvOf, Working
<1>2. PICK W, A, row, l, e, b, o :
         /\ u = Mac(W, A, row, l, e, b, o)
         /\ IsSeq(W) /\ IsSeq(A) /\ IsSeq(row) /\ IsSeq(o)
  BY MacFields
<1>3. \A port, m, x, k : /\ Call("conv", port, m, x, k).acc = "conv"
                         /\ Call("conv", port, m, x, k).port = port
  BY DEF Call
<1>4. PICK m \in First(h, Filters) .. Past(h, Filters) - 1, p \in 0 .. Rows - 1,
          k \in 1 .. Pooled : ReadsAfter(p) /\ c = Call("conv", "result", m, p, k)
  BY ResultCall, Zenon
<1>5. Shorter(Tail(r), r)
  BY SeqTail
<1>6. ConvOf(NextConv(h, c), w, s, Tail(r), u)
  <2>1. CASE k < Pooled
    <3>1. NextConv(h, c) = Call("conv", "result", m, p, k + 1)
      BY <1>4, <2>1, NextConvResult
    <3>2. Delivering(Call("conv", "result", m, p, k + 1), w, s, Tail(r), u)
      BY <1>1, <1>2, <1>4, <1>5, DeliveringReads
    <3> QED BY <1>3, <3>1, <3>2 DEF ConvOf
  <2>2. CASE k = Pooled
    <3>1. NextConv(h, c) = NextRow(h, c)
      BY <1>4, <2>2, NextConvResult, Sizes
    <3> QED BY <1>1, <1>2, <1>4, <1>5, <2>2, <3>1, DeliveringEnds
  <2> QED BY <2>1, <2>2, Sizes
<1>7. c.m = m /\ c.p = p /\ c.k = k
  BY <1>4 DEF Call
<1>8. r[1] = RowPair(m, p, k)
  <2>1. Len(r) \in Nat \ {0}
    BY SeqLen, SeqEmpty
  <2>2. \A x \in 1 .. Len(r) : r[x] = RowPair(m, p, (k - 1) + x)
    BY <1>1, <1>7, Zenon DEF Delivering
  <2>3. r[1] = RowPair(m, p, (k - 1) + 1) /\ (k - 1) + 1 = k
    BY <2>1, <2>2
  <2> QED BY <2>3
<1> QED BY <1>6, <1>8, <1>7

-----------------------------------------------------------------------------
(***************************************************************************)
(* A step of MAC.                                                          *)
(***************************************************************************)
WithRows(u, rows, row) == [u EXCEPT !.rows = rows, !.row = row]

\* ConvSource with e at the head of the FIFO.
MacSource(u, e) ==
  LET row == Append(u.row, e)
  IN  IF Len(row) < RowLen THEN [u EXCEPT !.row = row]
      ELSE IF Len(u.rows) < R - 1
           THEN WithRows(u, Append(u.rows, row), <<>>)
           ELSE Convolve(u, Append(u.rows, row))

\* MAC receives a weight and keeps its invariant.
LEMMA MacWeight ==
  ASSUME NEW c, NEW w, IsSeq(w), NEW s, IsSeq(s), NEW r, NEW u, IsConv(u),
         ConvOf(c, w, s, r, u), u.out = <<>>, Len(u.weights) < NumWeights, w # <<>>,
         NEW u1, u1 = [u EXCEPT !.weights = Append(@, Head(w))]
  PROVE  ConvOf(c, Tail(w), s, r, u1) /\ IsConv(u1)
<1>1. PICK W, A, row, l, e, b, o :
         /\ u = Mac(W, A, row, l, e, b, o)
         /\ IsSeq(W) /\ IsSeq(A) /\ IsSeq(row) /\ IsSeq(o)
         /\ l \in Nat /\ e \in BOOLEAN /\ IsPair(b)
  BY MacFields
<1>2. Shorter(Tail(w), w) /\ Head(w) = w[1] /\ Longer(Append(W, w[1]), W, w[1])
  BY <1>1, SeqTail, SeqAppend
<1>3. u1 = Mac(Append(W, w[1]), A, row, l, e, b, o)
  BY <1>1, <1>2 DEF Mac
<1>4. IsConv(u1)
  <2>1. IsSeq(Append(W, w[1]))
    BY <1>2 DEF Longer
  <2> QED BY <1>1, <1>3, <2>1, MacIsConv
<1>5. o = <<>> /\ Len(W) < NumWeights
  BY <1>1 DEF Mac
<1>6. c.acc = "conv"
  BY DEF ConvOf, ConvResting
<1>7. PICK p \in 0 .. Rows - 1 : Working(c, w, s, r, u, p)
  BY <1>6 DEF ConvOf, Delivering
<1>8. Working(c, Tail(w), s, r, u1, p)
  BY <1>1, <1>2, <1>3, <1>5, <1>7, WorkingReceivesWeight
<1> QED BY <1>4, <1>6, <1>8 DEF ConvOf

\* MAC writes a result and keeps its invariant.
LEMMA MacResult ==
  ASSUME NEW h \in Harts, NEW c \in Calls(h), NEW w, NEW s, NEW r, IsSeq(r), NEW u, IsConv(u),
         ConvOf(c, w, s, r, u), u.out # <<>>,
         NEW u1, u1 = [u EXCEPT !.out = Tail(@)]
  PROVE  ConvOf(c, w, s, Append(r, Head(u.out)), u1) /\ IsConv(u1)
<1>1. PICK W, A, row, l, e, b, o :
         /\ u = Mac(W, A, row, l, e, b, o)
         /\ IsSeq(W) /\ IsSeq(A) /\ IsSeq(row) /\ IsSeq(o)
         /\ l \in Nat /\ e \in BOOLEAN /\ IsPair(b)
  BY MacFields
<1>2. u.out = o
  BY <1>1 DEF Mac
<1>3. Shorter(Tail(o), o) /\ Head(o) = o[1] /\ Longer(Append(r, o[1]), r, o[1])
  BY <1>1, <1>2, SeqTail, SeqAppend
<1>4. u1 = Mac(W, A, row, l, e, b, Tail(o))
  BY <1>1 DEF Mac
<1>5. IsConv(u1)
  <2>1. IsSeq(Tail(o))
    BY <1>3 DEF Shorter
  <2> QED BY <1>1, <1>4, <2>1, MacIsConv
<1>6. c.acc = "conv" /\ Delivering(c, w, s, r, u)
  BY DEF ConvOf, ConvResting, Working
<1>7. PICK m \in First(h, Filters) .. Past(h, Filters) - 1, p \in 0 .. Rows - 1,
          k \in 1 .. Pooled : ReadsAfter(p) /\ c = Call("conv", "result", m, p, k)
  <2>1. c.port = "result"
    BY <1>6 DEF Delivering
  <2> QED BY <1>6, <2>1, ResultCall, Zenon
<1>8. Delivering(c, w, s, Append(r, o[1]), u1)
  <2>1. PICK r1 : r1 = Append(r, o[1])
    BY Zenon
  <2>2. Longer(r1, r, FirstOf(o))
    BY <1>3, <2>1, Zenon DEF FirstOf
  <2>3. PICK o1 : o1 = Tail(o)
    BY Zenon
  <2>4. Shorter(o1, o) /\ u1 = Mac(W, A, row, l, e, b, o1)
    BY <1>3, <1>4, <2>3, Zenon
  <2>5. Delivering(c, w, s, r, Mac(W, A, row, l, e, b, o))
    BY <1>1, <1>6, Zenon
  <2>6. Delivering(c, w, s, r1, Mac(W, A, row, l, e, b, o1))
    BY <1>1, <1>2, <1>7, <2>2, <2>4, <2>5, DeliveringSends
  <2> QED BY <2>1, <2>4, <2>6, Zenon
<1> QED BY <1>2, <1>3, <1>5, <1>6, <1>8 DEF ConvOf

\* The states of MAC after a row that covers the filter.
LEMMA ConvolveIs ==
  ASSUME NEW W, NEW A, NEW row, NEW l, NEW e \in BOOLEAN, NEW b, NEW o, NEW A1,
         NEW b1, b1 = Stored(b, e, Product(W, A1)),
         NEW o1, o1 = Results(e, b1),
         NEW e1, e1 = Flip(e)
  PROVE  /\ l + 1 = Rows => Convolve(Mac(W, A, row, l, e, b, o), A1) =
                              Mac(<<>>, <<>>, <<>>, R - 1, e1, b1, o1)
         /\ l + 1 # Rows => Convolve(Mac(W, A, row, l, e, b, o), A1) =
                              Mac(W, Tail(A1), <<>>, l + 1, e1, b1, o1)
<1> DEFINE u == Mac(W, A, row, l, e, b, o)
           v == Mac(W, Tail(A1), <<>>, l + 1, e1, b1, o1)
<1>1. /\ u.weights = W /\ u.rows = A /\ u.row = row /\ u.p = l /\ u.even = e
      /\ u.activation = b /\ u.out = o
  BY DEF Mac
<1>2. Convolve(u, A1) = ResetAtEnd(v)
  <2> DEFINE X(act) == Mac(W, Tail(A1), <<>>, l + 1, e1, act, Results(e, act))
  <2>1. Convolve(u, A1) = ResetAtEnd(X(b1))
    BY <1>1, Zenon DEF Convolve, ShiftRows, Results, PooledRow, Top, Bottom, Odd, Mac, Stored, Product, Flip
  <2> QED BY <2>1
<1>3. v.p = l + 1 /\ v.even = e1 /\ v.activation = b1 /\ v.out = o1
  BY DEF Mac
<1>4. [IdleConv(e1, b1) EXCEPT !.out = o1] = Mac(<<>>, <<>>, <<>>, R - 1, e1, b1, o1)
  BY DEF IdleConv, Mac
<1> HIDE DEF v, u
<1>5. ResetAtEnd(v) = IF l + 1 = Rows THEN [IdleConv(e1, b1) EXCEPT !.out = o1] ELSE v
  BY <1>3, Zenon DEF ResetAtEnd
<1> QED BY <1>2, <1>4, <1>5, Zenon DEF u, v

\* The row of the convolution is stored at the top or at the bottom.
LEMMA ActivationRows ==
  ASSUME NEW b, IsPair(b), NEW e \in BOOLEAN, NEW v,
         NEW b1, b1 = Stored(b, e, v)
  PROVE  /\ IsPair(b1)
         /\ Odd(e) => Bottom(b1) = v /\ Top(b1) = Top(b)
         /\ ~Odd(e) => Top(b1) = v
<1>1. IsPair(b1)
  BY DEF Stored, IsPair
<1>2. CASE e = TRUE
  BY <1>2 DEF Top, Bottom, Odd, Stored, IsPair
<1>3. CASE e = FALSE
  BY <1>3 DEF Top, Bottom, Odd, Stored, IsPair
<1> QED BY <1>1, <1>2, <1>3

\* Two of MAC's variables are set.
LEMMA MacRows ==
  ASSUME NEW W, NEW A, NEW row, NEW l, NEW e, NEW b, NEW o, NEW A1, NEW row1
  PROVE  WithRows(Mac(W, A, row, l, e, b, o), A1, row1) = Mac(W, A1, row1, l, e, b, o)
<1> DEFINE u == Mac(W, A, row, l, e, b, o)
           v == Mac(W, A1, row, l, e, b, o)
<1>1. [u EXCEPT !.rows = A1] = v
  BY DEF Mac
<1>2. [v EXCEPT !.row = row1] = Mac(W, A1, row1, l, e, b, o)
  BY DEF Mac
<1> HIDE DEF u, v
<1>3. [u EXCEPT !.rows = A1, !.row = row1] = [[u EXCEPT !.rows = A1] EXCEPT !.row = row1]
  OBVIOUS
<1>4. [u EXCEPT !.rows = A1, !.row = row1] = Mac(W, A1, row1, l, e, b, o)
  BY <1>1, <1>2, <1>3, Zenon
<1> QED BY <1>4 DEF u, WithRows

Made(c, w, s, r, u) == ConvOf(c, w, s, r, u) /\ IsConv(u)

\* MAC has a whole row of the input.
LEMMA MacRow ==
  ASSUME NEW h \in Harts, NEW c \in Calls(h), NEW w, NEW s, NEW r, NEW W, NEW A, NEW row,
         NEW l \in Nat, NEW e \in BOOLEAN, NEW b, NEW p, NEW A1, NEW u1,
         c.acc = "conv", IsSeq(w), IsSeq(s), IsSeq(W), IsSeq(A),
         IsPair(b), p \in 0 .. Rows - 1,
         RowReceived(c, w, s, r, W, p), Buffers(c.m, p, A, l, e, b), A1 = Append(A, InputRow(p)),
         u1 = IF Len(A) < R - 1 THEN Mac(W, A1, <<>>, l, e, b, <<>>)
              ELSE Convolve(Mac(W, A, row, l, e, b, <<>>), A1)
  PROVE  Made(c, w, s, r, u1)
<1> USE DEF Made
<1> USE Sizes
<1>1. Longer(A1, A, InputRow(p)) /\ IsSeq(A1) /\ IsSeq(<<>>)
  BY SeqAppend, SeqEmpty DEF Longer
<1>2. c.port = "result" => c.p \in Nat /\ ReadsAfter(c.p)
  <2>1. ASSUME c.port = "result"
        PROVE  c.p \in Nat /\ ReadsAfter(c.p)
    <3>1. PICK m \in First(h, Filters) .. Past(h, Filters) - 1, i \in 0 .. Rows - 1,
              k \in 1 .. Pooled : ReadsAfter(i) /\ c = Call("conv", "result", m, i, k)
      BY <2>1, ResultCall, Zenon
    <3>2. c.p = i
      BY <3>1 DEF Call
    <3> QED BY <3>1, <3>2
  <2> QED BY <2>1
<1>3. CASE Len(A) < R - 1
  <2>1. /\ Buffers(c.m, p + 1, A1, l, e, b) /\ p + 1 \in 0 .. Rows - 1 /\ p + 1 < R
    BY <1>1, <1>3, BuffersGrow
  <2>2. ~ReadsAfter(p)
    BY <2>1 DEF ReadsAfter
  <2>3. Working(c, w, s, r, Mac(W, A1, <<>>, l, e, b, <<>>), p + 1)
    BY <1>2, <2>1, <2>2, NextRowWorking
  <2>4. IsConv(Mac(W, A1, <<>>, l, e, b, <<>>))
    BY <1>1, MacIsConv
  <2> QED BY <1>3, <2>1, <2>3, <2>4 DEF ConvOf
<1>4. CASE ~(Len(A) < R - 1)
  <2>1. PICK v, b1, o1, e1, A2 :
          /\ v = Product(W, A1) /\ b1 = Stored(b, e, v)
          /\ o1 = Results(e, b1)
          /\ e1 = Flip(e) /\ A2 = Tail(A1)
    BY Zenon
  <2>2. e1 \in BOOLEAN /\ (Odd(e1) <=> ~Odd(e))
    BY <2>1, Zenon DEF Odd, Flip
  <2>3. Len(W) = NumWeights /\ Weights(c.m, W, 0)
    BY DEF RowReceived
  <2>4. /\ Len(A1) = R /\ \A i \in 1 .. R : A1[i] = InputRow((p - R) + i)
        /\ l = p /\ p + 1 >= R /\ (Odd(e) <=> ReadsAfter(p))
    <3>1. PICK m : m = c.m
      BY Zenon
    <3>2. Buffers(m, p, A, l, e, b)
      BY <3>1, Zenon
    <3>3. Covered(A1, p, l, e)
      BY <1>1, <1>4, <3>2, UnderFilter
    <3> QED BY <3>3 DEF Covered
  <2>5. IsSeq(A1) /\ A1 # <<>>
    <3>1. IsSeq(A1) /\ Len(A1) # 0
      BY <1>1, <2>4 DEF Longer
    <3> QED BY <3>1, SeqEmpty
  <2>6. v = ConvRow(c.m, p)
    BY <2>1, <2>3, <2>4, <2>5, RowComplete
  <2>7. /\ IsPair(b1)
        /\ Odd(e) => Bottom(b1) = v /\ Top(b1) = Top(b)
        /\ ~Odd(e) => Top(b1) = v
    BY <2>1, ActivationRows
  <2>8. Shorter(A2, A1)
    BY <2>1, <2>5, SeqTail
  <2>9. u1 = IF l + 1 = Rows THEN Mac(<<>>, <<>>, <<>>, R - 1, e1, b1, o1)
             ELSE Mac(W, A2, <<>>, l + 1, e1, b1, o1)
    <3>1. CASE l + 1 = Rows
      BY <1>4, <2>1, <3>1, ConvolveIs
    <3>2. CASE l + 1 # Rows
      BY <1>4, <2>1, <3>2, ConvolveIs
    <3> QED BY <3>1, <3>2
  <2>10. Buffers(c.m, p + 1, A2, p + 1, e1, b1)
    <3>1. Odd(e1) <=> ~ReadsAfter(p)
      BY <2>4, <2>2
    <3>2. Odd(e1) => Top(b1) = ConvRow(c.m, p)
      BY <2>7, <2>2, <2>6
    <3> QED BY <2>4, <2>8, <3>1, <3>2, BuffersShift
  <2>11. IsSeq(A2) /\ l + 1 \in Nat /\ R - 1 \in Nat
    BY <2>8 DEF Shorter
  <2>12. CASE ~Odd(e)
    <3>1. o1 = <<>>
      BY <2>1, <2>12 DEF Results
    <3>2. ~ReadsAfter(p)
      BY <2>4, <2>12
    <3>3. p + 1 # Rows
      BY <2>4, <3>2, Alternate
    <3>4. u1 = Mac(W, A2, <<>>, p + 1, e1, b1, <<>>)
      BY <2>4, <2>9, <3>1, <3>3
    <3>5. Working(c, w, s, r, u1, p + 1)
      BY <1>2, <2>10, <3>2, <3>4, NextRowWorking
    <3>6. IsConv(u1)
      BY <1>1, <2>4, <2>7, <2>2, <2>11, <3>4, MacIsConv
    <3>7. p + 1 \in 0 .. Rows - 1
      BY <3>3
    <3> QED BY <3>5, <3>6, <3>7 DEF ConvOf
  <2>13. CASE Odd(e)
    <3>1. o1 = PooledRow(b1)
      BY <2>1, <2>13 DEF Results
    <3>2. IsSeq(o1) /\ Len(o1) = Pooled
      BY <3>1 DEF PooledRow, IsSeq
    <3>3. Top(b) = ConvRow(c.m, p - 1)
      BY <2>13, Zenon DEF Buffers
    <3>4. \A q \in 1 .. Pooled : o1[q] = RowPair(c.m, p, q)
      BY <2>7, <2>13, <2>6, <3>1, <3>3 DEF PooledRow, RowPair
    <3>5. ReadsAfter(p)
      BY <2>4, <2>13
    <3>6. c = Call("conv", "result", c.m, p, 1) /\ w = <<>> /\ s = <<>> /\ r = <<>>
      <4>1. PICK m \in First(h, Filters) .. Past(h, Filters) - 1 :
             \/ \E k \in 1 .. NumWeights : c = Call("conv", "weight", m, 0, k)
             \/ \E i \in 0 .. Rows - 1, k \in 1 .. RowLen : c = Call("conv", "source", m, i, k)
             \/ \E i \in 0 .. Rows - 1, k \in 1 .. Pooled :
                  ReadsAfter(i) /\ c = Call("conv", "result", m, i, k)
        BY ConvCall
      <4>2. PICK port, i, k :
              /\ c = Call("conv", port, m, i, k) /\ i \in 0 .. Rows - 1
              /\ (port = "source" /\ k \in 1 .. RowLen) \/ port \in {"weight", "result"}
        BY <4>1
      <4>3. port = "result" /\ i = p /\ k = 1 /\ w = <<>> /\ s = <<>> /\ r = <<>>
        BY <3>5, <4>2, RowPairReceived
      <4>4. c.m = m
        BY <4>2 DEF Call
      <4> QED BY <4>2, <4>3, <4>4
    <3>7. ~Odd(e1)
      BY <2>2, <2>13
    <3>8. /\ p + 1 < Rows =>
              Delivering(c, w, s, r, Mac(W, A2, <<>>, p + 1, e1, b1, o1))
          /\ p + 1 = Rows =>
              Delivering(c, w, s, r, Mac(<<>>, <<>>, <<>>, R - 1, e1, b1, o1))
      BY <2>3, <2>10, <3>2, <3>4, <3>6, <3>7, RowPairDelivered
    <3>9. Delivering(c, w, s, r, u1)
      <4> DEFINE x == Mac(<<>>, <<>>, <<>>, R - 1, e1, b1, o1)
                 y == Mac(W, A2, <<>>, p + 1, e1, b1, o1)
      <4>1. u1 = IF p + 1 = Rows THEN x ELSE y
        BY <2>4, <2>9
      <4>2. (p + 1 < Rows => Delivering(c, w, s, r, y)) /\ (p + 1 = Rows => Delivering(c, w, s, r, x))
        BY <3>8
      <4> HIDE DEF x, y
      <4>3. CASE p + 1 = Rows
        BY <4>3, <4>1, <4>2
      <4>4. CASE p + 1 # Rows
        <5>1. p + 1 < Rows /\ u1 = y
          BY <4>4, <4>1
        <5> QED BY <4>2, <5>1
      <4> QED BY <4>3, <4>4
    <3>10. IsConv(u1)
      BY <1>1, <2>7, <2>9, <2>2, <2>11, <3>2, MacIsConv
    <3> QED BY <3>9, <3>10 DEF ConvOf
  <2> QED BY <2>12, <2>13
<1> QED BY <1>3, <1>4

\* u1 is MAC after it has read the last element of row1.
Takes(u1, W, A, row, row1, l, e, b) ==
  u1 = IF Len(row1) < RowLen THEN Mac(W, A, row1, l, e, b, <<>>)
       ELSE IF Len(A) < R - 1 THEN Mac(W, Append(A, row1), <<>>, l, e, b, <<>>)
       ELSE Convolve(Mac(W, A, row, l, e, b, <<>>), Append(A, row1))

\* MAC receives an element, of which it may make a row.
LEMMA MacReceives ==
  ASSUME NEW h \in Harts, NEW c \in Calls(h), NEW w, NEW s, NEW r, NEW W, NEW A, NEW row,
         NEW l \in Nat, NEW e \in BOOLEAN, NEW b, NEW row1, NEW s1, NEW p, NEW u1,
         c.acc = "conv", IsSeq(w), IsSeq(s), IsSeq(W), IsSeq(A), IsSeq(row),
         IsPair(b), p \in 0 .. Rows - 1, s # <<>>, Len(W) = NumWeights,
         Working(c, w, s, r, Mac(W, A, row, l, e, b, <<>>), p),
         Shorter(s1, s), Longer(row1, row, FirstOf(s)),
         Takes(u1, W, A, row, row1, l, e, b)
  PROVE  Made(c, w, s1, r, u1)
<1>1. Taking(c, s1, row1, p)
  BY WorkingReceivesSource
<1>2. IsSeq(row1) /\ IsSeq(s1) /\ Len(row1) \in Nat /\ IsSeq(<<>>)
  BY SeqLen, SeqEmpty DEF Longer, Shorter
<1>3. CASE Len(row1) < RowLen
  <2>1. IsConv(Mac(W, A, row1, l, e, b, <<>>))
    BY <1>2, MacIsConv
  <2>2. u1 = Mac(W, A, row1, l, e, b, <<>>)
    BY <1>3 DEF Takes
  <2>3. Working(c, w, s1, r, u1, p)
    BY <1>3, <2>2, WorkingReceivesElement
  <2> QED BY <2>1, <2>2, <2>3, Zenon DEF ConvOf, Made
<1>4. CASE Len(row1) = RowLen
  <2>1. Base(p + 1) = Base(p) + Len(row1)
    BY <1>4, BaseNext
  <2>2. /\ r = <<>> /\ Len(W) + Len(w) = WeightsSent(c)
        /\ Weights(c.m, W, 0) /\ Weights(c.m, w, Len(W))
        /\ \A j \in p .. Rows - 1 : ReadsAfter(j) => c.p <= j
        /\ c.port = "result" => c.k = 1 /\ p <= c.p
        /\ Buffers(c.m, p, A, l, e, b)
    BY DEF Working, BuffersOf, Mac
  <2>3. RowReceived(c, w, s1, r, W, p)
    BY <1>1, <1>4, <2>1, <2>2 DEF RowReceived, Taking
  <2>4. row1 = InputRow(p)
    BY <1>1, <1>4 DEF Taking
  <2>5. u1 = IF Len(A) < R - 1 THEN Mac(W, Append(A, InputRow(p)), <<>>, l, e, b, <<>>)
             ELSE Convolve(Mac(W, A, row, l, e, b, <<>>), Append(A, InputRow(p)))
    <3>1. ~(Len(row1) < RowLen)
      BY <1>4, Sizes
    <3> QED BY <2>4, <3>1, Zenon DEF Takes
  <2>6. Buffers(c.m, p, A, l, e, b)
    BY <2>2
  <2> QED BY <1>2, <2>3, <2>5, <2>6, MacRow
<1>5. Len(row1) < RowLen \/ Len(row1) = RowLen
  BY <1>1, <1>2, Sizes DEF Taking
<1> QED BY <1>3, <1>4, <1>5

\* MAC receives an element of the input and keeps its invariant.
LEMMA MacSourceStep ==
  ASSUME NEW h \in Harts, NEW c \in Calls(h),
         NEW w, IsSeq(w), NEW s, IsSeq(s), s # <<>>, NEW r, NEW u, IsConv(u),
         ConvOf(c, w, s, r, u), u.out = <<>>, Len(u.weights) = NumWeights,
         NEW u1, u1 = MacSource(u, Head(s))
  PROVE  ConvOf(c, w, Tail(s), r, u1) /\ IsConv(u1)
<1>1. PICK W, A, row, l, e, b, o :
         /\ u = Mac(W, A, row, l, e, b, o)
         /\ IsSeq(W) /\ IsSeq(A) /\ IsSeq(row) /\ IsSeq(o)
         /\ l \in Nat /\ e \in BOOLEAN /\ IsPair(b)
  BY MacFields
<1>2. c.acc = "conv" /\ ~Delivering(c, w, s, r, u)
  BY DEF ConvOf, ConvResting, Delivering
<1>3. PICK p \in 0 .. Rows - 1 : Working(c, w, s, r, u, p)
  BY <1>2 DEF ConvOf
<1>4. u.weights = W /\ u.rows = A /\ u.row = row /\ u.out = o
  BY <1>1 DEF Mac
<1>5. o = <<>> /\ Len(W) = NumWeights
  BY <1>4
<1>6. PICK s1, row1 : s1 = Tail(s) /\ row1 = Append(row, Head(s))
  BY Zenon
<1>7. Shorter(s1, s) /\ Longer(row1, row, FirstOf(s))
  BY <1>1, <1>6, SeqTail, SeqAppend, Zenon DEF FirstOf
<1>8. [u EXCEPT !.row = row1] = Mac(W, A, row1, l, e, b, o)
  <2>1. \A x : [Mac(W, A, row, l, e, b, o) EXCEPT !.row = x] = Mac(W, A, x, l, e, b, o)
    BY DEF Mac
  <2> QED BY <1>1, <2>1, Zenon
<1>9. WithRows(u, Append(A, row1), <<>>) = Mac(W, Append(A, row1), <<>>, l, e, b, o)
  <2>1. \A x : WithRows(Mac(W, A, row, l, e, b, o), x, <<>>) = Mac(W, x, <<>>, l, e, b, o)
    BY MacRows
  <2> QED BY <1>1, <2>1
<1>10. u1 = IF Len(row1) < RowLen THEN Mac(W, A, row1, l, e, b, o)
            ELSE IF Len(A) < R - 1 THEN Mac(W, Append(A, row1), <<>>, l, e, b, o)
            ELSE Convolve(u, Append(A, row1))
  BY <1>4, <1>6, <1>8, <1>9, Zenon DEF MacSource
<1>11. Made(c, w, s1, r, u1)
  <2>1. Working(c, w, s, r, Mac(W, A, row, l, e, b, <<>>), p)
    BY <1>1, <1>3, <1>5, Zenon
  <2>2. Takes(u1, W, A, row, row1, l, e, b)
    BY <1>1, <1>5, <1>10, Zenon DEF Takes
  <2>3. c.acc = "conv" /\ IsSeq(W) /\ IsSeq(A) /\ IsSeq(row) /\ l \in Nat /\ e \in BOOLEAN /\ IsPair(b)
    BY <1>1, <1>2
  <2>4. Len(W) = NumWeights /\ Shorter(s1, s) /\ Longer(row1, row, FirstOf(s))
    BY <1>5, <1>7
  <2> QED BY <2>1, <2>2, <2>3, <2>4, MacReceives
<1> QED BY <1>6, <1>11 DEF Made

-----------------------------------------------------------------------------
(***************************************************************************)
(* The dense layers.  What is in a FIFO or in an accumulator is a part of  *)
(* a fixed sequence.                                                       *)
(***************************************************************************)
LEMMA StreamEmpty ==
  ASSUME NEW g, NEW n, n \in Nat
  PROVE  Stream(<<>>, g, n, n)
BY DEF Stream

\* An element is added to a stream.
LEMMA StreamSends ==
  ASSUME NEW s, NEW g, NEW n, NEW t, NEW s1,
         IsSeq(s), n \in Nat, Stream(s, g, n, t), Longer(s1, s, At(g, t))
  PROVE  Stream(s1, g, n, t + 1)
<1>1. Len(s) \in Nat /\ n + Len(s) = t /\ Len(s1) = Len(s) + 1
  BY SeqLen DEF Stream, Longer
<1>2. ASSUME NEW i \in 1 .. Len(s1) PROVE s1[i] = At(g, n + (i - 1))
  <2>1. CASE i \in 1 .. Len(s)
    BY <2>1 DEF Stream, Longer
  <2>2. CASE i = Len(s) + 1
    <3>1. n + (i - 1) = t
      BY <1>1, <2>2
    <3> QED BY <2>2, <3>1 DEF Longer
  <2> QED BY <1>1, <2>1, <2>2
<1>3. n + Len(s1) = t + 1
  BY <1>1
<1> QED BY <1>2, <1>3 DEF Stream

\* An element is taken from a stream.
LEMMA StreamTakes ==
  ASSUME NEW s, NEW g, NEW n, NEW t, NEW s1,
         IsSeq(s), n \in Nat, Stream(s, g, n, t), s # <<>>, Shorter(s1, s)
  PROVE  Stream(s1, g, n + 1, t)
<1>1. Len(s1) \in Nat /\ n + Len(s) = t /\ Len(s) = Len(s1) + 1
  BY SeqLen DEF Stream, Shorter
<1>2. ASSUME NEW i \in 1 .. Len(s1) PROVE s1[i] = At(g, (n + 1) + (i - 1))
  <2>1. i + 1 \in 1 .. Len(s) /\ n + ((i + 1) - 1) = (n + 1) + (i - 1)
    BY <1>1
  <2>2. s1[i] = s[i + 1]
    BY DEF Shorter
  <2>3. s[i + 1] = At(g, n + ((i + 1) - 1))
    BY <2>1 DEF Stream
  <2> QED BY <2>1, <2>2, <2>3
<1>3. (n + 1) + Len(s1) = t
  BY <1>1
<1> QED BY <1>2, <1>3 DEF Stream

\* The head of a stream is the next element to take.
LEMMA StreamHead ==
  ASSUME NEW s, NEW g, NEW n, NEW t, IsSeq(s), n \in Nat, Stream(s, g, n, t), s # <<>>
  PROVE  FirstOf(s) = At(g, n) /\ n < t
<1>1. Len(s) \in Nat \ {0}
  BY SeqLen, SeqEmpty
<1>2. s[1] = At(g, n + (1 - 1)) /\ n + (1 - 1) = n
  BY <1>1 DEF Stream
<1>3. n + Len(s) = t
  BY DEF Stream
<1> QED BY <1>1, <1>2, <1>3 DEF FirstOf

\* A stream is empty when all is taken.
LEMMA StreamEnds ==
  ASSUME NEW s, NEW g, NEW n, n \in Nat, NEW t, IsSeq(s), Stream(s, g, n, t)
  PROVE  n <= t /\ (n = t => s = <<>>) /\ t \in Nat
<1>1. Len(s) \in Nat /\ n + Len(s) = t
  BY SeqLen DEF Stream
<1>2. n = t => Len(s) = 0
  BY <1>1
<1> QED BY <1>1, <1>2, SeqEmpty

\* The only element of a FIFO is sent.
LEMMA OneSent ==
  ASSUME NEW q, NEW v, NEW q1, q = <<>>, Longer(q1, q, v)
  PROVE  One(q1, v)
<1>1. Len(<<>>) = 0
  BY SeqEmpty
<1> QED BY <1>1 DEF One, Longer

\* The only element of a FIFO is taken.
LEMMA OneTaken ==
  ASSUME NEW q, NEW v, NEW q1, One(q, v), Shorter(q1, q)
  PROVE  q1 = <<>> /\ FirstOf(q) = v
<1>1. IsSeq(q1) /\ Len(q1) + 1 = 1
  BY DEF One, Shorter
<1>2. Len(q1) = 0
  BY <1>1, SeqLen
<1> QED BY <1>1, <1>2, SeqEmpty DEF One, FirstOf

\* A FIFO with one element is not empty.
LEMMA OneSome ==
  ASSUME NEW q, NEW v, One(q, v)
  PROVE  q # <<>>
BY SeqEmpty DEF One

-----------------------------------------------------------------------------
\* What follows the limits.
LEMMA NextStart ==
  ASSUME NEW h, NEW a
  PROVE  /\ NextDense(h, Call(a, "start", 0, 0, 0)) = Call(a, "end", 0, 0, 0)
         /\ NextDense(h, Call(a, "end", 0, 0, 0)) = Call(a, "source", 0, 0, 0)
BY DEF NextDense, Call

\* What follows an input.
LEMMA NextSource ==
  ASSUME NEW h, NEW a, NEW i
  PROVE  NextDense(h, Call(a, "source", 0, i, 0)) = Call(a, "weight", Low(h), i, 0)
BY DEF NextDense, Call, Low

\* What follows a weight.
LEMMA NextWeight ==
  ASSUME NEW h, NEW a, NEW m, NEW i, m \in Nat, i \in Nat
  PROVE  LET d == NextDense(h, Call(a, "weight", m, i, 0)) IN
           \/ m + 1 < High(h) /\ d = Call(a, "weight", m + 1, i, 0)
           \/ ~(m + 1 < High(h)) /\ i + 1 < Inputs /\ d = Call(a, "source", 0, i + 1, 0)
           \/ ~(m + 1 < High(h)) /\ ~(i + 1 < Inputs) /\ d = OutputCall(a, Low(h))
<1>1. CASE m + 1 < High(h)
  BY <1>1 DEF NextDense, Call, High, Low
<1>2. CASE ~(m + 1 < High(h)) /\ i + 1 < Inputs
  BY <1>2 DEF NextDense, Call, High, Low
<1>3. CASE ~(m + 1 < High(h)) /\ ~(i + 1 < Inputs)
  BY <1>3 DEF NextDense, Call, High, Low
<1> QED BY <1>1, <1>2, <1>3

\* What follows a bias.
LEMMA NextBias ==
  ASSUME NEW h, NEW m
  PROVE  NextDense(h, Call("fc3", "bias", m, 0, 0)) = Call("fc3", "result", m, 0, 0)
BY DEF NextDense, Call

\* What follows a result.
LEMMA NextResult ==
  ASSUME NEW h, NEW a \in Dense, NEW m, m \in Nat
  PROVE  LET d == NextDense(h, Call(a, "result", m, 0, 0)) IN
           \/ m + 1 < High(h) /\ d = OutputCall(a, m + 1)
           \/ ~(m + 1 < High(h)) /\ a = "fc1" /\ d = Call("fc3", "start", 0, 0, 0)
           \/ ~(m + 1 < High(h)) /\ a = "fc3" /\ d = Finished
<1>1. CASE m + 1 < High(h)
  BY <1>1 DEF NextDense, Call, High
<1>2. CASE ~(m + 1 < High(h)) /\ a = "fc1"
  BY <1>2 DEF NextDense, Call, High
<1>3. CASE ~(m + 1 < High(h)) /\ a = "fc3"
  BY <1>3 DEF NextDense, Call, High
<1> QED BY <1>1, <1>2, <1>3 DEF Dense

\* FC_3 is sent a bias before a result is read, FC_1 is not.
LEMMA OutputCallIs ==
  ASSUME NEW a \in Dense, NEW m
  PROVE  /\ a = "fc1" => OutputCall(a, m) = Call(a, "result", m, 0, 0)
         /\ a = "fc3" => OutputCall(a, m) = Call(a, "bias", m, 0, 0)
BY DEF OutputCall

\* do_fc1 and do_fc3 go from a call to a call.
LEMMA NextDenseCall ==
  ASSUME NEW h \in Harts, NEW c \in Calls(h), c.acc \in Dense
  PROVE  NextDense(h, c) \in Calls(h)
<1>1. PICK a \in Dense : c.acc = a
  OBVIOUS
<1>2. Low(h) \in Nat /\ High(h) \in Nat /\ Low(h) < High(h) /\ Inputs \in Nat \ {0}
  <2>1. Width \in Nat \ {0} /\ Low(h) \in Nat /\ High(h) = Low(h) + Width
    BY OutputHalf
  <2> HIDE DEF Width
  <2> QED BY <2>1, Sizes
<1>3. \A m \in Low(h) .. High(h) - 1 : OutputCall(a, m) \in Calls(h)
  <2> TAKE m \in Low(h) .. High(h) - 1
  <2>1. CASE a = "fc1"
    BY <2>1, OutputCallIs, CallsOfDense
  <2>2. CASE a = "fc3"
    BY <2>2, OutputCallIs, CallsOfDense
  <2> QED BY <2>1, <2>2 DEF Dense
<1>4. ASSUME NEW port \in {"start", "end"}, c = Call(a, port, 0, 0, 0)
      PROVE  NextDense(h, c) \in Calls(h)
  <2>1. 0 \in 0 .. Inputs - 1
    BY <1>2
  <2>2. Call(a, "end", 0, 0, 0) \in Calls(h) /\ Call(a, "source", 0, 0, 0) \in Calls(h)
    BY <2>1, CallsOfDense
  <2> QED BY <1>4, <2>2, NextStart
<1>5. ASSUME NEW i \in 0 .. Inputs - 1, c = Call(a, "source", 0, i, 0)
      PROVE  NextDense(h, c) \in Calls(h)
  <2>1. Low(h) \in Low(h) .. High(h) - 1
    BY <1>2
  <2>2. Call(a, "weight", Low(h), i, 0) \in Calls(h)
    BY <2>1, CallsOfDense
  <2> QED BY <1>5, <2>2, NextSource
<1>6. ASSUME NEW m \in Low(h) .. High(h) - 1, NEW i \in 0 .. Inputs - 1,
             c = Call(a, "weight", m, i, 0)
      PROVE  NextDense(h, c) \in Calls(h)
  <2>1. m + 1 < High(h) => Call(a, "weight", m + 1, i, 0) \in Calls(h)
    <3>1. m + 1 < High(h) => m + 1 \in Low(h) .. High(h) - 1
      BY <1>2
    <3> QED BY <3>1, CallsOfDense
  <2>2. i + 1 < Inputs => Call(a, "source", 0, i + 1, 0) \in Calls(h)
    <3>1. i + 1 < Inputs => i + 1 \in 0 .. Inputs - 1
      BY <1>2
    <3> QED BY <3>1, CallsOfDense
  <2>3. OutputCall(a, Low(h)) \in Calls(h)
    BY <1>2, <1>3
  <2>4. m \in Nat /\ i \in Nat
    BY <1>2
  <2> QED BY <1>6, <2>1, <2>2, <2>3, <2>4, NextWeight
<1>7. ASSUME NEW m \in Low(h) .. High(h) - 1, a = "fc3", c = Call("fc3", "bias", m, 0, 0)
      PROVE  NextDense(h, c) \in Calls(h)
  <2>1. Call("fc3", "result", m, 0, 0) \in Calls(h)
    BY <1>7, CallsOfDense
  <2> QED BY <1>7, <2>1, NextBias
<1>8. ASSUME NEW m \in Low(h) .. High(h) - 1, c = Call(a, "result", m, 0, 0)
      PROVE  NextDense(h, c) \in Calls(h)
  <2>1. m + 1 < High(h) => OutputCall(a, m + 1) \in Calls(h)
    <3>1. m + 1 < High(h) => m + 1 \in Low(h) .. High(h) - 1
      BY <1>2
    <3> QED BY <1>3, <3>1
  <2>2. Call("fc3", "start", 0, 0, 0) \in Calls(h) /\ Finished \in Calls(h)
    BY CallsOfDense DEF Dense
  <2>3. m \in Nat
    BY <1>2
  <2> QED BY <1>8, <2>1, <2>2, <2>3, NextResult
<1> QED BY <1>1, <1>4, <1>5, <1>6, <1>7, <1>8, DenseCall

-----------------------------------------------------------------------------
(***************************************************************************)
(* The program makes a call of a dense layer.                              *)
(***************************************************************************)
\* The limits of the loops arrive as they were sent.
LEMMA LimitsStart ==
  ASSUME NEW h, NEW ss, NEW se, NEW start, NEW end, NEW ss1,
         Limits(h, "start", ss, se, start, end), Longer(ss1, ss, Low(h))
  PROVE  Limits(h, "end", ss1, se, start, end)
<1>1. ss = <<>> /\ start = None /\ Unsent(se, end) /\ (end # None => start # None)
  BY DEF Limits, Unsent
<1>2. One(ss1, Low(h))
  BY <1>1, OneSent
<1> QED BY <1>1, <1>2 DEF Limits, Sent

\* The program has sent the second limit.
LEMMA LimitsEnd ==
  ASSUME NEW h, NEW ss, NEW se, NEW start, NEW end, NEW se1,
         Limits(h, "end", ss, se, start, end), Longer(se1, se, High(h))
  PROVE  Limits(h, "source", ss, se1, start, end)
<1>1. se = <<>> /\ end = None /\ Sent(ss, start, Low(h)) /\ (end # None => start # None)
  BY DEF Limits, Unsent
<1>2. One(se1, High(h))
  BY <1>1, OneSent
<1> QED BY <1>1, <1>2 DEF Limits, Sent

\* The limits stay as they are while inputs and weights are sent.
LEMMA LimitsRest ==
  ASSUME NEW h, NEW ss, NEW se, NEW start, NEW end,
         NEW p, p \notin {"start", "end"}, NEW q, q \notin {"start", "end"},
         Limits(h, p, ss, se, start, end)
  PROVE  Limits(h, q, ss, se, start, end)
BY DEF Limits

\* The program has sent start, end, an input, a weight.
LEMMA FeedingStart ==
  ASSUME NEW h, NEW a, NEW m, NEW ni, NEW nf, NEW ss, NEW se, NEW s, NEW w, NEW bs, NEW r,
         NEW start, NEW end, NEW i, NEW j, NEW source, NEW bias, NEW acc, NEW ss1, NEW n,
         Feeding(h, a, "start", m, ni, nf, ss, se, s, w, bs, r,
                 start, end, i, j, source, bias, acc),
         Longer(ss1, ss, Low(h))
  PROVE  Feeding(h, a, "end", n, ni, nf, ss1, se, s, w, bs, r,
                 start, end, i, j, source, bias, acc)
<1>1. Limits(h, "end", ss1, se, start, end)
  BY LimitsStart DEF Feeding
<1> QED BY <1>1 DEF Feeding

\* The program has sent end: Fully_Connect still accumulates.
LEMMA FeedingEnd ==
  ASSUME NEW h, NEW a, NEW m, NEW ni, NEW nf, NEW ss, NEW se, NEW s, NEW w, NEW bs, NEW r,
         NEW start, NEW end, NEW i, NEW j, NEW source, NEW bias, NEW acc, NEW se1, NEW n,
         Feeding(h, a, "end", m, ni, nf, ss, se, s, w, bs, r,
                 start, end, i, j, source, bias, acc),
         Longer(se1, se, High(h))
  PROVE  Feeding(h, a, "source", n, ni, nf, ss, se1, s, w, bs, r,
                 start, end, i, j, source, bias, acc)
<1>1. Limits(h, "source", ss, se1, start, end)
  BY LimitsEnd DEF Feeding
<1> QED BY <1>1 DEF Feeding

\* The numbers of Fully_Connect are in range while it accumulates.
LEMMA FeedingRange ==
  ASSUME NEW h \in Harts, NEW i, NEW j, i \in 0 .. Inputs - 1,
         j \in {None} \cup Low(h) .. High(h) - 1
  PROVE  /\ Column(h, j) \in Low(h) .. High(h) - 1 /\ Column(h, j) \in Nat
         /\ Taken(i, j) \in Nat /\ Used(h, i, j) \in Nat /\ i \in Nat
         /\ j # None => j \in Nat
<1>1. Low(h) \in Nat /\ High(h) \in Nat /\ Low(h) < High(h) /\ Inputs \in Nat
  <2>1. Width \in Nat \ {0} /\ Low(h) \in Nat /\ High(h) = Low(h) + Width
    BY OutputHalf
  <2> HIDE DEF Width
  <2> QED BY <2>1, Sizes
<1>2. Column(h, j) \in Low(h) .. High(h) - 1 /\ (j # None => j \in Nat)
  BY <1>1 DEF Column, None
<1>3. i \in Nat
  BY <1>1
<1>4. Block(i) \in Nat
  BY <1>3, BlockNext
<1>5. Taken(i, j) \in Nat
  BY <1>3 DEF Taken
<1>6. Used(h, i, j) \in Nat
  BY <1>1, <1>2, <1>4 DEF Used
<1> QED BY <1>1, <1>2, <1>3, <1>5, <1>6

\* The program has sent an input.
LEMMA FeedingSource ==
  ASSUME NEW h \in Harts, NEW a, NEW m, NEW ni, NEW nf,
         NEW ss, NEW se, NEW s, NEW w, NEW bs, NEW r,
         NEW start, NEW end, NEW i, NEW j, NEW source, NEW bias, NEW acc, NEW s1, NEW n,
         Feeding(h, a, "source", m, ni, nf, ss, se, s, w, bs, r,
                 start, end, i, j, source, bias, acc),
         IsSeq(s), Longer(s1, s, At(InputSeq, ni))
  PROVE  Feeding(h, a, "weight", n, ni + 1, nf, ss, se, s1, w, bs, r,
                 start, end, i, j, source, bias, acc)
<1>1. /\ i \in 0 .. Inputs - 1 /\ j \in {None} \cup Low(h) .. High(h) - 1
      /\ Limits(h, "source", ss, se, start, end) /\ Stream(s, InputSeq, Taken(i, j), ni)
  BY DEF Feeding
<1>2. Taken(i, j) \in Nat
  BY <1>1, FeedingRange
<1>3. Limits(h, "weight", ss, se, start, end)
  BY <1>1, LimitsRest
<1>4. Stream(s1, InputSeq, Taken(i, j), ni + 1)
  BY <1>1, <1>2, StreamSends
<1> QED BY <1>3, <1>4 DEF Feeding

\* The program has sent a weight.
LEMMA FeedingWeight ==
  ASSUME NEW h \in Harts, NEW a, NEW m, NEW ni, NEW nf,
         NEW ss, NEW se, NEW s, NEW w, NEW bs, NEW r,
         NEW start, NEW end, NEW i, NEW j, NEW source, NEW bias, NEW acc,
         NEW w1, NEW port, NEW n,
         port \in {"weight", "source"} \/ (port \in {"bias", "result"} /\ n = Low(h)),
         a = "fc3" => port # "result",
         Feeding(h, a, "weight", m, ni, nf, ss, se, s, w, bs, r,
                 start, end, i, j, source, bias, acc),
         IsSeq(w), Longer(w1, w, At(FactorSeq(h), nf))
  PROVE  Feeding(h, a, port, n, ni, nf + 1, ss, se, s, w1, bs, r,
                 start, end, i, j, source, bias, acc)
<1>1. /\ i \in 0 .. Inputs - 1 /\ j \in {None} \cup Low(h) .. High(h) - 1
      /\ Limits(h, "weight", ss, se, start, end) /\ Stream(w, FactorSeq(h), Used(h, i, j), nf)
  BY DEF Feeding
<1>2. Used(h, i, j) \in Nat
  BY <1>1, FeedingRange
<1>3. Limits(h, port, ss, se, start, end)
  BY <1>1, LimitsRest
<1>4. Stream(w1, FactorSeq(h), Used(h, i, j), nf + 1)
  BY <1>1, <1>2, StreamSends
<1>5. bs = <<>> /\ (port \in {"bias", "result"} => n = Low(h))
  BY DEF Feeding
<1> QED BY <1>3, <1>4, <1>5 DEF Feeding

\* do_fc3 has sent the bias of an output.
LEMMA FeedingBias ==
  ASSUME NEW h, NEW m, NEW ni, NEW nf, NEW ss, NEW se, NEW s, NEW w, NEW bs, NEW r,
         NEW start, NEW end, NEW i, NEW j, NEW source, NEW bias, NEW acc, NEW bs1,
         Feeding(h, "fc3", "bias", m, ni, nf, ss, se, s, w, bs, r,
                 start, end, i, j, source, bias, acc),
         Longer(bs1, bs, Bias(m))
  PROVE  Feeding(h, "fc3", "result", m, ni, nf, ss, se, s, w, bs1, r,
                 start, end, i, j, source, bias, acc)
<1>1. bs = <<>> /\ m = Low(h) /\ Limits(h, "bias", ss, se, start, end)
  BY DEF Feeding
<1>2. One(bs1, Bias(Low(h)))
  BY <1>1, OneSent
<1>3. Limits(h, "result", ss, se, start, end)
  BY <1>1, LimitsRest
<1> QED BY <1>1, <1>2, <1>3 DEF Feeding

\* The program has sent a bias while results are written.
LEMMA AnsweringBias ==
  ASSUME NEW h, NEW m, NEW ss, NEW se, NEW s, NEW w, NEW bs, NEW r,
         NEW start, NEW end, NEW i, NEW j, NEW source, NEW bias, NEW acc, NEW n, NEW bs1,
         Answering(h, "fc3", "bias", m, ss, se, s, w, bs, r,
                   start, end, i, j, source, bias, acc, n),
         Longer(bs1, bs, Bias(m))
  PROVE  Answering(h, "fc3", "result", m, ss, se, s, w, bs1, r,
                   start, end, i, j, source, bias, acc, n)
<1>1. bs = <<>> /\ n = m /\ bias = <<>>
  BY DEF Answering
<1>2. One(bs1, Bias(m))
  BY <1>1, OneSent
<1> QED BY <1>1, <1>2 DEF Answering

\* The program reads a result of a dense layer.
LEMMA AnsweringReads ==
  ASSUME NEW h \in Harts, NEW a \in Dense, NEW m, m \in Nat, NEW port, NEW q,
         NEW ss, NEW se, NEW s, NEW w, NEW bs, NEW r,
         NEW start, NEW end, NEW i, NEW j, NEW source, NEW bias, NEW acc, NEW n, NEW r1,
         port = "result", q = (IF a = "fc3" THEN "bias" ELSE "result"),
         Answering(h, a, port, m, ss, se, s, w, bs, r,
                   start, end, i, j, source, bias, acc, n),
         IsSeq(r), r # <<>>, Shorter(r1, r), m + 1 < High(h)
  PROVE  Answering(h, a, q, m + 1, ss, se, s, w, bs, r1,
                   start, end, i, j, source, bias, acc, n)
<1>1. n \in m .. High(h) /\ Stream(r, OutputSeq(a), m, n)
  BY DEF Answering
<1>2. m < n
  BY <1>1, StreamHead
<1>3. Stream(r1, OutputSeq(a), m + 1, n)
  BY <1>1, StreamTakes
<1>4. High(h) \in Nat
  BY OutputHalf
<1>5. n \in m + 1 .. High(h)
  BY <1>1, <1>2, <1>4
<1>6. bs = <<>> /\ bias = <<>>
  BY <1>2 DEF Answering
<1>7. a = "fc3" => n = m + 1
  <2>1. a = "fc3" => n <= m + 1
    BY DEF Answering
  <2> QED BY <1>5, <2>1
<1>8. q \in {"bias", "result"} /\ (a = "fc3" => q = "bias")
  OBVIOUS
<1>9. /\ ss = <<>> /\ se = <<>> /\ s = <<>> /\ w = <<>>
      /\ \/ n = High(h) /\ Fully(start, end, i, j, source, bias, acc) = IdleDense
         \/ /\ n < High(h) /\ i = Inputs /\ j = n
            /\ start = Low(h) /\ end = High(h) /\ Sums(h, acc, Inputs, Low(h))
  BY DEF Answering
<1>10. a = "fc3" => n <= m + 2 /\ (q = "bias" => n = m + 1)
  BY <1>5, <1>7
<1> QED BY <1>3, <1>5, <1>6, <1>7, <1>8, <1>9, <1>10 DEF Answering

\* The program reads the last result of a layer, which then rests.
LEMMA AnsweringEnds ==
  ASSUME NEW h \in Harts, NEW a \in Dense, NEW m, m \in Nat, NEW port,
         NEW ss, NEW se, NEW s, NEW w, NEW bs, NEW r,
         NEW start, NEW end, NEW i, NEW j, NEW source, NEW bias, NEW acc, NEW n, NEW r1,
         Answering(h, a, port, m, ss, se, s, w, bs, r,
                   start, end, i, j, source, bias, acc, n),
         IsSeq(r), r # <<>>, Shorter(r1, r), ~(m + 1 < High(h))
  PROVE  DenseResting(ss, se, s, w, bs, r1, Fully(start, end, i, j, source, bias, acc))
<1>1. n \in m .. High(h) /\ Stream(r, OutputSeq(a), m, n)
  BY DEF Answering
<1>2. m < n
  BY <1>1, StreamHead
<1>3. High(h) \in Nat
  BY OutputHalf
<1>4. n = High(h) /\ n = m + 1
  BY <1>1, <1>2, <1>3
<1>5. Stream(r1, OutputSeq(a), m + 1, n)
  BY <1>1, StreamTakes
<1>6. r1 = <<>>
  <2>1. IsSeq(r1)
    BY DEF Shorter
  <2> QED BY <1>5, <1>4, <2>1, StreamEnds
<1>7. bs = <<>>
  BY <1>2 DEF Answering
<1>8. /\ ss = <<>> /\ se = <<>> /\ s = <<>> /\ w = <<>>
      /\ Fully(start, end, i, j, source, bias, acc) = IdleDense
  BY <1>4 DEF Answering
<1> QED BY <1>6, <1>7, <1>8 DEF DenseResting

\* What the program reads.
LEMMA AnsweringHead ==
  ASSUME NEW h \in Harts, NEW a \in Dense, NEW m, m \in Nat, NEW port,
         NEW ss, NEW se, NEW s, NEW w, NEW bs, NEW r,
         NEW start, NEW end, NEW i, NEW j, NEW source, NEW bias, NEW acc, NEW n,
         Answering(h, a, port, m, ss, se, s, w, bs, r,
                   start, end, i, j, source, bias, acc, n),
         IsSeq(r), r # <<>>
  PROVE  FirstOf(r) = DenseOutput(a, m)
<1>1. Stream(r, OutputSeq(a), m, n)
  BY DEF Answering
<1>2. FirstOf(r) = At(OutputSeq(a), m)
  BY <1>1, StreamHead
<1> QED BY <1>2 DEF At, OutputSeq

\* A layer that rests can be fed.
LEMMA IdleIs ==
  \E acc : /\ IdleDense = Fully(None, None, 0, None, <<>>, <<>>, acc)
           /\ acc = [m \in 0 .. Outputs - 1 |-> <<>>]
BY DEF IdleDense, Fully

\* No sum has a term at first.
LEMMA IdleSums ==
  ASSUME NEW h \in Harts, NEW acc, acc = [m \in 0 .. Outputs - 1 |-> <<>>]
  PROVE  Sums(h, acc, 0, Low(h)) /\ IsAcc(acc)
<1>1. Low(h) \in Nat /\ High(h) <= Outputs /\ High(h) \in Nat /\ Outputs \in Nat
  <2>1. Width \in Nat \ {0} /\ Low(h) \in Nat /\ High(h) = Low(h) + Width
        /\ High(h) <= Outputs
    BY OutputHalf
  <2> HIDE DEF Width
  <2> QED BY <2>1, Sizes
<1>2. ASSUME NEW m, m \in Low(h) .. High(h) - 1
      PROVE  Stream(acc[m], TermSeq(m), 0, Count(m, 0, Low(h)))
  <2>1. acc[m] = <<>> /\ Count(m, 0, Low(h)) = 0
    BY <1>1, <1>2 DEF Count
  <2> QED BY <2>1, StreamEmpty
<1>3. IsAcc(acc)
  BY SeqEmpty DEF IsAcc
<1> QED BY <1>2, <1>3 DEF Sums

\* A layer that rests can accept the limits.
LEMMA RestingFeeds ==
  ASSUME NEW h \in Harts, NEW a, NEW m, NEW ss, NEW se, NEW s, NEW w, NEW bs, NEW r,
         NEW start, NEW end, NEW i, NEW j, NEW source, NEW bias, NEW acc,
         DenseResting(ss, se, s, w, bs, r, Fully(start, end, i, j, source, bias, acc))
  PROVE  Feeding(h, a, "start", m, 0, 0, ss, se, s, w, bs, r,
                 start, end, i, j, source, bias, acc)
<1>1. PICK z : /\ IdleDense = Fully(None, None, 0, None, <<>>, <<>>, z)
               /\ z = [x \in 0 .. Outputs - 1 |-> <<>>]
  BY IdleIs
<1>2. start = None /\ end = None /\ i = 0 /\ j = None /\ bias = <<>> /\ acc = z
  <2>1. Fully(start, end, i, j, source, bias, acc) = Fully(None, None, 0, None, <<>>, <<>>, z)
    BY <1>1 DEF DenseResting
  <2> QED BY <2>1 DEF Fully
<1>3. ss = <<>> /\ se = <<>> /\ s = <<>> /\ w = <<>> /\ bs = <<>> /\ r = <<>>
  BY DEF DenseResting
<1>4. Limits(h, "start", ss, se, start, end)
  BY <1>2, <1>3 DEF Limits, Unsent
<1>5. Low(h) \in Nat /\ Block(0) = 0
  BY OutputHalf, BlockNext
<1>6. Column(h, j) = Low(h) /\ Taken(i, j) = 0 /\ Used(h, i, j) = 0
  BY <1>2, <1>5 DEF Column, Taken, Used
<1>7. Stream(s, InputSeq, 0, 0) /\ Stream(w, FactorSeq(h), 0, 0)
  BY <1>3, StreamEmpty
<1>8. Sums(h, acc, i, Column(h, j))
  BY <1>1, <1>2, <1>6, IdleSums
<1>9. i \in 0 .. Inputs - 1 /\ j \in {None}
  BY <1>2, Sizes
<1> QED BY <1>2, <1>3, <1>4, <1>6, <1>7, <1>8, <1>9 DEF Feeding

-----------------------------------------------------------------------------
(***************************************************************************)
(* A step of Fully_Connect.                                                *)
(***************************************************************************)
LEMMA FullyFields ==
  ASSUME NEW f, IsDense(f)
  PROVE  \E start, end, i, j, source, bias, acc :
           f = Fully(start, end, i, j, source, bias, acc) /\ IsAcc(acc)
<1>1. f = Fully(f.start, f.end, f.i, f.j, f.source, f.bias, f.acc) /\ IsAcc(f.acc)
  BY DEF IsDense
<1> DEFINE F(start, end, i, j, source, bias, acc) ==
             f = Fully(start, end, i, j, source, bias, acc) /\ IsAcc(acc)
<1>2. F(f.start, f.end, f.i, f.j, f.source, f.bias, f.acc)
  BY <1>1, Zenon
<1>3. \E start, end, i, j, source, bias, acc : F(start, end, i, j, source, bias, acc)
  <2> HIDE DEF F
  <2> QED BY <1>2, Zenon
<1> QED BY <1>3, Zenon

\* Such a record is a state of Fully_Connect.
LEMMA FullyIsDense ==
  ASSUME NEW start, NEW end, NEW i, NEW j, NEW source, NEW bias, NEW acc, IsAcc(acc)
  PROVE  IsDense(Fully(start, end, i, j, source, bias, acc))
BY DEF IsDense, Fully

\* So is the idle state.
LEMMA IdleIsDense == IsDense(IdleDense)
<1>1. PICK z : /\ IdleDense = Fully(None, None, 0, None, <<>>, <<>>, z)
               /\ z = [x \in 0 .. Outputs - 1 |-> <<>>]
  BY IdleIs
<1>2. IsAcc(z)
  BY <1>1, SeqEmpty DEF IsAcc
<1> QED BY <1>1, <1>2, FullyIsDense

\* The limits are within the range of sc_int<8>.
LEMMA Int8Same ==
  ASSUME NEW x, x \in 0 .. HalfRange - 1
  PROVE  Int8(x) = x
<1>1. HalfRange \in Nat \ {0}
  BY Sizes
<1>2. 2 * HalfRange \in Nat \ {0} /\ x + HalfRange \in 0 .. (2 * HalfRange) - 1
  BY <1>1
<1>3. (0 * (2 * HalfRange) + (x + HalfRange)) % (2 * HalfRange) = x + HalfRange
  BY <1>2, DivisionUnique
<1>4. 0 * (2 * HalfRange) + (x + HalfRange) = x + HalfRange
  BY <1>1, <1>2
<1>5. (x + HalfRange) - HalfRange = x
  BY <1>1
<1> QED BY <1>3, <1>4, <1>5 DEF Int8

\* The limits survive the conversion to sc_int<8>.
LEMMA LimitsInt8 ==
  ASSUME NEW h \in Harts
  PROVE  /\ Int8(Low(h)) = Low(h) /\ Low(h) # None
         /\ Int8(High(h)) = High(h) /\ High(h) # None
<1>1. Low(h) \in 0 .. HalfRange - 1 /\ High(h) \in 0 .. HalfRange - 1
  <2>1. Width \in Nat \ {0} /\ Low(h) \in Nat /\ High(h) = Low(h) + Width
        /\ Low(h) < HalfRange /\ High(h) < HalfRange
    BY OutputHalf
  <2> HIDE DEF Width
  <2> QED BY <2>1, Sizes
<1>2. Int8(Low(h)) = Low(h) /\ Int8(High(h)) = High(h)
  BY <1>1, Int8Same
<1> QED BY <1>1, <1>2, Sizes DEF None

\* Fully_Connect takes start.
LEMMA FeedsStart ==
  ASSUME NEW h \in Harts, NEW a, NEW port, NEW m, NEW ni, NEW nf,
         NEW ss, NEW se, NEW s, NEW w, NEW bs, NEW r,
         NEW start, NEW end, NEW i, NEW j, NEW source, NEW bias, NEW acc, NEW ss1, NEW x,
         Feeding(h, a, port, m, ni, nf, ss, se, s, w, bs, r,
                 start, end, i, j, source, bias, acc),
         start = None, ss # <<>>, Shorter(ss1, ss), x = Int8(FirstOf(ss))
  PROVE  Feeding(h, a, port, m, ni, nf, ss1, se, s, w, bs, r,
                 x, end, i, j, source, bias, acc)
<1>1. Limits(h, port, ss, se, start, end)
  BY DEF Feeding
<1>2. port # "start" /\ One(ss, Low(h))
  BY <1>1, LimitsInt8 DEF Limits, Sent, Unsent
<1>3. ss1 = <<>> /\ FirstOf(ss) = Low(h)
  BY <1>2, OneTaken
<1>4. x = Low(h) /\ x # None
  BY <1>3, LimitsInt8
<1>5. Limits(h, port, ss1, se, x, end)
  BY <1>1, <1>2, <1>3, <1>4 DEF Limits, Sent
<1> QED BY <1>5 DEF Feeding

\* Fully_Connect takes end.
LEMMA FeedsEnd ==
  ASSUME NEW h \in Harts, NEW a, NEW port, NEW m, NEW ni, NEW nf,
         NEW ss, NEW se, NEW s, NEW w, NEW bs, NEW r,
         NEW start, NEW end, NEW i, NEW j, NEW source, NEW bias, NEW acc, NEW se1, NEW x,
         Feeding(h, a, port, m, ni, nf, ss, se, s, w, bs, r,
                 start, end, i, j, source, bias, acc),
         start # None, end = None, se # <<>>, Shorter(se1, se), x = Int8(FirstOf(se))
  PROVE  Feeding(h, a, port, m, ni, nf, ss, se1, s, w, bs, r,
                 start, x, i, j, source, bias, acc)
<1>1. Limits(h, port, ss, se, start, end)
  BY DEF Feeding
<1>2. port \notin {"start", "end"} /\ One(se, High(h))
  BY <1>1, LimitsInt8 DEF Limits, Sent, Unsent
<1>3. se1 = <<>> /\ FirstOf(se) = High(h)
  BY <1>2, OneTaken
<1>4. x = High(h) /\ x # None
  BY <1>3, LimitsInt8
<1>5. Limits(h, port, ss, se1, start, x)
  BY <1>1, <1>2, <1>3, <1>4 DEF Limits, Sent
<1> QED BY <1>4, <1>5 DEF Feeding

\* Both limits have arrived.
LEMMA LimitsKnown ==
  ASSUME NEW h, NEW port, NEW ss, NEW se, NEW start, NEW end,
         Limits(h, port, ss, se, start, end), end # None
  PROVE  /\ port \notin {"start", "end"} /\ ss = <<>> /\ se = <<>>
         /\ start = Low(h) /\ end = High(h)
BY DEF Limits, Sent, Unsent

\* Fully_Connect takes an input.
LEMMA FeedsSource ==
  ASSUME NEW h \in Harts, NEW a, NEW port, NEW m, NEW ni, NEW nf,
         NEW ss, NEW se, NEW s, NEW w, NEW bs, NEW r,
         NEW start, NEW end, NEW i, NEW j, NEW source, NEW bias, NEW acc, NEW s1, NEW x,
         Feeding(h, a, port, m, ni, nf, ss, se, s, w, bs, r,
                 start, end, i, j, source, bias, acc),
         end # None, j = None, IsSeq(s), s # <<>>, Shorter(s1, s), x = FirstOf(s)
  PROVE  Feeding(h, a, port, m, ni, nf, ss, se, s1, w, bs, r,
                 start, end, i, start, x, bias, acc)
<1>1. /\ Limits(h, port, ss, se, start, end) /\ Stream(s, InputSeq, Taken(i, j), ni)
      /\ Stream(w, FactorSeq(h), Used(h, i, j), nf) /\ Sums(h, acc, i, Column(h, j))
      /\ i \in 0 .. Inputs - 1
  BY DEF Feeding
<1>2. start = Low(h) /\ start # None
  BY <1>1, LimitsKnown, LimitsInt8
<1>3. Low(h) \in Low(h) .. High(h) - 1
  BY FeedingRange, <1>1 DEF Column
<1>4. i \in Nat
  BY <1>1, Sizes
<1>5. /\ Taken(i, j) = i /\ Taken(i, start) = i + 1
      /\ Used(h, i, start) = Used(h, i, j) /\ Column(h, start) = Column(h, j)
  BY <1>2 DEF Taken, Used, Column
<1>6. Stream(s1, InputSeq, Taken(i, start), ni) /\ x = At(InputSeq, i)
  BY <1>1, <1>4, <1>5, StreamTakes, StreamHead
<1> QED BY <1>1, <1>2, <1>3, <1>5, <1>6 DEF Feeding

\* One more product in an accumulator.
Added(acc, j, v) == [acc EXCEPT ![j] = Append(@, v)]

\* One sum has one more term.
LEMMA AddedIs ==
  ASSUME NEW acc, IsAcc(acc), NEW j, j \in 0 .. Outputs - 1, NEW v
  PROVE  /\ IsAcc(Added(acc, j, v))
         /\ Longer(Added(acc, j, v)[j], acc[j], v) /\ IsSeq(acc[j])
         /\ \A m \in 0 .. Outputs - 1 : m # j => Added(acc, j, v)[m] = acc[m]
<1>1. IsSeq(acc[j])
  BY DEF IsAcc
<1>2. Longer(Append(acc[j], v), acc[j], v)
  BY <1>1, SeqAppend
<1>3. Added(acc, j, v) = [m \in 0 .. Outputs - 1 |-> IF m = j THEN Append(acc[j], v) ELSE acc[m]]
  BY DEF Added, IsAcc
<1>4. IsSeq(Append(acc[j], v))
  BY <1>2 DEF Longer
<1>5. IsAcc(Added(acc, j, v))
  BY <1>3, <1>4 DEF IsAcc
<1> QED BY <1>1, <1>2, <1>3, <1>5

\* The next sum has the next term.
LEMMA SumsNext ==
  ASSUME NEW h \in Harts, NEW acc, IsAcc(acc), NEW n, n \in Nat, NEW j,
         j \in Low(h) .. High(h) - 1, Sums(h, acc, n, j),
         NEW acc1, acc1 = Added(acc, j, At(TermSeq(j), n))
  PROVE  Sums(h, acc1, n, j + 1) /\ IsAcc(acc1)
<1>1. /\ Low(h) \in Nat /\ High(h) \in Nat /\ Low(h) < High(h) /\ High(h) <= Outputs
      /\ Outputs \in Nat
  <2>1. Width \in Nat \ {0} /\ Low(h) \in Nat /\ High(h) = Low(h) + Width
        /\ High(h) <= Outputs
    BY OutputHalf
  <2> HIDE DEF Width
  <2> QED BY <2>1, Sizes
<1>2. j \in 0 .. Outputs - 1 /\ j \in Nat
  BY <1>1
<1>3. /\ IsAcc(acc1) /\ Longer(acc1[j], acc[j], At(TermSeq(j), n)) /\ IsSeq(acc[j])
      /\ \A m \in 0 .. Outputs - 1 : m # j => acc1[m] = acc[m]
  BY <1>2, AddedIs
<1>4. ASSUME NEW m, m \in Low(h) .. High(h) - 1
      PROVE  Stream(acc1[m], TermSeq(m), 0, Count(m, n, j + 1))
  <2>1. Stream(acc[m], TermSeq(m), 0, Count(m, n, j))
    BY <1>4 DEF Sums
  <2>2. CASE m = j
    <3>1. Count(m, n, j) = n /\ Count(m, n, j + 1) = n + 1
      BY <1>2, <2>2 DEF Count
    <3>2. Stream(acc1[j], TermSeq(j), 0, n + 1)
      BY <1>3, <2>1, <2>2, <3>1, StreamSends
    <3> QED BY <2>2, <3>1, <3>2
  <2>3. CASE m # j
    <3>1. Count(m, n, j) = Count(m, n, j + 1)
      BY <1>1, <1>2, <1>4, <2>3 DEF Count
    <3>2. acc1[m] = acc[m]
      BY <1>1, <1>3, <1>4, <2>3
    <3> QED BY <2>1, <3>1, <3>2
  <2> QED BY <2>2, <2>3
<1> QED BY <1>3, <1>4 DEF Sums

\* After the last sum the next input begins.
LEMMA SumsWrap ==
  ASSUME NEW h \in Harts, NEW acc, NEW n, Sums(h, acc, n, High(h))
  PROVE  Sums(h, acc, n + 1, Low(h))
<1>1. Low(h) \in Nat /\ High(h) \in Nat
  BY OutputHalf
<1>2. ASSUME NEW m, m \in Low(h) .. High(h) - 1
      PROVE  Stream(acc[m], TermSeq(m), 0, Count(m, n + 1, Low(h)))
  <2>1. Stream(acc[m], TermSeq(m), 0, Count(m, n, High(h)))
    BY <1>2 DEF Sums
  <2>2. Count(m, n, High(h)) = n + 1 /\ Count(m, n + 1, Low(h)) = n + 1
    BY <1>1, <1>2 DEF Count
  <2> QED BY <2>1, <2>2
<1> QED BY <1>2 DEF Sums

\* The weight that Fully_Connect reads, and its place in the accumulators.
Weighed(h, w, w1, i, j, nf, source, acc, acc1) ==
  /\ Stream(w1, FactorSeq(h), Block(i) + ((j - Low(h)) + 1), nf) /\ IsSeq(w1)
  /\ Sums(h, acc1, i, j + 1) /\ IsAcc(acc1)
  /\ Block(i) \in Nat /\ Block(i + 1) = Block(i) + Width

\* The weight that is taken is the one the sum needs.
LEMMA WeightTaken ==
  ASSUME NEW h \in Harts, NEW i, i \in Nat, NEW j, j \in Low(h) .. High(h) - 1, NEW nf,
         NEW w, IsSeq(w), w # <<>>, Stream(w, FactorSeq(h), Used(h, i, j), nf),
         NEW w1, Shorter(w1, w), NEW source, source = At(InputSeq, i),
         NEW acc, IsAcc(acc), Sums(h, acc, i, j),
         NEW acc1, acc1 = Added(acc, j, <<source, FirstOf(w)>>)
  PROVE  Weighed(h, w, w1, i, j, nf, source, acc, acc1)
<1>1. /\ Width \in Nat \ {0} /\ Low(h) \in Nat /\ High(h) = Low(h) + Width
  BY OutputHalf
<1>2. Block(i) \in Nat /\ Block(i + 1) = Block(i) + Width
  BY BlockNext
<1> HIDE DEF Width
<1>3. j \in Nat /\ j # None /\ j - Low(h) \in 0 .. Width - 1
  BY <1>1 DEF None
<1>4. Used(h, i, j) = Block(i) + (j - Low(h))
  BY <1>3 DEF Used, Column
<1>5. Used(h, i, j) \in Nat /\ Used(h, i, j) + 1 = Block(i) + ((j - Low(h)) + 1)
  BY <1>2, <1>3, <1>4
<1>6. Stream(w1, FactorSeq(h), Used(h, i, j) + 1, nf) /\ FirstOf(w) = At(FactorSeq(h), Used(h, i, j))
  BY <1>5, StreamTakes, StreamHead
<1>7. FirstOf(w) = Weight(j, i)
  <2>1. PICK k : k = j - Low(h)
    OBVIOUS
  <2>2. At(FactorSeq(h), Block(i) + k) = Weight(Low(h) + k, i)
    BY <1>3, <2>1, FactorAt
  <2>3. Low(h) + k = j
    BY <1>1, <1>3, <2>1
  <2> QED BY <1>4, <1>6, <2>1, <2>2, <2>3
<1>8. <<source, FirstOf(w)>> = At(TermSeq(j), i)
  BY <1>7 DEF At, TermSeq, InputSeq
<1>9. Sums(h, acc1, i, j + 1) /\ IsAcc(acc1)
  BY <1>8, SumsNext
<1>10. IsSeq(w1)
  BY DEF Shorter
<1> QED BY <1>2, <1>5, <1>6, <1>9, <1>10 DEF Weighed

\* What Fully_Connect has when it has read a weight.
WeightAdded(acc1, acc, j, source, w) == acc1 = Added(acc, j, <<source, FirstOf(w)>>)
Fed(h, a, port, m, ni, nf, ss, se, s, w, w1, bs, r, start, end, i, j, source, bias, acc, acc1) ==
  /\ j + 1 = end => j + 1 = High(h)
  /\ j + 1 # end =>
       Feeding(h, a, port, m, ni, nf, ss, se, s, w1, bs, r,
               start, end, i, j + 1, source, bias, acc1)
  /\ j + 1 = end /\ i + 1 # Inputs =>
       Feeding(h, a, port, m, ni, nf, ss, se, s, w1, bs, r,
               start, end, i + 1, None, source, bias, acc1)
  /\ Weighed(h, w, w1, i, j, nf, source, acc, acc1)

\* Fully_Connect takes a weight and still accumulates, or has just finished.
LEMMA FeedsWeight ==
  ASSUME NEW h \in Harts, NEW a, NEW port, NEW m, NEW ni, NEW nf,
         NEW ss, NEW se, NEW s, NEW w, NEW bs, NEW r,
         NEW start, NEW end, NEW i, NEW j, NEW source, NEW bias, NEW acc, NEW w1, NEW acc1,
         Feeding(h, a, port, m, ni, nf, ss, se, s, w, bs, r,
                 start, end, i, j, source, bias, acc), IsAcc(acc),
         j # None, IsSeq(w), w # <<>>, Shorter(w1, w),
         WeightAdded(acc1, acc, j, source, w)
  PROVE  Fed(h, a, port, m, ni, nf, ss, se, s, w, w1, bs, r,
             start, end, i, j, source, bias, acc, acc1)
<1>1. /\ Limits(h, port, ss, se, start, end) /\ Stream(s, InputSeq, Taken(i, j), ni)
      /\ Stream(w, FactorSeq(h), Used(h, i, j), nf) /\ Sums(h, acc, i, Column(h, j))
      /\ i \in 0 .. Inputs - 1 /\ end # None /\ j \in Low(h) .. High(h) - 1
      /\ source = At(InputSeq, i)
  BY DEF Feeding
<1>2. start = Low(h) /\ end = High(h)
  BY <1>1, LimitsKnown
<1>3. i \in Nat /\ Inputs \in Nat /\ Column(h, j) = j
  BY <1>1, Sizes DEF Column
<1>4. Weighed(h, w, w1, i, j, nf, source, acc, acc1)
  BY <1>1, <1>3, WeightTaken DEF WeightAdded
<1>5. /\ Width \in Nat \ {0} /\ Low(h) \in Nat /\ High(h) = Low(h) + Width
  BY OutputHalf
<1> HIDE DEF Width
<1>6. CASE j + 1 # end
  <2>1. j + 1 \in Low(h) .. High(h) - 1 /\ j + 1 # None /\ j + 1 \in Nat
    BY <1>1, <1>2, <1>5, <1>6 DEF None
  <2>2. Used(h, i, j + 1) = Block(i) + ((j - Low(h)) + 1)
    <3>1. Used(h, i, j + 1) = Block(i) + ((j + 1) - Low(h))
      BY <2>1 DEF Used, Column
    <3>2. (j + 1) - Low(h) = (j - Low(h)) + 1
      BY <1>1, <1>2, <1>5
    <3> QED BY <3>1, <3>2
  <2>3. Taken(i, j + 1) = Taken(i, j) /\ Column(h, j + 1) = j + 1
    BY <2>1 DEF Taken, Column
  <2>4. Stream(w1, FactorSeq(h), Used(h, i, j + 1), nf) /\ Sums(h, acc1, i, Column(h, j + 1))
    BY <1>4, <2>2, <2>3 DEF Weighed
  <2>5. Feeding(h, a, port, m, ni, nf, ss, se, s, w1, bs, r,
                start, end, i, j + 1, source, bias, acc1)
    BY <1>1, <2>1, <2>3, <2>4 DEF Feeding
  <2> QED BY <1>4, <1>6, <2>5, Zenon DEF Fed
<1>7. CASE j + 1 = end /\ i + 1 # Inputs
  <2>1. j + 1 = High(h) /\ i + 1 \in 0 .. Inputs - 1
    BY <1>1, <1>2, <1>3, <1>7
  <2>2. Sums(h, acc1, i + 1, Low(h))
    BY <1>4, <2>1, SumsWrap DEF Weighed
  <2>3. Block(i + 1) = Block(i) + ((j - Low(h)) + 1) /\ Block(i) \in Nat
    <3>1. (j - Low(h)) + 1 = Width
      BY <1>1, <1>5, <2>1
    <3> QED BY <1>4, <3>1 DEF Weighed
  <2>4. /\ Used(h, i + 1, None) = Block(i) + ((j - Low(h)) + 1)
        /\ Taken(i + 1, None) = Taken(i, j) /\ Column(h, None) = Low(h)
    BY <1>3, <1>5, <2>3, <1>4 DEF Used, Column, Taken, Weighed
  <2>5. Stream(w1, FactorSeq(h), Used(h, i + 1, None), nf)
        /\ Sums(h, acc1, i + 1, Column(h, None))
    BY <1>4, <2>2, <2>4 DEF Weighed
  <2>6. Feeding(h, a, port, m, ni, nf, ss, se, s, w1, bs, r,
                start, end, i + 1, None, source, bias, acc1)
    BY <1>1, <2>1, <2>4, <2>5 DEF Feeding
  <2> QED BY <1>4, <1>7, <2>1, <2>6, Zenon DEF Fed
<1>8. CASE j + 1 = end /\ i + 1 = Inputs
  BY <1>2, <1>4, <1>8, Zenon DEF Fed
<1> QED BY <1>6, <1>7, <1>8

\* The sums are complete when the program has sent everything: the last weight leads
\* to the results.
LEMMA AllSent ==
  ASSUME NEW h \in Harts, NEW a \in Dense, NEW c \in Calls(h), c.acc = a,
         NEW nf, nf = FactorsSent(h, c), NEW ni, ni = InputsSent(c), nf >= Block(Inputs)
  PROVE  c.port \in {"bias", "result"} /\ nf = Block(Inputs) /\ ni = Inputs
<1>1. /\ Width \in Nat \ {0} /\ Low(h) \in Nat /\ High(h) = Low(h) + Width
  BY OutputHalf
<1> HIDE DEF Width
<1>2. Inputs \in Nat \ {0} /\ 0 \in Nat /\ 0 < Inputs /\ Inputs \in Nat
  BY Sizes
<1>3. Block(0) + Width <= Block(Inputs) /\ Block(0) = 0 /\ Block(Inputs) \in Nat
  BY <1>2, BlockLess, BlockNext
<1>4. \A i \in 0 .. Inputs - 1 : Block(i) + Width <= Block(Inputs) /\ Block(i) \in Nat
  <2> TAKE i \in 0 .. Inputs - 1
  <2>1. i \in Nat /\ i < Inputs
    BY <1>2
  <2> QED BY <1>2, <2>1, BlockLess, BlockNext
<1>5. ASSUME NEW port \in {"start", "end"}, c = Call(a, port, 0, 0, 0)
      PROVE  FALSE
  <2>1. nf = 0
    BY <1>5 DEF FactorsSent, Call
  <2> QED BY <1>1, <1>3, <2>1
<1>6. ASSUME NEW i \in 0 .. Inputs - 1, c = Call(a, "source", 0, i, 0)
      PROVE  FALSE
  <2>1. nf = Block(i)
    BY <1>6 DEF FactorsSent, Call
  <2> QED BY <1>1, <1>3, <1>4, <2>1
<1>7. ASSUME NEW m \in Low(h) .. High(h) - 1, NEW i \in 0 .. Inputs - 1,
             c = Call(a, "weight", m, i, 0)
      PROVE  FALSE
  <2>1. nf = Block(i) + (m - Low(h))
    BY <1>7 DEF FactorsSent, Call
  <2> QED BY <1>1, <1>3, <1>4, <2>1
<1>8. ASSUME NEW m, NEW port, port \in {"bias", "result"}, c = Call(a, port, m, 0, 0)
      PROVE  c.port \in {"bias", "result"} /\ nf = Block(Inputs) /\ ni = Inputs
  BY <1>8 DEF FactorsSent, InputsSent, Call
<1> QED BY <1>5, <1>6, <1>7, <1>8, DenseCall

\* The last weight ends the accumulation.
LEMMA FeedingAnswers ==
  ASSUME NEW h \in Harts, NEW a, NEW port, NEW m, NEW ni, NEW nf,
         NEW ss, NEW se, NEW s, NEW w, NEW bs, NEW r,
         NEW start, NEW end, NEW i, NEW j, NEW source, NEW bias, NEW acc, NEW w1, NEW acc1,
         Feeding(h, a, port, m, ni, nf, ss, se, s, w, bs, r,
                 start, end, i, j, source, bias, acc),
         j # None, IsSeq(s), j + 1 = High(h), i + 1 = Inputs,
         port \in {"bias", "result"}, nf = Block(Inputs), ni = Inputs,
         Weighed(h, w, w1, i, j, nf, source, acc, acc1)
  PROVE  Answering(h, a, port, m, ss, se, s, w1, bs, r,
                   start, end, i + 1, start, source, bias, acc1, start)
<1>1. /\ Limits(h, port, ss, se, start, end) /\ Stream(s, InputSeq, Taken(i, j), ni)
      /\ i \in 0 .. Inputs - 1 /\ end # None /\ j \in Low(h) .. High(h) - 1
      /\ bias = <<>> /\ r = <<>> /\ m = Low(h)
  BY DEF Feeding
<1>2. ss = <<>> /\ se = <<>> /\ start = Low(h) /\ end = High(h)
  BY <1>1, LimitsKnown
<1>3. i \in Nat /\ Inputs \in Nat
  BY <1>1, Sizes
<1>4. /\ Width \in Nat \ {0} /\ Low(h) \in Nat /\ High(h) = Low(h) + Width
  BY OutputHalf
<1> HIDE DEF Width
<1>5. Taken(i, j) = Inputs
  BY DEF Taken
<1>6. s = <<>>
  BY <1>1, <1>3, <1>5, StreamEnds
<1>7. w1 = <<>>
  <2>1. Block(i + 1) = Block(i) + ((j - Low(h)) + 1) /\ Block(i + 1) = nf /\ nf \in Nat
    <3>1. (j - Low(h)) + 1 = Width
      BY <1>1, <1>4
    <3>2. Block(i) \in Nat /\ Block(i + 1) = Block(i) + Width
      BY DEF Weighed
    <3> QED BY <1>4, <3>1, <3>2
  <2>2. Stream(w1, FactorSeq(h), nf, nf) /\ IsSeq(w1)
    BY <2>1 DEF Weighed
  <2> QED BY <2>1, <2>2, StreamEnds
<1>8. Sums(h, acc1, Inputs, Low(h))
  <2>1. Sums(h, acc1, i, High(h))
    BY DEF Weighed
  <2> QED BY <2>1, SumsWrap
<1>9. Low(h) \in Low(h) .. High(h) /\ Low(h) < High(h) /\ Low(h) <= Low(h) + 1
  BY <1>4
<1>10. Stream(r, OutputSeq(a), Low(h), Low(h))
  BY <1>1, <1>4, StreamEmpty
<1>11. IF a = "fc3" /\ port = "result" THEN One(bs, Bias(Low(h))) ELSE bs = <<>>
  BY DEF Feeding
<1> QED BY <1>1, <1>2, <1>6, <1>7, <1>8, <1>9, <1>10, <1>11 DEF Answering

\* FC_3 reads the bias of an output.
LEMMA AnswersBias ==
  ASSUME NEW h, NEW port, NEW m, NEW ss, NEW se, NEW s, NEW w, NEW bs, NEW r,
         NEW start, NEW end, NEW i, NEW j, NEW source, NEW bias, NEW acc, NEW n, NEW bs1, NEW x,
         Answering(h, "fc3", port, m, ss, se, s, w, bs, r,
                   start, end, i, j, source, bias, acc, n),
         i = Inputs, bias = <<>>, bs # <<>>, Shorter(bs1, bs), x = FirstOf(bs)
  PROVE  Answering(h, "fc3", port, m, ss, se, s, w, bs1, r,
                   start, end, i, j, source, x, acc, n)
<1>1. port = "result" /\ n = m /\ One(bs, Bias(m))
  BY DEF Answering
<1>2. bs1 = <<>> /\ x = Bias(m)
  BY <1>1, OneTaken
<1>3. Fully(start, end, i, j, source, bias, acc) # IdleDense
  <2>1. PICK z : IdleDense = Fully(None, None, 0, None, <<>>, <<>>, z)
    BY IdleIs
  <2>2. Inputs # 0
    BY Sizes
  <2> QED BY <2>1, <2>2 DEF Fully
<1> QED BY <1>1, <1>2, <1>3 DEF Answering

\* The sum of products of an output, and its bias.
Answer(terms, bias) == [terms |-> terms, bias |-> bias]

Terms(m) == [n \in 1 .. Inputs |-> <<<<"source", n - 1>>, Weight(m, n - 1)>>]

\* A complete sum is the golden one.
LEMMA TermsAre ==
  ASSUME NEW m, NEW t, IsSeq(t), Stream(t, TermSeq(m), 0, Inputs)
  PROVE  t = Terms(m)
<1>1. Len(t) = Inputs /\ Inputs \in Nat
  BY SeqLen, Sizes DEF Stream
<1>2. ASSUME NEW n, n \in 1 .. Inputs
      PROVE  t[n] = <<<<"source", n - 1>>, Weight(m, n - 1)>>
  <2>1. t[n] = At(TermSeq(m), 0 + (n - 1)) /\ 0 + (n - 1) = n - 1 /\ n - 1 \in Nat
    BY <1>1, <1>2 DEF Stream
  <2>2. At(TermSeq(m), n - 1) = <<<<"source", n - 1>>, Weight(m, n - 1)>>
    BY <2>1 DEF At, TermSeq
  <2> QED BY <2>1, <2>2
<1>3. t = [n \in 1 .. Inputs |-> t[n]]
  BY <1>1 DEF IsSeq
<1> QED BY <1>2, <1>3 DEF Terms

\* Fully_Connect writes a result, and after the last one is idle.
LEMMA AnswersResult ==
  ASSUME NEW h \in Harts, NEW a \in Dense, NEW port, NEW m, m \in Low(h) .. High(h) - 1,
         NEW ss, NEW se, NEW s, NEW w, NEW bs, NEW r, IsSeq(r),
         NEW start, NEW end, NEW i, NEW j, NEW source, NEW bias, NEW acc, NEW n, NEW r1,
         Answering(h, a, port, m, ss, se, s, w, bs, r,
                   start, end, i, j, source, bias, acc, n), IsAcc(acc),
         i = Inputs, a = "fc3" => bias # <<>>, Longer(r1, r, Answer(acc[j], bias)),
         NEW z, IdleDense = Fully(None, None, 0, None, <<>>, <<>>, z)
  PROVE  /\ j + 1 = end =>
              Answering(h, a, port, m, ss, se, s, w, bs, r1,
                        None, None, 0, None, <<>>, <<>>, z, n + 1)
         /\ j + 1 # end =>
              Answering(h, a, port, m, ss, se, s, w, bs, r1,
                        start, end, i, j + 1, source, <<>>, acc, n + 1)
<1>1. Fully(start, end, i, j, source, bias, acc) # IdleDense
  <2>1. Inputs # 0
    BY Sizes
  <2> QED BY <2>1 DEF Fully
<1>2. /\ n < High(h) /\ j = n /\ start = Low(h) /\ end = High(h) /\ Sums(h, acc, Inputs, Low(h))
      /\ port \in {"bias", "result"} /\ ss = <<>> /\ se = <<>> /\ s = <<>> /\ w = <<>>
      /\ n \in m .. High(h) /\ Stream(r, OutputSeq(a), m, n)
  BY <1>1 DEF Answering
<1>3. a = "fc3" => port = "result" /\ n = m /\ bs = <<>> /\ bias = Bias(m)
  BY DEF Answering
<1>4. a = "fc1" => bs = <<>> /\ bias = <<>>
  BY DEF Answering
<1>5. a = "fc1" \/ a = "fc3"
  BY DEF Dense
<1>6. High(h) \in Nat /\ n \in Nat
  <2>1. High(h) \in Nat /\ Low(h) \in Nat
    BY OutputHalf
  <2> QED BY <1>2, <2>1
<1>7. Answer(acc[j], bias) = DenseOutput(a, n)
  <2>1. PICK t : t = acc[n]
    OBVIOUS
  <2>2. /\ Low(h) \in Nat /\ High(h) <= Outputs /\ Outputs \in Nat
    BY OutputHalf, Sizes
  <2>3. n \in Low(h) .. High(h) - 1 /\ n \in 0 .. Outputs - 1
    BY <1>2, <1>6, <2>2
  <2>4. IsSeq(t)
    BY <2>1, <2>3 DEF IsAcc
  <2>5. Stream(t, TermSeq(n), 0, Inputs)
    <3>1. Count(n, Inputs, Low(h)) = Inputs
      BY <2>2, <2>3 DEF Count
    <3> QED BY <1>2, <2>1, <2>3, <3>1 DEF Sums
  <2>6. t = Terms(n)
    BY <2>4, <2>5, TermsAre
  <2>7. DenseOutput(a, n) = Answer(Terms(n), IF a = "fc3" THEN Bias(n) ELSE <<>>)
    BY Zenon DEF DenseOutput, Answer, Terms, Bias
  <2>8. bias = IF a = "fc3" THEN Bias(n) ELSE <<>>
    BY <1>3, <1>4, <1>5
  <2> QED BY <1>2, <2>1, <2>6, <2>7, <2>8, Zenon
<1>8. Stream(r1, OutputSeq(a), m, n + 1)
  <2>1. Longer(r1, r, At(OutputSeq(a), n))
    <3>1. At(OutputSeq(a), n) = DenseOutput(a, n)
      BY <1>6 DEF At, OutputSeq
    <3> QED BY <1>7, <3>1
  <2>2. m \in Nat
    BY OutputHalf
  <2> QED BY <1>2, <2>1, <2>2, StreamSends
<1>9. m \in Nat /\ n + 1 \in m .. High(h) /\ n + 1 # m
  <2>1. Low(h) \in Nat
    BY OutputHalf
  <2> QED BY <1>2, <1>6, <2>1
<1>10. bs = <<>>
  BY <1>3, <1>4, <1>5
<1>11. a = "fc3" => n + 1 <= m + 1 /\ port # "bias"
  BY <1>3, <1>9
<1>12. CASE j + 1 = end
  <2>1. n + 1 = High(h)
    BY <1>2, <1>12
  <2> QED BY <1>2, <1>8, <1>9, <1>10, <1>11, <1>12, <2>1 DEF Answering
<1>13. CASE j + 1 # end
  <2>1. n + 1 < High(h) /\ j + 1 = n + 1
    BY <1>2, <1>6, <1>13
  <2> QED BY <1>2, <1>8, <1>9, <1>10, <1>11, <1>13, <2>1 DEF Answering
<1> QED BY <1>12, <1>13

-----------------------------------------------------------------------------
(***************************************************************************)
(* The same steps, of the relation between the program and a dense layer.  *)
(***************************************************************************)
\* The relation when the program is at port with output m.
Relation(h, a, port, m, ni, nf, ss, se, s, w, bs, r, start, end, i, j, source, bias, acc) ==
  \/ Feeding(h, a, port, m, ni, nf, ss, se, s, w, bs, r, start, end, i, j, source, bias, acc)
  \/ \E n \in 0 .. High(h) :
       Answering(h, a, port, m, ss, se, s, w, bs, r, start, end, i, j, source, bias, acc, n)

\* The invariant of a layer by the variables of Fully_Connect.
LEMMA DenseOfIs ==
  ASSUME NEW h, NEW a, NEW c, c.acc = a, NEW ss, NEW se, NEW s, NEW w, NEW bs, NEW r,
         NEW start, NEW end, NEW i, NEW j, NEW source, NEW bias, NEW acc,
         NEW f, f = Fully(start, end, i, j, source, bias, acc)
  PROVE  DenseOf(h, a, c, ss, se, s, w, bs, r, f) <=>
         Relation(h, a, c.port, c.m, InputsSent(c), FactorsSent(h, c), ss, se, s, w, bs, r,
                  start, end, i, j, source, bias, acc)
<1>1. /\ f.start = start /\ f.end = end /\ f.i = i /\ f.j = j /\ f.source = source
      /\ f.bias = bias /\ f.acc = acc
  BY DEF Fully
<1> QED BY <1>1, Zenon DEF DenseOf, Relation

\* The same at a call of the layer.
LEMMA DenseOfCall ==
  ASSUME NEW h, NEW a, NEW port, NEW m, NEW p, NEW c, c = Call(a, port, m, p, 0),
         NEW ni, ni = InputsSent(c), NEW nf, nf = FactorsSent(h, c),
         NEW ss, NEW se, NEW s, NEW w, NEW bs, NEW r,
         NEW start, NEW end, NEW i, NEW j, NEW source, NEW bias, NEW acc,
         NEW f, f = Fully(start, end, i, j, source, bias, acc)
  PROVE  DenseOf(h, a, c, ss, se, s, w, bs, r, f) <=>
         Relation(h, a, port, m, ni, nf, ss, se, s, w, bs, r,
                  start, end, i, j, source, bias, acc)
<1>1. c.acc = a /\ c.port = port /\ c.m = m
  BY DEF Call
<1>2. DenseOf(h, a, c, ss, se, s, w, bs, r, f) <=>
         Relation(h, a, c.port, c.m, InputsSent(c), FactorsSent(h, c), ss, se, s, w, bs, r,
                  start, end, i, j, source, bias, acc)
  BY <1>1, DenseOfIs
<1> QED BY <1>1, <1>2, Zenon

\* A layer rests unless the program is in it.
LEMMA Resting ==
  ASSUME NEW h, NEW a, NEW c, c.acc # a, NEW ss, NEW se, NEW s, NEW w, NEW bs, NEW r, NEW f
  PROVE  DenseOf(h, a, c, ss, se, s, w, bs, r, f) <=> DenseResting(ss, se, s, w, bs, r, f)
BY Zenon DEF DenseOf

\* The program goes on to the layer, or stays away from it.
LEMMA DenseArrives ==
  ASSUME NEW h \in Harts, NEW a, NEW c, c.acc # a, NEW d,
         d.acc # a \/ d = Call(a, "start", 0, 0, 0),
         NEW ss, NEW se, NEW s, NEW w, NEW bs, NEW r, NEW f, IsDense(f),
         DenseOf(h, a, c, ss, se, s, w, bs, r, f)
  PROVE  DenseOf(h, a, d, ss, se, s, w, bs, r, f)
<1>1. PICK start, end, i, j, source, bias, acc : f = Fully(start, end, i, j, source, bias, acc)
  BY FullyFields
<1>2. DenseResting(ss, se, s, w, bs, r, f)
  BY Resting
<1>3. CASE d.acc # a
  BY <1>2, <1>3, Resting
<1>4. CASE d = Call(a, "start", 0, 0, 0)
  <2>1. Feeding(h, a, "start", 0, 0, 0, ss, se, s, w, bs, r,
                start, end, i, j, source, bias, acc)
    BY <1>1, <1>2, RestingFeeds
  <2>2. InputsSent(d) = 0 /\ FactorsSent(h, d) = 0
    BY <1>4 DEF InputsSent, FactorsSent, Call
  <2>3. Relation(h, a, "start", 0, 0, 0, ss, se, s, w, bs, r,
                 start, end, i, j, source, bias, acc)
    BY <2>1, Zenon DEF Relation
  <2> QED BY <1>1, <1>4, <2>2, <2>3, DenseOfCall
<1> QED BY <1>3, <1>4

\* The program sends to the layer.
LEMMA SendStart ==
  ASSUME NEW h \in Harts, NEW a \in Dense, NEW c, c = Call(a, "start", 0, 0, 0),
         NEW ss, NEW se, NEW s, NEW w, NEW bs, NEW r, NEW f, IsDense(f),
         DenseOf(h, a, c, ss, se, s, w, bs, r, f), NEW ss1, Longer(ss1, ss, Value(h, c))
  PROVE  DenseOf(h, a, NextDense(h, c), ss1, se, s, w, bs, r, f)
<1>1. PICK start, end, i, j, source, bias, acc : f = Fully(start, end, i, j, source, bias, acc)
  BY FullyFields
<1>2. InputsSent(c) = 0 /\ FactorsSent(h, c) = 0 /\ Value(h, c) = Low(h)
  BY DEF InputsSent, FactorsSent, Call, Value, Low
<1>3. PICK d : d = Call(a, "end", 0, 0, 0)
  OBVIOUS
<1>4. NextDense(h, c) = d /\ InputsSent(d) = 0 /\ FactorsSent(h, d) = 0
  <2>1. NextDense(h, c) = d
    BY <1>3, NextStart
  <2> QED BY <1>3, <2>1 DEF InputsSent, FactorsSent, Call
<1>5. Relation(h, a, "start", 0, 0, 0, ss, se, s, w, bs, r,
               start, end, i, j, source, bias, acc)
  BY <1>1, <1>2, DenseOfCall
<1>6. Feeding(h, a, "start", 0, 0, 0, ss, se, s, w, bs, r,
              start, end, i, j, source, bias, acc)
  BY <1>5 DEF Relation, Answering
<1>7. Feeding(h, a, "end", 0, 0, 0, ss1, se, s, w, bs, r,
              start, end, i, j, source, bias, acc)
  BY <1>2, <1>6, FeedingStart
<1>8. Relation(h, a, "end", 0, 0, 0, ss1, se, s, w, bs, r,
               start, end, i, j, source, bias, acc)
  BY <1>7, Zenon DEF Relation
<1>9. DenseOf(h, a, d, ss1, se, s, w, bs, r, f)
  BY <1>1, <1>3, <1>4, <1>8, DenseOfCall
<1> QED BY <1>4, <1>9

\* The program sends end and the layer keeps its invariant.
LEMMA SendEnd ==
  ASSUME NEW h \in Harts, NEW a \in Dense, NEW c, c = Call(a, "end", 0, 0, 0),
         NEW ss, NEW se, NEW s, NEW w, NEW bs, NEW r, NEW f, IsDense(f),
         DenseOf(h, a, c, ss, se, s, w, bs, r, f), NEW se1, Longer(se1, se, Value(h, c))
  PROVE  DenseOf(h, a, NextDense(h, c), ss, se1, s, w, bs, r, f)
<1>1. PICK start, end, i, j, source, bias, acc : f = Fully(start, end, i, j, source, bias, acc)
  BY FullyFields
<1>2. InputsSent(c) = 0 /\ FactorsSent(h, c) = 0 /\ Value(h, c) = High(h)
  BY DEF InputsSent, FactorsSent, Call, Value, High
<1>3. PICK d : d = Call(a, "source", 0, 0, 0)
  OBVIOUS
<1>4. NextDense(h, c) = d /\ InputsSent(d) = 0 /\ FactorsSent(h, d) = 0
  <2>1. NextDense(h, c) = d
    BY <1>3, NextStart
  <2>2. Block(0) = 0
    BY BlockNext
  <2> QED BY <1>3, <2>1, <2>2 DEF InputsSent, FactorsSent, Call
<1>5. Relation(h, a, "end", 0, 0, 0, ss, se, s, w, bs, r,
               start, end, i, j, source, bias, acc)
  BY <1>1, <1>2, DenseOfCall
<1>6. Feeding(h, a, "end", 0, 0, 0, ss, se, s, w, bs, r,
              start, end, i, j, source, bias, acc)
  BY <1>5 DEF Relation, Answering
<1>7. Feeding(h, a, "source", 0, 0, 0, ss, se1, s, w, bs, r,
              start, end, i, j, source, bias, acc)
  BY <1>2, <1>6, FeedingEnd
<1>8. Relation(h, a, "source", 0, 0, 0, ss, se1, s, w, bs, r,
               start, end, i, j, source, bias, acc)
  BY <1>7, Zenon DEF Relation
<1>9. DenseOf(h, a, d, ss, se1, s, w, bs, r, f)
  BY <1>1, <1>3, <1>4, <1>8, DenseOfCall
<1> QED BY <1>4, <1>9

\* The program sends an input and the layer keeps its invariant.
LEMMA SendSource ==
  ASSUME NEW h \in Harts, NEW a \in Dense, NEW p, p \in Nat, NEW c, c = Call(a, "source", 0, p, 0),
         NEW ss, NEW se, NEW s, IsSeq(s), NEW w, NEW bs, NEW r, NEW f, IsDense(f),
         DenseOf(h, a, c, ss, se, s, w, bs, r, f), NEW s1, Longer(s1, s, Value(h, c))
  PROVE  DenseOf(h, a, NextDense(h, c), ss, se, s1, w, bs, r, f)
<1>1. PICK start, end, i, j, source, bias, acc : f = Fully(start, end, i, j, source, bias, acc)
  BY FullyFields
<1>2. InputsSent(c) = p /\ FactorsSent(h, c) = Block(p) /\ Value(h, c) = At(InputSeq, p)
  BY DEF InputsSent, FactorsSent, Call, Value, InputSeq, At, Dense
<1>3. PICK d : d = Call(a, "weight", Low(h), p, 0)
  OBVIOUS
<1>4. NextDense(h, c) = d /\ InputsSent(d) = p + 1 /\ FactorsSent(h, d) = Block(p)
  <2>1. NextDense(h, c) = d
    BY <1>3, NextSource
  <2>2. Block(p) \in Nat /\ Low(h) \in Nat
    BY BlockNext, OutputHalf
  <2>3. FactorsSent(h, d) = Block(p) + (Low(h) - Low(h)) /\ InputsSent(d) = p + 1
    BY <1>3 DEF InputsSent, FactorsSent, Call
  <2> QED BY <2>1, <2>2, <2>3
<1>5. Relation(h, a, "source", 0, p, Block(p), ss, se, s, w, bs, r,
               start, end, i, j, source, bias, acc)
  BY <1>1, <1>2, DenseOfCall
<1>6. Feeding(h, a, "source", 0, p, Block(p), ss, se, s, w, bs, r,
              start, end, i, j, source, bias, acc)
  BY <1>5 DEF Relation, Answering
<1>7. Feeding(h, a, "weight", Low(h), p + 1, Block(p), ss, se, s1, w, bs, r,
              start, end, i, j, source, bias, acc)
  BY <1>2, <1>6, FeedingSource
<1>8. Relation(h, a, "weight", Low(h), p + 1, Block(p), ss, se, s1, w, bs, r,
               start, end, i, j, source, bias, acc)
  BY <1>7, Zenon DEF Relation
<1>9. DenseOf(h, a, d, ss, se, s1, w, bs, r, f)
  BY <1>1, <1>3, <1>4, <1>8, DenseOfCall
<1> QED BY <1>4, <1>9

\* The program sends a weight and the layer keeps its invariant.
LEMMA SendWeight ==
  ASSUME NEW h \in Harts, NEW a \in Dense, NEW m, m \in Low(h) .. High(h) - 1,
         NEW p, p \in 0 .. Inputs - 1, NEW c, c = Call(a, "weight", m, p, 0),
         NEW ss, NEW se, NEW s, NEW w, IsSeq(w), NEW bs, NEW r, NEW f, IsDense(f),
         DenseOf(h, a, c, ss, se, s, w, bs, r, f), NEW w1, Longer(w1, w, Value(h, c))
  PROVE  DenseOf(h, a, NextDense(h, c), ss, se, s, w1, bs, r, f)
<1>1. PICK start, end, i, j, source, bias, acc : f = Fully(start, end, i, j, source, bias, acc)
  BY FullyFields
<1>2. /\ Width \in Nat \ {0} /\ Low(h) \in Nat /\ High(h) = Low(h) + Width
  BY OutputHalf
<1>3. p \in Nat /\ Inputs \in Nat
  BY Sizes
<1>4. Block(p) \in Nat /\ Block(p + 1) = Block(p) + Width
  BY <1>3, BlockNext
<1> HIDE DEF Width
<1>5. PICK nf : nf = Block(p) + (m - Low(h))
  OBVIOUS
<1>6. InputsSent(c) = p + 1 /\ FactorsSent(h, c) = nf
  BY <1>5 DEF InputsSent, FactorsSent, Call
<1>7. Value(h, c) = At(FactorSeq(h), nf)
  <2>1. PICK k : k = m - Low(h)
    OBVIOUS
  <2>2. At(FactorSeq(h), Block(p) + k) = Weight(Low(h) + k, p)
    <3>1. k \in 0 .. Width - 1
      BY <1>2, <2>1
    <3> QED BY <1>3, <3>1, FactorAt
  <2>3. Low(h) + k = m
    BY <1>2, <2>1
  <2>4. Value(h, c) = Weight(m, p)
    BY DEF Value, Call, Dense
  <2> QED BY <1>5, <2>1, <2>2, <2>3, <2>4
<1>8. Feeding(h, a, "weight", m, p + 1, nf, ss, se, s, w, bs, r,
              start, end, i, j, source, bias, acc)
  <2>1. Relation(h, a, "weight", m, p + 1, nf, ss, se, s, w, bs, r,
                 start, end, i, j, source, bias, acc)
    BY <1>1, <1>6, DenseOfCall
  <2> QED BY <2>1 DEF Relation, Answering
<1>9. \A port, n : (port \in {"weight", "source"} \/ (port \in {"bias", "result"} /\ n = Low(h)))
                   /\ (a = "fc3" => port # "result") =>
        Relation(h, a, port, n, p + 1, nf + 1, ss, se, s, w1, bs, r,
                 start, end, i, j, source, bias, acc)
  <2> SUFFICES ASSUME NEW port, NEW n,
                      port \in {"weight", "source"} \/ (port \in {"bias", "result"} /\ n = Low(h)),
                      a = "fc3" => port # "result"
               PROVE  Relation(h, a, port, n, p + 1, nf + 1, ss, se, s, w1, bs, r,
                               start, end, i, j, source, bias, acc)
    OBVIOUS
  <2>1. Feeding(h, a, port, n, p + 1, nf + 1, ss, se, s, w1, bs, r,
                start, end, i, j, source, bias, acc)
    BY <1>7, <1>8, FeedingWeight
  <2> QED BY <2>1, Zenon DEF Relation
<1>10. ASSUME NEW port, NEW n, NEW x, NEW d, d = Call(a, port, n, x, 0), NextDense(h, c) = d,
              InputsSent(d) = p + 1, FactorsSent(h, d) = nf + 1,
              port \in {"weight", "source"} \/ (port \in {"bias", "result"} /\ n = Low(h)),
              a = "fc3" => port # "result"
       PROVE  DenseOf(h, a, NextDense(h, c), ss, se, s, w1, bs, r, f)
  <2>1. Relation(h, a, port, n, p + 1, nf + 1, ss, se, s, w1, bs, r,
                 start, end, i, j, source, bias, acc)
    BY <1>9, <1>10
  <2>2. DenseOf(h, a, d, ss, se, s, w1, bs, r, f)
    BY <1>1, <1>10, <2>1, DenseOfCall
  <2> QED BY <1>10, <2>2
<1>11. CASE m + 1 < High(h)
  <2>1. PICK d : d = Call(a, "weight", m + 1, p, 0)
    OBVIOUS
  <2>2. NextDense(h, c) = d
    BY <1>2, <1>3, <1>11, <2>1, NextWeight
  <2>3. InputsSent(d) = p + 1 /\ FactorsSent(h, d) = Block(p) + ((m + 1) - Low(h))
    BY <2>1 DEF InputsSent, FactorsSent, Call
  <2>4. Block(p) + ((m + 1) - Low(h)) = nf + 1
    BY <1>2, <1>4, <1>5
  <2> QED BY <1>10, <2>1, <2>2, <2>3, <2>4
<1>12. CASE ~(m + 1 < High(h)) /\ p + 1 < Inputs
  <2>1. PICK d : d = Call(a, "source", 0, p + 1, 0)
    OBVIOUS
  <2>2. NextDense(h, c) = d
    BY <1>2, <1>3, <1>12, <2>1, NextWeight
  <2>3. InputsSent(d) = p + 1 /\ FactorsSent(h, d) = Block(p + 1)
    BY <2>1 DEF InputsSent, FactorsSent, Call
  <2>4. Block(p + 1) = nf + 1
    BY <1>2, <1>4, <1>5, <1>12
  <2> QED BY <1>10, <2>1, <2>2, <2>3, <2>4
<1>13. CASE ~(m + 1 < High(h)) /\ ~(p + 1 < Inputs)
  <2>1. PICK port : port = IF a = "fc3" THEN "bias" ELSE "result"
    OBVIOUS
  <2>2. PICK d : d = Call(a, port, Low(h), 0, 0)
    OBVIOUS
  <2>3. NextDense(h, c) = d
    <3>1. NextDense(h, c) = OutputCall(a, Low(h))
      BY <1>2, <1>3, <1>13, NextWeight
    <3> QED BY <2>1, <2>2, <3>1 DEF OutputCall
  <2>4. port \in {"bias", "result"} /\ (a = "fc3" => port # "result")
    BY <2>1
  <2>5. InputsSent(d) = Inputs /\ FactorsSent(h, d) = Block(Inputs)
    BY <2>2, <2>4 DEF InputsSent, FactorsSent, Call
  <2>6. p + 1 = Inputs
    BY <1>3, <1>13
  <2>7. Block(Inputs) = nf + 1
    <3>1. Block(p + 1) = nf + 1
      BY <1>2, <1>4, <1>5, <1>13
    <3> QED BY <2>6, <3>1
  <2> QED BY <1>10, <2>2, <2>3, <2>4, <2>5, <2>6, <2>7
<1> QED BY <1>11, <1>12, <1>13

\* The program sends a bias and the layer keeps its invariant.
LEMMA SendBias ==
  ASSUME NEW h \in Harts, NEW m, NEW c, c = Call("fc3", "bias", m, 0, 0),
         NEW ss, NEW se, NEW s, NEW w, NEW bs, NEW r, NEW f, IsDense(f),
         DenseOf(h, "fc3", c, ss, se, s, w, bs, r, f), NEW bs1, Longer(bs1, bs, Value(h, c))
  PROVE  DenseOf(h, "fc3", NextDense(h, c), ss, se, s, w, bs1, r, f)
<1>1. PICK start, end, i, j, source, bias, acc : f = Fully(start, end, i, j, source, bias, acc)
  BY FullyFields
<1>2. InputsSent(c) = Inputs /\ FactorsSent(h, c) = Block(Inputs) /\ Value(h, c) = Bias(m)
  BY DEF InputsSent, FactorsSent, Call, Value, Bias
<1>3. PICK d : d = Call("fc3", "result", m, 0, 0)
  OBVIOUS
<1>4. NextDense(h, c) = d /\ InputsSent(d) = Inputs /\ FactorsSent(h, d) = Block(Inputs)
  <2>1. NextDense(h, c) = d
    BY <1>3, NextBias
  <2> QED BY <1>3, <2>1 DEF InputsSent, FactorsSent, Call
<1>5. Relation(h, "fc3", "bias", m, Inputs, Block(Inputs), ss, se, s, w, bs, r,
               start, end, i, j, source, bias, acc)
  BY <1>1, <1>2, DenseOfCall
<1>6. Relation(h, "fc3", "result", m, Inputs, Block(Inputs), ss, se, s, w, bs1, r,
               start, end, i, j, source, bias, acc)
  <2>1. CASE Feeding(h, "fc3", "bias", m, Inputs, Block(Inputs), ss, se, s, w, bs, r,
                     start, end, i, j, source, bias, acc)
    <3>1. Feeding(h, "fc3", "result", m, Inputs, Block(Inputs), ss, se, s, w, bs1, r,
                  start, end, i, j, source, bias, acc)
      BY <1>2, <2>1, FeedingBias
    <3> QED BY <3>1, Zenon DEF Relation
  <2>2. ASSUME NEW n \in 0 .. High(h),
               Answering(h, "fc3", "bias", m, ss, se, s, w, bs, r,
                         start, end, i, j, source, bias, acc, n)
        PROVE  Relation(h, "fc3", "result", m, Inputs, Block(Inputs), ss, se, s, w, bs1, r,
                        start, end, i, j, source, bias, acc)
    <3>1. Answering(h, "fc3", "result", m, ss, se, s, w, bs1, r,
                    start, end, i, j, source, bias, acc, n)
      BY <1>2, <2>2, AnsweringBias
    <3> QED BY <3>1, Zenon DEF Relation
  <2> QED BY <1>5, <2>1, <2>2, Zenon DEF Relation
<1>7. DenseOf(h, "fc3", d, ss, se, s, w, bs1, r, f)
  BY <1>1, <1>3, <1>4, <1>6, DenseOfCall
<1> QED BY <1>4, <1>7

\* The program reads a result.
LEMMA ReadResult ==
  ASSUME NEW h \in Harts, NEW a \in Dense, NEW m, m \in Low(h) .. High(h) - 1,
         NEW c, c = Call(a, "result", m, 0, 0),
         NEW ss, NEW se, NEW s, NEW w, NEW bs, NEW r, IsSeq(r), r # <<>>, NEW f, IsDense(f),
         DenseOf(h, a, c, ss, se, s, w, bs, r, f), NEW r1, Shorter(r1, r)
  PROVE  /\ DenseOf(h, a, NextDense(h, c), ss, se, s, w, bs, r1, f)
         /\ FirstOf(r) = DenseOutput(a, m)
<1>1. PICK start, end, i, j, source, bias, acc : f = Fully(start, end, i, j, source, bias, acc)
  BY FullyFields
<1>2. InputsSent(c) = Inputs /\ FactorsSent(h, c) = Block(Inputs)
  BY DEF InputsSent, FactorsSent, Call
<1>3. m \in Nat
  <2>1. Low(h) \in Nat
    BY OutputHalf
  <2> QED BY <2>1
<1>4. PICK port : port = "result"
  OBVIOUS
<1>5. Relation(h, a, port, m, Inputs, Block(Inputs), ss, se, s, w, bs, r,
               start, end, i, j, source, bias, acc)
  BY <1>1, <1>2, <1>4, DenseOfCall
<1>6. ~Feeding(h, a, port, m, Inputs, Block(Inputs), ss, se, s, w, bs, r,
               start, end, i, j, source, bias, acc)
  BY DEF Feeding
<1>7. PICK n \in 0 .. High(h) :
        Answering(h, a, port, m, ss, se, s, w, bs, r, start, end, i, j, source, bias, acc, n)
  BY <1>5, <1>6, Zenon DEF Relation
<1>8. FirstOf(r) = DenseOutput(a, m)
  BY <1>3, <1>7, AnsweringHead
<1>9. CASE m + 1 < High(h)
  <2>1. PICK q : q = IF a = "fc3" THEN "bias" ELSE "result"
    OBVIOUS
  <2>2. PICK d : d = Call(a, q, m + 1, 0, 0)
    OBVIOUS
  <2>3. NextDense(h, c) = d
    <3>1. NextDense(h, c) = OutputCall(a, m + 1)
      BY <1>3, <1>9, NextResult
    <3> QED BY <2>1, <2>2, <3>1 DEF OutputCall
  <2>4. InputsSent(d) = Inputs /\ FactorsSent(h, d) = Block(Inputs)
    BY <2>1, <2>2 DEF InputsSent, FactorsSent, Call
  <2>5. Answering(h, a, q, m + 1, ss, se, s, w, bs, r1,
                  start, end, i, j, source, bias, acc, n)
    BY <1>3, <1>4, <1>7, <1>9, <2>1, AnsweringReads
  <2>6. Relation(h, a, q, m + 1, Inputs, Block(Inputs), ss, se, s, w, bs, r1,
                 start, end, i, j, source, bias, acc)
    BY <2>5, Zenon DEF Relation
  <2>7. DenseOf(h, a, d, ss, se, s, w, bs, r1, f)
    BY <1>1, <2>2, <2>4, <2>6, DenseOfCall
  <2> QED BY <1>8, <2>3, <2>7
<1>10. CASE ~(m + 1 < High(h))
  <2>1. DenseResting(ss, se, s, w, bs, r1, f)
    BY <1>1, <1>3, <1>7, <1>10, AnsweringEnds
  <2>2. NextDense(h, c).acc # a
    <3>1. \/ a = "fc1" /\ NextDense(h, c) = Call("fc3", "start", 0, 0, 0)
          \/ a = "fc3" /\ NextDense(h, c) = Finished
      BY <1>3, <1>10, NextResult
    <3> QED BY <3>1 DEF Call, Finished
  <2> QED BY <1>8, <2>1, <2>2, Resting
<1> QED BY <1>9, <1>10

\* The program goes to a dense layer by its first call.
LEMMA NextConvAcc ==
  ASSUME NEW h \in Harts, NEW c \in Calls(h), c.acc = "conv", NEW d, d = NextConv(h, c)
  PROVE  d.acc = "conv" \/ d = Call("fc1", "start", 0, 0, 0)
<1>1. PICK m \in First(h, Filters) .. Past(h, Filters) - 1 :
           \/ \E k \in 1 .. NumWeights : c = Call("conv", "weight", m, 0, k)
           \/ \E p \in 0 .. Rows - 1, k \in 1 .. RowLen : c = Call("conv", "source", m, p, k)
           \/ \E p \in 0 .. Rows - 1, k \in 1 .. Pooled :
                ReadsAfter(p) /\ c = Call("conv", "result", m, p, k)
  BY ConvCall
<1>2. (\E port, n, p, k : d = Call("conv", port, n, p, k)) \/ d = Call("fc1", "start", 0, 0, 0)
  <2>1. ASSUME NEW k \in 1 .. NumWeights, c = Call("conv", "weight", m, 0, k)
        PROVE  \E port, n, p, x : d = Call("conv", port, n, p, x)
    BY <2>1, NextConvWeight
  <2>2. ASSUME NEW p \in 0 .. Rows - 1, NEW k \in 1 .. RowLen, c = Call("conv", "source", m, p, k)
        PROVE  \E port, n, q, x : d = Call("conv", port, n, q, x)
    BY <2>2, NextConvSource
  <2>3. ASSUME NEW p \in 0 .. Rows - 1, NEW k \in 1 .. Pooled, c = Call("conv", "result", m, p, k)
        PROVE  (\E port, n, q, x : d = Call("conv", port, n, q, x))
               \/ d = Call("fc1", "start", 0, 0, 0)
    BY <2>3, NextConvResult, NextRowIs
  <2> QED BY <1>1, <2>1, <2>2, <2>3
<1> QED BY <1>2 DEF Call

\* do_fc1 goes on to do_fc3, which is the last layer.
LEMMA NextDenseAcc ==
  ASSUME NEW h \in Harts, NEW c \in Calls(h), NEW a \in Dense, c.acc = a,
         NEW d, d = NextDense(h, c)
  PROVE  d.acc = a \/ (a = "fc1" /\ d = Call("fc3", "start", 0, 0, 0)) \/ d = Finished
<1>1. Low(h) \in Nat /\ Inputs \in Nat
  BY OutputHalf, Sizes
<1>2. \/ \E port, m, p : d = Call(a, port, m, p, 0)
      \/ \E m : d = OutputCall(a, m)
      \/ a = "fc1" /\ d = Call("fc3", "start", 0, 0, 0)
      \/ d = Finished
  <2>1. ASSUME NEW port \in {"start", "end"}, c = Call(a, port, 0, 0, 0)
        PROVE  \E q, m, p : d = Call(a, q, m, p, 0)
    BY <2>1, NextStart
  <2>2. ASSUME NEW i \in 0 .. Inputs - 1, c = Call(a, "source", 0, i, 0)
        PROVE  \E q, m, p : d = Call(a, q, m, p, 0)
    BY <2>2, NextSource
  <2>3. ASSUME NEW m \in Low(h) .. High(h) - 1, NEW i \in 0 .. Inputs - 1,
               c = Call(a, "weight", m, i, 0)
        PROVE  (\E q, n, p : d = Call(a, q, n, p, 0)) \/ (\E n : d = OutputCall(a, n))
    <3>1. m \in Nat /\ i \in Nat
      BY <1>1
    <3> QED BY <2>3, <3>1, NextWeight
  <2>4. ASSUME NEW m \in Low(h) .. High(h) - 1, a = "fc3", c = Call(a, "bias", m, 0, 0)
        PROVE  \E q, n, p : d = Call(a, q, n, p, 0)
    BY <2>4, NextBias
  <2>5. ASSUME NEW m \in Low(h) .. High(h) - 1, c = Call(a, "result", m, 0, 0)
        PROVE  \/ \E n : d = OutputCall(a, n)
               \/ a = "fc1" /\ d = Call("fc3", "start", 0, 0, 0)
               \/ d = Finished
    <3>1. m \in Nat
      BY <1>1
    <3> QED BY <2>5, <3>1, NextResult
  <2> QED BY <2>1, <2>2, <2>3, <2>4, <2>5, DenseCall
<1> QED BY <1>2 DEF Call, OutputCall

\* A layer is reached by its first call, with the limit start.
LEMMA ArrivesAtStart ==
  ASSUME NEW h \in Harts, NEW c \in Calls(h), NEW a \in Dense, c.acc # a, NEW d,
         \/ c.acc = "conv" /\ d = NextConv(h, c)
         \/ c.acc \in Dense /\ d = NextDense(h, c)
  PROVE  d.acc # a \/ d = Call(a, "start", 0, 0, 0)
<1>1. CASE c.acc = "conv" /\ d = NextConv(h, c)
  <2>1. d.acc = "conv" \/ d = Call("fc1", "start", 0, 0, 0)
    BY <1>1, NextConvAcc
  <2> QED BY <2>1 DEF Call, Dense
<1>2. CASE c.acc \in Dense /\ d = NextDense(h, c)
  <2>1. PICK b \in Dense : c.acc = b
    BY <1>2
  <2>2. d.acc = b \/ (b = "fc1" /\ d = Call("fc3", "start", 0, 0, 0)) \/ d = Finished
    BY <1>2, <2>1, NextDenseAcc
  <2> QED BY <2>1, <2>2 DEF Call, Finished, Dense
<1> QED BY <1>1, <1>2

-----------------------------------------------------------------------------
(***************************************************************************)
(* A step of the layer.                                                    *)
(***************************************************************************)
\* Only the layer that the program works on has something to do.
LEMMA DenseActive ==
  ASSUME NEW h, NEW a, NEW c, NEW ss, NEW se, NEW s, NEW w, NEW bs, NEW r, NEW f,
         DenseOf(h, a, c, ss, se, s, w, bs, r, f),
         \/ ss # <<>> \/ se # <<>> \/ s # <<>> \/ w # <<>> \/ bs # <<>> \/ f.i = Inputs
  PROVE  c.acc = a
<1> SUFFICES ASSUME c.acc # a PROVE FALSE
  OBVIOUS
<1>1. DenseResting(ss, se, s, w, bs, r, f)
  BY Resting
<1>2. ss = <<>> /\ se = <<>> /\ s = <<>> /\ w = <<>> /\ bs = <<>> /\ f = IdleDense
  BY <1>1 DEF DenseResting
<1>3. IdleDense.i = 0 /\ Inputs # 0
  BY Sizes DEF IdleDense
<1> QED BY <1>2, <1>3

\* Fully_Connect takes start and keeps its invariant.
LEMMA TakesStart ==
  ASSUME NEW h \in Harts, NEW a \in Dense, NEW c \in Calls(h),
         NEW ss, NEW se, NEW s, NEW w, NEW bs, NEW r, IsSeq(ss),
         NEW f, IsDense(f), DenseOf(h, a, c, ss, se, s, w, bs, r, f), f.start = None, ss # <<>>,
         NEW f1, f1 = [f EXCEPT !.start = Int8(Head(ss))]
  PROVE  DenseOf(h, a, c, Tail(ss), se, s, w, bs, r, f1) /\ IsDense(f1)
<1>1. PICK start, end, i, j, source, bias, acc :
        f = Fully(start, end, i, j, source, bias, acc) /\ IsAcc(acc)
  BY FullyFields
<1>2. /\ f.start = start /\ f.end = end /\ f.i = i /\ f.j = j /\ f.source = source
      /\ f.bias = bias /\ f.acc = acc
  BY <1>1 DEF Fully
<1>3. c.acc = a
  BY <1>2, DenseActive
<1>4. PICK port, m, ni, nf :
        port = c.port /\ m = c.m /\ ni = InputsSent(c) /\ nf = FactorsSent(h, c)
  OBVIOUS
<1>5. Relation(h, a, port, m, ni, nf, ss, se, s, w, bs, r,
               start, end, i, j, source, bias, acc)
  BY <1>1, <1>3, <1>4, DenseOfIs
<1>6. PICK ss1, x : ss1 = Tail(ss) /\ x = Int8(FirstOf(ss))
  OBVIOUS
<1>7. Shorter(ss1, ss) /\ Head(ss) = FirstOf(ss)
  BY <1>6, SeqTail DEF FirstOf
<1>8. f1 = Fully(x, end, i, j, source, bias, acc) /\ IsDense(f1)
  <2>1. f1 = [f EXCEPT !.start = x]
    BY <1>6, <1>7, Zenon
  <2>2. [Fully(start, end, i, j, source, bias, acc) EXCEPT !.start = x] =
          Fully(x, end, i, j, source, bias, acc)
    BY DEF Fully
  <2>3. f1 = Fully(x, end, i, j, source, bias, acc)
    BY <1>1, <2>1, <2>2, Zenon
  <2> QED BY <1>1, <2>3, FullyIsDense
<1>9. Feeding(h, a, port, m, ni, nf, ss, se, s, w, bs, r,
              start, end, i, j, source, bias, acc)
  BY <1>5 DEF Relation, Answering
<1>10. Feeding(h, a, port, m, ni, nf, ss1, se, s, w, bs, r,
               x, end, i, j, source, bias, acc)
  BY <1>2, <1>6, <1>7, <1>9, FeedsStart
<1>11. Relation(h, a, port, m, ni, nf, ss1, se, s, w, bs, r,
                x, end, i, j, source, bias, acc)
  BY <1>10, Zenon DEF Relation
<1>12. DenseOf(h, a, c, ss1, se, s, w, bs, r, f1)
  BY <1>3, <1>4, <1>8, <1>11, DenseOfIs
<1> QED BY <1>6, <1>8, <1>12

\* Fully_Connect takes end and keeps its invariant.
LEMMA TakesEnd ==
  ASSUME NEW h \in Harts, NEW a \in Dense, NEW c \in Calls(h),
         NEW ss, NEW se, NEW s, NEW w, NEW bs, NEW r, IsSeq(se),
         NEW f, IsDense(f), DenseOf(h, a, c, ss, se, s, w, bs, r, f), f.start # None, f.end = None, se # <<>>,
         NEW f1, f1 = [f EXCEPT !.end = Int8(Head(se))]
  PROVE  DenseOf(h, a, c, ss, Tail(se), s, w, bs, r, f1) /\ IsDense(f1)
<1>1. PICK start, end, i, j, source, bias, acc :
        f = Fully(start, end, i, j, source, bias, acc) /\ IsAcc(acc)
  BY FullyFields
<1>2. /\ f.start = start /\ f.end = end /\ f.i = i /\ f.j = j /\ f.source = source
      /\ f.bias = bias /\ f.acc = acc
  BY <1>1 DEF Fully
<1>3. c.acc = a
  BY <1>2, DenseActive
<1>4. PICK port, m, ni, nf :
        port = c.port /\ m = c.m /\ ni = InputsSent(c) /\ nf = FactorsSent(h, c)
  OBVIOUS
<1>5. Relation(h, a, port, m, ni, nf, ss, se, s, w, bs, r,
               start, end, i, j, source, bias, acc)
  BY <1>1, <1>3, <1>4, DenseOfIs
<1>6. PICK se1, x : se1 = Tail(se) /\ x = Int8(FirstOf(se))
  OBVIOUS
<1>7. Shorter(se1, se) /\ Head(se) = FirstOf(se)
  BY <1>6, SeqTail DEF FirstOf
<1>8. f1 = Fully(start, x, i, j, source, bias, acc) /\ IsDense(f1)
  <2>1. f1 = [f EXCEPT !.end = x]
    BY <1>6, <1>7, Zenon
  <2>2. [Fully(start, end, i, j, source, bias, acc) EXCEPT !.end = x] =
          Fully(start, x, i, j, source, bias, acc)
    BY DEF Fully
  <2>3. f1 = Fully(start, x, i, j, source, bias, acc)
    BY <1>1, <2>1, <2>2, Zenon
  <2> QED BY <1>1, <2>3, FullyIsDense
<1>9. Feeding(h, a, port, m, ni, nf, ss, se, s, w, bs, r,
              start, end, i, j, source, bias, acc)
  BY <1>5 DEF Relation, Answering
<1>10. Feeding(h, a, port, m, ni, nf, ss, se1, s, w, bs, r,
               start, x, i, j, source, bias, acc)
  BY <1>2, <1>6, <1>7, <1>9, FeedsEnd
<1>11. Relation(h, a, port, m, ni, nf, ss, se1, s, w, bs, r,
                start, x, i, j, source, bias, acc)
  BY <1>10, Zenon DEF Relation
<1>12. DenseOf(h, a, c, ss, se1, s, w, bs, r, f1)
  BY <1>3, <1>4, <1>8, <1>11, DenseOfIs
<1> QED BY <1>6, <1>8, <1>12

\* DenseSource.
TakesSourceOf(f, e) == [f EXCEPT !.source = e, !.j = f.start]

\* Fully_Connect takes an input and keeps its invariant.
LEMMA TakesSource ==
  ASSUME NEW h \in Harts, NEW a \in Dense, NEW c \in Calls(h),
         NEW ss, NEW se, NEW s, NEW w, NEW bs, NEW r, IsSeq(s),
         NEW f, IsDense(f), DenseOf(h, a, c, ss, se, s, w, bs, r, f), f.end # None, f.j = None, s # <<>>,
         NEW f1, f1 = TakesSourceOf(f, Head(s))
  PROVE  DenseOf(h, a, c, ss, se, Tail(s), w, bs, r, f1) /\ IsDense(f1)
<1>1. PICK start, end, i, j, source, bias, acc :
        f = Fully(start, end, i, j, source, bias, acc) /\ IsAcc(acc)
  BY FullyFields
<1>2. /\ f.start = start /\ f.end = end /\ f.i = i /\ f.j = j /\ f.source = source
      /\ f.bias = bias /\ f.acc = acc
  BY <1>1 DEF Fully
<1>3. c.acc = a
  BY <1>2, DenseActive
<1>4. PICK port, m, ni, nf :
        port = c.port /\ m = c.m /\ ni = InputsSent(c) /\ nf = FactorsSent(h, c)
  OBVIOUS
<1>5. Relation(h, a, port, m, ni, nf, ss, se, s, w, bs, r,
               start, end, i, j, source, bias, acc)
  BY <1>1, <1>3, <1>4, DenseOfIs
<1>6. PICK s1, x : s1 = Tail(s) /\ x = FirstOf(s)
  OBVIOUS
<1>7. Shorter(s1, s) /\ Head(s) = FirstOf(s)
  BY <1>6, SeqTail DEF FirstOf
<1>8. f1 = Fully(start, end, i, start, x, bias, acc) /\ IsDense(f1)
  <2>1. f1 = [f EXCEPT !.source = x, !.j = start]
    BY <1>2, <1>6, <1>7, Zenon DEF TakesSourceOf
  <2>2. [f EXCEPT !.source = x, !.j = start] = [[f EXCEPT !.source = x] EXCEPT !.j = start]
    OBVIOUS
  <2>3. [Fully(start, end, i, j, source, bias, acc) EXCEPT !.source = x] =
          Fully(start, end, i, j, x, bias, acc)
    BY DEF Fully
  <2>4. [Fully(start, end, i, j, x, bias, acc) EXCEPT !.j = start] =
          Fully(start, end, i, start, x, bias, acc)
    BY DEF Fully
  <2>5. f1 = Fully(start, end, i, start, x, bias, acc)
    BY <1>1, <2>1, <2>2, <2>3, <2>4, Zenon
  <2> QED BY <1>1, <2>5, FullyIsDense
<1>9. Feeding(h, a, port, m, ni, nf, ss, se, s, w, bs, r,
              start, end, i, j, source, bias, acc)
  BY <1>5 DEF Relation, Answering
<1>10. Feeding(h, a, port, m, ni, nf, ss, se, s1, w, bs, r,
               start, end, i, start, x, bias, acc)
  BY <1>2, <1>6, <1>7, <1>9, FeedsSource
<1>11. Relation(h, a, port, m, ni, nf, ss, se, s1, w, bs, r,
                start, end, i, start, x, bias, acc)
  BY <1>10, Zenon DEF Relation
<1>12. DenseOf(h, a, c, ss, se, s1, w, bs, r, f1)
  BY <1>3, <1>4, <1>8, <1>11, DenseOfIs
<1> QED BY <1>6, <1>8, <1>12

\* DenseWeight.
TakesWeightOf(f, e) ==
  LET rowDone == f.j + 1 = f.end
  IN  [f EXCEPT !.acc[f.j] = Append(@, <<f.source, e>>),
                !.i = IF rowDone THEN @ + 1 ELSE @,
                !.j = IF ~rowDone THEN @ + 1
                      ELSE IF f.i + 1 = Inputs THEN f.start ELSE None]

\* Taking a weight moves the loops on.
LEMMA TakesWeightIs ==
  ASSUME NEW start, NEW end, NEW i, NEW j, NEW source, NEW bias, NEW acc, NEW e,
         NEW acc1, acc1 = Added(acc, j, <<source, e>>),
         NEW f, f = Fully(start, end, i, j, source, bias, acc)
  PROVE  TakesWeightOf(f, e) =
           Fully(start, end, IF j + 1 = end THEN i + 1 ELSE i,
                 IF j + 1 # end THEN j + 1 ELSE IF i + 1 = Inputs THEN start ELSE None,
                 source, bias, acc1)
<1>1. /\ f.start = start /\ f.end = end /\ f.i = i /\ f.j = j /\ f.source = source
      /\ f.bias = bias /\ f.acc = acc
  BY DEF Fully
<1>2. PICK x, y : /\ x = (IF j + 1 = end THEN i + 1 ELSE i)
                  /\ y = (IF j + 1 # end THEN j + 1 ELSE IF i + 1 = Inputs THEN start ELSE None)
  OBVIOUS
<1>3. TakesWeightOf(f, e) = [f EXCEPT !.acc = acc1, !.i = x, !.j = y]
  BY <1>1, <1>2, Zenon DEF TakesWeightOf, Added
<1>4. [f EXCEPT !.acc = acc1, !.i = x, !.j = y] =
        [[[f EXCEPT !.acc = acc1] EXCEPT !.i = x] EXCEPT !.j = y]
  OBVIOUS
<1>5. /\ [Fully(start, end, i, j, source, bias, acc) EXCEPT !.acc = acc1] =
           Fully(start, end, i, j, source, bias, acc1)
      /\ [Fully(start, end, i, j, source, bias, acc1) EXCEPT !.i = x] =
           Fully(start, end, x, j, source, bias, acc1)
      /\ [Fully(start, end, x, j, source, bias, acc1) EXCEPT !.j = y] =
           Fully(start, end, x, y, source, bias, acc1)
  BY DEF Fully
<1> QED BY <1>2, <1>3, <1>4, <1>5, Zenon

\* Fully_Connect takes a weight and keeps its invariant.
LEMMA TakesWeight ==
  ASSUME NEW h \in Harts, NEW a \in Dense, NEW c \in Calls(h),
         NEW ss, NEW se, NEW s, NEW w, NEW bs, NEW r, IsSeq(s), IsSeq(w),
         NEW f, IsDense(f), DenseOf(h, a, c, ss, se, s, w, bs, r, f), f.j # None, w # <<>>,
         NEW f1, f1 = TakesWeightOf(f, Head(w))
  PROVE  DenseOf(h, a, c, ss, se, s, Tail(w), bs, r, f1) /\ IsDense(f1)
<1>1. PICK start, end, i, j, source, bias, acc :
        f = Fully(start, end, i, j, source, bias, acc) /\ IsAcc(acc)
  BY FullyFields
<1>2. /\ f.start = start /\ f.end = end /\ f.i = i /\ f.j = j /\ f.source = source
      /\ f.bias = bias /\ f.acc = acc
  BY <1>1 DEF Fully
<1>3. c.acc = a
  BY <1>2, DenseActive
<1>4. PICK port, m, ni, nf :
        port = c.port /\ m = c.m /\ ni = InputsSent(c) /\ nf = FactorsSent(h, c)
  OBVIOUS
<1>5. Relation(h, a, port, m, ni, nf, ss, se, s, w, bs, r,
               start, end, i, j, source, bias, acc)
  BY <1>1, <1>3, <1>4, DenseOfIs
<1>6. PICK w1, acc1 : w1 = Tail(w) /\ acc1 = Added(acc, j, <<source, FirstOf(w)>>)
  OBVIOUS
<1>7. Shorter(w1, w) /\ Head(w) = FirstOf(w)
  BY <1>6, SeqTail DEF FirstOf
<1>8. PICK i1, j1 :
        /\ i1 = (IF j + 1 = end THEN i + 1 ELSE i)
        /\ j1 = (IF j + 1 # end THEN j + 1 ELSE IF i + 1 = Inputs THEN start ELSE None)
  OBVIOUS
<1>9. f1 = Fully(start, end, i1, j1, source, bias, acc1)
  BY <1>1, <1>6, <1>7, <1>8, TakesWeightIs
<1>10. Feeding(h, a, port, m, ni, nf, ss, se, s, w, bs, r,
              start, end, i, j, source, bias, acc)
  BY <1>5 DEF Relation, Answering
<1>11. Fed(h, a, port, m, ni, nf, ss, se, s, w, w1, bs, r,
           start, end, i, j, source, bias, acc, acc1)
  <2>1. IsAcc(acc) /\ j # None /\ Shorter(w1, w)
    BY <1>1, <1>2, <1>7
  <2>2. WeightAdded(acc1, acc, j, source, w)
    BY <1>6, Zenon DEF WeightAdded
  <2> QED BY <1>10, <2>1, <2>2, FeedsWeight
<1>12. Weighed(h, w, w1, i, j, nf, source, acc, acc1)
  BY <1>11 DEF Fed
<1>13. IsDense(f1)
  <2>1. IsAcc(acc1)
    BY <1>12 DEF Weighed
  <2> QED BY <1>9, <2>1, FullyIsDense
<1>14. Relation(h, a, port, m, ni, nf, ss, se, s, w1, bs, r,
                start, end, i1, j1, source, bias, acc1)
  <2>1. CASE j + 1 # end
    <3>1. i1 = i /\ j1 = j + 1
      BY <1>8, <2>1
    <3> QED BY <1>11, <2>1, <3>1, Zenon DEF Relation, Fed
  <2>2. CASE j + 1 = end /\ i + 1 # Inputs
    <3>1. i1 = i + 1 /\ j1 = None
      BY <1>8, <2>2
    <3> QED BY <1>11, <2>2, <3>1, Zenon DEF Relation, Fed
  <2>3. CASE j + 1 = end /\ i + 1 = Inputs
    <3>1. i1 = i + 1 /\ j1 = start
      BY <1>8, <2>3
    <3>2. nf >= Block(Inputs)
      <4>1. /\ Stream(w1, FactorSeq(h), Block(i) + ((j - Low(h)) + 1), nf) /\ IsSeq(w1)
            /\ Block(i) \in Nat /\ Block(i + 1) = Block(i) + Width
        BY <1>12 DEF Weighed
      <4>2. /\ Width \in Nat \ {0} /\ Low(h) \in Nat /\ High(h) = Low(h) + Width
        BY OutputHalf
      <4>3. j \in Low(h) .. High(h) - 1
        BY <1>2, <1>10 DEF Feeding
      <4> HIDE DEF Width
      <4>4. j + 1 = High(h)
        BY <1>11, <2>3 DEF Fed
      <4>5. (j - Low(h)) + 1 = Width
        BY <4>4, <4>2, <4>3
      <4>6. Block(i) + ((j - Low(h)) + 1) = Block(Inputs) /\ Block(Inputs) \in Nat
        BY <2>3, <4>1, <4>2, <4>5
      <4> QED BY <4>1, <4>6, StreamEnds
    <3>3. port \in {"bias", "result"} /\ nf = Block(Inputs) /\ ni = Inputs
      BY <1>3, <1>4, <3>2, AllSent
    <3>4. j + 1 = High(h)
      BY <1>11, <2>3 DEF Fed
    <3>5. Answering(h, a, port, m, ss, se, s, w1, bs, r,
                    start, end, i + 1, start, source, bias, acc1, start)
      BY <1>2, <1>10, <1>12, <2>3, <3>3, <3>4, FeedingAnswers
    <3>6. start \in 0 .. High(h)
      <4>1. start \in m .. High(h) /\ m = Low(h)
        BY <3>3, <3>5, <1>10 DEF Answering, Feeding
      <4>2. Low(h) \in Nat /\ High(h) \in Nat
        BY OutputHalf
      <4> QED BY <4>1, <4>2
    <3> QED BY <3>1, <3>5, <3>6, Zenon DEF Relation
  <2> QED BY <2>1, <2>2, <2>3
<1>15. DenseOf(h, a, c, ss, se, s, w1, bs, r, f1)
  BY <1>3, <1>4, <1>9, <1>14, DenseOfIs
<1> QED BY <1>6, <1>13, <1>15

\* FC_3 takes a bias and keeps its invariant.
LEMMA TakesBias ==
  ASSUME NEW h \in Harts, NEW a, a = "fc3", NEW c \in Calls(h),
         NEW ss, NEW se, NEW s, NEW w, NEW bs, NEW r, IsSeq(bs),
         NEW f, IsDense(f), DenseOf(h, a, c, ss, se, s, w, bs, r, f),
         f.i = Inputs, f.bias = <<>>, bs # <<>>,
         NEW f1, f1 = [f EXCEPT !.bias = Head(bs)]
  PROVE  DenseOf(h, a, c, ss, se, s, w, Tail(bs), r, f1) /\ IsDense(f1)
<1>1. PICK start, end, i, j, source, bias, acc :
        f = Fully(start, end, i, j, source, bias, acc) /\ IsAcc(acc)
  BY FullyFields
<1>2. /\ f.start = start /\ f.end = end /\ f.i = i /\ f.j = j /\ f.source = source
      /\ f.bias = bias /\ f.acc = acc
  BY <1>1 DEF Fully
<1>3. c.acc = a
  BY <1>2, DenseActive
<1>4. PICK port, m, ni, nf :
        port = c.port /\ m = c.m /\ ni = InputsSent(c) /\ nf = FactorsSent(h, c)
  OBVIOUS
<1>5. Relation(h, a, port, m, ni, nf, ss, se, s, w, bs, r,
               start, end, i, j, source, bias, acc)
  BY <1>1, <1>3, <1>4, DenseOfIs
<1>6. PICK bs1, x : bs1 = Tail(bs) /\ x = FirstOf(bs)
  OBVIOUS
<1>7. Shorter(bs1, bs) /\ Head(bs) = FirstOf(bs)
  BY <1>6, SeqTail DEF FirstOf
<1>8. f1 = Fully(start, end, i, j, source, x, acc) /\ IsDense(f1)
  <2>1. f1 = [f EXCEPT !.bias = x]
    BY <1>6, <1>7, Zenon
  <2>2. [Fully(start, end, i, j, source, bias, acc) EXCEPT !.bias = x] =
          Fully(start, end, i, j, source, x, acc)
    BY DEF Fully
  <2>3. f1 = Fully(start, end, i, j, source, x, acc)
    BY <1>1, <2>1, <2>2, Zenon
  <2> QED BY <1>1, <2>3, FullyIsDense
<1>9. ~Feeding(h, a, port, m, ni, nf, ss, se, s, w, bs, r,
               start, end, i, j, source, bias, acc)
  <2>1. i = Inputs /\ Inputs \in Nat
    BY <1>2, Sizes
  <2> QED BY <2>1 DEF Feeding
<1>10. PICK n \in 0 .. High(h) :
         Answering(h, "fc3", port, m, ss, se, s, w, bs, r,
                   start, end, i, j, source, bias, acc, n)
  BY <1>5, <1>9, Zenon DEF Relation
<1>11. Answering(h, "fc3", port, m, ss, se, s, w, bs1, r,
                 start, end, i, j, source, x, acc, n)
  BY <1>2, <1>6, <1>7, <1>10, AnswersBias
<1>12. Relation(h, a, port, m, ni, nf, ss, se, s, w, bs1, r,
                start, end, i, j, source, x, acc)
  BY <1>11, Zenon DEF Relation
<1>13. DenseOf(h, a, c, ss, se, s, w, bs1, r, f1)
  <2>1. f1 = Fully(start, end, i, j, source, x, acc)
    BY <1>8
  <2>2. DenseOf(h, a, c, ss, se, s, w, bs1, r, f1) <=>
          Relation(h, a, c.port, c.m, InputsSent(c), FactorsSent(h, c), ss, se, s, w, bs1, r,
                   start, end, i, j, source, x, acc)
    BY <1>3, <2>1, DenseOfIs
  <2> QED BY <1>4, <1>12, <2>2, Zenon
<1> QED BY <1>6, <1>8, <1>13

GivesResultOf(f) ==
  IF f.j + 1 = f.end THEN IdleDense ELSE [f EXCEPT !.j = @ + 1, !.bias = <<>>]

\* Fully_Connect writes a result and keeps its invariant.
LEMMA GivesResult ==
  ASSUME NEW h \in Harts, NEW a \in Dense, NEW c \in Calls(h),
         NEW ss, NEW se, NEW s, NEW w, NEW bs, NEW r, IsSeq(r),
         NEW f, IsDense(f), DenseOf(h, a, c, ss, se, s, w, bs, r, f),
         f.i = Inputs, a = "fc3" => f.bias # <<>>,
         NEW f1, f1 = GivesResultOf(f),
         NEW v, v = Answer(f.acc[f.j], f.bias)
  PROVE  DenseOf(h, a, c, ss, se, s, w, bs, Append(r, v), f1) /\ IsDense(f1)
<1>1. PICK start, end, i, j, source, bias, acc :
        f = Fully(start, end, i, j, source, bias, acc) /\ IsAcc(acc)
  BY FullyFields
<1>2. /\ f.start = start /\ f.end = end /\ f.i = i /\ f.j = j /\ f.source = source
      /\ f.bias = bias /\ f.acc = acc
  BY <1>1 DEF Fully
<1>3. c.acc = a
  BY <1>2, DenseActive
<1>4. PICK port, m, ni, nf :
        port = c.port /\ m = c.m /\ ni = InputsSent(c) /\ nf = FactorsSent(h, c)
  OBVIOUS
<1>5. Relation(h, a, port, m, ni, nf, ss, se, s, w, bs, r,
               start, end, i, j, source, bias, acc)
  BY <1>1, <1>3, <1>4, DenseOfIs
<1>6. PICK r1 : r1 = Append(r, v)
  OBVIOUS
<1>7. Longer(r1, r, Answer(acc[j], bias))
  BY <1>2, <1>6, SeqAppend
<1>8. ~Feeding(h, a, port, m, ni, nf, ss, se, s, w, bs, r,
               start, end, i, j, source, bias, acc)
  <2>1. i = Inputs /\ Inputs \in Nat
    BY <1>2, Sizes
  <2> QED BY <2>1 DEF Feeding
<1>9. PICK n \in 0 .. High(h) :
         Answering(h, a, port, m, ss, se, s, w, bs, r,
                   start, end, i, j, source, bias, acc, n)
  BY <1>5, <1>8, Zenon DEF Relation
<1>10. m \in Low(h) .. High(h) - 1
  <2>1. c.port \in {"bias", "result"}
    BY <1>4, <1>9 DEF Answering
  <2>2. \A port1, m1, p1 : Call(a, port1, m1, p1, 0).port = port1 /\ Call(a, port1, m1, p1, 0).m = m1
    BY DEF Call
  <2>3. PICK m1 \in Low(h) .. High(h) - 1 :
          c = Call(a, "bias", m1, 0, 0) \/ c = Call(a, "result", m1, 0, 0)
    BY <1>3, <2>1, <2>2, DenseCall
  <2> QED BY <1>4, <2>2, <2>3
<1>11. PICK z : /\ IdleDense = Fully(None, None, 0, None, <<>>, <<>>, z)
  BY IdleIs
<1>12. i = Inputs /\ (a = "fc3" => bias # <<>>) /\ IsAcc(acc)
  BY <1>1, <1>2
<1>13. CASE j + 1 = end
  <2>1. f1 = Fully(None, None, 0, None, <<>>, <<>>, z) /\ IsDense(f1)
    BY <1>2, <1>11, <1>13, IdleIsDense DEF GivesResultOf
  <2>2. Answering(h, a, port, m, ss, se, s, w, bs, r1,
                  None, None, 0, None, <<>>, <<>>, z, n + 1)
    BY <1>7, <1>9, <1>10, <1>11, <1>12, <1>13, AnswersResult
  <2>3. n + 1 \in 0 .. High(h)
    BY <1>10, <2>2, OutputHalf DEF Answering
  <2>4. Relation(h, a, port, m, ni, nf, ss, se, s, w, bs, r1,
                 None, None, 0, None, <<>>, <<>>, z)
    BY <2>2, <2>3, Zenon DEF Relation
  <2>5. DenseOf(h, a, c, ss, se, s, w, bs, r1, f1)
    BY <1>3, <1>4, <2>1, <2>4, DenseOfIs
  <2> QED BY <1>6, <2>1, <2>5
<1>14. CASE j + 1 # end
  <2>1. f1 = Fully(start, end, i, j + 1, source, <<>>, acc) /\ IsDense(f1)
    <3>1. f1 = [f EXCEPT !.j = j + 1, !.bias = <<>>]
      BY <1>2, <1>14, Zenon DEF GivesResultOf
    <3>2. [f EXCEPT !.j = j + 1, !.bias = <<>>] = [[f EXCEPT !.j = j + 1] EXCEPT !.bias = <<>>]
      OBVIOUS
    <3>3. [Fully(start, end, i, j, source, bias, acc) EXCEPT !.j = j + 1] =
            Fully(start, end, i, j + 1, source, bias, acc)
      BY DEF Fully
    <3>4. [Fully(start, end, i, j + 1, source, bias, acc) EXCEPT !.bias = <<>>] =
            Fully(start, end, i, j + 1, source, <<>>, acc)
      BY DEF Fully
    <3>5. f1 = Fully(start, end, i, j + 1, source, <<>>, acc)
      BY <1>1, <3>1, <3>2, <3>3, <3>4, Zenon
    <3> QED BY <1>1, <3>5, FullyIsDense
  <2>2. Answering(h, a, port, m, ss, se, s, w, bs, r1,
                  start, end, i, j + 1, source, <<>>, acc, n + 1)
    BY <1>7, <1>9, <1>10, <1>11, <1>12, <1>14, AnswersResult
  <2>3. n + 1 \in 0 .. High(h)
    BY <1>10, <2>2, OutputHalf DEF Answering
  <2>4. Relation(h, a, port, m, ni, nf, ss, se, s, w, bs, r1,
                 start, end, i, j + 1, source, <<>>, acc)
    BY <2>2, <2>3, Zenon DEF Relation
  <2>5. DenseOf(h, a, c, ss, se, s, w, bs, r1, f1)
    BY <1>3, <1>4, <2>1, <2>4, DenseOfIs
  <2> QED BY <1>6, <2>1, <2>5
<1> QED BY <1>13, <1>14

-----------------------------------------------------------------------------
(***************************************************************************)
(* What the program reads.                                                 *)
(***************************************************************************)
Joined(u, s, t) ==
  /\ IsSeq(u) /\ Len(u) = Len(s) + Len(t)
  /\ \A i \in 1 .. Len(s) : u[i] = s[i]
  /\ \A i \in 1 .. Len(t) : u[Len(s) + i] = t[i]

\* The elements of a concatenation.
LEMMA SeqConcat ==
  ASSUME NEW s, IsSeq(s), NEW t, IsSeq(t)
  PROVE  Joined(s \o t, s, t)
<1>1. PICK S : s \in Seq(S)
  BY IsSeqSeq
<1>2. PICK T : t \in Seq(T)
  BY IsSeqSeq
<1>3. s \in Seq(S \cup T) /\ t \in Seq(S \cup T)
  BY <1>1, <1>2
<1>4. s \o t \in Seq(S \cup T)
  BY <1>3
<1>5. IsSeq(s \o t)
  BY <1>4, SeqIsSeq
<1>6. Len(s \o t) = Len(s) + Len(t)
  BY <1>3
<1>7. ASSUME NEW i \in 1 .. Len(s) PROVE (s \o t)[i] = s[i]
  BY <1>3
<1>8. ASSUME NEW i \in 1 .. Len(t) PROVE (s \o t)[Len(s) + i] = t[i]
  BY <1>3
<1> QED BY <1>5, <1>6, <1>7, <1>8 DEF Joined

\* The product of two numbers is a number.
LEMMA ProductNat ==
  ASSUME NEW x, NEW y, x \in Nat, y \in Nat
  PROVE  x * y \in Nat
BY Z3

\* There is a row pair to be read.
LEMMA PairsNat == Pairs \in Nat \ {0}
BY Sizes, Parity DEF Pairs

\* The number of results of the convolution.
LEMMA AllConvNat == AllConvReads \in Nat /\ Share(Filters) * Pairs \in Nat
<1>1. Share(Filters) \in Nat /\ Pairs \in Nat /\ Pooled \in Nat
  <2>1. 0 \in Harts
    BY RowAssumption DEF Harts
  <2> QED BY <2>1, FilterHalf, PairsNat, Sizes
<1>2. Share(Filters) * Pairs \in Nat
  BY <1>1, ProductNat
<1> QED BY <1>1, <1>2, ProductNat DEF AllConvReads

\* The rows after which results are read are numbered.
LEMMA PairsStep ==
  ASSUME NEW p, p \in 0 .. Rows - 1
  PROVE  /\ PairsRead(0) = 0 /\ PairsRead(p) \in Nat
         /\ ~ReadsAfter(p) => PairsRead(p + 1) = PairsRead(p)
         /\ ReadsAfter(p) => /\ PairsRead(p) \in 0 .. Pairs - 1
                             /\ p = R + 2 * PairsRead(p)
                             /\ PairsRead(p + 1) = PairsRead(p) + 1
                             /\ p + 1 = Rows => PairsRead(p) + 1 = Pairs
<1>1. PairsRead(0) = 0 /\ PairsRead(p) \in Nat
  BY Sizes DEF PairsRead
<1>2. ASSUME ~ReadsAfter(p) PROVE PairsRead(p + 1) = PairsRead(p)
  BY <1>2, Sizes, Parity DEF PairsRead, ReadsAfter
<1>3. ASSUME ReadsAfter(p)
      PROVE  /\ PairsRead(p) \in 0 .. Pairs - 1
             /\ p = R + 2 * PairsRead(p)
             /\ PairsRead(p + 1) = PairsRead(p) + 1
             /\ p + 1 = Rows => PairsRead(p) + 1 = Pairs
  BY <1>3, Sizes, Parity DEF PairsRead, ReadsAfter, Pairs
<1> QED BY <1>1, <1>2, <1>3

\* The place of an output among the results.
Place(x, i, q) == (x * Pairs + i) * Pooled + (q - 1)

\* The place of a result among all results tells filter, row pair and column.
LEMMA PlaceIs ==
  ASSUME NEW x, NEW i, NEW q, NEW n,
         x \in 0 .. Share(Filters) - 1, i \in 0 .. Pairs - 1, q \in 1 .. Pooled, n = Place(x, i, q)
  PROVE  /\ n \in Nat /\ n + 1 <= AllConvReads
         /\ (n \div Pooled) \div Pairs = x /\ (n \div Pooled) % Pairs = i /\ n % Pooled = q - 1
<1>1. /\ Share(Filters) \in Nat \ {0} /\ Pairs \in Nat \ {0} /\ Pooled \in Nat \ {0}
  <2>1. 0 \in Harts
    BY RowAssumption DEF Harts
  <2> QED BY <2>1, FilterHalf, PairsNat, Sizes
<1>2. PICK F : F = Share(Filters)
  OBVIOUS
<1>3. PICK y : y = x * Pairs + i
  OBVIOUS
<1>4. x \in Nat /\ x + 1 \in Nat /\ F \in Nat /\ x + 1 <= F
  BY <1>1, <1>2
<1>5. x * Pairs \in Nat /\ y \in Nat
  <2>1. x * Pairs \in Nat
    BY <1>1, <1>4, ProductNat
  <2> QED BY <1>1, <1>3, <2>1
<1>6. y \div Pairs = x /\ y % Pairs = i
  BY <1>1, <1>3, <1>4, DivisionUnique
<1>7. n = y * Pooled + (q - 1)
  BY <1>3 DEF Place
<1>8. q - 1 \in 0 .. Pooled - 1
  BY <1>1
<1>9. n \div Pooled = y /\ n % Pooled = q - 1
  <2>1. PICK k : k = q - 1
    OBVIOUS
  <2>2. k \in 0 .. Pooled - 1 /\ n = y * Pooled + k
    BY <1>7, <1>8, <2>1
  <2>3. n \div Pooled = y /\ n % Pooled = k
    BY <1>1, <1>5, <2>2, DivisionUnique
  <2> QED BY <2>1, <2>3
<1>10. y + 1 <= F * Pairs
  <2>1. (x + 1) * Pairs <= F * Pairs
    BY <1>1, <1>4, TimesMonotonic
  <2>2. (x + 1) * Pairs = x * Pairs + Pairs
    BY <1>1, <1>4, Z3
  <2>3. F * Pairs \in Nat /\ (x + 1) * Pairs \in Nat
    BY <1>1, <1>4, ProductNat
  <2> QED BY <1>1, <1>3, <1>5, <2>1, <2>2, <2>3
<1>11. (y + 1) * Pooled <= (F * Pairs) * Pooled
  <2>1. F * Pairs \in Nat /\ y + 1 \in Nat
    BY <1>1, <1>4, <1>5, ProductNat
  <2> QED BY <1>1, <1>10, <2>1, TimesMonotonic
<1>12. (y + 1) * Pooled = y * Pooled + Pooled /\ y * Pooled \in Nat
  <2>1. (y + 1) * Pooled = y * Pooled + Pooled
    BY <1>1, <1>5, Z3
  <2> QED BY <1>1, <1>5, <2>1, ProductNat
<1>13. AllConvReads = (F * Pairs) * Pooled /\ AllConvReads \in Nat
  BY <1>2, AllConvNat DEF AllConvReads
<1>14. n \in Nat /\ n + 1 <= AllConvReads
  BY <1>1, <1>7, <1>8, <1>11, <1>12, <1>13
<1> QED BY <1>6, <1>9, <1>14

\* The place that follows another one.
LEMMA PlaceNext ==
  ASSUME NEW x, NEW i, x \in Nat, i \in Nat
  PROVE  /\ \A q \in Nat : Place(x, i, q + 1) = Place(x, i, q) + 1
         /\ Place(x, i + 1, 1) = Place(x, i, Pooled) + 1
         /\ Place(x + 1, 0, 1) = Place(x, Pairs, 1)
         /\ Place(Share(Filters), 0, 1) = AllConvReads
<1>1. Pairs \in Nat \ {0} /\ Pooled \in Nat \ {0} /\ Share(Filters) * Pairs \in Nat
  BY PairsNat, Sizes, AllConvNat
<1>2. PICK y : y = x * Pairs + i
  OBVIOUS
<1>3. y \in Nat /\ y + 1 = x * Pairs + (i + 1)
  <2>1. x * Pairs \in Nat
    BY <1>1, ProductNat
  <2> QED BY <1>1, <1>2, <2>1
<1>4. y * Pooled \in Nat /\ (y + 1) * Pooled = y * Pooled + Pooled
  <2>1. (y + 1) * Pooled = y * Pooled + Pooled
    BY <1>1, <1>3, Z3
  <2> QED BY <1>1, <1>3, <2>1, ProductNat
<1>5. ASSUME NEW q \in Nat PROVE Place(x, i, q + 1) = Place(x, i, q) + 1
  <2>1. Place(x, i, q) = y * Pooled + (q - 1) /\ Place(x, i, q + 1) = y * Pooled + ((q + 1) - 1)
    BY <1>2 DEF Place
  <2> QED BY <1>4, <2>1
<1>6. Place(x, i + 1, 1) = Place(x, i, Pooled) + 1
  <2>1. Place(x, i, Pooled) = y * Pooled + (Pooled - 1)
    BY <1>2 DEF Place
  <2>2. Place(x, i + 1, 1) = (y + 1) * Pooled + (1 - 1)
    BY <1>3, Zenon DEF Place
  <2> QED BY <1>1, <1>4, <2>1, <2>2
<1>7. Place(x + 1, 0, 1) = Place(x, Pairs, 1)
  <2>1. (x + 1) * Pairs + 0 = x * Pairs + Pairs
    BY <1>1, Z3
  <2> QED BY <2>1, Zenon DEF Place
<1>8. Place(Share(Filters), 0, 1) = AllConvReads
  <2>1. Share(Filters) * Pairs + 0 = Share(Filters) * Pairs
    BY <1>1
  <2>2. Place(Share(Filters), 0, 1) = AllConvReads + (1 - 1)
    BY <2>1, Zenon DEF Place, AllConvReads
  <2> QED BY <2>2, AllConvNat
<1> QED BY <1>5, <1>6, <1>7, <1>8

\* What has been read at a call, by kind of call.
LEMMA ReadsOfCall ==
  ASSUME NEW h, NEW port, NEW m, NEW p, NEW k
  PROVE  /\ Reads(h, Call("conv", port, m, p, k)) =
              Place(m - First(h, Filters), PairsRead(p), IF port = "result" THEN k ELSE 1)
         /\ Reads(h, Call("fc1", port, m, p, k)) =
              AllConvReads + (IF port \in {"bias", "result"} THEN m - Low(h) ELSE 0)
         /\ Reads(h, Call("fc3", port, m, p, k)) =
              (AllConvReads + Width) + (IF port \in {"bias", "result"} THEN m - Low(h) ELSE 0)
         /\ Reads(h, Finished) = (AllConvReads + Width) + Width
<1>1. Reads(h, Call("conv", port, m, p, k)) =
        Place(m - First(h, Filters), PairsRead(p), IF port = "result" THEN k ELSE 1)
  <2>1. Reads(h, Call("conv", port, m, p, k)) =
          ((m - First(h, Filters)) * Pairs + PairsRead(p)) * Pooled
             + (IF port = "result" THEN k - 1 ELSE 0)
    BY DEF Reads, ConvReads, Call
  <2>2. (IF port = "result" THEN k - 1 ELSE 0) = (IF port = "result" THEN k ELSE 1) - 1
    BY Z3
  <2> QED BY <2>1, <2>2, Zenon DEF Place
<1>2. Reads(h, Call("fc1", port, m, p, k)) =
        AllConvReads + (IF port \in {"bias", "result"} THEN m - Low(h) ELSE 0)
  BY DEF Reads, DenseReads, Call
<1>3. Reads(h, Call("fc3", port, m, p, k)) =
        (AllConvReads + Width) + (IF port \in {"bias", "result"} THEN m - Low(h) ELSE 0)
  BY DEF Reads, DenseReads, Call
<1>4. Reads(h, Finished) = (AllConvReads + Width) + Width
  BY DEF Reads, Finished, Call
<1> QED BY <1>1, <1>2, <1>3, <1>4

\* A call of do_conv that sends reads nothing.
LEMMA ConvReadsSame ==
  ASSUME NEW h \in Harts, NEW c \in Calls(h), c.acc = "conv", c.port # "result"
  PROVE  Reads(h, NextConv(h, c)) = Reads(h, c)
<1>1. PICK m \in First(h, Filters) .. Past(h, Filters) - 1 :
           \/ \E k \in 1 .. NumWeights : c = Call("conv", "weight", m, 0, k)
           \/ \E p \in 0 .. Rows - 1, k \in 1 .. RowLen : c = Call("conv", "source", m, p, k)
           \/ \E p \in 0 .. Rows - 1, k \in 1 .. Pooled :
                ReadsAfter(p) /\ c = Call("conv", "result", m, p, k)
  BY ConvCall
<1>2. \A port, p, k : Call("conv", port, m, p, k).port = port
  BY DEF Call
<1>3. ASSUME NEW k \in 1 .. NumWeights, c = Call("conv", "weight", m, 0, k)
      PROVE  Reads(h, NextConv(h, c)) = Reads(h, c)
  <2>1. \/ NextConv(h, c) = Call("conv", "weight", m, 0, k + 1)
        \/ NextConv(h, c) = Call("conv", "source", m, 0, 1)
    BY <1>3, NextConvWeight
  <2> QED BY <1>3, <2>1, ReadsOfCall
<1>4. ASSUME NEW p \in 0 .. Rows - 1, NEW k \in 1 .. RowLen, c = Call("conv", "source", m, p, k)
      PROVE  Reads(h, NextConv(h, c)) = Reads(h, c)
  <2>1. \/ NextConv(h, c) = Call("conv", "source", m, p, k + 1)
        \/ NextConv(h, c) = Call("conv", "result", m, p, 1)
        \/ ~ReadsAfter(p) /\ NextConv(h, c) = Call("conv", "source", m, p + 1, 1)
    BY <1>4, NextConvSource
  <2>2. ~ReadsAfter(p) => PairsRead(p + 1) = PairsRead(p)
    BY PairsStep
  <2> QED BY <1>4, <2>1, <2>2, ReadsOfCall
<1> QED BY <1>1, <1>2, <1>3, <1>4

\* A call of do_conv that reads adds one result.
LEMMA ConvReadsNext ==
  ASSUME NEW h \in Harts, NEW m, m \in First(h, Filters) .. Past(h, Filters) - 1,
         NEW p, p \in 0 .. Rows - 1, NEW k, k \in 1 .. Pooled, ReadsAfter(p),
         NEW c, c = Call("conv", "result", m, p, k)
  PROVE  Reads(h, NextConv(h, c)) = Reads(h, c) + 1
<1>1. PICK x, i : x = m - First(h, Filters) /\ i = PairsRead(p)
  OBVIOUS
<1>2. First(h, Filters) \in Nat /\ Past(h, Filters) = First(h, Filters) + Share(Filters)
      /\ Share(Filters) \in Nat
  BY FilterHalf
<1>3. x \in Nat /\ i \in Nat /\ (m + 1) - First(h, Filters) = x + 1 /\ k \in Nat
  BY <1>1, <1>2, PairsStep
<1>4. Reads(h, c) = Place(x, i, k)
  BY <1>1, ReadsOfCall
<1>5. CASE k < Pooled /\ NextConv(h, c) = Call("conv", "result", m, p, k + 1)
  <2>1. Reads(h, NextConv(h, c)) = Place(x, i, k + 1)
    BY <1>1, <1>5, ReadsOfCall
  <2>2. \A q \in Nat : Place(x, i, q + 1) = Place(x, i, q) + 1
    BY <1>3, PlaceNext
  <2> QED BY <1>3, <1>4, <2>1, <2>2
<1>6. CASE k = Pooled /\ NextConv(h, c) = NextRow(h, c)
  <2>1. Place(x, i + 1, 1) = Reads(h, c) + 1
    BY <1>3, <1>4, <1>6, PlaceNext
  <2>2. PairsRead(p + 1) = i + 1 /\ PairsRead(0) = 0 /\ (p + 1 = Rows => i + 1 = Pairs)
    BY <1>1, PairsStep
  <2>3. CASE p + 1 < Rows /\ NextConv(h, c) = Call("conv", "source", m, p + 1, 1)
    BY <1>1, <2>1, <2>2, <2>3, ReadsOfCall
  <2>4. CASE p + 1 = Rows /\ NextConv(h, c) = Call("conv", "weight", m + 1, 0, 1)
    <3>1. Reads(h, NextConv(h, c)) = Place(x + 1, 0, 1)
      BY <1>3, <2>2, <2>4, ReadsOfCall
    <3> QED BY <1>3, <2>1, <2>2, <2>4, <3>1, PlaceNext
  <2>5. CASE /\ p + 1 = Rows /\ ~(m + 1 < Past(h, Filters))
             /\ NextConv(h, c) = Call("fc1", "start", 0, 0, 0)
    <3>1. Reads(h, NextConv(h, c)) = AllConvReads
      BY <2>5, ReadsOfCall, AllConvNat
    <3>2. x + 1 = Share(Filters)
      BY <1>1, <1>2, <2>5
    <3>3. Place(x + 1, 0, 1) = AllConvReads
      BY <1>3, <3>2, PlaceNext
    <3> QED BY <1>3, <2>1, <2>2, <2>5, <3>1, <3>3, PlaceNext
  <2> QED BY <1>6, <2>3, <2>4, <2>5, NextRowIs
<1> QED BY <1>5, <1>6, NextConvResult

\* A call of do_fc1 or do_fc3 that sends reads nothing.
LEMMA DenseReadsSame ==
  ASSUME NEW h \in Harts, NEW a \in Dense, NEW c \in Calls(h), c.acc = a, c.port # "result"
  PROVE  Reads(h, NextDense(h, c)) = Reads(h, c)
<1>1. Low(h) \in Nat /\ Inputs \in Nat
  BY OutputHalf, Sizes
<1>2. PICK B : B = IF a = "fc1" THEN AllConvReads ELSE AllConvReads + Width
  OBVIOUS
<1>3. \A port, m, p : Reads(h, Call(a, port, m, p, 0)) =
        B + (IF port \in {"bias", "result"} THEN m - Low(h) ELSE 0)
  BY <1>2, ReadsOfCall DEF Dense
<1>4. \A port, m, p : Call(a, port, m, p, 0).port = port
  BY DEF Call
<1>5. ASSUME NEW port \in {"start", "end"}, c = Call(a, port, 0, 0, 0)
      PROVE  Reads(h, NextDense(h, c)) = Reads(h, c)
  BY <1>3, <1>5, NextStart
<1>6. ASSUME NEW i \in 0 .. Inputs - 1, c = Call(a, "source", 0, i, 0)
      PROVE  Reads(h, NextDense(h, c)) = Reads(h, c)
  BY <1>3, <1>6, NextSource
<1>7. ASSUME NEW m \in Low(h) .. High(h) - 1, NEW i \in 0 .. Inputs - 1,
             c = Call(a, "weight", m, i, 0)
      PROVE  Reads(h, NextDense(h, c)) = Reads(h, c)
  <2>1. m \in Nat /\ i \in Nat
    BY <1>1
  <2>2. \/ NextDense(h, c) = Call(a, "weight", m + 1, i, 0)
        \/ NextDense(h, c) = Call(a, "source", 0, i + 1, 0)
        \/ NextDense(h, c) = OutputCall(a, Low(h))
    BY <1>7, <2>1, NextWeight
  <2>3. Reads(h, c) = B + 0
    BY <1>3, <1>7
  <2>4. NextDense(h, c) = OutputCall(a, Low(h)) =>
          Reads(h, NextDense(h, c)) = B + (Low(h) - Low(h))
    <3>1. OutputCall(a, Low(h)) \in {Call(a, "bias", Low(h), 0, 0), Call(a, "result", Low(h), 0, 0)}
      BY DEF OutputCall
    <3> QED BY <1>3, <3>1
  <2>5. Low(h) - Low(h) = 0
    BY <1>1
  <2> QED BY <1>3, <2>2, <2>3, <2>4, <2>5
<1>8. ASSUME NEW m \in Low(h) .. High(h) - 1, a = "fc3", c = Call(a, "bias", m, 0, 0)
      PROVE  Reads(h, NextDense(h, c)) = Reads(h, c)
  BY <1>3, <1>8, NextBias
<1>9. \A m : c # Call(a, "result", m, 0, 0)
  BY <1>4
<1> QED BY <1>5, <1>6, <1>7, <1>8, <1>9, DenseCall

\* A call of do_fc1 or do_fc3 that reads adds one result.
LEMMA DenseReadsNext ==
  ASSUME NEW h \in Harts, NEW a \in Dense, NEW m, m \in Low(h) .. High(h) - 1,
         NEW c, c = Call(a, "result", m, 0, 0)
  PROVE  Reads(h, NextDense(h, c)) = Reads(h, c) + 1
<1>1. /\ Width \in Nat \ {0} /\ Low(h) \in Nat /\ High(h) = Low(h) + Width
  BY OutputHalf
<1>2. PICK B : B = IF a = "fc1" THEN AllConvReads ELSE AllConvReads + Width
  OBVIOUS
<1>3. \A port, n, p : Reads(h, Call(a, port, n, p, 0)) =
        B + (IF port \in {"bias", "result"} THEN n - Low(h) ELSE 0)
  BY <1>2, ReadsOfCall DEF Dense
<1>4. Reads(h, Call("fc3", "start", 0, 0, 0)) = (AllConvReads + Width) + 0
      /\ Reads(h, Finished) = (AllConvReads + Width) + Width
  BY ReadsOfCall
<1> HIDE DEF Width
<1>5. B \in Nat /\ AllConvReads \in Nat
  BY <1>1, <1>2, AllConvNat
<1>6. m \in Nat /\ Reads(h, c) = B + (m - Low(h))
  BY <1>1, <1>3
<1>7. CASE m + 1 < High(h)
  <2>1. NextDense(h, c) = OutputCall(a, m + 1)
    BY <1>6, <1>7, NextResult
  <2>2. OutputCall(a, m + 1) \in {Call(a, "bias", m + 1, 0, 0), Call(a, "result", m + 1, 0, 0)}
    BY DEF OutputCall
  <2>3. Reads(h, NextDense(h, c)) = B + ((m + 1) - Low(h))
    BY <1>3, <2>1, <2>2
  <2> QED BY <1>1, <1>5, <1>6, <2>3
<1>8. CASE ~(m + 1 < High(h))
  <2>1. m - Low(h) = Width - 1
    BY <1>1, <1>6, <1>8
  <2>2. \/ a = "fc1" /\ NextDense(h, c) = Call("fc3", "start", 0, 0, 0)
        \/ a = "fc3" /\ NextDense(h, c) = Finished
    BY <1>6, <1>8, NextResult
  <2>3. Reads(h, NextDense(h, c)) = B + Width
    <3>1. CASE a = "fc1" /\ NextDense(h, c) = Call("fc3", "start", 0, 0, 0)
      BY <1>1, <1>2, <1>4, <1>5, <3>1
    <3>2. CASE a = "fc3" /\ NextDense(h, c) = Finished
      BY <1>2, <1>4, <3>2
    <3> QED BY <2>2, <3>1, <3>2
  <2> QED BY <1>1, <1>5, <1>6, <2>1, <2>3
<1> QED BY <1>7, <1>8

\* The outputs of the layers, one after the other.
LEMMA GoldenParts ==
  ASSUME NEW h \in Harts
  PROVE  /\ IsSeq(Golden[h]) /\ Len(Golden[h]) = (AllConvReads + Width) + Width
         /\ \A n \in 1 .. AllConvReads : Golden[h][n] = GoldenConv(h)[n]
         /\ \A j \in 0 .. Width - 1 :
              /\ Golden[h][AllConvReads + (j + 1)] = DenseOutput("fc1", Low(h) + j)
              /\ Golden[h][(AllConvReads + Width) + (j + 1)] = DenseOutput("fc3", Low(h) + j)
<1>1. Width \in Nat \ {0} /\ Low(h) \in Nat /\ AllConvReads \in Nat
  BY OutputHalf, AllConvNat
<1>2. IsSeq(GoldenConv(h)) /\ Len(GoldenConv(h)) = AllConvReads
  BY AllConvNat DEF GoldenConv, AllConvReads, IsSeq
<1>3. \A a : IsSeq(GoldenDense(h, a)) /\ Len(GoldenDense(h, a)) = Width
  BY <1>1 DEF GoldenDense, Width, IsSeq
<1>4. ASSUME NEW a, NEW j, j \in 0 .. Width - 1
      PROVE  GoldenDense(h, a)[j + 1] = DenseOutput(a, Low(h) + j)
  <2>1. j + 1 \in 1 .. Share(Outputs)
    BY <1>1, <1>4 DEF Width
  <2>2. GoldenDense(h, a)[j + 1] = DenseOutput(a, First(h, Outputs) + (j + 1) - 1)
    BY <2>1 DEF GoldenDense
  <2>3. First(h, Outputs) + (j + 1) - 1 = Low(h) + j
    BY <1>1, <1>4 DEF Low
  <2> QED BY <2>2, <2>3
<1>5. PICK A, B, C : A = GoldenConv(h) /\ B = GoldenDense(h, "fc1") /\ C = GoldenDense(h, "fc3")
  OBVIOUS
<1>6. Golden[h] = (A \o B) \o C
  BY <1>5, Zenon DEF Golden
<1> HIDE DEF Width
<1>7. IsSeq(A) /\ IsSeq(B) /\ IsSeq(C) /\ Len(A) = AllConvReads /\ Len(B) = Width /\ Len(C) = Width
  BY <1>2, <1>3, <1>5
<1>8. PICK D : D = A \o B
  OBVIOUS
<1>9. /\ IsSeq(D) /\ Len(D) = AllConvReads + Width
      /\ \A i \in 1 .. AllConvReads : D[i] = A[i]
      /\ \A i \in 1 .. Width : D[AllConvReads + i] = B[i]
  <2>1. Joined(D, A, B)
    BY <1>7, <1>8, SeqConcat
  <2> QED BY <1>7, <2>1 DEF Joined
<1>10. /\ IsSeq(Golden[h]) /\ Len(Golden[h]) = (AllConvReads + Width) + Width
       /\ \A i \in 1 .. AllConvReads + Width : Golden[h][i] = D[i]
       /\ \A i \in 1 .. Width : Golden[h][(AllConvReads + Width) + i] = C[i]
  <2>1. Joined(Golden[h], D, C)
    BY <1>6, <1>7, <1>8, <1>9, SeqConcat
  <2> QED BY <1>7, <1>9, <2>1 DEF Joined
<1>11. ASSUME NEW n \in 1 .. AllConvReads PROVE Golden[h][n] = GoldenConv(h)[n]
  <2>1. n \in 1 .. AllConvReads + Width
    BY <1>1
  <2> QED BY <1>5, <1>9, <1>10, <2>1
<1>12. ASSUME NEW j \in 0 .. Width - 1
       PROVE  /\ Golden[h][AllConvReads + (j + 1)] = DenseOutput("fc1", Low(h) + j)
              /\ Golden[h][(AllConvReads + Width) + (j + 1)] = DenseOutput("fc3", Low(h) + j)
  <2>1. j + 1 \in 1 .. Width /\ AllConvReads + (j + 1) \in 1 .. AllConvReads + Width
    BY <1>1
  <2>2. B[j + 1] = DenseOutput("fc1", Low(h) + j) /\ C[j + 1] = DenseOutput("fc3", Low(h) + j)
    BY <1>4, <1>5
  <2> QED BY <1>9, <1>10, <2>1, <2>2
<1> QED BY <1>10, <1>11, <1>12

\* The result that the program reads is the next output.
LEMMA ConvIsGolden ==
  ASSUME NEW h \in Harts, NEW m, m \in First(h, Filters) .. Past(h, Filters) - 1,
         NEW p, p \in 0 .. Rows - 1, NEW k, k \in 1 .. Pooled, ReadsAfter(p),
         NEW c, c = Call("conv", "result", m, p, k), NEW n, n = Reads(h, c)
  PROVE  /\ n \in Nat /\ n + 1 \in 1 .. Len(Golden[h])
         /\ Golden[h][n + 1] = RowPair(m, p, k)
<1>1. PICK x, i : x = m - First(h, Filters) /\ i = PairsRead(p)
  OBVIOUS
<1>2. First(h, Filters) \in Nat /\ Past(h, Filters) = First(h, Filters) + Share(Filters)
      /\ Share(Filters) \in Nat
  BY FilterHalf
<1>3. /\ x \in 0 .. Share(Filters) - 1 /\ First(h, Filters) + x = m
      /\ i \in 0 .. Pairs - 1 /\ p = R + 2 * i
  BY <1>1, <1>2, PairsStep
<1>4. n = Place(x, i, k)
  BY <1>1, ReadsOfCall
<1>5. /\ n \in Nat /\ n + 1 <= AllConvReads
      /\ (n \div Pooled) \div Pairs = x /\ (n \div Pooled) % Pairs = i /\ n % Pooled = k - 1
  BY <1>3, <1>4, PlaceIs
<1>6. Width \in Nat /\ AllConvReads \in Nat
  BY OutputHalf, AllConvNat
<1> HIDE DEF Width
<1>7. n + 1 \in 1 .. AllConvReads /\ n + 1 \in 1 .. Len(Golden[h]) /\ (n + 1) - 1 = n
  BY <1>5, <1>6, GoldenParts
<1>8. Golden[h][n + 1] = GoldenConv(h)[n + 1]
  BY <1>7, GoldenParts
<1>9. GoldenConv(h)[n + 1] =
        PooledOutput(First(h, Filters) + (((n + 1) - 1) \div Pooled) \div Pairs,
                     (((n + 1) - 1) \div Pooled) % Pairs, (((n + 1) - 1) % Pooled) + 1)
  BY <1>7, Zenon DEF GoldenConv, AllConvReads
<1>10. (k - 1) + 1 = k
  BY Sizes
<1>11. Golden[h][n + 1] = PooledOutput(m, i, k)
  BY <1>3, <1>5, <1>7, <1>8, <1>9, <1>10, Zenon
<1>12. R - 1 + 2 * i = p - 1 /\ R + 2 * i = p
  BY <1>3, Sizes
<1>13. PooledOutput(m, i, k) = RowPair(m, p, k)
  BY <1>12, Zenon DEF PooledOutput, RowPair
<1> QED BY <1>5, <1>7, <1>11, <1>13

\* The same of a dense layer.
LEMMA DenseIsGolden ==
  ASSUME NEW h \in Harts, NEW a \in Dense, NEW m, m \in Low(h) .. High(h) - 1,
         NEW c, c = Call(a, "result", m, 0, 0), NEW n, n = Reads(h, c)
  PROVE  /\ n \in Nat /\ n + 1 \in 1 .. Len(Golden[h])
         /\ Golden[h][n + 1] = DenseOutput(a, m)
<1>1. /\ Width \in Nat \ {0} /\ Low(h) \in Nat /\ High(h) = Low(h) + Width
      /\ AllConvReads \in Nat
  BY OutputHalf, AllConvNat
<1>2. PICK B : B = IF a = "fc1" THEN AllConvReads ELSE AllConvReads + Width
  OBVIOUS
<1>3. n = B + (m - Low(h))
  BY <1>2, ReadsOfCall DEF Dense
<1>4. PICK j : j = m - Low(h)
  OBVIOUS
<1>5. \A x \in 0 .. Width - 1 : Golden[h][B + (x + 1)] = DenseOutput(a, Low(h) + x)
  <2>1. CASE a = "fc1"
    BY <1>2, <2>1, GoldenParts
  <2>2. CASE a = "fc3"
    BY <1>2, <2>2, GoldenParts
  <2> QED BY <2>1, <2>2 DEF Dense
<1>6. Len(Golden[h]) = (AllConvReads + Width) + Width
  BY GoldenParts
<1> HIDE DEF Width
<1>7. /\ j \in 0 .. Width - 1 /\ n = B + j /\ Low(h) + j = m /\ n + 1 = B + (j + 1)
      /\ n \in Nat /\ n + 1 \in 1 .. Len(Golden[h])
  <2>1. j \in 0 .. Width - 1 /\ Low(h) + j = m
    BY <1>1, <1>4
  <2>2. B \in Nat /\ B + Width <= (AllConvReads + Width) + Width
    BY <1>1, <1>2
  <2>3. n = B + j
    BY <1>3, <1>4
  <2> QED BY <1>1, <1>6, <2>1, <2>2, <2>3
<1> QED BY <1>5, <1>7

-----------------------------------------------------------------------------
(***************************************************************************)
(* The steps of a hart, its driver calls and its accelerators.             *)
(***************************************************************************)
\* Queues q1 are queues q but for x in one FIFO.
Changed(q1, q, a, p, x) ==
  /\ Queues(q1) /\ q1[a][p] = x
  /\ \A b \in Accelerators, o \in Ports : b # a \/ o # p => q1[b][o] = q[b][o]

\* One FIFO of a hart is given other contents.
LEMMA QueueChanged ==
  ASSUME NEW q, Queues(q), NEW a \in Accelerators, NEW p \in Ports,
         a = "conv" => p \notin Unused, NEW x, IsSeq(x), Len(x) <= FifoSize, NEW q1, q1 = [q EXCEPT ![a][p] = x]
  PROVE  Changed(q1, q, a, p, x)
<1>1. q1 = [b \in Accelerators |-> [o \in Ports |-> IF b = a /\ o = p THEN x ELSE q[b][o]]]
  BY DEF Queues
<1>2. \A b \in Accelerators, o \in Ports :
        q1[b][o] = IF b = a /\ o = p THEN x ELSE q[b][o]
  BY <1>1
<1>3. Queues(q1)
  <2>1. q1 = [b \in Accelerators |-> [o \in Ports |-> q1[b][o]]]
    BY <1>1
  <2>2. \A b \in Accelerators, o \in Ports : IsSeq(q1[b][o]) /\ Len(q1[b][o]) <= FifoSize
    BY <1>2 DEF Queues
  <2>3. \A o \in Unused : q1["conv"][o] = <<>>
    BY <1>2 DEF Queues, Unused, Accelerators, Ports
  <2> QED BY <2>1, <2>2, <2>3 DEF Queues
<1> QED BY <1>2, <1>3 DEF Changed

\* The convolution is no dense layer, and these are the ports.
LEMMA PortNames ==
  /\ "conv" \in Accelerators /\ Dense \subseteq Accelerators /\ "conv" \notin Dense
  /\ {"weight", "source", "start", "end", "bias", "result"} = Ports
BY DEF Accelerators, Dense, Ports

\* The other accelerators do not notice.
LEMMA ConvFrame ==
  ASSUME NEW c, NEW q, NEW u, ConvInv(c, q, u), NEW q1, NEW a, a \in Dense, NEW p, NEW x,
         Changed(q1, q, a, p, x)
  PROVE  ConvInv(c, q1, u)
<1>1. /\ q1["conv"]["weight"] = q["conv"]["weight"]
      /\ q1["conv"]["source"] = q["conv"]["source"]
      /\ q1["conv"]["result"] = q["conv"]["result"]
  BY PortNames DEF Changed
<1> QED BY <1>1, Zenon DEF ConvInv

\* A dense layer does not notice another accelerator's FIFOs.
LEMMA DenseFrame ==
  ASSUME NEW h, NEW b, b \in Dense, NEW c, NEW q, NEW f, DenseInv(h, b, c, q, f),
         NEW q1, NEW a, a # b, NEW p, NEW x, Changed(q1, q, a, p, x)
  PROVE  DenseInv(h, b, c, q1, f)
<1>1. /\ q1[b]["start"] = q[b]["start"] /\ q1[b]["end"] = q[b]["end"]
      /\ q1[b]["source"] = q[b]["source"] /\ q1[b]["weight"] = q[b]["weight"]
      /\ q1[b]["bias"] = q[b]["bias"] /\ q1[b]["result"] = q[b]["result"]
  BY PortNames DEF Changed
<1> QED BY <1>1, Zenon DEF DenseInv

\* The FIFOs of one accelerator.
LEMMA ConvQueues ==
  ASSUME NEW c, NEW q, NEW u, NEW q1, NEW p, NEW x, Changed(q1, q, "conv", p, x)
  PROVE  /\ p = "weight" => (ConvInv(c, q1, u) <=>
              ConvOf(c, x, q["conv"]["source"], q["conv"]["result"], u))
         /\ p = "source" => (ConvInv(c, q1, u) <=>
              ConvOf(c, q["conv"]["weight"], x, q["conv"]["result"], u))
         /\ p = "result" => (ConvInv(c, q1, u) <=>
              ConvOf(c, q["conv"]["weight"], q["conv"]["source"], x, u))
<1>1. \A o \in Ports : q1["conv"][o] = IF o = p THEN x ELSE q["conv"][o]
  BY PortNames DEF Changed
<1>2. /\ q1["conv"]["weight"] = (IF "weight" = p THEN x ELSE q["conv"]["weight"])
      /\ q1["conv"]["source"] = (IF "source" = p THEN x ELSE q["conv"]["source"])
      /\ q1["conv"]["result"] = (IF "result" = p THEN x ELSE q["conv"]["result"])
  BY <1>1, PortNames
<1>3. CASE p = "weight"
  <2>1. /\ q1["conv"]["weight"] = x /\ q1["conv"]["source"] = q["conv"]["source"]
        /\ q1["conv"]["result"] = q["conv"]["result"]
    BY <1>2, <1>3
  <2> QED BY <1>3, <2>1 DEF ConvInv
<1>4. CASE p = "source"
  <2>1. /\ q1["conv"]["source"] = x /\ q1["conv"]["weight"] = q["conv"]["weight"]
        /\ q1["conv"]["result"] = q["conv"]["result"]
    BY <1>2, <1>4
  <2> QED BY <1>4, <2>1 DEF ConvInv
<1>5. CASE p = "result"
  <2>1. /\ q1["conv"]["result"] = x /\ q1["conv"]["weight"] = q["conv"]["weight"]
        /\ q1["conv"]["source"] = q["conv"]["source"]
    BY <1>2, <1>5
  <2> QED BY <1>5, <2>1 DEF ConvInv
<1> QED BY <1>3, <1>4, <1>5

\* DenseInv with x at port p.
DenseWith(h, a, c, q, p, x, f) ==
  DenseOf(h, a, c,
          IF p = "start" THEN x ELSE q[a]["start"], IF p = "end" THEN x ELSE q[a]["end"],
          IF p = "source" THEN x ELSE q[a]["source"], IF p = "weight" THEN x ELSE q[a]["weight"],
          IF p = "bias" THEN x ELSE q[a]["bias"], IF p = "result" THEN x ELSE q[a]["result"], f)

\* The invariant of a dense layer, one of whose FIFOs has changed.
LEMMA DenseQueues ==
  ASSUME NEW h, NEW a, a \in Dense, NEW c, NEW q, NEW f, NEW q1, NEW p, NEW x,
         Changed(q1, q, a, p, x), DenseWith(h, a, c, q, p, x, f)
  PROVE  DenseInv(h, a, c, q1, f)
<1>1. \A o \in Ports : q1[a][o] = IF p = o THEN x ELSE q[a][o]
  BY PortNames DEF Changed
<1>2. /\ q1[a]["start"] = (IF p = "start" THEN x ELSE q[a]["start"])
      /\ q1[a]["end"] = (IF p = "end" THEN x ELSE q[a]["end"])
      /\ q1[a]["source"] = (IF p = "source" THEN x ELSE q[a]["source"])
      /\ q1[a]["weight"] = (IF p = "weight" THEN x ELSE q[a]["weight"])
      /\ q1[a]["bias"] = (IF p = "bias" THEN x ELSE q[a]["bias"])
      /\ q1[a]["result"] = (IF p = "result" THEN x ELSE q[a]["result"])
  BY <1>1, PortNames
<1> QED BY <1>2, Zenon DEF DenseInv, DenseWith

\* The program sends an element to the dense layer it is in.
LEMMA SendDense ==
  ASSUME NEW h \in Harts, NEW a \in Dense, NEW c \in Calls(h), c.acc = a,
         NEW p, p = c.port, p # "result", NEW q, Queues(q), NEW f, IsDense(f),
         DenseInv(h, a, c, q, f), NEW x, x = Append(q[a][p], Value(h, c)),
         NEW d, d = NextDense(h, c)
  PROVE  DenseWith(h, a, d, q, p, x, f)
<1>1. PICK ss, se, s, w, bs, r :
        /\ ss = q[a]["start"] /\ se = q[a]["end"] /\ s = q[a]["source"] /\ w = q[a]["weight"]
        /\ bs = q[a]["bias"] /\ r = q[a]["result"]
  OBVIOUS
<1>2. IsSeq(ss) /\ IsSeq(se) /\ IsSeq(s) /\ IsSeq(w) /\ IsSeq(bs) /\ IsSeq(r)
  BY <1>1, PortNames DEF Queues
<1>3. DenseOf(h, a, c, ss, se, s, w, bs, r, f)
  BY <1>1, Zenon DEF DenseInv
<1>4. \A port, m, y : Call(a, port, m, y, 0).port = port
  BY DEF Call
<1>5. ASSUME c = Call(a, "start", 0, 0, 0)
      PROVE  DenseWith(h, a, d, q, p, x, f)
  <2>1. p = "start" /\ x = Append(ss, Value(h, c))
    BY <1>1, <1>4, <1>5
  <2>2. Longer(x, ss, Value(h, c))
    BY <1>2, <2>1, SeqAppend
  <2>3. DenseOf(h, a, d, x, se, s, w, bs, r, f)
    BY <1>2, <1>3, <1>5, <2>2, SendStart
  <2>4. DenseWith(h, a, d, q, "start", x, f)
    BY <1>1, <2>3 DEF DenseWith
  <2> QED BY <2>1, <2>4
<1>6. ASSUME c = Call(a, "end", 0, 0, 0)
      PROVE  DenseWith(h, a, d, q, p, x, f)
  <2>1. p = "end" /\ x = Append(se, Value(h, c))
    BY <1>1, <1>4, <1>6
  <2>2. Longer(x, se, Value(h, c))
    BY <1>2, <2>1, SeqAppend
  <2>3. DenseOf(h, a, d, ss, x, s, w, bs, r, f)
    BY <1>2, <1>3, <1>6, <2>2, SendEnd
  <2>4. DenseWith(h, a, d, q, "end", x, f)
    BY <1>1, <2>3 DEF DenseWith
  <2> QED BY <2>1, <2>4
<1>7. ASSUME NEW i \in 0 .. Inputs - 1, c = Call(a, "source", 0, i, 0)
      PROVE  DenseWith(h, a, d, q, p, x, f)
  <2>1. p = "source" /\ x = Append(s, Value(h, c))
    BY <1>1, <1>4, <1>7
  <2>2. Longer(x, s, Value(h, c))
    BY <1>2, <2>1, SeqAppend
  <2>3. i \in Nat
    BY Sizes
  <2>4. DenseOf(h, a, d, ss, se, x, w, bs, r, f)
    BY <1>2, <1>3, <1>7, <2>2, <2>3, SendSource
  <2>5. DenseWith(h, a, d, q, "source", x, f)
    BY <1>1, <2>4 DEF DenseWith
  <2> QED BY <2>1, <2>5
<1>8. ASSUME NEW m \in Low(h) .. High(h) - 1, NEW i \in 0 .. Inputs - 1,
             c = Call(a, "weight", m, i, 0)
      PROVE  DenseWith(h, a, d, q, p, x, f)
  <2>1. p = "weight" /\ x = Append(w, Value(h, c))
    BY <1>1, <1>4, <1>8
  <2>2. Longer(x, w, Value(h, c))
    BY <1>2, <2>1, SeqAppend
  <2>3. DenseOf(h, a, d, ss, se, s, x, bs, r, f)
    BY <1>2, <1>3, <1>8, <2>2, SendWeight
  <2>4. DenseWith(h, a, d, q, "weight", x, f)
    BY <1>1, <2>3 DEF DenseWith
  <2> QED BY <2>1, <2>4
<1>9. ASSUME NEW m \in Low(h) .. High(h) - 1, a = "fc3", c = Call(a, "bias", m, 0, 0)
      PROVE  DenseWith(h, a, d, q, p, x, f)
  <2>1. p = "bias" /\ x = Append(bs, Value(h, c))
    BY <1>1, <1>4, <1>9
  <2>2. Longer(x, bs, Value(h, c))
    BY <1>2, <2>1, SeqAppend
  <2>3. DenseOf(h, a, d, ss, se, s, w, x, r, f)
    BY <1>2, <1>3, <1>9, <2>2, SendBias
  <2>4. DenseWith(h, a, d, q, "bias", x, f)
    BY <1>1, <2>3 DEF DenseWith
  <2> QED BY <2>1, <2>4
<1>10. \A m : c # Call(a, "result", m, 0, 0)
  BY <1>4
<1> QED BY <1>5, <1>6, <1>7, <1>8, <1>9, <1>10, DenseCall

\* The call that follows a call of the program.
LEMMA NextHart ==
  ASSUME NEW h \in Harts, NEW c \in Calls(h), c # Finished, NEW d,
         d = (IF c.acc = "conv" THEN NextConv(h, c) ELSE NextDense(h, c))
  PROVE  /\ d \in Calls(h)
         /\ \/ c.acc = "conv" /\ d = NextConv(h, c)
            \/ c.acc \in Dense /\ d = NextDense(h, c)
         /\ \A a \in Dense : c.acc # a => d.acc # a \/ d = Call(a, "start", 0, 0, 0)
         /\ c.acc # "conv" => d.acc # "conv"
         /\ c.port # "result" => Reads(h, d) = Reads(h, c)
<1>1. CASE c.acc = "conv"
  <2>1. d = NextConv(h, c)
    BY <1>1
  <2>2. d \in Calls(h)
    BY <1>1, <2>1, NextConvCall
  <2>3. c.port # "result" => Reads(h, d) = Reads(h, c)
    BY <1>1, <2>1, ConvReadsSame
  <2> QED BY <1>1, <2>1, <2>2, <2>3, ArrivesAtStart
<1>2. CASE c.acc # "conv"
  <2>1. d = NextDense(h, c) /\ c.acc \in Dense
    BY <1>2, CallAcc
  <2>2. PICK b \in Dense : c.acc = b
    BY <2>1
  <2>3. d \in Calls(h)
    BY <2>1, NextDenseCall
  <2>4. c.port # "result" => Reads(h, d) = Reads(h, c)
    BY <2>1, <2>2, DenseReadsSame
  <2>5. d.acc # "conv"
    <3>1. d.acc = b \/ d = Call("fc3", "start", 0, 0, 0) \/ d = Finished
      BY <2>1, <2>2, NextDenseAcc
    <3> QED BY <3>1, CallFields, PortNames
  <2> QED BY <1>2, <2>1, <2>3, <2>4, <2>5, ArrivesAtStart
<1> QED BY <1>1, <1>2

\* The ports of the accelerators.
LEMMA ConvPort ==
  ASSUME NEW h \in Harts, NEW c \in Calls(h), c.acc = "conv"
  PROVE  c.port \in {"weight", "source", "result"}
<1>1. \A m, p, k : /\ Call("conv", "weight", m, p, k).port = "weight"
                   /\ Call("conv", "source", m, p, k).port = "source"
                   /\ Call("conv", "result", m, p, k).port = "result"
  BY DEF Call
<1>2. PICK m \in First(h, Filters) .. Past(h, Filters) - 1 :
        \/ \E k \in 1 .. NumWeights : c = Call("conv", "weight", m, 0, k)
        \/ \E p \in 0 .. Rows - 1, k \in 1 .. RowLen : c = Call("conv", "source", m, p, k)
        \/ \E p \in 0 .. Rows - 1, k \in 1 .. Pooled :
             ReadsAfter(p) /\ c = Call("conv", "result", m, p, k)
  BY ConvCall
<1> QED BY <1>1, <1>2, Zenon

\* The ports of a dense layer.
LEMMA DensePort ==
  ASSUME NEW h \in Harts, NEW c \in Calls(h), c.acc \in Dense
  PROVE  c.port \in Ports
<1>1. \A a, port, m, p : Call(a, port, m, p, 0).port = port
  BY DEF Call
<1>2. PICK a \in Dense : a = c.acc
  OBVIOUS
<1>3. \/ \E port \in {"start", "end"} : c = Call(a, port, 0, 0, 0)
      \/ \E i \in 0 .. Inputs - 1 : c = Call(a, "source", 0, i, 0)
      \/ \E m \in Low(h) .. High(h) - 1, i \in 0 .. Inputs - 1 : c = Call(a, "weight", m, i, 0)
      \/ \E m \in Low(h) .. High(h) - 1 : a = "fc3" /\ c = Call(a, "bias", m, 0, 0)
      \/ \E m \in Low(h) .. High(h) - 1 : c = Call(a, "result", m, 0, 0)
  BY <1>2, DenseCall
<1> QED BY <1>1, <1>3, PortNames

\* The results that do_fc1 and do_fc3 read.
LEMMA DenseResultCall ==
  ASSUME NEW h \in Harts, NEW c \in Calls(h), NEW a \in Dense, c.acc = a, c.port = "result"
  PROVE  \E m \in Low(h) .. High(h) - 1 : c = Call(a, "result", m, 0, 0)
<1>1. \A port, m, p : Call(a, port, m, p, 0).port = port
  BY DEF Call
<1>2. \/ \E port \in {"start", "end"} : c = Call(a, port, 0, 0, 0)
      \/ \E i \in 0 .. Inputs - 1 : c = Call(a, "source", 0, i, 0)
      \/ \E m \in Low(h) .. High(h) - 1, i \in 0 .. Inputs - 1 : c = Call(a, "weight", m, i, 0)
      \/ \E m \in Low(h) .. High(h) - 1 : a = "fc3" /\ c = Call(a, "bias", m, 0, 0)
      \/ \E m \in Low(h) .. High(h) - 1 : c = Call(a, "result", m, 0, 0)
  BY DenseCall
<1> QED BY <1>1, <1>2

\* The accelerators that the call is not for.
OthersAt(c, d, q, q1, h) ==
  /\ \A u : c.acc # "conv" /\ ConvInv(c, q, u) => ConvInv(d, q1, u)
  /\ \A a \in Dense : \A f :
       c.acc # a /\ IsDense(f) /\ DenseInv(h, a, c, q, f) => DenseInv(h, a, d, q1, f)

\* The accelerators the program is not in keep their invariants.
LEMMA OthersRest ==
  ASSUME NEW h \in Harts, NEW c \in Calls(h), c # Finished, NEW d,
         d = (IF c.acc = "conv" THEN NextConv(h, c) ELSE NextDense(h, c)),
         NEW q, NEW p, NEW x, NEW q1, Changed(q1, q, c.acc, p, x)
  PROVE  OthersAt(c, d, q, q1, h)
<1>1. PICK b : b = c.acc
  OBVIOUS
<1>2. /\ \A a \in Dense : c.acc # a => d.acc # a \/ d = Call(a, "start", 0, 0, 0)
      /\ c.acc # "conv" => d.acc # "conv" /\ c.acc \in Dense
  <2>1. c.acc # "conv" => c.acc \in Dense
    BY CallAcc
  <2> QED BY <2>1, NextHart
<1>3. ASSUME NEW u, c.acc # "conv", ConvInv(c, q, u) PROVE ConvInv(d, q1, u)
  <2>1. ConvInv(c, q1, u)
    BY <1>1, <1>2, <1>3, ConvFrame
  <2>2. d.acc # "conv"
    BY <1>2, <1>3
  <2> QED BY <1>3, <2>1, <2>2, Zenon DEF ConvInv, ConvOf
<1>4. ASSUME NEW a \in Dense, NEW f, c.acc # a, IsDense(f), DenseInv(h, a, c, q, f)
      PROVE  DenseInv(h, a, d, q1, f)
  <2>1. DenseInv(h, a, c, q1, f)
    BY <1>1, <1>4, DenseFrame
  <2>2. d.acc # a \/ d = Call(a, "start", 0, 0, 0)
    BY <1>2, <1>4
  <2>3. DenseOf(h, a, c, q1[a]["start"], q1[a]["end"], q1[a]["source"], q1[a]["weight"],
                q1[a]["bias"], q1[a]["result"], f)
    BY <2>1, Zenon DEF DenseInv
  <2>4. DenseOf(h, a, d, q1[a]["start"], q1[a]["end"], q1[a]["source"], q1[a]["weight"],
                q1[a]["bias"], q1[a]["result"], f)
    BY <1>4, <2>2, <2>3, DenseArrives
  <2> QED BY <2>4, Zenon DEF DenseInv
<1> QED BY <1>3, <1>4 DEF OthersAt

\* The hart sends an element.
LEMMA HartSends ==
  ASSUME NEW h \in Harts, NEW c, NEW q, NEW u, NEW f, NEW g, HartInv(h, c, q, u, f, g),
         c # Finished, NEW a, a = c.acc, NEW p, p = c.port, p # "result", Len(q[a][p]) < FifoSize,
         NEW x, x = Append(q[a][p], Value(h, c)), NEW q1, q1 = [q EXCEPT ![a][p] = x],
         NEW d, d = (IF c.acc = "conv" THEN NextConv(h, c) ELSE NextDense(h, c))
  PROVE  HartInv(h, d, q1, u, f, g)
<1>1. /\ c \in Calls(h) /\ Queues(q) /\ IsConv(u) /\ ConvInv(c, q, u)
      /\ \A b \in Dense : IsDense(f[b]) /\ DenseInv(h, b, c, q, f[b])
  BY DEF HartInv
<1>2. /\ d \in Calls(h) /\ Reads(h, d) = Reads(h, c)
      /\ \/ a = "conv" /\ d = NextConv(h, c)
         \/ a \in Dense /\ d = NextDense(h, c)
  BY <1>1, NextHart
<1>3. a \in Accelerators /\ p \in Ports /\ (a = "conv" => p \in {"weight", "source"})
  <2>1. CASE a = "conv"
    BY <1>1, <2>1, ConvPort, PortNames
  <2>2. CASE a \in Dense
    BY <1>1, <2>2, DensePort, PortNames
  <2> QED BY <1>2, <2>1, <2>2
<1>4. IsSeq(q[a][p])
  BY <1>1, <1>3 DEF Queues
<1>5. IsSeq(x) /\ Len(x) <= FifoSize
  <2>1. Longer(x, q[a][p], Value(h, c)) /\ Len(q[a][p]) \in Nat
    BY <1>4, SeqAppend, SeqLen
  <2>2. IsSeq(x) /\ Len(x) = Len(q[a][p]) + 1
    BY <2>1 DEF Longer
  <2> QED BY <2>1, <2>2, Sizes
<1>6. Changed(q1, q, a, p, x)
  BY <1>1, <1>3, <1>5, QueueChanged DEF Unused
<1>7. /\ \A v : a # "conv" /\ ConvInv(c, q, v) => ConvInv(d, q1, v)
      /\ \A b \in Dense : \A v :
           a # b /\ IsDense(v) /\ DenseInv(h, b, c, q, v) => DenseInv(h, b, d, q1, v)
  <2>1. Changed(q1, q, c.acc, p, x)
    BY <1>6, Zenon
  <2>2. OthersAt(c, d, q, q1, h)
    BY <1>1, <2>1, OthersRest
  <2> QED BY <2>2, Zenon DEF OthersAt
<1>8. ConvInv(d, q1, u)
  <2>1. CASE a = "conv"
    <3>1. PICK w, s, r : w = q["conv"]["weight"] /\ s = q["conv"]["source"] /\ r = q["conv"]["result"]
      OBVIOUS
    <3>2. IsSeq(w) /\ IsSeq(s) /\ ConvOf(c, w, s, r, u)
      BY <1>1, <3>1, PortNames DEF Queues, ConvInv
    <3>3. d = NextConv(h, c) /\ c.acc = "conv" /\ c.port # "result"
      BY <1>2, <2>1, PortNames
    <3>4. /\ c.port = "weight" => ConvOf(d, Append(w, Value(h, c)), s, r, u)
          /\ c.port = "source" => ConvOf(d, w, Append(s, Value(h, c)), r, u)
      BY <1>1, <3>2, <3>3, SendConv
    <3>5. CASE p = "weight"
      BY <1>6, <2>1, <3>1, <3>4, <3>5, ConvQueues
    <3>6. CASE p = "source"
      BY <1>6, <2>1, <3>1, <3>4, <3>6, ConvQueues
    <3> QED BY <1>3, <2>1, <3>5, <3>6
  <2>2. CASE a # "conv"
    BY <1>1, <1>7, <2>2
  <2> QED BY <2>1, <2>2
<1>9. \A b \in Dense : DenseInv(h, b, d, q1, f[b])
  <2> TAKE b \in Dense
  <2>1. PICK v : v = f[b]
    OBVIOUS
  <2>2. IsDense(v) /\ DenseInv(h, b, c, q, v)
    BY <1>1, <2>1
  <2>3. CASE a = b
    <3>1. d = NextDense(h, c) /\ c.acc = b
      BY <1>2, <2>3, PortNames
    <3>2. x = Append(q[b][p], Value(h, c)) /\ Changed(q1, q, b, p, x)
      BY <1>6, <2>3
    <3>3. DenseWith(h, b, d, q, p, x, v)
      BY <1>1, <2>2, <3>1, <3>2, SendDense
    <3>4. DenseInv(h, b, d, q1, v)
      BY <3>2, <3>3, DenseQueues
    <3> QED BY <2>1, <3>4
  <2>4. CASE a # b
    BY <1>7, <2>1, <2>2, <2>4
  <2> QED BY <2>3, <2>4
<1>10. GotInv(h, d, g)
  <2>1. GotInv(h, c, g)
    BY DEF HartInv
  <2> QED BY <1>2, <2>1, Zenon DEF GotInv
<1>11. f = [b \in Dense |-> f[b]] /\ Queues(q1)
  BY <1>6 DEF HartInv, Changed
<1> QED BY <1>1, <1>2, <1>8, <1>9, <1>10, <1>11 DEF HartInv

\* e is the output that the program reads after g.
NextGolden(h, g, e) ==
  /\ Len(g) \in Nat /\ Len(g) + 1 <= Len(Golden[h]) /\ e = Golden[h][Len(g) + 1]

\* What a hart has read is extended by the next golden result.
LEMMA GotNext ==
  ASSUME NEW h, NEW c, NEW g, GotInv(h, c, g), NEW n, n = Reads(h, c), n + 1 \in 1 .. Len(Golden[h]),
         NEW e, Golden[h][n + 1] = e, NEW d, Reads(h, d) = Reads(h, c) + 1
  PROVE  GotInv(h, d, Append(g, e)) /\ NextGolden(h, g, e)
<1>1. IsSeq(g) /\ Len(g) \in Nat /\ Len(g) = n
  BY SeqLen DEF GotInv
<1>2. PICK g1 : g1 = Append(g, e)
  OBVIOUS
<1>3. Longer(g1, g, e)
  BY <1>1, <1>2, SeqAppend
<1>4. IsSeq(g1) /\ Len(g1) = Reads(h, d)
  BY <1>1, <1>3 DEF Longer
<1>5. \A k \in 1 .. Len(g1) : k \in 1 .. Len(Golden[h]) /\ g1[k] = Golden[h][k]
  <2> TAKE k \in 1 .. Len(g1)
  <2>1. Len(g1) = Len(g) + 1
    BY <1>3 DEF Longer
  <2>2. CASE k \in 1 .. Len(g)
    <3>1. g1[k] = g[k]
      BY <1>3, <2>2 DEF Longer
    <3> QED BY <3>1, <2>2 DEF GotInv
  <2>3. CASE k = Len(g) + 1
    <3>1. g1[k] = e
      BY <1>3, <2>3 DEF Longer
    <3> QED BY <1>1, <2>3, <3>1
  <2> QED BY <1>1, <2>1, <2>2, <2>3
<1>6. NextGolden(h, g, e)
  BY <1>1 DEF NextGolden
<1> QED BY <1>2, <1>4, <1>5, <1>6 DEF GotInv

\* A result of accelerator a reaches the program.
ReadsOne(h, a, c, d, q, e) ==
  /\ e = Head(q[a]["result"])
  /\ Reads(h, d) = Reads(h, c) + 1
  /\ Reads(h, c) + 1 \in 1 .. Len(Golden[h]) /\ Golden[h][Reads(h, c) + 1] = e

\* A result of the convolution is read.
LEMMA ReadsConv ==
  ASSUME NEW h \in Harts, NEW c \in Calls(h), c.acc = "conv", c.port = "result",
         NEW q, Queues(q), q["conv"]["result"] # <<>>, NEW u, IsConv(u), ConvInv(c, q, u),
         NEW d, d = NextConv(h, c)
  PROVE  /\ ReadsOne(h, "conv", c, d, q, Head(q["conv"]["result"]))
         /\ ConvOf(d, q["conv"]["weight"], q["conv"]["source"], Tail(q["conv"]["result"]), u)
<1>1. PICK w, s, r : w = q["conv"]["weight"] /\ s = q["conv"]["source"] /\ r = q["conv"]["result"]
  OBVIOUS
<1>2. IsSeq(r) /\ r # <<>> /\ ConvOf(c, w, s, r, u)
  BY <1>1, PortNames DEF Queues, ConvInv
<1>3. ConvOf(d, w, s, Tail(r), u) /\ r[1] = RowPair(c.m, c.p, c.k)
  BY <1>2, ReadConv
<1>4. Head(r) = r[1]
  BY <1>2, SeqTail
<1>5. PICK m \in First(h, Filters) .. Past(h, Filters) - 1, p \in 0 .. Rows - 1, k \in 1 .. Pooled :
        ReadsAfter(p) /\ c = Call("conv", "result", m, p, k)
  BY ResultCall
<1>6. Head(r) = RowPair(m, p, k)
  <2>1. c.m = m /\ c.p = p /\ c.k = k
    BY <1>5 DEF Call
  <2> QED BY <1>3, <1>4, <2>1
<1>7. PICK n : n = Reads(h, c)
  OBVIOUS
<1>8. n \in Nat /\ n + 1 \in 1 .. Len(Golden[h]) /\ Golden[h][n + 1] = RowPair(m, p, k)
  BY <1>5, <1>7, ConvIsGolden
<1>9. Reads(h, d) = n + 1
  BY <1>5, <1>7, ConvReadsNext
<1>10. ReadsOne(h, "conv", c, d, q, Head(r))
  BY <1>1, <1>6, <1>7, <1>8, <1>9 DEF ReadsOne
<1> QED BY <1>1, <1>3, <1>10

\* A result of a dense layer is read.
LEMMA ReadsDense ==
  ASSUME NEW h \in Harts, NEW a \in Dense, NEW c \in Calls(h), c.acc = a, c.port = "result",
         NEW q, Queues(q), q[a]["result"] # <<>>, NEW f, IsDense(f), DenseInv(h, a, c, q, f),
         NEW d, d = NextDense(h, c)
  PROVE  /\ ReadsOne(h, a, c, d, q, Head(q[a]["result"]))
         /\ DenseWith(h, a, d, q, "result", Tail(q[a]["result"]), f)
<1>1. PICK ss, se, s, w, bs, r :
        /\ ss = q[a]["start"] /\ se = q[a]["end"] /\ s = q[a]["source"] /\ w = q[a]["weight"]
        /\ bs = q[a]["bias"] /\ r = q[a]["result"]
  OBVIOUS
<1>2. IsSeq(r) /\ r # <<>>
  BY <1>1, PortNames DEF Queues
<1>3. DenseOf(h, a, c, ss, se, s, w, bs, r, f)
  BY <1>1, Zenon DEF DenseInv
<1>4. PICK m \in Low(h) .. High(h) - 1 : c = Call(a, "result", m, 0, 0)
  BY DenseResultCall
<1>5. Shorter(Tail(r), r) /\ Head(r) = FirstOf(r)
  BY <1>2, SeqTail DEF FirstOf
<1>6. DenseOf(h, a, d, ss, se, s, w, bs, Tail(r), f) /\ FirstOf(r) = DenseOutput(a, m)
  BY <1>2, <1>3, <1>4, <1>5, ReadResult
<1>7. PICK n : n = Reads(h, c)
  OBVIOUS
<1>8. n \in Nat /\ n + 1 \in 1 .. Len(Golden[h]) /\ Golden[h][n + 1] = DenseOutput(a, m)
  BY <1>4, <1>7, DenseIsGolden
<1>9. Reads(h, d) = n + 1
  BY <1>4, <1>7, DenseReadsNext
<1>10. ReadsOne(h, a, c, d, q, Head(r))
  BY <1>1, <1>5, <1>6, <1>7, <1>8, <1>9 DEF ReadsOne
<1>11. DenseWith(h, a, d, q, "result", Tail(r), f)
  BY <1>1, <1>6 DEF DenseWith
<1> QED BY <1>1, <1>10, <1>11

\* The hart reads a result.
LEMMA HartReads ==
  ASSUME NEW h \in Harts, NEW c, NEW q, NEW u, NEW f, NEW g, HartInv(h, c, q, u, f, g),
         c # Finished, NEW a, a = c.acc, NEW p, p = c.port, p = "result", q[a][p] # <<>>,
         NEW x, x = Tail(q[a][p]), NEW e, e = Head(q[a][p]), NEW q1, q1 = [q EXCEPT ![a][p] = x],
         NEW d, d = (IF c.acc = "conv" THEN NextConv(h, c) ELSE NextDense(h, c))
  PROVE  HartInv(h, d, q1, u, f, Append(g, e)) /\ NextGolden(h, g, e)
<1>1. /\ c \in Calls(h) /\ Queues(q) /\ IsConv(u) /\ ConvInv(c, q, u) /\ GotInv(h, c, g)
      /\ \A b \in Dense : IsDense(f[b]) /\ DenseInv(h, b, c, q, f[b])
  BY DEF HartInv
<1>2. /\ d \in Calls(h)
      /\ \/ a = "conv" /\ d = NextConv(h, c)
         \/ a \in Dense /\ d = NextDense(h, c)
  BY <1>1, NextHart
<1>3. a \in Accelerators /\ "result" \in Ports
  BY <1>2, PortNames
<1>4. x = Tail(q[a]["result"]) /\ e = Head(q[a]["result"]) /\ q[a]["result"] # <<>>
  OBVIOUS
<1>5. IsSeq(x) /\ Len(x) <= FifoSize
  <2>1. IsSeq(q[a]["result"]) /\ Len(q[a]["result"]) <= FifoSize
    BY <1>1, <1>3 DEF Queues
  <2>2. Shorter(x, q[a]["result"])
    BY <1>4, <2>1, SeqTail
  <2>3. IsSeq(x) /\ Len(q[a]["result"]) = Len(x) + 1
    BY <2>2 DEF Shorter
  <2>4. Len(x) \in Nat
    BY <2>3, SeqLen
  <2> QED BY <2>1, <2>3, <2>4, Sizes
<1>6. Changed(q1, q, a, "result", x)
  <2>1. q1 = [q EXCEPT ![a]["result"] = x]
    OBVIOUS
  <2> QED BY <1>1, <1>3, <1>5, <2>1, QueueChanged DEF Unused
<1>7. /\ \A v : a # "conv" /\ ConvInv(c, q, v) => ConvInv(d, q1, v)
      /\ \A b \in Dense : \A v :
           a # b /\ IsDense(v) /\ DenseInv(h, b, c, q, v) => DenseInv(h, b, d, q1, v)
  <2>1. Changed(q1, q, c.acc, "result", x)
    BY <1>6, Zenon
  <2>2. OthersAt(c, d, q, q1, h)
    BY <1>1, <2>1, OthersRest
  <2> QED BY <2>2, Zenon DEF OthersAt
<1>8. ConvInv(d, q1, u) /\ (a = "conv" => ReadsOne(h, a, c, d, q, e))
  <2>1. CASE a = "conv"
    <3>1. d = NextConv(h, c) /\ c.acc = "conv"
      BY <1>2, <2>1, PortNames
    <3>2. q["conv"]["result"] # <<>>
      BY <1>4, <2>1
    <3>3. ReadsOne(h, "conv", c, d, q, e)
      BY <1>1, <1>4, <2>1, <3>1, <3>2, ReadsConv
    <3>4. ConvOf(d, q["conv"]["weight"], q["conv"]["source"], x, u)
      BY <1>1, <1>4, <2>1, <3>1, <3>2, ReadsConv
    <3>5. Changed(q1, q, "conv", "result", x)
      BY <1>6, <2>1
    <3> QED BY <2>1, <3>3, <3>4, <3>5, ConvQueues
  <2>2. CASE a # "conv"
    BY <1>1, <1>7, <2>2
  <2> QED BY <2>1, <2>2
<1>9. ASSUME NEW b \in Dense
      PROVE  DenseInv(h, b, d, q1, f[b]) /\ (a = b => ReadsOne(h, a, c, d, q, e))
  <2>1. PICK v : v = f[b]
    OBVIOUS
  <2>2. IsDense(v) /\ DenseInv(h, b, c, q, v)
    BY <1>1, <2>1
  <2>3. CASE a = b
    <3>1. d = NextDense(h, c) /\ c.acc = b
      BY <1>2, <2>3, PortNames
    <3>2. q[b]["result"] # <<>>
      BY <1>4, <2>3
    <3>3. ReadsOne(h, b, c, d, q, e)
      BY <1>1, <1>4, <2>2, <2>3, <3>1, <3>2, ReadsDense
    <3>4. DenseWith(h, b, d, q, "result", x, v)
      BY <1>1, <1>4, <2>2, <2>3, <3>1, <3>2, ReadsDense
    <3>5. Changed(q1, q, b, "result", x)
      BY <1>6, <2>3
    <3>6. DenseInv(h, b, d, q1, v)
      BY <3>4, <3>5, DenseQueues
    <3> QED BY <2>1, <2>3, <3>3, <3>6
  <2>4. CASE a # b
    BY <1>7, <2>1, <2>2, <2>4
  <2> QED BY <2>3, <2>4
<1>10. ReadsOne(h, a, c, d, q, e)
  BY <1>2, <1>8, <1>9
<1>11. GotInv(h, d, Append(g, e)) /\ NextGolden(h, g, e)
  <2>1. PICK n : n = Reads(h, c)
    OBVIOUS
  <2>2. n + 1 \in 1 .. Len(Golden[h]) /\ Golden[h][n + 1] = e /\ Reads(h, d) = Reads(h, c) + 1
    BY <1>10, <2>1 DEF ReadsOne
  <2> QED BY <1>1, <2>1, <2>2, GotNext
<1>12. f = [b \in Dense |-> f[b]] /\ Queues(q1)
  BY <1>6 DEF HartInv, Changed
<1>13. HartInv(h, d, q1, u, f, Append(g, e))
  BY <1>1, <1>2, <1>8, <1>9, <1>11, <1>12 DEF HartInv
<1> QED BY <1>11, <1>13

-----------------------------------------------------------------------------
\* An accelerator takes an element of a FIFO, or adds a result.
LEMMA TailQueue ==
  ASSUME NEW q, Queues(q), NEW a \in Accelerators, NEW p \in Ports, q[a][p] # <<>>,
         NEW q1, q1 = [q EXCEPT ![a][p] = Tail(q[a][p])]
  PROVE  Changed(q1, q, a, p, Tail(q[a][p]))
<1>1. PICK x : x = Tail(q[a][p])
  OBVIOUS
<1>2. IsSeq(q[a][p]) /\ Len(q[a][p]) <= FifoSize
  BY DEF Queues
<1>3. Shorter(x, q[a][p])
  BY <1>1, <1>2, SeqTail
<1>4. IsSeq(x) /\ Len(q[a][p]) = Len(x) + 1
  BY <1>3 DEF Shorter
<1>5. Len(x) <= FifoSize
  BY <1>2, <1>4, SeqLen, Sizes
<1>6. a = "conv" => p \notin Unused
  BY DEF Queues
<1> QED BY <1>1, <1>4, <1>5, <1>6, QueueChanged

\* An accelerator adds an element to a FIFO that is not full.
LEMMA AppendQueue ==
  ASSUME NEW q, Queues(q), NEW a \in Accelerators, NEW p \in Ports, Len(q[a][p]) < FifoSize,
         a = "conv" => p \notin Unused, NEW e, NEW q1, q1 = [q EXCEPT ![a][p] = Append(q[a][p], e)]
  PROVE  Changed(q1, q, a, p, Append(q[a][p], e))
<1>1. PICK x : x = Append(q[a][p], e)
  OBVIOUS
<1>2. IsSeq(q[a][p]) /\ Len(q[a][p]) \in Nat
  BY SeqLen DEF Queues
<1>3. Longer(x, q[a][p], e)
  BY <1>1, <1>2, SeqAppend
<1>4. IsSeq(x) /\ Len(x) = Len(q[a][p]) + 1
  BY <1>3 DEF Longer
<1>5. Len(x) <= FifoSize
  BY <1>2, <1>4, Sizes
<1> QED BY <1>1, <1>4, <1>5, QueueChanged

\* Only one accelerator of the hart moves.
LEMMA OnlyConv ==
  ASSUME NEW h, NEW c, NEW q, NEW u, NEW f, NEW g, HartInv(h, c, q, u, f, g),
         NEW q1, NEW p, NEW x, Changed(q1, q, "conv", p, x),
         NEW u1, ConvInv(c, q1, u1), IsConv(u1)
  PROVE  HartInv(h, c, q1, u1, f, g)
<1>1. \A b \in Dense : DenseInv(h, b, c, q1, f[b])
  <2> TAKE b \in Dense
  <2>1. DenseInv(h, b, c, q, f[b]) /\ "conv" # b
    BY PortNames DEF HartInv
  <2> QED BY <2>1, DenseFrame
<1>2. Queues(q1)
  BY DEF Changed
<1> QED BY <1>1, <1>2 DEF HartInv

\* A dense layer moves.
LEMMA OnlyDense ==
  ASSUME NEW h, NEW c, NEW q, NEW u, NEW f, NEW g, HartInv(h, c, q, u, f, g),
         NEW q1, NEW a, a \in Dense, NEW p, NEW x, Changed(q1, q, a, p, x),
         NEW v, DenseInv(h, a, c, q1, v), IsDense(v), NEW f1, f1 = [f EXCEPT ![a] = v]
  PROVE  HartInv(h, c, q1, u, f1, g)
<1>1. ConvInv(c, q1, u)
  <2>1. ConvInv(c, q, u)
    BY DEF HartInv
  <2> QED BY <2>1, ConvFrame
<1>2. f = [b \in Dense |-> f[b]]
  BY DEF HartInv
<1>3. f1 = [b \in Dense |-> f1[b]] /\ f1[a] = v /\ \A b \in Dense : b # a => f1[b] = f[b]
  BY <1>2
<1>4. ASSUME NEW b \in Dense
      PROVE  IsDense(f1[b]) /\ DenseInv(h, b, c, q1, f1[b])
  <2>1. CASE b = a
    BY <1>3, <2>1
  <2>2. CASE b # a
    <3>1. DenseInv(h, b, c, q, f[b]) /\ IsDense(f[b])
      BY DEF HartInv
    <3>2. DenseInv(h, b, c, q1, f[b])
      BY <2>2, <3>1, DenseFrame
    <3> QED BY <1>3, <2>2, <3>1, <3>2
  <2> QED BY <2>1, <2>2
<1>5. Queues(q1)
  BY DEF Changed
<1> QED BY <1>1, <1>3, <1>4, <1>5 DEF HartInv

\* The steps of the convolution.
LEMMA HartConvWeight ==
  ASSUME NEW h, NEW c, NEW q, NEW u, NEW f, NEW g, HartInv(h, c, q, u, f, g),
         u.out = <<>>, Len(u.weights) < NumWeights, q["conv"]["weight"] # <<>>,
         NEW q1, q1 = [q EXCEPT !["conv"]["weight"] = Tail(q["conv"]["weight"])],
         NEW u1, u1 = [u EXCEPT !.weights = Append(@, Head(q["conv"]["weight"]))]
  PROVE  HartInv(h, c, q1, u1, f, g)
<1>1. PICK w, s, r : w = q["conv"]["weight"] /\ s = q["conv"]["source"] /\ r = q["conv"]["result"]
  OBVIOUS
<1>2. IsSeq(w) /\ IsSeq(s) /\ ConvOf(c, w, s, r, u) /\ IsConv(u) /\ Queues(q)
  BY <1>1, PortNames DEF HartInv, Queues, ConvInv
<1>3. ConvOf(c, Tail(w), s, r, u1) /\ IsConv(u1)
  BY <1>1, <1>2, MacWeight
<1>4. Changed(q1, q, "conv", "weight", Tail(w))
  BY <1>1, <1>2, TailQueue, PortNames
<1>5. ConvInv(c, q1, u1)
  BY <1>1, <1>3, <1>4, ConvQueues
<1> QED BY <1>3, <1>4, <1>5, OnlyConv

\* MAC receives an element of the input.
LEMMA HartConvSource ==
  ASSUME NEW h \in Harts, NEW c, NEW q, NEW u, NEW f, NEW g, HartInv(h, c, q, u, f, g),
         u.out = <<>>, Len(u.weights) = NumWeights, q["conv"]["source"] # <<>>,
         NEW q1, q1 = [q EXCEPT !["conv"]["source"] = Tail(q["conv"]["source"])],
         NEW u1, u1 = MacSource(u, Head(q["conv"]["source"]))
  PROVE  HartInv(h, c, q1, u1, f, g)
<1>1. PICK w, s, r : w = q["conv"]["weight"] /\ s = q["conv"]["source"] /\ r = q["conv"]["result"]
  OBVIOUS
<1>2. IsSeq(w) /\ IsSeq(s) /\ ConvOf(c, w, s, r, u) /\ IsConv(u) /\ Queues(q) /\ c \in Calls(h)
  BY <1>1, PortNames DEF HartInv, Queues, ConvInv
<1>3. ConvOf(c, w, Tail(s), r, u1) /\ IsConv(u1)
  BY <1>1, <1>2, MacSourceStep
<1>4. Changed(q1, q, "conv", "source", Tail(s))
  BY <1>1, <1>2, TailQueue, PortNames
<1>5. ConvInv(c, q1, u1)
  BY <1>1, <1>3, <1>4, ConvQueues
<1> QED BY <1>3, <1>4, <1>5, OnlyConv

\* MAC writes a result.
LEMMA HartConvResult ==
  ASSUME NEW h \in Harts, NEW c, NEW q, NEW u, NEW f, NEW g, HartInv(h, c, q, u, f, g),
         u.out # <<>>, Len(q["conv"]["result"]) < FifoSize,
         NEW q1, q1 = [q EXCEPT !["conv"]["result"] = Append(q["conv"]["result"], Head(u.out))],
         NEW u1, u1 = [u EXCEPT !.out = Tail(@)]
  PROVE  HartInv(h, c, q1, u1, f, g)
<1>1. PICK w, s, r : w = q["conv"]["weight"] /\ s = q["conv"]["source"] /\ r = q["conv"]["result"]
  OBVIOUS
<1>2. IsSeq(r) /\ ConvOf(c, w, s, r, u) /\ IsConv(u) /\ Queues(q) /\ c \in Calls(h)
  BY <1>1, PortNames DEF HartInv, Queues, ConvInv
<1>3. ConvOf(c, w, s, Append(r, Head(u.out)), u1) /\ IsConv(u1)
  BY <1>2, MacResult
<1>4. Changed(q1, q, "conv", "result", Append(r, Head(u.out)))
  BY <1>1, <1>2, AppendQueue, PortNames DEF Unused
<1>5. ConvInv(c, q1, u1)
  BY <1>1, <1>3, <1>4, ConvQueues
<1> QED BY <1>3, <1>4, <1>5, OnlyConv

\* The steps of a dense layer.
LEMMA HartDenseStart ==
  ASSUME NEW h \in Harts, NEW a \in Dense, NEW c, NEW q, NEW u, NEW f, NEW g,
         HartInv(h, c, q, u, f, g), f[a].start = None,
         q[a]["start"] # <<>>, NEW q1, q1 = [q EXCEPT ![a]["start"] = Tail(q[a]["start"])],
         NEW v, v = [f[a] EXCEPT !.start = Int8(Head(q[a]["start"]))], NEW f1, f1 = [f EXCEPT ![a] = v]
  PROVE  HartInv(h, c, q1, u, f1, g)
<1>1. PICK ss, se, s, w, bs, r :
        /\ ss = q[a]["start"] /\ se = q[a]["end"] /\ s = q[a]["source"] /\ w = q[a]["weight"]
        /\ bs = q[a]["bias"] /\ r = q[a]["result"]
  OBVIOUS
<1>2. IsSeq(ss) /\ Queues(q) /\ c \in Calls(h)
  BY <1>1, PortNames DEF HartInv, Queues
<1>3. PICK k : k = f[a]
  OBVIOUS
<1>4. IsDense(k) /\ DenseOf(h, a, c, ss, se, s, w, bs, r, k)
  <2>1. IsDense(k) /\ DenseInv(h, a, c, q, k)
    BY <1>3 DEF HartInv
  <2> QED BY <1>1, <2>1, Zenon DEF DenseInv
<1>5. /\ v = [k EXCEPT !.start = Int8(Head(ss))]
      /\ ss # <<>>
      /\ k.start = None
  BY <1>1, <1>3
<1>6. DenseOf(h, a, c, Tail(ss), se, s, w, bs, r, v) /\ IsDense(v)
  BY <1>2, <1>3, <1>4, <1>5, TakesStart
<1>7. Changed(q1, q, a, "start", Tail(ss))
  BY <1>1, <1>2, TailQueue, PortNames
<1>8. DenseWith(h, a, c, q, "start", Tail(ss), v)
  BY <1>1, <1>6 DEF DenseWith
<1>9. DenseInv(h, a, c, q1, v)
  BY <1>7, <1>8, DenseQueues
<1> QED BY <1>6, <1>7, <1>9, OnlyDense

\* Fully_Connect takes end.
LEMMA HartDenseEnd ==
  ASSUME NEW h \in Harts, NEW a \in Dense, NEW c, NEW q, NEW u, NEW f, NEW g,
         HartInv(h, c, q, u, f, g), f[a].start # None, f[a].end = None,
         q[a]["end"] # <<>>, NEW q1, q1 = [q EXCEPT ![a]["end"] = Tail(q[a]["end"])],
         NEW v, v = [f[a] EXCEPT !.end = Int8(Head(q[a]["end"]))], NEW f1, f1 = [f EXCEPT ![a] = v]
  PROVE  HartInv(h, c, q1, u, f1, g)
<1>1. PICK ss, se, s, w, bs, r :
        /\ ss = q[a]["start"] /\ se = q[a]["end"] /\ s = q[a]["source"] /\ w = q[a]["weight"]
        /\ bs = q[a]["bias"] /\ r = q[a]["result"]
  OBVIOUS
<1>2. IsSeq(se) /\ Queues(q) /\ c \in Calls(h)
  BY <1>1, PortNames DEF HartInv, Queues
<1>3. PICK k : k = f[a]
  OBVIOUS
<1>4. IsDense(k) /\ DenseOf(h, a, c, ss, se, s, w, bs, r, k)
  <2>1. IsDense(k) /\ DenseInv(h, a, c, q, k)
    BY <1>3 DEF HartInv
  <2> QED BY <1>1, <2>1, Zenon DEF DenseInv
<1>5. /\ v = [k EXCEPT !.end = Int8(Head(se))]
      /\ se # <<>>
      /\ k.start # None /\ k.end = None
  BY <1>1, <1>3
<1>6. DenseOf(h, a, c, ss, Tail(se), s, w, bs, r, v) /\ IsDense(v)
  BY <1>2, <1>3, <1>4, <1>5, TakesEnd
<1>7. Changed(q1, q, a, "end", Tail(se))
  BY <1>1, <1>2, TailQueue, PortNames
<1>8. DenseWith(h, a, c, q, "end", Tail(se), v)
  BY <1>1, <1>6 DEF DenseWith
<1>9. DenseInv(h, a, c, q1, v)
  BY <1>7, <1>8, DenseQueues
<1> QED BY <1>6, <1>7, <1>9, OnlyDense

\* Fully_Connect takes an input.
LEMMA HartDenseSource ==
  ASSUME NEW h \in Harts, NEW a \in Dense, NEW c, NEW q, NEW u, NEW f, NEW g,
         HartInv(h, c, q, u, f, g), f[a].end # None, f[a].j = None,
         q[a]["source"] # <<>>, NEW q1, q1 = [q EXCEPT ![a]["source"] = Tail(q[a]["source"])],
         NEW v, v = TakesSourceOf(f[a], Head(q[a]["source"])), NEW f1, f1 = [f EXCEPT ![a] = v]
  PROVE  HartInv(h, c, q1, u, f1, g)
<1>1. PICK ss, se, s, w, bs, r :
        /\ ss = q[a]["start"] /\ se = q[a]["end"] /\ s = q[a]["source"] /\ w = q[a]["weight"]
        /\ bs = q[a]["bias"] /\ r = q[a]["result"]
  OBVIOUS
<1>2. IsSeq(s) /\ Queues(q) /\ c \in Calls(h)
  BY <1>1, PortNames DEF HartInv, Queues
<1>3. PICK k : k = f[a]
  OBVIOUS
<1>4. IsDense(k) /\ DenseOf(h, a, c, ss, se, s, w, bs, r, k)
  <2>1. IsDense(k) /\ DenseInv(h, a, c, q, k)
    BY <1>3 DEF HartInv
  <2> QED BY <1>1, <2>1, Zenon DEF DenseInv
<1>5. /\ v = TakesSourceOf(k, Head(s))
      /\ s # <<>>
      /\ k.end # None /\ k.j = None
  BY <1>1, <1>3
<1>6. DenseOf(h, a, c, ss, se, Tail(s), w, bs, r, v) /\ IsDense(v)
  BY <1>2, <1>3, <1>4, <1>5, TakesSource
<1>7. Changed(q1, q, a, "source", Tail(s))
  BY <1>1, <1>2, TailQueue, PortNames
<1>8. DenseWith(h, a, c, q, "source", Tail(s), v)
  BY <1>1, <1>6 DEF DenseWith
<1>9. DenseInv(h, a, c, q1, v)
  BY <1>7, <1>8, DenseQueues
<1> QED BY <1>6, <1>7, <1>9, OnlyDense

\* Fully_Connect takes a weight.
LEMMA HartDenseWeight ==
  ASSUME NEW h \in Harts, NEW a \in Dense, NEW c, NEW q, NEW u, NEW f, NEW g,
         HartInv(h, c, q, u, f, g), f[a].j # None,
         q[a]["weight"] # <<>>, NEW q1, q1 = [q EXCEPT ![a]["weight"] = Tail(q[a]["weight"])],
         NEW v, v = TakesWeightOf(f[a], Head(q[a]["weight"])), NEW f1, f1 = [f EXCEPT ![a] = v]
  PROVE  HartInv(h, c, q1, u, f1, g)
<1>1. PICK ss, se, s, w, bs, r :
        /\ ss = q[a]["start"] /\ se = q[a]["end"] /\ s = q[a]["source"] /\ w = q[a]["weight"]
        /\ bs = q[a]["bias"] /\ r = q[a]["result"]
  OBVIOUS
<1>2. IsSeq(s) /\ IsSeq(w) /\ Queues(q) /\ c \in Calls(h)
  BY <1>1, PortNames DEF HartInv, Queues
<1>3. PICK k : k = f[a]
  OBVIOUS
<1>4. IsDense(k) /\ DenseOf(h, a, c, ss, se, s, w, bs, r, k)
  <2>1. IsDense(k) /\ DenseInv(h, a, c, q, k)
    BY <1>3 DEF HartInv
  <2> QED BY <1>1, <2>1, Zenon DEF DenseInv
<1>5. /\ v = TakesWeightOf(k, Head(w))
      /\ w # <<>>
      /\ k.j # None
  BY <1>1, <1>3
<1>6. DenseOf(h, a, c, ss, se, s, Tail(w), bs, r, v) /\ IsDense(v)
  BY <1>2, <1>3, <1>4, <1>5, TakesWeight
<1>7. Changed(q1, q, a, "weight", Tail(w))
  BY <1>1, <1>2, TailQueue, PortNames
<1>8. DenseWith(h, a, c, q, "weight", Tail(w), v)
  BY <1>1, <1>6 DEF DenseWith
<1>9. DenseInv(h, a, c, q1, v)
  BY <1>7, <1>8, DenseQueues
<1> QED BY <1>6, <1>7, <1>9, OnlyDense

\* FC_3 takes a bias.
LEMMA HartDenseBias ==
  ASSUME NEW h \in Harts, NEW a \in Dense, NEW c, NEW q, NEW u, NEW f, NEW g,
         HartInv(h, c, q, u, f, g), a = "fc3", f[a].i = Inputs, f[a].bias = <<>>,
         q[a]["bias"] # <<>>, NEW q1, q1 = [q EXCEPT ![a]["bias"] = Tail(q[a]["bias"])],
         NEW v, v = [f[a] EXCEPT !.bias = Head(q[a]["bias"])], NEW f1, f1 = [f EXCEPT ![a] = v]
  PROVE  HartInv(h, c, q1, u, f1, g)
<1>1. PICK ss, se, s, w, bs, r :
        /\ ss = q[a]["start"] /\ se = q[a]["end"] /\ s = q[a]["source"] /\ w = q[a]["weight"]
        /\ bs = q[a]["bias"] /\ r = q[a]["result"]
  OBVIOUS
<1>2. IsSeq(bs) /\ Queues(q) /\ c \in Calls(h)
  BY <1>1, PortNames DEF HartInv, Queues
<1>3. PICK k : k = f[a]
  OBVIOUS
<1>4. IsDense(k) /\ DenseOf(h, a, c, ss, se, s, w, bs, r, k)
  <2>1. IsDense(k) /\ DenseInv(h, a, c, q, k)
    BY <1>3 DEF HartInv
  <2> QED BY <1>1, <2>1, Zenon DEF DenseInv
<1>5. /\ v = [k EXCEPT !.bias = Head(bs)]
      /\ bs # <<>>
      /\ a = "fc3" /\ k.i = Inputs /\ k.bias = <<>>
  BY <1>1, <1>3
<1>6. DenseOf(h, a, c, ss, se, s, w, Tail(bs), r, v) /\ IsDense(v)
  BY <1>2, <1>3, <1>4, <1>5, TakesBias
<1>7. Changed(q1, q, a, "bias", Tail(bs))
  BY <1>1, <1>2, TailQueue, PortNames
<1>8. DenseWith(h, a, c, q, "bias", Tail(bs), v)
  BY <1>1, <1>6 DEF DenseWith
<1>9. DenseInv(h, a, c, q1, v)
  BY <1>7, <1>8, DenseQueues
<1> QED BY <1>6, <1>7, <1>9, OnlyDense

\* Fully_Connect writes a result.
LEMMA HartDenseResult ==
  ASSUME NEW h \in Harts, NEW a \in Dense, NEW c, NEW q, NEW u, NEW f, NEW g,
         HartInv(h, c, q, u, f, g), f[a].i = Inputs, a = "fc3" => f[a].bias # <<>>,
         Len(q[a]["result"]) < FifoSize, NEW e, e = Answer(f[a].acc[f[a].j], f[a].bias),
         NEW q1, q1 = [q EXCEPT ![a]["result"] = Append(q[a]["result"], e)],
         NEW v, v = GivesResultOf(f[a]), NEW f1, f1 = [f EXCEPT ![a] = v]
  PROVE  HartInv(h, c, q1, u, f1, g)
<1>1. PICK ss, se, s, w, bs, r :
        /\ ss = q[a]["start"] /\ se = q[a]["end"] /\ s = q[a]["source"] /\ w = q[a]["weight"]
        /\ bs = q[a]["bias"] /\ r = q[a]["result"]
  OBVIOUS
<1>2. IsSeq(r) /\ Queues(q) /\ c \in Calls(h)
  BY <1>1, PortNames DEF HartInv, Queues
<1>3. PICK k : k = f[a]
  OBVIOUS
<1>4. IsDense(k) /\ DenseOf(h, a, c, ss, se, s, w, bs, r, k)
  <2>1. IsDense(k) /\ DenseInv(h, a, c, q, k)
    BY <1>3 DEF HartInv
  <2> QED BY <1>1, <2>1, Zenon DEF DenseInv
<1>5. /\ v = GivesResultOf(k)
      /\ e = Answer(k.acc[k.j], k.bias) /\ k.i = Inputs /\ (a = "fc3" => k.bias # <<>>)
  BY <1>3
<1>6. DenseOf(h, a, c, ss, se, s, w, bs, Append(r, e), v) /\ IsDense(v)
  BY <1>2, <1>4, <1>5, GivesResult
<1>7. Changed(q1, q, a, "result", Append(r, e))
  BY <1>1, <1>2, AppendQueue, PortNames DEF Unused
<1>8. DenseWith(h, a, c, q, "result", Append(r, e), v)
  BY <1>1, <1>6 DEF DenseWith
<1>9. DenseInv(h, a, c, q1, v)
  BY <1>7, <1>8, DenseQueues
<1> QED BY <1>6, <1>7, <1>9, OnlyDense

-----------------------------------------------------------------------------
(***************************************************************************)
(* RInv is inductive.                                                      *)
(***************************************************************************)
\* A step of one hart.
OneHart(h, c, q, u, f, g) ==
  /\ at' = [at EXCEPT ![h] = c] /\ fifo' = [fifo EXCEPT ![h] = q]
  /\ conv' = [conv EXCEPT ![h] = u] /\ fc' = [fc EXCEPT ![h] = f]
  /\ got' = [got EXCEPT ![h] = g]

\* A step of one hart keeps the invariant of the others.
LEMMA OneHartInv ==
  ASSUME RInv, NEW h \in Harts, NEW c, NEW q, NEW u, NEW f, NEW g,
         HartInv(h, c, q, u, f, g), OneHart(h, c, q, u, f, g),
         dma' = None \/ (dma' = dma /\ (dma = h => c # Finished))
  PROVE  RInv'
<1>1. /\ at' = [k \in Harts |-> IF k = h THEN c ELSE at[k]]
      /\ fifo' = [k \in Harts |-> IF k = h THEN q ELSE fifo[k]]
      /\ conv' = [k \in Harts |-> IF k = h THEN u ELSE conv[k]]
      /\ fc' = [k \in Harts |-> IF k = h THEN f ELSE fc[k]]
      /\ got' = [k \in Harts |-> IF k = h THEN g ELSE got[k]]
  BY DEF RInv, OneHart
<1>2. /\ at' = [k \in Harts |-> at'[k]] /\ fifo' = [k \in Harts |-> fifo'[k]]
      /\ conv' = [k \in Harts |-> conv'[k]] /\ fc' = [k \in Harts |-> fc'[k]]
      /\ got' = [k \in Harts |-> got'[k]]
  BY <1>1
<1>3. ASSUME NEW k \in Harts
      PROVE  HartInv(k, at'[k], fifo'[k], conv'[k], fc'[k], got'[k])
  <2>1. CASE k = h
    <3>1. at'[k] = c /\ fifo'[k] = q /\ conv'[k] = u /\ fc'[k] = f /\ got'[k] = g
      BY <1>1, <2>1
    <3> QED BY <2>1, <3>1, Zenon
  <2>2. CASE k # h
    <3>1. /\ at'[k] = at[k] /\ fifo'[k] = fifo[k] /\ conv'[k] = conv[k] /\ fc'[k] = fc[k]
          /\ got'[k] = got[k]
      BY <1>1, <2>2
    <3>2. HartInv(k, at[k], fifo[k], conv[k], fc[k], got[k])
      BY DEF RInv
    <3> QED BY <3>1, <3>2, Zenon
  <2> QED BY <2>1, <2>2
<1>4. dma' \in Harts \cup {None} /\ (dma' # None => at'[dma'] # Finished)
  <2>1. CASE dma' = None
    BY <2>1
  <2>2. CASE dma' # None
    <3>1. dma' = dma /\ dma \in Harts /\ at[dma] # Finished /\ (dma = h => c # Finished)
      BY <2>2 DEF RInv
    <3> QED BY <1>1, <3>1
  <2> QED BY <2>1, <2>2
<1>5. \A k \in Harts : HartInv(k, at[k], fifo[k], conv[k], fc[k], got[k])'
  BY <1>3
<1> QED BY <1>2, <1>4, <1>5 DEF RInv

\* The invariant at a hart.
LEMMA HartOf ==
  ASSUME RInv, NEW h \in Harts
  PROVE  HartInv(h, at[h], fifo[h], conv[h], fc[h], got[h])
BY DEF RInv

\* What a step leaves alone.
LEMMA SameHart ==
  ASSUME RInv, NEW h
  PROVE  /\ at = [at EXCEPT ![h] = at[h]] /\ fifo = [fifo EXCEPT ![h] = fifo[h]]
         /\ conv = [conv EXCEPT ![h] = conv[h]] /\ fc = [fc EXCEPT ![h] = fc[h]]
         /\ got = [got EXCEPT ![h] = got[h]]
<1>1. /\ at = [k \in Harts |-> at[k]] /\ fifo = [k \in Harts |-> fifo[k]]
      /\ conv = [k \in Harts |-> conv[k]] /\ fc = [k \in Harts |-> fc[k]]
      /\ got = [k \in Harts |-> got[k]]
  BY DEF RInv
<1>2. at = [at EXCEPT ![h] = at[h]] /\ fifo = [fifo EXCEPT ![h] = fifo[h]]
  BY <1>1
<1>3. conv = [conv EXCEPT ![h] = conv[h]] /\ fc = [fc EXCEPT ![h] = fc[h]]
  BY <1>1
<1>4. got = [got EXCEPT ![h] = got[h]]
  BY <1>1
<1> QED BY <1>2, <1>3, <1>4

\* The start of the program.
LEMMA StartsWorking ==
  ASSUME NEW m, NEW b, NEW e, ~Odd(e)
  PROVE  Working(Call("conv", "weight", m, 0, 1), <<>>, <<>>, <<>>,
                 Mac(<<>>, <<>>, <<>>, R - 1, e, b, <<>>), 0)
<1> USE Sizes
<1>1. Len(<<>>) = 0 /\ Base(0) = 0
  BY SeqEmpty, BaseNext
<1>2. Buffers(m, 0, <<>>, R - 1, e, b)
  <2>1. ~ReadsAfter(0)
    BY RowPairs
  <2>2. \A i \in 1 .. Len(<<>>) : <<>>[i] = InputRow((0 - Len(<<>>)) + (i - 1))
    BY <1>1
  <2> QED BY <1>1, <2>1, <2>2 DEF Buffers
<1>3. Weights(m, <<>>, 0) /\ Weights(m, <<>>, Len(<<>>))
  BY <1>1 DEF Weights
<1> QED BY <1>1, <1>2, <1>3 DEF BuffersOf, Working, WeightsSent, SourcesSent, Call, Mac

\* Nothing has been read at the first call.
LEMMA StartsReading ==
  ASSUME NEW h \in Harts
  PROVE  Reads(h, Call("conv", "weight", First(h, Filters), 0, 1)) = 0
<1>1. PICK x : x = First(h, Filters)
  OBVIOUS
<1>2. x - x = 0
  BY <1>1, FilterHalf
<1>3. Reads(h, Call("conv", "weight", x, 0, 1)) = Place(x - First(h, Filters), PairsRead(0), 1)
  BY ReadsOfCall
<1>4. PairsRead(0) = 0
  BY Sizes DEF PairsRead
<1>5. Place(0, 0, 1) = 0
  BY PairsNat, Sizes DEF Place
<1> QED BY <1>1, <1>2, <1>3, <1>4, <1>5

\* The invariant holds at the start.
LEMMA InitKeeps ==
  ASSUME Init, EvenStartsFalse
  PROVE  RInv
<1>1. /\ at = [h \in Harts |-> Call("conv", "weight", First(h, Filters), 0, 1)]
      /\ dma = None
      /\ fifo = [h \in Harts |-> [a \in Accelerators |-> [p \in Ports |-> <<>>]]]
      /\ fc = [h \in Harts |-> [a \in Dense |-> IdleDense]]
      /\ got = [h \in Harts |-> <<>>]
  BY DEF Init
<1>2. PICK b : b = [x \in BOOLEAN |-> NoRow]
  OBVIOUS
<1>3. PICK even \in [Harts -> InitialEven] : conv = [h \in Harts |-> IdleConv(even[h], b)]
  BY <1>2 DEF Init
<1>4. ASSUME NEW h \in Harts PROVE even[h] \in BOOLEAN /\ ~Odd(even[h])
  <2>1. conv[h].even = even[h]
    BY <1>3 DEF IdleConv
  <2>2. even[h] \in BOOLEAN
    BY RowAssumption
  <2>3. ~conv[h].even
    BY DEF EvenStartsFalse
  <2> QED BY <2>1, <2>2, <2>3, Zenon DEF Odd
<1>5. ASSUME NEW h \in Harts
      PROVE  HartInv(h, at[h], fifo[h], conv[h], fc[h], got[h])
  <2>0. PICK e : e = even[h] /\ e \in BOOLEAN /\ ~Odd(e)
    BY <1>4
  <2>1. PICK c, q, f, m, u :
          /\ c = Call("conv", "weight", m, 0, 1) /\ m = First(h, Filters)
          /\ q = [a \in Accelerators |-> [p \in Ports |-> <<>>]]
          /\ f = [a \in Dense |-> IdleDense] /\ u = IdleConv(e, b)
    OBVIOUS
  <2>2. at[h] = c /\ fifo[h] = q /\ conv[h] = u /\ fc[h] = f /\ got[h] = <<>>
    BY <1>1, <1>3, <2>0, <2>1
  <2>3. m \in First(h, Filters) .. Past(h, Filters) - 1 /\ 1 \in 1 .. NumWeights
    BY <2>1, FilterHalf, Sizes
  <2>4. c \in Calls(h)
    BY <2>1, <2>3, CallsOfConv
  <2>5. Queues(q) /\ \A a \in Accelerators, p \in Ports : q[a][p] = <<>>
    <3>1. \A a \in Accelerators, p \in Ports : q[a][p] = <<>>
      BY <2>1
    <3>2. q = [a \in Accelerators |-> [p \in Ports |-> q[a][p]]]
      BY <2>1
    <3>3. IsSeq(<<>>) /\ Len(<<>>) <= FifoSize
      BY SeqEmpty, Sizes
    <3>4. \A p \in Unused : q["conv"][p] = <<>>
      BY <3>1 DEF Unused, Accelerators, Ports
    <3> QED BY <3>1, <3>2, <3>3, <3>4 DEF Queues
  <2>6. u = Mac(<<>>, <<>>, <<>>, R - 1, e, b, <<>>)
    BY <2>1 DEF Mac, IdleConv
  <2>7. IsConv(u)
    <3>1. IsPair(b) /\ IsSeq(<<>>) /\ R - 1 \in Nat
      BY <1>2, SeqEmpty, Sizes DEF IsPair
    <3> QED BY <2>0, <2>6, <3>1, MacIsConv
  <2>8. ConvInv(c, q, u)
    <3>1. Working(c, <<>>, <<>>, <<>>, u, 0)
      BY <2>0, <2>1, <2>6, StartsWorking
    <3>2. c.acc = "conv" /\ 0 \in 0 .. Rows - 1
      BY <2>1, CallFields, Sizes
    <3>3. ConvOf(c, <<>>, <<>>, <<>>, u)
      BY <3>1, <3>2, Zenon DEF ConvOf
    <3>4. q["conv"]["weight"] = <<>> /\ q["conv"]["source"] = <<>> /\ q["conv"]["result"] = <<>>
      BY <2>5, PortNames
    <3> QED BY <3>3, <3>4, Zenon DEF ConvInv
  <2>9. ASSUME NEW a \in Dense
        PROVE  IsDense(f[a]) /\ DenseInv(h, a, c, q, f[a])
    <3>1. f[a] = IdleDense
      BY <2>1
    <3>2. q[a]["start"] = <<>> /\ q[a]["end"] = <<>> /\ q[a]["source"] = <<>>
      BY <2>5, PortNames
    <3>3. q[a]["weight"] = <<>> /\ q[a]["bias"] = <<>> /\ q[a]["result"] = <<>>
      BY <2>5, PortNames
    <3>4. c.acc # a
      BY <2>1, CallFields
    <3>5. DenseInv(h, a, c, q, f[a])
      BY <3>1, <3>2, <3>3, <3>4, Zenon DEF DenseInv, DenseOf, DenseResting
    <3> QED BY <3>1, <3>5, IdleIsDense
  <2>10. GotInv(h, c, <<>>)
    <3>1. Reads(h, c) = 0
      BY <2>1, StartsReading
    <3> QED BY <3>1, SeqEmpty DEF GotInv
  <2>11. f = [a \in Dense |-> f[a]]
    BY <2>1
  <2>12. HartInv(h, c, q, u, f, <<>>)
    BY <2>4, <2>5, <2>7, <2>8, <2>9, <2>10, <2>11 DEF HartInv
  <2> QED BY <2>2, <2>12, Zenon
<1>6. /\ at = [h \in Harts |-> at[h]] /\ fifo = [h \in Harts |-> fifo[h]]
      /\ conv = [h \in Harts |-> conv[h]] /\ fc = [h \in Harts |-> fc[h]]
      /\ got = [h \in Harts |-> got[h]]
  BY <1>1, <1>3
<1> QED BY <1>1, <1>5, <1>6 DEF RInv

\* The names of the accelerators and the harts.
LEMMA Names ==
  /\ "conv" \in Accelerators /\ "fc3" \in Dense
  /\ \A h \in Harts : h # None
BY DEF Accelerators, Dense, Harts, None

\* An accelerator moves; the program and the DMA do not.
LEMMA AcceleratorStep ==
  ASSUME RInv, NEW h \in Harts, NEW q, NEW u, NEW f, HartInv(h, at[h], q, u, f, got[h]),
         fifo' = [fifo EXCEPT ![h] = q], conv' = [conv EXCEPT ![h] = u],
         fc' = [fc EXCEPT ![h] = f], at' = at, dma' = dma, got' = got
  PROVE  RInv'
<1>1. OneHart(h, at[h], q, u, f, got[h])
  BY SameHart DEF OneHart
<1>2. dma = h => at[h] # Finished
  BY Names DEF RInv
<1> QED BY <1>1, <1>2, OneHartInv

\* ConvWeight keeps the invariant.
LEMMA ConvWeightKeeps ==
  ASSUME RInv, NEW h \in Harts, ConvWeight(h)
  PROVE  RInv'
<1>1. PICK c, q, u, f, g :
        c = at[h] /\ q = fifo[h] /\ u = conv[h] /\ f = fc[h] /\ g = got[h]
  OBVIOUS
<1>2. HartInv(h, c, q, u, f, g)
  BY <1>1, HartOf
<1>3. u.out = <<>> /\ Len(u.weights) < NumWeights /\ q["conv"]["weight"] # <<>>
  BY <1>1 DEF ConvWeight, Receive
<1>4. PICK q1 : q1 = [q EXCEPT !["conv"]["weight"] = Tail(q["conv"]["weight"])]
  OBVIOUS
<1>5. PICK u1 : u1 = [u EXCEPT !.weights = Append(@, Head(q["conv"]["weight"]))]
  OBVIOUS
<1>6. HartInv(h, c, q1, u1, f, g)
  BY <1>2, <1>3, <1>4, <1>5, HartConvWeight
<1>7. fifo' = [fifo EXCEPT ![h] = q1]
  BY <1>1, <1>4 DEF ConvWeight, Receive
<1>8. conv' = [conv EXCEPT ![h] = u1]
  BY <1>1, <1>5 DEF ConvWeight, Receive
<1>9. fc' = [fc EXCEPT ![h] = f] /\ at' = at /\ dma' = dma /\ got' = got
  BY <1>1, SameHart DEF ConvWeight
<1> QED BY <1>1, <1>6, <1>7, <1>8, <1>9, AcceleratorStep

\* ConvSource keeps the invariant.
LEMMA ConvSourceKeeps ==
  ASSUME RInv, NEW h \in Harts, ConvSource(h)
  PROVE  RInv'
<1>1. PICK c, q, u, f, g :
        c = at[h] /\ q = fifo[h] /\ u = conv[h] /\ f = fc[h] /\ g = got[h]
  OBVIOUS
<1>2. HartInv(h, c, q, u, f, g)
  BY <1>1, HartOf
<1>3. u.out = <<>> /\ Len(u.weights) = NumWeights /\ q["conv"]["source"] # <<>>
  BY <1>1 DEF ConvSource, Receive
<1>4. PICK q1 : q1 = [q EXCEPT !["conv"]["source"] = Tail(q["conv"]["source"])]
  OBVIOUS
<1>5. PICK u1 : u1 = MacSource(u, Head(q["conv"]["source"]))
  OBVIOUS
<1>6. HartInv(h, c, q1, u1, f, g)
  BY <1>2, <1>3, <1>4, <1>5, HartConvSource
<1>7. fifo' = [fifo EXCEPT ![h] = q1]
  BY <1>1, <1>4 DEF ConvSource, Receive
<1>8. conv' = [conv EXCEPT ![h] = u1]
  BY <1>1, <1>5 DEF ConvSource, Receive, MacSource, WithRows
<1>9. fc' = [fc EXCEPT ![h] = f] /\ at' = at /\ dma' = dma /\ got' = got
  BY <1>1, SameHart DEF ConvSource
<1> QED BY <1>1, <1>6, <1>7, <1>8, <1>9, AcceleratorStep

\* ConvResult keeps the invariant.
LEMMA ConvResultKeeps ==
  ASSUME RInv, NEW h \in Harts, ConvResult(h)
  PROVE  RInv'
<1>1. PICK c, q, u, f, g :
        c = at[h] /\ q = fifo[h] /\ u = conv[h] /\ f = fc[h] /\ g = got[h]
  OBVIOUS
<1>2. HartInv(h, c, q, u, f, g)
  BY <1>1, HartOf
<1>3. u.out # <<>> /\ Len(q["conv"]["result"]) < FifoSize
  BY <1>1 DEF ConvResult, Send
<1>4. PICK q1 : q1 = [q EXCEPT !["conv"]["result"] = Append(q["conv"]["result"], Head(u.out))]
  OBVIOUS
<1>5. PICK u1 : u1 = [u EXCEPT !.out = Tail(@)]
  OBVIOUS
<1>6. HartInv(h, c, q1, u1, f, g)
  BY <1>2, <1>3, <1>4, <1>5, HartConvResult
<1>7. fifo' = [fifo EXCEPT ![h] = q1]
  BY <1>1, <1>4 DEF ConvResult, Send
<1>8. conv' = [conv EXCEPT ![h] = u1]
  BY <1>1, <1>5 DEF ConvResult, Send
<1>9. fc' = [fc EXCEPT ![h] = f] /\ at' = at /\ dma' = dma /\ got' = got
  BY <1>1, SameHart DEF ConvResult
<1> QED BY <1>1, <1>6, <1>7, <1>8, <1>9, AcceleratorStep

\* DenseStart keeps the invariant.
LEMMA DenseStartKeeps ==
  ASSUME RInv, NEW h \in Harts, NEW a \in Dense, DenseStart(h, a)
  PROVE  RInv'
<1>1. PICK c, q, u, f, g :
        c = at[h] /\ q = fifo[h] /\ u = conv[h] /\ f = fc[h] /\ g = got[h]
  OBVIOUS
<1>2. HartInv(h, c, q, u, f, g)
  BY <1>1, HartOf
<1>3. f[a].start = None /\ q[a]["start"] # <<>>
  BY <1>1 DEF DenseStart, Receive
<1>4. PICK q1 : q1 = [q EXCEPT ![a]["start"] = Tail(q[a]["start"])]
  OBVIOUS
<1>5. PICK v : v = [f[a] EXCEPT !.start = Int8(Head(q[a]["start"]))]
  OBVIOUS
<1>6. PICK f1 : f1 = [f EXCEPT ![a] = v]
  OBVIOUS
<1>7. HartInv(h, c, q1, u, f1, g)
  BY <1>2, <1>3, <1>4, <1>5, <1>6, HartDenseStart
<1>8. fifo' = [fifo EXCEPT ![h] = q1]
  BY <1>1, <1>4 DEF DenseStart, Receive
<1>9. fc' = [fc EXCEPT ![h] = f1]
  <2>1. fc' = [fc EXCEPT ![h][a] = v]
    BY <1>1, <1>5 DEF DenseStart, Become
  <2> QED BY <1>1, <1>6, <2>1
<1>10. conv' = [conv EXCEPT ![h] = u] /\ at' = at /\ dma' = dma /\ got' = got
  BY <1>1, SameHart DEF DenseStart
<1> QED BY <1>1, <1>7, <1>8, <1>9, <1>10, AcceleratorStep

\* DenseEnd keeps the invariant.
LEMMA DenseEndKeeps ==
  ASSUME RInv, NEW h \in Harts, NEW a \in Dense, DenseEnd(h, a)
  PROVE  RInv'
<1>1. PICK c, q, u, f, g :
        c = at[h] /\ q = fifo[h] /\ u = conv[h] /\ f = fc[h] /\ g = got[h]
  OBVIOUS
<1>2. HartInv(h, c, q, u, f, g)
  BY <1>1, HartOf
<1>3. f[a].start # None /\ f[a].end = None /\ q[a]["end"] # <<>>
  BY <1>1 DEF DenseEnd, Receive
<1>4. PICK q1 : q1 = [q EXCEPT ![a]["end"] = Tail(q[a]["end"])]
  OBVIOUS
<1>5. PICK v : v = [f[a] EXCEPT !.end = Int8(Head(q[a]["end"]))]
  OBVIOUS
<1>6. PICK f1 : f1 = [f EXCEPT ![a] = v]
  OBVIOUS
<1>7. HartInv(h, c, q1, u, f1, g)
  BY <1>2, <1>3, <1>4, <1>5, <1>6, HartDenseEnd
<1>8. fifo' = [fifo EXCEPT ![h] = q1]
  BY <1>1, <1>4 DEF DenseEnd, Receive
<1>9. fc' = [fc EXCEPT ![h] = f1]
  <2>1. fc' = [fc EXCEPT ![h][a] = v]
    BY <1>1, <1>5 DEF DenseEnd, Become
  <2> QED BY <1>1, <1>6, <2>1
<1>10. conv' = [conv EXCEPT ![h] = u] /\ at' = at /\ dma' = dma /\ got' = got
  BY <1>1, SameHart DEF DenseEnd
<1> QED BY <1>1, <1>7, <1>8, <1>9, <1>10, AcceleratorStep

\* DenseSource keeps the invariant.
LEMMA DenseSourceKeeps ==
  ASSUME RInv, NEW h \in Harts, NEW a \in Dense, DenseSource(h, a)
  PROVE  RInv'
<1>1. PICK c, q, u, f, g :
        c = at[h] /\ q = fifo[h] /\ u = conv[h] /\ f = fc[h] /\ g = got[h]
  OBVIOUS
<1>2. HartInv(h, c, q, u, f, g)
  BY <1>1, HartOf
<1>3. f[a].end # None /\ f[a].j = None /\ q[a]["source"] # <<>>
  BY <1>1 DEF DenseSource, Receive
<1>4. PICK q1 : q1 = [q EXCEPT ![a]["source"] = Tail(q[a]["source"])]
  OBVIOUS
<1>5. PICK v : v = TakesSourceOf(f[a], Head(q[a]["source"]))
  OBVIOUS
<1>6. PICK f1 : f1 = [f EXCEPT ![a] = v]
  OBVIOUS
<1>7. HartInv(h, c, q1, u, f1, g)
  BY <1>2, <1>3, <1>4, <1>5, <1>6, HartDenseSource
<1>8. fifo' = [fifo EXCEPT ![h] = q1]
  BY <1>1, <1>4 DEF DenseSource, Receive
<1>9. fc' = [fc EXCEPT ![h] = f1]
  <2>1. fc' = [fc EXCEPT ![h][a] = v]
    BY <1>1, <1>5 DEF DenseSource, Become, TakesSourceOf
  <2> QED BY <1>1, <1>6, <2>1
<1>10. conv' = [conv EXCEPT ![h] = u] /\ at' = at /\ dma' = dma /\ got' = got
  BY <1>1, SameHart DEF DenseSource
<1> QED BY <1>1, <1>7, <1>8, <1>9, <1>10, AcceleratorStep

\* DenseWeight keeps the invariant.
LEMMA DenseWeightKeeps ==
  ASSUME RInv, NEW h \in Harts, NEW a \in Dense, DenseWeight(h, a)
  PROVE  RInv'
<1>1. PICK c, q, u, f, g :
        c = at[h] /\ q = fifo[h] /\ u = conv[h] /\ f = fc[h] /\ g = got[h]
  OBVIOUS
<1>2. HartInv(h, c, q, u, f, g)
  BY <1>1, HartOf
<1>3. f[a].j # None /\ q[a]["weight"] # <<>>
  BY <1>1 DEF DenseWeight, Receive
<1>4. PICK q1 : q1 = [q EXCEPT ![a]["weight"] = Tail(q[a]["weight"])]
  OBVIOUS
<1>5. PICK v : v = TakesWeightOf(f[a], Head(q[a]["weight"]))
  OBVIOUS
<1>6. PICK f1 : f1 = [f EXCEPT ![a] = v]
  OBVIOUS
<1>7. HartInv(h, c, q1, u, f1, g)
  BY <1>2, <1>3, <1>4, <1>5, <1>6, HartDenseWeight
<1>8. fifo' = [fifo EXCEPT ![h] = q1]
  BY <1>1, <1>4 DEF DenseWeight, Receive
<1>9. fc' = [fc EXCEPT ![h] = f1]
  <2>1. fc' = [fc EXCEPT ![h][a] = v]
    BY <1>1, <1>5 DEF DenseWeight, Become, TakesWeightOf
  <2> QED BY <1>1, <1>6, <2>1
<1>10. conv' = [conv EXCEPT ![h] = u] /\ at' = at /\ dma' = dma /\ got' = got
  BY <1>1, SameHart DEF DenseWeight
<1> QED BY <1>1, <1>7, <1>8, <1>9, <1>10, AcceleratorStep

\* DenseBias keeps the invariant.
LEMMA DenseBiasKeeps ==
  ASSUME RInv, NEW h \in Harts, NEW a, a = "fc3", DenseBias(h)
  PROVE  RInv'
<1>1. PICK c, q, u, f, g :
        c = at[h] /\ q = fifo[h] /\ u = conv[h] /\ f = fc[h] /\ g = got[h]
  OBVIOUS
<1>2. HartInv(h, c, q, u, f, g) /\ a = "fc3" /\ a \in Dense
  BY <1>1, HartOf, Names
<1>3. f[a].i = Inputs /\ f[a].bias = <<>> /\ q[a]["bias"] # <<>>
  BY <1>1 DEF DenseBias, Receive
<1>4. PICK q1 : q1 = [q EXCEPT ![a]["bias"] = Tail(q[a]["bias"])]
  OBVIOUS
<1>5. PICK v : v = [f[a] EXCEPT !.bias = Head(q[a]["bias"])]
  OBVIOUS
<1>6. PICK f1 : f1 = [f EXCEPT ![a] = v]
  OBVIOUS
<1>7. HartInv(h, c, q1, u, f1, g)
  BY <1>2, <1>3, <1>4, <1>5, <1>6, HartDenseBias
<1>8. fifo' = [fifo EXCEPT ![h] = q1]
  BY <1>1, <1>4 DEF DenseBias, Receive
<1>9. fc' = [fc EXCEPT ![h] = f1]
  <2>1. fc' = [fc EXCEPT ![h][a] = v]
    BY <1>1, <1>5 DEF DenseBias, Become
  <2> QED BY <1>1, <1>6, <2>1
<1>10. conv' = [conv EXCEPT ![h] = u] /\ at' = at /\ dma' = dma /\ got' = got
  BY <1>1, SameHart DEF DenseBias
<1> QED BY <1>1, <1>7, <1>8, <1>9, <1>10, AcceleratorStep

\* DenseResult keeps the invariant.
LEMMA DenseResultKeeps ==
  ASSUME RInv, NEW h \in Harts, NEW a \in Dense, DenseResult(h, a)
  PROVE  RInv'
<1>1. PICK c, q, u, f, g :
        c = at[h] /\ q = fifo[h] /\ u = conv[h] /\ f = fc[h] /\ g = got[h]
  OBVIOUS
<1>2. HartInv(h, c, q, u, f, g)
  BY <1>1, HartOf
<1>3. f[a].i = Inputs /\ (a = "fc3" => f[a].bias # <<>>) /\ Len(q[a]["result"]) < FifoSize
  BY <1>1 DEF DenseResult, Send
<1>4. PICK e : e = Answer(f[a].acc[f[a].j], f[a].bias)
  OBVIOUS
<1>5. PICK q1 : q1 = [q EXCEPT ![a]["result"] = Append(q[a]["result"], e)]
  OBVIOUS
<1>6. PICK v : v = GivesResultOf(f[a])
  OBVIOUS
<1>7. PICK f1 : f1 = [f EXCEPT ![a] = v]
  OBVIOUS
<1>8. HartInv(h, c, q1, u, f1, g)
  BY <1>2, <1>3, <1>5, <1>6, <1>7, <1>4, HartDenseResult
<1>9. fifo' = [fifo EXCEPT ![h] = q1]
  BY <1>1, <1>5 , <1>4 DEF DenseResult, Send, Answer
<1>10. fc' = [fc EXCEPT ![h] = f1]
  <2>1. fc' = [fc EXCEPT ![h][a] = v]
    BY <1>1, <1>6 DEF DenseResult, Become, GivesResultOf
  <2> QED BY <1>1, <1>7, <2>1
<1>11. conv' = [conv EXCEPT ![h] = u] /\ at' = at /\ dma' = dma /\ got' = got
  BY <1>1, SameHart DEF DenseResult
<1> QED BY <1>1, <1>8, <1>9, <1>10, <1>11, AcceleratorStep

\* The request of a hart.
LEMMA StartTransferKeeps ==
  ASSUME RInv, NEW h \in Harts, StartTransfer(h)
  PROVE  RInv'
<1>1. /\ at' = at /\ fifo' = fifo /\ conv' = conv /\ fc' = fc /\ got' = got
      /\ dma' = h /\ at[h] # Finished
  BY DEF StartTransfer
<1>2. \A k \in Harts : HartInv(k, at'[k], fifo'[k], conv'[k], fc'[k], got'[k])
  BY <1>1, HartOf
<1>3. \A k \in Harts : HartInv(k, at[k], fifo[k], conv[k], fc[k], got[k])'
  BY <1>2
<1> QED BY <1>1, <1>3 DEF RInv

\* What the request of a hart brings the program, and that it is the next golden output.
Delivered(h) ==
  \/ got' = got
  \/ /\ NextGolden(h, got[h], Golden[h][Len(got[h]) + 1])
     /\ got' = [got EXCEPT ![h] = Append(got[h], Golden[h][Len(got[h]) + 1])]

\* The transfer itself keeps the invariant; what it reads is the next golden result.
LEMMA FinishTransferKeeps ==
  ASSUME RInv, NEW h \in Harts, FinishTransfer(h)
  PROVE  RInv' /\ Delivered(h)
<1>1. PICK c, q, u, f, g :
        c = at[h] /\ q = fifo[h] /\ u = conv[h] /\ f = fc[h] /\ g = got[h]
  OBVIOUS
<1>2. HartInv(h, c, q, u, f, g) /\ c # Finished
  <2>1. c # Finished
    BY <1>1, Names DEF RInv, FinishTransfer
  <2> QED BY <1>1, <2>1, HartOf
<1>3. PICK a, p, d : a = c.acc /\ p = c.port
                     /\ d = (IF c.acc = "conv" THEN NextConv(h, c) ELSE NextDense(h, c))
  OBVIOUS
<1>4. /\ at' = [at EXCEPT ![h] = d] /\ dma' = None
      /\ conv' = [conv EXCEPT ![h] = u] /\ fc' = [fc EXCEPT ![h] = f]
  BY <1>1, <1>3, SameHart DEF FinishTransfer
<1>5. CASE c.port = "result"
  <2>1. q[a][p] # <<>>
    BY <1>1, <1>3, <1>5 DEF FinishTransfer, Ready
  <2>2. PICK x, e : x = Tail(q[a][p]) /\ e = Head(q[a][p])
    OBVIOUS
  <2>3. PICK q1 : q1 = [q EXCEPT ![a][p] = x]
    OBVIOUS
  <2>4. HartInv(h, d, q1, u, f, Append(g, e)) /\ NextGolden(h, g, e)
    BY <1>2, <1>3, <1>5, <2>1, <2>2, <2>3, HartReads
  <2>5. fifo' = [fifo EXCEPT ![h] = q1] /\ got' = [got EXCEPT ![h] = Append(g, e)]
    BY <1>1, <1>3, <1>5, <2>2, <2>3 DEF FinishTransfer
  <2>6. OneHart(h, d, q1, u, f, Append(g, e))
    BY <1>4, <2>5 DEF OneHart
  <2>7. RInv'
    BY <1>4, <2>4, <2>6, OneHartInv
  <2>8. Delivered(h)
    <3>1. e = Golden[h][Len(g) + 1]
      BY <2>4 DEF NextGolden
    <3> QED BY <1>1, <2>4, <2>5, <3>1 DEF Delivered
  <2> QED BY <2>7, <2>8
<1>6. CASE c.port # "result"
  <2>1. Len(q[a][p]) < FifoSize
    BY <1>1, <1>3, <1>6 DEF FinishTransfer, Ready
  <2>2. PICK x : x = Append(q[a][p], Value(h, c))
    OBVIOUS
  <2>3. PICK q1 : q1 = [q EXCEPT ![a][p] = x]
    OBVIOUS
  <2>4. HartInv(h, d, q1, u, f, g)
    BY <1>2, <1>3, <1>6, <2>1, <2>2, <2>3, HartSends
  <2>5. fifo' = [fifo EXCEPT ![h] = q1] /\ got' = got
    BY <1>1, <1>3, <1>6, <2>2, <2>3 DEF FinishTransfer
  <2>6. OneHart(h, d, q1, u, f, g)
    BY <1>1, <1>4, <2>5, SameHart DEF OneHart
  <2> QED BY <1>4, <2>4, <2>5, <2>6, OneHartInv DEF Delivered
<1> QED BY <1>5, <1>6

\* The invariant is inductive, and results are read in the golden order.
LEMMA NextKeeps ==
  ASSUME RInv, [Next]_vars
  PROVE  RInv' /\ (got' = got \/ \E h \in Harts : Delivered(h))
<1>1. CASE UNCHANGED vars
  <2>1. /\ at' = at /\ fifo' = fifo /\ conv' = conv /\ fc' = fc /\ got' = got /\ dma' = dma
    BY <1>1 DEF vars
  <2>2. \A k \in Harts : HartInv(k, at'[k], fifo'[k], conv'[k], fc'[k], got'[k])
    BY <2>1, HartOf
  <2>3. \A k \in Harts : HartInv(k, at[k], fifo[k], conv[k], fc[k], got[k])'
    BY <2>2
  <2> QED BY <2>1, <2>3 DEF RInv
<1>2. ASSUME NEW h \in Harts, ConvStep(h)
      PROVE  RInv' /\ got' = got
  <2>1. CASE ConvWeight(h)
    BY <2>1, ConvWeightKeeps DEF ConvWeight
  <2>2. CASE ConvSource(h)
    BY <2>2, ConvSourceKeeps DEF ConvSource
  <2>3. CASE ConvResult(h)
    BY <2>3, ConvResultKeeps DEF ConvResult
  <2> QED BY <1>2, <2>1, <2>2, <2>3 DEF ConvStep
<1>3. ASSUME NEW h \in Harts, NEW a \in Dense, DenseStep(h, a)
      PROVE  RInv' /\ got' = got
  <2>1. CASE DenseStart(h, a)
    BY <2>1, DenseStartKeeps DEF DenseStart
  <2>2. CASE DenseEnd(h, a)
    BY <2>2, DenseEndKeeps DEF DenseEnd
  <2>3. CASE DenseSource(h, a)
    BY <2>3, DenseSourceKeeps DEF DenseSource
  <2>4. CASE DenseWeight(h, a)
    BY <2>4, DenseWeightKeeps DEF DenseWeight
  <2>5. CASE a = "fc3" /\ DenseBias(h)
    BY <2>5, DenseBiasKeeps DEF DenseBias
  <2>6. CASE DenseResult(h, a)
    BY <2>6, DenseResultKeeps DEF DenseResult
  <2> QED BY <1>3, <2>1, <2>2, <2>3, <2>4, <2>5, <2>6 DEF DenseStep
<1>4. ASSUME NEW h \in Harts, StartTransfer(h)
      PROVE  RInv' /\ got' = got
  BY <1>4, StartTransferKeeps DEF StartTransfer
<1>5. ASSUME NEW h \in Harts, FinishTransfer(h)
      PROVE  RInv' /\ Delivered(h)
  BY <1>5, FinishTransferKeeps
<1> QED BY <1>1, <1>2, <1>3, <1>4, <1>5 DEF Next

-----------------------------------------------------------------------------
(***************************************************************************)
(* What RInv says about a hart.                                            *)
(***************************************************************************)
LEMMA WeightsBound ==
  ASSUME NEW h \in Harts, NEW c \in Calls(h), c.acc = "conv"
  PROVE  /\ WeightsSent(c) \in 0 .. NumWeights
         /\ c.port = "weight" => WeightsSent(c) < NumWeights
<1>1. c.port = "weight" => c.k \in 1 .. NumWeights
  <2>1. /\ \A m, k : Call("conv", "weight", m, 0, k).k = k
        /\ \A m, p, k : Call("conv", "source", m, p, k).port # "weight"
        /\ \A m, p, k : Call("conv", "result", m, p, k).port # "weight"
    BY DEF Call
  <2>2. PICK m \in First(h, Filters) .. Past(h, Filters) - 1 :
          \/ \E k \in 1 .. NumWeights : c = Call("conv", "weight", m, 0, k)
          \/ \E p \in 0 .. Rows - 1, k \in 1 .. RowLen : c = Call("conv", "source", m, p, k)
          \/ \E p \in 0 .. Rows - 1, k \in 1 .. Pooled :
               ReadsAfter(p) /\ c = Call("conv", "result", m, p, k)
    BY ConvCall
  <2>3. CASE \E k \in 1 .. NumWeights : c = Call("conv", "weight", m, 0, k)
    BY <2>1, <2>3
  <2>4. CASE \E p \in 0 .. Rows - 1, k \in 1 .. RowLen : c = Call("conv", "source", m, p, k)
    BY <2>1, <2>4
  <2>5. CASE \E p \in 0 .. Rows - 1, k \in 1 .. Pooled : c = Call("conv", "result", m, p, k)
    BY <2>1, <2>5
  <2> QED BY <2>2, <2>3, <2>4, <2>5
<1> QED BY <1>1, Sizes DEF WeightsSent

\* MAC keeps fewer rows than a filter has.
LEMMA BuffersBound ==
  ASSUME NEW m, NEW p, p \in 0 .. Rows, NEW A, NEW l, NEW e, NEW b, Buffers(m, p, A, l, e, b)
  PROVE  Len(A) < R /\ l \in R - 1 .. Rows
BY Sizes DEF Buffers

\* MAC's part of TypeOK.
ConvBound(u) ==
  /\ Len(u.weights) <= NumWeights /\ Len(u.rows) < R
  /\ Len(u.row) < RowLen /\ u.p \in R - 1 .. Rows
  /\ u.even \in BOOLEAN /\ Len(u.out) <= Pooled

\* The sizes of MAC's buffers.
LEMMA ConvBounds ==
  ASSUME NEW h \in Harts, NEW c \in Calls(h), NEW w, IsSeq(w), NEW s, NEW r, IsSeq(r),
         NEW u, IsConv(u), ConvOf(c, w, s, r, u)
  PROVE  ConvBound(u)
<1>1. PICK W, A, row, l, e, b, o :
        /\ u = Mac(W, A, row, l, e, b, o)
        /\ IsSeq(W) /\ IsSeq(A) /\ IsSeq(row) /\ IsSeq(o)
        /\ l \in Nat /\ e \in BOOLEAN /\ IsPair(b)
  BY MacFields
<1>2. /\ u.weights = W /\ u.rows = A /\ u.row = row /\ u.p = l /\ u.even = e
      /\ u.activation = b /\ u.out = o
  BY <1>1 DEF Mac
<1>3. Len(W) \in Nat /\ Len(w) \in Nat /\ Len(r) \in Nat /\ Len(o) \in Nat /\ Len(<<>>) = 0
  BY <1>1, SeqLen, SeqEmpty
<1>4. SUFFICES /\ Len(W) <= NumWeights /\ Len(A) < R /\ Len(row) < RowLen
               /\ l \in R - 1 .. Rows /\ Len(o) <= Pooled
  BY <1>1, <1>2, Zenon DEF ConvBound
<1>5. ASSUME NEW p \in 0 .. Rows - 1, Working(c, w, s, r, u, p), c.acc = "conv"
      PROVE  /\ Len(W) <= NumWeights /\ Len(A) < R /\ Len(row) < RowLen
             /\ l \in R - 1 .. Rows /\ Len(o) <= Pooled
  <2>1. /\ o = <<>> /\ Len(W) + Len(w) = WeightsSent(c) /\ Len(row) < RowLen
        /\ Buffers(c.m, p, A, l, e, b)
    BY <1>2, <1>5, Zenon DEF Working, BuffersOf
  <2>2. WeightsSent(c) \in 0 .. NumWeights
    BY <1>5, WeightsBound
  <2>3. Len(A) < R /\ l \in R - 1 .. Rows
    BY <2>1, BuffersBound, Sizes
  <2> QED BY <1>3, <2>1, <2>2, <2>3, Sizes
<1>6. ASSUME Delivering(c, w, s, r, u), c.acc = "conv"
      PROVE  /\ Len(W) <= NumWeights /\ Len(A) < R /\ Len(row) < RowLen
             /\ l \in R - 1 .. Rows /\ Len(o) <= Pooled
  <2>1. PICK m \in First(h, Filters) .. Past(h, Filters) - 1, p \in 0 .. Rows - 1, k \in 1 .. Pooled :
          c = Call("conv", "result", m, p, k)
    <3>1. c.port = "result"
      BY <1>6 DEF Delivering
    <3> QED BY <1>6, <3>1, ResultCall
  <2>2. c.p = p /\ c.k = k
    BY <2>1 DEF Call
  <2>3. row = <<>> /\ Len(r) + Len(o) = Pooled - (k - 1)
    BY <1>2, <1>6, <2>2, Zenon DEF Delivering
  <2>4. \/ p + 1 < Rows /\ Buffers(c.m, p + 1, A, l, e, b) /\ Len(W) = NumWeights
        \/ W = <<>> /\ Buffers(c.m, 0, A, l, e, b)
    BY <1>2, <1>6, <2>2, Zenon DEF Delivering, BuffersOf
  <2>5. Len(A) < R /\ l \in R - 1 .. Rows
    BY <2>4, BuffersBound, Sizes
  <2> QED BY <1>3, <2>3, <2>4, <2>5, Sizes
<1>7. ASSUME ConvResting(w, s, r, u)
      PROVE  /\ Len(W) <= NumWeights /\ Len(A) < R /\ Len(row) < RowLen
             /\ l \in R - 1 .. Rows /\ Len(o) <= Pooled
  <2>1. W = <<>> /\ row = <<>> /\ o = <<>> /\ Buffers(0, 0, A, l, e, b)
    BY <1>2, <1>7, Zenon DEF ConvResting, BuffersOf
  <2>2. Len(A) < R /\ l \in R - 1 .. Rows
    BY <2>1, BuffersBound, Sizes
  <2> QED BY <1>3, <2>1, <2>2, Sizes
<1> QED BY <1>5, <1>6, <1>7 DEF ConvOf

\* The loop variables of Fully_Connect.
LEMMA DenseBounds ==
  ASSUME NEW h \in Harts, NEW a \in Dense, NEW c \in Calls(h),
         NEW ss, NEW se, NEW s, NEW w, NEW bs, NEW r,
         NEW f, IsDense(f), DenseOf(h, a, c, ss, se, s, w, bs, r, f)
  PROVE  f.i \in 0 .. Inputs /\ f.j \in -1 .. Outputs - 1
<1>1. PICK start, end, i, j, source, bias, acc :
        f = Fully(start, end, i, j, source, bias, acc) /\ IsAcc(acc)
  BY FullyFields
<1>2. /\ f.start = start /\ f.end = end /\ f.i = i /\ f.j = j /\ f.source = source
      /\ f.bias = bias /\ f.acc = acc
  BY <1>1 DEF Fully
<1>3. PICK z : IdleDense = Fully(None, None, 0, None, <<>>, <<>>, z)
  BY IdleIs
<1>4. Fully(None, None, 0, None, <<>>, <<>>, z).i = 0 /\ Fully(None, None, 0, None, <<>>, <<>>, z).j = None
  BY DEF Fully
<1>5. IdleDense.i = 0 /\ IdleDense.j = None
  BY <1>3, <1>4, Zenon
<1>6. CASE c.acc = a
  <2>1. PICK port, m, ni, nf :
          port = c.port /\ m = c.m /\ ni = InputsSent(c) /\ nf = FactorsSent(h, c)
    OBVIOUS
  <2>2. Relation(h, a, port, m, ni, nf, ss, se, s, w, bs, r,
                 start, end, i, j, source, bias, acc)
    BY <1>1, <1>6, <2>1, DenseOfIs
  <2>3. CASE Feeding(h, a, port, m, ni, nf, ss, se, s, w, bs, r,
                     start, end, i, j, source, bias, acc)
    <3>1. i \in 0 .. Inputs - 1 /\ j \in {None} \cup Low(h) .. High(h) - 1
      BY <2>3, Zenon DEF Feeding
    <3> QED BY <1>2, <3>1, OutputHalf, Sizes DEF None
  <2>4. CASE \E n \in 0 .. High(h) : Answering(h, a, port, m, ss, se, s, w, bs, r,
                                        start, end, i, j, source, bias, acc, n)
    <3>1. PICK n \in 0 .. High(h) : Answering(h, a, port, m, ss, se, s, w, bs, r,
                                        start, end, i, j, source, bias, acc, n)
      BY <2>4
    <3>2. (n < High(h) /\ i = Inputs /\ j = n) \/ f = IdleDense
      BY <1>1, <3>1, Zenon DEF Answering
    <3> QED BY <1>2, <1>5, <3>2, OutputHalf, Sizes DEF None
  <2> QED BY <2>2, <2>3, <2>4, Zenon DEF Relation
<1>7. CASE c.acc # a
  <2>1. f = IdleDense
    BY <1>7, Zenon DEF DenseOf, DenseResting
  <2> QED BY <1>5, <2>1, Sizes DEF None
<1> QED BY <1>6, <1>7

\* The type invariant follows from the inductive one.
LEMMA TypeHolds ==
  ASSUME RInv
  PROVE  TypeOK
<1>1. ASSUME NEW h \in Harts
      PROVE  /\ at[h] \in Calls(h)
             /\ \A a \in Accelerators, p \in Ports : Len(fifo[h][a][p]) <= FifoSize
             /\ ConvBound(conv[h])
             /\ \A a \in Dense : fc[h][a].i \in 0 .. Inputs /\ fc[h][a].j \in -1 .. Outputs - 1
  <2>1. PICK c, q, u, f, g :
          c = at[h] /\ q = fifo[h] /\ u = conv[h] /\ f = fc[h] /\ g = got[h]
    OBVIOUS
  <2>2. HartInv(h, c, q, u, f, g)
    BY <2>1, HartOf
  <2>3. c \in Calls(h) /\ Queues(q) /\ IsConv(u) /\ ConvInv(c, q, u)
    BY <2>2 DEF HartInv
  <2>4. \A a \in Accelerators, p \in Ports : Len(q[a][p]) <= FifoSize
    BY <2>3 DEF Queues
  <2>5. ConvBound(u)
    <3>1. PICK w, s, r : w = q["conv"]["weight"] /\ s = q["conv"]["source"] /\ r = q["conv"]["result"]
      OBVIOUS
    <3>2. IsSeq(w) /\ IsSeq(r) /\ ConvOf(c, w, s, r, u)
      BY <2>3, <3>1, PortNames DEF Queues, ConvInv
    <3> QED BY <2>3, <3>2, ConvBounds
  <2>6. ASSUME NEW a \in Dense PROVE f[a].i \in 0 .. Inputs /\ f[a].j \in -1 .. Outputs - 1
    <3>1. PICK v : v = f[a]
      OBVIOUS
    <3>2. IsDense(v) /\ DenseInv(h, a, c, q, v)
      BY <2>2, <3>1 DEF HartInv
    <3>3. v.i \in 0 .. Inputs /\ v.j \in -1 .. Outputs - 1
      BY <2>3, <3>2, DenseBounds DEF DenseInv
    <3> QED BY <3>1, <3>3
  <2> QED BY <2>1, <2>3, <2>4, <2>5, <2>6
<1>2. dma \in Harts \cup {None}
  BY DEF RInv
<1> QED BY <1>1, <1>2 DEF TypeOK, ConvBound

\* MAC and Fully_Connect can go on.
MacGoes(w, s, r, u) ==
  IF u.out # <<>> THEN Len(r) < FifoSize
  ELSE IF Len(u.weights) < NumWeights THEN w # <<>> ELSE s # <<>>

DenseGoes(a, ss, se, s, w, bs, r, start, end, i, j, bias) ==
  IF start = None THEN ss # <<>>
  ELSE IF end = None THEN se # <<>>
  ELSE IF i < Inputs THEN IF j = None THEN s # <<>> ELSE w # <<>>
  ELSE IF a = "fc3" /\ bias = <<>> THEN bs # <<>> ELSE Len(r) < FifoSize

\* What has been sent when a result is to be read.
LEMMA SourcesBound ==
  ASSUME NEW h \in Harts, NEW c \in Calls(h), c.acc = "conv", c.port = "result"
  PROVE  \E i \in 0 .. Rows - 1, k \in 1 .. Pooled :
            c.p = i /\ c.k = k /\ SourcesSent(c) = Base(i) + RowLen
<1>1. PICK m \in First(h, Filters) .. Past(h, Filters) - 1, i \in 0 .. Rows - 1, k \in 1 .. Pooled :
        c = Call("conv", "result", m, i, k)
  BY ResultCall
<1>2. c.p = i /\ c.k = k
  BY <1>1 DEF Call
<1>3. SourcesSent(c) = Base(i) + RowLen
  <2>1. i \in Nat
    BY Sizes
  <2>2. Base(i + 1) = Base(i) + RowLen
    BY <2>1, BaseNext
  <2>3. SourcesSent(c) = Base(i + 1)
    BY <1>2 DEF SourcesSent
  <2> QED BY <2>2, <2>3
<1> QED BY <1>2, <1>3

\* Row numbers and element numbers grow together.
LEMMA BaseGrows ==
  ASSUME NEW n, n \in Nat, NEW p, p \in Nat, n <= p
  PROVE  Base(n) <= Base(p) /\ Base(n) \in Nat /\ Base(p) \in Nat
<1>1. CASE n = p
  BY <1>1, BaseNext
<1>2. CASE n < p
  BY <1>2, BaseLess, BaseNext, Sizes
<1> QED BY <1>1, <1>2

\* MAC can move when the program waits for it.
LEMMA ConvStall ==
  ASSUME NEW h \in Harts, NEW c \in Calls(h), c.acc = "conv",
         NEW w, IsSeq(w), NEW s, IsSeq(s), NEW r, IsSeq(r),
         NEW u, IsConv(u), ConvOf(c, w, s, r, u),
         \/ c.port = "weight" /\ w # <<>>
         \/ c.port = "source" /\ s # <<>>
         \/ c.port = "result" /\ r = <<>>
  PROVE  MacGoes(w, s, r, u)
<1>1. PICK W, A, row, l, e, b, o :
        /\ u = Mac(W, A, row, l, e, b, o)
        /\ IsSeq(W) /\ IsSeq(A) /\ IsSeq(row) /\ IsSeq(o)
        /\ l \in Nat /\ e \in BOOLEAN /\ IsPair(b)
  BY MacFields
<1>2. u.weights = W /\ u.row = row /\ u.out = o
  BY <1>1 DEF Mac
<1>3. /\ Len(W) \in Nat /\ Len(w) \in Nat /\ Len(s) \in Nat /\ Len(row) \in Nat
      /\ Len(o) \in Nat /\ Len(<<>>) = 0
  BY <1>1, SeqLen, SeqEmpty
<1>4. SUFFICES IF o # <<>> THEN Len(r) < FifoSize
               ELSE IF Len(W) < NumWeights THEN w # <<>> ELSE s # <<>>
  BY <1>2, Zenon DEF MacGoes
<1>5. ASSUME NEW p \in 0 .. Rows - 1, Working(c, w, s, r, u, p)
      PROVE  o = <<>> /\ (IF Len(W) < NumWeights THEN w # <<>> ELSE s # <<>>)
  <2>1. /\ o = <<>> /\ Len(W) + Len(w) = WeightsSent(c) /\ Len(row) < RowLen
        /\ (Base(p) + Len(row)) + Len(s) = SourcesSent(c)
        /\ (c.port = "result" => p <= c.p)
    BY <1>2, <1>5, Zenon DEF Working
  <2>2. CASE c.port = "weight"
    <3>1. WeightsSent(c) < NumWeights /\ WeightsSent(c) \in Nat
      BY <2>2, WeightsBound
    <3> QED BY <1>3, <2>1, <2>2, <3>1, Sizes
  <2>3. CASE c.port # "weight"
    <3>1. WeightsSent(c) = NumWeights
      BY <2>3 DEF WeightsSent
    <3>2. Len(W) < NumWeights => w # <<>>
      BY <1>3, <2>1, <3>1, Sizes
    <3>3. s # <<>>
      <4>1. CASE c.port = "result"
        <5>1. PICK i \in 0 .. Rows - 1 : c.p = i /\ SourcesSent(c) = Base(i) + RowLen
          BY <4>1, SourcesBound
        <5>2. Base(p) <= Base(i) /\ Base(p) \in Nat /\ Base(i) \in Nat
          <6>1. p \in Nat /\ i \in Nat /\ p <= i
            BY <2>1, <4>1, <5>1, Sizes
          <6> QED BY <6>1, BaseGrows
        <5> QED BY <1>3, <2>1, <5>1, <5>2, Sizes
      <4>2. CASE c.port # "result"
        BY <2>3, <4>2
      <4> QED BY <4>1, <4>2
    <3> QED BY <2>1, <3>2, <3>3
  <2> QED BY <2>2, <2>3
<1>6. ASSUME Delivering(c, w, s, r, u)
      PROVE  o # <<>> /\ Len(r) < FifoSize
  <2>1. c.port = "result"
    BY <1>6 DEF Delivering
  <2>2. PICK k \in 1 .. Pooled : c.k = k
    BY <2>1, SourcesBound
  <2>3. r = <<>> /\ Len(r) + Len(o) = Pooled - (k - 1)
    BY <1>2, <1>6, <2>1, <2>2, Zenon DEF Delivering
  <2> QED BY <1>3, <2>3, Sizes
<1> QED BY <1>5, <1>6 DEF ConvOf

\* A limit that has not arrived is in its FIFO.
LEMMA SentArrives ==
  ASSUME NEW q, NEW x, NEW v, Sent(q, x, v), v # None, x = None
  PROVE  q # <<>>
BY OneSome DEF Sent

\* Input numbers and weight numbers grow together.
LEMMA BlockGrows ==
  ASSUME NEW h \in Harts, NEW n, n \in Nat, NEW p, p \in Nat, n <= p
  PROVE  Block(n) <= Block(p) /\ Block(n) \in Nat /\ Block(p) \in Nat
<1>1. CASE n = p
  BY <1>1, BlockNext
<1>2. CASE n < p
  BY <1>2, BlockLess, BlockNext, OutputHalf
<1> QED BY <1>1, <1>2

\* What has been sent when the program makes a call.
SentAt(port, ni, nf) ==
  \/ port \in {"start", "end"} /\ ni = 0 /\ nf = 0
  \/ port = "source" /\ ni \in 0 .. Inputs - 1 /\ nf = Block(ni)
  \/ port = "weight" /\ \E i \in 0 .. Inputs - 1, y \in 0 .. Width - 1 : ni = i + 1 /\ nf = Block(i) + y
  \/ port \in {"bias", "result"} /\ ni = Inputs /\ nf = Block(Inputs)

\* What has been sent at a call of a dense layer.
LEMMA SentAtCall ==
  ASSUME NEW h \in Harts, NEW a \in Dense, NEW c \in Calls(h), c.acc = a
  PROVE  /\ SentAt(c.port, InputsSent(c), FactorsSent(h, c))
         /\ c.port = "bias" => a = "fc3"
         /\ c.port \in {"bias", "result"} => c.m \in Low(h) .. High(h) - 1
<1> DEFINE Goal == /\ SentAt(c.port, InputsSent(c), FactorsSent(h, c))
                   /\ c.port = "bias" => a = "fc3"
                   /\ c.port \in {"bias", "result"} => c.m \in Low(h) .. High(h) - 1
<1>1. \A port, m, i : /\ Call(a, port, m, i, 0).port = port /\ Call(a, port, m, i, 0).m = m
                      /\ Call(a, port, m, i, 0).p = i
  BY DEF Call
<1>2. ASSUME NEW port \in {"start", "end"}, c = Call(a, port, 0, 0, 0) PROVE Goal
  BY <1>1, <1>2 DEF SentAt, InputsSent, FactorsSent
<1>3. ASSUME NEW i \in 0 .. Inputs - 1, c = Call(a, "source", 0, i, 0) PROVE Goal
  BY <1>1, <1>3 DEF SentAt, InputsSent, FactorsSent
<1>4. ASSUME NEW m \in Low(h) .. High(h) - 1, NEW i \in 0 .. Inputs - 1,
             c = Call(a, "weight", m, i, 0)
      PROVE  Goal
  <2>1. c.port = "weight" /\ c.m = m /\ c.p = i
    BY <1>1, <1>4
  <2>2. m - Low(h) \in 0 .. Width - 1
    BY OutputHalf
  <2>3. InputsSent(c) = i + 1 /\ FactorsSent(h, c) = Block(i) + (m - Low(h))
    BY <2>1 DEF InputsSent, FactorsSent
  <2> QED BY <2>1, <2>2, <2>3 DEF SentAt
<1>5. ASSUME NEW m \in Low(h) .. High(h) - 1, a = "fc3", c = Call(a, "bias", m, 0, 0) PROVE Goal
  BY <1>1, <1>5 DEF SentAt, InputsSent, FactorsSent
<1>6. ASSUME NEW m \in Low(h) .. High(h) - 1, c = Call(a, "result", m, 0, 0) PROVE Goal
  BY <1>1, <1>6 DEF SentAt, InputsSent, FactorsSent
<1> QED BY <1>2, <1>3, <1>4, <1>5, <1>6, DenseCall

\* The port of a stalled request and its FIFO.
Waits(port, ss, se, s, w, bs, r) ==
  \/ port = "start" /\ ss # <<>>
  \/ port = "end" /\ se # <<>>
  \/ port = "source" /\ s # <<>>
  \/ port = "weight" /\ w # <<>>
  \/ port = "bias" /\ bs # <<>>
  \/ port = "result" /\ r = <<>>

\* Fully_Connect can move when the program waits for it to accumulate.
LEMMA FeedingGoes ==
  ASSUME NEW h \in Harts, NEW a \in Dense, NEW port, NEW m, NEW ni, NEW nf,
         NEW ss, NEW se, NEW s, IsSeq(s), NEW w, IsSeq(w), NEW bs, NEW r,
         NEW start, NEW end, NEW i, NEW j, NEW source, NEW bias, NEW acc,
         Feeding(h, a, port, m, ni, nf, ss, se, s, w, bs, r,
                 start, end, i, j, source, bias, acc),
         SentAt(port, ni, nf), Waits(port, ss, se, s, w, bs, r)
  PROVE  DenseGoes(a, ss, se, s, w, bs, r, start, end, i, j, bias)
<1>1. /\ Limits(h, port, ss, se, start, end)
      /\ i \in 0 .. Inputs - 1 /\ (j = None \/ j \in Low(h) .. High(h) - 1)
      /\ Stream(s, InputSeq, Taken(i, j), ni) /\ Stream(w, FactorSeq(h), Used(h, i, j), nf)
      /\ (port = "bias" => bs = <<>>)
  BY Zenon DEF Feeding
<1>2. /\ Low(h) \in Nat /\ High(h) \in Nat /\ High(h) = Low(h) + Width /\ Width \in Nat \ {0}
      /\ Low(h) # None /\ High(h) # None
  BY OutputHalf DEF None
<1>3. port # "start" /\ port # "end" /\ port # "bias"
  BY <1>1 DEF Waits, Limits, Unsent
<1>4. start = None => ss # <<>>
  <2>1. Sent(ss, start, Low(h))
    BY <1>1, <1>3 DEF Limits
  <2> QED BY <1>2, <2>1, SentArrives
<1>5. end = None => se # <<>>
  <2>1. Sent(se, end, High(h))
    BY <1>1, <1>3 DEF Limits
  <2> QED BY <1>2, <2>1, SentArrives
<1>6. i < Inputs /\ i \in Nat /\ Inputs \in Nat
  BY <1>1, Sizes
<1>7. Taken(i, j) + Len(s) = ni /\ Used(h, i, j) + Len(w) = nf /\ Len(s) \in Nat /\ Len(w) \in Nat
  BY <1>1, SeqLen DEF Stream
<1>8. j = None => s # <<>>
  <2> SUFFICES ASSUME j = None, s = <<>> PROVE FALSE
    OBVIOUS
  <2>1. i = ni /\ Block(i) + Len(w) = nf
    <3>1. Len(s) = 0
      BY SeqEmpty
    <3>2. Taken(i, j) = i /\ Used(h, i, j) = Block(i) + (Low(h) - Low(h))
      BY DEF Taken, Used, Column
    <3>3. Block(i) \in Nat
      BY <1>6, BlockNext
    <3> QED BY <1>2, <1>6, <1>7, <3>1, <3>2, <3>3
  <2>2. CASE port = "source"
    BY <2>2 DEF Waits
  <2>3. CASE port = "weight"
    <3>1. PICK x \in 0 .. Inputs - 1, y \in 0 .. Width - 1 : ni = x + 1 /\ nf = Block(x) + y
      BY <2>3 DEF SentAt
    <3>2. x \in Nat /\ y \in Nat /\ y < Width
      BY <1>2, <1>6, <3>1
    <3>3. Block(x + 1) = Block(x) + Width /\ Block(x) \in Nat
      BY <3>2, BlockNext
    <3>4. (Block(x) + Width) + Len(w) = Block(x) + y
      BY <2>1, <3>1, <3>3
    <3> QED BY <1>2, <1>7, <3>2, <3>3, <3>4
  <2>4. CASE port = "result"
    BY <1>6, <2>1, <2>4 DEF SentAt
  <2> QED BY <1>3, <2>2, <2>3, <2>4 DEF SentAt
<1>9. j # None => w # <<>>
  <2> SUFFICES ASSUME j # None, w = <<>> PROVE FALSE
    OBVIOUS
  <2>1. Len(w) = 0 /\ j \in Nat /\ j - Low(h) \in 0 .. Width - 1 /\ Block(i) \in Nat
    BY <1>1, <1>2, <1>6, SeqEmpty, BlockNext
  <2>2. (i + 1) + Len(s) = ni /\ Block(i) + (j - Low(h)) = nf
    <3>1. Taken(i, j) = i + 1 /\ Used(h, i, j) = Block(i) + (j - Low(h))
      BY DEF Taken, Used, Column
    <3> QED BY <1>7, <2>1, <3>1
  <2>3. nf < Block(i) + Width /\ Block(i + 1) = Block(i) + Width
    <3>1. Block(i + 1) = Block(i) + Width
      BY <1>6, BlockNext
    <3> QED BY <1>2, <2>1, <2>2, <3>1
  <2>4. CASE port = "source"
    <3>1. nf = Block(ni) /\ ni \in Nat /\ i + 1 <= ni
      BY <1>6, <1>7, <2>2, <2>4 DEF SentAt
    <3>2. Block(i + 1) <= Block(ni) /\ Block(i + 1) \in Nat /\ Block(ni) \in Nat
      BY <1>6, <3>1, BlockGrows
    <3> QED BY <2>3, <3>1, <3>2
  <2>5. CASE port = "weight"
    BY <2>5 DEF Waits
  <2>6. CASE port = "result"
    <3>1. nf = Block(Inputs) /\ i + 1 <= Inputs
      BY <1>6, <2>6 DEF SentAt
    <3>2. Block(i + 1) <= Block(Inputs) /\ Block(i + 1) \in Nat /\ Block(Inputs) \in Nat
      BY <1>6, <3>1, BlockGrows
    <3> QED BY <2>3, <3>1, <3>2
  <2> QED BY <1>3, <2>4, <2>5, <2>6 DEF SentAt
<1> QED BY <1>4, <1>5, <1>6, <1>8, <1>9 DEF DenseGoes

\* Fully_Connect can move when the program waits for results.
LEMMA AnsweringGoes ==
  ASSUME NEW h \in Harts, NEW a \in Dense, NEW port, NEW m,
         NEW ss, NEW se, NEW s, NEW w, NEW bs, NEW r,
         NEW start, NEW end, NEW i, NEW j, NEW source, NEW bias, NEW acc, NEW n,
         Answering(h, a, port, m, ss, se, s, w, bs, r,
                   start, end, i, j, source, bias, acc, n),
         m \in Low(h) .. High(h) - 1, port = "bias" => a = "fc3",
         Waits(port, ss, se, s, w, bs, r)
  PROVE  DenseGoes(a, ss, se, s, w, bs, r, start, end, i, j, bias)
<1>1. /\ port \in {"bias", "result"} /\ n \in m .. High(h)
      /\ Stream(r, OutputSeq(a), m, n)
      /\ n = High(h) \/ (i = Inputs /\ start = Low(h) /\ end = High(h))
      /\ \/ bs = <<>> /\ bias = <<>> /\ (a = "fc3" /\ n = m => port = "bias")
         \/ /\ a = "fc3" /\ port = "result" /\ n = m
            /\ (One(bs, Bias(m)) /\ bias = <<>>) \/ (bs = <<>> /\ bias = Bias(m))
      /\ a = "fc3" => n <= m + 1 /\ (port = "bias" => n = m)
  BY Zenon DEF Answering
<1>2. port = "result" /\ r = <<>>
  BY <1>1 DEF Waits
<1>3. n = m /\ Len(r) = 0
  BY <1>1, <1>2, SeqEmpty, OutputHalf DEF Stream
<1>4. i = Inputs /\ start = Low(h) /\ end = High(h) /\ start # None /\ end # None
  BY <1>1, <1>3, OutputHalf DEF None
<1>5. a = "fc3" /\ bias = <<>> => bs # <<>>
  <2>1. a = "fc3" => One(bs, Bias(m)) \/ bias = Bias(m)
    BY <1>1, <1>2, <1>3
  <2>2. Bias(m) # <<>>
    BY DEF Bias
  <2> QED BY <2>1, <2>2, OneSome
<1> QED BY <1>3, <1>4, <1>5, Sizes DEF DenseGoes

\* A dense layer can move when the program waits for it.
LEMMA DenseStall ==
  ASSUME NEW h \in Harts, NEW a \in Dense, NEW c \in Calls(h), c.acc = a,
         NEW ss, NEW se, NEW s, IsSeq(s), NEW w, IsSeq(w), NEW bs, NEW r,
         NEW f, IsDense(f), DenseOf(h, a, c, ss, se, s, w, bs, r, f),
         Waits(c.port, ss, se, s, w, bs, r)
  PROVE  DenseGoes(a, ss, se, s, w, bs, r, f.start, f.end, f.i, f.j, f.bias)
<1>1. PICK start, end, i, j, source, bias, acc :
        f = Fully(start, end, i, j, source, bias, acc) /\ IsAcc(acc)
  BY FullyFields
<1>2. /\ f.start = start /\ f.end = end /\ f.i = i /\ f.j = j /\ f.source = source
      /\ f.bias = bias /\ f.acc = acc
  BY <1>1 DEF Fully
<1>3. PICK port, m, ni, nf :
        port = c.port /\ m = c.m /\ ni = InputsSent(c) /\ nf = FactorsSent(h, c)
  OBVIOUS
<1>4. Relation(h, a, port, m, ni, nf, ss, se, s, w, bs, r,
               start, end, i, j, source, bias, acc)
  BY <1>1, <1>3, DenseOfIs
<1>5. /\ SentAt(port, ni, nf) /\ (port = "bias" => a = "fc3")
      /\ (port \in {"bias", "result"} => m \in Low(h) .. High(h) - 1)
      /\ Waits(port, ss, se, s, w, bs, r)
  BY <1>3, SentAtCall
<1>6. ASSUME Feeding(h, a, port, m, ni, nf, ss, se, s, w, bs, r,
                     start, end, i, j, source, bias, acc)
      PROVE  DenseGoes(a, ss, se, s, w, bs, r, start, end, i, j, bias)
  BY <1>5, <1>6, FeedingGoes
<1>7. ASSUME NEW n \in 0 .. High(h),
             Answering(h, a, port, m, ss, se, s, w, bs, r,
                       start, end, i, j, source, bias, acc, n)
      PROVE  DenseGoes(a, ss, se, s, w, bs, r, start, end, i, j, bias)
  <2>1. port \in {"bias", "result"}
    BY <1>7, Zenon DEF Answering
  <2>2. m \in Low(h) .. High(h) - 1 /\ (port = "bias" => a = "fc3")
    BY <1>5, <2>1
  <2> QED BY <1>5, <1>7, <2>2, AnsweringGoes
<1> QED BY <1>2, <1>4, <1>6, <1>7, Zenon DEF Relation

\* A hart that stalls has an accelerator that can move.
LEMMA StallHolds ==
  ASSUME RInv
  PROVE  StallIsShort
<1> SUFFICES ASSUME dma # None, ~Ready(dma) PROVE CanStep(dma, at[dma].acc)
  BY DEF StallIsShort
<1>1. PICK h \in Harts : h = dma /\ at[h] # Finished
  BY DEF RInv
<1>2. PICK c, q, u, f, g :
        c = at[h] /\ q = fifo[h] /\ u = conv[h] /\ f = fc[h] /\ g = got[h]
  OBVIOUS
<1>3. PICK a, p : a = c.acc /\ p = c.port
  OBVIOUS
<1>4. HartInv(h, c, q, u, f, g) /\ c # Finished
  BY <1>1, <1>2, HartOf
<1>5. c \in Calls(h) /\ Queues(q) /\ IsConv(u) /\ ConvInv(c, q, u)
  BY <1>4 DEF HartInv
<1>6. IF p = "result" THEN q[a][p] = <<>> ELSE ~(Len(q[a][p]) < FifoSize)
  BY <1>1, <1>2, <1>3 DEF Ready
<1>7. IF p = "result" THEN q[a][p] = <<>> ELSE q[a][p] # <<>>
  BY <1>6, SeqEmpty, Sizes
<1>8. ASSUME NEW o, p = o PROVE IF o = "result" THEN q[a][o] = <<>> ELSE q[a][o] # <<>>
  BY <1>7, <1>8
<1>9. /\ p = "start" => q[a]["start"] # <<>>
      /\ p = "end" => q[a]["end"] # <<>>
      /\ p = "source" => q[a]["source"] # <<>>
      /\ p = "weight" => q[a]["weight"] # <<>>
      /\ p = "bias" => q[a]["bias"] # <<>>
      /\ p = "result" => q[a]["result"] = <<>>
  BY <1>8
<1>10. ASSUME a = "conv"
       PROVE  CanStep(h, a)
  <2>1. PICK w, s, r : w = q["conv"]["weight"] /\ s = q["conv"]["source"] /\ r = q["conv"]["result"]
    OBVIOUS
  <2>2. IsSeq(w) /\ IsSeq(s) /\ IsSeq(r) /\ ConvOf(c, w, s, r, u)
    BY <1>5, <2>1, PortNames DEF Queues, ConvInv
  <2>3. p \in {"weight", "source", "result"}
    BY <1>3, <1>5, <1>10, ConvPort
  <2>4. \/ p = "weight" /\ w # <<>>
        \/ p = "source" /\ s # <<>>
        \/ p = "result" /\ r = <<>>
    BY <1>10, <1>9, <2>1, <2>3
  <2>5. MacGoes(w, s, r, u)
    BY <1>3, <1>5, <1>10, <2>2, <2>4, ConvStall
  <2> QED BY <1>2, <1>10, <2>1, <2>5 DEF CanStep, MacGoes
<1>11. ASSUME a \in Dense
       PROVE  CanStep(h, a)
  <2>1. PICK ss, se, s, w, bs, r :
          /\ ss = q[a]["start"] /\ se = q[a]["end"] /\ s = q[a]["source"] /\ w = q[a]["weight"]
          /\ bs = q[a]["bias"] /\ r = q[a]["result"]
    OBVIOUS
  <2>2. IsSeq(s) /\ IsSeq(w)
    BY <1>5, <1>11, <2>1, PortNames DEF Queues
  <2>3. PICK v : v = f[a]
    OBVIOUS
  <2>4. IsDense(v) /\ DenseInv(h, a, c, q, v)
    BY <1>4, <1>11, <2>3 DEF HartInv
  <2>5. DenseOf(h, a, c, ss, se, s, w, bs, r, v)
    BY <2>1, <2>4, Zenon DEF DenseInv
  <2>6. p \in Ports
    BY <1>3, <1>5, <1>11, DensePort
  <2>7. Waits(p, ss, se, s, w, bs, r)
    BY <1>9, <2>1, <2>6 DEF Waits, Ports
  <2>8. DenseGoes(a, ss, se, s, w, bs, r, v.start, v.end, v.i, v.j, v.bias)
    BY <1>3, <1>5, <1>11, <2>2, <2>4, <2>5, <2>7, DenseStall
  <2>9. a # "conv"
    BY <1>11, PortNames
  <2> QED BY <1>2, <2>1, <2>3, <2>8, <2>9 DEF CanStep, DenseGoes
<1> QED BY <1>1, <1>2, <1>3, <1>4, <1>5, <1>10, <1>11, CallAcc

-----------------------------------------------------------------------------
(***************************************************************************)
(* Between the layers.                                                     *)
(***************************************************************************)
\* Fully_Connect is idle when the program starts its layer.
StartInv ==
  \A h \in Harts, a \in Dense : at[h] = Call(a, "start", 0, 0, 0) => fc[h][a] = IdleDense

\* A dense layer's first call is not reached from within it.
LEMMA NextNotStart ==
  ASSUME NEW h \in Harts, NEW c \in Calls(h), NEW a \in Dense, c.acc = a,
         NEW d, d = NextDense(h, c)
  PROVE  d # Call(a, "start", 0, 0, 0)
<1>1. Low(h) \in Nat /\ Inputs \in Nat /\ Finished.acc = "none" /\ a # "none"
  BY OutputHalf, Sizes, CallFields
<1>2. \A b, port, m, i : Call(b, port, m, i, 0).port = port /\ Call(b, port, m, i, 0).acc = b
  BY DEF Call
<1>3. \A m : OutputCall(a, m).port \in {"bias", "result"}
  BY <1>2, OutputCallIs DEF Dense
<1> DEFINE Goal == d.port \in {"end", "source", "weight", "bias", "result"} \/ d.acc # a
<1>4. ASSUME NEW port \in {"start", "end"}, c = Call(a, port, 0, 0, 0) PROVE Goal
  BY <1>2, <1>4, NextStart
<1>5. ASSUME NEW i \in 0 .. Inputs - 1, c = Call(a, "source", 0, i, 0) PROVE Goal
  BY <1>2, <1>5, NextSource
<1>6. ASSUME NEW m \in Low(h) .. High(h) - 1, NEW i \in 0 .. Inputs - 1,
             c = Call(a, "weight", m, i, 0)
      PROVE  Goal
  <2>1. m \in Nat /\ i \in Nat
    BY <1>1
  <2>2. \/ d = Call(a, "weight", m + 1, i, 0) \/ d = Call(a, "source", 0, i + 1, 0)
        \/ d = OutputCall(a, Low(h))
    BY <1>6, <2>1, NextWeight
  <2> QED BY <1>2, <1>3, <2>2
<1>7. ASSUME NEW m \in Low(h) .. High(h) - 1, a = "fc3", c = Call(a, "bias", m, 0, 0) PROVE Goal
  BY <1>2, <1>7, NextBias
<1>8. ASSUME NEW m \in Low(h) .. High(h) - 1, c = Call(a, "result", m, 0, 0) PROVE Goal
  <2>1. m \in Nat
    BY <1>1
  <2>2. \/ d = OutputCall(a, m + 1) \/ (a = "fc1" /\ d = Call("fc3", "start", 0, 0, 0))
        \/ d = Finished
    BY <1>8, <2>1, NextResult
  <2> QED BY <1>1, <1>2, <1>3, <2>2
<1>9. Goal
  BY <1>4, <1>5, <1>6, <1>7, <1>8, DenseCall
<1> QED BY <1>2, <1>9

\* At the first call of a dense layer nothing is under way in it.
LEMMA AtStart ==
  ASSUME NEW h \in Harts, NEW a \in Dense, NEW c, c = Call(a, "start", 0, 0, 0),
         NEW ss, NEW se, NEW s, NEW w, NEW bs, NEW r, IsSeq(s), IsSeq(w),
         NEW f, IsDense(f), DenseOf(h, a, c, ss, se, s, w, bs, r, f)
  PROVE  /\ ss = <<>> /\ se = <<>> /\ s = <<>> /\ w = <<>> /\ bs = <<>> /\ r = <<>>
         /\ f.i # Inputs
<1>1. PICK start, end, i, j, source, bias, acc :
        f = Fully(start, end, i, j, source, bias, acc) /\ IsAcc(acc)
  BY FullyFields
<1>2. f.i = i
  BY <1>1 DEF Fully
<1>3. c.acc = a /\ c.port = "start" /\ InputsSent(c) = 0 /\ FactorsSent(h, c) = 0
  BY DEF Call, InputsSent, FactorsSent
<1>4. PICK m : m = c.m
  OBVIOUS
<1>5. Relation(h, a, "start", m, 0, 0, ss, se, s, w, bs, r,
               start, end, i, j, source, bias, acc)
  BY <1>1, <1>3, <1>4, DenseOfIs
<1>6. Feeding(h, a, "start", m, 0, 0, ss, se, s, w, bs, r,
              start, end, i, j, source, bias, acc)
  BY <1>5 DEF Relation, Answering
<1>7. /\ Limits(h, "start", ss, se, start, end)
      /\ (end = None => i = 0 /\ j = None)
      /\ Stream(s, InputSeq, Taken(i, j), 0) /\ Stream(w, FactorSeq(h), Used(h, i, j), 0)
  BY <1>6, Zenon DEF Feeding
<1>8. r = <<>> /\ bs = <<>>
  BY <1>6 DEF Feeding
<1>9. ss = <<>> /\ se = <<>> /\ end = None
  BY <1>7 DEF Limits, Unsent
<1>10. i = 0 /\ j = None
  BY <1>7, <1>9
<1>11. Taken(i, j) = 0 /\ Used(h, i, j) = 0
  <2>1. Taken(i, j) = 0 /\ Used(h, i, j) = Block(0) + (Low(h) - Low(h))
    BY <1>10 DEF Taken, Used, Column
  <2>2. Block(0) = 0
    BY BlockNext
  <2> QED BY <2>1, <2>2, OutputHalf
<1>12. Stream(s, InputSeq, 0, 0) /\ Stream(w, FactorSeq(h), 0, 0)
  BY <1>7, <1>11
<1>13. s = <<>> /\ w = <<>>
  BY <1>12, StreamEnds
<1> QED BY <1>2, <1>8, <1>9, <1>10, <1>13, Sizes

\* An accelerator at the start of its layer cannot move.
LEMMA StartStuck ==
  ASSUME RInv, NEW h \in Harts, NEW a \in Dense, at[h] = Call(a, "start", 0, 0, 0)
  PROVE  /\ \A p \in Ports : fifo[h][a][p] = <<>>
         /\ fc[h][a].i # Inputs
<1>1. PICK c, q, u, f, g :
        c = at[h] /\ q = fifo[h] /\ u = conv[h] /\ f = fc[h] /\ g = got[h]
  OBVIOUS
<1>2. HartInv(h, c, q, u, f, g)
  BY <1>1, HartOf
<1>3. PICK ss, se, s, w, bs, r :
        /\ ss = q[a]["start"] /\ se = q[a]["end"] /\ s = q[a]["source"] /\ w = q[a]["weight"]
        /\ bs = q[a]["bias"] /\ r = q[a]["result"]
  OBVIOUS
<1>4. IsSeq(s) /\ IsSeq(w)
  BY <1>2, <1>3, PortNames DEF HartInv, Queues
<1>5. PICK v : v = f[a]
  OBVIOUS
<1>6. IsDense(v) /\ DenseInv(h, a, c, q, v)
  BY <1>2, <1>5 DEF HartInv
<1>7. DenseOf(h, a, c, ss, se, s, w, bs, r, v)
  BY <1>3, <1>6, Zenon DEF DenseInv
<1>8. /\ ss = <<>> /\ se = <<>> /\ s = <<>> /\ w = <<>> /\ bs = <<>> /\ r = <<>>
      /\ v.i # Inputs
  BY <1>1, <1>4, <1>6, <1>7, AtStart
<1> QED BY <1>1, <1>3, <1>5, <1>8 DEF Ports

\* A dense layer the program is not in is idle and its FIFOs are empty.
LEMMA DenseElsewhere ==
  ASSUME RInv, NEW h \in Harts, NEW a \in Dense, at[h].acc # a
  PROVE  fc[h][a] = IdleDense /\ \A p \in Ports : fifo[h][a][p] = <<>>
<1>1. PICK c, q, u, f, g :
        c = at[h] /\ q = fifo[h] /\ u = conv[h] /\ f = fc[h] /\ g = got[h]
  OBVIOUS
<1>2. HartInv(h, c, q, u, f, g)
  BY <1>1, HartOf
<1>3. DenseInv(h, a, c, q, f[a])
  BY <1>2 DEF HartInv
<1>4. DenseResting(q[a]["start"], q[a]["end"], q[a]["source"], q[a]["weight"],
                   q[a]["bias"], q[a]["result"], f[a])
  BY <1>1, <1>3, Zenon DEF DenseInv, DenseOf
<1> QED BY <1>1, <1>4 DEF DenseResting, Ports

\* The second invariant holds at the start.
LEMMA StartInit ==
  ASSUME Init
  PROVE  StartInv
<1>1. fc = [h \in Harts |-> [a \in Dense |-> IdleDense]]
  BY DEF Init
<1> QED BY <1>1 DEF StartInv

\* The second invariant is kept by every step.
LEMMA StartKeeps ==
  ASSUME RInv, StartInv, [Next]_vars
  PROVE  StartInv'
<1> SUFFICES ASSUME NEW h \in Harts, NEW a \in Dense, at'[h] = Call(a, "start", 0, 0, 0)
             PROVE  fc'[h][a] = IdleDense
  BY DEF StartInv
<1>1. ASSUME at' = at, fc'[h][a] = fc[h][a]
      PROVE  fc'[h][a] = IdleDense
  BY <1>1 DEF StartInv
<1>2. CASE UNCHANGED vars
  BY <1>1, <1>2 DEF vars
<1>3. ASSUME NEW k \in Harts, StartTransfer(k) PROVE fc'[h][a] = IdleDense
  BY <1>1, <1>3 DEF StartTransfer
<1>4. ASSUME NEW k \in Harts, ConvStep(k) PROVE fc'[h][a] = IdleDense
  BY <1>1, <1>4 DEF ConvStep, ConvWeight, ConvSource, ConvResult
<1>5. ASSUME NEW k \in Harts, NEW b \in Dense, DenseStep(k, b)
      PROVE  fc'[h][a] = IdleDense
  <2>1. at' = at
    BY <1>5 DEF DenseStep, DenseStart, DenseEnd, DenseSource, DenseWeight, DenseBias, DenseResult
  <2>2. \E v : Become(k, b, v)
    <3>1. DenseBias(k) /\ b = "fc3" => \E v : Become(k, b, v)
      BY Zenon DEF DenseBias
    <3> QED BY <1>5, <3>1, Zenon
            DEF DenseStep, DenseStart, DenseEnd, DenseSource, DenseWeight, DenseResult
  <2>3. CASE k = h /\ b = a
    <3>1. (\A p \in Ports : fifo[h][a][p] = <<>>) /\ fc[h][a].i # Inputs
      BY <2>1, StartStuck
    <3>2. \A p \in Ports : ~Receive(h, a, p)
      BY <3>1 DEF Receive
    <3>3. ~(a = "fc3" /\ Receive(h, "fc3", "bias"))
      BY <3>2, PortNames
    <3>4. ~DenseResult(h, a)
      BY <3>1 DEF DenseResult
    <3>5. /\ ~DenseStart(h, a) /\ ~DenseEnd(h, a) /\ ~DenseSource(h, a) /\ ~DenseWeight(h, a)
      BY <3>2, PortNames DEF DenseStart, DenseEnd, DenseSource, DenseWeight
    <3>6. ~(a = "fc3" /\ DenseBias(h))
      BY <3>3 DEF DenseBias
    <3> QED BY <1>5, <2>3, <3>4, <3>5, <3>6 DEF DenseStep
  <2>4. CASE ~(k = h /\ b = a)
    <3>1. PICK v : fc' = [fc EXCEPT ![k][b] = v]
      BY <2>2 DEF Become
    <3>2. fc = [x \in Harts |-> fc[x]] /\ fc[h] = [x \in Dense |-> fc[h][x]]
      BY HartOf DEF RInv, HartInv
    <3>3. fc'[h][a] = fc[h][a]
      BY <2>4, <3>1, <3>2
    <3> QED BY <1>1, <2>1, <3>3
  <2> QED BY <2>3, <2>4
<1>6. ASSUME NEW k \in Harts, FinishTransfer(k) PROVE fc'[h][a] = IdleDense
  <2>1. fc' = fc
    BY <1>6 DEF FinishTransfer
  <2>2. PICK c, d : /\ c = at[k] /\ at' = [at EXCEPT ![k] = d]
                    /\ d = (IF c.acc = "conv" THEN NextConv(k, c) ELSE NextDense(k, c))
    BY <1>6 DEF FinishTransfer
  <2>3. CASE k = h
    <3>1. at'[h] = d
      BY <2>2, <2>3 DEF RInv
    <3>2. c \in Calls(h) /\ c # Finished
      <4>1. c \in Calls(h)
        BY <2>2, <2>3, HartOf DEF HartInv
      <4> QED BY <1>6, <2>2, <4>1, Names DEF FinishTransfer, RInv
    <3>3. c.acc = a => d = NextDense(h, c)
      BY <2>2, <2>3, PortNames
    <3>4. c.acc # a
      BY <3>1, <3>2, <3>3, NextNotStart
    <3> QED BY <2>1, <2>2, <2>3, <3>4, DenseElsewhere
  <2>4. CASE k # h
    <3>1. at'[h] = at[h]
      BY <2>2, <2>4 DEF RInv
    <3> QED BY <2>1, <3>1 DEF StartInv
  <2> QED BY <2>3, <2>4
<1> QED BY <1>2, <1>3, <1>4, <1>5, <1>6 DEF Next

\* MAC is idle before a filter and after the last one.
LEMMA ConvClean ==
  ASSUME NEW h \in Harts, NEW c \in Calls(h), NEW w, NEW s, NEW r, NEW u,
         IsSeq(w), IsSeq(s), IsConv(u), ConvOf(c, w, s, r, u),
         c.acc # "conv" \/ (c.port = "weight" /\ c.k = 1)
  PROVE  /\ w = <<>> /\ s = <<>> /\ r = <<>>
         /\ u = IdleConv(u.even, u.activation) /\ ~u.even
<1>1. PICK W, A, row, l, e, b, o :
        /\ u = Mac(W, A, row, l, e, b, o)
        /\ IsSeq(W) /\ IsSeq(A) /\ IsSeq(row) /\ IsSeq(o)
        /\ l \in Nat /\ e \in BOOLEAN /\ IsPair(b)
  BY MacFields
<1>2. /\ u.weights = W /\ u.rows = A /\ u.row = row /\ u.p = l /\ u.even = e
      /\ u.activation = b /\ u.out = o
  BY <1>1 DEF Mac
<1>3. ASSUME NEW m, w = <<>>, s = <<>>, r = <<>>, W = <<>>, row = <<>>, o = <<>>,
             Buffers(m, 0, A, l, e, b)
      PROVE  /\ w = <<>> /\ s = <<>> /\ r = <<>>
             /\ u = IdleConv(u.even, u.activation) /\ ~u.even
  <2>1. Len(A) = 0 /\ l = R - 1 /\ ~Odd(e)
    BY <1>3, RowPairs, Sizes DEF Buffers
  <2>2. A = <<>>
    BY <1>1, <2>1, SeqEmpty
  <2>3. Mac(<<>>, <<>>, <<>>, R - 1, e, b, <<>>) = IdleConv(e, b)
    BY DEF Mac, IdleConv
  <2>4. u = IdleConv(e, b)
    BY <1>1, <1>3, <2>1, <2>2, <2>3, Zenon
  <2>5. ~e
    BY <2>1, Zenon DEF Odd
  <2> QED BY <1>2, <1>3, <2>4, <2>5, Zenon
<1>4. CASE c.acc # "conv"
  <2>1. w = <<>> /\ s = <<>> /\ r = <<>> /\ W = <<>> /\ row = <<>> /\ o = <<>>
    BY <1>2, <1>4, Zenon DEF ConvOf, ConvResting
  <2>2. Buffers(0, 0, A, l, e, b)
    BY <1>2, <1>4, Zenon DEF ConvOf, ConvResting, BuffersOf
  <2> QED BY <1>3, <2>1, <2>2
<1>5. CASE c.acc = "conv" /\ c.port = "weight" /\ c.k = 1
  <2>1. ~Delivering(c, w, s, r, u)
    BY <1>5 DEF Delivering
  <2>2. PICK p \in 0 .. Rows - 1 : Working(c, w, s, r, u, p)
    BY <1>5, <2>1 DEF ConvOf
  <2>3. WeightsSent(c) = 0 /\ SourcesSent(c) = 0
    BY <1>5 DEF WeightsSent, SourcesSent
  <2>4. /\ o = <<>> /\ r = <<>> /\ Len(W) + Len(w) = 0 /\ (Base(p) + Len(row)) + Len(s) = 0
        /\ Buffers(c.m, p, A, l, e, b)
    BY <1>2, <2>2, <2>3, Zenon DEF Working, BuffersOf
  <2>5. /\ Len(W) \in Nat /\ Len(w) \in Nat /\ Len(s) \in Nat /\ Len(row) \in Nat
        /\ p \in Nat /\ RowLen \in Nat \ {0}
    BY <1>1, SeqLen, Sizes
  <2>6. Base(p) \in Nat /\ Base(0) = 0
    BY <2>5, BaseNext
  <2>7. p = 0
    <3> SUFFICES ASSUME 0 < p PROVE FALSE
      BY <2>5
    <3>1. Base(0) + RowLen <= Base(p)
      BY <2>5, BaseLess
    <3> QED BY <2>4, <2>5, <2>6, <3>1
  <2>8. Len(W) = 0 /\ Len(w) = 0 /\ Len(s) = 0 /\ Len(row) = 0
    BY <2>4, <2>5, <2>6
  <2>9. W = <<>> /\ w = <<>> /\ s = <<>> /\ row = <<>>
    BY <1>1, <2>8, SeqEmpty
  <2> QED BY <1>3, <2>4, <2>7, <2>9
<1> QED BY <1>4, <1>5

\* There is one call that sends start.
LEMMA DenseStartCall ==
  ASSUME NEW h \in Harts, NEW c \in Calls(h), NEW a \in Dense, c.acc = a, c.port = "start"
  PROVE  c = Call(a, "start", 0, 0, 0)
<1>1. \A port, m, p : Call(a, port, m, p, 0).port = port
  BY DEF Call
<1>2. \/ \E port \in {"start", "end"} : c = Call(a, port, 0, 0, 0)
      \/ \E i \in 0 .. Inputs - 1 : c = Call(a, "source", 0, i, 0)
      \/ \E m \in Low(h) .. High(h) - 1, i \in 0 .. Inputs - 1 : c = Call(a, "weight", m, i, 0)
      \/ \E m \in Low(h) .. High(h) - 1 : a = "fc3" /\ c = Call(a, "bias", m, 0, 0)
      \/ \E m \in Low(h) .. High(h) - 1 : c = Call(a, "result", m, 0, 0)
  BY DenseCall
<1> QED BY <1>1, <1>2

\* The handover is clean in every state of the two invariants.
LEMMA CleanHolds ==
  ASSUME RInv, StartInv
  PROVE  CleanHandover
<1> SUFFICES ASSUME NEW h \in Harts, AtBoundary(h)
             PROVE  /\ \A a \in Accelerators, p \in Ports : fifo[h][a][p] = <<>>
                    /\ conv[h] = IdleConv(conv[h].even, conv[h].activation) /\ ~conv[h].even
                    /\ \A a \in Dense : fc[h][a] = IdleDense
  BY DEF CleanHandover
<1>1. PICK c, q, u, f, g :
        c = at[h] /\ q = fifo[h] /\ u = conv[h] /\ f = fc[h] /\ g = got[h]
  OBVIOUS
<1>2. HartInv(h, c, q, u, f, g)
  BY <1>1, HartOf
<1>3. c \in Calls(h) /\ Queues(q) /\ IsConv(u) /\ ConvInv(c, q, u)
  BY <1>2 DEF HartInv
<1>4. \/ c = Finished \/ c.port = "start"
      \/ c.acc = "conv" /\ c.port = "weight" /\ c.k = 1
  BY <1>1 DEF AtBoundary
<1>5. c.acc # "conv" \/ (c.port = "weight" /\ c.k = 1)
  <2>1. c.acc = "conv" => c.port # "start"
    BY <1>3, ConvPort
  <2> QED BY <1>4, <2>1, CallFields
<1>6. PICK w, s, r : w = q["conv"]["weight"] /\ s = q["conv"]["source"] /\ r = q["conv"]["result"]
  OBVIOUS
<1>7. IsSeq(w) /\ IsSeq(s) /\ ConvOf(c, w, s, r, u)
  BY <1>3, <1>6, PortNames DEF Queues, ConvInv
<1>8. w = <<>> /\ s = <<>> /\ r = <<>> /\ u = IdleConv(u.even, u.activation) /\ ~u.even
  BY <1>3, <1>5, <1>7, ConvClean
<1>9. ASSUME NEW a \in Dense
      PROVE  fc[h][a] = IdleDense /\ \A p \in Ports : fifo[h][a][p] = <<>>
  <2>1. CASE c.acc = a
    <3>1. c = Call(a, "start", 0, 0, 0)
      <4>1. c.port = "start"
        BY <1>4, <2>1, CallFields
      <4> QED BY <1>3, <2>1, <4>1, DenseStartCall
    <3> QED BY <1>1, <3>1, StartStuck DEF StartInv
  <2>2. CASE c.acc # a
    BY <1>1, <2>2, DenseElsewhere
  <2> QED BY <2>1, <2>2
<1>10. \A p \in Ports : q["conv"][p] = <<>>
  BY <1>3, <1>6, <1>8 DEF Queues, Unused, Ports
<1>11. \A a \in Accelerators : a = "conv" \/ a \in Dense
  BY DEF Accelerators
<1>12. \A a \in Accelerators, p \in Ports : fifo[h][a][p] = <<>>
  BY <1>1, <1>9, <1>10, <1>11
<1> QED BY <1>1, <1>8, <1>9, <1>12

-----------------------------------------------------------------------------
(***************************************************************************)
(* The theorems.                                                           *)
(***************************************************************************)
LEMMA GoldenHolds ==
  ASSUME RInv
  PROVE  ResultsGolden
<1> SUFFICES ASSUME NEW h \in Harts PROVE IsPrefix(got[h], Golden[h])
  BY DEF ResultsGolden
<1>1. PICK g, t : g = got[h] /\ t = Golden[h]
  OBVIOUS
<1>2. /\ IsSeq(g)
      /\ \A n \in 1 .. Len(g) : n \in 1 .. Len(t) /\ g[n] = t[n]
  BY <1>1, HartOf DEF HartInv, GotInv
<1>3. IsSeq(t) /\ Len(t) \in Nat /\ Len(g) \in Nat
  BY <1>1, <1>2, GoldenParts, SeqLen
<1>4. Len(g) <= Len(t)
  <2>1. CASE Len(g) = 0
    BY <1>3, <2>1
  <2>2. CASE Len(g) # 0
    <3>1. Len(g) \in 1 .. Len(g)
      BY <1>3, <2>2
    <3> QED BY <1>2, <1>3, <3>1
  <2> QED BY <2>1, <2>2
<1>5. SubSeq(g, 1, Len(g)) = SubSeq(t, 1, Len(g))
  <2>1. \A i \in 1 .. Len(g) : g[i] = t[i]
    BY <1>2
  <2>2. PICK S : g \in Seq(S)
    BY <1>2, IsSeqSeq
  <2>3. PICK T : t \in Seq(T)
    BY <1>3, IsSeqSeq
  <2>4. SubSeq(g, 1, Len(g)) = [i \in 1 .. Len(g) |-> g[i]]
    BY <1>3, <2>2
  <2>5. SubSeq(t, 1, Len(g)) = [i \in 1 .. Len(g) |-> t[i]]
    BY <1>3, <1>4, <2>3
  <2> QED BY <2>1, <2>4, <2>5
<1> QED BY <1>1, <1>4, <1>5 DEF IsPrefix

\* A step that keeps the invariant is a step of GoldenLayers.
LEMMA StepReads ==
  ASSUME RInv, got' = got \/ \E h \in Harts : Delivered(h)
  PROVE  [Layers!Next]_got
<1>1. ASSUME NEW h \in Harts, Delivered(h)
      PROVE  got' = got \/ Layers!Read(h)
  <2>1. ASSUME NextGolden(h, got[h], Golden[h][Len(got[h]) + 1]),
               got' = [got EXCEPT ![h] = Append(got[h], Golden[h][Len(got[h]) + 1])]
        PROVE  Layers!Read(h)
    <3>1. Len(Golden[h]) \in Nat
      BY GoldenParts, SeqLen
    <3>2. Len(got[h]) < Len(Golden[h])
      BY <2>1, <3>1 DEF NextGolden
    <3> QED BY <2>1, <3>2 DEF Layers!Read
  <2> QED BY <1>1, <2>1 DEF Delivered
<1> QED BY <1>1 DEF Layers!Next

\* Both invariants hold throughout.
LEMMA Inductive == Spec /\ EvenStartsFalse => [](RInv /\ StartInv)
<1>1. Init /\ EvenStartsFalse => RInv /\ StartInv
  BY InitKeeps, StartInit
<1>2. RInv /\ StartInv /\ [Next]_vars => RInv' /\ StartInv'
  BY NextKeeps, StartKeeps
<1> QED BY <1>1, <1>2, PTL DEF Spec

\* If even_row starts false, FIFOs never hold more than their capacity, MAC and
\* Fully_Connect stay within their buffers, and the harts make the calls of their loops
\* (main.cpp, Convolution_1.h and FC_1.h).
THEOREM RowTypeCorrect == Spec /\ EvenStartsFalse => []TypeOK
<1>1. RInv => TypeOK
  BY TypeHolds
<1> QED BY <1>1, Inductive, PTL

\* If even_row starts false, the DMA waits at a full or an empty FIFO only while the
\* accelerator behind it can go on by itself (blocking_transport of the accelerators).
THEOREM NoDeadlyStall == Spec /\ EvenStartsFalse => []StallIsShort
<1>1. RInv => StallIsShort
  BY StallHolds
<1> QED BY <1>1, Inductive, PTL

\* If even_row starts false, it is false again after each filter, and a filter or a layer
\* leaves nothing in a FIFO or a buffer for the next one.
THEOREM HandoverIsClean == Spec /\ EvenStartsFalse => []CleanHandover
<1>1. RInv /\ StartInv => CleanHandover
  BY CleanHolds
<1> QED BY <1>1, Inductive, PTL

\* If even_row starts false, what the harts have read are the first outputs of their
\* layers, and the comparison with the golden data in main.cpp cannot fail.
THEOREM OnlyGoldenResults == Spec /\ EvenStartsFalse => []ResultsGolden
<1>1. RInv => ResultsGolden
  BY GoldenHolds
<1> QED BY <1>1, Inductive, PTL

\* If even_row starts false, the accelerators, their FIFOs, the DMA and the programs
\* implement GoldenLayers.
THEOREM LayersImplemented == Spec /\ EvenStartsFalse => ImplementsLayers
<1>1. Init => Layers!Init
  BY DEF Init, Layers!Init
<1>2. RInv /\ [Next]_vars => [Layers!Next]_got
  BY NextKeeps, StepReads
<1> QED BY <1>1, <1>2, Inductive, PTL DEF Spec, ImplementsLayers, Layers!Spec
=============================================================================
