-------------------------- MODULE DmaTransferProofs --------------------------
(***************************************************************************)
(* Proofs about DmaTransfer: for any number of harts, inputs, calls and any*)
(* jitter, the driver is right as long as the quantum does not exceed the  *)
(* four cycles of a store.  The store to OP then synchronises, and the DMA *)
(* has finished two ticks later, before its hart can give the lock back.   *)
(***************************************************************************)
EXTENDS DmaTransfer, NaturalFacts

IsFcn(f) == f = [h \in Harts |-> f[h]]

Types ==
  /\ quantum \in Quanta
  /\ phase \in 0 .. quantum - 1
  /\ pc \in [Harts -> PCs]
  /\ call \in [Harts -> 1 .. Calls + 1]
  /\ local \in [Harts -> Nat]
  /\ wake \in [Harts -> Nat]
  /\ IsFcn(buffer) /\ IsFcn(got) /\ IsFcn(input) /\ IsFcn(result)
  /\ sem \in {0, 1}
  /\ op \in {0, 1}
  /\ notified \in {None, 1}
  /\ dma \in {"waiting", "started", "copying", "written"}
  /\ delay \in {0, 1}
  /\ \A h \in Harts : pc[h] # "done" => call[h] <= Calls

\* The section that dma_lock protects, and that it admits one hart.
Holds(h) == pc[h] \in {"src", "dst", "op", "post"}

Mutex ==
  /\ \A g, h \in Harts : Holds(g) /\ Holds(h) => g = h
  /\ sem = 1 => \A h \in Harts : ~Holds(h)

Source(h) == IF IsRead(call[h]) THEN Acc(h) ELSE Ram(h)
Target(h) == IF IsRead(call[h]) THEN Ram(h) ELSE Acc(h)

Programmed ==
  \A h \in Harts :
    /\ pc[h] \in {"dst", "op"} => src = Source(h)
    /\ pc[h] = "op" => dst = Target(h)

\* A request is on its way or being carried out.
Busy == notified # None \/ dma # "waiting"

\* How far the DMA has got with the request of hart h, and how long the hart still
\* sleeps: always longer than the DMA needs.
Asked(h)   == notified = 1 /\ dma = "waiting" /\ delay = 0 /\ wake[h] >= 4
Started(h) == notified = None /\ dma = "started" /\ delay = 0 /\ wake[h] >= 3
Copying(h) ==
  /\ notified = None /\ dma = "copying"
  /\ wake[h] >= 2 + delay
  /\ IsRead(call[h]) => delay = 0 /\ wake[h] >= 3
Written(h) ==
  /\ notified = None /\ dma = "written" /\ IsRead(call[h])
  /\ wake[h] >= 2 + delay

Serving ==
  /\ Busy => \E h \in Harts :
       /\ pc[h] = "post" /\ op = 1 /\ src = Source(h) /\ dst = Target(h)
       /\ Asked(h) \/ Started(h) \/ Copying(h) \/ Written(h)
  /\ ~Busy => delay = 0 /\ op = 0

\* Position of a call in its group: 1 to Inputs for the writes, 0 for the read.
Place(h) == call[h] % (Inputs + 1)
Batch(h, n) == [i \in 1..n |-> Value(h, (call[h] - Place(h)) + i)]

\* The driver's buffer still holds what it asked the DMA to write.
Before(h) ==
  \/ pc[h] \in {"acquire", "src", "dst", "op"}
  \/ pc[h] = "post" /\ (notified # None \/ dma = "started")

\* A write call: the accelerator has the inputs of the calls before it, and from
\* the end of the transfer this one's too.
WriteData(h) ==
  /\ pc[h] # "use"
  /\ Before(h) => buffer[h] = Value(h, call[h])
  /\ pc[h] = "post" /\ dma = "copying" => block = Value(h, call[h])
  /\ pc[h] # "post" \/ Busy => input[h] = Batch(h, Place(h) - 1) /\ result[h] = <<>>
  /\ pc[h] = "post" /\ ~Busy =>
       \/ /\ input[h] = Batch(h, Place(h)) /\ result[h] = <<>>
          /\ Place(h) = Inputs => wake[h] >= 2
       \/ /\ Place(h) = Inputs
          /\ input[h] = <<>> /\ result[h] = <<Expected(h, call[h] + 1)>>

\* A read call: the result is in the accelerator, in the DMA or in the buffer.
ReadData(h) ==
  /\ pc[h] \notin {"fill", "filled"}
  /\ input[h] = <<>>
  /\ Before(h) \/ pc[h] = "done" => result[h] = <<Expected(h, call[h])>>
  /\ ~(Before(h) \/ pc[h] = "done") => result[h] = <<>>
  /\ pc[h] = "post" /\ dma = "copying" => block = Expected(h, call[h])
  /\ \/ pc[h] = "use"
     \/ pc[h] = "post" /\ (dma = "written" \/ ~Busy)
     => buffer[h] = Expected(h, call[h])

DataOf(h) == IF IsRead(call[h]) THEN ReadData(h) ELSE WriteData(h)
Data == \A h \in Harts : DataOf(h)

DInv == Types /\ Mutex /\ Programmed /\ Serving /\ Data /\ ReadsOwnResult

-----------------------------------------------------------------------------
LEMMA FcnExcept ==
  ASSUME NEW f, IsFcn(f), NEW h \in Harts, NEW v
  PROVE  /\ IsFcn([f EXCEPT ![h] = v])
         /\ [f EXCEPT ![h] = v][h] = v
         /\ \A g \in Harts : g # h => [f EXCEPT ![h] = v][g] = f[g]
BY DEF IsFcn

\* The place of the next call in its group, and of the values in a batch.
LEMMA PlaceFacts ==
  ASSUME NEW c \in Nat
  PROVE  /\ c % (Inputs + 1) \in 0..Inputs
         /\ (c + 1) % (Inputs + 1) =
              IF c % (Inputs + 1) = Inputs THEN 0 ELSE (c % (Inputs + 1)) + 1
         /\ c - (c % (Inputs + 1)) \in Nat
         /\ \A j \in 0..Inputs : ((c - (c % (Inputs + 1))) + j) % (Inputs + 1) = j
<1> DEFINE s == Inputs + 1
           q == c \div s
           r == c % s
<1>1. s \in Nat \ {0} /\ Inputs \in Nat
  BY DmaAssumption
<1>2. q \in Nat /\ r \in 0 .. s - 1 /\ c = q * s + r
  BY <1>1, Division
<1>3. q * s \in Nat /\ (q + 1) * s = q * s + s
  BY <1>1, <1>2, Z3
<1>4. ASSUME NEW j \in 0 .. s - 1 PROVE (q * s + j) % s = j
  <2> HIDE DEF s, q
  <2> QED BY <1>1, <1>2, DivisionUnique
<1>5. ((q + 1) * s + 0) % s = 0
  <2>1. q + 1 \in Nat /\ 0 \in 0 .. s - 1
    BY <1>1, <1>2
  <2> HIDE DEF s, q
  <2> QED BY <1>1, <2>1, DivisionUnique
<1> HIDE DEF s, q, r
<1>6. r \in 0..Inputs /\ c - r = q * s
  BY <1>1, <1>2, <1>3 DEF s
<1>7. ASSUME NEW j \in 0..Inputs PROVE ((c - r) + j) % s = j
  <2>1. j \in 0 .. s - 1
    BY <1>1 DEF s
  <2> QED BY <1>4, <1>6, <2>1
<1>8. (c + 1) % s = IF r = Inputs THEN 0 ELSE r + 1
  <2>1. CASE r = Inputs
    <3>1. c + 1 = (q + 1) * s + 0
      BY <1>1, <1>2, <1>3, <2>1 DEF s
    <3> QED BY <1>5, <2>1, <3>1
  <2>2. CASE r # Inputs
    <3>1. r + 1 \in 0 .. s - 1 /\ c + 1 = q * s + (r + 1)
      BY <1>1, <1>2, <1>3, <1>6, <2>2 DEF s
    <3> QED BY <1>4, <2>2, <3>1
  <2> QED BY <2>1, <2>2
<1> QED BY <1>1, <1>3, <1>6, <1>7, <1>8 DEF r, s

\* What the duration of an instruction changes; one at least as long as the
\* quantum makes its hart wait that long.
LEMMA TakesEffect ==
  ASSUME Types, NEW h \in Harts, NEW cycles \in Nat, Takes(h, cycles)
  PROVE  /\ local' \in [Harts -> Nat] /\ wake' \in [Harts -> Nat]
         /\ \A g \in Harts : g # h => wake'[g] = wake[g]
         /\ cycles >= quantum => wake'[h] >= cycles
<1> DEFINE ahead(c) == local[h] + c
           sync(c)  == ahead(c) >= quantum - phase
<1>1. PICK c \in cycles .. cycles + Jitter :
        /\ local' = [local EXCEPT ![h] = IF sync(c) THEN 0 ELSE ahead(c)]
        /\ wake'  = [wake EXCEPT ![h] = IF sync(c) THEN ahead(c) ELSE 0]
  BY DEF Takes
<1>2. /\ quantum \in Nat /\ phase \in Nat /\ local[h] \in Nat /\ c \in Nat
      /\ c >= cycles
  BY DmaAssumption DEF Types
<1>3. ahead(c) \in Nat /\ ahead(c) >= cycles
  BY <1>2
<1>4. cycles >= quantum => sync(c)
  BY <1>2, <1>3
<1> HIDE DEF ahead, sync
<1> QED BY <1>1, <1>3, <1>4 DEF Types

\* The hart that runs is not the one the DMA serves.
LEMMA RunnerIsNotServed ==
  ASSUME DInv, NEW h \in Harts, Runs(h)
  PROVE  /\ Holds(h) => ~Busy
         /\ Busy => \E g \in Harts : g # h /\ pc[g] = "post" /\ wake[g] >= 2
<1>1. ASSUME Busy PROVE \E g \in Harts : g # h /\ pc[g] = "post" /\ wake[g] >= 2
  <2>1. PICK g \in Harts : /\ pc[g] = "post"
                           /\ Asked(g) \/ Started(g) \/ Copying(g) \/ Written(g)
    BY <1>1 DEF DInv, Serving
  <2>2. wake[g] \in Nat /\ delay \in {0, 1}
    BY DEF DInv, Types
  <2>3. wake[g] >= 2
    BY <2>1, <2>2 DEF Asked, Started, Copying, Written
  <2>4. g # h
    BY <2>3 DEF Runs
  <2> QED BY <2>1, <2>3, <2>4
<1> QED BY <1>1 DEF DInv, Mutex, Holds

\* What a step leaves alone.
LEMMA ServingFrame ==
  ASSUME Types, Serving, UNCHANGED <<regVars, notified, dma, delay>>,
         \A g \in Harts : pc[g] = "post" /\ wake[g] >= 2 =>
           pc'[g] = pc[g] /\ call'[g] = call[g] /\ wake'[g] = wake[g]
  PROVE  Serving'
<1>1. CASE ~Busy
  BY <1>1 DEF Serving, Busy, regVars
<1>2. CASE Busy
  <2>1. PICK g \in Harts : /\ pc[g] = "post" /\ op = 1 /\ src = Source(g) /\ dst = Target(g)
                           /\ Asked(g) \/ Started(g) \/ Copying(g) \/ Written(g)
    BY <1>2 DEF Serving
  <2>2. wake[g] >= 2
    BY <2>1 DEF Asked, Started, Copying, Written, Types
  <2>3. pc'[g] = pc[g] /\ call'[g] = call[g] /\ wake'[g] = wake[g]
    BY <2>1, <2>2
  <2>4. (pc[g] = "post" /\ op = 1 /\ src = Source(g) /\ dst = Target(g))'
    BY <2>1, <2>3 DEF Source, Target, IsRead, regVars, Acc, Ram
  <2>5. (Asked(g) \/ Started(g) \/ Copying(g) \/ Written(g))'
    BY <2>1, <2>3 DEF Asked, Started, Copying, Written, IsRead
  <2>6. Busy'
    BY <1>2 DEF Busy
  <2> QED BY <2>4, <2>5, <2>6 DEF Serving
<1> QED BY <1>1, <1>2

LEMMA DataFrame ==
  ASSUME NEW g \in Harts, DataOf(g),
         pc'[g] = pc[g], call'[g] = call[g], input'[g] = input[g],
         result'[g] = result[g], buffer'[g] = buffer[g],
         pc[g] = "post" =>
           UNCHANGED <<notified, dma, block>> /\ wake'[g] = wake[g]
  PROVE  DataOf(g)'
<1>1. CASE pc[g] = "post"
  BY <1>1 DEF DataOf, ReadData, WriteData, Before, Busy, Batch, Place, IsRead
<1>2. CASE pc[g] # "post"
  BY <1>2 DEF DataOf, ReadData, WriteData, Before, Busy, Batch, Place, IsRead
<1> QED BY <1>1, <1>2

LEMMA CallsNat == Calls \in Nat \ {0} /\ Inputs \in Nat \ {0}
<1>1. \A a \in Nat \ {0}, b \in Nat \ {0} : a * b \in Nat \ {0}
  BY Z3
<1>2. Inputs + 1 \in Nat \ {0} /\ Groups \in Nat \ {0}
  BY DmaAssumption
<1> QED BY <1>1, <1>2, DmaAssumption DEF Calls

\* The first call of a group follows a read.
LEMMA FirstPlace ==
  ASSUME NEW c \in Nat, IsRead(c)
  PROVE  ~IsRead(c + 1) /\ (c + 1) % (Inputs + 1) = 1
BY PlaceFacts, CallsNat DEF IsRead

LEMMA DmaInit == Init => DInv
<1> SUFFICES ASSUME Init PROVE DInv
  OBVIOUS
<1>1. 0 % (Inputs + 1) = 0
  BY PlaceFacts
<1>2. ~IsRead(1) /\ 1 % (Inputs + 1) = 1
  <2>1. 0 \in Nat /\ 0 + 1 = 1 /\ IsRead(0)
    BY <1>1 DEF IsRead
  <2> QED BY <2>1, FirstPlace
<1>3. \A h \in Harts : pc[h] = "fill" /\ call[h] = 1
  <2>1. Begin(1) = "fill"
    BY <1>2, CallsNat DEF Begin
  <2>2. pc = [h \in Harts |-> Begin(1)] /\ call = [h \in Harts |-> 1]
    BY DEF Init
  <2> QED BY <2>1, <2>2
<1>4. Types
  <2>1. quantum \in Quanta /\ phase \in 0 .. quantum - 1
    BY DmaAssumption DEF Init
  <2>2. pc \in [Harts -> PCs] /\ call \in [Harts -> 1 .. Calls + 1]
    BY <1>3, CallsNat DEF Init, PCs
  <2>3. IsFcn(buffer) /\ IsFcn(got) /\ IsFcn(input) /\ IsFcn(result)
    BY DEF Init, IsFcn
  <2> QED BY <2>1, <2>2, <2>3, <1>3, CallsNat DEF Init, Types
<1>5. Mutex /\ Programmed
  BY <1>3 DEF Mutex, Programmed, Holds
<1>6. Serving
  BY DEF Init, Serving, Busy
<1>7. Data
  <2> SUFFICES ASSUME NEW h \in Harts PROVE WriteData(h)
    BY <1>2, <1>3 DEF Data, DataOf
  <2>1. Place(h) = 1 /\ input[h] = <<>> /\ result[h] = <<>>
    BY <1>2, <1>3 DEF Place, Init
  <2>2. Batch(h, Place(h) - 1) = <<>>
    BY <2>1 DEF Batch
  <2> QED BY <1>3, <2>1, <2>2 DEF WriteData, Before
<1>8. ReadsOwnResult
  BY <1>3 DEF ReadsOwnResult
<1> QED BY <1>4, <1>5, <1>6, <1>7, <1>8 DEF DInv

-----------------------------------------------------------------------------
(***************************************************************************)
(* The steps of a hart.                                                    *)
(***************************************************************************)
LEMMA OthersData ==
  ASSUME DInv, NEW h \in Harts, UNCHANGED <<notified, dma, block, input, result>>,
         \A g \in Harts : g # h =>
           /\ pc'[g] = pc[g] /\ call'[g] = call[g]
           /\ buffer'[g] = buffer[g] /\ wake'[g] = wake[g]
  PROVE  \A g \in Harts : g # h => DataOf(g)'
<1> SUFFICES ASSUME NEW g \in Harts, g # h PROVE DataOf(g)'
  OBVIOUS
<1>1. DataOf(g)
  BY DEF DInv, Data
<1> QED BY <1>1, DataFrame

LEMMA FillStep ==
  ASSUME DInv, NEW h \in Harts, Fill(h)
  PROVE  DInv'
<1>1. Types /\ Mutex /\ Programmed /\ Serving /\ Data /\ ReadsOwnResult
  BY DEF DInv
<1>2. /\ Runs(h) /\ pc[h] \in {"fill", "filled"}
      /\ pc' = [pc EXCEPT ![h] = IF pc[h] = "fill" THEN "filled" ELSE "acquire"]
      /\ buffer' = [buffer EXCEPT ![h] = IF pc[h] = "fill" THEN Torn ELSE Value(h, call[h])]
      /\ Takes(h, 4)
      /\ UNCHANGED <<timeVars, call, got, sem, regVars, dmaVars, accVars>>
  BY DEF Fill, Goto, Access
<1>3. /\ local' \in [Harts -> Nat] /\ wake' \in [Harts -> Nat]
      /\ \A g \in Harts : g # h => wake'[g] = wake[g]
  BY <1>1, <1>2, TakesEffect
<1>4. /\ pc'[h] = (IF pc[h] = "fill" THEN "filled" ELSE "acquire")
      /\ \A g \in Harts : g # h => pc'[g] = pc[g]
      /\ pc' \in [Harts -> PCs]
  BY <1>1, <1>2 DEF Types, PCs
<1>5. /\ IsFcn(buffer')
      /\ buffer'[h] = (IF pc[h] = "fill" THEN Torn ELSE Value(h, call[h]))
      /\ \A g \in Harts : g # h => buffer'[g] = buffer[g]
  <2> DEFINE v == IF pc[h] = "fill" THEN Torn ELSE Value(h, call[h])
  <2>1. buffer' = [buffer EXCEPT ![h] = v] /\ IsFcn(buffer)
    BY <1>1, <1>2 DEF Types
  <2> HIDE DEF v
  <2>2. IsFcn(buffer') /\ buffer'[h] = v /\ \A g \in Harts : g # h => buffer'[g] = buffer[g]
    BY <2>1 DEF IsFcn
  <2> QED BY <2>2 DEF v
<1>6. Types'
  BY <1>1, <1>2, <1>3, <1>4, <1>5 DEF Types, timeVars, regVars, dmaVars, accVars, IsFcn
<1>7. Mutex' /\ Programmed'
  BY <1>1, <1>2, <1>4 DEF Mutex, Programmed, Holds, Source, Target, IsRead, regVars, Acc, Ram
<1>8. Serving'
  BY <1>1, <1>2, <1>3, <1>4, ServingFrame DEF dmaVars
<1>9. Data'
  <2>1. \A g \in Harts : g # h => DataOf(g)'
    BY <1>2, <1>3, <1>4, <1>5, OthersData DEF dmaVars, accVars
  <2>2. ~IsRead(call[h]) /\ WriteData(h)
    BY <1>1, <1>2 DEF Data, DataOf, ReadData
  <2>3. WriteData(h)'
    BY <1>2, <1>4, <1>5, <2>2 DEF WriteData, Before, Busy, Batch, Place, dmaVars, accVars
  <2>4. DataOf(h)'
    BY <1>2, <2>2, <2>3 DEF DataOf, IsRead
  <2> QED BY <2>1, <2>4 DEF Data
<1>10. ReadsOwnResult'
  BY <1>1, <1>2, <1>4 DEF ReadsOwnResult, IsRead
<1> QED BY <1>6, <1>7, <1>8, <1>9, <1>10 DEF DInv

\* sem_wait and the first three register stores.
LEMMA SetupStep ==
  ASSUME DInv, NEW h \in Harts, Acquire(h) \/ StoreSrc(h) \/ StoreDst(h)
  PROVE  DInv'
<1>1. Types /\ Mutex /\ Programmed /\ Serving /\ Data /\ ReadsOwnResult
  BY DEF DInv
<1>2. /\ Runs(h) /\ pc[h] \in {"acquire", "src", "dst"}
      /\ UNCHANGED <<timeVars, call, buffer, got, op, dmaVars, accVars>>
      /\ \E cycles \in Nat : Takes(h, cycles)
      /\ \/ pc[h] = "acquire" /\ sem = 0 /\ sem' = 0 /\ pc' = pc /\ UNCHANGED <<src, dst>>
         \/ /\ pc[h] = "acquire" /\ sem = 1 /\ sem' = 0 /\ UNCHANGED <<src, dst>>
            /\ pc' = [pc EXCEPT ![h] = "src"]
         \/ /\ pc[h] = "src" /\ src' = Source(h) /\ UNCHANGED <<sem, dst>>
            /\ pc' = [pc EXCEPT ![h] = "dst"]
         \/ /\ pc[h] = "dst" /\ dst' = Target(h) /\ UNCHANGED <<sem, src>>
            /\ pc' = [pc EXCEPT ![h] = "op"]
  <2>1. 2 \in Nat /\ 4 \in Nat /\ 8 \in Nat /\ sem \in {0, 1}
    BY <1>1 DEF Types
  <2>2. CASE Acquire(h)
    BY <2>1, <2>2 DEF Acquire, Goto, regVars
  <2>3. CASE StoreSrc(h)
    BY <2>1, <2>3 DEF StoreSrc, Goto, Access, Source
  <2>4. CASE StoreDst(h)
    <3>1. Takes(h, 8)
      BY <2>4 DEF StoreDst, Access
    <3> QED BY <2>1, <2>4, <3>1 DEF StoreDst, Goto, Target
  <2> QED BY <2>2, <2>3, <2>4
<1>3. /\ local' \in [Harts -> Nat] /\ wake' \in [Harts -> Nat]
      /\ \A g \in Harts : g # h => wake'[g] = wake[g]
  BY <1>1, <1>2, TakesEffect
<1>4. /\ pc'[h] \in {"acquire", "src", "dst", "op"}
      /\ \A g \in Harts : g # h => pc'[g] = pc[g]
      /\ pc' \in [Harts -> PCs]
  BY <1>1, <1>2 DEF Types, PCs
<1>5. Types'
  BY <1>1, <1>2, <1>3, <1>4 DEF Types, timeVars, dmaVars, accVars, IsFcn
<1>6. Mutex'
  BY <1>1, <1>2, <1>4 DEF Mutex, Holds, Types
<1>7. Programmed'
  <2>1. \A g \in Harts : Source(g)' = Source(g) /\ Target(g)' = Target(g)
    BY <1>2 DEF Source, Target, IsRead, Acc, Ram
  <2>2. \A g \in Harts : g # h /\ pc[h] \in {"src", "dst"} => pc[g] \notin {"dst", "op"}
    BY <1>1 DEF Mutex, Holds
  <2> QED BY <1>1, <1>2, <1>4, <2>1, <2>2 DEF Programmed, Types
<1>8. Serving'
  <2>1. CASE pc[h] = "acquire"
    <3>1. UNCHANGED <<regVars, notified, dma, delay>>
      BY <1>2, <2>1 DEF regVars, dmaVars
    <3> QED BY <1>1, <1>2, <1>3, <1>4, <2>1, <3>1, ServingFrame
  <2>2. CASE pc[h] \in {"src", "dst"}
    <3>1. ~Busy
      BY <1>2, <2>2, RunnerIsNotServed DEF Holds
    <3> QED BY <1>1, <1>2, <3>1 DEF Serving, Busy, dmaVars
  <2> QED BY <1>2, <2>1, <2>2
<1>9. Data'
  <2>1. \A g \in Harts : g # h => DataOf(g)'
    BY <1>2, <1>3, <1>4, OthersData DEF dmaVars, accVars
  <2>2. IsRead(call[h]) /\ ReadData(h) => ReadData(h)'
    BY <1>2, <1>4 DEF ReadData, Before, dmaVars, accVars
  <2>3. ~IsRead(call[h]) /\ WriteData(h) => WriteData(h)'
    BY <1>2, <1>4 DEF WriteData, Before, Busy, Batch, Place, dmaVars, accVars
  <2>4. DataOf(h)'
    BY <1>1, <1>2, <2>2, <2>3 DEF Data, DataOf, IsRead
  <2> QED BY <2>1, <2>4 DEF Data
<1>10. ReadsOwnResult'
  BY <1>1, <1>2, <1>4 DEF ReadsOwnResult, IsRead
<1> QED BY <1>5, <1>6, <1>7, <1>8, <1>9, <1>10 DEF DInv

\* The store to OP: it takes as long as a quantum at least, so the hart sleeps
\* from here on for longer than the DMA needs.
LEMMA StoreOpStep ==
  ASSUME DInv, Quanta \subseteq 1 .. Access, NEW h \in Harts, StoreOp(h)
  PROVE  DInv'
<1>1. Types /\ Mutex /\ Programmed /\ Serving /\ Data /\ ReadsOwnResult
  BY DEF DInv
<1>2. /\ Runs(h) /\ pc[h] = "op" /\ op' = 1
      /\ notified' = IF notified = None THEN 1 ELSE notified
      /\ pc' = [pc EXCEPT ![h] = "post"]
      /\ Takes(h, 4)
      /\ UNCHANGED <<timeVars, call, buffer, got, sem, src, dst, dma, delay, block, accVars>>
  BY DEF StoreOp, Goto, Access
<1>3. 4 >= quantum /\ 4 \in Nat
  BY <1>1 DEF Types, Access
<1>4. /\ local' \in [Harts -> Nat] /\ wake' \in [Harts -> Nat]
      /\ \A g \in Harts : g # h => wake'[g] = wake[g]
      /\ wake'[h] >= 4
  BY <1>1, <1>2, <1>3, TakesEffect
<1>5. /\ pc'[h] = "post"
      /\ \A g \in Harts : g # h => pc'[g] = pc[g] /\ pc[g] \notin {"src", "dst", "op", "post"}
      /\ pc' \in [Harts -> PCs]
  BY <1>1, <1>2 DEF Types, PCs, Mutex, Holds
<1>6. notified = None /\ dma = "waiting" /\ delay = 0 /\ notified' = 1 /\ None # 1
  <2>1. ~Busy
    BY <1>2, RunnerIsNotServed DEF Holds
  <2> QED BY <1>1, <1>2, <2>1, DmaAssumption DEF Busy, Serving
<1>7. Types'
  BY <1>1, <1>2, <1>4, <1>5, <1>6 DEF Types, timeVars, accVars, IsFcn
<1>8. Mutex'
  BY <1>1, <1>2, <1>5 DEF Mutex, Holds
<1>9. Programmed'
  BY <1>1, <1>2, <1>5 DEF Programmed
<1>10. Serving'
  <2>1. Asked(h)'
    BY <1>2, <1>4, <1>6 DEF Asked
  <2>2. src' = Source(h)' /\ dst' = Target(h)'
    BY <1>1, <1>2 DEF Programmed, Source, Target, IsRead, Acc, Ram
  <2>3. Busy'
    BY <1>6 DEF Busy
  <2> QED BY <1>2, <1>5, <2>1, <2>2, <2>3 DEF Serving
<1>11. Data'
  <2>1. ASSUME NEW g \in Harts, g # h PROVE DataOf(g)'
    <3>1. DataOf(g) /\ pc[g] # "post"
      BY <1>1, <1>5, <2>1 DEF Data
    <3> QED BY <1>2, <1>5, <2>1, <3>1, DataFrame DEF accVars
  <2>2. IsRead(call[h]) /\ ReadData(h) => ReadData(h)'
    BY <1>2, <1>5, <1>6 DEF ReadData, Before, Busy, accVars
  <2>3. ~IsRead(call[h]) /\ WriteData(h) => WriteData(h)'
    BY <1>2, <1>5, <1>6 DEF WriteData, Before, Busy, Batch, Place, accVars
  <2>4. DataOf(h)'
    BY <1>1, <1>2, <2>2, <2>3 DEF Data, DataOf, IsRead
  <2> QED BY <2>1, <2>4 DEF Data
<1>12. ReadsOwnResult'
  BY <1>1, <1>2, <1>5 DEF ReadsOwnResult, IsRead
<1> QED BY <1>7, <1>8, <1>9, <1>10, <1>11, <1>12 DEF DInv

\* sem_post: by now the DMA has finished with the hart's request.
LEMMA PostStep ==
  ASSUME DInv, NEW h \in Harts, Post(h)
  PROVE  DInv'
<1> DEFINE c == call[h]
<1>1. Types /\ Mutex /\ Programmed /\ Serving /\ Data /\ ReadsOwnResult
  BY DEF DInv
<1>2. /\ Runs(h) /\ pc[h] = "post" /\ sem' = 1 /\ wake[h] = 0
      /\ Takes(h, 3)
      /\ UNCHANGED <<timeVars, buffer, got, regVars, dmaVars, accVars>>
  BY DEF Post, Runs
<1>3. \/ /\ IsRead(c) /\ call' = call /\ pc' = [pc EXCEPT ![h] = "use"]
      \/ /\ ~IsRead(c) /\ call' = [call EXCEPT ![h] = c + 1]
         /\ pc' = [pc EXCEPT ![h] = Begin(c + 1)]
  BY DEF Post, Goto
<1>4. /\ local' \in [Harts -> Nat] /\ wake' \in [Harts -> Nat]
      /\ \A g \in Harts : g # h => wake'[g] = wake[g]
  BY <1>1, <1>2, TakesEffect
<1>5. /\ c \in Nat /\ c \in 1 .. Calls /\ Calls \in Nat
  BY <1>1, <1>2, CallsNat DEF Types
<1>6. /\ Begin(c + 1) \in {"done", "acquire", "fill"}
      /\ Begin(c + 1) # "done" => c + 1 <= Calls
      /\ IsRead(c + 1) => Begin(c + 1) # "fill"
      /\ ~IsRead(c + 1) => Begin(c + 1) # "acquire"
  BY <1>5 DEF Begin
<1>7. /\ pc'[h] \in {"use", "done", "acquire", "fill"}
      /\ \A g \in Harts : g # h =>
           pc'[g] = pc[g] /\ call'[g] = call[g] /\ pc[g] \notin {"src", "dst", "op", "post"}
      /\ pc' \in [Harts -> PCs] /\ call' \in [Harts -> 1 .. Calls + 1]
      /\ pc'[h] # "done" => call'[h] <= Calls
  BY <1>1, <1>2, <1>3, <1>5, <1>6 DEF Types, PCs, Mutex, Holds
<1>8. ~Busy
  BY <1>2, RunnerIsNotServed DEF Holds
<1>9. Types'
  BY <1>1, <1>2, <1>4, <1>7 DEF Types, timeVars, regVars, dmaVars, accVars, IsFcn
<1>10. Mutex' /\ Programmed'
  BY <1>1, <1>2, <1>7 DEF Mutex, Holds, Programmed
<1>11. Serving'
  BY <1>1, <1>2, <1>8 DEF Serving, Busy, dmaVars, regVars
<1>12. DataOf(h)'
  <2>1. CASE IsRead(c)
    <3>1. ReadData(h) /\ call'[h] = c /\ pc'[h] = "use"
      BY <1>1, <1>3, <2>1 DEF Data, DataOf, Types
    <3>2. ReadData(h)'
      BY <1>2, <1>8, <3>1 DEF ReadData, Before, Busy, dmaVars, accVars
    <3> QED BY <2>1, <3>1, <3>2 DEF DataOf, IsRead
  <2>2. CASE ~IsRead(c)
    <3>1. WriteData(h) /\ call'[h] = c + 1 /\ pc'[h] = Begin(c + 1)
      BY <1>1, <1>3, <2>2 DEF Data, DataOf, Types
    <3>2. /\ Place(h) \in 0..Inputs
          /\ (c + 1) % (Inputs + 1) = IF Place(h) = Inputs THEN 0 ELSE Place(h) + 1
      BY <1>5, PlaceFacts DEF Place
    <3>3. CASE Place(h) = Inputs
      <4>1. input[h] = <<>> /\ result[h] = <<Expected(h, c + 1)>>
        BY <1>2, <1>8, <3>1, <3>3 DEF WriteData
      <4>2. IsRead(c + 1)
        BY <3>2, <3>3 DEF IsRead
      <4>3. pc'[h] \in {"done", "acquire"}
        BY <1>6, <3>1, <4>2
      <4>4. Expected(h, call[h])' = Expected(h, c + 1)
        BY <3>1 DEF Expected
      <4>5. ReadData(h)'
        BY <1>2, <4>1, <4>3, <4>4 DEF ReadData, Before, accVars
      <4>6. IsRead(call[h])'
        BY <3>1, <4>2 DEF IsRead
      <4> QED BY <4>5, <4>6 DEF DataOf
    <3>4. CASE Place(h) # Inputs
      <4>1. input[h] = Batch(h, Place(h)) /\ result[h] = <<>>
        BY <1>2, <1>8, <3>1, <3>4 DEF WriteData
      <4>2. ~IsRead(c + 1)
        BY <3>2, <3>4 DEF IsRead
      <4>3. pc'[h] \in {"done", "fill"}
        BY <1>6, <3>1, <4>2
      <4>4. Place(h)' = Place(h) + 1
        BY <3>1, <3>2, <3>4 DEF Place
      <4>5. call'[h] - Place(h)' = c - Place(h) /\ Place(h)' - 1 = Place(h)
        BY <1>5, <3>1, <3>2, <4>4
      <4>6. Batch(h, Place(h) - 1)' = Batch(h, Place(h))
        BY <4>5 DEF Batch
      <4>7. WriteData(h)'
        BY <1>2, <4>1, <4>3, <4>6 DEF WriteData, Before, accVars
      <4>8. ~IsRead(call[h])'
        BY <3>1, <4>2 DEF IsRead
      <4> QED BY <4>7, <4>8 DEF DataOf
    <3> QED BY <3>3, <3>4
  <2> QED BY <2>1, <2>2
<1>13. Data'
  <2>1. \A g \in Harts : g # h => DataOf(g)'
    BY <1>2, <1>4, <1>7, OthersData DEF dmaVars, accVars
  <2> QED BY <1>12, <2>1 DEF Data
<1>14. ReadsOwnResult'
  <2>1. ASSUME NEW g \in Harts, g # h
        PROVE  (pc[g] # "use" /\ call[g] > 1 /\ IsRead(call[g] - 1) => got[g] = Expected(g, call[g] - 1))'
    BY <1>1, <1>2, <1>7, <2>1 DEF ReadsOwnResult, IsRead, Expected
  <2>2. (pc[h] # "use" /\ call[h] > 1 => ~IsRead(call[h] - 1))'
    <3>1. CASE IsRead(c)
      BY <1>1, <1>3, <3>1 DEF Types
    <3>2. CASE ~IsRead(c)
      <4>1. call'[h] - 1 = c
        BY <1>1, <1>3, <1>5, <3>2 DEF Types
      <4> QED BY <3>2, <4>1 DEF IsRead
    <3> QED BY <3>1, <3>2
  <2> QED BY <2>1, <2>2 DEF ReadsOwnResult
<1> QED BY <1>9, <1>10, <1>11, <1>13, <1>14 DEF DInv

\* read_data_from_ACC returns what the DMA has written to its buffer.
LEMMA UseStep ==
  ASSUME DInv, NEW h \in Harts, Use(h)
  PROVE  DInv'
<1> DEFINE c == call[h]
<1>1. Types /\ Mutex /\ Programmed /\ Serving /\ Data /\ ReadsOwnResult
  BY DEF DInv
<1>2. /\ Runs(h) /\ pc[h] = "use"
      /\ got' = [got EXCEPT ![h] = buffer[h]]
      /\ pc' = [pc EXCEPT ![h] = Begin(c + 1)]
      /\ call' = [call EXCEPT ![h] = c + 1]
      /\ Takes(h, 4)
      /\ UNCHANGED <<timeVars, buffer, sem, regVars, dmaVars, accVars>>
  BY DEF Use, Goto, Access
<1>3. /\ local' \in [Harts -> Nat] /\ wake' \in [Harts -> Nat]
      /\ \A g \in Harts : g # h => wake'[g] = wake[g]
  BY <1>1, <1>2, TakesEffect
<1>4. c \in Nat /\ c \in 1 .. Calls /\ Calls \in Nat
  BY <1>1, <1>2, CallsNat DEF Types
<1>5. IsRead(c) /\ ReadData(h)
  BY <1>1, <1>2 DEF Data, DataOf, WriteData
<1>6. ~IsRead(c + 1) /\ (c + 1) % (Inputs + 1) = 1
  BY <1>4, <1>5, FirstPlace
<1>7. /\ Begin(c + 1) \in {"done", "fill"}
      /\ Begin(c + 1) # "done" => c + 1 <= Calls
  BY <1>4, <1>6 DEF Begin
<1>8. /\ pc'[h] \in {"done", "fill"} /\ call'[h] = c + 1 /\ got'[h] = buffer[h]
      /\ \A g \in Harts : g # h =>
           pc'[g] = pc[g] /\ call'[g] = call[g] /\ got'[g] = got[g]
      /\ pc' \in [Harts -> PCs] /\ call' \in [Harts -> 1 .. Calls + 1] /\ IsFcn(got')
      /\ pc'[h] # "done" => call'[h] <= Calls
  <2>1. IsFcn(got') /\ got'[h] = buffer[h] /\ \A g \in Harts : g # h => got'[g] = got[g]
    <3>1. IsFcn(got)
      BY <1>1 DEF Types
    <3> QED BY <1>2, <3>1 DEF IsFcn
  <2>2. /\ pc' \in [Harts -> PCs] /\ pc'[h] \in {"done", "fill"}
        /\ \A g \in Harts : g # h => pc'[g] = pc[g]
    BY <1>1, <1>2, <1>7 DEF Types, PCs
  <2>3. c + 1 \in 1 .. Calls + 1
    BY <1>4
  <2>4. /\ call' \in [Harts -> 1 .. Calls + 1] /\ call'[h] = c + 1
        /\ \A g \in Harts : g # h => call'[g] = call[g]
    BY <1>1, <1>2, <2>3 DEF Types
  <2>5. pc'[h] # "done" => call'[h] <= Calls
    BY <1>1, <1>2, <1>7, <2>4 DEF Types
  <2> QED BY <2>1, <2>2, <2>4, <2>5
<1>9. Types'
  BY <1>1, <1>2, <1>3, <1>8 DEF Types, timeVars, regVars, dmaVars, accVars, IsFcn
<1>10. Mutex' /\ Programmed'
  <2>1. Mutex'
    BY <1>1, <1>2, <1>8 DEF Mutex, Holds
  <2>2. \A g \in Harts : g # h => Source(g)' = Source(g) /\ Target(g)' = Target(g)
    BY <1>8 DEF Source, Target, IsRead, Acc, Ram
  <2>3. Programmed'
    BY <1>1, <1>2, <1>8, <2>2 DEF Programmed, regVars
  <2> QED BY <2>1, <2>3
<1>11. Serving'
  BY <1>1, <1>2, <1>3, <1>8, ServingFrame DEF dmaVars
<1>12. DataOf(h)'
  <2>1. input[h] = <<>> /\ result[h] = <<>>
    BY <1>2, <1>5 DEF ReadData, Before
  <2>2. Place(h)' = 1
    BY <1>6, <1>8 DEF Place
  <2>3. Batch(h, Place(h) - 1)' = <<>>
    BY <2>2 DEF Batch
  <2>4. WriteData(h)'
    BY <1>2, <1>8, <2>1, <2>3 DEF WriteData, Before, accVars
  <2> QED BY <1>6, <1>8, <2>4 DEF DataOf, IsRead
<1>13. Data'
  <2>1. \A g \in Harts : g # h => DataOf(g)'
    BY <1>2, <1>3, <1>8, OthersData DEF dmaVars, accVars
  <2> QED BY <1>12, <2>1 DEF Data
<1>14. ReadsOwnResult'
  <2>1. ASSUME NEW g \in Harts, g # h
        PROVE  (pc[g] # "use" /\ call[g] > 1 /\ IsRead(call[g] - 1) => got[g] = Expected(g, call[g] - 1))'
    BY <1>1, <1>8, <2>1 DEF ReadsOwnResult, IsRead, Expected
  <2>2. (got[h] = Expected(h, call[h] - 1))'
    <3>1. buffer[h] = Expected(h, c)
      BY <1>2, <1>5 DEF ReadData
    <3>2. call'[h] - 1 = c
      BY <1>4, <1>8
    <3> QED BY <1>8, <3>1, <3>2 DEF Expected
  <2> QED BY <2>1, <2>2 DEF ReadsOwnResult
<1> QED BY <1>9, <1>10, <1>11, <1>13, <1>14 DEF DInv

-----------------------------------------------------------------------------
(***************************************************************************)
(* The steps of the DMA, of the accelerators and of the time.              *)
(***************************************************************************)
LEMMA NamesDiffer ==
  /\ \A g, h \in Harts : Ram(g) = Ram(h) => g = h
  /\ \A g, h \in Harts : Acc(g) = Acc(h) => g = h
  /\ \A g, h \in Harts : Ram(g) # Acc(h)
BY DEF Ram, Acc

LEMMA ServedHart ==
  ASSUME DInv, Busy
  PROVE  \E g \in Harts :
           /\ pc[g] = "post" /\ op = 1 /\ src = Source(g) /\ dst = Target(g)
           /\ Asked(g) \/ Started(g) \/ Copying(g) \/ Written(g)
           /\ \A h \in Harts : h # g => ~Holds(h)
           /\ DataOf(g)
           /\ wake[g] \in Nat /\ call[g] \in Nat
BY CallsNat DEF DInv, Serving, Mutex, Holds, Data, Types

\* What a step of the DMA that serves g leaves to the other harts.
LEMMA DmaFrame ==
  ASSUME DInv, NEW g \in Harts, \A h \in Harts : h # g => ~Holds(h),
         pc[g] = "post", UNCHANGED <<pc, call, wake, got, sem>>,
         \A h \in Harts : h # g =>
           input'[h] = input[h] /\ result'[h] = result[h] /\ buffer'[h] = buffer[h]
  PROVE  /\ Mutex' /\ Programmed' /\ ReadsOwnResult'
         /\ \A h \in Harts : h # g => DataOf(h)'
<1>1. Mutex'
  BY DEF DInv, Mutex, Holds
<1>2. Programmed'
  BY DEF Programmed, Holds
<1>3. ReadsOwnResult'
  BY DEF DInv, ReadsOwnResult, IsRead
<1>4. ASSUME NEW h \in Harts, h # g PROVE DataOf(h)'
  BY <1>4, DataFrame DEF DInv, Data, Holds
<1> QED BY <1>1, <1>2, <1>3, <1>4

LEMMA DmaReadStep ==
  ASSUME DInv, DmaRead
  PROVE  DInv'
<1>1. Types /\ Data
  BY DEF DInv
<1>2. /\ dma = "started" /\ delay = 0 /\ Busy
      /\ UNCHANGED <<timeVars, hartVars, regVars, notified, input>>
  BY DEF DmaRead, Busy
<1>3. PICK g \in Harts :
        /\ pc[g] = "post" /\ op = 1 /\ src = Source(g) /\ dst = Target(g)
        /\ Asked(g) \/ Started(g) \/ Copying(g) \/ Written(g)
        /\ \A h \in Harts : h # g => ~Holds(h)
        /\ DataOf(g)
        /\ wake[g] \in Nat /\ call[g] \in Nat
  BY <1>2, ServedHart
<1>4. notified = None /\ wake[g] >= 3
  BY <1>2, <1>3 DEF Asked, Started, Copying, Written
<1>5. \/ /\ ~IsRead(call[g]) /\ block' = buffer[g] /\ delay' = 1 /\ UNCHANGED result
      \/ /\ IsRead(call[g]) /\ block' = Head(result[g]) /\ delay' = 0
         /\ result' = [result EXCEPT ![g] = Tail(result[g])]
  <2>1. CASE \E h \in Harts : src = Ram(h) /\ block' = buffer[h] /\ delay' = 1 /\ UNCHANGED result
    BY <1>3, <2>1, NamesDiffer DEF Source
  <2>2. CASE \E h \in Harts :
               /\ src = Acc(h) /\ block' = Head(result[h]) /\ UNCHANGED delay
               /\ result' = [result EXCEPT ![h] = Tail(result[h])]
    BY <1>2, <1>3, <2>2, NamesDiffer DEF Source
  <2> QED BY <1>3, <2>1, <2>2 DEF DmaRead
<1>6. dma' = "copying"
  BY <1>3 DEF DmaRead
<1>7. IsFcn(result') /\ \A h \in Harts : h # g => result'[h] = result[h]
  <2>1. IsFcn(result)
    BY <1>1 DEF Types
  <2> QED BY <1>5, <2>1 DEF IsFcn
<1>8. Types'
  BY <1>1, <1>2, <1>5, <1>6, <1>7
     DEF Types, timeVars, hartVars, regVars, IsFcn
<1>9. /\ Mutex' /\ Programmed' /\ ReadsOwnResult'
      /\ \A h \in Harts : h # g => DataOf(h)'
  BY <1>2, <1>3, <1>7, DmaFrame DEF hartVars
<1>10. Serving'
  <2>1. Copying(g)'
    BY <1>2, <1>4, <1>5, <1>6, <1>3 DEF Copying, hartVars, IsRead
  <2>2. (pc[g] = "post" /\ op = 1 /\ src = Source(g) /\ dst = Target(g))'
    BY <1>2, <1>3 DEF hartVars, regVars, Source, Target, IsRead, Acc, Ram
  <2>3. Busy'
    BY <1>6 DEF Busy
  <2> QED BY <2>1, <2>2, <2>3 DEF Serving
<1>11. DataOf(g)'
  <2>1. CASE IsRead(call[g])
    <3>1. ReadData(g) /\ result[g] = <<Expected(g, call[g])>>
      BY <1>2, <1>3, <2>1 DEF DataOf, ReadData, Before
    <3>2. Head(result[g]) = Expected(g, call[g]) /\ Tail(result[g]) = <<>>
      BY <3>1
    <3>3. block' = Expected(g, call[g]) /\ result'[g] = <<>>
      <4>1. IsFcn(result)
        BY <1>1 DEF Types
      <4> QED BY <1>5, <2>1, <3>2, <4>1 DEF IsFcn
    <3>4. ReadData(g)'
      BY <1>2, <1>3, <1>4, <1>6, <3>1, <3>3
         DEF ReadData, Before, Busy, hartVars, Expected
    <3> QED BY <1>2, <2>1, <3>4 DEF DataOf, IsRead, hartVars
  <2>2. CASE ~IsRead(call[g])
    <3>1. WriteData(g) /\ buffer[g] = Value(g, call[g])
      BY <1>2, <1>3, <2>2 DEF DataOf, WriteData, Before
    <3>2. WriteData(g)'
      BY <1>2, <1>3, <1>4, <1>5, <1>6, <2>2, <3>1
         DEF WriteData, Before, Busy, hartVars, Batch, Place
    <3> QED BY <1>2, <2>2, <3>2 DEF DataOf, IsRead, hartVars
  <2> QED BY <2>1, <2>2
<1> QED BY <1>8, <1>9, <1>10, <1>11 DEF DInv, Data

LEMMA AppendBatch ==
  ASSUME NEW h \in Harts, NEW b \in Nat, NEW n \in Nat \ {0}
  PROVE  Append([i \in 1 .. n - 1 |-> Value(h, b + i)], Value(h, b + n))
           = [i \in 1..n |-> Value(h, b + i)]
<1> DEFINE s == [i \in 1 .. n - 1 |-> Value(h, b + i)]
           t == [i \in 1..n |-> Value(h, b + i)]
           v == Value(h, b + n)
           V == {Value(h, c) : c \in Nat}
<1>1. s \in Seq(V) /\ Len(s) = n - 1 /\ \A i \in 1 .. n - 1 : s[i] = Value(h, b + i)
  OBVIOUS
<1>2. t \in Seq(V) /\ Len(t) = n /\ \A i \in 1..n : t[i] = Value(h, b + i)
  OBVIOUS
<1>3. v \in V /\ v = Value(h, b + n)
  OBVIOUS
<1> HIDE DEF s, t, v, V
<1>4. /\ Append(s, v) \in Seq(V) /\ Len(Append(s, v)) = n
      /\ \A i \in 1..n : Append(s, v)[i] = t[i]
  BY <1>1, <1>2, <1>3
<1>5. Append(s, v) = t
  BY <1>2, <1>4
<1> QED BY <1>5 DEF s, t, v

LEMMA DmaWriteAccStep ==
  ASSUME DInv, DmaWriteAcc
  PROVE  DInv'
<1>1. Types /\ Data
  BY DEF DInv
<1>2. /\ dma = "copying" /\ delay = 0 /\ Busy /\ op' = 0 /\ dma' = "waiting"
      /\ UNCHANGED <<timeVars, hartVars, notified, delay, block, result>>
  BY DEF DmaWriteAcc, Busy
<1>3. PICK g \in Harts :
        /\ pc[g] = "post" /\ op = 1 /\ src = Source(g) /\ dst = Target(g)
        /\ Asked(g) \/ Started(g) \/ Copying(g) \/ Written(g)
        /\ \A h \in Harts : h # g => ~Holds(h)
        /\ DataOf(g)
        /\ wake[g] \in Nat /\ call[g] \in Nat
  BY <1>2, ServedHart
<1>4. notified = None /\ wake[g] >= 2
  BY <1>2, <1>3 DEF Asked, Started, Copying, Written
<1>5. ~IsRead(call[g]) /\ input' = [input EXCEPT ![g] = Append(input[g], block)]
  BY <1>3, NamesDiffer DEF DmaWriteAcc, Target
<1>6. /\ IsFcn(input') /\ input'[g] = Append(input[g], block)
      /\ \A h \in Harts : h # g => input'[h] = input[h]
  <2>1. IsFcn(input)
    BY <1>1 DEF Types
  <2> QED BY <1>5, <2>1 DEF IsFcn
<1>7. Types'
  BY <1>1, <1>2, <1>6 DEF Types, timeVars, hartVars, IsFcn
<1>8. /\ Mutex' /\ Programmed' /\ ReadsOwnResult'
      /\ \A h \in Harts : h # g => DataOf(h)'
  BY <1>2, <1>3, <1>6, DmaFrame DEF hartVars
<1>9. ~Busy'
  BY <1>2, <1>4 DEF Busy
<1>10. Serving'
  BY <1>2, <1>9 DEF Serving
<1>11. DataOf(g)'
  <2>1. WriteData(g) /\ input[g] = Batch(g, Place(g) - 1) /\ result[g] = <<>>
        /\ block = Value(g, call[g])
    BY <1>2, <1>3, <1>5 DEF DataOf, WriteData
  <2>2. Place(g) \in Nat \ {0} /\ call[g] - Place(g) \in Nat
    <3> DEFINE c == call[g]
    <3>1. c \in Nat /\ c % (Inputs + 1) # 0
      BY <1>3, <1>5 DEF IsRead
    <3> HIDE DEF c
    <3>2. c % (Inputs + 1) \in 0..Inputs /\ c - (c % (Inputs + 1)) \in Nat
      BY <3>1, PlaceFacts
    <3>3. c % (Inputs + 1) \in Nat \ {0}
      BY <3>1, <3>2, CallsNat
    <3> QED BY <3>2, <3>3 DEF c, Place
  <2>3. Append(Batch(g, Place(g) - 1), Value(g, (call[g] - Place(g)) + Place(g)))
          = Batch(g, Place(g))
    BY <2>2, AppendBatch DEF Batch
  <2>4. (call[g] - Place(g)) + Place(g) = call[g]
    BY <1>3, <2>2
  <2>5. input'[g] = Batch(g, Place(g))
    BY <1>6, <2>1, <2>3, <2>4
  <2>6. WriteData(g)'
    BY <1>2, <1>3, <1>4, <1>9, <2>1, <2>5
       DEF WriteData, Before, Batch, Place, hartVars
  <2> QED BY <1>2, <1>5, <2>6 DEF DataOf, IsRead, hartVars
<1> QED BY <1>7, <1>8, <1>10, <1>11 DEF DInv, Data

LEMMA DmaWriteRamStep ==
  ASSUME DInv, DmaWriteRam
  PROVE  DInv'
<1>1. Types /\ Data
  BY DEF DInv
<1>2. /\ dma = "copying" /\ delay = 0 /\ Busy /\ dma' = "written" /\ delay' = 1
      /\ UNCHANGED <<timeVars, pc, call, local, wake, got, sem, regVars, notified, block, accVars>>
  BY DEF DmaWriteRam, Busy
<1>3. PICK g \in Harts :
        /\ pc[g] = "post" /\ op = 1 /\ src = Source(g) /\ dst = Target(g)
        /\ Asked(g) \/ Started(g) \/ Copying(g) \/ Written(g)
        /\ \A h \in Harts : h # g => ~Holds(h)
        /\ DataOf(g)
        /\ wake[g] \in Nat /\ call[g] \in Nat
  BY <1>2, ServedHart
<1>4. IsRead(call[g]) /\ buffer' = [buffer EXCEPT ![g] = block]
  BY <1>3, NamesDiffer DEF DmaWriteRam, Target
<1>5. notified = None /\ wake[g] >= 3
  BY <1>2, <1>3, <1>4 DEF Asked, Started, Copying, Written
<1>6. /\ IsFcn(buffer') /\ buffer'[g] = block
      /\ \A h \in Harts : h # g => buffer'[h] = buffer[h]
  <2>1. IsFcn(buffer)
    BY <1>1 DEF Types
  <2> QED BY <1>4, <2>1 DEF IsFcn
<1>7. Types'
  BY <1>1, <1>2, <1>6 DEF Types, timeVars, regVars, accVars, IsFcn
<1>8. /\ Mutex' /\ Programmed' /\ ReadsOwnResult'
      /\ \A h \in Harts : h # g => DataOf(h)'
  BY <1>2, <1>3, <1>6, DmaFrame DEF accVars
<1>9. Serving'
  <2>1. Written(g)'
    BY <1>2, <1>4, <1>5, <1>3 DEF Written, IsRead
  <2>2. (pc[g] = "post" /\ op = 1 /\ src = Source(g) /\ dst = Target(g))'
    BY <1>2, <1>3 DEF regVars, Source, Target, IsRead, Acc, Ram
  <2>3. Busy'
    BY <1>2 DEF Busy
  <2> QED BY <2>1, <2>2, <2>3 DEF Serving
<1>10. DataOf(g)'
  <2>1. ReadData(g) /\ block = Expected(g, call[g])
    BY <1>2, <1>3, <1>4 DEF DataOf, ReadData
  <2>2. result[g] = <<>>
    BY <1>2, <1>3, <1>5, <2>1 DEF ReadData, Before
  <2>3. ReadData(g)'
    BY <1>2, <1>3, <1>5, <1>6, <2>1, <2>2 DEF ReadData, Before, Busy, Expected, accVars
  <2> QED BY <1>2, <1>4, <2>3 DEF DataOf, IsRead
<1> QED BY <1>7, <1>8, <1>9, <1>10 DEF DInv, Data

LEMMA DmaResetStep ==
  ASSUME DInv, DmaReset
  PROVE  DInv'
<1>1. Types /\ Data
  BY DEF DInv
<1>2. /\ dma = "written" /\ delay = 0 /\ Busy /\ op' = 0 /\ dma' = "waiting"
      /\ UNCHANGED <<timeVars, hartVars, notified, delay, block, accVars>>
  BY DEF DmaReset, Busy
<1>3. PICK g \in Harts :
        /\ pc[g] = "post" /\ op = 1 /\ src = Source(g) /\ dst = Target(g)
        /\ Asked(g) \/ Started(g) \/ Copying(g) \/ Written(g)
        /\ \A h \in Harts : h # g => ~Holds(h)
        /\ DataOf(g)
        /\ wake[g] \in Nat /\ call[g] \in Nat
  BY <1>2, ServedHart
<1>4. notified = None /\ IsRead(call[g])
  BY <1>2, <1>3 DEF Asked, Started, Copying, Written
<1>5. Types'
  BY <1>1, <1>2 DEF Types, timeVars, hartVars, accVars, IsFcn
<1>6. /\ Mutex' /\ Programmed' /\ ReadsOwnResult'
      /\ \A h \in Harts : h # g => DataOf(h)'
  BY <1>2, <1>3, DmaFrame DEF hartVars, accVars
<1>7. ~Busy'
  BY <1>2, <1>4 DEF Busy
<1>8. Serving'
  BY <1>2, <1>7 DEF Serving
<1>9. DataOf(g)'
  <2>1. ReadData(g)
    BY <1>3, <1>4 DEF DataOf
  <2>2. result[g] = <<>> /\ buffer[g] = Expected(g, call[g])
    BY <1>2, <1>3, <1>4, <2>1 DEF ReadData, Before
  <2>3. ReadData(g)'
    BY <1>2, <1>3, <1>4, <1>7, <2>1, <2>2
       DEF ReadData, Before, Expected, hartVars, accVars
  <2> QED BY <1>2, <1>4, <2>3 DEF DataOf, IsRead, hartVars
<1> QED BY <1>5, <1>6, <1>8, <1>9 DEF DInv, Data

\* An accelerator starts only when its hart has sent a whole group and not yet
\* given the lock back.
LEMMA AccelerateStep ==
  ASSUME DInv, NEW h \in Harts, Accelerate(h)
  PROVE  DInv'
<1> DEFINE c == call[h]
<1>1. Types /\ Mutex /\ Programmed /\ Serving /\ Data /\ ReadsOwnResult
  BY DEF DInv
<1>2. /\ Len(input[h]) >= Inputs
      /\ result' = [result EXCEPT ![h] = Append(result[h], SubSeq(input[h], 1, Inputs))]
      /\ input' = [input EXCEPT ![h] = SubSeq(input[h], Inputs + 1, Len(input[h]))]
      /\ UNCHANGED <<timeVars, hartVars, regVars, dmaVars>>
  BY DEF Accelerate
<1>3. c \in Nat /\ Inputs \in Nat \ {0} /\ Place(h) \in 0..Inputs
  <2>1. c \in Nat
    BY <1>1, CallsNat DEF Types
  <2> QED BY <2>1, CallsNat, PlaceFacts DEF Place
<1>4. \A n \in 0..Inputs : Len(Batch(h, n)) = n
  BY <1>3 DEF Batch
<1>5. ~IsRead(c) /\ WriteData(h)
  <2>1. input[h] # <<>>
    BY <1>2, <1>3
  <2> QED BY <1>1, <2>1 DEF Data, DataOf, ReadData
<1>6. Place(h) # 0
  BY <1>5 DEF IsRead, Place
<1>7. pc[h] = "post" /\ ~Busy
  <2>1. Place(h) - 1 \in 0..Inputs /\ Place(h) - 1 < Inputs
    BY <1>3, <1>6
  <2>2. Len(Batch(h, Place(h) - 1)) < Inputs
    BY <1>4, <2>1
  <2>3. input[h] # Batch(h, Place(h) - 1)
    BY <1>2, <1>3, <2>1, <2>2, <1>4
  <2> QED BY <1>5, <2>3 DEF WriteData
<1>8. input[h] = Batch(h, Inputs) /\ result[h] = <<>> /\ Place(h) = Inputs
  <2>1. input[h] = Batch(h, Place(h)) /\ result[h] = <<>>
    BY <1>2, <1>3, <1>5, <1>7 DEF WriteData
  <2>2. Len(input[h]) = Place(h)
    BY <1>3, <1>4, <2>1
  <2> QED BY <1>2, <1>3, <2>1, <2>2
<1>9. /\ SubSeq(input[h], 1, Inputs) = Batch(h, Inputs)
      /\ SubSeq(input[h], Inputs + 1, Len(input[h])) = <<>>
  <2>1. Len(input[h]) = Inputs
    BY <1>3, <1>4, <1>8
  <2>2. input[h] \in Seq({Value(h, n) : n \in Int})
    BY <1>3, <1>8 DEF Batch
  <2>3. SubSeq(input[h], 1, Inputs) = input[h]
    BY <1>3, <2>1, <2>2
  <2>4. SubSeq(input[h], Inputs + 1, Inputs) = <<>>
    BY <1>3, <2>2
  <2> QED BY <1>8, <2>1, <2>3, <2>4
<1>10. Batch(h, Inputs) = Expected(h, c + 1)
  <2>1. \A i \in 1..Inputs : (c - Inputs) + i = (((c + 1) - Inputs) - 1) + i
    BY <1>3
  <2>2. Batch(h, Inputs) = [i \in 1..Inputs |-> Value(h, (((c + 1) - Inputs) - 1) + i)]
    BY <1>8, <2>1 DEF Batch
  <2> QED BY <2>2 DEF Expected
<1>11. /\ IsFcn(input') /\ input'[h] = <<>>
       /\ \A g \in Harts : g # h => input'[g] = input[g]
  <2>1. IsFcn(input)
    BY <1>1 DEF Types
  <2> QED BY <1>2, <1>9, <2>1 DEF IsFcn
<1>12. /\ IsFcn(result') /\ result'[h] = <<Expected(h, c + 1)>>
       /\ \A g \in Harts : g # h => result'[g] = result[g]
  <2>1. IsFcn(result)
    BY <1>1 DEF Types
  <2>2. Append(result[h], SubSeq(input[h], 1, Inputs)) = <<Expected(h, c + 1)>>
    <3>1. ASSUME NEW x PROVE Append(<<>>, x) = <<x>>
      OBVIOUS
    <3> QED BY <1>8, <1>9, <1>10, <3>1
  <2> QED BY <1>2, <2>1, <2>2 DEF IsFcn
<1>13. Types'
  BY <1>1, <1>2, <1>11, <1>12 DEF Types, timeVars, hartVars, regVars, dmaVars, IsFcn
<1>14. Mutex' /\ Programmed'
  BY <1>1, <1>2 DEF Mutex, Holds, Programmed, Source, Target, IsRead, Acc, Ram, hartVars, regVars
<1>15. Serving'
  BY <1>1, <1>2, ServingFrame DEF hartVars, dmaVars
<1>16. DataOf(h)'
  <2>1. WriteData(h)'
    BY <1>2, <1>5, <1>7, <1>8, <1>11, <1>12
       DEF WriteData, Before, Busy, Place, Expected, hartVars, dmaVars
  <2> QED BY <1>2, <1>5, <2>1 DEF DataOf, IsRead, hartVars
<1>17. Data'
  <2>1. ASSUME NEW g \in Harts, g # h PROVE DataOf(g)'
    <3>1. DataOf(g)
      BY <1>1 DEF Data
    <3> QED BY <1>2, <1>11, <1>12, <2>1, <3>1, DataFrame DEF hartVars, dmaVars
  <2> QED BY <1>16, <2>1 DEF Data
<1>18. ReadsOwnResult'
  BY <1>1, <1>2 DEF ReadsOwnResult, IsRead, Expected, hartVars
<1> QED BY <1>13, <1>14, <1>15, <1>17, <1>18 DEF DInv

\* A tick moves the request and the sleep of its hart by the same amount, and
\* none is spent while an accelerator has a group to work on.
LEMMA TickStep ==
  ASSUME DInv, Tick
  PROVE  DInv'
<1>1. Types /\ Mutex /\ Programmed /\ Serving /\ Data /\ ReadsOwnResult
  BY DEF DInv
<1>2. /\ Quiet
      /\ phase' = (phase + 1) % quantum
      /\ wake' = [h \in Harts |-> IF wake[h] = 0 THEN 0 ELSE wake[h] - 1]
      /\ delay' = IF delay = 0 THEN 0 ELSE delay - 1
      /\ notified' = None
      /\ dma' = IF notified # None /\ dma = "waiting" THEN "started" ELSE dma
      /\ UNCHANGED <<quantum, pc, call, local, buffer, got, sem, regVars, block, accVars>>
  BY DEF Tick
<1>3. /\ wake' \in [Harts -> Nat]
      /\ \A h \in Harts : wake[h] > 0 => wake'[h] = wake[h] - 1
  BY <1>1, <1>2 DEF Types
<1>4. phase' \in 0 .. quantum - 1
  <2>1. quantum \in Nat \ {0} /\ phase + 1 \in Nat
    BY <1>1, DmaAssumption DEF Types
  <2>2. (phase + 1) % quantum \in 0 .. quantum - 1
    BY <2>1, Division
  <2> QED BY <1>2, <2>2
<1>5. delay' \in {0, 1} /\ (delay = 1 => delay' = 0) /\ (delay = 0 => delay' = 0)
  BY <1>1, <1>2 DEF Types
<1>6. Types'
  BY <1>1, <1>2, <1>3, <1>4, <1>5 DEF Types, regVars, accVars, IsFcn
<1>7. Mutex' /\ Programmed' /\ ReadsOwnResult'
  <2>1. Mutex'
    BY <1>1, <1>2 DEF Mutex, Holds
  <2>2. Programmed'
    BY <1>1, <1>2 DEF Programmed, Source, Target, IsRead, Acc, Ram, regVars
  <2>3. ReadsOwnResult'
    BY <1>1, <1>2 DEF ReadsOwnResult, IsRead, Expected
  <2> QED BY <2>1, <2>2, <2>3
<1>8. CASE ~Busy
  <2>1. notified = None /\ dma = "waiting" /\ delay = 0 /\ op = 0 /\ dma' = "waiting"
    BY <1>1, <1>2, <1>8 DEF Busy, Serving
  <2>2. ~Busy'
    BY <1>2, <2>1 DEF Busy
  <2>3. Serving'
    BY <1>2, <1>5, <2>1, <2>2 DEF Serving, regVars
  <2>4. ASSUME NEW g \in Harts PROVE DataOf(g)'
    <3>1. DataOf(g) /\ Len(input[g]) < Inputs
      BY <1>1, <1>2 DEF Data, Quiet
    <3>2. CASE IsRead(call[g])
      <4>1. ReadData(g)'
        BY <1>2, <1>8, <2>1, <2>2, <3>1, <3>2
           DEF DataOf, ReadData, Before, Expected, accVars
      <4> QED BY <1>2, <3>2, <4>1 DEF DataOf, IsRead
    <3>3. CASE ~IsRead(call[g])
      <4>1. WriteData(g)
        BY <3>1, <3>3 DEF DataOf
      <4>2. Place(g) = Inputs => input[g] # Batch(g, Place(g))
        <5>1. Len(Batch(g, Inputs)) = Inputs
          BY CallsNat DEF Batch
        <5> QED BY <3>1, <5>1, CallsNat
      <4>3. WriteData(g)'
        BY <1>2, <1>8, <2>1, <2>2, <4>1, <4>2
           DEF WriteData, Before, Batch, Place, Expected, accVars
      <4> QED BY <1>2, <3>3, <4>3 DEF DataOf, IsRead
    <3> QED BY <3>2, <3>3
  <2> QED BY <1>6, <1>7, <2>3, <2>4 DEF DInv, Data
<1>9. CASE Busy
  <2>1. PICK g \in Harts :
          /\ pc[g] = "post" /\ op = 1 /\ src = Source(g) /\ dst = Target(g)
          /\ Asked(g) \/ Started(g) \/ Copying(g) \/ Written(g)
          /\ \A h \in Harts : h # g => ~Holds(h)
          /\ DataOf(g)
          /\ wake[g] \in Nat /\ call[g] \in Nat
    BY <1>9, ServedHart
  <2>2. delay \in {0, 1} /\ None # 1
    BY <1>1, DmaAssumption DEF Types
  <2>3. wake[g] >= 2 /\ wake'[g] = wake[g] - 1
    BY <1>3, <2>1, <2>2 DEF Asked, Started, Copying, Written
  <2>4. ~Started(g)
    <3> SUFFICES ASSUME Started(g) PROVE FALSE
      OBVIOUS
    <3>1. PICK h \in Harts : src = Acc(h) /\ result[h] = <<>>
      BY <1>2 DEF Started, Quiet
    <3>2. h = g /\ IsRead(call[g])
      BY <2>1, <3>1, NamesDiffer DEF Source
    <3>3. result[g] = <<Expected(g, call[g])>>
      BY <2>1, <3>2 DEF DataOf, ReadData, Before, Started
    <3>4. ASSUME NEW x PROVE <<x>> # <<>>
      OBVIOUS
    <3> QED BY <3>1, <3>2, <3>3, <3>4
  <2>5. Copying(g) \/ Written(g) => delay = 1 /\ delay' = 0
    BY <1>2, <1>5, <2>2 DEF Copying, Written, Quiet
  <2>6. (Started(g) \/ Copying(g) \/ Written(g))'
    <3>1. CASE Asked(g)
      BY <1>2, <2>2, <2>3, <3>1, <2>1 DEF Asked, Started
    <3>2. CASE Copying(g)
      BY <1>2, <2>1, <2>3, <2>5, <3>2 DEF Copying, IsRead
    <3>3. CASE Written(g)
      BY <1>2, <2>1, <2>3, <2>5, <3>3 DEF Written, IsRead
    <3> QED BY <2>1, <2>4, <3>1, <3>2, <3>3
  <2>7. Busy'
    BY <2>6 DEF Busy, Started, Copying, Written
  <2>8. Serving'
    <3>1. (pc[g] = "post" /\ op = 1 /\ src = Source(g) /\ dst = Target(g))'
      BY <1>2, <2>1 DEF Source, Target, IsRead, Acc, Ram, regVars
    <3> QED BY <2>6, <2>7, <3>1 DEF Serving
  <2>9. DataOf(g)'
    <3>1. /\ (notified # None \/ dma = "started")' = (notified # None \/ dma = "started")
          /\ (dma = "copying")' = (dma = "copying")
          /\ (dma = "written")' = (dma = "written")
      BY <1>2, <2>1, <2>2, <2>4 DEF Asked, Copying, Written
    <3>2. CASE IsRead(call[g])
      <4>1. ReadData(g)'
        BY <1>2, <1>9, <2>1, <2>7, <3>1, <3>2
           DEF DataOf, ReadData, Before, Expected, accVars
      <4> QED BY <1>2, <3>2, <4>1 DEF DataOf, IsRead
    <3>3. CASE ~IsRead(call[g])
      <4>1. WriteData(g)'
        BY <1>2, <1>9, <2>1, <2>7, <3>1, <3>3
           DEF DataOf, WriteData, Before, Batch, Place, accVars
      <4> QED BY <1>2, <3>3, <4>1 DEF DataOf, IsRead
    <3> QED BY <3>2, <3>3
  <2>10. ASSUME NEW h \in Harts, h # g PROVE DataOf(h)'
    <3>1. DataOf(h) /\ pc[h] # "post"
      BY <1>1, <2>1, <2>10 DEF Data, Holds
    <3> QED BY <1>2, <3>1, DataFrame DEF accVars
  <2> QED BY <1>6, <1>7, <2>8, <2>9, <2>10 DEF DInv, Data
<1> QED BY <1>8, <1>9

LEMMA DmaUnchanged == DInv /\ UNCHANGED vars => DInv'
<1> SUFFICES ASSUME DInv, UNCHANGED vars PROVE DInv'
  OBVIOUS
<1>1. /\ UNCHANGED <<quantum, phase, pc, call, local, wake, buffer, got, sem>>
      /\ UNCHANGED <<src, dst, op, notified, dma, delay, block, input, result>>
  BY DEF vars, timeVars, hartVars, regVars, dmaVars, accVars
<1>2. Types' /\ Mutex' /\ Programmed' /\ ReadsOwnResult'
  BY <1>1 DEF DInv, Types, IsFcn, Mutex, Holds, Programmed, Source, Target, IsRead, Acc, Ram,
     ReadsOwnResult, Expected
<1>3. Serving'
  BY <1>1, ServingFrame DEF DInv, regVars
<1>4. Data'
  <2> SUFFICES ASSUME NEW g \in Harts PROVE DataOf(g)'
    BY DEF Data
  <2> QED BY <1>1, DataFrame DEF DInv, Data
<1> QED BY <1>2, <1>3, <1>4 DEF DInv

LEMMA DmaNext ==
  ASSUME Quanta \subseteq 1 .. Access
  PROVE  DInv /\ [Next]_vars => DInv'
<1> SUFFICES ASSUME DInv, [Next]_vars PROVE DInv'
  OBVIOUS
<1>1. ASSUME NEW h \in Harts, HartStep(h) PROVE DInv'
  BY <1>1, FillStep, SetupStep, StoreOpStep, PostStep, UseStep DEF HartStep
<1>2. ASSUME NEW h \in Harts, Accelerate(h) PROVE DInv'
  BY <1>2, AccelerateStep
<1>3. CASE DmaStep
  BY <1>3, DmaReadStep, DmaWriteAccStep, DmaWriteRamStep, DmaResetStep DEF DmaStep
<1>4. CASE Tick
  BY <1>4, TickStep
<1>5. CASE UNCHANGED vars
  BY <1>5, DmaUnchanged
<1> QED BY <1>1, <1>2, <1>3, <1>4, <1>5 DEF Next

\* The invariant: a quantum of at most one store keeps the hart of a request
\* asleep until the DMA has carried it out.
THEOREM DmaInvariance ==
  ASSUME Quanta \subseteq 1 .. Access
  PROVE  Spec => []DInv
<1>1. DInv /\ [Next]_vars => DInv'
  BY DmaNext
<1> QED BY <1>1, DmaInit, PTL DEF Spec

-----------------------------------------------------------------------------
(***************************************************************************)
(* What follows.                                                           *)
(***************************************************************************)
\* The type invariant of the driver, the DMA and the time: run_event, the lock
\* and the call counters stay in their ranges.
THEOREM DmaTypeCorrect ==
  ASSUME Quanta \subseteq 1 .. Access
  PROVE  Spec => []TypeOK
<1>1. DInv => TypeOK
  BY DEF DInv, Types, TypeOK
<1> QED BY <1>1, DmaInvariance, PTL

\* read_data_from_ACC returns the result of the inputs the hart sent before it,
\* for any number of harts, although nothing waits for the DMA.
THEOREM OwnResults ==
  ASSUME Quanta \subseteq 1 .. Access
  PROVE  Spec => []ReadsOwnResult
<1>1. DInv => ReadsOwnResult
  BY DEF DInv
<1> QED BY <1>1, DmaInvariance, PTL

\* The input FIFOs of an accelerator hold the values of its own hart, each once
\* and in the order of the write_data_to_ACC calls.
THEOREM InputsOrdered ==
  ASSUME Quanta \subseteq 1 .. Access
  PROVE  Spec => []InputsInOrder
<1>1. DInv => InputsInOrder
  <2> SUFFICES ASSUME DInv, NEW h \in Harts, NEW i \in 1 .. Len(input[h])
               PROVE  input[h][i] = Value(h, First(call[h]) + (i - 1))
    BY DEF InputsInOrder
  <2> DEFINE c == call[h]
  <2>1. c \in Nat \ {0} /\ Inputs \in Nat \ {0} /\ Place(h) \in 0..Inputs
    <3>1. c \in Nat \ {0}
      BY CallsNat DEF DInv, Types
    <3> QED BY <3>1, CallsNat, PlaceFacts DEF Place
  <2>2. input[h] # <<>>
    OBVIOUS
  <2>3. ~IsRead(c) /\ WriteData(h)
    BY <2>2 DEF DInv, Data, DataOf, ReadData
  <2>4. Place(h) # 0
    BY <2>3 DEF IsRead, Place
  <2>5. PICK n \in 0..Inputs : input[h] = Batch(h, n)
    <3>1. Place(h) - 1 \in 0..Inputs
      BY <2>1, <2>4
    <3> QED BY <2>1, <2>2, <2>3, <3>1 DEF WriteData
  <2>6. i \in 1..n /\ input[h][i] = Value(h, (c - Place(h)) + i)
    BY <2>1, <2>5 DEF Batch
  <2>7. First(c) = (c - Place(h)) + 1
    <3> DEFINE b == c - 1
    <3>1. b \in Nat /\ b + 1 = c
      BY <2>1
    <3>2. First(c) = c - (b % (Inputs + 1))
      BY DEF First
    <3> HIDE DEF b
    <3>3. Place(h) = IF b % (Inputs + 1) = Inputs THEN 0 ELSE (b % (Inputs + 1)) + 1
      BY <3>1, PlaceFacts DEF Place
    <3>4. b % (Inputs + 1) \in 0..Inputs
      BY <3>1, PlaceFacts
    <3>5. b % (Inputs + 1) = Place(h) - 1
      BY <2>1, <2>4, <3>3, <3>4
    <3> QED BY <2>1, <3>2, <3>5
  <2>8. First(c) + (i - 1) = (c - Place(h)) + i
    BY <2>1, <2>5, <2>6, <2>7
  <2> QED BY <2>6, <2>8
<1> QED BY <1>1, DmaInvariance, PTL

\* A store to OP finds the DMA waiting, so its notification is neither lost nor
\* merged with another one.
THEOREM RequestsNotLost ==
  ASSUME Quanta \subseteq 1 .. Access
  PROVE  Spec => NoLostRequest
<1>1. DInv => \A h \in Harts : StoreOp(h) => dma = "waiting" /\ notified = None
  BY RunnerIsNotServed DEF StoreOp, Holds, Busy
<1>2. DInv /\ [Next]_vars =>
        [\A h \in Harts : StoreOp(h) => dma = "waiting" /\ notified = None]_vars
  BY <1>1
<1> QED BY <1>2, DmaInvariance, PTL DEF Spec, NoLostRequest

\* SRC, DST and OP keep their values from the store to OP until the DMA resets
\* them: no hart programs a transfer over a running one.
THEOREM RegistersKept ==
  ASSUME Quanta \subseteq 1 .. Access
  PROVE  Spec => RegistersStable
<1> DEFINE Kept == dma # "waiting" /\ dma' # "waiting" => UNCHANGED regVars
<1>1. ASSUME DInv, Next PROVE Kept
  <2>1. ASSUME NEW h \in Harts, Fill(h) \/ Acquire(h) \/ Post(h) \/ Use(h) PROVE Kept
    BY <2>1 DEF Fill, Acquire, Post, Use
  <2>2. ASSUME NEW h \in Harts, StoreSrc(h) \/ StoreDst(h) \/ StoreOp(h) PROVE Kept
    <3>1. Runs(h) /\ Holds(h)
      BY <2>2 DEF StoreSrc, StoreDst, StoreOp, Holds
    <3>2. ~Busy
      BY <1>1, <3>1, RunnerIsNotServed
    <3> QED BY <3>2 DEF Busy
  <2>3. ASSUME NEW h \in Harts, Accelerate(h) PROVE Kept
    BY <2>3 DEF Accelerate
  <2>4. CASE DmaStep
    BY <2>4 DEF DmaStep, DmaRead, DmaWriteAcc, DmaWriteRam, DmaReset
  <2>5. CASE Tick
    BY <2>5 DEF Tick
  <2> HIDE DEF Kept
  <2> QED BY <1>1, <2>1, <2>2, <2>3, <2>4, <2>5 DEF Next, HartStep
<1>2. DInv /\ [Next]_vars => [Kept]_vars
  BY <1>1
<1> QED BY <1>2, DmaInvariance, PTL DEF Spec, RegistersStable
=============================================================================
