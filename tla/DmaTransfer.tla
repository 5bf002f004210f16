------------------------------ MODULE DmaTransfer ------------------------------
(***************************************************************************)
(* The two-core platforms in simulated time: the driver calls of DMA.h     *)
(* (write_data_to_ACC, read_data_from_ACC), the DMA controller (dma.h) and *)
(* the accelerators at the other end.  The driver never waits for the DMA: *)
(* it stores the operation, releases dma_lock and goes on, so the buffer   *)
(* on its stack, the registers and the result are right only because the   *)
(* DMA is faster than the instructions that follow.  This module makes the *)
(* margin explicit, with the TLM quantum as a parameter.                   *)
(*                                                                         *)
(* One tick is the cycle time of the ISS, 10 ns.  An instruction takes     *)
(* effect at the simulated time at which its hart last synchronised; its   *)
(* duration accumulates in local until the quantum is used up.  dma_lock   *)
(* is taken and released in one step: SemProgram shows that it is exact,   *)
(* LrScBus that a load-reserved window is indivisible in simulated time    *)
(* (LockHidden) and hides the bus lock from the DMA.                       *)
(***************************************************************************)
EXTENDS Integers, Sequences

CONSTANTS
  Harts,   \* the cores; each has an accelerator of its own
  Quanta,  \* the values of --tlm-global-quantum considered, in ticks
  Inputs,  \* inputs an accelerator consumes for one result (2 * H in FC_1)
  Groups,  \* results each hart computes (bound)
  Jitter,  \* extra ticks an instruction may take: fetches, address computation
  None

ASSUME DmaAssumption ==
  /\ Quanta \subseteq Nat \ {0}     \* asserted by the constructor of the ISS
  /\ Inputs \in Nat \ {0}
  /\ Groups \in Nat \ {0}
  /\ Jitter \in Nat
  /\ None \notin Harts \cup {1}

VARIABLES
  quantum, \* the global quantum of this simulation
  phase,   \* the simulated time within the quantum
  pc,      \* where each hart is in the driver
  call,    \* the number of the driver call each hart is in
  local,   \* tlm_quantumkeeper: how far each hart is ahead of the simulated time
  wake,    \* ticks until the hart has caught up and runs again
  buffer,  \* the driver's stack buffer of each hart
  got,     \* the value each hart's last read_data_from_ACC returned
  sem,     \* dma_lock
  src, dst, op, \* registers of the DMA
  notified,     \* ticks until run_event fires, or None
  dma,     \* what the DMA thread does
  delay,   \* ticks it still waits
  block,   \* SimpleDMA::buffer
  input,   \* the input FIFOs of each accelerator
  result   \* the result FIFO of each accelerator

timeVars == <<quantum, phase>>
hartVars == <<pc, call, local, wake, buffer, got, sem>>
regVars  == <<src, dst, op>>
dmaVars  == <<notified, dma, delay, block>>
accVars  == <<input, result>>
vars == <<timeVars, hartVars, regVars, dmaVars, accVars>>

Calls == Groups * (Inputs + 1)

\* Every group of calls feeds Inputs values and then reads the result.
IsRead(c) == c % (Inputs + 1) = 0

\* What travels through the system: a value names the hart and the call that wrote
\* it, a result is the sequence of the values it was computed from, and a buffer of
\* which only some bytes have been written is neither.
Torn == <<>>
Value(h, c) == <<h, c>>

\* The result that read call c of hart h is for: of the Inputs calls before it.
Expected(h, c) == [i \in 1..Inputs |-> Value(h, c - Inputs - 1 + i)]

\* What src and dst can name.
Ram(h) == <<"ram", h>>
Acc(h) == <<"acc", h>>

PCs == {"fill", "filled", "acquire", "src", "dst", "op", "post", "use", "done"}

\* Faulty: the loop over the outputs does not end.
BeginForever(c) == IF IsRead(c) THEN "acquire" ELSE "fill"

Begin(c) == IF c > Calls THEN "done" ELSE IF IsRead(c) THEN "acquire" ELSE "fill"

Init ==
  /\ quantum \in Quanta
  /\ phase = 0
  /\ pc = [h \in Harts |-> Begin(1)]
  /\ call = [h \in Harts |-> 1]
  /\ local = [h \in Harts |-> 0]
  /\ wake = [h \in Harts |-> 0]
  /\ buffer = [h \in Harts |-> Torn]
  /\ got = [h \in Harts |-> Torn]
  /\ sem = 1
  /\ src = None /\ dst = None /\ op = 0
  /\ notified = None
  /\ dma = "waiting"
  /\ delay = 0
  /\ block = Torn
  /\ input = [h \in Harts |-> <<>>]
  /\ result = [h \in Harts |-> <<>>]

-----------------------------------------------------------------------------
(***************************************************************************)
(* The harts.                                                              *)
(***************************************************************************)
Runs(h) == wake[h] = 0 /\ pc[h] # "done"

\* Faulty: the hart synchronises only when it is two quanta ahead.
TakesTwoQuanta(h, cycles) ==
  \E c \in cycles .. cycles + Jitter :
    LET ahead == local[h] + c
        sync  == ahead >= 2 * quantum
    IN  /\ local' = [local EXCEPT ![h] = IF sync THEN 0 ELSE ahead]
        /\ wake'  = [wake EXCEPT ![h] = IF sync THEN ahead ELSE 0]

\* performance_and_sync_update: an instruction of c cycles; the hart waits for
\* the simulated time to catch up as soon as its quantum is used up.
Takes(h, cycles) ==
  \E c \in cycles .. cycles + Jitter :
    LET ahead == local[h] + c
        sync  == ahead >= quantum - phase
    IN  /\ local' = [local EXCEPT ![h] = IF sync THEN 0 ELSE ahead]
        /\ wake'  = [wake EXCEPT ![h] = IF sync THEN ahead ELSE 0]

Goto(h, l) == pc' = [pc EXCEPT ![h] = l]

\* A load or store takes four cycles, any other instruction at least one.
Access == 4

\* buffer[0..3] = data.Character[0..3]: the bytes change one after the other.
Fill(h) ==
  /\ Runs(h) /\ pc[h] \in {"fill", "filled"}
  /\ buffer' = [buffer EXCEPT ![h] = IF pc[h] = "fill" THEN Torn
                                         ELSE Value(h, call[h])]
  /\ Goto(h, IF pc[h] = "fill" THEN "filled" ELSE "acquire")
  /\ Takes(h, Access)
  /\ UNCHANGED <<timeVars, call, got, sem, regVars, dmaVars, accVars>>

\* Faulty: the driver of the single-core program, which takes no lock.
AcquireUnlocked(h) ==
  /\ Runs(h) /\ pc[h] = "acquire"
  /\ Takes(h, 4) /\ Goto(h, "src")
  /\ UNCHANGED <<timeVars, call, buffer, got, sem, regVars, dmaVars, accVars>>

\* sem_wait: lr.w, beqz, addi, sc.w when it succeeds, lr.w and beqz when it spins.
Acquire(h) ==
  /\ Runs(h) /\ pc[h] = "acquire"
  /\ sem' = 0
  /\ IF sem = 0 THEN Takes(h, 2) /\ UNCHANGED pc ELSE Takes(h, 4) /\ Goto(h, "src")
  /\ UNCHANGED <<timeVars, call, buffer, got, regVars, dmaVars, accVars>>

StoreSrc(h) ==
  /\ Runs(h) /\ pc[h] = "src"
  /\ src' = IF IsRead(call[h]) THEN Acc(h) ELSE Ram(h)
  /\ Goto(h, "dst")
  /\ Takes(h, Access)
  /\ UNCHANGED <<timeVars, call, buffer, got, sem, dst, op, dmaVars, accVars>>

\* The stores to DST and LEN; the length is the same in every call.
StoreDst(h) ==
  /\ Runs(h) /\ pc[h] = "dst"
  /\ dst' = IF IsRead(call[h]) THEN Ram(h) ELSE Acc(h)
  /\ Goto(h, "op")
  /\ Takes(h, 2 * Access)
  /\ UNCHANGED <<timeVars, call, buffer, got, sem, src, op, dmaVars, accVars>>

\* The store to OP notifies run_event in one cycle; a notification that is
\* already pending is earlier and stays.
StoreOp(h) ==
  /\ Runs(h) /\ pc[h] = "op"
  /\ op' = 1
  /\ notified' = IF notified = None THEN 1 ELSE notified
  /\ Goto(h, "post")
  /\ Takes(h, Access)
  /\ UNCHANGED <<timeVars, call, buffer, got, sem, src, dst, dma, delay, block, accVars>>

\* Faulty: the lock is not given back.
PostKeeping(h) ==
  /\ Runs(h) /\ pc[h] = "post"
  /\ LET c == call[h] IN
       IF IsRead(c) THEN Goto(h, "use") /\ UNCHANGED call
       ELSE Goto(h, Begin(c + 1)) /\ call' = [call EXCEPT ![h] = c + 1]
  /\ Takes(h, 3)
  /\ UNCHANGED <<timeVars, buffer, got, sem, regVars, dmaVars, accVars>>

\* sem_post: lr.w, addi, sc.w.  A write call then returns.
Post(h) ==
  /\ Runs(h) /\ pc[h] = "post"
  /\ sem' = 1
  /\ LET c == call[h] IN
       IF IsRead(c) THEN Goto(h, "use") /\ UNCHANGED call
       ELSE Goto(h, Begin(c + 1)) /\ call' = [call EXCEPT ![h] = c + 1]
  /\ Takes(h, 3)
  /\ UNCHANGED <<timeVars, buffer, got, regVars, dmaVars, accVars>>

\* data.Character[0..3] = buffer[0..3] and return data.Integer.
Use(h) ==
  /\ Runs(h) /\ pc[h] = "use"
  /\ got' = [got EXCEPT ![h] = buffer[h]]
  /\ Goto(h, Begin(call[h] + 1))
  /\ call' = [call EXCEPT ![h] = @ + 1]
  /\ Takes(h, Access)
  /\ UNCHANGED <<timeVars, buffer, sem, regVars, dmaVars, accVars>>

-----------------------------------------------------------------------------
(***************************************************************************)
(* The DMA thread and the accelerators.                                    *)
(***************************************************************************)
\* run() after run_event: OP_NOP goes back to wait, OP_MEMCPY reads the block.
\* Memory answers at once and charges a cycle; reading a result waits for one.
DmaRead ==
  /\ dma = "started" /\ delay = 0
  /\ \/ op = 0 /\ dma' = "waiting" /\ UNCHANGED <<delay, block, result>>
     \/ \E h \in Harts :
          /\ op = 1 /\ src = Ram(h)
          /\ block' = buffer[h]
          /\ dma' = "copying" /\ delay' = 1
          /\ UNCHANGED result
     \/ \E h \in Harts :
          /\ op = 1 /\ src = Acc(h)
          /\ result[h] # <<>>
          /\ block' = Head(result[h])
          /\ result' = [result EXCEPT ![h] = Tail(@)]
          /\ dma' = "copying" /\ UNCHANGED delay
  /\ UNCHANGED <<timeVars, hartVars, regVars, notified, input>>

\* The write half of _copy_block reads dst only now.  A write to an accelerator
\* charges nothing, so the registers are reset in the same breath.
DmaWriteAcc ==
  /\ dma = "copying" /\ delay = 0
  /\ \E h \in Harts :
       /\ dst = Acc(h)
       /\ input' = [input EXCEPT ![h] = Append(@, block)]
  /\ src' = None /\ dst' = None /\ op' = 0
  /\ dma' = "waiting"
  /\ UNCHANGED <<timeVars, hartVars, notified, delay, block, result>>

DmaWriteRam ==
  /\ dma = "copying" /\ delay = 0
  /\ \E h \in Harts :
       /\ dst = Ram(h)
       /\ buffer' = [buffer EXCEPT ![h] = block]
  /\ dma' = "written" /\ delay' = 1
  /\ UNCHANGED <<timeVars, pc, call, local, wake, got, sem, regVars, notified, block, accVars>>

DmaReset ==
  /\ dma = "written" /\ delay = 0
  /\ src' = None /\ dst' = None /\ op' = 0
  /\ dma' = "waiting"
  /\ UNCHANGED <<timeVars, hartVars, notified, delay, block, accVars>>

\* Fully_Connect or Convolution: a result for every Inputs inputs, computed from them.
Accelerate(h) ==
  /\ Len(input[h]) >= Inputs
  /\ result' = [result EXCEPT ![h] = Append(@, SubSeq(input[h], 1, Inputs))]
  /\ input' = [input EXCEPT ![h] = SubSeq(@, Inputs + 1, Len(@))]
  /\ UNCHANGED <<timeVars, hartVars, regVars, dmaVars>>

-----------------------------------------------------------------------------
HartStep(h) ==
  \/ Fill(h) \/ Acquire(h) \/ StoreSrc(h) \/ StoreDst(h)
  \/ StoreOp(h) \/ Post(h) \/ Use(h)

DmaStep == DmaRead \/ DmaWriteAcc \/ DmaWriteRam \/ DmaReset

\* Nothing is left to do at this simulated time.
Quiet ==
  /\ \A h \in Harts : ~Runs(h) /\ Len(input[h]) < Inputs
  /\ \/ dma = "waiting" \/ delay > 0
     \/ dma = "started" /\ op = 1 /\ \E h \in Harts : src = Acc(h) /\ result[h] = <<>>

\* The kernel advances the time.  run_event is lost on a DMA that does not wait
\* for it.
Tick ==
  /\ Quiet
  /\ \E h \in Harts : pc[h] # "done"
  /\ phase' = (phase + 1) % quantum
  /\ wake' = [h \in Harts |-> IF wake[h] = 0 THEN 0 ELSE wake[h] - 1]
  /\ delay' = IF delay = 0 THEN 0 ELSE delay - 1
  /\ notified' = None
  /\ dma' = IF notified # None /\ dma = "waiting" THEN "started" ELSE dma
  /\ UNCHANGED <<quantum, pc, call, local, buffer, got, sem, regVars, block, accVars>>

Next == (\E h \in Harts : HartStep(h) \/ Accelerate(h)) \/ DmaStep \/ Tick

Spec == Init /\ [][Next]_vars

\* The simulation does not stop.
FairSpec == Spec /\ WF_vars(Next)

-----------------------------------------------------------------------------
TypeOK ==
  /\ phase \in 0 .. quantum - 1
  /\ pc \in [Harts -> PCs]
  /\ call \in [Harts -> 1 .. Calls + 1]
  /\ sem \in {0, 1}
  /\ op \in {0, 1}
  /\ notified \in {None, 1}
  /\ dma \in {"waiting", "started", "copying", "written"}

\* The first call of the group that call c belongs to.
First(c) == c - ((c - 1) % (Inputs + 1))

\* An accelerator holds the values its own hart sent in the group it is in, each once,
\* untorn and in order, and none of the other hart's or of another group, although
\* the driver reuses the buffer and the registers without asking whether the DMA has
\* read them.
InputsInOrder ==
  \A h \in Harts : \A i \in 1 .. Len(input[h]) :
    input[h][i] = Value(h, First(call[h]) + (i - 1))

\* read_data_from_ACC returns the result of the inputs this hart sent in the calls just
\* before it: not what its buffer held before the DMA wrote it, nor the result of
\* another group or of the other hart.
ReadsOwnResult ==
  \A h \in Harts :
    (pc[h] # "use" /\ call[h] > 1 /\ IsRead(call[h] - 1)) =>
      got[h] = Expected(h, call[h] - 1)

\* A store to OP finds the DMA waiting: no notification is lost or merged.
NoLostRequest ==
  [][\A h \in Harts : StoreOp(h) => dma = "waiting" /\ notified = None]_vars

\* The registers of a running request are not changed under it.
RegistersStable ==
  [][dma # "waiting" /\ dma' # "waiting" => UNCHANGED regVars]_vars

\* Every driver call returns, and leaves the DMA and the FIFOs empty.
Finishes ==
  <>(/\ \A h \in Harts : pc[h] = "done" /\ input[h] = <<>> /\ result[h] = <<>>
     /\ dma = "waiting")
=============================================================================
