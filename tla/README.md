# TLA+ models of the RISC-V virtual prototype, its DMA, its interrupt controllers and the network programs

The repository is a RISC-V virtual prototype in SystemC (`riscv-vp/vp/src`), extended with
a DMA and neural-network accelerators, and the bare-metal programs that run a small
convolutional network on one or two cores (`riscv-vp/sw`).  The models here cover what
makes two cores, a DMA and the accelerators work together: the bus lock, the semaphores
built on it, the driver that shares the DMA, the split of the network over two harts, the
row-based accelerators, and the interrupt controllers with the harts they interrupt.

Paths below are relative to `src/riscv-vp/`.

## 1. Inventory

| Component | State | Operations | Interacts with |
|---|---|---|---|
| Bus lock (`vp/src/platform/common/bus.h`, `core/common/bus_lock_if.h`) | `locked`, `owner`, `lock_event` | `lock`, `unlock`, `is_locked`, `wait_until_unlocked` | the memory interface of every hart, every `PeripheralWriteConnector` |
| Memory interface (`core/rv32/mem.h`) | `lr_addr` | loads, stores, LR, SC, AMO halves | ISS, bus lock, bus |
| ISS step (`core/rv32/iss.cpp`) | `lr_sc_counter`, registers, CSRs, quantum keeper | `exec_step`, traps, `performance_and_sync_update` | memory interface, interrupt sources, debugger |
| SimpleDMA (`platform/tiny32-dnn-2-cores/dma.h`) | four registers, a 64-byte buffer, `run_event` | register access, `run`, `OP_MEMCPY` | bus, memory, accelerators |
| Accelerators, element by element (`tiny32-dnn-*/Convolution_*.h`, `FC_*.h`) | input FIFOs, accumulators, result FIFO | blocking transport, MAC thread | DMA (or a hart directly) |
| Accelerators, row based (`tiny32-row-based-dnn-*`) | five FIFOs, weight and row buffers, `even_row`, two activation rows, accumulators | blocking transport, `MAC`, `Fully_Connect` | DMA |
| Driver, semaphores (`sw/2-cores/*/DMA.h`) | `dma_lock`, `print_lock`, a stack buffer per call | `sem_*`, `write_data_to_ACC`, `read_data_from_ACC` | DMA registers |
| Boot and exit (`sw/2-cores/*/bootstrap.S`) | `exit_counter` | start, `amoadd`, `SYS_EXIT` | syscall handler |
| Network program (`sw/*/main.cpp`) | result arrays of each layer | `do_conv1` .. `do_fc3`, `show_predict_result` | driver |
| FE310 PLIC (`vp/src/platform/common/fe310_plic.h`) | pending, priorities, enables, thresholds, `hart_eip`, `e_run` | trigger, `run`, claim, complete, configuration | devices, pins of the harts |
| CLINT (`vp/src/core/common/clint.h`) | `mtime`, `mtimecmp`, `msip`, `irq_event` | `run`, register callbacks, CSR `time` | pins and local time of the harts |
| Interrupt side of the ISS | `mstatus.mie`, `mie`, `mip`, `wfi_event` | pins, selection, trap entry, `mret`, WFI | PLIC, CLINT |
| FU540 PLIC, RealCLINT | as above, with a host timer | used by no platform of this repository | |
| UARTs, SLIP | FIFOs, semaphores, host threads | transmit, receive, register access | host, PLIC |
| GDB server | packet queue, mutex, run and stop events | `run_threads`, packet handlers | ISS of every hart |
| MMU (given to no core), flash, Ethernet, sensors, display, loader, syscalls | their own | | ISS, memory |

What is hard here:

* *Cooperative concurrency with local time.*  Harts and devices are SystemC threads.  One
  runs until it waits; a hart runs ahead of the simulated time for up to a quantum.  A
  hart that waits with the bus lock held, or a device that writes between LR and SC,
  breaks atomicity that no single-hart test exercises.
* *A lock that is held across instructions.*  LR takes it, and SC, any store, a trap, WFI
  or a countdown of 17 instructions gives it back.
* *A driver without completion.*  Nobody waits for the DMA.  Its registers, the stack
  buffer and the result are right because of the time instructions take.
* *No barrier between layers.*  Each hart reads what the other computed.
* *Events that merge.*  `e_run`, `irq_event` and `wfi_event` keep one notification.  What was
  pending, checked or asserted before may be different when the thread runs.
* *Streams without frames.*  The row-based accelerators count what they receive; an element
  too many or too few, or a request that blocks the DMA for the other hart, is only seen in
  the results.

The properties that make each part correct are the ones in sections 3 and 4; the hazards
they answer, and the ones still without a property, are listed in `PROJECT.json`.

## 2. Modules

| Module | Models | Notes |
|---|---|---|
| `AtomicMemory` | the promise: LR/SC reservations of the "A" extension | abstract specification |
| `LrScBus` | bus lock, memory interface, ISS step, WFI, traps, peripherals that wait, bus masters, debugger halts | implements `AtomicMemory` |
| `LrScBusProofs` | | invariance and refinement |
| `SemProgram` | `sem_init`, `sem_wait`, `sem_post`, the driver's critical section, `bootstrap.S` | EXTENDS `LrScBus`; its steps are steps of the bus model |
| `SemProgramProofs` | | EXTENDS `LrScBusProofs` |
| `DmaTransfer` | driver calls, SimpleDMA and accelerator FIFOs in simulated time | rests on two facts of the modules above |
| `DmaTransferProofs` | | EXTENDS `NaturalFacts` |
| `LayerPipeline` | the dense layers over the harts, self-checks, prediction | |
| `LayerPipelineProofs` | | |
| `HartTraps` | the interrupt side of one hart, as operators on a record | used by the next two |
| `Fe310Plic` | devices, the PLIC, and harts that configure, wait, trap, claim and complete | EXTENDS `HartTraps` |
| `Fe310PlicProofs` | | EXTENDS `NaturalFacts` |
| `Clint` | the CLINT and harts that are ahead of the simulated time | EXTENDS `HartTraps` |
| `ClintProofs` | | EXTENDS `NaturalFacts` |
| `NaturalFacts` | least elements, division, multiplication | lemmas only |
| `GoldenLayers` | the promise: every output of every layer, in order | abstract specification |
| `RowAccelerator` | row-based accelerators, FIFOs, DMA and the programs that feed them | implements `GoldenLayers` |
| `RowAcceleratorProofs` | | invariance and refinement; EXTENDS `NaturalFacts` |
| `MC*` | instances for TLC | |

**LrScBus.**  `running` is the thread the SystemC kernel executes and `status` what every
other thread waits for.  An instruction is one action, including the end of `run_step`:
`Retire` is `performance_and_sync_update` with the release of the reservation that a trap
or an interrupt makes first.  `running' = None` is a `wait`: `quantum_keeper.sync()`, which
the code allows only when `lr_sc_counter` is 0, `wait(lock_event)`, `wait(wfi_event)`, or
the transport of a peripheral that waits.  `Fault` is the LR, SC or AMO that traps after it
has taken the lock or set its result.  Where a quantum ends, and which thread is next,
is left open.  `lock` is the owner while `locked`.  `lr_addr` survives the lock, as in the
code, so `Succeeds` needs both conjuncts.  A second LR inside a window does not restart
the countdown.  The refinement maps a hart's reservation to `lr_addr` while it owns the
lock and `lr_addr` is a word of memory (`Reserved`); a bus master or another hart that writes
while nobody holds the lock, a lost reservation and a failed SC are all steps of
`AtomicMemory`.  An access to a peripheral that waits is in two steps, and others run in
between.  `LockPeripheral` is an LR.W or AMO of this kind: `atomic_load_word` and
`atomic_load_reserved_word` take the lock first and keep it while they wait, the LR.W before
its window is open (the exception in `HeldOnlyInWindow`); `lr_addr` is then `None`, the
address of no word of memory, and an SC.W to it waits as well.  What these accesses return
is left out.

**SemProgram.**  The program counters name the instructions of the inline assembly.  Each
action is the conjunction of a program step and the action of `LrScBus` that executes the
instruction.  The two ends of the four register stores are kept: they are what another
hart could mix with.  `Reg` holds the number of the hart whose request it is.

**DmaTransfer.**  One tick is 10 ns, `cycle_time` of the ISS, and the delay of
`run_event.notify`.  An instruction takes effect when its thread runs; its cycles
accumulate in `local` until the quantum is used up, then the hart sleeps for that long
(`wake`).  Loads and stores take four cycles (constructor of the ISS) and each group of
instructions takes at least its minimum and up to `Jitter` ticks more.  A value is the hart
and the number of the call that wrote it, and a result is the sequence of the values it was
made of, so one of the other hart, of another group, or used twice is seen as such; a
half-filled buffer is `Torn`.  `_copy_block` reads `dst` only after the read half has
waited, `DmaReset` clears the registers after the write half has: both are separate
actions.  `dma_lock` is taken in one step here, which `SemaphoreExact` (it is exact) and
`LockHidden` (no window is interrupted) justify.

**LayerPipeline.**  A value is what the array started with, right, or wrong.  Sending an
input makes the output it is for wrong unless the input was right; `pass` remembers what
`do_fcX` will print.  The dense layers are modelled, with one width; a convolution layer
has the same split and the same missing barrier.

**HartTraps, Fe310Plic.**  Every hart step is one `run_step`: an instruction and then the check
that may turn it into a trap.  `hart[h].mip` is the pin as the hart sees it; software cannot
write it (`MIP_WRITE_MASK` excludes the three machine bits), which is why `PinsAgree` can
hold.  WFI waits when nothing is pending; `notified` is the delta notification of
`wfi_event`, and one of the same delta cycle may or may not still count (`stale`).  The
register callbacks are modelled with their indices: a claim looks at hart 0's enables,
`hart_config` is indexed with the number of the register pair (`ConfigIndex`), so a claim of
hart 1 stops at the assertion of `ArrayView`, and the rows of the enable registers are one
word long (`RowSize` is 1 in `util/memory_map.h`), so the words of neighbouring harts
overlap.  `ArrayView::end` points at the last element, so the clamp of the priorities leaves
that one out; it belongs to no interrupt and is not in the model.  A threshold is not clamped:
`Thresholds` are any natural numbers, and the run has one above every priority.  No program of the
repository uses the PLIC.  The handlers therefore follow the protocol of its registers, once
per trap or in a loop (`HandlerLoops`); a claim that returns 0 because the configuration was
changed after the trap is completed like any other.

**Clint.**  Time is counted in ticks of one instruction; `Scale` ticks are a unit of `mtime`
(`scaler`).  `local` and `resume` are the quantum keeper: a hart runs until the next multiple
of the quantum after its last reset and then sleeps for the time it is ahead.  `Access` is what
the bus and the CLINT add before a store or load takes effect.  A comparand is written in the
three stores that the note in `clint.h` prescribes, with halves of `HalfSize` values;
`MaxCmp` and 0 both mean that there is no timer.  The products with `scaler` in `run()` are
64-bit numbers, so `Delay` is modulo `TimeSize`, the size of a comparand: for a large one `run()`
looks too early and then again.  The sum of the current time and the delay, which is the
kernel's, is exact.  With the `scaler` of the code, a power of two times an odd number, some
comparands have the same product as `mtime`; `run()` would then notify itself with a
delay of 0 for ever.  The instance has no such comparand, and nothing is claimed about them but
safety.  `pre_read_mtime` sets `mtime` to the
reader's local time, ahead or back; the CSR never goes back.  That the callbacks get the
delay, and `sc_event::notify` keeps the earliest notification, is what the properties are
about.

**RowAccelerator.**  `at[h]` is the driver call that hart `h` makes next: accelerator, port and
the loop variables (`m` the output, `p` the row or input, `k` the element), and `NextConv`
and `NextDense` are the loops of `do_conv1` to `do_fc3`, which lead from one call to the next.
Every accelerator has an initial `even_row` of its own, out of `InitialEven`.
The DMA carries out one call at a time, which is what `DmaTransfer` shows of the driver, and
blocks while the FIFO of its request is full or empty.  Accelerators take no simulated time, so a block
that needs no further request (`StallIsShort`) ends before the next instruction of any hart
and does not disturb the timing in `DmaTransfer`.  A value is symbolic: an output is the
weights and inputs it is made of, in order, so the refinement of `GoldenLayers` says that
`weight_buffer`, `input_buffer`, `activation_buffer` and `acc[]` hold the right ones.
Products, sums, ReLU and the maximum of a window are not evaluated.  The model runs conv,
fc1 and fc3 in a row, as the single-core program does with five layers; the two-core program
has all but `do_fc1` commented out.

## 3. Runs

| Run | Instance | Shows |
|---|---|---|
| `bus` | 2 harts, the DMA, 2 words of one bit, window 3, traps and debugger on | `ReservationIntact`, `HeldOnlyInWindow`, `NoLostWakeup`, `SchedulerInv`; the refinement `AtomicSpec` |
| `bus_live` | 2 harts, the DMA, 1 word, window 3, no debugger | `LockHidden`; `LockWaitEnds` under fairness |
| `sem` | 2 harts, 2 driver calls each, window 5, traps and debugger | `SemaphoreExact`, `RequestCoherent`, `ExitAfterAll` |
| `sem_live` | 2 harts, 4 driver calls each, the code's window of 17, no traps | `ForwardProgress`: no SC.W of the program ever fails; `Termination` |
| `dma` | 2 harts, 2 results of 2 inputs each, quanta of 1 to 4 ticks, 2 ticks of jitter | `InputsInOrder`, `ReadsOwnResult`, `NoLostRequest`, `RegistersStable`, `Finishes` |
| `layers` | 2 harts, 3 layers of 4 outputs | `WrongIsReported`, `StaleNeedsLead` |
| `predict` | the same with golden inputs | expected violation, see below |
| `plic` | 2 harts (hart 0 handles), 2 interrupts, one per word so that the enables of the harts overlap, priorities 0 to 2, thresholds 0, 1 and 3 | `CompletionAssert`, `PinsAgree`, `NoLostWakeup`, `ClaimsAboveThreshold`, `OnlyConfigurationStrands`; `ForemostServed` under fairness |
| `plic_assert` | 1 hart whose handler loops | expected violation of `CompletionAssert`, see below |
| `clint` | 2 harts, quantum 2, 2 ticks per `mtime`, halves of 3 values, comparands 0, 2 and 7, 7 ticks | `NoTimerForgotten`, `NoStaleTimer`, `NoSpuriousTimer`; `SleeperWakes` under fairness |
| `row` | 2 harts, 4 filters of 3 rows, 6 input rows of 3 elements, 2 inputs, 6 outputs, FIFOs of 2 | `StallIsShort`, `CleanHandover`; the refinement `ImplementsLayers`; `AllRead` under fairness |
| `row_even` | the same with any initial `even_row` | expected violation of `ResultsGolden`, see below |

*Bounds.*  Two harts are all the platforms have.  Two words let an SC name another address
than its LR.  A window of 3 opens, counts and closes with room for a store or a second LR
in it, and the proofs cover every length; `sem_live` uses the 17 of the code because
`ForwardProgress` is about that number (the spin in `sem_wait` leaves the countdown
anywhere); `NoScFails` shows that any window of at least four would do.  Two driver calls per hart let one hart lap the other.  In `dma` two inputs per
result give writes that follow each other, a read after a write and a write after a read
in both harts at once; `Jitter` shifts the harts against each other.  Three layers make a
stale value propagate through a layer that is itself an input.  In `plic` two
interrupts are enough for one to arrive while the other is claimed, and two priorities above
0 for a threshold between them; hart 1 cannot handle interrupts at all (above), but its
enables are changed by hart 0's.  In `clint` a hart goes between three comparands in any order:
0 turns the timer off, 2 lies within the horizon `MaxTime` with room for the three stores of
the other hart, and 7, which differs from 2 in both halves, is never reached and its product
with the scale wraps around (14 modulo 9); on the way between 0 or 2 and 7 the comparand is
also 8, the largest value, which means no timer.  The time scale of 2 makes `mtime` lag behind
the ticks.  Simulated time ends at `MaxTime`, so `SleeperWakes` is about a comparand that is
reached by then, which is 2.  In `row` a row and a set of
weights do not fit in a FIFO, each hart has two filters, and four row windows give two pooled
rows.

*The margin of the driver.*  The default of `--tlm-global-quantum` is 10 ns (`options.h`),
one tick.  With the minimum durations of the model, the driver is right for quanta of up
to four ticks.  At five the buffer may be refilled before it was read (`InputsInOrder`),
and larger quanta break `RegistersStable` and `NoLostRequest` too.  Because the durations
are lower bounds (instruction fetches through the bus, for instance, add to them), the
threshold of the real program is higher; that there is one is the point.  `DmaTransferProofs`
proves the safe side of it for everything but the quantum: up to four ticks, with any number
of harts, inputs and calls, and any jitter.  `Quanta` is a
constant of the module for this reason.

*Fairness.*  The SystemC kernel runs every runnable thread and delivers every
notification, so `Dispatch` and `LockEventFires` are fair, strongly, because other threads
may run in between.  A thread that runs proceeds (weak fairness of `RunStep`,
`MasterStep`).  A quantum is finite, so a hart that may synchronise again and again does
so in the end (strong fairness of `Yields`).  Peripherals answer, also one that is accessed with
the bus locked; an LR.W of a peripheral that answers only after a write of somebody else, as
the result port of an accelerator does, would stop everybody, and no program of the
repository makes one.  Nothing is assumed of
interrupts, of the debugger, or of the program: `LockWaitEnds` holds for any instructions.  It
says that every single wait ends; a thread that was woken may find the bus locked again and
wait once more, as often as another hart is faster.
`DmaTransfer` only assumes that the simulation does not stop (weak fairness of `Next`).  In
`Fe310Plic` the PLIC's thread and the harts are weakly fair, devices and stores to the
configuration are not; in `Clint` the CLINT's thread, time and every hart are; in
`RowAccelerator` the harts' requests, the DMA and every accelerator thread are.

*Deadlock* is checked in `bus`, `bus_live`, `plic` and `plic_assert`.  It is off in the runs
whose programs or simulated time end, where the last state has no successor.

*Findings.*  (1) `Report.md:54` says the program is executed "sequential with order do_conv1
-> do_conv2 -> do_fc1 -> do_fc2 -> do_fc3 -> get result".  With two cores the result is
taken by hart 0 when its own half of `do_fc3` is done (`sw/2-cores/basic-dnn/main.cpp:302`);
nothing waits for hart 1.  `predict` shows that this is not a matter of wrong inputs: with
golden inputs, every self-check right, the scores may still be incomplete.  The model does
not know how fast the harts are, so it says that nothing in the program rules this out,
not how often it happens.

(2) `even_row` in `Convolution_1::MAC` is not initialised and only ever toggled.  The run `row`
and the theorems about `RowAccelerator` are about the executions in which it starts as false in
every accelerator, as the program needs; `row_even` allows both values, and the program's own
comparison fails.

(3) `post_write_hart_config` asserts `hart_eip[idx]` when a completion finds another interrupt
pending, but `hart_eip` is raised only when `e_run` fires, 10 ns after the trigger.  A handler
that claims until it gets 0 can claim the interrupt before that and complete it when one more
has arrived: `plic_assert` shows the order.  With one claim per trap the assertion holds, in
the run `plic` and for all constants (`CompletionSafe`).

What the models also say, without contradicting anything that is written down: storing to an
enable, a priority or a threshold strands an interrupt that it unmasks until the next
trigger (`OnlyConfigurationStrands` says that nothing else does; a store of one hart that
changes the enables of the other counts as such a store too); a claim of hart 1 is out
of range; and `mtime` can go back when harts with different local times read it.  `StaleNeedsLead`
says how far ahead a hart must be to read a stale input, not that `dma_lock` keeps it from
getting there.

## 4. Proofs

All for arbitrary constants under the named assumptions (`ThreadsAssumption`: harts,
masters and `None` are distinct; `WindowAssumption`: the window is positive;
`ProgramAssumption`: harts 0 and 1, three distinct words; `PipelineAssumption`;
`DmaAssumption`: quanta, inputs and groups are positive, `None` names no hart and no delay;
`PlicAssumption`: one or two harts, any number of interrupts, any thresholds; `ClintAssumption`: any number of
harts, any scale, quantum and width, any comparands;
`RowAssumption`: one or two harts that share filters and outputs evenly, filters with an odd
number of rows and inputs with an even one, as the pairing of rows by `p % 2` needs, output
numbers that fit in `sc_int<8>`, and any other sizes, of the FIFOs too).

* `LrScBusProofs`.  `ReservationIntact` is not inductive: that nobody else writes while a
  hart owns the lock needs `SchedulerInv` (who runs, who waits) and `LockHidden` (who may
  run while it is locked), and that needs `HeldOnlyInWindow` (a closed window holds
  nothing, unless an LR.W or AMO waits for a peripheral).  `IInv` is their conjunction with
  `TypeOK` and `NoLostWakeup`.  `RetireEffect` and `RetireKeeps` say once what the end of an
  instruction does; one lemma per kind of instruction follows, and for the refinement
  `PlainRetires`, an instruction that leaves memory alone.  Theorems: `TypeCorrect`, `ReservationSafety`, `WindowSafety`,
  `LockIsHidden`, `WakeupSafety`, `SchedulerSafety`, and `Refinement`, `Spec => AtomicSpec`.
* `SemProgramProofs`.  Every program step is a step of the bus model, so `IInv` is
  inherited, and with it that a successful SC writes over the value its LR returned.
  `ProgInv` adds what the program counters imply: `LoopInv` (SC of `sem_wait` only after a
  non-zero load; hart 1 does not get inside before hart 0 has initialised), `ExitInv` (what
  `exit_counter` counts), `RoundInv`.  Theorems: `SemaphoreSafety`, `RequestSafety`,
  `ExitSafety`, `ProgramTypeCorrect`.

  In the second part of the module, `WindowInv` says how far into its window each hart is. The
  spin of `sem_wait` does not return to a closed window: the countdown goes on over `lr.w` and
  `beqz`. What makes it right is that an open window holds the lock, so the word cannot change
  while it is open: a hart that is back at `lr.w` with an open window has seen 0 and will see
  0 until it closes, and the load that sees something else opens a new window, of which
  `sem_wait` needs four instructions and `sem_post` three. Theorem: `NoScFails`, for windows
  of at least four, with or without a debugger, and without traps (`~Trapping` in the
  property).
* `DmaTransferProofs`.  Assumed besides `DmaAssumption`: `Quanta \subseteq 1 .. Access`, a
  quantum is no longer than a store.  Then the store to `OP` uses it up wherever in it the hart
  was, and the hart sleeps for four ticks at least.  `Serving` ties the rest of that sleep to
  the progress of its request (`Asked` 4, `Started` 3, `Copying` and `Written` 2 and what the
  DMA still waits): a tick takes one from both, so the DMA is done before the hart runs `sem_post`.
  `Mutex` makes the hart in question the only one with a claim on the registers
  (`Programmed`).  `Data` is the rest: where each value is (buffer, block, FIFO), with
  `Batch` for what an accelerator has received of the current group, hart and call of every
  value included; that a step to the next
  call keeps `Place` and `Batch` right is `PlaceFacts`, from the uniqueness of quotient and
  remainder.  Theorems: `OwnResults`, `InputsOrdered`, `RequestsNotLost`, `RegistersKept`,
  `DmaTypeCorrect`.
* `LayerPipelineProofs`.  `Stored` (what a hart has passed is not initial any more) turns a
  stale input into a statement about the other hart's position.  Theorems:
  `SelfChecksReport`, `StaleNeedsLeadTheorem`, `PipelineTypeCorrect`.
* `Fe310PlicProofs`.  `PinsAgree` and `NoLostWakeup` are inductive with the types; the
  assertion and the claims need more: in the handler (between trap and completion) the pin
  is up, and, unless the configuration was changed meanwhile, a candidate above the threshold
  is still there; the selection returns the greatest priority, which is then above the
  threshold too (`LeastNat` gives that the maximum exists).  Theorems: `TypeCorrect`,
  `PinsAlwaysAgree`, `WakeupsAreNotLost`, `CompletionSafe`, `ClaimsAreAboveThreshold`,
  `ConfigurationStrands`.  `CompletionSafe` is for handlers that claim once per trap.
* `ClintProofs`.  `NoTimerForgotten` is inductive only with bounds on how far a hart, and with
  it `mtime` and a notification, can be ahead of the simulated time (`Leads`, from the
  quantum), with no notification overdue (`InTime`), and with what a comparand is between
  the stores (`Comparands`), from which `NoSpuriousTimer` follows: in between, the comparand
  is the last value with the old or the new high half.  That a delay which wraps around only
  gets shorter is `DelayIsShort`.  In `NoSpuriousTimer` 0 counts as the largest value of a low
  half: the three stores pass through it on the way from or to 0, and a timer may go off there.  Theorems: `TypeCorrect`,
  `NoTimerIsForgotten`, `StaleTimersAreWithdrawn`, `NoSpuriousTimers`.

* `RowAcceleratorProofs`.  `RInv` sees each accelerator as a pipeline and relates its three
  parts for every hart: the call of the program tells what has been sent, the local variables of
  the thread what has been taken, and the FIFO holds what is between.  Elements, weights and
  results are therefore numbered in the order of transfer (`Element`, `FactorSeq`, `Place`), and
  the divisions and remainders in these numbers are undone by the lemmas of `NaturalFacts`.  Of
  the convolution, `Working` says which row is being received and what the row buffers and
  `activation_buffer` contain (`Buffers`), `Delivering` which pooled results are still to be
  read; of a dense layer, `Feeding` and `Answering` say the same of `Fully_Connect` before and
  after its sums are complete.  `CleanHandover`, `StallIsShort` and `ResultsGolden` are not
  inductive because they mention neither what the FIFOs contain nor how far the program is.
  `StartInv` adds that `Fully_Connect` is idle when the program starts its layer.  What a
  hart has read is the beginning of `Golden`, as long as the call says (`Reads`).  There is a
  lemma for every action on the fields of one accelerator, one that lifts it to a hart
  (`Hart...`) and one to the state (`...Keeps`).  Theorems: `RowTypeCorrect`, `NoDeadlyStall`,
  `HandoverIsClean`, `OnlyGoldenResults`, and `LayersImplemented`, `Spec => ImplementsLayers`.
  All of them are conditional, `Spec /\ EvenStartsFalse => ...`: they say something about an
  execution in which `even_row` of every accelerator happens to be false at the start.  Nothing
  in the code makes sure of it, and the run `row_even` shows that the program's comparison can
  fail without it (finding 2).  Of the other executions nothing is proved.

Model-checked only: `LockWaitEnds`, `Termination`, `Finishes`, `ForemostServed`,
`SleeperWakes` and `AllRead`, which are liveness under fairness.  Every safety property of the
passing runs is stated by a theorem.

## 5. Not modelled, and the plan

Next, in this order:

1. `GdbServer` (host thread, mutex, `run_threads`): the hazards that are left in code the
   platforms run.
2. The arithmetic of the accelerators (`sc_int<8>` products in 24 bits, ReLU, pooling), against
   its definition over small widths.

Used by no platform of this repository, and so left out: the MMU with its page walk (every
`main.cpp` constructs the memory interface without one), the FU540 PLIC, RealCLINT with its
host timer, the UARTs and SLIP, and the rv64 core, which repeats the structure of the rv32 one.

Left out: the instruction decoder and arithmetic (a table, sequential), supervisor and user
mode and delegation (the programs stay in machine mode), the flash controller, the ELF loader, syscalls, options,
Ethernet, sensors, display and terminal (host I/O and register files without control), the
vendored SystemC, softfloat and libgdb.  The Ethernet device and the syscall handler write
memory without looking at the bus lock; `LrScBus` does not contain them, so its theorems
are about systems in which they do not touch reserved words.
