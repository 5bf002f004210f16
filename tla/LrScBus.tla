------------------------------- MODULE LrScBus -------------------------------
(***************************************************************************)
(* The bus lock by which the virtual prototype implements LR.W, SC.W and   *)
(* the AMOs: BusLock and PeripheralWriteConnector (platform/common/bus.h), *)
(* the hart's view of memory (core/rv32/mem.h) and the part of the         *)
(* instruction-set simulator that takes, keeps and releases the lock       *)
(* (core/rv32/iss.cpp).                                                    *)
(*                                                                         *)
(* Harts and bus masters are SystemC threads: one runs at a time, until it *)
(* waits.  The kernel's choice of the next thread is left open, and so is  *)
(* the place where a hart's quantum ends, except that a hart does not      *)
(* synchronise inside a load-reserved window.                              *)
(***************************************************************************)
EXTENDS Integers

CONSTANTS
  Harts,    \* the cores
  Masters,  \* devices that write through a PeripheralWriteConnector (the DMA)
  Addrs,    \* words of memory
  Values,   \* what a word can hold
  Window,   \* lr_sc_counter after a load-reserved (17 in the code)
  Debug,    \* TRUE when the harts run under the GDB server
  Trapping, \* TRUE when instructions may raise exceptions or be interrupted
  None      \* no owner, no running thread, no reservation

ASSUME ThreadsAssumption ==
  /\ Harts \cap Masters = {}
  /\ None \notin Harts \cup Masters \cup Addrs
  /\ Debug \in BOOLEAN
  /\ Trapping \in BOOLEAN
ASSUME WindowAssumption == Window \in Nat \ {0}

Threads == Harts \cup Masters

VARIABLES
  mem,       \* SimpleMemory::data
  lock,      \* BusLock: the owner while locked, else None
  lockEvent, \* BusLock::lock_event has a pending delta notification
  lrAddr,    \* CombinedMemoryInterface::lr_addr of each hart; None: in a peripheral
  counter,   \* ISS::lr_sc_counter of each hart
  loaded,    \* destination register of each hart's last LR.W of a word of memory
  scOk,      \* whether its last SC.W to memory wrote 0 (success) to its register
  status,    \* what each thread waits for
  running    \* the thread the SystemC kernel executes, or None

vars == <<mem, lock, lockEvent, lrAddr, counter, loaded, scOk, status, running>>

\* Inside the transport of a peripheral that waits: a load, a store, an LR.W, an SC.W
\* or an AMO.
Accesses == {"loading", "storing", "reserving", "conditional", "swapping"}

\* "blocked": wait(lock_event); "wfi": wait(wfi_event); "stopped": wait(run_event) of
\* the debugger.
Statuses == {"ready", "blocked", "wfi", "stopped"} \cup Accesses

Init ==
  /\ mem \in [Addrs -> Values]
  /\ lock = None
  /\ lockEvent = FALSE
  /\ lrAddr \in [Harts -> Addrs]
  /\ counter = [h \in Harts |-> 0]
  /\ loaded \in [Harts -> Values]
  /\ scOk = [h \in Harts |-> FALSE]
  /\ status = [p \in Threads |-> "ready"]
  /\ running = None

-----------------------------------------------------------------------------
(***************************************************************************)
(* The hart.                                                               *)
(***************************************************************************)
\* Faulty: wait_for_access_rights() that does not exempt the owner.
ForeignOrOwn(p) == lock # None

\* Somebody else owns the lock: lock() and wait_for_access_rights() wait.
Foreign(p) == lock \notin {None, p}

\* Faulty: the countdown does not stop at zero.
RetireBelowZero(h, c, had, has) ==
  /\ counter' = [counter EXCEPT ![h] = c - 1]
  /\ lock' = IF has THEN h ELSE IF lock = h THEN None ELSE lock
  /\ lockEvent' = (lockEvent \/ (had /\ ~has))
  /\ running' = h

\* Faulty: the end of the window does not release the reservation.
RetireKeeping(h, c, had, has) ==
  /\ counter' = [counter EXCEPT ![h] = IF c = 0 THEN 0 ELSE c - 1]
  /\ lock' = IF has THEN h ELSE IF lock = h THEN None ELSE lock
  /\ lockEvent' = (lockEvent \/ (had /\ ~has))
  /\ running' \in (IF c <= 1 THEN {h, None} ELSE {h})

\* Faulty: the end of the window unlocks without a notification.
RetireSilently(h, c, had, has) ==
  LET left == IF c = 0 THEN 0 ELSE c - 1
      keep == has /\ ~(c # 0 /\ left = 0)
  IN  /\ counter' = [counter EXCEPT ![h] = left]
      /\ lock' = IF keep THEN h ELSE IF lock = h THEN None ELSE lock
      /\ lockEvent' = (lockEvent \/ (had /\ ~has))
      /\ running' \in (IF left = 0 THEN {h, None} ELSE {h})

\* Faulty: the hart synchronises inside the window.
RetireSyncing(h, c, had, has) ==
  LET left == IF c = 0 THEN 0 ELSE c - 1
      keep == has /\ ~(c # 0 /\ left = 0)
  IN  /\ counter' = [counter EXCEPT ![h] = left]
      /\ lock' = IF keep THEN h ELSE IF lock = h THEN None ELSE lock
      /\ lockEvent' = (lockEvent \/ (had /\ ~keep))
      /\ running' \in {h, None}

\* The end of run_step.  c is lr_sc_counter after the instruction; had says that
\* the hart owned the lock before or during it, has that it still does.  An
\* interrupt that is taken, or an exception, first releases the reservation.
Retire(h, c, had, has) ==
  \E trap \in {FALSE, Trapping} :
    LET left == IF trap \/ c = 0 THEN 0 ELSE c - 1
        keep == has /\ ~trap /\ ~(c # 0 /\ left = 0)
    IN  /\ counter' = [counter EXCEPT ![h] = left]
        /\ lock' = IF keep THEN h ELSE IF lock = h THEN None ELSE lock
        /\ lockEvent' = (lockEvent \/ (had /\ ~keep))
        /\ running' \in (IF left = 0 THEN {h, None} ELSE {h})

\* LR.W: lock the bus, remember the address, load; open a window unless one is open.
LoadReserved(h, a) ==
  /\ running = h
  /\ ~Foreign(h)
  /\ lrAddr' = [lrAddr EXCEPT ![h] = a]
  /\ loaded' = [loaded EXCEPT ![h] = mem[a]]
  /\ Retire(h, IF counter[h] = 0 THEN Window ELSE counter[h], TRUE, TRUE)
  /\ UNCHANGED <<mem, scOk, status>>

\* Faulty: SC.W that only compares the address.
SucceedsUnowned(h, a) == lrAddr[h] = a

\* SC.W writes iff the hart still owns the lock and names the reserved address.
Succeeds(h, a) == lock = h /\ lrAddr[h] = a

\* Faulty: SC.W that leaves the countdown of the window running.
StoreConditionalInWindow(h, a, v) ==
  /\ running = h
  /\ mem' = IF Succeeds(h, a) THEN [mem EXCEPT ![a] = v] ELSE mem
  /\ scOk' = [scOk EXCEPT ![h] = Succeeds(h, a)]
  /\ Retire(h, counter[h], lock = h, FALSE)
  /\ UNCHANGED <<lrAddr, loaded, status>>

StoreConditional(h, a, v) ==
  /\ running = h
  /\ mem' = IF Succeeds(h, a) THEN [mem EXCEPT ![a] = v] ELSE mem
  /\ scOk' = [scOk EXCEPT ![h] = Succeeds(h, a)]
  /\ Retire(h, 0, lock = h, FALSE)
  /\ UNCHANGED <<lrAddr, loaded, status>>

\* Faulty: a store without wait_for_access_rights().
StoreUnchecked(h, a, v) ==
  /\ running = h
  /\ mem' = [mem EXCEPT ![a] = v]
  /\ Retire(h, counter[h], lock = h, FALSE)
  /\ UNCHANGED <<lrAddr, loaded, scOk, status>>

\* Any store to memory gives the hart's own lock up.
Store(h, a, v) ==
  /\ running = h
  /\ ~Foreign(h)
  /\ mem' = [mem EXCEPT ![a] = v]
  /\ Retire(h, counter[h], lock = h, FALSE)
  /\ UNCHANGED <<lrAddr, loaded, scOk, status>>

\* An AMO locks, loads, stores the result v, and the store unlocks.
Amo(h, a, v) ==
  /\ running = h
  /\ ~Foreign(h)
  /\ mem' = [mem EXCEPT ![a] = v]
  /\ Retire(h, counter[h], TRUE, FALSE)
  /\ UNCHANGED <<lrAddr, loaded, scOk, status>>

\* Every instruction that stores nothing, and every one that an exception aborts.
Plain(h) ==
  /\ running = h
  /\ Retire(h, counter[h], lock = h, lock = h)
  /\ UNCHANGED <<mem, lrAddr, loaded, scOk, status>>

\* A fault in the middle: the AMO or LR.W has locked the bus before its load
\* faults, the SC.W has set its register to failure before its store does.  The
\* trap gives the lock back.
Fault(h) ==
  /\ Trapping
  /\ running = h
  /\ \/ ~Foreign(h) /\ UNCHANGED <<lrAddr, scOk>>
     \/ /\ ~Foreign(h)
        /\ \E a \in Addrs \cup {None} : lrAddr' = [lrAddr EXCEPT ![h] = a]
        /\ UNCHANGED scOk
     \/ lock = h /\ scOk' = [scOk EXCEPT ![h] = FALSE] /\ UNCHANGED lrAddr
  /\ counter' = [counter EXCEPT ![h] = 0]
  /\ lock' = None
  /\ lockEvent' = TRUE
  /\ running' \in {h, None}
  /\ UNCHANGED <<mem, loaded, status>>

\* WFI gives the reservation up and then waits, unless an interrupt is pending or
\* the GDB server has switched the waiting off.
WaitForInterrupt(h) ==
  /\ running = h
  /\ counter' = [counter EXCEPT ![h] = 0]
  /\ lock' = IF lock = h THEN None ELSE lock
  /\ lockEvent' = (lockEvent \/ lock = h)
  /\ \/ ~Debug /\ status' = [status EXCEPT ![h] = "wfi"] /\ running' = None
     \/ UNCHANGED status /\ running' \in {h, None}
  /\ UNCHANGED <<mem, lrAddr, loaded, scOk>>

Interrupt(h) ==
  /\ running = None
  /\ status[h] = "wfi"
  /\ status' = [status EXCEPT ![h] = "ready"]
  /\ UNCHANGED <<mem, lock, lockEvent, lrAddr, counter, loaded, scOk, running>>

\* A load or store to a peripheral whose transport waits, as the accelerators'
\* does: the thread gives the processor away in the middle of the instruction.  An SC.W
\* gets there when the hart has reserved the peripheral.
AccessPeripheral(h, kind) ==
  /\ running = h
  /\ ~Foreign(h)
  /\ kind = "conditional" => lock = h /\ lrAddr[h] = None
  /\ status' = [status EXCEPT ![h] = kind]
  /\ running' = None
  /\ UNCHANGED <<mem, lock, lockEvent, lrAddr, counter, loaded, scOk>>

\* An LR.W or AMO to such a peripheral: it waits with the bus locked, and an LR.W
\* outside a window as well.
LockPeripheral(h, kind) ==
  /\ running = h
  /\ ~Foreign(h)
  /\ lock' = h
  /\ lrAddr' = IF kind = "reserving" THEN [lrAddr EXCEPT ![h] = None] ELSE lrAddr
  /\ status' = [status EXCEPT ![h] = kind]
  /\ running' = None
  /\ UNCHANGED <<mem, lockEvent, counter, loaded, scOk>>

\* The rest of the instruction.  A load and an LR.W keep the lock, the others store.
PeripheralAnswers(h) ==
  /\ running = None
  /\ status[h] \in Accesses
  /\ status' = [status EXCEPT ![h] = "ready"]
  /\ LET c == CASE status[h] = "reserving" /\ counter[h] = 0 -> Window
                [] status[h] = "conditional" -> 0
                [] OTHER -> counter[h]
     IN  Retire(h, c, lock = h, lock = h /\ status[h] \in {"loading", "reserving"})
  /\ UNCHANGED <<mem, lrAddr, loaded, scOk>>

\* The debugger halts a hart between two instructions, wherever that is.
Halt(h) ==
  /\ Debug
  /\ running = h
  /\ status' = [status EXCEPT ![h] = "stopped"]
  /\ running' = None
  /\ UNCHANGED <<mem, lock, lockEvent, lrAddr, counter, loaded, scOk>>

Resume(h) ==
  /\ running = None
  /\ status[h] = "stopped"
  /\ status' = [status EXCEPT ![h] = "ready"]
  /\ UNCHANGED <<mem, lock, lockEvent, lrAddr, counter, loaded, scOk, running>>

-----------------------------------------------------------------------------
(***************************************************************************)
(* The lock's waiters, the bus masters and the SystemC kernel.             *)
(***************************************************************************)
\* wait_until_unlocked() of a hart's access or of a connector finds the bus locked.
WaitUntilUnlocked(p) ==
  /\ running = p
  /\ Foreign(p)
  /\ status' = [status EXCEPT ![p] = "blocked"]
  /\ running' = None
  /\ UNCHANGED <<mem, lock, lockEvent, lrAddr, counter, loaded, scOk>>

\* Faulty: a connector that does not wait for the bus.
MasterWriteLocked(m, a, v) ==
  /\ running = m
  /\ mem' = [mem EXCEPT ![a] = v]
  /\ running' = None
  /\ UNCHANGED <<lock, lockEvent, lrAddr, counter, loaded, scOk, status>>

\* A transaction of a bus master on the unlocked bus; it then waits for its delay.
MasterWrite(m, a, v) ==
  /\ running = m
  /\ lock = None
  /\ mem' = [mem EXCEPT ![a] = v]
  /\ running' = None
  /\ UNCHANGED <<lock, lockEvent, lrAddr, counter, loaded, scOk, status>>

MasterRead(m) ==
  /\ running = m
  /\ lock = None
  /\ running' = None
  /\ UNCHANGED <<mem, lock, lockEvent, lrAddr, counter, loaded, scOk, status>>

\* The next delta cycle: every thread that waits for lock_event becomes runnable.
LockEventFires ==
  /\ running = None
  /\ lockEvent
  /\ lockEvent' = FALSE
  /\ status' = [p \in Threads |-> IF status[p] = "blocked" THEN "ready" ELSE status[p]]
  /\ UNCHANGED <<mem, lock, lrAddr, counter, loaded, scOk, running>>

Dispatch(p) ==
  /\ running = None
  /\ status[p] = "ready"
  /\ running' = p
  /\ UNCHANGED <<mem, lock, lockEvent, lrAddr, counter, loaded, scOk, status>>

-----------------------------------------------------------------------------
RunStep(h) ==
  \/ \E a \in Addrs : LoadReserved(h, a)
  \/ \E a \in Addrs, v \in Values : StoreConditional(h, a, v)
  \/ \E a \in Addrs, v \in Values : Store(h, a, v)
  \/ \E a \in Addrs, v \in Values : Amo(h, a, v)
  \/ Plain(h)
  \/ Fault(h)
  \/ WaitForInterrupt(h)
  \/ \E kind \in {"loading", "storing", "conditional"} : AccessPeripheral(h, kind)
  \/ \E kind \in {"reserving", "swapping"} : LockPeripheral(h, kind)
  \/ WaitUntilUnlocked(h)
  \/ Halt(h)

MasterStep(m) ==
  \/ \E a \in Addrs, v \in Values : MasterWrite(m, a, v)
  \/ MasterRead(m)
  \/ WaitUntilUnlocked(m)

Environment(h) == Interrupt(h) \/ PeripheralAnswers(h) \/ Resume(h)

Next ==
  \/ \E h \in Harts : RunStep(h) \/ Environment(h)
  \/ \E m \in Masters : MasterStep(m)
  \/ LockEventFires
  \/ \E p \in Threads : Dispatch(p)

Spec == Init /\ [][Next]_vars

\* The kernel runs every runnable thread, delivers every notification, and every
\* thread it runs proceeds; peripherals answer.  Delta cycles and timed waits
\* interleave with other threads, hence strong fairness.  A quantum is finite: a
\* hart that could synchronise again and again (need_sync() stays true until it
\* does) gives the processor away in the end.
Yields(h) == RunStep(h) /\ running' = None

Fairness ==
  /\ \A h \in Harts :
       WF_vars(RunStep(h)) /\ SF_vars(Yields(h)) /\ SF_vars(PeripheralAnswers(h))
  /\ \A m \in Masters : WF_vars(MasterStep(m))
  /\ SF_vars(LockEventFires)
  /\ \A p \in Threads : SF_vars(Dispatch(p))

FairSpec == Spec /\ Fairness
-----------------------------------------------------------------------------
(***************************************************************************)
(* Properties.                                                             *)
(***************************************************************************)
TypeOK ==
  /\ mem \in [Addrs -> Values]
  /\ lock \in Harts \cup {None}
  /\ lockEvent \in BOOLEAN
  /\ lrAddr \in [Harts -> Addrs \cup {None}]
  /\ counter \in [Harts -> 0..Window]
  /\ loaded \in [Harts -> Values]
  /\ scOk \in [Harts -> BOOLEAN]
  /\ status \in [Threads -> Statuses]
  /\ running \in Threads \cup {None}

\* The word of memory that a hart has reserved: an AMO owns the lock for itself.
Reserved(h) == IF lock = h /\ status[h] # "swapping" THEN lrAddr[h] ELSE None

\* While a hart holds the bus lock, the word it reserved still has the value its
\* LR.W returned, whatever the other hart, a device or an AMO did in between:
\* what makes the SC.W of sem_wait and sem_post an atomic read-modify-write.
ReservationIntact ==
  \A h \in Harts : Reserved(h) # None => mem[Reserved(h)] = loaded[h]

\* The lock is never held outside an open load-reserved window, so the window's
\* countdown is sure to release it (performance_and_sync_update), except by an LR.W or
\* AMO that waits for a peripheral.
HeldOnlyInWindow ==
  \A h \in Harts :
    lock = h => counter[h] \in 1 .. Window - 1 \/ status[h] \in {"reserving", "swapping"}

\* No thread ever runs against a locked bus, unless the owner sits in the
\* transport of a waiting peripheral or the debugger stopped it: not
\* synchronising while lr_sc_counter # 0 makes LR/SC sequences indivisible.
LockHidden ==
  (lock # None /\ running # lock) => (Debug \/ status[lock] \in Accesses)

\* A thread that waits for lock_event has an owner or a pending notification to
\* wait for, and never waits for itself: no wake-up is lost.
NoLostWakeup ==
  \A p \in Threads :
    status[p] = "blocked" => (lockEvent \/ lock \notin {None, p})

\* The thread the kernel executes is not one that waits, and a hart that waits
\* for an interrupt has let go of the bus.
SchedulerInv ==
  /\ running # None => status[running] = "ready"
  /\ lock # None => status[lock] \notin {"wfi", "blocked"}

\* LR.W, SC.W, AMOs, stores and device writes implement the reservations of the
\* "A" extension: a successful SC.W means no write to the word since the LR.W.
Atomic == INSTANCE AtomicMemory WITH
  NoAddr <- None,
  reserved <- [h \in Harts |-> Reserved(h)]

AtomicSpec == Atomic!Spec

\* Without a debugger, every single wait for the lock ends: the owner's window closes
\* after Window instructions whatever the program does.  A thread that finds the bus
\* locked again by then waits once more.
LockWaitEnds ==
  \A p \in Threads : (status[p] = "blocked") ~> (status[p] # "blocked")
=============================================================================
