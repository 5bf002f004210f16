---------------------------- MODULE LrScBusProofs ----------------------------
(***************************************************************************)
(* Proofs about LrScBus for any harts, masters, memory and window.         *)
(***************************************************************************)
EXTENDS LrScBus, TLAPS

\* The inductive invariant: ReservationIntact needs to know who may write, which
\* is what LockHidden and SchedulerInv say, and those need the open window.
IInv ==
  /\ TypeOK
  /\ ReservationIntact
  /\ HeldOnlyInWindow
  /\ LockHidden
  /\ NoLostWakeup
  /\ SchedulerInv

\* What the end of run_step does to the lock, its event, the counter and the
\* scheduler.
LEMMA RetireEffect ==
  ASSUME TypeOK, NEW h \in Harts, NEW c \in 0..Window,
         NEW had \in BOOLEAN, NEW has \in BOOLEAN, Retire(h, c, had, has)
  PROVE  /\ counter' \in [Harts -> 0..Window]
         /\ \A g \in Harts : g # h => counter'[g] = counter[g]
         /\ \/ lock' = h /\ has /\ (c = 0 \/ counter'[h] \in 1 .. Window - 1)
            \/ lock = h /\ lock' = None
            \/ lock # h /\ lock' = lock
         /\ lockEvent' \in BOOLEAN
         /\ lockEvent => lockEvent'
         /\ had /\ lock' # h => lockEvent'
         /\ running' \in {h, None}
         /\ running' = None => counter'[h] = 0
<1> USE WindowAssumption, ThreadsAssumption
<1>1. PICK trap \in {FALSE, Trapping} :
        LET left == IF trap \/ c = 0 THEN 0 ELSE c - 1
            keep == has /\ ~trap /\ ~(c # 0 /\ left = 0)
        IN  /\ counter' = [counter EXCEPT ![h] = left]
            /\ lock' = IF keep THEN h ELSE IF lock = h THEN None ELSE lock
            /\ lockEvent' = (lockEvent \/ (had /\ ~keep))
            /\ running' \in (IF left = 0 THEN {h, None} ELSE {h})
  BY DEF Retire
<1> DEFINE left == IF trap \/ c = 0 THEN 0 ELSE c - 1
           keep == has /\ ~trap /\ ~(c # 0 /\ left = 0)
<1>2. left \in 0..Window /\ (c # 0 => left \in 0 .. Window - 1)
  OBVIOUS
<1>3. counter' = [counter EXCEPT ![h] = left] /\ counter \in [Harts -> 0..Window]
  BY <1>1 DEF TypeOK
<1>4. counter'[h] = left /\ \A g \in Harts : g # h => counter'[g] = counter[g]
  BY <1>3
<1>5. counter' \in [Harts -> 0..Window]
  BY <1>2, <1>3
<1>6. lock' = IF keep THEN h ELSE IF lock = h THEN None ELSE lock
  BY <1>1
<1>7. keep => has /\ (c = 0 \/ counter'[h] \in 1 .. Window - 1)
  BY <1>2, <1>4
<1>8. \/ lock' = h /\ has /\ (c = 0 \/ counter'[h] \in 1 .. Window - 1)
      \/ lock = h /\ lock' = None
      \/ lock # h /\ lock' = lock
  BY <1>6, <1>7
<1>9. lockEvent' = (lockEvent \/ (had /\ ~keep))
  BY <1>1
<1>10. lockEvent' \in BOOLEAN /\ (lockEvent => lockEvent') /\ (had /\ lock' # h => lockEvent')
  BY <1>6, <1>9 DEF TypeOK
<1>11. running' \in {h, None} /\ (running' = None => counter'[h] = 0)
  BY <1>1, <1>4
<1> QED
  BY <1>4, <1>5, <1>8, <1>10, <1>11

\* The parts of the invariant that do not speak of memory survive the end of any
\* instruction, provided a hart that still owns the lock has a window open.
LEMMA RetireKeeps ==
  ASSUME IInv, NEW h \in Harts, NEW c \in 0..Window,
         NEW had \in BOOLEAN, NEW has \in BOOLEAN, Retire(h, c, had, has),
         has => c # 0, lock = h => had, running \in {h, None},
         status' \in [Threads -> Statuses], status'[h] = "ready",
         \A p \in Threads : p # h => status'[p] = status[p]
  PROVE  HeldOnlyInWindow' /\ LockHidden' /\ NoLostWakeup' /\ SchedulerInv'
<1> USE WindowAssumption, ThreadsAssumption
<1>1. TypeOK BY DEF IInv
<1>2. /\ \A g \in Harts : g # h => counter'[g] = counter[g]
      /\ \/ lock' = h /\ has /\ (c = 0 \/ counter'[h] \in 1 .. Window - 1)
         \/ lock = h /\ lock' = None
         \/ lock # h /\ lock' = lock
      /\ lockEvent => lockEvent'
      /\ had /\ lock' # h => lockEvent'
      /\ running' \in {h, None}
      /\ running' = None => counter'[h] = 0
  BY <1>1, RetireEffect
<1>3. h \in Threads /\ h # None
  BY DEF Threads
<1>4. HeldOnlyInWindow'
  BY <1>2, <1>3 DEF IInv, HeldOnlyInWindow, Threads
<1>5. LockHidden'
  <2> SUFFICES ASSUME lock' # None, running' # lock'
               PROVE  Debug \/ status'[lock'] \in Accesses
    BY DEF LockHidden
  <2>1. lock' # h
    BY <1>2, <1>3, <1>4 DEF HeldOnlyInWindow
  <2>2. lock' = lock /\ lock # h /\ lock \in Harts
    BY <1>1, <1>2, <2>1 DEF TypeOK
  <2>3. Debug \/ status[lock] \in Accesses
    BY <2>2, <1>3 DEF IInv, LockHidden
  <2>4. status'[lock'] = status[lock]
    BY <2>2 DEF Threads
  <2> QED BY <2>3, <2>4
<1>6. NoLostWakeup'
  <2> SUFFICES ASSUME NEW p \in Threads, status'[p] = "blocked"
               PROVE  lockEvent' \/ lock' \notin {None, p}
    BY DEF NoLostWakeup
  <2>1. p # h /\ status[p] = "blocked"
    OBVIOUS
  <2>2. lockEvent \/ lock \notin {None, p}
    BY <2>1 DEF IInv, NoLostWakeup
  <2>3. CASE lockEvent
    BY <2>3, <1>2
  <2>4. CASE lock \notin {None, p}
    BY <2>4, <2>1, <1>2, <1>3
  <2> QED BY <2>2, <2>3, <2>4
<1>7. SchedulerInv'
  <2>1. running' # None => status'[running'] = "ready"
    BY <1>2
  <2>2. lock' # None => status'[lock'] \notin {"wfi", "blocked"}
    <3>1. CASE lock' = h
      BY <3>1
    <3>2. CASE lock' # h /\ lock' # None
      <4>1. lock' = lock /\ lock \in Harts
        BY <3>2, <1>1, <1>2 DEF TypeOK
      <4>2. lock \in Threads
        BY <4>1 DEF Threads
      <4> QED BY <4>1, <4>2, <3>2 DEF IInv, SchedulerInv
    <3> QED BY <3>1, <3>2
  <2> QED BY <2>1, <2>2 DEF SchedulerInv
<1> QED BY <1>4, <1>5, <1>6, <1>7

-----------------------------------------------------------------------------
\* One lemma per kind of step.
LEMMA InitIInv == Init => IInv
<1> USE WindowAssumption, ThreadsAssumption
<1> SUFFICES ASSUME Init PROVE IInv OBVIOUS
<1>1. TypeOK
  <2>1. counter \in [Harts -> 0..Window] /\ scOk \in [Harts -> BOOLEAN]
    BY DEF Init
  <2>2. status \in [Threads -> Statuses]
    BY DEF Init, Statuses
  <2> QED BY <2>1, <2>2 DEF Init, TypeOK
<1>2. lock = None /\ None \notin Harts /\ running = None
  BY DEF Init
<1>3. \A p \in Threads : status[p] = "ready"
  BY DEF Init
<1> QED
  BY <1>1, <1>2, <1>3 DEF IInv, ReservationIntact, Reserved, HeldOnlyInWindow, LockHidden,
    NoLostWakeup, SchedulerInv

LEMMA LoadReservedIInv ==
  ASSUME IInv, NEW h \in Harts, NEW a \in Addrs, LoadReserved(h, a)
  PROVE  IInv'
<1> USE WindowAssumption, ThreadsAssumption
<1> DEFINE c == IF counter[h] = 0 THEN Window ELSE counter[h]
<1>1. TypeOK BY DEF IInv
<1>2. c \in 0..Window /\ c # 0
  BY <1>1 DEF TypeOK
<1>3. Retire(h, c, TRUE, TRUE)
  BY DEF LoadReserved
<1>4. running = h /\ h \in Threads /\ h # None /\ status[h] = "ready"
  BY DEF LoadReserved, IInv, SchedulerInv, Threads
<1> HIDE DEF c
<1>5. HeldOnlyInWindow' /\ LockHidden' /\ NoLostWakeup' /\ SchedulerInv'
  BY <1>1, <1>2, <1>3, <1>4, RetireKeeps DEF LoadReserved, TypeOK
<1>6. /\ counter' \in [Harts -> 0..Window]
      /\ lock' = h \/ lock' = None \/ (lock # h /\ lock' = lock)
      /\ lockEvent' \in BOOLEAN
      /\ running' \in {h, None}
  BY <1>1, <1>2, <1>3, RetireEffect
<1>7. TypeOK'
  BY <1>1, <1>4, <1>6 DEF LoadReserved, TypeOK
<1>8. ReservationIntact'
  <2> SUFFICES ASSUME NEW g \in Harts, Reserved(g)' # None
               PROVE  mem'[Reserved(g)'] = loaded'[g]
    BY DEF ReservationIntact
  <2>1. g = h /\ Reserved(g)' = lrAddr'[g]
    BY <1>6 DEF LoadReserved, Foreign, Reserved
  <2> QED BY <1>1, <2>1 DEF LoadReserved, TypeOK
<1> QED BY <1>5, <1>7, <1>8 DEF IInv

LEMMA StoreConditionalIInv ==
  ASSUME IInv, NEW h \in Harts, NEW a \in Addrs, NEW v \in Values,
         StoreConditional(h, a, v)
  PROVE  IInv'
<1> USE WindowAssumption, ThreadsAssumption
<1>1. TypeOK BY DEF IInv
<1>2. Retire(h, 0, lock = h, FALSE)
  BY DEF StoreConditional
<1>3. running = h /\ h \in Threads /\ h # None /\ status[h] = "ready"
  BY DEF StoreConditional, IInv, SchedulerInv, Threads
<1>4. 0 \in 0..Window /\ (lock = h) \in BOOLEAN
  OBVIOUS
<1>5. HeldOnlyInWindow' /\ LockHidden' /\ NoLostWakeup' /\ SchedulerInv'
  BY <1>1, <1>2, <1>3, <1>4, RetireKeeps DEF StoreConditional, TypeOK
<1>6. /\ counter' \in [Harts -> 0..Window]
      /\ (lock = h /\ lock' = None) \/ (lock # h /\ lock' = lock)
      /\ lockEvent' \in BOOLEAN
      /\ running' \in {h, None}
  BY <1>1, <1>2, <1>4, RetireEffect
<1>7. TypeOK'
  BY <1>1, <1>3, <1>6 DEF StoreConditional, TypeOK, Succeeds
<1>8. ReservationIntact'
  BY <1>1, <1>3, <1>6 DEF StoreConditional, Succeeds, IInv, ReservationIntact, Reserved,
     TypeOK
<1> QED BY <1>5, <1>7, <1>8 DEF IInv

\* A store and an AMO end the hart's own window and run on a bus nobody else owns.
LEMMA StoreIInv ==
  ASSUME IInv, NEW h \in Harts, NEW a \in Addrs, NEW v \in Values,
         Store(h, a, v) \/ Amo(h, a, v)
  PROVE  IInv'
<1> USE WindowAssumption, ThreadsAssumption
<1>1. TypeOK BY DEF IInv
<1>2. PICK had \in BOOLEAN : Retire(h, counter[h], had, FALSE) /\ (lock = h => had)
  BY DEF Store, Amo
<1>3. running = h /\ h \in Threads /\ h # None /\ status[h] = "ready"
  BY DEF Store, Amo, IInv, SchedulerInv, Threads
<1>4. counter[h] \in 0..Window /\ lock \in {None, h}
  BY <1>1 DEF TypeOK, Store, Amo, Foreign
<1>5. HeldOnlyInWindow' /\ LockHidden' /\ NoLostWakeup' /\ SchedulerInv'
  BY <1>1, <1>2, <1>3, <1>4, RetireKeeps DEF Store, Amo, TypeOK
<1>6. /\ counter' \in [Harts -> 0..Window]
      /\ lock' = None
      /\ lockEvent' \in BOOLEAN
      /\ running' \in {h, None}
  BY <1>1, <1>2, <1>4, RetireEffect
<1>7. TypeOK'
  <2>1. mem' = [mem EXCEPT ![a] = v] /\ UNCHANGED <<lrAddr, loaded, scOk, status>>
    BY DEF Store, Amo
  <2>2. mem' \in [Addrs -> Values]
    BY <1>1, <2>1 DEF TypeOK
  <2> QED BY <1>1, <1>3, <1>6, <2>1, <2>2 DEF TypeOK
<1>8. ReservationIntact'
  BY <1>6 DEF ReservationIntact, Reserved
<1> QED BY <1>5, <1>7, <1>8 DEF IInv

\* The end of an instruction that stores nothing to memory keeps the lock only when the
\* hart had it already, for itself or with a window open.
LEMMA PlainRetires ==
  ASSUME IInv, NEW h \in Harts, Plain(h) \/ PeripheralAnswers(h)
  PROVE  \E c \in 0..Window, had \in BOOLEAN, has \in BOOLEAN :
           /\ Retire(h, c, had, has)
           /\ lock = h => had
           /\ has => lock = h /\ status[h] # "swapping" /\ c # 0
<1> USE WindowAssumption, ThreadsAssumption
<1>1. TypeOK /\ counter[h] \in 0..Window BY DEF IInv, TypeOK
<1>2. lock = h /\ status[h] \notin {"reserving", "swapping"} => counter[h] # 0
  BY DEF IInv, HeldOnlyInWindow
<1>3. CASE Plain(h)
  <2>1. status[h] = "ready"
    BY <1>3 DEF Plain, IInv, SchedulerInv
  <2> QED BY <1>1, <1>2, <1>3, <2>1 DEF Plain
<1>4. CASE PeripheralAnswers(h)
  <2> DEFINE c == CASE status[h] = "reserving" /\ counter[h] = 0 -> Window
                    [] status[h] = "conditional" -> 0
                    [] OTHER -> counter[h]
             has == lock = h /\ status[h] \in {"loading", "reserving"}
  <2>1. Retire(h, c, lock = h, has)
    BY <1>4 DEF PeripheralAnswers
  <2>2. status[h] \in Accesses
    BY <1>4 DEF PeripheralAnswers
  <2>3. CASE status[h] = "reserving"
    <3>1. c = IF counter[h] = 0 THEN Window ELSE counter[h]
      BY <2>3
    <3>2. c \in 0..Window /\ c # 0
      BY <1>1, <3>1
    <3> HIDE DEF c
    <3> QED BY <2>1, <2>3, <3>2
  <2>4. CASE status[h] = "conditional"
    <3>1. c = 0 /\ has = FALSE
      BY <2>4
    <3>2. Retire(h, 0, lock = h, FALSE)
      BY <2>1, <3>1
    <3>3. 0 \in 0..Window
      OBVIOUS
    <3> HIDE DEF c, has
    <3>4. \E had \in BOOLEAN : Retire(h, 0, had, FALSE) /\ (lock = h => had)
      BY <3>2, Zenon
    <3> QED BY <3>3, <3>4
  <2>5. CASE status[h] \in {"loading", "storing", "swapping"}
    <3>1. c = counter[h] /\ (has => lock = h /\ status[h] # "swapping")
      BY <2>5
    <3>2. has => counter[h] # 0
      BY <1>2, <2>5
    <3> HIDE DEF c
    <3> QED BY <1>1, <2>1, <3>1, <3>2
  <2> QED BY <2>2, <2>3, <2>4, <2>5 DEF Accesses
<1> QED BY <1>3, <1>4

LEMMA PlainIInv ==
  ASSUME IInv, NEW h \in Harts, Plain(h) \/ PeripheralAnswers(h)
  PROVE  IInv'
<1> USE WindowAssumption, ThreadsAssumption
<1>1. TypeOK BY DEF IInv
<1>2. h \in Threads /\ h # None /\ running \in {h, None}
  BY DEF Plain, PeripheralAnswers, Threads
<1>3. /\ status' \in [Threads -> Statuses]
      /\ status'[h] = "ready"
      /\ \A p \in Threads : p # h => status'[p] = status[p]
  BY <1>1, <1>2 DEF Plain, PeripheralAnswers, IInv, SchedulerInv, TypeOK, Statuses
<1>4. PICK c \in 0..Window, had \in BOOLEAN, has \in BOOLEAN :
        /\ Retire(h, c, had, has)
        /\ lock = h => had
        /\ has => lock = h /\ status[h] # "swapping" /\ c # 0
  BY PlainRetires
<1>5. HeldOnlyInWindow' /\ LockHidden' /\ NoLostWakeup' /\ SchedulerInv'
  BY <1>2, <1>3, <1>4, RetireKeeps
<1>6. /\ counter' \in [Harts -> 0..Window]
      /\ (lock' = h /\ has) \/ lock' = None \/ (lock # h /\ lock' = lock)
      /\ lockEvent' \in BOOLEAN
      /\ running' \in {h, None}
  BY <1>1, <1>4, RetireEffect
<1>7. UNCHANGED <<mem, lrAddr, loaded, scOk>>
  BY DEF Plain, PeripheralAnswers
<1>8. TypeOK'
  BY <1>1, <1>2, <1>3, <1>6, <1>7 DEF TypeOK
<1>9. \A g \in Harts : Reserved(g)' \in {Reserved(g), None}
  <2> SUFFICES ASSUME NEW g \in Harts, lock' = g, status'[g] # "swapping"
               PROVE  lrAddr'[g] = Reserved(g)
    BY DEF Reserved
  <2>1. CASE g = h
    BY <1>4, <1>6, <1>7, <2>1 DEF Reserved
  <2>2. CASE g # h
    <3>1. lock = g /\ status[g] # "swapping"
      BY <1>3, <1>6, <2>2 DEF Threads
    <3> QED BY <1>7, <3>1 DEF Reserved
  <2> QED BY <2>1, <2>2
<1>10. ReservationIntact'
  BY <1>7, <1>9 DEF IInv, ReservationIntact
<1> QED BY <1>5, <1>8, <1>10 DEF IInv

\* An instruction that faults half-way leaves the bus unlocked and h outside any window.
LEMMA FaultIInv ==
  ASSUME IInv, NEW h \in Harts, Fault(h)
  PROVE  IInv'
<1> USE WindowAssumption, ThreadsAssumption
<1> USE DEF IInv, TypeOK, Fault
<1>1. lock' = None /\ lockEvent' /\ running' \in {h, None} /\ UNCHANGED <<mem, loaded, status>>
  OBVIOUS
<1>2. lrAddr' \in [Harts -> Addrs \cup {None}] /\ scOk' \in [Harts -> BOOLEAN]
  OBVIOUS
<1>3. counter' \in [Harts -> 0..Window]
  OBVIOUS
<1>4. TypeOK'
  BY <1>1, <1>2, <1>3 DEF Threads
<1>5. ReservationIntact' /\ HeldOnlyInWindow' /\ LockHidden' /\ NoLostWakeup'
  BY <1>1 DEF ReservationIntact, Reserved, HeldOnlyInWindow, LockHidden, NoLostWakeup
<1>6. SchedulerInv'
  BY <1>1 DEF SchedulerInv
<1> QED BY <1>4, <1>5, <1>6

\* A hart that gives the processor away without the end of run_step.
LEMMA SuspendIInv ==
  ASSUME IInv, NEW h \in Harts,
         \/ WaitForInterrupt(h) \/ Halt(h)
         \/ \E kind \in {"loading", "storing", "conditional"} : AccessPeripheral(h, kind)
         \/ \E kind \in {"reserving", "swapping"} : LockPeripheral(h, kind)
  PROVE  IInv'
<1> USE WindowAssumption, ThreadsAssumption
<1> USE DEF IInv, TypeOK, ReservationIntact, Reserved, HeldOnlyInWindow, LockHidden,
            NoLostWakeup, SchedulerInv, Statuses, Accesses, Threads
<1>1. CASE WaitForInterrupt(h)
  <2> USE <1>1 DEF WaitForInterrupt
  <2>1. lock' \in Harts \cup {None} /\ lock' # h /\ (lock' # None => lock' = lock)
    OBVIOUS
  <2>2. TypeOK'
    BY <2>1
  <2>3. \A g \in Harts : g # h => counter'[g] = counter[g]
    OBVIOUS
  <2>4. ReservationIntact' /\ HeldOnlyInWindow'
    BY <2>1, <2>3
  <2>5. LockHidden'
    BY <2>1
  <2>6. NoLostWakeup'
    BY <2>1
  <2>7. SchedulerInv'
    BY <2>1
  <2> QED BY <2>2, <2>4, <2>5, <2>6, <2>7
<1>2. CASE Halt(h)
  BY <1>2 DEF Halt
<1>3. ASSUME NEW kind \in {"loading", "storing", "conditional"}, AccessPeripheral(h, kind)
      PROVE  IInv'
  BY <1>3 DEF AccessPeripheral, Foreign
<1>4. ASSUME NEW kind \in {"reserving", "swapping"}, LockPeripheral(h, kind)
      PROVE  IInv'
  BY <1>4 DEF LockPeripheral, Foreign
<1> QED BY <1>1, <1>2, <1>3, <1>4

\* The steps of the environment, of the bus masters and of the kernel.
LEMMA OtherIInv ==
  ASSUME IInv,
         \/ \E h \in Harts : Interrupt(h) \/ Resume(h)
         \/ \E p \in Threads : WaitUntilUnlocked(p) \/ Dispatch(p)
         \/ \E m \in Masters : MasterRead(m)
         \/ \E m \in Masters, a \in Addrs, v \in Values : MasterWrite(m, a, v)
         \/ LockEventFires
  PROVE  IInv'
<1> USE WindowAssumption, ThreadsAssumption
<1> USE DEF IInv, TypeOK, ReservationIntact, Reserved, HeldOnlyInWindow, LockHidden,
            NoLostWakeup, SchedulerInv, Statuses, Accesses, Threads
<1>1. ASSUME NEW h \in Harts, Interrupt(h) PROVE IInv'
  BY <1>1 DEF Interrupt
<1>2. ASSUME NEW h \in Harts, Resume(h) PROVE IInv'
  BY <1>2 DEF Resume
<1>3. ASSUME NEW p \in Threads, WaitUntilUnlocked(p) PROVE IInv'
  BY <1>3 DEF WaitUntilUnlocked, Foreign
<1>4. ASSUME NEW p \in Threads, Dispatch(p) PROVE IInv'
  BY <1>4 DEF Dispatch
<1>5. ASSUME NEW m \in Masters, MasterRead(m) PROVE IInv'
  BY <1>5 DEF MasterRead
<1>6. ASSUME NEW m \in Masters, NEW a \in Addrs, NEW v \in Values, MasterWrite(m, a, v)
      PROVE  IInv'
  BY <1>6 DEF MasterWrite
<1>7. ASSUME LockEventFires PROVE IInv'
  BY <1>7 DEF LockEventFires
<1> QED BY <1>1, <1>2, <1>3, <1>4, <1>5, <1>6, <1>7

-----------------------------------------------------------------------------
LEMMA StepIInv == IInv /\ [Next]_vars => IInv'
<1> SUFFICES ASSUME IInv, [Next]_vars PROVE IInv'
  OBVIOUS
<1>1. ASSUME NEW h \in Harts, RunStep(h) PROVE IInv'
  <2> h \in Threads
    BY DEF Threads
  <2> QED
    BY <1>1, LoadReservedIInv, StoreConditionalIInv, StoreIInv, PlainIInv, FaultIInv,
       SuspendIInv, OtherIInv DEF RunStep
<1>2. ASSUME NEW h \in Harts, Environment(h) PROVE IInv'
  BY <1>2, PlainIInv, OtherIInv DEF Environment
<1>3. ASSUME NEW m \in Masters, MasterStep(m) PROVE IInv'
  <2> m \in Threads
    BY DEF Threads
  <2> QED BY <1>3, OtherIInv DEF MasterStep
<1>4. CASE LockEventFires
  BY <1>4, OtherIInv
<1>5. ASSUME NEW p \in Threads, Dispatch(p) PROVE IInv'
  BY <1>5, OtherIInv
<1>6. CASE UNCHANGED vars
  BY <1>6 DEF vars, IInv, TypeOK, ReservationIntact, Reserved, HeldOnlyInWindow, LockHidden,
    NoLostWakeup, SchedulerInv
<1> QED BY <1>1, <1>2, <1>3, <1>4, <1>5, <1>6 DEF Next

LEMMA Invariance == Spec => []IInv
<1>1. QED BY InitIInv, StepIInv, PTL DEF Spec

\* The variables of the bus-lock model keep their types.
THEOREM TypeCorrect == Spec => []TypeOK
<1>1. IInv => TypeOK BY DEF IInv
<1> QED BY <1>1, Invariance, PTL

\* While a hart owns the bus lock, the word it reserved keeps the value its LR.W
\* returned: LR.W .. SC.W is an atomic read-modify-write (bus.h, mem.h).
THEOREM ReservationSafety == Spec => []ReservationIntact
<1>1. IInv => ReservationIntact BY DEF IInv
<1> QED BY <1>1, Invariance, PTL

\* The lock is held only while lr_sc_counter counts, for every window length.
THEOREM WindowSafety == Spec => []HeldOnlyInWindow
<1>1. IInv => HeldOnlyInWindow BY DEF IInv
<1> QED BY <1>1, Invariance, PTL

\* Without a debugger no thread runs against a lock whose owner is not inside a
\* peripheral's transport: "match SystemC sync with bus unlocking" (iss.cpp).
THEOREM LockIsHidden == Spec => []LockHidden
<1>1. IInv => LockHidden BY DEF IInv
<1> QED BY <1>1, Invariance, PTL

\* Whoever waits for lock_event will be notified: BusLock loses no wake-up.
THEOREM WakeupSafety == Spec => []NoLostWakeup
<1>1. IInv => NoLostWakeup BY DEF IInv
<1> QED BY <1>1, Invariance, PTL

\* The kernel runs no thread that waits, and a hart in WFI owns nothing.
THEOREM SchedulerSafety == Spec => []SchedulerInv
<1>1. IInv => SchedulerInv BY DEF IInv
<1> QED BY <1>1, Invariance, PTL

-----------------------------------------------------------------------------
(***************************************************************************)
(* The bus lock implements the reservations of AtomicMemory.               *)
(***************************************************************************)
Reservations == [h \in Harts |-> Reserved(h)]

LEMMA InitRefines == Init => Atomic!Init
<1> SUFFICES ASSUME Init PROVE Atomic!Init OBVIOUS
<1>1. \A h \in Harts : Reserved(h) = None
  BY ThreadsAssumption DEF Init, Reserved
<1> QED BY <1>1 DEF Init, Atomic!Init

\* Steps that leave the memory and both result registers alone and let at most
\* hart h lose its reservation are stutters or losses.
LEMMA LoseRefines ==
  ASSUME NEW h \in Harts, UNCHANGED <<mem, loaded, scOk>>,
         Reserved(h)' \in {Reserved(h), None},
         \A g \in Harts : g # h => Reserved(g)' = Reserved(g)
  PROVE  [Atomic!Next]_(Atomic!vars)
<1>1. CASE Reserved(h)' = Reserved(h)
  <2>1. Reservations' = Reservations
    BY <1>1 DEF Reservations
  <2> QED BY <2>1 DEF Atomic!vars, Reservations
<1>2. CASE Reserved(h)' = None
  <2>1. Reservations' = [Reservations EXCEPT ![h] = None]
    BY <1>2 DEF Reservations
  <2>2. Atomic!Lose(h)
    BY <2>1 DEF Atomic!Lose, Reservations
  <2> QED BY <2>2 DEF Atomic!Next
<1> QED BY <1>1, <1>2

\* A write on a bus that nobody else owns ends no reservation of somebody else.
LEMMA WriteRefines ==
  ASSUME IInv, NEW a \in Addrs, NEW v \in Values,
         mem' = [mem EXCEPT ![a] = v], UNCHANGED <<lrAddr, loaded, scOk>>, lock' = None
  PROVE  Atomic!Next
<1>1. Reservations' = [g \in Harts |-> None]
  BY ThreadsAssumption DEF Reservations, Reserved
<1>2. Reservations' = [g \in Harts |-> IF Reservations[g] = a \/ g \in Harts THEN None
                                       ELSE Reservations[g]]
  BY <1>1
<1>3. Atomic!Write(a, v)
  <2>1. Reservations' = Atomic!Surviving(a, Harts)
    BY <1>2 DEF Atomic!Surviving, Reservations
  <2> QED BY <2>1 DEF Atomic!Write, Reservations
<1> QED BY <1>3 DEF Atomic!Next

LEMMA LoadReservedRefines ==
  ASSUME IInv, NEW h \in Harts, NEW a \in Addrs, LoadReserved(h, a)
  PROVE  Atomic!Next
<1> USE WindowAssumption, ThreadsAssumption
<1> DEFINE c == IF counter[h] = 0 THEN Window ELSE counter[h]
<1>1. TypeOK /\ c \in 0..Window
  BY DEF IInv, TypeOK
<1>2. Retire(h, c, TRUE, TRUE)
  BY DEF LoadReserved
<1> HIDE DEF c
<1>3. lock \in {h, None} /\ lock' \in {h, None}
  BY <1>1, <1>2, RetireEffect DEF LoadReserved, Foreign
<1>4. /\ lrAddr' = [lrAddr EXCEPT ![h] = a] /\ lrAddr \in [Harts -> Addrs \cup {None}]
      /\ status' = status
  BY <1>1 DEF LoadReserved, TypeOK
<1> DEFINE r == IF lock' = h THEN a ELSE None
<1>5. Reservations' = [Reservations EXCEPT ![h] = r]
  <2>1. ASSUME NEW g \in Harts, g # h
        PROVE  Reserved(g)' = Reserved(g)
    BY <1>3, <2>1, ThreadsAssumption DEF Reserved
  <2>2. Reserved(h)' = r
    <3>1. status[h] = "ready"
      BY DEF LoadReserved, IInv, SchedulerInv
    <3> QED BY <1>4, <3>1 DEF Reserved
  <2> QED BY <2>1, <2>2 DEF Reservations
<1>6. Atomic!LoadReserved(h, a)
  <2>1. r \in {a, None}
    OBVIOUS
  <2>2. \E q \in {a, None} : Reservations' = [Reservations EXCEPT ![h] = q]
    BY <1>5, <2>1
  <2> QED BY <2>2 DEF Atomic!LoadReserved, LoadReserved, Reservations
<1> QED BY <1>6 DEF Atomic!Next

LEMMA StoreConditionalRefines ==
  ASSUME IInv, NEW h \in Harts, NEW a \in Addrs, NEW v \in Values,
         StoreConditional(h, a, v)
  PROVE  Atomic!Next
<1> USE WindowAssumption, ThreadsAssumption
<1>1. TypeOK BY DEF IInv
<1>2. Retire(h, 0, lock = h, FALSE)
  BY DEF StoreConditional
<1>3. (lock = h /\ lock' = None) \/ (lock # h /\ lock' = lock)
  <2>1. 0 \in 0..Window /\ (lock = h) \in BOOLEAN
    OBVIOUS
  <2> QED BY <1>1, <1>2, <2>1, RetireEffect
<1>4. lrAddr' = lrAddr /\ loaded' = loaded /\ status' = status
  BY DEF StoreConditional
<1> DEFINE lost == [Reservations EXCEPT ![h] = None]
<1>5. \A g \in Harts : Reserved(g)' = IF g = h THEN None ELSE Reserved(g)
  BY <1>3, <1>4 DEF Reserved
<1>6. Reservations' = lost
  BY <1>5 DEF Reservations
<1>7. CASE Succeeds(h, a)
  <2>1. Reserved(h) = a
    <3>1. status[h] = "ready"
      BY DEF StoreConditional, IInv, SchedulerInv
    <3> QED BY <1>7, <3>1 DEF Succeeds, Reserved
  <2>2. \A g \in Harts : g # h => Reserved(g) # a
    BY <1>7 DEF Succeeds, Reserved
  <2>3. Reservations' = [g \in Harts |-> IF Reservations[g] = a \/ g \in {h} THEN None
                                         ELSE Reservations[g]]
    BY <1>6, <2>1, <2>2 DEF Reservations
  <2>4. Reservations' = Atomic!Surviving(a, {h})
    BY <2>3 DEF Atomic!Surviving, Reservations
  <2>5. Atomic!ConditionalWrite(h, a, v)
    BY <1>4, <1>7, <2>1, <2>4 DEF Atomic!ConditionalWrite, StoreConditional, Reservations
  <2> QED BY <2>5 DEF Atomic!Next
<1>8. CASE ~Succeeds(h, a)
  <2>1. mem' = mem /\ scOk' = [scOk EXCEPT ![h] = FALSE]
    <3>1. Succeeds(h, a) = FALSE
      BY <1>8 DEF Succeeds
    <3>2. mem' = IF Succeeds(h, a) THEN [mem EXCEPT ![a] = v] ELSE mem
      BY DEF StoreConditional
    <3>3. scOk' = [scOk EXCEPT ![h] = Succeeds(h, a)]
      BY DEF StoreConditional
    <3> QED BY <3>1, <3>2, <3>3
  <2>2. Atomic!ConditionalFail(h)
    BY <1>4, <1>6, <2>1 DEF Atomic!ConditionalFail, Reservations
  <2> QED BY <2>2 DEF Atomic!Next
<1> QED BY <1>7, <1>8

LEMMA RunStepRefines ==
  ASSUME IInv, NEW h \in Harts, RunStep(h) \/ Environment(h)
  PROVE  [Atomic!Next]_(Atomic!vars)
<1> USE WindowAssumption, ThreadsAssumption
<1>1. TypeOK BY DEF IInv
<1>2. ASSUME NEW a \in Addrs, NEW v \in Values, Store(h, a, v) \/ Amo(h, a, v)
      PROVE  Atomic!Next
  <2>1. PICK had \in BOOLEAN : Retire(h, counter[h], had, FALSE)
    BY <1>2 DEF Store, Amo
  <2>2. counter[h] \in 0..Window /\ lock \in {None, h}
    BY <1>1, <1>2 DEF TypeOK, Store, Amo, Foreign
  <2>3. lock' = None
    BY <1>1, <2>1, <2>2, RetireEffect
  <2>4. mem' = [mem EXCEPT ![a] = v] /\ UNCHANGED <<lrAddr, loaded, scOk>>
    BY <1>2 DEF Store, Amo
  <2> QED BY <2>3, <2>4, WriteRefines
<1>3. ASSUME Plain(h) \/ PeripheralAnswers(h)
      PROVE  [Atomic!Next]_(Atomic!vars)
  <2>1. PICK c \in 0..Window, had \in BOOLEAN, has \in BOOLEAN :
          /\ Retire(h, c, had, has)
          /\ has => lock = h /\ status[h] # "swapping"
    BY <1>3, PlainRetires
  <2>2. (lock' = h /\ has) \/ (lock = h /\ lock' = None) \/ (lock # h /\ lock' = lock)
    BY <1>1, <2>1, RetireEffect
  <2>3. UNCHANGED <<mem, lrAddr, loaded, scOk>>
        /\ \A g \in Harts : g # h => status'[g] = status[g]
    BY <1>1, <1>3 DEF Plain, PeripheralAnswers, TypeOK, Threads
  <2>4. \A g \in Harts : g # h => Reserved(g)' = Reserved(g)
    BY <2>1, <2>2, <2>3 DEF Reserved
  <2>5. Reserved(h)' \in {Reserved(h), None}
    BY <2>1, <2>2, <2>3 DEF Reserved
  <2> QED BY <2>3, <2>4, <2>5, LoseRefines
<1>4. ASSUME \/ WaitForInterrupt(h) \/ WaitUntilUnlocked(h) \/ Halt(h)
             \/ Interrupt(h) \/ Resume(h)
             \/ \E kind \in {"loading", "storing", "conditional"} : AccessPeripheral(h, kind)
      PROVE  [Atomic!Next]_(Atomic!vars)
  <2>1. /\ UNCHANGED <<mem, lrAddr, loaded, scOk>>
        /\ (lock = h /\ lock' = None) \/ lock' = lock
        /\ \A g \in Harts : g # h => status'[g] = status[g]
    BY <1>1, <1>4 DEF WaitForInterrupt, WaitUntilUnlocked, Halt, Interrupt, Resume,
       AccessPeripheral, TypeOK, Threads
  <2>2. status[h] # "swapping" /\ status'[h] # "swapping"
    BY <1>1, <1>4 DEF WaitForInterrupt, WaitUntilUnlocked, Halt, Interrupt, Resume,
       AccessPeripheral, TypeOK, Threads, IInv, SchedulerInv
  <2>3. \A g \in Harts : g # h => Reserved(g)' = Reserved(g)
    BY <2>1, ThreadsAssumption DEF Reserved
  <2>4. Reserved(h)' \in {Reserved(h), None}
    BY <2>1, <2>2 DEF Reserved
  <2> QED BY <2>1, <2>3, <2>4, LoseRefines
<1>5. ASSUME NEW kind \in {"reserving", "swapping"}, LockPeripheral(h, kind)
      PROVE  [Atomic!Next]_(Atomic!vars)
  <2>1. /\ UNCHANGED <<mem, loaded, scOk>>
        /\ lock \in {None, h} /\ lock' = h
        /\ status'[h] = kind
        /\ kind = "reserving" => lrAddr'[h] = None
    BY <1>1, <1>5 DEF LockPeripheral, Foreign, TypeOK, Threads
  <2>2. Reserved(h)' = None
    BY <2>1 DEF Reserved
  <2>3. \A g \in Harts : g # h => Reserved(g)' = Reserved(g)
    BY <2>1 DEF Reserved
  <2> QED BY <2>1, <2>2, <2>3, LoseRefines
<1>6. ASSUME Fault(h)
      PROVE  [Atomic!Next]_(Atomic!vars)
  <2>1. lock \in {None, h} /\ lock' = None /\ UNCHANGED <<mem, loaded>>
    BY <1>6 DEF Fault, Foreign
  <2>2. Reservations' = [Reservations EXCEPT ![h] = None]
    BY <2>1, ThreadsAssumption DEF Reservations, Reserved
  <2>3. CASE UNCHANGED scOk
    <3>1. Atomic!Lose(h)
      BY <2>1, <2>2, <2>3 DEF Atomic!Lose, Reservations
    <3> QED BY <3>1 DEF Atomic!Next
  <2>4. CASE scOk' = [scOk EXCEPT ![h] = FALSE]
    <3>1. Atomic!ConditionalFail(h)
      BY <2>1, <2>2, <2>4 DEF Atomic!ConditionalFail, Reservations
    <3> QED BY <3>1 DEF Atomic!Next
  <2> QED BY <1>6, <2>3, <2>4 DEF Fault
<1> QED
  BY <1>2, <1>3, <1>4, <1>5, <1>6, LoadReservedRefines, StoreConditionalRefines
     DEF RunStep, Environment

LEMMA StepRefines == IInv /\ [Next]_vars => [Atomic!Next]_(Atomic!vars)
<1> SUFFICES ASSUME IInv, [Next]_vars PROVE [Atomic!Next]_(Atomic!vars)
  OBVIOUS
<1>1. ASSUME NEW m \in Masters, NEW a \in Addrs, NEW v \in Values, MasterWrite(m, a, v)
      PROVE  [Atomic!Next]_(Atomic!vars)
  BY <1>1, WriteRefines DEF MasterWrite
<1>2. ASSUME UNCHANGED <<mem, lock, lrAddr, loaded, scOk>>,
             \A h \in Harts : status'[h] = "swapping" <=> status[h] = "swapping"
      PROVE  [Atomic!Next]_(Atomic!vars)
  <2>1. \A h \in Harts : Reserved(h)' = Reserved(h)
    BY <1>2 DEF Reserved
  <2> QED BY <1>2, <2>1 DEF Atomic!vars
<1>3. ASSUME NEW m \in Masters, MasterStep(m)
      PROVE  [Atomic!Next]_(Atomic!vars)
  <2>1. CASE MasterRead(m)
    BY <1>2, <2>1 DEF MasterRead
  <2>2. CASE WaitUntilUnlocked(m)
    <3>1. \A h \in Harts : status'[h] = status[h]
      BY <2>2, ThreadsAssumption DEF WaitUntilUnlocked, IInv, TypeOK, Threads
    <3> QED BY <1>2, <2>2, <3>1 DEF WaitUntilUnlocked
  <2> QED BY <1>1, <1>3, <2>1, <2>2 DEF MasterStep
<1>4. CASE LockEventFires
  <2>1. \A h \in Harts : status'[h] = "swapping" <=> status[h] = "swapping"
    BY <1>4 DEF LockEventFires, Threads
  <2> QED BY <1>2, <1>4, <2>1 DEF LockEventFires
<1>5. ASSUME NEW p \in Threads, Dispatch(p)
      PROVE  [Atomic!Next]_(Atomic!vars)
  BY <1>2, <1>5 DEF Dispatch
<1>6. CASE UNCHANGED vars
  BY <1>2, <1>6 DEF vars
<1> QED BY <1>3, <1>4, <1>5, <1>6, RunStepRefines DEF Next

\* LR.W, SC.W, AMOs, stores and device writes through the bus lock behave as
\* reservations do: the bus lock implements AtomicMemory.
THEOREM Refinement == Spec => AtomicSpec
<1>1. Init => Atomic!Init
  BY InitRefines
<1>2. IInv /\ [Next]_vars => [Atomic!Next]_(Atomic!vars)
  BY StepRefines
<1> QED BY <1>1, <1>2, Invariance, PTL DEF Spec, AtomicSpec, Atomic!Spec
=============================================================================
