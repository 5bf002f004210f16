--------------------------------- MODULE Clint ---------------------------------
(***************************************************************************)
(* The CLINT (core/common/clint.h) and the harts it interrupts, in         *)
(* simulated time: mtime, the comparands, the one irq_event that all harts *)
(* share, software interrupts, and WFI.                                    *)
(*                                                                         *)
(* A hart runs ahead of the simulated time by local[h] until its quantum   *)
(* is used up and then sleeps until the time it has reached.  The CLINT    *)
(* sees that lead as the delay of an access.                               *)
(***************************************************************************)
EXTENDS HartTraps, FiniteSetsExt

CONSTANTS
  NumberOfCores,
  Scale,    \* ticks of simulated time per unit of mtime (scaler)
  Quantum,  \* the global quantum, in ticks
  Access,   \* ticks of an instruction before its access reaches the CLINT
  HalfSize, \* values of one 32-bit half of mtimecmp
  Goals,    \* comparands that the software writes
  MaxTime   \* bound of the simulated time

ASSUME ClintAssumption ==
  /\ NumberOfCores \in Nat \ {0} /\ Scale \in Nat \ {0} /\ Quantum \in Nat \ {0}
  /\ Access \in Nat /\ MaxTime \in Nat
  /\ HalfSize \in Nat \ {0, 1}
  /\ Goals \subseteq 0 .. HalfSize * HalfSize - 1

VARIABLES
  now,       \* sc_time_stamp
  mtime,
  mtimecmp,
  irqAt,     \* when the pending notification of irq_event fires, or Never
  hart,      \* pins and trap state
  local,     \* local time of the quantum keeper
  resume,    \* when the quantum keeper was last reset: the end of the last sync
  stage,     \* what the hart stores next: "idle", "high" or "low" half of mtimecmp
  goal,      \* the comparand the software wants
  old        \* the one that was there before it

vars == <<now, mtime, mtimecmp, irqAt, hart, local, resume, stage, goal, old>>
program == <<stage, goal, old>>

Harts == 0 .. NumberOfCores - 1
Never == -1

\* UINT64_MAX: the software's way to have no timer.  0 means the same.
MaxCmp == HalfSize * HalfSize - 1

\* sc_time and the products of run() are as wide as a comparand, 64 bits.
TimeSize == HalfSize * HalfSize

Init ==
  /\ now = 0 /\ mtime = 0 /\ irqAt = Never
  /\ mtimecmp = [h \in Harts |-> 0]
  /\ hart = [h \in Harts |-> ResetHart({"timer", "software"})]
  /\ local = [h \in Harts |-> 0] /\ resume = [h \in Harts |-> 0]
  /\ stage = [h \in Harts |-> "idle"]
  /\ goal = [h \in Harts |-> 0] /\ old = [h \in Harts |-> 0]

-----------------------------------------------------------------------------
(***************************************************************************)
(* The CLINT's own thread.                                                 *)
(***************************************************************************)
\* sc_event::notify: a pending notification is replaced only by an earlier one.
EarliestNotification(pendingAt, at) ==
  IF pendingAt = Never \/ at < pendingAt THEN at ELSE pendingAt

\* update_and_get_mtime never goes back.
UpdatedMtime == IF now \div Scale > mtime THEN now \div Scale ELSE mtime

Due(h, time) == mtimecmp[h] > 0 /\ time >= mtimecmp[h]

\* Harts for which run() has to look again: not due, and not without a timer.
Awaited(time) == {h \in Harts : ~Due(h, time) /\ mtimecmp[h] \in 1 .. MaxCmp - 1}

\* goal - time: for a large comparand the product wraps around, and run() looks too early.
Delay(h, time) == ((mtimecmp[h] - time) * Scale) % TimeSize

\* Faulty: the latest of the notifications remains.
LastLook(time) ==
  IF Awaited(time) = {} THEN Never
  ELSE now + Max({Delay(h, time) : h \in Awaited(time)})

\* The notifications of run(): of several, the earliest remains.  The kernel's own sum of
\* now and the delay is exact.
NextLook(time) ==
  IF Awaited(time) = {} THEN Never
  ELSE now + Min({Delay(h, time) : h \in Awaited(time)})

\* Faulty: the pin is never lowered.
RunOnlyRaises ==
  /\ irqAt = now
  /\ mtime' = UpdatedMtime
  /\ hart' = [h \in Harts |-> IF Due(h, mtime') THEN TriggerPin(hart[h], "timer", TRUE)
                              ELSE hart[h]]
  /\ irqAt' = NextLook(mtime')
  /\ UNCHANGED <<now, mtimecmp, local, resume, program>>

\* Faulty: the pin is driven without a notification.
RunSilently ==
  /\ irqAt = now
  /\ mtime' = UpdatedMtime
  /\ hart' = [h \in Harts |-> SilentPin(hart[h], "timer", Due(h, mtime'))]
  /\ irqAt' = NextLook(mtime')
  /\ UNCHANGED <<now, mtimecmp, local, resume, program>>

\* run: irq_event has fired.  It drives every hart's pin.
Run ==
  /\ irqAt = now
  /\ mtime' = UpdatedMtime
  /\ hart' = [h \in Harts |-> TriggerPin(hart[h], "timer", Due(h, mtime'))]
  /\ irqAt' = NextLook(mtime')
  /\ UNCHANGED <<now, mtimecmp, local, resume, program>>

-----------------------------------------------------------------------------
(***************************************************************************)
(* The harts.                                                              *)
(***************************************************************************)
Runs(h) == ~hart[h].waiting /\ resume[h] <= now

\* compute_local_quantum: the next multiple of the quantum after the last reset.
SyncPoint(h) == (resume[h] \div Quantum + 1) * Quantum

\* The end of run_step: an enabled pending interrupt traps, then
\* performance_and_sync_update adds the instruction's cycles (one tick) and waits when
\* the quantum is used up.
Retire(h, harts, access) ==
  /\ hart' = IF PendingInterrupts(harts[h]) # {} THEN [harts EXCEPT ![h] = EnterTrap(@)]
             ELSE harts
  /\ LET time == now + local[h] + access + 1
         sync == time >= SyncPoint(h)
     IN  /\ local' = [local EXCEPT ![h] = IF sync THEN 0 ELSE time - now]
         /\ resume' = [resume EXCEPT ![h] = IF sync THEN time ELSE @]

Compute(h) ==
  /\ Runs(h) /\ hart[h].enabled
  /\ Retire(h, hart, 0)
  /\ UNCHANGED <<now, mtime, mtimecmp, irqAt, program>>

\* Load of mtime: pre_read_mtime.
ReadMtime(h) ==
  /\ Runs(h)
  /\ mtime' = (now + local[h] + Access) \div Scale
  /\ Retire(h, hart, Access)
  /\ UNCHANGED <<now, mtimecmp, irqAt, program>>

\* csrr of time: update_and_get_mtime.
ReadTime(h) ==
  /\ Runs(h)
  /\ mtime' = UpdatedMtime
  /\ Retire(h, hart, 0)
  /\ UNCHANGED <<now, mtimecmp, irqAt, program>>

\* A store to mtimecmp: post_write_mtimecmp.
Store(h, value) ==
  /\ mtimecmp' = [mtimecmp EXCEPT ![h] = value]
  /\ irqAt' = EarliestNotification(irqAt, now + local[h] + Access)
  /\ Retire(h, hart, Access)
  /\ UNCHANGED <<now, mtime>>

\* Faulty: the whole value is stored to the high half.
WholeValue(value) == value

\* The high half of a comparand.
High(value) == value \div HalfSize

\* Faulty: the low half is stored first and then the high one.
NewLowFirst(h) ==
  /\ Runs(h) /\ stage[h] = "idle"
  /\ \E g \in Goals :
       /\ goal' = [goal EXCEPT ![h] = g]
       /\ Store(h, High(mtimecmp[h]) * HalfSize + (g % HalfSize))
  /\ stage' = [stage EXCEPT ![h] = "high"]
  /\ UNCHANGED old

\* The sequence that the note in clint.h gives the software: -1 to the low half, ...
StoreMinusOne(h) ==
  /\ Runs(h) /\ stage[h] = "idle"
  /\ \E g \in Goals : goal' = [goal EXCEPT ![h] = g]
  /\ Store(h, High(mtimecmp[h]) * HalfSize + HalfSize - 1)
  /\ stage' = [stage EXCEPT ![h] = "high"]
  /\ UNCHANGED old

\* ... the new high half, ...
StoreHigh(h) ==
  /\ Runs(h) /\ stage[h] = "high"
  /\ Store(h, High(goal[h]) * HalfSize + (mtimecmp[h] % HalfSize))
  /\ stage' = [stage EXCEPT ![h] = "low"]
  /\ UNCHANGED <<goal, old>>

\* ... and the new low half.
StoreLow(h) ==
  /\ Runs(h) /\ stage[h] = "low"
  /\ Store(h, goal[h])
  /\ stage' = [stage EXCEPT ![h] = "idle"]
  /\ old' = [old EXCEPT ![h] = goal[h]]
  /\ UNCHANGED goal

\* A store to msip: post_write_msip.  A hart interrupts others and takes back what was
\* sent to it.
WriteMsip(h, g) ==
  /\ Runs(h) /\ stage[h] = "idle"
  /\ Retire(h, [hart EXCEPT ![g] = TriggerPin(@, "software", g # h)], Access)
  /\ UNCHANGED <<now, mtime, mtimecmp, irqAt, program>>

\* WFI waits unless an interrupt is pending and enabled.
Wfi(h) ==
  /\ Runs(h) /\ stage[h] = "idle"
  /\ IF LocalPending(hart[h]) = {}
     THEN /\ \E stale \in BOOLEAN : hart' = [hart EXCEPT ![h] = StartsWaiting(@, stale)]
          /\ UNCHANGED <<local, resume>>
     ELSE Retire(h, hart, 0)
  /\ UNCHANGED <<now, mtime, mtimecmp, irqAt, program>>

\* wfi_event: the rest of the run_step that waited.
Wake(h) ==
  /\ hart[h].waiting /\ hart[h].notified
  /\ Retire(h, [hart EXCEPT ![h] = Woken(@)], 0)
  /\ UNCHANGED <<now, mtime, mtimecmp, irqAt, program>>

\* The handler returns.
MretStep(h) ==
  /\ Runs(h) /\ ~hart[h].enabled
  /\ Retire(h, [hart EXCEPT ![h] = Mret(@)], 0)
  /\ UNCHANGED <<now, mtime, mtimecmp, irqAt, program>>

HartStep(h) ==
  \/ Compute(h) \/ ReadMtime(h) \/ ReadTime(h)
  \/ StoreMinusOne(h) \/ StoreHigh(h) \/ StoreLow(h)
  \/ \E g \in Harts : WriteMsip(h, g)
  \/ Wfi(h) \/ Wake(h) \/ MretStep(h)

\* The kernel advances time when nothing is left to do now.  Delta notifications are
\* over by then.
Tick ==
  /\ now < MaxTime
  /\ irqAt # now
  /\ \A h \in Harts : IF hart[h].waiting THEN ~hart[h].notified ELSE resume[h] > now
  /\ now' = now + 1
  /\ hart' = [h \in Harts |-> [hart[h] EXCEPT !.notified = FALSE]]
  /\ UNCHANGED <<mtime, mtimecmp, irqAt, local, resume, program>>

Next == Run \/ Tick \/ \E h \in Harts : HartStep(h)

Spec == Init /\ [][Next]_vars

\* The kernel runs every runnable thread and delivers every notification.
FairSpec == Spec /\ WF_vars(Run) /\ WF_vars(Tick) /\ \A h \in Harts : WF_vars(HartStep(h))

-----------------------------------------------------------------------------
TypeOK ==
  /\ now \in Nat /\ mtime \in Nat /\ irqAt \in Nat \cup {Never}
  /\ mtimecmp \in [Harts -> 0 .. MaxCmp]
  /\ hart \in [Harts -> HartStates]
  /\ local \in [Harts -> Nat] /\ resume \in [Harts -> Nat]
  /\ stage \in [Harts -> {"idle", "high", "low"}]
  /\ goal \in [Harts -> Goals \cup {0}] /\ old \in [Harts -> Goals \cup {0}]

\* How far the delay of an access can be ahead of the simulated time.
Lead == Quantum - 1 + Access

TimerUp(h) == "timer" \in hart[h].mip

\* Although the harts share one event that keeps only its earliest notification, mtime
\* may have been set ahead by a hart and back by another, a comparand whose interrupt is
\* not up has a notification in time: before the first tick of mtime after it, or, when
\* it was just written, within the writer's lead.
NoTimerForgotten ==
  \A h \in Harts :
    mtimecmp[h] \in 1 .. MaxCmp - 1 /\ ~TimerUp(h)
      => /\ irqAt # Never
         /\ irqAt <= now + Lead \/ irqAt < (mtimecmp[h] + 1) * Scale

\* A timer interrupt that is up although the comparand has not been reached, or was
\* turned off, is about to be withdrawn.
NoStaleTimer ==
  \A h \in Harts :
    TimerUp(h) /\ (mtimecmp[h] = 0 \/ mtimecmp[h] * Scale > now + Lead)
      => irqAt # Never /\ irqAt <= now + Lead

\* When the timer may go off on the way to or from a comparand.  Without a timer, 0, the
\* three stores still pass through the largest value of the low half.
Earliest(comparand) == IF comparand = 0 THEN HalfSize - 1 ELSE comparand

\* The note on writing mtimecmp: while the software goes from one comparand to the next
\* in three stores, the timer does not go off before the smaller of the two; setting the
\* first timer, or turning one off with 0, raises it at most at the end of the low half.
NoSpuriousTimer ==
  [][\A h \in Harts :
       ~TimerUp(h) /\ TimerUp(h)' => mtime' >= Min({Earliest(old[h]), Earliest(goal[h])})]_vars

\* A hart that sleeps until its timer is woken.
SleeperWakes ==
  \A h \in Harts :
    hart[h].waiting /\ stage[h] = "idle" /\ mtimecmp[h] \in 1 .. (MaxTime - Lead) \div Scale - 1
      ~> ~hart[h].waiting
=============================================================================
