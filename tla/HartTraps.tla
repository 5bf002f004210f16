------------------------------- MODULE HartTraps -------------------------------
(***************************************************************************)
(* The interrupt side of one hart of the rv32 ISS (core/rv32/iss.cpp) as   *)
(* operators on a record: the pins the CLINT and the PLIC drive, the       *)
(* selection at the end of run_step, trap entry, mret and WFI.  Clint and  *)
(* Fe310Plic apply them to the harts they drive.                           *)
(*                                                                         *)
(* The harts run in machine mode, as the programs of the repository do:    *)
(* mideleg stays 0 and mpp is always machine mode between trap and mret.   *)
(***************************************************************************)
EXTENDS Integers

\* The bits of mip and mie that these interrupt sources use.
Causes == {"external", "software", "timer"}

\* A hart: mstatus.mie and mpie, the mie and mip registers, whether the thread is
\* in wait(wfi_event), and whether wfi_event has a delta notification pending.
HartStates ==
  [enabled : BOOLEAN, previous : BOOLEAN, mie : SUBSET Causes, mip : SUBSET Causes,
   waiting : BOOLEAN, notified : BOOLEAN]

\* has_local_pending_enabled_interrupts: this one ignores mstatus.mie.
LocalPending(hart) == hart.mie \cap hart.mip

\* compute_pending_interrupts.
PendingInterrupts(hart) == IF hart.enabled THEN LocalPending(hart) ELSE {}

\* switch_to_trap_handler.
EnterTrap(hart) == [hart EXCEPT !.previous = hart.enabled, !.enabled = FALSE]

\* return_from_trap_handler.
Mret(hart) == [hart EXCEPT !.enabled = hart.previous, !.previous = TRUE]

\* Faulty: a pin that is driven does not notify wfi_event.
SilentPin(hart, cause, status) ==
  [hart EXCEPT !.mip = IF status THEN @ \cup {cause} ELSE @ \ {cause}]

\* trigger_external_interrupt, trigger_timer_interrupt, trigger_software_interrupt.
TriggerPin(hart, cause, status) ==
  [hart EXCEPT !.mip = IF status THEN @ \cup {cause} ELSE @ \ {cause},
               !.notified = TRUE]

\* Faulty: the pending bit stays.
KeepPin(hart, cause) == hart

\* clear_external_interrupt: no notification.
ClearPin(hart, cause) == [hart EXCEPT !.mip = @ \ {cause}]

\* WFI up to its wait.  A notification of the same delta cycle still wakes the
\* hart, an older one is over.
StartsWaiting(hart, stale) == [hart EXCEPT !.waiting = TRUE, !.notified = @ /\ ~stale]

\* wfi_event wakes the thread.
Woken(hart) == [hart EXCEPT !.waiting = FALSE, !.notified = FALSE]

\* The hart when its start-up code has set mstatus.mie and these bits of mie.
ResetHart(mie) ==
  [enabled |-> TRUE, previous |-> FALSE, mie |-> mie, mip |-> {},
   waiting |-> FALSE, notified |-> FALSE]
=============================================================================
