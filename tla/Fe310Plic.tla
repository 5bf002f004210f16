------------------------------- MODULE Fe310Plic -------------------------------
(***************************************************************************)
(* The FE310 PLIC (platform/common/fe310_plic.h), the devices that trigger *)
(* it, and harts that handle its interrupts: the path of an interrupt from *)
(* gateway_trigger_interrupt over the event e_run, the pin of the hart and *)
(* the trap to the claim and the completion.                               *)
(*                                                                         *)
(* The repository has no program that uses the PLIC; the handlers follow   *)
(* the protocol of its registers: claim, complete, mret, once per trap or, *)
(* with HandlerLoops, until a claim returns 0.  The 10 ns that e_run is    *)
(* delayed are not counted: anything may happen before it fires.           *)
(***************************************************************************)
EXTENDS HartTraps

CONSTANTS
  NumHarts,      \* NumberCores
  NumInterrupts, \* one more than the largest interrupt id
  WordBits,      \* interrupts per register word (32)
  MaxPriority,
  Thresholds,    \* values that software stores to a threshold: no store is limited
  Handling,      \* harts that set mie.meie and handle external interrupts
  HandlerLoops   \* handlers claim again after a completion

ASSUME PlicAssumption ==
  /\ NumHarts \in {1, 2}         \* what the platforms instantiate
  /\ NumInterrupts \in Nat \ {0}
  /\ WordBits \in Nat \ {0}
  /\ MaxPriority \in Nat \ {0}
  /\ Thresholds \subseteq Nat
  /\ Handling \subseteq 0 .. NumHarts - 1
  /\ HandlerLoops \in BOOLEAN

VARIABLES
  pending,      \* pending_interrupts
  priority,     \* interrupt_priorities
  enable,       \* hart_enabled_interrupts, word by word
  threshold,    \* hart_config[h].priority_threshold
  claimResponse,\* hart_config[h].claim_response
  eip,          \* hart_eip
  runNotified,  \* whether a notification of e_run is pending
  hart,         \* the harts' pins and trap state
  pc,           \* what each hart executes
  abort,        \* the assertion that has stopped the simulation
  touched       \* auxiliary: registers were written since the pin was last sampled

regVars  == <<priority, enable, threshold>>
plicVars == <<pending, claimResponse, eip, runNotified>>
vars == <<regVars, plicVars, hart, pc, abort, touched>>

Harts == 0 .. NumHarts - 1
Irqs == 1 .. NumInterrupts - 1
Words == 0 .. NumHarts - 1 + (NumInterrupts - 1) \div WordBits
Bits == 0 .. WordBits - 1

PCs == {"main", "claim", "complete", "mret"}

-----------------------------------------------------------------------------
(***************************************************************************)
(* Selection.                                                              *)
(***************************************************************************)
\* Rows of the two-dimensional register view are one word long, so the words of
\* neighbouring harts overlap.
Enabled(h, i) == (i % WordBits) \in enable[h + i \div WordBits]

Candidates(h, considerThreshold) ==
  {i \in Irqs : /\ i \in pending /\ Enabled(h, i)
                /\ priority[i] > 0
                /\ considerThreshold => priority[i] > threshold[h]}

\* Faulty: the smallest id, whatever its priority.
LowestId(h, considerThreshold) ==
  LET C == Candidates(h, considerThreshold)
  IN  IF C = {} THEN 0 ELSE CHOOSE i \in C : \A j \in C : i <= j

\* hart_get_next_pending_interrupt: the first of those with the highest priority.
NextPending(h, considerThreshold) ==
  LET C == Candidates(h, considerThreshold)
  IN  IF C = {} THEN 0
      ELSE CHOOSE i \in C :
             \A j \in C : priority[j] < priority[i] \/ (priority[j] = priority[i] /\ i <= j)

\* hart_has_pending_enabled_interrupts.
HasPending(h) == Candidates(h, TRUE) # {}

Init ==
  /\ pending = {}
  /\ priority = [i \in Irqs |-> 1]
  /\ enable = [w \in Words |-> {}]
  /\ threshold = [h \in Harts |-> 0]
  /\ claimResponse = [h \in Harts |-> 0]
  /\ eip = [h \in Harts |-> FALSE]
  /\ runNotified = FALSE
  /\ hart = [h \in Harts |-> ResetHart(IF h \in Handling THEN {"external"} ELSE {})]
  /\ pc = [h \in Harts |-> "main"]
  /\ abort = "none"
  /\ touched = [h \in Harts |-> FALSE]

-----------------------------------------------------------------------------
(***************************************************************************)
(* Devices and the PLIC's own thread.                                      *)
(***************************************************************************)
\* Faulty: an interrupt that is pending already does not run the PLIC again, nor
\* does one that arrives while another is.
TriggerWhenIdle(i) ==
  /\ abort = "none"
  /\ pending' = pending \cup {i}
  /\ runNotified' = (runNotified \/ pending = {})
  /\ UNCHANGED <<regVars, claimResponse, eip, hart, pc, abort, touched>>

\* gateway_trigger_interrupt of a device.
GatewayTrigger(i) ==
  /\ abort = "none"
  /\ pending' = pending \cup {i}
  /\ runNotified' = TRUE
  /\ UNCHANGED <<regVars, claimResponse, eip, hart, pc, abort, touched>>

\* Faulty: the pin is raised without a notification.
RunSilently ==
  /\ abort = "none" /\ runNotified
  /\ runNotified' = FALSE
  /\ LET raised == {h \in Harts : ~eip[h] /\ HasPending(h)}
     IN  /\ eip' = [h \in Harts |-> eip[h] \/ h \in raised]
         /\ hart' = [h \in Harts |-> IF h \in raised
                                     THEN SilentPin(hart[h], "external", TRUE) ELSE hart[h]]
  /\ UNCHANGED <<regVars, pending, claimResponse, pc, abort, touched>>

\* run: e_run has fired.
Run ==
  /\ abort = "none" /\ runNotified
  /\ runNotified' = FALSE
  /\ LET raised == {h \in Harts : ~eip[h] /\ HasPending(h)}
     IN  /\ eip' = [h \in Harts |-> eip[h] \/ h \in raised]
         /\ hart' = [h \in Harts |-> IF h \in raised
                                     THEN TriggerPin(hart[h], "external", TRUE) ELSE hart[h]]
  /\ UNCHANGED <<regVars, pending, claimResponse, pc, abort, touched>>

-----------------------------------------------------------------------------
(***************************************************************************)
(* The harts.  Every step is one run_step: an instruction, then the check  *)
(* for interrupts that may turn it into a trap.                            *)
(***************************************************************************)
Retire(h, harts, next) ==
  LET trap == PendingInterrupts(harts[h]) # {}
  IN  /\ hart' = IF trap THEN [harts EXCEPT ![h] = EnterTrap(@)] ELSE harts
      /\ pc' = [pc EXCEPT ![h] = IF trap THEN "claim" ELSE next]

Runs(h, at) == abort = "none" /\ ~hart[h].waiting /\ pc[h] = at

\* An instruction without effect on interrupts.
Compute(h) ==
  /\ Runs(h, "main")
  /\ Retire(h, hart, "main")
  /\ UNCHANGED <<regVars, plicVars, abort, touched>>

\* WFI waits unless an interrupt is pending and enabled.
Wfi(h) ==
  /\ Runs(h, "main")
  /\ IF LocalPending(hart[h]) = {}
     THEN /\ \E stale \in BOOLEAN : hart' = [hart EXCEPT ![h] = StartsWaiting(@, stale)]
          /\ UNCHANGED pc
     ELSE Retire(h, hart, "main")
  /\ UNCHANGED <<regVars, plicVars, abort, touched>>

\* wfi_event: the rest of the run_step that waited.
Wake(h) ==
  /\ abort = "none" /\ hart[h].waiting /\ hart[h].notified
  /\ Retire(h, [hart EXCEPT ![h] = Woken(@)], "main")
  /\ UNCHANGED <<regVars, plicVars, abort, touched>>

\* Faulty: any priority is kept.
Unlimited(v) == v

\* post_write_interrupt_priorities limits what was written.
Clamped(v) == IF v < MaxPriority THEN v ELSE MaxPriority

\* The enable words of a hart's row.
Row(h) == h .. h + (NumInterrupts - 1) \div WordBits

\* A hart that handles interrupts stores to its enables, a priority or its threshold.
\* None of these stores runs the PLIC.
Configure(h) ==
  /\ Runs(h, "main") /\ h \in Handling
  /\ \/ /\ \E w \in Row(h), bits \in SUBSET Bits : enable' = [enable EXCEPT ![w] = bits]
        /\ UNCHANGED <<priority, threshold>>
     \/ /\ \E i \in Irqs, v \in 0 .. MaxPriority + 1 :
             priority' = [priority EXCEPT ![i] = Clamped(v)]
        /\ UNCHANGED <<enable, threshold>>
     \/ /\ \E v \in Thresholds : threshold' = [threshold EXCEPT ![h] = v]
        /\ UNCHANGED <<enable, priority>>
  /\ touched' = eip
  /\ Retire(h, hart, "main")
  /\ UNCHANGED <<plicVars, abort>>

\* The entry of hart_config that the callbacks use for the claim register of hart h:
\* the index of the register pair, not that of the hart.
ConfigIndex(h) == 2 * h

\* Faulty: the claim leaves the interrupt pending.
ClaimKeepsPending(h) ==
  /\ Runs(h, "claim")
  /\ IF ConfigIndex(h) \notin Harts
     THEN /\ abort' = "index"
          /\ UNCHANGED <<pending, claimResponse, hart, pc>>
     ELSE LET id == NextPending(0, FALSE)
          IN  /\ claimResponse' = [claimResponse EXCEPT ![ConfigIndex(h)] = id]
              /\ Retire(h, hart, IF HandlerLoops /\ claimResponse'[h] = 0
                                 THEN "mret" ELSE "complete")
              /\ UNCHANGED <<pending, abort>>
  /\ UNCHANGED <<regVars, eip, runNotified, touched>>

\* Load of the claim register: pre_read_hart_config looks at the enables of hart 0 and
\* at no threshold; the assertion of ArrayView stops an index out of range.
Claim(h) ==
  /\ Runs(h, "claim")
  /\ IF ConfigIndex(h) \notin Harts
     THEN /\ abort' = "index"
          /\ UNCHANGED <<pending, claimResponse, hart, pc>>
     ELSE LET id == NextPending(0, FALSE)
          IN  /\ claimResponse' = [claimResponse EXCEPT ![ConfigIndex(h)] = id]
              /\ pending' = pending \ {id}
              /\ Retire(h, hart, IF HandlerLoops /\ claimResponse'[h] = 0
                                 THEN "mret" ELSE "complete")
              /\ UNCHANGED abort
  /\ UNCHANGED <<regVars, eip, runNotified, touched>>

\* Faulty: a completion always lowers the pin.
CompleteClears(h) ==
  /\ Runs(h, "complete")
  /\ LET k == ConfigIndex(h)
     IN  /\ eip' = [eip EXCEPT ![k] = FALSE]
         /\ Retire(h, [hart EXCEPT ![k] = ClearPin(@, "external")],
                   IF HandlerLoops THEN "claim" ELSE "mret")
         /\ touched' = [touched EXCEPT ![k] = FALSE]
  /\ UNCHANGED <<regVars, pending, claimResponse, runNotified, abort>>

\* Store to the claim register: post_write_hart_config, with its assertion.  The value
\* written does not matter.
Complete(h) ==
  /\ Runs(h, "complete")
  /\ LET k    == ConfigIndex(h)
         more == HasPending(k)
     IN  IF more /\ ~eip[k]
         THEN abort' = "eip" /\ UNCHANGED <<eip, hart, pc, touched>>
         ELSE /\ eip' = [eip EXCEPT ![k] = more]
              /\ Retire(h, [hart EXCEPT ![k] = IF more THEN TriggerPin(@, "external", TRUE)
                                               ELSE ClearPin(@, "external")],
                        IF HandlerLoops THEN "claim" ELSE "mret")
              /\ touched' = [touched EXCEPT ![k] = FALSE]
              /\ UNCHANGED abort
  /\ UNCHANGED <<regVars, pending, claimResponse, runNotified>>

\* mret: a pin that is still up traps again at once.
MretStep(h) ==
  /\ Runs(h, "mret")
  /\ Retire(h, [hart EXCEPT ![h] = Mret(@)], "main")
  /\ UNCHANGED <<regVars, plicVars, abort, touched>>

HartStep(h) == Compute(h) \/ Wfi(h) \/ Wake(h) \/ Claim(h) \/ Complete(h) \/ MretStep(h)

Next ==
  \/ \E i \in Irqs : GatewayTrigger(i)
  \/ Run
  \/ \E h \in Harts : HartStep(h) \/ Configure(h)

Spec == Init /\ [][Next]_vars

\* The SystemC kernel delivers every notification and runs every runnable thread;
\* devices and stores to the configuration may happen or not.
FairSpec == Spec /\ WF_vars(Run) /\ \A h \in Harts : WF_vars(HartStep(h))

-----------------------------------------------------------------------------
TypeOK ==
  /\ pending \in SUBSET Irqs
  /\ priority \in [Irqs -> 0 .. MaxPriority]
  /\ enable \in [Words -> SUBSET Bits]
  /\ threshold \in [Harts -> Thresholds \cup {0}]
  /\ claimResponse \in [Harts -> Irqs \cup {0}]
  /\ eip \in [Harts -> BOOLEAN]
  /\ runNotified \in BOOLEAN
  /\ hart \in [Harts -> HartStates]
  /\ pc \in [Harts -> PCs]
  /\ abort \in {"none", "index", "eip"}
  /\ touched \in [Harts -> BOOLEAN]

\* assert(hart_eip[idx]) in post_write_hart_config: an interrupt that a completion
\* finds pending has raised the pin already.
CompletionAssert == abort # "eip"

\* hart_eip and the hart's own pending bit, which only the PLIC drives, agree.
PinsAgree == \A h \in Harts : eip[h] <=> "external" \in hart[h].mip

\* A hart never sleeps in WFI on an enabled interrupt that is pending: the event that
\* wakes it is on its way.
NoLostWakeup ==
  \A h \in Harts : hart[h].waiting /\ LocalPending(hart[h]) # {} => hart[h].notified

\* An enabled interrupt that nothing is going to deliver.
Stranded(h) == HasPending(h) /\ ~eip[h] /\ ~runNotified

\* Only a store to the configuration can strand an interrupt (it does not run the
\* PLIC): no order of triggers, runs, claims and completions does.
OnlyConfigurationStrands ==
  [][\A h \in Harts : ~Stranded(h) /\ Stranded(h)' => regVars' # regVars]_vars

\* A handler that was not disturbed by a store to the configuration claims an
\* interrupt above the hart's threshold, although a claim ignores the threshold.
ClaimsAboveThreshold ==
  \A h \in Harts :
    pc[h] = "claim" /\ ConfigIndex(h) = h /\ ~touched[h] /\ ~HandlerLoops
      => LET id == NextPending(h, FALSE) IN id # 0 /\ priority[id] > threshold[h]

\* An interrupt that hart h should get now: no other that it enables goes before it.
Deliverable(h, i) ==
  /\ i \in Candidates(h, TRUE)
  /\ \A j \in Irqs : Enabled(h, j)
       => priority[j] < priority[i] \/ (priority[j] = priority[i] /\ i <= j)

\* Unless it is stranded, such an interrupt is claimed, or the configuration is changed
\* so that it is not the hart's foremost any more.
ForemostServed ==
  \A h \in Harts, i \in Irqs :
    Deliverable(h, i) /\ ~Stranded(h) /\ ConfigIndex(h) = h ~> ~Deliverable(h, i)
=============================================================================
