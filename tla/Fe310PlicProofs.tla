---------------------------- MODULE Fe310PlicProofs ----------------------------
(***************************************************************************)
(* Proofs about Fe310Plic for any number of interrupts, word size and      *)
(* priorities, on the platforms with one hart and with two.                *)
(***************************************************************************)
EXTENDS Fe310Plic, NaturalFacts

\* What the program counter says about the hart's trap state.
Modes ==
  \A h \in Harts :
    /\ hart[h].mie \subseteq {"external"}
    /\ pc[h] = "main" => hart[h].enabled
    /\ pc[h] # "main" => ~hart[h].enabled /\ hart[h].previous /\ ~hart[h].waiting

\* Only hart 0 gets past a claim, and between trap and completion its pin is up.
Handlers ==
  \A h \in Harts :
    /\ pc[h] \in {"complete", "mret"} => h = 0
    /\ pc[h] \in {"claim", "complete"} /\ ~HandlerLoops => eip[h]

\* While the pin is up and the configuration untouched there is something to claim,
\* except between a claim and its completion.
PinHasReason == eip[0] /\ ~touched[0] /\ pc[0] # "complete" => HasPending(0)

\* CompletionAssert rests on Handlers, which needs PinsAgree to know that a trap means
\* a raised pin; ClaimsAboveThreshold rests on PinHasReason.
IInv ==
  /\ TypeOK
  /\ PinsAgree
  /\ NoLostWakeup
  /\ Modes
  /\ Handlers
  /\ PinHasReason
  /\ (~HandlerLoops => CompletionAssert)

-----------------------------------------------------------------------------
(***************************************************************************)
(* Selection.                                                              *)
(***************************************************************************)
LEMMA HartsAre ==
  /\ 0 \in Harts
  /\ \A h \in Harts : h \in {0, 1} /\ (ConfigIndex(h) \in Harts <=> h = 0)
  /\ ConfigIndex(0) = 0
BY PlicAssumption DEF Harts, ConfigIndex

\* NextPending returns 0 when there is no candidate, and otherwise a candidate of the
\* highest priority.
LEMMA NextPendingIsBest ==
  ASSUME TypeOK, NEW h \in Harts, NEW c \in BOOLEAN
  PROVE  /\ Candidates(h, c) = {} => NextPending(h, c) = 0
         /\ Candidates(h, c) # {} =>
              /\ NextPending(h, c) \in Candidates(h, c)
              /\ \A j \in Candidates(h, c) : priority[j] <= priority[NextPending(h, c)]
<1> DEFINE C == Candidates(h, c)
<1>1. CASE C = {}
  BY <1>1 DEF NextPending
<1>2. CASE C # {}
  <2> DEFINE gaps == {MaxPriority - priority[i] : i \in C}
  <2>1. C \subseteq Irqs /\ Irqs \subseteq Nat /\ \A i \in C : priority[i] \in 0 .. MaxPriority
    BY PlicAssumption DEF TypeOK, Candidates, Irqs
  <2>2. gaps \in SUBSET Nat /\ gaps # {}
    BY <1>2, <2>1, PlicAssumption
  <2>3. PICK gap \in gaps : \A n \in gaps : gap <= n
    BY <2>2, LeastNat
  <2>4. PICK k \in C : gap = MaxPriority - priority[k]
    BY <2>3
  <2> HIDE DEF C
  <2>5. \A j \in C : priority[j] <= priority[k]
    <3> TAKE j \in C
    <3>1. gap <= MaxPriority - priority[j]
      BY <2>3
    <3> QED
      BY <3>1, <2>1, <2>4, PlicAssumption
  <2> DEFINE best == {i \in C : priority[i] = priority[k]}
  <2>6. best \in SUBSET Nat /\ best # {}
    BY <2>1, <2>4
  <2>7. PICK first \in best : \A n \in best : first <= n
    BY <2>6, LeastNat
  <2>8. \A j \in C : priority[j] < priority[first]
                     \/ (priority[j] = priority[first] /\ first <= j)
    <3> TAKE j \in C
    <3>1. priority[j] <= priority[first] /\ priority[j] \in Nat /\ priority[first] \in Nat
      BY <2>1, <2>5, <2>7
    <3> QED
      BY <3>1, <2>7
  <2> DEFINE P(i) == \A j \in C : priority[j] < priority[i]
                                  \/ (priority[j] = priority[i] /\ i <= j)
  <2>9. NextPending(h, c) = CHOOSE i \in C : P(i)
    BY <1>2 DEF NextPending, C
  <2>10. (CHOOSE i \in C : P(i)) \in C /\ P(CHOOSE i \in C : P(i))
    BY <2>7, <2>8
  <2> DEFINE id == CHOOSE i \in C : P(i)
  <2>11. id \in C /\ P(id)
    BY <2>10
  <2> HIDE DEF id
  <2>12. \A j \in C : priority[j] <= priority[id]
    <3> TAKE j \in C
    <3>1. priority[j] \in Nat /\ priority[id] \in Nat
      BY <2>1, <2>11, PlicAssumption
    <3> QED
      BY <3>1, <2>11
  <2>13. NextPending(h, c) = id
    BY <2>9 DEF id
  <2> QED
    BY <1>2, <2>11, <2>12, <2>13 DEF C
<1> QED
  BY <1>1, <1>2

\* The threshold only removes candidates.
LEMMA CandidatesShrink ==
  ASSUME NEW h \in Harts
  PROVE  /\ Candidates(h, TRUE) \subseteq Candidates(h, FALSE)
         /\ Candidates(h, FALSE) \subseteq Irqs
         /\ \A i \in Candidates(h, FALSE) :
              priority[i] > threshold[h] => i \in Candidates(h, TRUE)
BY DEF Candidates

-----------------------------------------------------------------------------
(***************************************************************************)
(* The end of a run_step.                                                  *)
(***************************************************************************)
\* Retire only decides whether the hart traps; the pins and the sleep of every hart
\* are those it is given.
LEMMA RetireEffect ==
  ASSUME NEW h \in Harts, NEW harts \in [Harts -> HartStates], NEW next \in PCs,
         pc \in [Harts -> PCs], Retire(h, harts, next)
  PROVE  /\ hart' \in [Harts -> HartStates]
         /\ pc' \in [Harts -> PCs]
         /\ \A g \in Harts \ {h} : hart'[g] = harts[g] /\ pc'[g] = pc[g]
         /\ hart'[h].mip = harts[h].mip /\ hart'[h].mie = harts[h].mie
         /\ hart'[h].waiting = harts[h].waiting /\ hart'[h].notified = harts[h].notified
         /\ \/ /\ harts[h].enabled /\ LocalPending(harts[h]) # {}
               /\ ~hart'[h].enabled /\ hart'[h].previous /\ pc'[h] = "claim"
            \/ /\ harts[h].enabled => LocalPending(harts[h]) = {}
               /\ hart'[h] = harts[h] /\ pc'[h] = next
<1>1. harts[h] \in HartStates /\ EnterTrap(harts[h]) \in HartStates
  BY DEF HartStates, EnterTrap
<1>2. CASE PendingInterrupts(harts[h]) # {}
  <2>1. hart' = [harts EXCEPT ![h] = EnterTrap(harts[h])] /\ pc' = [pc EXCEPT ![h] = "claim"]
    BY <1>2 DEF Retire
  <2>2. harts[h].enabled /\ LocalPending(harts[h]) # {}
    BY <1>2 DEF PendingInterrupts
  <2>3. hart'[h] = EnterTrap(harts[h]) /\ pc'[h] = "claim"
    BY <2>1
  <2>4. /\ hart' \in [Harts -> HartStates] /\ pc' \in [Harts -> PCs]
        /\ \A g \in Harts \ {h} : hart'[g] = harts[g] /\ pc'[g] = pc[g]
    BY <1>1, <2>1 DEF PCs
  <2>5. /\ ~hart'[h].enabled /\ hart'[h].previous
        /\ hart'[h].mip = harts[h].mip /\ hart'[h].mie = harts[h].mie
        /\ hart'[h].waiting = harts[h].waiting /\ hart'[h].notified = harts[h].notified
    BY <1>1, <2>2, <2>3 DEF EnterTrap, HartStates
  <2> QED
    BY <2>2, <2>3, <2>4, <2>5
<1>3. CASE PendingInterrupts(harts[h]) = {}
  <2>1. hart' = harts /\ pc' = [pc EXCEPT ![h] = next]
    BY <1>3 DEF Retire
  <2>2. harts[h].enabled => LocalPending(harts[h]) = {}
    BY <1>3 DEF PendingInterrupts
  <2> QED
    BY <2>1, <2>2
<1> QED
  BY <1>2, <1>3

\* An instruction of the program: the hart runs on or traps, and traps only on a
\* raised pin.
LEMMA BackInMain ==
  ASSUME TypeOK, PinsAgree, NoLostWakeup, Modes, Handlers,
         NEW h \in Harts, NEW r \in HartStates,
         r.mip = hart[h].mip, r.mie = hart[h].mie, r.enabled, ~r.waiting,
         Retire(h, [hart EXCEPT ![h] = r], "main"), eip' = eip
  PROVE  /\ hart' \in [Harts -> HartStates]
         /\ pc' \in [Harts -> PCs]
         /\ PinsAgree' /\ NoLostWakeup' /\ Modes' /\ Handlers'
         /\ pc'[0] # "complete" => pc[0] # "complete" \/ h = 0
<1> DEFINE harts == [hart EXCEPT ![h] = r]
<1>1. harts \in [Harts -> HartStates] /\ "main" \in PCs /\ pc \in [Harts -> PCs]
  BY DEF TypeOK, PCs
<1>2. harts[h] = r /\ \A g \in Harts \ {h} : harts[g] = hart[g]
  BY DEF TypeOK
<1> HIDE DEF harts
<1>3. Retire(h, harts, "main")
  BY DEF harts
<1>4. /\ hart' \in [Harts -> HartStates]
      /\ pc' \in [Harts -> PCs]
      /\ \A g \in Harts \ {h} : hart'[g] = hart[g] /\ pc'[g] = pc[g]
      /\ hart'[h].mip = hart[h].mip /\ hart'[h].mie = hart[h].mie
      /\ ~hart'[h].waiting
      /\ \/ /\ LocalPending(hart[h]) # {}
            /\ ~hart'[h].enabled /\ hart'[h].previous /\ pc'[h] = "claim"
         \/ /\ hart'[h].enabled /\ pc'[h] = "main"
  BY <1>1, <1>2, <1>3, RetireEffect DEF LocalPending
<1>5. PinsAgree'
  BY <1>4 DEF PinsAgree
<1>6. NoLostWakeup'
  BY <1>4 DEF NoLostWakeup
<1>7. Modes'
  BY <1>4 DEF Modes
<1>8. Handlers'
  <2>1. pc'[h] = "claim" => eip[h]
    BY <1>4 DEF LocalPending, Modes, PinsAgree
  <2> QED
    BY <1>4, <2>1 DEF Handlers
<1> QED
  BY <1>4, <1>5, <1>6, <1>7, <1>8, HartsAre

-----------------------------------------------------------------------------
(***************************************************************************)
(* The invariant holds initially and every action preserves it.            *)
(***************************************************************************)
LEMMA InitHolds == Init => IInv
<1> SUFFICES ASSUME Init PROVE IInv
  OBVIOUS
<1>1. \A h \in Harts : ResetHart(IF h \in Handling THEN {"external"} ELSE {}) \in HartStates
  BY DEF ResetHart, HartStates, Causes
<1>2. TypeOK
  <2>1. hart \in [Harts -> HartStates] /\ eip \in [Harts -> BOOLEAN]
        /\ touched \in [Harts -> BOOLEAN] /\ runNotified \in BOOLEAN
    BY <1>1 DEF Init
  <2>2. priority \in [Irqs -> 0 .. MaxPriority] /\ threshold \in [Harts -> Thresholds \cup {0}]
    BY PlicAssumption DEF Init
  <2>3. pending \in SUBSET Irqs /\ enable \in [Words -> SUBSET Bits]
        /\ claimResponse \in [Harts -> Irqs \cup {0}] /\ pc \in [Harts -> PCs]
        /\ abort \in {"none", "index", "eip"}
    BY DEF Init, PCs
  <2> QED
    BY <2>1, <2>2, <2>3 DEF TypeOK
<1>3. \A h \in Harts : ~hart[h].waiting /\ hart[h].mip = {} /\ hart[h].enabled
                       /\ hart[h].mie \subseteq {"external"}
  BY DEF Init, ResetHart
<1>4. PinsAgree /\ NoLostWakeup /\ Modes /\ Handlers
  BY <1>3 DEF Init, PinsAgree, NoLostWakeup, Modes, Handlers
<1>5. PinHasReason /\ CompletionAssert
  BY HartsAre DEF Init, PinHasReason, CompletionAssert
<1> QED
  BY <1>2, <1>4, <1>5 DEF IInv

LEMMA TriggerStep ==
  ASSUME IInv, NEW i \in Irqs, GatewayTrigger(i)
  PROVE  IInv'
<1>1. TypeOK'
  BY DEF IInv, TypeOK, GatewayTrigger, regVars
<1>2. PinsAgree' /\ NoLostWakeup' /\ Modes' /\ Handlers' /\ CompletionAssert'
  BY DEF IInv, PinsAgree, NoLostWakeup, Modes, Handlers, CompletionAssert, GatewayTrigger,
         LocalPending
<1>3. Candidates(0, TRUE) \subseteq Candidates(0, TRUE)'
  BY DEF GatewayTrigger, Candidates, Enabled, regVars
<1>4. PinHasReason'
  BY <1>3 DEF IInv, PinHasReason, HasPending, GatewayTrigger
<1> QED
  BY <1>1, <1>2, <1>4 DEF IInv

LEMMA RunStep ==
  ASSUME IInv, Run
  PROVE  IInv'
<1> DEFINE raised == {h \in Harts : ~eip[h] /\ HasPending(h)}
<1>1. /\ eip' = [h \in Harts |-> eip[h] \/ h \in raised]
      /\ hart' = [h \in Harts |-> IF h \in raised
                                  THEN TriggerPin(hart[h], "external", TRUE) ELSE hart[h]]
      /\ pc' = pc /\ abort = "none" /\ abort' = abort /\ touched' = touched
      /\ UNCHANGED <<pending, claimResponse, regVars>>
      /\ runNotified' = FALSE
  BY DEF Run
<1>2. \A h \in raised : HasPending(h)
  OBVIOUS
<1> HIDE DEF raised
<1>3. \A h \in Harts :
        /\ TriggerPin(hart[h], "external", TRUE) \in HartStates
        /\ hart[h] \in HartStates
        /\ \/ h \notin raised /\ hart'[h] = hart[h]
           \/ /\ h \in raised
              /\ hart'[h].mip = hart[h].mip \cup {"external"}
              /\ hart'[h].mie = hart[h].mie
              /\ hart'[h].notified
              /\ hart'[h].waiting = hart[h].waiting
              /\ hart'[h].enabled = hart[h].enabled
              /\ hart'[h].previous = hart[h].previous
  BY <1>1 DEF IInv, TypeOK, TriggerPin, HartStates, Causes
<1>4. TypeOK'
  BY <1>1, <1>3 DEF IInv, TypeOK, regVars
<1>5. PinsAgree'
  BY <1>1, <1>3 DEF IInv, PinsAgree
<1>6. NoLostWakeup'
  BY <1>1, <1>3 DEF IInv, NoLostWakeup, LocalPending
<1>7. Modes'
  BY <1>1, <1>3 DEF IInv, Modes
<1>8. Handlers'
  BY <1>1 DEF IInv, Handlers
<1>9. HasPending(0)' = HasPending(0)
  BY <1>1 DEF HasPending, Candidates, Enabled, regVars
<1>10. PinHasReason'
  BY <1>1, <1>2, <1>9, HartsAre DEF IInv, PinHasReason
<1> QED
  BY <1>1, <1>4, <1>5, <1>6, <1>7, <1>8, <1>10 DEF IInv, CompletionAssert

\* The steps of the program that leave the PLIC alone.
LEMMA MainStep ==
  ASSUME IInv, NEW h \in Harts, NEW r \in HartStates,
         r.mip = hart[h].mip, r.mie = hart[h].mie, r.enabled, ~r.waiting,
         Retire(h, [hart EXCEPT ![h] = r], "main"),
         pc[h] # "complete", UNCHANGED <<regVars, plicVars, abort, touched>>
  PROVE  IInv'
<1>1. /\ hart' \in [Harts -> HartStates]
      /\ pc' \in [Harts -> PCs]
      /\ PinsAgree' /\ NoLostWakeup' /\ Modes' /\ Handlers'
      /\ pc'[0] # "complete" => pc[0] # "complete"
  BY BackInMain DEF IInv, plicVars
<1>2. TypeOK'
  BY <1>1 DEF IInv, TypeOK, regVars, plicVars
<1>3. HasPending(0)' = HasPending(0) /\ eip' = eip /\ touched' = touched /\ abort' = abort
  BY DEF HasPending, Candidates, Enabled, regVars, plicVars
<1> QED
  BY <1>1, <1>2, <1>3 DEF IInv, PinHasReason, CompletionAssert

LEMMA ComputeStep ==
  ASSUME IInv, NEW h \in Harts, Compute(h)
  PROVE  IInv'
<1>1. hart[h] \in HartStates /\ hart[h].enabled /\ ~hart[h].waiting /\ pc[h] = "main"
  BY DEF Compute, Runs, IInv, TypeOK, Modes
<1>2. [hart EXCEPT ![h] = hart[h]] = hart
  BY DEF IInv, TypeOK
<1> QED
  BY <1>1, <1>2, MainStep DEF Compute

LEMMA WakeStep ==
  ASSUME IInv, NEW h \in Harts, Wake(h)
  PROVE  IInv'
<1>1. hart[h] \in HartStates /\ hart[h].waiting /\ pc[h] = "main" /\ hart[h].enabled
  BY DEF Wake, IInv, TypeOK, Modes, PCs
<1>2. /\ Woken(hart[h]) \in HartStates /\ Woken(hart[h]).mip = hart[h].mip
      /\ Woken(hart[h]).mie = hart[h].mie /\ Woken(hart[h]).enabled
      /\ ~Woken(hart[h]).waiting
  BY <1>1 DEF Woken, HartStates
<1> QED
  BY <1>1, <1>2, MainStep DEF Wake

LEMMA MretStepHolds ==
  ASSUME IInv, NEW h \in Harts, MretStep(h)
  PROVE  IInv'
<1>1. hart[h] \in HartStates /\ ~hart[h].waiting /\ pc[h] = "mret" /\ hart[h].previous
  BY DEF MretStep, Runs, IInv, TypeOK, Modes
<1>2. /\ Mret(hart[h]) \in HartStates /\ Mret(hart[h]).mip = hart[h].mip
      /\ Mret(hart[h]).mie = hart[h].mie /\ Mret(hart[h]).enabled
      /\ ~Mret(hart[h]).waiting
  BY <1>1 DEF Mret, HartStates
<1> QED
  BY <1>1, <1>2, MainStep DEF MretStep

LEMMA WfiStep ==
  ASSUME IInv, NEW h \in Harts, Wfi(h)
  PROVE  IInv'
<1>1. hart[h] \in HartStates /\ hart[h].enabled /\ ~hart[h].waiting /\ pc[h] = "main"
  BY DEF Wfi, Runs, IInv, TypeOK, Modes
<1>2. CASE LocalPending(hart[h]) # {}
  <2>1. [hart EXCEPT ![h] = hart[h]] = hart
    BY DEF IInv, TypeOK
  <2> QED
    BY <1>1, <1>2, <2>1, MainStep DEF Wfi
<1>3. CASE LocalPending(hart[h]) = {}
  <2>1. PICK stale \in BOOLEAN : hart' = [hart EXCEPT ![h] = StartsWaiting(hart[h], stale)]
    BY <1>3 DEF Wfi
  <2>2. /\ pc' = pc /\ UNCHANGED <<regVars, plicVars, abort, touched>>
    BY <1>3 DEF Wfi
  <2>3. /\ StartsWaiting(hart[h], stale) \in HartStates
        /\ hart'[h].mip = hart[h].mip /\ hart'[h].mie = hart[h].mie
        /\ hart'[h].enabled /\ hart'[h].previous = hart[h].previous
        /\ \A g \in Harts \ {h} : hart'[g] = hart[g]
    BY <1>1, <2>1 DEF StartsWaiting, HartStates, IInv, TypeOK
  <2>4. TypeOK'
    BY <2>1, <2>2, <2>3 DEF IInv, TypeOK, regVars, plicVars
  <2>5. PinsAgree' /\ NoLostWakeup' /\ Modes' /\ Handlers'
    BY <1>1, <1>3, <2>2, <2>3
       DEF IInv, PinsAgree, NoLostWakeup, LocalPending, Modes, Handlers, plicVars
  <2>6. HasPending(0)' = HasPending(0) /\ eip' = eip /\ touched' = touched /\ abort' = abort
    BY <2>2 DEF HasPending, Candidates, Enabled, regVars, plicVars
  <2> QED
    BY <2>2, <2>4, <2>5, <2>6 DEF IInv, PinHasReason, CompletionAssert
<1> QED
  BY <1>2, <1>3

LEMMA ConfigureStep ==
  ASSUME IInv, NEW h \in Harts, Configure(h)
  PROVE  IInv'
<1>1. hart[h] \in HartStates /\ hart[h].enabled /\ ~hart[h].waiting /\ pc[h] = "main"
      /\ [hart EXCEPT ![h] = hart[h]] = hart
  BY DEF Configure, Runs, IInv, TypeOK, Modes
<1>2. Retire(h, hart, "main") /\ UNCHANGED <<plicVars, abort>> /\ touched' = eip
  BY DEF Configure
<1>3. /\ hart' \in [Harts -> HartStates]
      /\ pc' \in [Harts -> PCs]
      /\ PinsAgree' /\ NoLostWakeup' /\ Modes' /\ Handlers'
  BY <1>1, <1>2, BackInMain DEF IInv, plicVars
<1>4. enable' \in [Words -> SUBSET Bits]
  BY DEF Configure, IInv, TypeOK
<1>5. threshold' \in [Harts -> Thresholds \cup {0}]
  BY DEF Configure, IInv, TypeOK
<1>6. priority' \in [Irqs -> 0 .. MaxPriority]
  <2>1. \A v \in 0 .. MaxPriority + 1 : Clamped(v) \in 0 .. MaxPriority
    BY PlicAssumption DEF Clamped
  <2> QED
    BY <2>1 DEF Configure, IInv, TypeOK
<1>7. TypeOK'
  BY <1>2, <1>3, <1>4, <1>5, <1>6 DEF IInv, TypeOK, plicVars
<1>8. PinHasReason'
  BY <1>2, HartsAre DEF PinHasReason, plicVars
<1> QED
  BY <1>2, <1>3, <1>7, <1>8 DEF IInv, CompletionAssert

LEMMA ClaimStep ==
  ASSUME IInv, NEW h \in Harts, Claim(h)
  PROVE  IInv'
<1>1. CASE h # 0
  <2>1. abort' = "index" /\ UNCHANGED <<pending, claimResponse, hart, pc>>
        /\ UNCHANGED <<regVars, eip, runNotified, touched>>
    BY <1>1, HartsAre DEF Claim
  <2>2. TypeOK'
    BY <2>1 DEF IInv, TypeOK, regVars
  <2>3. PinsAgree' /\ NoLostWakeup' /\ Modes' /\ Handlers'
    BY <2>1 DEF IInv, PinsAgree, NoLostWakeup, LocalPending, Modes, Handlers
  <2>4. HasPending(0)' = HasPending(0)
    BY <2>1 DEF HasPending, Candidates, Enabled, regVars
  <2> QED
    BY <2>1, <2>2, <2>3, <2>4 DEF IInv, PinHasReason, CompletionAssert
<1>2. CASE h = 0
  <2> DEFINE id == NextPending(0, FALSE)
             next == IF HandlerLoops /\ claimResponse'[0] = 0 THEN "mret" ELSE "complete"
  <2>1. /\ claimResponse' = [claimResponse EXCEPT ![0] = id]
        /\ pending' = pending \ {id}
        /\ Retire(0, hart, next)
        /\ UNCHANGED <<regVars, eip, runNotified, touched, abort>>
    BY <1>2, HartsAre DEF Claim
  <2>2. id \in Irqs \cup {0} /\ (id = 0 => Candidates(0, FALSE) = {})
    <3>1. Candidates(0, FALSE) \subseteq Irqs /\ 0 \notin Irqs
      BY PlicAssumption DEF Candidates, Irqs
    <3> QED
      BY <3>1, NextPendingIsBest, HartsAre DEF IInv
  <2>3. claimResponse'[0] = id
    BY <2>1, HartsAre DEF IInv, TypeOK
  <2> HIDE DEF id
  <2>4. next \in PCs /\ (next = "mret" => Candidates(0, FALSE) = {})
        /\ next \in {"mret", "complete"}
    BY <2>2, <2>3 DEF PCs
  <2> HIDE DEF next
  <2>5. ~hart[0].enabled /\ hart \in [Harts -> HartStates] /\ pc \in [Harts -> PCs]
        /\ pc[0] = "claim"
    BY <1>2 DEF Claim, Runs, IInv, Modes, TypeOK
  <2>6. /\ hart' \in [Harts -> HartStates] /\ pc' \in [Harts -> PCs]
        /\ \A g \in Harts : hart'[g] = hart[g]
        /\ \A g \in Harts \ {0} : pc'[g] = pc[g]
        /\ pc'[0] = next
    BY <2>1, <2>4, <2>5, HartsAre, RetireEffect
  <2>7. TypeOK'
    BY <2>1, <2>2, <2>6 DEF IInv, TypeOK, regVars
  <2>8. PinsAgree' /\ NoLostWakeup'
    BY <2>1, <2>6 DEF IInv, PinsAgree, NoLostWakeup, LocalPending
  <2>9. Modes' /\ Handlers'
    BY <2>1, <2>4, <2>5, <2>6 DEF IInv, Modes, Handlers
  <2>10. PinHasReason'
    <3>1. next = "mret" => ~HasPending(0)
      BY <2>4, CandidatesShrink, HartsAre DEF HasPending
    <3>2. ~(eip[0] /\ ~touched[0] /\ next = "mret")
      BY <3>1, <2>5 DEF IInv, PinHasReason
    <3> QED
      BY <3>2, <2>1, <2>4, <2>6 DEF PinHasReason
  <2> QED
    BY <2>1, <2>7, <2>8, <2>9, <2>10 DEF IInv, CompletionAssert
<1> QED
  BY <1>1, <1>2

LEMMA CompleteStep ==
  ASSUME IInv, NEW h \in Harts, Complete(h)
  PROVE  IInv'
<1>1. h = 0 /\ ConfigIndex(h) = 0 /\ 0 \in Harts /\ pc[0] = "complete"
      /\ ~hart[0].enabled /\ hart[0].previous /\ ~hart[0].waiting
      /\ hart \in [Harts -> HartStates] /\ pc \in [Harts -> PCs]
  BY HartsAre DEF Complete, Runs, IInv, Handlers, Modes, TypeOK
<1>2. HasPending(0)' = HasPending(0)
      /\ UNCHANGED <<regVars, pending, claimResponse, runNotified>>
  BY DEF Complete, HasPending, Candidates, Enabled, regVars
<1>3. CASE HasPending(0) /\ ~eip[0]
  <2>1. abort' = "eip" /\ UNCHANGED <<eip, hart, pc, touched>>
    BY <1>1, <1>3 DEF Complete
  <2>2. TypeOK'
    BY <1>2, <2>1 DEF IInv, TypeOK, regVars
  <2>3. PinsAgree' /\ NoLostWakeup' /\ Modes' /\ Handlers' /\ PinHasReason'
    BY <1>2, <2>1
       DEF IInv, PinsAgree, NoLostWakeup, LocalPending, Modes, Handlers, PinHasReason
  <2>4. HandlerLoops
    BY <1>1, <1>3 DEF IInv, Handlers
  <2> QED
    BY <2>2, <2>3, <2>4 DEF IInv
<1>4. CASE ~(HasPending(0) /\ ~eip[0])
  <2> DEFINE pin == IF HasPending(0) THEN TriggerPin(hart[0], "external", TRUE)
                    ELSE ClearPin(hart[0], "external")
             harts == [hart EXCEPT ![0] = pin]
             next == IF HandlerLoops THEN "claim" ELSE "mret"
  <2>1. /\ eip' = [eip EXCEPT ![0] = HasPending(0)]
        /\ Retire(0, harts, next)
        /\ touched' = [touched EXCEPT ![0] = FALSE]
        /\ abort' = abort
    BY <1>1, <1>4 DEF Complete
  <2>2. /\ pin \in HartStates /\ ~pin.enabled /\ pin.previous /\ ~pin.waiting
        /\ pin.mie = hart[0].mie
        /\ "external" \in pin.mip <=> HasPending(0)
    <3>1. hart[0] \in HartStates
      BY <1>1
    <3>2. CASE HasPending(0)
      BY <1>1, <3>1, <3>2 DEF TriggerPin, HartStates, Causes
    <3>3. CASE ~HasPending(0)
      BY <1>1, <3>1, <3>3 DEF ClearPin, HartStates, Causes
    <3> QED
      BY <3>2, <3>3
  <2> HIDE DEF pin
  <2>3. harts \in [Harts -> HartStates] /\ harts[0] = pin
        /\ (\A g \in Harts \ {0} : harts[g] = hart[g])
        /\ next \in PCs /\ next \in {"claim", "mret"} /\ (next = "claim" => HandlerLoops)
    BY <1>1, <2>2 DEF PCs
  <2> HIDE DEF harts, next
  <2>4. /\ hart' \in [Harts -> HartStates] /\ pc' \in [Harts -> PCs]
        /\ (\A g \in Harts \ {0} : hart'[g] = hart[g] /\ pc'[g] = pc[g])
        /\ hart'[0] = pin
        /\ pc'[0] = next
    BY <1>1, <2>1, <2>2, <2>3, RetireEffect
  <2>5. TypeOK'
    <3>1. eip' \in [Harts -> BOOLEAN] /\ touched' \in [Harts -> BOOLEAN]
      BY <2>1 DEF IInv, TypeOK, HasPending
    <3> QED
      BY <1>2, <2>1, <2>4, <3>1 DEF IInv, TypeOK, regVars
  <2>6. PinsAgree' /\ NoLostWakeup'
    BY <1>1, <2>1, <2>2, <2>4 DEF IInv, TypeOK, PinsAgree, NoLostWakeup, LocalPending
  <2>7. Modes'
    BY <2>2, <2>3, <2>4 DEF IInv, Modes
  <2>8. Handlers'
    BY <1>1, <2>1, <2>3, <2>4 DEF IInv, TypeOK, Handlers
  <2>9. PinHasReason'
    BY <1>1, <1>2, <2>1 DEF IInv, TypeOK, PinHasReason
  <2> QED
    BY <2>1, <2>5, <2>6, <2>7, <2>8, <2>9 DEF IInv, CompletionAssert
<1> QED
  BY <1>3, <1>4

LEMMA StutterStep ==
  ASSUME IInv, UNCHANGED vars
  PROVE  IInv'
<1>1. TypeOK'
  BY DEF IInv, TypeOK, vars, regVars, plicVars
<1>2. PinsAgree' /\ NoLostWakeup' /\ Modes' /\ Handlers' /\ CompletionAssert' = CompletionAssert
  BY DEF IInv, PinsAgree, NoLostWakeup, LocalPending, Modes, Handlers, CompletionAssert,
         vars, plicVars
<1>3. HasPending(0)' = HasPending(0)
  BY DEF HasPending, Candidates, Enabled, vars, regVars, plicVars
<1> QED
  BY <1>1, <1>2, <1>3 DEF IInv, PinHasReason, vars, plicVars

LEMMA NextHolds == IInv /\ [Next]_vars => IInv'
<1> SUFFICES ASSUME IInv, [Next]_vars PROVE IInv'
  OBVIOUS
<1>1. CASE UNCHANGED vars
  BY <1>1, StutterStep
<1>2. CASE Next
  BY <1>2, TriggerStep, RunStep, ComputeStep, WfiStep, WakeStep, ClaimStep, CompleteStep,
     MretStepHolds, ConfigureStep DEF Next, HartStep
<1> QED
  BY <1>1, <1>2

-----------------------------------------------------------------------------
(***************************************************************************)
(* The theorems.                                                           *)
(***************************************************************************)
LEMMA Invariance == Spec => []IInv
<1> QED
  BY InitHolds, NextHolds, PTL DEF Spec

\* Every variable has its type in every reachable state.
THEOREM TypeCorrect == Spec => []TypeOK
<1>1. IInv => TypeOK
  BY DEF IInv
<1> QED
  BY <1>1, Invariance, PTL

\* hart_eip and the pending bit of the hart's mip never differ.
THEOREM PinsAlwaysAgree == Spec => []PinsAgree
<1>1. IInv => PinsAgree
  BY DEF IInv
<1> QED
  BY <1>1, Invariance, PTL

\* No hart sleeps on a pending enabled interrupt without its event on the way.
THEOREM WakeupsAreNotLost == Spec => []NoLostWakeup
<1>1. IInv => NoLostWakeup
  BY DEF IInv
<1> QED
  BY <1>1, Invariance, PTL

\* Handlers that claim once per trap never run into assert(hart_eip[idx]).
THEOREM CompletionSafe == ~HandlerLoops => (Spec => []CompletionAssert)
<1> SUFFICES ASSUME ~HandlerLoops PROVE Spec => []CompletionAssert
  OBVIOUS
<1>1. IInv => CompletionAssert
  BY DEF IInv
<1> QED
  BY <1>1, Invariance, PTL

\* An undisturbed handler claims an interrupt above the threshold.
THEOREM ClaimsAreAboveThreshold == Spec => []ClaimsAboveThreshold
<1>1. IInv => ClaimsAboveThreshold
  <2> SUFFICES ASSUME IInv, NEW h \in Harts, pc[h] = "claim", ConfigIndex(h) = h,
                      ~touched[h], ~HandlerLoops
               PROVE  NextPending(h, FALSE) # 0
                      /\ priority[NextPending(h, FALSE)] > threshold[h]
    BY DEF ClaimsAboveThreshold
  <2>1. h = 0
    BY HartsAre
  <2>2. HasPending(0)
    BY <2>1 DEF IInv, Handlers, PinHasReason
  <2>3. PICK i \in Candidates(h, TRUE) : TRUE
    BY <2>1, <2>2 DEF HasPending
  <2>4. i \in Candidates(h, FALSE) /\ priority[i] > threshold[h] /\ i \in Irqs
    BY <2>3 DEF Candidates
  <2>5. /\ NextPending(h, FALSE) \in Candidates(h, FALSE)
        /\ priority[i] <= priority[NextPending(h, FALSE)]
    BY <2>4, NextPendingIsBest DEF IInv
  <2>6. Candidates(h, FALSE) \subseteq Irqs /\ 0 \notin Irqs
    BY PlicAssumption DEF Candidates, Irqs
  <2> DEFINE id == NextPending(h, FALSE)
  <2>7. id \in Irqs
    BY <2>5, <2>6
  <2> HIDE DEF id
  <2>8. /\ priority \in [Irqs -> 0 .. MaxPriority]
        /\ threshold \in [Harts -> Thresholds \cup {0}]
    BY DEF IInv, TypeOK
  <2>9. priority[i] \in Nat /\ priority[id] \in Nat /\ threshold[h] \in Nat
    <3>1. priority[i] \in 0 .. MaxPriority /\ priority[id] \in 0 .. MaxPriority
      BY <2>4, <2>7, <2>8
    <3>2. threshold[h] \in Thresholds \cup {0}
      BY <2>8
    <3>3. \A n \in 0 .. MaxPriority : n \in Nat
      OBVIOUS
    <3>4. Thresholds \cup {0} \subseteq Nat
      BY PlicAssumption
    <3> QED BY <3>1, <3>2, <3>3, <3>4, Zenon
  <2>10. priority[i] <= priority[id] /\ id # 0
    BY <2>5, <2>6 DEF id
  <2>11. priority[id] > threshold[h]
    BY <2>4, <2>9, <2>10
  <2> QED
    BY <2>10, <2>11 DEF id
<1> QED
  BY <1>1, Invariance, PTL

\* Only a store to the configuration leaves an interrupt that nothing delivers.
THEOREM ConfigurationStrands == Spec => OnlyConfigurationStrands
<1> DEFINE Never == \A h \in Harts : ~Stranded(h) /\ Stranded(h)' => regVars' # regVars
<1>1. IInv /\ [Next]_vars => [Never]_vars
  <2> SUFFICES ASSUME IInv, Next, NEW h \in Harts, ~Stranded(h), regVars' = regVars
               PROVE  ~Stranded(h)'
    BY DEF Never
  <2>1. CASE \E i \in Irqs : GatewayTrigger(i)
    BY <2>1 DEF GatewayTrigger, Stranded
  <2>2. CASE Run
    <3>1. HasPending(h)' = HasPending(h)
      BY <2>2 DEF Run, HasPending, Candidates, Enabled, regVars
    <3>2. eip'[h] = (eip[h] \/ HasPending(h))
      BY <2>2 DEF Run
    <3> QED
      BY <3>1, <3>2 DEF Stranded
  <2>3. CASE \E g \in Harts : Compute(g) \/ Wfi(g) \/ Wake(g) \/ MretStep(g)
    <3>1. UNCHANGED <<regVars, plicVars>>
      BY <2>3 DEF Compute, Wfi, Wake, MretStep
    <3> QED
      BY <3>1 DEF Stranded, HasPending, Candidates, Enabled, regVars, plicVars
  <2>4. CASE \E g \in Harts : Claim(g)
    <3>1. pending' \subseteq pending /\ UNCHANGED <<regVars, eip, runNotified>>
      BY <2>4 DEF Claim
    <3>2. HasPending(h)' => HasPending(h)
      BY <3>1 DEF HasPending, Candidates, Enabled, regVars
    <3> QED
      BY <3>1, <3>2 DEF Stranded
  <2>5. CASE \E g \in Harts : Complete(g)
    <3>1. PICK g \in Harts : Complete(g)
      BY <2>5
    <3>2. g = 0 /\ ConfigIndex(g) = 0 /\ 0 \in Harts
      BY <3>1, HartsAre DEF Complete, Runs, IInv, Handlers
    <3>3. UNCHANGED <<regVars, pending, runNotified>>
      BY <3>1 DEF Complete
    <3>4. HasPending(h)' = HasPending(h)
      BY <3>3 DEF HasPending, Candidates, Enabled, regVars
    <3>5. eip' = eip \/ eip' = [eip EXCEPT ![0] = HasPending(0)]
      BY <3>1, <3>2 DEF Complete
    <3> QED
      BY <3>2, <3>3, <3>4, <3>5 DEF IInv, TypeOK, Stranded
  <2>6. CASE \E g \in Harts : Configure(g)
    <3>1. PICK g \in Harts : Configure(g)
      BY <2>6
    <3>2. UNCHANGED <<plicVars, regVars>>
      BY <3>1 DEF Configure
    <3> QED
      BY <3>2 DEF Stranded, HasPending, Candidates, Enabled, regVars, plicVars
  <2> QED
    BY <2>1, <2>2, <2>3, <2>4, <2>5, <2>6 DEF Next, HartStep
<1> QED
  BY <1>1, Invariance, PTL DEF Spec, OnlyConfigurationStrands
=============================================================================
