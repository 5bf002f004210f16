--------------------------- MODULE SemProgramProofs ---------------------------
(***************************************************************************)
(* Proofs about SemProgram, for any window, any number of rounds, with or  *)
(* without traps and a debugger.  They rest on the bus-lock invariant      *)
(* proved in LrScBusProofs: every step of the program is a step of the bus *)
(* model, so a store-conditional that succeeds writes over the value its   *)
(* load-reserved returned.                                                 *)
(***************************************************************************)
EXTENDS SemProgram, LrScBusProofs

Finished(h) == pc[h] \in {"blt", "exit", "done"}

\* exit_counter counts the harts that have executed the amoadd, and the first of
\* them is the one that spins.
ExitInv ==
  /\ mem[Exit] = (IF Finished(0) THEN 1 ELSE 0) + (IF Finished(1) THEN 1 ELSE 0)
  /\ \A g, h \in Harts : g # h =>
       /\ pc[h] \in {"exit", "done"} => pc[g] = "blt"
       /\ pc[h] = "blt" /\ Finished(g) => pc[g] \in {"exit", "done"}

RoundInv ==
  \A h \in Harts :
    /\ pc[h] \in {"amo", "blt", "exit", "done"} => round[h] = Rounds
    /\ pc[h] \notin {"p_bnez", "amo", "blt", "exit", "done"} => round[h] < Rounds
    /\ pc[h] = "p_bnez" /\ ~scOk[h] => round[h] < Rounds

\* sem_wait reaches its store-conditional only with a value other than zero, and
\* only hart 0 initialises, before it does anything else.
LoopInv ==
  /\ \A h \in Harts : pc[h] \in {"w_addi", "w_sc"} => loaded[h] # 0
  /\ pc[1] # "init"
  /\ pc[0] = "init" => ~Inside(1)

ProgInv == ProgTypeOK /\ SemaphoreExact /\ RequestCoherent /\ ExitInv /\ RoundInv /\ LoopInv

LEMMA ProgInitInv == ProgInit => IInv /\ ProgInv
<1> USE ProgramAssumption
<1> SUFFICES ASSUME ProgInit PROVE IInv /\ ProgInv
  OBVIOUS
<1>1. IInv
  BY InitIInv DEF ProgInit
<1>2. mem[Sem] = 0 /\ mem[Exit] = 0
  BY DEF ProgInit
<1>3. pc[0] = "init" /\ pc[1] = "w_lr" /\ \A h \in Harts : ~Inside(h) /\ ~Finished(h)
  BY DEF ProgInit, Inside, Finished
<1>4. ProgTypeOK
  <2>1. pc \in [Harts -> PCs]
    BY DEF ProgInit, PCs
  <2>2. [h \in Harts |-> 0] \in [Harts -> 0..Rounds]
    OBVIOUS
  <2>3. round \in [Harts -> 0..Rounds]
    BY <2>2 DEF ProgInit
  <2> QED BY <2>1, <2>3 DEF ProgInit, ProgTypeOK
<1>5. SemaphoreExact
  BY <1>2, <1>3 DEF SemaphoreExact
<1>6. RequestCoherent /\ ExitInv /\ RoundInv /\ LoopInv
  BY <1>2, <1>3 DEF ProgInit, RequestCoherent, ExitInv, RoundInv, LoopInv, Finished
<1> QED BY <1>1, <1>4, <1>5, <1>6 DEF ProgInv

-----------------------------------------------------------------------------
\* One lemma per action of the program: it preserves ProgInv, and it is a step of
\* the hart in LrScBus, which preserves IInv.
LEMMA SemInitStep ==
  ASSUME IInv, ProgInv, NEW h \in Harts, SemInit(h)
  PROVE  ProgInv' /\ RunStep(h)
<1> USE ProgramAssumption
<1> USE DEF ProgInv, ProgTypeOK, PCs, Goto
<1>1. TypeOK BY DEF IInv
<1>2. h = 0 /\ pc[0] = "init" /\ pc' = [pc EXCEPT ![0] = "w_lr"]
  BY DEF SemInit, LoopInv
<1>3. mem' = [mem EXCEPT ![Sem] = 1] /\ UNCHANGED <<loaded, scOk, round, exited>>
  BY DEF SemInit, Store
<1>4. mem'[Sem] = 1 /\ mem'[Exit] = mem[Exit] /\ mem'[Reg] = mem[Reg]
  BY <1>1, <1>3 DEF TypeOK
<1>5. ProgTypeOK'
  BY <1>2, <1>3
<1>6. SemaphoreExact'
  BY <1>2, <1>3, <1>4 DEF SemaphoreExact, LoopInv, Inside
<1>7. RequestCoherent' /\ ExitInv' /\ RoundInv' /\ LoopInv'
  BY <1>2, <1>3, <1>4 DEF RequestCoherent, ExitInv, RoundInv, LoopInv, Finished, Inside
<1>8. RunStep(h)
  BY DEF SemInit, RunStep
<1> QED BY <1>5, <1>6, <1>7, <1>8

LEMMA SemLrStep ==
  ASSUME IInv, ProgInv, NEW h \in Harts, SemLr(h)
  PROVE  ProgInv' /\ RunStep(h)
<1> USE ProgramAssumption
<1> USE DEF ProgInv, ProgTypeOK, PCs, Goto
<1>1. TypeOK BY DEF IInv
<1>2. /\ pc[h] \in {"w_lr", "p_lr"}
      /\ pc' = [pc EXCEPT ![h] = IF pc[h] = "w_lr" THEN "w_beqz" ELSE "p_addi"]
      /\ UNCHANGED <<mem, scOk, round, exited>>
      /\ loaded' = [loaded EXCEPT ![h] = mem[Sem]]
  BY DEF SemLr, LoadReserved
<1>3. \A g \in Harts : Inside(g)' = Inside(g) /\ Finished(g)' = Finished(g)
  BY <1>2 DEF Inside, Finished
<1>4. ProgTypeOK'
  BY <1>2
<1>5. SemaphoreExact'
  BY <1>2, <1>3 DEF SemaphoreExact
<1>6. RequestCoherent' /\ RoundInv'
  BY <1>2 DEF RequestCoherent, RoundInv
<1>7. ExitInv'
  BY <1>2, <1>3 DEF ExitInv
<1>8. LoopInv'
  BY <1>1, <1>2, <1>3 DEF LoopInv, TypeOK
<1>9. RunStep(h)
  BY DEF SemLr, RunStep
<1> QED BY <1>4, <1>5, <1>6, <1>7, <1>8, <1>9

LEMMA SemBranchStep ==
  ASSUME IInv, ProgInv, NEW h \in Harts, SemBranch(h)
  PROVE  ProgInv' /\ RunStep(h)
<1> USE ProgramAssumption
<1> USE DEF ProgInv, ProgTypeOK, PCs, Goto
<1>1. /\ pc[h] \in {"w_beqz", "w_addi", "w_bnez", "p_addi", "p_bnez", "blt"}
      /\ pc' = [pc EXCEPT ![h] = NextPc(h)]
      /\ UNCHANGED <<mem, scOk, loaded, round, exited>>
  BY DEF SemBranch, Plain
<1>2. NextPc(h) \in PCs
  BY <1>1 DEF NextPc
<1>3. \A g \in Harts : Inside(g)' = Inside(g) /\ Finished(g)' = Finished(g)
  BY <1>1 DEF Inside, Finished, NextPc
<1>4. ProgTypeOK'
  BY <1>1, <1>2
<1>5. SemaphoreExact'
  BY <1>1, <1>3 DEF SemaphoreExact, NextPc
<1>6. RequestCoherent'
  BY <1>1 DEF RequestCoherent, NextPc
<1>7. RoundInv'
  BY <1>1 DEF RoundInv, NextPc
<1>8. ExitInv'
  BY <1>1, <1>3 DEF ExitInv, NextPc, Finished
<1>9. LoopInv'
  BY <1>1, <1>3 DEF LoopInv, NextPc
<1>10. RunStep(h)
  BY DEF SemBranch, RunStep
<1> QED BY <1>4, <1>5, <1>6, <1>7, <1>8, <1>9, <1>10

\* What a running hart has reserved still has the value that it loaded.
LEMMA ReservedValue ==
  ASSUME IInv, NEW h \in Harts, running = h, lock = h, lrAddr[h] = Sem
  PROVE  mem[Sem] = loaded[h]
<1>1. status[h] = "ready" /\ Sem # None
  BY ThreadsAssumption, ProgramAssumption DEF IInv, SchedulerInv
<1>2. Reserved(h) = Sem
  BY <1>1 DEF Reserved
<1> QED BY <1>1, <1>2 DEF IInv, ReservationIntact

\* The two store-conditionals.  One that fails changes no label's meaning; one
\* that succeeds writes over the value its load-reserved returned.
LEMMA SemScStep ==
  ASSUME IInv, ProgInv, NEW h \in Harts, SemSc(h)
  PROVE  ProgInv' /\ RunStep(h)
<1> USE ProgramAssumption
<1> USE DEF Goto
<1>1. /\ TypeOK /\ ProgTypeOK
      /\ Succeeds(h, Sem) => mem[Sem] = loaded[h]
  BY ReservedValue DEF IInv, ProgInv, SemSc, StoreConditional, Succeeds
<1> DEFINE v == IF pc[h] = "w_sc" THEN loaded[h] - 1 ELSE loaded[h] + 1
<1>2. /\ pc[h] \in {"w_sc", "p_sc"}
      /\ pc' = [pc EXCEPT ![h] = IF pc[h] = "w_sc" THEN "w_bnez" ELSE "p_bnez"]
      /\ exited' = exited /\ loaded' = loaded
      /\ round' = [round EXCEPT ![h] =
                     IF pc[h] = "p_sc" /\ Succeeds(h, Sem) THEN @ + 1 ELSE @]
      /\ StoreConditional(h, Sem, v)
  BY DEF SemSc, StoreConditional
<1>3. round[h] < Rounds
  BY <1>2 DEF ProgInv, RoundInv
<1>4. ProgTypeOK'
  <2>1. round[h] \in 0..Rounds /\ round[h] + 1 \in 0..Rounds
    BY <1>1, <1>3 DEF ProgTypeOK
  <2>2. round' \in [Harts -> 0..Rounds]
    BY <1>1, <1>2, <2>1 DEF ProgTypeOK
  <2>3. pc' \in [Harts -> PCs]
    BY <1>1, <1>2 DEF ProgTypeOK, PCs
  <2> QED BY <1>1, <1>2, <2>2, <2>3 DEF ProgTypeOK
<1>5. CASE Succeeds(h, Sem)
  <2>1. /\ mem' = [mem EXCEPT ![Sem] = v]
        /\ scOk' = [scOk EXCEPT ![h] = TRUE]
    BY <1>2, <1>5 DEF StoreConditional
  <2>2. loaded[h] = mem[Sem]
    BY <1>1, <1>5 DEF Succeeds
  <2>3. mem'[Exit] = mem[Exit] /\ mem'[Reg] = mem[Reg] /\ mem'[Sem] = v
    BY <1>1, <2>1 DEF TypeOK
  <2>4. /\ \A g \in Harts \ {h} : pc'[g] = pc[g] /\ scOk'[g] = scOk[g]
        /\ pc'[h] = IF pc[h] = "w_sc" THEN "w_bnez" ELSE "p_bnez"
        /\ scOk'[h] = TRUE
    BY <1>1, <1>2, <2>1 DEF TypeOK, ProgTypeOK
  <2>5. /\ \A g \in Harts \ {h} : Inside(g)' <=> Inside(g)
        /\ Inside(h)' <=> pc[h] = "w_sc"
        /\ Inside(h) <=> pc[h] = "p_sc"
    <3>1. \A g \in Harts \ {h} : Inside(g)' <=> Inside(g)
      BY <2>4 DEF Inside
    <3>2. Inside(h)' <=> pc[h] = "w_sc"
      BY <1>2, <2>4 DEF Inside
    <3>3. Inside(h) <=> pc[h] = "p_sc"
      BY <1>2 DEF Inside
    <3> QED BY <3>1, <3>2, <3>3
  <2>6. mem[Sem] = IF pc[h] = "w_sc" THEN 1 ELSE 0
    BY <1>2, <2>2, <2>5 DEF ProgInv, LoopInv, SemaphoreExact
  <2>7. v = IF pc[h] = "w_sc" THEN 0 ELSE 1
    BY <1>2, <2>2, <2>6
  <2>8. pc[0] # "init"
    BY <1>2, <2>5, <2>6 DEF ProgInv, LoopInv, SemaphoreExact
  <2>9. \A g \in Harts \ {h} : ~Inside(g)
    BY <1>2, <2>5, <2>6 DEF ProgInv, SemaphoreExact
  <2>10. SemaphoreExact'
    BY <1>2, <2>3, <2>4, <2>5, <2>7, <2>8, <2>9 DEF SemaphoreExact
  <2>11. RequestCoherent'
    BY <1>2, <2>3, <2>4 DEF ProgInv, RequestCoherent
  <2>12. ExitInv'
    BY <1>2, <2>3, <2>4 DEF ProgInv, ExitInv, Finished
  <2>13. RoundInv'
    BY <1>1, <1>2, <2>4 DEF ProgInv, RoundInv, ProgTypeOK
  <2>14. LoopInv'
    BY <1>2, <2>4, <2>8 DEF ProgInv, LoopInv
  <2>15. v \in Values
    BY <2>7
  <2>16. RunStep(h)
    BY <1>2, <2>15 DEF RunStep
  <2> QED BY <1>4, <2>10, <2>11, <2>12, <2>13, <2>14, <2>16 DEF ProgInv
<1>6. CASE ~Succeeds(h, Sem)
  <2>0. Succeeds(h, Sem) = FALSE
    BY <1>6 DEF Succeeds
  <2>1. /\ mem' = mem
        /\ scOk' = [scOk EXCEPT ![h] = FALSE]
    BY <1>2, <2>0 DEF StoreConditional
  <2>2. /\ \A g \in Harts \ {h} : pc'[g] = pc[g] /\ scOk'[g] = scOk[g]
        /\ pc'[h] = IF pc[h] = "w_sc" THEN "w_bnez" ELSE "p_bnez"
        /\ scOk'[h] = FALSE /\ round' = round
    BY <1>1, <1>2, <1>6, <2>1 DEF TypeOK, ProgTypeOK
  <2>3. \A g \in Harts : Inside(g)' = Inside(g) /\ Finished(g)' = Finished(g)
    BY <1>2, <2>2 DEF Inside, Finished
  <2>4. SemaphoreExact'
    BY <1>2, <2>1, <2>2, <2>3 DEF ProgInv, SemaphoreExact
  <2>5. RequestCoherent'
    BY <1>2, <2>1, <2>2 DEF ProgInv, RequestCoherent
  <2>6. ExitInv'
    BY <1>2, <2>1, <2>2 DEF ProgInv, ExitInv, Finished
  <2>7. RoundInv'
    BY <1>2, <1>3, <2>2 DEF ProgInv, RoundInv
  <2>8. LoopInv'
    BY <1>2, <2>2, <2>3 DEF ProgInv, LoopInv
  <2>9. StoreConditional(h, Sem, 0)
    BY <1>2, <1>6 DEF StoreConditional
  <2>10. RunStep(h)
    BY <2>9 DEF RunStep
  <2> QED BY <1>4, <2>4, <2>5, <2>6, <2>7, <2>8, <2>10 DEF ProgInv
<1> QED BY <1>5, <1>6

LEMMA ProgramDmaStep ==
  ASSUME IInv, ProgInv, NEW h \in Harts, ProgramDma(h), Harts \subseteq Values
  PROVE  ProgInv' /\ RunStep(h)
<1> USE ProgramAssumption
<1> USE DEF ProgInv, ProgTypeOK, PCs, Goto
<1>1. TypeOK BY DEF IInv
<1>2. /\ pc[h] \in {"src", "op"}
      /\ pc' = [pc EXCEPT ![h] = IF pc[h] = "src" THEN "op" ELSE "p_lr"]
      /\ UNCHANGED <<loaded, scOk, round, exited>>
      /\ mem' = [mem EXCEPT ![Reg] = h]
  BY DEF ProgramDma, Store
<1>3. mem'[Sem] = mem[Sem] /\ mem'[Exit] = mem[Exit] /\ mem'[Reg] = h
  BY <1>1, <1>2 DEF TypeOK
<1>4. \A g \in Harts : Inside(g)' = Inside(g) /\ Finished(g)' = Finished(g)
  BY <1>2 DEF Inside, Finished
<1>5. ProgTypeOK'
  BY <1>2
<1>6. SemaphoreExact'
  BY <1>2, <1>3, <1>4 DEF SemaphoreExact
<1>7. RequestCoherent'
  BY <1>2, <1>3 DEF RequestCoherent, SemaphoreExact, Inside
<1>8. ExitInv' /\ RoundInv' /\ LoopInv'
  BY <1>2, <1>3, <1>4 DEF ExitInv, RoundInv, LoopInv
<1>9. RunStep(h)
  BY DEF ProgramDma, RunStep
<1> QED BY <1>5, <1>6, <1>7, <1>8, <1>9

\* The amoadd hands out 0 and 1, so exactly one hart spins.
LEMMA ExitAmoStep ==
  ASSUME IInv, ProgInv, NEW h \in Harts, ExitAmo(h)
  PROVE  ProgInv' /\ RunStep(h)
<1> USE ProgramAssumption
<1> USE DEF ProgInv, ProgTypeOK, PCs, Goto
<1>1. TypeOK BY DEF IInv
<1>2. /\ pc[h] = "amo"
      /\ pc' = [pc EXCEPT ![h] = IF mem[Exit] < 1 THEN "blt" ELSE "exit"]
      /\ UNCHANGED <<loaded, scOk, round, exited>>
      /\ mem' = [mem EXCEPT ![Exit] = mem[Exit] + 1]
  BY DEF ExitAmo, Amo
<1>3. mem'[Sem] = mem[Sem] /\ mem'[Exit] = mem[Exit] + 1 /\ mem'[Reg] = mem[Reg]
  BY <1>1, <1>2 DEF TypeOK
<1>4. \A g \in Harts : Inside(g)' = Inside(g)
  BY <1>2 DEF Inside
<1>5. ProgTypeOK'
  BY <1>2
<1>6. SemaphoreExact'
  BY <1>2, <1>3, <1>4 DEF SemaphoreExact
<1>7. RequestCoherent' /\ RoundInv' /\ LoopInv'
  BY <1>2, <1>3, <1>4 DEF RequestCoherent, RoundInv, LoopInv
<1>8. PICK g \in Harts : g # h /\ Harts = {g, h}
  OBVIOUS
<1>9. /\ mem[Exit] = IF Finished(g) THEN 1 ELSE 0
      /\ pc'[h] = (IF Finished(g) THEN "exit" ELSE "blt")
      /\ pc'[g] = pc[g]
      /\ Finished(g) => pc[g] = "blt"
  BY <1>2, <1>8 DEF ExitInv, Finished
<1>10. ExitInv'
  BY <1>3, <1>8, <1>9 DEF ExitInv, Finished
<1>11. mem[Exit] + 1 \in Values
  BY <1>9
<1>12. RunStep(h)
  BY <1>11 DEF ExitAmo, RunStep
<1> QED BY <1>5, <1>6, <1>7, <1>10, <1>12

LEMMA SysExitStep ==
  ASSUME IInv, ProgInv, NEW h \in Harts, SysExit(h)
  PROVE  ProgInv' /\ RunStep(h)
<1> USE ProgramAssumption
<1> USE DEF ProgInv, ProgTypeOK, PCs, Goto
<1>1. /\ pc[h] = "exit"
      /\ pc' = [pc EXCEPT ![h] = "done"]
      /\ exited' = TRUE
      /\ UNCHANGED <<mem, loaded, scOk, round>>
  BY DEF SysExit, Plain
<1>2. \A g \in Harts : Inside(g)' = Inside(g) /\ Finished(g)' = Finished(g)
  BY <1>1 DEF Inside, Finished
<1>3. ProgTypeOK'
  BY <1>1
<1>4. SemaphoreExact' /\ RequestCoherent' /\ RoundInv' /\ LoopInv'
  BY <1>1, <1>2 DEF SemaphoreExact, RequestCoherent, RoundInv, LoopInv
<1>5. ExitInv'
  BY <1>1, <1>2 DEF ExitInv
<1>6. RunStep(h)
  BY DEF SysExit, RunStep
<1> QED BY <1>3, <1>4, <1>5, <1>6

\* Steps of the kernel, of the debugger and of the lock's notification.
LEMMA OtherStep ==
  ASSUME ProgInv, UNCHANGED <<progVars, mem, loaded, scOk>>
  PROVE  ProgInv'
BY DEF progVars, ProgInv, ProgTypeOK, SemaphoreExact, RequestCoherent, ExitInv,
       RoundInv, LoopInv, Inside, Finished

-----------------------------------------------------------------------------
LEMMA ProgStepInv ==
  ASSUME IInv, ProgInv, [ProgNext]_allVars, Harts \subseteq Values
  PROVE  ProgInv' /\ [Next]_vars
<1>1. ASSUME NEW h \in Harts, ProgStep(h) PROVE ProgInv' /\ [Next]_vars
  <2>1. ProgInv' /\ RunStep(h)
    BY <1>1, SemInitStep, SemLrStep, SemBranchStep, SemScStep, ProgramDmaStep,
       ExitAmoStep, SysExitStep DEF ProgStep
  <2> QED BY <2>1 DEF Next
<1>2. ASSUME NEW p \in Threads, Kernel(p), UNCHANGED progVars
      PROVE  ProgInv' /\ [Next]_vars
  <2>1. ProgInv'
    BY <1>2, OtherStep DEF Kernel, Dispatch, WaitUntilUnlocked
  <2>2. Next
    BY <1>2 DEF Kernel, Next, RunStep, MasterStep, Threads
  <2> QED BY <2>1, <2>2
<1>3. ASSUME NEW h \in Harts, Debugger(h), UNCHANGED progVars
      PROVE  ProgInv' /\ [Next]_vars
  <2>1. ProgInv'
    BY <1>3, OtherStep DEF Debugger, Halt, Resume
  <2>2. Next
    BY <1>3 DEF Debugger, Next, RunStep, Environment
  <2> QED BY <2>1, <2>2
<1>4. ASSUME LockEventFires, UNCHANGED progVars PROVE ProgInv' /\ [Next]_vars
  BY <1>4, OtherStep DEF LockEventFires, Next
<1>5. CASE UNCHANGED allVars
  BY <1>5, OtherStep DEF allVars, vars
<1> QED BY <1>1, <1>2, <1>3, <1>4, <1>5 DEF ProgNext

\* Every behaviour of the program is a behaviour of the bus model, and keeps the
\* invariants of both.
THEOREM ProgramInvariance == ProgSpec => [](IInv /\ ProgInv)
<1>0. Harts \subseteq Values
  BY ProgramAssumption
<1>1. ProgInit => IInv /\ ProgInv
  BY ProgInitInv
<1>2. IInv /\ ProgInv /\ [ProgNext]_allVars => (IInv /\ ProgInv)'
  BY <1>0, ProgStepInv, StepIInv
<1> QED BY <1>1, <1>2, PTL DEF ProgSpec

\* dma_lock admits one hart at a time and its word is exact, for every window,
\* every number of driver calls, with traps and a debugger: sem_wait and sem_post.
THEOREM SemaphoreSafety == ProgSpec => []SemaphoreExact
<1>1. ProgInv => SemaphoreExact
  BY DEF ProgInv
<1> QED BY <1>1, ProgramInvariance, PTL

\* The register stores of two driver calls never mix (DMA.h, lines 76-123).
THEOREM RequestSafety == ProgSpec => []RequestCoherent
<1>1. ProgInv => RequestCoherent
  BY DEF ProgInv
<1> QED BY <1>1, ProgramInvariance, PTL

\* SYS_EXIT is executed by one hart, when the other has finished: bootstrap.S.
THEOREM ExitSafety == ProgSpec => []ExitAfterAll
<1>1. ProgInv => ExitAfterAll
  BY DEF ProgInv, ExitInv, RoundInv, ExitAfterAll
<1> QED BY <1>1, ProgramInvariance, PTL

\* The program's own state keeps its type.
THEOREM ProgramTypeCorrect == ProgSpec => []ProgTypeOK
<1>1. ProgInv => ProgTypeOK
  BY DEF ProgInv
<1> QED BY <1>1, ProgramInvariance, PTL

-----------------------------------------------------------------------------
(***************************************************************************)
(* Why no SC.W of the program fails: a window of at least four instructions*)
(* covers both loops of DMA.h, wherever the spin of sem_wait has left      *)
(* lr_sc_counter.                                                          *)
(***************************************************************************)
\* How far into its window each hart is.  A window that is open holds the lock
\* for dma_lock; a hart that returns to lr.w with an open window has seen 0, and
\* will see 0 again until the window closes, so a value other than 0 is always
\* the first load of a new window.
WindowInv ==
  \A h \in Harts :
    /\ counter[h] # 0 => lock = h /\ lrAddr[h] = Sem
    /\ pc[h] \notin {"w_lr", "w_beqz", "w_addi", "w_sc", "p_addi", "p_sc"} => counter[h] = 0
    /\ pc[h] = "w_lr" /\ counter[h] # 0 => loaded[h] = 0
    /\ pc[h] = "w_beqz" /\ loaded[h] # 0 => counter[h] = Window - 1
    /\ pc[h] = "p_addi" => counter[h] = Window - 1
    /\ pc[h] \in {"w_addi", "p_sc"} => counter[h] = Window - 2
    /\ pc[h] = "w_sc" => counter[h] = Window - 3
    /\ pc[h] \in {"w_bnez", "p_bnez"} => scOk[h]

\* Without traps, the end of an instruction counts down and does nothing else.
LEMMA RetireUntrapped ==
  ASSUME ~Trapping, NEW h \in Harts, NEW c \in 0..Window,
         NEW had \in BOOLEAN, NEW has \in BOOLEAN, Retire(h, c, had, has)
  PROVE  /\ counter' = [counter EXCEPT ![h] = IF c = 0 THEN 0 ELSE c - 1]
         /\ lock' = IF has /\ c # 1 THEN h ELSE IF lock = h THEN None ELSE lock
<1>1. PICK trap \in {FALSE, Trapping} :
        LET left == IF trap \/ c = 0 THEN 0 ELSE c - 1
            keep == has /\ ~trap /\ ~(c # 0 /\ left = 0)
        IN  /\ counter' = [counter EXCEPT ![h] = left]
            /\ lock' = IF keep THEN h ELSE IF lock = h THEN None ELSE lock
  BY DEF Retire
<1>2. trap = FALSE
  BY ThreadsAssumption
<1>3. counter' = [counter EXCEPT ![h] = IF c = 0 THEN 0 ELSE c - 1]
  BY <1>1, <1>2
<1>4. c # 0 /\ c - 1 = 0 <=> c = 1
  BY WindowAssumption
<1>5. lock' = IF has /\ c # 1 THEN h ELSE IF lock = h THEN None ELSE lock
  BY <1>1, <1>2, <1>4
<1> QED BY <1>3, <1>5

LEMMA WindowInit == ProgInit => WindowInv
<1> SUFFICES ASSUME ProgInit PROVE WindowInv
  OBVIOUS
<1>1. \A h \in Harts : counter[h] = 0 /\ pc[h] \in {"init", "w_lr"}
  BY DEF ProgInit, Init
<1> QED BY <1>1 DEF WindowInv

\* A step that changes neither the lock nor anything of the program.
LEMMA WindowOther ==
  ASSUME WindowInv, UNCHANGED <<progVars, counter, lock, lrAddr, loaded, scOk>>
  PROVE  WindowInv'
BY DEF WindowInv, progVars

LEMMA WindowLr ==
  ASSUME IInv, ProgInv, WindowInv, ~Trapping, Window >= 4, NEW h \in Harts, SemLr(h)
  PROVE  WindowInv'
<1> USE ProgramAssumption, WindowAssumption, ThreadsAssumption
<1> DEFINE c == IF counter[h] = 0 THEN Window ELSE counter[h]
<1>1. TypeOK /\ ProgTypeOK
  BY DEF IInv, ProgInv
<1>2. /\ pc[h] \in {"w_lr", "p_lr"}
      /\ pc' = [pc EXCEPT ![h] = IF pc[h] = "w_lr" THEN "w_beqz" ELSE "p_addi"]
      /\ lrAddr' = [lrAddr EXCEPT ![h] = Sem]
      /\ loaded' = [loaded EXCEPT ![h] = mem[Sem]]
      /\ scOk' = scOk
      /\ lock \in {None, h}
      /\ Retire(h, c, TRUE, TRUE)
  BY DEF SemLr, LoadReserved, Goto, Foreign
<1>3. c \in 1..Window /\ c \in 0..Window
  <2>1. counter[h] \in 0..Window
    BY <1>1 DEF TypeOK
  <2> QED BY <2>1
<1>4. /\ counter' = [counter EXCEPT ![h] = c - 1]
      /\ lock' = IF c # 1 THEN h ELSE IF lock = h THEN None ELSE lock
  <2> HIDE DEF c
  <2>1. /\ counter' = [counter EXCEPT ![h] = IF c = 0 THEN 0 ELSE c - 1]
        /\ lock' = IF TRUE /\ c # 1 THEN h ELSE IF lock = h THEN None ELSE lock
    BY <1>2, <1>3, RetireUntrapped
  <2>2. c # 0 /\ (IF c = 0 THEN 0 ELSE c - 1) = c - 1
    BY <1>3
  <2>3. counter' = [counter EXCEPT ![h] = c - 1]
    BY <2>1, <2>2
  <2> QED BY <2>1, <2>3
<1>5. /\ counter'[h] = c - 1 /\ lrAddr'[h] = Sem /\ loaded'[h] = mem[Sem]
      /\ pc'[h] = IF pc[h] = "w_lr" THEN "w_beqz" ELSE "p_addi"
      /\ counter'[h] # 0 => lock' = h
  BY <1>1, <1>2, <1>3, <1>4 DEF TypeOK, ProgTypeOK
<1>6. counter[h] # 0 => pc[h] = "w_lr" /\ mem[Sem] = 0
  <2>1. running = h
    BY DEF SemLr, LoadReserved
  <2> QED BY <1>2, <2>1, ReservedValue DEF WindowInv
<1>7. \A g \in Harts \ {h} :
        /\ counter'[g] = counter[g] /\ pc'[g] = pc[g] /\ loaded'[g] = loaded[g]
        /\ counter[g] = 0
  BY <1>1, <1>2, <1>4 DEF TypeOK, ProgTypeOK, WindowInv
<1>8. ASSUME NEW g \in Harts \ {h}
      PROVE  /\ pc[g] = "w_beqz" => loaded[g] = 0
             /\ pc[g] \notin {"w_addi", "w_sc", "p_addi", "p_sc"}
             /\ pc[g] \in {"w_bnez", "p_bnez"} => scOk[g]
  <2>1. g \in Harts /\ counter[g] = 0
    BY <1>7
  <2>2. Window - 1 # 0 /\ Window - 2 # 0 /\ Window - 3 # 0
    OBVIOUS
  <2>3. pc[g] = "w_beqz" => loaded[g] = 0
    BY <2>1, <2>2 DEF WindowInv
  <2>4. pc[g] \notin {"w_addi", "w_sc", "p_addi", "p_sc"}
    BY <2>1, <2>2 DEF WindowInv
  <2>5. pc[g] \in {"w_bnez", "p_bnez"} => scOk[g]
    BY <2>1 DEF WindowInv
  <2> QED BY <2>3, <2>4, <2>5
<1>9. counter'[h] = Window - 1 \/ (loaded'[h] = 0 /\ pc'[h] = "w_beqz")
  <2>1. CASE counter[h] = 0
    <3>1. c = Window
      BY <2>1
    <3>2. counter'[h] = c - 1
      BY <1>5
    <3>3. counter'[h] = Window - 1
      BY <3>1, <3>2, Zenon
    <3> QED BY <3>3
  <2>2. CASE counter[h] # 0
    <3>1. pc[h] = "w_lr" /\ mem[Sem] = 0
      BY <1>6, <2>2
    <3>2. loaded'[h] = mem[Sem] /\ pc'[h] = "w_beqz"
      BY <1>5, <3>1
    <3> QED BY <3>1, <3>2
  <2> QED BY <2>1, <2>2
<1> DEFINE Part(g) ==
      /\ counter'[g] # 0 => lock' = g /\ lrAddr'[g] = Sem
      /\ pc'[g] \notin {"w_lr", "w_beqz", "w_addi", "w_sc", "p_addi", "p_sc"} => counter'[g] = 0
      /\ pc'[g] = "w_lr" /\ counter'[g] # 0 => loaded'[g] = 0
      /\ pc'[g] = "w_beqz" /\ loaded'[g] # 0 => counter'[g] = Window - 1
      /\ pc'[g] = "p_addi" => counter'[g] = Window - 1
      /\ pc'[g] \in {"w_addi", "p_sc"} => counter'[g] = Window - 2
      /\ pc'[g] = "w_sc" => counter'[g] = Window - 3
      /\ pc'[g] \in {"w_bnez", "p_bnez"} => scOk'[g]
<1>10. Part(h)
  <2> HIDE DEF c
  <2>1. pc'[h] \in {"w_beqz", "p_addi"}
    BY <1>2, <1>5
  <2>2. pc'[h] = "p_addi" => counter'[h] = Window - 1
    BY <1>9
  <2> QED BY <1>5, <1>9, <2>1, <2>2
<1>11. ASSUME NEW g \in Harts \ {h} PROVE Part(g)
  BY <1>2, <1>7, <1>8
<1> QED BY <1>10, <1>11 DEF WindowInv

LEMMA WindowBranch ==
  ASSUME IInv, ProgInv, WindowInv, ~Trapping, Window >= 4, NEW h \in Harts, SemBranch(h)
  PROVE  WindowInv'
<1> USE ProgramAssumption, WindowAssumption, ThreadsAssumption
<1>1. TypeOK /\ ProgTypeOK
  BY DEF IInv, ProgInv
<1>2. /\ pc[h] \in {"w_beqz", "w_addi", "w_bnez", "p_addi", "p_bnez", "blt"}
      /\ pc' = [pc EXCEPT ![h] = NextPc(h)]
      /\ UNCHANGED <<lrAddr, loaded, scOk>>
      /\ Retire(h, counter[h], lock = h, lock = h)
  BY DEF SemBranch, Plain, Goto
<1>3. counter[h] \in 0..Window
  BY <1>1 DEF TypeOK
<1>4. /\ counter' = [counter EXCEPT ![h] = IF counter[h] = 0 THEN 0 ELSE counter[h] - 1]
      /\ lock' = IF lock = h /\ counter[h] # 1 THEN h ELSE IF lock = h THEN None ELSE lock
  BY <1>2, <1>3, RetireUntrapped
<1>5. /\ pc'[h] = NextPc(h)
      /\ counter'[h] = IF counter[h] = 0 THEN 0 ELSE counter[h] - 1
  BY <1>1, <1>2, <1>4 DEF TypeOK, ProgTypeOK
<1>6. \A g \in Harts \ {h} :
        /\ counter'[g] = counter[g] /\ pc'[g] = pc[g]
        /\ lock = g => lock' = g
  BY <1>1, <1>2, <1>4 DEF TypeOK, ProgTypeOK
<1>7. counter'[h] # 0 => lock' = h /\ lrAddr[h] = Sem
  BY <1>3, <1>4, <1>5 DEF WindowInv
<1>8. CASE pc[h] = "w_beqz"
  BY <1>2, <1>3, <1>5, <1>6, <1>7, <1>8 DEF WindowInv, NextPc
<1>9. CASE pc[h] \in {"w_addi", "p_addi"}
  BY <1>2, <1>3, <1>5, <1>6, <1>7, <1>9 DEF WindowInv, NextPc
<1>10. CASE pc[h] \in {"w_bnez", "p_bnez", "blt"}
  BY <1>2, <1>3, <1>5, <1>6, <1>7, <1>10 DEF WindowInv, NextPc
<1> QED BY <1>2, <1>8, <1>9, <1>10

LEMMA WindowSc ==
  ASSUME IInv, ProgInv, WindowInv, ~Trapping, Window >= 4, NEW h \in Harts, SemSc(h)
  PROVE  WindowInv'
<1> USE ProgramAssumption, WindowAssumption, ThreadsAssumption
<1>1. TypeOK /\ ProgTypeOK
  BY DEF IInv, ProgInv
<1>2. /\ pc[h] \in {"w_sc", "p_sc"}
      /\ pc' = [pc EXCEPT ![h] = IF pc[h] = "w_sc" THEN "w_bnez" ELSE "p_bnez"]
      /\ scOk' = [scOk EXCEPT ![h] = Succeeds(h, Sem)]
      /\ UNCHANGED <<lrAddr, loaded>>
      /\ Retire(h, 0, lock = h, FALSE)
  BY DEF SemSc, StoreConditional, Goto
<1>3. Succeeds(h, Sem) = TRUE
  BY <1>2 DEF WindowInv, Succeeds
<1>4. /\ counter' = [counter EXCEPT ![h] = 0]
      /\ lock' = IF lock = h THEN None ELSE lock
  <2>1. 0 \in 0..Window /\ (lock = h) \in BOOLEAN /\ FALSE \in BOOLEAN
    OBVIOUS
  <2>2. /\ counter' = [counter EXCEPT ![h] = IF 0 = 0 THEN 0 ELSE 0 - 1]
        /\ lock' = IF FALSE /\ 0 # 1 THEN h ELSE IF lock = h THEN None ELSE lock
    BY <1>2, <2>1, RetireUntrapped
  <2> QED BY <2>2
<1>5. /\ counter'[h] = 0 /\ scOk'[h] = TRUE
      /\ pc'[h] = IF pc[h] = "w_sc" THEN "w_bnez" ELSE "p_bnez"
  BY <1>1, <1>2, <1>3, <1>4 DEF TypeOK, ProgTypeOK
<1>6. \A g \in Harts \ {h} :
        /\ counter'[g] = counter[g] /\ pc'[g] = pc[g] /\ scOk'[g] = scOk[g]
        /\ lock = g => lock' = g
  BY <1>1, <1>2, <1>4 DEF TypeOK, ProgTypeOK
<1> QED BY <1>2, <1>5, <1>6 DEF WindowInv

\* Stores, the AMO and the last instruction are executed outside any window.
LEMMA WindowPlain ==
  ASSUME IInv, ProgInv, WindowInv, ~Trapping, Window >= 4, NEW h \in Harts,
         SemInit(h) \/ ProgramDma(h) \/ ExitAmo(h) \/ SysExit(h)
  PROVE  WindowInv'
<1> USE ProgramAssumption, WindowAssumption, ThreadsAssumption
<1>1. TypeOK /\ ProgTypeOK
  BY DEF IInv, ProgInv
<1>2. /\ pc[h] \in {"init", "src", "op", "amo", "exit"}
      /\ \E l \in {"w_lr", "op", "p_lr", "blt", "exit", "done"} :
           pc' = [pc EXCEPT ![h] = l]
      /\ UNCHANGED <<lrAddr, loaded, scOk>>
      /\ \E had \in BOOLEAN, has \in BOOLEAN :
           Retire(h, counter[h], had, has) /\ (has => lock = h)
  BY DEF SemInit, ProgramDma, ExitAmo, SysExit, Store, Amo, Plain, Goto
<1>3. counter[h] = 0
  BY <1>2 DEF WindowInv
<1>4. PICK had \in BOOLEAN, has \in BOOLEAN : Retire(h, 0, had, has) /\ (has => lock = h)
  BY <1>2, <1>3
<1>5. /\ counter' = [counter EXCEPT ![h] = 0]
      /\ lock' = IF has THEN h ELSE IF lock = h THEN None ELSE lock
  BY <1>4, RetireUntrapped
<1>6. counter'[h] = 0 /\ pc'[h] \in {"w_lr", "op", "p_lr", "blt", "exit", "done"}
  BY <1>1, <1>2, <1>5 DEF TypeOK, ProgTypeOK
<1>7. \A g \in Harts \ {h} :
        /\ counter'[g] = counter[g] /\ pc'[g] = pc[g]
        /\ lock = g => lock' = g
  BY <1>1, <1>2, <1>4, <1>5 DEF TypeOK, ProgTypeOK
<1> QED BY <1>2, <1>6, <1>7 DEF WindowInv

LEMMA WindowStep ==
  ASSUME IInv, ProgInv, WindowInv, ~Trapping, Window >= 4, [ProgNext]_allVars
  PROVE  WindowInv'
<1>1. ASSUME NEW h \in Harts, ProgStep(h) PROVE WindowInv'
  BY <1>1, WindowLr, WindowBranch, WindowSc, WindowPlain DEF ProgStep
<1>2. ASSUME NEW p \in Threads, Kernel(p), UNCHANGED progVars PROVE WindowInv'
  BY <1>2, WindowOther DEF Kernel, Dispatch, WaitUntilUnlocked
<1>3. ASSUME NEW h \in Harts, Debugger(h), UNCHANGED progVars PROVE WindowInv'
  BY <1>3, WindowOther DEF Debugger, Halt, Resume
<1>4. ASSUME LockEventFires, UNCHANGED progVars PROVE WindowInv'
  BY <1>4, WindowOther DEF LockEventFires
<1>5. CASE UNCHANGED allVars
  BY <1>5, WindowOther DEF allVars, vars
<1> QED BY <1>1, <1>2, <1>3, <1>4, <1>5 DEF ProgNext

\* No SC.W of sem_wait or sem_post fails (DMA.h) when no trap ends the window, for
\* every window of four or more instructions, with or without a debugger: the 17
\* of iss.cpp are more than enough.
THEOREM NoScFails ==
  ASSUME Window >= 4
  PROVE  ProgSpec => []ForwardProgress
<1>1. ProgInit => (~Trapping => WindowInv)
  BY WindowInit
<1>2. /\ IInv /\ ProgInv /\ (~Trapping => WindowInv)
      /\ [ProgNext]_allVars
      => (~Trapping => WindowInv)'
  BY WindowStep
<1>3. ProgInv /\ (~Trapping => WindowInv) => ForwardProgress
  BY DEF WindowInv, ForwardProgress
<1> QED BY <1>1, <1>2, <1>3, ProgramInvariance, PTL DEF ProgSpec
=============================================================================
