------------------------------ MODULE SemProgram ------------------------------
(***************************************************************************)
(* The bare-metal program of the two-core platforms at the level of its    *)
(* synchronisation: sem_init, sem_wait and sem_post of DMA.h as the        *)
(* instruction sequences they are, around the programming of the DMA, and  *)
(* the exit protocol of bootstrap.S.  The instructions are those of        *)
(* LrScBus; this module adds the program counters.                         *)
(*                                                                         *)
(* Each hart calls the driver Rounds times.  Of the four stores to the DMA *)
(* registers between sem_wait and sem_post the first and the last are      *)
(* kept: they are what two harts could mix.                                *)
(***************************************************************************)
EXTENDS LrScBus

CONSTANTS
  Sem,      \* the address of dma_lock
  Exit,     \* the address of exit_counter
  Reg,      \* the registers of the DMA
  Rounds    \* how often each hart calls the driver (bound)

ASSUME ProgramAssumption ==
  /\ Harts = {0, 1}
  /\ {Sem, Exit, Reg} \subseteq Addrs
  /\ Sem # Exit /\ Sem # Reg /\ Exit # Reg
  /\ {0, 1, 2} \subseteq Values
  /\ Rounds \in Nat \ {0}

VARIABLES
  pc,      \* where each hart is
  round,   \* how many calls of the driver each hart has completed
  exited   \* SYS_EXIT has stopped the simulation

progVars == <<pc, round, exited>>
allVars == <<vars, progVars>>

\* "init": sem_init; "w_...": sem_wait; "src", "op": the first and last register
\* store; "p_...": sem_post; "amo", "blt", "exit": bootstrap.S after main.
PCs == {"init", "w_lr", "w_beqz", "w_addi", "w_sc", "w_bnez", "src", "op",
        "p_lr", "p_addi", "p_sc", "p_bnez", "amo", "blt", "exit", "done"}

ProgInit ==
  /\ Init
  /\ mem = [a \in Addrs |-> 0]
  /\ pc = [h \in Harts |-> IF h = 0 THEN "init" ELSE "w_lr"]
  /\ round = [h \in Harts |-> 0]
  /\ exited = FALSE

Goto(h, l) == pc' = [pc EXCEPT ![h] = l]

\* sem_init: a plain store, while the other hart may already be in sem_wait.
SemInit(h) ==
  /\ pc[h] = "init"
  /\ Store(h, Sem, 1)
  /\ Goto(h, "w_lr")
  /\ UNCHANGED <<round, exited>>

\* lr.w of sem_wait and of sem_post.
SemLr(h) ==
  /\ pc[h] \in {"w_lr", "p_lr"}
  /\ LoadReserved(h, Sem)
  /\ Goto(h, IF pc[h] = "w_lr" THEN "w_beqz" ELSE "p_addi")
  /\ UNCHANGED <<round, exited>>

\* Faulty: bnez of sem_wait left out.
NextPcUnchecked(h) ==
  CASE pc[h] = "w_beqz" -> IF loaded[h] = 0 THEN "w_lr" ELSE "w_addi"
    [] pc[h] \in {"w_addi", "w_bnez"} -> IF pc[h] = "w_addi" THEN "w_sc" ELSE "src"
    [] pc[h] = "p_addi" -> "p_sc"
    [] pc[h] = "p_bnez" -> IF ~scOk[h] THEN "p_lr"
                           ELSE IF round[h] < Rounds THEN "w_lr" ELSE "amo"
    [] pc[h] = "blt"    -> "blt"

\* Faulty: the loop around the driver calls runs once too often.
NextPcOnceMore(h) ==
  CASE pc[h] = "w_beqz" -> IF loaded[h] = 0 THEN "w_lr" ELSE "w_addi"
    [] pc[h] = "w_addi" -> "w_sc"
    [] pc[h] = "w_bnez" -> IF scOk[h] THEN "src" ELSE "w_lr"
    [] pc[h] = "p_addi" -> "p_sc"
    [] pc[h] = "p_bnez" -> IF ~scOk[h] THEN "p_lr"
                           ELSE IF round[h] <= Rounds THEN "w_lr" ELSE "amo"
    [] pc[h] = "blt"    -> "blt"

\* The instructions of the two loops that touch no memory, and the branch of
\* bootstrap.S, which tests a register that nothing changes.
NextPc(h) ==
  CASE pc[h] = "w_beqz" -> IF loaded[h] = 0 THEN "w_lr" ELSE "w_addi"
    [] pc[h] = "w_addi" -> "w_sc"
    [] pc[h] = "w_bnez" -> IF scOk[h] THEN "src" ELSE "w_lr"
    [] pc[h] = "p_addi" -> "p_sc"
    [] pc[h] = "p_bnez" -> IF ~scOk[h] THEN "p_lr"
                           ELSE IF round[h] < Rounds THEN "w_lr" ELSE "amo"
    [] pc[h] = "blt"    -> "blt"

SemBranch(h) ==
  /\ pc[h] \in {"w_beqz", "w_addi", "w_bnez", "p_addi", "p_bnez", "blt"}
  /\ Plain(h)
  /\ Goto(h, NextPc(h))
  /\ UNCHANGED <<round, exited>>

\* sc.w of sem_wait takes the semaphore, that of sem_post gives it back.
SemSc(h) ==
  /\ pc[h] \in {"w_sc", "p_sc"}
  /\ StoreConditional(h, Sem, IF pc[h] = "w_sc" THEN loaded[h] - 1 ELSE loaded[h] + 1)
  /\ Goto(h, IF pc[h] = "w_sc" THEN "w_bnez" ELSE "p_bnez")
  /\ round' = [round EXCEPT ![h] =
                 IF pc[h] = "p_sc" /\ Succeeds(h, Sem) THEN @ + 1 ELSE @]
  /\ UNCHANGED exited

\* The stores that program the DMA; the value tells whose request it is.
ProgramDma(h) ==
  /\ pc[h] \in {"src", "op"}
  /\ Store(h, Reg, h)
  /\ Goto(h, IF pc[h] = "src" THEN "op" ELSE "p_lr")
  /\ UNCHANGED <<round, exited>>

\* Faulty: the branch of bootstrap.S compares with one too few, or one too many.
ExitAmoEarly(h) ==
  /\ pc[h] = "amo"
  /\ Amo(h, Exit, mem[Exit] + 1)
  /\ Goto(h, IF mem[Exit] < 0 THEN "blt" ELSE "exit")
  /\ UNCHANGED <<round, exited>>

ExitAmoLate(h) ==
  /\ pc[h] = "amo"
  /\ Amo(h, Exit, mem[Exit] + 1)
  /\ Goto(h, IF mem[Exit] < 2 THEN "blt" ELSE "exit")
  /\ UNCHANGED <<round, exited>>

\* amoadd.w of bootstrap.S: the hart that finds the counter at zero spins.
ExitAmo(h) ==
  /\ pc[h] = "amo"
  /\ Amo(h, Exit, mem[Exit] + 1)
  /\ Goto(h, IF mem[Exit] < 1 THEN "blt" ELSE "exit")
  /\ UNCHANGED <<round, exited>>

\* SYS_EXIT: the store to the syscall handler stops the simulation.
SysExit(h) ==
  /\ pc[h] = "exit"
  /\ Plain(h)
  /\ Goto(h, "done")
  /\ exited' = TRUE
  /\ UNCHANGED round

ProgStep(h) ==
  \/ SemInit(h) \/ SemLr(h) \/ SemBranch(h) \/ SemSc(h)
  \/ ProgramDma(h) \/ ExitAmo(h) \/ SysExit(h)

\* What LrScBus does besides executing the program.
Kernel(p) == Dispatch(p) \/ WaitUntilUnlocked(p)
Debugger(h) == Halt(h) \/ Resume(h)

ProgNext ==
  /\ ~exited
  /\ \/ \E h \in Harts : ProgStep(h)
     \/ /\ UNCHANGED progVars
        /\ \/ \E p \in Threads : Kernel(p)
           \/ \E h \in Harts : Debugger(h)
           \/ LockEventFires

ProgSpec == ProgInit /\ [][ProgNext]_allVars

\* The kernel is fair to runnable threads, and a quantum is finite (see LrScBus).
ProgFairness ==
  /\ \A h \in Harts :
       /\ WF_allVars(ProgNext /\ ProgStep(h))
       /\ SF_allVars(ProgNext /\ ProgStep(h) /\ running' = None)
  /\ \A p \in Threads : SF_allVars(ProgNext /\ Dispatch(p) /\ UNCHANGED progVars)

ProgFairSpec == ProgSpec /\ ProgFairness

-----------------------------------------------------------------------------
ProgTypeOK ==
  /\ pc \in [Harts -> PCs]
  /\ round \in [Harts -> 0..Rounds]
  /\ exited \in BOOLEAN

\* A hart is inside from the store-conditional that takes the semaphore to the
\* one that gives it back.
Inside(h) ==
  \/ pc[h] \in {"src", "op", "p_lr", "p_addi", "p_sc"}
  \/ pc[h] = "w_bnez" /\ scOk[h]
  \/ pc[h] = "p_bnez" /\ ~scOk[h]

\* dma_lock admits one hart, and its word says whether one is inside: no wait or
\* post is lost or counted twice, whatever the quantum, traps or a debugger do.
SemaphoreExact ==
  /\ \A g, h \in Harts : Inside(g) /\ Inside(h) => g = h
  /\ mem[Sem] = IF pc[0] # "init" /\ \A h \in Harts : ~Inside(h) THEN 1 ELSE 0

\* The four register stores of one driver call are never interleaved with those
\* of the other hart ("dma lock for dma access", DMA.h).
RequestCoherent ==
  \A h \in Harts : pc[h] = "op" => mem[Reg] = h

\* SYS_EXIT is reached when every hart has finished its work, and by one hart
\* ("wait until all two cores have finished", bootstrap.S).
ExitAfterAll ==
  \A h \in Harts : pc[h] \in {"exit", "done"} =>
    \A g \in Harts \ {h} : pc[g] = "blt" /\ round[g] = Rounds

\* The load-reserved window is long enough for both loops: without traps no SC.W
\* of the program ever fails, although a spin in sem_wait leaves lr_sc_counter at
\* an arbitrary value (the word cannot become free before the window closes).
ForwardProgress ==
  ~Trapping => \A h \in Harts : pc[h] \in {"w_bnez", "p_bnez"} => scOk[h]

\* Both harts get through all their driver calls and the simulation ends.
Termination == <>exited
=============================================================================
