----------------------------- MODULE AtomicMemory -----------------------------
(***************************************************************************)
(* What the memory system promises the harts: the load-reserved /          *)
(* store-conditional rules of the RISC-V "A" extension that sem_wait and   *)
(* sem_post of the bare-metal software rely on.  A hart holds at most one  *)
(* reservation; a write to the reserved word by anybody ends it; a         *)
(* store-conditional writes only under a reservation of that word.  A      *)
(* reservation may be lost at any time, and a store-conditional may fail.  *)
(* LrScBus, the module of the bus lock that implements reservations, is    *)
(* shown to implement this one.                                            *)
(***************************************************************************)
CONSTANTS
  Harts,    \* the processor cores
  Addrs,    \* words of memory
  Values,   \* what a word can hold
  NoAddr    \* stands for "no reservation"

VARIABLES
  mem,      \* the memory, word by word
  reserved, \* the word each hart has reserved, or NoAddr
  loaded,   \* the value each hart's last load-reserved returned
  scOk      \* whether each hart's last store-conditional wrote

vars == <<mem, reserved, loaded, scOk>>

Init ==
  /\ mem \in [Addrs -> Values]
  /\ reserved = [h \in Harts |-> NoAddr]
  /\ loaded \in [Harts -> Values]
  /\ scOk = [h \in Harts |-> FALSE]

\* The reservations after a write to a, when those of D are given up as well.
Surviving(a, D) ==
  [g \in Harts |-> IF reserved[g] = a \/ g \in D THEN NoAddr ELSE reserved[g]]

\* A load-reserved returns the word; the reservation may be lost at once.
LoadReserved(h, a) ==
  /\ loaded' = [loaded EXCEPT ![h] = mem[a]]
  /\ \E r \in {a, NoAddr} : reserved' = [reserved EXCEPT ![h] = r]
  /\ UNCHANGED <<mem, scOk>>

\* A store-conditional that succeeds, under a reservation of the very word.
ConditionalWrite(h, a, v) ==
  /\ reserved[h] = a
  /\ mem' = [mem EXCEPT ![a] = v]
  /\ reserved' = Surviving(a, {h})
  /\ scOk' = [scOk EXCEPT ![h] = TRUE]
  /\ UNCHANGED loaded

\* A store-conditional that fails leaves the memory alone.
ConditionalFail(h) ==
  /\ reserved' = [reserved EXCEPT ![h] = NoAddr]
  /\ scOk' = [scOk EXCEPT ![h] = FALSE]
  /\ UNCHANGED <<mem, loaded>>

\* An ordinary store, an atomic read-modify-write or the write of a device.
Write(a, v) ==
  /\ mem' = [mem EXCEPT ![a] = v]
  /\ \E D \in SUBSET Harts : reserved' = Surviving(a, D)
  /\ UNCHANGED <<loaded, scOk>>

\* A reservation is lost: a trap, a wait for interrupt, the end of the window.
Lose(h) ==
  /\ reserved' = [reserved EXCEPT ![h] = NoAddr]
  /\ UNCHANGED <<mem, loaded, scOk>>

Next ==
  \/ \E h \in Harts :
       \/ \E a \in Addrs : LoadReserved(h, a)
       \/ \E a \in Addrs, v \in Values : ConditionalWrite(h, a, v)
       \/ ConditionalFail(h)
       \/ Lose(h)
  \/ \E a \in Addrs, v \in Values : Write(a, v)

Spec == Init /\ [][Next]_vars
=============================================================================
