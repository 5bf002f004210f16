----------------------------- MODULE GoldenLayers -----------------------------
(***************************************************************************)
(* What the row-based accelerators promise the program: each hart reads    *)
(* the outputs of its part of every layer, all of them, in order.          *)
(***************************************************************************)
EXTENDS Naturals, Sequences

CONSTANTS
  Harts,
  Golden   \* for each hart the outputs it should read

VARIABLE got

Init == got = [h \in Harts |-> <<>>]

Read(h) ==
  /\ Len(got[h]) < Len(Golden[h])
  /\ got' = [got EXCEPT ![h] = Append(@, Golden[h][Len(@) + 1])]

Next == \E h \in Harts : Read(h)

Spec == Init /\ [][Next]_got
=============================================================================
