----------------------------- MODULE MCFe310Plic -----------------------------
(***************************************************************************)
(* Two harts, one of which handles, and two interrupts; the enables of the *)
(* harts overlap in the register view.                                     *)
(***************************************************************************)
EXTENDS Fe310Plic
=============================================================================
