-------------------------------- MODULE MCClint --------------------------------
(***************************************************************************)
(* Two harts, two ticks per unit of mtime, and comparands that turn the    *)
(* timer off (0), are reached (2), and make the delay wrap around (7); on  *)
(* the way from one to another they also pass through the largest value.   *)
(***************************************************************************)
EXTENDS Clint
=============================================================================
