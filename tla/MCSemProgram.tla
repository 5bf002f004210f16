---------------------------- MODULE MCSemProgram ----------------------------
(***************************************************************************)
(* The two harts of the platform, by their hart numbers.                   *)
(***************************************************************************)
EXTENDS SemProgram

TwoHarts == {0, 1}
NoMasters == {}
=============================================================================
