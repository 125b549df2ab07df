------------------------- MODULE MCRequestCharging --------------------------
(***************************************************************************)
(* RequestCharging for TLC.  Requests are interchangeable; every property  *)
(* is a safety property, so the symmetry is sound.                         *)
(***************************************************************************)
EXTENDS RequestCharging, TLC

AnyOrder == Permutations(Requests)

=============================================================================
