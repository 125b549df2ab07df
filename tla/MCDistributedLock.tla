------------------------- MODULE MCDistributedLock --------------------------
(***************************************************************************)
(* DistributedLock for TLC.  The clients are interchangeable; every        *)
(* property is a safety property, so the symmetry is sound.                *)
(***************************************************************************)
EXTENDS DistributedLock, TLC

AnyOrder == Permutations(Clients)

=============================================================================
