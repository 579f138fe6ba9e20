------------------------- MODULE MCFlightLifecycle -------------------------
(* FlightLifecycle with positions runs that differ in name only. *)
EXTENDS FlightLifecycle, TLC

Symmetry == Permutations(Ticks)
=============================================================================
