----------------------------- MODULE MCSchedule -----------------------------
(***************************************************************************)
(* Model checking of Schedule on small instances.  The configurations give *)
(* the constants; model values stand for addresses and call bodies.        *)
(***************************************************************************)
EXTENDS ScheduleRefinement, TLC

\* Addresses that no configuration with LongSigners = {} tells apart.
Symmetry == Permutations(Signers) \cup Permutations(Contracts)
=============================================================================
