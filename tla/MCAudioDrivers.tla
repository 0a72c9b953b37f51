---------------------------- MODULE MCAudioDrivers ----------------------------
(***************************************************************************)
(* Model values that differ by name only may be exchanged: no property of  *)
(* AudioDrivers is about liveness.                                         *)
(***************************************************************************)
EXTENDS AudioDrivers, FiniteSets, TLC

Symmetry ==
  Permutations(PcmController) \cup Permutations(PcmAddress) \cup Permutations(BusController)
    \cup Permutations(Child) \cup Permutations(BusAddress)

(* Bound: agents hold one interface at a time. *)
OneHeld == Cardinality(held) <= 1
=============================================================================
