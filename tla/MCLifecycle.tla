------------------------------ MODULE MCLifecycle ------------------------------
(***************************************************************************)
(* Instances of the run lifecycle for TLC.  Simulations, failure sets and  *)
(* workers are interchangeable: the specification treats all of them alike,*)
(* so the safety runs use their permutations.  The liveness runs do not.   *)
(***************************************************************************)
EXTENDS SimulationLifecycle, TLC

Symmetry ==
  Permutations(Simulation) \cup Permutations(FailureSet) \cup Permutations(Worker)

SafetySpec == Init /\ [][Next]_vars

================================================================================
