--------------------------- MODULE CascadeRefinement ---------------------------
(***************************************************************************)
(* The wave loop implements the full sweep: a wave takes effect at Settle, *)
(* and the steps before it are invisible.                                  *)
(***************************************************************************)
EXTENDS Cascade

(* Until its wave is settled, a latched asset counts as not yet failed.     *)
FailedBefore == IF phase = "shed" THEN failed \ failed_in_wave ELSE failed

Verdict ==
  IF phase # "done" THEN "none"
  ELSE IF stabilized THEN "stabilized" ELSE "truncated"

Sweep == INSTANCE FullSweep WITH
  failed <- FailedBefore, wave <- failed_in_wave, verdict <- Verdict

(* No asset observes a half-applied wave, and neither the order in which a  *)
(* wave is walked nor the frontier shows in the outcome (cascade.py:97-103, *)
(* 214-220): every run is a run of the full sweep, which also returns.      *)
ImplementsFullSweep == Sweep!Spec

================================================================================
