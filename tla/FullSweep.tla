------------------------------- MODULE FullSweep -------------------------------
(***************************************************************************)
(* What run_cascade promises (its docstring, cascade.py:97-121): a cascade *)
(* is a sequence of waves, each of them one indivisible step.  The wave    *)
(* fails as a whole, all it sheds arrives at once, and the next wave is    *)
(* decided by examining EVERY survivor.                                    *)
(***************************************************************************)
EXTENDS CascadeRules

CONSTANTS Networks, InitialFailures, MaxWaves

VARIABLES
  net, enforce, max_waves,  \* the arguments of the run
  idx,                      \* number of waves so far
  failed,                   \* everything that failed in them
  wave,                     \* the assets that fail next
  load,                     \* load of every asset
  verdict                   \* "none" until the run returns

vars == <<net, enforce, max_waves, idx, failed, wave, load, verdict>>

Init ==
  /\ net \in Networks
  /\ enforce \in BOOLEAN
  /\ max_waves \in MaxWaves
  /\ idx = 0
  /\ failed = {}
  /\ wave \in InitialFailures
  /\ load = net.load
  /\ verdict = "none"

Wave ==
  /\ verdict = "none"
  /\ wave # {} /\ wave \subseteq Node
  /\ idx < max_waves
  /\ failed' = failed \cup wave
  /\ load' = [v \in Node |-> IF v \in failed' THEN load[v]
                             ELSE load[v] + Received(net, load, wave, failed', v)]
  /\ wave' = {v \in Node \ failed' : Fails(net, enforce, load', failed', v)}
  /\ idx' = idx + 1
  /\ UNCHANGED <<net, enforce, max_waves, verdict>>

Stop ==
  /\ verdict = "none"
  /\ wave \subseteq Node
  /\ wave = {} \/ idx >= max_waves
  /\ verdict' = IF wave = {} THEN "stabilized" ELSE "truncated"
  /\ UNCHANGED <<net, enforce, max_waves, idx, failed, wave, load>>

Next == Wave \/ Stop

(* The steps a cascade may take, and that it goes on taking them.           *)
Safety == Init /\ [][Next]_vars

Spec == Safety /\ WF_vars(Next)

================================================================================
