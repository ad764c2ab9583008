----------------------------- MODULE RecoveryPlan -----------------------------
(***************************************************************************)
(* The restoration order the front end derives from a completed run        *)
(* (frontend/src/demo/recovery.ts).  A run's waves are a sequence of       *)
(* sequences of assets; its first wave is its initial failures, as the     *)
(* engine records them, and no asset is in two waves (Cascade,             *)
(* WavesPartitionFailures), so the asset groups of the source are the      *)
(* waves and its defensive group of orphans is empty.                      *)
(***************************************************************************)
EXTENDS Naturals, SequencesExt

FailedNodeIdsForResult(waves) == UNION {ToSet(waves[i]) : i \in DOMAIN waves}

\* No stage restores more than this many assets: a quarter, rounded up.
Limit(total) == Max({1, (total + 3) \div 4})

\* A wave cut into pieces of at most limit assets, in order.
Chunk(ids, limit) ==
  [i \in 1 .. (Len(ids) + limit - 1) \div limit |->
     SubSeq(ids, (i - 1) * limit + 1, Min({i * limit, Len(ids)}))]

Batches(waves) ==
  LET total == Cardinality(FailedNodeIdsForResult(waves))
  IN  FlattenSeq([w \in DOMAIN waves |-> Chunk(waves[w], Limit(total))])

RECOVERY_MILESTONES == {20, 70, 100}

\* Math.round of 100 * restored / total; the source's floating point may round
\* a tie of them down.
PercentRestored(restored, total) == (200 * restored + total) \div (2 * total)

\* The highest milestone that stage i is the first to reach, 0 if there is none.
Milestone(percents, i) ==
  Max({0} \cup {m \in RECOVERY_MILESTONES :
                  percents[i] >= m /\ \A j \in 1 .. i - 1 : percents[j] < m})

\* The stages: what is back, in all, after each of them.  The caption of a
\* stage, which also names its milestone, calls it fully restored at 100.
BuildRecoveryPlan(waves) ==
  LET batches == Batches(waves)
      total == Cardinality(FailedNodeIdsForResult(waves))
      back == [i \in DOMAIN batches |-> ToSet(FlattenSeq(SubSeq(batches, 1, i)))]
      percents == [i \in DOMAIN batches |-> PercentRestored(Cardinality(back[i]), total)]
  IN  [i \in DOMAIN batches |->
         [restoredNodeIds |-> back[i], percentRestored |-> percents[i],
          milestone |-> Milestone(percents, i)]]
===============================================================================
