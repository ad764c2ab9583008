------------------------------ MODULE Population ------------------------------
(***************************************************************************)
(* The people a set of failed assets affects (simulation/population.py).   *)
(* An asset has_area when its position and a radius are known.  Areas are   *)
(* circles about positions that are projected anew around the mean of the  *)
(* assets at hand, so that which of them overlap, and by how much, depends *)
(* on these: area[L][v] is the set of cells, of equal size, that v serves  *)
(* when L are the assets placed on the map.                                *)
(***************************************************************************)
EXTENDS Integers, FiniteSetsExt, Functions

CONSTANTS
  StudyAreaCap,   \* STUDY_AREA_POPULATION_CAP
  AreaUnit        \* a multiple of every number of cells an area has

\* Python's round(n / d): halves go to the even neighbour.
Round(n, d) ==
  LET q == n \div d
      r == n % d
  IN  IF 2 * r < d \/ (2 * r = d /\ q % 2 = 0) THEN q ELSE q + 1

\* The assets of located on the map, each with its area around their mean.
Placed(g, located) ==
  [population_served |-> g.population_served, area |-> g.area[located]]

\* People per cell, times AreaUnit.
Density(g, v) == g.population_served[v] * (AreaUnit \div Cardinality(g.area[v]))

\* Faulty: the largest population first, not the densest.
LargestFirst(g, u, v) ==
  \/ g.population_served[u] > g.population_served[v]
  \/ g.population_served[u] = g.population_served[v] /\ u < v

\* The order of the pass: the densest first.
Denser(g, u, v) ==
  \/ Density(g, u) > Density(g, v)
  \/ Density(g, u) = Density(g, v) /\ u < v

\* _deduplicate: one pass, each asset counts the part that nobody before it has
\* claimed.
Deduplicate(g, located) ==
  LET claimed(v) == UNION {g.area[u] : u \in {w \in located : Denser(g, w, v)}}
  IN  Round(SumFunctionOnSet([v \in located |-> Density(g, v) * Cardinality(g.area[v] \ claimed(v))],
                             located), AreaUnit)

People(g, S) == SumFunctionOnSet(g.population_served, S)

Least(a, b) == IF a <= b THEN a ELSE b

calculate_population_impact(g, failed) ==
  LET populated == {v \in failed : g.population_served[v] > 0}
      located == {v \in populated : g.has_area[v]}
      unlocatable == populated \ located
      deduplicated == Deduplicate(Placed(g, located), located) + People(g, unlocatable)
      preCap == IF located = {} THEN People(g, failed) ELSE deduplicated
      unresolved == Cardinality(unlocatable) + (IF located # {} THEN 1 ELSE 0)
  IN  [raw_population_affected      |-> People(g, failed),
       dedup_method                 |-> IF located = {} THEN "additive"
                                        ELSE IF unlocatable # {} THEN "partial" ELSE "spatial",
       population_affected_estimate |-> Least(preCap, StudyAreaCap),
       is_population_capped         |-> preCap > StudyAreaCap,
       pre_cap                      |-> preCap,
       has_unresolved_overlap       |-> Cardinality(populated) >= 2 /\ unresolved >= 2]

\* What it promises (its docstring): every resident once, with the density of
\* the densest asset that serves the cell.
ResidentsOnce(g, located) ==
  LET cells == UNION {g.area[v] : v \in located}
  IN  Round(SumFunctionOnSet(
              [c \in cells |-> Max({Density(g, v) : v \in {u \in located : c \in g.area[u]}})],
              cells), AreaUnit)
===============================================================================
