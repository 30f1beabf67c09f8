--------------------------- MODULE MCFeatureHash ---------------------------
(***************************************************************************)
(* All the features a column of four lanes can have, in one table; and of  *)
(* eight lanes those that write one location, and any one beside them.     *)
(***************************************************************************)
EXTENDS FeatureHash

Four == INSTANCE Features WITH Vector <- 4

(* Indices below 5 give every mask of a gather of four lanes: nothing      *)
(* depends on more than their differences and on whether one load reaches  *)
(* all of them.                                                            *)
GatherMasks4 == {Packed(Four!GatherInfo(v)) : v \in [Four!Lane -> 0 .. 4]}
RowMasks4 ==
  LET rows == {v \in [Four!Lane -> 0 .. 3] : ~ Four!ReductionUnsupported(v)}
  IN {<<Packed(Four!ScatterInfo(v)), Packed(Four!ReductionInfo(v))>> : v \in rows}

AllFeatures4 == {<<g, r[1], r[2]>> : g \in GatherMasks4, r \in RowMasks4}

-----------------------------------------------------------------------------
(* Eight lanes.  In order: every walk with steps of 0 and 1.               *)
Walks8 ==
  {[l \in Lane |-> Cardinality({m \in 1 .. l : s[m] = 1})] : s \in [1 .. Vector - 1 -> {0, 1}]}

(* In disorder, with n lanes that are equal and no other two: with up to   *)
(* seven of them, reductions of every number of rounds.                    *)
Equals8(n) == [l \in Lane |-> IF l < n THEN 0 ELSE 9 - l]

(* In disorder, with indices one load reaches or does not.                 *)
Gathers8 == Walks8 \cup {[l \in Lane |-> Vector * d - d * l] : d \in {1, 2}}
Rows8    == Walks8 \cup {Equals8(n) : n \in 1 .. Vector - 1}

FeaturesOf(gathers, rows) ==
  {<<Packed(GatherInfo(g)), Packed(ScatterInfo(r)), Packed(ReductionInfo(r))>> :
     g \in gathers, r \in rows}

AllFeatures8 == FeaturesOf(Gathers8, Rows8)

(* Those of columns that write one location.                               *)
EquelFeatures8 == FeaturesOf(Gathers8, {[l \in Lane |-> 0]})

HashTables ==
  {[present |-> AllFeatures4, further |-> {}],
   [present |-> EquelFeatures8, further |-> AllFeatures8 \ EquelFeatures8]}
=============================================================================
