--------------------------- MODULE DynVec_proofs ---------------------------
(***************************************************************************)
(* Proofs about DynVec, up to the arrays that transform_data fills: what   *)
(* is proved of the feature table holds of the one compiler() builds, each *)
(* column is visited once by the walks over its two maps, and what a visit *)
(* writes is within what was counted for it.                               *)
(***************************************************************************)
EXTENDS DynVec, VectorCode_proofs

-----------------------------------------------------------------------------
(* malloc_new_data counts the sum over all columns, ...                    *)
LEMMA NeedOfColumns ==
  ASSUME NEW name, name # "scatter", IsFiniteSet(Column),
         \A c \in Column : Transform!NeedOf(name, c) \in Nat
  PROVE  Transform!NeedDataNum(name) =
           Weight([c \in Column |-> Transform!NeedOf(name, c)], Column)
<1> DEFINE g == [c \in Column |-> Transform!NeedOf(name, c)]
           Solves(iter) ==
             iter = [s \in SUBSET Column |->
                       IF s = {} THEN 0
                       ELSE Transform!NeedOf(name, CHOOSE x \in s : TRUE)
                              + iter[s \ {CHOOSE x \in s : TRUE}]]
<1>1. ASSUME NEW iter PROVE Solves(iter) <=> SumsUp(iter, g, Column)
  <2>1. \A s \in SUBSET Column : s # {} => g[Pick(s)] = Transform!NeedOf(name, CHOOSE x \in s : TRUE)
    BY PickIn DEF Pick
  <2> QED BY <2>1 DEF SumsUp, Pick
<1>2. \A c \in Column : g[c] \in Nat
  OBVIOUS
<1>3. SumsUp([s \in SUBSET Column |-> Weight(g, s)], g, Column)
  BY <1>2, SumExists
<1>4. Transform!NeedDataNum(name) = (CHOOSE iter : Solves(iter))[Column]
  BY DEF Transform!NeedDataNum, Transform!MapThenSumSet, Transform!MapThenFoldSet, Transform!Column, Column
<1> HIDE DEF Solves, g
<1>5. Solves(CHOOSE iter : Solves(iter))
  BY <1>1, <1>3
<1>6. SumsUp(CHOOSE iter : Solves(iter), g, Column)
  BY <1>1, <1>5
<1>7. (CHOOSE iter : Solves(iter))[Column] = Weight(g, Column)
  BY <1>2, <1>6, SumIsWeight
<1> QED BY <1>4, <1>7 DEF g

-----------------------------------------------------------------------------
(* The entries of a column are numbers, as many as are counted or fewer,   *)
(* and as many as the code made for such an Info takes.                    *)
GatherFits(info) ==
  /\ info.order \in {DisOrder, IncContinue, OrderEquel} /\ info.mask \in Nat /\ info.mask < MaskBound
  /\ Transform!EntriesOfGather(info) \in Seq(Int)
  /\ Transform!NeedOfGather(info) \in Nat
  /\ Len(Transform!EntriesOfGather(info)) <= Transform!NeedOfGather(info)
  /\ Len(Transform!EntriesOfGather(info)) = GatherAdvance(info)

ReductionFits(info) ==
  /\ info.order \in {DisOrder, IncContinue, OrderEquel} /\ info.mask \in Nat /\ info.mask < MaskBound
  /\ Transform!EntriesOfReduction(info) \in Seq(Int)
  /\ Transform!NeedOfReduction(info) \in Nat
  /\ Len(Transform!EntriesOfReduction(info)) <= Transform!NeedOfReduction(info)
  /\ Len(Transform!EntriesOfReduction(info)) = ReductionAdvance(info)

(* One index and a mask.                                                   *)
LEMMA OrderedFits ==
  ASSUME NEW idx \in [Lane -> Nat], NEW order \in {IncContinue, OrderEquel}, order = IncContinue => Vector <= 8
  PROVE  GatherFits(OrderedInfo(idx, order)) /\ OrderedInfo(idx, order).index[1] = idx[0]
<1> DEFINE info == OrderedInfo(idx, order)
<1>1. 0 \in Lane
  BY VectorAssumption DEF Lane
<1>2. info.order = order /\ info.index = <<idx[0]>> /\ idx[0] \in Nat
  BY <1>1 DEF OrderedInfo
<1>3. info.mask \in Nat /\ info.mask < MaskBound
  <2>0. 1 < MaskBound
    BY DEF MaskBound
  <2>1. ChangeMask(idx) \in Nat /\ (Vector <= 8 => ChangeMask(idx) < MaskBound)
    BY MaskIsNat DEF ChangeMask
  <2>2. info.mask = IF order = OrderEquel THEN 1 ELSE ChangeMask(idx)
    BY DEF OrderedInfo
  <2> HIDE DEF info
  <2> QED BY <2>0, <2>1, <2>2
<1> HIDE DEF info
<1>4. Transform!EntriesOfGather(info) = <<idx[0]>> /\ Transform!NeedOfGather(info) = 1
  BY <1>2 DEF Transform!EntriesOfGather, Transform!NeedOfGather, Transform!DisOrder, IncContinue, OrderEquel
<1>5. <<idx[0]>> \in Seq(Int) /\ Len(<<idx[0]>>) = 1
  BY <1>2
<1>6. GatherAdvance(info) = 1
  BY <1>2 DEF GatherAdvance, OneLoad, DisOrder, IncContinue, OrderEquel
<1>7. GatherFits(info)
  BY <1>2, <1>3, <1>4, <1>5, <1>6 DEF GatherFits
<1> QED BY <1>2, <1>7 DEF info

(* All the indices.                                                        *)
LEMMA ListedFits ==
  ASSUME NEW idx \in [Lane -> Nat]
  PROVE  GatherFits([order |-> DisOrder, mask |-> Vector, index |-> Listed(idx), perm |-> <<>>])
<1> DEFINE info == [order |-> DisOrder, mask |-> Vector, index |-> Listed(idx), perm |-> <<>>]
<1>1. Listed(idx) \in Seq(Int) /\ Len(Listed(idx)) = Vector
  BY LaneInt DEF Listed, Lane
<1>2. SubSeq(Listed(idx), 1, Vector) \o <<>> = Listed(idx)
  BY <1>1
<1>3. Transform!EntriesOfGather(info) = Listed(idx) /\ Transform!NeedOfGather(info) = Vector
  BY <1>2, LaneInt DEF Transform!EntriesOfGather, Transform!NeedOfGather, Transform!DisOrder, DisOrder
<1>4. GatherAdvance(info) = Vector
  BY VectorAssumption DEF GatherAdvance, OneLoad, DisOrder
<1>5. Vector \in Nat /\ Vector < MaskBound
  BY LaneInt DEF MaskBound
<1> QED BY <1>1, <1>3, <1>4, <1>5, LaneInt DEF GatherFits

(* Rows.                                                                   *)
LEMMA ScatterInfoFits ==
  ASSUME NEW idx \in [Lane -> Nat]
  PROVE  GatherFits(ScatterInfo(idx)) /\ ScatterInfo(idx).index[1] = idx[0]
<1>1. CASE OrderTypeOf(idx) = DisOrder
  <2>1. ScatterInfo(idx) = [order |-> DisOrder, mask |-> Vector, index |-> Listed(idx), perm |-> <<>>]
    BY <1>1 DEF ScatterInfo
  <2>2. Listed(idx)[1] = idx[0]
    BY LaneInt DEF Listed
  <2> QED BY <2>1, <2>2, ListedFits
<1>2. CASE OrderTypeOf(idx) # DisOrder
  <2>1. ScatterInfo(idx) = OrderedInfo(idx, OrderTypeOf(idx)) /\ OrderTypeOf(idx) \in {IncContinue, OrderEquel}
    BY <1>2, OrderTypes DEF ScatterInfo
  <2> QED BY <2>1, FewLanesContinue, OrderedFits
<1> QED BY <1>1, <1>2

(* A nibble in its place.                                                  *)
LEMMA NibbleIs ==
  ASSUME NEW f \in {0, 1, 2, 3}, NEW p \in Nat, p >= 1, p <= 4096
  PROVE  /\ f * p \in Nat /\ f * p <= 12288
         /\ f # 0 => f * p >= p
         /\ f = 0 => f * p = 0
         /\ p = 1 => f * p <= 3
<1>1. f * p \in {0, p, p + p, p + p + p} /\ (f = 0 => f * p = 0) /\ (f # 0 => f * p # 0)
  <2>1. 0 * p = 0 /\ 1 * p = p /\ 2 * p = p + p /\ 3 * p = p + p + p
    OBVIOUS
  <2> QED BY <2>1
<1> DEFINE z == f * p
<1> HIDE DEF z
<1>2. z \in {0, p, p + p, p + p + p} /\ (f = 0 => z = 0) /\ (f # 0 => z # 0)
  BY <1>1 DEF z
<1>3. z \in Nat /\ z <= 12288 /\ (f # 0 => z >= p) /\ (p = 1 => z <= 3)
  BY <1>2
<1> QED BY <1>2, <1>3 DEF z

(* The nibbles of four lanes are a sum of differences, which are not all 0;*)
(* the sum is never mistaken for the mask of a column that is all listed.  *)
LEMMA NibblesArePositive ==
  ASSUME Vector = 4, NEW from \in [Lane -> Nat], NEW l \in Lane, from[l] # 0, \A k \in Lane : from[k] <= 3
  PROVE  MapThenSumSet(LAMBDA k : from[k] * 16^k, Lane) \in {n \in Nat : n # 0 /\ n # 4 /\ n < MaskBound}
<1> DEFINE g == [k \in Lane |-> from[k] * 16^k]
           Solves(iter) ==
             iter = [s \in SUBSET Lane |->
                       IF s = {} THEN 0
                       ELSE from[CHOOSE x \in s : TRUE] * 16^(CHOOSE x \in s : TRUE)
                              + iter[s \ {CHOOSE x \in s : TRUE}]]
<1>1. ASSUME NEW iter PROVE Solves(iter) <=> SumsUp(iter, g, Lane)
  <2>1. \A s \in SUBSET Lane :
          s # {} => g[Pick(s)] = from[CHOOSE x \in s : TRUE] * 16^(CHOOSE x \in s : TRUE)
    BY PickIn DEF Pick
  <2> DEFINE Mine(t) == IF t = {} THEN 0
                        ELSE from[CHOOSE x \in t : TRUE] * 16^(CHOOSE x \in t : TRUE)
                               + iter[t \ {CHOOSE x \in t : TRUE}]
             Sums(t) == IF t = {} THEN 0 ELSE g[Pick(t)] + iter[t \ {Pick(t)}]
  <2>2. \A t \in SUBSET Lane : Mine(t) = Sums(t)
    BY <2>1 DEF Pick
  <2> HIDE DEF Mine, Sums
  <2>3. [t \in SUBSET Lane |-> Mine(t)] = [t \in SUBSET Lane |-> Sums(t)]
    BY ONLY <2>2
  <2>4. Solves(iter) <=> iter = [t \in SUBSET Lane |-> Mine(t)]
    BY DEF Mine
  <2>5. SumsUp(iter, g, Lane) <=> iter = [t \in SUBSET Lane |-> Sums(t)]
    BY DEF Sums, SumsUp
  <2> QED BY ONLY <2>3, <2>4, <2>5
<1>0. ASSUME NEW k \in Lane
      PROVE  /\ g[k] \in Nat /\ (from[k] # 0 => g[k] >= 1) /\ g[k] <= 12288
             /\ k # 0 /\ from[k] # 0 => g[k] >= 16
             /\ from[k] = 0 => g[k] = 0
             /\ k = 0 => g[k] <= 3
  <2> DEFINE p == 16^k
  <2>1. /\ p \in Nat /\ p >= 1 /\ p <= 4096 /\ (k # 0 => p >= 16) /\ (k = 0 => p = 1)
        /\ g[k] = from[k] * p /\ from[k] \in {0, 1, 2, 3}
    <3>1. k \in 0 .. 3 /\ from[k] \in {0, 1, 2, 3}
      <4>1. k \in 0 .. 3
        BY DEF Lane
      <4>2. from[k] \in Nat /\ from[k] <= 3
        OBVIOUS
      <4>3. \A n \in Nat : n <= 3 => n \in {0, 1, 2, 3}
        OBVIOUS
      <4> QED BY ONLY <4>1, <4>2, <4>3
    <3>2. p \in Nat /\ p >= 1 /\ p <= 4096 /\ (k # 0 => p >= 16) /\ (k = 0 => p = 1)
      <4>1. k \in 0 .. 3
        BY ONLY <3>1
      <4>2. (k = 0 => p = 1) /\ (k # 0 => p \in {16, 16 * 16, 16 * 16 * 16})
        BY ONLY <4>1, Power16
      <4> HIDE DEF p
      <4> QED BY ONLY <4>2
    <3>3. g[k] = from[k] * p
      OBVIOUS
    <3> QED BY <3>1, <3>2, <3>3
  <2> HIDE DEF p, g
  <2>2. /\ g[k] \in Nat /\ g[k] <= 12288 /\ (from[k] # 0 => g[k] >= p)
        /\ (from[k] = 0 => g[k] = 0) /\ (p = 1 => g[k] <= 3)
    BY ONLY <2>1, NibbleIs
  <2> HIDE DEF g
  <2>3. p \in Nat /\ p >= 1 /\ (k # 0 => p >= 16) /\ (k = 0 => p = 1)
    BY ONLY <2>1
  <2> QED BY ONLY <2>2, <2>3
<1>2. ASSUME NEW k \in Lane
      PROVE  /\ g[k] \in Nat /\ (from[k] # 0 => g[k] >= 1)
             /\ k # 0 /\ from[k] # 0 => g[k] >= 16
             /\ from[k] = 0 => g[k] = 0
             /\ k = 0 => g[k] <= 3
  <2> HIDE DEF g
  <2> QED BY ONLY <1>0, k \in Lane
<1>3. MapThenSumSet(LAMBDA k : from[k] * 16^k, Lane) = (CHOOSE iter : Solves(iter))[Lane]
  BY DEF MapThenSumSet, MapThenFoldSet
<1> HIDE DEF Solves, g
<1>4. SumsUp(CHOOSE iter : Solves(iter), g, Lane)
  BY <1>1, <1>2, LaneInt, SumExists
<1>5. (CHOOSE iter : Solves(iter))[Lane] = Weight(g, Lane)
  BY <1>2, <1>4, LaneInt, SumIsWeight
<1>6. Weight(g, Lane) \in Nat /\ g[l] <= Weight(g, Lane)
  BY <1>2, LaneInt, StackFinite, StackHas
<1>7. g[l] \in Nat /\ g[l] >= 1
  BY <1>2
<1>8. Weight(g, Lane) <= 4 * 12288
  <2>1. IsFiniteSet(Lane) /\ Cardinality(Lane) = 4
    BY LaneInt
  <2>2. \A k \in Lane : g[k] \in Nat /\ g[k] <= 12288
    BY <1>0
  <2>3. Weight(g, Lane) <= Cardinality(Lane) * 12288
    BY ONLY <2>1, <2>2, StackBounded
  <2> QED BY ONLY <2>1, <2>3
<1>9. Weight(g, Lane) # 4
  <2>1. CASE \E k \in Lane : k # 0 /\ from[k] # 0
    <3>1. PICK k \in Lane : k # 0 /\ from[k] # 0
      BY <2>1
    <3>0. g[k] >= 16
      BY <1>2, <3>1
    <3>2. g[k] <= Weight(g, Lane) /\ g[k] \in Nat
      BY <1>2, LaneInt, StackHas
    <3>3. Weight(g, Lane) \in Nat
      BY <1>6
    <3> QED BY ONLY <3>0, <3>2, <3>3
  <2>2. CASE ~ \E k \in Lane : k # 0 /\ from[k] # 0
    <3>1. 0 \in Lane /\ \A k \in Lane : k # 0 => g[k] = 0
      BY <1>2, <2>2 DEF Lane
    <3>2. Stack(g, Lane) = Stack(g, {0})
      BY <3>1 DEF Stack
    <3>3. g[0] \in Nat /\ g[0] <= 3
      BY <1>2, <3>1
    <3>4. Weight(g, {0}) = g[0]
      BY <3>3, StackOfOne
    <3> QED BY <3>2, <3>3, <3>4 DEF Weight
  <2> QED BY <2>1, <2>2
<1>10. Weight(g, Lane) \in {n \in Nat : n # 0 /\ n # 4 /\ n < MaskBound}
  <2>1. Weight(g, Lane) \in Nat /\ g[l] <= Weight(g, Lane)
    BY <1>6
  <2> QED BY ONLY <1>7, <1>8, <1>9, <2>1 DEF MaskBound
<1> QED BY <1>3, <1>5, <1>10

(* Columns that are read.                                                  *)
LEMMA GatherInfoFits ==
  ASSUME NEW idx \in [Lane -> Nat]
  PROVE  GatherFits(GatherInfo(idx))
<1>1. CASE OrderTypeOf(idx) # DisOrder
  <2>1. GatherInfo(idx) = OrderedInfo(idx, OrderTypeOf(idx)) /\ OrderTypeOf(idx) \in {IncContinue, OrderEquel}
    BY <1>1, OrderTypes DEF GatherInfo
  <2> QED BY <2>1, FewLanesContinue, OrderedFits
<1>2. CASE OrderTypeOf(idx) = DisOrder
  <2> DEFINE Ins  == {idx[l] : l \in Lane}
             min  == CHOOSE m \in Ins : \A l \in Lane : m <= idx[l]
             from == [l \in Lane |-> idx[l] - min]
             nibbles == MapThenSumSet(LAMBDA l : from[l] * 16^l, Lane)
  <2>1. min \in Ins /\ \A l \in Lane : min <= idx[l]
    <3>1. Ins \in SUBSET Nat /\ Ins # {}
      BY LaneInt, VectorAssumption DEF Lane
    <3>2. \E m \in Ins : \A n \in Ins : m <= n
      BY <3>1, LeastNat
    <3>3. \E m \in Ins : \A l \in Lane : m <= idx[l]
      BY <3>2
    <3> QED BY <3>3
  <2>2. min \in Nat /\ from \in [Lane -> Nat] /\ \A l \in Lane : idx[l] \in Nat
    BY <2>1
  <2>3. GatherInfo(idx) =
          IF OneLoadReaches(idx, min)
            THEN [order |-> DisOrder, mask |-> IF Vector > 4 THEN 1 ELSE nibbles, index |-> <<min>>,
                  perm |-> IF Vector > 4 THEN PackWords(from) ELSE <<>>]
            ELSE [order |-> DisOrder, mask |-> Vector, index |-> Listed(idx), perm |-> <<>>]
    BY <1>2 DEF GatherInfo, GatherDisorderInfo
  <2>4. \E l \in Lane : from[l] # 0
    <3> HIDE DEF min
    <3>1. PICK l \in 1 .. Vector - 1 : idx[l] - idx[l - 1] # 0
      <4>1. ~ \A l \in 1 .. Vector - 1 : idx[l] - idx[l - 1] \in {0}
        BY <1>2 DEF OrderTypeOf, DisOrder, OrderEquel
      <4> QED BY <4>1
    <3>2. l \in Lane /\ l - 1 \in Lane
      BY LaneInt DEF Lane
    <3>3. idx[l] # min \/ idx[l - 1] # min
      BY <2>2, <3>1, <3>2
    <3>4. \A k \in Lane : idx[k] # min => from[k] # 0
      BY <2>2
    <3> QED BY <3>2, <3>3, <3>4
  <2>5. Vector = 4 /\ OneLoadReaches(idx, min) => nibbles \in {n \in Nat : n # 0 /\ n # 4 /\ n < MaskBound}
    <3> SUFFICES ASSUME Vector = 4, OneLoadReaches(idx, min)
                 PROVE  nibbles \in {n \in Nat : n # 0 /\ n # 4 /\ n < MaskBound}
      OBVIOUS
    <3>1. \A l \in Lane : from[l] <= 3
      <4> HIDE DEF min
      <4> QED BY <2>2 DEF OneLoadReaches
    <3> HIDE DEF from
    <3> QED BY <2>2, <2>4, <3>1, NibblesArePositive
  <2>6. Vector > 4 => PackWords(from) \in Seq(Int) /\ Len(PackWords(from)) = Vector \div 4
    <3>1. from \in [Lane -> Int]
      BY <2>2
    <3> HIDE DEF from
    <3> QED BY <3>1, PackedWords
  <2> HIDE DEF min, from, nibbles
  <2>7. CASE OneLoadReaches(idx, min) /\ Vector > 4
    <3> DEFINE info == [order |-> DisOrder, mask |-> 1, index |-> <<min>>, perm |-> PackWords(from)]
    <3>1. GatherInfo(idx) = info
      BY <2>3, <2>7
    <3>2. /\ Transform!EntriesOfGather(info) = SubSeq(<<min>>, 1, 1) \o PackWords(from)
          /\ Transform!NeedOfGather(info) = 1 + Vector \div 4
      BY <2>7, LaneInt DEF Transform!EntriesOfGather, Transform!NeedOfGather, Transform!DisOrder, DisOrder
    <3>3. SubSeq(<<min>>, 1, 1) \in Seq(Int) /\ Len(SubSeq(<<min>>, 1, 1)) = 1
      BY <2>2
    <3>4. /\ SubSeq(<<min>>, 1, 1) \o PackWords(from) \in Seq(Int)
          /\ Len(SubSeq(<<min>>, 1, 1) \o PackWords(from)) = 1 + Vector \div 4
      BY <2>6, <2>7, <3>3, ConcatProperties
    <3>5. 1 + Vector \div 4 \in Nat
      BY VectorAssumption
    <3>6. info.order = DisOrder /\ info.mask = 1
      OBVIOUS
    <3> HIDE DEF info
    <3>7. GatherAdvance(info) = 1 + Vector \div 4
      BY <2>7, <3>6 DEF GatherAdvance, OneLoad
    <3>8. 1 < MaskBound
      BY DEF MaskBound
    <3> QED BY <3>1, <3>2, <3>4, <3>5, <3>6, <3>7, <3>8 DEF GatherFits
  <2>8. CASE OneLoadReaches(idx, min) /\ ~ (Vector > 4)
    <3> DEFINE info == [order |-> DisOrder, mask |-> nibbles, index |-> <<min>>, perm |-> <<>>]
    <3>1. GatherInfo(idx) = info /\ Vector = 4
      BY <2>3, <2>8, VectorAssumption
    <3>2. Transform!EntriesOfGather(info) = <<min>> /\ Transform!NeedOfGather(info) = nibbles + 0
      BY <3>1 DEF Transform!EntriesOfGather, Transform!NeedOfGather, Transform!DisOrder, DisOrder
    <3>3. <<min>> \in Seq(Int) /\ Len(<<min>>) = 1
      BY <2>2
    <3>4. info.order = DisOrder /\ info.mask = nibbles
      OBVIOUS
    <3>5. nibbles \in Nat /\ nibbles < MaskBound /\ nibbles # Vector /\ nibbles + 0 \in Nat /\ 1 <= nibbles + 0
      BY <2>5, <2>8, <3>1
    <3> HIDE DEF info
    <3>6. GatherAdvance(info) = 1
      BY <3>1, <3>4, <3>5 DEF GatherAdvance, OneLoad
    <3> QED BY <3>1, <3>2, <3>3, <3>4, <3>5, <3>6 DEF GatherFits
  <2>9. CASE ~ OneLoadReaches(idx, min)
    BY <2>3, <2>9, ListedFits
  <2> QED BY <2>7, <2>8, <2>9
<1> QED BY <1>1, <1>2

(* Rows that are summed up.                                                *)
LEMMA ReductionInfoFits ==
  ASSUME NEW idx \in [Lane -> Nat]
  PROVE  ReductionFits(ReductionInfo(idx))
<1> DEFINE info == ReductionInfo(idx)
           n    == RoundsNeeded(idx)
<1>1. CASE OrderTypeOf(idx) # DisOrder
  <2>1. info.order \in {IncContinue, OrderEquel} /\ info.mask = ScatterInfo(idx).mask
    BY <1>1, OrderTypes DEF ReductionInfo
  <2>2. info.mask \in Nat /\ info.mask < MaskBound
    <3> HIDE DEF info
    <3>1. GatherFits(ScatterInfo(idx))
      BY ScatterInfoFits
    <3>2. ScatterInfo(idx).mask \in Nat /\ ScatterInfo(idx).mask < MaskBound
      BY <3>1 DEF GatherFits
    <3> QED BY <2>1, <3>2
  <2> HIDE DEF info
  <2>3. Transform!EntriesOfReduction(info) = <<>> /\ Transform!NeedOfReduction(info) = 0
    BY <2>1 DEF Transform!EntriesOfReduction, Transform!NeedOfReduction, Transform!DisOrder, IncContinue,
                OrderEquel
  <2>4. ReductionFits(info)
    <3>1. ReductionAdvance(info) = 0
      BY <2>1 DEF ReductionAdvance, DisOrder, IncContinue, OrderEquel
    <3> QED BY <2>1, <2>2, <2>3, <3>1 DEF ReductionFits
  <2> QED BY <2>4 DEF info
<1>2. CASE OrderTypeOf(idx) = DisOrder
  <2> DEFINE rounds == ReductionRounds(idx)
             words  == [k \in DOMAIN rounds |-> PackWords(rounds[k])]
  <2>1. info.order = DisOrder /\ info.mask = n
    BY <1>2 DEF ReductionInfo
  <2>2. info.perm = With(rounds, LAMBDA r : FlattenSeq([k \in DOMAIN r |-> PackWords(r[k])]))
    BY <1>2 DEF ReductionInfo
  <2>3. info.perm = FlattenSeq(words)
    BY <2>2 DEF With
  <2>4. n \in 0 .. 4 /\ n # Vector
    BY FewRounds
  <2>5. words \in Seq(Seq(Int)) /\ Len(words) = n /\ \A k \in 1 .. n : Len(words[k]) = Vector \div 4
    <3>1. rounds \in [1 .. n -> [Lane -> Int]]
      BY RoundsShape
    <3> HIDE DEF rounds, n
    <3>2. \A k \in 1 .. n : PackWords(rounds[k]) \in Seq(Int) /\ Len(PackWords(rounds[k])) = Vector \div 4
      BY <3>1, PackedWords
    <3>3. words = [k \in 1 .. n |-> PackWords(rounds[k])] /\ n \in Nat
      BY <2>4, <3>1
    <3> HIDE DEF words
    <3> QED BY <3>2, <3>3
  <2> HIDE DEF words, n, info
  <2>6. Vector \div 4 \in Nat
    BY VectorAssumption
  <2>7. info.perm \in Seq(Int) /\ Len(info.perm) = n * (Vector \div 4)
    BY <2>3, <2>5, <2>6, FlattenLength
  <2>8. n * (Vector \div 4) = (Vector * n) \div 4
    BY <2>4, VectorAssumption
  <2>9. /\ Transform!EntriesOfReduction(info) = info.perm
        /\ Transform!NeedOfReduction(info) = (Vector * n) \div 4
    BY <2>1, <2>4 DEF Transform!EntriesOfReduction, Transform!NeedOfReduction, Transform!DisOrder, DisOrder
  <2>10. (Vector * n) \div 4 \in Nat
    BY <2>4, <2>6, <2>8
  <2>11. ReductionAdvance(info) = n * (Vector \div 4)
    BY <2>1 DEF ReductionAdvance
  <2>12. n \in Nat /\ n < MaskBound
    BY <2>4 DEF MaskBound
  <2>13. ReductionFits(info)
    BY <2>1, <2>7, <2>8, <2>9, <2>10, <2>11, <2>12 DEF ReductionFits
  <2> QED BY <2>13 DEF info
<1> QED BY <1>1, <1>2

-----------------------------------------------------------------------------
(* The feature table of compiler() is that of FeatureTable, of which it is *)
(* proved that no column is in it twice.                                   *)
FT == INSTANCE FeatureTable_proofs WITH
        EquelFeature <- {f \in Feature : f[2] = 1 + OrderEquel * 65536},
        Location     <- Row,
        Hash         <- [f \in Feature |-> HashOf(f)]

(* NoKey is the model's own: no hash is equal to it.                       *)
NoKeyIsNoHash == \A f \in Feature : HashOf(f) # NoKey

(* The columns of the table lie within the elements.                       *)
LEMMA ColumnsOfTable ==
  /\ TableColumnNum \in Nat /\ TableColumnNum * Vector <= DataNum
  /\ \A c \in Column : c \in Nat /\ c * Vector + Vector <= DataNum
  /\ IsFiniteSet(Column)
<1>1. TableColumnNum \in Nat /\ TableColumnNum * Vector <= DataNum
  BY InputAssumption, VectorAssumption DEF TableColumnNum
<1>2. \A c \in Column : c \in Nat /\ c * Vector + Vector <= DataNum
  BY <1>1, VectorAssumption, InputAssumption DEF Column
<1>3. 0 \in Int /\ TableColumnNum - 1 \in Int
  BY <1>1
<1>4. IsFiniteSet(Column)
  BY <1>3, FS_Interval DEF Column
<1> QED BY <1>1, <1>2, <1>4

(* The assumption of FeatureTable holds of this table.                     *)
LEMMA TableAssumed ==
  ASSUME NoKeyIsNoHash
  PROVE  /\ TableColumnNum \in Nat
         /\ {f \in Feature : f[2] = 1 + OrderEquel * 65536} \subseteq Feature
         /\ DOMAIN [f \in Feature |-> HashOf(f)] = Feature
         /\ \A f \in Feature : [g \in Feature |-> HashOf(g)][f] # NoKey
BY ColumnsOfTable DEF NoKeyIsNoHash

(* The table of DynVec and the one the proofs are about take the same      *)
(* steps.                                                                  *)
LEMMA SameTable == Table!TableNext => FT!TableNext
BY DEF Table!TableNext, FT!TableNext, Table!CombinSameFeature, FT!CombinSameFeature, Table!BeginWritePattern,
       FT!BeginWritePattern, Table!BeginBucket, FT!BeginBucket, Table!ExtendRun, FT!ExtendRun, Table!TakeRun,
       FT!TakeRun, Table!EndBucket, FT!EndBucket, Table!EndWritePattern, FT!EndWritePattern, Table!Put, FT!Put,
       Table!Bucket, FT!Bucket, Table!KeyOf, FT!KeyOf, Table!Joined, FT!Joined, Table!RunGoesOn, FT!RunGoesOn,
       Table!RangeOf, FT!RangeOf, Table!Compacted, FT!Compacted, Table!Retire, FT!Retire, Table!FirstIsEquel,
       FT!FirstIsEquel, Table!table_inputs, FT!table_inputs, Table!table, FT!table, Table!scan, FT!scan

(* The buckets stay finitely many.                                         *)
LEMMA FiniteBuckets ==
  ASSUME IsFiniteSet(DOMAIN same_feature_map), Table!TableNext
  PROVE  IsFiniteSet(DOMAIN same_feature_map')
<1>1. ASSUME NEW k, NEW v
      PROVE  IsFiniteSet(DOMAIN Table!Put(same_feature_map, k, v))
  <2>1. DOMAIN Table!Put(same_feature_map, k, v) = DOMAIN same_feature_map \cup {k}
    BY DEF Table!Put
  <2> QED BY <2>1, FS_AddElement
<1>2. CASE Table!CombinSameFeature
  BY <1>1, <1>2 DEF Table!CombinSameFeature
<1>3. CASE Table!EndBucket
  BY <1>1, <1>3 DEF Table!EndBucket
<1>4. CASE Table!BeginWritePattern \/ Table!ExtendRun \/ Table!TakeRun \/ Table!EndWritePattern
             \/ \E k \in todo : Table!BeginBucket(k)
  <2>1. same_feature_map' = same_feature_map
    BY <1>4 DEF Table!BeginWritePattern, Table!ExtendRun, Table!TakeRun, Table!EndWritePattern, Table!BeginBucket,
                Table!table
  <2> QED BY <2>1
<1> QED BY <1>2, <1>3, <1>4 DEF Table!TableNext

(* The columns of ranges that are apart.                                   *)
LEMMA RangesColumnsOnce ==
  ASSUME NEW rs \in Seq(FT!ColumnRange),
         \A i \in 1 .. Len(rs) : \A c \in Int :
           FT!Covers(rs[i], c) => /\ c \in Column
                                  /\ \A j \in 1 .. Len(rs) : FT!Covers(rs[j], c) => i = j
  PROVE  /\ RangesColumns(rs) \in Seq(Column)
         /\ Once(RangesColumns(rs))
         /\ \A p \in 1 .. Len(RangesColumns(rs)) :
              \E i \in 1 .. Len(rs) : FT!Covers(rs[i], RangesColumns(rs)[p])
         /\ \A i \in 1 .. Len(rs) : \A c \in Int :
              FT!Covers(rs[i], c) => Holds(RangesColumns(rs), c)
<1> DEFINE ss == [j \in DOMAIN rs |-> RangeColumns(rs[j])]
<1>1. ASSUME NEW j \in 1 .. Len(rs)
      PROVE  /\ rs[j][1] \in Int /\ rs[j][2] \in Int
             /\ RangeColumns(rs[j]) \in Seq(Column)
             /\ \A p \in 1 .. Len(RangeColumns(rs[j])) :
                  /\ RangeColumns(rs[j])[p] = rs[j][1] + p - 1
                  /\ RangeColumns(rs[j])[p] \in Int
                  /\ FT!Covers(rs[j], RangeColumns(rs[j])[p])
             /\ \A c \in Int :
                  FT!Covers(rs[j], c) => Holds(RangeColumns(rs[j]), c)
  <2> DEFINE a == rs[j][1]
             b == rs[j][2]
             r == RangeColumns(rs[j])
  <2>1. rs[j] \in FT!ColumnRange
    OBVIOUS
  <2>2. a \in Nat /\ b \in Nat
    BY <2>1, ColumnsOfTable DEF FT!ColumnRange, FT!Column, Column
  <2>3. r = [n \in 1 .. b - a |-> a + n - 1]
    BY DEF RangeColumns
  <2>4. \A c \in Int : a <= c /\ c < b => c \in Column
    BY DEF FT!Covers
  <2>5. ASSUME NEW p \in 1 .. b - a
        PROVE  r[p] = a + p - 1 /\ r[p] \in Int /\ a <= r[p] /\ r[p] < b
    <3> HIDE DEF a, b
    <3>1. r[p] = a + p - 1
      BY <2>3
    <3> QED BY <2>2, <3>1
  <2>6. \A p \in 1 .. b - a : r[p] \in Column
    BY <2>4, <2>5
  <2>7. r \in Seq(Column) /\ \A p \in 1 .. Len(r) : p \in 1 .. b - a
    <3> HIDE DEF a, b
    <3>1. CASE b - a \in Nat
      <4>1. r \in [1 .. b - a -> Column]
        BY <2>3, <2>6
      <4> QED BY <2>2, <3>1, <4>1
    <3>2. CASE b - a \notin Nat
      <4>1. 1 .. b - a = {}
        BY <2>2, <3>2
      <4>2. r = <<>>
        BY <2>3, <4>1
      <4> QED BY <4>2
    <3> QED BY <3>1, <3>2
  <2>8. \A p \in 1 .. Len(r) : r[p] = a + p - 1 /\ r[p] \in Int /\ FT!Covers(rs[j], r[p])
    BY <2>5, <2>7 DEF FT!Covers
  <2>9. ASSUME NEW c \in Int, FT!Covers(rs[j], c)
        PROVE  Holds(r, c)
    <3>1. a <= c /\ c < b
      BY <2>9 DEF FT!Covers
    <3> HIDE DEF a, b
    <3>2. c - a + 1 \in 1 .. b - a
      BY <2>2, <3>1
    <3>5. r[c - a + 1] = c
      BY <2>2, <2>3, <3>2
    <3> HIDE DEF r
    <3>3. DOMAIN r = 1 .. b - a
      BY <2>3
    <3>4. DOMAIN r = 1 .. Len(r)
      BY <2>7
    <3>6. c - a + 1 \in 1 .. Len(r)
      BY <3>2, <3>3, <3>4
    <3> QED BY <3>5, <3>6 DEF Holds
  <2> QED BY <2>2, <2>7, <2>8, <2>9
<1>2. ss \in Seq(Seq(Column)) /\ Len(ss) = Len(rs) /\ \A j \in 1 .. Len(rs) : ss[j] = RangeColumns(rs[j])
  <2>1. DOMAIN rs = 1 .. Len(rs) /\ Len(rs) \in Nat
    OBVIOUS
  <2>2. \A j \in 1 .. Len(rs) : RangeColumns(rs[j]) \in Seq(Column)
    BY <1>1
  <2>3. ss \in [1 .. Len(rs) -> Seq(Column)] /\ \A j \in 1 .. Len(rs) : ss[j] = RangeColumns(rs[j])
    BY <2>1, <2>2
  <2> HIDE DEF ss
  <2> QED BY <2>1, <2>3
<1> HIDE DEF ss
<1>3. Apart(ss)
  <2> SUFFICES ASSUME NEW k \in 1 .. Len(ss), NEW l \in 1 .. Len(ss), NEW i \in 1 .. Len(ss[k]),
                      NEW j \in 1 .. Len(ss[l]), ss[k][i] = ss[l][j]
               PROVE  k = l /\ i = j
    BY DEF Apart
  <2>1. /\ ss[k][i] \in Int /\ FT!Covers(rs[k], ss[k][i]) /\ ss[k][i] = rs[k][1] + i - 1
        /\ FT!Covers(rs[l], ss[l][j]) /\ ss[l][j] = rs[l][1] + j - 1
        /\ rs[k][1] \in Int
    BY <1>1, <1>2
  <2>2. k = l
    BY <1>2, <2>1
  <2>3. i \in Int /\ j \in Int
    BY <1>2
  <2>4. rs[k][1] + i - 1 = rs[k][1] + j - 1
    BY <2>1, <2>2
  <2>5. i = j
    BY <2>1, <2>3, <2>4
  <2> QED BY <2>2, <2>5
<1>4. RangesColumns(rs) = FlattenSeq(ss)
  BY DEF RangesColumns, ss
<1>5. /\ FlattenSeq(ss) \in Seq(Column) /\ FromFirst(FlattenSeq(ss), ss, Len(ss)) /\ Once(FlattenSeq(ss))
  BY <1>2, <1>3, FlattenSeqs
<1>6. ASSUME NEW p \in 1 .. Len(FlattenSeq(ss))
      PROVE  \E i \in 1 .. Len(rs) : FT!Covers(rs[i], FlattenSeq(ss)[p])
  <2>1. PICK k \in 1 .. Len(ss) : \E j \in 1 .. Len(ss[k]) : FlattenSeq(ss)[p] = ss[k][j]
    BY <1>5 DEF FromFirst
  <2> QED BY <1>1, <1>2, <2>1
<1>7. ASSUME NEW i \in 1 .. Len(rs), NEW c \in Int, FT!Covers(rs[i], c)
      PROVE  Holds(FlattenSeq(ss), c)
  <2>1. Holds(RangeColumns(rs[i]), c)
    BY <1>1, <1>7
  <2>2. i \in 1 .. Len(ss) /\ ss[i] = RangeColumns(rs[i]) /\ ss \in Seq(Seq(Column))
    BY <1>2
  <2>3. Holds(ss[i], c)
    BY <2>1, <2>2
  <2> QED BY <2>2, <2>3, FlattenHas
<1> QED BY <1>4, <1>5, <1>6, <1>7

(* Two sequences with nothing in common.                                   *)
LEMMA ConcatOnce ==
  ASSUME NEW S, NEW s \in Seq(S), NEW t \in Seq(S), Once(s), Once(t),
         \A p \in 1 .. Len(s), q \in 1 .. Len(t) : s[p] # t[q]
  PROVE  Once(s \o t)
<1> DEFINE a == s \o t
           m == Len(s)
           n == Len(t)
<1>1. m \in Nat /\ n \in Nat
  OBVIOUS
<1>2. Len(a) = m + n /\ \A i \in 1 .. m + n : a[i] = IF i <= m THEN s[i] ELSE t[i - m]
  BY ConcatProperties
<1>3. /\ \A i, j \in 1 .. m : s[i] = s[j] => i = j
      /\ \A i, j \in 1 .. n : t[i] = t[j] => i = j
      /\ \A p \in 1 .. m, q \in 1 .. n : s[p] # t[q]
  BY DEF Once
<1> HIDE DEF a, m, n
<1>4. ASSUME NEW i \in 1 .. m + n, NEW j \in 1 .. m + n, a[i] = a[j] PROVE i = j
  <2>1. CASE i <= m /\ j <= m
    <3>1. i \in 1 .. m /\ a[i] = s[i]
      BY <1>1, <1>2, <2>1
    <3>2. j \in 1 .. m /\ a[j] = s[j]
      BY <1>1, <1>2, <2>1
    <3> QED BY <1>3, <1>4, <3>1, <3>2
  <2>2. CASE i <= m /\ ~ (j <= m)
    <3>1. i \in 1 .. m /\ j - m \in 1 .. n /\ a[i] = s[i] /\ a[j] = t[j - m]
      BY <1>1, <1>2, <2>2
    <3> QED BY <1>3, <1>4, <3>1
  <2>3. CASE ~ (i <= m) /\ j <= m
    <3>1. i - m \in 1 .. n /\ j \in 1 .. m /\ a[i] = t[i - m] /\ a[j] = s[j]
      BY <1>1, <1>2, <2>3
    <3> QED BY <1>3, <1>4, <3>1
  <2>4. CASE ~ (i <= m) /\ ~ (j <= m)
    <3>1. i - m \in 1 .. n /\ j - m \in 1 .. n /\ a[i] = t[i - m] /\ a[j] = t[j - m]
      BY <1>1, <1>2, <2>4
    <3>2. i - m = j - m
      BY <1>3, <1>4, <3>1
    <3> QED BY <1>1, <3>2
  <2> QED BY <2>1, <2>2, <2>3, <2>4
<1> QED BY <1>2, <1>4 DEF Once, a

(* Everything in one of two sequences is in their concatenation.           *)
LEMMA ConcatHas ==
  ASSUME NEW S, NEW s \in Seq(S), NEW t \in Seq(S), NEW x, Holds(s, x) \/ Holds(t, x)
  PROVE  Holds(s \o t, x)
<1> DEFINE a == s \o t
           m == Len(s)
           n == Len(t)
<1>1. m \in Nat /\ n \in Nat
  OBVIOUS
<1>2. Len(a) = m + n /\ \A i \in 1 .. m + n : a[i] = IF i <= m THEN s[i] ELSE t[i - m]
  BY ConcatProperties
<1> HIDE DEF a
<1>3. CASE \E p \in 1 .. m : s[p] = x
  <2>1. PICK p \in 1 .. m : s[p] = x
    BY <1>3
  <2> HIDE DEF m, n
  <2>2. p \in 1 .. m + n /\ a[p] = s[p]
    BY <1>1, <1>2
  <2>3. p \in 1 .. Len(a) /\ a[p] = x
    BY <1>2, <2>1, <2>2
  <2> QED BY <2>3 DEF a, Holds
<1>4. CASE \E p \in 1 .. n : t[p] = x
  <2>1. PICK p \in 1 .. n : t[p] = x
    BY <1>4
  <2> HIDE DEF m, n
  <2> DEFINE q == m + p
  <2>2. q \in 1 .. m + n /\ ~ (q <= m) /\ q - m = p
    BY <1>1
  <2> HIDE DEF q
  <2>3. a[q] = t[p]
    BY <1>2, <2>2
  <2>4. q \in 1 .. Len(a) /\ a[q] = x
    BY <1>2, <2>1, <2>2, <2>3
  <2> QED BY <2>4 DEF a, Holds
<1> QED BY <1>3, <1>4 DEF Holds

(* A walk over a finite map meets each key once.                           *)
LEMMA WalkIs ==
  ASSUME NEW S, IsFiniteSet(S), NEW order \in SetToSeqs(S)
  PROVE  order \in Seq(S) /\ Once(order) /\ \A k \in S : Holds(order, k)
<1>1. Cardinality(S) \in Nat
  BY FS_CardinalityType
<1>2. /\ order \in [1 .. Cardinality(S) -> S]
      /\ \A i, j \in 1 .. Cardinality(S) : i # j => order[i] # order[j]
  BY DEF SetToSeqs
<1>3. order \in Seq(S) /\ Len(order) = Cardinality(S)
  BY <1>1, <1>2
<1>4. order \in Surjection(1 .. Cardinality(S), S)
  <2>1. order \in Injection(1 .. Cardinality(S), S)
    BY <1>2 DEF Injection, IsInjective
  <2>2. Cardinality(1 .. Cardinality(S)) = Cardinality(S)
    <3>1. 1 \in Int /\ Cardinality(S) \in Int /\ Cardinality(S) - 1 + 1 = Cardinality(S)
      BY <1>1
    <3> QED BY <1>1, <3>1, FS_Interval
  <2> QED BY <2>1, <2>2, FS_Injection
<1>5. \A k \in S : Holds(order, k)
  BY <1>3, <1>4 DEF Surjection, Holds
<1> QED BY <1>2, <1>3, <1>5 DEF Once

LEMMA WalkMeetsAll ==
  ASSUME NEW S, IsFiniteSet(S), NEW order \in SetToSeqs(S)
  PROVE  ToSet(order) = S
<1>1. order \in Seq(S) /\ \A k \in S : Holds(order, k)
  BY WalkIs
<1> QED BY <1>1 DEF ToSet, Holds

(* The first walk over a map is a walk over its keys.                      *)
LEMMA FirstWalk ==
  ASSUME NEW map, NEW order \in MapOrders(map, <<>>)
  PROVE  order \in SetToSeqs(DOMAIN map)
<1>1. CASE ToSet(<<>>) # DOMAIN map
  BY <1>1 DEF MapOrders
<1>2. CASE ToSet(<<>>) = DOMAIN map
  <2>1. order = <<>> /\ DOMAIN map = {}
    BY <1>2 DEF MapOrders, ToSet
  <2>2. Cardinality({}) = 0 /\ 1 .. 0 = {}
    BY FS_EmptySet
  <2>3. <<>> \in [1 .. 0 -> {}]
    BY <2>2
  <2> QED BY <2>1, <2>2, <2>3 DEF SetToSeqs
<1> QED BY <1>1, <1>2

(* The last walks over the maps met the keys they have.                    *)
WalksOK ==
  /\ ToSet(bucket_order) = DOMAIN same_feature_map
  /\ ToSet(range_order) = DOMAIN same_feature_range_map

(* A later walk over a map whose keys are those of the walk before.        *)
LEMMA WalksStay ==
  ASSUME WalksOK, EndTransform
  PROVE  UNCHANGED orders
BY DEF WalksOK, EndTransform, MapOrders, orders

(* The walks over the buckets and the ranges meet each column once.        *)
LEMMA VisitsOnce ==
  ASSUME NoKeyIsNoHash, FT!IInv, table_pc = "done", IsFiniteSet(DOMAIN same_feature_map),
         NEW bs \in SetToSeqs(DOMAIN same_feature_map),
         NEW rs \in SetToSeqs(DOMAIN same_feature_range_map),
         NEW kept, kept = FlattenSeq([n \in DOMAIN bs |-> same_feature_map[bs[n]]]),
         NEW moved, moved = FlattenSeq([n \in DOMAIN rs |-> RangesColumns(same_feature_range_map[rs[n]])]),
         NEW first, first = FlattenSeq([n \in DOMAIN rs |->
                              [j \in DOMAIN same_feature_range_map[rs[n]] |-> same_feature_range_map[rs[n]][j][1]]])
  PROVE  /\ kept \o moved \in Seq(Column) /\ Once(kept \o moved) /\ kept \o first \in Seq(Column)
         /\ \A c \in Column : Holds(kept \o moved, c)
<1> DEFINE Buckets == DOMAIN same_feature_map
           RangeMap == DOMAIN same_feature_range_map
           KeyIs(c) == FT!KeyOf(c)
<1>1. /\ RangeMap \subseteq Buckets
      /\ \A k \in Buckets :
           /\ same_feature_map[k] \in Seq(Column)
           /\ \A i, j \in 1 .. Len(same_feature_map[k]) :
                /\ KeyIs(same_feature_map[k][i]) = k
                /\ same_feature_map[k][i] = same_feature_map[k][j] => i = j
  BY FT!TableDone, TableAssumed DEF FT!Column, Column
<1>2. \A k \in RangeMap :
        /\ same_feature_range_map[k] \in Seq(FT!ColumnRange)
        /\ \A i \in 1 .. Len(same_feature_range_map[k]) : \A c \in Int :
             FT!Covers(same_feature_range_map[k][i], c) =>
               /\ c \in Column /\ KeyIs(c) = k
               /\ \A j \in 1 .. Len(same_feature_range_map[k]) : FT!Covers(same_feature_range_map[k][j], c) => i = j
               /\ \A m \in 1 .. Len(same_feature_map[k]) : same_feature_map[k][m] # c
  BY FT!TableDone, TableAssumed DEF FT!Column, Column
<1> HIDE DEF KeyIs
<1>a. \A c \in Column :
        \/ KeyIs(c) \in Buckets /\ Holds(same_feature_map[KeyIs(c)], c)
        \/ /\ KeyIs(c) \in RangeMap
           /\ \E i \in 1 .. Len(same_feature_range_map[KeyIs(c)]) :
                FT!Covers(same_feature_range_map[KeyIs(c)][i], c)
  BY FT!NoneLost, TableAssumed DEF FT!Column, Column, KeyIs, Holds
<1>3. /\ bs \in Seq(Buckets) /\ Once(bs) /\ rs \in Seq(RangeMap) /\ Once(rs)
      /\ \A k \in Buckets : Holds(bs, k)
      /\ \A k \in RangeMap : Holds(rs, k)
  <2>1. IsFiniteSet(RangeMap)
    BY <1>1, FS_Subset
  <2> QED BY <2>1, WalkIs
<1> HIDE DEF Buckets, RangeMap
<1> DEFINE bb == [n \in DOMAIN bs |-> same_feature_map[bs[n]]]
           mm == [n \in DOMAIN rs |-> RangesColumns(same_feature_range_map[rs[n]])]
           ff == [n \in DOMAIN rs |->
                    [j \in DOMAIN same_feature_range_map[rs[n]] |-> same_feature_range_map[rs[n]][j][1]]]
<1>4. /\ bb \in Seq(Seq(Column)) /\ Len(bb) = Len(bs)
      /\ \A n \in 1 .. Len(bs) : bb[n] = same_feature_map[bs[n]] /\ bs[n] \in Buckets
  <2>1. DOMAIN bs = 1 .. Len(bs) /\ Len(bs) \in Nat /\ \A n \in 1 .. Len(bs) : bs[n] \in Buckets
    BY <1>3
  <2>2. bb \in [1 .. Len(bs) -> Seq(Column)]
    BY <1>1, <2>1
  <2> QED BY <2>1, <2>2
<1>5. Apart(bb)
  <2> SUFFICES ASSUME NEW k \in 1 .. Len(bb), NEW l \in 1 .. Len(bb), NEW i \in 1 .. Len(bb[k]),
                      NEW j \in 1 .. Len(bb[l]), bb[k][i] = bb[l][j]
               PROVE  k = l /\ i = j
    BY DEF Apart
  <2> HIDE DEF bb
  <2>1. KeyIs(bb[k][i]) = bs[k] /\ KeyIs(bb[l][j]) = bs[l]
    BY <1>1, <1>4
  <2>2. k = l
    BY <1>3, <1>4, <2>1 DEF Once
  <2>3. i = j
    BY <1>1, <1>4, <2>2
  <2> QED BY <2>2, <2>3
<1>6. ASSUME NEW n \in 1 .. Len(rs)
      PROVE  /\ rs[n] \in RangeMap
             /\ mm[n] = RangesColumns(same_feature_range_map[rs[n]])
             /\ mm[n] \in Seq(Column) /\ Once(mm[n])
             /\ \A p \in 1 .. Len(mm[n]) :
                  /\ KeyIs(mm[n][p]) = rs[n]
                  /\ \A m \in 1 .. Len(same_feature_map[rs[n]]) : same_feature_map[rs[n]][m] # mm[n][p]
             /\ \A i \in 1 .. Len(same_feature_range_map[rs[n]]) : \A c \in Int :
                  FT!Covers(same_feature_range_map[rs[n]][i], c) => Holds(mm[n], c)
  <2> DEFINE R == same_feature_range_map[rs[n]]
  <2>1. rs[n] \in RangeMap /\ mm[n] = RangesColumns(R)
    BY <1>3
  <2>2. /\ R \in Seq(FT!ColumnRange)
        /\ \A i \in 1 .. Len(R) : \A c \in Int :
             FT!Covers(R[i], c) =>
               /\ c \in Column /\ KeyIs(c) = rs[n]
               /\ \A j \in 1 .. Len(R) : FT!Covers(R[j], c) => i = j
               /\ \A m \in 1 .. Len(same_feature_map[rs[n]]) : same_feature_map[rs[n]][m] # c
    BY <1>2, <2>1
  <2> HIDE DEF R, mm
  <2>3. /\ RangesColumns(R) \in Seq(Column)
        /\ Once(RangesColumns(R))
        /\ \A p \in 1 .. Len(RangesColumns(R)) :
             \E i \in 1 .. Len(R) : FT!Covers(R[i], RangesColumns(R)[p])
        /\ \A i \in 1 .. Len(R) : \A c \in Int :
             FT!Covers(R[i], c) => Holds(RangesColumns(R), c)
    BY <2>2, RangesColumnsOnce
  <2>4. ASSUME NEW p \in 1 .. Len(mm[n])
        PROVE  /\ KeyIs(mm[n][p]) = rs[n]
               /\ \A m \in 1 .. Len(same_feature_map[rs[n]]) : same_feature_map[rs[n]][m] # mm[n][p]
    <3>1. PICK i \in 1 .. Len(R) : FT!Covers(R[i], mm[n][p])
      BY <2>1, <2>3
    <3>2. mm[n][p] \in Column
      BY <2>1, <2>3
    <3>3. mm[n][p] \in Int
      BY <3>2, ColumnsOfTable
    <3> QED BY <2>2, <3>1, <3>3
  <2> QED BY <2>1, <2>3, <2>4 DEF R
<1>7. mm \in Seq(Seq(Column)) /\ Len(mm) = Len(rs)
  <2>1. DOMAIN rs = 1 .. Len(rs) /\ Len(rs) \in Nat
    BY <1>3
  <2>2. mm \in [1 .. Len(rs) -> Seq(Column)]
    BY <1>6, <2>1
  <2> QED BY <2>1, <2>2
<1>8. Apart(mm)
  <2> SUFFICES ASSUME NEW k \in 1 .. Len(mm), NEW l \in 1 .. Len(mm), NEW i \in 1 .. Len(mm[k]),
                      NEW j \in 1 .. Len(mm[l]), mm[k][i] = mm[l][j]
               PROVE  k = l /\ i = j
    BY DEF Apart
  <2> HIDE DEF mm
  <2>1. KeyIs(mm[k][i]) = rs[k] /\ KeyIs(mm[l][j]) = rs[l]
    BY <1>6, <1>7
  <2>2. k = l
    BY <1>3, <1>7, <2>1 DEF Once
  <2>3. i = j
    BY <1>6, <1>7, <2>2 DEF Once
  <2> QED BY <2>2, <2>3
<1>9. ff \in Seq(Seq(Column))
  <2>1. DOMAIN rs = 1 .. Len(rs) /\ Len(rs) \in Nat
    BY <1>3
  <2>2. ASSUME NEW n \in 1 .. Len(rs)
        PROVE  [j \in DOMAIN same_feature_range_map[rs[n]] |-> same_feature_range_map[rs[n]][j][1]] \in Seq(Column)
    <3> DEFINE R == same_feature_range_map[rs[n]]
    <3>1. R \in Seq(FT!ColumnRange)
      BY <1>2, <1>3
    <3> HIDE DEF R
    <3>2. \A j \in 1 .. Len(R) : R[j][1] \in Column
      BY <3>1 DEF FT!ColumnRange, FT!Column, Column
    <3>3. [j \in DOMAIN R |-> R[j][1]] \in [1 .. Len(R) -> Column] /\ Len(R) \in Nat
      BY <3>1, <3>2
    <3>4. [j \in DOMAIN R |-> R[j][1]] \in Seq(Column)
      BY <3>3
    <3> QED BY <3>4 DEF R
  <2>3. ff \in [1 .. Len(rs) -> Seq(Column)]
    BY <2>1, <2>2
  <2> QED BY <2>1, <2>3
<1>10. kept = FlattenSeq(bb) /\ moved = FlattenSeq(mm) /\ first = FlattenSeq(ff)
  OBVIOUS
<1> HIDE DEF bb, mm, ff
<1>11. /\ kept \in Seq(Column) /\ FromFirst(kept, bb, Len(bb)) /\ Once(kept)
       /\ moved \in Seq(Column) /\ FromFirst(moved, mm, Len(mm)) /\ Once(moved)
       /\ first \in Seq(Column)
  BY <1>4, <1>5, <1>7, <1>8, <1>9, <1>10, FlattenSeqs
<1>12. ASSUME NEW p \in 1 .. Len(kept), NEW q \in 1 .. Len(moved), kept[p] = moved[q] PROVE FALSE
  <2>1. PICK k \in 1 .. Len(bb) : \E i \in 1 .. Len(bb[k]) : kept[p] = bb[k][i]
    BY <1>11 DEF FromFirst
  <2>2. PICK l \in 1 .. Len(mm) : \E j \in 1 .. Len(mm[l]) : moved[q] = mm[l][j]
    BY <1>11 DEF FromFirst
  <2>3. PICK i \in 1 .. Len(bb[k]) : kept[p] = bb[k][i]
    BY <2>1
  <2>4. PICK j \in 1 .. Len(mm[l]) : moved[q] = mm[l][j]
    BY <2>2
  <2>5. KeyIs(bb[k][i]) = bs[k] /\ KeyIs(mm[l][j]) = rs[l]
    <3>1. KeyIs(bb[k][i]) = bs[k]
      BY <1>1, <1>4
    <3>2. l \in 1 .. Len(rs)
      BY <1>7
    <3>3. KeyIs(mm[l][j]) = rs[l]
      BY <1>6, <3>2
    <3> QED BY <3>1, <3>3
  <2>6. rs[l] = bs[k] /\ bb[k] = same_feature_map[rs[l]]
    BY <1>4, <1>12, <2>3, <2>4, <2>5
  <2>7. same_feature_map[rs[l]][i] # mm[l][j] /\ i \in 1 .. Len(same_feature_map[rs[l]])
    <3>1. l \in 1 .. Len(rs) /\ i \in 1 .. Len(same_feature_map[rs[l]])
      BY <1>7, <2>6
    <3> QED BY <1>6, <3>1
  <2> QED BY <1>12, <2>3, <2>4, <2>6, <2>7
<1>13. kept \o moved \in Seq(Column) /\ kept \o first \in Seq(Column)
  BY <1>11
<1>14. Once(kept \o moved)
  BY <1>11, <1>12, ConcatOnce
<1>15. ASSUME NEW c \in Column
       PROVE  Holds(kept \o moved, c)
  <2> DEFINE k == KeyIs(c)
  <2>1. c \in Int
    BY ColumnsOfTable
  <2>2. CASE k \in Buckets /\ Holds(same_feature_map[k], c)
    <3>1. PICK n \in 1 .. Len(bs) : bs[n] = k
      BY <1>3, <2>2 DEF Holds
    <3>2. n \in 1 .. Len(bb) /\ Holds(bb[n], c)
      BY <1>4, <2>2, <3>1
    <3>3. Holds(kept, c)
      BY <1>4, <1>10, <3>2, FlattenHas
    <3>4. kept \in Seq(Column) /\ moved \in Seq(Column)
      BY <1>11
    <3> QED BY <3>3, <3>4, ConcatHas
  <2>3. CASE /\ k \in RangeMap
             /\ \E i \in 1 .. Len(same_feature_range_map[k]) : FT!Covers(same_feature_range_map[k][i], c)
    <3>1. PICK n \in 1 .. Len(rs) : rs[n] = k
      BY <1>3, <2>3 DEF Holds
    <3>2. PICK i \in 1 .. Len(same_feature_range_map[rs[n]]) : FT!Covers(same_feature_range_map[rs[n]][i], c)
      BY <2>3, <3>1
    <3>3. Holds(mm[n], c)
      BY <1>6, <2>1, <3>2
    <3>4. n \in 1 .. Len(mm)
      BY <1>7
    <3>5. Holds(moved, c)
      BY <1>7, <1>10, <3>3, <3>4, FlattenHas
    <3>6. kept \in Seq(Column) /\ moved \in Seq(Column)
      BY <1>11
    <3> QED BY <3>5, <3>6, ConcatHas
  <2> QED BY <1>a, <2>2, <2>3
<1> QED BY <1>13, <1>14, <1>15

(* ..., the scatter array's over the visits.                               *)
LEMMA NeedOfVisits ==
  ASSUME IsFiniteSet(DOMAIN scatter_order),
         \A v \in DOMAIN scatter_order : Transform!NeedOf("scatter", scatter_order[v]) \in Nat
  PROVE  Transform!NeedDataNum("scatter") =
           Weight([v \in DOMAIN scatter_order |-> Transform!NeedOf("scatter", scatter_order[v])],
                  DOMAIN scatter_order)
<1> DEFINE D == DOMAIN scatter_order
           g == [v \in D |-> Transform!NeedOf("scatter", scatter_order[v])]
           Solves(iter) ==
             iter = [s \in SUBSET D |->
                       IF s = {} THEN 0
                       ELSE Transform!NeedOf("scatter", scatter_order[CHOOSE x \in s : TRUE])
                              + iter[s \ {CHOOSE x \in s : TRUE}]]
<1>1. ASSUME NEW iter PROVE Solves(iter) <=> SumsUp(iter, g, D)
  <2>1. \A s \in SUBSET D :
          s # {} => g[Pick(s)] = Transform!NeedOf("scatter", scatter_order[CHOOSE x \in s : TRUE])
    BY PickIn DEF Pick
  <2> QED BY <2>1 DEF SumsUp, Pick
<1>2. \A v \in D : g[v] \in Nat
  OBVIOUS
<1>3. SumsUp([s \in SUBSET D |-> Weight(g, s)], g, D)
  BY <1>2, SumExists
<1>4. Transform!NeedDataNum("scatter") = (CHOOSE iter : Solves(iter))[D]
  BY DEF Transform!NeedDataNum, Transform!MapThenSumSet, Transform!MapThenFoldSet
<1> HIDE DEF Solves, g
<1>5. Solves(CHOOSE iter : Solves(iter))
  BY <1>1, <1>3
<1>6. SumsUp(CHOOSE iter : Solves(iter), g, D)
  BY <1>1, <1>5
<1>7. (CHOOSE iter : Solves(iter))[D] = Weight(g, D)
  BY <1>2, <1>6, SumIsWeight
<1> QED BY <1>4, <1>7 DEF g

-----------------------------------------------------------------------------
(* The inductive invariant.                                                *)

(* The index arrays of the lambda.                                         *)
InputsOK ==
  /\ row_ptr    \in [0 .. DataNum - 1 -> Row]
  /\ column_ptr \in [0 .. DataNum - 1 -> 0 .. XNum - 1]

(* What is written for the Infos of a column is what is counted for them.  *)
InfosOK ==
  \A c \in Column :
    GatherFits(gather_info[c]) /\ GatherFits(scatter_info[c]) /\ ReductionFits(reduction_info[c])

(* rearrange visits every column, and none twice.                          *)
OrdersOK ==
  /\ column_order \in Seq(Column) /\ Once(column_order)
  /\ \A c \in Column : Holds(column_order, c)
  /\ scatter_order \in Seq(Column)

(* What an array is counted over, which of it a visit is for, what counts  *)
(* for that, and what the first n visits have been for.                    *)
Counted(name)   == IF name = "scatter" THEN DOMAIN scatter_order ELSE Column
Unit(name, v)   == IF name = "scatter" THEN v ELSE column_order[v]
Share(name)     == IF name = "scatter"
                     THEN [v \in DOMAIN scatter_order |-> Transform!NeedOf("scatter", scatter_order[v])]
                     ELSE [c \in Column |-> Transform!NeedOf(name, c)]
Passed(name, n) == {Unit(name, v) : v \in 1 .. n}

(* An array that is being filled holds at most what the visits made so far *)
(* have been counted for.                                                  *)
FillOK ==
  /\ filling \in 1 .. 5
  /\ visit \in Nat \ {0}
  /\ stream \in [Transform!StreamName -> Seq(Int)]
  /\ \A i \in 1 .. 4 : i > filling => stream[Transform!Streams[i]] = <<>>
  /\ need_data_num = -1 =>
       visit = 1 /\ (filling <= 4 => stream[Transform!Streams[filling]] = <<>>)
  /\ filling = 5 => need_data_num = -1
  /\ filling <= 4 /\ need_data_num # -1 =>
       LET name == Transform!Streams[filling] IN
       /\ need_data_num = Transform!NeedDataNum(name)
       /\ visit - 1 <= Len(Transform!VisitOrder(name))
       /\ Len(stream[name]) <= Weight(Share(name), Passed(name, visit - 1))

(* What is true in each phase of compiler().                               *)
DynVecInv ==
  /\ phase \in {"information", "table", "transform", "code", "run", "done", "unsupported", "check_failed"}
  /\ phase = "information" => InputsOK /\ FT!EmptyTable /\ Transform!NoArrays
  /\ phase = "table" => /\ FT!IInv /\ IsFiniteSet(DOMAIN same_feature_map)
                        /\ InfosOK /\ Transform!NoArrays
  /\ phase \in {"information", "table"} => bucket_order = <<>> /\ range_order = <<>>
  /\ phase = "transform" => InfosOK /\ FillOK
  /\ phase \in {"transform", "code", "run", "done"} => OrdersOK /\ WalksOK
  /\ phase \notin {"information", "table", "transform"} => need_data_num = -1

-----------------------------------------------------------------------------
(* A column of an index array.                                             *)
LEMMA SliceIs ==
  ASSUME NEW index \in [0 .. DataNum - 1 -> Nat], NEW c \in Column
  PROVE  Slice(index, c) \in [Lane -> Nat] /\ Slice(index, c)[0] = index[c * Vector]
         /\ c * Vector \in 0 .. DataNum - 1
<1>1. c \in Nat /\ c * Vector + Vector <= DataNum /\ Vector \in Nat /\ Vector >= 4
  BY ColumnsOfTable, LaneInt
<1>2. c * Vector \in Nat
  BY <1>1, VectorAssumption
<1>3. \A l \in Lane : c * Vector + l \in 0 .. DataNum - 1
  BY <1>1, <1>2, InputAssumption DEF Lane
<1>4. 0 \in Lane /\ c * Vector + 0 = c * Vector
  BY <1>1, <1>2 DEF Lane
<1> QED BY <1>3, <1>4 DEF Slice

(* What rearrange_elem writes at a visit is what the visit counts for.     *)
LEMMA EntriesFit ==
  ASSUME InfosOK, NEW name \in Transform!StreamName, NEW c \in Column
  PROVE  /\ Transform!NeedOf(name, c) \in Nat
         /\ Transform!EntriesOf(name, c) \in Seq(Int)
         /\ Len(Transform!EntriesOf(name, c)) <= Transform!NeedOf(name, c)
<1>1. GatherFits(gather_info[c]) /\ GatherFits(scatter_info[c]) /\ ReductionFits(reduction_info[c])
  BY DEF InfosOK
<1>2. CASE name = "data"
  <2>1. /\ Transform!NeedOf(name, c) = Vector
        /\ Transform!EntriesOf(name, c) = [n \in 1 .. Vector |-> c * Vector + n - 1]
    BY <1>2 DEF Transform!NeedOf, Transform!EntriesOf, Transform!Elements
  <2>2. Vector \in Nat /\ c * Vector \in Int
    BY ColumnsOfTable, VectorAssumption
  <2>3. \A n \in 1 .. Vector : c * Vector + n - 1 \in Int
    BY <2>2
  <2>4. Transform!EntriesOf(name, c) \in [1 .. Vector -> Int]
    BY <2>1, <2>3
  <2> QED BY <2>1, <2>2, <2>4
<1>3. CASE name = "gather"
  <2>1. /\ Transform!NeedOf(name, c) = Transform!NeedOfGather(gather_info[c])
        /\ Transform!EntriesOf(name, c) = Transform!EntriesOfGather(gather_info[c])
    BY <1>3 DEF Transform!NeedOf, Transform!EntriesOf
  <2> QED BY <1>1, <2>1 DEF GatherFits
<1>4. CASE name = "scatter"
  <2>1. /\ Transform!NeedOf(name, c) = Transform!NeedOfGather(scatter_info[c])
        /\ Transform!EntriesOf(name, c) = Transform!EntriesOfGather(scatter_info[c])
    BY <1>4 DEF Transform!NeedOf, Transform!EntriesOf
  <2> QED BY <1>1, <2>1 DEF GatherFits
<1>5. CASE name = "reduction"
  <2>1. /\ Transform!NeedOf(name, c) = Transform!NeedOfReduction(reduction_info[c])
        /\ Transform!EntriesOf(name, c) = Transform!EntriesOfReduction(reduction_info[c])
    BY <1>5 DEF Transform!NeedOf, Transform!EntriesOf
  <2> QED BY <1>1, <2>1 DEF ReductionFits
<1> QED BY <1>2, <1>3, <1>4, <1>5 DEF Transform!StreamName

(* The visits of an array, and what they are for.                          *)
LEMMA Visits ==
  ASSUME InfosOK, OrdersOK, NEW name \in Transform!StreamName
  PROVE  /\ IsFiniteSet(Counted(name))
         /\ \A x \in Counted(name) : Share(name)[x] \in Nat
         /\ Transform!NeedDataNum(name) = Weight(Share(name), Counted(name))
         /\ Len(Transform!VisitOrder(name)) \in Nat
         /\ \A v \in 1 .. Len(Transform!VisitOrder(name)) :
              /\ Transform!VisitOrder(name)[v] \in Column
              /\ Unit(name, v) \in Counted(name)
              /\ Share(name)[Unit(name, v)] = Transform!NeedOf(name, Transform!VisitOrder(name)[v])
              /\ \A w \in 1 .. Len(Transform!VisitOrder(name)) : Unit(name, v) = Unit(name, w) => v = w
<1>1. \A c \in Column : Transform!NeedOf(name, c) \in Nat
  BY EntriesFit
<1>2. CASE name = "scatter"
  <2>1. /\ Transform!VisitOrder(name) = scatter_order /\ scatter_order \in Seq(Column)
        /\ Counted(name) = DOMAIN scatter_order
        /\ \A v : Unit(name, v) = v
        /\ Share(name) = [v \in DOMAIN scatter_order |-> Transform!NeedOf("scatter", scatter_order[v])]
    BY <1>2 DEF OrdersOK, Transform!VisitOrder, Counted, Unit, Share
  <2>2. DOMAIN scatter_order = 1 .. Len(scatter_order) /\ Len(scatter_order) \in Nat
        /\ \A v \in 1 .. Len(scatter_order) : scatter_order[v] \in Column
    BY <2>1
  <2>3. IsFiniteSet(DOMAIN scatter_order)
    <3>1. 1 \in Int /\ Len(scatter_order) \in Int
      BY <2>2
    <3> QED BY <2>2, <3>1, FS_Interval
  <2>4. \A v \in DOMAIN scatter_order : Transform!NeedOf("scatter", scatter_order[v]) \in Nat
    BY <1>1, <1>2, <2>2
  <2>5. Transform!NeedDataNum(name) = Weight(Share(name), Counted(name))
    BY <1>2, <2>1, <2>3, <2>4, NeedOfVisits
  <2> QED BY <1>2, <2>1, <2>2, <2>3, <2>4, <2>5
<1>3. CASE name # "scatter"
  <2>1. /\ Transform!VisitOrder(name) = column_order /\ column_order \in Seq(Column) /\ Once(column_order)
        /\ Counted(name) = Column
        /\ \A v : Unit(name, v) = column_order[v]
        /\ Share(name) = [c \in Column |-> Transform!NeedOf(name, c)]
    BY <1>3 DEF OrdersOK, Transform!VisitOrder, Counted, Unit, Share
  <2>2. Len(column_order) \in Nat /\ \A v \in 1 .. Len(column_order) : column_order[v] \in Column
    BY <2>1
  <2>3. IsFiniteSet(Column)
    BY ColumnsOfTable
  <2>4. Transform!NeedDataNum(name) = Weight(Share(name), Counted(name))
    BY <1>1, <1>3, <2>1, <2>3, NeedOfColumns
  <2> QED BY <1>1, <2>1, <2>2, <2>3, <2>4 DEF Once
<1> QED BY <1>2, <1>3

(* Each visit adds what counts for it, and all of them no more than the    *)
(* whole.                                                                  *)
LEMMA VisitAdds ==
  ASSUME InfosOK, OrdersOK, NEW name \in Transform!StreamName, NEW n \in 0 .. Len(Transform!VisitOrder(name))
  PROVE  /\ Weight(Share(name), Passed(name, n)) \in Nat
         /\ Weight(Share(name), Passed(name, n)) <= Transform!NeedDataNum(name)
         /\ n > 0 => Weight(Share(name), Passed(name, n)) =
                       Weight(Share(name), Passed(name, n - 1))
                         + Transform!NeedOf(name, Transform!VisitOrder(name)[n])
<1> DEFINE L == Len(Transform!VisitOrder(name))
<1>1. /\ IsFiniteSet(Counted(name)) /\ \A x \in Counted(name) : Share(name)[x] \in Nat
      /\ Transform!NeedDataNum(name) = Weight(Share(name), Counted(name))
      /\ L \in Nat
      /\ \A v \in 1 .. L :
           /\ Unit(name, v) \in Counted(name)
           /\ Share(name)[Unit(name, v)] = Transform!NeedOf(name, Transform!VisitOrder(name)[v])
           /\ \A w \in 1 .. L : Unit(name, v) = Unit(name, w) => v = w
  BY Visits
<1> HIDE DEF L
<1>2. n \in Nat /\ n <= L
  BY <1>1 DEF L
<1>3. ASSUME NEW k \in Nat, k <= L
      PROVE  Passed(name, k) \in SUBSET Counted(name) /\ IsFiniteSet(Passed(name, k))
  <2>1. \A v \in 1 .. k : v \in 1 .. L
    BY <1>1, <1>3
  <2>2. Passed(name, k) \in SUBSET Counted(name)
    BY <1>1, <2>1 DEF Passed
  <2> QED BY <1>1, <2>2, FS_Subset
<1>4. /\ Weight(Share(name), Passed(name, n)) \in Nat
      /\ Weight(Share(name), Passed(name, n)) <= Weight(Share(name), Counted(name))
  <2>1. Passed(name, n) \in SUBSET Counted(name) /\ IsFiniteSet(Passed(name, n))
    BY <1>2, <1>3
  <2>2. \A x \in Passed(name, n) : Share(name)[x] \in Nat
    BY <1>1, <2>1
  <2> QED BY <1>1, <2>1, <2>2, StackFinite, StackGrows
<1>5. CASE n > 0
  <2>1. n - 1 \in Nat /\ n - 1 <= L /\ n \in 1 .. L
    BY <1>1, <1>2, <1>5
  <2>2. Passed(name, n) = Passed(name, n - 1) \cup {Unit(name, n)}
    <3>1. 1 .. n = (1 .. n - 1) \cup {n}
      BY <1>2, <1>5
    <3> QED BY <3>1 DEF Passed
  <2>3. Unit(name, n) \notin Passed(name, n - 1)
    <3>1. \A v \in 1 .. n - 1 : v \in 1 .. L /\ v # n
      BY <1>1, <2>1
    <3> QED BY <1>1, <2>1, <3>1 DEF Passed
  <2>4. Passed(name, n - 1) \in SUBSET Counted(name) /\ IsFiniteSet(Passed(name, n - 1))
    BY <1>3, <2>1
  <2>5. \A x \in Passed(name, n - 1) \cup {Unit(name, n)} : Share(name)[x] \in Nat
    BY <1>1, <2>1, <2>4
  <2>6. Weight(Share(name), Passed(name, n)) =
          Weight(Share(name), Passed(name, n - 1)) + Share(name)[Unit(name, n)]
    BY <2>2, <2>3, <2>4, <2>5, StackMore
  <2> QED BY <1>1, <1>4, <2>1, <2>6
<1> QED BY <1>1, <1>4, <1>5

(* An array before its first visit.                                        *)
LEMMA NoVisit == ASSUME NEW name PROVE Weight(Share(name), Passed(name, 0)) = 0
<1>1. Passed(name, 0) = {}
  BY DEF Passed
<1> QED BY <1>1, StackNone

(* The arrays have a name each.                                            *)
LEMMA StreamNames ==
  /\ Len(Transform!Streams) = 4
  /\ \A i \in 1 .. 4 : Transform!Streams[i] \in Transform!StreamName
  /\ \A i, j \in 1 .. 4 : Transform!Streams[i] = Transform!Streams[j] => i = j
BY DEF Transform!Streams, Transform!StreamName

(* malloc_new_data.                                                        *)
LEMMA MallocFills ==
  ASSUME InfosOK, OrdersOK, FillOK, Transform!Malloc
  PROVE  FillOK'
<1> DEFINE name == Transform!Streams[filling]
<1>1. /\ filling \in 1 .. 4 /\ need_data_num = -1 /\ visit = 1 /\ name \in Transform!StreamName
      /\ stream[name] = <<>>
  BY StreamNames DEF FillOK, Transform!Malloc
<1>2. UNCHANGED <<column_order, scatter_order, gather_info, scatter_info, reduction_info, filling, visit, stream>>
      /\ need_data_num' = Transform!NeedDataNum(name)
  BY DEF Transform!Malloc, Transform!transform_inputs, Transform!arrays
<1>3. Transform!NeedDataNum(name) \in Nat /\ Len(Transform!VisitOrder(name)) \in Nat
  <2>1. Len(Transform!VisitOrder(name)) \in Nat
    BY <1>1, Visits
  <2>2. 0 \in 0 .. Len(Transform!VisitOrder(name))
    BY <2>1
  <2>3. /\ IsFiniteSet(Counted(name)) /\ \A x \in Counted(name) : Share(name)[x] \in Nat
        /\ Transform!NeedDataNum(name) = Weight(Share(name), Counted(name))
    BY <1>1, Visits
  <2> QED BY <2>1, <2>3, StackFinite
<1>4. Transform!NeedDataNum(name)' = Transform!NeedDataNum(name)
      /\ Transform!VisitOrder(name)' = Transform!VisitOrder(name)
      /\ Weight(Share(name), Passed(name, visit - 1))' = Weight(Share(name), Passed(name, visit - 1))
  BY <1>2 DEF Transform!NeedDataNum, Transform!NeedOf, Transform!VisitOrder, Share, Passed, Unit
<1>5. Weight(Share(name), Passed(name, visit - 1)) = 0
  BY <1>1, NoVisit
<1>6. Len(stream[name]) = 0
  BY <1>1
<1> HIDE DEF name
<1>7. /\ need_data_num' = Transform!NeedDataNum(name)'
      /\ visit' - 1 <= Len(Transform!VisitOrder(name)')
      /\ Len(stream'[name]) <= Weight(Share(name), Passed(name, visit - 1))'
  BY <1>1, <1>2, <1>3, <1>4, <1>5, <1>6
<1> QED BY <1>1, <1>2, <1>3, <1>7 DEF FillOK, name

(* rearrange_elem.                                                         *)
LEMMA RearrangeFills ==
  ASSUME InfosOK, OrdersOK, FillOK, Transform!RearrangeElem
  PROVE  FillOK'
<1> DEFINE name == Transform!Streams[filling]
           c    == Transform!VisitOrder(name)[visit]
<1>1. /\ filling \in 1 .. 4 /\ need_data_num # -1 /\ visit \in Nat \ {0} /\ name \in Transform!StreamName
      /\ need_data_num = Transform!NeedDataNum(name)
      /\ visit <= Len(Transform!VisitOrder(name))
      /\ Len(stream[name]) <= Weight(Share(name), Passed(name, visit - 1))
      /\ stream \in [Transform!StreamName -> Seq(Int)]
  BY StreamNames DEF FillOK, Transform!RearrangeElem
<1>2. /\ UNCHANGED <<column_order, scatter_order, gather_info, scatter_info, reduction_info, filling, need_data_num>>
      /\ stream' = [stream EXCEPT ![name] = @ \o Transform!EntriesOf(name, c)]
      /\ visit' = visit + 1
  BY DEF Transform!RearrangeElem, Transform!transform_inputs
<1>3. /\ Len(Transform!VisitOrder(name)) \in Nat /\ c \in Column
      /\ visit \in 0 .. Len(Transform!VisitOrder(name)) /\ visit > 0
      /\ visit - 1 \in 0 .. Len(Transform!VisitOrder(name))
  <2>1. Len(Transform!VisitOrder(name)) \in Nat
    BY <1>1, Visits
  <2>2. visit \in 1 .. Len(Transform!VisitOrder(name))
    BY <1>1, <2>1
  <2>3. c \in Column
    BY <1>1, <2>2, Visits
  <2> QED BY <2>1, <2>2, <2>3
<1>4. /\ Transform!NeedOf(name, c) \in Nat
      /\ Transform!EntriesOf(name, c) \in Seq(Int)
      /\ Len(Transform!EntriesOf(name, c)) <= Transform!NeedOf(name, c)
  BY <1>1, <1>3, EntriesFit
<1>5. /\ Weight(Share(name), Passed(name, visit)) =
           Weight(Share(name), Passed(name, visit - 1)) + Transform!NeedOf(name, c)
      /\ Weight(Share(name), Passed(name, visit)) \in Nat
  BY <1>1, <1>3, VisitAdds
<1>6. Weight(Share(name), Passed(name, visit - 1)) \in Nat
  BY <1>1, <1>3, VisitAdds
<1>7. /\ Transform!NeedDataNum(name)' = Transform!NeedDataNum(name)
      /\ Transform!VisitOrder(name)' = Transform!VisitOrder(name)
      /\ Weight(Share(name), Passed(name, visit - 1))' = Weight(Share(name), Passed(name, visit' - 1))
  BY <1>2 DEF Transform!NeedDataNum, Transform!NeedOf, Transform!VisitOrder, Share, Passed, Unit
<1>8. visit' - 1 = visit
  BY <1>1, <1>2
<1> HIDE DEF name, c
<1>9. /\ stream' \in [Transform!StreamName -> Seq(Int)]
      /\ stream'[name] = stream[name] \o Transform!EntriesOf(name, c)
      /\ Len(stream'[name]) = Len(stream[name]) + Len(Transform!EntriesOf(name, c))
      /\ Len(stream[name]) \in Nat /\ Len(Transform!EntriesOf(name, c)) \in Nat
      /\ \A n \in Transform!StreamName : n # name => stream'[n] = stream[n]
  <2>1. stream[name] \in Seq(Int) /\ stream[name] \o Transform!EntriesOf(name, c) \in Seq(Int)
    BY <1>1, <1>4
  <2>2. /\ stream'[name] = stream[name] \o Transform!EntriesOf(name, c)
        /\ \A n \in Transform!StreamName : n # name => stream'[n] = stream[n]
        /\ stream' \in [Transform!StreamName -> Seq(Int)]
    BY <1>1, <1>2, <2>1
  <2> QED BY <1>4, <2>1, <2>2
<1>10. Len(stream'[name]) <= Weight(Share(name), Passed(name, visit - 1))'
  BY <1>1, <1>4, <1>5, <1>6, <1>7, <1>8, <1>9
<1>11. \A i \in 1 .. 4 : i > filling => stream'[Transform!Streams[i]] = <<>>
  <2> SUFFICES ASSUME NEW i \in 1 .. 4, i > filling PROVE stream'[Transform!Streams[i]] = <<>>
    OBVIOUS
  <2>1. Transform!Streams[i] # name /\ Transform!Streams[i] \in Transform!StreamName
    BY <1>1, StreamNames DEF name
  <2>2. stream[Transform!Streams[i]] = <<>>
    BY DEF FillOK
  <2> QED BY <1>9, <2>1, <2>2
<1>12. /\ need_data_num' = Transform!NeedDataNum(name)'
       /\ visit' - 1 <= Len(Transform!VisitOrder(name)')
       /\ visit' \in Nat \ {0}
  BY <1>1, <1>2, <1>3, <1>7, <1>8
<1> QED BY <1>1, <1>2, <1>9, <1>10, <1>11, <1>12 DEF FillOK, name

(* The next array.                                                         *)
LEMMA NextArrayFills ==
  ASSUME FillOK, Transform!NextArray
  PROVE  FillOK'
<1>1. /\ filling \in 1 .. 4 /\ filling' = filling + 1 /\ need_data_num' = -1 /\ visit' = 1
      /\ stream' = stream
  BY StreamNames DEF FillOK, Transform!NextArray, Transform!arrays
<1>2. /\ stream \in [Transform!StreamName -> Seq(Int)]
      /\ \A i \in 1 .. 4 : i > filling => stream[Transform!Streams[i]] = <<>>
  BY DEF FillOK
<1>3. filling' \in 1 .. 5 /\ \A i \in 1 .. 4 : i > filling' => i > filling
  BY <1>1
<1>4. filling' <= 4 => filling' \in 1 .. 4 /\ filling' > filling
  BY <1>1
<1> QED BY <1>1, <1>2, <1>3, <1>4 DEF FillOK

(* The arrays before the first.                                            *)
LEMMA NoArraysFill == Transform!NoArrays => FillOK
<1> SUFFICES ASSUME Transform!NoArrays PROVE FillOK
  OBVIOUS
<1>1. filling = 1 /\ need_data_num = -1 /\ visit = 1 /\ stream = [n \in Transform!StreamName |-> <<>>]
  BY DEF Transform!NoArrays
<1>2. \A i \in 1 .. 4 : stream[Transform!Streams[i]] = <<>>
  BY <1>1, StreamNames
<1>3. <<>> \in Seq(Int)
  OBVIOUS
<1>4. stream \in [Transform!StreamName -> Seq(Int)]
  BY <1>1, <1>3
<1> QED BY <1>1, <1>2, <1>4 DEF FillOK

-----------------------------------------------------------------------------
(* The steps of DynVec.                                                    *)

(* The start of compiler().                                                *)
LEMMA InitDynVec == Init => DynVecInv
<1> SUFFICES ASSUME Init PROVE DynVecInv
  OBVIOUS
<1>1. phase = "information" /\ Transform!NoArrays /\ FT!EmptyTable
  BY DEF Init, Table!EmptyTable, FT!EmptyTable
<1>2. InputsOK
  BY InputAssumption DEF Init, InputsOK
<1>3. bucket_order = <<>> /\ range_order = <<>>
  BY DEF Init
<1> QED BY <1>1, <1>2, <1>3 DEF DynVecInv

(* generate_information, whose Infos make the features of a table.         *)
LEMMA InformationStep ==
  ASSUME NoKeyIsNoHash, DynVecInv, GenerateInformation
  PROVE  DynVecInv'
<1>1. phase = "information" /\ InputsOK /\ FT!EmptyTable /\ Transform!NoArrays
  BY DEF DynVecInv, GenerateInformation
<1>2. /\ UNCHANGED <<same_feature_map, same_feature_range_map, table_pc, next_column, todo, scanned, begin_index,
                     len, new_index_vec, same_write_range>>
      /\ UNCHANGED <<filling, need_data_num, visit, stream, offset>>
      /\ bucket_order' = <<>> /\ range_order' = <<>>
  BY DEF GenerateInformation, DynVecInv, arrays, orders
<1>3. CASE phase' = "unsupported"
  <2>1. need_data_num' = -1
    BY <1>1, <1>2 DEF Transform!NoArrays
  <2> QED BY <1>3, <2>1 DEF DynVecInv
<1>4. CASE phase' # "unsupported"
  <2>1. /\ phase' = "table"
        /\ gather_info'    = [c \in Column |-> GatherInfo(Slice(column_ptr, c))]
        /\ scatter_info'   = [c \in Column |-> ScatterInfo(Slice(row_ptr, c))]
        /\ reduction_info' = [c \in Column |-> ReductionInfo(Slice(row_ptr, c))]
        /\ feature' = [c \in Column |-> <<Packed(gather_info'[c]), Packed(scatter_info'[c]), Packed(reduction_info'[c])>>]
        /\ location' = [c \in Column |-> scatter_info'[c].index[1]]
    BY <1>4 DEF GenerateInformation
  <2>2. ASSUME NEW c \in Column
        PROVE  /\ GatherFits(gather_info'[c]) /\ GatherFits(scatter_info'[c]) /\ ReductionFits(reduction_info'[c])
               /\ scatter_info'[c].index[1] \in Row
    <3>1. /\ row_ptr \in [0 .. DataNum - 1 -> Nat] /\ row_ptr \in [0 .. DataNum - 1 -> Row]
          /\ column_ptr \in [0 .. DataNum - 1 -> Nat]
      BY <1>1, SizeAssumption DEF InputsOK, Row
    <3>2. /\ Slice(row_ptr, c) \in [Lane -> Nat] /\ Slice(row_ptr, c)[0] \in Row
          /\ Slice(column_ptr, c) \in [Lane -> Nat]
      <4>1. /\ Slice(row_ptr, c) \in [Lane -> Nat] /\ Slice(row_ptr, c)[0] = row_ptr[c * Vector]
            /\ c * Vector \in 0 .. DataNum - 1
        BY <3>1, SliceIs
      <4>2. Slice(column_ptr, c) \in [Lane -> Nat]
        BY <3>1, SliceIs
      <4> QED BY <3>1, <4>1, <4>2
    <3>3. /\ gather_info'[c] = GatherInfo(Slice(column_ptr, c))
          /\ scatter_info'[c] = ScatterInfo(Slice(row_ptr, c))
          /\ reduction_info'[c] = ReductionInfo(Slice(row_ptr, c))
      BY <2>1
    <3>4. GatherFits(GatherInfo(Slice(column_ptr, c)))
      BY <3>2, GatherInfoFits
    <3>5. GatherFits(ScatterInfo(Slice(row_ptr, c))) /\ ScatterInfo(Slice(row_ptr, c)).index[1] = Slice(row_ptr, c)[0]
      BY <3>2, ScatterInfoFits
    <3>6. ReductionFits(ReductionInfo(Slice(row_ptr, c)))
      BY <3>2, ReductionInfoFits
    <3> QED BY <3>2, <3>3, <3>4, <3>5, <3>6
  <2>3. InfosOK'
    BY <2>2 DEF InfosOK
  <2>4. feature' \in [Column -> Feature]
    <3>1. \A info : GatherFits(info) \/ ReductionFits(info) => Packed(info) \in Nat
      <4> SUFFICES ASSUME NEW info, GatherFits(info) \/ ReductionFits(info) PROVE Packed(info) \in Nat
        OBVIOUS
      <4>1. info.order \in {DisOrder, IncContinue, OrderEquel} /\ info.mask \in Nat
        BY DEF GatherFits, ReductionFits
      <4> QED BY <4>1 DEF Packed, DisOrder, IncContinue, OrderEquel
    <3>2. ASSUME NEW c \in Column
          PROVE  <<Packed(gather_info'[c]), Packed(scatter_info'[c]), Packed(reduction_info'[c])>> \in Feature
      <4>1. /\ Packed(gather_info'[c]) \in Nat /\ Packed(scatter_info'[c]) \in Nat
            /\ Packed(reduction_info'[c]) \in Nat
        BY <2>2, <3>1
      <4> QED BY <4>1 DEF Feature
    <3> QED BY <2>1, <3>2
  <2>5. location' \in [Column -> Row]
    BY <2>1, <2>2
  <2>6. FT!EmptyTable'
    BY <1>1, <1>2 DEF FT!EmptyTable
  <2>7. FT!TableInit'
    BY <2>4, <2>5, <2>6 DEF FT!TableInit, FT!Column, Column
  <2>8. FT!IInv'
    BY <2>7, FT!BegunTable, TableAssumed
  <2>9. IsFiniteSet(DOMAIN same_feature_map')
    <3>1. same_feature_map' = <<>> /\ DOMAIN <<>> = {}
      BY <2>6 DEF FT!EmptyTable
    <3> QED BY <3>1, FS_EmptySet
  <2>10. Transform!NoArrays'
    BY <1>1, <1>2 DEF Transform!NoArrays
  <2> QED BY <1>2, <2>1, <2>3, <2>8, <2>9, <2>10 DEF DynVecInv
<1> QED BY <1>3, <1>4

(* build of the table.                                                     *)
LEMMA TableStep ==
  ASSUME NoKeyIsNoHash, DynVecInv, BuildTable
  PROVE  DynVecInv'
<1>1. /\ phase = "table" /\ FT!IInv /\ IsFiniteSet(DOMAIN same_feature_map) /\ InfosOK /\ Transform!NoArrays
      /\ Table!TableNext /\ phase' = "table"
      /\ UNCHANGED <<gather_info, scatter_info, reduction_info, filling, need_data_num, visit, stream, offset>>
      /\ bucket_order' = <<>> /\ range_order' = <<>>
  BY DEF DynVecInv, BuildTable, infos, arrays, orders
<1>2. FT!IInv'
  <2>1. FT!TableNext
    BY <1>1, SameTable
  <2> QED BY <1>1, <2>1, FT!TableSteps, TableAssumed
<1>3. IsFiniteSet(DOMAIN same_feature_map')
  BY <1>1, FiniteBuckets
<1>4. InfosOK' /\ Transform!NoArrays'
  BY <1>1 DEF InfosOK, Transform!NoArrays
<1> QED BY <1>1, <1>2, <1>3, <1>4 DEF DynVecInv

(* The maps get their orders.                                              *)
LEMMA OrderStep ==
  ASSUME NoKeyIsNoHash, DynVecInv, FixMapOrder
  PROVE  DynVecInv'
<1>1. /\ phase = "table" /\ FT!IInv /\ IsFiniteSet(DOMAIN same_feature_map) /\ InfosOK /\ Transform!NoArrays
      /\ table_pc = "done" /\ phase' = "transform" /\ bucket_order = <<>> /\ range_order = <<>>
      /\ UNCHANGED <<gather_info, scatter_info, reduction_info, filling, need_data_num, visit, stream, offset>>
      /\ UNCHANGED <<same_feature_map, same_feature_range_map>>
  BY DEF DynVecInv, FixMapOrder, infos, arrays, table
<1> DEFINE kept  == FlattenSeq([n \in DOMAIN bucket_order' |-> same_feature_map[bucket_order'[n]]])
           moved == FlattenSeq([n \in DOMAIN range_order' |->
                      RangesColumns(same_feature_range_map[range_order'[n]])])
           first == FlattenSeq([n \in DOMAIN range_order' |->
                      [j \in DOMAIN same_feature_range_map[range_order'[n]] |->
                         same_feature_range_map[range_order'[n]][j][1]]])
<1>2. /\ bucket_order' \in SetToSeqs(DOMAIN same_feature_map)
      /\ range_order'  \in SetToSeqs(DOMAIN same_feature_range_map)
      /\ column_order' = kept \o moved /\ scatter_order' = kept \o first
  BY <1>1, FirstWalk DEF FixMapOrder
<1>3. /\ kept \o moved \in Seq(Column) /\ Once(kept \o moved) /\ kept \o first \in Seq(Column)
      /\ \A c \in Column : Holds(kept \o moved, c)
  BY <1>1, <1>2, VisitsOnce
<1> HIDE DEF kept, moved, first
<1>4. OrdersOK'
  BY <1>2, <1>3 DEF OrdersOK
<1>5. InfosOK' /\ Transform!NoArrays'
  BY <1>1 DEF InfosOK, Transform!NoArrays
<1>6. FillOK'
  <2>1. FillOK
    BY <1>1, NoArraysFill
  <2> QED BY <1>1, <2>1 DEF FillOK, Transform!NoArrays
<1>7. WalksOK'
  <2>1. DOMAIN same_feature_range_map \subseteq DOMAIN same_feature_map
    BY <1>1, FT!TableDone, TableAssumed
  <2>2. IsFiniteSet(DOMAIN same_feature_range_map)
    BY <1>1, <2>1, FS_Subset
  <2>3. /\ ToSet(bucket_order') = DOMAIN same_feature_map
        /\ ToSet(range_order') = DOMAIN same_feature_range_map
    BY <1>1, <1>2, <2>2, WalkMeetsAll
  <2> QED BY <1>1, <2>3 DEF WalksOK
<1> QED BY <1>1, <1>4, <1>5, <1>6, <1>7 DEF DynVecInv

(* transform_data.                                                         *)
LEMMA TransformStep ==
  ASSUME DynVecInv, TransformArrays
  PROVE  DynVecInv'
<1>1. /\ phase = "transform" /\ InfosOK /\ OrdersOK /\ FillOK /\ Transform!TransformNext /\ phase' = "transform"
      /\ WalksOK /\ UNCHANGED <<same_feature_map, same_feature_range_map, bucket_order, range_order>>
  BY DEF DynVecInv, TransformArrays, table
<1>2. FillOK'
  BY <1>1, MallocFills, RearrangeFills, NextArrayFills DEF Transform!TransformNext
<1>3. UNCHANGED <<gather_info, scatter_info, reduction_info, column_order, scatter_order>>
  BY <1>1 DEF Transform!TransformNext, Transform!Malloc, Transform!RearrangeElem, Transform!NextArray,
              Transform!transform_inputs
<1>4. InfosOK' /\ OrdersOK'
  BY <1>1, <1>3 DEF InfosOK, OrdersOK
<1>5. WalksOK'
  BY <1>1 DEF WalksOK
<1> QED BY <1>1, <1>2, <1>4, <1>5 DEF DynVecInv

(* The phases behind it, in which no array is made.                        *)
LEMMA LaterStep ==
  ASSUME DynVecInv, EndTransform \/ GenerateBucketLoop \/ GenerateRangeLoop \/ EndCode \/ RunKernel \/ EndRun
  PROVE  DynVecInv'
<1>1. /\ phase \in {"transform", "code", "run"} /\ phase' \in {"code", "run", "done", "unsupported", "check_failed"}
      /\ need_data_num' = need_data_num /\ UNCHANGED <<column_order, scatter_order>>
      /\ UNCHANGED <<same_feature_map, same_feature_range_map>> /\ OrdersOK /\ WalksOK
  BY DEF EndTransform, GenerateBucketLoop, GenerateRangeLoop, EndCode, RunKernel, EndRun, AppendLoop, arrays,
         table, orders, DynVecInv
<1>2. need_data_num = -1
  <2>1. CASE phase = "transform"
    <3>1. FillOK /\ filling > 4
      BY <2>1, StreamNames DEF DynVecInv, EndTransform, GenerateBucketLoop, GenerateRangeLoop, EndCode, RunKernel,
                               EndRun, Transform!Transformed
    <3>2. filling = 5
      BY <3>1 DEF FillOK
    <3> QED BY <3>1, <3>2 DEF FillOK
  <2>2. CASE phase # "transform"
    BY <1>1, <2>2 DEF DynVecInv
  <2> QED BY <2>1, <2>2
<1>3. OrdersOK'
  BY <1>1 DEF OrdersOK
<1>4. WalksOK'
  <2>1. UNCHANGED <<bucket_order, range_order>>
    BY <1>1, WalksStay DEF EndTransform, GenerateBucketLoop, GenerateRangeLoop, EndCode, RunKernel, EndRun, orders
  <2> QED BY <1>1, <2>1 DEF WalksOK
<1> QED BY <1>1, <1>2, <1>3, <1>4 DEF DynVecInv

-----------------------------------------------------------------------------
(* DynVecInv is inductive: what each phase of compiler() hands to the next *)
(* is what the next one needs.                                             *)
THEOREM Handed == ASSUME NoKeyIsNoHash PROVE Spec => []DynVecInv
<1>1. ASSUME DynVecInv, [Next]_vars PROVE DynVecInv'
  <2>1. CASE GenerateInformation
    BY <1>1, <2>1, InformationStep
  <2>2. CASE BuildTable
    BY <1>1, <2>2, TableStep
  <2>3. CASE FixMapOrder
    BY <1>1, <2>3, OrderStep
  <2>4. CASE TransformArrays
    BY <1>1, <2>4, TransformStep
  <2>5. CASE EndTransform \/ GenerateBucketLoop \/ GenerateRangeLoop \/ EndCode \/ RunKernel \/ EndRun
    BY <1>1, <2>5, LaterStep
  <2>6. CASE UNCHANGED vars
    <3>1. /\ UNCHANGED <<phase, row_ptr, column_ptr, gather_info, scatter_info, reduction_info, column_order,
                         scatter_order, filling, need_data_num, visit, stream, offset>>
          /\ UNCHANGED <<feature, location, same_feature_map, same_feature_range_map, table_pc, next_column, todo,
                         scanned, begin_index, len, new_index_vec, same_write_range, bucket_order, range_order>>
      BY <2>6 DEF vars, dsl_inputs, infos, table, orders, arrays
    <3>2. FT!IInv => FT!IInv'
      <4>1. UNCHANGED FT!table_vars
        BY <3>1 DEF FT!table_vars, FT!table_inputs, FT!table, FT!scan
      <4> QED BY <4>1, FT!TableSteps, TableAssumed
    <3>3. /\ InputsOK => InputsOK'
          /\ InfosOK => InfosOK'
          /\ OrdersOK => OrdersOK'
          /\ WalksOK => WalksOK'
          /\ phase \in {"information", "table"} => bucket_order' = <<>> /\ range_order' = <<>>
          /\ FT!EmptyTable => FT!EmptyTable'
          /\ Transform!NoArrays => Transform!NoArrays'
      BY <1>1, <3>1 DEF DynVecInv, InputsOK, InfosOK, OrdersOK, WalksOK, FT!EmptyTable, Transform!NoArrays
    <3>4. ASSUME FillOK PROVE FillOK'
      <4> DEFINE name == Transform!Streams[filling]
      <4>1. /\ Transform!NeedDataNum(name)' = Transform!NeedDataNum(name)
            /\ Transform!VisitOrder(name)' = Transform!VisitOrder(name)
            /\ Weight(Share(name), Passed(name, visit - 1))' = Weight(Share(name), Passed(name, visit - 1))
        BY <3>1 DEF Transform!NeedDataNum, Transform!NeedOf, Transform!VisitOrder, Share, Passed, Unit
      <4> HIDE DEF name
      <4>2. filling <= 4 /\ need_data_num # -1 =>
              /\ need_data_num' = Transform!NeedDataNum(name)'
              /\ visit' - 1 <= Len(Transform!VisitOrder(name)')
              /\ Len(stream'[name]) <= Weight(Share(name), Passed(name, visit - 1))'
        BY <3>1, <3>4, <4>1 DEF FillOK, name
      <4> QED BY <3>1, <3>4, <4>2 DEF FillOK, name
    <3>5. CASE phase = "information"
      <4>1. InputsOK /\ FT!EmptyTable /\ Transform!NoArrays
        BY <1>1, <3>5 DEF DynVecInv
      <4>2. InputsOK' /\ FT!EmptyTable' /\ Transform!NoArrays'
        BY <3>3, <4>1
      <4>3. phase' = "information" /\ bucket_order' = <<>> /\ range_order' = <<>>
        BY <3>1, <3>3, <3>5
      <4> QED BY <4>2, <4>3 DEF DynVecInv
    <3>6. CASE phase = "table"
      <4>1. FT!IInv /\ IsFiniteSet(DOMAIN same_feature_map) /\ InfosOK /\ Transform!NoArrays
        BY <1>1, <3>6 DEF DynVecInv
      <4>2. FT!IInv' /\ IsFiniteSet(DOMAIN same_feature_map') /\ InfosOK' /\ Transform!NoArrays'
        BY <3>1, <3>2, <3>3, <4>1
      <4>3. phase' = "table" /\ bucket_order' = <<>> /\ range_order' = <<>>
        BY <3>1, <3>3, <3>6
      <4> QED BY <4>2, <4>3 DEF DynVecInv
    <3>7. CASE phase = "transform"
      <4>1. InfosOK /\ OrdersOK /\ FillOK /\ WalksOK
        BY <1>1, <3>7 DEF DynVecInv
      <4>2. InfosOK' /\ OrdersOK' /\ FillOK' /\ WalksOK'
        BY <3>3, <3>4, <4>1
      <4>3. phase' = "transform"
        BY <3>1, <3>7
      <4> QED BY <4>2, <4>3 DEF DynVecInv
    <3>8. CASE phase \notin {"information", "table", "transform"}
      <4>1. need_data_num = -1 /\ (phase \in {"code", "run", "done"} => OrdersOK /\ WalksOK)
        BY <1>1, <3>8 DEF DynVecInv
      <4>2. need_data_num' = -1 /\ (phase' \in {"code", "run", "done"} => OrdersOK' /\ WalksOK')
        BY <3>1, <3>3, <4>1
      <4>3. phase' = phase /\ phase \in {"information", "table", "transform", "code", "run", "done", "unsupported", "check_failed"}
        BY <1>1, <3>1 DEF DynVecInv
      <4> QED BY <3>8, <4>2, <4>3 DEF DynVecInv
    <3> QED BY <3>5, <3>6, <3>7, <3>8
  <2> QED BY <1>1, <2>1, <2>2, <2>3, <2>4, <2>5, <2>6 DEF Next
<1> QED BY <1>1, InitDynVec, PTL DEF Spec

(* Every column is visited once, whatever the index arrays are, whether    *)
(* or not the hash collides and in whatever order the maps are walked.     *)
THEOREM EveryColumnVisitedOnce == ASSUME NoKeyIsNoHash PROVE Spec => []ColumnsVisitedOnce
<1>1. ASSUME DynVecInv PROVE ColumnsVisitedOnce
  <2> SUFFICES ASSUME phase \in {"transform", "code", "run", "done"}, NEW c \in Column
               PROVE  Cardinality({v \in DOMAIN column_order : column_order[v] = c}) = 1
    BY DEF ColumnsVisitedOnce
  <2>1. OrdersOK
    BY <1>1 DEF DynVecInv
  <2>2. PICK v \in 1 .. Len(column_order) : column_order[v] = c
    BY <2>1 DEF OrdersOK, Holds
  <2>3. \A w \in 1 .. Len(column_order) : column_order[w] = c => w = v
    BY <2>1, <2>2 DEF OrdersOK, Once
  <2>4. DOMAIN column_order = 1 .. Len(column_order)
    BY <2>1 DEF OrdersOK
  <2>5. {w \in DOMAIN column_order : column_order[w] = c} = {v}
    BY <2>2, <2>3, <2>4
  <2> QED BY <2>5, FS_Singleton
<1> QED BY <1>1, Handed, PTL

(* No array is filled beyond the elements that were counted for it,        *)
(* whatever the index arrays are: malloc_new_data and rearrange_elem, each *)
(* with a case analysis of its own for every Info, agree, and the walks    *)
(* that fill an array pass no column twice.                                *)
THEOREM ArraysFilledWithinMalloc == ASSUME NoKeyIsNoHash PROVE Spec => []FilledWithinMalloc
<1>1. ASSUME DynVecInv PROVE FilledWithinMalloc
  <2> SUFFICES ASSUME filling <= 4, need_data_num >= 0
               PROVE  Len(stream[Transform!Streams[filling]]) <= need_data_num
    BY StreamNames DEF FilledWithinMalloc, Transform!FilledWithinMalloc
  <2>1. need_data_num # -1
    OBVIOUS
  <2>2. phase = "transform"
    BY <1>1, <2>1 DEF DynVecInv, Transform!NoArrays
  <2>3. InfosOK /\ OrdersOK /\ FillOK
    BY <1>1, <2>2 DEF DynVecInv
  <2> DEFINE name == Transform!Streams[filling]
  <2>4. /\ need_data_num = Transform!NeedDataNum(name) /\ visit \in Nat \ {0}
        /\ visit - 1 <= Len(Transform!VisitOrder(name))
        /\ Len(stream[name]) <= Weight(Share(name), Passed(name, visit - 1))
        /\ name \in Transform!StreamName /\ Len(stream[name]) \in Nat
    <3>1. filling \in 1 .. 4 /\ stream \in [Transform!StreamName -> Seq(Int)]
      BY <2>3 DEF FillOK
    <3>2. name \in Transform!StreamName /\ Len(stream[name]) \in Nat
      <4>1. name \in Transform!StreamName
        BY <3>1, StreamNames
      <4>2. stream[name] \in Seq(Int)
        BY <3>1, <4>1
      <4> QED BY <4>1, <4>2
    <3> QED BY <2>1, <2>3, <3>1, <3>2 DEF FillOK
  <2> HIDE DEF name
  <2>5. visit - 1 \in 0 .. Len(Transform!VisitOrder(name))
    <3>1. Len(Transform!VisitOrder(name)) \in Nat
      BY <2>3, <2>4, Visits
    <3> QED BY <2>4, <3>1
  <2>6. /\ Weight(Share(name), Passed(name, visit - 1)) \in Nat
        /\ Weight(Share(name), Passed(name, visit - 1)) <= Transform!NeedDataNum(name)
    BY <2>3, <2>4, <2>5, VisitAdds
  <2>7. Len(stream[name]) <= need_data_num
    <3>1. Transform!NeedDataNum(name) \in Nat
      <4>1. /\ IsFiniteSet(Counted(name)) /\ \A x \in Counted(name) : Share(name)[x] \in Nat
            /\ Transform!NeedDataNum(name) = Weight(Share(name), Counted(name))
        BY <2>3, <2>4, Visits
      <4> QED BY <4>1, StackFinite
    <3> QED BY <2>4, <2>6, <3>1
  <2> QED BY <2>7 DEF name
<1> QED BY <1>1, Handed, PTL
-----------------------------------------------------------------------------
(* The products of some elements for a location are those of a part of     *)
(* them together with those of the rest.                                   *)
LEMMA BagOfProducts ==
  ASSUME NEW S, NEW T \in SUBSET S, NEW r
  PROVE  SetToBag(Abstract!ProductsOf(S, r)) =
           SetToBag(Abstract!ProductsOf(T, r)) (+) SetToBag(Abstract!ProductsOf(S \ T, r))
<1> DEFINE P == Abstract!ProductsOf(S, r)
           Q == Abstract!ProductsOf(T, r)
           R == Abstract!ProductsOf(S \ T, r)
<1>1. P = Q \cup R
  BY DEF Abstract!ProductsOf
<1>2. Q \cap R = {}
  BY DEF Abstract!ProductsOf, Abstract!Token
<1> HIDE DEF P, Q, R
<1>3. /\ SetToBag(P) = [e \in P |-> 1] /\ SetToBag(Q) = [e \in Q |-> 1] /\ SetToBag(R) = [e \in R |-> 1]
  BY DEF SetToBag
<1>4. SetToBag(Q) (+) SetToBag(R) =
        [e \in Q \cup R |-> (IF e \in Q THEN 1 ELSE 0) + (IF e \in R THEN 1 ELSE 0)]
  BY <1>3 DEF (+)
<1>5. \A e \in Q \cup R : (IF e \in Q THEN 1 ELSE 0) + (IF e \in R THEN 1 ELSE 0) = 1
  BY <1>2
<1>6. SetToBag(Q) (+) SetToBag(R) = [e \in Q \cup R |-> 1]
  BY <1>4, <1>5
<1> QED BY <1>1, <1>3, <1>6 DEF P, Q, R

(* Every location of y holds the products of the elements that have been   *)
(* added for it, each once, and no other.                                  *)
EachAddedOnce ==
  \A r \in Row : y[r] = SetToBag(Abstract!ProductsOf(AddedElements, r))

(* What the program promises by implementing Accumulate: in every state    *)
(* each location of y holds the products of the elements added to it, each *)
(* once and no other; when all elements are added that is the result of    *)
(* the lambda.                                                             *)
THEOREM RefinementAddsEachOnce == ImplementsAccumulate => []EachAddedOnce
<1> DEFINE Inv == y = [r \in Row |-> SetToBag(Abstract!ProductsOf(AddedElements, r))]
<1>1. ASSUME Abstract!AccumulateInit PROVE Inv
  <2>1. AddedElements = {} /\ y = [r \in Row |-> EmptyBag]
    BY <1>1 DEF Abstract!AccumulateInit, Abstract!Row, Row, Abstract!EmptyBag, EmptyBag, Abstract!SetToBag, SetToBag
  <2>2. \A r \in Row : SetToBag(Abstract!ProductsOf({}, r)) = EmptyBag
    BY DEF Abstract!ProductsOf, EmptyBag
  <2> QED BY <2>1, <2>2
<1>2. ASSUME Inv, [Abstract!AddElements]_Abstract!accumulate_vars PROVE Inv'
  <2>1. CASE Abstract!AddElements
    <3>1. /\ AddedElements \in SUBSET AddedElements'
          /\ y' = [r \in Row |-> y[r] (+) SetToBag(Abstract!ProductsOf(AddedElements' \ AddedElements, r))]
          /\ UNCHANGED <<row_ptr, column_ptr>>
      BY <2>1 DEF Abstract!AddElements, Abstract!Row, Row, Abstract!(+), (+), Abstract!SetToBag, SetToBag
    <3> HIDE DEF Inv
    <3>2. ASSUME NEW r \in Row
          PROVE  y'[r] = SetToBag(Abstract!ProductsOf(AddedElements, r)')
      <4>1. y[r] = SetToBag(Abstract!ProductsOf(AddedElements, r))
        BY <1>2 DEF Inv
      <4>2. y'[r] = y[r] (+) SetToBag(Abstract!ProductsOf(AddedElements' \ AddedElements, r))
        BY <3>1
      <4>3. SetToBag(Abstract!ProductsOf(AddedElements', r)) =
              SetToBag(Abstract!ProductsOf(AddedElements, r))
                (+) SetToBag(Abstract!ProductsOf(AddedElements' \ AddedElements, r))
        BY <3>1, BagOfProducts
      <4>4. Abstract!ProductsOf(AddedElements, r)' = Abstract!ProductsOf(AddedElements', r)
        BY <3>1 DEF Abstract!ProductsOf, Abstract!Token
      <4> QED BY <4>1, <4>2, <4>3, <4>4
    <3>3. y' = [r \in Row |-> SetToBag(Abstract!ProductsOf(AddedElements, r)')]
      BY <3>1, <3>2
    <3> QED BY <3>3 DEF Inv
  <2>2. CASE UNCHANGED Abstract!accumulate_vars
    <3>1. UNCHANGED <<row_ptr, column_ptr, y>> /\ AddedElements' = AddedElements
      BY <2>2 DEF Abstract!accumulate_vars
    <3> QED BY <1>2, <3>1 DEF Abstract!ProductsOf, Abstract!Token
  <2> QED BY <1>2, <2>1, <2>2
<1>3. Inv => EachAddedOnce
  BY DEF EachAddedOnce
<1> HIDE DEF Inv
<1> QED BY <1>1, <1>2, <1>3, PTL DEF ImplementsAccumulate
=============================================================================
