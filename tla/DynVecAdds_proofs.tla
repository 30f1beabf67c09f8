------------------------- MODULE DynVecAdds_proofs -------------------------
(***************************************************************************)
(* Proofs about DynVec: the program implements Accumulate.  An iteration   *)
(* of a loop finds, where its pointers stand, what transform_data wrote    *)
(* for its column; the vectors of the loop, made for the first column of   *)
(* the bucket, then gather, reduce and store the products of this one; and *)
(* so does a range, whose columns are added lane by lane before.           *)
(***************************************************************************)
EXTENDS DynVecRun_proofs

(* The operators of VectorCode, as the kernel has them, are those of       *)
(* VectorCode.                                                             *)
LEMMA RunWords ==
  /\ Run!Lane = Lane /\ Run!Row = Row /\ Run!Garbage = Garbage
  /\ Run!DisOrder = DisOrder /\ Run!IncContinue = IncContinue /\ Run!OrderEquel = OrderEquel
  /\ \A s, p : Run!At(s, p) = At(s, p)
  /\ \A n : Run!XAt(n) = XAt(n)
  /\ \A mask, l : Run!HasBit(mask, l) = HasBit(mask, l)
  /\ \A T : Run!Max(T) = Max(T) /\ Run!Min(T) = Min(T)
<1>1. Run!Lane = Lane /\ Run!Row = Row /\ Run!Garbage = Garbage
  BY DEF Run!Lane, Lane, Run!Row, Row, Run!Garbage, Garbage
<1>2. Run!DisOrder = DisOrder /\ Run!IncContinue = IncContinue /\ Run!OrderEquel = OrderEquel
  BY DEF Run!DisOrder, Run!IncContinue, Run!OrderEquel, DisOrder, IncContinue, OrderEquel
<1>3. \A s, p : Run!At(s, p) = At(s, p)
  BY <1>1 DEF Run!At, At
<1>4. \A n : Run!XAt(n) = XAt(n)
  BY <1>1 DEF Run!XAt, XAt
<1>5. \A mask, l : Run!HasBit(mask, l) = HasBit(mask, l)
  BY DEF Run!HasBit, HasBit
<1>6. \A T : Run!Max(T) = Max(T) /\ Run!Min(T) = Min(T)
  BY DEF Run!Max, Run!Min, Max, Min
<1> QED BY <1>1, <1>2, <1>3, <1>4, <1>5, <1>6

(* Counting and bags are the same too.                                     *)
LEMMA RunBags ==
  /\ \A S : Run!Cardinality(S) = Cardinality(S)
  /\ \A S : Run!SetToBag(S) = SetToBag(S)
  /\ Run!EmptyBag = EmptyBag
  /\ \A b, c : Run!(+)(b, c) = (b (+) c)
<1>1. \A S : Run!Cardinality(S) = Cardinality(S)
  <2> TAKE S
  <2> QED BY Zenon DEF Run!Cardinality, Cardinality
<1>2. \A S : Run!SetToBag(S) = SetToBag(S)
  BY DEF Run!SetToBag, SetToBag
<1>3. Run!EmptyBag = EmptyBag
  BY <1>2 DEF Run!EmptyBag, EmptyBag
<1>4. \A b, c : Run!(+)(b, c) = (b (+) c)
  BY DEF Run!(+), (+)
<1> QED BY <1>1, <1>2, <1>3, <1>4

LEMMA RunLanes ==
  /\ \A s, p : Run!UnpackWords(s, p) = UnpackWords(s, p)
  /\ \A v, zero, idx : Run!ShuffleVector(v, zero, idx) = ShuffleVector(v, zero, idx)
  /\ \A v, idx : Run!PermVar(v, idx) = PermVar(v, idx)
  /\ \A v, w : Run!AddLanes(v, w) = AddLanes(v, w)
  /\ \A v : Run!ReduceLanes(v) = ReduceLanes(v)
  /\ Run!ZeroLanes = ZeroLanes
<1>1. \A s, p : Run!UnpackWords(s, p) = UnpackWords(s, p)
  BY RunWords, RunBags DEF Run!UnpackWords, UnpackWords
<1>2. \A v, zero, idx : Run!ShuffleVector(v, zero, idx) = ShuffleVector(v, zero, idx)
  BY RunWords, RunBags DEF Run!ShuffleVector, ShuffleVector
<1>3. \A v, idx : Run!PermVar(v, idx) = PermVar(v, idx)
  BY RunWords, RunBags DEF Run!PermVar, PermVar
<1>4. \A v, w : Run!AddLanes(v, w) = AddLanes(v, w)
  BY RunWords, RunBags DEF Run!AddLanes, AddLanes
<1>5. ASSUME NEW v PROVE Run!ReduceLanes(v) = ReduceLanes(v)
  BY RunBags DEF Run!ReduceLanes, ReduceLanes, Run!FoldFunction, Run!FoldFunctionOnSet, Run!MapThenFoldSet,
         FoldFunction, FoldFunctionOnSet, MapThenFoldSet
<1>6. Run!ZeroLanes = ZeroLanes
  BY RunWords, RunBags DEF Run!ZeroLanes, ZeroLanes
<1> QED BY <1>1, <1>2, <1>3, <1>4, <1>5, <1>6

LEMMA RunMasks ==
  /\ \A mask : Run!PopCount(mask) = PopCount(mask)
  /\ \A mask : Run!CompressMask(mask) = CompressMask(mask)
  /\ \A mask : Run!CompressVec(mask) = CompressVec(mask)
  /\ \A mask : Run!ExpandIndex(mask) = ExpandIndex(mask)
  /\ \A mask, b : Run!RunLen(mask, b) = RunLen(mask, b)
  /\ \A mask : Run!MaxLen(mask) = MaxLen(mask)
  /\ \A mask, round : Run!ReduceShuffle(mask, round) = ReduceShuffle(mask, round)
<1>1. \A mask : Run!PopCount(mask) = PopCount(mask)
  BY RunWords, RunBags DEF Run!PopCount, PopCount
<1>2. \A mask : Run!CompressMask(mask) = CompressMask(mask)
  BY <1>1, RunWords, RunBags DEF Run!CompressMask, CompressMask
<1>3. ASSUME NEW mask PROVE Run!CompressVec(mask) = CompressVec(mask)
  <2> DEFINE set  == {l \in Lane : HasBit(mask, l)}
             runs == {l \in Run!Lane : Run!HasBit(mask, l)}
             Below(l) == Cardinality({m \in set : m < l})
             BelowR(l) == Run!Cardinality({m \in runs : m < l})
             Nth(n)  == CHOOSE l \in set : Below(l) = n
             NthR(n) == CHOOSE l \in runs : BelowR(l) = n
             F(n) == IF n < Cardinality(set) THEN Nth(n) ELSE Vector
             G(n) == IF n < Run!Cardinality(runs) THEN NthR(n) ELSE Vector
  <2>1. runs = set
    BY RunWords
  <2>2. \A l : BelowR(l) = Below(l)
    BY <2>1, RunBags
  <2>3. CompressVec(mask) = [n \in Lane |-> F(n)] /\ Run!CompressVec(mask) = [n \in Run!Lane |-> G(n)]
    BY DEF CompressVec, Run!CompressVec
  <2>4. Run!Cardinality(runs) = Cardinality(set) /\ Run!Lane = Lane
    BY <2>1, RunWords, RunBags
  <2> HIDE DEF set, runs, Below, BelowR
  <2>5. \A n : NthR(n) = Nth(n)
    BY <2>1, <2>2
  <2> HIDE DEF Nth, NthR
  <2>6. \A n : F(n) = G(n)
    BY <2>4, <2>5
  <2> HIDE DEF F, G
  <2> QED BY <2>3, <2>4, <2>6
<1>4. \A mask : Run!ExpandIndex(mask) = ExpandIndex(mask)
  BY RunWords, RunBags DEF Run!ExpandIndex, ExpandIndex
<1>5. \A mask : Run!RunStarts(mask) = RunStarts(mask)
  BY RunWords, RunBags DEF Run!RunStarts, RunStarts
<1>6. \A mask, b : Run!RunEnd(mask, b) = RunEnd(mask, b)
  BY <1>5, RunWords, RunBags DEF Run!RunEnd, RunEnd
<1>7. \A mask, b : Run!RunLen(mask, b) = RunLen(mask, b)
  BY <1>6 DEF Run!RunLen, RunLen
<1>8. \A mask : Run!Longest(mask) = Longest(mask)
  BY <1>5, <1>7, RunWords, RunBags DEF Run!Longest, Longest
<1>9. \A mask : Run!MaxLen(mask) = MaxLen(mask)
  BY <1>8, RunWords, RunBags DEF Run!MaxLen, MaxLen
<1>10. \A mask, b, k, round : Run!Partner(mask, b, k, round) = Partner(mask, b, k, round)
  BY <1>7 DEF Run!Partner, Partner
<1>11. \A mask, round : Run!ReduceShuffle(mask, round) = ReduceShuffle(mask, round)
  BY <1>5, <1>7, <1>10, RunWords, RunBags DEF Run!ReduceShuffle, ReduceShuffle
<1> QED BY <1>1, <1>2, <1>3, <1>4, <1>7, <1>9, <1>11

LEMMA RunGatherIs ==
  ASSUME NEW info, NEW s, NEW p
  PROVE  Run!GatherX(info, s, p) = GatherX(info, s, p)
<1>1. Run!GatherOneLoad(info, s, p) = GatherOneLoad(info, s, p)
  BY RunWords, RunLanes DEF Run!GatherOneLoad, GatherOneLoad
<1>2. Run!GatherContinue(info, s, p) = GatherContinue(info, s, p)
  BY RunWords, RunLanes, RunMasks DEF Run!GatherContinue, GatherContinue
<1> QED BY <1>1, <1>2, RunWords, RunBags DEF Run!GatherX, GatherX, Run!OneLoad, OneLoad

LEMMA RunReduceIs ==
  ASSUME NEW info, NEW s, NEW p, NEW v
  PROVE  Run!ReduceProducts(info, s, p, v) = ReduceProducts(info, s, p, v)
<1>1. ASSUME NEW mask PROVE Run!ReduceContinue(mask, v) = ReduceContinue(mask, v)
  <2> DEFINE Next1(w, n) == AddLanes(ShuffleVector(w, EmptyBag, ReduceShuffle(mask, n - 1)), w)
             Own(round) == [n \in 0 .. MaxLen(mask) |-> IF n = 0 THEN v ELSE With(round[n - 1], LAMBDA w : Next1(w, n))]
             Runs(round) ==
               [n \in 0 .. Run!MaxLen(mask) |->
                  IF n = 0 THEN v
                  ELSE Run!With(round[n - 1],
                         LAMBDA w : Run!AddLanes(
                                      Run!ShuffleVector(w, Run!EmptyBag, Run!ReduceShuffle(mask, n - 1)), w))]
  <2>1. ReduceContinue(mask, v) = ShuffleVector((CHOOSE r : r = Own(r))[MaxLen(mask)], EmptyBag, CompressVec(mask))
    BY DEF ReduceContinue
  <2>2. Run!ReduceContinue(mask, v) =
          ShuffleVector((CHOOSE r : r = Runs(r))[MaxLen(mask)], EmptyBag, CompressVec(mask))
    BY RunLanes, RunMasks, RunBags DEF Run!ReduceContinue
  <2>3. ASSUME NEW r PROVE Runs(r) = Own(r)
    BY RunLanes, RunMasks, RunBags DEF Run!With, With
  <2> HIDE DEF Own, Runs
  <2>4. (CHOOSE r : r = Runs(r)) = (CHOOSE r : r = Own(r))
    BY <2>3
  <2> QED BY <2>1, <2>2, <2>4
<1>2. ASSUME NEW rounds PROVE Run!ReduceDisorder(rounds, s, p, v) = ReduceDisorder(rounds, s, p, v)
  <2> DEFINE Sel(w, n) == LET perm == UnpackWords(s, p + (n - 1) * (Vector \div 4))
                          IN [l \in Lane |-> IF perm[l] = Vector THEN EmptyBag ELSE PermVar(w, perm)[l]]
             SelR(w, n) == LET perm == Run!UnpackWords(s, p + (n - 1) * (Vector \div 4))
                          IN [l \in Run!Lane |-> IF perm[l] = Vector THEN Run!EmptyBag ELSE Run!PermVar(w, perm)[l]]
             Own(round) == [n \in 0 .. rounds |->
                              IF n = 0 THEN v ELSE With(round[n - 1], LAMBDA w : AddLanes(Sel(w, n), w))]
             Runs(round) == [n \in 0 .. rounds |->
                              IF n = 0 THEN v ELSE Run!With(round[n - 1], LAMBDA w : Run!AddLanes(SelR(w, n), w))]
  <2>1. ReduceDisorder(rounds, s, p, v) = (CHOOSE r : r = Own(r))[rounds]
    BY DEF ReduceDisorder
  <2>2. Run!ReduceDisorder(rounds, s, p, v) = (CHOOSE r : r = Runs(r))[rounds]
    BY DEF Run!ReduceDisorder
  <2>3. \A w, n : SelR(w, n) = Sel(w, n)
    BY RunWords, RunLanes, RunBags
  <2>4. ASSUME NEW r PROVE Runs(r) = Own(r)
    <3> HIDE DEF Sel, SelR
    <3> QED BY <2>3, RunLanes DEF Run!With, With
  <2> HIDE DEF Own, Runs
  <2>5. (CHOOSE r : r = Runs(r)) = (CHOOSE r : r = Own(r))
    BY <2>4
  <2> QED BY <2>1, <2>2, <2>5
<1> QED BY <1>1, <1>2, RunWords, RunLanes DEF Run!ReduceProducts, ReduceProducts

LEMMA RunStoreIs ==
  ASSUME NEW info, NEW s, NEW p, NEW z, NEW v
  PROVE  /\ Run!StoreY(info, s, p, z, v) = StoreY(info, s, p, z, v)
         /\ Run!LoadY(info, s, p, z) = LoadY(info, s, p, z)
<1>1. Run!ActiveLanes(info) = ActiveLanes(info)
  BY RunWords, RunMasks DEF Run!ActiveLanes, ActiveLanes
<1>2. \A l : Run!Target(info, s, p, l) = Target(info, s, p, l)
  BY RunWords, RunBags DEF Run!Target, Target
<1>3. \A r : Run!YAt(z, r) = YAt(z, r)
  BY RunWords, RunBags DEF Run!YAt, YAt
<1>4. Run!StoreY(info, s, p, z, v) = StoreY(info, s, p, z, v)
  BY <1>1, <1>2, RunWords, RunBags DEF Run!StoreY, StoreY, Run!LastWriter, LastWriter
<1>5. Run!LoadY(info, s, p, z) = LoadY(info, s, p, z)
  BY <1>1, <1>2, <1>3, RunWords, RunBags DEF Run!LoadY, LoadY
<1> QED BY <1>4, <1>5

-----------------------------------------------------------------------------
(* What rearrange_elem writes for an Info is what the code made for it     *)
(* reads: the entries es lie in s from position p on.                      *)
Lies(es, s, p) == \A j \in 1 .. Len(es) : At(s, p + (j - 1)) = es[j]

(* All the indices of a column.                                            *)
LEMMA ListedLies ==
  ASSUME NEW idx, NEW s, NEW p \in Int, Lies(Listed(idx), s, p)
  PROVE  \A l \in Lane : At(s, p + l) = idx[l]
<1>1. Len(Listed(idx)) = Vector
  BY LaneInt DEF Listed
<1>2. ASSUME NEW l \in Lane PROVE At(s, p + l) = idx[l]
  <2>1. l + 1 \in 1 .. Vector /\ (l + 1) - 1 = l
    BY LaneInt DEF Lane
  <2>2. At(s, p + l) = Listed(idx)[l + 1]
    BY <1>1, <2>1 DEF Lies
  <2> QED BY <2>1, <2>2 DEF Listed
<1> QED BY <1>2

(* The entries of an Info that lists its indices, and of one that does not.*)
LEMMA EntriesAre ==
  ASSUME NEW info
  PROVE  /\ info.order # DisOrder => Transform!EntriesOfGather(info) = <<info.index[1]>>
         /\ info.order = DisOrder /\ info.mask = Vector /\ (\E S : info.index \in Seq(S)) /\ Len(info.index) = Vector =>
              Transform!EntriesOfGather(info) = info.index
<1>1. info.order # DisOrder => Transform!EntriesOfGather(info) = <<info.index[1]>>
  BY DEF Transform!EntriesOfGather, Transform!DisOrder, DisOrder
<1>2. ASSUME NEW S, info.order = DisOrder, info.mask = Vector, info.index \in Seq(S), Len(info.index) = Vector
      PROVE  Transform!EntriesOfGather(info) = info.index
  <2>1. SubSeq(info.index, 1, Vector) \o <<>> = info.index
    BY <1>2
  <2> QED BY <1>2, <2>1 DEF Transform!EntriesOfGather, Transform!DisOrder, DisOrder
<1> QED BY <1>1, <1>2

(* Rows.                                                                   *)
LEMMA ScatterLies ==
  ASSUME NEW idx \in [Lane -> Nat], NEW s, NEW p \in Int, Lies(Transform!EntriesOfGather(ScatterInfo(idx)), s, p)
  PROVE  ScatterReads(idx, s, p)
<1>1. CASE OrderTypeOf(idx) = DisOrder
  <2>1. ScatterInfo(idx) = [order |-> DisOrder, mask |-> Vector, index |-> Listed(idx), perm |-> <<>>]
    BY <1>1 DEF ScatterInfo
  <2>2. Listed(idx) \in Seq(Int) /\ Len(Listed(idx)) = Vector
    BY LaneInt DEF Listed, Lane
  <2>3. Transform!EntriesOfGather(ScatterInfo(idx)) = Listed(idx)
    BY <2>1, <2>2, EntriesAre
  <2> QED BY <1>1, <2>3, ListedLies DEF ScatterReads
<1>2. CASE OrderTypeOf(idx) # DisOrder
  <2>1. Transform!EntriesOfGather(ScatterInfo(idx)) = <<idx[0]>>
    BY <1>2, OrderInfo, EntriesAre
  <2>2. At(s, p) = idx[0]
    BY <2>1 DEF Lies
  <2> QED BY <1>2, <2>2 DEF ScatterReads
<1> QED BY <1>1, <1>2

(* Columns that are read.                                                  *)
LEMMA GatherLies ==
  ASSUME NEW idx \in [Lane -> Nat], NEW s, NEW p \in Int, Lies(Transform!EntriesOfGather(GatherInfo(idx)), s, p)
  PROVE  GatherReads(idx, s, p)
<1> DEFINE info == GatherInfo(idx)
<1>1. CASE OrderTypeOf(idx) # DisOrder
  <2>1. info.order # DisOrder /\ Transform!EntriesOfGather(info) = <<idx[0]>>
    BY <1>1, OrderInfo, EntriesAre
  <2>2. At(s, p) = idx[0]
    BY <2>1 DEF Lies
  <2> QED BY <2>1, <2>2 DEF GatherReads
<1>2. CASE OrderTypeOf(idx) = DisOrder
  <2> DEFINE min == CHOOSE m \in {idx[l] : l \in Lane} : \A l \in Lane : m <= idx[l]
             from == [l \in Lane |-> idx[l] - min]
             nibbles == MapThenSumSet(LAMBDA l : from[l] * 16^l, Lane)
  <2>1. min = Least(idx) /\ from = From(idx)
    BY DEF Least, From
  <2>2. GatherInfo(idx) =
          IF OneLoadReaches(idx, min)
            THEN [order |-> DisOrder, mask |-> IF Vector > 4 THEN 1 ELSE nibbles, index |-> <<min>>,
                  perm |-> IF Vector > 4 THEN PackWords(from) ELSE <<>>]
            ELSE [order |-> DisOrder, mask |-> Vector, index |-> Listed(idx), perm |-> <<>>]
    BY <1>2 DEF GatherInfo, GatherDisorderInfo
  <2> HIDE DEF min, from, nibbles
  <2>3. CASE ~ OneLoadReaches(idx, Least(idx))
    <3>1. info = [order |-> DisOrder, mask |-> Vector, index |-> Listed(idx), perm |-> <<>>]
      BY <2>1, <2>2, <2>3
    <3>2. Listed(idx) \in Seq(Int) /\ Len(Listed(idx)) = Vector
      BY LaneInt DEF Listed, Lane
    <3>3. Transform!EntriesOfGather(info) = Listed(idx)
      BY <3>1, <3>2, EntriesAre
    <3>4. \A l \in Lane : At(s, p + l) = idx[l]
      BY <3>3, ListedLies
    <3> QED BY <3>1, <3>4 DEF GatherReads
  <2>4. CASE OneLoadReaches(idx, Least(idx))
    <3>1. info.order = DisOrder /\ info.mask # Vector /\ info.index = <<Least(idx)>>
      <4>1. info.index = <<Least(idx)>>
        BY <2>1, <2>2, <2>4
      <4> QED BY <1>2, <2>4, <4>1, DisorderInfo
    <3>2. At(s, p) = Least(idx) /\ (Vector > 4 => \A w \in 1 .. Vector \div 4 : At(s, p + w) = PackWords(From(idx))[w])
      <4>1. CASE Vector > 4
        <5>1. info.mask = 1 /\ info.perm = PackWords(From(idx))
          BY <2>1, <2>2, <2>4, <4>1
        <5>2. Transform!EntriesOfGather(info) = SubSeq(<<Least(idx)>>, 1, 1) \o PackWords(From(idx))
          BY <3>1, <4>1, <5>1 DEF Transform!EntriesOfGather, Transform!DisOrder, DisOrder
        <5>3. SubSeq(<<Least(idx)>>, 1, 1) = <<Least(idx)>>
          <6>1. PICK m \in Int : m = Least(idx)
            BY LeastIs
          <6>2. <<m>> \in Seq(Int) /\ Len(<<m>>) = 1
            OBVIOUS
          <6>3. \A t \in Seq(Int) : Len(t) = 1 => SubSeq(t, 1, 1) = t
            OBVIOUS
          <6>4. SubSeq(<<m>>, 1, 1) = <<m>>
            BY <6>2, <6>3
          <6> QED BY <6>1, <6>4
        <5>4. PackWords(From(idx)) \in Seq(Int) /\ Len(PackWords(From(idx))) = Vector \div 4
          <6>1. From(idx) \in [Lane -> Int]
            <7>1. From(idx) \in [Lane -> 0 .. Vector - 1]
              BY <1>2, <2>4, DisorderInfo
            <7> QED BY <7>1
          <6> QED BY <6>1, <4>1, PackedWords
        <5> DEFINE ws == PackWords(From(idx))
                   es == <<Least(idx)>> \o ws
        <5>5. Len(es) = 1 + Vector \div 4 /\ es[1] = Least(idx) /\ \A w \in 1 .. Vector \div 4 : es[w + 1] = ws[w]
          <6>1. ws \in Seq(Int) /\ Len(ws) = Vector \div 4 /\ Vector \div 4 \in Nat
            BY <5>4, VectorAssumption
          <6>2. <<Least(idx)>> \in Seq(Int) /\ Len(<<Least(idx)>>) = 1
            <7>1. Least(idx) \in Int
              BY LeastIs
            <7> QED BY <7>1
          <6> HIDE DEF ws
          <6>3. /\ Len(<<Least(idx)>> \o ws) = 1 + Vector \div 4
                /\ (<<Least(idx)>> \o ws)[1] = Least(idx)
                /\ \A w \in 1 .. Vector \div 4 : (<<Least(idx)>> \o ws)[w + 1] = ws[w]
            <7> DEFINE q == Vector \div 4
            <7> HIDE DEF q
            <7> QED BY <6>1, <6>2, ConcatProperties DEF q
          <6> QED BY <6>3
        <5>6. Lies(es, s, p)
          BY <5>2, <5>3
        <5> HIDE DEF es
        <5>7. Vector \div 4 \in Nat
          BY VectorAssumption
        <5>8. At(s, p + (1 - 1)) = es[1]
          BY <5>5, <5>6, <5>7 DEF Lies
        <5>9. ASSUME NEW w \in 1 .. Vector \div 4 PROVE At(s, p + w) = ws[w]
          <6>1. w + 1 \in 1 .. Len(es) /\ (w + 1) - 1 = w
            BY <5>5, <5>7
          <6> QED BY <5>5, <5>6, <6>1 DEF Lies
        <5> QED BY <5>5, <5>8, <5>9
      <4>2. CASE ~ (Vector > 4)
        <5>1. Vector = 4
          BY <4>2, VectorAssumption
        <5>2. Transform!EntriesOfGather(info) = <<Least(idx)>>
          BY <3>1, <5>1 DEF Transform!EntriesOfGather, Transform!DisOrder, DisOrder
        <5>3. At(s, p) = Least(idx)
          BY <5>2 DEF Lies
        <5> QED BY <4>2, <5>3
      <4> QED BY <4>1, <4>2
    <3> QED BY <3>1, <3>2 DEF GatherReads
  <2> QED BY <2>3, <2>4
<1> QED BY <1>1, <1>2

(* Rows that are summed up.                                                *)
LEMMA ReductionLies ==
  ASSUME NEW idx \in [Lane -> Nat], OrderTypeOf(idx) = DisOrder, NEW s, NEW p \in Int,
         Lies(Transform!EntriesOfReduction(ReductionInfo(idx)), s, p)
  PROVE  ReductionReads(idx, s, p)
<1> DEFINE info   == ReductionInfo(idx)
           n      == RoundsNeeded(idx)
           rounds == ReductionRounds(idx)
           words  == [k \in DOMAIN rounds |-> PackWords(rounds[k])]
           q      == Vector \div 4
<1>1. info.order = DisOrder /\ info.perm = With(rounds, LAMBDA r : FlattenSeq([k \in DOMAIN r |-> PackWords(r[k])]))
  BY DEF ReductionInfo
<1>2. info.perm = FlattenSeq(words)
  BY <1>1 DEF With
<1>3. Transform!EntriesOfReduction(info) = FlattenSeq(words)
  <2>1. Transform!EntriesOfReduction(info) = info.perm
    BY <1>1 DEF Transform!EntriesOfReduction, Transform!DisOrder, DisOrder
  <2> QED BY <1>2, <2>1
<1>4. n \in 0 .. 4 /\ q \in Nat
  <2>1. n \in 0 .. 4
    BY FewRounds
  <2>2. q \in Nat
    BY VectorAssumption
  <2> QED BY <2>1, <2>2
<1>5. /\ words \in Seq(Seq(Int)) /\ Len(words) = n
      /\ \A k \in 1 .. n : Len(words[k]) = q /\ words[k] = PackWords(rounds[k])
  <2>1. rounds \in [1 .. n -> [Lane -> Int]]
    BY RoundsShape
  <2> HIDE DEF rounds, n
  <2>2. \A k \in 1 .. n : PackWords(rounds[k]) \in Seq(Int) /\ Len(PackWords(rounds[k])) = q
    BY <2>1, PackedWords
  <2>3. words = [k \in 1 .. n |-> PackWords(rounds[k])] /\ n \in Nat
    BY <1>4, <2>1
  <2> HIDE DEF words, q
  <2> QED BY <2>2, <2>3
<1>6. Lies(FlattenSeq(words), s, p)
  BY <1>3
<1> HIDE DEF words, n, rounds, info, q
<1>7. ASSUME NEW k \in 1 .. n, NEW w \in 1 .. q PROVE At(s, (p + (k - 1) * q) + w - 1) = words[k][w]
  <2>1. /\ \A m \in 1 .. n : Lens(words)[m] = q
        /\ Before(Lens(words), k) + w \in 1 .. Len(FlattenSeq(words))
        /\ FlattenSeq(words)[Before(Lens(words), k) + w] = words[k][w]
    <3>1. DOMAIN words = 1 .. n /\ \A m \in 1 .. n : Lens(words)[m] = q
      BY <1>5 DEF Lens
    <3>2. \A m \in 1 .. Len(words) : \A j \in 1 .. Len(words[m]) :
            /\ Before(Lens(words), m) + j \in 1 .. Len(FlattenSeq(words))
            /\ FlattenSeq(words)[Before(Lens(words), m) + j] = words[m][j]
      BY <1>5, FlattenAt
    <3> QED BY <1>5, <3>1, <3>2
  <2>2. \A m \in 0 .. n : Before(Lens(words), m + 1) = m * q
    <3> DEFINE P(m) == m <= n => Before(Lens(words), m + 1) = m * q
    <3>1. /\ Before(Lens(words), 1) = 0
          /\ \A b \in 1 .. n : Before(Lens(words), b + 1) = Before(Lens(words), b) + q
      <4>1. n \in Nat /\ \A b \in 1 .. n : Lens(words)[b] \in Nat
        BY <1>4, <2>1
      <4> QED BY <2>1, <4>1, BeforeSums
    <3>2. n \in {0, 1, 2, 3, 4}
      BY <1>4
    <3>3. 0 * q = 0 /\ 1 * q = 0 * q + q /\ 2 * q = 1 * q + q /\ 3 * q = 2 * q + q /\ 4 * q = 3 * q + q
      BY <1>4
    <3>4. Before(Lens(words), 0 + 1) = 0 * q
      BY <3>1, <3>3
    <3>5. 1 <= n => Before(Lens(words), 1 + 1) = 1 * q
      BY <1>4, <3>1, <3>3, <3>4
    <3>6. 2 <= n => Before(Lens(words), 2 + 1) = 2 * q
      BY <1>4, <3>1, <3>3, <3>5
    <3>7. 3 <= n => Before(Lens(words), 3 + 1) = 3 * q
      BY <1>4, <3>1, <3>3, <3>6
    <3>8. 4 <= n => Before(Lens(words), 4 + 1) = 4 * q
      BY <1>4, <3>1, <3>3, <3>7
    <3> QED BY <1>4, <3>4, <3>5, <3>6, <3>7, <3>8
  <2>3. Before(Lens(words), k) = (k - 1) * q
    <3>1. k - 1 \in 0 .. n /\ (k - 1) + 1 = k
      BY <1>4
    <3> QED BY <2>2, <3>1
  <2>4. PICK a \in Nat : a = (k - 1) * q
    <3>1. k - 1 \in Nat
      BY <1>4
    <3> QED BY <1>4, <3>1
  <2>5. p + ((a + w) - 1) = (p + a) + w - 1
    BY <2>4
  <2>6. At(s, p + ((a + w) - 1)) = words[k][w]
    BY <1>6, <2>1, <2>3, <2>4 DEF Lies
  <2> QED BY <2>4, <2>5, <2>6
<1> QED BY <1>5, <1>7 DEF ReductionReads, n, q, rounds

-----------------------------------------------------------------------------
(* What lies in the transformed arrays: from the place recorded for a      *)
(* visit on, the entries of the column it is for.                          *)
HeldOK ==
  /\ stream \in [Transform!StreamName -> Seq(Int)] /\ offset \in [Transform!StreamName -> Seq(Nat)]
  /\ \A name \in Transform!StreamName : \A v \in 1 .. Len(offset[name]) :
       \A j \in 1 .. Len(Transform!EntriesOf(name, Transform!VisitOrder(name)[v])) :
         /\ offset[name][v] + j \in 1 .. Len(stream[name])
         /\ stream[name][offset[name][v] + j] = Transform!EntriesOf(name, Transform!VisitOrder(name)[v])[j]

(* The entries of a column depend on its Infos only.                       *)
LEMMA EntriesFrame ==
  ASSUME UNCHANGED <<column_order, scatter_order, gather_info, scatter_info, reduction_info>>
  PROVE  /\ \A name : Transform!VisitOrder(name)' = Transform!VisitOrder(name)
         /\ \A name, c : Transform!EntriesOf(name, c)' = Transform!EntriesOf(name, c)
         /\ Transform!StreamName' = Transform!StreamName
BY DEF Transform!VisitOrder, Transform!EntriesOf, Transform!EntriesOfGather, Transform!EntriesOfReduction,
       Transform!Elements, Transform!StreamName

(* The steps that leave the arrays alone.                                  *)
LEMMA HeldStays ==
  ASSUME UNCHANGED <<column_order, scatter_order, gather_info, scatter_info, reduction_info, stream, offset>>, HeldOK
  PROVE  HeldOK'
BY EntriesFrame DEF HeldOK

(* rearrange_elem.                                                         *)
LEMMA RearrangeHolds ==
  ASSUME InfosOK, OrdersOK, FillOK, RecordingOK, HeldOK, Transform!RearrangeElem
  PROVE  HeldOK'
<1>name. PICK name : name = Transform!Streams[filling]
  OBVIOUS
<1>E. PICK E : E = Transform!EntriesOf(name, Transform!VisitOrder(name)[visit])
  OBVIOUS
<1>o. PICK o : o = offset[name]
  OBVIOUS
<1>s. PICK s : s = stream[name]
  OBVIOUS
<1>n. PICK n : n = visit - 1
  OBVIOUS
<1>1. /\ filling \in 1 .. 4 /\ visit \in Nat \ {0} /\ name \in Transform!StreamName
      /\ visit <= Len(Transform!VisitOrder(name))
  <2>1. filling <= 4 /\ visit <= Len(Transform!VisitOrder(name))
    BY <1>name, StreamNames DEF Transform!RearrangeElem
  <2>2. filling \in 1 .. 5 /\ visit \in Nat \ {0}
    BY DEF FillOK
  <2>3. filling \in 1 .. 4
    BY <2>1, <2>2
  <2> QED BY <1>name, <2>1, <2>2, <2>3, StreamNames
<1>2. /\ UNCHANGED <<column_order, scatter_order, gather_info, scatter_info, reduction_info>>
      /\ stream' = [stream EXCEPT ![name] = s \o E]
      /\ offset' = [offset EXCEPT ![name] = Append(o, Len(s))]
  BY <1>name, <1>E, <1>s, <1>o DEF Transform!RearrangeElem, Transform!transform_inputs
<1>3. Len(o) = n /\ n \in Nat /\ n + 1 = visit
  <2>1. Len(offset[Transform!Streams[filling]]) = visit - 1
    BY <1>1 DEF RecordingOK
  <2>2. n \in Nat /\ n + 1 = visit
    BY <1>1, <1>n
  <2> QED BY <1>name, <1>n, <1>o, <2>1, <2>2
<1>4. o \in Seq(Nat) /\ s \in Seq(Int) /\ Len(s) \in Nat
  BY <1>1, <1>o, <1>s DEF HeldOK
<1>5. E \in Seq(Int) /\ Len(E) \in Nat
  <2>1. visit \in 1 .. Len(Transform!VisitOrder(name))
    BY <1>1, Visits
  <2>2. Transform!VisitOrder(name)[visit] \in Column
    BY <1>1, <2>1, Visits
  <2>3. E \in Seq(Int)
    BY <1>1, <1>E, <2>2, EntriesFit
  <2> QED BY <2>3
<1>6. /\ stream'[name] = s \o E /\ offset'[name] = Append(o, Len(s))
      /\ \A m \in Transform!StreamName : m # name => stream'[m] = stream[m] /\ offset'[m] = offset[m]
  BY <1>1, <1>2 DEF HeldOK
<1>7. /\ Len(Append(o, Len(s))) = n + 1 /\ Append(o, Len(s))[n + 1] = Len(s)
      /\ \A v \in 1 .. n : Append(o, Len(s))[v] = o[v]
      /\ Append(o, Len(s)) \in Seq(Nat)
  <2>1. PICK l \in Nat : l = Len(s)
    BY <1>4
  <2>2. /\ Len(Append(o, l)) = n + 1 /\ Append(o, l)[n + 1] = l
        /\ \A v \in 1 .. n : Append(o, l)[v] = o[v]
        /\ Append(o, l) \in Seq(Nat)
    BY ONLY <1>3, <1>4, <2>1
  <2> QED BY <2>1, <2>2
<1>8. /\ s \o E \in Seq(Int) /\ Len(s \o E) = Len(s) + Len(E)
      /\ \A i \in 1 .. Len(s) : (s \o E)[i] = s[i]
      /\ \A j \in 1 .. Len(E) : (s \o E)[Len(s) + j] = E[j]
  <2>1. /\ s \o E \in Seq(Int) /\ Len(s \o E) = Len(s) + Len(E)
        /\ \A i \in 1 .. Len(s) + Len(E) : (s \o E)[i] = IF i <= Len(s) THEN s[i] ELSE E[i - Len(s)]
    BY ONLY <1>4, <1>5, ConcatProperties
  <2>2. PICK l \in Nat : l = Len(s)
    BY <1>4
  <2>3. PICK k \in Nat : k = Len(E)
    BY <1>5
  <2>4. \A i \in 1 .. l : i \in 1 .. l + k /\ i <= l
    OBVIOUS
  <2>5. \A j \in 1 .. k : l + j \in 1 .. l + k /\ ~ (l + j <= l) /\ (l + j) - l = j
    OBVIOUS
  <2> QED BY <2>1, <2>2, <2>3, <2>4, <2>5
<1>9. stream' \in [Transform!StreamName -> Seq(Int)] /\ offset' \in [Transform!StreamName -> Seq(Nat)]
  BY <1>2, <1>7, <1>8 DEF HeldOK
<1>10. ASSUME NEW m \in Transform!StreamName, NEW v \in 1 .. Len(offset'[m]),
              NEW j \in 1 .. Len(Transform!EntriesOf(m, Transform!VisitOrder(m)[v]))
       PROVE  /\ offset'[m][v] + j \in 1 .. Len(stream'[m])
              /\ stream'[m][offset'[m][v] + j] = Transform!EntriesOf(m, Transform!VisitOrder(m)[v])[j]
  <2>1. CASE m # name
    <3>1. stream'[m] = stream[m] /\ offset'[m] = offset[m]
      BY <1>6, <2>1
    <3>2. v \in 1 .. Len(offset[m])
      BY <3>1
    <3> QED BY <3>1, <3>2 DEF HeldOK
  <2>2. CASE m = name /\ v = n + 1
    <3>1. j \in 1 .. Len(E) /\ Transform!EntriesOf(m, Transform!VisitOrder(m)[v])[j] = E[j]
      BY <1>3, <1>E, <2>2
    <3>2. offset'[m][v] = Len(s)
      BY <1>6, <1>7, <2>2
    <3>3. Len(s) + j \in 1 .. Len(s) + Len(E)
      BY <1>4, <1>5, <3>1
    <3> QED BY <1>6, <1>8, <2>2, <3>1, <3>2, <3>3
  <2>3. CASE m = name /\ v # n + 1
    <3>1. v \in 1 .. n
      BY <1>3, <1>6, <1>7, <2>3
    <3>2. offset'[m][v] = o[v]
      BY <1>6, <1>7, <2>3, <3>1
    <3>3. /\ o[v] + j \in 1 .. Len(s)
          /\ s[o[v] + j] = Transform!EntriesOf(m, Transform!VisitOrder(m)[v])[j]
      BY <1>3, <1>o, <1>s, <2>3, <3>1 DEF HeldOK
    <3>4. o[v] + j \in 1 .. Len(s) + Len(E)
      BY <1>4, <1>5, <3>3
    <3> QED BY <1>6, <1>8, <2>3, <3>2, <3>3, <3>4
  <2> QED BY <2>1, <2>2, <2>3
<1>11. /\ \A m : Transform!VisitOrder(m)' = Transform!VisitOrder(m)
       /\ \A m, c : Transform!EntriesOf(m, c)' = Transform!EntriesOf(m, c)
       /\ Transform!StreamName' = Transform!StreamName
  BY <1>2, EntriesFrame
<1> QED BY <1>9, <1>10, <1>11 DEF HeldOK

(* transform_data.                                                         *)
LEMMA TransformHolds ==
  ASSUME InfosOK, OrdersOK, FillOK, RecordingOK, HeldOK, Transform!TransformNext
  PROVE  HeldOK'
<1>1. CASE Transform!RearrangeElem
  BY <1>1, RearrangeHolds
<1>2. CASE Transform!Malloc \/ Transform!NextArray
  <2>1. UNCHANGED <<column_order, scatter_order, gather_info, scatter_info, reduction_info, stream, offset>>
    BY <1>2 DEF Transform!Malloc, Transform!NextArray, Transform!transform_inputs, Transform!arrays
  <2> QED BY <2>1, HeldStays
<1> QED BY <1>1, <1>2 DEF Transform!TransformNext

(* Behind the end of the visits before lie the entries of a visit; of an   *)
(* array that is the null pointer a visit has none.                        *)
LEMMA VisitLies ==
  ASSUME RecordedAll, HeldOK, NEW name \in Transform!StreamName, NEW v \in Nat,
         v + 1 \in 1 .. Len(Transform!VisitOrder(name))
  PROVE  /\ VisitEnd(name, v) \in Nat
         /\ Lies(Transform!EntriesOf(name, Transform!VisitOrder(name)[v + 1]), stream[name], VisitEnd(name, v) + 1)
<1>E. PICK E : E = Transform!EntriesOf(name, Transform!VisitOrder(name)[v + 1])
  OBVIOUS
<1>1. /\ VisitEnd(name, v) \in Nat /\ VisitEnd(name, v + 1) = VisitEnd(name, v) + Len(E)
      /\ VisitEnd(name, v + 1) \in Nat
  <2>1. v \in 0 .. Len(Transform!VisitOrder(name)) /\ v + 1 \in 0 .. Len(Transform!VisitOrder(name))
    OBVIOUS
  <2>2. VisitEnd(name, v) \in Nat /\ VisitEnd(name, v + 1) \in Nat
    BY <2>1 DEF RecordedAll, Recorded
  <2>3. VisitEnd(name, v + 1) = VisitEnd(name, v) + Len(E)
    BY <1>E, NextVisit
  <2> QED BY <2>2, <2>3
<1>2. /\ stream[name] \in Seq(Int) /\ offset[name] \in Seq(Nat)
      /\ Len(offset[name]) \in Nat /\ Len(stream[name]) \in Nat
  BY DEF HeldOK
<1>3. ASSUME NEW j \in 1 .. Len(E)
      PROVE  /\ VisitEnd(name, v) + j \in 1 .. Len(stream[name])
             /\ stream[name][VisitEnd(name, v) + j] = E[j]
  <2>1. CASE v < Len(offset[name])
    <3>1. v + 1 \in 1 .. Len(offset[name]) /\ VisitEnd(name, v) = offset[name][v + 1]
      BY <1>2, <2>1 DEF VisitEnd
    <3> QED BY <1>E, <3>1 DEF HeldOK
  <2>2. CASE ~ (v < Len(offset[name]))
    <3>1. ~ (v + 1 < Len(offset[name]))
      BY <1>2, <2>2
    <3>2. VisitEnd(name, v) = Len(stream[name]) /\ VisitEnd(name, v + 1) = Len(stream[name])
      BY <2>2, <3>1 DEF VisitEnd
    <3>3. Len(stream[name]) = Len(stream[name]) + Len(E) /\ j >= 1 /\ j <= Len(E)
      BY <1>1, <3>2
    <3> QED BY <1>1, <1>2, <3>2, <3>3
  <2> QED BY <2>1, <2>2
<1>4. ASSUME NEW j \in 1 .. Len(E) PROVE At(stream[name], (VisitEnd(name, v) + 1) + (j - 1)) = E[j]
  <2>1. (VisitEnd(name, v) + 1) + (j - 1) = VisitEnd(name, v) + j
    BY <1>1
  <2>2. DOMAIN stream[name] = 1 .. Len(stream[name])
    BY <1>2
  <2> QED BY <1>3, <2>1, <2>2 DEF At
<1> QED BY <1>1, <1>4, <1>E DEF Lies

-----------------------------------------------------------------------------
(* What the Infos of a column say is right for its elements.               *)
InfosAre ==
  /\ InputsOK
  /\ \A c \in Column :
       /\ gather_info[c]    = GatherInfo(Slice(column_ptr, c))
       /\ scatter_info[c]   = ScatterInfo(Slice(row_ptr, c))
       /\ reduction_info[c] = ReductionInfo(Slice(row_ptr, c))
       /\ location[c] = row_ptr[c * Vector]

(* The columns of a range begin with one row.                              *)
RangesLocated ==
  \A k \in DOMAIN same_feature_range_map : \A j \in 1 .. Len(same_feature_range_map[k]) :
    LET r == same_feature_range_map[k][j] IN
    \A c \in r[1] .. r[2] - 1 : location[c] = location[r[1]]

(* The elements of a column have rows and indices of x.                    *)
LEMMA SlicesAre ==
  ASSUME InputsOK, NEW c \in Column
  PROVE  /\ Slice(row_ptr, c) \in [Lane -> Row] /\ Slice(row_ptr, c) \in [Lane -> Nat]
         /\ Slice(column_ptr, c) \in [Lane -> 0 .. XNum - 1] /\ Slice(column_ptr, c) \in [Lane -> Nat]
         /\ Slice(row_ptr, c)[0] = row_ptr[c * Vector]
         /\ \A l \in Lane : /\ Slice(row_ptr, c)[l] = row_ptr[c * Vector + l]
                            /\ Slice(column_ptr, c)[l] = column_ptr[c * Vector + l]
                            /\ c * Vector + l \in 0 .. DataNum - 1
<1>1. \A l \in Lane : c * Vector + l \in 0 .. DataNum - 1
  <2>1. c \in Nat /\ c * Vector + Vector <= DataNum /\ DataNum \in Nat
    BY ColumnsOfTable, InputAssumption
  <2>2. PICK n \in Nat : n = c * Vector
    BY <2>1, VectorAssumption
  <2> QED BY <2>1, <2>2, LaneInt DEF Lane
<1>2. \A l \in Lane : /\ Slice(row_ptr, c)[l] = row_ptr[c * Vector + l]
                      /\ Slice(column_ptr, c)[l] = column_ptr[c * Vector + l]
  BY DEF Slice
<1>3. Slice(row_ptr, c) \in [Lane -> Row] /\ Slice(column_ptr, c) \in [Lane -> 0 .. XNum - 1]
  BY <1>1 DEF Slice, InputsOK
<1>4. Slice(row_ptr, c) \in [Lane -> Nat] /\ Slice(column_ptr, c) \in [Lane -> Nat]
  BY <1>3, SizeAssumption DEF Row
<1>5. 0 \in Lane /\ c * Vector + 0 = c * Vector
  <2>1. c \in Nat /\ Vector \in Nat
    BY ColumnsOfTable, LaneInt
  <2>2. c * Vector \in Nat
    BY <2>1
  <2> QED BY <2>2, LaneInt DEF Lane
<1> QED BY <1>1, <1>2, <1>3, <1>4, <1>5

(* generate_information.                                                   *)
LEMMA InformationRight ==
  ASSUME InputsOK, GenerateInformation, phase' = "table"
  PROVE  InfosAre'
<1>1. /\ gather_info'    = [c \in Column |-> GatherInfo(Slice(column_ptr, c))]
      /\ scatter_info'   = [c \in Column |-> ScatterInfo(Slice(row_ptr, c))]
      /\ reduction_info' = [c \in Column |-> ReductionInfo(Slice(row_ptr, c))]
      /\ location' = [c \in Column |-> scatter_info'[c].index[1]]
      /\ UNCHANGED <<row_ptr, column_ptr>>
  BY DEF GenerateInformation, dsl_inputs
<1>2. ASSUME NEW c \in Column
      PROVE  /\ gather_info'[c]    = GatherInfo(Slice(column_ptr, c))
             /\ scatter_info'[c]   = ScatterInfo(Slice(row_ptr, c))
             /\ reduction_info'[c] = ReductionInfo(Slice(row_ptr, c))
             /\ location'[c] = row_ptr[c * Vector]
  <2>1. ScatterInfo(Slice(row_ptr, c)).index[1] = row_ptr[c * Vector]
    BY SlicesAre, ScatterInfoFits
  <2>2. location'[c] = scatter_info'[c].index[1] /\ scatter_info'[c] = ScatterInfo(Slice(row_ptr, c))
    BY <1>1
  <2> QED BY <1>1, <2>1, <2>2
<1>3. InputsOK'
  BY <1>1 DEF InputsOK
<1>4. \A c : Slice(row_ptr, c)' = Slice(row_ptr, c) /\ Slice(column_ptr, c)' = Slice(column_ptr, c)
  BY <1>1 DEF Slice
<1> QED BY <1>1, <1>2, <1>3, <1>4 DEF InfosAre

(* The other steps leave the Infos alone.                                  *)
LEMMA InfosStay ==
  ASSUME UNCHANGED <<row_ptr, column_ptr, gather_info, scatter_info, reduction_info, location>>, InfosAre
  PROVE  InfosAre'
BY DEF InfosAre, InputsOK, Slice

(* A table that is done.                                                   *)
LEMMA LocatedWhenDone ==
  ASSUME NoKeyIsNoHash, FT!IInv, table_pc = "done"
  PROVE  RangesLocated
<1> SUFFICES ASSUME NEW k \in DOMAIN same_feature_range_map,
                    NEW j \in 1 .. Len(same_feature_range_map[k]),
                    NEW c \in same_feature_range_map[k][j][1] .. same_feature_range_map[k][j][2] - 1
             PROVE  location[c] = location[same_feature_range_map[k][j][1]]
  BY DEF RangesLocated
<1>1. k \in DOMAIN same_feature_map
  BY FT!TableDone, TableAssumed
<1>2. FT!Ranges(k) = same_feature_range_map[k]
  <2>1. k # scanned
    BY <1>1 DEF FT!IInv, FT!TableTypeOK, FT!PhaseOK
  <2> QED BY <2>1 DEF FT!IInv, FT!TableTypeOK, FT!Ranges
<1> QED BY <1>1, <1>2 DEF FT!IInv, FT!RangesOK

LEMMA LocatedStays ==
  ASSUME UNCHANGED <<same_feature_range_map, location>>, RangesLocated
  PROVE  RangesLocated'
BY DEF RangesLocated

(* All the rows of a column of a range are the first of the range.         *)
LEMMA RangeRows ==
  ASSUME InfosAre, RangesLocated, StaticOK, FeaturesApart, LayoutOK,
         NEW b \in BucketNum + 1 .. BlockNum, NEW j \in 1 .. Len(RangesAt(b)),
         NEW c \in RangesAt(b)[j][1] .. RangesAt(b)[j][2] - 1
  PROVE  /\ c \in Column /\ RangesAt(b)[j][1] \in Column
         /\ OrderTypeOf(Slice(row_ptr, c)) = OrderEquel
         /\ \A l \in Lane : row_ptr[c * Vector + l] = row_ptr[RangesAt(b)[j][1] * Vector]
<1> DEFINE h == RangesAt(b)[j][1]
<1>1. /\ RangesAt(b)[j][1] < RangesAt(b)[j][2]
      /\ \A d \in RangesAt(b)[j][1] .. RangesAt(b)[j][2] - 1 : d \in Column /\ FT!KeyOf(d) = KeyAt(b)
      /\ RangesAt(b) \in Seq(FT!ColumnRange)
  BY DEF LayoutOK
<1>2. RangesAt(b)[j][1] \in Int /\ RangesAt(b)[j][2] \in Int
  <2>1. RangesAt(b)[j] \in FT!ColumnRange
    BY <1>1
  <2>2. RangesAt(b)[j][1] \in FT!Column /\ RangesAt(b)[j][2] \in 1 .. TableColumnNum
    BY <2>1 DEF FT!ColumnRange
  <2> QED BY <2>2, ColumnsOfTable DEF FT!Column
<1>3. c \in Column /\ h \in Column /\ FT!KeyOf(c) = KeyAt(b)
  <2>1. h \in h .. RangesAt(b)[j][2] - 1
    BY <1>1, <1>2
  <2> QED BY <1>1, <2>1
<1>4. EquelKey(FT!KeyOf(c))
  <2>1. b - BucketNum \in 1 .. Len(range_order) /\ ~ (b <= BucketNum)
    BY LayoutIs
  <2>2. range_order[b - BucketNum] \in DOMAIN same_feature_range_map
    BY <2>1 DEF LayoutOK
  <2>3. KeyAt(b) \in DOMAIN same_feature_range_map
    BY <2>1, <2>2 DEF KeyAt
  <2> QED BY <1>3, <2>3 DEF StaticOK, RangesEquel
<1>5. location[c] = location[h]
  <2>1. b - BucketNum \in 1 .. Len(range_order)
    BY LayoutIs
  <2>2. range_order[b - BucketNum] \in DOMAIN same_feature_range_map
    BY <2>1 DEF LayoutOK
  <2> QED BY <2>2 DEF RangesLocated, RangesAt
<1>6. scatter_info[c].order = OrderEquel
  BY <1>3, <1>4, EquelTaken
<1>7. OrderTypeOf(Slice(row_ptr, c)) = OrderEquel
  <2>1. scatter_info[c] = ScatterInfo(Slice(row_ptr, c))
    BY <1>3 DEF InfosAre
  <2> QED BY <1>6, <2>1, InfoOrders
<1>8. Slice(row_ptr, c) \in [Lane -> Int] /\ Slice(row_ptr, c)[0] = row_ptr[c * Vector]
      /\ \A l \in Lane : Slice(row_ptr, c)[l] = row_ptr[c * Vector + l]
  <2>1. InputsOK
    BY DEF InfosAre
  <2> QED BY <1>3, <2>1, SlicesAre
<1>9. \A l \in Lane : Slice(row_ptr, c)[l] = Slice(row_ptr, c)[0]
  BY <1>7, <1>8, StepsNone
<1>10. row_ptr[c * Vector] = row_ptr[h * Vector]
  BY <1>3, <1>5 DEF InfosAre
<1> QED BY <1>3, <1>7, <1>8, <1>9, <1>10

-----------------------------------------------------------------------------
(* The code of a loop is of the order and the masks of each of its columns.*)
LEMMA LoopInfos ==
  ASSUME LayoutOK, CodeOK, Len(code) = BlockNum, StaticOK, FeaturesApart,
         NEW b \in 1 .. BlockNum, Iterations(b) > 0, NEW c \in Column, FT!KeyOf(c) = KeyAt(b)
  PROVE  /\ code[b].gather.order = gather_info[c].order /\ code[b].gather.mask = gather_info[c].mask
         /\ code[b].scatter.order = scatter_info[c].order /\ code[b].scatter.mask = scatter_info[c].mask
         /\ code[b].reduction.order = reduction_info[c].order /\ code[b].reduction.mask = reduction_info[c].mask
<1>1. PICK h \in Column : /\ FT!KeyOf(h) = KeyAt(b)
                          /\ code[b].gather = gather_info[h]
                          /\ code[b].scatter = scatter_info[h]
                          /\ code[b].reduction = reduction_info[h]
  BY LoopShape
<1>2. InfosOK /\ FeaturesOK
  BY DEF StaticOK
<1>3. /\ gather_info[h].order = gather_info[c].order /\ gather_info[h].mask = gather_info[c].mask
      /\ scatter_info[h].order = scatter_info[c].order /\ scatter_info[h].mask = scatter_info[c].mask
      /\ reduction_info[h].order = reduction_info[c].order /\ reduction_info[h].mask = reduction_info[c].mask
  BY <1>1, <1>2, SameShape
<1> QED BY <1>1, <1>3

(* The products of each lane of the columns S.                             *)
LaneTokens(S) == [l \in Lane |-> {Abstract!Token(c * Vector + l) : c \in S}]
LaneBags(S)   == [l \in Lane |-> SetToBag(LaneTokens(S)[l])]

(* The products the code computes are those of the column it is at.        *)
LEMMA ColumnProducts ==
  ASSUME StandOK, HeldOK, InfosAre, block \in 1 .. BlockNum, Iterations(block) > 0, executed \in Nat,
         executed + 1 \in 1 .. Len(column_order), NEW c \in Column, c = column_order[executed + 1],
         FT!KeyOf(c) = KeyAt(block)
  PROVE  Run!Products = LaneBags({c})
<1>1. /\ code[block].gather.order = gather_info[c].order /\ code[block].gather.mask = gather_info[c].mask
      /\ gather_info[c] = GatherInfo(Slice(column_ptr, c))
  BY LoopInfos DEF StandOK, PlannedOK, InfosAre
<1>2. /\ Slice(column_ptr, c) \in [Lane -> 0 .. XNum - 1] /\ Slice(column_ptr, c) \in [Lane -> Nat]
      /\ \A l \in Lane : Slice(column_ptr, c)[l] = column_ptr[c * Vector + l]
  BY SlicesAre DEF InfosAre
<1>3. ASSUME NEW name \in {"data", "gather"}
      PROVE  VisitEnd(name, executed) \in Nat /\ pointer[name] = VisitEnd(name, executed)
             /\ Lies(Transform!EntriesOf(name, c), stream[name], VisitEnd(name, executed) + 1)
  <2>1. name \in Transform!StreamName /\ Transform!VisitOrder(name) = column_order
    BY VisitOrders
  <2>2. pointer[name] = VisitEnd(name, executed)
    BY DEF StandOK, AlignOK
  <2> QED BY <2>1, <2>2, VisitLies DEF StandOK
<1>4. GatherX(code[block].gather, stream["gather"], pointer["gather"] + 1) = Slice(column_ptr, c)
  <2> DEFINE idx == Slice(column_ptr, c)
             p   == pointer["gather"] + 1
  <2>1. p \in Int /\ Lies(Transform!EntriesOfGather(GatherInfo(idx)), stream["gather"], p)
    <3>1. Transform!EntriesOf("gather", c) = Transform!EntriesOfGather(GatherInfo(idx))
      BY <1>1 DEF Transform!EntriesOf
    <3> QED BY <1>3, <3>1
  <2> HIDE DEF idx, p
  <2>2. GatherReads(idx, stream["gather"], p)
    BY <1>2, <2>1, GatherLies DEF idx
  <2> QED BY <1>1, <1>2, <2>1, <2>2, GatherBrings DEF idx, p
<1>5. \A l \in Lane : At(stream["data"], pointer["data"] + 1 + l) = c * Vector + l
  <2> TAKE l \in Lane
  <2> DEFINE es == Transform!EntriesOf("data", c)
  <2>1. es = [n \in 1 .. Vector |-> c * Vector + n - 1]
    BY DEF Transform!EntriesOf, Transform!Elements
  <2>2. Vector \in Nat /\ l \in 0 .. Vector - 1 /\ c \in Nat
    BY LaneInt, ColumnsOfTable DEF Lane
  <2>3. l + 1 \in 1 .. Vector /\ (l + 1) - 1 = l
    BY <2>2
  <2>4. Len(es) = Vector
    BY <2>1, <2>2
  <2>5. PICK q \in Nat : q = c * Vector
    BY <2>2
  <2>6. es[l + 1] = q + (l + 1) - 1
    BY <2>1, <2>3, <2>5
  <2>7. At(stream["data"], (VisitEnd("data", executed) + 1) + ((l + 1) - 1)) = es[l + 1]
    BY <1>3, <2>3, <2>4 DEF Lies
  <2> HIDE DEF es
  <2>8. q + (l + 1) - 1 = q + l
    BY <2>2, <2>5
  <2> QED BY <1>3, <2>3, <2>5, <2>6, <2>7, <2>8
<1>6. Run!Products =
        [l \in Lane |-> SetToBag({<<At(stream["data"], pointer["data"] + 1 + l), Slice(column_ptr, c)[l]>>})]
  <2> DEFINE x == Run!GatherX(Run!Current.gather, stream["gather"], pointer["gather"] + 1)
  <2>1. x = Slice(column_ptr, c)
    BY <1>4, RunGatherIs DEF Run!Current
  <2>2. Run!Products =
          [l \in Run!Lane |-> Run!SetToBag({<<Run!At(stream["data"], pointer["data"] + 1 + l), x[l]>>})]
    BY DEF Run!Products, Run!With
  <2> HIDE DEF x
  <2> QED BY <2>1, <2>2, RunWords, RunBags
<1>7. ASSUME NEW l \in Lane
      PROVE  <<At(stream["data"], pointer["data"] + 1 + l), Slice(column_ptr, c)[l]>> = Abstract!Token(c * Vector + l)
  BY <1>2, <1>5 DEF Abstract!Token
<1>8. ASSUME NEW l \in Lane PROVE LaneTokens({c})[l] = {Abstract!Token(c * Vector + l)}
  BY DEF LaneTokens
<1> QED BY <1>6, <1>7, <1>8 DEF LaneBags

-----------------------------------------------------------------------------
(* The elements of the columns S, and those of the remainder before t.     *)
Vectors(S)   == {e \in 0 .. TableColumnNum * Vector - 1 : e \div Vector \in S}
Remainder(t) == {e \in TableColumnNum * Vector .. DataNum - 1 : e < t}

(* Division of an element by the number of lanes.                          *)
LEMMA DivisionIs ==
  ASSUME NEW e \in Nat
  PROVE  \E q \in Nat, l \in Lane : q = e \div Vector /\ e = q * Vector + l
<1>1. ASSUME NEW q \in Int, NEW r \in Int, q = e \div 4, r = e % 4 PROVE 0 <= q /\ e = q * 4 + r /\ 0 <= r /\ r <= 3
  BY ONLY <1>1
<1>2. ASSUME NEW q \in Int, NEW r \in Int, q = e \div 8, r = e % 8 PROVE 0 <= q /\ e = q * 8 + r /\ 0 <= r /\ r <= 7
  BY ONLY <1>2
<1>3. ASSUME NEW q \in Int, NEW r \in Int, q = e \div 16, r = e % 16 PROVE 0 <= q /\ e = q * 16 + r /\ 0 <= r /\ r <= 15
  BY ONLY <1>3
<1>4. PICK q \in Int : q = e \div Vector
  BY VectorAssumption
<1>5. PICK r \in Int : r = e % Vector
  BY VectorAssumption
<1>6. 0 <= q /\ e = q * Vector + r /\ r \in 0 .. Vector - 1
  BY <1>1, <1>2, <1>3, <1>4, <1>5, VectorAssumption
<1> QED BY <1>4, <1>6 DEF Lane

(* An element is a lane of a column.                                       *)
LEMMA ElementIs ==
  /\ \A c \in Column : \A l \in Lane :
       c * Vector + l \in 0 .. TableColumnNum * Vector - 1 /\ (c * Vector + l) \div Vector = c
  /\ \A e \in 0 .. TableColumnNum * Vector - 1 :
       e \div Vector \in Column /\ \E l \in Lane : e = (e \div Vector) * Vector + l
<1>1. Vector \in {4, 8, 16} /\ TableColumnNum \in Nat /\ Column = 0 .. TableColumnNum - 1 /\ Lane = 0 .. Vector - 1
  BY VectorAssumption, ColumnsOfTable DEF Column, Lane
<1>2. ASSUME NEW c \in Column, NEW l \in Lane
      PROVE  c * Vector + l \in 0 .. TableColumnNum * Vector - 1 /\ (c * Vector + l) \div Vector = c
  <2>1. CASE Vector = 4
    BY <1>1, <2>1
  <2>2. CASE Vector = 8
    BY <1>1, <2>2
  <2>3. CASE Vector = 16
    BY <1>1, <2>3
  <2> QED BY <1>1, <2>1, <2>2, <2>3
<1>3. ASSUME NEW e \in 0 .. TableColumnNum * Vector - 1
      PROVE  e \div Vector \in Column /\ \E l \in Lane : e = (e \div Vector) * Vector + l
  <2>1. e \in Nat
    BY <1>1
  <2>2. PICK q \in Nat, l \in Lane : q = e \div Vector /\ e = q * Vector + l
    BY <2>1, DivisionIs
  <2>3. PICK n \in Nat : n = TableColumnNum
    BY <1>1
  <2>4. q * Vector + l <= n * Vector - 1 /\ l >= 0
    <3>1. e <= TableColumnNum * Vector - 1 /\ l >= 0
      BY <1>1
    <3> QED BY <2>2, <2>3, <3>1
  <2>5. q <= n - 1
    <3>1. CASE Vector = 4
      BY ONLY <2>2, <2>3, <2>4, <3>1
    <3>2. CASE Vector = 8
      BY ONLY <2>2, <2>3, <2>4, <3>2
    <3>3. CASE Vector = 16
      BY ONLY <2>2, <2>3, <2>4, <3>3
    <3> QED BY <3>1, <3>2, <3>3, VectorAssumption
  <2> QED BY <1>1, <2>2, <2>3, <2>5
<1> QED BY <1>2, <1>3

(* The elements of columns are not those of other columns, nor of the      *)
(* remainder.                                                              *)
LEMMA VectorsApart ==
  ASSUME NEW S, NEW U, S \cap U = {}, NEW t
  PROVE  /\ Vectors(S) \cap Vectors(U) = {} /\ Vectors(S) \cap Remainder(t) = {}
         /\ Vectors(S \cup U) = Vectors(S) \cup Vectors(U)
<1>1. TableColumnNum * Vector \in Int /\ DataNum \in Int
  BY ColumnsOfTable, InputAssumption, VectorAssumption
<1> DEFINE k == TableColumnNum * Vector
<1> HIDE DEF k
<1>2. \A e \in 0 .. k - 1 : e \notin k .. DataNum - 1
  BY <1>1 DEF k
<1> QED BY <1>2 DEF Vectors, Remainder, k

LEMMA TokensApart == ASSUME NEW S \in SUBSET Column PROVE Disjoint(LaneTokens(S))
<1> SUFFICES ASSUME NEW k \in Lane, NEW l \in Lane, k # l, NEW c \in S, NEW d \in S,
                    Abstract!Token(c * Vector + k) = Abstract!Token(d * Vector + l)
             PROVE  FALSE
  BY DEF Disjoint, LaneTokens
<1>1. c * Vector + k = d * Vector + l
  BY DEF Abstract!Token
<1>2. c = d
  <2>1. c \in Column /\ d \in Column
    OBVIOUS
  <2>2. (c * Vector + k) \div Vector = c /\ (d * Vector + l) \div Vector = d
    BY <2>1, ElementIs
  <2> QED BY <1>1, <2>2
<1>3. PICK q \in Nat : q = c * Vector
  <2>1. c \in Nat /\ Vector \in Nat
    BY ColumnsOfTable, LaneInt
  <2> QED BY <2>1
<1>4. k \in Int /\ l \in Int
  BY LaneInt DEF Lane
<1> QED BY <1>1, <1>2, <1>3, <1>4

(* Columns with the same rows: the products for a row are in its lanes.    *)
HaveRows(S, idx) == \A c \in S : \A l \in Lane : row_ptr[c * Vector + l] = idx[l]

LEMMA TokensOfRow ==
  ASSUME NEW S \in SUBSET Column, NEW idx \in [Lane -> Row], HaveRows(S, idx), NEW r
  PROVE  InLanes(LaneTokens(S), RowLanes(idx, r)) = Abstract!ProductsOf(Vectors(S), r)
<1>1. ASSUME NEW x \in InLanes(LaneTokens(S), RowLanes(idx, r))
      PROVE  x \in Abstract!ProductsOf(Vectors(S), r)
  <2>1. PICK l \in RowLanes(idx, r) : x \in LaneTokens(S)[l]
    BY <1>1 DEF InLanes
  <2>2. l \in Lane /\ idx[l] = r
    BY <2>1 DEF RowLanes
  <2>3. PICK c \in S : x = Abstract!Token(c * Vector + l)
    BY <2>1, <2>2 DEF LaneTokens
  <2>4. c * Vector + l \in Vectors(S)
    BY <2>2, ElementIs DEF Vectors
  <2>5. row_ptr[c * Vector + l] = r
    BY <2>2 DEF HaveRows
  <2> QED BY <2>3, <2>4, <2>5 DEF Abstract!ProductsOf
<1>2. ASSUME NEW x \in Abstract!ProductsOf(Vectors(S), r)
      PROVE  x \in InLanes(LaneTokens(S), RowLanes(idx, r))
  <2>1. PICK e \in Vectors(S) : x = Abstract!Token(e) /\ row_ptr[e] = r
    BY <1>2 DEF Abstract!ProductsOf
  <2>2. e \in 0 .. TableColumnNum * Vector - 1 /\ e \div Vector \in S
    BY <2>1 DEF Vectors
  <2>3. PICK l \in Lane : e = (e \div Vector) * Vector + l
    BY <2>2, ElementIs
  <2>4. PICK c \in S : c = e \div Vector
    BY <2>2
  <2>5. e = c * Vector + l
    BY <2>3, <2>4
  <2>6. idx[l] = r /\ x = Abstract!Token(c * Vector + l)
    BY <2>1, <2>5 DEF HaveRows
  <2>7. l \in RowLanes(idx, r) /\ x \in LaneTokens(S)[l]
    BY <2>6 DEF RowLanes, LaneTokens
  <2> QED BY <2>7 DEF InLanes
<1> QED BY <1>1, <1>2

(* None of the elements A is of the columns S.                             *)
Outside(A, S) == A \cap Vectors(S) = {}

(* What the store leaves in y when the products of S are added to it.      *)
LEMMA StoredSums ==
  ASSUME NEW S \in SUBSET Column, NEW idx \in [Lane -> Row], HaveRows(S, idx),
         NEW A, Outside(A, S), NEW r, y[r] = SetToBag(Abstract!ProductsOf(A, r))
  PROVE  /\ RowLanes(idx, r) = {} => y[r] = SetToBag(Abstract!ProductsOf(A \cup Vectors(S), r))
         /\ RowLanes(idx, r) # {} => y[r] (+) SumOf(LaneTokens(S), RowLanes(idx, r))
                                      = SetToBag(Abstract!ProductsOf(A \cup Vectors(S), r))
<1> DEFINE P == Abstract!ProductsOf(A, r)
           Q == Abstract!ProductsOf(Vectors(S), r)
<1>1. y[r] = SetToBag(P)
  OBVIOUS
<1>2. SumOf(LaneTokens(S), RowLanes(idx, r)) = SetToBag(Q)
  BY TokensOfRow DEF SumOf
<1>3. SetToBag(Abstract!ProductsOf(A \cup Vectors(S), r)) = SetToBag(P) (+) SetToBag(Q)
  <2>1. A \in SUBSET (A \cup Vectors(S)) /\ (A \cup Vectors(S)) \ A = Vectors(S)
    BY DEF Outside
  <2> QED BY <2>1, BagOfProducts
<1>4. RowLanes(idx, r) = {} => Abstract!ProductsOf(A \cup Vectors(S), r) = P
  <2> SUFFICES ASSUME RowLanes(idx, r) = {} PROVE Abstract!ProductsOf(A \cup Vectors(S), r) = P
    OBVIOUS
  <2>1. Q = {}
    BY TokensOfRow DEF InLanes
  <2>2. Abstract!ProductsOf(A \cup Vectors(S), r) = P \cup Q
    BY DEF Abstract!ProductsOf
  <2> QED BY <2>1, <2>2
<1> QED BY <1>1, <1>2, <1>3, <1>4

(* An iteration of the scalar loop.                                        *)
LEMMA ScalarSums ==
  ASSUME NEW e, NEW A, e \notin A, row_ptr[e] \in Row,
         y = [r \in Row |-> SetToBag(Abstract!ProductsOf(A, r))],
         NEW z, z = [y EXCEPT ![row_ptr[e]] = @ (+) SetToBag({Abstract!Token(e)})]
  PROVE  z = [r \in Row |-> SetToBag(Abstract!ProductsOf(A \cup {e}, r))]
<1>1. ASSUME NEW r \in Row
      PROVE  z[r] = SetToBag(Abstract!ProductsOf(A \cup {e}, r))
  <2>1. CASE r # row_ptr[e]
    <3>1. Abstract!ProductsOf(A \cup {e}, r) = Abstract!ProductsOf(A, r)
      BY <2>1 DEF Abstract!ProductsOf
    <3> QED BY <2>1, <3>1
  <2>2. CASE r = row_ptr[e]
    <3>1. Abstract!ProductsOf({e}, r) = {Abstract!Token(e)}
      BY <2>2 DEF Abstract!ProductsOf
    <3>2. A \in SUBSET (A \cup {e}) /\ (A \cup {e}) \ A = {e}
      OBVIOUS
    <3>3. SetToBag(Abstract!ProductsOf(A \cup {e}, r)) =
            SetToBag(Abstract!ProductsOf(A, r)) (+) SetToBag({Abstract!Token(e)})
      BY <3>1, <3>2, BagOfProducts
    <3>4. z[r] = y[r] (+) SetToBag({Abstract!Token(e)})
      BY <2>2
    <3> QED BY <3>3, <3>4
  <2> QED BY <2>1, <2>2
<1> QED BY <1>1

-----------------------------------------------------------------------------
(* What y and the sums of the range that runs hold.                        *)
Stored == executed - (IF InRange THEN inner.taken ELSE 0)
ColumnsOf(m, n) == {column_order[v] : v \in m .. n}

(* What is in y when the elements A have been added.                       *)
Sums(A) == [r \in Row |-> SetToBag(Abstract!ProductsOf(A, r))]

SumsOK ==
  /\ tail \in Nat /\ tail >= TableColumnNum * Vector
  /\ y = Sums(AddedElements)
  /\ InRange =>
       /\ {"size", "taken", "reduce_var", "entry", "loaded"} \subseteq DOMAIN inner
       /\ inner.entry = VisitEnd("scatter", KeptNum + range_pointer - 1) + 1
       /\ inner.loaded = LoadY(code[block].scatter, stream["scatter"], inner.entry, y)
       /\ inner.reduce_var = LaneBags(ColumnsOf(Stored + 1, executed))

LEMMA AddedIs == AddedElements = Vectors(ColumnsOf(1, Stored)) \cup Remainder(tail)
BY DEF AddedElements, Vectors, Remainder, ColumnsOf, Stored, InRange

(* The columns of a walk that takes none twice.                            *)
LEMMA ColumnsTaken ==
  ASSUME OrdersOK, NEW m \in Nat, NEW n \in Nat, m <= n, n <= Len(column_order)
  PROVE  /\ ColumnsOf(1, m) \cup ColumnsOf(m + 1, n) = ColumnsOf(1, n)
         /\ ColumnsOf(1, m) \cap ColumnsOf(m + 1, n) = {}
         /\ ColumnsOf(m + 1, n) \in SUBSET Column
<1>1. PICK k \in Nat : k = Len(column_order)
  BY DEF OrdersOK
<1>2. \A v \in 1 .. k : column_order[v] \in Column
  BY <1>1 DEF OrdersOK
<1>3. \A v, w \in 1 .. k : column_order[v] = column_order[w] => v = w
  BY <1>1 DEF OrdersOK, Once
<1>4. /\ (1 .. m) \cup (m + 1 .. n) = 1 .. n
      /\ \A v \in 1 .. m : \A w \in m + 1 .. n : v \in 1 .. k /\ w \in 1 .. k /\ v # w
  BY <1>1
<1>5. \A w \in m + 1 .. n : w \in 1 .. k
  BY <1>1
<1>6. ColumnsOf(1, m) \cup ColumnsOf(m + 1, n) = ColumnsOf(1, n)
  BY <1>4 DEF ColumnsOf
<1>7. ColumnsOf(1, m) \cap ColumnsOf(m + 1, n) = {}
  <2> SUFFICES ASSUME NEW v \in 1 .. m, NEW w \in m + 1 .. n, column_order[v] = column_order[w] PROVE FALSE
    BY DEF ColumnsOf
  <2> QED BY <1>3, <1>4
<1>8. ColumnsOf(m + 1, n) \in SUBSET Column
  BY <1>2, <1>5 DEF ColumnsOf
<1> QED BY <1>6, <1>7, <1>8

(* The reduction and the store, for columns S with the rows of c.          *)
LEMMA GroupStored ==
  ASSUME StandOK, InfosAre, block \in 1 .. BlockNum, Iterations(block) > 0,
         NEW c \in Column, FT!KeyOf(c) = KeyAt(block),
         NEW S \in SUBSET Column, HaveRows(S, Slice(row_ptr, c)),
         NEW p \in Int, ScatterReads(Slice(row_ptr, c), stream["scatter"], p),
         pointer["reduction"] + 1 \in Int,
         OrderTypeOf(Slice(row_ptr, c)) = DisOrder =>
           ReductionReads(Slice(row_ptr, c), stream["reduction"], pointer["reduction"] + 1),
         NEW A, Outside(A, S), y = Sums(A),
         NEW loaded, loaded = LoadY(code[block].scatter, stream["scatter"], p, y)
  PROVE  Run!Accumulated(p, loaded, LaneBags(S)) = Sums(A \cup Vectors(S))
<1> DEFINE products == LaneBags(S)
           idx == Slice(row_ptr, c)
           T   == LaneTokens(S)
           rp  == pointer["reduction"] + 1
           z   == StoreY(code[block].scatter, stream["scatter"], p, y,
                         AddLanes(loaded, ReduceProducts(code[block].reduction, stream["reduction"], rp, products)))
<1>1. /\ code[block].scatter.order = ScatterInfo(idx).order /\ code[block].scatter.mask = ScatterInfo(idx).mask
      /\ code[block].reduction.order = ReductionInfo(idx).order
      /\ code[block].reduction.mask = ReductionInfo(idx).mask
  BY LoopInfos DEF StandOK, PlannedOK, InfosAre
<1>2. Run!Accumulated(p, loaded, products) = z
  <2> DEFINE sums == Run!ReduceProducts(code[block].reduction, stream["reduction"], rp, products)
  <2>1. Run!Accumulated(p, loaded, products) =
          Run!StoreY(code[block].scatter, stream["scatter"], p, y, Run!AddLanes(loaded, sums))
    BY DEF Run!Accumulated, Run!With, Run!Current
  <2>2. sums = ReduceProducts(code[block].reduction, stream["reduction"], rp, products)
    BY RunReduceIs
  <2> HIDE DEF sums, rp
  <2>3. Run!AddLanes(loaded, sums) = AddLanes(loaded, sums)
    BY RunLanes
  <2>4. Run!StoreY(code[block].scatter, stream["scatter"], p, y, AddLanes(loaded, sums)) =
          StoreY(code[block].scatter, stream["scatter"], p, y, AddLanes(loaded, sums))
    BY RunStoreIs
  <2>5. z = StoreY(code[block].scatter, stream["scatter"], p, y, AddLanes(loaded, sums))
    BY <2>2
  <2> HIDE DEF z
  <2> QED BY <2>1, <2>3, <2>4, <2>5
<1>3. idx \in [Lane -> Row] /\ Disjoint(T)
  BY SlicesAre, TokensApart DEF InfosAre
<1> HIDE DEF idx, T, rp
<1>4. z = [r \in Row |-> IF RowLanes(idx, r) = {} THEN y[r] ELSE y[r] (+) SumOf(T, RowLanes(idx, r))]
  <2>1. rp \in Int /\ ScatterReads(idx, stream["scatter"], p)
        /\ (OrderTypeOf(idx) = DisOrder => ReductionReads(idx, stream["reduction"], rp))
    BY DEF idx, rp
  <2>2. products = [l \in Lane |-> SetToBag(T[l])]
    BY DEF T, LaneBags
  <2> QED BY <1>1, <1>3, <2>1, <2>2, StoreAdds
<1> HIDE DEF z
<1>5. z = Sums(A \cup Vectors(S))
  <2>1. HaveRows(S, idx)
    BY DEF idx
  <2>2. ASSUME NEW r \in Row
        PROVE  (IF RowLanes(idx, r) = {} THEN y[r] ELSE y[r] (+) SumOf(T, RowLanes(idx, r)))
                 = SetToBag(Abstract!ProductsOf(A \cup Vectors(S), r))
    <3>1. y[r] = SetToBag(Abstract!ProductsOf(A, r))
      BY DEF Sums
    <3>2. PICK i \in [Lane -> Row] : i = idx
      BY <1>3
    <3>3. HaveRows(S, i)
      BY <2>1, <3>2
    <3>4. /\ RowLanes(i, r) = {} => y[r] = SetToBag(Abstract!ProductsOf(A \cup Vectors(S), r))
          /\ RowLanes(i, r) # {} => y[r] (+) SumOf(LaneTokens(S), RowLanes(i, r))
                                     = SetToBag(Abstract!ProductsOf(A \cup Vectors(S), r))
      BY ONLY <3>1, <3>3, StoredSums, S \in SUBSET Column, i \in [Lane -> Row], Outside(A, S)
    <3> QED BY <3>2, <3>4 DEF T
  <2> QED BY <1>4, <2>2 DEF Sums
<1> QED BY <1>2, <1>5

-----------------------------------------------------------------------------
(* y after a step that has added the elements it counts.                   *)
LEMMA SumsMore ==
  ASSUME UNCHANGED <<row_ptr, column_ptr>>, NEW A, AddedElements' = A,
         y' = Sums(A)
  PROVE  (y = Sums(AddedElements))'
<1>1. ASSUME NEW r \in Row
      PROVE  Abstract!ProductsOf(AddedElements, r)' = Abstract!ProductsOf(A, r)
  BY DEF Abstract!ProductsOf, Abstract!Token
<1> QED BY <1>1 DEF Sums

(* The elements added are told by where the code stands.                   *)
LEMMA AddedFrame ==
  ASSUME Frame
  PROVE  AddedElements' = Vectors(ColumnsOf(1, Stored')) \cup Remainder(tail')
<1>1. AddedElements' = (Vectors(ColumnsOf(1, Stored)) \cup Remainder(tail))'
  BY DEF AddedElements, Vectors, Remainder, ColumnsOf, Stored, InRange
<1>2. ColumnsOf(1, Stored)' = ColumnsOf(1, Stored')
  BY DEF ColumnsOf, Frame
<1>3. Vectors(ColumnsOf(1, Stored))' = Vectors(ColumnsOf(1, Stored'))
  BY <1>2 DEF Vectors
<1>4. Remainder(tail)' = Remainder(tail')
  BY DEF Remainder
<1> QED BY <1>1, <1>3, <1>4

(* The column of an iteration is added to those that have been.            *)
LEMMA OneMoreColumn ==
  ASSUME OrdersOK, NEW n \in Nat, n + 1 \in 1 .. Len(column_order), NEW c, c = column_order[n + 1], NEW t
  PROVE  /\ ColumnsOf(n + 1, n + 1) = {c}
         /\ Outside(Vectors(ColumnsOf(1, n)) \cup Remainder(t), {c})
         /\ Vectors(ColumnsOf(1, n + 1)) = Vectors(ColumnsOf(1, n)) \cup Vectors({c})
<1>1. ColumnsOf(n + 1, n + 1) = {c}
  BY DEF ColumnsOf
<1>2. n + 1 \in Nat /\ n <= n + 1 /\ n + 1 <= Len(column_order)
  OBVIOUS
<1>3. /\ ColumnsOf(1, n) \cup {c} = ColumnsOf(1, n + 1)
      /\ ColumnsOf(1, n) \cap {c} = {}
  <2>1. PICK k \in Nat : k = n + 1
    BY <1>2
  <2>2. n <= k /\ k <= Len(column_order)
    BY <1>2, <2>1
  <2>3. /\ ColumnsOf(1, n) \cup ColumnsOf(n + 1, k) = ColumnsOf(1, k)
        /\ ColumnsOf(1, n) \cap ColumnsOf(n + 1, k) = {}
    BY ONLY <2>2, OrdersOK, n \in Nat, k \in Nat, ColumnsTaken
  <2> QED BY <1>1, <2>1, <2>3
<1>4. /\ Vectors(ColumnsOf(1, n)) \cap Vectors({c}) = {} /\ Vectors({c}) \cap Remainder(t) = {}
      /\ Vectors(ColumnsOf(1, n) \cup {c}) = Vectors(ColumnsOf(1, n)) \cup Vectors({c})
  <2>1. PICK B : B = ColumnsOf(1, n)
    OBVIOUS
  <2>2. B \cap {c} = {}
    BY <1>3, <2>1
  <2>3. /\ Vectors(B) \cap Vectors({c}) = {} /\ Vectors({c}) \cap Remainder(t) = {}
        /\ Vectors(B \cup {c}) = Vectors(B) \cup Vectors({c})
    <3>1. {c} \cap B = {}
      BY <2>2
    <3>2. Vectors(B) \cap Vectors({c}) = {} /\ Vectors(B \cup {c}) = Vectors(B) \cup Vectors({c})
      BY ONLY <2>2, VectorsApart
    <3>3. Vectors({c}) \cap Remainder(t) = {}
      BY ONLY <3>1, VectorsApart
    <3> QED BY <3>2, <3>3
  <2> QED BY <2>1, <2>3
<1> QED BY <1>1, <1>3, <1>4 DEF Outside

(* An iteration of a bucket's loop.                                        *)
LEMMA RunColumnSums ==
  ASSUME StandOK, HeldOK, InfosAre, OrdersOK, SumsOK, StandFrame, Run!RunColumn
  PROVE  SumsOK' /\ AddedElements \subseteq AddedElements'
<1>1. /\ Run!InLoop(FALSE) /\ executed' = executed + 1
      /\ block' = block /\ inner' = inner /\ tail' = tail /\ UNCHANGED <<row_ptr, column_ptr>>
      /\ y' = Run!Accumulated(Run!ScatterEntry, Run!Loaded(Run!ScatterEntry), Run!Products)
  BY DEF Run!RunColumn, Run!kernel_inputs
<1>2. /\ block \in 1 .. BucketNum /\ block \in 1 .. BlockNum
      /\ done_iters \in 0 .. Iterations(block) - 1 /\ Iterations(block) > 0
      /\ executed = ColumnsBefore(block) + done_iters /\ executed \in Nat /\ ~ InRange
  BY <1>1, AtBucket DEF StandOK
<1>3. /\ executed + 1 \in 1 .. Len(column_order) /\ executed + 1 \in 1 .. Len(scatter_order)
      /\ column_order[executed + 1] = BucketAt(block)[done_iters + 1]
      /\ scatter_order[executed + 1] = BucketAt(block)[done_iters + 1]
      /\ BucketAt(block)[done_iters + 1] \in Column /\ FT!KeyOf(BucketAt(block)[done_iters + 1]) = KeyAt(block)
  BY <1>2, BucketColumn DEF StandOK, PlannedOK
<1>c. PICK c \in Column : /\ c = column_order[executed + 1] /\ c = scatter_order[executed + 1]
                           /\ FT!KeyOf(c) = KeyAt(block)
  BY <1>3
<1>4. Run!Products = LaneBags({c})
  BY <1>2, <1>3, <1>c, ColumnProducts
<1>5. BucketNum \in Nat /\ block <= BucketNum /\ ScatterAt = executed
  BY <1>2, LayoutIs DEF StandOK, PlannedOK, ScatterAt
<1> DEFINE idx == Slice(row_ptr, c)
<1>6. idx \in [Lane -> Row] /\ idx \in [Lane -> Nat]
      /\ scatter_info[c] = ScatterInfo(idx) /\ reduction_info[c] = ReductionInfo(idx)
      /\ \A l \in Lane : idx[l] = row_ptr[c * Vector + l]
  BY SlicesAre DEF InfosAre
<1>7. /\ Run!ScatterEntry \in Int
      /\ Lies(Transform!EntriesOfGather(ScatterInfo(idx)), stream["scatter"], Run!ScatterEntry)
  <2>1. "scatter" \in Transform!StreamName /\ Transform!VisitOrder("scatter") = scatter_order
    BY VisitOrders
  <2>2. /\ VisitEnd("scatter", executed) \in Nat
        /\ Lies(Transform!EntriesOf("scatter", c), stream["scatter"], VisitEnd("scatter", executed) + 1)
    BY <1>2, <1>3, <1>c, <2>1, VisitLies DEF StandOK
  <2>3. Run!ScatterEntry = VisitEnd("scatter", executed) + 1
    BY <1>5 DEF StandOK, AlignOK, Run!ScatterEntry
  <2>4. Transform!EntriesOf("scatter", c) = Transform!EntriesOfGather(ScatterInfo(idx))
    BY <1>6 DEF Transform!EntriesOf
  <2> QED BY <2>2, <2>3, <2>4
<1>8. /\ pointer["reduction"] + 1 \in Int
      /\ Lies(Transform!EntriesOfReduction(ReductionInfo(idx)), stream["reduction"], pointer["reduction"] + 1)
  <2>1. "reduction" \in Transform!StreamName /\ Transform!VisitOrder("reduction") = column_order
    BY VisitOrders
  <2>2. /\ VisitEnd("reduction", executed) \in Nat
        /\ Lies(Transform!EntriesOf("reduction", c), stream["reduction"], VisitEnd("reduction", executed) + 1)
    BY <1>2, <1>3, <1>c, <2>1, VisitLies DEF StandOK
  <2>3. pointer["reduction"] = VisitEnd("reduction", executed)
    BY DEF StandOK, AlignOK
  <2>4. Transform!EntriesOf("reduction", c) = Transform!EntriesOfReduction(ReductionInfo(idx))
    BY <1>6 DEF Transform!EntriesOf
  <2> QED BY <2>2, <2>3, <2>4
<1> HIDE DEF idx
<1>9. /\ ScatterReads(idx, stream["scatter"], Run!ScatterEntry)
      /\ OrderTypeOf(idx) = DisOrder => ReductionReads(idx, stream["reduction"], pointer["reduction"] + 1)
  BY <1>6, <1>7, <1>8, ScatterLies, ReductionLies
<1>10. HaveRows({c}, idx)
  BY <1>6 DEF HaveRows
<1>A. PICK A : A = AddedElements
  OBVIOUS
<1>11. A = Vectors(ColumnsOf(1, executed)) \cup Remainder(tail)
  BY <1>2, <1>A, AddedIs DEF Stored
<1>12. /\ Outside(A, {c})
       /\ A \cup Vectors({c}) = Vectors(ColumnsOf(1, executed + 1)) \cup Remainder(tail)
  BY <1>2, <1>3, <1>c, <1>11, OneMoreColumn
<1>13. y = Sums(A)
  BY <1>A DEF SumsOK
<1>14. Run!Loaded(Run!ScatterEntry) = LoadY(code[block].scatter, stream["scatter"], Run!ScatterEntry, y)
  BY RunStoreIs DEF Run!Loaded, Run!Current
<1>15. y' = Sums(A \cup Vectors({c}))
  <2>1. {c} \in SUBSET Column
    OBVIOUS
  <2>2. PICK p \in Int : p = Run!ScatterEntry
    BY <1>7
  <2>3. PICK loaded : loaded = Run!Loaded(Run!ScatterEntry)
    OBVIOUS
  <2>5. /\ HaveRows({c}, Slice(row_ptr, c)) /\ ScatterReads(Slice(row_ptr, c), stream["scatter"], p)
        /\ OrderTypeOf(Slice(row_ptr, c)) = DisOrder =>
             ReductionReads(Slice(row_ptr, c), stream["reduction"], pointer["reduction"] + 1)
    BY <1>9, <1>10, <2>2 DEF idx
  <2>6. loaded = LoadY(code[block].scatter, stream["scatter"], p, y)
    BY <1>14, <2>2, <2>3
  <2>7. PICK S \in SUBSET Column : S = {c}
    BY <2>1
  <2>8. HaveRows(S, Slice(row_ptr, c)) /\ Outside(A, S)
    BY <1>12, <2>5, <2>7
  <2>9. Run!Accumulated(p, loaded, LaneBags(S)) = Sums(A \cup Vectors(S))
    BY ONLY StandOK, InfosAre, <1>2, c \in Column, <1>c, <1>8, <1>13, S \in SUBSET Column, p \in Int,
            <2>5, <2>6, <2>8, GroupStored
  <2> QED BY <1>1, <1>4, <2>2, <2>3, <2>7, <2>9
<1>16. ~ InRange' /\ Stored' = executed + 1
  BY <1>1, <1>2 DEF InRange, Run!NoRange, Stored
<1>17. AddedElements' = A \cup Vectors({c})
  BY <1>1, <1>12, <1>16, AddedFrame DEF StandFrame
<1>18. (y = Sums(AddedElements))'
  BY <1>1, <1>15, <1>17, SumsMore
<1>19. tail' \in Nat /\ tail' >= TableColumnNum * Vector
  BY <1>1 DEF SumsOK
<1> QED BY <1>16, <1>17, <1>18, <1>19, <1>A DEF SumsOK

-----------------------------------------------------------------------------
(* The sums of the range are told by where the code stands.                *)
LEMMA BagsFrame ==
  ASSUME Frame, UNCHANGED column_ptr
  PROVE  LaneBags(ColumnsOf(Stored + 1, executed))' = LaneBags(ColumnsOf(Stored' + 1, executed'))
<1>1. ColumnsOf(Stored + 1, executed)' = ColumnsOf(Stored' + 1, executed')
  BY DEF ColumnsOf, Frame
<1>2. LaneBags(ColumnsOf(Stored + 1, executed))' = LaneBags(ColumnsOf(Stored + 1, executed)')
  BY DEF LaneBags, LaneTokens, Abstract!Token
<1> QED BY <1>1, <1>2

(* The products of one more column.                                        *)
LEMMA LanesJoin ==
  ASSUME NEW S \in SUBSET Column, NEW c \in Column, c \notin S
  PROVE  AddLanes(LaneBags(S), LaneBags({c})) = LaneBags(S \cup {c})
<1>1. ASSUME NEW l \in Lane
      PROVE  SetToBag(LaneTokens(S)[l]) (+) SetToBag(LaneTokens({c})[l]) = SetToBag(LaneTokens(S \cup {c})[l])
  <2>1. LaneTokens(S)[l] \cup LaneTokens({c})[l] = LaneTokens(S \cup {c})[l]
    BY DEF LaneTokens
  <2>2. LaneTokens(S)[l] \cap LaneTokens({c})[l] = {}
    <3> SUFFICES ASSUME NEW d \in S, Abstract!Token(d * Vector + l) = Abstract!Token(c * Vector + l) PROVE FALSE
      BY DEF LaneTokens
    <3>1. d * Vector + l = c * Vector + l
      BY DEF Abstract!Token
    <3>2. d \in Column /\ (d * Vector + l) \div Vector = d /\ (c * Vector + l) \div Vector = c
      BY ElementIs
    <3> QED BY <3>1, <3>2
  <2> QED BY <2>1, <2>2, BagJoin
<1> QED BY <1>1 DEF AddLanes, LaneBags

(* A range begins.                                                         *)
LEMMA BeginRangeSums ==
  ASSUME StandOK, SumsOK, StandFrame, Run!BeginRange
  PROVE  SumsOK' /\ AddedElements \subseteq AddedElements'
<1>1. /\ Run!InLoop(TRUE) /\ executed' = executed /\ block' = block /\ tail' = tail /\ y' = y
      /\ UNCHANGED <<row_ptr, column_ptr, code, stream>>
      /\ inner' = [size |-> Run!At(range_num, range_pointer + 1), taken |-> 0, reduce_var |-> Run!ZeroLanes,
                   entry |-> Run!ScatterEntry, loaded |-> Run!Loaded(Run!ScatterEntry)]
      /\ range_pointer' = range_pointer + 1
  BY DEF Run!BeginRange, Run!kernel_inputs
<1>2. /\ block \in BucketNum + 1 .. BlockNum /\ range_pointer \in Nat /\ ~ InRange
  BY <1>1, AtRange DEF StandOK
<1>3. BucketNum \in Nat /\ ~ (block <= BucketNum) /\ KeptNum \in Nat /\ ScatterAt = KeptNum + range_pointer
  BY <1>2, LayoutIs, BucketPlaces DEF StandOK, PlannedOK, ScatterAt
<1>4. /\ {"size", "taken", "reduce_var", "entry", "loaded"} \subseteq DOMAIN inner'
      /\ inner'.taken = 0 /\ inner'.reduce_var = Run!ZeroLanes
      /\ inner'.entry = Run!ScatterEntry /\ inner'.loaded = Run!Loaded(Run!ScatterEntry)
  BY <1>1
<1>5. InRange'
  <2>1. "taken" \in DOMAIN inner' /\ "taken" \notin DOMAIN Run!NoRange
    BY <1>4 DEF Run!NoRange
  <2>2. inner' # Run!NoRange
    BY <2>1
  <2> QED BY <2>2 DEF InRange, Run!NoRange
<1>e. executed \in Int
  <2>1. executed = ColumnsBefore(block) + Passing(block, done_iters) + 0
    BY <1>2 DEF StandOK, PlannedOK, PlaceOK
  <2>2. block \in 1 .. BlockNum /\ done_iters \in 0 .. Iterations(block)
    <3>1. block \in 1 .. BlockNum
      BY <1>1, AtRange DEF StandOK
    <3> QED BY <3>1 DEF StandOK, PlannedOK, PlaceOK
  <2> QED BY <2>1, <2>2, PlacesAre DEF StandOK, PlannedOK
<1>6. Stored = executed /\ Stored' = executed
  BY <1>1, <1>2, <1>4, <1>5, <1>e DEF Stored
<1>7. AddedElements' = AddedElements
  BY <1>1, <1>6, AddedFrame, AddedIs DEF StandFrame
<1>8. (y = Sums(AddedElements))'
  <2>1. PICK A : A = AddedElements
    OBVIOUS
  <2>2. AddedElements' = A /\ y' = Sums(A)
    BY <1>1, <1>7, <2>1 DEF SumsOK
  <2> QED BY <1>1, <2>2, SumsMore
<1>9. inner'.entry = VisitEnd("scatter", KeptNum + range_pointer - 1)' + 1
  <2>1. Run!ScatterEntry = VisitEnd("scatter", KeptNum + range_pointer) + 1
    BY <1>3 DEF StandOK, AlignOK, Run!ScatterEntry
  <2>2. KeptNum' = KeptNum
    BY PlanFrame DEF StandFrame, Frame
  <2>3. VisitEnd("scatter", KeptNum + range_pointer - 1)' = VisitEnd("scatter", KeptNum' + range_pointer' - 1)
    BY DEF VisitEnd, StandFrame
  <2>4. KeptNum' + range_pointer' - 1 = KeptNum + range_pointer
    BY <1>1, <1>2, <1>3, <2>2
  <2> QED BY <1>4, <2>1, <2>3, <2>4
<1>10. inner'.loaded = LoadY(code[block].scatter, stream["scatter"], inner.entry, y)'
  <2>1. Run!Loaded(Run!ScatterEntry) = LoadY(code[block].scatter, stream["scatter"], Run!ScatterEntry, y)
    BY RunStoreIs DEF Run!Loaded, Run!Current
  <2>2. LoadY(code[block].scatter, stream["scatter"], inner.entry, y)' =
          LoadY(code'[block'].scatter, stream'["scatter"], inner'.entry, y')
    BY DEF LoadY, YAt, Target, At, ActiveLanes
  <2> QED BY <1>1, <1>4, <2>1, <2>2
<1>11. inner'.reduce_var = LaneBags(ColumnsOf(Stored + 1, executed))'
  <2>1. ColumnsOf(executed + 1, executed) = {}
    BY <1>e DEF ColumnsOf
  <2>2. LaneBags(ColumnsOf(Stored + 1, executed))' = LaneBags({})
    BY <1>1, <1>6, <2>1, BagsFrame DEF StandFrame
  <2>3. Run!ZeroLanes = LaneBags({})
    BY RunLanes DEF ZeroLanes, LaneBags, LaneTokens, EmptyBag
  <2> QED BY <1>4, <2>2, <2>3
<1>12. tail' \in Nat /\ tail' >= TableColumnNum * Vector
  BY <1>1 DEF SumsOK
<1> QED BY <1>4, <1>7, <1>8, <1>9, <1>10, <1>11, <1>12 DEF SumsOK

(* A column of a range.                                                    *)
LEMMA RunRangeColumnSums ==
  ASSUME StandOK, HeldOK, InfosAre, OrdersOK, SumsOK, StandFrame, Run!RunRangeColumn
  PROVE  SumsOK' /\ AddedElements \subseteq AddedElements'
<1>1. /\ InRange /\ inner.taken < inner.size
      /\ inner' = [inner EXCEPT !.taken = @ + 1, !.reduce_var = Run!AddLanes(@, Run!Products)]
      /\ executed' = executed + 1 /\ block' = block /\ range_pointer' = range_pointer /\ tail' = tail /\ y' = y
      /\ UNCHANGED <<row_ptr, column_ptr, code, stream>>
  BY DEF Run!RunRangeColumn, InRange, Run!kernel_inputs
<1>2. /\ block \in BucketNum + 1 .. BlockNum /\ block \in 1 .. BlockNum /\ block > BucketNum
      /\ done_iters \in 0 .. Iterations(block) - 1 /\ Iterations(block) > 0
      /\ inner.taken \in Nat /\ inner.size \in Nat
      /\ inner.size = Sizes[block - BucketNum][done_iters + 1]
      /\ executed = ColumnsBefore(block) + Passing(block, done_iters) + inner.taken
      /\ executed \in Nat
  BY <1>1, AtRangeColumn DEF StandOK
<1>3. /\ executed + 1 \in 1 .. Len(column_order) /\ column_order[executed + 1] \in Column
      /\ FT!KeyOf(column_order[executed + 1]) = KeyAt(block)
  <2>1. inner.taken \in 0 .. Sizes[block - BucketNum][done_iters + 1] - 1
    BY <1>1, <1>2
  <2>2. /\ ColumnsBefore(block) + Passing(block, done_iters) + inner.taken + 1 \in 1 .. Len(column_order)
        /\ column_order[ColumnsBefore(block) + Passing(block, done_iters) + inner.taken + 1] \in Column
        /\ FT!KeyOf(column_order[ColumnsBefore(block) + Passing(block, done_iters) + inner.taken + 1]) = KeyAt(block)
    BY <1>2, <2>1, RangeColumn DEF StandOK, PlannedOK
  <2> QED BY <1>2, <2>2
<1>c. PICK c \in Column : c = column_order[executed + 1]
  BY <1>3
<1>4. Run!Products = LaneBags({c})
  BY <1>2, <1>3, <1>c, ColumnProducts
<1>5. /\ {"size", "taken", "reduce_var", "entry", "loaded"} \subseteq DOMAIN inner
      /\ inner.entry = VisitEnd("scatter", KeptNum + range_pointer - 1) + 1
      /\ inner.loaded = LoadY(code[block].scatter, stream["scatter"], inner.entry, y)
      /\ inner.reduce_var = LaneBags(ColumnsOf(Stored + 1, executed))
  BY <1>1 DEF SumsOK
<1>6. /\ DOMAIN inner' = DOMAIN inner /\ inner'.taken = inner.taken + 1 /\ inner'.entry = inner.entry
      /\ inner'.loaded = inner.loaded /\ inner'.reduce_var = AddLanes(inner.reduce_var, LaneBags({c}))
  BY <1>1, <1>4, <1>5, RunLanes
<1>7. InRange'
  <2>1. "taken" \in DOMAIN inner' /\ "taken" \notin DOMAIN Run!NoRange
    BY <1>5, <1>6 DEF Run!NoRange
  <2>2. inner' # Run!NoRange
    BY <2>1
  <2> QED BY <2>2 DEF InRange, Run!NoRange
<1>s. PICK s \in Nat : s = Stored /\ s = executed - inner.taken
  <2>1. ColumnsBefore(block) + Passing(block, done_iters) \in Nat
    <3>1. /\ ColumnsBefore(block) \in Nat /\ Iterations(block) \in Nat
          /\ \A d \in 0 .. Iterations(block) : Passing(block, d) \in Nat
      BY <1>2, PlacesAre DEF StandOK, PlannedOK
    <3>2. done_iters \in 0 .. Iterations(block)
      BY <1>2, <3>1
    <3>3. Passing(block, done_iters) \in Nat
      BY <3>1, <3>2
    <3> QED BY <3>1, <3>3
  <2>2. executed - inner.taken \in Nat
    BY <1>2, <2>1
  <2> QED BY <1>1, <2>2 DEF Stored
<1>8. Stored' = s
  <2>1. Stored' = executed' - inner'.taken
    BY <1>7 DEF Stored
  <2> QED BY <1>1, <1>2, <1>6, <1>s, <2>1
<1>9. AddedElements' = AddedElements
  BY <1>1, <1>8, <1>s, AddedFrame, AddedIs DEF StandFrame
<1>10. (y = Sums(AddedElements))'
  <2>1. PICK A : A = AddedElements
    OBVIOUS
  <2>2. AddedElements' = A /\ y' = Sums(A)
    BY <1>1, <1>9, <2>1 DEF SumsOK
  <2> QED BY <1>1, <2>2, SumsMore
<1>11. inner'.entry = VisitEnd("scatter", KeptNum + range_pointer - 1)' + 1
  <2>1. KeptNum' = KeptNum
    BY PlanFrame DEF StandFrame, Frame
  <2>2. VisitEnd("scatter", KeptNum + range_pointer - 1)' = VisitEnd("scatter", KeptNum' + range_pointer' - 1)
    BY DEF VisitEnd, StandFrame
  <2> QED BY <1>1, <1>5, <1>6, <2>1, <2>2
<1>12. inner'.loaded = LoadY(code[block].scatter, stream["scatter"], inner.entry, y)'
  <2>1. LoadY(code[block].scatter, stream["scatter"], inner.entry, y)' =
          LoadY(code'[block'].scatter, stream'["scatter"], inner'.entry, y')
    BY DEF LoadY, YAt, Target, At, ActiveLanes
  <2> QED BY <1>1, <1>5, <1>6, <2>1
<1>13. inner'.reduce_var = LaneBags(ColumnsOf(Stored + 1, executed))'
  <2>1. PICK S : S = ColumnsOf(s + 1, executed)
    OBVIOUS
  <2>2. S \in SUBSET Column /\ c \notin S /\ ColumnsOf(s + 1, executed + 1) = S \cup {c}
    <3>1. PICK k \in Nat : k = Len(column_order)
      BY DEF OrdersOK
    <3>2. /\ \A v \in 1 .. k : column_order[v] \in Column
          /\ \A v, w \in 1 .. k : column_order[v] = column_order[w] => v = w
      BY <3>1 DEF OrdersOK, Once
    <3>3. /\ executed + 1 \in 1 .. k /\ \A v \in s + 1 .. executed : v \in 1 .. k /\ v # executed + 1
          /\ s + 1 .. executed + 1 = (s + 1 .. executed) \cup {executed + 1}
      <4>1. s <= executed /\ executed + 1 <= k
        BY <1>2, <1>3, <1>s, <3>1
      <4> QED BY <1>2, <4>1
    <3>4. S \in SUBSET Column
      BY <2>1, <3>2, <3>3 DEF ColumnsOf
    <3>5. c \notin S
      <4> SUFFICES ASSUME NEW v \in s + 1 .. executed, column_order[v] = c PROVE FALSE
        BY <2>1 DEF ColumnsOf
      <4> QED BY <1>c, <3>2, <3>3
    <3>6. ColumnsOf(s + 1, executed + 1) = S \cup {c}
      BY <1>c, <2>1, <3>3 DEF ColumnsOf
    <3> QED BY <3>4, <3>5, <3>6
  <2>3. AddLanes(LaneBags(S), LaneBags({c})) = LaneBags(S \cup {c})
    BY <2>2, LanesJoin
  <2>4. LaneBags(ColumnsOf(Stored + 1, executed))' = LaneBags(ColumnsOf(s + 1, executed + 1))
    BY <1>1, <1>8, BagsFrame DEF StandFrame
  <2>5. inner.reduce_var = LaneBags(S)
    BY <1>5, <1>s, <2>1
  <2> QED BY <1>6, <2>2, <2>3, <2>4, <2>5
<1>14. tail' \in Nat /\ tail' >= TableColumnNum * Vector
  BY <1>1 DEF SumsOK
<1> QED BY <1>5, <1>6, <1>9, <1>10, <1>11, <1>12, <1>13, <1>14 DEF SumsOK

-----------------------------------------------------------------------------
(* The columns of the range that is over, and their rows.                  *)
LEMMA RangeOver ==
  ASSUME StandOK, InfosAre, RangesLocated, InRange, inner.taken >= inner.size,
         NEW h, h = RangesAt(block)[done_iters + 1][1]
  PROVE  /\ h \in Column /\ FT!KeyOf(h) = KeyAt(block) /\ OrderTypeOf(Slice(row_ptr, h)) = OrderEquel
         /\ executed \in 0 .. Len(column_order) /\ Stored \in Nat /\ Stored <= executed
         /\ HaveRows(ColumnsOf(Stored + 1, executed), Slice(row_ptr, h))
<1>1. /\ block \in BucketNum + 1 .. BlockNum /\ block \in 1 .. BlockNum
      /\ done_iters \in 0 .. Iterations(block) - 1
      /\ inner.taken \in Nat /\ inner.taken = inner.size
      /\ inner.size = Sizes[block - BucketNum][done_iters + 1]
      /\ executed = ColumnsBefore(block) + Passing(block, done_iters) + inner.taken
      /\ executed \in Nat
  BY AtRangeColumn DEF StandOK
<1>2. PICK b \in BucketNum + 1 .. BlockNum : b = block
  BY <1>1
<1>3. PICK d \in 0 .. Iterations(b) - 1 : d = done_iters
  BY <1>1, <1>2
<1>4. LayoutOK /\ StaticOK /\ FeaturesApart
  BY DEF StandOK, PlannedOK
<1>5. /\ b - BucketNum \in 1 .. Len(range_order) /\ Iterations(b) = Len(RangesAt(b)) /\ Iterations(b) \in Nat
      /\ Sizes[b - BucketNum] = Extents(RangesAt(b))
      /\ Sizes[b - BucketNum][d + 1] \in Nat /\ Sizes[b - BucketNum][d + 1] > 0
  BY <1>4, LayoutIs, RangePlaces
<1>6. PICK j \in 1 .. Len(RangesAt(b)) : j = d + 1
  BY <1>5
<1>7. /\ RangesAt(b) \in Seq(FT!ColumnRange) /\ RangesAt(b)[j][1] < RangesAt(b)[j][2]
      /\ \A c \in RangesAt(b)[j][1] .. RangesAt(b)[j][2] - 1 : FT!KeyOf(c) = KeyAt(b)
  BY <1>4 DEF LayoutOK
<1>8. h = RangesAt(b)[j][1] /\ h \in Int /\ RangesAt(b)[j][2] \in Int
  <2>1. RangesAt(b)[j] \in FT!ColumnRange
    BY <1>7
  <2>2. RangesAt(b)[j][1] \in FT!Column /\ RangesAt(b)[j][2] \in 1 .. TableColumnNum
    BY <2>1 DEF FT!ColumnRange
  <2> QED BY <1>2, <1>3, <1>6, <2>2, ColumnsOfTable DEF FT!Column
<1>9. inner.size = RangesAt(b)[j][2] - h
  BY <1>1, <1>2, <1>3, <1>5, <1>6, <1>8 DEF Extents
<1>10. h \in h .. RangesAt(b)[j][2] - 1
  BY <1>7, <1>8
<1>11. \A c \in h .. RangesAt(b)[j][2] - 1 :
         /\ c \in Column /\ OrderTypeOf(Slice(row_ptr, c)) = OrderEquel
         /\ \A l \in Lane : row_ptr[c * Vector + l] = row_ptr[h * Vector]
  BY <1>4, <1>8, RangeRows
<1>12. PICK s \in Nat : s = ColumnsBefore(b) + Passing(b, d)
  <2>1. /\ ColumnsBefore(b) \in Nat /\ Iterations(b) \in Nat
        /\ \A e \in 0 .. Iterations(b) : Passing(b, e) \in Nat
    BY <1>1, <1>2, <1>4, PlacesAre
  <2>2. d \in 0 .. Iterations(b)
    BY <2>1
  <2>3. Passing(b, d) \in Nat
    BY <2>1, <2>2
  <2> QED BY <2>1, <2>3
<1>13. executed = s + inner.taken /\ Stored = s
  BY <1>1, <1>2, <1>3, <1>12 DEF Stored
<1>14. ASSUME NEW v \in s + 1 .. executed
       PROVE  column_order[v] \in h .. RangesAt(b)[j][2] - 1 /\ v \in 1 .. Len(column_order)
  <2>1. PICK t \in 0 .. Sizes[b - BucketNum][d + 1] - 1 : v = s + t + 1
    <3>1. v - s - 1 \in 0 .. Sizes[b - BucketNum][d + 1] - 1 /\ v = s + (v - s - 1) + 1
      BY <1>1, <1>2, <1>3, <1>13
    <3> QED BY <3>1
  <2>2. /\ ColumnsBefore(b) + Passing(b, d) + t + 1 \in 1 .. Len(column_order)
        /\ column_order[ColumnsBefore(b) + Passing(b, d) + t + 1] = RangesAt(b)[d + 1][1] + t
    BY <1>4, RangeColumn
  <2>3. v \in 1 .. Len(column_order) /\ column_order[v] = h + t
    BY <1>6, <1>8, <1>12, <2>1, <2>2
  <2>4. t \in 0 .. (RangesAt(b)[j][2] - h) - 1
    BY <1>1, <1>2, <1>3, <1>9, <2>1
  <2>5. h + t \in h .. RangesAt(b)[j][2] - 1
    BY <1>8, <2>4
  <2> QED BY <2>3, <2>5
<1>15. executed \in 0 .. Len(column_order)
  <2>1. inner.size > 0
    BY <1>1, <1>2, <1>3, <1>5
  <2>2. executed \in s + 1 .. executed
    BY <1>1, <1>13, <2>1
  <2> QED BY <1>14, <2>2
<1>16. HaveRows(ColumnsOf(Stored + 1, executed), Slice(row_ptr, h))
  <2> SUFFICES ASSUME NEW v \in s + 1 .. executed, NEW l \in Lane
               PROVE  row_ptr[column_order[v] * Vector + l] = Slice(row_ptr, h)[l]
    BY <1>13 DEF HaveRows, ColumnsOf
  <2>1. row_ptr[column_order[v] * Vector + l] = row_ptr[h * Vector]
    BY <1>11, <1>14
  <2>2. row_ptr[h * Vector + l] = row_ptr[h * Vector]
    BY <1>10, <1>11
  <2> QED BY <2>1, <2>2 DEF Slice
<1>17. h \in Column /\ FT!KeyOf(h) = KeyAt(block) /\ OrderTypeOf(Slice(row_ptr, h)) = OrderEquel
  BY <1>2, <1>7, <1>8, <1>10, <1>11
<1>18. Stored \in Nat /\ Stored <= executed
  BY <1>1, <1>13
<1> QED BY <1>15, <1>16, <1>17, <1>18

(* A range is over.                                                        *)
LEMMA EndRangeSums ==
  ASSUME StandOK, HeldOK, InfosAre, RangesLocated, OrdersOK, SumsOK, StandFrame, Run!EndRange
  PROVE  SumsOK' /\ AddedElements \subseteq AddedElements'
<1>1. /\ InRange /\ inner.taken >= inner.size /\ inner' = Run!NoRange
      /\ executed' = executed /\ block' = block /\ tail' = tail /\ UNCHANGED <<row_ptr, column_ptr>>
      /\ y' = Run!Accumulated(inner.entry, inner.loaded, inner.reduce_var)
  BY DEF Run!EndRange, InRange, Run!kernel_inputs
<1>2. /\ block \in BucketNum + 1 .. BlockNum /\ block \in 1 .. BlockNum /\ block > BucketNum
      /\ done_iters \in 0 .. Iterations(block) - 1 /\ Iterations(block) > 0
      /\ executed \in Nat
  BY <1>1, AtRangeColumn DEF StandOK
<1>h. PICK h : h = RangesAt(block)[done_iters + 1][1]
  OBVIOUS
<1>3. /\ h \in Column /\ FT!KeyOf(h) = KeyAt(block) /\ OrderTypeOf(Slice(row_ptr, h)) = OrderEquel
      /\ executed \in 0 .. Len(column_order) /\ Stored \in Nat /\ Stored <= executed
      /\ HaveRows(ColumnsOf(Stored + 1, executed), Slice(row_ptr, h))
  BY <1>1, <1>h, RangeOver
<1>p. PICK p \in Int : p = inner.entry /\ Lies(Transform!EntriesOf("scatter", h), stream["scatter"], p)
  <2>1. "scatter" \in Transform!StreamName /\ Transform!VisitOrder("scatter") = scatter_order
    BY VisitOrders
  <2>2. PICK w \in Nat : w = KeptNum + RangesBefore(block) + done_iters
    <3>1. KeptNum \in Nat /\ RangesBefore(block) \in Nat
      BY <1>2, BucketPlaces, PlacesAre DEF StandOK, PlannedOK
    <3> QED BY <1>2, <3>1
  <2>3. w = KeptNum + range_pointer - 1
    <3>1. range_pointer = RangesBefore(block) + (done_iters + 1)
      <4>1. ~ (block <= BucketNum)
        BY <1>2, LayoutIs DEF StandOK, PlannedOK
      <4> QED BY <1>1, <4>1 DEF StandOK, PlannedOK, PlaceOK
    <3>2. KeptNum \in Nat /\ RangesBefore(block) \in Nat
      BY <1>2, BucketPlaces, PlacesAre DEF StandOK, PlannedOK
    <3> QED BY <1>2, <2>2, <3>1, <3>2
  <2>4. w + 1 \in 1 .. Len(scatter_order) /\ scatter_order[w + 1] = h
    BY <1>2, <1>h, <2>2, RangeFirst DEF StandOK, PlannedOK
  <2>5. /\ VisitEnd("scatter", w) \in Nat
        /\ Lies(Transform!EntriesOf("scatter", h), stream["scatter"], VisitEnd("scatter", w) + 1)
    BY <2>1, <2>4, VisitLies DEF StandOK
  <2>6. inner.entry = VisitEnd("scatter", w) + 1
    BY <1>1, <2>3 DEF SumsOK
  <2> QED BY <2>5, <2>6
<1> DEFINE idx == Slice(row_ptr, h)
<1>4. idx \in [Lane -> Nat] /\ scatter_info[h] = ScatterInfo(idx)
  BY <1>3, SlicesAre DEF InfosAre
<1>5. Transform!EntriesOf("scatter", h) = Transform!EntriesOfGather(ScatterInfo(idx))
  BY <1>4 DEF Transform!EntriesOf
<1>6. pointer["reduction"] + 1 \in Int
  <2>1. Transform!VisitOrder("reduction") = column_order /\ "reduction" \in Transform!StreamName
    BY VisitOrders
  <2>2. VisitEnd("reduction", executed) \in Nat
    BY <1>3, <2>1 DEF StandOK, RecordedAll, Recorded
  <2>3. pointer["reduction"] = VisitEnd("reduction", executed)
    BY DEF StandOK, AlignOK
  <2> QED BY <2>2, <2>3
<1> HIDE DEF idx
<1>7. ScatterReads(idx, stream["scatter"], p)
  <2>1. Lies(Transform!EntriesOfGather(ScatterInfo(idx)), stream["scatter"], p)
    BY <1>5, <1>p
  <2> QED BY <1>4, <2>1, ScatterLies
<1>8. ~ (OrderTypeOf(idx) = DisOrder)
  BY <1>3 DEF idx, OrderEquel, DisOrder
<1>S. PICK S : S = ColumnsOf(Stored + 1, executed)
  OBVIOUS
<1>A. PICK A : A = AddedElements
  OBVIOUS
<1>B. PICK B : B = ColumnsOf(1, Stored)
  OBVIOUS
<1>9. B \cup S = ColumnsOf(1, executed) /\ B \cap S = {} /\ S \in SUBSET Column
  <2>1. PICK m \in Nat : m = Stored
    BY <1>3
  <2>2. m <= executed /\ executed <= Len(column_order)
    BY <1>3, <2>1
  <2>3. /\ ColumnsOf(1, m) \cup ColumnsOf(m + 1, executed) = ColumnsOf(1, executed)
        /\ ColumnsOf(1, m) \cap ColumnsOf(m + 1, executed) = {}
        /\ ColumnsOf(m + 1, executed) \in SUBSET Column
    BY ONLY <2>2, OrdersOK, m \in Nat, <1>2, ColumnsTaken
  <2> QED BY <1>S, <1>B, <2>1, <2>3
<1>10. /\ Outside(A, S)
       /\ A \cup Vectors(S) = Vectors(ColumnsOf(1, executed)) \cup Remainder(tail)
  <2>1. A = Vectors(B) \cup Remainder(tail)
    BY <1>A, <1>B, AddedIs
  <2>2. S \cap B = {} /\ B \cap S = {}
    BY <1>9
  <2>3. Vectors(B) \cap Vectors(S) = {} /\ Vectors(B \cup S) = Vectors(B) \cup Vectors(S)
    BY ONLY <2>2, VectorsApart
  <2>4. Vectors(S) \cap Remainder(tail) = {}
    BY ONLY <2>2, VectorsApart
  <2> QED BY <1>9, <2>1, <2>3, <2>4 DEF Outside
<1>11. y = Sums(A)
  BY <1>A DEF SumsOK
<1>12. y' = Sums(A \cup Vectors(S))
  <2>1. PICK loaded : loaded = inner.loaded
    OBVIOUS
  <2>2. loaded = LoadY(code[block].scatter, stream["scatter"], p, y) /\ inner.reduce_var = LaneBags(S)
    BY <1>1, <1>p, <1>S, <2>1 DEF SumsOK
  <2>3. /\ HaveRows(S, Slice(row_ptr, h)) /\ ScatterReads(Slice(row_ptr, h), stream["scatter"], p)
        /\ OrderTypeOf(Slice(row_ptr, h)) = DisOrder =>
             ReductionReads(Slice(row_ptr, h), stream["reduction"], pointer["reduction"] + 1)
    BY <1>3, <1>7, <1>8, <1>S DEF idx
  <2>4. PICK c \in Column : c = h
    BY <1>3
  <2>5. /\ HaveRows(S, Slice(row_ptr, c)) /\ ScatterReads(Slice(row_ptr, c), stream["scatter"], p)
        /\ OrderTypeOf(Slice(row_ptr, c)) = DisOrder =>
             ReductionReads(Slice(row_ptr, c), stream["reduction"], pointer["reduction"] + 1)
        /\ FT!KeyOf(c) = KeyAt(block)
    BY <1>3, <2>3, <2>4
  <2>6. PICK U \in SUBSET Column : U = S
    BY <1>9
  <2>7. HaveRows(U, Slice(row_ptr, c)) /\ Outside(A, U)
    BY <1>10, <2>5, <2>6
  <2>8. Run!Accumulated(p, loaded, LaneBags(U)) = Sums(A \cup Vectors(U))
    BY ONLY StandOK, InfosAre, <1>2, c \in Column, <1>6, <1>11, U \in SUBSET Column, p \in Int,
            <2>2, <2>5, <2>7, GroupStored
  <2> QED BY <1>1, <1>p, <2>1, <2>2, <2>6, <2>8
<1>13. ~ InRange' /\ Stored' = executed
  <2>1. ~ InRange'
    BY <1>1 DEF InRange, Run!NoRange
  <2> QED BY <1>1, <1>2, <2>1 DEF Stored
<1>14. AddedElements' = A \cup Vectors(S)
  BY <1>1, <1>10, <1>13, AddedFrame DEF StandFrame
<1>15. (y = Sums(AddedElements))'
  BY <1>1, <1>12, <1>14, SumsMore
<1>16. tail' \in Nat /\ tail' >= TableColumnNum * Vector
  BY <1>1 DEF SumsOK
<1> QED BY <1>13, <1>14, <1>15, <1>16, <1>A DEF SumsOK

-----------------------------------------------------------------------------
(* Steps that run no column and add nothing.                               *)
LEMMA SumsStay ==
  ASSUME Frame, UNCHANGED <<row_ptr, column_ptr, executed, inner, tail, y>>, ~ InRange, SumsOK
  PROVE  SumsOK' /\ AddedElements' = AddedElements
<1>1. ~ InRange'
  BY DEF InRange, Run!NoRange
<1>2. Stored' = Stored
  BY <1>1 DEF Stored
<1>3. AddedElements' = AddedElements
  BY <1>2, AddedFrame, AddedIs
<1>4. (y = Sums(AddedElements))'
  <2>1. PICK A : A = AddedElements
    OBVIOUS
  <2>2. AddedElements' = A /\ y' = Sums(A)
    BY <1>3, <2>1 DEF SumsOK
  <2> QED BY <2>2, SumsMore
<1> QED BY <1>1, <1>3, <1>4 DEF SumsOK

(* Nothing moves.                                                          *)
LEMMA SumsUnchanged ==
  ASSUME Frame, UNCHANGED <<row_ptr, column_ptr, executed, inner, tail, y, code, stream, offset, block, range_pointer>>,
         SumsOK
  PROVE  SumsOK' /\ AddedElements' = AddedElements
<1>0. UNCHANGED <<row_ptr, column_ptr>>
  OBVIOUS
<1>1. CASE ~ InRange
  BY <1>1, SumsStay
<1>2. CASE InRange
  <2>1. InRange' /\ Stored' = Stored
    BY <1>2 DEF InRange, Run!NoRange, Stored
  <2>2. AddedElements' = AddedElements
    BY <2>1, AddedFrame, AddedIs
  <2>3. (y = Sums(AddedElements))'
    <3>1. PICK A : A = AddedElements
      OBVIOUS
    <3>2. AddedElements' = A /\ y' = Sums(A)
      BY <2>2, <3>1 DEF SumsOK
    <3> QED BY <1>0, <3>2, SumsMore
  <2>4. inner'.entry = VisitEnd("scatter", KeptNum + range_pointer - 1)' + 1
    <3>1. KeptNum' = KeptNum
      BY PlanFrame DEF Frame
    <3>2. VisitEnd("scatter", KeptNum + range_pointer - 1)' = VisitEnd("scatter", KeptNum' + range_pointer' - 1)
      BY DEF VisitEnd
    <3> QED BY <1>2, <3>1, <3>2 DEF SumsOK
  <2>5. inner'.loaded = LoadY(code[block].scatter, stream["scatter"], inner.entry, y)'
    <3>1. LoadY(code[block].scatter, stream["scatter"], inner.entry, y)' =
            LoadY(code'[block'].scatter, stream'["scatter"], inner'.entry, y')
      BY DEF LoadY, YAt, Target, At, ActiveLanes
    <3> QED BY <1>2, <3>1 DEF SumsOK
  <2>6. inner'.reduce_var = LaneBags(ColumnsOf(Stored + 1, executed))'
    <3>1. LaneBags(ColumnsOf(Stored + 1, executed))' = LaneBags(ColumnsOf(Stored' + 1, executed'))
      BY BagsFrame
    <3> QED BY <1>2, <2>1, <3>1 DEF SumsOK
  <2> QED BY <1>2, <2>2, <2>3, <2>4, <2>5, <2>6 DEF SumsOK
<1> QED BY <1>1, <1>2

(* The next loop.                                                          *)
LEMMA NextLoopSums ==
  ASSUME StandOK, SumsOK, StandFrame, Run!NextLoop
  PROVE  SumsOK' /\ AddedElements \subseteq AddedElements'
<1>1. /\ block <= Len(code) /\ done_iters >= code[block].circle_num
      /\ UNCHANGED <<row_ptr, column_ptr, executed, inner, tail, y>>
  BY DEF Run!NextLoop, Run!Current, Run!kernel_inputs
<1>2. /\ LayoutOK /\ CodeOK /\ Len(code) = BlockNum
      /\ block \in 1 .. BlockNum + 1 /\ done_iters \in 0 .. Iterations(block)
      /\ InRange => done_iters < Iterations(block)
      /\ BlockNum \in Nat
  BY PlacesAre DEF StandOK, PlannedOK, PlaceOK
<1>3. block \in 1 .. BlockNum
  BY <1>1, <1>2
<1>4. ~ InRange
  <2>1. code[block].circle_num = Iterations(block) /\ Iterations(block) \in Nat
    BY <1>2, <1>3, LoopIs, PlacesAre
  <2> QED BY <1>1, <1>2, <2>1
<1> QED BY <1>1, <1>4, SumsStay DEF StandFrame

(* An iteration of the scalar loop.                                        *)
LEMMA RunScalarSums ==
  ASSUME StandOK, InputsOK, SumsOK, StandFrame, Run!RunScalar
  PROVE  SumsOK' /\ AddedElements \subseteq AddedElements'
<1>1. /\ block > Len(code) /\ tail < DataNum /\ tail' = tail + 1
      /\ UNCHANGED <<row_ptr, column_ptr, executed, inner>>
      /\ y' = [y EXCEPT ![row_ptr[tail]] = Run!(+)(@, Run!SetToBag({<<tail, column_ptr[tail]>>}))]
  BY DEF Run!RunScalar, Run!kernel_inputs
<1>2. ~ InRange /\ ~ InRange'
  <2>1. /\ Len(code) = BlockNum /\ BlockNum \in Nat /\ BucketNum \in Nat
        /\ InRange => block \in BucketNum + 1 .. BlockNum
    BY PlacesAre, LayoutIs DEF StandOK, PlannedOK, PlaceOK
  <2>2. ~ InRange
    BY <1>1, <2>1
  <2> QED BY <1>1, <2>2 DEF InRange, Run!NoRange
<1>3. tail \in Nat /\ tail >= TableColumnNum * Vector /\ DataNum \in Nat /\ TableColumnNum * Vector \in Nat
  BY InputAssumption, ColumnsOfTable, VectorAssumption DEF SumsOK
<1>4. tail \in 0 .. DataNum - 1 /\ row_ptr[tail] \in Row
  BY <1>1, <1>3 DEF InputsOK
<1>A. PICK A : A = AddedElements
  OBVIOUS
<1>5. A = Vectors(ColumnsOf(1, Stored)) \cup Remainder(tail)
  BY <1>A, AddedIs
<1>6. tail \notin A /\ Remainder(tail + 1) = Remainder(tail) \cup {tail}
  <2> DEFINE k == TableColumnNum * Vector
  <2>1. k \in Nat
    BY <1>3
  <2> HIDE DEF k
  <2>2. /\ tail \notin 0 .. k - 1 /\ tail \in k .. DataNum - 1
        /\ \A e \in k .. DataNum - 1 : e < tail + 1 <=> e < tail \/ e = tail
    BY <1>1, <1>3, <2>1 DEF k
  <2>3. ~ (tail < tail)
    BY <1>3
  <2> QED BY <1>5, <2>2, <2>3 DEF Vectors, Remainder, k
<1>7. y' = Sums(A \cup {tail})
  <2>1. y = Sums(A)
    BY <1>A DEF SumsOK
  <2>2. y' = [y EXCEPT ![row_ptr[tail]] = @ (+) SetToBag({Abstract!Token(tail)})]
    BY <1>1, RunBags DEF Abstract!Token
  <2>3. y = [r \in Row |-> SetToBag(Abstract!ProductsOf(A, r))]
    BY <2>1 DEF Sums
  <2>4. y' = [r \in Row |-> SetToBag(Abstract!ProductsOf(A \cup {tail}, r))]
    BY ONLY <1>4, <1>6, <2>2, <2>3, ScalarSums
  <2> QED BY <2>4 DEF Sums
<1>8. Stored' = Stored
  BY <1>1, <1>2 DEF Stored
<1>9. AddedElements' = A \cup {tail}
  BY <1>1, <1>5, <1>6, <1>8, AddedFrame DEF StandFrame
<1>10. (y = Sums(AddedElements))'
  BY <1>1, <1>7, <1>9, SumsMore
<1>11. tail' \in Nat /\ tail' >= TableColumnNum * Vector
  BY <1>1, <1>3
<1> QED BY <1>2, <1>9, <1>10, <1>11, <1>A DEF SumsOK

(* The function runs.                                                      *)
LEMMA KernelSums ==
  ASSUME StandOK, HeldOK, InfosAre, RangesLocated, OrdersOK, SumsOK, StandFrame, Run!KernelNext
  PROVE  SumsOK' /\ AddedElements \subseteq AddedElements'
<1>1. InputsOK
  BY DEF InfosAre
<1> QED BY <1>1, RunColumnSums, BeginRangeSums, RunRangeColumnSums, EndRangeSums, NextLoopSums, RunScalarSums
        DEF Run!KernelNext

(* The function begins: y is empty.                                        *)
LEMMA NothingAdded ==
  ASSUME Run!KernelStart
  PROVE  SumsOK /\ AddedElements = {} /\ ~ InRange /\ Stored = 0
<1>1. /\ executed = 0 /\ inner = Run!NoRange /\ tail = TableColumnNum * Vector
      /\ y = [r \in Run!Row |-> Run!EmptyBag]
  BY DEF Run!KernelStart, Run!ScalarStart, Run!TableColumnNum, TableColumnNum
<1>2. ~ InRange
  BY <1>1 DEF InRange, Run!NoRange
<1>3. Stored = 0
  BY <1>1, <1>2 DEF Stored
<1>4. AddedElements = {}
  <2>1. ColumnsOf(1, Stored) = {}
    BY <1>3 DEF ColumnsOf
  <2>2. Vectors(ColumnsOf(1, Stored)) = {}
    BY <2>1 DEF Vectors
  <2>3. Remainder(tail) = {}
    <3>1. TableColumnNum * Vector \in Nat /\ DataNum \in Nat
      BY InputAssumption, ColumnsOfTable, VectorAssumption
    <3> QED BY <1>1, <3>1 DEF Remainder
  <2> QED BY <2>2, <2>3, AddedIs
<1>5. y = Sums(AddedElements)
  <2>1. \A r : Abstract!ProductsOf({}, r) = {}
    BY DEF Abstract!ProductsOf
  <2>2. SetToBag({}) = EmptyBag
    BY DEF EmptyBag
  <2>3. Run!Row = Row /\ Run!EmptyBag = EmptyBag
    BY RunWords, RunBags
  <2> QED BY <1>1, <1>4, <2>1, <2>2, <2>3 DEF Sums
<1>6. tail \in Nat /\ tail >= TableColumnNum * Vector
  BY <1>1, InputAssumption, ColumnsOfTable, VectorAssumption
<1> QED BY <1>2, <1>3, <1>4, <1>5, <1>6 DEF SumsOK

-----------------------------------------------------------------------------
(* As long as the function has not begun, nothing is added.                *)
LEMMA NothingYet ==
  ASSUME Run!KernelStart, UNCHANGED running
  PROVE  AddedElements = {} /\ AddedElements' = {}
<1>1. /\ executed' = 0 /\ inner' = Run!NoRange /\ tail' = TableColumnNum * Vector
  BY DEF Run!KernelStart, Run!ScalarStart, Run!TableColumnNum, TableColumnNum, running
<1>2. TableColumnNum * Vector \in Nat /\ DataNum \in Nat
  BY InputAssumption, ColumnsOfTable, VectorAssumption
<1>3. {column_order'[v] : v \in 1 .. (executed' - 0)} = {}
  BY <1>1
<1>4. {e \in TableColumnNum * Vector .. DataNum - 1 : e < tail'} = {}
  BY <1>1, <1>2
<1>5. AddedElements' = {}
  BY <1>1, <1>3, <1>4 DEF AddedElements, Run!NoRange
<1> QED BY <1>5, NothingAdded

LEMMA RunFrame == ASSUME RunKernel PROVE Frame
BY DEF RunKernel, Frame, infos, table, orders

(* What each phase leaves to the next, so that y holds what it should.     *)
AddInv ==
  /\ phase \in {"table", "transform", "code", "run", "done"} => InfosAre
  /\ phase \in {"transform", "code", "run"} => RangesLocated /\ HeldOK
  /\ phase \in {"run", "done"} /\ FeaturesApart => SumsOK

(* The function runs.                                                      *)
LEMMA RunAdds ==
  ASSUME DynVecInv, PlanInv, AlignInv, AddInv, RunKernel
  PROVE  /\ AddInv'
         /\ FeaturesApart => SumsOK /\ SumsOK' /\ AddedElements \subseteq AddedElements'
<1>1. /\ phase = "run" /\ phase' = "run" /\ Run!KernelNext
      /\ UNCHANGED <<feature, location, gather_info, scatter_info, reduction_info, scanned, same_feature_range_map,
                     same_feature_map, bucket_order, range_order, column_order, scatter_order, offset>>
  BY DEF RunKernel, infos, table, orders
<1>2. UNCHANGED <<stream, range_num, row_ptr, column_ptr>>
  BY <1>1 DEF Run!KernelNext, Run!RunColumn, Run!BeginRange, Run!RunRangeColumn, Run!EndRange, Run!NextLoop,
              Run!RunScalar, Run!kernel_inputs
<1>3. /\ StaticOK /\ RecordedAll /\ (FeaturesApart => AlignOK) /\ PlannedOK /\ OrdersOK
      /\ InfosAre /\ RangesLocated /\ HeldOK /\ (FeaturesApart => SumsOK)
  BY <1>1 DEF AlignInv, PlanInv, PlannedOK, AddInv, DynVecInv
<1>4. FeaturesApart' => FeaturesApart
  BY <1>1, <1>3, StaticStays
<1>5. InfosAre' /\ RangesLocated' /\ HeldOK'
  BY <1>1, <1>2, <1>3, InfosStay, LocatedStays, HeldStays
<1>6. ASSUME FeaturesApart PROVE SumsOK' /\ AddedElements \subseteq AddedElements'
  <2>1. StandOK
    BY <1>3, <1>6 DEF StandOK
  <2>2. StandFrame
    BY <1>1, <1>2 DEF StandFrame, Frame
  <2> QED BY <1>1, <1>3, <1>6, <2>1, <2>2, KernelSums
<1> QED BY <1>1, <1>3, <1>4, <1>5, <1>6 DEF AddInv

(* generate_information, and the building of the table.                    *)
LEMMA TableAdds ==
  ASSUME NoKeyIsNoHash, DynVecInv, AlignInv, AddInv, GenerateInformation \/ BuildTable \/ FixMapOrder
  PROVE  AddInv'
<1>1. CASE GenerateInformation
  <2>1. phase = "information" /\ phase' \in {"table", "unsupported"}
    BY <1>1 DEF GenerateInformation
  <2>2. phase' = "table" => InfosAre'
    BY <1>1, <2>1, InformationRight DEF DynVecInv
  <2> QED BY <2>1, <2>2 DEF AddInv
<1>2. CASE BuildTable
  <2>1. phase = "table" /\ phase' = "table" /\ Table!TableNext /\ InfosAre
        /\ UNCHANGED <<row_ptr, column_ptr, gather_info, scatter_info, reduction_info>>
    BY <1>2 DEF BuildTable, AddInv, infos, dsl_inputs
  <2>2. location' = location
    BY <2>1 DEF Table!TableNext, Table!CombinSameFeature, Table!BeginWritePattern, Table!BeginBucket, Table!ExtendRun,
                Table!TakeRun, Table!EndBucket, Table!EndWritePattern, Table!table_inputs
  <2>3. InfosAre'
    BY <2>1, <2>2, InfosStay
  <2> QED BY <2>1, <2>3 DEF AddInv
<1>3. CASE FixMapOrder
  <2>1. /\ phase = "table" /\ phase' = "transform" /\ table_pc = "done" /\ InfosAre
        /\ UNCHANGED <<row_ptr, column_ptr, gather_info, scatter_info, reduction_info, location,
                       same_feature_range_map, stream, offset>>
    BY <1>3 DEF FixMapOrder, AddInv, infos, dsl_inputs, table, arrays
  <2>2. FT!IInv /\ Transform!NoArrays
    BY <2>1 DEF DynVecInv
  <2>3. InfosAre' /\ RangesLocated'
    BY <2>1, <2>2, InfosStay, LocatedWhenDone, LocatedStays
  <2>4. HeldOK'
    <3>1. /\ \A name \in Transform!StreamName : stream'[name] = <<>> /\ offset'[name] = <<>>
          /\ stream' = [n \in Transform!StreamName |-> <<>>] /\ offset' = [n \in Transform!StreamName |-> <<>>]
      BY <2>1, <2>2 DEF Transform!NoArrays
    <3>2. <<>> \in Seq(Int) /\ <<>> \in Seq(Nat) /\ 1 .. Len(<<>>) = {}
      OBVIOUS
    <3>3. Transform!StreamName' = Transform!StreamName
      BY DEF Transform!StreamName
    <3>4. /\ stream' \in [Transform!StreamName -> Seq(Int)] /\ offset' \in [Transform!StreamName -> Seq(Nat)]
      BY <3>1, <3>2
    <3>5. \A name \in Transform!StreamName : 1 .. Len(offset'[name]) = {}
      BY <3>1, <3>2
    <3> QED BY <3>3, <3>4, <3>5 DEF HeldOK
  <2> QED BY <2>1, <2>3, <2>4 DEF AddInv
<1> QED BY <1>1, <1>2, <1>3

(* From transform_data to the call of the function.                        *)
LEMMA GenerateAdds ==
  ASSUME DynVecInv, PlanInv, AlignInv, AddInv,
         TransformArrays \/ EndTransform \/ GenerateBucketLoop \/ GenerateRangeLoop \/ EndCode
  PROVE  AddInv'
<1>0. UNCHANGED <<bucket_order, range_order>>
  BY WalksStay DEF DynVecInv, TransformArrays, EndTransform, GenerateBucketLoop, GenerateRangeLoop, EndCode, orders
<1>1. /\ phase \in {"transform", "code"} /\ InfosAre /\ RangesLocated /\ HeldOK
      /\ phase' \in {"transform", "code", "run", "unsupported", "check_failed"}
      /\ UNCHANGED <<row_ptr, column_ptr, gather_info, scatter_info, reduction_info, location, same_feature_map,
                     feature, same_feature_range_map, bucket_order, range_order>>
  BY <1>0 DEF TransformArrays, EndTransform, GenerateBucketLoop, GenerateRangeLoop, EndCode, AppendLoop, infos,
              dsl_inputs, table, orders, AddInv
<1>2. InfosAre' /\ RangesLocated'
  BY <1>1, InfosStay, LocatedStays
<1>3. HeldOK'
  <2>1. CASE TransformArrays
    <3>1. InfosOK /\ OrdersOK /\ FillOK /\ RecordingOK /\ Transform!TransformNext
      BY <2>1 DEF TransformArrays, DynVecInv, AlignInv
    <3> QED BY <1>1, <3>1, TransformHolds
  <2>2. CASE EndTransform \/ GenerateBucketLoop \/ GenerateRangeLoop \/ EndCode
    <3>1. UNCHANGED <<column_order, scatter_order, stream, offset>>
      BY <2>2 DEF EndTransform, GenerateBucketLoop, GenerateRangeLoop, EndCode, orders, arrays
    <3> QED BY <1>1, <3>1, HeldStays
  <2> QED BY <2>1, <2>2
<1>4. ASSUME phase' = "run" PROVE SumsOK'
  <2>1. EndCode
    BY <1>4 DEF TransformArrays, EndTransform, GenerateBucketLoop, GenerateRangeLoop, EndCode, AppendLoop
  <2>2. Run!KernelStart /\ Frame /\ UNCHANGED <<executed, inner, tail, y>>
    BY <1>1, <2>1 DEF EndCode, PlanInv, Frame, orders, running
  <2>3. SumsOK /\ ~ InRange
    BY <2>2, NothingAdded
  <2> QED BY <1>1, <2>2, <2>3, SumsStay
<1> QED BY <1>1, <1>2, <1>3, <1>4 DEF AddInv

(* The steps that leave all arrays alone.                                  *)
LEMMA RestAdds ==
  ASSUME AlignInv, AddInv, EndRun \/ UNCHANGED vars
  PROVE  AddInv' /\ (FeaturesApart /\ phase \in {"run", "done"} => AddedElements' = AddedElements)
<1>1. /\ UNCHANGED <<row_ptr, column_ptr, gather_info, scatter_info, reduction_info, location, same_feature_map,
                     feature, same_feature_range_map, bucket_order, range_order, column_order, scatter_order, stream, offset>>
      /\ UNCHANGED <<executed, inner, tail, y, code, block, range_pointer>>
      /\ phase' = phase \/ (phase = "run" /\ phase' = "done")
  <2>1. UNCHANGED <<dsl_inputs, infos, table, orders, arrays, generated, running>>
    BY DEF EndRun, vars
  <2>2. phase' = phase \/ (phase = "run" /\ phase' = "done")
    BY DEF EndRun, vars
  <2>3. UNCHANGED <<row_ptr, column_ptr, gather_info, scatter_info, reduction_info, location, same_feature_map, feature,
                    same_feature_range_map, bucket_order, range_order, column_order, scatter_order, stream, offset>>
    BY <2>1 DEF dsl_inputs, infos, table, orders, arrays
  <2>4. UNCHANGED <<executed, inner, tail, y, code, block, range_pointer>>
    BY <2>1 DEF generated, running
  <2> QED BY <2>2, <2>3, <2>4
<1>2. (InfosAre => InfosAre') /\ (RangesLocated => RangesLocated') /\ (HeldOK => HeldOK')
  BY <1>1, InfosStay, LocatedStays, HeldStays
<1>3. Frame
  BY <1>1 DEF Frame
<1>4. SumsOK => SumsOK' /\ AddedElements' = AddedElements
  BY <1>1, <1>3, SumsUnchanged
<1>5. FeaturesApart' => FeaturesApart
  <2>1. \A c : FT!KeyOf(c)' = FT!KeyOf(c)
    BY <1>1 DEF FT!KeyOf
  <2> QED BY <1>1, <2>1 DEF FeaturesApart
<1> QED BY <1>1, <1>2, <1>4, <1>5 DEF AddInv

LEMMA AddInvHolds == ASSUME NoKeyIsNoHash PROVE Spec => [](DynVecInv /\ PlanInv /\ AlignInv /\ AddInv)
<1>1. Init => AlignInv /\ AddInv
  BY DEF Init, AlignInv, AddInv
<1>2. ASSUME DynVecInv, PlanInv, AlignInv, AddInv, [Next]_vars PROVE AddInv'
  BY <1>2, RunAdds, TableAdds, GenerateAdds, RestAdds DEF Next
<1> QED BY <1>1, <1>2, AlignInvHolds, PTL DEF Spec

(* At the normal end every location of y holds the products of all the     *)
(* elements whose row it is, each once, whatever the arrays hold and of    *)
(* whatever size they are, in any order of the maps: if no two features of *)
(* the table collide in the hash.                                          *)
THEOREM ResultIsTheLambdas == ASSUME NoKeyIsNoHash PROVE Spec => [](FeaturesApart => ResultOfLambda)
<1>1. DynVecInv /\ PlanInv /\ AddInv => (FeaturesApart => ResultOfLambda)
  <2> SUFFICES ASSUME DynVecInv, PlanInv, AddInv, FeaturesApart, phase = "done", NEW r \in Row
               PROVE  y[r] = SetToBag(Abstract!ProductsOf(0 .. DataNum - 1, r))
    BY DEF ResultOfLambda
  <2>1. y = Sums(AddedElements)
    BY DEF AddInv, SumsOK
  <2>2. AddedElements = 0 .. DataNum - 1
    BY DoneAdded
  <2> QED BY <2>1, <2>2 DEF Sums
<1> QED BY <1>1, AddInvHolds, PTL

(* All elements of a range have one row, with which y is read and stored   *)
(* once, whatever the arrays hold: a column that shares its key with one   *)
(* of another feature is what could be joined for its first row alone.     *)
THEOREM RangesStoreOneRow == ASSUME NoKeyIsNoHash PROVE Spec => [](FeaturesApart => RangesWriteOneRow)
<1>1. DynVecInv /\ PlanInv /\ AlignInv /\ AddInv => (FeaturesApart => RangesWriteOneRow)
  <2> SUFFICES ASSUME DynVecInv, PlanInv, AlignInv, AddInv, FeaturesApart,
                      phase \in {"transform", "code", "run"},
                      NEW k \in DOMAIN same_feature_range_map,
                      NEW j \in DOMAIN same_feature_range_map[k],
                      NEW e \in same_feature_range_map[k][j][1] * Vector
                                  .. same_feature_range_map[k][j][2] * Vector - 1
               PROVE  row_ptr[e] = row_ptr[same_feature_range_map[k][j][1] * Vector]
    BY DEF RangesWriteOneRow
  <2>1. LayoutOK /\ StaticOK /\ InfosAre /\ RangesLocated /\ WalksOK
    BY DEF DynVecInv, PlanInv, AlignInv, AddInv
  <2>2. PICK n \in DOMAIN range_order : range_order[n] = k
    BY <2>1 DEF WalksOK, ToSet
  <2>3. PICK b : b = BucketNum + n
    OBVIOUS
  <2>4. b \in BucketNum + 1 .. BlockNum /\ RangesAt(b) = same_feature_range_map[k]
    <3>1. /\ BucketNum \in Nat /\ Len(range_order) \in Nat /\ BlockNum = BucketNum + Len(range_order)
          /\ n \in 1 .. Len(range_order)
      BY <2>1, LayoutIs DEF LayoutOK
    <3>2. b \in BucketNum + 1 .. BlockNum /\ b - BucketNum = n
      BY <2>3, <3>1
    <3> QED BY <2>2, <3>2 DEF RangesAt
  <2> DEFINE first == RangesAt(b)[j][1]
             last  == RangesAt(b)[j][2]
  <2>5. j \in 1 .. Len(RangesAt(b)) /\ first \in Nat /\ last \in Nat
    <3>1. RangesAt(b) \in Seq(FT!ColumnRange)
      BY <2>1, <2>4 DEF LayoutOK
    <3>2. j \in 1 .. Len(RangesAt(b))
      BY <2>4, <3>1
    <3>3. first \in FT!Column /\ last \in 1 .. TableColumnNum
      BY <3>1, <3>2 DEF FT!ColumnRange
    <3> QED BY <3>2, <3>3, ColumnsOfTable DEF FT!Column
  <2>6. e \in first * Vector .. last * Vector - 1
    BY <2>4
  <2> HIDE DEF first, last
  <2>7. PICK c \in first .. last - 1, l \in Lane : e = c * Vector + l
    <3>1. PICK f \in Nat, t \in Nat : f = first /\ t = last
      BY <2>5
    <3>2. e \in Nat /\ f * Vector <= e /\ e <= t * Vector - 1
      <4>1. f * Vector \in Nat /\ t * Vector \in Nat
        BY LaneInt
      <4> QED BY <2>6, <3>1, <4>1
    <3>3. PICK q \in Nat, l \in Lane : e = q * Vector + l
      BY <3>2, DivisionIs
    <3>4. q \in f .. t - 1
      <4>1. l \in 0 .. Vector - 1
        BY <3>3 DEF Lane
      <4>2. CASE Vector = 4
        BY <3>2, <3>3, <4>1, <4>2
      <4>3. CASE Vector = 8
        BY <3>2, <3>3, <4>1, <4>3
      <4>4. CASE Vector = 16
        BY <3>2, <3>3, <4>1, <4>4
      <4> QED BY <4>2, <4>3, <4>4, VectorAssumption
    <3> QED BY <3>1, <3>3, <3>4
  <2>8. row_ptr[c * Vector + l] = row_ptr[first * Vector]
    <3>1. c \in RangesAt(b)[j][1] .. RangesAt(b)[j][2] - 1
      BY DEF first, last
    <3> QED BY <2>1, <2>4, <2>5, <2>7, <3>1, RangeRows DEF first
  <2> QED BY <2>4, <2>7, <2>8 DEF first
<1> QED BY <1>1, AddInvHolds, PTL

(* The program implements Accumulate, the scalar loop over all elements in *)
(* any order and grouping, whatever the arrays hold and of whatever size   *)
(* they are: if no two features of the table collide in the hash.          *)
THEOREM DynVecAccumulates ==
  ASSUME NoKeyIsNoHash
  PROVE  Spec /\ [](phase = "run" => FeaturesApart) => ImplementsAccumulate
<1>1. Init => Abstract!AccumulateInit
  <2> SUFFICES ASSUME Init PROVE Abstract!AccumulateInit
    OBVIOUS
  <2>1. InputsOK
    BY InputAssumption DEF Init, InputsOK
  <2>2. SumsOK /\ AddedElements = {}
    BY NothingAdded DEF Init
  <2>3. y = [r \in Row |-> EmptyBag]
    <3>1. Run!Row = Row /\ Run!EmptyBag = EmptyBag
      BY RunWords, RunBags
    <3> QED BY <3>1 DEF Init, Run!KernelStart
  <2> QED BY <2>1, <2>2, <2>3 DEF InputsOK, Abstract!AccumulateInit, Abstract!Element, Abstract!Row, Row,
                                  Abstract!EmptyBag, EmptyBag, Abstract!SetToBag, SetToBag
<1>2. ASSUME DynVecInv, PlanInv, AlignInv, AddInv, phase = "run" => FeaturesApart, [Next]_vars
      PROVE  [Abstract!AddElements]_Abstract!accumulate_vars
  <2>1. CASE RunKernel
    <3>1. phase = "run" /\ UNCHANGED <<row_ptr, column_ptr>>
      BY <2>1 DEF RunKernel, Run!KernelNext, Run!RunColumn, Run!BeginRange, Run!RunRangeColumn, Run!EndRange,
                  Run!NextLoop, Run!RunScalar, Run!kernel_inputs
    <3>2. SumsOK /\ SumsOK' /\ AddedElements \subseteq AddedElements'
      BY <1>2, <2>1, <3>1, RunAdds
    <3>A. PICK A : A = AddedElements
      OBVIOUS
    <3>B. PICK B : B = AddedElements'
      OBVIOUS
    <3>3. y = Sums(A) /\ y' = Sums(B)
      <4>1. y' = Sums(AddedElements)'
        BY <3>2 DEF SumsOK
      <4>2. \A r : Abstract!ProductsOf(AddedElements, r)' = Abstract!ProductsOf(B, r)
        BY <3>1, <3>B DEF Abstract!ProductsOf, Abstract!Token
      <4>3. Sums(AddedElements)' = Sums(B)
        BY <4>2 DEF Sums
      <4> QED BY <3>2, <3>A, <4>1, <4>3 DEF SumsOK
    <3>4. ASSUME NEW r \in Row
          PROVE  y'[r] = y[r] (+) SetToBag(Abstract!ProductsOf(B \ A, r))
      <4>1. A \in SUBSET B
        BY <3>2, <3>A, <3>B
      <4>2. SetToBag(Abstract!ProductsOf(B, r)) =
              SetToBag(Abstract!ProductsOf(A, r)) (+) SetToBag(Abstract!ProductsOf(B \ A, r))
        BY <4>1, BagOfProducts
      <4> QED BY <3>3, <4>2 DEF Sums
    <3>5. y' = [r \in Row |-> y[r] (+) SetToBag(Abstract!ProductsOf(B \ A, r))]
      BY <3>3, <3>4 DEF Sums
    <3>6. B \in SUBSET (0 .. DataNum - 1)
      <4>1. TableColumnNum * Vector \in Nat /\ TableColumnNum * Vector <= DataNum /\ DataNum \in Nat
        BY InputAssumption, ColumnsOfTable, VectorAssumption
      <4>2. \A e : e \in 0 .. TableColumnNum * Vector - 1 \/ e \in TableColumnNum * Vector .. DataNum - 1 =>
                     e \in 0 .. DataNum - 1
        BY <4>1
      <4>3. B = Vectors(ColumnsOf(1, Stored'))  \cup Remainder(tail')
        BY <3>B, <1>2, <2>1, RunFrame, AddedFrame
      <4> QED BY <4>2, <4>3 DEF Vectors, Remainder
    <3>7. CASE A = B
      <4>1. y' = y
        BY <3>3, <3>7
      <4> QED BY <3>1, <3>7, <3>A, <3>B, <4>1 DEF Abstract!accumulate_vars
    <3>8. CASE A # B
      BY <3>1, <3>2, <3>5, <3>6, <3>8, <3>A, <3>B
         DEF Abstract!AddElements, Abstract!Element, Abstract!Row, Row, Abstract!(+), (+), Abstract!SetToBag, SetToBag
    <3> QED BY <3>7, <3>8
  <2>2. CASE EndRun \/ UNCHANGED vars
    <3>1. UNCHANGED <<row_ptr, column_ptr, y>>
      BY <2>2 DEF EndRun, vars, dsl_inputs, running
    <3>2. AddedElements' = AddedElements
      BY <2>2 DEF EndRun, vars, orders, running, AddedElements, Run!NoRange
    <3> QED BY <3>1, <3>2 DEF Abstract!accumulate_vars
  <2>3. CASE \/ GenerateInformation \/ BuildTable \/ FixMapOrder \/ TransformArrays \/ EndTransform
             \/ GenerateBucketLoop \/ GenerateRangeLoop \/ EndCode
    <3>1. /\ phase \in {"information", "table", "transform", "code"} /\ UNCHANGED <<row_ptr, column_ptr>>
          /\ UNCHANGED running
      BY <2>3 DEF GenerateInformation, BuildTable, FixMapOrder, TransformArrays, EndTransform,
                  GenerateBucketLoop, GenerateRangeLoop, EndCode, dsl_inputs
    <3>2. Run!KernelStart /\ y' = y
      BY <1>2, <3>1 DEF PlanInv, running
    <3>3. AddedElements = {} /\ AddedElements' = {}
      BY <3>1, <3>2, NothingYet
    <3> QED BY <3>1, <3>2, <3>3 DEF Abstract!accumulate_vars
  <2> QED BY <1>2, <2>1, <2>2, <2>3 DEF Next
<1> QED BY <1>1, <1>2, AddInvHolds, PTL DEF Spec, ImplementsAccumulate
=============================================================================
