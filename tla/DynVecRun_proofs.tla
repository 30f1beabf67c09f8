-------------------------- MODULE DynVecRun_proofs --------------------------
(***************************************************************************)
(* Proofs about DynVec from the walks over the two maps to the return of   *)
(* the function: the loops of the generated code run over the columns in   *)
(* the order of the walks, one iteration for each place a column has, and  *)
(* when the function returns every element has been added.                 *)
(***************************************************************************)
EXTENDS DynVec_proofs

-----------------------------------------------------------------------------
(* The plan: the loops of the generated code, numbered as in code, first   *)
(* those of the buckets, then those of the buckets of ranges.              *)

Beginnings(rs) == [j \in DOMAIN rs |-> rs[j][1]]
Extents(rs)    == [j \in DOMAIN rs |-> rs[j][2] - rs[j][1]]

BucketNum   == Len(bucket_order)
BlockNum    == Len(bucket_order) + Len(range_order)
BucketAt(b) == same_feature_map[bucket_order[b]]
RangesAt(b) == same_feature_range_map[range_order[b - BucketNum]]
KeyAt(b)    == IF b <= BucketNum THEN bucket_order[b] ELSE range_order[b - BucketNum]

Buckets == [n \in DOMAIN bucket_order |-> same_feature_map[bucket_order[n]]]
Moved   == [n \in DOMAIN range_order |-> RangesColumns(same_feature_range_map[range_order[n]])]
Firsts  == [n \in DOMAIN range_order |-> Beginnings(same_feature_range_map[range_order[n]])]
Sizes   == [n \in DOMAIN range_order |-> Extents(same_feature_range_map[range_order[n]])]

(* How many iterations loop b has, how many columns and how many ranges    *)
(* come before it, and how many of its columns before iteration d + 1.     *)
KeptNum == Before(Lens(Buckets), BucketNum + 1)
Iterations(b) ==
  IF b <= BucketNum THEN Len(BucketAt(b)) ELSE IF b <= BlockNum THEN Len(RangesAt(b)) ELSE 0
ColumnsBefore(b) ==
  IF b <= BucketNum THEN Before(Lens(Buckets), b) ELSE KeptNum + Before(Lens(Moved), b - BucketNum)
RangesBefore(b) ==
  IF b <= BucketNum THEN 0 ELSE Before(Lens(Sizes), b - BucketNum)
Passing(b, d) ==
  IF b <= BucketNum THEN d ELSE IF b <= BlockNum THEN Before(Sizes[b - BucketNum], d + 1) ELSE 0

(* The loop that is generated for it.                                      *)
CodeOf(b) ==
  IF b <= BucketNum
    THEN LoopOf(FALSE, FirstColumn(bucket_order[b]), CircleNum(bucket_order[b]))
    ELSE LoopOf(TRUE, RangesAt(b)[1][1], Len(RangesAt(b)))

(* What the walks are, and that each bucket is of one key.                 *)
LayoutOK ==
  /\ bucket_order \in Seq(DOMAIN same_feature_map)
  /\ range_order \in Seq(DOMAIN same_feature_range_map)
  /\ \A b \in 1 .. BucketNum :
       /\ BucketAt(b) \in Seq(Column)
       /\ \A j \in 1 .. Len(BucketAt(b)) : FT!KeyOf(BucketAt(b)[j]) = KeyAt(b)
  /\ \A b \in BucketNum + 1 .. BlockNum :
       /\ RangesAt(b) \in Seq(FT!ColumnRange) /\ RangesAt(b) # <<>>
       /\ \A j \in 1 .. Len(RangesAt(b)) :
            /\ RangesAt(b)[j][1] < RangesAt(b)[j][2]
            /\ \A c \in RangesAt(b)[j][1] .. RangesAt(b)[j][2] - 1 : c \in Column /\ FT!KeyOf(c) = KeyAt(b)
  /\ column_order  = FlattenSeq(Buckets) \o FlattenSeq(Moved)
  /\ scatter_order = FlattenSeq(Buckets) \o FlattenSeq(Firsts)

(* The loops generated so far are the first of the plan.                   *)
CodeOK == code \in Seq({CodeOf(b) : b \in 1 .. BlockNum}) /\ \A b \in 1 .. Len(code) : code[b] = CodeOf(b)

(* Where the code that runs stands in the walks.                           *)
InRange == inner # Run!NoRange
PlaceOK ==
  /\ block \in 1 .. BlockNum + 1
  /\ done_iters \in 0 .. Iterations(block)
  /\ executed = ColumnsBefore(block) + Passing(block, done_iters) + (IF InRange THEN inner.taken ELSE 0)
  /\ range_pointer = RangesBefore(block)
       + (IF block <= BucketNum THEN 0 ELSE done_iters + (IF InRange THEN 1 ELSE 0))
  /\ InRange =>
       /\ block \in BucketNum + 1 .. BlockNum
       /\ done_iters < Iterations(block)
       /\ {"size", "taken"} \subseteq DOMAIN inner
       /\ inner.size = Sizes[block - BucketNum][done_iters + 1]
       /\ inner.taken \in 0 .. inner.size
  /\ tail \in Nat

PlanInv ==
  /\ phase \in {"transform", "code", "run", "done"} => LayoutOK
  /\ phase \in {"information", "table", "transform"} => code = <<>>
  /\ phase \in {"information", "table", "transform", "code"} => Run!KernelStart
  /\ phase \in {"code", "run", "done"} => CodeOK
  /\ phase \in {"run", "done"} => Len(code) = BlockNum /\ range_num = FlattenSeq(Sizes) /\ PlaceOK
  /\ phase = "done" => Run!KernelDone

(* The function has added every element when it returns.                   *)
AllElementsAdded == phase = "done" => AddedElements = 0 .. DataNum - 1

-----------------------------------------------------------------------------
(* A function on 1 .. n is a sequence of n.                                *)
LEMMA FunctionIsSeq ==
  ASSUME NEW S, NEW n \in Nat, NEW f \in [1 .. n -> S]
  PROVE  f \in Seq(S) /\ Len(f) = n /\ DOMAIN f = 1 .. n
OBVIOUS

(* Steps through a part of m elements.                                     *)
LEMMA InPart ==
  \A a, m \in Int : \A t \in 0 .. m - 1 :
    /\ t \in Int /\ t + 1 \in 1 .. m
    /\ a + (t + 1) = a + t + 1 /\ a + (t + 1) - 1 = a + t
OBVIOUS

(* The columns of one range.                                               *)
LEMMA RangeColumnsIs ==
  ASSUME NEW r, r[1] \in Int, r[2] \in Int, NEW m \in Nat, m = r[2] - r[1],
         \A c \in r[1] .. r[2] - 1 : c \in Column
  PROVE  /\ RangeColumns(r) \in Seq(Column) /\ Len(RangeColumns(r)) = m
         /\ \A t \in 0 .. m - 1 : t + 1 \in 1 .. m /\ RangeColumns(r)[t + 1] = r[1] + t
<1> DEFINE u == r[1]
<1>1. u \in Int /\ m \in Int
  OBVIOUS
<1>2. RangeColumns(r) = [n \in 1 .. m |-> u + n - 1]
  BY DEF RangeColumns
<1>3. ASSUME NEW n \in 1 .. m PROVE u + n - 1 \in Column
  <2>1. u + n - 1 \in r[1] .. r[2] - 1
    OBVIOUS
  <2> QED BY <2>1
<1>4. RangeColumns(r) \in [1 .. m -> Column]
  <2> HIDE DEF u
  <2> QED BY <1>2, <1>3
<1>5. RangeColumns(r) \in Seq(Column) /\ Len(RangeColumns(r)) = m
  BY <1>4, FunctionIsSeq
<1>6. ASSUME NEW t \in 0 .. m - 1 PROVE t + 1 \in 1 .. m /\ RangeColumns(r)[t + 1] = u + t
  <2>1. t + 1 \in 1 .. m /\ u + (t + 1) - 1 = u + t
    BY <1>1, InPart
  <2> QED BY <1>2, <2>1
<1> QED BY <1>5, <1>6

(* The columns of the ranges of one key: those of range j begin behind     *)
(* those of the ranges before it.                                          *)
LEMMA RangesColumnsAt ==
  ASSUME NEW rs \in Seq(FT!ColumnRange),
         \A j \in 1 .. Len(rs) : rs[j][1] < rs[j][2] /\ \A c \in rs[j][1] .. rs[j][2] - 1 : c \in Column
  PROVE  /\ Extents(rs) \in Seq(Nat) /\ Len(Extents(rs)) = Len(rs)
         /\ Beginnings(rs) \in Seq(Column) /\ Len(Beginnings(rs)) = Len(rs)
         /\ \A j \in 1 .. Len(rs) :
              /\ Extents(rs)[j] = rs[j][2] - rs[j][1] /\ Extents(rs)[j] \in Nat /\ Extents(rs)[j] > 0
              /\ Beginnings(rs)[j] = rs[j][1] /\ rs[j][1] \in Column
         /\ RangesColumns(rs) \in Seq(Column)
         /\ Len(RangesColumns(rs)) = Before(Extents(rs), Len(rs) + 1)
         /\ \A j \in 1 .. Len(rs) : \A t \in 0 .. Extents(rs)[j] - 1 :
              /\ Before(Extents(rs), j) + t + 1 \in 1 .. Len(RangesColumns(rs))
              /\ RangesColumns(rs)[Before(Extents(rs), j) + t + 1] = rs[j][1] + t
<1> DEFINE z  == Extents(rs)
           ss == [j \in DOMAIN rs |-> RangeColumns(rs[j])]
<1>1. /\ Len(rs) \in Nat /\ DOMAIN rs = 1 .. Len(rs)
      /\ \A j \in 1 .. Len(rs) : rs[j][1] \in Column /\ rs[j][1] \in Int /\ rs[j][2] \in Int
  <2>1. \A j \in 1 .. Len(rs) : rs[j] \in FT!ColumnRange
    OBVIOUS
  <2>2. \A r \in FT!ColumnRange : r[1] \in Column /\ r[1] \in Int /\ r[2] \in Int
    BY ColumnsOfTable DEF FT!ColumnRange, FT!Column, Column
  <2> QED BY <2>1, <2>2
<1>2. /\ z = [j \in 1 .. Len(rs) |-> rs[j][2] - rs[j][1]]
      /\ ss = [j \in 1 .. Len(rs) |-> RangeColumns(rs[j])]
      /\ Beginnings(rs) = [j \in 1 .. Len(rs) |-> rs[j][1]]
  BY <1>1 DEF Extents, Beginnings
<1> HIDE DEF z, ss
<1>3. ASSUME NEW j \in 1 .. Len(rs)
      PROVE  z[j] = rs[j][2] - rs[j][1] /\ z[j] > 0 /\ z[j] \in Nat /\ Beginnings(rs)[j] = rs[j][1]
  BY <1>1, <1>2
<1>4. ASSUME NEW j \in 1 .. Len(rs)
      PROVE  /\ ss[j] \in Seq(Column) /\ Len(ss[j]) = z[j]
             /\ \A t \in 0 .. z[j] - 1 : t + 1 \in 1 .. z[j] /\ ss[j][t + 1] = rs[j][1] + t
  <2>1. ss[j] = RangeColumns(rs[j])
    BY <1>2
  <2> QED BY <1>1, <1>3, <2>1, RangeColumnsIs
<1>5. /\ z \in Seq(Nat) /\ Len(z) = Len(rs)
      /\ Beginnings(rs) \in Seq(Column) /\ Len(Beginnings(rs)) = Len(rs)
      /\ ss \in Seq(Seq(Column)) /\ Len(ss) = Len(rs) /\ DOMAIN ss = 1 .. Len(rs)
  <2>1. z \in [1 .. Len(rs) -> Nat]
    BY <1>2, <1>3
  <2>2. Beginnings(rs) \in [1 .. Len(rs) -> Column]
    BY <1>1, <1>2
  <2>3. ss \in [1 .. Len(rs) -> Seq(Column)]
    BY <1>2, <1>4
  <2> QED BY <1>1, <2>1, <2>2, <2>3, FunctionIsSeq
<1>6. Lens(ss) = z
  <2>1. Lens(ss) = [j \in 1 .. Len(rs) |-> Len(ss[j])]
    BY <1>5 DEF Lens
  <2>2. DOMAIN z = 1 .. Len(rs) /\ z = [j \in 1 .. Len(rs) |-> z[j]]
    BY <1>2
  <2> QED BY <1>4, <2>1, <2>2
<1>7. RangesColumns(rs) = FlattenSeq(ss)
  BY DEF RangesColumns, ss
<1>8. /\ FlattenSeq(ss) \in Seq(Column)
      /\ Len(FlattenSeq(ss)) = Before(z, Len(rs) + 1)
      /\ \A j \in 1 .. Len(rs) : \A i \in 1 .. Len(ss[j]) :
           /\ Before(z, j) + i \in 1 .. Len(FlattenSeq(ss))
           /\ FlattenSeq(ss)[Before(z, j) + i] = ss[j][i]
  <2>1. /\ FlattenSeq(ss) \in Seq(Column)
        /\ Len(FlattenSeq(ss)) = Before(Lens(ss), Len(ss) + 1)
        /\ \A b \in 1 .. Len(ss) : \A j \in 1 .. Len(ss[b]) :
             /\ Before(Lens(ss), b) + j \in 1 .. Len(FlattenSeq(ss))
             /\ FlattenSeq(ss)[Before(Lens(ss), b) + j] = ss[b][j]
    BY <1>5, FlattenAt
  <2> QED BY ONLY <1>5, <1>6, <2>1
<1>9. \A j \in 1 .. Len(rs) + 1 : Before(z, j) \in Nat
  BY <1>1, <1>3, BeforeSums
<1>10. ASSUME NEW j \in 1 .. Len(rs), NEW t \in 0 .. z[j] - 1
       PROVE  /\ Before(z, j) + t + 1 \in 1 .. Len(FlattenSeq(ss))
              /\ FlattenSeq(ss)[Before(z, j) + t + 1] = rs[j][1] + t
  <2>1. t + 1 \in 1 .. Len(ss[j]) /\ ss[j][t + 1] = rs[j][1] + t
    BY <1>4
  <2>2. Before(z, j) + (t + 1) = Before(z, j) + t + 1
    <3>1. j \in 1 .. Len(rs) + 1
      BY <1>1
    <3>2. Before(z, j) \in Int /\ z[j] \in Int
      BY <1>3, <1>9, <3>1
    <3> QED BY <3>2, InPart
  <2> QED BY <1>8, <2>1, <2>2
<1> QED BY <1>1, <1>3, <1>5, <1>7, <1>8, <1>10 DEF z

(* The walks are of sequences, each beginning behind those before it.      *)
LEMMA LayoutIs ==
  ASSUME LayoutOK
  PROVE  /\ BucketNum \in Nat /\ Len(range_order) \in Nat /\ BlockNum = BucketNum + Len(range_order)
         /\ Buckets \in Seq(Seq(Column)) /\ Len(Buckets) = BucketNum
         /\ \A b \in 1 .. BucketNum : Buckets[b] = BucketAt(b) /\ BucketAt(b) \in Seq(Column)
         /\ Moved \in Seq(Seq(Column)) /\ Len(Moved) = Len(range_order)
         /\ Firsts \in Seq(Seq(Column)) /\ Len(Firsts) = Len(range_order)
         /\ Sizes \in Seq(Seq(Nat)) /\ Len(Sizes) = Len(range_order)
         /\ \A b \in BucketNum + 1 .. BlockNum :
              /\ b - BucketNum \in 1 .. Len(range_order)
              /\ RangesAt(b) \in Seq(FT!ColumnRange) /\ Len(RangesAt(b)) \in Nat /\ Len(RangesAt(b)) > 0
              /\ Sizes[b - BucketNum] = Extents(RangesAt(b))
              /\ Firsts[b - BucketNum] = Beginnings(RangesAt(b))
              /\ Moved[b - BucketNum] = RangesColumns(RangesAt(b))
              /\ \A j \in 1 .. Len(RangesAt(b)) :
                   /\ RangesAt(b)[j][1] < RangesAt(b)[j][2]
                   /\ \A c \in RangesAt(b)[j][1] .. RangesAt(b)[j][2] - 1 : c \in Column
<1>1. /\ bucket_order \in Seq(DOMAIN same_feature_map) /\ range_order \in Seq(DOMAIN same_feature_range_map)
      /\ \A b \in 1 .. BucketNum : BucketAt(b) \in Seq(Column)
  BY DEF LayoutOK
<1>2. /\ BucketNum \in Nat /\ Len(range_order) \in Nat /\ BlockNum = BucketNum + Len(range_order)
      /\ DOMAIN bucket_order = 1 .. BucketNum /\ DOMAIN range_order = 1 .. Len(range_order)
  BY <1>1 DEF BucketNum, BlockNum
<1>3. /\ Buckets \in Seq(Seq(Column)) /\ Len(Buckets) = BucketNum
      /\ \A b \in 1 .. BucketNum : Buckets[b] = BucketAt(b)
  <2>1. Buckets = [b \in 1 .. BucketNum |-> BucketAt(b)]
    BY <1>2 DEF Buckets, BucketAt
  <2>2. Buckets \in [1 .. BucketNum -> Seq(Column)]
    BY <1>1, <2>1
  <2> QED BY <1>2, <2>1, <2>2, FunctionIsSeq
<1>4. ASSUME NEW b \in BucketNum + 1 .. BlockNum
      PROVE  /\ b - BucketNum \in 1 .. Len(range_order)
             /\ RangesAt(b) = same_feature_range_map[range_order[b - BucketNum]]
             /\ RangesAt(b) \in Seq(FT!ColumnRange) /\ Len(RangesAt(b)) \in Nat /\ Len(RangesAt(b)) > 0
             /\ \A j \in 1 .. Len(RangesAt(b)) :
                  /\ RangesAt(b)[j][1] < RangesAt(b)[j][2]
                  /\ \A c \in RangesAt(b)[j][1] .. RangesAt(b)[j][2] - 1 : c \in Column
  <2>1. b - BucketNum \in 1 .. Len(range_order)
    BY <1>2
  <2>2. /\ RangesAt(b) \in Seq(FT!ColumnRange) /\ RangesAt(b) # <<>>
        /\ \A j \in 1 .. Len(RangesAt(b)) :
             /\ RangesAt(b)[j][1] < RangesAt(b)[j][2]
             /\ \A c \in RangesAt(b)[j][1] .. RangesAt(b)[j][2] - 1 : c \in Column
    BY DEF LayoutOK
  <2>3. Len(RangesAt(b)) \in Nat \ {0}
    BY <2>2, EmptySeq
  <2> QED BY <2>1, <2>2, <2>3 DEF RangesAt
<1>5. ASSUME NEW n \in 1 .. Len(range_order)
      PROVE  /\ Sizes[n] \in Seq(Nat) /\ Firsts[n] \in Seq(Column) /\ Moved[n] \in Seq(Column)
             /\ Sizes[n] = Extents(RangesAt(BucketNum + n))
             /\ Firsts[n] = Beginnings(RangesAt(BucketNum + n))
             /\ Moved[n] = RangesColumns(RangesAt(BucketNum + n))
  <2> DEFINE b == BucketNum + n
  <2>1. b \in BucketNum + 1 .. BlockNum /\ b - BucketNum = n
    BY <1>2
  <2> HIDE DEF b
  <2>2. RangesAt(b) = same_feature_range_map[range_order[n]]
    BY <1>4, <2>1
  <2>3. Sizes[n] = Extents(RangesAt(b)) /\ Firsts[n] = Beginnings(RangesAt(b)) /\ Moved[n] = RangesColumns(RangesAt(b))
    BY <1>2, <2>2 DEF Sizes, Firsts, Moved
  <2>4. Sizes[n] \in Seq(Nat) /\ Firsts[n] \in Seq(Column) /\ Moved[n] \in Seq(Column)
    BY <1>4, <2>1, <2>3, RangesColumnsAt
  <2> QED BY <2>3, <2>4 DEF b
<1>6. /\ Moved \in Seq(Seq(Column)) /\ Len(Moved) = Len(range_order)
      /\ Firsts \in Seq(Seq(Column)) /\ Len(Firsts) = Len(range_order)
      /\ Sizes \in Seq(Seq(Nat)) /\ Len(Sizes) = Len(range_order)
  <2>1. /\ Moved = [n \in 1 .. Len(range_order) |-> Moved[n]]
        /\ Firsts = [n \in 1 .. Len(range_order) |-> Firsts[n]]
        /\ Sizes = [n \in 1 .. Len(range_order) |-> Sizes[n]]
    BY <1>2 DEF Moved, Firsts, Sizes
  <2>2. /\ Moved \in [1 .. Len(range_order) -> Seq(Column)]
        /\ Firsts \in [1 .. Len(range_order) -> Seq(Column)]
        /\ Sizes \in [1 .. Len(range_order) -> Seq(Nat)]
    BY <1>5, <2>1
  <2> QED BY <1>2, <2>2, FunctionIsSeq
<1>7. ASSUME NEW b \in BucketNum + 1 .. BlockNum
      PROVE  /\ Sizes[b - BucketNum] = Extents(RangesAt(b))
             /\ Firsts[b - BucketNum] = Beginnings(RangesAt(b))
             /\ Moved[b - BucketNum] = RangesColumns(RangesAt(b))
  <2> DEFINE n == b - BucketNum
  <2>1. n \in 1 .. Len(range_order) /\ BucketNum + n = b
    BY <1>2
  <2> HIDE DEF n
  <2>2. /\ Sizes[n] = Extents(RangesAt(b)) /\ Firsts[n] = Beginnings(RangesAt(b))
        /\ Moved[n] = RangesColumns(RangesAt(b))
    BY <1>5, <2>1
  <2> QED BY <2>2 DEF n
<1> QED BY ONLY <1>1, <1>2, <1>3, <1>4, <1>6, <1>7

(* The numbers of a loop over a bucket.                                    *)
LEMMA BucketPlaces ==
  ASSUME LayoutOK
  PROVE  /\ Before(Lens(Buckets), 1) = 0 /\ KeptNum \in Nat
         /\ \A b \in 1 .. BucketNum :
              /\ Iterations(b) = Len(BucketAt(b)) /\ Iterations(b) \in Nat
              /\ ColumnsBefore(b) = Before(Lens(Buckets), b) /\ ColumnsBefore(b) \in Nat
              /\ ColumnsBefore(b) + Iterations(b) = Before(Lens(Buckets), b + 1)
              /\ RangesBefore(b) = 0
              /\ \A d : Passing(b, d) = d
<1>1. /\ BucketNum \in Nat /\ Buckets \in Seq(Seq(Column)) /\ Len(Buckets) = BucketNum
      /\ \A b \in 1 .. BucketNum : Buckets[b] = BucketAt(b) /\ BucketAt(b) \in Seq(Column)
  BY LayoutIs
<1>2. \A b \in 1 .. BucketNum : Lens(Buckets)[b] = Len(BucketAt(b)) /\ Len(BucketAt(b)) \in Nat
  <2>1. DOMAIN Buckets = 1 .. BucketNum
    BY <1>1
  <2>2. \A b \in 1 .. BucketNum : Len(BucketAt(b)) \in Nat
    BY <1>1
  <2> QED BY <1>1, <2>1, <2>2 DEF Lens
<1>3. /\ Before(Lens(Buckets), 1) = 0
      /\ \A b \in 1 .. BucketNum + 1 : Before(Lens(Buckets), b) \in Nat
      /\ \A b \in 1 .. BucketNum : Before(Lens(Buckets), b + 1) = Before(Lens(Buckets), b) + Lens(Buckets)[b]
  BY <1>1, <1>2, BeforeSums
<1>4. KeptNum \in Nat
  <2>1. BucketNum + 1 \in 1 .. BucketNum + 1
    BY <1>1
  <2> QED BY <1>3, <2>1 DEF KeptNum
<1>5. ASSUME NEW b \in 1 .. BucketNum
      PROVE  /\ Iterations(b) = Len(BucketAt(b))
             /\ ColumnsBefore(b) = Before(Lens(Buckets), b) /\ ColumnsBefore(b) \in Nat
             /\ RangesBefore(b) = 0
             /\ \A d : Passing(b, d) = d
  <2>1. b <= BucketNum /\ b \in 1 .. BucketNum + 1
    BY <1>1
  <2> QED BY <1>3, <2>1 DEF Iterations, ColumnsBefore, RangesBefore, Passing
<1> QED BY <1>2, <1>3, <1>4, <1>5

(* The numbers of a loop over the ranges of a bucket.                      *)
LEMMA RangePlaces ==
  ASSUME LayoutOK
  PROVE  /\ Before(Lens(Moved), 1) = 0 /\ Before(Lens(Sizes), 1) = 0
         /\ \A n \in 1 .. Len(range_order) + 1 : Before(Lens(Moved), n) \in Nat /\ Before(Lens(Sizes), n) \in Nat
         /\ \A b \in BucketNum + 1 .. BlockNum :
              /\ Iterations(b) = Len(RangesAt(b)) /\ Iterations(b) \in Nat
              /\ ColumnsBefore(b) = KeptNum + Before(Lens(Moved), b - BucketNum)
              /\ RangesBefore(b) = Before(Lens(Sizes), b - BucketNum)
              /\ Before(Lens(Moved), b - BucketNum + 1) = Before(Lens(Moved), b - BucketNum) + Passing(b, Iterations(b))
              /\ Before(Lens(Sizes), b - BucketNum + 1) = Before(Lens(Sizes), b - BucketNum) + Iterations(b)
              /\ Passing(b, 0) = 0
              /\ \A d \in 0 .. Iterations(b) : Passing(b, d) \in Nat
              /\ \A d \in 0 .. Iterations(b) - 1 :
                   /\ Passing(b, d + 1) = Passing(b, d) + Sizes[b - BucketNum][d + 1]
                   /\ Sizes[b - BucketNum][d + 1] \in Nat /\ Sizes[b - BucketNum][d + 1] > 0
<1>1. /\ BucketNum \in Nat /\ Len(range_order) \in Nat /\ BlockNum = BucketNum + Len(range_order)
      /\ Moved \in Seq(Seq(Column)) /\ Len(Moved) = Len(range_order)
      /\ Sizes \in Seq(Seq(Nat)) /\ Len(Sizes) = Len(range_order)
  BY LayoutIs
<1>2. ASSUME NEW b \in BucketNum + 1 .. BlockNum
      PROVE  /\ b - BucketNum \in 1 .. Len(range_order)
             /\ RangesAt(b) \in Seq(FT!ColumnRange) /\ Len(RangesAt(b)) \in Nat
             /\ Sizes[b - BucketNum] = Extents(RangesAt(b)) /\ Moved[b - BucketNum] = RangesColumns(RangesAt(b))
             /\ Len(Extents(RangesAt(b))) = Len(RangesAt(b))
             /\ \A j \in 1 .. Len(RangesAt(b)) : Extents(RangesAt(b))[j] \in Nat /\ Extents(RangesAt(b))[j] > 0
             /\ Len(RangesColumns(RangesAt(b))) = Before(Extents(RangesAt(b)), Len(RangesAt(b)) + 1)
  <2>1. /\ b - BucketNum \in 1 .. Len(range_order)
        /\ RangesAt(b) \in Seq(FT!ColumnRange) /\ Len(RangesAt(b)) \in Nat
        /\ Sizes[b - BucketNum] = Extents(RangesAt(b)) /\ Moved[b - BucketNum] = RangesColumns(RangesAt(b))
        /\ \A j \in 1 .. Len(RangesAt(b)) :
             /\ RangesAt(b)[j][1] < RangesAt(b)[j][2]
             /\ \A c \in RangesAt(b)[j][1] .. RangesAt(b)[j][2] - 1 : c \in Column
    BY LayoutIs
  <2> QED BY <2>1, RangesColumnsAt
<1>3. /\ DOMAIN Moved = 1 .. Len(range_order) /\ DOMAIN Sizes = 1 .. Len(range_order)
      /\ \A n \in 1 .. Len(range_order) : /\ Lens(Moved)[n] = Len(Moved[n]) /\ Len(Moved[n]) \in Nat
                                          /\ Lens(Sizes)[n] = Len(Sizes[n]) /\ Len(Sizes[n]) \in Nat
  <2>1. DOMAIN Moved = 1 .. Len(range_order) /\ DOMAIN Sizes = 1 .. Len(range_order)
    BY <1>1
  <2>2. \A n \in 1 .. Len(range_order) : Moved[n] \in Seq(Column) /\ Sizes[n] \in Seq(Nat)
    BY <1>1
  <2>3. \A n \in 1 .. Len(range_order) : Len(Moved[n]) \in Nat /\ Len(Sizes[n]) \in Nat
    BY <2>2
  <2> QED BY <2>1, <2>3 DEF Lens
<1>4. /\ Before(Lens(Moved), 1) = 0 /\ Before(Lens(Sizes), 1) = 0
      /\ \A n \in 1 .. Len(range_order) + 1 : Before(Lens(Moved), n) \in Nat /\ Before(Lens(Sizes), n) \in Nat
      /\ \A n \in 1 .. Len(range_order) :
           /\ Before(Lens(Moved), n + 1) = Before(Lens(Moved), n) + Len(Moved[n])
           /\ Before(Lens(Sizes), n + 1) = Before(Lens(Sizes), n) + Len(Sizes[n])
  <2>1. \A n \in 1 .. Len(range_order) : Lens(Moved)[n] \in Nat /\ Lens(Sizes)[n] \in Nat
    BY <1>3
  <2>2. /\ Before(Lens(Moved), 1) = 0
        /\ \A n \in 1 .. Len(range_order) + 1 : Before(Lens(Moved), n) \in Nat
        /\ \A n \in 1 .. Len(range_order) : Before(Lens(Moved), n + 1) = Before(Lens(Moved), n) + Lens(Moved)[n]
    BY <1>1, <2>1, BeforeSums
  <2>3. /\ Before(Lens(Sizes), 1) = 0
        /\ \A n \in 1 .. Len(range_order) + 1 : Before(Lens(Sizes), n) \in Nat
        /\ \A n \in 1 .. Len(range_order) : Before(Lens(Sizes), n + 1) = Before(Lens(Sizes), n) + Lens(Sizes)[n]
    BY <1>1, <2>1, BeforeSums
  <2> QED BY <1>3, <2>2, <2>3
<1>5. ASSUME NEW b \in BucketNum + 1 .. BlockNum
      PROVE  /\ Iterations(b) = Len(RangesAt(b))
             /\ ColumnsBefore(b) = KeptNum + Before(Lens(Moved), b - BucketNum)
             /\ RangesBefore(b) = Before(Lens(Sizes), b - BucketNum)
             /\ \A d : Passing(b, d) = Before(Extents(RangesAt(b)), d + 1)
  <2>1. ~ (b <= BucketNum) /\ b <= BlockNum
    BY <1>1
  <2>2. Sizes[b - BucketNum] = Extents(RangesAt(b))
    BY <1>2
  <2> QED BY <2>1, <2>2 DEF Iterations, ColumnsBefore, RangesBefore, Passing
<1>6. ASSUME NEW b \in BucketNum + 1 .. BlockNum
      PROVE  /\ Passing(b, 0) = 0
             /\ \A d \in 0 .. Iterations(b) : Passing(b, d) \in Nat
             /\ \A d \in 0 .. Iterations(b) - 1 :
                   /\ Passing(b, d + 1) = Passing(b, d) + Extents(RangesAt(b))[d + 1]
                   /\ Extents(RangesAt(b))[d + 1] \in Nat /\ Extents(RangesAt(b))[d + 1] > 0
  <2> DEFINE z == Extents(RangesAt(b))
             m == Len(RangesAt(b))
  <2>1. m \in Nat /\ \A j \in 1 .. m : z[j] \in Nat /\ z[j] > 0
    BY <1>2
  <2>2. Iterations(b) = m /\ \A d : Passing(b, d) = Before(z, d + 1)
    BY <1>5
  <2> HIDE DEF z, m
  <2>3. /\ Before(z, 1) = 0
        /\ \A j \in 1 .. m + 1 : Before(z, j) \in Nat
        /\ \A j \in 1 .. m : Before(z, j + 1) = Before(z, j) + z[j]
    BY <2>1, BeforeSums
  <2>4. \A d \in 0 .. m : d + 1 \in 1 .. m + 1
    BY <2>1
  <2>5. \A d \in 0 .. m - 1 : d + 1 \in 1 .. m /\ d + 1 + 1 = (d + 1) + 1
    BY <2>1
  <2>6. Passing(b, 0) = 0
    <3>1. 0 + 1 = 1
      OBVIOUS
    <3> QED BY <2>2, <2>3, <3>1
  <2>7. \A d \in 0 .. Iterations(b) : Passing(b, d) \in Nat
    BY <2>2, <2>3, <2>4
  <2>8. \A d \in 0 .. Iterations(b) - 1 :
           /\ Passing(b, d + 1) = Passing(b, d) + z[d + 1]
           /\ z[d + 1] \in Nat /\ z[d + 1] > 0
    BY <2>1, <2>2, <2>3, <2>5
  <2> QED BY <2>6, <2>7, <2>8 DEF z
<1>7. ASSUME NEW b \in BucketNum + 1 .. BlockNum
      PROVE  /\ Before(Lens(Moved), b - BucketNum + 1) = Before(Lens(Moved), b - BucketNum) + Passing(b, Iterations(b))
             /\ Before(Lens(Sizes), b - BucketNum + 1) = Before(Lens(Sizes), b - BucketNum) + Iterations(b)
  <2> DEFINE n == b - BucketNum
  <2>1. n \in 1 .. Len(range_order) /\ Sizes[n] = Extents(RangesAt(b)) /\ Moved[n] = RangesColumns(RangesAt(b))
    BY <1>2
  <2> HIDE DEF n
  <2>2. Len(Moved[n]) = Passing(b, Iterations(b)) /\ Len(Sizes[n]) = Iterations(b)
    BY <1>2, <1>5, <2>1
  <2>3. /\ Before(Lens(Moved), n + 1) = Before(Lens(Moved), n) + Passing(b, Iterations(b))
        /\ Before(Lens(Sizes), n + 1) = Before(Lens(Sizes), n) + Iterations(b)
    BY <1>4, <2>1, <2>2
  <2> QED BY <2>3 DEF n
<1>8. ASSUME NEW b \in BucketNum + 1 .. BlockNum
      PROVE  Iterations(b) \in Nat /\ Sizes[b - BucketNum] = Extents(RangesAt(b))
  BY <1>2, <1>5
<1> QED BY <1>4, <1>5, <1>6, <1>7, <1>8

(* Each loop begins where the one before it ends, the last one ends with   *)
(* the walk.                                                               *)
LEMMA PlacesAre ==
  ASSUME LayoutOK
  PROVE  /\ BlockNum \in Nat
         /\ ColumnsBefore(1) = 0 /\ RangesBefore(1) = 0
         /\ ColumnsBefore(BlockNum + 1) = Len(column_order)
         /\ Iterations(BlockNum + 1) = 0 /\ Passing(BlockNum + 1, 0) = 0
         /\ \A b \in 1 .. BlockNum :
              /\ Iterations(b) \in Nat
              /\ ColumnsBefore(b) \in Nat /\ RangesBefore(b) \in Nat
              /\ ColumnsBefore(b + 1) = ColumnsBefore(b) + Passing(b, Iterations(b))
              /\ RangesBefore(b + 1) = RangesBefore(b) + (IF b <= BucketNum THEN 0 ELSE Iterations(b))
              /\ Passing(b, 0) = 0
              /\ \A d \in 0 .. Iterations(b) : Passing(b, d) \in Nat
<1>1. /\ BucketNum \in Nat /\ Len(range_order) \in Nat /\ BlockNum = BucketNum + Len(range_order) /\ BlockNum \in Nat
      /\ Buckets \in Seq(Seq(Column)) /\ Len(Buckets) = BucketNum
      /\ Moved \in Seq(Seq(Column)) /\ Len(Moved) = Len(range_order)
  BY LayoutIs
<1>2. /\ Before(Lens(Buckets), 1) = 0 /\ KeptNum \in Nat
      /\ Before(Lens(Moved), 1) = 0 /\ Before(Lens(Sizes), 1) = 0
      /\ \A n \in 1 .. Len(range_order) + 1 : Before(Lens(Moved), n) \in Nat /\ Before(Lens(Sizes), n) \in Nat
  BY BucketPlaces, RangePlaces
<1>3. ASSUME NEW b \in BucketNum + 1 .. BlockNum + 1
      PROVE  /\ ColumnsBefore(b) = KeptNum + Before(Lens(Moved), b - BucketNum)
             /\ RangesBefore(b) = Before(Lens(Sizes), b - BucketNum)
  <2>1. ~ (b <= BucketNum)
    BY <1>1
  <2> QED BY <2>1 DEF ColumnsBefore, RangesBefore
<1>4. ColumnsBefore(BucketNum + 1) = KeptNum /\ RangesBefore(BucketNum + 1) = 0
  <2> DEFINE b == BucketNum + 1
  <2>1. b \in BucketNum + 1 .. BlockNum + 1 /\ b - BucketNum = 1
    BY <1>1
  <2> HIDE DEF b
  <2>2. ColumnsBefore(b) = KeptNum + 0 /\ RangesBefore(b) = 0
    BY <1>2, <1>3, <2>1
  <2> QED BY <1>2, <2>2 DEF b
<1>5. ColumnsBefore(1) = 0 /\ RangesBefore(1) = 0
  <2>1. CASE BucketNum = 0
    <3>1. KeptNum = 0
      BY <1>2, <2>1 DEF KeptNum
    <3> QED BY <1>4, <2>1, <3>1
  <2>2. CASE BucketNum # 0
    <3>1. 1 \in 1 .. BucketNum
      BY <1>1, <2>2
    <3> QED BY <1>2, <3>1, BucketPlaces
  <2> QED BY <2>1, <2>2
<1>6. ColumnsBefore(BlockNum + 1) = Len(column_order)
  <2>1. Len(FlattenSeq(Buckets)) = KeptNum /\ FlattenSeq(Buckets) \in Seq(Column)
    BY <1>1, FlattenAt DEF KeptNum
  <2>2. Len(FlattenSeq(Moved)) = Before(Lens(Moved), Len(range_order) + 1) /\ FlattenSeq(Moved) \in Seq(Column)
    BY <1>1, FlattenAt
  <2>3. Len(column_order) = KeptNum + Before(Lens(Moved), Len(range_order) + 1)
    BY <2>1, <2>2, ConcatProperties DEF LayoutOK
  <2>4. BlockNum + 1 \in BucketNum + 1 .. BlockNum + 1 /\ (BlockNum + 1) - BucketNum = Len(range_order) + 1
    BY <1>1
  <2>5. ColumnsBefore(BlockNum + 1) = KeptNum + Before(Lens(Moved), (BlockNum + 1) - BucketNum)
    BY <1>3, <2>4
  <2> QED BY ONLY <2>3, <2>4, <2>5
<1>7. Iterations(BlockNum + 1) = 0 /\ Passing(BlockNum + 1, 0) = 0
  <2>1. ~ (BlockNum + 1 <= BucketNum) /\ ~ (BlockNum + 1 <= BlockNum)
    BY <1>1
  <2> QED BY <2>1 DEF Iterations, Passing
<1>8. ASSUME NEW b \in 1 .. BlockNum, b <= BucketNum
      PROVE  /\ Iterations(b) \in Nat
             /\ ColumnsBefore(b) \in Nat /\ RangesBefore(b) \in Nat
             /\ ColumnsBefore(b + 1) = ColumnsBefore(b) + Passing(b, Iterations(b))
             /\ RangesBefore(b + 1) = RangesBefore(b)
             /\ Passing(b, 0) = 0
             /\ \A d \in 0 .. Iterations(b) : Passing(b, d) \in Nat
  <2>1. b \in 1 .. BucketNum
    BY <1>1, <1>8
  <2>2. /\ Iterations(b) \in Nat
        /\ ColumnsBefore(b) \in Nat
        /\ ColumnsBefore(b) + Iterations(b) = Before(Lens(Buckets), b + 1)
        /\ RangesBefore(b) = 0
        /\ \A d : Passing(b, d) = d
    BY <2>1, BucketPlaces
  <2>3. ColumnsBefore(b + 1) = Before(Lens(Buckets), b + 1) /\ RangesBefore(b + 1) = 0
    <3>1. CASE b = BucketNum
      BY <1>4, <3>1 DEF KeptNum
    <3>2. CASE b # BucketNum
      <4>1. b + 1 \in 1 .. BucketNum
        BY <1>1, <2>1, <3>2
      <4> QED BY <4>1, BucketPlaces
    <3> QED BY <3>1, <3>2
  <2>4. \A d \in 0 .. Iterations(b) : d \in Nat
    BY <2>2
  <2> QED BY <2>2, <2>3, <2>4
<1>9. ASSUME NEW b \in 1 .. BlockNum, ~ (b <= BucketNum)
      PROVE  /\ Iterations(b) \in Nat
             /\ ColumnsBefore(b) \in Nat /\ RangesBefore(b) \in Nat
             /\ ColumnsBefore(b + 1) = ColumnsBefore(b) + Passing(b, Iterations(b))
             /\ RangesBefore(b + 1) = RangesBefore(b) + Iterations(b)
             /\ Passing(b, 0) = 0
             /\ \A d \in 0 .. Iterations(b) : Passing(b, d) \in Nat
  <2> DEFINE n == b - BucketNum
  <2>1. /\ b \in BucketNum + 1 .. BlockNum /\ b + 1 \in BucketNum + 1 .. BlockNum + 1 /\ (b + 1) - BucketNum = n + 1
        /\ n \in 1 .. Len(range_order) + 1
    BY <1>1, <1>9
  <2>2. /\ Iterations(b) \in Nat
        /\ ColumnsBefore(b) = KeptNum + Before(Lens(Moved), n)
        /\ RangesBefore(b) = Before(Lens(Sizes), n)
        /\ Before(Lens(Moved), n + 1) = Before(Lens(Moved), n) + Passing(b, Iterations(b))
        /\ Before(Lens(Sizes), n + 1) = Before(Lens(Sizes), n) + Iterations(b)
        /\ Passing(b, 0) = 0
        /\ \A d \in 0 .. Iterations(b) : Passing(b, d) \in Nat
    BY <2>1, RangePlaces
  <2> DEFINE e == b + 1
  <2>a. e \in BucketNum + 1 .. BlockNum + 1 /\ e - BucketNum = n + 1
    BY <2>1
  <2> HIDE DEF n, e
  <2>b. ColumnsBefore(e) = KeptNum + Before(Lens(Moved), n + 1) /\ RangesBefore(e) = Before(Lens(Sizes), n + 1)
    BY <1>3, <2>a
  <2>3. ColumnsBefore(b + 1) = KeptNum + Before(Lens(Moved), n + 1) /\ RangesBefore(b + 1) = Before(Lens(Sizes), n + 1)
    BY <2>b DEF e
  <2>4. Before(Lens(Moved), n) \in Nat /\ Before(Lens(Sizes), n) \in Nat
    BY <1>2, <2>1
  <2>5. Passing(b, Iterations(b)) \in Nat
    <3>1. Iterations(b) \in 0 .. Iterations(b)
      BY <2>2
    <3> QED BY <2>2, <3>1
  <2> QED BY <1>2, <2>2, <2>3, <2>4, <2>5
<1> QED BY <1>1, <1>5, <1>6, <1>7, <1>8, <1>9

(* The size of a range is where the code that has begun all ranges before  *)
(* it looks for it.                                                        *)
LEMMA RangeNumAt ==
  ASSUME LayoutOK, NEW b \in BucketNum + 1 .. BlockNum, NEW d \in 0 .. Iterations(b) - 1
  PROVE  /\ RangesBefore(b) + d + 1 \in 1 .. Len(FlattenSeq(Sizes))
         /\ FlattenSeq(Sizes)[RangesBefore(b) + d + 1] = Sizes[b - BucketNum][d + 1]
         /\ FlattenSeq(Sizes) \in Seq(Nat)
         /\ RangesBefore(b) \in Nat
<1> DEFINE n == b - BucketNum
<1>1. /\ n \in 1 .. Len(range_order) /\ Sizes \in Seq(Seq(Nat)) /\ Len(Sizes) = Len(range_order)
      /\ RangesAt(b) \in Seq(FT!ColumnRange) /\ Sizes[n] = Extents(RangesAt(b))
      /\ \A j \in 1 .. Len(RangesAt(b)) :
           /\ RangesAt(b)[j][1] < RangesAt(b)[j][2]
           /\ \A c \in RangesAt(b)[j][1] .. RangesAt(b)[j][2] - 1 : c \in Column
      /\ Len(range_order) \in Nat
  BY LayoutIs
<1>2. Iterations(b) = Len(RangesAt(b)) /\ RangesBefore(b) = Before(Lens(Sizes), n)
      /\ \A m \in 1 .. Len(range_order) + 1 : Before(Lens(Sizes), m) \in Nat
  BY RangePlaces
<1> HIDE DEF n
<1>3. Len(Sizes[n]) = Iterations(b)
  BY <1>1, <1>2, RangesColumnsAt
<1>4. Iterations(b) \in Int /\ RangesBefore(b) \in Nat
  <2>1. n \in 1 .. Len(range_order) + 1
    BY <1>1
  <2>2. Len(RangesAt(b)) \in Nat
    BY <1>1
  <2> QED BY <1>2, <2>1, <2>2
<1>5. d + 1 \in 1 .. Len(Sizes[n]) /\ RangesBefore(b) + (d + 1) = RangesBefore(b) + d + 1
  <2>1. RangesBefore(b) \in Int
    BY <1>4
  <2> QED BY <1>3, <1>4, <2>1, InPart
<1>6. /\ FlattenSeq(Sizes) \in Seq(Nat)
      /\ \A m \in 1 .. Len(Sizes) : \A j \in 1 .. Len(Sizes[m]) :
              /\ Before(Lens(Sizes), m) + j \in 1 .. Len(FlattenSeq(Sizes))
              /\ FlattenSeq(Sizes)[Before(Lens(Sizes), m) + j] = Sizes[m][j]
  BY <1>1, FlattenAt
<1>7. /\ RangesBefore(b) + (d + 1) \in 1 .. Len(FlattenSeq(Sizes))
      /\ FlattenSeq(Sizes)[RangesBefore(b) + (d + 1)] = Sizes[n][d + 1]
  BY <1>1, <1>2, <1>5, <1>6
<1> QED BY <1>4, <1>5, <1>6, <1>7 DEF n

-----------------------------------------------------------------------------
(* The steps.                                                              *)

(* The plan is not changed after the walks have been fixed.                *)
LEMMA PlanFrame ==
  ASSUME UNCHANGED <<feature, same_feature_map, same_feature_range_map, gather_info, scatter_info, reduction_info,
                     bucket_order, range_order, column_order, scatter_order>>
  PROVE  /\ LayoutOK' = LayoutOK
         /\ BucketNum' = BucketNum /\ BlockNum' = BlockNum /\ Sizes' = Sizes /\ KeptNum' = KeptNum
         /\ \A b : /\ Iterations(b)' = Iterations(b) /\ ColumnsBefore(b)' = ColumnsBefore(b)
                   /\ RangesBefore(b)' = RangesBefore(b) /\ CodeOf(b)' = CodeOf(b)
         /\ \A b, d : Passing(b, d)' = Passing(b, d)
<1>1. BucketNum' = BucketNum /\ BlockNum' = BlockNum /\ Sizes' = Sizes /\ Buckets' = Buckets /\ Moved' = Moved
      /\ Firsts' = Firsts
  BY DEF BucketNum, BlockNum, Sizes, Buckets, Moved, Firsts, Extents, Beginnings
<1>2. Lens(Buckets)' = Lens(Buckets) /\ Lens(Moved)' = Lens(Moved) /\ Lens(Sizes)' = Lens(Sizes)
  BY <1>1 DEF Lens
<1>3. KeptNum' = KeptNum
  BY <1>1, <1>2 DEF KeptNum
<1>4. \A b : BucketAt(b)' = BucketAt(b) /\ RangesAt(b)' = RangesAt(b) /\ KeyAt(b)' = KeyAt(b)
  BY <1>1 DEF BucketAt, RangesAt, KeyAt
<1>5. \A c : FT!KeyOf(c)' = FT!KeyOf(c)
  BY DEF FT!KeyOf
<1>6. LayoutOK' = LayoutOK
  BY <1>1, <1>4, <1>5 DEF LayoutOK
<1>7. \A b : /\ Iterations(b)' = Iterations(b) /\ ColumnsBefore(b)' = ColumnsBefore(b)
             /\ RangesBefore(b)' = RangesBefore(b)
  BY <1>1, <1>2, <1>3, <1>4 DEF Iterations, ColumnsBefore, RangesBefore
<1>8. \A b, d : Passing(b, d)' = Passing(b, d)
  BY <1>1 DEF Passing
<1>9. \A b : CodeOf(b)' = CodeOf(b)
  <2>1. \A k : FirstColumn(k)' = FirstColumn(k) /\ CircleNum(k)' = CircleNum(k)
    BY DEF FirstColumn, CircleNum, Table!KeyOf
  <2> QED BY <1>1, <1>4, <2>1 DEF CodeOf, LoopOf, Run!Loop
<1> QED BY <1>1, <1>3, <1>6, <1>7, <1>8, <1>9

(* The loop that runs.                                                     *)
LEMMA LoopIs ==
  ASSUME LayoutOK, CodeOK, Len(code) = BlockNum, NEW b \in 1 .. BlockNum
  PROVE  /\ b <= BucketNum => code[b].ranges = FALSE
         /\ ~ (b <= BucketNum) => code[b].ranges = TRUE
         /\ code[b].circle_num = Iterations(b)
<1>1. code[b] = CodeOf(b) /\ BucketNum \in Nat
  BY LayoutIs DEF CodeOK
<1>2. CASE b <= BucketNum
  <2>1. CodeOf(b).ranges = FALSE /\ CodeOf(b).circle_num = CircleNum(bucket_order[b])
    BY <1>2 DEF CodeOf, LoopOf, Run!Loop
  <2>2. Iterations(b) = CircleNum(bucket_order[b])
    BY <1>2 DEF Iterations, BucketAt, CircleNum
  <2> QED BY <1>1, <1>2, <2>1, <2>2
<1>3. CASE ~ (b <= BucketNum)
  <2>1. CodeOf(b).ranges = TRUE /\ CodeOf(b).circle_num = Len(RangesAt(b))
    BY <1>3 DEF CodeOf, LoopOf, Run!Loop
  <2>2. Iterations(b) = Len(RangesAt(b))
    BY <1>3 DEF Iterations
  <2> QED BY <1>1, <1>3, <2>1, <2>2
<1> QED BY <1>2, <1>3

(* What is behind the first loops of the plan.                             *)
Frame ==
  UNCHANGED <<feature, same_feature_map, same_feature_range_map, gather_info, scatter_info, reduction_info,
              bucket_order, range_order, column_order, scatter_order>>

(* An iteration of a bucket's loop.                                        *)
LEMMA RunColumnPlace ==
  ASSUME LayoutOK, CodeOK, Len(code) = BlockNum, PlaceOK, Frame, Run!RunColumn
  PROVE  PlaceOK'
<1>1. BlockNum \in Nat /\ BucketNum \in Nat
  BY LayoutIs, PlacesAre
<1>2. /\ block \in 1 .. BlockNum + 1 /\ block <= Len(code) /\ ~ InRange /\ inner' = inner
      /\ code[block].ranges = FALSE /\ done_iters < code[block].circle_num
      /\ done_iters' = done_iters + 1 /\ executed' = executed + 1 /\ tail' = tail /\ tail \in Nat
      /\ block' = block /\ range_pointer' = range_pointer /\ done_iters \in 0 .. Iterations(block)
      /\ executed = ColumnsBefore(block) + Passing(block, done_iters) + 0
      /\ range_pointer = RangesBefore(block) + (IF block <= BucketNum THEN 0 ELSE done_iters + 0)
  BY DEF Run!RunColumn, Run!InLoop, Run!Current, InRange, PlaceOK
<1>3. block \in 1 .. BucketNum /\ done_iters < Iterations(block)
  <2>1. block \in 1 .. BlockNum
    BY <1>1, <1>2
  <2>2. block <= BucketNum
    BY <1>2, <2>1, LoopIs
  <2>3. code[block].circle_num = Iterations(block)
    BY <2>1, LoopIs
  <2>4. block \in 1 .. BucketNum
    BY <1>1, <2>1, <2>2
  <2> QED BY <1>2, <2>3, <2>4
<1>4. /\ Iterations(block) \in Nat /\ ColumnsBefore(block) \in Nat
      /\ Passing(block, done_iters) = done_iters /\ Passing(block, done_iters + 1) = done_iters + 1
  BY <1>3, BucketPlaces
<1>5. done_iters + 1 \in 0 .. Iterations(block) /\ executed + 1 = ColumnsBefore(block) + Passing(block, done_iters + 1) + 0
  BY <1>2, <1>3, <1>4
<1>6. /\ Iterations(block)' = Iterations(block) /\ ColumnsBefore(block)' = ColumnsBefore(block)
      /\ RangesBefore(block)' = RangesBefore(block) /\ BucketNum' = BucketNum /\ BlockNum' = BlockNum
      /\ Passing(block, done_iters)' = Passing(block, done_iters + 1)
  BY <1>2, PlanFrame DEF Frame
<1>7. InRange' = FALSE
  BY <1>2 DEF InRange, Run!NoRange
<1> QED BY <1>2, <1>3, <1>5, <1>6, <1>7 DEF PlaceOK

(* A range begins: its size is the next one.                               *)
LEMMA BeginRangePlace ==
  ASSUME LayoutOK, CodeOK, Len(code) = BlockNum, range_num = FlattenSeq(Sizes), PlaceOK, Frame, Run!BeginRange
  PROVE  PlaceOK'
<1>1. BlockNum \in Nat /\ BucketNum \in Nat
  BY LayoutIs, PlacesAre
<1>2. /\ block \in 1 .. BlockNum + 1 /\ block <= Len(code) /\ ~ InRange
      /\ code[block].ranges = TRUE /\ done_iters < code[block].circle_num
      /\ done_iters' = done_iters /\ executed' = executed /\ tail' = tail /\ tail \in Nat
      /\ block' = block /\ range_pointer' = range_pointer + 1 /\ done_iters \in 0 .. Iterations(block)
      /\ executed = ColumnsBefore(block) + Passing(block, done_iters) + 0
      /\ range_pointer = RangesBefore(block) + (IF block <= BucketNum THEN 0 ELSE done_iters + 0)
  BY DEF Run!BeginRange, Run!InLoop, Run!Current, InRange, PlaceOK
<1>3. block \in BucketNum + 1 .. BlockNum /\ done_iters < Iterations(block) /\ ~ (block <= BucketNum)
  <2>1. block \in 1 .. BlockNum
    BY <1>1, <1>2
  <2>2. ~ (block <= BucketNum)
    BY <1>2, <2>1, LoopIs
  <2>3. code[block].circle_num = Iterations(block)
    BY <2>1, LoopIs
  <2>4. block \in BucketNum + 1 .. BlockNum
    BY <1>1, <2>1, <2>2
  <2> QED BY <1>2, <2>2, <2>3, <2>4
<1>4. /\ Iterations(block) \in Nat /\ done_iters \in 0 .. Iterations(block) - 1
      /\ Sizes[block - BucketNum][done_iters + 1] \in Nat /\ RangesBefore(block) \in Nat
      /\ ColumnsBefore(block) \in Nat /\ Passing(block, done_iters) \in Nat
  <2>1. Iterations(block) \in Nat
    BY <1>3, RangePlaces
  <2>2. done_iters \in 0 .. Iterations(block) - 1
    BY <1>2, <1>3, <2>1
  <2>3. block \in 1 .. BlockNum
    BY <1>1, <1>3
  <2> QED BY <1>2, <1>3, <2>1, <2>2, <2>3, RangePlaces, PlacesAre
<1>5. Run!At(range_num, range_pointer + 1) = Sizes[block - BucketNum][done_iters + 1]
  <2>1. range_pointer + 1 = RangesBefore(block) + done_iters + 1
    BY <1>2, <1>3, <1>4
  <2> DEFINE p == RangesBefore(block) + done_iters + 1
  <2>2. p \in 1 .. Len(FlattenSeq(Sizes)) /\ FlattenSeq(Sizes)[p] = Sizes[block - BucketNum][done_iters + 1]
    BY <1>3, <1>4, RangeNumAt
  <2> HIDE DEF p
  <2>3. range_pointer + 1 = p
    BY <2>1 DEF p
  <2> QED BY <2>2, <2>3 DEF Run!At
<1>6. /\ inner' # Run!NoRange /\ {"size", "taken"} \subseteq DOMAIN inner'
      /\ inner'.size = Sizes[block - BucketNum][done_iters + 1] /\ inner'.taken = 0
  <2>1. inner' = [size |-> Run!At(range_num, range_pointer + 1), taken |-> 0,
                  reduce_var |-> Run!ZeroLanes, entry |-> Run!ScatterEntry, loaded |-> Run!Loaded(Run!ScatterEntry)]
    BY DEF Run!BeginRange
  <2>2. inner'.taken = 0 /\ inner'.size = Run!At(range_num, range_pointer + 1) /\ {"size", "taken"} \subseteq DOMAIN inner'
    BY <2>1
  <2>3. "taken" \notin DOMAIN Run!NoRange
    BY DEF Run!NoRange
  <2> QED BY <1>5, <2>2, <2>3
<1>7. /\ Iterations(block)' = Iterations(block) /\ ColumnsBefore(block)' = ColumnsBefore(block)
      /\ RangesBefore(block)' = RangesBefore(block) /\ BucketNum' = BucketNum /\ BlockNum' = BlockNum
      /\ Passing(block, done_iters)' = Passing(block, done_iters) /\ Sizes' = Sizes
  BY <1>2, PlanFrame DEF Frame
<1>8. InRange' = TRUE
  BY <1>6 DEF InRange, Run!NoRange
<1>9. /\ executed = ColumnsBefore(block) + Passing(block, done_iters) + 0
      /\ range_pointer + 1 = RangesBefore(block) + (done_iters + 1)
      /\ 0 \in 0 .. Sizes[block - BucketNum][done_iters + 1]
  BY <1>2, <1>3, <1>4
<1> DEFINE s == Sizes[block - BucketNum][done_iters + 1]
<1>10. inner'.size = s /\ s = (Sizes[block - BucketNum][done_iters + 1])' /\ inner'.taken \in 0 .. s
  BY <1>2, <1>6, <1>7, <1>9
<1> HIDE DEF s
<1> QED BY <1>2, <1>3, <1>6, <1>7, <1>8, <1>9, <1>10 DEF PlaceOK

(* A column of it.                                                         *)
LEMMA RunRangeColumnPlace ==
  ASSUME LayoutOK, PlaceOK, Frame, Run!RunRangeColumn
  PROVE  PlaceOK'
<1>1. BlockNum \in Nat /\ BucketNum \in Nat
  BY LayoutIs, PlacesAre
<1>2. /\ block \in BucketNum + 1 .. BlockNum /\ InRange /\ inner.taken < inner.size
      /\ {"size", "taken"} \subseteq DOMAIN inner /\ inner.taken \in 0 .. inner.size
      /\ inner' = [inner EXCEPT !.taken = @ + 1, !.reduce_var = Run!AddLanes(@, Run!Products)]
      /\ done_iters' = done_iters /\ executed' = executed + 1 /\ tail' = tail /\ tail \in Nat
      /\ block' = block /\ range_pointer' = range_pointer /\ done_iters \in 0 .. Iterations(block)
      /\ executed = ColumnsBefore(block) + Passing(block, done_iters) + inner.taken
      /\ inner.size = Sizes[block - BucketNum][done_iters + 1] /\ done_iters < Iterations(block)
      /\ block \in 1 .. BlockNum + 1
  BY DEF Run!RunRangeColumn, InRange, PlaceOK
<1>3. /\ Iterations(block) \in Nat /\ done_iters \in 0 .. Iterations(block) - 1 /\ inner.size \in Nat
      /\ ColumnsBefore(block) \in Nat /\ Passing(block, done_iters) \in Nat
  <2>1. Iterations(block) \in Nat
    BY <1>2, RangePlaces
  <2>2. done_iters \in 0 .. Iterations(block) - 1
    BY <1>2, <2>1
  <2>3. block \in 1 .. BlockNum
    BY <1>1, <1>2
  <2> QED BY <1>2, <2>1, <2>2, <2>3, RangePlaces, PlacesAre
<1>4. /\ inner' # Run!NoRange /\ {"size", "taken"} \subseteq DOMAIN inner'
      /\ inner'.size = inner.size /\ inner'.taken = inner.taken + 1
  <2>1. inner'.taken = inner.taken + 1 /\ inner'.size = inner.size /\ {"size", "taken"} \subseteq DOMAIN inner'
    BY <1>2
  <2>2. "taken" \notin DOMAIN Run!NoRange
    BY DEF Run!NoRange
  <2> QED BY <2>1, <2>2
<1>5. /\ Iterations(block)' = Iterations(block) /\ ColumnsBefore(block)' = ColumnsBefore(block)
      /\ RangesBefore(block)' = RangesBefore(block) /\ BucketNum' = BucketNum /\ BlockNum' = BlockNum
      /\ Passing(block, done_iters)' = Passing(block, done_iters) /\ Sizes' = Sizes
  BY <1>2, PlanFrame DEF Frame
<1>6. InRange' = TRUE /\ InRange = TRUE
  BY <1>2, <1>4 DEF InRange, Run!NoRange
<1>7. /\ executed + 1 = ColumnsBefore(block) + Passing(block, done_iters) + (inner.taken + 1)
      /\ inner.taken + 1 \in 0 .. inner.size
  BY <1>2, <1>3
<1>8. range_pointer = RangesBefore(block) + (IF block <= BucketNum THEN 0 ELSE done_iters + 1)
  BY <1>2 DEF PlaceOK
<1> DEFINE s == Sizes[block - BucketNum][done_iters + 1]
<1>10. inner'.size = s /\ s = (Sizes[block - BucketNum][done_iters + 1])' /\ inner'.taken \in 0 .. inner'.size
  BY <1>2, <1>4, <1>5, <1>7
<1> HIDE DEF s
<1> QED BY <1>2, <1>4, <1>5, <1>6, <1>7, <1>8, <1>10 DEF PlaceOK

(* The range is over.                                                      *)
LEMMA EndRangePlace ==
  ASSUME LayoutOK, PlaceOK, Frame, Run!EndRange
  PROVE  PlaceOK'
<1>1. BlockNum \in Nat /\ BucketNum \in Nat
  BY LayoutIs, PlacesAre
<1>2. /\ block \in BucketNum + 1 .. BlockNum /\ InRange /\ inner.taken >= inner.size
      /\ inner.taken \in 0 .. inner.size /\ inner' = Run!NoRange
      /\ done_iters' = done_iters + 1 /\ executed' = executed /\ tail' = tail /\ tail \in Nat
      /\ block' = block /\ range_pointer' = range_pointer /\ done_iters \in 0 .. Iterations(block)
      /\ executed = ColumnsBefore(block) + Passing(block, done_iters) + inner.taken
      /\ inner.size = Sizes[block - BucketNum][done_iters + 1] /\ done_iters < Iterations(block)
      /\ block \in 1 .. BlockNum + 1
  BY DEF Run!EndRange, InRange, PlaceOK
<1>3. /\ Iterations(block) \in Nat /\ done_iters \in 0 .. Iterations(block) - 1 /\ inner.size \in Nat
      /\ ColumnsBefore(block) \in Nat /\ Passing(block, done_iters) \in Nat
      /\ Passing(block, done_iters + 1) = Passing(block, done_iters) + inner.size
  <2>1. Iterations(block) \in Nat
    BY <1>2, RangePlaces
  <2>2. done_iters \in 0 .. Iterations(block) - 1
    BY <1>2, <2>1
  <2>3. block \in 1 .. BlockNum
    BY <1>1, <1>2
  <2> QED BY <1>2, <2>1, <2>2, <2>3, RangePlaces, PlacesAre
<1>5. /\ Iterations(block)' = Iterations(block) /\ ColumnsBefore(block)' = ColumnsBefore(block)
      /\ RangesBefore(block)' = RangesBefore(block) /\ BucketNum' = BucketNum /\ BlockNum' = BlockNum
      /\ Passing(block, done_iters)' = Passing(block, done_iters + 1)
  BY <1>2, PlanFrame DEF Frame
<1>6. InRange' = FALSE
  BY <1>2 DEF InRange, Run!NoRange
<1>7. /\ executed = ColumnsBefore(block) + Passing(block, done_iters + 1) + 0
      /\ done_iters + 1 \in 0 .. Iterations(block)
  <2>1. inner.taken = inner.size
    BY <1>2, <1>3
  <2> QED BY <1>2, <1>3, <2>1
<1>8. /\ range_pointer = RangesBefore(block) + (IF block <= BucketNum THEN 0 ELSE done_iters + 1)
      /\ done_iters + 1 = (done_iters + 1) + 0
  BY <1>2, <1>3 DEF PlaceOK
<1> QED BY <1>2, <1>5, <1>6, <1>7, <1>8 DEF PlaceOK

(* The next loop.                                                          *)
LEMMA NextLoopPlace ==
  ASSUME LayoutOK, CodeOK, Len(code) = BlockNum, PlaceOK, Frame, Run!NextLoop
  PROVE  PlaceOK'
<1>1. BlockNum \in Nat /\ BucketNum \in Nat
  BY LayoutIs, PlacesAre
<1>2. /\ block \in 1 .. BlockNum + 1 /\ block <= Len(code) /\ done_iters >= code[block].circle_num
      /\ done_iters' = 0 /\ executed' = executed /\ tail' = tail /\ tail \in Nat /\ inner' = inner
      /\ block' = block + 1 /\ range_pointer' = range_pointer /\ done_iters \in 0 .. Iterations(block)
      /\ InRange => done_iters < Iterations(block)
  BY DEF Run!NextLoop, Run!Current, PlaceOK
<1>3. block \in 1 .. BlockNum /\ block + 1 \in 1 .. BlockNum + 1
  BY <1>1, <1>2
<1>4. /\ Iterations(block) \in Nat /\ ColumnsBefore(block) \in Nat /\ RangesBefore(block) \in Nat
      /\ ColumnsBefore(block + 1) = ColumnsBefore(block) + Passing(block, Iterations(block))
      /\ RangesBefore(block + 1) = RangesBefore(block) + (IF block <= BucketNum THEN 0 ELSE Iterations(block))
      /\ Iterations(block) \in 0 .. Iterations(block) => Passing(block, Iterations(block)) \in Nat
  BY <1>3, PlacesAre
<1>5. done_iters = Iterations(block) /\ ~ InRange
  <2>1. code[block].circle_num = Iterations(block)
    BY <1>3, LoopIs
  <2> QED BY <1>2, <1>4, <2>1
<1>6. /\ executed = ColumnsBefore(block) + Passing(block, done_iters) + 0
      /\ range_pointer = RangesBefore(block) + (IF block <= BucketNum THEN 0 ELSE done_iters + 0)
  BY <1>5 DEF PlaceOK
<1>7. executed = ColumnsBefore(block + 1) /\ range_pointer = RangesBefore(block + 1)
      /\ ColumnsBefore(block + 1) \in Nat /\ RangesBefore(block + 1) \in Nat
  <2>1. Passing(block, done_iters) \in Nat
    BY <1>4, <1>5
  <2> QED BY <1>4, <1>5, <1>6, <2>1
<1>8. Iterations(block + 1) \in Nat /\ Passing(block + 1, 0) = 0
  <2>1. CASE block + 1 = BlockNum + 1
    BY <2>1, PlacesAre
  <2>2. CASE block + 1 # BlockNum + 1
    <3> DEFINE b == block + 1
    <3>1. b \in 1 .. BlockNum
      BY <1>1, <1>3, <2>2
    <3> HIDE DEF b
    <3>2. Iterations(b) \in Nat /\ Passing(b, 0) = 0
      BY <3>1, PlacesAre
    <3> QED BY <3>2 DEF b
  <2> QED BY <2>1, <2>2
<1> DEFINE b == block + 1
<1>9. /\ block' = b /\ b \in 1 .. BlockNum + 1 /\ executed = ColumnsBefore(b) /\ range_pointer = RangesBefore(b)
      /\ Iterations(b) \in Nat /\ Passing(b, 0) = 0 /\ ColumnsBefore(b) \in Nat /\ RangesBefore(b) \in Nat
  BY <1>2, <1>3, <1>7, <1>8
<1> HIDE DEF b
<1>10. /\ Iterations(block)' = Iterations(b) /\ ColumnsBefore(block)' = ColumnsBefore(b)
       /\ RangesBefore(block)' = RangesBefore(b) /\ BucketNum' = BucketNum /\ BlockNum' = BlockNum
       /\ Passing(block, done_iters)' = Passing(b, 0)
  BY <1>2, <1>9, PlanFrame DEF Frame
<1>11. InRange' = FALSE
  BY <1>2, <1>5 DEF InRange, Run!NoRange
<1>12. /\ executed = ColumnsBefore(b) + Passing(b, 0) + 0 /\ 0 \in 0 .. Iterations(b)
       /\ range_pointer = RangesBefore(b) + 0 /\ 0 + 0 = 0
  BY <1>9
<1> QED BY <1>2, <1>9, <1>10, <1>11, <1>12 DEF PlaceOK

(* The scalar loop.                                                        *)
LEMMA RunScalarPlace ==
  ASSUME PlaceOK, Frame, Run!RunScalar
  PROVE  PlaceOK'
<1>1. /\ UNCHANGED <<block, done_iters, executed, range_pointer, inner>> /\ tail' = tail + 1
      /\ tail \in Nat
  BY DEF Run!RunScalar, PlaceOK
<1>2. /\ Iterations(block)' = Iterations(block) /\ ColumnsBefore(block)' = ColumnsBefore(block)
      /\ RangesBefore(block)' = RangesBefore(block) /\ BucketNum' = BucketNum /\ BlockNum' = BlockNum
      /\ Passing(block, done_iters)' = Passing(block, done_iters) /\ Sizes' = Sizes
  BY <1>1, PlanFrame DEF Frame
<1>3. InRange' = InRange /\ tail + 1 \in Nat
  BY <1>1 DEF InRange, Run!NoRange
<1> QED BY <1>1, <1>2, <1>3 DEF PlaceOK

-----------------------------------------------------------------------------
(* PlanInv, phase by phase.                                                *)

(* The walks are fixed, over a table that is done.                         *)
LEMMA LayoutMade ==
  ASSUME NoKeyIsNoHash, FT!IInv, table_pc = "done", IsFiniteSet(DOMAIN same_feature_map), FixMapOrder,
         bucket_order = <<>>, range_order = <<>>
  PROVE  LayoutOK'
<1>1. /\ bucket_order' \in SetToSeqs(DOMAIN same_feature_map)
      /\ range_order'  \in SetToSeqs(DOMAIN same_feature_range_map)
      /\ UNCHANGED <<feature, same_feature_map, same_feature_range_map>>
  BY FirstWalk DEF FixMapOrder, table
<1>2. /\ DOMAIN same_feature_range_map \subseteq DOMAIN same_feature_map
      /\ \A k \in DOMAIN same_feature_map :
           /\ same_feature_map[k] \in Seq(Column)
           /\ \A i \in 1 .. Len(same_feature_map[k]) : FT!KeyOf(same_feature_map[k][i]) = k
  BY FT!TableDone, TableAssumed DEF FT!Column, Column
<1>3. ASSUME NEW k \in DOMAIN same_feature_range_map
      PROVE  /\ same_feature_range_map[k] \in Seq(FT!ColumnRange) /\ same_feature_range_map[k] # <<>>
             /\ \A j \in 1 .. Len(same_feature_range_map[k]) :
                  /\ same_feature_range_map[k][j][1] < same_feature_range_map[k][j][2]
                  /\ \A c \in same_feature_range_map[k][j][1] .. same_feature_range_map[k][j][2] - 1 :
                       c \in Column /\ FT!KeyOf(c) = k
  <2> DEFINE rs == same_feature_range_map[k]
  <2>1. rs \in Seq(FT!ColumnRange) /\ rs # <<>> /\ FT!Ranges(k) = rs
    <3>1. k # scanned
      BY <1>2 DEF FT!IInv, FT!TableTypeOK, FT!PhaseOK
    <3> QED BY <3>1 DEF FT!IInv, FT!TableTypeOK, FT!Ranges
  <2>2. ASSUME NEW j \in 1 .. Len(rs)
        PROVE  rs[j][1] + 1 < rs[j][2] /\ rs[j][1] \in Int /\ rs[j][2] \in Int
    <3>1. k \in DOMAIN same_feature_map /\ j \in 1 .. Len(FT!Ranges(k)) /\ FT!Ranges(k)[j] = rs[j]
      BY <1>2, <2>1
    <3>2. rs[j][1] + 1 < rs[j][2]
      <4> HIDE DEF rs
      <4> QED BY <3>1 DEF FT!IInv, FT!RangesOK
    <3>3. rs[j] \in FT!ColumnRange
      <4> HIDE DEF rs
      <4> QED BY <2>1
    <3>4. rs[j][1] \in FT!Column /\ rs[j][2] \in 1 .. TableColumnNum
      <4> HIDE DEF rs
      <4> QED BY <3>3 DEF FT!ColumnRange
    <3> HIDE DEF rs
    <3> QED BY <3>2, <3>4, ColumnsOfTable DEF FT!Column
  <2>3. \A i \in 1 .. Len(rs) : \A c \in Int : FT!Covers(rs[i], c) => c \in Column /\ FT!KeyOf(c) = k
    BY FT!TableDone, TableAssumed DEF FT!Column, Column
  <2> HIDE DEF rs
  <2>4. ASSUME NEW j \in 1 .. Len(rs), NEW c \in rs[j][1] .. rs[j][2] - 1
        PROVE  c \in Column /\ FT!KeyOf(c) = k
    <3>1. c \in Int /\ rs[j][1] <= c /\ c < rs[j][2]
      BY <2>2
    <3> QED BY <2>3, <3>1 DEF FT!Covers
  <2>5. \A j \in 1 .. Len(rs) : rs[j][1] < rs[j][2]
    BY <2>2
  <2> QED BY <2>1, <2>4, <2>5 DEF rs
<1>4. bucket_order' \in Seq(DOMAIN same_feature_map) /\ range_order' \in Seq(DOMAIN same_feature_range_map)
  <2>1. IsFiniteSet(DOMAIN same_feature_range_map)
    BY <1>2, FS_Subset
  <2> QED BY <1>1, <2>1, WalkIs
<1> DEFINE m == Len(bucket_order')
           n == Len(range_order')
<1>5. BucketNum' = m /\ BlockNum' = m + n /\ m \in Nat /\ n \in Nat
  BY <1>4 DEF BucketNum, BlockNum
<1>6. /\ \A b \in 1 .. m : bucket_order'[b] \in DOMAIN same_feature_map
      /\ \A b \in 1 .. n : range_order'[b] \in DOMAIN same_feature_range_map
  BY <1>4
<1>7. \A c : FT!KeyOf(c)' = FT!KeyOf(c)
  BY <1>1 DEF FT!KeyOf
<1> HIDE DEF m, n
<1>8. ASSUME NEW b \in 1 .. BucketNum'
      PROVE  /\ BucketAt(b)' \in Seq(Column)
             /\ (\A j \in 1 .. Len(BucketAt(b)) : FT!KeyOf(BucketAt(b)[j]) = KeyAt(b))'
  <2>1. b \in 1 .. m /\ b <= m
    BY <1>5
  <2>2. BucketAt(b)' = same_feature_map[bucket_order'[b]] /\ KeyAt(b)' = bucket_order'[b]
    BY <1>1, <1>5, <2>1 DEF BucketAt, KeyAt
  <2>3. bucket_order'[b] \in DOMAIN same_feature_map
    BY <1>6, <2>1
  <2> QED BY <1>2, <1>7, <2>2, <2>3
<1>9. ASSUME NEW b \in BucketNum' + 1 .. BlockNum'
      PROVE  /\ RangesAt(b)' \in Seq(FT!ColumnRange) /\ RangesAt(b)' # <<>>
             /\ \A j \in 1 .. Len(RangesAt(b)') :
                  /\ RangesAt(b)'[j][1] < RangesAt(b)'[j][2]
                  /\ \A c \in RangesAt(b)'[j][1] .. RangesAt(b)'[j][2] - 1 :
                       c \in Column /\ FT!KeyOf(c)' = KeyAt(b)'
  <2> DEFINE k == range_order'[b - m]
  <2>1. b - m \in 1 .. n /\ ~ (b <= m)
    BY <1>5
  <2>2. RangesAt(b)' = same_feature_range_map[k] /\ KeyAt(b)' = k
    BY <1>1, <1>5, <2>1 DEF RangesAt, KeyAt
  <2>3. k \in DOMAIN same_feature_range_map
    BY <1>6, <2>1
  <2> HIDE DEF k
  <2> QED BY <1>3, <1>7, <2>2, <2>3
<1>10. /\ column_order'  = FlattenSeq(Buckets') \o FlattenSeq(Moved')
       /\ scatter_order' = FlattenSeq(Buckets') \o FlattenSeq(Firsts')
  <2>1. /\ Buckets' = [b \in DOMAIN bucket_order' |-> same_feature_map[bucket_order'[b]]]
        /\ Moved' = [b \in DOMAIN range_order' |-> RangesColumns(same_feature_range_map[range_order'[b]])]
        /\ Firsts' = [b \in DOMAIN range_order' |->
                        [j \in DOMAIN same_feature_range_map[range_order'[b]] |->
                           same_feature_range_map[range_order'[b]][j][1]]]
    BY <1>1 DEF Buckets, Moved, Firsts, Beginnings
  <2> QED BY <2>1 DEF FixMapOrder
<1> QED BY <1>1, <1>4, <1>8, <1>9, <1>10 DEF LayoutOK

(* Loops that are generated stay.                                          *)
LEMMA CodeStays == ASSUME Frame, code' = code, CodeOK PROVE CodeOK'
<1>1. BlockNum' = BlockNum /\ \A b : CodeOf(b)' = CodeOf(b)
  BY PlanFrame DEF Frame
<1>2. {CodeOf(b) : b \in 1 .. BlockNum}' = {CodeOf(b) : b \in 1 .. BlockNum}
  BY <1>1
<1> QED BY <1>1, <1>2 DEF CodeOK

(* The loop that is appended is the next of the plan.                      *)
LEMMA LoopAppended ==
  ASSUME LayoutOK, CodeOK, Frame, Len(code) + 1 \in 1 .. BlockNum, code' = Append(code, CodeOf(Len(code) + 1))
  PROVE  CodeOK'
<1> DEFINE S == {CodeOf(b) : b \in 1 .. BlockNum}
<1>1. BlockNum' = BlockNum /\ \A b : CodeOf(b)' = CodeOf(b)
  BY PlanFrame DEF Frame
<1>2. S' = S
  BY <1>1
<1>3. code \in Seq(S) /\ CodeOf(Len(code) + 1) \in S /\ \A b \in 1 .. Len(code) : code[b] = CodeOf(b)
  BY DEF CodeOK
<1> HIDE DEF S
<1>4. /\ code' \in Seq(S) /\ Len(code') = Len(code) + 1 /\ Len(code) \in Nat
      /\ \A b \in 1 .. Len(code) : code'[b] = code[b]
      /\ code'[Len(code) + 1] = CodeOf(Len(code) + 1)
  BY <1>3
<1>5. ASSUME NEW b \in 1 .. Len(code') PROVE code'[b] = CodeOf(b)
  <2>1. CASE b = Len(code) + 1
    BY <1>4, <2>1
  <2>2. CASE b # Len(code) + 1
    <3>1. b \in 1 .. Len(code)
      BY <1>4, <2>2
    <3> QED BY <1>3, <1>4, <3>1
  <2> QED BY <2>1, <2>2
<1> QED BY <1>1, <1>2, <1>4, <1>5 DEF CodeOK, S

(* A loop of a bucket, or of the ranges of one, is generated or cannot be. *)
LEMMA GeneratePlan ==
  ASSUME PlanInv, GenerateBucketLoop \/ GenerateRangeLoop
  PROVE  PlanInv'
<1>1. /\ phase = "code" /\ Frame /\ UNCHANGED <<block, done_iters, pointer, range_pointer, inner, executed, tail, y>>
      /\ LayoutOK /\ CodeOK /\ Run!KernelStart
  BY DEF PlanInv, GenerateBucketLoop, GenerateRangeLoop, AppendLoop, infos, table, orders, running, Frame
<1>2. BucketNum \in Nat /\ BlockNum \in Nat /\ Len(code) \in Nat
      /\ BucketNum = Len(bucket_order) /\ BlockNum = BucketNum + Len(range_order) /\ Len(range_order) \in Nat
  BY <1>1, LayoutIs, PlacesAre DEF BucketNum, CodeOK
<1>3. phase' \in {"unsupported", "check_failed"} \/
        /\ phase' = "code" /\ Len(code) + 1 \in 1 .. BlockNum
        /\ code' = Append(code, CodeOf(Len(code) + 1))
  <2>1. CASE GenerateBucketLoop
    <3>1. Len(code) + 1 \in 1 .. BlockNum /\ Len(code) + 1 <= BucketNum
      BY <1>2, <2>1 DEF GenerateBucketLoop
    <3>2. CodeOf(Len(code) + 1) =
            LoopOf(FALSE, FirstColumn(bucket_order[Len(code) + 1]), CircleNum(bucket_order[Len(code) + 1]))
      BY <3>1 DEF CodeOf
    <3> QED BY <1>1, <2>1, <3>1, <3>2 DEF GenerateBucketLoop, AppendLoop
  <2>2. CASE GenerateRangeLoop
    <3>1. /\ Len(code) + 1 \in 1 .. BlockNum /\ ~ (Len(code) + 1 <= BucketNum)
          /\ (Len(code) + 1) - BucketNum = Len(code) - Len(bucket_order) + 1
      BY <1>2, <2>2 DEF GenerateRangeLoop
    <3> DEFINE rs == same_feature_range_map[range_order[Len(code) - Len(bucket_order) + 1]]
    <3>2. RangesAt(Len(code) + 1) = rs
      BY <3>1 DEF RangesAt
    <3>3. AppendLoop(LoopOf(TRUE, rs[1][1], Len(rs)))
      BY <2>2 DEF GenerateRangeLoop
    <3> HIDE DEF rs
    <3>4. CodeOf(Len(code) + 1) = LoopOf(TRUE, rs[1][1], Len(rs))
      BY <3>1, <3>2 DEF CodeOf
    <3> QED BY <1>1, <3>1, <3>3, <3>4 DEF AppendLoop
  <2> QED BY <2>1, <2>2
<1>4. CASE phase' \in {"unsupported", "check_failed"}
  BY <1>4 DEF PlanInv
<1>5. CASE /\ phase' = "code" /\ Len(code) + 1 \in 1 .. BlockNum
           /\ code' = Append(code, CodeOf(Len(code) + 1))
  <2>1. CodeOK'
    BY <1>1, <1>5, LoopAppended
  <2>2. LayoutOK'
    BY <1>1, PlanFrame DEF Frame
  <2>3. Run!KernelStart'
    BY <1>1 DEF Run!KernelStart, Run!NoRange, Run!ScalarStart, Run!TableColumnNum
  <2> QED BY <1>5, <2>1, <2>2, <2>3 DEF PlanInv
<1> QED BY <1>3, <1>4, <1>5

(* The last loop is generated: the function is complete and can run.       *)
LEMMA EndCodePlan ==
  ASSUME PlanInv, WalksOK, EndCode
  PROVE  PlanInv'
<1>1. /\ phase = "code" /\ phase' = "run" /\ Frame /\ code' = code /\ Len(code) = BlockNum
      /\ UNCHANGED <<block, done_iters, pointer, range_pointer, inner, executed, tail, y>>
      /\ LayoutOK /\ CodeOK /\ Run!KernelStart
  BY DEF PlanInv, EndCode, BlockNum, infos, table, orders, running, Frame
<1>2. LayoutOK' /\ CodeOK' /\ Len(code') = BlockNum'
  BY <1>1, CodeStays, PlanFrame DEF Frame
<1>3. range_num' = FlattenSeq(Sizes')
  <2>1. Sizes' = Sizes
    BY <1>1, PlanFrame DEF Frame
  <2>2. MapOrders(same_feature_range_map, range_order) = {range_order}
    BY DEF WalksOK, MapOrders
  <2> QED BY <2>1, <2>2 DEF EndCode, Sizes, Extents
<1>4. PlaceOK'
  <2>1. /\ block' = 1 /\ done_iters' = 0 /\ range_pointer' = 0 /\ executed' = 0 /\ inner' = Run!NoRange
        /\ tail' = TableColumnNum * Vector
    BY <1>1 DEF Run!KernelStart, Run!ScalarStart, Run!TableColumnNum, TableColumnNum
  <2>2. /\ Iterations(block)' = Iterations(1) /\ ColumnsBefore(block)' = ColumnsBefore(1)
        /\ RangesBefore(block)' = RangesBefore(1) /\ BucketNum' = BucketNum /\ BlockNum' = BlockNum
        /\ Passing(block, done_iters)' = Passing(1, 0)
    BY <1>1, <2>1, PlanFrame DEF Frame
  <2>3. InRange' = FALSE
    BY <2>1 DEF InRange, Run!NoRange
  <2>4. /\ BlockNum \in Nat /\ ColumnsBefore(1) = 0 /\ RangesBefore(1) = 0
        /\ 1 \in 1 .. BlockNum => Iterations(1) \in Nat /\ Passing(1, 0) = 0
        /\ Iterations(BlockNum + 1) = 0 /\ Passing(BlockNum + 1, 0) = 0
    BY <1>1, PlacesAre
  <2>5. Iterations(1) \in Nat /\ Passing(1, 0) = 0 /\ 1 \in 1 .. BlockNum + 1
    <3>1. CASE BlockNum = 0
      BY <2>4, <3>1
    <3>2. CASE BlockNum # 0
      BY <2>4, <3>2
    <3> QED BY <2>4, <3>1, <3>2
  <2>6. tail' \in Nat
    BY <2>1, ColumnsOfTable, VectorAssumption
  <2>7. /\ 0 = ColumnsBefore(1) + Passing(1, 0) + 0 /\ 0 \in 0 .. Iterations(1)
        /\ 0 = RangesBefore(1) + 0 /\ 0 = RangesBefore(1) + (0 + 0)
    BY <2>4, <2>5
  <2> QED BY <2>1, <2>2, <2>3, <2>5, <2>6, <2>7 DEF PlaceOK
<1> QED BY <1>1, <1>2, <1>3, <1>4 DEF PlanInv

(* The function runs.                                                      *)
LEMMA RunPlan ==
  ASSUME PlanInv, RunKernel
  PROVE  PlanInv'
<1>1. /\ phase = "run" /\ phase' = "run" /\ Frame /\ Run!KernelNext
      /\ LayoutOK /\ CodeOK /\ Len(code) = BlockNum /\ range_num = FlattenSeq(Sizes) /\ PlaceOK
  BY DEF PlanInv, RunKernel, infos, table, orders, Frame
<1>2. UNCHANGED <<code, range_num>>
  BY <1>1 DEF Run!KernelNext, Run!RunColumn, Run!BeginRange, Run!RunRangeColumn, Run!EndRange, Run!NextLoop,
              Run!RunScalar, Run!kernel_inputs
<1>3. PlaceOK'
  BY <1>1, RunColumnPlace, BeginRangePlace, RunRangeColumnPlace, EndRangePlace, NextLoopPlace, RunScalarPlace
     DEF Run!KernelNext
<1>4. LayoutOK' /\ CodeOK' /\ Len(code') = BlockNum' /\ range_num' = FlattenSeq(Sizes')
  BY <1>1, <1>2, CodeStays, PlanFrame DEF Frame
<1> QED BY <1>1, <1>3, <1>4 DEF PlanInv

(* The steps that leave the plan and what runs of it alone.                *)
LEMMA PlanStays ==
  ASSUME PlanInv, Frame, UNCHANGED <<code, range_num, block, done_iters, pointer, range_pointer, inner, executed, tail, y>>
  PROVE  /\ LayoutOK => LayoutOK'
         /\ code = <<>> => code' = <<>>
         /\ Run!KernelStart => Run!KernelStart'
         /\ CodeOK => CodeOK'
         /\ Len(code) = BlockNum /\ range_num = FlattenSeq(Sizes) /\ PlaceOK =>
              (Len(code) = BlockNum /\ range_num = FlattenSeq(Sizes) /\ PlaceOK)'
         /\ Run!KernelDone => Run!KernelDone'
<1>1. LayoutOK => LayoutOK'
  BY PlanFrame DEF Frame
<1>2. Run!KernelStart => Run!KernelStart'
  BY DEF Run!KernelStart, Run!NoRange, Run!ScalarStart, Run!TableColumnNum
<1>3. CodeOK => CodeOK'
  BY CodeStays
<1>4. BlockNum' = BlockNum /\ Sizes' = Sizes /\ BucketNum' = BucketNum
  BY PlanFrame DEF Frame
<1>5. PlaceOK => PlaceOK'
  <2>1. /\ Iterations(block)' = Iterations(block) /\ ColumnsBefore(block)' = ColumnsBefore(block)
        /\ RangesBefore(block)' = RangesBefore(block) /\ Passing(block, done_iters)' = Passing(block, done_iters)
    BY PlanFrame DEF Frame
  <2>2. InRange' = InRange
    BY DEF InRange, Run!NoRange
  <2> QED BY <1>4, <2>1, <2>2 DEF PlaceOK
<1>6. Run!KernelDone => Run!KernelDone'
  BY DEF Run!KernelDone
<1> QED BY <1>1, <1>2, <1>3, <1>4, <1>5, <1>6

(* PlanInv is inductive, on top of what the phases hand over.              *)
THEOREM Planned == ASSUME NoKeyIsNoHash PROVE Spec => [](DynVecInv /\ PlanInv)
<1>1. Init => PlanInv
  BY DEF Init, PlanInv
<1>2. ASSUME DynVecInv, PlanInv, [Next]_vars PROVE PlanInv'
  <2>1. CASE GenerateInformation
    <3>1. phase = "information" /\ phase' \in {"table", "unsupported"}
          /\ UNCHANGED <<code, range_num, block, done_iters, pointer, range_pointer, inner, executed, tail, y>>
      BY <2>1 DEF GenerateInformation, generated, running
    <3>2. code' = <<>> /\ Run!KernelStart'
      BY <1>2, <3>1 DEF PlanInv, Run!KernelStart, Run!NoRange, Run!ScalarStart, Run!TableColumnNum
    <3> QED BY <3>1, <3>2 DEF PlanInv
  <2>2. CASE BuildTable
    <3>1. phase = "table" /\ phase' = "table"
          /\ UNCHANGED <<code, range_num, block, done_iters, pointer, range_pointer, inner, executed, tail, y>>
      BY <2>2 DEF BuildTable, generated, running
    <3>2. code' = <<>> /\ Run!KernelStart'
      BY <1>2, <3>1 DEF PlanInv, Run!KernelStart, Run!NoRange, Run!ScalarStart, Run!TableColumnNum
    <3> QED BY <3>1, <3>2 DEF PlanInv
  <2>3. CASE FixMapOrder
    <3>1. phase = "table" /\ phase' = "transform" /\ table_pc = "done"
          /\ UNCHANGED <<code, range_num, block, done_iters, pointer, range_pointer, inner, executed, tail, y>>
      BY <2>3 DEF FixMapOrder, generated, running
    <3>2. code' = <<>> /\ Run!KernelStart'
      BY <1>2, <3>1 DEF PlanInv, Run!KernelStart, Run!NoRange, Run!ScalarStart, Run!TableColumnNum
    <3>3. FT!IInv /\ IsFiniteSet(DOMAIN same_feature_map) /\ bucket_order = <<>> /\ range_order = <<>>
      BY <1>2, <3>1 DEF DynVecInv
    <3>4. LayoutOK'
      BY <2>3, <3>1, <3>3, LayoutMade
    <3> QED BY <3>1, <3>2, <3>4 DEF PlanInv
  <2>4. CASE TransformArrays
    <3>1. phase = "transform" /\ phase' = "transform" /\ Frame
          /\ UNCHANGED <<code, range_num, block, done_iters, pointer, range_pointer, inner, executed, tail, y>>
      BY <2>4 DEF TransformArrays, generated, running, infos, table, Frame, Transform!TransformNext,
                  Transform!Malloc, Transform!RearrangeElem, Transform!NextArray, Transform!transform_inputs
    <3>2. LayoutOK /\ code = <<>> /\ Run!KernelStart
      BY <1>2, <3>1 DEF PlanInv
    <3>3. LayoutOK' /\ code' = <<>> /\ Run!KernelStart'
      BY <1>2, <3>1, <3>2, PlanStays
    <3> QED BY <3>1, <3>3 DEF PlanInv
  <2>5. CASE EndTransform
    <3>0. UNCHANGED orders
      BY <1>2, <2>5, WalksStay DEF DynVecInv, EndTransform
    <3>1. phase = "transform" /\ phase' = "code" /\ Frame
          /\ UNCHANGED <<code, range_num, block, done_iters, pointer, range_pointer, inner, executed, tail, y>>
      BY <2>5, <3>0 DEF EndTransform, generated, running, infos, table, orders, Frame
    <3>2. LayoutOK /\ code = <<>> /\ Run!KernelStart
      BY <1>2, <3>1 DEF PlanInv
    <3>3. LayoutOK' /\ code' = <<>> /\ Run!KernelStart'
      BY <1>2, <3>1, <3>2, PlanStays
    <3>4. CodeOK'
      BY <3>3 DEF CodeOK
    <3> QED BY <3>1, <3>3, <3>4 DEF PlanInv
  <2>6. CASE GenerateBucketLoop \/ GenerateRangeLoop
    BY <1>2, <2>6, GeneratePlan
  <2>7. CASE EndCode
    <3>1. WalksOK
      BY <1>2, <2>7 DEF DynVecInv, EndCode
    <3> QED BY <1>2, <2>7, <3>1, EndCodePlan
  <2>8. CASE RunKernel
    BY <1>2, <2>8, RunPlan
  <2>9. CASE EndRun \/ UNCHANGED vars
    <3>1. /\ Frame
          /\ UNCHANGED <<code, range_num, block, done_iters, pointer, range_pointer, inner, executed, tail, y>>
      BY <2>9 DEF EndRun, vars, generated, running, infos, table, orders, Frame
    <3>2. \/ phase' = phase
          \/ phase = "run" /\ phase' = "done" /\ Run!KernelDone
      BY <2>9 DEF EndRun, vars
    <3> HIDE DEF Frame
    <3>3. /\ LayoutOK => LayoutOK'
          /\ code = <<>> => code' = <<>>
          /\ Run!KernelStart => Run!KernelStart'
          /\ CodeOK => CodeOK'
          /\ Len(code) = BlockNum /\ range_num = FlattenSeq(Sizes) /\ PlaceOK =>
               (Len(code) = BlockNum /\ range_num = FlattenSeq(Sizes) /\ PlaceOK)'
          /\ Run!KernelDone => Run!KernelDone'
      BY <1>2, <3>1, PlanStays
    <3> QED BY <1>2, <3>2, <3>3 DEF PlanInv
  <2> QED BY <1>2, <2>1, <2>2, <2>3, <2>4, <2>5, <2>6, <2>7, <2>8, <2>9 DEF Next
<1> QED BY <1>1, <1>2, Handed, PTL DEF Spec

-----------------------------------------------------------------------------
(* When the function returns every loop has run to its end, so that every  *)
(* element has been added: those of the columns by the loops, those that   *)
(* fill no column by the scalar loop.                                      *)
LEMMA DoneAdded ==
  ASSUME DynVecInv, PlanInv, phase = "done"
  PROVE  AddedElements = 0 .. DataNum - 1
<1>1. /\ OrdersOK /\ LayoutOK /\ Len(code) = BlockNum /\ PlaceOK /\ Run!KernelDone
  BY DEF DynVecInv, PlanInv
<1>2. /\ BlockNum \in Nat /\ ColumnsBefore(BlockNum + 1) = Len(column_order)
      /\ Iterations(BlockNum + 1) = 0 /\ Passing(BlockNum + 1, 0) = 0
  BY <1>1, PlacesAre
<1>3. block = BlockNum + 1 /\ ~ InRange /\ tail >= DataNum /\ tail \in Nat
  <2>1. block \in 1 .. BlockNum + 1 /\ block > BlockNum
    BY <1>1 DEF PlaceOK, Run!KernelDone
  <2>2. block = BlockNum + 1
    BY <1>2, <2>1
  <2>3. InRange => block \in BucketNum + 1 .. BlockNum
    BY <1>1 DEF PlaceOK
  <2>4. ~ InRange
    BY <1>2, <2>2, <2>3
  <2> QED BY <1>1, <2>2, <2>4 DEF PlaceOK, Run!KernelDone
<1>4. executed = Len(column_order)
  <2>1. done_iters \in 0 .. Iterations(BlockNum + 1)
        /\ executed = ColumnsBefore(BlockNum + 1) + Passing(BlockNum + 1, done_iters) + 0
    BY <1>1, <1>3 DEF PlaceOK
  <2>2. done_iters = 0
    BY <1>2, <2>1
  <2>3. Len(column_order) \in Nat
    BY <1>1 DEF OrdersOK
  <2> QED BY <1>2, <2>1, <2>2, <2>3
<1> DEFINE columns == {column_order[v] : v \in 1 .. Len(column_order)}
<1>5. columns = Column
  <2>1. \A v \in 1 .. Len(column_order) : column_order[v] \in Column
    BY <1>1 DEF OrdersOK
  <2>2. \A c \in Column : \E v \in 1 .. Len(column_order) : column_order[v] = c
    BY <1>1 DEF OrdersOK, Holds
  <2> QED BY ONLY <2>1, <2>2
<1>6. AddedElements =
           {e \in 0 .. TableColumnNum * Vector - 1 : e \div Vector \in columns}
             \cup {e \in TableColumnNum * Vector .. DataNum - 1 : e < tail}
  <2>1. inner = Run!NoRange /\ executed - 0 = Len(column_order)
    <3>1. Len(column_order) \in Nat
      BY <1>1 DEF OrdersOK
    <3> QED BY <1>3, <1>4, <3>1 DEF InRange
  <2> QED BY <2>1 DEF AddedElements
<1> HIDE DEF columns
<1>7. TableColumnNum \in Nat /\ TableColumnNum * Vector <= DataNum /\ DataNum \in Nat /\ Vector \in {4, 8, 16}
  BY ColumnsOfTable, InputAssumption, VectorAssumption
<1>8. ASSUME NEW e \in 0 .. TableColumnNum * Vector - 1 PROVE e \div Vector \in Column
  BY <1>7 DEF Column
<1>9. {e \in 0 .. TableColumnNum * Vector - 1 : e \div Vector \in columns} = 0 .. TableColumnNum * Vector - 1
  BY <1>5, <1>8
<1>10. {e \in TableColumnNum * Vector .. DataNum - 1 : e < tail} = TableColumnNum * Vector .. DataNum - 1
  BY <1>3, <1>7
<1>11. (0 .. TableColumnNum * Vector - 1) \cup (TableColumnNum * Vector .. DataNum - 1) = 0 .. DataNum - 1
  BY <1>7
<1> QED BY <1>6, <1>9, <1>10, <1>11

(* Every element is added by the time the function returns.                *)
THEOREM EveryElementAdded == ASSUME NoKeyIsNoHash PROVE Spec => []AllElementsAdded
<1>1. DynVecInv /\ PlanInv => AllElementsAdded
  BY DoneAdded DEF AllElementsAdded
<1> QED BY <1>1, Planned, PTL

(* With the refinement of Accumulate, which says that an element is added  *)
(* as it should be or not at all, the result of the lambda is in y when    *)
(* the function returns: y_array and y_array_bak are equal.                *)
THEOREM ResultWhenDone == ASSUME NoKeyIsNoHash PROVE Spec /\ ImplementsAccumulate => []ResultOfLambda
<1>1. AllElementsAdded /\ EachAddedOnce => ResultOfLambda
  BY DEF AllElementsAdded, EachAddedOnce, ResultOfLambda
<1> QED BY <1>1, EveryElementAdded, RefinementAddsEachOnce, PTL

-----------------------------------------------------------------------------
(* How far the code moves on at a column and how much was written for it.  *)

(* The features are made of the Infos the shape of the code is made of.    *)
FeaturesOK ==
  \A c \in Column :
    /\ feature[c] = <<Packed(gather_info[c]), Packed(scatter_info[c]), Packed(reduction_info[c])>>
    /\ scatter_info[c].order = DisOrder => scatter_info[c].mask = Vector
    /\ reduction_info[c].order = scatter_info[c].order

(* Ranges are found only among columns that write one location each.       *)
EquelKey(k) == \E c \in Column : FT!KeyOf(c) = k /\ feature[c][2] = 1 + OrderEquel * 65536
RangesEquel ==
  /\ scanned # NoKey => EquelKey(scanned)
  /\ \A k \in DOMAIN same_feature_range_map : EquelKey(k)

StaticOK == InfosOK /\ FeaturesOK /\ RangesEquel

(* No two features of the table collide in the hash.                       *)
FeaturesApart == \A c, d \in Column : FT!KeyOf(c) = FT!KeyOf(d) => feature[c] = feature[d]

(* Order type and mask can be told from the number they are packed into.   *)
LEMMA MasksApart ==
  ASSUME NEW m \in Nat, NEW n \in Nat, m < MaskBound, n < MaskBound,
         NEW o \in {DisOrder, IncContinue, OrderEquel}, NEW p \in {DisOrder, IncContinue, OrderEquel},
         m + o * 65536 = n + p * 65536
  PROVE  m = n /\ o = p
BY DEF MaskBound, DisOrder, IncContinue, OrderEquel

(* The generated code moves on as VectorCode says.                         *)
LEMMA AdvanceIs ==
  \A info : /\ Run!GatherAdvance(info) = GatherAdvance(info)
            /\ Run!ScatterAdvance(info) = ScatterAdvance(info)
            /\ Run!ReductionAdvance(info) = ReductionAdvance(info)
BY DEF Run!GatherAdvance, Run!ScatterAdvance, Run!ReductionAdvance, Run!OneLoad, Run!DisOrder,
       GatherAdvance, ScatterAdvance, ReductionAdvance, OneLoad, DisOrder

(* What is written for a column is what the code for its own Infos takes.  *)
LEMMA EntriesTaken ==
  ASSUME InfosOK, FeaturesOK, NEW c \in Column
  PROVE  /\ Len(Transform!EntriesOf("data", c)) = Vector
         /\ Len(Transform!EntriesOf("gather", c)) = GatherAdvance(gather_info[c])
         /\ Len(Transform!EntriesOf("scatter", c)) = ScatterAdvance(scatter_info[c])
         /\ Len(Transform!EntriesOf("reduction", c)) = ReductionAdvance(reduction_info[c])
<1>1. /\ Transform!EntriesOf("data", c) = Transform!Elements(c)
      /\ Transform!EntriesOf("gather", c) = Transform!EntriesOfGather(gather_info[c])
      /\ Transform!EntriesOf("scatter", c) = Transform!EntriesOfGather(scatter_info[c])
      /\ Transform!EntriesOf("reduction", c) = Transform!EntriesOfReduction(reduction_info[c])
  BY DEF Transform!EntriesOf
<1>2. Len(Transform!Elements(c)) = Vector
  BY LaneInt DEF Transform!Elements
<1>3. /\ Len(Transform!EntriesOfGather(gather_info[c])) = GatherAdvance(gather_info[c])
      /\ Len(Transform!EntriesOfGather(scatter_info[c])) = GatherAdvance(scatter_info[c])
      /\ Len(Transform!EntriesOfReduction(reduction_info[c])) = ReductionAdvance(reduction_info[c])
  BY DEF InfosOK, GatherFits, ReductionFits
<1>4. GatherAdvance(scatter_info[c]) = ScatterAdvance(scatter_info[c])
  <2>1. scatter_info[c].order = DisOrder => scatter_info[c].mask = Vector
    BY DEF FeaturesOK
  <2> QED BY <2>1, LaneInt DEF GatherAdvance, ScatterAdvance, OneLoad
<1> QED BY <1>1, <1>2, <1>3, <1>4

(* Columns of one key have Infos of one shape.                             *)
LEMMA SameShape ==
  ASSUME InfosOK, FeaturesOK, FeaturesApart, NEW c \in Column, NEW d \in Column, FT!KeyOf(c) = FT!KeyOf(d)
  PROVE  /\ GatherAdvance(gather_info[c]) = GatherAdvance(gather_info[d])
         /\ ScatterAdvance(scatter_info[c]) = ScatterAdvance(scatter_info[d])
         /\ ReductionAdvance(reduction_info[c]) = ReductionAdvance(reduction_info[d])
         /\ gather_info[c].order = gather_info[d].order /\ gather_info[c].mask = gather_info[d].mask
         /\ scatter_info[c].order = scatter_info[d].order /\ scatter_info[c].mask = scatter_info[d].mask
         /\ reduction_info[c].order = reduction_info[d].order /\ reduction_info[c].mask = reduction_info[d].mask
<1>1. /\ Packed(gather_info[c]) = Packed(gather_info[d])
      /\ Packed(scatter_info[c]) = Packed(scatter_info[d])
      /\ Packed(reduction_info[c]) = Packed(reduction_info[d])
  <2>1. feature[c] = feature[d]
    BY DEF FeaturesApart
  <2>2. ASSUME NEW e \in Column
        PROVE  /\ feature[e][1] = Packed(gather_info[e]) /\ feature[e][2] = Packed(scatter_info[e])
               /\ feature[e][3] = Packed(reduction_info[e])
    BY DEF FeaturesOK
  <2> QED BY <2>1, <2>2
<1>2. ASSUME NEW i, NEW j, Packed(i) = Packed(j),
             i.order \in {DisOrder, IncContinue, OrderEquel}, i.mask \in Nat, i.mask < MaskBound,
             j.order \in {DisOrder, IncContinue, OrderEquel}, j.mask \in Nat, j.mask < MaskBound
      PROVE  i.order = j.order /\ i.mask = j.mask
  <2>1. i.mask + i.order * 65536 = j.mask + j.order * 65536
    BY <1>2 DEF Packed
  <2> QED BY ONLY <1>2, <2>1, MasksApart
<1>3. /\ gather_info[c].order = gather_info[d].order /\ gather_info[c].mask = gather_info[d].mask
      /\ scatter_info[c].order = scatter_info[d].order /\ scatter_info[c].mask = scatter_info[d].mask
      /\ reduction_info[c].order = reduction_info[d].order /\ reduction_info[c].mask = reduction_info[d].mask
  <2>1. /\ GatherFits(gather_info[c]) /\ GatherFits(scatter_info[c]) /\ ReductionFits(reduction_info[c])
        /\ GatherFits(gather_info[d]) /\ GatherFits(scatter_info[d]) /\ ReductionFits(reduction_info[d])
    BY DEF InfosOK
  <2> QED BY <1>1, <1>2, <2>1 DEF GatherFits, ReductionFits
<1> QED BY <1>3 DEF GatherAdvance, ScatterAdvance, ReductionAdvance, OneLoad

(* The columns of ranges write one location each: they have no permutations*)
(* of lanes.                                                               *)
LEMMA EquelTaken ==
  ASSUME StaticOK, FeaturesApart, NEW c \in Column, EquelKey(FT!KeyOf(c))
  PROVE  ReductionAdvance(reduction_info[c]) = 0 /\ scatter_info[c].order = OrderEquel
<1>1. PICK d \in Column : FT!KeyOf(d) = FT!KeyOf(c) /\ feature[d][2] = 1 + OrderEquel * 65536
  BY DEF EquelKey
<1>2. feature[c][2] = Packed(scatter_info[c]) /\ reduction_info[c].order = scatter_info[c].order
  BY DEF StaticOK, FeaturesOK
<1>3. feature[c] = feature[d]
  BY <1>1 DEF FeaturesApart
<1>4. scatter_info[c].mask + scatter_info[c].order * 65536 = 1 + OrderEquel * 65536
  BY <1>1, <1>2, <1>3 DEF Packed
<1>5. /\ scatter_info[c].order \in {DisOrder, IncContinue, OrderEquel}
      /\ scatter_info[c].mask \in Nat /\ scatter_info[c].mask < MaskBound
  BY DEF StaticOK, InfosOK, GatherFits
<1>6. 1 \in Nat /\ 1 < MaskBound /\ OrderEquel \in {DisOrder, IncContinue, OrderEquel}
  BY DEF MaskBound
<1>7. scatter_info[c].order = OrderEquel
  BY ONLY <1>4, <1>5, <1>6, MasksApart
<1> QED BY <1>2, <1>7 DEF ReductionAdvance, DisOrder, OrderEquel

(* A loop has the shape of a column of its bucket.                         *)
LEMMA LoopShape ==
  ASSUME LayoutOK, CodeOK, Len(code) = BlockNum, NEW b \in 1 .. BlockNum, Iterations(b) > 0
  PROVE  \E h \in Column : /\ FT!KeyOf(h) = KeyAt(b)
                           /\ code[b].gather = gather_info[h]
                           /\ code[b].scatter = scatter_info[h]
                           /\ code[b].reduction = reduction_info[h]
<1>1. code[b] = CodeOf(b) /\ BucketNum \in Nat /\ b \in Nat
  BY LayoutIs DEF CodeOK
<1>2. CASE b <= BucketNum
  <2>1. b \in 1 .. BucketNum
    BY <1>1, <1>2
  <2> DEFINE h == BucketAt(b)[1]
  <2>2. BucketAt(b) \in Seq(Column) /\ \A j \in 1 .. Len(BucketAt(b)) : FT!KeyOf(BucketAt(b)[j]) = KeyAt(b)
    BY <2>1 DEF LayoutOK
  <2>3. Len(BucketAt(b)) > 0
    BY <1>2 DEF Iterations
  <2>4. h \in Column /\ FT!KeyOf(h) = KeyAt(b) /\ BucketAt(b) # <<>>
    <3>1. Len(BucketAt(b)) \in Nat /\ 1 \in 1 .. Len(BucketAt(b)) /\ BucketAt(b) # <<>>
      BY <2>2, <2>3
    <3> QED BY <2>2, <3>1
  <2>5. FirstColumn(bucket_order[b]) = h
    BY <2>4 DEF FirstColumn, BucketAt
  <2> HIDE DEF h
  <2>6. code[b].gather = gather_info[h] /\ code[b].scatter = scatter_info[h] /\ code[b].reduction = reduction_info[h]
    BY <1>1, <1>2, <2>5 DEF CodeOf, LoopOf, Run!Loop
  <2> QED BY <2>4, <2>6
<1>3. CASE ~ (b <= BucketNum)
  <2>1. b \in BucketNum + 1 .. BlockNum
    BY <1>1, <1>3
  <2> DEFINE h == RangesAt(b)[1][1]
  <2>2. /\ RangesAt(b) \in Seq(FT!ColumnRange) /\ RangesAt(b) # <<>>
        /\ \A j \in 1 .. Len(RangesAt(b)) :
             /\ RangesAt(b)[j][1] < RangesAt(b)[j][2]
             /\ \A c \in RangesAt(b)[j][1] .. RangesAt(b)[j][2] - 1 : c \in Column /\ FT!KeyOf(c) = KeyAt(b)
    BY <2>1 DEF LayoutOK
  <2>3. 1 \in 1 .. Len(RangesAt(b)) /\ RangesAt(b)[1] \in FT!ColumnRange
    BY <2>2
  <2>4. RangesAt(b)[1][1] \in Int /\ RangesAt(b)[1][2] \in Int
    <3>1. RangesAt(b)[1][1] \in FT!Column /\ RangesAt(b)[1][2] \in 1 .. TableColumnNum
      BY <2>3 DEF FT!ColumnRange
    <3> QED BY <3>1, ColumnsOfTable DEF FT!Column
  <2>5. h \in h .. RangesAt(b)[1][2] - 1
    BY <2>2, <2>3, <2>4
  <2>6. h \in Column /\ FT!KeyOf(h) = KeyAt(b)
    BY <2>2, <2>3, <2>5
  <2>7. code[b].gather = gather_info[h] /\ code[b].scatter = scatter_info[h] /\ code[b].reduction = reduction_info[h]
    BY <1>1, <1>3 DEF CodeOf, LoopOf, Run!Loop
  <2> HIDE DEF h
  <2> QED BY <2>6, <2>7
<1> QED BY <1>2, <1>3

(* A loop moves its pointers on by what was written for a column of its    *)
(* bucket.                                                                 *)
LEMMA LoopTakes ==
  ASSUME LayoutOK, CodeOK, Len(code) = BlockNum, StaticOK, FeaturesApart,
         NEW b \in 1 .. BlockNum, Iterations(b) > 0, NEW c \in Column, FT!KeyOf(c) = KeyAt(b)
  PROVE  /\ Vector = Len(Transform!EntriesOf("data", c))
         /\ Run!GatherAdvance(code[b].gather) = Len(Transform!EntriesOf("gather", c))
         /\ Run!ScatterAdvance(code[b].scatter) = Len(Transform!EntriesOf("scatter", c))
         /\ Run!ReductionAdvance(code[b].reduction) = Len(Transform!EntriesOf("reduction", c))
         /\ b \in BucketNum + 1 .. BlockNum => Len(Transform!EntriesOf("reduction", c)) = 0
<1>1. PICK h \in Column : /\ FT!KeyOf(h) = KeyAt(b)
                          /\ code[b].gather = gather_info[h]
                          /\ code[b].scatter = scatter_info[h]
                          /\ code[b].reduction = reduction_info[h]
  BY LoopShape
<1>2. InfosOK /\ FeaturesOK /\ RangesEquel
  BY DEF StaticOK
<1>3. /\ GatherAdvance(gather_info[h]) = GatherAdvance(gather_info[c])
      /\ ScatterAdvance(scatter_info[h]) = ScatterAdvance(scatter_info[c])
      /\ ReductionAdvance(reduction_info[h]) = ReductionAdvance(reduction_info[c])
  BY <1>1, <1>2, SameShape
<1>4. /\ Len(Transform!EntriesOf("data", c)) = Vector
      /\ Len(Transform!EntriesOf("gather", c)) = GatherAdvance(gather_info[c])
      /\ Len(Transform!EntriesOf("scatter", c)) = ScatterAdvance(scatter_info[c])
      /\ Len(Transform!EntriesOf("reduction", c)) = ReductionAdvance(reduction_info[c])
  BY <1>2, EntriesTaken
<1>5. ASSUME b \in BucketNum + 1 .. BlockNum PROVE ReductionAdvance(reduction_info[c]) = 0
  <2>1. ~ (b <= BucketNum) /\ b - BucketNum \in 1 .. Len(range_order)
    <3>1. BucketNum \in Nat /\ b - BucketNum \in 1 .. Len(range_order)
      BY <1>5, LayoutIs
    <3>2. ~ (b <= BucketNum)
      BY <1>5, <3>1
    <3> QED BY <3>1, <3>2
  <2>2. KeyAt(b) \in DOMAIN same_feature_range_map
    <3>1. KeyAt(b) = range_order[b - BucketNum]
      BY <2>1 DEF KeyAt
    <3>2. range_order \in Seq(DOMAIN same_feature_range_map)
      BY DEF LayoutOK
    <3> QED BY <2>1, <3>1, <3>2
  <2>3. EquelKey(FT!KeyOf(c))
    BY <1>2, <2>2 DEF RangesEquel
  <2> QED BY <2>3, EquelTaken
<1> QED BY <1>1, <1>3, <1>4, <1>5, AdvanceIs

(* The column of an iteration of a bucket's loop, in both walks.           *)
LEMMA BucketColumn ==
  ASSUME LayoutOK, NEW b \in 1 .. BucketNum, NEW d \in 0 .. Iterations(b) - 1
  PROVE  /\ ColumnsBefore(b) + d + 1 \in 1 .. Len(column_order)
         /\ ColumnsBefore(b) + d + 1 \in 1 .. Len(scatter_order)
         /\ column_order[ColumnsBefore(b) + d + 1] = BucketAt(b)[d + 1]
         /\ scatter_order[ColumnsBefore(b) + d + 1] = BucketAt(b)[d + 1]
         /\ BucketAt(b)[d + 1] \in Column /\ FT!KeyOf(BucketAt(b)[d + 1]) = KeyAt(b)
<1>1. /\ Buckets \in Seq(Seq(Column)) /\ Len(Buckets) = BucketNum
      /\ Buckets[b] = BucketAt(b) /\ BucketAt(b) \in Seq(Column)
      /\ Moved \in Seq(Seq(Column)) /\ Firsts \in Seq(Seq(Column))
  BY LayoutIs
<1>2. Iterations(b) = Len(BucketAt(b)) /\ ColumnsBefore(b) = Before(Lens(Buckets), b) /\ ColumnsBefore(b) \in Nat
  BY BucketPlaces
<1>3. d + 1 \in 1 .. Len(BucketAt(b)) /\ ColumnsBefore(b) + (d + 1) = ColumnsBefore(b) + d + 1
  BY <1>1, <1>2
<1> DEFINE p == ColumnsBefore(b) + d + 1
           kept == FlattenSeq(Buckets)
<1>4. kept \in Seq(Column) /\ p \in 1 .. Len(kept) /\ kept[p] = BucketAt(b)[d + 1]
  <2>1. /\ FlattenSeq(Buckets) \in Seq(Column)
        /\ Before(Lens(Buckets), b) + (d + 1) \in 1 .. Len(FlattenSeq(Buckets))
        /\ FlattenSeq(Buckets)[Before(Lens(Buckets), b) + (d + 1)] = Buckets[b][d + 1]
    <3>1. /\ FlattenSeq(Buckets) \in Seq(Column)
          /\ \A m \in 1 .. Len(Buckets) : \A j \in 1 .. Len(Buckets[m]) :
                 /\ Before(Lens(Buckets), m) + j \in 1 .. Len(FlattenSeq(Buckets))
                 /\ FlattenSeq(Buckets)[Before(Lens(Buckets), m) + j] = Buckets[m][j]
      BY <1>1, FlattenAt
    <3>2. b \in 1 .. Len(Buckets) /\ d + 1 \in 1 .. Len(Buckets[b])
      BY <1>1, <1>3
    <3> QED BY ONLY <3>1, <3>2
  <2>2. p = Before(Lens(Buckets), b) + (d + 1)
    BY <1>2, <1>3
  <2> HIDE DEF p
  <2> QED BY <1>1, <2>1, <2>2
<1>5. FlattenSeq(Moved) \in Seq(Column) /\ FlattenSeq(Firsts) \in Seq(Column)
  BY <1>1, FlattenAt
<1>6. column_order = kept \o FlattenSeq(Moved) /\ scatter_order = kept \o FlattenSeq(Firsts)
  BY DEF LayoutOK
<1> HIDE DEF p, kept
<1>7. ASSUME NEW t \in Seq(Column) PROVE p \in 1 .. Len(kept \o t) /\ (kept \o t)[p] = kept[p]
  <2>1. Len(kept) \in Nat /\ Len(t) \in Nat /\ p \in Int
    BY <1>4
  <2>2. Len(kept \o t) = Len(kept) + Len(t)
    BY <1>4
  <2>3. p \in 1 .. Len(kept \o t)
    BY ONLY <1>4, <2>1, <2>2
  <2> QED BY <1>4, <2>3
<1>8. BucketAt(b)[d + 1] \in Column /\ FT!KeyOf(BucketAt(b)[d + 1]) = KeyAt(b)
  BY <1>1, <1>3 DEF LayoutOK
<1>9. /\ p \in 1 .. Len(column_order) /\ column_order[p] = BucketAt(b)[d + 1]
      /\ p \in 1 .. Len(scatter_order) /\ scatter_order[p] = BucketAt(b)[d + 1]
  BY <1>4, <1>5, <1>6, <1>7
<1> QED BY <1>8, <1>9 DEF p

(* The lengths of the walks over the first columns of ranges and over the  *)
(* sizes of ranges are the same.                                           *)
LEMMA FirstsLikeSizes == ASSUME LayoutOK PROVE Lens(Firsts) = Lens(Sizes)
<1>1. /\ Firsts \in Seq(Seq(Column)) /\ Len(Firsts) = Len(range_order)
      /\ Sizes \in Seq(Seq(Nat)) /\ Len(Sizes) = Len(range_order)
      /\ BucketNum \in Nat /\ Len(range_order) \in Nat /\ BlockNum = BucketNum + Len(range_order)
  BY LayoutIs
<1>2. ASSUME NEW n \in 1 .. Len(range_order) PROVE Len(Firsts[n]) = Len(Sizes[n])
  <2> DEFINE b == BucketNum + n
  <2>1. b \in BucketNum + 1 .. BlockNum /\ b - BucketNum = n
    BY <1>1
  <2> HIDE DEF b
  <2>2. /\ RangesAt(b) \in Seq(FT!ColumnRange)
        /\ Sizes[n] = Extents(RangesAt(b)) /\ Firsts[n] = Beginnings(RangesAt(b))
        /\ \A j \in 1 .. Len(RangesAt(b)) :
             /\ RangesAt(b)[j][1] < RangesAt(b)[j][2]
             /\ \A c \in RangesAt(b)[j][1] .. RangesAt(b)[j][2] - 1 : c \in Column
    BY <2>1, LayoutIs
  <2> QED BY <2>2, RangesColumnsAt
<1>3. DOMAIN Firsts = 1 .. Len(range_order) /\ DOMAIN Sizes = 1 .. Len(range_order)
  BY <1>1
<1> QED BY <1>2, <1>3 DEF Lens

(* The first column of the range an iteration begins is where the walk     *)
(* over first columns has passed the buckets and the ranges before.        *)
LEMMA RangeFirst ==
  ASSUME LayoutOK, NEW b \in BucketNum + 1 .. BlockNum, NEW d \in 0 .. Iterations(b) - 1
  PROVE  /\ KeptNum + RangesBefore(b) + d + 1 \in 1 .. Len(scatter_order)
         /\ scatter_order[KeptNum + RangesBefore(b) + d + 1] \in Column
         /\ FT!KeyOf(scatter_order[KeptNum + RangesBefore(b) + d + 1]) = KeyAt(b)
         /\ scatter_order[KeptNum + RangesBefore(b) + d + 1] = RangesAt(b)[d + 1][1]
<1> DEFINE n    == b - BucketNum
           kept == FlattenSeq(Buckets)
           rest == FlattenSeq(Firsts)
           q    == RangesBefore(b) + (d + 1)
<1>1. /\ n \in 1 .. Len(range_order) /\ Firsts \in Seq(Seq(Column)) /\ Len(Firsts) = Len(range_order)
      /\ Buckets \in Seq(Seq(Column)) /\ Len(Buckets) = BucketNum
      /\ RangesAt(b) \in Seq(FT!ColumnRange) /\ Firsts[n] = Beginnings(RangesAt(b))
      /\ \A j \in 1 .. Len(RangesAt(b)) :
           /\ RangesAt(b)[j][1] < RangesAt(b)[j][2]
           /\ \A c \in RangesAt(b)[j][1] .. RangesAt(b)[j][2] - 1 : c \in Column
      /\ Len(RangesAt(b)) \in Nat
  BY LayoutIs
<1>2. Iterations(b) = Len(RangesAt(b)) /\ RangesBefore(b) = Before(Lens(Firsts), n)
  BY RangePlaces, FirstsLikeSizes
<1>3. RangesBefore(b) \in Nat /\ KeptNum \in Nat
  BY BucketPlaces, RangeNumAt
<1> HIDE DEF n
<1>4. /\ Len(Firsts[n]) = Len(RangesAt(b))
      /\ \A j \in 1 .. Len(RangesAt(b)) : Firsts[n][j] = RangesAt(b)[j][1] /\ RangesAt(b)[j][1] \in Column
  BY <1>1, RangesColumnsAt
<1>5. d + 1 \in 1 .. Len(RangesAt(b))
  BY <1>1, <1>2
<1>6. kept \in Seq(Column) /\ Len(kept) = KeptNum
  BY <1>1, FlattenAt DEF KeptNum
<1>7. rest \in Seq(Column) /\ q \in 1 .. Len(rest) /\ rest[q] = RangesAt(b)[d + 1][1]
  <2>1. /\ FlattenSeq(Firsts) \in Seq(Column)
        /\ \A m \in 1 .. Len(Firsts) : \A j \in 1 .. Len(Firsts[m]) :
               /\ Before(Lens(Firsts), m) + j \in 1 .. Len(FlattenSeq(Firsts))
               /\ FlattenSeq(Firsts)[Before(Lens(Firsts), m) + j] = Firsts[m][j]
    BY <1>1, FlattenAt
  <2>2. n \in 1 .. Len(Firsts) /\ d + 1 \in 1 .. Len(Firsts[n])
    BY <1>1, <1>4, <1>5
  <2>3. q = Before(Lens(Firsts), n) + (d + 1)
    BY <1>2
  <2> HIDE DEF q
  <2>4. q \in 1 .. Len(FlattenSeq(Firsts)) /\ FlattenSeq(Firsts)[q] = Firsts[n][d + 1]
    BY ONLY <2>1, <2>2, <2>3
  <2> QED BY <1>4, <1>5, <2>1, <2>4
<1>8. scatter_order = kept \o rest
  BY DEF LayoutOK
<1>9. KeptNum + q = KeptNum + RangesBefore(b) + d + 1
  BY <1>1, <1>3, <1>5
<1> HIDE DEF kept, rest, q
<1>10. KeptNum + q \in 1 .. Len(scatter_order) /\ scatter_order[KeptNum + q] = rest[q]
  <2>1. Len(rest) \in Nat /\ q \in Int
    BY <1>7
  <2>2. Len(kept \o rest) = KeptNum + Len(rest)
    BY <1>6, <1>7
  <2>3. KeptNum + q \in 1 .. Len(kept \o rest) /\ KeptNum + q > KeptNum /\ KeptNum + q - KeptNum = q
    BY ONLY <1>3, <1>7, <2>1, <2>2
  <2>4. (kept \o rest)[KeptNum + q] = rest[KeptNum + q - KeptNum]
    BY <1>6, <1>7, <2>3
  <2> QED BY <1>8, <2>3, <2>4
<1>11. RangesAt(b)[d + 1][1] \in Column /\ FT!KeyOf(RangesAt(b)[d + 1][1]) = KeyAt(b)
  <2>1. \A c \in RangesAt(b)[d + 1][1] .. RangesAt(b)[d + 1][2] - 1 : c \in Column /\ FT!KeyOf(c) = KeyAt(b)
    BY <1>5 DEF LayoutOK
  <2>2. RangesAt(b)[d + 1][1] \in Column /\ RangesAt(b)[d + 1][1] < RangesAt(b)[d + 1][2]
    BY <1>1, <1>4, <1>5
  <2>3. RangesAt(b)[d + 1][1] \in Int /\ RangesAt(b)[d + 1][2] \in Int
    <3>1. RangesAt(b)[d + 1] \in FT!ColumnRange
      BY <1>1, <1>5
    <3>2. RangesAt(b)[d + 1][1] \in FT!Column /\ RangesAt(b)[d + 1][2] \in 1 .. TableColumnNum
      BY <3>1 DEF FT!ColumnRange
    <3> QED BY <3>2, ColumnsOfTable DEF FT!Column
  <2> QED BY <2>1, <2>2, <2>3
<1> QED BY <1>7, <1>9, <1>10, <1>11

(* A column of a range.                                                    *)
LEMMA RangeColumn ==
  ASSUME LayoutOK, NEW b \in BucketNum + 1 .. BlockNum, NEW d \in 0 .. Iterations(b) - 1,
         NEW t \in 0 .. Sizes[b - BucketNum][d + 1] - 1
  PROVE  /\ ColumnsBefore(b) + Passing(b, d) + t + 1 \in 1 .. Len(column_order)
         /\ column_order[ColumnsBefore(b) + Passing(b, d) + t + 1] \in Column
         /\ FT!KeyOf(column_order[ColumnsBefore(b) + Passing(b, d) + t + 1]) = KeyAt(b)
         /\ column_order[ColumnsBefore(b) + Passing(b, d) + t + 1] = RangesAt(b)[d + 1][1] + t
<1> DEFINE n    == b - BucketNum
           kept == FlattenSeq(Buckets)
           rest == FlattenSeq(Moved)
           j    == d + 1
           i    == Before(Extents(RangesAt(b)), j) + t + 1
           q    == Before(Lens(Moved), n) + i
<1>1. /\ n \in 1 .. Len(range_order) /\ Moved \in Seq(Seq(Column)) /\ Len(Moved) = Len(range_order)
      /\ Buckets \in Seq(Seq(Column)) /\ Len(Buckets) = BucketNum
      /\ RangesAt(b) \in Seq(FT!ColumnRange) /\ Moved[n] = RangesColumns(RangesAt(b))
      /\ Sizes[n] = Extents(RangesAt(b))
      /\ \A k \in 1 .. Len(RangesAt(b)) :
           /\ RangesAt(b)[k][1] < RangesAt(b)[k][2]
           /\ \A c \in RangesAt(b)[k][1] .. RangesAt(b)[k][2] - 1 : c \in Column
      /\ Len(RangesAt(b)) \in Nat /\ BucketNum \in Nat
  BY LayoutIs
<1>2. /\ Iterations(b) = Len(RangesAt(b)) /\ ColumnsBefore(b) = KeptNum + Before(Lens(Moved), n)
      /\ \A m \in 1 .. Len(range_order) + 1 : Before(Lens(Moved), m) \in Nat
      /\ Passing(b, d) \in Nat
  <2>1. /\ Iterations(b) = Len(RangesAt(b)) /\ ColumnsBefore(b) = KeptNum + Before(Lens(Moved), n)
        /\ \A m \in 1 .. Len(range_order) + 1 : Before(Lens(Moved), m) \in Nat
        /\ \A e \in 0 .. Iterations(b) : Passing(b, e) \in Nat
    BY RangePlaces
  <2>2. d \in 0 .. Iterations(b)
    BY <1>1, <2>1
  <2> QED BY <2>1, <2>2
<1>3. Passing(b, d) = Before(Extents(RangesAt(b)), j)
  <2>1. ~ (b <= BucketNum) /\ b <= BlockNum
    <3>1. BlockNum \in Nat
      BY PlacesAre
    <3> QED BY <1>1, <3>1
  <2> QED BY <1>1, <2>1 DEF Passing
<1>4. Before(Lens(Moved), n) \in Nat /\ KeptNum \in Nat
  <2>1. n \in 1 .. Len(range_order) + 1
    BY <1>1
  <2> QED BY <1>2, <2>1, BucketPlaces
<1>5. j \in 1 .. Len(RangesAt(b)) /\ t \in 0 .. Extents(RangesAt(b))[j] - 1
  BY <1>1, <1>2
<1> HIDE DEF n, j
<1>6. i \in 1 .. Len(Moved[n]) /\ Moved[n][i] = RangesAt(b)[j][1] + t
      /\ Extents(RangesAt(b))[j] = RangesAt(b)[j][2] - RangesAt(b)[j][1]
  <2>1. /\ \A m \in 1 .. Len(RangesAt(b)) : Extents(RangesAt(b))[m] = RangesAt(b)[m][2] - RangesAt(b)[m][1]
        /\ \A m \in 1 .. Len(RangesAt(b)) : \A u \in 0 .. Extents(RangesAt(b))[m] - 1 :
             /\ Before(Extents(RangesAt(b)), m) + u + 1 \in 1 .. Len(RangesColumns(RangesAt(b)))
             /\ RangesColumns(RangesAt(b))[Before(Extents(RangesAt(b)), m) + u + 1] = RangesAt(b)[m][1] + u
    BY <1>1, RangesColumnsAt
  <2>2. Moved[n] = RangesColumns(RangesAt(b))
    BY <1>1
  <2> QED BY ONLY <1>5, <2>1, <2>2
<1> HIDE DEF i
<1>7. kept \in Seq(Column) /\ Len(kept) = KeptNum
  BY <1>1, FlattenAt DEF KeptNum
<1>8. rest \in Seq(Column) /\ q \in 1 .. Len(rest) /\ rest[q] = Moved[n][i]
  <2>1. /\ FlattenSeq(Moved) \in Seq(Column)
        /\ \A m \in 1 .. Len(Moved) : \A k \in 1 .. Len(Moved[m]) :
               /\ Before(Lens(Moved), m) + k \in 1 .. Len(FlattenSeq(Moved))
               /\ FlattenSeq(Moved)[Before(Lens(Moved), m) + k] = Moved[m][k]
    BY <1>1, FlattenAt
  <2>2. n \in 1 .. Len(Moved)
    BY <1>1
  <2> QED BY ONLY <1>6, <2>1, <2>2 DEF rest, q
<1>9. column_order = kept \o rest
  BY DEF LayoutOK
<1>10. KeptNum + q = ColumnsBefore(b) + Passing(b, d) + t + 1
  <2>1. t \in Int
    OBVIOUS
  <2>2. i = Passing(b, d) + t + 1
    BY <1>3 DEF i
  <2> QED BY ONLY <1>2, <1>4, <2>1, <2>2 DEF q
<1> HIDE DEF kept, rest, q
<1>11. KeptNum + q \in 1 .. Len(column_order) /\ column_order[KeptNum + q] = rest[q]
  <2>1. Len(rest) \in Nat /\ q \in Int
    BY <1>8
  <2>2. Len(kept \o rest) = KeptNum + Len(rest)
    BY <1>7, <1>8
  <2>3. KeptNum + q \in 1 .. Len(kept \o rest) /\ KeptNum + q > KeptNum /\ KeptNum + q - KeptNum = q
    BY ONLY <1>4, <1>8, <2>1, <2>2
  <2>4. (kept \o rest)[KeptNum + q] = rest[KeptNum + q - KeptNum]
    BY <1>7, <1>8, <2>3
  <2> QED BY <1>9, <2>3, <2>4
<1>12. Moved[n][i] \in Column /\ FT!KeyOf(Moved[n][i]) = KeyAt(b)
  <2>1. \A c \in RangesAt(b)[j][1] .. RangesAt(b)[j][2] - 1 : c \in Column /\ FT!KeyOf(c) = KeyAt(b)
    BY <1>5 DEF LayoutOK
  <2>2. RangesAt(b)[j][1] \in Int /\ RangesAt(b)[j][2] \in Int
    <3>1. RangesAt(b)[j] \in FT!ColumnRange
      BY <1>1, <1>5
    <3>2. RangesAt(b)[j][1] \in FT!Column /\ RangesAt(b)[j][2] \in 1 .. TableColumnNum
      BY <3>1 DEF FT!ColumnRange
    <3> QED BY <3>2, ColumnsOfTable DEF FT!Column
  <2>3. RangesAt(b)[j][1] + t \in RangesAt(b)[j][1] .. RangesAt(b)[j][2] - 1
    BY <1>5, <1>6, <2>2
  <2> QED BY <1>6, <2>1, <2>3
<1> QED BY <1>6, <1>8, <1>10, <1>11, <1>12 DEF j

-----------------------------------------------------------------------------
(* Where the pointers of the code stand.                                   *)

(* The first n visits of an array are recorded one behind the other.       *)
Written(name, v)  == Len(Transform!EntriesOf(name, Transform!VisitOrder(name)[v]))
Recorded(name, n) ==
  /\ VisitEnd(name, 0) = 0 /\ \A v \in 0 .. n : VisitEnd(name, v) \in Nat
  /\ \A v \in 1 .. n : VisitEnd(name, v) = VisitEnd(name, v - 1) + Written(name, v)
RecordedAll == \A name \in Transform!StreamName : Recorded(name, Len(Transform!VisitOrder(name)))

(* Visits of the scatter array: columns of buckets and ranges begun.       *)
ScatterAt == IF block <= BucketNum THEN executed ELSE KeptNum + range_pointer

(* Every pointer stands behind the entries of the columns executed, which  *)
(* are those kept in buckets and all of the ranges begun, but for what is  *)
(* left of the range that runs.                                            *)
AlignOK ==
  /\ DOMAIN pointer = Transform!StreamName
  /\ pointer["data"]      = VisitEnd("data", executed)
  /\ pointer["gather"]    = VisitEnd("gather", executed)
  /\ pointer["reduction"] = VisitEnd("reduction", executed)
  /\ pointer["scatter"]   = VisitEnd("scatter", ScatterAt)
  /\ block > BucketNum =>
       executed = KeptNum + Before(range_num, range_pointer + 1)
                    - (IF InRange THEN inner.size - inner.taken ELSE 0)

(* What the code relies on.                                                *)
PlannedOK == LayoutOK /\ CodeOK /\ Len(code) = BlockNum /\ range_num = FlattenSeq(Sizes) /\ PlaceOK
StandOK   == PlannedOK /\ StaticOK /\ FeaturesApart /\ RecordedAll /\ AlignOK
StandFrame == Frame /\ UNCHANGED <<stream, offset, range_num>>

(* The end of a visit lies behind the one before by what was written.      *)
LEMMA NextVisit ==
  ASSUME RecordedAll, NEW name \in Transform!StreamName, NEW v \in Nat,
         v + 1 \in 1 .. Len(Transform!VisitOrder(name))
  PROVE  VisitEnd(name, v + 1) = VisitEnd(name, v) + Len(Transform!EntriesOf(name, Transform!VisitOrder(name)[v + 1]))
<1>1. VisitEnd(name, v + 1) = VisitEnd(name, v + 1 - 1) + Written(name, v + 1)
  BY DEF RecordedAll, Recorded
<1>2. v + 1 - 1 = v
  OBVIOUS
<1> QED BY <1>1, <1>2 DEF Written

(* The visits are not changed while the code runs.                         *)
LEMMA VisitFrame ==
  ASSUME UNCHANGED <<stream, offset>>
  PROVE  \A name, n : VisitEnd(name, n)' = VisitEnd(name, n)
BY DEF VisitEnd

(* Two of the walks are one.                                               *)
LEMMA VisitOrders ==
  /\ Transform!VisitOrder("data") = column_order /\ Transform!VisitOrder("gather") = column_order
  /\ Transform!VisitOrder("reduction") = column_order /\ Transform!VisitOrder("scatter") = scatter_order
  /\ Transform!StreamName = {"data", "scatter", "reduction", "gather"}
BY DEF Transform!VisitOrder, Transform!StreamName

(* Where an iteration of a bucket's loop is, ...                           *)
LEMMA AtBucket ==
  ASSUME PlannedOK, Run!InLoop(FALSE)
  PROVE  /\ block \in 1 .. BucketNum /\ block \in 1 .. BlockNum
         /\ done_iters \in 0 .. Iterations(block) - 1 /\ Iterations(block) > 0
         /\ executed = ColumnsBefore(block) + done_iters
         /\ ColumnsBefore(block) \in Nat /\ executed \in Nat
         /\ ~ InRange
<1>1. BlockNum \in Nat /\ BucketNum \in Nat /\ BlockNum >= BucketNum
  BY LayoutIs DEF PlannedOK
<1>2. /\ block \in 1 .. BlockNum + 1 /\ block <= Len(code) /\ ~ InRange
      /\ code[block].ranges = FALSE /\ done_iters < code[block].circle_num
      /\ done_iters \in 0 .. Iterations(block)
      /\ executed = ColumnsBefore(block) + Passing(block, done_iters) + 0
  BY DEF Run!InLoop, Run!Current, InRange, PlaceOK, PlannedOK
<1>3. block \in 1 .. BlockNum
  BY <1>1, <1>2 DEF PlannedOK
<1>4. code[block].circle_num = Iterations(block) /\ block <= BucketNum
  BY <1>2, <1>3, LoopIs DEF PlannedOK
<1>5. block \in 1 .. BucketNum
  BY <1>1, <1>3, <1>4
<1>6. Iterations(block) \in Nat /\ ColumnsBefore(block) \in Nat /\ Passing(block, done_iters) = done_iters
  BY <1>5, BucketPlaces DEF PlannedOK
<1> QED BY <1>2, <1>3, <1>4, <1>5, <1>6

(* ... one of a loop of ranges, when a range is to begin, ...              *)
LEMMA AtRange ==
  ASSUME PlannedOK, Run!InLoop(TRUE)
  PROVE  /\ block \in BucketNum + 1 .. BlockNum /\ block \in 1 .. BlockNum
         /\ done_iters \in 0 .. Iterations(block) - 1 /\ Iterations(block) > 0
         /\ range_pointer = RangesBefore(block) + done_iters /\ range_pointer \in Nat
         /\ ~ InRange
<1>1. BlockNum \in Nat /\ BucketNum \in Nat /\ BlockNum >= BucketNum
  BY LayoutIs DEF PlannedOK
<1>2. /\ block \in 1 .. BlockNum + 1 /\ block <= Len(code) /\ ~ InRange
      /\ code[block].ranges = TRUE /\ done_iters < code[block].circle_num
      /\ done_iters \in 0 .. Iterations(block)
      /\ range_pointer = RangesBefore(block) + (IF block <= BucketNum THEN 0 ELSE done_iters + 0)
  BY DEF Run!InLoop, Run!Current, InRange, PlaceOK, PlannedOK
<1>3. block \in 1 .. BlockNum
  BY <1>1, <1>2 DEF PlannedOK
<1>4. code[block].circle_num = Iterations(block) /\ ~ (block <= BucketNum)
  BY <1>2, <1>3, LoopIs DEF PlannedOK
<1>5. block \in BucketNum + 1 .. BlockNum
  BY <1>1, <1>3, <1>4
<1>6. Iterations(block) \in Nat /\ RangesBefore(block) \in Nat
  BY <1>3, PlacesAre DEF PlannedOK
<1> QED BY <1>2, <1>3, <1>4, <1>5, <1>6

(* ... and one of the columns of a range.                                  *)
LEMMA AtRangeColumn ==
  ASSUME PlannedOK, InRange
  PROVE  /\ block \in BucketNum + 1 .. BlockNum /\ block \in 1 .. BlockNum /\ block > BucketNum
         /\ done_iters \in 0 .. Iterations(block) - 1 /\ Iterations(block) > 0
         /\ inner.taken \in Nat /\ inner.size \in Nat /\ inner.taken <= inner.size
         /\ inner.size = Sizes[block - BucketNum][done_iters + 1]
         /\ {"size", "taken"} \subseteq DOMAIN inner
         /\ executed = ColumnsBefore(block) + Passing(block, done_iters) + inner.taken
         /\ executed \in Nat
<1>1. BlockNum \in Nat /\ BucketNum \in Nat /\ BlockNum >= BucketNum
  BY LayoutIs DEF PlannedOK
<1>2. /\ block \in BucketNum + 1 .. BlockNum /\ done_iters < Iterations(block) /\ done_iters \in 0 .. Iterations(block)
      /\ {"size", "taken"} \subseteq DOMAIN inner
      /\ inner.size = Sizes[block - BucketNum][done_iters + 1]
      /\ inner.taken \in 0 .. inner.size
      /\ executed = ColumnsBefore(block) + Passing(block, done_iters) + inner.taken
  BY DEF PlaceOK, PlannedOK
<1>3. block \in 1 .. BlockNum /\ block > BucketNum
  BY <1>1, <1>2
<1>4. /\ Iterations(block) \in Nat /\ ColumnsBefore(block) \in Nat
      /\ \A d \in 0 .. Iterations(block) : Passing(block, d) \in Nat
  BY <1>3, PlacesAre DEF PlannedOK
<1>5. done_iters \in 0 .. Iterations(block) - 1 /\ Passing(block, done_iters) \in Nat
  BY <1>2, <1>4
<1>6. inner.size \in Nat
  BY <1>2, <1>5, RangePlaces DEF PlannedOK
<1>7. inner.taken \in Nat /\ inner.taken <= inner.size
  BY <1>2, <1>6
<1> QED BY <1>2, <1>3, <1>4, <1>5, <1>6, <1>7

(* The visits a column has are over when the code moves on from it, in the *)
(* arrays that are walked column by column ...                             *)
LEMMA ColumnTaken ==
  ASSUME StandOK, block \in 1 .. BlockNum, Iterations(block) > 0, executed \in Nat,
         executed + 1 \in 1 .. Len(column_order), column_order[executed + 1] \in Column,
         FT!KeyOf(column_order[executed + 1]) = KeyAt(block)
  PROVE  /\ pointer["data"] + Vector = VisitEnd("data", executed + 1)
         /\ pointer["gather"] + Run!GatherAdvance(code[block].gather) = VisitEnd("gather", executed + 1)
         /\ pointer["reduction"] + Run!ReductionAdvance(code[block].reduction) = VisitEnd("reduction", executed + 1)
         /\ block \in BucketNum + 1 .. BlockNum => pointer["reduction"] = VisitEnd("reduction", executed + 1)
<1> DEFINE c == column_order[executed + 1]
<1>1. /\ Vector = Len(Transform!EntriesOf("data", c))
      /\ Run!GatherAdvance(code[block].gather) = Len(Transform!EntriesOf("gather", c))
      /\ Run!ReductionAdvance(code[block].reduction) = Len(Transform!EntriesOf("reduction", c))
      /\ block \in BucketNum + 1 .. BlockNum => Len(Transform!EntriesOf("reduction", c)) = 0
  BY LoopTakes DEF StandOK, PlannedOK
<1> HIDE DEF c
<1>2. ASSUME NEW name \in {"data", "gather", "reduction"}
      PROVE  /\ VisitEnd(name, executed + 1) = VisitEnd(name, executed) + Len(Transform!EntriesOf(name, c))
             /\ VisitEnd(name, executed) \in Nat
  <2>1. Transform!VisitOrder(name) = column_order /\ name \in Transform!StreamName
    BY VisitOrders
  <2>2. VisitEnd(name, executed + 1) = VisitEnd(name, executed) + Len(Transform!EntriesOf(name, c))
    BY <2>1, NextVisit DEF StandOK, c
  <2>3. executed \in 0 .. Len(column_order)
    OBVIOUS
  <2>4. VisitEnd(name, executed) \in Nat
    BY <2>1, <2>3 DEF StandOK, RecordedAll, Recorded
  <2> QED BY <2>2, <2>4
<1>3. /\ pointer["data"] = VisitEnd("data", executed) /\ pointer["gather"] = VisitEnd("gather", executed)
      /\ pointer["reduction"] = VisitEnd("reduction", executed)
  BY DEF StandOK, AlignOK
<1> QED BY <1>1, <1>2, <1>3

(* ... and in the scatter array.                                           *)
LEMMA ScatterTaken ==
  ASSUME StandOK, block \in 1 .. BlockNum, Iterations(block) > 0, NEW n \in Nat, ScatterAt = n,
         n + 1 \in 1 .. Len(scatter_order), scatter_order[n + 1] \in Column,
         FT!KeyOf(scatter_order[n + 1]) = KeyAt(block)
  PROVE  pointer["scatter"] + Run!ScatterAdvance(code[block].scatter) = VisitEnd("scatter", n + 1)
<1>1. Run!ScatterAdvance(code[block].scatter) = Len(Transform!EntriesOf("scatter", scatter_order[n + 1]))
  BY LoopTakes DEF StandOK, PlannedOK
<1>2. VisitEnd("scatter", n + 1) = VisitEnd("scatter", n) + Len(Transform!EntriesOf("scatter", scatter_order[n + 1]))
  BY VisitOrders, NextVisit DEF StandOK
<1>3. pointer["scatter"] = VisitEnd("scatter", n)
  BY DEF StandOK, AlignOK
<1> QED BY <1>1, <1>2, <1>3

(* An iteration of a bucket's loop.                                        *)
LEMMA RunColumnAlign ==
  ASSUME StandOK, StandFrame, Run!RunColumn
  PROVE  AlignOK'
<1>1. Run!InLoop(FALSE) /\ pointer' = Run!AdvancedBucket(pointer) /\ executed' = executed + 1
      /\ block' = block /\ inner' = inner
  BY DEF Run!RunColumn
<1>2. /\ block \in 1 .. BucketNum /\ block \in 1 .. BlockNum
      /\ done_iters \in 0 .. Iterations(block) - 1 /\ Iterations(block) > 0
      /\ executed = ColumnsBefore(block) + done_iters /\ executed \in Nat /\ ~ InRange
  BY <1>1, AtBucket DEF StandOK
<1>3. /\ executed + 1 \in 1 .. Len(column_order) /\ executed + 1 \in 1 .. Len(scatter_order)
      /\ column_order[executed + 1] = BucketAt(block)[done_iters + 1]
      /\ scatter_order[executed + 1] = BucketAt(block)[done_iters + 1]
      /\ BucketAt(block)[done_iters + 1] \in Column /\ FT!KeyOf(BucketAt(block)[done_iters + 1]) = KeyAt(block)
  BY <1>2, BucketColumn DEF StandOK, PlannedOK
<1>4. /\ pointer["data"] + Vector = VisitEnd("data", executed + 1)
      /\ pointer["gather"] + Run!GatherAdvance(code[block].gather) = VisitEnd("gather", executed + 1)
      /\ pointer["reduction"] + Run!ReductionAdvance(code[block].reduction) = VisitEnd("reduction", executed + 1)
  BY <1>2, <1>3, ColumnTaken
<1>5. BucketNum \in Nat /\ block <= BucketNum /\ ~ (block > BucketNum)
  BY <1>2, LayoutIs DEF StandOK, PlannedOK
<1>6. pointer["scatter"] + Run!ScatterAdvance(code[block].scatter) = VisitEnd("scatter", executed + 1)
  <2>1. ScatterAt = executed
    BY <1>5 DEF ScatterAt
  <2> QED BY <1>2, <1>3, <2>1, ScatterTaken
<1>7. /\ DOMAIN pointer' = Transform!StreamName
      /\ pointer'["data"] = VisitEnd("data", executed + 1)
      /\ pointer'["gather"] = VisitEnd("gather", executed + 1)
      /\ pointer'["reduction"] = VisitEnd("reduction", executed + 1)
      /\ pointer'["scatter"] = VisitEnd("scatter", executed + 1)
  <2>1. DOMAIN pointer = {"data", "scatter", "reduction", "gather"}
    BY VisitOrders DEF StandOK, AlignOK
  <2> QED BY <1>1, <1>4, <1>6, <2>1, VisitOrders DEF Run!AdvancedBucket, Run!Current
<1>8. BucketNum' = BucketNum /\ ScatterAt' = executed'
  <2>1. BucketNum' = BucketNum
    BY PlanFrame DEF StandFrame, Frame
  <2> QED BY <1>1, <1>5, <2>1 DEF ScatterAt
<1>9. \A name, n : VisitEnd(name, n)' = VisitEnd(name, n)
  BY VisitFrame DEF StandFrame
<1>10. Transform!StreamName' = Transform!StreamName
  BY DEF Transform!StreamName
<1> QED BY <1>1, <1>5, <1>7, <1>8, <1>9, <1>10 DEF AlignOK

(* A range begins.                                                         *)
LEMMA BeginRangeAlign ==
  ASSUME StandOK, StandFrame, Run!BeginRange
  PROVE  AlignOK'
<1>1. /\ Run!InLoop(TRUE) /\ executed' = executed /\ block' = block
      /\ inner' = [size |-> Run!At(range_num, range_pointer + 1), taken |-> 0, reduce_var |-> Run!ZeroLanes,
                   entry |-> Run!ScatterEntry, loaded |-> Run!Loaded(Run!ScatterEntry)]
      /\ range_pointer' = range_pointer + 1
      /\ pointer' = [pointer EXCEPT !["scatter"] = @ + Run!ScatterAdvance(Run!Current.scatter)]
  BY DEF Run!BeginRange
<1>2. /\ block \in BucketNum + 1 .. BlockNum /\ block \in 1 .. BlockNum
      /\ done_iters \in 0 .. Iterations(block) - 1 /\ Iterations(block) > 0
      /\ range_pointer = RangesBefore(block) + done_iters /\ range_pointer \in Nat /\ ~ InRange
  BY <1>1, AtRange DEF StandOK
<1>3. BucketNum \in Nat /\ ~ (block <= BucketNum) /\ block > BucketNum /\ KeptNum \in Nat
  BY <1>2, LayoutIs, BucketPlaces DEF StandOK, PlannedOK
<1> DEFINE n == KeptNum + range_pointer
<1>4. n \in Nat /\ n + 1 \in 1 .. Len(scatter_order) /\ scatter_order[n + 1] \in Column
      /\ FT!KeyOf(scatter_order[n + 1]) = KeyAt(block)
  <2>1. /\ KeptNum + RangesBefore(block) + done_iters + 1 \in 1 .. Len(scatter_order)
        /\ scatter_order[KeptNum + RangesBefore(block) + done_iters + 1] \in Column
        /\ FT!KeyOf(scatter_order[KeptNum + RangesBefore(block) + done_iters + 1]) = KeyAt(block)
    BY <1>2, RangeFirst DEF StandOK, PlannedOK
  <2>2. RangesBefore(block) \in Nat /\ done_iters \in Int
    BY <1>2, RangeNumAt DEF StandOK, PlannedOK
  <2>3. n + 1 = KeptNum + RangesBefore(block) + done_iters + 1 /\ n \in Nat
    BY ONLY <1>2, <1>3, <2>2
  <2> HIDE DEF n
  <2> QED BY <2>1, <2>3
<1> HIDE DEF n
<1>5. pointer["scatter"] + Run!ScatterAdvance(code[block].scatter) = VisitEnd("scatter", n + 1)
  <2>1. ScatterAt = n
    BY <1>3 DEF ScatterAt, n
  <2> QED BY <1>2, <1>4, <2>1, ScatterTaken
<1>6. BucketNum' = BucketNum /\ KeptNum' = KeptNum
  BY PlanFrame DEF StandFrame, Frame
<1>7. ScatterAt' = n + 1
  BY <1>1, <1>2, <1>3, <1>6 DEF ScatterAt, n
<1>8. /\ DOMAIN pointer' = Transform!StreamName
      /\ pointer'["data"] = pointer["data"] /\ pointer'["gather"] = pointer["gather"]
      /\ pointer'["reduction"] = pointer["reduction"]
      /\ pointer'["scatter"] = VisitEnd("scatter", n + 1)
  <2>1. DOMAIN pointer = {"data", "scatter", "reduction", "gather"}
    BY VisitOrders DEF StandOK, AlignOK
  <2> QED BY <1>1, <1>5, <2>1, VisitOrders DEF Run!Current
<1>9. /\ pointer["data"] = VisitEnd("data", executed) /\ pointer["gather"] = VisitEnd("gather", executed)
      /\ pointer["reduction"] = VisitEnd("reduction", executed)
      /\ executed = KeptNum + Before(range_num, range_pointer + 1) - 0
  BY <1>2, <1>3 DEF StandOK, AlignOK
<1>10. InRange' /\ inner'.taken = 0 /\ inner'.size = range_num[range_pointer + 1]
  <2>1. range_pointer + 1 \in 1 .. Len(range_num) /\ range_num \in Seq(Nat)
    <3>1. /\ RangesBefore(block) + done_iters + 1 \in 1 .. Len(FlattenSeq(Sizes))
          /\ FlattenSeq(Sizes) \in Seq(Nat)
      BY <1>2, RangeNumAt DEF StandOK, PlannedOK
    <3> QED BY <1>2, <3>1 DEF StandOK, PlannedOK
  <2>2. Run!At(range_num, range_pointer + 1) = range_num[range_pointer + 1]
    BY <2>1 DEF Run!At
  <2>3. inner' # Run!NoRange
    BY <1>1 DEF Run!NoRange
  <2>4. InRange'
    BY <2>3 DEF InRange, Run!NoRange
  <2> QED BY <1>1, <2>2, <2>4
<1>11. /\ Before(range_num, range_pointer + 1 + 1) = Before(range_num, range_pointer + 1) + range_num[range_pointer + 1]
       /\ Before(range_num, range_pointer + 1) \in Nat /\ range_num[range_pointer + 1] \in Nat
  <2>1. /\ RangesBefore(block) + done_iters + 1 \in 1 .. Len(FlattenSeq(Sizes))
        /\ FlattenSeq(Sizes) \in Seq(Nat)
    BY <1>2, RangeNumAt DEF StandOK, PlannedOK
  <2>2. range_pointer + 1 \in 1 .. Len(range_num) /\ Len(range_num) \in Nat
        /\ \A b \in 1 .. Len(range_num) : range_num[b] \in Nat
    BY <1>2, <2>1 DEF StandOK, PlannedOK
  <2>3. range_pointer + 1 \in 1 .. Len(range_num) + 1
    BY <2>2
  <2> QED BY <2>2, <2>3, BeforeSums
<1>12. executed = KeptNum + Before(range_num, range_pointer + 1 + 1) - (range_num[range_pointer + 1] - 0)
  <2> DEFINE a == Before(range_num, range_pointer + 1)
             s == range_num[range_pointer + 1]
  <2>1. executed = KeptNum + a - 0 /\ a \in Nat /\ s \in Nat /\ Before(range_num, range_pointer + 1 + 1) = a + s
    BY <1>9, <1>11
  <2> HIDE DEF a
  <2> QED BY ONLY <1>3, <2>1 DEF s
<1>13. \A name, m : VisitEnd(name, m)' = VisitEnd(name, m)
  BY VisitFrame DEF StandFrame
<1>14. Transform!StreamName' = Transform!StreamName
  BY DEF Transform!StreamName
<1>15. Before(range_num, range_pointer + 1)' = Before(range_num, range_pointer + 1 + 1)
  BY <1>1 DEF StandFrame, Before, Weight, Stack
<1>16. executed' = KeptNum' + Before(range_num, range_pointer + 1)' - (inner'.size - inner'.taken)
  BY <1>1, <1>6, <1>10, <1>12, <1>15
<1> QED BY <1>1, <1>7, <1>8, <1>9, <1>10, <1>13, <1>14, <1>16 DEF AlignOK

(* The sizes taken are some of those there are.                            *)
LEMMA SizesTaken ==
  ASSUME PlannedOK
  PROVE  /\ range_num \in Seq(Nat) /\ range_pointer \in 0 .. Len(range_num)
         /\ Before(range_num, 1) = 0
         /\ \A k \in 1 .. Len(range_num) + 1 : Before(range_num, k) \in Nat
<1>1. /\ BucketNum \in Nat /\ Len(range_order) \in Nat /\ BlockNum = BucketNum + Len(range_order)
      /\ Sizes \in Seq(Seq(Nat)) /\ Len(Sizes) = Len(range_order)
  BY LayoutIs DEF PlannedOK
<1>2. range_num \in Seq(Nat)
  BY <1>1, FlattenAt DEF PlannedOK
<1>3. Before(range_num, 1) = 0 /\ \A k \in 1 .. Len(range_num) + 1 : Before(range_num, k) \in Nat
  <2>1. Len(range_num) \in Nat /\ \A b \in 1 .. Len(range_num) : range_num[b] \in Nat
    BY <1>2
  <2> QED BY <2>1, BeforeSums
<1>4. ASSUME NEW b \in BucketNum + 1 .. BlockNum
      PROVE  /\ Iterations(b) \in Nat /\ RangesBefore(b) \in Nat
             /\ \A d \in 0 .. Iterations(b) : RangesBefore(b) + d \in 0 .. Len(range_num)
  <2>1. Iterations(b) \in Nat /\ Iterations(b) > 0
    BY LayoutIs, RangePlaces DEF PlannedOK
  <2>2. ASSUME NEW d \in 0 .. Iterations(b) - 1
        PROVE  RangesBefore(b) + d + 1 \in 1 .. Len(range_num) /\ RangesBefore(b) \in Nat
    BY RangeNumAt DEF PlannedOK
  <2>3. 0 \in 0 .. Iterations(b) - 1
    BY <2>1
  <2>4. RangesBefore(b) \in Nat /\ Len(range_num) \in Nat
    BY <1>2, <2>2, <2>3
  <2>5. ASSUME NEW d \in 0 .. Iterations(b) PROVE RangesBefore(b) + d \in 0 .. Len(range_num)
    <3>1. CASE d = 0
      <4>1. RangesBefore(b) + 0 + 1 \in 1 .. Len(range_num)
        BY <2>2, <2>3
      <4> QED BY <2>4, <3>1, <4>1
    <3>2. CASE d # 0
      <4> DEFINE e == d - 1
      <4>1. e \in 0 .. Iterations(b) - 1 /\ RangesBefore(b) + e + 1 = RangesBefore(b) + d
        BY <2>1, <2>4, <3>2
      <4> HIDE DEF e
      <4>2. RangesBefore(b) + e + 1 \in 1 .. Len(range_num)
        BY <2>2, <4>1
      <4> QED BY <2>4, <4>1, <4>2
    <3> QED BY <3>1, <3>2
  <2> QED BY <2>1, <2>4, <2>5
<1>5. /\ block \in 1 .. BlockNum + 1 /\ done_iters \in 0 .. Iterations(block)
      /\ range_pointer = RangesBefore(block)
           + (IF block <= BucketNum THEN 0 ELSE done_iters + (IF InRange THEN 1 ELSE 0))
      /\ InRange => block \in BucketNum + 1 .. BlockNum /\ done_iters < Iterations(block)
  BY DEF PlannedOK, PlaceOK
<1>6. CASE block <= BucketNum
  <2>1. block \in 1 .. BucketNum
    BY <1>1, <1>5, <1>6
  <2>2. RangesBefore(block) = 0
    BY <2>1, BucketPlaces DEF PlannedOK
  <2>3. range_pointer = 0 /\ Len(range_num) \in Nat
    BY <1>2, <1>5, <1>6, <2>2
  <2> QED BY <1>2, <1>3, <2>3
<1>7. CASE ~ (block <= BucketNum) /\ block <= BlockNum
  <2>1. block \in BucketNum + 1 .. BlockNum
    BY <1>1, <1>5, <1>7
  <2> DEFINE d == done_iters + (IF InRange THEN 1 ELSE 0)
  <2>2. d \in 0 .. Iterations(block) /\ range_pointer = RangesBefore(block) + d
    BY <1>4, <1>5, <1>7, <2>1
  <2> HIDE DEF d
  <2>3. range_pointer \in 0 .. Len(range_num)
    BY <1>4, <2>1, <2>2
  <2> QED BY <1>2, <1>3, <2>3
<1>8. CASE ~ (block <= BlockNum)
  <2>1. block = BlockNum + 1 /\ ~ (block <= BucketNum) /\ ~ InRange
    BY <1>1, <1>5, <1>8
  <2>2. done_iters = 0 /\ RangesBefore(BlockNum + 1) \in Nat
    <3>1. Iterations(BlockNum + 1) = 0
      BY PlacesAre DEF PlannedOK
    <3>2. Len(range_order) + 1 \in 1 .. Len(range_order) + 1
      BY <1>1
    <3>3. Before(Lens(Sizes), Len(range_order) + 1) \in Nat
      BY <3>2, RangePlaces DEF PlannedOK
    <3>4. block - BucketNum = Len(range_order) + 1
      BY <1>1, <2>1
    <3>5. RangesBefore(block) = Before(Lens(Sizes), block - BucketNum)
      BY <2>1 DEF RangesBefore
    <3> QED BY <1>5, <2>1, <3>1, <3>3, <3>4, <3>5
  <2>3. range_pointer = RangesBefore(BlockNum + 1)
    BY <1>5, <2>1, <2>2
  <2>4. RangesBefore(BlockNum + 1) \in 0 .. Len(range_num)
    <3>1. CASE Len(range_order) = 0
      <4>1. block - BucketNum = 1
        BY <1>1, <2>1, <3>1
      <4>2. RangesBefore(block) = Before(Lens(Sizes), block - BucketNum)
        BY <2>1 DEF RangesBefore
      <4>3. RangesBefore(BlockNum + 1) = 0
        BY <2>1, <4>1, <4>2, RangePlaces DEF PlannedOK
      <4>4. Len(range_num) \in Nat
        BY <1>2
      <4> QED BY <4>3, <4>4
    <3>2. CASE Len(range_order) # 0
      <4>1. BlockNum \in BucketNum + 1 .. BlockNum /\ BlockNum \in 1 .. BlockNum /\ ~ (BlockNum <= BucketNum)
        BY <1>1, <3>2
      <4>2. RangesBefore(BlockNum + 1) = RangesBefore(BlockNum) + Iterations(BlockNum)
        BY <4>1, PlacesAre DEF PlannedOK
      <4>3. Iterations(BlockNum) \in 0 .. Iterations(BlockNum)
        BY <1>4, <4>1
      <4> QED BY <1>4, <4>1, <4>2, <4>3
    <3> QED BY <3>1, <3>2
  <2> QED BY <1>2, <1>3, <2>3, <2>4
<1> QED BY <1>6, <1>7, <1>8

(* A column of a range: the pointer to the permutations stays, since none  *)
(* were written for it.                                                    *)
LEMMA RunRangeColumnAlign ==
  ASSUME StandOK, StandFrame, Run!RunRangeColumn
  PROVE  AlignOK'
<1>1. /\ InRange /\ inner.taken < inner.size /\ pointer' = Run!AdvancedInner(pointer)
      /\ inner' = [inner EXCEPT !.taken = @ + 1, !.reduce_var = Run!AddLanes(@, Run!Products)]
      /\ executed' = executed + 1 /\ block' = block /\ range_pointer' = range_pointer
  BY DEF Run!RunRangeColumn, InRange
<1>2. /\ block \in BucketNum + 1 .. BlockNum /\ block \in 1 .. BlockNum /\ block > BucketNum
      /\ done_iters \in 0 .. Iterations(block) - 1 /\ Iterations(block) > 0
      /\ inner.taken \in Nat /\ inner.size \in Nat
      /\ inner.size = Sizes[block - BucketNum][done_iters + 1]
      /\ {"size", "taken"} \subseteq DOMAIN inner
      /\ executed = ColumnsBefore(block) + Passing(block, done_iters) + inner.taken
      /\ executed \in Nat
  BY <1>1, AtRangeColumn DEF StandOK
<1>3. /\ executed + 1 \in 1 .. Len(column_order) /\ column_order[executed + 1] \in Column
      /\ FT!KeyOf(column_order[executed + 1]) = KeyAt(block)
  <2>1. inner.taken \in 0 .. Sizes[block - BucketNum][done_iters + 1] - 1
    BY <1>1, <1>2
  <2>2. /\ ColumnsBefore(block) + Passing(block, done_iters) + inner.taken + 1 \in 1 .. Len(column_order)
        /\ column_order[ColumnsBefore(block) + Passing(block, done_iters) + inner.taken + 1] \in Column
        /\ FT!KeyOf(column_order[ColumnsBefore(block) + Passing(block, done_iters) + inner.taken + 1]) = KeyAt(block)
    BY <1>2, <2>1, RangeColumn DEF StandOK, PlannedOK
  <2> QED BY <1>2, <2>2
<1>4. /\ pointer["data"] + Vector = VisitEnd("data", executed + 1)
      /\ pointer["gather"] + Run!GatherAdvance(code[block].gather) = VisitEnd("gather", executed + 1)
      /\ pointer["reduction"] = VisitEnd("reduction", executed + 1)
  BY <1>2, <1>3, ColumnTaken
<1>5. BucketNum \in Nat /\ ~ (block <= BucketNum) /\ KeptNum \in Nat
  <2>1. BucketNum \in Nat /\ KeptNum \in Nat
    BY LayoutIs, BucketPlaces DEF StandOK, PlannedOK
  <2>2. block \in Nat
    BY <1>2, <2>1
  <2> QED BY <1>2, <2>1, <2>2
<1>6. BucketNum' = BucketNum /\ KeptNum' = KeptNum
  BY PlanFrame DEF StandFrame, Frame
<1>7. ScatterAt' = ScatterAt
  BY <1>1, <1>5, <1>6 DEF ScatterAt
<1>8. pointer["scatter"] = VisitEnd("scatter", ScatterAt)
      /\ executed = KeptNum + Before(range_num, range_pointer + 1) - (inner.size - inner.taken)
  BY <1>1, <1>2 DEF StandOK, AlignOK
<1>9. /\ DOMAIN pointer' = Transform!StreamName
      /\ pointer'["data"] = VisitEnd("data", executed + 1)
      /\ pointer'["gather"] = VisitEnd("gather", executed + 1)
      /\ pointer'["reduction"] = VisitEnd("reduction", executed + 1)
      /\ pointer'["scatter"] = VisitEnd("scatter", ScatterAt)
  <2>1. DOMAIN pointer = {"data", "scatter", "reduction", "gather"}
    BY VisitOrders DEF StandOK, AlignOK
  <2> QED BY <1>1, <1>4, <1>8, <2>1, VisitOrders DEF Run!AdvancedInner, Run!Current
<1>10. InRange' /\ inner'.taken = inner.taken + 1 /\ inner'.size = inner.size
  <2>1. inner'.taken = inner.taken + 1 /\ inner'.size = inner.size /\ "taken" \in DOMAIN inner'
    BY <1>1, <1>2
  <2>2. "taken" \notin DOMAIN Run!NoRange
    BY DEF Run!NoRange
  <2>3. inner' # Run!NoRange
    BY <2>1, <2>2
  <2>4. InRange'
    BY <2>3 DEF InRange, Run!NoRange
  <2> QED BY <2>1, <2>4
<1>11. \A name, n : VisitEnd(name, n)' = VisitEnd(name, n)
  BY VisitFrame DEF StandFrame
<1>12. Transform!StreamName' = Transform!StreamName
  BY DEF Transform!StreamName
<1>13. Before(range_num, range_pointer + 1)' = Before(range_num, range_pointer + 1)
  BY <1>1 DEF StandFrame, Before, Weight, Stack
<1>14. Before(range_num, range_pointer + 1) \in Int
  <2>1. range_pointer + 1 \in 1 .. Len(range_num) + 1
    BY SizesTaken DEF StandOK
  <2> QED BY <2>1, SizesTaken DEF StandOK
<1>15. executed + 1 = KeptNum + Before(range_num, range_pointer + 1) - (inner.size - (inner.taken + 1))
  <2> DEFINE a == Before(range_num, range_pointer + 1)
  <2>1. a \in Int /\ executed = KeptNum + a - (inner.size - inner.taken)
    BY <1>8, <1>14
  <2> HIDE DEF a
  <2>2. executed + 1 = KeptNum + a - (inner.size - (inner.taken + 1))
    BY ONLY <1>2, <1>5, <2>1
  <2> QED BY <2>2 DEF a
<1>16. executed' = KeptNum' + Before(range_num, range_pointer + 1)' - (inner'.size - inner'.taken)
  BY <1>1, <1>6, <1>10, <1>13, <1>15
<1> QED BY <1>1, <1>7, <1>9, <1>10, <1>11, <1>12, <1>16 DEF AlignOK

(* The range is over: the pointer to the permutations moves by none.       *)
LEMMA EndRangeAlign ==
  ASSUME StandOK, StandFrame, Run!EndRange
  PROVE  AlignOK'
<1>1. /\ InRange /\ inner.taken >= inner.size /\ inner' = Run!NoRange
      /\ pointer' = [pointer EXCEPT !["reduction"] = @ + Run!ReductionAdvance(Run!Current.reduction)]
      /\ executed' = executed /\ block' = block /\ range_pointer' = range_pointer
  BY DEF Run!EndRange, InRange
<1>2. /\ block \in BucketNum + 1 .. BlockNum /\ block \in 1 .. BlockNum /\ block > BucketNum
      /\ done_iters \in 0 .. Iterations(block) - 1 /\ Iterations(block) > 0
      /\ inner.taken \in Nat /\ inner.size \in Nat /\ inner.taken <= inner.size
      /\ inner.size = Sizes[block - BucketNum][done_iters + 1]
      /\ executed = ColumnsBefore(block) + Passing(block, done_iters) + inner.taken
      /\ executed \in Nat
  BY <1>1, AtRangeColumn DEF StandOK
<1>3. inner.size - inner.taken = 0 /\ inner.size > 0
  <2>1. Sizes[block - BucketNum][done_iters + 1] > 0
    BY <1>2, RangePlaces DEF StandOK, PlannedOK
  <2> QED BY <1>1, <1>2, <2>1
<1>4. executed \in 1 .. Len(column_order) /\ column_order[executed] \in Column
      /\ FT!KeyOf(column_order[executed]) = KeyAt(block)
  <2> DEFINE t == inner.taken - 1
  <2>1. t \in 0 .. Sizes[block - BucketNum][done_iters + 1] - 1 /\ t + 1 = inner.taken
    BY <1>2, <1>3
  <2>2. ColumnsBefore(block) + Passing(block, done_iters) \in Int
    <3>1. ColumnsBefore(block) \in Nat /\ \A d \in 0 .. Iterations(block) : Passing(block, d) \in Nat
      BY <1>2, PlacesAre DEF StandOK, PlannedOK
    <3>2. done_iters \in 0 .. Iterations(block)
      BY <1>2, PlacesAre DEF StandOK, PlannedOK
    <3> QED BY <3>1, <3>2
  <2>3. t \in Int
    BY <1>2
  <2> HIDE DEF t
  <2>4. /\ ColumnsBefore(block) + Passing(block, done_iters) + t + 1 \in 1 .. Len(column_order)
        /\ column_order[ColumnsBefore(block) + Passing(block, done_iters) + t + 1] \in Column
        /\ FT!KeyOf(column_order[ColumnsBefore(block) + Passing(block, done_iters) + t + 1]) = KeyAt(block)
    BY <1>2, <2>1, RangeColumn DEF StandOK, PlannedOK
  <2>5. ColumnsBefore(block) + Passing(block, done_iters) + t + 1 = executed
    BY ONLY <1>2, <2>1, <2>2, <2>3
  <2> QED BY <2>4, <2>5
<1>5. Run!ReductionAdvance(code[block].reduction) = 0
  <2> DEFINE c == column_order[executed]
  <2>1. /\ Run!ReductionAdvance(code[block].reduction) = Len(Transform!EntriesOf("reduction", c))
        /\ block \in BucketNum + 1 .. BlockNum => Len(Transform!EntriesOf("reduction", c)) = 0
    BY <1>2, <1>4, LoopTakes DEF StandOK, PlannedOK
  <2> QED BY <1>2, <2>1
<1>6. /\ pointer["data"] = VisitEnd("data", executed) /\ pointer["gather"] = VisitEnd("gather", executed)
      /\ pointer["reduction"] = VisitEnd("reduction", executed)
      /\ pointer["scatter"] = VisitEnd("scatter", ScatterAt)
      /\ executed = KeptNum + Before(range_num, range_pointer + 1) - (inner.size - inner.taken)
  BY <1>1, <1>2 DEF StandOK, AlignOK
<1>7. pointer["reduction"] \in Int
  <2>1. Transform!VisitOrder("reduction") = column_order /\ "reduction" \in Transform!StreamName
    BY VisitOrders
  <2>2. executed \in 0 .. Len(column_order)
    BY <1>4
  <2>3. VisitEnd("reduction", executed) \in Nat
    BY <2>1, <2>2 DEF StandOK, RecordedAll, Recorded
  <2> QED BY <1>6, <2>3
<1>8. /\ DOMAIN pointer' = Transform!StreamName
      /\ pointer'["data"] = pointer["data"] /\ pointer'["gather"] = pointer["gather"]
      /\ pointer'["reduction"] = pointer["reduction"] /\ pointer'["scatter"] = pointer["scatter"]
  <2>1. DOMAIN pointer = {"data", "scatter", "reduction", "gather"}
    BY VisitOrders DEF StandOK, AlignOK
  <2> QED BY <1>1, <1>5, <1>7, <2>1, VisitOrders DEF Run!Current
<1>9. BucketNum' = BucketNum /\ KeptNum' = KeptNum
  BY PlanFrame DEF StandFrame, Frame
<1>10. ScatterAt' = ScatterAt
  BY <1>1, <1>9 DEF ScatterAt
<1>11. \A name, n : VisitEnd(name, n)' = VisitEnd(name, n)
  BY VisitFrame DEF StandFrame
<1>12. Transform!StreamName' = Transform!StreamName
  BY DEF Transform!StreamName
<1>13. Before(range_num, range_pointer + 1)' = Before(range_num, range_pointer + 1)
  BY <1>1 DEF StandFrame, Before, Weight, Stack
<1>14. InRange' = FALSE
  BY <1>1 DEF InRange, Run!NoRange
<1>15. executed' = KeptNum' + Before(range_num, range_pointer + 1)' - 0
  BY <1>1, <1>3, <1>6, <1>9, <1>13
<1> QED BY <1>1, <1>6, <1>8, <1>10, <1>11, <1>12, <1>14, <1>15 DEF AlignOK

(* The next loop: behind the last bucket all that is kept has been run and *)
(* no range has begun.                                                     *)
LEMMA NextLoopAlign ==
  ASSUME StandOK, StandFrame, Run!NextLoop
  PROVE  AlignOK'
<1>1. /\ block <= Len(code) /\ done_iters >= code[block].circle_num /\ block' = block + 1
      /\ UNCHANGED <<pointer, range_pointer, inner, executed>>
  BY DEF Run!NextLoop, Run!Current
<1>2. /\ LayoutOK /\ CodeOK /\ Len(code) = BlockNum /\ PlaceOK
      /\ block \in 1 .. BlockNum + 1 /\ done_iters \in 0 .. Iterations(block)
      /\ InRange => done_iters < Iterations(block)
      /\ BlockNum \in Nat /\ BucketNum \in Nat
  BY LayoutIs, PlacesAre DEF StandOK, PlannedOK, PlaceOK
<1>3. block \in 1 .. BlockNum
  BY <1>1, <1>2
<1>4. done_iters = Iterations(block) /\ ~ InRange
  <2>1. code[block].circle_num = Iterations(block) /\ Iterations(block) \in Nat
    BY <1>2, <1>3, LoopIs, PlacesAre
  <2> QED BY <1>1, <1>2, <2>1
<1>5. /\ BucketNum' = BucketNum /\ KeptNum' = KeptNum
      /\ \A name, n : VisitEnd(name, n)' = VisitEnd(name, n)
      /\ Transform!StreamName' = Transform!StreamName /\ InRange' = FALSE
  BY <1>1, <1>4, PlanFrame, VisitFrame DEF StandFrame, Frame, Transform!StreamName, InRange, Run!NoRange
<1>6. Before(range_num, range_pointer + 1)' = Before(range_num, range_pointer + 1)
  BY <1>1 DEF StandFrame, Before, Weight, Stack
<1>7. /\ DOMAIN pointer' = Transform!StreamName'
      /\ pointer'["data"]      = VisitEnd("data", executed)'
      /\ pointer'["gather"]    = VisitEnd("gather", executed)'
      /\ pointer'["reduction"] = VisitEnd("reduction", executed)'
      /\ pointer'["scatter"]   = VisitEnd("scatter", ScatterAt)
  BY <1>1, <1>5 DEF StandOK, AlignOK
<1>8. CASE block + 1 <= BucketNum
  <2>1. block <= BucketNum /\ ~ (block + 1 > BucketNum)
    BY <1>2, <1>8
  <2>2. ScatterAt' = ScatterAt
    BY <1>1, <1>5, <1>8, <2>1 DEF ScatterAt
  <2> QED BY <1>1, <1>5, <1>7, <2>1, <2>2 DEF AlignOK
<1>9. CASE block > BucketNum
  <2>1. ~ (block <= BucketNum) /\ ~ (block + 1 <= BucketNum)
    BY <1>2, <1>9
  <2>2. ScatterAt' = ScatterAt
    BY <1>1, <1>5, <2>1 DEF ScatterAt
  <2>3. executed = KeptNum + Before(range_num, range_pointer + 1) - 0
    BY <1>4, <1>9 DEF StandOK, AlignOK
  <2>4. executed' = KeptNum' + Before(range_num, range_pointer + 1)' - 0
    BY <1>1, <1>5, <1>6, <2>3
  <2> QED BY <1>5, <1>7, <2>2, <2>4 DEF AlignOK
<1>10. CASE block = BucketNum
  <2>1. block \in 1 .. BucketNum /\ block <= BucketNum /\ ~ (block + 1 <= BucketNum)
    BY <1>2, <1>3, <1>10
  <2>2. executed = ColumnsBefore(block) + Passing(block, done_iters) + 0 /\ range_pointer = RangesBefore(block) + 0
    BY <1>2, <1>4, <2>1 DEF PlaceOK
  <2>3. /\ ColumnsBefore(block) \in Nat /\ Iterations(block) \in Nat /\ Passing(block, done_iters) = done_iters
        /\ ColumnsBefore(block) + Iterations(block) = KeptNum /\ RangesBefore(block) = 0 /\ KeptNum \in Nat
    BY <1>2, <1>10, <2>1, BucketPlaces DEF KeptNum
  <2>4. executed = KeptNum /\ range_pointer = 0
    BY <1>4, <2>2, <2>3
  <2>5. ScatterAt = KeptNum /\ ScatterAt' = KeptNum
    BY <1>1, <1>5, <2>1, <2>3, <2>4 DEF ScatterAt
  <2>6. Before(range_num, range_pointer + 1) = 0
    <3>1. range_pointer + 1 = 1
      BY <2>4
    <3> QED BY <3>1, SizesTaken DEF StandOK
  <2>7. KeptNum = KeptNum + 0 - 0
    BY <2>3
  <2>8. executed' = KeptNum' + Before(range_num, range_pointer + 1)' - 0
    BY <1>1, <1>5, <1>6, <2>4, <2>6, <2>7
  <2> QED BY <1>5, <1>7, <2>5, <2>8 DEF AlignOK
<1> QED BY <1>2, <1>8, <1>9, <1>10

(* The steps that move none of the pointers.                               *)
LEMMA AlignStays ==
  ASSUME Frame, UNCHANGED <<stream, offset, pointer, range_pointer, inner, executed, block>>, AlignOK,
         Before(range_num, range_pointer + 1)' = Before(range_num, range_pointer + 1)
  PROVE  AlignOK'
<1>1. BucketNum' = BucketNum /\ KeptNum' = KeptNum
  BY PlanFrame DEF Frame
<1>2. /\ \A name, n : VisitEnd(name, n)' = VisitEnd(name, n)
      /\ Transform!StreamName' = Transform!StreamName
  BY VisitFrame DEF Transform!StreamName
<1>3. InRange' = InRange /\ ScatterAt' = ScatterAt
  BY <1>1 DEF InRange, Run!NoRange, ScatterAt
<1> QED BY <1>1, <1>2, <1>3 DEF AlignOK

(* The function runs.                                                      *)
LEMMA KernelAlign ==
  ASSUME StandOK, StandFrame, Run!KernelNext
  PROVE  AlignOK'
<1>1. CASE Run!RunScalar
  <2>1. UNCHANGED <<pointer, range_pointer, inner, executed, block>>
    BY <1>1 DEF Run!RunScalar
  <2>2. Before(range_num, range_pointer + 1)' = Before(range_num, range_pointer + 1)
    BY <2>1 DEF StandFrame, Before, Weight, Stack
  <2> QED BY <2>1, <2>2, AlignStays DEF StandOK, StandFrame
<1> QED BY <1>1, RunColumnAlign, BeginRangeAlign, RunRangeColumnAlign, EndRangeAlign, NextLoopAlign DEF Run!KernelNext

(* It begins: nothing has been taken.                                      *)
LEMMA StartAlign ==
  ASSUME LayoutOK, RecordedAll, Run!KernelStart, Frame,
         UNCHANGED <<stream, offset, pointer, range_pointer, inner, executed, block>>
  PROVE  AlignOK'
<1>1. /\ block = 1 /\ pointer = [n \in {"data", "scatter", "reduction", "gather"} |-> 0] /\ range_pointer = 0
      /\ ~ InRange /\ executed = 0
  BY DEF Run!KernelStart, InRange
<1>2. \A name \in Transform!StreamName : VisitEnd(name, 0) = 0
  BY DEF RecordedAll, Recorded
<1>3. /\ DOMAIN pointer = Transform!StreamName
      /\ \A name \in {"data", "scatter", "reduction", "gather"} : pointer[name] = VisitEnd(name, 0)
  BY <1>1, <1>2, VisitOrders
<1>4. BucketNum \in Nat
  BY LayoutIs
<1>5. block > BucketNum => KeptNum = 0
  <2>1. ASSUME block > BucketNum PROVE BucketNum + 1 = 1
    BY <1>1, <1>4, <2>1
  <2>2. Before(Lens(Buckets), 1) = 0
    BY BucketPlaces
  <2> QED BY <2>1, <2>2 DEF KeptNum
<1>6. ScatterAt = 0
  <2>1. CASE block <= BucketNum
    BY <1>1, <2>1 DEF ScatterAt
  <2>2. CASE ~ (block <= BucketNum)
    <3>1. block > BucketNum
      BY <1>1, <1>4, <2>2
    <3> QED BY <1>1, <1>5, <2>2, <3>1 DEF ScatterAt
  <2> QED BY <2>1, <2>2
<1>7. \A lens : Before(lens, range_pointer + 1) = 0
  <2> TAKE lens
  <2>1. 0 \in Nat /\ \A b \in 1 .. 0 : lens[b] \in Nat
    OBVIOUS
  <2>2. range_pointer + 1 = 1
    BY <1>1
  <2> QED BY <2>1, <2>2, BeforeSums
<1>8. AlignOK
  BY <1>1, <1>3, <1>5, <1>6, <1>7 DEF AlignOK
<1>9. Before(range_num, range_pointer + 1)' = Before(range_num, range_pointer + 1)
  <2>1. Before(range_num, range_pointer + 1)' = Before(range_num', range_pointer + 1)
    BY DEF Before, Weight, Stack
  <2> QED BY <1>7, <2>1
<1> QED BY <1>8, <1>9, AlignStays

-----------------------------------------------------------------------------
(* That the code can rely on it.                                           *)

(* generate_information.                                                   *)
LEMMA InformationStatic ==
  ASSUME GenerateInformation, phase' = "table", FT!EmptyTable, InfosOK'
  PROVE  StaticOK'
<1>1. /\ scatter_info'   = [c \in Column |-> ScatterInfo(Slice(row_ptr, c))]
      /\ reduction_info' = [c \in Column |-> ReductionInfo(Slice(row_ptr, c))]
      /\ feature' = [c \in Column |-> <<Packed(gather_info'[c]), Packed(scatter_info'[c]), Packed(reduction_info'[c])>>]
      /\ UNCHANGED <<scanned, same_feature_range_map>>
  BY DEF GenerateInformation
<1>2. ASSUME NEW idx
      PROVE  /\ ScatterInfo(idx).order = DisOrder => ScatterInfo(idx).mask = Vector
             /\ ReductionInfo(idx).order = ScatterInfo(idx).order
  <2>1. CASE OrderTypeOf(idx) = DisOrder
    <3>1. ScatterInfo(idx).order = DisOrder /\ ScatterInfo(idx).mask = Vector
      BY <2>1 DEF ScatterInfo
    <3>2. ReductionInfo(idx).order = DisOrder
      BY <2>1 DEF ReductionInfo
    <3> QED BY <3>1, <3>2
  <2>2. CASE OrderTypeOf(idx) # DisOrder
    <3>1. ScatterInfo(idx).order = OrderTypeOf(idx)
      BY <2>2 DEF ScatterInfo, OrderedInfo
    <3>2. ReductionInfo(idx).order = OrderTypeOf(idx)
      BY <2>2 DEF ReductionInfo
    <3> QED BY <2>2, <3>1, <3>2
  <2> QED BY <2>1, <2>2
<1>3. ASSUME NEW c \in Column
      PROVE  /\ feature'[c] = <<Packed(gather_info'[c]), Packed(scatter_info'[c]), Packed(reduction_info'[c])>>
             /\ scatter_info'[c].order = DisOrder => scatter_info'[c].mask = Vector
             /\ reduction_info'[c].order = scatter_info'[c].order
  BY <1>1, <1>2
<1>4. FeaturesOK'
  BY <1>3 DEF FeaturesOK
<1>5. RangesEquel'
  <2>1. scanned' = NoKey /\ same_feature_range_map' = <<>> /\ DOMAIN <<>> = {}
    BY <1>1 DEF FT!EmptyTable
  <2> QED BY <2>1 DEF RangesEquel
<1> QED BY <1>4, <1>5 DEF StaticOK

(* The building of the table: a bucket is looked at for ranges when its    *)
(* first column writes one location.                                       *)
LEMMA TableStatic ==
  ASSUME StaticOK, FT!IInv, Table!TableNext, UNCHANGED <<gather_info, scatter_info, reduction_info>>
  PROVE  StaticOK'
<1>1. feature' = feature
  BY DEF Table!TableNext, Table!CombinSameFeature, Table!BeginWritePattern, Table!BeginBucket, Table!ExtendRun,
         Table!TakeRun, Table!EndBucket, Table!EndWritePattern, Table!table_inputs
<1>2. InfosOK' /\ FeaturesOK'
  BY <1>1 DEF StaticOK, InfosOK, FeaturesOK
<1>3. \A k : EquelKey(k) => EquelKey(k)'
  <2>1. \A c : FT!KeyOf(c)' = FT!KeyOf(c)
    BY <1>1 DEF FT!KeyOf
  <2> QED BY <1>1, <2>1 DEF EquelKey
<1>4. (scanned # NoKey => EquelKey(scanned)) /\ \A k \in DOMAIN same_feature_range_map : EquelKey(k)
  BY DEF StaticOK, RangesEquel
<1>5. (scanned' # NoKey => EquelKey(scanned')) /\ \A k \in DOMAIN same_feature_range_map' : EquelKey(k)
  <2>1. ASSUME NEW k \in todo, Table!BeginBucket(k)
        PROVE  scanned' # NoKey => EquelKey(scanned')
    <3>1. CASE Table!FirstIsEquel(Table!Bucket(k))
      <4> DEFINE b == same_feature_map[k]
      <4>1. scanned' = k
        BY <2>1, <3>1 DEF Table!BeginBucket
      <4>2. k \in DOMAIN same_feature_map /\ b \in Seq(FT!Column)
            /\ \A j \in 1 .. Len(b) : FT!KeyOf(b[j]) = k
        BY DEF FT!IInv, FT!TableTypeOK, FT!BucketOK
      <4>3. b # <<>> /\ feature[b[1]] \in {f \in Feature : f[2] = 1 + OrderEquel * 65536}
        BY <3>1, <4>2 DEF Table!FirstIsEquel, Table!Bucket
      <4> HIDE DEF b
      <4>4. 1 \in 1 .. Len(b) /\ b[1] \in FT!Column
        BY <4>2, <4>3
      <4>5. b[1] \in Column /\ FT!KeyOf(b[1]) = k /\ feature[b[1]][2] = 1 + OrderEquel * 65536
        BY <4>2, <4>3, <4>4 DEF FT!Column, Column
      <4> QED BY <4>1, <4>5 DEF EquelKey
    <3>2. CASE ~ Table!FirstIsEquel(Table!Bucket(k))
      <4>1. scanned' = scanned
        BY <2>1, <3>2 DEF Table!BeginBucket, Table!scan
      <4> QED BY <1>4, <4>1
    <3> QED BY <3>1, <3>2
  <2>2. ASSUME NEW k \in todo, Table!BeginBucket(k)
        PROVE  same_feature_range_map' = same_feature_range_map
    BY <2>2 DEF Table!BeginBucket, Table!table
  <2>3. CASE Table!EndBucket
    <3>1. /\ scanned # NoKey /\ scanned' = NoKey
          /\ same_feature_range_map' =
               IF same_write_range = <<>> THEN same_feature_range_map
               ELSE Table!Put(same_feature_range_map, scanned, same_write_range)
      BY <2>3 DEF Table!EndBucket
    <3>2. DOMAIN same_feature_range_map' \subseteq DOMAIN same_feature_range_map \cup {scanned}
      BY <3>1 DEF Table!Put
    <3> QED BY <1>4, <3>1, <3>2
  <2>4. CASE Table!CombinSameFeature \/ Table!BeginWritePattern \/ Table!ExtendRun \/ Table!TakeRun
               \/ Table!EndWritePattern
    <3>1. scanned' = scanned /\ same_feature_range_map' = same_feature_range_map
      BY <2>4 DEF Table!CombinSameFeature, Table!BeginWritePattern, Table!ExtendRun, Table!TakeRun,
                  Table!EndWritePattern, Table!table, Table!scan
    <3> QED BY <1>4, <3>1
  <2> QED BY <1>4, <2>1, <2>2, <2>3, <2>4 DEF Table!TableNext
<1>6. RangesEquel'
  <2>1. scanned' # NoKey => EquelKey(scanned)'
    BY <1>1, <1>5 DEF EquelKey, FT!KeyOf
  <2> QED BY <1>3, <1>5, <2>1 DEF RangesEquel
<1> QED BY <1>2, <1>6 DEF StaticOK

(* The other steps leave it alone.                                         *)
LEMMA StaticStays ==
  ASSUME StaticOK, UNCHANGED <<feature, gather_info, scatter_info, reduction_info, scanned, same_feature_range_map>>
  PROVE  StaticOK' /\ (FeaturesApart' => FeaturesApart)
<1>1. \A c : FT!KeyOf(c)' = FT!KeyOf(c)
  BY DEF FT!KeyOf
<1>2. \A k : EquelKey(k)' = EquelKey(k)
  BY <1>1 DEF EquelKey
<1>3. RangesEquel'
  <2>1. scanned' # NoKey => EquelKey(scanned)'
    BY <1>1 DEF StaticOK, RangesEquel, EquelKey
  <2> QED BY <1>2, <2>1 DEF StaticOK, RangesEquel
<1>4. InfosOK' /\ FeaturesOK'
  BY DEF StaticOK, InfosOK, FeaturesOK
<1> QED BY <1>1, <1>3, <1>4 DEF StaticOK, FeaturesApart

-----------------------------------------------------------------------------
(* That the visits are recorded.                                           *)

(* Of the arrays that are complete every visit, of the one being filled    *)
(* those made so far.                                                      *)
RecordingOK ==
  /\ offset \in [Transform!StreamName -> Seq(Nat)]
  /\ \A i \in 1 .. 4 :
       LET name == Transform!Streams[i] IN
       /\ i < filling => Recorded(name, Len(Transform!VisitOrder(name)))
       /\ i = filling => Recorded(name, visit - 1) /\ Len(offset[name]) = visit - 1
       /\ i > filling => offset[name] = <<>>
  /\ need_data_num = 0 => visit = 1

(* What the visits of an array are depends on nothing but that array.      *)
LEMMA RecordedFrame ==
  ASSUME UNCHANGED <<column_order, scatter_order, gather_info, scatter_info, reduction_info>>
  PROVE  /\ \A name : Transform!VisitOrder(name)' = Transform!VisitOrder(name)
         /\ \A name, v : Written(name, v)' = Written(name, v)
         /\ \A name : stream'[name] = stream[name] /\ offset'[name] = offset[name] =>
              \A n : VisitEnd(name, n)' = VisitEnd(name, n) /\ (Recorded(name, n) => Recorded(name, n)')
<1>1. \A name : Transform!VisitOrder(name)' = Transform!VisitOrder(name)
  BY DEF Transform!VisitOrder
<1>2. \A name, c : Transform!EntriesOf(name, c)' = Transform!EntriesOf(name, c)
  BY DEF Transform!EntriesOf, Transform!EntriesOfGather, Transform!EntriesOfReduction, Transform!Elements,
         Transform!DisOrder
<1>3. \A name, v : Written(name, v)' = Written(name, v)
  BY <1>1, <1>2 DEF Written
<1>4. ASSUME NEW name, stream'[name] = stream[name], offset'[name] = offset[name], NEW n
      PROVE  VisitEnd(name, n)' = VisitEnd(name, n) /\ (Recorded(name, n) => Recorded(name, n)')
  <2>1. \A m : VisitEnd(name, m)' = VisitEnd(name, m)
    BY <1>4 DEF VisitEnd
  <2> QED BY <1>3, <2>1 DEF Recorded
<1> QED BY <1>1, <1>3, <1>4

(* An array to which nothing has been written.                             *)
LEMMA NothingWritten ==
  ASSUME NEW name, stream[name] = <<>>, offset[name] = <<>>, NEW n \in Nat, \A v \in 1 .. n : Written(name, v) = 0
  PROVE  Recorded(name, n)
<1>1. Len(<<>>) = 0
  OBVIOUS
<1>2. \A v \in 0 .. n : VisitEnd(name, v) = 0
  BY <1>1 DEF VisitEnd
<1>3. \A v \in 1 .. n : v \in 0 .. n /\ v - 1 \in 0 .. n
  OBVIOUS
<1>4. 0 \in 0 .. n
  OBVIOUS
<1> QED BY <1>2, <1>3, <1>4 DEF Recorded

(* malloc_new_data.                                                        *)
LEMMA MallocRecords ==
  ASSUME FillOK, RecordingOK, Transform!Malloc
  PROVE  RecordingOK'
<1>1. /\ UNCHANGED <<column_order, scatter_order, gather_info, scatter_info, reduction_info>>
      /\ UNCHANGED <<filling, visit, stream, offset>> /\ visit = 1
  BY DEF Transform!Malloc, Transform!transform_inputs, Transform!arrays, FillOK
<1>2. \A name, n : Recorded(name, n) => Recorded(name, n)'
  BY <1>1, RecordedFrame
<1>3. \A name : Transform!VisitOrder(name)' = Transform!VisitOrder(name)
  BY <1>1, RecordedFrame
<1>4. ASSUME NEW i \in 1 .. 4
      PROVE  LET name == Transform!Streams[i] IN
             /\ i < filling' => Recorded(name, Len(Transform!VisitOrder(name)))'
             /\ i = filling' => Recorded(name, visit - 1)' /\ Len(offset'[name]) = visit' - 1
             /\ i > filling' => offset'[name] = <<>>
  <2> DEFINE name == Transform!Streams[i]
  <2>1. /\ i < filling => Recorded(name, Len(Transform!VisitOrder(name)))
        /\ i = filling => Recorded(name, visit - 1) /\ Len(offset[name]) = visit - 1
        /\ i > filling => offset[name] = <<>>
    BY DEF RecordingOK
  <2>2. i < filling => Recorded(name, Len(Transform!VisitOrder(name)))'
    <3>1. i < filling => Recorded(name, Len(Transform!VisitOrder(name)))'
      BY <1>2, <1>3, <2>1 DEF Recorded
    <3> QED BY <3>1
  <2>3. i = filling => Recorded(name, visit - 1)'
    BY <1>1, <1>2, <2>1 DEF Recorded
  <2> QED BY <1>1, <2>1, <2>2, <2>3
<1> QED BY <1>1, <1>4 DEF RecordingOK, Transform!Streams, Transform!StreamName

(* rearrange_elem: what is written lies behind what was there.             *)
LEMMA RearrangeRecords ==
  ASSUME InfosOK, OrdersOK, FillOK, RecordingOK, Transform!RearrangeElem
  PROVE  RecordingOK'
<1>name. PICK name : name = Transform!Streams[filling]
  OBVIOUS
<1>n. PICK n : n = visit - 1
  OBVIOUS
<1>E. PICK E : E = Transform!EntriesOf(name, Transform!VisitOrder(name)[visit])
  OBVIOUS
<1>1. /\ filling \in 1 .. 4 /\ visit \in Nat \ {0} /\ name \in Transform!StreamName
      /\ need_data_num > 0 /\ visit <= Len(Transform!VisitOrder(name))
      /\ stream \in [Transform!StreamName -> Seq(Int)] /\ offset \in [Transform!StreamName -> Seq(Nat)]
  <2>1. filling <= 4 /\ need_data_num > 0 /\ visit <= Len(Transform!VisitOrder(name))
    BY <1>name, StreamNames DEF Transform!RearrangeElem
  <2>2. filling \in 1 .. 5 /\ visit \in Nat \ {0} /\ stream \in [Transform!StreamName -> Seq(Int)]
    BY DEF FillOK
  <2>3. filling \in 1 .. 4
    BY <2>1, <2>2
  <2> QED BY <1>name, <2>1, <2>2, <2>3, StreamNames DEF RecordingOK
<1>2. /\ UNCHANGED <<column_order, scatter_order, gather_info, scatter_info, reduction_info>>
      /\ UNCHANGED <<filling, need_data_num>>
      /\ stream' = [stream EXCEPT ![name] = @ \o E]
      /\ offset' = [offset EXCEPT ![name] = Append(@, Len(stream[name]))]
      /\ visit' = visit + 1
  BY <1>name, <1>E DEF Transform!RearrangeElem, Transform!transform_inputs
<1>3. Recorded(name, n) /\ Len(offset[name]) = n
  BY <1>1, <1>name, <1>n DEF RecordingOK
<1>4. n \in Nat /\ n + 1 = visit /\ visit' - 1 = n + 1
  BY <1>1, <1>2, <1>n
<1>5. E \in Seq(Int) /\ Len(E) = Written(name, n + 1) /\ Len(E) \in Nat
  <2>1. Transform!VisitOrder(name)[visit] \in Column
    <3>1. visit \in 1 .. Len(Transform!VisitOrder(name))
      BY <1>1, Visits
    <3> QED BY <1>1, <3>1, Visits
  <2>2. E \in Seq(Int)
    BY <1>1, <1>E, <2>1, EntriesFit
  <2>3. Len(E) = Written(name, n + 1)
    BY <1>4, <1>E DEF Written
  <2> QED BY <2>2, <2>3
<1>6. /\ stream'[name] = stream[name] \o E /\ offset'[name] = Append(offset[name], Len(stream[name]))
      /\ \A m \in Transform!StreamName : m # name => stream'[m] = stream[m] /\ offset'[m] = offset[m]
      /\ stream[name] \in Seq(Int) /\ offset[name] \in Seq(Nat) /\ Len(stream[name]) \in Nat
      /\ offset' \in [Transform!StreamName -> Seq(Nat)]
  <2>1. stream[name] \in Seq(Int) /\ offset[name] \in Seq(Nat)
    BY <1>1
  <2>2. Len(stream[name]) \in Nat /\ Append(offset[name], Len(stream[name])) \in Seq(Nat)
    BY <2>1
  <2> QED BY <1>1, <1>2, <2>1, <2>2
<1>7. Recorded(name, n + 1)' /\ Len(offset'[name]) = n + 1
  <2>1. /\ Len(offset'[name]) = n + 1 /\ Len(stream'[name]) = Len(stream[name]) + Len(E)
        /\ \A v \in 1 .. n : offset'[name][v] = offset[name][v]
        /\ offset'[name][n + 1] = Len(stream[name])
    <3> DEFINE o == offset[name]
               s == stream[name]
    <3>1. o \in Seq(Nat) /\ Len(o) = n /\ s \in Seq(Int) /\ Len(s) \in Nat
      BY <1>3, <1>6
    <3> HIDE DEF o, s
    <3>2. /\ Len(Append(o, Len(s))) = n + 1 /\ Len(s \o E) = Len(s) + Len(E)
          /\ \A v \in 1 .. n : Append(o, Len(s))[v] = o[v]
          /\ Append(o, Len(s))[n + 1] = Len(s)
      <4>1. Len(s \o E) = Len(s) + Len(E)
        BY ONLY <1>5, <3>1, ConcatProperties
      <4>2. PICK l \in Nat : l = Len(s)
        BY <3>1
      <4>3. /\ Len(Append(o, l)) = n + 1 /\ Append(o, l)[n + 1] = l
            /\ \A v \in 1 .. n : Append(o, l)[v] = o[v]
        BY ONLY <1>4, <3>1, <4>2
      <4> QED BY <4>1, <4>2, <4>3
    <3>3. offset'[name] = Append(o, Len(s)) /\ stream'[name] = s \o E
      BY <1>6 DEF o, s
    <3> QED BY <3>2, <3>3 DEF o, s
  <2>2. \A v \in 0 .. n - 1 : VisitEnd(name, v) = offset[name][v + 1] /\ VisitEnd(name, v)' = offset'[name][v + 1]
    <3> SUFFICES ASSUME NEW v \in 0 .. n - 1
                 PROVE  VisitEnd(name, v) = offset[name][v + 1] /\ VisitEnd(name, v)' = offset'[name][v + 1]
      OBVIOUS
    <3>1. v < n /\ v < n + 1
      BY <1>4
    <3> QED BY <1>3, <2>1, <3>1 DEF VisitEnd
  <2>3. VisitEnd(name, n) = Len(stream[name]) /\ VisitEnd(name, n)' = offset'[name][n + 1]
    <3>1. ~ (n < n) /\ n < n + 1
      BY <1>4
    <3> QED BY <1>3, <2>1, <3>1 DEF VisitEnd
  <2>4. VisitEnd(name, n + 1)' = Len(stream[name]) + Len(E)
    <3>1. ~ (n + 1 < n + 1)
      BY <1>4
    <3> QED BY <2>1, <3>1 DEF VisitEnd
  <2>5. \A v \in 0 .. n : VisitEnd(name, v)' = VisitEnd(name, v)
    <3> SUFFICES ASSUME NEW v \in 0 .. n PROVE VisitEnd(name, v)' = VisitEnd(name, v)
      OBVIOUS
    <3>1. CASE v = n
      BY <2>1, <2>3, <3>1
    <3>2. CASE v # n
      <4>1. v \in 0 .. n - 1 /\ v + 1 \in 1 .. n
        BY <1>4, <3>2
      <4> QED BY <2>1, <2>2, <4>1
    <3> QED BY <3>1, <3>2
  <2>6. /\ VisitEnd(name, 0) = 0 /\ \A v \in 0 .. n : VisitEnd(name, v) \in Nat
        /\ \A v \in 1 .. n : VisitEnd(name, v) = VisitEnd(name, v - 1) + Written(name, v)
    BY <1>3 DEF Recorded
  <2>7. \A v : Written(name, v)' = Written(name, v)
    BY <1>2, RecordedFrame
  <2>8. VisitEnd(name, n + 1)' \in Nat /\ VisitEnd(name, n + 1)' = VisitEnd(name, n) + Written(name, n + 1)
    BY <1>5, <1>6, <2>3, <2>4
  <2>9. \A v \in 0 .. n + 1 : v \in 0 .. n \/ v = n + 1
    BY <1>4
  <2>10. \A v \in 0 .. n + 1 : VisitEnd(name, v)' \in Nat
    BY <2>5, <2>6, <2>8, <2>9
  <2>11. ASSUME NEW v \in 1 .. n + 1 PROVE VisitEnd(name, v)' = VisitEnd(name, v - 1)' + Written(name, v)'
    <3>1. CASE v = n + 1
      <4>1. n + 1 - 1 = n /\ n \in 0 .. n
        BY <1>4
      <4> QED BY <2>5, <2>7, <2>8, <3>1, <4>1
    <3>2. CASE v # n + 1
      <4>1. v \in 1 .. n /\ v \in 0 .. n /\ v - 1 \in 0 .. n
        BY <1>4, <3>2
      <4> QED BY <2>5, <2>6, <2>7, <4>1
    <3> QED BY <3>1, <3>2
  <2>12. VisitEnd(name, 0)' = 0
    <3>1. 0 \in 0 .. n
      BY <1>4
    <3> QED BY <2>5, <2>6, <3>1
  <2> QED BY <2>1, <2>10, <2>11, <2>12 DEF Recorded
<1>8. ASSUME NEW i \in 1 .. 4
      PROVE  LET m == Transform!Streams[i] IN
             /\ i < filling => Recorded(m, Len(Transform!VisitOrder(m)))'
             /\ i = filling => Recorded(m, n + 1)' /\ Len(offset'[m]) = n + 1
             /\ i > filling => offset'[m] = <<>>
  <2> DEFINE m == Transform!Streams[i]
  <2>1. /\ i < filling => Recorded(m, Len(Transform!VisitOrder(m)))
        /\ i > filling => offset[m] = <<>>
    BY DEF RecordingOK
  <2>2. CASE i = filling
    <3>1. m = name
      BY <1>name, <2>2
    <3> QED BY <1>1, <1>7, <2>2, <3>1
  <2>3. CASE i # filling
    <3>1. m \in Transform!StreamName /\ m # name
      BY <1>1, <1>name, <2>3, StreamNames
    <3>2. stream'[m] = stream[m] /\ offset'[m] = offset[m]
      BY <1>6, <3>1
    <3>3. Transform!VisitOrder(m)' = Transform!VisitOrder(m)
      BY <1>2, RecordedFrame
    <3>4. \A k : Recorded(m, k) => Recorded(m, k)'
      BY <1>2, <3>2, RecordedFrame
    <3>5. i < filling => Recorded(m, Len(Transform!VisitOrder(m)))'
      BY <2>1, <3>3, <3>4 DEF Recorded
    <3> QED BY <2>1, <2>3, <3>2, <3>5
  <2> QED BY <2>2, <2>3
<1>9. ~ (need_data_num' = 0)
  BY <1>1, <1>2
<1>10. ASSUME NEW i \in 1 .. 4
       PROVE  LET m == Transform!Streams[i] IN
              /\ i < filling' => Recorded(m, Len(Transform!VisitOrder(m)))'
              /\ i = filling' => Recorded(m, visit - 1)' /\ Len(offset'[m]) = visit' - 1
              /\ i > filling' => offset'[m] = <<>>
  <2> DEFINE m == Transform!Streams[i]
  <2>1. /\ i < filling => Recorded(m, Len(Transform!VisitOrder(m)))'
        /\ i = filling => Recorded(m, n + 1)' /\ Len(offset'[m]) = n + 1
        /\ i > filling => offset'[m] = <<>>
    BY <1>8
  <2>2. Recorded(m, n + 1)' => Recorded(m, visit - 1)'
    BY <1>4 DEF Recorded
  <2> QED BY <1>2, <1>4, <2>1, <2>2
<1> QED BY <1>6, <1>9, <1>10 DEF RecordingOK, Transform!Streams, Transform!StreamName

(* The next array: that of an array of no elements is the null pointer,    *)
(* and none of its visits would have written any.                          *)
LEMMA NextArrayRecords ==
  ASSUME InfosOK, OrdersOK, FillOK, RecordingOK, Transform!NextArray
  PROVE  RecordingOK'
<1>name. PICK name : name = Transform!Streams[filling]
  OBVIOUS
<1>1. /\ filling \in 1 .. 4 /\ name \in Transform!StreamName
      /\ \/ need_data_num = 0
         \/ need_data_num > 0 /\ visit > Len(Transform!VisitOrder(name))
      /\ need_data_num # -1
  <2>1. /\ filling <= 4
        /\ \/ need_data_num = 0
           \/ need_data_num > 0 /\ visit > Len(Transform!VisitOrder(name))
    BY <1>name, StreamNames DEF Transform!NextArray
  <2>2. filling \in 1 .. 4
    BY <2>1 DEF FillOK
  <2> QED BY <1>name, <2>1, <2>2, StreamNames
<1>2. /\ UNCHANGED <<column_order, scatter_order, gather_info, scatter_info, reduction_info>>
      /\ UNCHANGED <<stream, offset>> /\ filling' = filling + 1 /\ visit' = 1 /\ need_data_num' = -1
  BY DEF Transform!NextArray, Transform!transform_inputs, Transform!arrays
<1>3. /\ visit \in Nat \ {0} /\ visit - 1 <= Len(Transform!VisitOrder(name))
      /\ need_data_num = Transform!NeedDataNum(name)
      /\ Len(stream[name]) <= Weight(Share(name), Passed(name, visit - 1))
      /\ stream[name] \in Seq(Int)
      /\ \A i \in 1 .. 4 : i > filling => stream[Transform!Streams[i]] = <<>>
  BY <1>name, <1>1 DEF FillOK
<1>4. Recorded(name, visit - 1) /\ Len(offset[name]) = visit - 1 /\ (need_data_num = 0 => visit = 1)
      /\ offset[name] \in Seq(Nat)
  BY <1>name, <1>1 DEF RecordingOK
<1>5. Len(Transform!VisitOrder(name)) \in Nat
  BY <1>1, Visits
<1>6. Recorded(name, Len(Transform!VisitOrder(name)))
  <2>1. CASE need_data_num = 0
    <3>1. stream[name] = <<>> /\ offset[name] = <<>>
      <4>1. visit - 1 = 0 /\ Weight(Share(name), Passed(name, 0)) = 0
        BY <1>4, <2>1, NoVisit
      <4>2. Len(stream[name]) = 0 /\ Len(offset[name]) = 0
        <5>1. Len(stream[name]) \in Nat /\ Len(stream[name]) <= 0
          BY <1>3, <4>1
        <5> QED BY <1>4, <4>1, <5>1
      <4> QED BY <1>3, <1>4, <4>2
    <3>2. ASSUME NEW v \in 1 .. Len(Transform!VisitOrder(name)) PROVE Written(name, v) = 0
      <4>1. /\ Unit(name, v) \in Counted(name) /\ Transform!VisitOrder(name)[v] \in Column
            /\ Share(name)[Unit(name, v)] = Transform!NeedOf(name, Transform!VisitOrder(name)[v])
            /\ IsFiniteSet(Counted(name)) /\ \A x \in Counted(name) : Share(name)[x] \in Nat
            /\ Transform!NeedDataNum(name) = Weight(Share(name), Counted(name))
        BY <1>1, Visits
      <4>2. Share(name)[Unit(name, v)] <= Weight(Share(name), Counted(name))
        BY <4>1, StackHas
      <4>3. /\ Transform!EntriesOf(name, Transform!VisitOrder(name)[v]) \in Seq(Int)
            /\ Len(Transform!EntriesOf(name, Transform!VisitOrder(name)[v])) <=
                 Transform!NeedOf(name, Transform!VisitOrder(name)[v])
        BY <1>1, <4>1, EntriesFit
      <4>4. Written(name, v) \in Nat /\ Written(name, v) <= Transform!NeedOf(name, Transform!VisitOrder(name)[v])
        BY <4>3 DEF Written
      <4>5. Transform!NeedOf(name, Transform!VisitOrder(name)[v]) \in Nat
            /\ Transform!NeedOf(name, Transform!VisitOrder(name)[v]) <= 0
        BY <1>3, <2>1, <4>1, <4>2
      <4> QED BY <4>4, <4>5
    <3> QED BY <1>5, <3>1, <3>2, NothingWritten
  <2>2. CASE need_data_num # 0
    <3>1. visit - 1 = Len(Transform!VisitOrder(name))
      BY <1>1, <1>3, <1>5, <2>2
    <3> QED BY <1>4, <3>1
  <2> QED BY <2>1, <2>2
<1>7. ASSUME NEW i \in 1 .. 4
      PROVE  LET m == Transform!Streams[i] IN
             /\ i < filling' => Recorded(m, Len(Transform!VisitOrder(m)))'
             /\ i = filling' => Recorded(m, visit - 1)' /\ Len(offset'[m]) = visit' - 1
             /\ i > filling' => offset'[m] = <<>>
  <2> DEFINE m == Transform!Streams[i]
  <2>1. /\ i < filling => Recorded(m, Len(Transform!VisitOrder(m)))
        /\ i > filling => offset[m] = <<>>
    BY DEF RecordingOK
  <2>2. /\ i < filling' => i < filling \/ i = filling
        /\ i = filling' => i > filling
        /\ i > filling' => i > filling
    BY <1>1, <1>2
  <2>3. \A k : Recorded(m, k) => Recorded(m, k)'
    BY <1>2, RecordedFrame
  <2>4. i < filling' => Recorded(m, Len(Transform!VisitOrder(m)))'
    <3>1. i = filling => m = name
      BY <1>name
    <3>2. i < filling' => Recorded(m, Len(Transform!VisitOrder(m)))
      BY <1>6, <2>1, <2>2, <3>1
    <3>3. Transform!VisitOrder(m)' = Transform!VisitOrder(m)
      BY <1>2, RecordedFrame
    <3> QED BY <2>3, <3>2, <3>3 DEF Recorded
  <2>5. i = filling' => Recorded(m, visit - 1)' /\ Len(offset'[m]) = visit' - 1
    <3>1. ASSUME i = filling' PROVE stream[m] = <<>> /\ offset[m] = <<>> /\ Len(offset[m]) = 0
      BY <1>3, <2>1, <2>2, <3>1
    <3>2. ASSUME i = filling' PROVE Recorded(m, 0)
      <4>1. \A v \in 1 .. 0 : Written(m, v) = 0
        OBVIOUS
      <4> QED BY <3>1, <3>2, <4>1, NothingWritten
    <3>3. visit' - 1 = 0
      BY <1>2
    <3>4. Recorded(m, 0)' => Recorded(m, visit - 1)'
      BY <3>3 DEF Recorded
    <3> QED BY <1>2, <2>3, <3>1, <3>2, <3>3, <3>4
  <2> QED BY <1>2, <2>1, <2>2, <2>4, <2>5
<1>8. ~ (need_data_num' = 0)
  BY <1>2
<1>9. offset' \in [Transform!StreamName -> Seq(Nat)]
  BY <1>2 DEF RecordingOK
<1> QED BY <1>7, <1>8, <1>9 DEF RecordingOK, Transform!Streams, Transform!StreamName

(* Before the first array ...                                              *)
LEMMA OrdersRecord ==
  ASSUME DynVecInv, phase = "table", UNCHANGED <<filling, need_data_num, visit, stream, offset>>
  PROVE  RecordingOK'
<1>1. /\ filling = 1 /\ need_data_num = -1 /\ visit = 1
      /\ stream = [n \in Transform!StreamName |-> <<>>] /\ offset = [n \in Transform!StreamName |-> <<>>]
  BY DEF DynVecInv, Transform!NoArrays
<1>2. \A i \in 1 .. 4 : /\ stream[Transform!Streams[i]] = <<>> /\ offset[Transform!Streams[i]] = <<>>
                        /\ Len(offset[Transform!Streams[i]]) = 0
  BY <1>1, StreamNames
<1>3. ASSUME NEW i \in 1 .. 4 PROVE Recorded(Transform!Streams[i], visit - 1)'
  <2>1. \A name : stream'[name] = stream[name] /\ offset'[name] = offset[name]
    OBVIOUS
  <2>2. /\ VisitEnd(Transform!Streams[i], 0)' = 0
        /\ \A v \in 0 .. 0 : VisitEnd(Transform!Streams[i], v)' = 0
    <3>1. Len(offset'[Transform!Streams[i]]) = 0 /\ Len(stream'[Transform!Streams[i]]) = 0
      BY <1>2
    <3> QED BY <3>1 DEF VisitEnd, Transform!Streams
  <2>3. visit' - 1 = 0
    BY <1>1
  <2>4. 1 .. 0 = {} /\ 0 \in Nat
    OBVIOUS
  <2> QED BY <2>2, <2>3, <2>4 DEF Recorded, Transform!Streams
<1>4. offset' \in [Transform!StreamName -> Seq(Nat)]
  BY <1>1
<1>5. \A i \in 1 .. 4 : ~ (i < filling')
  BY <1>1
<1>6. visit' - 1 = 0 /\ ~ (need_data_num' = 0)
  BY <1>1
<1>7. \A i \in 1 .. 4 : offset'[Transform!Streams[i]] = <<>> /\ Len(offset'[Transform!Streams[i]]) = 0
  BY <1>2
<1> QED BY <1>3, <1>4, <1>5, <1>6, <1>7 DEF RecordingOK, Transform!Streams, Transform!StreamName

(* ... and behind the last.                                                *)
LEMMA AllRecorded ==
  ASSUME FillOK, RecordingOK, Transform!Transformed
  PROVE  RecordedAll
<1>1. filling > 4 /\ filling \in 1 .. 5
  BY StreamNames DEF Transform!Transformed, FillOK
<1>2. \A i \in 1 .. 4 : i < filling
  BY <1>1
<1>3. \A name \in Transform!StreamName : \E i \in 1 .. 4 : name = Transform!Streams[i]
  <2>1. /\ Transform!Streams[1] = "data" /\ Transform!Streams[2] = "scatter"
        /\ Transform!Streams[3] = "reduction" /\ Transform!Streams[4] = "gather"
    BY DEF Transform!Streams
  <2>2. 1 \in 1 .. 4 /\ 2 \in 1 .. 4 /\ 3 \in 1 .. 4 /\ 4 \in 1 .. 4
    OBVIOUS
  <2> QED BY <2>1, <2>2 DEF Transform!StreamName
<1> QED BY <1>2, <1>3 DEF RecordingOK, RecordedAll

(* The steps that leave the arrays alone.                                  *)
LEMMA RecordsStay ==
  ASSUME UNCHANGED <<column_order, scatter_order, gather_info, scatter_info, reduction_info, stream, offset>>
  PROVE  /\ RecordedAll => RecordedAll'
         /\ UNCHANGED <<filling, need_data_num, visit>> /\ RecordingOK => RecordingOK'
<1>1. /\ \A name : Transform!VisitOrder(name)' = Transform!VisitOrder(name)
      /\ \A name, n : Recorded(name, n) => Recorded(name, n)'
  BY RecordedFrame
<1>2. \A name : Recorded(name, Len(Transform!VisitOrder(name))) => Recorded(name, Len(Transform!VisitOrder(name)))'
  BY <1>1 DEF Recorded
<1>3. RecordedAll => RecordedAll'
  BY <1>2 DEF RecordedAll, Transform!StreamName
<1>4. ASSUME UNCHANGED <<filling, need_data_num, visit>>, RecordingOK PROVE RecordingOK'
  <2>1. \A name : Recorded(name, visit - 1) => Recorded(name, visit - 1)'
    BY <1>1, <1>4 DEF Recorded
  <2> QED BY <1>2, <1>4, <2>1 DEF RecordingOK, Transform!Streams, Transform!StreamName
<1> QED BY <1>3, <1>4

-----------------------------------------------------------------------------
(* The pointers stay aligned.                                              *)

(* The sizes of the ranges begun, as StreamsAligned sums them up.          *)
LEMMA SumOfSizes ==
  ASSUME NEW g, NEW n \in Nat, \A x \in 1 .. n : g[x] \in Nat
  PROVE  FoldFunctionOnSet(LAMBDA a, b : a + b, 0, g, 1 .. n) = Before(g, n + 1)
<1> DEFINE S == 1 .. n
           Solves(iter) ==
             iter = [s \in SUBSET S |->
                       IF s = {} THEN 0
                       ELSE g[CHOOSE x \in s : TRUE] + iter[s \ {CHOOSE x \in s : TRUE}]]
<1>1. ASSUME NEW iter PROVE Solves(iter) <=> SumsUp(iter, g, S)
  BY DEF SumsUp, Pick
<1>2. IsFiniteSet(S) /\ \A x \in S : g[x] \in Nat
  <2>1. 1 \in Int /\ n \in Int
    OBVIOUS
  <2> QED BY <2>1, FS_Interval
<1>3. FoldFunctionOnSet(LAMBDA a, b : a + b, 0, g, S) = (CHOOSE iter : Solves(iter))[S]
  BY DEF FoldFunctionOnSet, MapThenFoldSet
<1>4. Before(g, n + 1) = Weight(g, S)
  <2>1. n + 1 - 1 = n
    OBVIOUS
  <2> QED BY <2>1 DEF Before
<1> HIDE DEF S, Solves
<1>5. SumsUp([s \in SUBSET S |-> Weight(g, s)], g, S)
  BY <1>2, SumExists
<1>6. Solves(CHOOSE iter : Solves(iter))
  BY <1>1, <1>5
<1>7. SumsUp(CHOOSE iter : Solves(iter), g, S)
  BY <1>1, <1>6
<1>8. (CHOOSE iter : Solves(iter))[S] = Weight(g, S)
  BY <1>2, <1>7, SumIsWeight
<1> QED BY <1>3, <1>4, <1>8 DEF S

(* The visits of the scatter array, as it counts them.                     *)
LEMMA ScatterVisitsAre ==
  ASSUME PlannedOK, AlignOK
  PROVE  ScatterVisits = ScatterAt
<1>1. /\ range_num \in Seq(Nat) /\ range_pointer \in 0 .. Len(range_num)
      /\ Before(range_num, 1) = 0 /\ \A k \in 1 .. Len(range_num) + 1 : Before(range_num, k) \in Nat
  BY SizesTaken
<1>2. range_pointer \in Nat /\ Before(range_num, range_pointer + 1) \in Nat
  BY <1>1
<1>3. FoldFunctionOnSet(LAMBDA a, b : a + b, 0, range_num, 1 .. range_pointer) = Before(range_num, range_pointer + 1)
  <2>1. \A x \in 1 .. range_pointer : range_num[x] \in Nat
    BY <1>1
  <2> QED BY <1>2, <2>1, SumOfSizes
<1>4. ScatterVisits = executed - (IF range_pointer = 0 THEN 0
                                  ELSE Before(range_num, range_pointer + 1)
                                         - (IF InRange THEN inner.size - inner.taken ELSE 0))
                        + range_pointer
  BY <1>3 DEF ScatterVisits, InRange
<1>5. /\ block \in 1 .. BlockNum + 1 /\ done_iters \in 0 .. Iterations(block)
      /\ range_pointer = RangesBefore(block)
           + (IF block <= BucketNum THEN 0 ELSE done_iters + (IF InRange THEN 1 ELSE 0))
      /\ BlockNum \in Nat /\ BucketNum \in Nat /\ KeptNum \in Nat
  BY LayoutIs, PlacesAre, BucketPlaces DEF PlannedOK, PlaceOK
<1>6. InRange => /\ inner.size \in Nat /\ inner.taken \in Nat /\ block \in BucketNum + 1 .. BlockNum
                 /\ done_iters \in Nat
  <2> SUFFICES ASSUME InRange
               PROVE  /\ inner.size \in Nat /\ inner.taken \in Nat /\ block \in BucketNum + 1 .. BlockNum
                      /\ done_iters \in Nat
    OBVIOUS
  <2>1. /\ block \in BucketNum + 1 .. BlockNum /\ done_iters \in 0 .. Iterations(block) - 1
        /\ inner.size \in Nat /\ inner.taken \in Nat
    BY AtRangeColumn
  <2> QED BY <2>1
<1>7. CASE block <= BucketNum
  <2>1. ~ InRange /\ block \in 1 .. BucketNum
    BY <1>5, <1>6, <1>7
  <2>2. RangesBefore(block) = 0
    BY <2>1, BucketPlaces DEF PlannedOK
  <2>3. range_pointer = 0
    BY <1>5, <1>7, <2>2
  <2>4. executed \in Int
    <3>1. /\ executed = ColumnsBefore(block) + Passing(block, done_iters) + 0
          /\ ColumnsBefore(block) \in Nat /\ Passing(block, done_iters) = done_iters
          /\ Iterations(block) \in Nat
      BY <2>1, BucketPlaces DEF PlannedOK, PlaceOK
    <3> QED BY <1>5, <3>1
  <2> QED BY <1>4, <1>7, <2>3, <2>4 DEF ScatterAt
<1>8. CASE ~ (block <= BucketNum)
  <2>1. executed = KeptNum + Before(range_num, range_pointer + 1) - (IF InRange THEN inner.size - inner.taken ELSE 0)
    <3>1. block > BucketNum
      BY <1>5, <1>8
    <3> QED BY <3>1 DEF AlignOK
  <2>2. InRange => range_pointer # 0
    <3>1. ASSUME InRange PROVE range_pointer = RangesBefore(block) + (done_iters + 1) /\ RangesBefore(block) \in Nat
      <4>1. block \in 1 .. BlockNum
        BY <1>5, <1>6, <3>1
      <4>2. RangesBefore(block) \in Nat
        BY <4>1, PlacesAre DEF PlannedOK
      <4> QED BY <1>5, <1>8, <3>1, <4>2
    <3> QED BY <1>6, <3>1
  <2> DEFINE a == Before(range_num, range_pointer + 1)
             r == IF InRange THEN inner.size - inner.taken ELSE 0
  <2>3. r \in Int /\ a \in Int /\ executed = KeptNum + a - r
    BY <1>2, <1>6, <2>1
  <2>4. range_pointer = 0 => a = 0 /\ r = 0
    <3>1. range_pointer = 0 => range_pointer + 1 = 1
      OBVIOUS
    <3> QED BY <1>1, <2>2, <3>1
  <2>5. ScatterVisits = executed - (IF range_pointer = 0 THEN 0 ELSE a - r) + range_pointer
    BY <1>4
  <2> HIDE DEF a, r
  <2>6. ScatterVisits = KeptNum + range_pointer
    BY ONLY <1>2, <1>5, <2>3, <2>4, <2>5
  <2> QED BY <1>8, <2>6 DEF ScatterAt
<1> QED BY <1>7, <1>8

(* What each phase of compiler() leaves to the next, so that the pointers  *)
(* stand right when the code runs.                                         *)
AlignInv ==
  /\ phase \in {"table", "transform", "code", "run"} => StaticOK
  /\ phase = "transform" => RecordingOK
  /\ phase \in {"code", "run"} => RecordedAll
  /\ phase = "run" /\ FeaturesApart => AlignOK

(* The function runs.                                                      *)
LEMMA RunAlign ==
  ASSUME PlanInv, AlignInv, RunKernel
  PROVE  AlignInv'
<1>1. /\ phase = "run" /\ phase' = "run" /\ Run!KernelNext
      /\ UNCHANGED <<feature, gather_info, scatter_info, reduction_info, scanned, same_feature_range_map,
                     same_feature_map, bucket_order, range_order, column_order, scatter_order, offset>>
  BY DEF RunKernel, infos, table, orders
<1>2. UNCHANGED <<stream, range_num>>
  BY <1>1 DEF Run!KernelNext, Run!RunColumn, Run!BeginRange, Run!RunRangeColumn, Run!EndRange, Run!NextLoop,
              Run!RunScalar, Run!kernel_inputs
<1>3. StaticOK /\ RecordedAll /\ (FeaturesApart => AlignOK) /\ PlannedOK
  BY <1>1 DEF AlignInv, PlanInv, PlannedOK
<1>4. StaticOK' /\ (FeaturesApart' => FeaturesApart)
  BY <1>1, <1>3, StaticStays
<1>5. RecordedAll'
  BY <1>1, <1>2, <1>3, RecordsStay
<1>6. FeaturesApart' => AlignOK'
  <2> SUFFICES ASSUME FeaturesApart' PROVE AlignOK'
    OBVIOUS
  <2>1. StandOK
    BY <1>3, <1>4 DEF StandOK
  <2>2. StandFrame
    BY <1>1, <1>2 DEF StandFrame, Frame
  <2> QED BY <1>1, <2>1, <2>2, KernelAlign
<1> QED BY <1>1, <1>4, <1>5, <1>6 DEF AlignInv

(* transform_data.                                                         *)
LEMMA TransformAlign ==
  ASSUME DynVecInv, AlignInv, TransformArrays
  PROVE  AlignInv'
<1>1. /\ phase = "transform" /\ phase' = "transform" /\ InfosOK /\ OrdersOK /\ FillOK /\ Transform!TransformNext
      /\ StaticOK /\ RecordingOK
      /\ UNCHANGED <<feature, gather_info, scatter_info, reduction_info, scanned, same_feature_range_map>>
  BY DEF DynVecInv, AlignInv, TransformArrays, infos, table
<1>2. RecordingOK'
  BY <1>1, MallocRecords, RearrangeRecords, NextArrayRecords DEF Transform!TransformNext
<1>3. StaticOK'
  BY <1>1, StaticStays
<1> QED BY <1>1, <1>2, <1>3 DEF AlignInv

(* The steps between transform_data and the call of the function.          *)
LEMMA GenerateAlign ==
  ASSUME DynVecInv, PlanInv, AlignInv, EndTransform \/ GenerateBucketLoop \/ GenerateRangeLoop \/ EndCode
  PROVE  AlignInv'
<1>0. UNCHANGED orders
  BY WalksStay DEF DynVecInv, EndTransform, GenerateBucketLoop, GenerateRangeLoop, EndCode
<1>1. /\ UNCHANGED <<feature, gather_info, scatter_info, reduction_info, scanned, same_feature_range_map,
                     same_feature_map, bucket_order, range_order, column_order, scatter_order, stream, offset>>
      /\ UNCHANGED <<pointer, range_pointer, inner, executed, block>>
  BY <1>0 DEF EndTransform, GenerateBucketLoop, GenerateRangeLoop, EndCode, infos, table, orders, arrays, running
<1>2. \/ phase = "transform" /\ phase' = "code" /\ Transform!Transformed
      \/ phase = "code" /\ phase' # "run" /\ phase' # "transform" /\ phase' # "table"
      \/ phase = "code" /\ phase' = "run"
  BY DEF EndTransform, GenerateBucketLoop, GenerateRangeLoop, EndCode, AppendLoop
<1>3. StaticOK'
  <2>1. StaticOK
    BY <1>2 DEF AlignInv
  <2> QED BY <1>1, <2>1, StaticStays
<1>4. RecordedAll'
  <2>1. RecordedAll
    <3>1. CASE phase = "transform"
      <4>1. FillOK /\ RecordingOK /\ Transform!Transformed
        BY <1>2, <3>1 DEF DynVecInv, AlignInv
      <4> QED BY <4>1, AllRecorded
    <3>2. CASE phase = "code"
      BY <3>2 DEF AlignInv
    <3> QED BY <1>2, <3>1, <3>2
  <2> QED BY <1>1, <2>1, RecordsStay
<1>5. phase' = "run" => AlignOK'
  <2> SUFFICES ASSUME phase' = "run" PROVE AlignOK'
    OBVIOUS
  <2>1. LayoutOK /\ RecordedAll /\ Run!KernelStart
    BY <1>2 DEF PlanInv, AlignInv
  <2>2. Frame
    BY <1>1 DEF Frame
  <2> QED BY <1>1, <2>1, <2>2, StartAlign
<1> QED BY <1>2, <1>3, <1>4, <1>5 DEF AlignInv

(* Pointers that are aligned are where StreamsAligned wants them.          *)
LEMMA AlignedPointers ==
  ASSUME PlanInv, AlignInv, FeaturesApart
  PROVE  StreamsAligned
<1> SUFFICES ASSUME phase = "run"
             PROVE  /\ pointer["data"]    = VisitEnd("data", executed)
                    /\ pointer["gather"]  = VisitEnd("gather", executed)
                    /\ pointer["scatter"] = VisitEnd("scatter", ScatterVisits)
                    /\ inner = Run!NoRange => pointer["reduction"] = VisitEnd("reduction", executed)
  BY DEF StreamsAligned
<1>1. PlannedOK /\ AlignOK
  BY DEF PlanInv, AlignInv, PlannedOK
<1>2. ScatterVisits = ScatterAt
  BY <1>1, ScatterVisitsAre
<1> QED BY <1>1, <1>2 DEF AlignOK

LEMMA AlignInvHolds == ASSUME NoKeyIsNoHash PROVE Spec => [](DynVecInv /\ PlanInv /\ AlignInv)
<1>1. Init => AlignInv
  BY DEF Init, AlignInv
<1>2. ASSUME DynVecInv, DynVecInv', PlanInv, AlignInv, [Next]_vars PROVE AlignInv'
  <2>1. CASE GenerateInformation
    <3>1. phase = "information" /\ phase' \in {"table", "unsupported"} /\ FT!EmptyTable
      BY <1>2, <2>1 DEF GenerateInformation, DynVecInv
    <3>2. phase' = "table" => StaticOK'
      <4>1. phase' = "table" => InfosOK'
        BY <1>2 DEF DynVecInv
      <4> QED BY <2>1, <3>1, <4>1, InformationStatic
    <3> QED BY <3>1, <3>2 DEF AlignInv
  <2>2. CASE BuildTable
    <3>1. /\ phase = "table" /\ phase' = "table" /\ StaticOK /\ FT!IInv /\ Table!TableNext
          /\ UNCHANGED <<gather_info, scatter_info, reduction_info>>
      BY <1>2, <2>2 DEF BuildTable, DynVecInv, AlignInv, infos
    <3>2. StaticOK'
      BY <3>1, TableStatic
    <3> QED BY <3>1, <3>2 DEF AlignInv
  <2>3. CASE FixMapOrder
    <3>1. /\ phase = "table" /\ phase' = "transform" /\ StaticOK
          /\ UNCHANGED <<feature, gather_info, scatter_info, reduction_info, scanned, same_feature_range_map>>
          /\ DynVecInv /\ UNCHANGED <<filling, need_data_num, visit, stream, offset>>
      BY <1>2, <2>3 DEF FixMapOrder, AlignInv, infos, table, arrays
    <3>2. StaticOK'
      BY <3>1, StaticStays
    <3>3. RecordingOK'
      BY <1>2, <2>3, <3>1, OrdersRecord
    <3> QED BY <3>1, <3>2, <3>3 DEF AlignInv
  <2>4. CASE TransformArrays
    BY <1>2, <2>4, TransformAlign
  <2>5. CASE EndTransform \/ GenerateBucketLoop \/ GenerateRangeLoop \/ EndCode
    BY <1>2, <2>5, GenerateAlign
  <2>6. CASE RunKernel
    BY <1>2, <2>6, RunAlign
  <2>7. CASE EndRun
    <3>1. phase' = "done"
      BY <2>7 DEF EndRun
    <3> QED BY <3>1 DEF AlignInv
  <2>8. CASE UNCHANGED vars
    <3>1. /\ UNCHANGED <<feature, gather_info, scatter_info, reduction_info, scanned, same_feature_range_map,
                         same_feature_map, bucket_order, range_order, column_order, scatter_order, stream, offset>>
          /\ UNCHANGED <<pointer, range_pointer, range_num, inner, executed, block, filling, need_data_num, visit>>
          /\ phase' = phase
      BY <2>8 DEF vars, infos, table, orders, arrays, generated, running
    <3>2. StaticOK => StaticOK' /\ (FeaturesApart' => FeaturesApart)
      BY <3>1, StaticStays
    <3>3. (RecordingOK => RecordingOK') /\ (RecordedAll => RecordedAll')
      BY <3>1, RecordsStay
    <3>4. AlignOK => AlignOK'
      <4>1. Before(range_num, range_pointer + 1)' = Before(range_num, range_pointer + 1)
        BY <3>1 DEF Before, Weight, Stack
      <4>2. Frame
        BY <3>1 DEF Frame
      <4> QED BY <3>1, <4>1, <4>2, AlignStays
    <3> QED BY <1>2, <3>1, <3>2, <3>3, <3>4 DEF AlignInv
  <2> QED BY <1>2, <2>1, <2>2, <2>3, <2>4, <2>5, <2>6, <2>7, <2>8 DEF Next
<1> QED BY <1>1, <1>2, Planned, PTL DEF Spec

(* The pointers of the generated code stand, between two iterations, where *)
(* transform_data has put the entries of the next column to run, for every *)
(* input of every size and any order of the maps: what malloc_new_data,    *)
(* rearrange_elem and the passes say of an Info agree, and the Infos of    *)
(* the columns of a bucket agree if no two features of the table collide   *)
(* in the hash.                                                            *)
THEOREM StreamsStayAligned == ASSUME NoKeyIsNoHash PROVE Spec => [](FeaturesApart => StreamsAligned)
<1>1. PlanInv /\ AlignInv => (FeaturesApart => StreamsAligned)
  BY AlignedPointers
<1> QED BY <1>1, AlignInvHolds, PTL
=============================================================================
