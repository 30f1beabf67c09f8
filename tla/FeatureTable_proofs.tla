------------------------ MODULE FeatureTable_proofs ------------------------
(***************************************************************************)
(* Proofs about FeatureTable: whatever the features, the hash, the number  *)
(* of columns and the order in which the buckets are walked, no column is  *)
(* lost or placed twice, and a range writes one location.                  *)
(***************************************************************************)
EXTENDS FeatureTable, SequenceTheorems, TLAPS

(* A bucket holds columns of its key, in ascending order.                  *)
BucketOK ==
  \A k \in DOMAIN same_feature_map :
    LET b == same_feature_map[k] IN
    /\ Len(b) <= next_column
    /\ \A j \in 1 .. Len(b) : b[j] < next_column /\ KeyOf(b[j]) = k
    /\ \A i, j \in 1 .. Len(b) : i < j => b[i] < b[j]

(* What the place in the program says of the two loops.                    *)
PhaseOK ==
  /\ table_pc = "combine" => todo = {} /\ DOMAIN same_feature_range_map = {}
  /\ table_pc # "combine" => next_column = TableColumnNum
  /\ table_pc = "done" => todo = {}
  /\ DOMAIN same_feature_range_map \subseteq DOMAIN same_feature_map
  /\ \A k \in todo : k \notin DOMAIN same_feature_range_map
  /\ NoKey \notin DOMAIN same_feature_map

(* Between two scans the variables of the scan are at their start.         *)
IdleOK ==
  scanned = NoKey =>
    /\ begin_index = 1 /\ len = 1
    /\ new_index_vec = <<>> /\ same_write_range = <<>>

(* The run being followed lies in the bucket; its columns are neighbours   *)
(* and write one location.                                                 *)
RunOK ==
  scanned # NoKey =>
    LET b == same_feature_map[scanned] IN
    /\ begin_index <= Len(b) + 1
    /\ begin_index = Len(b) + 1 => len = 1
    /\ begin_index <= Len(b) => begin_index + len <= Len(b) + 1
    /\ \A i \in 0 .. len - 1 :
         begin_index <= Len(b) =>
           /\ b[begin_index + i] = b[begin_index] + i
           /\ location[b[begin_index + i]] = location[b[begin_index]]

(* What the scan has dealt out so far comes before the rest of the bucket. *)
DealtOK ==
  scanned # NoKey =>
    LET b == same_feature_map[scanned] IN
    /\ Len(new_index_vec) < begin_index
    /\ \A m \in 1 .. Len(new_index_vec) :
         /\ new_index_vec[m] < next_column
         /\ KeyOf(new_index_vec[m]) = scanned
         /\ \A n \in 1 .. Len(new_index_vec) : m < n => new_index_vec[m] < new_index_vec[n]
         /\ \A j \in begin_index .. Len(b) : new_index_vec[m] < b[j]
    /\ \A i \in 1 .. Len(same_write_range) : \A j \in begin_index .. Len(b) :
         same_write_range[i][2] <= b[j]

(* The ranges of a key are apart and in ascending order; each has at least *)
(* two columns, all of that key and with one location.                     *)
RangesOK ==
  \A k \in DOMAIN same_feature_map :
    \A i \in 1 .. Len(Ranges(k)) :
      LET r == Ranges(k)[i] IN
      /\ r[1] + 1 < r[2] /\ r[2] <= next_column
      /\ \A c \in r[1] .. r[2] - 1 : KeyOf(c) = k /\ location[c] = location[r[1]]
      /\ \A j \in 1 .. Len(Ranges(k)) : i < j => r[2] <= Ranges(k)[j][1]

(* InBucket, without the concatenation of Held.                            *)
Holds(c, k) ==
  IF k = scanned
    THEN \/ \E m \in 1 .. Len(new_index_vec) : new_index_vec[m] = c
         \/ \E j \in begin_index .. Len(same_feature_map[k]) : same_feature_map[k][j] = c
    ELSE \E j \in 1 .. Len(same_feature_map[k]) : same_feature_map[k][j] = c

PlacedOK ==
  \A c \in 0 .. next_column - 1 :
    /\ KeyOf(c) \in DOMAIN same_feature_map
    /\ Holds(c, KeyOf(c)) <=> ~ InRange(c, KeyOf(c))

IInv ==
  /\ TableTypeOK
  /\ BucketOK
  /\ PhaseOK
  /\ IdleOK
  /\ RunOK
  /\ DealtOK
  /\ RangesOK
  /\ PlacedOK

-----------------------------------------------------------------------------

Ascending(b) == \A i, j \in 1 .. Len(b) : i < j => b[i] < b[j]

(* Columns are numbers from 0 on.                                         *)
LEMMA ColumnInt ==
  \A c \in Column : c \in Int /\ 0 <= c /\ c < TableColumnNum
BY TableAssumption DEF Column

(* The elements of a bucket are numbers.                                   *)
LEMMA SeqColumn ==
  ASSUME NEW b \in Seq(Column)
  PROVE  Len(b) \in Nat /\ \A j \in 1 .. Len(b) : b[j] \in Column /\ b[j] \in Int
BY ColumnInt

(* A range is a pair of numbers.                                           *)
LEMMA RangeType ==
  ASSUME TableTypeOK, NEW k, NEW i \in 1 .. Len(Ranges(k))
  PROVE  /\ Ranges(k) \in Seq(ColumnRange)
         /\ Ranges(k)[i][1] \in Column /\ Ranges(k)[i][2] \in 1 .. TableColumnNum
         /\ Ranges(k)[i][1] \in Int /\ Ranges(k)[i][2] \in Int
<1>1. Ranges(k) \in Seq(ColumnRange)
  BY DEF TableTypeOK, Ranges
<1>2. Ranges(k)[i] \in ColumnRange
  BY <1>1
<1> QED
  BY <1>1, <1>2, ColumnInt DEF ColumnRange

(* Appending something larger than all the rest keeps a sequence ascending.*)
LEMMA AppendAscending ==
  ASSUME NEW b \in Seq(Column), NEW x \in Column, Ascending(b),
         \A j \in 1 .. Len(b) : b[j] < x
  PROVE  Ascending(Append(b, x))
<1>1. /\ Len(Append(b, x)) = Len(b) + 1 /\ Len(b) \in Nat
      /\ \A j \in 1 .. Len(b) : Append(b, x)[j] = b[j]
      /\ Append(b, x)[Len(b) + 1] = x
      /\ x \in Int /\ \A j \in 1 .. Len(b) : b[j] \in Int
  BY SeqColumn, ColumnInt
<1> DEFINE a == Append(b, x)
<1> HIDE DEF a
<1>2. ASSUME NEW i \in 1 .. Len(a), NEW j \in 1 .. Len(a), i < j
      PROVE  a[i] < a[j]
  <2>1. i \in 1 .. Len(b) /\ a[i] = b[i]
    BY <1>1, <1>2 DEF a
  <2>2. CASE j = Len(b) + 1
    BY <2>1, <2>2, <1>1 DEF a
  <2>3. CASE j # Len(b) + 1
    <3>1. j \in 1 .. Len(b) /\ a[j] = b[j]
      BY <1>1, <2>3 DEF a
    <3> QED
      BY <2>1, <3>1, <1>2 DEF Ascending
  <2> QED
    BY <2>2, <2>3
<1> QED
  BY <1>2 DEF Ascending, a

(* Every column has a key, and the key is not NoKey.                       *)
LEMMA KeyOfColumn ==
  ASSUME TableTypeOK, NEW c \in Column
  PROVE  KeyOf(c) # NoKey
BY TableAssumption DEF TableTypeOK, KeyOf

(* Before the first column is filed, all is empty.                         *)
LEMMA InitInv == TableInit => IInv
<1> SUFFICES ASSUME TableInit PROVE IInv
  OBVIOUS
<1> USE TableAssumption DEF TableInit, EmptyTable
<1>1. TableTypeOK
  BY DEF TableTypeOK
<1>2. BucketOK /\ PhaseOK /\ IdleOK /\ RunOK /\ DealtOK /\ RangesOK /\ PlacedOK
  BY DEF BucketOK, PhaseOK, IdleOK, RunOK, DealtOK, RangesOK, PlacedOK
<1> QED
  BY <1>1, <1>2 DEF IInv

(* CombinSameFeature appends the next column, larger than all before it,   *)
(* to the bucket of its key.                                               *)
LEMMA CombinInv == IInv /\ CombinSameFeature => IInv'
<1> SUFFICES ASSUME IInv, CombinSameFeature PROVE IInv'
  OBVIOUS
<1> DEFINE k0 == KeyOf(next_column)
           b0 == Bucket(k0)
<1>a. /\ next_column \in Column
      /\ next_column \in Nat /\ TableColumnNum \in Nat
      /\ table_pc = "combine" /\ todo = {} /\ scanned = NoKey
  BY TableAssumption DEF IInv, TableTypeOK, PhaseOK, CombinSameFeature, Column
<1>b. k0 # NoKey
  BY <1>a, KeyOfColumn DEF IInv
<1>c. /\ b0 \in Seq(Column) /\ Len(b0) <= next_column /\ Len(b0) \in Nat
      /\ \A j \in 1 .. Len(b0) : b0[j] < next_column /\ KeyOf(b0[j]) = k0 /\ b0[j] \in Column
      /\ \A i, j \in 1 .. Len(b0) : i < j => b0[i] < b0[j]
  <2>1. CASE k0 \in DOMAIN same_feature_map
    <3>1. b0 = same_feature_map[k0]
      BY <2>1 DEF Bucket
    <3>2. b0 \in Seq(Column)
      BY <2>1, <3>1 DEF IInv, TableTypeOK
    <3> HIDE DEF k0, b0
    <3>3. /\ Len(b0) <= next_column
          /\ \A j \in 1 .. Len(b0) : b0[j] < next_column /\ KeyOf(b0[j]) = k0
          /\ \A i, j \in 1 .. Len(b0) : i < j => b0[i] < b0[j]
      BY <2>1, <3>1 DEF IInv, BucketOK
    <3> QED
      BY <2>1, <3>1, <3>2, <1>a DEF IInv, BucketOK
  <2>2. CASE k0 \notin DOMAIN same_feature_map
    <3>1. b0 = <<>>
      BY <2>2 DEF Bucket
    <3> HIDE DEF b0
    <3> QED
      BY <3>1, <1>a
  <2> QED
    BY <2>1, <2>2
<1>d. /\ DOMAIN same_feature_map' = DOMAIN same_feature_map \cup {k0}
      /\ same_feature_map'[k0] = Append(b0, next_column)
      /\ \A k \in DOMAIN same_feature_map : k # k0 => same_feature_map'[k] = same_feature_map[k]
  BY DEF CombinSameFeature, Put
<1>e. /\ feature' = feature /\ location' = location
      /\ same_feature_range_map' = same_feature_range_map
      /\ table_pc' = table_pc /\ todo' = todo /\ scanned' = scanned
      /\ begin_index' = begin_index /\ len' = len /\ new_index_vec' = new_index_vec
      /\ same_write_range' = same_write_range /\ next_column' = next_column + 1
  BY DEF CombinSameFeature, table_inputs, scan
<1> HIDE DEF k0, b0
<1>f. /\ Append(b0, next_column) \in Seq(Column)
      /\ Len(Append(b0, next_column)) = Len(b0) + 1
      /\ \A j \in 1 .. Len(b0) : Append(b0, next_column)[j] = b0[j]
      /\ Append(b0, next_column)[Len(b0) + 1] = next_column
  BY <1>a, <1>c
<1>1. TableTypeOK'
  <2>1. ASSUME NEW k \in DOMAIN same_feature_map'
        PROVE  same_feature_map'[k] \in Seq(Column)
    <3>1. CASE k = k0
      BY <3>1, <1>d, <1>f
    <3>2. CASE k # k0
      BY <3>2, <1>d DEF IInv, TableTypeOK
    <3> QED
      BY <3>1, <3>2
  <2>2. next_column' \in 0 .. TableColumnNum
    BY <1>a, <1>e DEF Column
  <2> QED
    BY <2>1, <2>2, <1>d, <1>e DEF IInv, TableTypeOK
<1>2. BucketOK'
  <2> SUFFICES ASSUME NEW k \in DOMAIN same_feature_map'
               PROVE  LET b == same_feature_map'[k] IN
                      /\ Len(b) <= next_column + 1
                      /\ \A j \in 1 .. Len(b) : b[j] < next_column + 1 /\ KeyOf(b[j]) = k
                      /\ \A i, j \in 1 .. Len(b) : i < j => b[i] < b[j]
    BY <1>e DEF BucketOK, KeyOf
  <2>1. CASE k = k0
    <3> DEFINE b == Append(b0, next_column)
    <3>1. \A j \in 1 .. Len(b) : b[j] <= next_column /\ KeyOf(b[j]) = k0
      <4>1. KeyOf(next_column) = k0
        BY DEF k0
      <4> SUFFICES ASSUME NEW j \in 1 .. Len(b)
                   PROVE  b[j] <= next_column /\ KeyOf(b[j]) = k0
        OBVIOUS
      <4>2. CASE j = Len(b0) + 1
        BY <4>1, <4>2, <1>a, <1>f
      <4>3. CASE j # Len(b0) + 1
        <5>1. j \in 1 .. Len(b0)
          BY <4>3, <1>c, <1>f
        <5> QED
          BY <5>1, <1>a, <1>c, <1>f, SeqColumn
      <4> QED
        BY <4>2, <4>3
    <3>2. \A i, j \in 1 .. Len(b) : i < j => b[i] < b[j]
      BY <1>a, <1>c, AppendAscending DEF Ascending
    <3>3. Len(b) <= next_column + 1
      BY <1>a, <1>c, <1>f
    <3>4. \A j \in 1 .. Len(b) : b[j] \in Int
      BY <1>a, <1>c, <1>f, SeqColumn
    <3> HIDE DEF b
    <3>5. \A j \in 1 .. Len(b) : b[j] < next_column + 1
      BY <3>1, <3>4, <1>a
    <3> QED
      BY <2>1, <3>1, <3>2, <3>3, <3>5, <1>d DEF b
  <2>2. CASE k # k0
    <3> DEFINE b == same_feature_map[k]
    <3>1. b \in Seq(Column) /\ k \in DOMAIN same_feature_map /\ same_feature_map'[k] = b
      BY <1>d, <2>2 DEF IInv, TableTypeOK
    <3>2. /\ Len(b) <= next_column
          /\ \A j \in 1 .. Len(b) : b[j] < next_column /\ KeyOf(b[j]) = k
          /\ \A i, j \in 1 .. Len(b) : i < j => b[i] < b[j]
      BY <3>1, <1>a DEF IInv, BucketOK
    <3> HIDE DEF b
    <3> QED
      <4>1. \A j \in 1 .. Len(b) : b[j] \in Int
        BY <3>1, SeqColumn
      <4> QED
        BY <4>1, <3>1, <3>2, <1>a
  <2> QED
    BY <2>1, <2>2
<1>3. PhaseOK' /\ IdleOK' /\ RunOK' /\ DealtOK'
  BY <1>a, <1>b, <1>d, <1>e DEF IInv, PhaseOK, IdleOK, RunOK, DealtOK
<1>g. \A k : Ranges(k)' = Ranges(k)
  BY <1>e DEF Ranges
<1>4. RangesOK'
  <2>1. ASSUME NEW k \in DOMAIN same_feature_map', k \notin DOMAIN same_feature_map
        PROVE  Ranges(k) = <<>>
    BY <2>1, <1>a, <1>b, <1>d DEF IInv, PhaseOK, Ranges
  <2> SUFFICES ASSUME NEW k \in DOMAIN same_feature_map',
                      NEW i \in 1 .. Len(Ranges(k))
               PROVE  LET r == Ranges(k)[i] IN
                      /\ r[1] + 1 < r[2] /\ r[2] <= next_column + 1
                      /\ \A c \in r[1] .. r[2] - 1 :
                           KeyOf(c) = k /\ location[c] = location[r[1]]
                      /\ \A j \in 1 .. Len(Ranges(k)) : i < j => r[2] <= Ranges(k)[j][1]
    BY <1>e, <1>g DEF RangesOK, KeyOf
  <2>2. k \in DOMAIN same_feature_map
    BY <2>1
  <2> DEFINE r == Ranges(k)[i]
  <2>3. /\ r[1] + 1 < r[2] /\ r[2] <= next_column
        /\ \A c \in r[1] .. r[2] - 1 : KeyOf(c) = k /\ location[c] = location[r[1]]
        /\ \A j \in 1 .. Len(Ranges(k)) : i < j => r[2] <= Ranges(k)[j][1]
    BY <2>2 DEF IInv, RangesOK
  <2>4. r[2] \in Int
    BY <2>2, RangeType DEF IInv
  <2> QED
    BY <2>3, <2>4, <1>a
<1>5. PlacedOK'
  <2> SUFFICES ASSUME NEW c \in 0 .. next_column' - 1
               PROVE  /\ KeyOf(c) \in DOMAIN same_feature_map'
                      /\ Holds(c, KeyOf(c))' <=> ~ InRange(c, KeyOf(c))
    BY <1>e, <1>g DEF PlacedOK, InRange, KeyOf
  <2> DEFINE k == KeyOf(c)
  <2>0. /\ c \in Column /\ c \in Int /\ k # NoKey
        /\ Holds(c, k)' <=> \E j \in 1 .. Len(same_feature_map'[k]) : same_feature_map'[k][j] = c
        /\ Holds(c, k) <=> \E j \in 1 .. Len(same_feature_map[k]) : same_feature_map[k][j] = c
    <3>1. c \in Column /\ c \in Int
      BY <1>a, <1>e DEF Column
    <3>2. k # NoKey
      BY <3>1, KeyOfColumn DEF IInv
    <3>3. KeyOf(c)' = KeyOf(c)
      BY <1>e DEF KeyOf
    <3> QED
      BY <3>1, <3>2, <3>3, <1>a, <1>e DEF Holds
  <2>1. CASE c = next_column
    <3>1. k = k0
      BY <2>1 DEF k0
    <3>2. Holds(c, k)'
      <4>1. /\ Len(b0) + 1 \in 1 .. Len(Append(b0, next_column))
            /\ Append(b0, next_column)[Len(b0) + 1] = c
        BY <2>1, <1>c, <1>f
      <4> QED
        BY <4>1, <3>1, <2>0, <1>d
    <3>3. ~ InRange(c, k)
      <4> SUFFICES ASSUME NEW i \in 1 .. Len(Ranges(k)), Covers(Ranges(k)[i], c)
                   PROVE  FALSE
        BY RangeType DEF InRange, IInv
      <4>1. CASE k \in DOMAIN same_feature_map
        <5>1. Ranges(k)[i][2] <= next_column
          BY <4>1 DEF IInv, RangesOK
        <5>2. Ranges(k)[i][2] \in Int
          BY RangeType DEF IInv
        <5> QED
          BY <5>1, <5>2, <2>1, <2>0, <1>a DEF Covers
      <4>2. CASE k \notin DOMAIN same_feature_map
        <5>1. Ranges(k) = <<>>
          BY <4>2, <2>0, <1>a DEF Ranges, IInv, PhaseOK
        <5> QED
          BY <5>1
      <4> QED
        BY <4>1, <4>2
    <3> QED
      BY <3>1, <3>2, <3>3, <1>d, <1>e DEF KeyOf
  <2>2. CASE c # next_column
    <3>1. c \in 0 .. next_column - 1
      BY <2>2, <1>a, <1>e
    <3>2. k \in DOMAIN same_feature_map /\ (Holds(c, k) <=> ~ InRange(c, k))
      BY <3>1 DEF IInv, PlacedOK
    <3>3. Holds(c, k)' <=> Holds(c, k)
      <4>1. CASE k = k0
        <5>1. b0 = same_feature_map[k]
          BY <4>1, <3>2 DEF b0, Bucket
        <5>2. (\E j \in 1 .. Len(Append(b0, next_column)) : Append(b0, next_column)[j] = c)
                <=> \E j \in 1 .. Len(b0) : b0[j] = c
          BY <2>2, <1>c, <1>f
        <5> QED
          BY <5>1, <5>2, <4>1, <2>0, <1>d
      <4>2. CASE k # k0
        BY <4>2, <3>2, <2>0, <1>d
      <4> QED
        BY <4>1, <4>2
    <3> QED
      BY <3>2, <3>3, <1>d, <1>e DEF KeyOf
  <2> QED
    BY <2>1, <2>2
<1> QED
  BY <1>1, <1>2, <1>3, <1>4, <1>5 DEF IInv

(* The walk over the buckets begins or ends: nothing of the table changes. *)
LEMMA WalkInv == IInv /\ (BeginWritePattern \/ EndWritePattern) => IInv'
<1> SUFFICES ASSUME IInv, BeginWritePattern \/ EndWritePattern PROVE IInv'
  OBVIOUS
<1>1. /\ feature' = feature /\ location' = location
      /\ same_feature_map' = same_feature_map
      /\ same_feature_range_map' = same_feature_range_map
      /\ next_column' = next_column /\ scanned' = scanned
      /\ begin_index' = begin_index /\ len' = len /\ new_index_vec' = new_index_vec
      /\ same_write_range' = same_write_range
  BY DEF BeginWritePattern, EndWritePattern, table_inputs, table, scan
<1>2. /\ scanned = NoKey
      /\ table_pc' \in {"write", "done"}
      /\ todo' \subseteq DOMAIN same_feature_map
      /\ next_column = TableColumnNum
      /\ table_pc' = "done" => todo' = {}
      /\ \A k \in todo' : k \notin DOMAIN same_feature_range_map
  BY DEF BeginWritePattern, EndWritePattern, IInv, TableTypeOK, PhaseOK
<1>3. TableTypeOK'
  BY <1>1, <1>2 DEF IInv, TableTypeOK
<1>4. PhaseOK' /\ IdleOK' /\ RunOK' /\ DealtOK'
  BY <1>1, <1>2 DEF IInv, PhaseOK, IdleOK, RunOK, DealtOK
<1>5. BucketOK' /\ RangesOK' /\ PlacedOK'
  BY <1>1 DEF IInv, BucketOK, RangesOK, PlacedOK, Holds, InRange, Ranges, KeyOf
<1> QED
  BY <1>3, <1>4, <1>5 DEF IInv

(* The walk reaches a bucket: it is passed over, or its scan begins with   *)
(* everything still in it.                                                 *)
LEMMA BeginBucketInv == ASSUME IInv, NEW k0 \in todo, BeginBucket(k0) PROVE IInv'
<1>1. /\ feature' = feature /\ location' = location
      /\ same_feature_map' = same_feature_map
      /\ same_feature_range_map' = same_feature_range_map
      /\ next_column' = next_column /\ table_pc' = table_pc
      /\ begin_index' = begin_index /\ len' = len /\ new_index_vec' = new_index_vec
      /\ same_write_range' = same_write_range
      /\ scanned = NoKey /\ table_pc = "write"
  BY DEF BeginBucket, table_inputs, table, scan
<1>2. /\ begin_index = 1 /\ len = 1 /\ new_index_vec = <<>> /\ same_write_range = <<>>
      /\ k0 \in DOMAIN same_feature_map /\ k0 \notin DOMAIN same_feature_range_map
      /\ k0 # NoKey
  BY <1>1 DEF IInv, IdleOK, PhaseOK, TableTypeOK
<1>3. CASE ~ FirstIsEquel(Bucket(k0))
  <2>1. todo' = todo \ {k0} /\ scanned' = scanned
    BY <1>3 DEF BeginBucket, Retire, scan
  <2>2. TableTypeOK'
    BY <1>1, <2>1 DEF IInv, TableTypeOK
  <2>3. PhaseOK' /\ IdleOK' /\ RunOK' /\ DealtOK'
    BY <1>1, <2>1 DEF IInv, PhaseOK, IdleOK, RunOK, DealtOK
  <2>4. BucketOK'
    BY <1>1 DEF IInv, BucketOK, KeyOf
  <2>5. \A k : Ranges(k)' = Ranges(k)
    BY <1>1, <2>1 DEF Ranges
  <2>6. RangesOK'
    BY <1>1, <2>5 DEF IInv, RangesOK, KeyOf
  <2>7. \A c, k : Holds(c, k)' <=> Holds(c, k)
    BY <1>1, <2>1 DEF Holds
  <2>8. PlacedOK'
    BY <1>1, <2>5, <2>7 DEF IInv, PlacedOK, InRange, KeyOf
  <2> QED
    BY <2>2, <2>3, <2>4, <2>6, <2>8 DEF IInv
<1>4. CASE FirstIsEquel(Bucket(k0))
  <2>1. todo' = todo /\ scanned' = k0
    BY <1>4 DEF BeginBucket
  <2> DEFINE b == same_feature_map[k0]
  <2>2. b \in Seq(Column) /\ b # <<>>
    BY <1>2, <1>4 DEF FirstIsEquel, Bucket, IInv, TableTypeOK
  <2>3. Len(b) \in Nat /\ Len(b) >= 1 /\ b[1] \in Int /\ b[1 + 0] = b[1]
    BY <2>2, SeqColumn
  <2>4. TableTypeOK'
    BY <1>1, <2>1 DEF IInv, TableTypeOK
  <2>5. PhaseOK' /\ IdleOK'
    BY <1>1, <1>2, <2>1 DEF IInv, PhaseOK, IdleOK
  <2>6. RunOK' /\ DealtOK'
    BY <1>1, <1>2, <2>1, <2>3 DEF RunOK, DealtOK
  <2>7. \A k : Ranges(k)' = Ranges(k)
    <3> SUFFICES ASSUME NEW k PROVE Ranges(k)' = Ranges(k)
      OBVIOUS
    <3>1. CASE k = k0
      BY <3>1, <1>1, <1>2, <2>1 DEF Ranges
    <3>2. CASE k # k0
      <4>1. Ranges(k) = IF k \in DOMAIN same_feature_range_map
                          THEN same_feature_range_map[k] ELSE <<>>
        BY <1>1, <1>2 DEF Ranges, IInv, PhaseOK
      <4>2. Ranges(k)' = IF k \in DOMAIN same_feature_range_map
                           THEN same_feature_range_map[k] ELSE <<>>
        BY <1>1, <2>1, <3>2 DEF Ranges
      <4> QED
        BY <4>1, <4>2
    <3> QED
      BY <3>1, <3>2
  <2>8. BucketOK' /\ RangesOK'
    BY <1>1, <2>7 DEF IInv, BucketOK, RangesOK, KeyOf
  <2>9. ASSUME NEW c \in 0 .. next_column - 1
        PROVE  Holds(c, KeyOf(c))' <=> Holds(c, KeyOf(c))
    <3>1. KeyOf(c)' = KeyOf(c) /\ KeyOf(c) # NoKey
      <4>1. next_column = TableColumnNum
        BY <1>1 DEF IInv, PhaseOK
      <4> QED
        BY <4>1, <1>1, KeyOfColumn DEF IInv, KeyOf, Column
    <3>2. CASE KeyOf(c) = k0
      BY <3>1, <3>2, <1>1, <1>2, <2>1 DEF Holds
    <3>3. CASE KeyOf(c) # k0
      BY <3>1, <3>3, <1>1, <1>2, <2>1 DEF Holds
    <3> QED
      BY <3>2, <3>3
  <2>10. PlacedOK'
    BY <1>1, <2>7, <2>9 DEF IInv, PlacedOK, InRange, KeyOf
  <2> QED
    BY <2>4, <2>5, <2>6, <2>8, <2>10 DEF IInv
<1> QED
  BY <1>3, <1>4

(* The run grows by a neighbour that writes the location of the one before.*)
LEMMA ExtendInv == IInv /\ ExtendRun => IInv'
<1> SUFFICES ASSUME IInv, ExtendRun PROVE IInv'
  OBVIOUS
<1>1. /\ feature' = feature /\ location' = location
      /\ same_feature_map' = same_feature_map
      /\ same_feature_range_map' = same_feature_range_map
      /\ next_column' = next_column /\ table_pc' = table_pc
      /\ todo' = todo /\ scanned' = scanned /\ scanned # NoKey
      /\ begin_index' = begin_index /\ len' = len + 1 /\ new_index_vec' = new_index_vec
      /\ same_write_range' = same_write_range
  BY DEF ExtendRun, table_inputs, table
<1> DEFINE b == same_feature_map[scanned]
<1>2. /\ scanned \in DOMAIN same_feature_map /\ b \in Seq(Column)
      /\ Bucket(scanned) = b
  BY <1>1 DEF IInv, TableTypeOK, Bucket
<1>3. /\ Len(b) \in Nat /\ Len(b) <= TableColumnNum /\ TableColumnNum \in Nat
      /\ begin_index \in Nat /\ begin_index >= 1 /\ len \in Nat /\ len >= 1
      /\ \A j \in 1 .. Len(b) : b[j] \in Int
  <2>1. Len(b) <= next_column /\ next_column \in 0 .. TableColumnNum
    BY <1>2 DEF IInv, TableTypeOK, BucketOK
  <2> QED
    BY <1>2, <2>1, TableAssumption, SeqColumn DEF IInv, TableTypeOK
<1>4. /\ begin_index + len <= Len(b)
      /\ b[begin_index + len - 1 + 1] = b[begin_index + len - 1] + 1
      /\ location[b[begin_index + len - 1 + 1]] = location[b[begin_index + len - 1]]
  BY <1>2 DEF ExtendRun, RunGoesOn, Joined
<1>5. TableTypeOK'
  <2>1. len + 1 \in 1 .. TableColumnNum + 1
    BY <1>3, <1>4
  <2> QED
    BY <2>1, <1>1 DEF IInv, TableTypeOK
<1>6. PhaseOK' /\ IdleOK' /\ DealtOK' /\ BucketOK' /\ RangesOK' /\ PlacedOK'
  BY <1>1 DEF IInv, PhaseOK, IdleOK, DealtOK, BucketOK, RangesOK, PlacedOK,
              Holds, InRange, Ranges, KeyOf
<1>7. RunOK'
  <2>1. \A i \in 0 .. len - 1 :
          /\ b[begin_index + i] = b[begin_index] + i
          /\ location[b[begin_index + i]] = location[b[begin_index]]
    <3>1. begin_index <= Len(b)
      BY <1>3, <1>4
    <3> QED
      BY <3>1, <1>1 DEF IInv, RunOK
  <2>2. begin_index + len - 1 + 1 = begin_index + len /\ begin_index + (len - 1) = begin_index + len - 1
    BY <1>3
  <2>3. /\ b[begin_index + len] = b[begin_index] + len
        /\ location[b[begin_index + len]] = location[b[begin_index]]
    <3>1. /\ b[begin_index + len - 1] = b[begin_index] + (len - 1)
          /\ location[b[begin_index + len - 1]] = location[b[begin_index]]
      <4>1. len - 1 \in 0 .. len - 1
        BY <1>3
      <4>2. /\ b[begin_index + (len - 1)] = b[begin_index] + (len - 1)
            /\ location[b[begin_index + (len - 1)]] = location[b[begin_index]]
        BY <4>1, <2>1
      <4> QED
        BY <4>2, <2>2
    <3>2. begin_index \in 1 .. Len(b)
      BY <1>3, <1>4
    <3> QED
      BY <3>1, <3>2, <2>2, <1>3, <1>4
  <2>4. \A i \in 0 .. len :
          /\ b[begin_index + i] = b[begin_index] + i
          /\ location[b[begin_index + i]] = location[b[begin_index]]
    <3> SUFFICES ASSUME NEW i \in 0 .. len
                 PROVE  /\ b[begin_index + i] = b[begin_index] + i
                        /\ location[b[begin_index + i]] = location[b[begin_index]]
      OBVIOUS
    <3>1. CASE i = len
      BY <3>1, <2>3
    <3>2. CASE i # len
      BY <3>2, <2>1, <1>3
    <3> QED
      BY <3>1, <3>2
  <2>5. 0 .. (len + 1) - 1 = 0 .. len
    BY <1>3
  <2> HIDE DEF b
  <2>6. /\ begin_index <= Len(b) + 1
        /\ begin_index # Len(b) + 1
        /\ begin_index + (len + 1) <= Len(b) + 1
    BY <1>3, <1>4
  <2> QED
    BY <2>4, <2>5, <2>6, <1>1 DEF RunOK, b
<1> QED
  BY <1>5, <1>6, <1>7 DEF IInv

(* A finished run: the columns b[begin_index] .. b[begin_index + len - 1]  *)
(* are neighbours, write one location and lie below the rest of the bucket.*)
LEMMA RunFacts ==
  ASSUME IInv, scanned # NoKey, begin_index <= Len(same_feature_map[scanned])
  PROVE  LET b == same_feature_map[scanned]
             q == begin_index + len
             first == b[begin_index]
             last  == b[q - 1]
         IN /\ scanned \in DOMAIN same_feature_map /\ b \in Seq(Column)
            /\ Bucket(scanned) = b
            /\ TableColumnNum \in Nat /\ Len(b) \in Nat /\ Len(b) <= TableColumnNum
            /\ begin_index \in 1 .. Len(b) /\ len \in Nat \ {0} /\ q <= Len(b) + 1
            /\ \A j \in 1 .. Len(b) : b[j] \in Int /\ b[j] \in Column
                                      /\ KeyOf(b[j]) = scanned /\ b[j] < next_column
            /\ first \in Column /\ last \in Column /\ first \in Int /\ last = first + (len - 1)
            /\ last < next_column
            /\ \A c \in first .. last : \E j \in begin_index .. q - 1 : b[j] = c
            /\ \A j \in begin_index .. q - 1 : b[j] \in first .. last
            /\ \A j \in q .. Len(b) : last < b[j]
            /\ \A c \in first .. last : KeyOf(c) = scanned /\ location[c] = location[first]
<1> DEFINE b == same_feature_map[scanned]
           q == begin_index + len
           first == b[begin_index]
           last  == b[q - 1]
<1>1. /\ scanned \in DOMAIN same_feature_map /\ b \in Seq(Column)
      /\ Bucket(scanned) = b
  BY DEF IInv, TableTypeOK, Bucket
<1>2. /\ Len(b) <= next_column
      /\ \A j \in 1 .. Len(b) : b[j] < next_column /\ KeyOf(b[j]) = scanned
      /\ \A i, j \in 1 .. Len(b) : i < j => b[i] < b[j]
  BY <1>1 DEF IInv, BucketOK
<1>3. /\ TableColumnNum \in Nat /\ next_column \in 0 .. TableColumnNum
      /\ Len(b) \in Nat /\ begin_index \in 1 .. TableColumnNum + 1
      /\ len \in 1 .. TableColumnNum + 1
      /\ \A j \in 1 .. Len(b) : b[j] \in Int /\ b[j] \in Column
  BY <1>1, TableAssumption, SeqColumn DEF IInv, TableTypeOK
<1>4. begin_index + len <= Len(b) + 1
  BY DEF IInv, RunOK
<1>5. \A i \in 0 .. len - 1 :
        /\ b[begin_index + i] = b[begin_index] + i
        /\ location[b[begin_index + i]] = location[b[begin_index]]
  BY DEF IInv, RunOK
<1>6. begin_index <= Len(b)
  OBVIOUS
<1>7. /\ Len(b) <= TableColumnNum
      /\ begin_index \in 1 .. Len(b) /\ len \in Nat \ {0} /\ q <= Len(b) + 1
      /\ q - 1 \in 1 .. Len(b)
  BY <1>2, <1>3, <1>4, <1>6
<1>8. /\ first \in Column /\ last \in Column /\ first \in Int /\ last \in Int
      /\ last < next_column
  BY <1>2, <1>3, <1>7
<1>9. last = first + (len - 1)
  <2>1. len - 1 \in 0 .. len - 1 /\ begin_index + (len - 1) = q - 1
    BY <1>7
  <2> QED
    BY <2>1, <1>5
<1>q. q = begin_index + len /\ first = b[begin_index] /\ last = b[q - 1]
  OBVIOUS
<1> HIDE DEF b, q, first, last
<1>10. ASSUME NEW c \in first .. last
       PROVE  /\ \E j \in begin_index .. q - 1 : b[j] = c
              /\ KeyOf(c) = scanned /\ location[c] = location[first]
  <2>1. c - first \in 0 .. len - 1 /\ begin_index + (c - first) \in begin_index .. q - 1
        /\ begin_index + (c - first) \in 1 .. Len(b)
    <3>1. q = begin_index + len
      BY <1>q
    <3>2. begin_index \in Int /\ len \in Int /\ q <= Len(b) + 1 /\ 1 <= begin_index
      BY <1>7
    <3>3. c \in Int /\ first <= c /\ c <= first + (len - 1) /\ first \in Int
      BY <1>8, <1>9
    <3> QED
      BY <3>1, <3>2, <3>3, <1>3
  <2>2. /\ b[begin_index + (c - first)] = first + (c - first)
        /\ location[b[begin_index + (c - first)]] = location[first]
    BY ONLY <2>1, <1>5, <1>q
  <2>3. first + (c - first) = c
    BY <1>8, <1>9
  <2> QED
    BY <2>1, <2>2, <2>3, <1>2
<1>11. ASSUME NEW j \in begin_index .. q - 1 PROVE b[j] \in first .. last
  <2>1. j - begin_index \in 0 .. len - 1 /\ begin_index + (j - begin_index) = j
    BY <1>7, <1>q
  <2>2. b[j] = first + (j - begin_index)
    BY <2>1, <1>5, <1>q
  <2> QED
    BY <2>1, <2>2, <1>8, <1>9, <1>7
<1>12. ASSUME NEW j \in q .. Len(b) PROVE last < b[j]
  <2>1. q - 1 < j /\ j \in 1 .. Len(b)
    BY <1>7, <1>q
  <2> QED
    BY <2>1, <1>2, <1>7, <1>q
<1> QED
  BY <1>1, <1>2, <1>3, <1>7, <1>8, <1>9, <1>10, <1>11, <1>12 DEF b, q, first, last

(* A finished run leaves the scan: a lone column is kept, a longer run     *)
(* becomes a range.                                                        *)
LEMMA TakeInv == IInv /\ TakeRun => IInv'
<1> SUFFICES ASSUME IInv, TakeRun PROVE IInv'
  OBVIOUS
<1> DEFINE b == same_feature_map[scanned]
           q == begin_index + len
           first == b[begin_index]
           last  == b[q - 1]
<1>1. /\ feature' = feature /\ location' = location
      /\ same_feature_map' = same_feature_map
      /\ same_feature_range_map' = same_feature_range_map
      /\ next_column' = next_column /\ table_pc' = table_pc
      /\ todo' = todo /\ scanned' = scanned /\ scanned # NoKey
      /\ begin_index' = q /\ len' = 1
  BY DEF TakeRun, table_inputs, table
<1>2. Bucket(scanned) = b
  BY <1>1 DEF IInv, TableTypeOK, Bucket
<1>3. begin_index <= Len(b)
  BY <1>2 DEF TakeRun
<1>4. /\ scanned \in DOMAIN same_feature_map /\ b \in Seq(Column)
      /\ TableColumnNum \in Nat /\ Len(b) \in Nat /\ Len(b) <= TableColumnNum
      /\ begin_index \in 1 .. Len(b) /\ len \in Nat \ {0} /\ q <= Len(b) + 1
      /\ \A j \in 1 .. Len(b) : b[j] \in Int /\ b[j] \in Column
                                /\ KeyOf(b[j]) = scanned /\ b[j] < next_column
      /\ first \in Column /\ last \in Column /\ first \in Int /\ last = first + (len - 1)
      /\ last < next_column
      /\ \A c \in first .. last : \E j \in begin_index .. q - 1 : b[j] = c
      /\ \A j \in begin_index .. q - 1 : b[j] \in first .. last
      /\ \A j \in q .. Len(b) : last < b[j]
      /\ \A c \in first .. last : KeyOf(c) = scanned /\ location[c] = location[first]
  BY <1>1, <1>3, RunFacts
<1>5. /\ len = 1 => /\ new_index_vec' = Append(new_index_vec, first)
                    /\ same_write_range' = same_write_range
      /\ len # 1 => /\ new_index_vec' = new_index_vec
                    /\ same_write_range' = Append(same_write_range, <<first, last + 1>>)
  <2> HIDE DEF b
  <2>1. CASE len = 1
    BY <1>2, <2>1 DEF TakeRun
  <2>2. CASE len # 1
    <3>1. RangeOf(first, last) = <<first, last + 1>>
      BY DEF RangeOf
    <3>2. /\ new_index_vec' = new_index_vec
          /\ same_write_range' = Append(same_write_range, RangeOf(first, last))
      <4>1. q - 1 = begin_index + len - 1
        BY <1>4
      <4> HIDE DEF q
      <4> QED
        BY <1>2, <2>2, <4>1 DEF TakeRun
    <3> QED
      BY <2>2, <3>1, <3>2
  <2> QED
    BY <2>1, <2>2
<1>q. q = begin_index + len /\ q \in 1 .. Len(b) + 1 /\ begin_index < q /\ q \in Int
  BY <1>4
<1> DEFINE new == new_index_vec
           swr == same_write_range
<1>6. /\ new \in Seq(Column) /\ Len(new) \in Nat /\ Len(new) < begin_index
      /\ \A m \in 1 .. Len(new) :
           /\ new[m] \in Int /\ new[m] < next_column /\ KeyOf(new[m]) = scanned
           /\ \A n \in 1 .. Len(new) : m < n => new[m] < new[n]
           /\ \A j \in begin_index .. Len(b) : new[m] < b[j]
  BY <1>1, SeqColumn DEF IInv, TableTypeOK, DealtOK
<1>7. /\ swr \in Seq(ColumnRange) /\ Len(swr) \in Nat
      /\ \A i \in 1 .. Len(swr) :
           /\ swr[i] \in ColumnRange /\ swr[i][1] \in Int /\ swr[i][2] \in Int
           /\ \A j \in begin_index .. Len(b) : swr[i][2] <= b[j]
  <2>1. swr \in Seq(ColumnRange)
    BY DEF IInv, TableTypeOK
  <2>2. \A i \in 1 .. Len(swr) : swr[i] \in ColumnRange
    BY <2>1
  <2>3. \A i \in 1 .. Len(swr) : swr[i][1] \in Int /\ swr[i][2] \in Int
    BY <2>2, ColumnInt DEF ColumnRange
  <2> QED
    BY <2>1, <2>2, <2>3, <1>1 DEF IInv, DealtOK
<1> HIDE DEF q, first, last
<1>8. TableTypeOK'
  <2>1. q \in 1 .. TableColumnNum + 1 /\ 1 \in 1 .. TableColumnNum + 1
    BY <1>4, <1>q
  <2>2. new_index_vec' \in Seq(Column)
    <3>1. Append(new_index_vec, first) \in Seq(Column)
      BY <1>4, <1>6
    <3> QED
      BY <3>1, <1>5, <1>6
  <2>3. last + 1 \in 1 .. TableColumnNum
    BY <1>4, ColumnInt
  <2>4. same_write_range' \in Seq(ColumnRange)
    <3>1. <<first, last + 1>> \in ColumnRange
      BY <1>4, <2>3 DEF ColumnRange
    <3>2. Append(same_write_range, <<first, last + 1>>) \in Seq(ColumnRange)
      BY <3>1, <1>7
    <3> QED
      BY <3>2, <1>5, <1>7
  <2> QED
    BY <2>1, <2>2, <2>4, <1>1 DEF IInv, TableTypeOK
<1>9. BucketOK' /\ PhaseOK' /\ IdleOK'
  BY <1>1 DEF IInv, BucketOK, PhaseOK, IdleOK, KeyOf
<1>10. RunOK'
  <2>1. q <= Len(b) + 1 /\ (q <= Len(b) => q + 1 <= Len(b) + 1)
    BY <1>q, <1>4
  <2>2. ASSUME NEW i \in 0 .. 1 - 1, q <= Len(b)
        PROVE  b[q + i] = b[q] + i /\ location[b[q + i]] = location[b[q]]
    <3>1. i = 0 /\ q + i = q /\ b[q] \in Int
      BY <2>2, <1>q, <1>4
    <3> QED
      BY <3>1
  <2> HIDE DEF b
  <2> QED
    BY <2>1, <2>2, <1>1 DEF RunOK, b
<1>11. DealtOK'
  <2>0. \A j \in q .. Len(b) : j \in begin_index .. Len(b)
    BY <1>q, <1>4
  <2>1. CASE len = 1
    <3> DEFINE a == Append(new, first)
    <3>1. /\ new_index_vec' = a /\ same_write_range' = swr
          /\ Len(a) = Len(new) + 1 /\ a[Len(new) + 1] = first
          /\ \A m \in 1 .. Len(new) : a[m] = new[m]
      BY <2>1, <1>4, <1>5, <1>6
    <3> HIDE DEF a, b, new, swr
    <3>2. Len(a) < q
      BY <3>1, <2>1, <1>q, <1>4, <1>6
    <3>3. last = first /\ KeyOf(first) = scanned /\ first < next_column
      BY <2>1, <1>4
    <3>4. begin_index \in begin_index .. Len(b)
      BY <1>4
    <3>5. ASSUME NEW m \in 1 .. Len(a)
          PROVE  /\ a[m] < next_column
                 /\ KeyOf(a[m]) = scanned
                 /\ \A n \in 1 .. Len(a) : m < n => a[m] < a[n]
                 /\ \A j \in q .. Len(b) : a[m] < b[j]
      <4>1. CASE m = Len(new) + 1
        BY <4>1, <3>1, <3>3, <1>4, <1>6
      <4>2. CASE m # Len(new) + 1
        <5>1. m \in 1 .. Len(new) /\ a[m] = new[m]
          BY <4>2, <3>1, <1>6
        <5>2. new[m] < first
          BY <5>1, <3>4, <1>6 DEF first, b
        <5>3. \A n \in 1 .. Len(a) : m < n => a[m] < a[n]
          BY <5>1, <5>2, <3>1, <1>6
        <5> QED
          BY <5>1, <5>3, <2>0, <1>6
      <4> QED
        BY <4>1, <4>2
    <3>6. \A i \in 1 .. Len(swr) : \A j \in q .. Len(b) : swr[i][2] <= b[j]
      BY <2>0, <1>7
    <3> QED
      BY <3>1, <3>2, <3>5, <3>6, <1>1 DEF DealtOK, KeyOf, b
  <2>2. CASE len # 1
    <3> DEFINE a == Append(swr, <<first, last + 1>>)
    <3>1. /\ new_index_vec' = new /\ same_write_range' = a
          /\ Len(a) = Len(swr) + 1 /\ a[Len(swr) + 1] = <<first, last + 1>>
          /\ \A i \in 1 .. Len(swr) : a[i] = swr[i]
      BY <2>2, <1>5, <1>7
    <3> HIDE DEF a, b, new, swr
    <3>2. Len(new) < q
      BY <1>q, <1>4, <1>6
    <3>3. ASSUME NEW i \in 1 .. Len(a), NEW j \in q .. Len(b)
          PROVE  a[i][2] <= b[j]
      <4>1. CASE i = Len(swr) + 1
        <5>1. a[i][2] = last + 1
          BY <4>1, <3>1
        <5>2. last < b[j] /\ b[j] \in Int /\ last \in Int
          BY <1>4, <1>q
        <5> QED
          BY <5>1, <5>2
      <4>2. CASE i # Len(swr) + 1
        BY <4>2, <3>1, <2>0, <1>7
      <4> QED
        BY <4>1, <4>2
    <3> QED
      BY <3>1, <3>2, <3>3, <2>0, <1>1, <1>6 DEF DealtOK, KeyOf, b
  <2> QED
    BY <2>1, <2>2
<1>12. \A k : Ranges(k)' = IF k = scanned THEN same_write_range' ELSE Ranges(k)
  BY <1>1 DEF Ranges
<1>13. RangesOK'
  <2>1. CASE len = 1
    <3>1. \A k : Ranges(k)' = Ranges(k)
      BY <2>1, <1>5, <1>12 DEF Ranges
    <3> QED
      BY <3>1, <1>1 DEF IInv, RangesOK, KeyOf
  <2>2. CASE len # 1
    <3> DEFINE a == Append(swr, <<first, last + 1>>)
    <3>1. /\ same_write_range' = a
          /\ Len(a) = Len(swr) + 1 /\ a[Len(swr) + 1] = <<first, last + 1>>
          /\ \A i \in 1 .. Len(swr) : a[i] = swr[i]
      BY <2>2, <1>5, <1>7
    <3>2. Ranges(scanned) = swr
      BY DEF Ranges
    <3> HIDE DEF a, b, new, swr
    <3>3. next_column \in Int /\ last \in Int
      BY <1>4 DEF IInv, TableTypeOK
    <3> SUFFICES ASSUME NEW k \in DOMAIN same_feature_map
                 PROVE  LET rs == IF k = scanned THEN a ELSE Ranges(k) IN
                        \A i \in 1 .. Len(rs) :
                          LET r == rs[i] IN
                          /\ r[1] + 1 < r[2] /\ r[2] <= next_column
                          /\ \A c \in r[1] .. r[2] - 1 :
                               KeyOf(c) = k /\ location[c] = location[r[1]]
                          /\ \A j \in 1 .. Len(rs) : i < j => r[2] <= rs[j][1]
      BY <1>1, <1>12, <3>1 DEF RangesOK, KeyOf
    <3>4. CASE k # scanned
      BY <3>4 DEF IInv, RangesOK
    <3>5. CASE k = scanned
      <4> SUFFICES ASSUME NEW i \in 1 .. Len(a)
                   PROVE  /\ a[i][1] + 1 < a[i][2] /\ a[i][2] <= next_column
                          /\ \A c \in a[i][1] .. a[i][2] - 1 :
                               KeyOf(c) = scanned /\ location[c] = location[a[i][1]]
                          /\ \A j \in 1 .. Len(a) : i < j => a[i][2] <= a[j][1]
        BY <3>5
      <4>1. CASE i = Len(swr) + 1
        <5>1. a[i][1] = first /\ a[i][2] = last + 1
          BY <4>1, <3>1
        <5>2. first + 1 < last + 1 /\ last + 1 <= next_column /\ (last + 1) - 1 = last
          BY <2>2, <3>3, <1>4
        <5>3. ~ \E j \in 1 .. Len(a) : i < j
          BY <4>1, <3>1, <1>7
        <5> QED
          BY <5>1, <5>2, <5>3, <1>4
      <4>2. CASE i # Len(swr) + 1
        <5>1. i \in 1 .. Len(swr) /\ a[i] = swr[i]
          BY <4>2, <3>1, <1>7
        <5>2. /\ swr[i][1] + 1 < swr[i][2] /\ swr[i][2] <= next_column
              /\ \A c \in swr[i][1] .. swr[i][2] - 1 :
                   KeyOf(c) = scanned /\ location[c] = location[swr[i][1]]
              /\ \A j \in 1 .. Len(swr) : i < j => swr[i][2] <= swr[j][1]
          BY <5>1, <3>2, <1>4 DEF IInv, RangesOK
        <5>3. swr[i][2] <= first
          <6>1. begin_index \in begin_index .. Len(b)
            BY <1>4
          <6> QED
            BY <6>1, <5>1, <1>7 DEF first, b
        <5>4. ASSUME NEW j \in 1 .. Len(a), i < j PROVE swr[i][2] <= a[j][1]
          <6>1. CASE j = Len(swr) + 1
            BY <6>1, <3>1, <5>3
          <6>2. CASE j # Len(swr) + 1
            <7>1. j \in 1 .. Len(swr) /\ a[j] = swr[j]
              BY <6>2, <3>1, <1>7
            <7> QED
              BY <7>1, <5>4, <5>2
          <6> QED
            BY <6>1, <6>2
        <5> QED
          BY <5>1, <5>2, <5>4
      <4> QED
        BY <4>1, <4>2
    <3> QED
      BY <3>4, <3>5
  <2> QED
    BY <2>1, <2>2
<1>14. PlacedOK'
  <2> SUFFICES ASSUME NEW c \in 0 .. next_column - 1
               PROVE  /\ KeyOf(c) \in DOMAIN same_feature_map
                      /\ Holds(c, KeyOf(c))' <=> ~ InRange(c, KeyOf(c))'
    BY <1>1 DEF PlacedOK, KeyOf
  <2> DEFINE k == KeyOf(c)
  <2>0. /\ k \in DOMAIN same_feature_map /\ (Holds(c, k) <=> ~ InRange(c, k))
        /\ KeyOf(c)' = k /\ c \in Int
    BY <1>1 DEF IInv, PlacedOK, KeyOf
  <2>1. CASE k # scanned
    <3>1. Holds(c, k)' <=> Holds(c, k)
      BY <2>0, <2>1, <1>1 DEF Holds
    <3>2. InRange(c, k)' <=> InRange(c, k)
      BY <2>0, <2>1, <1>12 DEF InRange
    <3> QED
      BY <2>0, <3>1, <3>2
  <2>2. CASE k = scanned
    <3> DEFINE rest == \E j \in q .. Len(b) : b[j] = c
               run  == \E j \in begin_index .. q - 1 : b[j] = c
               kept == \E m \in 1 .. Len(new) : new[m] = c
    <3>1. Holds(c, k) <=> kept \/ run \/ rest
      <4>1. begin_index .. Len(b) = (begin_index .. q - 1) \cup (q .. Len(b))
        BY <1>4, <1>q
      <4> QED
        BY <4>1, <2>2 DEF Holds
    <3>2. Holds(c, k)' <=> (\E m \in 1 .. Len(new_index_vec') : new_index_vec'[m] = c) \/ rest
      BY <2>0, <2>2, <1>1 DEF Holds
    <3>3. run <=> c \in first .. last
      BY <1>4
    <3>4. run => ~ kept /\ ~ rest
      <4> SUFFICES ASSUME run PROVE ~ kept /\ ~ rest
        OBVIOUS
      <4>1. PICK i \in begin_index .. q - 1 : b[i] = c
        OBVIOUS
      <4>2. i \in begin_index .. Len(b) /\ c \in first .. last
        BY <4>1, <1>4, <1>q
      <4>3. ~ kept
        BY <4>1, <4>2, <1>6
      <4>4. ~ rest
        BY <4>2, <1>4
      <4> QED
        BY <4>3, <4>4
    <3>5. CASE len = 1
      <4>1. first = last /\ first = b[begin_index] /\ q - 1 = begin_index
        BY <3>5, <1>4, <1>q DEF first
      <4>2. run <=> c = first
        BY <3>3, <4>1, <1>4, <2>0
      <4>3. (\E m \in 1 .. Len(new_index_vec') : new_index_vec'[m] = c) <=> kept \/ c = first
        <5>1. /\ new_index_vec' = Append(new, first)
              /\ Len(Append(new, first)) = Len(new) + 1
              /\ Append(new, first)[Len(new) + 1] = first
              /\ \A m \in 1 .. Len(new) : Append(new, first)[m] = new[m]
          BY <3>5, <1>4, <1>5, <1>6
        <5> QED
          BY <5>1, <1>6
      <4>4. InRange(c, k)' <=> InRange(c, k)
        BY <2>0, <3>5, <1>5, <1>12, <2>2 DEF InRange, Ranges
      <4> QED
        BY <2>0, <3>1, <3>2, <4>2, <4>3, <4>4
    <3>6. CASE len # 1
      <4>1. Holds(c, k)' <=> kept \/ rest
        BY <3>2, <3>6, <1>5
      <4>2. InRange(c, k)' <=> InRange(c, k) \/ c \in first .. last
        <5> DEFINE a == Append(swr, <<first, last + 1>>)
        <5>1. /\ same_write_range' = a
              /\ Len(a) = Len(swr) + 1 /\ a[Len(swr) + 1] = <<first, last + 1>>
              /\ \A i \in 1 .. Len(swr) : a[i] = swr[i]
          BY <3>6, <1>5, <1>7
        <5>2. a \in Seq(ColumnRange)
          <6>1. same_write_range' \in Seq(ColumnRange)
            BY <1>8 DEF TableTypeOK
          <6> QED
            BY <6>1, <5>1
        <5>3. InRange(c, k) <=> \E i \in 1 .. Len(swr) : Covers(swr[i], c)
          BY <2>2, <1>7 DEF InRange, Ranges
        <5>4. InRange(c, k)' <=> \E i \in 1 .. Len(a) : Covers(a[i], c)
          <6>1. k' = scanned
            BY <2>0, <2>2
          <6>2. Ranges(k)' = a
            BY <6>1, <1>12, <5>1
          <6> HIDE DEF a
          <6>3. DOMAIN a = 1 .. Len(a)
            BY <5>2
          <6>4. InRange(c, k)' <=> \E j \in DOMAIN Ranges(k)' : Covers(Ranges(k)'[j], c)
            BY DEF InRange, Covers
          <6> QED
            BY <6>2, <6>3, <6>4
        <5>5. Covers(<<first, last + 1>>, c) <=> c \in first .. last
          BY <2>0, <1>4 DEF Covers
        <5> HIDE DEF a, swr
        <5>6. \A i \in 1 .. Len(swr) : Covers(a[i], c) <=> Covers(swr[i], c)
          BY <5>1
        <5>7. Covers(a[Len(swr) + 1], c) <=> c \in first .. last
          BY <5>1, <5>5
        <5>8. 1 .. Len(a) = (1 .. Len(swr)) \cup {Len(swr) + 1}
          BY <5>1, <1>7
        <5> QED
          BY <5>3, <5>4, <5>6, <5>7, <5>8
      <4> QED
        BY <2>0, <3>1, <3>3, <3>4, <4>1, <4>2
    <3> QED
      BY <3>5, <3>6
  <2> QED
    BY <2>1, <2>2
<1> QED
  BY <1>8, <1>9, <1>10, <1>11, <1>13, <1>14 DEF IInv

(* EndBucket hands what the scan has dealt out over to the two maps.       *)
LEMMA EndBucketInv == IInv /\ EndBucket => IInv'
<1> SUFFICES ASSUME IInv, EndBucket PROVE IInv'
  OBVIOUS
<1> DEFINE b == same_feature_map[scanned]
           new == new_index_vec
           swr == same_write_range
<1>1. /\ scanned # NoKey /\ scanned \in todo /\ scanned \in DOMAIN same_feature_map
      /\ scanned \notin DOMAIN same_feature_range_map
      /\ table_pc = "write" /\ NoKey \notin DOMAIN same_feature_map
      /\ Bucket(scanned) = b
  <2>1. scanned # NoKey /\ scanned \in todo /\ scanned \in DOMAIN same_feature_map
    BY DEF IInv, TableTypeOK, EndBucket
  <2> QED
    BY <2>1 DEF IInv, PhaseOK, TableTypeOK, Bucket
<1>2. /\ feature' = feature /\ location' = location
      /\ table_pc' = table_pc /\ next_column' = next_column
      /\ todo' = todo \ {scanned} /\ scanned' = NoKey
      /\ begin_index' = 1 /\ len' = 1 /\ new_index_vec' = <<>> /\ same_write_range' = <<>>
  BY DEF EndBucket, table_inputs, Retire
<1>3. /\ DOMAIN same_feature_map' = DOMAIN same_feature_map
      /\ same_feature_map'[scanned] = new
      /\ \A k \in DOMAIN same_feature_map :
           k # scanned => same_feature_map'[k] = same_feature_map[k]
  BY <1>1 DEF EndBucket, Put, Compacted
<1>4. \/ swr = <<>> /\ same_feature_range_map' = same_feature_range_map
      \/ /\ swr # <<>>
         /\ DOMAIN same_feature_range_map' = DOMAIN same_feature_range_map \cup {scanned}
         /\ same_feature_range_map'[scanned] = swr
         /\ \A k \in DOMAIN same_feature_range_map :
              k # scanned => same_feature_range_map'[k] = same_feature_range_map[k]
  BY DEF EndBucket, Put
<1>5. begin_index = Len(b) + 1 /\ Len(b) \in Nat /\ Len(b) <= next_column /\ next_column \in Nat
  <2>1. begin_index > Len(b) /\ begin_index <= Len(b) + 1 /\ Len(b) <= next_column
    BY <1>1 DEF EndBucket, IInv, RunOK, BucketOK
  <2>2. b \in Seq(Column) /\ begin_index \in Int /\ next_column \in Nat
    BY <1>1, TableAssumption DEF IInv, TableTypeOK
  <2> HIDE DEF b
  <2>3. Len(b) \in Nat
    BY <2>2
  <2> QED
    BY <2>1, <2>2, <2>3
<1>6. /\ new \in Seq(Column) /\ Len(new) \in Nat /\ Len(new) < begin_index
      /\ \A m \in 1 .. Len(new) :
           /\ new[m] < next_column /\ KeyOf(new[m]) = scanned
           /\ \A n \in 1 .. Len(new) : m < n => new[m] < new[n]
  BY <1>1 DEF IInv, TableTypeOK, DealtOK
<1>7. swr \in Seq(ColumnRange)
  BY DEF IInv, TableTypeOK
<1>8. \A k \in DOMAIN same_feature_map : Ranges(k)' = Ranges(k)
  <2> SUFFICES ASSUME NEW k \in DOMAIN same_feature_map PROVE Ranges(k)' = Ranges(k)
    OBVIOUS
  <2>1. k # NoKey
    BY <1>1
  <2>2. CASE k = scanned
    BY <2>1, <2>2, <1>1, <1>2, <1>4 DEF Ranges
  <2>3. CASE k # scanned
    BY <2>1, <2>3, <1>1, <1>2, <1>4 DEF Ranges
  <2> QED
    BY <2>2, <2>3
<1>9. TableTypeOK'
  <2>1. \A k \in DOMAIN same_feature_map' : same_feature_map'[k] \in Seq(Column)
    BY <1>3, <1>6 DEF IInv, TableTypeOK
  <2>2. \A k \in DOMAIN same_feature_range_map' :
          same_feature_range_map'[k] \in Seq(ColumnRange) \ {<<>>}
    BY <1>1, <1>4, <1>7 DEF IInv, TableTypeOK
  <2>3. 1 \in 1 .. TableColumnNum + 1
    BY TableAssumption
  <2> QED
    BY <2>1, <2>2, <2>3, <1>2, <1>3 DEF IInv, TableTypeOK
<1>10. BucketOK'
  <2> SUFFICES ASSUME NEW k \in DOMAIN same_feature_map
               PROVE  LET d == same_feature_map'[k] IN
                      /\ Len(d) <= next_column
                      /\ \A j \in 1 .. Len(d) : d[j] < next_column /\ KeyOf(d[j]) = k
                      /\ \A i, j \in 1 .. Len(d) : i < j => d[i] < d[j]
    BY <1>2, <1>3 DEF BucketOK, KeyOf
  <2>1. CASE k = scanned
    <3>1. Len(new) <= next_column
      BY <1>5, <1>6
    <3> QED
      BY <2>1, <3>1, <1>3, <1>6
  <2>2. CASE k # scanned
    BY <2>2, <1>3 DEF IInv, BucketOK
  <2> QED
    BY <2>1, <2>2
<1>11. PhaseOK'
  BY <1>1, <1>2, <1>3, <1>4 DEF IInv, PhaseOK, TableTypeOK
<1>12. IdleOK' /\ RunOK' /\ DealtOK'
  BY <1>2 DEF IdleOK, RunOK, DealtOK
<1>13. RangesOK'
  BY <1>2, <1>3, <1>8 DEF IInv, RangesOK, KeyOf
<1>14. PlacedOK'
  <2> SUFFICES ASSUME NEW c \in 0 .. next_column - 1
               PROVE  /\ KeyOf(c) \in DOMAIN same_feature_map
                      /\ Holds(c, KeyOf(c))' <=> ~ InRange(c, KeyOf(c))'
    BY <1>2, <1>3 DEF PlacedOK, KeyOf
  <2>1. /\ KeyOf(c) \in DOMAIN same_feature_map /\ KeyOf(c) # NoKey
        /\ Holds(c, KeyOf(c)) <=> ~ InRange(c, KeyOf(c))
        /\ KeyOf(c)' = KeyOf(c)
    BY <1>1, <1>2 DEF IInv, PlacedOK, KeyOf
  <2>2. InRange(c, KeyOf(c))' <=> InRange(c, KeyOf(c))
    <3>1. Ranges(KeyOf(c))' = Ranges(KeyOf(c))
      BY <2>1, <1>8
    <3> QED
      BY <3>1 DEF InRange, Covers
  <2>3. Holds(c, KeyOf(c))' <=>
          \E j \in 1 .. Len(same_feature_map'[KeyOf(c)]) : same_feature_map'[KeyOf(c)][j] = c
    BY <2>1, <1>2 DEF Holds
  <2>4. Holds(c, KeyOf(c))' <=> Holds(c, KeyOf(c))
    <3>1. CASE KeyOf(c) = scanned
      <4>1. begin_index .. Len(b) = {}
        BY <1>5
      <4> QED
        BY <3>1, <4>1, <2>3, <1>3 DEF Holds
    <3>2. CASE KeyOf(c) # scanned
      BY <3>2, <2>1, <2>3, <1>3 DEF Holds
    <3> QED
      BY <3>1, <3>2
  <2> QED
    BY <2>1, <2>2, <2>4
<1> QED
  BY <1>9, <1>10, <1>11, <1>12, <1>13, <1>14 DEF IInv

(* A step that leaves the table alone.                                     *)
LEMMA StutterInv == IInv /\ UNCHANGED table_vars => IInv'
<1> SUFFICES ASSUME IInv, UNCHANGED table_vars PROVE IInv'
  OBVIOUS
<1> USE DEF table_vars, table_inputs, table, scan
<1>1. \A k : Ranges(k)' = Ranges(k)
  BY DEF Ranges
<1>2. TableTypeOK' /\ BucketOK'
  BY DEF IInv, TableTypeOK, BucketOK, KeyOf
<1>3. PhaseOK' /\ IdleOK' /\ RunOK'
  BY DEF IInv, PhaseOK, IdleOK, RunOK
<1>4. DealtOK'
  BY DEF IInv, DealtOK, KeyOf
<1>5. RangesOK'
  BY <1>1 DEF IInv, RangesOK, KeyOf
<1>6. PlacedOK'
  <2>1. \A c, k : (Holds(c, k)' <=> Holds(c, k)) /\ (InRange(c, k)' <=> InRange(c, k))
    BY <1>1 DEF Holds, InRange
  <2> QED
    BY <2>1 DEF IInv, PlacedOK, KeyOf
<1> QED
  BY <1>2, <1>3, <1>4, <1>5, <1>6 DEF IInv

-----------------------------------------------------------------------------

(* No iteration of the two loops leaves IInv.                              *)
LEMMA TableSteps == IInv /\ [TableNext]_table_vars => IInv'
BY CombinInv, WalkInv, BeginBucketInv, ExtendInv, TakeInv, EndBucketInv, StutterInv DEF TableNext

(* IInv is an invariant of every behaviour of the two loops.               *)
THEOREM Invariance == TableSpec => []IInv
BY InitInv, TableSteps, PTL DEF TableSpec

(* The maps, the ranges and the indices of the two loops keep their types: *)
(* no column and no end of a range lies outside the table.                 *)
THEOREM TypeCorrect == TableSpec => []TableTypeOK
<1>1. IInv => TableTypeOK
  BY DEF IInv
<1> QED
  BY <1>1, Invariance, PTL
-----------------------------------------------------------------------------

(* A sequence followed by what is left of another from position q on.      *)
LEMMA FollowedByRest ==
  ASSUME NEW a \in Seq(Column), NEW b \in Seq(Column),
         NEW q \in 1 .. Len(b) + 1, NEW h, h = a \o SubSeq(b, q, Len(b))
  PROVE  /\ h \in Seq(Column)
         /\ Len(h) = Len(a) + (Len(b) + 1 - q)
         /\ \A m \in 1 .. Len(a) : h[m] = a[m]
         /\ \A m \in Len(a) + 1 .. Len(h) : h[m] = b[q + m - Len(a) - 1]
<1> DEFINE r == SubSeq(b, q, Len(b))
<1>1. Len(a) \in Nat /\ Len(b) \in Nat /\ q \in Int /\ 1 <= q /\ q <= Len(b) + 1
  OBVIOUS
<1>2. \A i \in q .. Len(b) : b[i] \in Column
  BY <1>1
<1>3. /\ r \in Seq(Column)
      /\ Len(r) = Len(b) + 1 - q
      /\ \A i \in 1 .. Len(b) + 1 - q : r[i] = b[q + i - 1]
  BY <1>1, <1>2, SubSeqProperties
<1> HIDE DEF r
<1>4. /\ h \in Seq(Column)
      /\ Len(h) = Len(a) + Len(r)
      /\ \A i \in 1 .. Len(a) + Len(r) : h[i] = IF i <= Len(a) THEN a[i] ELSE r[i - Len(a)]
  <2>1. h = a \o r
    BY DEF r
  <2>2. /\ a \o r \in Seq(Column)
        /\ Len(a \o r) = Len(a) + Len(r)
        /\ \A i \in 1 .. Len(a) + Len(r) :
             (a \o r)[i] = IF i <= Len(a) THEN a[i] ELSE r[i - Len(a)]
    BY <1>3, ConcatProperties, Zenon
  <2> QED
    BY <2>1, <2>2
<1>5. ASSUME NEW m \in Len(a) + 1 .. Len(h)
      PROVE  h[m] = b[q + m - Len(a) - 1]
  <2>1. m - Len(a) \in 1 .. Len(b) + 1 - q /\ ~ (m <= Len(a)) /\ m \in 1 .. Len(a) + Len(r)
    BY <1>1, <1>3, <1>4
  <2>2. h[m] = r[m - Len(a)]
    BY <2>1, <1>4
  <2>3. r[m - Len(a)] = b[q + (m - Len(a)) - 1]
    BY <2>1, <1>3
  <2>4. q + (m - Len(a)) - 1 = q + m - Len(a) - 1
    BY <1>1
  <2> QED
    BY <2>2, <2>3, <2>4
<1>6. \A m \in 1 .. Len(a) : h[m] = a[m]
  BY <1>1, <1>3, <1>4
<1> QED
  BY <1>3, <1>4, <1>5, <1>6

(* What a bucket holds is of its key and in ascending order, also while it *)
(* is scanned.                                                             *)
LEMMA HeldFacts ==
  ASSUME IInv, NEW k \in DOMAIN same_feature_map
  PROVE  /\ Held(k) \in Seq(Column)
         /\ Ascending(Held(k))
         /\ \A m \in 1 .. Len(Held(k)) : KeyOf(Held(k)[m]) = k
         /\ \A c : InBucket(c, k) <=> Holds(c, k)
<1> DEFINE b == same_feature_map[k]
           h == Held(k)
<1>1. /\ b \in Seq(Column) /\ Len(b) \in Nat
      /\ Bucket(k) = b
      /\ \A j \in 1 .. Len(b) : KeyOf(b[j]) = k /\ b[j] \in Int
      /\ Ascending(b)
  <2>1. b \in Seq(Column) /\ Bucket(k) = b
    BY DEF IInv, TableTypeOK, Bucket
  <2>2. (\A j \in 1 .. Len(b) : KeyOf(b[j]) = k) /\ Ascending(b)
    BY DEF IInv, BucketOK, Ascending
  <2> QED
    BY <2>1, <2>2, SeqColumn
<1>2. CASE k # scanned
  <2>1. h = b
    BY <1>1, <1>2 DEF Held
  <2>2. DOMAIN h = 1 .. Len(h)
    BY <1>1, <2>1
  <2> QED
    BY <1>1, <1>2, <2>1, <2>2 DEF InBucket, Holds
<1>3. CASE k = scanned
  <2> DEFINE new == new_index_vec
             q   == begin_index
  <2>1. scanned # NoKey
    BY <1>3 DEF IInv, PhaseOK
  <2>2. /\ new \in Seq(Column) /\ Len(new) \in Nat
        /\ q \in 1 .. Len(b) + 1
        /\ \A m \in 1 .. Len(new) :
             /\ new[m] \in Int /\ KeyOf(new[m]) = k
             /\ \A n \in 1 .. Len(new) : m < n => new[m] < new[n]
             /\ \A j \in q .. Len(b) : new[m] < b[j]
    <3>1. new \in Seq(Column) /\ q \in Int /\ 1 <= q
      BY DEF IInv, TableTypeOK
    <3>2. q <= Len(b) + 1
      BY <1>3, <2>1 DEF IInv, RunOK
    <3>3. q \in 1 .. Len(b) + 1
      BY <3>1, <3>2, <1>1
    <3> QED
      BY <3>1, <3>3, <1>3, <2>1, SeqColumn DEF IInv, DealtOK
  <2>3. h = new \o SubSeq(b, q, Len(b))
    BY <1>1, <1>3 DEF Held
  <2> HIDE DEF h, b, new, q
  <2>4. /\ h \in Seq(Column)
        /\ Len(h) = Len(new) + (Len(b) + 1 - q)
        /\ \A m \in 1 .. Len(new) : h[m] = new[m]
        /\ \A m \in Len(new) + 1 .. Len(h) : h[m] = b[q + m - Len(new) - 1]
    <3>1. b \in Seq(Column) /\ new \in Seq(Column) /\ q \in 1 .. Len(b) + 1
      BY <1>1, <2>2
    <3> QED
      BY ONLY <3>1, <2>3, FollowedByRest, SMTT(30)
  <2>5. ASSUME NEW m \in 1 .. Len(h), m \notin 1 .. Len(new)
        PROVE  /\ m \in Len(new) + 1 .. Len(h)
               /\ q + m - Len(new) - 1 \in q .. Len(b)
               /\ q + m - Len(new) - 1 \in 1 .. Len(b)
    <3>1. Len(new) \in Nat /\ Len(b) \in Nat /\ q \in 1 .. Len(b) + 1
      BY <1>1, <2>2
    <3>2. Len(h) = Len(new) + (Len(b) + 1 - q)
      BY <2>4
    <3> QED
      BY ONLY <3>1, <3>2, <2>5
  <2>6. ASSUME NEW m \in 1 .. Len(h) PROVE KeyOf(h[m]) = k
    <3>1. CASE m \in 1 .. Len(new)
      BY <3>1, <2>2, <2>4
    <3>2. CASE m \notin 1 .. Len(new)
      BY <3>2, <2>4, <2>5, <1>1
    <3> QED
      BY <3>1, <3>2
  <2>7. ASSUME NEW m \in 1 .. Len(h), NEW n \in 1 .. Len(h), m < n
        PROVE  h[m] < h[n]
    <3>1. CASE n \in 1 .. Len(new)
      <4>1. m \in 1 .. Len(new)
        BY <3>1, <2>2, <2>7
      <4> QED
        BY <3>1, <4>1, <2>2, <2>4, <2>7
    <3>2. CASE m \in 1 .. Len(new) /\ n \notin 1 .. Len(new)
      BY <3>2, <2>2, <2>4, <2>5
    <3>3. CASE m \notin 1 .. Len(new) /\ n \notin 1 .. Len(new)
      <4> DEFINE i == q + m - Len(new) - 1
                 j == q + n - Len(new) - 1
      <4>1. i \in 1 .. Len(b) /\ j \in 1 .. Len(b) /\ h[m] = b[i] /\ h[n] = b[j]
        BY <3>3, <2>4, <2>5
      <4>2. i < j
        BY <2>2, <2>4, <2>7, <1>1
      <4> HIDE DEF i, j
      <4> QED
        BY <4>1, <4>2, <1>1 DEF Ascending
    <3>4. m \in 1 .. Len(new) \/ ~ n \in 1 .. Len(new)
      BY <2>2, <2>7
    <3> QED
      BY <3>1, <3>2, <3>3, <3>4
  <2>8. ASSUME NEW c PROVE InBucket(c, k) <=> Holds(c, k)
    <3>1. InBucket(c, k) <=> \E m \in 1 .. Len(h) : h[m] = c
      BY <2>4 DEF InBucket, h
    <3>2. Holds(c, k) <=> (\E m \in 1 .. Len(new) : new[m] = c)
                            \/ \E j \in q .. Len(b) : b[j] = c
      BY <1>3 DEF Holds, new, q, b
    <3>3. ASSUME NEW m \in 1 .. Len(h), h[m] = c PROVE Holds(c, k)
      <4>1. CASE m \in 1 .. Len(new)
        BY <4>1, <3>2, <3>3, <2>4
      <4>2. CASE m \notin 1 .. Len(new)
        BY <4>2, <3>2, <3>3, <2>4, <2>5
      <4> QED
        BY <4>1, <4>2
    <3>4. ASSUME NEW m \in 1 .. Len(new) PROVE m \in 1 .. Len(h)
      BY <2>2, <2>4, <1>1
    <3>5. ASSUME NEW j \in q .. Len(b)
          PROVE  \E m \in 1 .. Len(h) : h[m] = b[j]
      <4> DEFINE m == j - q + Len(new) + 1
      <4>1. m \in Len(new) + 1 .. Len(h) /\ m \in 1 .. Len(h) /\ q + m - Len(new) - 1 = j
        BY <2>2, <2>4, <1>1
      <4> HIDE DEF m
      <4> QED
        BY <4>1, <2>4
    <3> QED
      BY <3>1, <3>2, <3>3, <3>4, <3>5, <2>4
  <2> QED
    BY <2>4, <2>6, <2>7, <2>8 DEF Ascending, h
<1> QED
  BY <1>2, <1>3

(* In every behaviour every column put in the table is in exactly one      *)
(* place: once in the bucket of its key or in one range of it.             *)
THEOREM PlacedOnce == TableSpec => []ColumnPlacedOnce
<1>1. ASSUME IInv PROVE ColumnPlacedOnce
  <2> SUFFICES ASSUME NEW c \in 0 .. next_column - 1
               PROVE  /\ InBucket(c, KeyOf(c)) <=> ~ InRange(c, KeyOf(c))
                      /\ \A m, n \in DOMAIN Held(KeyOf(c)) :
                           Held(KeyOf(c))[m] = c /\ Held(KeyOf(c))[n] = c => m = n
                      /\ \A m, n \in DOMAIN Ranges(KeyOf(c)) :
                           Covers(Ranges(KeyOf(c))[m], c) /\ Covers(Ranges(KeyOf(c))[n], c)
                             => m = n
                      /\ \A l \in DOMAIN same_feature_map \ {KeyOf(c)} :
                           ~ InBucket(c, l) /\ ~ InRange(c, l)
    BY DEF ColumnPlacedOnce
  <2> DEFINE k == KeyOf(c)
             h == Held(k)
             rs == Ranges(k)
  <2>1. k \in DOMAIN same_feature_map /\ (Holds(c, k) <=> ~ InRange(c, k)) /\ c \in Int
    BY <1>1 DEF IInv, PlacedOK
  <2>2. InBucket(c, k) <=> ~ InRange(c, k)
    BY <1>1, <2>1, HeldFacts
  <2>3. ASSUME NEW m \in DOMAIN h, NEW n \in DOMAIN h, h[m] = c, h[n] = c PROVE m = n
    <3>1. h \in Seq(Column) /\ Ascending(h)
      BY <1>1, <2>1, HeldFacts
    <3> HIDE DEF h
    <3>2. m \in 1 .. Len(h) /\ n \in 1 .. Len(h)
      BY <3>1
    <3>3. ~ (m < n) /\ ~ (n < m)
      BY <3>1, <3>2, <2>1, <2>3 DEF Ascending
    <3> QED
      BY <3>2, <3>3
  <2>4. ASSUME NEW m \in DOMAIN rs, NEW n \in DOMAIN rs, Covers(rs[m], c), Covers(rs[n], c)
        PROVE  m = n
    <3>1. rs \in Seq(ColumnRange)
      BY <1>1 DEF IInv, TableTypeOK, Ranges
    <3>2. m \in 1 .. Len(rs) /\ n \in 1 .. Len(rs)
      <4> HIDE DEF rs
      <4> QED
        BY <3>1
    <3>3. /\ rs[m][1] \in Int /\ rs[m][2] \in Int /\ rs[n][1] \in Int /\ rs[n][2] \in Int
      BY <1>1, <3>2, RangeType DEF IInv
    <3>4. (m < n => rs[m][2] <= rs[n][1]) /\ (n < m => rs[n][2] <= rs[m][1])
      BY <1>1, <2>1, <3>2 DEF IInv, RangesOK
    <3> HIDE DEF rs
    <3>5. ~ (m < n) /\ ~ (n < m)
      BY <3>3, <3>4, <2>1, <2>4 DEF Covers
    <3> QED
      BY <3>2, <3>5
  <2>5. ASSUME NEW l \in DOMAIN same_feature_map, l # k
        PROVE  ~ InBucket(c, l) /\ ~ InRange(c, l)
    <3>1. ASSUME InBucket(c, l) PROVE FALSE
      <4>1. PICK m \in DOMAIN Held(l) : Held(l)[m] = c
        BY <3>1 DEF InBucket
      <4>2. m \in 1 .. Len(Held(l)) /\ KeyOf(Held(l)[m]) = l
        BY <1>1, HeldFacts
      <4> QED
        BY <4>1, <4>2, <2>5
    <3>2. ASSUME InRange(c, l) PROVE FALSE
      <4>1. PICK m \in DOMAIN Ranges(l) : Covers(Ranges(l)[m], c)
        BY <3>2 DEF InRange
      <4>2. Ranges(l) \in Seq(ColumnRange)
        BY <1>1 DEF IInv, TableTypeOK, Ranges
      <4>3. m \in 1 .. Len(Ranges(l))
        BY <4>2
      <4>4. /\ Ranges(l)[m][1] \in Int /\ Ranges(l)[m][2] \in Int
            /\ \A d \in Ranges(l)[m][1] .. Ranges(l)[m][2] - 1 : KeyOf(d) = l
        BY <1>1, <4>3, RangeType DEF IInv, RangesOK
      <4>5. c \in Ranges(l)[m][1] .. Ranges(l)[m][2] - 1
        BY <4>1, <4>4, <2>1 DEF Covers
      <4> QED
        BY <4>4, <4>5, <2>5
    <3> QED
      BY <3>1, <3>2
  <2> QED
    BY <2>2, <2>3, <2>4, <2>5
<1> QED
  BY <1>1, Invariance, PTL

(* In every behaviour the columns of a range have the key of the bucket it *)
(* came from and write one location, and there are at least two of them.   *)
THEOREM RangeOneLocation == TableSpec => []RangeWritesOneLocation
<1>1. ASSUME IInv PROVE RangeWritesOneLocation
  <2> SUFFICES ASSUME NEW k \in DOMAIN same_feature_map, NEW j \in DOMAIN Ranges(k)
               PROVE  /\ Ranges(k)[j][2] - Ranges(k)[j][1] > 1
                      /\ \A c \in Ranges(k)[j][1] .. Ranges(k)[j][2] - 1 :
                           KeyOf(c) = k /\ location[c] = location[Ranges(k)[j][1]]
    BY DEF RangeWritesOneLocation
  <2>1. Ranges(k) \in Seq(ColumnRange)
    BY <1>1 DEF IInv, TableTypeOK, Ranges
  <2>2. j \in 1 .. Len(Ranges(k))
    BY <2>1
  <2>3. Ranges(k)[j][1] \in Int /\ Ranges(k)[j][2] \in Int
    BY <1>1, <2>2, RangeType DEF IInv
  <2>4. /\ Ranges(k)[j][1] + 1 < Ranges(k)[j][2]
        /\ \A c \in Ranges(k)[j][1] .. Ranges(k)[j][2] - 1 :
             KeyOf(c) = k /\ location[c] = location[Ranges(k)[j][1]]
    BY <1>1, <2>2 DEF IInv, RangesOK
  <2> QED
    BY <2>3, <2>4
<1> QED
  BY <1>1, Invariance, PTL

(* The table that is done: each bucket has its columns once, a range has   *)
(* columns of its bucket, and no column is in two places.                  *)
LEMMA TableDone ==
  ASSUME IInv, table_pc = "done"
  PROVE  /\ DOMAIN same_feature_range_map \subseteq DOMAIN same_feature_map
         /\ \A k \in DOMAIN same_feature_map :
              /\ same_feature_map[k] \in Seq(Column)
              /\ \A i, j \in 1 .. Len(same_feature_map[k]) :
                   /\ KeyOf(same_feature_map[k][i]) = k
                   /\ same_feature_map[k][i] = same_feature_map[k][j] => i = j
         /\ \A k \in DOMAIN same_feature_range_map :
              LET rs == same_feature_range_map[k] IN
              /\ rs \in Seq(ColumnRange)
              /\ \A i \in 1 .. Len(rs) : \A c \in Int :
                   Covers(rs[i], c) =>
                     /\ c \in Column /\ KeyOf(c) = k
                     /\ \A j \in 1 .. Len(rs) : Covers(rs[j], c) => i = j
                     /\ \A m \in 1 .. Len(same_feature_map[k]) : same_feature_map[k][m] # c
<1>1. scanned = NoKey /\ next_column = TableColumnNum /\ TableColumnNum \in Nat
  BY TableAssumption DEF IInv, TableTypeOK, PhaseOK
<1>2. DOMAIN same_feature_range_map \subseteq DOMAIN same_feature_map
  BY DEF IInv, PhaseOK
<1>3. ASSUME NEW k \in DOMAIN same_feature_map
      PROVE  /\ same_feature_map[k] \in Seq(Column)
             /\ \A i, j \in 1 .. Len(same_feature_map[k]) :
                  /\ KeyOf(same_feature_map[k][i]) = k
                  /\ same_feature_map[k][i] = same_feature_map[k][j] => i = j
  <2>1. same_feature_map[k] \in Seq(Column)
    BY DEF IInv, TableTypeOK
  <2>2. \A i, j \in 1 .. Len(same_feature_map[k]) :
          KeyOf(same_feature_map[k][i]) = k /\ (i < j => same_feature_map[k][i] < same_feature_map[k][j])
    BY DEF IInv, BucketOK
  <2>3. \A i \in 1 .. Len(same_feature_map[k]) : same_feature_map[k][i] \in Int
    BY <2>1, SeqColumn
  <2>4. \A i, j \in 1 .. Len(same_feature_map[k]) : i < j \/ j < i \/ i = j
    BY <2>1
  <2> QED BY <2>1, <2>2, <2>3, <2>4
<1>4. ASSUME NEW k \in DOMAIN same_feature_range_map
      PROVE  LET rs == same_feature_range_map[k] IN
             /\ rs \in Seq(ColumnRange)
             /\ \A i \in 1 .. Len(rs) : \A c \in Int :
                  Covers(rs[i], c) =>
                    /\ c \in Column /\ KeyOf(c) = k
                    /\ \A j \in 1 .. Len(rs) : Covers(rs[j], c) => i = j
                    /\ \A m \in 1 .. Len(same_feature_map[k]) : same_feature_map[k][m] # c
  <2> DEFINE rs == same_feature_range_map[k]
  <2>1. k \in DOMAIN same_feature_map /\ k # NoKey
    BY <1>2 DEF IInv, PhaseOK
  <2>2. Ranges(k) = rs /\ rs \in Seq(ColumnRange)
    BY <1>1, <2>1 DEF Ranges, IInv, TableTypeOK
  <2>3. \A i \in 1 .. Len(rs) : rs[i][1] \in Int /\ rs[i][2] \in Int /\ rs[i][1] \in Column
    BY <2>2, RangeType DEF IInv
  <2>4. \A i \in 1 .. Len(rs) :
          /\ rs[i][2] <= TableColumnNum
          /\ \A c \in rs[i][1] .. rs[i][2] - 1 : KeyOf(c) = k
          /\ \A j \in 1 .. Len(rs) : i < j => rs[i][2] <= rs[j][1]
    BY <1>1, <2>1, <2>2 DEF IInv, RangesOK
  <2> HIDE DEF rs
  <2>5. ASSUME NEW i \in 1 .. Len(rs), NEW c \in Int, Covers(rs[i], c)
        PROVE  /\ c \in Column /\ KeyOf(c) = k
               /\ \A j \in 1 .. Len(rs) : Covers(rs[j], c) => i = j
               /\ \A m \in 1 .. Len(same_feature_map[k]) : same_feature_map[k][m] # c
    <3>1. c \in rs[i][1] .. rs[i][2] - 1
      BY <2>3, <2>5 DEF Covers
    <3>2. c \in Column
      BY <1>1, <2>3, <2>4, <3>1, ColumnInt DEF Column
    <3>3. KeyOf(c) = k
      BY <2>4, <3>1
    <3>4. ASSUME NEW j \in 1 .. Len(rs), Covers(rs[j], c) PROVE i = j
      <4>1. i \in Int /\ j \in Int
        BY <2>2
      <4>2. i < j => rs[i][2] <= rs[j][1]
        BY <2>4
      <4>3. j < i => rs[j][2] <= rs[i][1]
        BY <2>4
      <4> QED BY <2>3, <2>5, <3>4, <4>1, <4>2, <4>3 DEF Covers
    <3>5. ASSUME NEW m \in 1 .. Len(same_feature_map[k]), same_feature_map[k][m] = c PROVE FALSE
      <4>1. c \in 0 .. next_column - 1
        BY <1>1, <3>2 DEF Column
      <4>2. Holds(c, k)
        BY <1>1, <2>1, <3>5 DEF Holds
      <4>3. InRange(c, k)
        <5>1. DOMAIN rs = 1 .. Len(rs)
          BY <2>2
        <5> QED BY <2>2, <2>5, <5>1 DEF InRange
      <4> QED BY <3>3, <4>1, <4>2, <4>3 DEF IInv, PlacedOK
    <3> QED BY <3>2, <3>3, <3>4, <3>5
  <2> QED BY <2>2, <2>5 DEF rs
<1> QED BY <1>2, <1>3, <1>4

(* The same of the next state, for a table that begins in a step.          *)
LEMMA BegunTable == TableInit' => IInv'
BY InitInv, PTL

(* The table that is done has every column, in the bucket of its key or in *)
(* a range of it.                                                          *)
LEMMA NoneLost ==
  ASSUME IInv, table_pc = "done", NEW c \in Column
  PROVE  \/ /\ KeyOf(c) \in DOMAIN same_feature_map
            /\ \E m \in 1 .. Len(same_feature_map[KeyOf(c)]) : same_feature_map[KeyOf(c)][m] = c
         \/ /\ KeyOf(c) \in DOMAIN same_feature_range_map
            /\ \E i \in 1 .. Len(same_feature_range_map[KeyOf(c)]) :
                 Covers(same_feature_range_map[KeyOf(c)][i], c)
<1> DEFINE k == KeyOf(c)
<1>1. scanned = NoKey /\ c \in 0 .. next_column - 1 /\ NoKey \notin DOMAIN same_feature_map
  BY TableAssumption DEF IInv, TableTypeOK, PhaseOK, Column
<1>2. k \in DOMAIN same_feature_map /\ (Holds(c, k) <=> ~ InRange(c, k)) /\ k # scanned
  BY <1>1 DEF IInv, PlacedOK
<1> HIDE DEF k
<1>3. CASE Holds(c, k)
  BY <1>2, <1>3 DEF Holds, k
<1>4. CASE InRange(c, k)
  <2>1. PICK i \in DOMAIN Ranges(k) : Covers(Ranges(k)[i], c)
    BY <1>4 DEF InRange
  <2>2. k \in DOMAIN same_feature_range_map /\ Ranges(k) = same_feature_range_map[k]
    <3>1. DOMAIN <<>> = {}
      OBVIOUS
    <3> QED BY <1>2, <2>1, <3>1 DEF Ranges
  <2>3. Ranges(k) \in Seq(ColumnRange)
    BY <2>2 DEF IInv, TableTypeOK
  <2>4. i \in 1 .. Len(Ranges(k))
    BY <2>1, <2>3
  <2> QED BY <2>1, <2>2, <2>4 DEF k
<1> QED BY <1>2, <1>3, <1>4
=============================================================================
