---------------------------- MODULE FeatureTable ----------------------------
(***************************************************************************)
(* The feature table of tools_set.cpp: the columns of the index table are  *)
(* thrown into buckets by the hash of their feature, and then every bucket *)
(* whose columns write one location each gives up its runs of consecutive  *)
(* columns that write the same location, which become ranges.              *)
(*                                                                         *)
(* A feature stands for the masks of all the index arrays at one column    *)
(* (order type and mask of each gather, scatter and reduction).  Whether   *)
(* the scatter of a column is OrderEquel is part of its feature; the       *)
(* location it writes is not.                                              *)
(***************************************************************************)
EXTENDS Integers, Sequences

CONSTANTS
  TableColumnNum,   (* table_column_num: how many vectors of elements.     *)
  Feature,          (* The features a column can have.                     *)
  EquelFeature,     (* Those whose scatter mask says OrderEquel.           *)
  Location,         (* The locations data_index_[0] can name.              *)
  Hash,             (* The 64-bit hash of a feature; it may collide.       *)
  NoKey             (* No bucket is being scanned.                         *)

ASSUME TableAssumption ==
  /\ TableColumnNum \in Nat
  /\ EquelFeature \subseteq Feature
  /\ DOMAIN Hash = Feature
  /\ \A f \in Feature : Hash[f] # NoKey

VARIABLES
  feature,                (* The feature of each column (input).           *)
  location,               (* data_index_[0] of its scatter (input).        *)
  same_feature_map,       (* key -> the columns of that hash.              *)
  same_feature_range_map, (* key -> ranges <<first, last + 1>>.            *)
  table_pc,               (* "combine", "write", "done".                   *)
  next_column,            (* i of combin_same_feature_together.            *)
  todo,                   (* Buckets the walk over the map has not reached.*)
  scanned,                (* The bucket being scanned, or NoKey.           *)
  begin_index,            (* Where in it the run being followed begins.    *)
  len,                    (* How many columns of that run are known.       *)
  new_index_vec,          (* Columns of it that stay in the bucket.        *)
  same_write_range        (* Ranges found in it.                           *)

table_inputs == <<feature, location>>
table  == <<same_feature_map, same_feature_range_map>>
scan   == <<scanned, begin_index, len, new_index_vec, same_write_range>>
table_vars == <<table_inputs, table, table_pc, next_column, todo, scan>>

Column   == 0 .. TableColumnNum - 1
KeyOf(c) == Hash[feature[c]]

(* map[k] = v of a std::unordered_map.                                     *)
Put(map, k, v) == [x \in DOMAIN map \cup {k} |-> IF x = k THEN v ELSE map[x]]

Bucket(k) == IF k \in DOMAIN same_feature_map THEN same_feature_map[k] ELSE <<>>

-----------------------------------------------------------------------------

EmptyTable ==
  /\ same_feature_map       = <<>>
  /\ same_feature_range_map = <<>>
  /\ table_pc = "combine"
  /\ next_column = 0
  /\ todo = {}
  /\ scanned = NoKey
  /\ begin_index = 1
  /\ len = 1
  /\ new_index_vec = <<>>
  /\ same_write_range = <<>>

TableInit ==
  /\ feature  \in [Column -> Feature]
  /\ location \in [Column -> Location]
  /\ EmptyTable

(* One iteration of the loop of combin_same_feature_together.              *)
CombinSameFeature ==
  /\ table_pc = "combine"
  /\ next_column < TableColumnNum
  /\ LET k == KeyOf(next_column)
     IN same_feature_map' = Put(same_feature_map, k, Append(Bucket(k), next_column))
  /\ next_column' = next_column + 1
  /\ UNCHANGED <<table_inputs, same_feature_range_map, table_pc, todo, scan>>

(* All columns are in: the walk over the buckets begins.                   *)
BeginWritePattern ==
  /\ table_pc = "combine"
  /\ next_column = TableColumnNum
  /\ table_pc' = "write"
  /\ todo' = DOMAIN same_feature_map
  /\ UNCHANGED <<table_inputs, table, next_column, scan>>

(* Mutant: every bucket is looked through for runs, also those whose       *)
(* columns write more than one location.                                   *)
FirstIsAny(b) == b # <<>>

(* Only the first column of a bucket is asked whether all of its lanes     *)
(* write one location.                                                     *)
FirstIsEquel(b) == b # <<>> /\ feature[b[1]] \in EquelFeature

(* Mutant: the walk over the map comes back to the bucket it has just done.*)
RetireNot(k) == todo

(* The walk over the map moves on from bucket k.                           *)
Retire(k) == todo \ {k}

(* The walk reaches bucket k, in the order of the unordered_map.           *)
BeginBucket(k) ==
  /\ table_pc = "write"
  /\ scanned = NoKey
  /\ k \in todo
  /\ IF FirstIsEquel(Bucket(k))
       THEN /\ scanned' = k
            /\ UNCHANGED <<todo, begin_index, len, new_index_vec, same_write_range>>
       ELSE /\ todo' = Retire(k)
            /\ UNCHANGED scan
  /\ UNCHANGED <<table_inputs, table, table_pc, next_column>>

(* Mutant: the locations the two columns write are not compared.           *)
JoinedAnywhere(b, j) == b[j + 1] = b[j] + 1

(* Positions j and j + 1 of bucket b hold neighbours of the table that     *)
(* write one location.                                                     *)
Joined(b, j) ==
  /\ b[j + 1] = b[j] + 1
  /\ location[b[j + 1]] = location[b[j]]

(* The run goes on: there is a next position and it belongs to it.         *)
RunGoesOn(b) ==
  /\ begin_index + len <= Len(b)
  /\ Joined(b, begin_index + len - 1)

(* One iteration of the loop over j.                                       *)
ExtendRun ==
  /\ scanned # NoKey
  /\ RunGoesOn(Bucket(scanned))
  /\ len' = len + 1
  /\ UNCHANGED <<table_inputs, table, table_pc, next_column, todo, scanned,
                 begin_index, new_index_vec, same_write_range>>

(* Mutant: the end of the range is one column too far.                     *)
RangeOfTooLong(first, last) == <<first, last + 2>>

(* The pair that stands for a range: its first column, its last + 1.       *)
RangeOf(first, last) == <<first, last + 1>>

(* The run is over: a lone column stays, a longer run leaves the bucket.   *)
(* The code collects all the lengths (range_vec) before it deals them out. *)
TakeRun ==
  LET b == Bucket(scanned) IN
  /\ scanned # NoKey
  /\ begin_index <= Len(b)
  /\ ~ RunGoesOn(b)
  /\ IF len = 1
       THEN /\ new_index_vec' = Append(new_index_vec, b[begin_index])
            /\ UNCHANGED same_write_range
       ELSE /\ same_write_range' =
                 Append(same_write_range, RangeOf(b[begin_index], b[begin_index + len - 1]))
            /\ UNCHANGED new_index_vec
  /\ begin_index' = begin_index + len
  /\ len' = 1
  /\ UNCHANGED <<table_inputs, table, table_pc, next_column, todo, scanned>>

(* Mutant: the columns that stay are written over the front of the vector, *)
(* and the vector is not cut to their number.                              *)
CompactedUncut(b, kept) == kept \o SubSeq(b, Len(kept) + 1, Len(b))

(* The columns that stay move to the front, the rest is erased.            *)
Compacted(b, kept) == kept

(* The bucket is done.  One that found no range has no entry in the range  *)
(* map; one that kept no column keeps its entry in the feature map, empty  *)
(* (erase_vec is filled and never used).                                   *)
EndBucket ==
  /\ scanned # NoKey
  /\ begin_index > Len(Bucket(scanned))
  /\ same_feature_map' =
       Put(same_feature_map, scanned, Compacted(Bucket(scanned), new_index_vec))
  /\ same_feature_range_map' =
       IF same_write_range = <<>> THEN same_feature_range_map
       ELSE Put(same_feature_range_map, scanned, same_write_range)
  /\ todo' = Retire(scanned)
  /\ scanned' = NoKey
  /\ begin_index' = 1
  /\ len' = 1
  /\ new_index_vec' = <<>>
  /\ same_write_range' = <<>>
  /\ UNCHANGED <<table_inputs, table_pc, next_column>>

EndWritePattern ==
  /\ table_pc = "write"
  /\ scanned = NoKey
  /\ todo = {}
  /\ table_pc' = "done"
  /\ UNCHANGED <<table_inputs, table, next_column, todo, scan>>

TableNext ==
  \/ CombinSameFeature
  \/ BeginWritePattern
  \/ \E k \in todo : BeginBucket(k)
  \/ ExtendRun
  \/ TakeRun
  \/ EndBucket
  \/ EndWritePattern

TableSpec == TableInit /\ [][TableNext]_table_vars /\ WF_table_vars(TableNext)

-----------------------------------------------------------------------------
(* What bucket k still holds and the ranges it has given up: while it is   *)
(* scanned, the columns that stay and those the scan has not reached.      *)
Held(k) ==
  IF k = scanned
    THEN new_index_vec \o SubSeq(Bucket(k), begin_index, Len(Bucket(k)))
    ELSE Bucket(k)

Ranges(k) ==
  IF k = scanned THEN same_write_range
  ELSE IF k \in DOMAIN same_feature_range_map THEN same_feature_range_map[k] ELSE <<>>

Covers(r, c)   == r[1] <= c /\ c < r[2]
InBucket(c, k) == \E j \in DOMAIN Held(k) : Held(k)[j] = c
InRange(c, k)  == \E j \in DOMAIN Ranges(k) : Covers(Ranges(k)[j], c)

ColumnRange == Column \X (1 .. TableColumnNum)

(* Type invariant of the table and of the two loops that build it.         *)
TableTypeOK ==
  /\ feature  \in [Column -> Feature]
  /\ location \in [Column -> Location]
  /\ \A k \in DOMAIN same_feature_map : same_feature_map[k] \in Seq(Column)
  /\ \A k \in DOMAIN same_feature_range_map :
       same_feature_range_map[k] \in Seq(ColumnRange) \ {<<>>}
  /\ table_pc \in {"combine", "write", "done"}
  /\ next_column \in 0 .. TableColumnNum
  /\ todo \subseteq DOMAIN same_feature_map
  /\ scanned \in todo \cup {NoKey}
  /\ begin_index \in 1 .. TableColumnNum + 1
  /\ len \in 1 .. TableColumnNum + 1
  /\ new_index_vec \in Seq(Column)
  /\ same_write_range \in Seq(ColumnRange)

(* No column that has been put in the table is lost, and none is there     *)
(* twice: not in two places of a bucket, not in a bucket and a range, not  *)
(* in two ranges.  The generated code runs once for each place a column    *)
(* has, so this is what makes it add every element exactly once            *)
(* (combin_same_write_pattern_together_elem, compaction and erase).        *)
ColumnPlacedOnce ==
  \A c \in 0 .. next_column - 1 :
    LET k == KeyOf(c) IN
    /\ InBucket(c, k) <=> ~ InRange(c, k)
    /\ \A m, n \in DOMAIN Held(k) : Held(k)[m] = c /\ Held(k)[n] = c => m = n
    /\ \A m, n \in DOMAIN Ranges(k) :
         Covers(Ranges(k)[m], c) /\ Covers(Ranges(k)[n], c) => m = n
    /\ \A l \in DOMAIN same_feature_map \ {k} : ~ InBucket(c, l) /\ ~ InRange(c, l)

(* The code generated for a range reads y once, adds all its columns up    *)
(* and stores once, with the code of its first column: that is right only  *)
(* if all its columns have the key of the bucket and write one location.   *)
RangeWritesOneLocation ==
  \A k \in DOMAIN same_feature_map : \A j \in DOMAIN Ranges(k) :
    LET r == Ranges(k)[j] IN
    /\ r[2] - r[1] > 1
    /\ \A c \in r[1] .. r[2] - 1 : KeyOf(c) = k /\ location[c] = location[r[1]]

(* Both loops end, whatever the order in which the map is walked.          *)
TableBuilt == <>(table_pc = "done")
=============================================================================
