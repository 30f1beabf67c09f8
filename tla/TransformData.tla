--------------------------- MODULE TransformData ---------------------------
(***************************************************************************)
(* transform_data.cpp: the arrays the generated code walks through.  Every *)
(* array is allocated from a count made in one pass and filled in another: *)
(* the columns of the buckets, bucket by bucket, then the columns of the   *)
(* ranges (of the scatter array, the first column of each range only).     *)
(* The element count must cover what is written, and the order of the      *)
(* entries must be the order in which the generated code will take them.   *)
(***************************************************************************)
EXTENDS Features

CONSTANT TableColumnNum   (* table_column_num                              *)

VARIABLES
  column_order,     (* Columns in the order rearrange visits them.         *)
  scatter_order,    (* Columns in the order rearrange_scatter visits them. *)
  gather_info, scatter_info, reduction_info,  (* Info of every column.     *)
  filling,          (* The position in Streams of the array being made.    *)
  need_data_num,    (* Its element count; -1 before malloc_new_data.       *)
  visit,            (* The visit that is next to fill it.                  *)
  stream,           (* Contents of the arrays.                             *)
  offset            (* History: where the entries of each visit begin.     *)

transform_inputs ==
  <<column_order, scatter_order, gather_info, scatter_info, reduction_info>>
arrays == <<stream, offset>>
transform_vars == <<transform_inputs, filling, need_data_num, visit, arrays>>

Column == 0 .. TableColumnNum - 1

(* The order of rearrange_all: loaded arrays, then the index arrays.       *)
Streams    == <<"data", "scatter", "reduction", "gather">>
StreamName == {"data", "scatter", "reduction", "gather"}

VisitOrder(name) == IF name = "scatter" THEN scatter_order ELSE column_order

-----------------------------------------------------------------------------
(* malloc_new_data: how many elements one column counts for.               *)

(* Mutant: the words of the permutation are not counted.                   *)
NeedOfGatherNoPermutation(info) == IF info.order = DisOrder THEN info.mask ELSE 1

(* With four lanes the mask is a packed permutation and is counted whole.  *)
NeedOfGather(info) ==
  IF info.order = DisOrder
    THEN info.mask + (IF info.mask # Vector /\ Vector > 4 THEN Vector \div 4 ELSE 0)
    ELSE 1

NeedOfReduction(info) ==
  IF info.order = DisOrder /\ info.mask # Vector THEN (Vector * info.mask) \div 4 ELSE 0

NeedOf(name, c) ==
  CASE name = "data"      -> Vector
    [] name = "gather"    -> NeedOfGather(gather_info[c])
    [] name = "scatter"   -> NeedOfGather(scatter_info[c])
    [] name = "reduction" -> NeedOfReduction(reduction_info[c])

(* The scatter array is counted over the visits, the others over the table.*)
NeedDataNum(name) ==
  IF name = "scatter"
    THEN MapThenSumSet(LAMBDA v : NeedOf(name, scatter_order[v]), DOMAIN scatter_order)
    ELSE MapThenSumSet(LAMBDA c : NeedOf(name, c), Column)

(* rearrange_elem: the entries one column is given.                        *)
EntriesOfGather(info) ==
  IF info.order # DisOrder THEN <<info.index[1]>>
  ELSE IF Vector > 4
         THEN SubSeq(info.index, 1, info.mask)
                \o (IF info.mask # Vector THEN info.perm ELSE <<>>)
         ELSE IF info.mask = Vector THEN info.index ELSE <<info.index[1]>>

(* The word read for round r and lane block w is word w of round r.        *)
EntriesOfReduction(info) == IF info.order = DisOrder THEN info.perm ELSE <<>>

Elements(c) == [n \in 1 .. Vector |-> c * Vector + n - 1]

EntriesOf(name, c) ==
  CASE name = "data"      -> Elements(c)
    [] name = "gather"    -> EntriesOfGather(gather_info[c])
    [] name = "scatter"   -> EntriesOfGather(scatter_info[c])
    [] name = "reduction" -> EntriesOfReduction(reduction_info[c])

-----------------------------------------------------------------------------

NoArrays ==
  /\ filling = 1
  /\ need_data_num = -1
  /\ visit = 1
  /\ stream = [n \in StreamName |-> <<>>]
  /\ offset = [n \in StreamName |-> <<>>]

(* malloc_new_data; an array of no elements is the null pointer.           *)
Malloc ==
  /\ filling <= Len(Streams)
  /\ need_data_num = -1
  /\ need_data_num' = NeedDataNum(Streams[filling])
  /\ UNCHANGED <<transform_inputs, filling, visit, arrays>>

(* rearrange_elem for the next column; nothing is filled at a null pointer.*)
RearrangeElem ==
  LET name == Streams[filling] IN
  /\ filling <= Len(Streams)
  /\ need_data_num > 0
  /\ visit <= Len(VisitOrder(name))
  /\ stream' = [stream EXCEPT ![name] = @ \o EntriesOf(name, VisitOrder(name)[visit])]
  /\ offset' = [offset EXCEPT ![name] = Append(@, Len(stream[name]))]
  /\ visit' = visit + 1
  /\ UNCHANGED <<transform_inputs, filling, need_data_num>>

(* The array is complete: on to the next one.                              *)
NextArray ==
  /\ filling <= Len(Streams)
  /\ need_data_num = 0 \/ (need_data_num > 0 /\ visit > Len(VisitOrder(Streams[filling])))
  /\ filling' = filling + 1
  /\ need_data_num' = -1
  /\ visit' = 1
  /\ UNCHANGED <<transform_inputs, arrays>>

Transformed == filling > Len(Streams)

TransformNext == Malloc \/ RearrangeElem \/ NextArray

-----------------------------------------------------------------------------

(* An array is never filled beyond the elements that were counted for it:  *)
(* two functions with separate case analyses have to agree                 *)
(* (malloc_new_data and rearrange_elem of every Info).                     *)
FilledWithinMalloc ==
  filling <= Len(Streams) /\ need_data_num >= 0
    => Len(stream[Streams[filling]]) <= need_data_num
=============================================================================
