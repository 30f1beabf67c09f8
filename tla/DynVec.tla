------------------------------- MODULE DynVec -------------------------------
(***************************************************************************)
(* The whole of DynVec on the lambda of spmv: compiler() looks at the      *)
(* index arrays (generate_information), builds the feature table, lays the *)
(* arrays out anew (transform_data) and generates one loop for each bucket *)
(* and each bucket of ranges (optimization_state); then the function it    *)
(* returns and the scalar loop behind it run (spmv_dynvec).                *)
(*                                                                         *)
(* The components are instances; this module adds the hand-overs between   *)
(* them, with the order in which the two unordered_maps are walked, and    *)
(* the two places where the program gives up.                              *)
(***************************************************************************)
EXTENDS VectorCode

CONSTANTS
  DataNum,          (* data_num                                            *)
  DataTypes,        (* The types data and x may have: "float", "double".   *)
  Inputs,           (* The contents <<row_ptr, column_ptr>> may have.      *)
  HashOf(_),        (* get_feature_hash: the key of a triple of masks.     *)
  NoKey

TableColumnNum == DataNum \div Vector

ASSUME InputAssumption ==
  /\ DataNum \in Nat
  /\ DataTypes \subseteq {"float", "double"}
  /\ \A input \in Inputs :
       /\ input[1] \in [0 .. DataNum - 1 -> Row]
       /\ input[2] \in [0 .. DataNum - 1 -> 0 .. XNum - 1]

VARIABLES
  phase,                                      (* What compiler() is at.    *)
  data_type,                                  (* Of data, x and y.         *)
  row_ptr, column_ptr,                        (* The index arrays.         *)
  gather_info, scatter_info, reduction_info,  (* Info of every column.     *)
  feature, location, same_feature_map, same_feature_range_map,
  table_pc, next_column, todo, scanned, begin_index, len,
  new_index_vec, same_write_range,            (* FeatureTable              *)
  bucket_order, range_order,                  (* How the maps are walked.  *)
  column_order, scatter_order, filling, need_data_num, visit, stream,
  offset,                                     (* TransformData             *)
  code, range_num, block, done_iters, pointer, range_pointer, inner,
  executed, tail, y                           (* Kernel                    *)

dsl_inputs   == <<data_type, row_ptr, column_ptr>>
infos        == <<gather_info, scatter_info, reduction_info>>
table        == <<feature, location, same_feature_map, same_feature_range_map,
                  table_pc, next_column, todo, scanned, begin_index, len,
                  new_index_vec, same_write_range>>
orders       == <<bucket_order, range_order, column_order, scatter_order>>
arrays       == <<filling, need_data_num, visit, stream, offset>>
generated    == <<code, range_num>>
running      == <<block, done_iters, pointer, range_pointer, inner, executed, tail, y>>
vars == <<phase, dsl_inputs, infos, table, orders, arrays, generated, running>>

Column  == 0 .. TableColumnNum - 1
Feature == Nat \X Nat \X Nat

Table == INSTANCE FeatureTable WITH
           EquelFeature <- {f \in Feature : f[2] = 1 + OrderEquel * 65536},
           Location     <- Row,
           Hash         <- [f \in Feature |-> HashOf(f)]
Transform == INSTANCE TransformData
Run       == INSTANCE Kernel

(* The elements of column c of an index array.                             *)
Slice(index, c) == [l \in Lane |-> index[c * Vector + l]]

-----------------------------------------------------------------------------

Init ==
  /\ phase = "information"
  /\ data_type \in DataTypes
  /\ \E input \in Inputs : row_ptr = input[1] /\ column_ptr = input[2]
  /\ gather_info = <<>> /\ scatter_info = <<>> /\ reduction_info = <<>>
  /\ feature = <<>> /\ location = <<>>
  /\ Table!EmptyTable
  /\ bucket_order = <<>> /\ range_order = <<>>
  /\ column_order = <<>> /\ scatter_order = <<>>
  /\ Transform!NoArrays
  /\ code = <<>> /\ range_num = <<>>
  /\ Run!KernelStart

(* generate_info for every array and every column, and the masks           *)
(* get_feature_hash will hash.  The first column it has no code for ends   *)
(* the program.                                                            *)
GenerateInformation ==
  /\ phase = "information"
  /\ IF \E c \in Column : ReductionUnsupported(Slice(row_ptr, c))
       THEN phase' = "unsupported" /\ UNCHANGED <<infos, feature, location>>
       ELSE /\ phase' = "table"
            /\ gather_info'    = [c \in Column |-> GatherInfo(Slice(column_ptr, c))]
            /\ scatter_info'   = [c \in Column |-> ScatterInfo(Slice(row_ptr, c))]
            /\ reduction_info' = [c \in Column |-> ReductionInfo(Slice(row_ptr, c))]
            /\ feature' = [c \in Column |-> <<Packed(gather_info'[c]),
                                              Packed(scatter_info'[c]),
                                              Packed(reduction_info'[c])>>]
            /\ location' = [c \in Column |-> scatter_info'[c].index[1]]
  /\ UNCHANGED <<dsl_inputs, same_feature_map, same_feature_range_map, table_pc,
                 next_column, todo, scanned, begin_index, len,
                 new_index_vec, same_write_range, orders, arrays, generated, running>>

BuildTable ==
  /\ phase = "table"
  /\ Table!TableNext
  /\ UNCHANGED <<phase, dsl_inputs, infos, orders, arrays, generated, running>>

(* Mutant: the second number of a range is taken for its last column.      *)
RangeColumnsClosed(r) == [n \in 1 .. r[2] - r[1] + 1 |-> r[1] + n - 1]

(* The columns of a range, and the columns of a bucket of ranges.          *)
RangeColumns(r)   == [n \in 1 .. r[2] - r[1] |-> r[1] + n - 1]
RangesColumns(rs) == FlattenSeq([j \in DOMAIN rs |-> RangeColumns(rs[j])])

(* Mutant: the walks go over copies of the maps, which may order their     *)
(* keys otherwise.                                                         *)
MapOrdersAny(map, last) == SetToSeqs(DOMAIN map)

(* The orders an unordered_map can be walked in, last being the order of   *)
(* the walk before: the same one as long as it has the same keys.          *)
MapOrders(map, last) ==
  IF ToSet(last) = DOMAIN map THEN {last} ELSE SetToSeqs(DOMAIN map)

(* The walks that fill the arrays.                                         *)
FixMapOrder ==
  /\ phase = "table"
  /\ table_pc = "done"
  /\ phase' = "transform"
  /\ bucket_order' \in MapOrders(same_feature_map, bucket_order)
  /\ range_order'  \in MapOrders(same_feature_range_map, range_order)
  /\ LET kept == FlattenSeq([n \in DOMAIN bucket_order' |-> same_feature_map[bucket_order'[n]]])
         Ranges(n) == same_feature_range_map[range_order'[n]]
     IN /\ column_order' = kept \o
             FlattenSeq([n \in DOMAIN range_order' |-> RangesColumns(Ranges(n))])
        /\ scatter_order' = kept \o
             FlattenSeq([n \in DOMAIN range_order' |->
                           [j \in DOMAIN Ranges(n) |-> Ranges(n)[j][1]]])
  /\ UNCHANGED <<dsl_inputs, infos, table, arrays, generated, running>>

TransformArrays ==
  /\ phase = "transform"
  /\ Transform!TransformNext
  /\ UNCHANGED <<dsl_inputs, phase, infos, table, bucket_order, range_order,
                 generated, running>>

(* The arrays are laid out; optimization_state walks over the two maps     *)
(* anew to make the loops.                                                 *)
EndTransform ==
  /\ phase = "transform"
  /\ Transform!Transformed
  /\ phase' = "code"
  /\ bucket_order' \in MapOrders(same_feature_map, bucket_order)
  /\ range_order'  \in MapOrders(same_feature_range_map, range_order)
  /\ UNCHANGED <<dsl_inputs, infos, table, column_order, scatter_order, arrays,
                 generated, running>>

-----------------------------------------------------------------------------
(* Mutant: all the columns the hash ever put in a bucket are counted.      *)
CircleNumOfAll(k) == Cardinality({c \in Column : Table!KeyOf(c) = k})

(* The iterations of the loop of bucket k.                                 *)
CircleNum(k) == Len(same_feature_map[k])

(* index_vec[0]; in a bucket that has given up all its columns, what the   *)
(* vector held there before they were erased.                              *)
FirstColumn(k) ==
  IF same_feature_map[k] # <<>> THEN same_feature_map[k][1]
  ELSE Min({c \in Column : Table!KeyOf(c) = k})

(* The loop shaped by the Infos of column c.                               *)
LoopOf(ranges, c, circle_num) ==
  Run!Loop(ranges, gather_info[c], scatter_info[c], reduction_info[c], circle_num)

(* Mutant: the type of the lanes is not looked at.                         *)
GatherUnsupportedAnyType(loop) == Vector = 4 /\ OneLoad(loop.gather)

(* Four float lanes have no code for one load and a permutation: LOG(FATAL)*)
(* in pass_(Gather).                                                       *)
GatherUnsupported(loop) == Vector = 4 /\ data_type = "float" /\ OneLoad(loop.gather)

(* Mutant: a reduction in disorder that takes no round fails, too.         *)
SelectTypesDifferAlways(loop) == data_type = "double" /\ loop.reduction.order = DisOrder

(* pass_(Add) adds the zeros of float lanes to double lanes in every round *)
(* of a reduction in disorder: CHECK in the constructor of Select.         *)
SelectTypesDiffer(loop) ==
  /\ data_type = "double"
  /\ loop.reduction.order = DisOrder
  /\ loop.reduction.mask > 0

(* Every loop that can be generated is appended, the others abort.         *)
AppendLoop(loop) ==
  \/ /\ GatherUnsupported(loop)
     /\ phase' = "unsupported" /\ UNCHANGED code
  \/ /\ SelectTypesDiffer(loop)
     /\ phase' = "check_failed" /\ UNCHANGED code
  \/ /\ ~ GatherUnsupported(loop) /\ ~ SelectTypesDiffer(loop)
     /\ code' = Append(code, loop) /\ UNCHANGED phase

(* One iteration of the first loop of optimization_state.                  *)
GenerateBucketLoop ==
  /\ phase = "code"
  /\ Len(code) < Len(bucket_order)
  /\ LET k == bucket_order[Len(code) + 1]
     IN AppendLoop(LoopOf(FALSE, FirstColumn(k), CircleNum(k)))
  /\ UNCHANGED <<dsl_inputs, infos, table, orders, arrays, range_num, running>>

(* One iteration of its last loop.                                         *)
GenerateRangeLoop ==
  /\ phase = "code"
  /\ Len(code) \in Len(bucket_order) .. Len(bucket_order) + Len(range_order) - 1
  /\ LET ranges == same_feature_range_map[range_order[Len(code) - Len(bucket_order) + 1]]
     IN AppendLoop(LoopOf(TRUE, ranges[1][1], Len(ranges)))
  /\ UNCHANGED <<dsl_inputs, infos, table, orders, arrays, range_num, running>>

(* same_feature_range_map_ptr, the sizes of the ranges, is an array the    *)
(* code refers to, filled on a walk of its own; with it the function is    *)
(* complete.                                                               *)
EndCode ==
  /\ phase = "code"
  /\ Len(code) = Len(bucket_order) + Len(range_order)
  /\ phase' = "run"
  /\ \E order \in MapOrders(same_feature_range_map, range_order) :
       range_num' = FlattenSeq([n \in DOMAIN order |->
                      LET ranges == same_feature_range_map[order[n]]
                      IN [j \in DOMAIN ranges |-> ranges[j][2] - ranges[j][1]]])
  /\ UNCHANGED <<dsl_inputs, infos, table, orders, arrays, code, running>>

RunKernel ==
  /\ phase = "run"
  /\ Run!KernelNext
  /\ UNCHANGED <<phase, data_type, infos, table, orders, filling, need_data_num, visit,
                 offset>>

EndRun ==
  /\ phase = "run"
  /\ Run!KernelDone
  /\ phase' = "done"
  /\ UNCHANGED <<dsl_inputs, infos, table, orders, arrays, generated, running>>

Next ==
  \/ GenerateInformation
  \/ BuildTable
  \/ FixMapOrder
  \/ TransformArrays
  \/ EndTransform
  \/ GenerateBucketLoop
  \/ GenerateRangeLoop
  \/ EndCode
  \/ RunKernel
  \/ EndRun

Spec == Init /\ [][Next]_vars /\ WF_vars(Next)

-----------------------------------------------------------------------------
(* The walk that fills the arrays, and the generated code behind it, take  *)
(* every column once: what the two maps hold together is all the columns,  *)
(* without those a bucket has given up to a range.                         *)
ColumnsVisitedOnce ==
  phase \in {"transform", "code", "run", "done"} =>
    \A c \in Column : Cardinality({v \in DOMAIN column_order : column_order[v] = c}) = 1

(* An array is never filled beyond the elements that were counted for it:  *)
(* malloc_new_data and rearrange_elem have separate case analyses.         *)
FilledWithinMalloc == Transform!FilledWithinMalloc

(* How many entries of each array the code should have taken: one visit of *)
(* every column it has run; of the scatter array, one of every column of a *)
(* bucket and of every range begun.                                        *)
ScatterVisits ==
  executed - (IF range_pointer = 0 THEN 0
              ELSE FoldFunctionOnSet(LAMBDA m, n : m + n, 0, range_num, 1 .. range_pointer)
                   - (IF inner = Run!NoRange THEN 0 ELSE inner.size - inner.taken))
    + range_pointer

VisitEnd(name, n) ==
  IF n < Len(offset[name]) THEN offset[name][n + 1] ELSE Len(stream[name])

(* The pointers of the generated code stand, between two iterations, where *)
(* transform_data has put the entries of the next column to run: how far   *)
(* pass_(Gather), pass_(Scatter) and pass_(Add) move a pointer for the     *)
(* first column of a bucket is what rearrange_elem wrote for each of its   *)
(* columns, and the walk over the maps that makes the loops takes their    *)
(* columns in the order in which the walks of transform_data have them.    *)
StreamsAligned ==
  phase = "run" =>
    /\ pointer["data"]    = VisitEnd("data", executed)
    /\ pointer["gather"]  = VisitEnd("gather", executed)
    /\ pointer["scatter"] = VisitEnd("scatter", ScatterVisits)
    /\ inner = Run!NoRange => pointer["reduction"] = VisitEnd("reduction", executed)

(* The elements the function has added to y: those of the columns run, but *)
(* of the range that runs, and those the scalar loop has passed.           *)
AddedElements ==
  LET stored  == executed - (IF inner = Run!NoRange THEN 0 ELSE inner.taken)
      columns == {column_order[v] : v \in 1 .. stored}
  IN {e \in 0 .. TableColumnNum * Vector - 1 : e \div Vector \in columns}
       \cup {e \in TableColumnNum * Vector .. DataNum - 1 : e < tail}

(* A range reads y before its first column and stores it behind its last,  *)
(* with the location of its first: all its elements have that row.  Its    *)
(* columns were joined by data_index_[0] alone, and only the first column  *)
(* of the bucket was asked whether its lanes write one location, so this   *)
(* rests on the key that the columns of a bucket share.                    *)
RangesWriteOneRow ==
  phase \in {"transform", "code", "run"} =>
    \A k \in DOMAIN same_feature_range_map :
      \A j \in DOMAIN same_feature_range_map[k] :
        LET r == same_feature_range_map[k][j] IN
        \A e \in r[1] * Vector .. r[2] * Vector - 1 : row_ptr[e] = row_ptr[r[1] * Vector]

Abstract == INSTANCE Accumulate WITH done <- AddedElements

(* The program computes y[row_ptr[i]] += data[i] * x[column_ptr[i]] once   *)
(* for every element: what the applications check with check_equal.        *)
ImplementsAccumulate == Abstract!AccumulateInit /\ [][Abstract!AddElements]_Abstract!accumulate_vars

(* At the normal end every location of y holds the products of all the     *)
(* elements whose row it is, each once, vectors and remainder together:    *)
(* y_array and y_array_bak are equal in the applications.                  *)
ResultOfLambda ==
  phase = "done" =>
    \A r \in Row : y[r] = SetToBag(Abstract!ProductsOf(0 .. DataNum - 1, r))

(* The operands of every Select that is built have one type: the CHECK of  *)
(* its constructor, "the type of v1 and v2 is not equal".                  *)
SelectTypesEqual == phase # "check_failed"

(* A column no code is generated for: four lanes of rows in disorder, or   *)
(* four float lanes that one load and a permutation would gather.          *)
Refused ==
  \E c \in Column :
    \/ ReductionUnsupported(Slice(row_ptr, c))
    \/ /\ Vector = 4 /\ data_type = "float"
       /\ OneLoad(GatherInfo(Slice(column_ptr, c)))

(* A column of double lanes with rows in disorder of which one repeats:    *)
(* Select would have to mix them with float zeros.                         *)
ZerosDiffer ==
  /\ data_type = "double"
  /\ \E c \in Column :
       LET rows == Slice(row_ptr, c)
       IN OrderTypeOf(rows) = DisOrder /\ \E l, m \in Lane : l # m /\ rows[l] = rows[m]

(* The program ends, and how it ends depends on its columns alone: not on  *)
(* the order in which the maps are walked, nor on which column is the      *)
(* first of its bucket, is in a range or was in a bucket now empty.  One   *)
(* column that cannot be served ends all the work, however much of it has  *)
(* been done (LOG(FATAL), CHECK); else there is a result.                  *)
Termination ==
  <>(phase = IF Refused THEN "unsupported" ELSE IF ZerosDiffer THEN "check_failed" ELSE "done")
=============================================================================
