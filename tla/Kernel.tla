------------------------------- MODULE Kernel -------------------------------
(***************************************************************************)
(* The function the JIT returns, as optimization_state generates it: one   *)
(* loop for each bucket of the feature table, one doubly nested loop for   *)
(* each bucket of ranges, and after it the scalar loop of the caller for   *)
(* the elements that fill no vector.  Every loop takes its indices from    *)
(* the transformed arrays through pointers that only move forward.         *)
(***************************************************************************)
EXTENDS VectorCode

CONSTANT DataNum          (* data_num: elements of the index arrays.       *)

VARIABLES
  row_ptr, column_ptr,    (* The index arrays (input).                     *)
  stream,                 (* The transformed arrays (input).               *)
  code,                   (* The loops, in order.                          *)
  range_num,              (* same_feature_range_map_ptr: sizes of ranges.  *)
  block,                  (* The loop that runs.                           *)
  done_iters,             (* Iterations of it that are over.               *)
  pointer,                (* Elements taken from every array.              *)
  range_pointer,          (* Sizes taken from range_num.                   *)
  inner,                  (* The range that runs: its size, the columns of *)
                          (* it taken, reduce_var, where its scatter entry *)
                          (* is and what was read from y; or NoRange.      *)
  executed,               (* Columns run, over all loops.                  *)
  tail,                   (* Next element of the scalar loop.              *)
  y                       (* The output array.                             *)

kernel_inputs == <<row_ptr, column_ptr, stream, code, range_num>>
kernel_vars == <<kernel_inputs, block, done_iters, pointer, range_pointer,
                 inner, executed, tail, y>>

TableColumnNum == DataNum \div Vector
NoRange == [size |-> -1]

(* A loop: the Infos its shape is made from, and its circle_num_.          *)
Loop(ranges, g, s, r, circle_num) ==
  [ranges |-> ranges, gather |-> g, scatter |-> s, reduction |-> r, circle_num |-> circle_num]

Current == code[block]
InLoop(ranges) ==
  /\ block <= Len(code)
  /\ inner = NoRange
  /\ Current.ranges = ranges
  /\ done_iters < Current.circle_num

(* The products of the column the pointers stand at.                       *)
Products ==
  With(GatherX(Current.gather, stream["gather"], pointer["gather"] + 1),
       LAMBDA x : [l \in Lane |->
                     SetToBag({<<At(stream["data"], pointer["data"] + 1 + l), x[l]>>})])

(* What the location of the scatter entry at position p holds.             *)
Loaded(p) == LoadY(Current.scatter, stream["scatter"], p, y)

(* y after the products, reduced, are added to what was loaded and stored. *)
Accumulated(p, loaded, products) ==
  With(ReduceProducts(Current.reduction, stream["reduction"],
                      pointer["reduction"] + 1, products),
       LAMBDA sums : StoreY(Current.scatter, stream["scatter"], p, y, AddLanes(loaded, sums)))

ScatterEntry == pointer["scatter"] + 1

-----------------------------------------------------------------------------

(* Mutant: data_num is rounded up to whole vectors.                        *)
ScalarStartRoundedUp == ((DataNum + Vector - 1) \div Vector) * Vector

(* Where the scalar loop of spmv_dynvec begins.                            *)
ScalarStart == TableColumnNum * Vector

KernelStart ==
  /\ block = 1
  /\ done_iters = 0
  /\ pointer = [n \in {"data", "scatter", "reduction", "gather"} |-> 0]
  /\ range_pointer = 0
  /\ inner = NoRange
  /\ executed = 0
  /\ tail = ScalarStart
  /\ y = [r \in Row |-> EmptyBag]

(* Mutant: the loop does not move the pointer to the permutations.         *)
AdvancedBucketStuck(p) ==
  [p EXCEPT !["data"] = @ + Vector, !["gather"] = @ + GatherAdvance(Current.gather),
            !["scatter"] = @ + ScatterAdvance(Current.scatter)]

(* Where one iteration of a bucket's loop leaves the pointers.             *)
AdvancedBucket(p) ==
  [p EXCEPT !["data"] = @ + Vector, !["gather"] = @ + GatherAdvance(Current.gather),
            !["scatter"] = @ + ScatterAdvance(Current.scatter),
            !["reduction"] = @ + ReductionAdvance(Current.reduction)]

(* One iteration of a bucket's loop.                                       *)
RunColumn ==
  /\ InLoop(FALSE)
  /\ y' = Accumulated(ScatterEntry, Loaded(ScatterEntry), Products)
  /\ pointer' = AdvancedBucket(pointer)
  /\ done_iters' = done_iters + 1
  /\ executed' = executed + 1
  /\ UNCHANGED <<kernel_inputs, block, range_pointer, inner, tail>>

(* An iteration of a range loop begins: the size and y are read, and       *)
(* reduce_var is zero.                                                     *)
BeginRange ==
  /\ InLoop(TRUE)
  /\ inner' = [size |-> At(range_num, range_pointer + 1), taken |-> 0,
               reduce_var |-> ZeroLanes, entry |-> ScatterEntry,
               loaded |-> Loaded(ScatterEntry)]
  /\ range_pointer' = range_pointer + 1
  /\ pointer' = [pointer EXCEPT !["scatter"] = @ + ScatterAdvance(Current.scatter)]
  /\ UNCHANGED <<kernel_inputs, block, done_iters, executed, tail, y>>

(* Mutant: the inner loop takes a scatter entry for every column.          *)
AdvancedInnerScatter(p) ==
  [p EXCEPT !["data"] = @ + Vector, !["gather"] = @ + GatherAdvance(Current.gather),
            !["scatter"] = @ + ScatterAdvance(Current.scatter)]

(* Where one inner iteration leaves the pointers.                          *)
AdvancedInner(p) ==
  [p EXCEPT !["data"] = @ + Vector, !["gather"] = @ + GatherAdvance(Current.gather)]

(* One column of the range: its products go to reduce_var, lane by lane.   *)
RunRangeColumn ==
  /\ inner # NoRange
  /\ inner.taken < inner.size
  /\ inner' = [inner EXCEPT !.taken = @ + 1, !.reduce_var = AddLanes(@, Products)]
  /\ pointer' = AdvancedInner(pointer)
  /\ executed' = executed + 1
  /\ UNCHANGED <<kernel_inputs, block, done_iters, range_pointer, tail, y>>

(* The range is over: reduce_var is reduced, added and stored.             *)
EndRange ==
  /\ inner # NoRange
  /\ inner.taken >= inner.size
  /\ y' = Accumulated(inner.entry, inner.loaded, inner.reduce_var)
  /\ pointer' = [pointer EXCEPT !["reduction"] = @ + ReductionAdvance(Current.reduction)]
  /\ inner' = NoRange
  /\ done_iters' = done_iters + 1
  /\ UNCHANGED <<kernel_inputs, block, range_pointer, executed, tail>>

(* The loop of the block is over.                                          *)
NextLoop ==
  /\ block <= Len(code)
  /\ done_iters >= Current.circle_num
  /\ block' = block + 1
  /\ done_iters' = 0
  /\ UNCHANGED <<kernel_inputs, pointer, range_pointer, inner, executed, tail, y>>

(* One iteration of the scalar loop of spmv_dynvec.                        *)
RunScalar ==
  /\ block > Len(code)
  /\ tail < DataNum
  /\ y' = [y EXCEPT ![row_ptr[tail]] = @ (+) SetToBag({<<tail, column_ptr[tail]>>})]
  /\ tail' = tail + 1
  /\ UNCHANGED <<kernel_inputs, block, done_iters, pointer, range_pointer, inner, executed>>

KernelNext ==
  RunColumn \/ BeginRange \/ RunRangeColumn \/ EndRange \/ NextLoop \/ RunScalar

KernelDone == block > Len(code) /\ tail >= DataNum
=============================================================================
