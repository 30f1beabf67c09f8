----------------------------- MODULE Accumulate -----------------------------
(***************************************************************************)
(* What the program promises: the lambda of the DSL,                       *)
(*     y[row_ptr[i]] += data[i] * x[column_ptr[i]],                        *)
(* is executed once for every element i, in any order and any grouping.    *)
(* This is the scalar loop of spmv_dynvec, run over all the elements and   *)
(* without their order.                                                    *)
(*                                                                         *)
(* Addition is symbolic: a location of y holds the bag of the products     *)
(* <<i, column_ptr[i]>> that have been added to it, so a lost, a repeated  *)
(* or a misread product is seen, and the order of the additions is not.    *)
(***************************************************************************)
EXTENDS Integers, FiniteSets, Bags

CONSTANTS
  DataNum,          (* data_num: the elements of the index arrays.         *)
  RowNum,           (* The locations of y.                                 *)
  XNum              (* The indices of x.                                   *)

VARIABLES
  row_ptr,          (* Where each element is added (input).                *)
  column_ptr,       (* The index of x it reads (input).                    *)
  done,             (* The elements that have been added.                  *)
  y                 (* The output.                                         *)

accumulate_vars == <<row_ptr, column_ptr, done, y>>

Element == 0 .. DataNum - 1
Row     == 0 .. RowNum - 1

Token(e) == <<e, column_ptr[e]>>

(* The products of the elements S that go to row r.                        *)
ProductsOf(S, r) == {Token(e) : e \in {d \in S : row_ptr[d] = r}}

AccumulateInit ==
  /\ row_ptr    \in [Element -> Row]
  /\ column_ptr \in [Element -> 0 .. XNum - 1]
  /\ done = {}
  /\ y = [r \in Row |-> EmptyBag]

(* Some elements that have not been added are added, together.             *)
AddElements ==
  /\ done' \in SUBSET Element
  /\ done \subseteq done'
  /\ done' # done
  /\ y' = [r \in Row |-> y[r] (+) SetToBag(ProductsOf(done' \ done, r))]
  /\ UNCHANGED <<row_ptr, column_ptr>>

AccumulateSpec ==
  /\ AccumulateInit
  /\ [][AddElements]_accumulate_vars
  /\ WF_accumulate_vars(AddElements)
=============================================================================
