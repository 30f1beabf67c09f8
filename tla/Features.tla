------------------------------ MODULE Features ------------------------------
(***************************************************************************)
(* Feature extraction of tools_set.cpp: what one column (vector_           *)
(* consecutive elements) of an index array is summarised to.               *)
(*                                                                         *)
(* An index vector is a function on Lane.  A mask is the low half of       *)
(* Info.mask_; the order type, its high half, is a field of its own, as    *)
(* the code also has it.  index holds the entries of data_index_ the code  *)
(* sets, perm the int_data_vec_ words (four 8-bit lanes each) it sets.     *)
(***************************************************************************)
EXTENDS Integers, Sequences, FiniteSets, SequencesExt

CONSTANT Vector     (* vector_: 4, 8 or 16 lanes (configure.hpp).          *)

ASSUME VectorAssumption == Vector \in {4, 8, 16}

Lane == 0 .. Vector - 1

(* F(v); what F is given is a value, where TLC would pass on an expression *)
(* and evaluate it once for each of its uses.                              *)
With(v, F(_)) == CHOOSE r \in {F(w) : w \in {v}} : TRUE

(* OrderType: the three values get_order_type returns.                     *)
DisOrder    == 0
IncContinue == 3
OrderEquel  == 5

(* An order type and a mask as set_mask packs them.                        *)
Packed(info) == info.mask + info.order * 65536

HasBit(mask, l) == (mask \div 2^l) % 2 = 1

MaskOf(lanes) == MapThenSumSet(LAMBDA l : 2^l, lanes)

(* int_data_vec_ of a DisorderAddr whose data_vec is v: four lanes an int. *)
PackWords(v) ==
  [w \in 1 .. Vector \div 4 |->
     LET b == 4 * (w - 1)
     IN v[b] + v[b + 1] * 256 + v[b + 2] * 65536 + v[b + 3] * 16777216]

-----------------------------------------------------------------------------

(* Sixteen lanes are never IncContinue; a decreasing or a gapped column is *)
(* DisOrder.                                                               *)
OrderTypeOf(idx) ==
  LET Steps(d) == \A l \in 1 .. Vector - 1 : idx[l] - idx[l - 1] \in d
  IN IF Steps({0}) THEN OrderEquel
     ELSE IF Vector <= 8 /\ Steps({0, 1}) THEN IncContinue ELSE DisOrder

(* Mutant: the mask marks the lanes that repeat the index before them.     *)
ChangeMaskInverted(idx) ==
  MaskOf({l \in Lane : l = 0 \/ idx[l] = idx[l - 1]})

(* get_mask: the lanes at which the index changes, and lane 0.             *)
ChangeMask(idx) == MaskOf({l \in Lane : l = 0 \/ idx[l] # idx[l - 1]})

(* The two order types that need one index and a mask, in every Info.      *)
OrderedInfo(idx, order) ==
  [order |-> order,
   mask  |-> IF order = OrderEquel THEN 1 ELSE ChangeMask(idx),
   index |-> <<idx[0]>>,
   perm  |-> <<>>]

Listed(idx) == [n \in 1 .. Vector |-> idx[n - 1]]

ScatterInfo(idx) ==
  LET order == OrderTypeOf(idx)
  IN IF order = DisOrder
       THEN [order |-> DisOrder, mask |-> Vector, index |-> Listed(idx), perm |-> <<>>]
       ELSE OrderedInfo(idx, order)

(* One contiguous load from the smallest index brings every lane: the      *)
(* loop over column_block ends after one round (LOAD_TO_GATHER_LEVEL).     *)
OneLoadReaches(idx, min) == \A l \in Lane : idx[l] < min + Vector

(* With eight or more lanes the permutation is data; with four it is       *)
(* packed into the mask, a nibble for each lane.                           *)
GatherDisorderInfo(idx) ==
  LET min  == CHOOSE m \in {idx[l] : l \in Lane} : \A l \in Lane : m <= idx[l]
      from == [l \in Lane |-> idx[l] - min]
      nibbles == MapThenSumSet(LAMBDA l : from[l] * 16^l, Lane)
  IN IF OneLoadReaches(idx, min)
       THEN [order |-> DisOrder,
             mask  |-> IF Vector > 4 THEN 1 ELSE nibbles,
             index |-> <<min>>,
             perm  |-> IF Vector > 4 THEN PackWords(from) ELSE <<>>]
       ELSE [order |-> DisOrder, mask |-> Vector, index |-> Listed(idx), perm |-> <<>>]

GatherInfo(idx) ==
  LET order == OrderTypeOf(idx)
  IN IF order = DisOrder THEN GatherDisorderInfo(idx) ELSE OrderedInfo(idx, order)

-----------------------------------------------------------------------------
(* Reduction of a column whose rows are in disorder: in each round every   *)
(* lane that is still live, from the top down, takes over the nearest live *)
(* lane below it with the same index.                                      *)

SameIndex(idx, l) == {m \in Lane : idx[m] = idx[l]}

(* reduce_num[max_len - 1]: rounds for the largest group.                  *)
RoundTable == <<0, 1, 2, 2, 3, 3, 3, 3, 4, 4, 4, 4, 4, 4, 4, 4>>

RoundsNeeded(idx) ==
  RoundTable[Max({Cardinality(SameIndex(idx, l)) : l \in Lane})]

(* One round, from the top lane down: of the lanes of one index that no    *)
(* round has taken over (has_reduce is not set) the first takes over the   *)
(* second, the third the fourth; Vector stands for no lane.                *)
ReductionRound(idx, reduced) ==
  [l \in Lane |->
     LET live  == SameIndex(idx, l) \ reduced
         below == {m \in live : m < l}
     IN IF l \in live /\ below # {} /\ Cardinality({m \in live : m > l}) % 2 = 0
          THEN Max(below) ELSE Vector]

TakenOver(shuffle) == {shuffle[l] : l \in Lane} \ {Vector}

(* Mutant: has_reduce is forgotten from one round to the next.             *)
ReductionRoundsForgetful(idx) ==
  [n \in 1 .. RoundsNeeded(idx) |-> ReductionRound(idx, {})]

ReductionRounds(idx) ==
  LET reduced[n \in 0 .. RoundsNeeded(idx)] ==
        IF n = 0 THEN {}
        ELSE With(reduced[n - 1],
                  LAMBDA r : r \cup TakenOver(ReductionRound(idx, r)))
  IN [n \in 1 .. RoundsNeeded(idx) |->
        With(reduced[n - 1], LAMBDA r : ReductionRound(idx, r))]

(* Four lanes have no code for a reduction in disorder: LOG(FATAL).        *)
ReductionUnsupported(idx) == Vector = 4 /\ OrderTypeOf(idx) = DisOrder

ReductionInfo(idx) ==
  LET order == OrderTypeOf(idx)
      Words(rounds) == FlattenSeq([n \in DOMAIN rounds |-> PackWords(rounds[n])])
  IN IF order = DisOrder
       THEN [order |-> DisOrder,
             mask  |-> RoundsNeeded(idx),
             perm  |-> With(ReductionRounds(idx), Words)]
       ELSE [order |-> order, mask |-> ScatterInfo(idx).mask, perm |-> <<>>]
=============================================================================
