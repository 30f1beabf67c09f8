----------------------------- MODULE VectorCode -----------------------------
(***************************************************************************)
(* What the code generated for one column computes: the gathers of         *)
(* OptimizationPass::pass_(Gather), the reduction of pass_(Add) and the    *)
(* store of pass_(Scatter), with the meaning CodeGen_ gives their vector   *)
(* operations.                                                             *)
(*                                                                         *)
(* Values are symbolic.  The value of x at index i is i itself, or Garbage *)
(* when i is not an index of x.  A product is the token <<element, i>>.  A *)
(* value of y is the bag of the tokens that have been added to it, so a    *)
(* product that is lost, added twice or made with a wrong x is seen.       *)
(*                                                                         *)
(* The shape of the code is fixed by an Info, the numbers it works on come *)
(* from a stream (a transformed array) from position p on.                 *)
(***************************************************************************)
EXTENDS Bit2Addr, Bags

CONSTANTS
  XNum,             (* x has the indices 0 .. XNum - 1.                    *)
  RowNum            (* y has the locations 0 .. RowNum - 1.                *)

ASSUME SizeAssumption == XNum \in Nat \ {0} /\ RowNum \in Nat \ {0}

Row     == 0 .. RowNum - 1
Garbage == -1

(* Memory beyond an array holds anything.                                  *)
At(s, p)  == IF p \in DOMAIN s THEN s[p] ELSE Garbage
XAt(n)    == IF n \in 0 .. XNum - 1 THEN n ELSE Garbage
YAt(y, r) == IF r \in Row THEN y[r] ELSE SetToBag({Garbage})

(* The 8-bit lanes of the words of s from p on.                            *)
UnpackWords(s, p) == [l \in Lane |-> (At(s, p + l \div 4) \div 256^(l % 4)) % 256]

(* shufflevector: the lanes of v, then one lane of zeros.                  *)
ShuffleVector(v, zero, idx) ==
  [l \in Lane |-> IF idx[l] < Vector THEN v[idx[l]] ELSE zero]

(* permvar: an index counts modulo the number of lanes.                    *)
PermVar(v, idx) == [l \in Lane |-> v[idx[l] % Vector]]

AddLanes(v, w) == [l \in Lane |-> v[l] (+) w[l]]

(* Reduce: all lanes in one.                                               *)
ReduceLanes(v) == FoldFunction(LAMBDA b, c : b (+) c, EmptyBag, v)

ZeroLanes == [l \in Lane |-> EmptyBag]

-----------------------------------------------------------------------------
(* x[index[i]]: an array gathered through an index that is not scattered.  *)

OneLoad(info) == info.order = DisOrder /\ (info.mask = 1 \/ (Vector = 4 /\ info.mask # Vector))

(* Mutant: a lane that repeats an index takes the next value of the load.  *)
ExpandIndexStepping(mask) == [l \in Lane |-> l]

(* Undoes the compression: the lanes share the value of their run.         *)
ExpandIndex(mask) == [l \in Lane |-> Cardinality({m \in 1 .. l : HasBit(mask, m)})]

(* One load of neighbours, then a permutation.                             *)
GatherOneLoad(info, s, p) ==
  LET loaded == [l \in Lane |-> XAt(At(s, p) + l)]
  IN IF Vector > 4
       THEN PermVar(loaded, UnpackWords(s, p + 1))
       ELSE ShuffleVector(loaded, Garbage, [l \in Lane |-> (info.mask \div 16^l) % 16])

(* A masked load of as many neighbours as the mask has bits, spread out.   *)
GatherContinue(info, s, p) ==
  LET loaded == [l \in Lane |-> IF l \in CompressMask(info.mask)
                                  THEN XAt(At(s, p) + l) ELSE Garbage]
  IN IF PopCount(info.mask) = Vector THEN loaded
     ELSE ShuffleVector(loaded, Garbage, ExpandIndex(info.mask))

GatherX(info, s, p) ==
  IF OneLoad(info) THEN GatherOneLoad(info, s, p)
  ELSE IF info.order = IncContinue THEN GatherContinue(info, s, p)
  ELSE IF info.order = OrderEquel THEN [l \in Lane |-> XAt(At(s, p))]
  ELSE [l \in Lane |-> XAt(At(s, p + l))]

(* How far the IncAddr of the gather move the pointer to its stream.       *)
GatherAdvance(info) ==
  IF OneLoad(info) THEN (IF Vector > 4 THEN 1 + Vector \div 4 ELSE 1)
  ELSE IF info.order = DisOrder THEN Vector ELSE 1

-----------------------------------------------------------------------------
(* y[index[i]] += product: the gather of y, the reduction, the scatter.    *)

ScatterAdvance(info) == IF info.order = DisOrder THEN Vector ELSE 1

ReductionAdvance(info) ==
  IF info.order = DisOrder THEN info.mask * (Vector \div 4) ELSE 0

(* The location lane l reads and writes.                                   *)
Target(info, s, p, l) ==
  IF info.order = DisOrder THEN At(s, p + l)
  ELSE IF info.order = IncContinue THEN At(s, p) + l ELSE At(s, p)

(* The lanes that read and write y.                                        *)
ActiveLanes(info) ==
  CASE info.order = OrderEquel  -> {0}
    [] info.order = IncContinue -> CompressMask(info.mask)
    [] info.order = DisOrder    -> Lane

LoadY(info, s, p, y) ==
  [l \in Lane |-> IF l \in ActiveLanes(info) THEN YAt(y, Target(info, s, p, l))
                  ELSE SetToBag({Garbage})]

(* The tree of Bit2Addr::generate, then the sums moved together.           *)
ReduceContinue(mask, v) ==
  LET round[n \in 0 .. MaxLen(mask)] ==
        IF n = 0 THEN v
        ELSE With(round[n - 1],
                  LAMBDA w : AddLanes(ShuffleVector(w, EmptyBag, ReduceShuffle(mask, n - 1)), w))
  IN ShuffleVector(round[MaxLen(mask)], EmptyBag, CompressVec(mask))

(* One permutation from the stream for each round; a lane whose partner is *)
(* Vector adds zero (ICmpEQ, Select).                                      *)
ReduceDisorder(rounds, s, p, v) ==
  LET round[n \in 0 .. rounds] ==
        IF n = 0 THEN v
        ELSE LET perm == UnpackWords(s, p + (n - 1) * (Vector \div 4))
                 Selected(w) ==
                   [l \in Lane |-> IF perm[l] = Vector THEN EmptyBag ELSE PermVar(w, perm)[l]]
             IN With(round[n - 1], LAMBDA w : AddLanes(Selected(w), w))
  IN round[rounds]

ReduceProducts(info, s, p, v) ==
  CASE info.order = OrderEquel  -> [l \in Lane |-> ReduceLanes(v)]
    [] info.order = IncContinue -> ReduceContinue(info.mask, v)
    [] info.order = DisOrder    -> ReduceDisorder(info.mask, s, p, v)

(* Mutant: of two lanes with one location, the lower one is the last.      *)
LastWriterLowest(lanes) == Min(lanes)

(* Lanes are stored from the lowest up.                                    *)
LastWriter(lanes) == Max(lanes)

(* The store: a location keeps what the last lane that names it writes.    *)
StoreY(info, s, p, y, v) ==
  [r \in Row |->
     LET lanes == {l \in ActiveLanes(info) : Target(info, s, p, l) = r}
     IN IF lanes = {} THEN y[r] ELSE v[LastWriter(lanes)]]
=============================================================================
