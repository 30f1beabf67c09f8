---------------------------- MODULE HashCombine ----------------------------
(***************************************************************************)
(* The key of the feature table: get_feature_hash folds the masks of a     *)
(* column into one size_t with HashCombine.  The table compares keys, not  *)
(* masks, so it is only right about features with different keys.          *)
(*                                                                         *)
(* A size_t is four limbs of 16 bits, the lowest first.                    *)
(***************************************************************************)
EXTENDS Features, Bitwise

Limb == 65536

(* A 32-bit value that is not negative, as a size_t.                       *)
SizeT(n) == <<n % Limb, n \div Limb, 0, 0>>

(* a + b modulo 2^64.                                                      *)
Plus(a, b) ==
  LET carry[i \in 0 .. 4] == IF i = 0 THEN 0 ELSE (a[i] + b[i] + carry[i - 1]) \div Limb
  IN [i \in 1 .. 4 |-> (a[i] + b[i] + carry[i - 1]) % Limb]

ShiftLeft6(a) ==
  [i \in 1 .. 4 |-> ((a[i] * 64) % Limb) + (IF i = 1 THEN 0 ELSE a[i - 1] \div 1024)]

ShiftRight2(a) ==
  [i \in 1 .. 4 |-> a[i] \div 4 + (IF i = 4 THEN 0 ELSE (a[i + 1] % 4) * 16384)]

XorLimbs(a, b) == [i \in 1 .. 4 |-> a[i] ^^ b[i]]

(* 0x9e3779b9                                                              *)
GoldenRatio == <<31161, 40503, 0, 0>>

(* Mutant: the key is not shifted before it is added.                      *)
HashCombineUnshifted(key, value) == XorLimbs(key, Plus(SizeT(value), GoldenRatio))

(* std::hash of an int is the int.                                         *)
HashCombine(key, value) ==
  With(key, LAMBDA k :
    XorLimbs(k, Plus(Plus(SizeT(value), GoldenRatio), Plus(ShiftLeft6(k), ShiftRight2(k)))))

(* gather_map in the order of its names, "column_ptr" and "row_ptr", then  *)
(* the scatter and the reduction of "row_ptr".                             *)
FeatureKey(masks) ==
  FoldLeft(HashCombine, SizeT(0), <<masks[1], masks[2], masks[2], masks[3]>>)
=============================================================================
