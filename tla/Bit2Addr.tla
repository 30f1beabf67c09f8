------------------------------ MODULE Bit2Addr ------------------------------
(***************************************************************************)
(* bit2addr.cpp: shuffle tables for a column whose rows only stay or step  *)
(* by one.  The bits of the mask are the first lanes of its runs of equal  *)
(* rows; generate gives the rounds that add each run up into its first     *)
(* lane, generate_compress the shuffle that moves those lanes together.    *)
(***************************************************************************)
EXTENDS Features

RunStarts(mask) == {0} \cup {l \in Lane : HasBit(mask, l)}

(* The lane after the last one of the run that begins at b.                *)
RunEnd(mask, b) == Min({l \in RunStarts(mask) : l > b} \cup {Vector})

RunLen(mask, b) == RunEnd(mask, b) - b

Longest(mask) == Max({RunLen(mask, b) : b \in RunStarts(mask)})

(* get_max_len: the number of times len - 1 can be halved before it is 0.  *)
MaxLen(mask) == Min({r \in 0 .. 4 : (Longest(mask) - 1) \div 2^r = 0})

(* Mutant: a partner beyond the run is not replaced by the zero lane.      *)
PartnerUnchecked(mask, b, k, round) == b + k + 2^round

(* The lane that is added to lane b + k of the run that begins at b, which *)
(* has each_num + 1 lanes; Vector names a lane of zeros.                   *)
Partner(mask, b, k, round) ==
  LET each_num == RunLen(mask, b) - 1
  IN IF k + 2^round > each_num THEN Vector ELSE b + k + 2^round

(* Round 0, 1, ... of generate: a tree over every run, in steps of space.  *)
ReduceShuffle(mask, round) ==
  LET space == 2^(round + 1)
      Begin(l) == Max({b \in RunStarts(mask) : b <= l})
  IN [l \in Lane |->
        LET k == l - Begin(l)
        IN IF k % space = 0 /\ k < RunLen(mask, Begin(l)) - 1
             THEN Partner(mask, Begin(l), k, round)
             ELSE Vector]

PopCount(mask) == Cardinality({l \in Lane : HasBit(mask, l)})

(* compress_vec: the lanes whose bit is set, in order, then Vector.        *)
CompressVec(mask) ==
  LET set == {l \in Lane : HasBit(mask, l)}
      Nth(n) == CHOOSE l \in set : Cardinality({m \in set : m < l}) = n
  IN [n \in Lane |-> IF n < Cardinality(set) THEN Nth(n) ELSE Vector]

(* mask_ of CompressAddr: as many low lanes as bits.                       *)
CompressMask(mask) == {l \in Lane : l < PopCount(mask)}
=============================================================================
