------------------------------ MODULE MCDynVec ------------------------------
(***************************************************************************)
(* Inputs for the runs of DynVec: index arrays put together from one       *)
(* vector of indices for each column, and zeros behind the last column.    *)
(***************************************************************************)
EXTENDS DynVec

(* The masks themselves as key: a hash without collisions.                 *)
MasksAsKey(masks) == masks

Array(c) ==
  [e \in 0 .. DataNum - 1 |->
     IF e \div Vector < TableColumnNum THEN c[e \div Vector][e % Vector] ELSE 0]

Arrays(vectors) == {Array(c) : c \in [0 .. TableColumnNum - 1 -> vectors]}

(* A vector given as a sequence; one that starts at b and adds up steps;   *)
(* and l |-> (a * l + b * l * l) % m.                                      *)
Vec(s)         == [l \in Lane |-> s[l + 1]]
Walk(b, steps) == [l \in Lane |-> b + Cardinality({m \in 1 .. l : steps[m] = 1})]
Mixed(a, b, m) == [l \in Lane |-> (a * l + b * l * l) % m]

Walks(bs)    == {Walk(b, s) : b \in bs, s \in [1 .. Vector - 1 -> {0, 1}]}
Fits(vs, n)  == {v \in vs : \A l \in Lane : v[l] < n}
AllMixed(ms) == {Mixed(a, b, m) : a \in 0 .. 3, b \in 0 .. 3, m \in ms}

-----------------------------------------------------------------------------
(* One column of four lanes: every vector of indices below 5 to gather;    *)
(* every supported vector of rows below 3, and one that is not.            *)
OneColumn4 ==
  Arrays(Fits(Walks(0 .. 2), 3) \cup {Vec(<<0, 2, 2, 1>>)}) \X Arrays([Lane -> 0 .. 4])

(* One column of eight lanes: every vector of two rows, every walk and a   *)
(* family of vectors in disorder, against a few of the other array.        *)
OneColumn8 ==
  LET FewRows    == {Walk(0, <<0, 0, 1, 1, 0, 1, 0>>), Mixed(3, 1, 4)}
      FewColumns == {Walk(2, <<0, 1, 0, 1, 1, 0, 1>>), Mixed(3, 1, 11), Mixed(5, 2, 7)}
  IN (Arrays([Lane -> {0, 1}] \cup Walks({0}) \cup AllMixed(3 .. 8)) \X Arrays(FewColumns))
       \cup (Arrays(FewRows) \X Arrays(Walks({0, 1}) \cup AllMixed(2 .. 12)))

(* One column of sixteen lanes.                                            *)
OneColumn16 ==
  LET FewRows    == {Mixed(0, 0, 2), Mixed(3, 1, 6)}
      FewColumns == {Mixed(1, 0, 16), Mixed(3, 1, 18)}
  IN (Arrays(AllMixed({2, 3, 5, 16})) \X Arrays(FewColumns))
       \cup (Arrays(FewRows) \X Arrays(AllMixed({3, 7, 12, 17, 18})))

-----------------------------------------------------------------------------
(* Several columns of four lanes, drawn from kinds of vectors: neighbours  *)
(* (IncContinue), one load permuted and far apart (DisOrder) to gather;    *)
(* two that write one location and one that does not to scatter.           *)
Kinds4 ==
  Arrays({Vec(<<0, 0, 0, 0>>), Vec(<<1, 1, 1, 1>>), Vec(<<0, 1, 1, 2>>)})
    \X Arrays({Vec(<<1, 2, 2, 3>>), Vec(<<2, 0, 3, 0>>), Vec(<<5, 0, 1, 0>>)})

(* Columns that write one location: ranges, alone and several in one       *)
(* bucket, and buckets that give up all their columns; and columns that    *)
(* end the program, rows in disorder of any type and the second gather of  *)
(* float lanes, among the others.                                          *)
Ranges4 ==
  Arrays({Vec(<<0, 0, 0, 0>>), Vec(<<1, 1, 1, 1>>), Vec(<<0, 1, 0, 1>>)})
    \X Arrays({Vec(<<1, 2, 2, 3>>), Vec(<<2, 0, 3, 0>>)})

(* Two columns of eight lanes: rows in disorder, all different or in       *)
(* pairs, which take different numbers of rounds and permutations; one row;*)
(* and rows in order.                                                      *)
Kinds8 ==
  Arrays({Mixed(3, 0, 8), Mixed(1, 0, 4), Mixed(0, 0, 2), Walk(0, <<0, 0, 1, 1, 0, 1, 0>>)})
    \X Arrays({Mixed(1, 0, 8), Mixed(1, 0, 5), Mixed(5, 2, 11), Mixed(7, 0, 8)})
=============================================================================
