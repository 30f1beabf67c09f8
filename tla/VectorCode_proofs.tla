-------------------------- MODULE VectorCode_proofs --------------------------
(***************************************************************************)
(* Proofs about the operators of Features, Bit2Addr and VectorCode: that   *)
(* what extract_feature makes of a column of an index array and the code   *)
(* generated for it agree.  For every column, the gather brings the values *)
(* of x the lambda names, and the reduction and the store add to each      *)
(* location of y the products that go to it, each once.                    *)
(***************************************************************************)
EXTENDS VectorCode, FiniteSetTheorems, SequenceTheorems, WellFoundedInduction, TLAPS

(* The least of some naturals.                                             *)
LEMMA LeastNat ==
  ASSUME NEW T \in SUBSET Nat, T # {}
  PROVE  \E m \in T : \A n \in T : m <= n
<1>1. PICK m \in T : \A n \in T : ~ (<<n, m>> \in OpToRel(<, Nat))
  <2>1. T \subseteq Nat
    OBVIOUS
  <2> QED BY <2>1, NatLessThanWellFounded, WFMin
<1>2. ASSUME NEW n \in T, n < m PROVE FALSE
  <2>1. n \in Nat /\ m \in Nat /\ n < m
    BY <1>2
  <2>2. <<n, m>> \in OpToRel(<, Nat)
    BY <2>1 DEF OpToRel
  <2> QED BY <1>1, <2>2
<1>3. \A n \in T : n \in Nat /\ m \in Nat
  OBVIOUS
<1> QED BY <1>2, <1>3

-----------------------------------------------------------------------------
(* Sums.  The sum of g over a finite set is the size of the set that has   *)
(* g[x] elements for each x.                                               *)

Stack(g, s)  == {p \in s \X Nat : 1 <= p[2] /\ p[2] <= g[p[1]]}
Weight(g, s) == Cardinality(Stack(g, s))

(* Which element the sum of the library takes next.                        *)
Pick(s) == CHOOSE x \in s : TRUE

(* It is one of the set.                                                   *)
LEMMA PickIn ==
  ASSUME NEW s, s # {}
  PROVE  Pick(s) \in s
BY DEF Pick

(* How many elements x has.                                                *)
LEMMA StackOfOne ==
  ASSUME NEW x, NEW g, g[x] \in Nat
  PROVE  IsFiniteSet(Stack(g, {x})) /\ Weight(g, {x}) = g[x]
<1> DEFINE n   == g[x]
           one == {x}
           up  == 1 .. n
<1>1. Stack(g, {x}) = one \X up /\ n \in Nat
  BY DEF Stack
<1>2. IsFiniteSet(one) /\ Cardinality(one) = 1
  BY FS_Singleton
<1>3. IsFiniteSet(up) /\ Cardinality(up) = n
  <2> HIDE DEF n
  <2>1. 1 \in Int /\ n \in Int
    BY <1>1
  <2>2. IsFiniteSet(1 .. n) /\ Cardinality(1 .. n) = IF 1 > n THEN 0 ELSE n - 1 + 1
    BY ONLY <2>1, FS_Interval
  <2>3. (IF 1 > n THEN 0 ELSE n - 1 + 1) = n
    BY ONLY <1>1
  <2> QED BY ONLY <2>2, <2>3
<1> HIDE DEF n, one, up
<1>4. IsFiniteSet(one \X up) /\ Cardinality(one \X up) = Cardinality(one) * Cardinality(up)
  BY ONLY <1>2, <1>3, FS_Product
<1>5. Cardinality(one) * Cardinality(up) = n
  BY ONLY <1>1, <1>2, <1>3
<1>6. Weight(g, {x}) = Cardinality(one \X up)
  BY <1>1 DEF Weight
<1> QED BY <1>1, <1>4, <1>5, <1>6 DEF n

(* The stacks of finitely many are finite.                                 *)
LEMMA StackFinite ==
  ASSUME NEW s, IsFiniteSet(s), NEW g, \A x \in s : g[x] \in Nat
  PROVE  IsFiniteSet(Stack(g, s)) /\ Weight(g, s) \in Nat
<1>1. IsFiniteSet({Stack(g, {x}) : x \in s})
  <2> DEFINE T == {Stack(g, {x}) : x \in s}
             f == [x \in s |-> Stack(g, {x})]
  <2>1. f \in [s -> T] /\ \A t \in T : \E x \in s : f[x] = t
    OBVIOUS
  <2>2. f \in Surjection(s, T)
    BY <2>1 DEF Surjection
  <2> QED BY <2>2, FS_Surjection
<1>2. ASSUME NEW T \in {Stack(g, {x}) : x \in s} PROVE IsFiniteSet(T)
  <2>1. PICK x \in s : T = Stack(g, {x})
    OBVIOUS
  <2> QED BY <2>1, StackOfOne
<1>3. IsFiniteSet(UNION {Stack(g, {x}) : x \in s})
  BY <1>1, <1>2, FS_UNION
<1>4. Stack(g, s) \subseteq UNION {Stack(g, {x}) : x \in s}
  BY DEF Stack
<1>5. IsFiniteSet(Stack(g, s))
  BY <1>3, <1>4, FS_Subset
<1> QED BY <1>5, FS_CardinalityType DEF Weight

(* One more element adds what it has.                                      *)
LEMMA StackMore ==
  ASSUME NEW s, IsFiniteSet(s), NEW x, x \notin s, NEW g, \A z \in s \cup {x} : g[z] \in Nat
  PROVE  Weight(g, s \cup {x}) = Weight(g, s) + g[x]
<1> DEFINE A == Stack(g, s)
           B == Stack(g, {x})
<1>1. Stack(g, s \cup {x}) = A \cup B /\ A \cap B = {}
  BY DEF Stack
<1>2. IsFiniteSet(A) /\ IsFiniteSet(B) /\ Cardinality(B) = g[x]
  BY StackFinite, StackOfOne DEF Weight
<1>3. Weight(g, s) = Cardinality(A) /\ Weight(g, s \cup {x}) = Cardinality(A \cup B)
  BY <1>1 DEF Weight
<1> HIDE DEF A, B
<1>4. Cardinality(A \cup B) = Cardinality(A) + Cardinality(B) - Cardinality(A \cap B)
  BY <1>2, FS_Union
<1>5. Cardinality(A \cap B) = 0 /\ Cardinality(A) \in Nat /\ g[x] \in Nat
  BY <1>1, <1>2, FS_EmptySet, FS_CardinalityType
<1> QED BY <1>2, <1>3, <1>4, <1>5

(* Nothing has no elements.                                                *)
LEMMA StackNone == \A g : Weight(g, {}) = 0
<1> TAKE g
<1>1. Stack(g, {}) = {}
  BY DEF Stack
<1> QED BY <1>1, FS_EmptySet DEF Weight

(* More has no less elements.                                              *)
LEMMA StackGrows ==
  ASSUME NEW s, IsFiniteSet(s), NEW t \in SUBSET s, NEW g, \A x \in s : g[x] \in Nat
  PROVE  Weight(g, t) <= Weight(g, s)
<1>1. Stack(g, t) \subseteq Stack(g, s)
  BY DEF Stack
<1>2. IsFiniteSet(Stack(g, s))
  BY StackFinite
<1> QED BY <1>1, <1>2, FS_Subset DEF Weight

(* One of the elements is not more than all.                               *)
LEMMA StackHas ==
  ASSUME NEW s, IsFiniteSet(s), NEW g, \A x \in s : g[x] \in Nat, NEW x \in s
  PROVE  g[x] <= Weight(g, s)
<1>1. {x} \in SUBSET s
  OBVIOUS
<1> QED BY <1>1, StackOfOne, StackGrows

(* If each element has at most n, all have at most n times their number.   *)
LEMMA StackBounded ==
  ASSUME NEW s, IsFiniteSet(s), NEW g, NEW n \in Nat, \A x \in s : g[x] \in Nat /\ g[x] <= n
  PROVE  Weight(g, s) <= Cardinality(s) * n
<1>1. IsFiniteSet(1 .. n) /\ Cardinality(1 .. n) = n
  <2>1. 1 \in Int /\ n \in Int /\ (~ (1 > n) => n - 1 + 1 = n) /\ (1 > n => n = 0)
    OBVIOUS
  <2> QED BY <2>1, FS_Interval
<1>2. IsFiniteSet(s \X (1 .. n)) /\ Cardinality(s \X (1 .. n)) = Cardinality(s) * n
  BY <1>1, FS_Product
<1>3. Stack(g, s) \subseteq s \X (1 .. n)
  BY DEF Stack
<1> QED BY <1>2, <1>3, FS_Subset DEF Weight

(* The recursion of MapThenSumSet, of f as a function.                     *)
SumsUp(iter, g, S) ==
  iter = [s \in SUBSET S |-> IF s = {} THEN 0 ELSE g[Pick(s)] + iter[s \ {Pick(s)}]]

(* It has a solution.                                                      *)
LEMMA SumExists ==
  ASSUME NEW S, IsFiniteSet(S), NEW g, \A x \in S : g[x] \in Nat
  PROVE  SumsUp([s \in SUBSET S |-> Weight(g, s)], g, S)
<1> DEFINE w == [s \in SUBSET S |-> Weight(g, s)]
<1>1. ASSUME NEW s \in SUBSET S, s # {}
      PROVE  w[s] = g[Pick(s)] + w[s \ {Pick(s)}]
  <2> DEFINE x == Pick(s)
             t == s \ {x}
  <2>1. x \in s /\ t \in SUBSET S /\ x \notin t /\ t \cup {x} = s
    BY <1>1, PickIn
  <2> HIDE DEF x, t
  <2>2. IsFiniteSet(t)
    BY <2>1, FS_Subset
  <2>3. \A z \in t \cup {x} : g[z] \in Nat
    BY <2>1
  <2>4. Weight(g, s) = Weight(g, t) + g[x]
    BY <2>1, <2>2, <2>3, StackMore
  <2>5. Weight(g, t) \in Nat /\ g[x] \in Nat
    BY <2>1, <2>2, <2>3, StackFinite
  <2>6. w[s] = Weight(g, s) /\ w[t] = Weight(g, t)
    BY <2>1
  <2> HIDE DEF w
  <2>7. w[s] = g[x] + w[t]
    BY <2>4, <2>5, <2>6
  <2> QED BY <2>7 DEF x, t
<1>2. w[{}] = 0
  BY StackNone
<1>3. w = [s \in SUBSET S |-> IF s = {} THEN 0 ELSE g[Pick(s)] + w[s \ {Pick(s)}]]
  BY <1>1, <1>2
<1> QED BY <1>3 DEF SumsUp

(* It has no other.                                                        *)
LEMMA SumIsWeight ==
  ASSUME NEW S, IsFiniteSet(S), NEW g, \A x \in S : g[x] \in Nat,
         NEW iter, SumsUp(iter, g, S)
  PROVE  \A s \in SUBSET S : iter[s] = Weight(g, s)
<1> DEFINE Wrong == {s \in SUBSET S : iter[s] # Weight(g, s)}
           Sizes == {n \in Nat : \E s \in Wrong : Cardinality(s) = n}
<1> SUFFICES ASSUME Wrong # {} PROVE FALSE
  OBVIOUS
<1>1. \A s \in SUBSET S : IsFiniteSet(s) /\ Cardinality(s) \in Nat
  BY FS_Subset, FS_CardinalityType
<1>2. PICK n \in Sizes : \A m \in Sizes : n <= m
  <2>1. Sizes \in SUBSET Nat /\ Sizes # {}
    BY <1>1
  <2> HIDE DEF Sizes
  <2> QED BY <2>1, LeastNat
<1>3. PICK s \in Wrong : Cardinality(s) = n
  OBVIOUS
<1>4. s \in SUBSET S /\ iter[s] # Weight(g, s) /\ n \in Nat
  OBVIOUS
<1>5. iter[s] = IF s = {} THEN 0 ELSE g[Pick(s)] + iter[s \ {Pick(s)}]
  BY <1>4 DEF SumsUp
<1>6. s # {}
  BY <1>4, <1>5, StackNone
<1> DEFINE x == Pick(s)
           t == s \ {x}
<1>7. x \in s /\ t \in SUBSET S /\ x \notin t /\ t \cup {x} = s
  BY <1>4, <1>6, PickIn
<1>8. iter[s] = g[x] + iter[t]
  BY <1>5, <1>6
<1> HIDE DEF x, t
<1>9. Cardinality(t) = n - 1
  <2>1. s \ {x} = t
    BY <1>7
  <2> QED BY <1>1, <1>3, <1>4, <1>7, <2>1, FS_RemoveElement
<1>10. iter[t] = Weight(g, t)
  <2>1. Cardinality(t) \in Nat /\ Cardinality(t) < n
    BY <1>1, <1>4, <1>7, <1>9
  <2>2. Cardinality(t) \notin Sizes
    BY <1>2, <1>4, <2>1
  <2> QED BY <1>7, <2>1, <2>2
<1>11. \A z \in t \cup {x} : g[z] \in Nat
  BY <1>4, <1>7
<1>12. Weight(g, s) = Weight(g, t) + g[x]
  BY <1>1, <1>7, <1>11, StackMore
<1>13. Weight(g, t) \in Nat /\ g[x] \in Nat
  BY <1>1, <1>7, <1>11, StackFinite
<1> QED BY <1>4, <1>8, <1>10, <1>12, <1>13

(* Concatenations.  FlattenSeq recurses over the prefixes of a sequence of *)
(* sequences.                                                              *)
Flattens(f, ss, n) == f = [i \in 1 .. n |-> IF i = 1 THEN ss[i] ELSE f[i - 1] \o ss[i]]

(* The recursion has a solution.                                           *)
LEMMA FlattenExists == ASSUME NEW ss, NEW n \in Nat PROVE \E f : Flattens(f, ss, n)
<1> DEFINE Without == {m \in Nat : ~ \E f : Flattens(f, ss, m)}
<1> SUFFICES ASSUME Without # {} PROVE FALSE
  OBVIOUS
<1>1. PICK m \in Without : \A k \in Without : m <= k
  <2>1. Without \in SUBSET Nat
    OBVIOUS
  <2> HIDE DEF Without
  <2> QED BY <2>1, LeastNat
<1>2. m \in Nat /\ ~ \E f : Flattens(f, ss, m)
  OBVIOUS
<1>3. m # 0
  <2>1. 1 .. 0 = {}
    OBVIOUS
  <2>2. Flattens([i \in {} |-> 0], ss, 0)
    BY <2>1 DEF Flattens
  <2> QED BY <1>2, <2>2
<1>4. m - 1 \in Nat /\ m - 1 < m
  BY <1>2, <1>3
<1>5. PICK f : Flattens(f, ss, m - 1)
  <2>1. m - 1 \notin Without
    BY <1>1, <1>2, <1>4
  <2> QED BY <1>4, <2>1
<1> DEFINE g == [i \in 1 .. m |-> IF i < m THEN f[i] ELSE IF m = 1 THEN ss[m] ELSE f[m - 1] \o ss[m]]
<1>6. ASSUME NEW i \in 1 .. m PROVE g[i] = IF i = 1 THEN ss[i] ELSE g[i - 1] \o ss[i]
  <2>1. CASE i = m
    <3>1. m # 1 => m - 1 \in 1 .. m /\ m - 1 < m
      BY <1>2, <1>3
    <3>2. m # 1 => g[m - 1] = f[m - 1]
      BY <3>1
    <3> QED BY <1>2, <2>1, <3>2
  <2>2. CASE i # m
    <3>1. i \in 1 .. m - 1 /\ i < m /\ (i # 1 => i - 1 \in 1 .. m /\ i - 1 < m)
      BY <1>2, <2>2
    <3>2. g[i] = f[i] /\ (i # 1 => g[i - 1] = f[i - 1])
      BY <3>1
    <3>3. f[i] = IF i = 1 THEN ss[i] ELSE f[i - 1] \o ss[i]
      BY <1>5, <3>1 DEF Flattens
    <3> QED BY <3>2, <3>3
  <2> QED BY <2>1, <2>2
<1>7. Flattens(g, ss, m)
  BY <1>6 DEF Flattens
<1> QED BY <1>2, <1>7

(* No element of the sequences is another one.                             *)
Apart(ss) ==
  \A k, l \in 1 .. Len(ss) : \A i \in 1 .. Len(ss[k]) : \A j \in 1 .. Len(ss[l]) :
    ss[k][i] = ss[l][j] => k = l /\ i = j

Once(s) == \A i, j \in 1 .. Len(s) : s[i] = s[j] => i = j

(* s holds elements of the first n sequences only.                         *)
FromFirst(s, ss, n) ==
  \A p \in 1 .. Len(s) : \E k \in 1 .. n : \E j \in 1 .. Len(ss[k]) : s[p] = ss[k][j]

(* What the recursion has after i sequences.                               *)
LEMMA FlattenPrefix ==
  ASSUME NEW A, NEW ss \in Seq(Seq(A)), NEW f, Flattens(f, ss, Len(ss))
  PROVE  \A i \in 1 .. Len(ss) : /\ f[i] \in Seq(A)
                                 /\ FromFirst(f[i], ss, i)
                                 /\ Apart(ss) => Once(f[i])
<1> DEFINE Fine(i) == f[i] \in Seq(A) /\ FromFirst(f[i], ss, i) /\ (Apart(ss) => Once(f[i]))
           Wrong == {i \in 1 .. Len(ss) : ~ Fine(i)}
<1> SUFFICES ASSUME Wrong # {} PROVE FALSE
  OBVIOUS
<1>1. PICK i \in Wrong : \A k \in Wrong : i <= k
  <2>1. Wrong \in SUBSET Nat
    OBVIOUS
  <2> HIDE DEF Wrong
  <2> QED BY <2>1, LeastNat
<1>2. i \in 1 .. Len(ss) /\ ~ Fine(i) /\ Len(ss) \in Nat
  OBVIOUS
<1>3. ss[i] \in Seq(A)
  BY <1>2
<1>4. f[i] = IF i = 1 THEN ss[i] ELSE f[i - 1] \o ss[i]
  BY <1>2 DEF Flattens
<1>5. CASE i = 1
  <2>1. f[i] = ss[i]
    BY <1>4, <1>5
  <2>2. FromFirst(f[i], ss, i)
    BY <1>2, <2>1 DEF FromFirst
  <2>3. Apart(ss) => Once(f[i])
    BY <1>2, <2>1 DEF Apart, Once
  <2> QED BY <1>2, <1>3, <2>1, <2>2, <2>3
<1>6. CASE i # 1
  <2>1. i - 1 \in 1 .. Len(ss) /\ i - 1 < i
    BY <1>2, <1>6
  <2>2. Fine(i - 1)
    BY <1>1, <1>2, <2>1
  <2> DEFINE a == f[i - 1]
             b == ss[i]
  <2>3. /\ f[i] = a \o b /\ a \in Seq(A) /\ b \in Seq(A)
        /\ FromFirst(a, ss, i - 1) /\ (Apart(ss) => Once(a))
    BY <1>3, <1>4, <1>6, <2>2
  <2> HIDE DEF a, b, Fine
  <2>4. /\ f[i] \in Seq(A) /\ Len(f[i]) = Len(a) + Len(b)
        /\ \A p \in 1 .. Len(a) + Len(b) : f[i][p] = IF p <= Len(a) THEN a[p] ELSE b[p - Len(a)]
        /\ Len(a) \in Nat /\ Len(b) \in Nat
    BY <2>3, ConcatProperties
  <2>5. ASSUME NEW p \in 1 .. Len(f[i])
        PROVE  \E k \in 1 .. i : \E j \in 1 .. Len(ss[k]) : f[i][p] = ss[k][j]
    <3>1. CASE p <= Len(a)
      <4>1. p \in 1 .. Len(a) /\ f[i][p] = a[p]
        BY <2>4, <3>1
      <4>2. PICK k \in 1 .. i - 1 : \E j \in 1 .. Len(ss[k]) : a[p] = ss[k][j]
        BY <2>3, <4>1 DEF FromFirst
      <4>3. k \in 1 .. i
        BY <1>2
      <4> QED BY <4>1, <4>2, <4>3
    <3>2. CASE ~ (p <= Len(a))
      <4>1. p - Len(a) \in 1 .. Len(b) /\ f[i][p] = b[p - Len(a)]
        BY <2>4, <3>2
      <4>2. i \in 1 .. i /\ b = ss[i]
        BY <1>2 DEF b
      <4> QED BY <4>1, <4>2
    <3> QED BY <3>1, <3>2
  <2>6. ASSUME Apart(ss), NEW p \in 1 .. Len(f[i]), NEW q \in 1 .. Len(f[i]), f[i][p] = f[i][q], p <= q
        PROVE  p = q
    <3>1. CASE q <= Len(a)
      <4>1. p \in 1 .. Len(a) /\ q \in 1 .. Len(a) /\ f[i][p] = a[p] /\ f[i][q] = a[q]
        <5>1. p \in 1 .. Len(a) + Len(b) /\ q \in 1 .. Len(a) + Len(b) /\ Len(a) \in Int /\ Len(b) \in Int
          BY <2>4
        <5>2. p <= q
          BY <2>6
        <5>3. p \in 1 .. Len(a) /\ q \in 1 .. Len(a) /\ p <= Len(a)
          BY ONLY <3>1, <5>1, <5>2
        <5> QED BY <2>4, <3>1, <5>1, <5>3
      <4> QED BY <2>3, <2>6, <4>1 DEF Once
    <3>2. CASE ~ (q <= Len(a)) /\ p <= Len(a)
      <4>0. /\ p \in 1 .. Len(a) /\ q - Len(a) \in 1 .. Len(b)
            /\ f[i][p] = a[p] /\ f[i][q] = b[q - Len(a)]
        <5>1. /\ p \in Int /\ q \in Int /\ 1 <= p /\ q <= Len(a) + Len(b)
              /\ Len(a) \in Int
              /\ p \in 1 .. Len(a) + Len(b) /\ q \in 1 .. Len(a) + Len(b)
          BY <2>4
        <5>2. p \in 1 .. Len(a) /\ p <= Len(a)
          BY ONLY <3>2, <5>1
        <5>3. q - Len(a) \in 1 .. Len(b) /\ ~ (q <= Len(a))
          BY ONLY <3>2, <5>1, <2>4
        <5>4. f[i][p] = a[p]
          BY <2>4, <5>1, <5>2
        <5>5. f[i][q] = b[q - Len(a)]
          BY <2>4, <5>1, <5>3
        <5> QED BY <5>2, <5>3, <5>4, <5>5
      <4>1. p \in 1 .. Len(a) /\ q - Len(a) \in 1 .. Len(b) /\ a[p] = b[q - Len(a)]
        BY <2>6, <4>0
      <4>2. PICK k \in 1 .. i - 1 : \E j \in 1 .. Len(ss[k]) : a[p] = ss[k][j]
        BY <2>3, <4>1 DEF FromFirst
      <4>3. k \in 1 .. Len(ss) /\ k # i
        BY <1>2
      <4>4. PICK j \in 1 .. Len(ss[k]) : a[p] = ss[k][j]
        BY <4>2
      <4>5. q - Len(a) \in 1 .. Len(ss[i]) /\ ss[k][j] = ss[i][q - Len(a)]
        BY <4>1, <4>4 DEF b
      <4>6. k = i
        BY ONLY <1>2, <2>6, <4>3, <4>5, j \in 1 .. Len(ss[k]) DEF Apart
      <4> QED BY <4>3, <4>6
    <3>3. CASE ~ (p <= Len(a))
      <4>1. /\ p - Len(a) \in 1 .. Len(b) /\ q - Len(a) \in 1 .. Len(b)
            /\ f[i][p] = b[p - Len(a)] /\ f[i][q] = b[q - Len(a)]
        <5>1. /\ p \in Int /\ q \in Int /\ q <= Len(a) + Len(b) /\ p <= Len(a) + Len(b)
              /\ Len(a) \in Int
          BY <2>4
        <5>2. p <= q
          BY <2>6
        <5>3. ~ (q <= Len(a)) /\ ~ (p <= Len(a))
          BY ONLY <3>3, <5>1, <5>2
        <5>4. p - Len(a) \in 1 .. Len(b) /\ q - Len(a) \in 1 .. Len(b)
          BY ONLY <2>4, <5>1, <5>3
        <5>5. p \in 1 .. Len(a) + Len(b) /\ q \in 1 .. Len(a) + Len(b)
          BY <2>4
        <5>6. f[i][p] = b[p - Len(a)]
          BY ONLY <2>4, <5>3, <5>5
        <5>7. f[i][q] = b[q - Len(a)]
          BY ONLY <2>4, <5>3, <5>5
        <5> QED BY <5>4, <5>6, <5>7
      <4>2. p - Len(a) = q - Len(a)
        <5>1. b[p - Len(a)] = b[q - Len(a)]
          BY <2>6, <4>1
        <5> QED BY <1>2, <2>6, <4>1, <5>1 DEF Apart, b
      <4> QED BY <2>4, <4>2
    <3> QED BY <3>1, <3>2, <3>3
  <2>7. FromFirst(f[i], ss, i)
    BY <2>5 DEF FromFirst
  <2>8. Apart(ss) => Once(f[i])
    <3> SUFFICES ASSUME Apart(ss), NEW p \in 1 .. Len(f[i]), NEW q \in 1 .. Len(f[i]), f[i][p] = f[i][q]
                 PROVE  p = q
      BY DEF Once
    <3>1. p <= q \/ q <= p
      BY <2>4
    <3> QED BY <2>6, <3>1
  <2> QED BY <1>2, <2>4, <2>7, <2>8 DEF Fine
<1> QED BY <1>5, <1>6

(* FlattenSeq puts the elements of all the sequences into one, each once.  *)
LEMMA FlattenSeqs ==
  ASSUME NEW A, NEW ss \in Seq(Seq(A))
  PROVE  /\ FlattenSeq(ss) \in Seq(A)
         /\ FromFirst(FlattenSeq(ss), ss, Len(ss))
         /\ Apart(ss) => Once(FlattenSeq(ss))
<1>1. CASE Len(ss) = 0
  <2>1. ss = <<>> /\ FlattenSeq(ss) = <<>>
    BY <1>1 DEF FlattenSeq
  <2>2. <<>> \in Seq(A) /\ FromFirst(<<>>, ss, Len(ss)) /\ Once(<<>>)
    BY DEF FromFirst, Once
  <2> QED BY <2>1, <2>2
<1>2. CASE Len(ss) # 0
  <2> DEFINE f == CHOOSE f : Flattens(f, ss, Len(ss))
  <2>1. Flattens(f, ss, Len(ss))
    <3>1. Len(ss) \in Nat
      OBVIOUS
    <3> QED BY <3>1, FlattenExists
  <2>2. FlattenSeq(ss) = f[Len(ss)]
    BY <1>2 DEF FlattenSeq, Flattens
  <2> HIDE DEF f
  <2>3. Len(ss) \in 1 .. Len(ss)
    BY <1>2
  <2> QED BY <2>1, <2>2, <2>3, FlattenPrefix
<1> QED BY <1>1, <1>2

(* x is in s somewhere.                                                    *)
Holds(s, x) == \E p \in 1 .. Len(s) : s[p] = x

(* FlattenSeq leaves no element out.                                       *)
LEMMA FlattenHas ==
  ASSUME NEW A, NEW ss \in Seq(Seq(A)), NEW k \in 1 .. Len(ss), NEW x, Holds(ss[k], x)
  PROVE  Holds(FlattenSeq(ss), x)
<1>0. PICK j \in 1 .. Len(ss[k]) : ss[k][j] = x
  BY DEF Holds
<1> DEFINE f == CHOOSE f : Flattens(f, ss, Len(ss))
           Has(i) == \E p \in 1 .. Len(f[i]) : f[i][p] = ss[k][j]
           Lost == {i \in k .. Len(ss) : ~ Has(i)}
<1>1. Flattens(f, ss, Len(ss)) /\ Len(ss) \in Nat
  <2>1. Len(ss) \in Nat
    OBVIOUS
  <2> QED BY <2>1, FlattenExists
<1>2. FlattenSeq(ss) = f[Len(ss)]
  <2>1. Len(ss) # 0
    OBVIOUS
  <2> QED BY <2>1 DEF FlattenSeq, Flattens
<1> HIDE DEF f
<1>3. Len(ss) \in k .. Len(ss)
  BY <1>1
<1>4. ASSUME Lost # {} PROVE FALSE
  <2>1. PICK i \in Lost : \A l \in Lost : i <= l
    <3>1. Lost \in SUBSET Nat
      BY <1>1
    <3> HIDE DEF Lost
    <3> QED BY <1>4, <3>1, LeastNat
  <2>2. i \in k .. Len(ss) /\ ~ Has(i) /\ i \in 1 .. Len(ss) /\ i \in Int /\ k \in Int
    BY <1>1
  <2>3. f[i] = IF i = 1 THEN ss[i] ELSE f[i - 1] \o ss[i]
    BY <1>1, <2>2 DEF Flattens
  <2>4. ss[i] \in Seq(A)
    BY <2>2
  <2>5. CASE i = 1
    <3>1. i = k /\ f[i] = ss[i]
      BY <2>2, <2>3, <2>5
    <3> QED BY <2>2, <3>1
  <2>6. CASE i # 1
    <3> DEFINE a == f[i - 1]
               b == ss[i]
    <3>1. i - 1 \in 1 .. Len(ss)
      BY <1>1, <2>2, <2>6
    <3>2. a \in Seq(A) /\ b \in Seq(A) /\ f[i] = a \o b
      BY <1>1, <2>3, <2>4, <2>6, <3>1, FlattenPrefix
    <3> HIDE DEF a, b
    <3>3. /\ Len(f[i]) = Len(a) + Len(b)
          /\ \A p \in 1 .. Len(a) + Len(b) : f[i][p] = IF p <= Len(a) THEN a[p] ELSE b[p - Len(a)]
          /\ Len(a) \in Nat /\ Len(b) \in Nat
      BY <3>2, ConcatProperties
    <3>4. CASE i = k
      <4>1. j \in 1 .. Len(b) /\ b[j] = ss[k][j]
        BY <3>4 DEF b
      <4>2. Len(a) + j \in 1 .. Len(f[i]) /\ f[i][Len(a) + j] = b[j]
        <5> DEFINE p == Len(a) + j
        <5>1. p \in 1 .. Len(a) + Len(b) /\ ~ (p <= Len(a)) /\ p - Len(a) = j
          BY ONLY <3>3, <4>1
        <5> HIDE DEF p
        <5>2. f[i][p] = b[p - Len(a)]
          BY ONLY <3>3, <5>1
        <5>3. p \in 1 .. Len(f[i]) /\ f[i][p] = b[j]
          BY ONLY <3>3, <5>1, <5>2
        <5> QED BY <5>3 DEF p
      <4> QED BY <2>2, <4>1, <4>2
    <3>5. CASE i # k
      <4>1. i - 1 \in k .. Len(ss) /\ ~ (i <= i - 1)
        BY <2>2, <3>5
      <4>2. Has(i - 1)
        BY <2>1, <4>1
      <4>3. PICK p \in 1 .. Len(a) : a[p] = ss[k][j]
        BY <4>2 DEF a
      <4>4. p \in 1 .. Len(f[i]) /\ f[i][p] = a[p]
        <5>1. p \in 1 .. Len(a) + Len(b) /\ p <= Len(a)
          BY ONLY <3>3, p \in 1 .. Len(a)
        <5> QED BY ONLY <3>3, <5>1
      <4> QED BY <2>2, <4>3, <4>4
    <3> QED BY <3>4, <3>5
  <2> QED BY <2>5, <2>6
<1>5. Has(Len(ss))
  BY <1>3, <1>4
<1> QED BY <1>0, <1>2, <1>5 DEF Holds

(* Sequences of one length make one of their number times that length.     *)
LEMMA FlattenLength ==
  ASSUME NEW A, NEW ss \in Seq(Seq(A)), NEW n \in Nat, \A k \in 1 .. Len(ss) : Len(ss[k]) = n
  PROVE  FlattenSeq(ss) \in Seq(A) /\ Len(FlattenSeq(ss)) = Len(ss) * n
<1>1. CASE Len(ss) = 0
  <2>1. FlattenSeq(ss) = ss /\ Len(ss) * n = 0
    BY <1>1 DEF FlattenSeq
  <2> QED BY <1>1, <2>1, FlattenSeqs
<1>2. CASE Len(ss) # 0
  <2> DEFINE f == CHOOSE f : Flattens(f, ss, Len(ss))
  <2>1. Flattens(f, ss, Len(ss)) /\ Len(ss) \in Nat
    <3>1. Len(ss) \in Nat
      OBVIOUS
    <3> QED BY <3>1, FlattenExists
  <2>2. FlattenSeq(ss) = f[Len(ss)]
    BY <1>2 DEF FlattenSeq, Flattens
  <2> HIDE DEF f
  <2> DEFINE Wrong == {i \in 1 .. Len(ss) : Len(f[i]) # i * n}
  <2>3. Wrong = {}
    <3> SUFFICES ASSUME Wrong # {} PROVE FALSE
      OBVIOUS
    <3>1. PICK i \in Wrong : \A k \in Wrong : i <= k
      <4>1. Wrong \in SUBSET Nat
        OBVIOUS
      <4> HIDE DEF Wrong
      <4> QED BY <4>1, LeastNat
    <3>2. i \in 1 .. Len(ss) /\ Len(f[i]) # i * n /\ ss[i] \in Seq(A) /\ Len(ss[i]) = n
      OBVIOUS
    <3>3. f[i] = IF i = 1 THEN ss[i] ELSE f[i - 1] \o ss[i]
      BY <2>1, <3>2 DEF Flattens
    <3>4. i # 1
      <4>1. 1 * n = n
        OBVIOUS
      <4> QED BY <3>2, <3>3, <4>1
    <3>5. i - 1 \in 1 .. Len(ss) /\ i - 1 < i
      BY <2>1, <3>2, <3>4
    <3>6. f[i - 1] \in Seq(A) /\ Len(f[i - 1]) = (i - 1) * n
      <4>1. i - 1 \notin Wrong
        BY <3>1, <3>2, <3>5
      <4> QED BY <2>1, <3>5, <4>1, FlattenPrefix
    <3>7. Len(f[i]) = (i - 1) * n + n
      <4>1. f[i] = f[i - 1] \o ss[i]
        BY <3>3, <3>4
      <4>2. Len(f[i - 1] \o ss[i]) = Len(f[i - 1]) + Len(ss[i])
        BY <3>2, <3>6, ConcatProperties
      <4> QED BY <3>2, <3>6, <4>1, <4>2
    <3>8. i * n = (i - 1) * n + n
      <4>1. i \in Int /\ n \in Int
        BY <3>2
      <4> QED BY ONLY <4>1
    <3> QED BY <3>2, <3>7, <3>8
  <2>4. Len(ss) \in 1 .. Len(ss)
    BY <1>2, <2>1
  <2>5. Len(f[Len(ss)]) = Len(ss) * n
    BY <2>3, <2>4
  <2>6. f[Len(ss)] \in Seq(A)
    BY <2>1, <2>4, FlattenPrefix
  <2> QED BY <2>2, <2>5, <2>6
<1> QED BY <1>1, <1>2

(* Where part b of a concatenation begins, of which lens has the lengths.  *)
Lens(ss)        == [n \in DOMAIN ss |-> Len(ss[n])]
Before(lens, b) == Weight(lens, 1 .. b - 1)

(* It begins where the one before it ends.                                 *)
LEMMA BeforeSums ==
  ASSUME NEW m \in Nat, NEW lens, \A b \in 1 .. m : lens[b] \in Nat
  PROVE  /\ Before(lens, 1) = 0
         /\ \A b \in 1 .. m + 1 : Before(lens, b) \in Nat
         /\ \A b \in 1 .. m : Before(lens, b + 1) = Before(lens, b) + lens[b]
<1>1. Before(lens, 1) = 0
  <2>1. 1 .. 1 - 1 = {}
    OBVIOUS
  <2> QED BY <2>1, StackNone DEF Before
<1>2. ASSUME NEW b \in 1 .. m + 1
      PROVE  IsFiniteSet(1 .. b - 1) /\ \A x \in 1 .. b - 1 : lens[x] \in Nat
  <2>1. 1 \in Int /\ b - 1 \in Int
    OBVIOUS
  <2>2. \A x \in 1 .. b - 1 : x \in 1 .. m
    OBVIOUS
  <2> QED BY <2>1, <2>2, FS_Interval
<1>3. ASSUME NEW b \in 1 .. m
      PROVE  Before(lens, b + 1) = Before(lens, b) + lens[b]
  <2> DEFINE s == 1 .. b - 1
  <2>1. 1 .. b + 1 - 1 = s \cup {b} /\ b \notin s /\ b \in 1 .. m + 1 /\ b + 1 \in 1 .. m + 1
    OBVIOUS
  <2>2. IsFiniteSet(s) /\ \A x \in s \cup {b} : lens[x] \in Nat
    BY <1>2, <2>1
  <2> HIDE DEF s
  <2>3. Weight(lens, s \cup {b}) = Weight(lens, s) + lens[b]
    BY <2>1, <2>2, StackMore
  <2>4. Before(lens, b + 1) = Weight(lens, s \cup {b}) /\ Before(lens, b) = Weight(lens, s)
    <3>1. Before(lens, b + 1) = Weight(lens, 1 .. b + 1 - 1)
      BY DEF Before
    <3>2. Before(lens, b) = Weight(lens, s)
      BY DEF Before, s
    <3>3. 1 .. b + 1 - 1 = s \cup {b}
      BY <2>1
    <3> QED BY ONLY <3>1, <3>2, <3>3
  <2> QED BY <2>3, <2>4
<1>4. \A b \in 1 .. m + 1 : Before(lens, b) \in Nat
  BY <1>2, StackFinite DEF Before
<1> QED BY <1>1, <1>3, <1>4

(* FlattenSeq puts element j of part b at position j behind its beginning. *)
LEMMA FlattenAt ==
  ASSUME NEW A, NEW ss \in Seq(Seq(A))
  PROVE  /\ FlattenSeq(ss) \in Seq(A)
         /\ Len(FlattenSeq(ss)) = Before(Lens(ss), Len(ss) + 1)
         /\ \A b \in 1 .. Len(ss) : \A j \in 1 .. Len(ss[b]) :
              /\ Before(Lens(ss), b) + j \in 1 .. Len(FlattenSeq(ss))
              /\ FlattenSeq(ss)[Before(Lens(ss), b) + j] = ss[b][j]
<1> DEFINE N    == Len(ss)
           lens == Lens(ss)
<1>1. N \in Nat /\ \A b \in 1 .. N : ss[b] \in Seq(A) /\ lens[b] = Len(ss[b]) /\ lens[b] \in Nat
  BY DEF Lens
<1>2. /\ Before(lens, 1) = 0
      /\ \A b \in 1 .. N + 1 : Before(lens, b) \in Nat
      /\ \A b \in 1 .. N : Before(lens, b + 1) = Before(lens, b) + Len(ss[b])
  <2> HIDE DEF N, lens
  <2> QED BY <1>1, BeforeSums
<1>3. CASE N = 0
  <2>1. FlattenSeq(ss) = ss /\ ss = <<>> /\ N + 1 = 1
    BY <1>3 DEF FlattenSeq
  <2>2. \A b \in 1 .. N : FALSE
    BY <1>3
  <2> QED BY <1>2, <1>3, <2>1, <2>2, FlattenSeqs
<1>4. CASE N # 0
  <2> DEFINE f == CHOOSE f : Flattens(f, ss, Len(ss))
  <2>1. Flattens(f, ss, Len(ss))
    BY <1>1, FlattenExists
  <2>2. FlattenSeq(ss) = f[N]
    BY <1>4 DEF FlattenSeq, Flattens
  <2> HIDE DEF f
  <2> DEFINE Fine(i) == /\ Len(f[i]) = Before(lens, i + 1)
                        /\ \A b \in 1 .. i : \A j \in 1 .. Len(ss[b]) :
                             /\ Before(lens, b) + j \in 1 .. Len(f[i])
                             /\ f[i][Before(lens, b) + j] = ss[b][j]
             Wrong   == {i \in 1 .. N : ~ Fine(i)}
  <2>3. ASSUME NEW i \in 1 .. N PROVE f[i] \in Seq(A)
    BY <2>1, FlattenPrefix
  <2>4. Wrong = {}
    <3> SUFFICES ASSUME Wrong # {} PROVE FALSE
      OBVIOUS
    <3>1. PICK i \in Wrong : \A k \in Wrong : i <= k
      <4>1. Wrong \in SUBSET Nat
        OBVIOUS
      <4> HIDE DEF Wrong
      <4> QED BY <4>1, LeastNat
    <3>2. i \in 1 .. N /\ ~ Fine(i)
      OBVIOUS
    <3> DEFINE c == ss[i]
    <3>3. f[i] = IF i = 1 THEN c ELSE f[i - 1] \o c
      BY <2>1, <3>2 DEF Flattens
    <3>4. c \in Seq(A) /\ Len(c) \in Nat /\ Before(lens, i + 1) = Before(lens, i) + Len(c) /\ Before(lens, i) \in Nat
      BY <1>1, <1>2, <3>2
    <3>5. CASE i = 1
      <4>1. f[i] = c /\ Before(lens, i) = 0
        BY <1>2, <3>3, <3>5
      <4>2. ASSUME NEW b \in 1 .. i, NEW j \in 1 .. Len(ss[b])
            PROVE  Before(lens, b) + j \in 1 .. Len(f[i]) /\ f[i][Before(lens, b) + j] = ss[b][j]
        <5>1. b = i /\ j \in 1 .. Len(c)
          BY <3>5
        <5>2. Before(lens, b) + j = j
          BY <4>1, <5>1
        <5> QED BY <4>1, <5>1, <5>2
      <4>3. Len(f[i]) = Before(lens, i + 1)
        BY <3>4, <4>1
      <4> QED BY <3>2, <4>2, <4>3
    <3>6. CASE i # 1
      <4> DEFINE a == f[i - 1]
      <4>1. i - 1 \in 1 .. N /\ i - 1 < i /\ i - 1 + 1 = i
        BY <1>1, <3>2, <3>6
      <4>2. Fine(i - 1)
        <5>1. i - 1 \notin Wrong
          <6> HIDE DEF Wrong
          <6> QED BY <3>1, <3>2, <4>1
        <5> HIDE DEF Fine
        <5> QED BY <4>1, <5>1
      <4>3. /\ a \in Seq(A) /\ f[i] = a \o c /\ Len(a) = Before(lens, i)
            /\ \A b \in 1 .. i - 1 : \A j \in 1 .. Len(ss[b]) :
                 /\ Before(lens, b) + j \in 1 .. Len(a)
                 /\ a[Before(lens, b) + j] = ss[b][j]
        <5>1. a \in Seq(A) /\ f[i] = a \o c
          BY <2>3, <3>3, <3>6, <4>1
        <5>2. Len(a) = Before(lens, i)
          <6>1. Len(a) = Before(lens, i - 1 + 1)
            BY <4>2
          <6> QED BY <4>1, <6>1
        <5>3. \A b \in 1 .. i - 1 : \A j \in 1 .. Len(ss[b]) :
                 /\ Before(lens, b) + j \in 1 .. Len(a)
                 /\ a[Before(lens, b) + j] = ss[b][j]
          BY <4>2
        <5> QED BY <5>1, <5>2, <5>3
      <4> HIDE DEF a, c, Fine, Wrong
      <4>4. /\ Len(f[i]) = Len(a) + Len(c)
            /\ \A p \in 1 .. Len(a) + Len(c) : f[i][p] = IF p <= Len(a) THEN a[p] ELSE c[p - Len(a)]
            /\ Len(a) \in Nat
        <5>1. a \in Seq(A) /\ c \in Seq(A) /\ f[i] = a \o c
          BY <3>4, <4>3
        <5> QED BY ONLY <5>1, ConcatProperties
      <4>5. ASSUME NEW b \in 1 .. i, NEW j \in 1 .. Len(ss[b])
            PROVE  Before(lens, b) + j \in 1 .. Len(f[i]) /\ f[i][Before(lens, b) + j] = ss[b][j]
        <5> DEFINE p == Before(lens, b) + j
        <5>1. CASE b = i
          <6>1. j \in 1 .. Len(c) /\ p = Len(a) + j
            BY <4>3, <5>1 DEF c
          <6> HIDE DEF p, c
          <6>2. p \in 1 .. Len(a) + Len(c) /\ ~ (p <= Len(a)) /\ p - Len(a) = j
            BY <3>4, <4>4, <6>1
          <6>3. f[i][p] = c[j]
            BY <4>4, <6>2
          <6> QED BY <4>4, <5>1, <6>2, <6>3 DEF p, c
        <5>2. CASE b # i
          <6>1. b \in 1 .. i - 1
            BY <3>2, <5>2
          <6>2. p \in 1 .. Len(a) /\ a[p] = ss[b][j]
            BY <4>3, <6>1
          <6> HIDE DEF p, c
          <6>3. p \in 1 .. Len(a) + Len(c) /\ p <= Len(a)
            BY <3>4, <4>4, <6>2
          <6> QED BY <4>4, <6>2, <6>3 DEF p
        <5> QED BY <5>1, <5>2
      <4>6. Len(f[i]) = Before(lens, i + 1)
        BY <3>4, <4>3, <4>4
      <4> QED BY <3>2, <4>5, <4>6 DEF Fine
    <3> QED BY <3>5, <3>6
  <2>5. N \in 1 .. N /\ Fine(N)
    <3>1. N \in 1 .. N
      BY <1>1, <1>4
    <3> QED BY <2>4, <3>1
  <2> QED BY <2>2, <2>3, <2>5
<1> QED BY <1>3, <1>4

-----------------------------------------------------------------------------
(* Features.                                                               *)

(* Max of some naturals that are not above n.                              *)
LEMMA MaxIn ==
  ASSUME NEW T \in SUBSET Nat, T # {}, NEW n \in Nat, \A t \in T : t <= n
  PROVE  Max(T) \in T
<1> DEFINE D == {n - t : t \in T}
<1>1. D \in SUBSET Nat /\ D # {}
  <2>1. ASSUME NEW t \in T PROVE n - t \in Nat
    <3>1. t \in Nat /\ t <= n
      OBVIOUS
    <3> QED BY <3>1
  <2> QED BY <2>1
<1>2. PICK d \in D : \A e \in D : d <= e
  <2> HIDE DEF D
  <2> QED BY <1>1, LeastNat
<1>3. PICK m \in T : d = n - m
  OBVIOUS
<1>4. \A t \in T : m >= t
  <2> SUFFICES ASSUME NEW t \in T PROVE m >= t
    OBVIOUS
  <2>1. n - m <= n - t
    BY <1>2, <1>3
  <2>2. n \in Int /\ m \in Int /\ t \in Int
    OBVIOUS
  <2> QED BY <2>1, <2>2
<1> QED BY <1>4 DEF Max

(* The lanes are the numbers below four, eight or sixteen.                 *)
LEMMA LaneInt ==
  /\ Vector \in Nat /\ Vector >= 4 /\ Vector <= 16
  /\ \A l \in Lane : l \in Nat /\ l \in 0 .. 15
  /\ IsFiniteSet(Lane) /\ Cardinality(Lane) = Vector
<1>1. Vector \in Nat /\ Vector >= 4 /\ Vector <= 16
  BY VectorAssumption
<1>2. 0 \in Int /\ Vector - 1 \in Int /\ ~ (0 > Vector - 1) /\ Vector - 1 - 0 + 1 = Vector
  BY <1>1
<1> QED BY <1>1, <1>2, FS_Interval DEF Lane

(* A bit of a mask of at most sixteen lanes is a number.                   *)
LEMMA Power2 == ASSUME NEW l \in 0 .. 15 PROVE 2^l \in Nat
<1>0. CASE l = 0 BY <1>0
<1>1. CASE l = 1 BY <1>1
<1>2. CASE l = 2 BY <1>2
<1>3. CASE l = 3 BY <1>3
<1>4. CASE l = 4 BY <1>4
<1>5. CASE l = 5 BY <1>5
<1>6. CASE l = 6 BY <1>6
<1>7. CASE l = 7 BY <1>7
<1>8. CASE l = 8 BY <1>8
<1>9. CASE l = 9 BY <1>9
<1>10. CASE l = 10 BY <1>10
<1>11. CASE l = 11 BY <1>11
<1>12. CASE l = 12 BY <1>12
<1>13. CASE l = 13 BY <1>13
<1>14. CASE l = 14 BY <1>14
<1>15. CASE l = 15 BY <1>15
<1> QED BY <1>0, <1>1, <1>2, <1>3, <1>4, <1>5, <1>6, <1>7, <1>8, <1>9, <1>10, <1>11, <1>12, <1>13,
           <1>14, <1>15

LEMMA Power2AtMost == ASSUME NEW l \in 0 .. 7 PROVE 2^l <= 128
<1>0. CASE l = 0 BY <1>0
<1>1. CASE l = 1 BY <1>1
<1>2. CASE l = 2 BY <1>2
<1>3. CASE l = 3 BY <1>3
<1>4. CASE l = 4 BY <1>4
<1>5. CASE l = 5 BY <1>5
<1>6. CASE l = 6 BY <1>6
<1>7. CASE l = 7 BY <1>7
<1> QED BY <1>0, <1>1, <1>2, <1>3, <1>4, <1>5, <1>6, <1>7

(* So is a nibble of a mask of four lanes, which is no zero.               *)
LEMMA Power16 ==
  ASSUME NEW l \in 0 .. 3
  PROVE  (l = 0 => 16^l = 1) /\ (l # 0 => 16^l \in {16, 16 * 16, 16 * 16 * 16})
<1>0. CASE l = 0 BY <1>0
<1>1. CASE l = 1 BY <1>1
<1>2. CASE l = 2 BY <1>2
<1>3. CASE l = 3 BY <1>3
<1> QED BY <1>0, <1>1, <1>2, <1>3

(* Masks take the low half of Info.mask_.                                  *)
MaskBound == 65536

(* A mask is a number, of at most sixteen bits where it is no permutation. *)
LEMMA MaskIsNat ==
  ASSUME NEW lanes \in SUBSET Lane
  PROVE  MaskOf(lanes) \in Nat /\ (Vector <= 8 => MaskOf(lanes) < MaskBound)
<1> DEFINE g == [l \in lanes |-> 2^l]
           Solves(iter) ==
             iter = [s \in SUBSET lanes |->
                       IF s = {} THEN 0 ELSE 2^(CHOOSE x \in s : TRUE) + iter[s \ {CHOOSE x \in s : TRUE}]]
<1>1. ASSUME NEW iter PROVE Solves(iter) <=> SumsUp(iter, g, lanes)
  <2>1. \A s \in SUBSET lanes : s # {} => g[Pick(s)] = 2^(CHOOSE x \in s : TRUE)
    BY PickIn DEF Pick
  <2> QED BY <2>1 DEF SumsUp, Pick
<1>2. \A l \in lanes : g[l] \in Nat
  BY Power2, LaneInt
<1>3. IsFiniteSet(lanes)
  BY LaneInt, FS_Subset
<1>4. MaskOf(lanes) = (CHOOSE iter : Solves(iter))[lanes]
  BY DEF MaskOf, MapThenSumSet, MapThenFoldSet
<1> HIDE DEF Solves, g
<1>5. SumsUp(CHOOSE iter : Solves(iter), g, lanes)
  BY <1>1, <1>2, <1>3, SumExists
<1>6. (CHOOSE iter : Solves(iter))[lanes] = Weight(g, lanes)
  BY <1>2, <1>3, <1>5, SumIsWeight
<1>7. ASSUME Vector <= 8 PROVE Weight(g, lanes) < MaskBound
  <2>1. \A l \in lanes : g[l] <= 128
    <3> SUFFICES ASSUME NEW l \in lanes PROVE g[l] <= 128
      OBVIOUS
    <3>1. l \in 0 .. 7 /\ g[l] = 2^l
      BY <1>7, VectorAssumption DEF g, Lane
    <3> HIDE DEF g
    <3>2. 2^l <= 128
      BY <3>1, Power2AtMost
    <3> QED BY <3>1, <3>2
  <2>2. Cardinality(lanes) \in Nat /\ Cardinality(lanes) <= 8
    <3>1. Cardinality(lanes) <= Cardinality(Lane)
      BY LaneInt, FS_Subset
    <3> QED BY <1>3, <1>7, <3>1, LaneInt, FS_CardinalityType
  <2>3. Weight(g, lanes) <= Cardinality(lanes) * 128 /\ Weight(g, lanes) \in Nat
    BY <1>2, <1>3, <2>1, StackBounded, StackFinite
  <2> QED BY <2>2, <2>3 DEF MaskBound
<1> QED BY <1>2, <1>3, <1>4, <1>6, <1>7, StackFinite

(* get_order_type has three answers.                                       *)
LEMMA OrderTypes ==
  ASSUME NEW idx
  PROVE  OrderTypeOf(idx) \in {DisOrder, IncContinue, OrderEquel}
BY DEF OrderTypeOf

(* Sixteen lanes get only two of them.                                     *)
LEMMA FewLanesContinue ==
  ASSUME NEW idx, OrderTypeOf(idx) = IncContinue
  PROVE  Vector <= 8
BY DEF OrderTypeOf, DisOrder, IncContinue, OrderEquel

(* Words of four lanes.                                                    *)
LEMMA PackedWords ==
  ASSUME NEW v \in [Lane -> Int]
  PROVE  PackWords(v) \in Seq(Int) /\ Len(PackWords(v)) = Vector \div 4
<1>1. Vector \div 4 \in Nat /\ 4 * (Vector \div 4) <= Vector
  BY VectorAssumption
<1>2. ASSUME NEW w \in 1 .. Vector \div 4
      PROVE  PackWords(v)[w] \in Int
  <2> DEFINE b == 4 * (w - 1)
  <2>1. b \in Lane /\ b + 1 \in Lane /\ b + 2 \in Lane /\ b + 3 \in Lane
    BY <1>1, VectorAssumption DEF Lane
  <2>2. PackWords(v)[w] = v[b] + v[b + 1] * 256 + v[b + 2] * 65536 + v[b + 3] * 16777216
    BY DEF PackWords
  <2> HIDE DEF b
  <2>3. v[b] \in Int /\ v[b + 1] \in Int /\ v[b + 2] \in Int /\ v[b + 3] \in Int
    BY <2>1
  <2> QED BY <2>2, <2>3
<1>3. DOMAIN PackWords(v) = 1 .. Vector \div 4 /\ PackWords(v) = [w \in 1 .. Vector \div 4 |-> PackWords(v)[w]]
  BY DEF PackWords
<1>4. PackWords(v) \in [1 .. Vector \div 4 -> Int]
  BY <1>2, <1>3
<1> QED BY <1>1, <1>4

(* The rounds of a reduction are few.                                      *)
LEMMA FewRounds ==
  ASSUME NEW idx \in [Lane -> Nat]
  PROVE  RoundsNeeded(idx) \in 0 .. 4 /\ RoundsNeeded(idx) # Vector
<1> DEFINE Sizes == {Cardinality(SameIndex(idx, l)) : l \in Lane}
<1>1. ASSUME NEW l \in Lane PROVE Cardinality(SameIndex(idx, l)) \in 1 .. Vector
  <2>1. SameIndex(idx, l) \in SUBSET Lane /\ l \in SameIndex(idx, l)
    BY DEF SameIndex
  <2>2. IsFiniteSet(SameIndex(idx, l)) /\ Cardinality(SameIndex(idx, l)) <= Vector
    BY <2>1, LaneInt, FS_Subset
  <2>3. Cardinality(SameIndex(idx, l)) \in Nat /\ Cardinality(SameIndex(idx, l)) # 0
    BY <2>1, <2>2, FS_CardinalityType, FS_EmptySet
  <2> QED BY <2>2, <2>3, LaneInt
<1>2. Sizes \subseteq 1 .. Vector /\ Sizes # {}
  <2>1. 0 \in Lane
    BY LaneInt DEF Lane
  <2> QED BY <1>1, <2>1
<1> HIDE DEF Sizes
<1>3. Max(Sizes) \in 1 .. Vector
  <2>1. Sizes \in SUBSET Nat /\ \A t \in Sizes : t <= Vector
    BY <1>2, LaneInt
  <2> QED BY <1>2, <2>1, LaneInt, MaxIn
<1>4. RoundsNeeded(idx) = RoundTable[Max(Sizes)]
  BY DEF RoundsNeeded, Sizes
<1>5. \A m \in 1 .. 16 : RoundTable[m] \in 0 .. 4 /\ (m <= 4 => RoundTable[m] <= 2)
  BY DEF RoundTable
<1> QED BY <1>3, <1>4, <1>5, VectorAssumption

(* A lane takes over a lane or none.                                       *)
LEMMA RoundLanes ==
  ASSUME NEW idx, NEW reduced
  PROVE  ReductionRound(idx, reduced) \in [Lane -> Int]
<1>1. ASSUME NEW l \in Lane, NEW below \in SUBSET Lane, below # {} PROVE Max(below) \in Int
  <2>1. below \in SUBSET Nat /\ below # {} /\ \A t \in below : t <= Vector
    BY <1>1, LaneInt DEF Lane
  <2>2. Vector \in Nat
    BY LaneInt
  <2>3. Max(below) \in below
    BY <2>1, <2>2, MaxIn
  <2>4. \A t \in below : t \in Int
    BY LaneInt
  <2> QED BY <2>3, <2>4
<1>2. ASSUME NEW l \in Lane PROVE ReductionRound(idx, reduced)[l] \in Int
  <2> DEFINE live  == SameIndex(idx, l) \ reduced
             below == {m \in live : m < l}
  <2>1. below \in SUBSET Lane
    BY DEF SameIndex
  <2>2. below # {} => Max(below) \in Int
    BY <1>1, <2>1
  <2>3. ReductionRound(idx, reduced)[l] =
          IF l \in live /\ below # {} /\ Cardinality({m \in live : m > l}) % 2 = 0
            THEN Max(below) ELSE Vector
    BY DEF ReductionRound
  <2> HIDE DEF live, below
  <2> QED BY <2>2, <2>3, LaneInt
<1>3. ReductionRound(idx, reduced) = [l \in Lane |-> ReductionRound(idx, reduced)[l]]
  BY DEF ReductionRound
<1> QED BY <1>2, <1>3

(* There is a permutation for each round.                                  *)
LEMMA RoundsShape ==
  ASSUME NEW idx
  PROVE  ReductionRounds(idx) \in [1 .. RoundsNeeded(idx) -> [Lane -> Int]]
<1> DEFINE Reduced == CHOOSE reduced : reduced =
             [n \in 0 .. RoundsNeeded(idx) |->
                IF n = 0 THEN {}
                ELSE With(reduced[n - 1], LAMBDA r : r \cup TakenOver(ReductionRound(idx, r)))]
<1>1. ReductionRounds(idx) =
        [n \in 1 .. RoundsNeeded(idx) |-> With(Reduced[n - 1], LAMBDA r : ReductionRound(idx, r))]
  BY DEF ReductionRounds
<1> HIDE DEF Reduced
<1>2. ASSUME NEW n \in 1 .. RoundsNeeded(idx) PROVE ReductionRounds(idx)[n] \in [Lane -> Int]
  <2>1. ReductionRounds(idx)[n] = CHOOSE r \in {ReductionRound(idx, w) : w \in {Reduced[n - 1]}} : TRUE
    BY <1>1 DEF With
  <2>2. ReductionRounds(idx)[n] = ReductionRound(idx, Reduced[n - 1])
    BY <2>1
  <2> QED BY <2>2, RoundLanes
<1> QED BY <1>1, <1>2

-----------------------------------------------------------------------------
(* Bits, bytes and nibbles: what is packed is unpacked.                    *)

(* The powers of two of eight lanes.                                       *)
LEMMA Powers ==
  /\ 2^0 = 1 /\ 2^1 = 2 /\ 2^2 = 4 /\ 2^3 = 8 /\ 2^4 = 16 /\ 2^5 = 32 /\ 2^6 = 64 /\ 2^7 = 128
  /\ 16^0 = 1 /\ 16^1 = 16 /\ 16^2 = 256 /\ 16^3 = 4096
  /\ 256^0 = 1 /\ 256^1 = 256 /\ 256^2 = 65536 /\ 256^3 = 16777216
OBVIOUS

(* The recursion of MapThenSumSet, of a function on lanes that is given.   *)
LEMMA SumOver ==
  ASSUME NEW S, IsFiniteSet(S), NEW g, \A l \in S : g[l] \in Nat
  PROVE  (CHOOSE iter : SumsUp(iter, g, S))[S] = Weight(g, S)
<1>1. SumsUp(CHOOSE iter : SumsUp(iter, g, S), g, S)
  BY SumExists
<1> QED BY <1>1, SumIsWeight

(* A sum over the first lanes, one by one.                                 *)
LEMMA WeightUpTo ==
  ASSUME NEW n \in Nat, NEW g, \A l \in 0 .. n : g[l] \in Nat
  PROVE  /\ Weight(g, 0 .. 0) = g[0]
         /\ \A m \in 1 .. n : Weight(g, 0 .. m) = Weight(g, 0 .. m - 1) + g[m]
<1>1. Weight(g, 0 .. 0) = g[0]
  <2>1. 0 .. 0 = {0} /\ 0 \in 0 .. n
    OBVIOUS
  <2> QED BY <2>1, StackOfOne
<1>2. ASSUME NEW m \in 1 .. n PROVE Weight(g, 0 .. m) = Weight(g, 0 .. m - 1) + g[m]
  <2> DEFINE s == 0 .. m - 1
  <2>1. 0 .. m = s \cup {m} /\ m \notin s /\ s \cup {m} \subseteq 0 .. n
    OBVIOUS
  <2>2. IsFiniteSet(s)
    <3>1. 0 \in Int /\ m - 1 \in Int
      OBVIOUS
    <3> QED BY <3>1, FS_Interval
  <2> HIDE DEF s
  <2>3. \A z \in s \cup {m} : g[z] \in Nat
    BY <2>1
  <2>4. Weight(g, s \cup {m}) = Weight(g, s) + g[m]
    BY <2>1, <2>2, <2>3, StackMore
  <2> QED BY <2>1, <2>4 DEF s
<1> QED BY <1>1, <1>2

(* The bits of a mask, as far as eight lanes.                              *)
Bit(lanes) == [l \in 0 .. 7 |-> IF l \in lanes THEN 1 ELSE 0]

LEMMA MaskSum ==
  ASSUME Vector <= 8, NEW lanes \in SUBSET Lane
  PROVE  LET b == Bit(lanes) IN
         MaskOf(lanes) = b[0] + 2 * b[1] + 4 * b[2] + 8 * b[3] + 16 * b[4] + 32 * b[5] + 64 * b[6] + 128 * b[7]
<1> DEFINE g == [l \in lanes |-> 2^l]
           h == [l \in 0 .. 7 |-> IF l \in lanes THEN 2^l ELSE 0]
           Solves(iter) ==
             iter = [s \in SUBSET lanes |->
                       IF s = {} THEN 0 ELSE 2^(CHOOSE x \in s : TRUE) + iter[s \ {CHOOSE x \in s : TRUE}]]
<1>1. ASSUME NEW iter PROVE Solves(iter) <=> SumsUp(iter, g, lanes)
  <2>1. \A s \in SUBSET lanes : s # {} => g[Pick(s)] = 2^(CHOOSE x \in s : TRUE)
    BY PickIn DEF Pick
  <2> QED BY <2>1 DEF SumsUp, Pick
<1>2. \A l \in lanes : g[l] \in Nat
  BY Power2, LaneInt
<1>3. IsFiniteSet(lanes) /\ lanes \subseteq 0 .. 7
  <2>1. IsFiniteSet(lanes)
    BY LaneInt, FS_Subset
  <2>2. lanes \subseteq 0 .. 7
    BY VectorAssumption DEF Lane
  <2> QED BY <2>1, <2>2
<1>4. MaskOf(lanes) = (CHOOSE iter : Solves(iter))[lanes]
  BY DEF MaskOf, MapThenSumSet, MapThenFoldSet
<1>5. Stack(h, 0 .. 7) = Stack(g, lanes)
  <2>1. ASSUME NEW p \in (0 .. 7) \X Nat
        PROVE  1 <= p[2] /\ p[2] <= h[p[1]] <=> p[1] \in lanes /\ 1 <= p[2] /\ p[2] <= g[p[1]]
    <3>1. p[1] \in 0 .. 7 /\ p[2] \in Nat
      OBVIOUS
    <3>2. CASE p[1] \in lanes
      <4>1. h[p[1]] = g[p[1]]
        BY <3>1, <3>2
      <4> QED BY <3>2, <4>1
    <3>3. CASE p[1] \notin lanes
      <4>1. h[p[1]] = 0
        BY <3>1, <3>3
      <4> QED BY <3>1, <3>3, <4>1
    <3> QED BY <3>2, <3>3
  <2> HIDE DEF g, h
  <2> QED BY <1>3, <2>1 DEF Stack
<1>6. \A l \in 0 .. 7 : h[l] \in Nat
  <2> SUFFICES ASSUME NEW l \in 0 .. 7 PROVE h[l] \in Nat
    OBVIOUS
  <2>1. 2^l \in Nat
    <3>1. l \in 0 .. 15
      OBVIOUS
    <3> QED BY <3>1, Power2
  <2>2. h[l] = IF l \in lanes THEN 2^l ELSE 0
    OBVIOUS
  <2> HIDE DEF h
  <2> QED BY <2>1, <2>2
<1>7. LET b == Bit(lanes) IN
      /\ h[0] = b[0] /\ h[1] = 2 * b[1] /\ h[2] = 4 * b[2] /\ h[3] = 8 * b[3]
      /\ h[4] = 16 * b[4] /\ h[5] = 32 * b[5] /\ h[6] = 64 * b[6] /\ h[7] = 128 * b[7]
  BY Powers DEF Bit
<1> HIDE DEF Solves, g, h
<1>8. (CHOOSE iter : Solves(iter)) = (CHOOSE iter : SumsUp(iter, g, lanes))
  BY <1>1
<1>9. MaskOf(lanes) = Weight(h, 0 .. 7)
  <2>1. (CHOOSE iter : SumsUp(iter, g, lanes))[lanes] = Weight(g, lanes)
    BY <1>2, <1>3, SumOver
  <2> QED BY <1>4, <1>5, <1>8, <2>1 DEF Weight
<1>10. /\ Weight(h, 0 .. 0) = h[0]
       /\ \A m \in 1 .. 7 : Weight(h, 0 .. m) = Weight(h, 0 .. m - 1) + h[m]
  BY <1>6, WeightUpTo
<1>11. Weight(h, 0 .. 7) = h[0] + h[1] + h[2] + h[3] + h[4] + h[5] + h[6] + h[7]
  <2>1. /\ Weight(h, 0 .. 1) = Weight(h, 0 .. 0) + h[1] /\ Weight(h, 0 .. 2) = Weight(h, 0 .. 1) + h[2]
        /\ Weight(h, 0 .. 3) = Weight(h, 0 .. 2) + h[3] /\ Weight(h, 0 .. 4) = Weight(h, 0 .. 3) + h[4]
        /\ Weight(h, 0 .. 5) = Weight(h, 0 .. 4) + h[5] /\ Weight(h, 0 .. 6) = Weight(h, 0 .. 5) + h[6]
        /\ Weight(h, 0 .. 7) = Weight(h, 0 .. 6) + h[7]
    <3>1. ASSUME NEW m \in 1 .. 7, NEW k, k = m - 1 PROVE Weight(h, 0 .. m) = Weight(h, 0 .. k) + h[m]
      BY <1>10, <3>1
    <3>2. 0 = 1 - 1 /\ 1 = 2 - 1 /\ 2 = 3 - 1 /\ 3 = 4 - 1 /\ 4 = 5 - 1 /\ 5 = 6 - 1 /\ 6 = 7 - 1
      OBVIOUS
    <3>3. 1 \in 1 .. 7 /\ 2 \in 1 .. 7 /\ 3 \in 1 .. 7 /\ 4 \in 1 .. 7 /\ 5 \in 1 .. 7 /\ 6 \in 1 .. 7 /\ 7 \in 1 .. 7
      OBVIOUS
    <3> QED BY <3>1, <3>2, <3>3
  <2>2. /\ h[0] \in Nat /\ h[1] \in Nat /\ h[2] \in Nat /\ h[3] \in Nat /\ h[4] \in Nat /\ h[5] \in Nat
        /\ h[6] \in Nat /\ h[7] \in Nat
    BY <1>6
  <2> QED BY <1>10, <2>1, <2>2
<1> QED BY <1>7, <1>9, <1>11

(* A bit of a mask is set if its lane is one of those the mask was made of.*)
LEMMA MaskBits ==
  ASSUME Vector <= 8, NEW lanes \in SUBSET Lane, NEW l \in Lane
  PROVE  HasBit(MaskOf(lanes), l) <=> l \in lanes
<1> DEFINE b == Bit(lanes)
           m == MaskOf(lanes)
<1>1. m = b[0] + 2 * b[1] + 4 * b[2] + 8 * b[3] + 16 * b[4] + 32 * b[5] + 64 * b[6] + 128 * b[7]
  BY MaskSum
<1>2. \A k \in 0 .. 7 : b[k] \in {0, 1} /\ (b[k] = 1 <=> k \in lanes)
  BY DEF Bit
<1>3. l \in 0 .. 7
  BY VectorAssumption DEF Lane
<1> HIDE DEF b, m
<1>4. ASSUME NEW b0 \in {0, 1}, NEW b1 \in {0, 1}, NEW b2 \in {0, 1}, NEW b3 \in {0, 1},
             NEW b4 \in {0, 1}, NEW b5 \in {0, 1}, NEW b6 \in {0, 1}, NEW b7 \in {0, 1},
             NEW n, n = b0 + 2 * b1 + 4 * b2 + 8 * b3 + 16 * b4 + 32 * b5 + 64 * b6 + 128 * b7
      PROVE  /\ (n \div 1) % 2 = b0 /\ (n \div 2) % 2 = b1 /\ (n \div 4) % 2 = b2 /\ (n \div 8) % 2 = b3
             /\ (n \div 16) % 2 = b4 /\ (n \div 32) % 2 = b5 /\ (n \div 64) % 2 = b6 /\ (n \div 128) % 2 = b7
  <2>1. (n \div 1) % 2 = b0
    BY ONLY <1>4
  <2>2. (n \div 2) % 2 = b1
    BY ONLY <1>4
  <2>3. (n \div 4) % 2 = b2
    BY ONLY <1>4
  <2>4. (n \div 8) % 2 = b3
    BY ONLY <1>4
  <2>5. (n \div 16) % 2 = b4
    BY ONLY <1>4
  <2>6. (n \div 32) % 2 = b5
    BY ONLY <1>4
  <2>7. (n \div 64) % 2 = b6
    BY ONLY <1>4
  <2>8. (n \div 128) % 2 = b7
    BY ONLY <1>4
  <2> QED BY <2>1, <2>2, <2>3, <2>4, <2>5, <2>6, <2>7, <2>8
<1>5. /\ (m \div 1) % 2 = b[0] /\ (m \div 2) % 2 = b[1] /\ (m \div 4) % 2 = b[2] /\ (m \div 8) % 2 = b[3]
      /\ (m \div 16) % 2 = b[4] /\ (m \div 32) % 2 = b[5] /\ (m \div 64) % 2 = b[6] /\ (m \div 128) % 2 = b[7]
  <2>1. /\ b[0] \in {0, 1} /\ b[1] \in {0, 1} /\ b[2] \in {0, 1} /\ b[3] \in {0, 1} /\ b[4] \in {0, 1}
        /\ b[5] \in {0, 1} /\ b[6] \in {0, 1} /\ b[7] \in {0, 1}
    <3>1. 0 \in 0 .. 7 /\ 1 \in 0 .. 7 /\ 2 \in 0 .. 7 /\ 3 \in 0 .. 7 /\ 4 \in 0 .. 7 /\ 5 \in 0 .. 7 /\ 6 \in 0 .. 7
          /\ 7 \in 0 .. 7
      OBVIOUS
    <3> QED BY <1>2, <3>1
  <2>2. \E b0, b1, b2, b3, b4, b5, b6, b7 \in {0, 1} :
          /\ b0 = b[0] /\ b1 = b[1] /\ b2 = b[2] /\ b3 = b[3] /\ b4 = b[4] /\ b5 = b[5] /\ b6 = b[6] /\ b7 = b[7]
    BY <2>1
  <2>3. PICK b0 \in {0, 1}, b1 \in {0, 1}, b2 \in {0, 1}, b3 \in {0, 1},
             b4 \in {0, 1}, b5 \in {0, 1}, b6 \in {0, 1}, b7 \in {0, 1} :
          /\ b0 = b[0] /\ b1 = b[1] /\ b2 = b[2] /\ b3 = b[3] /\ b4 = b[4] /\ b5 = b[5] /\ b6 = b[6] /\ b7 = b[7]
    BY <2>2
  <2>4. m = b0 + 2 * b1 + 4 * b2 + 8 * b3 + 16 * b4 + 32 * b5 + 64 * b6 + 128 * b7
    BY <1>1, <2>3
  <2>5. /\ (m \div 1) % 2 = b0 /\ (m \div 2) % 2 = b1 /\ (m \div 4) % 2 = b2 /\ (m \div 8) % 2 = b3
        /\ (m \div 16) % 2 = b4 /\ (m \div 32) % 2 = b5 /\ (m \div 64) % 2 = b6 /\ (m \div 128) % 2 = b7
    BY <1>4, <2>4
  <2> QED BY <2>3, <2>5
<1>6. (m \div 2^l) % 2 = b[l]
  <2>1. l \in {0, 1, 2, 3, 4, 5, 6, 7}
    BY ONLY <1>3
  <2>2. CASE l = 0 BY ONLY <1>5, <2>2, Powers
  <2>3. CASE l = 1 BY ONLY <1>5, <2>3, Powers
  <2>4. CASE l = 2 BY ONLY <1>5, <2>4, Powers
  <2>5. CASE l = 3 BY ONLY <1>5, <2>5, Powers
  <2>6. CASE l = 4 BY ONLY <1>5, <2>6, Powers
  <2>7. CASE l = 5 BY ONLY <1>5, <2>7, Powers
  <2>8. CASE l = 6 BY ONLY <1>5, <2>8, Powers
  <2>9. CASE l = 7 BY ONLY <1>5, <2>9, Powers
  <2> QED BY <2>1, <2>2, <2>3, <2>4, <2>5, <2>6, <2>7, <2>8, <2>9
<1>7. b[l] \in {0, 1} /\ (b[l] = 1 <=> l \in lanes)
  BY <1>2, <1>3
<1> QED BY <1>6, <1>7 DEF HasBit, m

(* The four lanes of a word.                                               *)
Bytes8       == 0 .. 255
Byte(n, k)   == (n \div 256^k) % 256
Nibble(n, l) == (n \div 16^l) % 16

Word(a, b, c, d) == a + b * 256 + c * 65536 + d * 16777216

LEMMA Bytes ==
  ASSUME NEW a \in Bytes8, NEW b \in Bytes8, NEW c \in Bytes8, NEW d \in Bytes8,
         NEW n, n = Word(a, b, c, d)
  PROVE  Byte(n, 0) = a /\ Byte(n, 1) = b /\ Byte(n, 2) = c /\ Byte(n, 3) = d
<1>0. n = a + b * 256 + c * 65536 + d * 16777216
  BY DEF Word
<1> USE DEF Bytes8
<1>1. (n \div 1) % 256 = a
  BY <1>0
<1>2. (n \div 256) % 256 = b
  <2>1. n \div 256 = b + (c + d * 256) * 256
    BY <1>0
  <2>2. (b + (c + d * 256) * 256) % 256 = b
    OBVIOUS
  <2> QED BY <2>1, <2>2
<1>3. (n \div 65536) % 256 = c
  <2>1. n \div 65536 = c + d * 256
    BY <1>0
  <2>2. (c + d * 256) % 256 = c
    OBVIOUS
  <2> QED BY <2>1, <2>2
<1>4. (n \div 16777216) % 256 = d
  <2>1. n \div 16777216 = d
    BY <1>0
  <2> QED BY <2>1
<1>5. 256^0 = 1 /\ 256^1 = 256 /\ 256^2 = 65536 /\ 256^3 = 16777216
  BY Powers
<1> QED BY ONLY <1>1, <1>2, <1>3, <1>4, <1>5 DEF Byte

(* The word of a lane, and its place in it.                                *)
LEMMA LaneSplit ==
  ASSUME NEW l \in Lane
  PROVE  \E q \in 0 .. Vector \div 4 - 1, r \in {0, 1, 2, 3} :
           /\ q = l \div 4 /\ r = l % 4 /\ l = 4 * q + r
           /\ 4 * q \in Lane /\ 4 * q + 1 \in Lane /\ 4 * q + 2 \in Lane /\ 4 * q + 3 \in Lane
<1>1. l \in 0 .. Vector - 1 /\ l \in Nat
  BY LaneInt DEF Lane
<1>2. PICK q \in Int : q = l \div 4
  BY <1>1
<1>3. PICK r \in Int : r = l % 4
  BY <1>1
<1>4. 0 <= q /\ l = 4 * q + r /\ r \in {0, 1, 2, 3}
  BY ONLY <1>1, <1>2, <1>3
<1>5. 4 * q + 3 < Vector
  BY ONLY <1>1, <1>2, <1>3, <1>4, VectorAssumption
<1>6. q \in 0 .. Vector \div 4 - 1
  BY ONLY <1>4, <1>5, VectorAssumption
<1>7. 4 * q \in Lane /\ 4 * q + 1 \in Lane /\ 4 * q + 2 \in Lane /\ 4 * q + 3 \in Lane
  BY ONLY <1>4, <1>5, LaneInt DEF Lane
<1> QED BY <1>2, <1>3, <1>4, <1>6, <1>7

(* What is packed is unpacked.                                             *)
LEMMA WordsUnpacked ==
  ASSUME NEW v \in [Lane -> Bytes8], NEW s, NEW p \in Int,
         \A w \in 1 .. Vector \div 4 : At(s, p + w - 1) = PackWords(v)[w]
  PROVE  UnpackWords(s, p) = v
<1>1. ASSUME NEW l \in Lane PROVE Byte(At(s, p + l \div 4), l % 4) = v[l]
  <2>1. PICK q \in 0 .. Vector \div 4 - 1, r \in {0, 1, 2, 3} :
           /\ q = l \div 4 /\ r = l % 4 /\ l = 4 * q + r
           /\ 4 * q \in Lane /\ 4 * q + 1 \in Lane /\ 4 * q + 2 \in Lane /\ 4 * q + 3 \in Lane
    BY LaneSplit
  <2> DEFINE b == 4 * q
             n == At(s, p + q)
  <2>2. n = PackWords(v)[q + 1] /\ q + 1 \in 1 .. Vector \div 4 /\ 4 * (q + 1 - 1) = b
    <3>1. q + 1 \in 1 .. Vector \div 4 /\ p + (q + 1) - 1 = p + q /\ 4 * (q + 1 - 1) = b
      BY LaneInt
    <3> QED BY <3>1
  <2>3. PackWords(v)[q + 1] = Word(v[b], v[b + 1], v[b + 2], v[b + 3])
    <3> HIDE DEF b
    <3> QED BY <2>2 DEF PackWords, Word
  <2>4. v[b] \in Bytes8 /\ v[b + 1] \in Bytes8 /\ v[b + 2] \in Bytes8 /\ v[b + 3] \in Bytes8
    BY <2>1
  <2>5. l = b + r /\ b + 0 = b
    BY <2>1
  <2> HIDE DEF b, n
  <2>6. Byte(n, 0) = v[b] /\ Byte(n, 1) = v[b + 1] /\ Byte(n, 2) = v[b + 2] /\ Byte(n, 3) = v[b + 3]
    <3>1. n = Word(v[b], v[b + 1], v[b + 2], v[b + 3])
      BY <2>2, <2>3
    <3> QED BY <2>4, <3>1, Bytes
  <2>7. Byte(n, r) = v[b + r]
    <3>2. CASE r = 0 BY ONLY <2>5, <2>6, <3>2
    <3>3. CASE r = 1 BY ONLY <2>6, <3>3
    <3>4. CASE r = 2 BY ONLY <2>6, <3>4
    <3>5. CASE r = 3 BY ONLY <2>6, <3>5
    <3> QED BY <3>2, <3>3, <3>4, <3>5
  <2> QED BY <2>1, <2>5, <2>7 DEF n
<1> QED BY <1>1 DEF UnpackWords, Byte

(* The permutation of four lanes, packed into the mask.                    *)
Nibbles(from) == MapThenSumSet(LAMBDA l : from[l] * 16^l, Lane)

LEMMA NibbleSum ==
  ASSUME Vector = 4, NEW from \in [Lane -> 0 .. 3]
  PROVE  Nibbles(from) = from[0] + from[1] * 16 + from[2] * 256 + from[3] * 4096
<1> DEFINE g == [l \in Lane |-> from[l] * 16^l]
           Solves(iter) ==
             iter = [s \in SUBSET Lane |->
                       IF s = {} THEN 0
                       ELSE from[CHOOSE x \in s : TRUE] * 16^(CHOOSE x \in s : TRUE)
                              + iter[s \ {CHOOSE x \in s : TRUE}]]
<1>1. ASSUME NEW iter PROVE Solves(iter) <=> SumsUp(iter, g, Lane)
  <2>1. \A s \in SUBSET Lane : s # {} => g[Pick(s)] = from[CHOOSE x \in s : TRUE] * 16^(CHOOSE x \in s : TRUE)
    BY PickIn DEF Pick
  <2> QED BY <2>1 DEF SumsUp, Pick
<1>2. Lane = 0 .. 3
  BY DEF Lane
<1>3. g[0] = from[0] /\ g[1] = from[1] * 16 /\ g[2] = from[2] * 256 /\ g[3] = from[3] * 4096
  <2>1. from[0] \in Int /\ 0 \in 0 .. 3 /\ 1 \in 0 .. 3 /\ 2 \in 0 .. 3 /\ 3 \in 0 .. 3
    BY <1>2
  <2>2. /\ g[0] = from[0] * 16^0 /\ g[1] = from[1] * 16^1 /\ g[2] = from[2] * 16^2 /\ g[3] = from[3] * 16^3
    BY <1>2, <2>1
  <2>3. 16^0 = 1 /\ 16^1 = 16 /\ 16^2 = 256 /\ 16^3 = 4096
    BY Powers
  <2> HIDE DEF g
  <2> QED BY <2>1, <2>2, <2>3
<1>4. \A l \in Lane : g[l] \in Nat
  <2>1. /\ from[0] \in Nat /\ from[1] \in Nat /\ from[2] \in Nat /\ from[3] \in Nat
    BY <1>2
  <2> HIDE DEF g
  <2>2. \A l \in Lane : l = 0 \/ l = 1 \/ l = 2 \/ l = 3
    BY <1>2
  <2>3. g[0] \in Nat /\ g[1] \in Nat /\ g[2] \in Nat /\ g[3] \in Nat
    BY <1>3, <2>1
  <2> QED BY <2>2, <2>3
<1>5. Nibbles(from) = (CHOOSE iter : Solves(iter))[Lane]
  BY DEF Nibbles, MapThenSumSet, MapThenFoldSet
<1> HIDE DEF Solves, g
<1>6. (CHOOSE iter : Solves(iter)) = (CHOOSE iter : SumsUp(iter, g, Lane))
  BY <1>1
<1>7. Nibbles(from) = Weight(g, 0 .. 3)
  <2>1. (CHOOSE iter : SumsUp(iter, g, Lane))[Lane] = Weight(g, Lane)
    BY <1>4, LaneInt, SumOver
  <2> QED BY <1>2, <1>5, <1>6, <2>1
<1>8. /\ Weight(g, 0 .. 0) = g[0]
      /\ \A m \in 1 .. 3 : Weight(g, 0 .. m) = Weight(g, 0 .. m - 1) + g[m]
  BY <1>2, <1>4, WeightUpTo
<1>9. Weight(g, 0 .. 3) = g[0] + g[1] + g[2] + g[3]
  <2>1. /\ Weight(g, 0 .. 1) = Weight(g, 0 .. 0) + g[1] /\ Weight(g, 0 .. 2) = Weight(g, 0 .. 1) + g[2]
        /\ Weight(g, 0 .. 3) = Weight(g, 0 .. 2) + g[3]
    <3>1. ASSUME NEW m \in 1 .. 3, NEW k, k = m - 1 PROVE Weight(g, 0 .. m) = Weight(g, 0 .. k) + g[m]
      BY <1>8, <3>1
    <3>2. 0 = 1 - 1 /\ 1 = 2 - 1 /\ 2 = 3 - 1
      OBVIOUS
    <3>3. 1 \in 1 .. 3 /\ 2 \in 1 .. 3 /\ 3 \in 1 .. 3
      OBVIOUS
    <3> QED BY <3>1, <3>2, <3>3
  <2>2. g[0] \in Nat /\ g[1] \in Nat /\ g[2] \in Nat /\ g[3] \in Nat
    BY <1>2, <1>4
  <2> QED BY <1>8, <2>1, <2>2
<1> QED BY <1>3, <1>7, <1>9

(* It is read back from there.                                             *)
LEMMA FourNibbles ==
  ASSUME NEW a \in 0 .. 3, NEW b \in 0 .. 3, NEW c \in 0 .. 3, NEW d \in 0 .. 3,
         NEW n, n = a + b * 16 + c * 256 + d * 4096
  PROVE  Nibble(n, 0) = a /\ Nibble(n, 1) = b /\ Nibble(n, 2) = c /\ Nibble(n, 3) = d /\ n # 4
<1>1. n \div 1 = a + (b + c * 16 + d * 256) * 16
  OBVIOUS
<1>2. n \div 16 = b + (c + d * 16) * 16
  OBVIOUS
<1>3. n \div 256 = c + d * 16
  OBVIOUS
<1>4. n \div 4096 = d
  OBVIOUS
<1>5. ASSUME NEW u \in 0 .. 3, NEW z \in Int PROVE (u + z * 16) % 16 = u
  OBVIOUS
<1>6. (n \div 1) % 16 = a /\ (n \div 16) % 16 = b /\ (n \div 256) % 16 = c
  <2>1. b + c * 16 + d * 256 \in Int /\ c + d * 16 \in Int /\ d \in Int
    OBVIOUS
  <2> QED BY <1>1, <1>2, <1>3, <1>5, <2>1
<1>7. (n \div 4096) % 16 = d
  BY <1>4
<1>8. n # 4
  OBVIOUS
<1>9. 16^0 = 1 /\ 16^1 = 16 /\ 16^2 = 256 /\ 16^3 = 4096
  BY Powers
<1> QED BY ONLY <1>6, <1>7, <1>8, <1>9 DEF Nibble

LEMMA NibblesUnpacked ==
  ASSUME Vector = 4, NEW from \in [Lane -> 0 .. 3]
  PROVE  /\ \A l \in Lane : (Nibbles(from) \div 16^l) % 16 = from[l]
         /\ Nibbles(from) # 4
<1>1. Lane = 0 .. 3
  BY DEF Lane
<1>2. from[0] \in 0 .. 3 /\ from[1] \in 0 .. 3 /\ from[2] \in 0 .. 3 /\ from[3] \in 0 .. 3
  BY <1>1
<1>3. Nibbles(from) = from[0] + from[1] * 16 + from[2] * 256 + from[3] * 4096
  BY NibbleSum
<1>4. /\ Nibble(Nibbles(from), 0) = from[0] /\ Nibble(Nibbles(from), 1) = from[1]
      /\ Nibble(Nibbles(from), 2) = from[2] /\ Nibble(Nibbles(from), 3) = from[3] /\ Nibbles(from) # 4
  BY ONLY <1>2, <1>3, FourNibbles
<1>5. \A l \in Lane : l = 0 \/ l = 1 \/ l = 2 \/ l = 3
  BY <1>1
<1>6. \A l \in Lane : Nibble(Nibbles(from), l) = from[l]
  BY ONLY <1>4, <1>5
<1> QED BY <1>4, <1>6 DEF Nibble

(* The lanes at which an index changes, and how many of them are between   *)
(* lane 0 and a lane.                                                      *)
Changes(idx) == {l \in Lane : l = 0 \/ idx[l] # idx[l - 1]}
Upto(S, l)   == Cardinality({m \in 1 .. l : m \in S})

(* Counting up lane by lane.                                               *)
LEMMA UptoSteps ==
  ASSUME NEW S
  PROVE  /\ Upto(S, 0) = 0
         /\ \A l \in Nat : Upto(S, l) \in Nat /\ Upto(S, l) <= l
         /\ \A l \in Nat \ {0} : Upto(S, l) = Upto(S, l - 1) + (IF l \in S THEN 1 ELSE 0)
<1>1. Upto(S, 0) = 0
  <2>1. {m \in 1 .. 0 : m \in S} = {}
    OBVIOUS
  <2> QED BY <2>1, FS_EmptySet DEF Upto
<1>2. ASSUME NEW l \in Nat
      PROVE  IsFiniteSet({m \in 1 .. l : m \in S}) /\ Upto(S, l) \in Nat /\ Upto(S, l) <= l
  <2>1. IsFiniteSet(1 .. l) /\ Cardinality(1 .. l) = l
    <3>1. 1 \in Int /\ l \in Int /\ (1 > l => l = 0) /\ (~ (1 > l) => l - 1 + 1 = l)
      OBVIOUS
    <3> QED BY <3>1, FS_Interval
  <2>2. {m \in 1 .. l : m \in S} \subseteq 1 .. l
    OBVIOUS
  <2> QED BY <2>1, <2>2, FS_Subset, FS_CardinalityType DEF Upto
<1>3. ASSUME NEW l \in Nat \ {0}
      PROVE  Upto(S, l) = Upto(S, l - 1) + (IF l \in S THEN 1 ELSE 0)
  <2> DEFINE A == {m \in 1 .. l - 1 : m \in S}
             B == {m \in 1 .. l : m \in S}
  <2>1. IsFiniteSet(A) /\ Cardinality(A) \in Nat /\ l \notin A
    <3>1. l - 1 \in Nat /\ l \notin 1 .. l - 1
      OBVIOUS
    <3> QED BY <1>2, <3>1 DEF Upto
  <2>2. B = IF l \in S THEN A \cup {l} ELSE A
    OBVIOUS
  <2>3. Upto(S, l) = Cardinality(B) /\ Upto(S, l - 1) = Cardinality(A)
    BY DEF Upto
  <2> HIDE DEF A, B
  <2>4. Cardinality(A \cup {l}) = Cardinality(A) + 1
    BY <2>1, FS_AddElement
  <2>5. Cardinality(B) = Cardinality(A) + (IF l \in S THEN 1 ELSE 0)
    BY <2>1, <2>2, <2>4
  <2> QED BY <2>3, <2>5
<1> QED BY <1>1, <1>2, <1>3

(* It never goes down.                                                     *)
LEMMA UptoGrows ==
  ASSUME NEW S, NEW k \in Nat, NEW l \in Nat, k <= l
  PROVE  Upto(S, k) <= Upto(S, l)
<1>1. {m \in 1 .. k : m \in S} \subseteq {m \in 1 .. l : m \in S}
  OBVIOUS
<1>2. IsFiniteSet({m \in 1 .. l : m \in S})
  <2>1. 1 \in Int /\ l \in Int
    OBVIOUS
  <2>2. IsFiniteSet(1 .. l)
    BY <2>1, FS_Interval
  <2> QED BY <2>2, FS_Subset
<1> QED BY <1>1, <1>2, FS_Subset DEF Upto

(* Steps of zero and one count the changes.                                *)
LEMMA StepsCount ==
  ASSUME NEW idx \in [Lane -> Int], \A l \in 1 .. Vector - 1 : idx[l] - idx[l - 1] \in {0, 1}
  PROVE  \A l \in Lane : idx[l] = idx[0] + Upto(Changes(idx), l)
<1> DEFINE S == Changes(idx)
           Wrong == {l \in Lane : idx[l] # idx[0] + Upto(S, l)}
<1> SUFFICES ASSUME Wrong # {} PROVE FALSE
  OBVIOUS
<1>1. PICK l \in Wrong : \A k \in Wrong : l <= k
  <2>1. Wrong \in SUBSET Nat
    BY LaneInt
  <2> HIDE DEF Wrong
  <2> QED BY <2>1, LeastNat
<1>2. l \in Lane /\ idx[l] # idx[0] + Upto(S, l) /\ l \in Nat
  BY LaneInt
<1>3. 0 \in Lane
  BY LaneInt DEF Lane
<1>4. l # 0
  <2>1. Upto(S, 0) = 0
    BY UptoSteps
  <2> QED BY <1>2, <1>3, <2>1
<1>5. l \in 1 .. Vector - 1 /\ l - 1 \in Lane /\ l - 1 < l
  BY <1>2, <1>4, LaneInt DEF Lane
<1>6. idx[l - 1] = idx[0] + Upto(S, l - 1)
  <2>1. l - 1 \notin Wrong
    <3> HIDE DEF Wrong
    <3> QED BY <1>1, <1>2, <1>5
  <2> QED BY <1>5, <2>1
<1>7. l \in S <=> idx[l] # idx[l - 1]
  BY <1>2, <1>4 DEF Changes
<1>8. Upto(S, l) = Upto(S, l - 1) + (IF l \in S THEN 1 ELSE 0) /\ Upto(S, l - 1) \in Nat
  <2>1. l - 1 \in Nat /\ l \in Nat \ {0}
    BY <1>2, <1>4
  <2> QED BY <2>1, UptoSteps
<1>9. idx[l] - idx[l - 1] \in {0, 1} /\ idx[l] \in Int /\ idx[l - 1] \in Int /\ idx[0] \in Int
  BY <1>2, <1>3, <1>5
<1> HIDE DEF S, Wrong
<1> QED BY <1>2, <1>6, <1>7, <1>8, <1>9

(* Without changes there is one index.                                     *)
LEMMA StepsNone ==
  ASSUME NEW idx \in [Lane -> Int], OrderTypeOf(idx) = OrderEquel
  PROVE  \A l \in Lane : idx[l] = idx[0]
<1>1. \A l \in 1 .. Vector - 1 : idx[l] - idx[l - 1] \in {0}
  BY DEF OrderTypeOf, DisOrder, IncContinue, OrderEquel
<1>2. \A l \in Lane : idx[l] = idx[0] + Upto(Changes(idx), l)
  BY <1>1, StepsCount
<1>3. ASSUME NEW l \in Lane PROVE Upto(Changes(idx), l) = 0
  <2>1. ASSUME NEW m \in 1 .. l PROVE m \notin Changes(idx)
    <3>1. m \in 1 .. Vector - 1 /\ m # 0
      BY LaneInt DEF Lane
    <3>2. m \in Lane /\ m - 1 \in Lane
      BY <3>1, LaneInt DEF Lane
    <3>3. idx[m] - idx[m - 1] = 0 /\ idx[m] \in Int /\ idx[m - 1] \in Int
      BY <1>1, <3>1, <3>2
    <3>4. idx[m] = idx[m - 1]
      BY <3>3
    <3> QED BY <3>1, <3>4 DEF Changes
  <2>2. {m \in 1 .. l : m \in Changes(idx)} = {}
    BY <2>1
  <2> QED BY <2>2, FS_EmptySet DEF Upto
<1>4. 0 \in Lane
  BY LaneInt DEF Lane
<1>5. idx[0] \in Int
  BY <1>4
<1> QED BY <1>2, <1>3, <1>5

(* The mask of a column that only stays or steps by one.                   *)
LEMMA ContinueMask ==
  ASSUME NEW idx \in [Lane -> Int], OrderTypeOf(idx) = IncContinue
  PROVE  LET mask == ChangeMask(idx) IN
         /\ \A l \in Lane : HasBit(mask, l) <=> l \in Changes(idx)
         /\ \A l \in Lane : ExpandIndex(mask)[l] = Upto(Changes(idx), l) /\ idx[l] = idx[0] + Upto(Changes(idx), l)
         /\ PopCount(mask) = Upto(Changes(idx), Vector - 1) + 1
         /\ PopCount(mask) = Cardinality(Changes(idx))
         /\ PopCount(mask) \in 1 .. Vector
         /\ \A l \in Lane : Upto(Changes(idx), l) < PopCount(mask) /\ Upto(Changes(idx), l) \in Nat
<1> DEFINE S    == Changes(idx)
           mask == ChangeMask(idx)
<1>1. Vector <= 8 /\ \A l \in 1 .. Vector - 1 : idx[l] - idx[l - 1] \in {0, 1}
  BY DEF OrderTypeOf, DisOrder, IncContinue, OrderEquel
<1>2. ASSUME NEW l \in Lane PROVE HasBit(mask, l) <=> l \in S
  <2>1. S \in SUBSET Lane /\ mask = MaskOf(S)
    BY DEF ChangeMask, Changes
  <2> HIDE DEF S, mask
  <2> QED BY <1>1, <2>1, MaskBits
<1> HIDE DEF mask
<1>3. ASSUME NEW l \in Lane PROVE ExpandIndex(mask)[l] = Upto(S, l)
  <2>1. ASSUME NEW m \in 1 .. l PROVE HasBit(mask, m) <=> m \in S
    <3>1. m \in Lane
      BY LaneInt DEF Lane
    <3> QED BY <1>2, <3>1
  <2>2. {m \in 1 .. l : HasBit(mask, m)} = {m \in 1 .. l : m \in S}
    BY <2>1
  <2> QED BY <2>2 DEF ExpandIndex, Upto
<1>4. \A l \in Lane : idx[l] = idx[0] + Upto(S, l)
  BY <1>1, StepsCount
<1>5. {l \in Lane : HasBit(mask, l)} = S /\ PopCount(mask) = Cardinality(S)
  <2>1. {l \in Lane : HasBit(mask, l)} = S
    BY <1>2 DEF Changes
  <2> QED BY <2>1 DEF PopCount
<1>6. Cardinality(S) = Upto(S, Vector - 1) + 1 /\ Upto(S, Vector - 1) \in Nat
  <2> DEFINE A == {m \in 1 .. Vector - 1 : m \in S}
  <2>1. S = A \cup {0} /\ 0 \notin A
    <3>1. \A m : m \in S => m \in 0 .. Vector - 1
      BY DEF Changes, Lane
    <3>2. 0 \in S
      BY LaneInt DEF Changes, Lane
    <3> QED BY <3>1, <3>2, LaneInt
  <2>2. IsFiniteSet(A)
    <3>1. 1 \in Int /\ Vector - 1 \in Int
      BY LaneInt
    <3>2. IsFiniteSet(1 .. Vector - 1)
      BY <3>1, FS_Interval
    <3> QED BY <3>2, FS_Subset
  <2>3. Upto(S, Vector - 1) = Cardinality(A)
    BY DEF Upto
  <2> HIDE DEF A
  <2> QED BY <2>1, <2>2, <2>3, FS_AddElement, FS_CardinalityType
<1>7. Upto(S, Vector - 1) <= Vector - 1 /\ Vector - 1 \in Nat
  <2>1. Vector - 1 \in Nat
    BY LaneInt
  <2> QED BY <2>1, UptoSteps
<1>8. ASSUME NEW l \in Lane PROVE Upto(S, l) \in Nat /\ Upto(S, l) <= Upto(S, Vector - 1)
  <2>1. l \in Nat /\ l <= Vector - 1
    BY LaneInt DEF Lane
  <2> QED BY <1>7, <2>1, UptoSteps, UptoGrows
<1>9. PopCount(mask) \in 1 .. Vector
  BY <1>5, <1>6, <1>7, LaneInt
<1>10. \A l \in Lane : Upto(S, l) < PopCount(mask) /\ Upto(S, l) \in Nat
  BY <1>5, <1>6, <1>8
<1> HIDE DEF S
<1> QED BY <1>2, <1>3, <1>4, <1>5, <1>6, <1>9, <1>10 DEF mask, S

(* The least index of a column, and how far each lane is from it.          *)
Least(idx) == CHOOSE m \in {idx[l] : l \in Lane} : \A l \in Lane : m <= idx[l]
From(idx)  == [l \in Lane |-> idx[l] - Least(idx)]

LEMMA LeastIs ==
  ASSUME NEW idx \in [Lane -> Nat]
  PROVE  /\ Least(idx) \in {idx[l] : l \in Lane} /\ Least(idx) \in Nat
         /\ \A l \in Lane : Least(idx) <= idx[l] /\ From(idx)[l] = idx[l] - Least(idx) /\ From(idx)[l] \in Nat
<1> DEFINE T == {idx[l] : l \in Lane}
<1>1. T \in SUBSET Nat /\ T # {}
  BY LaneInt DEF Lane
<1>2. PICK m \in T : \A n \in T : m <= n
  <2> HIDE DEF T
  <2> QED BY <1>1, LeastNat
<1>3. \A l \in Lane : m <= idx[l]
  BY <1>2
<1>4. Least(idx) \in T /\ \A l \in Lane : Least(idx) <= idx[l]
  BY <1>3 DEF Least
<1>5. ASSUME NEW l \in Lane PROVE From(idx)[l] = idx[l] - Least(idx) /\ From(idx)[l] \in Nat
  <2>1. idx[l] \in Nat /\ Least(idx) \in Nat /\ Least(idx) <= idx[l]
    BY <1>1, <1>4
  <2> QED BY <2>1 DEF From
<1> QED BY <1>1, <1>4, <1>5

(* What the stream holds from p on for the gather of a column.             *)
GatherReads(idx, s, p) ==
  LET info == GatherInfo(idx) IN
  /\ info.order # DisOrder => At(s, p) = idx[0]
  /\ info.order = DisOrder /\ info.mask = Vector => \A l \in Lane : At(s, p + l) = idx[l]
  /\ info.order = DisOrder /\ info.mask # Vector =>
       /\ At(s, p) = Least(idx)
       /\ Vector > 4 => \A w \in 1 .. Vector \div 4 : At(s, p + w) = PackWords(From(idx))[w]

(* The Info of a column in disorder.                                       *)
LEMMA DisorderInfo ==
  ASSUME NEW idx \in [Lane -> Nat], OrderTypeOf(idx) = DisOrder
  PROVE  LET info == GatherInfo(idx) IN
         /\ info.order = DisOrder
         /\ OneLoadReaches(idx, Least(idx)) =>
              /\ From(idx) \in [Lane -> 0 .. Vector - 1]
              /\ Vector > 4 => info.mask = 1
              /\ Vector = 4 => info.mask = Nibbles(From(idx)) /\ info.mask # Vector
              /\ info.mask # Vector /\ OneLoad(info)
         /\ ~ OneLoadReaches(idx, Least(idx)) => info.mask = Vector /\ ~ OneLoad(info)
<1> DEFINE info == GatherInfo(idx)
           reaches == OneLoadReaches(idx, Least(idx))
<1>1. info = GatherDisorderInfo(idx)
  BY DEF GatherInfo, DisOrder, OrderedInfo
<1>2. info.order = DisOrder /\ info.mask = IF reaches THEN IF Vector > 4 THEN 1 ELSE Nibbles(From(idx)) ELSE Vector
  <2> DEFINE min == CHOOSE m \in {idx[l] : l \in Lane} : \A l \in Lane : m <= idx[l]
             from == [l \in Lane |-> idx[l] - min]
             nibbles == MapThenSumSet(LAMBDA l : from[l] * 16^l, Lane)
  <2>1. min = Least(idx) /\ from = From(idx)
    BY DEF Least, From
  <2>2. nibbles = Nibbles(From(idx))
    BY DEF Nibbles, From, Least
  <2>3. info = IF OneLoadReaches(idx, min)
                 THEN [order |-> DisOrder,
                       mask  |-> IF Vector > 4 THEN 1 ELSE nibbles,
                       index |-> <<min>>,
                       perm  |-> IF Vector > 4 THEN PackWords(from) ELSE <<>>]
                 ELSE [order |-> DisOrder, mask |-> Vector, index |-> Listed(idx), perm |-> <<>>]
    BY <1>1 DEF GatherDisorderInfo
  <2> HIDE DEF min, from, nibbles, info
  <2> QED BY <2>1, <2>2, <2>3
<1> HIDE DEF info
<1>3. ASSUME reaches
      PROVE  /\ From(idx) \in [Lane -> 0 .. Vector - 1]
             /\ Vector > 4 => info.mask = 1
             /\ Vector = 4 => info.mask = Nibbles(From(idx)) /\ info.mask # Vector
             /\ info.mask # Vector /\ OneLoad(info)
  <2>1. ASSUME NEW l \in Lane PROVE From(idx)[l] \in 0 .. Vector - 1
    <3>1. idx[l] < Least(idx) + Vector
      BY <1>3 DEF OneLoadReaches
    <3>2. From(idx)[l] = idx[l] - Least(idx) /\ From(idx)[l] \in Nat /\ Least(idx) \in Nat /\ idx[l] \in Nat
      BY LeastIs
    <3> QED BY <3>1, <3>2, LaneInt
  <2>2. From(idx) \in [Lane -> 0 .. Vector - 1]
    BY <2>1 DEF From
  <2>3. Vector > 4 => info.mask = 1 /\ info.mask # Vector
    BY <1>2, <1>3
  <2>4. Vector = 4 => info.mask = Nibbles(From(idx)) /\ info.mask # Vector
    <3> SUFFICES ASSUME Vector = 4 PROVE info.mask = Nibbles(From(idx)) /\ info.mask # Vector
      OBVIOUS
    <3>1. info.mask = Nibbles(From(idx))
      BY <1>2, <1>3
    <3>2. From(idx) \in [Lane -> 0 .. 3]
      BY <2>2
    <3>3. Nibbles(From(idx)) # 4
      BY <3>2, NibblesUnpacked
    <3> QED BY <3>1, <3>3
  <2>5. Vector > 4 \/ Vector = 4
    BY VectorAssumption
  <2> QED BY <1>2, <2>2, <2>3, <2>4, <2>5 DEF OneLoad
<1>4. ASSUME ~ reaches PROVE info.mask = Vector /\ ~ OneLoad(info)
  BY <1>2, <1>4, LaneInt DEF OneLoad
<1> QED BY <1>2, <1>3, <1>4 DEF info

(* The Info of a column in order.                                          *)
LEMMA OrderInfo ==
  ASSUME NEW idx, OrderTypeOf(idx) # DisOrder
  PROVE  /\ GatherInfo(idx) = OrderedInfo(idx, OrderTypeOf(idx))
         /\ ScatterInfo(idx) = OrderedInfo(idx, OrderTypeOf(idx))
         /\ OrderedInfo(idx, OrderTypeOf(idx)).order = OrderTypeOf(idx)
         /\ OrderedInfo(idx, OrderTypeOf(idx)).index = <<idx[0]>>
         /\ OrderTypeOf(idx) = OrderEquel => OrderedInfo(idx, OrderTypeOf(idx)).mask = 1
         /\ OrderTypeOf(idx) = IncContinue => OrderedInfo(idx, OrderTypeOf(idx)).mask = ChangeMask(idx)
BY DEF GatherInfo, ScatterInfo, OrderedInfo, IncContinue, OrderEquel

(* One load of neighbours and a permutation bring the lanes.               *)
LEMMA OneLoadBrings ==
  ASSUME NEW idx \in [Lane -> 0 .. XNum - 1], OrderTypeOf(idx) = DisOrder,
         OneLoadReaches(idx, Least(idx)), NEW info, info.mask = GatherInfo(idx).mask,
         NEW s, NEW p \in Int, GatherReads(idx, s, p)
  PROVE  GatherOneLoad(info, s, p) = idx
<1> DEFINE from   == From(idx)
           loaded == [l \in Lane |-> XAt(At(s, p) + l)]
<1>1. idx \in [Lane -> Nat]
  BY SizeAssumption
<1>2. /\ GatherInfo(idx).order = DisOrder /\ GatherInfo(idx).mask # Vector
      /\ from \in [Lane -> 0 .. Vector - 1]
      /\ Vector = 4 => info.mask = Nibbles(from)
  BY <1>1, DisorderInfo
<1>3. At(s, p) = Least(idx) /\ (Vector > 4 => \A w \in 1 .. Vector \div 4 : At(s, p + w) = PackWords(from)[w])
  BY <1>2 DEF GatherReads
<1>4. ASSUME NEW l \in Lane PROVE from[l] \in Lane /\ loaded[from[l]] = idx[l] /\ from[l] \in 0 .. Vector - 1
  <2>1. from[l] \in Lane /\ from[l] = idx[l] - Least(idx) /\ Least(idx) \in Nat /\ idx[l] \in Nat
    BY <1>1, <1>2, LeastIs DEF Lane
  <2>2. At(s, p) + from[l] = idx[l]
    BY <1>3, <2>1
  <2>3. idx[l] \in 0 .. XNum - 1
    OBVIOUS
  <2> QED BY <2>1, <2>2, <2>3 DEF XAt, Lane
<1> HIDE DEF loaded, from
<1>5. CASE Vector > 4
  <2>1. UnpackWords(s, p + 1) = from
    <3>1. from \in [Lane -> Bytes8]
      BY <1>2, VectorAssumption DEF Bytes8
    <3>2. ASSUME NEW w \in 1 .. Vector \div 4 PROVE At(s, (p + 1) + w - 1) = PackWords(from)[w]
      <4>1. (p + 1) + w - 1 = p + w
        OBVIOUS
      <4> QED BY <1>3, <1>5, <4>1
    <3>3. p + 1 \in Int
      OBVIOUS
    <3> QED BY <3>1, <3>2, <3>3, WordsUnpacked
  <2>2. GatherOneLoad(info, s, p) = PermVar(loaded, from)
    BY <1>5, <2>1 DEF GatherOneLoad, loaded
  <2>3. ASSUME NEW l \in Lane PROVE PermVar(loaded, from)[l] = idx[l]
    <3>1. from[l] % Vector = from[l]
      BY <1>4, VectorAssumption
    <3> QED BY <1>4, <3>1 DEF PermVar
  <2>4. PermVar(loaded, from) = [l \in Lane |-> PermVar(loaded, from)[l]]
    BY DEF PermVar
  <2>5. PermVar(loaded, from) = idx
    BY <2>3, <2>4
  <2> QED BY <2>2, <2>5
<1>6. CASE Vector = 4
  <2> DEFINE perm == [l \in Lane |-> (info.mask \div 16^l) % 16]
  <2>1. GatherOneLoad(info, s, p) = ShuffleVector(loaded, Garbage, perm)
    BY <1>6 DEF GatherOneLoad, loaded
  <2>2. ASSUME NEW l \in Lane PROVE perm[l] = from[l] /\ perm[l] < Vector
    <3>1. from \in [Lane -> 0 .. 3]
      BY <1>2, <1>6
    <3>2. (Nibbles(from) \div 16^l) % 16 = from[l]
      BY <1>6, <3>1, NibblesUnpacked
    <3>3. perm[l] = (info.mask \div 16^l) % 16
      OBVIOUS
    <3> HIDE DEF perm
    <3>4. perm[l] = from[l]
      BY <1>2, <1>6, <3>2, <3>3
    <3>5. from[l] \in 0 .. 3
      BY <3>1
    <3> QED BY <1>6, <3>4, <3>5
  <2> HIDE DEF perm
  <2>3. ASSUME NEW l \in Lane PROVE ShuffleVector(loaded, Garbage, perm)[l] = idx[l]
    BY <1>4, <2>2 DEF ShuffleVector
  <2>4. ShuffleVector(loaded, Garbage, perm) = [l \in Lane |-> ShuffleVector(loaded, Garbage, perm)[l]]
    BY DEF ShuffleVector
  <2>5. ShuffleVector(loaded, Garbage, perm) = idx
    BY <2>3, <2>4
  <2> QED BY <2>1, <2>5
<1> QED BY <1>5, <1>6, VectorAssumption

(* A masked load of neighbours, spread out, brings the lanes.              *)
LEMMA ContinueBrings ==
  ASSUME NEW idx \in [Lane -> 0 .. XNum - 1], OrderTypeOf(idx) = IncContinue,
         NEW info, info.mask = ChangeMask(idx), NEW s, NEW p \in Int, At(s, p) = idx[0]
  PROVE  GatherContinue(info, s, p) = idx
<1> DEFINE S      == Changes(idx)
           mask   == info.mask
           loaded == [l \in Lane |-> IF l \in CompressMask(mask) THEN XAt(At(s, p) + l) ELSE Garbage]
<1>1. idx \in [Lane -> Int]
  BY SizeAssumption
<1>2. /\ \A l \in Lane : ExpandIndex(mask)[l] = Upto(S, l) /\ idx[l] = idx[0] + Upto(S, l)
      /\ PopCount(mask) = Upto(S, Vector - 1) + 1
      /\ PopCount(mask) \in 1 .. Vector
      /\ \A l \in Lane : Upto(S, l) < PopCount(mask) /\ Upto(S, l) \in Nat
  BY <1>1, ContinueMask
<1> HIDE DEF S, mask
<1>3. ASSUME NEW l \in Lane PROVE Upto(S, l) \in Lane /\ loaded[Upto(S, l)] = idx[l]
  <2>1. Upto(S, l) \in Lane /\ Upto(S, l) \in CompressMask(mask)
    <3>1. Upto(S, l) \in Nat /\ Upto(S, l) < PopCount(mask) /\ PopCount(mask) \in 1 .. Vector
      BY <1>2
    <3>2. Upto(S, l) \in Lane
      BY <3>1, LaneInt DEF Lane
    <3> QED BY <3>1, <3>2 DEF CompressMask
  <2>2. XAt(At(s, p) + Upto(S, l)) = idx[l]
    <3>1. idx[l] \in 0 .. XNum - 1 /\ At(s, p) + Upto(S, l) = idx[l]
      BY <1>2
    <3> QED BY <3>1 DEF XAt
  <2> QED BY <2>1, <2>2
<1> HIDE DEF loaded
<1>4. CASE PopCount(mask) = Vector
  <2>1. GatherContinue(info, s, p) = loaded
    BY <1>4 DEF GatherContinue, loaded, mask
  <2>2. ASSUME NEW l \in Lane PROVE Upto(S, l) = l
    <3> DEFINE Wrong == {k \in Lane : Upto(S, k) # k}
    <3> SUFFICES ASSUME Wrong # {} PROVE FALSE
      OBVIOUS
    <3>1. PICK d \in {Vector - 1 - k : k \in Wrong} : \A e \in {Vector - 1 - k : k \in Wrong} : d <= e
      <4>1. {Vector - 1 - k : k \in Wrong} \in SUBSET Nat /\ {Vector - 1 - k : k \in Wrong} # {}
        BY LaneInt DEF Lane
      <4> QED BY <4>1, LeastNat
    <3>2. PICK k \in Wrong : d = Vector - 1 - k
      OBVIOUS
    <3>3. k \in Lane /\ Upto(S, k) # k /\ k \in Nat /\ Vector \in Nat
      BY LaneInt
    <3>4. k # Vector - 1
      <4>1. Upto(S, Vector - 1) = Vector - 1
        <5>1. Vector - 1 \in Lane
          BY LaneInt DEF Lane
        <5>2. Upto(S, Vector - 1) \in Nat
          BY <1>2, <5>1
        <5> QED BY <1>2, <1>4, <5>2, LaneInt
      <4> QED BY <3>3, <4>1
    <3>5. k + 1 \in Lane /\ Vector - 1 - (k + 1) < d /\ (k + 1) - 1 = k /\ k + 1 \in Nat \ {0}
      BY <3>2, <3>3, <3>4, LaneInt DEF Lane
    <3>6. k + 1 \notin Wrong
      <4>1. ASSUME k + 1 \in Wrong PROVE FALSE
        <5>1. d <= Vector - 1 - (k + 1)
          BY <3>1, <4>1
        <5> QED BY <3>2, <3>3, <3>5, <5>1
      <4> QED BY <4>1
    <3>7. Upto(S, k + 1) = k + 1
      BY <3>5, <3>6
    <3>8. Upto(S, k + 1) = Upto(S, k) + (IF k + 1 \in S THEN 1 ELSE 0)
      <4>1. \A j \in Nat \ {0} : Upto(S, j) = Upto(S, j - 1) + (IF j \in S THEN 1 ELSE 0)
        BY UptoSteps
      <4>2. Upto(S, k + 1) = Upto(S, (k + 1) - 1) + (IF k + 1 \in S THEN 1 ELSE 0)
        BY <3>5, <4>1
      <4> QED BY <3>5, <4>2
    <3>9. Upto(S, k) \in Nat /\ Upto(S, k) <= k
      BY <3>3, UptoSteps
    <3> HIDE DEF Wrong
    <3> QED BY <3>3, <3>7, <3>8, <3>9
  <2>3. loaded = [l \in Lane |-> loaded[l]]
    BY DEF loaded
  <2>4. \A l \in Lane : loaded[l] = idx[l]
    BY <1>3, <2>2
  <2>5. loaded = idx
    BY <2>3, <2>4
  <2> QED BY <2>1, <2>5
<1>5. CASE PopCount(mask) # Vector
  <2> DEFINE z == ShuffleVector(loaded, Garbage, ExpandIndex(mask))
  <2>1. GatherContinue(info, s, p) = z
    BY <1>5 DEF GatherContinue, loaded, mask
  <2>2. ASSUME NEW l \in Lane PROVE z[l] = idx[l]
    <3>1. ExpandIndex(mask)[l] = Upto(S, l) /\ Upto(S, l) < Vector
      <4>1. Upto(S, l) \in Lane
        BY <1>3
      <4> QED BY <1>2, <4>1, LaneInt DEF Lane
    <3> QED BY <1>3, <3>1 DEF ShuffleVector
  <2>3. z = [l \in Lane |-> z[l]]
    BY DEF ShuffleVector
  <2> HIDE DEF z
  <2>4. z = idx
    BY <2>2, <2>3
  <2> QED BY <2>1, <2>4
<1> QED BY <1>4, <1>5

(* The gather brings to each lane the value of x at its index: for every   *)
(* column, whatever code pass_(Gather) generates for the order type and    *)
(* the mask of its Info, with the entries transform_data wrote for it.     *)
THEOREM GatherBrings ==
  ASSUME NEW idx \in [Lane -> 0 .. XNum - 1],
         NEW info, info.order = GatherInfo(idx).order, info.mask = GatherInfo(idx).mask,
         NEW s, NEW p \in Int, GatherReads(idx, s, p)
  PROVE  GatherX(info, s, p) = idx
<1>1. idx \in [Lane -> Nat] /\ idx \in [Lane -> Int]
  BY SizeAssumption
<1>2. 0 \in Lane /\ idx = [l \in Lane |-> idx[l]] /\ \A l \in Lane : XAt(idx[l]) = idx[l]
  BY LaneInt DEF Lane, XAt
<1>3. CASE OrderTypeOf(idx) = DisOrder
  <2>1. GatherInfo(idx).order = DisOrder /\ info.order = DisOrder
    BY <1>1, <1>3, DisorderInfo
  <2>2. CASE OneLoadReaches(idx, Least(idx))
    <3>1. OneLoad(GatherInfo(idx))
      BY <1>1, <1>3, <2>2, DisorderInfo
    <3>2. OneLoad(info)
      BY <3>1 DEF OneLoad
    <3> QED BY <1>3, <2>2, <3>2, OneLoadBrings DEF GatherX
  <2>3. CASE ~ OneLoadReaches(idx, Least(idx))
    <3>1. ~ OneLoad(GatherInfo(idx)) /\ GatherInfo(idx).mask = Vector
      BY <1>1, <1>3, <2>3, DisorderInfo
    <3>2. ~ OneLoad(info)
      BY <3>1 DEF OneLoad
    <3>3. GatherX(info, s, p) = [l \in Lane |-> XAt(At(s, p + l))]
      BY <2>1, <3>2 DEF GatherX, DisOrder, IncContinue, OrderEquel
    <3>4. \A l \in Lane : At(s, p + l) = idx[l]
      BY <2>1, <3>1 DEF GatherReads
    <3> QED BY <1>2, <3>3, <3>4
  <2> QED BY <2>2, <2>3
<1>4. CASE OrderTypeOf(idx) # DisOrder
  <2>1. /\ info.order = OrderTypeOf(idx) /\ GatherInfo(idx).order = OrderTypeOf(idx)
        /\ OrderTypeOf(idx) = IncContinue => info.mask = ChangeMask(idx)
    BY <1>4, OrderInfo
  <2>2. ~ OneLoad(info) /\ At(s, p) = idx[0]
    BY <1>4, <2>1 DEF OneLoad, GatherReads
  <2>3. CASE OrderTypeOf(idx) = IncContinue
    <3>1. GatherX(info, s, p) = GatherContinue(info, s, p)
      BY <2>1, <2>2, <2>3 DEF GatherX
    <3> QED BY <2>1, <2>2, <2>3, <3>1, ContinueBrings
  <2>4. CASE OrderTypeOf(idx) = OrderEquel
    <3>1. GatherX(info, s, p) = [l \in Lane |-> XAt(At(s, p))]
      BY <2>1, <2>2, <2>4 DEF GatherX, IncContinue, OrderEquel
    <3>2. \A l \in Lane : idx[l] = idx[0]
      BY <1>1, <2>4, StepsNone
    <3>3. \A l \in Lane : XAt(At(s, p)) = idx[l]
      BY <1>2, <2>2, <3>2
    <3> QED BY <1>2, <3>1, <3>3
  <2> QED BY <1>4, <2>3, <2>4, OrderTypes
<1> QED BY <1>3, <1>4

-----------------------------------------------------------------------------
(* Sums of lanes.  Lane l holds the products T[l]; no product is in two    *)
(* lanes.                                                                  *)

InLanes(T, G) == UNION {T[l] : l \in G}
SumOf(T, G)   == SetToBag(InLanes(T, G))
Disjoint(T)   == \A k, l \in Lane : k # l => T[k] \cap T[l] = {}

(* The sum of two bags of different products is the bag of both.           *)
LEMMA BagJoin ==
  ASSUME NEW A, NEW B, A \cap B = {}
  PROVE  SetToBag(A) (+) SetToBag(B) = SetToBag(A \cup B)
<1>1. SetToBag(A) = [e \in A |-> 1] /\ SetToBag(B) = [e \in B |-> 1] /\ SetToBag(A \cup B) = [e \in A \cup B |-> 1]
  BY DEF SetToBag
<1>2. SetToBag(A) (+) SetToBag(B) = [e \in A \cup B |-> (IF e \in A THEN 1 ELSE 0) + (IF e \in B THEN 1 ELSE 0)]
  BY <1>1 DEF (+)
<1>3. \A e \in A \cup B : (IF e \in A THEN 1 ELSE 0) + (IF e \in B THEN 1 ELSE 0) = 1
  OBVIOUS
<1> QED BY <1>1, <1>2, <1>3

(* So is the sum of two sums of different lanes, the sum of one lane and   *)
(* of none.                                                                *)
LEMMA SumJoin ==
  ASSUME NEW T, Disjoint(T), NEW G \in SUBSET Lane, NEW H \in SUBSET Lane, G \cap H = {}
  PROVE  SumOf(T, G) (+) SumOf(T, H) = SumOf(T, G \cup H)
<1>1. InLanes(T, G) \cap InLanes(T, H) = {}
  <2> SUFFICES ASSUME NEW e, e \in InLanes(T, G), e \in InLanes(T, H) PROVE FALSE
    OBVIOUS
  <2>1. PICK k \in G : e \in T[k]
    BY DEF InLanes
  <2>2. PICK l \in H : e \in T[l]
    BY DEF InLanes
  <2>3. k \in Lane /\ l \in Lane /\ k # l
    OBVIOUS
  <2> QED BY <2>1, <2>2, <2>3 DEF Disjoint
<1>2. InLanes(T, G) \cup InLanes(T, H) = InLanes(T, G \cup H)
  BY DEF InLanes
<1> QED BY <1>1, <1>2, BagJoin DEF SumOf

LEMMA SumFew ==
  ASSUME NEW T
  PROVE  SumOf(T, {}) = EmptyBag /\ \A l : SumOf(T, {l}) = SetToBag(T[l])
<1>1. InLanes(T, {}) = {} /\ \A l : InLanes(T, {l}) = T[l]
  BY DEF InLanes
<1> QED BY <1>1 DEF SumOf, EmptyBag

(* The recursion of FoldFunction that Reduce is, of lanes.                 *)
Folds1(iter, v) ==
  iter = [s \in SUBSET Lane |-> IF s = {} THEN EmptyBag ELSE v[Pick(s)] (+) iter[s \ {Pick(s)}]]

(* All lanes in one are their sum.                                         *)
LEMMA ReduceLanesSums ==
  ASSUME NEW T, Disjoint(T), NEW v, v = [l \in Lane |-> SetToBag(T[l])]
  PROVE  ReduceLanes(v) = SumOf(T, Lane)
<1> DEFINE w == [s \in SUBSET Lane |-> SumOf(T, s)]
           Solves(iter) ==
             iter = [s \in SUBSET Lane |->
                       IF s = {} THEN EmptyBag
                       ELSE v[CHOOSE x \in s : TRUE] (+) iter[s \ {CHOOSE x \in s : TRUE}]]
<1>0. DOMAIN v = Lane
  OBVIOUS
<1>1. ReduceLanes(v) = (CHOOSE iter : Solves(iter))[Lane]
  BY <1>0 DEF ReduceLanes, FoldFunction, FoldFunctionOnSet, MapThenFoldSet
<1>2. ASSUME NEW iter PROVE Solves(iter) <=> Folds1(iter, v)
  BY DEF Folds1, Pick
<1> HIDE DEF Solves
<1>3. ASSUME NEW s \in SUBSET Lane, s # {}
      PROVE  SumOf(T, s) = v[Pick(s)] (+) SumOf(T, s \ {Pick(s)})
  <2> DEFINE x == Pick(s)
             t == s \ {x}
  <2>1. x \in s /\ {x} \in SUBSET Lane /\ t \in SUBSET Lane /\ {x} \cap t = {} /\ {x} \cup t = s
    BY <1>3, PickIn
  <2> HIDE DEF x, t
  <2>2. SumOf(T, {x}) (+) SumOf(T, t) = SumOf(T, s)
    BY <2>1, SumJoin
  <2>3. SumOf(T, {x}) = v[x]
    <3>1. x \in Lane
      BY <2>1
    <3>2. v[x] = SetToBag(T[x])
      BY <3>1
    <3> QED BY <3>2, SumFew
  <2> QED BY <2>2, <2>3 DEF x, t
<1>4. Folds1(w, v)
  <2>1. ASSUME NEW s \in SUBSET Lane, s # {} PROVE w[s] = v[Pick(s)] (+) w[s \ {Pick(s)}]
    <3>1. s \ {Pick(s)} \in SUBSET Lane
      OBVIOUS
    <3>2. w[s] = SumOf(T, s) /\ w[s \ {Pick(s)}] = SumOf(T, s \ {Pick(s)})
      BY <3>1
    <3> QED BY <1>3, <2>1, <3>2
  <2>2. w[{}] = EmptyBag
    BY SumFew
  <2>3. w = [s \in SUBSET Lane |-> IF s = {} THEN EmptyBag ELSE v[Pick(s)] (+) w[s \ {Pick(s)}]]
    BY <2>1, <2>2
  <2> QED BY <2>3 DEF Folds1
<1>5. Folds1(CHOOSE iter : Solves(iter), v)
  BY <1>2, <1>4
<1>6. ASSUME NEW iter, Folds1(iter, v) PROVE iter[Lane] = SumOf(T, Lane)
  <2> DEFINE Wrong == {s \in SUBSET Lane : iter[s] # SumOf(T, s)}
             Sizes == {n \in Nat : \E s \in Wrong : Cardinality(s) = n}
  <2> SUFFICES ASSUME Wrong # {} PROVE FALSE
    OBVIOUS
  <2>1. \A s \in SUBSET Lane : IsFiniteSet(s) /\ Cardinality(s) \in Nat
    BY LaneInt, FS_Subset, FS_CardinalityType
  <2>2. PICK n \in Sizes : \A m \in Sizes : n <= m
    <3>1. Sizes \in SUBSET Nat /\ Sizes # {}
      BY <2>1
    <3> HIDE DEF Sizes
    <3> QED BY <3>1, LeastNat
  <2>3. PICK s \in Wrong : Cardinality(s) = n
    OBVIOUS
  <2>4. s \in SUBSET Lane /\ iter[s] # SumOf(T, s) /\ n \in Nat
    OBVIOUS
  <2>5. iter[s] = IF s = {} THEN EmptyBag ELSE v[Pick(s)] (+) iter[s \ {Pick(s)}]
    BY <1>6, <2>4 DEF Folds1
  <2>6. s # {}
    BY <2>4, <2>5, SumFew
  <2> DEFINE t == s \ {Pick(s)}
  <2>7. t \in SUBSET Lane /\ Pick(s) \in s
    BY <2>4, <2>6, PickIn
  <2>8. Cardinality(t) = n - 1
    BY <2>1, <2>3, <2>4, <2>7, FS_RemoveElement
  <2>9. iter[t] = SumOf(T, t)
    <3>1. Cardinality(t) \in Nat /\ Cardinality(t) < n
      BY <2>1, <2>4, <2>7, <2>8
    <3> HIDE DEF t
    <3>2. Cardinality(t) \notin Sizes
      BY <2>2, <2>4, <3>1
    <3> QED BY <2>7, <3>1, <3>2
  <2> QED BY <1>3, <2>4, <2>5, <2>6, <2>9
<1> QED BY <1>1, <1>5, <1>6

(* Min and Max of some numbers of lanes.                                   *)
LEMMA MinMaxLanes ==
  ASSUME NEW A \in SUBSET (0 .. Vector), A # {}
  PROVE  /\ Min(A) \in A /\ \A x \in A : Min(A) <= x
         /\ Max(A) \in A /\ \A x \in A : Max(A) >= x
<1>1. A \in SUBSET Nat /\ \A x \in A : x <= Vector
  BY LaneInt
<1>2. PICK m \in A : \A n \in A : m <= n
  BY <1>1, LeastNat
<1>3. Min(A) \in A /\ \A x \in A : Min(A) <= x
  BY <1>2 DEF Min
<1>4. PICK d \in {Vector - x : x \in A} : \A e \in {Vector - x : x \in A} : d <= e
  <2>1. {Vector - x : x \in A} \in SUBSET Nat /\ {Vector - x : x \in A} # {}
    BY LaneInt
  <2> QED BY <2>1, LeastNat
<1>5. PICK u \in A : d = Vector - u
  OBVIOUS
<1>6. ASSUME NEW x \in A PROVE u >= x
  <2>1. d <= Vector - x
    BY <1>4
  <2>2. u \in Nat /\ x \in Nat
    BY <1>1
  <2>3. Vector - u <= Vector - x /\ Vector \in Nat
    BY <1>5, <2>1, LaneInt
  <2> QED BY <2>2, <2>3
<1>7. Max(A) \in A /\ \A x \in A : Max(A) >= x
  BY <1>6 DEF Max
<1> QED BY <1>3, <1>7

(* Rounds: in each every lane takes over the lane perms names, or none.    *)
StepOf(w, perm) == AddLanes(ShuffleVector(w, EmptyBag, perm), w)
RoundsFrom(f, perms, M, v) == f = [n \in 0 .. M |-> IF n = 0 THEN v ELSE StepOf(f[n - 1], perms[n])]

LEMMA RoundsExist ==
  ASSUME NEW perms, NEW v, NEW M \in Nat
  PROVE  \E f : RoundsFrom(f, perms, M, v)
<1> DEFINE Without == {m \in Nat : ~ \E f : RoundsFrom(f, perms, m, v)}
<1> SUFFICES ASSUME Without # {} PROVE FALSE
  OBVIOUS
<1>1. PICK m \in Without : \A k \in Without : m <= k
  <2>1. Without \in SUBSET Nat
    OBVIOUS
  <2> HIDE DEF Without
  <2> QED BY <2>1, LeastNat
<1>2. m \in Nat /\ ~ \E f : RoundsFrom(f, perms, m, v)
  OBVIOUS
<1>3. m # 0
  <2>1. \A n \in 0 .. 0 : n = 0
    OBVIOUS
  <2>2. RoundsFrom([n \in 0 .. 0 |-> v], perms, 0, v)
    BY <2>1 DEF RoundsFrom
  <2> QED BY <1>2, <2>2
<1>4. m - 1 \in Nat /\ m - 1 < m
  BY <1>2, <1>3
<1>5. PICK f : RoundsFrom(f, perms, m - 1, v)
  <2>1. m - 1 \notin Without
    BY <1>1, <1>2, <1>4
  <2> QED BY <1>4, <2>1
<1> DEFINE g == [n \in 0 .. m |-> IF n < m THEN f[n] ELSE StepOf(f[m - 1], perms[m])]
<1>6. ASSUME NEW n \in 0 .. m PROVE g[n] = IF n = 0 THEN v ELSE StepOf(g[n - 1], perms[n])
  <2>1. CASE n = m
    <3>1. g[n - 1] = f[m - 1]
      BY <1>4, <2>1
    <3> QED BY <1>3, <2>1, <3>1
  <2>2. CASE n # m
    <3>1. n \in 0 .. m - 1 /\ n < m /\ (n # 0 => n - 1 \in 0 .. m /\ n - 1 < m)
      BY <1>2, <2>2
    <3>2. g[n] = f[n] /\ (n # 0 => g[n - 1] = f[n - 1])
      BY <3>1
    <3>3. f[n] = IF n = 0 THEN v ELSE StepOf(f[n - 1], perms[n])
      BY <1>5, <3>1 DEF RoundsFrom
    <3> QED BY <3>2, <3>3
  <2> QED BY <2>1, <2>2
<1>7. RoundsFrom(g, perms, m, v)
  BY <1>6 DEF RoundsFrom
<1> QED BY <1>2, <1>7

-----------------------------------------------------------------------------
(* A column whose rows stay or step by one: its runs.                      *)

Begin(mask, l) == Max({b \in RunStarts(mask) : b <= l})

(* The lanes of the run of a lane are those with its row.                  *)
LEMMA RunsAre ==
  ASSUME NEW idx \in [Lane -> Int], OrderTypeOf(idx) = IncContinue, NEW l \in Lane
  PROVE  LET mask == ChangeMask(idx)
             b    == Begin(mask, l)
             e    == RunEnd(mask, b) IN
         /\ RunStarts(mask) = Changes(idx)
         /\ b \in Lane /\ b \in Nat /\ b \in Changes(idx) /\ e \in 1 .. Vector /\ b <= l /\ l < e
         /\ \A m \in Lane : b <= m /\ m < e <=> idx[m] = idx[l]
         /\ \A m \in Lane : b <= m /\ m < e => Begin(mask, m) = b
<1> DEFINE S    == Changes(idx)
           mask == ChangeMask(idx)
           b    == Begin(mask, l)
           e    == RunEnd(mask, b)
<1>1. /\ \A m \in Lane : HasBit(mask, m) <=> m \in S
      /\ \A m \in Lane : idx[m] = idx[0] + Upto(S, m) /\ Upto(S, m) \in Nat
  BY ContinueMask
<1>2. 0 \in S /\ S \in SUBSET Lane /\ 0 \in Lane
  BY LaneInt DEF Changes, Lane
<1> HIDE DEF mask, S
<1>3. RunStarts(mask) = S
  BY <1>1, <1>2 DEF RunStarts
<1>a. \A m \in Lane : m \in Nat /\ m \in 0 .. Vector /\ m < Vector
  BY LaneInt DEF Lane
<1>b. ASSUME NEW m \in Lane
      PROVE  LET c == Begin(mask, m) IN c \in S /\ c <= m /\ \A x \in S : x <= m => x <= c
  <2> DEFINE A == {x \in S : x <= m}
  <2>1. A \in SUBSET (0 .. Vector) /\ A # {}
    BY <1>2, <1>a
  <2>2. Begin(mask, m) = Max(A)
    BY <1>3 DEF Begin
  <2>3. Max(A) \in A /\ \A x \in A : Max(A) >= x
    <3> HIDE DEF A
    <3> QED BY <2>1, MinMaxLanes
  <2>4. \A x \in A : x \in Nat
    BY <1>2, <1>a
  <2>5. Max(A) \in S /\ Max(A) <= m /\ \A x \in S : x <= m => Max(A) >= x
    BY <2>3
  <2>6. \A x \in S : x \in Nat
    BY <1>2, <1>a
  <2> HIDE DEF A
  <2> QED BY <2>2, <2>5, <2>6
<1>4. b \in S /\ b <= l /\ (\A x \in S : x <= l => x <= b) /\ b \in Lane /\ b \in Nat
  BY <1>2, <1>a, <1>b
<1> HIDE DEF b
<1>5. e \in 1 .. Vector /\ b < e /\ (e < Vector => e \in S /\ e \in Lane) /\ \A x \in S : x > b => e <= x
  <2> DEFINE A == {x \in S : x > b} \cup {Vector}
  <2>1. A \in SUBSET (0 .. Vector) /\ A # {}
    BY <1>2, <1>a, LaneInt
  <2>2. e = Min(A)
    BY <1>3 DEF RunEnd
  <2>3. Min(A) \in A /\ \A x \in A : Min(A) <= x
    <3> HIDE DEF A
    <3> QED BY <2>1, MinMaxLanes
  <2>4. e \in A /\ \A x \in A : e <= x
    BY <2>2, <2>3
  <2>5. (e \in S /\ e > b) \/ e = Vector
    BY <2>4
  <2>6. \A x \in S : x > b => e <= x
    BY <2>4
  <2> HIDE DEF A, e
  <2>7. e \in 0 .. Vector /\ b < Vector
    BY <1>4, <1>a, <2>1, <2>4
  <2> QED BY <1>2, <1>4, <2>5, <2>6, <2>7, LaneInt
<1> HIDE DEF e
<1>6. l < e
  <2>1. CASE e < Vector
    <3>1. e \in S /\ (e <= l => e <= b)
      BY <1>4, <1>5, <2>1
    <3> QED BY <1>4, <1>5, <1>a, <3>1
  <2>2. CASE ~ (e < Vector)
    <3>1. e \in 1 .. Vector /\ Vector \in Nat /\ l < Vector
      BY <1>5, <1>a, LaneInt
    <3>2. e = Vector
      BY <2>2, <3>1
    <3> QED BY <3>1, <3>2
  <2> QED BY <2>1, <2>2
<1>7. ASSUME NEW m \in Lane, b <= m, m < e PROVE Upto(S, m) = Upto(S, b) /\ Begin(mask, m) = b
  <2>1. ASSUME NEW x \in S, x <= m PROVE x <= b
    <3>1. x \in Nat /\ m \in Nat
      BY <1>2, <1>a
    <3>2. x > b => e <= x
      BY <1>5
    <3> QED BY <1>4, <1>5, <1>7, <2>1, <3>1, <3>2
  <2>2. {x \in 1 .. m : x \in S} = {x \in 1 .. b : x \in S}
    <3>1. ASSUME NEW x \in 1 .. m, x \in S PROVE x \in 1 .. b
      <4>1. x <= b
        BY <2>1, <3>1, <1>a
      <4> QED BY <1>4, <4>1
    <3>2. ASSUME NEW x \in 1 .. b PROVE x \in 1 .. m
      BY <1>4, <1>7, <1>a
    <3> QED BY <3>1, <3>2
  <2>3. Begin(mask, m) = b
    <3> DEFINE c == Begin(mask, m)
    <3>1. c \in S /\ c <= m /\ \A x \in S : x <= m => x <= c
      BY <1>b
    <3> HIDE DEF c
    <3>2. c <= b /\ b <= c /\ c \in Nat
      BY <1>2, <1>4, <1>7, <1>a, <2>1, <3>1
    <3>3. c = b
      BY <1>4, <3>2
    <3> QED BY <3>3 DEF c
  <2> QED BY <2>2, <2>3 DEF Upto
<1>8. ASSUME NEW m \in Lane, m >= e PROVE Upto(S, m) # Upto(S, b)
  <2>1. e \in S /\ e \in Lane /\ e \in Nat \ {0} /\ m \in Nat
    <3>1. e \in 1 .. Vector /\ Vector \in Nat /\ m < Vector /\ m \in Nat /\ m >= e
      BY <1>5, <1>8, <1>a, LaneInt
    <3>2. e < Vector /\ e \in Nat \ {0}
      BY <3>1
    <3> QED BY <1>5, <3>1, <3>2
  <2> DEFINE f == e - 1
  <2>2. f \in Lane /\ b <= f /\ f < e /\ f \in Nat
    BY <1>4, <1>5, <2>1, LaneInt DEF Lane
  <2>3. Upto(S, e) = Upto(S, e - 1) + 1
    BY <2>1, UptoSteps
  <2>4. Upto(S, f) = Upto(S, b)
    BY <1>7, <2>2
  <2>5. Upto(S, e) <= Upto(S, m)
    BY <1>8, <2>1, UptoGrows
  <2>6. Upto(S, e) \in Nat /\ Upto(S, m) \in Nat /\ Upto(S, b) \in Nat
    BY <1>1, <1>4, <2>1
  <2> QED BY <2>3, <2>4, <2>5, <2>6
<1>9. ASSUME NEW m \in Lane, m < b PROVE Upto(S, m) # Upto(S, b)
  <2>1. m \in Nat /\ b \in Nat \ {0} /\ b - 1 \in Nat /\ m <= b - 1
    BY <1>4, <1>9, <1>a
  <2>2. Upto(S, b) = Upto(S, b - 1) + 1
    BY <1>4, <2>1, UptoSteps
  <2> DEFINE c == b - 1
  <2>3. Upto(S, m) <= Upto(S, c) /\ Upto(S, c) \in Nat /\ Upto(S, m) \in Nat
    BY <2>1, UptoGrows, UptoSteps
  <2> QED BY <2>2, <2>3
<1>10. ASSUME NEW m \in Lane PROVE b <= m /\ m < e <=> idx[m] = idx[l]
  <2>1. idx[m] = idx[0] + Upto(S, m) /\ idx[l] = idx[0] + Upto(S, l) /\ Upto(S, m) \in Nat /\ Upto(S, l) \in Nat
    BY <1>1
  <2>2. idx[0] \in Int
    BY <1>2
  <2>3. Upto(S, l) = Upto(S, b)
    BY <1>4, <1>6, <1>7
  <2>4. idx[m] = idx[l] <=> Upto(S, m) = Upto(S, b)
    BY <2>1, <2>2, <2>3
  <2>5. (b <= m /\ m < e) \/ m >= e \/ m < b
    BY <1>4, <1>5, <1>a
  <2>6. (m >= e => ~ (m < e)) /\ (m < b => ~ (b <= m))
    BY <1>4, <1>5, <1>a
  <2> QED BY <1>7, <1>8, <1>9, <2>4, <2>5, <2>6
<1>11. \A m \in Lane : b <= m /\ m < e => Begin(mask, m) = b
  BY <1>7
<1> QED BY <1>3, <1>4, <1>5, <1>6, <1>10, <1>11 DEF S, mask, b, e

(* After n rounds of the tree the lanes at multiples of 2^n in their run   *)
(* hold themselves and the 2^n - 1 lanes behind them, as far as the run.   *)
Ahead(mask, l, p) == {m \in Lane : l <= m /\ m < l + p /\ m < RunEnd(mask, Begin(mask, l))}
TreeHolds(mask, T, w, p) ==
  \A l \in Lane : (l - Begin(mask, l)) % p = 0 => w[l] = SumOf(T, Ahead(mask, l, p))

(* One round more.                                                         *)
LEMMA TreeRound ==
  ASSUME NEW idx \in [Lane -> Int], OrderTypeOf(idx) = IncContinue, NEW T, Disjoint(T),
         NEW r \in Nat, NEW p \in {1, 2, 4}, 2^r = p, 2^(r + 1) = 2 * p,
         NEW w, TreeHolds(ChangeMask(idx), T, w, p)
  PROVE  TreeHolds(ChangeMask(idx), T, StepOf(w, ReduceShuffle(ChangeMask(idx), r)), 2 * p)
<1> DEFINE mask == ChangeMask(idx)
           perm == ReduceShuffle(mask, r)
           z    == StepOf(w, perm)
<1> HIDE DEF mask
<1> SUFFICES ASSUME NEW l \in Lane, (l - Begin(mask, l)) % (2 * p) = 0
             PROVE  z[l] = SumOf(T, Ahead(mask, l, 2 * p))
  BY DEF TreeHolds, mask
<1> DEFINE b == Begin(mask, l)
           e == RunEnd(mask, b)
<1>1. /\ b \in Nat /\ e \in 1 .. Vector /\ b <= l /\ l < e
      /\ \A m \in Lane : b <= m /\ m < e => Begin(mask, m) = b
  BY RunsAre DEF mask
<1>2. l \in Nat /\ Vector \in Nat
  BY LaneInt
<1>3. perm[l] = IF (l - b) % (2 * p) = 0 /\ l - b < (e - b) - 1
                  THEN (IF (l - b) + p > (e - b) - 1 THEN Vector ELSE b + (l - b) + p)
                  ELSE Vector
  BY DEF ReduceShuffle, Partner, RunLen, Begin
<1>a. b = Begin(mask, l) /\ e = RunEnd(mask, Begin(mask, l))
  OBVIOUS
<1> HIDE DEF perm, b, e
<1>4. perm[l] = IF l + p < e THEN l + p ELSE Vector
  <2>1. (l - b) % (2 * p) = 0
    BY <1>a
  <2>2. CASE l + p < e
    <3>1. l - b < (e - b) - 1 /\ ~ ((l - b) + p > (e - b) - 1) /\ b + (l - b) + p = l + p
      BY <1>1, <1>2, <2>2
    <3> QED BY <1>3, <2>1, <2>2, <3>1
  <2>3. CASE ~ (l + p < e)
    <3>1. (l - b) + p > (e - b) - 1
      BY <1>1, <1>2, <2>3
    <3> QED BY <1>3, <2>1, <2>3, <3>1
  <2> QED BY <2>2, <2>3
<1>5. w[l] = SumOf(T, Ahead(mask, l, p))
  <2>1. (l - b) % p = 0
    <3>1. (l - b) % (2 * p) = 0 /\ l - b \in Nat
      BY <1>1, <1>2, <1>a
    <3>2. \A k \in Nat : (k % 2 = 0 => k % 1 = 0) /\ (k % 4 = 0 => k % 2 = 0) /\ (k % 8 = 0 => k % 4 = 0)
      OBVIOUS
    <3>3. CASE p = 1 BY <3>1, <3>2, <3>3
    <3>4. CASE p = 2 BY <3>1, <3>2, <3>4
    <3>5. CASE p = 4 BY <3>1, <3>2, <3>5
    <3> QED BY <3>3, <3>4, <3>5
  <2> QED BY <1>a, <2>1 DEF TreeHolds, mask
<1>6. z[l] = (IF perm[l] < Vector THEN w[perm[l]] ELSE EmptyBag) (+) w[l]
  BY DEF StepOf, AddLanes, ShuffleVector
<1> HIDE DEF z
<1> DEFINE G == Ahead(mask, l, p)
<1>7. G \in SUBSET Lane
  BY DEF Ahead
<1>8. CASE l + p < e
  <2> DEFINE m == l + p
             H == Ahead(mask, m, p)
  <2>1. m \in Lane /\ b <= m /\ m < e /\ m \in Nat /\ m < Vector
    BY <1>1, <1>2, <1>8 DEF Lane
  <2>2. Begin(mask, m) = b
    BY <1>1, <2>1
  <2>3. (m - b) % p = 0
    <3>1. (l - b) % (2 * p) = 0 /\ l - b \in Nat
      BY <1>1, <1>2, <1>a
    <3>2. \A k \in Nat : /\ k % 2 = 0 => (k + 1) % 1 = 0
                         /\ k % 4 = 0 => (k + 2) % 2 = 0
                         /\ k % 8 = 0 => (k + 4) % 4 = 0
      OBVIOUS
    <3>3. m - b = (l - b) + p
      BY <1>1, <1>2
    <3> HIDE DEF m
    <3>4. CASE p = 1 BY <3>1, <3>2, <3>3, <3>4
    <3>5. CASE p = 2 BY <3>1, <3>2, <3>3, <3>5
    <3>6. CASE p = 4 BY <3>1, <3>2, <3>3, <3>6
    <3> QED BY <3>4, <3>5, <3>6
  <2>4. perm[l] = m
    BY <1>4, <1>8
  <2>5. w[m] = SumOf(T, H)
    <3> HIDE DEF m
    <3> QED BY <2>1, <2>2, <2>3 DEF TreeHolds, mask
  <2>6. H \in SUBSET Lane /\ H \cap G = {} /\ H \cup G = Ahead(mask, l, 2 * p)
    <3>1. /\ G = {k \in Lane : l <= k /\ k < l + p /\ k < e}
          /\ Ahead(mask, l, 2 * p) = {k \in Lane : l <= k /\ k < l + 2 * p /\ k < e}
      BY <1>a DEF Ahead
    <3>2. H = {k \in Lane : l + p <= k /\ k < l + p + p /\ k < e}
      BY <1>a, <2>2 DEF Ahead
    <3>3. \A k \in Lane : k \in Nat
      BY LaneInt
    <3> HIDE DEF G, H, m
    <3>4. ASSUME NEW k \in Lane
          PROVE  /\ ~ (l <= k /\ k < l + p /\ l + p <= k)
                 /\ (l <= k /\ k < l + p) \/ (l + p <= k /\ k < l + p + p) <=> l <= k /\ k < l + 2 * p
      BY <1>2, <3>3
    <3> QED BY <3>1, <3>2, <3>4
  <2>7. z[l] = w[m] (+) w[l]
    BY <1>6, <2>1, <2>4
  <2> HIDE DEF G, H, m
  <2>8. SumOf(T, H) (+) SumOf(T, G) = SumOf(T, H \cup G)
    BY <1>7, <2>6, SumJoin
  <2> QED BY <1>5, <2>5, <2>6, <2>7, <2>8 DEF G
<1>9. CASE ~ (l + p < e)
  <2>1. G = Ahead(mask, l, 2 * p)
    <3>1. /\ G = {k \in Lane : l <= k /\ k < l + p /\ k < e}
          /\ Ahead(mask, l, 2 * p) = {k \in Lane : l <= k /\ k < l + 2 * p /\ k < e}
      BY <1>a DEF Ahead
    <3>2. \A k \in Lane : k \in Nat
      BY LaneInt
    <3>3. ASSUME NEW k \in Lane, k < e PROVE k < l + p /\ k < l + 2 * p
      BY <1>1, <1>2, <1>9, <3>2, <3>3
    <3> HIDE DEF G
    <3> QED BY <3>1, <3>3
  <2>2. z[l] = EmptyBag (+) w[l]
    <3>1. perm[l] = Vector /\ ~ (Vector < Vector)
      BY <1>2, <1>4, <1>9
    <3> QED BY <1>6, <3>1
  <2> HIDE DEF G
  <2>3. SumOf(T, {}) (+) SumOf(T, G) = SumOf(T, {} \cup G)
    BY <1>7, SumJoin
  <2>4. {} \cup G = G
    OBVIOUS
  <2> QED BY <1>5, <2>1, <2>2, <2>3, <2>4, SumFew DEF G
<1> QED BY <1>8, <1>9

(* A run begins with its first lane, and is not longer than the tree.      *)
LEMMA RunsFit ==
  ASSUME NEW idx \in [Lane -> Int], OrderTypeOf(idx) = IncContinue
  PROVE  LET mask == ChangeMask(idx) IN
         /\ MaxLen(mask) \in 0 .. 3
         /\ \A b \in Changes(idx) : /\ b \in Lane /\ Begin(mask, b) = b
                                    /\ RunEnd(mask, b) <= b + 2^MaxLen(mask)
<1> DEFINE S    == Changes(idx)
           mask == ChangeMask(idx)
<1>0. Vector <= 8 /\ Vector \in Nat /\ Vector >= 4
  BY LaneInt, FewLanesContinue
<1>1. ASSUME NEW b \in S
      PROVE  /\ b \in Lane /\ b \in Nat /\ Begin(mask, b) = b
             /\ RunEnd(mask, b) \in 1 .. Vector /\ b < RunEnd(mask, b)
             /\ RunLen(mask, b) \in 1 .. 8 /\ RunLen(mask, b) \in 0 .. Vector /\ RunLen(mask, b) = RunEnd(mask, b) - b
  <2>1. b \in Lane /\ (b # 0 => idx[b] # idx[b - 1]) /\ b \in Nat
    BY LaneInt DEF Changes
  <2> DEFINE c == Begin(mask, b)
  <2>2. /\ c \in Nat /\ c <= b /\ b < RunEnd(mask, c) /\ RunEnd(mask, c) \in 1 .. Vector
        /\ \A m \in Lane : c <= m /\ m < RunEnd(mask, c) <=> idx[m] = idx[b]
    BY <2>1, RunsAre
  <2> HIDE DEF c, mask
  <2>3. c = b
    <3> SUFFICES ASSUME c < b PROVE FALSE
      BY <2>1, <2>2
    <3>1. b - 1 \in Lane /\ c <= b - 1 /\ b # 0
      BY <2>1, <2>2, LaneInt DEF Lane
    <3>2. b - 1 < RunEnd(mask, c)
      BY <2>1, <2>2
    <3> QED BY <2>1, <2>2, <3>1, <3>2
  <2>4. RunEnd(mask, b) \in 1 .. Vector /\ b < RunEnd(mask, b)
    BY <2>2, <2>3
  <2>5. RunLen(mask, b) = RunEnd(mask, b) - b
    BY DEF RunLen
  <2>6. RunLen(mask, b) \in 1 .. 8 /\ RunLen(mask, b) \in 0 .. Vector
    BY <1>0, <2>1, <2>4, <2>5
  <2> QED BY <2>1, <2>3, <2>4, <2>5, <2>6 DEF c
<1>2. RunStarts(mask) = S /\ 0 \in S
  <2>1. 0 \in Lane
    BY LaneInt DEF Lane
  <2> QED BY <2>1, RunsAre DEF Changes
<1> HIDE DEF mask, S
<1> DEFINE A == {RunLen(mask, b) : b \in S}
           L == Longest(mask)
<1>3. L \in 1 .. 8 /\ \A b \in S : RunLen(mask, b) <= L
  <2>1. A \in SUBSET (0 .. Vector) /\ A # {}
    BY <1>1, <1>2
  <2>2. L = Max(A)
    BY <1>2 DEF Longest
  <2>3. Max(A) \in A /\ \A x \in A : Max(A) >= x
    <3> HIDE DEF A
    <3> QED BY <2>1, MinMaxLanes
  <2>4. PICK c \in S : L = RunLen(mask, c)
    BY <2>2, <2>3
  <2>5. L \in 1 .. 8
    BY <1>1, <2>4
  <2>6. \A b \in S : L >= RunLen(mask, b) /\ RunLen(mask, b) \in 1 .. 8
    BY <1>1, <2>2, <2>3
  <2> HIDE DEF L, A
  <2>7. ASSUME NEW b \in S PROVE RunLen(mask, b) <= L
    <3>1. L >= RunLen(mask, b) /\ RunLen(mask, b) \in 1 .. 8
      BY <2>6
    <3> QED BY <2>5, <3>1
  <2> QED BY <2>5, <2>7
<1> HIDE DEF A, L
<1> DEFINE B == {r \in 0 .. 4 : (L - 1) \div 2^r = 0}
           M == MaxLen(mask)
<1>4. M \in B /\ \A r \in B : M <= r
  <2>1. 3 \in B
    <3>1. (L - 1) \div 8 = 0
      BY <1>3
    <3> QED BY <3>1, Powers
  <2>2. B \in SUBSET (0 .. Vector) /\ B # {}
    <3>1. \A r \in B : r \in 0 .. Vector
      BY <1>0
    <3> HIDE DEF B
    <3> QED BY <2>1, <3>1
  <2>3. M = Min(B)
    BY DEF MaxLen, L
  <2> HIDE DEF B, M
  <2> QED BY <2>2, <2>3, MinMaxLanes
<1>5. M \in 0 .. 3 /\ (L - 1) \div 2^M = 0
  <2>1. 3 \in B
    <3>1. (L - 1) \div 8 = 0
      BY <1>3
    <3> QED BY <3>1, Powers
  <2>2. M \in 0 .. 4 /\ M <= 3 /\ (L - 1) \div 2^M = 0
    BY <1>4, <2>1
  <2> HIDE DEF M
  <2> QED BY <2>2
<1> HIDE DEF M, B
<1>6. L <= 2^M /\ 2^M \in Nat
  <2>1. M = 0 \/ M = 1 \/ M = 2 \/ M = 3
    BY <1>5
  <2>2. CASE M = 0
    <3>1. (L - 1) \div 1 = 0 /\ 2^M = 1
      BY <1>5, <2>2, Powers
    <3> QED BY <1>3, <3>1
  <2>3. CASE M = 1
    <3>1. (L - 1) \div 2 = 0 /\ 2^M = 2
      BY <1>5, <2>3, Powers
    <3> QED BY <1>3, <3>1
  <2>4. CASE M = 2
    <3>1. (L - 1) \div 4 = 0 /\ 2^M = 4
      BY <1>5, <2>4, Powers
    <3> QED BY <1>3, <3>1
  <2>5. CASE M = 3
    <3>1. (L - 1) \div 8 = 0 /\ 2^M = 8
      BY <1>5, <2>5, Powers
    <3> QED BY <1>3, <3>1
  <2> QED BY <2>1, <2>2, <2>3, <2>4, <2>5
<1>7. ASSUME NEW b \in S PROVE RunEnd(mask, b) <= b + 2^M
  <2>1. /\ RunLen(mask, b) <= L /\ RunLen(mask, b) = RunEnd(mask, b) - b
        /\ b \in Nat /\ RunEnd(mask, b) \in 1 .. Vector
    BY <1>1, <1>3
  <2>2. PICK q \in Nat : q = 2^M
    BY <1>6
  <2> QED BY <1>0, <1>3, <1>6, <2>1, <2>2
<1> QED BY <1>1, <1>5, <1>7 DEF M, S, mask

(* The lanes CompressVec brings together are the first of the runs, in     *)
(* order.                                                                  *)
LEMMA NthRun ==
  ASSUME NEW idx \in [Lane -> Int], OrderTypeOf(idx) = IncContinue,
         NEW n \in Lane, n < PopCount(ChangeMask(idx))
  PROVE  LET c == CompressVec(ChangeMask(idx))[n] IN
         c \in Changes(idx) /\ c \in Lane /\ idx[c] = idx[0] + n
<1> DEFINE S    == Changes(idx)
           mask == ChangeMask(idx)
           c    == CompressVec(mask)[n]
<1>1. /\ \A m \in Lane : HasBit(mask, m) <=> m \in S
      /\ \A m \in Lane : idx[m] = idx[0] + Upto(S, m) /\ Upto(S, m) \in Nat
      /\ PopCount(mask) = Upto(S, Vector - 1) + 1
      /\ PopCount(mask) = Cardinality(S)
  BY ContinueMask
<1>2. 0 \in S /\ S \in SUBSET Lane /\ 0 \in Lane
  BY LaneInt DEF Changes, Lane
<1>a. n < PopCount(mask)
  OBVIOUS
<1> HIDE DEF mask, S
<1>b. \A m \in Lane : m \in Nat
  BY LaneInt
<1>3. {l \in Lane : HasBit(mask, l)} = S
  BY <1>1, <1>2
<1>4. ASSUME NEW l \in S PROVE Cardinality({m \in S : m < l}) = Upto(S, l)
  <2>1. l \in Lane /\ l \in Nat
    BY <1>2, <1>b
  <2>2. CASE l = 0
    <3>1. {m \in S : m < l} = {}
      <4> SUFFICES ASSUME NEW m \in S, m < l PROVE FALSE
        OBVIOUS
      <4>1. m \in Nat
        BY <1>2, <1>b
      <4> QED BY <2>2, <4>1
    <3> QED BY <2>2, <3>1, FS_EmptySet, UptoSteps
  <2>3. CASE l # 0
    <3> DEFINE A == {m \in 1 .. l - 1 : m \in S}
    <3>1. {m \in S : m < l} = A \cup {0} /\ 0 \notin A
      <4>1. ASSUME NEW m \in S, m < l PROVE m = 0 \/ m \in 1 .. l - 1
        BY <1>2, <1>b, <2>1, <4>1
      <4>2. 0 < l
        BY <2>1, <2>3
      <4>3. \A m \in 1 .. l - 1 : m < l /\ m # 0
        BY <2>1
      <4> QED BY <1>2, <4>1, <4>2, <4>3
    <3>2. IsFiniteSet(A)
      <4>1. 1 \in Int /\ l - 1 \in Int
        BY <2>1
      <4>2. IsFiniteSet(1 .. l - 1)
        BY <4>1, FS_Interval
      <4> QED BY <4>2, FS_Subset
    <3>3. Cardinality(A) = Upto(S, l - 1)
      BY DEF Upto
    <3>4. Upto(S, l) = Upto(S, l - 1) + 1
      <4>1. l \in Nat \ {0}
        BY <2>1, <2>3
      <4> QED BY <4>1, UptoSteps
    <3> HIDE DEF A
    <3>5. Cardinality(A \cup {0}) = Cardinality(A) + 1
      BY <3>1, <3>2, FS_AddElement
    <3> QED BY <3>1, <3>3, <3>4, <3>5
  <2> QED BY <2>2, <2>3
<1>5. \E l \in S : Upto(S, l) = n
  <2> DEFINE A == {l \in Lane : Upto(S, l) >= n}
  <2>1. Vector - 1 \in A
    <3>1. Vector - 1 \in Lane /\ n \in Nat
      BY LaneInt DEF Lane
    <3>2. Upto(S, Vector - 1) \in Nat
      BY <1>1, <3>1
    <3> QED BY <1>1, <1>a, <3>1, <3>2
  <2>2. PICK l \in A : \A k \in A : l <= k
    <3>1. A \in SUBSET Nat /\ A # {}
      BY <1>b, <2>1
    <3> HIDE DEF A
    <3> QED BY <3>1, LeastNat
  <2>3. l \in Lane /\ l \in Nat /\ Upto(S, l) >= n /\ Upto(S, l) \in Nat /\ n \in Nat
    BY <1>1, <1>b
  <2>4. CASE l = 0
    <3>1. Upto(S, 0) = 0
      BY UptoSteps
    <3>2. Upto(S, l) = n
      BY <2>3, <2>4, <3>1
    <3> QED BY <1>2, <2>4, <3>2
  <2>5. CASE l # 0
    <3> DEFINE k == l - 1
    <3>1. k \in Lane /\ k < l /\ l \in Nat \ {0}
      BY <2>3, <2>5, LaneInt DEF Lane
    <3>2. k \notin A
      <4> HIDE DEF A
      <4> QED BY <1>b, <2>2, <2>3, <3>1
    <3>3. ~ (Upto(S, k) >= n) /\ Upto(S, k) \in Nat
      BY <1>1, <3>1, <3>2
    <3>4. Upto(S, l) = Upto(S, k) + (IF l \in S THEN 1 ELSE 0)
      BY <3>1, UptoSteps
    <3>5. l \in S /\ Upto(S, l) = n
      <4> HIDE DEF k
      <4> QED BY <2>3, <3>3, <3>4
    <3> QED BY <3>5
  <2> QED BY <2>4, <2>5
<1>6. c \in S /\ Upto(S, c) = n
  <2> DEFINE set == {l \in Lane : HasBit(mask, l)}
             Nth == CHOOSE l \in set : Cardinality({m \in set : m < l}) = n
  <2>1. c = Nth
    BY <1>1, <1>3, <1>a DEF CompressVec
  <2>2. set = S
    BY <1>3
  <2> HIDE DEF set
  <2>3. \E l \in set : Cardinality({m \in set : m < l}) = n
    BY <1>4, <1>5, <2>2
  <2>4. Nth \in set /\ Cardinality({m \in set : m < Nth}) = n
    BY <2>3
  <2> QED BY <1>4, <2>1, <2>2, <2>4
<1> QED BY <1>1, <1>2, <1>6 DEF S, mask

(* The tree of Bit2Addr: the sum of the lanes with the n-th row ends in    *)
(* lane n.                                                                 *)
LEMMA TreeReduces ==
  ASSUME NEW idx \in [Lane -> Int], OrderTypeOf(idx) = IncContinue,
         NEW T, Disjoint(T), NEW v, v = [l \in Lane |-> SetToBag(T[l])],
         NEW n \in Lane, n < PopCount(ChangeMask(idx))
  PROVE  ReduceContinue(ChangeMask(idx), v)[n] = SumOf(T, {m \in Lane : idx[m] = idx[0] + n})
<1> DEFINE mask  == ChangeMask(idx)
           M     == MaxLen(mask)
           perms == [k \in 1 .. M |-> ReduceShuffle(mask, k - 1)]
           f     == CHOOSE f : RoundsFrom(f, perms, M, v)
<1>1. M \in 0 .. 3
  BY RunsFit
<1> HIDE DEF mask, M
<1>2. ReduceContinue(mask, v) = ShuffleVector(f[M], EmptyBag, CompressVec(mask))
  <2> DEFINE Own(r) == r = [k \in 0 .. M |-> IF k = 0 THEN v
                              ELSE With(r[k - 1], LAMBDA w :
                                     AddLanes(ShuffleVector(w, EmptyBag, ReduceShuffle(mask, k - 1)), w))]
  <2>1. ReduceContinue(mask, v) = ShuffleVector((CHOOSE r : Own(r))[M], EmptyBag, CompressVec(mask))
    BY DEF ReduceContinue, M
  <2>2. ASSUME NEW r PROVE Own(r) <=> RoundsFrom(r, perms, M, v)
    <3>1. ASSUME NEW k \in 0 .. M, k # 0
          PROVE  With(r[k - 1], LAMBDA w : AddLanes(ShuffleVector(w, EmptyBag, ReduceShuffle(mask, k - 1)), w)) =
                   StepOf(r[k - 1], perms[k])
      <4>1. k \in 1 .. M
        BY <1>1, <3>1
      <4>2. perms[k] = ReduceShuffle(mask, k - 1)
        BY <4>1
      <4>3. With(r[k - 1], LAMBDA w : AddLanes(ShuffleVector(w, EmptyBag, ReduceShuffle(mask, k - 1)), w)) =
              StepOf(r[k - 1], ReduceShuffle(mask, k - 1))
        BY DEF With, StepOf
      <4> QED BY <4>2, <4>3
    <3> QED BY <3>1 DEF RoundsFrom
  <2> HIDE DEF Own, perms
  <2> QED BY <2>1, <2>2
<1>3. RoundsFrom(f, perms, M, v)
  <2>1. M \in Nat
    BY <1>1
  <2> HIDE DEF perms
  <2> QED BY <2>1, RoundsExist
<1> HIDE DEF f
<1>4. f[0] = v /\ \A k \in 1 .. M : f[k] = StepOf(f[k - 1], ReduceShuffle(mask, k - 1))
  <2>1. 0 \in 0 .. M /\ \A k \in 1 .. M : k \in 0 .. M /\ k # 0
    BY <1>1
  <2> QED BY <1>3, <2>1 DEF RoundsFrom
<1>5. TreeHolds(mask, T, f[0], 1)
  <2> SUFFICES ASSUME NEW l \in Lane PROVE f[0][l] = SumOf(T, Ahead(mask, l, 1))
    BY DEF TreeHolds
  <2>1. Ahead(mask, l, 1) = {l}
    <3>1. l < RunEnd(mask, Begin(mask, l))
      BY RunsAre DEF mask
    <3>2. \A m \in Lane : l <= m /\ m < l + 1 <=> m = l
      BY LaneInt
    <3> QED BY <3>1, <3>2 DEF Ahead
  <2> QED BY <1>4, <2>1, SumFew
<1>6. M >= 1 => TreeHolds(mask, T, f[1], 2)
  <2> SUFFICES ASSUME M >= 1 PROVE TreeHolds(mask, T, f[1], 2)
    OBVIOUS
  <2>1. f[1] = StepOf(f[0], ReduceShuffle(mask, 0))
    <3>1. 1 \in 1 .. M /\ 1 - 1 = 0
      BY <1>1
    <3> QED BY <1>4, <3>1
  <2>2. 2^0 = 1 /\ 2^(0 + 1) = 2 * 1 /\ 2 * 1 = 2
    BY Powers
  <2> QED BY <1>5, <2>1, <2>2, TreeRound DEF mask
<1>7. M >= 2 => TreeHolds(mask, T, f[2], 4)
  <2> SUFFICES ASSUME M >= 2 PROVE TreeHolds(mask, T, f[2], 4)
    OBVIOUS
  <2>0. M >= 1
    BY <1>1
  <2>1. f[2] = StepOf(f[1], ReduceShuffle(mask, 1))
    <3>1. 2 \in 1 .. M /\ 2 - 1 = 1
      BY <1>1
    <3> QED BY <1>4, <3>1
  <2>2. 2^1 = 2 /\ 2^(1 + 1) = 2 * 2 /\ 2 * 2 = 4
    BY Powers
  <2> QED BY <1>6, <2>0, <2>1, <2>2, TreeRound DEF mask
<1>8. M >= 3 => TreeHolds(mask, T, f[3], 8)
  <2> SUFFICES ASSUME M >= 3 PROVE TreeHolds(mask, T, f[3], 8)
    OBVIOUS
  <2>0. M >= 2
    BY <1>1
  <2>1. f[3] = StepOf(f[2], ReduceShuffle(mask, 2))
    <3>1. 3 \in 1 .. M /\ 3 - 1 = 2
      BY <1>1
    <3> QED BY <1>4, <3>1
  <2>2. 2^2 = 4 /\ 2^(2 + 1) = 2 * 4 /\ 2 * 4 = 8
    BY Powers
  <2> QED BY <1>7, <2>0, <2>1, <2>2, TreeRound DEF mask
<1>9. TreeHolds(mask, T, f[M], 2^M)
  <2>1. M = 0 \/ M = 1 \/ M = 2 \/ M = 3
    BY <1>1
  <2>2. CASE M = 0 BY <1>5, <2>2, Powers
  <2>3. CASE M = 1 BY <1>6, <2>3, Powers
  <2>4. CASE M = 2 BY <1>7, <2>4, Powers
  <2>5. CASE M = 3 BY <1>8, <2>5, Powers
  <2> QED BY <2>1, <2>2, <2>3, <2>4, <2>5
<1> DEFINE c == CompressVec(mask)[n]
           G == {m \in Lane : idx[m] = idx[0] + n}
<1>10. c \in Changes(idx) /\ c \in Lane /\ idx[c] = idx[0] + n
  BY NthRun DEF mask
<1>11. ReduceContinue(mask, v)[n] = f[M][c]
  <2>1. c < Vector
    BY <1>10, LaneInt DEF Lane
  <2> QED BY <1>2, <2>1 DEF ShuffleVector
<1> HIDE DEF c
<1>12. Begin(mask, c) = c /\ RunEnd(mask, c) <= c + 2^M
  BY <1>10, RunsFit DEF mask, M
<1>13. f[M][c] = SumOf(T, Ahead(mask, c, 2^M))
  <2>1. (c - Begin(mask, c)) % 2^M = 0
    <3>1. c - Begin(mask, c) = 0
      BY <1>10, <1>12, LaneInt
    <3>2. M = 0 \/ M = 1 \/ M = 2 \/ M = 3
      BY <1>1
    <3>3. 2^M \in {1, 2, 4, 8}
      <4>1. CASE M = 0
        BY <4>1, Powers
      <4>2. CASE M = 1
        BY <4>2, Powers
      <4>3. CASE M = 2
        BY <4>3, Powers
      <4>4. CASE M = 3
        BY <4>4, Powers
      <4> QED BY <3>2, <4>1, <4>2, <4>3, <4>4
    <3>4. \A q \in {1, 2, 4, 8} : 0 % q = 0
      OBVIOUS
    <3> QED BY <3>1, <3>3, <3>4
  <2> QED BY <1>9, <1>10, <2>1 DEF TreeHolds
<1>14. Ahead(mask, c, 2^M) = G
  <2>1. /\ RunEnd(mask, c) \in 1 .. Vector
        /\ \A m \in Lane : c <= m /\ m < RunEnd(mask, c) <=> idx[m] = idx[c]
    <3>1. /\ RunEnd(mask, Begin(mask, c)) \in 1 .. Vector
          /\ \A m \in Lane : Begin(mask, c) <= m /\ m < RunEnd(mask, Begin(mask, c)) <=> idx[m] = idx[c]
      BY <1>10, RunsAre DEF mask
    <3> QED BY <1>12, <3>1
  <2>2. PICK q \in Nat : q = 2^M
    <3>1. M = 0 \/ M = 1 \/ M = 2 \/ M = 3
      BY <1>1
    <3>2. CASE M = 0
      BY <3>2, Powers
    <3>3. CASE M = 1
      BY <3>3, Powers
    <3>4. CASE M = 2
      BY <3>4, Powers
    <3>5. CASE M = 3
      BY <3>5, Powers
    <3> QED BY <3>1, <3>2, <3>3, <3>4, <3>5
  <2>3. ASSUME NEW m \in Lane, m < RunEnd(mask, c) PROVE m < c + q
    <3>1. m \in Nat /\ c \in Nat /\ RunEnd(mask, c) \in Nat /\ RunEnd(mask, c) <= c + q
      BY <1>10, <1>12, <2>1, <2>2, LaneInt
    <3> QED BY <2>3, <3>1
  <2>4. Ahead(mask, c, 2^M) = {m \in Lane : c <= m /\ m < c + q /\ m < RunEnd(mask, c)}
    BY <1>12, <2>2 DEF Ahead
  <2> QED BY <1>10, <2>1, <2>3, <2>4
<1> QED BY <1>11, <1>13, <1>14 DEF mask

-----------------------------------------------------------------------------
(* A column whose rows are in disorder: the lanes L of one row that are    *)
(* still live.  Counted from the top, every other lane takes over the next.*)

Ups(L, l)    == {m \in L : m > l}
Downs(L, l)  == {m \in L : m < l}
Stays(L)     == {l \in L : Cardinality(Ups(L, l)) % 2 = 0}
Takers(L)    == {l \in Stays(L) : Downs(L, l) # {}}

(* Lanes above and below one.                                              *)
LEMMA Sides ==
  ASSUME NEW L \in SUBSET Lane, NEW l \in Lane
  PROVE  /\ IsFiniteSet(Ups(L, l)) /\ Cardinality(Ups(L, l)) \in Nat
         /\ Downs(L, l) # {} =>
              LET b == Max(Downs(L, l)) IN
              /\ b \in L /\ b < l /\ b \in Nat
              /\ \A m \in L : m < l => m <= b
              /\ l \in L => /\ Ups(L, b) = Ups(L, l) \cup {l}
                            /\ Cardinality(Ups(L, b)) = Cardinality(Ups(L, l)) + 1
<1>1. \A m \in L : m \in Nat /\ m \in Lane
  BY LaneInt
<1>2. IsFiniteSet(Ups(L, l)) /\ Cardinality(Ups(L, l)) \in Nat
  <2>1. Ups(L, l) \in SUBSET Lane
    BY DEF Ups
  <2> QED BY <2>1, LaneInt, FS_Subset, FS_CardinalityType
<1>3. ASSUME Downs(L, l) # {}
      PROVE  LET b == Max(Downs(L, l)) IN
              /\ b \in L /\ b < l /\ b \in Nat
              /\ \A m \in L : m < l => m <= b
              /\ l \in L => /\ Ups(L, b) = Ups(L, l) \cup {l}
                            /\ Cardinality(Ups(L, b)) = Cardinality(Ups(L, l)) + 1
  <2> DEFINE b == Max(Downs(L, l))
  <2>1. Downs(L, l) \in SUBSET (0 .. Vector)
    <3>1. \A k \in Lane : k \in 0 .. Vector
      BY LaneInt DEF Lane
    <3>2. Downs(L, l) \subseteq Lane
      BY DEF Downs
    <3> QED BY <3>1, <3>2
  <2>2. b \in Downs(L, l) /\ \A m \in Downs(L, l) : b >= m
    BY <1>3, <2>1, MinMaxLanes
  <2> HIDE DEF b
  <2>3. b \in L /\ b < l /\ b \in Nat
    BY <1>1, <2>2 DEF Downs
  <2>4. \A m \in L : m < l => m <= b
    BY <1>1, <2>2, <2>3 DEF Downs
  <2>5. ASSUME l \in L
        PROVE  /\ Ups(L, b) = Ups(L, l) \cup {l}
               /\ Cardinality(Ups(L, b)) = Cardinality(Ups(L, l)) + 1
    <3>1. ASSUME NEW m \in L PROVE m > b <=> m > l \/ m = l
      <4>1. m \in Nat /\ l \in Nat
        BY <1>1, <2>5
      <4> QED BY <2>3, <2>4, <4>1
    <3>2. Ups(L, b) = Ups(L, l) \cup {l}
      BY <2>5, <3>1 DEF Ups
    <3>3. l \notin Ups(L, l)
      BY <1>1, <2>5 DEF Ups
    <3> QED BY <1>2, <3>2, <3>3, FS_AddElement
  <2>6. /\ b \in L /\ b < l /\ b \in Nat
        /\ \A m \in L : m < l => m <= b
        /\ l \in L => /\ Ups(L, b) = Ups(L, l) \cup {l}
                      /\ Cardinality(Ups(L, b)) = Cardinality(Ups(L, l)) + 1
    BY <2>3, <2>4, <2>5
  <2> QED BY <2>6, Zenon DEF b
<1> QED BY <1>2, <1>3, Zenon

(* The lane next above one that does not stay takes it over, no other does.*)
LEMMA TakenOnce ==
  ASSUME NEW L \in SUBSET Lane
  PROVE  /\ \A l \in Takers(L) : Max(Downs(L, l)) \in L \ Stays(L)
         /\ \A m \in L \ Stays(L) : \E l \in Takers(L) : m = Max(Downs(L, l))
         /\ \A l, m \in Takers(L) : Max(Downs(L, l)) = Max(Downs(L, m)) => l = m
<1>1. \A m \in L : m \in Nat /\ m \in Lane
  BY LaneInt
<1>2. \A k \in Nat : k % 2 = 0 <=> (k + 1) % 2 # 0
  OBVIOUS
<1>3. ASSUME NEW l \in Takers(L) PROVE Max(Downs(L, l)) \in L \ Stays(L)
  <2>1. l \in L /\ Downs(L, l) # {} /\ Cardinality(Ups(L, l)) % 2 = 0
    BY DEF Takers, Stays
  <2>2. /\ Max(Downs(L, l)) \in L
        /\ Cardinality(Ups(L, Max(Downs(L, l)))) = Cardinality(Ups(L, l)) + 1
        /\ Cardinality(Ups(L, l)) \in Nat
    BY <2>1, <1>1, Sides
  <2> QED BY <1>2, <2>1, <2>2 DEF Stays
<1>4. ASSUME NEW m \in L \ Stays(L) PROVE \E l \in Takers(L) : m = Max(Downs(L, l))
  <2> DEFINE a == Min(Ups(L, m))
  <2>1. Ups(L, m) # {}
    <3>1. Ups(L, m) = {} => Cardinality(Ups(L, m)) = 0
      BY FS_EmptySet
    <3>2. Cardinality(Ups(L, m)) % 2 # 0
      BY DEF Stays
    <3> QED BY <3>1, <3>2
  <2>2. Ups(L, m) \in SUBSET (0 .. Vector)
    <3>1. \A k \in Lane : k \in 0 .. Vector
      BY LaneInt DEF Lane
    <3>2. Ups(L, m) \subseteq Lane
      BY DEF Ups
    <3> QED BY <3>1, <3>2
  <2>3. a \in Ups(L, m) /\ \A k \in Ups(L, m) : a <= k
    BY <2>1, <2>2, MinMaxLanes
  <2> HIDE DEF a
  <2>4. a \in L /\ a > m /\ m \in Nat /\ a \in Nat
    BY <1>1, <2>3 DEF Ups
  <2>5. m \in Downs(L, a)
    BY <2>4 DEF Downs
  <2> DEFINE b == Max(Downs(L, a))
  <2>6. /\ b \in L /\ b < a /\ b \in Nat
        /\ \A k \in L : k < a => k <= b
        /\ Cardinality(Ups(L, b)) = Cardinality(Ups(L, a)) + 1
        /\ Cardinality(Ups(L, a)) \in Nat
    BY <1>1, <2>4, <2>5, Sides
  <2> HIDE DEF b
  <2>7. b = m
    <3>1. m <= b
      BY <2>4, <2>6
    <3>2. b \in Ups(L, m) => a <= b
      BY <2>3
    <3> QED BY <2>4, <2>6, <3>1, <3>2 DEF Ups
  <2>8. Cardinality(Ups(L, a)) % 2 = 0
    <3>1. Cardinality(Ups(L, m)) % 2 # 0
      BY DEF Stays
    <3> QED BY <1>2, <2>6, <2>7, <3>1
  <2> QED BY <2>4, <2>5, <2>7, <2>8 DEF Takers, Stays, b
<1>5. ASSUME NEW l \in Takers(L), NEW m \in Takers(L), Max(Downs(L, l)) = Max(Downs(L, m)), l < m PROVE FALSE
  <2>1. l \in L /\ m \in L /\ Downs(L, l) # {} /\ Downs(L, m) # {}
    BY DEF Takers, Stays
  <2>2. l \in Lane /\ m \in Lane
    BY <2>1
  <2>3. Max(Downs(L, l)) < l /\ Max(Downs(L, l)) \in Nat
    BY <2>1, <2>2, Sides
  <2>4. l <= Max(Downs(L, m))
    BY <1>5, <2>1, <2>2, Sides
  <2>5. l \in Nat
    BY <1>1, <2>1
  <2> QED BY <1>5, <2>3, <2>4, <2>5
<1>6. \A l, m \in Takers(L) : l \in Nat /\ m \in Nat
  BY <1>1 DEF Takers, Stays
<1> QED
  <2>1. ASSUME NEW l \in Takers(L), NEW m \in Takers(L), Max(Downs(L, l)) = Max(Downs(L, m)) PROVE l = m
    <3>1. ~ (l < m) /\ ~ (m < l)
      BY <1>5, <2>1
    <3> QED BY <1>6, <3>1
  <2> QED BY <1>3, <1>4, <2>1

(* So about half of them stay, the highest one among them.                 *)
LEMMA HalfStay ==
  ASSUME NEW L \in SUBSET Lane, NEW k \in Nat, Cardinality(L) <= 2 * k
  PROVE  IsFiniteSet(Stays(L)) /\ Cardinality(Stays(L)) <= k
<1> DEFINE O == L \ Stays(L)
           take == [l \in Takers(L) |-> Max(Downs(L, l))]
<1>1. /\ IsFiniteSet(L) /\ IsFiniteSet(Stays(L)) /\ IsFiniteSet(O) /\ IsFiniteSet(Takers(L))
      /\ Cardinality(L) \in Nat /\ Cardinality(Stays(L)) \in Nat /\ Cardinality(O) \in Nat
      /\ Cardinality(Takers(L)) \in Nat
  <2>1. Stays(L) \subseteq L /\ O \subseteq L /\ Takers(L) \subseteq L
    BY DEF Stays, Takers
  <2>2. IsFiniteSet(L)
    BY LaneInt, FS_Subset
  <2> QED BY <2>1, <2>2, FS_Subset, FS_CardinalityType
<1>2. Cardinality(L) = Cardinality(Stays(L)) + Cardinality(O)
  <2>1. L = Stays(L) \cup O /\ Stays(L) \cap O = {}
    BY DEF Stays
  <2>2. Cardinality(Stays(L) \cap O) = 0
    BY <2>1, FS_EmptySet
  <2>3. Cardinality(Stays(L) \cup O) = Cardinality(Stays(L)) + Cardinality(O) - Cardinality(Stays(L) \cap O)
    BY <1>1, FS_Union
  <2> HIDE DEF O
  <2>4. Cardinality(L) = Cardinality(Stays(L) \cup O)
    BY <2>1, Zenon
  <2>5. \A a, b, c \in Nat : a = b + c - 0 => a = b + c
    OBVIOUS
  <2> QED BY <1>1, <2>2, <2>3, <2>4, <2>5
<1>3. Cardinality(Takers(L)) = Cardinality(O)
  <2>1. take \in [Takers(L) -> O]
    BY TakenOnce
  <2>2. \A x, y \in Takers(L) : take[x] = take[y] => x = y
    BY TakenOnce
  <2>3. \A y \in O : \E x \in Takers(L) : take[x] = y
    BY TakenOnce
  <2>4. take \in Bijection(Takers(L), O)
    <3> HIDE DEF take, O
    <3>1. take \in Injection(Takers(L), O)
      BY <2>1, <2>2, Zenon DEF Injection, IsInjective
    <3>2. take \in Surjection(Takers(L), O)
      BY <2>1, <2>3, Zenon DEF Surjection
    <3> QED BY <3>1, <3>2 DEF Bijection
  <2> QED BY <1>1, <2>4, FS_Bijection DEF ExistsBijection
<1>4. Cardinality(Stays(L)) <= Cardinality(Takers(L)) + 1
  <2>1. ASSUME NEW l \in Stays(L), NEW m \in Stays(L), l \notin Takers(L), m \notin Takers(L) PROVE l = m
    <3>1. l \in L /\ m \in L /\ Downs(L, l) = {} /\ Downs(L, m) = {}
      BY <2>1 DEF Takers, Stays
    <3>2. ~ (l < m) /\ ~ (m < l)
      BY <3>1 DEF Downs
    <3>3. l \in Nat /\ m \in Nat
      BY <3>1, LaneInt
    <3> QED BY <3>2, <3>3
  <2>2. CASE Stays(L) = Takers(L)
    BY <1>1, <2>2
  <2>3. CASE Stays(L) # Takers(L)
    <3>1. PICK l \in Stays(L) : l \notin Takers(L)
      BY <2>3 DEF Takers
    <3>2. Stays(L) = Takers(L) \cup {l}
      BY <2>1, <3>1 DEF Takers
    <3>3. Cardinality(Takers(L) \cup {l}) = Cardinality(Takers(L)) + 1
      BY <1>1, <3>1, FS_AddElement
    <3> QED BY <1>1, <3>2, <3>3
  <2> QED BY <2>2, <2>3
<1> HIDE DEF O
<1> QED BY <1>1, <1>2, <1>3, <1>4

(* The lanes that are taken over after some rounds.                        *)
Takes(idx, r) == r \cup TakenOver(ReductionRound(idx, r))
ReducesFrom(f, idx, M) == f = [n \in 0 .. M |-> IF n = 0 THEN {} ELSE Takes(idx, f[n - 1])]

LEMMA ReducesExist ==
  ASSUME NEW idx, NEW M \in Nat
  PROVE  \E f : ReducesFrom(f, idx, M)
<1> DEFINE Without == {m \in Nat : ~ \E f : ReducesFrom(f, idx, m)}
<1> SUFFICES ASSUME Without # {} PROVE FALSE
  OBVIOUS
<1>1. PICK m \in Without : \A k \in Without : m <= k
  <2>1. Without \in SUBSET Nat
    OBVIOUS
  <2> HIDE DEF Without
  <2> QED BY <2>1, LeastNat
<1>2. m \in Nat /\ ~ \E f : ReducesFrom(f, idx, m)
  OBVIOUS
<1>3. m # 0
  <2>1. \A n \in 0 .. 0 : n = 0
    OBVIOUS
  <2>2. ReducesFrom([n \in 0 .. 0 |-> {}], idx, 0)
    BY <2>1 DEF ReducesFrom
  <2> QED BY <1>2, <2>2
<1>4. m - 1 \in Nat /\ m - 1 < m
  BY <1>2, <1>3
<1>5. PICK f : ReducesFrom(f, idx, m - 1)
  <2>1. m - 1 \notin Without
    BY <1>1, <1>2, <1>4
  <2> QED BY <1>4, <2>1
<1> DEFINE g == [n \in 0 .. m |-> IF n < m THEN f[n] ELSE Takes(idx, f[m - 1])]
<1>6. ASSUME NEW n \in 0 .. m PROVE g[n] = IF n = 0 THEN {} ELSE Takes(idx, g[n - 1])
  <2>1. CASE n = m
    <3>1. g[n - 1] = f[m - 1]
      BY <1>4, <2>1
    <3> QED BY <1>3, <2>1, <3>1
  <2>2. CASE n # m
    <3>1. n \in 0 .. m - 1 /\ n < m /\ (n # 0 => n - 1 \in 0 .. m /\ n - 1 < m)
      BY <1>2, <2>2
    <3>2. g[n] = f[n] /\ (n # 0 => g[n - 1] = f[n - 1])
      BY <3>1
    <3>3. f[n] = IF n = 0 THEN {} ELSE Takes(idx, f[n - 1])
      BY <1>5, <3>1 DEF ReducesFrom
    <3> QED BY <3>2, <3>3
  <2> QED BY <2>1, <2>2
<1>7. ReducesFrom(g, idx, m)
  BY <1>6 DEF ReducesFrom
<1> QED BY <1>2, <1>7

(* The rounds, each for the lanes that those before it left.               *)
LEMMA RoundsTake ==
  ASSUME NEW idx, RoundsNeeded(idx) \in Nat
  PROVE  \E f : /\ f[0] = {}
                /\ \A n \in 1 .. RoundsNeeded(idx) :
                     /\ ReductionRounds(idx)[n] = ReductionRound(idx, f[n - 1])
                     /\ f[n] = Takes(idx, f[n - 1])
<1> DEFINE M == RoundsNeeded(idx)
           Own(r) == r = [n \in 0 .. M |->
                            IF n = 0 THEN {}
                            ELSE With(r[n - 1], LAMBDA w : w \cup TakenOver(ReductionRound(idx, w)))]
           Reduced == CHOOSE r : Own(r)
<1>1. ReductionRounds(idx) = [n \in 1 .. M |-> With(Reduced[n - 1], LAMBDA r : ReductionRound(idx, r))]
  BY DEF ReductionRounds
<1>2. ASSUME NEW r PROVE Own(r) <=> ReducesFrom(r, idx, M)
  <2>1. \A w : With(w, LAMBDA x : x \cup TakenOver(ReductionRound(idx, x))) = Takes(idx, w)
    BY DEF With, Takes
  <2> QED BY <2>1 DEF ReducesFrom
<1>3. \E r : ReducesFrom(r, idx, M)
  BY ReducesExist
<1> HIDE DEF Own, M
<1>4. ReducesFrom(Reduced, idx, M)
  BY <1>2, <1>3
<1> HIDE DEF Reduced
<1>5. M \in Nat
  BY DEF M
<1>6. Reduced[0] = {}
  <2>1. 0 \in 0 .. M
    BY <1>5
  <2> QED BY <1>4, <2>1 DEF ReducesFrom
<1>7. ASSUME NEW n \in 1 .. M
      PROVE  /\ ReductionRounds(idx)[n] = ReductionRound(idx, Reduced[n - 1])
             /\ Reduced[n] = Takes(idx, Reduced[n - 1])
  <2>1. n \in 0 .. M /\ n # 0
    BY <1>5
  <2>2. ReductionRounds(idx)[n] = CHOOSE r \in {ReductionRound(idx, w) : w \in {Reduced[n - 1]}} : TRUE
    BY <1>1 DEF With
  <2>3. ReductionRounds(idx)[n] = ReductionRound(idx, Reduced[n - 1])
    BY <2>2
  <2> QED BY <1>4, <2>1, <2>3 DEF ReducesFrom
<1> QED BY <1>6, <1>7 DEF M

(* What a round does to the lanes of one row.                              *)
LEMMA RoundOf ==
  ASSUME NEW idx, NEW R, NEW l \in Lane
  PROVE  LET G == SameIndex(idx, l)
             L == G \ R IN
         /\ \A m \in G : SameIndex(idx, m) = G
         /\ \A m \in G : ReductionRound(idx, R)[m] =
                           IF m \in Takers(L) THEN Max(Downs(L, m)) ELSE Vector
         /\ G \ Takes(idx, R) = Stays(L)
<1> DEFINE G    == SameIndex(idx, l)
           L    == G \ R
           perm == ReductionRound(idx, R)
<1>1. \A m \in G : SameIndex(idx, m) = G /\ m \in Lane
  BY DEF SameIndex
<1>2. ASSUME NEW k \in Lane
      PROVE  perm[k] = IF k \in Takers(SameIndex(idx, k) \ R) THEN Max(Downs(SameIndex(idx, k) \ R, k)) ELSE Vector
  BY DEF ReductionRound, Takers, Stays, Downs, Ups
<1>3. L \in SUBSET Lane
  BY DEF SameIndex
<1>4. ASSUME NEW m \in G, m \in TakenOver(perm) PROVE m \in L \ Stays(L)
  <2>1. PICK k \in Lane : perm[k] = m /\ m # Vector
    BY <1>4 DEF TakenOver
  <2> DEFINE K == SameIndex(idx, k) \ R
  <2>2. k \in Takers(K) /\ m = Max(Downs(K, k))
    BY <1>2, <2>1
  <2>3. K \in SUBSET Lane
    BY DEF SameIndex
  <2>4. m \in K \ Stays(K)
    BY <2>2, <2>3, TakenOnce
  <2>5. SameIndex(idx, k) = G
    <3>1. m \in SameIndex(idx, k) /\ m \in SameIndex(idx, l)
      BY <2>4
    <3> QED BY <3>1 DEF SameIndex
  <2> QED BY <2>4, <2>5
<1>5. ASSUME NEW m \in L \ Stays(L) PROVE m \in TakenOver(perm)
  <2>1. PICK k \in Takers(L) : m = Max(Downs(L, k))
    BY <1>3, TakenOnce
  <2>2. k \in G /\ k \in Lane /\ SameIndex(idx, k) = G
    BY <1>1, <2>1 DEF Takers, Stays
  <2>3. perm[k] = m
    BY <1>2, <2>1, <2>2
  <2>4. m # Vector
    BY LaneInt, <1>1 DEF Lane
  <2> QED BY <2>2, <2>3, <2>4 DEF TakenOver
<1>6. Stays(L) \subseteq L
  BY DEF Stays
<1>7. G \ Takes(idx, R) = Stays(L)
  <2>1. Takes(idx, R) = R \cup TakenOver(perm)
    BY DEF Takes
  <2> HIDE DEF perm, G
  <2> QED BY <1>4, <1>5, <1>6, <2>1
<1>8. ASSUME NEW m \in G
      PROVE  perm[m] = IF m \in Takers(L) THEN Max(Downs(L, m)) ELSE Vector
  BY <1>1, <1>2
<1> QED BY <1>1, <1>7, <1>8

(* A live lane holds the lanes of its row down to the next live one.       *)
Owned(idx, R, l) == {m \in SameIndex(idx, l) :
                       m <= l /\ \A k \in SameIndex(idx, l) \ R : k < l => k < m}
OwnedHolds(idx, T, w, R) == \A l \in Lane : l \notin R => w[l] = SumOf(T, Owned(idx, R, l))

LEMMA OwnedGrows ==
  ASSUME NEW idx, NEW R, NEW l \in Lane, l \notin Takes(idx, R)
  PROVE  LET L == SameIndex(idx, l) \ R
             b == Max(Downs(L, l)) IN
         /\ l \notin R
         /\ l \notin Takers(L) => Owned(idx, Takes(idx, R), l) = Owned(idx, R, l)
         /\ l \in Takers(L) =>
              /\ b \in Lane /\ b \notin R /\ b < Vector
              /\ Owned(idx, R, b) \cap Owned(idx, R, l) = {}
              /\ Owned(idx, R, b) \cup Owned(idx, R, l) = Owned(idx, Takes(idx, R), l)
<1> DEFINE G == SameIndex(idx, l)
           L == G \ R
           b == Max(Downs(L, l))
<1>1. /\ l \in G /\ L \in SUBSET Lane /\ G \in SUBSET Lane
      /\ \A m \in G : SameIndex(idx, m) = G
      /\ G \ Takes(idx, R) = Stays(L)
  <2>1. l \in G /\ L \in SUBSET Lane /\ G \in SUBSET Lane
    BY DEF SameIndex
  <2> QED BY <2>1, RoundOf
<1>2. l \in Stays(L) /\ l \notin R /\ l \in L
  BY <1>1 DEF Stays
<1>3. \A m \in G : m \in Nat
  BY <1>1, LaneInt
<1>4. Owned(idx, R, l) = {m \in G : m <= l /\ \A k \in L : k < l => k < m}
  BY DEF Owned
<1>5. Owned(idx, Takes(idx, R), l) = {m \in G : m <= l /\ \A k \in Stays(L) : k < l => k < m}
  BY <1>1 DEF Owned
<1> HIDE DEF G
<1>6. ASSUME l \notin Takers(L) PROVE Owned(idx, Takes(idx, R), l) = Owned(idx, R, l)
  <2>1. Downs(L, l) = {}
    BY <1>2, <1>6 DEF Takers
  <2>2. \A k \in L : ~ (k < l)
    BY <2>1 DEF Downs
  <2>3. Stays(L) \subseteq L
    BY DEF Stays
  <2> HIDE DEF L
  <2> QED BY <1>4, <1>5, <2>2, <2>3
<1>7. ASSUME l \in Takers(L)
      PROVE  /\ b \in Lane /\ b \notin R /\ b < Vector
             /\ Owned(idx, R, b) \cap Owned(idx, R, l) = {}
             /\ Owned(idx, R, b) \cup Owned(idx, R, l) = Owned(idx, Takes(idx, R), l)
  <2>1. Downs(L, l) # {}
    BY <1>7 DEF Takers
  <2>2. /\ b \in L /\ b < l /\ b \in Nat
        /\ \A m \in L : m < l => m <= b
        /\ Cardinality(Ups(L, b)) = Cardinality(Ups(L, l)) + 1
        /\ Cardinality(Ups(L, l)) \in Nat
    BY <1>1, <1>2, <2>1, Sides
  <2>3. b \notin Stays(L)
    BY <1>1, <1>7, TakenOnce
  <2>a. Cardinality(Ups(L, l)) % 2 = 0
    BY <1>2 DEF Stays
  <2> HIDE DEF b
  <2>4. SameIndex(idx, b) = G /\ b \in Lane /\ b \notin R
    BY <1>1, <2>2
  <2>5. Owned(idx, R, b) = {m \in G : m <= b /\ \A k \in L : k < b => k < m}
    BY <2>4 DEF Owned
  <2>6. b < Vector
    BY <2>4 , LaneInt DEF Lane
  <2>7. ASSUME NEW k \in L, k < b
        PROVE  \E c \in Stays(L) : k <= c /\ c < b /\ c < l
    <3> DEFINE c == Max(Downs(L, b))
    <3>1. Downs(L, b) # {}
      BY <2>7 DEF Downs
    <3>2. /\ c \in L /\ c < b /\ c \in Nat /\ k <= c
          /\ Cardinality(Ups(L, c)) = Cardinality(Ups(L, b)) + 1
      BY <1>1, <2>2, <2>4, <2>7, <3>1, Sides
    <3> HIDE DEF c
    <3>3. \A n \in Nat : n % 2 = 0 => ((n + 1) + 1) % 2 = 0
      OBVIOUS
    <3>4. Cardinality(Ups(L, c)) % 2 = 0
      BY <2>2, <2>a, <3>2, <3>3
    <3>5. c \in Stays(L)
      BY <3>2, <3>4 DEF Stays
    <3>6. c < l
      BY <1>1, <1>3, <2>2, <3>2
    <3> QED BY <3>2, <3>5, <3>6
  <2>8. Stays(L) \subseteq L /\ l \in Nat /\ \A m \in L : m \in Nat
    BY <1>1, <1>3 DEF Stays, L
  <2> HIDE DEF L
  <2>9. ASSUME NEW m \in G
        PROVE  (m <= l /\ \A k \in L : k < l => k < m) <=> (m <= l /\ b < m)
    <3>1. m \in Nat
      BY <1>3
    <3> QED BY <2>2, <2>8, <3>1
  <2>10. ASSUME NEW m \in G
         PROVE  (m <= l /\ \A k \in Stays(L) : k < l => k < m) <=>
                (m <= l /\ b < m) \/ (m <= b /\ \A k \in L : k < b => k < m)
    <3>1. m \in Nat
      BY <1>3
    <3>2. ASSUME m <= l, \A k \in Stays(L) : k < l => k < m, ~ (b < m), NEW k \in L, k < b PROVE k < m
      <4>1. PICK c \in Stays(L) : k <= c /\ c < b /\ c < l
        BY <2>7, <3>2
      <4>2. c < m /\ c \in Nat /\ k \in Nat
        BY <2>8, <3>2, <4>1
      <4> QED BY <3>1, <4>1, <4>2
    <3>3. ASSUME m <= l, b < m, NEW k \in Stays(L), k < l PROVE k < m
      <4>1. k <= b /\ k \in Nat
        BY <2>2, <2>8, <3>3
      <4> QED BY <2>2, <3>1, <3>3, <4>1
    <3>4. ASSUME m <= b, \A k \in L : k < b => k < m, NEW k \in Stays(L), k < l PROVE k < m
      <4>1. k <= b /\ k # b /\ k \in L /\ k \in Nat
        BY <2>2, <2>3, <2>8, <3>4
      <4> QED BY <2>2, <3>4, <4>1
    <3>5. m <= b => m <= l
      BY <2>2, <2>8, <3>1
    <3>6. b < m \/ m <= b
      BY <2>2, <3>1
    <3>7. ASSUME m <= l, \A k \in Stays(L) : k < l => k < m
          PROVE  (m <= l /\ b < m) \/ (m <= b /\ \A k \in L : k < b => k < m)
      <4>1. CASE b < m
        BY <3>7, <4>1
      <4>2. CASE ~ (b < m)
        <5>1. \A k \in L : k < b => k < m
          BY <3>2, <3>7, <4>2
        <5> QED BY <3>6, <4>2, <5>1
      <4> QED BY <4>1, <4>2
    <3>8. ASSUME m <= l /\ b < m PROVE \A k \in Stays(L) : k < l => k < m
      BY <3>3, <3>8
    <3>9. ASSUME m <= b /\ \A k \in L : k < b => k < m
          PROVE  m <= l /\ \A k \in Stays(L) : k < l => k < m
      BY <3>4, <3>5, <3>9
    <3> HIDE DEF b
    <3> QED BY <3>7, <3>8, <3>9, Zenon
  <2>11. ASSUME NEW m \in G PROVE ~ (b < m /\ m <= b)
    BY <1>3, <2>2
  <2> QED BY <1>4, <1>5, <2>4, <2>5, <2>6, <2>9, <2>10, <2>11
<1> QED BY <1>2, <1>6, <1>7 DEF G

(* One round more.                                                         *)
LEMMA OwnedRound ==
  ASSUME NEW idx, NEW T, Disjoint(T), NEW R, NEW w, OwnedHolds(idx, T, w, R)
  PROVE  OwnedHolds(idx, T, StepOf(w, ReductionRound(idx, R)), Takes(idx, R))
<1> DEFINE perm == ReductionRound(idx, R)
           z    == StepOf(w, perm)
<1> SUFFICES ASSUME NEW l \in Lane, l \notin Takes(idx, R)
             PROVE  z[l] = SumOf(T, Owned(idx, Takes(idx, R), l))
  BY DEF OwnedHolds
<1> DEFINE L == SameIndex(idx, l) \ R
           b == Max(Downs(L, l))
<1>1. z[l] = (IF perm[l] < Vector THEN w[perm[l]] ELSE EmptyBag) (+) w[l]
  BY DEF StepOf, AddLanes, ShuffleVector
<1>2. perm[l] = IF l \in Takers(L) THEN b ELSE Vector
  <2>1. l \in SameIndex(idx, l)
    BY DEF SameIndex
  <2> QED BY <2>1, RoundOf
<1>3. /\ l \notin R
      /\ l \notin Takers(L) => Owned(idx, Takes(idx, R), l) = Owned(idx, R, l)
      /\ l \in Takers(L) =>
           /\ b \in Lane /\ b \notin R /\ b < Vector
           /\ Owned(idx, R, b) \cap Owned(idx, R, l) = {}
           /\ Owned(idx, R, b) \cup Owned(idx, R, l) = Owned(idx, Takes(idx, R), l)
  BY OwnedGrows
<1>4. w[l] = SumOf(T, Owned(idx, R, l))
  BY <1>3 DEF OwnedHolds
<1>5. \A k \in Lane : Owned(idx, R, k) \in SUBSET Lane
  BY DEF Owned, SameIndex
<1> HIDE DEF perm, z, b, L
<1>6. CASE l \in Takers(L)
  <2>1. z[l] = w[b] (+) w[l]
    BY <1>1, <1>2, <1>3, <1>6
  <2>2. w[b] = SumOf(T, Owned(idx, R, b))
    BY <1>3, <1>6 DEF OwnedHolds
  <2>3. SumOf(T, Owned(idx, R, b)) (+) SumOf(T, Owned(idx, R, l)) =
          SumOf(T, Owned(idx, R, b) \cup Owned(idx, R, l))
    BY <1>3, <1>5, <1>6, SumJoin
  <2> QED BY <1>3, <1>4, <1>6, <2>1, <2>2, <2>3
<1>7. CASE l \notin Takers(L)
  <2>1. z[l] = EmptyBag (+) w[l]
    <3>1. ~ (Vector < Vector)
      BY LaneInt
    <3> QED BY <1>1, <1>2, <1>7, <3>1
  <2>2. SumOf(T, {}) (+) SumOf(T, Owned(idx, R, l)) = SumOf(T, {} \cup Owned(idx, R, l))
    BY <1>5, SumJoin
  <2>3. {} \cup Owned(idx, R, l) = Owned(idx, R, l)
    OBVIOUS
  <2> QED BY <1>3, <1>4, <1>7, <2>1, <2>2, <2>3, SumFew
<1> QED BY <1>6, <1>7

(* The stream has the words of the rounds from position p on.              *)
ReductionReads(idx, s, p) ==
  \A n \in 1 .. RoundsNeeded(idx) : \A w \in 1 .. Vector \div 4 :
    At(s, (p + (n - 1) * (Vector \div 4)) + w - 1) = PackWords(ReductionRounds(idx)[n])[w]

(* After a round: the top lane of each row is live, and with it at most    *)
(* k - 1 more.                                                             *)
FewLive(idx, R, k) ==
  \A l \in Lane : /\ Max(SameIndex(idx, l)) \notin R
                  /\ Cardinality(SameIndex(idx, l) \ R) <= k

(* The top lane of a row.                                                  *)
LEMMA TopLane ==
  ASSUME NEW idx, NEW l \in Lane
  PROVE  LET top == Max(SameIndex(idx, l)) IN
         /\ top \in SameIndex(idx, l) /\ top \in Lane
         /\ \A m \in SameIndex(idx, l) : m <= top
<1>1. SameIndex(idx, l) \in SUBSET (0 .. Vector) /\ l \in SameIndex(idx, l)
  <2>1. \A k \in Lane : k \in 0 .. Vector
    BY LaneInt DEF Lane
  <2> QED BY <2>1 DEF SameIndex
<1> DEFINE top == Max(SameIndex(idx, l))
<1>2. top \in SameIndex(idx, l) /\ \A m \in SameIndex(idx, l) : top >= m
  BY <1>1, MinMaxLanes
<1>3. \A m \in SameIndex(idx, l) : m \in Lane /\ m \in Nat
  BY LaneInt DEF SameIndex
<1> HIDE DEF top
<1>4. top \in SameIndex(idx, l) /\ top \in Lane /\ \A m \in SameIndex(idx, l) : m <= top
  BY <1>2, <1>3
<1> QED BY <1>4 DEF top

LEMMA FewerLive ==
  ASSUME NEW idx, NEW R, NEW k \in Nat, FewLive(idx, R, 2 * k)
  PROVE  FewLive(idx, Takes(idx, R), k)
<1> SUFFICES ASSUME NEW l \in Lane
             PROVE  /\ Max(SameIndex(idx, l)) \notin Takes(idx, R)
                    /\ Cardinality(SameIndex(idx, l) \ Takes(idx, R)) <= k
  BY DEF FewLive
<1> DEFINE G   == SameIndex(idx, l)
           L   == G \ R
           top == Max(G)
<1>1. L \in SUBSET Lane
  BY DEF SameIndex
<1>2. G \ Takes(idx, R) = Stays(L)
  BY RoundOf
<1>3. top \notin R /\ Cardinality(L) <= 2 * k
  BY DEF FewLive
<1>4. top \in G /\ top \in Lane /\ \A m \in G : m <= top
  BY TopLane
<1>5. Ups(L, top) = {}
  <2>1. \A m \in G : m \in Nat
    BY LaneInt DEF SameIndex
  <2> HIDE DEF G, top
  <2> QED BY <1>4, <2>1 DEF Ups
<1>6. top \in Stays(L)
  <2>1. Cardinality(Ups(L, top)) = 0
    BY <1>5, FS_EmptySet
  <2>2. 0 % 2 = 0
    OBVIOUS
  <2> HIDE DEF top
  <2> QED BY <1>3, <1>4, <2>1, <2>2 DEF Stays
<1>7. Cardinality(Stays(L)) <= k
  <2> HIDE DEF L
  <2> QED BY <1>1, <1>3, HalfStay
<1> HIDE DEF G, top, L
<1>8. top \notin Takes(idx, R) /\ Cardinality(G \ Takes(idx, R)) <= k
  BY <1>2, <1>6, <1>7
<1> QED BY <1>8 DEF G, top

(* The table of rounds is enough for every row.                            *)
LEMMA RoundsEnough ==
  ASSUME NEW idx \in [Lane -> Nat]
  PROVE  LET M == RoundsNeeded(idx) IN
         /\ M \in 0 .. 4
         /\ M = 0 => FewLive(idx, {}, 1)
         /\ M = 1 => FewLive(idx, {}, 2)
         /\ M = 2 => FewLive(idx, {}, 4)
         /\ M = 3 => FewLive(idx, {}, 8)
         /\ M = 4 => FewLive(idx, {}, 16)
<1> DEFINE Sizes == {Cardinality(SameIndex(idx, l)) : l \in Lane}
           M == RoundsNeeded(idx)
<1>1. M \in 0 .. 4
  BY FewRounds
<1>2. M = RoundTable[Max(Sizes)]
  BY DEF RoundsNeeded
<1>3. \A l \in Lane : Cardinality(SameIndex(idx, l)) \in 1 .. Vector
  <2> SUFFICES ASSUME NEW l \in Lane PROVE Cardinality(SameIndex(idx, l)) \in 1 .. Vector
    OBVIOUS
  <2>1. SameIndex(idx, l) \in SUBSET Lane /\ l \in SameIndex(idx, l)
    BY DEF SameIndex
  <2>2. IsFiniteSet(SameIndex(idx, l)) /\ Cardinality(SameIndex(idx, l)) <= Vector
    BY <2>1, LaneInt, FS_Subset
  <2>3. Cardinality(SameIndex(idx, l)) \in Nat /\ Cardinality(SameIndex(idx, l)) # 0
    BY <2>1, <2>2, FS_CardinalityType, FS_EmptySet
  <2> QED BY <2>2, <2>3, LaneInt
<1>4. Max(Sizes) \in 1 .. 16 /\ \A l \in Lane : Cardinality(SameIndex(idx, l)) <= Max(Sizes)
  <2>1. Sizes \in SUBSET (0 .. Vector) /\ Sizes \in SUBSET (1 .. Vector) /\ Sizes # {}
    <3>1. 0 \in Lane
      BY LaneInt DEF Lane
    <3>2. 1 .. Vector \subseteq 0 .. Vector
      OBVIOUS
    <3> QED BY <1>3, <3>1, <3>2
  <2> HIDE DEF Sizes
  <2>2. Max(Sizes) \in Sizes /\ \A x \in Sizes : Max(Sizes) >= x
    BY <2>1, MinMaxLanes
  <2>3. Max(Sizes) \in 1 .. Vector
    BY <2>1, <2>2
  <2>4. Max(Sizes) \in 1 .. 16
    BY <2>3, LaneInt
  <2>5. \A l \in Lane : Cardinality(SameIndex(idx, l)) \in Sizes
    BY DEF Sizes
  <2>6. \A x \in Sizes : x \in Nat
    BY <2>1
  <2> QED BY <2>2, <2>4, <2>5, <2>6
<1>5. \A m \in 1 .. 16 : /\ RoundTable[m] = 0 => m <= 1
                         /\ RoundTable[m] = 1 => m <= 2
                         /\ RoundTable[m] = 2 => m <= 4
                         /\ RoundTable[m] = 3 => m <= 8
  BY DEF RoundTable
<1> HIDE DEF Sizes, M
<1>6. ASSUME NEW q \in Nat, Max(Sizes) <= q PROVE FewLive(idx, {}, q)
  <2> SUFFICES ASSUME NEW l \in Lane
               PROVE  /\ Max(SameIndex(idx, l)) \notin {}
                      /\ Cardinality(SameIndex(idx, l) \ {}) <= q
    BY DEF FewLive
  <2>1. SameIndex(idx, l) \ {} = SameIndex(idx, l)
    OBVIOUS
  <2>2. Cardinality(SameIndex(idx, l)) <= Max(Sizes) /\ Cardinality(SameIndex(idx, l)) \in Nat /\ Max(Sizes) \in Nat
    BY <1>3, <1>4
  <2> QED BY <1>6, <2>1, <2>2
<1>7. /\ M = 0 => FewLive(idx, {}, 1)
      /\ M = 1 => FewLive(idx, {}, 2)
      /\ M = 2 => FewLive(idx, {}, 4)
      /\ M = 3 => FewLive(idx, {}, 8)
      /\ M = 4 => FewLive(idx, {}, 16)
  BY <1>2, <1>4, <1>5, <1>6
<1> QED BY <1>1, <1>7 DEF M

(* When one lane of each row is live it holds them all.                    *)
LEMMA OneHolds ==
  ASSUME NEW idx, NEW T, NEW R, NEW w, OwnedHolds(idx, T, w, R), FewLive(idx, R, 1), NEW l \in Lane
  PROVE  w[Max(SameIndex(idx, l))] = SumOf(T, SameIndex(idx, l))
<1> DEFINE G   == SameIndex(idx, l)
           top == Max(G)
<1>1. top \in G /\ top \in Lane /\ \A m \in G : m <= top
  BY TopLane
<1>2. top \notin R /\ Cardinality(G \ R) <= 1
  BY DEF FewLive
<1>3. SameIndex(idx, top) = G
  BY <1>1 DEF SameIndex
<1>4. G \in SUBSET Lane
  BY DEF SameIndex
<1> HIDE DEF G, top
<1>5. ASSUME NEW k \in G \ R PROVE k = top
  <2> SUFFICES ASSUME k # top PROVE FALSE
    OBVIOUS
  <2>1. IsFiniteSet(G \ R)
    BY <1>4, LaneInt, FS_Subset
  <2>2. IsFiniteSet({top}) /\ Cardinality({top}) = 1
    BY FS_Singleton
  <2>3. IsFiniteSet({top} \cup {k}) /\ Cardinality({top} \cup {k}) = 1 + 1
    BY <2>2, FS_AddElement
  <2>4. {top} \cup {k} \subseteq G \ R
    BY <1>1, <1>2
  <2>5. Cardinality({top} \cup {k}) <= Cardinality(G \ R) /\ Cardinality(G \ R) \in Nat
    BY <2>1, <2>4, FS_Subset, FS_CardinalityType
  <2> QED BY <1>2, <2>3, <2>5
<1>6. Owned(idx, R, top) = G
  <2>1. Owned(idx, R, top) = {m \in G : m <= top /\ \A k \in G \ R : k < top => k < m}
    BY <1>3 DEF Owned
  <2>2. top \in Nat
    BY <1>1, LaneInt
  <2>3. \A k \in G \ R : ~ (k < top)
    BY <1>5, <2>2
  <2> QED BY <1>1, <2>1, <2>3
<1>7. w[top] = SumOf(T, Owned(idx, R, top))
  BY <1>1, <1>2 DEF OwnedHolds
<1>8. w[top] = SumOf(T, G)
  BY <1>6, <1>7
<1> QED BY <1>8 DEF top, G

(* The lane a lane takes over is one, or Vector.                           *)
LEMMA RoundBytes ==
  ASSUME NEW idx, NEW R
  PROVE  ReductionRound(idx, R) \in [Lane -> Bytes8] /\ ReductionRound(idx, R) \in [Lane -> 0 .. Vector]
<1> DEFINE perm == ReductionRound(idx, R)
<1>1. ASSUME NEW l \in Lane PROVE perm[l] \in 0 .. Vector
  <2> DEFINE L == SameIndex(idx, l) \ R
  <2>1. l \in SameIndex(idx, l)
    BY DEF SameIndex
  <2>2. perm[l] = IF l \in Takers(L) THEN Max(Downs(L, l)) ELSE Vector
    BY <2>1, RoundOf
  <2>3. L \in SUBSET Lane
    BY DEF SameIndex
  <2>4. l \in Takers(L) => Max(Downs(L, l)) \in Lane
    BY <2>3, TakenOnce
  <2>5. \A k \in Lane : k \in 0 .. Vector
    BY LaneInt DEF Lane
  <2>6. Vector \in 0 .. Vector
    BY LaneInt
  <2> HIDE DEF L, perm
  <2> QED BY <2>2, <2>4, <2>5, <2>6
<1>2. perm = [l \in Lane |-> perm[l]]
  BY DEF ReductionRound
<1>3. \A k \in 0 .. Vector : k \in Bytes8
  BY LaneInt DEF Bytes8
<1> HIDE DEF perm
<1>4. perm \in [Lane -> 0 .. Vector] /\ perm \in [Lane -> Bytes8]
  BY <1>1, <1>2, <1>3
<1> QED BY <1>4 DEF perm

(* ICmpEQ and Select do what a lane of zeros does.                         *)
LEMMA SelectedIs ==
  ASSUME NEW w, NEW perm \in [Lane -> 0 .. Vector]
  PROVE  [l \in Lane |-> IF perm[l] = Vector THEN EmptyBag ELSE PermVar(w, perm)[l]] =
           ShuffleVector(w, EmptyBag, perm)
<1>1. ASSUME NEW l \in Lane
      PROVE  (IF perm[l] = Vector THEN EmptyBag ELSE PermVar(w, perm)[l]) =
               (IF perm[l] < Vector THEN w[perm[l]] ELSE EmptyBag)
  <2>1. perm[l] \in 0 .. Vector /\ Vector \in Nat
    BY LaneInt
  <2>2. CASE perm[l] = Vector
    <3>1. ~ (perm[l] < Vector)
      BY <2>1, <2>2
    <3> QED BY <2>2, <3>1
  <2>3. CASE perm[l] # Vector
    <3>1. perm[l] < Vector /\ perm[l] \in Nat
      BY <2>1, <2>3
    <3>2. \A q \in Nat : q < Vector => q % Vector = q
      BY VectorAssumption
    <3>3. perm[l] % Vector = perm[l]
      BY <3>1, <3>2
    <3>4. PermVar(w, perm)[l] = w[perm[l]]
      BY <3>3 DEF PermVar
    <3> QED BY <2>3, <3>1, <3>4
  <2> QED BY <2>2, <2>3
<1> QED BY <1>1 DEF ShuffleVector

(* The rounds: the sum of the lanes with one row ends in the top one.      *)
LEMMA DisorderReduces ==
  ASSUME NEW idx \in [Lane -> Nat],
         NEW T, Disjoint(T), NEW v, v = [l \in Lane |-> SetToBag(T[l])],
         NEW s, NEW p \in Int, ReductionReads(idx, s, p), NEW l \in Lane
  PROVE  ReduceDisorder(RoundsNeeded(idx), s, p, v)[Max(SameIndex(idx, l))] = SumOf(T, SameIndex(idx, l))
<1> DEFINE M == RoundsNeeded(idx)
           perms == [n \in 1 .. M |-> ReductionRounds(idx)[n]]
           f == CHOOSE f : RoundsFrom(f, perms, M, v)
           Read(n) == UnpackWords(s, p + (n - 1) * (Vector \div 4))
           Own(r) == r = [n \in 0 .. M |->
                       IF n = 0 THEN v
                       ELSE With(r[n - 1],
                                 LAMBDA w : AddLanes([k \in Lane |-> IF Read(n)[k] = Vector THEN EmptyBag
                                                                     ELSE PermVar(w, Read(n))[k]], w))]
<1>1. M \in 0 .. 4 /\ M \in Nat
  BY RoundsEnough
<1>2. PICK R : /\ R[0] = {}
               /\ \A n \in 1 .. M : /\ ReductionRounds(idx)[n] = ReductionRound(idx, R[n - 1])
                                    /\ R[n] = Takes(idx, R[n - 1])
  BY <1>1, RoundsTake
<1>3. ASSUME NEW n \in 1 .. M
      PROVE  Read(n) = ReductionRounds(idx)[n] /\ Read(n) \in [Lane -> 0 .. Vector]
  <2> DEFINE perm == ReductionRounds(idx)[n]
             q    == p + (n - 1) * (Vector \div 4)
  <2>1. perm \in [Lane -> Bytes8] /\ perm \in [Lane -> 0 .. Vector]
    BY <1>2, RoundBytes
  <2>2. \A w \in 1 .. Vector \div 4 : At(s, q + w - 1) = PackWords(perm)[w]
    BY DEF ReductionReads
  <2>3. q \in Int
    BY <1>1, LaneInt
  <2> HIDE DEF perm, q
  <2>4. UnpackWords(s, q) = perm
    BY <2>1, <2>2, <2>3, WordsUnpacked
  <2> QED BY <2>1, <2>4 DEF perm, q
<1>4. ReduceDisorder(M, s, p, v) = (CHOOSE r : Own(r))[M]
  BY DEF ReduceDisorder
<1>5. ASSUME NEW r PROVE Own(r) <=> RoundsFrom(r, perms, M, v)
  <2>1. ASSUME NEW n \in 0 .. M, n # 0
        PROVE  With(r[n - 1], LAMBDA w : AddLanes([k \in Lane |-> IF Read(n)[k] = Vector THEN EmptyBag
                                                                 ELSE PermVar(w, Read(n))[k]], w))
                 = StepOf(r[n - 1], perms[n])
    <3>1. n \in 1 .. M
      BY <1>1, <2>1
    <3>2. perms[n] = Read(n) /\ Read(n) \in [Lane -> 0 .. Vector]
      BY <1>3, <3>1
    <3> HIDE DEF Read, perms
    <3>3. With(r[n - 1], LAMBDA w : AddLanes([k \in Lane |-> IF Read(n)[k] = Vector THEN EmptyBag
                                                            ELSE PermVar(w, Read(n))[k]], w))
            = AddLanes([k \in Lane |-> IF Read(n)[k] = Vector THEN EmptyBag
                                       ELSE PermVar(r[n - 1], Read(n))[k]], r[n - 1])
      BY DEF With
    <3>4. [k \in Lane |-> IF Read(n)[k] = Vector THEN EmptyBag ELSE PermVar(r[n - 1], Read(n))[k]] =
            ShuffleVector(r[n - 1], EmptyBag, Read(n))
      BY <3>2, SelectedIs
    <3> QED BY <3>2, <3>3, <3>4 DEF StepOf
  <2> HIDE DEF Read, perms, M
  <2> QED BY <2>1 DEF RoundsFrom
<1> HIDE DEF Own, perms, Read
<1>6. RoundsFrom(f, perms, M, v)
  <2> HIDE DEF M
  <2> QED BY <1>1, RoundsExist
<1>7. ReduceDisorder(M, s, p, v) = f[M]
  BY <1>4, <1>5
<1> HIDE DEF f, M
<1>8. f[0] = v /\ \A n \in 1 .. M : f[n] = StepOf(f[n - 1], ReductionRound(idx, R[n - 1]))
  <2>1. 0 \in 0 .. M /\ \A n \in 1 .. M : n \in 0 .. M /\ n # 0
    BY <1>1
  <2>2. \A n \in 1 .. M : perms[n] = ReductionRound(idx, R[n - 1])
    BY <1>2 DEF perms
  <2> QED BY <1>6, <2>1, <2>2 DEF RoundsFrom
<1>9. OwnedHolds(idx, T, f[0], R[0])
  <2> SUFFICES ASSUME NEW k \in Lane PROVE v[k] = SumOf(T, Owned(idx, {}, k))
    BY <1>2, <1>8 DEF OwnedHolds
  <2>1. Owned(idx, {}, k) = {k}
    <3> DEFINE G == SameIndex(idx, k)
    <3>1. Owned(idx, {}, k) = {m \in G : m <= k /\ \A j \in G : j < k => j < m}
      BY DEF Owned
    <3>2. k \in G /\ k \in Nat /\ \A m \in G : m \in Nat
      BY LaneInt DEF SameIndex
    <3> HIDE DEF G
    <3>3. ASSUME NEW m \in G, m <= k, \A j \in G : j < k => j < m PROVE m = k
      <4>1. ~ (m < k)
        BY <3>2, <3>3
      <4> QED BY <3>2, <3>3, <4>1
    <3>4. k <= k /\ \A j \in G : j < k => j < k
      BY <3>2
    <3> QED BY <3>1, <3>2, <3>3, <3>4
  <2> QED BY <2>1, SumFew
<1>10. ASSUME NEW n \in 1 .. M, OwnedHolds(idx, T, f[n - 1], R[n - 1])
       PROVE  OwnedHolds(idx, T, f[n], R[n])
  BY <1>2, <1>8, <1>10, OwnedRound
<1>11. ASSUME NEW n \in 1 .. M, NEW k \in Nat, FewLive(idx, R[n - 1], 2 * k)
       PROVE  FewLive(idx, R[n], k)
  BY <1>2, <1>11, FewerLive
<1>12. OwnedHolds(idx, T, f[M], R[M]) /\ FewLive(idx, R[M], 1)
  <2>0. /\ M >= 1 => 1 \in 1 .. M /\ 1 - 1 = 0
        /\ M >= 2 => 2 \in 1 .. M /\ 2 - 1 = 1
        /\ M >= 3 => 3 \in 1 .. M /\ 3 - 1 = 2
        /\ M >= 4 => 4 \in 1 .. M /\ 4 - 1 = 3
    BY <1>1
  <2>1. M >= 1 => OwnedHolds(idx, T, f[1], R[1])
    BY <2>0, <1>9, <1>10
  <2>2. M >= 2 => OwnedHolds(idx, T, f[2], R[2])
    <3>1. M >= 2 => M >= 1
      BY <1>1
    <3> QED BY <2>0, <2>1, <3>1, <1>10
  <2>3. M >= 3 => OwnedHolds(idx, T, f[3], R[3])
    <3>1. M >= 3 => M >= 2
      BY <1>1
    <3> QED BY <2>0, <2>2, <3>1, <1>10
  <2>4. M >= 4 => OwnedHolds(idx, T, f[4], R[4])
    <3>1. M >= 4 => M >= 3
      BY <1>1
    <3> QED BY <2>0, <2>3, <3>1, <1>10
  <2>5. \A n \in 1 .. M : /\ FewLive(idx, R[n - 1], 16) => FewLive(idx, R[n], 8)
                          /\ FewLive(idx, R[n - 1], 8) => FewLive(idx, R[n], 4)
                          /\ FewLive(idx, R[n - 1], 4) => FewLive(idx, R[n], 2)
                          /\ FewLive(idx, R[n - 1], 2) => FewLive(idx, R[n], 1)
    <3>1. 2 * 8 = 16 /\ 2 * 4 = 8 /\ 2 * 2 = 4 /\ 2 * 1 = 2
      OBVIOUS
    <3> QED BY <3>1, <1>11
  <2>6. /\ M = 0 => FewLive(idx, R[0], 1)
        /\ M = 1 => FewLive(idx, R[0], 2)
        /\ M = 2 => FewLive(idx, R[0], 4)
        /\ M = 3 => FewLive(idx, R[0], 8)
        /\ M = 4 => FewLive(idx, R[0], 16)
    BY <1>2, RoundsEnough DEF M
  <2>7. CASE M = 0
    BY <1>9, <2>6, <2>7
  <2>8. CASE M = 1
    BY <2>0, <2>1, <2>5, <2>6, <2>8
  <2>9. CASE M = 2
    <3>1. FewLive(idx, R[1], 2)
      BY <2>0, <2>5, <2>6, <2>9
    <3> QED BY <2>0, <2>2, <2>5, <2>9, <3>1
  <2>10. CASE M = 3
    <3>1. FewLive(idx, R[1], 4)
      BY <2>0, <2>5, <2>6, <2>10
    <3>2. FewLive(idx, R[2], 2)
      BY <2>0, <2>5, <2>10, <3>1
    <3> QED BY <2>0, <2>3, <2>5, <2>10, <3>2
  <2>11. CASE M = 4
    <3>1. FewLive(idx, R[1], 8)
      BY <2>0, <2>5, <2>6, <2>11
    <3>2. FewLive(idx, R[2], 4)
      BY <2>0, <2>5, <2>11, <3>1
    <3>3. FewLive(idx, R[3], 2)
      BY <2>0, <2>5, <2>11, <3>2
    <3> QED BY <2>0, <2>4, <2>5, <2>11, <3>3
  <2> QED BY <1>1, <2>7, <2>8, <2>9, <2>10, <2>11
<1>13. f[M][Max(SameIndex(idx, l))] = SumOf(T, SameIndex(idx, l))
  BY <1>12, OneHolds
<1> QED BY <1>7, <1>13 DEF M

-----------------------------------------------------------------------------
(* The scatter entries of a column with the rows idx.                      *)
ScatterReads(idx, s, p) ==
  IF OrderTypeOf(idx) = DisOrder THEN \A l \in Lane : At(s, p + l) = idx[l] ELSE At(s, p) = idx[0]

RowLanes(idx, r) == {l \in Lane : idx[l] = r}

(* All Infos of an index have its order.                                   *)
LEMMA InfoOrders ==
  ASSUME NEW idx
  PROVE  /\ ScatterInfo(idx).order = OrderTypeOf(idx)
         /\ ReductionInfo(idx).order = OrderTypeOf(idx)
         /\ OrderTypeOf(idx) = DisOrder => ReductionInfo(idx).mask = RoundsNeeded(idx)
         /\ OrderTypeOf(idx) = IncContinue =>
              ScatterInfo(idx).mask = ChangeMask(idx) /\ ReductionInfo(idx).mask = ChangeMask(idx)
<1>1. CASE OrderTypeOf(idx) = DisOrder
  <2>1. DisOrder # IncContinue
    BY DEF DisOrder, IncContinue
  <2> QED BY <1>1, <2>1 DEF ScatterInfo, ReductionInfo
<1>2. CASE OrderTypeOf(idx) # DisOrder
  <2>1. ReductionInfo(idx) = [order |-> OrderTypeOf(idx), mask |-> ScatterInfo(idx).mask, perm |-> <<>>]
    BY <1>2 DEF ReductionInfo
  <2>2. /\ ScatterInfo(idx).order = OrderTypeOf(idx)
        /\ OrderTypeOf(idx) = IncContinue => ScatterInfo(idx).mask = ChangeMask(idx)
    BY <1>2, OrderInfo
  <2> QED BY <1>2, <2>1, <2>2
<1> QED BY <1>1, <1>2

(* The gather of y, the reduction and the scatter together add to every    *)
(* location the lanes whose row it is, and leave the others.               *)
THEOREM StoreAdds ==
  ASSUME NEW idx \in [Lane -> Row],
         NEW info, info.order = ScatterInfo(idx).order, info.mask = ScatterInfo(idx).mask,
         NEW rinfo, rinfo.order = ReductionInfo(idx).order, rinfo.mask = ReductionInfo(idx).mask,
         NEW T, Disjoint(T), NEW v, v = [l \in Lane |-> SetToBag(T[l])],
         NEW s, NEW p \in Int, ScatterReads(idx, s, p),
         NEW rs, NEW rp \in Int, OrderTypeOf(idx) = DisOrder => ReductionReads(idx, rs, rp),
         NEW y
  PROVE  StoreY(info, s, p, y, AddLanes(LoadY(info, s, p, y), ReduceProducts(rinfo, rs, rp, v)))
           = [r \in Row |-> IF RowLanes(idx, r) = {} THEN y[r]
                            ELSE y[r] (+) SumOf(T, RowLanes(idx, r))]
<1> DEFINE order  == OrderTypeOf(idx)
           loaded == LoadY(info, s, p, y)
           sums   == ReduceProducts(rinfo, rs, rp, v)
           Lanes(r) == {l \in ActiveLanes(info) : Target(info, s, p, l) = r}
<1>1. /\ info.order = order /\ rinfo.order = order
      /\ order = DisOrder => rinfo.mask = RoundsNeeded(idx)
      /\ order = IncContinue => info.mask = ChangeMask(idx) /\ rinfo.mask = ChangeMask(idx)
  BY InfoOrders
<1>2. idx \in [Lane -> Nat] /\ idx \in [Lane -> Int] /\ \A r \in Row : r \in Nat
  BY SizeAssumption DEF Row
<1>3. 0 \in Lane /\ \A l \in Lane : l \in Nat
  BY LaneInt DEF Lane
<1>4. DisOrder # IncContinue /\ DisOrder # OrderEquel /\ IncContinue # OrderEquel
  BY DEF DisOrder, IncContinue, OrderEquel
<1>5. StoreY(info, s, p, y, AddLanes(loaded, sums)) =
        [r \in Row |-> IF Lanes(r) = {} THEN y[r] ELSE AddLanes(loaded, sums)[LastWriter(Lanes(r))]]
  BY DEF StoreY
<1>6. ASSUME NEW l \in Lane, NEW r \in Row, l \in ActiveLanes(info), Target(info, s, p, l) = r
      PROVE  AddLanes(loaded, sums)[l] = y[r] (+) sums[l]
  BY <1>6 DEF AddLanes, LoadY, YAt
<1> HIDE DEF loaded, sums, order
<1> SUFFICES ASSUME NEW r \in Row
             PROVE  (IF Lanes(r) = {} THEN y[r] ELSE AddLanes(loaded, sums)[LastWriter(Lanes(r))]) =
                    (IF RowLanes(idx, r) = {} THEN y[r] ELSE y[r] (+) SumOf(T, RowLanes(idx, r)))
  BY <1>5 DEF loaded, sums
<1>7. ASSUME NEW l \in Lane PROVE LastWriter({l}) = l
  <2>1. {l} \in SUBSET (0 .. Vector)
    BY LaneInt DEF Lane
  <2> QED BY <2>1, MinMaxLanes DEF LastWriter
<1>8. CASE order = OrderEquel
  <2>1. \A l \in Lane : idx[l] = idx[0]
    BY <1>2, <1>8, StepsNone DEF order
  <2>2. ActiveLanes(info) = {0} /\ Target(info, s, p, 0) = idx[0]
    <3>1. At(s, p) = idx[0]
      BY <1>4, <1>8 DEF ScatterReads, order
    <3> QED BY <1>1, <1>4, <1>8, <3>1 DEF ActiveLanes, Target
  <2>3. sums = [l \in Lane |-> SumOf(T, Lane)]
    <3>1. sums = [l \in Lane |-> ReduceLanes(v)]
      BY <1>1, <1>4, <1>8 DEF ReduceProducts, sums
    <3> QED BY <3>1, ReduceLanesSums
  <2>4. CASE idx[0] = r
    <3>1. Lanes(r) = {0} /\ RowLanes(idx, r) = Lane
      BY <2>1, <2>2, <2>4 DEF RowLanes
    <3>2. AddLanes(loaded, sums)[0] = y[r] (+) sums[0]
      BY <1>3, <1>6, <2>2, <2>4
    <3>3. LastWriter({0}) = 0 /\ sums[0] = SumOf(T, Lane)
      BY <1>3, <1>7, <2>3
    <3>4. Lane # {}
      BY <1>3
    <3> HIDE DEF Lanes
    <3> QED BY <3>1, <3>2, <3>3, <3>4
  <2>5. CASE idx[0] # r
    <3>1. Lanes(r) = {} /\ RowLanes(idx, r) = {}
      BY <2>1, <2>2, <2>5 DEF RowLanes
    <3> HIDE DEF Lanes
    <3> QED BY <3>1
  <2> QED BY <2>4, <2>5
<1>9. CASE order = IncContinue
  <2> DEFINE mask == ChangeMask(idx)
  <2>1. ActiveLanes(info) = {l \in Lane : l < PopCount(mask)}
    BY <1>1, <1>4, <1>9 DEF ActiveLanes, CompressMask
  <2>2. \A l \in Lane : Target(info, s, p, l) = idx[0] + l
    <3>1. At(s, p) = idx[0]
      BY <1>4, <1>9 DEF ScatterReads, order
    <3> QED BY <1>1, <1>4, <1>9, <3>1 DEF Target
  <2>3. ASSUME NEW n \in Lane, n < PopCount(mask)
        PROVE  sums[n] = SumOf(T, RowLanes(idx, idx[0] + n))
    <3>1. sums = ReduceContinue(mask, v)
      BY <1>1, <1>4, <1>9 DEF ReduceProducts, sums
    <3> QED BY <1>2, <1>9, <2>3, <3>1, TreeReduces DEF order, RowLanes
  <2>4. ASSUME NEW m \in Lane
        PROVE  \E n \in Lane : n < PopCount(mask) /\ idx[m] = idx[0] + n
    <3> DEFINE n == Upto(Changes(idx), m)
    <3>1. idx[m] = idx[0] + n /\ n < PopCount(mask) /\ PopCount(mask) \in 1 .. Vector /\ n \in Nat
      BY <1>2, <1>9, ContinueMask DEF order
    <3> HIDE DEF n
    <3>2. n \in Lane
      BY <3>1, LaneInt DEF Lane
    <3> QED BY <3>1, <3>2
  <2> HIDE DEF mask
  <2>5. Lanes(r) = {l \in Lane : l < PopCount(mask) /\ idx[0] + l = r}
    BY <2>1, <2>2
  <2>6. idx[0] \in Nat
    BY <1>2, <1>3
  <2>7. CASE \E n \in Lane : n < PopCount(mask) /\ idx[0] + n = r
    <3>1. PICK n \in Lane : n < PopCount(mask) /\ idx[0] + n = r
      BY <2>7
    <3>2. Lanes(r) = {n}
      <4>1. ASSUME NEW l \in Lane, idx[0] + l = r PROVE l = n
        <5>1. l \in Nat /\ n \in Nat
          BY <1>3
        <5> QED BY <2>6, <3>1, <4>1, <5>1
      <4> HIDE DEF Lanes
      <4> QED BY <2>5, <3>1, <4>1
    <3>3. AddLanes(loaded, sums)[n] = y[r] (+) sums[n]
      <4>1. n \in ActiveLanes(info) /\ Target(info, s, p, n) = r
        BY <2>1, <2>2, <3>1
      <4> QED BY <1>6, <4>1
    <3>4. LastWriter({n}) = n /\ sums[n] = SumOf(T, RowLanes(idx, r))
      BY <1>7, <2>3, <3>1
    <3> HIDE DEF Lanes
    <3>5. RowLanes(idx, r) # {}
      <4>1. CompressVec(mask)[n] \in Lane /\ idx[CompressVec(mask)[n]] = idx[0] + n
        BY <1>2, <1>9, <3>1, NthRun DEF order, mask
      <4> QED BY <3>1, <4>1 DEF RowLanes
    <3> QED BY <3>2, <3>3, <3>4, <3>5
  <2>8. CASE ~ \E n \in Lane : n < PopCount(mask) /\ idx[0] + n = r
    <3>1. Lanes(r) = {}
      BY <2>5, <2>8
    <3>2. RowLanes(idx, r) = {}
      BY <2>4, <2>8 DEF RowLanes
    <3> HIDE DEF Lanes
    <3> QED BY <3>1, <3>2
  <2> QED BY <2>7, <2>8
<1>10. CASE order = DisOrder
  <2>1. ActiveLanes(info) = Lane
    BY <1>1, <1>4, <1>10 DEF ActiveLanes
  <2>2. \A l \in Lane : Target(info, s, p, l) = idx[l]
    <3>1. \A l \in Lane : At(s, p + l) = idx[l]
      BY <1>10 DEF ScatterReads, order
    <3> QED BY <1>1, <1>10, <3>1 DEF Target
  <2>3. sums = ReduceDisorder(RoundsNeeded(idx), rs, rp, v)
    BY <1>1, <1>4, <1>10 DEF ReduceProducts, sums
  <2>4. Lanes(r) = RowLanes(idx, r)
    BY <2>1, <2>2 DEF RowLanes
  <2> HIDE DEF Lanes
  <2>5. CASE RowLanes(idx, r) = {}
    BY <2>4, <2>5
  <2>6. CASE RowLanes(idx, r) # {}
    <3>1. PICK l \in Lane : idx[l] = r
      BY <2>6 DEF RowLanes
    <3>2. RowLanes(idx, r) = SameIndex(idx, l)
      BY <3>1 DEF RowLanes, SameIndex
    <3> DEFINE top == Max(SameIndex(idx, l))
    <3>3. top \in SameIndex(idx, l) /\ top \in Lane
      BY TopLane
    <3>4. sums[top] = SumOf(T, SameIndex(idx, l))
      BY <1>2, <1>10, <2>3, DisorderReduces DEF order
    <3> HIDE DEF top
    <3>5. idx[top] = r
      BY <3>1, <3>3 DEF SameIndex
    <3>6. AddLanes(loaded, sums)[top] = y[r] (+) sums[top]
      BY <1>6, <2>1, <2>2, <3>3, <3>5
    <3>7. LastWriter(Lanes(r)) = top
      BY <2>4, <3>2 DEF LastWriter, top
    <3> QED BY <2>4, <2>6, <3>2, <3>4, <3>6, <3>7
  <2> QED BY <2>5, <2>6
<1>11. order \in {DisOrder, IncContinue, OrderEquel}
  BY OrderTypes DEF order
<1> QED BY <1>8, <1>9, <1>10, <1>11
=============================================================================
