--------------------------- MODULE Compiler_proofs ---------------------------
(***************************************************************************)
(* Proofs about CodeSeed and Compiler: whatever tree the parser leaves,    *)
(* the worklist emits every node the root needs, once, and before it none  *)
(* of its users is missing.  In every call, the tree generate_code_seed    *)
(* works on is the one the parser left, so that what is proved of the      *)
(* parser from a new ParseClass on, and of the worklist from such a tree   *)
(* on, holds of the compiler.                                              *)
(***************************************************************************)
EXTENDS Compiler, Parser_proofs, WellFoundedInduction

-----------------------------------------------------------------------------
(* The worklist.                                                           *)

Emitted == {emitted[p] : p \in DOMAIN emitted}
Queued  == {cal_queue[p] : p \in DOMAIN cal_queue}

(* A use is seen once its user has been taken and has found the operand.   *)
Seen(u)    == u[1] \in Emitted /\ (u[1] = top_node => u[2] <= found)
Pending(n) == {u \in UsesOf(nodes, n) : ~ Seen(u)}

ListsOK == cal_queue \in Seq(DOMAIN nodes) /\ emitted \in Seq(DOMAIN nodes)

(* Only the node taken last may still have operands to find.               *)
TopOK ==
  /\ found \in Nat
  /\ top_node = 0 => emitted = <<>>
  /\ top_node # 0 => top_node \in Emitted /\ found <= Len(Args(top_node))

(* need_node counts the uses that are not seen yet.                        *)
PendingOK == need_node = [n \in DOMAIN nodes |-> Cardinality(Pending(n))]

(* A node joins the queue when all its uses are seen, and always then.     *)
ReadyOK == \A n \in Emitted \cup Queued : Pending(n) = {}
CompleteOK ==
  \A n \in DOMAIN nodes :
    Pending(n) = {} /\ (n = root_node \/ UsesOf(nodes, n) # {}) => n \in Emitted \cup Queued

(* No node is in the queue, or taken, twice.                               *)
OnceOK ==
  /\ EmittedOnce
  /\ \A p, q \in DOMAIN cal_queue : cal_queue[p] = cal_queue[q] => p = q
  /\ Emitted \cap Queued = {}

SeedInv ==
  /\ TreeShape /\ ListsOK /\ TopOK /\ PendingOK /\ ReadyOK /\ CompleteOK /\ OnceOK
  /\ OperandsBeforeUse

-----------------------------------------------------------------------------
(* A use is a node of the tree and the place of an operand in it.          *)
LEMMA UsesInTree ==
  ASSUME NEW n, NEW u
  PROVE  u \in UsesOf(nodes, n) <=>
           \E m \in DOMAIN nodes : \E j \in DOMAIN Args(m) : u = <<m, j>> /\ Args(m)[j] = n
BY UsesAre DEF Args

(* Args of a node of the tree is a sequence of at most three nodes.        *)
LEMMA ArgsAre ==
  ASSUME TreeShape, NEW n \in DOMAIN nodes
  PROVE  /\ Args(n) \in Seq(Nat) /\ Len(Args(n)) \in 0 .. 3
         /\ DOMAIN Args(n) = 1 .. Len(Args(n))
         /\ \A j \in DOMAIN Args(n) : Args(n)[j] \in DOMAIN nodes /\ Args(n)[j] < n
         /\ n \in Nat \ {0}
<1>1. DOMAIN nodes = 1 .. Len(nodes) /\ Len(nodes) \in Nat /\ nodes[n] \in NodeRecord
  BY DEF TreeShape
<1>2. Args(n) \in Seq(Nat)
  BY <1>1 DEF Args, NodeRecord
<1>3. /\ Len(Args(n)) <= 3
      /\ \A j \in DOMAIN Args(n) : Args(n)[j] \in 1 .. n - 1
  BY DEF TreeShape
<1>4. Len(Args(n)) \in Nat /\ DOMAIN Args(n) = 1 .. Len(Args(n))
  BY <1>2
<1>5. n \in 1 .. Len(nodes)
  BY <1>1
<1>6. ASSUME NEW j \in DOMAIN Args(n) PROVE Args(n)[j] \in DOMAIN nodes /\ Args(n)[j] < n
  <2>1. Args(n)[j] \in 1 .. n - 1
    BY <1>3
  <2> QED BY <1>1, <1>5, <2>1
<1>7. Len(Args(n)) \in 0 .. 3 /\ n \in Nat \ {0}
  BY <1>1, <1>3, <1>4, <1>5
<1> QED BY <1>2, <1>4, <1>6, <1>7

(* A node has finitely many uses, and so finitely many that are pending.   *)
LEMMA PendingFinite ==
  ASSUME TreeShape, NEW n
  PROVE  IsFiniteSet(Pending(n))
<1>1. Small(nodes)
  BY DEF TreeShape, Small, Args
<1>2. IsFiniteSet(UsesOf(nodes, n))
  BY <1>1, UsesAreFinite
<1>3. Pending(n) \in SUBSET UsesOf(nodes, n)
  BY DEF Pending
<1> QED BY <1>2, <1>3, FS_Subset

-----------------------------------------------------------------------------
(* Taking a node moves it from the queue to the emitted ones.              *)
LEMMA TakeMoves ==
  ASSUME TreeShape, ListsOK, OnceOK, TakeNode
  PROVE  /\ Head(cal_queue) \in Queued /\ Head(cal_queue) \in DOMAIN nodes
         /\ Emitted' = Emitted \cup {Head(cal_queue)}
         /\ Queued' = Queued \ {Head(cal_queue)}
         /\ \A p, q \in DOMAIN cal_queue' : cal_queue'[p] = cal_queue'[q] => p = q
         /\ ListsOK'
         /\ Len(emitted') = Len(emitted) + 1
         /\ emitted'[Len(emitted) + 1] = Head(cal_queue)
         /\ \A p \in 1 .. Len(emitted) : emitted'[p] = emitted[p]
         /\ DOMAIN emitted = 1 .. Len(emitted) /\ DOMAIN emitted' = 1 .. Len(emitted) + 1
         /\ Len(emitted) \in Nat
<1> DEFINE h == Head(cal_queue)
<1>1. /\ cal_queue \in Seq(DOMAIN nodes) /\ emitted \in Seq(DOMAIN nodes) /\ cal_queue # <<>>
      /\ emitted' = Append(emitted, h) /\ cal_queue' = Tail(cal_queue)
      /\ nodes' = nodes
  BY DEF ListsOK, TakeNode, tree
<1>2. /\ h = cal_queue[1] /\ 1 \in DOMAIN cal_queue /\ h \in DOMAIN nodes
      /\ Len(cal_queue) \in Nat \ {0} /\ DOMAIN cal_queue = 1 .. Len(cal_queue)
      /\ cal_queue' \in Seq(DOMAIN nodes) /\ DOMAIN cal_queue' = 1 .. Len(cal_queue) - 1
      /\ \A p \in DOMAIN cal_queue' : cal_queue'[p] = cal_queue[p + 1]
  BY <1>1
<1>3. /\ emitted' \in Seq(DOMAIN nodes)
      /\ Len(emitted) \in Nat /\ DOMAIN emitted = 1 .. Len(emitted)
      /\ Len(emitted') = Len(emitted) + 1 /\ DOMAIN emitted' = 1 .. Len(emitted) + 1
      /\ emitted'[Len(emitted) + 1] = h
      /\ \A p \in 1 .. Len(emitted) : emitted'[p] = emitted[p]
  BY <1>1, <1>2
<1>4. Emitted' = Emitted \cup {h}
  <2>1. Emitted' \subseteq Emitted \cup {h}
    BY <1>3 DEF Emitted
  <2>2. Emitted \subseteq Emitted'
    BY <1>3 DEF Emitted
  <2>3. h \in Emitted'
    BY <1>3 DEF Emitted
  <2> QED BY <2>1, <2>2, <2>3
<1>5. Queued' = Queued \ {h}
  <2>1. ASSUME NEW p \in DOMAIN cal_queue' PROVE cal_queue'[p] \in Queued \ {h}
    <3>1. p + 1 \in DOMAIN cal_queue /\ p + 1 # 1 /\ cal_queue'[p] = cal_queue[p + 1]
      BY <1>2
    <3> QED BY <3>1, <1>2 DEF Queued, OnceOK
  <2>2. ASSUME NEW p \in DOMAIN cal_queue, cal_queue[p] # h PROVE cal_queue[p] \in Queued'
    <3>1. p - 1 \in DOMAIN cal_queue' /\ cal_queue'[p - 1] = cal_queue[p]
      BY <1>2, <2>2
    <3> QED BY <3>1 DEF Queued
  <2> QED BY <2>1, <2>2 DEF Queued
<1>6. ASSUME NEW p \in DOMAIN cal_queue', NEW q \in DOMAIN cal_queue', cal_queue'[p] = cal_queue'[q]
      PROVE  p = q
  <2>1. cal_queue[p + 1] = cal_queue[q + 1] /\ p + 1 \in DOMAIN cal_queue /\ q + 1 \in DOMAIN cal_queue
    BY <1>2, <1>6
  <2>2. p + 1 = q + 1
    BY <2>1 DEF OnceOK
  <2> QED BY <2>2, <1>2
<1>7. ListsOK'
  BY <1>1, <1>2, <1>3 DEF ListsOK
<1>8. h \in Queued
  BY <1>2 DEF Queued
<1> QED BY <1>2, <1>3, <1>4, <1>5, <1>6, <1>7, <1>8

(* It sees no use: the node before has found all its operands, the new one *)
(* none.                                                                   *)
LEMMA TakePending ==
  ASSUME SeedInv, TakeNode, NEW n
  PROVE  Pending(n)' = Pending(n)
<1>1. nodes' = nodes /\ top_node' = Head(cal_queue) /\ found' = 0 /\ ~ Unfound
  BY DEF TakeNode, tree
<1>2. Emitted' = Emitted \cup {Head(cal_queue)} /\ Head(cal_queue) \notin Emitted
  BY TakeMoves DEF SeedInv, OnceOK
<1>3. ASSUME NEW u \in UsesOf(nodes, n) PROVE Seen(u)' <=> Seen(u)
  <2>1. PICK m \in DOMAIN nodes, j \in Nat : j \in DOMAIN Args(m) /\ u = <<m, j>>
    BY UsesInTree, ArgsAre DEF SeedInv
  <2>2. j \in 1 .. Len(Args(m)) /\ Len(Args(m)) \in Nat /\ m \in Nat \ {0}
    BY <2>1, ArgsAre DEF SeedInv
  <2>3. CASE m = Head(cal_queue)
    BY <1>1, <1>2, <2>1, <2>2, <2>3 DEF Seen
  <2>4. CASE m # Head(cal_queue)
    <3>1. m = top_node => j <= found
      BY <1>1, <2>2 DEF SeedInv, TopOK, Unfound
    <3> QED BY <3>1, <1>1, <1>2, <2>1, <2>4 DEF Seen
  <2> QED BY <2>3, <2>4
<1> QED BY <1>1, <1>3 DEF Pending

(* Finding an operand sees one use, of that operand.                       *)
LEMMA FindPending ==
  ASSUME SeedInv, FindVar
  PROVE  LET n == Args(top_node)[found + 1]
             u == <<top_node, found + 1>>
         IN /\ n \in DOMAIN nodes
            /\ \A m : u \in Pending(m) <=> m = n
            /\ \A m : Pending(m)' = Pending(m) \ {u}
            /\ top_node \in DOMAIN nodes /\ found + 1 \in DOMAIN Args(top_node)
<1> DEFINE n == Args(top_node)[found + 1]
           u == <<top_node, found + 1>>
<1>1. /\ nodes' = nodes /\ top_node' = top_node /\ emitted' = emitted /\ found' = found + 1
      /\ top_node # 0 /\ found < Len(Args(top_node))
  BY DEF FindVar, Unfound
<1>2. /\ TreeShape /\ found \in Nat /\ top_node \in Emitted /\ Emitted \subseteq DOMAIN nodes
      /\ Emitted' = Emitted
  BY <1>1 DEF SeedInv, TopOK, ListsOK, Emitted
<1>3. top_node \in DOMAIN nodes /\ found + 1 \in DOMAIN Args(top_node) /\ n \in DOMAIN nodes
  BY <1>1, <1>2, ArgsAre
<1>4. ASSUME NEW m PROVE u \in Pending(m) <=> m = n
  <2>1. u \in UsesOf(nodes, m) <=> m = n
    BY <1>2, <1>3, UsesInTree
  <2>2. ~ Seen(u)
    BY <1>2 DEF Seen
  <2> QED BY <2>1, <2>2 DEF Pending
<1>5. ASSUME NEW m, NEW v \in UsesOf(nodes, m) PROVE Seen(v)' <=> (Seen(v) \/ v = u)
  <2>1. PICK k \in DOMAIN nodes, j \in Nat : j \in DOMAIN Args(k) /\ v = <<k, j>>
    BY <1>2, UsesInTree, ArgsAre
  <2>3. CASE k = top_node
    BY <1>1, <1>2, <2>1, <2>3 DEF Seen
  <2>4. CASE k # top_node
    BY <1>1, <1>2, <2>1, <2>4 DEF Seen
  <2> QED BY <2>3, <2>4
<1>6. ASSUME NEW m PROVE Pending(m)' = Pending(m) \ {u}
  <2>1. Pending(m)' = {v \in UsesOf(nodes, m) : ~ Seen(v)'}
    BY <1>1 DEF Pending
  <2> QED BY <1>5, <2>1 DEF Pending
<1> QED BY <1>3, <1>4, <1>6

-----------------------------------------------------------------------------
(* The tree of the parser: nothing is emitted, no use is seen.             *)
LEMMA StartOK == SeedInit => SeedInv
<1> SUFFICES ASSUME SeedInit PROVE SeedInv
  OBVIOUS
<1>1. /\ TreeShape /\ need_node = [n \in DOMAIN nodes |-> Cardinality(UsesOf(nodes, n))]
      /\ cal_queue = <<root_node>> /\ top_node = 0 /\ found = 0 /\ emitted = <<>>
  BY DEF SeedInit, ParsedTree, SeedStart
<1>2. root_node \in DOMAIN nodes /\ UsesOf(nodes, root_node) = {}
  BY <1>1 DEF TreeShape
<1>3. Emitted = {} /\ Queued = {root_node} /\ DOMAIN cal_queue = {1}
  BY <1>1 DEF Emitted, Queued
<1>4. \A n : Pending(n) = UsesOf(nodes, n)
  BY <1>3 DEF Pending, Seen
<1>5. ListsOK
  BY <1>1, <1>2 DEF ListsOK
<1>6. TopOK
  BY <1>1 DEF TopOK
<1>7. PendingOK /\ ReadyOK /\ CompleteOK
  BY <1>1, <1>2, <1>3, <1>4 DEF PendingOK, ReadyOK, CompleteOK
<1>8. OnceOK /\ OperandsBeforeUse
  BY <1>1, <1>3 DEF OnceOK, EmittedOnce, OperandsBeforeUse
<1> QED BY <1>1, <1>5, <1>6, <1>7, <1>8 DEF SeedInv

(* Taking a node from the queue keeps every part of the invariant.         *)
LEMMA TakeOK == SeedInv /\ TakeNode => SeedInv'
<1> SUFFICES ASSUME SeedInv, TakeNode PROVE SeedInv'
  OBVIOUS
<1> DEFINE h == Head(cal_queue)
<1>1. /\ nodes' = nodes /\ need_node' = need_node /\ root_node' = root_node
      /\ top_node' = h /\ found' = 0
  BY DEF TakeNode, tree
<1>2. TreeShape /\ ListsOK /\ PendingOK /\ ReadyOK /\ CompleteOK /\ OnceOK /\ OperandsBeforeUse
  BY DEF SeedInv
<1>3. /\ h \in Queued /\ h \in DOMAIN nodes
      /\ Emitted' = Emitted \cup {h} /\ Queued' = Queued \ {h}
      /\ \A p, q \in DOMAIN cal_queue' : cal_queue'[p] = cal_queue'[q] => p = q
      /\ ListsOK'
  BY <1>2, TakeMoves
<1>4. /\ emitted'[Len(emitted) + 1] = h
      /\ \A p \in 1 .. Len(emitted) : emitted'[p] = emitted[p]
      /\ DOMAIN emitted = 1 .. Len(emitted) /\ DOMAIN emitted' = 1 .. Len(emitted) + 1
      /\ Len(emitted) \in Nat
  BY <1>2, TakeMoves
<1>5. \A n : Pending(n)' = Pending(n)
  BY TakePending
<1>6. Emitted' \cup Queued' = Emitted \cup Queued
  BY <1>3
<1>7. TreeShape'
  BY <1>1, <1>2 DEF TreeShape, UsesOf, Args
<1>8. TopOK'
  <2>1. Len(Args(h)) \in Nat /\ h # 0
    BY <1>2, <1>3, ArgsAre
  <2>2. Args(top_node)' = Args(h)
    BY <1>1 DEF Args
  <2> QED BY <1>1, <1>3, <2>1, <2>2 DEF TopOK
<1>9. PendingOK' /\ ReadyOK'
  BY <1>1, <1>2, <1>5, <1>6 DEF PendingOK, ReadyOK
<1>10. CompleteOK'
  BY <1>1, <1>2, <1>5, <1>6 DEF CompleteOK
<1>11. OnceOK'
  <2>1. h \notin Emitted
    BY <1>2, <1>3 DEF OnceOK
  <2>2. \A p \in 1 .. Len(emitted) : emitted[p] # h
    BY <1>4, <2>1 DEF Emitted
  <2>3. EmittedOnce'
    BY <1>2, <1>4, <2>2 DEF OnceOK, EmittedOnce
  <2>4. Emitted' \cap Queued' = {}
    BY <1>2, <1>3 DEF OnceOK
  <2> QED BY <1>3, <2>3, <2>4 DEF OnceOK
<1>12. OperandsBeforeUse'
  <2> SUFFICES ASSUME NEW p \in DOMAIN emitted', NEW u \in UsesOf(nodes, emitted'[p])
               PROVE  \E q \in 1 .. p - 1 : emitted'[q] = u[1]
    BY <1>1 DEF OperandsBeforeUse
  <2>1. CASE p \in 1 .. Len(emitted)
    <3>1. PICK q \in 1 .. p - 1 : emitted[q] = u[1]
      BY <1>2, <1>4, <2>1 DEF OperandsBeforeUse
    <3> QED BY <1>4, <2>1, <3>1
  <2>2. CASE p = Len(emitted) + 1
    <3>1. u \in UsesOf(nodes, h) /\ Pending(h) = {}
      BY <1>2, <1>3, <1>4, <2>2 DEF ReadyOK
    <3>2. u[1] \in Emitted
      BY <3>1 DEF Pending, Seen
    <3>3. PICK q \in 1 .. Len(emitted) : emitted[q] = u[1]
      BY <1>4, <3>2 DEF Emitted
    <3> QED BY <1>4, <2>2, <3>3
  <2> QED BY <1>4, <2>1, <2>2
<1> QED BY <1>3, <1>7, <1>8, <1>9, <1>10, <1>11, <1>12 DEF SeedInv

(* So does finding an operand, which may make it ready.                    *)
LEMMA FindOK == SeedInv /\ FindVar => SeedInv'
<1> SUFFICES ASSUME SeedInv, FindVar PROVE SeedInv'
  OBVIOUS
<1> DEFINE n == Args(top_node)[found + 1]
           u == <<top_node, found + 1>>
<1>1. /\ nodes' = nodes /\ root_node' = root_node /\ top_node' = top_node
      /\ emitted' = emitted /\ found' = found + 1
      /\ need_node' = [need_node EXCEPT ![n] = @ - 1]
      /\ cal_queue' = IF need_node[n] = 1 THEN Append(cal_queue, n) ELSE cal_queue
      /\ top_node # 0 /\ found < Len(Args(top_node))
  BY DEF FindVar, Unfound, Ready
<1>2. TreeShape /\ ListsOK /\ TopOK /\ PendingOK /\ ReadyOK /\ CompleteOK /\ OnceOK /\ OperandsBeforeUse
  BY DEF SeedInv
<1>3. /\ n \in DOMAIN nodes /\ top_node \in DOMAIN nodes /\ found + 1 \in DOMAIN Args(top_node)
      /\ \A m : u \in Pending(m) <=> m = n
      /\ \A m : Pending(m)' = Pending(m) \ {u}
  BY FindPending
<1>4. n \notin Emitted \cup Queued
  BY <1>2, <1>3 DEF ReadyOK
<1>5. \A m : /\ Cardinality(Pending(m)) \in Nat
             /\ Cardinality(Pending(m) \ {u})
                  = (IF m = n THEN Cardinality(Pending(m)) - 1 ELSE Cardinality(Pending(m)))
             /\ (Cardinality(Pending(m) \ {u}) = 0 <=> Pending(m) \ {u} = {})
  <2> TAKE m
  <2>1. IsFiniteSet(Pending(m))
    BY <1>2, PendingFinite
  <2>2. Cardinality(Pending(m)) \in Nat
    BY <2>1, FS_CardinalityType
  <2>3. /\ IsFiniteSet(Pending(m) \ {u})
        /\ Cardinality(Pending(m) \ {u})
             = IF u \in Pending(m) THEN Cardinality(Pending(m)) - 1 ELSE Cardinality(Pending(m))
    BY <2>1, FS_RemoveElement
  <2>4. Cardinality(Pending(m) \ {u}) = 0 <=> Pending(m) \ {u} = {}
    BY <2>3, FS_EmptySet
  <2> QED BY <1>3, <2>2, <2>3, <2>4
<1>6. Emitted' = Emitted
  BY <1>1 DEF Emitted
<1>7. /\ ListsOK'
      /\ Queued' = IF need_node[n] = 1 THEN Queued \cup {n} ELSE Queued
      /\ \A p, q \in DOMAIN cal_queue' : cal_queue'[p] = cal_queue'[q] => p = q
  <2>1. CASE need_node[n] # 1
    BY <1>1, <1>2, <2>1 DEF ListsOK, Queued, OnceOK
  <2>2. CASE need_node[n] = 1
    <3>1. /\ Len(cal_queue) \in Nat /\ DOMAIN cal_queue = 1 .. Len(cal_queue)
          /\ cal_queue' \in Seq(DOMAIN nodes) /\ DOMAIN cal_queue' = 1 .. Len(cal_queue) + 1
          /\ cal_queue'[Len(cal_queue) + 1] = n
          /\ \A p \in 1 .. Len(cal_queue) : cal_queue'[p] = cal_queue[p]
      BY <1>1, <1>2, <1>3, <2>2 DEF ListsOK
    <3>2. ListsOK'
      BY <1>1, <1>2, <3>1 DEF ListsOK
    <3>3. Queued' \subseteq Queued \cup {n}
      BY <3>1 DEF Queued
    <3>4. Queued \cup {n} \subseteq Queued'
      BY <3>1 DEF Queued
    <3>5. \A p \in 1 .. Len(cal_queue) : cal_queue[p] # n
      BY <1>4, <3>1 DEF Queued
    <3>6. \A p, q \in DOMAIN cal_queue' : cal_queue'[p] = cal_queue'[q] => p = q
      BY <1>2, <3>1, <3>5 DEF OnceOK
    <3> QED BY <2>2, <3>2, <3>3, <3>4, <3>6
  <2> QED BY <2>1, <2>2
<1>8. need_node[n] = 1 <=> Pending(n) \ {u} = {}
  <2>1. need_node[n] = Cardinality(Pending(n))
    BY <1>2, <1>3 DEF PendingOK
  <2>2. /\ Cardinality(Pending(n)) \in Nat
        /\ Cardinality(Pending(n) \ {u}) = Cardinality(Pending(n)) - 1
        /\ Cardinality(Pending(n) \ {u}) = 0 <=> Pending(n) \ {u} = {}
    BY <1>5
  <2> HIDE DEF n, u
  <2> QED BY <2>1, <2>2
<1>9. TreeShape'
  BY <1>1, <1>2 DEF TreeShape, UsesOf, Args
<1>10. TopOK'
  <2>1. Len(Args(top_node)) \in Nat
    BY <1>2, <1>3, ArgsAre
  <2>2. Args(top_node)' = Args(top_node)
    BY <1>1 DEF Args
  <2> QED BY <1>1, <1>2, <1>6, <2>1, <2>2 DEF TopOK
<1>11. PendingOK'
  <2>1. need_node' = [m \in DOMAIN nodes |-> IF m = n THEN Cardinality(Pending(m)) - 1
                                              ELSE Cardinality(Pending(m))]
    BY <1>1, <1>2 DEF PendingOK
  <2>2. \A m : Cardinality(Pending(m)') = IF m = n THEN Cardinality(Pending(m)) - 1
                                           ELSE Cardinality(Pending(m))
    BY <1>3, <1>5
  <2> QED BY <1>1, <2>1, <2>2 DEF PendingOK
<1>12. ReadyOK'
  <2> SUFFICES ASSUME NEW m \in Emitted' \cup Queued' PROVE Pending(m)' = {}
    BY DEF ReadyOK
  <2>1. CASE m \in Emitted \cup Queued
    BY <1>2, <1>3, <2>1 DEF ReadyOK
  <2>2. CASE m \notin Emitted \cup Queued
    <3>1. m = n /\ need_node[n] = 1
      BY <1>6, <1>7, <2>2
    <3> QED BY <1>3, <1>8, <3>1
  <2> QED BY <2>1, <2>2
<1>13. CompleteOK'
  <2> SUFFICES ASSUME NEW m \in DOMAIN nodes, Pending(m)' = {}, m = root_node \/ UsesOf(nodes, m) # {}
               PROVE  m \in Emitted' \cup Queued'
    BY <1>1 DEF CompleteOK
  <2>1. CASE m = n
    BY <1>3, <1>7, <1>8, <2>1
  <2>2. CASE m # n
    <3>1. Pending(m) = {}
      BY <1>3, <2>2
    <3>2. m \in Emitted \cup Queued
      BY <1>2, <3>1 DEF CompleteOK
    <3> QED BY <1>6, <1>7, <3>2
  <2> QED BY <2>1, <2>2
<1>14. OnceOK'
  BY <1>1, <1>2, <1>4, <1>6, <1>7 DEF OnceOK, EmittedOnce
<1>15. OperandsBeforeUse'
  BY <1>1, <1>2 DEF OperandsBeforeUse
<1> QED BY <1>7, <1>9, <1>10, <1>11, <1>12, <1>13, <1>14, <1>15 DEF SeedInv

-----------------------------------------------------------------------------
(* Nor does anything change it that leaves tree and worklist alone.        *)
LEMMA SeedStutters ==
  ASSUME SeedInv, UNCHANGED <<tree, seed_vars>>
  PROVE  SeedInv'
<1>1. /\ nodes' = nodes /\ need_node' = need_node /\ root_node' = root_node
      /\ cal_queue' = cal_queue /\ top_node' = top_node /\ found' = found /\ emitted' = emitted
  BY DEF tree, seed_vars
<1>2. Emitted' = Emitted /\ Queued' = Queued
  BY <1>1 DEF Emitted, Queued
<1>3. \A n : Pending(n)' = Pending(n)
  BY <1>1, <1>2 DEF Pending, Seen
<1>4. TreeShape' /\ ListsOK'
  BY <1>1 DEF SeedInv, TreeShape, ListsOK, UsesOf, Args
<1>5. TopOK'
  BY <1>1, <1>2 DEF SeedInv, TopOK, Args
<1>6. PendingOK' /\ ReadyOK' /\ CompleteOK'
  BY <1>1, <1>2, <1>3 DEF SeedInv, PendingOK, ReadyOK, CompleteOK
<1>7. OnceOK' /\ OperandsBeforeUse'
  BY <1>1, <1>2 DEF SeedInv, OnceOK, EmittedOnce, OperandsBeforeUse
<1> QED BY <1>4, <1>5, <1>6, <1>7 DEF SeedInv

(* Every step of the worklist keeps every part of the invariant.           *)
LEMMA SeedSteps == SeedInv /\ [SeedNext]_<<tree, seed_vars>> => SeedInv'
BY SeedStutters, TakeOK, FindOK DEF SeedNext

(* The inductive invariant.                                                *)
THEOREM SeedInvariant == SeedSpec => []SeedInv
BY SeedSteps, StartOK, PTL DEF SeedSpec

(* No operand is defined after a statement that uses it: a node is emitted *)
(* only after all its users (find_var_from_node_tree).                     *)
THEOREM SeedOperandsBeforeUse == SeedSpec => []OperandsBeforeUse
<1>1. SeedInv => OperandsBeforeUse
  BY DEF SeedInv
<1> QED BY <1>1, SeedInvariant, PTL

(* No node has two statements, however many users find it.                 *)
THEOREM SeedEmittedOnce == SeedSpec => []EmittedOnce
<1>1. SeedInv => EmittedOnce
  BY DEF SeedInv, OnceOK
<1> QED BY <1>1, SeedInvariant, PTL

(* The users of a node that is missing at the end are not all emitted:     *)
(* otherwise it would have joined the queue.                               *)
LEMMA MissingHasMissingUser ==
  ASSUME SeedInv, SeedDone, NEW n \in DOMAIN nodes, UsesOf(nodes, n) # {}, n \notin Emitted
  PROVE  \E m \in DOMAIN nodes : n < m /\ UsesOf(nodes, m) # {} /\ m \notin Emitted
<1>1. TreeShape /\ TopOK /\ CompleteOK /\ ReadyOK /\ Queued = {} /\ ~ Unfound
  BY DEF SeedInv, SeedDone, Queued
<1>2. PICK u \in UsesOf(nodes, n) : ~ Seen(u)
  BY <1>1 DEF CompleteOK, Pending
<1>3. PICK m \in DOMAIN nodes, j \in Nat : j \in DOMAIN Args(m) /\ u = <<m, j>> /\ Args(m)[j] = n
  BY <1>1, UsesInTree, ArgsAre
<1>4. DOMAIN Args(m) = 1 .. Len(Args(m)) /\ Len(Args(m)) \in Nat /\ n < m /\ m \in Nat \ {0}
  BY <1>1, <1>3, ArgsAre
<1>5. m \notin Emitted
  <2>1. m = top_node => j <= found
    BY <1>1, <1>3, <1>4 DEF Unfound, TopOK
  <2> QED BY <1>2, <1>3, <2>1 DEF Seen
<1>6. m # root_node
  <2>1. ASSUME m = root_node PROVE FALSE
    <3>1. UsesOf(nodes, m) = {}
      BY <1>1, <2>1 DEF TreeShape
    <3>2. m \in Emitted \cup Queued
      BY <1>1, <2>1, <3>1 DEF CompleteOK, Pending
    <3> QED BY <1>1, <1>5, <3>2
  <2> QED BY <2>1
<1>7. UsesOf(nodes, m) # {}
  BY <1>1, <1>3, <1>4, <1>6 DEF TreeShape
<1> QED BY <1>4, <1>5, <1>7

(* At the end no node with users is missing: the last of them would have a *)
(* user that is missing and comes after it.                                *)
LEMMA NoneMissing ==
  ASSUME SeedInv, SeedDone, NEW n \in DOMAIN nodes, UsesOf(nodes, n) # {}
  PROVE  n \in Emitted
<1> DEFINE Missing == {m \in DOMAIN nodes : UsesOf(nodes, m) # {} /\ m \notin Emitted}
           Below == {k \in Nat : \E m \in Missing : k = Len(nodes) - m}
<1> SUFFICES ASSUME n \in Missing PROVE FALSE
  OBVIOUS
<1>1. Len(nodes) \in Nat /\ DOMAIN nodes = 1 .. Len(nodes)
  BY DEF SeedInv, TreeShape
<1>2. Len(nodes) - n \in Below
  BY <1>1
<1>3. PICK k \in Below : \A j \in Below : ~ (<<j, k>> \in OpToRel(<, Nat))
  <2> HIDE DEF Below
  <2>1. Below # {}
    BY <1>2
  <2>2. Below \subseteq Nat
    BY DEF Below
  <2> QED BY <2>1, <2>2, NatLessThanWellFounded, WFMin
<1>4. PICK m \in Missing : k = Len(nodes) - m
  OBVIOUS
<1>5. PICK l \in DOMAIN nodes : m < l /\ UsesOf(nodes, l) # {} /\ l \notin Emitted
  BY MissingHasMissingUser
<1>6. Len(nodes) - l \in Below /\ Len(nodes) - l < k /\ k \in Nat
  BY <1>1, <1>4, <1>5
<1>7. <<Len(nodes) - l, k>> \in OpToRel(<, Nat)
  BY <1>6 DEF OpToRel
<1> QED BY <1>3, <1>6, <1>7

(* At the end, all the operands of an emitted node are emitted.            *)
LEMMA AllEmitted ==
  ASSUME SeedInv
  PROVE  NothingLeftOut
<1> SUFFICES ASSUME SeedDone, NEW p \in DOMAIN emitted, NEW j \in DOMAIN Args(emitted[p])
             PROVE  \E q \in DOMAIN emitted : emitted[q] = Args(emitted[p])[j]
  BY DEF NothingLeftOut
<1>1. TreeShape /\ emitted[p] \in DOMAIN nodes
  BY DEF SeedInv, ListsOK
<1>2. Args(emitted[p])[j] \in DOMAIN nodes
  BY <1>1, ArgsAre
<1>3. <<emitted[p], j>> \in UsesOf(nodes, Args(emitted[p])[j])
  BY <1>1, UsesInTree
<1>4. Args(emitted[p])[j] \in Emitted
  BY <1>2, <1>3, NoneMissing
<1> QED BY <1>4 DEF Emitted

(* Nothing the expression needs is left out: when the queue is empty, every *)
(* operand of an emitted node has been emitted.                            *)
THEOREM SeedNothingLeftOut == SeedSpec => []NothingLeftOut
<1>1. SeedInv => NothingLeftOut
  BY AllEmitted
<1> QED BY <1>1, SeedInvariant, PTL

-----------------------------------------------------------------------------
(* The compiler.                                                           *)

ParsePhases == {"start", "parse", "declaration", "iterates", "operand", "operator", "return"}
Stops       == {"fatal", "crash", "check", "invalid"}

(* Before, between and after the two stages that change the tree.          *)
InParser   == ParseInv /\ SeedIdle /\ pc \in ParsePhases \cup {"parsed", "fatal", "crash"}
BeforeSeed == SeedIdle /\ (root_node # 0 => ParsedTree) /\ pc \in {"lanes", "informed"} \cup Stops
InSeed     == SeedInv /\ pc \in {"seed", "optimize", "codegen", "done"} \cup Stops

CompilerInv == InParser \/ BeforeSeed \/ InSeed

-----------------------------------------------------------------------------
(* The parser runs in its own phases and ends in them, parsed or stopped.  *)
LEMMA ParserPhases ==
  ASSUME ParserNext, pc \in ParsePhases \cup {"parsed", "fatal", "crash"}
  PROVE  pc \in ParsePhases /\ pc' \in ParsePhases \cup {"parsed", "fatal", "crash"}
<1>1. CASE BeginParse \/ ParseOutput \/ ParseInput \/ ParseDeclaration \/ ParseLambda \/ ParseEnd
             \/ ParseTypeWrong
  BY <1>1 DEF BeginParse, ParseOutput, ParseInput, ParseDeclaration, ParseLambda, ParseEnd, ParseTypeWrong,
              ParsePhases, Stop, control
<1>2. CASE ParseExpr \/ EndSubscript \/ EndData
  BY <1>2 DEF ParseExpr, EndSubscript, EndData, ParsePhases, Stop, Return
<1>3. CASE Operand \/ Operator \/ EndRight
  BY <1>3 DEF Operand, Operator, EndRight, ParsePhases, Stop, Return
<1>4. CASE EndIndex
  BY <1>4 DEF EndIndex, GatherIndex, LoadIndex, UnsupportedIndex, ParsePhases, Stop, Return
<1> QED BY <1>1, <1>2, <1>3, <1>4 DEF ParserNext

(* It cannot run in another one.                                           *)
LEMMA ParserOnlyThere == ParserNext => pc \in ParsePhases
BY DEF ParserNext, BeginParse, ParseOutput, ParseInput, ParseDeclaration, ParseLambda, ParseEnd,
       ParseTypeWrong, ParseExpr, EndSubscript, EndData, Operand, Operator, EndRight, EndIndex, Return,
       ParsePhases

(* The tree and the worklist alone decide what is said of them.            *)
LEMMA TreeStays ==
  ASSUME UNCHANGED <<tree, seed_vars>>
  PROVE  /\ SeedIdle => SeedIdle'
         /\ (root_node # 0 => ParsedTree) => (root_node' # 0 => ParsedTree')
         /\ SeedInv => SeedInv'
<1>1. /\ nodes' = nodes /\ need_node' = need_node /\ root_node' = root_node
      /\ cal_queue' = cal_queue /\ top_node' = top_node /\ found' = found /\ emitted' = emitted
  BY DEF tree, seed_vars
<1>2. SeedIdle => SeedIdle'
  BY <1>1 DEF SeedIdle
<1>3. ParsedTree => ParsedTree'
  BY <1>1 DEF ParsedTree, TreeShape, Args, UsesOf
<1> QED BY <1>1, <1>2, <1>3, SeedStutters

-----------------------------------------------------------------------------
(* A step of the parser, in the part of the invariant that is its own.     *)
LEMMA ParseStep ==
  ASSUME CompilerInv, Parse
  PROVE  CompilerInv'
<1>1. ParserNext /\ UNCHANGED seed_vars
  BY DEF Parse
<1>2. pc \in ParsePhases
  BY <1>1, ParserOnlyThere
<1>3. InParser
  BY <1>2 DEF CompilerInv, BeforeSeed, InSeed, Stops, ParsePhases
<1>4. ParseInv'
  BY <1>1, <1>3, ParserSteps DEF InParser
<1>5. SeedIdle'
  BY <1>1, <1>3 DEF InParser, SeedIdle, seed_vars
<1>6. pc' \in ParsePhases \cup {"parsed", "fatal", "crash"}
  BY <1>1, <1>3, ParserPhases DEF InParser
<1> QED BY <1>4, <1>5, <1>6 DEF CompilerInv, InParser

(* When the parser is done, its tree is all that matters.                  *)
LEMMA AfterParser ==
  ASSUME CompilerInv, pc = "parsed"
  PROVE  SeedIdle /\ (root_node # 0 => ParsedTree)
<1>1. InParser
  BY DEF CompilerInv, BeforeSeed, InSeed, Stops
<1> QED BY <1>1 DEF InParser, ParseInv, RootOK

(* A stage that changes neither, or gives up.                              *)
LEMMA StageStep ==
  ASSUME CompilerInv, Stage \/ GiveUp \/ EndSeed
  PROVE  CompilerInv'
<1>1. UNCHANGED <<tree, seed_vars>>
  BY DEF Stage, GiveUp, EndSeed
<1>2. CASE pc = "parsed"
  <2>1. SeedIdle' /\ (root_node' # 0 => ParsedTree')
    BY <1>1, <1>2, AfterParser, TreeStays
  <2>2. pc' \in {"lanes"} \cup Stops
    BY <1>2 DEF Stage, GiveUp, EndSeed, Stages, Stops
  <2> QED BY <2>1, <2>2 DEF CompilerInv, BeforeSeed
<1>3. CASE pc \in {"lanes", "informed"}
  <2>1. BeforeSeed
    BY <1>3 DEF CompilerInv, InParser, InSeed, Stops, ParsePhases
  <2>2. SeedIdle' /\ (root_node' # 0 => ParsedTree')
    BY <1>1, <2>1, TreeStays DEF BeforeSeed
  <2>3. pc' \in {"informed"} \cup Stops
    BY <1>3 DEF Stage, GiveUp, EndSeed, Stages, Stops
  <2> QED BY <2>2, <2>3 DEF CompilerInv, BeforeSeed
<1>4. CASE pc \in {"seed", "optimize", "codegen"}
  <2>1. InSeed
    BY <1>4 DEF CompilerInv, InParser, BeforeSeed, Stops, ParsePhases
  <2>2. SeedInv'
    BY <1>1, <2>1, TreeStays DEF InSeed
  <2>3. pc' \in {"optimize", "codegen", "done"} \cup Stops
    BY <1>4 DEF Stage, GiveUp, EndSeed, Stages, Stops
  <2> QED BY <2>2, <2>3 DEF CompilerInv, InSeed
<1> QED BY <1>2, <1>3, <1>4 DEF Stage, GiveUp, EndSeed, Stages

(* The code seed begins with the tree of the parser.                       *)
LEMMA BeginSeedStep ==
  ASSUME CompilerInv, BeginSeed
  PROVE  CompilerInv'
<1>1. BeforeSeed /\ root_node # 0
  BY DEF CompilerInv, InParser, InSeed, BeginSeed, Stops, ParsePhases
<1>2. ParsedTree'
  <2>1. nodes' = nodes /\ need_node' = need_node /\ root_node' = root_node
    BY DEF BeginSeed, tree
  <2> QED BY <1>1, <2>1 DEF BeforeSeed, ParsedTree, TreeShape, Args, UsesOf
<1>3. SeedInit'
  BY <1>2 DEF SeedInit, BeginSeed
<1>4. (SeedInit => SeedInv)'
  BY StartOK, PTL
<1> QED BY <1>3, <1>4 DEF BeginSeed, CompilerInv, InSeed

(* It goes on by itself.                                                   *)
LEMMA EmitSeedStep ==
  ASSUME CompilerInv, EmitSeed
  PROVE  CompilerInv'
<1>1. InSeed /\ SeedNext /\ pc' = pc
  BY DEF CompilerInv, InParser, BeforeSeed, EmitSeed, Stops, ParsePhases, control
<1>2. SeedInv'
  BY <1>1, SeedSteps DEF InSeed
<1> QED BY <1>1, <1>2 DEF CompilerInv, InSeed

(* The next call finds the parser as it was made.                          *)
LEMMA CallNextStep ==
  ASSUME CallNext
  PROVE  CompilerInv'
<1>1. ParserStart' /\ SeedIdle'
  BY DEF CallNext
<1>2. (ParserStart => ParseInv)'
  BY ParserStarts, PTL
<1>3. pc' = "start"
  BY <1>1 DEF ParserStart
<1> QED BY <1>1, <1>2, <1>3 DEF CompilerInv, InParser, ParsePhases

-----------------------------------------------------------------------------
(* Parser and code seed keep their invariants in every call of compiler(). *)
THEOREM CompilerInvariant == CompilerSpec => []CompilerInv
<1>1. CompilerInit => CompilerInv
  <2> SUFFICES ASSUME CompilerInit PROVE InParser
    BY DEF CompilerInv
  <2>1. ParserStart /\ SeedIdle /\ pc = "start"
    BY DEF CompilerInit, ParserInit, ParserStart
  <2> QED BY <2>1, ParserStarts DEF InParser, ParsePhases
<1>2. CompilerInv /\ [CompilerNext]_compiler_vars => CompilerInv'
  <2> SUFFICES ASSUME CompilerInv, [CompilerNext]_compiler_vars PROVE CompilerInv'
    OBVIOUS
  <2>1. CASE CompilerNext
    BY <2>1, ParseStep, StageStep, BeginSeedStep, EmitSeedStep, CallNextStep DEF CompilerNext
  <2>2. CASE UNCHANGED compiler_vars
    <3>1. UNCHANGED parser_vars /\ UNCHANGED <<tree, seed_vars>> /\ pc' = pc
      BY <2>2 DEF compiler_vars, parser_vars, control
    <3>2. ParseInv => ParseInv'
      BY <3>1, ParserSteps
    <3> QED BY <3>1, <3>2, TreeStays DEF CompilerInv, InParser, BeforeSeed, InSeed
  <2> QED BY <2>1, <2>2
<1> QED BY <1>1, <1>2, PTL DEF CompilerSpec

(* In every call, a parse that sets a root leaves a tree generate_code_seed *)
(* is made for, wherever the calls before have left the tokenizer.         *)
THEOREM CompilerParsesTree == CompilerSpec => []TreeIsParsed
<1>1. CompilerInv => TreeIsParsed
  <2> SUFFICES ASSUME CompilerInv, pc = "parsed", root_node # 0 PROVE ParsedTree
    BY DEF TreeIsParsed
  <2> QED BY AfterParser
<1> QED BY <1>1, CompilerInvariant, PTL

(* In every call, the sets the later stages lay arrays out by say what the *)
(* tree reads, when no array is both an index and data.                    *)
THEOREM CompilerUsageMatches == CompilerSpec => []UsageMatchesTree
<1>1. CompilerInv => UsageMatchesTree
  <2>1. CASE pc = "parsed"
    BY <2>1 DEF CompilerInv, InParser, BeforeSeed, InSeed, Stops, ParseInv, RootOK, UsageMatchesTree
  <2>2. CASE pc # "parsed"
    BY <2>2 DEF UsageMatchesTree
  <2> QED BY <2>1, <2>2
<1> QED BY <1>1, CompilerInvariant, PTL

(* While the worklist has not begun there is nothing to be in order.       *)
LEMMA IdleIsOrdered ==
  ASSUME SeedIdle
  PROVE  OperandsBeforeUse /\ EmittedOnce /\ NothingLeftOut
<1>1. DOMAIN emitted = {}
  BY DEF SeedIdle
<1> QED BY <1>1 DEF OperandsBeforeUse, EmittedOnce, NothingLeftOut

(* In every call, no statement of the seed comes before one it needs.      *)
THEOREM CompilerOperandsBeforeUse == CompilerSpec => []OperandsBeforeUse
<1>1. CompilerInv => OperandsBeforeUse
  BY IdleIsOrdered DEF CompilerInv, InParser, BeforeSeed, InSeed, SeedInv
<1> QED BY <1>1, CompilerInvariant, PTL

(* In every call, a node of the tree has one statement.                    *)
THEOREM CompilerEmitsOnce == CompilerSpec => []EmittedOnce
<1>1. CompilerInv => EmittedOnce
  BY IdleIsOrdered DEF CompilerInv, InParser, BeforeSeed, InSeed, SeedInv, OnceOK
<1> QED BY <1>1, CompilerInvariant, PTL

(* In every call, the seed that is complete has a statement for every node *)
(* its statements need.                                                    *)
THEOREM CompilerLeavesNothingOut == CompilerSpec => []NothingLeftOut
<1>1. CompilerInv => NothingLeftOut
  BY IdleIsOrdered, AllEmitted DEF CompilerInv, InParser, BeforeSeed, InSeed
<1> QED BY <1>1, CompilerInvariant, PTL
=============================================================================
