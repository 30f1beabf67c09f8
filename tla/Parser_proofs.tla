---------------------------- MODULE Parser_proofs ----------------------------
(***************************************************************************)
(* Proofs about Parser: whatever the text and wherever the tokenizer       *)
(* stands, a parse that sets a root leaves a tree generate_code_seed is    *)
(* made for, and usage sets that say what the tree reads.                  *)
(***************************************************************************)
EXTENDS Parser, FiniteSetTheorems, SequenceTheorems, TLAPS

-----------------------------------------------------------------------------
(* Lemmas about the nodes of a tree and the uses of a node, which parser   *)
(* and code seed count.                                                    *)

(* A use is a node and the place of an operand in it.                      *)
LEMMA UsesAre ==
  ASSUME NEW ns, NEW n, NEW u
  PROVE  u \in UsesOf(ns, n) <=>
           \E m \in DOMAIN ns : \E j \in DOMAIN ns[m].args : u = <<m, j>> /\ ns[m].args[j] = n
<1> DEFINE Of(m) == {m} \X DOMAIN ns[m].args
<1>1. ASSUME u \in UsesOf(ns, n)
      PROVE  \E m \in DOMAIN ns : \E j \in DOMAIN ns[m].args : u = <<m, j>> /\ ns[m].args[j] = n
  <2>1. PICK m \in DOMAIN ns : u \in Of(m)
    BY <1>1 DEF UsesOf
  <2>2. u = <<m, u[2]>> /\ u[1] = m /\ u[2] \in DOMAIN ns[m].args
    BY <2>1
  <2>3. ns[u[1]].args[u[2]] = n
    BY <1>1 DEF UsesOf
  <2> QED BY <2>2, <2>3
<1>2. ASSUME NEW m \in DOMAIN ns, NEW j \in DOMAIN ns[m].args, u = <<m, j>>, ns[m].args[j] = n
      PROVE  u \in UsesOf(ns, n)
  <2>1. u \in Of(m) /\ u[1] = m /\ u[2] = j
    BY <1>2
  <2>2. u \in UNION {Of(k) : k \in DOMAIN ns}
    BY <2>1
  <2> QED BY <1>2, <2>1, <2>2 DEF UsesOf
<1> QED BY <1>1, <1>2

(* Nodes of at most three operands use a node finitely often.              *)
Small(ns) == ns \in Seq(NodeRecord) /\ \A m \in DOMAIN ns : Len(ns[m].args) <= 3

LEMMA UsesAreFinite ==
  ASSUME NEW ns, Small(ns), NEW n
  PROVE  IsFiniteSet(UsesOf(ns, n))
<1>1. IsFiniteSet(1 .. Len(ns)) /\ IsFiniteSet(1 .. 3)
  <2>1. Len(ns) \in Int /\ 1 \in Int /\ 3 \in Int
    BY DEF Small
  <2> QED BY <2>1, FS_Interval
<1>2. IsFiniteSet((1 .. Len(ns)) \X (1 .. 3))
  BY <1>1, FS_Product
<1>3. ASSUME NEW u \in UsesOf(ns, n) PROVE u \in (1 .. Len(ns)) \X (1 .. 3)
  <2>1. PICK m \in DOMAIN ns : \E j \in DOMAIN ns[m].args : u = <<m, j>> /\ ns[m].args[j] = n
    BY UsesAre
  <2>2. m \in 1 .. Len(ns) /\ ns[m] \in NodeRecord /\ Len(ns[m].args) <= 3
    BY DEF Small
  <2>4. ns[m].args \in Seq(Nat)
    BY <2>2 DEF NodeRecord
  <2>3. DOMAIN ns[m].args \subseteq 1 .. 3
    BY <2>2, <2>4
  <2> QED BY <2>1, <2>2, <2>3
<1> QED BY <1>2, <1>3, FS_Subset

(* Nodes behind others add their uses to those there are.                  *)
LEMMA UsesAppended ==
  ASSUME NEW ns, Small(ns), NEW new, Small(new), NEW n
  PROVE  /\ Cardinality(UsesOf(ns \o new, n)) = Cardinality(UsesOf(ns, n)) + Cardinality(UsesOf(new, n))
         /\ UsesOf(ns \o new, n) = {} <=> UsesOf(ns, n) = {} /\ UsesOf(new, n) = {}
<1> DEFINE len == Len(ns)
           all == ns \o new
           Old == UsesOf(ns, n)
           New == UsesOf(new, n)
           moved == [u \in New |-> <<len + u[1], u[2]>>]
           Moved == {moved[u] : u \in New}
<1>1. /\ len \in Nat /\ Len(new) \in Nat /\ DOMAIN ns = 1 .. len /\ DOMAIN new = 1 .. Len(new)
      /\ DOMAIN all = 1 .. len + Len(new)
      /\ \A m \in DOMAIN ns : all[m] = ns[m]
      /\ \A m \in DOMAIN new : all[len + m] = new[m]
  BY DEF Small
<1>2. ASSUME NEW u \in New
      PROVE  /\ u[1] \in 1 .. Len(new) /\ u = <<u[1], u[2]>> /\ moved[u] = <<len + u[1], u[2]>>
             /\ moved[u] \in UsesOf(all, n) \ Old
  <2>1. PICK m \in DOMAIN new : \E j \in DOMAIN new[m].args : u = <<m, j>> /\ new[m].args[j] = n
    BY UsesAre
  <2>2. PICK j \in DOMAIN new[m].args : u = <<m, j>> /\ new[m].args[j] = n
    BY <2>1
  <2>3. len + m \in DOMAIN all /\ len + m \notin DOMAIN ns /\ all[len + m] = new[m]
    BY <1>1
  <2>4. moved[u] = <<len + m, j>>
    BY <2>2
  <2>5. moved[u] \in UsesOf(all, n)
    BY <2>2, <2>3, <2>4, UsesAre
  <2>6. moved[u] \notin Old
    <3> SUFFICES ASSUME moved[u] \in Old PROVE FALSE
      OBVIOUS
    <3>1. \E k \in DOMAIN ns : \E i \in DOMAIN ns[k].args : moved[u] = <<k, i>> /\ ns[k].args[i] = n
      BY UsesAre
    <3> QED BY <2>3, <2>4, <3>1
  <2> QED BY <1>1, <2>2, <2>4, <2>5, <2>6
<1>3. UsesOf(all, n) = Old \cup Moved
  <2>1. ASSUME NEW u \in UsesOf(all, n) PROVE u \in Old \cup Moved
    <3>1. PICK m \in DOMAIN all : \E j \in DOMAIN all[m].args : u = <<m, j>> /\ all[m].args[j] = n
      <4> HIDE DEF all
      <4> QED BY UsesAre
    <3>2. PICK j \in DOMAIN all[m].args : u = <<m, j>> /\ all[m].args[j] = n
      BY <3>1
    <3>3. CASE m <= len
      <4>1. m \in DOMAIN ns /\ all[m] = ns[m]
        BY <1>1, <3>3
      <4> QED BY <3>2, <4>1, UsesAre
    <3>4. CASE m > len
      <4>1. m - len \in DOMAIN new /\ m = len + (m - len)
        BY <1>1, <3>4
      <4>2. all[m] = new[m - len]
        BY <1>1, <4>1
      <4>3. <<m - len, j>> \in New
        BY <3>2, <4>1, <4>2, UsesAre
      <4>4. moved[<<m - len, j>>] = u
        BY <1>1, <3>2, <4>1, <4>3
      <4> QED BY <4>3, <4>4
    <3> QED BY <1>1, <3>3, <3>4
  <2>2. ASSUME NEW u \in Old PROVE u \in UsesOf(all, n)
    <3>1. PICK m \in DOMAIN ns : \E j \in DOMAIN ns[m].args : u = <<m, j>> /\ ns[m].args[j] = n
      BY UsesAre
    <3>2. m \in DOMAIN all /\ all[m] = ns[m]
      BY <1>1
    <3> QED BY <3>1, <3>2, UsesAre
  <2> QED BY <1>2, <2>1, <2>2
<1>4. moved \in Bijection(New, Moved)
  <2>1. ASSUME NEW u \in New, NEW v \in New, moved[u] = moved[v] PROVE u = v
    BY <1>1, <1>2, <2>1
  <2>2. moved \in [New -> Moved]
    OBVIOUS
  <2>3. moved \in Injection(New, Moved)
    BY <2>1, <2>2 DEF Injection, IsInjective
  <2>4. moved \in Surjection(New, Moved)
    BY <2>2 DEF Surjection
  <2> QED BY <2>3, <2>4 DEF Bijection
<1>5. IsFiniteSet(Old) /\ IsFiniteSet(New)
  BY UsesAreFinite
<1>6. IsFiniteSet(Moved) /\ Cardinality(Moved) = Cardinality(New)
  <2>1. ExistsBijection(New, Moved)
    BY <1>4 DEF ExistsBijection
  <2> QED BY <1>5, <2>1, FS_Bijection
<1>7. Old \cap Moved = {}
  BY <1>2
<1>8. Cardinality(Old \cup Moved) = Cardinality(Old) + Cardinality(Moved)
  <2>1. Cardinality(Old \cap Moved) = 0
    BY <1>7, FS_EmptySet
  <2>2. Cardinality(Old) \in Nat /\ Cardinality(Moved) \in Nat
    BY <1>5, <1>6, FS_CardinalityType
  <2>3. Cardinality(Old \cup Moved) = Cardinality(Old) + Cardinality(Moved) - Cardinality(Old \cap Moved)
    BY <1>5, <1>6, FS_Union
  <2> HIDE DEF Old, Moved
  <2> QED BY <2>1, <2>2, <2>3
<1>9. Moved = {} <=> New = {}
  OBVIOUS
<1> QED BY <1>3, <1>6, <1>8, <1>9

-----------------------------------------------------------------------------
(* The state of a parse.                                                   *)

Frame ==
  [at : {"index", "subscript"}, node : Nat]
    \cup [at : {"right"}, op : Operators, left : Nat]
    \cup [at : {"data"}, addr : Nat, index : Nat, equal : Assignment]

(* The nodes a caller waits with.                                          *)
Held(f) ==
  IF f.at = "right" THEN {f.left}
  ELSE IF f.at = "data" THEN {f.addr, f.index} \ {0}
  ELSE {f.node}

InExpr  == pc \in {"operand", "operator", "return"}
HasNode == pc \in {"operator", "return"}
Kept    == (UNION {Held(stack[k]) : k \in DOMAIN stack}) \cup (IF HasNode THEN {result} ELSE {})
Loose(n) == Args(n) # <<>> /\ UsesOf(nodes, n) = {}

OfKind(kind) == {n \in DOMAIN nodes : nodes[n].kind = kind}

-----------------------------------------------------------------------------
DeclsOK ==
  /\ \A n \in DOMAIN name_type_map : n \in Names /\ name_type_map[n] \in TypeRecord
  /\ iterates_set \subseteq Names
  /\ output_name \in Name /\ output_type \in TypeRecord

(* Operands are older than their users; the second operand of a gather is  *)
(* the load that it uses as its index.                                     *)
NodesOK ==
  /\ nodes \in Seq(NodeRecord)
  /\ \A n \in DOMAIN nodes :
       /\ Len(Args(n)) <= 3
       /\ \A j \in DOMAIN Args(n) : Args(n)[j] \in 1 .. n - 1
       /\ nodes[n].kind = "var" => Args(n) = <<>>
       /\ nodes[n].kind \in {"gather", "scatter"} => Len(Args(n)) >= 2 /\ nodes[Args(n)[2]].kind = "load"

CountOK == need_node = [n \in DOMAIN nodes |-> Cardinality(UsesOf(nodes, n))]

(* ParseExpr is at the bottom of the calls, and only there.                *)
StackOK ==
  /\ stack \in Seq(Frame)
  /\ \A k \in DOMAIN stack :
       /\ Held(stack[k]) \subseteq DOMAIN nodes
       /\ stack[k].at = "data" => stack[k].addr # 0
       /\ stack[k].at \in {"subscript", "data"} <=> k = 1
  /\ result \in Nat
  /\ HasNode => result \in DOMAIN nodes
  /\ InExpr => stack # <<>>
  /\ pc \in {"start", "parse", "declaration", "iterates"} => stack = <<>> /\ nodes = <<>>

(* A node with operands that nobody uses yet is not forgotten.             *)
LooseOK == InExpr => \A n \in DOMAIN nodes : Loose(n) => n \in Kept

(* The usage sets while the data is read: an array to load has a load that *)
(* is no index, and a load that is no index has its array among those to   *)
(* load, unless that array is an index elsewhere.                          *)
UsageOK ==
  root_node = 0 =>
    /\ OfKind("scatter") = {}
    /\ \A a \in load_set : \E n \in OfKind("load") \ IndexNodes : nodes[n].addr_name = a
    /\ \A n \in OfKind("load") \ IndexNodes : nodes[n].addr_name \in load_set \cup IndexArrays
    /\ gather_set = {nodes[n].index_name : n \in OfKind("gather")}
    /\ scatter_set = {} /\ reduction_set = {}

RootOK == root_node # 0 => pc = "parsed" /\ ParsedTree /\ UsageMatchesTree

ParseInv == DeclsOK /\ NodesOK /\ CountOK /\ StackOK /\ LooseOK /\ UsageOK /\ RootOK

-----------------------------------------------------------------------------
(* Nodes that may be created: what they use is there.                      *)
CanFollow(new) ==
  /\ new \in Seq(NodeRecord)
  /\ \A k \in DOMAIN new :
       /\ Len(new[k].args) <= 3
       /\ \A j \in DOMAIN new[k].args : new[k].args[j] \in 1 .. Len(nodes) + k - 1
       /\ new[k].kind = "var" => new[k].args = <<>>
       /\ new[k].kind \in {"gather", "scatter"} =>
            Len(new[k].args) >= 2 /\ new[k].args[2] \in OfKind("load")

(* One node may be created when what it uses is there.                     *)
LEMMA OneFollows ==
  ASSUME NodesOK, NEW node \in NodeRecord, Len(node.args) <= 3,
         \A j \in DOMAIN node.args : node.args[j] \in DOMAIN nodes,
         node.kind = "var" => node.args = <<>>,
         node.kind \in {"gather", "scatter"} => Len(node.args) >= 2 /\ node.args[2] \in OfKind("load")
  PROVE  CanFollow(<<node>>)
<1> DEFINE new == <<node>>
<1>1. new \in Seq(NodeRecord) /\ DOMAIN new = {1} /\ new[1] = node
  OBVIOUS
<1>2. DOMAIN nodes = 1 .. Len(nodes) + 1 - 1
  BY DEF NodesOK
<1> HIDE DEF new
<1>3. CanFollow(new)
  BY <1>1, <1>2 DEF CanFollow
<1> QED BY <1>3 DEF new

(* The nodes that are there stay as they are, the new ones come after      *)
(* them, and the counts follow (inc_need_node).                            *)
LEMMA CreateKeeps ==
  ASSUME NodesOK, CountOK, NEW new, CanFollow(new), Create(new)
  PROVE  /\ Len(nodes) \in Nat /\ DOMAIN nodes = 1 .. Len(nodes)
         /\ Len(nodes') = Len(nodes) + Len(new)
         /\ DOMAIN nodes' = 1 .. Len(nodes) + Len(new)
         /\ \A n \in DOMAIN nodes : nodes'[n] = nodes[n]
         /\ \A k \in DOMAIN new : Len(nodes) + k \in DOMAIN nodes' /\ nodes'[Len(nodes) + k] = new[k]
         /\ \A n : UsesOf(nodes', n) = {} <=> UsesOf(nodes, n) = {} /\ UsesOf(new, n) = {}
         /\ NodesOK' /\ CountOK'
<1> DEFINE len == Len(nodes)
<1>1. /\ nodes \in Seq(NodeRecord) /\ new \in Seq(NodeRecord)
      /\ nodes' = nodes \o new
      /\ len \in Nat /\ Len(new) \in Nat
      /\ DOMAIN nodes = 1 .. len /\ DOMAIN new = 1 .. Len(new)
  BY DEF NodesOK, CanFollow, Create
<1>2. /\ nodes' \in Seq(NodeRecord) /\ Len(nodes') = len + Len(new)
      /\ DOMAIN nodes' = 1 .. len + Len(new)
      /\ \A n \in DOMAIN nodes : nodes'[n] = nodes[n]
      /\ \A k \in DOMAIN new : len + k \in DOMAIN nodes' /\ nodes'[len + k] = new[k]
  BY <1>1
<1>3. Small(nodes) /\ Small(new)
  BY <1>1 DEF NodesOK, CanFollow, Small, Args
<1>4. \A n : /\ Cardinality(UsesOf(nodes', n)) = Cardinality(UsesOf(nodes, n)) + Cardinality(UsesOf(new, n))
             /\ UsesOf(nodes', n) = {} <=> UsesOf(nodes, n) = {} /\ UsesOf(new, n) = {}
  BY <1>1, <1>3, UsesAppended
<1>5. ASSUME NEW n \in DOMAIN nodes'
      PROVE  /\ Len(Args(n)') <= 3
             /\ \A j \in DOMAIN Args(n)' : Args(n)'[j] \in 1 .. n - 1
             /\ nodes'[n].kind = "var" => Args(n)' = <<>>
             /\ nodes'[n].kind \in {"gather", "scatter"} =>
                  Len(Args(n)') >= 2 /\ nodes'[Args(n)'[2]].kind = "load"
  <2>1. CASE n \in DOMAIN nodes
    <3>1. nodes'[n] = nodes[n] /\ Args(n)' = Args(n)
      BY <1>2, <2>1 DEF Args
    <3>2. nodes[n].kind \in {"gather", "scatter"} => nodes'[Args(n)[2]] = nodes[Args(n)[2]]
      <4> SUFFICES ASSUME nodes[n].kind \in {"gather", "scatter"}
                   PROVE  nodes'[Args(n)[2]] = nodes[Args(n)[2]]
        OBVIOUS
      <4>1. Args(n) \in Seq(Nat) /\ Len(Args(n)) >= 2
        <5>1. nodes[n] \in NodeRecord
          BY <1>1, <2>1
        <5> QED BY <2>1, <5>1 DEF NodesOK, Args, NodeRecord
      <4>2. 2 \in DOMAIN Args(n)
        BY <4>1
      <4>3. Args(n)[2] \in 1 .. n - 1
        BY <2>1, <4>2 DEF NodesOK
      <4> QED BY <1>1, <1>2, <2>1, <4>3
    <3> QED BY <2>1, <3>1, <3>2 DEF NodesOK
  <2>2. CASE n \notin DOMAIN nodes
    <3>1. PICK k \in DOMAIN new : n = len + k
      <4>1. n - len \in DOMAIN new /\ n = len + (n - len)
        BY <1>1, <1>2, <2>2
      <4> QED BY <4>1
    <3>2. nodes'[n] = new[k] /\ Args(n)' = new[k].args
      BY <1>2, <3>1 DEF Args
    <3>3. \A m \in OfKind("load") : nodes'[m].kind = "load"
      BY <1>2 DEF OfKind
    <3> QED BY <3>1, <3>2, <3>3 DEF CanFollow
  <2> QED BY <2>1, <2>2
<1>6. NodesOK'
  BY <1>2, <1>5 DEF NodesOK
<1>7. CountOK'
  <2>1. ASSUME NEW n \in DOMAIN nodes'
        PROVE  (IF n \in DOMAIN nodes THEN need_node[n] ELSE 0) = Cardinality(UsesOf(nodes, n))
    <3>1. CASE n \in DOMAIN nodes
      BY <3>1 DEF CountOK
    <3>2. CASE n \notin DOMAIN nodes
      <4>1. ASSUME NEW u \in UsesOf(nodes, n) PROVE FALSE
        <5>1. PICK m \in DOMAIN nodes : \E j \in DOMAIN nodes[m].args : nodes[m].args[j] = n
          BY UsesAre
        <5>2. n \in 1 .. m - 1
          BY <5>1 DEF NodesOK, Args
        <5> QED BY <1>1, <3>2, <5>1, <5>2
      <4>2. UsesOf(nodes, n) = {}
        BY <4>1
      <4> QED BY <3>2, <4>2, FS_EmptySet
    <3> QED BY <3>1, <3>2
  <2>2. need_node' = [n \in DOMAIN nodes' |-> Cardinality(UsesOf(nodes, n)) + Cardinality(UsesOf(new, n))]
    BY <1>1, <1>2, <2>1 DEF Create
  <2> QED BY <1>4, <2>2 DEF CountOK
<1> QED BY <1>1, <1>2, <1>4, <1>6, <1>7

(* The gathers and scatters there are say which nodes are indices.         *)
LEMMA IndexNodesAre ==
  ASSUME NodesOK
  PROVE  /\ IndexNodes \subseteq OfKind("load")
         /\ \A n \in DOMAIN nodes : nodes[n].kind \in {"gather", "scatter"} => nodes[n].args[2] \in IndexNodes
<1>1. ASSUME NEW n \in DOMAIN nodes, nodes[n].kind \in {"gather", "scatter"}
      PROVE  nodes[n].args[2] \in OfKind("load")
  <2>1. nodes \in Seq(NodeRecord) /\ nodes[n] \in NodeRecord /\ DOMAIN nodes = 1 .. Len(nodes)
    BY DEF NodesOK
  <2>2. Args(n) \in Seq(Nat) /\ Len(Args(n)) >= 2 /\ nodes[Args(n)[2]].kind = "load"
    BY <1>1, <2>1 DEF NodesOK, Args, NodeRecord
  <2>3. 2 \in DOMAIN Args(n)
    BY <2>2
  <2>4. Args(n)[2] \in 1 .. n - 1
    BY <2>3 DEF NodesOK
  <2> QED BY <2>1, <2>2, <2>4 DEF Args, OfKind
<1> QED BY <1>1 DEF IndexNodes

LEMMA IndexNodesGrow ==
  ASSUME NodesOK, CountOK, NEW new, CanFollow(new), Create(new)
  PROVE  /\ IndexNodes' = IndexNodes \cup
              {new[k].args[2] : k \in {m \in DOMAIN new : new[m].kind \in {"gather", "scatter"}}}
         /\ \A kind : OfKind(kind)' = OfKind(kind) \cup
              {Len(nodes) + k : k \in {m \in DOMAIN new : new[m].kind = kind}}
<1>1. /\ Len(nodes) \in Nat /\ DOMAIN nodes = 1 .. Len(nodes)
      /\ DOMAIN nodes' = 1 .. Len(nodes) + Len(new)
      /\ \A n \in DOMAIN nodes : nodes'[n] = nodes[n]
      /\ \A k \in DOMAIN new : Len(nodes) + k \in DOMAIN nodes' /\ nodes'[Len(nodes) + k] = new[k]
      /\ Len(new) \in Nat /\ DOMAIN new = 1 .. Len(new)
  BY CreateKeeps DEF CanFollow
<1>2. \A n \in DOMAIN nodes' : n \in DOMAIN nodes \/ (n - Len(nodes) \in DOMAIN new /\ nodes'[n] = new[n - Len(nodes)]
                                                     /\ n = Len(nodes) + (n - Len(nodes)))
  <2> SUFFICES ASSUME NEW n \in DOMAIN nodes', n \notin DOMAIN nodes
               PROVE  n - Len(nodes) \in DOMAIN new /\ nodes'[n] = new[n - Len(nodes)]
                        /\ n = Len(nodes) + (n - Len(nodes))
    OBVIOUS
  <2>1. n - Len(nodes) \in DOMAIN new /\ n = Len(nodes) + (n - Len(nodes))
    BY <1>1
  <2> QED BY <1>1, <2>1
<1>3. DOMAIN nodes \subseteq DOMAIN nodes'
  BY <1>1
<1>4. ASSUME NEW kind
      PROVE  OfKind(kind)' = OfKind(kind) \cup {Len(nodes) + k : k \in {m \in DOMAIN new : new[m].kind = kind}}
  BY <1>1, <1>2, <1>3 DEF OfKind
<1>5. IndexNodes' = IndexNodes \cup
        {new[k].args[2] : k \in {m \in DOMAIN new : new[m].kind \in {"gather", "scatter"}}}
  BY <1>1, <1>2, <1>3 DEF IndexNodes
<1> QED BY <1>4, <1>5

-----------------------------------------------------------------------------
(* Declarations stay well typed: only ParseOutput, ParseInput's loop and   *)
(* ParseLambda add to them.                                                *)
LEMMA DeclsStep ==
  ASSUME DeclsOK, ParserNext
  PROVE  DeclsOK'
<1>1. CASE ParseOutput
  <2>1. CASE Stop("fatal")
    BY <2>1 DEF Stop, decls, DeclsOK
  <2>2. CASE ~ Stop("fatal")
    <3> DEFINE type == [of |-> T(2), pointer |-> T(3) = "*"]
    <3>1. /\ name_type_map' = [n \in DOMAIN name_type_map \cup {T(4)} |->
                                 IF n = T(4) THEN type ELSE name_type_map[n]]
          /\ output_type' = type /\ output_name' = T(4) /\ iterates_set' = iterates_set
      BY <1>1, <2>2 DEF ParseOutput
    <3>2. type \in TypeRecord /\ T(4) \in Names
      BY <1>1, <2>2 DEF TypeRecord, ParseOutput
    <3> HIDE DEF type
    <3>3. \A n \in DOMAIN name_type_map' : n \in Names /\ name_type_map'[n] \in TypeRecord
      BY <3>1, <3>2 DEF DeclsOK
    <3> QED BY <3>1, <3>2, <3>3 DEF DeclsOK, Name
  <2> QED BY <2>1, <2>2
<1>2. CASE ParseDeclaration
  <2>1. CASE Stop("fatal")
    BY <2>1 DEF Stop, decls, DeclsOK
  <2>2. CASE ~ Stop("fatal")
    <3> DEFINE pointer == T(2) = "*"
               k == IF pointer THEN 3 ELSE 2
               type == [of |-> T(1), pointer |-> pointer]
    <3>1. /\ name_type_map' = [m \in DOMAIN name_type_map \cup {T(k)} |->
                                 IF m = T(k) THEN type ELSE name_type_map[m]]
          /\ UNCHANGED <<iterates_set, output_name, output_type>>
      BY <1>2, <2>2 DEF ParseDeclaration
    <3>2. type \in TypeRecord /\ T(k) \in Names
      BY <1>2, <2>2 DEF TypeRecord, ParseDeclaration
    <3> HIDE DEF type, k
    <3>3. \A n \in DOMAIN name_type_map' : n \in Names /\ name_type_map'[n] \in TypeRecord
      BY <3>1, <3>2 DEF DeclsOK
    <3> QED BY <3>1, <3>3 DEF DeclsOK
  <2> QED BY <2>1, <2>2
<1>3. CASE ParseLambda
  <2>1. CASE Stop("fatal")
    BY <2>1 DEF Stop, decls, DeclsOK
  <2>2. CASE ~ Stop("fatal")
    <3>1. T(1) \in Names /\ iterates_set' = iterates_set \cup {T(1)}
      BY <1>3, <2>2 DEF ParseLambda
    <3>2. UNCHANGED <<name_type_map, output_name, output_type>>
      BY <1>3, <2>2 DEF ParseLambda
    <3>3. iterates_set' \subseteq Names
      BY <3>1 DEF DeclsOK
    <3> QED BY <3>2, <3>3 DEF DeclsOK
  <2> QED BY <2>1, <2>2
<1>4. ASSUME ~ ParseOutput, ~ ParseDeclaration, ~ ParseLambda
      PROVE  UNCHANGED decls
  BY <1>4 DEF ParserNext, BeginParse, ParseInput, ParseEnd, ParseTypeWrong, ParseExpr, EndSubscript,
              EndData, Operand, EndIndex, GatherIndex, LoadIndex, UnsupportedIndex, Operator, EndRight, Stop
<1> QED BY <1>1, <1>2, <1>3, <1>4 DEF DeclsOK, decls

-----------------------------------------------------------------------------
(* The process that stops leaves everything as it was.                     *)
LEMMA StopKeeps ==
  ASSUME ParseInv, DeclsOK', root_node = 0, NEW how \in {"fatal", "crash"}, Stop(how)
  PROVE  ParseInv'
<1>1. UNCHANGED <<stack, result, nodes, need_node, root_node, load_set, gather_set, scatter_set, reduction_set>>
  BY DEF Stop, tree, usage
<1>2. ~ InExpr' /\ ~ HasNode' /\ pc' \notin {"start", "parse", "declaration", "iterates"}
  BY DEF Stop, InExpr, HasNode
<1>3. NodesOK' /\ CountOK'
  BY <1>1 DEF ParseInv, NodesOK, CountOK, Args, UsesOf
<1>4. StackOK' /\ LooseOK'
  BY <1>1, <1>2 DEF ParseInv, StackOK, Held, LooseOK
<1>5. UsageOK' /\ RootOK'
  BY <1>1 DEF ParseInv, UsageOK, RootOK, OfKind, IndexNodes, IndexArrays
<1> QED BY <1>3, <1>4, <1>5 DEF ParseInv

(* The sections before the assignment make no node.                        *)
LEMMA SectionKeeps ==
  ASSUME ParseInv, DeclsOK', UNCHANGED <<stack, result, tree, usage>>,
         pc \in {"start", "parse", "declaration", "iterates"},
         pc' \in {"parse", "declaration", "iterates", "parsed", "fatal"}
  PROVE  ParseInv'
<1>1. UNCHANGED <<stack, result, nodes, need_node, root_node, load_set, gather_set, scatter_set, reduction_set>>
  BY DEF tree, usage
<1>2. root_node = 0 /\ ~ InExpr' /\ ~ HasNode' /\ stack = <<>> /\ nodes = <<>>
  BY DEF ParseInv, RootOK, StackOK, InExpr, HasNode
<1>3. NodesOK' /\ CountOK'
  BY <1>1 DEF ParseInv, NodesOK, CountOK, Args, UsesOf
<1>4. StackOK' /\ LooseOK'
  BY <1>1, <1>2 DEF ParseInv, StackOK, Held, LooseOK
<1>5. UsageOK' /\ RootOK'
  BY <1>1, <1>2 DEF ParseInv, UsageOK, RootOK, OfKind, IndexNodes, IndexArrays
<1> QED BY <1>3, <1>4, <1>5 DEF ParseInv

(* A caller that waits is pushed on the stack.                             *)
LEMMA StackPush ==
  ASSUME NEW st, st \in Seq(Frame), NEW f \in Frame
  PROVE  /\ Append(st, f) \in Seq(Frame) /\ Append(st, f) # <<>>
         /\ Len(st) \in Nat /\ DOMAIN st = 1 .. Len(st)
         /\ DOMAIN Append(st, f) = 1 .. Len(st) + 1
         /\ \A k \in 1 .. Len(st) : Append(st, f)[k] = st[k]
         /\ Append(st, f)[Len(st) + 1] = f
  OBVIOUS

(* The caller that gets its result is taken from the stack.                *)
LEMMA StackPop ==
  ASSUME StackOK, stack # <<>>
  PROVE  /\ Len(stack) \in Nat \ {0} /\ DOMAIN stack = 1 .. Len(stack)
         /\ Caller = stack[Len(stack)] /\ Caller \in Frame
         /\ Callers \in Seq(Frame) /\ Len(Callers) = Len(stack) - 1
         /\ DOMAIN Callers = 1 .. Len(stack) - 1
         /\ \A k \in 1 .. Len(stack) - 1 : Callers[k] = stack[k]
         /\ Held(Caller) \subseteq DOMAIN nodes
         /\ Caller.at \in {"subscript", "data"} <=> Len(stack) = 1
         /\ Callers = <<>> <=> Len(stack) = 1
<1>1. stack \in Seq(Frame) /\ Len(stack) \in Nat \ {0} /\ DOMAIN stack = 1 .. Len(stack)
  BY DEF StackOK
<1>2. Caller = stack[Len(stack)] /\ Caller \in Frame /\ Len(stack) \in DOMAIN stack
  BY <1>1 DEF Caller, Last
<1>3. /\ Callers \in Seq(Frame) /\ Len(Callers) = Len(stack) - 1
      /\ \A k \in 1 .. Len(stack) - 1 : Callers[k] = stack[k]
  BY <1>1 DEF Callers, Front
<1>4. DOMAIN Callers = 1 .. Len(stack) - 1
  BY <1>1, <1>3
<1>5. Held(Caller) \subseteq DOMAIN nodes /\ (Caller.at \in {"subscript", "data"} <=> Len(stack) = 1)
  BY <1>2 DEF StackOK
<1>6. Callers = <<>> <=> Len(stack) = 1
  BY <1>1, <1>3
<1> QED BY <1>1, <1>2, <1>3, <1>4, <1>5, <1>6

(* What a constructor adds: one node, a use of each of its operands, and   *)
(* of a gather an index.                                                   *)
Operands(node) == {node.args[j] : j \in DOMAIN node.args}
IndexOf(node)  == IF node.kind \in {"gather", "scatter"} THEN {node.args[2]} ELSE {}

LEMMA CreateOne ==
  ASSUME NodesOK, CountOK, NEW node, CanFollow(<<node>>), Create(<<node>>)
  PROVE  /\ NewNode \in Nat \ {0} /\ NewNode \notin DOMAIN nodes
         /\ DOMAIN nodes' = DOMAIN nodes \cup {NewNode}
         /\ nodes'[NewNode] = node /\ \A n \in DOMAIN nodes : nodes'[n] = nodes[n]
         /\ \A n : UsesOf(nodes', n) = {} <=> UsesOf(nodes, n) = {} /\ n \notin Operands(node)
         /\ \A kind : OfKind(kind)' = OfKind(kind) \cup (IF node.kind = kind THEN {NewNode} ELSE {})
         /\ IndexNodes' = IndexNodes \cup IndexOf(node)
         /\ IndexArrays' = IndexArrays \cup {nodes[n].addr_name : n \in IndexOf(node)}
         /\ NodesOK' /\ CountOK'
<1> DEFINE new == <<node>>
<1>1. Len(new) = 1 /\ DOMAIN new = {1} /\ new[1] = node
  OBVIOUS
<1> HIDE DEF new
<1>2. CanFollow(new) /\ Create(new)
  BY DEF new
<1>3. /\ Len(nodes) \in Nat /\ DOMAIN nodes = 1 .. Len(nodes)
      /\ DOMAIN nodes' = 1 .. Len(nodes) + 1
      /\ \A n \in DOMAIN nodes : nodes'[n] = nodes[n]
      /\ nodes'[Len(nodes) + 1] = node
      /\ \A n : UsesOf(nodes', n) = {} <=> UsesOf(nodes, n) = {} /\ UsesOf(new, n) = {}
      /\ NodesOK' /\ CountOK'
  BY <1>1, <1>2, CreateKeeps
<1>4. ASSUME NEW n PROVE UsesOf(new, n) = {} <=> n \notin Operands(node)
  <2>1. ASSUME NEW u \in UsesOf(new, n) PROVE n \in Operands(node)
    <3>1. PICK m \in DOMAIN new : \E j \in DOMAIN new[m].args : u = <<m, j>> /\ new[m].args[j] = n
      BY UsesAre
    <3> QED BY <1>1, <3>1 DEF Operands
  <2>2. ASSUME n \in Operands(node) PROVE UsesOf(new, n) # {}
    <3>1. PICK j \in DOMAIN node.args : node.args[j] = n
      BY <2>2 DEF Operands
    <3>2. <<1, j>> \in UsesOf(new, n)
      BY <1>1, <3>1, UsesAre
    <3> QED BY <3>2
  <2> QED BY <2>1, <2>2
<1>5. /\ IndexNodes' = IndexNodes \cup
            {new[k].args[2] : k \in {m \in DOMAIN new : new[m].kind \in {"gather", "scatter"}}}
      /\ \A kind : OfKind(kind)' = OfKind(kind) \cup
            {Len(nodes) + k : k \in {m \in DOMAIN new : new[m].kind = kind}}
  BY <1>2, IndexNodesGrow
<1>6. {new[k].args[2] : k \in {m \in DOMAIN new : new[m].kind \in {"gather", "scatter"}}} = IndexOf(node)
  BY <1>1 DEF IndexOf
<1>7. \A kind : {Len(nodes) + k : k \in {m \in DOMAIN new : new[m].kind = kind}} =
                  IF node.kind = kind THEN {Len(nodes) + 1} ELSE {}
  BY <1>1
<1>8. IndexNodes \subseteq DOMAIN nodes /\ IndexOf(node) \subseteq DOMAIN nodes
  BY <1>1, <1>2, IndexNodesAre DEF OfKind, IndexOf, CanFollow
<1>9. IndexArrays' = IndexArrays \cup {nodes[n].addr_name : n \in IndexOf(node)}
  <2>1. IndexNodes' = IndexNodes \cup IndexOf(node)
    BY <1>5, <1>6
  <2>2. IndexArrays' = {nodes'[n].addr_name : n \in IndexNodes'}
    BY DEF IndexArrays
  <2> QED BY <1>3, <1>8, <2>1, <2>2 DEF IndexArrays
<1> QED BY <1>3, <1>4, <1>5, <1>6, <1>7, <1>9 DEF NewNode

(* A node that is neither a read nor a write leaves the usage as it is.    *)
LEMMA UsageUnchanged ==
  ASSUME NodesOK, CountOK, UsageOK, root_node = 0, NEW node, CanFollow(<<node>>), Create(<<node>>),
         node.kind \notin {"load", "gather", "scatter"}, UNCHANGED <<root_node, usage>>
  PROVE  UsageOK'
<1>1. /\ \A n \in DOMAIN nodes : nodes'[n] = nodes[n]
      /\ OfKind("load")' = OfKind("load") /\ OfKind("gather")' = OfKind("gather")
      /\ OfKind("scatter")' = OfKind("scatter")
      /\ IndexNodes' = IndexNodes /\ IndexArrays' = IndexArrays
  <2>1. /\ \A n \in DOMAIN nodes : nodes'[n] = nodes[n]
        /\ \A kind : OfKind(kind)' = OfKind(kind) \cup (IF node.kind = kind THEN {NewNode} ELSE {})
        /\ IndexNodes' = IndexNodes \cup IndexOf(node)
        /\ IndexArrays' = IndexArrays \cup {nodes[n].addr_name : n \in IndexOf(node)}
    BY CreateOne
  <2>2. IndexOf(node) = {}
    BY DEF IndexOf
  <2> QED BY <2>1, <2>2
<1>2. \A kind : OfKind(kind) \subseteq DOMAIN nodes
  BY DEF OfKind
<1>3. UNCHANGED <<load_set, gather_set, scatter_set, reduction_set>>
  BY DEF usage
<1>4. \A a \in load_set : \E n \in OfKind("load") \ IndexNodes : nodes'[n].addr_name = a
  BY <1>1, <1>2 DEF UsageOK
<1>5. \A n \in OfKind("load") \ IndexNodes : nodes'[n].addr_name \in load_set \cup IndexArrays
  BY <1>1, <1>2 DEF UsageOK
<1>6. gather_set = {nodes'[n].index_name : n \in OfKind("gather")}
  BY <1>1, <1>2 DEF UsageOK
<1> QED BY <1>1, <1>3, <1>4, <1>5, <1>6 DEF UsageOK

-----------------------------------------------------------------------------
(* The sections: output, input, lambda, and the end.                       *)
LEMMA SectionStep ==
  ASSUME ParseInv, DeclsOK',
         BeginParse \/ ParseOutput \/ ParseInput \/ ParseDeclaration \/ ParseLambda \/ ParseEnd \/ ParseTypeWrong
  PROVE  ParseInv'
<1>1. UNCHANGED <<stack, result, tree, usage>>
  BY DEF BeginParse, ParseOutput, ParseInput, ParseDeclaration, ParseLambda, ParseEnd, ParseTypeWrong,
         Stop, control
<1>2. /\ pc \in {"start", "parse", "declaration", "iterates"}
      /\ pc' \in {"parse", "declaration", "iterates", "parsed", "fatal"}
  BY DEF BeginParse, ParseOutput, ParseInput, ParseDeclaration, ParseLambda, ParseEnd, ParseTypeWrong,
         Stop, control
<1> QED BY <1>1, <1>2, SectionKeeps

(* y, with which ParseExpr waits for the index or for the data.            *)
LEMMA ParseExprStep ==
  ASSUME ParseInv, DeclsOK', ParseExpr
  PROVE  ParseInv'
<1>1. NodesOK /\ CountOK /\ StackOK /\ UsageOK /\ root_node = 0 /\ stack = <<>> /\ nodes = <<>>
  BY DEF ParseInv, StackOK, RootOK, ParseExpr
<1>2. CASE Stop("fatal")
  BY <1>1, <1>2, StopKeeps
<1>3. CASE ~ Stop("fatal")
  <2> DEFINE node == VarNode(output_type, output_name)
             f == stack'[1]
  <2>1. /\ Create(<<node>>) /\ pc' = "operand"
        /\ UNCHANGED <<result, root_node, usage>>
        /\ \/ stack' = Append(stack, [at |-> "subscript", node |-> NewNode])
           \/ T(2) \in Assignment /\ stack' = Append(stack, Waiting(NewNode, 0, T(2)))
    BY <1>3 DEF ParseExpr
  <2>2. node \in NodeRecord /\ node.kind = "var" /\ node.args = <<>>
    <3>1. output_type \in TypeRecord /\ output_name \in Name /\ "" \in Name
      BY DEF ParseInv, DeclsOK, Name
    <3>2. <<>> \in Seq(Nat)
      OBVIOUS
    <3> QED BY <3>1, <3>2 DEF VarNode, Node, NodeRecord, Kind
  <2> HIDE DEF node
  <2>3. CanFollow(<<node>>)
    BY <2>2 DEF CanFollow
  <2>4. /\ NewNode \in Nat \ {0} /\ DOMAIN nodes' = {NewNode} /\ nodes'[NewNode] = node
        /\ NodesOK' /\ CountOK'
    <3>1. DOMAIN nodes = {}
      BY <1>1
    <3>2. /\ NewNode \in Nat \ {0} /\ DOMAIN nodes' = DOMAIN nodes \cup {NewNode}
          /\ nodes'[NewNode] = node /\ NodesOK' /\ CountOK'
      BY <1>1, <2>1, <2>3, CreateOne
    <3> QED BY <3>1, <3>2
  <2>5. \E g \in Frame : /\ stack' = Append(stack, g) /\ Held(g) = {NewNode}
                         /\ g.at \in {"subscript", "data"} /\ (g.at = "data" => g.addr # 0)
    <3>1. CASE stack' = Append(stack, [at |-> "subscript", node |-> NewNode])
      BY <2>4, <3>1 DEF Frame, Held
    <3>2. CASE T(2) \in Assignment /\ stack' = Append(stack, Waiting(NewNode, 0, T(2)))
      BY <2>4, <3>2 DEF Frame, Held, Waiting
    <3> QED BY <2>1, <3>1, <3>2
  <2>6. PICK g \in Frame : /\ stack' = Append(stack, g) /\ Held(g) = {NewNode}
                           /\ g.at \in {"subscript", "data"} /\ (g.at = "data" => g.addr # 0)
    BY <2>5
  <2>7. stack' \in Seq(Frame) /\ stack' # <<>> /\ DOMAIN stack' = {1} /\ stack'[1] = g
    <3>1. stack' = <<g>>
      BY <1>1, <2>6
    <3> QED BY <3>1
  <2>8. StackOK'
    BY <1>1, <2>1, <2>4, <2>6, <2>7 DEF StackOK, HasNode, InExpr
  <2>9. LooseOK'
    BY <2>2, <2>4 DEF LooseOK, Loose, Args
  <2>10. UsageOK' /\ RootOK'
    BY <1>1, <2>1, <2>2, <2>3, UsageUnchanged DEF RootOK
  <2> QED BY <2>4, <2>8, <2>9, <2>10 DEF ParseInv
<1> QED BY <1>2, <1>3

(* A node was kept if a caller holds it or it is the result.               *)
LEMMA KeptAre ==
  ASSUME NEW n
  PROVE  n \in Kept <=> (\E k \in DOMAIN stack : n \in Held(stack[k])) \/ (HasNode /\ n = result)
<1> DEFINE waited == UNION {Held(stack[k]) : k \in DOMAIN stack}
           returned == IF HasNode THEN {result} ELSE {}
<1>1. n \in waited <=> \E k \in DOMAIN stack : n \in Held(stack[k])
  OBVIOUS
<1>2. n \in returned <=> HasNode /\ n = result
  BY DEF HasNode
<1>3. Kept = waited \cup returned
  BY DEF Kept
<1> HIDE DEF waited, returned
<1> QED BY <1>1, <1>2, <1>3 DEF HasNode

(* A token names an operand: a variable of its own, which also waits when  *)
(* an index follows.                                                       *)
LEMMA OperandStep ==
  ASSUME ParseInv, DeclsOK', Operand
  PROVE  ParseInv'
<1>1. /\ DeclsOK /\ NodesOK /\ CountOK /\ StackOK /\ LooseOK /\ UsageOK
      /\ root_node = 0 /\ stack # <<>> /\ InExpr /\ ~ HasNode
  BY DEF ParseInv, StackOK, RootOK, Operand, InExpr, HasNode
<1>2. CASE Stop("fatal")
  BY <1>1, <1>2, StopKeeps
<1>3. CASE ~ Stop("fatal")
  <2> DEFINE node == VarNode(TypeOfName(T(1)), T(1))
             f == [at |-> "index", node |-> NewNode]
  <2>1. /\ T(1) \in DOMAIN name_type_map \cup iterates_set
        /\ Create(<<node>>) /\ result' = NewNode
        /\ UNCHANGED <<root_node, usage>>
        /\ \/ stack' = Append(stack, f) /\ pc' = "operand"
           \/ stack' = stack /\ pc' = "operator"
    BY <1>3 DEF Operand
  <2>2. node \in NodeRecord /\ node.kind = "var" /\ node.args = <<>>
    <3>1. T(1) \in Name /\ "" \in Name
      BY <1>1, <2>1 DEF DeclsOK, Name
    <3>2. TypeOfName(T(1)) \in TypeRecord
      BY <1>1 DEF TypeOfName, DeclsOK, IntType, TypeRecord, BasicType
    <3>3. <<>> \in Seq(Nat)
      OBVIOUS
    <3> QED BY <3>1, <3>2, <3>3 DEF VarNode, Node, NodeRecord, Kind
  <2> HIDE DEF node
  <2>3. CanFollow(<<node>>)
    BY <2>2 DEF CanFollow
  <2>4. Operands(node) = {}
    BY <2>2 DEF Operands
  <2>5. /\ NewNode \in Nat \ {0} /\ NewNode \notin DOMAIN nodes
        /\ DOMAIN nodes' = DOMAIN nodes \cup {NewNode} /\ nodes'[NewNode] = node
        /\ \A n \in DOMAIN nodes : nodes'[n] = nodes[n]
        /\ \A n : UsesOf(nodes', n) = {} <=> UsesOf(nodes, n) = {}
        /\ NodesOK' /\ CountOK'
    BY <1>1, <2>1, <2>3, <2>4, CreateOne
  <2>6. f \in Frame /\ Held(f) = {NewNode} /\ f.at = "index"
    BY <2>5 DEF Frame, Held
  <2> HIDE DEF f
  <2>7. /\ Len(stack) \in Nat \ {0} /\ DOMAIN stack = 1 .. Len(stack)
        /\ \A k \in DOMAIN stack : k \in DOMAIN stack' /\ stack'[k] = stack[k]
        /\ \A k \in DOMAIN stack' : k \in DOMAIN stack \/ (k > 1 /\ stack'[k] = f)
        /\ stack' \in Seq(Frame) /\ stack' # <<>>
        /\ pc' = "operand" => \E k \in DOMAIN stack' : stack'[k] = f
    <3>1. stack \in Seq(Frame) /\ stack # <<>>
      BY <1>1 DEF StackOK
    <3>2. Len(stack) \in Nat \ {0} /\ DOMAIN stack = 1 .. Len(stack)
      BY <3>1
    <3>3. CASE stack' = stack /\ pc' = "operator"
      BY <3>1, <3>2, <3>3
    <3>4. CASE stack' = Append(stack, f) /\ pc' = "operand"
      <4>1. /\ stack' \in Seq(Frame) /\ stack' # <<>> /\ DOMAIN stack' = 1 .. Len(stack) + 1
            /\ \A k \in 1 .. Len(stack) : stack'[k] = stack[k]
            /\ stack'[Len(stack) + 1] = f
        BY <2>6, <3>1, <3>4, StackPush
      <4>2. Len(stack) + 1 \in DOMAIN stack'
        BY <3>2, <4>1
      <4>3. \A k \in DOMAIN stack' : k \in DOMAIN stack \/ k = Len(stack) + 1
        BY <3>2, <4>1
      <4> QED BY <3>2, <4>1, <4>2, <4>3
    <3> QED BY <2>1, <3>3, <3>4
  <2>8. StackOK'
    <3>1. ASSUME NEW k \in DOMAIN stack'
          PROVE  /\ Held(stack'[k]) \subseteq DOMAIN nodes'
                 /\ stack'[k].at = "data" => stack'[k].addr # 0
                 /\ stack'[k].at \in {"subscript", "data"} <=> k = 1
      <4>1. CASE k \in DOMAIN stack
        BY <1>1, <2>5, <2>7, <4>1 DEF StackOK
      <4>2. CASE k \notin DOMAIN stack
        BY <2>5, <2>6, <2>7, <4>2
      <4> QED BY <4>1, <4>2
    <3>2. result' \in DOMAIN nodes' /\ result' \in Nat
      BY <2>1, <2>5
    <3>3. pc' \in {"operand", "operator"}
      BY <2>1
    <3> QED BY <2>7, <3>1, <3>2, <3>3 DEF StackOK, Held
  <2>9. LooseOK'
    <3> SUFFICES ASSUME NEW n \in DOMAIN nodes', Loose(n)' PROVE n \in Kept'
      BY DEF LooseOK
    <3>1. n # NewNode
      BY <2>2, <2>5 DEF Loose, Args
    <3>2. n \in DOMAIN nodes /\ Loose(n)
      BY <2>5, <3>1 DEF Loose, Args
    <3>3. n \in Kept
      BY <1>1, <3>2 DEF LooseOK
    <3>4. PICK k \in DOMAIN stack : n \in Held(stack[k])
      BY <1>1, <3>3, KeptAre
    <3>5. k \in DOMAIN stack' /\ n \in Held(stack'[k])
      BY <2>7, <3>4
    <3> QED BY <3>5 DEF Kept, Held
  <2>10. UsageOK' /\ RootOK'
    BY <1>1, <2>1, <2>2, <2>3, UsageUnchanged DEF RootOK
  <2> QED BY <2>5, <2>8, <2>9, <2>10 DEF ParseInv
<1> QED BY <1>2, <1>3

(* An operator makes the result the left operand that waits for the right  *)
(* one; any other token ends the expression.                               *)
LEMMA OperatorStep ==
  ASSUME ParseInv, DeclsOK', Operator
  PROVE  ParseInv'
<1>1. /\ NodesOK /\ CountOK /\ StackOK /\ LooseOK /\ UsageOK
      /\ root_node = 0 /\ stack # <<>> /\ InExpr /\ HasNode /\ result \in DOMAIN nodes
  BY DEF ParseInv, StackOK, RootOK, Operator, InExpr, HasNode
<1>2. UNCHANGED <<nodes, need_node, root_node, result, load_set, gather_set, scatter_set, reduction_set>>
  BY DEF Operator, tree, usage
<1> DEFINE f == [at |-> "right", op |-> current, left |-> result]
<1>3. stack \in Seq(Frame) /\ Len(stack) \in Nat \ {0} /\ DOMAIN stack = 1 .. Len(stack)
  BY <1>1 DEF StackOK
<1>4. \/ /\ current \in Operators /\ stack' = Append(stack, f) /\ pc' = "operand"
      \/ stack' = stack /\ pc' = "return"
  BY DEF Operator
<1>5. NodesOK' /\ CountOK'
  BY <1>1, <1>2 DEF NodesOK, CountOK, Args, UsesOf
<1>6. UsageOK' /\ RootOK'
  BY <1>1, <1>2 DEF UsageOK, RootOK, OfKind, IndexNodes, IndexArrays
<1>7. CASE stack' = stack /\ pc' = "return"
  <2>1. StackOK'
    BY <1>1, <1>2, <1>7 DEF StackOK, Held, HasNode, InExpr
  <2>2. LooseOK'
    <3>1. HasNode' /\ Kept' = Kept
      BY <1>1, <1>2, <1>7 DEF HasNode, Kept, Held
    <3>2. \A n \in DOMAIN nodes' : n \in DOMAIN nodes /\ (Loose(n)' <=> Loose(n))
      BY <1>2 DEF Loose, Args, UsesOf
    <3> QED BY <1>1, <3>1, <3>2 DEF LooseOK
  <2> QED BY <1>5, <1>6, <2>1, <2>2 DEF ParseInv
<1>8. CASE current \in Operators /\ stack' = Append(stack, f) /\ pc' = "operand"
  <2>1. f \in Frame /\ Held(f) = {result} /\ f.at = "right"
    BY <1>1, <1>8 DEF Frame, Held, StackOK
  <2> HIDE DEF f
  <2>2. /\ stack' \in Seq(Frame) /\ stack' # <<>>
        /\ DOMAIN stack' = 1 .. Len(stack) + 1
        /\ \A k \in 1 .. Len(stack) : stack'[k] = stack[k]
        /\ stack'[Len(stack) + 1] = f
    BY <1>3, <1>8, <2>1, StackPush
  <2>3. \A k \in DOMAIN stack' : k \in DOMAIN stack \/ k = Len(stack) + 1
    BY <1>3, <2>2
  <2>4. StackOK'
    <3>1. ASSUME NEW k \in DOMAIN stack'
          PROVE  /\ Held(stack'[k]) \subseteq DOMAIN nodes
                 /\ stack'[k].at = "data" => stack'[k].addr # 0
                 /\ stack'[k].at \in {"subscript", "data"} <=> k = 1
      <4>1. CASE k \in DOMAIN stack
        BY <1>1, <1>3, <2>2, <4>1 DEF StackOK
      <4>2. CASE k = Len(stack) + 1
        BY <1>1, <1>3, <2>1, <2>2, <4>2
      <4> QED BY <2>3, <4>1, <4>2
    <3> QED BY <1>1, <1>2, <1>8, <2>2, <3>1 DEF StackOK, Held, HasNode, InExpr
  <2>5. LooseOK'
    <3> SUFFICES ASSUME NEW n \in DOMAIN nodes', Loose(n)' PROVE n \in Kept'
      BY DEF LooseOK
    <3>1. n \in DOMAIN nodes /\ Loose(n)
      BY <1>2 DEF Loose, Args, UsesOf
    <3>2. n \in Kept
      BY <1>1, <3>1 DEF LooseOK
    <3>3. \E k \in DOMAIN stack' : n \in Held(stack'[k])
      <4>1. CASE n = result
        <5>1. Len(stack) + 1 \in DOMAIN stack' /\ n \in Held(stack'[Len(stack) + 1])
          BY <1>3, <2>1, <2>2, <4>1
        <5> QED BY <5>1
      <4>2. CASE n # result
        <5>1. PICK k \in DOMAIN stack : n \in Held(stack[k])
          BY <3>2, <4>2, KeptAre
        <5>2. k \in DOMAIN stack' /\ n \in Held(stack'[k])
          BY <1>3, <2>2, <5>1
        <5> QED BY <5>2
      <4> QED BY <4>1, <4>2
    <3> QED BY <3>3 DEF Kept, Held
  <2> QED BY <1>5, <1>6, <2>4, <2>5 DEF ParseInv
<1> QED BY <1>4, <1>7, <1>8

(* A caller returns the node it has made of what it held and of the result *)
(* it waited for: nothing is forgotten.                                    *)
LEMMA ReturnNode ==
  ASSUME ParseInv, Return, Caller.at \in {"index", "right"},
         NEW node, CanFollow(<<node>>), Create(<<node>>),
         Held(Caller) \subseteq Operands(node), Loose(result) => result \in Operands(node),
         node.args # <<>>, result' = NewNode, stack' = Callers, pc' \in {"operator", "return"}
  PROVE  StackOK' /\ LooseOK'
<1>1. NodesOK /\ CountOK /\ StackOK /\ LooseOK /\ stack # <<>> /\ InExpr /\ HasNode
  BY DEF ParseInv, Return, InExpr, HasNode
<1>2. /\ NewNode \in Nat \ {0} /\ NewNode \notin DOMAIN nodes
      /\ DOMAIN nodes' = DOMAIN nodes \cup {NewNode} /\ nodes'[NewNode] = node
      /\ \A n \in DOMAIN nodes : nodes'[n] = nodes[n]
      /\ \A n : UsesOf(nodes', n) = {} <=> UsesOf(nodes, n) = {} /\ n \notin Operands(node)
  BY <1>1, CreateOne
<1>3. /\ Len(stack) \in Nat \ {0} /\ DOMAIN stack = 1 .. Len(stack)
      /\ Caller = stack[Len(stack)] /\ Caller \in Frame
      /\ stack' \in Seq(Frame) /\ DOMAIN stack' = 1 .. Len(stack) - 1
      /\ \A k \in 1 .. Len(stack) - 1 : stack'[k] = stack[k]
      /\ Len(stack) # 1 /\ stack' # <<>>
  BY <1>1, StackPop
<1>4. StackOK'
  <2>1. ASSUME NEW k \in DOMAIN stack'
        PROVE  /\ Held(stack'[k]) \subseteq DOMAIN nodes'
               /\ stack'[k].at = "data" => stack'[k].addr # 0
               /\ stack'[k].at \in {"subscript", "data"} <=> k = 1
    <3>1. k \in DOMAIN stack /\ stack'[k] = stack[k]
      BY <1>3
    <3> QED BY <1>1, <1>2, <3>1 DEF StackOK
  <2> QED BY <1>2, <1>3, <2>1 DEF StackOK, Held
<1>5. LooseOK'
  <2> SUFFICES ASSUME NEW n \in DOMAIN nodes', Loose(n)' PROVE n \in Kept'
    BY DEF LooseOK
  <2>1. CASE n = NewNode
    BY <2>1 DEF Kept, HasNode
  <2>2. CASE n # NewNode
    <3>1. n \in DOMAIN nodes /\ Loose(n) /\ n \notin Operands(node)
      BY <1>2, <2>2 DEF Loose, Args
    <3>2. n \in Kept /\ n # result
      BY <1>1, <3>1 DEF LooseOK
    <3>3. PICK k \in DOMAIN stack : n \in Held(stack[k])
      BY <3>2, KeptAre
    <3>4. k # Len(stack)
      BY <1>3, <3>1, <3>3
    <3>5. k \in DOMAIN stack' /\ n \in Held(stack'[k])
      BY <1>3, <3>3, <3>4
    <3> QED BY <3>5 DEF Kept, Held
  <2> QED BY <2>1, <2>2
<1> QED BY <1>4, <1>5

(* The operands of a node of one, two and three operands.                  *)
LEMMA OperandsAre ==
  ASSUME NEW a, NEW b, NEW c, NEW node
  PROVE  /\ node.args = <<a>> => Operands(node) = {a}
         /\ node.args = <<a, b>> => Operands(node) = {a, b}
         /\ node.args = <<a, b, c>> => Operands(node) = {a, b, c}
  BY DEF Operands

(* The right operand is read: the operation is made of both.               *)
LEMMA EndRightStep ==
  ASSUME ParseInv, DeclsOK', EndRight
  PROVE  ParseInv'
<1>1. /\ NodesOK /\ CountOK /\ StackOK /\ LooseOK /\ UsageOK /\ root_node = 0
      /\ Return /\ pc = "return" /\ Caller.at = "right" /\ result \in DOMAIN nodes /\ stack # <<>>
  BY DEF ParseInv, EndRight, Return, RootOK, StackOK, HasNode
<1> DEFINE node == BinaryNode(Caller.op, Caller.left, result, nodes[Caller.left].type, "", "")
<1>2. /\ Create(<<node>>) /\ result' = NewNode /\ stack' = Callers /\ pc' = "return"
      /\ UNCHANGED <<root_node, usage>>
  BY <1>1 DEF EndRight
<1>3. Caller.op \in Operators /\ Caller.left \in DOMAIN nodes /\ Held(Caller) = {Caller.left}
  <2>1. Caller \in Frame /\ Held(Caller) \subseteq DOMAIN nodes
    BY <1>1, StackPop
  <2>2. Held(Caller) = {Caller.left}
    BY <1>1 DEF Held
  <2>3. Caller.op \in Operators
    BY <1>1, <2>1 DEF Frame
  <2> QED BY <2>1, <2>2, <2>3
<1>4. /\ nodes \in Seq(NodeRecord) /\ DOMAIN nodes = 1 .. Len(nodes) /\ Len(nodes) \in Nat
      /\ nodes[Caller.left] \in NodeRecord
  BY <1>1, <1>3 DEF NodesOK
<1>5. /\ node \in NodeRecord /\ node.kind \in Operators
      /\ node.args = <<Caller.left, result>>
  <2>1. nodes[Caller.left].type \in TypeRecord
    BY <1>4 DEF NodeRecord
  <2>2. <<Caller.left, result>> \in Seq(Nat)
    BY <1>1, <1>3, <1>4
  <2> QED BY <1>3, <2>1, <2>2 DEF BinaryNode, Node, NodeRecord, Kind, Name
<1> HIDE DEF node
<1>6. CanFollow(<<node>>)
  <2>1. Len(node.args) <= 3 /\ \A j \in DOMAIN node.args : node.args[j] \in DOMAIN nodes
    BY <1>1, <1>3, <1>4, <1>5
  <2>2. node.kind \notin {"var", "gather", "scatter"}
    BY <1>5 DEF Operators
  <2> QED BY <1>1, <1>5, <2>1, <2>2, OneFollows
<1>7. Operands(node) = {Caller.left, result} /\ node.args # <<>>
  BY <1>5, OperandsAre
<1>8. StackOK' /\ LooseOK'
  BY <1>1, <1>2, <1>3, <1>6, <1>7, ReturnNode
<1>9. NodesOK' /\ CountOK'
  BY <1>1, <1>2, <1>6, CreateOne
<1>10. node.kind \notin {"load", "gather", "scatter"}
  BY <1>5 DEF Operators
<1>11. UsageOK' /\ RootOK'
  BY <1>1, <1>2, <1>6, <1>10, UsageUnchanged DEF RootOK
<1> QED BY <1>8, <1>9, <1>11 DEF ParseInv

(* y[...]: the index is read, and y and its index wait for the data.       *)
LEMMA EndSubscriptStep ==
  ASSUME ParseInv, DeclsOK', EndSubscript
  PROVE  ParseInv'
<1>1. /\ NodesOK /\ CountOK /\ StackOK /\ LooseOK /\ UsageOK /\ root_node = 0
      /\ Return /\ pc = "return" /\ Caller.at = "subscript" /\ result \in DOMAIN nodes /\ stack # <<>>
      /\ InExpr /\ HasNode
  BY DEF ParseInv, EndSubscript, Return, RootOK, StackOK, HasNode, InExpr
<1>2. CASE Stop("fatal")
  BY <1>1, <1>2, StopKeeps
<1>3. CASE ~ Stop("fatal")
  <2> DEFINE f == Waiting(Caller.node, result, T(1))
  <2>1. /\ T(1) \in Assignment /\ stack' = Append(Callers, f) /\ pc' = "operand"
        /\ UNCHANGED <<result, nodes, need_node, root_node, load_set, gather_set, scatter_set, reduction_set>>
    BY <1>3 DEF EndSubscript, tree, usage
  <2>2. /\ Caller \in Frame /\ Held(Caller) \subseteq DOMAIN nodes /\ Len(stack) = 1 /\ Callers = <<>>
        /\ Caller = stack[1] /\ DOMAIN stack = {1}
    <3>1. /\ Caller \in Frame /\ Held(Caller) \subseteq DOMAIN nodes
          /\ Len(stack) = 1 /\ Callers = <<>>
          /\ Caller = stack[Len(stack)] /\ DOMAIN stack = 1 .. Len(stack)
      BY <1>1, StackPop
    <3> QED BY <3>1
  <2>3. Caller.node \in DOMAIN nodes /\ Held(Caller) = {Caller.node}
    BY <1>1, <2>2 DEF Held
  <2>4. DOMAIN nodes \subseteq Nat \ {0}
    BY <1>1 DEF NodesOK
  <2>5. f \in Frame /\ Held(f) = {Caller.node, result} /\ f.at = "data" /\ f.addr # 0
    BY <1>1, <2>1, <2>3, <2>4 DEF Frame, Held, Waiting
  <2> HIDE DEF f
  <2>6. stack' = <<f>> /\ stack' \in Seq(Frame) /\ DOMAIN stack' = {1} /\ stack'[1] = f
    BY <2>1, <2>2, <2>5
  <2>7. StackOK'
    BY <1>1, <2>1, <2>3, <2>5, <2>6 DEF StackOK, HasNode, InExpr
  <2>8. LooseOK'
    <3> SUFFICES ASSUME NEW n \in DOMAIN nodes', Loose(n)' PROVE n \in Kept'
      BY DEF LooseOK
    <3>1. n \in DOMAIN nodes /\ Loose(n)
      BY <2>1 DEF Loose, Args, UsesOf
    <3>2. n \in Kept
      BY <1>1, <3>1 DEF LooseOK
    <3>3. n \in {Caller.node, result}
      BY <2>2, <2>3, <3>2, KeptAre
    <3>4. n \in Held(stack'[1]) /\ 1 \in DOMAIN stack'
      BY <2>5, <2>6, <3>3
    <3> QED BY <3>4 DEF Kept, Held
  <2>9. NodesOK' /\ CountOK'
    BY <1>1, <2>1 DEF NodesOK, CountOK, Args, UsesOf
  <2>10. UsageOK' /\ RootOK'
    BY <1>1, <2>1 DEF UsageOK, RootOK, OfKind, IndexNodes, IndexArrays
  <2> QED BY <2>7, <2>8, <2>9, <2>10 DEF ParseInv
<1> QED BY <1>2, <1>3

(* a[r[i]]: the load of the index is made one of a gather, and its array   *)
(* is no longer one to load.                                               *)
LEMMA GatherStep ==
  ASSUME ParseInv, DeclsOK', Return, Caller.at = "index", GatherIndex, ~ Stop("crash")
  PROVE  ParseInv'
<1>1. /\ NodesOK /\ CountOK /\ StackOK /\ LooseOK /\ UsageOK /\ root_node = 0
      /\ pc = "return" /\ result \in DOMAIN nodes /\ stack # <<>>
  BY DEF ParseInv, Return, RootOK, StackOK, HasNode
<1> DEFINE node == GatherNode(Caller.node, result, nodes[Caller.node].node_name)
           name == nodes[result].addr_name
<1>2. /\ nodes[result].kind = "load"
      /\ Create(<<node>>) /\ result' = NewNode /\ stack' = Callers /\ pc' = "operator"
      /\ gather_set' = gather_set \cup {name} /\ load_set' = load_set \ {name}
      /\ UNCHANGED <<root_node, scatter_set, reduction_set>>
  BY DEF GatherIndex, LoadsWithout
<1>3. Caller.node \in DOMAIN nodes /\ Held(Caller) = {Caller.node}
  BY <1>1, StackPop DEF Held
<1>4. /\ nodes \in Seq(NodeRecord) /\ DOMAIN nodes = 1 .. Len(nodes) /\ Len(nodes) \in Nat
      /\ nodes[Caller.node] \in NodeRecord /\ nodes[result] \in NodeRecord
  BY <1>1, <1>3 DEF NodesOK
<1>5. /\ node \in NodeRecord /\ node.kind = "gather" /\ node.args = <<Caller.node, result>>
      /\ node.index_name = name
  <2>1. Pointee(nodes[Caller.node].type) \in TypeRecord
    BY <1>4 DEF NodeRecord, TypeRecord, Pointee
  <2>2. nodes[Caller.node].node_name \in Name /\ name \in Name
    BY <1>4 DEF NodeRecord
  <2>3. <<Caller.node, result>> \in Seq(Nat)
    BY <1>1, <1>3, <1>4
  <2> QED BY <2>1, <2>2, <2>3 DEF GatherNode, Node, NodeRecord, Kind
<1> HIDE DEF node, name
<1>6. CanFollow(<<node>>)
  <2>1. Len(node.args) <= 3 /\ \A j \in DOMAIN node.args : node.args[j] \in DOMAIN nodes
    BY <1>1, <1>3, <1>4, <1>5
  <2>2. Len(node.args) >= 2 /\ node.args[2] \in OfKind("load")
    BY <1>1, <1>2, <1>5 DEF OfKind
  <2> QED BY <1>1, <1>5, <2>1, <2>2, OneFollows
<1>7. Operands(node) = {Caller.node, result} /\ node.args # <<>>
  BY <1>5, OperandsAre
<1>8. StackOK' /\ LooseOK'
  BY <1>1, <1>2, <1>3, <1>6, <1>7, ReturnNode
<1>9. /\ NodesOK' /\ CountOK'
      /\ NewNode \notin DOMAIN nodes /\ nodes'[NewNode] = node
      /\ \A n \in DOMAIN nodes : nodes'[n] = nodes[n]
      /\ \A kind : OfKind(kind)' = OfKind(kind) \cup (IF node.kind = kind THEN {NewNode} ELSE {})
      /\ IndexNodes' = IndexNodes \cup IndexOf(node)
      /\ IndexArrays' = IndexArrays \cup {nodes[n].addr_name : n \in IndexOf(node)}
  BY <1>1, <1>2, <1>6, CreateOne
<1>10. /\ OfKind("load")' = OfKind("load") /\ OfKind("scatter")' = OfKind("scatter")
       /\ OfKind("gather")' = OfKind("gather") \cup {NewNode}
       /\ IndexNodes' = IndexNodes \cup {result} /\ IndexArrays' = IndexArrays \cup {name}
  <2>1. IndexOf(node) = {result}
    BY <1>5 DEF IndexOf
  <2> QED BY <1>5, <1>9, <2>1 DEF name
<1>11. \A kind : OfKind(kind) \subseteq DOMAIN nodes
  BY DEF OfKind
<1>12. UsageOK'
  <2>1. ASSUME NEW a \in load_set'
        PROVE  \E n \in OfKind("load")' \ IndexNodes' : nodes'[n].addr_name = a
    <3>1. a \in load_set /\ a # name
      BY <1>2, <2>1
    <3>2. PICK n \in OfKind("load") \ IndexNodes : nodes[n].addr_name = a
      BY <1>1, <3>1 DEF UsageOK
    <3>3. n # result
      BY <3>1, <3>2 DEF name
    <3> QED BY <1>9, <1>10, <1>11, <3>2, <3>3
  <2>2. ASSUME NEW n \in OfKind("load")' \ IndexNodes'
        PROVE  nodes'[n].addr_name \in load_set' \cup IndexArrays'
    <3>1. n \in OfKind("load") \ IndexNodes /\ nodes'[n] = nodes[n]
      BY <1>9, <1>10, <1>11
    <3>2. nodes[n].addr_name \in load_set \cup IndexArrays
      BY <1>1, <3>1 DEF UsageOK
    <3> QED BY <1>2, <1>10, <3>1, <3>2
  <2>3. gather_set' = {nodes'[n].index_name : n \in OfKind("gather")'}
    <3>1. gather_set = {nodes[n].index_name : n \in OfKind("gather")}
      BY <1>1 DEF UsageOK
    <3>2. {nodes'[n].index_name : n \in OfKind("gather")} = {nodes[n].index_name : n \in OfKind("gather")}
      BY <1>9, <1>11
    <3> QED BY <1>2, <1>5, <1>9, <1>10, <3>1, <3>2
  <2> QED BY <1>1, <1>2, <1>10, <2>1, <2>2, <2>3 DEF UsageOK
<1>13. RootOK'
  BY <1>1, <1>2 DEF RootOK
<1> QED BY <1>8, <1>9, <1>12, <1>13 DEF ParseInv

(* d[i]: a load, whose array is one to load.                               *)
LEMMA LoadStep ==
  ASSUME ParseInv, DeclsOK', Return, Caller.at = "index", LoadIndex, ~ Stop("fatal")
  PROVE  ParseInv'
<1>1. /\ NodesOK /\ CountOK /\ StackOK /\ LooseOK /\ UsageOK /\ root_node = 0
      /\ pc = "return" /\ result \in DOMAIN nodes /\ stack # <<>>
  BY DEF ParseInv, Return, RootOK, StackOK, HasNode
<1> DEFINE array == nodes[Caller.node].node_name
           node == LoadNode(Caller.node, result, array)
<1>2. /\ nodes[result].kind = "var"
      /\ Create(<<node>>) /\ result' = NewNode /\ stack' = Callers /\ pc' = "operator"
      /\ load_set' = load_set \cup {array}
      /\ UNCHANGED <<root_node, gather_set, scatter_set, reduction_set>>
  BY DEF LoadIndex
<1>3. Caller.node \in DOMAIN nodes /\ Held(Caller) = {Caller.node}
  BY <1>1, StackPop DEF Held
<1>4. /\ nodes \in Seq(NodeRecord) /\ DOMAIN nodes = 1 .. Len(nodes) /\ Len(nodes) \in Nat
      /\ nodes[Caller.node] \in NodeRecord /\ nodes[result] \in NodeRecord
  BY <1>1, <1>3 DEF NodesOK
<1>5. /\ node \in NodeRecord /\ node.kind = "load" /\ node.args = <<Caller.node>>
      /\ node.addr_name = array
  <2>1. Pointee(nodes[Caller.node].type) \in TypeRecord
    BY <1>4 DEF NodeRecord, TypeRecord, Pointee
  <2>2. array \in Name /\ nodes[result].node_name \in Name
    BY <1>4 DEF NodeRecord
  <2>3. <<Caller.node>> \in Seq(Nat)
    BY <1>3, <1>4
  <2> QED BY <2>1, <2>2, <2>3 DEF LoadNode, Node, NodeRecord, Kind
<1> HIDE DEF node, array
<1>6. CanFollow(<<node>>)
  <2>1. Len(node.args) <= 3 /\ \A j \in DOMAIN node.args : node.args[j] \in DOMAIN nodes
    BY <1>3, <1>4, <1>5
  <2> QED BY <1>1, <1>5, <2>1, OneFollows
<1>7. Operands(node) = {Caller.node} /\ node.args # <<>>
  BY <1>5, OperandsAre
<1>8. ~ Loose(result)
  BY <1>1, <1>2 DEF Loose, NodesOK
<1>9. StackOK' /\ LooseOK'
  BY <1>1, <1>2, <1>3, <1>6, <1>7, <1>8, ReturnNode
<1>10. /\ NodesOK' /\ CountOK'
       /\ NewNode \notin DOMAIN nodes /\ nodes'[NewNode] = node
       /\ \A n \in DOMAIN nodes : nodes'[n] = nodes[n]
       /\ \A kind : OfKind(kind)' = OfKind(kind) \cup (IF node.kind = kind THEN {NewNode} ELSE {})
       /\ IndexNodes' = IndexNodes \cup IndexOf(node)
       /\ IndexArrays' = IndexArrays \cup {nodes[n].addr_name : n \in IndexOf(node)}
  BY <1>1, <1>2, <1>6, CreateOne
<1>11. /\ OfKind("load")' = OfKind("load") \cup {NewNode}
       /\ OfKind("scatter")' = OfKind("scatter") /\ OfKind("gather")' = OfKind("gather")
       /\ IndexNodes' = IndexNodes /\ IndexArrays' = IndexArrays
  <2>1. IndexOf(node) = {}
    BY <1>5 DEF IndexOf
  <2> QED BY <1>5, <1>10, <2>1
<1>12. IndexNodes \subseteq DOMAIN nodes /\ \A kind : OfKind(kind) \subseteq DOMAIN nodes
  BY <1>1, IndexNodesAre DEF OfKind
<1>13. UsageOK'
  <2>1. ASSUME NEW a \in load_set'
        PROVE  \E n \in OfKind("load")' \ IndexNodes' : nodes'[n].addr_name = a
    <3>1. CASE a = array
      BY <1>5, <1>10, <1>11, <1>12, <3>1
    <3>2. CASE a # array
      <4>1. PICK n \in OfKind("load") \ IndexNodes : nodes[n].addr_name = a
        BY <1>1, <1>2, <2>1, <3>2 DEF UsageOK
      <4> QED BY <1>10, <1>11, <1>12, <4>1
    <3> QED BY <3>1, <3>2
  <2>2. ASSUME NEW n \in OfKind("load")' \ IndexNodes'
        PROVE  nodes'[n].addr_name \in load_set' \cup IndexArrays'
    <3>1. CASE n = NewNode
      BY <1>2, <1>5, <1>10, <3>1
    <3>2. CASE n # NewNode
      <4>1. n \in OfKind("load") \ IndexNodes /\ nodes'[n] = nodes[n]
        BY <1>10, <1>11, <1>12, <3>2
      <4>2. nodes[n].addr_name \in load_set \cup IndexArrays
        BY <1>1, <4>1 DEF UsageOK
      <4> QED BY <1>2, <1>11, <4>1, <4>2
    <3> QED BY <3>1, <3>2
  <2>3. gather_set' = {nodes'[n].index_name : n \in OfKind("gather")'}
    <3>1. gather_set = {nodes[n].index_name : n \in OfKind("gather")}
      BY <1>1 DEF UsageOK
    <3>2. {nodes'[n].index_name : n \in OfKind("gather")} = {nodes[n].index_name : n \in OfKind("gather")}
      BY <1>10, <1>12
    <3> QED BY <1>2, <1>11, <3>1, <3>2
  <2> QED BY <1>1, <1>2, <1>11, <2>1, <2>2, <2>3 DEF UsageOK
<1>14. RootOK'
  BY <1>1, <1>2 DEF RootOK
<1> QED BY <1>9, <1>10, <1>13, <1>14 DEF ParseInv

(* The index of an operand is read.                                        *)
LEMMA EndIndexStep ==
  ASSUME ParseInv, DeclsOK', EndIndex
  PROVE  ParseInv'
<1>1. root_node = 0 /\ Return /\ Caller.at = "index"
  BY DEF ParseInv, EndIndex, Return, RootOK
<1>2. CASE Stop("fatal") \/ Stop("crash")
  BY <1>1, <1>2, StopKeeps
<1>3. CASE ~ Stop("fatal") /\ ~ Stop("crash")
  <2>1. GatherIndex \/ LoadIndex
    BY <1>3 DEF EndIndex, UnsupportedIndex
  <2> QED BY <1>1, <1>3, <2>1, GatherStep, LoadStep
<1> QED BY <1>2, <1>3

-----------------------------------------------------------------------------
(* The assignment makes three nodes at once: the read of y, the sum and    *)
(* the write.                                                              *)
LEMMA ThreeFollow ==
  ASSUME NodesOK, NEW A \in NodeRecord, NEW B \in NodeRecord, NEW C \in NodeRecord,
         Len(A.args) <= 3, \A j \in DOMAIN A.args : A.args[j] \in 1 .. Len(nodes),
         Len(B.args) <= 3, \A j \in DOMAIN B.args : B.args[j] \in 1 .. Len(nodes) + 1,
         Len(C.args) <= 3, \A j \in DOMAIN C.args : C.args[j] \in 1 .. Len(nodes) + 2,
         A.kind # "var", B.kind \notin {"var", "gather", "scatter"}, C.kind # "var",
         A.kind \in {"gather", "scatter"} => Len(A.args) >= 2 /\ A.args[2] \in OfKind("load"),
         C.kind \in {"gather", "scatter"} => Len(C.args) >= 2 /\ C.args[2] \in OfKind("load")
  PROVE  CanFollow(<<A, B, C>>)
<1> DEFINE new == <<A, B, C>>
<1>1. /\ new \in Seq(NodeRecord) /\ DOMAIN new = {1, 2, 3}
      /\ new[1] = A /\ new[2] = B /\ new[3] = C
  OBVIOUS
<1>2. Len(nodes) \in Nat
  BY DEF NodesOK
<1> HIDE DEF new
<1>3. ASSUME NEW k \in DOMAIN new
      PROVE  /\ Len(new[k].args) <= 3
             /\ \A j \in DOMAIN new[k].args : new[k].args[j] \in 1 .. Len(nodes) + k - 1
             /\ new[k].kind = "var" => new[k].args = <<>>
             /\ new[k].kind \in {"gather", "scatter"} =>
                  Len(new[k].args) >= 2 /\ new[k].args[2] \in OfKind("load")
  <2>1. CASE k = 1
    <3>1. new[k] = A /\ Len(nodes) + k - 1 = Len(nodes)
      BY <1>1, <1>2, <2>1
    <3> QED BY <3>1
  <2>2. CASE k = 2
    <3>1. new[k] = B /\ Len(nodes) + k - 1 = Len(nodes) + 1
      BY <1>1, <1>2, <2>2
    <3> QED BY <3>1
  <2>3. CASE k = 3
    <3>1. new[k] = C /\ Len(nodes) + k - 1 = Len(nodes) + 2
      BY <1>1, <1>2, <2>3
    <3> QED BY <3>1
  <2> QED BY <1>1, <2>1, <2>2, <2>3
<1>4. CanFollow(new)
  BY <1>1, <1>3 DEF CanFollow
<1> QED BY <1>4 DEF new

LEMMA CreateThree ==
  ASSUME NodesOK, CountOK, NEW A, NEW B, NEW C, CanFollow(<<A, B, C>>), Create(<<A, B, C>>)
  PROVE  /\ NewNode \in Nat \ {0} /\ DOMAIN nodes = 1 .. NewNode - 1
         /\ DOMAIN nodes' = DOMAIN nodes \cup {NewNode, NewNode + 1, NewNode + 2}
         /\ nodes'[NewNode] = A /\ nodes'[NewNode + 1] = B /\ nodes'[NewNode + 2] = C
         /\ \A n \in DOMAIN nodes : nodes'[n] = nodes[n]
         /\ \A n : UsesOf(nodes', n) = {} <=>
              UsesOf(nodes, n) = {} /\ n \notin Operands(A) /\ n \notin Operands(B) /\ n \notin Operands(C)
         /\ \A kind : OfKind(kind)' = OfKind(kind) \cup (IF A.kind = kind THEN {NewNode} ELSE {})
                                        \cup (IF B.kind = kind THEN {NewNode + 1} ELSE {})
                                        \cup (IF C.kind = kind THEN {NewNode + 2} ELSE {})
         /\ IndexNodes' = IndexNodes \cup IndexOf(A) \cup IndexOf(B) \cup IndexOf(C)
         /\ NodesOK' /\ CountOK'
<1> DEFINE new == <<A, B, C>>
<1>1. Len(new) = 3 /\ DOMAIN new = {1, 2, 3} /\ new[1] = A /\ new[2] = B /\ new[3] = C
  OBVIOUS
<1> HIDE DEF new
<1>2. CanFollow(new) /\ Create(new)
  BY DEF new
<1>3. /\ Len(nodes) \in Nat /\ DOMAIN nodes = 1 .. Len(nodes)
      /\ DOMAIN nodes' = 1 .. Len(nodes) + 3
      /\ \A n \in DOMAIN nodes : nodes'[n] = nodes[n]
      /\ \A k \in DOMAIN new : Len(nodes) + k \in DOMAIN nodes' /\ nodes'[Len(nodes) + k] = new[k]
      /\ \A n : UsesOf(nodes', n) = {} <=> UsesOf(nodes, n) = {} /\ UsesOf(new, n) = {}
      /\ NodesOK' /\ CountOK'
  BY <1>1, <1>2, CreateKeeps
<1>4. ASSUME NEW n
      PROVE  UsesOf(new, n) = {} <=> n \notin Operands(A) /\ n \notin Operands(B) /\ n \notin Operands(C)
  <2>1. ASSUME NEW u \in UsesOf(new, n) PROVE n \in Operands(A) \cup Operands(B) \cup Operands(C)
    <3>1. PICK m \in DOMAIN new : \E j \in DOMAIN new[m].args : u = <<m, j>> /\ new[m].args[j] = n
      BY UsesAre
    <3>2. n \in Operands(new[m])
      BY <3>1 DEF Operands
    <3>3. new[m] \in {A, B, C}
      BY <1>1
    <3> QED BY <3>2, <3>3
  <2>2. ASSUME NEW m \in DOMAIN new, n \in Operands(new[m]) PROVE UsesOf(new, n) # {}
    <3>1. PICK j \in DOMAIN new[m].args : new[m].args[j] = n
      BY <2>2 DEF Operands
    <3>2. <<m, j>> \in UsesOf(new, n)
      BY <3>1, UsesAre
    <3> QED BY <3>2
  <2> QED BY <1>1, <2>1, <2>2
<1>5. /\ IndexNodes' = IndexNodes \cup
            {new[k].args[2] : k \in {m \in DOMAIN new : new[m].kind \in {"gather", "scatter"}}}
      /\ \A kind : OfKind(kind)' = OfKind(kind) \cup
            {Len(nodes) + k : k \in {m \in DOMAIN new : new[m].kind = kind}}
  BY <1>2, IndexNodesGrow
<1>6. {new[k].args[2] : k \in {m \in DOMAIN new : new[m].kind \in {"gather", "scatter"}}} =
        IndexOf(A) \cup IndexOf(B) \cup IndexOf(C)
  BY <1>1 DEF IndexOf
<1>7. ASSUME NEW kind
      PROVE  {Len(nodes) + k : k \in {m \in DOMAIN new : new[m].kind = kind}} =
                (IF A.kind = kind THEN {Len(nodes) + 1} ELSE {})
                  \cup (IF B.kind = kind THEN {Len(nodes) + 1 + 1} ELSE {})
                  \cup (IF C.kind = kind THEN {Len(nodes) + 1 + 2} ELSE {})
  BY <1>1, <1>3
<1>8. /\ NewNode \in Nat \ {0} /\ DOMAIN nodes = 1 .. NewNode - 1
      /\ DOMAIN nodes' = DOMAIN nodes \cup {NewNode, NewNode + 1, NewNode + 2}
      /\ nodes'[NewNode] = A /\ nodes'[NewNode + 1] = B /\ nodes'[NewNode + 2] = C
  <2>1. NewNode = Len(nodes) + 1 /\ NewNode + 1 = Len(nodes) + 2 /\ NewNode + 2 = Len(nodes) + 3
    BY <1>3 DEF NewNode
  <2> QED BY <1>1, <1>3, <2>1
<1>9. \A kind : OfKind(kind)' = OfKind(kind) \cup (IF A.kind = kind THEN {NewNode} ELSE {})
                                  \cup (IF B.kind = kind THEN {NewNode + 1} ELSE {})
                                  \cup (IF C.kind = kind THEN {NewNode + 2} ELSE {})
  BY <1>5, <1>7 DEF NewNode
<1> QED BY <1>3, <1>4, <1>5, <1>6, <1>8, <1>9

(* What the end of the data finds: y, its index and the data, and nothing  *)
(* else that nobody uses.                                                  *)
LEMMA AtData ==
  ASSUME ParseInv, Return, Caller.at = "data", IndexKind \in {"load", "var"}
  PROVE  /\ NodesOK /\ CountOK /\ UsageOK /\ DeclsOK /\ root_node = 0
         /\ nodes \in Seq(NodeRecord) /\ DOMAIN nodes = 1 .. Len(nodes) /\ Len(nodes) \in Nat
         /\ Caller.addr \in DOMAIN nodes /\ Caller.index \in DOMAIN nodes /\ result \in DOMAIN nodes
         /\ nodes[Caller.addr] \in NodeRecord /\ nodes[Caller.index] \in NodeRecord
         /\ IndexKind = nodes[Caller.index].kind
         /\ Callers = <<>>
         /\ \A n \in DOMAIN nodes : Loose(n) => n \in {Caller.addr, Caller.index, result}
<1>1. /\ NodesOK /\ CountOK /\ StackOK /\ LooseOK /\ UsageOK /\ DeclsOK /\ root_node = 0
      /\ pc = "return" /\ result \in DOMAIN nodes /\ stack # <<>> /\ InExpr
  BY DEF ParseInv, Return, RootOK, StackOK, HasNode, InExpr
<1>2. nodes \in Seq(NodeRecord) /\ DOMAIN nodes = 1 .. Len(nodes) /\ Len(nodes) \in Nat
  BY <1>1 DEF NodesOK
<1>3. /\ Caller \in Frame /\ Held(Caller) \subseteq DOMAIN nodes /\ Len(stack) = 1 /\ Callers = <<>>
      /\ Caller = stack[Len(stack)] /\ DOMAIN stack = 1 .. Len(stack)
  BY <1>1, StackPop
<1>4. Held(Caller) = {Caller.addr, Caller.index} \ {0}
  BY DEF Held
<1>5. Caller.index # 0 /\ IndexKind = nodes[Caller.index].kind
  BY DEF IndexKind
<1>6. Caller.addr # 0
  BY <1>1, <1>3 DEF StackOK
<1>7. Caller.addr \in DOMAIN nodes /\ Caller.index \in DOMAIN nodes
  BY <1>3, <1>4, <1>5, <1>6
<1>8. ASSUME NEW n \in DOMAIN nodes, Loose(n) PROVE n \in {Caller.addr, Caller.index, result}
  <2>1. n \in Kept
    BY <1>1, <1>8 DEF LooseOK
  <2>2. n = result \/ \E k \in DOMAIN stack : n \in Held(stack[k])
    BY <2>1, KeptAre
  <2>3. \A k \in DOMAIN stack : stack[k] = Caller
    BY <1>3
  <2> QED BY <1>4, <2>2, <2>3
<1> QED BY <1>1, <1>2, <1>3, <1>5, <1>7, <1>8

(* The three nodes make a tree of what was read: the write is the root,    *)
(* and all that was loose is used.                                         *)
LEMMA RootedTree ==
  ASSUME NodesOK, CountOK, NEW A, NEW B, NEW C, CanFollow(<<A, B, C>>), Create(<<A, B, C>>),
         root_node' = NewNode + 2,
         NewNode \in Operands(B), NewNode + 1 \in Operands(C), \A n \in Operands(C) : n # NewNode + 2,
         \A n \in Operands(A) \cup Operands(B) : n # NewNode + 2,
         \A n \in DOMAIN nodes : Loose(n) => n \in Operands(A) \cup Operands(B) \cup Operands(C)
  PROVE  ParsedTree'
<1>1. /\ NewNode \in Nat \ {0} /\ DOMAIN nodes = 1 .. NewNode - 1
      /\ DOMAIN nodes' = DOMAIN nodes \cup {NewNode, NewNode + 1, NewNode + 2}
      /\ \A n \in DOMAIN nodes : nodes'[n] = nodes[n]
      /\ \A n : UsesOf(nodes', n) = {} <=>
           UsesOf(nodes, n) = {} /\ n \notin Operands(A) /\ n \notin Operands(B) /\ n \notin Operands(C)
      /\ NodesOK' /\ CountOK'
  BY CreateThree
<1>2. UsesOf(nodes', root_node') = {}
  <2>1. ASSUME NEW u \in UsesOf(nodes, root_node') PROVE FALSE
    <3>1. PICK m \in DOMAIN nodes : \E j \in DOMAIN nodes[m].args : nodes[m].args[j] = root_node'
      BY UsesAre
    <3>2. root_node' \in 1 .. m - 1
      BY <3>1 DEF NodesOK, Args
    <3> QED BY <1>1, <3>1, <3>2
  <2>2. UsesOf(nodes, root_node') = {}
    BY <2>1
  <2> QED BY <1>1, <2>2
<1>3. ASSUME NEW n \in DOMAIN nodes', n # root_node', Args(n)' # <<>>
      PROVE  UsesOf(nodes', n) # {}
  <2>1. CASE n \in DOMAIN nodes
    <3>1. Args(n)' = Args(n)
      BY <1>1, <2>1 DEF Args
    <3>2. ASSUME Loose(n) PROVE n \in Operands(A) \cup Operands(B) \cup Operands(C)
      BY <2>1, <3>2
    <3> QED BY <1>1, <1>3, <3>1, <3>2 DEF Loose
  <2>2. CASE n \in {NewNode, NewNode + 1}
    BY <1>1, <2>2
  <2> QED BY <1>1, <1>3, <2>1, <2>2
<1>4. TreeShape'
  BY <1>1, <1>2, <1>3 DEF TreeShape, NodesOK
<1> QED BY <1>1, <1>4 DEF ParsedTree, CountOK

(* The reads are the nodes of a kind that are neither indices nor the read *)
(* of y.                                                                   *)
LEMMA ReadsAre == \A kind : Reads(kind) = (OfKind(kind) \ IndexNodes) \ {OwnRead}
  BY DEF Reads, OfKind

(* y[r[i]] += data.                                                        *)
LEMMA ReduceStep ==
  ASSUME ParseInv, Return, Caller.at = "data", IndexKind = "load", ReduceThenScatter, UNCHANGED decls
  PROVE  NodesOK' /\ CountOK' /\ root_node' # 0 /\ ParsedTree' /\ UsageMatchesTree'
<1>1. /\ NodesOK /\ CountOK /\ UsageOK /\ DeclsOK /\ root_node = 0
      /\ nodes \in Seq(NodeRecord) /\ DOMAIN nodes = 1 .. Len(nodes) /\ Len(nodes) \in Nat
      /\ Caller.addr \in DOMAIN nodes /\ Caller.index \in DOMAIN nodes /\ result \in DOMAIN nodes
      /\ nodes[Caller.addr] \in NodeRecord /\ nodes[Caller.index] \in NodeRecord
      /\ nodes[Caller.index].kind = "load"
      /\ \A n \in DOMAIN nodes : Loose(n) => n \in {Caller.addr, Caller.index, result}
  BY AtData
<1> DEFINE addr == Caller.addr
           i    == Caller.index
           name == nodes[i].addr_name
           type == Pointee(nodes[addr].type)
           A == GatherNode(addr, i, output_name)
           B == BinaryNode("+", NewNode, result, type, output_name, name)
           C == ScatterNode(addr, i, NewNode + 1, output_name)
<1>2. /\ Create(<<A, B, C>>) /\ root_node' = NewNode + 2
      /\ reduction_set' = reduction_set \cup {name} /\ scatter_set' = scatter_set \cup {name}
      /\ load_set' = load_set \ {name} /\ gather_set' = gather_set
  BY DEF ReduceThenScatter, LoadsWithout
<1>3. NewNode = Len(nodes) + 1
  BY DEF NewNode
<1>4. type \in TypeRecord /\ name \in Name /\ output_name \in Name /\ "" \in Name
  BY <1>1 DEF NodeRecord, TypeRecord, Pointee, DeclsOK, Name
<1>5. /\ A \in NodeRecord /\ A.kind = "gather" /\ A.args = <<addr, i>> /\ A.index_name = name
      /\ B \in NodeRecord /\ B.kind = "+" /\ B.args = <<NewNode, result>>
      /\ C \in NodeRecord /\ C.kind = "scatter" /\ C.args = <<addr, i, NewNode + 1>> /\ C.index_name = name
  <2>1. /\ <<addr, i>> \in Seq(Nat) /\ <<NewNode, result>> \in Seq(Nat)
        /\ <<addr, i, NewNode + 1>> \in Seq(Nat)
    BY <1>1, <1>3
  <2>2. A \in NodeRecord /\ A.kind = "gather" /\ A.args = <<addr, i>> /\ A.index_name = name
    BY <1>4, <2>1 DEF GatherNode, Node, NodeRecord, Kind
  <2>3. B \in NodeRecord /\ B.kind = "+" /\ B.args = <<NewNode, result>>
    BY <1>4, <2>1 DEF BinaryNode, Node, NodeRecord, Kind, Operators
  <2>4. C \in NodeRecord /\ C.kind = "scatter" /\ C.args = <<addr, i, NewNode + 1>> /\ C.index_name = name
    BY <1>4, <2>1 DEF ScatterNode, Node, NodeRecord, Kind
  <2> QED BY <2>2, <2>3, <2>4
<1> HIDE DEF A, B, C, type
<1>6. CanFollow(<<A, B, C>>)
  <2>1. /\ Len(A.args) = 2 /\ \A j \in DOMAIN A.args : A.args[j] \in 1 .. Len(nodes)
        /\ A.args[2] \in OfKind("load")
    BY <1>1, <1>5 DEF OfKind
  <2>2. Len(B.args) = 2 /\ \A j \in DOMAIN B.args : B.args[j] \in 1 .. Len(nodes) + 1
    BY <1>1, <1>3, <1>5
  <2>3. /\ Len(C.args) = 3 /\ \A j \in DOMAIN C.args : C.args[j] \in 1 .. Len(nodes) + 2
        /\ C.args[2] \in OfKind("load")
    BY <1>1, <1>3, <1>5 DEF OfKind
  <2>4. /\ Len(A.args) <= 3 /\ Len(A.args) >= 2 /\ Len(B.args) <= 3 /\ Len(C.args) <= 3 /\ Len(C.args) >= 2
        /\ A.kind # "var" /\ B.kind \notin {"var", "gather", "scatter"} /\ C.kind # "var"
    BY <1>5, <2>1, <2>2, <2>3
  <2>5. A \in NodeRecord /\ B \in NodeRecord /\ C \in NodeRecord
    BY <1>5
  <2> QED BY <1>1, <2>1, <2>2, <2>3, <2>4, <2>5, ThreeFollow
<1>7. Operands(A) = {addr, i} /\ Operands(B) = {NewNode, result} /\ Operands(C) = {addr, i, NewNode + 1}
  BY <1>5, OperandsAre
<1>8. ParsedTree'
  <2>1. /\ \A n \in Operands(C) : n # NewNode + 2
        /\ \A n \in Operands(A) \cup Operands(B) : n # NewNode + 2
    BY <1>1, <1>3, <1>7
  <2> QED BY <1>1, <1>2, <1>6, <1>7, <2>1, RootedTree
<1>9. /\ nodes'[NewNode] = A /\ nodes'[NewNode + 1] = B /\ nodes'[NewNode + 2] = C
      /\ \A n \in DOMAIN nodes : nodes'[n] = nodes[n]
      /\ \A kind : OfKind(kind)' = OfKind(kind) \cup (IF A.kind = kind THEN {NewNode} ELSE {})
                                     \cup (IF B.kind = kind THEN {NewNode + 1} ELSE {})
                                     \cup (IF C.kind = kind THEN {NewNode + 2} ELSE {})
      /\ IndexNodes' = IndexNodes \cup IndexOf(A) \cup IndexOf(B) \cup IndexOf(C)
      /\ NodesOK' /\ CountOK'
  BY <1>1, <1>2, <1>6, CreateThree
<1>10. /\ OfKind("load")' = OfKind("load") /\ OfKind("gather")' = OfKind("gather") \cup {NewNode}
       /\ IndexNodes' = IndexNodes \cup {i}
  <2>1. IndexOf(A) = {i} /\ IndexOf(B) = {} /\ IndexOf(C) = {i}
    BY <1>5 DEF IndexOf
  <2> QED BY <1>5, <1>9, <2>1
<1>11. OwnRead' = NewNode
  <2>1. nodes'[root_node'].args = <<addr, i, NewNode + 1>>
    BY <1>2, <1>5, <1>9
  <2>2. Last(<<addr, i, NewNode + 1>>) = NewNode + 1
    BY DEF Last
  <2>3. nodes'[NewNode + 1].args[1] = NewNode
    BY <1>5, <1>9
  <2> QED BY <2>1, <2>2, <2>3 DEF OwnRead
<1>12. /\ IndexNodes \subseteq OfKind("load") /\ i \in OfKind("load")
       /\ \A kind : OfKind(kind) \subseteq DOMAIN nodes
       /\ NewNode \notin DOMAIN nodes
  BY <1>1, <1>3, IndexNodesAre DEF OfKind
<1>13. /\ Reads("load")' = OfKind("load") \ (IndexNodes \cup {i})
       /\ Reads("gather")' = OfKind("gather")
  <2>1. \A kind : Reads(kind)' = (OfKind(kind)' \ IndexNodes') \ {OwnRead'}
    BY DEF Reads, OfKind
  <2>2. OfKind("gather") \cap OfKind("load") = {}
    BY DEF OfKind
  <2> QED BY <1>10, <1>11, <1>12, <2>1, <2>2
<1>14. UsageMatchesTree'
  <2> SUFFICES ASSUME DataArrays' \cap IndexArrays' = {}
               PROVE  /\ load_set' = {nodes'[n].addr_name : n \in Reads("load")'}
                      /\ gather_set' = {nodes'[n].index_name : n \in Reads("gather")'}
                      /\ scatter_set' = reduction_set'
                      /\ scatter_set' = {nodes'[n].index_name :
                                           n \in {m \in {root_node'} : nodes'[m].kind = "scatter"}}
    BY DEF UsageMatchesTree
  <2>1. \A n \in Reads("load")' : nodes'[n].addr_name \in DataArrays'
    BY DEF DataArrays
  <2>2. name \in IndexArrays' /\ IndexArrays \subseteq IndexArrays'
    <3>1. IndexArrays' = {nodes'[n].addr_name : n \in IndexNodes \cup {i}}
      BY <1>10 DEF IndexArrays
    <3>2. i \in IndexNodes \cup {i} /\ nodes'[i].addr_name = name
      BY <1>1, <1>9
    <3>3. \A n \in IndexNodes : nodes'[n] = nodes[n]
      BY <1>9, <1>12
    <3> QED BY <3>1, <3>2, <3>3 DEF IndexArrays
  <2>3. load_set' = {nodes'[n].addr_name : n \in Reads("load")'}
    <3>1. ASSUME NEW a \in load_set' PROVE \E n \in Reads("load")' : nodes'[n].addr_name = a
      <4>1. PICK n \in OfKind("load") \ IndexNodes : nodes[n].addr_name = a
        BY <1>1, <1>2, <3>1 DEF UsageOK
      <4>2. n # i
        BY <1>2, <3>1, <4>1
      <4> QED BY <1>9, <1>12, <1>13, <4>1, <4>2
    <3>2. ASSUME NEW n \in Reads("load")' PROVE nodes'[n].addr_name \in load_set'
      <4>1. n \in OfKind("load") \ IndexNodes /\ nodes'[n] = nodes[n]
        BY <1>9, <1>12, <1>13
      <4>2. nodes[n].addr_name \in load_set \cup IndexArrays
        BY <1>1, <4>1 DEF UsageOK
      <4>3. nodes[n].addr_name \notin IndexArrays'
        BY <2>1, <4>1
      <4> QED BY <1>2, <2>2, <4>2, <4>1, <4>3
    <3> QED BY <3>1, <3>2
  <2>4. gather_set' = {nodes'[n].index_name : n \in Reads("gather")'}
    <3>1. gather_set = {nodes[n].index_name : n \in OfKind("gather")}
      BY <1>1 DEF UsageOK
    <3> QED BY <1>2, <1>9, <1>12, <1>13, <3>1
  <2>5. scatter_set' = {name} /\ reduction_set' = {name}
    BY <1>1, <1>2 DEF UsageOK
  <2>6. nodes'[root_node'].kind = "scatter" /\ nodes'[root_node'].index_name = name
    BY <1>2, <1>5, <1>9
  <2> QED BY <2>3, <2>4, <2>5, <2>6
<1> QED BY <1>2, <1>3, <1>1, <1>8, <1>9, <1>14

(* y[i] += data.                                                           *)
LEMMA StoreStep ==
  ASSUME ParseInv, Return, Caller.at = "data", IndexKind = "var", AddThenStore, UNCHANGED decls
  PROVE  NodesOK' /\ CountOK' /\ root_node' # 0 /\ ParsedTree' /\ UsageMatchesTree'
<1>1. /\ NodesOK /\ CountOK /\ UsageOK /\ DeclsOK /\ root_node = 0
      /\ nodes \in Seq(NodeRecord) /\ DOMAIN nodes = 1 .. Len(nodes) /\ Len(nodes) \in Nat
      /\ Caller.addr \in DOMAIN nodes /\ Caller.index \in DOMAIN nodes /\ result \in DOMAIN nodes
      /\ nodes[Caller.addr] \in NodeRecord /\ nodes[Caller.index] \in NodeRecord
      /\ nodes[Caller.index].kind = "var"
      /\ \A n \in DOMAIN nodes : Loose(n) => n \in {Caller.addr, Caller.index, result}
  BY AtData
<1> DEFINE addr == Caller.addr
           i    == Caller.index
           type == Pointee(nodes[addr].type)
           A == LoadNode(addr, i, output_name)
           B == BinaryNode("+", NewNode, result, type, nodes[i].node_name, "")
           C == StoreNode(addr, NewNode + 1, output_name)
<1>2. /\ Create(<<A, B, C>>) /\ root_node' = NewNode + 2
      /\ UNCHANGED <<load_set, gather_set, scatter_set, reduction_set>>
  BY DEF AddThenStore, usage
<1>3. NewNode = Len(nodes) + 1
  BY DEF NewNode
<1>4. type \in TypeRecord /\ nodes[i].node_name \in Name /\ output_name \in Name /\ "" \in Name
  BY <1>1 DEF NodeRecord, TypeRecord, Pointee, DeclsOK, Name
<1>5. /\ A \in NodeRecord /\ A.kind = "load" /\ A.args = <<addr>>
      /\ B \in NodeRecord /\ B.kind = "+" /\ B.args = <<NewNode, result>>
      /\ C \in NodeRecord /\ C.kind = "store" /\ C.args = <<addr, NewNode + 1>>
  <2>1. /\ <<addr>> \in Seq(Nat) /\ <<NewNode, result>> \in Seq(Nat)
        /\ <<addr, NewNode + 1>> \in Seq(Nat)
    BY <1>1, <1>3
  <2>2. A \in NodeRecord /\ A.kind = "load" /\ A.args = <<addr>>
    BY <1>4, <2>1 DEF LoadNode, Node, NodeRecord, Kind
  <2>3. B \in NodeRecord /\ B.kind = "+" /\ B.args = <<NewNode, result>>
    BY <1>4, <2>1 DEF BinaryNode, Node, NodeRecord, Kind, Operators
  <2>4. C \in NodeRecord /\ C.kind = "store" /\ C.args = <<addr, NewNode + 1>>
    BY <1>4, <2>1 DEF StoreNode, Node, NodeRecord, Kind
  <2> QED BY <2>2, <2>3, <2>4
<1> HIDE DEF A, B, C, type
<1>6. CanFollow(<<A, B, C>>)
  <2>1. Len(A.args) = 1 /\ \A j \in DOMAIN A.args : A.args[j] \in 1 .. Len(nodes)
    BY <1>1, <1>5
  <2>2. Len(B.args) = 2 /\ \A j \in DOMAIN B.args : B.args[j] \in 1 .. Len(nodes) + 1
    BY <1>1, <1>3, <1>5
  <2>3. Len(C.args) = 2 /\ \A j \in DOMAIN C.args : C.args[j] \in 1 .. Len(nodes) + 2
    BY <1>1, <1>3, <1>5
  <2>4. /\ Len(A.args) <= 3 /\ Len(B.args) <= 3 /\ Len(C.args) <= 3
        /\ A.kind \notin {"var", "gather", "scatter"} /\ B.kind \notin {"var", "gather", "scatter"}
        /\ C.kind \notin {"var", "gather", "scatter"}
    BY <1>5, <2>1, <2>2, <2>3
  <2>5. A \in NodeRecord /\ B \in NodeRecord /\ C \in NodeRecord
    BY <1>5
  <2> QED BY <1>1, <2>1, <2>2, <2>3, <2>4, <2>5, ThreeFollow
<1>7. Operands(A) = {addr} /\ Operands(B) = {NewNode, result} /\ Operands(C) = {addr, NewNode + 1}
  BY <1>5, OperandsAre
<1>8. ParsedTree'
  <2>1. /\ \A n \in Operands(C) : n # NewNode + 2
        /\ \A n \in Operands(A) \cup Operands(B) : n # NewNode + 2
    BY <1>1, <1>3, <1>7
  <2>2. ~ Loose(i)
    BY <1>1 DEF Loose, NodesOK
  <2>3. \A n \in DOMAIN nodes : Loose(n) => n \in Operands(A) \cup Operands(B) \cup Operands(C)
    BY <1>1, <1>7, <2>2
  <2> QED BY <1>1, <1>2, <1>6, <1>7, <2>1, <2>3, RootedTree
<1>9. /\ nodes'[NewNode] = A /\ nodes'[NewNode + 1] = B /\ nodes'[NewNode + 2] = C
      /\ \A n \in DOMAIN nodes : nodes'[n] = nodes[n]
      /\ \A kind : OfKind(kind)' = OfKind(kind) \cup (IF A.kind = kind THEN {NewNode} ELSE {})
                                     \cup (IF B.kind = kind THEN {NewNode + 1} ELSE {})
                                     \cup (IF C.kind = kind THEN {NewNode + 2} ELSE {})
      /\ IndexNodes' = IndexNodes \cup IndexOf(A) \cup IndexOf(B) \cup IndexOf(C)
      /\ NodesOK' /\ CountOK'
  BY <1>1, <1>2, <1>6, CreateThree
<1>10. /\ OfKind("load")' = OfKind("load") \cup {NewNode} /\ OfKind("gather")' = OfKind("gather")
       /\ IndexNodes' = IndexNodes
  <2>1. IndexOf(A) = {} /\ IndexOf(B) = {} /\ IndexOf(C) = {}
    BY <1>5 DEF IndexOf
  <2> QED BY <1>5, <1>9, <2>1
<1>11. OwnRead' = NewNode
  <2>1. nodes'[root_node'].args = <<addr, NewNode + 1>>
    BY <1>2, <1>5, <1>9
  <2>2. Last(<<addr, NewNode + 1>>) = NewNode + 1
    BY DEF Last
  <2>3. nodes'[NewNode + 1].args[1] = NewNode
    BY <1>5, <1>9
  <2> QED BY <2>1, <2>2, <2>3 DEF OwnRead
<1>12. /\ IndexNodes \subseteq OfKind("load")
       /\ \A kind : OfKind(kind) \subseteq DOMAIN nodes
       /\ NewNode \notin DOMAIN nodes
  BY <1>1, <1>3, IndexNodesAre DEF OfKind
<1>13. /\ Reads("load")' = OfKind("load") \ IndexNodes
       /\ Reads("gather")' = OfKind("gather")
  <2>1. \A kind : Reads(kind)' = (OfKind(kind)' \ IndexNodes') \ {OwnRead'}
    BY DEF Reads, OfKind
  <2>2. OfKind("gather") \cap OfKind("load") = {}
    BY DEF OfKind
  <2> QED BY <1>10, <1>11, <1>12, <2>1, <2>2
<1>14. UsageMatchesTree'
  <2> SUFFICES ASSUME DataArrays' \cap IndexArrays' = {}
               PROVE  /\ load_set' = {nodes'[n].addr_name : n \in Reads("load")'}
                      /\ gather_set' = {nodes'[n].index_name : n \in Reads("gather")'}
                      /\ scatter_set' = reduction_set'
                      /\ scatter_set' = {nodes'[n].index_name :
                                           n \in {m \in {root_node'} : nodes'[m].kind = "scatter"}}
    BY DEF UsageMatchesTree
  <2>1. \A n \in Reads("load")' : nodes'[n].addr_name \in DataArrays'
    BY DEF DataArrays
  <2>2. IndexArrays' = IndexArrays
    <3>1. IndexArrays' = {nodes'[n].addr_name : n \in IndexNodes}
      BY <1>10 DEF IndexArrays
    <3>2. \A n \in IndexNodes : nodes'[n] = nodes[n]
      BY <1>9, <1>12
    <3> QED BY <3>1, <3>2 DEF IndexArrays
  <2>3. load_set' = {nodes'[n].addr_name : n \in Reads("load")'}
    <3>1. ASSUME NEW a \in load_set' PROVE \E n \in Reads("load")' : nodes'[n].addr_name = a
      <4>1. PICK n \in OfKind("load") \ IndexNodes : nodes[n].addr_name = a
        BY <1>1, <1>2, <3>1 DEF UsageOK
      <4> QED BY <1>9, <1>12, <1>13, <4>1
    <3>2. ASSUME NEW n \in Reads("load")' PROVE nodes'[n].addr_name \in load_set'
      <4>1. n \in OfKind("load") \ IndexNodes /\ nodes'[n] = nodes[n]
        BY <1>9, <1>12, <1>13
      <4>2. nodes[n].addr_name \in load_set \cup IndexArrays
        BY <1>1, <4>1 DEF UsageOK
      <4> QED BY <1>2, <2>1, <2>2, <4>1, <4>2
    <3> QED BY <3>1, <3>2
  <2>4. gather_set' = {nodes'[n].index_name : n \in Reads("gather")'}
    <3>1. gather_set = {nodes[n].index_name : n \in OfKind("gather")}
      BY <1>1 DEF UsageOK
    <3> QED BY <1>2, <1>9, <1>12, <1>13, <3>1
  <2>5. scatter_set' = {} /\ reduction_set' = {}
    BY <1>1, <1>2 DEF UsageOK
  <2>6. nodes'[root_node'].kind # "scatter"
    BY <1>2, <1>5, <1>9
  <2>7. {nodes'[n].index_name : n \in {m \in {root_node'} : nodes'[m].kind = "scatter"}} = {}
    BY <2>6
  <2> QED BY <2>3, <2>4, <2>5, <2>7
<1> QED BY <1>2, <1>3, <1>1, <1>8, <1>9, <1>14

(* The data is read: the assignment is made, or the process stops.         *)
LEMMA EndDataStep ==
  ASSUME ParseInv, DeclsOK', EndData
  PROVE  ParseInv'
<1>1. root_node = 0 /\ Return /\ Caller.at = "data"
  BY DEF ParseInv, EndData, Return, RootOK
<1>2. CASE Stop("fatal") \/ Stop("crash")
  BY <1>1, <1>2, StopKeeps
<1>3. CASE ~ Stop("fatal") /\ ~ Stop("crash")
  <2>1. /\ (IndexKind = "load" /\ ReduceThenScatter) \/ (IndexKind = "var" /\ AddThenStore)
        /\ pc' = "parsed" /\ stack' = Callers
        /\ UNCHANGED <<result, decls>>
    <3>1. Stop(IF IndexKind = "load" THEN "crash" ELSE "fatal") => Stop("fatal") \/ Stop("crash")
      OBVIOUS
    <3> QED BY <1>3, <3>1 DEF EndData
  <2>2. NodesOK' /\ CountOK' /\ root_node' # 0 /\ ParsedTree' /\ UsageMatchesTree'
    BY <1>1, <2>1, ReduceStep, StoreStep
  <2>3. Callers = <<>>
    BY <1>1, <2>1, AtData
  <2>4. StackOK'
    BY <2>1, <2>3 DEF ParseInv, StackOK, HasNode, InExpr
  <2>5. LooseOK' /\ UsageOK' /\ RootOK'
    BY <2>1, <2>2 DEF LooseOK, InExpr, UsageOK, RootOK
  <2> QED BY <2>2, <2>4, <2>5 DEF ParseInv
<1> QED BY <1>2, <1>3

-----------------------------------------------------------------------------
(* A new ParseClass: no nodes, nobody waits, nothing is used.              *)
LEMMA ParserStarts == ParserStart => ParseInv
<1> SUFFICES ASSUME ParserStart PROVE ParseInv
  OBVIOUS
<1>1. /\ nodes = <<>> /\ need_node = <<>> /\ root_node = 0 /\ stack = <<>> /\ result = 0 /\ pc = "start"
      /\ load_set = {} /\ gather_set = {} /\ scatter_set = {} /\ reduction_set = {}
  BY DEF ParserStart, NoNodes
<1>2. DeclsOK
  <2>1. /\ name_type_map = <<>> /\ iterates_set = {} /\ output_name = "" /\ output_type = IntType
    BY DEF ParserStart
  <2>2. name_type_map \in Seq(TypeRecord) /\ Len(name_type_map) = 0
    BY <2>1, EmptySeq
  <2>4. DOMAIN name_type_map = {}
    BY <2>2
  <2>3. IntType \in TypeRecord /\ "" \in Name
    BY DEF IntType, TypeRecord, BasicType, Name
  <2> QED BY <2>1, <2>4, <2>3 DEF DeclsOK
<1>3. NodesOK /\ CountOK
  BY <1>1 DEF NodesOK, CountOK
<1>4. StackOK /\ LooseOK /\ RootOK
  BY <1>1 DEF StackOK, LooseOK, RootOK, HasNode, InExpr
<1>5. UsageOK
  <2>1. \A kind : OfKind(kind) = {}
    BY <1>1 DEF OfKind
  <2> QED BY <1>1, <2>1 DEF UsageOK
<1> QED BY <1>2, <1>3, <1>4, <1>5 DEF ParseInv

(* Every step of the parser keeps every part of the invariant.             *)
LEMMA ParserSteps == ParseInv /\ [ParserNext]_parser_vars => ParseInv'
<1> SUFFICES ASSUME ParseInv, [ParserNext]_parser_vars PROVE ParseInv'
  OBVIOUS
<1>1. CASE ParserNext
  <2>1. DeclsOK'
    BY <1>1, DeclsStep DEF ParseInv
  <2> QED BY <1>1, <2>1, SectionStep, ParseExprStep, EndSubscriptStep, EndDataStep, OperandStep,
             EndIndexStep, OperatorStep, EndRightStep DEF ParserNext
<1>2. CASE UNCHANGED parser_vars
  <2>1. UNCHANGED <<stack, result, pc, nodes, need_node, root_node, load_set, gather_set, scatter_set,
                    reduction_set, name_type_map, iterates_set, output_name, output_type>>
    BY <1>2 DEF parser_vars, control, tree, usage, decls
  <2>2. DeclsOK' /\ NodesOK' /\ CountOK'
    BY <2>1 DEF ParseInv, DeclsOK, NodesOK, CountOK, Args, UsesOf
  <2>3. StackOK'
    BY <2>1 DEF ParseInv, StackOK, HasNode, InExpr, Held
  <2>4. LooseOK'
    <3>1. Kept' = Kept /\ InExpr' = InExpr
      BY <2>1 DEF Kept, HasNode, InExpr, Held
    <3>2. \A n : Loose(n)' = Loose(n)
      BY <2>1 DEF Loose, Args, UsesOf
    <3> QED BY <2>1, <3>1, <3>2 DEF ParseInv, LooseOK
  <2>5. UsageOK'
    BY <2>1 DEF ParseInv, UsageOK, OfKind, IndexNodes, IndexArrays
  <2>6. RootOK'
    <3>1. ParsedTree => ParsedTree'
      BY <2>1 DEF ParsedTree, TreeShape, Args, UsesOf
    <3>2. /\ DataArrays' = DataArrays /\ IndexArrays' = IndexArrays
          /\ \A kind : Reads(kind)' = Reads(kind)
      BY <2>1 DEF DataArrays, IndexArrays, IndexNodes, Reads, OwnRead
    <3>3. UsageMatchesTree => UsageMatchesTree'
      BY <2>1, <3>2 DEF UsageMatchesTree
    <3> QED BY <2>1, <3>1, <3>3 DEF ParseInv, RootOK
  <2> QED BY <2>2, <2>3, <2>4, <2>5, <2>6 DEF ParseInv
<1> QED BY <1>1, <1>2

(* The invariant holds of every parse.                                     *)
THEOREM ParserInvariant == ParserSpec => []ParseInv
<1>1. ParserInit => ParseInv
  BY ParserStarts DEF ParserInit
<1> QED BY <1>1, ParserSteps, PTL DEF ParserSpec

(* Whatever the text, a parse that sets a root leaves a tree               *)
(* generate_code_seed is made for: operands older than their users, a root *)
(* nobody uses, no other node with operands unused, and need_node counting *)
(* the uses (parse.cpp, inc_need_node).                                    *)
THEOREM ParsedTreeIsShaped == ParserSpec => []TreeIsParsed
<1>1. ParseInv => TreeIsParsed
  BY DEF ParseInv, RootOK, TreeIsParsed
<1> QED BY <1>1, ParserInvariant, PTL

(* Whatever the text, the sets that say which arrays are loaded, gathered, *)
(* scattered and reduced agree with the tree, when no array is both an     *)
(* index and data, although they are pruned on the way.                    *)
THEOREM ParsedUsageMatches == ParserSpec => []UsageMatchesTree
<1>1. ParseInv => UsageMatchesTree
  BY DEF ParseInv, RootOK, UsageMatchesTree
<1> QED BY <1>1, ParserInvariant, PTL
=============================================================================
