------------------------------- MODULE Nodes --------------------------------
(***************************************************************************)
(* The tree of node.hpp.  A node is its position in nodes; a constructor   *)
(* appends it and counts it as a user of each of its operands, as          *)
(* inc_need_node does.                                                     *)
(***************************************************************************)
EXTENDS Naturals, Sequences, FiniteSets

CONSTANTS
  Names             (* The names a text may use.                           *)

VARIABLES
  nodes,            (* The nodes made so far.                              *)
  need_node,        (* need_node_ of every node.                           *)
  root_node         (* root_node_ptr_; 0 while it is not initialised.      *)

tree == <<nodes, need_node, root_node>>

Node(kind, args, name, addr, idx, type) ==
  [kind |-> kind, args |-> args, node_name |-> name, addr_name |-> addr,
   index_name |-> idx, type |-> type]

BasicType == {"float", "double", "int"}
Operators == {"+", "*", "/"}

(* A node has the name "" where it has none.                               *)
Name == Names \cup {""}
Kind == {"var", "load", "gather", "scatter", "store"} \cup Operators
TypeRecord == [of : BasicType, pointer : BOOLEAN]
NodeRecord ==
  [kind : Kind, args : Seq(Nat), node_name : Name, addr_name : Name, index_name : Name,
   type : TypeRecord]

IntType == [of |-> "int", pointer |-> FALSE]
Pointee(type) == [type EXCEPT !.pointer = FALSE]

VarNode(type, name)     == Node("var", <<>>, name, "", "", type)
GatherNode(a, i, array) ==
  Node("gather", <<a, i>>, nodes[i].addr_name, array, nodes[i].addr_name, Pointee(nodes[a].type))
LoadNode(a, i, array)   ==
  Node("load", <<a>>, nodes[i].node_name, array, nodes[i].node_name, Pointee(nodes[a].type))
ScatterNode(a, i, data, array) ==
  Node("scatter", <<a, i, data>>, "", array, nodes[i].addr_name, Pointee(nodes[a].type))
StoreNode(a, data, array) == Node("store", <<a, data>>, "", array, "", Pointee(nodes[a].type))
BinaryNode(op, l, r, left_type, name, idx) == Node(op, <<l, r>>, name, "", idx, left_type)

Args(n) == nodes[n].args

(* The uses of operands in ns: node m has n as its j-th operand.           *)
UsesOf(ns, n) == {u \in UNION {{m} \X DOMAIN ns[m].args : m \in DOMAIN ns} : ns[u[1]].args[u[2]] = n}

NewNode == Len(nodes) + 1

(* Mutant: a node remembers whether it is used, not how often.             *)
CreateFlagged(new) ==
  /\ nodes' = nodes \o new
  /\ need_node' = [n \in 1 .. Len(nodes) + Len(new) |->
                     IF (n \in DOMAIN nodes /\ need_node[n] = 1) \/ UsesOf(new, n) # {} THEN 1 ELSE 0]

Create(new) ==
  /\ nodes' = nodes \o new
  /\ need_node' = [n \in 1 .. Len(nodes) + Len(new) |->
                     (IF n \in DOMAIN nodes THEN need_node[n] ELSE 0)
                       + Cardinality(UsesOf(new, n))]

NoNodes == nodes = <<>> /\ need_node = <<>> /\ root_node = 0

-----------------------------------------------------------------------------
(* The trees a parse leaves: operands are older than their users, nobody   *)
(* uses the root, every other node that has operands is used, and          *)
(* need_node counts the uses.                                              *)
TreeShape ==
  /\ nodes \in Seq(NodeRecord)
  /\ root_node \in DOMAIN nodes
  /\ UsesOf(nodes, root_node) = {}
  /\ \A n \in DOMAIN nodes :
       /\ Len(Args(n)) <= 3
       /\ \A j \in DOMAIN Args(n) : Args(n)[j] \in 1 .. n - 1
       /\ n # root_node /\ Args(n) # <<>> => UsesOf(nodes, n) # {}

ParsedTree ==
  /\ TreeShape
  /\ need_node = [n \in DOMAIN nodes |-> Cardinality(UsesOf(nodes, n))]
=============================================================================
