------------------------------ MODULE CodeSeed -------------------------------
(***************************************************************************)
(* generate_code_seed of node2state.cpp: the worklist that walks the tree  *)
(* from its root and emits one statement for every node it takes.  The     *)
(* statements are then reversed.  A node joins the queue when the last of  *)
(* its users has found it, so that, read backwards, every operand comes    *)
(* before its users.                                                       *)
(***************************************************************************)
EXTENDS Nodes

VARIABLES
  cal_queue,        (* _cal_queue                                          *)
  top_node,         (* The node taken last; 0 before the first.            *)
  found,            (* How many of its operands have been found.           *)
  emitted           (* The nodes taken, the last one last.                 *)

seed_vars == <<cal_queue, top_node, found, emitted>>

Unfound == top_node # 0 /\ found < Len(Args(top_node))

SeedStart ==
  /\ cal_queue = <<root_node>>
  /\ top_node = 0 /\ found = 0
  /\ emitted = <<>>

TakeNode ==
  /\ ~ Unfound
  /\ cal_queue # <<>>
  /\ top_node' = Head(cal_queue)
  /\ cal_queue' = Tail(cal_queue)
  /\ found' = 0
  /\ emitted' = Append(emitted, Head(cal_queue))
  /\ UNCHANGED tree

(* Mutant: a node joins the queue when its first user finds it.            *)
ReadyWhenFound(n) == need_node[n] >= 1

(* Mutant: the count is looked at before it is decremented.                *)
ReadyBefore(n) == need_node[n] = 0

(* dec_need_node has left no user to wait for.                             *)
Ready(n) == need_node[n] = 1

(* find_var_from_node_tree of the next operand.                            *)
FindVar ==
  /\ Unfound
  /\ LET n == Args(top_node)[found + 1]
     IN /\ need_node' = [need_node EXCEPT ![n] = @ - 1]
        /\ cal_queue' = IF Ready(n) THEN Append(cal_queue, n) ELSE cal_queue
  /\ found' = found + 1
  /\ UNCHANGED <<nodes, root_node, top_node, emitted>>

SeedNext == TakeNode \/ FindVar

SeedDone == ~ Unfound /\ cal_queue = <<>>

(* The nodes of the seed in the order of its statements.                   *)
SeedOrder == [p \in 1 .. Len(emitted) |-> emitted[Len(emitted) + 1 - p]]

-----------------------------------------------------------------------------
SeedInit == ParsedTree /\ SeedStart
SeedSpec == SeedInit /\ [][SeedNext]_<<tree, seed_vars>>

(* No operand is defined after a statement that uses it: whatever node a   *)
(* statement is emitted for, the statements of all its users are already   *)
(* there, to be reversed to after it (find_var_from_node_tree).            *)
OperandsBeforeUse ==
  \A p \in DOMAIN emitted : \A u \in UsesOf(nodes, emitted[p]) :
    \E q \in 1 .. p - 1 : emitted[q] = u[1]

(* No node has two statements, which would define its variable twice, even *)
(* when several users find it (the index and the address of y[r[i]]).      *)
EmittedOnce ==
  \A p, q \in DOMAIN emitted : emitted[p] = emitted[q] => p = q

(* Nothing the expression needs is left out: when the queue is empty, every *)
(* operand of an emitted node has been emitted, so the counts of           *)
(* inc_need_node and dec_need_node met.                                    *)
NothingLeftOut ==
  SeedDone => \A p \in DOMAIN emitted : \A j \in DOMAIN Args(emitted[p]) :
                \E q \in DOMAIN emitted : emitted[q] = Args(emitted[p])[j]
=============================================================================
