------------------------------- MODULE SeedStatements --------------------------
(***************************************************************************)
(* From the tree to the statements of one iteration: the statements that   *)
(* Node2StateMent of node2state.cpp emits, the variables it makes for the  *)
(* function, and FormulationPass, which turns them into vector statements. *)
(*                                                                         *)
(* A variable is named by what it stands for: <<"arg", a>>, <<"VP", a>>    *)
(* and <<"PV", a>> for an argument and its two casts, <<"info", r>>,       *)
(* <<"reduction", r>> and <<"array", d>> for the pointers to the new       *)
(* arrays, <<"node", n>> and <<"form", n>> for a node before and after     *)
(* formulation.                                                            *)
(***************************************************************************)
EXTENDS Statements, TLC, SequencesExt

Variable(type, node, addr, const) ==
  [type |-> type, node_name |-> node, addr_name |-> addr, const |-> const]

IntPtr == Type("int", "SP")
PtrOf(type) == Type(type.of, IF type.pointer THEN "SP" ELSE "S")

-----------------------------------------------------------------------------
(* generate_func: the variables of the function.  types gives the declared *)
(* types of the arguments.                                                 *)
FuncVars(types, arrays, indices, reductions) ==
  [id \in ({"arg", "VP", "PV"} \X DOMAIN types) \cup ({"array"} \X arrays)
            \cup ({"info"} \X indices) \cup ({"reduction"} \X reductions) |->
     CASE id[1] = "arg"   -> Variable(PtrOf(types[id[2]]), id[2], "", TRUE)
       [] id[1] \in {"VP", "PV"} -> Variable(Type(types[id[2]].of, id[1]), id[2], "", TRUE)
       [] id[1] = "array" -> Variable(PtrOf(types[id[2]]), "", "", FALSE)
       [] OTHER           -> Variable(IntPtr, "", "", FALSE)]

(* The variable find_var_from_node_tree makes for node n of ns; taking a   *)
(* load names its variable after the array.                                *)
NodeVar(ns, n) ==
  LET array == ns[ns[n].args[1]].node_name
      type  == PtrOf(ns[n].type)
  IN IF ns[n].kind = "load" THEN Variable(type, array, array, TRUE)
     ELSE Variable(type, ns[n].node_name, "", TRUE)

(* A statement of the seed: it defines res by op from args, or stores.     *)
(* LetStat::make takes the names of the expression.                        *)
SeedStat(op, n, args, node, addr, idx) ==
  [op |-> op, res |-> <<"node", n>>, args |-> args, node_name |-> node,
   addr_name |-> addr, index_name |-> idx, type |-> NoType]

(* What generate_code_seed emits for node n; nothing for a variable that   *)
(* is not an argument, which is an iterate.                                *)
SeedOfNode(ns, arguments, n) ==
  LET node == ns[n]
      V(j) == <<"node", node.args[j]>>
  IN CASE node.kind = "var" /\ node.node_name \notin arguments -> <<>>
       [] node.kind = "var"    -> <<SeedStat("var", n, <<<<"arg", node.node_name>>>>, node.node_name, "", "")>>
       [] node.kind = "gather" -> <<SeedStat("gather", n, <<V(1), V(2)>>, "", node.addr_name, node.index_name)>>
       [] node.kind = "load"   -> <<SeedStat("load", n, <<V(1)>>, "", ns[node.args[1]].node_name, "")>>
       [] node.kind = "+"      -> <<SeedStat("+", n, <<V(1), V(2)>>, node.node_name, "", node.index_name)>>
       [] node.kind \in {"*", "/"} -> <<SeedStat(node.kind, n, <<V(1), V(2)>>, "", "", "")>>
       [] node.kind = "scatter" -> <<SeedStat("scatter", n, <<V(1), V(2), V(3)>>, "", node.addr_name, node.index_name)>>
       [] node.kind = "store"  -> <<SeedStat("store", n, <<V(1), V(2)>>, "", node.addr_name, "")>>

-----------------------------------------------------------------------------
(* FormulationPass: definitions of arguments go, addresses become the      *)
(* vector pointer or the pointers of all lanes, and every definition gets  *)
(* a new variable, of the type of its expression.                          *)
ChangedVar(vs, id) ==
  IF id[1] = "node" /\ <<"form", id[2]>> \in DOMAIN vs THEN <<"form", id[2]>> ELSE id

FormulatedStat(vs, s) ==
  LET Addr(shape) == <<shape, s.addr_name>>
      Changed(j)  == ChangedVar(vs, s.args[j])
      IndexName   == vs[Changed(2)].addr_name
  IN CASE s.op = "gather" ->
            [s EXCEPT !.args = <<Addr("PV"), Changed(2)>>, !.node_name = s.addr_name, !.index_name = IndexName]
       [] s.op = "load"   -> [s EXCEPT !.args = <<Addr("VP")>>, !.node_name = s.addr_name]
       [] s.op = "store"  -> [s EXCEPT !.args = <<Addr("VP"), Changed(2)>>, !.node_name = s.addr_name]
       [] s.op = "scatter" ->
            [s EXCEPT !.args = <<Addr("PV"), Changed(2), Changed(3)>>, !.node_name = s.addr_name,
                      !.index_name = IndexName]
       [] s.op \in BinaryOps -> [s EXCEPT !.args = <<Changed(1), Changed(2)>>]

ExprOf(vs, s) ==
  LET V(j) == Use(s.args[j], vs[s.args[j]].type)
  IN CASE s.op = "gather" -> Gather(V(1), V(2))
       [] s.op = "load"   -> Load(V(1))
       [] s.op = "store"  -> V(2)
       [] s.op \in BinaryOps -> Binary(s.op, V(1), V(2))

(* One statement of pass_(Block); p holds vars and the statements kept.    *)
(* An expression keeps the type it gets here, whatever its operands become.*)
Formulate(p, s) ==
  LET t    == FormulatedStat(p.vars, s)
      id   == <<"form", s.res[2]>>
      type == ExprOf(p.vars, t).type
  IN CASE s.op = "var"                    -> p
       [] s.op \in {"scatter", "store"} -> [p EXCEPT !.seed = Append(@, t)]
       [] OTHER ->
            [seed |-> Append(p.seed, [t EXCEPT !.res = id, !.type = type]),
             vars |-> p.vars @@ (id :> [p.vars[s.res] EXCEPT !.type = type])]
=============================================================================
