------------------------------- MODULE Parser -------------------------------
(***************************************************************************)
(* ParseClass of parse.cpp: the tokenizer and the recursive descent that   *)
(* turn the text of a lambda into a tree of nodes and into the sets that   *)
(* say how each array is used.                                             *)
(*                                                                         *)
(* A text is a sequence of tokens.  The calls of ParseInputExpr within one *)
(* another are a stack of what is to be done with their result.            *)
(***************************************************************************)
EXTENDS Nodes, Integers, SequencesExt

VARIABLES
  expr,             (* The text (input).                                   *)
  index,            (* The static position of get_next_token.              *)
  current,          (* current_token_                                      *)
  pc,               (* The function that runs; how the parse ended.        *)
  stack,            (* Callers that wait for ParseInputExpr.               *)
  result,           (* The node it returns.                                *)
  gather_set, scatter_set, reduction_set, load_set,
  name_type_map, input_name_vec, iterates_set, output_name, output_type,
  max_bits

lexer   == <<expr, index, current>>
control == <<pc, stack, result>>
usage   == <<gather_set, scatter_set, reduction_set, load_set>>
decls   == <<name_type_map, input_name_vec, iterates_set, output_name, output_type, max_bits>>
parser_vars == <<lexer, control, tree, usage, decls>>

Words == BasicType \cup Operators
           \cup {"lambda", "input", "output", ":", "+=", "*=", "[", "]", ","}

-----------------------------------------------------------------------------
(* get_next_token.  At the end, and at a character it does not know (such  *)
(* as "="), it returns End and stays where it is.                          *)
TokenAt(p) == IF p <= Len(expr) /\ expr[p] \in Words \cup Names THEN expr[p] ELSE "End"
Past(p)    == IF TokenAt(p) = "End" THEN p ELSE p + 1

(* The position behind n tokens, and the n-th token from here.             *)
position[n \in 0 .. 5] == IF n = 0 THEN index ELSE Past(position[n - 1])
T(n) == TokenAt(position[n - 1])

(* n calls of get_next_token.                                              *)
Read(n) == current' = T(n) /\ index' = position[n] /\ UNCHANGED expr

(* token_name_ is empty but for a Var.                                     *)
TokenName(t) == IF t \in Names THEN t ELSE ""

BitsOf(t) == IF t = "double" THEN 64 ELSE 32
WithBits(t) == IF BitsOf(t) > max_bits THEN BitsOf(t) ELSE max_bits

-----------------------------------------------------------------------------
(* LOG(FATAL), or a null pointer followed: the process is gone.            *)
Stop(how) == pc' = how /\ UNCHANGED <<lexer, stack, result, tree, usage, decls>>

Return == pc = "return" /\ stack # <<>>
Caller == Last(stack)
Callers == Front(stack)

-----------------------------------------------------------------------------
(* A new ParseClass; the sets are those of a new IntelligentUnroll.        *)
ParserStart ==
  /\ current = "" /\ pc = "start" /\ stack = <<>> /\ result = 0
  /\ NoNodes
  /\ gather_set = {} /\ scatter_set = {} /\ reduction_set = {} /\ load_set = {}
  /\ name_type_map = <<>> /\ input_name_vec = <<>> /\ iterates_set = {}
  /\ output_name = "" /\ output_type = IntType /\ max_bits = 0

(* Mutant: the tokenizer starts every text from its beginning.             *)
BeginParseAnew ==
  /\ pc = "start"
  /\ pc' = "parse"
  /\ current' = TokenAt(1) /\ index' = Past(1)
  /\ UNCHANGED <<expr, stack, result, tree, usage, decls>>

(* Parse: the first token.                                                 *)
BeginParse ==
  /\ pc = "start"
  /\ pc' = "parse"
  /\ Read(1)
  /\ UNCHANGED <<stack, result, tree, usage, decls>>

(* The third token is read whether or not it is the star of a pointer.     *)
ParseOutput ==
  /\ pc = "parse" /\ current = "output"
  /\ \/ /\ T(1) = ":" /\ T(2) \in BasicType /\ T(4) \in Names
        /\ LET type == [of |-> T(2), pointer |-> T(3) = "*"]
           IN /\ output_type' = type
              /\ name_type_map' = [n \in DOMAIN name_type_map \cup {T(4)} |->
                                     IF n = T(4) THEN type ELSE name_type_map[n]]
        /\ output_name' = T(4)
        /\ max_bits' = WithBits(T(2))
        /\ Read(5)
        /\ UNCHANGED <<input_name_vec, iterates_set, control, tree, usage>>
     \/ /\ ~ (T(1) = ":" /\ T(2) \in BasicType /\ T(4) \in Names)
        /\ Stop("fatal")

ParseInput ==
  /\ pc = "parse" /\ current = "input"
  /\ \/ T(1) = ":" /\ pc' = "declaration" /\ Read(1)
          /\ UNCHANGED <<stack, result, tree, usage, decls>>
     \/ T(1) # ":" /\ Stop("fatal")

(* One iteration of the loop of ParseInput.                                *)
ParseDeclaration ==
  LET pointer == T(2) = "*"
      n       == IF pointer THEN 3 ELSE 2
  IN
  /\ pc = "declaration"
  /\ \/ /\ T(1) \in BasicType /\ T(n) \in Names
        /\ name_type_map' = [m \in DOMAIN name_type_map \cup {T(n)} |->
                               IF m = T(n) THEN [of |-> T(1), pointer |-> pointer]
                               ELSE name_type_map[m]]
        /\ input_name_vec' = Append(input_name_vec, T(n))
        /\ max_bits' = WithBits(T(1))
        /\ pc' = IF T(n + 1) = "," THEN pc ELSE "parse"
        /\ Read(n + 1)
        /\ UNCHANGED <<iterates_set, output_name, output_type, stack, result, tree, usage>>
     \/ /\ ~ (T(1) \in BasicType /\ T(n) \in Names)
        /\ Stop("fatal")

(* One iteration of the loop of ParseLambda.                               *)
ParseLambda ==
  /\ (pc = "parse" /\ current = "lambda") \/ pc = "iterates"
  /\ \/ /\ T(1) \in Names
        /\ iterates_set' = iterates_set \cup {T(1)}
        /\ pc' = IF T(2) = "," THEN "iterates" ELSE "parse"
        /\ Read(2)
        /\ UNCHANGED <<name_type_map, input_name_vec, output_name, output_type, max_bits,
                       stack, result, tree, usage>>
     \/ T(1) \notin Names /\ Stop("fatal")

ParseEnd ==
  /\ pc = "parse" /\ current = "End"
  /\ pc' = "parsed"
  /\ UNCHANGED <<lexer, stack, result, tree, usage, decls>>

(* Mutant: a section that is not known is not refused, nor read past.      *)
ParseTypeSkipped ==
  /\ pc = "parse" /\ current \notin {"output", "input", "lambda", ":", "End"}
  /\ UNCHANGED parser_vars

ParseTypeWrong ==
  /\ pc = "parse" /\ current \notin {"output", "input", "lambda", ":", "End"}
  /\ Stop("fatal")

-----------------------------------------------------------------------------
(* ParseInputExpr: a name, which is declared or iterates.                  *)
TypeOfName(name) ==
  IF name \in DOMAIN name_type_map THEN name_type_map[name] ELSE IntType

Operand ==
  LET known == T(1) \in DOMAIN name_type_map \cup iterates_set IN
  /\ pc = "operand"
  /\ \/ /\ known
        /\ Create(<<VarNode(TypeOfName(T(1)), T(1))>>)
        /\ result' = NewNode
        /\ stack' = IF T(2) = "[" THEN Append(stack, [at |-> "index", node |-> NewNode]) ELSE stack
        /\ pc' = IF T(2) = "[" THEN "operand" ELSE "operator"
        /\ Read(2)
        /\ UNCHANGED <<root_node, usage, decls>>
     \/ ~ known /\ Stop("fatal")

(* Mutant: an index array stays among the arrays to load.                  *)
LoadsAll(array) == load_set

(* load_set without an array that turned out to be an index.               *)
LoadsWithout(array) == load_set \ {array}

(* The index is read: of an index array, it makes the operand a gather; of *)
(* an iterate, a load.  load_set is filled and pruned on the way, so that  *)
(* what it holds depends on the order of the text.                         *)
GatherIndex ==
  LET array == nodes[Caller.node].node_name IN
  /\ nodes[result].kind = "load"
  /\ \/ /\ nodes[Caller.node].type.pointer
        /\ Create(<<GatherNode(Caller.node, result, array)>>)
        /\ result' = NewNode
        /\ gather_set' = gather_set \cup {nodes[result].addr_name}
        /\ load_set' = LoadsWithout(nodes[result].addr_name)
        /\ stack' = Callers /\ pc' = "operator"
        /\ Read(1)
        /\ UNCHANGED <<root_node, scatter_set, reduction_set, decls>>
     \/ ~ nodes[Caller.node].type.pointer /\ Stop("crash")

LoadIndex ==
  LET array == nodes[Caller.node].node_name IN
  /\ nodes[result].kind = "var" /\ nodes[result].node_name \in iterates_set
  /\ \/ /\ nodes[Caller.node].type.pointer
        /\ Create(<<LoadNode(Caller.node, result, array)>>)
        /\ result' = NewNode
        /\ load_set' = load_set \cup {array}
        /\ stack' = Callers /\ pc' = "operator"
        /\ Read(1)
        /\ UNCHANGED <<root_node, gather_set, scatter_set, reduction_set, decls>>
     \/ ~ nodes[Caller.node].type.pointer /\ Stop("fatal")

UnsupportedIndex ==
  /\ nodes[result].kind # "load"
  /\ ~ (nodes[result].kind = "var" /\ nodes[result].node_name \in iterates_set)
  /\ Stop("fatal")

EndIndex ==
  /\ Return /\ Caller.at = "index"
  /\ \/ current = "]" /\ (GatherIndex \/ LoadIndex \/ UnsupportedIndex)
     \/ current # "]" /\ Stop("fatal")

(* The whole rest of the expression is the right operand: operators have   *)
(* no precedence and associate to the right.                               *)
Operator ==
  /\ pc = "operator"
  /\ \/ /\ current \in Operators
        /\ stack' = Append(stack, [at |-> "right", op |-> current, left |-> result])
        /\ pc' = "operand"
     \/ current \notin Operators /\ pc' = "return" /\ UNCHANGED stack
  /\ UNCHANGED <<lexer, result, tree, usage, decls>>

(* Mutant: left and right exchanged.                                       *)
EndLeft ==
  /\ Return /\ Caller.at = "right"
  /\ Create(<<BinaryNode(Caller.op, result, Caller.left, nodes[Caller.left].type, "", "")>>)
  /\ result' = NewNode
  /\ stack' = Callers
  /\ UNCHANGED <<pc, lexer, root_node, usage, decls>>

EndRight ==
  /\ Return /\ Caller.at = "right"
  /\ Create(<<BinaryNode(Caller.op, Caller.left, result, nodes[Caller.left].type, "", "")>>)
  /\ result' = NewNode
  /\ stack' = Callers
  /\ UNCHANGED <<pc, lexer, root_node, usage, decls>>

-----------------------------------------------------------------------------
(* ParseExpr: the output, its index, +=, and the data.  "=" is not a token *)
(* get_next_token returns, so of the assignments only += goes through.     *)
Assignment == {"+=", "*="}

Waiting(addr, i, equal) == [at |-> "data", addr |-> addr, index |-> i, equal |-> equal]

ParseExpr ==
  /\ pc = "parse" /\ current = ":"
  /\ \/ /\ TokenName(T(1)) = output_name
        /\ \/ T(2) = "[" /\ stack' = Append(stack, [at |-> "subscript", node |-> NewNode])
           \/ T(2) \in Assignment /\ stack' = Append(stack, Waiting(NewNode, 0, T(2)))
        /\ Create(<<VarNode(output_type, output_name)>>)
        /\ pc' = "operand"
        /\ Read(2)
        /\ UNCHANGED <<result, root_node, usage, decls>>
     \/ /\ TokenName(T(1)) # output_name \/ T(2) \notin Assignment \cup {"["}
        /\ Stop("fatal")

EndSubscript ==
  /\ Return /\ Caller.at = "subscript"
  /\ \/ /\ current = "]" /\ T(1) \in Assignment
        /\ stack' = Append(Callers, Waiting(Caller.node, result, T(1)))
        /\ pc' = "operand"
        /\ Read(1)
        /\ UNCHANGED <<result, tree, usage, decls>>
     \/ ~ (current = "]" /\ T(1) \in Assignment) /\ Stop("fatal")

(* y[r[i]] += data: a gather, a sum and a scatter, of one addr and index.  *)
ReduceThenScatter ==
  LET addr == Caller.addr
      i    == Caller.index
      name == nodes[i].addr_name
      type == Pointee(nodes[addr].type)
  IN
  /\ Create(<<GatherNode(addr, i, output_name),
              BinaryNode("+", NewNode, result, type, output_name, name),
              ScatterNode(addr, i, NewNode + 1, output_name)>>)
  /\ root_node' = NewNode + 2
  /\ reduction_set' = reduction_set \cup {name}
  /\ scatter_set' = scatter_set \cup {name}
  /\ load_set' = LoadsWithout(name)
  /\ UNCHANGED gather_set

(* y[i] += data: a load, a sum and a store; y does not join load_set.      *)
AddThenStore ==
  LET addr == Caller.addr
      type == Pointee(nodes[addr].type)
  IN
  /\ Create(<<LoadNode(addr, Caller.index, output_name),
              BinaryNode("+", NewNode, result, type, nodes[Caller.index].node_name, ""),
              StoreNode(addr, NewNode + 1, output_name)>>)
  /\ root_node' = NewNode + 2
  /\ UNCHANGED usage

IndexKind == IF Caller.index = 0 THEN "none" ELSE nodes[Caller.index].kind

EndData ==
  LET supported == Caller.equal = "+=" /\ IndexKind \in {"load", "var"}
      pointer   == nodes[Caller.addr].type.pointer
  IN
  /\ Return /\ Caller.at = "data"
  /\ \/ /\ supported /\ pointer
        /\ (IndexKind = "load" /\ ReduceThenScatter) \/ (IndexKind = "var" /\ AddThenStore)
        /\ pc' = "parsed"
        /\ stack' = Callers
        /\ UNCHANGED <<lexer, result, decls>>
     \/ supported /\ ~ pointer /\ Stop(IF IndexKind = "load" THEN "crash" ELSE "fatal")
     \/ ~ supported /\ Stop("fatal")

ParserNext ==
  \/ BeginParse \/ ParseOutput \/ ParseInput \/ ParseDeclaration \/ ParseLambda
  \/ ParseEnd \/ ParseTypeWrong \/ ParseExpr \/ EndSubscript \/ EndData
  \/ Operand \/ EndIndex \/ Operator \/ EndRight

(* One parse.  Where the tokenizer begins depends on the texts before.     *)
ParserInit == expr \in Seq(STRING) /\ index \in Nat \ {0} /\ ParserStart
ParserSpec == ParserInit /\ [][ParserNext]_parser_vars

-----------------------------------------------------------------------------
(* How the expression uses its arrays: the nodes that only say where       *)
(* another one reads or writes, and the reads of data.  The output's own   *)
(* read, for +=, is an operand of the sum that root_node stores.           *)
IndexNodes  == {nodes[n].args[2] : n \in {m \in DOMAIN nodes : nodes[m].kind \in {"gather", "scatter"}}}
OwnRead     == nodes[Last(nodes[root_node].args)].args[1]
Reads(kind) == {n \in DOMAIN nodes \ IndexNodes : nodes[n].kind = kind /\ n # OwnRead}
DataArrays  == {nodes[n].addr_name : n \in Reads("load") \cup Reads("gather")}
IndexArrays == {nodes[n].addr_name : n \in IndexNodes}

(* The sets that decide which arrays are laid out anew and how say what    *)
(* the expression reads, though they are filled and pruned while it is     *)
(* read, when no array is both an index and data.                          *)
UsageMatchesTree ==
  (pc = "parsed" /\ root_node # 0 /\ DataArrays \cap IndexArrays = {}) =>
    /\ load_set   = {nodes[n].addr_name : n \in Reads("load")}
    /\ gather_set = {nodes[n].index_name : n \in Reads("gather")}
    /\ scatter_set = reduction_set
    /\ scatter_set = {nodes[n].index_name : n \in {m \in {root_node} : nodes[m].kind = "scatter"}}

(* A tree the parser leaves is one generate_code_seed is made for.         *)
TreeIsParsed == (pc = "parsed" /\ root_node # 0) => ParsedTree
=============================================================================
