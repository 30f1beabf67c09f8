------------------------------ MODULE FrontEnd ------------------------------
(***************************************************************************)
(* compiler() of intelligent_unroll.cpp from the text of a lambda to the   *)
(* values the generated loops store: the parser, the code seed, the        *)
(* formulation, one loop for every bucket of columns, the redirection of   *)
(* their variables and the code generator.  What the loops have to deal    *)
(* with, the Infos of their columns, is chosen here; FeatureTable and      *)
(* DynVec say which column gets which loop and what a kernel computes.     *)
(***************************************************************************)
EXTENDS Parser, CodeSeed, CodeGen

CONSTANTS
  Programs,         (* Texts, each with the instruction set of the build.  *)
  LoopPairs(_, _),  (* Of a text and its loops, the pairs to compile.      *)
  MaxRounds         (* The rounds of a reduction in disorder.              *)

VARIABLES
  calls,            (* Calls of compiler() so far.                         *)
  isa,              (* The instruction set of the build.                   *)
  dispatch,         (* The call whose LLVMCodeGen the static table holds.  *)
  loops,            (* The Infos of the loops to make.                     *)
  made,             (* How many of them are made.                          *)
  seed,             (* The formulated seed.                                *)
  tmps              (* Temporary variables made so far.                    *)

program    == <<calls, isa, dispatch>>
statements == <<vector, vars, code, loops, made, seed, tmps>>
vars_all   == <<parser_vars, seed_vars, codegen_vars, program, statements>>

Stopped == pc \in {"fatal", "crash", "check", "invalid"}

(* The process stops.                                                      *)
StopAt(how) ==
  pc' = how /\ UNCHANGED <<lexer, stack, result, tree, usage, decls, seed_vars, codegen_vars, program, statements>>

StatementsStart == vector = 0 /\ vars = <<>> /\ code = <<>> /\ loops = <<>> /\ made = 0
                     /\ seed = <<>> /\ tmps = 0
Idle == cal_queue = <<>> /\ top_node = 0 /\ found = 0 /\ emitted = <<>>

Init ==
  /\ \E p \in Programs : expr = p.text /\ isa = p.isa
  /\ index = 1 /\ calls = 1 /\ dispatch = 0
  /\ ParserStart /\ Idle /\ StatementsStart /\ CodeGenStart

-----------------------------------------------------------------------------
ParseStep ==
  ParserNext /\ UNCHANGED <<seed_vars, codegen_vars, program, statements>>

(* parse_expression: a vector holds as many lanes of the widest type as    *)
(* the registers have room for.                                            *)
Register == IF isa = "AVX512" THEN 512 ELSE 256

ParseExpression ==
  /\ pc = "parsed"
  /\ \/ /\ max_bits # 0
        /\ vector' = Register \div max_bits
        /\ pc' = "lanes"
        /\ UNCHANGED <<lexer, stack, result, tree, usage, decls, seed_vars, codegen_vars, program,
                       vars, code, loops, made, seed, tmps>>
     \/ max_bits = 0 /\ StopAt("crash")

(* The Infos generate_info gives: of a gather, and of a scatter, which is  *)
(* stored entry by entry when it is in disorder.                           *)
Infos == {[order |-> "DisOrder", mask |-> "one"], [order |-> "DisOrder", mask |-> "all"],
          [order |-> "IncContinue", mask |-> "all"], [order |-> "IncContinue", mask |-> "part"],
          [order |-> "OrderEquel", mask |-> "all"]}
ScatterInfos == Infos \ {[order |-> "DisOrder", mask |-> "one"]}

(* Loops without a scatter, and with the scatter and reduction r.  The     *)
(* Info of the scatter is that of y's gather, unless r gathers as well.    *)
PlainLoops ==
  [index : {"none"}, gather : [gather_set -> Infos], scatter : {[order |-> "none", mask |-> "all"]},
   rounds : {0}, range : {FALSE}]
ReductionLoops(r) ==
  {l \in [index : {r}, gather : [gather_set \cup {r} -> Infos], scatter : ScatterInfos,
          rounds : 0 .. MaxRounds, range : BOOLEAN] :
     /\ l.gather[r].order = l.scatter.order
     /\ r \notin gather_set => l.gather[r] = l.scatter
     /\ l.rounds > 0 => l.scatter.order = "DisOrder"
     /\ l.range => l.scatter.order = "OrderEquel"}
LoopsOfText == IF scatter_set = {} THEN PlainLoops ELSE UNION {ReductionLoops(r) : r \in scatter_set}

(* generate_information and transform_data: the buckets first, then the    *)
(* ranges.                                                                 *)
GenerateInformation ==
  /\ pc = "lanes"
  /\ \/ \E l \in LoopsOfText : loops' = <<l>>
     \/ \E p \in LoopPairs(expr, LoopsOfText) : (p[1].range => p[2].range) /\ loops' = p
  /\ pc' = "informed"
  /\ UNCHANGED <<lexer, stack, result, tree, usage, decls, seed_vars, codegen_vars, program,
                 vector, vars, code, made, seed, tmps>>

(* generate_func, and the start of generate_code_seed.                     *)
Arguments == {output_name} \cup ToSet(input_name_vec)

GenerateFunc ==
  LET types == [a \in Arguments |-> name_type_map[a]]
      declared == Arguments \subseteq DOMAIN name_type_map
                    /\ \A a \in Arguments : name_type_map[a].pointer
  IN
  /\ pc = "informed"
  /\ \/ /\ declared /\ root_node # 0
        /\ vars' = FuncVars(types, load_set, gather_set \cup scatter_set, reduction_set)
        /\ cal_queue' = <<root_node>> /\ top_node' = 0 /\ found' = 0 /\ emitted' = <<>>
        /\ pc' = "seed"
        /\ UNCHANGED <<lexer, stack, result, tree, usage, decls, codegen_vars, program,
                       vector, code, loops, made, seed, tmps>>
     \/ ~ declared /\ StopAt("fatal")
     \/ declared /\ root_node = 0 /\ StopAt("crash")

CodeSeedStep ==
  /\ pc = "seed"
  /\ SeedNext
  /\ UNCHANGED <<lexer, control, usage, decls, codegen_vars, program, statements>>

(* The statements of the seed, and formulation_state.                      *)
SeedOf(order) == FlattenSeq([j \in DOMAIN order |-> SeedOfNode(nodes, Arguments, order[j])])
NodeVars == [id \in {"node"} \X DOMAIN nodes |-> NodeVar(nodes, id[2])]

(* Mutant: the seed is over when the queue is empty, though the last node  *)
(* has operands to find.                                                   *)
QueueEmpty == pc = "seed" /\ cal_queue = <<>>

(* No node is waiting, and the last one taken has none left.               *)
SeedComplete == pc = "seed" /\ SeedDone

Formulation ==
  /\ SeedComplete
  /\ LET p == FoldLeft(Formulate, [seed |-> <<>>, vars |-> vars @@ NodeVars], SeedOf(SeedOrder))
     IN seed' = p.seed /\ vars' = p.vars
  /\ pc' = "optimize"
  /\ UNCHANGED <<lexer, stack, result, tree, usage, decls, seed_vars, codegen_vars, program,
                 vector, code, loops, made, tmps>>

(* optimization_state: one loop, with its variables redirected.  Before    *)
(* the first range stands the pointer to the sizes of the ranges.          *)
FirstRange == loops[made + 1].range /\ RangeNum \notin DOMAIN vars

SizesOfRanges == LetStat(RangeNum, IntPtr, BitCast(Address(RangeNum), IntPtr))

LoopOf(l, vs) ==
  LET p == [vars |-> vs, load_index |-> <<>>, permulation |-> <<>>, out |-> <<>>, tmps |-> tmps,
            vector |-> vector, loop |-> l]
  IN RedirectVars(IF l.range THEN RangeLoop(p, output_name, seed) ELSE BucketLoop(p, seed))

OptimizeLoop ==
  LET l      == loops[made + 1]
      vs     == IF FirstRange THEN vars @@ (RangeNum :> Variable(IntPtr, "", "", FALSE)) ELSE vars
      before == IF FirstRange THEN <<SizesOfRanges>> ELSE <<>>
      loop   == LoopOf(l, vs)
      refused == \/ l.range /\ RangeUnsupported(output_name, seed)
                 \/ \E j \in DOMAIN loop.out : loop.out[j].op = "fatal"
  IN
  /\ pc = "optimize" /\ made < Len(loops)
  /\ \/ /\ ~ refused
        /\ code' = code \o before \o loop.out
        /\ vars' = loop.vars /\ tmps' = loop.tmps
        /\ made' = made + 1
        /\ UNCHANGED <<parser_vars, seed_vars, codegen_vars, program, vector, loops, seed>>
     \/ refused /\ StopAt("check")

-----------------------------------------------------------------------------
(* A new LLVMCodeGen.  CodeGen fills its table when it is first called.    *)
StartCodeGen ==
  /\ pc = "optimize" /\ made = Len(loops)
  /\ AddFunction
  /\ dispatch' = IF dispatch = 0 THEN calls ELSE dispatch
  /\ pc' = "codegen"
  /\ UNCHANGED <<lexer, stack, result, tree, usage, decls, seed_vars, calls, isa, statements>>

CodeGenStep ==
  /\ pc = "codegen"
  /\ \/ Generate /\ UNCHANGED <<parser_vars, seed_vars, program, statements>>
     \/ /\ generated < Len(code)
        /\ \/ "fatal" \in StatProblems(Stat_) /\ StopAt("fatal")
           \/ StatProblems(Stat_) = {"invalid"} /\ StopAt("invalid")

Compiled ==
  /\ pc = "codegen" /\ generated = Len(code)
  /\ pc' = "done"
  /\ UNCHANGED <<lexer, stack, result, tree, usage, decls, seed_vars, codegen_vars, program, statements>>

(* compiler() is called again, with any text: everything is new but what   *)
(* is static, the position of the tokenizer and the dispatch table.        *)
CallAgain ==
  /\ pc = "done" /\ calls = 1
  /\ calls' = 2
  /\ \E p \in Programs : expr' = p.text
  /\ pc' = "start" /\ current' = "" /\ stack' = <<>> /\ result' = 0
  /\ nodes' = <<>> /\ need_node' = <<>> /\ root_node' = 0
  /\ gather_set' = {} /\ scatter_set' = {} /\ reduction_set' = {} /\ load_set' = {}
  /\ name_type_map' = <<>> /\ input_name_vec' = <<>> /\ iterates_set' = {}
  /\ output_name' = "" /\ output_type' = IntType /\ max_bits' = 0
  /\ cal_queue' = <<>> /\ top_node' = 0 /\ found' = 0 /\ emitted' = <<>>
  /\ vector' = 0 /\ vars' = <<>> /\ code' = <<>> /\ loops' = <<>> /\ made' = 0 /\ seed' = <<>> /\ tmps' = 0
  /\ generated' = 0 /\ values' = <<>> /\ scopes' = <<>> /\ dead' = {} /\ opened' = 0
  /\ start' = <<>> /\ stored' = <<>>
  /\ UNCHANGED <<index, isa, dispatch>>

Next ==
  \/ ParseStep \/ ParseExpression \/ GenerateInformation \/ GenerateFunc \/ CodeSeedStep
  \/ Formulation \/ OptimizeLoop \/ StartCodeGen \/ CodeGenStep \/ Compiled \/ CallAgain

(* The process runs on while it parses and while the worklist has nodes.   *)
Fairness == WF_vars_all(ParseStep) /\ WF_vars_all(CodeSeedStep)

Spec == Init /\ [][Next]_vars_all /\ Fairness

-----------------------------------------------------------------------------
BinaryNodes == {n \in DOMAIN nodes : nodes[n].kind \in BinaryOps}

(* The expressions the loops are made for: y[r[i]] += a term over d[i],    *)
(* each read once, and x[c[i]], of one type, whose index arrays are not    *)
(* data and that reads neither y nor at r.                                 *)
Plain ==
  /\ root_node # 0 /\ scatter_set # {}
  /\ DataArrays \cap (IndexArrays \cup {output_name}) = {}
  /\ \A n \in Reads("gather") : nodes[n].index_name \notin scatter_set
  /\ \A n, m \in Reads("load") : nodes[n].addr_name = nodes[m].addr_name => n = m
  /\ \A n \in BinaryNodes :
       /\ \A j \in {1, 2} : nodes[nodes[n].args[j]].kind # "var"
       /\ nodes[nodes[n].args[2]].type = nodes[nodes[n].args[1]].type
  /\ output_type.of \in {"float", "double"}
  /\ \A a \in Arguments : a \in DOMAIN name_type_map /\ name_type_map[a].pointer

-----------------------------------------------------------------------------
(* What a loop is to store, from the values at its start.                  *)
Loop == loops[opened]
LoopEnds == pc = "codegen" /\ opened > 0 /\ scopes = <<>>

Plus(pointer, n) == [pointer EXCEPT ![3] = @ + n]
Argument(a) == <<"ptr", <<"arg", a>>, 0>>
Entry(c)    == <<"load", "int", "S", start[Info(c)]>>
Entries(c)  == <<"load", "int", "V", start[Info(c)]>>
Element(a, c)         == <<"inc_addr", Argument(a), Entry(c)>>
LoadAt(shape, a, c)   == <<"load", name_type_map[a].of, shape, Element(a, c)>>
LoadMasked(a, c)      == Append(LoadAt("V", a, c), <<"mask", c>>)
Permuted(v, pointer)  == <<"shuffle", v, <<"load", "int8", "V", pointer>>>>
Rearranged(v, kind, c) == <<"shuffle", v, <<"zero">>, <<kind, c>>>>

(* The vector whose lane l is x[c[l]].                                     *)
Lanes(x, c) ==
  LET info == Loop.gather[c]
  IN CASE info.order = "DisOrder" /\ info.mask = "one" /\ vector > 4 ->
            Permuted(LoadAt("V", x, c), Plus(start[Info(c)], 1))
       [] info.order = "DisOrder" /\ info.mask = "one" /\ vector = 4 ->
            Rearranged(LoadAt("V", x, c), "lanes", c)
       [] info.order = "DisOrder" /\ info.mask = "all"     -> <<"gather", Argument(x), Entries(c)>>
       [] info.order = "IncContinue" /\ info.mask = "all"  -> LoadMasked(x, c)
       [] info.order = "IncContinue" /\ info.mask = "part" -> Rearranged(LoadMasked(x, c), "expand", c)
       [] info.order = "OrderEquel"  -> <<"broadcast", LoadAt("S", x, c)>>

(* The term of node n, as the text has it.                                 *)
RECURSIVE Term(_)
Term(n) ==
  LET node == nodes[n]
  IN CASE node.kind = "load"   -> <<"load", node.type.of, "V", start[<<"array", node.addr_name>>]>>
       [] node.kind = "gather" -> Lanes(node.addr_name, node.index_name)
       [] OTHER                -> <<node.kind, Term(node.args[1]), Term(node.args[2])>>

(* The lanes of one entry added up: rounds of permutation and addition.    *)
RECURSIVE RoundsOf(_, _, _)
RoundsOf(v, r, rounds) ==
  IF rounds = 0 THEN v
  ELSE LET w       == RoundsOf(v, r, rounds - 1)
           pointer == Plus(start[<<"reduction", r>>], (rounds - 1) * (vector \div 4))
           alone   == <<"icmpeq", <<"load", "int8", "V", pointer>>, <<"vector">>>>
       IN <<"+", <<"select", <<"zero">>, Permuted(w, pointer), alone>>, w>>

StoredTerm(y, r, v) ==
  CASE Loop.scatter.order = "OrderEquel" ->
         LET sum == IF Loop.range THEN <<"+", <<"zero">>, v>> ELSE v
         IN <<"store", Element(y, r), <<"+", LoadAt("S", y, r), <<"reduce", sum>>>>>>
    [] Loop.scatter.order = "IncContinue" ->
         LET sum == Rearranged(<<"+", Rearranged(v, "runs", r), v>>, "compress", r)
         IN <<"store", Element(y, r), <<"+", LoadMasked(y, r), sum>>, <<"mask", r>>>>
    [] Loop.scatter.order = "DisOrder" ->
         <<"scatter", Argument(y), Entries(r),
           <<"+", <<"gather", Argument(y), Entries(r)>>, RoundsOf(v, r, Loop.rounds)>>>>

(* Of the stream id, what one column of the loop takes.                    *)
InfoWidth(c) ==
  LET info == IF c = Loop.index THEN Loop.scatter ELSE Loop.gather[c]
  IN IF info.order # "DisOrder" THEN 1
     ELSE IF info.mask = "all" THEN vector
     ELSE IF vector = 4 THEN 1 ELSE 1 + vector \div 4

Width(id) ==
  CASE id[1] = "array"     -> vector
    [] id[1] = "info"      -> InfoWidth(id[2])
    [] id[1] = "reduction" -> Loop.rounds * (vector \div 4)
    [] id[1] = "range"     -> IF Loop.range THEN 1 ELSE 0
Streams == {id \in DOMAIN start : id[1] \in {"array", "info", "reduction", "range"}}

-----------------------------------------------------------------------------
(* Properties.                                                             *)

(* What the loop of a column stores is the expression of the text, once:   *)
(* the old elements of y at r plus the reduction of the data term, every   *)
(* x[c[i]] read as the Info of the loop demands, however many loops share  *)
(* the variables of the seed and however often an index is used            *)
(* (optimization_state, redirect_var_state, CodeGen).                      *)
CodeComputesExpression ==
  (LoopEnds /\ Plain) =>
    LET y    == nodes[root_node].addr_name
        r    == nodes[root_node].index_name
        data == nodes[Last(nodes[root_node].args)].args[2]
    IN stored = <<StoredTerm(y, r, Term(data))>>

(* Every column takes from every new array what rearrange put there for    *)
(* it, no more and no less, in whatever order the statements read them:    *)
(* otherwise the loop of the next column reads between two columns.        *)
StreamsAdvance ==
  (LoopEnds /\ Plain) => \A id \in Streams : values[id] = Plus(start[id], Width(id))

(* A plain expression compiles: every variable the generated code uses is  *)
(* defined, once, in a place it dominates, and types match.  The exception *)
(* is a reduction in disorder over doubles, whose Select is given a zero   *)
(* of type float.                                                          *)
FloatZero == output_type.of = "double" /\ \E j \in DOMAIN loops : loops[j].rounds > 0
PlainCompiles == (Stopped /\ Plain) => (pc = "check" /\ FloatZero)

(* Code is generated by the LLVMCodeGen of this call, although the table   *)
(* that finds it keeps the first one for the life of the process (CodeGen, *)
(* get_next_token): whoever makes the parser start from the beginning      *)
(* again has to reset the table too.                                       *)
DispatchIsCurrent == pc \in {"codegen", "done"} => dispatch = calls

(* The tree, written out again, is the text that was read: no operand is   *)
(* lost, doubled or exchanged by the calls within calls of ParseInputExpr. *)
RECURSIVE Written(_)
Written(n) ==
  LET node == nodes[n]
      At(a, i) == Written(a) \o <<"[">> \o Written(i) \o <<"]">>
  IN CASE node.kind = "var"    -> <<node.node_name>>
       [] node.kind = "load"   -> Written(node.args[1]) \o <<"[", node.index_name, "]">>
       [] node.kind = "gather" -> At(node.args[1], node.args[2])
       [] OTHER -> Written(node.args[1]) \o <<node.kind>> \o Written(node.args[2])

WrittenRoot ==
  LET root == nodes[root_node]
      sum  == nodes[Last(root.args)]
  IN Written(sum.args[1]) \o <<"+=">> \o Written(sum.args[2])

ReadSoFar == SubSeq(expr, 1, index - (IF current = "End" THEN 1 ELSE 2))
ParsedAsWritten == (pc = "parsed" /\ root_node # 0) => IsSuffix(WrittenRoot, ReadSoFar)

(* Parser and code seed are in these stages what Compiler says of them:    *)
(* nothing but the parser makes nodes, the seed begins with a tree that is *)
(* complete and ends with an empty queue, and between two calls all but    *)
(* the position of the tokenizer is new.                                   *)
Seeding == INSTANCE Compiler
ImplementsCompiler == Seeding!CompilerInit /\ [][Seeding!CompilerNext]_Seeding!compiler_vars

(* The loop that reads section after section and the worklist, which a     *)
(* node can join again and again, end, whatever the text: the other steps  *)
(* walk over statements that are there already.                            *)
Parsing == pc \notin {"parsed", "lanes", "informed", "seed", "optimize", "codegen", "done"} /\ ~ Stopped
Termination == (Parsing ~> ~ Parsing) /\ ((pc = "seed") ~> SeedDone)
=============================================================================
