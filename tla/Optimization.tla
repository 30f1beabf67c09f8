---------------------------- MODULE Optimization ----------------------------
(***************************************************************************)
(* OptimizationPass, its variant for ranges and RedirectVarPass: the loops *)
(* made from one formulated seed.  All loops are made from the same seed   *)
(* and so share its variables, whose types the pass sets anew each time.   *)
(*                                                                         *)
(* A pass is what its operators do to a record p: the variables vars, the  *)
(* caches load_index and permulation of the Info arrays read so far, the   *)
(* statements out, how many variables it has made (tmps), the vector size  *)
(* and the Infos of the loop.  An Info is its order and whether its mask   *)
(* is the whole vector ("all"), a part of it ("part") or one load ("one"); *)
(* a reduction in disorder has rounds.  A temporary that is used once is   *)
(* written out where it is used, and of the rounds of a reduction over     *)
(* runs, which are alike, one stands for all.                              *)
(***************************************************************************)
EXTENDS SeedStatements

UseVar(p, id)  == Use(id, p.vars[id].type)
Emit(p, s)     == [p EXCEPT !.out = Append(@, s)]

(* set_type on the variable, then LetStat::make.                           *)
Define(p, id, e) ==
  Emit([p EXCEPT !.vars[id].type = e.type], LetStat(id, e.type, e))

(* Varience(type, const), and its definition.                              *)
Tmp(p) == <<"tmp", p.tmps>>
NewVar(p, type, const) ==
  [p EXCEPT !.tmps = @ + 1, !.vars = @ @@ (<<"tmp", p.tmps + 1>> :> Variable(type, "", "", const))]
DefineNew(p, e, const) == LET q == NewVar(p, e.type, const) IN Define(q, Tmp(q), e)

(* LetStat(var, IncAddr(var, n)).                                          *)
Advance(p, id, n) == Define(p, id, IncAddr(UseVar(p, id), Number(n)))

Info(name)  == <<"info", name>>
Int8VPtr    == Type("int8", "VP")
Zero(of)    == Const(<<"zero">>, Type(of, "V"))
Table(kind, name) == Const(<<kind, name>>, Type("int", "V"))
Mask(name)  == Const(<<"mask", name>>, Type("int", "S"))

(* The address of the entry of array a at the index i; of a whole vector.  *)
EntryOf(p, a, i)  == IncAddr(UseVar(p, <<"arg", a>>), i)
VectorAt(p, a, i) == LET e == EntryOf(p, a, i) IN BitCast(e, Shaped(e.type, "VP"))

-----------------------------------------------------------------------------
(* The index of a column is read once: by the gather or scatter of that    *)
(* index array that comes first.                                           *)
ReadIndex(p, name, lanes) ==
  IF name \in DOMAIN p.load_index THEN p
  ELSE LET e == IF lanes = 1 THEN Load(UseVar(p, Info(name)))
                ELSE Load(BitCast(UseVar(p, Info(name)), Type("int", "VP")))
           q == DefineNew(p, e, TRUE)
       IN Advance([q EXCEPT !.load_index = @ @@ (name :> Tmp(q))], Info(name), lanes)

(* With it, of a gather in one load, its permutation.                      *)
ReadPermulation(p, name) ==
  IF name \in DOMAIN p.permulation \/ p.vector = 4 THEN p
  ELSE LET q == DefineNew(p, Load(BitCast(UseVar(p, Info(name)), Int8VPtr)), TRUE)
       IN Advance([q EXCEPT !.permulation = @ @@ (name :> Tmp(q))], Info(name), p.vector \div 4)

ReadInfo(p, name, info) ==
  CASE info.order = "DisOrder" /\ info.mask = "one" -> ReadPermulation(ReadIndex(p, name, 1), name)
    [] info.order = "DisOrder" /\ info.mask = "all" -> ReadIndex(p, name, p.vector)
    [] OTHER                                        -> ReadIndex(p, name, 1)

IndexOf(p, name) == UseVar(p, p.load_index[name])

(* x[index[i]] in one load and a permutation.                              *)
OneLoadExpr(p, a, name) ==
  LET neighbours == Load(VectorAt(p, a, IndexOf(p, name)))
  IN IF p.vector > 4 THEN PermVar(neighbours, UseVar(p, p.permulation[name]))
     ELSE IF neighbours.type.of = "double"
       THEN Shuffle(neighbours, Zero("double"), Table("lanes", name))
     ELSE Fatal

(* Mutant: spread over the lanes for a scattered index as well.            *)
ContinueExpanded(p, a, name, info) ==
  LET loaded == MaskedLoad(VectorAt(p, a, IndexOf(p, name)), Mask(name))
  IN IF info.mask = "all" THEN loaded
     ELSE Shuffle(loaded, Zero(loaded.type.of), Table("expand", name))

(* In a masked load, spread over the lanes unless the index is scattered,  *)
(* whose stores and reduction expect it as it is loaded.                   *)
ContinueExpr(p, a, name, info) ==
  LET loaded == MaskedLoad(VectorAt(p, a, IndexOf(p, name)), Mask(name))
  IN IF name = p.loop.index \/ info.mask = "all" THEN loaded
     ELSE Shuffle(loaded, Zero(loaded.type.of), Table("expand", name))

EquelExpr(p, a, name) ==
  LET loaded == Load(EntryOf(p, a, IndexOf(p, name)))
  IN IF name = p.loop.index THEN loaded ELSE BroadCast(loaded)

GatherExpr(p, a, name, info) ==
  CASE info.order = "DisOrder" /\ info.mask = "one" -> OneLoadExpr(p, a, name)
    [] info.order = "DisOrder" /\ info.mask = "all" ->
         Gather(UseVar(p, <<"PV", a>>), IndexOf(p, name))
    [] info.order = "IncContinue" -> ContinueExpr(p, a, name, info)
    [] info.order = "OrderEquel"  -> EquelExpr(p, a, name)

(* StateMentPass returns an expression none of whose operands it changed.  *)
Kept(p, s) == [ExprOf(p.vars, s) EXCEPT !.type = s.type]

(* pass_(Gather)                                                           *)
PassGather(p, s) ==
  LET name == s.index_name
  IN IF name \notin DOMAIN p.loop.gather THEN Define(p, s.res, Kept(p, s))
     ELSE LET q == ReadInfo(p, name, p.loop.gather[name])
          IN Define(q, s.res, GatherExpr(q, s.addr_name, name, p.loop.gather[name]))

(* Mutant: the pointer to the new array stays where it is.                 *)
PassLoadOnly(p, s) ==
  LET array == <<"array", s.addr_name>>
  IN IF array \notin DOMAIN p.vars THEN p
     ELSE Define(p, s.res, Load(BitCast(UseVar(p, array), Shaped(p.vars[array].type, "VP"))))

(* pass_(Load): a vector of the new array, whose pointer moves on; the     *)
(* load of an array that has none is left out.                             *)
PassLoad(p, s) ==
  LET array == <<"array", s.addr_name>>
  IN IF array \notin DOMAIN p.vars THEN p
     ELSE Advance(Define(p, s.res, Load(BitCast(UseVar(p, array), Shaped(p.vars[array].type, "VP")))),
                  array, p.vector)

-----------------------------------------------------------------------------
(* pass_(Add) of a reduction.                                              *)
ReduceRuns(p, v, name) ==
  LET round == Binary("+", Shuffle(v, Zero(v.type.of), Table("runs", name)), v)
  IN IF v.type.of \in {"float", "double"}
       THEN Shuffle(round, Zero(v.type.of), Table("compress", name)) ELSE Fatal

(* One round in disorder: the permutation is read from the new array, and  *)
(* a lane that has no partner adds zero, always a zero of type float.      *)
DisorderRound(p, sum, name) ==
  LET array == <<"reduction", name>>
      Added(q) == LET perm == UseVar(q, Tmp(q))
                  IN Binary("+", Select(Zero("float"), PermVar(UseVar(q, sum), perm),
                                        ICmpEQ(perm, Const(<<"vector">>, Type("int8", "V")))),
                            UseVar(q, sum))
      q == DefineNew(p, Load(BitCast(UseVar(p, array), Int8VPtr)), TRUE)
  IN Define(Advance(q, array, p.vector \div 4), sum, Added(q))

DisorderRounds(p, sum, name, rounds) ==
  FoldLeft(LAMBDA q, round : DisorderRound(q, sum, name), p, [round \in 1 .. rounds |-> round])

PassAdd(p, s) ==
  LET name == s.index_name
      v1   == UseVar(p, s.args[1])
      v2   == UseVar(p, s.args[2])
      Sum(q, w) == Define(q, s.res, Binary("+", v1, w))
      order == p.loop.scatter.order
  IN IF name # p.loop.index THEN Define(p, s.res, Kept(p, s))
     ELSE CASE order = "OrderEquel"  -> Sum(p, Reduce(v2))
            [] order = "IncContinue" -> Sum(p, ReduceRuns(p, v2, name))
            [] order = "DisOrder"    ->
                 LET q == DefineNew(p, v2, FALSE)
                     r == DisorderRounds(q, Tmp(q), name, p.loop.rounds)
                 IN Sum(r, UseVar(r, Tmp(q)))

(* pass_(Scatter)                                                          *)
PassScatter(p, s) ==
  LET name  == s.index_name
      data  == UseVar(p, s.args[3])
      info  == p.loop.scatter
      lanes == IF info.order = "DisOrder" THEN p.vector ELSE 1
      Stored(q) ==
        CASE info.order = "IncContinue" -> MaskedStore(VectorAt(q, s.addr_name, IndexOf(q, name)), data, Mask(name))
          [] info.order = "OrderEquel"  -> Store(EntryOf(q, s.addr_name, IndexOf(q, name)), data)
          [] info.order = "DisOrder"    -> Scatter(UseVar(q, <<"PV", s.addr_name>>), IndexOf(q, name), data)
      loaded == ReadIndex(p, name, lanes)
  IN Emit(loaded, Stored(loaded))

(* One statement of the seed.                                              *)
PassStatement(p, s) ==
  CASE s.op = "gather"    -> PassGather(p, s)
    [] s.op = "load"      -> PassLoad(p, s)
    [] s.op = "+"         -> PassAdd(p, s)
    [] s.op \in {"*", "/"} -> Define(p, s.res, Kept(p, s))
    [] s.op = "scatter"   -> PassScatter(p, s)
    [] s.op = "store"     -> Emit(p, Store(UseVar(p, s.args[1]), UseVar(p, s.args[2])))

PassAll(p, stats) == FoldLeft(PassStatement, p, stats)

(* pass_(Block): the loop of a bucket.                                     *)
BucketLoop(p, seed) == Emit(PassAll(Emit(p, ForStat(Number(1))), seed), EndFor)

-----------------------------------------------------------------------------
(* The statements named after the output: its gather, the sum and the      *)
(* store.  Any other definition named so is unsupported.                   *)
OfOutput(output, s) == s.node_name = output
RangeUnsupported(output, seed) ==
  \E j \in DOMAIN seed : OfOutput(output, seed[j]) /\ seed[j].op \notin {"gather", "+", "scatter"}

RangeNum  == <<"range", "num">>

(* reduce_var, zero before the columns of a range.                         *)
InitReduceVar(p, type) ==
  DefineNew(p, IF type.of \in {"float", "double"} THEN Zero(type.of) ELSE Fatal, FALSE)

(* The loop over the columns of a range: made has reduce_var, sums are the *)
(* sums of the output, which become additions to it.                       *)
ColumnsOfRange(made, inner, sums) ==
  LET sum         == Tmp(made)
      Added(q, s) == Define(q, sum, Binary("+", UseVar(q, sum), UseVar(q, s.args[2])))
  IN [zero |-> made.out, sum |-> sum,
      body |-> FoldLeft(Added, PassAll([made EXCEPT !.out = <<>>], inner), sums)]

(* How many columns the range has.                                         *)
CountRange(out, body) ==
  DefineNew([body EXCEPT !.out = out \o <<ForStat(Number(1))>>], Load(UseVar(body, RangeNum)), TRUE)

SumRange(counted, range, gathers) ==
  LET begun == PassAll([Advance(counted, RangeNum, 1) EXCEPT !.out = @ \o range.zero], gathers)
  IN [begun EXCEPT !.out = @ \o <<ForStat(UseVar(counted, Tmp(counted)))>> \o range.body.out \o <<EndFor>>]

LoopOverRanges(out, range, named) ==
  LET outer == [j \in DOMAIN named["+"] |-> [named["+"][j] EXCEPT !.args[2] = range.sum]]
      begun == SumRange(CountRange(out, range.body), range, named["gather"])
  IN Emit(PassAll(begun, outer \o named["scatter"]), EndFor)

(* pass_(Block) of the pass for ranges: the gather of y, the sum over the  *)
(* columns of the range and the store happen once for a range.  The pass   *)
(* visits the inner statements first, so the caches they fill are those    *)
(* the outer ones read, which stand before them.                           *)
RangeLoop(p, output, seed) ==
  LET named == [op \in {"gather", "+", "scatter"} |->
                  SelectSeq(seed, LAMBDA s : OfOutput(output, s) /\ s.op = op)]
      inner == SelectSeq(seed, LAMBDA s : ~ OfOutput(output, s))
      made  == InitReduceVar([p EXCEPT !.out = <<>>], named["+"][1].type)
  IN LoopOverRanges(p.out, ColumnsOfRange(made, inner, named["+"]), named)

-----------------------------------------------------------------------------
(* StateMentPass: an expression is visited operands first and made again.  *)
RECURSIVE Visited(_, _, _)
Visited(vs, change, e) ==
  IF e.op = "var"
    THEN IF e.n \in DOMAIN change THEN Use(change[e.n], vs[change[e.n]].type) ELSE e
  ELSE Made(e, [j \in DOMAIN e.args |-> Visited(vs, change, e.args[j])])

(* Mutant: a variable defined again keeps its name.                        *)
RedirectMutableOnly(p, id) == ~ p.vars[id].const

(* RedirectVarPass gives a constant that is defined a variable of its own, *)
(* for the loop it is defined in.                                          *)
Redirects(p, id) == p.vars[id].const

(* One statement of RedirectVarPass; change is change_var_var_.            *)
RedirectStatement(p, s) ==
  LET args == [j \in DOMAIN s.args |-> Visited(p.vars, p.change, s.args[j])]
      type == args[1].type
      q    == NewVar(p, type, TRUE)
  IN IF s.op = "let" /\ Redirects(p, s.res)
       THEN Emit([q EXCEPT !.change = [id \in DOMAIN @ \cup {s.res} |-> IF id = s.res THEN Tmp(q) ELSE @[id]]],
                 LetStat(Tmp(q), type, args[1]))
     ELSE Emit(p, CASE s.op = "store" /\ Len(args) = 2 -> Store(args[1], args[2])
                    [] s.op = "store" /\ Len(args) = 3 -> MaskedStore(args[1], args[2], args[3])
                    [] s.op = "scatter"                -> Scatter(args[1], args[2], args[3])
                    [] s.op = "let"                    -> LetStat(s.res, type, args[1])
                    [] OTHER                           -> [s EXCEPT !.args = args])

RedirectVars(p) ==
  FoldLeft(RedirectStatement, [out |-> <<>>, change |-> <<>>, vars |-> p.vars, tmps |-> p.tmps], p.out)
=============================================================================
