----------------------------- MODULE Statements -----------------------------
(***************************************************************************)
(* The statements of statement.hpp: what each constructor demands of its   *)
(* operands and which type it gives the result.  An expression is a tree;  *)
(* its type is taken when it is made, and a variable's type may change     *)
(* later.  A failed CHECK makes the expression Fatal, and with it every    *)
(* one made from it.                                                       *)
(***************************************************************************)
EXTENDS Naturals, Sequences, FiniteSets

(* type.hpp: a basic type, and whether it is a scalar S, a vector V, a     *)
(* pointer to either (SP, VP) or a vector of pointers (PV).                *)
Type(of, shape) == [of |-> of, shape |-> shape]
NoType          == Type("none", "S")
Shaped(t, shape) == [t EXCEPT !.shape = shape]

IsPointer(t) == t.shape \in {"SP", "VP", "PV"}

(* get_pointer2type, with the lanes of the pointer.                        *)
PointeeOf(t) == Shaped(t, IF t.shape = "SP" THEN "S" ELSE "V")

-----------------------------------------------------------------------------
Expr(op, n, args, type) == [op |-> op, n |-> n, args |-> args, type |-> type]
Fatal == Expr("fatal", 0, <<>>, NoType)

IsFatal(e) == e.op = "fatal"
Checked(check, e) ==
  IF check /\ \A j \in DOMAIN e.args : ~ IsFatal(e.args[j]) THEN e ELSE Fatal

Use(var, type)   == Expr("var", var, <<>>, type)
Const(n, type)   == Expr("const", n, <<>>, type)

Number(n)    == Const(<<"number", n>>, Type("int", "S"))
Address(n)   == Const(<<"address", n>>, Type("int64", "S"))

BitCast(v, type) == Checked(TRUE, Expr("bitcast", 0, <<v>>, type))
BroadCast(v) ==
  Checked(TRUE, Expr("broadcast", 0, <<v>>, Shaped(v.type, IF IsPointer(v.type) THEN "PV" ELSE "V")))
IncAddr(addr, inc) == Checked(IsPointer(addr.type), Expr("inc_addr", 0, <<addr, inc>>, addr.type))
Load(addr) ==
  Checked(IsPointer(addr.type), Expr("load", 0, <<addr>>, PointeeOf(addr.type)))
MaskedLoad(addr, mask) ==
  Checked(IsPointer(addr.type), Expr("load", 0, <<addr, mask>>, PointeeOf(addr.type)))
Gather(addr, idx) == Checked(TRUE, Expr("gather", 0, <<addr, idx>>, PointeeOf(addr.type)))
PermVar(v, idx) == Checked(TRUE, Expr("shuffle", 0, <<v, idx>>, v.type))
Shuffle(v, w, idx) ==
  Checked(v.type = w.type /\ idx.type = Type("int", "V"),
          Expr("shuffle", 0, <<v, w, idx>>, Shaped(v.type, "V")))
Select(v, w, idx) ==
  Checked(v.type = w.type /\ idx.type = Type("bool", "V"), Expr("select", 0, <<v, w, idx>>, v.type))
ICmpEQ(v, w) == Checked(TRUE, Expr("icmpeq", 0, <<v, w>>, Type("bool", "V")))
Reduce(v)    == Checked(TRUE, Expr("reduce", 0, <<v>>, Shaped(v.type, "S")))
Binary(op, v, w) == Checked(TRUE, Expr(op, 0, <<v, w>>, v.type))

BinaryOps == {"+", "*", "/"}

(* A shuffle or a select made again from other operands.                   *)
MadeOfLanes(e, args) ==
  CASE e.op = "shuffle" /\ Len(args) = 2 -> PermVar(args[1], args[2])
    [] e.op = "shuffle" /\ Len(args) = 3 -> Shuffle(args[1], args[2], args[3])
    [] e.op = "select"                   -> Select(args[1], args[2], args[3])

(* Any expression made again from other operands: a pass has visited them. *)
Made(e, args) ==
  CASE e.op \in {"var", "const", "fatal"}           -> e
    [] e.op = "bitcast"                             -> BitCast(args[1], e.type)
    [] e.op = "broadcast"                           -> BroadCast(args[1])
    [] e.op = "inc_addr"                            -> IncAddr(args[1], args[2])
    [] e.op = "load" /\ Len(args) = 1               -> Load(args[1])
    [] e.op = "load" /\ Len(args) = 2               -> MaskedLoad(args[1], args[2])
    [] e.op = "gather"                              -> Gather(args[1], args[2])
    [] e.op \in {"shuffle", "select"}                -> MadeOfLanes(e, args)
    [] e.op = "icmpeq"                              -> ICmpEQ(args[1], args[2])
    [] e.op = "reduce"                              -> Reduce(args[1])
    [] e.op \in BinaryOps                           -> Binary(e.op, args[1], args[2])

-----------------------------------------------------------------------------
(* Statements: definitions, stores, and the two ends of a loop (a Block is *)
(* the sequence of its statements).  type is what the variable has then.   *)
Stat(op, res, args) == [op |-> op, res |-> res, args |-> args]

LetStat(var, type, e) ==
  IF IsFatal(e) \/ type # e.type THEN Stat("fatal", 0, <<>>) ELSE Stat("let", var, <<e>>)
Store(addr, data) ==
  IF IsFatal(addr) \/ IsFatal(data) \/ PointeeOf(addr.type) # data.type
    THEN Stat("fatal", 0, <<>>) ELSE Stat("store", 0, <<addr, data>>)
MaskedStore(addr, data, mask) ==
  LET s == Store(addr, data)
  IN IF s.op = "fatal" THEN s ELSE [s EXCEPT !.args = Append(@, mask)]
Scatter(addr, idx, data) ==
  IF IsFatal(data) THEN Stat("fatal", 0, <<>>) ELSE Stat("scatter", 0, <<addr, idx, data>>)
ForStat(count) == Stat("for", 0, <<count>>)
EndFor     == Stat("end", 0, <<>>)
=============================================================================
