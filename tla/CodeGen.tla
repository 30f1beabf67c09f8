------------------------------- MODULE CodeGen -------------------------------
(***************************************************************************)
(* LLVMCodeGen of llvm_codegen.cpp, run over the statements of a function. *)
(* Instead of instructions it keeps the value each variable then holds, as *)
(* a term: the body of a loop is evaluated once, for one column, and       *)
(* stored collects what the column stores.                                 *)
(*                                                                         *)
(* A pointer is <<"ptr", array, offset>>; any other value is the name of   *)
(* the operation and its operands.                                         *)
(***************************************************************************)
EXTENDS Optimization

VARIABLES
  vector,           (* vector_                                             *)
  vars,             (* The variables the statements use.                   *)
  code,             (* The statements of the function.                     *)
  generated,        (* How many of them are generated.                     *)
  values,           (* var_val_map_ and arg_val_map_.                      *)
  scopes,           (* The variables known before each open loop.          *)
  dead,             (* Constants of loops that are closed.                 *)
  opened,           (* How many loops of buckets and ranges are begun.     *)
  start,            (* The mutable variables at the start of the loop.     *)
  stored            (* What the loop has stored.                           *)

codegen_vars == <<generated, values, scopes, dead, opened, start, stored>>

CodeGenStart ==
  /\ generated = 0 /\ values = <<>> /\ scopes = <<>> /\ dead = {}
  /\ opened = 0 /\ start = <<>> /\ stored = <<>>

Stat_       == code[generated + 1]
IsConst(id) == vars[id].const
Mutable     == {id \in DOMAIN values : ~ IsConst(id)}
Generated   == generated' = generated + 1

-----------------------------------------------------------------------------
(* The permutation instructions there are.                                 *)
PermVarTypes == {<<"double", 8>>, <<"float", 16>>, <<"float", 8>>}

(* What is wrong with an expression: "fatal" is what CodeGen reports,      *)
(* "invalid" an instruction LLVM does not allow.                           *)
RECURSIVE Problems(_)
Problems(e) ==
  LET own ==
        CASE e.op = "var" /\ e.n \notin DOMAIN values -> {"fatal"}
          [] e.op = "var" /\ e.n \in dead             -> {"invalid"}
          [] e.op = "shuffle" /\ Len(e.args) = 2
               /\ <<e.type.of, vector>> \notin PermVarTypes -> {"fatal"}
          [] e.op \in BinaryOps /\ e.args[1].type # e.args[2].type -> {"invalid"}
          [] e.op = "reduce" /\ e.args[1].type.shape # "V" -> {"invalid"}
          [] OTHER -> {}
  IN own \cup UNION {Problems(e.args[j]) : j \in DOMAIN e.args}

(* A constant has one definition.                                          *)
Redefined(s) == s.op = "let" /\ s.res \in DOMAIN values /\ IsConst(s.res)

StatProblems(s) ==
  UNION {Problems(s.args[j]) : j \in DOMAIN s.args} \cup (IF Redefined(s) THEN {"fatal"} ELSE {})

(* The value of an expression: casts keep it, a constant address is the    *)
(* pointer to a new array, and a pointer and a number add up.              *)
RECURSIVE Value(_)
Value(e) ==
  LET v == [j \in DOMAIN e.args |-> Value(e.args[j])]
  IN CASE e.op = "var"                                -> values[e.n]
       [] e.op = "const" /\ e.n[1] = "address"        -> <<"ptr", e.n[2], 0>>
       [] e.op = "const" /\ e.n[1] # "address"        -> e.n
       [] e.op = "bitcast"                            -> v[1]
       [] e.op = "broadcast" /\ IsPointer(e.type)     -> v[1]
       [] e.op = "inc_addr" /\ v[2][1] = "number"     -> [v[1] EXCEPT ![3] = @ + v[2][2]]
       [] e.op = "load"                               -> <<"load", e.type.of, e.type.shape>> \o v
       [] OTHER                                       -> <<e.op>> \o v

-----------------------------------------------------------------------------
(* AddFunction: the arguments, and the statements generate_func made to    *)
(* set their casts and the pointers to the new arrays.                     *)
AddFunction ==
  /\ values' = [id \in {v \in DOMAIN vars : v[1] \in {"arg", "VP", "PV", "info", "reduction", "array"}} |->
                  IF IsConst(id) THEN <<"ptr", <<"arg", id[2]>>, 0>> ELSE <<"ptr", id, 0>>]
  /\ UNCHANGED <<generated, scopes, dead, opened, start, stored>>

GenerateFor ==
  /\ Stat_.op = "for"
  /\ scopes' = Append(scopes, DOMAIN values)
  /\ IF scopes = <<>>
       THEN opened' = opened + 1 /\ start' = [id \in Mutable |-> values[id]] /\ stored' = <<>>
       ELSE UNCHANGED <<opened, start, stored>>
  /\ Generated
  /\ UNCHANGED <<values, dead>>

(* What follows a loop is not dominated by its body.                       *)
GenerateEnd ==
  /\ Stat_.op = "end"
  /\ dead' = dead \cup ((DOMAIN values \ Last(scopes)) \ Mutable)
  /\ scopes' = Front(scopes)
  /\ Generated
  /\ UNCHANGED <<values, opened, start, stored>>

GenerateLet ==
  /\ Stat_.op = "let"
  /\ values' = [id \in DOMAIN values \cup {Stat_.res} |->
                  IF id = Stat_.res THEN Value(Stat_.args[1]) ELSE values[id]]
  /\ Generated
  /\ UNCHANGED <<scopes, dead, opened, start, stored>>

GenerateStore ==
  /\ Stat_.op \in {"store", "scatter"}
  /\ stored' = Append(stored, <<Stat_.op>> \o [j \in DOMAIN Stat_.args |-> Value(Stat_.args[j])])
  /\ Generated
  /\ UNCHANGED <<values, scopes, dead, opened, start>>

Generate ==
  /\ generated < Len(code)
  /\ StatProblems(Stat_) = {}
  /\ GenerateFor \/ GenerateEnd \/ GenerateLet \/ GenerateStore
=============================================================================
