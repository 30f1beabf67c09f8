------------------------------ MODULE Compiler ------------------------------
(***************************************************************************)
(* compiler() of intelligent_unroll.cpp as its first two stages see it:    *)
(* what the parser leaves is what generate_code_seed works on, call after  *)
(* call, and the stages around them, whatever they do, come in their order *)
(* or give up.  FrontEnd has all of the stages and implements this module. *)
(***************************************************************************)
EXTENDS Parser, CodeSeed

compiler_vars == <<parser_vars, seed_vars>>

SeedIdle == cal_queue = <<>> /\ top_node = 0 /\ found = 0 /\ emitted = <<>>

CompilerInit == ParserInit /\ SeedIdle

Parse == ParserNext /\ UNCHANGED seed_vars

(* A stage that changes neither the tree nor the seed: parse_expression,   *)
(* generate_information, optimization_state and the code generator.        *)
Stages == {<<"parsed", "lanes">>, <<"lanes", "informed">>, <<"optimize", "codegen">>, <<"codegen", "done">>}

Stage ==
  /\ <<pc, pc'>> \in Stages
  /\ UNCHANGED <<lexer, stack, result, tree, usage, decls, seed_vars>>

(* It may also end the process.                                            *)
GiveUp ==
  /\ pc \in {"parsed", "informed", "optimize", "codegen"}
  /\ pc' \in {"fatal", "crash", "check", "invalid"}
  /\ UNCHANGED <<lexer, stack, result, tree, usage, decls, seed_vars>>

(* generate_func, which has no tree to start from when there was no lambda.*)
BeginSeed ==
  /\ pc = "informed" /\ root_node # 0
  /\ pc' = "seed" /\ SeedStart'
  /\ UNCHANGED <<lexer, stack, result, tree, usage, decls>>

EmitSeed == pc = "seed" /\ SeedNext /\ UNCHANGED <<lexer, control, usage, decls>>

EndSeed ==
  /\ pc = "seed" /\ SeedDone
  /\ pc' = "optimize"
  /\ UNCHANGED <<lexer, stack, result, tree, usage, decls, seed_vars>>

(* The next call has a new ParseClass; the position of the tokenizer is    *)
(* static.                                                                 *)
CallNext ==
  /\ pc = "done"
  /\ expr' \in Seq(STRING) /\ UNCHANGED index
  /\ ParserStart' /\ SeedIdle'

CompilerNext == Parse \/ Stage \/ GiveUp \/ BeginSeed \/ EmitSeed \/ EndSeed \/ CallNext

CompilerSpec == CompilerInit /\ [][CompilerNext]_compiler_vars
=============================================================================
