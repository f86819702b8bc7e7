---------------------------- MODULE MCInterpreter ----------------------------
(***************************************************************************)
(* Small instances of Interpreter for TLC, which also evaluates the rules  *)
(* of Ownership on every function that they call.                          *)
(***************************************************************************)
EXTENDS Ownership
=============================================================================
