------------------------------- MODULE Library -------------------------------
(***************************************************************************)
(* What the C functions of the evaluator and of the library do to the      *)
(* references they own, to the safety buffer and to the environment, each  *)
(* written as a sequence of steps.  The module Interpreter runs them.      *)
(*                                                                         *)
(* A step names C locals of its function.  A local that is given a         *)
(* reference owns it until it is released (qz_unref), given away (stored   *)
(* in a cell, returned) or taken over by a new cell.  What becomes of a    *)
(* reference in the cell, values that are only read, and the values        *)
(* themselves, are left out.  with_file and scm_set_b release what a slot  *)
(* gives back after an evaluation, which others may have released or       *)
(* overwritten; they break the rules of ownership, as others do that are   *)
(* wrong by themselves, and no run calls them.  That scm_force evaluates   *)
(* an expression which only the promise owns does not show here.           *)
(***************************************************************************)
EXTENDS SequencesExt, Integers

(***************************************************************************)
(* Steps.                                                                  *)
(***************************************************************************)
Check        == [op |-> "check"]                  \* go on, or qz_error
Eval(x)      == [op |-> "eval", var |-> x]        \* x = qz_eval(...)
Call(f, x)   == [op |-> "call", fn |-> f, var |-> x]
EvalNone     == [op |-> "eval_none"]              \* qz_eval(st, QZ_NONE)
CallCfun(x)  == [op |-> "cfun", var |-> x]        \* qz_to_cfun(fun)(st, obj)
Return(x)    == [op |-> "return", var |-> x]
ReturnValue  == Return("immediate")               \* a value that is no cell
Make(x, S)   == [op |-> "make", var |-> x, from |-> S]
Take(x)      == Make(x, {})                       \* qz_ref, or a new cell
Immediate(x) == [op |-> "immediate", var |-> x]   \* x turned out to be no cell
Unref(x)     == [op |-> "unref", var |-> x]
Use(x)       == [op |-> "use", var |-> x]         \* qz_error(..., &x, ...)
Give(x)      == [op |-> "give", var |-> x]        \* stored in some cell
Borrow(x)    == <<Take(x), Give(x)>>              \* x = a part of an object
Push(x)      == [op |-> "push", var |-> x]        \* qz_push_safety
Pop(n)       == [op |-> "pop", n |-> n]           \* qz_pop_safety
SaveSize     == [op |-> "save_size"]              \* old_safety_buffer_size
Cleanup      == [op |-> "cleanup"]                \* cleanup_safety_buffer
PushEnv(S)   == [op |-> "push_env", from |-> S]   \* old_env, new st->env
PopEnv       == [op |-> "pop_env"]
Error        == [op |-> "error"]                  \* qz_error
Raise(x)     == [op |-> "raise", var |-> x]       \* error_obj = x, longjmp
SetHandler(x) == [op |-> "set_handler", var |-> x]
ResetHandler == [op |-> "reset_handler"]
SetJmp       == [op |-> "setjmp"]
ResetJmp     == [op |-> "reset_jmp"]
HandlerCall  == [op |-> "handler_call", var |-> "call"]
IfHandler(n) == [op |-> "if_handler", n |-> n]    \* no handler: skip n steps
Jump(S)      == [op |-> "jump", by |-> S]

(***************************************************************************)
(* Control.  Which way a condition goes depends on data that is left out.  *)
(***************************************************************************)
Maybe(A)  == <<Jump({1, Len(A) + 1})>> \o A
Alt(A, B) == <<Jump({1, Len(A) + 2})>> \o A \o <<Jump({Len(B) + 1})>> \o B
Loop(A)   == <<Jump({1, Len(A) + 2})>> \o A \o <<Jump({- (Len(A) + 1)})>>

(***************************************************************************)
(* The evaluator (quuz-state.c, quuz-util.c).                              *)
(***************************************************************************)

\* qz_get_args: each argument is in the safety buffer while the next one is
\* evaluated and the types are checked
GetArgs(xs) ==
  FlattenSeq([i \in DOMAIN xs |-> <<Check, Eval(xs[i]), Push(xs[i]), Check>>])
    \o <<Pop(Len(xs))>>

\* qz_eval_list: the list built so far is in the safety buffer
EvalList(x) ==
  Maybe(<<Push("null"), Eval("elem"), Pop(1), Make(x, {"elem"})>>
          \o Loop(<<Push(x), Eval("elem"), Pop(1), Give("elem")>>))

\* qz_eval of a pair: a function, a C function, or neither
qz_eval ==
  <<Eval("fun")>>
    \o Alt(<<Push("fun"), Call("call_function", "result"), Pop(1),
             Unref("fun"), Return("result")>>,
       Alt(<<Immediate("fun"), SaveSize, CallCfun("result"), Cleanup,
             Return("result")>>,
           <<Push("fun"), Error>>))

\* the fixed parameters, then a rest parameter, nothing, or bad formals
call_function ==
  <<Take("frame")>>
    \o Loop(Maybe(<<Unref("frame"), Error>>)
              \o <<Push("frame"), Eval("arg"), Pop(1), Give("arg")>>)
    \o Alt(<<>>, Alt(<<Unref("frame"), Error>>,
                     <<Push("frame")>> \o EvalList("rest_args")
                       \o <<Pop(1), Give("rest_args")>>))
    \o <<PushEnv({"frame"}), Push("env"), Eval("result"), Pop(1), PopEnv,
         Return("result")>>

\* qz_peval; longjmp comes back at CatchPc
qz_peval ==
  <<SetJmp, Eval("result"), Jump({7}),
    IfHandler(4), HandlerCall, Call("qz_peval", "result"), Unref("call"),
    ResetHandler, Cleanup,
    ResetJmp, Return("result")>>

CatchPc == 4

(***************************************************************************)
(* Library functions (quuz-lib.c).                                         *)
(***************************************************************************)

\* the expressions of a body, one after the other, x the value of the last
Body(x) == Loop(<<Unref(x), Eval(x)>>)

scm_begin == Body("result") \o <<Return("result")>>

scm_quote == <<Check, Take("datum"), Return("datum")>>

scm_lambda ==
  <<Check, Take("formals"), Take("body"), Make("fun", {"formals", "body"}),
    Return("fun")>>

\* a missing alternate is evaluated too
scm_if ==
  <<Check, Check, Eval("test_result")>>
    \o Alt(<<Immediate("test_result")>> \o Maybe(<<EvalNone>>),
           <<Unref("test_result")>>)
    \o <<Eval("result"), Return("result")>>

\* the slot keeps the value, and what it held is released.  If the expression
\* made the table of the frame larger the slot is in freed memory: what it held
\* belongs to the new table, and the value to nobody
scm_set_b ==
  <<Check, Check, Check, Eval("value")>>
    \o Alt(<<Give("value")>>, Borrow("old") \o <<Unref("old")>>) \o <<ReturnValue>>

\* clauses whose test is false, then one whose test is not, or else
scm_cond ==
  Loop(<<Check, Eval("result"), Immediate("result")>>)
    \o Maybe(<<ReturnValue>>)
    \o <<Check>> \o Maybe(<<Eval("result")>>)
    \o Maybe(<<Return("result")>>)
    \o Alt(<<Push("result"), Check, Pop(1), Make("fun_call", {"result"}),
             Push("fun_call"), Eval("result"), Pop(1), Unref("fun_call")>>,
           <<Unref("result"), Eval("result")>> \o Body("result"))
    \o <<Return("result")>>

\* and stops at a false value, or at a true one
scm_and == Body("result") \o Maybe(<<Immediate("result")>>) \o <<Return("result")>>

scm_or ==
  Loop(<<Eval("result"), Immediate("result")>>)
    \o Maybe(<<Eval("result"), Return("result")>>) \o <<ReturnValue>>

scm_when ==
  <<Check, Eval("result")>> \o Maybe(<<Immediate("result"), ReturnValue>>)
    \o <<Unref("result")>> \o Body("value") \o <<Unref("value"), ReturnValue>>

scm_unless ==
  <<Check, Eval("result")>> \o Maybe(<<Unref("result"), ReturnValue>>)
    \o <<Immediate("result")>> \o Body("value")
    \o <<Unref("value"), ReturnValue>>

\* a frame that is not yet the environment is in the safety buffer while
\* its variables are evaluated; the environment is, while the body runs
scm_let ==
  <<Check, Take("frame")>>
    \o Loop(<<Push("frame"), Check, Eval("value"), Give("value"), Pop(1)>>)
    \o <<PushEnv({"frame"}), Push("env")>> \o Body("result")
    \o <<Pop(1), PopEnv, Return("result")>>

scm_let_s ==
  <<Check, PushEnv({}), Push("env")>>
    \o Loop(<<Check, Eval("value"), Give("value")>>) \o Body("result")
    \o <<Pop(1), PopEnv, Return("result")>>

scm_delay == <<Check, Take("promise"), Return("promise")>>

scm_eager == GetArgs(<<"obj">>) \o <<Make("promise", {"obj"}), Return("promise")>>

scm_lazy == GetArgs(<<"obj">>) \o <<Return("obj")>>

\* a promise that was forced before, or one that is forced now
scm_force ==
  GetArgs(<<"obj">>)
    \o Alt(<<Take("result"), Unref("obj")>>,
           <<Push("obj"), PushEnv({}), Push("env"), Eval("result"), Pop(1),
             PopEnv, Pop(1), Unref("obj")>>)
    \o <<Return("result")>>

scm_define ==
  <<Check>>
    \o Alt(<<Check, Eval("value"), Give("value")>>,
           <<Check, Take("formals"), Take("body"),
             Make("fun", {"formals", "body"}), Give("fun")>>)
    \o <<ReturnValue>>

\* quasiquote.  A template inside a template is an expression, a datum or a
\* template: like an expression it gives a reference, or an error.  A list is
\* made pair by pair, the tail of a list spliced in checked; it is in the
\* safety buffer as soon as it has a pair
qq_list ==
  Alt(<<Eval("result")>>,
      Loop(<<Eval("obj"), Immediate("obj")>>)
        \o Maybe(<<Eval("obj"), Make("result", {"obj"}), Push("result"), Check>>
                   \o Loop(<<Eval("obj"), Give("obj"), Check>>) \o <<Pop(1)>>))

qq_vector ==
  <<Take("result"), Push("result")>> \o Loop(<<Eval("obj"), Give("obj")>>) \o <<Pop(1)>>

scm_quasiquote ==
  Alt(<<Eval("result")>>, Alt(qq_list, Alt(qq_vector, <<Take("result")>>)))
    \o <<Return("result")>>

\* what is evaluated to find the expression is not released
scm_unquote == <<Eval("expr"), Eval("result"), Return("result")>>

\* the table takes over the name with the function.  A symbol has no reference;
\* that of any other name stays with the expression, too
SymbolName == <<>>
AnyName    == Maybe(Borrow("name") \o <<Give("name")>>)
make_function(x, name) ==
  <<Take("body"), Make(x, {"body"})>> \o name \o <<Give(x)>>

\* a predicate, a constructor, and an accessor and a modifier for the fields,
\* whose names are not checked
scm_define_record_type ==
  <<Check, Check>> \o make_function("pred", SymbolName)
    \o make_function("ctor", SymbolName)
    \o Loop(<<Check>> \o make_function("accessor", AnyName)) \o <<ReturnValue>>

\* the record is in the safety buffer while its fields are filled; they
\* take no reference of their own
make_record ==
  <<Check, Take("cell"), Push("cell")>>
    \o Loop(<<Check, Take("init"), Give("init"), Give("init")>>)
    \o <<Pop(1), Return("cell")>>

\* the record is not released
access_record ==
  <<Check>> \o GetArgs(<<"record">>) \o <<Check, Take("field"), Return("field")>>

modify_record ==
  <<Check>> \o GetArgs(<<"record", "value">>)
    \o <<Check, Take("field"), Give("field"), ReturnValue>>

is_record == <<Check>> \o GetArgs(<<"record">>) \o <<ReturnValue>>

predicate == <<Check, Eval("value"), Unref("value"), ReturnValue>>

\* each value is in the safety buffer while the next one is evaluated
compare_many ==
  <<Check, Eval("prev")>> \o Maybe(<<Push("prev"), Error>>)
    \o Loop(<<Push("prev"), Eval("curr")>> \o Maybe(<<Push("curr"), Error>>)
              \o <<Pop(1)>>
              \o Maybe(<<Unref("prev"), Unref("curr"), ReturnValue>>)
              \o <<Unref("prev"), Make("prev", {"curr"})>>)
    \o <<Unref("prev"), ReturnValue>>

scm_cons ==
  GetArgs(<<"obj1", "obj2">>) \o <<Make("pair", {"obj1", "obj2"}), Return("pair")>>

scm_car == GetArgs(<<"pair">>) \o <<Take("first"), Unref("pair"), Return("first")>>

scm_set_car_b ==
  GetArgs(<<"pair", "first">>) \o <<Give("first"), Unref("pair"), ReturnValue>>

\* the array stays in the safety buffer, where qz_eval releases it
array_ref ==
  GetArgs(<<"arr", "k">>)
    \o <<Immediate("k"), Push("arr"), Check, Take("result"), Return("result")>>

scm_list == EvalList("result") \o <<Return("result")>>

\* apply: the last argument is evaluated and becomes the rest of the call
scm_apply ==
  <<Check>>
    \o Alt(<<Take("fun_call"), Push("fun_call"), Eval("inner_elem"), Pop(1),
             Give("inner_elem")>>,
           <<Push("null"), Eval("inner_elem"), Pop(1),
             Make("fun_call", {"inner_elem"})>>)
    \o <<Push("fun_call"), Eval("result"), Pop(1), Unref("fun_call"),
         Return("result")>>

\* memq, memv and member, with a comparator or without: an element is
\* found, or the end of the list is an error
inner_member ==
  GetArgs(<<"obj", "list">>)
    \o Alt(<<Take("args"), Eval("cmp"), Make("custom_cmp", {"args", "cmp"}),
             Push("custom_cmp"), Check, Eval("match"), Unref("match")>>
             \o Loop(<<Check, Eval("match"), Unref("match")>>)
             \o <<Take("result"), Pop(1), Unref("custom_cmp")>>,
           <<Check, Take("result")>>)
    \o <<Pop(2), Unref("obj"), Unref("list"), Return("result")>>

scm_eval == <<Check, Eval("result"), Return("result")>>

scm_with_exception_handler ==
  GetArgs(<<"handler", "thunk">>)
    \o <<Make("call", {"thunk"}), SetHandler("handler"),
         Call("qz_peval", "result"), ResetHandler, Unref("handler"),
         Unref("call"), Return("result")>>

scm_raise == GetArgs(<<"obj">>) \o <<Raise("obj")>>

scm_error ==
  GetArgs(<<"message">>) \o <<Push("message")>> \o EvalList("irritants")
    \o <<Pop(1), Make("error", {"message", "irritants"}), Raise("error")>>
=============================================================================
