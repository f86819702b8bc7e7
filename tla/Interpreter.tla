----------------------------- MODULE Interpreter -----------------------------
(***************************************************************************)
(* The interpreter state of quuz (quuz-state.c) under every program: the   *)
(* environment st->env, the safety buffer, the chain of qz_peval calls     *)
(* that errors longjmp to, the error handler and the error object, while   *)
(* C functions call one another and errors unwind them.                    *)
(*                                                                         *)
(* The C stack is `calls'.  Each call runs the steps of its function       *)
(* (modules Library and LibraryObjects); a longjmp drops any number of     *)
(* calls at once, and what their locals owned is only reachable through    *)
(* the safety buffer.                                                      *)
(***************************************************************************)
EXTENDS LibraryObjects, FiniteSets

CONSTANTS
  Functions,  \* the library functions that programs may call
  Capacity,   \* QZ_SAFETY_BUFFER_CAPACITY
  MaxCalls    \* bound: no expression is a call below this many C calls

VARIABLES
  calls,      \* the C stack, innermost call first
  env,        \* st->env: the environments pushed on the top level's
  safety,     \* st->safety_buffer
  held,       \* references that are owned and not released
  gone,       \* references that were released or given away
  pevalFail,  \* st->peval_fail: the call of qz_peval to jump to
  handler,    \* st->error_handler
  errorObj,   \* st->error_obj
  fault       \* how the program went wrong, "none" while it is right

vars == <<calls, env, safety, held, gone, pevalFail, handler, errorObj, fault>>

Script ==
  [qz_eval |-> qz_eval, call_function |-> call_function,
   qz_peval |-> qz_peval, scm_begin |-> scm_begin, scm_quote |-> scm_quote,
   scm_lambda |-> scm_lambda, scm_if |-> scm_if, scm_set_b |-> scm_set_b,
   scm_cond |-> scm_cond, scm_and |-> scm_and, scm_or |-> scm_or,
   scm_when |-> scm_when, scm_unless |-> scm_unless, scm_let |-> scm_let,
   scm_let_s |-> scm_let_s, scm_delay |-> scm_delay, scm_eager |-> scm_eager,
   scm_force |-> scm_force, scm_define |-> scm_define,
   predicate |-> predicate, compare_many |-> compare_many,
   scm_cons |-> scm_cons, scm_car |-> scm_car,
   scm_set_car_b |-> scm_set_car_b, array_ref |-> array_ref,
   scm_list |-> scm_list, scm_apply |-> scm_apply,
   inner_member |-> inner_member, scm_eval |-> scm_eval,
   scm_with_exception_handler |-> scm_with_exception_handler,
   scm_raise |-> scm_raise, scm_error |-> scm_error,
   constructor |-> constructor, compare |-> compare, scm_not |-> scm_not,
   inner_char_predicate |-> inner_char_predicate,
   scm_char_a_integer |-> scm_char_a_integer, scm_num_add |-> scm_num_add,
   scm_num_sub |-> scm_num_sub, scm_make_list |-> scm_make_list,
   scm_list_tail |-> scm_list_tail, scm_list_ref |-> scm_list_ref,
   scm_list_set_b |-> scm_list_set_b, scm_length |-> scm_length,
   scm_reverse |-> scm_reverse, scm_list_copy |-> scm_list_copy,
   inner_assoc |-> inner_assoc, scm_symbol_a_string |-> scm_symbol_a_string,
   scm_string_a_symbol |-> scm_string_a_symbol,
   scm_make_string |-> scm_make_string, array_length |-> array_length,
   transform_string |-> transform_string, scm_substring |-> scm_substring,
   scm_string_a_list |-> scm_string_a_list,
   scm_list_a_string |-> scm_list_a_string,
   scm_make_vector |-> scm_make_vector,
   scm_list_a_vector |-> scm_list_a_vector,
   scm_vector_a_string |-> scm_vector_a_string,
   scm_string_a_vector |-> scm_string_a_vector,
   scm_vector_a_list |-> scm_vector_a_list, array_set |-> array_set,
   scm_vector_copy |-> scm_vector_copy, scm_case |-> scm_case,
   scm_error_object_message |-> scm_error_object_message,
   scm_call_with_port |-> scm_call_with_port,
   call_with_file |-> call_with_file, with_file |-> with_file,
   open_file |-> open_file, close_port_of_type |-> close_port_of_type,
   scm_read |-> scm_read, use_port |-> use_port,
   scm_read_bytevector |-> scm_read_bytevector,
   scm_read_bytevector_b |-> scm_read_bytevector_b, scm_write |-> scm_write,
   scm_delete_file |-> scm_delete_file, scm_lazy |-> scm_lazy,
   scm_quasiquote |-> scm_quasiquote, scm_unquote |-> scm_unquote,
   scm_define_record_type |-> scm_define_record_type,
   make_record |-> make_record, access_record |-> access_record,
   modify_record |-> modify_record, is_record |-> is_record]

ASSUME InterpreterAssumption ==
  /\ Functions \subseteq DOMAIN Script \ {"qz_eval", "call_function", "qz_peval"}
  /\ Capacity \in Nat
  /\ MaxCalls \in Nat

(***************************************************************************)
(* A reference is a call and the name of the local that owns it; the names *)
(* that are spelt out are those the evaluator itself uses.                 *)
(***************************************************************************)
Name == STRING \cup {"env", "error_obj", "result", "none", "failsafe"}

NoObj    == <<0, "none">>       \* QZ_NONE
Failsafe == <<0, "failsafe">>   \* qz_error_handler
NoCall   == 0                   \* NULL

Top    == Head(calls)
Step   == Script[Top.fn][Top.pc]
Obj(x) == <<Top.id, x>>
Objs(S) == {Obj(x) : x \in S}

LiveIds(cs) == {cs[k].id : k \in DOMAIN cs}

\* an identity for a new call that nothing refers to
UsedIds == LiveIds(calls) \cup {o[1] : o \in held \cup gone \cup ToSet(safety)}
NewId == CHOOSE i \in 1 .. Cardinality(UsedIds) + 1 : i \notin UsedIds

(***************************************************************************)
(* A new call of f for the caller's local x.  `base', `oldEnv', `fail' and *)
(* `saved' are the C locals that keep the size of the safety buffer,       *)
(* st->env, st->peval_fail and st->error_handler; `from' is what the       *)
(* caller expects to find again.  safeCall: what is evaluated is a call of *)
(* qz_error_handler.                                                       *)
(***************************************************************************)
Surroundings == <<env, Len(safety), pevalFail, handler>>

NewCall(f, x, safe) ==
  [fn |-> f, pc |-> 1, id |-> NewId, dest |-> x, base |-> 0, oldEnv |-> <<>>,
   fail |-> NoCall, saved |-> NoObj, safeCall |-> safe,
   from |-> Surroundings]

\* references of dead calls that nothing can release any more
Forget(g, cs, sb) ==
  {o \in g : o[1] \in LiveIds(cs) \/ o \in ToSet(sb)}

Init ==
  /\ calls = <<>>
  /\ env = <<>>
  /\ safety = <<>>
  /\ held = {}
  /\ gone = {}
  /\ pevalFail = NoCall
  /\ handler = NoObj
  /\ errorObj = NoObj
  /\ fault = "none"

(***************************************************************************)
(* What a step must not do.                                                *)
(***************************************************************************)

\* a local that owns a reference, or whose value is in the safety buffer, is
\* about to get another value
Overwrites(x) == Obj(x) \in held \/ Obj(x) \in ToSet(safety)

JumpsWild == pevalFail \notin LiveIds(calls)

\* there is no room for another entry
SafetyFullTooLate(n) == n > Capacity       \* mutant
SafetyFull(n) == n >= Capacity

FaultOf(i) ==
  CASE i.op = "push" /\ SafetyFull(Len(safety)) -> "overflow"
    [] i.op = "pop" /\ Len(safety) < i.n -> "assert"
    [] i.op = "cleanup" /\ Len(safety) < Top.base -> "assert"
    [] i.op = "cleanup" /\ Len(safety) > Top.base /\ Last(safety) \in gone ->
         "released_twice"
    [] i.op \in {"unref", "give", "return", "raise"} /\ Obj(i.var) \in gone ->
         "released_twice"
    [] i.op = "use" /\ Obj(i.var) \in gone -> "used_after_release"
    [] i.op \in {"make", "push_env"} /\ Objs(i.from) \cap gone # {} ->
         "released_twice"
    [] i.op = "pop_env" /\ (env = <<>> \/ Head(env) \in gone) -> "released_twice"
    [] i.op \in {"eval", "call", "cfun", "make"} /\ Overwrites(i.var) -> "lost"
    [] i.op \in {"error", "eval_none", "raise"} /\ JumpsWild -> "wild_jump"
    [] OTHER -> "none"

Running == fault = "none" /\ calls # <<>>

GoWrong ==
  /\ Running
  /\ FaultOf(Step) # "none"
  /\ fault' = FaultOf(Step)
  /\ UNCHANGED <<calls, env, safety, held, gone, pevalFail, handler, errorObj>>

Does(op) == Running /\ Step.op = op /\ FaultOf(Step) = "none"

With(frame) == <<frame>> \o Tail(calls)
Advance == calls' = With([Top EXCEPT !.pc = @ + 1])

(***************************************************************************)
(* Calls and returns.                                                      *)
(***************************************************************************)
Enter(f, x) == calls' = <<NewCall(f, x, FALSE)>> \o calls

\* the driver, or a program that embeds quuz, evaluates an expression; an
\* error that is still pending does not prevent it
TopLevel ==
  /\ fault = "none"
  /\ calls = <<>>
  /\ Enter("qz_peval", "result")
  /\ UNCHANGED <<env, safety, held, gone, pevalFail, handler, errorObj, fault>>

\* qz_error and longjmp: the error object is all that leaves the call
ThrowWith(o, h) ==
  /\ LET k == CHOOSE n \in DOMAIN calls : calls[n].id = pevalFail
         left == SubSeq(calls, k, Len(calls))
     IN /\ calls' = <<[Head(left) EXCEPT !.pc = CatchPc]>> \o Tail(left)
        /\ gone' = Forget(gone, calls', safety)
  /\ errorObj' = o
  /\ held' = h
  /\ UNCHANGED <<env, safety, pevalFail, handler, fault>>

Throw == ThrowWith(Obj("error_obj"), held \cup {Obj("error_obj")})

\* qz_eval of a symbol or a constant
EvalAtom ==
  /\ Does("eval")
  /\ IF Top.safeCall THEN UNCHANGED <<held, gone>>
     ELSE /\ held' = held \cup {Obj(Step.var)}
          /\ gone' = gone \ {Obj(Step.var)}
  /\ Advance
  /\ UNCHANGED <<env, safety, pevalFail, handler, errorObj, fault>>

\* qz_eval of an unbound variable, null or an unspecified value
EvalFails ==
  /\ Does("eval") /\ ~ Top.safeCall /\ ~ JumpsWild
  /\ Throw

\* qz_eval of a pair
EvalPair ==
  /\ Does("eval") /\ ~ Top.safeCall
  /\ Len(calls) < MaxCalls
  /\ Enter("qz_eval", Step.var)
  /\ UNCHANGED <<env, safety, held, gone, pevalFail, handler, errorObj, fault>>

\* a call of a C function by name; the one qz_peval makes of itself
\* evaluates the call of the handler that it took from st->error_handler
CallFunction ==
  /\ Does("call")
  /\ LET safe == Top.fn = "qz_peval" /\ Top.saved = Failsafe
     IN calls' = <<NewCall(Step.fn, Step.var, safe)>> \o calls
  /\ UNCHANGED <<env, safety, held, gone, pevalFail, handler, errorObj, fault>>

CallLibrary ==
  /\ Does("cfun")
  /\ \E f \in Functions : Enter(f, Step.var)
  /\ UNCHANGED <<env, safety, held, gone, pevalFail, handler, errorObj, fault>>

\* the caller's local owns what is returned; the driver releases it
ReturnFromCall ==
  /\ Does("return")
  /\ LET value == Obj(Step.var)
         rest  == Tail(calls)
     IN /\ IF rest = <<>>
           THEN /\ calls' = rest
                /\ held' = held \ {value}
                /\ gone' = Forget(gone, rest, safety)
           ELSE LET dest == <<Head(rest).id, Top.dest>> IN
                /\ calls' = <<[Head(rest) EXCEPT !.pc = @ + 1]>> \o Tail(rest)
                /\ held' = IF value \in held
                           THEN (held \ {value}) \cup {dest} ELSE held
                /\ gone' = Forget(gone, rest, safety) \ {dest}
  /\ UNCHANGED <<env, safety, pevalFail, handler, errorObj, fault>>

(***************************************************************************)
(* Steps within a call.                                                    *)
(***************************************************************************)
Goto ==
  /\ Does("jump")
  /\ \E d \in Step.by : calls' = With([Top EXCEPT !.pc = @ + d])
  /\ UNCHANGED <<env, safety, held, gone, pevalFail, handler, errorObj, fault>>

CheckPasses ==
  /\ Does("check")
  /\ Advance
  /\ UNCHANGED <<env, safety, held, gone, pevalFail, handler, errorObj, fault>>

\* qz_error, and qz_eval of no expression
Fails ==
  /\ Does("check") \/ Does("error") \/ Does("eval_none")
  /\ ~ JumpsWild
  /\ Throw

\* raise: the local's reference goes to st->error_obj
Raises ==
  /\ Does("raise")
  /\ ThrowWith(Obj(Step.var), held)

MakeReference ==
  /\ Does("make")
  /\ held' = (held \ Objs(Step.from)) \cup {Obj(Step.var)}
  /\ gone' = (gone \cup (held \cap Objs(Step.from))) \ {Obj(Step.var)}
  /\ Advance
  /\ UNCHANGED <<env, safety, pevalFail, handler, errorObj, fault>>

\* qz_error takes references of its own to what it is given
UseReference ==
  /\ Does("use")
  /\ Advance
  /\ UNCHANGED <<env, safety, held, gone, pevalFail, handler, errorObj, fault>>

FindImmediate ==
  /\ Does("immediate")
  /\ held' = held \ {Obj(Step.var)}
  /\ Advance
  /\ UNCHANGED <<env, safety, gone, pevalFail, handler, errorObj, fault>>

\* qz_unref, or a store that takes the reference
Release ==
  /\ Does("unref") \/ Does("give")
  /\ held' = held \ {Obj(Step.var)}
  /\ gone' = gone \cup (held \cap {Obj(Step.var)})
  /\ Advance
  /\ UNCHANGED <<env, safety, pevalFail, handler, errorObj, fault>>

qz_push_safety ==
  /\ Does("push")
  /\ safety' = Append(safety, Obj(Step.var))
  /\ Advance
  /\ UNCHANGED <<env, held, gone, pevalFail, handler, errorObj, fault>>

qz_pop_safety ==
  /\ Does("pop")
  /\ safety' = SubSeq(safety, 1, Len(safety) - Step.n)
  /\ Advance
  /\ UNCHANGED <<env, held, gone, pevalFail, handler, errorObj, fault>>

SaveSafetySize ==
  /\ Does("save_size")
  /\ calls' = With([Top EXCEPT !.base = Len(safety), !.pc = @ + 1])
  /\ UNCHANGED <<env, safety, held, gone, pevalFail, handler, errorObj, fault>>

\* the environment after the entry o of the safety buffer is taken out
EnvAfterKept(o) == env       \* mutant
EnvAfter(o) == IF env # <<>> /\ o = Head(env) THEN Tail(env) ELSE env

\* the loop of cleanup_safety_buffer, from the last entry down to the size saved
cleanup_safety_buffer ==
  /\ Does("cleanup") /\ Len(safety) > Top.base
  /\ env' = EnvAfter(Last(safety))
  /\ safety' = Front(safety)
  /\ held' = held \ {Last(safety)}
  /\ gone' = Forget(gone \cup (held \cap {Last(safety)}), calls, safety')
  /\ UNCHANGED <<calls, pevalFail, handler, errorObj, fault>>

CleanupReturns ==
  /\ Does("cleanup") /\ Len(safety) = Top.base
  /\ Advance
  /\ UNCHANGED <<env, safety, held, gone, pevalFail, handler, errorObj, fault>>

PushEnvironment ==
  /\ Does("push_env")
  /\ held' = (held \ Objs(Step.from)) \cup {Obj("env")}
  /\ gone' = (gone \cup (held \cap Objs(Step.from))) \ {Obj("env")}
  /\ env' = <<Obj("env")>> \o env
  /\ calls' = With([Top EXCEPT !.oldEnv = env, !.pc = @ + 1])
  /\ UNCHANGED <<safety, pevalFail, handler, errorObj, fault>>

PopEnvironment ==
  /\ Does("pop_env")
  /\ held' = held \ {Head(env)}
  /\ gone' = gone \cup {Head(env)}
  /\ env' = Top.oldEnv
  /\ Advance
  /\ UNCHANGED <<safety, pevalFail, handler, errorObj, fault>>

(***************************************************************************)
(* with-exception-handler and qz_peval.                                    *)
(***************************************************************************)
InstallHandler ==
  /\ Does("set_handler")
  /\ calls' = With([Top EXCEPT !.saved = handler, !.pc = @ + 1])
  /\ handler' = Obj(Step.var)
  /\ UNCHANGED <<env, safety, held, gone, pevalFail, errorObj, fault>>

\* the handler that is put back
SavedHandlerKept == handler       \* mutant
SavedHandler == Top.saved

RestoreHandler ==
  /\ Does("reset_handler")
  /\ handler' = SavedHandler
  /\ calls' = With([Top EXCEPT !.saved = NoObj, !.pc = @ + 1])
  /\ UNCHANGED <<env, safety, held, gone, pevalFail, errorObj, fault>>

\* the references that qz_peval releases first
OldErrorKept == {}       \* mutant
OldError == {errorObj}

\* qz_peval up to setjmp
SetJump ==
  /\ Does("setjmp")
  /\ calls' = With([Top EXCEPT !.fail = pevalFail, !.base = Len(safety), !.pc = @ + 1])
  /\ pevalFail' = Top.id
  /\ held' = held \ OldError
  /\ errorObj' = NoObj
  /\ UNCHANGED <<env, safety, gone, handler, fault>>

\* st->peval_fail when qz_peval returns
OldPevalFailKept == pevalFail       \* mutant
OldPevalFail == Top.fail

ResetJump ==
  /\ Does("reset_jmp")
  /\ pevalFail' = OldPevalFail
  /\ Advance
  /\ UNCHANGED <<env, safety, held, gone, handler, errorObj, fault>>

SkipIfNoHandler ==
  /\ Does("if_handler")
  /\ calls' = With([Top EXCEPT !.pc = @ + 1 + (IF handler = NoObj THEN Step.n ELSE 0)])
  /\ UNCHANGED <<env, safety, held, gone, pevalFail, handler, errorObj, fault>>

\* the error object once the call of the handler owns it
ErrorAfterHandlerCallKept == errorObj       \* mutant
ErrorAfterHandlerCall == NoObj

\* the call of the handler takes over the error object; while it runs the
\* failsafe is installed
MakeHandlerCall ==
  /\ Does("handler_call")
  /\ calls' = With([Top EXCEPT !.saved = handler, !.pc = @ + 1])
  /\ handler' = Failsafe
  /\ held' = (held \ {errorObj}) \cup {Obj(Step.var)}
  /\ gone' = gone \ {Obj(Step.var)}
  /\ errorObj' = ErrorAfterHandlerCall
  /\ UNCHANGED <<env, safety, pevalFail, fault>>

CallStep ==
  \/ TopLevel \/ EvalAtom \/ EvalFails \/ EvalPair \/ CallFunction
  \/ CallLibrary \/ ReturnFromCall \/ Fails \/ Raises

LocalStep ==
  \/ Goto \/ CheckPasses \/ MakeReference \/ UseReference
  \/ FindImmediate \/ Release
  \/ qz_push_safety \/ qz_pop_safety \/ SaveSafetySize
  \/ cleanup_safety_buffer \/ CleanupReturns \/ PushEnvironment \/ PopEnvironment
  \/ InstallHandler \/ RestoreHandler \/ SetJump \/ ResetJump
  \/ SkipIfNoHandler \/ MakeHandlerCall

Next == CallStep \/ LocalStep \/ GoWrong

Spec == Init /\ [][Next]_vars

(***************************************************************************)
(* Types.                                                                  *)
(***************************************************************************)
IsObj(o) == o[1] \in Nat /\ o[2] \in Name

TypeOK ==
  /\ \A k \in DOMAIN calls :
       LET c == calls[k] IN
         /\ c.fn \in DOMAIN Script
         /\ c.pc \in DOMAIN Script[c.fn]
         /\ c.base \in 0 .. Capacity
         /\ \A j \in DOMAIN calls : j # k => calls[j].id # c.id
  /\ \A o \in held \cup gone \cup ToSet(safety) \cup ToSet(env) : IsObj(o)
  /\ held \cap gone = {}
  /\ Len(safety) <= Capacity
  /\ pevalFail \in Nat
  /\ IsObj(handler) /\ IsObj(errorObj)
  /\ fault \in {"none", "overflow", "assert", "released_twice", "used_after_release",
                "lost", "wild_jump"}

(* The assertions on the safety buffer hold (all but the one on its        *)
(* capacity), no reference that a local owns is released twice, by a       *)
(* function and by the cleanup or by two of them, none is overwritten in   *)
(* its local, and an error always finds its qz_peval on the stack.         *)
(* References that are stored, in cells or in the slots of the state, are  *)
(* not followed; a function that depends on them breaks the rules of       *)
(* Ownership (with_file, scm_set_b).                                       *)
NoFault == fault \in {"none", "overflow"}

(* What locals owned can still be released: by the local of a running      *)
(* call, by the cleanup of the safety buffer, or as the error object. An   *)
(* error that unwinds any number of calls leaks nothing that was in their  *)
(* locals; what became of references that were stored is not followed.     *)
NothingLost ==
  \A o \in held :
    o[1] \in LiveIds(calls) \/ o \in ToSet(safety) \/ o = errorObj

(* qz_eval, qz_peval and function calls leave the environment, the size of *)
(* the safety buffer, the longjmp target and the handler as they found     *)
(* them, however many calls an error has skipped in between.               *)
LeavesAsFound ==
  [][Does("return") /\ Top.fn \in {"qz_eval", "qz_peval", "call_function"}
       => Surroundings' = Top.from]_vars

(* Errors go to the innermost call of qz_peval that has not returned, the  *)
(* one that runs an error handler included.                                *)
InJump(c) == c.fn = "qz_peval" /\ c.pc \in 2 .. Len(qz_peval) - 1
ErrorsGoToInnermost ==
  LET open == {k \in DOMAIN calls : InJump(calls[k])} IN
    IF open = {} THEN pevalFail = NoCall
    ELSE pevalFail = calls[CHOOSE k \in open : \A j \in open : k <= j].id

(* An error is pending only while qz_peval handles it or, if there was no  *)
(* handler for it, until the next qz_peval: no error is raised on top of   *)
(* another, none that was handled is reported to the driver, and one that  *)
(* was not is.                                                             *)
PendingError ==
  errorObj # NoObj =>
    \/ calls = <<>> /\ handler = NoObj
    \/ /\ calls # <<>>
       /\ Top.fn = "qz_peval"
       /\ Top.pc = 1 \/ Top.pc >= CatchPc
       /\ Top.pc > CatchPc + 1 => handler = NoObj

(* While a handler is installed the call that owns it has not returned and *)
(* has not released it.                                                    *)
HandlerOwned ==
  handler \in {NoObj, Failsafe} \/ (handler[1] \in LiveIds(calls) /\ handler \notin gone)
=============================================================================
