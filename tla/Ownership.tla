------------------------------- MODULE Ownership -------------------------------
(***************************************************************************)
(* The rules of ownership that a C function of quuz has to keep, checked   *)
(* for each function by itself: whatever its conditions, its loops and     *)
(* what it calls do, it releases what its locals own exactly once, and     *)
(* what an error would leave behind is in the safety buffer.               *)
(*                                                                         *)
(* The rules are about locals.  A function that counts on a reference      *)
(* which it has stored, in a cell or in a slot of the state, while it      *)
(* evaluates breaks them: others can release or overwrite that one         *)
(* meanwhile.  So do with_file, whose port is in the state's port slot,    *)
(* and scm_set_b, whose slot may be in a table that was freed.             *)
(*                                                                         *)
(* The rules are an assumption on the constant Functions, which TLC        *)
(* evaluates.  That functions which keep them can call one another in any  *)
(* order and at any depth is proved in InterpreterProofs.                  *)
(***************************************************************************)
EXTENDS Interpreter

Evaluator == {"qz_eval", "call_function", "qz_peval"}
Known == Functions \cup Evaluator

(***************************************************************************)
(* A function by itself: the next step, the locals that own a reference    *)
(* and those whose reference was released, what it has in the safety       *)
(* buffer, whether it has saved the size of the buffer or pushed an        *)
(* environment, and whether a handler is installed.                        *)
(***************************************************************************)
Entered ==
  [pc |-> 1, owns |-> {}, freed |-> {}, pushed |-> <<>>, saved |-> FALSE,
   inEnv |-> FALSE, installed |-> FALSE]

At(f, l) == Script[f][l.pc]

Gets(l, x)    == [l EXCEPT !.owns = @ \cup {x}, !.freed = @ \ {x}]
Misses(l, x)  == [l EXCEPT !.freed = @ \ {x}]
Drops(l, x)   == [l EXCEPT !.owns = @ \ {x}]
Frees(l, S)   == [l EXCEPT !.owns = @ \ S, !.freed = @ \cup (l.owns \cap S)]

\* what one step leaves behind when no error leaves the function.  qz_peval
\* goes on behind its setjmp if there was one, and its call of the failsafe
\* returns nothing.
Moves(f, l) ==
  LET i == At(f, l)
      n == [l EXCEPT !.pc = @ + 1]
  IN CASE i.op \in {"eval", "call", "cfun"} ->
            {Gets(n, i.var), Misses(n, i.var)}
              \cup (IF f = "qz_peval" /\ i.op = "eval" THEN {n, [l EXCEPT !.pc = CatchPc]} ELSE {})
       [] i.op = "make" -> {Gets(Frees(n, i.from), i.var)}
       [] i.op = "immediate" -> {Drops(n, i.var)}
       [] i.op \in {"unref", "give"} -> {Frees(n, {i.var})}
       [] i.op = "push" -> {[n EXCEPT !.pushed = Append(@, i.var)]}
       [] i.op = "pop" -> {[n EXCEPT !.pushed = SubSeq(@, 1, Len(@) - i.n)]}
       [] i.op \in {"save_size", "setjmp"} -> {[n EXCEPT !.saved = TRUE]}
       [] i.op = "push_env" ->
            {[Gets(Frees(n, i.from), "env") EXCEPT !.inEnv = TRUE]}
       [] i.op = "pop_env" -> {[Frees(n, {"env"}) EXCEPT !.inEnv = FALSE]}
       [] i.op = "set_handler" -> {[n EXCEPT !.installed = TRUE]}
       [] i.op = "reset_handler" -> {[n EXCEPT !.installed = FALSE]}
       [] i.op = "handler_call" -> {[Gets(n, i.var) EXCEPT !.installed = TRUE]}
       [] i.op = "jump" -> {[l EXCEPT !.pc = @ + d] : d \in i.by}
       [] i.op = "if_handler" -> {n, [n EXCEPT !.pc = @ + i.n]}
       [] i.op \in {"check", "use", "cleanup", "reset_jmp"} -> {n}
       [] OTHER -> {}

\* the states of the function: no function has as many steps between its
\* entry and a state
MaxSteps == 60
Locals ==
  [f \in Known |->
     LET reach[n \in Nat] ==
           IF n = 0 THEN {Entered}
           ELSE LET known == reach[n - 1]
                IN known \cup UNION {Moves(f, l) : l \in known}
     IN reach[MaxSteps]]

(***************************************************************************)
(* The rules.                                                              *)
(***************************************************************************)
Simple  == {"check", "error", "eval_none", "save_size", "cleanup", "pop_env",
            "reset_handler", "reset_jmp", "setjmp", "pop", "push_env", "jump",
            "if_handler"}
Reads   == {"return", "immediate", "unref", "use", "give", "push", "raise", "set_handler"}
Assigns == {"eval", "call", "cfun", "make", "handler_call"}

CallsPeval(i) == i.op = "call" /\ i.fn = "qz_peval"

\* an error may leave the function here; none leaves a call of qz_peval
MayThrow(i) ==
  i.op \in {"check", "error", "eval_none", "raise", "eval", "cfun"}
    \/ (i.op = "call" /\ ~ CallsPeval(i))

\* a handler is installed around a call of qz_peval, by with-exception-handler
\* or by qz_peval itself, which takes one step more
AroundPeval(f, pc) ==
  IF f = "qz_peval" THEN pc \in CatchPc + 2 .. CatchPc + 4
  ELSE CallsPeval(Script[f][pc]) \/ Script[f][pc].op = "reset_handler"

\* what a step may do with locals
NameRules(l, i) ==
  /\ i.op \in Reads =>
       /\ i.var \in Name \ {"error_obj"} /\ (i.var = "env" => i.op = "push")
       /\ i.op # "push" => i.var \notin l.freed
  /\ i.op \in Assigns =>
       /\ i.var \in Name \ {"env", "error_obj"}
       /\ i.var \notin l.owns /\ i.var \notin ToSet(l.pushed)
  /\ i.op \in {"make", "push_env"} => "env" \notin i.from /\ i.from \cap l.freed = {}
  /\ i.op = "pop" => i.n \in 0 .. Len(l.pushed)

\* where an error may leave and where the function returns
ExitRules(f, l, i) ==
  /\ MayThrow(i) =>
       /\ l.owns \subseteq ToSet(l.pushed) \cup (IF i.op = "raise" THEN {i.var} ELSE {})
       /\ i.op = "raise" => i.var \notin ToSet(l.pushed)
  /\ CallsPeval(i) /\ l.inEnv => "env" \in ToSet(l.pushed)
  /\ i.op = "call" => i.fn \in {"call_function", "qz_peval"}
  /\ i.op = "cfun" => f = "qz_eval" /\ l.saved /\ Script[f][l.pc + 1].op = "cleanup"
  /\ i.op = "return" =>
       /\ l.owns \subseteq ToSet(l.pushed) \cup {i.var} /\ i.var \notin ToSet(l.pushed)
       /\ f \in Evaluator => l.pushed = <<>>

\* the steps that belong to the state of the interpreter
StateRules(f, l, i) ==
  /\ i.op \in {"save_size", "cleanup", "cfun", "setjmp"} => l.pushed = <<>>
  /\ f = "qz_peval" => i.op # "save_size" /\ l.pushed = <<>>
  /\ i.op = "cleanup" => l.saved
  /\ i.op = "push_env" => ~ l.inEnv
  /\ i.op = "pop_env" => l.inEnv /\ "env" \notin ToSet(l.pushed)
  /\ i.op = "set_handler" => f # "qz_peval"
  /\ i.op \in {"setjmp", "reset_jmp", "if_handler", "handler_call"} => f = "qz_peval"

LocalType ==
  [pc : Nat, owns : SUBSET Name, freed : SUBSET Name, pushed : Seq(Name),
   saved : BOOLEAN, inEnv : BOOLEAN, installed : BOOLEAN]

KeepsRules(f, l) ==
  /\ l \in LocalType
  /\ l.pc \in DOMAIN Script[f]
  /\ At(f, l).op \in Simple \cup Reads \cup Assigns
  /\ l.freed \cap (l.owns \cup ToSet(l.pushed)) = {}
  /\ IsInjective(l.pushed)
  /\ l.inEnv <=> "env" \in l.owns
  /\ "env" \in ToSet(l.pushed) => l.inEnv
  /\ "error_obj" \notin l.freed \cup ToSet(l.pushed)
  /\ l.installed <=> AroundPeval(f, l.pc)
  /\ NameRules(l, At(f, l)) /\ ExitRules(f, l, At(f, l)) /\ StateRules(f, l, At(f, l))

ASSUME OwnershipAssumption ==
  \A f \in Known :
    /\ Entered \in Locals[f]
    /\ \A l \in Locals[f] : KeepsRules(f, l) /\ Moves(f, l) \subseteq Locals[f]

(***************************************************************************)
(* The inductive invariant of the interpreter: every call of the C stack   *)
(* is in a state that its function reaches by itself, and the buffer, the  *)
(* environment, the longjmp target and the handler are what the calls have *)
(* made of them, each on top of what it found.                             *)
(***************************************************************************)
Ref    == (Nat \ {0}) \X Name
AnyRef == Nat \X Name

CallType ==
  [fn : Known, pc : Int, id : Nat \ {0}, dest : Name, base : 0 .. Capacity,
   oldEnv : Seq(Ref), fail : Nat, saved : AnyRef, safeCall : BOOLEAN,
   from : Seq(Ref) \X Nat \X Nat \X AnyRef]

Types ==
  /\ calls \in Seq(CallType) /\ env \in Seq(Ref)
  /\ safety \in Seq(Ref) /\ Len(safety) <= Capacity
  /\ held \in SUBSET Ref /\ IsFiniteSet(held)
  /\ gone \in SUBSET Ref /\ IsFiniteSet(gone)
  /\ pevalFail \in Nat /\ handler \in AnyRef /\ errorObj \in AnyRef
  /\ fault \in {"none", "overflow"}

Now(c) == Script[c.fn][c.pc]

\* references of calls that are still running, or safe
RefInv ==
  /\ \A j, k \in DOMAIN calls : calls[j].id = calls[k].id => j = k
  /\ \A m, n \in DOMAIN safety : safety[m] = safety[n] => m = n
  /\ \A o \in gone : o[1] \in LiveIds(calls)
  /\ NothingLost

(***************************************************************************)
(* Each call: its references, and its part of the safety buffer.           *)
(***************************************************************************)
HeldNow(c, l) ==
  /\ l.pc = c.pc
  /\ {o \in held \ {errorObj} : o[1] = c.id} = {c.id} \X l.owns
  /\ {o \in gone : o[1] = c.id} = {c.id} \X l.freed

\* where the part of the call above it begins, if there is one
EndOf(k) == IF k = 1 THEN Len(safety) ELSE calls[k - 1].from[2]

\* what dead calls have left in the buffer comes on top of it
MayHoldDead(c) ==
  Now(c).op = "cleanup" \/ (c.fn = "qz_peval" /\ c.pc \in CatchPc .. CatchPc + 5)

PushedNow(c, l, end) ==
  LET start == c.from[2] IN
  /\ start + Len(l.pushed) <= end
  /\ ~ MayHoldDead(c) => start + Len(l.pushed) = end
  /\ \A j \in 1 .. Len(l.pushed) : safety[start + j] = <<c.id, l.pushed[j]>>
  /\ \A n \in DOMAIN safety :
       safety[n][1] = c.id => n \in start + 1 .. start + Len(l.pushed)
  /\ l.saved => c.base = start

\* how many environments were pushed since the call began
Depth(c) == Len(env) - Len(c.from[1])

EnvNow(c, l) ==
  /\ Depth(c) >= 0
  /\ c.from[1] = SubSeq(env, Depth(c) + 1, Len(env))
  /\ \A i \in DOMAIN env :
       i > Depth(c) <=> \E n \in 1 .. c.from[2] : safety[n] = env[i]
  /\ l.inEnv =>
       Depth(c) > 0 /\ env[Depth(c)] = <<c.id, "env">> /\ c.oldEnv = c.from[1]

FrameInv ==
  /\ \A k \in DOMAIN calls :
       \E l \in Locals[calls[k].fn] :
         HeldNow(calls[k], l) /\ PushedNow(calls[k], l, EndOf(k)) /\ EnvNow(calls[k], l)
  /\ \A j, k \in DOMAIN calls : j < k => calls[k].from[2] <= calls[j].from[2]

(***************************************************************************)
(* The environments are in the safety buffer, in their order, but for one  *)
(* that is not there yet or not any more.                                  *)
(***************************************************************************)
EnvInv ==
  /\ \A i \in DOMAIN env :
       \/ env[i] \in ToSet(safety)
       \/ i = 1 /\ calls # <<>> /\ env[i] = Obj("env") /\ env[i] \in held
  /\ \A i \in DOMAIN env : env[i][2] = "env"
  /\ \A n \in DOMAIN safety : safety[n][2] = "env" => safety[n] \in ToSet(env)
  /\ \A i, j \in DOMAIN env, m, n \in DOMAIN safety :
       safety[m] = env[i] /\ safety[n] = env[j] /\ i < j => n < m
  /\ \A i, j \in DOMAIN env : env[i] = env[j] => i = j

(***************************************************************************)
(* The longjmp targets and the handlers of the calls.                      *)
(***************************************************************************)
NoJump(i, k) == \A j \in i + 1 .. k - 1 : ~ InJump(calls[j])

FailBelow(k) ==
  IF k > Len(calls) THEN NoCall
  ELSE IF InJump(calls[k]) THEN calls[k].id ELSE calls[k].from[3]

FailInv ==
  /\ \A k \in 1 .. Len(calls) + 1 : NoJump(0, k) => pevalFail = FailBelow(k)
  /\ \A i \in DOMAIN calls, k \in 1 .. Len(calls) + 1 :
       i < k /\ NoJump(i, k) => calls[i].from[3] = FailBelow(k)
  /\ \A k \in DOMAIN calls : InJump(calls[k]) => calls[k].fail = calls[k].from[3]

Around(c) == AroundPeval(c.fn, c.pc)
NoHandler(i, k) == \A j \in i + 1 .. k - 1 : ~ Around(calls[j])

HandlerBelow(k, h) ==
  IF k > Len(calls) THEN h = NoObj
  ELSE IF ~ Around(calls[k]) THEN h = calls[k].from[4]
  ELSE IF calls[k].fn = "qz_peval" THEN h = Failsafe
  ELSE h[1] = calls[k].id /\ h \notin gone

HandlerInv ==
  /\ \A k \in 1 .. Len(calls) + 1 : NoHandler(0, k) => HandlerBelow(k, handler)
  /\ \A i \in DOMAIN calls, k \in 1 .. Len(calls) + 1 :
       i < k /\ NoHandler(i, k) => HandlerBelow(k, calls[i].from[4])
  /\ \A k \in DOMAIN calls : Around(calls[k]) => calls[k].saved = calls[k].from[4]

(***************************************************************************)
(* The C stack: a call waits for the one above it.                         *)
(***************************************************************************)
Waits(c, d) ==
  /\ Now(c).op \in {"eval", "call", "cfun"}
  /\ Now(c).op = "eval" => d.fn = "qz_eval"
  /\ Now(c).op = "call" => d.fn = Now(c).fn
  /\ Now(c).op = "cfun" => d.fn \in Functions
  /\ d.dest = Now(c).var

WaitInv ==
  /\ \A k \in DOMAIN calls : k > 1 => Waits(calls[k], calls[k - 1])
  /\ calls # <<>> => Last(calls).fn = "qz_peval"
  /\ \A k \in DOMAIN calls : calls[k].safeCall => calls[k].fn = "qz_peval"

PendInv ==
  errorObj # NoObj =>
    /\ errorObj \notin ToSet(safety) /\ errorObj[2] # "env"
    /\ calls # <<>> =>
         /\ Top.fn = "qz_peval"
         /\ \/ Top.pc = 1 /\ Len(calls) = 1
            \/ Top.pc \in {CatchPc, CatchPc + 1}
            \/ Top.pc >= CatchPc + 5 /\ handler = NoObj

\* the error object has not been released
ErrorKept == errorObj \notin gone

IInv ==
  /\ Types /\ RefInv /\ FrameInv /\ EnvInv
  /\ FailInv /\ HandlerInv /\ WaitInv /\ PendInv
=============================================================================
