------------------------------ MODULE Variables -------------------------------
(***************************************************************************)
(* Variables and promises (src/quuz-state.c:146, :272, src/quuz-lib.c:18,  *)
(* :149, :180, :390, :487, :718).  A frame is the hash table of a scope.   *)
(* Its table moves when it grows, so a C pointer to one of its slots names *)
(* the frame and the table it pointed into.  The program is any program of *)
(* a bounded size: at each qz_eval the expression is chosen freely.        *)
(***************************************************************************)
EXTENDS Naturals, Sequences, FiniteSets

CONSTANTS
  MaxFrames,    \* how many scopes exist at a time, the global one among them
  MaxPromises,  \* how many promises
  MaxCalls,     \* how deep C calls nest
  MaxSize,      \* how many expressions and bindings, constants not counted
  Var,          \* the names of variables
  Datum,        \* values that are neither procedures nor promises
  None,         \* the unspecified value
  Unbound,      \* a table has no pair for the variable
  Capacity0     \* the capacity of a new table

Frame   == 1 .. MaxFrames
Global  == 1
Nowhere == 0
Pid     == 1 .. MaxPromises

\* a function knows the scope it was made in; its code is any code
Fun(f)     == <<"fun", f>>
Promise(p) == <<"promise", p>>
Procedures == {Fun(f) : f \in Frame}
Promises   == {Promise(p) : p \in Pid}
Value      == Datum \cup Procedures \cup Promises

\* a reference to a frame's scope, and the cells that hold references
Ref(f)     == <<"frame", f>>
FrameRefs == {Ref(f) : f \in Frame}
Node       == FrameRefs \cup Procedures \cup Promises

ASSUME VariablesAssumption ==
  /\ MaxFrames \in Nat \ {0} /\ MaxPromises \in Nat /\ MaxCalls \in Nat
  /\ MaxSize \in Nat /\ Capacity0 \in Nat \ {0}
  /\ IsFiniteSet(Var)
  /\ None \notin Value /\ Unbound \notin Value /\ Unbound # None
  /\ (Datum \cup {None, Unbound}) \cap Node = {}

VARIABLES
  table,     \* what each frame's hash table holds
  capacity,  \* for how many pairs each table has room: one that grows, moves
  outer,     \* the scope around each frame's scope
  env,       \* st->env: the scopes in force, innermost first
  promise,   \* the scope to evaluate each promise in, or Nowhere, and its value
  calls,     \* the pending C calls, innermost first
  turn,      \* "eval", "bind", "return", or "idle" between two top-level forms
  value,     \* what was returned last
  size,      \* how many expressions and bindings the program had
  fault      \* how the program went wrong

vars == <<table, capacity, outer, env, promise, calls, turn, value, size, fault>>

NewTable    == [v \in Var |-> Unbound]
Unforced(f) == [scope |-> f, value |-> None]
Forced(x)   == [scope |-> Nowhere, value |-> x]

Init ==
  /\ table = [f \in Frame |-> NewTable] /\ capacity = [f \in Frame |-> Capacity0]
  /\ outer = [f \in Frame |-> Nowhere] /\ env = <<Global>>
  /\ promise = [p \in Pid |-> Unforced(Global)]
  /\ calls = <<>> /\ turn = "idle" /\ value = None /\ size = 0 /\ fault = "none"

(***************************************************************************)
(* The C calls that wait for an expression.  Of a frame that is not in a   *)
(* scope yet, b is what it holds, m its capacity, and s its capacity when  *)
(* it was last entered in the safety buffer; of a slot in frame f, m is    *)
(* f's capacity when the slot was looked up.                               *)
(***************************************************************************)
Call(name) == [op |-> name, f |-> Nowhere, v |-> None, m |-> Capacity0, b |-> NewTable,
               s |-> Capacity0, p |-> 0, env |-> <<>>]

Push(c)   == calls' = <<c>> \o calls
Replace(c) == calls' = <<c>> \o Tail(calls)
Top       == Head(calls)
Scope     == Head(env)

(***************************************************************************)
(* What can still be reached.  The collector reclaims the rest.            *)
(***************************************************************************)
Held(c) == {Ref(c.f), Promise(c.p)} \cup {Ref(c.env[i]) : i \in DOMAIN c.env} \cup
           {c.b[v] : v \in Var}

Refers(x) ==
  CASE x \in Procedures -> {Ref(x[2])}
    [] x \in Promises -> {Ref(promise[x[2]].scope), promise[x[2]].value}
    [] x \in FrameRefs -> {Ref(outer[x[2]])} \cup {table[x[2]][v] : v \in Var}
    [] OTHER -> {}

Roots ==
  {Ref(env[i]) : i \in DOMAIN env} \cup {value} \cup UNION {Held(calls[i]) : i \in DOMAIN calls}

\* the cells of a set that neither the roots nor the cells outside refer to
Garbage ==
  UNION {U \in SUBSET (Node \ Roots) : \A x \in Node \ U : \A y \in Refers(x) : y \notin U}
Reachable == Node \ Garbage

\* malloc: the least index that is free
Least(S)   == {x \in S : \A y \in S : x <= y}
Index(x)   == x[2]
NewFrame   == Least({Index(x) : x \in Garbage \cap FrameRefs})
NewPromise == Least({Index(x) : x \in Garbage \cap Promises})

(***************************************************************************)
(* quuz-hash.c: a table that has become too full moves to a larger one     *)
(***************************************************************************)
Bindings(b) == Cardinality({v \in Var : b[v] # Unbound})
Overfull(b, cap) == Bindings(b) * 10 > cap * 7
MovesAfter(b, cap) == IF Overfull(b, cap) THEN 2 * cap ELSE cap

qz_hash_set(f, v, x) ==
  LET b == [table[f] EXCEPT ![v] = x] IN
    /\ table' = [table EXCEPT ![f] = b]
    /\ capacity' = [capacity EXCEPT ![f] = MovesAfter(b, @)]

\* the scopes in which a name is looked up from the scope s
Enclosing(s) ==
  {t \in Frame : \A T \in SUBSET Frame :
     s \in T /\ (\A u \in T : outer[u] \in Frame => outer[u] \in T) => t \in T}

\* the frame in which the loop of qz_lookup stops, or none: no scope around
\* the one in force that is inside this one has the variable
qz_lookup(v) ==
  LET E == {f \in Enclosing(Scope) : table[f][v] # Unbound}
  IN {f \in E : \A g \in E : g \in Enclosing(f)}

(***************************************************************************)
(* qz_error and the clean-up of qz_peval at the top level: of the C calls  *)
(* that were cut short, those that had entered a scope left st->env in the *)
(* safety buffer, and those that were building a frame left the frame.     *)
(***************************************************************************)
EnvPushedByBody(c) == c.op \in {"body", "force"}   \* mutant: let* pushes it after its bindings
EnvPushed(c) == c.env # <<>>
cleanup_safety_buffer(cs) ==
  /\ env' = SubSeq(env, Cardinality({i \in DOMAIN cs : EnvPushed(cs[i])}) + 1, Len(env))
  /\ fault' = IF \E i \in DOMAIN cs : cs[i].s # cs[i].m /\ cs[i].op \in {"let", "args"}
              THEN "stale frame" ELSE fault

Error(cs) ==
  /\ cleanup_safety_buffer(cs)
  /\ calls' = <<>> /\ turn' = "idle" /\ value' = None
  /\ UNCHANGED <<table, capacity, outer, promise>>

(***************************************************************************)
(* qz_eval of an expression                                                *)
(***************************************************************************)
At(t)     == fault = "none" /\ turn = t
Return(x) == turn' = "return" /\ value' = x
Heap      == <<table, capacity, outer, promise>>

TopLevel ==
  /\ At("idle") /\ size < MaxSize
  /\ turn' = "eval"
  /\ UNCHANGED <<Heap, env, calls, value, size, fault>>

\* set! and define return nothing, so they are only used where their value is
\* dropped
Dropped == calls # <<>> => Top.op \in {"body", "begin"}

Constant(x) == At("eval") /\ Return(x) /\ UNCHANGED <<Heap, env, calls, size, fault>>

Evaluate == At("eval") /\ size < MaxSize /\ size' = size + 1

\* evaluates an operand before the C function goes on
Awaiting(c) ==
  /\ Len(calls) < MaxCalls
  /\ Push(c) /\ turn' = "eval" /\ value' = None
  /\ UNCHANGED <<Heap, env, fault>>

Reference(v) ==
  /\ Evaluate
  /\ \/ \E f \in qz_lookup(v) : Return(table[f][v]) /\ UNCHANGED <<Heap, env, calls, fault>>
     \/ qz_lookup(v) = {} /\ Error(calls)

SetSlot(f, v) == [Call("set") EXCEPT !.f = f, !.v = v, !.m = capacity[f]]
scm_set_b(v) ==
  /\ Evaluate /\ Dropped
  /\ \/ \E f \in qz_lookup(v) : Awaiting(SetSlot(f, v))
     \/ qz_lookup(v) = {} /\ Error(calls)

scm_define(v) ==
  Evaluate /\ Dropped /\ Awaiting([Call("define") EXCEPT !.v = v])

scm_define_function(v) ==
  /\ Evaluate /\ Dropped
  /\ qz_hash_set(Scope, v, Fun(Scope))
  /\ Return(None) /\ UNCHANGED <<outer, promise, env, calls, fault>>

scm_lambda ==
  Evaluate /\ Return(Fun(Scope)) /\ UNCHANGED <<Heap, env, calls, fault>>

scm_delay ==
  /\ Evaluate
  /\ \E p \in NewPromise :
       /\ promise' = [promise EXCEPT ![p] = Unforced(Scope)]
       /\ Return(Promise(p))
  /\ UNCHANGED <<table, capacity, outer, env, calls, fault>>

scm_eager == Evaluate /\ Awaiting(Call("eager"))
scm_force == Evaluate /\ Awaiting(Call("operand"))
scm_begin == Evaluate /\ Awaiting(Call("begin"))

\* a pair whose first is evaluated to find what to call
Operator == Evaluate /\ Awaiting(Call("operator"))

scm_let ==
  /\ Evaluate /\ Len(calls) < MaxCalls
  /\ Push(Call("let")) /\ turn' = "bind" /\ value' = None
  /\ UNCHANGED <<Heap, env, fault>>

\* puts a frame in force inside the scope o
EnterScope(f, o, b, cap) ==
  /\ table' = [table EXCEPT ![f] = b] /\ capacity' = [capacity EXCEPT ![f] = cap]
  /\ outer' = [outer EXCEPT ![f] = o]
  /\ env' = <<f>> \o env

scm_let_s ==
  /\ Evaluate /\ Len(calls) < MaxCalls
  /\ \E f \in NewFrame :
       /\ EnterScope(f, Scope, NewTable, Capacity0)
       /\ Push([Call("let*") EXCEPT !.f = f, !.env = env])
  /\ turn' = "bind" /\ value' = None
  /\ UNCHANGED <<promise, fault>>

(***************************************************************************)
(* The loops over the bindings of a let or let* and the parameters of a    *)
(* function                                                                *)
(***************************************************************************)
NextBindingPushedOnce(v) ==   \* mutant: let and calls push the frame before the loop
  /\ At("bind") /\ Top.b[v] = Unbound
  /\ size < MaxSize /\ size' = size + 1
  /\ Replace([Top EXCEPT !.v = v]) /\ turn' = "eval"
  /\ UNCHANGED <<Heap, env, value, fault>>

\* the next binding; the frame is entered in the safety buffer
NextBinding(v) ==
  /\ At("bind") /\ Top.b[v] = Unbound
  /\ size < MaxSize /\ size' = size + 1
  /\ Replace([Top EXCEPT !.v = v, !.s = Top.m]) /\ turn' = "eval"
  /\ UNCHANGED <<Heap, env, value, fault>>

\* not enough arguments, before the frame is entered
NoArgument ==
  /\ At("bind") /\ Top.op = "args"
  /\ Error(Tail(calls)) /\ UNCHANGED size

\* the bindings are done: the body is evaluated in the new scope.  A let is
\* inside the scope in force, a function in the one it was made in
InsideCaller(c) == Scope   \* mutant: a function's scope is inside its caller's
Inside(c) == IF c.op = "args" THEN c.f ELSE Scope
EnterBody ==
  /\ At("bind") /\ turn' = "eval"
  /\ IF Top.op = "let*"
     THEN Replace([Call("body") EXCEPT !.env = Top.env]) /\ UNCHANGED <<Heap, env>>
     ELSE \E f \in NewFrame :
            /\ EnterScope(f, Inside(Top), Top.b, Top.m)
            /\ Replace([Call("body") EXCEPT !.env = env]) /\ UNCHANGED promise
  /\ UNCHANGED <<value, size, fault>>

(***************************************************************************)
(* The C functions go on when the expression they wait for has returned    *)
(***************************************************************************)
Pops == calls' = Tail(calls)
Resumes(ops) == At("return") /\ calls # <<>> /\ Top.op \in ops /\ UNCHANGED size

\* the slot is written where it was found; if the table has moved since, that
\* memory is no longer the frame's
SetReturns ==
  /\ Resumes({"set"}) /\ Pops /\ Return(None)
  /\ IF Top.m = capacity[Top.f]
     THEN table' = [table EXCEPT ![Top.f][Top.v] = value] /\ UNCHANGED fault
     ELSE fault' = "dangling slot" /\ UNCHANGED table
  /\ UNCHANGED <<capacity, outer, promise, env>>

\* set_var looks up the scope in force now
DefineReturns ==
  /\ Resumes({"define"}) /\ Pops /\ Return(None)
  /\ qz_hash_set(Scope, Top.v, value)
  /\ UNCHANGED <<outer, promise, env, fault>>

\* the pair is set in the frame, which may move, and the frame is popped from
\* the safety buffer
Bound(c) ==
  LET b == [c.b EXCEPT ![c.v] = value] IN [c EXCEPT !.b = b, !.m = MovesAfter(b, c.m)]
BindingInScope ==   \* mutant: bindings are set in the scope in force
  /\ Resumes({"let", "args"}) /\ turn' = "bind"
  /\ qz_hash_set(Scope, Top.v, value)
  /\ Replace(Bound(Top)) /\ value' = None
  /\ UNCHANGED <<outer, promise, env, fault>>
BindingReturns ==
  /\ Resumes({"let", "args"}) /\ turn' = "bind"
  /\ Replace(Bound(Top)) /\ value' = None
  /\ UNCHANGED <<Heap, env, fault>>

LetStarBindingReturns ==
  /\ Resumes({"let*"}) /\ turn' = "bind"
  /\ qz_hash_set(Top.f, Top.v, value) /\ value' = None
  /\ UNCHANGED <<outer, promise, env, calls, fault>>

\* the next expression of a body, whatever the last one returned
NextExpression ==
  /\ Resumes({"body", "begin"})
  /\ turn' = "eval" /\ value' = None
  /\ UNCHANGED <<Heap, env, calls, fault>>

BeginReturns ==
  /\ Resumes({"begin"}) /\ value # None /\ Pops
  /\ UNCHANGED <<Heap, env, turn, value, fault>>

LeaveScope ==
  /\ Resumes({"body"}) /\ value # None /\ Pops
  /\ env' = Top.env
  /\ UNCHANGED <<Heap, turn, value, fault>>

EagerReturns ==
  /\ Resumes({"eager"}) /\ Pops
  /\ \E p \in NewPromise :
       /\ promise' = [promise EXCEPT ![p] = Forced(value)]
       /\ Return(Promise(p))
  /\ UNCHANGED <<table, capacity, outer, env, fault>>

OperatorReturns ==
  /\ Resumes({"operator"})
  /\ IF value \in Procedures
     THEN /\ Replace([Call("args") EXCEPT !.f = value[2]])
          /\ turn' = "bind" /\ value' = None /\ UNCHANGED <<Heap, env, fault>>
     ELSE Error(calls)

IsForced(p) == promise[p].scope = Nowhere
OperandForcedFirst ==   \* mutant: a promise counts as forced while it is forced
  /\ Resumes({"operand"}) /\ value \in Promises
  /\ LET p == value[2] IN
       IF IsForced(p) THEN Pops /\ Return(promise[p].value) /\ UNCHANGED <<Heap, env, fault>>
       ELSE /\ Replace([Call("force") EXCEPT !.p = p, !.env = env])
            /\ env' = <<promise[p].scope>> \o env
            /\ promise' = [promise EXCEPT ![p] = Forced(None)]
            /\ turn' = "eval" /\ value' = None /\ UNCHANGED <<table, capacity, outer, fault>>
OperandReturns ==
  /\ Resumes({"operand"})
  /\ \/ \E p \in Pid :
          /\ value = Promise(p)
          /\ \/ IsForced(p) /\ Pops /\ Return(promise[p].value) /\ UNCHANGED <<Heap, env, fault>>
             \/ /\ ~IsForced(p)
                /\ Replace([Call("force") EXCEPT !.p = p, !.env = env])
                /\ env' = <<promise[p].scope>> \o env
                /\ turn' = "eval" /\ value' = None /\ UNCHANGED <<Heap, fault>>
     \/ value \notin Promises /\ Error(calls)

\* the promise is replaced, whatever has happened to it meanwhile
ForceReturns ==
  /\ Resumes({"force"}) /\ Pops
  /\ env' = Top.env
  /\ promise' = [promise EXCEPT ![Top.p] = Forced(value)]
  /\ UNCHANGED <<table, capacity, outer, turn, value, fault>>

TopLevelReturns ==
  /\ At("return") /\ calls = <<>>
  /\ turn' = "idle" /\ value' = None
  /\ UNCHANGED <<Heap, env, calls, size, fault>>

Expression ==
  \/ \E x \in Datum : Constant(x)
  \/ \E v \in Var : Reference(v) \/ scm_set_b(v) \/ scm_define(v) \/ scm_define_function(v)
  \/ scm_lambda \/ scm_delay \/ scm_eager \/ scm_force \/ scm_begin \/ scm_let \/ scm_let_s
  \/ Operator

Bind == (\E v \in Var : NextBinding(v)) \/ NoArgument \/ EnterBody

Resume ==
  \/ SetReturns \/ DefineReturns \/ BindingReturns \/ LetStarBindingReturns
  \/ NextExpression \/ BeginReturns \/ LeaveScope \/ EagerReturns
  \/ OperatorReturns \/ OperandReturns \/ ForceReturns \/ TopLevelReturns

Next == TopLevel \/ Expression \/ Bind \/ Resume

Spec == Init /\ [][Next]_vars

(***************************************************************************)
(* Properties                                                              *)
(***************************************************************************)
\* Between two top-level forms the global scope is in force and no C call is
\* pending, whatever errors the forms before had (quuz-state.c:16, :94).
TypeOK ==
  /\ table \in [Frame -> [Var -> Value \cup {Unbound}]]
  /\ capacity \in [Frame -> Nat \ {0}]
  /\ outer \in [Frame -> Frame \cup {Nowhere}]
  /\ env \in Seq(Frame)
  /\ promise \in [Pid -> [scope : Frame \cup {Nowhere}, value : Value \cup {None}]]
  /\ turn \in {"eval", "bind", "return", "idle"}
  /\ value \in Value \cup {None}
  /\ turn = "idle" => calls = <<>> /\ env = <<Global>>

\* The frames, slots and saved environments of the C code implement lexical
\* scoping: of quuz-lib.c:18, :149, :180, :390, :433, :487, :506, :718 and
\* quuz-state.c:146, :272.
MadeInScope(x) ==
  CASE x \in Procedures -> Index(x) [] x \in Promises -> promise[Index(x)].scope
    [] OTHER -> Nowhere
MadeIn == {MadeInScope(x) : x \in Reachable} \ {Nowhere}
\* the calls that have entered a scope, and those of them that call i is part of
Entered(cs)   == {j \in DOMAIN cs : EnvPushed(cs[j])}
Around(cs, i) == {j \in Entered(cs) : j > i}
\* the scope that was entered when n others had been, and the one that was in
\* force when call i began
EnteredAfter(e, n) == e[Len(e) - n]
BegunIn(cs, e, i)  == EnteredAfter(e, Cardinality(Around(cs, i)))
\* the frames that are being filled, by their depth counted from the outermost call
CallAt(cs, d) == cs[Len(cs) + 1 - d]
Depths(cs)    == {d \in 1 .. Len(cs) : CallAt(cs, d).op \in {"let", "args"}}
Surrounding(cs, e) ==
  [d \in Depths(cs) |-> IF CallAt(cs, d).op = "args" THEN CallAt(cs, d).f
                                                   ELSE BegunIn(cs, e, Len(cs) + 1 - d)]
Filling == Surrounding(calls, env)
Scopes == INSTANCE LexicalScope WITH
  Scope <- Frame, binding <- table, active <- env, pending <- Filling, captured <- MadeIn
ImplementsScopes == Scopes!Spec

\* A set! keeps its slot while its expression is evaluated (quuz-lib.c:187).
\* The slot is lost only to a define, in the frame of the slot, of a variable
\* that was not there: no let, call, force or return moves it.
LostSlot(c, cap) == c.op = "set" /\ c.m # cap[c.f]
Stale(cs, cap) ==   \* the depths, counted from the outermost call
  {Len(cs) + 1 - i : i \in {j \in DOMAIN cs : LostSlot(cs[j], cap)}}
Defines    == turn = "eval" \/ Top.op = "define"
OnlyDefineMoves ==
  [][\A k \in Stale(calls', capacity') \ Stale(calls, capacity) :
       /\ Defines /\ calls[Len(calls) + 1 - k].f = Scope
       /\ \E v \in Var : table[Scope][v] = Unbound /\ table'[Scope][v] # Unbound]_vars

\* A frame moves while a let or a call fills it, and an error releases it by
\* the pointer in the safety buffer, which is never the old one
\* (quuz-lib.c:398, quuz-state.c:175).
ReleasesLiveFrames == fault # "stale frame"

\* A promise counts as forced only when it has its value: an error while it is
\* forced leaves it as it was (quuz-lib.c:519, :535).
ForcedHasValue ==
  \A p \in Pid : IsForced(p) => promise[p].value # None

\* quuz.h:341: the slot a lookup finds belongs to a variable in the
\* environment.  A set! writes to it after its expression was evaluated
\* (quuz-lib.c:193).
SlotInEnvironment == fault # "dangling slot"
===============================================================================
