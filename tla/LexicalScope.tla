----------------------------- MODULE LexicalScope -----------------------------
(***************************************************************************)
(* What variables promise a Scheme program: scopes that enclose each other *)
(* as they are written, one of them in force at a time.  define binds in   *)
(* the scope in force, set! rebinds a variable that is visible from there, *)
(* a call, a let or a force enters a scope and returns to the one it came  *)
(* from, and what a procedure or a promise sees is the scope it was made   *)
(* in.  Nothing else changes a binding.  Two things are left open: which   *)
(* of the visible variables of one name a set! rebinds, since its          *)
(* expression may define another further in after the variable was looked  *)
(* up, and the value that a reference reads, which changes nothing.        *)
(***************************************************************************)
EXTENDS Naturals, Sequences

CONSTANTS
  Scope,       \* the names of scopes
  Global,      \* the one that nothing encloses
  Nowhere,     \* what encloses Global
  Var,         \* the names of variables
  Value,       \* what they can stand for
  Unbound      \* the scope has no such variable

VARIABLES
  binding,     \* the variables of each scope
  outer,       \* the scope that encloses each scope
  active,      \* the scopes entered and not left, the one in force first
  pending,     \* how deep the lets and calls nest whose scope is not entered yet,
               \* and the scope that each of those will be inside of
  captured     \* the scopes that a procedure or a promise was made in

vars == <<binding, outer, active, pending, captured>>

Current == Head(active)

\* the scopes in which a name used in one of S is looked up
Visible(S) ==
  {t \in Scope : \A T \in SUBSET Scope :
     S \subseteq T /\ (\A u \in T : outer[u] \in Scope => outer[u] \in T) => t \in T}

\* a scope that is in force, that will be again, or that can be seen from one
Elements(q) == {q[i] : i \in DOMAIN q}
Needed == Visible(captured \cup Elements(active) \cup Elements(pending))

NonePending == [d \in {} |-> Global]

Init ==
  /\ binding = [s \in Scope |-> [v \in Var |-> Unbound]]
  /\ outer = [s \in Scope |-> Nowhere]
  /\ active = <<Global>>
  /\ pending = NonePending
  /\ captured = {}

Stay == UNCHANGED <<outer, active, pending>>

Define(v, x) == binding' = [binding EXCEPT ![Current][v] = x] /\ Stay

Set(v, x) ==
  /\ \E s \in Scope :
       /\ binding' = [binding EXCEPT ![s][v] = x]
       /\ binding[s][v] # Unbound /\ s \in Visible({Current})
  /\ Stay

\* a let or a call begins: the scope it will enter is inside the one in force
\* now, or inside the one the procedure was made in
Begin(d) ==
  /\ \A e \in DOMAIN pending : e < d
  /\ \E o \in captured \cup {Current} :
       pending' = [e \in DOMAIN pending \cup {d} |-> IF e = d THEN o ELSE pending[e]]
  /\ UNCHANGED <<binding, outer, active>>

\* the variables of the innermost one have their values, and a scope that
\* nothing needs is entered
Enter(s) ==
  /\ \E d \in DOMAIN pending :
       /\ \A e \in DOMAIN pending : e <= d
       /\ pending' = [e \in DOMAIN pending \ {d} |-> pending[e]]
       /\ outer' = [outer EXCEPT ![s] = pending[d]]
  /\ active' = <<s>> \o active
  /\ s \notin Needed
  /\ \E b \in [Var -> Value \cup {Unbound}] : binding' = [binding EXCEPT ![s] = b]

\* a let* enters a scope first and then defines its variables
Open(s) ==
  /\ active' = <<s>> \o active
  /\ s \notin Needed
  /\ outer' = [outer EXCEPT ![s] = Current]
  /\ binding' = [binding EXCEPT ![s] = [v \in Var |-> Unbound]]
  /\ UNCHANGED pending

\* a promise is forced in the scope in which it was delayed
Reenter(s) ==
  /\ active' = <<s>> \o active
  /\ s \in captured
  /\ UNCHANGED <<binding, outer, pending>>

Leave ==
  /\ Len(active) > 1
  /\ active' = Tail(active)
  /\ UNCHANGED <<binding, outer, pending>>

\* an error ends the evaluation of a top-level form
Abandon ==
  /\ active' = <<Global>> /\ pending' = NonePending
  /\ UNCHANGED <<binding, outer>>

\* a procedure or a promise is made, or none that was made in a scope is left
Capture == UNCHANGED <<binding, outer, active, pending>>

Next ==
  /\ \/ Capture \/ Leave \/ Abandon
     \/ \E d \in DOMAIN pending' : Begin(d)
     \/ \E v \in Var, x \in Value : Define(v, x) \/ Set(v, x)
     \/ \E s \in Scope : Enter(s) \/ Open(s) \/ Reenter(s)
  /\ \A s \in captured' : s = Current \/ s \in captured

Spec == Init /\ [][Next]_vars
===============================================================================
