-------------------------------- MODULE Reader --------------------------------
(***************************************************************************)
(* The reader (src/quuz-read.c) and the table of symbols                   *)
(* (src/quuz-object.c:234).  The grammar (module Grammar) decides which    *)
(* functions of the reader a text calls, in the order of the text and only *)
(* once all of a datum has been parsed; the functions build the datum on a *)
(* stack of containers, g_stack.                                           *)
(***************************************************************************)
EXTENDS Naturals, Sequences, FiniteSets, SequencesExt

CONSTANTS
  Text,              \* the texts of one datum
  Calls(_),          \* the calls of the reader that the grammar makes for a text
  CellsOf(_),        \* how many cells an object is made of
  Interned,          \* the names of the symbols made by qz_alloc
  INITIAL_CAPACITY,  \* of strings, vectors and the stack, in elements
  MaxSymbols         \* no text is read once there are so many symbols

ASSUME ReaderAssumption ==
  /\ INITIAL_CAPACITY \in Nat \ {0} /\ MaxSymbols \in Nat
  /\ Interned \in Seq(Range(Interned)) /\ IsInjective(Interned)

VARIABLES
  phase,     \* idle, reading or done
  text,      \* what is read, or Nothing
  todo,      \* the calls the grammar has still to make
  g_stack,   \* the containers begun and not ended, the outermost first
  capacity,  \* of the stack
  names,     \* st->sym_name: the name of each symbol
  cells,     \* how many cells were allocated and not freed
  result,    \* what qz_read returned
  fault      \* how it went wrong instead

vars == <<phase, text, todo, g_stack, capacity, names, cells, result, fault>>

Nothing == "nothing"

(***************************************************************************)
(* Objects.  A list is its elements and what is behind the last pair.      *)
(***************************************************************************)
Atom(x)       == [type |-> "atom", of |-> x]
Sym(i)        == [type |-> "sym", id |-> i]
Null          == [type |-> "null", of |-> <<>>]
None          == [type |-> "none", of |-> <<>>]
List(e, r)    == IF e = <<>> THEN r ELSE [type |-> "pair", of |-> e, rest |-> r]
Array(ty, e, c) == [type |-> ty, of |-> e, capacity |-> c]

make_array(ty) == Array(ty, <<>>, INITIAL_CAPACITY)

(***************************************************************************)
(* The functions of the reader, on its state r.  An array that is full is  *)
(* copied to one of twice the capacity.                                    *)
(***************************************************************************)
Ready == [stack |-> g_stack, capacity |-> capacity, names |-> names, cells |-> cells,
          fault |-> "none"]
TopOf(r)    == Last(r.stack)
Fails(r, f) == [r EXCEPT !.fault = f]
SetTop(r, x) == [r EXCEPT !.stack = Append(Front(@), x)]
Drop(r)     == [r EXCEPT !.stack = Front(@)]
NewCells(r, n) == [r EXCEPT !.cells = @ + n]

grow_array(size, cap) == IF size = cap THEN 2 * cap ELSE cap
Extended(a, x) == Array(a.type, Append(a.of, x), grow_array(Len(a.of), a.capacity))

pushUnchecked(r, x) == [r EXCEPT !.stack = Append(@, x)]   \* mutant: the stack does not grow
WithRoom(r) == [r EXCEPT !.capacity = grow_array(Len(r.stack), @)]
push(r, x) == [WithRoom(r) EXCEPT !.stack = Append(@, x)]

\* concat_string and concat_bytevector, which do not look at what they write to
concat(r, c) ==
  IF TopOf(r).type \in {"string", "bytevector"} THEN SetTop(r, Extended(TopOf(r), c))
  ELSE Fails(r, "concat")

appendToPairs(r, x) ==   \* mutant: an empty list is not promoted to a pair
  LET top == TopOf(r) IN
    CASE top.type = "pair" -> NewCells(SetTop(r, List(Append(top.of, x), Null)), 1)
      [] top.type = "vector" -> SetTop(r, Extended(top, x))
      [] OTHER -> Fails(r, "append")
append(r, x) ==
  LET top == TopOf(r) IN
    CASE top.type = "null" -> NewCells(SetTop(r, List(<<x>>, Null)), 1)
      [] top.type = "pair" /\ top.rest.type = "null" -> NewCells(SetTop(r, List(Append(top.of, x), Null)), 1)
      [] top.type = "vector" -> SetTop(r, Extended(top, x))
      [] OTHER -> Fails(r, "append")

TerminatedInPlace(s) == s   \* mutant: no room is made for the null
\* room for the null behind the last character
Terminated(s) ==
  IF s.type = "string" THEN [s EXCEPT !.capacity = grow_array(Len(s.of), @)] ELSE s

pop(r) ==
  IF Len(r.stack) > 1 THEN append(Drop(r), Terminated(TopOf(r))) ELSE Fails(r, "pop")

qz_make_symAnew(r, s) ==   \* mutant: no symbol is looked for
  [r |-> [r EXCEPT !.names = Append(@, s)], sym |-> Len(r.names) + 1]
qz_make_symKeeping(r, s) ==   \* mutant: the name of an old symbol is not freed
  IF \E i \in DOMAIN r.names : r.names[i].of = s.of
  THEN [r |-> r, sym |-> CHOOSE i \in DOMAIN r.names : r.names[i].of = s.of]
  ELSE [r |-> [r EXCEPT !.names = Append(@, s)], sym |-> Len(r.names) + 1]
\* the string is kept by the table, or freed if there is a symbol of its name
qz_make_sym(r, s) ==
  IF \E i \in DOMAIN r.names : r.names[i].of = s.of
  THEN [r |-> NewCells(r, 0 - 1), sym |-> CHOOSE i \in DOMAIN r.names : r.names[i].of = s.of]
  ELSE [r |-> [r EXCEPT !.names = Append(@, s)], sym |-> Len(r.names) + 1]

pop_sym(r) ==
  IF Len(r.stack) > 1
  THEN LET made == qz_make_sym(Drop(r), Terminated(TopOf(r)))
       IN append(made.r, Sym(made.sym))
  ELSE Fails(r, "pop")

elide_pairAtLast(r) ==   \* mutant: the last pair stays
  LET top == TopOf(r) IN
    CASE top.type # "pair" -> Fails(r, "elide")
      [] top.type = "pair" /\ Len(top.of) = 1 -> Fails(r, "prev")
      [] OTHER -> r
\* the last pair is freed and its element hung on the pair before it, prev,
\* which is not set when there is none
elide_pair(r) ==
  LET top == TopOf(r) IN
    CASE top.type # "pair" -> Fails(r, "elide")
      [] top.type = "pair" /\ Len(top.of) = 1 -> Fails(r, "prev")
      [] OTHER ->
           LET tail == Last(top.of)
               e == Front(top.of)
           IN NewCells(SetTop(r, IF tail.type = "pair" THEN List(e \o tail.of, tail.rest)
                                 ELSE List(e, tail)), 0 - 1)

Perform(r, call) ==
  CASE call.do = "append" -> append(r, call.of)
    [] call.do = "concat" -> concat(r, call.of)
    [] call.do = "elide_pair" -> elide_pair(r)
    [] call.do = "pop" -> pop(r)
    [] call.do = "pop_sym" -> pop_sym(r)
    [] call.do = "push_pair" -> push(r, Null)
    [] call.do = "push_string" -> NewCells(push(r, make_array("string")), 1)
    [] call.do = "push_bytevector" -> NewCells(push(r, make_array("bytevector")), 1)
    [] call.do = "push_vector" -> NewCells(push(r, make_array("vector")), 1)

(***************************************************************************)
(* What the grammar promises of its calls: what is appended is no cell,    *)
(* each begin has its end, and nothing is ended that was not begun.        *)
(***************************************************************************)
BeginCalls == {"push_pair", "push_string", "push_bytevector", "push_vector"}
EndCalls   == {"pop", "pop_sym"}
IsCall(call) ==
  /\ call.do \in BeginCalls \cup EndCalls \cup {"append", "concat", "elide_pair"}
  /\ call.do = "append" => call.of.type = "atom"
\* how many calls of c, from the k-th on, are in D
CountFrom(c, k, D) == Cardinality({i \in k .. Len(c) : c[i].do \in D})
\* what is begun in a rest of c is ended in it
EndsWhatItBegins(c) ==
  \A k \in DOMAIN c : CountFrom(c, k, BeginCalls) <= CountFrom(c, k, EndCalls)
Bracketed(c) ==
  EndsWhatItBegins(c) /\ CountFrom(c, 1, BeginCalls) = CountFrom(c, 1, EndCalls)

ASSUME GrammarAssumption ==
  \A t \in Text :
    LET c == Calls(t) IN
      /\ c \in Seq(Range(c)) /\ Bracketed(c)
      /\ \A i \in DOMAIN c : IsCall(c[i])

(***************************************************************************)
(* qz_read                                                                 *)
(***************************************************************************)
Init ==
  /\ names = [i \in DOMAIN Interned |-> Array("string", Interned[i], Len(Interned[i]))]
  /\ phase = "idle" /\ text = Nothing /\ todo = <<>> /\ g_stack = <<>> /\ capacity = 0
  /\ cells = Len(Interned) /\ result = None /\ fault = "none"

\* the stack begins as an empty list
BeginRead(t) ==
  /\ phase = "idle" /\ Len(names) < MaxSymbols
  /\ phase' = "reading" /\ text' = t /\ todo' = Calls(t)
  /\ g_stack' = <<Null>> /\ capacity' = INITIAL_CAPACITY /\ cells' = cells + 1
  /\ UNCHANGED <<names, result, fault>>

\* what does not parse runs no action of the grammar
SyntaxError ==
  /\ phase = "reading" /\ todo # <<>> /\ todo = Calls(text)
  /\ todo' = <<>>
  /\ UNCHANGED <<phase, text, g_stack, capacity, names, cells, result, fault>>

Action ==
  /\ todo # <<>> /\ fault = "none"
  /\ LET r == Perform(Ready, Head(todo)) IN
       /\ g_stack' = r.stack /\ capacity' = r.capacity /\ names' = r.names
       /\ cells' = r.cells /\ fault' = r.fault
  /\ todo' = Tail(todo)
  /\ UNCHANGED <<phase, text, result>>

CellsIn(e) == FoldSeq(LAMBDA x, n : n + CellsOf(x), 0, e)
\* the first datum is kept; the stack is freed with all else it holds
Kept == IF Head(g_stack).type = "pair" THEN Head(Head(g_stack).of) ELSE None
EndRead ==
  /\ phase = "reading" /\ todo = <<>> /\ fault = "none"
  /\ phase' = "done" /\ result' = Kept
  /\ g_stack' = <<>> /\ capacity' = 0
  /\ cells' = cells - (1 + CellsIn(g_stack) - CellsOf(Kept))
  /\ UNCHANGED <<text, todo, names, fault>>

\* the program has done with what it read
Release ==
  /\ phase = "done" /\ phase' = "idle" /\ text' = Nothing
  /\ result' = None /\ cells' = cells - CellsOf(result)
  /\ UNCHANGED <<todo, g_stack, capacity, names, fault>>

Next == (\E t \in Text : BeginRead(t)) \/ SyntaxError \/ Action \/ EndRead \/ Release

Spec == Init /\ [][Next]_vars

(***************************************************************************)
(* Properties                                                              *)
(***************************************************************************)
\* While a datum is read the bottom of the stack is a list, what was begun
\* and not ended is above it, and the calls still to come end all of it
\* (quuz-read.c:164: the root is never popped).
TypeOK ==
  /\ phase \in {"idle", "reading", "done"}
  /\ (phase = "reading" /\ fault = "none") =>
       /\ Head(g_stack).type \in {"null", "pair"} /\ Len(g_stack) <= capacity
       /\ Len(g_stack) + CountFrom(todo, 1, BeginCalls) = 1 + CountFrom(todo, 1, EndCalls)
  /\ phase # "reading" => g_stack = <<>> /\ todo = <<>>

\* The assertion in pop (quuz-read.c:164) holds.
RootKept == fault # "pop"

\* Two symbols never have the same name (quuz-object.c:234).
SymbolsUnique ==
  \A i, j \in DOMAIN names : names[i].of = names[j].of => i = j

\* No array is written behind its end: the arrays that are written are on the
\* stack, and a string that leaves it has room for the null that pop writes
\* behind it (quuz-read.c:65, :171).
Elements(x) ==
  CASE x.type = "pair" -> Range(x.of) \cup {x.rest}
    [] x.type = "vector" -> Range(x.of)
    [] OTHER -> {}
Popped ==
  (UNION {Elements(g_stack[i]) : i \in DOMAIN g_stack})
    \cup {names[i] : i \in DOMAIN names \ DOMAIN Interned} \cup {result}
InBounds ==
  /\ \A i \in DOMAIN g_stack :
       g_stack[i].type \in {"string", "bytevector", "vector"} =>
         Len(g_stack[i].of) <= g_stack[i].capacity
  /\ \A a \in Popped : a.type = "string" => Len(a.of) < a.capacity
===============================================================================
