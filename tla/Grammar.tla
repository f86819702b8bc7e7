------------------------------- MODULE Grammar --------------------------------
(***************************************************************************)
(* The grammar (src/quuz.leg): the calls that a text makes of the reader,  *)
(* what the text denotes, and that this is what is read.  A text is a      *)
(* token or a compound of texts, of; open and skip are the datum comments  *)
(* behind its first and its last token.                                    *)
(***************************************************************************)
EXTENDS Reader

\* the cells of an object: one for each pair, and one for an array
RECURSIVE DatumCells(_)
DatumCellsIn(e) == FoldSeq(LAMBDA x, n : n + DatumCells(x), 0, e)
DatumCells(x) ==
  CASE x.type = "pair" -> Len(x.of) + DatumCellsIn(x.of) + DatumCells(x.rest)
    [] x.type = "vector" -> 1 + DatumCellsIn(x.of)
    [] x.type \in {"string", "bytevector"} -> 1
    [] OTHER -> 0

(***************************************************************************)
(* The calls.  An action of the grammar runs after the space behind its    *)
(* token, in which the datums of comments have actions of their own        *)
(* (quuz.leg:32).                                                          *)
(***************************************************************************)
Do(f)       == <<[do |-> f, of |-> <<>>]>>
DoWith(f, x) == <<[do |-> f, of |-> x]>>
Chars(s)    == [i \in DOMAIN s |-> [do |-> "concat", of |-> s[i]]]
append_sym(s) == Do("push_string") \o Chars(s) \o Do("pop_sym")

RECURSIVE DatumCalls(_)
All(ts)  == FlattenSeq([i \in DOMAIN ts |-> DatumCalls(ts[i])])
DatumCalls(t) ==
  CASE t.kind = "start" -> All(t.open) \o All(t.of)
    [] t.kind = "simple" -> All(t.skip) \o DoWith("append", Atom(t.of))
    [] t.kind = "string" -> Do("push_string") \o Chars(t.of) \o All(t.skip) \o Do("pop")
    [] t.kind = "symbol" -> Do("push_string") \o Chars(t.of) \o All(t.skip) \o Do("pop_sym")
    [] t.kind = "bytevector" ->
         Do("push_bytevector") \o All(t.open) \o Chars(t.of) \o All(t.skip) \o Do("pop")
    [] t.kind = "list" -> Do("push_pair") \o All(t.open) \o All(t.of) \o All(t.skip) \o Do("pop")
    [] t.kind = "dotted" ->
         Do("push_pair") \o All(t.open) \o All(t.of) \o All(t.skip) \o Do("elide_pair") \o Do("pop")
    [] t.kind = "vector" ->
         Do("push_vector") \o All(t.open) \o All(t.of) \o All(t.skip) \o Do("pop")
    [] t.kind = "abbreviation" ->
         Do("push_pair") \o All(t.open) \o append_sym(t.sym) \o All(t.of) \o Do("pop")
    [] t.kind = "label" -> All(t.skip)

(***************************************************************************)
(* What a text denotes, symbols by their names and arrays without the room *)
(* they have left                                                          *)
(***************************************************************************)
RECURSIVE Denoted(_)
AllDenoted(ts) == [i \in DOMAIN ts |-> Denoted(ts[i])]
Denoted(t) ==
  CASE t.kind = "start" -> Denoted(Head(t.of))
    [] t.kind = "simple" -> Atom(t.of)
    [] t.kind = "symbol" -> Sym(t.of)
    [] t.kind \in {"string", "bytevector"} -> Array(t.kind, t.of, 0)
    [] t.kind = "vector" -> Array("vector", AllDenoted(t.of), 0)
    [] t.kind = "list" -> List(AllDenoted(t.of), Null)
    [] t.kind = "abbreviation" -> List(<<Sym(t.sym)>> \o AllDenoted(t.of), Null)
    [] t.kind = "dotted" ->
         LET e == AllDenoted(t.of)  x == Last(e)
         IN IF x.type = "pair" THEN List(Front(e) \o x.of, x.rest) ELSE List(Front(e), x)

RECURSIVE Named(_)
NamedAll(e) == [i \in DOMAIN e |-> Named(e[i])]
Named(x) ==
  CASE x.type = "sym" -> Sym(names[x.id].of)
    [] x.type = "pair" -> List(NamedAll(x.of), Named(x.rest))
    [] x.type = "vector" -> Array("vector", NamedAll(x.of), 0)
    [] x.type \in {"string", "bytevector"} -> Array(x.type, x.of, 0)
    [] OTHER -> x

\* the texts a text is made of, itself included
RECURSIVE Parts(_)
Within(ts) == UNION {Parts(ts[i]) : i \in DOMAIN ts}
Parts(t) ==
  {t} \cup Within(t.open) \cup Within(t.skip) \cup
  (IF t.kind \in {"simple", "string", "symbol", "bytevector", "label"} THEN {} ELSE Within(t.of))
Comments(t) == {p \in Parts(t) : p.open # <<>> \/ p.skip # <<>>}
Labels(t)   == {p \in Parts(t) : p.kind = "label"}

(***************************************************************************)
(* Properties                                                              *)
(***************************************************************************)
\* What is read is what the text says, whatever the lengths of its strings,
\* vectors and lists and however deep they are nested (quuz-read.c:304).
ReadsDatum ==
  (phase = "done" /\ result.type # "none" /\ Comments(text) = {} /\ Labels(text) = {})
    => Named(result) = Denoted(text)

\* Every cell is on the stack, the name of a symbol or part of what was read:
\* no string, pair or vector is lost on the way (quuz-read.c:216, :324,
\* quuz-object.c:240).
NothingLost ==
  /\ cells \in Nat
  /\ fault = "none" =>
       cells = Len(names) + (IF phase = "reading" THEN 1 + CellsIn(g_stack) ELSE CellsOf(result))

\* The assertion in append (quuz-read.c:123) fails only for a comment behind
\* the last character of a token or inside a bytevector, and elide_pair reads
\* its variable prev unset only next to a label; the root stays on the stack,
\* and characters are only written to strings and bytevectors.
FaultsOnlyWhere ==
  /\ fault = "append" => \E p \in Comments(text) : p.kind \in {"string", "symbol", "bytevector"}
  /\ fault \in {"prev", "elide"} => Labels(text) # {}
  /\ RootKept /\ fault # "concat"
===============================================================================
