------------------------------- MODULE MCReader -------------------------------
(* The texts of a datum in a datum in a datum, over a few tokens, some with *)
(* a datum comment behind them.                                             *)
EXTENDS Grammar

Make(kind, of) == [kind |-> kind, of |-> of, open |-> <<>>, skip |-> <<>>, sym |-> <<>>]
\* a character, and a name of n of them
C              == [type |-> "char", of |-> <<>>]
Name(n)        == [i \in 1 .. n |-> C]
Token(kind, n) == Make(kind, Name(n))
MCInterned     == << Name(2) >>

One    == Make("simple", <<>>)
Label  == Make("label", <<>>)
Leaves == {One} \cup {Token(k, n) : k \in {"string", "symbol", "bytevector"}, n \in 1 .. 4}
Mixed  == {One, Token("symbol", 1), Token("string", 2), Token("bytevector", 2)}

UpTo(S, lo, hi) == UNION {[1 .. n -> S] : n \in lo .. hi}
Compounds(S, lo, hi) ==
  {Make(k, s) : k \in {"list", "vector"}, s \in UpTo(S, lo, hi)} \cup
  {Make("dotted", s) : s \in UpTo(S, 2, hi)} \cup
  {[Make("abbreviation", <<x>>) EXCEPT !.sym = Name(2)] : x \in S}

Commented(t) ==
  {[t EXCEPT !.skip = <<One>>]} \cup
  (IF t.kind \in {"list", "vector", "dotted", "abbreviation", "bytevector"}
   THEN {[t EXCEPT !.open = <<One>>]} ELSE {})

Small  == {One, Label} \cup UNION {Commented(x) : x \in Mixed \cup {Label}}
Nested == {Make("list", <<One, One>>), Make("list", <<>>), Make("vector", <<One>>),
           Make("dotted", <<One, One>>), Token("symbol", 3), Token("string", 2)}

Data == Leaves \cup Compounds(Mixed, 0, 3) \cup Compounds(Small, 1, 2)
          \cup Compounds(Nested, 1, 3)
          \cup Compounds(Compounds(Nested, 1, 1), 1, 1)
          \cup UNION {Commented(t) : t \in Compounds({One} \cup Nested, 1, 2)}
MCText == {Make("start", <<t>>) : t \in Data}
            \cup {[Make("start", <<t>>) EXCEPT !.open = <<One>>] : t \in Leaves}
===============================================================================
