------------------------------ MODULE MCObjects ------------------------------
(* Every structure of three cells, up to the names of the cells. *)
EXTENDS Objects

CONSTANTS c1, c2, c3

MCCell == {c1, c2, c3}

Holding(t, ss) == {[type |-> t, slots |-> s, data |-> "none"] : s \in ss}
Twos(second) == {<<x, y>> : x \in MCCell \cup {Null}, y \in second}

Contents ==
  Holding("pair", Twos(MCCell \cup {Null, Atom})) \cup Holding("promise", Twos({Atom})) \cup
  Holding("vector", Twos(MCCell) \cup {<<>>}) \cup Holding("record", {<<>>}) \cup
  {[type |-> "string", slots |-> <<>>, data |-> d] : d \in {"s", "t"}}

\* the cells in the order in which a reader of c1's slots meets them
Listed(h) == h[c1].slots \o h[c2].slots
Pos(h, c) == CHOOSE i \in 0 .. 5 : \/ i = 5 /\ c \notin ToSet(Listed(h))
                                   \/ /\ i \in DOMAIN Listed(h) /\ Listed(h)[i] = c
                                      /\ \A j \in 1 .. i - 1 : Listed(h)[j] # c
MCHeaps ==
  {h \in [MCCell -> Contents] :
     /\ c2 \in ToSet(h[c1].slots)
     /\ c3 \in ToSet(Listed(h))
     /\ Pos(h, c2) < Pos(h, c3)}

\* a word with ones and zeros in it
MCKept == {{0, 3, 6}}

\* write twice, the whole structure last; or compare two of its cells
Write(x) == [job |-> "write", args |-> <<x, Null>>]
MCPrograms ==
  {<<Write(x), Write(c1)>> : x \in MCCell} \cup
  {<<w>> : w \in [job : {"equal"}, args : {<<c1, c2>>, <<c2, c1>>, <<c2, c3>>}]}
==============================================================================
