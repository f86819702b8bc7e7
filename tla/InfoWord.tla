------------------------------- MODULE InfoWord -------------------------------
(***************************************************************************)
(* The info word of a cell (src/quuz.h:88, src/quuz-object.c:153): a       *)
(* reference count, a type, a color and the buffered and dirty flags       *)
(* packed into one size_t.  A word is the set of its bits that are one.    *)
(***************************************************************************)
EXTENDS Naturals

CONSTANT RefcountBits      \* what the other fields leave of a size_t

ASSUME InfoWordAssumption == RefcountBits \in Nat \ {0}

TypeBits     == 4
ColorBits    == 2
BufferedBits == 1
DirtyBits    == 1

TypePos     == RefcountBits
ColorPos    == TypePos + TypeBits
BufferedPos == ColorPos + ColorBits
DirtyPos    == BufferedPos + BufferedBits
WordBits    == DirtyPos + DirtyBits

Field(pos, len) == pos .. pos + len - 1
Word == SUBSET Field(0, WordBits)

\* the mask is applied after the shift down, ...
get_bits(w, pos, len) == {b \in Field(0, len) : b + pos \in w}

\* ... but the value is not masked before it is shifted up
Shifted(v, pos) == {b \in Field(0, WordBits) : \E i \in v : b = i + pos}
set_bits(w, pos, len, v) == (w \ Field(pos, len)) \cup Shifted(v, pos)

qz_refcount(w) == get_bits(w, 0, RefcountBits)
qz_type(w)     == get_bits(w, TypePos, TypeBits)
qz_color(w)    == get_bits(w, ColorPos, ColorBits)
qz_buffered(w) == get_bits(w, BufferedPos, BufferedBits)
qz_dirty(w)    == get_bits(w, DirtyPos, DirtyBits) # {}

\* every field but the dirty flag
Fields(w) == <<qz_refcount(w), qz_type(w), qz_color(w), qz_buffered(w)>>

SetWrongFlag(w, v) == set_bits(w, BufferedPos, BufferedBits, v)       \* mutant
qz_set_dirty(w, v) == set_bits(w, DirtyPos, DirtyBits, v)
Raised  == {0}             \* the flag value 1
Lowered == {}              \* the flag value 0
===============================================================================
