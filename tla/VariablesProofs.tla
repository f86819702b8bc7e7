----------------------------- MODULE VariablesProofs -----------------------------
(***************************************************************************)
(* Properties of Variables for any number of scopes, promises, pending     *)
(* calls, variables and values: its types, that an error never releases a  *)
(* frame by a pointer to its old table, that a forced promise has a value, *)
(* that only a define takes a table away from under a set!, and that the   *)
(* module implements LexicalScope.                                         *)
(***************************************************************************)
EXTENDS Variables, FiniteSetTheorems, TLAPS

(***************************************************************************)
(* The invariant                                                           *)
(***************************************************************************)
TableType == [Var -> Value \cup {Unbound}]

CallType ==
  [op : {"set", "define", "eager", "operand", "begin", "operator", "let", "let*",
         "args", "body", "force"},
   f : Frame \cup {Nowhere}, v : Var \cup {None}, m : Nat \ {0}, b : TableType,
   s : Nat \ {0}, p : Pid \cup {0}, env : Seq(Frame)]

Fills(c)   == c.op \in {"let", "args"}
Settled(c) == Fills(c) => c.s = c.m

\* a table of that capacity has room for the bindings
Fits(b, cap) == b \in TableType /\ cap \in Nat \ {0} /\ ~Overfull(b, cap)

GoodCall(c) ==
  /\ c \in CallType
  /\ c.op \in {"set", "let*", "args"} => c.f \in Frame
  /\ c.op = "set" => c.v \in Var
  /\ Fills(c) => ~Overfull(c.b, c.m)
  /\ EnvPushed(c) <=> c.op \in {"body", "force", "let*"}

\* the slot of a set! that a let* is part of is not in the scope of the let*
Apart(c, d) == c.op = "let*" /\ d.op = "set" => c.f # d.f

\* a value may be unspecified only where it is dropped
MayDrop(c)  == c.op \in {"body", "begin"}
NeedsDrop(c) == c.op \in {"set", "define"}
DropsNext(cs) == cs # <<>> => MayDrop(Head(cs))

\* e is an environment with n scopes over the global one
Nests(e, n) == e \in Seq(Frame) /\ Len(e) = n + 1 /\ e[Len(e)] = Global

\* only the innermost call can be between filling its frame and entering it
\* in the safety buffer
GoodStack(cs) ==
  /\ cs \in Seq(CallType)
  /\ \A i \in DOMAIN cs : GoodCall(cs[i])
  /\ \A i \in DOMAIN cs : i > 1 => Settled(cs[i])
  /\ \A i, j \in DOMAIN cs : i < j => Apart(cs[i], cs[j])
  /\ \A i, j \in DOMAIN cs : j = i + 1 /\ NeedsDrop(cs[i]) => MayDrop(cs[j])
  /\ \A i \in DOMAIN cs : EnvPushed(cs[i]) => Nests(cs[i].env, Cardinality(Around(cs, i)))

AllSettled(cs) == \A i \in DOMAIN cs : Settled(cs[i])
EnvFits(cs, e) == Nests(e, Cardinality(Entered(cs)))

\* the variables whose slots are held are bound
SlotsBound(cs, t) ==
  \A i \in DOMAIN cs : cs[i].op = "set" => t[cs[i].f][cs[i].v] # Unbound

StoreOK ==
  /\ table \in [Frame -> TableType]
  /\ capacity \in [Frame -> Nat \ {0}]
  /\ \A f \in Frame : ~Overfull(table[f], capacity[f])
  /\ outer \in [Frame -> Frame \cup {Nowhere}]
  /\ promise \in [Pid -> [scope : Frame \cup {Nowhere}, value : Value \cup {None}]]
  /\ ForcedHasValue

VInv ==
  /\ GoodStack(calls) /\ EnvFits(calls, env) /\ SlotsBound(calls, table)
  /\ turn = "bind" => calls # <<>> /\ Top.op \in {"let", "args", "let*"}
  /\ turn # "bind" => AllSettled(calls)
  /\ turn = "idle" => calls = <<>>
  /\ turn = "return" /\ value = None => DropsNext(calls)
  /\ StoreOK
  /\ turn \in {"eval", "bind", "return", "idle"}
  /\ value \in Value \cup {None}
  /\ fault # "stale frame"

(***************************************************************************)
(* Stacks                                                                  *)
(***************************************************************************)
LEMMA Shifted ==
  ASSUME NEW S \in SUBSET Nat, IsFiniteSet(S)
  PROVE  /\ IsFiniteSet({i + 1 : i \in S})
         /\ Cardinality({i + 1 : i \in S}) = Cardinality(S)
<1> DEFINE T == {i + 1 : i \in S}
           g == [i \in S |-> i + 1]
<1>1. g \in Bijection(S, T)
  <2>1. g \in [S -> T]  OBVIOUS
  <2>2. \A a, b \in S : g[a] = g[b] => a = b  OBVIOUS
  <2>3. \A t \in T : \E s \in S : g[s] = t  OBVIOUS
  <2> QED  BY <2>1, <2>2, <2>3 DEF Bijection, Injection, Surjection, IsInjective
<1>2. ExistsBijection(S, T)  BY <1>1 DEF ExistsBijection
<1>3. IsFiniteSet(T) /\ Cardinality(T) = Cardinality(S)  BY <1>2, FS_Bijection
<1> QED  BY <1>3

LEMMA EnteredType ==
  ASSUME NEW cs \in Seq(CallType)
  PROVE  Entered(cs) \in SUBSET Nat /\ IsFiniteSet(Entered(cs))
<1>1. DOMAIN cs = 1 .. Len(cs) /\ Len(cs) \in Nat  OBVIOUS
<1>2. IsFiniteSet(1 .. Len(cs))  BY <1>1, FS_Interval
<1> QED  BY <1>1, <1>2, FS_Subset DEF Entered

\* What a push does to the calls that have entered a scope.
LEMMA EnteredPushed ==
  ASSUME NEW cs \in Seq(CallType), NEW c \in CallType
  PROVE  LET new == <<c>> \o cs IN
         /\ new \in Seq(CallType) /\ DOMAIN new = 1 .. Len(cs) + 1 /\ Len(cs) \in Nat
         /\ new[1] = c /\ Head(new) = c /\ new # <<>> /\ Tail(new) = cs
         /\ \A i \in DOMAIN new : i = 1 \/ (i > 1 /\ i - 1 \in DOMAIN cs /\ new[i] = cs[i - 1])
         /\ Cardinality(Around(new, 1)) = Cardinality(Entered(cs))
         /\ \A i \in DOMAIN cs : /\ i + 1 \in DOMAIN new /\ new[i + 1] = cs[i]
                                 /\ Cardinality(Around(new, i + 1)) = Cardinality(Around(cs, i))
         /\ Cardinality(Entered(new)) =
              IF EnvPushed(c) THEN Cardinality(Entered(cs)) + 1 ELSE Cardinality(Entered(cs))
<1> DEFINE new == <<c>> \o cs
<1>1. /\ new \in Seq(CallType) /\ DOMAIN new = 1 .. Len(cs) + 1 /\ Len(cs) \in Nat
      /\ new[1] = c /\ Head(new) = c /\ new # <<>> /\ Tail(new) = cs
      /\ DOMAIN cs = 1 .. Len(cs)
  OBVIOUS
<1>2. \A i \in DOMAIN new : i = 1 \/ (i > 1 /\ i - 1 \in DOMAIN cs /\ new[i] = cs[i - 1])
  OBVIOUS
<1>3. \A i \in DOMAIN cs : i + 1 \in DOMAIN new /\ new[i + 1] = cs[i]
  OBVIOUS
<1> HIDE DEF new
<1>4. Entered(cs) \in SUBSET Nat /\ IsFiniteSet(Entered(cs))  BY EnteredType
<1>5. \A i \in DOMAIN cs : i \in Nat  BY <1>1
<1>6. Around(new, 1) = {i + 1 : i \in Entered(cs)}
  <2>1. ASSUME NEW k \in Around(new, 1)  PROVE k - 1 \in Entered(cs) /\ k = (k - 1) + 1
    <3>1. k \in DOMAIN new /\ EnvPushed(new[k]) /\ k > 1 /\ k \in Nat
      BY <1>1, <2>1 DEF Around, Entered
    <3>2. k - 1 \in DOMAIN cs /\ new[k] = cs[k - 1]  BY <1>2, <3>1
    <3> QED  BY <3>1, <3>2 DEF Entered
  <2>2. ASSUME NEW i \in Entered(cs)  PROVE i + 1 \in Around(new, 1)
    <3>1. i \in DOMAIN cs /\ EnvPushed(cs[i]) /\ i \in Nat /\ i > 0
      BY <1>1, <2>2 DEF Entered
    <3> QED  BY <1>3, <3>1 DEF Around, Entered
  <2> QED  BY <2>1, <2>2
<1>7. Cardinality(Around(new, 1)) = Cardinality(Entered(cs)) /\ IsFiniteSet(Around(new, 1))
  BY <1>4, <1>6, Shifted
<1>8. ASSUME NEW i \in DOMAIN cs
      PROVE  Cardinality(Around(new, i + 1)) = Cardinality(Around(cs, i))
  <2>1. Around(new, i + 1) = {j + 1 : j \in Around(cs, i)}
    <3>1. ASSUME NEW k \in Around(new, i + 1) PROVE k - 1 \in Around(cs, i) /\ k = (k - 1) + 1
      <4>1. k \in DOMAIN new /\ EnvPushed(new[k]) /\ k > i + 1 /\ k \in Nat
        BY <1>1, <3>1 DEF Around, Entered
      <4>2. k - 1 \in DOMAIN cs /\ new[k] = cs[k - 1]  BY <1>2, <1>5, <4>1
      <4> QED  BY <1>5, <4>1, <4>2 DEF Around, Entered
    <3>2. ASSUME NEW j \in Around(cs, i) PROVE j + 1 \in Around(new, i + 1)
      <4>1. j \in DOMAIN cs /\ EnvPushed(cs[j]) /\ j > i /\ j \in Nat
        BY <1>5, <3>2 DEF Around, Entered
      <4> QED  BY <1>3, <1>5, <4>1 DEF Around, Entered
    <3> QED  BY <3>1, <3>2
  <2>2. Around(cs, i) \in SUBSET Nat /\ IsFiniteSet(Around(cs, i))
    BY <1>4, FS_Subset, Around(cs, i) \subseteq Entered(cs) DEF Around
  <2> QED  BY <2>1, <2>2, Shifted
<1>9. CASE EnvPushed(c)
  <2>1. Entered(new) = Around(new, 1) \cup {1} /\ 1 \notin Around(new, 1)
    BY <1>1, <1>2, <1>9 DEF Around, Entered
  <2>2. Cardinality(Entered(new)) = Cardinality(Entered(cs)) + 1
    BY <1>7, <2>1, FS_AddElement
  <2> QED  BY <1>1, <1>2, <1>3, <1>7, <1>8, <1>9, <2>2 DEF new
<1>10. CASE ~EnvPushed(c)
  <2>1. Entered(new) = Around(new, 1)
    BY <1>1, <1>2, <1>10 DEF Around, Entered
  <2> QED  BY <1>1, <1>2, <1>3, <1>7, <1>8, <1>10, <2>1 DEF new
<1> QED  BY <1>9, <1>10

\* A call is pushed.
LEMMA Pushed ==
  ASSUME NEW cs, GoodStack(cs), AllSettled(cs), NEW c, GoodCall(c),
         \A j \in DOMAIN cs : Apart(c, cs[j]),
         NeedsDrop(c) => DropsNext(cs),
         EnvPushed(c) => EnvFits(cs, c.env)
  PROVE  /\ GoodStack(<<c>> \o cs)
         /\ Head(<<c>> \o cs) = c /\ <<c>> \o cs # <<>>
         /\ Settled(c) => AllSettled(<<c>> \o cs)
         /\ ~EnvPushed(c) => \A e : EnvFits(cs, e) => EnvFits(<<c>> \o cs, e)
         /\ EnvPushed(c) => \A f \in Frame : EnvFits(<<c>> \o cs, <<f>> \o c.env)
         /\ \A t : SlotsBound(cs, t) /\ (c.op = "set" => t[c.f][c.v] # Unbound)
                     => SlotsBound(<<c>> \o cs, t)
<1> DEFINE new == <<c>> \o cs
<1>1. cs \in Seq(CallType) /\ c \in CallType  BY DEF GoodStack, GoodCall
<1>2. /\ new \in Seq(CallType) /\ DOMAIN new = 1 .. Len(cs) + 1 /\ Len(cs) \in Nat
      /\ new[1] = c /\ Head(new) = c /\ new # <<>>
      /\ \A i \in DOMAIN new : i = 1 \/ (i > 1 /\ i - 1 \in DOMAIN cs /\ new[i] = cs[i - 1])
      /\ Cardinality(Around(new, 1)) = Cardinality(Entered(cs))
      /\ \A i \in DOMAIN cs : Cardinality(Around(new, i + 1)) = Cardinality(Around(cs, i))
      /\ Cardinality(Entered(new)) =
           IF EnvPushed(c) THEN Cardinality(Entered(cs)) + 1 ELSE Cardinality(Entered(cs))
  BY <1>1, EnteredPushed
<1> HIDE DEF new
<1>3. \A i \in DOMAIN new : GoodCall(new[i])  BY <1>2 DEF GoodStack
<1>4. \A i \in DOMAIN new : i > 1 => Settled(new[i])  BY <1>2 DEF AllSettled
<1>5. \A i, j \in DOMAIN new : i < j => Apart(new[i], new[j])
  <2> SUFFICES ASSUME NEW i \in DOMAIN new, NEW j \in DOMAIN new, i < j
               PROVE  Apart(new[i], new[j])  OBVIOUS
  <2>1. j - 1 \in DOMAIN cs /\ new[j] = cs[j - 1]  BY <1>2
  <2>2. CASE i = 1  BY <2>1, <2>2, <1>2
  <2>3. CASE i # 1
    <3>1. i - 1 \in DOMAIN cs /\ new[i] = cs[i - 1] /\ i - 1 < j - 1  BY <2>3, <1>2
    <3> QED  BY <2>1, <3>1 DEF GoodStack
  <2> QED  BY <2>2, <2>3
<1>6. \A i, j \in DOMAIN new : j = i + 1 /\ NeedsDrop(new[i]) => MayDrop(new[j])
  <2> SUFFICES ASSUME NEW i \in DOMAIN new, NEW j \in DOMAIN new, j = i + 1,
                      NeedsDrop(new[i])
               PROVE  MayDrop(new[j])  OBVIOUS
  <2>1. j - 1 \in DOMAIN cs /\ new[j] = cs[j - 1]  BY <1>2
  <2>2. CASE i = 1
    <3>1. new[j] = cs[1] /\ 1 \in DOMAIN cs /\ NeedsDrop(c)  BY <2>1, <2>2, <1>2
    <3>2. cs # <<>> /\ Head(cs) = cs[1]  BY <1>1, <3>1
    <3> QED  BY <3>1, <3>2 DEF DropsNext
  <2>3. CASE i # 1
    <3>1. i - 1 \in DOMAIN cs /\ new[i] = cs[i - 1] /\ j - 1 = (i - 1) + 1
      BY <2>3, <1>2
    <3> QED  BY <2>1, <3>1 DEF GoodStack
  <2> QED  BY <2>2, <2>3
<1>7. \A i \in DOMAIN new : EnvPushed(new[i]) => Nests(new[i].env, Cardinality(Around(new, i)))
  <2> SUFFICES ASSUME NEW i \in DOMAIN new, EnvPushed(new[i])
               PROVE  Nests(new[i].env, Cardinality(Around(new, i)))  OBVIOUS
  <2>1. CASE i = 1  BY <2>1, <1>2 DEF EnvFits
  <2>2. CASE i # 1
    <3>1. i - 1 \in DOMAIN cs /\ new[i] = cs[i - 1] /\ i \in Nat  BY <2>2, <1>2
    <3>2. Nests(cs[i - 1].env, Cardinality(Around(cs, i - 1)))  BY <3>1 DEF GoodStack
    <3>3. Cardinality(Around(new, (i - 1) + 1)) = Cardinality(Around(cs, i - 1))
      BY <1>2, <3>1
    <3>4. (i - 1) + 1 = i  BY <3>1
    <3> QED  BY <3>1, <3>2, <3>3, <3>4
  <2> QED  BY <2>1, <2>2
<1>8. GoodStack(new)  BY <1>2, <1>3, <1>4, <1>5, <1>6, <1>7 DEF GoodStack
<1>9. Settled(c) => AllSettled(new)  BY <1>2, <1>4 DEF AllSettled
<1>10. ~EnvPushed(c) => \A e : EnvFits(cs, e) => EnvFits(new, e)  BY <1>2 DEF EnvFits
<1>11. ASSUME EnvPushed(c), NEW f \in Frame PROVE EnvFits(new, <<f>> \o c.env)
  <2>1. Nests(c.env, Cardinality(Entered(cs)))  BY <1>11 DEF EnvFits
  <2>2. Cardinality(Entered(cs)) \in Nat  BY <1>1, EnteredType, FS_CardinalityType
  <2>3. Nests(<<f>> \o c.env, Cardinality(Entered(cs)) + 1)
    BY <2>1, <2>2 DEF Nests
  <2> QED  BY <1>2, <1>11, <2>3 DEF EnvFits
<1>12. ASSUME NEW t, SlotsBound(cs, t), c.op = "set" => t[c.f][c.v] # Unbound
       PROVE  SlotsBound(new, t)
  BY <1>2, <1>12 DEF SlotsBound
<1> QED  BY <1>2, <1>8, <1>9, <1>10, <1>11, <1>12 DEF new

\* A call returns.
LEMMA Popped ==
  ASSUME NEW cs, GoodStack(cs), cs # <<>>
  PROVE  /\ GoodStack(Tail(cs)) /\ AllSettled(Tail(cs))
         /\ \A j \in DOMAIN Tail(cs) : /\ j + 1 \in DOMAIN cs /\ j \in Nat
                                       /\ Tail(cs)[j] = cs[j + 1]
                                       /\ Apart(Head(cs), Tail(cs)[j])
         /\ GoodCall(Head(cs)) /\ 1 \in DOMAIN cs /\ Head(cs) = cs[1]
         /\ Len(cs) \in Nat /\ Len(Tail(cs)) + 1 = Len(cs) /\ Len(Tail(cs)) \in Nat
         /\ DOMAIN cs = 1 .. Len(cs)
         /\ NeedsDrop(Head(cs)) => DropsNext(Tail(cs))
         /\ ~EnvPushed(Head(cs)) => /\ \A e : EnvFits(cs, e) => EnvFits(Tail(cs), e)
                                    /\ Cardinality(Entered(Tail(cs))) = Cardinality(Entered(cs))
         /\ EnvPushed(Head(cs)) => EnvFits(Tail(cs), Head(cs).env)
         /\ \A t : SlotsBound(cs, t) => SlotsBound(Tail(cs), t)
<1> DEFINE new == Tail(cs)
           c   == Head(cs)
<1>1. /\ cs \in Seq(CallType) /\ new \in Seq(CallType) /\ c \in CallType
      /\ Len(cs) \in Nat /\ Len(new) + 1 = Len(cs) /\ Len(new) \in Nat
      /\ DOMAIN cs = 1 .. Len(cs) /\ DOMAIN new = 1 .. Len(new)
      /\ 1 \in DOMAIN cs /\ c = cs[1] /\ cs = <<c>> \o new
  BY DEF GoodStack
<1>2. \A j \in DOMAIN new : j \in Nat \ {0} /\ j + 1 \in DOMAIN cs /\ new[j] = cs[j + 1]
  BY <1>1
<1>3. /\ Cardinality(Around(cs, 1)) = Cardinality(Entered(new))
      /\ \A i \in DOMAIN new : Cardinality(Around(cs, i + 1)) = Cardinality(Around(new, i))
      /\ Cardinality(Entered(cs)) =
           IF EnvPushed(c) THEN Cardinality(Entered(new)) + 1 ELSE Cardinality(Entered(new))
  <2> HIDE DEF c, new
  <2> QED  BY <1>1, EnteredPushed
<1>4. \A j \in DOMAIN new : Apart(c, new[j])  BY <1>1, <1>2 DEF GoodStack
<1>5. \A j \in DOMAIN new : Settled(new[j])  BY <1>1, <1>2 DEF GoodStack
<1>6. \A j \in DOMAIN new : GoodCall(new[j])  BY <1>2 DEF GoodStack
<1>7. \A i, j \in DOMAIN new : i < j => Apart(new[i], new[j])
  <2> SUFFICES ASSUME NEW i \in DOMAIN new, NEW j \in DOMAIN new, i < j
               PROVE  Apart(new[i], new[j])  OBVIOUS
  <2>1. i + 1 < j + 1  BY <1>2
  <2> QED  BY <1>2, <2>1 DEF GoodStack
<1>8. GoodCall(c)  BY <1>1 DEF GoodStack
<1>9. \A i, j \in DOMAIN new : j = i + 1 /\ NeedsDrop(new[i]) => MayDrop(new[j])
  BY <1>2 DEF GoodStack
<1>10. \A i \in DOMAIN new : EnvPushed(new[i]) => Nests(new[i].env, Cardinality(Around(new, i)))
  BY <1>2, <1>3 DEF GoodStack
<1>11. NeedsDrop(c) => DropsNext(new)
  <2> SUFFICES ASSUME NeedsDrop(c), new # <<>> PROVE MayDrop(Head(new))
    BY DEF DropsNext
  <2>1. 1 \in DOMAIN new /\ Head(new) = new[1]  BY <1>1
  <2>2. new[1] = cs[2] /\ 2 \in DOMAIN cs  BY <1>2, <2>1
  <2> QED  BY <1>1, <2>1, <2>2 DEF GoodStack
<1>12. EnvPushed(c) => EnvFits(new, c.env)
  BY <1>1, <1>3 DEF GoodStack, EnvFits
<1>13. \A t : SlotsBound(cs, t) => SlotsBound(new, t)  BY <1>2 DEF SlotsBound
<1> HIDE DEF new, c
<1>14. GoodStack(new) /\ AllSettled(new)
  <2>1. \A j \in DOMAIN new : j > 1 => Settled(new[j])  BY <1>5
  <2>2. new \in Seq(CallType)  BY <1>1
  <2> QED  BY <1>5, <1>6, <1>7, <1>9, <1>10, <2>1, <2>2 DEF GoodStack, AllSettled
<1>15. ~EnvPushed(c) => \A e : EnvFits(cs, e) => EnvFits(new, e)  BY <1>3 DEF EnvFits
<1> QED  BY <1>1, <1>2, <1>3, <1>4, <1>8, <1>11, <1>12, <1>13, <1>14, <1>15 DEF new, c

\* The innermost call is replaced.
LEMMA Replaced ==
  ASSUME NEW cs, GoodStack(cs), cs # <<>>, NEW c, GoodCall(c), c.op # "set", ~NeedsDrop(c),
         c.op = "let*" => Head(cs).op = "let*" /\ c.f = Head(cs).f,
         EnvPushed(c) => EnvFits(Tail(cs), c.env)
  PROVE  /\ GoodStack(<<c>> \o Tail(cs))
         /\ Head(<<c>> \o Tail(cs)) = c /\ <<c>> \o Tail(cs) # <<>>
         /\ Settled(c) => AllSettled(<<c>> \o Tail(cs))
         /\ ~EnvPushed(c) => \A e : EnvFits(Tail(cs), e) => EnvFits(<<c>> \o Tail(cs), e)
         /\ EnvPushed(c) => \A f \in Frame : EnvFits(<<c>> \o Tail(cs), <<f>> \o c.env)
         /\ \A t : SlotsBound(cs, t) => SlotsBound(<<c>> \o Tail(cs), t)
<1>1. /\ GoodStack(Tail(cs)) /\ AllSettled(Tail(cs))
      /\ \A j \in DOMAIN Tail(cs) : Apart(Head(cs), Tail(cs)[j])
      /\ \A t : SlotsBound(cs, t) => SlotsBound(Tail(cs), t)
  BY Popped
<1>2. \A j \in DOMAIN Tail(cs) : Apart(c, Tail(cs)[j])  BY <1>1 DEF Apart
<1>3. \A t : SlotsBound(Tail(cs), t) => SlotsBound(<<c>> \o Tail(cs), t)
  BY <1>1, <1>2, Pushed
<1> QED  BY <1>1, <1>2, <1>3, Pushed

LEMMA NoCalls ==
  /\ GoodStack(<<>>) /\ AllSettled(<<>>) /\ DropsNext(<<>>)
  /\ EnvFits(<<>>, <<Global>>) /\ \A e : EnvFits(<<>>, e) => e = <<Global>>
  /\ \A t : SlotsBound(<<>>, t)
<1>1. <<>> \in Seq(CallType) /\ DOMAIN <<>> = {}  OBVIOUS
<1>2. Entered(<<>>) = {}  BY <1>1 DEF Entered
<1>3. Cardinality(Entered(<<>>)) = 0  BY <1>2, FS_EmptySet
<1>4. <<Global>> \in Seq(Frame) /\ Len(<<Global>>) = 1 /\ <<Global>>[1] = Global
  BY VariablesAssumption DEF Frame, Global
<1>5. EnvFits(<<>>, <<Global>>)  BY <1>3, <1>4 DEF EnvFits, Nests
<1>6. ASSUME NEW e, EnvFits(<<>>, e) PROVE e = <<Global>>
  <2>1. e \in Seq(Frame) /\ Len(e) = 1 /\ e[1] = Global  BY <1>3, <1>6 DEF EnvFits, Nests
  <2> QED  BY <2>1
<1> QED  BY <1>1, <1>5, <1>6 DEF GoodStack, AllSettled, DropsNext, SlotsBound

(***************************************************************************)
(* Lost slots                                                              *)
(***************************************************************************)
LEMMA PushLosesNothing ==
  ASSUME NEW cs \in Seq(CallType), NEW c \in CallType, NEW cap, ~LostSlot(c, cap)
  PROVE  Stale(<<c>> \o cs, cap) \subseteq Stale(cs, cap)
<1> DEFINE new == <<c>> \o cs
<1>1. /\ Len(cs) \in Nat /\ DOMAIN cs = 1 .. Len(cs)
      /\ Len(new) = Len(cs) + 1 /\ DOMAIN new = 1 .. Len(cs) + 1
      /\ new[1] = c
      /\ \A i \in DOMAIN new : i # 1 => new[i] = cs[i - 1]
  OBVIOUS
<1> HIDE DEF new
<1>2. \A i \in DOMAIN new : LostSlot(new[i], cap) =>
        i - 1 \in DOMAIN cs /\ LostSlot(cs[i - 1], cap)
                            /\ Len(new) + 1 - i = Len(cs) + 1 - (i - 1)
  BY <1>1
<1>3. Stale(new, cap) \subseteq Stale(cs, cap)
  <2> SUFFICES ASSUME NEW i \in DOMAIN new, LostSlot(new[i], cap)
               PROVE  Len(new) + 1 - i \in Stale(cs, cap)
    BY DEF Stale
  <2> QED  BY <1>2 DEF Stale
<1> QED  BY <1>3 DEF new

LEMMA PopLosesNothing ==
  ASSUME NEW cs, GoodStack(cs), cs # <<>>, NEW cap
  PROVE  Stale(Tail(cs), cap) \subseteq Stale(cs, cap)
<1>1. \A j \in DOMAIN Tail(cs) : j \in Nat /\ j + 1 \in DOMAIN cs /\ Tail(cs)[j] = cs[j + 1]
  BY Popped
<1>2. Len(cs) \in Nat /\ Len(Tail(cs)) + 1 = Len(cs) /\ Len(Tail(cs)) \in Nat  BY Popped
<1>3. \A j \in DOMAIN Tail(cs) : Len(Tail(cs)) + 1 - j = Len(cs) + 1 - (j + 1)
  BY <1>1, <1>2
<1> SUFFICES ASSUME NEW j \in DOMAIN Tail(cs), LostSlot(Tail(cs)[j], cap)
             PROVE  Len(Tail(cs)) + 1 - j \in Stale(cs, cap)
  BY DEF Stale
<1> QED  BY <1>1, <1>3 DEF Stale

LEMMA ReplaceLosesNothing ==
  ASSUME NEW cs, GoodStack(cs), cs # <<>>, NEW c \in CallType, NEW cap, c.op # "set"
  PROVE  Stale(<<c>> \o Tail(cs), cap) \subseteq Stale(cs, cap)
<1>1. Stale(Tail(cs), cap) \subseteq Stale(cs, cap)  BY PopLosesNothing
<1>2. Tail(cs) \in Seq(CallType)  BY Popped DEF GoodStack
<1>3. ~LostSlot(c, cap)  BY DEF LostSlot
<1> QED  BY <1>1, <1>2, <1>3, PushLosesNothing

LEMMA NothingToLose == ASSUME NEW cap PROVE Stale(<<>>, cap) = {}
BY DEF Stale

\* Slots are lost only with the capacity of their frames.
LEMMA SameCapacities ==
  ASSUME NEW cs, NEW cap, NEW cap2,
         \A i \in DOMAIN cs : cs[i].op = "set" => cap2[cs[i].f] = cap[cs[i].f]
  PROVE  Stale(cs, cap2) = Stale(cs, cap)
<1>1. \A i \in DOMAIN cs : LostSlot(cs[i], cap2) <=> LostSlot(cs[i], cap)
  BY DEF LostSlot
<1> QED  BY <1>1 DEF Stale

(***************************************************************************)
(* Tables                                                                  *)
(***************************************************************************)
LEMMA NewTableFits == Fits(NewTable, Capacity0)
<1>1. {v \in Var : NewTable[v] # Unbound} = {}  BY DEF NewTable
<1>2. Bindings(NewTable) = 0  BY <1>1, FS_EmptySet DEF Bindings
<1> QED  BY <1>2, VariablesAssumption DEF Fits, Overfull, NewTable, TableType

Rebound(b, v, x) == [b EXCEPT ![v] = x]

\* A table that grows has room afterwards, and it grows only for a new name.
LEMMA Rebinding ==
  ASSUME NEW b, NEW cap, Fits(b, cap), NEW v, NEW x \in Value, NEW c, c = Rebound(b, v, x)
  PROVE  /\ Fits(c, MovesAfter(c, cap))
         /\ \A u \in Var : b[u] # Unbound => c[u] # Unbound
         /\ MovesAfter(c, cap) # cap => \E u \in Var : b[u] = Unbound /\ c[u] # Unbound
         /\ b[v] # Unbound /\ v \in Var => ~Overfull(c, cap)
<1> DEFINE B == {u \in Var : b[u] # Unbound}
           C == {u \in Var : c[u] # Unbound}
<1>1. c \in TableType /\ \A u \in Var : c[u] = IF u = v THEN x ELSE b[u]
  BY DEF Fits, TableType, Rebound
<1>2. IsFiniteSet(B) /\ IsFiniteSet(C)
  BY VariablesAssumption, FS_Subset, B \subseteq Var, C \subseteq Var
<1>4. C \subseteq B \cup {v}  BY <1>1
<1>5. \A u \in Var : b[u] # Unbound => c[u] # Unbound  BY <1>1, VariablesAssumption
<1>6. b[v] # Unbound /\ v \in Var => C \subseteq B  BY <1>1
<1> HIDE DEF B, C
<1>3. IsFiniteSet(B \cup {v}) /\ Cardinality(B \cup {v}) <= Cardinality(B) + 1
      /\ Cardinality(B) \in Nat /\ Cardinality(C) \in Nat
  <2>1. Cardinality(B) \in Nat /\ Cardinality(C) \in Nat  BY <1>2, FS_CardinalityType
  <2>2. /\ IsFiniteSet(B \cup {v})
        /\ Cardinality(B \cup {v}) = IF v \in B THEN Cardinality(B) ELSE Cardinality(B) + 1
    BY <1>2, FS_AddElement
  <2> QED  BY <2>1, <2>2
<1>7. Cardinality(C) <= Cardinality(B) + 1
  <2>1. Cardinality(C) <= Cardinality(B \cup {v})  BY <1>3, <1>4, FS_Subset
  <2>2. Cardinality(B \cup {v}) \in Nat  BY <1>3, FS_CardinalityType
  <2> QED  BY <1>3, <2>1, <2>2
<1>8. cap \in Nat \ {0} /\ Cardinality(B) * 10 <= cap * 7
  BY <1>3 DEF Fits, Overfull, Bindings, B
<1>9. Bindings(c) = Cardinality(C)  BY DEF Bindings, C
<1>10. ASSUME C \subseteq B PROVE MovesAfter(c, cap) = cap /\ ~Overfull(c, cap)
  <2>1. Cardinality(C) <= Cardinality(B)  BY <1>2, <1>10, FS_Subset
  <2> QED  BY <1>3, <1>8, <1>9, <2>1 DEF MovesAfter, Overfull
<1>11. Fits(c, MovesAfter(c, cap))
  BY <1>1, <1>3, <1>7, <1>8, <1>9 DEF Fits, MovesAfter, Overfull
<1>12. MovesAfter(c, cap) # cap => \E u \in Var : b[u] = Unbound /\ c[u] # Unbound
  BY <1>10 DEF B, C
<1> QED  BY <1>5, <1>6, <1>10, <1>11, <1>12

\* A binding of a let* or a define.
LEMMA SetInTable ==
  ASSUME VInv, NEW f \in Frame, NEW v, NEW x \in Value, qz_hash_set(f, v, x),
         UNCHANGED <<outer, promise>>
  PROVE  /\ StoreOK'
         /\ SlotsBound(calls, table')
         /\ \A i \in DOMAIN calls : LostSlot(calls[i], capacity') =>
              \/ LostSlot(calls[i], capacity)
              \/ calls[i].op = "set" /\ calls[i].f = f
                 /\ \E u \in Var : table[f][u] = Unbound /\ table'[f][u] # Unbound
<1> DEFINE b == [table[f] EXCEPT ![v] = x]
<1>1. /\ table' = [table EXCEPT ![f] = b]
      /\ capacity' = [capacity EXCEPT ![f] = MovesAfter(b, capacity[f])]
  BY DEF qz_hash_set
<1>2. table \in [Frame -> TableType] /\ capacity \in [Frame -> Nat \ {0}]
  BY DEF VInv, StoreOK
<1>3. Fits(table[f], capacity[f])  BY <1>2 DEF VInv, StoreOK, Fits
<1>0. b = Rebound(table[f], v, x)  BY DEF Rebound
<1> HIDE DEF b
<1>4. /\ Fits(b, MovesAfter(b, capacity[f]))
      /\ \A u \in Var : table[f][u] # Unbound => b[u] # Unbound
      /\ MovesAfter(b, capacity[f]) # capacity[f] =>
           \E u \in Var : table[f][u] = Unbound /\ b[u] # Unbound
  BY <1>3, <1>0, Rebinding
<1>5. /\ table'[f] = b /\ capacity'[f] = MovesAfter(b, capacity[f])
      /\ \A g \in Frame : g # f => table'[g] = table[g] /\ capacity'[g] = capacity[g]
      /\ table' \in [Frame -> TableType] /\ capacity' \in [Frame -> Nat \ {0}]
  BY <1>1, <1>2, <1>4 DEF Fits
<1>6. \A g \in Frame : ~Overfull(table'[g], capacity'[g])
  BY <1>4, <1>5 DEF VInv, StoreOK, Fits
<1>7. StoreOK'
  <2>1. \A g \in Frame : ~Overfull(table[g], capacity[g])'
    BY <1>6 DEF Overfull, Bindings
  <2> QED  BY <1>5, <2>1 DEF VInv, StoreOK, ForcedHasValue, IsForced
<1>8. \A i \in DOMAIN calls : calls[i].op = "set" => calls[i].f \in Frame /\ calls[i].v \in Var
  BY DEF VInv, GoodStack, GoodCall
<1>9. SlotsBound(calls, table')
  BY <1>4, <1>5, <1>8 DEF VInv, SlotsBound
<1> QED  BY <1>4, <1>5, <1>7, <1>8, <1>9 DEF LostSlot

\* A new frame is not the frame of a slot that a set! holds.
LEMMA NewFrames ==
  ASSUME NEW f \in NewFrame
  PROVE  f \in Frame /\ Ref(f) \notin Reachable /\ \A i \in DOMAIN calls : calls[i].f # f
<1>1. f \in Frame /\ Ref(f) \in Garbage
  BY VariablesAssumption DEF NewFrame, Least, Index, FrameRefs, Ref, Frame
<1>2. ASSUME NEW i \in DOMAIN calls PROVE Ref(calls[i].f) \in Roots
  <2>1. Ref(calls[i].f) \in Held(calls[i])  BY DEF Held
  <2> QED  BY <2>1 DEF Roots
<1>3. Garbage \cap Roots = {}  BY DEF Garbage
<1> QED  BY <1>1, <1>2, <1>3 DEF Reachable

LEMMA NewPromises ==
  ASSUME NEW p \in NewPromise
  PROVE  p \in Pid /\ Promise(p) \in Garbage
BY DEF NewPromise, Least, Index, Promises, Promise, Pid

\* A scope is entered, with a new frame.
LEMMA Enters ==
  ASSUME VInv, NEW f \in NewFrame, NEW o \in Frame, NEW b, NEW cap, Fits(b, cap),
         EnterScope(f, o, b, cap), UNCHANGED promise
  PROVE  /\ StoreOK' /\ Stale(calls, capacity') = Stale(calls, capacity)
         /\ SlotsBound(calls, table')
<1>1. f \in Frame /\ \A i \in DOMAIN calls : calls[i].f # f  BY NewFrames
<1>2. /\ table' \in [Frame -> TableType] /\ capacity' \in [Frame -> Nat \ {0}]
      /\ outer' \in [Frame -> Frame \cup {Nowhere}]
      /\ table'[f] = b /\ capacity'[f] = cap
      /\ \A g \in Frame : g # f => table'[g] = table[g] /\ capacity'[g] = capacity[g]
  BY <1>1 DEF EnterScope, VInv, StoreOK, Fits
<1>3. \A g \in Frame : ~Overfull(table'[g], capacity'[g])
  BY <1>2 DEF VInv, StoreOK, Fits
<1>4. \A g \in Frame : ~Overfull(table[g], capacity[g])'
  BY <1>3 DEF Overfull, Bindings
<1>5. \A i \in DOMAIN calls : calls[i].op = "set" => calls[i].f \in Frame
  BY DEF VInv, GoodStack, GoodCall
<1>6. \A i \in DOMAIN calls : calls[i].op = "set" => capacity'[calls[i].f] = capacity[calls[i].f]
  BY <1>1, <1>2, <1>5
<1>7. SlotsBound(calls, table')  BY <1>1, <1>2, <1>5 DEF VInv, SlotsBound
<1>8. StoreOK'  BY <1>2, <1>4 DEF VInv, StoreOK, ForcedHasValue, IsForced
<1> QED  BY <1>6, <1>7, <1>8, SameCapacities

(***************************************************************************)
(* Calls                                                                   *)
(***************************************************************************)
LEMMA NewCalls ==
  ASSUME NEW name \in {"set", "define", "eager", "operand", "begin", "operator", "let", "let*",
                       "args", "body", "force"}
  PROVE  LET c == Call(name) IN
         /\ c \in CallType /\ c.op = name /\ c.f = Nowhere /\ c.env = <<>>
         /\ c.b = NewTable /\ c.m = Capacity0 /\ c.s = Capacity0
BY NewTableFits, VariablesAssumption DEF Call, CallType, Fits

LEMMA InFrame ==
  ASSUME NEW c \in CallType, NEW f \in Frame, NEW d, d = [c EXCEPT !.f = f]
  PROVE  /\ d \in CallType /\ d.f = f /\ d.op = c.op /\ d.env = c.env
         /\ d.b = c.b /\ d.m = c.m /\ d.s = c.s /\ d.v = c.v /\ d.p = c.p
BY DEF CallType

LEMMA OfVariable ==
  ASSUME NEW c \in CallType, NEW v \in Var, NEW d, d = [c EXCEPT !.v = v]
  PROVE  /\ d \in CallType /\ d.v = v /\ d.op = c.op /\ d.env = c.env
         /\ d.b = c.b /\ d.m = c.m /\ d.s = c.s /\ d.f = c.f /\ d.p = c.p
BY DEF CallType

LEMMA WithCapacity ==
  ASSUME NEW c \in CallType, NEW n \in Nat \ {0}, NEW d, d = [c EXCEPT !.m = n]
  PROVE  /\ d \in CallType /\ d.m = n /\ d.op = c.op /\ d.env = c.env
         /\ d.b = c.b /\ d.v = c.v /\ d.s = c.s /\ d.f = c.f /\ d.p = c.p
BY DEF CallType

LEMMA WithBindings ==
  ASSUME NEW c \in CallType, NEW b \in TableType, NEW d, d = [c EXCEPT !.b = b]
  PROVE  /\ d \in CallType /\ d.b = b /\ d.op = c.op /\ d.env = c.env
         /\ d.m = c.m /\ d.v = c.v /\ d.s = c.s /\ d.f = c.f /\ d.p = c.p
BY DEF CallType

LEMMA InSafetyBuffer ==
  ASSUME NEW c \in CallType, NEW n \in Nat \ {0}, NEW d, d = [c EXCEPT !.s = n]
  PROVE  /\ d \in CallType /\ d.s = n /\ d.op = c.op /\ d.env = c.env
         /\ d.m = c.m /\ d.v = c.v /\ d.b = c.b /\ d.f = c.f /\ d.p = c.p
BY DEF CallType

LEMMA OfPromise ==
  ASSUME NEW c \in CallType, NEW p \in Pid, NEW d, d = [c EXCEPT !.p = p]
  PROVE  /\ d \in CallType /\ d.p = p /\ d.op = c.op /\ d.env = c.env
         /\ d.m = c.m /\ d.v = c.v /\ d.b = c.b /\ d.f = c.f /\ d.s = c.s
BY DEF CallType

LEMMA WithScope ==
  ASSUME NEW c \in CallType, NEW e \in Seq(Frame), NEW d, d = [c EXCEPT !.env = e]
  PROVE  /\ d \in CallType /\ d.env = e /\ d.op = c.op /\ d.p = c.p
         /\ d.m = c.m /\ d.v = c.v /\ d.b = c.b /\ d.f = c.f /\ d.s = c.s
BY DEF CallType

\* the calls that neither build a frame nor have entered a scope
LEMMA PlainCalls ==
  ASSUME NEW c \in CallType, c.op \in {"define", "eager", "operand", "begin", "operator"},
         c.env = <<>>
  PROVE  GoodCall(c) /\ ~Fills(c) /\ ~EnvPushed(c) /\ \A cap : ~LostSlot(c, cap)
BY DEF GoodCall, Fills, EnvPushed, LostSlot

LEMMA ScopedCalls ==
  ASSUME NEW c \in CallType, c.op \in {"body", "force"}, c.env # <<>>
  PROVE  /\ GoodCall(c) /\ Settled(c) /\ EnvPushed(c) /\ ~NeedsDrop(c)
         /\ \A cap : ~LostSlot(c, cap)
BY DEF GoodCall, Fills, Settled, EnvPushed, LostSlot, NeedsDrop

(***************************************************************************)
(* The steps.  A step is quiet if no set! loses its slot.                  *)
(***************************************************************************)
Moves ==
  \A k \in Stale(calls', capacity') \ Stale(calls, capacity) :
    /\ Defines /\ calls[Len(calls) + 1 - k].f = Scope
    /\ \E v \in Var : table[Scope][v] = Unbound /\ table'[Scope][v] # Unbound
Quiet     == Stale(calls', capacity') \subseteq Stale(calls, capacity)
Preserved == VInv' /\ Moves

LEMMA QuietMoves == Quiet => Moves
BY DEF Quiet, Moves

LEMMA Assembled ==
  ASSUME GoodStack(calls'), EnvFits(calls', env'), SlotsBound(calls', table'), StoreOK',
         value' \in Value \cup {None}, fault' # "stale frame",
         \/ turn' \in {"eval", "return"} /\ AllSettled(calls')
         \/ turn' = "idle" /\ calls' = <<>>
         \/ turn' = "bind" /\ calls' # <<>> /\ Head(calls').op \in {"let", "args", "let*"},
         turn' = "return" /\ value' = None => DropsNext(calls')
  PROVE  VInv'
<1>1. turn' # "bind" => AllSettled(calls')  BY NoCalls
<1>2. GoodStack(calls)'  BY DEF GoodStack
<1>3. EnvFits(calls, env)' /\ SlotsBound(calls, table)'  BY DEF EnvFits, SlotsBound, Entered
<1>4. DropsNext(calls)' = DropsNext(calls')  BY DEF DropsNext
<1>5. AllSettled(calls)' = AllSettled(calls')  BY DEF AllSettled
<1> QED  BY <1>1, <1>2, <1>3, <1>4, <1>5 DEF VInv, Top

LEMMA StoreKept == ASSUME VInv, UNCHANGED Heap PROVE StoreOK' /\ SlotsBound(calls, table')
BY DEF VInv, StoreOK, Heap, Overfull, Bindings, ForcedHasValue, IsForced

LEMMA PromiseKept ==
  ASSUME VInv, NEW p \in Pid, NEW r,
         r \in [scope : Frame \cup {Nowhere}, value : Value \cup {None}],
         r.scope = Nowhere => r.value # None,
         promise' = [promise EXCEPT ![p] = r], UNCHANGED <<table, capacity, outer>>
  PROVE  StoreOK' /\ SlotsBound(calls, table')
<1>1. \A q \in Pid : promise'[q] = IF q = p THEN r ELSE promise[q]
  BY DEF VInv, StoreOK
<1>2. promise' \in [Pid -> [scope : Frame \cup {Nowhere}, value : Value \cup {None}]]
  BY DEF VInv, StoreOK
<1>3. ForcedHasValue'  BY <1>1 DEF VInv, StoreOK, ForcedHasValue, IsForced
<1> QED  BY <1>2, <1>3 DEF VInv, StoreOK, Overfull, Bindings

LEMMA ScopeType ==
  ASSUME VInv
  PROVE  Scope \in Frame /\ env \in Seq(Frame) /\ env # <<>> /\ EnvFits(calls, env)
<1>1. EnvFits(calls, env) /\ calls \in Seq(CallType)  BY DEF VInv, GoodStack
<1>2. Cardinality(Entered(calls)) \in Nat  BY <1>1, EnteredType, FS_CardinalityType
<1>3. env \in Seq(Frame) /\ Len(env) > 0  BY <1>1, <1>2 DEF EnvFits, Nests
<1> QED  BY <1>1, <1>3 DEF Scope

LEMMA TopIsGood ==
  ASSUME VInv, calls # <<>>
  PROVE  /\ GoodCall(Top) /\ Top \in CallType /\ 1 \in DOMAIN calls
         /\ turn = "return" /\ ~MayDrop(Top) => value \in Value
<1>1. GoodCall(Top) /\ 1 \in DOMAIN calls  BY Popped DEF VInv, Top
<1>2. turn = "return" /\ ~MayDrop(Top) => value \in Value  BY DEF VInv, DropsNext, Top
<1> QED  BY <1>1, <1>2 DEF GoodCall

\* An expression without operands.
LEMMA Yields ==
  ASSUME VInv, turn = "eval", UNCHANGED <<capacity, calls, env, fault>>,
         StoreOK', SlotsBound(calls, table'), turn' = "return", value' \in Value
  PROVE  Preserved
<1>1. GoodStack(calls') /\ AllSettled(calls') /\ fault' # "stale frame"
      /\ EnvFits(calls', env') /\ SlotsBound(calls', table')  BY DEF VInv
<1>2. VInv'  BY <1>1, Assembled, VariablesAssumption
<1> QED  BY <1>2, QuietMoves DEF Preserved, Quiet

\* An expression with an operand.
LEMMA Operand ==
  ASSUME VInv, turn = "eval", NEW c, GoodCall(c), ~Fills(c), c.op # "let*", ~EnvPushed(c),
         ~LostSlot(c, capacity), NeedsDrop(c) => DropsNext(calls),
         c.op = "set" => table[c.f][c.v] # Unbound,
         Awaiting(c)
  PROVE  Preserved
<1>1. /\ calls' = <<c>> \o calls /\ turn' = "eval" /\ value' = None
      /\ UNCHANGED <<table, capacity, outer, promise, env, fault>> /\ UNCHANGED Heap
  BY DEF Awaiting, Push, Heap
<1>2. Settled(c) /\ \A j \in DOMAIN calls : Apart(c, calls[j])  BY DEF Settled, Apart
<1>3. /\ GoodStack(calls') /\ AllSettled(calls')
      /\ EnvFits(calls', env) /\ SlotsBound(calls', table)
  BY <1>1, <1>2, Pushed DEF VInv
<1>4. StoreOK'  BY <1>1, StoreKept
<1>5. VInv'  BY <1>1, <1>3, <1>4, Assembled DEF VInv
<1>6. Quiet  BY <1>1, PushLosesNothing DEF Quiet, VInv, GoodStack, GoodCall
<1> QED  BY <1>5, <1>6, QuietMoves DEF Preserved

LEMMA OneElement ==
  ASSUME NEW S, NEW e \in Seq(S), NEW m \in 1 .. Len(e)
  PROVE  SubSeq(e, m, m) = <<e[m]>>
<1> DEFINE t == SubSeq(e, m, m)
<1>1. t \in Seq(S) /\ Len(t) = 1 /\ t[1] = e[m]  OBVIOUS
<1> HIDE DEF t
<1>2. t = <<e[m]>>  BY <1>1
<1> QED  BY <1>2 DEF t

\* An error, of the calls that have not returned by then, puts the global
\* scope in force.
LEMMA ErrorRestores ==
  ASSUME NEW cs, GoodStack(cs), EnvFits(cs, env), Error(cs)
  PROVE  env' = <<Global>>
<1> DEFINE n == Cardinality(Entered(cs))
<1>1. n \in Nat  BY EnteredType, FS_CardinalityType DEF GoodStack
<1>2. env' = SubSeq(env, n + 1, Len(env))
  BY DEF Error, cleanup_safety_buffer, Entered
<1> HIDE DEF n
<1>3. env \in Seq(Frame) /\ Len(env) = n + 1 /\ env[Len(env)] = Global
  BY DEF EnvFits, Nests, n
<1>4. SubSeq(env, n + 1, n + 1) = <<env[n + 1]>>  BY <1>1, <1>3, OneElement
<1> QED  BY <1>2, <1>3, <1>4

LEMMA Errors ==
  ASSUME VInv, NEW cs, GoodStack(cs), AllSettled(cs), EnvFits(cs, env), Error(cs)
  PROVE  Preserved
<1>1. /\ calls' = <<>> /\ turn' = "idle" /\ value' = None /\ UNCHANGED Heap
      /\ UNCHANGED capacity
  BY DEF Error, Heap
<1>2. fault' = fault
  BY DEF Error, cleanup_safety_buffer, AllSettled, Settled, Fills
<1>3. env' = <<Global>>  BY ErrorRestores
<1>4. VInv'  BY <1>1, <1>2, <1>3, NoCalls, StoreKept, Assembled DEF VInv
<1>5. Quiet  BY <1>1, NothingToLose DEF Quiet
<1> QED  BY <1>4, <1>5, QuietMoves DEF Preserved

\* The call on top goes on, as another call.
LEMMA GoesOn ==
  ASSUME VInv, calls # <<>>, NEW c, GoodCall(c), ~NeedsDrop(c),
         c.op = "let*" => Top.op = "let*" /\ c.f = Top.f,
         EnvPushed(c) => EnvFits(Tail(calls), c.env),
         calls' = <<c>> \o Tail(calls), EnvFits(calls', env'),
         StoreOK', UNCHANGED fault, SlotsBound(calls, table'),
         Stale(calls, capacity') = Stale(calls, capacity),
         value' \in Value \cup {None},
         \/ turn' = "eval" /\ Settled(c)
         \/ turn' = "bind" /\ c.op \in {"let", "args", "let*"}
  PROVE  Preserved
<1>1. c.op # "set"  BY DEF NeedsDrop
<1>2. /\ GoodStack(calls') /\ Head(calls') = c /\ calls' # <<>>
      /\ Settled(c) => AllSettled(calls')
      /\ SlotsBound(calls', table')
  BY <1>1, Replaced DEF VInv, Top
<1>3. Stale(calls', capacity') \subseteq Stale(calls, capacity')
  BY <1>1, ReplaceLosesNothing DEF VInv, GoodCall
<1>4. fault' # "stale frame"  BY DEF VInv
<1>5. VInv'  BY <1>2, <1>4, Assembled
<1> QED  BY <1>3, <1>5, QuietMoves DEF Preserved, Quiet

\* The scope in force stays when a call that has not entered one goes on as
\* another, or a call that has as another that has.
LEMMA SameScope ==
  ASSUME VInv, calls # <<>>, NEW c, GoodCall(c), EnvPushed(c) <=> EnvPushed(Top)
  PROVE  EnvFits(<<c>> \o Tail(calls), env)
<1>0. calls \in Seq(CallType) /\ c \in CallType  BY DEF VInv, GoodStack, GoodCall
<1>1. /\ Tail(calls) \in Seq(CallType) /\ Top \in CallType
      /\ calls = <<Top>> \o Tail(calls)
  BY <1>0 DEF Top
<1>2. /\ Cardinality(Entered(<<c>> \o Tail(calls))) =
           IF EnvPushed(c) THEN Cardinality(Entered(Tail(calls))) + 1
                           ELSE Cardinality(Entered(Tail(calls)))
      /\ Cardinality(Entered(<<Top>> \o Tail(calls))) =
           IF EnvPushed(Top) THEN Cardinality(Entered(Tail(calls))) + 1
                             ELSE Cardinality(Entered(Tail(calls)))
  BY <1>0, <1>1, EnteredPushed
<1>3. Cardinality(Entered(<<c>> \o Tail(calls))) = Cardinality(Entered(calls))
  BY <1>1, <1>2
<1> QED  BY <1>3 DEF VInv, EnvFits

\* The call on top returns.
LEMMA Returns ==
  ASSUME VInv, calls # <<>>, calls' = Tail(calls), StoreOK', SlotsBound(calls, table'),
         UNCHANGED capacity, EnvFits(calls', env'), turn' = "return",
         value' \in Value \cup {None}, value' = None => NeedsDrop(Top), fault' # "stale frame"
  PROVE  Preserved
<1>1. /\ GoodStack(calls') /\ AllSettled(calls') /\ SlotsBound(calls', table')
      /\ NeedsDrop(Top) => DropsNext(calls')
  BY Popped DEF VInv, Top
<1>2. VInv'  BY <1>1, Assembled
<1>3. Quiet  BY PopLosesNothing DEF VInv, Quiet
<1> QED  BY <1>2, <1>3, QuietMoves DEF Preserved

LEMMA ReturnsValue ==
  ASSUME VInv, calls # <<>>, calls' = Tail(calls), StoreOK', SlotsBound(calls, table'),
         UNCHANGED capacity, EnvFits(calls', env'), turn' = "return",
         value' \in Value, fault' # "stale frame"
  PROVE  Preserved
<1>1. value' \in Value \cup {None} /\ value' # None  BY VariablesAssumption
<1> QED  BY <1>1, Returns

(***************************************************************************)
(* Expressions                                                             *)
(***************************************************************************)
LEMMA Leaves ==
  ASSUME VInv, \/ \E x \in Datum : Constant(x)
               \/ scm_lambda
               \/ scm_delay
  PROVE  Preserved
<1>1. CASE \E x \in Datum : Constant(x)
  <2>1. /\ turn = "eval" /\ UNCHANGED <<capacity, calls, env, fault>> /\ UNCHANGED Heap
        /\ turn' = "return" /\ value' \in Value
    BY <1>1 DEF Constant, At, Return, Heap, Value
  <2> QED  BY <2>1, StoreKept, Yields
<1>2. CASE scm_lambda
  <2>1. /\ turn = "eval" /\ UNCHANGED <<capacity, calls, env, fault>> /\ UNCHANGED Heap
        /\ turn' = "return" /\ value' = Fun(Scope)
    BY <1>2 DEF scm_lambda, Evaluate, At, Return, Heap
  <2>2. value' \in Value  BY <2>1, ScopeType DEF Value, Procedures
  <2> QED  BY <2>1, <2>2, StoreKept, Yields
<1>3. CASE scm_delay
  <2>1. PICK p \in NewPromise :
          /\ turn = "eval" /\ UNCHANGED <<table, capacity, outer, calls, env, fault>>
          /\ turn' = "return" /\ value' = Promise(p)
          /\ promise' = [promise EXCEPT ![p] = Unforced(Scope)]
    BY <1>3 DEF scm_delay, Evaluate, At, Return
  <2>2. p \in Pid  BY NewPromises
  <2>3. /\ Unforced(Scope) \in [scope : Frame \cup {Nowhere}, value : Value \cup {None}]
        /\ Unforced(Scope).scope = Scope
    BY ScopeType DEF Unforced
  <2>4. Scope # Nowhere  BY ScopeType, VariablesAssumption DEF Frame, Nowhere
  <2>5. StoreOK' /\ SlotsBound(calls, table')  BY <2>1, <2>2, <2>3, <2>4, PromiseKept
  <2>6. value' \in Value  BY <2>1, <2>2 DEF Value, Promises
  <2> QED  BY <2>1, <2>5, <2>6, Yields
<1> QED  BY <1>1, <1>2, <1>3

LEMMA References == ASSUME VInv, NEW v \in Var, Reference(v) PROVE Preserved
<1>1. turn = "eval"  BY DEF Reference, Evaluate, At
<1>2. CASE \E f \in qz_lookup(v) : Return(table[f][v]) /\ UNCHANGED <<Heap, env, calls, fault>>
  <2>1. PICK f \in qz_lookup(v) : Return(table[f][v]) /\ UNCHANGED <<Heap, env, calls, fault>>
    BY <1>2
  <2>2. f \in Frame /\ table[f][v] # Unbound  BY DEF qz_lookup, Enclosing
  <2>3. table[f][v] \in Value
    <3>1. table \in [Frame -> TableType]  BY DEF VInv, StoreOK
    <3> QED  BY <2>2, <3>1 DEF TableType
  <2>4. /\ turn' = "return" /\ value' \in Value /\ UNCHANGED Heap
        /\ UNCHANGED <<capacity, calls, env, fault>>
    BY <2>1, <2>3 DEF Return, Heap
  <2> QED  BY <1>1, <2>4, StoreKept, Yields
<1>3. CASE Error(calls)
  BY <1>1, <1>3, Errors DEF VInv
<1> QED  BY <1>2, <1>3 DEF Reference

LEMMA Sets == ASSUME VInv, NEW v \in Var, scm_set_b(v) PROVE Preserved
<1>1. turn = "eval" /\ DropsNext(calls)
  BY DEF scm_set_b, Evaluate, At, Dropped, DropsNext, MayDrop, Top
<1>2. CASE \E f \in qz_lookup(v) : Awaiting(SetSlot(f, v))
  <2>1. PICK f \in qz_lookup(v) : Awaiting(SetSlot(f, v))  BY <1>2
  <2>2. f \in Frame /\ table[f][v] # Unbound  BY DEF qz_lookup, Enclosing
  <2>3. capacity[f] \in Nat \ {0}  BY <2>2 DEF VInv, StoreOK
  <2> DEFINE c0 == Call("set")
             c1 == [c0 EXCEPT !.f = f]
             c2 == [c1 EXCEPT !.v = v]
             c  == [c2 EXCEPT !.m = capacity[f]]
  <2>4. c0 \in CallType /\ c0.op = "set" /\ c0.env = <<>>  BY NewCalls
  <2>5. SetSlot(f, v) = c  BY DEF SetSlot
  <2> HIDE DEF c0
  <2>6. c1 \in CallType /\ c1.op = "set" /\ c1.env = <<>> /\ c1.f = f  BY <2>2, <2>4, InFrame
  <2> HIDE DEF c1
  <2>7. c2 \in CallType /\ c2.op = "set" /\ c2.env = <<>> /\ c2.f = f /\ c2.v = v
    BY <2>6, OfVariable
  <2> HIDE DEF c2
  <2>8. c \in CallType /\ c.op = "set" /\ c.env = <<>> /\ c.f = f /\ c.v = v /\ c.m = capacity[f]
    BY <2>3, <2>7, WithCapacity
  <2> HIDE DEF c
  <2>9. /\ GoodCall(c) /\ ~Fills(c) /\ c.op # "let*" /\ ~EnvPushed(c) /\ ~LostSlot(c, capacity)
        /\ table[c.f][c.v] # Unbound /\ Awaiting(c)
    BY <2>1, <2>2, <2>5, <2>8 DEF GoodCall, Fills, EnvPushed, LostSlot
  <2> QED  BY <1>1, <2>9, Operand
<1>3. CASE Error(calls)  BY <1>1, <1>3, Errors DEF VInv
<1> QED  BY <1>2, <1>3 DEF scm_set_b

LEMMA Awaitings ==
  ASSUME VInv, \/ \E v \in Var : scm_define(v)
               \/ scm_eager \/ scm_force \/ scm_begin \/ Operator
  PROVE  Preserved
<1>1. turn = "eval"
  BY DEF scm_define, scm_eager, scm_force, scm_begin, Operator, Evaluate, At
<1>2. ASSUME NEW name \in {"eager", "operand", "begin", "operator"}, Awaiting(Call(name))
      PROVE  Preserved
  <2> DEFINE c == Call(name)
  <2>1. c \in CallType /\ c.op = name /\ c.env = <<>>  BY NewCalls
  <2>2. Awaiting(c)  BY <1>2
  <2> HIDE DEF c
  <2>3. GoodCall(c) /\ ~Fills(c) /\ ~EnvPushed(c) /\ ~LostSlot(c, capacity)
    BY <2>1, PlainCalls
  <2>4. ~NeedsDrop(c) /\ c.op # "set" /\ c.op # "let*"  BY <2>1 DEF NeedsDrop
  <2> QED  BY <1>1, <2>2, <2>3, <2>4, Operand
<1>3. ASSUME NEW v \in Var, scm_define(v) PROVE Preserved
  <2> DEFINE d == Call("define")
             c == [d EXCEPT !.v = v]
  <2>1. DropsNext(calls) /\ Awaiting(c)
    BY <1>3 DEF scm_define, Dropped, DropsNext, MayDrop, Top
  <2>2. d \in CallType /\ d.op = "define" /\ d.env = <<>>  BY NewCalls
  <2> HIDE DEF d
  <2>3. c \in CallType /\ c.op = "define" /\ c.env = <<>>  BY <2>2, OfVariable
  <2> HIDE DEF c
  <2>4. GoodCall(c) /\ ~Fills(c) /\ ~EnvPushed(c) /\ ~LostSlot(c, capacity)
    BY <2>3, PlainCalls
  <2> QED  BY <1>1, <2>1, <2>3, <2>4, Operand
<1> QED  BY <1>2, <1>3 DEF scm_eager, scm_force, scm_begin, Operator

LEMMA Lets == ASSUME VInv, scm_let PROVE Preserved
<1> DEFINE c == Call("let")
<1>1. /\ turn = "eval" /\ calls' = <<c>> \o calls /\ turn' = "bind" /\ value' = None
      /\ UNCHANGED Heap /\ UNCHANGED <<table, capacity, env, fault>>
  BY DEF scm_let, Evaluate, At, Push, Heap
<1>2. /\ c \in CallType /\ c.op = "let" /\ c.env = <<>> /\ c.b = NewTable /\ c.m = Capacity0
  BY NewCalls
<1> HIDE DEF c
<1>3. /\ GoodCall(c) /\ ~EnvPushed(c) /\ ~NeedsDrop(c) /\ ~LostSlot(c, capacity)
      /\ \A j \in DOMAIN calls : Apart(c, calls[j])
  BY <1>2, NewTableFits DEF GoodCall, EnvPushed, NeedsDrop, LostSlot, Apart, Fits
<1>4. AllSettled(calls)  BY <1>1 DEF VInv
<1>5. /\ GoodStack(calls') /\ Head(calls') = c /\ calls' # <<>>
      /\ EnvFits(calls', env') /\ SlotsBound(calls', table')
  BY <1>1, <1>2, <1>3, <1>4, Pushed DEF VInv
<1>6. Quiet  BY <1>1, <1>2, <1>3, PushLosesNothing DEF Quiet, VInv, GoodStack
<1>7. VInv'  BY <1>1, <1>2, <1>5, StoreKept, Assembled DEF VInv
<1> QED  BY <1>6, <1>7, QuietMoves DEF Preserved

LEMMA LetStars == ASSUME VInv, scm_let_s PROVE Preserved
<1>1. PICK f \in NewFrame :
        /\ turn = "eval" /\ EnterScope(f, Scope, NewTable, Capacity0)
        /\ calls' = <<[Call("let*") EXCEPT !.f = f, !.env = env]>> \o calls
        /\ turn' = "bind" /\ value' = None /\ UNCHANGED <<promise, fault>>
  BY DEF scm_let_s, Evaluate, At, Push
<1> DEFINE c0 == Call("let*")
           c1 == [c0 EXCEPT !.f = f]
           c  == [c1 EXCEPT !.env = env]
<1>2. f \in Frame /\ \A i \in DOMAIN calls : calls[i].f # f  BY NewFrames
<1>3. calls' = <<c>> \o calls  BY <1>1
<1>4. c0 \in CallType /\ c0.op = "let*"  BY NewCalls
<1> HIDE DEF c0
<1>5. c1 \in CallType /\ c1.op = "let*" /\ c1.f = f  BY <1>2, <1>4, InFrame
<1> HIDE DEF c1
<1>6. c \in CallType /\ c.op = "let*" /\ c.f = f /\ c.env = env
  BY <1>5, ScopeType, WithScope
<1> HIDE DEF c
<1>7. GoodCall(c) /\ EnvPushed(c) /\ ~LostSlot(c, capacity') /\ ~NeedsDrop(c)
  BY <1>2, <1>6, ScopeType DEF GoodCall, EnvPushed, LostSlot, Fills, NeedsDrop
<1>8. \A j \in DOMAIN calls : Apart(c, calls[j])  BY <1>2, <1>6 DEF Apart
<1>9. EnvFits(calls, c.env) /\ AllSettled(calls) /\ GoodStack(calls)
  BY <1>1, <1>6 DEF VInv
<1>10. /\ StoreOK' /\ Stale(calls, capacity') = Stale(calls, capacity)
       /\ SlotsBound(calls, table')
  BY <1>1, NewTableFits, Enters, ScopeType
<1>11. /\ GoodStack(calls') /\ Head(calls') = c /\ calls' # <<>>
       /\ EnvFits(calls', <<f>> \o c.env) /\ SlotsBound(calls', table')
  BY <1>2, <1>3, <1>6, <1>7, <1>8, <1>9, <1>10, Pushed
<1>12. EnvFits(calls', env')  BY <1>1, <1>6, <1>11 DEF EnterScope
<1>13. Stale(calls', capacity') \subseteq Stale(calls, capacity')
  BY <1>3, <1>6, <1>7, <1>9, PushLosesNothing DEF GoodStack
<1>14. VInv'  BY <1>1, <1>6, <1>10, <1>11, <1>12, Assembled DEF VInv
<1> QED  BY <1>10, <1>13, <1>14, QuietMoves DEF Preserved, Quiet

\* The only steps in which a set! loses its slot.
LEMMA Defining ==
  ASSUME VInv, NEW v, NEW x \in Value, qz_hash_set(Scope, v, x), UNCHANGED <<outer, promise>>,
         Defines, \/ UNCHANGED calls
                  \/ calls # <<>> /\ calls' = Tail(calls)
  PROVE  StoreOK' /\ SlotsBound(calls', table') /\ Moves
<1>1. Scope \in Frame  BY ScopeType
<1>2. /\ StoreOK' /\ SlotsBound(calls, table')
      /\ \A i \in DOMAIN calls : LostSlot(calls[i], capacity') =>
           \/ LostSlot(calls[i], capacity)
           \/ calls[i].op = "set" /\ calls[i].f = Scope
              /\ \E u \in Var : table[Scope][u] = Unbound /\ table'[Scope][u] # Unbound
  BY <1>1, SetInTable
<1>3. SlotsBound(calls', table')  BY <1>2, Popped DEF VInv
<1>4. Stale(calls', capacity') \subseteq Stale(calls, capacity')
  BY PopLosesNothing DEF VInv
<1>5. ASSUME NEW k \in Stale(calls, capacity') \ Stale(calls, capacity)
      PROVE  /\ calls[Len(calls) + 1 - k].f = Scope
             /\ \E u \in Var : table[Scope][u] = Unbound /\ table'[Scope][u] # Unbound
  <2>1. PICK i \in DOMAIN calls : LostSlot(calls[i], capacity') /\ k = Len(calls) + 1 - i
    BY <1>5 DEF Stale
  <2>2. ~LostSlot(calls[i], capacity)  BY <1>5, <2>1 DEF Stale
  <2>3. Len(calls) + 1 - k = i
    <3>1. calls \in Seq(CallType)  BY DEF VInv, GoodStack
    <3>2. Len(calls) \in Nat /\ i \in Nat  BY <3>1
    <3> QED  BY <2>1, <3>2
  <2> QED  BY <1>2, <2>1, <2>2, <2>3
<1> QED  BY <1>2, <1>3, <1>4, <1>5 DEF Moves

LEMMA DefineFunctions == ASSUME VInv, NEW v \in Var, scm_define_function(v) PROVE Preserved
<1>1. /\ turn = "eval" /\ DropsNext(calls) /\ qz_hash_set(Scope, v, Fun(Scope))
      /\ turn' = "return" /\ value' = None
      /\ UNCHANGED <<outer, promise, env, calls, fault>>
  BY DEF scm_define_function, Evaluate, At, Dropped, DropsNext, MayDrop, Top, Return
<1>2. Fun(Scope) \in Value  BY ScopeType DEF Value, Procedures
<1>3. StoreOK' /\ SlotsBound(calls', table') /\ Moves
  BY <1>1, <1>2, Defining DEF Defines
<1>4. VInv'  BY <1>1, <1>3, Assembled DEF VInv
<1> QED  BY <1>3, <1>4 DEF Preserved

LEMMA Expressions == ASSUME VInv, Expression PROVE Preserved
BY Leaves, References, Sets, Awaitings, Lets, LetStars, DefineFunctions DEF Expression

(***************************************************************************)
(* Bindings                                                                *)
(***************************************************************************)
LEMMA NextBindings == ASSUME VInv, NEW v \in Var, NextBinding(v) PROVE Preserved
<1>1. /\ turn = "bind" /\ turn' = "eval" /\ calls # <<>>
      /\ Top.op \in {"let", "args", "let*"}
      /\ UNCHANGED Heap /\ UNCHANGED <<capacity, env, value, fault>>
      /\ calls' = <<[Top EXCEPT !.v = v, !.s = Top.m]>> \o Tail(calls)
  BY DEF NextBinding, At, VInv, Replace, Heap
<1> DEFINE c1 == [Top EXCEPT !.v = v]
           c  == [c1 EXCEPT !.s = Top.m]
<1>2. GoodCall(Top) /\ Top \in CallType  BY <1>1, TopIsGood
<1>3. calls' = <<c>> \o Tail(calls)  BY <1>1
<1>4. Top.m \in Nat \ {0}  BY <1>2 DEF CallType
<1>5. /\ c1 \in CallType /\ c1.op = Top.op /\ c1.env = Top.env /\ c1.b = Top.b
      /\ c1.m = Top.m /\ c1.f = Top.f
  BY <1>2, OfVariable
<1> HIDE DEF c1
<1>6. /\ c \in CallType /\ c.op = Top.op /\ c.env = Top.env /\ c.b = Top.b
      /\ c.m = Top.m /\ c.f = Top.f /\ c.s = Top.m
  BY <1>4, <1>5, InSafetyBuffer
<1> HIDE DEF c
<1>7. /\ GoodCall(c) /\ Settled(c) /\ ~NeedsDrop(c)
      /\ (EnvPushed(c) <=> EnvPushed(Top))
  BY <1>1, <1>2, <1>6 DEF GoodCall, Settled, Fills, NeedsDrop, EnvPushed
<1>8. EnvPushed(c) => EnvFits(Tail(calls), c.env)
  BY <1>1, <1>6, <1>7, Popped DEF VInv, Top
<1>9. EnvFits(calls', env')  BY <1>1, <1>3, <1>7, SameScope
<1>10. StoreOK' /\ SlotsBound(calls, table')  BY <1>1, StoreKept
<1>11. value' \in Value \cup {None}  BY <1>1 DEF VInv
<1> QED  BY <1>1, <1>3, <1>6, <1>7, <1>8, <1>9, <1>10, <1>11, GoesOn

LEMMA Bodies == ASSUME VInv, EnterBody PROVE Preserved
<1>1. /\ turn = "bind" /\ turn' = "eval" /\ calls # <<>>
      /\ Top.op \in {"let", "args", "let*"} /\ UNCHANGED <<value, fault>>
  BY DEF EnterBody, At, VInv
<1>2. GoodCall(Top) /\ Top \in CallType  BY <1>1, TopIsGood
<1>3. Scope \in Frame /\ env \in Seq(Frame) /\ env # <<>> /\ EnvFits(calls, env)
  BY ScopeType
<1>4. value' \in Value \cup {None}  BY <1>1 DEF VInv
<1>5. ASSUME NEW e \in Seq(Frame), e # <<>>, NEW c, c = [Call("body") EXCEPT !.env = e]
      PROVE  /\ GoodCall(c) /\ Settled(c) /\ EnvPushed(c) /\ ~NeedsDrop(c)
             /\ c.env = e /\ c.op = "body"
  <2> DEFINE d == Call("body")
             k == [d EXCEPT !.env = e]
  <2>1. d \in CallType /\ d.op = "body"  BY NewCalls
  <2>2. c = k  BY <1>5
  <2> HIDE DEF d
  <2>3. k \in CallType /\ k.op = "body" /\ k.env = e  BY <2>1, WithScope
  <2> HIDE DEF k
  <2> QED  BY <1>5, <2>2, <2>3, ScopedCalls
<1>6. CASE Top.op = "let*"
  <2> DEFINE c == [Call("body") EXCEPT !.env = Top.env]
  <2>1. calls' = <<c>> \o Tail(calls) /\ UNCHANGED Heap /\ UNCHANGED <<capacity, env>>
    BY <1>6 DEF EnterBody, Replace, Heap
  <2>2. Top.env \in Seq(Frame) /\ Top.env # <<>> /\ EnvPushed(Top)
    BY <1>2, <1>6 DEF GoodCall, EnvPushed, CallType
  <2>3. /\ GoodCall(c) /\ Settled(c) /\ EnvPushed(c) /\ ~NeedsDrop(c)
        /\ c.env = Top.env /\ c.op = "body"
    BY <1>5, <2>2
  <2> HIDE DEF c
  <2>4. EnvFits(Tail(calls), c.env)  BY <1>1, <2>2, <2>3, Popped DEF VInv, Top
  <2>5. EnvFits(calls', env')  BY <1>1, <2>1, <2>2, <2>3, SameScope
  <2>6. StoreOK' /\ SlotsBound(calls, table')  BY <2>1, StoreKept
  <2> QED  BY <1>1, <1>4, <2>1, <2>3, <2>4, <2>5, <2>6, GoesOn
<1>7. CASE Top.op \in {"let", "args"}
  <2> DEFINE c == [Call("body") EXCEPT !.env = env]
  <2>1. PICK f \in NewFrame :
          /\ EnterScope(f, Inside(Top), Top.b, Top.m) /\ UNCHANGED promise
          /\ calls' = <<c>> \o Tail(calls)
    BY <1>7 DEF EnterBody, Replace
  <2>2. Fits(Top.b, Top.m) /\ ~EnvPushed(Top) /\ Inside(Top) \in Frame
    BY <1>2, <1>3, <1>7 DEF GoodCall, Fills, Fits, CallType, Inside
  <2>3. /\ StoreOK' /\ Stale(calls, capacity') = Stale(calls, capacity)
        /\ SlotsBound(calls, table')
    BY <2>1, <2>2, Enters
  <2>4. /\ GoodCall(c) /\ Settled(c) /\ EnvPushed(c) /\ ~NeedsDrop(c)
        /\ c.env = env /\ c.op = "body"
    BY <1>3, <1>5
  <2> HIDE DEF c
  <2>5. EnvFits(Tail(calls), env)  BY <1>1, <1>3, <2>2, Popped DEF VInv, Top
  <2>6. f \in Frame /\ env' = <<f>> \o env  BY <2>1, NewFrames DEF EnterScope
  <2>7. c.op # "set" /\ c.op # "let*"  BY <2>4
  <2>8. EnvFits(calls', env')
    BY <1>1, <2>1, <2>4, <2>5, <2>6, <2>7, Replaced DEF VInv
  <2> QED  BY <1>1, <1>4, <2>1, <2>3, <2>4, <2>5, <2>7, <2>8, GoesOn
<1> QED  BY <1>1, <1>6, <1>7

LEMMA NoArguments == ASSUME VInv, NoArgument PROVE Preserved
<1>1. calls # <<>> /\ Error(Tail(calls)) /\ Top.op = "args"  BY DEF NoArgument, At, VInv
<1>2. ~EnvPushed(Top)  BY <1>1, TopIsGood DEF GoodCall
<1>3. GoodStack(Tail(calls)) /\ AllSettled(Tail(calls)) /\ EnvFits(Tail(calls), env)
  BY <1>1, <1>2, ScopeType, Popped DEF VInv, Top
<1> QED  BY <1>1, <1>3, Errors

LEMMA Binds == ASSUME VInv, Bind PROVE Preserved
BY NextBindings, Bodies, NoArguments DEF Bind

LEMMA BindingsReturn == ASSUME VInv, BindingReturns PROVE Preserved
<1>1. /\ turn = "return" /\ turn' = "bind" /\ calls # <<>> /\ Top.op \in {"let", "args"}
      /\ UNCHANGED Heap /\ UNCHANGED <<capacity, env, fault>> /\ value' = None
      /\ calls' = <<Bound(Top)>> \o Tail(calls)
  BY DEF BindingReturns, Resumes, Replace, Heap, At
<1>2. GoodCall(Top) /\ Top \in CallType /\ value \in Value
  BY <1>1, TopIsGood DEF MayDrop
<1>3. Fits(Top.b, Top.m)  BY <1>1, <1>2 DEF GoodCall, Fills, Fits, CallType
<1> DEFINE b  == [Top.b EXCEPT ![Top.v] = value]
           c1 == [Top EXCEPT !.b = b]
           c  == [c1 EXCEPT !.m = MovesAfter(b, Top.m)]
<1>4. Bound(Top) = c  BY DEF Bound
<1>5. b = Rebound(Top.b, Top.v, value)  BY DEF Rebound
<1> HIDE DEF b
<1>6. Fits(b, MovesAfter(b, Top.m))  BY <1>2, <1>3, <1>5, Rebinding
<1>7. b \in TableType /\ MovesAfter(b, Top.m) \in Nat \ {0} /\ ~Overfull(b, MovesAfter(b, Top.m))
  BY <1>6 DEF Fits
<1>8. /\ c1 \in CallType /\ c1.op = Top.op /\ c1.b = b /\ c1.f = Top.f /\ c1.env = Top.env
  BY <1>2, <1>7, WithBindings
<1> HIDE DEF c1
<1>9. /\ c \in CallType /\ c.op = Top.op /\ c.b = b /\ c.f = Top.f /\ c.env = Top.env
      /\ c.m = MovesAfter(b, Top.m)
  BY <1>7, <1>8, WithCapacity
<1> HIDE DEF c
<1>10. /\ GoodCall(c) /\ ~NeedsDrop(c) /\ ~EnvPushed(c) /\ ~EnvPushed(Top)
       /\ c.op \in {"let", "args"}
  BY <1>1, <1>2, <1>7, <1>9 DEF GoodCall, Fills, NeedsDrop, EnvPushed
<1>11. calls' = <<c>> \o Tail(calls)  BY <1>1, <1>4
<1>12. EnvFits(calls', env')  BY <1>1, <1>10, <1>11, SameScope
<1>13. StoreOK' /\ SlotsBound(calls, table')  BY <1>1, StoreKept
<1> QED  BY <1>1, <1>10, <1>11, <1>12, <1>13, GoesOn

LEMMA LetStarBindingsReturn == ASSUME VInv, LetStarBindingReturns PROVE Preserved
<1>1. /\ turn = "return" /\ turn' = "bind" /\ calls # <<>> /\ Top.op = "let*"
      /\ UNCHANGED <<outer, promise, env, calls, fault>> /\ value' = None
      /\ qz_hash_set(Top.f, Top.v, value)
  BY DEF LetStarBindingReturns, Resumes, At
<1>2. Top.f \in Frame /\ value \in Value  BY <1>1, TopIsGood DEF GoodCall, MayDrop
<1>3. \A i \in DOMAIN calls : calls[i].op = "set" => calls[i].f # Top.f
  <2>1. Top = calls[1] /\ 1 \in DOMAIN calls /\ DOMAIN calls = 1 .. Len(calls)
        /\ Len(calls) \in Nat
    BY <1>1, Popped DEF VInv, Top
  <2>2. \A i \in DOMAIN calls : i > 1 => Apart(Top, calls[i])
    BY <2>1 DEF VInv, GoodStack
  <2>3. \A i \in DOMAIN calls : i = 1 \/ i > 1  BY <2>1
  <2> QED  BY <1>1, <2>1, <2>2, <2>3 DEF Apart
<1>4. /\ StoreOK' /\ SlotsBound(calls, table')
      /\ \A i \in DOMAIN calls : LostSlot(calls[i], capacity') =>
           \/ LostSlot(calls[i], capacity)
           \/ calls[i].op = "set" /\ calls[i].f = Top.f
              /\ \E u \in Var : table[Top.f][u] = Unbound /\ table'[Top.f][u] # Unbound
  BY <1>1, <1>2, SetInTable
<1>5. Quiet  BY <1>1, <1>3, <1>4 DEF Quiet, Stale
<1>6. VInv'  BY <1>1, <1>4, Assembled DEF VInv, Top
<1> QED  BY <1>5, <1>6, QuietMoves DEF Preserved

(***************************************************************************)
(* Returns                                                                 *)
(***************************************************************************)
LEMMA SetsReturn == ASSUME VInv, SetReturns PROVE Preserved
<1>1. /\ turn = "return" /\ calls # <<>> /\ calls' = Tail(calls) /\ turn' = "return"
      /\ Top.op = "set" /\ UNCHANGED <<capacity, outer, promise, env>> /\ value' = None
  BY DEF SetReturns, Resumes, Pops, Return, At
<1>2. /\ GoodCall(Top) /\ 1 \in DOMAIN calls /\ Top = calls[1] /\ value \in Value
  BY <1>1, TopIsGood DEF MayDrop, Top
<1>3. Top.f \in Frame /\ Top.v \in Var /\ ~EnvPushed(Top) /\ NeedsDrop(Top)
  BY <1>1, <1>2 DEF GoodCall, NeedsDrop
<1>4. fault' # "stale frame"  BY DEF SetReturns, VInv
<1>5. EnvFits(calls', env')  BY <1>1, <1>3, ScopeType, Popped DEF VInv, Top
<1>6. StoreOK' /\ SlotsBound(calls, table')
  <2>1. CASE UNCHANGED table
    <3>1. UNCHANGED Heap  BY <1>1, <2>1 DEF Heap
    <3> QED  BY <3>1, StoreKept
  <2>2. CASE table' = [table EXCEPT ![Top.f][Top.v] = value]
    <3> DEFINE f == Top.f
               b == [table[f] EXCEPT ![Top.v] = value]
    <3>1. table' = [table EXCEPT ![f] = b]  BY <2>2
    <3>2. b = Rebound(table[f], Top.v, value)  BY DEF Rebound
    <3> HIDE DEF b
    <3>3. table \in [Frame -> TableType] /\ capacity \in [Frame -> Nat \ {0}]
          /\ \A g \in Frame : ~Overfull(table[g], capacity[g])
      BY DEF VInv, StoreOK
    <3>4. Fits(table[f], capacity[f])  BY <1>3, <3>3 DEF Fits
    <3>5. table[f][Top.v] # Unbound  BY <1>1, <1>2 DEF VInv, SlotsBound
    <3>6. /\ b \in TableType /\ ~Overfull(b, capacity[f])
          /\ \A u \in Var : table[f][u] # Unbound => b[u] # Unbound
      BY <1>2, <1>3, <3>2, <3>4, <3>5, Rebinding DEF Fits
    <3>7. /\ table' \in [Frame -> TableType] /\ table'[f] = b
          /\ \A g \in Frame : g # f => table'[g] = table[g]
      BY <1>3, <3>1, <3>3, <3>6
    <3>8. \A g \in Frame : ~Overfull(table'[g], capacity'[g])
      BY <1>1, <3>3, <3>6, <3>7
    <3>9. \A g \in Frame : ~Overfull(table[g], capacity[g])'
      BY <3>8 DEF Overfull, Bindings
    <3>10. StoreOK'  BY <1>1, <3>7, <3>9 DEF VInv, StoreOK, ForcedHasValue, IsForced
    <3>11. \A i \in DOMAIN calls : calls[i].op = "set" => calls[i].f \in Frame /\ calls[i].v \in Var
      BY DEF VInv, GoodStack, GoodCall
    <3>12. SlotsBound(calls, table')
      BY <3>6, <3>7, <3>11 DEF VInv, SlotsBound
    <3> QED  BY <3>10, <3>12
  <2> QED  BY <2>1, <2>2 DEF SetReturns
<1> QED  BY <1>1, <1>3, <1>4, <1>5, <1>6, Returns

LEMMA DefinesReturn == ASSUME VInv, DefineReturns PROVE Preserved
<1>1. /\ turn = "return" /\ calls # <<>> /\ calls' = Tail(calls) /\ turn' = "return"
      /\ Top.op = "define" /\ UNCHANGED <<outer, promise, env, fault>> /\ value' = None
      /\ qz_hash_set(Scope, Top.v, value)
  BY DEF DefineReturns, Resumes, Pops, Return, At
<1>2. GoodCall(Top) /\ value \in Value  BY <1>1, TopIsGood DEF MayDrop
<1>3. ~EnvPushed(Top) /\ NeedsDrop(Top)  BY <1>1, <1>2 DEF GoodCall, NeedsDrop
<1>4. StoreOK' /\ SlotsBound(calls', table') /\ Moves
  BY <1>1, <1>2, Defining DEF Defines
<1>5. /\ GoodStack(calls') /\ AllSettled(calls') /\ DropsNext(calls')
      /\ EnvFits(calls', env')
  BY <1>1, <1>3, ScopeType, Popped DEF VInv, Top
<1>6. VInv'  BY <1>1, <1>4, <1>5, Assembled DEF VInv
<1> QED  BY <1>4, <1>6 DEF Preserved

LEMMA Continues == ASSUME VInv, NextExpression \/ TopLevel PROVE Preserved
<1>1. /\ turn \in {"return", "idle"} /\ turn' = "eval" /\ UNCHANGED Heap
      /\ UNCHANGED <<env, calls, fault, table, capacity>>
      /\ value' = value \/ value' = None
  BY DEF NextExpression, TopLevel, Resumes, At, Heap
<1>2. /\ GoodStack(calls') /\ AllSettled(calls') /\ fault' # "stale frame"
      /\ EnvFits(calls', env') /\ SlotsBound(calls', table')
  BY <1>1 DEF VInv
<1>3. VInv'  BY <1>1, <1>2, StoreKept, Assembled DEF VInv
<1> QED  BY <1>1, <1>3, QuietMoves DEF Preserved, Quiet

LEMMA TopLevelsReturn == ASSUME VInv, TopLevelReturns PROVE Preserved
<1>1. /\ turn = "return" /\ turn' = "idle" /\ UNCHANGED Heap /\ calls = <<>> /\ value' = None
      /\ UNCHANGED <<env, calls, fault, table, capacity>>
  BY DEF TopLevelReturns, At, Heap
<1>2. /\ GoodStack(calls') /\ fault' # "stale frame"
      /\ EnvFits(calls', env') /\ SlotsBound(calls', table')
  BY <1>1 DEF VInv
<1>3. VInv'  BY <1>1, <1>2, StoreKept, Assembled DEF VInv
<1> QED  BY <1>1, <1>3, QuietMoves DEF Preserved, Quiet

LEMMA BodiesReturn == ASSUME VInv, BeginReturns \/ LeaveScope PROVE Preserved
<1>1. /\ turn = "return" /\ calls # <<>> /\ calls' = Tail(calls) /\ turn' = "return"
      /\ UNCHANGED Heap /\ UNCHANGED <<capacity, fault>> /\ value # None /\ value' = value
      /\ \/ Top.op = "begin" /\ env' = env
         \/ Top.op = "body" /\ env' = Top.env
  BY DEF BeginReturns, LeaveScope, Resumes, Pops, At, Heap
<1>2. EnvPushed(Top) <=> Top.op = "body"  BY <1>1, TopIsGood DEF GoodCall
<1>3. EnvFits(calls', env')  BY <1>1, <1>2, ScopeType, Popped DEF VInv, Top
<1>4. value' \in Value /\ fault' # "stale frame"  BY <1>1 DEF VInv
<1> QED  BY <1>1, <1>3, <1>4, StoreKept, ReturnsValue

LEMMA EagersReturn == ASSUME VInv, EagerReturns PROVE Preserved
<1>1. PICK p \in NewPromise :
        /\ turn = "return" /\ calls # <<>> /\ calls' = Tail(calls) /\ turn' = "return"
        /\ Top.op = "eager" /\ promise' = [promise EXCEPT ![p] = Forced(value)]
        /\ value' = Promise(p) /\ UNCHANGED <<table, capacity, outer>>
        /\ UNCHANGED <<env, fault>>
  BY DEF EagerReturns, Resumes, Pops, Return, At
<1>2. p \in Pid  BY NewPromises
<1>3. GoodCall(Top) /\ value \in Value  BY <1>1, TopIsGood DEF MayDrop
<1>4. ~EnvPushed(Top)  BY <1>1, <1>3 DEF GoodCall
<1>5. /\ Forced(value) \in [scope : Frame \cup {Nowhere}, value : Value \cup {None}]
      /\ Forced(value).value # None
  BY <1>3, VariablesAssumption DEF Forced
<1>6. StoreOK' /\ SlotsBound(calls, table')  BY <1>1, <1>2, <1>5, PromiseKept
<1>7. EnvFits(calls', env')  BY <1>1, <1>4, ScopeType, Popped DEF VInv, Top
<1>8. value' \in Value  BY <1>1, <1>2 DEF Value, Promises
<1>9. fault' # "stale frame"  BY <1>1 DEF VInv
<1> QED  BY <1>1, <1>6, <1>7, <1>8, <1>9, ReturnsValue

LEMMA ForcesReturn == ASSUME VInv, ForceReturns PROVE Preserved
<1>1. /\ turn = "return" /\ calls # <<>> /\ calls' = Tail(calls) /\ turn' = "return"
      /\ Top.op = "force" /\ promise' = [promise EXCEPT ![Top.p] = Forced(value)]
      /\ value' = value /\ UNCHANGED <<table, capacity, outer>>
      /\ UNCHANGED fault /\ env' = Top.env
  BY DEF ForceReturns, Resumes, Pops, At
<1>2. GoodCall(Top) /\ value \in Value  BY <1>1, TopIsGood DEF MayDrop
<1>3. EnvPushed(Top)  BY <1>1, <1>2 DEF GoodCall
<1>4. /\ Forced(value) \in [scope : Frame \cup {Nowhere}, value : Value \cup {None}]
      /\ Forced(value).value # None
  BY <1>2, VariablesAssumption DEF Forced
<1>5. StoreOK' /\ SlotsBound(calls, table')
  <2>1. CASE Top.p \in Pid  BY <1>1, <1>4, <2>1, PromiseKept
  <2>2. CASE Top.p \notin Pid
    <3>1. promise' = promise
      <4>1. promise \in [Pid -> [scope : Frame \cup {Nowhere}, value : Value \cup {None}]]
        BY DEF VInv, StoreOK
      <4> QED  BY <1>1, <2>2, <4>1
    <3>2. UNCHANGED Heap  BY <1>1, <3>1 DEF Heap
    <3> QED  BY <3>2, StoreKept
  <2> QED  BY <2>1, <2>2
<1>6. EnvFits(calls', env')  BY <1>1, <1>3, Popped DEF VInv, Top
<1>7. value' \in Value /\ fault' # "stale frame"  BY <1>1, <1>2 DEF VInv
<1> QED  BY <1>1, <1>5, <1>6, <1>7, ReturnsValue

LEMMA OperatorsReturn == ASSUME VInv, OperatorReturns PROVE Preserved
<1>1. calls # <<>> /\ turn = "return" /\ Top.op = "operator" /\ ~EnvPushed(Top)
  <2>1. calls # <<>> /\ turn = "return" /\ Top.op = "operator"
    BY DEF OperatorReturns, Resumes, At
  <2> QED  BY <2>1, TopIsGood DEF GoodCall
<1>2. CASE value \in Procedures
  <2> DEFINE c0 == Call("args")
             c  == [c0 EXCEPT !.f = value[2]]
  <2>1. /\ calls' = <<c>> \o Tail(calls) /\ turn' = "bind" /\ value' = None
        /\ UNCHANGED Heap /\ UNCHANGED <<capacity, env, fault>>
    BY <1>2 DEF OperatorReturns, Replace, Heap
  <2>2. value[2] \in Frame  BY <1>2 DEF Procedures, Fun
  <2>3. /\ c0 \in CallType /\ c0.op = "args" /\ c0.b = NewTable /\ c0.m = Capacity0
        /\ c0.env = <<>>
    BY NewCalls
  <2> HIDE DEF c0
  <2>4. /\ c \in CallType /\ c.op = "args" /\ c.b = NewTable /\ c.m = Capacity0
        /\ c.env = <<>> /\ c.f \in Frame
    BY <2>2, <2>3, InFrame
  <2> HIDE DEF c
  <2>5. GoodCall(c) /\ ~EnvPushed(c) /\ ~NeedsDrop(c)
    BY <2>4, NewTableFits DEF GoodCall, Fits, EnvPushed, NeedsDrop
  <2>6. EnvFits(calls', env')  BY <1>1, <2>1, <2>5, SameScope
  <2>7. StoreOK' /\ SlotsBound(calls, table')  BY <2>1, StoreKept
  <2> QED  BY <1>1, <2>1, <2>4, <2>5, <2>6, <2>7, GoesOn
<1>3. CASE Error(calls)
  BY <1>1, <1>3, Errors DEF VInv
<1> QED  BY <1>2, <1>3 DEF OperatorReturns

LEMMA OperandsReturn == ASSUME VInv, OperandReturns PROVE Preserved
<1>1. calls # <<>> /\ turn = "return" /\ Top.op = "operand" /\ ~EnvPushed(Top)
  <2>1. calls # <<>> /\ turn = "return" /\ Top.op = "operand"
    BY DEF OperandReturns, Resumes, At
  <2> QED  BY <2>1, TopIsGood DEF GoodCall
<1>2. promise \in [Pid -> [scope : Frame \cup {Nowhere}, value : Value \cup {None}]]
      /\ ForcedHasValue
  BY DEF VInv, StoreOK
<1>3. ASSUME NEW p \in Pid, IsForced(p), Pops, Return(promise[p].value),
             UNCHANGED <<Heap, env, fault>>
      PROVE  Preserved
  <2>1. calls' = Tail(calls) /\ turn' = "return" /\ UNCHANGED Heap
        /\ UNCHANGED <<capacity, env, fault>> /\ value' = promise[p].value
    BY <1>3 DEF Pops, Return, Heap
  <2>2. value' \in Value  BY <1>2, <1>3, <2>1 DEF ForcedHasValue
  <2>3. EnvFits(calls', env')  BY <1>1, <2>1, ScopeType, Popped DEF VInv, Top
  <2>4. fault' # "stale frame"  BY <2>1 DEF VInv
  <2> QED  BY <1>1, <2>1, <2>2, <2>3, <2>4, StoreKept, ReturnsValue
<1>4. ASSUME NEW p \in Pid, ~IsForced(p), Replace([Call("force") EXCEPT !.p = p, !.env = env]),
             env' = <<promise[p].scope>> \o env, turn' = "eval", value' = None,
             UNCHANGED <<Heap, fault>>
      PROVE  Preserved
  <2> DEFINE c0 == Call("force")
             c1 == [c0 EXCEPT !.p = p]
             c  == [c1 EXCEPT !.env = env]
  <2>1. calls' = <<c>> \o Tail(calls) /\ UNCHANGED Heap /\ UNCHANGED <<capacity, fault>>
    BY <1>4 DEF Replace, Heap
  <2>2. Scope \in Frame /\ env \in Seq(Frame) /\ env # <<>> /\ EnvFits(calls, env)
    BY ScopeType
  <2>3. c0 \in CallType /\ c0.op = "force"  BY NewCalls
  <2> HIDE DEF c0
  <2>4. c1 \in CallType /\ c1.op = "force"  BY <2>3, OfPromise
  <2> HIDE DEF c1
  <2>5. c \in CallType /\ c.op = "force" /\ c.env = env  BY <2>2, <2>4, WithScope
  <2> HIDE DEF c
  <2>6. GoodCall(c) /\ Settled(c) /\ EnvPushed(c) /\ ~NeedsDrop(c)
    BY <2>2, <2>5, ScopedCalls
  <2>7. EnvFits(Tail(calls), c.env)
    BY <1>1, <2>2, <2>5, Popped DEF VInv, Top
  <2>8. promise[p].scope \in Frame  BY <1>2, <1>4 DEF IsForced
  <2>9. c.op # "set" /\ c.op # "let*"  BY <2>5
  <2>10. EnvFits(calls', env')
    BY <1>1, <1>4, <2>1, <2>5, <2>6, <2>7, <2>8, <2>9, Replaced DEF VInv
  <2>11. StoreOK' /\ SlotsBound(calls, table')  BY <2>1, StoreKept
  <2> QED  BY <1>1, <1>4, <2>1, <2>6, <2>7, <2>9, <2>10, <2>11, GoesOn
<1>5. CASE Error(calls)
  BY <1>1, <1>5, Errors, ScopeType DEF VInv
<1> QED  BY <1>3, <1>4, <1>5 DEF OperandReturns

LEMMA Resumptions == ASSUME VInv, Resume PROVE Preserved
BY SetsReturn, DefinesReturn, BindingsReturn, LetStarBindingsReturn, Continues,
   BodiesReturn, EagersReturn, OperatorsReturn, OperandsReturn, ForcesReturn,
   TopLevelsReturn
DEF Resume

(***************************************************************************)
(* The theorems                                                            *)
(***************************************************************************)
LEMMA Initially == Init => VInv
<1> SUFFICES ASSUME Init PROVE VInv  OBVIOUS
<1>1. /\ calls = <<>> /\ env = <<Global>> /\ turn = "idle" /\ value = None /\ fault = "none"
      /\ capacity = [f \in Frame |-> Capacity0] /\ table = [f \in Frame |-> NewTable]
      /\ outer = [f \in Frame |-> Nowhere] /\ promise = [p \in Pid |-> Unforced(Global)]
  BY DEF Init
<1>2. NewTable \in TableType /\ ~Overfull(NewTable, Capacity0) /\ Capacity0 \in Nat \ {0}
  BY NewTableFits DEF Fits
<1>3. Global \in Frame /\ Global # Nowhere
  BY VariablesAssumption DEF Global, Frame, Nowhere
<1>4. Unforced(Global) \in [scope : Frame \cup {Nowhere}, value : Value \cup {None}]
      /\ Unforced(Global).scope # Nowhere
  BY <1>3 DEF Unforced
<1>5. StoreOK
  <2>1. ForcedHasValue  BY <1>1, <1>4 DEF ForcedHasValue, IsForced
  <2> QED  BY <1>1, <1>2, <1>4, <2>1 DEF StoreOK
<1> QED  BY <1>1, <1>5, NoCalls DEF VInv

LEMMA Step == VInv /\ [Next]_vars => VInv' /\ [Moves]_vars
<1> SUFFICES ASSUME VInv, [Next]_vars PROVE VInv' /\ [Moves]_vars  OBVIOUS
<1>1. CASE Next
  BY <1>1, Continues, Expressions, Binds, Resumptions DEF Next, Preserved
<1>2. CASE UNCHANGED vars
  <2>1. /\ UNCHANGED Heap /\ UNCHANGED <<table, calls, env, turn, value, fault>>
    BY <1>2 DEF vars, Heap
  <2>2. StoreOK'  BY <2>1, StoreKept
  <2>3. VInv'
    BY <2>1, <2>2 DEF VInv, Top, GoodStack, AllSettled, EnvFits, SlotsBound, DropsNext,
       Entered
  <2> QED  BY <1>2, <2>3
<1> QED  BY <1>1, <1>2

LEMMA Invariance == Spec => []VInv
<1>1. VInv /\ [Next]_vars => VInv'  BY Step
<1> QED  BY Initially, <1>1, PTL DEF Spec

\* Between two top-level forms no C call is pending and the global scope is in
\* force, and the state has its types (quuz-state.c:16, :94).
THEOREM TypeCorrect == Spec => []TypeOK
<1>1. VInv => TypeOK
  <2> SUFFICES ASSUME VInv PROVE TypeOK  OBVIOUS
  <2>1. turn = "idle" => calls = <<>> /\ env = <<Global>>
    BY NoCalls DEF VInv
  <2> QED  BY <2>1, ScopeType DEF VInv, StoreOK, TypeOK, TableType
<1> QED  BY Invariance, <1>1, PTL

\* An error releases a frame that is being filled by a pointer to the table
\* it has (quuz-lib.c:398, quuz-state.c:175).
THEOREM FramesReleased == Spec => []ReleasesLiveFrames
<1>1. VInv => ReleasesLiveFrames  BY DEF VInv, ReleasesLiveFrames
<1> QED  BY Invariance, <1>1, PTL

\* A forced promise has a value (quuz-lib.c:519, :535).
THEOREM ForcedPromises == Spec => []ForcedHasValue
<1>1. VInv => ForcedHasValue  BY DEF VInv, StoreOK
<1> QED  BY Invariance, <1>1, PTL

\* Only a define, of a variable that was not there, takes a table away from
\* under a set! (quuz-lib.c:187).
THEOREM DefineMoves == Spec => OnlyDefineMoves
<1>1. VInv /\ [Next]_vars => [Moves]_vars  BY Step
<1>2. Spec => [][Moves]_vars  BY Invariance, <1>1, PTL DEF Spec
<1> QED  BY <1>2 DEF OnlyDefineMoves, Moves

(***************************************************************************)
(* Where the pending calls began: what they keep of the environment is     *)
(* what the scopes entered around them make of it                          *)
(***************************************************************************)
\* the scopes around s when o encloses them
EnclosingIn(o, s) ==
  {t \in Frame : \A T \in SUBSET Frame :
     s \in T /\ (\A u \in T : o[u] \in Frame => o[u] \in T) => t \in T}

\* a call that n others have entered a scope around: it returns to the scope
\* that was in force when it entered its own, which is the one of a let*, and
\* the slot of a set! is in a scope around the one it began in
Placed(c, n, e, o) ==
  /\ EnvPushed(c) => \A k \in 0 .. n : EnteredAfter(c.env, k) = EnteredAfter(e, k)
  /\ c.op = "let*" => c.f = EnteredAfter(e, n + 1)
  /\ c.op = "set" => c.f \in EnclosingIn(o, EnteredAfter(e, n))

AllPlaced(cs, e, o) ==
  \A i \in DOMAIN cs : Placed(cs[i], Cardinality(Around(cs, i)), e, o)

(***************************************************************************)
(* What can be reached                                                     *)
(***************************************************************************)
LEMMA Nodes ==
  /\ \A f : Ref(f) \in Node <=> f \in Frame
  /\ \A f : Fun(f) \in Node <=> f \in Frame
  /\ \A p : Promise(p) \in Node <=> p \in Pid
  /\ \A x \in Datum \cup {None, Unbound} : x \notin Node
  /\ Ref(Nowhere) \notin Node /\ Promise(0) \notin Node
<1>1. /\ \A f, g : Ref(f) # Fun(g) /\ Ref(f) # Promise(g) /\ Fun(f) # Promise(g)
      /\ \A f, g : Ref(f) = Ref(g) => f = g
      /\ \A f, g : Fun(f) = Fun(g) => f = g
      /\ \A f, g : Promise(f) = Promise(g) => f = g
  BY DEF Ref, Fun, Promise
<1>2. Nowhere \notin Frame /\ 0 \notin Pid
  BY VariablesAssumption DEF Frame, Pid, Nowhere
<1>3. \A x \in Datum \cup {None, Unbound} : x \notin Node  BY VariablesAssumption
<1>4. /\ \A f : Ref(f) \in Node <=> f \in Frame
      /\ \A f : Fun(f) \in Node <=> f \in Frame
      /\ \A p : Promise(p) \in Node <=> p \in Pid
  BY <1>1, Zenon DEF Node, FrameRefs, Procedures, Promises
<1> QED  BY <1>2, <1>3, <1>4

\* the cells a cell refers to when the variables have these values
LEMMA RefersTo ==
  /\ \A f \in Frame : Refers(Fun(f)) = {Ref(f)}
  /\ \A p \in Pid : Refers(Promise(p)) = {Ref(promise[p].scope), promise[p].value}
  /\ \A f \in Frame : Refers(Ref(f)) = {Ref(outer[f])} \cup {table[f][v] : v \in Var}
  /\ \A f \in Frame : Refers(Fun(f))' = {Ref(f)}
  /\ \A p \in Pid : Refers(Promise(p))' = {Ref(promise'[p].scope), promise'[p].value}
  /\ \A f \in Frame : Refers(Ref(f))' = {Ref(outer'[f])} \cup {table'[f][v] : v \in Var}
<1>1. \A f, g : Ref(f) # Fun(g) /\ Ref(f) # Promise(g) /\ Fun(f) # Promise(g)
  BY DEF Ref, Fun, Promise
<1>2. /\ \A f : Ref(f)[2] = f /\ Fun(f)[2] = f /\ Promise(f)[2] = f
  BY DEF Ref, Fun, Promise
<1>3. \A f \in Frame : /\ Fun(f) \in Procedures /\ Fun(f) \notin Promises /\ Fun(f) \notin FrameRefs
                       /\ Ref(f) \in FrameRefs /\ Ref(f) \notin Procedures /\ Ref(f) \notin Promises
  BY <1>1, Zenon DEF Procedures, Promises, FrameRefs
<1>4. \A p \in Pid : /\ Promise(p) \in Promises /\ Promise(p) \notin Procedures
                     /\ Promise(p) \notin FrameRefs
  BY <1>1, Zenon DEF Procedures, Promises, FrameRefs
<1>5. /\ \A f \in Frame : Refers(Fun(f)) = {Ref(f)}
      /\ \A f \in Frame : Refers(Fun(f))' = {Ref(f)}
  BY <1>2, <1>3 DEF Refers
<1>6. /\ \A p \in Pid : Refers(Promise(p)) = {Ref(promise[p].scope), promise[p].value}
      /\ \A p \in Pid : Refers(Promise(p))' = {Ref(promise'[p].scope), promise'[p].value}
  BY <1>2, <1>4 DEF Refers
<1>7. /\ \A f \in Frame : Refers(Ref(f)) = {Ref(outer[f])} \cup {table[f][v] : v \in Var}
      /\ \A f \in Frame : Refers(Ref(f))' = {Ref(outer'[f])} \cup {table'[f][v] : v \in Var}
  BY <1>2, <1>3 DEF Refers
<1> QED  BY <1>5, <1>6, <1>7

\* a cell is a scope, a function or a promise
LEMMA NodeIs ==
  ASSUME NEW x \in Node
  PROVE  \/ \E f \in Frame : x = Ref(f)
         \/ \E f \in Frame : x = Fun(f)
         \/ \E p \in Pid : x = Promise(p)
BY DEF Node, FrameRefs, Procedures, Promises

LEMMA RootsReachable == \A x \in Roots \cap Node : x \in Reachable
BY DEF Reachable, Garbage

LEMMA RefersReachable ==
  ASSUME NEW x \in Reachable
  PROVE  \A y \in Refers(x) \cap Node : y \in Reachable
BY DEF Reachable, Garbage

LEMMA ReachableWithin ==
  ASSUME NEW T, \A x \in Roots' \cap Node : x \in T,
         \A x \in T \cap Node : \A y \in Refers(x)' \cap Node : y \in T
  PROVE  \A x \in Reachable' : x \in T /\ x \in Node
<1> DEFINE U == Node \ T
<1>1. U \in SUBSET (Node \ Roots')  OBVIOUS
<1>2. \A x \in Node \ U : \A y \in Refers(x)' : y \notin U  OBVIOUS
<1> HIDE DEF U
<1>3. U \subseteq Garbage'  BY <1>1, <1>2 DEF Garbage
<1> QED  BY <1>3 DEF Reachable, U

\* Roots
Holding(cs) == UNION {Held(cs[i]) : i \in DOMAIN cs}

LEMMA HoldingPush ==
  ASSUME NEW cs \in Seq(CallType), NEW c \in CallType
  PROVE  \A x \in Holding(<<c>> \o cs) : x \in Held(c) \/ x \in Holding(cs)
<1>1. \A i \in DOMAIN (<<c>> \o cs) : \/ (<<c>> \o cs)[i] = c
                                      \/ i - 1 \in DOMAIN cs /\ (<<c>> \o cs)[i] = cs[i - 1]
  OBVIOUS
<1> QED  BY <1>1 DEF Holding

LEMMA HoldingTail ==
  ASSUME NEW cs, GoodStack(cs), cs # <<>>
  PROVE  /\ \A x \in Holding(Tail(cs)) : x \in Holding(cs)
         /\ \A x \in Held(Head(cs)) : x \in Holding(cs)
<1>1. \A j \in DOMAIN Tail(cs) : j + 1 \in DOMAIN cs /\ Tail(cs)[j] = cs[j + 1]
  BY Popped
<1>2. 1 \in DOMAIN cs /\ Head(cs) = cs[1]  BY Popped
<1> QED  BY <1>1, <1>2 DEF Holding

LEMMA RootsAre ==
  /\ Roots = {Ref(env[i]) : i \in DOMAIN env} \cup {value} \cup Holding(calls)
  /\ Roots' = {Ref(env'[i]) : i \in DOMAIN env'} \cup {value'} \cup Holding(calls')
BY DEF Roots, Holding, Held

LEMMA HeldReachable ==
  /\ \A i \in DOMAIN env : env[i] \in Frame => Ref(env[i]) \in Reachable
  /\ value \in Node => value \in Reachable
  /\ \A x \in Holding(calls) \cap Node : x \in Reachable
BY RootsReachable, RootsAre, Nodes

(***************************************************************************)
(* A step captures no scope but the one in force                           *)
(***************************************************************************)
Captures == \A s \in MadeIn' : s = Scope \/ s \in MadeIn

LEMMA MadeInIs ==
  /\ \A s : s \in MadeIn <=>
       /\ s # Nowhere
       /\ \/ Fun(s) \in Reachable
          \/ \E p \in Pid : Promise(p) \in Reachable /\ promise[p].scope = s
  /\ \A s : s \in MadeIn' <=>
       /\ s # Nowhere
       /\ \/ Fun(s) \in Reachable'
          \/ \E p \in Pid : Promise(p) \in Reachable' /\ promise'[p].scope = s
<1>1. \A f, g : Ref(f) # Fun(g) /\ Ref(f) # Promise(g) /\ Fun(f) # Promise(g)
  BY DEF Ref, Fun, Promise
<1>2. /\ \A f : Index(Fun(f)) = f /\ Index(Promise(f)) = f
  BY DEF Fun, Promise, Index
<1>3. /\ \A f : Ref(f) \notin Procedures /\ Ref(f) \notin Promises
      /\ \A f : Fun(f) \in Procedures <=> f \in Frame
      /\ \A p \in Pid : Promise(p) \in Promises /\ Promise(p) \notin Procedures
  <2>1. \A f, g : Fun(f) = Fun(g) => f = g  BY DEF Fun
  <2> QED  BY <1>1, <2>1, Zenon DEF Procedures, Promises
<1>4. /\ \A f \in Frame : MadeInScope(Ref(f)) = Nowhere /\ MadeInScope(Fun(f)) = f
      /\ \A p \in Pid : MadeInScope(Promise(p)) = promise[p].scope
      /\ \A f \in Frame : MadeInScope(Ref(f))' = Nowhere /\ MadeInScope(Fun(f))' = f
      /\ \A p \in Pid : MadeInScope(Promise(p))' = promise'[p].scope
  <2>1. ASSUME NEW f \in Frame
        PROVE  /\ MadeInScope(Ref(f)) = Nowhere /\ MadeInScope(Fun(f)) = f
               /\ MadeInScope(Ref(f))' = Nowhere /\ MadeInScope(Fun(f))' = f
    <3>1. \A p \in Promises : \E q \in Pid : p = Promise(q)  BY DEF Promises
    <3>2. Fun(f) \notin Promises  BY <1>1, <3>1
    <3> QED  BY <1>2, <1>3, <3>2 DEF MadeInScope
  <2>2. ASSUME NEW p \in Pid
        PROVE  MadeInScope(Promise(p)) = promise[p].scope /\ MadeInScope(Promise(p))' = promise'[p].scope
    BY <1>2, <1>3 DEF MadeInScope
  <2> QED  BY <2>1, <2>2
<1>5. \A s : Fun(s) \in Node => s \in Frame  BY Nodes
<1>6. Reachable \subseteq Node /\ Reachable' \subseteq Node  BY DEF Reachable
<1>7. ASSUME NEW s
      PROVE  s \in MadeIn <=>
               /\ s # Nowhere
               /\ \/ Fun(s) \in Reachable
                  \/ \E p \in Pid : Promise(p) \in Reachable /\ promise[p].scope = s
  <2>1. ASSUME s \in MadeIn PROVE \/ Fun(s) \in Reachable
                                  \/ \E p \in Pid : Promise(p) \in Reachable /\ promise[p].scope = s
    <3>1. PICK x \in Reachable : s = MadeInScope(x)  BY <2>1 DEF MadeIn
    <3>2. s # Nowhere  BY <2>1 DEF MadeIn
    <3>3. x \in Node  BY <1>6
    <3> QED  BY <1>4, <3>1, <3>2, <3>3, NodeIs
  <2>2. ASSUME s # Nowhere, Fun(s) \in Reachable PROVE s \in MadeIn
    BY <1>4, <1>5, <1>6, <2>2 DEF MadeIn
  <2>3. ASSUME s # Nowhere, NEW p \in Pid, Promise(p) \in Reachable, promise[p].scope = s
        PROVE  s \in MadeIn
    BY <1>4, <2>3 DEF MadeIn
  <2>4. s \in MadeIn => s # Nowhere  BY DEF MadeIn
  <2> QED  BY <2>1, <2>2, <2>3, <2>4
<1>8. ASSUME NEW s
      PROVE  s \in MadeIn' <=>
               /\ s # Nowhere
               /\ \/ Fun(s) \in Reachable'
                  \/ \E p \in Pid : Promise(p) \in Reachable' /\ promise'[p].scope = s
  <2>1. ASSUME s \in MadeIn' PROVE \/ Fun(s) \in Reachable'
                                   \/ \E p \in Pid : Promise(p) \in Reachable' /\ promise'[p].scope = s
    <3>1. PICK x \in Reachable' : s = MadeInScope(x)'  BY <2>1 DEF MadeIn
    <3>2. s # Nowhere  BY <2>1 DEF MadeIn
    <3>3. x \in Node  BY <1>6
    <3> QED  BY <1>4, <3>1, <3>2, <3>3, NodeIs
  <2>2. ASSUME s # Nowhere, Fun(s) \in Reachable' PROVE s \in MadeIn'
    BY <1>4, <1>5, <1>6, <2>2 DEF MadeIn
  <2>3. ASSUME s # Nowhere, NEW p \in Pid, Promise(p) \in Reachable', promise'[p].scope = s
        PROVE  s \in MadeIn'
    BY <1>4, <2>3 DEF MadeIn
  <2>4. s \in MadeIn' => s # Nowhere  BY DEF MadeIn
  <2> QED  BY <2>1, <2>2, <2>3, <2>4
<1> QED  BY <1>7, <1>8

LEMMA CapturesBy ==
  ASSUME \A f : Fun(f) \in Reachable' => Fun(f) \in Reachable \/ f = Scope,
         \A p \in Pid : Promise(p) \in Reachable' =>
           \/ promise'[p].scope \in {Nowhere, Scope}
           \/ Promise(p) \in Reachable /\ promise'[p].scope = promise[p].scope
  PROVE  Captures
BY MadeInIs DEF Captures

\* What can be reached after a step, when the roots and the cells that changed
\* refer to nothing new but X.
LEMMA ReachKept ==
  ASSUME NEW X, \A x \in Roots' \cap Node : x \in Reachable \cup X,
         \A x \in Reachable : \/ Refers(x)' = Refers(x)
                              \/ \A y \in Refers(x)' \cap Node : y \in Reachable \cup X,
         \A x \in X \cap Node : \A y \in Refers(x)' \cap Node : y \in Reachable \cup X
  PROVE  \A x \in Reachable' : x \in Reachable \cup X
<1> DEFINE T == Reachable \cup X
<1>1. \A x \in Roots' \cap Node : x \in T  OBVIOUS
<1>2. \A x \in T \cap Node : \A y \in Refers(x)' \cap Node : y \in T
  BY RefersReachable
<1> HIDE DEF T
<1>3. \A x \in Reachable' : x \in T  BY <1>1, <1>2, ReachableWithin
<1> QED  BY <1>3 DEF T

LEMMA CellKept ==
  ASSUME NEW f \in Frame, table'[f] = table[f], outer'[f] = outer[f]
  PROVE  Refers(Ref(f))' = Refers(Ref(f))
<1>1. Refers(Ref(f)) = {Ref(outer[f])} \cup {table[f][v] : v \in Var}  BY RefersTo
<1>2. Refers(Ref(f))' = {Ref(outer'[f])} \cup {table'[f][v] : v \in Var}  BY RefersTo
<1>3. {table'[f][v] : v \in Var} = {table[f][v] : v \in Var}  OBVIOUS
<1> QED  BY <1>1, <1>2, <1>3

\* no cell changes
LEMMA HeapKept ==
  ASSUME VInv, UNCHANGED Heap,
         \A x \in Roots' \cap Node : x \in Reachable \/ x = Fun(Scope)
  PROVE  Captures
<1>1. Scope \in Frame /\ Ref(Scope) \in Reachable
  BY ScopeType, HeldReachable DEF Scope
<1>2. \A x \in Reachable : Refers(x)' = Refers(x)
  BY DEF Refers, Heap
<1>3. \A x \in {Fun(Scope)} : \A y \in Refers(x)' : y \in Reachable
  <2>1. PICK s : s = Scope  OBVIOUS
  <2> QED  BY <1>1, <2>1, RefersTo
<1>4. \A x \in Reachable' : x \in Reachable \cup {Fun(Scope)}
  <2> DEFINE X == {Fun(Scope)}
  <2>1. \A x \in Roots' \cap Node : x \in Reachable \cup X  OBVIOUS
  <2>2. \A x \in X \cap Node : \A y \in Refers(x)' \cap Node : y \in Reachable \cup X
    BY <1>3
  <2> HIDE DEF X
  <2>3. \A x \in Reachable' : x \in Reachable \cup X  BY <1>2, <2>1, <2>2, ReachKept
  <2> QED  BY <2>3 DEF X
<1>5. \A f, g : Fun(f) = Fun(g) => f = g  BY DEF Fun
<1>6. \A f, g : Fun(f) # Promise(g)  BY DEF Fun, Promise
<1>7. UNCHANGED promise  BY DEF Heap
<1> QED  BY <1>4, <1>5, <1>6, <1>7, CapturesBy

\* a variable gets a value
LEMMA TableWritten ==
  ASSUME VInv, NEW f \in Frame, NEW v, NEW x, UNCHANGED <<outer, promise>>,
         table' = [table EXCEPT ![f] = [table[f] EXCEPT ![v] = x]],
         x \in Node => x \in Reachable \/ x = Fun(Scope),
         \A y \in Roots' \cap Node : y \in Reachable \/ y = Fun(Scope)
  PROVE  Captures
<1>1. Scope \in Frame /\ Ref(Scope) \in Reachable
  BY ScopeType, HeldReachable DEF Scope
<1>2. table \in [Frame -> TableType]  BY DEF VInv, StoreOK
<1>3. \A g \in Frame : \A u \in Var : table'[g][u] = table[g][u] \/ table'[g][u] = x
  BY <1>2 DEF TableType
<1>4. ASSUME NEW r \in Reachable
      PROVE  \/ Refers(r)' = Refers(r)
             \/ \A y \in Refers(r)' \cap Node : y \in Reachable \cup {Fun(Scope)}
  <2>1. r \in Node  BY DEF Reachable
  <2>2. CASE \E g \in Frame : r = Ref(g)
    <3>1. PICK g \in Frame : r = Ref(g)  BY <2>2
    <3>2. Refers(r) = {Ref(outer[g])} \cup {table[g][u] : u \in Var}  BY <3>1, RefersTo
    <3>3. Refers(r)' = {Ref(outer'[g])} \cup {table'[g][u] : u \in Var}  BY <3>1, RefersTo
    <3>4. \A y \in Refers(r)' : y \in Refers(r) \/ y = x  BY <1>3, <3>2, <3>3
    <3> QED  BY <3>4, RefersReachable
  <2>3. CASE \E g \in Frame : r = Fun(g)  BY <2>3, RefersTo
  <2>4. CASE \E p \in Pid : r = Promise(p)  BY <2>4, RefersTo
  <2> QED  BY <2>1, <2>2, <2>3, <2>4, NodeIs
<1>5. \A y \in {Fun(Scope)} : \A z \in Refers(y)' : z \in Reachable
  <2>1. PICK s : s = Scope  OBVIOUS
  <2> QED  BY <1>1, <2>1, RefersTo
<1>6. \A y \in Reachable' : y \in Reachable \cup {Fun(Scope)}
  BY <1>4, <1>5, ReachKept
<1>7. \A g, h : Fun(g) = Fun(h) => g = h  BY DEF Fun
<1>8. \A g, h : Fun(g) # Promise(h)  BY DEF Fun, Promise
<1> QED  BY <1>6, <1>7, <1>8, CapturesBy

\* a promise is made or gets a value
LEMMA PromiseWritten ==
  ASSUME VInv, NEW p \in Pid, NEW r, UNCHANGED <<table, outer>>,
         promise' = [promise EXCEPT ![p] = r],
         r.scope \in {Nowhere, Scope}, r.value \in Node => r.value \in Reachable,
         \A y \in Roots' \cap Node : y \in Reachable \/ y = Promise(p)
  PROVE  Captures
<1>1. Scope \in Frame /\ Ref(Scope) \in Reachable
  BY ScopeType, HeldReachable DEF Scope
<1>2. \A q \in Pid : promise'[q] = IF q = p THEN r ELSE promise[q]
  BY DEF VInv, StoreOK
<1>3. \A y \in Refers(Promise(p))' \cap Node : y \in Reachable
  <2>1. Refers(Promise(p))' = {Ref(r.scope), r.value}  BY <1>2, RefersTo
  <2> QED  BY <1>1, <2>1, Nodes
<1>4. ASSUME NEW x \in Reachable, x # Promise(p) PROVE Refers(x)' = Refers(x)
  <2>1. x \in Node  BY DEF Reachable
  <2>2. CASE \E g \in Frame : x = Ref(g)
    <3>1. PICK g \in Frame : x = Ref(g)  BY <2>2
    <3>2. table'[g] = table[g] /\ outer'[g] = outer[g]  OBVIOUS
    <3> QED  BY <3>1, <3>2, CellKept
  <2>3. CASE \E g \in Frame : x = Fun(g)  BY <2>3, RefersTo
  <2>4. CASE \E q \in Pid : x = Promise(q)
    <3>1. PICK q \in Pid : x = Promise(q)  BY <2>4
    <3>2. promise'[q] = promise[q]  BY <1>2, <1>4, <3>1
    <3> QED  BY <3>1, <3>2, RefersTo
  <2> QED  BY <2>1, <2>2, <2>3, <2>4, NodeIs
<1>8. /\ \A x \in Reachable : \/ Refers(x)' = Refers(x)
                             \/ \A y \in Refers(x)' \cap Node : y \in Reachable \cup {Promise(p)}
      /\ \A x \in {Promise(p)} : \A y \in Refers(x)' \cap Node : y \in Reachable \cup {Promise(p)}
  BY <1>3, <1>4
<1>5. \A y \in Reachable' : y \in Reachable \cup {Promise(p)}
  BY <1>8, ReachKept
<1>6. \A g, h : Promise(g) = Promise(h) => g = h  BY DEF Promise
<1>7. \A g, h : Fun(g) # Promise(h)  BY DEF Fun, Promise
<1> QED  BY <1>2, <1>5, <1>6, <1>7, CapturesBy

\* a frame comes into force
LEMMA FrameEntered ==
  ASSUME VInv, NEW f \in NewFrame, NEW o \in Frame, NEW b, NEW cap,
         EnterScope(f, o, b, cap), UNCHANGED promise, Ref(o) \in Reachable,
         \A v \in Var : b[v] \in Node => b[v] \in Reachable,
         \A y \in Roots' \cap Node : y \in Reachable \/ y = Ref(f)
  PROVE  Captures
<1>1. f \in Frame  BY NewFrames
<1>2. /\ table \in [Frame -> TableType] /\ outer \in [Frame -> Frame \cup {Nowhere}]
  BY DEF VInv, StoreOK
<1>3. /\ \A g \in Frame : g # f => table'[g] = table[g] /\ outer'[g] = outer[g]
      /\ table'[f] = b /\ outer'[f] = o
  BY <1>1, <1>2 DEF EnterScope
<1>4. \A y \in Refers(Ref(f))' \cap Node : y \in Reachable
  <2>1. Refers(Ref(f))' = {Ref(o)} \cup {b[v] : v \in Var}  BY <1>1, <1>3, RefersTo
  <2> QED  BY <2>1
<1>5. ASSUME NEW x \in Reachable, x # Ref(f) PROVE Refers(x)' = Refers(x)
  <2>1. x \in Node  BY DEF Reachable
  <2>2. CASE \E g \in Frame : x = Ref(g)
    <3>1. PICK g \in Frame : x = Ref(g)  BY <2>2
    <3>2. table'[g] = table[g] /\ outer'[g] = outer[g]  BY <1>3, <1>5, <3>1
    <3> QED  BY <3>1, <3>2, CellKept
  <2>3. CASE \E g \in Frame : x = Fun(g)  BY <2>3, RefersTo
  <2>4. CASE \E q \in Pid : x = Promise(q)  BY <2>4, RefersTo
  <2> QED  BY <2>1, <2>2, <2>3, <2>4, NodeIs
<1>8. /\ \A x \in Reachable : \/ Refers(x)' = Refers(x)
                             \/ \A y \in Refers(x)' \cap Node : y \in Reachable \cup {Ref(f)}
      /\ \A x \in {Ref(f)} : \A y \in Refers(x)' \cap Node : y \in Reachable \cup {Ref(f)}
  BY <1>4, <1>5
<1>6. \A y \in Reachable' : y \in Reachable \cup {Ref(f)}
  BY <1>8, ReachKept
<1>7. \A g, h : Fun(g) # Ref(h) /\ Promise(g) # Ref(h)  BY DEF Ref, Fun, Promise
<1> QED  BY <1>6, <1>7, CapturesBy

(***************************************************************************)
(* Where calls began                                                       *)
(***************************************************************************)
LEMMA Levels ==
  ASSUME NEW cs \in Seq(CallType), NEW i \in DOMAIN cs
  PROVE  /\ Cardinality(Around(cs, i)) \in Nat /\ Cardinality(Entered(cs)) \in Nat
         /\ Cardinality(Around(cs, i)) <= Cardinality(Entered(cs))
         /\ EnvPushed(cs[i]) => Cardinality(Around(cs, i)) + 1 <= Cardinality(Entered(cs))
<1>1. Entered(cs) \in SUBSET Nat /\ IsFiniteSet(Entered(cs))  BY EnteredType
<1>2. Around(cs, i) \subseteq Entered(cs)  BY DEF Around
<1>3. IsFiniteSet(Around(cs, i)) /\ Cardinality(Around(cs, i)) <= Cardinality(Entered(cs))
  BY <1>1, <1>2, FS_Subset
<1>4. Cardinality(Around(cs, i)) \in Nat /\ Cardinality(Entered(cs)) \in Nat
  BY <1>1, <1>3, FS_CardinalityType
<1>5. ASSUME EnvPushed(cs[i])
      PROVE  Cardinality(Around(cs, i)) + 1 <= Cardinality(Entered(cs))
  <2>1. i \in Entered(cs)  BY <1>5 DEF Entered
  <2>2. i \notin Around(cs, i)  BY <1>1, <2>1 DEF Around
  <2>3. /\ IsFiniteSet(Around(cs, i) \cup {i})
        /\ Cardinality(Around(cs, i) \cup {i}) = Cardinality(Around(cs, i)) + 1
    BY <1>3, <2>2, FS_AddElement
  <2>4. Around(cs, i) \cup {i} \subseteq Entered(cs)  BY <1>2, <2>1
  <2>5. Cardinality(Around(cs, i) \cup {i}) <= Cardinality(Entered(cs))
    BY <1>1, <2>4, FS_Subset
  <2> QED  BY <2>3, <2>5
<1> QED  BY <1>3, <1>4, <1>5

\* two environments have the same n + 1 outermost scopes
Agree(e, e2, n) == \A k \in 0 .. n : EnteredAfter(e2, k) = EnteredAfter(e, k)

LEMMA PlacedElsewhere ==
  ASSUME NEW cs, GoodStack(cs), NEW e, NEW e2, NEW o, AllPlaced(cs, e, o),
         Agree(e, e2, Cardinality(Entered(cs)))
  PROVE  AllPlaced(cs, e2, o)
<1> SUFFICES ASSUME NEW i \in DOMAIN cs
             PROVE  Placed(cs[i], Cardinality(Around(cs, i)), e2, o)
  BY DEF AllPlaced
<1>1. PICK n : n = Cardinality(Around(cs, i))  OBVIOUS
<1>2. PICK m : m = Cardinality(Entered(cs))  OBVIOUS
<1>3. PICK c : c = cs[i]  OBVIOUS
<1>4. n \in Nat /\ m \in Nat /\ n <= m /\ (EnvPushed(c) => n + 1 <= m)
  BY <1>1, <1>2, <1>3, Levels DEF GoodStack
<1>5. GoodCall(c) /\ Placed(c, n, e, o)  BY <1>1, <1>3 DEF GoodStack, AllPlaced
<1>6. \A k \in 0 .. m : EnteredAfter(e2, k) = EnteredAfter(e, k)  BY <1>2 DEF Agree
<1>7. EnvPushed(c) => \A k \in 0 .. n : EnteredAfter(c.env, k) = EnteredAfter(e2, k)
  BY <1>4, <1>5, <1>6 DEF Placed
<1>8. c.op = "let*" => c.f = EnteredAfter(e2, n + 1)
  BY <1>4, <1>5, <1>6 DEF Placed, GoodCall
<1>9. c.op = "set" => c.f \in EnclosingIn(o, EnteredAfter(e2, n))
  BY <1>4, <1>5, <1>6 DEF Placed
<1> QED  BY <1>1, <1>3, <1>7, <1>8, <1>9 DEF Placed

LEMMA PlacedPush ==
  ASSUME NEW cs \in Seq(CallType), NEW c \in CallType, NEW e, NEW o, AllPlaced(cs, e, o),
         Placed(c, Cardinality(Entered(cs)), e, o)
  PROVE  AllPlaced(<<c>> \o cs, e, o)
<1> DEFINE new == <<c>> \o cs
<1>1. /\ new[1] = c /\ Cardinality(Around(new, 1)) = Cardinality(Entered(cs))
      /\ \A i \in DOMAIN new : i = 1 \/ (i > 1 /\ i - 1 \in DOMAIN cs /\ new[i] = cs[i - 1])
      /\ \A i \in DOMAIN cs : Cardinality(Around(new, i + 1)) = Cardinality(Around(cs, i))
      /\ \A i \in DOMAIN new : i \in Nat
  BY EnteredPushed
<1> HIDE DEF new
<1>2. ASSUME NEW i \in DOMAIN new
      PROVE  Placed(new[i], Cardinality(Around(new, i)), e, o)
  <2>1. CASE i = 1  BY <1>1, <2>1
  <2>2. CASE i # 1
    <3>1. i - 1 \in DOMAIN cs /\ new[i] = cs[i - 1] /\ (i - 1) + 1 = i  BY <1>1, <2>2
    <3>2. Cardinality(Around(new, i)) = Cardinality(Around(cs, i - 1))  BY <1>1, <3>1
    <3> QED  BY <3>1, <3>2 DEF AllPlaced
  <2> QED  BY <2>1, <2>2
<1>3. AllPlaced(new, e, o)  BY <1>2 DEF AllPlaced
<1> QED  BY <1>3 DEF new

LEMMA PlacedPop ==
  ASSUME NEW cs, GoodStack(cs), cs # <<>>, NEW e, NEW o, AllPlaced(cs, e, o)
  PROVE  /\ AllPlaced(Tail(cs), e, o)
         /\ Placed(Head(cs), Cardinality(Entered(Tail(cs))), e, o)
<1>1. PICK new, c : new = Tail(cs) /\ c = Head(cs)  OBVIOUS
<1>2. cs \in Seq(CallType)  BY DEF GoodStack
<1>3. new \in Seq(CallType) /\ c \in CallType /\ cs = <<c>> \o new  BY <1>1, <1>2
<1>4. /\ cs[1] = c /\ Cardinality(Around(cs, 1)) = Cardinality(Entered(new))
      /\ DOMAIN cs = 1 .. Len(new) + 1 /\ Len(new) \in Nat
      /\ \A i \in DOMAIN new : /\ i + 1 \in DOMAIN cs /\ cs[i + 1] = new[i]
                               /\ Cardinality(Around(cs, i + 1)) = Cardinality(Around(new, i))
  BY <1>3, EnteredPushed
<1>5. Placed(c, Cardinality(Entered(new)), e, o)
  <2>1. 1 \in DOMAIN cs  BY <1>4
  <2>2. Placed(cs[1], Cardinality(Around(cs, 1)), e, o)  BY <2>1 DEF AllPlaced
  <2> QED  BY <1>4, <2>2
<1>6. ASSUME NEW i \in DOMAIN new PROVE Placed(new[i], Cardinality(Around(new, i)), e, o)
  <2>1. Placed(cs[i + 1], Cardinality(Around(cs, i + 1)), e, o)  BY <1>4 DEF AllPlaced
  <2> QED  BY <1>4, <2>1
<1> QED  BY <1>1, <1>5, <1>6 DEF AllPlaced

LEMMA EnterNew ==
  ASSUME NEW e \in Seq(Frame), NEW f \in Frame, NEW n \in Nat, n + 1 = Len(e)
  PROVE  Agree(e, <<f>> \o e, n)
<1> DEFINE g == <<f>> \o e
<1>1. Len(g) = n + 2 /\ \A i \in 1 .. n + 1 : g[i + 1] = e[i]  OBVIOUS
<1> HIDE DEF g
<1>2. ASSUME NEW k \in 0 .. n PROVE g[n + 2 - k] = e[n + 1 - k]
  <2>1. n + 1 - k \in 1 .. n + 1 /\ n + 2 - k = (n + 1 - k) + 1  OBVIOUS
  <2> QED  BY <1>1, <2>1
<1>3. \A k \in 0 .. n : EnteredAfter(g, k) = EnteredAfter(e, k)
  BY <1>1, <1>2 DEF EnteredAfter
<1> QED  BY <1>3 DEF Agree, g

(***************************************************************************)
(* What encloses a scope                                                   *)
(***************************************************************************)
LEMMA EnclosingReachable ==
  ASSUME NEW s \in Frame, Ref(s) \in Reachable
  PROVE  \A t \in EnclosingIn(outer, s) : Ref(t) \in Reachable
<1> DEFINE T == {g \in Frame : Ref(g) \in Reachable}
<1>1. ASSUME NEW u \in T, outer[u] \in Frame PROVE outer[u] \in T
  <2>1. Ref(outer[u]) \in Refers(Ref(u))  BY RefersTo
  <2> QED  BY <1>1, <2>1, RefersReachable, Nodes
<1>2. T \in SUBSET Frame /\ s \in T  OBVIOUS
<1> HIDE DEF T
<1>3. \A t \in EnclosingIn(outer, s) : t \in T  BY <1>1, <1>2 DEF EnclosingIn
<1> QED  BY <1>3 DEF T

\* A frame that cannot be reached is put in force: what encloses the others
\* stays.
LEMMA EnclosingKept ==
  ASSUME NEW s \in Frame, Ref(s) \in Reachable,
         \A g \in Frame : Ref(g) \in Reachable => outer'[g] = outer[g]
  PROVE  \A t \in EnclosingIn(outer, s) : t \in EnclosingIn(outer', s)
<1> SUFFICES ASSUME NEW t \in EnclosingIn(outer, s), NEW T \in SUBSET Frame, s \in T,
                    \A u \in T : outer'[u] \in Frame => outer'[u] \in T
             PROVE  t \in T
  BY DEF EnclosingIn
<1> DEFINE U == {g \in T : Ref(g) \in Reachable}
<1>1. ASSUME NEW u \in U, outer[u] \in Frame PROVE outer[u] \in U
  <2>1. Ref(outer[u]) \in Refers(Ref(u))  BY RefersTo
  <2>2. outer'[u] = outer[u]  OBVIOUS
  <2> QED  BY <1>1, <2>1, <2>2, RefersReachable, Nodes
<1>2. U \in SUBSET Frame /\ s \in U  OBVIOUS
<1> HIDE DEF U
<1>3. t \in U  BY <1>1, <1>2 DEF EnclosingIn
<1> QED  BY <1>3 DEF U

(***************************************************************************)
(* The frames that are being filled                                        *)
(***************************************************************************)
IsFilling(c) == c.op \in {"let", "args"}
InsideOf(c, e, n) == IF c.op = "args" THEN c.f ELSE EnteredAfter(e, n)

Extended(F, n, x) == [d \in DOMAIN F \cup {n} |-> IF d = n THEN x ELSE F[d]]

LEMMA SurroundingIs ==
  ASSUME NEW cs, NEW e
  PROVE  /\ DOMAIN Surrounding(cs, e) = Depths(cs)
         /\ Surrounding(cs, e) = [d \in Depths(cs) |-> Surrounding(cs, e)[d]]
         /\ \A d \in Depths(cs) :
              Surrounding(cs, e)[d] =
                InsideOf(CallAt(cs, d), e, Cardinality(Around(cs, Len(cs) + 1 - d)))
BY DEF Surrounding, InsideOf, BegunIn

LEMMA SurroundingPush ==
  ASSUME NEW cs \in Seq(CallType), NEW c \in CallType, NEW e
  PROVE  /\ ~IsFilling(c) => Surrounding(<<c>> \o cs, e) = Surrounding(cs, e)
         /\ IsFilling(c) =>
              Surrounding(<<c>> \o cs, e) =
                Extended(Surrounding(cs, e), Len(cs) + 1,
                         InsideOf(c, e, Cardinality(Entered(cs))))
         /\ \A d \in Depths(cs) : d < Len(cs) + 1 /\ d \in Nat
         /\ Len(cs) \in Nat
<1> DEFINE new == <<c>> \o cs
           n == Len(cs) + 1
<1>1. /\ Len(cs) \in Nat /\ DOMAIN cs = 1 .. Len(cs) /\ Len(new) = n /\ new[1] = c
      /\ Cardinality(Around(new, 1)) = Cardinality(Entered(cs))
      /\ \A i \in DOMAIN cs : /\ new[i + 1] = cs[i]
                              /\ Cardinality(Around(new, i + 1)) = Cardinality(Around(cs, i))
  BY EnteredPushed
<1> HIDE DEF new
<1>2. ASSUME NEW d \in 1 .. Len(cs)
      PROVE  /\ CallAt(new, d) = CallAt(cs, d)
             /\ Cardinality(Around(new, Len(new) + 1 - d)) =
                  Cardinality(Around(cs, Len(cs) + 1 - d))
  <2>1. Len(cs) + 1 - d \in DOMAIN cs /\ Len(new) + 1 - d = (Len(cs) + 1 - d) + 1  BY <1>1
  <2> QED  BY <1>1, <2>1 DEF CallAt
<1>3. CallAt(new, n) = c /\ Len(new) + 1 - n = 1  BY <1>1 DEF CallAt
<1>4. 1 .. Len(new) = (1 .. Len(cs)) \cup {n}  BY <1>1
<1>5. Depths(new) = IF IsFilling(c) THEN Depths(cs) \cup {n} ELSE Depths(cs)
  BY <1>2, <1>3, <1>4 DEF Depths, IsFilling
<1>6. \A d \in Depths(cs) : d < n /\ d \in Nat /\ d \in 1 .. Len(cs)  BY <1>1 DEF Depths
<1>7. \A d \in Depths(cs) :
        InsideOf(CallAt(new, d), e, Cardinality(Around(new, Len(new) + 1 - d))) =
        InsideOf(CallAt(cs, d), e, Cardinality(Around(cs, Len(cs) + 1 - d)))
  BY <1>2, <1>6
<1>8. InsideOf(CallAt(new, n), e, Cardinality(Around(new, Len(new) + 1 - n))) =
      InsideOf(c, e, Cardinality(Entered(cs)))
  BY <1>1, <1>3
<1>9. /\ Surrounding(new, e) = [d \in Depths(new) |->
           InsideOf(CallAt(new, d), e, Cardinality(Around(new, Len(new) + 1 - d)))]
      /\ Surrounding(cs, e) = [d \in Depths(cs) |->
           InsideOf(CallAt(cs, d), e, Cardinality(Around(cs, Len(cs) + 1 - d)))]
  BY DEF Surrounding, InsideOf, BegunIn
<1>10. ~IsFilling(c) => Surrounding(new, e) = Surrounding(cs, e)
  BY <1>5, <1>7, <1>9
<1>11. IsFilling(c) =>
         Surrounding(new, e) =
           Extended(Surrounding(cs, e), n, InsideOf(c, e, Cardinality(Entered(cs))))
  <2>1. \A d \in Depths(cs) : Surrounding(cs, e)[d] =
          InsideOf(CallAt(cs, d), e, Cardinality(Around(cs, Len(cs) + 1 - d)))
    BY SurroundingIs
  <2>2. \A d \in Depths(cs) : d # n  BY <1>1, <1>6
  <2>3. DOMAIN Surrounding(cs, e) = Depths(cs)  BY SurroundingIs
  <2> QED  BY <1>5, <1>7, <1>8, <1>9, <2>1, <2>2, <2>3 DEF Extended
<1> QED  BY <1>1, <1>6, <1>10, <1>11 DEF new

LEMMA SurroundingTail ==
  ASSUME NEW cs \in Seq(CallType), cs # <<>>, NEW e
  PROVE  LET t == Tail(cs)  n == Len(Tail(cs)) + 1 IN
         /\ ~IsFilling(Head(cs)) => Surrounding(cs, e) = Surrounding(t, e)
         /\ IsFilling(Head(cs)) =>
              Surrounding(cs, e) =
                Extended(Surrounding(t, e), n, InsideOf(Head(cs), e, Cardinality(Entered(t))))
         /\ \A d \in Depths(t) : d < n /\ d \in Nat
         /\ n \in Nat
<1>1. PICK t, c : t = Tail(cs) /\ c = Head(cs)  OBVIOUS
<1>2. t \in Seq(CallType) /\ c \in CallType /\ cs = <<c>> \o t  BY <1>1
<1>3. /\ ~IsFilling(c) => Surrounding(cs, e) = Surrounding(t, e)
      /\ IsFilling(c) =>
           Surrounding(cs, e) =
             Extended(Surrounding(t, e), Len(t) + 1, InsideOf(c, e, Cardinality(Entered(t))))
      /\ \A d \in Depths(t) : d < Len(t) + 1 /\ d \in Nat
      /\ Len(t) \in Nat
  BY <1>2, SurroundingPush
<1> QED  BY <1>1, <1>3

\* What surrounds them depends on the scopes outside only.
LEMMA SurroundingElsewhere ==
  ASSUME NEW cs, GoodStack(cs), NEW e, NEW e2, Agree(e, e2, Cardinality(Entered(cs)))
  PROVE  Surrounding(cs, e2) = Surrounding(cs, e)
<1>1. cs \in Seq(CallType) /\ Len(cs) \in Nat /\ DOMAIN cs = 1 .. Len(cs)  BY DEF GoodStack
<1>2. ASSUME NEW d \in Depths(cs)
      PROVE  BegunIn(cs, e2, Len(cs) + 1 - d) = BegunIn(cs, e, Len(cs) + 1 - d)
  <2>1. PICK i : i = Len(cs) + 1 - d  OBVIOUS
  <2>2. i \in DOMAIN cs  BY <1>1, <2>1 DEF Depths
  <2>3. Cardinality(Around(cs, i)) \in 0 .. Cardinality(Entered(cs))  BY <1>1, <2>2, Levels
  <2> QED  BY <2>1, <2>3 DEF Agree, BegunIn
<1> QED  BY <1>2 DEF Surrounding

(***************************************************************************)
(* Steps of LexicalScope                                                   *)
(***************************************************************************)
LEMMA FillingIs ==
  Filling = Surrounding(calls, env) /\ Filling' = Surrounding(calls', env')
BY DEF Filling, Surrounding, Depths, CallAt, BegunIn, EnteredAfter, Around, Entered, EnvPushed

LEMMA CapturingStep ==
  ASSUME Captures,
         \/ Scopes!Capture \/ Scopes!Leave \/ Scopes!Abandon
         \/ \E d \in DOMAIN Filling' : Scopes!Begin(d)
         \/ \E v \in Var, x \in Value : Scopes!Define(v, x) \/ Scopes!Set(v, x)
         \/ \E s \in Frame : Scopes!Enter(s) \/ Scopes!Open(s) \/ Scopes!Reenter(s)
  PROVE  Scopes!Next
<1>1. \A s \in MadeIn' : s = Scopes!Current \/ s \in MadeIn
  BY DEF Captures, Scopes!Current, Scope
<1> QED  BY <1>1 DEF Scopes!Next

Refines == Scopes!Next /\ AllPlaced(calls', env', outer')

LEMMA CaptureStep ==
  ASSUME Captures, UNCHANGED <<table, outer, env>>,
         Surrounding(calls', env') = Surrounding(calls, env)
  PROVE  Scopes!Next
<1>1. UNCHANGED Filling  BY FillingIs
<1>2. Scopes!Capture  BY <1>1 DEF Scopes!Capture
<1> QED  BY <1>2, CapturingStep

LEMMA DefineStep ==
  ASSUME Captures, UNCHANGED <<outer, env>>,
         Surrounding(calls', env') = Surrounding(calls, env),
         NEW v, NEW x \in Value, Scope \in Frame, table \in [Frame -> TableType],
         table' = [table EXCEPT ![Scope] = [table[Scope] EXCEPT ![v] = x]]
  PROVE  Scopes!Next
<1>1. UNCHANGED Filling  BY FillingIs
<1>2. CASE v \in Var
  <2>1. table' = [table EXCEPT ![Scope][v] = x]  OBVIOUS
  <2>2. Scopes!Define(v, x)
    BY <1>1, <2>1 DEF Scopes!Define, Scopes!Stay, Scopes!Current, Scope
  <2> QED  BY <1>2, <2>2, CapturingStep
<1>3. CASE v \notin Var
  <2>1. table[Scope] \in TableType  OBVIOUS
  <2>2. [table[Scope] EXCEPT ![v] = x] = table[Scope]  BY <1>3, <2>1 DEF TableType
  <2>3. table' = table  BY <2>2
  <2> QED  BY <2>3, CaptureStep
<1> QED  BY <1>2, <1>3

LEMMA VisibleIs ==
  \A s : Scopes!Visible({s}) = EnclosingIn(outer, s)
BY DEF Scopes!Visible, EnclosingIn

LEMMA SetStep ==
  ASSUME Captures, UNCHANGED <<outer, env>>,
         Surrounding(calls', env') = Surrounding(calls, env),
         NEW f \in EnclosingIn(outer, Scope), NEW v \in Var, NEW x \in Value, f \in Frame,
         table[f][v] # Unbound,
         table' = [table EXCEPT ![f][v] = x]
  PROVE  Scopes!Next
<1>1. UNCHANGED Filling  BY FillingIs
<1>2. f \in Scopes!Visible({Scopes!Current})  BY VisibleIs DEF Scopes!Current, Scope
<1>3. Scopes!Set(v, x)  BY <1>1, <1>2 DEF Scopes!Set, Scopes!Stay
<1> QED  BY <1>3, CapturingStep

LEMMA BeginStep ==
  ASSUME Captures, UNCHANGED <<table, outer, env>>,
         NEW n, \A d \in Depths(calls) : d < n,
         NEW o, o = Scope \/ o \in MadeIn,
         Surrounding(calls', env') = Extended(Surrounding(calls, env), n, o)
  PROVE  Scopes!Next
<1>1. DOMAIN Filling = Depths(calls)  BY FillingIs, SurroundingIs
<1>2. Filling' = [d \in DOMAIN Filling \cup {n} |-> IF d = n THEN o ELSE Filling[d]]
  BY FillingIs DEF Extended
<1>3. o \in MadeIn \cup {Scopes!Current}  BY DEF Scopes!Current, Scope
<1>4. Scopes!Begin(n)  BY <1>1, <1>2, <1>3 DEF Scopes!Begin
<1>5. n \in DOMAIN Filling'  BY <1>2
<1> QED  BY <1>4, <1>5, CapturingStep

LEMMA AbandonStep ==
  ASSUME Captures, UNCHANGED <<table, outer>>, env' = <<Global>>, calls' = <<>>
  PROVE  Scopes!Next
<1>1. Depths(<<>>) = {}  BY DEF Depths
<1>2. Filling' = [d \in {} |-> Global]  BY <1>1, FillingIs DEF Surrounding
<1>3. Scopes!Abandon  BY <1>2 DEF Scopes!Abandon, Scopes!NonePending
<1> QED  BY <1>3, CapturingStep

LEMMA LeaveStep ==
  ASSUME Captures, UNCHANGED <<table, outer>>, Len(env) > 1, env' = Tail(env),
         Surrounding(calls', env') = Surrounding(calls, env)
  PROVE  Scopes!Next
<1>1. UNCHANGED Filling  BY FillingIs
<1>2. Scopes!Leave  BY <1>1 DEF Scopes!Leave
<1> QED  BY <1>2, CapturingStep

LEMMA ReenterStep ==
  ASSUME Captures, UNCHANGED <<table, outer>>, NEW s \in MadeIn, s \in Frame,
         env' = <<s>> \o env, Surrounding(calls', env') = Surrounding(calls, env)
  PROVE  Scopes!Next
<1>1. UNCHANGED Filling  BY FillingIs
<1>2. Scopes!Reenter(s)  BY <1>1 DEF Scopes!Reenter
<1> QED  BY <1>2, CapturingStep

\* A frame that cannot be reached is a scope that nothing needs.
LEMMA NeededReachable ==
  ASSUME VInv
  PROVE  \A s \in Scopes!Needed : Ref(s) \in Reachable
<1> DEFINE T == {g \in Frame : Ref(g) \in Reachable}
<1>1. ASSUME NEW u \in T, outer[u] \in Frame PROVE outer[u] \in T
  <2>1. Ref(outer[u]) \in Refers(Ref(u))  BY RefersTo
  <2> QED  BY <1>1, <2>1, RefersReachable, Nodes
<1>2. ASSUME NEW s \in MadeIn PROVE s \in T
  <2>1. CASE Fun(s) \in Reachable
    <3>1. s \in Frame  BY <2>1, Nodes DEF Reachable
    <3>2. Ref(s) \in Refers(Fun(s))  BY <3>1, RefersTo
    <3> QED  BY <2>1, <3>1, <3>2, RefersReachable, Nodes
  <2>2. CASE \E p \in Pid : Promise(p) \in Reachable /\ promise[p].scope = s
    <3>1. PICK p \in Pid : Promise(p) \in Reachable /\ promise[p].scope = s  BY <2>2
    <3>2. s \in Frame  BY <3>1, MadeInIs DEF VInv, StoreOK
    <3>3. Ref(s) \in Refers(Promise(p))  BY <3>1, RefersTo
    <3> QED  BY <3>1, <3>2, <3>3, RefersReachable, Nodes
  <2> QED  BY <2>1, <2>2, MadeInIs
<1>3. env \in Seq(Frame) /\ calls \in Seq(CallType) /\ GoodStack(calls)
  BY ScopeType DEF VInv, GoodStack
<1>4. \A i \in DOMAIN env : env[i] \in T  BY <1>3, HeldReachable
<1>5. ASSUME NEW d \in DOMAIN Filling PROVE Filling[d] \in T
  <2>1. d \in Depths(calls) /\ Filling[d] =
          InsideOf(CallAt(calls, d), env, Cardinality(Around(calls, Len(calls) + 1 - d)))
    BY FillingIs, SurroundingIs
  <2>2. PICK i : i = Len(calls) + 1 - d  OBVIOUS
  <2>3. i \in DOMAIN calls /\ CallAt(calls, d) = calls[i]
    BY <1>3, <2>1, <2>2 DEF Depths, CallAt
  <2>4. CASE calls[i].op = "args"
    <3>1. calls[i].f \in Frame  BY <1>3, <2>3, <2>4 DEF GoodStack, GoodCall
    <3>2. Ref(calls[i].f) \in Holding(calls)  BY <2>3 DEF Holding, Held
    <3> QED  BY <2>1, <2>3, <2>4, <3>1, <3>2, HeldReachable, Nodes DEF InsideOf
  <2>5. CASE calls[i].op # "args"
    <3>1. PICK n : n = Cardinality(Around(calls, i))  OBVIOUS
    <3>2. n \in Nat /\ n <= Cardinality(Entered(calls)) /\ Cardinality(Entered(calls)) \in Nat
      BY <1>3, <2>3, <3>1, Levels
    <3>3. Len(env) = Cardinality(Entered(calls)) + 1  BY ScopeType DEF EnvFits, Nests
    <3>4. Len(env) - n \in DOMAIN env  BY <1>3, <3>2, <3>3
    <3>5. Filling[d] = env[Len(env) - n]
      BY <2>1, <2>2, <2>3, <2>5, <3>1 DEF InsideOf, EnteredAfter
    <3> QED  BY <1>4, <3>4, <3>5
  <2> QED  BY <2>4, <2>5
<1>6. T \in SUBSET Frame  OBVIOUS
<1> HIDE DEF T
<1>7. \A s \in MadeIn \cup Scopes!Elements(env) \cup Scopes!Elements(Filling) : s \in T
  BY <1>2, <1>4, <1>5 DEF Scopes!Elements
<1>8. \A s \in Scopes!Needed : s \in T
  BY <1>1, <1>6, <1>7 DEF Scopes!Needed, Scopes!Visible
<1> QED  BY <1>8 DEF T

LEMMA OpenStep ==
  ASSUME VInv, Captures, NEW f \in NewFrame,
         table' = [table EXCEPT ![f] = NewTable], outer' = [outer EXCEPT ![f] = Scope],
         env' = <<f>> \o env, Surrounding(calls', env') = Surrounding(calls, env)
  PROVE  Scopes!Next
<1>1. UNCHANGED Filling  BY FillingIs
<1>2. f \in Frame /\ Ref(f) \notin Reachable  BY NewFrames
<1>3. f \notin Scopes!Needed  BY <1>2, NeededReachable
<1>4. Scopes!Open(f)
  BY <1>1, <1>3 DEF Scopes!Open, Scopes!Current, Scope, NewTable
<1> QED  BY <1>2, <1>4, CapturingStep

LEMMA EnterStep ==
  ASSUME VInv, Captures, NEW f \in NewFrame, NEW b \in TableType,
         NEW n, NEW D, \A d \in D : d < n /\ d \in Nat, n \in Nat,
         Depths(calls) = D \cup {n},
         table' = [table EXCEPT ![f] = b],
         outer' = [outer EXCEPT ![f] = Surrounding(calls, env)[n]],
         env' = <<f>> \o env,
         Surrounding(calls', env') = [d \in D |-> Surrounding(calls, env)[d]]
  PROVE  Scopes!Next
<1>1. f \in Frame /\ Ref(f) \notin Reachable  BY NewFrames
<1>2. f \notin Scopes!Needed  BY <1>1, NeededReachable
<1>3. DOMAIN Filling = D \cup {n} /\ n \notin D
  <2>1. n \notin D  OBVIOUS
  <2>2. DOMAIN Filling = Depths(calls)  BY FillingIs, SurroundingIs
  <2> QED  BY <2>1, <2>2
<1>4. DOMAIN Filling \ {n} = D  BY <1>3
<1>5. /\ n \in DOMAIN Filling /\ \A e \in DOMAIN Filling : e <= n
      /\ Filling' = [e \in DOMAIN Filling \ {n} |-> Filling[e]]
      /\ outer' = [outer EXCEPT ![f] = Filling[n]]
  BY <1>3, <1>4, FillingIs
<1>6. Scopes!Enter(f)
  BY <1>2, <1>5 DEF Scopes!Enter, TableType
<1> QED  BY <1>1, <1>6, CapturingStep

(***************************************************************************)
(* Calls that are pushed, replaced and popped                              *)
(***************************************************************************)
SInv == VInv /\ AllPlaced(calls, env, outer)

LEMMA RootsNext ==
  ASSUME NEW X,
         \A i \in DOMAIN env' : env'[i] \in Frame => Ref(env'[i]) \in X,
         value' \in Node => value' \in X,
         \A x \in Holding(calls') \cap Node : x \in X
  PROVE  \A x \in Roots' \cap Node : x \in X
BY RootsAre, Nodes

\* What a call holds.
LEMMA HeldOf ==
  ASSUME NEW c, NEW X, c.f \in Frame => Ref(c.f) \in X, c.p \in Pid => Promise(c.p) \in X,
         \A i \in DOMAIN c.env : c.env[i] \in Frame => Ref(c.env[i]) \in X,
         \A v \in Var : c.b[v] \in Node => c.b[v] \in X
  PROVE  \A x \in Held(c) \cap Node : x \in X
BY Nodes DEF Held

LEMMA TopHolds ==
  ASSUME VInv, calls # <<>>
  PROVE  /\ Top.f \in Frame => Ref(Top.f) \in Reachable
         /\ \A i \in DOMAIN Top.env : Top.env[i] \in Frame => Ref(Top.env[i]) \in Reachable
         /\ Top.p \in Pid => Promise(Top.p) \in Reachable
         /\ \A v \in Var : Top.b[v] \in Node => Top.b[v] \in Reachable
<1>1. \A x \in Held(Top) \cap Node : x \in Reachable
  BY HoldingTail, HeldReachable DEF VInv, Top
<1>2. \A x \in Held(Top) : x \in Node => x \in Reachable  BY <1>1
<1> QED  BY <1>2, Nodes DEF Held

LEMMA NewCallsHold ==
  /\ \A name : Call(name).p = 0
  /\ \A v \in Var : NewTable[v] \notin Node
  /\ 0 \notin Pid /\ Nowhere \notin Frame
<1>1. \A v \in Var : NewTable[v] \notin Node  BY Nodes DEF NewTable
<1> QED  BY <1>1 DEF Call, Pid, Frame, Nowhere

\* The scope in force is the one entered last.
LEMMA InForce ==
  ASSUME VInv
  PROVE  /\ EnteredAfter(env, Cardinality(Entered(calls))) = Scope
         /\ Len(env) = Cardinality(Entered(calls)) + 1 /\ Cardinality(Entered(calls)) \in Nat
         /\ \A k \in 0 .. Cardinality(Entered(calls)) :
              EnteredAfter(env, k) \in Frame /\ Ref(EnteredAfter(env, k)) \in Reachable
         /\ Scope \in Frame /\ Ref(Scope) \in Reachable
         /\ Global \in Frame /\ Ref(Global) \in Reachable
<1>1. calls \in Seq(CallType)  BY DEF VInv, GoodStack
<1>2. PICK m : m = Cardinality(Entered(calls))  OBVIOUS
<1>3. m \in Nat  BY <1>1, <1>2, EnteredType, FS_CardinalityType
<1>4. env \in Seq(Frame) /\ Len(env) = m + 1 /\ Scope = env[1] /\ env[Len(env)] = Global
  BY <1>2, ScopeType DEF EnvFits, Nests, Scope
<1>5. EnteredAfter(env, m) = Scope  BY <1>3, <1>4 DEF EnteredAfter
<1>6. \A k \in 0 .. m : Len(env) - k \in DOMAIN env  BY <1>3, <1>4
<1>7. \A i \in DOMAIN env : env[i] \in Frame /\ Ref(env[i]) \in Reachable
  BY <1>4, HeldReachable
<1>8. 1 \in DOMAIN env /\ Len(env) \in DOMAIN env  BY <1>3, <1>4
<1> QED  BY <1>2, <1>3, <1>4, <1>5, <1>6, <1>7, <1>8 DEF EnteredAfter

\* A call that has not entered a scope and fills no frame is pushed.
LEMMA PushRefined ==
  ASSUME SInv, NEW c \in CallType, ~EnvPushed(c), c.op # "let*",
         c.op = "set" => c.f \in EnclosingIn(outer, Scope),
         calls' = <<c>> \o calls, UNCHANGED <<outer, env>>
  PROVE  /\ AllPlaced(calls', env', outer')
         /\ ~IsFilling(c) => Surrounding(calls', env') = Surrounding(calls, env)
<1>1. calls \in Seq(CallType) /\ AllPlaced(calls, env, outer) /\ VInv
  BY DEF SInv, VInv, GoodStack
<1>2. Placed(c, Cardinality(Entered(calls)), env, outer)
  BY <1>1, InForce DEF Placed
<1>3. AllPlaced(calls', env, outer)  BY <1>1, <1>2, PlacedPush
<1>4. ~IsFilling(c) => Surrounding(calls', env) = Surrounding(calls, env)
  BY <1>1, SurroundingPush
<1> QED  BY <1>3, <1>4

\* A call that has not entered a scope and fills no frame is popped.
LEMMA PopRefined ==
  ASSUME SInv, calls # <<>>, ~IsFilling(Top), calls' = Tail(calls), UNCHANGED <<outer, env>>
  PROVE  /\ AllPlaced(calls', env', outer')
         /\ Surrounding(calls', env') = Surrounding(calls, env)
<1>1. calls \in Seq(CallType) /\ AllPlaced(calls, env, outer) /\ GoodStack(calls)
  BY DEF SInv, VInv, GoodStack
<1>2. AllPlaced(calls', env', outer')  BY <1>1, PlacedPop
<1>3. Tail(calls) \in Seq(CallType) /\ Top \in CallType /\ calls = <<Top>> \o Tail(calls)
  BY <1>1 DEF Top
<1>4. Surrounding(calls, env) = Surrounding(Tail(calls), env)
  BY <1>1, SurroundingTail DEF Top
<1> QED  BY <1>2, <1>4

\* A call that has entered a scope is popped: its caller's scope is in force
\* again.
LEMMA LeaveRefined ==
  ASSUME SInv, calls # <<>>, EnvPushed(Top), ~IsFilling(Top), calls' = Tail(calls),
         env' = Top.env, UNCHANGED outer
  PROVE  /\ AllPlaced(calls', env', outer')
         /\ Surrounding(calls', env') = Surrounding(calls, env)
         /\ env' = Tail(env) /\ Len(env) > 1
         /\ \A i \in DOMAIN env' : Ref(env'[i]) \in Reachable
<1>1. /\ calls \in Seq(CallType) /\ AllPlaced(calls, env, outer) /\ GoodStack(calls)
      /\ VInv /\ EnvFits(calls, env)
  BY DEF SInv, VInv, GoodStack
<1>2. Tail(calls) \in Seq(CallType) /\ Top \in CallType /\ calls = <<Top>> \o Tail(calls)
  BY <1>1 DEF Top
<1>3. PICK n : n = Cardinality(Entered(Tail(calls)))  OBVIOUS
<1>4. n \in Nat  BY <1>2, <1>3, EnteredType, FS_CardinalityType
<1>5. Cardinality(Entered(calls)) = n + 1  BY <1>2, <1>3, EnteredPushed
<1>6. EnvFits(Tail(calls), Top.env) /\ GoodStack(Tail(calls))
  BY <1>1, Popped DEF Top
<1>7. PICK e : e = Top.env  OBVIOUS
<1>8. e \in Seq(Frame) /\ Len(e) = n + 1  BY <1>3, <1>6, <1>7 DEF EnvFits, Nests
<1>9. env \in Seq(Frame) /\ Len(env) = n + 2
  BY <1>1, <1>4, <1>5 DEF EnvFits, Nests
<1>10. AllPlaced(Tail(calls), env, outer) /\ Placed(Top, n, env, outer)
  BY <1>1, <1>3, PlacedPop DEF Top
<1>11. \A k \in 0 .. n : EnteredAfter(e, k) = EnteredAfter(env, k)
  BY <1>7, <1>10 DEF Placed
<1>12. Agree(env, e, n)  BY <1>11 DEF Agree
<1>13. AllPlaced(Tail(calls), e, outer)  BY <1>3, <1>6, <1>10, <1>12, PlacedElsewhere
<1>14. Surrounding(Tail(calls), e) = Surrounding(Tail(calls), env)
  BY <1>3, <1>6, <1>12, SurroundingElsewhere
<1>15. Surrounding(calls, env) = Surrounding(Tail(calls), env)
  BY <1>1, SurroundingTail DEF Top
<1>16. e = Tail(env)
  <2>1. \A i \in 1 .. n + 1 : e[i] = env[i + 1]
    <3>1. ASSUME NEW i \in 1 .. n + 1 PROVE e[i] = env[i + 1]
      <4>1. n + 1 - i \in 0 .. n /\ n + 1 - (n + 1 - i) = i /\ n + 2 - (n + 1 - i) = i + 1
        BY <1>4
      <4>2. PICK k \in 0 .. n : k = n + 1 - i  BY <4>1
      <4>3. EnteredAfter(e, k) = EnteredAfter(env, k)  BY <1>11
      <4>4. e[n + 1 - k] = env[n + 2 - k]
        <5>1. e[Len(e) - k] = env[Len(env) - k]  BY <4>3 DEF EnteredAfter
        <5>2. Len(e) - k = n + 1 - k /\ Len(env) - k = n + 2 - k  BY <1>4, <1>8, <1>9
        <5> QED  BY <5>1, <5>2, Zenon
      <4> QED  BY <4>1, <4>2, <4>4
    <3> QED  BY <3>1
  <2>2. /\ Tail(env) \in Seq(Frame) /\ Len(Tail(env)) = n + 1
        /\ \A i \in 1 .. n + 1 : Tail(env)[i] = env[i + 1]
    BY <1>4, <1>9
  <2> QED  BY <1>8, <2>1, <2>2
<1>17. \A i \in DOMAIN e : Ref(e[i]) \in Reachable
  BY <1>1, <1>7, <1>8, TopHolds
<1> QED  BY <1>4, <1>7, <1>9, <1>13, <1>14, <1>15, <1>16, <1>17

\* The call on top is replaced by one that is like it.
LEMMA LikeRefined ==
  ASSUME SInv, calls # <<>>, NEW c \in CallType, c.op = Top.op, c.f = Top.f, c.env = Top.env,
         calls' = <<c>> \o Tail(calls), UNCHANGED <<outer, env>>
  PROVE  /\ AllPlaced(calls', env', outer')
         /\ Surrounding(calls', env') = Surrounding(calls, env)
<1>1. calls \in Seq(CallType) /\ AllPlaced(calls, env, outer) /\ GoodStack(calls)
  BY DEF SInv, VInv, GoodStack
<1>2. Tail(calls) \in Seq(CallType) /\ Top \in CallType /\ calls = <<Top>> \o Tail(calls)
  BY <1>1 DEF Top
<1>3. PICK n : n = Cardinality(Entered(Tail(calls)))  OBVIOUS
<1>4. AllPlaced(Tail(calls), env, outer) /\ Placed(Top, n, env, outer)
  BY <1>1, <1>3, PlacedPop DEF Top
<1>5. Placed(c, n, env, outer)  BY <1>4 DEF Placed, EnvPushed
<1>6. AllPlaced(calls', env', outer')  BY <1>2, <1>3, <1>4, <1>5, PlacedPush
<1>7. IsFilling(c) <=> IsFilling(Top)  BY DEF IsFilling
<1>8. InsideOf(c, env, n) = InsideOf(Top, env, n)  BY DEF InsideOf
<1>9. PICK t, k : t = Tail(calls) /\ k = Top  OBVIOUS
<1>10. /\ t \in Seq(CallType) /\ k \in CallType /\ n = Cardinality(Entered(t))
       /\ (IsFilling(c) <=> IsFilling(k)) /\ InsideOf(c, env, n) = InsideOf(k, env, n)
  BY <1>2, <1>3, <1>7, <1>8, <1>9
<1>11. Surrounding(<<c>> \o t, env) = Surrounding(<<k>> \o t, env)
  <2>1. CASE IsFilling(c)
    <3>1. Surrounding(<<c>> \o t, env) =
            Extended(Surrounding(t, env), Len(t) + 1, InsideOf(c, env, n))
      BY <1>10, <2>1, SurroundingPush
    <3>2. Surrounding(<<k>> \o t, env) =
            Extended(Surrounding(t, env), Len(t) + 1, InsideOf(k, env, n))
      BY <1>10, <2>1, SurroundingPush
    <3> QED  BY <1>10, <3>1, <3>2
  <2>2. CASE ~IsFilling(c)  BY <1>10, <2>2, SurroundingPush
  <2> QED  BY <2>1, <2>2
<1> QED  BY <1>2, <1>6, <1>9, <1>11

\* A call enters a scope, with the calls cs pending.
LEMMA EntersRefined ==
  ASSUME NEW cs, GoodStack(cs), EnvFits(cs, env), NEW o, AllPlaced(cs, env, o),
         NEW c \in CallType, c.env = env, c.op \in {"body", "force", "let*"},
         NEW f \in Frame, c.op = "let*" => c.f = f
  PROVE  /\ AllPlaced(<<c>> \o cs, <<f>> \o env, o)
         /\ Surrounding(<<c>> \o cs, <<f>> \o env) = Surrounding(cs, env)
<1>1. PICK n : n = Cardinality(Entered(cs))  OBVIOUS
<1>2. cs \in Seq(CallType)  BY DEF GoodStack
<1>3. n \in Nat  BY <1>1, <1>2, EnteredType, FS_CardinalityType
<1>4. env \in Seq(Frame) /\ Len(env) = n + 1  BY <1>1 DEF EnvFits, Nests
<1>5. Agree(env, <<f>> \o env, n)  BY <1>3, <1>4, EnterNew
<1>6. AllPlaced(cs, <<f>> \o env, o)  BY <1>1, <1>5, PlacedElsewhere
<1>7. Placed(c, n, <<f>> \o env, o)
  <2>1. EnteredAfter(<<f>> \o env, n + 1) = f
    <3>1. Len(<<f>> \o env) = n + 2 /\ (<<f>> \o env)[1] = f  BY <1>3, <1>4
    <3> QED  BY <1>3, <3>1 DEF EnteredAfter
  <2>2. \A k \in 0 .. n : EnteredAfter(env, k) = EnteredAfter(<<f>> \o env, k)
    BY <1>5 DEF Agree
  <2> QED  BY <2>1, <2>2 DEF Placed
<1>8. AllPlaced(<<c>> \o cs, <<f>> \o env, o)  BY <1>1, <1>2, <1>6, <1>7, PlacedPush
<1>9. ~IsFilling(c)  BY DEF IsFilling
<1>10. Surrounding(<<c>> \o cs, <<f>> \o env) = Surrounding(cs, <<f>> \o env)
  BY <1>2, <1>9, SurroundingPush
<1>11. Surrounding(cs, <<f>> \o env) = Surrounding(cs, env)
  BY <1>1, <1>5, SurroundingElsewhere
<1> QED  BY <1>8, <1>10, <1>11

\* A frame that cannot be reached gets a scope around it.
LEMMA PlacedOuter ==
  ASSUME VInv, NEW cs, GoodStack(cs), EnvFits(cs, env), AllPlaced(cs, env, outer),
         \A g \in Frame : Ref(g) \in Reachable => outer'[g] = outer[g]
  PROVE  AllPlaced(cs, env, outer')
<1> SUFFICES ASSUME NEW i \in DOMAIN cs
             PROVE  Placed(cs[i], Cardinality(Around(cs, i)), env, outer')
  BY DEF AllPlaced
<1>1. PICK n, c : n = Cardinality(Around(cs, i)) /\ c = cs[i]  OBVIOUS
<1>2. Placed(c, n, env, outer)  BY <1>1 DEF AllPlaced
<1>3. Cardinality(Entered(cs)) = Cardinality(Entered(calls))
  <2>1. /\ Cardinality(Entered(cs)) \in Nat /\ Len(env) = Cardinality(Entered(cs)) + 1
    BY EnteredType, FS_CardinalityType DEF GoodStack, EnvFits, Nests
  <2> QED  BY <2>1, InForce
<1>4. n \in 0 .. Cardinality(Entered(calls))  BY <1>1, <1>3, Levels DEF GoodStack
<1>5. EnteredAfter(env, n) \in Frame /\ Ref(EnteredAfter(env, n)) \in Reachable
  BY <1>4, InForce
<1>6. c.op = "set" => c.f \in EnclosingIn(outer', EnteredAfter(env, n))
  BY <1>2, <1>5, EnclosingKept DEF Placed
<1> QED  BY <1>1, <1>2, <1>6 DEF Placed

(***************************************************************************)
(* Expressions                                                             *)
(***************************************************************************)
LEMMA EnclosingIs == \A s : Enclosing(s) = EnclosingIn(outer, s)
BY DEF Enclosing, EnclosingIn

\* A value is returned or dropped.
LEMMA Quietly ==
  ASSUME SInv, UNCHANGED Heap, UNCHANGED <<env, calls>>,
         value' \in Node => value' \in Reachable \/ value' = Fun(Scope)
  PROVE  Refines
<1>1. VInv /\ AllPlaced(calls, env, outer)  BY DEF SInv
<1>2. UNCHANGED <<table, outer>>  BY DEF Heap
<1>3. \A x \in Roots' \cap Node : x \in Reachable \/ x = Fun(Scope)
  <2> DEFINE X == Reachable \cup {Fun(Scope)}
  <2>1. \A i \in DOMAIN env' : env'[i] \in Frame => Ref(env'[i]) \in X
    BY HeldReachable
  <2>2. \A x \in Holding(calls') \cap Node : x \in X  BY HeldReachable
  <2>3. value' \in Node => value' \in X  OBVIOUS
  <2> HIDE DEF X
  <2>4. \A x \in Roots' \cap Node : x \in X  BY <2>1, <2>2, <2>3, RootsNext
  <2> QED  BY <2>4 DEF X
<1>4. Captures  BY <1>1, <1>3, HeapKept
<1> QED  BY <1>1, <1>2, <1>4, CaptureStep DEF Refines

LEMMA ValuesRefined ==
  ASSUME SInv, \/ \E x \in Datum : Constant(x)
               \/ scm_lambda
               \/ \E v \in Var : \E f \in qz_lookup(v) :
                    Return(table[f][v]) /\ UNCHANGED <<Heap, env, calls, fault>>
               \/ TopLevel \/ NextExpression \/ TopLevelReturns
  PROVE  Refines
<1>1. CASE \E x \in Datum : Constant(x)
  BY <1>1, Quietly, Nodes DEF Constant, Return, Heap
<1>2. CASE scm_lambda
  BY <1>2, Quietly DEF scm_lambda, Return, Heap
<1>3. ASSUME NEW v \in Var, NEW f \in qz_lookup(v), Return(table[f][v]),
             UNCHANGED <<Heap, env, calls, fault>>
      PROVE  Refines
  <2>1. f \in Enclosing(Scope)  BY <1>3 DEF qz_lookup
  <2>2. f \in Frame /\ Ref(f) \in Reachable
    BY <2>1, EnclosingIs, EnclosingReachable, InForce DEF SInv, EnclosingIn
  <2>3. table[f][v] \in Refers(Ref(f))  BY <2>2, RefersTo
  <2>4. table[f][v] \in Node => table[f][v] \in Reachable
    BY <2>2, <2>3, RefersReachable
  <2>5. value' = table[f][v]  BY <1>3 DEF Return
  <2> QED  BY <1>3, <2>4, <2>5, Quietly DEF Heap
<1>4. CASE TopLevel \/ NextExpression \/ TopLevelReturns
  <2>1. value' = value \/ value' = None
    BY <1>4 DEF TopLevel, NextExpression, TopLevelReturns
  <2>2. UNCHANGED Heap /\ UNCHANGED <<env, calls>>
    BY <1>4 DEF TopLevel, NextExpression, TopLevelReturns, Heap
  <2>3. value' \in Node => value' \in Reachable  BY <2>1, HeldReachable, Nodes
  <2> QED  BY <2>2, <2>3, Quietly
<1> QED  BY <1>1, <1>2, <1>3, <1>4

\* The evaluation ends with an error.
LEMMA ErrorRefined ==
  ASSUME SInv, NEW cs, GoodStack(cs), EnvFits(cs, env), Error(cs)
  PROVE  Refines
<1>1. VInv  BY DEF SInv
<1>2. env' = <<Global>>  BY ErrorRestores
<1>3. calls' = <<>> /\ value' = None /\ UNCHANGED Heap /\ UNCHANGED <<table, outer>>
  BY DEF Error, Heap
<1>4. \A x \in Roots' \cap Node : x \in Reachable
  <2>1. \A i \in DOMAIN env' : env'[i] = Global  BY <1>2
  <2>2. \A i \in DOMAIN env' : env'[i] \in Frame => Ref(env'[i]) \in Reachable
    BY <1>1, <2>1, InForce
  <2>3. Holding(calls') = {}  BY <1>3 DEF Holding
  <2> QED  BY <1>3, <2>2, <2>3, RootsNext, Nodes
<1>5. Captures  BY <1>1, <1>3, <1>4, HeapKept
<1>6. AllPlaced(calls', env', outer')  BY <1>3 DEF AllPlaced
<1> QED  BY <1>2, <1>3, <1>5, <1>6, AbandonStep DEF Refines

\* An operand is evaluated.
LEMMA OperandRefined ==
  ASSUME SInv, NEW c \in CallType, ~EnvPushed(c), ~IsFilling(c), c.op # "let*",
         c.f \in Frame => Ref(c.f) \in Reachable, c.p = 0, c.b = NewTable, c.env = <<>>,
         c.op = "set" => c.f \in EnclosingIn(outer, Scope),
         Awaiting(c)
  PROVE  Refines
<1>1. /\ calls' = <<c>> \o calls /\ value' = None /\ UNCHANGED Heap
      /\ UNCHANGED <<table, outer, env>>
  BY DEF Awaiting, Push, Heap
<1>2. VInv /\ calls \in Seq(CallType)  BY DEF SInv, VInv, GoodStack
<1>3. \A x \in Held(c) \cap Node : x \in Reachable
  BY HeldOf, NewCallsHold
<1>4. \A x \in Holding(calls') \cap Node : x \in Reachable
  BY <1>1, <1>2, <1>3, HoldingPush, HeldReachable
<1>5. \A x \in Roots' \cap Node : x \in Reachable
  <2>1. \A i \in DOMAIN env' : env'[i] \in Frame => Ref(env'[i]) \in Reachable
    BY <1>1, HeldReachable
  <2>2. value' \notin Node  BY <1>1, Nodes
  <2> QED  BY <1>4, <2>1, <2>2, RootsNext
<1>6. Captures  BY <1>1, <1>2, <1>5, HeapKept
<1>7. /\ AllPlaced(calls', env', outer')
      /\ Surrounding(calls', env') = Surrounding(calls, env)
  BY <1>1, PushRefined
<1> QED  BY <1>1, <1>6, <1>7, CaptureStep DEF Refines

LEMMA OperandsRefined ==
  ASSUME SInv, \/ \E v \in Var : scm_define(v)
               \/ \E v \in Var : \E f \in qz_lookup(v) : Awaiting(SetSlot(f, v))
               \/ scm_eager \/ scm_force \/ scm_begin \/ Operator
  PROVE  Refines
<1>1. ASSUME NEW name \in {"eager", "operand", "begin", "operator"}, Awaiting(Call(name))
      PROVE  Refines
  <2> DEFINE c == Call(name)
  <2>1. /\ c \in CallType /\ c.op = name /\ c.f = Nowhere /\ c.env = <<>> /\ c.b = NewTable
        /\ c.p = 0 /\ Nowhere \notin Frame
    BY NewCalls, NewCallsHold
  <2>2. Awaiting(c)  BY <1>1
  <2> HIDE DEF c
  <2>3. ~EnvPushed(c) /\ ~IsFilling(c) /\ c.op # "let*" /\ c.op # "set"
    BY <2>1 DEF EnvPushed, IsFilling
  <2> QED  BY <2>1, <2>2, <2>3, OperandRefined
<1>2. ASSUME NEW v \in Var, scm_define(v) PROVE Refines
  <2> DEFINE d == Call("define")
             c == [d EXCEPT !.v = v]
  <2>1. Awaiting(c)  BY <1>2 DEF scm_define
  <2>2. /\ d \in CallType /\ d.op = "define" /\ d.f = Nowhere /\ d.env = <<>> /\ d.b = NewTable
        /\ d.p = 0 /\ Nowhere \notin Frame
    BY NewCalls, NewCallsHold
  <2> HIDE DEF d
  <2>3. /\ c \in CallType /\ c.op = "define" /\ c.f = Nowhere /\ c.env = <<>> /\ c.b = NewTable
        /\ c.p = 0
    BY <2>2, OfVariable
  <2> HIDE DEF c
  <2>4. ~EnvPushed(c) /\ ~IsFilling(c) /\ c.op # "let*" /\ c.op # "set"
    BY <2>3 DEF EnvPushed, IsFilling
  <2> QED  BY <2>1, <2>2, <2>3, <2>4, OperandRefined
<1>3. ASSUME NEW v \in Var, NEW f \in qz_lookup(v), Awaiting(SetSlot(f, v))
      PROVE  Refines
  <2>1. f \in EnclosingIn(outer, Scope)  BY EnclosingIs DEF qz_lookup
  <2>2. f \in Frame /\ Ref(f) \in Reachable
    BY <2>1, EnclosingReachable, InForce DEF SInv, EnclosingIn
  <2>3. capacity[f] \in Nat \ {0}  BY <2>2 DEF SInv, VInv, StoreOK
  <2> DEFINE c0 == Call("set")
             c1 == [c0 EXCEPT !.f = f]
             c2 == [c1 EXCEPT !.v = v]
             c  == [c2 EXCEPT !.m = capacity[f]]
  <2>4. c0 \in CallType /\ c0.op = "set" /\ c0.env = <<>> /\ c0.b = NewTable /\ c0.p = 0
    BY NewCalls, NewCallsHold
  <2>5. Awaiting(c)  BY <1>3 DEF SetSlot
  <2> HIDE DEF c0
  <2>6. /\ c1 \in CallType /\ c1.op = "set" /\ c1.env = <<>> /\ c1.f = f /\ c1.b = NewTable
        /\ c1.p = 0
    BY <2>2, <2>4, InFrame
  <2> HIDE DEF c1
  <2>7. /\ c2 \in CallType /\ c2.op = "set" /\ c2.env = <<>> /\ c2.f = f /\ c2.b = NewTable
        /\ c2.p = 0
    BY <2>6, OfVariable
  <2> HIDE DEF c2
  <2>8. /\ c \in CallType /\ c.op = "set" /\ c.env = <<>> /\ c.f = f /\ c.b = NewTable
        /\ c.p = 0
    BY <2>3, <2>7, WithCapacity
  <2> HIDE DEF c
  <2>9. ~EnvPushed(c) /\ ~IsFilling(c) /\ c.op # "let*"
    BY <2>8 DEF EnvPushed, IsFilling
  <2> QED  BY <2>1, <2>2, <2>5, <2>8, <2>9, OperandRefined
<1> QED  BY <1>1, <1>2, <1>3 DEF scm_eager, scm_force, scm_begin, Operator

LEMMA ReferencesRefined ==
  ASSUME SInv, NEW v \in Var, Reference(v) \/ scm_set_b(v)
  PROVE  Refines
<1>1. GoodStack(calls) /\ EnvFits(calls, env)  BY DEF SInv, VInv
<1>2. CASE Error(calls)  BY <1>1, <1>2, ErrorRefined
<1>3. CASE \E f \in qz_lookup(v) : Return(table[f][v]) /\ UNCHANGED <<Heap, env, calls, fault>>
  BY <1>3, ValuesRefined
<1>4. CASE \E f \in qz_lookup(v) : Awaiting(SetSlot(f, v))
  BY <1>4, OperandsRefined
<1> QED  BY <1>2, <1>3, <1>4 DEF Reference, scm_set_b

\* A promise is made, or gets its value.
LEMMA PromiseRefined ==
  ASSUME SInv, NEW p \in Pid, NEW r, UNCHANGED <<table, outer>>,
         promise' = [promise EXCEPT ![p] = r],
         r.scope \in {Nowhere, Scope}, r.value \in Node => r.value \in Reachable,
         \A i \in DOMAIN env' : env'[i] \in Frame => Ref(env'[i]) \in Reachable,
         value' = Promise(p) \/ (value' \in Node => value' \in Reachable),
         \A x \in Holding(calls') \cap Node : x \in Reachable
  PROVE  Captures
<1> DEFINE X == Reachable \cup {Promise(p)}
<1>1. /\ \A i \in DOMAIN env' : env'[i] \in Frame => Ref(env'[i]) \in X
      /\ value' \in Node => value' \in X
      /\ \A x \in Holding(calls') \cap Node : x \in X
  OBVIOUS
<1> HIDE DEF X
<1>2. \A x \in Roots' \cap Node : x \in X  BY <1>1, RootsNext
<1>3. \A x \in Roots' \cap Node : x \in Reachable \/ x = Promise(p)  BY <1>2 DEF X
<1> QED  BY <1>3, PromiseWritten DEF SInv

LEMMA DelayRefined == ASSUME SInv, scm_delay PROVE Refines
<1>1. PICK p \in NewPromise :
        /\ UNCHANGED <<table, outer, calls, env>>
        /\ value' = Promise(p) /\ promise' = [promise EXCEPT ![p] = Unforced(Scope)]
  BY DEF scm_delay, Return
<1>2. p \in Pid  BY NewPromises
<1>3. Unforced(Scope).scope = Scope /\ Unforced(Scope).value \notin Node
  BY Nodes DEF Unforced
<1>4. Captures  BY <1>1, <1>2, <1>3, HeldReachable, PromiseRefined
<1>5. Surrounding(calls', env') = Surrounding(calls, env) /\ AllPlaced(calls', env', outer')
  BY <1>1 DEF SInv
<1> QED  BY <1>1, <1>4, <1>5, CaptureStep DEF Refines

LEMMA EagerRefined == ASSUME SInv, EagerReturns PROVE Refines
<1>1. PICK p \in NewPromise :
        /\ calls # <<>> /\ calls' = Tail(calls) /\ Top.op = "eager"
        /\ promise' = [promise EXCEPT ![p] = Forced(value)]
        /\ value' = Promise(p) /\ UNCHANGED <<table, outer, env>>
  BY DEF EagerReturns, Resumes, Pops, Return
<1>2. p \in Pid  BY NewPromises
<1>3. Forced(value).scope = Nowhere /\ Forced(value).value = value  BY DEF Forced
<1>4. \A x \in Holding(calls') \cap Node : x \in Reachable
  BY <1>1, HoldingTail, HeldReachable DEF SInv, VInv
<1>5. Captures  BY <1>1, <1>2, <1>3, <1>4, HeldReachable, PromiseRefined
<1>6. /\ AllPlaced(calls', env', outer')
      /\ Surrounding(calls', env') = Surrounding(calls, env)
  BY <1>1, PopRefined DEF IsFilling
<1> QED  BY <1>1, <1>5, <1>6, CaptureStep DEF Refines

\* A variable of the scope in force gets a value.
LEMMA DefinesRefined ==
  ASSUME SInv, NEW v, NEW x \in Value, qz_hash_set(Scope, v, x), UNCHANGED <<outer, promise, env>>,
         x \in Node => x \in Reachable \/ x = Fun(Scope), value' = None,
         \/ UNCHANGED calls
         \/ calls # <<>> /\ Top.op = "define" /\ calls' = Tail(calls)
  PROVE  Refines
<1>1. /\ VInv /\ Scope \in Frame /\ table \in [Frame -> TableType] /\ GoodStack(calls)
      /\ AllPlaced(calls, env, outer)
  BY ScopeType DEF SInv, VInv, StoreOK
<1>2. table' = [table EXCEPT ![Scope] = [table[Scope] EXCEPT ![v] = x]]  BY DEF qz_hash_set
<1>3. \A y \in Holding(calls') \cap Node : y \in Reachable
  BY <1>1, HoldingTail, HeldReachable
<1>4. \A y \in Roots' \cap Node : y \in Reachable
  <2>1. \A i \in DOMAIN env' : env'[i] \in Frame => Ref(env'[i]) \in Reachable
    BY HeldReachable
  <2> QED  BY <1>3, <2>1, RootsNext, Nodes
<1>5. Captures  BY <1>1, <1>2, <1>4, TableWritten
<1>6. /\ AllPlaced(calls', env', outer')
      /\ Surrounding(calls', env') = Surrounding(calls, env)
  BY <1>1, PopRefined DEF IsFilling
<1> QED  BY <1>1, <1>2, <1>5, <1>6, DefineStep DEF Refines

LEMMA DefineRefined ==
  ASSUME SInv, DefineReturns \/ LetStarBindingReturns \/ \E v \in Var : scm_define_function(v)
  PROVE  Refines
<1>1. VInv  BY DEF SInv
<1>2. CASE DefineReturns
  <2>1. /\ turn = "return" /\ calls # <<>> /\ calls' = Tail(calls)
        /\ Top.op = "define" /\ UNCHANGED <<outer, promise, env>> /\ value' = None
        /\ qz_hash_set(Scope, Top.v, value)
    BY <1>2 DEF DefineReturns, Resumes, Pops, Return, At
  <2>2. value \in Value  BY <1>1, <2>1, TopIsGood DEF MayDrop
  <2>3. value \in Node => value \in Reachable  BY HeldReachable
  <2> QED  BY <2>1, <2>2, <2>3, DefinesRefined
<1>3. CASE LetStarBindingReturns
  <2>1. /\ turn = "return" /\ calls # <<>> /\ UNCHANGED calls
        /\ Top.op = "let*" /\ UNCHANGED <<outer, promise, env>> /\ value' = None
        /\ qz_hash_set(Top.f, Top.v, value)
    BY <1>3 DEF LetStarBindingReturns, Resumes, At
  <2>2. value \in Value  BY <1>1, <2>1, TopIsGood DEF MayDrop
  <2>3. value \in Node => value \in Reachable  BY HeldReachable
  <2>4. Top.f = Scope
    <3>1. PICK n : n = Cardinality(Entered(Tail(calls)))  OBVIOUS
    <3>2. Placed(Top, n, env, outer)  BY <2>1, <3>1, PlacedPop DEF SInv, VInv, Top
    <3>3. calls \in Seq(CallType) /\ GoodCall(Top)  BY <1>1, <2>1, TopIsGood DEF VInv, GoodStack
    <3>4. Tail(calls) \in Seq(CallType) /\ Top \in CallType /\ calls = <<Top>> \o Tail(calls)
      BY <2>1, <3>3 DEF Top
    <3>5. EnvPushed(Top)  BY <2>1, <3>3 DEF GoodCall
    <3>6. Cardinality(Entered(calls)) = n + 1  BY <3>1, <3>4, <3>5, EnteredPushed
    <3> QED  BY <1>1, <2>1, <3>2, <3>6, InForce DEF Placed
  <2>5. qz_hash_set(Scope, Top.v, value)  BY <2>1, <2>4
  <2> QED  BY <2>1, <2>2, <2>3, <2>5, DefinesRefined
<1>4. ASSUME NEW v \in Var, scm_define_function(v) PROVE Refines
  <2>1. /\ qz_hash_set(Scope, v, Fun(Scope)) /\ value' = None
        /\ UNCHANGED <<outer, promise, env, calls>>
    BY <1>4 DEF scm_define_function, Return
  <2>2. Fun(Scope) \in Value  BY <1>1, ScopeType DEF Value, Procedures
  <2> QED  BY <2>1, <2>2, DefinesRefined
<1> QED  BY <1>2, <1>3, <1>4

\* A set! writes to a variable that is visible from the scope in force.
LEMMA SetRefined == ASSUME SInv, SetReturns PROVE Refines
<1>1. /\ turn = "return" /\ calls # <<>> /\ calls' = Tail(calls)
      /\ Top.op = "set" /\ UNCHANGED <<outer, promise, env>> /\ value' = None
      /\ UNCHANGED capacity
  BY DEF SetReturns, Resumes, Pops, Return, At
<1>2. /\ VInv /\ GoodStack(calls) /\ AllPlaced(calls, env, outer)
      /\ table \in [Frame -> TableType]
  BY DEF SInv, VInv, StoreOK
<1>3. GoodCall(Top) /\ Top \in CallType /\ 1 \in DOMAIN calls /\ Top = calls[1] /\ value \in Value
  BY <1>1, <1>2, TopIsGood DEF MayDrop, Top
<1>4. PICK f, v : f = Top.f /\ v = Top.v  OBVIOUS
<1>5. f \in Frame /\ v \in Var /\ table[f][v] # Unbound
  BY <1>1, <1>2, <1>3, <1>4 DEF GoodCall, VInv, SlotsBound
<1>6. f \in EnclosingIn(outer, Scope)
  <2>1. PICK n : n = Cardinality(Entered(Tail(calls)))  OBVIOUS
  <2>2. Placed(Top, n, env, outer)  BY <1>1, <1>2, <2>1, PlacedPop DEF Top
  <2>3. ~EnvPushed(Top)  BY <1>1, <1>3 DEF GoodCall
  <2>4. Cardinality(Entered(calls)) = n  BY <1>1, <1>2, <2>1, <2>3, Popped DEF Top
  <2> QED  BY <1>1, <1>2, <1>4, <2>2, <2>4, InForce DEF Placed
<1>7. \A x \in Roots' \cap Node : x \in Reachable
  <2>1. \A i \in DOMAIN env' : env'[i] \in Frame => Ref(env'[i]) \in Reachable
    BY <1>1, HeldReachable
  <2>2. \A y \in Holding(calls') \cap Node : y \in Reachable
    BY <1>1, <1>2, HoldingTail, HeldReachable
  <2> QED  BY <1>1, <2>1, <2>2, RootsNext, Nodes
<1>8. /\ AllPlaced(calls', env', outer')
      /\ Surrounding(calls', env') = Surrounding(calls, env)
  BY <1>1, PopRefined DEF IsFilling
<1>9. CASE UNCHANGED table
  <2>1. UNCHANGED Heap  BY <1>1, <1>9 DEF Heap
  <2>2. Captures  BY <1>2, <1>7, <2>1, HeapKept
  <2> QED  BY <1>1, <1>8, <1>9, <2>2, CaptureStep DEF Refines
<1>10. CASE table' = [table EXCEPT ![Top.f][Top.v] = value]
  <2>1. table' = [table EXCEPT ![f][v] = value]  BY <1>4, <1>10
  <2>2. table' = [table EXCEPT ![f] = [table[f] EXCEPT ![v] = value]]  BY <2>1
  <2>3. value \in Node => value \in Reachable  BY HeldReachable
  <2>4. Captures  BY <1>1, <1>2, <1>5, <1>7, <2>2, <2>3, TableWritten
  <2> QED  BY <1>1, <1>3, <1>5, <1>6, <1>8, <2>1, <2>4, SetStep DEF Refines
<1> QED  BY <1>9, <1>10 DEF SetReturns

(***************************************************************************)
(* Bindings, calls and returns                                             *)
(***************************************************************************)
\* The calls that stay hold nothing new.
LEMMA CallKept ==
  ASSUME SInv, NEW c \in CallType, \A x \in Held(c) \cap Node : x \in Reachable,
         calls' = <<c>> \o calls \/ (calls # <<>> /\ calls' = <<c>> \o Tail(calls))
  PROVE  \A x \in Holding(calls') \cap Node : x \in Reachable
<1>1. VInv /\ GoodStack(calls) /\ calls \in Seq(CallType)  BY DEF SInv, VInv, GoodStack
<1>2. CASE calls' = <<c>> \o calls  BY <1>1, <1>2, HoldingPush, HeldReachable
<1>3. CASE calls # <<>> /\ calls' = <<c>> \o Tail(calls)
  <2>1. Tail(calls) \in Seq(CallType)  BY <1>1, <1>3
  <2>2. PICK t : t = Tail(calls)  OBVIOUS
  <2>3. \A x \in Holding(<<c>> \o t) : x \in Held(c) \/ x \in Holding(t)
    BY <2>1, <2>2, HoldingPush
  <2>4. \A x \in Holding(t) : x \in Holding(calls)  BY <1>1, <1>3, <2>2, HoldingTail
  <2> QED  BY <1>3, <2>2, <2>3, <2>4, HeldReachable
<1> QED  BY <1>2, <1>3

LEMMA CapturesNothing ==
  ASSUME SInv, UNCHANGED Heap, \A i \in DOMAIN env' : env'[i] \in Frame => Ref(env'[i]) \in Reachable,
         value' \in Node => value' \in Reachable,
         \A x \in Holding(calls') \cap Node : x \in Reachable
  PROVE  Captures
<1>1. \A x \in Roots' \cap Node : x \in Reachable  BY RootsNext
<1> QED  BY <1>1, HeapKept DEF SInv

LEMMA LetRefined == ASSUME SInv, scm_let PROVE Refines
<1> DEFINE c == Call("let")
<1>1. /\ calls' = <<c>> \o calls /\ value' = None /\ UNCHANGED Heap
      /\ UNCHANGED <<table, outer, env>>
  BY DEF scm_let, Push, Heap
<1>2. /\ c \in CallType /\ c.op = "let" /\ c.f = Nowhere /\ c.env = <<>> /\ c.b = NewTable
      /\ c.p = 0
  BY NewCalls, NewCallsHold
<1> HIDE DEF c
<1>3. ~EnvPushed(c) /\ IsFilling(c)  BY <1>2 DEF EnvPushed, IsFilling
<1>4. VInv /\ calls \in Seq(CallType)  BY DEF SInv, VInv, GoodStack
<1>5. \A x \in Held(c) \cap Node : x \in Reachable  BY <1>2, HeldOf, NewCallsHold
<1>6. \A x \in Holding(calls') \cap Node : x \in Reachable  BY <1>1, <1>2, <1>5, CallKept
<1>7. Captures  BY <1>1, <1>6, HeldReachable, Nodes, CapturesNothing
<1>8. AllPlaced(calls', env', outer')  BY <1>1, <1>2, <1>3, PushRefined
<1>9. PICK n : n = Len(calls) + 1  OBVIOUS
<1>10. /\ Surrounding(<<c>> \o calls, env) =
            Extended(Surrounding(calls, env), n, InsideOf(c, env, Cardinality(Entered(calls))))
       /\ \A d \in Depths(calls) : d < n
  BY <1>2, <1>3, <1>4, <1>9, SurroundingPush
<1>11. InsideOf(c, env, Cardinality(Entered(calls))) = Scope
  BY <1>2, <1>4, InForce DEF InsideOf
<1>12. PICK o : o = Scope  OBVIOUS
<1>13. Surrounding(calls', env') = Extended(Surrounding(calls, env), n, o)
  BY <1>1, <1>10, <1>11, <1>12
<1> QED  BY <1>1, <1>7, <1>8, <1>10, <1>12, <1>13, BeginStep DEF Refines

\* A frame comes into force, and is held by the call that entered it at most.
LEMMA EnterCaptures ==
  ASSUME SInv, NEW f \in NewFrame, NEW o \in Frame, NEW b, NEW cap,
         EnterScope(f, o, b, cap), UNCHANGED promise, Ref(o) \in Reachable,
         \A v \in Var : b[v] \in Node => b[v] \in Reachable,
         value' \in Node => value' \in Reachable,
         \A x \in Holding(calls') \cap Node : x \in Reachable \/ x = Ref(f)
  PROVE  Captures
<1> DEFINE X == Reachable \cup {Ref(f)}
<1>1. env \in Seq(Frame) /\ f \in Frame  BY ScopeType, NewFrames DEF SInv
<1>2. env' = <<f>> \o env  BY DEF EnterScope
<1>3. \A i \in DOMAIN env' : env'[i] = f \/ \E j \in DOMAIN env : env'[i] = env[j]
  <2>1. \A i \in DOMAIN env' : env'[i] = f \/ (i - 1 \in DOMAIN env /\ env'[i] = env[i - 1])
    BY <1>1, <1>2
  <2> QED  BY <2>1
<1>4. \A i \in DOMAIN env' : env'[i] \in Frame => Ref(env'[i]) \in X
  BY <1>3, HeldReachable
<1>5. (value' \in Node => value' \in X) /\ \A x \in Holding(calls') \cap Node : x \in X
  OBVIOUS
<1> HIDE DEF X
<1>6. \A y \in Roots' \cap Node : y \in X  BY <1>4, <1>5, RootsNext
<1>7. \A y \in Roots' \cap Node : y \in Reachable \/ y = Ref(f)  BY <1>6 DEF X
<1> QED  BY <1>7, FrameEntered DEF SInv

LEMMA LetStarRefined == ASSUME SInv, scm_let_s PROVE Refines
<1>1. PICK f \in NewFrame :
        /\ EnterScope(f, Scope, NewTable, Capacity0) /\ value' = None /\ UNCHANGED promise
        /\ calls' = <<[Call("let*") EXCEPT !.f = f, !.env = env]>> \o calls
  BY DEF scm_let_s, Push
<1> DEFINE c0 == Call("let*")
           c1 == [c0 EXCEPT !.f = f]
           c  == [c1 EXCEPT !.env = env]
<1>2. f \in Frame /\ Ref(f) \notin Reachable  BY NewFrames
<1>3. calls' = <<c>> \o calls  BY <1>1
<1>4. c0 \in CallType /\ c0.op = "let*" /\ c0.b = NewTable /\ c0.p = 0
  BY NewCalls, NewCallsHold
<1> HIDE DEF c0
<1>5. c1 \in CallType /\ c1.op = "let*" /\ c1.f = f /\ c1.b = NewTable /\ c1.p = 0
  BY <1>2, <1>4, InFrame
<1> HIDE DEF c1
<1>6. /\ VInv /\ GoodStack(calls) /\ EnvFits(calls, env) /\ AllPlaced(calls, env, outer)
      /\ env \in Seq(Frame) /\ calls \in Seq(CallType)
  BY ScopeType DEF SInv, VInv, GoodStack
<1>7. c \in CallType /\ c.op = "let*" /\ c.f = f /\ c.env = env /\ c.b = NewTable /\ c.p = 0
  BY <1>5, <1>6, WithScope
<1> HIDE DEF c
<1>8. /\ table' = [table EXCEPT ![f] = NewTable] /\ outer' = [outer EXCEPT ![f] = Scope]
      /\ env' = <<f>> \o env
  BY <1>1 DEF EnterScope
<1>9. \A g \in Frame : Ref(g) \in Reachable => outer'[g] = outer[g]
  BY <1>2, <1>8, <1>6 DEF VInv, StoreOK
<1>10. AllPlaced(calls, env, outer')  BY <1>6, <1>9, PlacedOuter
<1>11. /\ AllPlaced(<<c>> \o calls, <<f>> \o env, outer')
       /\ Surrounding(<<c>> \o calls, <<f>> \o env) = Surrounding(calls, env)
  BY <1>2, <1>6, <1>7, <1>10, EntersRefined
<1>12. \A x \in Holding(calls') \cap Node : x \in Reachable \/ x = Ref(f)
  <2> DEFINE X == Reachable \cup {Ref(f)}
  <2>1. /\ c.f \in Frame => Ref(c.f) \in X
        /\ c.p \in Pid => Promise(c.p) \in X
        /\ \A i \in DOMAIN c.env : c.env[i] \in Frame => Ref(c.env[i]) \in X
        /\ \A v \in Var : c.b[v] \in Node => c.b[v] \in X
    BY <1>7, HeldReachable, NewCallsHold
  <2>2. \A x \in Reachable : x \in X  OBVIOUS
  <2> HIDE DEF X
  <2>3. \A x \in Held(c) \cap Node : x \in X  BY <2>1, HeldOf
  <2>4. \A x \in Holding(calls') : x \in Held(c) \/ x \in Holding(calls)
    BY <1>3, <1>6, <1>7, HoldingPush
  <2>5. \A x \in Holding(calls') \cap Node : x \in X  BY <2>2, <2>3, <2>4, HeldReachable
  <2> QED  BY <2>5 DEF X
<1>13. Captures
  <2>1. /\ Scope \in Frame /\ Ref(Scope) \in Reachable
        /\ \A v \in Var : NewTable[v] \in Node => NewTable[v] \in Reachable
        /\ value' \in Node => value' \in Reachable
    BY <1>1, <1>6, InForce, NewCallsHold, Nodes
  <2> QED  BY <1>1, <1>12, <2>1, EnterCaptures
<1> QED  BY <1>3, <1>6, <1>8, <1>11, <1>13, OpenStep DEF Refines

\* The loop over the bindings.
LEMMA NextBindingRefined == ASSUME SInv, NEW v \in Var, NextBinding(v) PROVE Refines
<1>1. /\ calls # <<>> /\ UNCHANGED Heap /\ UNCHANGED <<table, outer, env, value>>
      /\ calls' = <<[Top EXCEPT !.v = v, !.s = Top.m]>> \o Tail(calls)
  BY DEF NextBinding, At, SInv, VInv, Replace, Heap
<1> DEFINE c1 == [Top EXCEPT !.v = v]
           c  == [c1 EXCEPT !.s = Top.m]
<1>2. VInv /\ Top \in CallType  BY <1>1, TopIsGood DEF SInv
<1>3. calls' = <<c>> \o Tail(calls)  BY <1>1
<1>4. Top.m \in Nat \ {0}  BY <1>2 DEF CallType
<1>5. /\ c1 \in CallType /\ c1.op = Top.op /\ c1.env = Top.env /\ c1.b = Top.b
      /\ c1.f = Top.f /\ c1.p = Top.p
  BY <1>2, OfVariable
<1> HIDE DEF c1
<1>6. /\ c \in CallType /\ c.op = Top.op /\ c.env = Top.env /\ c.b = Top.b
      /\ c.f = Top.f /\ c.p = Top.p
  BY <1>4, <1>5, InSafetyBuffer
<1> HIDE DEF c
<1>7. \A x \in Held(c) \cap Node : x \in Reachable  BY <1>1, <1>2, <1>6, TopHolds, HeldOf
<1>8. \A x \in Holding(calls') \cap Node : x \in Reachable
  BY <1>1, <1>3, <1>6, <1>7, CallKept
<1>9. Captures  BY <1>1, <1>8, HeldReachable, CapturesNothing
<1>10. /\ AllPlaced(calls', env', outer')
       /\ Surrounding(calls', env') = Surrounding(calls, env)
  BY <1>1, <1>3, <1>6, LikeRefined
<1> QED  BY <1>1, <1>9, <1>10, CaptureStep DEF Refines

LEMMA BindingRefined == ASSUME SInv, BindingReturns PROVE Refines
<1>1. /\ turn = "return" /\ calls # <<>> /\ Top.op \in {"let", "args"}
      /\ UNCHANGED Heap /\ UNCHANGED <<table, outer, env>> /\ value' = None
      /\ calls' = <<Bound(Top)>> \o Tail(calls)
  BY DEF BindingReturns, Resumes, Replace, Heap, At
<1>2. VInv /\ GoodCall(Top) /\ Top \in CallType /\ value \in Value
  BY <1>1, TopIsGood DEF MayDrop, SInv
<1>3. Fits(Top.b, Top.m)  BY <1>1, <1>2 DEF GoodCall, Fills, Fits, CallType
<1> DEFINE b  == [Top.b EXCEPT ![Top.v] = value]
           c1 == [Top EXCEPT !.b = b]
           c  == [c1 EXCEPT !.m = MovesAfter(b, Top.m)]
<1>4. Bound(Top) = c  BY DEF Bound
<1>5. b = Rebound(Top.b, Top.v, value)  BY DEF Rebound
<1>6. \A v \in Var : b[v] = value \/ b[v] = Top.b[v]
  BY <1>2 DEF CallType, TableType
<1> HIDE DEF b
<1>7. Fits(b, MovesAfter(b, Top.m))  BY <1>2, <1>3, <1>5, Rebinding
<1>8. b \in TableType /\ MovesAfter(b, Top.m) \in Nat \ {0}  BY <1>7 DEF Fits
<1>9. /\ c1 \in CallType /\ c1.op = Top.op /\ c1.b = b /\ c1.f = Top.f /\ c1.env = Top.env
      /\ c1.p = Top.p
  BY <1>2, <1>8, WithBindings
<1> HIDE DEF c1
<1>10. /\ c \in CallType /\ c.op = Top.op /\ c.b = b /\ c.f = Top.f /\ c.env = Top.env
       /\ c.p = Top.p
  BY <1>8, <1>9, WithCapacity
<1> HIDE DEF c
<1>11. \A v \in Var : b[v] \in Node => b[v] \in Reachable
  BY <1>1, <1>2, <1>6, TopHolds, HeldReachable
<1>12. \A x \in Held(c) \cap Node : x \in Reachable
  BY <1>1, <1>2, <1>10, <1>11, TopHolds, HeldOf
<1>13. calls' = <<c>> \o Tail(calls)  BY <1>1, <1>4
<1>14. \A x \in Holding(calls') \cap Node : x \in Reachable
  BY <1>1, <1>10, <1>12, <1>13, CallKept
<1>15. Captures  BY <1>1, <1>14, HeldReachable, Nodes, CapturesNothing
<1>16. /\ AllPlaced(calls', env', outer')
       /\ Surrounding(calls', env') = Surrounding(calls, env)
  BY <1>1, <1>10, <1>13, LikeRefined
<1> QED  BY <1>1, <1>15, <1>16, CaptureStep DEF Refines

LEMMA NoArgumentRefined == ASSUME SInv, NoArgument PROVE Refines
<1>1. VInv /\ calls # <<>> /\ Error(Tail(calls)) /\ Top.op = "args"
  BY DEF NoArgument, At, SInv, VInv
<1>2. ~EnvPushed(Top)  BY <1>1, TopIsGood DEF GoodCall
<1>3. GoodStack(Tail(calls)) /\ EnvFits(Tail(calls), env)
  BY <1>1, <1>2, ScopeType, Popped DEF VInv, Top
<1> QED  BY <1>1, <1>3, ErrorRefined

\* A let, a call or a let* goes on with its body.
LEMMA BodyCall ==
  ASSUME NEW e \in Seq(Frame)
  PROVE  LET c == [Call("body") EXCEPT !.env = e] IN
         c \in CallType /\ c.op = "body" /\ c.env = e /\ c.f = Nowhere /\ c.b = NewTable /\ c.p = 0
<1> DEFINE d == Call("body")
           k == [d EXCEPT !.env = e]
<1>1. /\ d \in CallType /\ d.op = "body" /\ d.f = Nowhere /\ d.b = NewTable /\ d.p = 0
  BY NewCalls, NewCallsHold
<1> HIDE DEF d
<1>2. k \in CallType /\ k.op = "body" /\ k.env = e /\ k.f = Nowhere /\ k.b = NewTable /\ k.p = 0
  BY <1>1, WithScope
<1> QED  BY <1>2 DEF d

LEMMA LetStarBodyRefined == ASSUME SInv, EnterBody, Top.op = "let*" PROVE Refines
<1> DEFINE c == [Call("body") EXCEPT !.env = Top.env]
<1>1. /\ VInv /\ GoodStack(calls) /\ AllPlaced(calls, env, outer) /\ calls # <<>>
      /\ calls \in Seq(CallType)
  BY DEF SInv, EnterBody, At, VInv, GoodStack
<1>2. /\ calls' = <<c>> \o Tail(calls) /\ UNCHANGED Heap
      /\ UNCHANGED <<table, outer, env, value>>
  BY DEF EnterBody, Replace, Heap
<1>3. GoodCall(Top) /\ Top \in CallType  BY <1>1, TopIsGood
<1>4. Top.env \in Seq(Frame) /\ EnvPushed(Top)  BY <1>3 DEF GoodCall, CallType
<1>5. /\ c \in CallType /\ c.op = "body" /\ c.env = Top.env /\ c.f = Nowhere
      /\ c.b = NewTable /\ c.p = 0
  BY <1>4, BodyCall
<1> HIDE DEF c
<1>6. \A x \in Held(c) \cap Node : x \in Reachable
  BY <1>1, <1>5, HeldOf, NewCallsHold, TopHolds
<1>7. \A x \in Holding(calls') \cap Node : x \in Reachable
  BY <1>1, <1>2, <1>5, <1>6, CallKept
<1>8. Captures  BY <1>2, <1>7, HeldReachable, CapturesNothing
<1>9. PICK n, t : n = Cardinality(Entered(Tail(calls))) /\ t = Tail(calls)  OBVIOUS
<1>10. AllPlaced(t, env, outer) /\ Placed(Top, n, env, outer)  BY <1>1, <1>9, PlacedPop DEF Top
<1>11. Placed(c, n, env, outer)  BY <1>4, <1>5, <1>10 DEF Placed
<1>12. t \in Seq(CallType)  BY <1>1, <1>9
<1>13. AllPlaced(<<c>> \o t, env, outer)  BY <1>5, <1>9, <1>10, <1>11, <1>12, PlacedPush
<1>14. Surrounding(<<c>> \o t, env) = Surrounding(t, env)
  BY <1>5, <1>12, SurroundingPush DEF IsFilling
<1>15. Surrounding(calls, env) = Surrounding(t, env)
  BY <1>1, <1>9, SurroundingTail DEF IsFilling, Top
<1> QED  BY <1>2, <1>8, <1>9, <1>13, <1>14, <1>15, CaptureStep DEF Refines

LEMMA FilledBodyRefined == ASSUME SInv, EnterBody, Top.op # "let*" PROVE Refines
<1> DEFINE c == [Call("body") EXCEPT !.env = env]
<1>1. /\ VInv /\ GoodStack(calls) /\ AllPlaced(calls, env, outer) /\ calls # <<>>
      /\ calls \in Seq(CallType) /\ Top.op \in {"let", "args"} /\ UNCHANGED value
  BY DEF SInv, EnterBody, At, VInv, GoodStack
<1>2. PICK f \in NewFrame :
        /\ EnterScope(f, Inside(Top), Top.b, Top.m) /\ UNCHANGED promise
        /\ calls' = <<c>> \o Tail(calls)
  BY DEF EnterBody, Replace
<1>3. /\ GoodCall(Top) /\ Top \in CallType /\ env \in Seq(Frame) /\ EnvFits(calls, env)
  BY <1>1, TopIsGood, ScopeType
<1>4. /\ c \in CallType /\ c.op = "body" /\ c.env = env /\ c.f = Nowhere
      /\ c.b = NewTable /\ c.p = 0
  BY <1>3, BodyCall
<1> HIDE DEF c
<1>5. ~EnvPushed(Top) /\ IsFilling(Top) /\ Top.b \in TableType
  BY <1>1, <1>3 DEF GoodCall, IsFilling, CallType
<1>6. PICK t, n : t = Tail(calls) /\ n = Len(t) + 1  OBVIOUS
<1>7. /\ GoodStack(t) /\ EnvFits(t, env) /\ AllPlaced(t, env, outer)
      /\ Cardinality(Entered(t)) = Cardinality(Entered(calls))
  BY <1>1, <1>3, <1>5, <1>6, Popped, PlacedPop DEF Top
<1>8. PICK o : o = Inside(Top)  OBVIOUS
<1>9. InsideOf(Top, env, Cardinality(Entered(t))) = o
  BY <1>1, <1>7, <1>8, InForce DEF InsideOf, Inside
<1>10. o \in Frame /\ Ref(o) \in Reachable
  BY <1>1, <1>3, <1>8, TopHolds, InForce DEF Inside, GoodCall
<1>11. f \in Frame /\ Ref(f) \notin Reachable  BY NewFrames
<1>12. /\ table' = [table EXCEPT ![f] = Top.b] /\ outer' = [outer EXCEPT ![f] = o]
       /\ env' = <<f>> \o env /\ EnterScope(f, o, Top.b, Top.m)
  BY <1>2, <1>8 DEF EnterScope
<1>13. \A g \in Frame : Ref(g) \in Reachable => outer'[g] = outer[g]
  BY <1>1, <1>11, <1>12 DEF VInv, StoreOK
<1>14. AllPlaced(t, env, outer')  BY <1>1, <1>7, <1>13, PlacedOuter
<1>15. /\ AllPlaced(<<c>> \o t, <<f>> \o env, outer')
       /\ Surrounding(<<c>> \o t, <<f>> \o env) = Surrounding(t, env)
  BY <1>4, <1>7, <1>11, <1>14, EntersRefined
<1>16. Captures
  <2>1. \A x \in Held(c) \cap Node : x \in Reachable
    BY <1>4, HeldOf, NewCallsHold, HeldReachable
  <2>2. \A x \in Holding(calls') \cap Node : x \in Reachable
    BY <1>1, <1>2, <1>4, <2>1, CallKept
  <2>3. \A v \in Var : Top.b[v] \in Node => Top.b[v] \in Reachable  BY <1>1, TopHolds
  <2>4. value' \in Node => value' \in Reachable  BY <1>1, HeldReachable
  <2> QED  BY <1>2, <1>10, <1>12, <2>2, <2>3, <2>4, EnterCaptures
<1>17. /\ Surrounding(calls, env) = Extended(Surrounding(t, env), n, o)
       /\ \A d \in Depths(t) : d < n /\ d \in Nat
       /\ n \in Nat
  BY <1>1, <1>5, <1>6, <1>9, SurroundingTail DEF Top
<1>18. DOMAIN Surrounding(t, env) = Depths(t) /\ DOMAIN Surrounding(calls, env) = Depths(calls)
  BY SurroundingIs
<1>19. /\ Depths(calls) = Depths(t) \cup {n}
       /\ Surrounding(calls, env)[n] = o
       /\ \A d \in Depths(t) : Surrounding(calls, env)[d] = Surrounding(t, env)[d]
  <2>1. \A d \in Depths(t) : d # n  BY <1>17
  <2> QED  BY <1>17, <1>18, <2>1 DEF Extended
<1>20. Surrounding(calls', env') = [d \in Depths(t) |-> Surrounding(calls, env)[d]]
  <2>1. Surrounding(calls', env') = Surrounding(t, env)  BY <1>2, <1>6, <1>12, <1>15
  <2>2. Surrounding(t, env) = [d \in Depths(t) |-> Surrounding(t, env)[d]]  BY SurroundingIs
  <2> QED  BY <1>19, <2>1, <2>2
<1>21. PICK D : D = Depths(t)  OBVIOUS
<1>22. Scopes!Next
  <2>1. /\ \A d \in D : d < n /\ d \in Nat
        /\ n \in Nat /\ Depths(calls) = D \cup {n}
        /\ outer' = [outer EXCEPT ![f] = Surrounding(calls, env)[n]]
        /\ Surrounding(calls', env') = [d \in D |-> Surrounding(calls, env)[d]]
    BY <1>12, <1>17, <1>19, <1>20, <1>21
  <2> QED  BY <1>1, <1>5, <1>12, <1>16, <2>1, EnterStep
<1>23. AllPlaced(calls', env', outer')  BY <1>2, <1>6, <1>12, <1>15
<1> QED  BY <1>22, <1>23 DEF Refines

LEMMA BindRefined == ASSUME SInv, Bind PROVE Refines
BY NextBindingRefined, NoArgumentRefined, LetStarBodyRefined, FilledBodyRefined DEF Bind

\* The value of an expression is that of its body.
LEMMA BeginRefined == ASSUME SInv, BeginReturns PROVE Refines
<1>1. /\ calls # <<>> /\ calls' = Tail(calls) /\ Top.op = "begin"
      /\ UNCHANGED Heap /\ UNCHANGED <<table, outer, env, value>>
  BY DEF BeginReturns, Resumes, Pops, Heap
<1>2. \A x \in Holding(calls') \cap Node : x \in Reachable
  BY <1>1, HoldingTail, HeldReachable DEF SInv, VInv
<1>3. Captures  BY <1>1, <1>2, HeldReachable, CapturesNothing
<1>4. /\ AllPlaced(calls', env', outer')
      /\ Surrounding(calls', env') = Surrounding(calls, env)
  BY <1>1, PopRefined DEF IsFilling
<1> QED  BY <1>1, <1>3, <1>4, CaptureStep DEF Refines

LEMMA LeaveScopeRefined == ASSUME SInv, LeaveScope PROVE Refines
<1>1. /\ calls # <<>> /\ calls' = Tail(calls) /\ Top.op = "body" /\ env' = Top.env
      /\ UNCHANGED Heap /\ UNCHANGED <<table, outer, value>>
  BY DEF LeaveScope, Resumes, Pops, Heap
<1>2. EnvPushed(Top) /\ ~IsFilling(Top)
  BY <1>1, TopIsGood DEF GoodCall, IsFilling, SInv
<1>3. /\ AllPlaced(calls', env', outer')
      /\ Surrounding(calls', env') = Surrounding(calls, env)
      /\ env' = Tail(env) /\ Len(env) > 1
      /\ \A i \in DOMAIN env' : Ref(env'[i]) \in Reachable
  BY <1>1, <1>2, LeaveRefined
<1>4. \A x \in Holding(calls') \cap Node : x \in Reachable
  BY <1>1, HoldingTail, HeldReachable DEF SInv, VInv
<1>5. Captures  BY <1>1, <1>3, <1>4, HeldReachable, CapturesNothing
<1> QED  BY <1>1, <1>3, <1>5, LeaveStep DEF Refines

LEMMA ForceRefined == ASSUME SInv, ForceReturns PROVE Refines
<1>1. /\ calls # <<>> /\ calls' = Tail(calls) /\ Top.op = "force" /\ env' = Top.env
      /\ promise' = [promise EXCEPT ![Top.p] = Forced(value)]
      /\ UNCHANGED <<table, capacity, outer, value>>
  BY DEF ForceReturns, Resumes, Pops
<1>2. EnvPushed(Top) /\ ~IsFilling(Top)
  BY <1>1, TopIsGood DEF GoodCall, IsFilling, SInv
<1>3. /\ AllPlaced(calls', env', outer')
      /\ Surrounding(calls', env') = Surrounding(calls, env)
      /\ env' = Tail(env) /\ Len(env) > 1
      /\ \A i \in DOMAIN env' : Ref(env'[i]) \in Reachable
  BY <1>1, <1>2, LeaveRefined
<1>4. \A x \in Holding(calls') \cap Node : x \in Reachable
  BY <1>1, HoldingTail, HeldReachable DEF SInv, VInv
<1>5. PICK p : p = Top.p  OBVIOUS
<1>6. Captures
  <2>1. CASE p \in Pid
    <3>1. Forced(value).scope = Nowhere /\ Forced(value).value = value  BY DEF Forced
    <3> QED  BY <1>1, <1>3, <1>4, <1>5, <2>1, <3>1, HeldReachable, PromiseRefined
  <2>2. CASE p \notin Pid
    <3>1. promise' = promise  BY <1>1, <1>5, <2>2 DEF SInv, VInv, StoreOK
    <3>2. UNCHANGED Heap  BY <1>1, <3>1 DEF Heap
    <3> QED  BY <1>1, <1>3, <1>4, <3>2, HeldReachable, CapturesNothing
  <2> QED  BY <2>1, <2>2
<1> QED  BY <1>1, <1>3, <1>6, LeaveStep DEF Refines

LEMMA OperatorRefined == ASSUME SInv, OperatorReturns PROVE Refines
<1>1. /\ VInv /\ GoodStack(calls) /\ AllPlaced(calls, env, outer) /\ calls # <<>>
      /\ calls \in Seq(CallType) /\ Top.op = "operator" /\ EnvFits(calls, env)
  BY DEF SInv, OperatorReturns, Resumes, VInv, GoodStack
<1>2. CASE value \in Procedures
  <2> DEFINE c0 == Call("args")
             c  == [c0 EXCEPT !.f = value[2]]
  <2>1. /\ calls' = <<c>> \o Tail(calls) /\ value' = None /\ UNCHANGED Heap
        /\ UNCHANGED <<table, outer, env>>
    BY <1>2 DEF OperatorReturns, Replace, Heap
  <2>2. PICK s \in Frame : value = Fun(s)  BY <1>2 DEF Procedures
  <2>3. value[2] = s  BY <2>2 DEF Fun
  <2>4. Fun(s) \in Reachable  BY <2>2, HeldReachable, Nodes
  <2>5. Ref(s) \in Reachable
    <3>1. Ref(s) \in Refers(Fun(s))  BY RefersTo
    <3> QED  BY <2>4, <3>1, RefersReachable, Nodes
  <2>6. s \in MadeIn  BY <2>4, MadeInIs, NewCallsHold
  <2>7. /\ c0 \in CallType /\ c0.op = "args" /\ c0.b = NewTable /\ c0.env = <<>> /\ c0.p = 0
    BY NewCalls, NewCallsHold
  <2> HIDE DEF c0
  <2>8. /\ c \in CallType /\ c.op = "args" /\ c.b = NewTable /\ c.env = <<>> /\ c.f = s
        /\ c.p = 0
    BY <2>3, <2>7, InFrame
  <2> HIDE DEF c
  <2>9. \A x \in Held(c) \cap Node : x \in Reachable  BY <2>5, <2>8, HeldOf, NewCallsHold
  <2>10. \A x \in Holding(calls') \cap Node : x \in Reachable
    BY <1>1, <2>1, <2>8, <2>9, CallKept
  <2>11. Captures  BY <2>1, <2>10, HeldReachable, Nodes, CapturesNothing
  <2>12. PICK t, n, k : t = Tail(calls) /\ n = Len(t) + 1 /\ k = Cardinality(Entered(t))
    OBVIOUS
  <2>13. t \in Seq(CallType) /\ AllPlaced(t, env, outer)  BY <1>1, <2>12, PlacedPop
  <2>14. Placed(c, k, env, outer)  BY <2>8 DEF Placed, EnvPushed
  <2>15. AllPlaced(<<c>> \o t, env, outer)  BY <2>8, <2>12, <2>13, <2>14, PlacedPush
  <2>16. InsideOf(c, env, k) = s  BY <2>8 DEF InsideOf
  <2>17. /\ Surrounding(<<c>> \o t, env) = Extended(Surrounding(t, env), n, s)
         /\ \A d \in Depths(t) : d < n
    <3>1. IsFilling(c)  BY <2>8 DEF IsFilling
    <3>2. /\ Surrounding(<<c>> \o t, env) =
               Extended(Surrounding(t, env), Len(t) + 1, InsideOf(c, env, Cardinality(Entered(t))))
          /\ \A d \in Depths(t) : d < Len(t) + 1
      BY <2>8, <2>13, <3>1, SurroundingPush
    <3> QED  BY <2>12, <2>16, <3>2
  <2>18. Surrounding(calls, env) = Surrounding(t, env)
    BY <1>1, <2>12, SurroundingTail DEF IsFilling, Top
  <2>19. Depths(calls) = Depths(t)
    <3>1. /\ DOMAIN Surrounding(t, env) = Depths(t)
          /\ DOMAIN Surrounding(calls, env) = Depths(calls)
      BY SurroundingIs
    <3> QED  BY <2>18, <3>1
  <2>20. /\ Surrounding(calls', env') = Extended(Surrounding(calls, env), n, s)
         /\ \A d \in Depths(calls) : d < n
         /\ AllPlaced(calls', env', outer')
    BY <2>1, <2>12, <2>15, <2>17, <2>18, <2>19
  <2> QED  BY <2>1, <2>6, <2>11, <2>20, BeginStep DEF Refines
<1>3. CASE Error(calls)  BY <1>1, <1>3, ErrorRefined
<1> QED  BY <1>2, <1>3 DEF OperatorReturns

\* A promise that has its value gives it.
LEMMA ForcedRefined ==
  ASSUME SInv, calls # <<>>, Top.op = "operand", NEW p \in Pid, value = Promise(p),
         Pops, Return(promise[p].value), UNCHANGED <<Heap, env>>
  PROVE  Refines
<1>1. /\ calls' = Tail(calls) /\ value' = promise[p].value
      /\ UNCHANGED Heap /\ UNCHANGED <<table, outer, env>>
  BY DEF Pops, Return, Heap
<1>2. value' \in Node => value' \in Reachable
  <2>1. Promise(p) \in Reachable  BY HeldReachable, Nodes
  <2>2. promise[p].value \in Refers(Promise(p))  BY RefersTo
  <2> QED  BY <1>1, <2>1, <2>2, RefersReachable
<1>3. \A x \in Holding(calls') \cap Node : x \in Reachable
  BY <1>1, HoldingTail, HeldReachable DEF SInv, VInv
<1>4. Captures  BY <1>1, <1>2, <1>3, HeldReachable, CapturesNothing
<1>5. /\ AllPlaced(calls', env', outer')
      /\ Surrounding(calls', env') = Surrounding(calls, env)
  BY <1>1, PopRefined DEF IsFilling
<1> QED  BY <1>1, <1>4, <1>5, CaptureStep DEF Refines

\* A promise that has none is forced in the scope it was made in.
LEMMA UnforcedRefined ==
  ASSUME SInv, calls # <<>>, Top.op = "operand", NEW p \in Pid, value = Promise(p),
         ~IsForced(p), Replace([Call("force") EXCEPT !.p = p, !.env = env]),
         env' = <<promise[p].scope>> \o env, value' = None, UNCHANGED Heap
  PROVE  Refines
<1> DEFINE c0 == Call("force")
           c1 == [c0 EXCEPT !.p = p]
           c  == [c1 EXCEPT !.env = env]
<1>1. /\ VInv /\ GoodStack(calls) /\ AllPlaced(calls, env, outer)
      /\ calls \in Seq(CallType) /\ EnvFits(calls, env) /\ env \in Seq(Frame)
  BY ScopeType DEF SInv, VInv, GoodStack
<1>2. calls' = <<c>> \o Tail(calls) /\ UNCHANGED <<table, outer>>
  BY DEF Replace, Heap
<1>3. c0 \in CallType /\ c0.op = "force" /\ c0.f = Nowhere /\ c0.b = NewTable  BY NewCalls
<1> HIDE DEF c0
<1>4. c1 \in CallType /\ c1.op = "force" /\ c1.f = Nowhere /\ c1.b = NewTable /\ c1.p = p
  BY <1>3, OfPromise
<1> HIDE DEF c1
<1>5. /\ c \in CallType /\ c.op = "force" /\ c.f = Nowhere /\ c.b = NewTable /\ c.p = p
      /\ c.env = env
  BY <1>1, <1>4, WithScope
<1> HIDE DEF c
<1>6. PICK s : s = promise[p].scope  OBVIOUS
<1>7. s \in Frame /\ s # Nowhere  BY <1>1, <1>6 DEF VInv, StoreOK, IsForced
<1>8. Promise(p) \in Reachable  BY HeldReachable, Nodes
<1>9. s \in MadeIn  BY <1>6, <1>7, <1>8, MadeInIs
<1>10. Ref(s) \in Reachable
  <2>1. Ref(s) \in Refers(Promise(p))  BY <1>6, RefersTo
  <2> QED  BY <1>7, <1>8, <2>1, RefersReachable, Nodes
<1>11. \A i \in DOMAIN env' : env'[i] \in Frame => Ref(env'[i]) \in Reachable
  <2>1. env' = <<s>> \o env  BY <1>6
  <2>2. \A i \in DOMAIN env' : env'[i] = s \/ (i - 1 \in DOMAIN env /\ env'[i] = env[i - 1])
    BY <1>1, <1>7, <2>1
  <2> QED  BY <1>10, <2>2, HeldReachable
<1>12. \A x \in Held(c) \cap Node : x \in Reachable
  BY <1>5, <1>8, HeldOf, HeldReachable, NewCallsHold
<1>13. \A x \in Holding(calls') \cap Node : x \in Reachable
  BY <1>2, <1>5, <1>12, CallKept
<1>14. Captures  BY <1>11, <1>13, Nodes, CapturesNothing
<1>15. PICK t : t = Tail(calls)  OBVIOUS
<1>16. ~EnvPushed(Top)  BY <1>1, TopIsGood DEF GoodCall
<1>17. GoodStack(t) /\ EnvFits(t, env) /\ AllPlaced(t, env, outer)
  BY <1>1, <1>15, <1>16, Popped, PlacedPop DEF Top
<1>18. /\ AllPlaced(<<c>> \o t, <<s>> \o env, outer)
       /\ Surrounding(<<c>> \o t, <<s>> \o env) = Surrounding(t, env)
  BY <1>5, <1>7, <1>17, EntersRefined
<1>19. Surrounding(calls, env) = Surrounding(t, env)
  BY <1>1, <1>15, SurroundingTail DEF IsFilling, Top
<1>20. /\ AllPlaced(calls', env', outer')
       /\ Surrounding(calls', env') = Surrounding(calls, env)
       /\ env' = <<s>> \o env
  BY <1>2, <1>6, <1>15, <1>18, <1>19
<1> QED  BY <1>2, <1>7, <1>9, <1>14, <1>20, ReenterStep DEF Refines

LEMMA OperandReturnRefined == ASSUME SInv, OperandReturns PROVE Refines
<1>1. calls # <<>> /\ Top.op = "operand" /\ GoodStack(calls) /\ EnvFits(calls, env)
  BY DEF OperandReturns, Resumes, SInv, VInv
<1>2. CASE \E p \in Pid :
             /\ value = Promise(p)
             /\ IsForced(p) /\ Pops /\ Return(promise[p].value) /\ UNCHANGED <<Heap, env, fault>>
  BY <1>1, <1>2, ForcedRefined
<1>3. CASE \E p \in Pid :
             /\ value = Promise(p) /\ ~IsForced(p)
             /\ Replace([Call("force") EXCEPT !.p = p, !.env = env])
             /\ env' = <<promise[p].scope>> \o env
             /\ turn' = "eval" /\ value' = None /\ UNCHANGED <<Heap, fault>>
  BY <1>1, <1>3, UnforcedRefined
<1>4. CASE Error(calls)  BY <1>1, <1>4, ErrorRefined
<1> QED  BY <1>2, <1>3, <1>4 DEF OperandReturns

LEMMA NextRefined == ASSUME SInv, Next PROVE Refines
<1>1. CASE Expression
  BY <1>1, ValuesRefined, OperandsRefined, ReferencesRefined, DelayRefined, DefineRefined,
     LetRefined, LetStarRefined
  DEF Expression
<1>2. CASE Resume
  BY <1>2, SetRefined, DefineRefined, BindingRefined, ValuesRefined, BeginRefined,
     LeaveScopeRefined, EagerRefined, OperatorRefined, OperandReturnRefined, ForceRefined
  DEF Resume
<1> QED  BY <1>1, <1>2, ValuesRefined, BindRefined DEF Next

(***************************************************************************)
(* The refinement                                                          *)
(***************************************************************************)
LEMMA PlacedNext == AllPlaced(calls, env, outer)' <=> AllPlaced(calls', env', outer')
BY DEF AllPlaced, Placed, EnclosingIn, EnteredAfter, Around, Entered, EnvPushed

LEMMA StepRefines ==
  ASSUME SInv, [Next]_vars
  PROVE  SInv' /\ [Scopes!Next]_(Scopes!vars)
<1>1. VInv'  BY Step DEF SInv
<1>2. CASE Next
  <2>1. Scopes!Next /\ AllPlaced(calls', env', outer')  BY <1>2, NextRefined DEF Refines
  <2> QED  BY <1>1, <2>1, PlacedNext DEF SInv
<1>3. CASE UNCHANGED vars
  <2>1. /\ UNCHANGED <<table, outer, env, calls>>
        /\ UNCHANGED Heap /\ UNCHANGED <<value, promise>>
    BY <1>3 DEF vars, Heap
  <2>2. AllPlaced(calls', env', outer')  BY <2>1 DEF SInv
  <2>3. UNCHANGED Filling  BY <2>1, FillingIs
  <2>4. UNCHANGED MadeIn
    BY <2>1 DEF MadeIn, MadeInScope, Reachable, Garbage, Roots, Refers, Held
  <2>5. UNCHANGED Scopes!vars  BY <2>1, <2>3, <2>4 DEF Scopes!vars
  <2> QED  BY <1>1, <2>2, <2>5, PlacedNext DEF SInv
<1> QED  BY <1>2, <1>3

LEMMA InitRefines == Init => SInv /\ Scopes!Init
<1> SUFFICES ASSUME Init PROVE SInv /\ Scopes!Init  OBVIOUS
<1>1. /\ calls = <<>> /\ env = <<Global>> /\ value = None
      /\ table = [f \in Frame |-> NewTable] /\ outer = [f \in Frame |-> Nowhere]
  BY DEF Init
<1>2. VInv  BY Initially
<1>3. AllPlaced(calls, env, outer)  BY <1>1 DEF AllPlaced
<1>4. Filling = Scopes!NonePending
  <2>1. Depths(<<>>) = {}  BY DEF Depths
  <2> QED  BY <1>1, <2>1, FillingIs DEF Surrounding, Scopes!NonePending
<1>5. \A x \in Reachable : x = Ref(Global)
  <2> DEFINE U == Node \ {Ref(Global)}
  <2>1. Global \in Frame /\ Nowhere \notin Frame  BY <1>2, InForce, NewCallsHold
  <2>2. \A x \in Roots \cap Node : x = Ref(Global)
    <3>1. Holding(calls) = {}  BY <1>1 DEF Holding
    <3>2. \A i \in DOMAIN env : env[i] = Global  BY <1>1
    <3> QED  BY <1>1, <3>1, <3>2, RootsAre, Nodes
  <2>3. \A y \in Refers(Ref(Global)) : y \notin Node
    <3>1. Refers(Ref(Global)) = {Ref(Nowhere)} \cup {NewTable[v] : v \in Var}
      BY <1>1, <2>1, RefersTo
    <3> QED  BY <3>1, Nodes, NewCallsHold
  <2>4. U \in SUBSET (Node \ Roots)  BY <2>2
  <2>5. \A x \in Node \ U : \A y \in Refers(x) : y \notin U  BY <2>3
  <2> HIDE DEF U
  <2>6. U \subseteq Garbage  BY <2>4, <2>5 DEF Garbage
  <2> QED  BY <2>6 DEF Reachable, U
<1>6. MadeIn = {}
  <2>1. \A f, g : Fun(f) # Ref(g) /\ Promise(f) # Ref(g)  BY DEF Fun, Promise, Ref
  <2>2. (\A f : Fun(f) \notin Reachable) /\ \A p : Promise(p) \notin Reachable
    BY <1>5, <2>1
  <2>3. \A s : s \notin MadeIn  BY <2>2, MadeInIs
  <2> QED  BY <2>3
<1>7. Scopes!Init
  BY <1>1, <1>4, <1>6 DEF Scopes!Init, NewTable
<1> QED  BY <1>2, <1>3, <1>7 DEF SInv

\* The frames, slots and saved environments of the C code implement LexicalScope,
\* which says what is bound where, what encloses a scope, which scope is in force
\* and which ones are captured: quuz-lib.c:18, :149, :180, :390, :433, :487, :506,
\* :718 and quuz-state.c:146, :272.
THEOREM VariablesImplementScopes == Spec => ImplementsScopes
<1>1. Init => SInv /\ Scopes!Init  BY InitRefines
<1>2. SInv /\ [Next]_vars => SInv' /\ [Scopes!Next]_(Scopes!vars)  BY StepRefines
<1> QED  BY <1>1, <1>2, PTL DEF Spec, ImplementsScopes, Scopes!Spec
===============================================================================
