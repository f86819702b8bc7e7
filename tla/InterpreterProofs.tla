--------------------------- MODULE InterpreterProofs ---------------------------
(***************************************************************************)
(* The evaluator keeps its promises for every program, every depth of the  *)
(* C stack and every size of the safety buffer, if each function keeps the *)
(* rules of ownership: proofs by TLAPS.                                    *)
(***************************************************************************)
EXTENDS Ownership, FiniteSetTheorems, WellFoundedInduction, TLAPS

(***************************************************************************)
(* Functions and the C stack.                                              *)
(***************************************************************************)

(* What every function of the program does by itself.                      *)
LEMMA Rules ==
  ASSUME NEW f \in Known
  PROVE  /\ Entered \in Locals[f]
         /\ \A l \in Locals[f] : KeepsRules(f, l) /\ l \in LocalType
         /\ \A l \in Locals[f] : \A m \in Moves(f, l) : m \in Locals[f]
  BY OwnershipAssumption DEF KeepsRules

\* the innermost call goes on as t
Continues(t) ==
  /\ calls # <<>> /\ calls' = With(t)
  /\ t \in CallType
  /\ t.fn = Top.fn /\ t.id = Top.id /\ t.dest = Top.dest /\ t.from = Top.from
  /\ t.safeCall = Top.safeCall

LEMMA TopCall ==
  ASSUME Types, calls # <<>>
  PROVE  /\ Top = calls[1] /\ Top \in CallType /\ 1 \in DOMAIN calls
         /\ Len(calls) \in Nat \ {0} /\ DOMAIN calls = 1 .. Len(calls)
         /\ \A k \in DOMAIN calls : calls[k] \in CallType
         /\ Tail(calls) \in Seq(CallType) /\ Len(Tail(calls)) = Len(calls) - 1
         /\ \A k \in 1 .. Len(calls) - 1 : Tail(calls)[k] = calls[k + 1]
  BY DEF Types, Top

LEMMA Continued ==
  ASSUME Types, NEW t, Continues(t)
  PROVE  /\ calls' \in Seq(CallType) /\ Len(calls') = Len(calls)
         /\ DOMAIN calls' = DOMAIN calls
         /\ calls'[1] = t /\ Top' = t /\ calls' # <<>>
         /\ \A k \in DOMAIN calls : k # 1 => calls'[k] = calls[k]
         /\ LiveIds(calls') = LiveIds(calls)
<1>1. /\ t \in CallType /\ calls' = <<t>> \o Tail(calls) /\ calls # <<>>
      /\ t.id = calls[1].id
  BY TopCall DEF Continues, With
<1>2. /\ Tail(calls) \in Seq(CallType) /\ Len(Tail(calls)) = Len(calls) - 1
      /\ \A k \in 1 .. Len(calls) - 1 : Tail(calls)[k] = calls[k + 1]
      /\ Len(calls) \in Nat \ {0} /\ DOMAIN calls = 1 .. Len(calls)
  BY <1>1, TopCall
<1>3. /\ calls' \in Seq(CallType) /\ Len(calls') = Len(calls)
      /\ calls'[1] = t
      /\ \A k \in 2 .. Len(calls) : calls'[k] = Tail(calls)[k - 1]
  BY <1>1, <1>2
<1>4. DOMAIN calls' = DOMAIN calls
  BY <1>2, <1>3
<1>5. \A k \in DOMAIN calls : k # 1 => calls'[k] = calls[k]
  BY <1>2, <1>3
<1>6. \A k \in DOMAIN calls : calls'[k].id = calls[k].id
  BY <1>1, <1>2, <1>3, <1>5
<1>7. LiveIds(calls') = LiveIds(calls)
  BY <1>4, <1>6 DEF LiveIds
<1> QED
  BY <1>2, <1>3, <1>4, <1>5, <1>7 DEF Top

(***************************************************************************)
(* The parts of the invariant when the innermost call goes on.             *)
(***************************************************************************)

(* The state of the innermost call by itself.                              *)
LEMMA TopState ==
  ASSUME Types, FrameInv, calls # <<>>
  PROVE  \E l \in Locals[Top.fn] :
           HeldNow(Top, l) /\ PushedNow(Top, l, Len(safety)) /\ EnvNow(Top, l)
  BY TopCall DEF FrameInv, EndOf

(* What a call below the innermost one has in the buffer is below the part *)
(* of the innermost one.                                                   *)
LEMMA BelowTop ==
  ASSUME Types, FrameInv, NEW k \in DOMAIN calls, k # 1
  PROVE  EndOf(k) <= Top.from[2] /\ Top.from[2] <= Len(safety) /\ EndOf(k) \in Nat
<1>1. calls # <<>> /\ k \in 2 .. Len(calls) /\ k - 1 \in DOMAIN calls
  BY DEF Types
<1>2. EndOf(k) = calls[k - 1].from[2]
  BY <1>1 DEF EndOf
<1>3. calls[k - 1] \in CallType /\ calls[k - 1].from[2] \in Nat
  <2>1. calls[k - 1] \in CallType
    BY <1>1 DEF Types
  <2>2. calls[k - 1].from \in Seq(Ref) \X Nat \X Nat \X AnyRef
    BY <2>1 DEF CallType
  <2> QED
    BY <2>1, <2>2
<1>4. Top = calls[1] /\ 1 \in DOMAIN calls
  BY <1>1, TopCall
<1>5. EndOf(k) <= Top.from[2]
  <2>1. CASE k = 2
    BY <1>2, <1>3, <1>4, <2>1
  <2>2. CASE k # 2
    BY <1>1, <1>2, <1>4, <2>2 DEF FrameInv
  <2> QED
    BY <2>1, <2>2
<1>6. PICK l \in Locals[Top.fn] : PushedNow(Top, l, Len(safety)) /\ EnvNow(Top, l)
  BY <1>1, TopState
<1>7. Top.from[2] \in Nat
  BY <1>1, TopCall DEF CallType
<1>8. Len(l.pushed) \in Nat
  <2>1. Top.fn \in Known
    BY <1>1, TopCall DEF CallType
  <2>2. l \in Locals[Top.fn]
    BY <1>6
  <2> QED
    BY <2>1, <2>2, Rules DEF LocalType
<1> QED
  BY <1>2, <1>3, <1>5, <1>6, <1>7, <1>8 DEF PushedNow

(* The types of a call.                                                    *)
LEMMA CallTypes ==
  ASSUME NEW c \in CallType
  PROVE  /\ c.fn \in Known /\ c.pc \in Int /\ c.id \in Nat \ {0} /\ c.dest \in Name
         /\ c.base \in 0 .. Capacity /\ c.oldEnv \in Seq(Ref) /\ c.fail \in Nat
         /\ c.saved \in AnyRef
         /\ c.from[1] \in Seq(Ref) /\ c.from[2] \in Nat /\ c.from[3] \in Nat
         /\ c.from[4] \in AnyRef
<1>1. /\ c.fn \in Known /\ c.pc \in Int /\ c.id \in Nat \ {0} /\ c.dest \in Name
      /\ c.base \in 0 .. Capacity /\ c.oldEnv \in Seq(Ref) /\ c.fail \in Nat
      /\ c.saved \in AnyRef
      /\ c.from \in Seq(Ref) \X Nat \X Nat \X AnyRef
  BY DEF CallType
<1> QED
  BY <1>1

(* Above it the buffer has nothing of a call below.                        *)
LEMMA AboveTop ==
  ASSUME Types, FrameInv, calls # <<>>
  PROVE  \A n \in DOMAIN safety, k \in DOMAIN calls :
           Top.from[2] < n /\ k # 1 => safety[n][1] # calls[k].id
<1> SUFFICES ASSUME NEW n \in DOMAIN safety, NEW k \in DOMAIN calls, Top.from[2] < n, k # 1
             PROVE  safety[n][1] # calls[k].id
  OBVIOUS
<1>1. PICK m \in Locals[calls[k].fn] : PushedNow(calls[k], m, EndOf(k))
  BY DEF FrameInv
<1>2. EndOf(k) <= Top.from[2] /\ EndOf(k) \in Nat
  BY BelowTop
<1>3. calls[k].from[2] \in Nat /\ calls[k].fn \in Known /\ Top.from[2] \in Nat
      /\ n \in Nat
  BY TopCall, CallTypes DEF Types
<1>4. Len(m.pushed) \in Nat
  BY <1>1, <1>3, Rules DEF LocalType
<1>5. calls[k].from[2] + Len(m.pushed) <= EndOf(k)
  BY <1>1 DEF PushedNow
<1>6. ~ (n \in calls[k].from[2] + 1 .. calls[k].from[2] + Len(m.pushed))
  BY <1>2, <1>3, <1>4, <1>5
<1> QED
  BY <1>1, <1>6 DEF PushedNow

\* a call that is not the innermost keeps its environments
EnvsKept ==
  \A k \in DOMAIN calls : \A c, l :
    k # 1 /\ c = calls[k] /\ EnvNow(c, l) => EnvNow(c, l)'

\* only references of the innermost call, and of dead calls, change
OnlyOwn ==
  \A o : o[1] # Top.id =>
    /\ o \in held' \ {errorObj'} => o \in held \ {errorObj}
    /\ o \in held \ {errorObj} /\ o[1] \in LiveIds(calls) => o \in held' \ {errorObj'}
    /\ o \in gone' <=> o \in gone

\* the buffer is as it was below the part of the innermost call, and has
\* nothing of another call above
OnlyAbove ==
  /\ safety' \in Seq(Ref) /\ Top.from[2] <= Len(safety')
  /\ \A n \in 1 .. Top.from[2] : safety'[n] = safety[n]
  /\ \A n \in DOMAIN safety', k \in DOMAIN calls :
       Top.from[2] < n /\ k # 1 => safety'[n][1] # calls[k].id

LEMMA FramesContinue ==
  ASSUME Types, RefInv, FrameInv, NEW t, Continues(t),
         NEW l2 \in Locals[t.fn],
         HeldNow(t, l2)', PushedNow(t, l2, Len(safety))', EnvNow(t, l2)',
         OnlyOwn, OnlyAbove, EnvsKept
  PROVE  FrameInv'
<1>1. /\ DOMAIN calls' = DOMAIN calls /\ calls'[1] = t /\ Top' = t
      /\ \A k \in DOMAIN calls : k # 1 => calls'[k] = calls[k]
  BY Continued
<1>2. /\ Top = calls[1] /\ 1 \in DOMAIN calls /\ t.from = Top.from /\ t.id = Top.id
      /\ calls # <<>>
  BY TopCall DEF Continues
<1>3. \A k \in DOMAIN calls : calls'[k].from = calls[k].from
  BY <1>1, <1>2
<1>4. \A j, k \in DOMAIN calls' : j < k => calls'[k].from[2] <= calls'[j].from[2]
  BY <1>1, <1>3 DEF FrameInv
<1>5. ASSUME NEW k \in DOMAIN calls, k # 1
      PROVE  \E l \in Locals[calls'[k].fn] :
               (HeldNow(calls[k], l) /\ PushedNow(calls[k], l, EndOf(k)) /\ EnvNow(calls[k], l))'
  <2>1. PICK l \in Locals[calls[k].fn] :
          HeldNow(calls[k], l) /\ PushedNow(calls[k], l, EndOf(k)) /\ EnvNow(calls[k], l)
    BY DEF FrameInv
  <2>2. calls'[k] = calls[k] /\ calls[k].id # Top.id
    BY <1>1, <1>2, <1>5 DEF RefInv
  <2>3. calls[k] \in CallType /\ calls[k].from[2] \in Nat /\ calls[k].fn \in Known
    BY <1>2, TopCall, CallTypes
  <2>4. l \in LocalType /\ Len(l.pushed) \in Nat
    BY <2>1, <2>3, Rules DEF LocalType
  <2>5. EndOf(k)' = EndOf(k)
    <3>1. k - 1 \in DOMAIN calls
      BY <1>5 DEF Types
    <3> QED
      BY <1>3, <1>5, <3>1 DEF EndOf
  <2>6. EndOf(k) <= Top.from[2] /\ EndOf(k) \in Nat /\ Top.from[2] \in Nat
        /\ Top.from[2] <= Len(safety)
    BY <1>2, <1>5, BelowTop, TopCall, CallTypes
  <2>7. HeldNow(calls[k], l)'
    <3>1. calls[k].id \in LiveIds(calls)
      BY DEF LiveIds
    <3> QED
      BY <2>1, <2>2, <3>1 DEF HeldNow, OnlyOwn
  <2>8. EnvNow(calls[k], l)'
    BY <1>5, <2>1, <2>2 DEF EnvsKept
  <2>9. PushedNow(calls[k], l, EndOf(k))'
    <3>1. /\ calls[k].from[2] + Len(l.pushed) <= EndOf(k)
          /\ ~ MayHoldDead(calls[k]) => calls[k].from[2] + Len(l.pushed) = EndOf(k)
          /\ l.saved => calls[k].base = calls[k].from[2]
      BY <2>1 DEF PushedNow
    <3>2. MayHoldDead(calls[k])' <=> MayHoldDead(calls[k])
      BY <2>2 DEF MayHoldDead, Now
    <3>3. \A j \in 1 .. Len(l.pushed) : safety'[calls[k].from[2] + j] = <<calls[k].id, l.pushed[j]>>
      <4> SUFFICES ASSUME NEW j \in 1 .. Len(l.pushed)
                   PROVE  safety'[calls[k].from[2] + j] = <<calls[k].id, l.pushed[j]>>
        OBVIOUS
      <4>1. calls[k].from[2] + j \in 1 .. Top.from[2]
        BY <2>3, <2>4, <2>6, <3>1, SMTT(60)
      <4>2. safety[calls[k].from[2] + j] = <<calls[k].id, l.pushed[j]>>
        BY <2>1 DEF PushedNow
      <4> QED
        BY <4>1, <4>2 DEF OnlyAbove
    <3>4. \A n \in DOMAIN safety' : safety'[n][1] = calls[k].id =>
            n \in calls[k].from[2] + 1 .. calls[k].from[2] + Len(l.pushed)
      <4> SUFFICES ASSUME NEW n \in DOMAIN safety', safety'[n][1] = calls[k].id
                   PROVE  n \in calls[k].from[2] + 1 .. calls[k].from[2] + Len(l.pushed)
        OBVIOUS
      <4>1. n \in Nat /\ n >= 1
        BY DEF OnlyAbove
      <4>2. n <= Top.from[2]
        BY <1>5, <2>6, <4>1 DEF OnlyAbove
      <4>3. safety'[n] = safety[n]
        BY <2>6, <4>1, <4>2 DEF OnlyAbove
      <4>4. n \in DOMAIN safety
        BY <2>6, <4>1, <4>2 DEF Types
      <4> QED
        BY <2>1, <4>3, <4>4 DEF PushedNow
    <3> QED
      BY <2>2, <2>5, <3>1, <3>2, <3>3, <3>4 DEF PushedNow
  <2> QED
    BY <2>1, <2>2, <2>7, <2>8, <2>9
<1>6. EndOf(1)' = Len(safety')
  BY DEF EndOf
<1>7. \E l \in Locals[calls'[1].fn] :
        (HeldNow(t, l) /\ PushedNow(t, l, EndOf(1)) /\ EnvNow(t, l))'
  BY <1>1, <1>6
<1>8. \A k \in DOMAIN calls' :
        \E l \in Locals[calls'[k].fn] :
          (HeldNow(calls[k], l) /\ PushedNow(calls[k], l, EndOf(k)) /\ EnvNow(calls[k], l))'
  <2> SUFFICES ASSUME NEW k \in DOMAIN calls'
               PROVE  \E l \in Locals[calls'[k].fn] :
                        (HeldNow(calls[k], l) /\ PushedNow(calls[k], l, EndOf(k)) /\ EnvNow(calls[k], l))'
    OBVIOUS
  <2>1. CASE k = 1
    BY <1>1, <1>7, <2>1, ZenonT(60) DEF HeldNow, PushedNow, EnvNow, Depth, MayHoldDead, Now
  <2>2. CASE k # 1
    BY <1>1, <1>5, <2>2
  <2> QED
    BY <2>1, <2>2
<1> QED
  BY <1>4, <1>8 DEF FrameInv

(***************************************************************************)
(* The environments.                                                       *)
(***************************************************************************)

(* Sequences without some first elements, with one more or one less in     *)
(* front.                                                                  *)
LEMMA SubSeqPush ==
  ASSUME NEW S, NEW s \in Seq(S), NEW x \in S, NEW d \in Nat, d <= Len(s)
  PROVE  SubSeq(<<x>> \o s, d + 2, Len(s) + 1) = SubSeq(s, d + 1, Len(s))
<1> DEFINE r == <<x>> \o s
           u == SubSeq(r, d + 2, Len(s) + 1)
           v == SubSeq(s, d + 1, Len(s))
<1>1. /\ Len(s) \in Nat /\ r \in Seq(S) /\ Len(r) = Len(s) + 1
      /\ \A i \in 1 .. Len(s) : r[i + 1] = s[i]
  OBVIOUS
<1> HIDE DEF r
<1>2. /\ u \in Seq(S) /\ v \in Seq(S) /\ Len(u) = Len(s) - d /\ Len(v) = Len(s) - d
      /\ \A i \in 1 .. Len(s) - d : u[i] = r[d + 1 + i] /\ v[i] = s[d + i]
  BY <1>1
<1>3. \A i \in 1 .. Len(s) - d : u[i] = v[i]
  <2> TAKE i \in 1 .. Len(s) - d
  <2>1. d + i \in 1 .. Len(s) /\ d + 1 + i = (d + i) + 1
    BY <1>1
  <2> QED
    BY <1>1, <1>2, <2>1
<1> HIDE DEF u, v
<1>4. /\ Len(s) - d \in Nat /\ u = [i \in 1 .. Len(s) - d |-> u[i]]
      /\ v = [i \in 1 .. Len(s) - d |-> v[i]]
  BY <1>1, <1>2
<1>5. u = v
  BY <1>3, <1>4
<1> QED
  BY <1>5 DEF r, u, v

LEMMA SubSeqPop ==
  ASSUME NEW S, NEW s \in Seq(S), NEW d \in Nat, 0 < d, d <= Len(s)
  PROVE  SubSeq(Tail(s), d, Len(s) - 1) = SubSeq(s, d + 1, Len(s))
<1> DEFINE r == Tail(s)
           u == SubSeq(r, d, Len(s) - 1)
           v == SubSeq(s, d + 1, Len(s))
<1>1. /\ Len(s) \in Nat \ {0} /\ r \in Seq(S) /\ Len(r) = Len(s) - 1
      /\ \A i \in 1 .. Len(s) - 1 : r[i] = s[i + 1]
  OBVIOUS
<1> HIDE DEF r
<1>2. /\ u \in Seq(S) /\ v \in Seq(S) /\ Len(u) = Len(s) - d /\ Len(v) = Len(s) - d
      /\ \A i \in 1 .. Len(s) - d : u[i] = r[d - 1 + i] /\ v[i] = s[d + i]
  <2>1. d \in 1 .. Len(s) + 1 /\ Len(s) - 1 \in 0 .. Len(s)
    BY <1>1
  <2>2. v \in Seq(S) /\ Len(v) = Len(s) - d /\ \A i \in 1 .. Len(s) - d : v[i] = s[d + i]
    BY <1>1
  <2>3. u \in Seq(S) /\ Len(u) = Len(s) - d
    BY <1>1, <2>1
  <2>4. \A i \in 1 .. Len(s) - d : u[i] = r[d + i - 1]
    BY <1>1, <2>1
  <2> QED
    BY <1>1, <2>2, <2>3, <2>4
<1>3. \A i \in 1 .. Len(s) - d : u[i] = v[i]
  <2> TAKE i \in 1 .. Len(s) - d
  <2>1. d - 1 + i \in 1 .. Len(s) - 1 /\ (d - 1 + i) + 1 = d + i
    BY <1>1
  <2> QED
    BY <1>1, <1>2, <2>1
<1> HIDE DEF u, v
<1>4. /\ Len(s) - d \in Nat /\ u = [i \in 1 .. Len(s) - d |-> u[i]]
      /\ v = [i \in 1 .. Len(s) - d |-> v[i]]
  BY <1>1, <1>2
<1>5. u = v
  BY <1>3, <1>4
<1> QED
  BY <1>5 DEF r, u, v

(* None is pushed or popped.                                               *)
LEMMA EnvNowStays ==
  ASSUME NEW c, NEW l, EnvNow(c, l), env' = env,
         \A n \in 1 .. c.from[2] : safety'[n] = safety[n]
  PROVE  EnvNow(c, l)'
<1>1. Depth(c)' = Depth(c)
  BY DEF Depth
<1> QED
  BY <1>1 DEF EnvNow

(* One is pushed.                                                          *)
LEMMA EnvNowPush ==
  ASSUME env \in Seq(Ref), NEW c \in CallType, NEW l, EnvNow(c, l),
         NEW x \in Ref, env' = <<x>> \o env,
         \A n \in 1 .. c.from[2] : safety'[n] = safety[n] /\ safety[n] # x
  PROVE  EnvNow(c, l)'
<1>1. c.from[1] \in Seq(Ref) /\ c.from[2] \in Nat /\ Len(c.from[1]) \in Nat
  BY CallTypes
<1>2. /\ Len(env) \in Nat /\ Len(env') = Len(env) + 1 /\ env'[1] = x
      /\ \A i \in 1 .. Len(env) : env'[i + 1] = env[i]
      /\ DOMAIN env = 1 .. Len(env) /\ DOMAIN env' = 1 .. Len(env) + 1
      /\ env' \in Seq(Ref)
  OBVIOUS
<1>3. Depth(c)' = Depth(c) + 1 /\ Depth(c) \in Nat /\ Depth(c) <= Len(env)
  BY <1>1, <1>2 DEF Depth, EnvNow
<1>4. SubSeq(env', Depth(c) + 2, Len(env')) = SubSeq(env, Depth(c) + 1, Len(env))
  BY <1>2, <1>3, SubSeqPush, SMTT(60)
<1>5. \A i \in DOMAIN env' :
        i > Depth(c) + 1 <=> \E n \in 1 .. c.from[2] : safety'[n] = env'[i]
  <2> TAKE i \in DOMAIN env'
  <2>1. CASE i = 1
    BY <1>2, <1>3, <2>1, SMTT(60)
  <2>2. CASE i # 1
    <3>1. i - 1 \in DOMAIN env /\ env'[i] = env[i - 1] /\ i \in Nat
      BY <1>2, <2>2
    <3>2. i - 1 > Depth(c) <=> \E n \in 1 .. c.from[2] : safety[n] = env[i - 1]
      BY <3>1 DEF EnvNow
    <3>3. i > Depth(c) + 1 <=> i - 1 > Depth(c)
      BY <1>3, <3>1
    <3> QED
      BY <3>1, <3>2, <3>3
  <2> QED
    BY <2>1, <2>2
<1>6. ASSUME l.inEnv
      PROVE  /\ Depth(c) + 1 > 0 /\ env'[Depth(c) + 1] = <<c.id, "env">>
             /\ c.oldEnv = c.from[1]
  <2>1. Depth(c) > 0 /\ env[Depth(c)] = <<c.id, "env">> /\ c.oldEnv = c.from[1]
    BY <1>6 DEF EnvNow
  <2> QED
    BY <1>2, <1>3, <2>1
<1>7. c.from[1] = SubSeq(env, Depth(c) + 1, Len(env))
  BY DEF EnvNow
<1>8. /\ Depth(c)' >= 0
      /\ c.from[1] = SubSeq(env', Depth(c)' + 1, Len(env'))
  BY <1>3, <1>4, <1>7, SMTT(60)
<1> QED
  BY <1>3, <1>5, <1>6, <1>8 DEF EnvNow

(* One is popped that was pushed after the call began.                     *)
LEMMA EnvNowPop ==
  ASSUME env \in Seq(Ref), env # <<>>, NEW c \in CallType, NEW l, EnvNow(c, l),
         env' = Tail(env), l.inEnv => env[1] # <<c.id, "env">>,
         \A n \in 1 .. c.from[2] : safety'[n] = safety[n] /\ safety[n] # env[1]
  PROVE  EnvNow(c, l)'
<1>1. c.from[1] \in Seq(Ref) /\ c.from[2] \in Nat /\ Len(c.from[1]) \in Nat
  BY CallTypes
<1>2. /\ Len(env) \in Nat \ {0} /\ Len(env') = Len(env) - 1
      /\ \A i \in 1 .. Len(env) - 1 : env'[i] = env[i + 1]
      /\ DOMAIN env = 1 .. Len(env) /\ DOMAIN env' = 1 .. Len(env) - 1
      /\ env' \in Seq(Ref)
  OBVIOUS
<1>3. Depth(c)' = Depth(c) - 1 /\ Depth(c) \in Nat /\ Depth(c) <= Len(env)
  BY <1>1, <1>2 DEF Depth, EnvNow
<1>4. Depth(c) > 0
  <2>1. 1 \in DOMAIN env /\ ~ (\E n \in 1 .. c.from[2] : safety[n] = env[1])
    BY <1>2
  <2>2. ~ (1 > Depth(c))
    BY <2>1 DEF EnvNow
  <2> QED
    BY <1>3, <2>2
<1>5. SubSeq(env', Depth(c), Len(env')) = SubSeq(env, Depth(c) + 1, Len(env))
  BY <1>2, <1>3, <1>4, SubSeqPop
<1>6. \A i \in DOMAIN env' :
        i > Depth(c) - 1 <=> \E n \in 1 .. c.from[2] : safety'[n] = env'[i]
  <2> TAKE i \in DOMAIN env'
  <2>1. i + 1 \in DOMAIN env /\ env'[i] = env[i + 1] /\ i \in Nat
    BY <1>2
  <2>2. i + 1 > Depth(c) <=> \E n \in 1 .. c.from[2] : safety[n] = env[i + 1]
    BY <2>1 DEF EnvNow
  <2>3. i > Depth(c) - 1 <=> i + 1 > Depth(c)
    BY <1>3, <2>1
  <2> QED
    BY <2>1, <2>2, <2>3
<1>7. ASSUME l.inEnv
      PROVE  /\ Depth(c) - 1 > 0 /\ env'[Depth(c) - 1] = <<c.id, "env">>
             /\ c.oldEnv = c.from[1]
  <2>1. Depth(c) > 0 /\ env[Depth(c)] = <<c.id, "env">> /\ c.oldEnv = c.from[1]
    BY <1>7 DEF EnvNow
  <2>2. Depth(c) # 1
    BY <1>7, <2>1
  <2>3. Depth(c) - 1 \in 1 .. Len(env) - 1 /\ (Depth(c) - 1) + 1 = Depth(c)
    BY <1>2, <1>3, <2>1, <2>2
  <2>4. env'[Depth(c) - 1] = env[Depth(c)]
    BY <1>2, <2>3
  <2> QED
    BY <2>1, <2>3, <2>4
<1>8. c.from[1] = SubSeq(env, Depth(c) + 1, Len(env))
  BY DEF EnvNow
<1>9. /\ Depth(c)' >= 0
      /\ c.from[1] = SubSeq(env', Depth(c)' + 1, Len(env'))
  <2> SUFFICES ASSUME NEW d, d = Depth(c)'
               PROVE  d >= 0 /\ c.from[1] = SubSeq(env', d + 1, Len(env'))
    OBVIOUS
  <2>1. d + 1 = Depth(c) /\ d >= 0
    BY <1>3, <1>4
  <2> QED
    BY <1>5, <1>8, <2>1
<1> QED
  BY <1>3, <1>6, <1>7, <1>9 DEF EnvNow

(* The environments of the calls below the innermost one.                  *)
LEMMA EnvsStay ==
  ASSUME Types, FrameInv, calls # <<>>, OnlyAbove, env' = env
  PROVE  EnvsKept
<1> SUFFICES ASSUME NEW k \in DOMAIN calls, NEW c, NEW l, k # 1, c = calls[k], EnvNow(c, l)
             PROVE  EnvNow(c, l)'
  BY DEF EnvsKept
<1>1. /\ calls[k] \in CallType /\ Top = calls[1] /\ Top \in CallType /\ 1 \in DOMAIN calls
      /\ 1 < k
  BY TopCall
<1>2. calls[k].from[2] \in Nat /\ Top.from[2] \in Nat
  BY <1>1, CallTypes
<1>3. calls[k].from[2] <= Top.from[2]
  BY <1>1 DEF FrameInv
<1>4. \A n \in 1 .. c.from[2] : safety'[n] = safety[n]
  BY <1>2, <1>3 DEF OnlyAbove
<1> QED
  BY <1>4, EnvNowStays

(* The environments that the innermost call has pushed: at most one.       *)
LEMMA EnvOfTop ==
  ASSUME Types, EnvInv, PendInv, calls # <<>>,
         NEW l \in Locals[Top.fn],
         HeldNow(Top, l), PushedNow(Top, l, Len(safety)), EnvNow(Top, l),
         Len(safety) = Top.from[2] + Len(l.pushed)
  PROVE  /\ l.inEnv => /\ Depth(Top) = 1 /\ env # <<>> /\ Head(env) = Obj("env")
                       /\ env[1] = Obj("env") /\ Top.from[1] = Tail(env)
         /\ ~ l.inEnv => Depth(Top) = 0 /\ Top.from[1] = env
<1>1. /\ Top \in CallType /\ Top.fn \in Known /\ Top.from[2] \in Nat
      /\ Top.from[1] \in Seq(Ref) /\ env \in Seq(Ref) /\ safety \in Seq(Ref)
  BY TopCall, CallTypes DEF Types
<1>2. KeepsRules(Top.fn, l) /\ l \in LocalType /\ Len(l.pushed) \in Nat
  BY <1>1, Rules DEF LocalType
<1>3. Depth(Top) \in Nat /\ Depth(Top) <= Len(env) /\ Len(env) \in Nat
  BY <1>1 DEF EnvNow, Depth
<1>4. errorObj[2] # "env"
  BY DEF PendInv, NoObj
<1>5. ASSUME NEW i \in 1 .. Depth(Top)
      PROVE  env[i] = Obj("env") /\ l.inEnv
  <2>1. i \in DOMAIN env /\ ~ (i > Depth(Top))
    BY <1>1, <1>3
  <2>2. \A n \in 1 .. Top.from[2] : safety[n] # env[i]
    BY <2>1 DEF EnvNow
  <2>3. CASE env[i] \in ToSet(safety)
    <3>1. PICK n \in DOMAIN safety : safety[n] = env[i]
      BY <2>3 DEF ToSet
    <3>2. n \in 1 .. Len(safety) /\ n > Top.from[2]
      BY <1>1, <2>2, <3>1
    <3>3. n - Top.from[2] \in 1 .. Len(l.pushed)
      BY <1>1, <1>2, <3>2
    <3>4. safety[Top.from[2] + (n - Top.from[2])] = <<Top.id, l.pushed[n - Top.from[2]]>>
      BY <3>3 DEF PushedNow
    <3>5. env[i] = <<Top.id, l.pushed[n - Top.from[2]]>>
      BY <1>1, <3>1, <3>2, <3>4
    <3>6. l.pushed[n - Top.from[2]] = "env"
      BY <2>1, <3>5 DEF EnvInv
    <3>7. "env" \in ToSet(l.pushed)
      BY <1>2, <3>3, <3>6 DEF ToSet, LocalType
    <3> QED
      BY <1>2, <3>5, <3>6, <3>7 DEF KeepsRules, Obj
  <2>4. CASE env[i] = Obj("env") /\ env[i] \in held
    <3>1. env[i] \in {o \in held \ {errorObj} : o[1] = Top.id}
      BY <1>4, <2>4 DEF Obj
    <3>2. env[i] \in {Top.id} \X l.owns
      BY <3>1 DEF HeldNow
    <3>3. "env" \in l.owns
      BY <2>4, <3>2 DEF Obj
    <3> QED
      BY <1>2, <2>4, <3>3 DEF KeepsRules
  <2> QED
    BY <2>1, <2>3, <2>4 DEF EnvInv
<1>6. \A i, j \in 1 .. Depth(Top) : i = j
  <2> TAKE i, j \in 1 .. Depth(Top)
  <2>1. env[i] = env[j] /\ i \in DOMAIN env /\ j \in DOMAIN env
    BY <1>1, <1>3, <1>5
  <2> QED
    BY <2>1 DEF EnvInv
<1>7. Depth(Top) \in {0, 1}
  <2>1. ASSUME Depth(Top) > 1 PROVE FALSE
    <3>1. 1 \in 1 .. Depth(Top) /\ 2 \in 1 .. Depth(Top)
      BY <1>3, <2>1
    <3> QED
      BY <1>6, <3>1
  <2> QED
    BY <1>3, <2>1
<1>8. CASE Depth(Top) = 0
  <2>1. Top.from[1] = SubSeq(env, 1, Len(env))
    BY <1>8 DEF EnvNow
  <2>2. SubSeq(env, 1, Len(env)) = env
    BY <1>1
  <2>3. ~ l.inEnv
    BY <1>8 DEF EnvNow
  <2> QED
    BY <1>8, <2>1, <2>2, <2>3
<1>9. CASE Depth(Top) = 1
  <2>1. env[1] = Obj("env") /\ l.inEnv
    BY <1>5, <1>9
  <2>2. Top.from[1] = SubSeq(env, 2, Len(env))
    BY <1>9 DEF EnvNow
  <2>3. Len(env) >= 1 /\ env # <<>>
    BY <1>1, <1>3, <1>9
  <2>4. SubSeq(env, 2, Len(env)) = Tail(env) /\ Head(env) = env[1]
    BY <1>1, <2>3
  <2> QED
    BY <1>9, <2>1, <2>2, <2>3, <2>4
<1> QED
  BY <1>7, <1>8, <1>9

(***************************************************************************)
(* The longjmp targets, the handlers and the C stack.                      *)
(***************************************************************************)

(* The longjmp target is the innermost call if it is past its setjmp, and  *)
(* else what that call has found.                                          *)
LEMMA FailMoves ==
  ASSUME Types, FailInv, NEW t, Continues(t),
         InJump(t) => pevalFail' = t.id /\ t.fail = t.from[3],
         ~ InJump(t) => pevalFail' = t.from[3]
  PROVE  FailInv'
<1>1. /\ DOMAIN calls' = DOMAIN calls /\ Len(calls') = Len(calls) /\ calls'[1] = t
      /\ \A k \in DOMAIN calls : k # 1 => calls'[k] = calls[k]
      /\ DOMAIN calls = 1 .. Len(calls) /\ Len(calls) \in Nat \ {0}
  BY Continued, TopCall DEF Continues
<1>2. Top = calls[1] /\ t.from = Top.from /\ t.id = Top.id
  BY TopCall DEF Continues
<1>3. ASSUME NEW i \in Nat \ {0}, NEW k \in 1 .. Len(calls) + 1
      PROVE  NoJump(i, k)' <=> NoJump(i, k)
  <2>1. \A j \in i + 1 .. k - 1 : calls'[j] = calls[j]
    BY <1>1
  <2> QED
    BY <2>1 DEF NoJump
<1>4. ASSUME NEW k \in 2 .. Len(calls) + 1
      PROVE  FailBelow(k)' = FailBelow(k)
  <2>1. (k \in DOMAIN calls /\ k # 1) \/ k > Len(calls)
    BY <1>1
  <2> QED
    BY <1>1, <2>1 DEF FailBelow
<1>5. ASSUME NEW i \in DOMAIN calls, NEW k \in 1 .. Len(calls) + 1, i < k, NoJump(i, k)'
      PROVE  calls'[i].from[3] = FailBelow(k)'
  <2>1. k \in 2 .. Len(calls) + 1 /\ i \in Nat \ {0}
    BY <1>1, <1>5
  <2>2. NoJump(i, k) /\ FailBelow(k)' = FailBelow(k)
    BY <1>3, <1>4, <1>5, <2>1
  <2>3. calls[i].from[3] = FailBelow(k)
    BY <1>5, <2>2 DEF FailInv
  <2> QED
    BY <1>1, <1>2, <2>2, <2>3
<1>6. ASSUME NEW k \in 1 .. Len(calls) + 1, NoJump(0, k)'
      PROVE  pevalFail' = FailBelow(k)'
  <2>1. CASE k = 1
    BY <1>1, <2>1 DEF FailBelow
  <2>2. CASE k # 1
    <3>1. ~ InJump(t) /\ NoJump(1, k)'
      BY <1>1, <1>6, <2>2 DEF NoJump
    <3>2. calls'[1].from[3] = FailBelow(k)'
      BY <1>1, <1>5, <2>2, <3>1
    <3> QED
      BY <1>1, <3>1, <3>2
  <2> QED
    BY <2>1, <2>2
<1>7. \A k \in DOMAIN calls' : InJump(calls'[k]) => calls'[k].fail = calls'[k].from[3]
  BY <1>1 DEF FailInv
<1> QED
  BY <1>1, <1>5, <1>6, <1>7 DEF FailInv

LEMMA FailTop ==
  ASSUME Types, FailInv, calls # <<>>
  PROVE  /\ InJump(Top) => pevalFail = Top.id /\ Top.fail = Top.from[3]
         /\ ~ InJump(Top) => pevalFail = Top.from[3]
<1>1. Top = calls[1] /\ 1 \in DOMAIN calls /\ 1 \in 1 .. Len(calls) + 1 /\ ~ (1 > Len(calls))
  BY TopCall
<1>2. NoJump(0, 1)
  BY DEF NoJump
<1> QED
  BY <1>1, <1>2 DEF FailInv, FailBelow

(* The longjmp target when the innermost call leaves it alone.             *)
LEMMA FailContinues ==
  ASSUME Types, FailInv, NEW t, Continues(t),
         InJump(t) <=> InJump(Top), InJump(t) => t.fail = Top.fail,
         pevalFail' = pevalFail
  PROVE  FailInv'
<1>1. calls # <<>> /\ t.id = Top.id /\ t.from = Top.from
  BY DEF Continues
<1> QED
  BY <1>1, FailTop, FailMoves

(* The handler is the one that the innermost call has installed, or what   *)
(* that call has found.                                                    *)
LEMMA HandlerMoves ==
  ASSUME Types, RefInv, HandlerInv, NEW t, Continues(t),
         Around(t) => /\ t.saved = t.from[4]
                      /\ t.fn = "qz_peval" => handler' = Failsafe
                      /\ t.fn # "qz_peval" => handler'[1] = t.id /\ handler' \notin gone',
         ~ Around(t) => handler' = t.from[4],
         \A o \in gone' : o \in gone \/ o[1] = Top.id
  PROVE  HandlerInv'
<1>1. /\ DOMAIN calls' = DOMAIN calls /\ Len(calls') = Len(calls) /\ calls'[1] = t
      /\ \A k \in DOMAIN calls : k # 1 => calls'[k] = calls[k]
      /\ DOMAIN calls = 1 .. Len(calls) /\ Len(calls) \in Nat \ {0}
  BY Continued, TopCall DEF Continues
<1>2. Top = calls[1] /\ t.from = Top.from /\ t.id = Top.id
  BY TopCall DEF Continues
<1>3. ASSUME NEW i \in Nat \ {0}, NEW k \in 1 .. Len(calls) + 1
      PROVE  NoHandler(i, k)' <=> NoHandler(i, k)
  <2>1. \A j \in i + 1 .. k - 1 : calls'[j] = calls[j]
    BY <1>1
  <2> QED
    BY <2>1 DEF NoHandler
<1>4. ASSUME NEW k \in 2 .. Len(calls) + 1, NEW h, HandlerBelow(k, h)
      PROVE  HandlerBelow(k, h)'
  <2>1. CASE k > Len(calls)
    BY <1>1, <1>4, <2>1 DEF HandlerBelow
  <2>2. CASE ~ (k > Len(calls))
    <3>1. k \in DOMAIN calls /\ k # 1 /\ calls'[k] = calls[k] /\ 1 \in DOMAIN calls
      BY <1>1, <2>2
    <3>2. calls[k].id # Top.id
      BY <1>2, <3>1 DEF RefInv
    <3>3. h[1] = calls[k].id /\ h \notin gone => h \notin gone'
      BY <3>2
    <3> QED
      BY <1>1, <1>4, <2>2, <3>1, <3>3 DEF HandlerBelow
  <2> QED
    BY <2>1, <2>2
<1>5. ASSUME NEW i \in DOMAIN calls, NEW k \in 1 .. Len(calls) + 1, i < k, NoHandler(i, k)',
             NEW h, h = calls[i].from[4]
      PROVE  HandlerBelow(k, h)'
  <2>1. k \in 2 .. Len(calls) + 1 /\ i \in Nat \ {0}
    BY <1>1, <1>5
  <2>2. HandlerBelow(k, h)
    BY <1>3, <1>5, <2>1 DEF HandlerInv
  <2> QED
    BY <1>4, <2>1, <2>2
<1>6. ASSUME NEW k \in 1 .. Len(calls) + 1, NoHandler(0, k)', NEW h, h = handler'
      PROVE  HandlerBelow(k, h)'
  <2>1. CASE k = 1
    BY <1>1, <1>6, <2>1 DEF HandlerBelow
  <2>2. CASE k # 1
    <3>1. ~ Around(t) /\ NoHandler(1, k)'
      BY <1>1, <1>6, <2>2 DEF NoHandler
    <3>2. h = calls[1].from[4] /\ 1 \in DOMAIN calls /\ 1 < k
      BY <1>1, <1>2, <1>6, <2>2, <3>1
    <3> QED
      BY <1>5, <3>1, <3>2
  <2> QED
    BY <2>1, <2>2
<1>7. \A k \in DOMAIN calls' : Around(calls'[k]) => calls'[k].saved = calls'[k].from[4]
  BY <1>1 DEF HandlerInv
<1>8. \A k \in DOMAIN calls : calls'[k].from = calls[k].from
  BY <1>1, <1>2
<1>9. \A k \in 1 .. Len(calls') + 1 : NoHandler(0, k)' => HandlerBelow(k, handler)'
  <2> SUFFICES ASSUME NEW k \in 1 .. Len(calls') + 1, NoHandler(0, k)', NEW h, h = handler'
               PROVE  HandlerBelow(k, h)'
    OBVIOUS
  <2> QED
    BY <1>1, <1>6
<1>10. \A i \in DOMAIN calls', k \in 1 .. Len(calls') + 1 :
         i < k /\ NoHandler(i, k)' => HandlerBelow(k, calls[i].from[4])'
  <2> SUFFICES ASSUME NEW i \in DOMAIN calls', NEW k \in 1 .. Len(calls') + 1,
                      i < k, NoHandler(i, k)', NEW h, h = calls'[i].from[4]
               PROVE  HandlerBelow(k, h)'
    OBVIOUS
  <2> QED
    BY <1>1, <1>5, <1>8
<1> QED
  BY <1>7, <1>9, <1>10 DEF HandlerInv

LEMMA HandlerTop ==
  ASSUME Types, HandlerInv, calls # <<>>
  PROVE  /\ Around(Top) => /\ Top.saved = Top.from[4]
                           /\ Top.fn = "qz_peval" => handler = Failsafe
                           /\ Top.fn # "qz_peval" => handler[1] = Top.id /\ handler \notin gone
         /\ ~ Around(Top) => handler = Top.from[4]
<1>1. Top = calls[1] /\ 1 \in DOMAIN calls /\ 1 \in 1 .. Len(calls) + 1 /\ ~ (1 > Len(calls))
  BY TopCall
<1>2. NoHandler(0, 1)
  BY DEF NoHandler
<1>3. HandlerBelow(1, handler)
  BY <1>1, <1>2 DEF HandlerInv
<1> QED
  BY <1>1, <1>3 DEF HandlerBelow, HandlerInv

(* The handler when the innermost call leaves it alone.                    *)
LEMMA HandlerContinues ==
  ASSUME Types, RefInv, HandlerInv, NEW t, Continues(t),
         Around(t) <=> Around(Top), Around(t) => t.saved = Top.saved,
         Around(t) => Top.fn = "qz_peval" \/ gone' = gone,
         \A o \in gone' : o \in gone \/ o[1] = Top.id,
         handler' = handler
  PROVE  HandlerInv'
<1>1. calls # <<>> /\ t.id = Top.id /\ t.from = Top.from /\ t.fn = Top.fn
  BY DEF Continues
<1> QED
  BY <1>1, HandlerTop, HandlerMoves

(* The C stack.                                                            *)
LEMMA WaitContinues ==
  ASSUME Types, WaitInv, NEW t, Continues(t)
  PROVE  WaitInv'
<1>1. /\ DOMAIN calls' = DOMAIN calls /\ Len(calls') = Len(calls) /\ calls'[1] = t
      /\ \A k \in DOMAIN calls : k # 1 => calls'[k] = calls[k]
      /\ DOMAIN calls = 1 .. Len(calls) /\ Len(calls) \in Nat \ {0}
      /\ calls' # <<>> /\ calls # <<>>
  BY Continued, TopCall DEF Continues
<1>2. Top = calls[1] /\ t.dest = Top.dest /\ t.fn = Top.fn /\ t.safeCall = Top.safeCall
  BY TopCall DEF Continues
<1>3. \A k \in DOMAIN calls : /\ calls'[k].dest = calls[k].dest
                              /\ calls'[k].fn = calls[k].fn
                              /\ calls'[k].safeCall = calls[k].safeCall
  BY <1>1, <1>2
<1>4. \A k \in DOMAIN calls' : k > 1 => Waits(calls'[k], calls'[k - 1])
  <2> SUFFICES ASSUME NEW k \in DOMAIN calls', k > 1
               PROVE  Waits(calls'[k], calls'[k - 1])
    OBVIOUS
  <2>1. k \in DOMAIN calls /\ k - 1 \in DOMAIN calls /\ calls'[k] = calls[k]
    BY <1>1
  <2>2. Waits(calls[k], calls[k - 1])
    BY <2>1 DEF WaitInv
  <2> QED
    BY <1>3, <2>1, <2>2 DEF Waits, Now
<1>5. Last(calls').fn = "qz_peval"
  BY <1>1, <1>3 DEF WaitInv, Last
<1>6. \A k \in DOMAIN calls' : calls'[k].safeCall => calls'[k].fn = "qz_peval"
  BY <1>1, <1>3 DEF WaitInv
<1> QED
  BY <1>4, <1>5, <1>6 DEF WaitInv

(* The references.                                                         *)
LEMMA RefsContinue ==
  ASSUME Types, RefInv, NEW t, Continues(t),
         \A m, n \in DOMAIN safety' : safety'[m] = safety'[n] => m = n,
         \A o \in gone' : o \in gone \/ o[1] = Top.id,
         \A o \in held' : o[1] \in LiveIds(calls) \/ o \in ToSet(safety') \/ o = errorObj'
  PROVE  RefInv'
<1>1. /\ DOMAIN calls' = DOMAIN calls /\ calls'[1] = t
      /\ \A k \in DOMAIN calls : k # 1 => calls'[k] = calls[k]
      /\ LiveIds(calls') = LiveIds(calls)
  BY Continued
<1>2. Top = calls[1] /\ t.id = Top.id /\ 1 \in DOMAIN calls
  BY TopCall DEF Continues
<1>3. \A k \in DOMAIN calls : calls'[k].id = calls[k].id
  BY <1>1, <1>2
<1>4. \A j, k \in DOMAIN calls' : calls'[j].id = calls'[k].id => j = k
  BY <1>1, <1>3 DEF RefInv
<1>5. \A o \in gone' : o[1] \in LiveIds(calls')
  BY <1>1, <1>2 DEF RefInv, LiveIds
<1>6. NothingLost'
  BY <1>1 DEF NothingLost
<1> QED
  BY <1>4, <1>5, <1>6 DEF RefInv

(***************************************************************************)
(* The references of the innermost call.                                   *)
(***************************************************************************)

(* What the rules say of the innermost call and of its next step.          *)
LEMMA TopRules ==
  ASSUME Types, calls # <<>>, NEW l \in Locals[Top.fn], l.pc = Top.pc
  PROVE  /\ Top.fn \in Known /\ l \in LocalType /\ l.pc \in Nat /\ Len(l.pushed) \in Nat
         /\ l.pushed \in Seq(Name)
         /\ At(Top.fn, l) = Step /\ Now(Top) = Step
         /\ Step.op \in Simple \cup Reads \cup Assigns
         /\ NameRules(l, Step) /\ ExitRules(Top.fn, l, Step) /\ StateRules(Top.fn, l, Step)
         /\ l.freed \cap (l.owns \cup ToSet(l.pushed)) = {}
         /\ IsInjective(l.pushed)
         /\ l.inEnv <=> "env" \in l.owns
         /\ "env" \in ToSet(l.pushed) => l.inEnv
         /\ "error_obj" \notin ToSet(l.pushed) /\ "error_obj" \notin l.freed
         /\ l.installed <=> Around(Top)
         /\ \A m \in Moves(Top.fn, l) : m \in Locals[Top.fn] /\ m \in LocalType
<1>1. Top.fn \in Known
  BY TopCall, CallTypes
<1>2. KeepsRules(Top.fn, l) /\ l \in LocalType
  BY <1>1, Rules
<1>3. At(Top.fn, l) = Step /\ Now(Top) = Step
  BY DEF At, Step, Now
<1>4. l.pc \in Nat /\ l.pushed \in Seq(Name) /\ Len(l.pushed) \in Nat
  BY <1>2 DEF LocalType
<1>5. \A m \in Moves(Top.fn, l) : m \in Locals[Top.fn] /\ m \in LocalType
  BY <1>1, Rules
<1> QED
  BY <1>1, <1>2, <1>3, <1>4, <1>5 DEF KeepsRules, Around

\* what the innermost call takes, gives away or releases
HeldAs(t, l2) ==
  /\ HeldNow(t, l2)' /\ OnlyOwn
  /\ held' \in SUBSET Ref /\ IsFiniteSet(held')
  /\ gone' \in SUBSET Ref /\ IsFiniteSet(gone')

LEMMA HeldSame ==
  ASSUME Types, NEW l, HeldNow(Top, l), NEW t, Continues(t),
         NEW l2, l2.pc = t.pc, l2.owns = l.owns, l2.freed = l.freed,
         held' = held, gone' = gone, errorObj' = errorObj
  PROVE  HeldAs(t, l2)
<1>1. t.id = Top.id
  BY DEF Continues
<1>2. HeldNow(t, l2)'
  BY <1>1 DEF HeldNow
<1> QED
  BY <1>2 DEF HeldAs, OnlyOwn, Types

\* the call gives away the references D and gets A; those of F are released
\* and those of M are not released any more
Trades(l, l2, D, A, F, M) ==
  /\ A \in SUBSET Name /\ IsFiniteSet(Objs(A))
  /\ held' = (held \ Objs(D)) \cup Objs(A)
  /\ gone' = (gone \cup (held \cap Objs(F))) \ Objs(M)
  /\ l2.owns = (l.owns \ D) \cup A
  /\ l2.freed = (l.freed \cup (l.owns \cap F)) \ M

LEMMA HeldChanges ==
  ASSUME Types, calls # <<>>, NEW l, l \in LocalType, HeldNow(Top, l), NEW t, Continues(t),
         errorObj = NoObj, errorObj' = NoObj, NEW l2, l2.pc = t.pc,
         NEW D, NEW A, NEW F, NEW M, Trades(l, l2, D, A, F, M)
  PROVE  HeldAs(t, l2)
<1>0. /\ A \in SUBSET Name /\ IsFiniteSet(Objs(A))
      /\ held' = (held \ Objs(D)) \cup Objs(A)
      /\ gone' = (gone \cup (held \cap Objs(F))) \ Objs(M)
      /\ l2.owns = (l.owns \ D) \cup A
      /\ l2.freed = (l.freed \cup (l.owns \cap F)) \ M
  BY DEF Trades
<1>1. t.id = Top.id /\ Top.id \in Nat \ {0}
  BY TopCall, CallTypes DEF Continues
<1>2. /\ NoObj \notin held /\ NoObj \notin held'
      /\ held \ {errorObj} = held /\ held' \ {errorObj'} = held'
      /\ held' \in SUBSET Ref /\ gone' \in SUBSET Ref
  <2>1. NoObj \notin Ref
    BY DEF NoObj, Ref
  <2>2. Objs(A) \subseteq Ref
    BY <1>0, <1>1 DEF Objs, Obj, Ref
  <2>3. held' \in SUBSET Ref /\ gone' \in SUBSET Ref
    BY <1>0, <2>2 DEF Types
  <2> QED
    BY <2>1, <2>3 DEF Types
<1>3. \A x, S : Obj(x) \in Objs(S) <=> x \in S
  BY DEF Objs, Obj
<1>4. \A S : \A o \in Objs(S) : o[1] = Top.id
  BY DEF Objs, Obj
<1>5. \A x : /\ Obj(x) \in held <=> x \in l.owns
             /\ Obj(x) \in gone <=> x \in l.freed
  <2> TAKE x
  <2>1. Obj(x) \in {o \in held : o[1] = Top.id} <=> Obj(x) \in {Top.id} \X l.owns
    BY <1>2 DEF HeldNow
  <2>2. Obj(x) \in {o \in gone : o[1] = Top.id} <=> Obj(x) \in {Top.id} \X l.freed
    BY DEF HeldNow
  <2> QED
    BY <2>1, <2>2 DEF Obj
<1>6. \A x : /\ Obj(x) \in held' <=> x \in l2.owns
             /\ Obj(x) \in gone' <=> x \in l2.freed
  BY <1>0, <1>3, <1>5
<1>7. {o \in held' : o[1] = Top.id} = {Top.id} \X l2.owns
  BY <1>2, <1>6 DEF Obj, Ref
<1>8. {o \in gone' : o[1] = Top.id} = {Top.id} \X l2.freed
  BY <1>2, <1>6 DEF Obj, Ref
<1>9. HeldNow(t, l2)'
  BY <1>1, <1>2, <1>7, <1>8 DEF HeldNow
<1>10. OnlyOwn
  BY <1>0, <1>2, <1>4 DEF OnlyOwn
<1>11. IsFiniteSet(held') /\ IsFiniteSet(gone')
  <2>1. IsFiniteSet(held \ Objs(D)) /\ IsFiniteSet(held \cap Objs(F))
    BY FS_Subset DEF Types
  <2>2. IsFiniteSet(gone \cup (held \cap Objs(F)))
    BY <2>1, FS_Union DEF Types
  <2> QED
    BY <1>0, <2>1, <2>2, FS_Union, FS_Subset
<1> QED
  BY <1>2, <1>9, <1>10, <1>11 DEF HeldAs

\* the innermost call is in the state l of its function
TopIs(l) ==
  /\ l \in Locals[Top.fn] /\ l.pc = Top.pc
  /\ HeldNow(Top, l) /\ PushedNow(Top, l, Len(safety)) /\ EnvNow(Top, l)

LEMMA TopIsSome ==
  ASSUME Types, FrameInv, calls # <<>>
  PROVE  \E l : TopIs(l)
  BY TopState DEF TopIs, HeldNow

\* the buffer that the step leaves, with the part of the innermost call on top
BufferAs(t, l2) ==
  /\ PushedNow(t, l2, Len(safety))' /\ OnlyAbove
  /\ safety' \in Seq(Ref) /\ Len(safety') <= Capacity
  /\ \A m, n \in DOMAIN safety' : safety'[m] = safety'[n] => m = n

\* the environments that the step leaves
EnvsAs(t, l2) == EnvNow(t, l2)' /\ EnvsKept /\ env' \in Seq(Ref) /\ EnvInv'

(* The innermost call goes on and leaves the longjmp target, the handler   *)
(* and the error object alone.                                             *)
LEMMA GoesOn ==
  ASSUME IInv, calls # <<>>, NEW t, Continues(t), NEW l, TopIs(l),
         NEW l2 \in Locals[t.fn], HeldAs(t, l2), BufferAs(t, l2), EnvsAs(t, l2),
         l2.installed = l.installed, t.fail = Top.fail, t.saved = Top.saved,
         InJump(t) <=> InJump(Top),
         Top.fn = "qz_peval" \/ Step.op \notin {"call", "reset_handler"},
         \A o \in ToSet(safety) : o \in ToSet(safety') \/ o[1] \in LiveIds(calls) \/ o \notin held',
         pevalFail' = pevalFail, handler' = handler, errorObj' = errorObj, fault' = fault,
         PendInv'
  PROVE  IInv'
<1>1. Types /\ RefInv /\ FrameInv /\ EnvInv /\ FailInv /\ HandlerInv /\ WaitInv /\ PendInv
  BY DEF IInv
<1>2. t.fn = Top.fn /\ Top.fn \in Known /\ t.pc = l2.pc
  BY <1>1, TopCall, CallTypes DEF Continues, HeldAs, HeldNow
<1>3. Types'
  BY <1>1, Continued DEF Types, HeldAs, BufferAs, EnvsAs
<1>4. FrameInv'
  BY <1>1, FramesContinue DEF HeldAs, BufferAs, EnvsAs
<1>5. \A o \in gone' : o \in gone \/ o[1] = Top.id
  BY DEF HeldAs, OnlyOwn
<1>6. RefInv'
  <2>1. \A o \in held' : o[1] \in LiveIds(calls) \/ o \in ToSet(safety') \/ o = errorObj'
    <3> SUFFICES ASSUME NEW o \in held', o[1] \notin LiveIds(calls), o # errorObj'
                 PROVE  o \in ToSet(safety')
      OBVIOUS
    <3>1. Top.id \in LiveIds(calls)
      BY <1>1, TopCall DEF LiveIds
    <3>2. o \in held
      BY <3>1 DEF HeldAs, OnlyOwn
    <3>3. o \in ToSet(safety)
      BY <1>1, <3>2 DEF RefInv, NothingLost
    <3> QED
      BY <3>3
  <2> QED
    BY <1>1, <1>5, <2>1, RefsContinue DEF BufferAs
<1>7. FailInv'
  BY <1>1, FailContinues
<1>8. Around(t) <=> Around(Top)
  <2>1. l.installed <=> Around(Top)
    BY <1>1, TopRules DEF TopIs
  <2>2. l2.installed <=> AroundPeval(t.fn, l2.pc)
    BY <1>2, Rules DEF KeepsRules
  <2> QED
    BY <1>2, <2>1, <2>2 DEF Around
<1>9. HandlerInv'
  <2>1. Around(t) => Top.fn = "qz_peval"
    BY <1>8 DEF Around, AroundPeval, CallsPeval, Step
  <2> QED
    BY <1>1, <1>5, <1>8, <2>1, HandlerContinues
<1>10. WaitInv'
  BY <1>1, WaitContinues
<1> QED
  BY <1>3, <1>4, <1>6, <1>7, <1>9, <1>10 DEF IInv, EnvsAs

(* The buffer and the environments stay as they are.                       *)
LEMMA BufferSame ==
  ASSUME Types, RefInv, FrameInv, calls # <<>>, NEW t, Continues(t), NEW l, TopIs(l),
         NEW l2, l2.pushed = l.pushed, l2.saved => t.base = Top.from[2],
         MayHoldDead(Top) => \/ MayHoldDead(t)
                             \/ Len(safety) = Top.from[2] + Len(l.pushed),
         safety' = safety
  PROVE  BufferAs(t, l2)
<1>1. t.id = Top.id /\ t.from = Top.from
  BY DEF Continues
<1>2. PushedNow(Top, l, Len(safety))
  BY DEF TopIs
<1>3. Top = calls[1] /\ Top.from[2] \in Nat /\ 1 \in DOMAIN calls
  BY TopCall, CallTypes
<1>4. PushedNow(t, l2, Len(safety))'
  <2>1. \A n \in DOMAIN safety' : safety'[n] = safety[n] /\ n \in DOMAIN safety
    OBVIOUS
  <2>2. Len(safety') = Len(safety)
    OBVIOUS
  <2> SUFFICES ASSUME NEW e, e = Len(safety)'
               PROVE  PushedNow(t, l2, e)'
    OBVIOUS
  <2>3. /\ t.from[2] + Len(l2.pushed) <= e
        /\ MayHoldDead(t)' <=> MayHoldDead(t)
        /\ ~ MayHoldDead(t) => t.from[2] + Len(l2.pushed) = e
    BY <1>1, <1>2 DEF PushedNow, MayHoldDead, Now
  <2>4. \A n \in DOMAIN safety' :
          safety'[n][1] = t.id => n \in t.from[2] + 1 .. t.from[2] + Len(l2.pushed)
    BY <1>1, <1>2 DEF PushedNow
  <2>5. \A j \in 1 .. Len(l2.pushed) : safety'[t.from[2] + j] = <<t.id, l2.pushed[j]>>
    BY <1>1, <1>2 DEF PushedNow
  <2> QED
    BY <1>1, <2>3, <2>4, <2>5 DEF PushedNow
<1>5. OnlyAbove
  <2>1. \A n \in DOMAIN safety, k \in DOMAIN calls :
          Top.from[2] < n /\ k # 1 => safety[n][1] # calls[k].id
    BY AboveTop
  <2>2. Top.from[2] <= Len(safety)
    <3>1. l \in LocalType /\ Len(l.pushed) \in Nat
      BY TopRules DEF TopIs
    <3> QED
      BY <1>2, <1>3, <3>1 DEF PushedNow, Types
  <2> QED
    BY <2>1, <2>2 DEF OnlyAbove, Types
<1> QED
  BY <1>4, <1>5 DEF BufferAs, Types, RefInv

LEMMA EnvsSame ==
  ASSUME Types, FrameInv, EnvInv, calls # <<>>, NEW t, Continues(t), NEW l, TopIs(l),
         NEW l2, l2.inEnv = l.inEnv, t.oldEnv = Top.oldEnv,
         Obj("env") \in held => Obj("env") \in held',
         OnlyAbove, safety' = safety, env' = env
  PROVE  EnvsAs(t, l2)
<1>1. t.id = Top.id /\ t.from = Top.from /\ Top' = t /\ calls' # <<>>
  BY Continued DEF Continues
<1>2. EnvNow(t, l2)'
  <2>1. EnvNow(t, l2)
    BY <1>1 DEF TopIs, EnvNow, Depth
  <2> QED
    BY <2>1, EnvNowStays
<1>3. EnvsKept
  BY EnvsStay
<1>4. EnvInv'
  BY <1>1 DEF EnvInv, Obj
<1> QED
  BY <1>2, <1>3, <1>4 DEF EnvsAs, Types

(***************************************************************************)
(* Steps that change little.                                               *)
(***************************************************************************)

(* qz_peval, step by step.                                                 *)
LEMMA Peval ==
  /\ Len(qz_peval) = 11 /\ DOMAIN qz_peval = 1 .. 11 /\ Script["qz_peval"] = qz_peval
  /\ qz_peval[1] = SetJmp /\ qz_peval[2] = Eval("result") /\ qz_peval[3] = Jump({7})
  /\ qz_peval[4] = IfHandler(4) /\ qz_peval[5] = HandlerCall
  /\ qz_peval[6] = Call("qz_peval", "result") /\ qz_peval[7] = Unref("call")
  /\ qz_peval[8] = ResetHandler /\ qz_peval[9] = Cleanup
  /\ qz_peval[10] = ResetJmp /\ qz_peval[11] = Return("result")
  BY DEF qz_peval, Script

LEMMA PevalTop ==
  ASSUME Types, calls # <<>>, NEW l, TopIs(l), Top.fn = "qz_peval"
  PROVE  /\ Top.pc \in 1 .. 11 /\ l.pushed = <<>>
         /\ Top.pc = 1 => Step.op = "setjmp"
         /\ Top.pc = 2 => Step.op = "eval"
         /\ Top.pc = 3 => Step.op = "jump" /\ Step.by = {7}
         /\ Top.pc = 4 => Step.op = "if_handler" /\ Step.n = 4
         /\ Top.pc = 5 => Step.op = "handler_call" /\ Step.var = "call"
         /\ Top.pc = 6 => Step.op = "call" /\ Step.fn = "qz_peval" /\ Step.var = "result"
         /\ Top.pc = 7 => Step.op = "unref"
         /\ Top.pc = 8 => Step.op = "reset_handler"
         /\ Top.pc = 9 => Step.op = "cleanup"
         /\ Top.pc = 10 => Step.op = "reset_jmp"
         /\ Top.pc = 11 => Step.op = "return"
<1>1. Top.pc \in 1 .. 11 /\ l.pushed = <<>>
  <2>1. Top.fn \in Known /\ l \in Locals[Top.fn] /\ l.pc = Top.pc
    BY TopRules DEF TopIs
  <2>2. KeepsRules(Top.fn, l)
    BY <2>1, Rules
  <2> QED
    BY <2>1, <2>2, Peval DEF KeepsRules, StateRules
<1>2. Step = qz_peval[Top.pc]
  BY Peval DEF Step
<1>3. /\ Top.pc = 1 => Step.op = "setjmp"
      /\ Top.pc = 2 => Step.op = "eval"
      /\ Top.pc = 3 => Step.op = "jump" /\ Step.by = {7}
      /\ Top.pc = 4 => Step.op = "if_handler" /\ Step.n = 4
      /\ Top.pc = 5 => Step.op = "handler_call" /\ Step.var = "call"
  BY <1>2, Peval DEF SetJmp, Eval, Jump, IfHandler, HandlerCall
<1>4. /\ Top.pc = 6 => Step.op = "call" /\ Step.fn = "qz_peval" /\ Step.var = "result"
      /\ Top.pc = 7 => Step.op = "unref"
      /\ Top.pc = 8 => Step.op = "reset_handler"
      /\ Top.pc = 9 => Step.op = "cleanup"
      /\ Top.pc = 10 => Step.op = "reset_jmp"
      /\ Top.pc = 11 => Step.op = "return"
  BY <1>2, Peval DEF Call, Unref, ResetHandler, Cleanup, ResetJmp, Return
<1> QED
  BY <1>1, <1>3, <1>4

(* While a function other than qz_peval runs no error is pending, and none *)
(* while qz_peval evaluates.                                               *)
LEMMA NothingPends ==
  ASSUME Types, PendInv, calls # <<>>, NEW l, TopIs(l),
         Step.op \notin {"setjmp", "if_handler", "handler_call", "cleanup", "reset_jmp",
                         "return"}
  PROVE  errorObj = NoObj
<1> SUFFICES ASSUME errorObj # NoObj PROVE FALSE
  OBVIOUS
<1>1. Top.fn = "qz_peval" /\ (Top.pc \in {1, 4, 5} \/ Top.pc >= 9)
  BY DEF PendInv, CatchPc
<1>2. Top.pc \in {1, 4, 5, 9, 10, 11}
  BY <1>1, PevalTop
<1> QED
  BY <1>1, <1>2, PevalTop

(* A step of the innermost call from one state to another.                 *)
LEMMA Jumped ==
  ASSUME Types, calls # <<>>, NEW d, Top.pc + d \in Int,
         NEW t, t = [Top EXCEPT !.pc = @ + d], calls' = With(t)
  PROVE  /\ Continues(t) /\ t.pc = Top.pc + d /\ t.base = Top.base
         /\ t.oldEnv = Top.oldEnv /\ t.fail = Top.fail /\ t.saved = Top.saved
<1>1. Top \in CallType
  BY TopCall
<1>2. /\ t \in CallType /\ t.fn = Top.fn /\ t.id = Top.id /\ t.dest = Top.dest
      /\ t.from = Top.from /\ t.safeCall = Top.safeCall
      /\ t.pc = Top.pc + d /\ t.base = Top.base
      /\ t.oldEnv = Top.oldEnv /\ t.fail = Top.fail /\ t.saved = Top.saved
  BY <1>1 DEF CallType
<1> QED
  BY <1>2 DEF Continues

(* The environment that a call has pushed is what it owns as env.          *)
LEMMA EnvOwned ==
  ASSUME Types, PendInv, calls # <<>>, NEW l, TopIs(l)
  PROVE  Obj("env") \in held <=> l.inEnv
<1>1. errorObj[2] # "env"
  BY DEF PendInv, NoObj
<1>2. Obj("env") \in {o \in held \ {errorObj} : o[1] = Top.id} <=> Obj("env") \in {Top.id} \X l.owns
  BY DEF TopIs, HeldNow
<1>3. l.inEnv <=> "env" \in l.owns
  BY TopRules DEF TopIs
<1> QED
  BY <1>1, <1>2, <1>3 DEF Obj

(* What happens to its references aside, nothing but the next step changes. *)
LEMMA QuietStep ==
  ASSUME IInv, calls # <<>>, NEW l, TopIs(l),
         Step.op \in {"check", "use", "make", "immediate", "unref", "give", "eval", "jump"},
         NEW d, d = 1 \/ (Step.op = "jump" /\ d \in Step.by),
         NEW t, t = [Top EXCEPT !.pc = @ + d], calls' = With(t),
         NEW l2 \in Moves(Top.fn, l), l2.pc = l.pc + d, l2.pushed = l.pushed,
         l2.saved = l.saved, l2.inEnv = l.inEnv, l2.installed = l.installed,
         Continues(t) => HeldAs(t, l2),
         UNCHANGED <<env, safety, pevalFail, handler, errorObj, fault>>
  PROVE  IInv'
<1>1. Types /\ RefInv /\ FrameInv /\ EnvInv /\ PendInv
  BY DEF IInv
<1>2. /\ Top.fn \in Known /\ l2 \in Locals[Top.fn] /\ l2 \in LocalType
      /\ l \in LocalType /\ l.pc = Top.pc
      /\ Now(Top) = Step
  BY <1>1, TopRules DEF TopIs
<1>3. Top.pc + d \in Int
  BY <1>2 DEF LocalType
<1>4. /\ Continues(t) /\ t.pc = Top.pc + d /\ t.base = Top.base
      /\ t.oldEnv = Top.oldEnv /\ t.fail = Top.fail /\ t.saved = Top.saved
  BY <1>1, <1>3, Jumped
<1>5. t.fn = Top.fn /\ Top' = t
  BY <1>1, <1>4, Continued DEF Continues
<1>6. HeldAs(t, l2)
  BY <1>4
<1>7. errorObj = NoObj
  BY <1>1, NothingPends
<1>8. Top.fn = "qz_peval" => \/ Top.pc \in {2, 7} /\ d = 1
                             \/ Top.pc = 3 /\ d \in {1, 7}
  BY <1>1, PevalTop
<1>9. InJump(t) <=> InJump(Top)
  BY <1>4, <1>5, <1>8, Peval DEF InJump
<1>10. MayHoldDead(Top) => MayHoldDead(t)
  BY <1>2, <1>4, <1>5, <1>8 DEF MayHoldDead, CatchPc
<1>11. l2.saved => t.base = Top.from[2]
  BY <1>4 DEF TopIs, PushedNow
<1>12. BufferAs(t, l2)
  BY <1>1, <1>4, <1>10, <1>11, BufferSame
<1>13. Obj("env") \in held => Obj("env") \in held'
  <2>1. l.inEnv <=> Obj("env") \in held
    BY <1>1, EnvOwned
  <2>2. l2.inEnv <=> "env" \in l2.owns
    BY <1>2, Rules DEF KeepsRules
  <2>3. Obj("env") \in {Top.id} \X l2.owns => Obj("env") \in held'
    BY <1>4, <1>6 DEF HeldAs, HeldNow, Continues
  <2> QED
    BY <2>1, <2>2, <2>3 DEF Obj
<1>14. EnvsAs(t, l2)
  <2>1. OnlyAbove
    BY <1>12 DEF BufferAs
  <2>2. calls # <<>> /\ TopIs(l) /\ safety' = safety /\ env' = env /\ l2.inEnv = l.inEnv
    OBVIOUS
  <2> QED
    BY ONLY <1>1, <1>4, <1>13, <2>1, <2>2, EnvsSame
<1>15. PendInv'
  BY <1>7 DEF PendInv
<1>16. Step.op \notin {"call", "reset_handler"}
  OBVIOUS
<1>17. l2 \in Locals[t.fn]
  BY <1>2, <1>5
<1> QED
  BY <1>4, <1>6, <1>9, <1>12, <1>14, <1>15, <1>16, <1>17, GoesOn

LEMMA NoNames ==
  /\ Objs({}) = {} /\ IsFiniteSet(Objs({}))
  /\ \A x : Objs({x}) = {Obj(x)}
  /\ \A x : IsFiniteSet(Objs({x}))
<1>1. Objs({}) = {}
  BY DEF Objs
<1>2. \A x : Objs({x}) = {Obj(x)}
  BY DEF Objs
<1>3. IsFiniteSet(Objs({}))
  BY <1>1, FS_EmptySet
<1>4. ASSUME NEW x PROVE IsFiniteSet(Objs({x}))
  <2>1. IsFiniteSet({Obj(x)})
    BY FS_Singleton
  <2> QED
    BY <1>2, <2>1
<1> QED
  BY <1>1, <1>2, <1>3, <1>4

LEMMA GotoKeeps ==
  ASSUME IInv, Goto
  PROVE  IInv'
<1>1. Types /\ FrameInv /\ calls # <<>> /\ Step.op = "jump"
  BY DEF IInv, Goto, Does, Running
<1>2. PICK l : TopIs(l)
  BY <1>1, TopIsSome
<1>3. PICK d \in Step.by : calls' = With([Top EXCEPT !.pc = @ + d])
  BY DEF Goto
<1> DEFINE t == [Top EXCEPT !.pc = @ + d]
           l2 == [l EXCEPT !.pc = @ + d]
<1>4. At(Top.fn, l) = Step /\ l \in LocalType
  BY <1>1, <1>2, TopRules DEF TopIs
<1>5. l2 \in Moves(Top.fn, l)
  BY <1>1, <1>4 DEF Moves
<1>6. /\ l2.pc = l.pc + d /\ l2.pushed = l.pushed /\ l2.owns = l.owns /\ l2.freed = l.freed
      /\ l2.saved = l.saved /\ l2.inEnv = l.inEnv /\ l2.installed = l.installed
  BY <1>4 DEF LocalType
<1>7. /\ env' = env /\ safety' = safety /\ pevalFail' = pevalFail /\ handler' = handler
      /\ errorObj' = errorObj /\ fault' = fault /\ held' = held /\ gone' = gone
  BY DEF Goto
<1>8. l.pc = Top.pc /\ HeldNow(Top, l)
  BY <1>2 DEF TopIs
<1>9. t.pc = Top.pc + d
  BY <1>1, TopCall DEF CallType
<1>10. Continues(t) => HeldAs(t, l2)
  BY <1>1, <1>6, <1>7, <1>8, <1>9, HeldSame, ZenonT(60)
<1> HIDE DEF t, l2
<1>11. t = [Top EXCEPT !.pc = @ + d] /\ calls' = With(t)
  BY <1>3 DEF t
<1> QED
  BY <1>1, <1>2, <1>3, <1>5, <1>6, <1>7, <1>10, <1>11, QuietStep

(* The same for a step that goes on to the next one.                       *)
LEMMA QuietAdvance ==
  ASSUME IInv, calls # <<>>, NEW l, TopIs(l), Advance,
         Step.op \in {"check", "use", "make", "immediate", "unref", "give", "eval"},
         NEW l2 \in Moves(Top.fn, l), l2.pc = l.pc + 1, l2.pushed = l.pushed,
         l2.saved = l.saved, l2.inEnv = l.inEnv, l2.installed = l.installed,
         \A t : Continues(t) /\ t.pc = Top.pc + 1 => HeldAs(t, l2),
         UNCHANGED <<env, safety, pevalFail, handler, errorObj, fault>>
  PROVE  IInv'
<1> DEFINE t == [Top EXCEPT !.pc = @ + 1]
<1>1. Types
  BY DEF IInv
<1>2. t.pc = Top.pc + 1
  BY <1>1, TopCall DEF CallType
<1>3. calls' = With(t)
  BY DEF Advance
<1> HIDE DEF t
<1>4. t = [Top EXCEPT !.pc = @ + 1]
  BY DEF t
<1> DEFINE d == 1
<1>5. t = [Top EXCEPT !.pc = @ + d] /\ l2.pc = l.pc + d
  BY <1>4
<1>6. Continues(t) => HeldAs(t, l2)
  BY <1>2
<1> HIDE DEF d
<1>7. d = 1 \/ (Step.op = "jump" /\ d \in Step.by)
  BY DEF d
<1>8. Step.op \in {"check", "use", "make", "immediate", "unref", "give", "eval", "jump"}
  OBVIOUS
<1> QED
  BY <1>3, <1>5, <1>6, <1>7, <1>8, QuietStep

LEMMA CheckKeeps ==
  ASSUME IInv, CheckPasses \/ UseReference
  PROVE  IInv'
<1>1. Types /\ FrameInv /\ calls # <<>> /\ Step.op \in {"check", "use"} /\ Advance
  BY DEF IInv, CheckPasses, UseReference, Does, Running
<1>2. PICK l : TopIs(l)
  BY <1>1, TopIsSome
<1> DEFINE l2 == [l EXCEPT !.pc = @ + 1]
<1>3. At(Top.fn, l) = Step /\ l \in LocalType
  BY <1>1, <1>2, TopRules DEF TopIs
<1>4. l2 \in Moves(Top.fn, l)
  BY <1>1, <1>3 DEF Moves
<1>5. /\ l2.pc = l.pc + 1 /\ l2.pushed = l.pushed /\ l2.owns = l.owns /\ l2.freed = l.freed
      /\ l2.saved = l.saved /\ l2.inEnv = l.inEnv /\ l2.installed = l.installed
  BY <1>3 DEF LocalType
<1>6. /\ env' = env /\ safety' = safety /\ pevalFail' = pevalFail /\ handler' = handler
      /\ errorObj' = errorObj /\ fault' = fault /\ held' = held /\ gone' = gone
  BY DEF CheckPasses, UseReference
<1>7. l.pc = Top.pc /\ HeldNow(Top, l)
  BY <1>2 DEF TopIs
<1> HIDE DEF l2
<1>8. ASSUME NEW t, Continues(t), t.pc = Top.pc + 1
      PROVE  HeldAs(t, l2)
  BY <1>1, <1>5, <1>6, <1>7, <1>8, HeldSame
<1> QED
  BY <1>1, <1>2, <1>4, <1>5, <1>6, <1>8, QuietAdvance

LEMMA ImmediateKeeps ==
  ASSUME IInv, FindImmediate
  PROVE  IInv'
<1>1. Types /\ FrameInv /\ PendInv /\ calls # <<>> /\ Step.op = "immediate" /\ Advance
  BY DEF IInv, FindImmediate, Does, Running
<1>2. PICK l : TopIs(l)
  BY <1>1, TopIsSome
<1> DEFINE l2 == Drops([l EXCEPT !.pc = @ + 1], Step.var)
<1>3. At(Top.fn, l) = Step /\ l \in LocalType
  BY <1>1, <1>2, TopRules DEF TopIs
<1>4. l2 \in Moves(Top.fn, l)
  BY <1>1, <1>3 DEF Moves
<1>5. /\ l2.pc = l.pc + 1 /\ l2.pushed = l.pushed
      /\ l2.owns = l.owns \ {Step.var} /\ l2.freed = l.freed
      /\ l2.saved = l.saved /\ l2.inEnv = l.inEnv /\ l2.installed = l.installed
  BY <1>3 DEF LocalType, Drops
<1>6. /\ env' = env /\ safety' = safety /\ pevalFail' = pevalFail /\ handler' = handler
      /\ errorObj' = errorObj /\ fault' = fault
      /\ held' = held \ {Obj(Step.var)} /\ gone' = gone
  BY DEF FindImmediate
<1>7. l.pc = Top.pc /\ HeldNow(Top, l)
  BY <1>2 DEF TopIs
<1>8. errorObj = NoObj
  BY <1>1, <1>2, NothingPends
<1>9. ASSUME NEW t, Continues(t), t.pc = Top.pc + 1
      PROVE  HeldAs(t, l2)
  <2> HIDE DEF l2
  <2>1. Trades(l, l2, {Step.var}, {}, {}, {})
    BY <1>5, <1>6, NoNames DEF Trades
  <2>2. errorObj' = NoObj /\ l2.pc = t.pc
    BY <1>5, <1>6, <1>7, <1>8, <1>9
  <2> QED
    BY <1>1, <1>3, <1>7, <1>8, <1>9, <2>1, <2>2, HeldChanges
<1> HIDE DEF l2
<1> QED
  BY <1>1, <1>2, <1>4, <1>5, <1>6, <1>9, QuietAdvance

LEMMA ReleaseKeeps ==
  ASSUME IInv, Release
  PROVE  IInv'
<1>1. Types /\ FrameInv /\ PendInv /\ calls # <<>> /\ Step.op \in {"unref", "give"} /\ Advance
  BY DEF IInv, Release, Does, Running
<1>2. PICK l : TopIs(l)
  BY <1>1, TopIsSome
<1> DEFINE l2 == Frees([l EXCEPT !.pc = @ + 1], {Step.var})
<1>3. At(Top.fn, l) = Step /\ l \in LocalType
  BY <1>1, <1>2, TopRules DEF TopIs
<1>4. l2 \in Moves(Top.fn, l)
  BY <1>1, <1>3 DEF Moves
<1>5. /\ l2.pc = l.pc + 1 /\ l2.pushed = l.pushed
      /\ l2.owns = l.owns \ {Step.var} /\ l2.freed = l.freed \cup (l.owns \cap {Step.var})
      /\ l2.saved = l.saved /\ l2.inEnv = l.inEnv /\ l2.installed = l.installed
  BY <1>3 DEF LocalType, Frees
<1>6. /\ env' = env /\ safety' = safety /\ pevalFail' = pevalFail /\ handler' = handler
      /\ errorObj' = errorObj /\ fault' = fault
      /\ held' = held \ {Obj(Step.var)} /\ gone' = gone \cup (held \cap {Obj(Step.var)})
  BY DEF Release
<1>7. l.pc = Top.pc /\ HeldNow(Top, l)
  BY <1>2 DEF TopIs
<1>8. errorObj = NoObj
  BY <1>1, <1>2, NothingPends
<1>9. ASSUME NEW t, Continues(t), t.pc = Top.pc + 1
      PROVE  HeldAs(t, l2)
  <2> HIDE DEF l2
  <2>1. Trades(l, l2, {Step.var}, {}, {Step.var}, {})
    BY <1>5, <1>6, NoNames DEF Trades
  <2>2. errorObj' = NoObj /\ l2.pc = t.pc
    BY <1>5, <1>6, <1>7, <1>8, <1>9
  <2> QED
    BY <1>1, <1>3, <1>7, <1>8, <1>9, <2>1, <2>2, HeldChanges
<1> HIDE DEF l2
<1> QED
  BY <1>1, <1>2, <1>4, <1>5, <1>6, <1>9, QuietAdvance

LEMMA MakeKeeps ==
  ASSUME IInv, MakeReference
  PROVE  IInv'
<1>1. Types /\ FrameInv /\ PendInv /\ calls # <<>> /\ Step.op = "make" /\ Advance
  BY DEF IInv, MakeReference, Does, Running
<1>2. PICK l : TopIs(l)
  BY <1>1, TopIsSome
<1> DEFINE l2 == Gets(Frees([l EXCEPT !.pc = @ + 1], Step.from), Step.var)
<1>3. At(Top.fn, l) = Step /\ l \in LocalType /\ NameRules(l, Step)
  BY <1>1, <1>2, TopRules DEF TopIs
<1>4. l2 \in Moves(Top.fn, l)
  BY <1>1, <1>3 DEF Moves
<1>5. /\ l2.pc = l.pc + 1 /\ l2.pushed = l.pushed
      /\ l2.owns = (l.owns \ Step.from) \cup {Step.var}
      /\ l2.freed = (l.freed \cup (l.owns \cap Step.from)) \ {Step.var}
      /\ l2.saved = l.saved /\ l2.inEnv = l.inEnv /\ l2.installed = l.installed
  BY <1>3 DEF LocalType, Frees, Gets
<1>6. /\ env' = env /\ safety' = safety /\ pevalFail' = pevalFail /\ handler' = handler
      /\ errorObj' = errorObj /\ fault' = fault
      /\ held' = (held \ Objs(Step.from)) \cup {Obj(Step.var)}
      /\ gone' = (gone \cup (held \cap Objs(Step.from))) \ {Obj(Step.var)}
  BY DEF MakeReference
<1>7. l.pc = Top.pc /\ HeldNow(Top, l)
  BY <1>2 DEF TopIs
<1>8. errorObj = NoObj
  BY <1>1, <1>2, NothingPends
<1>9. ASSUME NEW t, Continues(t), t.pc = Top.pc + 1
      PROVE  HeldAs(t, l2)
  <2> HIDE DEF l2
  <2>1. {Step.var} \in SUBSET Name
    BY <1>1, <1>3 DEF NameRules, Assigns
  <2>2. Trades(l, l2, Step.from, {Step.var}, Step.from, {Step.var})
    BY <1>5, <1>6, <2>1, NoNames DEF Trades
  <2>3. errorObj' = NoObj /\ l2.pc = t.pc
    BY <1>5, <1>6, <1>7, <1>8, <1>9
  <2> QED
    BY <1>1, <1>3, <1>7, <1>8, <1>9, <2>2, <2>3, HeldChanges
<1> HIDE DEF l2
<1> QED
  BY <1>1, <1>2, <1>4, <1>5, <1>6, <1>9, QuietAdvance

LEMMA EvalAtomKeeps ==
  ASSUME IInv, EvalAtom
  PROVE  IInv'
<1>1. Types /\ FrameInv /\ PendInv /\ calls # <<>> /\ Step.op = "eval" /\ Advance
  BY DEF IInv, EvalAtom, Does, Running
<1>2. PICK l : TopIs(l)
  BY <1>1, TopIsSome
<1>3. At(Top.fn, l) = Step /\ l \in LocalType /\ NameRules(l, Step) /\ l.pc = Top.pc
      /\ HeldNow(Top, l)
  BY <1>1, <1>2, TopRules DEF TopIs
<1>4. /\ env' = env /\ safety' = safety /\ pevalFail' = pevalFail /\ handler' = handler
      /\ errorObj' = errorObj /\ fault' = fault
  BY DEF EvalAtom
<1>5. errorObj = NoObj
  BY <1>1, <1>2, NothingPends
<1>6. CASE Top.safeCall
  <2> DEFINE l2 == [l EXCEPT !.pc = @ + 1]
  <2>1. Top.fn = "qz_peval"
    BY <1>1, <1>6, TopCall DEF IInv, WaitInv
  <2>2. l2 \in Moves(Top.fn, l)
    BY <1>1, <1>3, <2>1 DEF Moves
  <2>3. /\ l2.pc = l.pc + 1 /\ l2.pushed = l.pushed /\ l2.owns = l.owns /\ l2.freed = l.freed
        /\ l2.saved = l.saved /\ l2.inEnv = l.inEnv /\ l2.installed = l.installed
    BY <1>3 DEF LocalType
  <2>4. held' = held /\ gone' = gone
    BY <1>6 DEF EvalAtom
  <2> HIDE DEF l2
  <2>5. ASSUME NEW t, Continues(t), t.pc = Top.pc + 1
        PROVE  HeldAs(t, l2)
    BY <1>1, <1>3, <1>4, <2>3, <2>4, <2>5, HeldSame
  <2> QED
    BY <1>1, <1>2, <1>4, <2>2, <2>3, <2>5, QuietAdvance
<1>7. CASE ~ Top.safeCall
  <2> DEFINE l2 == Gets([l EXCEPT !.pc = @ + 1], Step.var)
  <2>1. l2 \in Moves(Top.fn, l)
    BY <1>1, <1>3 DEF Moves
  <2>2. /\ l2.pc = l.pc + 1 /\ l2.pushed = l.pushed
        /\ l2.owns = l.owns \cup {Step.var} /\ l2.freed = l.freed \ {Step.var}
        /\ l2.saved = l.saved /\ l2.inEnv = l.inEnv /\ l2.installed = l.installed
    BY <1>3 DEF LocalType, Gets
  <2>3. held' = held \cup {Obj(Step.var)} /\ gone' = gone \ {Obj(Step.var)}
    BY <1>7 DEF EvalAtom
  <2>4. ASSUME NEW t, Continues(t), t.pc = Top.pc + 1
        PROVE  HeldAs(t, l2)
    <3> HIDE DEF l2
    <3>1. {Step.var} \in SUBSET Name
      BY <1>1, <1>3 DEF NameRules, Assigns
    <3>2. Trades(l, l2, {}, {Step.var}, {}, {Step.var})
      BY <2>2, <2>3, <3>1, NoNames DEF Trades
    <3>3. errorObj' = NoObj /\ l2.pc = t.pc
      BY <1>3, <1>4, <1>5, <2>2, <2>4
    <3> QED
      BY <1>1, <1>3, <1>5, <2>4, <3>2, <3>3, HeldChanges
  <2> HIDE DEF l2
  <2> QED
    BY <1>1, <1>2, <1>4, <2>1, <2>2, <2>4, QuietAdvance
<1> QED
  BY <1>6, <1>7

(***************************************************************************)
(* Steps on the safety buffer.                                             *)
(***************************************************************************)

(* What a call that pushes or pops has in the buffer is all on top.        *)
LEMMA PushedOnTop ==
  ASSUME Types, FrameInv, calls # <<>>, NEW l, TopIs(l),
         Step.op \in {"push", "pop", "push_env", "pop_env", "save_size", "set_handler"}
  PROVE  /\ Top.fn # "qz_peval" /\ ~ MayHoldDead(Top)
         /\ Len(safety) = Top.from[2] + Len(l.pushed)
         /\ Top.from[2] \in Nat /\ Top.id \in Nat \ {0} /\ Len(safety) \in Nat
         /\ \A j \in 1 .. Len(l.pushed) : safety[Top.from[2] + j] = Obj(l.pushed[j])
         /\ \A n \in DOMAIN safety : safety[n][1] = Top.id =>
              n \in Top.from[2] + 1 .. Top.from[2] + Len(l.pushed)
<1>1. Top.fn # "qz_peval"
  BY PevalTop
<1>2. Now(Top) = Step
  BY TopRules DEF TopIs
<1>3. ~ MayHoldDead(Top)
  BY <1>1, <1>2 DEF MayHoldDead
<1>4. Top.from[2] \in Nat /\ Top.id \in Nat \ {0} /\ Len(safety) \in Nat
  BY TopCall, CallTypes DEF Types
<1> QED
  BY <1>1, <1>3, <1>4 DEF TopIs, PushedNow, Obj

(* A reference that a call has in the buffer is one that it has pushed.    *)
LEMMA InBuffer ==
  ASSUME Types, FrameInv, calls # <<>>, NEW l, TopIs(l), NEW x, NEW n \in DOMAIN safety,
         safety[n] = Obj(x)
  PROVE  /\ n - Top.from[2] \in 1 .. Len(l.pushed) /\ l.pushed[n - Top.from[2]] = x
         /\ x \in ToSet(l.pushed) /\ n > Top.from[2]
<1>1. /\ Top.from[2] \in Nat /\ Len(l.pushed) \in Nat /\ n \in Nat
      /\ l.pushed \in Seq(Name)
  BY TopCall, CallTypes, TopRules DEF Types, TopIs
<1>2. n \in Top.from[2] + 1 .. Top.from[2] + Len(l.pushed)
  BY DEF TopIs, PushedNow, Obj
<1>3. n - Top.from[2] \in 1 .. Len(l.pushed) /\ n = Top.from[2] + (n - Top.from[2])
  BY <1>1, <1>2
<1>4. safety[Top.from[2] + (n - Top.from[2])] = <<Top.id, l.pushed[n - Top.from[2]]>>
  BY <1>3 DEF TopIs, PushedNow
<1>5. l.pushed[n - Top.from[2]] = x
  BY <1>3, <1>4 DEF Obj
<1>6. x \in ToSet(l.pushed)
  BY <1>1, <1>3, <1>5 DEF ToSet
<1> QED
  BY <1>1, <1>2, <1>3, <1>5, <1>6

LEMMA PushKeeps ==
  ASSUME IInv, qz_push_safety
  PROVE  IInv'
<1>1. /\ Types /\ RefInv /\ FrameInv /\ EnvInv /\ PendInv /\ calls # <<>>
      /\ Step.op = "push" /\ FaultOf(Step) = "none" /\ Advance
  BY DEF IInv, qz_push_safety, Does, Running
<1>2. PICK l : TopIs(l)
  BY <1>1, TopIsSome
<1> SUFFICES ASSUME NEW x, x = Step.var,
                    NEW l2, l2 = [[l EXCEPT !.pc = @ + 1] EXCEPT !.pushed = Append(@, x)],
                    NEW t, t = [Top EXCEPT !.pc = @ + 1]
             PROVE  IInv'
  OBVIOUS
<1>3. /\ At(Top.fn, l) = Step /\ l \in LocalType /\ NameRules(l, Step) /\ l.pc = Top.pc
      /\ l.pc \in Nat /\ l.pushed \in Seq(Name) /\ Len(l.pushed) \in Nat
      /\ Top.fn \in Known
      /\ \A m \in Moves(Top.fn, l) : m \in Locals[Top.fn] /\ m \in LocalType
  BY <1>1, <1>2, TopRules DEF TopIs
<1>4. l2 \in Moves(Top.fn, l)
  <2>1. /\ At(Top.fn, l).op = "push"
        /\ l2 = [[l EXCEPT !.pc = @ + 1] EXCEPT !.pushed = Append(@, At(Top.fn, l).var)]
    BY <1>1, <1>3
  <2>2. Moves(Top.fn, l) = {[[l EXCEPT !.pc = @ + 1] EXCEPT !.pushed = Append(@, At(Top.fn, l).var)]}
    BY <2>1 DEF Moves
  <2> QED
    BY <2>1, <2>2
<1>5. /\ l2.pc = l.pc + 1 /\ l2.pushed = Append(l.pushed, x)
      /\ l2.owns = l.owns /\ l2.freed = l.freed
      /\ l2.saved = l.saved /\ l2.inEnv = l.inEnv /\ l2.installed = l.installed
  BY <1>3 DEF LocalType
<1>6. /\ env' = env /\ safety' = Append(safety, Obj(x)) /\ pevalFail' = pevalFail
      /\ handler' = handler /\ errorObj' = errorObj /\ fault' = fault /\ held' = held
      /\ gone' = gone
  BY DEF qz_push_safety
<1>7. calls' = With(t)
  BY <1>1 DEF Advance
<1>8. /\ Continues(t) /\ t.pc = Top.pc + 1 /\ t.base = Top.base /\ t.oldEnv = Top.oldEnv
      /\ t.fail = Top.fail /\ t.saved = Top.saved /\ t.fn = Top.fn /\ t.from = Top.from
      /\ t.id = Top.id
  <2>1. Top.pc + 1 \in Int
    BY <1>3
  <2> QED
    BY <1>1, <1>7, <2>1, Jumped DEF Continues
<1>9. x \in Name /\ l2 \in Locals[Top.fn] /\ KeepsRules(Top.fn, l2)
  <2>1. x \in Name
    BY <1>1, <1>3 DEF NameRules, Reads
  <2>2. l2 \in Locals[Top.fn]
    BY <1>3, <1>4
  <2> QED
    BY <1>3, <2>1, <2>2, Rules
<1>10. /\ Top.fn # "qz_peval" /\ Len(safety) = Top.from[2] + Len(l.pushed)
       /\ Top.from[2] \in Nat /\ Top.id \in Nat \ {0} /\ Len(safety) \in Nat
       /\ \A j \in 1 .. Len(l.pushed) : safety[Top.from[2] + j] = Obj(l.pushed[j])
       /\ \A m \in DOMAIN safety : safety[m][1] = Top.id =>
              m \in Top.from[2] + 1 .. Top.from[2] + Len(l.pushed)
  BY <1>1, <1>2, PushedOnTop
<1>11. Obj(x) \in Ref /\ Obj(x)[1] = Top.id /\ Obj(x)[2] = x
  BY <1>9, <1>10 DEF Obj, Ref
<1>12. /\ safety' \in Seq(Ref) /\ Len(safety') = Len(safety) + 1
       /\ DOMAIN safety = 1 .. Len(safety) /\ DOMAIN safety' = 1 .. Len(safety) + 1
       /\ \A m \in 1 .. Len(safety) : safety'[m] = safety[m]
       /\ safety'[Len(safety) + 1] = Obj(x)
  BY <1>1, <1>6, <1>11 DEF Types
<1>13. \A m \in DOMAIN safety : safety[m] # Obj(x)
  <2> SUFFICES ASSUME NEW m \in DOMAIN safety, safety[m] = Obj(x) PROVE FALSE
    OBVIOUS
  <2>1. m - Top.from[2] \in 1 .. Len(l.pushed) /\ l.pushed[m - Top.from[2]] = x
    BY <1>1, <1>2, InBuffer
  <2>2. IsInjective(l2.pushed)
    BY <1>9 DEF KeepsRules
  <2>3. /\ l2.pushed[m - Top.from[2]] = x /\ l2.pushed[Len(l.pushed) + 1] = x
        /\ m - Top.from[2] \in DOMAIN l2.pushed /\ Len(l.pushed) + 1 \in DOMAIN l2.pushed
        /\ m - Top.from[2] # Len(l.pushed) + 1
    BY <1>3, <1>5, <1>9, <2>1
  <2> QED
    BY <2>2, <2>3 DEF IsInjective
<1>14. BufferAs(t, l2)
  <2>1. Len(safety') <= Capacity
    <3>1. ~ SafetyFull(Len(safety))
      BY <1>1 DEF FaultOf
    <3> QED
      BY <1>10, <1>12, <3>1, InterpreterAssumption DEF SafetyFull
  <2>2. \A i, j \in DOMAIN safety' : safety'[i] = safety'[j] => i = j
    <3> SUFFICES ASSUME NEW i \in DOMAIN safety', NEW j \in DOMAIN safety',
                        safety'[i] = safety'[j], i # j
                 PROVE  FALSE
      OBVIOUS
    <3>1. CASE i \in DOMAIN safety /\ j \in DOMAIN safety
      BY <1>1, <1>12, <3>1 DEF RefInv
    <3>2. CASE i \notin DOMAIN safety
      BY <1>10, <1>12, <1>13, <3>2
    <3>3. CASE j \notin DOMAIN safety
      BY <1>10, <1>12, <1>13, <3>3
    <3> QED
      BY <3>1, <3>2, <3>3
  <2>3. OnlyAbove
    <3>1. ASSUME NEW i \in DOMAIN safety', NEW k \in DOMAIN calls, Top.from[2] < i, k # 1
          PROVE  safety'[i][1] # calls[k].id
      <4>1. CASE i \in DOMAIN safety
        BY <1>1, <1>12, <3>1, <4>1, AboveTop
      <4>2. CASE i \notin DOMAIN safety
        <5>1. safety'[i][1] = Top.id
          BY <1>10, <1>11, <1>12, <4>2
        <5> QED
          BY <1>1, <3>1, <5>1, TopCall DEF RefInv
      <4> QED
        BY <4>1, <4>2
    <3>2. \A i \in 1 .. Top.from[2] : safety'[i] = safety[i]
      BY <1>3, <1>10, <1>12
    <3>3. Top.from[2] <= Len(safety')
      BY <1>3, <1>10, <1>12
    <3> QED
      BY <1>12, <3>1, <3>2, <3>3 DEF OnlyAbove
  <2>4. PushedNow(t, l2, Len(safety))'
    <3> SUFFICES ASSUME NEW e, e = Len(safety')
                 PROVE  PushedNow(t, l2, e)'
      OBVIOUS
    <3>1. Len(l2.pushed) = Len(l.pushed) + 1 /\ t.from[2] + Len(l2.pushed) = e
      BY <1>3, <1>5, <1>8, <1>9, <1>10, <1>12
    <3>2. \A j \in 1 .. Len(l2.pushed) : safety'[t.from[2] + j] = <<t.id, l2.pushed[j]>>
      <4> SUFFICES ASSUME NEW j \in 1 .. Len(l2.pushed)
                   PROVE  safety'[t.from[2] + j] = <<t.id, l2.pushed[j]>>
        OBVIOUS
      <4>1. CASE j = Len(l.pushed) + 1
        <5>1. t.from[2] + j = Len(safety) + 1
          BY <1>3, <1>8, <1>10, <4>1
        <5>2. l2.pushed[j] = x
          BY <1>3, <1>5, <1>9, <4>1
        <5> QED
          BY <1>8, <1>12, <5>1, <5>2 DEF Obj
      <4>2. CASE j \in 1 .. Len(l.pushed)
        <5>1. t.from[2] + j \in 1 .. Len(safety) /\ l2.pushed[j] = l.pushed[j]
          BY <1>3, <1>5, <1>8, <1>9, <1>10, <4>2, SMTT(60)
        <5> QED
          BY <1>8, <1>10, <1>12, <4>2, <5>1 DEF Obj
      <4> QED
        BY <1>3, <3>1, <4>1, <4>2
    <3>3. \A m \in DOMAIN safety' :
            safety'[m][1] = t.id => m \in t.from[2] + 1 .. t.from[2] + Len(l2.pushed)
      <4> SUFFICES ASSUME NEW m \in DOMAIN safety', safety'[m][1] = t.id
                   PROVE  m \in t.from[2] + 1 .. t.from[2] + Len(l2.pushed)
        OBVIOUS
      <4>1. CASE m \in DOMAIN safety
        BY <1>3, <1>8, <1>10, <1>12, <3>1, <4>1
      <4>2. CASE m \notin DOMAIN safety
        BY <1>3, <1>8, <1>10, <1>12, <3>1, <4>2
      <4> QED
        BY <4>1, <4>2
    <3>4. l2.saved => t.base = t.from[2]
      BY <1>2, <1>5, <1>8 DEF TopIs, PushedNow
    <3>5. t.from[2] + Len(l2.pushed) <= e
      BY <1>10, <1>12, <3>1
    <3> QED
      BY <3>1, <3>2, <3>3, <3>4, <3>5 DEF PushedNow
  <2> QED
    BY <1>12, <2>1, <2>2, <2>3, <2>4 DEF BufferAs
<1>15. x = "env" => env # <<>> /\ env[1] = Obj("env") /\ Obj("env") \in held
  <2>1. x = "env" => "env" \in ToSet(l2.pushed)
    <3>1. l2.pushed[Len(l.pushed) + 1] = x /\ Len(l.pushed) + 1 \in 1 .. Len(l2.pushed)
      BY <1>3, <1>5, <1>9
    <3> QED
      BY <3>1, <1>3, <1>5, <1>9 DEF ToSet
  <2>2. x = "env" => l.inEnv
    BY <1>5, <1>9, <2>1 DEF KeepsRules
  <2>3. l.inEnv => env # <<>> /\ env[1] = Obj("env")
    BY <1>1, <1>2, <1>10, EnvOfTop DEF TopIs
  <2> QED
    BY <1>1, <1>2, <2>2, <2>3, EnvOwned
<1>16. EnvsAs(t, l2)
  <2>1. EnvNow(t, l2)'
    <3>1. EnvNow(t, l2)
      BY <1>2, <1>5, <1>8 DEF TopIs, EnvNow, Depth
    <3>2. \A i \in 1 .. t.from[2] : safety'[i] = safety[i]
      BY <1>3, <1>8, <1>10, <1>12
    <3>3. env' = env
      BY <1>6
    <3> QED
      BY ONLY <3>1, <3>2, <3>3, EnvNowStays
  <2>2. EnvsKept
    BY <1>1, <1>6, <1>14, EnvsStay DEF BufferAs
  <2>3. Top' = t /\ calls' # <<>>
    BY <1>1, <1>8, Continued
  <2>4. \A i \in DOMAIN env' :
          \/ env'[i] \in ToSet(safety')
          \/ i = 1 /\ calls' # <<>> /\ env'[i] = Obj("env")' /\ env'[i] \in held'
    <3>1. \A o \in ToSet(safety) : o \in ToSet(safety')
      BY <1>10, <1>12 DEF ToSet
    <3> QED
      BY <1>1, <1>6, <1>8, <2>3, <3>1 DEF EnvInv, Obj
  <2>5. \A m \in DOMAIN safety' : safety'[m][2] = "env" => safety'[m] \in ToSet(env')
    <3> SUFFICES ASSUME NEW m \in DOMAIN safety', safety'[m][2] = "env"
                 PROVE  safety'[m] \in ToSet(env)
      BY <1>6
    <3>1. CASE m \in DOMAIN safety
      BY <1>1, <1>12, <3>1 DEF EnvInv
    <3>2. CASE m \notin DOMAIN safety
      <4>1. safety'[m] = Obj(x) /\ x = "env"
        BY <1>10, <1>11, <1>12, <3>2
      <4>2. env # <<>> /\ env[1] = Obj("env") /\ 1 \in DOMAIN env
        BY <1>1, <1>15, <4>1 DEF Types
      <4> QED
        BY <4>1, <4>2 DEF ToSet
    <3> QED
      BY <3>1, <3>2
  <2>6. \A i, j \in DOMAIN env', m, q \in DOMAIN safety' :
          safety'[m] = env'[i] /\ safety'[q] = env'[j] /\ i < j => q < m
    <3> SUFFICES ASSUME NEW i \in DOMAIN env, NEW j \in DOMAIN env,
                        NEW m \in DOMAIN safety', NEW q \in DOMAIN safety',
                        safety'[m] = env[i], safety'[q] = env[j], i < j
                 PROVE  q < m
      BY <1>6
    <3>1. CASE q \in DOMAIN safety /\ m \in DOMAIN safety
      BY <1>1, <1>12, <3>1 DEF EnvInv
    <3>2. CASE q \notin DOMAIN safety
      <4>1. env[j] = Obj(x)
        BY <1>10, <1>12, <3>2
      <4>2. env[j] = Obj("env") /\ env # <<>> /\ env[1] = Obj("env") /\ 1 \in DOMAIN env
        BY <1>1, <1>11, <1>15, <4>1 DEF EnvInv, Types
      <4>3. j = 1 /\ i \in Nat /\ i >= 1
        BY <1>1, <4>2 DEF EnvInv, Types
      <4> QED
        BY <4>3
    <3>3. CASE q \in DOMAIN safety /\ m \notin DOMAIN safety
      BY <1>10, <1>12, <3>3
    <3> QED
      BY <3>1, <3>2, <3>3
  <2>7. EnvInv'
    BY <1>1, <1>6, <2>4, <2>5, <2>6 DEF EnvInv
  <2> QED
    BY <1>1, <1>6, <2>1, <2>2, <2>7 DEF EnvsAs, Types
<1>17. HeldAs(t, l2)
  <2>1. HeldNow(Top, l) /\ l2.pc = t.pc
    BY <1>2, <1>3, <1>5, <1>8 DEF TopIs
  <2> QED
    BY ONLY <1>1, <1>5, <1>6, <1>8, <2>1, HeldSame
<1>18. errorObj = NoObj
  BY <1>1, <1>2, NothingPends
<1>19. PendInv'
  BY <1>6, <1>18 DEF PendInv
<1>20. InJump(t) <=> InJump(Top)
  BY <1>8, <1>10 DEF InJump
<1>21. \A o \in ToSet(safety) : o \in ToSet(safety')
  BY <1>10, <1>12 DEF ToSet
<1>22. l2 \in Locals[t.fn]
  BY <1>8, <1>9
<1>23. Step.op \notin {"call", "reset_handler"}
  BY <1>1
<1> QED
  BY <1>1, <1>2, <1>5, <1>6, <1>8, <1>14, <1>16, <1>17, <1>19, <1>20, <1>21, <1>22, <1>23,
     GoesOn

LEMMA PopKeeps ==
  ASSUME IInv, qz_pop_safety
  PROVE  IInv'
<1>1. /\ Types /\ RefInv /\ FrameInv /\ EnvInv /\ PendInv /\ calls # <<>>
      /\ Step.op = "pop" /\ Advance
  BY DEF IInv, qz_pop_safety, Does, Running
<1>2. PICK l : TopIs(l)
  BY <1>1, TopIsSome
<1> SUFFICES ASSUME NEW x, x = Step.n,
                    NEW l2, l2 = [[l EXCEPT !.pc = @ + 1] EXCEPT !.pushed = SubSeq(@, 1, Len(@) - x)],
                    NEW t, t = [Top EXCEPT !.pc = @ + 1]
             PROVE  IInv'
  OBVIOUS
<1>3. /\ At(Top.fn, l) = Step /\ l \in LocalType /\ NameRules(l, Step) /\ l.pc = Top.pc
      /\ l.pc \in Nat /\ l.pushed \in Seq(Name) /\ Len(l.pushed) \in Nat
      /\ Top.fn \in Known
      /\ \A m \in Moves(Top.fn, l) : m \in Locals[Top.fn] /\ m \in LocalType
  BY <1>1, <1>2, TopRules DEF TopIs
<1>4. l2 \in Moves(Top.fn, l)
  <2>1. /\ At(Top.fn, l).op = "pop"
        /\ l2 = [[l EXCEPT !.pc = @ + 1]
                   EXCEPT !.pushed = SubSeq(@, 1, Len(@) - At(Top.fn, l).n)]
    BY <1>1, <1>3
  <2>2. Moves(Top.fn, l) = {[[l EXCEPT !.pc = @ + 1]
                               EXCEPT !.pushed = SubSeq(@, 1, Len(@) - At(Top.fn, l).n)]}
    BY <2>1 DEF Moves
  <2> QED
    BY <2>1, <2>2
<1>5. /\ l2.pc = l.pc + 1 /\ l2.pushed = SubSeq(l.pushed, 1, Len(l.pushed) - x)
      /\ l2.owns = l.owns /\ l2.freed = l.freed
      /\ l2.saved = l.saved /\ l2.inEnv = l.inEnv /\ l2.installed = l.installed
  BY <1>3 DEF LocalType
<1>6. /\ env' = env /\ safety' = SubSeq(safety, 1, Len(safety) - x) /\ pevalFail' = pevalFail
      /\ handler' = handler /\ errorObj' = errorObj /\ fault' = fault /\ held' = held
      /\ gone' = gone
  BY DEF qz_pop_safety
<1>7. calls' = With(t)
  BY <1>1 DEF Advance
<1>8. /\ Continues(t) /\ t.pc = Top.pc + 1 /\ t.base = Top.base /\ t.oldEnv = Top.oldEnv
      /\ t.fail = Top.fail /\ t.saved = Top.saved /\ t.fn = Top.fn /\ t.from = Top.from
      /\ t.id = Top.id
  <2>1. Top.pc + 1 \in Int
    BY <1>3
  <2> QED
    BY <1>1, <1>7, <2>1, Jumped DEF Continues
<1>9. x \in 0 .. Len(l.pushed) /\ l2 \in Locals[Top.fn]
  BY <1>1, <1>3, <1>4 DEF NameRules
<1>10. /\ Top.fn # "qz_peval" /\ Len(safety) = Top.from[2] + Len(l.pushed)
       /\ Top.from[2] \in Nat /\ Top.id \in Nat \ {0} /\ Len(safety) \in Nat
       /\ \A j \in 1 .. Len(l.pushed) : safety[Top.from[2] + j] = Obj(l.pushed[j])
       /\ \A m \in DOMAIN safety : safety[m][1] = Top.id =>
              m \in Top.from[2] + 1 .. Top.from[2] + Len(l.pushed)
  BY <1>1, <1>2, PushedOnTop
<1>11. /\ Len(l2.pushed) = Len(l.pushed) - x /\ Len(l2.pushed) \in Nat
       /\ \A j \in 1 .. Len(l.pushed) - x : l2.pushed[j] = l.pushed[j]
  BY <1>3, <1>5, <1>9
<1>12. /\ safety' \in Seq(Ref) /\ Len(safety') = Len(safety) - x
       /\ DOMAIN safety = 1 .. Len(safety) /\ DOMAIN safety' = 1 .. Len(safety) - x
       /\ \A m \in 1 .. Len(safety) - x : safety'[m] = safety[m]
  <2>1. safety \in Seq(Ref) /\ Len(safety) - x \in 0 .. Len(safety)
    BY <1>1, <1>3, <1>9, <1>10, SMTT(60) DEF Types
  <2> QED
    BY <1>6, <2>1
<1>13. \A m \in DOMAIN safety' : m \in DOMAIN safety /\ safety'[m] = safety[m]
  BY <1>9, <1>10, <1>12
<1>14. BufferAs(t, l2)
  <2>1. Len(safety') <= Capacity
    BY <1>1, <1>9, <1>10, <1>12, InterpreterAssumption DEF Types
  <2>2. \A i, j \in DOMAIN safety' : safety'[i] = safety'[j] => i = j
    BY <1>1, <1>13 DEF RefInv
  <2>3. OnlyAbove
    <3>1. \A i \in DOMAIN safety', k \in DOMAIN calls :
            Top.from[2] < i /\ k # 1 => safety'[i][1] # calls[k].id
      BY <1>1, <1>13, AboveTop
    <3>2. \A i \in 1 .. Top.from[2] : safety'[i] = safety[i]
      BY <1>3, <1>9, <1>10, <1>12
    <3>3. Top.from[2] <= Len(safety')
      BY <1>3, <1>9, <1>10, <1>12
    <3> QED
      BY <1>12, <3>1, <3>2, <3>3 DEF OnlyAbove
  <2>4. PushedNow(t, l2, Len(safety))'
    <3> SUFFICES ASSUME NEW e, e = Len(safety')
                 PROVE  PushedNow(t, l2, e)'
      OBVIOUS
    <3>1. t.from[2] + Len(l2.pushed) = e /\ t.from[2] + Len(l2.pushed) <= e
      <4>1. \A a, b, c \in Nat : /\ a + (b - c) = (a + b) - c
                               /\ a + (b - c) <= (a + b) - c
        OBVIOUS
      <4>2. x \in Nat /\ Top.from[2] \in Nat /\ Len(l.pushed) \in Nat
        BY <1>3, <1>9, <1>10
      <4>3. e = (Top.from[2] + Len(l.pushed)) - x
        BY <1>10, <1>12
      <4>4. /\ Top.from[2] + (Len(l.pushed) - x) = (Top.from[2] + Len(l.pushed)) - x
            /\ Top.from[2] + (Len(l.pushed) - x) <= (Top.from[2] + Len(l.pushed)) - x
        BY ONLY <4>1, <4>2
      <4> QED
        BY <1>8, <1>11, <4>3, <4>4
    <3>2. \A j \in 1 .. Len(l2.pushed) : safety'[t.from[2] + j] = <<t.id, l2.pushed[j]>>
      <4> SUFFICES ASSUME NEW j \in 1 .. Len(l2.pushed)
                   PROVE  safety'[t.from[2] + j] = <<t.id, l2.pushed[j]>>
        OBVIOUS
      <4>1. j \in 1 .. Len(l.pushed) /\ l2.pushed[j] = l.pushed[j]
        BY <1>3, <1>9, <1>11
      <4>2. Top.from[2] + j \in 1 .. Len(safety) - x
        <5>1. j \in Nat /\ j >= 1 /\ j <= Len(l.pushed) - x /\ x \in Nat
          BY <1>9, <1>11
        <5>2. Len(l.pushed) \in Nat /\ Len(safety) = Top.from[2] + Len(l.pushed)
              /\ Top.from[2] \in Nat
          BY <1>3, <1>10
        <5>3. \A a, b, c, d \in Nat : d >= 1 /\ d <= b - c => a + d \in 1 .. (a + b) - c
          OBVIOUS
        <5> QED
          BY <5>1, <5>2, <5>3
      <4> QED
        BY <1>8, <1>10, <1>12, <4>1, <4>2 DEF Obj
    <3>3. \A m \in DOMAIN safety' :
            safety'[m][1] = t.id => m \in t.from[2] + 1 .. t.from[2] + Len(l2.pushed)
      <4> SUFFICES ASSUME NEW m \in DOMAIN safety', safety'[m][1] = t.id
                   PROVE  m \in t.from[2] + 1 .. t.from[2] + Len(l2.pushed)
        OBVIOUS
      <4>1. m \in Top.from[2] + 1 .. Top.from[2] + Len(l.pushed) /\ m \in 1 .. Len(safety) - x
        BY <1>8, <1>10, <1>12, <1>13
      <4> QED
        BY <1>3, <1>8, <1>9, <1>10, <1>11, <4>1, SMTT(60)
    <3>4. l2.saved => t.base = t.from[2]
      BY <1>2, <1>5, <1>8 DEF TopIs, PushedNow
    <3> QED
      BY <3>1, <3>2, <3>3, <3>4 DEF PushedNow
  <2> QED
    BY <1>12, <2>1, <2>2, <2>3, <2>4 DEF BufferAs
\* what is popped is of the innermost call
<1>15. ASSUME NEW n \in DOMAIN safety, n \notin DOMAIN safety'
       PROVE  /\ safety[n][1] = Top.id
              /\ safety[n][2] = "env" => l.inEnv
  <2>1. n - Top.from[2] \in 1 .. Len(l.pushed) /\ n = Top.from[2] + (n - Top.from[2])
    <3>1. \A a, b, c, i \in Nat :
            c <= b /\ i \in 1 .. a + b /\ i \notin 1 .. (a + b) - c
              => i - a \in 1 .. b /\ i = a + (i - a)
      OBVIOUS
    <3>2. x \in Nat /\ x <= Len(l.pushed) /\ n \in Nat
      BY <1>9, <1>12
    <3>3. n \in 1 .. Top.from[2] + Len(l.pushed)
          /\ n \notin 1 .. (Top.from[2] + Len(l.pushed)) - x
      BY <1>10, <1>12, <1>15
    <3> QED
      BY ONLY <1>3, <1>10, <3>1, <3>2, <3>3, SMTT(60)
  <2>2. safety[n] = Obj(l.pushed[n - Top.from[2]])
    BY <1>10, <2>1
  <2>3. l.pushed[n - Top.from[2]] \in ToSet(l.pushed)
    BY <1>3, <2>1 DEF ToSet
  <2>4. "env" \in ToSet(l.pushed) => l.inEnv
    BY <1>1, <1>2, TopRules DEF TopIs
  <2> QED
    BY <2>2, <2>3, <2>4 DEF Obj
<1>16. EnvsAs(t, l2)
  <2>1. EnvNow(t, l2)'
    <3>1. EnvNow(t, l2)
      BY <1>2, <1>5, <1>8 DEF TopIs, EnvNow, Depth
    <3>2. \A i \in 1 .. t.from[2] : safety'[i] = safety[i]
      BY <1>3, <1>8, <1>9, <1>10, <1>12
    <3>3. env' = env
      BY <1>6
    <3> QED
      BY ONLY <3>1, <3>2, <3>3, EnvNowStays
  <2>2. EnvsKept
    BY <1>1, <1>6, <1>14, EnvsStay DEF BufferAs
  <2>3. Top' = t /\ calls' # <<>>
    BY <1>1, <1>8, Continued
  <2>4. \A i \in DOMAIN env' :
          \/ env'[i] \in ToSet(safety')
          \/ i = 1 /\ calls' # <<>> /\ env'[i] = Obj("env")' /\ env'[i] \in held'
    <3> SUFFICES ASSUME NEW i \in DOMAIN env, env[i] \notin ToSet(safety')
                 PROVE  i = 1 /\ env[i] = Obj("env") /\ env[i] \in held
      BY <1>6, <1>8, <2>3 DEF Obj
    <3>1. CASE env[i] \notin ToSet(safety)
      BY <1>1, <3>1 DEF EnvInv
    <3>2. CASE env[i] \in ToSet(safety)
      <4>1. PICK n \in DOMAIN safety : safety[n] = env[i]
        BY <3>2 DEF ToSet
      <4>2. n \notin DOMAIN safety'
        <5>1. n \in DOMAIN safety' => safety'[n] = env[i]
          BY <1>13, <4>1
        <5> QED
          BY <5>1 DEF ToSet
      <4>3. l.inEnv
        BY <1>1, <1>15, <4>1, <4>2 DEF EnvInv
      <4>4. env # <<>> /\ env[1] = Obj("env") /\ 1 \in DOMAIN env
        <5>1. env # <<>> /\ env[1] = Obj("env")
          BY <1>1, <1>2, <1>10, <4>3, EnvOfTop DEF TopIs
        <5> QED
          BY <1>1, <5>1 DEF Types
      <4>5. env[i] = Obj("env")
        <5>1. env[i] = <<env[i][1], env[i][2]>>
          BY <1>1 DEF Types, Ref
        <5> QED
          BY <1>1, <1>15, <4>1, <4>2, <5>1 DEF EnvInv, Obj
      <4>6. i = 1
        BY <1>1, <4>4, <4>5 DEF EnvInv
      <4>7. Obj("env") \in held
        BY <1>1, <1>2, <4>3, EnvOwned
      <4> QED
        BY <4>5, <4>6, <4>7
    <3> QED
      BY <3>1, <3>2
  <2>5. \A m \in DOMAIN safety' : safety'[m][2] = "env" => safety'[m] \in ToSet(env')
    BY <1>1, <1>6, <1>13 DEF EnvInv
  <2>6. \A i, j \in DOMAIN env', m, q \in DOMAIN safety' :
          safety'[m] = env'[i] /\ safety'[q] = env'[j] /\ i < j => q < m
    <3> SUFFICES ASSUME NEW i \in DOMAIN env, NEW j \in DOMAIN env,
                        NEW m \in DOMAIN safety', NEW q \in DOMAIN safety',
                        safety'[m] = env[i], safety'[q] = env[j], i < j
                 PROVE  q < m
      BY <1>6
    <3> QED
      BY <1>1, <1>13 DEF EnvInv
  <2>7. EnvInv'
    BY <1>1, <1>6, <2>4, <2>5, <2>6 DEF EnvInv
  <2> QED
    BY <1>1, <1>6, <2>1, <2>2, <2>7 DEF EnvsAs, Types
<1>17. HeldAs(t, l2)
  <2>1. HeldNow(Top, l) /\ l2.pc = t.pc
    BY <1>2, <1>3, <1>5, <1>8 DEF TopIs
  <2> QED
    BY ONLY <1>1, <1>5, <1>6, <1>8, <2>1, HeldSame
<1>18. errorObj = NoObj
  BY <1>1, <1>2, NothingPends
<1>19. PendInv'
  BY <1>6, <1>18 DEF PendInv
<1>20. InJump(t) <=> InJump(Top)
  BY <1>8, <1>10 DEF InJump
<1>21. \A o \in ToSet(safety) : o \in ToSet(safety') \/ o[1] \in LiveIds(calls)
  <2> SUFFICES ASSUME NEW n \in DOMAIN safety
               PROVE  safety[n] \in ToSet(safety') \/ safety[n][1] \in LiveIds(calls)
    BY DEF ToSet
  <2>1. CASE n \in DOMAIN safety'
    BY <1>13, <2>1 DEF ToSet
  <2>2. CASE n \notin DOMAIN safety'
    BY <1>1, <1>15, <2>2, TopCall DEF LiveIds
  <2> QED
    BY <2>1, <2>2
<1>22. l2 \in Locals[t.fn]
  BY <1>8, <1>9
<1>23. Step.op \notin {"call", "reset_handler"}
  BY <1>1
<1> QED
  BY <1>1, <1>2, <1>5, <1>6, <1>8, <1>14, <1>16, <1>17, <1>19, <1>20, <1>21, <1>22, <1>23,
     GoesOn

(***************************************************************************)
(* Steps that change the longjmp target, the handler or the error object.  *)
(***************************************************************************)

(* The innermost call goes on, the buffer and the environments stay.       *)
LEMMA CalmStep ==
  ASSUME IInv, calls # <<>>, NEW l, TopIs(l), NEW t, Continues(t),
         NEW l2 \in Locals[Top.fn], HeldAs(t, l2), l2.pushed = l.pushed,
         l2.saved => t.base = Top.from[2], l2.inEnv = l.inEnv, t.oldEnv = Top.oldEnv,
         MayHoldDead(Top) => \/ MayHoldDead(t)
                             \/ Len(safety) = Top.from[2] + Len(l.pushed),
         env' = env, safety' = safety, fault' = fault,
         pevalFail' \in Nat, handler' \in AnyRef, errorObj' \in AnyRef
  PROVE  /\ Types' /\ RefInv' /\ FrameInv' /\ EnvInv' /\ WaitInv'
         /\ \A o \in gone' : o \in gone \/ o[1] = Top.id
<1>1. Types /\ RefInv /\ FrameInv /\ EnvInv /\ WaitInv /\ PendInv
  BY DEF IInv
<1>2. BufferAs(t, l2)
  BY <1>1, BufferSame
<1>3. Top.fn \in Known /\ t.fn = Top.fn /\ t.id = Top.id
  BY <1>1, TopCall, CallTypes DEF Continues
<1>4. Obj("env") \in held => Obj("env") \in held'
  <2>1. l.inEnv <=> Obj("env") \in held
    BY <1>1, EnvOwned
  <2>2. l2.inEnv <=> "env" \in l2.owns
    BY <1>3, Rules DEF KeepsRules
  <2>3. Obj("env") \in {Top.id} \X l2.owns => Obj("env") \in held'
    BY <1>3 DEF HeldAs, HeldNow
  <2> QED
    BY <2>1, <2>2, <2>3 DEF Obj
<1>5. EnvsAs(t, l2)
  <2>1. OnlyAbove
    BY <1>2 DEF BufferAs
  <2> QED
    BY <1>1, <1>4, <2>1, EnvsSame
<1>6. FrameInv'
  BY <1>1, <1>2, <1>3, <1>5, FramesContinue DEF HeldAs, BufferAs, EnvsAs
<1>7. \A o \in gone' : o \in gone \/ o[1] = Top.id
  BY DEF HeldAs, OnlyOwn
<1>8. RefInv'
  <2>1. \A o \in held' : o[1] \in LiveIds(calls) \/ o \in ToSet(safety') \/ o = errorObj'
    <3> SUFFICES ASSUME NEW o \in held', o[1] \notin LiveIds(calls), o # errorObj'
                 PROVE  o \in ToSet(safety')
      OBVIOUS
    <3>1. Top.id \in LiveIds(calls)
      BY <1>1, TopCall DEF LiveIds
    <3>2. o \in held /\ o # errorObj
      BY <3>1 DEF HeldAs, OnlyOwn
    <3> QED
      BY <1>1, <3>2 DEF RefInv, NothingLost
  <2> QED
    BY <1>1, <1>2, <1>7, <2>1, RefsContinue DEF BufferAs
<1>9. Types'
  BY <1>1, Continued DEF Types, HeldAs
<1>10. WaitInv'
  BY <1>1, WaitContinues
<1> QED
  BY <1>5, <1>6, <1>7, <1>8, <1>9, <1>10 DEF EnvsAs

(* Whether the next state of a call has a handler installed.               *)
LEMMA Installs ==
  ASSUME Types, calls # <<>>, NEW l, TopIs(l), NEW t, Continues(t),
         NEW l2 \in Locals[Top.fn], l2.pc = t.pc
  PROVE  Around(t) <=> l2.installed
<1>1. Top.fn \in Known /\ t.fn = Top.fn
  BY TopCall, CallTypes DEF Continues
<1> QED
  BY <1>1, Rules DEF KeepsRules, Around

LEMMA SaveSizeKeeps ==
  ASSUME IInv, SaveSafetySize
  PROVE  IInv'
<1>1. /\ Types /\ RefInv /\ FrameInv /\ FailInv /\ HandlerInv /\ PendInv /\ calls # <<>>
      /\ Step.op = "save_size"
  BY DEF IInv, SaveSafetySize, Does, Running
<1>2. PICK l : TopIs(l)
  BY <1>1, TopIsSome
<1> SUFFICES ASSUME NEW l2, l2 = [[l EXCEPT !.pc = @ + 1] EXCEPT !.saved = TRUE],
                    NEW t, t = [Top EXCEPT !.base = Len(safety), !.pc = @ + 1]
             PROVE  IInv'
  OBVIOUS
<1>3. /\ At(Top.fn, l) = Step /\ l \in LocalType /\ StateRules(Top.fn, l, Step)
      /\ l.pc = Top.pc /\ l.pc \in Nat
      /\ l.installed <=> Around(Top)
      /\ \A m \in Moves(Top.fn, l) : m \in Locals[Top.fn]
  BY <1>1, <1>2, TopRules DEF TopIs
<1>4. l2 \in Locals[Top.fn]
  BY <1>1, <1>3 DEF Moves
<1>5. /\ l2.pc = l.pc + 1 /\ l2.pushed = l.pushed /\ l2.owns = l.owns /\ l2.freed = l.freed
      /\ l2.inEnv = l.inEnv /\ l2.installed = l.installed
  BY <1>3 DEF LocalType
<1>6. /\ env' = env /\ safety' = safety /\ pevalFail' = pevalFail
      /\ handler' = handler /\ errorObj' = errorObj /\ fault' = fault /\ held' = held
      /\ gone' = gone /\ calls' = With(t)
  BY DEF SaveSafetySize
<1>7. /\ Top.fn # "qz_peval" /\ Len(safety) = Top.from[2] + Len(l.pushed)
      /\ Top.from[2] \in Nat /\ ~ MayHoldDead(Top)
  BY <1>1, <1>2, PushedOnTop
<1>8. Len(safety) = Top.from[2]
  BY <1>1, <1>3, <1>7 DEF StateRules
<1>9. /\ t \in CallType /\ t.fn = Top.fn /\ t.id = Top.id /\ t.dest = Top.dest
      /\ t.from = Top.from /\ t.safeCall = Top.safeCall /\ t.pc = Top.pc + 1
      /\ t.base = Len(safety) /\ t.oldEnv = Top.oldEnv /\ t.fail = Top.fail
      /\ t.saved = Top.saved
  <2>1. Top \in CallType
    BY <1>1, TopCall
  <2>2. Len(safety) \in 0 .. Capacity
    BY <1>1, InterpreterAssumption DEF Types
  <2>3. Top.pc + 1 \in Int /\ Top.pc \in Int
    BY <1>3
  <2> DEFINE u == [Top EXCEPT !.base = Len(safety)]
  <2>4. /\ u \in CallType /\ u.fn = Top.fn /\ u.id = Top.id /\ u.dest = Top.dest
        /\ u.from = Top.from /\ u.safeCall = Top.safeCall /\ u.pc = Top.pc
        /\ u.base = Len(safety) /\ u.oldEnv = Top.oldEnv /\ u.fail = Top.fail
        /\ u.saved = Top.saved
    BY <2>1, <2>2 DEF CallType
  <2>5. t = [u EXCEPT !.pc = @ + 1]
    BY <2>1 DEF CallType
  <2> HIDE DEF u
  <2> QED
    BY <2>3, <2>4, <2>5 DEF CallType
<1>10. Continues(t)
  BY <1>1, <1>6, <1>9 DEF Continues
<1>11. HeldAs(t, l2)
  <2>1. HeldNow(Top, l) /\ l2.pc = t.pc
    BY <1>2, <1>3, <1>5, <1>9 DEF TopIs
  <2> QED
    BY ONLY <1>1, <1>5, <1>6, <1>10, <2>1, HeldSame
<1>12. /\ Types' /\ RefInv' /\ FrameInv' /\ EnvInv' /\ WaitInv'
  <2>1. pevalFail' \in Nat /\ handler' \in AnyRef /\ errorObj' \in AnyRef
    BY <1>1, <1>6 DEF Types
  <2> QED
    BY <1>1, <1>2, <1>4, <1>5, <1>6, <1>7, <1>8, <1>9, <1>10, <1>11, <2>1, CalmStep, ZenonT(60)
<1>13. FailInv'
  <2>1. ~ InJump(t) /\ ~ InJump(Top)
    BY <1>7, <1>9 DEF InJump
  <2> QED
    BY <1>1, <1>6, <1>10, <2>1, FailContinues
<1>14. HandlerInv'
  <2>1. Around(t) <=> Around(Top)
    <3>1. l2.pc = t.pc
      BY <1>3, <1>5, <1>9
    <3>2. Around(t) <=> l2.installed
      BY <1>1, <1>2, <1>4, <1>10, <3>1, Installs
    <3> QED
      BY ONLY <1>3, <1>5, <3>2
  <2> QED
    BY <1>1, <1>6, <1>9, <1>10, <2>1, HandlerContinues
<1>15. PendInv'
  <2>1. errorObj = NoObj
    BY <1>1, <1>2, NothingPends
  <2> QED
    BY <1>6, <2>1 DEF PendInv
<1> QED
  BY <1>12, <1>13, <1>14, <1>15 DEF IInv

LEMMA CleanupReturnsKeeps ==
  ASSUME IInv, CleanupReturns
  PROVE  IInv'
<1>1. /\ Types /\ RefInv /\ FrameInv /\ FailInv /\ HandlerInv /\ PendInv /\ calls # <<>>
      /\ Step.op = "cleanup" /\ Len(safety) = Top.base /\ Advance
  BY DEF IInv, CleanupReturns, Does, Running
<1>2. PICK l : TopIs(l)
  BY <1>1, TopIsSome
<1> SUFFICES ASSUME NEW l2, l2 = [l EXCEPT !.pc = @ + 1],
                    NEW t, t = [Top EXCEPT !.pc = @ + 1]
             PROVE  IInv'
  OBVIOUS
<1>3. /\ At(Top.fn, l) = Step /\ l \in LocalType /\ StateRules(Top.fn, l, Step)
      /\ l.pc = Top.pc /\ l.pc \in Nat
      /\ l.installed <=> Around(Top)
      /\ \A m \in Moves(Top.fn, l) : m \in Locals[Top.fn]
  BY <1>1, <1>2, TopRules DEF TopIs
<1>4. l2 \in Locals[Top.fn]
  BY <1>1, <1>3 DEF Moves
<1>5. /\ l2.pc = l.pc + 1 /\ l2.pushed = l.pushed /\ l2.owns = l.owns /\ l2.freed = l.freed
      /\ l2.inEnv = l.inEnv /\ l2.installed = l.installed /\ l2.saved = l.saved
  BY <1>3 DEF LocalType
<1>6. /\ env' = env /\ safety' = safety /\ pevalFail' = pevalFail
      /\ handler' = handler /\ errorObj' = errorObj /\ fault' = fault /\ held' = held
      /\ gone' = gone /\ calls' = With(t)
  BY <1>1 DEF CleanupReturns, Advance
<1>7. Top.base = Top.from[2] /\ l.pushed = <<>> /\ Top.from[2] \in Nat
  <2>1. l.saved /\ l.pushed = <<>>
    BY <1>1, <1>3 DEF StateRules
  <2> QED
    BY <1>1, <1>2, <2>1, TopCall, CallTypes DEF TopIs, PushedNow
<1>8. Len(safety) = Top.from[2] + Len(l.pushed)
  BY <1>1, <1>7
<1>9. /\ Continues(t) /\ t.pc = Top.pc + 1 /\ t.base = Top.base /\ t.oldEnv = Top.oldEnv
      /\ t.fail = Top.fail /\ t.saved = Top.saved /\ t.fn = Top.fn
  <2>1. Top.pc + 1 \in Int
    BY <1>3
  <2> QED
    BY <1>1, <1>6, <2>1, Jumped DEF Continues
<1>10. HeldAs(t, l2)
  <2>1. HeldNow(Top, l) /\ l2.pc = t.pc
    BY <1>2, <1>3, <1>5, <1>9 DEF TopIs
  <2> QED
    BY ONLY <1>1, <1>5, <1>6, <1>9, <2>1, HeldSame
<1>11. /\ Types' /\ RefInv' /\ FrameInv' /\ EnvInv' /\ WaitInv'
  <2>1. pevalFail' \in Nat /\ handler' \in AnyRef /\ errorObj' \in AnyRef
    BY <1>1, <1>6 DEF Types
  <2>2. l2.saved => t.base = Top.from[2]
    BY <1>7, <1>9
  <2> QED
    BY <1>1, <1>2, <1>4, <1>5, <1>6, <1>8, <1>9, <1>10, <2>1, <2>2, CalmStep, ZenonT(60)
<1>12. Top.fn = "qz_peval" => Top.pc = 9
  BY <1>1, <1>2, PevalTop
<1>13. FailInv'
  <2>1. InJump(t) <=> InJump(Top)
    BY <1>9, <1>12, Peval DEF InJump
  <2> QED
    BY <1>1, <1>6, <1>9, <2>1, FailContinues
<1>14. HandlerInv'
  <2>1. Around(t) <=> Around(Top)
    BY <1>1, <1>2, <1>3, <1>4, <1>5, <1>9, Installs, ZenonT(60)
  <2> QED
    BY <1>1, <1>6, <1>9, <2>1, HandlerContinues
<1>15. PendInv'
  <2>1. Top' = t /\ Len(calls') = Len(calls) /\ calls' # <<>>
    BY <1>1, <1>9, Continued
  <2>2. errorObj # NoObj => Top.fn = "qz_peval" /\ handler = NoObj /\ t.pc >= CatchPc + 5
    BY <1>1, <1>9, <1>12 DEF PendInv, CatchPc
  <2> QED
    BY <1>1, <1>6, <1>9, <2>1, <2>2 DEF PendInv
<1> QED
  BY <1>11, <1>13, <1>14, <1>15 DEF IInv

LEMMA SkipKeeps ==
  ASSUME IInv, SkipIfNoHandler
  PROVE  IInv'
<1>1. /\ Types /\ RefInv /\ FrameInv /\ FailInv /\ HandlerInv /\ PendInv /\ calls # <<>>
      /\ Step.op = "if_handler"
  BY DEF IInv, SkipIfNoHandler, Does, Running
<1>2. PICK l : TopIs(l)
  BY <1>1, TopIsSome
<1>3. /\ At(Top.fn, l) = Step /\ l \in LocalType /\ StateRules(Top.fn, l, Step)
      /\ l.pc = Top.pc /\ l.pc \in Nat
      /\ l.installed <=> Around(Top)
      /\ \A m \in Moves(Top.fn, l) : m \in Locals[Top.fn]
  BY <1>1, <1>2, TopRules DEF TopIs
<1>4. Top.fn = "qz_peval" /\ Top.pc = 4 /\ Step.n = 4
  <2>1. Top.fn = "qz_peval"
    BY <1>1, <1>3 DEF StateRules
  <2> QED
    BY <1>1, <1>2, <2>1, PevalTop
<1> SUFFICES ASSUME NEW d, d = IF handler = NoObj THEN 5 ELSE 1,
                    NEW l2, l2 = [l EXCEPT !.pc = @ + d],
                    NEW t, t = [Top EXCEPT !.pc = @ + d]
             PROVE  IInv'
  OBVIOUS
<1>5. l2 \in Locals[Top.fn]
  <2>1. {[l EXCEPT !.pc = @ + 1], [[l EXCEPT !.pc = @ + 1] EXCEPT !.pc = @ + 4]}
          \subseteq Moves(Top.fn, l)
    BY <1>1, <1>3, <1>4 DEF Moves
  <2>2. [[l EXCEPT !.pc = @ + 1] EXCEPT !.pc = @ + 4] = [l EXCEPT !.pc = @ + 5]
    <3>1. (l.pc + 1) + 4 = l.pc + 5
      BY <1>3
    <3> QED
      BY <1>3, <3>1 DEF LocalType
  <2> QED
    BY <1>3, <2>1, <2>2
<1>6. /\ l2.pc = l.pc + d /\ l2.pushed = l.pushed /\ l2.owns = l.owns /\ l2.freed = l.freed
      /\ l2.inEnv = l.inEnv /\ l2.installed = l.installed /\ l2.saved = l.saved
  BY <1>3 DEF LocalType
<1>7. /\ env' = env /\ safety' = safety /\ pevalFail' = pevalFail
      /\ handler' = handler /\ errorObj' = errorObj /\ fault' = fault /\ held' = held
      /\ gone' = gone /\ calls' = With(t)
  <2>1. calls' = With([Top EXCEPT !.pc = @ + 1 + (IF handler = NoObj THEN 4 ELSE 0)])
    BY <1>4 DEF SkipIfNoHandler
  <2>2. Top.pc + 1 + (IF handler = NoObj THEN 4 ELSE 0) = Top.pc + d
    BY <1>4
  <2> QED
    BY <2>1, <2>2 DEF SkipIfNoHandler
<1>8. /\ Continues(t) /\ t.pc = Top.pc + d /\ t.base = Top.base /\ t.oldEnv = Top.oldEnv
      /\ t.fail = Top.fail /\ t.saved = Top.saved /\ t.fn = Top.fn
  <2>1. Top.pc + d \in Int
    BY <1>4
  <2> QED
    BY <1>1, <1>7, <2>1, Jumped DEF Continues
<1>9. t.pc \in {5, 9} /\ t.fn = "qz_peval" /\ (t.pc = 9 => handler = NoObj)
  BY <1>4, <1>8
<1>10. HeldAs(t, l2)
  <2>1. HeldNow(Top, l) /\ l2.pc = t.pc
    BY <1>2, <1>3, <1>6, <1>8 DEF TopIs
  <2> QED
    BY ONLY <1>1, <1>6, <1>7, <1>8, <2>1, HeldSame
<1>11. /\ Types' /\ RefInv' /\ FrameInv' /\ EnvInv' /\ WaitInv'
  <2>1. pevalFail' \in Nat /\ handler' \in AnyRef /\ errorObj' \in AnyRef
    BY <1>1, <1>7 DEF Types
  <2>2. l2.saved => t.base = Top.from[2]
    BY <1>2, <1>6, <1>8 DEF TopIs, PushedNow
  <2>3. MayHoldDead(t)
    BY <1>9 DEF MayHoldDead, CatchPc
  <2> QED
    BY <1>1, <1>2, <1>5, <1>6, <1>7, <1>8, <1>10, <2>1, <2>2, <2>3, CalmStep, ZenonT(60)
<1>12. FailInv'
  <2>1. InJump(t) <=> InJump(Top)
    BY <1>4, <1>9, Peval DEF InJump
  <2> QED
    BY <1>1, <1>7, <1>8, <2>1, FailContinues
<1>13. HandlerInv'
  <2>1. ~ Around(t) /\ ~ Around(Top)
    BY <1>4, <1>9 DEF Around, AroundPeval, CatchPc
  <2> QED
    BY <1>1, <1>7, <1>8, <2>1, HandlerContinues
<1>14. PendInv'
  <2>1. Top' = t /\ Len(calls') = Len(calls) /\ calls' # <<>>
    BY <1>1, <1>8, Continued
  <2> QED
    BY <1>1, <1>7, <1>9, <2>1 DEF PendInv, CatchPc
<1> QED
  BY <1>11, <1>12, <1>13, <1>14 DEF IInv

LEMMA ResetJumpKeeps ==
  ASSUME IInv, ResetJump
  PROVE  IInv'
<1>1. /\ Types /\ RefInv /\ FrameInv /\ FailInv /\ HandlerInv /\ PendInv /\ calls # <<>>
      /\ Step.op = "reset_jmp" /\ Advance
  BY DEF IInv, ResetJump, Does, Running
<1>2. PICK l : TopIs(l)
  BY <1>1, TopIsSome
<1>3. /\ At(Top.fn, l) = Step /\ l \in LocalType /\ StateRules(Top.fn, l, Step)
      /\ l.pc = Top.pc /\ l.pc \in Nat
      /\ l.installed <=> Around(Top)
      /\ \A m \in Moves(Top.fn, l) : m \in Locals[Top.fn]
  BY <1>1, <1>2, TopRules DEF TopIs
<1>4. Top.fn = "qz_peval" /\ Top.pc = 10
  <2>1. Top.fn = "qz_peval"
    BY <1>1, <1>3 DEF StateRules
  <2> QED
    BY <1>1, <1>2, <2>1, PevalTop
<1> SUFFICES ASSUME NEW l2, l2 = [l EXCEPT !.pc = @ + 1],
                    NEW t, t = [Top EXCEPT !.pc = @ + 1]
             PROVE  IInv'
  OBVIOUS
<1>5. l2 \in Locals[Top.fn]
  BY <1>1, <1>3 DEF Moves
<1>6. /\ l2.pc = l.pc + 1 /\ l2.pushed = l.pushed /\ l2.owns = l.owns /\ l2.freed = l.freed
      /\ l2.inEnv = l.inEnv /\ l2.installed = l.installed /\ l2.saved = l.saved
  BY <1>3 DEF LocalType
<1>7. /\ env' = env /\ safety' = safety /\ pevalFail' = Top.fail
      /\ handler' = handler /\ errorObj' = errorObj /\ fault' = fault /\ held' = held
      /\ gone' = gone /\ calls' = With(t)
  BY <1>1 DEF ResetJump, Advance, OldPevalFail
<1>8. /\ Continues(t) /\ t.pc = Top.pc + 1 /\ t.base = Top.base /\ t.oldEnv = Top.oldEnv
      /\ t.fail = Top.fail /\ t.saved = Top.saved /\ t.fn = Top.fn /\ t.from = Top.from
  <2>1. Top.pc + 1 \in Int
    BY <1>3
  <2> QED
    BY <1>1, <1>7, <2>1, Jumped DEF Continues
<1>9. t.pc = 11 /\ t.fn = "qz_peval"
  BY <1>4, <1>8
<1>10. HeldAs(t, l2)
  <2>1. HeldNow(Top, l) /\ l2.pc = t.pc
    BY <1>2, <1>3, <1>6, <1>8 DEF TopIs
  <2> QED
    BY ONLY <1>1, <1>6, <1>7, <1>8, <2>1, HeldSame
<1>11. /\ Types' /\ RefInv' /\ FrameInv' /\ EnvInv' /\ WaitInv'
  <2>1. pevalFail' \in Nat /\ handler' \in AnyRef /\ errorObj' \in AnyRef
    BY <1>1, <1>7, TopCall, CallTypes DEF Types
  <2>2. l2.saved => t.base = Top.from[2]
    BY <1>2, <1>6, <1>8 DEF TopIs, PushedNow
  <2>3. ~ MayHoldDead(Top)
    <3>1. Now(Top) = Step
      BY <1>1, <1>2, TopRules DEF TopIs
    <3> QED
      BY <1>1, <1>4, <3>1 DEF MayHoldDead, CatchPc
  <2> QED
    BY <1>1, <1>2, <1>5, <1>6, <1>7, <1>8, <1>10, <2>1, <2>2, <2>3, CalmStep, ZenonT(60)
<1>12. FailInv'
  <2>1. InJump(Top) /\ ~ InJump(t)
    BY <1>4, <1>9, Peval DEF InJump
  <2>2. Top.fail = t.from[3]
    BY <1>1, <1>8, <2>1, FailTop
  <2> QED
    BY <1>1, <1>7, <1>8, <2>1, <2>2, FailMoves
<1>13. HandlerInv'
  <2>1. ~ Around(t) /\ ~ Around(Top)
    BY <1>4, <1>9 DEF Around, AroundPeval, CatchPc
  <2> QED
    BY <1>1, <1>7, <1>8, <2>1, HandlerContinues
<1>14. PendInv'
  <2>1. Top' = t /\ Len(calls') = Len(calls) /\ calls' # <<>>
    BY <1>1, <1>8, Continued
  <2>2. errorObj # NoObj => handler = NoObj
    BY <1>1, <1>4 DEF PendInv, CatchPc
  <2> QED
    BY <1>1, <1>7, <1>9, <2>1, <2>2 DEF PendInv, CatchPc
<1> QED
  BY <1>11, <1>12, <1>13, <1>14 DEF IInv

LEMMA SetJumpKeeps ==
  ASSUME IInv, SetJump
  PROVE  IInv'
<1>1. /\ Types /\ RefInv /\ FrameInv /\ FailInv /\ HandlerInv /\ PendInv /\ calls # <<>>
      /\ Step.op = "setjmp"
  BY DEF IInv, SetJump, Does, Running
<1>2. PICK l : TopIs(l)
  BY <1>1, TopIsSome
<1>3. /\ At(Top.fn, l) = Step /\ l \in LocalType /\ StateRules(Top.fn, l, Step)
      /\ l.pc = Top.pc /\ l.pc \in Nat
      /\ l.installed <=> Around(Top)
      /\ \A m \in Moves(Top.fn, l) : m \in Locals[Top.fn]
  BY <1>1, <1>2, TopRules DEF TopIs
<1>4. Top.fn = "qz_peval" /\ Top.pc = 1 /\ l.pushed = <<>>
  <2>1. Top.fn = "qz_peval"
    BY <1>1, <1>3 DEF StateRules
  <2> QED
    BY <1>1, <1>2, <2>1, PevalTop
<1> SUFFICES ASSUME NEW l2, l2 = [[l EXCEPT !.pc = @ + 1] EXCEPT !.saved = TRUE],
                    NEW t, t = [Top EXCEPT !.fail = pevalFail, !.base = Len(safety), !.pc = @ + 1]
             PROVE  IInv'
  OBVIOUS
<1>5. l2 \in Locals[Top.fn]
  BY <1>1, <1>3 DEF Moves
<1>6. /\ l2.pc = l.pc + 1 /\ l2.pushed = l.pushed /\ l2.owns = l.owns /\ l2.freed = l.freed
      /\ l2.inEnv = l.inEnv /\ l2.installed = l.installed
  BY <1>3 DEF LocalType
<1>7. /\ env' = env /\ safety' = safety /\ pevalFail' = Top.id
      /\ handler' = handler /\ errorObj' = NoObj /\ fault' = fault
      /\ held' = held \ {errorObj} /\ gone' = gone /\ calls' = With(t)
  BY DEF SetJump, OldError
<1>8. /\ t \in CallType /\ t.fn = Top.fn /\ t.id = Top.id /\ t.dest = Top.dest
      /\ t.from = Top.from /\ t.safeCall = Top.safeCall /\ t.pc = Top.pc + 1
      /\ t.base = Len(safety) /\ t.oldEnv = Top.oldEnv /\ t.fail = pevalFail
      /\ t.saved = Top.saved
  <2>1. Top \in CallType
    BY <1>1, TopCall
  <2>2. Len(safety) \in 0 .. Capacity /\ pevalFail \in Nat
    BY <1>1, InterpreterAssumption DEF Types
  <2>3. Top.pc + 1 \in Int /\ Top.pc \in Int
    BY <1>3
  <2> DEFINE u == [[Top EXCEPT !.fail = pevalFail] EXCEPT !.base = Len(safety)]
  <2>4. /\ u \in CallType /\ u.fn = Top.fn /\ u.id = Top.id /\ u.dest = Top.dest
        /\ u.from = Top.from /\ u.safeCall = Top.safeCall /\ u.pc = Top.pc
        /\ u.base = Len(safety) /\ u.oldEnv = Top.oldEnv /\ u.fail = pevalFail
        /\ u.saved = Top.saved
    BY <2>1, <2>2 DEF CallType
  <2>5. t = [u EXCEPT !.pc = @ + 1]
    BY <2>1 DEF CallType
  <2> HIDE DEF u
  <2> QED
    BY <2>3, <2>4, <2>5 DEF CallType
<1>9. Continues(t) /\ t.pc = 2 /\ t.fn = "qz_peval"
  <2>1. Continues(t)
    BY <1>1, <1>7, <1>8 DEF Continues
  <2> QED
    BY <1>4, <1>8, <2>1
<1>10. HeldAs(t, l2)
  <2>1. HeldNow(Top, l) /\ l2.pc = t.pc
    BY <1>2, <1>3, <1>6, <1>8 DEF TopIs
  <2>2. NoObj \notin held
    BY <1>1 DEF Types, NoObj, Ref
  <2>3. held' \ {errorObj'} = held \ {errorObj}
    BY <1>7, <2>2
  <2>4. HeldNow(t, l2)'
    BY <1>6, <1>7, <1>8, <2>1, <2>3 DEF HeldNow
  <2>5. OnlyOwn
    BY <1>7, <2>3 DEF OnlyOwn
  <2>6. IsFiniteSet(held') /\ held' \in SUBSET Ref
    BY <1>1, <1>7, FS_Subset DEF Types
  <2> QED
    BY <1>1, <1>7, <2>4, <2>5, <2>6 DEF HeldAs, Types
<1>11. ~ MayHoldDead(Top)
  <2>1. Now(Top) = Step
    BY <1>1, <1>2, TopRules DEF TopIs
  <2> QED
    BY <1>1, <1>4, <2>1 DEF MayHoldDead, CatchPc
<1>12. Len(safety) = Top.from[2]
  BY <1>1, <1>2, <1>4, <1>11, TopCall, CallTypes DEF TopIs, PushedNow
<1>13. /\ Types' /\ RefInv' /\ FrameInv' /\ EnvInv' /\ WaitInv'
  <2>1. pevalFail' \in Nat /\ handler' \in AnyRef /\ errorObj' \in AnyRef
    <3>1. NoObj \in AnyRef
      BY DEF NoObj, AnyRef, Name
    <3> QED
      BY <1>1, <1>7, <3>1, TopCall, CallTypes DEF Types
  <2> QED
    BY <1>1, <1>2, <1>5, <1>6, <1>7, <1>8, <1>9, <1>10, <1>11, <1>12, <2>1, CalmStep, ZenonT(60)
<1>14. FailInv'
  <2>1. ~ InJump(Top) /\ InJump(t)
    BY <1>4, <1>9, Peval DEF InJump
  <2>2. pevalFail = Top.from[3]
    BY <1>1, <2>1, FailTop
  <2> QED
    BY <1>1, <1>7, <1>8, <1>9, <2>1, <2>2, FailMoves
<1>15. HandlerInv'
  <2>1. ~ Around(t) /\ ~ Around(Top)
    BY <1>4, <1>9 DEF Around, AroundPeval, CatchPc
  <2> QED
    BY <1>1, <1>7, <1>9, <2>1, HandlerContinues
<1>16. PendInv'
  BY <1>7 DEF PendInv
<1> QED
  BY <1>13, <1>14, <1>15, <1>16 DEF IInv

LEMMA InstallKeeps ==
  ASSUME IInv, InstallHandler
  PROVE  IInv'
<1>1. /\ Types /\ RefInv /\ FrameInv /\ FailInv /\ HandlerInv /\ PendInv /\ calls # <<>>
      /\ Step.op = "set_handler"
  BY DEF IInv, InstallHandler, Does, Running
<1>2. PICK l : TopIs(l)
  BY <1>1, TopIsSome
<1>3. /\ At(Top.fn, l) = Step /\ l \in LocalType /\ StateRules(Top.fn, l, Step)
      /\ NameRules(l, Step) /\ l.pc = Top.pc /\ l.pc \in Nat
      /\ \A m \in Moves(Top.fn, l) : m \in Locals[Top.fn]
  BY <1>1, <1>2, TopRules DEF TopIs
<1> SUFFICES ASSUME NEW l2, l2 = [[l EXCEPT !.pc = @ + 1] EXCEPT !.installed = TRUE],
                    NEW t, t = [Top EXCEPT !.saved = handler, !.pc = @ + 1]
             PROVE  IInv'
  OBVIOUS
<1>4. l2 \in Locals[Top.fn]
  BY <1>1, <1>3 DEF Moves
<1>5. /\ l2.pc = l.pc + 1 /\ l2.pushed = l.pushed /\ l2.owns = l.owns /\ l2.freed = l.freed
      /\ l2.inEnv = l.inEnv /\ l2.saved = l.saved /\ l2.installed
  BY <1>3 DEF LocalType
<1>6. /\ env' = env /\ safety' = safety /\ pevalFail' = pevalFail
      /\ handler' = Obj(Step.var) /\ errorObj' = errorObj /\ fault' = fault
      /\ held' = held /\ gone' = gone /\ calls' = With(t)
  BY DEF InstallHandler
<1>7. Top.fn # "qz_peval" /\ ~ MayHoldDead(Top)
  BY <1>1, <1>2, PushedOnTop
<1>8. /\ t \in CallType /\ t.fn = Top.fn /\ t.id = Top.id /\ t.dest = Top.dest
      /\ t.from = Top.from /\ t.safeCall = Top.safeCall /\ t.pc = Top.pc + 1
      /\ t.base = Top.base /\ t.oldEnv = Top.oldEnv /\ t.fail = Top.fail
      /\ t.saved = handler
  <2>1. Top \in CallType /\ handler \in AnyRef
    BY <1>1, TopCall DEF Types
  <2>2. Top.pc + 1 \in Int /\ Top.pc \in Int
    BY <1>3
  <2> DEFINE u == [Top EXCEPT !.saved = handler]
  <2>3. /\ u \in CallType /\ u.fn = Top.fn /\ u.id = Top.id /\ u.dest = Top.dest
        /\ u.from = Top.from /\ u.safeCall = Top.safeCall /\ u.pc = Top.pc
        /\ u.base = Top.base /\ u.oldEnv = Top.oldEnv /\ u.fail = Top.fail
        /\ u.saved = handler
    BY <2>1 DEF CallType
  <2>4. t = [u EXCEPT !.pc = @ + 1]
    BY <2>1 DEF CallType
  <2> HIDE DEF u
  <2> QED
    BY <2>2, <2>3, <2>4 DEF CallType
<1>9. Continues(t)
  BY <1>1, <1>6, <1>8 DEF Continues
<1>10. HeldAs(t, l2)
  <2>1. HeldNow(Top, l) /\ l2.pc = t.pc
    BY <1>2, <1>3, <1>5, <1>8 DEF TopIs
  <2> QED
    BY ONLY <1>1, <1>5, <1>6, <1>9, <2>1, HeldSame
<1>11. /\ Types' /\ RefInv' /\ FrameInv' /\ EnvInv' /\ WaitInv'
  <2>1. pevalFail' \in Nat /\ handler' \in AnyRef /\ errorObj' \in AnyRef
    <3>1. Top.id \in Nat /\ Step.var \in Name
      BY <1>1, <1>3, TopCall, CallTypes DEF NameRules, Reads
    <3> QED
      BY <1>1, <1>6, <3>1 DEF Types, Obj, AnyRef
  <2>2. l2.saved => t.base = Top.from[2]
    BY <1>2, <1>5, <1>8 DEF TopIs, PushedNow
  <2> QED
    BY <1>1, <1>2, <1>4, <1>5, <1>6, <1>7, <1>8, <1>9, <1>10, <2>1, <2>2, CalmStep, ZenonT(60)
<1>12. FailInv'
  <2>1. ~ InJump(t) /\ ~ InJump(Top)
    BY <1>7, <1>8 DEF InJump
  <2> QED
    BY <1>1, <1>6, <1>9, <2>1, FailContinues
<1>13. HandlerInv'
  <2>1. Around(t)
    <3>1. l2.pc = t.pc
      BY <1>3, <1>5, <1>8
    <3>2. Around(t) <=> l2.installed
      BY <1>1, <1>2, <1>4, <1>9, <3>1, Installs
    <3> QED
      BY ONLY <1>5, <3>2
  <2>2. ~ Around(Top)
    <3>1. Script[Top.fn][Top.pc] = Step
      BY DEF Step
    <3> QED
      BY <1>1, <1>7, <3>1 DEF Around, AroundPeval, CallsPeval
  <2>3. handler = t.from[4]
    BY <1>1, <1>8, <2>2, HandlerTop
  <2>4. Obj(Step.var) \notin gone
    <3>1. Step.var \notin l.freed
      BY <1>1, <1>3 DEF NameRules, Reads
    <3>2. Obj(Step.var) \in {o \in gone : o[1] = Top.id} => Obj(Step.var) \in {Top.id} \X l.freed
      BY <1>2 DEF TopIs, HeldNow
    <3> QED
      BY <3>1, <3>2 DEF Obj
  <2>5. handler'[1] = t.id /\ handler' \notin gone'
    BY <1>6, <1>8, <2>4 DEF Obj
  <2>6. t.fn # "qz_peval"
    BY <1>7, <1>8
  <2> QED
    BY <1>1, <1>6, <1>8, <1>9, <2>1, <2>3, <2>5, <2>6, HandlerMoves
<1>14. PendInv'
  <2>1. errorObj = NoObj
    BY <1>1, <1>2, NothingPends
  <2> QED
    BY <1>6, <2>1 DEF PendInv
<1> QED
  BY <1>11, <1>12, <1>13, <1>14 DEF IInv

LEMMA RestoreKeeps ==
  ASSUME IInv, RestoreHandler
  PROVE  IInv'
<1>1. /\ Types /\ RefInv /\ FrameInv /\ FailInv /\ HandlerInv /\ PendInv /\ calls # <<>>
      /\ Step.op = "reset_handler"
  BY DEF IInv, RestoreHandler, Does, Running
<1>2. PICK l : TopIs(l)
  BY <1>1, TopIsSome
<1>3. /\ At(Top.fn, l) = Step /\ l \in LocalType /\ StateRules(Top.fn, l, Step)
      /\ NameRules(l, Step) /\ l.pc = Top.pc /\ l.pc \in Nat /\ Now(Top) = Step
      /\ \A m \in Moves(Top.fn, l) : m \in Locals[Top.fn]
  BY <1>1, <1>2, TopRules DEF TopIs
<1> SUFFICES ASSUME NEW l2, l2 = [[l EXCEPT !.pc = @ + 1] EXCEPT !.installed = FALSE],
                    NEW t, t = [Top EXCEPT !.saved = NoObj, !.pc = @ + 1]
             PROVE  IInv'
  OBVIOUS
<1>4. l2 \in Locals[Top.fn]
  BY <1>1, <1>3 DEF Moves
<1>5. /\ l2.pc = l.pc + 1 /\ l2.pushed = l.pushed /\ l2.owns = l.owns /\ l2.freed = l.freed
      /\ l2.inEnv = l.inEnv /\ l2.saved = l.saved /\ ~ l2.installed
  BY <1>3 DEF LocalType
<1>6. /\ env' = env /\ safety' = safety /\ pevalFail' = pevalFail
      /\ handler' = Top.saved /\ errorObj' = errorObj /\ fault' = fault
      /\ held' = held /\ gone' = gone /\ calls' = With(t)
  BY DEF RestoreHandler, SavedHandler
<1>7. Top.fn = "qz_peval" => Top.pc = 8
  BY <1>1, <1>2, PevalTop
<1>8. /\ t \in CallType /\ t.fn = Top.fn /\ t.id = Top.id /\ t.dest = Top.dest
      /\ t.from = Top.from /\ t.safeCall = Top.safeCall /\ t.pc = Top.pc + 1
      /\ t.base = Top.base /\ t.oldEnv = Top.oldEnv /\ t.fail = Top.fail
  <2>1. Top \in CallType /\ NoObj \in AnyRef
    BY <1>1, TopCall DEF NoObj, AnyRef, Name
  <2>2. Top.pc + 1 \in Int /\ Top.pc \in Int
    BY <1>3
  <2> DEFINE u == [Top EXCEPT !.saved = NoObj]
  <2>3. /\ u \in CallType /\ u.fn = Top.fn /\ u.id = Top.id /\ u.dest = Top.dest
        /\ u.from = Top.from /\ u.safeCall = Top.safeCall /\ u.pc = Top.pc
        /\ u.base = Top.base /\ u.oldEnv = Top.oldEnv /\ u.fail = Top.fail
    BY <2>1 DEF CallType
  <2>4. t = [u EXCEPT !.pc = @ + 1]
    BY <2>1 DEF CallType
  <2> HIDE DEF u
  <2> QED
    BY <2>2, <2>3, <2>4 DEF CallType
<1>9. Continues(t)
  BY <1>1, <1>6, <1>8 DEF Continues
<1>10. HeldAs(t, l2)
  <2>1. HeldNow(Top, l) /\ l2.pc = t.pc
    BY <1>2, <1>3, <1>5, <1>8 DEF TopIs
  <2> QED
    BY ONLY <1>1, <1>5, <1>6, <1>9, <2>1, HeldSame
<1>11. /\ Types' /\ RefInv' /\ FrameInv' /\ EnvInv' /\ WaitInv'
  <2>1. pevalFail' \in Nat /\ handler' \in AnyRef /\ errorObj' \in AnyRef
    BY <1>1, <1>6, TopCall, CallTypes DEF Types
  <2>2. l2.saved => t.base = Top.from[2]
    BY <1>2, <1>5, <1>8 DEF TopIs, PushedNow
  <2>3. MayHoldDead(Top) => MayHoldDead(t)
    BY <1>1, <1>3, <1>7, <1>8 DEF MayHoldDead, CatchPc
  <2> QED
    BY <1>1, <1>2, <1>4, <1>5, <1>6, <1>8, <1>9, <1>10, <2>1, <2>2, <2>3, CalmStep, ZenonT(60)
<1>12. FailInv'
  <2>1. InJump(t) <=> InJump(Top)
    BY <1>7, <1>8, Peval DEF InJump
  <2> QED
    BY <1>1, <1>6, <1>8, <1>9, <2>1, FailContinues
<1>13. HandlerInv'
  <2>1. ~ Around(t)
    <3>1. l2.pc = t.pc
      BY <1>3, <1>5, <1>8
    <3>2. Around(t) <=> l2.installed
      BY <1>1, <1>2, <1>4, <1>9, <3>1, Installs
    <3> QED
      BY ONLY <1>5, <3>2
  <2>2. Around(Top)
    <3>1. Script[Top.fn][Top.pc] = Step
      BY DEF Step
    <3> QED
      BY <1>1, <1>7, <3>1 DEF Around, AroundPeval, CatchPc
  <2>3. Top.saved = t.from[4]
    BY <1>1, <1>8, <2>2, HandlerTop
  <2> QED
    BY <1>1, <1>6, <1>9, <2>1, <2>3, HandlerMoves
<1>14. PendInv'
  <2>1. errorObj = NoObj
    BY <1>1, <1>2, NothingPends
  <2> QED
    BY <1>6, <2>1 DEF PendInv
<1> QED
  BY <1>11, <1>12, <1>13, <1>14 DEF IInv

LEMMA HandlerCallKeeps ==
  ASSUME IInv, MakeHandlerCall
  PROVE  IInv'
<1>1. /\ Types /\ RefInv /\ FrameInv /\ FailInv /\ HandlerInv /\ PendInv /\ calls # <<>>
      /\ Step.op = "handler_call"
  BY DEF IInv, MakeHandlerCall, Does, Running
<1>2. PICK l : TopIs(l)
  BY <1>1, TopIsSome
<1>3. /\ At(Top.fn, l) = Step /\ l \in LocalType /\ StateRules(Top.fn, l, Step)
      /\ NameRules(l, Step) /\ l.pc = Top.pc /\ l.pc \in Nat /\ Now(Top) = Step
      /\ \A m \in Moves(Top.fn, l) : m \in Locals[Top.fn]
  BY <1>1, <1>2, TopRules DEF TopIs
<1>4. Top.fn = "qz_peval" /\ Top.pc = 5
  <2>1. Top.fn = "qz_peval"
    BY <1>1, <1>3 DEF StateRules
  <2> QED
    BY <1>1, <1>2, <2>1, PevalTop
<1> SUFFICES ASSUME NEW x, x = Step.var,
                    NEW l2, l2 = [Gets([l EXCEPT !.pc = @ + 1], x) EXCEPT !.installed = TRUE],
                    NEW t, t = [Top EXCEPT !.saved = handler, !.pc = @ + 1]
             PROVE  IInv'
  OBVIOUS
<1>5. l2 \in Locals[Top.fn]
  <2>1. /\ At(Top.fn, l).op = "handler_call"
        /\ l2 = [Gets([l EXCEPT !.pc = @ + 1], At(Top.fn, l).var) EXCEPT !.installed = TRUE]
    BY <1>1, <1>3
  <2>2. Moves(Top.fn, l)
          = {[Gets([l EXCEPT !.pc = @ + 1], At(Top.fn, l).var) EXCEPT !.installed = TRUE]}
    BY <2>1 DEF Moves
  <2> QED
    BY <1>3, <2>1, <2>2
<1>6. /\ l2.pc = l.pc + 1 /\ l2.pushed = l.pushed
      /\ l2.owns = l.owns \cup {x} /\ l2.freed = l.freed \ {x}
      /\ l2.inEnv = l.inEnv /\ l2.saved = l.saved /\ l2.installed
  BY <1>3 DEF LocalType, Gets
<1>7. /\ env' = env /\ safety' = safety /\ pevalFail' = pevalFail
      /\ handler' = Failsafe /\ errorObj' = NoObj /\ fault' = fault
      /\ held' = (held \ {errorObj}) \cup {Obj(x)} /\ gone' = gone \ {Obj(x)}
      /\ calls' = With(t)
  BY DEF MakeHandlerCall, ErrorAfterHandlerCall
<1>8. /\ t \in CallType /\ t.fn = Top.fn /\ t.id = Top.id /\ t.dest = Top.dest
      /\ t.from = Top.from /\ t.safeCall = Top.safeCall /\ t.pc = Top.pc + 1
      /\ t.base = Top.base /\ t.oldEnv = Top.oldEnv /\ t.fail = Top.fail
      /\ t.saved = handler
  <2>1. Top \in CallType /\ handler \in AnyRef
    BY <1>1, TopCall DEF Types
  <2>2. Top.pc + 1 \in Int /\ Top.pc \in Int
    BY <1>3
  <2> DEFINE u == [Top EXCEPT !.saved = handler]
  <2>3. /\ u \in CallType /\ u.fn = Top.fn /\ u.id = Top.id /\ u.dest = Top.dest
        /\ u.from = Top.from /\ u.safeCall = Top.safeCall /\ u.pc = Top.pc
        /\ u.base = Top.base /\ u.oldEnv = Top.oldEnv /\ u.fail = Top.fail
        /\ u.saved = handler
    BY <2>1 DEF CallType
  <2>4. t = [u EXCEPT !.pc = @ + 1]
    BY <2>1 DEF CallType
  <2> HIDE DEF u
  <2> QED
    BY <2>2, <2>3, <2>4 DEF CallType
<1>9. Continues(t) /\ t.pc = 6 /\ t.fn = "qz_peval"
  <2>1. Continues(t)
    BY <1>1, <1>7, <1>8 DEF Continues
  <2> QED
    BY <1>4, <1>8, <2>1
<1>10. HeldAs(t, l2)
  <2>1. x \in Name /\ Top.id \in Nat \ {0}
    BY <1>1, <1>3, TopCall, CallTypes DEF NameRules, Assigns
  <2>2. Obj(x) \in Ref /\ NoObj \notin Ref
    BY <2>1 DEF Obj, Ref, NoObj
  <2>3. held' \in SUBSET Ref /\ gone' \in SUBSET Ref
    BY <1>1, <1>7, <2>2 DEF Types
  <2>4. held' \ {errorObj'} = (held \ {errorObj}) \cup {Obj(x)}
    BY <1>7, <2>2, <2>3
  <2>5. {o \in held \ {errorObj} : o[1] = Top.id} = {Top.id} \X l.owns
        /\ {o \in gone : o[1] = Top.id} = {Top.id} \X l.freed
    BY <1>2 DEF TopIs, HeldNow
  <2>6. {o \in held' \ {errorObj'} : o[1] = Top.id} = {Top.id} \X l2.owns
    <3>1. {o \in held' \ {errorObj'} : o[1] = Top.id}
            = {o \in held \ {errorObj} : o[1] = Top.id} \cup {Obj(x)}
      BY <2>4 DEF Obj
    <3> QED
      BY <1>6, <2>5, <3>1 DEF Obj
  <2>7. {o \in gone' : o[1] = Top.id} = {Top.id} \X l2.freed
    <3>1. {o \in gone' : o[1] = Top.id} = {o \in gone : o[1] = Top.id} \ {Obj(x)}
      BY <1>7
    <3> QED
      BY <1>6, <2>5, <3>1 DEF Obj
  <2>8. l2.pc = t.pc
    BY <1>3, <1>6, <1>8
  <2>9. HeldNow(t, l2)'
    BY <1>8, <2>6, <2>7, <2>8 DEF HeldNow
  <2>10. OnlyOwn
    BY <1>7, <2>4 DEF OnlyOwn, Obj
  <2>11. IsFiniteSet(held') /\ IsFiniteSet(gone')
    <3>1. IsFiniteSet(held \ {errorObj}) /\ IsFiniteSet({Obj(x)})
      BY <1>1, FS_Subset, FS_Singleton DEF Types
    <3> QED
      BY <1>1, <1>7, <3>1, FS_Union, FS_Subset DEF Types
  <2> QED
    BY <2>3, <2>9, <2>10, <2>11 DEF HeldAs
<1>11. /\ Types' /\ RefInv' /\ FrameInv' /\ EnvInv' /\ WaitInv'
       /\ \A o \in gone' : o \in gone \/ o[1] = Top.id
  <2>1. pevalFail' \in Nat /\ handler' \in AnyRef /\ errorObj' \in AnyRef
    <3>1. NoObj \in AnyRef /\ Failsafe \in AnyRef
      BY DEF NoObj, Failsafe, AnyRef, Name
    <3> QED
      BY <1>1, <1>7, <3>1 DEF Types
  <2>2. l2.saved => t.base = Top.from[2]
    BY <1>2, <1>6, <1>8 DEF TopIs, PushedNow
  <2>3. MayHoldDead(t)
    BY <1>9 DEF MayHoldDead, CatchPc
  <2> QED
    BY <1>1, <1>2, <1>5, <1>6, <1>7, <1>8, <1>9, <1>10, <2>1, <2>2, <2>3, CalmStep, ZenonT(60)
<1>12. FailInv'
  <2>1. InJump(t) /\ InJump(Top)
    BY <1>4, <1>9, Peval DEF InJump
  <2> QED
    BY <1>1, <1>7, <1>8, <1>9, <2>1, FailContinues
<1>13. HandlerInv'
  <2>1. ~ Around(Top)
    BY <1>4 DEF Around, AroundPeval, CatchPc
  <2>2. handler = t.from[4]
    BY <1>1, <1>8, <2>1, HandlerTop
  <2>3. Around(t)
    BY <1>9 DEF Around, AroundPeval, CatchPc
  <2> QED
    BY <1>1, <1>7, <1>8, <1>9, <1>11, <2>2, <2>3, HandlerMoves
<1>14. PendInv'
  BY <1>7 DEF PendInv
<1> QED
  BY <1>11, <1>12, <1>13, <1>14 DEF IInv

(***************************************************************************)
(* Steps on the environment.                                               *)
(***************************************************************************)

(* A new environment that is neither in the buffer nor owned before.       *)
LEMMA EnvInvPush ==
  ASSUME Types, EnvInv, NEW t, Continues(t), NEW x \in Ref, x = Obj("env"),
         x \notin ToSet(safety), x \notin held, x \in held',
         env' = <<x>> \o env, safety' = safety
  PROVE  env' \in Seq(Ref) /\ EnvInv'
<1>1. /\ env \in Seq(Ref) /\ env' \in Seq(Ref) /\ Len(env) \in Nat
      /\ DOMAIN env = 1 .. Len(env) /\ DOMAIN env' = 1 .. Len(env) + 1
      /\ env'[1] = x /\ \A i \in 1 .. Len(env) : env'[i + 1] = env[i]
  BY DEF Types
<1>2. \A i \in DOMAIN env' : i = 1 \/ (i - 1 \in DOMAIN env /\ env'[i] = env[i - 1])
  <2> SUFFICES ASSUME NEW i \in DOMAIN env', i # 1
               PROVE  i - 1 \in DOMAIN env /\ env'[i] = env[i - 1]
    OBVIOUS
  <2>1. i - 1 \in 1 .. Len(env) /\ i = (i - 1) + 1
    BY <1>1
  <2>2. env'[(i - 1) + 1] = env[i - 1]
    BY <1>1, <2>1
  <2> QED
    BY <1>1, <2>1, <2>2
<1>3. \A i \in DOMAIN env : env[i] # x /\ env[i] \in ToSet(safety)
  BY DEF EnvInv
<1>4. calls' # <<>> /\ Top' = t /\ t.id = Top.id
  BY Continued DEF Continues
<1>5. ASSUME NEW i \in DOMAIN env'
      PROVE  \/ env'[i] \in ToSet(safety')
             \/ i = 1 /\ calls' # <<>> /\ env'[i] = Obj("env")' /\ env'[i] \in held'
  BY <1>1, <1>2, <1>3, <1>4 DEF Obj
<1>6. \A i \in DOMAIN env' : env'[i][2] = "env"
  BY <1>1, <1>2 DEF EnvInv, Obj
<1>7. \A n \in DOMAIN safety' : safety'[n][2] = "env" => safety'[n] \in ToSet(env')
  <2> SUFFICES ASSUME NEW n \in DOMAIN safety, safety[n][2] = "env"
               PROVE  safety[n] \in ToSet(env')
    OBVIOUS
  <2>1. PICK i \in DOMAIN env : env[i] = safety[n]
    BY DEF EnvInv, ToSet
  <2>2. i + 1 \in DOMAIN env' /\ env'[i + 1] = safety[n]
    BY <1>1, <2>1
  <2> QED
    BY <2>2 DEF ToSet
<1>8. ASSUME NEW i \in DOMAIN env', NEW j \in DOMAIN env', NEW m \in DOMAIN safety',
             NEW n \in DOMAIN safety', safety'[m] = env'[i], safety'[n] = env'[j], i < j
      PROVE  n < m
  <2>1. safety[m] # x /\ safety[n] # x /\ safety[m] = env'[i] /\ safety[n] = env'[j]
    BY <1>8 DEF ToSet
  <2>2. i # 1 /\ j # 1
    BY <1>1, <2>1
  <2>3. i - 1 \in DOMAIN env /\ j - 1 \in DOMAIN env /\ i - 1 < j - 1
    BY <1>1, <1>2, <1>8, <2>2
  <2>4. safety[m] = env[i - 1] /\ safety[n] = env[j - 1]
    BY <1>2, <2>1, <2>2
  <2> QED
    BY <2>3, <2>4 DEF EnvInv
<1>9. ASSUME NEW i \in DOMAIN env', NEW j \in DOMAIN env', env'[i] = env'[j], i # j
      PROVE  FALSE
  <2>1. CASE i # 1 /\ j # 1
    <3>1. env[i - 1] = env[j - 1] /\ i - 1 \in DOMAIN env /\ j - 1 \in DOMAIN env
      BY <1>2, <1>9, <2>1
    <3>2. i - 1 = j - 1
      BY <3>1 DEF EnvInv
    <3> QED
      BY <1>1, <1>9, <3>2
  <2>2. CASE i = 1
    BY <1>1, <1>2, <1>3, <1>9, <2>2
  <2>3. CASE j = 1
    BY <1>1, <1>2, <1>3, <1>9, <2>3
  <2> QED
    BY <2>1, <2>2, <2>3
<1> QED
  BY <1>1, <1>5, <1>6, <1>7, <1>8, <1>9 DEF EnvInv

LEMMA PushEnvKeeps ==
  ASSUME IInv, PushEnvironment
  PROVE  IInv'
<1>1. /\ Types /\ RefInv /\ FrameInv /\ EnvInv /\ PendInv /\ calls # <<>>
      /\ Step.op = "push_env"
  BY DEF IInv, PushEnvironment, Does, Running
<1>2. PICK l : TopIs(l)
  BY <1>1, TopIsSome
<1> SUFFICES ASSUME NEW l2, l2 = [Gets(Frees([l EXCEPT !.pc = @ + 1], Step.from), "env")
                                    EXCEPT !.inEnv = TRUE],
                    NEW t, t = [Top EXCEPT !.oldEnv = env, !.pc = @ + 1]
             PROVE  IInv'
  OBVIOUS
<1>3. /\ At(Top.fn, l) = Step /\ l \in LocalType /\ NameRules(l, Step)
      /\ StateRules(Top.fn, l, Step)
      /\ l.pc = Top.pc /\ l.pc \in Nat /\ HeldNow(Top, l)
      /\ "env" \in ToSet(l.pushed) => l.inEnv
      /\ \A m \in Moves(Top.fn, l) : m \in Locals[Top.fn]
  BY <1>1, <1>2, TopRules DEF TopIs
<1>4. l2 \in Locals[Top.fn]
  BY <1>1, <1>3 DEF Moves
<1>5. /\ l2.pc = l.pc + 1 /\ l2.pushed = l.pushed /\ l2.saved = l.saved
      /\ l2.owns = (l.owns \ Step.from) \cup {"env"}
      /\ l2.freed = (l.freed \cup (l.owns \cap Step.from)) \ {"env"}
      /\ l2.inEnv = TRUE /\ l2.installed = l.installed
  BY <1>3 DEF LocalType, Gets, Frees
<1>6. /\ safety' = safety /\ pevalFail' = pevalFail /\ env' = <<Obj("env")>> \o env
      /\ handler' = handler /\ errorObj' = errorObj /\ fault' = fault
      /\ held' = (held \ Objs(Step.from)) \cup {Obj("env")}
      /\ gone' = (gone \cup (held \cap Objs(Step.from))) \ {Obj("env")}
      /\ calls' = With(t)
  BY DEF PushEnvironment
<1>7. /\ Top.fn # "qz_peval" /\ Len(safety) = Top.from[2] + Len(l.pushed)
      /\ Top.from[2] \in Nat /\ Len(safety) \in Nat /\ Top.id \in Nat \ {0} /\ ~ MayHoldDead(Top)
  BY <1>1, <1>2, PushedOnTop
<1>8. ~ l.inEnv /\ "env" \notin ToSet(l.pushed)
  BY <1>1, <1>3 DEF StateRules
<1>9. /\ t \in CallType /\ t.fn = Top.fn /\ t.id = Top.id /\ t.dest = Top.dest
      /\ t.from = Top.from /\ t.safeCall = Top.safeCall /\ t.pc = Top.pc + 1
      /\ t.oldEnv = env /\ t.base = Top.base /\ t.fail = Top.fail
      /\ t.saved = Top.saved
  <2>1. Top \in CallType
    BY <1>1, TopCall
  <2>2. env \in Seq(Ref)
    BY <1>1 DEF Types
  <2>3. Top.pc + 1 \in Int /\ Top.pc \in Int
    BY <1>3
  <2> DEFINE u == [Top EXCEPT !.oldEnv = env]
  <2>4. /\ u \in CallType /\ u.fn = Top.fn /\ u.id = Top.id /\ u.dest = Top.dest
        /\ u.from = Top.from /\ u.safeCall = Top.safeCall /\ u.pc = Top.pc
        /\ u.oldEnv = env /\ u.base = Top.base /\ u.fail = Top.fail
        /\ u.saved = Top.saved
    BY <2>1, <2>2 DEF CallType
  <2>5. t = [u EXCEPT !.pc = @ + 1]
    BY <2>1 DEF CallType
  <2> HIDE DEF u
  <2> QED
    BY <2>3, <2>4, <2>5 DEF CallType
<1>10. Continues(t)
  BY <1>1, <1>6, <1>9 DEF Continues
<1>11. Obj("env") \in Ref /\ "env" \in Name /\ Obj("env") = <<t.id, "env">>
  BY <1>7, <1>9 DEF Obj, Ref, Name
<1>12. \A n \in DOMAIN safety : safety[n] # Obj("env")
  BY <1>1, <1>2, <1>8, InBuffer
<1>13. Depth(Top) = 0 /\ Top.from[1] = env
  BY <1>1, <1>2, <1>4, <1>7, <1>8, EnvOfTop DEF TopIs
<1>14. BufferAs(t, l2)
  <2>1. l2.saved => t.base = Top.from[2]
    BY <1>2, <1>5, <1>9 DEF TopIs, PushedNow
  <2> QED
    BY <1>1, <1>2, <1>5, <1>6, <1>7, <1>10, <2>1, BufferSame
<1>15. EnvNow(t, l2)'
  <2>1. EnvNow(t, l)
    BY <1>2, <1>8, <1>9 DEF TopIs, EnvNow, Depth
  <2>2. \A n \in 1 .. t.from[2] : safety'[n] = safety[n] /\ safety[n] # Obj("env")
    <3>1. \A n \in 1 .. Top.from[2] : n \in 1 .. Len(safety)
      BY <1>1, <1>3, <1>7 DEF LocalType
    <3> QED
      BY <1>1, <1>6, <1>9, <1>12, <3>1 DEF Types
  <2>3. EnvNow(t, l)'
    BY <1>1, <1>6, <1>9, <1>11, <2>1, <2>2, EnvNowPush DEF Types
  <2>4. Depth(t)' = 1 /\ env'[1] = <<t.id, "env">>
    <3>1. Len(env') = Len(env) + 1 /\ env'[1] = Obj("env") /\ Len(env) \in Nat
      BY <1>1, <1>6 DEF Types
    <3> QED
      BY <1>9, <1>11, <1>13, <3>1 DEF Depth
  <2>5. t.oldEnv = t.from[1]
    BY <1>9, <1>13
  <2> QED
    BY <2>3, <2>4, <2>5 DEF EnvNow
<1>16. EnvsKept
  <2> SUFFICES ASSUME NEW k \in DOMAIN calls, NEW c, NEW m, k # 1, c = calls[k], EnvNow(c, m)
               PROVE  EnvNow(c, m)'
    BY DEF EnvsKept
  <2>1. c \in CallType
    BY <1>1, TopCall
  <2>2. c.from[2] <= Top.from[2] /\ c.from[2] \in Nat
    <3>1. Top = calls[1] /\ 1 \in DOMAIN calls /\ DOMAIN calls = 1 .. Len(calls)
      BY <1>1, TopCall
    <3>2. c.from[2] \in Nat
      BY <2>1, CallTypes
    <3> QED
      BY <1>1, <3>1, <3>2 DEF FrameInv
  <2>3. \A n \in 1 .. c.from[2] : safety'[n] = safety[n] /\ safety[n] # Obj("env")
    <3>1. Top.from[2] <= Len(safety)
      BY <1>3, <1>7 DEF LocalType
    <3>2. \A n \in 1 .. c.from[2] : n \in 1 .. Len(safety)
      BY <1>7, <2>2, <3>1
    <3> QED
      BY <1>1, <1>6, <1>12, <3>2 DEF Types
  <2> QED
    BY <1>1, <1>6, <1>11, <2>1, <2>3, EnvNowPush DEF Types
<1>17. env' \in Seq(Ref) /\ EnvInv'
  <2>1. Obj("env") \notin held
    BY <1>1, <1>2, <1>8, EnvOwned
  <2>2. Obj("env") \notin ToSet(safety) /\ Obj("env") \in held'
    BY <1>6, <1>12 DEF ToSet
  <2> QED
    BY <1>1, <1>6, <1>10, <1>11, <2>1, <2>2, EnvInvPush
<1>18. EnvsAs(t, l2)
  BY <1>15, <1>16, <1>17 DEF EnvsAs
<1>19. errorObj = NoObj /\ errorObj' = NoObj
  BY <1>1, <1>2, <1>6, NothingPends
<1>20. HeldAs(t, l2)
  <2>1. {"env"} \in SUBSET Name
    BY <1>11
  <2>2. Trades(l, l2, Step.from, {"env"}, Step.from, {"env"})
    BY <1>5, <1>6, <2>1, NoNames DEF Trades
  <2>3. l2.pc = t.pc
    BY <1>3, <1>5, <1>9
  <2> QED
    BY <1>1, <1>3, <1>10, <1>19, <2>2, <2>3, HeldChanges
<1>21. PendInv'
  BY <1>19 DEF PendInv
<1>22. InJump(t) <=> InJump(Top)
  BY <1>7, <1>9 DEF InJump
<1>23. l2 \in Locals[t.fn]
  BY <1>4, <1>9
<1>24. /\ \A o \in ToSet(safety) : o \in ToSet(safety')
       /\ Step.op \notin {"call", "reset_handler"}
  BY <1>1, <1>6
<1> QED
  BY <1>1, <1>2, <1>5, <1>6, <1>9, <1>10, <1>14, <1>18, <1>20, <1>21, <1>22, <1>23, <1>24,
     GoesOn

(* The last environment leaves, and its entry in the buffer if it has one. *)
LEMMA EnvInvPop ==
  ASSUME Types, EnvInv, env # <<>>, env' = Tail(env),
         \A n \in DOMAIN safety' : n \in DOMAIN safety /\ safety'[n] = safety[n],
         \A n \in DOMAIN safety : n \in DOMAIN safety' \/ safety[n] = env[1],
         env[1] \notin ToSet(safety')
  PROVE  env' \in Seq(Ref) /\ EnvInv'
<1>1. /\ env \in Seq(Ref) /\ env' \in Seq(Ref) /\ Len(env) \in Nat \ {0}
      /\ DOMAIN env = 1 .. Len(env) /\ DOMAIN env' = 1 .. Len(env) - 1
      /\ \A i \in 1 .. Len(env) - 1 : env'[i] = env[i + 1]
  BY DEF Types
<1>2. 1 \in DOMAIN env /\ \A i \in DOMAIN env' : i + 1 \in DOMAIN env /\ env'[i] = env[i + 1]
  BY <1>1
<1>3. ASSUME NEW i \in DOMAIN env'
      PROVE  env'[i] \in ToSet(safety')
  <2>1. i + 1 \in DOMAIN env /\ env'[i] = env[i + 1] /\ i + 1 # 1
    BY <1>1, <1>2, <1>3
  <2>2. env[i + 1] # env[1]
    BY <1>2, <2>1 DEF EnvInv
  <2>3. env[i + 1] \in ToSet(safety)
    BY <2>1 DEF EnvInv
  <2>4. PICK n \in DOMAIN safety : safety[n] = env[i + 1]
    BY <2>3 DEF ToSet
  <2>5. n \in DOMAIN safety' /\ safety'[n] = env[i + 1]
    BY <2>2, <2>4
  <2> QED
    BY <2>1, <2>5 DEF ToSet
<1>4. \A i \in DOMAIN env' : env'[i][2] = "env"
  BY <1>2 DEF EnvInv
<1>5. ASSUME NEW n \in DOMAIN safety', safety'[n][2] = "env"
      PROVE  safety'[n] \in ToSet(env')
  <2>1. safety'[n] \in ToSet(env)
    BY <1>5 DEF EnvInv
  <2>2. PICK i \in DOMAIN env : env[i] = safety'[n]
    BY <2>1 DEF ToSet
  <2>3. i # 1
    BY <2>2 DEF ToSet
  <2>4. i - 1 \in DOMAIN env' /\ (i - 1) + 1 = i
    BY <1>1, <2>2, <2>3
  <2>5. env'[i - 1] = safety'[n]
    BY <1>2, <2>2, <2>4
  <2> QED
    BY <2>4, <2>5 DEF ToSet
<1>6. ASSUME NEW i \in DOMAIN env', NEW j \in DOMAIN env', NEW m \in DOMAIN safety',
             NEW n \in DOMAIN safety', safety'[m] = env'[i], safety'[n] = env'[j], i < j
      PROVE  n < m
  <2>1. /\ i + 1 \in DOMAIN env /\ j + 1 \in DOMAIN env /\ i + 1 < j + 1
        /\ m \in DOMAIN safety /\ n \in DOMAIN safety
        /\ safety[m] = env[i + 1] /\ safety[n] = env[j + 1]
    BY <1>1, <1>2, <1>6
  <2> QED
    BY <2>1 DEF EnvInv
<1>7. ASSUME NEW i \in DOMAIN env', NEW j \in DOMAIN env', env'[i] = env'[j]
      PROVE  i = j
  <2>1. i + 1 \in DOMAIN env /\ j + 1 \in DOMAIN env /\ env[i + 1] = env[j + 1]
    BY <1>2, <1>7
  <2>2. i + 1 = j + 1
    BY <2>1 DEF EnvInv
  <2> QED
    BY <1>1, <2>2
<1> QED
  BY <1>1, <1>3, <1>4, <1>5, <1>6, <1>7 DEF EnvInv

LEMMA PopEnvKeeps ==
  ASSUME IInv, PopEnvironment
  PROVE  IInv'
<1>1. /\ Types /\ RefInv /\ FrameInv /\ EnvInv /\ PendInv /\ calls # <<>>
      /\ Step.op = "pop_env" /\ Advance
  BY DEF IInv, PopEnvironment, Does, Running
<1>2. PICK l : TopIs(l)
  BY <1>1, TopIsSome
<1> SUFFICES ASSUME NEW l2, l2 = [Frees([l EXCEPT !.pc = @ + 1], {"env"})
                                    EXCEPT !.inEnv = FALSE],
                    NEW t, t = [Top EXCEPT !.pc = @ + 1]
             PROVE  IInv'
  OBVIOUS
<1>3. /\ At(Top.fn, l) = Step /\ l \in LocalType
      /\ StateRules(Top.fn, l, Step)
      /\ l.pc = Top.pc /\ l.pc \in Nat /\ HeldNow(Top, l)
      /\ \A m \in Moves(Top.fn, l) : m \in Locals[Top.fn]
  BY <1>1, <1>2, TopRules DEF TopIs
<1>4. l2 \in Locals[Top.fn]
  BY <1>1, <1>3 DEF Moves
<1>5. /\ l2.pc = l.pc + 1 /\ l2.pushed = l.pushed /\ l2.saved = l.saved
      /\ l2.owns = l.owns \ {"env"}
      /\ l2.freed = l.freed \cup (l.owns \cap {"env"})
      /\ l2.inEnv = FALSE /\ l2.installed = l.installed
  BY <1>3 DEF LocalType, Frees
<1>6. /\ safety' = safety /\ pevalFail' = pevalFail /\ env' = Top.oldEnv
      /\ handler' = handler /\ errorObj' = errorObj /\ fault' = fault
      /\ held' = held \ {Head(env)} /\ gone' = gone \cup {Head(env)}
      /\ calls' = With(t)
  BY <1>1 DEF PopEnvironment, Advance
<1>7. /\ Top.fn # "qz_peval" /\ Len(safety) = Top.from[2] + Len(l.pushed)
      /\ Top.from[2] \in Nat /\ Len(safety) \in Nat /\ Top.id \in Nat \ {0} /\ ~ MayHoldDead(Top)
  BY <1>1, <1>2, PushedOnTop
<1>8. l.inEnv /\ "env" \notin ToSet(l.pushed)
  BY <1>1, <1>3 DEF StateRules
<1>9. /\ Continues(t) /\ t.pc = Top.pc + 1 /\ t.base = Top.base /\ t.oldEnv = Top.oldEnv
      /\ t.fail = Top.fail /\ t.saved = Top.saved /\ t.fn = Top.fn /\ t.from = Top.from
      /\ t.id = Top.id /\ t \in CallType
  <2>1. Top.pc + 1 \in Int
    BY <1>3
  <2> QED
    BY <1>1, <1>6, <2>1, Jumped DEF Continues
<1>10. Obj("env") \in Ref /\ "env" \in Name
  BY <1>7 DEF Obj, Ref, Name
<1>11. \A n \in DOMAIN safety : safety[n] # Obj("env")
  BY <1>1, <1>2, <1>8, InBuffer
<1>12. /\ env # <<>> /\ Head(env) = Obj("env") /\ env[1] = Obj("env")
       /\ Top.from[1] = Tail(env)
  BY <1>1, <1>2, <1>7, <1>8, EnvOfTop DEF TopIs
<1>13. env' = Tail(env)
  BY <1>2, <1>6, <1>8, <1>12 DEF TopIs, EnvNow
<1>14. BufferAs(t, l2)
  <2>1. l2.saved => t.base = Top.from[2]
    BY <1>2, <1>5, <1>9 DEF TopIs, PushedNow
  <2>2. Continues(t) /\ ~ MayHoldDead(Top) /\ safety' = safety /\ l2.pushed = l.pushed
    BY <1>5, <1>6, <1>7, <1>9
  <2> QED
    BY ONLY <1>1, <1>2, <2>1, <2>2, BufferSame
<1>15. EnvNow(t, l2)'
  <2>1. EnvNow(t, l2)
    BY <1>2, <1>5, <1>9 DEF TopIs, EnvNow, Depth
  <2>2. \A n \in 1 .. t.from[2] : safety'[n] = safety[n] /\ safety[n] # env[1]
    <3>1. \A n \in 1 .. Top.from[2] : n \in 1 .. Len(safety)
      BY <1>1, <1>3, <1>7 DEF LocalType
    <3> QED
      BY <1>1, <1>6, <1>9, <1>11, <1>12, <3>1 DEF Types
  <2> QED
    BY <1>1, <1>5, <1>9, <1>12, <1>13, <2>1, <2>2, EnvNowPop DEF Types
<1>16. EnvsKept
  <2> SUFFICES ASSUME NEW k \in DOMAIN calls, NEW c, NEW m, k # 1, c = calls[k], EnvNow(c, m)
               PROVE  EnvNow(c, m)'
    BY DEF EnvsKept
  <2>1. c \in CallType
    BY <1>1, TopCall
  <2>2. c.from[2] <= Top.from[2] /\ c.from[2] \in Nat
    <3>1. Top = calls[1] /\ 1 \in DOMAIN calls /\ DOMAIN calls = 1 .. Len(calls)
      BY <1>1, TopCall
    <3>2. c.from[2] \in Nat
      BY <2>1, CallTypes
    <3> QED
      BY <1>1, <3>1, <3>2 DEF FrameInv
  <2>3. \A n \in 1 .. c.from[2] : safety'[n] = safety[n] /\ safety[n] # env[1]
    <3>1. Top.from[2] <= Len(safety)
      BY <1>3, <1>7 DEF LocalType
    <3>2. \A n \in 1 .. c.from[2] : n \in 1 .. Len(safety)
      BY <1>7, <2>2, <3>1
    <3> QED
      BY <1>1, <1>6, <1>11, <1>12, <3>2 DEF Types
  <2>4. env[1] # <<c.id, "env">>
    <3>1. c.id # Top.id
      BY <1>1, TopCall DEF RefInv
    <3> QED
      BY <1>12, <3>1 DEF Obj
  <2> QED
    BY <1>1, <1>12, <1>13, <2>1, <2>3, <2>4, EnvNowPop DEF Types
<1>17. env' \in Seq(Ref) /\ EnvInv'
  <2>1. env[1] \notin ToSet(safety')
    BY <1>6, <1>11, <1>12 DEF ToSet
  <2> QED
    BY <1>1, <1>6, <1>12, <1>13, <2>1, EnvInvPop
<1>18. EnvsAs(t, l2)
  BY <1>15, <1>16, <1>17 DEF EnvsAs
<1>19. errorObj = NoObj /\ errorObj' = NoObj
  BY <1>1, <1>2, <1>6, NothingPends
<1>20. HeldAs(t, l2)
  <2>1. Obj("env") \in held
    BY <1>1, <1>2, <1>8, EnvOwned
  <2>2. Trades(l, l2, {"env"}, {}, {"env"}, {})
    BY <1>5, <1>6, <1>12, <2>1, NoNames DEF Trades
  <2>3. l2.pc = t.pc
    BY <1>3, <1>5, <1>9
  <2> QED
    BY <1>1, <1>3, <1>9, <1>19, <2>2, <2>3, HeldChanges
<1>21. PendInv'
  BY <1>19 DEF PendInv
<1>22. InJump(t) <=> InJump(Top)
  BY <1>7, <1>9 DEF InJump
<1>23. l2 \in Locals[t.fn]
  BY <1>4, <1>9
<1>24. /\ \A o \in ToSet(safety) : o \in ToSet(safety')
       /\ Step.op \notin {"call", "reset_handler"}
  BY <1>1, <1>6
<1> QED
  BY <1>1, <1>2, <1>5, <1>6, <1>9, <1>14, <1>18, <1>20, <1>21, <1>22, <1>23, <1>24,
     GoesOn

(* The loop of cleanup_safety_buffer takes out what a dead call has left:  *)
(* if it is an environment, it is the one that is in use.                  *)
LEMMA CleanupTop ==
  ASSUME Types, RefInv, FrameInv, EnvInv, PendInv, calls # <<>>, NEW l, TopIs(l),
         Step.op = "cleanup", Len(safety) > Top.base,
         NEW o, o = Last(safety)
  PROVE  /\ Top.from[2] \in Nat /\ Top.from[2] < Len(safety) /\ Len(safety) \in Nat
         /\ l.pushed = <<>>
         /\ o = safety[Len(safety)] /\ o \in Ref /\ o[1] \notin LiveIds(calls)
         /\ \A n \in 1 .. Len(safety) - 1 : safety[n] # o
         /\ o[2] = "env" => env # <<>> /\ o = env[1]
<1>1. /\ StateRules(Top.fn, l, Step) /\ l \in LocalType
  BY TopRules DEF TopIs
<1>2. l.pushed = <<>> /\ l.saved
  BY <1>1 DEF StateRules
<1>3. /\ Top \in CallType /\ Top.from[2] \in Nat /\ Top.id \in Nat \ {0}
      /\ Top = calls[1] /\ 1 \in DOMAIN calls
  BY TopCall, CallTypes
<1>4. /\ Top.base = Top.from[2]
      /\ \A n \in DOMAIN safety :
           safety[n][1] = Top.id => n \in Top.from[2] + 1 .. Top.from[2] + Len(l.pushed)
  BY <1>2 DEF TopIs, PushedNow
<1>5. Len(safety) \in Nat /\ Len(safety) \in DOMAIN safety /\ Top.from[2] < Len(safety)
      /\ DOMAIN safety = 1 .. Len(safety)
  BY <1>3, <1>4 DEF Types
<1>6. o = safety[Len(safety)] /\ o \in Ref
  BY <1>5 DEF Types, Last
<1>7. o[1] \notin LiveIds(calls)
  <2> SUFFICES ASSUME NEW k \in DOMAIN calls, o[1] = calls[k].id PROVE FALSE
    BY DEF LiveIds
  <2>1. CASE k = 1
    <3>1. Len(safety) \in Top.from[2] + 1 .. Top.from[2] + Len(l.pushed)
      BY <1>3, <1>4, <1>5, <1>6, <2>1
    <3> QED
      BY <1>2, <1>3, <3>1
  <2>2. CASE k # 1
    BY <1>5, <1>6, <2>2, AboveTop
  <2> QED
    BY <2>1, <2>2
<1>8. \A n \in 1 .. Len(safety) - 1 : safety[n] # o
  BY <1>5, <1>6 DEF RefInv
<1>9. ASSUME o[2] = "env"
      PROVE  env # <<>> /\ o = env[1]
  <2>1. PICK i \in DOMAIN env : env[i] = o
    BY <1>5, <1>6, <1>9 DEF EnvInv, ToSet
  <2>2. /\ env # <<>> /\ 1 \in DOMAIN env /\ i \in Nat /\ i >= 1
        /\ env \in Seq(Ref) /\ Len(env) \in Nat
    BY <2>1 DEF Types
  <2>3. CASE i = 1
    BY <2>1, <2>2, <2>3
  <2>4. CASE i # 1 /\ env[1] \in ToSet(safety)
    <3>1. PICK m \in DOMAIN safety : safety[m] = env[1]
      BY <2>4 DEF ToSet
    <3>2. Len(safety) < m
      BY <1>5, <1>6, <2>1, <2>2, <2>4, <3>1 DEF EnvInv
    <3> QED
      BY <1>5, <3>1, <3>2
  <2>5. CASE i # 1 /\ env[1] \notin ToSet(safety)
    <3>1. env[1] = Obj("env") /\ env[1] \in held
      BY <2>2, <2>5 DEF EnvInv
    <3>2. l.inEnv
      BY <3>1, EnvOwned
    <3>3. Depth(Top) > 0 /\ env[Depth(Top)] = Obj("env") /\ Depth(Top) \in 1 .. Len(env)
      <4>1. Depth(Top) > 0 /\ env[Depth(Top)] = <<Top.id, "env">>
        BY <3>2 DEF TopIs, EnvNow
      <4>2. Top.from[1] \in Seq(Ref)
        BY <1>3, CallTypes
      <4>3. Len(Top.from[1]) \in Nat
        BY <4>2
      <4> QED
        BY <2>2, <4>1, <4>3 DEF Depth, Obj
    <3>4. Depth(Top) = 1
      BY <2>2, <3>1, <3>3 DEF EnvInv
    <3>5. i > 1
      BY <2>2, <2>5
    <3>6. PICK n \in 1 .. Top.from[2] : safety[n] = env[i]
      BY <2>1, <3>4, <3>5 DEF TopIs, EnvNow
    <3>7. n \in 1 .. Len(safety) - 1
      BY <1>3, <1>5
    <3> QED
      BY <1>8, <2>1, <3>6, <3>7
  <2> QED
    BY <2>3, <2>4, <2>5
<1> QED
  BY <1>2, <1>3, <1>5, <1>6, <1>7, <1>8, <1>9

LEMMA CleanupKeeps ==
  ASSUME IInv, cleanup_safety_buffer
  PROVE  IInv'
<1>1. /\ Types /\ RefInv /\ FrameInv /\ EnvInv /\ PendInv /\ calls # <<>>
      /\ Step.op = "cleanup" /\ Len(safety) > Top.base
  BY DEF IInv, cleanup_safety_buffer, Does, Running
<1>2. PICK l : TopIs(l)
  BY <1>1, TopIsSome
<1> SUFFICES ASSUME NEW t, t = Top, NEW o, o = Last(safety)
             PROVE  IInv'
  OBVIOUS
<1>3. /\ Top.from[2] \in Nat /\ Top.from[2] < Len(safety) /\ Len(safety) \in Nat
      /\ l.pushed = <<>>
      /\ o = safety[Len(safety)] /\ o \in Ref /\ o[1] \notin LiveIds(calls)
      /\ \A n \in 1 .. Len(safety) - 1 : safety[n] # o
      /\ o[2] = "env" => env # <<>> /\ o = env[1]
  BY <1>1, <1>2, CleanupTop
<1>4. /\ calls' = calls /\ pevalFail' = pevalFail /\ env' = EnvAfter(o)
      /\ handler' = handler /\ errorObj' = errorObj /\ fault' = fault
      /\ safety' = Front(safety) /\ held' = held \ {o}
      /\ gone' = Forget(gone \cup (held \cap {o}), calls, safety')
  BY DEF cleanup_safety_buffer
<1>5. /\ safety' \in Seq(Ref) /\ Len(safety') = Len(safety) - 1
      /\ DOMAIN safety = 1 .. Len(safety) /\ DOMAIN safety' = 1 .. Len(safety) - 1
      /\ \A n \in DOMAIN safety' : n \in DOMAIN safety /\ safety'[n] = safety[n]
  <2>1. safety \in Seq(Ref) /\ Len(safety) - 1 \in 0 .. Len(safety)
    BY <1>1, <1>3 DEF Types
  <2>2. safety' = SubSeq(safety, 1, Len(safety) - 1)
    BY <1>4 DEF Front
  <2>3. /\ SubSeq(safety, 1, Len(safety) - 1) \in Seq(Ref)
        /\ Len(SubSeq(safety, 1, Len(safety) - 1)) = Len(safety) - 1
        /\ \A n \in 1 .. Len(safety) - 1 : SubSeq(safety, 1, Len(safety) - 1)[n] = safety[n]
    <3>1. \A s \in Seq(Ref) : \A e \in 0 .. Len(s) :
            /\ SubSeq(s, 1, e) \in Seq(Ref) /\ Len(SubSeq(s, 1, e)) = e
            /\ \A n \in 1 .. e : SubSeq(s, 1, e)[n] = s[n]
      OBVIOUS
    <3> QED
      BY ONLY <2>1, <3>1
  <2>4. \A n \in 1 .. Len(safety) - 1 : n \in 1 .. Len(safety)
    BY <2>1
  <2> QED
    BY <2>1, <2>2, <2>3, <2>4
<1>6. gone' = gone
  <2>1. o \notin ToSet(safety')
    BY <1>3, <1>5 DEF ToSet
  <2>2. \A p \in gone : p[1] \in LiveIds(calls)
    BY <1>1 DEF RefInv
  <2> QED
    BY <1>3, <1>4, <2>1, <2>2 DEF Forget
<1>7. /\ t \in CallType /\ t.fn = Top.fn /\ t.id = Top.id /\ t.from = Top.from
      /\ t.id \in Nat \ {0} /\ t = calls[1] /\ 1 \in DOMAIN calls
  BY <1>1, TopCall, CallTypes
<1>8. Continues(t)
  <2>1. calls = With(Top)
    BY <1>1 DEF With, Top, Types
  <2> QED
    BY <1>1, <1>4, <1>7, <2>1 DEF Continues
<1>9. l \in Locals[t.fn] /\ HeldNow(Top, l) /\ PushedNow(Top, l, Len(safety)) /\ EnvNow(Top, l)
      /\ l.pc = Top.pc
  BY <1>2 DEF TopIs
<1>10. \A k \in DOMAIN calls : calls[k].id # o[1]
  BY <1>3 DEF LiveIds
<1>11. HeldAs(t, l)
  <2>1. HeldNow(t, l)'
    <3>1. HeldNow(t, l)
      BY <1>9
    <3>2. t.id # o[1]
      BY <1>7, <1>10
    <3> QED
      BY <1>4, <1>6, <3>1, <3>2 DEF HeldNow
  <2>2. OnlyOwn
    BY <1>3, <1>4, <1>6 DEF OnlyOwn
  <2>3. /\ held' \in SUBSET Ref /\ IsFiniteSet(held')
        /\ gone' \in SUBSET Ref /\ IsFiniteSet(gone')
    BY <1>1, <1>4, <1>6, FS_Subset DEF Types
  <2> QED
    BY <2>1, <2>2, <2>3 DEF HeldAs
<1>12. OnlyAbove
  <2>1. \A i \in DOMAIN safety', k \in DOMAIN calls :
          Top.from[2] < i /\ k # 1 => safety'[i][1] # calls[k].id
    BY <1>1, <1>5, AboveTop
  <2>2. \A i \in 1 .. Top.from[2] : safety'[i] = safety[i]
    BY <1>3, <1>5
  <2>3. Top.from[2] <= Len(safety')
    BY <1>3, <1>5
  <2> QED
    BY <1>5, <2>1, <2>2, <2>3 DEF OnlyAbove
<1>13. BufferAs(t, l)
  <2>1. PushedNow(t, l, Len(safety))'
    <3> SUFFICES ASSUME NEW e, e = Len(safety')
                 PROVE  PushedNow(t, l, e)'
      OBVIOUS
    <3>1. MayHoldDead(t)
      BY <1>1, <1>7 DEF MayHoldDead, Now, Step
    <3>2. Len(l.pushed) = 0 /\ t.from[2] + Len(l.pushed) <= e
      BY <1>3, <1>5, <1>7
    <3>3. \A n \in DOMAIN safety' :
            safety'[n][1] = t.id => n \in t.from[2] + 1 .. t.from[2] + Len(l.pushed)
      BY <1>5, <1>9 DEF PushedNow
    <3>4. l.saved => t.base = t.from[2]
      BY <1>9 DEF PushedNow
    <3>5. \A j \in 1 .. Len(l.pushed) : safety'[t.from[2] + j] = <<t.id, l.pushed[j]>>
      BY <3>2
    <3> QED
      BY <3>1, <3>2, <3>3, <3>4, <3>5 DEF PushedNow
  <2>2. \A m, n \in DOMAIN safety' : safety'[m] = safety'[n] => m = n
    BY <1>1, <1>5 DEF RefInv
  <2>3. Len(safety') <= Capacity
    BY <1>1, <1>3, <1>5, InterpreterAssumption DEF Types
  <2> QED
    BY <1>5, <1>12, <2>1, <2>2, <2>3 DEF BufferAs
<1>14. \A n \in DOMAIN safety : n \in DOMAIN safety' \/ safety[n] = o
  BY <1>3, <1>5
<1>15. o \notin ToSet(safety')
  BY <1>3, <1>5 DEF ToSet
<1>16. EnvsAs(t, l)
  <2>1. CASE env # <<>> /\ o = env[1]
    <3>1. env' = Tail(env)
      BY <1>4, <2>1 DEF EnvAfter
    <3>2. ASSUME NEW k \in DOMAIN calls, NEW c, c = calls[k], NEW m, EnvNow(c, m)
          PROVE  EnvNow(c, m)'
      <4>1. c \in CallType
        BY <1>1, <3>2, TopCall
      <4>2. c.from[2] <= Top.from[2] /\ c.from[2] \in Nat
        <5>1. c.from[2] \in Nat
          BY <4>1, CallTypes
        <5>2. DOMAIN calls = 1 .. Len(calls)
          BY <1>1, TopCall
        <5>3. k = 1 \/ 1 < k
          BY <5>2
        <5> QED
          BY <1>1, <1>3, <1>7, <3>2, <5>1, <5>3 DEF FrameInv
      <4>3. \A n \in 1 .. c.from[2] : safety'[n] = safety[n] /\ safety[n] # env[1]
        <5>1. \A n \in 1 .. c.from[2] : n \in 1 .. Len(safety) - 1
          BY <1>3, <4>2
        <5> QED
          BY <1>3, <1>5, <2>1, <5>1
      <4>4. env[1] # <<c.id, "env">>
        BY <1>10, <2>1, <3>2
      <4>5. env \in Seq(Ref)
        BY <1>1 DEF Types
      <4> QED
        BY ONLY <2>1, <3>1, <3>2, <4>1, <4>3, <4>4, <4>5, EnvNowPop
    <3>3. EnvNow(t, l)'
      BY <1>7, <1>9, <3>2
    <3>4. EnvsKept
      BY <3>2 DEF EnvsKept
    <3>5. env' \in Seq(Ref) /\ EnvInv'
      BY <1>1, <1>5, <1>14, <1>15, <2>1, <3>1, EnvInvPop
    <3> QED
      BY <3>3, <3>4, <3>5 DEF EnvsAs
  <2>2. CASE ~ (env # <<>> /\ o = env[1])
    <3>1. env' = env /\ o[2] # "env"
      BY <1>3, <1>4, <2>2 DEF EnvAfter
    <3>2. EnvsKept
      BY <1>1, <1>12, <3>1, EnvsStay
    <3>3. EnvNow(t, l)'
      <4>1. EnvNow(t, l)
        BY <1>9
      <4>2. \A n \in 1 .. t.from[2] : safety'[n] = safety[n]
        BY <1>7, <1>12 DEF OnlyAbove
      <4> QED
        BY ONLY <3>1, <4>1, <4>2, EnvNowStays
    <3>4. ASSUME NEW i \in DOMAIN env
          PROVE  \/ env[i] \in ToSet(safety')
                 \/ i = 1 /\ env[i] = Obj("env") /\ env[i] \in held'
      <4>1. env[i] # o
        BY <1>1, <3>1 DEF EnvInv
      <4>2. env[i] \in ToSet(safety) => env[i] \in ToSet(safety')
        BY <1>5, <1>14, <4>1 DEF ToSet
      <4> QED
        BY <1>1, <1>4, <4>1, <4>2 DEF EnvInv
    <3>5. Obj("env")' = Obj("env") /\ calls' # <<>>
      BY <1>1, <1>4 DEF Obj, Top
    <3>6. EnvInv'
      <4>1. \A n \in DOMAIN safety' : safety'[n][2] = "env" => safety'[n] \in ToSet(env')
        BY <1>1, <1>5, <3>1 DEF EnvInv
      <4>2. \A i, j \in DOMAIN env', m, n \in DOMAIN safety' :
              safety'[m] = env'[i] /\ safety'[n] = env'[j] /\ i < j => n < m
        <5> SUFFICES ASSUME NEW i \in DOMAIN env, NEW j \in DOMAIN env,
                            NEW m \in DOMAIN safety', NEW n \in DOMAIN safety',
                            safety'[m] = env[i], safety'[n] = env[j], i < j
                     PROVE  n < m
          BY <3>1
        <5> QED
          BY <1>1, <1>5 DEF EnvInv
      <4> QED
        BY <1>1, <3>1, <3>4, <3>5, <4>1, <4>2 DEF EnvInv
    <3>7. env' \in Seq(Ref)
      BY <1>1, <3>1 DEF Types
    <3> QED
      BY <3>2, <3>3, <3>6, <3>7 DEF EnvsAs
  <2> QED
    BY <2>1, <2>2
<1>17. PendInv'
  <2>1. errorObj # NoObj => errorObj \notin ToSet(safety')
    BY <1>1, <1>5 DEF PendInv, ToSet
  <2> QED
    BY <1>1, <1>4, <2>1 DEF PendInv, Top
<1>18. \A p \in ToSet(safety) : p \in ToSet(safety') \/ p \notin held'
  BY <1>4, <1>5, <1>14 DEF ToSet
<1> QED
  BY <1>1, <1>2, <1>4, <1>7, <1>8, <1>9, <1>11, <1>13, <1>16, <1>17, <1>18, GoesOn

(***************************************************************************)
(* Calls.                                                                  *)
(***************************************************************************)

(* A new call gets an identity that no call and no reference has.          *)
LEMMA NewIdFresh ==
  ASSUME Types
  PROVE  NewId \in Nat \ {0} /\ NewId \notin UsedIds
<1>1. IsFiniteSet(LiveIds(calls))
  <2> DEFINE f == [k \in DOMAIN calls |-> calls[k].id]
  <2>1. f \in Surjection(DOMAIN calls, LiveIds(calls))
    BY DEF Surjection, LiveIds
  <2>2. IsFiniteSet(DOMAIN calls)
    <3>1. DOMAIN calls = 1 .. Len(calls) /\ Len(calls) \in Int /\ 1 \in Int
      BY DEF Types
    <3> QED
      BY <3>1, FS_Interval
  <2> HIDE DEF f
  <2> QED
    BY <2>1, <2>2, FS_Surjection
<1>2. IsFiniteSet(ToSet(safety))
  <2>1. safety \in Surjection(DOMAIN safety, ToSet(safety))
    BY DEF Surjection, ToSet, Types
  <2>2. IsFiniteSet(DOMAIN safety)
    <3>1. DOMAIN safety = 1 .. Len(safety) /\ Len(safety) \in Int /\ 1 \in Int
      BY DEF Types
    <3> QED
      BY <3>1, FS_Interval
  <2> QED
    BY <2>1, <2>2, FS_Surjection
<1>3. IsFiniteSet(held \cup gone \cup ToSet(safety))
  <2>1. IsFiniteSet(held \cup gone)
    BY FS_Union DEF Types
  <2> QED
    BY <1>2, <2>1, FS_Union
<1>4. IsFiniteSet({o[1] : o \in held \cup gone \cup ToSet(safety)})
  <2> DEFINE S == held \cup gone \cup ToSet(safety)
             f == [o \in S |-> o[1]]
  <2>1. f \in Surjection(S, {o[1] : o \in S})
    BY DEF Surjection
  <2>2. IsFiniteSet(S)
    BY <1>3
  <2> HIDE DEF f, S
  <2>3. IsFiniteSet({o[1] : o \in S})
    BY <2>1, <2>2, FS_Surjection
  <2> QED
    BY <2>3 DEF S
<1>5. IsFiniteSet(UsedIds)
  BY <1>1, <1>4, FS_Union DEF UsedIds
<1>6. \E i \in 1 .. Cardinality(UsedIds) + 1 : i \notin UsedIds
  <2> SUFFICES ASSUME 1 .. Cardinality(UsedIds) + 1 \subseteq UsedIds PROVE FALSE
    OBVIOUS
  <2>1. Cardinality(UsedIds) \in Nat
    BY <1>5, FS_CardinalityType
  <2>2. Cardinality(1 .. Cardinality(UsedIds) + 1) = Cardinality(UsedIds) + 1
    <3>1. \A n \in Nat : Cardinality(1 .. n + 1) = n + 1
      <4> SUFFICES ASSUME NEW n \in Nat PROVE Cardinality(1 .. n + 1) = n + 1
        OBVIOUS
      <4>1. 1 \in Int /\ n + 1 \in Int /\ ~ (1 > n + 1) /\ (n + 1) - 1 + 1 = n + 1
        OBVIOUS
      <4>2. Cardinality(1 .. n + 1) = IF 1 > n + 1 THEN 0 ELSE (n + 1) - 1 + 1
        BY <4>1, FS_Interval
      <4> QED
        BY <4>1, <4>2
    <3> QED
      BY <2>1, <3>1
  <2>3. Cardinality(1 .. Cardinality(UsedIds) + 1) <= Cardinality(UsedIds)
    BY <1>5, FS_Subset
  <2> QED
    BY <2>1, <2>2, <2>3
<1>7. NewId \in 1 .. Cardinality(UsedIds) + 1 /\ NewId \notin UsedIds
  BY <1>6 DEF NewId
<1>8. Cardinality(UsedIds) \in Nat
  BY <1>5, FS_CardinalityType
<1> QED
  BY <1>7, <1>8

\* c is called by the innermost call, or by the driver
Begins(c) ==
  /\ calls' = <<c>> \o calls
  /\ c \in CallType /\ c.pc = 1 /\ c.id \notin UsedIds /\ c.from = Surroundings
  /\ c.safeCall => c.fn = "qz_peval"
  /\ calls # <<>> => Waits(Top, c) /\ errorObj = NoObj
  /\ calls = <<>> => c.fn = "qz_peval"

LEMMA Begun ==
  ASSUME Types, NEW c, Begins(c)
  PROVE  /\ calls' \in Seq(CallType) /\ Len(calls') = Len(calls) + 1 /\ Len(calls) \in Nat
         /\ DOMAIN calls = 1 .. Len(calls) /\ DOMAIN calls' = 1 .. Len(calls) + 1
         /\ calls'[1] = c /\ Top' = c /\ calls' # <<>>
         /\ \A k \in DOMAIN calls : k + 1 \in DOMAIN calls' /\ calls'[k + 1] = calls[k]
         /\ \A k \in DOMAIN calls' :
              k # 1 => /\ k - 1 \in DOMAIN calls /\ calls'[k] = calls[k - 1]
                       /\ k = (k - 1) + 1
         /\ \A k \in DOMAIN calls : calls[k].id # c.id
<1>1. /\ calls \in Seq(CallType) /\ Len(calls) \in Nat /\ DOMAIN calls = 1 .. Len(calls)
      /\ calls' = <<c>> \o calls /\ c \in CallType
  BY DEF Types, Begins
<1>2. /\ calls' \in Seq(CallType) /\ Len(calls') = Len(calls) + 1
      /\ DOMAIN calls' = 1 .. Len(calls) + 1
      /\ calls'[1] = c /\ \A k \in 1 .. Len(calls) : calls'[k + 1] = calls[k]
  BY <1>1
<1>3. calls' # <<>> /\ Top' = c
  BY <1>2 DEF Top
<1>4. \A k \in DOMAIN calls : k + 1 \in DOMAIN calls' /\ calls'[k + 1] = calls[k]
  BY <1>1, <1>2
<1>5. ASSUME NEW k \in DOMAIN calls', k # 1
      PROVE  /\ k - 1 \in DOMAIN calls /\ calls'[k] = calls[k - 1] /\ k = (k - 1) + 1
  <2>1. k - 1 \in 1 .. Len(calls) /\ k = (k - 1) + 1
    BY <1>1, <1>2, <1>5
  <2>2. calls'[(k - 1) + 1] = calls[k - 1]
    BY <1>2, <2>1
  <2> QED
    BY <1>1, <2>1, <2>2
<1>6. \A k \in DOMAIN calls : calls[k].id # c.id
  BY DEF Begins, UsedIds, LiveIds
<1> QED
  BY <1>1, <1>2, <1>3, <1>4, <1>5, <1>6
(* The new call expects to find what it has found, and owns nothing yet.   *)
LEMMA BeginsFrame ==
  ASSUME Types, RefInv, FrameInv, NEW c, Begins(c),
         \A i \in DOMAIN env : env[i] \in ToSet(safety),
         UNCHANGED <<env, safety, held, gone, errorObj>>
  PROVE  FrameInv'
<1>1. /\ DOMAIN calls = 1 .. Len(calls) /\ DOMAIN calls' = 1 .. Len(calls) + 1
      /\ Len(calls) \in Nat /\ calls'[1] = c
      /\ \A k \in DOMAIN calls' :
              k # 1 => /\ k - 1 \in DOMAIN calls /\ calls'[k] = calls[k - 1]
                       /\ k = (k - 1) + 1
      /\ \A k \in DOMAIN calls : calls[k].id # c.id
  BY Begun
<1>2. /\ env' = env /\ safety' = safety /\ held' = held /\ gone' = gone
      /\ errorObj' = errorObj
  OBVIOUS
<1>3. /\ c \in CallType /\ c.fn \in Known /\ c.pc = 1 /\ c.id \in Nat \ {0}
      /\ c.from[1] = env /\ c.from[2] = Len(safety) /\ Len(safety) \in Nat
  BY CallTypes DEF Begins, Surroundings, Types
<1>4. Entered \in Locals[c.fn] /\ Entered.pc = 1 /\ Entered.owns = {} /\ Entered.freed = {}
      /\ Entered.pushed = <<>> /\ Entered.saved = FALSE /\ Entered.inEnv = FALSE
      /\ Entered.installed = FALSE
  <2>1. Entered \in Locals[c.fn]
    BY <1>3, Rules
  <2> QED
    BY <2>1 DEF Entered
<1>5. HeldNow(c, Entered)'
  <2>1. \A o \in held \cup gone \cup ToSet(safety) : o[1] # c.id
    BY DEF Begins, UsedIds
  <2> QED
    BY <1>2, <1>3, <1>4, <2>1 DEF HeldNow
<1>6. PushedNow(c, Entered, EndOf(1))'
  <2> SUFFICES ASSUME NEW e, e = EndOf(1)'
               PROVE  PushedNow(c, Entered, e)'
    OBVIOUS
  <2>1. e = Len(safety)
    BY <1>2 DEF EndOf
  <2>2. Len(Entered.pushed) = 0
    BY <1>4
  <2>3. \A n \in DOMAIN safety : safety[n][1] # c.id
    BY DEF Begins, UsedIds, ToSet
  <2>4. c.from[2] + Len(Entered.pushed) = e /\ c.from[2] + Len(Entered.pushed) <= e
    BY <1>3, <2>1, <2>2
  <2>5. \A j \in 1 .. Len(Entered.pushed) : safety'[c.from[2] + j] = <<c.id, Entered.pushed[j]>>
    BY <2>2
  <2> QED
    BY <1>2, <1>4, <2>3, <2>4, <2>5 DEF PushedNow
<1>7. EnvNow(c, Entered)'
  <2>1. env \in Seq(Ref) /\ Len(env) \in Nat /\ DOMAIN env = 1 .. Len(env)
    BY DEF Types
  <2>2. Depth(c)' = 0
    BY <1>2, <1>3, <2>1 DEF Depth
  <2>3. SubSeq(env, 0 + 1, Len(env)) = env
    BY <2>1
  <2>4. \A i \in DOMAIN env : i > 0 <=> \E n \in 1 .. c.from[2] : safety[n] = env[i]
    BY <1>3, <2>1 DEF ToSet, Types
  <2> QED
    BY <1>2, <1>3, <1>4, <2>2, <2>3, <2>4 DEF EnvNow
<1>8. ASSUME NEW k \in DOMAIN calls', k # 1
      PROVE  EndOf(k)' = EndOf(k - 1)
  <2>1. k - 1 \in DOMAIN calls
    BY <1>1, <1>8
  <2>2. CASE k = 2
    BY <1>1, <1>2, <1>3, <2>2 DEF EndOf
  <2>3. CASE k # 2
    <3>1. k - 1 # 1 /\ k - 1 \in DOMAIN calls' /\ (k - 1) - 1 \in DOMAIN calls
          /\ calls'[k - 1] = calls[(k - 1) - 1]
      BY <1>1, <1>8, <2>3
    <3> QED
      BY <1>8, <3>1 DEF EndOf
  <2> QED
    BY <2>2, <2>3
<1>9. ASSUME NEW k \in DOMAIN calls', NEW d, d = calls'[k], NEW e, e = EndOf(k)'
      PROVE  \E l \in Locals[d.fn] : HeldNow(d, l)' /\ PushedNow(d, l, e)' /\ EnvNow(d, l)'
  <2>1. CASE k = 1
    BY <1>1, <1>4, <1>5, <1>6, <1>7, <1>9, <2>1
  <2>2. CASE k # 1
    <3>1. k - 1 \in DOMAIN calls /\ d = calls[k - 1] /\ e = EndOf(k - 1)
      BY <1>1, <1>8, <1>9, <2>2
    <3>2. PICK l \in Locals[d.fn] :
            HeldNow(d, l) /\ PushedNow(d, l, e) /\ EnvNow(d, l)
      BY <3>1 DEF FrameInv
    <3>3. HeldNow(d, l)'
      BY <1>2, <3>2 DEF HeldNow
    <3>4. PushedNow(d, l, e)'
      BY <1>2, <3>2 DEF PushedNow
    <3>5. EnvNow(d, l)'
      BY <1>2, <3>2 DEF EnvNow, Depth
    <3> QED
      BY <3>2, <3>3, <3>4, <3>5
  <2> QED
    BY <2>1, <2>2
<1>10. ASSUME NEW j \in DOMAIN calls', NEW k \in DOMAIN calls', j < k
       PROVE  calls'[k].from[2] <= calls'[j].from[2]
  <2>1. k # 1 /\ k - 1 \in DOMAIN calls /\ calls'[k] = calls[k - 1]
    BY <1>1, <1>10
  <2>2. CASE j # 1
    <3>1. j - 1 \in DOMAIN calls /\ calls'[j] = calls[j - 1] /\ j - 1 < k - 1
      BY <1>1, <1>10, <2>2
    <3> QED
      BY <2>1, <3>1 DEF FrameInv
  <2>3. CASE j = 1
    <3>1. calls # <<>>
      BY <1>1, <2>1
    <3>2. /\ Top = calls[1] /\ 1 \in DOMAIN calls /\ calls[k - 1] \in CallType
          /\ Top.from[2] \in Nat
      BY <2>1, <3>1, TopCall, CallTypes
    <3>3. Top.from[2] <= Len(safety)
      <4>1. PICK l \in Locals[Top.fn] : PushedNow(Top, l, Len(safety)) /\ HeldNow(Top, l)
        BY <3>1, TopState
      <4>2. Len(l.pushed) \in Nat
        BY <3>1, <4>1, TopRules DEF HeldNow
      <4> QED
        BY <1>3, <3>2, <4>1, <4>2 DEF PushedNow
    <3>4. calls[k - 1].from[2] <= Top.from[2]
      <4>1. calls[k - 1].from[2] \in Nat
        BY <3>2, CallTypes
      <4>2. k - 1 = 1 \/ 1 < k - 1
        BY <1>1, <2>1
      <4> QED
        BY <2>1, <3>2, <4>1, <4>2 DEF FrameInv
    <3>5. calls[k - 1].from[2] \in Nat
      BY <3>2, CallTypes
    <3> QED
      BY <1>1, <1>3, <2>1, <2>3, <3>2, <3>3, <3>4, <3>5
  <2> QED
    BY <2>2, <2>3
<1> QED
  BY <1>9, <1>10 DEF FrameInv

LEMMA BeginsFail ==
  ASSUME Types, FailInv, NEW c, Begins(c), pevalFail' = pevalFail
  PROVE  FailInv'
<1>1. /\ DOMAIN calls = 1 .. Len(calls) /\ DOMAIN calls' = 1 .. Len(calls) + 1
      /\ Len(calls) \in Nat /\ calls'[1] = c /\ Len(calls') = Len(calls) + 1
      /\ \A k \in DOMAIN calls' :
              k # 1 => /\ k - 1 \in DOMAIN calls /\ calls'[k] = calls[k - 1]
                       /\ k = (k - 1) + 1
  BY Begun
<1>2. c.pc = 1 /\ c.from[3] = pevalFail /\ ~ InJump(c)
  BY DEF Begins, Surroundings, InJump
<1>3. ASSUME NEW i \in Nat \ {0}, NEW k \in 2 .. Len(calls) + 2, NoJump(i, k)'
      PROVE  NoJump(i - 1, k - 1)
  <2> SUFFICES ASSUME NEW j \in (i - 1) + 1 .. (k - 1) - 1
               PROVE  ~ InJump(calls[j])
    BY DEF NoJump
  <2>1. j + 1 \in i + 1 .. k - 1 /\ j + 1 \in DOMAIN calls' /\ j + 1 # 1 /\ (j + 1) - 1 = j
    BY <1>1
  <2>2. calls'[j + 1] = calls[j]
    BY <1>1, <2>1
  <2> QED
    BY <1>3, <2>1, <2>2 DEF NoJump
<1>4. ASSUME NEW k \in 2 .. Len(calls) + 2
      PROVE  FailBelow(k)' = FailBelow(k - 1) /\ k - 1 \in 1 .. Len(calls) + 1
  <2>1. k - 1 \in 1 .. Len(calls) + 1
    BY <1>1
  <2>2. CASE k > Len(calls) + 1
    <3>1. k - 1 > Len(calls)
      BY <1>1, <2>2
    <3> QED
      BY <1>1, <2>1, <2>2, <3>1 DEF FailBelow
  <2>3. CASE ~ (k > Len(calls) + 1)
    <3>1. k \in DOMAIN calls' /\ k # 1 /\ ~ (k - 1 > Len(calls))
      BY <1>1, <2>3
    <3> QED
      BY <1>1, <2>1, <2>3, <3>1 DEF FailBelow
  <2> QED
    BY <2>2, <2>3
<1>5. ASSUME NEW i \in DOMAIN calls', NEW k \in 1 .. Len(calls') + 1, i < k, NoJump(i, k)'
      PROVE  calls'[i].from[3] = FailBelow(k)'
  <2>1. k \in 2 .. Len(calls) + 2 /\ i \in Nat \ {0}
    BY <1>1, <1>5
  <2>2. NoJump(i - 1, k - 1)
    BY <1>3, <1>5, <2>1
  <2>3. FailBelow(k)' = FailBelow(k - 1) /\ k - 1 \in 1 .. Len(calls) + 1
    BY <1>4, <2>1
  <2>4. CASE i = 1
    <3>1. NoJump(0, k - 1)
      BY <2>2, <2>4
    <3>2. pevalFail = FailBelow(k - 1)
      BY <2>3, <3>1 DEF FailInv
    <3> QED
      BY <1>1, <1>2, <2>3, <2>4, <3>2
  <2>5. CASE i # 1
    <3>1. i - 1 \in DOMAIN calls /\ calls'[i] = calls[i - 1] /\ i - 1 < k - 1
      BY <1>1, <1>5, <2>1, <2>5
    <3> QED
      BY <2>2, <2>3, <3>1 DEF FailInv
  <2> QED
    BY <2>4, <2>5
<1>6. ASSUME NEW k \in 1 .. Len(calls') + 1, NoJump(0, k)'
      PROVE  pevalFail' = FailBelow(k)'
  <2>1. CASE k = 1
    BY <1>1, <1>2, <2>1 DEF FailBelow
  <2>2. CASE k # 1
    <3>1. NoJump(1, k)'
      BY <1>6 DEF NoJump
    <3>2. 1 < k /\ 1 \in DOMAIN calls'
      BY <1>1, <2>2
    <3> QED
      BY <1>1, <1>2, <1>5, <3>1, <3>2
  <2> QED
    BY <2>1, <2>2
<1>7. \A k \in DOMAIN calls' : InJump(calls'[k]) => calls'[k].fail = calls'[k].from[3]
  BY <1>1, <1>2 DEF FailInv
<1> QED
  BY <1>5, <1>6, <1>7 DEF FailInv
LEMMA BeginsHandler ==
  ASSUME Types, RefInv, HandlerInv, NEW c, Begins(c), handler' = handler, gone' = gone
  PROVE  HandlerInv'
<1>1. /\ DOMAIN calls = 1 .. Len(calls) /\ DOMAIN calls' = 1 .. Len(calls) + 1
      /\ Len(calls) \in Nat /\ calls'[1] = c /\ Len(calls') = Len(calls) + 1
      /\ \A k \in DOMAIN calls' :
              k # 1 => /\ k - 1 \in DOMAIN calls /\ calls'[k] = calls[k - 1]
                       /\ k = (k - 1) + 1
  BY Begun
<1>2. c.from[4] = handler /\ ~ Around(c)
  <2>1. c.fn \in Known /\ c.pc = 1
    BY CallTypes DEF Begins
  <2>2. Entered.installed <=> AroundPeval(c.fn, Entered.pc)
    BY <2>1, Rules DEF KeepsRules
  <2>3. Entered.installed = FALSE /\ Entered.pc = 1
    BY DEF Entered
  <2> QED
    BY <2>1, <2>2, <2>3 DEF Begins, Surroundings, Around
<1>3. ASSUME NEW i \in Nat \ {0}, NEW k \in 2 .. Len(calls) + 2, NoHandler(i, k)'
      PROVE  NoHandler(i - 1, k - 1)
  <2> SUFFICES ASSUME NEW j \in (i - 1) + 1 .. (k - 1) - 1
               PROVE  ~ Around(calls[j])
    BY DEF NoHandler
  <2>1. j + 1 \in i + 1 .. k - 1 /\ j + 1 \in DOMAIN calls' /\ j + 1 # 1 /\ (j + 1) - 1 = j
    BY <1>1
  <2>2. calls'[j + 1] = calls[j]
    BY <1>1, <2>1
  <2> QED
    BY <1>3, <2>1, <2>2 DEF NoHandler
<1>4. ASSUME NEW k \in 2 .. Len(calls) + 2, NEW h
      PROVE  /\ HandlerBelow(k - 1, h) => HandlerBelow(k, h)'
             /\ k - 1 \in 1 .. Len(calls) + 1
  <2>1. k - 1 \in 1 .. Len(calls) + 1
    BY <1>1
  <2>2. CASE k > Len(calls) + 1
    <3>1. k - 1 > Len(calls)
      BY <1>1, <2>2
    <3> QED
      BY <1>1, <2>1, <2>2, <3>1 DEF HandlerBelow
  <2>3. CASE ~ (k > Len(calls) + 1)
    <3>1. k \in DOMAIN calls' /\ k # 1 /\ ~ (k - 1 > Len(calls))
      BY <1>1, <2>3
    <3> QED
      BY <1>1, <2>1, <2>3, <3>1 DEF HandlerBelow
  <2> QED
    BY <2>2, <2>3
<1>5. ASSUME NEW i \in DOMAIN calls', NEW k \in 1 .. Len(calls') + 1, i < k, NoHandler(i, k)',
             NEW h, h = calls'[i].from[4]
      PROVE  HandlerBelow(k, h)'
  <2>1. k \in 2 .. Len(calls) + 2 /\ i \in Nat \ {0}
    BY <1>1, <1>5
  <2>2. NoHandler(i - 1, k - 1)
    BY <1>3, <1>5, <2>1
  <2>3. /\ HandlerBelow(k - 1, h) => HandlerBelow(k, h)'
        /\ k - 1 \in 1 .. Len(calls) + 1
    BY <1>4, <2>1
  <2>4. CASE i = 1
    <3>1. NoHandler(0, k - 1)
      BY <2>2, <2>4
    <3>2. HandlerBelow(k - 1, handler)
      BY <2>3, <3>1 DEF HandlerInv
    <3> QED
      BY <1>1, <1>2, <1>5, <2>3, <2>4, <3>2
  <2>5. CASE i # 1
    <3>1. i - 1 \in DOMAIN calls /\ calls'[i] = calls[i - 1] /\ i - 1 < k - 1
      BY <1>1, <1>5, <2>1, <2>5
    <3>2. HandlerBelow(k - 1, calls[i - 1].from[4])
      BY <2>2, <2>3, <3>1 DEF HandlerInv
    <3> QED
      BY <1>5, <2>3, <3>1, <3>2
  <2> QED
    BY <2>4, <2>5
<1>6. ASSUME NEW k \in 1 .. Len(calls') + 1, NoHandler(0, k)', NEW h, h = handler'
      PROVE  HandlerBelow(k, h)'
  <2>1. CASE k = 1
    BY <1>1, <1>2, <1>6, <2>1 DEF HandlerBelow
  <2>2. CASE k # 1
    <3>1. NoHandler(1, k)'
      BY <1>6 DEF NoHandler
    <3>2. 1 < k /\ 1 \in DOMAIN calls' /\ h = calls'[1].from[4]
      BY <1>1, <1>2, <1>6, <2>2
    <3> QED
      BY <1>5, <3>1, <3>2
  <2> QED
    BY <2>1, <2>2
<1>7. \A k \in DOMAIN calls' : Around(calls'[k]) => calls'[k].saved = calls'[k].from[4]
  BY <1>1, <1>2 DEF HandlerInv
<1>8. \A k \in 1 .. Len(calls') + 1 : NoHandler(0, k)' => HandlerBelow(k, handler)'
  <2> SUFFICES ASSUME NEW k \in 1 .. Len(calls') + 1, NoHandler(0, k)', NEW h, h = handler'
               PROVE  HandlerBelow(k, h)'
    OBVIOUS
  <2> QED
    BY <1>6
<1>9. \A i \in DOMAIN calls', k \in 1 .. Len(calls') + 1 :
         i < k /\ NoHandler(i, k)' => HandlerBelow(k, calls[i].from[4])'
  <2> SUFFICES ASSUME NEW i \in DOMAIN calls', NEW k \in 1 .. Len(calls') + 1,
                      i < k, NoHandler(i, k)', NEW h, h = calls'[i].from[4]
               PROVE  HandlerBelow(k, h)'
    OBVIOUS
  <2> QED
    BY <1>5
<1> QED
  BY <1>7, <1>8, <1>9 DEF HandlerInv

(* The invariant holds when a call begins.                                 *)
LEMMA BeginsKeeps ==
  ASSUME IInv, NEW c, Begins(c),
         \A i \in DOMAIN env : env[i] \in ToSet(safety),
         UNCHANGED <<env, safety, held, gone, pevalFail, handler, errorObj, fault>>
  PROVE  IInv'
<1>1. Types /\ RefInv /\ FrameInv /\ EnvInv /\ FailInv /\ HandlerInv /\ WaitInv /\ PendInv
  BY DEF IInv
<1>2. /\ env' = env /\ safety' = safety /\ held' = held /\ gone' = gone
      /\ pevalFail' = pevalFail /\ handler' = handler /\ errorObj' = errorObj
      /\ fault' = fault
  OBVIOUS
<1>3. /\ calls' \in Seq(CallType) /\ Len(calls') = Len(calls) + 1 /\ Len(calls) \in Nat
      /\ DOMAIN calls = 1 .. Len(calls) /\ DOMAIN calls' = 1 .. Len(calls) + 1
      /\ calls'[1] = c /\ Top' = c /\ calls' # <<>>
      /\ \A k \in DOMAIN calls : k + 1 \in DOMAIN calls' /\ calls'[k + 1] = calls[k]
      /\ \A k \in DOMAIN calls' :
              k # 1 => /\ k - 1 \in DOMAIN calls /\ calls'[k] = calls[k - 1]
                       /\ k = (k - 1) + 1
      /\ \A k \in DOMAIN calls : calls[k].id # c.id
  BY <1>1, Begun
<1>4. Types'
  BY <1>1, <1>2, <1>3 DEF Types
<1>5. RefInv'
  <2>1. \A j, k \in DOMAIN calls' : calls'[j].id = calls'[k].id => j = k
    <3> SUFFICES ASSUME NEW j \in DOMAIN calls', NEW k \in DOMAIN calls',
                        calls'[j].id = calls'[k].id, j # k
                 PROVE  FALSE
      OBVIOUS
    <3>1. CASE j = 1
      BY <1>3, <3>1
    <3>2. CASE k = 1
      BY <1>3, <3>2
    <3>3. CASE j # 1 /\ k # 1
      <4>1. /\ j - 1 \in DOMAIN calls /\ k - 1 \in DOMAIN calls
            /\ calls[j - 1].id = calls[k - 1].id
            /\ j = (j - 1) + 1 /\ k = (k - 1) + 1
        BY <1>3, <3>3
      <4>2. j - 1 = k - 1
        BY <1>1, <4>1 DEF RefInv
      <4> QED
        BY <4>1, <4>2
    <3> QED
      BY <3>1, <3>2, <3>3
  <2>2. LiveIds(calls) \subseteq LiveIds(calls')
    <3> SUFFICES ASSUME NEW k \in DOMAIN calls PROVE calls[k].id \in LiveIds(calls')
      BY DEF LiveIds
    <3>1. k + 1 \in DOMAIN calls' /\ calls'[k + 1] = calls[k]
      BY <1>3
    <3> QED
      BY <3>1 DEF LiveIds
  <2> QED
    BY <1>1, <1>2, <2>1, <2>2 DEF RefInv, NothingLost
<1>6. FrameInv'
  BY <1>1, <1>2, BeginsFrame
<1>7. EnvInv'
  <2>1. \A i \in DOMAIN env' : env'[i] \in ToSet(safety')
    BY <1>2
  <2> QED
    BY <1>1, <1>2, <2>1 DEF EnvInv
<1>8. FailInv'
  BY <1>1, <1>2, BeginsFail
<1>9. HandlerInv'
  BY <1>1, <1>2, BeginsHandler
<1>10. WaitInv'
  <2>1. ASSUME NEW k \in DOMAIN calls', k > 1
        PROVE  Waits(calls'[k], calls'[k - 1])
    <3>1. k - 1 \in DOMAIN calls /\ calls'[k] = calls[k - 1] /\ k = (k - 1) + 1
      BY <1>3, <2>1
    <3>2. CASE k = 2
      <4>1. calls # <<>> /\ Top = calls[1]
        BY <1>3, <3>1, <3>2 DEF Top
      <4> QED
        BY <1>3, <3>1, <3>2, <4>1 DEF Begins
    <3>3. CASE k # 2
      <4>1. k - 1 \in DOMAIN calls' /\ k - 1 # 1 /\ k - 1 > 1
        BY <1>3, <2>1, <3>3
      <4>2. calls'[k - 1] = calls[(k - 1) - 1]
        BY <1>3, <4>1
      <4> QED
        BY <1>1, <3>1, <4>1, <4>2 DEF WaitInv
    <3> QED
      BY <3>2, <3>3
  <2>2. Last(calls').fn = "qz_peval"
    <3>1. CASE calls = <<>>
      <4>1. Last(calls') = c
        BY <1>3, <3>1 DEF Last
      <4> QED
        BY <3>1, <4>1 DEF Begins
    <3>2. CASE calls # <<>>
      <4>1. Len(calls) \in DOMAIN calls
        BY <1>3, <3>2
      <4>2. calls'[Len(calls) + 1] = calls[Len(calls)]
        BY <1>3, <4>1
      <4> QED
        BY <1>1, <1>3, <3>2, <4>2 DEF WaitInv, Last
    <3> QED
      BY <3>1, <3>2
  <2>3. \A k \in DOMAIN calls' : calls'[k].safeCall => calls'[k].fn = "qz_peval"
    BY <1>1, <1>3 DEF WaitInv, Begins
  <2> QED
    BY <2>1, <2>2, <2>3 DEF WaitInv
<1>11. PendInv'
  <2>1. CASE calls # <<>>
    BY <1>2, <2>1 DEF PendInv, Begins
  <2>2. CASE calls = <<>>
    BY <1>1, <1>2, <1>3, <2>2 DEF PendInv, Begins
  <2> QED
    BY <2>1, <2>2
<1> QED
  BY <1>4, <1>5, <1>6, <1>7, <1>8, <1>9, <1>10, <1>11 DEF IInv
LEMMA NewCallIs ==
  ASSUME Types, NEW f \in Known, NEW x \in Name, NEW b \in BOOLEAN,
         NEW c, c = NewCall(f, x, b)
  PROVE  /\ c \in CallType /\ c.fn = f /\ c.dest = x /\ c.pc = 1 /\ c.safeCall = b
         /\ c.id \notin UsedIds /\ c.from = Surroundings
<1>1. NewId \in Nat \ {0} /\ NewId \notin UsedIds
  BY NewIdFresh
<1>2. Surroundings \in Seq(Ref) \X Nat \X Nat \X AnyRef
  BY DEF Surroundings, Types
<1>3. NoObj \in AnyRef
  BY DEF NoObj, AnyRef, Name
<1>4. 0 \in 0 .. Capacity /\ <<>> \in Seq(Ref) /\ NoCall \in Nat /\ 1 \in Int
  BY InterpreterAssumption DEF NoCall
<1>5. c = [fn |-> f, pc |-> 1, id |-> NewId, dest |-> x, base |-> 0, oldEnv |-> <<>>,
           fail |-> NoCall, saved |-> NoObj, safeCall |-> b, from |-> Surroundings]
  BY DEF NewCall
<1>6. c \in CallType
  <2>1. f \in Known /\ x \in Name /\ b \in BOOLEAN
    OBVIOUS
  <2> QED
    BY ONLY <1>1, <1>2, <1>3, <1>4, <1>5, <2>1 DEF CallType
<1> QED
  BY ONLY <1>1, <1>5, <1>6

(* A call that calls another, returns, or is left by an error has its      *)
(* environment in the buffer.                                              *)
LEMMA EnvPushed ==
  ASSUME Types, calls # <<>>, NEW l, TopIs(l),
         MayThrow(Step) \/ CallsPeval(Step) \/ Step.op = "return"
  PROVE  l.inEnv => "env" \in ToSet(l.pushed)
<1>1. /\ ExitRules(Top.fn, l, Step) /\ (l.inEnv <=> "env" \in l.owns)
      /\ NameRules(l, Step)
  BY TopRules DEF TopIs
<1>2. Step.op \in {"raise", "return"} => Step.var # "env"
  BY <1>1 DEF NameRules, Reads
<1>3. CASE MayThrow(Step)
  BY <1>1, <1>2, <1>3 DEF ExitRules
<1>4. CASE CallsPeval(Step)
  BY <1>1, <1>4 DEF ExitRules
<1>5. CASE Step.op = "return"
  BY <1>1, <1>2, <1>5 DEF ExitRules
<1> QED
  BY <1>3, <1>4, <1>5

LEMMA EnvsSafe ==
  ASSUME Types, FrameInv, EnvInv, PendInv, calls # <<>>, NEW l, TopIs(l),
         MayThrow(Step) \/ CallsPeval(Step) \/ Step.op = "return"
  PROVE  \A i \in DOMAIN env : env[i] \in ToSet(safety)
<1> SUFFICES ASSUME NEW i \in DOMAIN env, env[i] \notin ToSet(safety)
             PROVE  FALSE
  OBVIOUS
<1>1. env[i] = Obj("env") /\ env[i] \in held
  BY DEF EnvInv
<1>2. l.inEnv
  BY <1>1, EnvOwned
<1>3. l.pushed \in Seq(Name) /\ Len(l.pushed) \in Nat
  BY TopRules DEF TopIs
<1>4. "env" \in ToSet(l.pushed)
  BY <1>2, EnvPushed
<1>5. PICK j \in 1 .. Len(l.pushed) : l.pushed[j] = "env"
  BY <1>3, <1>4 DEF ToSet
<1>6. safety[Top.from[2] + j] = Obj("env") /\ Top.from[2] + j \in DOMAIN safety
  <2>1. /\ Top.from[2] + Len(l.pushed) <= Len(safety)
        /\ safety[Top.from[2] + j] = <<Top.id, l.pushed[j]>>
    BY DEF TopIs, PushedNow
  <2>2. Top.from[2] \in Nat /\ DOMAIN safety = 1 .. Len(safety) /\ Len(safety) \in Nat
    BY TopCall, CallTypes DEF Types
  <2>3. Top.from[2] + j \in 1 .. Len(safety)
    BY <1>3, <2>1, <2>2
  <2> QED
    BY <1>5, <2>1, <2>2, <2>3 DEF Obj
<1> QED
  BY <1>1, <1>6 DEF ToSet

LEMMA TopLevelKeeps ==
  ASSUME IInv, TopLevel
  PROVE  IInv'
<1>1. Types /\ EnvInv /\ calls = <<>> /\ calls' = <<NewCall("qz_peval", "result", FALSE)>> \o calls
  BY DEF IInv, TopLevel, Enter
<1>2. SUFFICES ASSUME NEW b \in BOOLEAN, b = FALSE,
                      NEW c, c = NewCall("qz_peval", "result", b)
               PROVE  IInv'
  OBVIOUS
<1>8. c = NewCall("qz_peval", "result", FALSE)
  BY <1>2
<1>3. "qz_peval" \in Known /\ "result" \in Name /\ b \in BOOLEAN
  BY DEF Known, Evaluator, Name
<1>4. /\ c \in CallType /\ c.fn = "qz_peval" /\ c.dest = "result" /\ c.pc = 1
      /\ c.safeCall = b /\ c.id \notin UsedIds /\ c.from = Surroundings
  BY ONLY <1>1, <1>2, <1>3, NewCallIs
<1>5. Begins(c)
  <2>1. c.safeCall => c.fn = "qz_peval"
    BY <1>4
  <2> QED
    BY <1>1, <1>4, <1>8, <2>1 DEF Begins
<1>6. \A i \in DOMAIN env : env[i] \in ToSet(safety)
  BY <1>1 DEF EnvInv
<1>7. UNCHANGED <<env, safety, held, gone, pevalFail, handler, errorObj, fault>>
  BY DEF TopLevel
<1> QED
  BY <1>5, <1>6, <1>7, BeginsKeeps

(* The innermost call calls the function f.                                *)
LEMMA CallKeeps ==
  ASSUME IInv, calls # <<>>, Step.op \in {"eval", "call", "cfun"},
         NEW f \in Known, NEW b \in BOOLEAN, b => f = "qz_peval",
         Step.op = "eval" => f = "qz_eval", Step.op = "call" => f = Step.fn,
         Step.op = "cfun" => f \in Functions,
         calls' = <<NewCall(f, Step.var, b)>> \o calls,
         UNCHANGED <<env, safety, held, gone, pevalFail, handler, errorObj, fault>>
  PROVE  IInv'
<1>1. Types /\ FrameInv /\ EnvInv /\ PendInv
  BY DEF IInv
<1>2. PICK l : TopIs(l)
  BY <1>1, TopIsSome
<1>3. NameRules(l, Step) /\ Now(Top) = Step
  BY <1>1, <1>2, TopRules DEF TopIs
<1>4. Step.var \in Name
  BY <1>3 DEF NameRules, Assigns
<1>10. SUFFICES ASSUME NEW c, c = NewCall(f, Step.var, b)
                PROVE  IInv'
  OBVIOUS
<1>5. /\ c \in CallType /\ c.fn = f /\ c.dest = Step.var /\ c.pc = 1
      /\ c.safeCall = b /\ c.id \notin UsedIds /\ c.from = Surroundings
  <2>1. f \in Known /\ b \in BOOLEAN
    OBVIOUS
  <2> QED
    BY ONLY <1>1, <1>4, <1>10, <2>1, NewCallIs
<1>6. errorObj = NoObj
  BY <1>1, <1>2, NothingPends
<1>7. Waits(Top, c)
  BY <1>3, <1>5 DEF Waits
<1>8. Begins(c)
  <2>1. c.safeCall => c.fn = "qz_peval"
    <3>1. c.safeCall => b
      BY <1>5
    <3> QED
      BY <1>5, <3>1
  <2>2. calls' = <<c>> \o calls
    BY <1>10
  <2> QED
    BY <1>5, <1>6, <1>7, <2>1, <2>2 DEF Begins
<1>9. \A i \in DOMAIN env : env[i] \in ToSet(safety)
  <2>1. MayThrow(Step) \/ CallsPeval(Step)
    BY DEF MayThrow
  <2> QED
    BY <1>1, <1>2, <2>1, EnvsSafe
<1> QED
  BY <1>8, <1>9, BeginsKeeps

LEMMA EvalPairKeeps ==
  ASSUME IInv, EvalPair
  PROVE  IInv'
<1>1. /\ calls # <<>> /\ Step.op = "eval"
      /\ calls' = <<NewCall("qz_eval", Step.var, FALSE)>> \o calls
  BY DEF EvalPair, Does, Running, Enter
<1>3. UNCHANGED <<env, safety, held, gone, pevalFail, handler, errorObj, fault>>
  BY DEF EvalPair
<1>4. "qz_eval" \in Known
  BY DEF Known, Evaluator
<1> QED
  BY <1>1, <1>3, <1>4, CallKeeps

LEMMA CallFunctionKeeps ==
  ASSUME IInv, CallFunction
  PROVE  IInv'
<1>1. calls # <<>> /\ Step.op = "call" /\ Types /\ FrameInv
  BY DEF CallFunction, Does, Running, IInv
<1>2. PICK l : TopIs(l)
  BY <1>1, TopIsSome
<1>3. Step.fn \in {"call_function", "qz_peval"}
  BY <1>1, <1>2, TopRules DEF TopIs, ExitRules
<1>4. Step.fn \in Known
  BY <1>3 DEF Known, Evaluator
<1> SUFFICES ASSUME NEW b, b = (Top.fn = "qz_peval" /\ Top.saved = Failsafe)
             PROVE  IInv'
  OBVIOUS
<1>5. b \in BOOLEAN /\ calls' = <<NewCall(Step.fn, Step.var, b)>> \o calls
  BY DEF CallFunction
<1>6. b => Step.fn = "qz_peval"
  <2> SUFFICES ASSUME b PROVE Step.fn = "qz_peval"
    OBVIOUS
  <2>1. Top.fn = "qz_peval" /\ Top.pc \in 1 .. 11
    BY <1>1, <1>2, PevalTop
  <2>2. Top.pc = 6
    BY <1>1, <1>2, <2>1, PevalTop
  <2> QED
    BY <1>1, <1>2, <2>1, <2>2, PevalTop
<1>7. UNCHANGED <<env, safety, held, gone, pevalFail, handler, errorObj, fault>>
  BY DEF CallFunction
<1> QED
  BY <1>1, <1>4, <1>5, <1>6, <1>7, CallKeeps

LEMMA CallLibraryKeeps ==
  ASSUME IInv, CallLibrary
  PROVE  IInv'
<1>1. calls # <<>> /\ Step.op = "cfun"
  BY DEF CallLibrary, Does, Running
<1>2. PICK f \in Functions : calls' = <<NewCall(f, Step.var, FALSE)>> \o calls
  BY DEF CallLibrary, Enter
<1>4. f \in Known
  BY DEF Known
<1>5. UNCHANGED <<env, safety, held, gone, pevalFail, handler, errorObj, fault>>
  BY DEF CallLibrary
<1> QED
  BY <1>1, <1>2, <1>4, <1>5, CallKeeps

(***************************************************************************)
(* Returns and errors: the calls above the n-th are dropped, and that one  *)
(* goes on as t.                                                           *)
(***************************************************************************)
Unwinds(n, t) ==
  /\ n \in DOMAIN calls /\ calls' = <<t>> \o SubSeq(calls, n + 1, Len(calls))
  /\ t \in CallType
  /\ t.fn = calls[n].fn /\ t.id = calls[n].id /\ t.dest = calls[n].dest
  /\ t.from = calls[n].from /\ t.safeCall = calls[n].safeCall /\ t.base = calls[n].base
  /\ t.oldEnv = calls[n].oldEnv /\ t.fail = calls[n].fail /\ t.saved = calls[n].saved

LEMMA Unwound ==
  ASSUME Types, NEW n, NEW t, Unwinds(n, t)
  PROVE  /\ n \in 1 .. Len(calls) /\ Len(calls) \in Nat \ {0} /\ DOMAIN calls = 1 .. Len(calls)
         /\ calls' \in Seq(CallType) /\ Len(calls') = Len(calls) - n + 1
         /\ DOMAIN calls' = 1 .. Len(calls) - n + 1
         /\ calls'[1] = t /\ Top' = t /\ calls' # <<>> /\ 1 \in DOMAIN calls'
         /\ \A k \in DOMAIN calls' : k # 1 =>
              k + n - 1 \in n + 1 .. Len(calls) /\ calls'[k] = calls[k + n - 1]
         /\ \A k \in n + 1 .. Len(calls) :
              k - n + 1 \in DOMAIN calls' /\ calls'[k - n + 1] = calls[k]
<1>1. /\ calls \in Seq(CallType) /\ n \in 1 .. Len(calls) /\ DOMAIN calls = 1 .. Len(calls)
      /\ Len(calls) \in Nat \ {0} /\ t \in CallType
  BY DEF Types, Unwinds
<1>2. SUFFICES ASSUME NEW s, s = SubSeq(calls, n + 1, Len(calls))
               PROVE  /\ calls' \in Seq(CallType) /\ Len(calls') = Len(calls) - n + 1
                      /\ DOMAIN calls' = 1 .. Len(calls) - n + 1
                      /\ calls'[1] = t /\ Top' = t /\ calls' # <<>> /\ 1 \in DOMAIN calls'
                      /\ \A k \in DOMAIN calls' : k # 1 =>
                           k + n - 1 \in n + 1 .. Len(calls) /\ calls'[k] = calls[k + n - 1]
                      /\ \A k \in n + 1 .. Len(calls) :
                           k - n + 1 \in DOMAIN calls' /\ calls'[k - n + 1] = calls[k]
  BY <1>1
<1>3. /\ s \in Seq(CallType) /\ Len(s) = Len(calls) - n
      /\ \A k \in 1 .. Len(calls) - n : s[k] = calls[k + n]
  <2>1. \A q \in Seq(CallType) : \A a \in 1 .. Len(q) :
          /\ SubSeq(q, a + 1, Len(q)) \in Seq(CallType)
          /\ Len(SubSeq(q, a + 1, Len(q))) = Len(q) - a
          /\ \A k \in 1 .. Len(q) - a : SubSeq(q, a + 1, Len(q))[k] = q[k + a]
    <3> TAKE q \in Seq(CallType)
    <3> TAKE a \in 1 .. Len(q)
    <3>1. \A i \in a + 1 .. Len(q) : q[i] \in CallType
      OBVIOUS
    <3>2. Len(q) \in Nat /\ a \in Nat /\ a <= Len(q) /\ a + 1 \in Int
      OBVIOUS
    <3>3. Len(SubSeq(q, a + 1, Len(q))) = Len(q) - a
      BY <3>2
    <3>4. \A k \in 1 .. Len(q) - a : SubSeq(q, a + 1, Len(q))[k] = q[k + a]
      BY <3>2
    <3>5. SubSeq(q, a + 1, Len(q)) \in Seq(CallType)
      BY <3>1, <3>2
    <3> QED
      BY <3>3, <3>4, <3>5
  <2> QED
    BY ONLY <1>1, <1>2, <2>1
<1>4. calls' = <<t>> \o s
  BY <1>2 DEF Unwinds
<1>5. Len(s) \in Nat
  BY <1>3
<1>6. /\ calls' \in Seq(CallType) /\ Len(calls') = Len(s) + 1
      /\ DOMAIN calls' = 1 .. Len(s) + 1
      /\ calls'[1] = t /\ \A k \in 1 .. Len(s) : calls'[k + 1] = s[k]
  BY ONLY <1>1, <1>3, <1>4, <1>5
<1>7. Len(s) + 1 = Len(calls) - n + 1
  BY <1>1, <1>3
<1>8. calls' # <<>> /\ Top' = t /\ 1 \in DOMAIN calls'
  BY <1>5, <1>6 DEF Top
<1>9. ASSUME NEW k \in DOMAIN calls', k # 1
      PROVE  k + n - 1 \in n + 1 .. Len(calls) /\ calls'[k] = calls[k + n - 1]
  <2>1. /\ k - 1 \in 1 .. Len(calls) - n /\ (k - 1) + 1 = k
        /\ (k - 1) + n = k + n - 1 /\ k + n - 1 \in n + 1 .. Len(calls)
    <3>1. \A a, c \in Nat : \A j \in 1 .. (a - c) + 1 :
            j # 1 => /\ j - 1 \in 1 .. a - c /\ (j - 1) + 1 = j
                     /\ (j - 1) + c = j + c - 1 /\ j + c - 1 \in c + 1 .. a
      OBVIOUS
    <3>2. k \in 1 .. (Len(calls) - n) + 1 /\ Len(calls) \in Nat /\ n \in Nat
      BY <1>1, <1>3, <1>6, <1>9
    <3> QED
      BY ONLY <1>9, <3>1, <3>2
  <2>2. calls'[(k - 1) + 1] = s[k - 1] /\ s[k - 1] = calls[(k - 1) + n]
    BY <1>3, <1>6, <2>1
  <2> QED
    BY <2>1, <2>2
<1>10. ASSUME NEW k \in n + 1 .. Len(calls)
       PROVE  k - n + 1 \in DOMAIN calls' /\ calls'[k - n + 1] = calls[k]
  <2>1. k - n \in 1 .. Len(calls) - n /\ (k - n) + n = k /\ k - n + 1 \in 1 .. Len(s) + 1
    BY <1>1, <1>3
  <2> QED
    BY <1>3, <1>6, <2>1
<1> QED
  BY <1>6, <1>7, <1>8, <1>9, <1>10

LEMMA FailUnwinds ==
  ASSUME Types, FailInv, NEW n, NEW t, Unwinds(n, t),
         InJump(t) => pevalFail' = t.id /\ t.fail = t.from[3],
         ~ InJump(t) => pevalFail' = t.from[3]
  PROVE  FailInv'
<1>1. /\ n \in 1 .. Len(calls) /\ Len(calls) \in Nat \ {0} /\ DOMAIN calls = 1 .. Len(calls)
      /\ Len(calls') = Len(calls) - n + 1 /\ DOMAIN calls' = 1 .. Len(calls) - n + 1
      /\ calls'[1] = t /\ 1 \in DOMAIN calls'
      /\ \A k \in DOMAIN calls' : k # 1 =>
              k + n - 1 \in n + 1 .. Len(calls) /\ calls'[k] = calls[k + n - 1]
      /\ \A k \in n + 1 .. Len(calls) :
              k - n + 1 \in DOMAIN calls' /\ calls'[k - n + 1] = calls[k]
  BY Unwound
<1>2. t.from = calls[n].from
  BY DEF Unwinds
<1>3. ASSUME NEW i \in Nat \ {0}, NEW k \in 2 .. Len(calls) - n + 2, NoJump(i, k)'
      PROVE  NoJump(i + n - 1, k + n - 1)
  <2> SUFFICES ASSUME NEW j \in (i + n - 1) + 1 .. (k + n - 1) - 1
               PROVE  ~ InJump(calls[j])
    BY DEF NoJump
  <2>1. j - n + 1 \in i + 1 .. k - 1 /\ j \in n + 1 .. Len(calls)
    BY <1>1
  <2>2. calls'[j - n + 1] = calls[j]
    BY <1>1, <2>1
  <2> QED
    BY <1>3, <2>1, <2>2 DEF NoJump
<1>4. ASSUME NEW k \in 2 .. Len(calls) - n + 2
      PROVE  FailBelow(k)' = FailBelow(k + n - 1) /\ k + n - 1 \in 1 .. Len(calls) + 1
  <2>1. k + n - 1 \in 1 .. Len(calls) + 1
    BY <1>1
  <2>2. CASE k > Len(calls')
    <3>1. k + n - 1 > Len(calls)
      BY <1>1, <2>2
    <3> QED
      BY <2>1, <2>2, <3>1 DEF FailBelow
  <2>3. CASE ~ (k > Len(calls'))
    <3>1. k \in DOMAIN calls' /\ k # 1 /\ ~ (k + n - 1 > Len(calls))
      BY <1>1, <2>3
    <3> QED
      BY <1>1, <2>1, <2>3, <3>1 DEF FailBelow
  <2> QED
    BY <2>2, <2>3
<1>5. ASSUME NEW i \in DOMAIN calls', NEW k \in 1 .. Len(calls') + 1, i < k, NoJump(i, k)'
      PROVE  calls'[i].from[3] = FailBelow(k)'
  <2>1. k \in 2 .. Len(calls) - n + 2 /\ i \in Nat \ {0}
    BY <1>1, <1>5
  <2>2. NoJump(i + n - 1, k + n - 1)
    BY <1>3, <1>5, <2>1
  <2>3. FailBelow(k)' = FailBelow(k + n - 1) /\ k + n - 1 \in 1 .. Len(calls) + 1
    BY <1>4, <2>1
  <2>4. i + n - 1 \in DOMAIN calls /\ i + n - 1 < k + n - 1
    BY <1>1, <1>5, <2>1
  <2>5. calls[i + n - 1].from[3] = FailBelow(k + n - 1)
    BY <2>2, <2>3, <2>4 DEF FailInv
  <2>6. calls'[i].from = calls[i + n - 1].from
    <3>1. CASE i = 1
      <4>1. i + n - 1 = n
        BY <1>1, <3>1
      <4> QED
        BY <1>1, <1>2, <3>1, <4>1
    <3>2. CASE i # 1
      BY <1>1, <3>2
    <3> QED
      BY <3>1, <3>2
  <2> QED
    BY <2>3, <2>5, <2>6
<1>6. ASSUME NEW k \in 1 .. Len(calls') + 1, NoJump(0, k)'
      PROVE  pevalFail' = FailBelow(k)'
  <2>1. CASE k = 1
    <3>1. ~ (1 > Len(calls'))
      BY <1>1
    <3> QED
      BY <1>1, <2>1, <3>1 DEF FailBelow
  <2>2. CASE k # 1
    <3>1. ~ InJump(t) /\ NoJump(1, k)' /\ 1 < k
      BY <1>1, <1>6, <2>2 DEF NoJump
    <3>2. calls'[1].from[3] = FailBelow(k)'
      BY <1>1, <1>5, <2>2, <3>1
    <3> QED
      BY <1>1, <3>1, <3>2
  <2> QED
    BY <2>1, <2>2
<1>7. \A k \in DOMAIN calls' : InJump(calls'[k]) => calls'[k].fail = calls'[k].from[3]
  BY <1>1 DEF FailInv
<1> QED
  BY <1>5, <1>6, <1>7 DEF FailInv

LEMMA HandlerUnwinds ==
  ASSUME Types, HandlerInv, NEW n, NEW t, Unwinds(n, t), gone' \subseteq gone,
         Around(t) => /\ t.saved = t.from[4]
                      /\ t.fn = "qz_peval" => handler' = Failsafe
                      /\ t.fn # "qz_peval" => handler'[1] = t.id /\ handler' \notin gone',
         ~ Around(t) => handler' = t.from[4]
  PROVE  HandlerInv'
<1>1. /\ n \in 1 .. Len(calls) /\ Len(calls) \in Nat \ {0} /\ DOMAIN calls = 1 .. Len(calls)
      /\ Len(calls') = Len(calls) - n + 1 /\ DOMAIN calls' = 1 .. Len(calls) - n + 1
      /\ calls'[1] = t /\ 1 \in DOMAIN calls'
      /\ \A k \in DOMAIN calls' : k # 1 =>
              k + n - 1 \in n + 1 .. Len(calls) /\ calls'[k] = calls[k + n - 1]
      /\ \A k \in n + 1 .. Len(calls) :
              k - n + 1 \in DOMAIN calls' /\ calls'[k - n + 1] = calls[k]
  BY Unwound
<1>2. t.from = calls[n].from
  BY DEF Unwinds
<1>3. ASSUME NEW i \in Nat \ {0}, NEW k \in 2 .. Len(calls) - n + 2, NoHandler(i, k)'
      PROVE  NoHandler(i + n - 1, k + n - 1)
  <2> SUFFICES ASSUME NEW j \in (i + n - 1) + 1 .. (k + n - 1) - 1
               PROVE  ~ Around(calls[j])
    BY DEF NoHandler
  <2>1. j - n + 1 \in i + 1 .. k - 1 /\ j \in n + 1 .. Len(calls)
    BY <1>1
  <2>2. calls'[j - n + 1] = calls[j]
    BY <1>1, <2>1
  <2> QED
    BY <1>3, <2>1, <2>2 DEF NoHandler
<1>4. ASSUME NEW k \in 2 .. Len(calls) - n + 2, NEW h
      PROVE  /\ HandlerBelow(k + n - 1, h) => HandlerBelow(k, h)'
             /\ k + n - 1 \in 1 .. Len(calls) + 1
  <2>1. k + n - 1 \in 1 .. Len(calls) + 1
    BY <1>1
  <2>2. CASE k > Len(calls')
    <3>1. k + n - 1 > Len(calls)
      BY <1>1, <2>2
    <3> QED
      BY <2>1, <2>2, <3>1 DEF HandlerBelow
  <2>3. CASE ~ (k > Len(calls'))
    <3>1. k \in DOMAIN calls' /\ k # 1 /\ ~ (k + n - 1 > Len(calls))
      BY <1>1, <2>3
    <3> QED
      BY <1>1, <2>1, <2>3, <3>1 DEF HandlerBelow
  <2> QED
    BY <2>2, <2>3
<1>5. ASSUME NEW i \in DOMAIN calls', NEW k \in 1 .. Len(calls') + 1, i < k, NoHandler(i, k)',
             NEW h, h = calls'[i].from[4]
      PROVE  HandlerBelow(k, h)'
  <2>1. k \in 2 .. Len(calls) - n + 2 /\ i \in Nat \ {0}
    BY <1>1, <1>5
  <2>2. NoHandler(i + n - 1, k + n - 1)
    BY <1>3, <1>5, <2>1
  <2>3. /\ HandlerBelow(k + n - 1, h) => HandlerBelow(k, h)'
        /\ k + n - 1 \in 1 .. Len(calls) + 1
    BY <1>4, <2>1
  <2>4. i + n - 1 \in DOMAIN calls /\ i + n - 1 < k + n - 1
    BY <1>1, <1>5, <2>1
  <2>5. HandlerBelow(k + n - 1, calls[i + n - 1].from[4])
    BY <2>2, <2>3, <2>4 DEF HandlerInv
  <2>6. calls'[i].from = calls[i + n - 1].from
    <3>1. CASE i = 1
      <4>1. i + n - 1 = n
        BY <1>1, <3>1
      <4> QED
        BY <1>1, <1>2, <3>1, <4>1
    <3>2. CASE i # 1
      BY <1>1, <3>2
    <3> QED
      BY <3>1, <3>2
  <2> QED
    BY <1>5, <2>3, <2>5, <2>6
<1>6. ASSUME NEW k \in 1 .. Len(calls') + 1, NoHandler(0, k)', NEW h, h = handler'
      PROVE  HandlerBelow(k, h)'
  <2>1. CASE k = 1
    <3>1. ~ (1 > Len(calls'))
      BY <1>1
    <3> QED
      BY <1>1, <1>6, <2>1, <3>1 DEF HandlerBelow
  <2>2. CASE k # 1
    <3>1. ~ Around(t) /\ NoHandler(1, k)' /\ 1 < k
      BY <1>1, <1>6, <2>2 DEF NoHandler
    <3>2. h = calls'[1].from[4]
      BY <1>1, <1>6, <3>1
    <3> QED
      BY <1>1, <1>5, <3>1, <3>2
  <2> QED
    BY <2>1, <2>2
<1>7. \A k \in DOMAIN calls' : Around(calls'[k]) => calls'[k].saved = calls'[k].from[4]
  BY <1>1 DEF HandlerInv
<1>8. \A k \in 1 .. Len(calls') + 1 : NoHandler(0, k)' => HandlerBelow(k, handler)'
  <2> SUFFICES ASSUME NEW k \in 1 .. Len(calls') + 1, NoHandler(0, k)', NEW h, h = handler'
               PROVE  HandlerBelow(k, h)'
    OBVIOUS
  <2> QED
    BY <1>6
<1>9. \A i \in DOMAIN calls', k \in 1 .. Len(calls') + 1 :
         i < k /\ NoHandler(i, k)' => HandlerBelow(k, calls[i].from[4])'
  <2> SUFFICES ASSUME NEW i \in DOMAIN calls', NEW k \in 1 .. Len(calls') + 1,
                      i < k, NoHandler(i, k)', NEW h, h = calls'[i].from[4]
               PROVE  HandlerBelow(k, h)'
    OBVIOUS
  <2> QED
    BY <1>5
<1> QED
  BY <1>7, <1>8, <1>9 DEF HandlerInv

\* the references of the calls below the n-th are as they were
OthersKept(n) ==
  \A k \in n + 1 .. Len(calls) : \A o : o[1] = calls[k].id =>
    /\ o \in held' \ {errorObj'} <=> o \in held \ {errorObj}
    /\ o \in gone' <=> o \in gone

LEMMA FramesUnwind ==
  ASSUME Types, RefInv, FrameInv, NEW n, NEW t, Unwinds(n, t), OthersKept(n),
         NEW m2 \in Locals[t.fn],
         HeldNow(t, m2)', PushedNow(t, m2, Len(safety))', EnvNow(t, m2)',
         env' = env, safety' = safety
  PROVE  FrameInv'
<1>1. /\ n \in 1 .. Len(calls) /\ Len(calls) \in Nat \ {0} /\ DOMAIN calls = 1 .. Len(calls)
      /\ DOMAIN calls' = 1 .. Len(calls) - n + 1
      /\ calls'[1] = t /\ 1 \in DOMAIN calls'
      /\ \A k \in DOMAIN calls' : k # 1 =>
              k + n - 1 \in n + 1 .. Len(calls) /\ calls'[k] = calls[k + n - 1]
  BY Unwound
<1>2. t.from = calls[n].from
  BY DEF Unwinds
<1>3. ASSUME NEW k \in DOMAIN calls'
      PROVE  k + n - 1 \in DOMAIN calls /\ calls'[k].from = calls[k + n - 1].from
  <2>1. CASE k = 1
    <3>1. k + n - 1 = n
      BY <1>1, <2>1
    <3> QED
      BY <1>1, <1>2, <2>1, <3>1
  <2>2. CASE k # 1
    BY <1>1, <2>2
  <2> QED
    BY <2>1, <2>2
<1>4. ASSUME NEW k \in DOMAIN calls', k # 1
      PROVE  EndOf(k)' = EndOf(k + n - 1)
  <2>1. k - 1 \in DOMAIN calls' /\ (k - 1) + n - 1 = (k + n - 1) - 1 /\ k + n - 1 # 1
    BY <1>1, <1>4
  <2>2. calls'[k - 1].from = calls[(k + n - 1) - 1].from
    BY <1>3, <2>1
  <2> QED
    BY <1>4, <2>1, <2>2 DEF EndOf
<1>5. ASSUME NEW k \in DOMAIN calls', NEW d, d = calls'[k], NEW e, e = EndOf(k)'
      PROVE  \E l \in Locals[d.fn] : HeldNow(d, l)' /\ PushedNow(d, l, e)' /\ EnvNow(d, l)'
  <2>1. CASE k = 1
    <3>1. e = Len(safety)' /\ d = t
      BY <1>1, <1>5, <2>1 DEF EndOf
    <3> QED
      BY <3>1
  <2>2. CASE k # 1
    <3>1. k + n - 1 \in n + 1 .. Len(calls) /\ k + n - 1 \in DOMAIN calls
          /\ d = calls[k + n - 1] /\ e = EndOf(k + n - 1)
      BY <1>1, <1>3, <1>4, <1>5, <2>2
    <3>2. PICK l \in Locals[d.fn] :
            HeldNow(d, l) /\ PushedNow(d, l, e) /\ EnvNow(d, l)
      BY <3>1 DEF FrameInv
    <3>3. HeldNow(d, l)'
      <4>1. \A o : o[1] = d.id =>
              /\ o \in held' \ {errorObj'} <=> o \in held \ {errorObj}
              /\ o \in gone' <=> o \in gone
        BY <3>1 DEF OthersKept
      <4>2. {o \in held' \ {errorObj'} : o[1] = d.id} = {o \in held \ {errorObj} : o[1] = d.id}
        BY <4>1
      <4>3. {o \in gone' : o[1] = d.id} = {o \in gone : o[1] = d.id}
        BY <4>1
      <4> QED
        BY <3>2, <4>2, <4>3 DEF HeldNow
    <3>4. PushedNow(d, l, e)'
      BY <3>2 DEF PushedNow
    <3>5. EnvNow(d, l)'
      BY <3>2 DEF EnvNow, Depth
    <3> QED
      BY <3>2, <3>3, <3>4, <3>5
  <2> QED
    BY <2>1, <2>2
<1>6. ASSUME NEW j \in DOMAIN calls', NEW k \in DOMAIN calls', j < k
      PROVE  calls'[k].from[2] <= calls'[j].from[2]
  <2>1. j + n - 1 < k + n - 1
    BY <1>1, <1>6
  <2> QED
    BY <1>3, <2>1 DEF FrameInv
<1> QED
  BY <1>5, <1>6 DEF FrameInv

(* What an unwinding step has to show.                                     *)
LEMMA UnwindKeeps ==
  ASSUME IInv, NEW n, NEW t, Unwinds(n, t), OthersKept(n),
         NEW m2 \in Locals[t.fn],
         HeldNow(t, m2)', PushedNow(t, m2, Len(safety))', EnvNow(t, m2)',
         \A i \in DOMAIN env : env[i] \in ToSet(safety),
         UNCHANGED <<env, safety, fault>>,
         pevalFail' \in Nat, handler' \in AnyRef, errorObj' \in AnyRef,
         held' \in SUBSET Ref, IsFiniteSet(held'), gone' \subseteq gone,
         \A o \in gone' : o[1] \in LiveIds(calls'),
         InJump(t) => pevalFail' = t.id /\ t.fail = t.from[3],
         ~ InJump(t) => pevalFail' = t.from[3],
         Around(t) => /\ t.saved = t.from[4]
                      /\ t.fn = "qz_peval" => handler' = Failsafe
                      /\ t.fn # "qz_peval" => handler'[1] = t.id /\ handler' \notin gone',
         ~ Around(t) => handler' = t.from[4],
         NothingLost', PendInv'
  PROVE  IInv'
<1>1. /\ n \in 1 .. Len(calls) /\ Len(calls) \in Nat \ {0} /\ DOMAIN calls = 1 .. Len(calls)
      /\ calls' \in Seq(CallType) /\ Len(calls') = Len(calls) - n + 1
      /\ DOMAIN calls' = 1 .. Len(calls) - n + 1
      /\ calls'[1] = t /\ 1 \in DOMAIN calls' /\ calls' # <<>>
      /\ \A k \in DOMAIN calls' : k # 1 =>
              k + n - 1 \in n + 1 .. Len(calls) /\ calls'[k] = calls[k + n - 1]
  BY Unwound DEF IInv
<1>2. Types /\ RefInv /\ FrameInv /\ EnvInv /\ FailInv /\ HandlerInv /\ WaitInv
  BY DEF IInv
<1>3. env' = env /\ safety' = safety /\ fault' = fault
  OBVIOUS
<1>4. ASSUME NEW k \in DOMAIN calls'
      PROVE  /\ k + n - 1 \in DOMAIN calls
             /\ calls'[k].id = calls[k + n - 1].id /\ calls'[k].fn = calls[k + n - 1].fn
             /\ calls'[k].dest = calls[k + n - 1].dest
             /\ calls'[k].safeCall = calls[k + n - 1].safeCall
  <2>1. CASE k = 1
    <3>1. k + n - 1 = n
      BY <1>1, <2>1
    <3> QED
      BY <1>1, <2>1, <3>1 DEF Unwinds
  <2>2. CASE k # 1
    BY <1>1, <2>2
  <2> QED
    BY <2>1, <2>2
<1>5. Types'
  <2>1. gone' \in SUBSET Ref /\ IsFiniteSet(gone')
    BY <1>2, FS_Subset DEF Types
  <2> QED
    BY <1>1, <1>2, <1>3, <2>1 DEF Types
<1>6. RefInv'
  <2>1. ASSUME NEW j \in DOMAIN calls', NEW k \in DOMAIN calls', calls'[j].id = calls'[k].id
        PROVE  j = k
    <3>1. j + n - 1 = k + n - 1
      BY <1>2, <1>4, <2>1 DEF RefInv
    <3> QED
      BY <1>1, <3>1
  <2>2. \A a, b \in DOMAIN safety' : safety'[a] = safety'[b] => a = b
    BY <1>2, <1>3 DEF RefInv
  <2>3. \A o \in gone' : o[1] \in LiveIds(calls)'
    BY DEF LiveIds
  <2> QED
    BY <2>1, <2>2, <2>3 DEF RefInv
<1>7. FrameInv'
  BY <1>2, <1>3, FramesUnwind
<1>8. EnvInv'
  BY <1>2, <1>3 DEF EnvInv
<1>9. FailInv'
  BY <1>2, FailUnwinds
<1>10. HandlerInv'
  BY <1>2, HandlerUnwinds
<1>11. WaitInv'
  <2>1. ASSUME NEW k \in DOMAIN calls', k > 1
        PROVE  Waits(calls'[k], calls'[k - 1])
    <3>1. k + n - 1 \in DOMAIN calls /\ k + n - 1 > 1 /\ calls'[k] = calls[k + n - 1]
          /\ k - 1 \in DOMAIN calls' /\ (k - 1) + n - 1 = (k + n - 1) - 1
      BY <1>1, <2>1, SMTT(60)
    <3>2. Waits(calls[k + n - 1], calls[(k + n - 1) - 1])
      BY <1>2, <3>1 DEF WaitInv
    <3>3. /\ calls'[k - 1].fn = calls[(k + n - 1) - 1].fn
          /\ calls'[k - 1].dest = calls[(k + n - 1) - 1].dest
      BY <1>4, <3>1
    <3> QED
      BY <3>1, <3>2, <3>3 DEF Waits
  <2>2. Last(calls').fn = "qz_peval"
    <3>1. Len(calls') \in DOMAIN calls' /\ Len(calls') + n - 1 = Len(calls)
      BY <1>1
    <3>2. calls'[Len(calls')].fn = calls[Len(calls)].fn
      BY <1>4, <3>1
    <3> QED
      BY <1>1, <1>2, <3>2 DEF WaitInv, Last
  <2>3. \A k \in DOMAIN calls' : calls'[k].safeCall => calls'[k].fn = "qz_peval"
    BY <1>2, <1>4 DEF WaitInv
  <2> QED
    BY <2>1, <2>2, <2>3 DEF WaitInv, Waits, Now
<1> QED
  BY <1>5, <1>6, <1>7, <1>8, <1>9, <1>10, <1>11 DEF IInv

(***************************************************************************)
(* A call that is not the innermost one.                                   *)
(***************************************************************************)
CallIs(k, l) ==
  /\ l \in Locals[calls[k].fn] /\ l.pc = calls[k].pc
  /\ HeldNow(calls[k], l) /\ PushedNow(calls[k], l, EndOf(k)) /\ EnvNow(calls[k], l)

LEMMA CallIsSome ==
  ASSUME FrameInv, NEW k \in DOMAIN calls
  PROVE  \E l : CallIs(k, l)
<1>1. PICK l \in Locals[calls[k].fn] :
        HeldNow(calls[k], l) /\ PushedNow(calls[k], l, EndOf(k)) /\ EnvNow(calls[k], l)
  BY DEF FrameInv
<1>2. l.pc = calls[k].pc
  BY <1>1 DEF HeldNow
<1> QED
  BY <1>1, <1>2 DEF CallIs

LEMMA TopCallIs ==
  ASSUME Types, calls # <<>>, NEW l
  PROVE  TopIs(l) <=> CallIs(1, l)
  BY TopCall DEF TopIs, CallIs, EndOf

LEMMA CallRules ==
  ASSUME Types, NEW k \in DOMAIN calls, NEW l, CallIs(k, l), NEW c, c = calls[k]
  PROVE  /\ c \in CallType /\ c.fn \in Known /\ l \in LocalType /\ l \in Locals[c.fn]
         /\ l.pc = c.pc /\ l.pc \in Nat
         /\ l.pushed \in Seq(Name) /\ Len(l.pushed) \in Nat
         /\ At(c.fn, l) = Now(c)
         /\ NameRules(l, Now(c)) /\ ExitRules(c.fn, l, Now(c)) /\ StateRules(c.fn, l, Now(c))
         /\ l.freed \cap (l.owns \cup ToSet(l.pushed)) = {}
         /\ "error_obj" \notin ToSet(l.pushed) /\ "error_obj" \notin l.freed
         /\ l.installed <=> Around(c)
         /\ \A m \in Moves(c.fn, l) : m \in Locals[c.fn] /\ m \in LocalType
                                      /\ (m.installed <=> AroundPeval(c.fn, m.pc))
<1>1. c \in CallType /\ c.fn \in Known
  BY CallTypes DEF Types
<1>2. l \in Locals[c.fn] /\ l.pc = c.pc
  BY DEF CallIs
<1>3. KeepsRules(c.fn, l) /\ l \in LocalType
  BY <1>1, <1>2, Rules
<1>4. At(c.fn, l) = Now(c)
  BY <1>2 DEF At, Now
<1>5. l.pc \in Nat /\ l.pushed \in Seq(Name) /\ Len(l.pushed) \in Nat
  BY <1>3 DEF LocalType
<1>6. ASSUME NEW m \in Moves(c.fn, l)
      PROVE  m \in Locals[c.fn] /\ m \in LocalType /\ (m.installed <=> AroundPeval(c.fn, m.pc))
  <2>1. m \in Locals[c.fn]
    BY <1>1, <1>2, Rules
  <2>2. KeepsRules(c.fn, m) /\ m \in LocalType
    BY <1>1, <2>1, Rules
  <2> QED
    BY <2>1, <2>2 DEF KeepsRules
<1> QED
  BY <1>1, <1>2, <1>3, <1>4, <1>5, <1>6 DEF KeepsRules, Around

LEMMA EndInBuffer ==
  ASSUME Types, FrameInv, NEW k \in DOMAIN calls
  PROVE  EndOf(k) <= Len(safety) /\ EndOf(k) \in Nat /\ Len(safety) \in Nat
<1>1. Len(safety) \in Nat
  BY DEF Types
<1>2. CASE k = 1
  BY <1>1, <1>2 DEF EndOf
<1>3. CASE k # 1
  <2>1. EndOf(k) <= Top.from[2] /\ Top.from[2] <= Len(safety) /\ EndOf(k) \in Nat
    BY <1>3, BelowTop
  <2>2. calls # <<>>
    OBVIOUS
  <2>3. Top.from[2] \in Nat
    BY <2>2, TopCall, CallTypes
  <2> QED
    BY <1>1, <2>1, <2>3
<1> QED
  BY <1>2, <1>3

(* What a call has pushed is in the buffer, and what it has released, or   *)
(* given away, is not.                                                     *)
LEMMA PushedInBuffer ==
  ASSUME Types, FrameInv, NEW k \in DOMAIN calls, NEW l, CallIs(k, l),
         NEW x \in ToSet(l.pushed)
  PROVE  <<calls[k].id, x>> \in ToSet(safety)
<1>1. l.pushed \in Seq(Name) /\ Len(l.pushed) \in Nat /\ calls[k] \in CallType
  BY CallRules
<1>2. PICK j \in 1 .. Len(l.pushed) : l.pushed[j] = x
  BY <1>1 DEF ToSet
<1>3. /\ calls[k].from[2] + Len(l.pushed) <= EndOf(k)
      /\ safety[calls[k].from[2] + j] = <<calls[k].id, l.pushed[j]>>
  BY DEF CallIs, PushedNow
<1>4. calls[k].from[2] \in Nat /\ EndOf(k) <= Len(safety) /\ EndOf(k) \in Nat
      /\ Len(safety) \in Nat /\ DOMAIN safety = 1 .. Len(safety)
  BY <1>1, CallTypes, EndInBuffer DEF Types
<1>5. calls[k].from[2] + j \in DOMAIN safety
  BY <1>1, <1>3, <1>4
<1> QED
  BY <1>2, <1>3, <1>5 DEF ToSet

LEMMA FreedNotInBuffer ==
  ASSUME Types, FrameInv, NEW k \in DOMAIN calls, NEW o \in gone, o[1] = calls[k].id
  PROVE  o \notin ToSet(safety)
<1> SUFFICES ASSUME o \in ToSet(safety)
             PROVE  FALSE
  OBVIOUS
<1>1. PICK l : CallIs(k, l)
  BY CallIsSome
<1>2. /\ l.pushed \in Seq(Name) /\ Len(l.pushed) \in Nat /\ calls[k] \in CallType
      /\ l.freed \cap (l.owns \cup ToSet(l.pushed)) = {}
  BY <1>1, CallRules
<1>3. PICK n \in DOMAIN safety : safety[n] = o
  BY DEF ToSet
<1>4. n \in calls[k].from[2] + 1 .. calls[k].from[2] + Len(l.pushed)
  BY <1>1, <1>3 DEF CallIs, PushedNow
<1>5. calls[k].from[2] \in Nat /\ n \in Nat
  BY <1>2, CallTypes DEF Types
<1>6. /\ n - calls[k].from[2] \in 1 .. Len(l.pushed)
      /\ calls[k].from[2] + (n - calls[k].from[2]) = n
  BY <1>2, <1>4, <1>5
<1>7. safety[n] = <<calls[k].id, l.pushed[n - calls[k].from[2]]>>
  <2>1. \A j \in 1 .. Len(l.pushed) :
          safety[calls[k].from[2] + j] = <<calls[k].id, l.pushed[j]>>
    BY <1>1 DEF CallIs, PushedNow
  <2> QED
    BY <1>6, <2>1
<1>8. o[2] \in ToSet(l.pushed) /\ o = <<calls[k].id, o[2]>>
  BY <1>2, <1>3, <1>6, <1>7 DEF ToSet
<1>9. o \in {calls[k].id} \X l.freed
  BY <1>1 DEF CallIs, HeldNow
<1> QED
  BY <1>2, <1>8, <1>9

(***************************************************************************)
(* Returns.                                                                *)
(***************************************************************************)

\* what the innermost call owns when it returns or throws
LEMMA OwnedAtReturn ==
  ASSUME Types, FrameInv, calls # <<>>, NEW l, TopIs(l), Step.op = "return",
         NEW o \in held \ {errorObj}, o[1] = Top.id, o # Obj(Step.var)
  PROVE  o \in ToSet(safety)
<1>1. 1 \in DOMAIN calls /\ Top = calls[1] /\ CallIs(1, l)
  BY TopCall, TopCallIs
<1>2. ExitRules(Top.fn, l, Step)
  BY TopRules DEF TopIs
<1>3. o \in {Top.id} \X l.owns
  BY DEF TopIs, HeldNow
<1>4. o[2] \in l.owns /\ o = <<Top.id, o[2]>>
  BY <1>3
<1>5. o[2] # Step.var
  BY <1>4 DEF Obj
<1>6. o[2] \in ToSet(l.pushed)
  BY <1>2, <1>4, <1>5 DEF ExitRules
<1> QED
  BY <1>1, <1>4, <1>6, PushedInBuffer

(* It has left no longjmp target and no handler.                           *)
LEMMA ReturnsClean ==
  ASSUME IInv, calls # <<>>, NEW l, TopIs(l), Step.op = "return"
  PROVE  /\ ~ InJump(Top) /\ ~ Around(Top) /\ ~ MayHoldDead(Top)
         /\ pevalFail = Top.from[3] /\ handler = Top.from[4]
         /\ pevalFail = FailBelow(2) /\ HandlerBelow(2, handler)
<1>1. Types /\ FailInv /\ HandlerInv
  BY DEF IInv
<1>2. 1 \in DOMAIN calls /\ Top = calls[1] /\ Len(calls) \in Nat \ {0}
  BY <1>1, TopCall
<1>3. Top.fn = "qz_peval" => Top.pc = 11
  BY <1>1, PevalTop
<1>4. Now(Top).op = "return" /\ Script[Top.fn][Top.pc].op = "return"
  BY DEF Now, Step
<1>5. ~ InJump(Top)
  BY <1>3, Peval DEF InJump
<1>6. ~ Around(Top)
  BY <1>3, <1>4 DEF Around, AroundPeval, CallsPeval, CatchPc
<1>7. ~ MayHoldDead(Top)
  BY <1>3, <1>4 DEF MayHoldDead, CatchPc
<1>8. pevalFail = Top.from[3]
  BY <1>1, <1>5, FailTop
<1>9. handler = Top.from[4]
  BY <1>1, <1>6, HandlerTop
<1>10. NoJump(1, 2) /\ NoHandler(1, 2) /\ 2 \in 1 .. Len(calls) + 1
  BY <1>2 DEF NoJump, NoHandler
<1>11. pevalFail = FailBelow(2)
  <2>1. calls[1].from[3] = FailBelow(2)
    BY <1>1, <1>2, <1>10 DEF FailInv
  <2> QED
    BY <1>2, <1>8, <2>1
<1>12. HandlerBelow(2, handler)
  <2>1. HandlerBelow(2, calls[1].from[4])
    BY <1>1, <1>2, <1>10 DEF HandlerInv
  <2> QED
    BY <1>2, <1>9, <2>1
<1> QED
  BY <1>5, <1>6, <1>7, <1>8, <1>9, <1>11, <1>12

LEMMA LastReturnKeeps ==
  ASSUME IInv, ReturnFromCall, Tail(calls) = <<>>
  PROVE  IInv'
<1>1. /\ Types /\ RefInv /\ FrameInv /\ EnvInv /\ FailInv /\ HandlerInv /\ WaitInv /\ PendInv
      /\ calls # <<>> /\ Step.op = "return"
  BY DEF IInv, ReturnFromCall, Does, Running
<1>2. PICK l : TopIs(l)
  BY <1>1, TopIsSome
<1>3. /\ Len(calls) = 1 /\ DOMAIN calls = {1} /\ Top = calls[1]
  <2>1. Len(calls) \in Nat /\ Len(Tail(calls)) = Len(calls) - 1 /\ Top = calls[1]
        /\ DOMAIN calls = 1 .. Len(calls)
    BY <1>1, TopCall
  <2>2. Len(Tail(calls)) = 0
    <3>1. \A s : s = <<>> => Len(s) = 0
      OBVIOUS
    <3> QED
      BY ONLY <3>1, Tail(calls) = <<>>
  <2> QED
    BY <2>1, <2>2
<1>4. /\ calls' = <<>> /\ held' = held \ {Obj(Step.var)}
      /\ gone' = Forget(gone, <<>>, safety)
      /\ env' = env /\ safety' = safety /\ pevalFail' = pevalFail /\ handler' = handler
      /\ errorObj' = errorObj /\ fault' = fault
  BY DEF ReturnFromCall
<1>5. /\ pevalFail = FailBelow(2) /\ HandlerBelow(2, handler)
  BY <1>1, <1>2, ReturnsClean
<1>6. pevalFail = NoCall /\ handler = NoObj
  BY <1>3, <1>5 DEF FailBelow, HandlerBelow
<1>7. LiveIds(<<>>) = {} /\ LiveIds(calls) = {Top.id}
  BY <1>3 DEF LiveIds
<1>8. gone' = {}
  <2> SUFFICES ASSUME NEW o \in gone'
               PROVE  FALSE
    OBVIOUS
  <2>1. o \in gone /\ o \in ToSet(safety)
    BY <1>4, <1>7 DEF Forget
  <2>2. o[1] = calls[1].id
    BY <1>1, <1>3, <1>7, <2>1 DEF RefInv
  <2> QED
    BY <1>1, <1>3, <2>1, <2>2, FreedNotInBuffer
<1>9. \A i \in DOMAIN env : env[i] \in ToSet(safety)
  BY <1>1, <1>2, EnvsSafe
<1>10. Types'
  <2>1. held' \in SUBSET Ref /\ IsFiniteSet(held')
    BY <1>1, <1>4, FS_Subset DEF Types
  <2>2. gone' \in SUBSET Ref /\ IsFiniteSet(gone')
    BY <1>8, FS_EmptySet
  <2>3. calls' \in Seq(CallType)
    BY <1>4
  <2> QED
    BY <1>1, <1>4, <2>1, <2>2, <2>3 DEF Types
<1>11. DOMAIN calls' = {} /\ Len(calls') = 0
  BY <1>4
<1>12. NothingLost'
  <2> SUFFICES ASSUME NEW o \in held'
               PROVE  o \in ToSet(safety') \/ o = errorObj'
    BY DEF NothingLost
  <2>1. o \in held /\ o # Obj(Step.var)
    BY <1>4
  <2>2. o[1] = Top.id \/ o \in ToSet(safety) \/ o = errorObj
    BY <1>1, <1>7, <2>1 DEF RefInv, NothingLost
  <2>3. CASE o[1] = Top.id /\ o # errorObj
    BY <1>1, <1>2, <1>4, <2>1, <2>3, OwnedAtReturn
  <2> QED
    BY <1>4, <2>2, <2>3
<1>13. RefInv'
  BY <1>1, <1>4, <1>8, <1>11, <1>12 DEF RefInv
<1>14. FrameInv'
  BY <1>11 DEF FrameInv
<1>15. EnvInv'
  BY <1>1, <1>4, <1>9 DEF EnvInv
<1>16. FailInv'
  BY <1>4, <1>6, <1>11 DEF FailInv, FailBelow
<1>17. HandlerInv'
  BY <1>4, <1>6, <1>11 DEF HandlerInv, HandlerBelow
<1>18. WaitInv'
  BY <1>4, <1>11 DEF WaitInv
<1>19. PendInv'
  BY <1>1, <1>4 DEF PendInv
<1> QED
  BY <1>10, <1>13, <1>14, <1>15, <1>16, <1>17, <1>18, <1>19 DEF IInv

(* The call that waits for another goes on behind its own call, in qz_peval *)
(* behind the evaluation or behind the call of the handler.                *)
LEMMA WaitsAt ==
  ASSUME Types, NEW k \in DOMAIN calls, NEW m, CallIs(k, m), NEW c, c = calls[k],
         Now(c).op \in {"eval", "call", "cfun"}
  PROVE  /\ c.fn = "qz_peval" =>
              \/ c.pc = 2 /\ Now(c).op = "eval"
              \/ c.pc = 6 /\ Now(c).op = "call" /\ Now(c).fn = "qz_peval"
         /\ m.pc + 1 = c.pc + 1 /\ Now(c).var \in Name
         /\ Now(c).var \notin m.owns /\ Now(c).var \notin ToSet(m.pushed)
         /\ Around(c) <=> CallsPeval(Now(c))
<1>1. /\ c.fn \in Known /\ m \in Locals[c.fn] /\ m.pc = c.pc /\ NameRules(m, Now(c))
      /\ c.pc \in DOMAIN Script[c.fn]
  <2>1. /\ c.fn \in Known /\ m \in Locals[c.fn] /\ m.pc = c.pc /\ NameRules(m, Now(c))
    BY CallRules
  <2> QED
    BY <2>1, Rules DEF KeepsRules
<1>2. c.fn = "qz_peval" =>
        \/ c.pc = 2 /\ Now(c).op = "eval"
        \/ c.pc = 6 /\ Now(c).op = "call" /\ Now(c).fn = "qz_peval"
  <2> SUFFICES ASSUME c.fn = "qz_peval"
               PROVE  \/ c.pc = 2 /\ Now(c).op = "eval"
                      \/ c.pc = 6 /\ Now(c).op = "call" /\ Now(c).fn = "qz_peval"
    OBVIOUS
  <2>1. c.pc \in 1 .. 11 /\ Now(c) = qz_peval[c.pc]
    BY <1>1, Peval DEF Now
  <2>2. /\ qz_peval[1].op = "setjmp" /\ qz_peval[2].op = "eval" /\ qz_peval[3].op = "jump"
        /\ qz_peval[4].op = "if_handler" /\ qz_peval[5].op = "handler_call"
        /\ qz_peval[6].op = "call" /\ qz_peval[6].fn = "qz_peval"
        /\ qz_peval[7].op = "unref" /\ qz_peval[8].op = "reset_handler"
        /\ qz_peval[9].op = "cleanup" /\ qz_peval[10].op = "reset_jmp"
        /\ qz_peval[11].op = "return"
    BY Peval DEF SetJmp, Eval, Jump, IfHandler, HandlerCall, Call, Unref, ResetHandler,
                 Cleanup, ResetJmp, Return
  <2>3. c.pc \in {2, 6}
    BY <2>1, <2>2
  <2> QED
    BY <2>1, <2>2, <2>3
<1>3. /\ Now(c).var \in Name /\ Now(c).var \notin m.owns /\ Now(c).var \notin ToSet(m.pushed)
  BY <1>1 DEF NameRules, Assigns
<1>4. Around(c) <=> CallsPeval(Now(c))
  <2>1. CASE c.fn = "qz_peval"
    BY <1>2, <2>1 DEF Around, AroundPeval, CallsPeval, CatchPc
  <2>2. CASE c.fn # "qz_peval"
    BY <2>2 DEF Around, AroundPeval, CallsPeval, Now
  <2> QED
    BY <2>1, <2>2
<1> QED
  BY <1>1, <1>2, <1>3, <1>4

(* Nothing is pending when a call returns to another.                      *)
LEMMA ReturnPends ==
  ASSUME IInv, 2 \in DOMAIN calls, NEW l, TopIs(l), Step.op = "return"
  PROVE  errorObj = NoObj
<1> SUFFICES ASSUME errorObj # NoObj
             PROVE  FALSE
  OBVIOUS
<1>1. Types /\ FrameInv /\ WaitInv /\ PendInv /\ calls # <<>>
  BY DEF IInv
<1>2. Top.fn = "qz_peval"
  BY <1>1 DEF PendInv
<1>3. Top.pc = 11
  BY <1>1, <1>2, PevalTop
<1>4. handler = NoObj
  BY <1>1, <1>3 DEF PendInv, CatchPc
<1>5. Waits(calls[2], Top)
  <2>1. Waits(calls[2], calls[2 - 1])
    BY <1>1 DEF WaitInv
  <2> QED
    BY <1>1, <2>1, TopCall
<1>6. PICK m : CallIs(2, m)
  BY <1>1, CallIsSome
<1>7. CallsPeval(Now(calls[2]))
  BY <1>2, <1>5, InterpreterAssumption DEF Waits, CallsPeval
<1>8. Around(calls[2])
  BY <1>1, <1>5, <1>6, <1>7, WaitsAt DEF Waits
<1>9. HandlerBelow(2, handler)
  BY <1>1, ReturnsClean
<1>10. calls[2].id \in Nat \ {0} /\ ~ (2 > Len(calls))
  BY <1>1, CallTypes DEF Types
<1> QED
  BY <1>4, <1>8, <1>9, <1>10 DEF HandlerBelow, NoObj, Failsafe

\* the state of the caller once the call has returned, with a reference or not
GotIt(m, y)    == Gets([m EXCEPT !.pc = @ + 1], y)
MissedIt(m, y) == Misses([m EXCEPT !.pc = @ + 1], y)

LEMMA ResumedIs ==
  ASSUME Types, NEW k \in DOMAIN calls, NEW m, CallIs(k, m), NEW c, c = calls[k],
         Now(c).op \in {"eval", "call", "cfun"}, NEW m2,
         m2 = GotIt(m, Now(c).var) \/ m2 = MissedIt(m, Now(c).var)
  PROVE  /\ m2 \in Moves(c.fn, m) /\ m2 \in Locals[c.fn]
         /\ m2.installed <=> AroundPeval(c.fn, c.pc + 1)
         /\ m2.pc = c.pc + 1 /\ m2.pushed = m.pushed /\ m2.saved = m.saved
         /\ m2.inEnv = m.inEnv /\ m2.installed = m.installed
         /\ m2.freed = m.freed \ {Now(c).var}
         /\ m2 = GotIt(m, Now(c).var) => m2.owns = m.owns \cup {Now(c).var}
         /\ m2 = MissedIt(m, Now(c).var) => m2.owns = m.owns
<1>1. /\ c.fn \in Known /\ m \in LocalType /\ m.pc = c.pc /\ At(c.fn, m) = Now(c)
      /\ \A q \in Moves(c.fn, m) : q \in Locals[c.fn] /\ (q.installed <=> AroundPeval(c.fn, q.pc))
  BY CallRules
<1> SUFFICES ASSUME NEW y, y = Now(c).var, NEW n, n = [m EXCEPT !.pc = @ + 1]
             PROVE  /\ m2 \in Moves(c.fn, m) /\ m2 \in Locals[c.fn]
                    /\ m2.installed <=> AroundPeval(c.fn, c.pc + 1)
                    /\ m2.pc = c.pc + 1 /\ m2.pushed = m.pushed /\ m2.saved = m.saved
                    /\ m2.inEnv = m.inEnv /\ m2.installed = m.installed
                    /\ m2.freed = m.freed \ {y}
                    /\ m2 = GotIt(m, y) => m2.owns = m.owns \cup {y}
                    /\ m2 = MissedIt(m, y) => m2.owns = m.owns
  OBVIOUS
<1>2. /\ n.pc = m.pc + 1 /\ n.pushed = m.pushed /\ n.saved = m.saved /\ n.inEnv = m.inEnv
      /\ n.installed = m.installed /\ n.owns = m.owns /\ n.freed = m.freed
      /\ n \in [pc : Int, owns : SUBSET Name, freed : SUBSET Name, pushed : Seq(Name),
                saved : BOOLEAN, inEnv : BOOLEAN, installed : BOOLEAN]
  BY <1>1 DEF LocalType
<1>3. m2 = Gets(n, y) \/ m2 = Misses(n, y)
  BY DEF GotIt, MissedIt
<1>4. m2 \in Moves(c.fn, m)
  <2>1. At(c.fn, m).op \in {"eval", "call", "cfun"} /\ At(c.fn, m).var = y
    BY <1>1
  <2>2. Gets(n, y) \in Moves(c.fn, m) /\ Misses(n, y) \in Moves(c.fn, m)
    BY <2>1 DEF Moves
  <2> QED
    BY <1>3, <2>2
<1>5. /\ GotIt(m, y) = Gets(n, y) /\ MissedIt(m, y) = Misses(n, y)
  BY DEF GotIt, MissedIt
<1>6. /\ Gets(n, y).pc = n.pc /\ Gets(n, y).pushed = n.pushed /\ Gets(n, y).saved = n.saved
      /\ Gets(n, y).inEnv = n.inEnv /\ Gets(n, y).installed = n.installed
      /\ Gets(n, y).freed = n.freed \ {y} /\ Gets(n, y).owns = n.owns \cup {y}
  BY <1>2 DEF Gets
<1>7. /\ Misses(n, y).pc = n.pc /\ Misses(n, y).pushed = n.pushed
      /\ Misses(n, y).saved = n.saved
      /\ Misses(n, y).inEnv = n.inEnv /\ Misses(n, y).installed = n.installed
      /\ Misses(n, y).freed = n.freed \ {y} /\ Misses(n, y).owns = n.owns
  BY <1>2 DEF Misses
<1>8. /\ m2.pc = c.pc + 1 /\ m2.pushed = m.pushed /\ m2.saved = m.saved
      /\ m2.inEnv = m.inEnv /\ m2.installed = m.installed
      /\ m2.freed = m.freed \ {y}
  BY <1>1, <1>2, <1>3, <1>6, <1>7
<1>9. m2.installed <=> AroundPeval(c.fn, c.pc + 1)
  BY <1>1, <1>4, <1>8
<1>10. m2 = GotIt(m, y) => m2.owns = m.owns \cup {y}
  BY ONLY <1>2, <1>5, <1>6
<1>11. m2 = MissedIt(m, y) => m2.owns = m.owns
  BY ONLY <1>2, <1>5, <1>7
<1>12. m2 \in Locals[c.fn]
  BY <1>1, <1>4
<1> QED
  BY ONLY <1>4, <1>8, <1>9, <1>10, <1>11, <1>12
\* a call returns: the one below it goes on as t, with the locals m2
Returns(l, d, m, y, t, m2) ==
  /\ 2 \in DOMAIN calls /\ TopIs(l) /\ Step.op = "return"
  /\ d = calls[2] /\ CallIs(2, m) /\ Waits(d, Top) /\ y = Now(d).var
  /\ t = [d EXCEPT !.pc = @ + 1]
  /\ m2 = IF Obj(Step.var) \in held THEN GotIt(m, y) ELSE MissedIt(m, y)
  /\ calls' = <<t>> \o Tail(Tail(calls))
  /\ held' = IF Obj(Step.var) \in held
             THEN (held \ {Obj(Step.var)}) \cup {<<d.id, y>>} ELSE held
  /\ gone' = Forget(gone, Tail(calls), safety) \ {<<d.id, y>>}
  /\ env' = env /\ safety' = safety /\ pevalFail' = pevalFail /\ handler' = handler
  /\ errorObj' = errorObj /\ fault' = fault

LEMMA Returned ==
  ASSUME IInv, ReturnFromCall, Tail(calls) # <<>>
  PROVE  \E l, d, m, y, t, m2 : Returns(l, d, m, y, t, m2)
<1>1. Types /\ FrameInv /\ WaitInv /\ calls # <<>> /\ Step.op = "return"
  BY DEF IInv, ReturnFromCall, Does, Running
<1>2. /\ Tail(calls) \in Seq(CallType) /\ Len(Tail(calls)) = Len(calls) - 1
      /\ \A k \in 1 .. Len(calls) - 1 : Tail(calls)[k] = calls[k + 1]
      /\ Len(calls) \in Nat \ {0} /\ DOMAIN calls = 1 .. Len(calls) /\ Top = calls[1]
  BY <1>1, TopCall
<1>3. 2 \in DOMAIN calls /\ Head(Tail(calls)) = calls[2]
  <2>1. Len(Tail(calls)) # 0
    BY <1>2
  <2> QED
    BY <1>2, <2>1
<1>4. PICK l : TopIs(l)
  BY <1>1, TopIsSome
<1>5. PICK m : CallIs(2, m)
  BY <1>1, <1>3, CallIsSome
<1>6. SUFFICES ASSUME NEW d, d = calls[2], NEW y, y = Now(d).var,
                      NEW t, t = [d EXCEPT !.pc = @ + 1],
                      NEW m2, m2 = IF Obj(Step.var) \in held THEN GotIt(m, y)
                                   ELSE MissedIt(m, y)
               PROVE  Returns(l, d, m, y, t, m2)
  OBVIOUS
<1>7. Waits(d, Top)
  <2>1. Waits(calls[2], calls[2 - 1])
    BY ONLY <1>1, <1>3 DEF WaitInv
  <2> QED
    BY <1>2, <1>6, <2>1
<1>8. Top.dest = y
  BY <1>6, <1>7 DEF Waits
<1>9. /\ calls' = <<t>> \o Tail(Tail(calls))
      /\ held' = IF Obj(Step.var) \in held
                 THEN (held \ {Obj(Step.var)}) \cup {<<d.id, y>>} ELSE held
      /\ gone' = Forget(gone, Tail(calls), safety) \ {<<d.id, y>>}
  BY <1>3, <1>6, <1>8 DEF ReturnFromCall
<1>10. /\ env' = env /\ safety' = safety /\ pevalFail' = pevalFail /\ handler' = handler
       /\ errorObj' = errorObj /\ fault' = fault
  BY DEF ReturnFromCall
<1> QED
  BY ONLY <1>1, <1>3, <1>4, <1>5, <1>6, <1>7, <1>9, <1>10 DEF Returns

LEMMA ReturnsTo ==
  ASSUME IInv, NEW l, NEW d, NEW m, NEW y, NEW t, NEW m2, Returns(l, d, m, y, t, m2)
  PROVE  /\ Unwinds(2, t) /\ d \in CallType /\ d.fn \in Known
         /\ t.pc = d.pc + 1 /\ t.id = d.id /\ t.fn = d.fn /\ t.from = d.from
         /\ t.fail = d.fail /\ t.saved = d.saved /\ t.base = d.base /\ t.oldEnv = d.oldEnv
         /\ y \in Name /\ y \notin m.owns
         /\ Now(d).op \in {"eval", "call", "cfun"}
         /\ m2 \in Locals[t.fn] /\ m2.pc = t.pc /\ m2.pushed = m.pushed /\ m2.saved = m.saved
         /\ m2.inEnv = m.inEnv /\ m2.installed = m.installed
         /\ m2.freed = m.freed \ {y}
         /\ Obj(Step.var) \in held => m2.owns = m.owns \cup {y}
         /\ Obj(Step.var) \notin held => m2.owns = m.owns
         /\ InJump(t) <=> InJump(d)
         /\ Around(t) <=> Around(d)
         /\ Top.id # d.id /\ Top = calls[1] /\ 1 \in DOMAIN calls
         /\ Top.id \notin LiveIds(Tail(calls)) /\ d.id \in LiveIds(Tail(calls))
         /\ \A o \in gone : o[1] \in LiveIds(Tail(calls)) \/ o[1] = Top.id
         /\ LiveIds(calls') = LiveIds(Tail(calls))
         /\ LiveIds(calls) = LiveIds(Tail(calls)) \cup {Top.id}
<1>1. /\ Types /\ RefInv /\ FrameInv /\ 2 \in DOMAIN calls /\ d = calls[2] /\ calls # <<>>
  BY DEF Returns, IInv
<1>19. CallIs(2, m) /\ Waits(d, Top) /\ y = Now(d).var
  BY DEF Returns
<1>20. t = [d EXCEPT !.pc = @ + 1]
  BY DEF Returns
<1>21. m2 = IF Obj(Step.var) \in held THEN GotIt(m, y) ELSE MissedIt(m, y)
  BY DEF Returns
<1>22. calls' = <<t>> \o Tail(Tail(calls))
  BY DEF Returns
<1>2. /\ Tail(calls) \in Seq(CallType) /\ Len(Tail(calls)) = Len(calls) - 1
      /\ \A k \in 1 .. Len(calls) - 1 : Tail(calls)[k] = calls[k + 1]
      /\ Len(calls) \in Nat \ {0} /\ DOMAIN calls = 1 .. Len(calls) /\ Top = calls[1]
  BY <1>1, TopCall
<1>3. d \in CallType /\ d.fn \in Known /\ d.pc \in Int
  BY <1>1, CallTypes DEF Types
<1>4. /\ t \in CallType /\ t.pc = d.pc + 1 /\ t.id = d.id /\ t.fn = d.fn /\ t.from = d.from
      /\ t.fail = d.fail /\ t.saved = d.saved /\ t.base = d.base /\ t.oldEnv = d.oldEnv
      /\ t.dest = d.dest /\ t.safeCall = d.safeCall
  <2>1. d.pc + 1 \in Int
    BY <1>3
  <2> QED
    BY ONLY <1>3, <1>20, <2>1 DEF CallType
<1>5. Tail(Tail(calls)) = SubSeq(calls, 2 + 1, Len(calls))
  <2>1. Len(calls) >= 2
    BY <1>1, <1>2
  <2>2. \A s \in Seq(CallType) : Len(s) >= 2 => Tail(Tail(s)) = SubSeq(s, 3, Len(s))
    <3> SUFFICES ASSUME NEW s \in Seq(CallType), Len(s) >= 2
                 PROVE  Tail(Tail(s)) = SubSeq(s, 3, Len(s))
      OBVIOUS
    <3>1. /\ Len(s) \in Nat /\ Tail(s) \in Seq(CallType) /\ Len(Tail(s)) = Len(s) - 1
          /\ \A k \in 1 .. Len(s) - 1 : Tail(s)[k] = s[k + 1]
      OBVIOUS
    <3>2. /\ Tail(Tail(s)) \in Seq(CallType) /\ Len(Tail(Tail(s))) = Len(s) - 2
          /\ \A k \in 1 .. Len(s) - 2 : Tail(Tail(s))[k] = Tail(s)[k + 1]
      <4>1. \A q \in Seq(CallType) : Len(q) >= 1 =>
              /\ Tail(q) \in Seq(CallType) /\ Len(Tail(q)) = Len(q) - 1
              /\ \A k \in 1 .. Len(q) - 1 : Tail(q)[k] = q[k + 1]
        OBVIOUS
      <4>2. Len(Tail(s)) >= 1 /\ Len(Tail(s)) - 1 = Len(s) - 2
        BY <3>1
      <4> QED
        BY ONLY <3>1, <4>1, <4>2
    <3>3. \A k \in 1 .. Len(s) - 2 : Tail(Tail(s))[k] = s[k + 2]
      BY <3>1, <3>2
    <3>4. /\ SubSeq(s, 3, Len(s)) \in Seq(CallType) /\ Len(SubSeq(s, 3, Len(s))) = Len(s) - 2
          /\ \A k \in 1 .. Len(s) - 2 : SubSeq(s, 3, Len(s))[k] = s[k + 2]
      BY <3>1
    <3> QED
      BY ONLY <3>1, <3>2, <3>3, <3>4
  <2>3. calls \in Seq(CallType)
    BY <1>1 DEF Types
  <2> QED
    BY ONLY <2>1, <2>2, <2>3
<1>6. Unwinds(2, t)
  BY <1>1, <1>4, <1>5, <1>22 DEF Unwinds
<1>7. Now(d).op \in {"eval", "call", "cfun"}
  BY <1>19 DEF Waits
<1>8. /\ d.fn = "qz_peval" => d.pc \in {2, 6}
      /\ y \in Name /\ y \notin m.owns
  BY <1>1, <1>7, <1>19, WaitsAt
<1>9. /\ m2 \in Locals[d.fn] /\ (m2.installed <=> AroundPeval(d.fn, d.pc + 1))
      /\ m2.pc = d.pc + 1 /\ m2.pushed = m.pushed /\ m2.saved = m.saved
      /\ m2.inEnv = m.inEnv /\ m2.installed = m.installed
      /\ m2.freed = m.freed \ {y}
  <2>1. \/ m2 = GotIt(m, Now(d).var)
        \/ m2 = MissedIt(m, Now(d).var)
    BY <1>19, <1>21
  <2> QED
    BY ONLY <1>1, <1>7, <1>19, <2>1, ResumedIs
<1>10. /\ Obj(Step.var) \in held => m2.owns = m.owns \cup {y}
       /\ Obj(Step.var) \notin held => m2.owns = m.owns
  <2>1. CASE Obj(Step.var) \in held
    <3>1. m2 = GotIt(m, Now(d).var)
      BY <1>19, <1>21, <2>1
    <3>2. m2.owns = m.owns \cup {y}
      BY ONLY <1>1, <1>7, <1>19, <3>1, ResumedIs
    <3> QED
      BY <2>1, <3>2
  <2>2. CASE Obj(Step.var) \notin held
    <3>1. m2 = MissedIt(m, Now(d).var)
      BY <1>19, <1>21, <2>2
    <3>2. m2.owns = m.owns
      BY ONLY <1>1, <1>7, <1>19, <3>1, ResumedIs
    <3> QED
      BY <2>2, <3>2
  <2> QED
    BY <2>1, <2>2
<1>11. InJump(t) <=> InJump(d)
  BY <1>3, <1>4, <1>8, Peval DEF InJump
<1>12. Around(t) <=> Around(d)
  <2>1. m.installed <=> Around(d)
    BY <1>1, <1>19, CallRules
  <2> QED
    BY <1>4, <1>9, <2>1 DEF Around
<1>13. ASSUME NEW k \in DOMAIN Tail(calls)
       PROVE  k + 1 \in DOMAIN calls /\ Tail(calls)[k] = calls[k + 1] /\ k + 1 # 1
  BY <1>2
<1>14. ASSUME NEW k \in DOMAIN calls, k # 1
       PROVE  k - 1 \in DOMAIN Tail(calls) /\ Tail(calls)[k - 1] = calls[k]
  BY <1>2, <1>14
<1>15. LiveIds(calls) = LiveIds(Tail(calls)) \cup {Top.id}
  <2>1. ASSUME NEW i \in LiveIds(calls)
        PROVE  i \in LiveIds(Tail(calls)) \/ i = Top.id
    <3>1. PICK k \in DOMAIN calls : i = calls[k].id
      BY DEF LiveIds
    <3>2. CASE k = 1
      BY <1>2, <3>1, <3>2
    <3>3. CASE k # 1
      BY <1>14, <3>1, <3>3 DEF LiveIds
    <3> QED
      BY <3>2, <3>3
  <2>2. ASSUME NEW i \in LiveIds(Tail(calls))
        PROVE  i \in LiveIds(calls)
    <3>1. PICK k \in DOMAIN Tail(calls) : i = Tail(calls)[k].id
      BY DEF LiveIds
    <3> QED
      BY <1>13, <3>1 DEF LiveIds
  <2>3. Top.id \in LiveIds(calls)
    BY <1>2 DEF LiveIds
  <2> QED
    BY <2>1, <2>2, <2>3
<1>16. Top.id # d.id /\ Top.id \notin LiveIds(Tail(calls)) /\ d.id \in LiveIds(Tail(calls))
  <2>1. Top.id \notin LiveIds(Tail(calls))
    <3> SUFFICES ASSUME NEW k \in DOMAIN Tail(calls), Tail(calls)[k].id = Top.id
                 PROVE  FALSE
      BY DEF LiveIds
    <3>1. k + 1 \in DOMAIN calls /\ calls[k + 1].id = calls[1].id /\ k + 1 # 1 /\ 1 \in DOMAIN calls
      BY <1>2, <1>13
    <3> QED
      BY <1>1, <3>1 DEF RefInv
  <2>2. d.id \in LiveIds(Tail(calls))
    <3>1. 2 - 1 \in DOMAIN Tail(calls) /\ Tail(calls)[2 - 1] = d
      BY <1>1, <1>14
    <3> QED
      BY <3>1 DEF LiveIds
  <2> QED
    BY <2>1, <2>2
<1>17. LiveIds(calls') = LiveIds(Tail(calls))
  <2>1. /\ DOMAIN calls' = 1 .. Len(calls) - 2 + 1 /\ calls'[1] = t
        /\ \A k \in DOMAIN calls' : k # 1 =>
             k + 2 - 1 \in 2 + 1 .. Len(calls) /\ calls'[k] = calls[k + 2 - 1]
    BY <1>1, <1>6, Unwound
  <2>2. DOMAIN Tail(calls) = 1 .. Len(calls) - 1 /\ DOMAIN calls' = 1 .. Len(calls) - 1
    BY <1>2, <2>1
  <2>3. ASSUME NEW k \in 1 .. Len(calls) - 1
        PROVE  calls'[k].id = Tail(calls)[k].id
    <3>3. k + 1 = k + 2 - 1
      BY <1>2
    <3>1. CASE k = 1
      BY <1>1, <1>2, <1>4, <2>1, <3>1
    <3>2. CASE k # 1
      <4>1. k + 2 - 1 = k + 1
        BY <3>3
      <4> QED
        BY ONLY <1>2, <2>1, <2>2, <2>3, <3>2, <4>1
    <3> QED
      BY <3>1, <3>2
  <2> QED
    BY <2>2, <2>3 DEF LiveIds
<1>18. \A o \in gone : o[1] \in LiveIds(Tail(calls)) \/ o[1] = Top.id
  BY <1>1, <1>15 DEF RefInv
<1> QED
  BY ONLY <1>1, <1>2, <1>3, <1>4, <1>6, <1>7, <1>8, <1>9, <1>10, <1>11, <1>12, <1>15, <1>16,
          <1>17, <1>18

LEMMA ReturnRefs ==
  ASSUME IInv, NEW l, NEW d, NEW m, NEW y, NEW t, NEW m2, Returns(l, d, m, y, t, m2)
  PROVE  /\ errorObj = NoObj /\ errorObj' = NoObj
         /\ held' \in SUBSET Ref /\ IsFiniteSet(held') /\ gone' \subseteq gone
         /\ \A o \in gone' : o[1] \in LiveIds(calls')
         /\ OthersKept(2) /\ HeldNow(t, m2)' /\ NothingLost'
<1>1. /\ Types /\ RefInv /\ FrameInv /\ 2 \in DOMAIN calls /\ d = calls[2] /\ calls # <<>>
      /\ TopIs(l) /\ Step.op = "return" /\ CallIs(2, m)
  BY DEF Returns, IInv
<1>2. /\ held' = IF Obj(Step.var) \in held
                 THEN (held \ {Obj(Step.var)}) \cup {<<d.id, y>>} ELSE held
      /\ gone' = Forget(gone, Tail(calls), safety) \ {<<d.id, y>>}
      /\ safety' = safety /\ errorObj' = errorObj
  BY DEF Returns
<1>3. errorObj = NoObj
  BY <1>1, ReturnPends
<1>4. /\ d \in CallType /\ t.pc = d.pc + 1 /\ t.id = d.id
      /\ y \in Name /\ m2.pc = t.pc /\ m2.freed = m.freed \ {y}
      /\ Obj(Step.var) \in held => m2.owns = m.owns \cup {y}
      /\ Obj(Step.var) \notin held => m2.owns = m.owns
      /\ Top.id # d.id
      /\ Top.id \notin LiveIds(Tail(calls)) /\ d.id \in LiveIds(Tail(calls))
      /\ \A o \in gone : o[1] \in LiveIds(Tail(calls)) \/ o[1] = Top.id
      /\ LiveIds(calls') = LiveIds(Tail(calls))
      /\ LiveIds(calls) = LiveIds(Tail(calls)) \cup {Top.id}
      /\ Top = calls[1] /\ 1 \in DOMAIN calls
  BY ReturnsTo
<1>5. d.id \in Nat \ {0} /\ <<d.id, y>> \in Ref
  BY <1>4, CallTypes DEF Ref
<1>6. held' \in SUBSET Ref /\ IsFiniteSet(held')
  <2>1. CASE Obj(Step.var) \in held
    <3>1. held \in SUBSET Ref /\ IsFiniteSet(held)
      BY <1>1 DEF Types
    <3>2. IsFiniteSet(held \ {Obj(Step.var)})
      BY <3>1, FS_Subset
    <3>3. IsFiniteSet((held \ {Obj(Step.var)}) \cup {<<d.id, y>>})
      BY <3>2, FS_AddElement
    <3> QED
      BY <1>2, <1>5, <2>1, <3>1, <3>3
  <2>2. CASE Obj(Step.var) \notin held
    BY <1>1, <1>2, <2>2 DEF Types
  <2> QED
    BY <2>1, <2>2
<1>7. gone' \subseteq gone
  BY <1>2 DEF Forget
<1>8. ASSUME NEW o \in gone' PROVE o[1] \in LiveIds(calls')
  <2>1. o \in gone /\ (o[1] \in LiveIds(Tail(calls)) \/ o \in ToSet(safety))
    BY <1>2 DEF Forget
  <2>2. o[1] = Top.id => o \notin ToSet(safety)
    BY <1>1, <1>4, <2>1, FreedNotInBuffer
  <2> QED
    BY <1>4, <2>1, <2>2
<1>9. ASSUME NEW o, o[1] \in LiveIds(Tail(calls)), o # <<d.id, y>>
      PROVE  /\ o \in held' \ {errorObj'} <=> o \in held \ {errorObj}
             /\ o \in gone' <=> o \in gone
  <2>1. o # Obj(Step.var)
    BY <1>4, <1>9 DEF Obj
  <2>2. o \in held' <=> o \in held
    BY <1>2, <1>9, <2>1
  <2>3. o \in gone' <=> o \in gone
    BY <1>2, <1>9 DEF Forget
  <2> QED
    BY <1>2, <2>2, <2>3
<1>10. OthersKept(2)
  <2> SUFFICES ASSUME NEW k \in 2 + 1 .. Len(calls), NEW o, o[1] = calls[k].id
               PROVE  /\ o \in held' \ {errorObj'} <=> o \in held \ {errorObj}
                      /\ o \in gone' <=> o \in gone
    BY DEF OthersKept
  <2>1. k \in DOMAIN calls /\ k # 1 /\ k # 2
    BY <1>1 DEF Types
  <2>2. o[1] # d.id /\ o[1] # Top.id /\ o[1] \in LiveIds(calls)
    BY <1>1, <1>4, <2>1 DEF RefInv, LiveIds
  <2>3. o # <<d.id, y>>
    BY <2>2
  <2> QED
    BY <1>4, <1>9, <2>2, <2>3
<1>11. /\ {o \in held \ {errorObj} : o[1] = d.id} = {d.id} \X m.owns
       /\ {o \in gone : o[1] = d.id} = {d.id} \X m.freed
  BY <1>1 DEF CallIs, HeldNow
<1>12. <<d.id, y>> # NoObj
  BY <1>5 DEF NoObj
<1>13. {o \in held' \ {errorObj'} : o[1] = d.id} = {d.id} \X m2.owns
  <2>1. CASE Obj(Step.var) \in held
    <3>1. m2.owns = m.owns \cup {y}
      BY <1>4, <2>1
    <3>2. <<d.id, y>> \in held' \ {errorObj'}
      BY <1>2, <1>3, <1>12, <2>1
    <3>3. ASSUME NEW o, o[1] = d.id, o # <<d.id, y>>
          PROVE  o \in held' \ {errorObj'} <=> o \in held \ {errorObj}
      BY <1>4, <1>9, <3>3
    <3>4. ASSUME NEW o \in held' \ {errorObj'}, o[1] = d.id
          PROVE  o \in {d.id} \X m2.owns
      <4>1. CASE o = <<d.id, y>>
        BY <3>1, <4>1
      <4>2. CASE o # <<d.id, y>>
        <5>1. o \in {d.id} \X m.owns
          BY <1>11, <3>3, <3>4, <4>2
        <5> QED
          BY <3>1, <5>1
      <4> QED
        BY <4>1, <4>2
    <3>5. ASSUME NEW o \in {d.id} \X m2.owns
          PROVE  o \in held' \ {errorObj'} /\ o[1] = d.id
      <4>1. o[1] = d.id /\ o = <<d.id, o[2]>> /\ o[2] \in m2.owns
        BY <3>5
      <4>2. CASE o[2] = y
        BY <3>2, <4>1, <4>2
      <4>3. CASE o[2] # y
        <5>1. o \in {d.id} \X m.owns /\ o # <<d.id, y>>
          BY <3>1, <4>1, <4>3
        <5>2. o \in held \ {errorObj}
          BY <1>11, <5>1
        <5> QED
          BY <3>3, <4>1, <5>1, <5>2
      <4> QED
        BY <4>2, <4>3
    <3> QED
      BY <3>4, <3>5
  <2>2. CASE Obj(Step.var) \notin held
    BY <1>2, <1>4, <1>11, <2>2
  <2> QED
    BY <2>1, <2>2
<1>14. {o \in gone' : o[1] = d.id} = {d.id} \X m2.freed
  <2>1. ASSUME NEW o, o[1] = d.id
        PROVE  o \in gone' <=> o \in gone /\ o # <<d.id, y>>
    BY <1>2, <1>4, <2>1 DEF Forget
  <2>2. ASSUME NEW o \in gone', o[1] = d.id
        PROVE  o \in {d.id} \X m2.freed
    <3>1. o \in {d.id} \X m.freed /\ o # <<d.id, y>>
      BY <1>11, <2>1, <2>2
    <3>2. o = <<d.id, o[2]>> /\ o[2] \in m.freed /\ o[2] # y
      BY <3>1
    <3> QED
      BY <1>4, <3>2
  <2>3. ASSUME NEW o \in {d.id} \X m2.freed
        PROVE  o \in gone' /\ o[1] = d.id
    <3>1. o = <<d.id, o[2]>> /\ o[1] = d.id /\ o[2] \in m.freed /\ o[2] # y
      BY <1>4, <2>3
    <3>2. o \in gone /\ o # <<d.id, y>>
      BY <1>11, <3>1
    <3> QED
      BY <2>1, <3>1, <3>2
  <2> QED
    BY <2>2, <2>3
<1>15. HeldNow(t, m2)'
  BY <1>4, <1>13, <1>14 DEF HeldNow
<1>16. NothingLost'
  <2> SUFFICES ASSUME NEW o \in held'
               PROVE  o[1] \in LiveIds(calls') \/ o \in ToSet(safety')
    BY DEF NothingLost
  <2>1. CASE o = <<d.id, y>>
    BY <1>4, <2>1
  <2>2. CASE o # <<d.id, y>>
    <3>1. o \in held /\ o # Obj(Step.var)
      BY <1>2, <2>2
    <3>2. o \in Ref /\ o # NoObj
      <4>1. o \in Ref
        BY <1>1, <3>1 DEF Types
      <4> QED
        BY <4>1 DEF Ref, NoObj
    <3>3. o[1] \in LiveIds(calls) \/ o \in ToSet(safety)
      BY <1>1, <1>3, <3>1, <3>2 DEF RefInv, NothingLost
    <3>4. CASE o[1] = Top.id
      BY <1>1, <1>2, <1>3, <3>1, <3>2, <3>4, OwnedAtReturn
    <3> QED
      BY <1>2, <1>4, <3>3, <3>4
  <2> QED
    BY <2>1, <2>2
<1> QED
  BY <1>2, <1>3, <1>6, <1>7, <1>8, <1>10, <1>15, <1>16

LEMMA ReturnBuffer ==
  ASSUME IInv, NEW l, NEW d, NEW m, NEW y, NEW t, NEW m2, Returns(l, d, m, y, t, m2)
  PROVE  PushedNow(t, m2, Len(safety))' /\ EnvNow(t, m2)'
<1>1. /\ Types /\ FrameInv /\ 2 \in DOMAIN calls /\ d = calls[2] /\ calls # <<>>
      /\ TopIs(l) /\ Step.op = "return" /\ CallIs(2, m) /\ Waits(d, Top)
      /\ env' = env /\ safety' = safety
  BY DEF Returns, IInv
<1>2. /\ d \in CallType /\ d.fn \in Known
      /\ t.pc = d.pc + 1 /\ t.id = d.id /\ t.fn = d.fn /\ t.from = d.from
      /\ t.base = d.base /\ t.oldEnv = d.oldEnv
      /\ Now(d).op \in {"eval", "call", "cfun"}
      /\ m2.pushed = m.pushed /\ m2.saved = m.saved /\ m2.inEnv = m.inEnv
      /\ Top = calls[1] /\ 1 \in DOMAIN calls
  BY ReturnsTo
<1>3. /\ PushedNow(d, m, Top.from[2]) /\ EnvNow(d, m)
  BY <1>1, <1>2 DEF CallIs, EndOf
<1>4. /\ d.from[2] \in Nat /\ Top.from[2] \in Nat /\ Len(safety) \in Nat
      /\ Len(m.pushed) \in Nat /\ Len(l.pushed) \in Nat /\ Top.fn \in Known
  <2>1. Len(m.pushed) \in Nat /\ Len(l.pushed) \in Nat
    BY <1>1, CallRules, TopRules DEF TopIs
  <2> QED
    BY <1>1, <1>2, <2>1, TopCall, CallTypes DEF Types
<1>5. EnvNow(t, m2)'
  BY <1>1, <1>2, <1>3 DEF EnvNow, Depth
<1>6. Top.from[2] + Len(l.pushed) <= Len(safety)
  BY <1>1 DEF TopIs, PushedNow
<1>7. d.from[2] + Len(m.pushed) <= Len(safety)
  <2>1. d.from[2] + Len(m.pushed) <= Top.from[2]
    BY <1>3 DEF PushedNow
  <2> QED
    BY <1>4, <1>6, <2>1
<1>8. ASSUME ~ MayHoldDead(t)
      PROVE  d.from[2] + Len(m.pushed) = Len(safety)
  <2>1. d.fn = "qz_peval" => d.pc \in {2, 6}
    BY <1>1, <1>2, WaitsAt
  <2>2. ~ (d.fn = "qz_peval" /\ d.pc = 6)
    BY <1>2, <1>8 DEF MayHoldDead, CatchPc
  <2>3. ~ MayHoldDead(d)
    BY <1>2, <2>1, <2>2 DEF MayHoldDead, CatchPc
  <2>4. d.from[2] + Len(m.pushed) = Top.from[2]
    BY <1>3, <2>3 DEF PushedNow
  <2>5. ~ MayHoldDead(Top)
    BY <1>1, ReturnsClean
  <2>6. Top.from[2] + Len(l.pushed) = Len(safety)
    BY <1>1, <2>5 DEF TopIs, PushedNow
  <2>7. Top.fn \in Evaluator
    <3> SUFFICES ASSUME Top.fn \notin Evaluator
                 PROVE  FALSE
      OBVIOUS
    <3>1. ExitRules(d.fn, m, Now(d)) /\ m.pc = d.pc
      BY <1>1, CallRules
    <3>2. Now(d).op # "eval"
      BY <1>1 DEF Waits, Evaluator
    <3>3. Now(d).op # "call"
      BY <1>1, <3>1 DEF Waits, ExitRules, Evaluator
    <3>4. Script[d.fn][d.pc + 1].op = "cleanup"
      BY <1>2, <3>1, <3>2, <3>3 DEF ExitRules
    <3> QED
      BY <1>2, <1>8, <3>4 DEF MayHoldDead, Now
  <2>8. l.pushed = <<>>
    BY <1>1, <2>7, TopRules DEF ExitRules, TopIs
  <2> QED
    BY <1>4, <2>4, <2>6, <2>8
<1>9. PushedNow(t, m2, Len(safety))'
  <2>1. /\ \A j \in 1 .. Len(m.pushed) : safety[d.from[2] + j] = <<d.id, m.pushed[j]>>
        /\ \A n \in DOMAIN safety :
             safety[n][1] = d.id => n \in d.from[2] + 1 .. d.from[2] + Len(m.pushed)
        /\ m.saved => d.base = d.from[2]
    BY <1>3 DEF PushedNow
  <2>2. MayHoldDead(t)' <=> MayHoldDead(t)
    BY DEF MayHoldDead, Now
  <2> QED
    BY <1>1, <1>2, <1>7, <1>8, <2>1, <2>2 DEF PushedNow
<1> QED
  BY <1>5, <1>9

LEMMA ReturnKeeps ==
  ASSUME IInv, ReturnFromCall
  PROVE  IInv'
<1>1. CASE Tail(calls) = <<>>
  BY <1>1, LastReturnKeeps
<1>2. CASE Tail(calls) # <<>>
  <2>1. PICK l, d, m, y, t, m2 : Returns(l, d, m, y, t, m2)
    BY <1>2, Returned
  <2>2. /\ Types /\ FrameInv /\ EnvInv /\ FailInv /\ HandlerInv /\ PendInv
        /\ 2 \in DOMAIN calls /\ d = calls[2] /\ calls # <<>>
        /\ TopIs(l) /\ Step.op = "return"
        /\ env' = env /\ safety' = safety /\ pevalFail' = pevalFail /\ handler' = handler
        /\ fault' = fault
    BY <2>1 DEF Returns, IInv
  <2>3. /\ Unwinds(2, t) /\ d \in CallType
        /\ t.pc = d.pc + 1 /\ t.id = d.id /\ t.fn = d.fn /\ t.from = d.from
        /\ t.fail = d.fail /\ t.saved = d.saved
        /\ m2 \in Locals[t.fn]
        /\ InJump(t) <=> InJump(d)
        /\ Around(t) <=> Around(d)
    BY <2>1, ReturnsTo
  <2>4. /\ errorObj = NoObj /\ errorObj' = NoObj
        /\ held' \in SUBSET Ref /\ IsFiniteSet(held') /\ gone' \subseteq gone
        /\ \A o \in gone' : o[1] \in LiveIds(calls')
        /\ OthersKept(2) /\ HeldNow(t, m2)' /\ NothingLost'
    BY <2>1, ReturnRefs
  <2>5. PushedNow(t, m2, Len(safety))' /\ EnvNow(t, m2)'
    BY <2>1, ReturnBuffer
  <2>6. \A i \in DOMAIN env : env[i] \in ToSet(safety)
    BY <2>2, EnvsSafe
  <2>7. /\ pevalFail = FailBelow(2) /\ HandlerBelow(2, handler) /\ ~ (2 > Len(calls))
    BY <2>2, ReturnsClean DEF Types
  <2>8. /\ InJump(t) => pevalFail' = t.id /\ t.fail = t.from[3]
        /\ ~ InJump(t) => pevalFail' = t.from[3]
    BY <2>2, <2>3, <2>7 DEF FailBelow, FailInv
  <2>9. /\ Around(t) => /\ t.saved = t.from[4]
                        /\ t.fn = "qz_peval" => handler' = Failsafe
                        /\ t.fn # "qz_peval" => handler'[1] = t.id /\ handler' \notin gone'
        /\ ~ Around(t) => handler' = t.from[4]
    BY <2>2, <2>3, <2>4, <2>7 DEF HandlerBelow, HandlerInv
  <2>10. pevalFail' \in Nat /\ handler' \in AnyRef /\ errorObj' \in AnyRef
    BY <2>2, <2>4 DEF Types
  <2>11. PendInv'
    <3>1. errorObj' = NoObj'
      BY <2>4 DEF NoObj
    <3> QED
      BY <3>1 DEF PendInv
  <2>12. UNCHANGED <<env, safety, fault>>
    BY <2>2
  <2> QED
    BY ONLY IInv, <2>3, <2>4, <2>5, <2>6, <2>8, <2>9, <2>10, <2>11, <2>12, UnwindKeeps
<1> QED
  BY <1>1, <1>2

(***************************************************************************)
(* Errors.                                                                 *)
(***************************************************************************)

\* A set of natural numbers has a least element: the strict-subset order on the
\* intervals 0 .. n is well-founded.
LEMMA LeastCall ==
  ASSUME NEW S \in SUBSET Nat, S # {}
  PROVE  \E n \in S : \A m \in S : n <= m
<1> DEFINE R == StrictSubsetOrdering(Nat)
           T == {0 .. n : n \in S}
<1>1. \A n \in S : IsFiniteSet(0 .. n) /\ 0 .. n \subseteq Nat
  BY FS_Interval
<1>2. T \subseteq FiniteSubsetsOf(Nat)
  BY <1>1 DEF FiniteSubsetsOf
<1>3. IsWellFoundedOn(R, FiniteSubsetsOf(Nat))
  BY FS_StrictSubsetOrderingWellFounded
<1>4. T # {}
  OBVIOUS
<1> HIDE DEF R, T
<1>5. PICK x \in T : \A y \in T : ~ (<<y, x>> \in R)
  BY <1>2, <1>3, <1>4, WFMin
<1>6. PICK n \in S : x = 0 .. n
  BY DEF T
<1>7. ASSUME NEW m \in S, m < n
      PROVE  FALSE
  <2>1. 0 .. m \in T
    BY DEF T
  <2>2. 0 .. m \subseteq 0 .. n /\ 0 .. m # 0 .. n
    <3>1. n \in 0 .. n /\ n \notin 0 .. m
      BY <1>7
    <3> QED
      BY <1>7, <3>1
  <2>3. <<0 .. m, 0 .. n>> \in R
    BY <2>2 DEF R, StrictSubsetOrdering
  <2> QED
    BY <1>5, <1>6, <2>1, <2>3
<1> QED
  BY <1>7

(* A call of qz_peval that waits, or that an error leaves, is past its     *)
(* setjmp.                                                                 *)
LEMMA PevalInJump ==
  ASSUME IInv, calls # <<>>, MayThrow(Step),
         NEW j \in DOMAIN calls, calls[j].fn = "qz_peval"
  PROVE  /\ calls[j].pc \in {2, 6} /\ InJump(calls[j])
         /\ MayThrow(Now(calls[j])) => calls[j].pc = 2 /\ Now(calls[j]).op = "eval"
<1>1. Types /\ FrameInv /\ WaitInv
  BY DEF IInv
<1>2. PICK m : CallIs(j, m)
  BY <1>1, CallIsSome
<1>3. CASE j = 1
  <2>1. PICK l : TopIs(l)
    BY <1>1, TopIsSome
  <2>2. Top = calls[1] /\ Now(Top) = Step
    BY <1>1, TopCall DEF Now, Step
  <2>3. Top.pc \in 1 .. 11
    BY <1>1, <1>3, <2>1, <2>2, PevalTop
  <2>4. Top.pc = 2 /\ Step.op = "eval"
    BY <1>1, <1>3, <2>1, <2>2, <2>3, PevalTop DEF MayThrow, CallsPeval
  <2> QED
    BY <1>3, <2>2, <2>4, Peval DEF InJump
<1>4. CASE j # 1
  <2>1. j > 1
    BY <1>1, <1>4 DEF Types
  <2>2. Waits(calls[j], calls[j - 1])
    BY <1>1, <2>1 DEF WaitInv
  <2>3. \/ calls[j].pc = 2 /\ Now(calls[j]).op = "eval"
        \/ calls[j].pc = 6 /\ Now(calls[j]).op = "call" /\ Now(calls[j]).fn = "qz_peval"
    BY <1>1, <1>2, <2>2, WaitsAt DEF Waits
  <2> QED
    BY <2>3, Peval DEF InJump, MayThrow, CallsPeval
<1> QED
  BY <1>3, <1>4

(* An error always finds a call of qz_peval.                               *)
LEMMA InnermostJump ==
  ASSUME IInv, calls # <<>>, MayThrow(Step)
  PROVE  \E k \in DOMAIN calls :
           InJump(calls[k]) /\ NoJump(0, k) /\ calls[k].id = pevalFail
<1>1. Types /\ FailInv /\ WaitInv
  BY DEF IInv
<1>2. Len(calls) \in Nat \ {0} /\ DOMAIN calls = 1 .. Len(calls)
  BY <1>1, TopCall
<1> DEFINE J == {j \in DOMAIN calls : InJump(calls[j])}
<1>3. Len(calls) \in J
  <2>1. Len(calls) \in DOMAIN calls /\ calls[Len(calls)].fn = "qz_peval"
    BY <1>1, <1>2 DEF WaitInv, Last
  <2> QED
    BY <2>1, PevalInJump
<1>4. J \in SUBSET Nat /\ J # {}
  BY <1>2, <1>3
<1>5. PICK k \in J : \A j \in J : k <= j
  <2> HIDE DEF J
  <2> QED
    BY <1>4, LeastCall
<1>6. k \in DOMAIN calls /\ InJump(calls[k]) /\ k \in 1 .. Len(calls) + 1
  BY <1>2, <1>5
<1>7. NoJump(0, k)
  BY <1>2, <1>5, <1>6 DEF NoJump
<1>8. pevalFail = calls[k].id
  BY <1>1, <1>2, <1>6, <1>7 DEF FailInv, FailBelow
<1> QED
  BY <1>6, <1>7, <1>8

(* The calls that an error drops, and the one that catches it.             *)
LEMMA Dropped ==
  ASSUME IInv, calls # <<>>, MayThrow(Step), NEW k \in DOMAIN calls, NoJump(0, k),
         NEW j \in 1 .. k
  PROVE  /\ j \in DOMAIN calls /\ MayThrow(Now(calls[j])) /\ ~ Around(calls[j])
         /\ j # 1 => Now(calls[j]).op # "raise"
<1>1. Types /\ FrameInv /\ WaitInv
  BY DEF IInv
<1>2. Len(calls) \in Nat \ {0} /\ DOMAIN calls = 1 .. Len(calls) /\ Top = calls[1]
  BY <1>1, TopCall
<1>3. j \in DOMAIN calls
  BY <1>2
<1>4. PICK m : CallIs(j, m)
  BY <1>1, <1>3, CallIsSome
<1>5. CASE j = 1
  <2>1. Now(calls[j]) = Step
    BY <1>2, <1>5 DEF Now, Step
  <2>2. CASE Top.fn = "qz_peval"
    <3>1. Top.pc = 2
      BY <1>2, <1>3, <1>5, <2>1, <2>2, PevalInJump
    <3> QED
      BY <1>2, <1>3, <1>5, <2>1, <2>2, <3>1 DEF Around, AroundPeval, CatchPc
  <2>3. CASE Top.fn # "qz_peval"
    BY <1>2, <1>3, <1>5, <2>1, <2>3 DEF Around, AroundPeval, Now, MayThrow, CallsPeval
  <2> QED
    BY <2>2, <2>3
<1>6. CASE j # 1
  <2>1. j > 1 /\ j - 1 \in 1 .. k - 1 /\ j - 1 \in DOMAIN calls
    BY <1>2, <1>6
  <2>2. Waits(calls[j], calls[j - 1])
    BY <1>1, <1>3, <2>1 DEF WaitInv
  <2>3. ~ InJump(calls[j - 1])
    BY <2>1 DEF NoJump
  <2>4. ~ CallsPeval(Now(calls[j]))
    BY <2>1, <2>2, <2>3, PevalInJump DEF CallsPeval, Waits
  <2>5. Around(calls[j]) <=> CallsPeval(Now(calls[j]))
    BY <1>1, <1>3, <1>4, <2>2, WaitsAt DEF Waits
  <2> QED
    BY <1>3, <2>2, <2>4, <2>5 DEF Waits, MayThrow
<1> QED
  BY <1>5, <1>6

\* an error is thrown: the k-th call catches it, with the locals m, and o is
\* the error object
Throws(k, d, m, t, o) ==
  /\ calls # <<>> /\ MayThrow(Step) /\ errorObj = NoObj
  /\ k \in DOMAIN calls /\ d = calls[k] /\ InJump(d) /\ NoJump(0, k) /\ d.id = pevalFail
  /\ CallIs(k, m) /\ t = [d EXCEPT !.pc = CatchPc]
  /\ calls' = <<t>> \o SubSeq(calls, k + 1, Len(calls))
  /\ gone' = Forget(gone, calls', safety)
  /\ errorObj' = o
  /\ \/ o = Obj("error_obj") /\ held' = held \cup {o} /\ Step.op # "raise"
     \/ o = Obj(Step.var) /\ held' = held /\ Step.op = "raise"
  /\ env' = env /\ safety' = safety /\ pevalFail' = pevalFail /\ handler' = handler
  /\ fault' = fault

LEMMA Thrown ==
  ASSUME IInv, calls # <<>>, MayThrow(Step), NEW o, NEW h, ThrowWith(o, h),
         \/ o = Obj("error_obj") /\ h = held \cup {o} /\ Step.op # "raise"
         \/ o = Obj(Step.var) /\ h = held /\ Step.op = "raise"
  PROVE  \E k, d, m, t : Throws(k, d, m, t, o)
<1>1. Types /\ RefInv /\ FrameInv /\ PendInv
  BY DEF IInv
<1>2. PICK k \in DOMAIN calls :
        InJump(calls[k]) /\ NoJump(0, k) /\ calls[k].id = pevalFail
  BY InnermostJump
<1>3. PICK m : CallIs(k, m)
  BY <1>1, CallIsSome
<1>4. k = CHOOSE n \in DOMAIN calls : calls[n].id = pevalFail
  BY <1>1, <1>2 DEF RefInv
<1>5. errorObj = NoObj
  <2>1. PICK l : TopIs(l)
    BY <1>1, TopIsSome
  <2> QED
    BY <1>1, <2>1, NothingPends DEF MayThrow
<1>6. SUFFICES ASSUME NEW d, d = calls[k], NEW t, t = [d EXCEPT !.pc = CatchPc]
               PROVE  Throws(k, d, m, t, o)
  OBVIOUS
<1>7. /\ Head(SubSeq(calls, k, Len(calls))) = d
      /\ Tail(SubSeq(calls, k, Len(calls))) = SubSeq(calls, k + 1, Len(calls))
  <2>1. \A s \in Seq(CallType) : \A a \in 1 .. Len(s) :
          /\ Head(SubSeq(s, a, Len(s))) = s[a]
          /\ Tail(SubSeq(s, a, Len(s))) = SubSeq(s, a + 1, Len(s))
    <3> TAKE s \in Seq(CallType)
    <3> TAKE a \in 1 .. Len(s)
    <3>1. Len(s) \in Nat /\ a \in Nat \ {0} /\ a <= Len(s)
      OBVIOUS
    <3>2. /\ SubSeq(s, a, Len(s)) \in Seq(CallType)
          /\ Len(SubSeq(s, a, Len(s))) = Len(s) - a + 1
          /\ \A n \in 1 .. Len(s) - a + 1 : SubSeq(s, a, Len(s))[n] = s[a + n - 1]
      BY <3>1
    <3>3. /\ SubSeq(s, a + 1, Len(s)) \in Seq(CallType)
          /\ Len(SubSeq(s, a + 1, Len(s))) = Len(s) - a
          /\ \A n \in 1 .. Len(s) - a : SubSeq(s, a + 1, Len(s))[n] = s[a + n]
      BY <3>1
    <3>4. SubSeq(s, a, Len(s)) # <<>> /\ Head(SubSeq(s, a, Len(s))) = s[a]
      BY <3>1, <3>2
    <3>5. /\ Tail(SubSeq(s, a, Len(s))) \in Seq(CallType)
          /\ Len(Tail(SubSeq(s, a, Len(s)))) = Len(s) - a
          /\ \A n \in 1 .. Len(s) - a : Tail(SubSeq(s, a, Len(s)))[n] = s[a + n]
      <4>1. \A q \in Seq(CallType) : \A e \in Nat : Len(q) = e + 1 =>
              /\ Tail(q) \in Seq(CallType) /\ Len(Tail(q)) = e
              /\ \A n \in 1 .. e : Tail(q)[n] = q[n + 1]
        OBVIOUS
      <4>2. Len(s) - a \in Nat
        BY <3>1
      <4>3. \A n \in 1 .. Len(s) - a : n + 1 \in 1 .. Len(s) - a + 1 /\ a + (n + 1) - 1 = a + n
        BY <3>1
      <4> SUFFICES ASSUME NEW q, q = SubSeq(s, a, Len(s)), NEW e \in Nat, e = Len(s) - a
                   PROVE  /\ Tail(q) \in Seq(CallType) /\ Len(Tail(q)) = e
                          /\ \A n \in 1 .. e : Tail(q)[n] = s[a + n]
        BY <4>2
      <4>4. q \in Seq(CallType) /\ Len(q) = e + 1 /\ \A n \in 1 .. e + 1 : q[n] = s[a + n - 1]
        BY <3>2
      <4>5. /\ Tail(q) \in Seq(CallType) /\ Len(Tail(q)) = e
            /\ \A n \in 1 .. e : Tail(q)[n] = q[n + 1]
        BY ONLY <4>1, <4>4, e \in Nat
      <4>6. \A n \in 1 .. e : q[n + 1] = s[a + n]
        BY <4>3, <4>4
      <4> QED
        BY <4>5, <4>6
    <3>6. \A q, r \in Seq(CallType) :
            Len(q) = Len(r) /\ (\A n \in 1 .. Len(q) : q[n] = r[n]) => q = r
      OBVIOUS
    <3>7. Tail(SubSeq(s, a, Len(s))) = SubSeq(s, a + 1, Len(s))
      <4> SUFFICES ASSUME NEW q, q = Tail(SubSeq(s, a, Len(s))),
                          NEW r, r = SubSeq(s, a + 1, Len(s))
                   PROVE  q = r
        OBVIOUS
      <4>1. q \in Seq(CallType) /\ r \in Seq(CallType) /\ Len(q) = Len(r)
            /\ \A n \in 1 .. Len(q) : q[n] = r[n]
        BY <3>3, <3>5
      <4> QED
        BY ONLY <3>6, <4>1
    <3> QED
      BY ONLY <3>4, <3>7
  <2>2. calls \in Seq(CallType) /\ k \in 1 .. Len(calls)
    BY <1>1 DEF Types
  <2> QED
    BY ONLY <1>6, <2>1, <2>2
<1>8. /\ calls' = <<t>> \o SubSeq(calls, k + 1, Len(calls))
      /\ gone' = Forget(gone, calls', safety) /\ errorObj' = o /\ held' = h
      /\ env' = env /\ safety' = safety /\ pevalFail' = pevalFail /\ handler' = handler
      /\ fault' = fault
  BY <1>4, <1>6, <1>7 DEF ThrowWith
<1> QED
  BY <1>2, <1>3, <1>5, <1>6, <1>8 DEF Throws

LEMMA ThrowsTo ==
  ASSUME IInv, NEW k, NEW d, NEW m, NEW t, NEW o, Throws(k, d, m, t, o),
         NEW m2, m2 = [m EXCEPT !.pc = CatchPc]
  PROVE  /\ Unwinds(k, t) /\ d \in CallType /\ d.fn = "qz_peval" /\ d.pc = 2
         /\ t.fn = d.fn /\ t.pc = CatchPc /\ t.id = d.id /\ t.from = d.from /\ t.fail = d.fail
         /\ t.saved = d.saved /\ t.base = d.base /\ t.oldEnv = d.oldEnv
         /\ m.owns = {} /\ m.pushed = <<>>
         /\ m2 \in Locals[t.fn] /\ m2.pc = t.pc /\ m2.owns = {} /\ m2.pushed = <<>>
         /\ m2.freed = m.freed /\ m2.saved = m.saved /\ m2.inEnv = m.inEnv
         /\ InJump(t) /\ ~ Around(t) /\ ~ Around(d) /\ MayHoldDead(t)
<1>1. /\ Types /\ calls # <<>> /\ MayThrow(Step) /\ errorObj = NoObj
      /\ k \in DOMAIN calls /\ d = calls[k] /\ InJump(d) /\ NoJump(0, k)
      /\ CallIs(k, m) /\ calls' = <<t>> \o SubSeq(calls, k + 1, Len(calls))
  BY DEF IInv, Throws
<1>2. t = [d EXCEPT !.pc = CatchPc]
  BY DEF Throws
<1>3. d \in CallType /\ d.fn = "qz_peval" /\ k \in 1 .. k
  BY <1>1 DEF InJump, Types
<1>4. MayThrow(Now(d)) /\ ~ Around(d)
  BY <1>1, <1>3, Dropped
<1>5. d.pc = 2 /\ Now(d).op = "eval"
  BY <1>1, <1>3, <1>4, PevalInJump
<1>6. CatchPc \in Int /\ CatchPc = 4
  BY DEF CatchPc
<1>7. /\ t \in CallType /\ t.fn = d.fn /\ t.pc = CatchPc /\ t.id = d.id /\ t.from = d.from
      /\ t.fail = d.fail /\ t.saved = d.saved /\ t.base = d.base /\ t.oldEnv = d.oldEnv
      /\ t.dest = d.dest /\ t.safeCall = d.safeCall
  BY ONLY <1>2, <1>3, <1>6 DEF CallType
<1>8. Unwinds(k, t)
  BY <1>1, <1>7 DEF Unwinds
<1>9. /\ m \in LocalType /\ At(d.fn, m) = Now(d)
      /\ ExitRules(d.fn, m, Now(d)) /\ StateRules(d.fn, m, Now(d))
      /\ \A q \in Moves(d.fn, m) : q \in Locals[d.fn]
  BY <1>1, CallRules
<1>10. m.pushed = <<>> /\ m.owns = {}
  <2>1. m.pushed = <<>>
    BY <1>3, <1>9 DEF StateRules
  <2>2. m.owns \subseteq ToSet(m.pushed)
    BY <1>4, <1>5, <1>9 DEF ExitRules
  <2>3. ToSet(m.pushed) = {}
    BY <2>1 DEF ToSet
  <2> QED
    BY <2>1, <2>2, <2>3
<1>11. /\ m2.pc = CatchPc /\ m2.owns = m.owns /\ m2.pushed = m.pushed
       /\ m2.freed = m.freed /\ m2.saved = m.saved /\ m2.inEnv = m.inEnv
  BY <1>9 DEF LocalType
<1>12. m2 \in Moves(d.fn, m)
  BY <1>3, <1>5, <1>9 DEF Moves
<1>13. InJump(t) /\ ~ Around(t) /\ MayHoldDead(t)
  BY <1>3, <1>6, <1>7, Peval DEF InJump, Around, AroundPeval, MayHoldDead
<1> QED
  BY <1>3, <1>4, <1>5, <1>7, <1>8, <1>9, <1>10, <1>11, <1>12, <1>13

(* What the calls it drops own is in the safety buffer.                    *)
LEMMA OwnedAtThrow ==
  ASSUME IInv, NEW k, NEW d, NEW m, NEW t, NEW o, Throws(k, d, m, t, o),
         NEW j \in 1 .. k, NEW x \in held, x[1] = calls[j].id
  PROVE  x \in ToSet(safety) \/ x = o
<1>1. /\ Types /\ FrameInv /\ calls # <<>> /\ MayThrow(Step) /\ errorObj = NoObj
      /\ k \in DOMAIN calls /\ NoJump(0, k)
      /\ Step.op = "raise" => o = Obj(Step.var)
  BY DEF IInv, Throws
<1>2. /\ j \in DOMAIN calls /\ MayThrow(Now(calls[j]))
      /\ j # 1 => Now(calls[j]).op # "raise"
  BY <1>1, Dropped
<1>3. PICK l : CallIs(j, l)
  BY <1>1, <1>2, CallIsSome
<1>4. ExitRules(calls[j].fn, l, Now(calls[j]))
  BY <1>1, <1>2, <1>3, CallRules
<1>5. x \in Ref /\ x # NoObj
  <2>1. x \in Ref
    BY <1>1 DEF Types
  <2> QED
    BY <2>1 DEF Ref, NoObj
<1>6. x = <<calls[j].id, x[2]>> /\ x[2] \in l.owns
  <2>1. x \in {calls[j].id} \X l.owns
    BY <1>1, <1>3, <1>5 DEF CallIs, HeldNow
  <2> QED
    BY <2>1
<1>7. CASE x[2] \in ToSet(l.pushed)
  BY <1>1, <1>2, <1>3, <1>6, <1>7, PushedInBuffer
<1>8. CASE x[2] \notin ToSet(l.pushed)
  <2>1. Now(calls[j]).op = "raise" /\ x[2] = Now(calls[j]).var
    BY <1>2, <1>4, <1>6, <1>8 DEF ExitRules
  <2>2. j = 1 /\ Top = calls[1] /\ Now(calls[1]) = Step
    BY <1>1, <1>2, <2>1, TopCall DEF Now, Step
  <2> QED
    BY <1>1, <1>6, <2>1, <2>2 DEF Obj
<1> QED
  BY <1>7, <1>8

(* The error object is not in the safety buffer.                           *)
LEMMA ErrorNotInBuffer ==
  ASSUME IInv, NEW k, NEW d, NEW m, NEW t, NEW o, Throws(k, d, m, t, o)
  PROVE  o \in Ref /\ o[1] = Top.id /\ o[2] # "env" /\ o \notin ToSet(safety)
<1>1. /\ Types /\ FrameInv /\ calls # <<>> /\ MayThrow(Step)
      /\ \/ o = Obj("error_obj") /\ Step.op # "raise"
         \/ o = Obj(Step.var) /\ Step.op = "raise"
  BY DEF IInv, Throws
<1>2. PICK l : TopIs(l)
  BY <1>1, TopIsSome
<1>3. /\ NameRules(l, Step) /\ ExitRules(Top.fn, l, Step)
      /\ "error_obj" \notin ToSet(l.pushed)
  BY <1>1, <1>2, TopRules DEF TopIs
<1>4. PICK x : o = Obj(x) /\ x \in Name /\ x # "env" /\ x \notin ToSet(l.pushed)
  <2>1. CASE Step.op = "raise"
    BY <1>1, <1>3, <2>1 DEF NameRules, ExitRules, Reads
  <2>2. CASE Step.op # "raise"
    <3>1. "error_obj" \in Name /\ "error_obj" # "env"
      BY DEF Name
    <3> QED
      BY <1>1, <1>3, <2>2, <3>1
  <2> QED
    BY <2>1, <2>2
<1>5. Top.id \in Nat \ {0}
  BY <1>1, TopCall, CallTypes
<1>6. o \notin ToSet(safety)
  <2> SUFFICES ASSUME o \in ToSet(safety)
               PROVE  FALSE
    OBVIOUS
  <2>1. PICK n \in DOMAIN safety : safety[n] = Obj(x)
    BY <1>4 DEF ToSet
  <2>2. x \in ToSet(l.pushed)
    BY <1>1, <1>2, <2>1, InBuffer
  <2> QED
    BY <1>4, <2>2
<1> QED
  BY <1>4, <1>5, <1>6 DEF Obj, Ref

LEMMA ThrowRefs ==
  ASSUME IInv, NEW k, NEW d, NEW m, NEW t, NEW o, Throws(k, d, m, t, o),
         NEW m2, m2 = [m EXCEPT !.pc = CatchPc]
  PROVE  /\ errorObj' \in AnyRef
         /\ held' \in SUBSET Ref /\ IsFiniteSet(held') /\ gone' \subseteq gone
         /\ \A x \in gone' : x[1] \in LiveIds(calls')
         /\ OthersKept(k) /\ HeldNow(t, m2)' /\ NothingLost'
<1>1. /\ Types /\ RefInv /\ FrameInv /\ calls # <<>> /\ errorObj = NoObj
      /\ k \in DOMAIN calls /\ d = calls[k] /\ CallIs(k, m)
      /\ gone' = Forget(gone, calls', safety)
      /\ errorObj' = o /\ safety' = safety
      /\ held' = held \/ held' = held \cup {o}
  BY DEF IInv, Throws
<1>2. /\ Unwinds(k, t) /\ t.id = d.id /\ d \in CallType
      /\ m.owns = {} /\ m2.pc = t.pc /\ m2.owns = {} /\ m2.freed = m.freed
  BY ThrowsTo
<1>3. o \in Ref /\ o[1] = Top.id
  BY ErrorNotInBuffer
<1>4. /\ DOMAIN calls' = 1 .. Len(calls) - k + 1 /\ calls'[1] = t /\ 1 \in DOMAIN calls'
      /\ \A j \in k + 1 .. Len(calls) :
           j - k + 1 \in DOMAIN calls' /\ calls'[j - k + 1] = calls[j]
      /\ k \in 1 .. Len(calls) /\ Len(calls) \in Nat /\ DOMAIN calls = 1 .. Len(calls)
  BY <1>1, <1>2, Unwound
<1>5. ASSUME NEW j \in k .. Len(calls)
      PROVE  j \in DOMAIN calls /\ calls[j].id \in LiveIds(calls')
  <2>1. CASE j = k
    BY <1>1, <1>2, <1>4, <2>1 DEF LiveIds
  <2>2. CASE j # k
    <3>1. j \in k + 1 .. Len(calls) /\ j \in DOMAIN calls
      BY <1>4, <2>2
    <3>2. j - k + 1 \in DOMAIN calls' /\ calls'[j - k + 1] = calls[j]
      BY <1>4, <3>1
    <3> QED
      BY <3>1, <3>2 DEF LiveIds
  <2> QED
    BY <2>1, <2>2
<1>6. held' \in SUBSET Ref /\ IsFiniteSet(held')
  <2>1. held \in SUBSET Ref /\ IsFiniteSet(held)
    BY <1>1 DEF Types
  <2>2. IsFiniteSet(held \cup {o})
    BY <2>1, FS_AddElement
  <2> QED
    BY <1>1, <1>3, <2>1, <2>2
<1>7. gone' \subseteq gone
  BY <1>1 DEF Forget
<1>8. ASSUME NEW x \in gone'
      PROVE  x[1] \in LiveIds(calls')
  <2>1. x \in gone /\ (x[1] \in LiveIds(calls') \/ x \in ToSet(safety))
    BY <1>1 DEF Forget
  <2>2. PICK j \in DOMAIN calls : x[1] = calls[j].id
    BY <1>1, <2>1 DEF RefInv, LiveIds
  <2> QED
    BY <1>1, <2>1, <2>2, FreedNotInBuffer
<1>9. ASSUME NEW x, x[1] \in LiveIds(calls')
      PROVE  x \in gone' <=> x \in gone
  BY <1>1, <1>9 DEF Forget
<1>10. OthersKept(k)
  <2> SUFFICES ASSUME NEW j \in k + 1 .. Len(calls), NEW x, x[1] = calls[j].id
               PROVE  /\ x \in held' \ {errorObj'} <=> x \in held \ {errorObj}
                      /\ x \in gone' <=> x \in gone
    BY DEF OthersKept
  <2>1. j \in k .. Len(calls) /\ j # 1 /\ j \in DOMAIN calls
    BY <1>4
  <2>2. x[1] # Top.id /\ x[1] # 0
    <3>1. calls[j].id # calls[1].id /\ Top = calls[1]
      BY <1>1, <1>4, <2>1, TopCall DEF RefInv
    <3>2. calls[j].id \in Nat \ {0}
      BY <1>1, <2>1, CallTypes DEF Types
    <3> QED
      BY <3>1, <3>2
  <2>3. x # o /\ x # NoObj
    BY <1>3, <2>2 DEF NoObj
  <2>4. x \in gone' <=> x \in gone
    BY <1>5, <1>9, <2>1
  <2> QED
    BY <1>1, <2>3, <2>4
<1>11. /\ {x \in held \ {errorObj} : x[1] = d.id} = {d.id} \X m.owns
       /\ {x \in gone : x[1] = d.id} = {d.id} \X m.freed
  BY <1>1 DEF CallIs, HeldNow
<1>12. {x \in held' \ {errorObj'} : x[1] = d.id} = {d.id} \X m2.owns
  <2> SUFFICES ASSUME NEW x \in held' \ {errorObj'}, x[1] = d.id
               PROVE  FALSE
    BY <1>2
  <2>1. x \in held /\ x # NoObj
    <3>1. x \in held
      BY <1>1
    <3>2. x \in Ref
      BY <1>1, <3>1 DEF Types
    <3> QED
      BY <3>1, <3>2 DEF Ref, NoObj
  <2> QED
    BY <1>1, <1>2, <1>11, <2>1
<1>13. {x \in gone' : x[1] = d.id} = {d.id} \X m2.freed
  <2>1. d.id \in LiveIds(calls')
    BY <1>1, <1>4, <1>5
  <2>2. \A x : x[1] = d.id => (x \in gone' <=> x \in gone)
    BY <1>9, <2>1
  <2>3. {x \in gone' : x[1] = d.id} = {x \in gone : x[1] = d.id}
    BY <2>2
  <2> QED
    BY <1>2, <1>11, <2>3
<1>14. HeldNow(t, m2)'
  BY <1>2, <1>12, <1>13 DEF HeldNow
<1>15. NothingLost'
  <2> SUFFICES ASSUME NEW x \in held', x # o
               PROVE  x[1] \in LiveIds(calls') \/ x \in ToSet(safety')
    BY <1>1 DEF NothingLost
  <2>1. x \in held /\ x # NoObj
    <3>1. x \in held
      BY <1>1
    <3>2. x \in Ref
      BY <1>1, <3>1 DEF Types
    <3> QED
      BY <3>1, <3>2 DEF Ref, NoObj
  <2>2. x[1] \in LiveIds(calls) \/ x \in ToSet(safety)
    BY <1>1, <2>1 DEF RefInv, NothingLost
  <2>3. CASE x[1] \in LiveIds(calls)
    <3>1. PICK j \in DOMAIN calls : x[1] = calls[j].id
      BY <2>3 DEF LiveIds
    <3>2. CASE j \in k .. Len(calls)
      BY <1>5, <3>1, <3>2
    <3>3. CASE ~ (j \in k .. Len(calls))
      <4>1. j \in 1 .. k
        BY <1>4, <3>3
      <4> QED
        BY <1>1, <2>1, <3>1, <4>1, OwnedAtThrow
    <3> QED
      BY <3>2, <3>3
  <2> QED
    BY <1>1, <2>2, <2>3
<1>16. errorObj' \in AnyRef
  BY <1>1, <1>3 DEF Ref, AnyRef
<1> QED
  BY <1>6, <1>7, <1>8, <1>10, <1>14, <1>15, <1>16

LEMMA ThrowBuffer ==
  ASSUME IInv, NEW k, NEW d, NEW m, NEW t, NEW o, Throws(k, d, m, t, o),
         NEW m2, m2 = [m EXCEPT !.pc = CatchPc]
  PROVE  PushedNow(t, m2, Len(safety))' /\ EnvNow(t, m2)'
<1>1. /\ Types /\ FrameInv /\ k \in DOMAIN calls /\ d = calls[k] /\ CallIs(k, m)
      /\ env' = env /\ safety' = safety
  BY DEF IInv, Throws
<1>2. /\ d \in CallType /\ t.id = d.id /\ t.from = d.from /\ t.base = d.base
      /\ t.oldEnv = d.oldEnv
      /\ m.pushed = <<>> /\ m2.pushed = <<>> /\ m2.saved = m.saved /\ m2.inEnv = m.inEnv
      /\ MayHoldDead(t)
  BY ThrowsTo
<1>3. PushedNow(d, m, EndOf(k)) /\ EnvNow(d, m)
  BY <1>1 DEF CallIs
<1>4. EnvNow(t, m2)'
  BY <1>1, <1>2, <1>3 DEF EnvNow, Depth
<1>5. d.from[2] \in Nat /\ EndOf(k) \in Nat /\ EndOf(k) <= Len(safety) /\ Len(safety) \in Nat
  BY <1>1, <1>2, CallTypes, EndInBuffer
<1>6. d.from[2] + Len(m.pushed) <= Len(safety)
  <2>1. d.from[2] + Len(m.pushed) <= EndOf(k) /\ Len(m.pushed) = 0
    BY <1>2, <1>3 DEF PushedNow
  <2> QED
    BY <1>5, <2>1
<1>7. /\ \A j \in 1 .. Len(m.pushed) : safety[d.from[2] + j] = <<d.id, m.pushed[j]>>
      /\ \A n \in DOMAIN safety :
           safety[n][1] = d.id => n \in d.from[2] + 1 .. d.from[2] + Len(m.pushed)
      /\ m.saved => d.base = d.from[2]
  BY <1>3 DEF PushedNow
<1>8. MayHoldDead(t)' <=> MayHoldDead(t)
  BY DEF MayHoldDead, Now
<1> QED
  BY <1>1, <1>2, <1>4, <1>6, <1>7, <1>8 DEF PushedNow

LEMMA ThrowKeeps ==
  ASSUME IInv, NEW k, NEW d, NEW m, NEW t, NEW o, Throws(k, d, m, t, o)
  PROVE  IInv'
<1>1. /\ Types /\ FrameInv /\ EnvInv /\ FailInv /\ HandlerInv /\ PendInv
      /\ calls # <<>> /\ MayThrow(Step) /\ k \in DOMAIN calls /\ d = calls[k]
      /\ InJump(d) /\ NoJump(0, k) /\ d.id = pevalFail
      /\ env' = env /\ safety' = safety /\ pevalFail' = pevalFail /\ handler' = handler
      /\ fault' = fault /\ errorObj' = o
  BY DEF IInv, Throws
<1>2. SUFFICES ASSUME NEW m2, m2 = [m EXCEPT !.pc = CatchPc]
               PROVE  IInv'
  OBVIOUS
<1>3. /\ Unwinds(k, t) /\ d \in CallType /\ d.fn = "qz_peval"
      /\ t.fn = d.fn /\ t.pc = CatchPc /\ t.id = d.id /\ t.from = d.from /\ t.fail = d.fail
      /\ m2 \in Locals[t.fn] /\ InJump(t) /\ ~ Around(t) /\ ~ Around(d)
  BY <1>2, ThrowsTo
<1>4. /\ errorObj' \in AnyRef
      /\ held' \in SUBSET Ref /\ IsFiniteSet(held') /\ gone' \subseteq gone
      /\ \A x \in gone' : x[1] \in LiveIds(calls')
      /\ OthersKept(k) /\ HeldNow(t, m2)' /\ NothingLost'
  BY <1>2, ThrowRefs
<1>5. PushedNow(t, m2, Len(safety))' /\ EnvNow(t, m2)'
  BY <1>2, ThrowBuffer
<1>6. \A i \in DOMAIN env : env[i] \in ToSet(safety)
  <2>1. PICK l : TopIs(l)
    BY <1>1, TopIsSome
  <2> QED
    BY <1>1, <2>1, EnvsSafe
<1>7. pevalFail' = t.id /\ t.fail = t.from[3]
  BY <1>1, <1>3 DEF FailInv
<1>8. handler' = t.from[4]
  <2>1. NoHandler(0, k)
    <3> SUFFICES ASSUME NEW j \in 0 + 1 .. k - 1
                 PROVE  ~ Around(calls[j])
      BY DEF NoHandler
    <3>1. j \in 1 .. k
      BY <1>1 DEF Types
    <3> QED
      BY <1>1, <3>1, Dropped
  <2>2. k \in 1 .. Len(calls) + 1 /\ ~ (k > Len(calls))
    BY <1>1 DEF Types
  <2>3. HandlerBelow(k, handler)
    BY <1>1, <2>1, <2>2 DEF HandlerInv
  <2> QED
    BY <1>1, <1>3, <2>2, <2>3 DEF HandlerBelow
<1>9. pevalFail' \in Nat /\ handler' \in AnyRef
  BY <1>1 DEF Types
<1>10. PendInv'
  <2>1. o[2] # "env" /\ o \notin ToSet(safety)
    BY ErrorNotInBuffer
  <2>2. Top' = t /\ calls' # <<>>
    BY <1>1, <1>3, Unwound
  <2> QED
    BY <1>1, <1>3, <2>1, <2>2 DEF PendInv
<1>11. UNCHANGED <<env, safety, fault>>
  BY <1>1
<1>12. /\ InJump(t) => pevalFail' = t.id /\ t.fail = t.from[3]
       /\ ~ InJump(t) => pevalFail' = t.from[3]
       /\ Around(t) => /\ t.saved = t.from[4]
                       /\ t.fn = "qz_peval" => handler' = Failsafe
                       /\ t.fn # "qz_peval" => handler'[1] = t.id /\ handler' \notin gone'
       /\ ~ Around(t) => handler' = t.from[4]
  BY <1>3, <1>7, <1>8
<1> QED
  BY ONLY IInv, <1>3, <1>4, <1>5, <1>6, <1>9, <1>10, <1>11, <1>12, UnwindKeeps

LEMMA EvalFailsKeeps ==
  ASSUME IInv, EvalFails
  PROVE  IInv'
<1>1. calls # <<>> /\ MayThrow(Step) /\ Step.op # "raise" /\ Throw
  BY DEF EvalFails, Does, Running, MayThrow
<1>2. PICK k, d, m, t : Throws(k, d, m, t, Obj("error_obj"))
  BY <1>1, Thrown DEF Throw
<1> QED
  BY <1>2, ThrowKeeps

LEMMA FailsKeeps ==
  ASSUME IInv, Fails
  PROVE  IInv'
<1>1. calls # <<>> /\ MayThrow(Step) /\ Step.op # "raise" /\ Throw
  BY DEF Fails, Does, Running, MayThrow
<1>2. PICK k, d, m, t : Throws(k, d, m, t, Obj("error_obj"))
  BY <1>1, Thrown DEF Throw
<1> QED
  BY <1>2, ThrowKeeps

LEMMA RaisesKeeps ==
  ASSUME IInv, Raises
  PROVE  IInv'
<1>1. calls # <<>> /\ MayThrow(Step) /\ Step.op = "raise" /\ ThrowWith(Obj(Step.var), held)
  BY DEF Raises, Does, Running, MayThrow
<1>2. PICK k, d, m, t : Throws(k, d, m, t, Obj(Step.var))
  BY <1>1, Thrown
<1> QED
  BY <1>2, ThrowKeeps

(***************************************************************************)
(* Going wrong.                                                            *)
(***************************************************************************)
LEMMA NotReleased ==
  ASSUME Types, calls # <<>>, NEW l, TopIs(l), NEW x, x \notin l.freed
  PROVE  Obj(x) \notin gone
<1> SUFFICES ASSUME Obj(x) \in gone
             PROVE  FALSE
  OBVIOUS
<1>1. Obj(x) \in {o \in gone : o[1] = Top.id}
  BY DEF Obj
<1>2. Obj(x) \in {Top.id} \X l.freed
  BY <1>1 DEF TopIs, HeldNow
<1> QED
  BY <1>2 DEF Obj

(* The only thing that goes wrong is that the safety buffer is full.       *)
LEMMA OnlyOverflows ==
  ASSUME IInv, calls # <<>>
  PROVE  FaultOf(Step) \in {"none", "overflow"}
<1>1. /\ Types /\ RefInv /\ FrameInv /\ EnvInv /\ PendInv
  BY DEF IInv
<1>2. PICK l : TopIs(l)
  BY <1>1, TopIsSome
<1>3. /\ NameRules(l, Step) /\ ExitRules(Top.fn, l, Step) /\ StateRules(Top.fn, l, Step)
      /\ l.freed \cap (l.owns \cup ToSet(l.pushed)) = {}
      /\ l.inEnv <=> "env" \in l.owns
      /\ Len(l.pushed) \in Nat
  BY <1>1, <1>2, TopRules DEF TopIs
<1>4. Len(safety) \in Nat /\ Top.from[2] \in Nat
  BY <1>1, TopCall, CallTypes DEF Types
<1>5. ~ (Step.op = "pop" /\ Len(safety) < Step.n)
  <2> SUFFICES ASSUME Step.op = "pop"
               PROVE  ~ (Len(safety) < Step.n)
    OBVIOUS
  <2>1. Step.n \in 0 .. Len(l.pushed)
    BY <1>3 DEF NameRules
  <2>2. Len(safety) = Top.from[2] + Len(l.pushed)
    BY <1>1, <1>2, PushedOnTop
  <2> QED
    BY <1>3, <1>4, <2>1, <2>2
<1>6. ~ (Step.op = "cleanup" /\ Len(safety) < Top.base)
  <2> SUFFICES ASSUME Step.op = "cleanup"
               PROVE  ~ (Len(safety) < Top.base)
    OBVIOUS
  <2>1. Top.base = Top.from[2] /\ Top.from[2] + Len(l.pushed) <= Len(safety)
    BY <1>2, <1>3 DEF StateRules, TopIs, PushedNow
  <2> QED
    BY <1>3, <1>4, <2>1
<1>7. ~ (Step.op = "cleanup" /\ Len(safety) > Top.base /\ Last(safety) \in gone)
  <2> SUFFICES ASSUME Step.op = "cleanup", Len(safety) > Top.base
               PROVE  Last(safety) \notin gone
    OBVIOUS
  <2>1. SUFFICES ASSUME NEW o, o = Last(safety)
                 PROVE  o \notin gone
    OBVIOUS
  <2>2. o[1] \notin LiveIds(calls)
    BY <1>1, <1>2, <2>1, CleanupTop
  <2> QED
    BY <1>1, <2>2 DEF RefInv
<1>8. ~ (Step.op \in {"unref", "give", "return", "raise"} /\ Obj(Step.var) \in gone)
  BY <1>1, <1>2, <1>3, NotReleased DEF NameRules, Reads
<1>9. ~ (Step.op = "use" /\ Obj(Step.var) \in gone)
  BY <1>1, <1>2, <1>3, NotReleased DEF NameRules, Reads
<1>10. ~ (Step.op \in {"make", "push_env"} /\ Objs(Step.from) \cap gone # {})
  <2> SUFFICES ASSUME Step.op \in {"make", "push_env"}, NEW x \in Step.from, Obj(x) \in gone
               PROVE  FALSE
    BY DEF Objs
  <2>1. x \notin l.freed
    BY <1>3 DEF NameRules
  <2> QED
    BY <1>1, <1>2, <2>1, NotReleased
<1>11. ~ (Step.op = "pop_env" /\ (env = <<>> \/ Head(env) \in gone))
  <2> SUFFICES ASSUME Step.op = "pop_env"
               PROVE  env # <<>> /\ Head(env) \notin gone
    OBVIOUS
  <2>1. l.inEnv /\ "env" \notin l.freed
    BY <1>3 DEF StateRules
  <2>2. Len(safety) = Top.from[2] + Len(l.pushed)
    BY <1>1, <1>2, PushedOnTop
  <2>3. env # <<>> /\ Head(env) = Obj("env")
    BY <1>1, <1>2, <2>1, <2>2, EnvOfTop DEF TopIs
  <2> QED
    BY <1>1, <1>2, <2>1, <2>3, NotReleased
<1>12. ~ (Step.op \in {"eval", "call", "cfun", "make"} /\ Overwrites(Step.var))
  <2> SUFFICES ASSUME Step.op \in {"eval", "call", "cfun", "make"}
               PROVE  ~ Overwrites(Step.var)
    OBVIOUS
  <2>1. Step.var \notin l.owns /\ Step.var \notin ToSet(l.pushed)
    BY <1>3 DEF NameRules, Assigns
  <2>2. errorObj = NoObj
    BY <1>1, <1>2, NothingPends
  <2>3. Obj(Step.var) # NoObj
    <3>1. Top.id \in Nat \ {0}
      BY <1>1, TopCall, CallTypes
    <3> QED
      BY <3>1 DEF Obj, NoObj
  <2>4. Obj(Step.var) \notin held
    <3> SUFFICES ASSUME Obj(Step.var) \in held
                 PROVE  FALSE
      OBVIOUS
    <3>1. Obj(Step.var) \in {o \in held \ {errorObj} : o[1] = Top.id}
      BY <2>2, <2>3 DEF Obj
    <3>2. Obj(Step.var) \in {Top.id} \X l.owns
      BY <1>2, <3>1 DEF TopIs, HeldNow
    <3> QED
      BY <2>1, <3>2 DEF Obj
  <2>5. Obj(Step.var) \notin ToSet(safety)
    <3> SUFFICES ASSUME Obj(Step.var) \in ToSet(safety)
                 PROVE  FALSE
      OBVIOUS
    <3>1. PICK n \in DOMAIN safety : safety[n] = Obj(Step.var)
      BY DEF ToSet
    <3> QED
      BY <1>1, <1>2, <2>1, <3>1, InBuffer
  <2> QED
    BY <2>4, <2>5 DEF Overwrites
<1>13. ~ (Step.op \in {"error", "eval_none", "raise"} /\ JumpsWild)
  <2> SUFFICES ASSUME Step.op \in {"error", "eval_none", "raise"}
               PROVE  ~ JumpsWild
    OBVIOUS
  <2>1. MayThrow(Step)
    BY DEF MayThrow
  <2>2. PICK k \in DOMAIN calls : calls[k].id = pevalFail
    BY <2>1, InnermostJump
  <2> QED
    BY <2>2 DEF JumpsWild, LiveIds
<1>14. CASE Step.op = "push" /\ SafetyFull(Len(safety))
  <2>1. Step.op \notin {"pop", "cleanup", "unref", "give", "return", "raise", "use", "make",
                        "push_env", "pop_env", "eval", "call", "cfun", "error", "eval_none"}
    BY <1>14
  <2> QED
    BY ONLY <1>14, <2>1 DEF FaultOf
<1>15. CASE ~ (Step.op = "push" /\ SafetyFull(Len(safety)))
  BY ONLY <1>5, <1>6, <1>7, <1>8, <1>9, <1>10, <1>11, <1>12, <1>13, <1>15 DEF FaultOf
<1> QED
  BY <1>14, <1>15

LEMMA StandsStill ==
  ASSUME IInv,
         UNCHANGED <<calls, env, safety, held, gone, pevalFail, handler, errorObj>>,
         fault' \in {"none", "overflow"}
  PROVE  IInv'
<1>1. Types /\ RefInv /\ FrameInv /\ EnvInv /\ FailInv /\ HandlerInv /\ WaitInv /\ PendInv
  BY DEF IInv
<1>2. /\ calls' = calls /\ env' = env /\ safety' = safety /\ held' = held /\ gone' = gone
      /\ pevalFail' = pevalFail /\ handler' = handler /\ errorObj' = errorObj
  OBVIOUS
<1>3. Types'
  BY <1>1, <1>2 DEF Types
<1>4. RefInv'
  BY <1>1, <1>2 DEF RefInv, NothingLost
<1>5. FrameInv'
  <2>1. ASSUME NEW k \in DOMAIN calls, NEW d, d = calls[k], NEW e, e = EndOf(k)
        PROVE  e = EndOf(k)' /\ \E l \in Locals[d.fn] :
                 HeldNow(d, l)' /\ PushedNow(d, l, e)' /\ EnvNow(d, l)'
    <3>1. PICK l \in Locals[d.fn] :
            HeldNow(d, l) /\ PushedNow(d, l, e) /\ EnvNow(d, l)
      BY <1>1, <2>1 DEF FrameInv
    <3>2. HeldNow(d, l)'
      BY <1>2, <3>1 DEF HeldNow
    <3>3. PushedNow(d, l, e)'
      BY <1>2, <3>1 DEF PushedNow
    <3>4. EnvNow(d, l)'
      BY <1>2, <3>1 DEF EnvNow, Depth
    <3>5. e = EndOf(k)'
      BY <1>2, <2>1 DEF EndOf
    <3> QED
      BY <3>1, <3>2, <3>3, <3>4, <3>5
  <2>2. ASSUME NEW k \in DOMAIN calls', NEW d, d = calls'[k], NEW e, e = EndOf(k)'
        PROVE  \E l \in Locals[d.fn] :
                 HeldNow(d, l)' /\ PushedNow(d, l, e)' /\ EnvNow(d, l)'
    <3>1. k \in DOMAIN calls /\ d = calls[k]
      BY <1>2, <2>2
    <3> QED
      BY <2>1, <2>2, <3>1
  <2>3. \A j, k \in DOMAIN calls' : j < k => calls'[k].from[2] <= calls'[j].from[2]
    BY <1>1, <1>2 DEF FrameInv
  <2> QED
    BY <2>2, <2>3 DEF FrameInv
<1>6. EnvInv'
  <2>1. Obj("env")' = Obj("env")
    BY <1>2 DEF Obj, Top
  <2> QED
    BY <1>1, <1>2, <2>1 DEF EnvInv
<1>7. FailInv'
  BY <1>1, <1>2 DEF FailInv, NoJump, FailBelow
<1>8. HandlerInv'
  BY <1>1, <1>2 DEF HandlerInv, NoHandler, HandlerBelow
<1>9. WaitInv'
  BY <1>1, <1>2 DEF WaitInv, Waits, Now
<1>10. PendInv'
  BY <1>1, <1>2 DEF PendInv, Top
<1> QED
  BY <1>3, <1>4, <1>5, <1>6, <1>7, <1>8, <1>9, <1>10 DEF IInv

LEMMA GoWrongKeeps ==
  ASSUME IInv, GoWrong
  PROVE  IInv'
<1>1. calls # <<>> /\ fault' = FaultOf(Step)
  BY DEF GoWrong, Running
<1>2. fault' \in {"none", "overflow"}
  BY <1>1, OnlyOverflows
<1> QED
  BY <1>2, StandsStill DEF GoWrong

(***************************************************************************)
(* The inductive invariant.                                                *)
(***************************************************************************)
LEMMA Initially ==
  ASSUME Init
  PROVE  IInv /\ ErrorKept
<1>1. /\ calls = <<>> /\ env = <<>> /\ safety = <<>> /\ held = {} /\ gone = {}
      /\ pevalFail = 0 /\ handler = <<0, "none">> /\ errorObj = NoObj /\ NoObj = <<0, "none">>
      /\ fault = "none"
  BY DEF Init, NoCall, NoObj
<1>2. <<0, "none">> \in AnyRef
  BY DEF AnyRef, Name
<1>3. Len(calls) = 0 /\ DOMAIN calls = {} /\ DOMAIN env = {} /\ DOMAIN safety = {}
      /\ Len(safety) = 0
  BY <1>1
<1>4. Types
  BY <1>1, <1>2, <1>3, FS_EmptySet, InterpreterAssumption DEF Types
<1>5. RefInv
  BY <1>1, <1>3 DEF RefInv, NothingLost
<1>6. FrameInv
  BY <1>3 DEF FrameInv
<1>7. EnvInv
  BY <1>3 DEF EnvInv
<1>8. FailInv
  BY <1>1, <1>3 DEF FailInv, FailBelow, NoCall
<1>9. HandlerInv
  BY <1>1, <1>3 DEF HandlerInv, HandlerBelow
<1>10. WaitInv
  BY <1>1, <1>3 DEF WaitInv
<1>11. PendInv /\ ErrorKept
  BY <1>1 DEF PendInv, ErrorKept
<1> QED
  BY <1>4, <1>5, <1>6, <1>7, <1>8, <1>9, <1>10, <1>11 DEF IInv

LEMMA NextKeeps ==
  ASSUME IInv, [Next]_vars
  PROVE  IInv'
<1>1. CASE CallStep
  BY <1>1, TopLevelKeeps, EvalAtomKeeps, EvalFailsKeeps, EvalPairKeeps, CallFunctionKeeps,
     CallLibraryKeeps, ReturnKeeps, FailsKeeps, RaisesKeeps DEF CallStep
<1>2. CASE LocalStep
  BY <1>2, GotoKeeps, CheckKeeps, MakeKeeps, ImmediateKeeps, ReleaseKeeps, PushKeeps,
     PopKeeps, SaveSizeKeeps, CleanupKeeps, CleanupReturnsKeeps, PushEnvKeeps, PopEnvKeeps,
     InstallKeeps, RestoreKeeps, SetJumpKeeps, ResetJumpKeeps, SkipKeeps, HandlerCallKeeps
  DEF LocalStep
<1>3. CASE GoWrong
  BY <1>3, GoWrongKeeps
<1>4. CASE UNCHANGED vars
  <2>1. fault \in {"none", "overflow"}
    BY DEF IInv, Types
  <2> QED
    BY <1>4, <2>1, StandsStill DEF vars
<1> QED
  BY <1>1, <1>2, <1>3, <1>4 DEF Next

\* a step with no error pending, before it or after it
LEMMA NonePends ==
  ASSUME IInv, IInv', errorObj' = errorObj, calls # <<>>,
         Step.op \notin {"setjmp", "if_handler", "handler_call", "cleanup", "reset_jmp",
                         "return"}
  PROVE  ErrorKept'
<1>1. Types /\ FrameInv /\ PendInv /\ Types'
  BY DEF IInv
<1>2. PICK l : TopIs(l)
  BY <1>1, TopIsSome
<1>3. errorObj' = NoObj
  BY <1>1, <1>2, NothingPends
<1>4. NoObj \notin Ref
  BY DEF NoObj, Ref
<1> QED
  BY <1>1, <1>3, <1>4 DEF ErrorKept, Types

LEMMA ThrowKept ==
  ASSUME IInv, NEW k, NEW d, NEW m, NEW t, NEW o, Throws(k, d, m, t, o)
  PROVE  ErrorKept'
<1>1. /\ Types /\ FrameInv /\ calls # <<>> /\ MayThrow(Step) /\ errorObj' = o
      /\ gone' = Forget(gone, calls', safety)
      /\ \/ o = Obj("error_obj") /\ Step.op # "raise"
         \/ o = Obj(Step.var) /\ Step.op = "raise"
  BY DEF IInv, Throws
<1>2. PICK l : TopIs(l)
  BY <1>1, TopIsSome
<1>3. NameRules(l, Step) /\ "error_obj" \notin l.freed
  BY <1>1, <1>2, TopRules DEF TopIs
<1>4. o \notin gone
  BY <1>1, <1>2, <1>3, NotReleased DEF NameRules, Reads
<1> QED
  BY <1>1, <1>4 DEF ErrorKept, Forget

LEMMA CleanupKept ==
  ASSUME IInv, ErrorKept, cleanup_safety_buffer
  PROVE  ErrorKept'
<1>1. /\ Types /\ PendInv /\ errorObj' = errorObj /\ Len(safety) > Top.base
      /\ gone' = Forget(gone \cup (held \cap {Last(safety)}), calls, safety')
      /\ calls # <<>>
  BY DEF IInv, cleanup_safety_buffer, Does, Running
<1>2. Last(safety) \in ToSet(safety) /\ Last(safety) \in Ref
  <2>1. safety \in Seq(Ref) /\ Len(safety) \in Nat /\ Top.base \in Nat
    BY <1>1, TopCall, CallTypes DEF Types
  <2>2. Len(safety) \in DOMAIN safety
    BY <1>1, <2>1
  <2> QED
    BY <2>1, <2>2 DEF Last, ToSet
<1>3. errorObj # Last(safety)
  <2>1. NoObj \notin Ref
    BY DEF NoObj, Ref
  <2> QED
    BY <1>1, <1>2, <2>1 DEF PendInv
<1> QED
  BY <1>1, <1>3 DEF ErrorKept, Forget

LEMMA ErrorStaysKept ==
  ASSUME IInv, ErrorKept, [Next]_vars
  PROVE  ErrorKept'
<1>1. IInv'
  BY NextKeeps
<1>2. CASE gone' \subseteq gone /\ errorObj' = errorObj
  BY <1>2 DEF ErrorKept
<1>3. CASE errorObj' = NoObj
  <2>1. NoObj \notin Ref
    BY DEF NoObj, Ref
  <2> QED
    BY <1>1, <1>3, <2>1 DEF ErrorKept, IInv, Types
<1>4. CASE TopLevel \/ ReturnFromCall \/ CleanupReturns \/ SkipIfNoHandler \/ ResetJump
           \/ GoWrong \/ UNCHANGED vars
  BY <1>2, <1>4 DEF TopLevel, ReturnFromCall, Forget, CleanupReturns, SkipIfNoHandler,
                    ResetJump, GoWrong, vars
<1>5. CASE SetJump \/ MakeHandlerCall
  BY <1>3, <1>5 DEF SetJump, MakeHandlerCall, ErrorAfterHandlerCall
<1>6. CASE EvalFails \/ Fails
  <2>1. calls # <<>> /\ MayThrow(Step) /\ Step.op # "raise" /\ Throw
    BY <1>6 DEF EvalFails, Fails, Does, Running, MayThrow
  <2>2. PICK k, d, m, t : Throws(k, d, m, t, Obj("error_obj"))
    BY <2>1, Thrown DEF Throw
  <2> QED
    BY <2>2, ThrowKept
<1>7. CASE Raises
  <2>1. calls # <<>> /\ MayThrow(Step) /\ Step.op = "raise" /\ ThrowWith(Obj(Step.var), held)
    BY <1>7 DEF Raises, Does, Running, MayThrow
  <2>2. PICK k, d, m, t : Throws(k, d, m, t, Obj(Step.var))
    BY <2>1, Thrown
  <2> QED
    BY <2>2, ThrowKept
<1>8. CASE cleanup_safety_buffer
  BY <1>8, CleanupKept
<1>9. CASE EvalAtom \/ EvalPair \/ CallFunction \/ CallLibrary
  BY <1>1, <1>9, NonePends DEF EvalAtom, EvalPair, CallFunction, CallLibrary, Does, Running
<1>10. CASE Goto \/ CheckPasses \/ MakeReference \/ UseReference \/ FindImmediate \/ Release
  BY <1>1, <1>10, NonePends
  DEF Goto, CheckPasses, MakeReference, UseReference, FindImmediate, Release, Does, Running
<1>11. CASE qz_push_safety \/ qz_pop_safety \/ SaveSafetySize \/ PushEnvironment
            \/ PopEnvironment \/ InstallHandler
  BY <1>1, <1>11, NonePends
  DEF qz_push_safety, qz_pop_safety, SaveSafetySize, PushEnvironment, PopEnvironment,
      InstallHandler, Does, Running
<1>12. CASE RestoreHandler
  BY <1>1, <1>12, NonePends DEF RestoreHandler, Does, Running
<1> QED
  BY <1>4, <1>5, <1>6, <1>7, <1>8, <1>9, <1>10, <1>11, <1>12 DEF Next, CallStep, LocalStep

\* Every call is in a state that its function reaches by itself, and what the
\* calls share, the environment, the safety buffer, st->peval_fail and
\* st->error_handler, is what they have made of it (quuz-state.c:15-30, :94-250,
\* :324-334).
THEOREM Invariance == Spec => [](IInv /\ ErrorKept)
<1>1. Init => IInv /\ ErrorKept
  BY Initially
<1>2. IInv /\ ErrorKept /\ [Next]_vars => (IInv /\ ErrorKept)'
  BY NextKeeps, ErrorStaysKept
<1> QED
  BY <1>1, <1>2, PTL DEF Spec

(***************************************************************************)
(* What follows from it.                                                   *)
(***************************************************************************)
LEMMA InvTypes ==
  ASSUME IInv, ErrorKept
  PROVE  TypeOK
<1>1. Types /\ RefInv /\ FrameInv
  BY DEF IInv
<1>2. ASSUME NEW k \in DOMAIN calls, NEW c, c = calls[k]
      PROVE  /\ c.fn \in DOMAIN Script /\ c.pc \in DOMAIN Script[c.fn]
             /\ c.base \in 0 .. Capacity
             /\ \A j \in DOMAIN calls : j # k => calls[j].id # c.id
  <2>1. PICK l : CallIs(k, l)
    BY <1>1, CallIsSome
  <2>2. c \in CallType /\ c.fn \in Known /\ l \in Locals[c.fn] /\ l.pc = c.pc
    BY <1>1, <1>2, <2>1, CallRules
  <2>3. c.pc \in DOMAIN Script[c.fn]
    BY <2>2, Rules DEF KeepsRules
  <2>4. c.fn \in DOMAIN Script
    <3>1. /\ "qz_eval" \in DOMAIN Script /\ "call_function" \in DOMAIN Script
          /\ "qz_peval" \in DOMAIN Script
      BY DEF Script
    <3> QED
      BY <2>2, <3>1, InterpreterAssumption DEF Known, Evaluator
  <2>5. c.base \in 0 .. Capacity
    BY <2>2, CallTypes
  <2>6. \A j \in DOMAIN calls : j # k => calls[j].id # c.id
    BY <1>1, <1>2 DEF RefInv
  <2> QED
    BY <2>3, <2>4, <2>5, <2>6
<1>3. \A o \in AnyRef : IsObj(o)
  BY DEF IsObj, AnyRef
<1>4. Ref \subseteq AnyRef
  BY DEF Ref, AnyRef
<1>5. ToSet(safety) \subseteq Ref /\ ToSet(env) \subseteq Ref
  BY <1>1 DEF Types, ToSet
<1>6. \A o \in held \cup gone \cup ToSet(safety) \cup ToSet(env) : IsObj(o)
  BY <1>1, <1>3, <1>4, <1>5 DEF Types
<1>7. held \cap gone = {}
  <2> SUFFICES ASSUME NEW o \in held, o \in gone
               PROVE  FALSE
    OBVIOUS
  <2>1. o # errorObj
    BY DEF ErrorKept
  <2>2. PICK k \in DOMAIN calls : o[1] = calls[k].id
    BY <1>1 DEF RefInv, LiveIds
  <2>3. PICK l : CallIs(k, l)
    BY <1>1, CallIsSome
  <2>4. l.freed \cap (l.owns \cup ToSet(l.pushed)) = {}
    BY <1>1, <2>3, CallRules
  <2>5. o \in {calls[k].id} \X l.owns /\ o \in {calls[k].id} \X l.freed
    BY <2>1, <2>2, <2>3 DEF CallIs, HeldNow
  <2> QED
    BY <2>4, <2>5
<1>8. /\ Len(safety) <= Capacity /\ pevalFail \in Nat
      /\ IsObj(handler) /\ IsObj(errorObj)
      /\ fault \in {"none", "overflow", "assert", "released_twice", "used_after_release",
                    "lost", "wild_jump"}
  BY <1>1, <1>3 DEF Types
<1> QED
  BY <1>2, <1>6, <1>7, <1>8 DEF TypeOK

LEMMA InvInnermost ==
  ASSUME IInv
  PROVE  ErrorsGoToInnermost
<1>1. Types /\ FailInv /\ DOMAIN calls = 1 .. Len(calls) /\ Len(calls) \in Nat
  BY DEF IInv, Types
<1>2. SUFFICES ASSUME NEW open, open = {k \in DOMAIN calls : InJump(calls[k])}
               PROVE  IF open = {} THEN pevalFail = NoCall
                      ELSE pevalFail = calls[CHOOSE k \in open : \A j \in open : k <= j].id
  BY DEF ErrorsGoToInnermost
<1>3. CASE open = {}
  <2>1. NoJump(0, Len(calls) + 1) /\ Len(calls) + 1 > Len(calls)
    BY <1>1, <1>2, <1>3 DEF NoJump
  <2>2. pevalFail = FailBelow(Len(calls) + 1)
    BY <1>1, <2>1 DEF FailInv
  <2> QED
    BY <1>3, <2>1, <2>2 DEF FailBelow
<1>4. CASE open # {}
  <2>1. open \in SUBSET Nat
    BY <1>1, <1>2
  <2>2. \E k \in open : \A j \in open : k <= j
    BY <1>4, <2>1, LeastCall
  <2>3. SUFFICES ASSUME NEW k \in open, \A j \in open : k <= j
                 PROVE  pevalFail = calls[k].id
    BY <1>4, <2>2
  <2>4. NoJump(0, k) /\ k \in 1 .. Len(calls) + 1 /\ ~ (k > Len(calls)) /\ InJump(calls[k])
    BY <1>1, <1>2, <2>3 DEF NoJump
  <2> QED
    BY <1>1, <2>4 DEF FailInv, FailBelow
<1> QED
  BY <1>3, <1>4

LEMMA InvPending ==
  ASSUME IInv
  PROVE  PendingError
<1> SUFFICES ASSUME errorObj # NoObj
             PROVE  \/ calls = <<>> /\ handler = NoObj
                    \/ /\ calls # <<>>
                       /\ Top.fn = "qz_peval"
                       /\ Top.pc = 1 \/ Top.pc >= CatchPc
                       /\ Top.pc > CatchPc + 1 => handler = NoObj
  BY DEF PendingError
<1>1. Types /\ HandlerInv /\ PendInv
  BY DEF IInv
<1>2. CASE calls = <<>>
  <2>1. Len(calls) = 0 /\ 1 \in 1 .. Len(calls) + 1 /\ NoHandler(0, 1)
    BY <1>2 DEF NoHandler
  <2>2. HandlerBelow(1, handler)
    BY <1>1, <2>1 DEF HandlerInv
  <2> QED
    BY <1>2, <2>1, <2>2 DEF HandlerBelow
<1>3. CASE calls # <<>>
  <2>1. Top.fn = "qz_peval"
    BY <1>1, <1>3 DEF PendInv
  <2>2. \/ Top.pc = 1 \/ Top.pc \in {4, 5} \/ (Top.pc >= 9 /\ handler = NoObj)
    BY <1>1, <1>3 DEF PendInv, CatchPc
  <2>3. Top.pc \in Int
    BY <1>1, <1>3, TopCall, CallTypes
  <2> QED
    BY <1>3, <2>1, <2>2, <2>3 DEF CatchPc
<1> QED
  BY <1>2, <1>3

LEMMA InvHandler ==
  ASSUME IInv
  PROVE  HandlerOwned
<1>1. Types /\ HandlerInv /\ DOMAIN calls = 1 .. Len(calls) /\ Len(calls) \in Nat
  BY DEF IInv, Types
<1>2. SUFFICES ASSUME NEW A, A = {k \in DOMAIN calls : Around(calls[k])}
               PROVE  HandlerOwned
  OBVIOUS
<1>3. CASE A = {}
  <2>1. NoHandler(0, Len(calls) + 1) /\ Len(calls) + 1 > Len(calls)
    BY <1>1, <1>2, <1>3 DEF NoHandler
  <2>2. HandlerBelow(Len(calls) + 1, handler)
    BY <1>1, <2>1 DEF HandlerInv
  <2> QED
    BY <2>1, <2>2 DEF HandlerBelow, HandlerOwned
<1>4. CASE A # {}
  <2>1. A \in SUBSET Nat
    BY <1>1, <1>2
  <2>2. PICK k \in A : \A j \in A : k <= j
    BY <1>4, <2>1, LeastCall
  <2>3. NoHandler(0, k) /\ k \in 1 .. Len(calls) + 1 /\ ~ (k > Len(calls))
        /\ Around(calls[k]) /\ k \in DOMAIN calls
    BY <1>1, <1>2, <2>2 DEF NoHandler
  <2>4. HandlerBelow(k, handler)
    BY <1>1, <2>3 DEF HandlerInv
  <2> QED
    BY <2>3, <2>4 DEF HandlerBelow, HandlerOwned, LiveIds
<1> QED
  BY <1>3, <1>4

(* A call of the evaluator returns what it has found.                      *)
LEMMA FoundAgain ==
  ASSUME IInv, calls # <<>>, Step.op = "return",
         Top.fn \in {"qz_eval", "qz_peval", "call_function"}
  PROVE  Surroundings = Top.from
<1>1. Types /\ FrameInv /\ EnvInv /\ PendInv
  BY DEF IInv
<1>2. PICK l : TopIs(l)
  BY <1>1, TopIsSome
<1>3. ~ MayHoldDead(Top) /\ pevalFail = Top.from[3] /\ handler = Top.from[4]
  BY <1>2, ReturnsClean
<1>4. /\ l.pushed = <<>> /\ Len(l.pushed) = 0
      /\ "env" \notin l.owns /\ ~ l.inEnv
  <2>1. /\ NameRules(l, Step) /\ ExitRules(Top.fn, l, Step)
        /\ l.inEnv <=> "env" \in l.owns
    BY <1>1, <1>2, TopRules DEF TopIs
  <2>2. l.pushed = <<>>
    BY <2>1 DEF ExitRules, Evaluator
  <2>3. Step.var # "env"
    BY <2>1 DEF NameRules, Reads
  <2>4. "env" \notin l.owns
    BY <2>1, <2>2, <2>3 DEF ExitRules, ToSet
  <2> QED
    BY <2>1, <2>2, <2>4
<1>5. Top.from[2] = Len(safety) /\ Top.from[2] \in Nat
  <2>1. Top.from[2] + Len(l.pushed) = Len(safety)
    BY <1>2, <1>3 DEF TopIs, PushedNow
  <2>2. Top.from[2] \in Nat
    BY <1>1, TopCall, CallTypes
  <2> QED
    BY <1>4, <2>1, <2>2
<1>6. Top.from[1] = env
  <2>1. Len(safety) = Top.from[2] + Len(l.pushed)
    BY <1>4, <1>5
  <2> QED
    BY <1>1, <1>2, <1>4, <2>1, EnvOfTop DEF TopIs
<1>7. Top.from \in Seq(Ref) \X Nat \X Nat \X AnyRef
  <2>1. Top \in CallType
    BY <1>1, TopCall
  <2> QED
    BY <2>1 DEF CallType
<1>8. Top.from = <<Top.from[1], Top.from[2], Top.from[3], Top.from[4]>>
  BY <1>7
<1> QED
  BY <1>3, <1>5, <1>6, <1>8 DEF Surroundings

\* what the return of a call leaves
ReturnStep ==
  Does("return") /\ Top.fn \in {"qz_eval", "qz_peval", "call_function"}
    => Surroundings' = Top.from

LEMMA InvReturns ==
  ASSUME IInv, [Next]_vars
  PROVE  [ReturnStep]_vars
<1> SUFFICES ASSUME Next, Does("return"),
                    Top.fn \in {"qz_eval", "qz_peval", "call_function"}
             PROVE  Surroundings' = Top.from
  BY DEF ReturnStep
<1>1. calls # <<>> /\ Step.op = "return" /\ FaultOf(Step) = "none"
  BY DEF Does, Running
<1>2. ~ GoWrong
  BY <1>1 DEF GoWrong
<1>3. ~ LocalStep
  BY <1>1 DEF LocalStep, Goto, CheckPasses, MakeReference, UseReference, FindImmediate,
     Release, qz_push_safety, qz_pop_safety, SaveSafetySize, cleanup_safety_buffer,
     CleanupReturns, PushEnvironment, PopEnvironment, InstallHandler, RestoreHandler, SetJump,
     ResetJump, SkipIfNoHandler, MakeHandlerCall, Does
<1>4. ReturnFromCall
  BY <1>1, <1>2, <1>3 DEF Next, CallStep, TopLevel, EvalAtom, EvalFails, EvalPair,
     CallFunction, CallLibrary, Fails, Raises, Does
<1>5. Surroundings' = Surroundings
  BY <1>4 DEF ReturnFromCall, Surroundings
<1> QED
  BY <1>1, <1>5, FoundAgain

\* Each call of the C stack is at a step of its function, the safety buffer is
\* within its capacity, and no reference is both owned and released
\* (quuz-state.c:324-334).
THEOREM TypeCorrect == Spec => []TypeOK
<1>1. IInv /\ ErrorKept => TypeOK
  BY InvTypes
<1> QED
  BY Invariance, <1>1, PTL

\* For functions that keep the rules of Ownership, the one thing that can go wrong
\* is that the safety buffer is full: the other assertions on it hold
\* (quuz-state.c:17, :332), no reference that a local owns is released twice, used
\* after its release or overwritten, and no longjmp goes to a call that has
\* returned.  References that are stored, in cells or in the port and variable slots
\* of the state, are no part of this; with_file and scm_set_b depend on them and
\* do not keep the rules.
THEOREM GoesRight == Spec => []NoFault
<1>1. IInv /\ ErrorKept => NoFault
  BY DEF IInv, Types, NoFault
<1> QED
  BY Invariance, <1>1, PTL

\* For functions that keep the rules of Ownership, errors leak nothing that was in
\* the locals of the calls they skip, however many: what is owned belongs to a
\* running call, or is in the safety buffer or the error object
\* (quuz-state.c:15-30, :103-138).  What becomes of references that were stored
\* is no part of this.
THEOREM ErrorsLeakNothing == Spec => []NothingLost
<1>1. IInv /\ ErrorKept => NothingLost
  BY DEF IInv, RefInv
<1> QED
  BY Invariance, <1>1, PTL

\* st->peval_fail is the innermost call of qz_peval that is past its setjmp and
\* has not returned (quuz-state.c:97-99, :113-141).
THEOREM InnermostCatches == Spec => []ErrorsGoToInnermost
<1>1. IInv /\ ErrorKept => ErrorsGoToInnermost
  BY InvInnermost
<1> QED
  BY Invariance, <1>1, PTL

\* st->error_obj holds an error only while qz_peval handles it, or if there was
\* no handler (quuz-state.c:103-105, :118-134).
THEOREM OneErrorPending == Spec => []PendingError
<1>1. IInv /\ ErrorKept => PendingError
  BY InvPending
<1> QED
  BY Invariance, <1>1, PTL

\* st->error_handler is a value that a running call owns, or the failsafe
\* (quuz-lib.c:2228-2240, quuz-state.c:120-134).
THEOREM HandlerStays == Spec => []HandlerOwned
<1>1. IInv /\ ErrorKept => HandlerOwned
  BY InvHandler
<1> QED
  BY Invariance, <1>1, PTL

\* The evaluator returns the environment, the safety buffer, the longjmp target
\* and the handler as it found them (quuz-state.c:94-250).
THEOREM FoundAsLeft == Spec => LeavesAsFound
<1>1. IInv /\ ErrorKept /\ [Next]_vars => [ReturnStep]_vars
  BY InvReturns
<1>2. Spec => [][ReturnStep]_vars
  BY Invariance, <1>1, PTL DEF Spec
<1> QED
  BY <1>2 DEF LeavesAsFound, ReturnStep
=============================================================================
