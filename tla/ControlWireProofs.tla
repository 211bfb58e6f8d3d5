-------------------------- MODULE ControlWireProofs --------------------------
(***************************************************************************)
(* Theorems about ControlWire, for any requests, replies, chunks and       *)
(* numbers of messages on their way.                                       *)
(*                                                                         *)
(* What is under way in one direction is a number of whole messages put    *)
(* together, wherever the stream is cut (RequestsOK, RepliesOK).  A step   *)
(* that takes a message takes the first of them (FramingAll),              *)
(* and what it decodes was encoded from what the other side meant: one     *)
(* lemma per kind of request and of reply.                                 *)
(*                                                                         *)
(* What is proved by induction over lengths is said of a set of naturals   *)
(* (Naturals0), and a payload is read where it Holds what was appended.    *)
(***************************************************************************)
EXTENDS ControlWire, SequenceTheorems, WellFoundedInduction, TLAPS

-----------------------------------------------------------------------------
(* Numbers *)

\* What holds of 0, and of a number's successor with the number, holds of all.
LEMMA Naturals0 ==
  ASSUME NEW T, 0 \in T, \A n \in Nat : n \in T => n + 1 \in T
  PROVE  \A n \in Nat : n \in T
<1> DEFINE less == {pair \in Nat \X Nat : pair[1] < pair[2]}
           Left == Nat \ T
<1>1. SUFFICES ASSUME Left # {} PROVE FALSE
  OBVIOUS
<1>2. IsWellFoundedOn(less, Nat)
  BY NatLessThanWellFounded DEF OpToRel
<1>3. PICK n \in Left : \A m \in Left : ~ (<<m, n>> \in less)
  <2> Left \subseteq Nat
    OBVIOUS
  <2> HIDE DEF less, Left
  <2> QED
    BY <1>1, <1>2, WFMin
<1>4. n # 0 /\ n - 1 \in Nat
  OBVIOUS
<1>5. n - 1 \in T
  <2>1. <<n - 1, n>> \in Nat \X Nat /\ <<n - 1, n>>[1] = n - 1 /\ <<n - 1, n>>[2] = n
    BY <1>3, <1>4
  <2>2. n - 1 < n
    BY <1>4
  <2>3. <<n - 1, n>> \in less
    BY <2>1, <2>2
  <2>4. QED
    BY <1>3, <1>4, <2>3
<1>6. (n - 1) + 1 = n
  BY <1>4
<1>7. QED
  BY <1>3, <1>4, <1>5, <1>6

\* The smaller of two numbers.
LEMMA MinIs ==
  ASSUME NEW a \in Int, NEW b \in Int
  PROVE  Min({a, b}) = IF a <= b THEN a ELSE b
<1>1. \E x \in {a, b} : \A y \in {a, b} : x =< y
  OBVIOUS
<1>2. Min({a, b}) \in {a, b} /\ \A y \in {a, b} : Min({a, b}) =< y
  BY <1>1 DEF Min
<1>3. QED
  BY <1>2

\* The larger of two numbers.
LEMMA MaxIs ==
  ASSUME NEW a \in Int, NEW b \in Int
  PROVE  Max({a, b}) = IF a <= b THEN b ELSE a
<1>1. \E x \in {a, b} : \A y \in {a, b} : x >= y
  OBVIOUS
<1>2. Max({a, b}) \in {a, b} /\ \A y \in {a, b} : Max({a, b}) >= y
  BY <1>1 DEF Max
<1>3. QED
  BY <1>2

-----------------------------------------------------------------------------
(* Sequences that are put together *)

\* A sequence that is cut off is a prefix, and the whole when it is short enough.
LEMMA CutIs ==
  ASSUME NEW S, NEW s \in Seq(S), NEW n \in Nat
  PROVE  /\ Cut(s, n) \in Seq(S)
         /\ Len(Cut(s, n)) = IF Len(s) <= n THEN Len(s) ELSE n
         /\ \A i \in 1 .. Len(Cut(s, n)) : Cut(s, n)[i] = s[i]
         /\ Len(s) <= n => Cut(s, n) = s
         /\ IsPrefix(Cut(s, n), s)
<1> DEFINE l == IF Len(s) <= n THEN Len(s) ELSE n
<1>1. Len(s) \in Nat /\ l \in 0 .. Len(s)
  BY LenProperties
<1>2. Cut(s, n) = SubSeq(s, 1, l)
  BY <1>1, MinIs DEF Cut
<1>3. /\ SubSeq(s, 1, l) \in Seq(S) /\ Len(SubSeq(s, 1, l)) = l
      /\ \A i \in 1 .. l : SubSeq(s, 1, l)[i] = s[i]
  BY <1>1, SubSeqProperties
<1>4. Len(s) <= n => SubSeq(s, 1, l) = s
  BY SubSeqFull
<1>5. SubSeq(SubSeq(s, 1, l), 1, l) = SubSeq(s, 1, l)
  BY <1>3, SubSeqFull
<1> HIDE DEF l
<1>6. IsPrefix(SubSeq(s, 1, l), s)
  BY <1>1, <1>3, <1>5 DEF IsPrefix
<1>7. QED
  BY <1>1, <1>2, <1>3, <1>4, <1>6 DEF l

\* f[i] is the first i of the sequences in s put together.
Runs(f, s) ==
  f = [i \in 1 .. Len(s) |-> IF i = 1 THEN s[i] ELSE f[i - 1] \o s[i]]

\* What the pieces of a sequence come to, one by one, is a function.
LEMMA RunsExist ==
  ASSUME NEW S, NEW s \in Seq(Seq(S))
  PROVE  \E f \in [1 .. Len(s) -> Seq(S)] : Runs(f, s)
<1> DEFINE T == {n \in Nat : \A t \in Seq(Seq(S)) :
                   Len(t) = n => \E f \in [1 .. n -> Seq(S)] : Runs(f, t)}
<1>1. 0 \in T
  <2>1. SUFFICES ASSUME NEW t \in Seq(Seq(S)), Len(t) = 0
                 PROVE  \E f \in [1 .. 0 -> Seq(S)] : Runs(f, t)
    OBVIOUS
  <2>2. [i \in 1 .. 0 |-> << >>] \in [1 .. 0 -> Seq(S)]
    OBVIOUS
  <2>3. Runs([i \in 1 .. 0 |-> << >>], t)
    BY <2>1 DEF Runs
  <2>4. QED
    BY <2>2, <2>3
<1>2. ASSUME NEW n \in Nat, n \in T PROVE n + 1 \in T
  <2>1. SUFFICES ASSUME NEW t \in Seq(Seq(S)), Len(t) = n + 1
                 PROVE  \E f \in [1 .. n + 1 -> Seq(S)] : Runs(f, t)
    OBVIOUS
  <2> DEFINE u == SubSeq(t, 1, n)
  <2>2. u \in Seq(Seq(S)) /\ Len(u) = n /\ \A i \in 1 .. n : u[i] = t[i]
    <3>1. \A i \in 1 .. n : t[i] \in Seq(S)
      BY <2>1, ElementOfSeq
    <3>2. QED
      BY <3>1, SubSeqProperties
  <2>3. PICK g \in [1 .. n -> Seq(S)] : Runs(g, u)
    BY <1>2, <2>2
  <2> HIDE DEF u
  <2>4. \A i \in 1 .. n : g[i] = IF i = 1 THEN t[i] ELSE g[i - 1] \o t[i]
    BY <2>2, <2>3 DEF Runs
  <2> DEFINE top == IF n = 0 THEN t[1] ELSE g[n] \o t[n + 1]
             f   == [i \in 1 .. n + 1 |-> IF i = n + 1 THEN top ELSE g[i]]
  <2>5. top \in Seq(S)
    <3>1. t[n + 1] \in Seq(S)
      BY <2>1, ElementOfSeq
    <3>2. CASE n = 0
      BY <3>1, <3>2
    <3>3. CASE n # 0
      BY <3>1, <3>3, ConcatProperties
    <3>4. QED
      BY <3>2, <3>3
  <2>6. f \in [1 .. n + 1 -> Seq(S)]
    <3> HIDE DEF top
    <3> QED
      BY <2>5
  <2>7. \A i \in 1 .. n + 1 : f[i] = IF i = 1 THEN t[i] ELSE f[i - 1] \o t[i]
    <3>1. TAKE i \in 1 .. n + 1
    <3>2. CASE i = n + 1
      BY <3>2
    <3>3. CASE i # n + 1
      <4>1. i \in 1 .. n /\ f[i] = g[i]
        BY <3>3
      <4>2. i # 1 => f[i - 1] = g[i - 1]
        BY <4>1
      <4> HIDE DEF f
      <4>3. QED
        BY <2>4, <4>1, <4>2
    <3>4. QED
      BY <3>2, <3>3
  <2>8. Runs(f, t)
    <3> HIDE DEF f
    <3> QED
      BY <2>1, <2>6, <2>7 DEF Runs
  <2>9. QED
    BY <2>6, <2>8
<1>3. Len(s) \in Nat
  OBVIOUS
<1> HIDE DEF T
<1>4. Len(s) \in T
  BY <1>1, <1>2, <1>3, Naturals0
<1>5. QED
  BY <1>4 DEF T

\* Each of its values is the one before with the next piece.
LEMMA RunsIs ==
  ASSUME NEW f, NEW s, Runs(f, s), NEW i \in 1 .. Len(s)
  PROVE  f[i] = IF i = 1 THEN s[i] ELSE f[i - 1] \o s[i]
BY DEF Runs

\* On the pieces two sequences share it is the same.
LEMMA RunsAgree ==
  ASSUME NEW S, NEW s \in Seq(Seq(S)), NEW t \in Seq(Seq(S)),
         Len(s) <= Len(t), \A i \in 1 .. Len(s) : s[i] = t[i],
         NEW f, NEW g, Runs(f, s), Runs(g, t)
  PROVE  \A i \in 1 .. Len(s) : f[i] = g[i] /\ f[i] \in Seq(S)
<1> DEFINE k == Len(s)
           T == {n \in Nat : \A i \in 1 .. n : i <= k => f[i] = g[i] /\ f[i] \in Seq(S)}
<1>0. Len(s) \in Nat /\ Len(t) \in Nat
  OBVIOUS
<1>1. /\ \A i \in 1 .. Len(s) : f[i] = IF i = 1 THEN s[i] ELSE f[i - 1] \o s[i]
      /\ \A i \in 1 .. Len(t) : g[i] = IF i = 1 THEN t[i] ELSE g[i - 1] \o t[i]
  BY RunsIs
<1>2. \A i \in 1 .. k : s[i] \in Seq(S)
  BY <1>0, ElementOfSeq
<1>3. 0 \in T
  OBVIOUS
<1>4. ASSUME NEW n \in Nat, n \in T PROVE n + 1 \in T
  <2>1. SUFFICES ASSUME n + 1 <= k PROVE f[n + 1] = g[n + 1] /\ f[n + 1] \in Seq(S)
    BY <1>4
  <2>2. CASE n = 0
    <3>1. 1 \in 1 .. Len(s) /\ 1 \in 1 .. Len(t) /\ 1 \in 1 .. k
      BY <1>0, <2>1, <2>2
    <3>2. f[1] = s[1] /\ g[1] = t[1]
      BY <1>1, <3>1
    <3>3. QED
      BY <1>2, <2>2, <3>1, <3>2
  <2>3. CASE n # 0
    <3>1. f[n] = g[n] /\ f[n] \in Seq(S)
      BY <1>4, <2>1, <2>3
    <3>2. f[n + 1] = f[n] \o s[n + 1] /\ g[n + 1] = g[n] \o t[n + 1]
      <4>1. n + 1 \in 1 .. Len(s) /\ n + 1 \in 1 .. Len(t) /\ n + 1 # 1 /\ (n + 1) - 1 = n
        BY <1>0, <2>1, <2>3
      <4>2. QED
        BY <1>1, <4>1
    <3>3. s[n + 1] = t[n + 1] /\ s[n + 1] \in Seq(S)
      BY <1>2, <2>1
    <3>4. f[n] \o s[n + 1] \in Seq(S)
      BY <3>1, <3>3, ConcatProperties
    <3>5. QED
      BY <3>1, <3>2, <3>3, <3>4
  <2>4. QED
    BY <2>2, <2>3
<1>5. k \in T
  <2> HIDE DEF T
  <2> QED
    BY <1>0, <1>3, <1>4, Naturals0
<1>6. QED
  BY <1>5

\* FlattenSeq puts the last sequence behind the others.
LEMMA FlattenIs ==
  ASSUME NEW S, NEW s \in Seq(Seq(S))
  PROVE  \E f : /\ Runs(f, s) /\ FlattenSeq(s) \in Seq(S)
                /\ FlattenSeq(s) = IF Len(s) = 0 THEN << >> ELSE f[Len(s)]
<1>1. Len(s) \in Nat
  OBVIOUS
<1>2. CASE Len(s) = 0
  <2>1. PICK f : Runs(f, s)
    BY RunsExist
  <2>2. s = << >> /\ FlattenSeq(s) = << >> /\ << >> \in Seq(S)
    BY <1>2, EmptySeq DEF FlattenSeq
  <2>3. QED
    BY <1>2, <2>1, <2>2
<1>3. CASE Len(s) # 0
  <2>1. \E f : Runs(f, s)
    BY RunsExist
  <2>2. \E f : Runs(f, s) /\ FlattenSeq(s) = f[Len(s)]
    BY <1>3, <2>1 DEF FlattenSeq, Runs
  <2>3. PICK f : Runs(f, s) /\ FlattenSeq(s) = f[Len(s)]
    BY <2>2
  <2>4. Len(s) <= Len(s) /\ Len(s) \in 1 .. Len(s)
    BY <1>1, <1>3
  <2>5. f[Len(s)] \in Seq(S)
    BY <2>3, <2>4, RunsAgree
  <2>6. QED
    BY <1>3, <2>3, <2>5
<1>4. QED
  BY <1>2, <1>3

\* Nothing put together is nothing.
LEMMA FlattenEmpty ==
  FlattenSeq(<< >>) = << >>
BY DEF FlattenSeq

\* Putting together is associative.
LEMMA Associates ==
  ASSUME NEW S
  PROVE  \A a, b, c \in Seq(S) : (a \o b) \o c = a \o (b \o c)
BY ConcatAssociative

\* A piece more comes last.
LEMMA FlattenAppend ==
  ASSUME NEW S, NEW s \in Seq(Seq(S)), NEW e \in Seq(S)
  PROVE  FlattenSeq(Append(s, e)) = FlattenSeq(s) \o e
<1> DEFINE t == Append(s, e)
<1>1. /\ t \in Seq(Seq(S)) /\ Len(t) = Len(s) + 1 /\ t[Len(t)] = e /\ Len(s) \in Nat
      /\ \A i \in 1 .. Len(s) : s[i] = t[i]
  OBVIOUS
<1> HIDE DEF t
<1>2. PICK f : Runs(f, s) /\ FlattenSeq(s) = IF Len(s) = 0 THEN << >> ELSE f[Len(s)]
  BY FlattenIs
<1>3. PICK g : Runs(g, t) /\ FlattenSeq(t) = IF Len(t) = 0 THEN << >> ELSE g[Len(t)]
  BY <1>1, FlattenIs
<1>4. g[Len(t)] = IF Len(t) = 1 THEN t[Len(t)] ELSE g[Len(t) - 1] \o t[Len(t)]
  BY <1>1, <1>3, RunsIs
<1>5. CASE Len(s) = 0
  <2>1. << >> \o e = e
    BY ConcatEmptySeq
  <2>2. QED
    BY <1>1, <1>2, <1>3, <1>4, <1>5, <2>1 DEF t
<1>6. CASE Len(s) # 0
  <2>1. Len(s) <= Len(s) /\ Len(s) <= Len(t) /\ Len(s) \in 1 .. Len(s)
    BY <1>1, <1>6
  <2>2. f[Len(s)] = g[Len(s)]
    <3>1. \A i \in 1 .. Len(s) : f[i] = g[i] /\ f[i] \in Seq(S)
      BY <1>1, <1>2, <1>3, <2>1, RunsAgree
    <3>2. QED
      BY <2>1, <3>1
  <2>3. QED
    BY <1>1, <1>2, <1>3, <1>4, <1>6, <2>1, <2>2 DEF t
<1>7. QED
  BY <1>5, <1>6

\* Pieces put together are a sequence of the same elements.
LEMMA FlattenType ==
  ASSUME NEW S, NEW s \in Seq(Seq(S))
  PROVE  FlattenSeq(s) \in Seq(S)
BY FlattenIs

\* The first piece comes before the others.
LEMMA FlattenFirst ==
  ASSUME NEW S, NEW s \in Seq(Seq(S)), Len(s) # 0
  PROVE  FlattenSeq(s) = s[1] \o FlattenSeq(SubSeq(s, 2, Len(s)))
<1>0. \A a, b, c \in Seq(S) : (a \o b) \o c = a \o (b \o c)
  BY Associates, SMTT(30)
<1> DEFINE T == {n \in Nat : \A t \in Seq(Seq(S)) :
                   Len(t) = n + 1 => FlattenSeq(t) = t[1] \o FlattenSeq(SubSeq(t, 2, Len(t)))}
<1>1. 0 \in T
  <2>1. SUFFICES ASSUME NEW t \in Seq(Seq(S)), Len(t) = 0 + 1
                 PROVE  FlattenSeq(t) = t[1] \o FlattenSeq(SubSeq(t, 2, Len(t)))
    OBVIOUS
  <2>2. SubSeq(t, 2, Len(t)) = << >>
    BY <2>1, SubSeqEmpty
  <2>3. t = Append(<< >>, t[1]) /\ t[1] \in Seq(S) /\ << >> \in Seq(Seq(S)) /\ << >> \in Seq(S)
    <3>1. t[1] \in Seq(S)
      <4>1. Len(t) = 1 /\ 1 \in 1 .. Len(t)
        BY <2>1
      <4>2. QED
        BY <4>1, ElementOfSeq
    <3>2. << >> \in Seq(Seq(S)) /\ << >> \in Seq(S)
      OBVIOUS
    <3>3. /\ Append(<< >>, t[1]) \in Seq(Seq(S)) /\ Len(Append(<< >>, t[1])) = 1
          /\ Append(<< >>, t[1])[1] = t[1]
      BY <3>1
    <3>4. t = Append(<< >>, t[1])
      BY <2>1, <3>3, SeqEqual
    <3>5. QED
      BY <3>1, <3>2, <3>4
  <2>4. FlattenSeq(t) = << >> \o t[1]
    BY <2>3, FlattenAppend, FlattenEmpty
  <2>5. << >> \o t[1] = t[1] /\ t[1] \o << >> = t[1]
    BY <2>3, ConcatEmptySeq
  <2>6. QED
    BY <2>2, <2>4, <2>5, FlattenEmpty
<1>2. ASSUME NEW n \in Nat, n \in T PROVE n + 1 \in T
  <2> SUFFICES ASSUME NEW t \in Seq(Seq(S)), Len(t) = (n + 1) + 1
               PROVE  FlattenSeq(t) = t[1] \o FlattenSeq(SubSeq(t, 2, Len(t)))
    <3>1. n + 1 \in Nat
      OBVIOUS
    <3>2. QED
      BY <3>1
  <2>1. Len(t) = n + 2
    OBVIOUS
  <2> DEFINE u == SubSeq(t, 1, n + 1)
             v == SubSeq(t, 2, n + 1)
             e == t[n + 2]
  <2>2. \A i \in 1 .. n + 2 : t[i] \in Seq(S)
    BY <2>1, ElementOfSeq
  <2>3. e \in Seq(S)
    BY <2>2
  <2>4. t[1] \in Seq(S)
    BY <2>2
  <2>5. /\ u \in Seq(Seq(S)) /\ Len(u) = n + 1 /\ u[1] = t[1]
        /\ \A i \in 1 .. n + 1 : u[i] = t[i]
    BY <2>2, SubSeqProperties
  <2>6. /\ v \in Seq(Seq(S)) /\ Len(v) = n
        /\ \A i \in 1 .. n : v[i] = t[i + 1]
    BY <2>2, SubSeqProperties
  <2>7. SubSeq(u, 2, Len(u)) = v
    <3>1. \A i \in 2 .. n + 1 : u[i] \in Seq(S)
      BY <2>2, <2>5
    <3>2. /\ SubSeq(u, 2, n + 1) \in Seq(Seq(S)) /\ Len(SubSeq(u, 2, n + 1)) = n
          /\ \A i \in 1 .. n : SubSeq(u, 2, n + 1)[i] = u[i + 1]
      BY <3>1, SubSeqProperties
    <3>3. \A i \in 1 .. n : SubSeq(u, 2, n + 1)[i] = v[i]
      BY <2>5, <2>6, <3>2
    <3> HIDE DEF u, v
    <3>4. QED
      BY <2>5, <2>6, <3>2, <3>3, SeqEqual
  <2>8. t = Append(u, e)
    <3> HIDE DEF u, e
    <3>1. Append(u, e) \in Seq(Seq(S)) /\ Len(Append(u, e)) = n + 2
      BY <2>2, <2>5 DEF e
    <3>2. \A i \in 1 .. n + 2 : Append(u, e)[i] = t[i]
      <4>1. TAKE i \in 1 .. n + 2
      <4>2. CASE i = n + 2
        BY <2>5, <4>2 DEF e
      <4>3. CASE i # n + 2
        BY <2>5, <4>3
      <4>4. QED
        BY <4>2, <4>3
    <3>3. QED
      BY <2>1, <3>1, <3>2, SeqEqual
  <2>9. SubSeq(t, 2, Len(t)) = Append(v, e)
    <3>1. /\ SubSeq(t, 2, n + 2) \in Seq(Seq(S)) /\ Len(SubSeq(t, 2, n + 2)) = n + 1
          /\ \A i \in 1 .. n + 1 : SubSeq(t, 2, n + 2)[i] = t[i + 1]
      BY <2>2, SubSeqProperties
    <3> HIDE DEF v, e
    <3>2. Append(v, e) \in Seq(Seq(S)) /\ Len(Append(v, e)) = n + 1
      BY <2>3, <2>2, <2>6
    <3>3. \A i \in 1 .. n + 1 : Append(v, e)[i] = t[i + 1]
      <4>1. TAKE i \in 1 .. n + 1
      <4>2. CASE i = n + 1
        BY <2>6, <4>2 DEF e
      <4>3. CASE i # n + 1
        BY <2>6, <4>3
      <4>4. QED
        BY <4>2, <4>3
    <3>4. \A i \in 1 .. n + 1 : SubSeq(t, 2, n + 2)[i] = Append(v, e)[i]
      BY <3>1, <3>3
    <3>5. SubSeq(t, 2, n + 2) = Append(v, e)
      BY <3>1, <3>2, <3>4, SeqEqual
    <3>6. QED
      BY <2>1, <3>5
  <2> HIDE DEF u, v, e
  <2>10. FlattenSeq(u) = u[1] \o FlattenSeq(v)
    BY <1>2, <2>5, <2>7
  <2>11. FlattenSeq(t) = FlattenSeq(u) \o e /\ FlattenSeq(SubSeq(t, 2, Len(t))) = FlattenSeq(v) \o e
    BY <2>3, <2>5, <2>6, <2>8, <2>9, FlattenAppend
  <2>12. FlattenSeq(v) \in Seq(S)
    BY <2>6, FlattenType
  <2>13. (t[1] \o FlattenSeq(v)) \o e = t[1] \o (FlattenSeq(v) \o e)
    <3> DEFINE a == t[1]
               b == FlattenSeq(v)
    <3>1. a \in Seq(S) /\ b \in Seq(S)
      BY <2>4, <2>12
    <3> HIDE DEF a, b
    <3>2. (a \o b) \o e = a \o (b \o e)
      BY <1>0, <2>3, <3>1, Zenon
    <3>3. QED
      BY <3>2 DEF a, b
  <2>14. QED
    BY <2>5, <2>10, <2>11, <2>13
<1> HIDE DEF T
<1>3. Len(s) \in Nat /\ Len(s) - 1 \in Nat /\ Len(s) = (Len(s) - 1) + 1
  BY LenProperties
<1>4. Len(s) - 1 \in T
  BY <1>1, <1>2, <1>3, Naturals0
<1>5. QED
  BY <1>3, <1>4 DEF T

-----------------------------------------------------------------------------
(* Bytes *)

\* The strings of n bytes.  (The provers take a length that is a numeral apart.)
Bytes(n) == {s \in Seq(Byte) : Len(s) = n}

\* Bytes(n) holds the sequences of n bytes.
LEMMA BytesAre ==
  ASSUME NEW n, NEW s
  PROVE  s \in Bytes(n) <=> s \in Seq(Byte) /\ Len(s) = n
BY DEF Bytes

\* Lengths add up.
LEMMA Joined ==
  ASSUME NEW m \in Nat, NEW n \in Nat, NEW s \in Bytes(m), NEW t \in Bytes(n)
  PROVE  s \o t \in Bytes(m + n)
BY DEF Bytes

\* What was put together is found where it was put: s stands in p from i on.
Holds(p, i, s) ==
  i + Len(s) - 1 <= Len(p) /\ \A j \in 1 .. Len(s) : p[i + j - 1] = s[j]

\* A sequence holds itself from its start.
LEMMA HoldsItself ==
  ASSUME NEW p \in Seq(Byte)
  PROVE  Holds(p, 1, p)
BY DEF Holds

\* Where two parts lie together the second lies behind the first.
LEMMA HoldsParts ==
  ASSUME NEW p \in Seq(Byte), NEW i \in Nat, NEW n \in Nat, NEW s \in Bytes(n),
         NEW t \in Seq(Byte), Holds(p, i, s \o t)
  PROVE  Holds(p, i, s) /\ Holds(p, i + n, t)
<1>1. s \in Seq(Byte) /\ Len(s) = n /\ Len(t) \in Nat /\ Len(p) \in Nat
  BY BytesAre
<1>2. /\ Len(s \o t) = n + Len(t)
      /\ \A j \in 1 .. n + Len(t) : (s \o t)[j] = IF j <= n THEN s[j] ELSE t[j - n]
  BY <1>1, ConcatProperties
<1>3. \A j \in 1 .. n + Len(t) : p[i + j - 1] = (s \o t)[j]
  BY <1>2 DEF Holds
<1>4. i + (n + Len(t)) - 1 <= Len(p)
  BY <1>2 DEF Holds
<1>5. Holds(p, i, s)
  <2>1. ASSUME NEW j \in 1 .. n PROVE p[i + j - 1] = s[j]
    <3>1. j \in 1 .. n + Len(t) /\ j <= n
      BY <1>1
    <3>2. QED
      BY <1>2, <1>3, <3>1
  <2>2. QED
    BY <1>1, <1>4, <2>1 DEF Holds
<1>6. Holds(p, i + n, t)
  <2>1. ASSUME NEW j \in 1 .. Len(t) PROVE p[(i + n) + j - 1] = t[j]
    <3>1. n + j \in 1 .. n + Len(t) /\ ~(n + j <= n) /\ (n + j) - n = j
      BY <1>1
    <3>2. p[i + (n + j) - 1] = t[j]
      BY <1>2, <1>3, <3>1
    <3>3. i + (n + j) - 1 = (i + n) + j - 1
      BY <1>1
    <3>4. QED
      BY <3>2, <3>3
  <2>2. (i + n) + Len(t) - 1 <= Len(p)
    BY <1>1, <1>4
  <2>3. QED
    BY <2>1, <2>2 DEF Holds
<1>7. QED
  BY <1>5, <1>6

\* One byte, read back.
LEMMA HoldsByte ==
  ASSUME NEW p \in Seq(Byte), NEW i \in Nat, NEW b, Holds(p, i, <<b>>)
  PROVE  p[i] = b /\ i <= Len(p)
BY DEF Holds

\* A byte is a number up to 255; said so, the prover need not list them.
LEMMA ByteIs ==
  \A n : n \in Byte <=> n \in Nat /\ n <= 255
BY DEF Byte

\* A byte is a sequence of one.
LEMMA OneByte ==
  ASSUME NEW b \in Byte
  PROVE  <<b>> \in Bytes(1)
BY DEF Bytes

\* A number of two bytes.
LEMMA MaxU16Is ==
  MaxU16 \in Nat /\ MaxU16 <= 65535 /\ 65535 <= MaxU16
BY DEF MaxU16

\* The same of 16 bits.
LEMMA HalfIs ==
  \A n : n \in Half <=> n \in Nat /\ n <= MaxU16
<1>1. MaxU16 \in Nat
  BY DEF MaxU16
<1>2. QED
  BY <1>1 DEF Half

\* A number of 16 bits as two bytes, the high one first (AppendHeader).
LEMMA U16Is ==
  ASSUME NEW n \in Half
  PROVE  \E high, low \in Byte : AppendU16(n) = <<high, low>> /\ high * 256 + low = n
<1>1. n \in Nat /\ n <= 65535
  BY HalfIs, MaxU16Is
<1>2. n \div 256 \in Nat /\ n \div 256 <= 255
  BY <1>1
<1>3. (n \div 256) % 256 = n \div 256 /\ n % 256 \in Nat /\ n % 256 <= 255
  BY <1>1, <1>2
<1>4. n = 256 * (n \div 256) + (n % 256)
  BY <1>1
<1>5. (n \div 256) % 256 \in Byte /\ n % 256 \in Byte
  BY <1>2, <1>3, ByteIs
<1>6. ((n \div 256) % 256) * 256 + (n % 256) = n
  BY <1>2, <1>3, <1>4
<1> DEFINE high == (n \div 256) % 256
           low  == n % 256
<1>7. AppendU16(n) = <<high, low>> /\ high \in Byte /\ low \in Byte
  BY <1>5 DEF AppendU16
<1>8. high * 256 + low = n
  BY <1>6
<1> HIDE DEF high, low
<1>9. QED
  BY <1>7, <1>8

\* It takes two bytes.
LEMMA U16Type ==
  ASSUME NEW n \in Half
  PROVE  AppendU16(n) \in Bytes(2)
<1>1. PICK high, low \in Byte : AppendU16(n) = <<high, low>>
  BY U16Is
<1>2. <<high, low>> \in Seq(Byte) /\ Len(<<high, low>>) = 2
  OBVIOUS
<1>3. QED
  BY <1>1, <1>2 DEF Bytes

\* ReadU16 reads what AppendU16 wrote.
LEMMA HoldsU16 ==
  ASSUME NEW p \in Seq(Byte), NEW i \in Nat, NEW n \in Half, Holds(p, i, AppendU16(n))
  PROVE  ReadU16(p, i) = n /\ i + 1 <= Len(p)
<1>1. PICK high, low \in Byte : AppendU16(n) = <<high, low>> /\ high * 256 + low = n
  BY U16Is
<1>2. Holds(p, i, <<high, low>>)
  BY <1>1
<1>3. p[i] = high /\ p[i + 1] = low /\ i + 1 <= Len(p)
  <2>1. \A j \in 1 .. 2 : p[i + j - 1] = <<high, low>>[j]
    BY <1>2 DEF Holds
  <2>2. i + 2 - 1 <= Len(p)
    BY <1>2 DEF Holds
  <2>3. i + 1 - 1 = i /\ i + 2 - 1 = i + 1
    OBVIOUS
  <2>4. QED
    BY <2>1, <2>2, <2>3
<1>4. QED
  BY <1>1, <1>3 DEF ReadU16

\* A float, as its two halves.
LEMMA FloatType ==
  ASSUME NEW f \in Float
  PROVE  AppendFloatBE(f) \in Bytes(4)
<1> DEFINE a == f[1]
           b == f[2]
<1>1. a \in Half /\ b \in Half
  BY DEF Float
<1>2. AppendFloatBE(f) = AppendU16(a) \o AppendU16(b)
  BY DEF AppendFloatBE
<1> HIDE DEF a, b
<1>3. AppendU16(a) \in Bytes(2) /\ AppendU16(b) \in Bytes(2)
  BY <1>1, U16Type
<1>4. AppendU16(a) \o AppendU16(b) \in Bytes(2 + 2)
  BY <1>3, Joined
<1>5. QED
  BY <1>2, <1>4

\* ReadFloatBE reads what AppendFloatBE wrote.
LEMMA HoldsFloat ==
  ASSUME NEW p \in Seq(Byte), NEW i \in Nat, NEW f \in Float, Holds(p, i, AppendFloatBE(f))
  PROVE  ReadFloatBE(p, i) = f /\ i + 3 <= Len(p)
<1> DEFINE a == f[1]
           b == f[2]
<1>1. a \in Half /\ b \in Half /\ f = <<a, b>>
  BY DEF Float
<1>2. AppendFloatBE(f) = AppendU16(a) \o AppendU16(b)
  BY DEF AppendFloatBE
<1> HIDE DEF a, b
<1>3. AppendU16(a) \in Bytes(2) /\ AppendU16(b) \in Seq(Byte)
  BY <1>1, U16Type, BytesAre
<1>4. Holds(p, i, AppendU16(a)) /\ Holds(p, i + 2, AppendU16(b))
  BY <1>2, <1>3, HoldsParts
<1>5. ReadU16(p, i) = a
  BY <1>1, <1>4, HoldsU16
<1>6. ReadU16(p, i + 2) = b /\ (i + 2) + 1 <= Len(p)
  BY <1>1, <1>4, HoldsU16
<1>7. QED
  BY <1>1, <1>5, <1>6 DEF ReadFloatBE

\* Two floats behind one another, and three.
LEMMA ThreeFloats ==
  ASSUME NEW f \in Float, NEW g \in Float, NEW q \in Float, NEW t \in Bytes(1)
  PROVE  /\ t \o AppendFloatBE(f) \o AppendFloatBE(g) \o AppendFloatBE(q) \in Bytes(13)
         /\ \A p \in Seq(Byte), i \in Nat :
              Holds(p, i, t \o AppendFloatBE(f) \o AppendFloatBE(g) \o AppendFloatBE(q)) =>
                /\ Holds(p, i, t) /\ ReadFloatBE(p, i + 1) = f /\ ReadFloatBE(p, i + 5) = g
                /\ ReadFloatBE(p, i + 9) = q /\ i + 12 <= Len(p)
<1> DEFINE a == AppendFloatBE(f)
           b == AppendFloatBE(g)
           c == AppendFloatBE(q)
<1>1. a \in Bytes(4) /\ b \in Bytes(4) /\ c \in Bytes(4)
  BY FloatType
<1> HIDE DEF a, b, c
<1>2. t \o a \in Bytes(1 + 4)
  BY <1>1, Joined
<1>3. (t \o a) \o b \in Bytes(5 + 4)
  BY <1>1, <1>2, Joined
<1>4. ((t \o a) \o b) \o c \in Bytes(9 + 4)
  BY <1>1, <1>3, Joined
<1>5. ASSUME NEW p \in Seq(Byte), NEW i \in Nat, Holds(p, i, ((t \o a) \o b) \o c)
      PROVE  /\ Holds(p, i, t) /\ ReadFloatBE(p, i + 1) = f /\ ReadFloatBE(p, i + 5) = g
             /\ ReadFloatBE(p, i + 9) = q /\ i + 12 <= Len(p)
  <2>1. a \in Seq(Byte) /\ b \in Seq(Byte) /\ c \in Seq(Byte)
    BY <1>1, BytesAre
  <2>2. Holds(p, i, (t \o a) \o b) /\ Holds(p, i + 9, c)
    BY <1>3, <1>5, <2>1, HoldsParts
  <2>3. Holds(p, i, t \o a) /\ Holds(p, i + 5, b)
    BY <1>2, <2>1, <2>2, HoldsParts
  <2>4. Holds(p, i, t) /\ Holds(p, i + 1, a)
    BY <2>1, <2>3, HoldsParts
  <2>5. ReadFloatBE(p, i + 1) = f
    BY <2>4, HoldsFloat DEF a
  <2>6. ReadFloatBE(p, i + 5) = g
    BY <2>3, HoldsFloat DEF b
  <2>7. ReadFloatBE(p, i + 9) = q /\ (i + 9) + 3 <= Len(p)
    BY <2>2, HoldsFloat DEF c
  <2>8. QED
    BY <2>4, <2>5, <2>6, <2>7
<1>6. QED
  BY <1>4, <1>5 DEF a, b, c

\* A band and the bass enhancer's settings.
LEMMA BandIs ==
  ASSUME NEW b \in EqBands
  PROVE  /\ b.frequency \in Float /\ b.gain \in Float /\ b.q \in Float
         /\ b.type \in Nat /\ b.type <= Notch /\ <<b.type>> \in Bytes(1)
         /\ b = EqBand(b.type, b.frequency, b.gain, b.q)
<1>1. b.type \in Nat /\ b.type <= Notch /\ b.type <= 255
  BY DEF EqBands, Notch
<1>2. <<b.type>> \in Bytes(1)
  BY <1>1, ByteIs, OneByte
<1>3. QED
  BY <1>1, <1>2 DEF EqBands, EqBand

\* An equalizer band takes EqBandWireSize bytes.
LEMMA BandType ==
  ASSUME NEW b \in EqBands
  PROVE  AppendEqBand(b) \in Bytes(13)
BY BandIs, ThreeFloats DEF AppendEqBand

\* ReadEqBand reads what AppendEqBand wrote.
LEMMA HoldsBand ==
  ASSUME NEW p \in Seq(Byte), NEW i \in Nat, NEW b \in EqBands, Holds(p, i, AppendEqBand(b))
  PROVE  ReadEqBand(p, i) = b /\ p[i] <= Notch /\ i + 12 <= Len(p)
<1>1. /\ Holds(p, i, <<b.type>>) /\ ReadFloatBE(p, i + 1) = b.frequency
      /\ ReadFloatBE(p, i + 5) = b.gain /\ ReadFloatBE(p, i + 9) = b.q
      /\ i + 12 <= Len(p)
  BY BandIs, ThreeFloats DEF AppendEqBand
<1>2. p[i] = b.type
  BY <1>1, HoldsByte
<1>3. QED
  BY <1>1, <1>2, BandIs DEF ReadEqBand

\* What the fields of the bass enhancer are.
LEMMA BassIs ==
  ASSUME NEW b \in BassEnhancers
  PROVE  /\ b.cutoff \in Float /\ b.drive \in Float /\ b.mix \in Float
         /\ <<Bool(b.on)>> \in Bytes(1) /\ (Bool(b.on) # 0 <=> b.on)
         /\ b = BassEnhancerSettings(b.on, b.cutoff, b.drive, b.mix)
         /\ b.on \in BOOLEAN
<1>1. Bool(b.on) \in Nat /\ Bool(b.on) <= 255 /\ (Bool(b.on) # 0 <=> b.on)
  BY DEF Bool
<1>2. <<Bool(b.on)>> \in Bytes(1)
  BY <1>1, ByteIs, OneByte
<1>3. QED
  BY <1>1, <1>2 DEF BassEnhancers, BassEnhancerSettings

\* They take BassEnhancerWireSize bytes.
LEMMA BassType ==
  ASSUME NEW b \in BassEnhancers
  PROVE  AppendBassEnhancerSettings(b) \in Bytes(13)
BY BassIs, ThreeFloats DEF AppendBassEnhancerSettings

\* ReadBassEnhancerSettings reads what AppendBassEnhancerSettings wrote.
LEMMA HoldsBass ==
  ASSUME NEW b \in BassEnhancers, NEW p \in Seq(Byte),
         Holds(p, 1, AppendBassEnhancerSettings(b))
  PROVE  ReadBassEnhancerSettings(p) = b
<1>1. /\ Holds(p, 1, <<Bool(b.on)>>) /\ ReadFloatBE(p, 1 + 1) = b.cutoff
      /\ ReadFloatBE(p, 1 + 5) = b.drive /\ ReadFloatBE(p, 1 + 9) = b.mix
  BY BassIs, ThreeFloats DEF AppendBassEnhancerSettings
<1>2. p[1] = Bool(b.on)
  BY <1>1, HoldsByte
<1>3. (p[1] # 0) = b.on
  BY <1>2, BassIs
<1>4. QED
  BY <1>1, <1>3, BassIs DEF ReadBassEnhancerSettings

-----------------------------------------------------------------------------
(* Messages *)

\* A header takes HeaderSize bytes.
LEMMA HeaderType ==
  ASSUME NEW op \in Byte, NEW n \in Half
  PROVE  <<op>> \o AppendU16(n) \in Bytes(3)
<1>1. <<op>> \in Bytes(1) /\ AppendU16(n) \in Bytes(2)
  BY OneByte, U16Type
<1>2. <<op>> \o AppendU16(n) \in Bytes(1 + 2)
  BY <1>1, Joined
<1>3. QED
  BY <1>2

\* A message is its header and its payload.
LEMMA MessageType ==
  ASSUME NEW op \in Byte, NEW n \in Half, NEW p \in Bytes(n)
  PROVE  Message(op, p) \in Bytes(3 + n)
<1>1. Len(p) = n /\ n \in Nat
  BY BytesAre, HalfIs
<1>2. <<op>> \o AppendU16(n) \in Bytes(3)
  BY HeaderType
<1>3. (<<op>> \o AppendU16(n)) \o p \in Bytes(3 + n)
  BY <1>1, <1>2, Joined
<1>4. QED
  BY <1>1, <1>3 DEF Message

\* (Named, for the provers take an equation of joined sequences apart.)
Regrouped(a, b, c) == (a \o b) \o c = a \o (b \o c)

\* Two ways to split the same bytes.
LEMMA Regroups ==
  ASSUME NEW a \in Seq(Byte), NEW b \in Seq(Byte), NEW c \in Seq(Byte)
  PROVE  Regrouped(a, b, c)
BY ConcatAssociative DEF Regrouped

\* What is in x and y begins with the message m.
Starts(x, y, m, rest) == x \o y = m \o rest

\* Where a message starts a stream, of which x is there and y to come, its header
\* is the first that is read, its payload the bytes after it, and what is left is
\* what came behind the message.
LEMMA Framing ==
  ASSUME NEW op \in Byte, NEW n \in Half, NEW p \in Bytes(n), NEW rest \in Seq(Byte),
         NEW x \in Seq(Byte), NEW y \in Seq(Byte), Starts(x, y, Message(op, p), rest)
  PROVE  /\ Len(x) + Len(y) = 3 + n + Len(rest)
         /\ Len(x) >= 3 => TryReadHeader(x) = [op |-> op, length |-> n]
         /\ Len(x) >= 3 + n =>
              /\ x[1] = op /\ SubSeq(x, 4, 3 + n) = p
              /\ SubSeq(x, 4 + n, Len(x)) \o y = rest
              /\ SubSeq(x, 4 + n, Len(x)) \in Seq(Byte)
<1>1. Len(p) = n /\ n \in Nat /\ p \in Seq(Byte)
  BY BytesAre, HalfIs
<1> DEFINE head == <<op>> \o AppendU16(n)
           z    == x \o y
<1>2. head \in Bytes(3) /\ <<op>> \in Bytes(1) /\ AppendU16(n) \in Seq(Byte)
  BY HeaderType, OneByte, U16Type, BytesAre
<1>3. head \o p \in Bytes(3 + n)
  BY <1>1, <1>2, Joined
<1>4. z = (head \o p) \o rest
  BY <1>1 DEF Message, Starts
<1>5. /\ z \in Seq(Byte) /\ Len(z) = Len(x) + Len(y)
      /\ \A i \in 1 .. Len(x) + Len(y) : z[i] = IF i <= Len(x) THEN x[i] ELSE y[i - Len(x)]
  BY ConcatProperties
<1>6. Len(z) = 3 + n + Len(rest)
  <2>1. head \o p \in Seq(Byte) /\ Len(head \o p) = 3 + n
    BY <1>3, BytesAre
  <2> HIDE DEF z, head
  <2> DEFINE m == head \o p
  <2>2. m \in Seq(Byte) /\ Len(m) = 3 + n /\ z = m \o rest
    BY <1>4, <2>1
  <2> HIDE DEF m
  <2>3. QED
    BY <2>2, ConcatProperties
<1>7. /\ z[1] = op /\ ReadU16(z, 2) = n
      /\ \A i \in 1 .. n : z[3 + i] = p[i]
      /\ \A i \in 1 .. Len(rest) : z[3 + n + i] = rest[i]
  <2> HIDE DEF z
  <2>1. Holds(z, 1, (head \o p) \o rest)
    BY <1>4, <1>5, HoldsItself
  <2>2. 3 + n \in Nat
    BY <1>1
  <2>3. Holds(z, 1, head \o p) /\ Holds(z, 1 + (3 + n), rest)
    BY <1>3, <1>5, <2>1, <2>2, HoldsParts
  <2>4. Holds(z, 1, head) /\ Holds(z, 1 + 3, p)
    BY <1>1, <1>2, <1>5, <2>3, HoldsParts
  <2>5. Holds(z, 1, <<op>>) /\ Holds(z, 1 + 1, AppendU16(n))
    BY <1>2, <1>5, <2>4, HoldsParts
  <2>6. z[1] = op /\ ReadU16(z, 2) = n
    <3>1. z[1] = op
      BY <1>5, <2>5, HoldsByte
    <3>2. ReadU16(z, 1 + 1) = n
      BY <1>5, <2>5, HoldsU16
    <3>3. QED
      BY <3>1, <3>2
  <2>7. ASSUME NEW i \in 1 .. n PROVE z[3 + i] = p[i]
    <3>1. z[(1 + 3) + i - 1] = p[i]
      BY <1>1, <2>4 DEF Holds
    <3>2. (1 + 3) + i - 1 = 3 + i
      OBVIOUS
    <3>3. QED
      BY <3>1, <3>2
  <2>8. ASSUME NEW i \in 1 .. Len(rest) PROVE z[3 + n + i] = rest[i]
    <3>1. z[(1 + (3 + n)) + i - 1] = rest[i]
      BY <2>3 DEF Holds
    <3>2. (1 + (3 + n)) + i - 1 = 3 + n + i
      BY <1>1
    <3>3. QED
      BY <3>1, <3>2
  <2>9. QED
    BY <2>6, <2>7, <2>8
<1> HIDE DEF z, head
<1>8. ASSUME Len(x) >= 3
      PROVE  TryReadHeader(x) = [op |-> op, length |-> n] /\ x[1] = op
  <2>1. x[1] = z[1] /\ x[2] = z[2] /\ x[3] = z[3]
    <3>1. 1 \in 1 .. Len(x) + Len(y) /\ 2 \in 1 .. Len(x) + Len(y) /\ 3 \in 1 .. Len(x) + Len(y)
      BY <1>8
    <3>2. QED
      BY <1>5, <1>8, <3>1
  <2>2. ReadU16(x, 2) = n
    BY <1>7, <2>1 DEF ReadU16
  <2>3. QED
    BY <1>7, <1>8, <2>1, <2>2 DEF TryReadHeader, HeaderSize
<1>9. ASSUME Len(x) >= 3 + n
      PROVE  /\ SubSeq(x, 4, 3 + n) = p
             /\ SubSeq(x, 4 + n, Len(x)) \o y = rest
             /\ SubSeq(x, 4 + n, Len(x)) \in Seq(Byte)
  <2>1. \A i \in 1 .. Len(x) : x[i] \in Byte /\ x[i] = z[i]
    BY <1>5, ElementOfSeq
  <2>2. SubSeq(x, 4, 3 + n) = p
    <3>1. \A i \in 4 .. 3 + n : x[i] \in Byte
      BY <1>1, <1>9, <2>1
    <3>2. /\ SubSeq(x, 4, 3 + n) \in Seq(Byte) /\ Len(SubSeq(x, 4, 3 + n)) = n
          /\ \A i \in 1 .. n : SubSeq(x, 4, 3 + n)[i] = x[3 + i]
      <4>1. 3 + n \in Int
        BY <1>1
      <4>2. /\ SubSeq(x, 4, 3 + n) \in Seq(Byte)
            /\ Len(SubSeq(x, 4, 3 + n)) = IF 4 <= 3 + n THEN (3 + n) - 4 + 1 ELSE 0
            /\ \A i \in 1 .. (3 + n) - 4 + 1 : SubSeq(x, 4, 3 + n)[i] = x[4 + i - 1]
        BY <3>1, <4>1, SubSeqProperties
      <4>3. (3 + n) - 4 + 1 = n /\ \A i \in 1 .. n : 4 + i - 1 = 3 + i
        BY <1>1
      <4>4. QED
        BY <1>1, <4>2, <4>3
    <3>3. ASSUME NEW i \in 1 .. n PROVE x[3 + i] = p[i]
      <4>1. 3 + i \in 1 .. Len(x)
        BY <1>1, <1>9
      <4>2. QED
        BY <1>7, <2>1, <4>1
    <3>4. QED
      BY <1>1, <3>2, <3>3, SeqEqual
  <2> DEFINE w == SubSeq(x, 4 + n, Len(x))
  <2>3. /\ w \in Seq(Byte) /\ Len(w) = Len(x) - (3 + n)
        /\ \A i \in 1 .. Len(w) : w[i] = x[3 + n + i]
    <3>1. 4 + n \in Int /\ Len(x) \in Int /\ \A i \in 4 + n .. Len(x) : x[i] \in Byte
      BY <1>1, <2>1
    <3>2. /\ w \in Seq(Byte)
          /\ Len(w) = IF 4 + n <= Len(x) THEN Len(x) - (4 + n) + 1 ELSE 0
          /\ \A i \in 1 .. Len(x) - (4 + n) + 1 : w[i] = x[(4 + n) + i - 1]
      BY <3>1, SubSeqProperties
    <3> HIDE DEF w
    <3>3. /\ Len(w) = Len(x) - (3 + n) /\ Len(x) - (4 + n) + 1 = Len(w)
          /\ \A i \in 1 .. Len(w) : (4 + n) + i - 1 = 3 + n + i
      BY <1>1, <1>9, <3>2
    <3>4. QED
      BY <3>2, <3>3
  <2> HIDE DEF w
  <2>4. w \o y = rest
    <3>1. Len(rest) = Len(w) + Len(y)
      <4>1. Len(x) + Len(y) = 3 + n + Len(rest)
        BY <1>5, <1>6
      <4>2. Len(w) = Len(x) - (3 + n) /\ Len(w) \in Nat
        BY <2>3
      <4>3. Len(x) \in Nat /\ Len(y) \in Nat /\ Len(rest) \in Nat
        OBVIOUS
      <4> DEFINE a == Len(w)
                 b == Len(x)
                 c == Len(y)
                 d == Len(rest)
      <4>4. b + c = 3 + n + d /\ a = b - (3 + n) /\ a \in Nat /\ b \in Nat /\ c \in Nat /\ d \in Nat
        BY <4>1, <4>2, <4>3
      <4> HIDE DEF a, b, c, d
      <4>5. d = a + c
        BY <1>1, <4>4
      <4>6. QED
        BY <4>5 DEF a, c, d
    <3>2. /\ w \o y \in Seq(Byte) /\ Len(w \o y) = Len(w) + Len(y)
          /\ \A i \in 1 .. Len(w) + Len(y) :
               (w \o y)[i] = IF i <= Len(w) THEN w[i] ELSE y[i - Len(w)]
      BY <2>3, ConcatProperties
    <3>3. ASSUME NEW i \in 1 .. Len(rest) PROVE (w \o y)[i] = rest[i]
      <4>1. /\ 3 + n + i \in 1 .. Len(x) + Len(y)
            /\ (i <= Len(w) <=> 3 + n + i <= Len(x))
            /\ i - Len(w) = (3 + n + i) - Len(x)
            /\ i \in 1 .. Len(w) + Len(y)
        BY <1>1, <1>9, <2>3, <3>1
      <4>2. z[3 + n + i] = rest[i]
        BY <1>7
      <4>3. CASE i <= Len(w)
        <5>1. i \in 1 .. Len(w) /\ (w \o y)[i] = w[i]
          BY <3>2, <4>1, <4>3
        <5>2. x[3 + n + i] = z[3 + n + i]
          BY <1>5, <4>1, <4>3
        <5>3. QED
          BY <2>3, <4>2, <5>1, <5>2
      <4>4. CASE ~(i <= Len(w))
        BY <1>5, <3>2, <4>1, <4>2, <4>4
      <4>5. QED
        BY <4>3, <4>4
    <3>4. QED
      BY <3>1, <3>2, <3>3, SeqEqual
  <2>5. QED
    BY <2>2, <2>3, <2>4 DEF w
<1>10. Len(x) + Len(y) = 3 + n + Len(rest)
  BY <1>5, <1>6
<1>11. Len(x) >= 3 + n => Len(x) >= 3
  BY <1>1
<1>12. QED
  BY <1>8, <1>9, <1>10, <1>11

\* The same where all of the stream is there.
LEMMA FramingAll ==
  ASSUME NEW op \in Byte, NEW n \in Half, NEW p \in Bytes(n), NEW rest \in Seq(Byte),
         NEW x \in Seq(Byte), Starts(x, << >>, Message(op, p), rest)
  PROVE  /\ Len(x) = 3 + n + Len(rest)
         /\ TryReadHeader(x) = [op |-> op, length |-> n]
         /\ SubSeq(x, 4, 3 + n) = p
         /\ SubSeq(x, 4 + n, Len(x)) = rest
<1> DEFINE y == << >>
<1>1. y \in Seq(Byte) /\ Starts(x, y, Message(op, p), rest)
  OBVIOUS
<1>2. Len(y) = 0
  OBVIOUS
<1>3. n \in Nat /\ Len(rest) \in Nat /\ Len(x) \in Nat
  BY HalfIs
<1> HIDE DEF y
<1> DEFINE l == Len(y)
<1>4. Len(x) + l = 3 + n + Len(rest)
  BY <1>1, Framing
<1>5. l = 0
  BY <1>2
<1> HIDE DEF l
<1> DEFINE a == Len(x)
           b == Len(rest)
<1>6. a + l = 3 + n + b /\ a \in Nat /\ b \in Nat
  BY <1>3, <1>4
<1> HIDE DEF a, b
<1>7. a = 3 + n + b /\ a >= 3 + n /\ a >= 3
  BY <1>3, <1>5, <1>6
<1>8. Len(x) = 3 + n + Len(rest) /\ Len(x) >= 3 + n /\ Len(x) >= 3
  BY <1>7 DEF a, b
<1>9. Len(x) >= 3
  BY <1>8
<1>10. Len(x) >= 3 + n
  BY <1>8
<1>11. TryReadHeader(x) = [op |-> op, length |-> n]
  BY <1>1, <1>9, Framing
<1> DEFINE left == SubSeq(x, 4 + n, Len(x))
<1>12. SubSeq(x, 4, 3 + n) = p /\ left \o y = rest /\ left \in Seq(Byte)
  BY <1>1, <1>10, Framing
<1> HIDE DEF left
<1>13. left \o y = left
  BY <1>12, ConcatEmptySeq DEF y
<1>14. QED
  BY <1>8, <1>11, <1>12, <1>13 DEF left

-----------------------------------------------------------------------------
(* Strings *)

\* A string that is short enough for its length field is written whole.
LEMMA StringIs ==
  ASSUME NEW a \in Seq(Byte), Len(a) <= MaxU16
  PROVE  /\ AppendString(a) = AppendU16(Len(a)) \o a /\ AppendString(a) \in Bytes(2 + Len(a))
         /\ Len(a) \in Half
<1>1. Len(a) \in Nat /\ Cut(a, MaxU16) = a
  BY CutIs, MaxU16Is
<1>2. Len(a) \in Half
  BY <1>1, HalfIs
<1>3. AppendString(a) = AppendU16(Len(a)) \o a
  BY <1>1 DEF AppendString
<1>4. AppendU16(Len(a)) \in Bytes(2) /\ a \in Bytes(Len(a))
  BY <1>2, U16Type, BytesAre
<1>5. AppendU16(Len(a)) \o a \in Bytes(2 + Len(a))
  BY <1>1, <1>4, Joined
<1>6. QED
  BY <1>2, <1>3, <1>5

\* What p holds at a place, cut out of it there.
LEMMA HeldIs ==
  ASSUME NEW p \in Seq(Byte), NEW i \in Nat, i >= 1, NEW a \in Seq(Byte), Holds(p, i, a)
  PROVE  SubSeq(p, i, i + Len(a) - 1) = a
<1> DEFINE n == Len(a)
           l == i + n - 1
           s == SubSeq(p, i, l)
<1>1. n \in Nat /\ Len(p) \in Nat
  OBVIOUS
<1>2. l <= Len(p) /\ \A j \in 1 .. n : p[i + j - 1] = a[j]
  BY DEF Holds
<1>3. l \in Int /\ l - i + 1 = n /\ (i <= l <=> n # 0)
  BY <1>1
<1>4. \A j \in i .. l : p[j] \in Byte
  <2>1. TAKE j \in i .. l
  <2>2. j \in 1 .. Len(p)
    BY <1>1, <1>2
  <2>3. QED
    BY <2>2, ElementOfSeq
<1> HIDE DEF l
<1>5. /\ s \in Seq(Byte) /\ Len(s) = IF i <= l THEN l - i + 1 ELSE 0
      /\ \A j \in 1 .. l - i + 1 : s[j] = p[i + j - 1]
  BY <1>3, <1>4, SubSeqProperties
<1> HIDE DEF s
<1>6. Len(s) = n
  BY <1>1, <1>3, <1>5
<1>7. \A j \in 1 .. n : s[j] = a[j]
  BY <1>2, <1>3, <1>5
<1>8. s = a
  BY <1>5, <1>6, <1>7, SeqEqual
<1>9. QED
  BY <1>8 DEF s, l

\* ReadString reads what AppendString wrote, and where it ends.
LEMMA HoldsString ==
  ASSUME NEW p \in Seq(Byte), NEW i \in Nat, NEW a \in Seq(Byte), Len(a) <= MaxU16, i >= 1,
         Holds(p, i, AppendString(a))
  PROVE  /\ ReadString(p, i) = [value |-> a, next |-> i + 2 + Len(a)]
         /\ ReadString(p, i) # None
<1> DEFINE n == Len(a)
<1>1. n \in Nat /\ n \in Half /\ Len(p) \in Nat
  BY StringIs
<1>2. AppendU16(n) \in Bytes(2)
  BY <1>1, U16Type
<1>3. Holds(p, i, AppendU16(n) \o a)
  BY StringIs
<1>4. Holds(p, i, AppendU16(n)) /\ Holds(p, i + 2, a)
  BY <1>2, <1>3, HoldsParts
<1>5. ReadU16(p, i) = n /\ i + 1 <= Len(p)
  BY <1>1, <1>4, HoldsU16
<1>6. /\ (i + 2) + n - 1 <= Len(p)
      /\ \A j \in 1 .. n : p[(i + 2) + j - 1] = a[j]
  BY <1>4 DEF Holds
<1>7. i + 1 + n <= Len(p)
  BY <1>1, <1>6
<1>8. SubSeq(p, i + 2, i + 1 + n) = a
  <2>1. i + 2 \in Nat /\ i + 2 >= 1 /\ (i + 2) + n - 1 = i + 1 + n
    BY <1>1
  <2>2. SubSeq(p, i + 2, (i + 2) + n - 1) = a
    BY <1>4, <2>1, HeldIs
  <2>3. QED
    BY <2>1, <2>2
<1> HIDE DEF n
<1>9. ReadString(p, i) = [value |-> a, next |-> i + 2 + n]
  <2>1. ~(i + 1 > Len(p) \/ i + 1 + ReadU16(p, i) > Len(p))
    BY <1>1, <1>5, <1>7
  <2>2. ReadString(p, i) =
          [value |-> SubSeq(p, i + 2, i + 1 + ReadU16(p, i)), next |-> i + 2 + ReadU16(p, i)]
    BY <2>1 DEF ReadString
  <2>3. QED
    BY <1>5, <1>8, <2>2
<1>10. [value |-> a, next |-> i + 2 + n] \in [value : Seq(Byte), next : Nat]
  BY <1>1
<1>11. QED
  BY <1>9, <1>10, NoneAssumption DEF n

\* The index of a band is a byte.
LEMMA BandIndex ==
  ASSUME NEW v \in 0 .. MaxEqBands - 1
  PROVE  v \in Byte /\ v < MaxEqBands
<1>1. MaxEqBands \in Nat /\ MaxEqBands <= 255
  BY ProtocolAssumption
<1>2. v \in Nat /\ v <= 255 /\ v < MaxEqBands
  BY <1>1
<1>3. QED
  BY <1>2, ByteIs

\* A band and its index pass the check of DecodeCommand and are read back.
LEMMA HoldsBandAt ==
  ASSUME NEW p \in Seq(Byte), NEW i \in Nat, NEW v \in 0 .. MaxEqBands - 1, NEW b \in EqBands,
         Holds(p, i, <<v>> \o AppendEqBand(b))
  PROVE  WellFormedBand(p, i) /\ p[i] = v /\ ReadEqBand(p, i + 1) = b
<1>1. v \in Byte /\ v < MaxEqBands /\ Len(p) \in Nat
  BY BandIndex
<1>2. <<v>> \in Bytes(1) /\ AppendEqBand(b) \in Seq(Byte)
  BY <1>1, OneByte, BandType, BytesAre
<1>3. Holds(p, i, <<v>>) /\ Holds(p, i + 1, AppendEqBand(b))
  BY <1>2, HoldsParts
<1>4. p[i] = v
  BY <1>3, HoldsByte
<1>5. ReadEqBand(p, i + 1) = b /\ p[i + 1] <= Notch /\ (i + 1) + 12 <= Len(p)
  BY <1>3, HoldsBand
<1>6. i + EqBandWireSize <= Len(p)
  BY <1>1, <1>5 DEF EqBandWireSize
<1>7. QED
  BY <1>1, <1>4, <1>5, <1>6 DEF WellFormedBand

-----------------------------------------------------------------------------
(* Requests *)

\* By their payload.
LEMMA OpcodesAre ==
  /\ Bare = {1, 4, 6, 9, 16, 20, 21, 23} /\ Text = {5, 15} /\ Flag = {8, 12}
  /\ Index = {2, 10, 14} /\ Position = {3, 11} /\ Content = {17, 18, 19}
  /\ Opcode.SetSpatialMode = 2 /\ Opcode.SetSpeakerMute = 7 /\ Opcode.SetHwEqBand = 13
  /\ Opcode.SetBassEnhancer = 22 /\ Opcode.SetContentEqBand = 17
  /\ Opcode.SetContentEqPreset = 18 /\ Opcode.SaveContentEqPreset = 19
BY DEF Opcode, Bare, Text, Flag, Index, Position, Content

\* The encoders, one kind of request at a time.
LEMMA EncodeIs ==
  ASSUME NEW c
  PROVE  /\ c.op \in Bare => Encode(c) = Message(c.op, << >>)
         /\ c.op \in Text => Encode(c) = Message(c.op, Cut(c.args[1], MaxPayloadSize))
         /\ c.op \in Flag => Encode(c) = Message(c.op, <<Bool(c.args[1])>>)
         /\ c.op \in Index => Encode(c) = Message(c.op, <<c.args[1]>>)
         /\ c.op \in Position =>
              Encode(c) = Message(c.op, <<c.args[1]>> \o AppendFloatBE(c.args[2]))
         /\ c.op = Opcode.SetSpeakerMute =>
              Encode(c) = Message(c.op, <<c.args[1], Bool(c.args[2])>>)
         /\ c.op = Opcode.SetHwEqBand =>
              Encode(c) = Message(c.op, <<c.args[1]>> \o AppendEqBand(c.args[2]))
         /\ c.op = Opcode.SetBassEnhancer =>
              Encode(c) = Message(c.op, AppendBassEnhancerSettings(c.args[1]))
<1> DEFINE op == c.op
           a  == c.args[1]
           b  == c.args[2]
           bare == << >>
           text == Cut(a, MaxPayloadSize)
           flag == <<Bool(a)>>
           index == <<a>>
           position == <<a>> \o AppendFloatBE(b)
           mute == <<a, Bool(b)>>
           band == <<a>> \o AppendEqBand(b)
           bass == AppendBassEnhancerSettings(a)
<1>1. op \notin Content =>
        Encode(c) = Message(op,
          CASE op \in Bare     -> bare
            [] op \in Text     -> text
            [] op \in Flag     -> flag
            [] op \in Index    -> index
            [] op \in Position -> position
            [] op = Opcode.SetSpeakerMute  -> mute
            [] op = Opcode.SetHwEqBand     -> band
            [] op = Opcode.SetBassEnhancer -> bass)
  BY DEF Encode, EncodeRequest
<1> HIDE DEF op, bare, text, flag, index, position, mute, band, bass
<1>2. op \in Bare => Encode(c) = Message(op, bare)
  BY <1>1, OpcodesAre
<1>3. op \in Text => Encode(c) = Message(op, text)
  BY <1>1, OpcodesAre
<1>4. op \in Flag => Encode(c) = Message(op, flag)
  BY <1>1, OpcodesAre
<1>5. op \in Index => Encode(c) = Message(op, index)
  BY <1>1, OpcodesAre
<1>6. op \in Position => Encode(c) = Message(op, position)
  BY <1>1, OpcodesAre
<1>7. op = Opcode.SetSpeakerMute => Encode(c) = Message(op, mute)
  BY <1>1, OpcodesAre
<1>8. op = Opcode.SetHwEqBand => Encode(c) = Message(op, band)
  BY <1>1, OpcodesAre
<1>9. op = Opcode.SetBassEnhancer => Encode(c) = Message(op, bass)
  BY <1>1, OpcodesAre
<1>10. QED
  BY <1>2, <1>3, <1>4, <1>5, <1>6, <1>7, <1>8, <1>9
  DEF op, bare, text, flag, index, position, mute, band, bass

\* Those of the requests for one application.
LEMMA EncodeContentIs ==
  ASSUME NEW c
  PROVE  /\ c.op = Opcode.SetContentEqBand =>
              Encode(c) = Message(c.op, AppendString(c.args[1]) \o <<c.args[2]>>
                                          \o AppendEqBand(c.args[3]))
         /\ c.op = Opcode.SetContentEqPreset =>
              Encode(c) = Message(c.op, AppendString(c.args[1]) \o <<c.args[2]>>)
         /\ c.op = Opcode.SaveContentEqPreset =>
              Encode(c) = Message(c.op, AppendString(c.args[1])
                \o Cut(c.args[2], Max({0, MaxPayloadSize - Len(AppendString(c.args[1]))})))
<1> DEFINE op == c.op
           app == AppendString(c.args[1])
           band == app \o <<c.args[2]>> \o AppendEqBand(c.args[3])
           preset == app \o <<c.args[2]>>
           save == app \o Cut(c.args[2], Max({0, MaxPayloadSize - Len(app)}))
<1>1. op \in Content =>
        Encode(c) = Message(op, CASE op = Opcode.SetContentEqBand    -> band
                                  [] op = Opcode.SetContentEqPreset  -> preset
                                  [] op = Opcode.SaveContentEqPreset -> save)
  BY DEF Encode, EncodeContentRequest
<1> HIDE DEF op, band, preset, save
<1>2. /\ op = Opcode.SetContentEqBand => Encode(c) = Message(op, band)
      /\ op = Opcode.SetContentEqPreset => Encode(c) = Message(op, preset)
      /\ op = Opcode.SaveContentEqPreset => Encode(c) = Message(op, save)
  BY <1>1, OpcodesAre
<1>3. QED
  BY <1>2 DEF op, band, preset, save

\* The decoder, one kind of request at a time.
LEMMA ArgumentsIs ==
  ASSUME NEW op, NEW p
  PROVE  /\ op \in Bare => Arguments(op, p) = << >>
         /\ op \in Text => Arguments(op, p) = <<p>>
         /\ op \in Flag => Arguments(op, p) = <<p[1] # 0>>
         /\ op \in Index => Arguments(op, p) = <<p[1]>>
         /\ op \in Position => Arguments(op, p) = <<p[1], ReadFloatBE(p, 2)>>
         /\ op = Opcode.SetSpeakerMute => Arguments(op, p) = <<p[1], p[2] # 0>>
         /\ op = Opcode.SetHwEqBand => Arguments(op, p) = <<p[1], ReadEqBand(p, 2)>>
         /\ op = Opcode.SetBassEnhancer => Arguments(op, p) = <<ReadBassEnhancerSettings(p)>>
         /\ op = Opcode.SetContentEqBand =>
              Arguments(op, p) =
                <<ReadString(p, 1).value, p[ReadString(p, 1).next],
                  ReadEqBand(p, ReadString(p, 1).next + 1)>>
         /\ op = Opcode.SetContentEqPreset =>
              Arguments(op, p) = <<ReadString(p, 1).value, p[ReadString(p, 1).next]>>
         /\ op = Opcode.SaveContentEqPreset =>
              Arguments(op, p) =
                <<ReadString(p, 1).value, SubSeq(p, ReadString(p, 1).next, Len(p))>>
<1> DEFINE app == ReadString(p, 1)
           bare == << >>
           text == <<p>>
           flag == <<p[1] # 0>>
           index == <<p[1]>>
           position == <<p[1], ReadFloatBE(p, 2)>>
           mute == <<p[1], p[2] # 0>>
           band == <<p[1], ReadEqBand(p, 2)>>
           bass == <<ReadBassEnhancerSettings(p)>>
           content == <<app.value, p[app.next], ReadEqBand(p, app.next + 1)>>
           preset == <<app.value, p[app.next]>>
           save == <<app.value, SubSeq(p, app.next, Len(p))>>
<1>1. Arguments(op, p) =
        CASE op \in Bare     -> bare
          [] op \in Text     -> text
          [] op \in Flag     -> flag
          [] op \in Index    -> index
          [] op \in Position -> position
          [] op = Opcode.SetSpeakerMute      -> mute
          [] op = Opcode.SetHwEqBand         -> band
          [] op = Opcode.SetBassEnhancer     -> bass
          [] op = Opcode.SetContentEqBand    -> content
          [] op = Opcode.SetContentEqPreset  -> preset
          [] op = Opcode.SaveContentEqPreset -> save
  BY DEF Arguments
<1> HIDE DEF bare, text, flag, index, position, mute, band, bass, content, preset, save
<1>2. op \in Bare => Arguments(op, p) = bare
  BY <1>1, OpcodesAre
<1>3. op \in Text => Arguments(op, p) = text
  BY <1>1, OpcodesAre
<1>4. op \in Flag => Arguments(op, p) = flag
  BY <1>1, OpcodesAre
<1>5. op \in Index => Arguments(op, p) = index
  BY <1>1, OpcodesAre
<1>6. op \in Position => Arguments(op, p) = position
  BY <1>1, OpcodesAre
<1>7. op = Opcode.SetSpeakerMute => Arguments(op, p) = mute
  BY <1>1, OpcodesAre
<1>8. op = Opcode.SetHwEqBand => Arguments(op, p) = band
  BY <1>1, OpcodesAre
<1>9. op = Opcode.SetBassEnhancer => Arguments(op, p) = bass
  BY <1>1, OpcodesAre
<1>10. op = Opcode.SetContentEqBand => Arguments(op, p) = content
  BY <1>1, OpcodesAre
<1>11. op = Opcode.SetContentEqPreset => Arguments(op, p) = preset
  BY <1>1, OpcodesAre
<1>12. op = Opcode.SaveContentEqPreset => Arguments(op, p) = save
  BY <1>1, OpcodesAre
<1>13. QED
  BY <1>2, <1>3, <1>4, <1>5, <1>6, <1>7, <1>8, <1>9, <1>10, <1>11, <1>12
  DEF bare, text, flag, index, position, mute, band, bass, content, preset, save

-----------------------------------------------------------------------------
(* What is put together of many pieces *)

\* The length of the first i pieces.
Upto(s, i) == Len(FlattenSeq(Cut(s, i)))

\* A cut one longer has one element more.
LEMMA CutNext ==
  ASSUME NEW S, NEW s \in Seq(S), NEW i \in Nat, i < Len(s)
  PROVE  Cut(s, i + 1) = Append(Cut(s, i), s[i + 1])
<1> DEFINE a == Cut(s, i)
           b == Cut(s, i + 1)
           e == s[i + 1]
           t == Append(a, e)
<1>1. Len(s) \in Nat /\ i + 1 \in Nat /\ i + 1 <= Len(s) /\ e \in S
  <2>1. i + 1 \in 1 .. Len(s) /\ i + 1 \in Nat /\ i + 1 <= Len(s) /\ Len(s) \in Nat
    OBVIOUS
  <2>2. QED
    BY <2>1, ElementOfSeq
<1>2. /\ a \in Seq(S) /\ Len(a) = i /\ \A j \in 1 .. i : a[j] = s[j]
  <2>1. /\ a \in Seq(S) /\ Len(a) = (IF Len(s) <= i THEN Len(s) ELSE i)
        /\ \A j \in 1 .. Len(a) : a[j] = s[j]
    BY CutIs
  <2> HIDE DEF a
  <2>2. Len(a) = i
    BY <1>1, <2>1
  <2>3. QED
    BY <2>1, <2>2
<1>3. /\ b \in Seq(S) /\ Len(b) = i + 1 /\ \A j \in 1 .. i + 1 : b[j] = s[j]
  <2>1. /\ b \in Seq(S) /\ Len(b) = (IF Len(s) <= i + 1 THEN Len(s) ELSE i + 1)
        /\ \A j \in 1 .. Len(b) : b[j] = s[j]
    BY <1>1, CutIs
  <2> HIDE DEF b
  <2>2. Len(b) = i + 1
    BY <1>1, <2>1
  <2>3. QED
    BY <2>1, <2>2
<1> HIDE DEF a, b
<1>4. t \in Seq(S) /\ Len(t) = i + 1 /\ t[i + 1] = e /\ \A j \in 1 .. i : t[j] = a[j]
  <2> HIDE DEF e
  <2>1. QED
    BY <1>1, <1>2
<1> HIDE DEF t
<1>5. ASSUME NEW j \in 1 .. i + 1 PROVE b[j] = t[j]
  <2>1. CASE j = i + 1
    BY <1>3, <1>4, <2>1
  <2>2. CASE j # i + 1
    <3>1. j \in 1 .. i
      BY <2>2
    <3>2. QED
      BY <1>2, <1>3, <1>4, <3>1
  <2>3. QED
    BY <2>1, <2>2
<1>6. b = t
  BY <1>3, <1>4, <1>5, SeqEqual
<1>7. QED
  BY <1>6 DEF a, b, t, e

\* A cut to nothing.
LEMMA CutZero ==
  ASSUME NEW S, NEW s \in Seq(S)
  PROVE  Cut(s, 0) = << >>
<1>1. Len(s) \in Nat /\ Cut(s, 0) \in Seq(S)
      /\ Len(Cut(s, 0)) = IF Len(s) <= 0 THEN Len(s) ELSE 0
  BY CutIs
<1> DEFINE a == Cut(s, 0)
<1>2. a \in Seq(S) /\ Len(a) = IF Len(s) <= 0 THEN Len(s) ELSE 0
  BY <1>1
<1> HIDE DEF a
<1>3. Len(a) = 0
  BY <1>1, <1>2
<1>4. a = << >>
  BY <1>2, <1>3, EmptySeq
<1>5. QED
  BY <1>4 DEF a

\* The bytes up to a piece, piece by piece.
LEMMA UptoIs ==
  ASSUME NEW s \in Seq(Seq(Byte))
  PROVE  /\ Upto(s, 0) = 0
         /\ \A i \in Nat : Upto(s, i) \in Nat
         /\ \A i \in Nat : i < Len(s) =>
              Upto(s, i + 1) = Upto(s, i) + Len(s[i + 1])
<1>1. Upto(s, 0) = 0
  BY CutZero, FlattenEmpty DEF Upto
<1>2. ASSUME NEW i \in Nat
      PROVE  FlattenSeq(Cut(s, i)) \in Seq(Byte)
  <2>1. Cut(s, i) \in Seq(Seq(Byte))
    BY CutIs
  <2>2. QED
    BY <2>1, FlattenType
<1>3. ASSUME NEW i \in Nat PROVE Upto(s, i) \in Nat
  BY <1>2 DEF Upto
<1>4. ASSUME NEW i \in Nat, i < Len(s)
      PROVE  Upto(s, i + 1) = Upto(s, i) + Len(s[i + 1])
  <2> DEFINE a == Cut(s, i)
             e == s[i + 1]
             f == FlattenSeq(a)
  <2>1. a \in Seq(Seq(Byte)) /\ e \in Seq(Byte) /\ f \in Seq(Byte)
    <3>1. i + 1 \in 1 .. Len(s)
      BY <1>4
    <3>2. QED
      BY <1>2, <3>1, CutIs, ElementOfSeq
  <2>2. Cut(s, i + 1) = Append(a, e)
    BY <1>4, CutNext
  <2> HIDE DEF a, e
  <2>3. FlattenSeq(Append(a, e)) = f \o e
    BY <2>1, FlattenAppend
  <2> HIDE DEF f
  <2>4. Len(f \o e) = Len(f) + Len(e)
    BY <2>1, ConcatProperties
  <2>5. QED
    BY <2>2, <2>3, <2>4 DEF Upto, a, e, f
<1>5. QED
  BY <1>1, <1>3, <1>4

\* They grow.
LEMMA UptoGrows ==
  ASSUME NEW s \in Seq(Seq(Byte)), NEW i \in Nat, NEW n \in Nat, i <= n, n <= Len(s)
  PROVE  Upto(s, i) <= Upto(s, n)
<1>1. /\ \A k \in Nat : Upto(s, k) \in Nat
      /\ \A k \in Nat : k < Len(s) => Upto(s, k + 1) = Upto(s, k) + Len(s[k + 1])
      /\ Len(s) \in Nat
  BY UptoIs
<1> DEFINE T == {d \in Nat : i + d <= Len(s) => Upto(s, i) <= Upto(s, i + d)}
<1>2. 0 \in T
  BY <1>1
<1>3. ASSUME NEW d \in Nat, d \in T PROVE d + 1 \in T
  <2>1. SUFFICES ASSUME i + (d + 1) <= Len(s) PROVE Upto(s, i) <= Upto(s, i + (d + 1))
    OBVIOUS
  <2>2. i + d < Len(s) /\ i + (d + 1) = (i + d) + 1 /\ i + d \in Nat
    BY <1>1, <2>1
  <2>3. Upto(s, i) <= Upto(s, i + d)
    BY <1>1, <1>3, <2>2
  <2>4. Upto(s, (i + d) + 1) = Upto(s, i + d) + Len(s[(i + d) + 1])
    BY <1>1, <2>2
  <2>5. Len(s[(i + d) + 1]) \in Nat
    <3>1. (i + d) + 1 \in 1 .. Len(s)
      BY <1>1, <2>2
    <3>2. s[(i + d) + 1] \in Seq(Byte)
      BY <3>1, ElementOfSeq
    <3>3. QED
      BY <3>2, LenProperties
  <2>6. Upto(s, i) \in Nat /\ Upto(s, i + d) \in Nat
    BY <1>1, <2>2
  <2>7. QED
    BY <2>2, <2>3, <2>4, <2>5, <2>6
<1> HIDE DEF T
<1>4. n - i \in Nat /\ i + (n - i) = n
  OBVIOUS
<1>5. n - i \in T
  BY <1>2, <1>3, <1>4, Naturals0
<1>6. QED
  BY <1>4, <1>5 DEF T

\* Pieces of at least w bytes.
LEMMA UptoLeast ==
  ASSUME NEW s \in Seq(Seq(Byte)), NEW w \in Nat, \A i \in 1 .. Len(s) : Len(s[i]) >= w,
         NEW n \in Nat, n <= Len(s)
  PROVE  Upto(s, n) >= w * n
<1>1. /\ \A k \in Nat : Upto(s, k) \in Nat
      /\ \A k \in Nat : k < Len(s) => Upto(s, k + 1) = Upto(s, k) + Len(s[k + 1])
      /\ Len(s) \in Nat /\ Upto(s, 0) = 0
  BY UptoIs
<1> DEFINE T == {k \in Nat : k <= Len(s) => Upto(s, k) >= w * k}
<1>2. 0 \in T
  BY <1>1
<1>3. ASSUME NEW k \in Nat, k \in T PROVE k + 1 \in T
  <2>1. SUFFICES ASSUME k + 1 <= Len(s) PROVE Upto(s, k + 1) >= w * (k + 1)
    OBVIOUS
  <2>2. k < Len(s) /\ k + 1 \in 1 .. Len(s)
    BY <1>1, <2>1
  <2>3. Upto(s, k) >= w * k
    BY <1>1, <1>3, <2>2
  <2> DEFINE a == Upto(s, k)
             b == Upto(s, k + 1)
             e == Len(s[k + 1])
  <2>4. b = a + e /\ e >= w /\ a \in Nat /\ b \in Nat
    BY <1>1, <2>2
  <2>5. e \in Nat
    <3>1. s[k + 1] \in Seq(Byte)
      BY <2>2, ElementOfSeq
    <3>2. QED
      BY <3>1, LenProperties
  <2>6. a >= w * k
    BY <2>3
  <2>7. w * (k + 1) = w * k + w /\ w * k \in Int
    OBVIOUS
  <2> HIDE DEF a, b, e
  <2>8. b >= w * (k + 1)
    BY <2>4, <2>5, <2>6, <2>7
  <2>9. QED
    BY <2>8 DEF b
<1> HIDE DEF T
<1>4. n \in T
  BY <1>2, <1>3, Naturals0
<1>5. QED
  BY <1>4 DEF T

\* Pieces of exactly w bytes.
LEMMA UptoUniform ==
  ASSUME NEW s \in Seq(Seq(Byte)), NEW w \in Nat, \A i \in 1 .. Len(s) : Len(s[i]) = w,
         NEW n \in Nat, n <= Len(s)
  PROVE  Upto(s, n) = w * n
<1>1. /\ \A k \in Nat : Upto(s, k) \in Nat
      /\ \A k \in Nat : k < Len(s) => Upto(s, k + 1) = Upto(s, k) + Len(s[k + 1])
      /\ Len(s) \in Nat /\ Upto(s, 0) = 0
  BY UptoIs
<1> DEFINE T == {k \in Nat : k <= Len(s) => Upto(s, k) = w * k}
<1>2. 0 \in T
  BY <1>1
<1>3. ASSUME NEW k \in Nat, k \in T PROVE k + 1 \in T
  <2>1. SUFFICES ASSUME k + 1 <= Len(s) PROVE Upto(s, k + 1) = w * (k + 1)
    OBVIOUS
  <2>2. k < Len(s) /\ k + 1 \in 1 .. Len(s)
    BY <1>1, <2>1
  <2>3. Upto(s, k) = w * k
    BY <1>1, <1>3, <2>2
  <2>4. Upto(s, k + 1) = Upto(s, k) + w
    BY <1>1, <2>2
  <2>5. w * (k + 1) = w * k + w
    OBVIOUS
  <2>6. QED
    BY <2>3, <2>4, <2>5
<1> HIDE DEF T
<1>4. n \in T
  BY <1>2, <1>3, Naturals0
<1>5. QED
  BY <1>4 DEF T

\* Where the pieces stand together, each stands where the ones before it end.
LEMMA HoldsPieces ==
  ASSUME NEW p \in Seq(Byte), NEW j \in Nat, NEW s \in Seq(Seq(Byte)), NEW n \in Nat,
         n <= Len(s), Holds(p, j, FlattenSeq(Cut(s, n)))
  PROVE  \A i \in Nat : i < n => Holds(p, j + Upto(s, i), s[i + 1])
<1> DEFINE F(i) == FlattenSeq(Cut(s, i))
           T == {d \in Nat : d <= n => Holds(p, j, F(n - d))}
<1>0. Len(s) \in Nat
  OBVIOUS
<1>1. ASSUME NEW i \in Nat, i < Len(s)
      PROVE  F(i) \in Bytes(Upto(s, i)) /\ Upto(s, i) \in Nat /\ s[i + 1] \in Seq(Byte)
             /\ F(i + 1) = F(i) \o s[i + 1]
  <2> DEFINE a == Cut(s, i)
             e == s[i + 1]
  <2>1. a \in Seq(Seq(Byte)) /\ e \in Seq(Byte)
    <3>1. i + 1 \in 1 .. Len(s)
      BY <1>1
    <3>2. QED
      BY <3>1, CutIs, ElementOfSeq
  <2>2. Cut(s, i + 1) = Append(a, e)
    BY <1>1, CutNext
  <2> HIDE DEF a, e
  <2>3. FlattenSeq(Append(a, e)) = FlattenSeq(a) \o e
    BY <2>1, FlattenAppend
  <2>4. FlattenSeq(a) \in Seq(Byte)
    BY <2>1, FlattenType
  <2>5. FlattenSeq(a) \in Bytes(Upto(s, i))
    BY <2>4, BytesAre DEF Upto, a
  <2>6. Upto(s, i) \in Nat
    BY UptoIs
  <2>7. QED
    BY <2>1, <2>2, <2>3, <2>5, <2>6 DEF a, e
<1> HIDE DEF F
<1>2. ASSUME NEW i \in Nat, i < Len(s), Holds(p, j, F(i + 1))
      PROVE  Holds(p, j, F(i)) /\ Holds(p, j + Upto(s, i), s[i + 1])
  <2> DEFINE f == F(i)
             u == Upto(s, i)
             e == s[i + 1]
  <2>1. f \in Bytes(u) /\ u \in Nat /\ e \in Seq(Byte) /\ Holds(p, j, f \o e)
    BY <1>1, <1>2
  <2> HIDE DEF f, u, e
  <2>2. Holds(p, j, f) /\ Holds(p, j + u, e)
    BY <2>1, HoldsParts
  <2>3. QED
    BY <2>2 DEF f, u, e
<1>3. 0 \in T
  BY DEF F
<1>4. ASSUME NEW d \in Nat, d \in T PROVE d + 1 \in T
  <2>1. SUFFICES ASSUME d + 1 <= n PROVE Holds(p, j, F(n - (d + 1)))
    OBVIOUS
  <2> DEFINE k == n - (d + 1)
  <2>2. k \in Nat /\ k < Len(s) /\ k + 1 = n - d /\ d <= n
    BY <1>0, <2>1
  <2>3. Holds(p, j, F(n - d))
    BY <1>4, <2>2
  <2> HIDE DEF k
  <2>4. Holds(p, j, F(k))
    BY <1>2, <2>2, <2>3
  <2>5. QED
    BY <2>4 DEF k
<1>5. ASSUME NEW i \in Nat, i < n PROVE Holds(p, j + Upto(s, i), s[i + 1])
  <2> HIDE DEF T
  <2> DEFINE d == n - (i + 1)
  <2>1. d \in Nat /\ d <= n /\ n - d = i + 1 /\ i < Len(s)
    BY <1>0, <1>5
  <2>2. d \in T
    BY <1>3, <1>4, <2>1, Naturals0
  <2>3. Holds(p, j, F(n - d))
    BY <2>1, <2>2 DEF T
  <2> HIDE DEF d
  <2>4. QED
    BY <1>2, <2>1, <2>3
<1>6. QED
  BY <1>5

\* Pieces of one length lie at multiples of it.
LEMMA HoldsAll ==
  ASSUME NEW p \in Seq(Byte), NEW j \in Nat, NEW s \in Seq(Seq(Byte)), NEW w \in Nat,
         \A i \in 1 .. Len(s) : Len(s[i]) = w
  PROVE  /\ FlattenSeq(s) \in Bytes(w * Len(s))
         /\ Holds(p, j, FlattenSeq(s)) =>
              \A i \in 1 .. Len(s) : Holds(p, j + w * (i - 1), s[i])
<1> DEFINE n == Len(s)
<1>1. n \in Nat /\ n <= Len(s) /\ Cut(s, n) = s
  <2>1. n \in Nat
    OBVIOUS
  <2>2. QED
    BY <2>1, CutIs
<1>2. Upto(s, n) = w * n
  BY <1>1, UptoUniform
<1>3. FlattenSeq(s) \in Seq(Byte)
  BY FlattenType
<1>4. FlattenSeq(s) \in Bytes(w * n)
  BY <1>1, <1>2, <1>3, BytesAre DEF Upto
<1>5. ASSUME Holds(p, j, FlattenSeq(s)), NEW i \in 1 .. n PROVE Holds(p, j + w * (i - 1), s[i])
  <2>1. Holds(p, j, FlattenSeq(Cut(s, n)))
    BY <1>1, <1>5
  <2> HIDE DEF n
  <2> DEFINE k == i - 1
  <2>2. k \in Nat /\ k < n /\ k + 1 = i /\ k <= Len(s)
    BY <1>1
  <2> HIDE DEF k
  <2>3. Holds(p, j + Upto(s, k), s[k + 1])
    BY <1>1, <2>1, <2>2, HoldsPieces
  <2>4. Upto(s, k) = w * k
    BY <2>2, UptoUniform
  <2>5. QED
    BY <2>2, <2>3, <2>4 DEF k
<1>6. QED
  BY <1>4, <1>5

-----------------------------------------------------------------------------
(* Responses *)

\* The opcodes of the responses.
LEMMA ResponsesAre ==
  /\ Opcode.StatusResponse = 129 /\ Opcode.ErrorResponse = 130
  /\ Opcode.DeviceListResponse = 131 /\ Opcode.HrtfCatalogResponse = 132
  /\ Opcode.ContentStreamListResponse = 133 /\ Opcode.EqPresetCatalogResponse = 134
  /\ Opcode.HwEqStateResponse = 135 /\ Opcode.BassEnhancerStateResponse = 136
BY DEF Opcode

\* What the engine answers, by opcode.
LEMMA RepliesAre ==
  ASSUME NEW c, NEW r \in Replies(c)
  PROVE  \/ r.op = Opcode.ErrorResponse /\ r.value = << >>
         \/ r.op = Opcode.StatusResponse /\ r.value \in Statuses
         \/ r.op = Opcode.DeviceListResponse /\ r.value \in Pairs
         \/ r.op = Opcode.ContentStreamListResponse /\ r.value \in Pairs
         \/ r.op = Opcode.HrtfCatalogResponse /\ r.value \in Names
         \/ r.op = Opcode.EqPresetCatalogResponse /\ r.value \in Names
         \/ r.op = Opcode.HwEqStateResponse /\ r.value \in Bands
         \/ r.op = Opcode.BassEnhancerStateResponse /\ r.value \in Bass
<1> DEFINE With(op, values) == {Reply(op, v) : v \in values}
<1>1. ASSUME NEW op, NEW values, r \in With(op, values)
      PROVE  r.op = op /\ r.value \in values
  BY <1>1 DEF Reply
<1>2. r = Reply(Opcode.ErrorResponse, << >>) => r.op = Opcode.ErrorResponse /\ r.value = << >>
  BY DEF Reply
<1>3. \/ r = Reply(Opcode.ErrorResponse, << >>)
      \/ r \in With(Opcode.StatusResponse, Statuses)
      \/ r \in With(Opcode.DeviceListResponse, Pairs)
      \/ r \in With(Opcode.ContentStreamListResponse, Pairs)
      \/ r \in With(Opcode.HrtfCatalogResponse, Names)
      \/ r \in With(Opcode.EqPresetCatalogResponse, Names)
      \/ r \in With(Opcode.HwEqStateResponse, Bands)
      \/ r \in With(Opcode.BassEnhancerStateResponse, Bass)
  <2> DEFINE error   == Reply(Opcode.ErrorResponse, << >>)
             status  == With(Opcode.StatusResponse, Statuses)
             devices == With(Opcode.DeviceListResponse, Pairs)
             streams == With(Opcode.ContentStreamListResponse, Pairs)
             hrtf    == With(Opcode.HrtfCatalogResponse, Names)
             presets == With(Opcode.EqPresetCatalogResponse, Names)
             bands   == With(Opcode.HwEqStateResponse, Bands)
             bass    == With(Opcode.BassEnhancerStateResponse, Bass)
             op      == c.op
  <2>1. Replies(c) =
          IF c = None
            THEN {error}
            ELSE CASE op = Opcode.GetDevices     -> devices
                   [] op = Opcode.GetHrtfCatalog -> hrtf
                   [] op = Opcode.GetHwEqState   -> bands
                   [] op = Opcode.GetBassEnhancerState -> bass
                   [] op = Opcode.GetContentStreams    -> streams \cup status
                   [] op = Opcode.GetEqPresetCatalog   -> presets \cup status
                   [] OTHER -> status
    BY DEF Replies
  <2> HIDE DEF error, status, devices, streams, hrtf, presets, bands, bass, op
  <2>2. \/ r = error \/ r \in status \/ r \in devices \/ r \in streams \/ r \in hrtf
        \/ r \in presets \/ r \in bands \/ r \in bass
    BY <2>1
  <2>3. QED
    BY <2>2 DEF error, status, devices, streams, hrtf, presets, bands, bass
<1> HIDE DEF With
<1>4. QED
  BY <1>1, <1>2, <1>3

\* The encoder used for each.
LEMMA EncodeReplyIs ==
  ASSUME NEW r
  PROVE  /\ r.op = Opcode.DeviceListResponse =>
              EncodeReply(r) = EncodeDeviceListResponse(r.value)
         /\ r.op = Opcode.HrtfCatalogResponse =>
              EncodeReply(r) = EncodeHrtfCatalogResponse(r.value)
         /\ r.op = Opcode.HwEqStateResponse => EncodeReply(r) = EncodeHwEqStateResponse(r.value)
         /\ r.op = Opcode.BassEnhancerStateResponse =>
              EncodeReply(r) = EncodeBassEnhancerStateResponse(r.value)
         /\ r.op = Opcode.ContentStreamListResponse =>
              EncodeReply(r) = EncodeContentStreamListResponse(r.value)
         /\ r.op = Opcode.EqPresetCatalogResponse =>
              EncodeReply(r) = EncodeEqPresetCatalogResponse(r.value)
         /\ r.op = Opcode.StatusResponse => EncodeReply(r) = EncodeStatusResponse(r.value)
         /\ r.op = Opcode.ErrorResponse => EncodeReply(r) = EncodeErrorResponse(r.value)
<1> DEFINE op == r.op
           v  == r.value
<1>1. EncodeReply(r) =
        CASE op = Opcode.DeviceListResponse        -> EncodeDeviceListResponse(v)
          [] op = Opcode.HrtfCatalogResponse       -> EncodeHrtfCatalogResponse(v)
          [] op = Opcode.HwEqStateResponse         -> EncodeHwEqStateResponse(v)
          [] op = Opcode.BassEnhancerStateResponse -> EncodeBassEnhancerStateResponse(v)
          [] op = Opcode.ContentStreamListResponse -> EncodeContentStreamListResponse(v)
          [] op = Opcode.EqPresetCatalogResponse   -> EncodeEqPresetCatalogResponse(v)
          [] op = Opcode.StatusResponse            -> EncodeStatusResponse(v)
          [] op = Opcode.ErrorResponse             -> EncodeErrorResponse(v)
  BY DEF EncodeReply
<1> HIDE DEF op, v
<1>2. /\ op = Opcode.DeviceListResponse => EncodeReply(r) = EncodeDeviceListResponse(v)
      /\ op = Opcode.HrtfCatalogResponse => EncodeReply(r) = EncodeHrtfCatalogResponse(v)
  BY <1>1, ResponsesAre
<1>3. /\ op = Opcode.HwEqStateResponse => EncodeReply(r) = EncodeHwEqStateResponse(v)
      /\ op = Opcode.BassEnhancerStateResponse =>
           EncodeReply(r) = EncodeBassEnhancerStateResponse(v)
  BY <1>1, ResponsesAre
<1>4. /\ op = Opcode.ContentStreamListResponse =>
           EncodeReply(r) = EncodeContentStreamListResponse(v)
      /\ op = Opcode.EqPresetCatalogResponse => EncodeReply(r) = EncodeEqPresetCatalogResponse(v)
  BY <1>1, ResponsesAre
<1>5. /\ op = Opcode.StatusResponse => EncodeReply(r) = EncodeStatusResponse(v)
      /\ op = Opcode.ErrorResponse => EncodeReply(r) = EncodeErrorResponse(v)
  BY <1>1, ResponsesAre
<1>6. QED
  BY <1>2, <1>3, <1>4, <1>5 DEF op, v

\* The decoder the client uses for each.
LEMMA DecodeResponseIs ==
  ASSUME NEW p
  PROVE  /\ DecodeResponse(Opcode.DeviceListResponse, p) = DecodeDeviceListResponse(p)
         /\ DecodeResponse(Opcode.HrtfCatalogResponse, p) = DecodeHrtfCatalogResponse(p)
         /\ DecodeResponse(Opcode.HwEqStateResponse, p) = DecodeHwEqStateResponse(p)
         /\ DecodeResponse(Opcode.BassEnhancerStateResponse, p) =
              DecodeBassEnhancerStateResponse(p)
         /\ DecodeResponse(Opcode.ContentStreamListResponse, p) =
              DecodeContentStreamListResponse(p)
         /\ DecodeResponse(Opcode.EqPresetCatalogResponse, p) = DecodeEqPresetCatalogResponse(p)
         /\ DecodeResponse(Opcode.StatusResponse, p) = DecodeStatusResponse(p)
BY ResponsesAre DEF DecodeResponse

\* The error, the curve and the bass enhancer's settings.
LEMMA ErrorReturns ==
  EncodeErrorResponse(<< >>) = Message(Opcode.ErrorResponse, << >>)
<1>1. MaxPayloadSize \in Nat
  BY ProtocolAssumption
<1> DEFINE e == << >>
<1>2. e \in Seq(Byte) /\ Len(e) <= MaxPayloadSize
  BY <1>1
<1> HIDE DEF e
<1>3. Cut(e, MaxPayloadSize) = e
  BY <1>1, <1>2, CutIs
<1>4. QED
  BY <1>3 DEF EncodeErrorResponse, e

\* The bass enhancer's state, encoded and decoded, is itself.
LEMMA BassReturns ==
  ASSUME NEW b \in Bass
  PROVE  \E n \in Half : \E p \in Bytes(n) :
           /\ n <= MaxPayloadSize
           /\ EncodeBassEnhancerStateResponse(b) = Message(Opcode.BassEnhancerStateResponse, p)
           /\ DecodeBassEnhancerStateResponse(p) = b /\ b # None
<1>1. b \in BassEnhancers /\ 13 <= MaxPayloadSize /\ b # None
  BY RepliesAssumption, NoneAssumption DEF BassEnhancerWireSize
<1> DEFINE p == AppendBassEnhancerSettings(b)
<1>2. p \in Bytes(13) /\ 13 \in Half
  BY <1>1, BassType, HalfIs, MaxU16Is
<1>3. p \in Seq(Byte) /\ Len(p) = 13
  BY <1>2, BytesAre
<1>4. Holds(p, 1, AppendBassEnhancerSettings(b))
  BY <1>3, HoldsItself
<1>5. ReadBassEnhancerSettings(p) = b
  BY <1>1, <1>3, <1>4, HoldsBass
<1>6. EncodeBassEnhancerStateResponse(b) = Message(Opcode.BassEnhancerStateResponse, p)
  BY DEF EncodeBassEnhancerStateResponse
<1> HIDE DEF p
<1>7. DecodeBassEnhancerStateResponse(p) = b
  BY <1>3, <1>5 DEF DecodeBassEnhancerStateResponse, BassEnhancerWireSize
<1>8. QED
  BY <1>1, <1>2, <1>6, <1>7

\* So is the curve.
LEMMA BandsReturn ==
  ASSUME NEW bands \in Bands
  PROVE  \E n \in Half : \E p \in Bytes(n) :
           /\ n <= MaxPayloadSize
           /\ EncodeHwEqStateResponse(bands) = Message(Opcode.HwEqStateResponse, p)
           /\ DecodeHwEqStateResponse(p) = bands /\ bands # None
<1> DEFINE k == MaxEqBands
           s == [i \in 1 .. k |-> AppendEqBand(bands[i])]
           p == FlattenSeq(s)
           n == 13 * k
<1>1. /\ bands \in [1 .. k -> EqBands] /\ bands # None /\ k \in Nat
      /\ k * EqBandWireSize <= MaxPayloadSize /\ EqBandWireSize = 13
      /\ MaxPayloadSize \in Nat /\ MaxPayloadSize <= MaxU16
  BY RepliesAssumption, NoneAssumption, ProtocolAssumption, MaxU16Is DEF EqBandWireSize
<1> HIDE DEF k
<1>2. n \in Nat /\ n <= MaxPayloadSize /\ k * EqBandWireSize = n
  BY <1>1
<1>3. n \in Half
  BY <1>1, <1>2, HalfIs, MaxU16Is
<1>4. ASSUME NEW i \in 1 .. k PROVE AppendEqBand(bands[i]) \in Bytes(13) /\ bands[i] \in EqBands
  BY <1>1, BandType
<1>5. s \in Seq(Seq(Byte)) /\ Len(s) = k /\ \A i \in 1 .. k : s[i] = AppendEqBand(bands[i])
  <2> DEFINE e(i) == AppendEqBand(bands[i])
  <2>1. \A i \in 1 .. k : e(i) \in Seq(Byte)
    BY <1>4, BytesAre
  <2> HIDE DEF e
  <2>2. [i \in 1 .. k |-> e(i)] \in Seq(Seq(Byte)) /\ Len([i \in 1 .. k |-> e(i)]) = k
        /\ \A i \in 1 .. k : [j \in 1 .. k |-> e(j)][i] = e(i)
    BY <1>1, <2>1
  <2>3. QED
    BY <2>2 DEF e
<1>6. EncodeHwEqStateResponse(bands) = Message(Opcode.HwEqStateResponse, p)
  BY DEF EncodeHwEqStateResponse, k
<1> HIDE DEF s
<1>7. \A i \in 1 .. Len(s) : Len(s[i]) = 13
  BY <1>4, <1>5, BytesAre
<1>8. p \in Bytes(n)
  <2>1. FlattenSeq(s) \in Bytes(13 * Len(s))
    <3>1. << >> \in Seq(Byte) /\ 13 \in Nat /\ 1 \in Nat
      OBVIOUS
    <3>2. QED
      BY <1>5, <1>7, <3>1, HoldsAll
  <2>2. QED
    BY <1>5, <2>1
<1>9. p \in Seq(Byte) /\ Len(p) = n
  BY <1>8, BytesAre
<1>10. Holds(p, 1, FlattenSeq(s))
  BY <1>9, HoldsItself
<1> HIDE DEF p
<1>11. \A i \in 1 .. Len(s) : Holds(p, 1 + 13 * (i - 1), s[i])
  BY <1>5, <1>7, <1>9, <1>10, HoldsAll
<1>12. ASSUME NEW i \in 1 .. k PROVE ReadEqBand(p, 1 + (i - 1) * EqBandWireSize) = bands[i]
  <2> DEFINE j == 1 + 13 * (i - 1)
  <2>1. j \in Nat /\ 1 + (i - 1) * EqBandWireSize = j
    BY <1>1
  <2>2. Holds(p, j, AppendEqBand(bands[i]))
    BY <1>5, <1>11
  <2> HIDE DEF j
  <2>3. QED
    BY <1>4, <1>9, <2>1, <2>2, HoldsBand
<1>13. DecodeHwEqStateResponse(p) = bands
  <2>1. Len(p) = k * EqBandWireSize
    BY <1>2, <1>9
  <2>2. DecodeHwEqStateResponse(p) = [i \in 1 .. k |-> ReadEqBand(p, 1 + (i - 1) * EqBandWireSize)]
    BY <2>1 DEF DecodeHwEqStateResponse, k
  <2>3. QED
    BY <1>1, <1>12, <2>2
<1> HIDE DEF n
<1>14. QED
  BY <1>1, <1>2, <1>3, <1>6, <1>8, <1>13

\* The status.
LEMMA FloatsHeld ==
  ASSUME NEW fs \in [1 .. SpeakerCount -> Float]
  PROVE  /\ AppendFloats(fs) \in Bytes(4 * SpeakerCount)
         /\ \A p \in Seq(Byte), i \in Nat : Holds(p, i, AppendFloats(fs)) => ReadFloats(p, i) = fs
<1> DEFINE k == SpeakerCount
           s == [i \in 1 .. k |-> AppendFloatBE(fs[i])]
<1>1. k \in Nat /\ fs \in [1 .. k -> Float] /\ AppendFloats(fs) = FlattenSeq(s)
  BY ProtocolAssumption DEF AppendFloats
<1> HIDE DEF k
<1>2. ASSUME NEW i \in 1 .. k PROVE AppendFloatBE(fs[i]) \in Bytes(4) /\ fs[i] \in Float
  BY <1>1, FloatType
<1>3. s \in Seq(Seq(Byte)) /\ Len(s) = k /\ \A i \in 1 .. k : s[i] = AppendFloatBE(fs[i])
  <2> DEFINE e(i) == AppendFloatBE(fs[i])
  <2>1. \A i \in 1 .. k : e(i) \in Seq(Byte)
    BY <1>2, BytesAre
  <2> HIDE DEF e
  <2>2. [i \in 1 .. k |-> e(i)] \in Seq(Seq(Byte)) /\ Len([i \in 1 .. k |-> e(i)]) = k
        /\ \A i \in 1 .. k : [j \in 1 .. k |-> e(j)][i] = e(i)
    BY <1>1, <2>1
  <2>3. QED
    BY <2>2 DEF e
<1> HIDE DEF s
<1>4. \A i \in 1 .. Len(s) : Len(s[i]) = 4
  BY <1>2, <1>3, BytesAre
<1>5. AppendFloats(fs) \in Bytes(4 * k)
  <2>1. FlattenSeq(s) \in Bytes(4 * Len(s))
    <3>1. << >> \in Seq(Byte) /\ 4 \in Nat /\ 1 \in Nat
      OBVIOUS
    <3>2. QED
      BY <1>3, <1>4, <3>1, HoldsAll
  <2>2. QED
    BY <1>1, <1>3, <2>1
<1>6. ASSUME NEW p \in Seq(Byte), NEW i \in Nat, Holds(p, i, AppendFloats(fs))
      PROVE  ReadFloats(p, i) = fs
  <2>1. \A j \in 1 .. Len(s) : Holds(p, i + 4 * (j - 1), s[j])
    BY <1>1, <1>3, <1>4, <1>6, HoldsAll
  <2>2. ASSUME NEW j \in 1 .. k PROVE ReadFloatBE(p, i + 4 * (j - 1)) = fs[j]
    <3> DEFINE m == i + 4 * (j - 1)
    <3>1. m \in Nat
      BY <1>1
    <3>2. Holds(p, m, AppendFloatBE(fs[j]))
      BY <1>3, <2>1
    <3> HIDE DEF m
    <3>3. ReadFloatBE(p, m) = fs[j]
      BY <1>2, <1>6, <3>1, <3>2, HoldsFloat
    <3>4. QED
      BY <3>3 DEF m
  <2>3. ReadFloats(p, i) = [j \in 1 .. k |-> ReadFloatBE(p, i + 4 * (j - 1))]
    BY DEF ReadFloats, k
  <2>4. QED
    BY <1>1, <2>2, <2>3
<1>7. QED
  BY <1>5, <1>6 DEF k

\* A Boolean is 0 or another byte.
LEMMA BoolIs ==
  ASSUME NEW b \in BOOLEAN
  PROVE  Bool(b) \in Byte /\ (Bool(b) # 0) = b
<1>1. Bool(b) \in Nat /\ Bool(b) <= 255 /\ (Bool(b) # 0 <=> b)
  BY DEF Bool
<1>2. Bool(b) \in Byte
  BY <1>1, ByteIs
<1>3. (Bool(b) # 0) = b
  BY <1>1, Zenon
<1>4. QED
  BY <1>2, <1>3

\* A flag per speaker, read back.
LEMMA FlagsHeld ==
  ASSUME NEW m \in [1 .. SpeakerCount -> BOOLEAN]
  PROVE  /\ [i \in 1 .. SpeakerCount |-> Bool(m[i])] \in Bytes(SpeakerCount)
         /\ \A p \in Seq(Byte), i \in Nat :
              Holds(p, i + 1, [j \in 1 .. SpeakerCount |-> Bool(m[j])]) =>
                [j \in 1 .. SpeakerCount |-> p[i + j] # 0] = m
<1> DEFINE k == SpeakerCount
           s == [i \in 1 .. k |-> Bool(m[i])]
<1>1. k \in Nat /\ m \in [1 .. k -> BOOLEAN]
  BY ProtocolAssumption
<1> HIDE DEF k
<1>2. ASSUME NEW i \in 1 .. k PROVE Bool(m[i]) \in Byte /\ (Bool(m[i]) # 0) = m[i]
  <2> DEFINE b == m[i]
  <2>1. b \in BOOLEAN
    BY <1>1
  <2> HIDE DEF b
  <2>2. Bool(b) \in Byte /\ (Bool(b) # 0) = b
    BY <2>1, BoolIs
  <2>3. QED
    BY <2>2 DEF b
<1>3. s \in Seq(Byte) /\ Len(s) = k /\ \A i \in 1 .. k : s[i] = Bool(m[i])
  <2> DEFINE e(i) == Bool(m[i])
  <2>1. \A i \in 1 .. k : e(i) \in Byte
    BY <1>2
  <2> HIDE DEF e
  <2>2. [i \in 1 .. k |-> e(i)] \in Seq(Byte) /\ Len([i \in 1 .. k |-> e(i)]) = k
        /\ \A i \in 1 .. k : [j \in 1 .. k |-> e(j)][i] = e(i)
    BY <1>1, <2>1
  <2>3. QED
    BY <2>2 DEF e
<1>4. s \in Bytes(k)
  BY <1>3, BytesAre
<1> HIDE DEF s
<1>5. ASSUME NEW p \in Seq(Byte), NEW i \in Nat, Holds(p, i + 1, s)
      PROVE  [j \in 1 .. k |-> p[i + j] # 0] = m
  <2>1. ASSUME NEW j \in 1 .. k PROVE (p[i + j] # 0) = m[j]
    <3>1. p[(i + 1) + j - 1] = s[j]
      BY <1>3, <1>5 DEF Holds
    <3>2. (i + 1) + j - 1 = i + j
      BY <1>1
    <3>3. p[i + j] = Bool(m[j])
      BY <1>3, <3>1, <3>2
    <3>4. (Bool(m[j]) # 0) = m[j]
      BY <1>2
    <3>5. QED
      BY <3>3, <3>4, Zenon
  <2> DEFINE e(j) == p[i + j] # 0
  <2>2. \A j \in 1 .. k : e(j) = m[j]
    BY <2>1
  <2> HIDE DEF e
  <2>3. [j \in 1 .. k |-> e(j)] = m
    BY <1>1, <2>2
  <2>4. QED
    BY <2>3 DEF e
<1>6. QED
  BY <1>4, <1>5 DEF s, k

\* The length of a message.
LEMMA MessageLength ==
  ASSUME NEW op, NEW p \in Seq(Byte)
  PROVE  Len(Message(op, p)) = 3 + Len(p)
<1> DEFINE n == Len(p)
           h == AppendU16(n)
           a == <<op>> \o h
<1>1. n \in Nat
  OBVIOUS
<1>2. h \in Seq(Int) /\ Len(h) = 2
  <2> HIDE DEF n
  <2>1. (n \div 256) % 256 \in Int /\ n % 256 \in Int
    BY <1>1
  <2>2. QED
    BY <2>1 DEF AppendU16
<1> HIDE DEF h, n
<1>3. a \in Seq(Int \cup {op}) /\ Len(a) = 3
  <2>1. h \in Seq(Int \cup {op}) /\ Len(h) = 2
    BY <1>2
  <2>2. <<op>> \in Seq(Int \cup {op}) /\ Len(<<op>>) = 1
    OBVIOUS
  <2> DEFINE x == <<op>>
  <2>3. x \in Seq(Int \cup {op}) /\ Len(x) = 1
    BY <2>2
  <2> HIDE DEF x
  <2>4. x \o h \in Seq(Int \cup {op}) /\ Len(x \o h) = Len(x) + Len(h)
    BY <2>1, <2>3, ConcatProperties
  <2>5. Len(x \o h) = 3
    BY <2>1, <2>3, <2>4
  <2>6. QED
    BY <2>4, <2>5 DEF x
<1> HIDE DEF a
<1>4. /\ a \in Seq(Int \cup {op} \cup Byte) /\ p \in Seq(Int \cup {op} \cup Byte)
  BY <1>3
<1>5. Len(a \o p) = Len(a) + Len(p)
  BY <1>4, ConcatProperties
<1>6. Message(op, p) = a \o p
  BY DEF Message, a, h, n
<1>7. QED
  BY <1>3, <1>5, <1>6

\* A string takes two bytes more than it has, unless it is cut.
LEMMA StringLength ==
  ASSUME NEW a \in Seq(Byte)
  PROVE  /\ AppendString(a) \in Bytes(Len(AppendString(a))) /\ Len(AppendString(a)) \in Nat
         /\ Len(AppendString(a)) >= 2
         /\ Len(AppendString(a)) <= MaxU16 => Len(a) <= MaxU16
         /\ Len(a) <= MaxU16 => Len(AppendString(a)) = 2 + Len(a)
<1> DEFINE c == Cut(a, MaxU16)
           l == Len(c)
<1>1. MaxU16 \in Nat /\ Len(a) \in Nat
  BY MaxU16Is
<1>2. c \in Seq(Byte) /\ l = (IF Len(a) <= MaxU16 THEN Len(a) ELSE MaxU16)
  BY <1>1, CutIs
<1>3. AppendString(a) = AppendString(c)
  <2>1. l <= MaxU16 /\ Cut(c, MaxU16) = c
    <3>1. l <= MaxU16
      BY <1>1, <1>2
    <3> HIDE DEF c
    <3>2. QED
      BY <1>1, <1>2, <3>1, CutIs
  <2>2. QED
    BY <2>1 DEF AppendString
<1> HIDE DEF c
<1>4. l \in Nat /\ l <= MaxU16
  BY <1>1, <1>2
<1>5. AppendString(c) \in Bytes(2 + l)
  BY <1>2, <1>4, StringIs
<1>6. AppendString(a) \in Seq(Byte) /\ Len(AppendString(a)) = 2 + l
  BY <1>3, <1>5, BytesAre
<1> DEFINE n == Len(AppendString(a))
<1>7. n = 2 + l /\ AppendString(a) \in Bytes(n)
  BY <1>6, BytesAre
<1> HIDE DEF n, l
<1>8. /\ n \in Nat /\ n >= 2
      /\ (n <= MaxU16 => Len(a) <= MaxU16) /\ (Len(a) <= MaxU16 => n = 2 + Len(a))
  BY <1>1, <1>2, <1>4, <1>7
<1>9. QED
  BY <1>7, <1>8 DEF n

\* The status, encoded and decoded, is itself.
LEMMA StatusReturns ==
  ASSUME NEW s \in Statuses
  PROVE  \E n \in Half : \E p \in Bytes(n) :
           /\ n <= MaxPayloadSize
           /\ EncodeStatusResponse(s) = Message(Opcode.StatusResponse, p)
           /\ DecodeStatusResponse(p) = s /\ s # None
<1> DEFINE k    == SpeakerCount
           mode == s.mode
           azimuth == s.azimuth
           muted == s.muted
           noise == s.noise
           hrtf == s.hrtf
           distance == s.distance
           near == s.nearField
           device == s.device
<1>1. /\ s = [mode |-> mode, azimuth |-> azimuth, muted |-> muted, noise |-> noise, hrtf |-> hrtf,
              distance |-> distance, nearField |-> near, device |-> device]
      /\ mode \in 0 .. Advanced /\ azimuth \in [1 .. k -> Float] /\ muted \in [1 .. k -> BOOLEAN]
      /\ noise \in BOOLEAN /\ hrtf \in Byte /\ distance \in [1 .. k -> Float]
      /\ near \in BOOLEAN /\ device \in Seq(Byte) /\ s # None
  BY RepliesAssumption, NoneAssumption DEF Status
<1> DEFINE a == <<mode>>
           b == AppendFloats(azimuth)
           c == [i \in 1 .. k |-> Bool(muted[i])]
           d == <<Bool(noise), hrtf>>
           e == AppendFloats(distance)
           f == <<Bool(near)>>
           g == AppendString(device)
           l == Len(g)
           p == (((((a \o b) \o c) \o d) \o e) \o f) \o g
           n == (4 + 9 * k) + l
<1>2. EncodeStatusResponse(s) = Message(Opcode.StatusResponse, p)
  BY DEF EncodeStatusResponse
<1>3. k \in Nat /\ MaxPayloadSize \in Nat /\ MaxPayloadSize <= MaxU16
  BY ProtocolAssumption, MaxU16Is
<1>4. mode \in Byte /\ mode <= Advanced
  <2>1. mode \in Nat /\ mode <= 255 /\ mode <= Advanced
    BY <1>1 DEF Advanced
  <2>2. QED
    BY <2>1, ByteIs
<1>5. Bool(noise) \in Byte /\ (Bool(noise) # 0) = noise
  <2> HIDE DEF noise
  <2>1. QED
    BY <1>1, BoolIs
<1>6. Bool(near) \in Byte /\ (Bool(near) # 0) = near
  <2> HIDE DEF near
  <2>1. QED
    BY <1>1, BoolIs
<1> HIDE DEF mode, azimuth, muted, noise, hrtf, distance, near, device
<1>7. /\ a \in Bytes(1) /\ b \in Bytes(4 * k) /\ c \in Bytes(k) /\ e \in Bytes(4 * k)
      /\ f \in Bytes(1) /\ g \in Bytes(l) /\ l \in Nat
  BY <1>1, <1>4, <1>6, OneByte, FloatsHeld, FlagsHeld, StringLength
<1>8. d \in Bytes(2) /\ d[1] = Bool(noise) /\ d[2] = hrtf
  <2> DEFINE v == Bool(noise)
  <2>1. v \in Byte /\ d = <<v, hrtf>>
    BY <1>5
  <2> HIDE DEF v, d
  <2>2. <<v, hrtf>> \in Bytes(2) /\ <<v, hrtf>>[1] = v /\ <<v, hrtf>>[2] = hrtf
    BY <1>1, <2>1 DEF Bytes
  <2>3. QED
    BY <2>1, <2>2 DEF v
<1> DEFINE P2 == a \o b
           P3 == P2 \o c
           P4 == P3 \o d
           P5 == P4 \o e
           P6 == P5 \o f
<1> HIDE DEF a, b, c, d, e, f, g, k, l
<1>9. /\ 4 * k \in Nat /\ 1 + 4 * k \in Nat /\ 1 + 5 * k \in Nat /\ 3 + 5 * k \in Nat
      /\ 3 + 9 * k \in Nat /\ 4 + 9 * k \in Nat
      /\ (1 + 4 * k) + k = 1 + 5 * k /\ (1 + 5 * k) + 2 = 3 + 5 * k
      /\ (3 + 5 * k) + 4 * k = 3 + 9 * k /\ (3 + 9 * k) + 1 = 4 + 9 * k
  BY <1>3
<1>10. P2 \in Bytes(1 + 4 * k)
  BY <1>7, <1>9, Joined
<1> HIDE DEF P2
<1>11. P3 \in Bytes(1 + 5 * k)
  <2>1. P3 \in Bytes((1 + 4 * k) + k)
    BY <1>3, <1>7, <1>9, <1>10, Joined
  <2>2. QED
    BY <1>9, <2>1
<1> HIDE DEF P3
<1>12. P4 \in Bytes(3 + 5 * k)
  <2>1. P4 \in Bytes((1 + 5 * k) + 2)
    BY <1>8, <1>9, <1>11, Joined
  <2>2. QED
    BY <1>9, <2>1
<1> HIDE DEF P4
<1>13. P5 \in Bytes(3 + 9 * k)
  <2>1. P5 \in Bytes((3 + 5 * k) + 4 * k)
    BY <1>7, <1>9, <1>12, Joined
  <2>2. QED
    BY <1>9, <2>1
<1> HIDE DEF P5
<1>14. P6 \in Bytes(4 + 9 * k)
  <2>1. P6 \in Bytes((3 + 9 * k) + 1)
    BY <1>7, <1>9, <1>13, Joined
  <2>2. QED
    BY <1>9, <2>1
<1> HIDE DEF P6
<1>15. p = P6 \o g
  BY DEF P2, P3, P4, P5, P6
<1> HIDE DEF p
<1>16. p \in Bytes(n)
  BY <1>7, <1>9, <1>14, <1>15, Joined
<1>17. p \in Seq(Byte) /\ Len(p) = n /\ n \in Nat
  BY <1>3, <1>7, <1>16, BytesAre
<1>18. n <= MaxPayloadSize
  <2>1. Len(EncodeStatusResponse(s)) <= HeaderSize + MaxPayloadSize
    BY RepliesAssumption
  <2>2. Len(EncodeStatusResponse(s)) = 3 + n
    BY <1>2, <1>17, MessageLength
  <2> HIDE DEF n
  <2>3. QED
    BY <1>3, <1>17, <2>1, <2>2 DEF HeaderSize
<1>19. n \in Half
  <2> HIDE DEF n
  <2>1. n <= MaxU16
    BY <1>3, <1>17, <1>18, MaxU16Is
  <2>2. QED
    BY <1>17, <2>1, HalfIs
<1>20. Len(device) <= MaxU16
  <2>1. l <= MaxU16
    BY <1>3, <1>7, <1>18, MaxU16Is
  <2>2. QED
    BY <1>1, <2>1, StringLength DEF l, g
<1>21. /\ a \in Seq(Byte) /\ b \in Seq(Byte) /\ c \in Seq(Byte) /\ d \in Seq(Byte)
       /\ e \in Seq(Byte) /\ f \in Seq(Byte) /\ g \in Seq(Byte)
  BY <1>7, <1>8, BytesAre
<1>22. Holds(p, 1, P6 \o g)
  BY <1>15, <1>17, HoldsItself
<1>23. Holds(p, 1, P6) /\ Holds(p, 1 + (4 + 9 * k), g)
  BY <1>9, <1>14, <1>17, <1>21, <1>22, HoldsParts
<1>24. Holds(p, 1, P5) /\ Holds(p, 1 + (3 + 9 * k), f)
  BY <1>9, <1>13, <1>17, <1>21, <1>23, HoldsParts DEF P6
<1>25. Holds(p, 1, P4) /\ Holds(p, 1 + (3 + 5 * k), e)
  BY <1>9, <1>12, <1>17, <1>21, <1>24, HoldsParts DEF P5
<1>26. Holds(p, 1, P3) /\ Holds(p, 1 + (1 + 5 * k), d)
  BY <1>9, <1>11, <1>17, <1>21, <1>25, HoldsParts DEF P4
<1>27. Holds(p, 1, P2) /\ Holds(p, 1 + (1 + 4 * k), c)
  BY <1>9, <1>10, <1>17, <1>21, <1>26, HoldsParts DEF P3
<1>28. Holds(p, 1, a) /\ Holds(p, 1 + 1, b)
  BY <1>7, <1>17, <1>21, <1>27, HoldsParts DEF P2
<1>29. p[1] = mode
  BY <1>17, <1>28, HoldsByte DEF a
<1>30. ReadFloats(p, 2) = azimuth
  <2> DEFINE j == 2
  <2>1. j \in Nat /\ 1 + 1 = j
    OBVIOUS
  <2> HIDE DEF j
  <2>2. ReadFloats(p, j) = azimuth
    BY <1>1, <1>17, <1>28, <2>1, FloatsHeld DEF b, k
  <2>3. QED
    BY <2>2 DEF j
<1>31. [i \in 1 .. k |-> p[(1 + 4 * k) + i] # 0] = muted
  <2> DEFINE j == 1 + 4 * k
  <2>1. j \in Nat /\ Holds(p, j + 1, c)
    <3>1. 1 + (1 + 4 * k) = (1 + 4 * k) + 1
      BY <1>3
    <3>2. QED
      BY <1>9, <1>27, <3>1
  <2> HIDE DEF j
  <2>2. [i \in 1 .. k |-> p[j + i] # 0] = muted
    BY <1>1, <1>17, <2>1, FlagsHeld DEF c, k
  <2>3. QED
    BY <2>2 DEF j
<1>32. p[2 + 5 * k] = Bool(noise) /\ p[3 + 5 * k] = hrtf
  <2>1. \A i \in 1 .. 2 : p[(1 + (1 + 5 * k)) + i - 1] = d[i]
    <3>1. Len(d) = 2
      BY <1>8, BytesAre
    <3>2. QED
      BY <1>26, <3>1 DEF Holds
  <2>2. (1 + (1 + 5 * k)) + 1 - 1 = 2 + 5 * k /\ (1 + (1 + 5 * k)) + 2 - 1 = 3 + 5 * k
    BY <1>3
  <2>3. p[(1 + (1 + 5 * k)) + 1 - 1] = d[1] /\ p[(1 + (1 + 5 * k)) + 2 - 1] = d[2]
    <3>1. 1 \in 1 .. 2 /\ 2 \in 1 .. 2
      OBVIOUS
    <3>2. QED
      BY <2>1, <3>1
  <2>4. QED
    BY <1>8, <2>2, <2>3
<1>33. ReadFloats(p, 4 + 5 * k) = distance
  <2> DEFINE j == 4 + 5 * k
  <2>1. j \in Nat /\ 1 + (3 + 5 * k) = j
    BY <1>3
  <2> HIDE DEF j
  <2>2. ReadFloats(p, j) = distance
    BY <1>1, <1>17, <1>25, <2>1, FloatsHeld DEF e, k
  <2>3. QED
    BY <2>2 DEF j
<1>34. p[4 + 9 * k] = Bool(near)
  <2> DEFINE j == 4 + 9 * k
  <2>1. j \in Nat /\ 1 + (3 + 9 * k) = j
    BY <1>3
  <2> HIDE DEF j
  <2>2. p[j] = Bool(near)
    BY <1>17, <1>24, <2>1, HoldsByte DEF f
  <2>3. QED
    BY <2>2 DEF j
<1>35. ReadString(p, 5 + 9 * k).value = device /\ ReadString(p, 5 + 9 * k) # None
  <2> DEFINE j == 5 + 9 * k
  <2>1. j \in Nat /\ 1 + (4 + 9 * k) = j /\ j >= 1
    BY <1>3
  <2> HIDE DEF j
  <2>2. /\ ReadString(p, j) = [value |-> device, next |-> j + 2 + Len(device)]
        /\ ReadString(p, j) # None
    BY <1>1, <1>17, <1>20, <1>23, <2>1, HoldsString DEF g
  <2>3. QED
    BY <2>2 DEF j
<1> DEFINE m  == 1 + 4 * k
           q  == m + k + 2
           fixed == q + 4 * k + 1
           string == ReadString(p, fixed + 1)
<1>36. /\ m = 1 + 4 * k /\ m + k + 1 = 2 + 5 * k /\ m + k + 2 = 3 + 5 * k /\ q + 1 = 4 + 5 * k
       /\ fixed = 4 + 9 * k /\ fixed + 1 = 5 + 9 * k
  BY <1>3
<1>37. DecodeStatusResponse(p) =
         IF Len(p) < fixed \/ p[1] > Advanced \/ string = None
           THEN None
           ELSE [mode |-> p[1], azimuth |-> ReadFloats(p, 2),
                 muted |-> [i \in 1 .. k |-> p[m + i] # 0],
                 noise |-> p[m + k + 1] # 0,
                 hrtf |-> p[m + k + 2],
                 distance |-> ReadFloats(p, q + 1),
                 nearField |-> p[fixed] # 0, device |-> string.value]
  BY DEF DecodeStatusResponse, k
<1> HIDE DEF m, q, fixed
<1>38. ~(Len(p) < fixed \/ p[1] > Advanced \/ string = None)
  <2>1. ~(Len(p) < fixed)
    BY <1>3, <1>7, <1>17, <1>36
  <2>2. ~(p[1] > Advanced)
    <3>1. mode \in Nat
      BY <1>4, ByteIs
    <3>2. QED
      BY <1>4, <1>29, <3>1 DEF Advanced
  <2>3. string # None
    BY <1>35, <1>36
  <2>4. QED
    BY <2>1, <2>2, <2>3
<1> DEFINE x == p[m + k + 1] # 0
           y == p[fixed] # 0
           w == [i \in 1 .. k |-> p[m + i] # 0]
<1>39. x = noise /\ y = near /\ w = muted
  <2>1. x = noise
    <3>1. p[m + k + 1] = Bool(noise)
      BY <1>32, <1>36
    <3>2. QED
      BY <1>5, <3>1, Zenon
  <2>2. y = near
    <3>1. p[fixed] = Bool(near)
      BY <1>34, <1>36
    <3>2. QED
      BY <1>6, <3>1, Zenon
  <2>3. w = muted
    BY <1>31, <1>36, Zenon
  <2>4. QED
    BY <2>1, <2>2, <2>3
<1>40. DecodeStatusResponse(p) =
         [mode |-> p[1], azimuth |-> ReadFloats(p, 2), muted |-> w, noise |-> x,
          hrtf |-> p[m + k + 2], distance |-> ReadFloats(p, q + 1), nearField |-> y,
          device |-> string.value]
  BY <1>37, <1>38, Zenon
<1> HIDE DEF x, y, w
<1>41. DecodeStatusResponse(p) = s
  <2>1. string.value = device /\ p[m + k + 2] = hrtf /\ ReadFloats(p, q + 1) = distance
    BY <1>32, <1>33, <1>35, <1>36
  <2> HIDE DEF string
  <2>2. QED
    BY <1>1, <1>29, <1>30, <1>39, <1>40, <2>1, Zenon
<1> HIDE DEF n
<1>42. QED
  BY <1>1, <1>2, <1>16, <1>18, <1>19, <1>41

\* A list: what fits of it, and where its entries stand.
LEMMA FittingIs ==
  ASSUME NEW s \in Seq(Seq(Byte))
  PROVE  /\ Fitting(s) \in 0 .. Len(s)
         /\ 2 + Upto(s, Fitting(s)) <= MaxPayloadSize
         /\ Fitting(s) < Len(s) => 2 + Upto(s, Fitting(s) + 1) > MaxPayloadSize
<1> DEFINE F == {n \in 0 .. Len(s) : 2 + Upto(s, n) <= MaxPayloadSize}
           T == {d \in Nat : Len(s) - d \in F => \E x \in F : \A y \in F : x >= y}
<1>1. /\ Len(s) \in Nat /\ Upto(s, 0) = 0 /\ MaxPayloadSize \in Nat /\ MaxPayloadSize >= 2
      /\ \A i \in Nat : Upto(s, i) \in Nat
  BY UptoIs, ProtocolAssumption
<1>2. Fitting(s) = Max(F)
  BY DEF Fitting, Upto
<1>3. 0 \in F
  BY <1>1
<1>4. \E x \in F : \A y \in F : x >= y
  <2> DEFINE L == Len(s)
             U == {d \in Nat : (\E z \in F : z >= L - d) => \E x \in F : \A y \in F : x >= y}
  <2>1. \A y \in F : y \in Nat /\ y <= L
    BY <1>1
  <2> HIDE DEF F
  <2>2. 0 \in U
    <3>1. SUFFICES ASSUME NEW z \in F, z >= L - 0 PROVE \E x \in F : \A y \in F : x >= y
      OBVIOUS
    <3>2. \A y \in F : z >= y
      BY <1>1, <2>1, <3>1
    <3>3. QED
      BY <3>2
  <2>3. ASSUME NEW d \in Nat, d \in U PROVE d + 1 \in U
    <3>1. SUFFICES ASSUME NEW z \in F, z >= L - (d + 1)
                   PROVE  \E x \in F : \A y \in F : x >= y
      OBVIOUS
    <3>2. CASE \E y \in F : y >= L - d
      BY <2>3, <3>2
    <3>3. CASE ~ \E y \in F : y >= L - d
      <4>1. \A y \in F : z >= y
        <5>1. TAKE y \in F
        <5>2. ~(y >= L - d) /\ y \in Nat /\ z \in Nat /\ L \in Nat
          BY <1>1, <2>1, <3>3
        <5>3. QED
          BY <3>1, <5>2
      <4>2. QED
        BY <4>1
    <3>4. QED
      BY <3>2, <3>3
  <2> HIDE DEF U
  <2>4. L \in U
    BY <1>1, <2>2, <2>3, Naturals0
  <2>5. 0 >= L - L
    BY <1>1
  <2>6. QED
    BY <1>3, <2>4, <2>5 DEF U
<1> HIDE DEF F
<1>5. Max(F) \in F /\ \A y \in F : Max(F) >= y
  BY <1>4 DEF Max
<1>6. Fitting(s) \in F /\ \A y \in F : Fitting(s) >= y
  BY <1>2, <1>5
<1> DEFINE n == Fitting(s)
<1>7. /\ n \in 0 .. Len(s) /\ 2 + Upto(s, n) <= MaxPayloadSize
      /\ \A y \in F : n >= y
  BY <1>6 DEF F
<1> HIDE DEF n
<1>8. ASSUME n < Len(s) PROVE 2 + Upto(s, n + 1) > MaxPayloadSize
  <2>1. n + 1 \in 0 .. Len(s) /\ ~(n >= n + 1) /\ n + 1 \in Nat
    BY <1>1, <1>7, <1>8
  <2>2. n + 1 \notin F
    BY <1>7, <2>1
  <2>3. ~(2 + Upto(s, n + 1) <= MaxPayloadSize)
    BY <2>1, <2>2 DEF F
  <2>4. Upto(s, n + 1) \in Nat
    BY <1>1, <2>1
  <2>5. QED
    BY <1>1, <2>3, <2>4
<1>9. QED
  BY <1>7, <1>8 DEF n

\* A list message counts the entries that fit, and holds each of them where the
\* ones before it end.
LEMMA ListHeld ==
  ASSUME NEW op, NEW s \in Seq(Seq(Byte)), NEW w \in Nat, w >= 2,
         \A i \in 1 .. Len(s) : Len(s[i]) >= w
  PROVE  \E n \in Half : \E p \in Bytes(n) :
           /\ n <= MaxPayloadSize
           /\ ListMessage(op, s) = Message(op, p)
           /\ 2 + w * Fitting(s) <= n
           /\ ReadU16(p, 1) = Fitting(s)
           /\ \A i \in Nat : i < Fitting(s) =>
                /\ Holds(p, 3 + Upto(s, i), s[i + 1])
                /\ Upto(s, i + 1) <= MaxPayloadSize
<1> DEFINE k    == Fitting(s)
           body == FlattenSeq(Cut(s, k))
           u    == Upto(s, k)
           p    == AppendU16(k) \o body
           n    == 2 + u
<1>1. /\ k \in Nat /\ k <= Len(s) /\ Len(s) \in Nat /\ 2 + u <= MaxPayloadSize
      /\ MaxPayloadSize \in Nat /\ MaxPayloadSize <= MaxU16 /\ MaxU16 \in Nat
  BY FittingIs, ProtocolAssumption, MaxU16Is
<1>2. ListMessage(op, s) = Message(op, p)
  BY DEF ListMessage
<1> HIDE DEF k
<1>3. u \in Nat /\ u >= w * k
  BY <1>1, UptoIs, UptoLeast
<1>4. body \in Seq(Byte) /\ body \in Bytes(u)
  <2>1. Cut(s, k) \in Seq(Seq(Byte))
    BY <1>1, CutIs
  <2>2. body \in Seq(Byte)
    BY <2>1, FlattenType
  <2>3. QED
    BY <2>2, BytesAre DEF Upto
<1>5. k \in Half
  <2>1. k <= w * k
    <3>1. 1 * k <= w * k
      BY <1>1
    <3>2. QED
      BY <1>1, <3>1
  <2> DEFINE m == w * k
  <2>2. m \in Nat /\ k <= m /\ u >= m
    BY <1>1, <1>3, <2>1
  <2> HIDE DEF u, m
  <2>3. k <= MaxU16
    BY <1>1, <1>3, <2>2
  <2>4. QED
    BY <1>1, <2>3, HalfIs
<1>6. AppendU16(k) \in Bytes(2)
  BY <1>5, U16Type
<1> HIDE DEF u, body
<1>7. p \in Bytes(n)
  BY <1>3, <1>4, <1>6, Joined
<1>8. p \in Seq(Byte) /\ Len(p) = n /\ n \in Nat /\ n <= MaxPayloadSize
  <2>1. n \in Nat /\ n <= MaxPayloadSize
    BY <1>1, <1>3
  <2> HIDE DEF n
  <2>2. QED
    BY <1>7, <2>1, BytesAre
<1>9. n \in Half
  <2> HIDE DEF n
  <2>1. n <= MaxU16
    BY <1>1, <1>8
  <2>2. QED
    BY <1>8, <2>1, HalfIs
<1>10. Holds(p, 1, AppendU16(k) \o body)
  BY <1>8, HoldsItself
<1> HIDE DEF p
<1>11. Holds(p, 1, AppendU16(k)) /\ Holds(p, 1 + 2, body)
  BY <1>4, <1>6, <1>8, <1>10, HoldsParts
<1>12. ReadU16(p, 1) = k
  BY <1>5, <1>8, <1>11, HoldsU16
<1>13. \A i \in Nat : i < k => Holds(p, 3 + Upto(s, i), s[i + 1])
  <2> DEFINE j == 3
  <2>1. j \in Nat /\ 1 + 2 = j
    OBVIOUS
  <2> HIDE DEF j
  <2>2. \A i \in Nat : i < k => Holds(p, j + Upto(s, i), s[i + 1])
    BY <1>1, <1>8, <1>11, <2>1, HoldsPieces DEF body
  <2>3. QED
    BY <2>2 DEF j
<1>14. \A i \in Nat : i < k => Upto(s, i + 1) <= MaxPayloadSize
  <2>1. SUFFICES ASSUME NEW i \in Nat, i < k PROVE Upto(s, i + 1) <= MaxPayloadSize
    OBVIOUS
  <2>2. i + 1 \in Nat /\ i + 1 <= k
    BY <1>1, <2>1
  <2> DEFINE m == i + 1
             a == Upto(s, m)
  <2>3. m \in Nat /\ m <= k
    BY <2>2
  <2> HIDE DEF m
  <2>4. a <= Upto(s, k) /\ a \in Nat
    BY <1>1, <2>3, UptoGrows, UptoIs
  <2> HIDE DEF a
  <2>5. a <= MaxPayloadSize
    BY <1>1, <1>3, <2>4 DEF u
  <2>6. QED
    BY <2>5 DEF a, m
<1>15. 2 + w * k <= n
  <2>1. w * k \in Int
    BY <1>1
  <2>2. QED
    BY <1>3, <2>1
<1> HIDE DEF n
<1>16. QED
  BY <1>2, <1>7, <1>8, <1>9, <1>12, <1>13, <1>14, <1>15 DEF k

\* The strings of a list are read where they stand.
Reads(f, p, n) ==
  f = [i \in 0 .. n |->
         IF i = 0 THEN 3
         ELSE LET start == f[i - 1]
                  s     == IF start = None THEN None ELSE ReadString(p, start)
              IN  IF s = None THEN None ELSE s.next]

\* ReadStrings returns strings that lie one behind the other.
LEMMA ReadStringsIs ==
  ASSUME NEW p \in Seq(Byte), NEW n \in Nat, 2 + 2 * n <= Len(p),
         NEW ss \in [1 .. n -> Seq(Byte)], NEW pos \in [0 .. n -> Nat], pos[0] = 3,
         \A i \in Nat : i < n => /\ Len(ss[i + 1]) <= MaxU16 /\ pos[i] >= 1
                                 /\ Holds(p, pos[i], AppendString(ss[i + 1]))
                                 /\ pos[i + 1] = pos[i] + 2 + Len(ss[i + 1])
  PROVE  ReadStrings(p, n) = ss /\ ss # None /\ Len(ss) = n
<1>1. ASSUME NEW i \in Nat, i < n
      PROVE  /\ pos[i] \in Nat /\ ReadString(p, pos[i]) # None
             /\ ReadString(p, pos[i]).value = ss[i + 1] /\ ReadString(p, pos[i]).next = pos[i + 1]
  <2> DEFINE j == pos[i]
             a == ss[i + 1]
             q == pos[i + 1]
  <2>1. j \in Nat /\ a \in Seq(Byte) /\ q = j + 2 + Len(a) /\ j >= 1 /\ Len(a) <= MaxU16
        /\ Holds(p, j, AppendString(a))
    <3>1. i \in 0 .. n /\ i + 1 \in 1 .. n
      BY <1>1
    <3>2. QED
      BY <1>1, <3>1
  <2> HIDE DEF j, a, q
  <2>2. ReadString(p, j) = [value |-> a, next |-> j + 2 + Len(a)] /\ ReadString(p, j) # None
    BY <2>1, HoldsString
  <2>3. ReadString(p, j) # None /\ ReadString(p, j).value = a /\ ReadString(p, j).next = q
    BY <2>1, <2>2
  <2>4. QED
    BY <2>1, <2>3 DEF j, a, q
<1>2. Reads(pos, p, n)
  <2> DEFINE e(i) == IF i = 0 THEN 3
                     ELSE LET start == pos[i - 1]
                              s     == IF start = None THEN None ELSE ReadString(p, start)
                          IN  IF s = None THEN None ELSE s.next
  <2>1. ASSUME NEW i \in 0 .. n PROVE pos[i] = e(i)
    <3>1. CASE i = 0
      BY <3>1
    <3>2. CASE i # 0
      <4> DEFINE h == i - 1
      <4>1. h \in Nat /\ h < n /\ h + 1 = i
        BY <3>2
      <4> HIDE DEF h
      <4>2. /\ pos[h] \in Nat /\ ReadString(p, pos[h]) # None
            /\ ReadString(p, pos[h]).next = pos[h + 1]
        BY <1>1, <4>1
      <4>3. pos[h] # None
        BY <4>2, NoneAssumption
      <4>4. e(i) = LET start == pos[h]
                       s     == IF start = None THEN None ELSE ReadString(p, start)
                   IN  IF s = None THEN None ELSE s.next
        BY <3>2 DEF h
      <4>5. QED
        BY <4>1, <4>2, <4>3, <4>4
    <3>3. QED
      BY <3>1, <3>2
  <2> HIDE DEF e
  <2>2. pos = [i \in 0 .. n |-> e(i)]
    BY <2>1
  <2>3. QED
    BY <2>2 DEF Reads, e
<1>3. \E f : /\ Reads(f, p, n)
             /\ ReadStrings(p, n) = IF 2 + 2 * n > Len(p) \/ f[n] = None
                                      THEN None
                                      ELSE [i \in 1 .. n |-> ReadString(p, f[i - 1]).value]
  BY <1>2 DEF ReadStrings, Reads
<1>4. PICK f : /\ Reads(f, p, n)
               /\ ReadStrings(p, n) = IF 2 + 2 * n > Len(p) \/ f[n] = None
                                        THEN None
                                        ELSE [i \in 1 .. n |-> ReadString(p, f[i - 1]).value]
  BY <1>3
<1>5. \A i \in Nat : i <= n => f[i] = pos[i]
  <2> DEFINE T == {i \in Nat : i <= n => f[i] = pos[i]}
  <2>1. /\ f[0] = 3
        /\ \A i \in Nat : i < n =>
             f[i + 1] = LET start == f[i]
                            s     == IF start = None THEN None ELSE ReadString(p, start)
                        IN  IF s = None THEN None ELSE s.next
    <3>1. \A i \in 0 .. n :
            f[i] = IF i = 0 THEN 3
                   ELSE LET start == f[i - 1]
                            s     == IF start = None THEN None ELSE ReadString(p, start)
                        IN  IF s = None THEN None ELSE s.next
      BY <1>4 DEF Reads
    <3>2. f[0] = 3
      <4>1. 0 \in 0 .. n
        OBVIOUS
      <4>2. QED
        BY <3>1, <4>1
    <3>3. ASSUME NEW i \in Nat, i < n
          PROVE  f[i + 1] = LET start == f[i]
                                s     == IF start = None THEN None ELSE ReadString(p, start)
                            IN  IF s = None THEN None ELSE s.next
      <4>1. i + 1 \in 0 .. n /\ i + 1 # 0 /\ (i + 1) - 1 = i
        BY <3>3
      <4>2. QED
        BY <3>1, <4>1
    <3>4. QED
      BY <3>2, <3>3
  <2>2. 0 \in T
    BY <2>1
  <2>3. ASSUME NEW i \in Nat, i \in T PROVE i + 1 \in T
    <3>1. SUFFICES ASSUME i + 1 <= n PROVE f[i + 1] = pos[i + 1]
      OBVIOUS
    <3>2. i < n /\ f[i] = pos[i]
      BY <2>3, <3>1
    <3>3. pos[i] # None
      BY <1>1, <3>2, NoneAssumption
    <3>4. f[i + 1] = LET start == pos[i]
                         s     == IF start = None THEN None ELSE ReadString(p, start)
                     IN  IF s = None THEN None ELSE s.next
      BY <2>1, <3>2
    <3>5. ReadString(p, pos[i]) # None /\ ReadString(p, pos[i]).next = pos[i + 1]
      BY <1>1, <3>2
    <3>6. QED
      BY <3>3, <3>4, <3>5
  <2> HIDE DEF T
  <2>4. \A i \in Nat : i \in T
    BY <2>2, <2>3, Naturals0
  <2>5. QED
    BY <2>4 DEF T
<1>6. f[n] # None
  <2>1. f[n] = pos[n] /\ pos[n] \in Nat
    BY <1>5
  <2>2. QED
    BY <2>1, NoneAssumption
<1>7. ReadStrings(p, n) = [i \in 1 .. n |-> ReadString(p, f[i - 1]).value]
  <2>1. ~(2 + 2 * n > Len(p))
    <3>1. Len(p) \in Nat
      OBVIOUS
    <3>2. QED
      BY <3>1
  <2>2. QED
    BY <1>4, <1>6, <2>1
<1>8. ASSUME NEW i \in 1 .. n PROVE ReadString(p, f[i - 1]).value = ss[i]
  <2> DEFINE h == i - 1
  <2>1. h \in Nat /\ h < n /\ h + 1 = i /\ h <= n
    OBVIOUS
  <2> HIDE DEF h
  <2>2. f[h] = pos[h]
    BY <1>5, <2>1
  <2>3. ReadString(p, f[h]).value = ss[h + 1]
    BY <1>1, <2>1, <2>2
  <2>4. QED
    BY <2>1, <2>3 DEF h
<1>9. ReadStrings(p, n) = ss
  BY <1>7, <1>8
<1>10. ss \in Seq(Seq(Byte)) /\ Len(ss) = n
  OBVIOUS
<1>11. QED
  BY <1>9, <1>10, NoneAssumption

\* A list of names.
LEMMA NamesReturn ==
  ASSUME NEW op, NEW names \in Names
  PROVE  \E n \in Half : \E p \in Bytes(n) : \E got :
           /\ n <= MaxPayloadSize /\ ListMessage(op, NameEntries(names)) = Message(op, p)
           /\ Len(p) >= 2 /\ got = ReadStrings(p, ReadU16(p, 1)) /\ got # None
           /\ ListReceived(names, got, NameEntries(names))
<1> DEFINE L == Len(names)
           s == NameEntries(names)
<1>1. names \in Seq(Seq(Byte)) /\ L \in Nat
  BY RepliesAssumption
<1>2. \A i \in 1 .. L : names[i] \in Seq(Byte) /\ AppendString(names[i]) \in Seq(Byte)
                         /\ Len(AppendString(names[i])) >= 2
  <2>1. TAKE i \in 1 .. L
  <2> DEFINE a == names[i]
  <2>2. a \in Seq(Byte)
    BY <1>1, ElementOfSeq
  <2> HIDE DEF a
  <2>3. AppendString(a) \in Seq(Byte) /\ Len(AppendString(a)) >= 2
    BY <2>2, StringLength, BytesAre
  <2>4. QED
    BY <2>2, <2>3 DEF a
<1>3. s \in Seq(Seq(Byte)) /\ Len(s) = L /\ \A i \in 1 .. L : s[i] = AppendString(names[i])
  <2> DEFINE e(i) == AppendString(names[i])
  <2>1. s = [i \in 1 .. L |-> e(i)]
    BY <1>1 DEF NameEntries
  <2>2. \A i \in 1 .. L : e(i) \in Seq(Byte)
    BY <1>2
  <2> HIDE DEF e, s, L
  <2>3. [i \in 1 .. L |-> e(i)] \in Seq(Seq(Byte)) /\ Len([i \in 1 .. L |-> e(i)]) = L
        /\ \A i \in 1 .. L : [j \in 1 .. L |-> e(j)][i] = e(i)
    BY <1>1, <2>2
  <2>4. QED
    BY <2>1, <2>3 DEF e
<1> HIDE DEF s, L
<1> DEFINE k == Fitting(s)
<1>4. /\ k \in Nat /\ k <= L /\ (k < L => 2 + Upto(s, k + 1) > MaxPayloadSize)
      /\ MaxPayloadSize \in Nat /\ MaxPayloadSize <= MaxU16 /\ MaxU16 \in Nat
  BY <1>1, <1>3, FittingIs, ProtocolAssumption, MaxU16Is
<1>5. \A i \in 1 .. Len(s) : Len(s[i]) >= 2
  BY <1>2, <1>3
<1>6. PICK n \in Half : \E p \in Bytes(n) :
        /\ n <= MaxPayloadSize
        /\ ListMessage(op, s) = Message(op, p)
        /\ 2 + 2 * Fitting(s) <= n
        /\ ReadU16(p, 1) = Fitting(s)
        /\ \A i \in Nat : i < Fitting(s) =>
             /\ Holds(p, 3 + Upto(s, i), s[i + 1])
             /\ Upto(s, i + 1) <= MaxPayloadSize
  <2>1. 2 \in Nat /\ 2 >= 2
    OBVIOUS
  <2>2. QED
    BY <1>3, <1>5, <2>1, ListHeld
<1>7. PICK p \in Bytes(n) :
        /\ n <= MaxPayloadSize
        /\ ListMessage(op, s) = Message(op, p)
        /\ 2 + 2 * k <= n
        /\ ReadU16(p, 1) = k
        /\ \A i \in Nat : i < k =>
             /\ Holds(p, 3 + Upto(s, i), s[i + 1])
             /\ Upto(s, i + 1) <= MaxPayloadSize
  BY <1>6
<1> HIDE DEF k
<1>8. p \in Seq(Byte) /\ Len(p) = n /\ n \in Nat /\ n >= 2
  <2>1. n \in Nat
    BY HalfIs
  <2>2. n >= 2
    BY <1>4, <1>7, <2>1
  <2>3. QED
    BY <2>1, <2>2, BytesAre
<1> DEFINE ss  == Cut(names, k)
           pos == [i \in 0 .. k |-> 3 + Upto(s, i)]
<1>9. /\ ss \in Seq(Seq(Byte)) /\ Len(ss) = k /\ \A i \in 1 .. k : ss[i] = names[i]
      /\ IsPrefix(ss, names) /\ (L <= k => ss = names)
  <2>1. /\ ss \in Seq(Seq(Byte)) /\ Len(ss) = (IF L <= k THEN L ELSE k)
        /\ \A i \in 1 .. Len(ss) : ss[i] = names[i]
        /\ IsPrefix(ss, names) /\ (L <= k => ss = names)
    BY <1>1, <1>4, CutIs DEF L
  <2> HIDE DEF ss
  <2>2. Len(ss) = k
    BY <1>1, <1>4, <2>1
  <2>3. QED
    BY <2>1, <2>2
<1> HIDE DEF ss
<1>10. ss \in [1 .. k -> Seq(Byte)]
  BY <1>9
<1>11. \A i \in Nat : Upto(s, i) \in Nat
  BY <1>3, UptoIs
<1>12. pos \in [0 .. k -> Nat] /\ pos[0] = 3
  <2>1. Upto(s, 0) = 0
    BY <1>3, UptoIs
  <2>2. \A i \in 0 .. k : 3 + Upto(s, i) \in Nat
    BY <1>4, <1>11
  <2>3. 0 \in 0 .. k
    BY <1>4
  <2>4. QED
    BY <2>1, <2>2, <2>3
<1>13. ASSUME NEW i \in Nat, i < k
       PROVE  /\ Len(ss[i + 1]) <= MaxU16 /\ pos[i] >= 1
              /\ Holds(p, pos[i], AppendString(ss[i + 1]))
              /\ pos[i + 1] = pos[i] + 2 + Len(ss[i + 1])
  <2> DEFINE a == names[i + 1]
             e == AppendString(a)
             u == Upto(s, i)
             v == Upto(s, i + 1)
  <2>1. /\ i + 1 \in 1 .. k /\ i + 1 \in 1 .. L /\ i \in 0 .. k
        /\ i + 1 \in 0 .. k /\ i < L /\ i + 1 \in Nat
    BY <1>1, <1>4, <1>13
  <2>2. a \in Seq(Byte) /\ ss[i + 1] = a /\ s[i + 1] = e
    BY <1>2, <1>3, <1>9, <2>1
  <2>3. pos[i] = 3 + u /\ pos[i + 1] = 3 + v
    BY <2>1
  <2>4. v = u + Len(e) /\ u \in Nat /\ v \in Nat /\ v <= MaxPayloadSize /\ Holds(p, 3 + u, e)
    BY <1>3, <1>7, <1>11, <1>13, <2>1, <2>2, UptoIs
  <2> HIDE DEF pos, a, u, v
  <2>5. Len(e) \in Nat /\ Len(e) <= MaxU16
    <3>1. Len(e) \in Nat
      BY <2>2, StringLength
    <3>2. QED
      BY <1>4, <2>4, <3>1
  <2>6. Len(a) <= MaxU16 /\ Len(e) = 2 + Len(a) /\ Len(a) \in Nat
    BY <2>2, <2>5, StringLength
  <2>7. pos[i] >= 1
    BY <2>3, <2>4
  <2> HIDE DEF e
  <2>8. pos[i + 1] = pos[i] + 2 + Len(a)
    BY <2>3, <2>4, <2>6
  <2>9. QED
    BY <2>2, <2>3, <2>4, <2>6, <2>7, <2>8 DEF e
<1> HIDE DEF pos
<1>14. ReadStrings(p, k) = ss /\ ss # None
  <2>1. 2 + 2 * k <= Len(p)
    BY <1>7, <1>8
  <2>2. QED
    BY <1>4, <1>8, <1>10, <1>12, <1>13, <2>1, ReadStringsIs
<1>15. ListReceived(names, ss, s)
  <2>1. ss # names => 2 + Upto(s, k + 1) > MaxPayloadSize
    BY <1>1, <1>4, <1>9
  <2>2. QED
    BY <1>9, <2>1 DEF ListReceived, Upto
<1>16. QED
  BY <1>7, <1>8, <1>14, <1>15 DEF s

\* Of a number and its half.
LEMMA Halves ==
  ASSUME NEW i \in Nat
  PROVE  /\ i \div 2 \in Nat
         /\ \/ i % 2 = 0 /\ i = 2 * (i \div 2) /\ (i + 1) % 2 = 1 /\ (i + 1) \div 2 = i \div 2
            \/ i % 2 = 1 /\ i = 2 * (i \div 2) + 1 /\ (i + 1) % 2 = 0
               /\ (i + 1) \div 2 = (i \div 2) + 1
OBVIOUS

\* Of a number and its double.
LEMMA Twice ==
  ASSUME NEW h \in Nat
  PROVE  /\ (2 * h) \div 2 = h /\ (2 * h) % 2 = 0
         /\ (2 * h + 1) \div 2 = h /\ (2 * h + 1) % 2 = 1
OBVIOUS

\* A list of pairs, which is read as twice as many strings.
LEMMA PairsReturn ==
  ASSUME NEW op, NEW pairs \in Pairs
  PROVE  \E n \in Half : \E p \in Bytes(n) : \E got :
           /\ n <= MaxPayloadSize /\ ListMessage(op, PairEntries(pairs)) = Message(op, p)
           /\ Len(p) >= 2 /\ got = Paired(ReadStrings(p, 2 * ReadU16(p, 1))) /\ got # None
           /\ ListReceived(pairs, got, PairEntries(pairs))
<1> DEFINE Pair == Seq(Byte) \X Seq(Byte)
           L    == Len(pairs)
           s    == PairEntries(pairs)
           A(h) == pairs[h + 1][1]
           B(h) == pairs[h + 1][2]
           a(h) == AppendString(A(h))
           b(h) == AppendString(B(h))
<1>1. pairs \in Seq(Pair) /\ L \in Nat
  BY RepliesAssumption
<1>2. \A h \in Nat : h < L =>
        A(h) \in Seq(Byte) /\ B(h) \in Seq(Byte) /\ pairs[h + 1] = <<A(h), B(h)>>
  <2>1. TAKE h \in Nat
  <2>2. SUFFICES ASSUME h < L
                 PROVE  A(h) \in Seq(Byte) /\ B(h) \in Seq(Byte) /\ pairs[h + 1] = <<A(h), B(h)>>
    OBVIOUS
  <2>3. h + 1 \in 1 .. L
    BY <1>1, <2>2
  <2> DEFINE e == pairs[h + 1]
  <2>4. e \in Pair
    BY <1>1, <2>3, ElementOfSeq
  <2> HIDE DEF e
  <2>5. e[1] \in Seq(Byte) /\ e[2] \in Seq(Byte) /\ e = <<e[1], e[2]>>
    BY <2>4
  <2>6. QED
    BY <2>5 DEF e
<1>3. s = [i \in 1 .. L |-> AppendString(pairs[i][1]) \o AppendString(pairs[i][2])]
  BY <1>1 DEF PairEntries
<1> HIDE DEF L, A, B, Pair
<1>4. \A h \in Nat : h < L =>
        /\ a(h) \in Seq(Byte) /\ b(h) \in Seq(Byte) /\ Len(a(h)) \in Nat /\ Len(b(h)) \in Nat
        /\ Len(a(h)) >= 2 /\ Len(b(h)) >= 2 /\ a(h) \in Bytes(Len(a(h)))
  BY <1>2, StringLength, BytesAre
<1>5. /\ s \in Seq(Seq(Byte)) /\ Len(s) = L
      /\ \A h \in Nat : h < L => s[h + 1] = a(h) \o b(h)
      /\ \A i \in 1 .. L : Len(s[i]) >= 4
  <2> DEFINE e(i) == AppendString(pairs[i][1]) \o AppendString(pairs[i][2])
  <2>1. \A h \in Nat : e(h + 1) = a(h) \o b(h)
    BY DEF A, B
  <2> HIDE DEF a, b, e, s
  <2>2. ASSUME NEW i \in 1 .. L
        PROVE  e(i) \in Seq(Byte) /\ Len(e(i)) >= 4
    <3> DEFINE h == i - 1
               x == a(h)
               y == b(h)
    <3>1. h \in Nat /\ h < L /\ h + 1 = i
      BY <1>1
    <3> HIDE DEF h
    <3>2. e(i) = x \o y /\ x \in Seq(Byte) /\ y \in Seq(Byte) /\ Len(x) >= 2 /\ Len(y) >= 2
          /\ Len(x) \in Nat /\ Len(y) \in Nat
      BY <1>4, <2>1, <3>1
    <3> HIDE DEF x, y
    <3>3. x \o y \in Seq(Byte) /\ Len(x \o y) = Len(x) + Len(y)
      BY <3>2, ConcatProperties
    <3>4. QED
      BY <3>2, <3>3
  <2>3. s = [i \in 1 .. L |-> e(i)]
    BY <1>3 DEF e
  <2>4. [i \in 1 .. L |-> e(i)] \in Seq(Seq(Byte)) /\ Len([i \in 1 .. L |-> e(i)]) = L
        /\ \A i \in 1 .. L : [j \in 1 .. L |-> e(j)][i] = e(i)
    BY <1>1, <2>2
  <2>5. ASSUME NEW h \in Nat, h < L PROVE s[h + 1] = a(h) \o b(h)
    <3>1. h + 1 \in 1 .. L
      BY <1>1, <2>5
    <3>2. s[h + 1] = e(h + 1)
      BY <2>3, <3>1
    <3>3. QED
      BY <2>1, <3>2
  <2>6. \A i \in 1 .. L : Len(s[i]) >= 4
    BY <2>2, <2>3
  <2>7. QED
    BY <2>3, <2>4, <2>5, <2>6
<1> HIDE DEF s
<1> DEFINE k == Fitting(s)
<1>6. /\ k \in Nat /\ k <= L /\ (k < L => 2 + Upto(s, k + 1) > MaxPayloadSize)
      /\ MaxPayloadSize \in Nat /\ MaxPayloadSize <= MaxU16 /\ MaxU16 \in Nat
  <2>1. s \in Seq(Seq(Byte)) /\ Len(s) = L
    BY <1>5
  <2>2. /\ Fitting(s) \in 0 .. L
        /\ (Fitting(s) < L => 2 + Upto(s, Fitting(s) + 1) > MaxPayloadSize)
    BY <2>1, FittingIs
  <2>3. MaxPayloadSize \in Nat /\ MaxPayloadSize <= MaxU16 /\ MaxU16 \in Nat
    BY ProtocolAssumption, MaxU16Is
  <2>4. k \in Nat /\ k <= L
    BY <1>1, <2>2
  <2>5. QED
    BY <2>2, <2>3, <2>4
<1>7. PICK n \in Half : \E p \in Bytes(n) :
        /\ n <= MaxPayloadSize
        /\ ListMessage(op, s) = Message(op, p)
        /\ 2 + 4 * Fitting(s) <= n
        /\ ReadU16(p, 1) = Fitting(s)
        /\ \A i \in Nat : i < Fitting(s) =>
             /\ Holds(p, 3 + Upto(s, i), s[i + 1])
             /\ Upto(s, i + 1) <= MaxPayloadSize
  <2>1. 4 \in Nat /\ 4 >= 2
    OBVIOUS
  <2>2. QED
    BY <1>5, <2>1, ListHeld
<1>8. PICK p \in Bytes(n) :
        /\ n <= MaxPayloadSize
        /\ ListMessage(op, s) = Message(op, p)
        /\ 2 + 4 * k <= n
        /\ ReadU16(p, 1) = k
        /\ \A i \in Nat : i < k =>
             /\ Holds(p, 3 + Upto(s, i), s[i + 1])
             /\ Upto(s, i + 1) <= MaxPayloadSize
  BY <1>7
<1> HIDE DEF k
<1>9. p \in Seq(Byte) /\ Len(p) = n /\ n \in Nat /\ n >= 2
  <2>1. n \in Nat
    BY HalfIs
  <2>2. n >= 2
    BY <1>6, <1>8, <2>1
  <2>3. QED
    BY <2>1, <2>2, BytesAre
<1> DEFINE m    == 2 * k
           U(h) == 3 + Upto(s, h)
           V(h) == U(h) + 2 + Len(A(h))
           ss   == [j \in 1 .. m |->
                      IF (j - 1) % 2 = 0 THEN A((j - 1) \div 2) ELSE B((j - 1) \div 2)]
           pos  == [j \in 0 .. m |-> IF j % 2 = 0 THEN U(j \div 2) ELSE V(j \div 2)]
<1>10. \A h \in Nat : Upto(s, h) \in Nat
  BY <1>5, UptoIs
<1>11. U(0) = 3 /\ \A h \in Nat : U(h) \in Nat /\ U(h) >= 1
  <2>1. s \in Seq(Seq(Byte))
    BY <1>5
  <2>2. Upto(s, 0) = 0
    BY <2>1, UptoIs
  <2>3. U(0) = 3
    BY <2>2
  <2>4. ASSUME NEW h \in Nat PROVE U(h) \in Nat /\ U(h) >= 1
    <3> DEFINE u == Upto(s, h)
    <3>1. u \in Nat
      BY <1>10
    <3> HIDE DEF u
    <3>2. 3 + u \in Nat /\ 3 + u >= 1
      BY <3>1
    <3>3. QED
      BY <3>2 DEF u
  <2> HIDE DEF U
  <2>5. QED
    BY <2>3, <2>4
<1>12. ASSUME NEW h \in Nat, h < k
       PROVE  /\ Len(A(h)) <= MaxU16 /\ Len(B(h)) <= MaxU16
              /\ Len(A(h)) \in Nat /\ Len(B(h)) \in Nat
              /\ A(h) \in Seq(Byte) /\ B(h) \in Seq(Byte)
              /\ V(h) \in Nat /\ V(h) >= 1
              /\ Holds(p, U(h), AppendString(A(h))) /\ Holds(p, V(h), AppendString(B(h)))
              /\ U(h + 1) = V(h) + 2 + Len(B(h))
  <2> DEFINE x == a(h)
             y == b(h)
             lx == Len(x)
             ly == Len(y)
             u == Upto(s, h)
             v == Upto(s, h + 1)
             la == Len(A(h))
             lb == Len(B(h))
  <2>1. h < L /\ h + 1 \in Nat
    BY <1>1, <1>6, <1>12
  <2>2. A(h) \in Seq(Byte) /\ B(h) \in Seq(Byte)
    BY <1>2, <2>1
  <2>3. /\ x \in Seq(Byte) /\ y \in Seq(Byte) /\ lx \in Nat /\ ly \in Nat /\ x \in Bytes(lx)
        /\ s[h + 1] = x \o y
    BY <1>4, <1>5, <2>1
  <2>4. /\ v = u + Len(s[h + 1]) /\ u \in Nat /\ v \in Nat /\ v <= MaxPayloadSize
        /\ Holds(p, 3 + u, s[h + 1])
    BY <1>5, <1>8, <1>10, <1>12, <2>1, UptoIs
  <2>5. Len(s[h + 1]) = lx + ly
    <3> HIDE DEF x, y
    <3>1. QED
      BY <2>3, ConcatProperties
  <2>6. /\ (lx <= MaxU16 => la <= MaxU16) /\ (la <= MaxU16 => lx = 2 + la)
        /\ (ly <= MaxU16 => lb <= MaxU16) /\ (lb <= MaxU16 => ly = 2 + lb)
        /\ la \in Nat /\ lb \in Nat
    BY <2>2, StringLength
  <2>7. Holds(p, 3 + u, x) /\ Holds(p, (3 + u) + lx, y)
    <3>1. Holds(p, 3 + u, x \o y) /\ 3 + u \in Nat
      BY <2>3, <2>4
    <3> HIDE DEF x, y, lx, u
    <3>2. QED
      BY <1>9, <2>3, <3>1, HoldsParts
  <2>8. v = u + lx + ly
    BY <2>4, <2>5
  <2> HIDE DEF x, y, lx, ly, u, v, la, lb
  <2>9. lx <= MaxU16 /\ ly <= MaxU16
    BY <1>6, <2>3, <2>4, <2>8
  <2>10. la <= MaxU16 /\ lb <= MaxU16 /\ lx = 2 + la /\ ly = 2 + lb
    BY <2>6, <2>9
  <2>11. V(h) = (3 + u) + lx /\ U(h) = 3 + u /\ U(h + 1) = 3 + v
    BY <2>3, <2>4, <2>6, <2>10 DEF u, v, la
  <2> HIDE DEF U, V
  <2>12. V(h) \in Nat /\ V(h) >= 1 /\ U(h + 1) = V(h) + 2 + lb
    <3>1. u \in Nat /\ lx \in Nat /\ ly \in Nat /\ lb \in Nat /\ ly = 2 + lb
      BY <2>3, <2>4, <2>6, <2>10
    <3> DEFINE w == (3 + u) + lx
    <3>2. w \in Nat /\ w >= 1 /\ 3 + v = w + 2 + lb
      BY <3>1, <2>8
    <3> HIDE DEF w
    <3>3. V(h) = w /\ U(h + 1) = 3 + v
      BY <2>11 DEF w
    <3>4. QED
      BY <3>2, <3>3
  <2>13. QED
    BY <2>2, <2>6, <2>7, <2>10, <2>11, <2>12 DEF x, y, la, lb
<1> HIDE DEF U, V
<1>13. m \in Nat
  BY <1>6
<1>14. ASSUME NEW i \in Nat, i < m
       PROVE  /\ i \div 2 \in Nat /\ i \div 2 < k
              /\ i + 1 \in 1 .. m /\ (i + 1) - 1 = i /\ i \in 0 .. m /\ i + 1 \in 0 .. m
  BY <1>6, <1>14, Halves
<1>15. ss \in [1 .. m -> Seq(Byte)]
  <2>1. ASSUME NEW j \in 1 .. m
        PROVE  (IF (j - 1) % 2 = 0 THEN A((j - 1) \div 2) ELSE B((j - 1) \div 2)) \in Seq(Byte)
    <3> DEFINE i == j - 1
    <3>1. i \in Nat /\ i < m
      BY <1>13
    <3> HIDE DEF i
    <3> DEFINE h == i \div 2
    <3>2. h \in Nat /\ h < k
      BY <1>14, <3>1
    <3> HIDE DEF h
    <3>3. A(h) \in Seq(Byte) /\ B(h) \in Seq(Byte)
      BY <1>12, <3>2
    <3>4. QED
      BY <3>3 DEF h, i
  <2> HIDE DEF m
  <2>2. QED
    BY <2>1
<1>16. pos \in [0 .. m -> Nat] /\ pos[0] = 3
  <2>1. ASSUME NEW j \in 0 .. m
        PROVE  (IF j % 2 = 0 THEN U(j \div 2) ELSE V(j \div 2)) \in Nat
    <3>1. j \in Nat /\ j \div 2 \in Nat
      BY <1>13, Halves
    <3>2. CASE j % 2 = 0
      BY <1>11, <3>1, <3>2
    <3>3. CASE j % 2 # 0
      <4>1. j # m
        <5>1. m % 2 = 0
          BY <1>6, Twice
        <5> HIDE DEF m
        <5>2. QED
          BY <3>3, <5>1
      <4>2. j < m
        BY <1>13, <4>1
      <4> HIDE DEF m
      <4>3. j \div 2 < k
        BY <1>14, <3>1, <4>2
      <4>4. V(j \div 2) \in Nat
        BY <1>12, <3>1, <4>3
      <4>5. QED
        BY <3>3, <4>4
    <3>4. QED
      BY <3>2, <3>3
  <2> HIDE DEF m
  <2>2. 0 \in 0 .. m /\ 0 % 2 = 0 /\ 0 \div 2 = 0
    BY <1>13
  <2>3. pos[0] = U(0)
    BY <2>2
  <2>4. pos \in [0 .. m -> Nat]
    BY <2>1
  <2>5. QED
    BY <1>11, <2>3, <2>4
<1>17. ASSUME NEW i \in Nat, i < m
       PROVE  /\ Len(ss[i + 1]) <= MaxU16 /\ pos[i] >= 1
              /\ Holds(p, pos[i], AppendString(ss[i + 1]))
              /\ pos[i + 1] = pos[i] + 2 + Len(ss[i + 1])
  <2> DEFINE h == i \div 2
  <2>1. /\ h \in Nat /\ h < k /\ i + 1 \in 1 .. m /\ (i + 1) - 1 = i
        /\ i \in 0 .. m /\ i + 1 \in 0 .. m
    BY <1>14, <1>17
  <2>2. /\ ss[i + 1] = IF i % 2 = 0 THEN A(h) ELSE B(h)
        /\ pos[i] = IF i % 2 = 0 THEN U(h) ELSE V(h)
        /\ pos[i + 1] = IF (i + 1) % 2 = 0 THEN U((i + 1) \div 2) ELSE V((i + 1) \div 2)
    BY <2>1
  <2> HIDE DEF ss, pos
  <2>3. \/ i % 2 = 0 /\ (i + 1) % 2 = 1 /\ (i + 1) \div 2 = h
        \/ i % 2 = 1 /\ (i + 1) % 2 = 0 /\ (i + 1) \div 2 = h + 1
    BY Halves
  <2> HIDE DEF h, m
  <2>4. CASE i % 2 = 0 /\ (i + 1) % 2 = 1 /\ (i + 1) \div 2 = h
    <3>1. ss[i + 1] = A(h) /\ pos[i] = U(h) /\ pos[i + 1] = V(h)
      BY <2>2, <2>4
    <3>2. V(h) = U(h) + 2 + Len(A(h))
      BY DEF V
    <3>3. QED
      BY <1>11, <1>12, <2>1, <3>1, <3>2
  <2>5. CASE i % 2 = 1 /\ (i + 1) % 2 = 0 /\ (i + 1) \div 2 = h + 1
    <3>1. ss[i + 1] = B(h) /\ pos[i] = V(h) /\ pos[i + 1] = U(h + 1)
      BY <2>2, <2>5
    <3>2. QED
      BY <1>12, <2>1, <3>1
  <2>6. QED
    BY <2>3, <2>4, <2>5
<1> HIDE DEF pos
<1>18. ReadStrings(p, m) = ss /\ ss # None /\ Len(ss) = m
  <2>1. 2 + 2 * m <= Len(p)
    BY <1>6, <1>8, <1>9
  <2> HIDE DEF ss, m
  <2>2. QED
    BY <1>9, <1>13, <1>15, <1>16, <1>17, <2>1, ReadStringsIs
<1> DEFINE got == Paired(ss)
           cut == Cut(pairs, k)
<1>19. /\ cut \in Seq(Pair) /\ Len(cut) = k /\ \A i \in 1 .. k : cut[i] = pairs[i]
       /\ IsPrefix(cut, pairs) /\ (L <= k => cut = pairs)
  <2>1. /\ cut \in Seq(Pair) /\ Len(cut) = (IF L <= k THEN L ELSE k)
        /\ \A i \in 1 .. Len(cut) : cut[i] = pairs[i]
        /\ IsPrefix(cut, pairs) /\ (L <= k => cut = pairs)
    BY <1>1, <1>6, CutIs DEF L
  <2> HIDE DEF cut
  <2>2. Len(cut) = k
    BY <1>1, <1>6, <2>1
  <2>3. QED
    BY <2>1, <2>2
<1> HIDE DEF cut
<1>20. got = cut
  <2>1. Len(ss) \div 2 = k
    <3>1. m \div 2 = k
      BY <1>6, Twice
    <3> HIDE DEF ss, m
    <3>2. QED
      BY <1>18, <3>1
  <2>2. ASSUME NEW i \in 1 .. k PROVE <<ss[2 * i - 1], ss[2 * i]>> = cut[i]
    <3> DEFINE h == i - 1
    <3>1. h \in Nat /\ h < k /\ h + 1 = i /\ h < L
      BY <1>1, <1>6
    <3>2. /\ 2 * i - 1 \in 1 .. m /\ 2 * i \in 1 .. m
          /\ (2 * i - 1) - 1 = 2 * h /\ (2 * i) - 1 = 2 * h + 1
      BY <1>6
    <3> HIDE DEF h, m
    <3>3. /\ (2 * h) \div 2 = h /\ (2 * h) % 2 = 0
          /\ (2 * h + 1) \div 2 = h /\ (2 * h + 1) % 2 = 1
      BY <3>1, Twice
    <3>4. ss[2 * i - 1] = A(h)
      BY <3>2, <3>3
    <3>5. ss[2 * i] = B(h)
      <4> DEFINE e == 2 * i
             f == e - 1
             g == 2 * h + 1
      <4>1. e \in 1 .. m /\ f = g /\ g % 2 = 1 /\ g \div 2 = h
        BY <3>2, <3>3
      <4>2. ss[e] = IF f % 2 = 0 THEN A(f \div 2) ELSE B(f \div 2)
        BY <4>1
      <4> HIDE DEF e, f, g, ss, A, B
      <4>3. f % 2 = 1 /\ f \div 2 = h
        BY <4>1
      <4>4. ss[e] = B(h)
        BY <4>2, <4>3
      <4>5. QED
        BY <4>4 DEF e
    <3> HIDE DEF ss
    <3>6. pairs[i] = <<A(h), B(h)>>
      BY <1>2, <3>1
    <3>7. QED
      BY <1>19, <3>4, <3>5, <3>6
  <2>3. got = [i \in 1 .. k |-> <<ss[2 * i - 1], ss[2 * i]>>]
    <3> HIDE DEF ss
    <3>1. QED
      BY <1>18, <2>1 DEF Paired
  <2> DEFINE e(i) == <<ss[2 * i - 1], ss[2 * i]>>
  <2>4. \A i \in 1 .. k : e(i) = cut[i]
    BY <2>2
  <2> HIDE DEF ss, e
  <2>5. [i \in 1 .. k |-> e(i)] = cut
    BY <1>6, <1>19, <2>4
  <2>6. QED
    BY <2>3, <2>5 DEF e
<1>21. got # None
  BY <1>19, <1>20, NoneAssumption DEF Pair
<1>22. ListReceived(pairs, got, s)
  <2> HIDE DEF got
  <2>1. got # pairs => 2 + Upto(s, k + 1) > MaxPayloadSize
    BY <1>1, <1>6, <1>19, <1>20
  <2>2. QED
    BY <1>19, <1>20, <2>1 DEF ListReceived, Upto
<1>23. got = Paired(ReadStrings(p, 2 * ReadU16(p, 1)))
  <2> HIDE DEF ss
  <2>1. QED
    BY <1>8, <1>18
<1> HIDE DEF got
<1>24. QED
  BY <1>8, <1>9, <1>21, <1>22, <1>23 DEF s

\* Every reply, as the client makes it out.
LEMMA ReplyArrives ==
  ASSUME NEW c, NEW r \in Replies(c)
  PROVE  /\ r.op \in Byte
         /\ \E n \in Half : \E p \in Bytes(n) :
              /\ n <= MaxPayloadSize /\ EncodeReply(r) = Message(r.op, p)
              /\ r.op # Opcode.ErrorResponse =>
                   DecodeResponse(r.op, p) # None /\ Answered(r, DecodeResponse(r.op, p))
<1> DEFINE op == r.op
           v  == r.value
           Goal == \E n \in Half : \E p \in Bytes(n) :
                     /\ n <= MaxPayloadSize /\ EncodeReply(r) = Message(op, p)
                     /\ op # Opcode.ErrorResponse =>
                          DecodeResponse(op, p) # None /\ Answered(r, DecodeResponse(op, p))
<1>1. op \in Byte
  <2> HIDE DEF op
  <2>1. \/ op = Opcode.ErrorResponse \/ op = Opcode.StatusResponse
        \/ op = Opcode.DeviceListResponse \/ op = Opcode.ContentStreamListResponse
        \/ op = Opcode.HrtfCatalogResponse \/ op = Opcode.EqPresetCatalogResponse
        \/ op = Opcode.HwEqStateResponse \/ op = Opcode.BassEnhancerStateResponse
    BY RepliesAre DEF op
  <2>2. \/ op = 129 \/ op = 130 \/ op = 131 \/ op = 132
        \/ op = 133 \/ op = 134 \/ op = 135 \/ op = 136
    BY <2>1, ResponsesAre
  <2>3. op \in Nat /\ op <= 255
    BY <2>2
  <2>4. QED
    BY <2>3, ByteIs
<1>2. Answered(r, v) = Answered(r, r.value)
  OBVIOUS
<1>3. /\ op \in {Opcode.DeviceListResponse, Opcode.ContentStreamListResponse} =>
           \A got : ListReceived(v, got, PairEntries(v)) => Answered(r, got)
      /\ op \in {Opcode.HrtfCatalogResponse, Opcode.EqPresetCatalogResponse} =>
           \A got : ListReceived(v, got, NameEntries(v)) => Answered(r, got)
      /\ op \in {Opcode.StatusResponse, Opcode.HwEqStateResponse,
                 Opcode.BassEnhancerStateResponse} =>
           Answered(r, v)
  BY ResponsesAre DEF Answered
<1>4. CASE op = Opcode.ErrorResponse /\ v = << >>
  <2> DEFINE p == << >>
  <2>1. p \in Bytes(0) /\ 0 \in Half /\ 0 <= MaxPayloadSize
    BY HalfIs, MaxU16Is, ProtocolAssumption DEF Bytes
  <2>2. EncodeReply(r) = Message(op, p)
    BY <1>4, EncodeReplyIs, ErrorReturns
  <2> HIDE DEF p, op
  <2>3. QED
    BY <1>1, <1>4, <2>1, <2>2 DEF op
<1>5. CASE op = Opcode.StatusResponse /\ v \in Statuses
  <2>1. PICK n \in Half : \E p \in Bytes(n) :
          /\ n <= MaxPayloadSize
          /\ EncodeStatusResponse(v) = Message(Opcode.StatusResponse, p)
          /\ DecodeStatusResponse(p) = v /\ v # None
    BY <1>5, StatusReturns
  <2>2. PICK p \in Bytes(n) :
          /\ n <= MaxPayloadSize
          /\ EncodeStatusResponse(v) = Message(Opcode.StatusResponse, p)
          /\ DecodeStatusResponse(p) = v /\ v # None
    BY <2>1
  <2>3. EncodeReply(r) = Message(op, p)
    BY <1>5, <2>2, EncodeReplyIs
  <2>4. DecodeResponse(op, p) # None /\ Answered(r, DecodeResponse(op, p))
    BY <1>3, <1>5, <2>2, DecodeResponseIs
  <2> HIDE DEF op
  <2>5. QED
    BY <1>1, <2>2, <2>3, <2>4 DEF op
<1>6. CASE op = Opcode.HwEqStateResponse /\ v \in Bands
  <2>1. PICK n \in Half : \E p \in Bytes(n) :
          /\ n <= MaxPayloadSize
          /\ EncodeHwEqStateResponse(v) = Message(Opcode.HwEqStateResponse, p)
          /\ DecodeHwEqStateResponse(p) = v /\ v # None
    BY <1>6, BandsReturn
  <2>2. PICK p \in Bytes(n) :
          /\ n <= MaxPayloadSize
          /\ EncodeHwEqStateResponse(v) = Message(Opcode.HwEqStateResponse, p)
          /\ DecodeHwEqStateResponse(p) = v /\ v # None
    BY <2>1
  <2>3. EncodeReply(r) = Message(op, p)
    BY <1>6, <2>2, EncodeReplyIs
  <2>4. DecodeResponse(op, p) # None /\ Answered(r, DecodeResponse(op, p))
    BY <1>3, <1>6, <2>2, DecodeResponseIs
  <2> HIDE DEF op
  <2>5. QED
    BY <1>1, <2>2, <2>3, <2>4 DEF op
<1>7. CASE op = Opcode.BassEnhancerStateResponse /\ v \in Bass
  <2>1. PICK n \in Half : \E p \in Bytes(n) :
          /\ n <= MaxPayloadSize
          /\ EncodeBassEnhancerStateResponse(v) = Message(Opcode.BassEnhancerStateResponse, p)
          /\ DecodeBassEnhancerStateResponse(p) = v /\ v # None
    BY <1>7, BassReturns
  <2>2. PICK p \in Bytes(n) :
          /\ n <= MaxPayloadSize
          /\ EncodeBassEnhancerStateResponse(v) = Message(Opcode.BassEnhancerStateResponse, p)
          /\ DecodeBassEnhancerStateResponse(p) = v /\ v # None
    BY <2>1
  <2>3. EncodeReply(r) = Message(op, p)
    BY <1>7, <2>2, EncodeReplyIs
  <2>4. DecodeResponse(op, p) # None /\ Answered(r, DecodeResponse(op, p))
    BY <1>3, <1>7, <2>2, DecodeResponseIs
  <2> HIDE DEF op
  <2>5. QED
    BY <1>1, <2>2, <2>3, <2>4 DEF op
<1>8. CASE op \in {Opcode.DeviceListResponse, Opcode.ContentStreamListResponse} /\ v \in Pairs
  <2>1. PICK n \in Half : \E p \in Bytes(n) : \E got :
          /\ n <= MaxPayloadSize /\ ListMessage(op, PairEntries(v)) = Message(op, p)
          /\ Len(p) >= 2 /\ got = Paired(ReadStrings(p, 2 * ReadU16(p, 1))) /\ got # None
          /\ ListReceived(v, got, PairEntries(v))
    BY <1>8, PairsReturn
  <2>2. PICK p \in Bytes(n) : \E got :
          /\ n <= MaxPayloadSize /\ ListMessage(op, PairEntries(v)) = Message(op, p)
          /\ Len(p) >= 2 /\ got = Paired(ReadStrings(p, 2 * ReadU16(p, 1))) /\ got # None
          /\ ListReceived(v, got, PairEntries(v))
    BY <2>1
  <2>3. PICK got :
          /\ n <= MaxPayloadSize /\ ListMessage(op, PairEntries(v)) = Message(op, p)
          /\ Len(p) >= 2 /\ got = Paired(ReadStrings(p, 2 * ReadU16(p, 1))) /\ got # None
          /\ ListReceived(v, got, PairEntries(v))
    BY <2>2
  <2>4. EncodeReply(r) = Message(op, p)
    <3>1. EncodeReply(r) = ListMessage(op, PairEntries(v))
      BY <1>8, EncodeReplyIs DEF EncodeDeviceListResponse, EncodeContentStreamListResponse
    <3>2. QED
      BY <2>3, <3>1
  <2>5. DecodeResponse(op, p) = got
    <3>1. ~(Len(p) < 2)
      BY <2>3, BytesAre
    <3>2. QED
      BY <1>8, <2>3, <3>1, DecodeResponseIs
      DEF DecodeDeviceListResponse, DecodeContentStreamListResponse
  <2>6. DecodeResponse(op, p) # None /\ Answered(r, DecodeResponse(op, p))
    BY <1>3, <1>8, <2>3, <2>5
  <2> HIDE DEF op
  <2>7. QED
    BY <1>1, <2>3, <2>4, <2>6 DEF op
<1>9. CASE op \in {Opcode.HrtfCatalogResponse, Opcode.EqPresetCatalogResponse} /\ v \in Names
  <2>1. PICK n \in Half : \E p \in Bytes(n) : \E got :
          /\ n <= MaxPayloadSize /\ ListMessage(op, NameEntries(v)) = Message(op, p)
          /\ Len(p) >= 2 /\ got = ReadStrings(p, ReadU16(p, 1)) /\ got # None
          /\ ListReceived(v, got, NameEntries(v))
    BY <1>9, NamesReturn
  <2>2. PICK p \in Bytes(n) : \E got :
          /\ n <= MaxPayloadSize /\ ListMessage(op, NameEntries(v)) = Message(op, p)
          /\ Len(p) >= 2 /\ got = ReadStrings(p, ReadU16(p, 1)) /\ got # None
          /\ ListReceived(v, got, NameEntries(v))
    BY <2>1
  <2>3. PICK got :
          /\ n <= MaxPayloadSize /\ ListMessage(op, NameEntries(v)) = Message(op, p)
          /\ Len(p) >= 2 /\ got = ReadStrings(p, ReadU16(p, 1)) /\ got # None
          /\ ListReceived(v, got, NameEntries(v))
    BY <2>2
  <2>4. EncodeReply(r) = Message(op, p)
    <3>1. EncodeReply(r) = ListMessage(op, NameEntries(v))
      BY <1>9, EncodeReplyIs DEF EncodeHrtfCatalogResponse, EncodeEqPresetCatalogResponse
    <3>2. QED
      BY <2>3, <3>1
  <2>5. DecodeResponse(op, p) = got
    <3>1. ~(Len(p) < 2)
      BY <2>3, BytesAre
    <3>2. QED
      BY <1>9, <2>3, <3>1, DecodeResponseIs
      DEF DecodeHrtfCatalogResponse, DecodeEqPresetCatalogResponse
  <2>6. DecodeResponse(op, p) # None /\ Answered(r, DecodeResponse(op, p))
    BY <1>3, <1>9, <2>3, <2>5
  <2> HIDE DEF op
  <2>7. QED
    BY <1>1, <2>3, <2>4, <2>6 DEF op
<1>10. \/ op = Opcode.ErrorResponse /\ v = << >>
       \/ op = Opcode.StatusResponse /\ v \in Statuses
       \/ op \in {Opcode.DeviceListResponse, Opcode.ContentStreamListResponse} /\ v \in Pairs
       \/ op \in {Opcode.HrtfCatalogResponse, Opcode.EqPresetCatalogResponse} /\ v \in Names
       \/ op = Opcode.HwEqStateResponse /\ v \in Bands
       \/ op = Opcode.BassEnhancerStateResponse /\ v \in Bass
  BY RepliesAre
<1>11. QED
  BY <1>4, <1>5, <1>6, <1>7, <1>8, <1>9, <1>10

-----------------------------------------------------------------------------
(* The inductive invariant *)

\* What comes out of the messages.
Commands  == {DecodeCommand(op, p) : op \in Byte, p \in Seq(Byte)}
Answers   == UNION {Replies(c) : c \in Commands}

\* What the client can make of a response.
Responses == {DecodeResponse(op, p) : op \in Byte, p \in Seq(Byte)} \cup {None}

\* The logs of both sides are as long as what they record.
SequencesOK ==
  /\ sent \in Seq([op : Byte, command : Requests \cup {None}])
  /\ handled \in Seq([command : Commands, reply : Answers])
  /\ received \in Seq(Responses)
  /\ Len(received) <= Len(handled) /\ Len(handled) <= Len(sent) /\ Len(sent) <= MaxRequests

\* The connection is never given up as broken.
FlagsOK == connection \in {"open", "closed"} /\ serving \in BOOLEAN

\* A request is logged with its opcode.
SentOK ==
  \A i \in 1 .. Len(sent) : sent[i].command # None => sent[i].command.op = sent[i].op

\* The bytes of a message that carries a request.
Carries(m, s) ==
  \E n \in Half : \E p \in Bytes(n) :
    m = Message(s.op, p) /\ Understood(s.command, DecodeCommand(s.op, p))

\* What the server has not handled is in its buffer and on the way, message by message.
Carried(msgs) ==
  /\ Len(msgs) = Len(sent) - Len(handled)
  /\ \A i \in 1 .. Len(msgs) : Carries(msgs[i], sent[Len(handled) + i])
  /\ buffer \o toServer = FlattenSeq(msgs)

\* The buffer and the stream hold whole messages together, however they are cut.
RequestsOK ==
  /\ buffer \in Seq(Byte) /\ toServer \in Seq(Byte)
  /\ \E msgs \in Seq(Seq(Byte)) : Carried(msgs)

\* Each command handled is the one that was meant, and has been answered.
HandledOK ==
  \A i \in 1 .. Len(handled) :
    /\ Understood(sent[i].command, handled[i].command)
    /\ handled[i].reply \in Replies(handled[i].command)

\* What the client has not received is on the way to it.
PendingOf(hs, rs) == [i \in 1 .. Len(hs) - Len(rs) |-> EncodeReply(hs[Len(rs) + i].reply)]

\* The replies on the way.
Pending == PendingOf(handled, received)

\* The other stream holds them and nothing else, while there is a reader.
RepliesOK == toClient = IF connection = "open" THEN FlattenSeq(Pending) ELSE << >>

\* What the client made of the answers it has read.
ReceivedOK ==
  \A i \in 1 .. Len(received) :
    IF handled[i].reply.op # ResponseTo(sent[i].op)
      THEN received[i] = None
      ELSE Answered(handled[i].reply, received[i])

\* The invariant.
IInv ==
  /\ SequencesOK /\ FlagsOK /\ SentOK /\ RequestsOK /\ HandledOK /\ RepliesOK /\ ReceivedOK

-----------------------------------------------------------------------------

\* An opcode is a byte.
LEMMA OpcodeByte ==
  /\ \A op \in Bare \cup Text \cup Flag \cup Index \cup Position \cup Content : op \in Byte
  /\ Opcode.SetSpeakerMute \in Byte /\ Opcode.SetHwEqBand \in Byte
  /\ Opcode.SetBassEnhancer \in Byte
BY OpcodesAre, ByteIs

\* A request that is understood as it was meant, and one that loses the end of a name.
LEMMA ArrivesWhole ==
  ASSUME NEW c \in Requests, c.op \in Byte, c = Command(c.op, c.args),
         NEW n \in Half, NEW p \in Bytes(n), Encode(c) = Message(c.op, p),
         WellFormed(c.op, p), Arguments(c.op, p) = c.args
  PROVE  Carries(Encode(c), [op |-> c.op, command |-> c])
<1> DEFINE op   == c.op
           args == c.args
           s    == [op |-> op, command |-> c]
<1>1. DecodeCommand(op, p) = c
  <2>1. DecodeCommand(op, p) = Command(op, Arguments(op, p))
    BY DEF DecodeCommand
  <2>2. c = Command(op, args) /\ Arguments(op, p) = args
    OBVIOUS
  <2> HIDE DEF op, args
  <2>3. QED
    BY <2>1, <2>2
<1>2. c # None
  BY NoneAssumption
<1>3. Conveys(c, c)
  BY DEF Conveys
<1>4. s.op = op /\ s.command = c
  OBVIOUS
<1> HIDE DEF op, args, s
<1>5. Understood(s.command, DecodeCommand(s.op, p))
  BY <1>1, <1>2, <1>3, <1>4 DEF Understood
<1>6. Encode(c) = Message(s.op, p)
  BY <1>4 DEF op
<1>7. Carries(Encode(c), s)
  BY <1>5, <1>6 DEF Carries
<1>8. QED
  BY <1>7 DEF s, op

\* A request whose payload is well-formed and whose arguments convey it arrives.
LEMMA ArrivesCut ==
  ASSUME NEW c \in Requests, c.op \in Byte, NEW n \in Half, NEW p \in Bytes(n),
         Encode(c) = Message(c.op, p), WellFormed(c.op, p),
         NEW args \in Seq(Seq(Byte)), Arguments(c.op, p) = args,
         Conveys(c, Command(c.op, args))
  PROVE  Carries(Encode(c), [op |-> c.op, command |-> c])
<1> DEFINE op == c.op
           s  == [op |-> op, command |-> c]
           d  == Command(op, args)
<1>1. DecodeCommand(op, p) = d
  <2>1. DecodeCommand(op, p) = Command(op, Arguments(op, p))
    BY DEF DecodeCommand
  <2>2. Arguments(op, p) = args
    OBVIOUS
  <2> HIDE DEF op
  <2>3. QED
    BY <2>1, <2>2
<1>2. c # None
  BY NoneAssumption
<1>3. d \in [op : Byte, args : Seq(Seq(Byte))]
  BY DEF Command
<1>4. d # None /\ Conveys(c, d)
  BY <1>3, NoneAssumption
<1>5. s.op = op /\ s.command = c
  OBVIOUS
<1> HIDE DEF op, s, d
<1>6. Understood(s.command, DecodeCommand(s.op, p))
  BY <1>1, <1>2, <1>4, <1>5 DEF Understood
<1>7. Encode(c) = Message(s.op, p)
  BY <1>5 DEF op
<1>8. Carries(Encode(c), s)
  BY <1>6, <1>7 DEF Carries
<1>9. QED
  BY <1>8 DEF s, op

\* No argument, one byte, two.
LEMMA BareArrives ==
  ASSUME NEW c \in Requests, c.op \in Bare, c = Command(c.op, << >>)
  PROVE  c.op \in Byte /\ Carries(Encode(c), [op |-> c.op, command |-> c])
<1>1. c.op \in Byte
  BY OpcodeByte
<1>2. c.args = << >>
  BY DEF Command
<1> DEFINE p == << >>
<1>3. p \in Bytes(0) /\ 0 \in Half
  BY HalfIs, MaxU16Is DEF Bytes
<1>4. Encode(c) = Message(c.op, p)
  BY EncodeIs
<1>5. WellFormed(c.op, p) /\ Arguments(c.op, p) = c.args
  BY <1>2, ArgumentsIs DEF WellFormed
<1>6. c = Command(c.op, c.args)
  BY <1>2
<1> HIDE DEF p
<1>7. QED
  BY <1>1, <1>3, <1>4, <1>5, <1>6, ArrivesWhole

\* A flag arrives as it was meant.
LEMMA FlagArrives ==
  ASSUME NEW c \in Requests, c.op \in Flag, NEW b \in BOOLEAN, c = Command(c.op, <<b>>)
  PROVE  c.op \in Byte /\ Carries(Encode(c), [op |-> c.op, command |-> c])
<1>1. c.op \in Byte
  BY OpcodeByte
<1>2. c.args = <<b>> /\ c.args[1] = b
  BY DEF Command
<1> DEFINE v == Bool(b)
           p == <<v>>
<1>3. v \in Byte /\ p \in Bytes(1) /\ 1 \in Half /\ p[1] = v /\ Len(p) >= 1
  <2>1. v \in Nat /\ v <= 255
    BY DEF Bool
  <2>2. v \in Byte
    BY <2>1, ByteIs
  <2> HIDE DEF v
  <2>3. QED
    BY <2>2, OneByte, HalfIs, MaxU16Is
<1>4. Encode(c) = Message(c.op, p)
  BY <1>2, EncodeIs
<1>5. WellFormed(c.op, p)
  <2>1. c.op # Opcode.SetSpatialMode
    BY OpcodesAre
  <2> HIDE DEF p
  <2>2. QED
    BY <1>3, <2>1 DEF WellFormed
<1>6. Arguments(c.op, p) = <<b>>
  <2> DEFINE flag == p[1] # 0
  <2>1. Arguments(c.op, p) = <<flag>>
    BY ArgumentsIs
  <2>2. (flag <=> b) /\ flag \in BOOLEAN
    BY DEF Bool
  <2>3. flag = b
    BY <2>2, Zenon
  <2> HIDE DEF flag
  <2>4. QED
    BY <2>1, <2>3
<1> HIDE DEF p
<1>7. QED
  BY <1>1, <1>2, <1>3, <1>4, <1>5, <1>6, ArrivesWhole

\* So does an index,
LEMMA IndexArrives ==
  ASSUME NEW c \in Requests, c.op \in Index, NEW v \in Byte, c = Command(c.op, <<v>>),
         c.op = Opcode.SetSpatialMode => v <= Advanced
  PROVE  c.op \in Byte /\ Carries(Encode(c), [op |-> c.op, command |-> c])
<1>1. c.op \in Byte
  BY OpcodeByte
<1>2. c.args = <<v>> /\ c.args[1] = v
  BY DEF Command
<1> DEFINE p == <<v>>
<1>3. p \in Bytes(1) /\ 1 \in Half /\ p[1] = v /\ Len(p) >= 1
  BY OneByte, HalfIs, MaxU16Is
<1>4. Encode(c) = Message(c.op, p)
  BY <1>2, EncodeIs
<1>5. Arguments(c.op, p) = c.args
  BY <1>2, ArgumentsIs
<1> HIDE DEF p
<1>6. WellFormed(c.op, p)
  BY <1>3 DEF WellFormed
<1>7. QED
  BY <1>1, <1>2, <1>3, <1>4, <1>5, <1>6, ArrivesWhole

\* The index of a speaker is a byte.
LEMMA SpeakerIs ==
  ASSUME NEW v \in 0 .. SpeakerCount - 1
  PROVE  v \in Byte /\ v < SpeakerCount
<1>1. SpeakerCount \in Nat /\ SpeakerCount <= 255
  BY ProtocolAssumption
<1>2. v \in Nat /\ v <= 255 /\ v < SpeakerCount
  BY <1>1
<1>3. QED
  BY <1>2, ByteIs

\* a speaker's mute,
LEMMA MuteArrives ==
  ASSUME NEW c \in Requests, c.op = Opcode.SetSpeakerMute, NEW v \in 0 .. SpeakerCount - 1,
         NEW b \in BOOLEAN, c = Command(c.op, <<v, b>>)
  PROVE  c.op \in Byte /\ Carries(Encode(c), [op |-> c.op, command |-> c])
<1>1. c.op \in Byte
  BY OpcodeByte
<1>2. c.args = <<v, b>> /\ c.args[1] = v /\ c.args[2] = b
  BY DEF Command
<1> DEFINE w == Bool(b)
           p == <<v, w>>
<1>3. v \in Byte /\ v < SpeakerCount /\ w \in Byte
  <2>1. w \in Nat /\ w <= 255
    BY DEF Bool
  <2>2. QED
    BY <2>1, ByteIs, SpeakerIs
<1>4. p \in Bytes(2) /\ 2 \in Half /\ p[1] = v /\ p[2] = w /\ Len(p) >= 2
  <2> HIDE DEF w
  <2>1. QED
    BY <1>3, HalfIs, MaxU16Is DEF Bytes
<1>5. Encode(c) = Message(c.op, p)
  BY <1>2, EncodeIs
<1>6. Arguments(c.op, p) = <<v, b>>
  <2> DEFINE flag == p[2] # 0
  <2>1. Arguments(c.op, p) = <<p[1], flag>>
    BY ArgumentsIs
  <2>2. (flag <=> b) /\ flag \in BOOLEAN
    BY DEF Bool
  <2>3. flag = b
    BY <2>2, Zenon
  <2> HIDE DEF flag
  <2>4. QED
    BY <2>1, <2>3
<1> HIDE DEF p
<1>7. WellFormed(c.op, p)
  BY <1>3, <1>4 DEF WellFormed
<1>8. QED
  BY <1>1, <1>2, <1>4, <1>5, <1>6, <1>7, ArrivesWhole

\* Floats.
LEMMA PositionArrives ==
  ASSUME NEW c \in Requests, c.op \in Position, NEW v \in 0 .. SpeakerCount - 1,
         NEW f \in Float, c = Command(c.op, <<v, f>>)
  PROVE  c.op \in Byte /\ Carries(Encode(c), [op |-> c.op, command |-> c])
<1>1. c.op \in Byte
  BY OpcodeByte
<1>2. c.args = <<v, f>> /\ c.args[1] = v /\ c.args[2] = f
  BY DEF Command
<1>3. v \in Byte /\ v < SpeakerCount
  BY SpeakerIs
<1> DEFINE p == <<v>> \o AppendFloatBE(f)
<1>4. <<v>> \in Bytes(1) /\ AppendFloatBE(f) \in Bytes(4) /\ AppendFloatBE(f) \in Seq(Byte)
  BY <1>3, OneByte, FloatType, BytesAre
<1>5. p \in Bytes(1 + 4)
  BY <1>4, Joined
<1>6. Encode(c) = Message(c.op, p)
  BY <1>2, EncodeIs
<1>7. p \in Seq(Byte) /\ Holds(p, 1, <<v>> \o AppendFloatBE(f))
  <2>1. p \in Seq(Byte)
    BY <1>5, BytesAre
  <2>2. QED
    BY <2>1, HoldsItself
<1> HIDE DEF p
<1>8. p \in Bytes(5) /\ 5 \in Half
  BY <1>5, HalfIs, MaxU16Is
<1>9. Holds(p, 1, <<v>>) /\ Holds(p, 1 + 1, AppendFloatBE(f))
  BY <1>4, <1>7, HoldsParts
<1>10. p[1] = v
  BY <1>7, <1>9, HoldsByte
<1>11. ReadFloatBE(p, 1 + 1) = f /\ (1 + 1) + 3 <= Len(p)
  BY <1>7, <1>9, HoldsFloat
<1>12. WellFormed(c.op, p)
  <2>1. Len(p) \in Nat
    BY <1>7
  <2>2. Len(p) >= 5
    BY <1>11, <2>1
  <2>3. QED
    BY <1>3, <1>10, <2>2 DEF WellFormed
<1>13. Arguments(c.op, p) = <<v, f>>
  BY <1>10, <1>11, ArgumentsIs
<1>14. QED
  BY <1>1, <1>2, <1>6, <1>8, <1>12, <1>13, ArrivesWhole

\* a band of the hardware equalizer,
LEMMA BandArrives ==
  ASSUME NEW c \in Requests, c.op = Opcode.SetHwEqBand, NEW v \in 0 .. MaxEqBands - 1,
         NEW b \in EqBands, c = Command(c.op, <<v, b>>)
  PROVE  c.op \in Byte /\ Carries(Encode(c), [op |-> c.op, command |-> c])
<1>1. c.op \in Byte
  BY OpcodeByte
<1>2. c.args = <<v, b>> /\ c.args[1] = v /\ c.args[2] = b
  BY DEF Command
<1> DEFINE p == <<v>> \o AppendEqBand(b)
<1>3. p \in Bytes(1 + 13)
  BY BandIndex, OneByte, BandType, Joined
<1>4. Encode(c) = Message(c.op, p)
  BY <1>2, EncodeIs
<1>5. p \in Seq(Byte)
  BY <1>3, BytesAre
<1>6. Holds(p, 1, <<v>> \o AppendEqBand(b))
  BY <1>5, HoldsItself
<1> HIDE DEF p
<1>7. p \in Bytes(14) /\ 14 \in Half
  BY <1>3, HalfIs, MaxU16Is
<1>8. WellFormedBand(p, 1) /\ p[1] = v /\ ReadEqBand(p, 1 + 1) = b
  BY <1>5, <1>6, HoldsBandAt
<1>9. WellFormed(c.op, p)
  BY <1>8 DEF WellFormed
<1>10. Arguments(c.op, p) = <<v, b>>
  BY <1>8, ArgumentsIs
<1>11. QED
  BY <1>1, <1>2, <1>4, <1>7, <1>9, <1>10, ArrivesWhole

\* the bass enhancer's settings,
LEMMA BassArrives ==
  ASSUME NEW c \in Requests, c.op = Opcode.SetBassEnhancer, NEW b \in BassEnhancers,
         c = Command(c.op, <<b>>)
  PROVE  c.op \in Byte /\ Carries(Encode(c), [op |-> c.op, command |-> c])
<1>1. c.op \in Byte
  BY OpcodeByte
<1>2. c.args = <<b>> /\ c.args[1] = b
  BY DEF Command
<1> DEFINE p == AppendBassEnhancerSettings(b)
<1>3. p \in Bytes(13) /\ 13 \in Half
  BY BassType, HalfIs, MaxU16Is
<1>4. p \in Seq(Byte) /\ Len(p) = 13
  BY <1>3, BytesAre
<1>5. Holds(p, 1, AppendBassEnhancerSettings(b))
  BY <1>4, HoldsItself
<1>6. ReadBassEnhancerSettings(p) = b
  BY <1>4, <1>5, HoldsBass
<1>7. Encode(c) = Message(c.op, p)
  BY <1>2, EncodeIs
<1> HIDE DEF p
<1>8. WellFormed(c.op, p)
  BY <1>4 DEF WellFormed, BassEnhancerWireSize
<1>9. Arguments(c.op, p) = <<b>>
  BY <1>6, ArgumentsIs
<1>10. QED
  BY <1>1, <1>2, <1>3, <1>7, <1>8, <1>9, ArrivesWhole

\* A name, of which what does not fit is cut off.
LEMMA TextArrives ==
  ASSUME NEW c \in Requests, c.op \in Text, NEW v \in Seq(Byte), c = Command(c.op, <<v>>)
  PROVE  c.op \in Byte /\ Carries(Encode(c), [op |-> c.op, command |-> c])
<1>1. c.op \in Byte
  BY OpcodeByte
<1>2. c.args = <<v>> /\ c.args[1] = v
  BY DEF Command
<1> DEFINE p == Cut(v, MaxPayloadSize)
           n == Len(p)
<1>3. MaxPayloadSize \in Nat /\ MaxPayloadSize <= MaxU16 /\ Len(v) \in Nat
  BY ProtocolAssumption, MaxU16Is
<1>4. /\ p \in Seq(Byte) /\ n = (IF Len(v) <= MaxPayloadSize THEN Len(v) ELSE MaxPayloadSize)
      /\ (Len(v) <= MaxPayloadSize => p = v) /\ IsPrefix(p, v)
  BY <1>3, CutIs
<1>5. Encode(c) = Message(c.op, p)
  BY <1>2, EncodeIs
<1> HIDE DEF p
<1>6. n \in Nat /\ n <= MaxU16 /\ p \in Bytes(n)
  <2>1. n \in Nat
    BY <1>4
  <2>2. n <= MaxPayloadSize
    BY <1>3, <1>4
  <2> HIDE DEF n
  <2>3. n <= MaxU16
    BY <1>3, <2>1, <2>2, MaxU16Is
  <2>4. p \in Bytes(n)
    BY <1>4, BytesAre DEF n
  <2>5. QED
    BY <2>1, <2>3, <2>4
<1>7. n \in Half
  BY <1>6, HalfIs
<1>8. WellFormed(c.op, p) /\ Arguments(c.op, p) = <<p>>
  BY ArgumentsIs DEF WellFormed
<1>9. <<p>> \in Seq(Seq(Byte))
  BY <1>4
<1>10. p = v \/ Len(Encode(c)) = HeaderSize + MaxPayloadSize
  <2>1. CASE Len(v) <= MaxPayloadSize
    BY <1>4, <2>1
  <2>2. CASE ~(Len(v) <= MaxPayloadSize)
    <3>1. n = MaxPayloadSize
      BY <1>4, <2>2
    <3>2. Message(c.op, p) \in Bytes(3 + n)
      BY <1>1, <1>6, <1>7, MessageType
    <3>3. QED
      BY <1>5, <3>1, <3>2, BytesAre DEF HeaderSize
  <2>3. QED
    BY <2>1, <2>2
<1>11. Conveys(c, Command(c.op, <<p>>))
  <2> DEFINE got == Command(c.op, <<p>>)
  <2>1. got.op = c.op /\ got.args = <<p>>
    BY DEF Command
  <2> HIDE DEF got
  <2>2. DOMAIN got.args = DOMAIN c.args /\ DOMAIN c.args = {1} /\ Len(c.args) = 1
    BY <1>2, <2>1
  <2>3. got.args[1] = p
    BY <2>1
  <2>4. QED
    BY <1>2, <1>4, <1>10, <2>1, <2>2, <2>3 DEF Conveys, got
<1>12. QED
  BY <1>1, <1>5, <1>6, <1>7, <1>8, <1>9, <1>11, ArrivesCut

\* The application's name, and what is behind it.
LEMMA AppArrives ==
  ASSUME NEW p \in Seq(Byte), NEW a \in Seq(Byte), Len(a) <= MaxU16, NEW t \in Seq(Byte),
         Holds(p, 1, AppendString(a) \o t)
  PROVE  /\ ReadString(p, 1) # None /\ ReadString(p, 1).value = a
         /\ ReadString(p, 1).next = 3 + Len(a)
         /\ Holds(p, 3 + Len(a), t)
<1> DEFINE l == Len(a)
<1>1. l \in Nat /\ 2 + l \in Nat /\ AppendString(a) \in Bytes(2 + l)
  BY StringIs
<1>2. Holds(p, 1, AppendString(a)) /\ Holds(p, 1 + (2 + l), t)
  BY <1>1, HoldsParts
<1>3. ReadString(p, 1) = [value |-> a, next |-> 1 + 2 + l] /\ ReadString(p, 1) # None
  BY <1>2, HoldsString
<1> HIDE DEF l
<1>4. 1 + (2 + l) = 3 + l /\ 1 + 2 + l = 3 + l
  BY <1>1
<1>5. QED
  BY <1>2, <1>3, <1>4 DEF l

\* an application's preset,
LEMMA ContentPresetArrives ==
  ASSUME NEW c \in Requests, c.op = Opcode.SetContentEqPreset, NEW a \in Seq(Byte),
         Len(a) + 16 <= MaxU16, NEW v \in Byte, c = Command(c.op, <<a, v>>)
  PROVE  c.op \in Byte /\ Carries(Encode(c), [op |-> c.op, command |-> c])
<1>1. c.op \in Byte /\ c.op \in Content /\ c.op # Opcode.SetContentEqBand
  BY OpcodesAre, OpcodeByte
<1>2. c.args = <<a, v>> /\ c.args[1] = a /\ c.args[2] = v
  BY DEF Command
<1> DEFINE l == Len(a)
           p == AppendString(a) \o <<v>>
<1>3. l \in Nat /\ l <= MaxU16 /\ l + 16 <= MaxU16 /\ 2 + l \in Nat /\ 1 \in Nat
  BY MaxU16Is
<1>4. AppendString(a) \in Bytes(2 + l) /\ <<v>> \in Bytes(1) /\ <<v>> \in Seq(Byte)
  BY <1>3, StringIs, OneByte, BytesAre
<1>5. p \in Bytes((2 + l) + 1)
  BY <1>3, <1>4, Joined
<1>6. Encode(c) = Message(c.op, p)
  BY <1>2, EncodeContentIs
<1>7. p \in Seq(Byte) /\ Holds(p, 1, AppendString(a) \o <<v>>)
  <2>1. p \in Seq(Byte)
    BY <1>5, BytesAre
  <2>2. QED
    BY <2>1, HoldsItself
<1> HIDE DEF p
<1>8. /\ ReadString(p, 1) # None /\ ReadString(p, 1).value = a
      /\ ReadString(p, 1).next = 3 + l
      /\ Holds(p, 3 + l, <<v>>)
  BY <1>3, <1>4, <1>7, AppArrives
<1> HIDE DEF l
<1>9. (2 + l) + 1 \in Half
  <2>1. (2 + l) + 1 \in Nat /\ (2 + l) + 1 <= MaxU16
    BY <1>3, MaxU16Is
  <2>2. QED
    BY <2>1, HalfIs
<1>10. p[3 + l] = v /\ 3 + l <= Len(p)
  <2>1. 3 + l \in Nat
    BY <1>3
  <2>2. QED
    BY <1>7, <1>8, <2>1, HoldsByte
<1>11. WellFormed(c.op, p)
  BY <1>1, <1>8, <1>10 DEF WellFormed
<1>12. Arguments(c.op, p) = <<a, v>>
  BY <1>8, <1>10, ArgumentsIs
<1>13. QED
  BY <1>1, <1>2, <1>5, <1>6, <1>9, <1>11, <1>12, ArrivesWhole

\* an application's band,
LEMMA ContentBandArrives ==
  ASSUME NEW c \in Requests, c.op = Opcode.SetContentEqBand, NEW a \in Seq(Byte),
         Len(a) + 16 <= MaxU16, NEW v \in 0 .. MaxEqBands - 1, NEW b \in EqBands,
         c = Command(c.op, <<a, v, b>>)
  PROVE  c.op \in Byte /\ Carries(Encode(c), [op |-> c.op, command |-> c])
<1>1. c.op \in Byte /\ c.op \in Content
  BY OpcodesAre, OpcodeByte
<1>2. c.args = <<a, v, b>> /\ c.args[1] = a /\ c.args[2] = v /\ c.args[3] = b
  BY DEF Command
<1> DEFINE l    == Len(a)
           app  == AppendString(a)
           band == AppendEqBand(b)
           p    == (app \o <<v>>) \o band
<1>3. l \in Nat /\ l <= MaxU16 /\ l + 16 <= MaxU16 /\ 2 + l \in Nat /\ 3 + l \in Nat
  BY MaxU16Is
<1>4. /\ app \in Bytes(2 + l) /\ app \in Seq(Byte)
      /\ <<v>> \in Bytes(1) /\ <<v>> \in Seq(Byte)
      /\ band \in Bytes(13) /\ band \in Seq(Byte)
  BY <1>3, StringIs, BandIndex, OneByte, BandType, BytesAre
<1>5. Encode(c) = Message(c.op, p)
  BY <1>2, EncodeContentIs
<1> HIDE DEF app, band
<1>6. app \o <<v>> \in Bytes((2 + l) + 1)
  BY <1>3, <1>4, Joined
<1>7. (2 + l) + 1 = 3 + l
  BY <1>3
<1>8. app \o <<v>> \in Bytes(3 + l) /\ app \o <<v>> \in Seq(Byte)
  BY <1>6, <1>7, BytesAre
<1>9. p \in Bytes((3 + l) + 13)
  BY <1>3, <1>4, <1>8, Joined
<1>10. p \in Seq(Byte)
  BY <1>9, BytesAre
<1>11. Holds(p, 1, (app \o <<v>>) \o band)
  BY <1>10, HoldsItself
<1> HIDE DEF p
<1>12. Holds(p, 1, app \o <<v>>) /\ Holds(p, 1 + (3 + l), band)
  BY <1>3, <1>4, <1>8, <1>10, <1>11, HoldsParts
<1>13. /\ ReadString(p, 1) # None /\ ReadString(p, 1).value = a
       /\ ReadString(p, 1).next = 3 + l
       /\ Holds(p, 3 + l, <<v>>)
  BY <1>3, <1>4, <1>10, <1>12, AppArrives DEF app
<1> HIDE DEF l
<1>14. p[3 + l] = v
  BY <1>3, <1>10, <1>13, HoldsByte
<1>15. /\ ReadEqBand(p, 1 + (3 + l)) = b /\ p[1 + (3 + l)] <= Notch
       /\ (1 + (3 + l)) + 12 <= Len(p)
  <2>1. 1 + (3 + l) \in Nat
    BY <1>3
  <2>2. QED
    BY <1>10, <1>12, <2>1, HoldsBand DEF band
<1>16. 1 + (3 + l) = (3 + l) + 1 /\ (3 + l) + EqBandWireSize <= Len(p)
  <2>1. Len(p) \in Nat
    BY <1>10
  <2>2. QED
    BY <1>3, <1>15, <2>1 DEF EqBandWireSize
<1>17. WellFormedBand(p, 3 + l)
  <2>1. v < MaxEqBands
    BY BandIndex
  <2>2. QED
    BY <1>14, <1>15, <1>16, <2>1 DEF WellFormedBand
<1>18. (3 + l) + 13 \in Half
  BY <1>3, HalfIs
<1>19. WellFormed(c.op, p)
  BY <1>1, <1>13, <1>17 DEF WellFormed
<1>20. Arguments(c.op, p) = <<a, v, b>>
  BY <1>13, <1>14, <1>15, <1>16, ArgumentsIs
<1>21. QED
  BY <1>1, <1>2, <1>5, <1>9, <1>18, <1>19, <1>20, ArrivesWhole

\* and an application's curve under a name, which may lose its end.
LEMMA SaveArrives ==
  ASSUME NEW c \in Requests, c.op = Opcode.SaveContentEqPreset, NEW a \in Seq(Byte),
         Len(a) + 16 <= MaxU16, Len(AppendString(a)) <= MaxPayloadSize,
         NEW name \in Seq(Byte), c = Command(c.op, <<a, name>>)
  PROVE  c.op \in Byte /\ Carries(Encode(c), [op |-> c.op, command |-> c])
<1>1. c.op \in Byte /\ c.op \in Content
  BY OpcodesAre, OpcodeByte
<1>2. c.args = <<a, name>> /\ c.args[1] = a /\ c.args[2] = name
  BY DEF Command
<1> DEFINE l    == Len(a)
           app  == AppendString(a)
           room == MaxPayloadSize - (2 + l)
           tail == Cut(name, room)
           k    == Len(tail)
           n    == (2 + l) + k
           p    == app \o tail
<1>3. /\ l \in Nat /\ l <= MaxU16 /\ 2 + l \in Nat /\ 3 + l \in Nat
      /\ MaxPayloadSize \in Nat /\ MaxPayloadSize <= MaxU16 /\ Len(name) \in Nat
  BY ProtocolAssumption, MaxU16Is
<1>4. app \in Bytes(2 + l) /\ Len(app) = 2 + l
  <2>1. app \in Bytes(2 + l)
    BY <1>3, StringIs
  <2>2. QED
    BY <2>1, BytesAre
<1>5. 2 + l <= MaxPayloadSize
  BY <1>4
<1>6. room \in Nat
  BY <1>3, <1>5
<1>7. Max({0, MaxPayloadSize - Len(app)}) = room
  <2>1. Max({0, room}) = IF 0 <= room THEN room ELSE 0
    BY <1>6, MaxIs
  <2>2. QED
    BY <1>4, <1>6, <2>1
<1>8. Encode(c) = Message(c.op, p)
  <2>1. Encode(c) = Message(c.op, app \o Cut(name, Max({0, MaxPayloadSize - Len(app)})))
    BY <1>2, EncodeContentIs
  <2> HIDE DEF app, room
  <2>2. QED
    BY <1>7, <2>1
<1> HIDE DEF app, room
<1>9. /\ tail \in Seq(Byte) /\ k = (IF Len(name) <= room THEN Len(name) ELSE room)
      /\ (Len(name) <= room => tail = name) /\ IsPrefix(tail, name)
  BY <1>6, CutIs
<1> HIDE DEF tail
<1>10. k \in Nat /\ k <= room /\ tail \in Bytes(k)
  <2>1. k \in Nat /\ k <= room
    BY <1>3, <1>6, <1>9
  <2>2. QED
    BY <1>9, <2>1, BytesAre
<1>11. p \in Bytes(n)
  BY <1>3, <1>4, <1>10, Joined
<1>12. p \in Seq(Byte) /\ Len(p) = n
  BY <1>11, BytesAre
<1>13. Holds(p, 1, app \o tail)
  BY <1>12, HoldsItself
<1> HIDE DEF p
<1>14. /\ ReadString(p, 1) # None /\ ReadString(p, 1).value = a
       /\ ReadString(p, 1).next = 3 + l
       /\ Holds(p, 3 + l, tail)
  BY <1>3, <1>9, <1>12, <1>13, AppArrives DEF app
<1>15. SubSeq(p, 3 + l, Len(p)) = tail
  <2>1. 3 + l >= 1
    BY <1>3
  <2>2. SubSeq(p, 3 + l, (3 + l) + k - 1) = tail
    BY <1>3, <1>9, <1>12, <1>14, <2>1, HeldIs
  <2> HIDE DEF l, k
  <2>3. (3 + l) + k - 1 = Len(p)
    BY <1>3, <1>10, <1>12
  <2>4. QED
    BY <2>2, <2>3
<1> HIDE DEF l, k
<1>16. n \in Nat /\ n <= MaxU16 /\ (k = room => n = MaxPayloadSize)
  <2>1. n \in Nat /\ n = (2 + l) + k /\ room = MaxPayloadSize - (2 + l)
    BY <1>3, <1>10 DEF room
  <2> HIDE DEF n
  <2>2. n <= MaxPayloadSize /\ (k = room => n = MaxPayloadSize)
    BY <1>3, <1>5, <1>6, <1>10, <2>1
  <2>3. n <= MaxU16
    BY <1>3, <2>1, <2>2, MaxU16Is
  <2>4. QED
    BY <2>1, <2>2, <2>3
<1>17. n \in Half
  BY <1>16, HalfIs
<1>18. WellFormed(c.op, p)
  BY <1>1, <1>14 DEF WellFormed
<1> DEFINE args == <<a, tail>>
<1>19. Arguments(c.op, p) = args /\ args \in Seq(Seq(Byte))
  <2>1. Arguments(c.op, p) = <<a, tail>>
    BY <1>14, <1>15, ArgumentsIs
  <2>2. QED
    BY <1>9, <2>1
<1>20. tail = name \/ Len(Encode(c)) = HeaderSize + MaxPayloadSize
  <2>1. CASE Len(name) <= room
    BY <1>9, <2>1
  <2>2. CASE ~(Len(name) <= room)
    <3>1. n = MaxPayloadSize
      BY <1>9, <1>16, <2>2
    <3>2. Message(c.op, p) \in Bytes(3 + n)
      BY <1>1, <1>11, <1>17, MessageType
    <3> HIDE DEF n
    <3>3. QED
      BY <1>8, <3>1, <3>2, BytesAre DEF HeaderSize
  <2>3. QED
    BY <2>1, <2>2
<1>21. Conveys(c, Command(c.op, args))
  <2> DEFINE got == Command(c.op, args)
  <2>1. got.op = c.op /\ got.args = args
    BY DEF Command
  <2> HIDE DEF got
  <2>2. DOMAIN got.args = DOMAIN c.args /\ DOMAIN c.args = {1, 2} /\ Len(c.args) = 2
    BY <1>2, <2>1
  <2>3. got.args[1] = a /\ got.args[2] = tail
    BY <2>1
  <2>4. QED
    BY <1>2, <1>9, <1>20, <2>1, <2>2, <2>3 DEF Conveys, got
<1> HIDE DEF args, n
<1>22. QED
  BY <1>1, <1>8, <1>11, <1>17, <1>18, <1>19, <1>21, ArrivesCut

\* Every request arrives.
LEMMA RequestArrives ==
  ASSUME NEW c \in Requests
  PROVE  c.op \in Byte /\ Carries(Encode(c), [op |-> c.op, command |-> c])
<1> DEFINE Goal == c.op \in Byte /\ Carries(Encode(c), [op |-> c.op, command |-> c])
           a    == c.args[1]
           b    == c.args[2]
           d    == c.args[3]
           op   == c.op
<1>1. Valid(c) /\ (op \in Content => Len(AppendString(a)) <= MaxPayloadSize
                                     /\ Len(a) + 2 + 1 + EqBandWireSize <= MaxU16)
  BY RequestsAssumption
<1>2. op \in Content /\ a \in Seq(Byte) =>
        Len(AppendString(a)) <= MaxPayloadSize /\ Len(a) + 16 <= MaxU16
  <2>1. SUFFICES ASSUME op \in Content, a \in Seq(Byte)
                 PROVE  Len(AppendString(a)) <= MaxPayloadSize /\ Len(a) + 16 <= MaxU16
    OBVIOUS
  <2> DEFINE l == Len(a)
  <2>2. l \in Nat /\ l + 2 + 1 + EqBandWireSize <= MaxU16 /\ Len(AppendString(a)) <= MaxPayloadSize
    BY <1>1, <2>1
  <2> HIDE DEF l
  <2>3. l + 16 <= MaxU16
    BY <2>2, MaxU16Is DEF EqBandWireSize
  <2>4. QED
    BY <2>2, <2>3 DEF l
<1>3. CASE op \in Bare /\ c = Command(op, << >>)
  BY <1>3, BareArrives
<1>4. ASSUME c = Command(op, <<a>>),
             \/ op \in Text /\ a \in Seq(Byte)
             \/ op \in Flag /\ a \in BOOLEAN
             \/ op = Opcode.SetSpatialMode /\ a \in 0 .. Advanced
             \/ op \in Index \ {Opcode.SetSpatialMode} /\ a \in Byte
             \/ op = Opcode.SetBassEnhancer /\ a \in BassEnhancers
      PROVE  Goal
  <2>1. CASE op \in Text /\ a \in Seq(Byte)
    BY <1>4, <2>1, TextArrives
  <2>2. CASE op \in Flag /\ a \in BOOLEAN
    BY <1>4, <2>2, FlagArrives
  <2>3. CASE op = Opcode.SetSpatialMode /\ a \in 0 .. Advanced
    <3>1. a \in Nat /\ a <= 255 /\ a <= Advanced
      BY <2>3 DEF Advanced
    <3>2. a \in Byte /\ op \in Index
      BY <2>3, <3>1, ByteIs, OpcodesAre
    <3>3. QED
      BY <1>4, <3>1, <3>2, IndexArrives
  <2>4. CASE op \in Index \ {Opcode.SetSpatialMode} /\ a \in Byte
    BY <1>4, <2>4, IndexArrives
  <2>5. CASE op = Opcode.SetBassEnhancer /\ a \in BassEnhancers
    BY <1>4, <2>5, BassArrives
  <2>6. QED
    BY <1>4, <2>1, <2>2, <2>3, <2>4, <2>5
<1>5. ASSUME c = Command(op, <<a, b>>),
             \/ op \in Position /\ a \in 0 .. SpeakerCount - 1 /\ b \in Float
             \/ op = Opcode.SetSpeakerMute /\ a \in 0 .. SpeakerCount - 1 /\ b \in BOOLEAN
             \/ op = Opcode.SetHwEqBand /\ a \in 0 .. MaxEqBands - 1 /\ b \in EqBands
             \/ op = Opcode.SetContentEqPreset /\ a \in Seq(Byte) /\ b \in Byte
             \/ op = Opcode.SaveContentEqPreset /\ a \in Seq(Byte) /\ b \in Seq(Byte)
      PROVE  Goal
  <2>1. CASE op \in Position /\ a \in 0 .. SpeakerCount - 1 /\ b \in Float
    BY <1>5, <2>1, PositionArrives
  <2>2. CASE op = Opcode.SetSpeakerMute /\ a \in 0 .. SpeakerCount - 1 /\ b \in BOOLEAN
    BY <1>5, <2>2, MuteArrives
  <2>3. CASE op = Opcode.SetHwEqBand /\ a \in 0 .. MaxEqBands - 1 /\ b \in EqBands
    BY <1>5, <2>3, BandArrives
  <2>4. CASE op = Opcode.SetContentEqPreset /\ a \in Seq(Byte) /\ b \in Byte
    <3>1. op \in Content
      BY <2>4, OpcodesAre
    <3>2. QED
      BY <1>2, <1>5, <2>4, <3>1, ContentPresetArrives
  <2>5. CASE op = Opcode.SaveContentEqPreset /\ a \in Seq(Byte) /\ b \in Seq(Byte)
    <3>1. op \in Content
      BY <2>5, OpcodesAre
    <3>2. QED
      BY <1>2, <1>5, <2>5, <3>1, SaveArrives
  <2>6. QED
    BY <1>5, <2>1, <2>2, <2>3, <2>4, <2>5
<1>6. ASSUME c = Command(op, <<a, b, d>>), op = Opcode.SetContentEqBand,
             a \in Seq(Byte), b \in 0 .. MaxEqBands - 1, d \in EqBands
      PROVE  Goal
  <2>1. op \in Content
    BY <1>6, OpcodesAre
  <2>2. QED
    BY <1>2, <1>6, <2>1, ContentBandArrives
<1> HIDE DEF Goal
<1>7. Goal
  BY <1>1, <1>3, <1>4, <1>5, <1>6 DEF Valid, Goal
<1>8. QED
  BY <1>7 DEF Goal

-----------------------------------------------------------------------------
(* The steps *)

\* A message is bytes.
LEMMA CarriesType ==
  ASSUME NEW m, NEW s, s.op \in Byte, Carries(m, s)
  PROVE  m \in Seq(Byte)
<1> DEFINE op == s.op
<1>1. PICK n \in Half : \E p \in Bytes(n) : m = Message(op, p)
  BY DEF Carries
<1>2. PICK p \in Bytes(n) : m = Message(op, p)
  BY <1>1
<1>3. op \in Byte
  OBVIOUS
<1> HIDE DEF op
<1>4. m \in Bytes(3 + n)
  BY <1>2, <1>3, MessageType
<1>5. QED
  BY <1>4, BytesAre

\* So is a reply.
LEMMA ReplyType ==
  ASSUME NEW c, NEW r \in Replies(c)
  PROVE  EncodeReply(r) \in Seq(Byte)
<1> DEFINE op == r.op
<1>1. PICK n \in Half : \E p \in Bytes(n) : EncodeReply(r) = Message(op, p)
  BY ReplyArrives
<1>2. PICK p \in Bytes(n) : EncodeReply(r) = Message(op, p)
  BY <1>1
<1>3. op \in Byte
  BY ReplyArrives
<1> HIDE DEF op
<1>4. EncodeReply(r) \in Bytes(3 + n)
  BY <1>2, <1>3, MessageType
<1>5. QED
  BY <1>4, BytesAre

\* The replies on the way, one for each request handled and not answered.
LEMMA PendingOfType ==
  ASSUME NEW hs, NEW rs, Len(hs) \in Nat, Len(rs) \in Nat, Len(rs) <= Len(hs),
         \A i \in 1 .. Len(hs) : hs[i].reply \in Replies(hs[i].command)
  PROVE  PendingOf(hs, rs) \in Seq(Seq(Byte)) /\ Len(PendingOf(hs, rs)) = Len(hs) - Len(rs)
<1> DEFINE k == Len(hs) - Len(rs)
<1>1. k \in Nat
  OBVIOUS
<1>2. ASSUME NEW i \in 1 .. k
      PROVE  EncodeReply(hs[Len(rs) + i].reply) \in Seq(Byte)
  <2>1. Len(rs) + i \in 1 .. Len(hs)
    BY <1>1
  <2>2. hs[Len(rs) + i].reply \in Replies(hs[Len(rs) + i].command)
    BY <2>1
  <2>3. QED
    BY <2>2, ReplyType
<1> DEFINE e(i) == EncodeReply(hs[Len(rs) + i].reply)
<1>3. PendingOf(hs, rs) = [i \in 1 .. k |-> e(i)]
  BY DEF PendingOf
<1>4. \A i \in 1 .. k : e(i) \in Seq(Byte)
  BY <1>2
<1> HIDE DEF e, k
<1>5. [i \in 1 .. k |-> e(i)] \in Seq(Seq(Byte)) /\ Len([i \in 1 .. k |-> e(i)]) = k
  BY <1>1, <1>4
<1>6. QED
  BY <1>3, <1>5 DEF k

\* The same of the state.
LEMMA PendingType ==
  ASSUME SequencesOK, HandledOK
  PROVE  Pending \in Seq(Seq(Byte)) /\ Len(Pending) = Len(handled) - Len(received)
<1>1. Len(handled) \in Nat /\ Len(received) \in Nat /\ Len(received) <= Len(handled)
  BY DEF SequencesOK
<1>2. QED
  BY <1>1, PendingOfType DEF Pending, HandledOK

\* The invariant holds before the first request.
LEMMA InitIInv == Init => IInv
<1> SUFFICES ASSUME Init PROVE IInv
  OBVIOUS
<1> USE DEF Init
<1>1. SequencesOK /\ FlagsOK /\ SentOK /\ HandledOK /\ ReceivedOK
  BY WireAssumption DEF SequencesOK, FlagsOK, SentOK, HandledOK, ReceivedOK
<1>2. RequestsOK
  <2>1. << >> \in Seq(Seq(Byte)) /\ Carried(<< >>)
    BY FlattenEmpty DEF Carried
  <2>2. << >> \in Seq(Byte)
    OBVIOUS
  <2>3. QED
    BY <2>1, <2>2 DEF RequestsOK
<1>3. RepliesOK
  <2>1. Pending \in Seq(Seq(Byte)) /\ Len(Pending) = 0
    BY <1>1, PendingType
  <2>2. Pending = << >>
    BY <2>1, EmptySeq
  <2>3. QED
    BY <2>2, FlattenEmpty DEF RepliesOK
<1>4. QED
  BY <1>1, <1>2, <1>3 DEF IInv

\* A message that is sent goes behind the others.
LEMMA SendStep ==
  ASSUME IInv, MaySend, NEW m \in Seq(Byte), NEW s \in [op : Byte, command : Requests \cup {None}],
         Carries(m, s), s.command # None => s.command.op = s.op,
         toServer' = toServer \o m, sent' = Append(sent, s),
         UNCHANGED <<toClient, buffer, connection, serving, handled, received>>
  PROVE  IInv'
<1> USE DEF IInv
<1>1. /\ sent \in Seq([op : Byte, command : Requests \cup {None}])
      /\ Len(sent') = Len(sent) + 1 /\ sent'[Len(sent) + 1] = s
      /\ \A i \in 1 .. Len(sent) : sent'[i] = sent[i]
      /\ Len(sent) \in Nat /\ Len(handled) \in Nat /\ Len(received) \in Nat
  BY DEF SequencesOK
<1>2. SequencesOK'
  BY <1>1, WireAssumption DEF SequencesOK, MaySend
<1>3. FlagsOK'
  BY DEF FlagsOK
<1>4. SentOK'
  BY <1>1 DEF SentOK
<1>5. HandledOK'
  BY <1>1 DEF HandledOK, SequencesOK
<1>6. RepliesOK'
  BY DEF RepliesOK, Pending, PendingOf
<1>7. ReceivedOK'
  BY <1>1 DEF ReceivedOK, SequencesOK
<1>8. RequestsOK'
  <2>1. PICK msgs \in Seq(Seq(Byte)) : Carried(msgs)
    BY DEF RequestsOK
  <2> DEFINE more == Append(msgs, m)
  <2>2. /\ more \in Seq(Seq(Byte)) /\ Len(more) = Len(msgs) + 1 /\ more[Len(msgs) + 1] = m
        /\ \A i \in 1 .. Len(msgs) : more[i] = msgs[i]
        /\ Len(msgs) \in Nat
    OBVIOUS
  <2>3. FlattenSeq(more) = FlattenSeq(msgs) \o m
    BY FlattenAppend
  <2> HIDE DEF more
  <2>4. (buffer \o toServer) \o m = buffer \o (toServer \o m)
    <3>1. buffer \in Seq(Byte) /\ toServer \in Seq(Byte)
      BY DEF RequestsOK
    <3>2. Regrouped(buffer, toServer, m)
      BY <3>1, Regroups
    <3>3. QED
      BY <3>2 DEF Regrouped
  <2>5. Len(more) = Len(sent') - Len(handled')
    BY <1>1, <2>1, <2>2 DEF Carried, SequencesOK
  <2>6. ASSUME NEW i \in 1 .. Len(more) PROVE Carries(more[i], sent'[Len(handled) + i])
    <3>1. CASE i = Len(msgs) + 1
      <4>1. Len(handled) + i = Len(sent) + 1
        BY <1>1, <2>1, <2>2, <3>1 DEF Carried, SequencesOK
      <4>2. QED
        BY <1>1, <2>2, <3>1, <4>1
    <3>2. CASE i # Len(msgs) + 1
      <4>1. i \in 1 .. Len(msgs)
        BY <2>2, <3>2
      <4>2. Len(handled) + i \in 1 .. Len(sent)
        BY <1>1, <2>1, <2>2, <4>1 DEF Carried, SequencesOK
      <4>3. QED
        BY <1>1, <2>1, <2>2, <4>1, <4>2 DEF Carried
    <3>3. QED
      BY <3>1, <3>2
  <2>7. Carried(more)'
    BY <2>1, <2>2, <2>3, <2>4, <2>5, <2>6 DEF Carried
  <2>8. buffer' \in Seq(Byte) /\ toServer' \in Seq(Byte)
    BY ConcatProperties DEF RequestsOK
  <2>9. QED
    BY <2>2, <2>7, <2>8 DEF RequestsOK
<1>9. QED
  BY <1>2, <1>3, <1>4, <1>5, <1>6, <1>7, <1>8

\* A recv moves bytes from the stream into the buffer.
LEMMA RecvStep ==
  ASSUME IInv, NEW n \in 1 .. MaxChunk, Recv(n)
  PROVE  IInv'
<1> USE DEF IInv
<1>1. /\ SequencesOK' /\ FlagsOK' /\ SentOK' /\ HandledOK' /\ RepliesOK' /\ ReceivedOK'
  BY DEF Recv, SequencesOK, FlagsOK, SentOK, HandledOK, RepliesOK, Pending, PendingOf, ReceivedOK
<1>2. buffer \in Seq(Byte) /\ toServer \in Seq(Byte)
  BY DEF RequestsOK
<1>3. n \in 1 .. Len(toServer) /\ n \in Nat
  <2>1. Len(toServer) \in Nat /\ MaxChunk \in Nat
    BY <1>2, WireAssumption
  <2>2. Min({MaxChunk, Len(toServer)}) =
          IF MaxChunk <= Len(toServer) THEN MaxChunk ELSE Len(toServer)
    BY <2>1, MinIs
  <2>3. QED
    BY <2>1, <2>2 DEF Recv
<1> DEFINE x == SubSeq(toServer, 1, n)
           y == SubSeq(toServer, n + 1, Len(toServer))
<1>4. x \in Seq(Byte) /\ y \in Seq(Byte)
  <2>1. \A i \in 1 .. Len(toServer) : toServer[i] \in Byte
    BY <1>2, ElementOfSeq
  <2>2. Len(toServer) \in Nat
    BY <1>2
  <2>3. /\ \A i \in 1 .. n : toServer[i] \in Byte
        /\ \A i \in n + 1 .. Len(toServer) : toServer[i] \in Byte
    BY <1>3, <2>1, <2>2
  <2>4. x \in Seq(Byte)
    BY <1>3, <2>3, SubSeqProperties
  <2>5. y \in Seq(Byte)
    BY <1>3, <2>2, <2>3, SubSeqProperties
  <2>6. QED
    BY <2>4, <2>5
<1>5. x \o y = toServer
  <2>1. Len(toServer) \in Nat /\ 1 \in 1 .. Len(toServer) + 1 /\ n \in 0 .. Len(toServer)
        /\ Len(toServer) \in n .. Len(toServer)
    BY <1>2, <1>3
  <2>2. x \o y = SubSeq(toServer, 1, Len(toServer))
    BY <1>2, <2>1, ConcatAdjacentSubSeq
  <2>3. SubSeq(toServer, 1, Len(toServer)) = toServer
    BY <1>2, SubSeqFull
  <2>4. QED
    BY <2>2, <2>3
<1>6. buffer' = buffer \o x /\ toServer' = y
  BY DEF Recv, Added
<1> HIDE DEF x, y
<1>7. (buffer \o x) \o y = buffer \o toServer
  <2>1. (buffer \o x) \o y = buffer \o (x \o y)
    <3>1. Regrouped(buffer, x, y)
      BY <1>2, <1>4, Regroups
    <3>2. QED
      BY <3>1 DEF Regrouped
  <2>2. QED
    BY <1>5, <2>1
<1>8. buffer' \in Seq(Byte) /\ toServer' \in Seq(Byte)
  BY <1>2, <1>4, <1>6
<1>9. RequestsOK'
  <2>1. PICK msgs \in Seq(Seq(Byte)) : Carried(msgs)
    BY DEF RequestsOK
  <2>2. sent' = sent /\ handled' = handled
    BY DEF Recv
  <2>3. Carried(msgs)'
    BY <1>6, <1>7, <2>1, <2>2 DEF Carried
  <2>4. QED
    BY <1>8, <2>3 DEF RequestsOK
<1>10. QED
  BY <1>1, <1>9

\* What the buffer starts with, once it has a message: the first that is not handled.
LEMMA FirstRequest ==
  ASSUME SequencesOK, RequestsOK, HasMessage(buffer)
  PROVE  \E n \in Half : \E p \in Bytes(n) : \E msgs \in Seq(Seq(Byte)) :
           /\ Len(sent) > Len(handled)
           /\ Understood(sent[Len(handled) + 1].command,
                         DecodeCommand(sent[Len(handled) + 1].op, p))
           /\ Total(buffer) = 3 + n
           /\ buffer[1] = sent[Len(handled) + 1].op
           /\ SubSeq(buffer, HeaderSize + 1, Total(buffer)) = p
           /\ Rest(buffer) \in Seq(Byte)
           /\ Rest(buffer) \o toServer = FlattenSeq(msgs)
           /\ Len(msgs) = Len(sent) - (Len(handled) + 1)
           /\ \A i \in 1 .. Len(msgs) : Carries(msgs[i], sent[Len(handled) + 1 + i])
<1>1. buffer \in Seq(Byte) /\ toServer \in Seq(Byte)
  BY DEF RequestsOK
<1>2. PICK all \in Seq(Seq(Byte)) : Carried(all)
  BY DEF RequestsOK
<1>3. Len(sent) \in Nat /\ Len(handled) \in Nat /\ Len(all) \in Nat
  BY DEF SequencesOK
<1>4. Len(buffer) >= 3
  <2>1. Len(buffer) \in Nat
    BY <1>1
  <2>2. QED
    BY <2>1 DEF HasMessage, TryReadHeader, HeaderSize
<1>5. Len(all) # 0
  <2>1. SUFFICES ASSUME Len(all) = 0 PROVE FALSE
    OBVIOUS
  <2>2. all = << >>
    BY <2>1, EmptySeq
  <2>3. buffer \o toServer = << >>
    BY <1>2, <2>2, FlattenEmpty DEF Carried
  <2>4. buffer = << >>
    BY <1>1, <2>3, ConcatEqualIffEmpty
  <2>5. QED
    BY <1>4, <2>4
<1> DEFINE first == all[1]
           msgs  == SubSeq(all, 2, Len(all))
           s     == sent[Len(handled) + 1]
           op    == s.op
<1>6. /\ msgs \in Seq(Seq(Byte)) /\ Len(msgs) = Len(all) - 1
      /\ \A i \in 1 .. Len(msgs) : msgs[i] = all[i + 1]
  <2>1. \A i \in 2 .. Len(all) : all[i] \in Seq(Byte)
    BY <1>3, ElementOfSeq
  <2>2. /\ msgs \in Seq(Seq(Byte))
        /\ Len(msgs) = IF 2 <= Len(all) THEN Len(all) - 2 + 1 ELSE 0
        /\ \A i \in 1 .. Len(all) - 2 + 1 : msgs[i] = all[2 + i - 1]
    BY <1>3, <2>1, SubSeqProperties
  <2> DEFINE l == Len(all)
  <2>3. l \in Nat /\ l # 0
    BY <1>3, <1>5
  <2> HIDE DEF msgs, l
  <2>4. /\ (IF 2 <= l THEN l - 2 + 1 ELSE 0) = l - 1 /\ l - 2 + 1 = l - 1
        /\ \A i \in 1 .. l - 1 : 2 + i - 1 = i + 1
    BY <2>3
  <2>5. Len(msgs) = l - 1 /\ \A i \in 1 .. l - 1 : msgs[i] = all[i + 1]
    BY <2>2, <2>4 DEF l
  <2>6. QED
    BY <2>2, <2>3, <2>5 DEF l
<1>7. buffer \o toServer = first \o FlattenSeq(msgs)
  <2>1. FlattenSeq(all) = first \o FlattenSeq(msgs)
    BY <1>5, FlattenFirst
  <2>2. QED
    BY <1>2, <2>1 DEF Carried
<1>8. FlattenSeq(msgs) \in Seq(Byte)
  <2> HIDE DEF msgs
  <2>1. QED
    BY <1>6, FlattenType
<1>9. Carries(first, s) /\ Len(sent) > Len(handled)
  <2>1. 1 \in 1 .. Len(all) /\ Len(sent) > Len(handled)
    BY <1>2, <1>3, <1>5 DEF Carried
  <2>2. QED
    BY <1>2, <2>1 DEF Carried
<1>10. op \in Byte
  <2>1. Len(handled) + 1 \in 1 .. Len(sent)
    BY <1>3, <1>9
  <2>2. s \in [op : Byte, command : Requests \cup {None}]
    BY <2>1, ElementOfSeq DEF SequencesOK
  <2> HIDE DEF s
  <2>3. QED
    BY <2>2
<1>11. PICK n \in Half : \E p \in Bytes(n) :
         first = Message(op, p) /\ Understood(s.command, DecodeCommand(op, p))
  BY <1>9 DEF Carries
<1>12. PICK p \in Bytes(n) :
         first = Message(op, p) /\ Understood(s.command, DecodeCommand(op, p))
  BY <1>11
<1> DEFINE rest == FlattenSeq(msgs)
<1>13. /\ rest \in Seq(Byte) /\ Starts(buffer, toServer, Message(op, p), rest)
  BY <1>7, <1>8, <1>12 DEF Starts
<1>14. n \in Nat /\ Len(buffer) \in Nat
  BY <1>1, HalfIs
<1>15. TryReadHeader(buffer) = [op |-> op, length |-> n]
  <2> HIDE DEF op, rest
  <2>1. QED
    BY <1>1, <1>4, <1>10, <1>13, Framing
<1>16. Total(buffer) = 3 + n
  BY <1>15 DEF Total, HeaderSize
<1>17. Len(buffer) >= 3 + n
  BY <1>16 DEF HasMessage
<1>18. /\ buffer[1] = op /\ SubSeq(buffer, 4, 3 + n) = p
       /\ SubSeq(buffer, 4 + n, Len(buffer)) \o toServer = rest
       /\ SubSeq(buffer, 4 + n, Len(buffer)) \in Seq(Byte)
  <2> HIDE DEF op, rest
  <2>1. QED
    BY <1>1, <1>10, <1>13, <1>17, Framing
<1>19. /\ SubSeq(buffer, HeaderSize + 1, Total(buffer)) = p
       /\ Rest(buffer) \o toServer = rest /\ Rest(buffer) \in Seq(Byte)
  <2>1. HeaderSize + 1 = 4 /\ (3 + n) + 1 = 4 + n
    BY <1>14 DEF HeaderSize
  <2>2. QED
    BY <1>16, <1>18, <2>1 DEF Rest
<1>20. Len(msgs) = Len(sent) - (Len(handled) + 1)
  <2> HIDE DEF msgs
  <2>1. Len(all) = Len(sent) - Len(handled)
    BY <1>2 DEF Carried
  <2> DEFINE a == Len(all)
             b == Len(sent)
             c == Len(handled)
             d == Len(msgs)
  <2>2. a = b - c /\ d = a - 1 /\ a \in Nat /\ b \in Nat /\ c \in Nat
    BY <1>3, <1>6, <2>1
  <2> HIDE DEF a, b, c, d
  <2>3. d = b - (c + 1)
    BY <2>2
  <2>4. QED
    BY <2>3 DEF b, c, d
<1>21. \A i \in 1 .. Len(msgs) : Carries(msgs[i], sent[Len(handled) + 1 + i])
  <2> HIDE DEF msgs
  <2>1. TAKE i \in 1 .. Len(msgs)
  <2>2. i + 1 \in 1 .. Len(all) /\ Len(handled) + (i + 1) = Len(handled) + 1 + i
    BY <1>3, <1>6
  <2>3. Carries(all[i + 1], sent[Len(handled) + (i + 1)])
    BY <1>2, <2>2 DEF Carried
  <2>4. QED
    BY <1>6, <2>2, <2>3
<1>22. QED
  BY <1>6, <1>9, <1>12, <1>16, <1>18, <1>19, <1>20, <1>21

\* One message is handled: the request is understood, and the reply goes behind
\* the others unless the client has gone.
LEMMA HandleStep ==
  ASSUME IInv, HandleMessage
  PROVE  IInv'
<1> USE DEF IInv
<1> DEFINE s == sent[Len(handled) + 1]
<1>1. PICK n \in Half : \E p \in Bytes(n) : \E msgs \in Seq(Seq(Byte)) :
        /\ Len(sent) > Len(handled)
        /\ Understood(s.command, DecodeCommand(s.op, p))
        /\ Total(buffer) = 3 + n
        /\ buffer[1] = s.op
        /\ SubSeq(buffer, HeaderSize + 1, Total(buffer)) = p
        /\ Rest(buffer) \in Seq(Byte)
        /\ Rest(buffer) \o toServer = FlattenSeq(msgs)
        /\ Len(msgs) = Len(sent) - (Len(handled) + 1)
        /\ \A i \in 1 .. Len(msgs) : Carries(msgs[i], sent[Len(handled) + 1 + i])
  BY FirstRequest DEF HandleMessage
<1>2. PICK p \in Bytes(n), msgs \in Seq(Seq(Byte)) :
        /\ Len(sent) > Len(handled)
        /\ Understood(s.command, DecodeCommand(s.op, p))
        /\ buffer[1] = s.op
        /\ SubSeq(buffer, HeaderSize + 1, Total(buffer)) = p
        /\ Rest(buffer) \in Seq(Byte)
        /\ Rest(buffer) \o toServer = FlattenSeq(msgs)
        /\ Len(msgs) = Len(sent) - (Len(handled) + 1)
        /\ \A i \in 1 .. Len(msgs) : Carries(msgs[i], sent[Len(handled) + 1 + i])
  BY <1>1
<1> DEFINE c == DecodeCommand(s.op, p)
<1>3. PICK r \in Replies(c) :
        /\ handled' = Append(handled, [command |-> c, reply |-> r])
        /\ toClient' = IF connection = "open" THEN toClient \o EncodeReply(r) ELSE << >>
  BY <1>2 DEF HandleMessage
<1>4. buffer' = Rest(buffer) /\ UNCHANGED <<toServer, connection, serving, sent, received>>
  BY DEF HandleMessage
<1>5. Len(sent) \in Nat /\ Len(handled) \in Nat /\ Len(received) \in Nat
  BY DEF SequencesOK
<1>6. s.op \in Byte
  <2>1. Len(handled) + 1 \in 1 .. Len(sent)
    BY <1>2, <1>5
  <2>2. s \in [op : Byte, command : Requests \cup {None}]
    BY <2>1, ElementOfSeq DEF SequencesOK
  <2> HIDE DEF s
  <2>3. QED
    BY <2>2
<1>7. c \in Commands /\ r \in Answers
  <2>1. p \in Seq(Byte)
    <3>1. n \in Nat
      BY HalfIs
    <3>2. QED
      BY BytesAre
  <2>2. c \in Commands
    BY <1>6, <2>1 DEF Commands
  <2> HIDE DEF c
  <2>3. QED
    BY <1>3, <2>2 DEF Answers
<1> DEFINE h == [command |-> c, reply |-> r]
<1>8. h \in [command : Commands, reply : Answers] /\ h.command = c /\ h.reply = r
  <2> HIDE DEF c
  <2>1. QED
    BY <1>7
<1>9. handled' = Append(handled, h)
  BY <1>3
<1> HIDE DEF h, c
<1>10. /\ handled' \in Seq([command : Commands, reply : Answers])
       /\ Len(handled') = Len(handled) + 1 /\ handled'[Len(handled) + 1] = h
       /\ \A i \in 1 .. Len(handled) : handled'[i] = handled[i]
  BY <1>8, <1>9 DEF SequencesOK
<1>11. SequencesOK'
  BY <1>2, <1>4, <1>5, <1>10 DEF SequencesOK
<1>12. FlagsOK' /\ SentOK'
  BY <1>4 DEF FlagsOK, SentOK
<1>13. RequestsOK'
  <2>1. ASSUME NEW i \in 1 .. Len(msgs) PROVE Carries(msgs[i], sent'[Len(handled') + i])
    BY <1>2, <1>4, <1>10
  <2>2. Len(msgs) = Len(sent') - Len(handled')
    BY <1>2, <1>4, <1>10
  <2>3. Carried(msgs)'
    BY <1>2, <1>4, <2>1, <2>2 DEF Carried
  <2>4. buffer' \in Seq(Byte) /\ toServer' \in Seq(Byte)
    BY <1>2, <1>4 DEF RequestsOK
  <2>5. QED
    BY <2>3, <2>4 DEF RequestsOK
<1>14. HandledOK'
  <2>1. SUFFICES ASSUME NEW i \in 1 .. Len(handled')
                 PROVE  /\ Understood(sent[i].command, handled'[i].command)
                        /\ handled'[i].reply \in Replies(handled'[i].command)
    BY <1>4 DEF HandledOK
  <2>2. CASE i = Len(handled) + 1
    <3>1. sent[i] = s /\ handled'[i] = h
      BY <1>10, <2>2
    <3>2. Understood(s.command, c)
      BY <1>2 DEF c
    <3> HIDE DEF s
    <3>3. QED
      BY <1>3, <1>8, <3>1, <3>2
  <2>3. CASE i # Len(handled) + 1
    <3>1. i \in 1 .. Len(handled)
      BY <1>5, <1>10, <2>3
    <3>2. QED
      BY <1>10, <3>1 DEF HandledOK
  <2>4. QED
    BY <2>2, <2>3
<1>15. RepliesOK'
  <2>1. CASE connection # "open"
    BY <1>3, <1>4, <2>1 DEF RepliesOK
  <2>2. CASE connection = "open"
    <3>1. Pending \in Seq(Seq(Byte)) /\ Len(Pending) = Len(handled) - Len(received)
      BY PendingType
    <3>2. Pending' \in Seq(Seq(Byte)) /\ Len(Pending') = Len(handled') - Len(received')
      <4>1. Len(handled') \in Nat /\ Len(received') \in Nat /\ Len(received') <= Len(handled')
        BY <1>11 DEF SequencesOK
      <4>2. QED
        BY <1>14, <4>1, PendingOfType DEF Pending, HandledOK
    <3> DEFINE e    == EncodeReply(r)
               more == Append(Pending, e)
    <3>3. e \in Seq(Byte)
      BY <1>3, ReplyType
    <3> HIDE DEF e
    <3>4. more \in Seq(Seq(Byte)) /\ Len(more) = Len(Pending) + 1 /\ more[Len(Pending) + 1] = e
          /\ \A i \in 1 .. Len(Pending) : more[i] = Pending[i]
      BY <3>1, <3>3
    <3> HIDE DEF more
    <3> DEFINE k == Len(handled) - Len(received)
    <3>5. k \in Nat /\ Len(more) = k + 1 /\ Len(Pending') = k + 1
      <4>1. k \in Nat
        BY <1>5 DEF SequencesOK
      <4>2. Len(handled') - Len(received') = k + 1
        BY <1>4, <1>5, <1>10
      <4> HIDE DEF k
      <4>3. Len(Pending) = k
        BY <3>1 DEF k
      <4>4. QED
        BY <3>2, <3>4, <4>1, <4>2, <4>3
    <3>6. ASSUME NEW i \in 1 .. k + 1 PROVE Pending'[i] = more[i]
      <4>1. Pending'[i] = EncodeReply(handled'[Len(received) + i].reply)
        <5>1. i \in 1 .. Len(handled') - Len(received')
          BY <1>4, <1>5, <1>10
        <5>2. QED
          BY <1>4, <5>1 DEF Pending, PendingOf
      <4>2. CASE i = k + 1
        <5>1. Len(received) + i = Len(handled) + 1
          BY <1>5, <4>2
        <5>2. i = Len(Pending) + 1
          BY <3>1, <4>2
        <5>3. handled'[Len(received) + i].reply = r
          BY <1>8, <1>10, <5>1
        <5>4. Pending'[i] = e
          BY <4>1, <5>3 DEF e
        <5>5. QED
          BY <3>4, <5>2, <5>4
      <4>3. CASE i # k + 1
        <5>1. i \in 1 .. k /\ Len(received) + i \in 1 .. Len(handled)
          BY <1>5, <3>5, <4>3
        <5>2. Pending[i] = EncodeReply(handled[Len(received) + i].reply)
          BY <5>1 DEF Pending, PendingOf
        <5>3. i \in 1 .. Len(Pending)
          BY <3>1, <5>1
        <5>4. QED
          BY <1>10, <3>4, <4>1, <5>1, <5>2, <5>3
      <4>4. QED
        BY <4>2, <4>3
    <3>7. Pending' = more
      <4> HIDE DEF k
      <4>1. QED
        BY <3>2, <3>4, <3>5, <3>6, SeqEqual
    <3>8. FlattenSeq(more) = FlattenSeq(Pending) \o e
      BY <3>1, <3>3, FlattenAppend DEF more
    <3>9. toClient' = toClient \o e /\ toClient = FlattenSeq(Pending)
      BY <1>3, <2>2 DEF e, RepliesOK
    <3>10. QED
      BY <1>4, <2>2, <3>7, <3>8, <3>9 DEF RepliesOK
  <2>3. QED
    BY <2>1, <2>2
<1>16. ReceivedOK'
  <2>1. ASSUME NEW i \in 1 .. Len(received) PROVE handled'[i] = handled[i]
    BY <1>5, <1>10 DEF SequencesOK
  <2>2. QED
    BY <1>4, <2>1 DEF ReceivedOK
<1>17. QED
  BY <1>11, <1>12, <1>13, <1>14, <1>15, <1>16

\* The next request's answer arrives, and the connection stays up.
LEMMA ReceiveStep ==
  ASSUME IInv, Receive
  PROVE  IInv'
<1> USE DEF IInv
<1> DEFINE k       == Len(received) + 1
           header  == TryReadHeader(toClient)
           end     == HeaderSize + header.length
           awaited == ResponseTo(sent[k].op)
           payload == SubSeq(toClient, HeaderSize + 1, end)
           value   == IF header.op = awaited /\ header.length <= MaxPayloadSize
                        THEN DecodeResponse(awaited, payload) ELSE None
           rest    == FlattenSeq(SubSeq(Pending, 2, Len(Pending)))
<1>1. /\ connection = "open"
      /\ header # None
      /\ received' = Append(received, value)
      /\ connection' = IF \/ header.length > MaxPayloadSize
                          \/ header.op = awaited /\ value = None
                         THEN "dropped" ELSE "open"
      /\ toClient' = IF connection' = "open"
                       THEN SubSeq(toClient, end + 1, Len(toClient)) ELSE << >>
      /\ UNCHANGED <<toServer, buffer, serving, sent, handled>>
      /\ header.length <= MaxPayloadSize => Len(toClient) >= end
  BY DEF Receive
<1>2. Len(sent) \in Nat /\ Len(handled) \in Nat /\ Len(received) \in Nat
  BY DEF SequencesOK
<1>3. Pending \in Seq(Seq(Byte)) /\ Len(Pending) = Len(handled) - Len(received)
  BY PendingType
<1>4. toClient = FlattenSeq(Pending) /\ toClient \in Seq(Byte)
  BY <1>1, <1>3, FlattenType DEF RepliesOK
<1>5. Len(toClient) >= 3
  <2>1. Len(toClient) \in Nat
    BY <1>4
  <2>2. ~(Len(toClient) < HeaderSize)
    BY <1>1 DEF TryReadHeader
  <2>3. QED
    BY <2>1, <2>2 DEF HeaderSize
<1>6. Len(Pending) # 0
  <2>1. SUFFICES ASSUME Len(Pending) = 0 PROVE FALSE
    OBVIOUS
  <2>2. Pending = << >>
    BY <1>3, <2>1, EmptySeq
  <2>3. toClient = << >>
    BY <1>4, <2>2, FlattenEmpty
  <2>4. QED
    BY <1>5, <2>3
<1>7. Len(handled) - Len(received) > 0 /\ k \in 1 .. Len(handled)
  BY <1>2, <1>3, <1>6
<1>8. PICK r : r = handled[k].reply
  OBVIOUS
<1>9. r \in Replies(handled[k].command)
  BY <1>7, <1>8 DEF HandledOK
<1>10. Pending[1] = EncodeReply(r)
  <2>1. 1 \in 1 .. Len(handled) - Len(received)
    BY <1>2, <1>7
  <2>2. QED
    BY <1>8, <2>1 DEF Pending, PendingOf
<1>11. PICK n \in Half : \E p \in Bytes(n) :
         /\ n <= MaxPayloadSize /\ EncodeReply(r) = Message(r.op, p)
         /\ r.op # Opcode.ErrorResponse =>
              DecodeResponse(r.op, p) # None /\ Answered(r, DecodeResponse(r.op, p))
  BY <1>9, ReplyArrives
<1>12. PICK p \in Bytes(n) :
         /\ n <= MaxPayloadSize /\ EncodeReply(r) = Message(r.op, p)
         /\ r.op # Opcode.ErrorResponse =>
              DecodeResponse(r.op, p) # None /\ Answered(r, DecodeResponse(r.op, p))
  BY <1>11
<1> DEFINE op == r.op
<1>13. op \in Byte
  BY <1>9, ReplyArrives
<1>14. SubSeq(Pending, 2, Len(Pending)) \in Seq(Seq(Byte))
  <2>1. \A i \in 2 .. Len(Pending) : Pending[i] \in Seq(Byte)
    BY <1>3, ElementOfSeq
  <2>2. QED
    BY <1>3, <2>1, SubSeqProperties
<1>15. rest \in Seq(Byte)
  BY <1>14, FlattenType
<1>16. Starts(toClient, << >>, Message(op, p), rest)
  <2>1. toClient = Pending[1] \o rest
    BY <1>3, <1>4, <1>6, FlattenFirst
  <2>2. toClient \o << >> = toClient
    BY <1>4, ConcatEmptySeq
  <2> HIDE DEF rest
  <2>3. QED
    BY <1>10, <1>12, <2>1, <2>2 DEF Starts
<1>17. n \in Nat /\ Len(toClient) \in Nat /\ << >> \in Seq(Byte)
  BY <1>4, HalfIs
<1>18. /\ header = [op |-> op, length |-> n]
       /\ SubSeq(toClient, 4, 3 + n) = p
       /\ SubSeq(toClient, 4 + n, Len(toClient)) = rest
       /\ Len(toClient) = 3 + n + Len(rest)
  <2> HIDE DEF op, rest
  <2>1. QED
    BY <1>4, <1>13, <1>15, <1>16, FramingAll
<1>19. end = 3 + n /\ header.op = op /\ header.length = n
  BY <1>18 DEF HeaderSize
<1> HIDE DEF header
<1>22. payload = p /\ SubSeq(toClient, end + 1, Len(toClient)) = rest
  <2>1. HeaderSize + 1 = 4 /\ (3 + n) + 1 = 4 + n
    BY <1>17 DEF HeaderSize
  <2> HIDE DEF end, rest
  <2>2. QED
    BY <1>18, <1>19, <2>1
<1> HIDE DEF payload, end, rest
<1>23. awaited \in {129, 131, 132, 133, 134, 135, 136}
  <2> DEFINE o == sent[k].op
  <2> HIDE DEF o
  <2>1. ResponseTo(o) \in {129, 131, 132, 133, 134, 135, 136}
    BY DEF ResponseTo, Opcode
  <2>2. QED
    BY <2>1 DEF o
<1> DEFINE q == DecodeResponse(op, p)
<1>24. value = IF op = awaited THEN q ELSE None
  <2> HIDE DEF awaited
  <2>1. n <= MaxPayloadSize
    BY <1>12
  <2>2. QED
    BY <1>19, <1>22, <2>1
<1>25. op = awaited => q # None /\ Answered(r, q)
  <2>1. op = awaited => op # Opcode.ErrorResponse
    BY <1>23 DEF Opcode
  <2>2. QED
    BY <1>12, <2>1
<1>26. value \in Responses
  <2>1. p \in Seq(Byte)
    BY <1>17, BytesAre
  <2>2. q \in Responses
    BY <1>13, <2>1 DEF Responses
  <2>3. None \in Responses
    BY DEF Responses
  <2> HIDE DEF value, q
  <2>4. QED
    BY <1>24, <2>2, <2>3
<1>27. connection' = "open" /\ toClient' = rest
  <2> HIDE DEF value, awaited, q, op
  <2>1. ~(n > MaxPayloadSize)
    BY <1>12, <1>17, ProtocolAssumption
  <2>2. ~(op = awaited /\ value = None)
    BY <1>24, <1>25
  <2>3. connection' = "open"
    BY <1>1, <1>19, <2>1, <2>2
  <2>4. QED
    BY <1>1, <1>22, <2>3
<1> HIDE DEF value
<1>28. /\ received' \in Seq(Responses) /\ Len(received') = k /\ received'[k] = value
       /\ \A i \in 1 .. Len(received) : received'[i] = received[i]
  <2>1. received \in Seq(Responses)
    BY DEF SequencesOK
  <2>2. received' = Append(received, value)
    BY <1>1
  <2>3. QED
    BY <1>26, <2>1, <2>2
<1>29. SequencesOK'
  BY <1>1, <1>2, <1>7, <1>28 DEF SequencesOK
<1>30. FlagsOK' /\ SentOK' /\ HandledOK' /\ RequestsOK'
  <2>1. FlagsOK'
    BY <1>1, <1>27 DEF FlagsOK
  <2>2. SentOK' /\ HandledOK'
    BY <1>1 DEF SentOK, HandledOK
  <2>3. RequestsOK'
    BY <1>1 DEF RequestsOK, Carried
  <2>4. QED
    BY <2>1, <2>2, <2>3
<1>31. RepliesOK'
  <2> DEFINE others == SubSeq(Pending, 2, Len(Pending))
             l      == Len(handled) - Len(received)
  <2>1. l \in Nat /\ l # 0 /\ Len(Pending) = l
    BY <1>2, <1>3, <1>7
  <2>2. Len(others) = l - 1 /\ \A i \in 1 .. l - 1 : others[i] = Pending[i + 1]
    <3>1. \A i \in 2 .. l : Pending[i] \in Seq(Byte)
      BY <1>3, <2>1, ElementOfSeq
    <3> HIDE DEF l
    <3> DEFINE o == SubSeq(Pending, 2, l)
    <3>2. /\ Len(o) = IF 2 <= l THEN l - 2 + 1 ELSE 0
          /\ \A i \in 1 .. l - 2 + 1 : o[i] = Pending[2 + i - 1]
      BY <2>1, <3>1, SubSeqProperties
    <3> HIDE DEF o
    <3>3. Len(o) = l - 1 /\ l - 2 + 1 = l - 1
      BY <2>1, <3>2
    <3>4. ASSUME NEW i \in 1 .. l - 1 PROVE o[i] = Pending[i + 1]
      <4>1. i \in 1 .. l - 2 + 1 /\ 2 + i - 1 = i + 1
        BY <2>1
      <4>2. QED
        BY <3>2, <4>1
    <3>5. QED
      BY <2>1, <3>3, <3>4 DEF o
  <2>3. Len(handled') \in Nat /\ Len(received') \in Nat /\ Len(received') <= Len(handled')
    BY <1>29 DEF SequencesOK
  <2>4. Pending' \in Seq(Seq(Byte)) /\ Len(Pending') = Len(handled') - Len(received')
    BY <1>30, <2>3, PendingOfType DEF Pending, HandledOK
  <2>5. Len(handled') - Len(received') = l - 1
    BY <1>1, <1>2, <1>28
  <2>6. ASSUME NEW i \in 1 .. l - 1 PROVE Pending'[i] = others[i]
    <3>1. i \in 1 .. Len(handled') - Len(received')
      BY <2>5
    <3>2. Pending'[i] = EncodeReply(handled'[Len(received') + i].reply)
      BY <3>1 DEF Pending, PendingOf
    <3>3. Len(received') + i = Len(received) + (i + 1)
      BY <1>2, <1>28
    <3>4. i + 1 \in 1 .. l
      BY <2>1
    <3>5. Pending[i + 1] = EncodeReply(handled[Len(received) + (i + 1)].reply)
      BY <3>4 DEF Pending, PendingOf
    <3>6. QED
      BY <1>1, <2>2, <3>2, <3>3, <3>5
  <2> HIDE DEF others, l
  <2>7. others \in Seq(Seq(Byte))
    BY <1>14 DEF others
  <2>8. Pending' = others
    <3>1. Len(Pending') = l - 1
      BY <2>4, <2>5
    <3>2. QED
      BY <2>1, <2>2, <2>4, <2>6, <2>7, <3>1, SeqEqual
  <2>9. QED
    BY <1>27, <2>8 DEF RepliesOK, others, rest
<1>32. ReceivedOK'
  <2>1. SUFFICES ASSUME NEW i \in 1 .. k
                 PROVE  IF handled[i].reply.op # ResponseTo(sent[i].op)
                          THEN received'[i] = None
                          ELSE Answered(handled[i].reply, received'[i])
    BY <1>1, <1>28 DEF ReceivedOK
  <2>2. CASE i = k
    <3>1. received'[i] = value /\ handled[i].reply = r /\ ResponseTo(sent[i].op) = awaited
      BY <1>8, <1>28, <2>2
    <3> HIDE DEF awaited, q
    <3>2. QED
      BY <1>24, <1>25, <3>1
  <2>3. CASE i # k
    <3>1. i \in 1 .. Len(received)
      BY <1>2, <2>3
    <3>2. QED
      BY <1>28, <3>1 DEF ReceivedOK
  <2>4. QED
    BY <2>2, <2>3
<1>33. QED
  BY <1>29, <1>30, <1>31, <1>32

\* The end of the connection leaves the requests and what came of them.
LEMMA EndStep ==
  ASSUME IInv, Disconnect \/ ServerReturns
  PROVE  IInv'
<1> USE DEF IInv
<1>1. CASE Disconnect
  BY <1>1 DEF Disconnect, SequencesOK, FlagsOK, SentOK, RequestsOK, Carried, HandledOK, RepliesOK,
     ReceivedOK
<1>2. CASE ServerReturns
  BY <1>2 DEF ServerReturns, streamVars, SequencesOK, FlagsOK, SentOK, RequestsOK, Carried,
     HandledOK, RepliesOK, Pending, PendingOf, ReceivedOK
<1>3. QED
  BY <1>1, <1>2

\* Every step keeps the invariant.
LEMMA Inductive ==
  ASSUME IInv, [Next]_vars
  PROVE  IInv'
<1>1. ASSUME NEW c \in Requests, Send(c) PROVE IInv'
  <2> DEFINE s == [op |-> c.op, command |-> c]
  <2>1. Carries(Encode(c), s) /\ c.op \in Byte
    BY RequestArrives
  <2>2. s \in [op : Byte, command : Requests \cup {None}] /\ s.op \in Byte
        /\ (s.command # None => s.command.op = s.op)
    BY <2>1
  <2> HIDE DEF s
  <2>3. Encode(c) \in Seq(Byte)
    BY <2>1, <2>2, CarriesType
  <2>4. /\ MaySend /\ toServer' = toServer \o Encode(c) /\ sent' = Append(sent, s)
        /\ UNCHANGED <<toClient, buffer, connection, serving, handled, received>>
    BY <1>1 DEF Send, s
  <2>5. QED
    BY <2>1, <2>2, <2>3, <2>4, SendStep
<1>2. ASSUME NEW m \in OtherVersion, SendOtherVersion(m) PROVE IInv'
  <2> DEFINE s == [op |-> m.op, command |-> None]
  <2>1. /\ m.op \in Byte /\ m.payload \in Seq(Byte) /\ Len(m.payload) <= MaxU16
        /\ ~WellFormed(m.op, m.payload)
    BY RequestsAssumption
  <2>2. s \in [op : Byte, command : Requests \cup {None}] /\ s.op = m.op /\ s.command = None
    BY <2>1
  <2> HIDE DEF s
  <2>3. DecodeCommand(m.op, m.payload) = None
    BY <2>1 DEF DecodeCommand
  <2>4. Len(m.payload) \in Half /\ m.payload \in Bytes(Len(m.payload))
    BY <2>1, HalfIs, BytesAre
  <2>5. Carries(Message(m.op, m.payload), s)
    BY <2>2, <2>3, <2>4 DEF Carries, Understood
  <2>6. Message(m.op, m.payload) \in Seq(Byte)
    BY <2>1, <2>2, <2>5, CarriesType
  <2>7. /\ MaySend /\ toServer' = toServer \o Message(m.op, m.payload) /\ sent' = Append(sent, s)
        /\ UNCHANGED <<toClient, buffer, connection, serving, handled, received>>
    BY <1>2 DEF SendOtherVersion, s
  <2>8. QED
    BY <2>2, <2>5, <2>6, <2>7, SendStep
<1>3. ASSUME NEW n \in 1 .. MaxChunk, Recv(n) PROVE IInv'
  BY <1>3, RecvStep
<1>4. CASE Receive
  BY <1>4, ReceiveStep
<1>5. CASE Disconnect \/ ServerReturns
  BY <1>5, EndStep
<1>6. CASE HandleMessage
  BY <1>6, HandleStep
<1>7. CASE UNCHANGED vars
  BY <1>7 DEF vars, streamVars, IInv, SequencesOK, FlagsOK, SentOK, RequestsOK, Carried, HandledOK,
     RepliesOK, Pending, PendingOf, ReceivedOK
<1>8. QED
  BY <1>1, <1>2, <1>3, <1>4, <1>5, <1>6, <1>7 DEF Next

-----------------------------------------------------------------------------
(* The theorems *)

\* What HandleClient has not handled is whole messages of the client's, in the order
\* they were sent; what the client has not received is whole replies.
THEOREM Invariance == Spec => []IInv
<1>1. Init => IInv
  BY InitIInv
<1>2. IInv /\ [Next]_vars => IInv'
  BY Inductive
<1>3. QED
  BY <1>1, <1>2, PTL DEF Spec

\* The invariant gives the types.
LEMMA IInvType ==
  ASSUME IInv
  PROVE  TypeOK
<1> USE DEF IInv
<1>1. Pending \in Seq(Seq(Byte))
  BY PendingType
<1>2. toClient \in Seq(Byte)
  <2>1. << >> \in Seq(Byte) /\ FlattenSeq(Pending) \in Seq(Byte)
    BY <1>1, FlattenType
  <2>2. QED
    BY <2>1 DEF RepliesOK
<1>3. QED
  BY <1>2 DEF TypeOK, SequencesOK, FlagsOK, RequestsOK

\* However the streams are cut, the handler is given the commands the client meant, in
\* order, and refuses what is of another version by itself.
THEOREM InOrder == Spec => []CommandsInOrder
<1>1. IInv => CommandsInOrder
  <2> SUFFICES ASSUME IInv PROVE CommandsInOrder
    OBVIOUS
  <2>1. DOMAIN handled = 1 .. Len(handled)
    BY DEF IInv, SequencesOK
  <2>2. QED
    BY <2>1, IInvType DEF IInv, HandledOK, CommandsInOrder
<1>2. QED
  BY <1>1, Invariance, PTL

\* Every request gets its own answer, as the handler gave it, and no answer makes the
\* client give the connection up.
THEOREM Matching == Spec => []RepliesMatch
<1>1. IInv => RepliesMatch
  <2> SUFFICES ASSUME IInv PROVE RepliesMatch
    OBVIOUS
  <2>1. DOMAIN received = 1 .. Len(received)
    BY DEF IInv, SequencesOK
  <2>2. QED
    BY <2>1 DEF IInv, FlagsOK, ReceivedOK, RepliesMatch
<1>2. QED
  BY <1>1, Invariance, PTL

\* When the server waits for bytes and none are on the way, every request is handled.
THEOREM AllHandled == Spec => []NothingLeftOver
<1>1. IInv => NothingLeftOver
  <2> SUFFICES ASSUME IInv, ~HasMessage(buffer), toServer = << >>
               PROVE  buffer = << >> /\ Len(handled) = Len(sent)
    BY DEF NothingLeftOver
  <2> USE DEF IInv
  <2>1. PICK all \in Seq(Seq(Byte)) : Carried(all)
    BY DEF RequestsOK
  <2>2. buffer \in Seq(Byte) /\ << >> \in Seq(Byte) /\ Len(all) \in Nat /\ Len(sent) \in Nat
        /\ Len(handled) \in Nat
    BY DEF RequestsOK, SequencesOK
  <2>3. CASE Len(all) = 0
    <3>1. all = << >>
      BY <2>3, EmptySeq
    <3>2. buffer \o << >> = << >>
      BY <2>1, <3>1, FlattenEmpty DEF Carried
    <3>3. buffer = << >>
      BY <2>2, <3>2, ConcatEmptySeq
    <3>4. Len(handled) = Len(sent)
      BY <2>1, <2>2, <2>3 DEF Carried
    <3>5. QED
      BY <3>3, <3>4
  <2>4. CASE Len(all) # 0
    <3> DEFINE first == all[1]
               rest  == FlattenSeq(SubSeq(all, 2, Len(all)))
               s     == sent[Len(handled) + 1]
               op    == s.op
    <3>1. 1 \in 1 .. Len(all) /\ Len(handled) + 1 \in 1 .. Len(sent)
      BY <2>1, <2>2, <2>4 DEF Carried
    <3>2. Carries(first, s)
      BY <2>1, <3>1 DEF Carried
    <3>3. op \in Byte
      <4>1. s \in [op : Byte, command : Requests \cup {None}]
        BY <3>1, ElementOfSeq DEF SequencesOK
      <4> HIDE DEF s
      <4>2. QED
        BY <4>1
    <3>4. PICK n \in Half : \E p \in Bytes(n) : first = Message(op, p)
      BY <3>2 DEF Carries
    <3>5. PICK p \in Bytes(n) : first = Message(op, p)
      BY <3>4
    <3>6. rest \in Seq(Byte)
      <4> DEFINE others == SubSeq(all, 2, Len(all))
      <4>1. \A i \in 2 .. Len(all) : all[i] \in Seq(Byte)
        BY ElementOfSeq
      <4>2. others \in Seq(Seq(Byte))
        BY <2>2, <4>1, SubSeqProperties
      <4> HIDE DEF others
      <4>3. FlattenSeq(others) \in Seq(Byte)
        BY <4>2, FlattenType
      <4>4. QED
        BY <4>3 DEF others
    <3>7. Starts(buffer, << >>, Message(op, p), rest)
      <4>1. FlattenSeq(all) = first \o rest
        BY <2>4, FlattenFirst
      <4> HIDE DEF rest
      <4>2. QED
        BY <2>1, <3>5, <4>1 DEF Starts, Carried
    <3>8. n \in Nat /\ Len(rest) \in Nat /\ Len(buffer) \in Nat
      <4>1. n \in Nat
        BY HalfIs
      <4> HIDE DEF rest
      <4>2. QED
        BY <2>2, <3>6, <4>1
    <3>9. Len(buffer) = 3 + n + Len(rest) /\ TryReadHeader(buffer) = [op |-> op, length |-> n]
      <4> HIDE DEF op, rest
      <4>1. QED
        BY <2>2, <3>3, <3>6, <3>7, FramingAll
    <3>10. Len(buffer) >= 3 + n
      <4> DEFINE a == Len(buffer)
                 b == Len(rest)
      <4>1. a = 3 + n + b /\ b \in Nat
        BY <3>8, <3>9
      <4> HIDE DEF a, b
      <4>2. a >= 3 + n
        BY <3>8, <4>1
      <4>3. QED
        BY <4>2 DEF a
    <3>11. Total(buffer) = 3 + n
      BY <3>9 DEF Total, HeaderSize
    <3>12. TryReadHeader(buffer) # None
      <4>1. [op |-> op, length |-> n] \in [op : Byte, length : Half]
        <5> HIDE DEF op
        <5>1. QED
          BY <3>3
      <4>2. QED
        BY <3>9, <4>1, NoneAssumption
    <3>13. QED
      BY <3>10, <3>11, <3>12 DEF HasMessage
  <2>5. QED
    BY <2>3, <2>4
<1>2. QED
  BY <1>1, Invariance, PTL
=============================================================================
