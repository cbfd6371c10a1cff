---------------------------- MODULE ShellProofs -----------------------------
(***************************************************************************)
(* What a shell makes of a command, for values of any length: a head of    *)
(* words that are no flag, and behind it the arguments as cmd-build spells *)
(* them, is read as those words and the strings that the button posts.     *)
(* Texts are sequences without bound; an induction goes over the length of *)
(* a text, by the least number for which a statement fails.                *)
(***************************************************************************)
EXTENDS CommandLine, SequenceTheorems, WellFoundedInduction, TLAPS

-----------------------------------------------------------------------------
(* Reading a sequence: a function g takes a state and an element to the    *)
(* next state, and Fold(g, t, s) is the state in which reading t from s    *)
(* ends. Spelling a sequence: each element is replaced by a sequence.      *)
(* FoldSpell and its kin say what reading makes of a spelling when each    *)
(* element is spelled so that it is read back.                             *)

(* Every set of numbers has a least one: how these proofs go by induction. *)
LEMMA Least ==
    ASSUME NEW T, T \subseteq Nat, T # {}
    PROVE  \E m \in T : \A k \in T : m <= k
<1>1. PICK m \in T : \A k \in T : ~(<<k, m>> \in OpToRel(<, Nat))
  BY WFMin, NatLessThanWellFounded
<1>2. \A k \in T : ~(k < m)
  BY <1>1 DEF OpToRel
<1> QED
  BY <1>2

(* The elements of two sequences in one.                                   *)
LEMMA ConcatIs ==
    ASSUME NEW S, NEW t \in Seq(S), NEW u \in Seq(S)
    PROVE  /\ t \o u \in Seq(S)
           /\ Len(t) \in Nat /\ Len(u) \in Nat /\ Len(t \o u) = Len(t) + Len(u)
           /\ \A i \in 1..Len(t) : (t \o u)[i] = t[i]
           /\ \A i \in 1..Len(u) : (t \o u)[Len(t) + i] = u[i]
  OBVIOUS

LEMMA ConcatAssoc ==
    ASSUME NEW S, NEW t \in Seq(S), NEW u \in Seq(S), NEW v \in Seq(S)
    PROVE  (t \o u) \o v = t \o (u \o v)
  OBVIOUS

LEMMA ConcatEmpty ==
    ASSUME NEW S, NEW t \in Seq(S)
    PROVE  t \o <<>> = t /\ <<>> \o t = t
  OBVIOUS

Closed(X) ==
    /\ <<>> \in Seq(X) /\ \A c \in X : <<c>> \in Seq(X)
    /\ \A a, b \in Seq(X) : a \o b \in Seq(X)
Neutral(X) == \A a \in Seq(X) : a \o <<>> = a /\ <<>> \o a = a
Assoc(X)   == \A a, b, c \in Seq(X) : (a \o b) \o c = a \o (b \o c)
LEMMA Concats == ASSUME NEW X PROVE Closed(X) /\ Neutral(X) /\ Assoc(X)
<1>1. <<>> \in Seq(X) /\ \A c \in X : <<c>> \in Seq(X)
  OBVIOUS
<1>2. \A a, b \in Seq(X) : a \o b \in Seq(X)
  BY ConcatIs
<1>3. \A a \in Seq(X) : a \o <<>> = a /\ <<>> \o a = a
  BY ConcatEmpty
<1>4. \A a, b, c \in Seq(X) : (a \o b) \o c = a \o (b \o c)
  BY ConcatAssoc
<1> QED
  BY <1>1, <1>2, <1>3, <1>4 DEF Closed, Neutral, Assoc

LEMMA OneIs ==
    ASSUME NEW S, NEW c \in S
    PROVE  <<c>> \in Seq(S) /\ Len(<<c>>) = 1 /\ <<c>>[1] = c /\ DOMAIN <<c>> = 1..1
  OBVIOUS

LEMMA SeqSub == ASSUME NEW S, NEW T, S \subseteq T, NEW t \in Seq(S) PROVE t \in Seq(T)
  OBVIOUS

LEMMA SnocIs ==
    ASSUME NEW S, NEW t \in Seq(S), t # <<>>
    PROVE  \E u \in Seq(S), c \in S : t = u \o <<c>> /\ Len(u) = Len(t) - 1
<1> DEFINE u == SubSeq(t, 1, Len(t) - 1)
           c == t[Len(t)]
<1>1. Len(t) \in Nat \ {0} /\ c \in S /\ \A i \in 1..(Len(t) - 1) : t[i] \in S
  OBVIOUS
<1>2. u \in Seq(S) /\ Len(u) = Len(t) - 1
  <2> DEFINE n == Len(t) - 1
           v == SubSeq(t, 1, n)
  <2>1. n \in Nat /\ n \in Int /\ 1 \in Int /\ \A i \in 1..n : t[i] \in S
    BY <1>1
  <2> HIDE DEF n
  <2>2. Len(v) = IF 1 <= n THEN n - 1 + 1 ELSE 0
    BY <2>1, SubSeqProperties
  <2>3. v \in Seq(S)
    BY <2>1, SubSeqProperties
  <2> HIDE DEF v
  <2>4. Len(v) = n
    BY <2>1, <2>2
  <2> QED
    BY <2>3, <2>4 DEF v, n
<1>3. t = u \o <<c>>
  BY <1>1, SubSeqRecursiveSecond, SubSeqFull
<1> QED
  BY <1>1, <1>2, <1>3

(* What holds of the empty text, and of a text with a character more, is   *)
(* true of every text.                                                     *)
LEMMA TextInduction ==
    ASSUME NEW S, NEW T, T \subseteq Seq(S), <<>> \in T,
           \A u \in T, c \in S : u \o <<c>> \in T
    PROVE  T = Seq(S)
<1> DEFINE L == {Len(t) : t \in Seq(S) \ T}
<1>1. ASSUME L # {} PROVE FALSE
  <2>1. L \subseteq Nat
    OBVIOUS
  <2> HIDE DEF L
  <2>2. PICK m \in L : \A k \in L : m <= k
    BY <1>1, <2>1, Least
  <2>3. PICK t \in Seq(S) \ T : m = Len(t)
    BY <2>2 DEF L
  <2>4. PICK u \in Seq(S), c \in S : t = u \o <<c>> /\ Len(u) = Len(t) - 1
    BY <2>3, SnocIs
  <2>5. u \notin T
    BY <2>3, <2>4
  <2>6. Len(u) \in L
    BY <2>5 DEF L
  <2> QED
    BY <2>1, <2>2, <2>3, <2>4, <2>6
<1> QED
  BY <1>1

(* A function g of pairs, carried along a sequence t from s; f holds what  *)
(* it has reached after each element.                                      *)
Fold(g, t, s) ==
    LET after[i \in 0..Len(t)] == IF i = 0 THEN s ELSE g[<<after[i - 1], t[i]>>] IN after[Len(t)]
RunOf(g, t, s, f) ==
    /\ Len(t) \in Nat
    /\ f = [i \in 0..Len(t) |-> IF i = 0 THEN s ELSE g[<<f[i - 1], t[i]>>]]
Stepper(g, S, C) == \A x \in S, c \in C : g[<<x, c>>] \in S

LEMMA RunStarts ==
    ASSUME NEW g, NEW t, NEW s, NEW f, RunOf(g, t, s, f)
    PROVE  f[0] = s /\ \A i \in 1..Len(t) : f[i] = g[<<f[i - 1], t[i]>>]
<1>1. Len(t) \in Nat /\ 0 \in 0..Len(t)
  BY DEF RunOf
<1>2. ASSUME NEW i \in 1..Len(t) PROVE f[i] = g[<<f[i - 1], t[i]>>]
  <2>1. i \in 0..Len(t) /\ i # 0
    BY <1>1
  <2> QED
    BY <2>1 DEF RunOf
<1> QED
  BY <1>1, <1>2 DEF RunOf

(* There is one such run only.                                             *)
LEMMA RunUnique ==
    ASSUME NEW g, NEW t, NEW s, NEW f, NEW h, RunOf(g, t, s, f), RunOf(g, t, s, h)
    PROVE  f[Len(t)] = h[Len(t)]
<1> DEFINE T == {i \in 0..Len(t) : f[i] # h[i]}
<1>0. Len(t) \in Nat
  BY DEF RunOf
<1>1. ASSUME T # {} PROVE FALSE
  <2>0. T \subseteq Nat
    BY <1>0
  <2> HIDE DEF T
  <2>1. PICK m \in T : \A k \in T : m <= k
    BY <2>0, <1>1, Least
  <2>2. m \in 0..Len(t) /\ f[m] # h[m]
    BY <2>1 DEF T
  <2>3. m # 0
    BY <2>2, RunStarts
  <2>4. m \in 1..Len(t) /\ m - 1 \in 0..Len(t) /\ m - 1 < m
    BY <1>0, <2>2, <2>3
  <2>5. m - 1 \notin T
    BY <2>1, <2>4, <2>0
  <2>6. f[m - 1] = h[m - 1]
    BY <2>4, <2>5 DEF T
  <2>7. f[m] = g[<<f[m - 1], t[m]>>] /\ h[m] = g[<<h[m - 1], t[m]>>]
    BY <2>4, RunStarts
  <2> QED
    BY <2>2, <2>6, <2>7
<1> QED
  BY <1>0, <1>1

LEMMA FoldIs ==
    ASSUME NEW g, NEW t, NEW s, NEW f, RunOf(g, t, s, f)
    PROVE  Fold(g, t, s) = f[Len(t)]
<1> DEFINE Def(h) == h = [i \in 0..Len(t) |-> IF i = 0 THEN s ELSE g[<<h[i - 1], t[i]>>]]
           after == CHOOSE h : Def(h)
<1>1. Def(f)
  BY DEF RunOf
<1>2. Def(after)
  BY <1>1
<1>3. Fold(g, t, s) = after[Len(t)]
  BY DEF Fold
<1> HIDE DEF after
<1>4. RunOf(g, t, s, after)
  BY <1>2 DEF RunOf
<1> QED
  BY <1>3, <1>4, RunUnique

LEMMA RunExists ==
    ASSUME NEW S, NEW C, NEW g, Stepper(g, S, C), NEW t \in Seq(C), NEW s \in S
    PROVE  \E f : RunOf(g, t, s, f) /\ \A i \in 0..Len(t) : f[i] \in S
<1> DEFINE Goes(n, f) ==
              /\ f = [i \in 0..n |-> IF i = 0 THEN s ELSE g[<<f[i - 1], t[i]>>]]
              /\ \A i \in 0..n : f[i] \in S
           Good(n) == \E f : Goes(n, f)
           T == {n \in 0..Len(t) : ~Good(n)}
<1>1. Len(t) \in Nat
  OBVIOUS
<1>2. Good(0)
  <2> DEFINE f == [i \in 0..0 |-> s]
  <2>1. Goes(0, f)
    OBVIOUS
  <2> QED
    BY <2>1
<1>3. ASSUME NEW n \in 1..Len(t), Good(n - 1) PROVE Good(n)
  <2>0. n \in Nat /\ n - 1 \in 0..(n - 1) /\ t[n] \in C
    BY <1>1
  <2>1. PICK f : Goes(n - 1, f)
    BY <1>3
  <2> DEFINE h == [i \in 0..n |-> IF i = n THEN g[<<f[n - 1], t[n]>>] ELSE f[i]]
  <2>2. ASSUME NEW i \in 0..n
        PROVE  h[i] = (IF i = 0 THEN s ELSE g[<<h[i - 1], t[i]>>]) /\ h[i] \in S
    <3>1. CASE i = 0
      BY <2>0, <2>1, <3>1
    <3>2. CASE i = n
      <4>1. h[i - 1] = f[i - 1] /\ f[i - 1] \in S
        BY <2>0, <2>1, <3>2
      <4>2. h[i] = g[<<f[n - 1], t[n]>>] /\ i # 0
        BY <2>0, <3>2
      <4>3. g[<<f[n - 1], t[n]>>] \in S
        BY <2>0, <3>2, <4>1 DEF Stepper
      <4> QED
        BY <3>2, <4>1, <4>2, <4>3
    <3>3. CASE i # 0 /\ i # n
      <4>1. i \in 0..(n - 1) /\ i - 1 \in 0..(n - 1) /\ h[i] = f[i] /\ h[i - 1] = f[i - 1]
        BY <2>0, <3>3
      <4> QED
        BY <2>1, <3>3, <4>1
    <3> QED
      BY <3>1, <3>2, <3>3
  <2>3. Goes(n, h)
    BY <2>2
  <2> QED
    BY <2>3
<1> HIDE DEF Good
<1>4. ASSUME T # {} PROVE FALSE
  <2>0. T \subseteq Nat
    BY <1>1
  <2> HIDE DEF T
  <2>1. PICK m \in T : \A k \in T : m <= k
    BY <2>0, <1>4, Least
  <2>2. m \in 0..Len(t) /\ ~Good(m)
    BY <2>1 DEF T
  <2>3. m # 0
    BY <1>2, <2>2
  <2>4. m \in 1..Len(t) /\ m - 1 \in 0..Len(t) /\ m - 1 < m
    BY <1>1, <2>2, <2>3
  <2>5. Good(m - 1)
    BY <2>0, <2>1, <2>4 DEF T
  <2> QED
    BY <1>3, <2>2, <2>4, <2>5
<1>5. PICK f : Goes(Len(t), f)
  <2>1. Len(t) \in 0..Len(t) /\ T = {}
    BY <1>1, <1>4
  <2>2. Good(Len(t))
    BY <2>1
  <2> QED
    BY <2>2 DEF Good
<1>6. RunOf(g, t, s, f) /\ \A i \in 0..Len(t) : f[i] \in S
  BY <1>1, <1>5 DEF RunOf
<1> QED
  BY <1>6

LEMMA FoldTyped ==
    ASSUME NEW S, NEW C, NEW g, Stepper(g, S, C), NEW t \in Seq(C), NEW s \in S
    PROVE  Fold(g, t, s) \in S
<1>1. PICK f : RunOf(g, t, s, f) /\ \A i \in 0..Len(t) : f[i] \in S
  BY RunExists
<1>2. Len(t) \in 0..Len(t)
  OBVIOUS
<1> QED
  BY <1>1, <1>2, FoldIs

LEMMA FoldEmpty == ASSUME NEW g, NEW s PROVE Fold(g, <<>>, s) = s
<1> DEFINE f == [i \in 0..Len(<<>>) |-> s]
<1>1. RunOf(g, <<>>, s, f)
  BY DEF RunOf
<1> HIDE DEF f
<1>2. Fold(g, <<>>, s) = f[Len(<<>>)]
  BY <1>1, FoldIs
<1> QED
  BY <1>2 DEF f

LEMMA FoldConcat ==
    ASSUME NEW S, NEW C, NEW g, Stepper(g, S, C), NEW t \in Seq(C), NEW u \in Seq(C), NEW s \in S
    PROVE  Fold(g, t \o u, s) = Fold(g, u, Fold(g, t, s))
<1>1. /\ Len(t) \in Nat /\ Len(u) \in Nat /\ Len(t \o u) = Len(t) + Len(u)
      /\ \A i \in 1..Len(t) : (t \o u)[i] = t[i]
      /\ \A i \in 1..Len(u) : (t \o u)[Len(t) + i] = u[i]
  BY ConcatIs
<1>2. PICK f : RunOf(g, t, s, f) /\ \A i \in 0..Len(t) : f[i] \in S
  BY RunExists
<1>3. PICK h : RunOf(g, u, f[Len(t)], h)
  <2>1. f[Len(t)] \in S
    BY <1>1, <1>2
  <2> QED
    BY <2>1, RunExists
<1> DEFINE m == Len(t)
           n == Len(u)
           both == [i \in 0..Len(t \o u) |-> IF i <= m THEN f[i] ELSE h[i - m]]
<1>4. /\ f[0] = s /\ \A i \in 1..m : f[i] = g[<<f[i - 1], t[i]>>]
      /\ h[0] = f[m] /\ \A i \in 1..n : h[i] = g[<<h[i - 1], u[i]>>]
  BY <1>2, <1>3, RunStarts
<1>5. ASSUME NEW i \in 0..(m + n)
      PROVE  both[i] = IF i = 0 THEN s ELSE g[<<both[i - 1], (t \o u)[i]>>]
  <2>1. CASE i = 0
    BY <1>1, <1>4, <2>1
  <2>2. CASE i \in 1..m
    <3>1. both[i] = f[i] /\ both[i - 1] = f[i - 1] /\ (t \o u)[i] = t[i]
      BY <1>1, <2>2
    <3> QED
      BY <1>1, <1>4, <2>2, <3>1
  <2>3. CASE i > m
    <3> DEFINE j == i - m
    <3>1. j \in 1..n /\ i = m + j
      BY <1>1, <2>3
    <3>2. h[j] = g[<<h[j - 1], u[j]>>] /\ (t \o u)[i] = u[j]
      BY <1>1, <1>4, <3>1
    <3>3. both[i] = h[j]
      BY <1>1, <2>3
    <3>4. both[i - 1] = h[j - 1]
      <4>1. CASE j = 1
        BY <1>1, <1>4, <3>1, <4>1
      <4>2. CASE j # 1
        <5>1. i - 1 \in 0..Len(t \o u) /\ ~(i - 1 <= m) /\ (i - 1) - m = j - 1
          BY <1>1, <3>1, <4>2
        <5> QED
          BY <5>1
      <4> QED
        BY <4>1, <4>2
    <3>5. i # 0
      BY <1>1, <2>3
    <3> HIDE DEF both, j
    <3> QED
      BY <3>2, <3>3, <3>4, <3>5
  <2>4. i = 0 \/ i \in 1..m \/ i > m
    BY <1>1
  <2> QED
    BY <2>1, <2>2, <2>3, <2>4
<1>6. both[m + n] = h[n]
  <2>1. CASE n = 0
    BY <1>1, <1>4, <2>1
  <2>2. CASE n # 0
    <3>1. m + n \in 0..Len(t \o u) /\ ~(m + n <= m) /\ (m + n) - m = n
      BY <1>1, <2>2
    <3> QED
      BY <3>1
  <2> QED
    BY <2>1, <2>2
<1>7. RunOf(g, t \o u, s, both)
  <2>1. both = [i \in 0..(m + n) |-> both[i]]
    BY <1>1
  <2>2. both = [i \in 0..(m + n) |-> IF i = 0 THEN s ELSE g[<<both[i - 1], (t \o u)[i]>>]]
    <3> HIDE DEF both
    <3> QED
      BY <1>5, <2>1
  <2>3. Len(t \o u) = m + n /\ m + n \in Nat
    BY <1>1
  <2> HIDE DEF both, m, n
  <2> QED
    BY <2>2, <2>3 DEF RunOf
<1> HIDE DEF both
<1>8. Fold(g, t \o u, s) = both[m + n]
  <2>1. Fold(g, t \o u, s) = both[Len(t \o u)]
    BY <1>7, FoldIs
  <2> QED
    BY <1>1, <2>1
<1>9. Fold(g, t, s) = f[m] /\ Fold(g, u, f[m]) = h[n]
  BY <1>2, <1>3, FoldIs
<1> QED
  BY <1>6, <1>8, <1>9

LEMMA FoldOne == ASSUME NEW g, NEW c, NEW s PROVE Fold(g, <<c>>, s) = g[<<s, c>>]
<1> DEFINE f == [i \in 0..1 |-> IF i = 0 THEN s ELSE g[<<s, c>>]]
<1>1. Len(<<c>>) = 1 /\ <<c>>[1] = c
  OBVIOUS
<1>2. RunOf(g, <<c>>, s, f)
  BY <1>1 DEF RunOf
<1>3. f[1] = g[<<s, c>>]
  OBVIOUS
<1> HIDE DEF f
<1> QED
  BY <1>1, <1>2, <1>3, FoldIs

(* Two sequences of states that go on in the same way.                     *)
Together(f, h, a, b) == \A i \in (a + 1)..b : f[i - 1] = h[i - 1] => f[i] = h[i]
LEMMA InStep ==
    ASSUME NEW a \in Nat, NEW b \in Nat, NEW f, NEW h, f[a] = h[a], Together(f, h, a, b)
    PROVE  \A i \in a..b : f[i] = h[i]
<1> DEFINE T == {i \in a..b : f[i] # h[i]}
<1>1. ASSUME T # {} PROVE FALSE
  <2>0. T \subseteq Nat
    OBVIOUS
  <2> HIDE DEF T
  <2>1. PICK m \in T : \A k \in T : m <= k
    BY <2>0, <1>1, Least
  <2>2. m \in a..b /\ f[m] # h[m]
    BY <2>1 DEF T
  <2>3. m \in (a + 1)..b /\ m - 1 \in a..b /\ m - 1 < m
    BY <2>2
  <2>4. f[m - 1] = h[m - 1]
    BY <2>0, <2>1, <2>3 DEF T
  <2> QED
    BY <2>2, <2>3, <2>4 DEF Together
<1> QED
  BY <1>1

LEMMA FoldSnoc ==
    ASSUME NEW S, NEW C, NEW g, Stepper(g, S, C), NEW t \in Seq(C), NEW c \in C, NEW s \in S
    PROVE  Fold(g, t \o <<c>>, s) = g[<<Fold(g, t, s), c>>]
<1> DEFINE one == <<c>>
<1>1. one \in Seq(C)
  OBVIOUS
<1>2. Fold(g, one, Fold(g, t, s)) = g[<<Fold(g, t, s), c>>]
  BY FoldOne
<1> HIDE DEF one
<1>3. Fold(g, t \o one, s) = Fold(g, one, Fold(g, t, s))
  BY <1>1, FoldConcat
<1> QED
  BY <1>2, <1>3 DEF one

(* A state s0 that stands for the text read so far.                        *)
Standing(g, out, D, S) ==
    \A u \in Seq(D) : out[u] \in S /\ \A c \in D : g[<<out[u], c>>] = out[u \o <<c>>]
LEMMA FoldOut ==
    ASSUME NEW S, NEW C, NEW g, Stepper(g, S, C), NEW D, D \subseteq C,
           NEW out, Standing(g, out, D, S)
    PROVE  \A t \in Seq(D) : Fold(g, t, out[<<>>]) = out[t]
<1> DEFINE T == {t \in Seq(D) : Fold(g, t, out[<<>>]) = out[t]}
<1>1. <<>> \in T
  BY FoldEmpty
<1>2. ASSUME NEW u \in T, NEW c \in D PROVE u \o <<c>> \in T
  <2>0. u \in Seq(D) /\ Fold(g, u, out[<<>>]) = out[u]
    OBVIOUS
  <2> HIDE DEF T
  <2>1. /\ u \in Seq(C) /\ <<c>> \in Seq(D) /\ <<c>> \in Seq(C)
        /\ out[<<>>] \in S /\ u \o <<c>> \in Seq(D)
    <3>1. u \in Seq(C)
      BY <2>0, SeqSub
    <3>2. <<c>> \in Seq(D) /\ <<c>> \in Seq(C)
      BY OneIs
    <3>3. u \o <<c>> \in Seq(D)
      BY <2>0, <3>2, ConcatIs
    <3>4. out[<<>>] \in S
      BY EmptySeq DEF Standing
    <3> QED
      BY <2>0, <3>1, <3>2, <3>3, <3>4
  <2>2. Fold(g, u \o <<c>>, out[<<>>]) = g[<<Fold(g, u, out[<<>>]), c>>]
    BY <2>1, FoldSnoc
  <2>5. g[<<out[u], c>>] = out[u \o <<c>>]
    BY <2>0 DEF Standing
  <2> QED
    BY <2>0, <2>1, <2>2, <2>5 DEF T
<1> HIDE DEF T
<1>3. T = Seq(D)
  <2>1. T \subseteq Seq(D)
    BY DEF T
  <2> QED
    BY <1>1, <1>2, <2>1, TextInduction
<1> QED
  BY <1>3 DEF T

-----------------------------------------------------------------------------
(* Joining a list of sequences is reading it, too; a spelling as one.      *)

Cat(S) == [x \in Seq(S) \X Seq(S) |-> x[1] \o x[2]]

LEMMA CatSteps ==
    ASSUME NEW S
    PROVE  /\ Stepper(Cat(S), Seq(S), Seq(S))
           /\ \A t \in Seq(S), u \in Seq(S) : Cat(S)[<<t, u>>] = t \o u
<1>1. ASSUME NEW t \in Seq(S), NEW u \in Seq(S) PROVE Cat(S)[<<t, u>>] = t \o u /\ t \o u \in Seq(S)
  <2>1. t \o u \in Seq(S)
    BY ConcatIs
  <2>2. Cat(S)[<<t, u>>] = t \o u
    BY DEF Cat
  <2> QED
    BY <2>1, <2>2
<1> QED
  BY <1>1 DEF Stepper

LEMMA FlattenIs ==
    ASSUME NEW S, NEW ls \in Seq(Seq(S))
    PROVE  FlattenSeq(ls) = Fold(Cat(S), ls, <<>>)
<1> DEFINE n == Len(ls)
           Def(h) == h = [i \in 1..n |-> IF i = 1 THEN ls[i] ELSE h[i - 1] \o ls[i]]
           flatten == CHOOSE h : Def(h)
<1>1. n \in Nat /\ ls \in [1..n -> Seq(S)] /\ <<>> \in Seq(S)
  OBVIOUS
<1>2. CASE n = 0
  <2>1. ls = <<>>
    BY <1>2
  <2>2. FlattenSeq(ls) = <<>>
    BY <1>2, <2>1 DEF FlattenSeq
  <2> QED
    BY <2>1, <2>2, FoldEmpty
<1>3. CASE n # 0
  <2>1. PICK f : RunOf(Cat(S), ls, <<>>, f) /\ \A i \in 0..n : f[i] \in Seq(S)
    BY <1>1, CatSteps, RunExists
  <2>2. f[0] = <<>> /\ \A i \in 1..n : f[i] = Cat(S)[<<f[i - 1], ls[i]>>]
    BY <2>1, RunStarts
  <2>3. ASSUME NEW i \in 1..n PROVE f[i] = f[i - 1] \o ls[i]
    <3>1. i - 1 \in 0..n /\ ls[i] \in Seq(S)
      BY <1>1
    <3> QED
      BY <2>1, <2>2, <3>1, CatSteps
  <2> DEFINE F == [i \in 1..n |-> f[i]]
  <2>4. Def(F)
    <3>1. ASSUME NEW i \in 1..n PROVE F[i] = IF i = 1 THEN ls[i] ELSE F[i - 1] \o ls[i]
      <4>1. CASE i = 1
        <5>1. f[1] = f[0] \o ls[1] /\ f[0] = <<>> /\ ls[1] \in Seq(S)
          <6>1. 1 \in 1..n /\ 1 - 1 = 0
            BY <1>1, <1>3
          <6> QED
            BY <1>1, <2>2, <2>3, <6>1
        <5> DEFINE x == ls[1]
        <5> HIDE DEF x
        <5>2. <<>> \o x = x
          BY <5>1, ConcatEmpty DEF x
        <5>3. f[1] = ls[1]
          BY <5>1, <5>2 DEF x
        <5> QED
          BY <4>1, <5>3
      <4>2. CASE i # 1
        <5>1. i - 1 \in 1..n
          BY <1>1, <4>2
        <5> QED
          BY <2>3, <4>2, <5>1
      <4> QED
        BY <4>1, <4>2
    <3>2. F = [i \in 1..n |-> F[i]]
      OBVIOUS
    <3> HIDE DEF F
    <3> QED
      BY <3>1, <3>2
  <2>5. Def(flatten)
    BY <2>4
  <2>6. FlattenSeq(ls) = flatten[n]
    BY <1>3 DEF FlattenSeq
  <2> HIDE DEF flatten, F
  <2>7. \A i \in 1..n : flatten[i] = IF i = 1 THEN ls[i] ELSE flatten[i - 1] \o ls[i]
    BY <2>5
  <2>8. \A i \in 1..n : F[i] = IF i = 1 THEN ls[i] ELSE F[i - 1] \o ls[i]
    BY <2>4
  <2>9. \A i \in 1..n : flatten[i] = F[i]
    <3>1. flatten[1] = F[1]
      BY <1>1, <1>3, <2>7, <2>8
    <3>2. ASSUME NEW i \in (1 + 1)..n, flatten[i - 1] = F[i - 1] PROVE flatten[i] = F[i]
      <4>1. i \in 1..n /\ i # 1
        BY <1>1
      <4> QED
        BY <2>7, <2>8, <3>2, <4>1
    <3>3. Together(flatten, F, 1, n)
      BY <3>2 DEF Together
    <3>4. n \in Nat /\ 1 \in Nat
      BY <1>1
    <3> HIDE DEF n
    <3> QED
      BY <3>1, <3>3, <3>4, InStep
  <2>10. flatten[n] = f[n]
    BY <1>1, <1>3, <2>9 DEF F
  <2>11. Fold(Cat(S), ls, <<>>) = f[n]
    BY <2>1, FoldIs
  <2> QED
    BY <2>6, <2>10, <2>11
<1> QED
  BY <1>2, <1>3

LEMMA FlattenTyped ==
    ASSUME NEW S, NEW ls \in Seq(Seq(S))
    PROVE  FlattenSeq(ls) \in Seq(S)
<1>1. <<>> \in Seq(S)
  OBVIOUS
<1>2. Fold(Cat(S), ls, <<>>) \in Seq(S)
  BY <1>1, CatSteps, FoldTyped
<1> QED
  BY <1>2, FlattenIs

LEMMA FlattenEmpty == FlattenSeq(<<>>) = <<>>
  BY DEF FlattenSeq

LEMMA FlattenSnoc ==
    ASSUME NEW S, NEW ls \in Seq(Seq(S)), NEW x \in Seq(S)
    PROVE  FlattenSeq(ls \o <<x>>) = FlattenSeq(ls) \o x
<1> DEFINE X == Seq(S)
           g == Cat(S)
           s == FlattenSeq(ls)
<1>1. <<>> \in X /\ <<x>> \in Seq(X) /\ Stepper(g, X, X) /\ ls \in Seq(X) /\ x \in X
  BY CatSteps
<1>2. ls \o <<x>> \in Seq(X)
  BY <1>1, ConcatIs
<1>3. Fold(g, ls \o <<x>>, <<>>) = g[<<Fold(g, ls, <<>>), x>>]
  <2> HIDE DEF g, X
  <2> QED
    BY <1>1, FoldSnoc
<1>4. FlattenSeq(ls \o <<x>>) = Fold(g, ls \o <<x>>, <<>>)
  BY <1>2, FlattenIs
<1>5. s = Fold(g, ls, <<>>)
  BY FlattenIs
<1>6. s \in Seq(S)
  BY FlattenTyped
<1> HIDE DEF s
<1>7. g[<<s, x>>] = s \o x
  BY <1>6, CatSteps
<1> QED
  BY <1>3, <1>4, <1>5, <1>7 DEF s

LEMMA FlattenOne ==
    ASSUME NEW S, NEW x \in Seq(S)
    PROVE  FlattenSeq(<<x>>) = x
  BY DEF FlattenSeq

(* Lists of texts.                                                         *)
LineLists(S) == Seq(Seq(S))

RowsClosed(S) ==
    /\ <<>> \in LineLists(S)
    /\ \A x \in Seq(S) : <<x>> \in LineLists(S)
    /\ \A as, bs \in LineLists(S) : as \o bs \in LineLists(S)
RowsNeutral(S) == \A as \in LineLists(S) : as \o <<>> = as /\ <<>> \o as = as
RowsAssoc(S) == \A as, bs, cs \in LineLists(S) : (as \o bs) \o cs = as \o (bs \o cs)
LEMMA RowsJoin == ASSUME NEW S PROVE RowsClosed(S) /\ RowsNeutral(S) /\ RowsAssoc(S)
<1> DEFINE X == Seq(S)
<1>1. Closed(X) /\ Neutral(X) /\ Assoc(X)
  BY Concats
<1> QED
  BY <1>1, Zenon DEF Closed, Neutral, Assoc, RowsClosed, RowsNeutral, RowsAssoc, LineLists

LEMMA FlattenConcat ==
    ASSUME NEW S, NEW as \in LineLists(S), NEW bs \in LineLists(S)
    PROVE  FlattenSeq(as \o bs) = FlattenSeq(as) \o FlattenSeq(bs)
<1> DEFINE T == {ls \in LineLists(S) : FlattenSeq(as \o ls) = FlattenSeq(as) \o FlattenSeq(ls)}
           y == FlattenSeq(as)
<1>9. RowsClosed(S) /\ RowsNeutral(S) /\ RowsAssoc(S)
  BY RowsJoin
<1>0. y \in Seq(S)
  BY FlattenTyped DEF LineLists
<1>1. <<>> \in T
  <2>1. as \o <<>> = as
    BY <1>9, Zenon DEF RowsNeutral
  <2> HIDE DEF y
  <2>2. y \o <<>> = y
    BY <1>0
  <2>3. <<>> \in LineLists(S)
    BY <1>9 DEF RowsClosed
  <2> QED
    BY <2>1, <2>2, <2>3, FlattenEmpty DEF y
<1>2. ASSUME NEW ls \in T, NEW x \in Seq(S) PROVE ls \o <<x>> \in T
  <2>1. ls \in LineLists(S) /\ FlattenSeq(as \o ls) = y \o FlattenSeq(ls)
    OBVIOUS
  <2> HIDE DEF T
  <2>2. <<x>> \in LineLists(S)
    BY <1>9, Zenon DEF RowsClosed
  <2>3. as \o (ls \o <<x>>) = (as \o ls) \o <<x>> /\ as \o ls \in LineLists(S) /\ ls \o <<x>> \in LineLists(S)
    <3> DEFINE one == <<x>>
    <3>1. one \in LineLists(S)
      BY <2>2
    <3> HIDE DEF one
    <3>2. as \o (ls \o one) = (as \o ls) \o one
      BY <1>9, <2>1, <3>1, Zenon DEF RowsAssoc
    <3>3. as \o ls \in LineLists(S) /\ ls \o one \in LineLists(S)
      BY <1>9, <2>1, <3>1, Zenon DEF RowsClosed
    <3> QED
      BY <3>2, <3>3 DEF one
  <2>4. FlattenSeq(ls \o <<x>>) = FlattenSeq(ls) \o x
    BY <2>1, FlattenSnoc DEF LineLists
  <2>5. FlattenSeq((as \o ls) \o <<x>>) = FlattenSeq(as \o ls) \o x
    BY <2>3, FlattenSnoc DEF LineLists
  <2>7. (y \o FlattenSeq(ls)) \o x = y \o (FlattenSeq(ls) \o x)
    <3> DEFINE z == FlattenSeq(ls)
    <3>1. z \in Seq(S)
      BY <2>1, FlattenTyped DEF LineLists
    <3> HIDE DEF y, z
    <3>2. (y \o z) \o x = y \o (z \o x)
      BY <1>0, <3>1, ConcatAssoc
    <3> QED
      BY <3>2 DEF z
  <2> QED
    BY <2>1, <2>3, <2>4, <2>5, <2>7 DEF T
<1> HIDE DEF T, y
<1>3. T = LineLists(S)
  <2>1. T \subseteq Seq(Seq(S)) /\ <<>> \in T
    BY <1>1 DEF T, LineLists
  <2> QED
    BY <1>2, <2>1, TextInduction DEF LineLists
<1> QED
  BY <1>3 DEF T, y

(* How a text is spelled, character by character.                          *)
SpellBy(e, t) == FlattenSeq([i \in DOMAIN t |-> e[t[i]]])
Spelling(e, D, S) == \A c \in D : e[c] \in Seq(S)

LEMMA SpellPieces ==
    ASSUME NEW D, NEW S, NEW e, Spelling(e, D, S), NEW t \in Seq(D)
    PROVE  [i \in DOMAIN t |-> e[t[i]]] \in Seq(Seq(S))
<1>1. DOMAIN t = 1..Len(t) /\ Len(t) \in Nat /\ \A i \in 1..Len(t) : t[i] \in D
  OBVIOUS
<1>2. \A i \in 1..Len(t) : e[t[i]] \in Seq(S)
  BY <1>1 DEF Spelling
<1> QED
  BY <1>1, <1>2

LEMMA SpellEmpty == ASSUME NEW e PROVE SpellBy(e, <<>>) = <<>>
<1>1. [i \in DOMAIN <<>> |-> e[<<>>[i]]] = <<>>
  OBVIOUS
<1> QED
  BY <1>1, FlattenEmpty DEF SpellBy

LEMMA SpellTyped ==
    ASSUME NEW D, NEW S, NEW e, Spelling(e, D, S), NEW t \in Seq(D)
    PROVE  SpellBy(e, t) \in Seq(S)
  BY SpellPieces, FlattenTyped DEF SpellBy

LEMMA SpellSnoc ==
    ASSUME NEW D, NEW S, NEW e, Spelling(e, D, S), NEW t \in Seq(D), NEW c \in D
    PROVE  SpellBy(e, t \o <<c>>) = SpellBy(e, t) \o e[c]
<1> DEFINE u == t \o <<c>>
           ts == [i \in DOMAIN t |-> e[t[i]]]
           us == [i \in DOMAIN u |-> e[u[i]]]
<1>1. /\ u \in Seq(D) /\ Len(u) = Len(t) + 1 /\ Len(t) \in Nat
      /\ \A i \in 1..Len(t) : u[i] = t[i]
      /\ u[Len(t) + 1] = c
  OBVIOUS
<1> HIDE DEF u
<1>2. ts \in Seq(Seq(S)) /\ us \in Seq(Seq(S)) /\ e[c] \in Seq(S)
  BY <1>1, SpellPieces DEF Spelling
<1>3. Len(ts) = Len(t) /\ Len(us) = Len(t) + 1 /\ DOMAIN u = 1..(Len(t) + 1)
  BY <1>1
<1>4. us = ts \o <<e[c]>>
  <2> DEFINE x == e[c]
  <2>1. <<x>> \in Seq(Seq(S)) /\ Len(<<x>>) = 1 /\ <<x>>[1] = x
    BY <1>2
  <2>2. ts \o <<x>> \in Seq(Seq(S)) /\ Len(ts \o <<x>>) = Len(t) + 1
    BY <1>2, <1>3, <2>1, ConcatIs
  <2>3. ASSUME NEW i \in 1..(Len(t) + 1) PROVE us[i] = (ts \o <<x>>)[i]
    <3>1. CASE i \in 1..Len(t)
      <4>1. (ts \o <<x>>)[i] = ts[i]
        BY <1>2, <1>3, <2>1, <3>1, ConcatIs
      <4> QED
        BY <1>1, <1>3, <3>1, <4>1
    <3>2. CASE i = Len(t) + 1
      <4>1. (ts \o <<x>>)[Len(ts) + 1] = <<x>>[1]
        BY <1>2, <2>1, ConcatIs
      <4>2. us[i] = e[u[i]]
        BY <1>1, <1>3
      <4> QED
        BY <1>1, <1>3, <2>1, <3>2, <4>1, <4>2
    <3> QED
      BY <1>1, <3>1, <3>2
  <2> HIDE DEF us, ts, x
  <2> QED
    BY <1>2, <1>3, <2>2, <2>3, SeqEqual DEF x
<1> HIDE DEF ts, us
<1>5. FlattenSeq(us) = FlattenSeq(ts) \o e[c]
  BY <1>2, <1>4, FlattenSnoc
<1> QED
  BY <1>5 DEF SpellBy, ts, us, u

SpellsEnd(e, D) == \A t \in Seq(D), c \in D : SpellBy(e, t \o <<c>>) = SpellBy(e, t) \o e[c]
LEMMA SpellEnd == ASSUME NEW D, NEW S, NEW e, Spelling(e, D, S) PROVE SpellsEnd(e, D)
<1>1. ASSUME NEW t \in Seq(D), NEW c \in D PROVE SpellBy(e, t \o <<c>>) = SpellBy(e, t) \o e[c]
  BY SpellSnoc
<1> QED
  BY <1>1, Zenon DEF SpellsEnd

(* Reading a spelled text: each character's spelling takes the state that  *)
(* stands for what was read to the one with that character too.            *)
Reads(g, e, out, D, S) ==
    \A u \in Seq(D) : out[u] \in S /\ \A c \in D : Fold(g, e[c], out[u]) = out[u \o <<c>>]

LEMMA FoldSpell ==
    ASSUME NEW S, NEW C, NEW g, Stepper(g, S, C), NEW D, NEW e, Spelling(e, D, C),
           NEW out, Reads(g, e, out, D, S)
    PROVE  \A t \in Seq(D) : Fold(g, SpellBy(e, t), out[<<>>]) = out[t]
<1> DEFINE T == {t \in Seq(D) : Fold(g, SpellBy(e, t), out[<<>>]) = out[t]}
<1>1. <<>> \in T
  BY SpellEmpty, FoldEmpty, EmptySeq
<1>0. SpellsEnd(e, D)
  BY SpellEnd
<1>2. ASSUME NEW u \in T, NEW c \in D PROVE u \o <<c>> \in T
  <2>0. u \in Seq(D) /\ Fold(g, SpellBy(e, u), out[<<>>]) = out[u]
    OBVIOUS
  <2> HIDE DEF T
  <2>1. u \o <<c>> \in Seq(D) /\ <<>> \in Seq(D)
    <3>1. <<c>> \in Seq(D)
      OBVIOUS
    <3> QED
      BY <2>0, <3>1, ConcatIs, EmptySeq
  <2>2. SpellBy(e, u) \in Seq(C) /\ e[c] \in Seq(C) /\ out[<<>>] \in S
    BY <2>0, <2>1, SpellTyped DEF Spelling, Reads
  <2>3. SpellBy(e, u \o <<c>>) = SpellBy(e, u) \o e[c]
    BY <1>0, <2>0, Zenon DEF SpellsEnd
  <2>4. Fold(g, SpellBy(e, u) \o e[c], out[<<>>]) = Fold(g, e[c], out[u])
    <3> DEFINE x == SpellBy(e, u)
               y == e[c]
               s == out[<<>>]
    <3> HIDE DEF x, y, s
    <3>1. x \in Seq(C) /\ y \in Seq(C) /\ s \in S
      BY <2>2 DEF x, y, s
    <3>2. Fold(g, x \o y, s) = Fold(g, y, Fold(g, x, s))
      BY <3>1, FoldConcat
    <3> QED
      BY <2>0, <3>2 DEF x, y, s
  <2>5. Fold(g, e[c], out[u]) = out[u \o <<c>>]
    BY <2>0 DEF Reads
  <2> QED
    BY <2>1, <2>3, <2>4, <2>5 DEF T
<1> HIDE DEF T
<1>3. T = Seq(D)
  <2>1. T \subseteq Seq(D)
    BY DEF T
  <2> QED
    BY <1>1, <1>2, <2>1, TextInduction
<1> QED
  BY <1>3 DEF T

-----------------------------------------------------------------------------
(* The symbols of a command, its texts, and the states of the shell that   *)
(* reads one.                                                              *)

(* All symbols that a command is made of.                                  *)
HeadSymbols ==
    {Tarball, "--", "$(nix-build", "--no-out-link", "--tarball-ttl", "0", "-A", "exec.x)",
     "nix-run", "--option", "tarball-ttl", ".", "experiment-x", "nix", "run", ".#x", "adb#x",
     "github:adb#x", "--extra-experimental-features", "nix-command", "flakes", "--refresh"}
OtherSymbols ==
    {"nix-shell", "--run", "--data-dir", "--set", "--publish", "--profile", "k", "l", "m", "="}
Symbols == Plain \cup Chars \cup HeadSymbols \cup OtherSymbols
Text == Seq(Symbols)
Words == Seq(Text)

Closing == {"SP", "NL", "'", "DQ", "\\", "$"}

(* What the shell has read.                                                *)
Modes  == {"bare", "single", "double", "bare\\", "double\\"}
States == [mode : Modes, words : Words, word : Text, open : BOOLEAN, ended : BOOLEAN, ok : BOOLEAN]
St(m, ws, w, o) == [mode |-> m, words |-> ws, word |-> w, open |-> o, ended |-> FALSE, ok |-> TRUE]

TextClosed ==
    /\ <<>> \in Text /\ \A c \in Symbols : <<c>> \in Text
    /\ \A a, b \in Text : a \o b \in Text
TextNeutral == \A a \in Text : a \o <<>> = a /\ <<>> \o a = a
TextAssoc   == \A a, b, c \in Text : (a \o b) \o c = a \o (b \o c)
LEMMA TextIs == TextClosed /\ TextNeutral /\ TextAssoc
<1>1. Closed(Symbols) /\ Neutral(Symbols) /\ Assoc(Symbols)
  BY Concats
<1> QED
  BY <1>1, Zenon DEF Closed, Neutral, Assoc, TextClosed, TextNeutral, TextAssoc, Text

Same(a, b, c) == (a \o b) \o c = a \o (b \o c)
LEMMA TextSame == \A a, b, c \in Text : Same(a, b, c)
  BY TextIs DEF TextAssoc, Same

WordsAppend == <<>> \in Words /\ \A ws \in Words, w \in Text : Append(ws, w) \in Words
LEMMA WordsAre == WordsAppend
<1>1. ASSUME NEW X, NEW ws \in Seq(X), NEW w \in X PROVE Append(ws, w) \in Seq(X)
  OBVIOUS
<1>2. ASSUME NEW X PROVE <<>> \in Seq(X)
  OBVIOUS
<1> QED
  BY <1>1, <1>2 DEF WordsAppend, Words

LEMMA StIs ==
    ASSUME NEW m \in Modes, NEW ws \in Words, NEW w \in Text, NEW o \in BOOLEAN
    PROVE  St(m, ws, w, o) \in States
  BY DEF St, States

LEMMA PutTyped ==
    ASSUME NEW s \in States, NEW t \in Text
    PROVE  Put(s, t) \in States
<1>1. s.word \o t \in Text
  BY TextIs DEF TextClosed, States
<1> QED
  BY <1>1 DEF Put, States

LEMMA EndWordTyped ==
    ASSUME NEW s \in States
    PROVE  EndWord(s) \in States
<1>1. Append(s.words, s.word) \in Words /\ <<>> \in Text
  BY TextIs, WordsAre DEF TextClosed, WordsAppend, States
<1> QED
  BY <1>1 DEF EndWord, States

LEMMA ExceptTyped ==
    ASSUME NEW s \in States, NEW m \in Modes
    PROVE  /\ [s EXCEPT !.mode = m] \in States
           /\ [s EXCEPT !.mode = m, !.open = TRUE] \in States
           /\ [s EXCEPT !.ok = FALSE] \in States
           /\ [s EXCEPT !.ended = TRUE] \in States
  BY DEF States

LEMMA ReadCharTyped ==
    ASSUME NEW s \in States, NEW c \in Symbols
    PROVE  ReadChar(s, c) \in States
<1>0. "bare" \in Modes /\ "single" \in Modes /\ "double" \in Modes /\ "bare\\" \in Modes /\ "double\\" \in Modes
  BY DEF Modes
<1>1. <<c>> \in Text
  BY TextIs DEF TextClosed
<1>2. Put(s, <<c>>) \in States /\ EndWord(s) \in States
  BY <1>1, PutTyped, EndWordTyped
<1>3. Bare(s, c) \in States
  BY <1>0, <1>2, ExceptTyped DEF Bare
<1>4. Double(s, c) \in States
  BY <1>0, <1>2, ExceptTyped DEF Double
<1>5. ASSUME c = "NL" PROVE Put(s, <<>>) \in States
  BY TextIs, PutTyped DEF TextClosed
<1>6. Put(s, <<"\\", c>>) \in States
  <2>1. "\\" \in Symbols
    BY DEF Symbols, Chars
  <2>2. <<"\\", c>> = <<"\\">> \o <<c>>
    OBVIOUS
  <2>3. <<"\\", c>> \in Text
    BY <1>1, <2>1, <2>2, TextIs DEF TextClosed
  <2> QED
    BY <2>3, PutTyped
<1>7. s.mode \in Modes
  BY DEF States
<1>8. CASE s.ended
  BY <1>8, <1>0, ExceptTyped DEF ReadChar
<1>9. CASE ~s.ended
  <2>1. CASE s.mode = "bare"
    BY <1>9, <1>3, <2>1 DEF ReadChar
  <2>2. CASE s.mode = "single"
    BY <1>9, <1>0, <1>2, <2>2, ExceptTyped DEF ReadChar
  <2>3. CASE s.mode = "double"
    BY <1>9, <1>4, <2>3 DEF ReadChar
  <2>4. CASE s.mode = "bare\\"
    BY <1>9, <1>0, <1>2, <2>4, ExceptTyped DEF ReadChar
  <2>5. CASE s.mode = "double\\"
    <3> DEFINE x == CASE c = "NL" -> <<>> [] c \in {"$", "DQ", "\\"} -> <<c>> [] OTHER -> <<"\\", c>>
    <3>1. Put(s, x) \in States
      BY <1>2, <1>5, <1>6
    <3>2. ReadChar(s, c) = [Put(s, x) EXCEPT !.mode = "double"]
      BY <1>9, <2>5 DEF ReadChar
    <3> HIDE DEF x
    <3> QED
      BY <1>0, <3>1, <3>2, ExceptTyped
  <2> QED
    BY <1>7, <2>1, <2>2, <2>3, <2>4, <2>5 DEF Modes
<1> QED
  BY <1>8, <1>9

Reader == [x \in States \X Symbols |-> ReadChar(x[1], x[2])]
Read(t, s) == Fold(Reader, t, s)

ReaderSteps == \A s \in States, c \in Symbols : Reader[<<s, c>>] = ReadChar(s, c) /\ ReadChar(s, c) \in States
LEMMA ReaderIs == ReaderSteps /\ Stepper(Reader, States, Symbols)
<1>1. ASSUME NEW s \in States, NEW c \in Symbols PROVE Reader[<<s, c>>] = ReadChar(s, c)
  <2>1. <<s, c>> \in States \X Symbols
    OBVIOUS
  <2> QED
    BY <2>1 DEF Reader
<1>2. ReaderSteps
  BY <1>1, ReadCharTyped DEF ReaderSteps
<1> QED
  BY <1>2 DEF ReaderSteps, Stepper

ReadsText ==
    /\ \A s : Read(<<>>, s) = s
    /\ \A t \in Text, s \in States : Read(t, s) \in States
    /\ \A t, u \in Text, s \in States : Read(t \o u, s) = Read(u, Read(t, s))
    /\ \A s \in States, c \in Symbols : Read(<<c>>, s) = ReadChar(s, c)
LEMMA ReadIs == ReadsText
<1>1. \A s : Read(<<>>, s) = s
  BY FoldEmpty DEF Read
<1>2. \A t \in Text, s \in States : Read(t, s) \in States
  BY ReaderIs, FoldTyped DEF Read, Text
<1>3. \A t, u \in Text, s \in States : Read(t \o u, s) = Read(u, Read(t, s))
  BY ReaderIs, FoldConcat DEF Read, Text
<1>4. \A s \in States, c \in Symbols : Read(<<c>>, s) = ReadChar(s, c)
  <2>1. \A s, c : Read(<<c>>, s) = Reader[<<s, c>>]
    BY FoldOne DEF Read
  <2> QED
    BY <2>1, ReaderIs DEF ReaderSteps
<1> QED
  BY <1>1, <1>2, <1>3, <1>4 DEF ReadsText

LEMMA AlongRead ==
    ASSUME NEW t \in Text, NEW s \in States
    PROVE  Along(t, s, ReadChar) = Read(t, s)
<1> DEFINE n == Len(t)
           Def(h) == h = [i \in 0..n |-> IF i = 0 THEN s ELSE ReadChar(h[i - 1], t[i])]
           after == CHOOSE h : Def(h)
<1>1. n \in Nat /\ \A i \in 1..n : t[i] \in Symbols
  BY DEF Text
<1>2. PICK f : RunOf(Reader, t, s, f) /\ \A i \in 0..n : f[i] \in States
  BY ReaderIs, RunExists DEF Text
<1>3. f[0] = s /\ \A i \in 1..n : f[i] = Reader[<<f[i - 1], t[i]>>]
  BY <1>2, RunStarts
<1>4. \A i \in 1..n : f[i] = ReadChar(f[i - 1], t[i])
  <2>1. \A i \in 1..n : f[i - 1] \in States
    <3>1. \A i \in 1..n : i - 1 \in 0..n
      BY <1>1
    <3> QED
      BY <1>2, <3>1
  <2> QED
    BY <1>1, <1>3, <2>1, ReaderIs DEF ReaderSteps
<1>5. Def([i \in 0..n |-> f[i]])
  <2> DEFINE F == [i \in 0..n |-> f[i]]
  <2>1. ASSUME NEW i \in 0..n PROVE F[i] = IF i = 0 THEN s ELSE ReadChar(F[i - 1], t[i])
    <3>1. CASE i = 0
      BY <1>3, <3>1
    <3>2. CASE i # 0
      <4>1. i \in 1..n /\ i - 1 \in 0..n
        BY <1>1, <3>2
      <4> QED
        BY <1>4, <3>2, <4>1
    <3> QED
      BY <3>1, <3>2
  <2>2. F = [i \in 0..n |-> F[i]]
    OBVIOUS
  <2> HIDE DEF F
  <2>3. Def(F)
    BY <2>1, <2>2
  <2> QED
    BY <2>3 DEF F
<1>6. Def(after)
  BY <1>5
<1>7. Along(t, s, ReadChar) = after[n]
  BY DEF Along
<1> HIDE DEF after
<1>8. after[0] = s /\ \A i \in 1..n : after[i] = ReadChar(after[i - 1], t[i])
  <2>1. \A i \in 0..n : after[i] = IF i = 0 THEN s ELSE ReadChar(after[i - 1], t[i])
    BY <1>6
  <2>2. 0 \in 0..n /\ \A i \in 1..n : i \in 0..n /\ i # 0
    BY <1>1
  <2> QED
    BY <2>1, <2>2
<1>9. \A i \in 0..n : after[i] = f[i]
  <2>1. Together(after, f, 0, n)
    BY <1>4, <1>8 DEF Together
  <2>2. after[0] = f[0]
    BY <1>3, <1>8
  <2> HIDE DEF n
  <2> QED
    BY <1>1, <2>1, <2>2, InStep
<1>10. Read(t, s) = f[n]
  BY <1>2, FoldIs DEF Read
<1>11. n \in 0..n
  BY <1>1
<1> QED
  BY <1>7, <1>9, <1>10, <1>11

-----------------------------------------------------------------------------
(* What one character does in each of the shell's modes.                   *)

LEMMA BareReads ==
    ASSUME NEW ws \in Words, NEW w \in Text, NEW o \in BOOLEAN
    PROVE  /\ ReadChar(St("bare", ws, w, TRUE), "SP") = St("bare", Append(ws, w), <<>>, FALSE)
           /\ ReadChar(St("bare", ws, w, FALSE), "SP") = St("bare", ws, w, FALSE)
           /\ ReadChar(St("bare", ws, w, o), "'") = St("single", ws, w, TRUE)
           /\ ReadChar(St("bare", ws, w, o), "DQ") = St("double", ws, w, TRUE)
           /\ ReadChar(St("bare", ws, w, o), "\\") = St("bare\\", ws, w, o)
           /\ ReadChar(St("bare\\", ws, w, o), "NL") = St("bare", ws, w, o)
           /\ \A c \in Symbols \ {"NL"} : ReadChar(St("bare\\", ws, w, o), c) = St("bare", ws, w \o <<c>>, TRUE)
           /\ \A c \in Symbols \ Closing : ReadChar(St("bare", ws, w, o), c) = St("bare", ws, w \o <<c>>, TRUE)
<1>1. ReadChar(St("bare", ws, w, TRUE), "SP") = St("bare", Append(ws, w), <<>>, FALSE)
  BY DEF ReadChar, St, Bare, EndWord
<1>2. ReadChar(St("bare", ws, w, FALSE), "SP") = St("bare", ws, w, FALSE)
  BY DEF ReadChar, St, Bare, EndWord
<1>3. ReadChar(St("bare", ws, w, o), "'") = St("single", ws, w, TRUE)
  BY DEF ReadChar, St, Bare
<1>4. ReadChar(St("bare", ws, w, o), "DQ") = St("double", ws, w, TRUE)
  BY DEF ReadChar, St, Bare
<1>5. ReadChar(St("bare", ws, w, o), "\\") = St("bare\\", ws, w, o)
  BY DEF ReadChar, St, Bare
<1>6. ReadChar(St("bare\\", ws, w, o), "NL") = St("bare", ws, w, o)
  BY DEF ReadChar, St
<1>7. \A c \in Symbols \ {"NL"} : ReadChar(St("bare\\", ws, w, o), c) = St("bare", ws, w \o <<c>>, TRUE)
  BY DEF ReadChar, St, Put
<1>8. \A c \in Symbols \ Closing : ReadChar(St("bare", ws, w, o), c) = St("bare", ws, w \o <<c>>, TRUE)
  BY DEF ReadChar, St, Bare, Put, Closing
<1> QED
  BY <1>1, <1>2, <1>3, <1>4, <1>5, <1>6, <1>7, <1>8

LEMMA QuoteReads ==
    ASSUME NEW ws \in Words, NEW w \in Text, NEW o \in BOOLEAN
    PROVE  /\ ReadChar(St("single", ws, w, o), "'") = St("bare", ws, w, o)
           /\ \A c \in Symbols \ {"'"} : ReadChar(St("single", ws, w, o), c) = St("single", ws, w \o <<c>>, TRUE)
           /\ ReadChar(St("double", ws, w, o), "DQ") = St("bare", ws, w, o)
           /\ ReadChar(St("double", ws, w, o), "\\") = St("double\\", ws, w, o)
           /\ \A c \in Symbols \ {"DQ", "\\", "$"} :
                 ReadChar(St("double", ws, w, o), c) = St("double", ws, w \o <<c>>, TRUE)
           /\ ReadChar(St("double\\", ws, w, o), "NL") = St("double", ws, w, TRUE)
           /\ \A c \in {"$", "DQ", "\\"} :
                 ReadChar(St("double\\", ws, w, o), c) = St("double", ws, w \o <<c>>, TRUE)
<1>0. w \o <<>> = w
  BY TextIs DEF TextNeutral
<1>1. ReadChar(St("single", ws, w, o), "'") = St("bare", ws, w, o)
  BY DEF ReadChar, St
<1>2. \A c \in Symbols \ {"'"} : ReadChar(St("single", ws, w, o), c) = St("single", ws, w \o <<c>>, TRUE)
  BY DEF ReadChar, St, Put
<1>3. ReadChar(St("double", ws, w, o), "DQ") = St("bare", ws, w, o)
  BY DEF ReadChar, St, Double
<1>4. ReadChar(St("double", ws, w, o), "\\") = St("double\\", ws, w, o)
  BY DEF ReadChar, St, Double
<1>5. \A c \in Symbols \ {"DQ", "\\", "$"} :
         ReadChar(St("double", ws, w, o), c) = St("double", ws, w \o <<c>>, TRUE)
  BY DEF ReadChar, St, Double, Put
<1>6. ReadChar(St("double\\", ws, w, o), "NL") = St("double", ws, w, TRUE)
  BY <1>0 DEF ReadChar, St, Put
<1>7. \A c \in {"$", "DQ", "\\"} :
         ReadChar(St("double\\", ws, w, o), c) = St("double", ws, w \o <<c>>, TRUE)
  BY DEF ReadChar, St, Put
<1> QED
  BY <1>1, <1>2, <1>3, <1>4, <1>5, <1>6, <1>7

-----------------------------------------------------------------------------
(* A text in quotes is read as itself: each character that ends or expands *)
(* something is escaped, in single quotes and in double quotes.            *)

LEMMA Pair == ASSUME NEW c, NEW d PROVE <<c, d>> = <<c>> \o <<d>>
<1>1. <<c, d>> = Append(<<c>>, d)
  OBVIOUS
<1>2. <<c>> \in Seq({c, d}) /\ d \in {c, d}
  OBVIOUS
<1>3. Append(<<c>>, d) = <<c>> \o <<d>>
  BY <1>2, AppendIsConcat
<1> QED
  BY <1>1, <1>3

LEMMA ThreeBlanks == <<"SP", "SP", "SP">> = <<"SP">> \o <<"SP", "SP">>
  OBVIOUS
LEMMA NewLine == <<"\\", "NL", "SP", "SP">> = <<"\\", "NL">> \o <<"SP", "SP">>
  OBVIOUS
LEMMA ContinueIs == <<"SP", "\\", "NL", "SP", "SP">> = <<"SP">> \o <<"\\", "NL", "SP", "SP">>
  OBVIOUS

LEMMA ReadTwo ==
    ASSUME NEW s \in States, NEW c \in Symbols, NEW d \in Symbols
    PROVE  /\ <<c, d>> \in Text /\ Read(<<c, d>>, s) = ReadChar(ReadChar(s, c), d)
<1> DEFINE t == <<c>>
           u == <<d>>
<1>0. <<c, d>> = t \o u
  BY Pair
<1>1. t \in Text /\ u \in Text
  BY TextIs DEF TextClosed
<1>2. Read(t, s) = ReadChar(s, c) /\ ReadChar(s, c) \in States
  BY ReadIs, ReaderIs DEF ReadsText, ReaderSteps
<1>3. Read(u, ReadChar(s, c)) = ReadChar(ReadChar(s, c), d)
  BY <1>2, ReadIs DEF ReadsText
<1> HIDE DEF t, u
<1>4. Read(t \o u, s) = Read(u, Read(t, s)) /\ t \o u \in Text
  BY <1>1, ReadIs, TextIs, Zenon DEF ReadsText, TextClosed
<1> QED
  BY <1>0, <1>2, <1>3, <1>4 DEF t, u

(* Reading one text after another.                                         *)
LEMMA ReadThen ==
    ASSUME NEW t \in Text, NEW u \in Text, NEW s \in States
    PROVE  t \o u \in Text /\ Read(t \o u, s) = Read(u, Read(t, s)) /\ Read(t, s) \in States
<1>1. t \o u \in Text
  BY TextIs, Zenon DEF TextClosed
<1>2. Read(t \o u, s) = Read(u, Read(t, s)) /\ Read(t, s) \in States
  BY ReadIs, Zenon DEF ReadsText
<1> QED
  BY <1>1, <1>2

LEMMA ReadChars ==
    ASSUME NEW s \in States, NEW c \in Symbols
    PROVE  <<c>> \in Text /\ Read(<<c>>, s) = ReadChar(s, c) /\ ReadChar(s, c) \in States
<1>1. <<c>> \in Text
  BY TextIs DEF TextClosed
<1>2. Read(<<c>>, s) = ReadChar(s, c)
  BY ReadIs, Zenon DEF ReadsText
<1>3. ReadChar(s, c) \in States
  BY ReadCharTyped
<1> QED
  BY <1>1, <1>2, <1>3

BareText == Seq(Symbols \ Closing)

LEMMA BareTyped == ASSUME NEW t \in BareText PROVE t \in Text
<1>1. Symbols \ Closing \subseteq Symbols
  OBVIOUS
<1> QED
  BY <1>1, SeqMonotonic DEF BareText, Text

(* A text that the shell does not treat in any way goes on the word.       *)
LEMMA BareRead ==
    ASSUME NEW ws \in Words, NEW w \in Text, NEW t \in BareText
    PROVE  Read(t, St("bare", ws, w, TRUE)) = St("bare", ws, w \o t, TRUE)
<1> DEFINE D == Symbols \ Closing
           T == {u \in Seq(D) : Read(u, St("bare", ws, w, TRUE)) = St("bare", ws, w \o u, TRUE)}
<1>0. "bare" \in Modes
  BY DEF Modes
<1>1. <<>> \in T
  <2>1. w \o <<>> = w
    BY TextIs DEF TextNeutral
  <2>2. Read(<<>>, St("bare", ws, w, TRUE)) = St("bare", ws, w, TRUE)
    BY ReadIs DEF ReadsText
  <2>3. <<>> \in Seq(D)
    BY EmptySeq
  <2> QED
    BY <2>1, <2>2, <2>3
<1>2. ASSUME NEW u \in T, NEW c \in D PROVE u \o <<c>> \in T
  <2>1. u \in Seq(D) /\ Read(u, St("bare", ws, w, TRUE)) = St("bare", ws, w \o u, TRUE)
    OBVIOUS
  <2>2. u \in Text /\ c \in Symbols /\ <<c>> \in Text /\ St("bare", ws, w, TRUE) \in States
    BY <1>0, <2>1, BareTyped, TextIs, StIs DEF BareText, TextClosed
  <2> HIDE DEF T
  <2>3. Read(u \o <<c>>, St("bare", ws, w, TRUE)) = Read(<<c>>, St("bare", ws, w \o u, TRUE))
    <3> DEFINE one == <<c>>
               s == St("bare", ws, w, TRUE)
    <3> HIDE DEF one, s
    <3>1. one \in Text /\ s \in States /\ u \in Text
      BY <2>2 DEF one, s
    <3>2. Read(u \o one, s) = Read(one, Read(u, s))
      BY <3>1, ReadThen
    <3> QED
      BY <2>1, <3>2 DEF one, s
  <2>4. w \o u \in Text
    BY <2>2, TextIs, Zenon DEF TextClosed
  <2>5. St("bare", ws, w \o u, TRUE) \in States
    BY <1>0, <2>4, StIs
  <2>6. Read(<<c>>, St("bare", ws, w \o u, TRUE)) = St("bare", ws, (w \o u) \o <<c>>, TRUE)
    <3> DEFINE v == w \o u
    <3>1. v \in Text /\ St("bare", ws, v, TRUE) \in States /\ c \in Symbols \ Closing
      BY <2>4, <2>5
    <3> HIDE DEF v, D
    <3>2. ReadChar(St("bare", ws, v, TRUE), c) = St("bare", ws, v \o <<c>>, TRUE)
      BY <3>1, BareReads
    <3>3. Read(<<c>>, St("bare", ws, v, TRUE)) = ReadChar(St("bare", ws, v, TRUE), c)
      BY <2>2, <3>1, ReadIs, Zenon DEF ReadsText
    <3> QED
      BY <3>2, <3>3 DEF v
  <2>7. (w \o u) \o <<c>> = w \o (u \o <<c>>)
    <3>1. Same(w, u, <<c>>)
      BY <2>2, TextSame
    <3> QED
      BY <3>1, Zenon DEF Same
  <2>8. u \o <<c>> \in Seq(D)
    BY <2>1, Concats DEF Closed
  <2> QED
    BY <2>3, <2>6, <2>7, <2>8 DEF T
<1> HIDE DEF T
<1>3. T = Seq(D)
  <2>1. T \subseteq Seq(D)
    BY DEF T
  <2> QED
    BY <1>1, <1>2, <2>1, TextInduction
<1> QED
  BY <1>3 DEF T, BareText

Gaps == {Continue, <<"SP", "SP", "SP">>}

(* What stands between two arguments ends a word.                          *)
LEMMA GapRead ==
    ASSUME NEW gap \in Gaps, NEW ws \in Words, NEW w \in Text
    PROVE  /\ gap \in Text
           /\ Read(gap, St("bare", ws, w, TRUE)) = St("bare", Append(ws, w), <<>>, FALSE)
           /\ Read(gap, St("bare", ws, w, FALSE)) = St("bare", ws, w, FALSE)
<1>0. "SP" \in Symbols /\ "\\" \in Symbols /\ "NL" \in Symbols /\ "bare" \in Modes /\ "bare\\" \in Modes
  BY DEF Symbols, Chars, Modes
<1>1. Append(ws, w) \in Words /\ <<>> \in Text
  BY WordsAre, TextIs DEF WordsAppend, TextClosed
<1>2. ASSUME NEW vs \in Words, NEW v \in Text
      PROVE  /\ <<"SP", "SP">> \in Text /\ <<"\\", "NL">> \in Text /\ <<"SP">> \in Text
             /\ Read(<<"SP", "SP">>, St("bare", vs, v, FALSE)) = St("bare", vs, v, FALSE)
             /\ Read(<<"\\", "NL">>, St("bare", vs, v, FALSE)) = St("bare", vs, v, FALSE)
             /\ Read(<<"SP">>, St("bare", vs, v, TRUE)) = St("bare", Append(vs, v), <<>>, FALSE)
             /\ Read(<<"SP">>, St("bare", vs, v, FALSE)) = St("bare", vs, v, FALSE)
  <2> DEFINE s == St("bare", vs, v, FALSE)
             o == St("bare", vs, v, TRUE)
  <2>1. s \in States /\ o \in States
    BY <1>0, StIs
  <2>2. /\ ReadChar(s, "SP") = s
        /\ ReadChar(s, "\\") = St("bare\\", vs, v, FALSE)
        /\ ReadChar(St("bare\\", vs, v, FALSE), "NL") = s
        /\ ReadChar(o, "SP") = St("bare", Append(vs, v), <<>>, FALSE)
    BY BareReads
  <2> HIDE DEF s, o
  <2>3. <<"SP", "SP">> \in Text /\ Read(<<"SP", "SP">>, s) = ReadChar(ReadChar(s, "SP"), "SP")
    BY <1>0, <2>1, ReadTwo
  <2>4. <<"\\", "NL">> \in Text /\ Read(<<"\\", "NL">>, s) = ReadChar(ReadChar(s, "\\"), "NL")
    BY <1>0, <2>1, ReadTwo
  <2>5. <<"SP">> \in Text /\ Read(<<"SP">>, o) = ReadChar(o, "SP") /\ Read(<<"SP">>, s) = ReadChar(s, "SP")
    BY <1>0, <2>1, ReadChars
  <2> QED
    BY <2>2, <2>3, <2>4, <2>5 DEF s, o
<1> DEFINE one == <<"SP">>
           two == <<"SP", "SP">>
           line == <<"\\", "NL">>
<1>3. one \in Text /\ two \in Text /\ line \in Text
  BY <1>2
<1>4. /\ St("bare", ws, w, FALSE) \in States /\ St("bare", ws, w, TRUE) \in States
      /\ St("bare", Append(ws, w), <<>>, FALSE) \in States
  BY <1>0, <1>1, StIs
<1>5. /\ Read(one, St("bare", ws, w, TRUE)) = St("bare", Append(ws, w), <<>>, FALSE)
      /\ Read(one, St("bare", ws, w, FALSE)) = St("bare", ws, w, FALSE)
      /\ Read(two, St("bare", ws, w, FALSE)) = St("bare", ws, w, FALSE)
      /\ Read(line, St("bare", ws, w, FALSE)) = St("bare", ws, w, FALSE)
      /\ Read(two, St("bare", Append(ws, w), <<>>, FALSE)) = St("bare", Append(ws, w), <<>>, FALSE)
      /\ Read(line, St("bare", Append(ws, w), <<>>, FALSE)) = St("bare", Append(ws, w), <<>>, FALSE)
  BY <1>1, <1>2
<1>6. Continue = one \o (line \o two) /\ <<"SP", "SP", "SP">> = one \o two
  BY ThreeBlanks, NewLine, ContinueIs, Zenon DEF Continue
<1> HIDE DEF one, two, line
<1>7. CASE gap = <<"SP", "SP", "SP">>
  <2>1. \A s \in States : Read(one \o two, s) = Read(two, Read(one, s))
    BY <1>3, ReadThen
  <2>2. one \o two \in Text
    BY <1>3, TextIs, Zenon DEF TextClosed
  <2>3. gap = one \o two
    BY <1>6, <1>7
  <2> QED
    BY <1>4, <1>5, <2>1, <2>2, <2>3
<1>8. CASE gap = Continue
  <2>1. line \o two \in Text /\ one \o (line \o two) \in Text
    BY <1>3, TextIs, Zenon DEF TextClosed
  <2>2. \A s \in States : Read(one \o (line \o two), s) = Read(two, Read(line, Read(one, s)))
    BY <1>3, <2>1, ReadThen
  <2> QED
    BY <1>4, <1>5, <1>6, <1>8, <2>1, <2>2
<1> QED
  BY <1>7, <1>8 DEF Gaps

(* An escaping, and the state it reads to.                                 *)
LEMMA SpellIs ==
    ASSUME NEW t \in Text
    PROVE  /\ Spell(t, EscapeQuote) = SpellBy([c \in Symbols |-> EscapeQuote(c)], t)
           /\ Spell(t, EscapeDouble) = SpellBy([c \in Symbols |-> EscapeDouble(c)], t)
           /\ Spell(t, EscapeJson) = SpellBy([c \in Symbols |-> EscapeJson(c)], t)
<1>1. \A i \in DOMAIN t : t[i] \in Symbols
  BY DEF Text
<1>2. Spell(t, EscapeQuote) = SpellBy([c \in Symbols |-> EscapeQuote(c)], t)
  <2>1. [i \in DOMAIN t |-> EscapeQuote(t[i])] = [i \in DOMAIN t |-> [c \in Symbols |-> EscapeQuote(c)][t[i]]]
    BY <1>1
  <2> QED
    BY <2>1 DEF Spell, SpellBy
<1>3. Spell(t, EscapeDouble) = SpellBy([c \in Symbols |-> EscapeDouble(c)], t)
  <2>1. [i \in DOMAIN t |-> EscapeDouble(t[i])] = [i \in DOMAIN t |-> [c \in Symbols |-> EscapeDouble(c)][t[i]]]
    BY <1>1
  <2> QED
    BY <2>1 DEF Spell, SpellBy
<1>4. Spell(t, EscapeJson) = SpellBy([c \in Symbols |-> EscapeJson(c)], t)
  <2>1. [i \in DOMAIN t |-> EscapeJson(t[i])] = [i \in DOMAIN t |-> [c \in Symbols |-> EscapeJson(c)][t[i]]]
    BY <1>1
  <2> QED
    BY <2>1 DEF Spell, SpellBy
<1> QED
  BY <1>2, <1>3, <1>4

LEMMA SingleQuote == <<"'", "\\", "'", "'">> = <<"'", "\\">> \o <<"'", "'">>
  OBVIOUS

LEMMA EscapesTyped ==
    ASSUME NEW c \in Symbols
    PROVE  EscapeQuote(c) \in Text /\ EscapeDouble(c) \in Text /\ EscapeJson(c) \in Text
<1>0. "'" \in Symbols /\ "\\" \in Symbols /\ "n" \in Symbols
  BY DEF Symbols, Chars, Plain
<1>1. \A a, b \in Symbols : <<a, b>> \in Text
  BY TextIs, Pair DEF TextClosed
<1>2. <<c>> \in Text
  BY TextIs DEF TextClosed
<1>3. <<"'", "\\">> \o <<"'", "'">> \in Text
  BY <1>0, <1>1, TextIs DEF TextClosed
<1>4. EscapeQuote(c) \in Text
  BY <1>2, <1>3, SingleQuote, Zenon DEF EscapeQuote
<1>5. EscapeDouble(c) \in Text
  BY <1>0, <1>1, <1>2 DEF EscapeDouble
<1>6. EscapeJson(c) \in Text
  BY <1>0, <1>1, <1>2 DEF EscapeJson
<1> QED
  BY <1>4, <1>5, <1>6

(* What a state stands for a text, so far.                                 *)
LEMMA SpellRead ==
    ASSUME NEW e, NEW out, Spelling(e, Symbols, Symbols), Reads(Reader, e, out, Symbols, States),
           NEW t \in Text
    PROVE  SpellBy(e, t) \in Text /\ Read(SpellBy(e, t), out[<<>>]) = out[t]
<1>1. SpellBy(e, t) \in Text
  BY SpellTyped DEF Text
<1>2. Stepper(Reader, States, Symbols)
  BY ReaderIs
<1>3. \A u \in Seq(Symbols) : Fold(Reader, SpellBy(e, u), out[<<>>]) = out[u]
  BY <1>2, FoldSpell
<1> QED
  BY <1>1, <1>3 DEF Read, Text

LEMMA QuoteSpelled ==
    ASSUME NEW t \in Text, NEW ws \in Words
    PROVE  /\ Spell(t, EscapeQuote) \in Text
           /\ Read(Spell(t, EscapeQuote), St("single", ws, <<>>, TRUE)) = St("single", ws, t, TRUE)
<1> DEFINE e == [c \in Symbols |-> EscapeQuote(c)]
           out == [u \in Text |-> St("single", ws, u, TRUE)]
<1>0. "'" \in Symbols /\ "\\" \in Symbols /\ "bare" \in Modes /\ "bare\\" \in Modes /\ "single" \in Modes
  BY DEF Symbols, Chars, Modes
<1>1. Spelling(e, Symbols, Symbols)
  BY EscapesTyped DEF Spelling, Text
<1>2. ASSUME NEW u \in Text, NEW c \in Symbols
      PROVE  out[u] \in States /\ Read(e[c], out[u]) = out[u \o <<c>>]
  <2>1. out[u] = St("single", ws, u, TRUE) /\ out[u] \in States
    BY <1>0, StIs
  <2>2. u \o <<c>> \in Text
    BY TextIs DEF TextClosed
  <2>3. out[u \o <<c>>] = St("single", ws, u \o <<c>>, TRUE)
    BY <2>2
  <2>4. CASE c # "'"
    <3>1. e[c] = <<c>>
      BY <2>4 DEF EscapeQuote
    <3>2. Read(<<c>>, St("single", ws, u, TRUE)) = ReadChar(St("single", ws, u, TRUE), c)
      BY <2>1, ReadChars
    <3>3. ReadChar(St("single", ws, u, TRUE), c) = St("single", ws, u \o <<c>>, TRUE)
      <4>1. \A d \in Symbols \ {"'"} :
                ReadChar(St("single", ws, u, TRUE), d) = St("single", ws, u \o <<d>>, TRUE)
        BY QuoteReads
      <4> QED
        BY <2>4, <4>1
    <3> HIDE DEF e, out
    <3> QED
      BY <2>1, <2>3, <3>1, <3>2, <3>3
  <2>5. CASE c = "'"
    <3> DEFINE a == <<"'", "\\">>
               b == <<"'", "'">>
               s1 == St("bare", ws, u, TRUE)
               s2 == St("bare\\", ws, u, TRUE)
               s3 == St("bare", ws, u \o <<c>>, TRUE)
    <3>1. e[c] = a \o b
      BY <2>5, SingleQuote, Zenon DEF EscapeQuote
    <3>2. /\ ReadChar(out[u], "'") = s1 /\ ReadChar(s1, "\\") = s2
          /\ ReadChar(s2, "'") = s3 /\ ReadChar(s3, "'") = out[u \o <<c>>]
      <4>1. ReadChar(out[u], "'") = s1
        BY <2>1, QuoteReads
      <4>2. ReadChar(s1, "\\") = s2
        BY BareReads
      <4>3. ReadChar(s2, "'") = s3
        <5>1. \A d \in Symbols \ {"NL"} : ReadChar(s2, d) = St("bare", ws, u \o <<d>>, TRUE)
          BY BareReads
        <5>2. "'" \in Symbols \ {"NL"}
          BY <1>0
        <5> QED
          BY <2>5, <5>1, <5>2
      <4>4. ReadChar(s3, "'") = out[u \o <<c>>]
        BY <2>2, <2>3, BareReads
      <4> QED
        BY <4>1, <4>2, <4>3, <4>4
    <3>3. s1 \in States /\ s2 \in States /\ s3 \in States
      BY <1>0, <2>2, StIs
    <3> HIDE DEF s1, s2, s3, e, out
    <3>4. a \in Text /\ Read(a, out[u]) = s2
      BY <1>0, <2>1, <3>2, <3>3, ReadTwo
    <3>5. b \in Text /\ Read(b, s2) = out[u \o <<c>>]
      BY <1>0, <3>2, <3>3, ReadTwo
    <3> HIDE DEF a, b
    <3>6. Read(a \o b, out[u]) = Read(b, Read(a, out[u]))
      BY <2>1, <3>4, <3>5, ReadThen
    <3> QED
      BY <2>1, <3>1, <3>4, <3>5, <3>6
  <2> QED
    BY <2>1, <2>4, <2>5
<1> HIDE DEF e, out
<1>3. Reads(Reader, e, out, Symbols, States)
  <2>1. ASSUME NEW u \in Text PROVE out[u] \in States
    <3>1. "a" \in Symbols
      BY DEF Symbols, Plain
    <3> QED
      BY <1>2, <3>1
  <2>2. ASSUME NEW u \in Text, NEW c \in Symbols PROVE Fold(Reader, e[c], out[u]) = out[u \o <<c>>]
    BY <1>2, Zenon DEF Read
  <2>3. \A u \in Text : out[u] \in States /\ \A c \in Symbols : Fold(Reader, e[c], out[u]) = out[u \o <<c>>]
    BY <2>1, <2>2, Zenon
  <2> QED
    BY <2>3, Zenon DEF Reads, Text
<1>4. SpellBy(e, t) \in Text /\ Read(SpellBy(e, t), out[<<>>]) = out[t]
  BY <1>1, <1>3, SpellRead
<1>5. out[<<>>] = St("single", ws, <<>>, TRUE) /\ out[t] = St("single", ws, t, TRUE)
  BY TextIs DEF out, TextClosed
<1>6. Spell(t, EscapeQuote) = SpellBy(e, t)
  BY SpellIs DEF e
<1> QED
  BY <1>4, <1>5, <1>6

LEMMA DoubleSpelled ==
    ASSUME NEW t \in Text, NEW ws \in Words, NEW w \in Text
    PROVE  /\ Spell(t, EscapeDouble) \in Text
           /\ Read(Spell(t, EscapeDouble), St("double", ws, w, TRUE)) = St("double", ws, w \o t, TRUE)
<1> DEFINE e == [c \in Symbols |-> EscapeDouble(c)]
           out == [u \in Text |-> St("double", ws, w \o u, TRUE)]
<1>0. "\\" \in Symbols /\ "double" \in Modes /\ "double\\" \in Modes
  BY DEF Symbols, Chars, Modes
<1>1. Spelling(e, Symbols, Symbols)
  BY EscapesTyped DEF Spelling, Text
<1>2. ASSUME NEW u \in Text, NEW c \in Symbols
      PROVE  out[u] \in States /\ Read(e[c], out[u]) = out[u \o <<c>>]
  <2>0. w \o u \in Text /\ u \o <<c>> \in Text /\ <<c>> \in Text
    BY TextIs DEF TextClosed
  <2>1. out[u] = St("double", ws, w \o u, TRUE) /\ out[u] \in States
    BY <1>0, <2>0, StIs
  <2>2. w \o (u \o <<c>>) = (w \o u) \o <<c>>
    <3> DEFINE one == <<c>>
    <3> HIDE DEF one
    <3>0. one \in Text /\ u \in Text /\ w \in Text
      BY <2>0 DEF one
    <3>1. w \o (u \o one) = (w \o u) \o one
      <4>1. TextAssoc
        BY TextIs
      <4> QED
        BY <3>0, <4>1, Zenon DEF TextAssoc
    <3> QED
      BY <3>1 DEF one
  <2>3. out[u \o <<c>>] = St("double", ws, (w \o u) \o <<c>>, TRUE)
    BY <2>0, <2>2
  <2>4. CASE c \notin {"$", "DQ", "\\"}
    <3>1. e[c] = <<c>>
      BY <2>4 DEF EscapeDouble
    <3> HIDE DEF e, out
    <3>2. Read(<<c>>, out[u]) = ReadChar(out[u], c)
      BY <2>1, ReadChars
    <3>3. ReadChar(out[u], c) = out[u \o <<c>>]
      <4> DEFINE v == w \o u
      <4> HIDE DEF v
      <4>1. \A d \in Symbols \ {"DQ", "\\", "$"} :
                ReadChar(St("double", ws, v, TRUE), d) = St("double", ws, v \o <<d>>, TRUE)
        BY <2>0, QuoteReads DEF v
      <4> QED
        BY <2>1, <2>3, <2>4, <4>1 DEF v
    <3> QED
      BY <2>1, <3>1, <3>2, <3>3
  <2>5. CASE c \in {"$", "DQ", "\\"}
    <3> DEFINE s == St("double\\", ws, w \o u, TRUE)
    <3>1. e[c] = <<"\\", c>>
      BY <2>5 DEF EscapeDouble
    <3> HIDE DEF e, out
    <3>2. ReadChar(out[u], "\\") = s
      <4> DEFINE v == w \o u
      <4>1. v \in Text
        BY <2>0
      <4> HIDE DEF v
      <4>2. ReadChar(St("double", ws, v, TRUE), "\\") = St("double\\", ws, v, TRUE)
        BY <4>1, QuoteReads
      <4> QED
        BY <2>1, <4>2 DEF v
    <3>3. ReadChar(s, c) = out[u \o <<c>>]
      <4> DEFINE v == w \o u
      <4>1. v \in Text /\ c \in Symbols
        BY <2>0
      <4> HIDE DEF v
      <4>2. ReadChar(St("double\\", ws, v, TRUE), c) = St("double", ws, v \o <<c>>, TRUE)
        BY <2>5, <4>1, QuoteReads
      <4> QED
        BY <2>3, <4>2 DEF v
    <3> HIDE DEF s
    <3> QED
      BY <1>0, <2>1, <3>1, <3>2, <3>3, ReadTwo
  <2> QED
    BY <2>1, <2>4, <2>5
<1> HIDE DEF e, out
<1>3. Reads(Reader, e, out, Symbols, States)
  <2>1. ASSUME NEW u \in Text PROVE out[u] \in States
    <3>1. "a" \in Symbols
      BY DEF Symbols, Plain
    <3> QED
      BY <1>2, <3>1
  <2>2. ASSUME NEW u \in Text, NEW c \in Symbols PROVE Fold(Reader, e[c], out[u]) = out[u \o <<c>>]
    BY <1>2, Zenon DEF Read
  <2>3. \A u \in Text : out[u] \in States /\ \A c \in Symbols : Fold(Reader, e[c], out[u]) = out[u \o <<c>>]
    BY <2>1, <2>2, Zenon
  <2> QED
    BY <2>3, Zenon DEF Reads, Text
<1>4. SpellBy(e, t) \in Text /\ Read(SpellBy(e, t), out[<<>>]) = out[t]
  BY <1>1, <1>3, SpellRead
<1>5. out[<<>>] = St("double", ws, w, TRUE) /\ out[t] = St("double", ws, w \o t, TRUE)
  <2>1. w \o <<>> = w /\ <<>> \in Text
    BY TextIs DEF TextClosed, TextNeutral
  <2> QED
    BY <2>1 DEF out
<1>6. Spell(t, EscapeDouble) = SpellBy(e, t)
  BY SpellIs DEF e
<1> QED
  BY <1>4, <1>5, <1>6

-----------------------------------------------------------------------------
(* An argument of the command is read as a flag and a value.               *)

(* The shell reads a as the two words f and v, and is still on the second. *)
Argument(a, f, v) ==
    /\ a \in Text /\ f \in Text /\ v \in Text
    /\ \A ws \in Words : Read(a, St("bare", ws, <<>>, FALSE)) = St("bare", Append(ws, f), v, TRUE)

LEMMA EmptyStates ==
    ASSUME NEW ws \in Words
    PROVE  /\ <<>> \in Text
           /\ St("bare", ws, <<>>, FALSE) \in States
           /\ St("bare", ws, <<>>, TRUE) \in States
           /\ St("single", ws, <<>>, TRUE) \in States
           /\ St("double", ws, <<>>, TRUE) \in States
<1>1. <<>> \in Text /\ "bare" \in Modes /\ "single" \in Modes /\ "double" \in Modes
  BY TextIs DEF TextClosed, Modes
<1> QED
  BY <1>1, StIs

LEMMA FlagRead ==
    ASSUME NEW f \in Symbols \ Closing, NEW ws \in Words
    PROVE  /\ <<f, "SP">> \in Text /\ <<f>> \in Text /\ Append(ws, <<f>>) \in Words
           /\ Read(<<f, "SP">>, St("bare", ws, <<>>, FALSE)) = St("bare", Append(ws, <<f>>), <<>>, FALSE)
<1> DEFINE s == St("bare", ws, <<>>, FALSE)
           w == <<f>>
           r == St("bare", ws, w, TRUE)
<1>1. "SP" \in Symbols /\ <<>> \in Text /\ s \in States /\ w \in Text /\ <<>> \o w = w /\ "bare" \in Modes
  BY EmptyStates, TextIs DEF Symbols, Chars, TextClosed, TextNeutral, Modes
<1>2. ReadChar(s, f) = St("bare", ws, <<>> \o w, TRUE)
  BY <1>1, BareReads
<1>3. ReadChar(s, f) = r
  BY <1>1, <1>2
<1> HIDE DEF w
<1>4. ReadChar(r, "SP") = St("bare", Append(ws, w), <<>>, FALSE) /\ Append(ws, w) \in Words
  BY <1>1, BareReads, WordsAre DEF WordsAppend
<1> HIDE DEF s, r
<1>5. <<f, "SP">> \in Text /\ Read(<<f, "SP">>, s) = ReadChar(ReadChar(s, f), "SP")
  BY <1>1, ReadTwo
<1> QED
  BY <1>1, <1>3, <1>4, <1>5 DEF s, w

LEMMA QuoteRead ==
    ASSUME NEW t \in Text, NEW ws \in Words
    PROVE  /\ ShQuote(t) \in Text
           /\ Read(ShQuote(t), St("bare", ws, <<>>, FALSE)) = St("bare", ws, t, TRUE)
<1> DEFINE q == <<"'">>
           m == Spell(t, EscapeQuote)
           s == St("bare", ws, <<>>, FALSE)
           r == St("single", ws, <<>>, TRUE)
           z == St("single", ws, t, TRUE)
<1>1. "'" \in Symbols /\ s \in States /\ r \in States /\ z \in States /\ <<>> \in Text
  <2>1. "single" \in Modes /\ "'" \in Symbols
    BY DEF Modes, Symbols, Chars
  <2> QED
    BY <2>1, EmptyStates, StIs
<1>2. m \in Text /\ Read(m, r) = z
  BY QuoteSpelled
<1>3. ReadChar(s, "'") = r
  BY <1>1, BareReads
<1>4. ReadChar(z, "'") = St("bare", ws, t, TRUE)
  BY QuoteReads
<1>5. ShQuote(t) = (q \o m) \o q
  <2>1. ShQuote(t) = <<"'">> \o Spell(t, EscapeQuote) \o <<"'">>
    BY DEF ShQuote
  <2> QED
    BY <2>1
<1> HIDE DEF m, s, r, z
<1>6. q \in Text /\ Read(q, s) = r /\ Read(q, z) = St("bare", ws, t, TRUE)
  BY <1>1, <1>3, <1>4, ReadChars
<1> HIDE DEF q
<1>7. q \o m \in Text /\ Read(q \o m, s) = z
  BY <1>1, <1>2, <1>6, ReadThen
<1>8. (q \o m) \o q \in Text /\ Read((q \o m) \o q, s) = St("bare", ws, t, TRUE)
  BY <1>1, <1>6, <1>7, ReadThen
<1> QED
  BY <1>5, <1>8 DEF s

LEMMA QuotedArgument ==
    ASSUME NEW f \in Symbols \ Closing, NEW t \in Text
    PROVE  Argument(<<f, "SP">> \o ShQuote(t), <<f>>, t)
<1> DEFINE a == <<f, "SP">>
           b == ShQuote(t)
           w == <<f>>
<1>1. ASSUME NEW ws \in Words
      PROVE  /\ a \in Text /\ b \in Text /\ w \in Text /\ Append(ws, w) \in Words
             /\ Read(a, St("bare", ws, <<>>, FALSE)) = St("bare", Append(ws, w), <<>>, FALSE)
             /\ Read(b, St("bare", Append(ws, w), <<>>, FALSE)) = St("bare", Append(ws, w), t, TRUE)
             /\ St("bare", ws, <<>>, FALSE) \in States
  <2>1. Append(ws, w) \in Words /\ a \in Text /\ w \in Text
    BY FlagRead
  <2>2. Read(a, St("bare", ws, <<>>, FALSE)) = St("bare", Append(ws, w), <<>>, FALSE)
    BY FlagRead
  <2> HIDE DEF a, b, w
  <2>3. Read(b, St("bare", Append(ws, w), <<>>, FALSE)) = St("bare", Append(ws, w), t, TRUE) /\ b \in Text
    BY <2>1, QuoteRead DEF b
  <2> QED
    BY <2>1, <2>2, <2>3, EmptyStates
<1> HIDE DEF a, b, w
<1>2. <<>> \in Words
  BY WordsAre DEF WordsAppend
<1>3. a \in Text /\ b \in Text /\ w \in Text
  BY <1>1, <1>2
<1>4. a \o b \in Text
  BY <1>3, TextIs, Zenon DEF TextClosed
<1>5. ASSUME NEW ws \in Words
      PROVE  Read(a \o b, St("bare", ws, <<>>, FALSE)) = St("bare", Append(ws, w), t, TRUE)
  <2> DEFINE s == St("bare", ws, <<>>, FALSE)
  <2>1. s \in States /\ a \in Text /\ b \in Text
    BY <1>1, <1>3
  <2>2. Read(b, Read(a, s)) = St("bare", Append(ws, w), t, TRUE)
    BY <1>1
  <2> HIDE DEF s
  <2>3. Read(a \o b, s) = Read(b, Read(a, s))
    BY <2>1, ReadThen
  <2> QED
    BY <2>2, <2>3 DEF s
<1> QED
  BY <1>3, <1>4, <1>5 DEF Argument, a, b, w

(* A flag's value that stands unquoted.                                    *)
LEMMA BareArgument ==
    ASSUME NEW f \in Symbols \ Closing, NEW k \in Symbols \ Closing, NEW t \in BareText
    PROVE  Argument(<<f, "SP">> \o (<<k, "=">> \o t), <<f>>, <<k, "=">> \o t)
<1> DEFINE a == <<f, "SP">>
           b == <<k>>
           e == <<"=">>
           w == <<f>>
           v == (b \o e) \o t
<1>0. "=" \in Symbols \ Closing /\ k \in Symbols
  BY DEF Symbols, OtherSymbols, Closing
<1>1. b \in Text /\ e \in BareText /\ e \in Text /\ t \in Text
  <2>1. e \in BareText
    BY <1>0, Concats DEF BareText, Closed
  <2> QED
    BY <1>0, <2>1, BareTyped, TextIs DEF TextClosed
<1>2. b \o e \in Text /\ (b \o e) \o t \in Text /\ (b \o e) \o t = b \o (e \o t) /\ e \o t \in Text
  <2> HIDE DEF b, e
  <2>1. b \o e \in Text /\ e \o t \in Text
    BY <1>1, TextIs, Zenon DEF TextClosed
  <2>2. (b \o e) \o t \in Text
    BY <1>1, <2>1, TextIs, Zenon DEF TextClosed
  <2>3. (b \o e) \o t = b \o (e \o t)
    <3>1. Same(b, e, t)
      BY <1>1, TextSame
    <3> QED
      BY <3>1, Zenon DEF Same
  <2> QED
    BY <2>1, <2>2, <2>3
<1>3. ASSUME NEW ws \in Words
      PROVE  /\ a \in Text /\ w \in Text /\ Append(ws, w) \in Words
             /\ Read(a, St("bare", ws, <<>>, FALSE)) = St("bare", Append(ws, w), <<>>, FALSE)
             /\ Read(v, St("bare", Append(ws, w), <<>>, FALSE)) = St("bare", Append(ws, w), v, TRUE)
             /\ St("bare", ws, <<>>, FALSE) \in States
  <2>1. Append(ws, w) \in Words /\ a \in Text /\ w \in Text
    BY FlagRead
  <2>2. Read(a, St("bare", ws, <<>>, FALSE)) = St("bare", Append(ws, w), <<>>, FALSE)
    BY FlagRead
  <2> DEFINE vs == Append(ws, w)
             s == St("bare", vs, <<>>, FALSE)
  <2>3. vs \in Words /\ s \in States
    BY <2>1, EmptyStates
  <2> HIDE DEF vs, w, a
  <2>4. Read(b, s) = St("bare", vs, b, TRUE)
    <3>1. <<>> \in Text /\ <<>> \o b = b
      BY <1>1, TextIs DEF TextClosed, TextNeutral
    <3>2. ReadChar(s, k) = St("bare", vs, <<>> \o b, TRUE)
      BY <2>3, <3>1, BareReads
    <3> QED
      BY <1>0, <2>3, <3>1, <3>2, ReadChars
  <2> HIDE DEF b, e
  <2>5. St("bare", vs, b, TRUE) \in States
    BY <1>1, <2>3, StIs DEF Modes
  <2>6. Read(e, St("bare", vs, b, TRUE)) = St("bare", vs, b \o e, TRUE)
    BY <1>1, <2>3, BareRead
  <2>7. Read(t, St("bare", vs, b \o e, TRUE)) = St("bare", vs, (b \o e) \o t, TRUE)
    BY <1>2, <2>3, BareRead
  <2>8. Read(b \o e, s) = St("bare", vs, b \o e, TRUE)
    <3>1. Read(b \o e, s) = Read(e, Read(b, s))
      <4> HIDE DEF s
      <4> QED
        BY <1>1, <2>3, ReadThen
    <3> QED
      BY <2>4, <2>6, <3>1
  <2>9. Read((b \o e) \o t, s) = St("bare", vs, (b \o e) \o t, TRUE)
    <3> DEFINE x == b \o e
    <3>1. x \in Text /\ t \in Text /\ s \in States
      BY <1>1, <1>2, <2>3
    <3> HIDE DEF s, x
    <3>2. Read(x \o t, s) = Read(t, Read(x, s))
      BY <3>1, ReadThen
    <3> QED
      BY <2>7, <2>8, <3>2 DEF x
  <2> QED
    BY <2>1, <2>2, <2>9, EmptyStates DEF vs
<1>4. v = <<k, "=">> \o t
  BY Pair
<1> HIDE DEF a, w, v
<1>5. <<>> \in Words
  BY WordsAre DEF WordsAppend
<1>6. a \in Text /\ v \in Text /\ w \in Text
  BY <1>2, <1>3, <1>5 DEF v
<1>7. a \o v \in Text
  BY <1>6, TextIs, Zenon DEF TextClosed
<1>8. ASSUME NEW ws \in Words
      PROVE  Read(a \o v, St("bare", ws, <<>>, FALSE)) = St("bare", Append(ws, w), v, TRUE)
  <2> DEFINE s == St("bare", ws, <<>>, FALSE)
  <2>1. s \in States /\ a \in Text /\ v \in Text
    BY <1>3, <1>6
  <2>2. Read(v, Read(a, s)) = St("bare", Append(ws, w), v, TRUE)
    BY <1>3
  <2> HIDE DEF s
  <2>3. Read(a \o v, s) = Read(v, Read(a, s))
    BY <2>1, ReadThen
  <2> QED
    BY <2>2, <2>3 DEF s
<1>9. Argument(a \o v, w, v)
  BY <1>6, <1>7, <1>8 DEF Argument
<1> QED
  BY <1>4, <1>9 DEF a, w

Spelled(part) == part.value \in Text /\ (part.bare => part.value \in BareText)
LEMMA SetArgument ==
    ASSUME NEW part, Spelled(part), NEW key \in {"k", "l"}
    PROVE  /\ Argument(EncodeSet(key, part), <<"--set">>, SetArg(key, part))
           /\ SetArg(key, part) = <<key, "=">> \o part.value
<1>1. key \in Symbols \ Closing /\ "--set" \in Symbols \ Closing /\ key \in Symbols /\ "=" \in Symbols
  BY DEF Symbols, OtherSymbols, Closing
<1>2. SetArg(key, part) = <<key, "=">> \o part.value
  BY DEF SetArg
<1>3. CASE part.bare
  <2>1. EncodeSet(key, part) = <<"--set", "SP">> \o SetArg(key, part)
    BY <1>3 DEF EncodeSet
  <2> DEFINE v == part.value
  <2>2. v \in BareText
    BY <1>3 DEF Spelled
  <2> HIDE DEF v
  <2>3. Argument(<<"--set", "SP">> \o (<<key, "=">> \o v), <<"--set">>, <<key, "=">> \o v)
    BY <1>1, <2>2, BareArgument
  <2> QED
    BY <1>2, <2>1, <2>3 DEF v
<1>4. CASE ~part.bare
  <2>1. EncodeSet(key, part) = <<"--set", "SP">> \o ShQuote(SetArg(key, part))
    BY <1>4 DEF EncodeSet
  <2>2. SetArg(key, part) \in Text
    <3> DEFINE a == <<key, "=">>
               b == part.value
    <3>1. a \in Text /\ b \in Text
      BY <1>1, ReadTwo, EmptyStates, WordsAre DEF Spelled, WordsAppend
    <3> HIDE DEF a, b
    <3>2. a \o b \in Text
      BY <3>1, TextIs, Zenon DEF TextClosed
    <3> QED
      BY <1>2, <3>2 DEF a, b
  <2>3. Argument(<<"--set", "SP">> \o ShQuote(SetArg(key, part)), <<"--set">>, SetArg(key, part))
    BY <1>1, <2>2, QuotedArgument
  <2> QED
    BY <1>2, <2>1, <2>3
<1> QED
  BY <1>3, <1>4

-----------------------------------------------------------------------------
(* A line of arguments, each behind a blank or a continuation.             *)

LEMMA Snoc3 == ASSUME NEW a, NEW b, NEW c PROVE <<a, b, c>> = <<a, b>> \o <<c>>
  OBVIOUS
LEMMA Snoc4 == ASSUME NEW a, NEW b, NEW c, NEW d PROVE <<a, b, c, d>> = <<a, b, c>> \o <<d>>
  OBVIOUS
IsSnoc5(a, b, c, d, e) == <<a, b, c, d, e>> = <<a, b, c, d>> \o <<e>>
IsFive(a, b, c, d, e) == <<a, b, c, d, e>> = (<<a>> \o <<b, c>>) \o <<d, e>>
LEMMA Five == \A a, b, c, d, e : IsSnoc5(a, b, c, d, e) /\ IsFive(a, b, c, d, e)
<1> SUFFICES ASSUME NEW a, NEW b, NEW c, NEW d, NEW e
             PROVE  IsSnoc5(a, b, c, d, e) /\ IsFive(a, b, c, d, e)
  OBVIOUS
<1>1. IsSnoc5(a, b, c, d, e)
  BY DEF IsSnoc5
<1>2. IsFive(a, b, c, d, e)
  BY DEF IsFive
<1> QED
  BY <1>1, <1>2
LEMMA Map2 == ASSUME NEW f, NEW a, NEW b PROVE [i \in DOMAIN <<a, b>> |-> f[i]] = <<f[1], f[2]>>
  OBVIOUS
LEMMA Map5 ==
    ASSUME NEW f, NEW a, NEW b, NEW c, NEW d, NEW e
    PROVE  [i \in DOMAIN <<a, b, c, d, e>> |-> f[i]] = <<f[1], f[2], f[3], f[4], f[5]>>
  OBVIOUS

LEMMA FlattenFive ==
    ASSUME NEW a \in Text, NEW b \in Text, NEW c \in Text, NEW d \in Text, NEW e \in Text
    PROVE  /\ FlattenSeq(<<a, b, c, d, e>>) = (((a \o b) \o c) \o d) \o e
           /\ FlattenSeq(<<a, b, c, d, e>>) \in Text
<1>1. /\ <<a>> \in Words /\ <<a, b>> \in Words /\ <<a, b, c>> \in Words /\ <<a, b, c, d>> \in Words
      /\ <<a, b, c, d, e>> \in Words
  BY DEF Words
<1>2. FlattenSeq(<<a>>) = a
  BY FlattenOne DEF Text
<1> DEFINE A1 == <<a>>
           A2 == <<a, b>>
           A3 == <<a, b, c>>
           A4 == <<a, b, c, d>>
           A5 == <<a, b, c, d, e>>
<1>3. A2 = A1 \o <<b>> /\ A3 = A2 \o <<c>> /\ A4 = A3 \o <<d>> /\ A5 = A4 \o <<e>>
  <2>1. A2 = A1 \o <<b>>
    BY Pair, Zenon
  <2>2. A3 = A2 \o <<c>>
    BY Snoc3, Zenon
  <2>3. A4 = A3 \o <<d>>
    BY Snoc4, Zenon
  <2>4. A5 = A4 \o <<e>>
    <3>1. IsSnoc5(a, b, c, d, e)
      BY Five
    <3> QED
      BY <3>1, Zenon DEF IsSnoc5
  <2> QED
    BY <2>1, <2>2, <2>3, <2>4
<1>4. FlattenSeq(A5) \in Text
  BY <1>1, FlattenTyped DEF Words, Text
<1> HIDE DEF A1, A2, A3, A4, A5
<1>5. ASSUME NEW ls \in Words, NEW x \in Text PROVE FlattenSeq(ls \o <<x>>) = FlattenSeq(ls) \o x
  BY FlattenSnoc DEF Words, Text
<1>6. /\ FlattenSeq(A2) = FlattenSeq(A1) \o b /\ FlattenSeq(A3) = FlattenSeq(A2) \o c
      /\ FlattenSeq(A4) = FlattenSeq(A3) \o d /\ FlattenSeq(A5) = FlattenSeq(A4) \o e
  <2>1. A1 \in Words /\ A2 \in Words /\ A3 \in Words /\ A4 \in Words
    BY <1>1 DEF A1, A2, A3, A4
  <2> QED
    BY <1>3, <1>5, <2>1
<1> QED
  BY <1>2, <1>4, <1>6 DEF A1, A5

(* What the form's argument list is, in one piece.                         *)
Arg(raw, kind) ==
    <<(<<"--data-dir", "SP">> \o ShQuote(DataDir)),
      EncodeSet("k", Sent(raw, kind)[1]), EncodeSet("l", Sent(raw, kind)[2]),
      <<"--publish", "SP">> \o ShQuote(Publish[1]), <<"--profile", "SP">> \o ShQuote(Publish[2])>>

LEMMA CopiedIs ==
    ASSUME NEW raw, NEW kind
    PROVE  Copied(raw, kind) = <<Name, "SP", "--">> \o FlattenSeq([i \in DOMAIN Arg(raw, kind) |-> Continue \o Arg(raw, kind)[i]])
<1> DEFINE parts == Sent(raw, kind)
           sets == [i \in DOMAIN parts |-> EncodeSet(Keys[i], parts[i])]
           to == [i \in DOMAIN Publish |-> <<(<<"--publish", "--profile">>)[i], "SP">> \o ShQuote(Publish[i])]
           first == <<(<<"--data-dir", "SP">> \o ShQuote(DataDir))>>
           all == first \o sets \o to
<1>1. sets = <<EncodeSet("k", parts[1]), EncodeSet("l", parts[2])>>
  <2> DEFINE a == parts[1]
             b == parts[2]
  <2>1. parts = <<a, b>>
    BY DEF Sent
  <2> HIDE DEF parts, a, b
  <2>2. [i \in DOMAIN <<a, b>> |-> EncodeSet(Keys[i], parts[i])] = <<EncodeSet(Keys[1], parts[1]), EncodeSet(Keys[2], parts[2])>>
    OBVIOUS
  <2>3. Keys[1] = "k" /\ Keys[2] = "l"
    BY DEF Keys
  <2> QED
    BY <2>1, <2>2, <2>3
<1>2. to = <<(<<"--publish", "SP">> \o ShQuote(Publish[1])), <<"--profile", "SP">> \o ShQuote(Publish[2])>>
  <2> DEFINE a == Publish[1]
             b == Publish[2]
             n == <<"--publish", "--profile">>
  <2>1. Publish = <<a, b>>
    BY DEF Publish
  <2>2. n[1] = "--publish" /\ n[2] = "--profile"
    OBVIOUS
  <2> HIDE DEF a, b, n
  <2>3. [i \in DOMAIN <<a, b>> |-> <<n[i], "SP">> \o ShQuote(Publish[i])]
            = <<(<<n[1], "SP">> \o ShQuote(Publish[1])), <<n[2], "SP">> \o ShQuote(Publish[2])>>
    OBVIOUS
  <2> QED
    BY <2>1, <2>2, <2>3 DEF n
<1>3. Copied(raw, kind) = <<Name, "SP", "--">> \o FlattenSeq([i \in DOMAIN all |-> Continue \o all[i]])
  BY DEF Copied, BuildCmd
<1>4. all = Arg(raw, kind)
  <2> DEFINE a == <<"--data-dir", "SP">> \o ShQuote(DataDir)
             b == EncodeSet("k", parts[1])
             c == EncodeSet("l", parts[2])
             d == <<"--publish", "SP">> \o ShQuote(Publish[1])
             e == <<"--profile", "SP">> \o ShQuote(Publish[2])
  <2>1. Arg(raw, kind) = <<a, b, c, d, e>> /\ sets = <<b, c>> /\ to = <<d, e>> /\ first = <<a>>
    BY <1>1, <1>2 DEF Arg
  <2> HIDE DEF sets, to, first, a, b, c, d, e, parts
  <2>2. <<a, b, c, d, e>> = (<<a>> \o <<b, c>>) \o <<d, e>>
    <3>1. IsFive(a, b, c, d, e)
      BY Five
    <3> QED
      BY <3>1, Zenon DEF IsFive
  <2> QED
    BY <2>1, <2>2
<1> HIDE DEF all
<1> QED
  BY <1>3, <1>4

(* The five arguments, as the shell takes them.                            *)
LEMMA ArgsAre ==
    ASSUME NEW raw, NEW kind, Spelled(SetParts(raw, kind)), Spelled(SetParts(<<"a">>, "str"))
    PROVE  LET a == Arg(raw, kind)
               sets == BuildArgs(Sent(raw, kind)) IN
           /\ Argument(a[1], <<"--data-dir">>, DataDir)
           /\ Argument(a[2], <<"--set">>, sets[1])
           /\ Argument(a[3], <<"--set">>, sets[2])
           /\ Argument(a[4], <<"--publish">>, Publish[1])
           /\ Argument(a[5], <<"--profile">>, Publish[2])
<1> DEFINE a == Arg(raw, kind)
           parts == Sent(raw, kind)
           sets == BuildArgs(parts)
<1>1. /\ "--data-dir" \in Symbols \ Closing /\ "--publish" \in Symbols \ Closing
      /\ "--profile" \in Symbols \ Closing
  BY DEF Symbols, OtherSymbols, Closing
<1>2. /\ "a" \in Symbols /\ "$" \in Symbols /\ "SP" \in Symbols /\ "'" \in Symbols
  BY DEF Symbols, Chars
<1>3. DataDir \in Text /\ Publish[1] \in Text /\ Publish[2] \in Text
  BY <1>2 DEF DataDir, Publish, Text
<1>4. parts[1] = SetParts(raw, kind) /\ parts[2] = SetParts(<<"a">>, "str") /\ DOMAIN parts = 1..2
  BY DEF Sent
<1>5. sets[1] = SetArg("k", parts[1]) /\ sets[2] = SetArg("l", parts[2])
  <2>1. Keys[1] = "k" /\ Keys[2] = "l"
    BY DEF Keys
  <2> HIDE DEF parts
  <2> QED
    BY <1>4, <2>1 DEF BuildArgs
<1>6. /\ a[1] = <<"--data-dir", "SP">> \o ShQuote(DataDir)
      /\ a[2] = EncodeSet("k", parts[1]) /\ a[3] = EncodeSet("l", parts[2])
      /\ a[4] = <<"--publish", "SP">> \o ShQuote(Publish[1])
      /\ a[5] = <<"--profile", "SP">> \o ShQuote(Publish[2])
  BY DEF Arg
<1> HIDE DEF a, parts, sets
<1>7. Argument(a[1], <<"--data-dir">>, DataDir)
  BY <1>1, <1>3, <1>6, QuotedArgument
<1>8. Argument(a[2], <<"--set">>, sets[1]) /\ Argument(a[3], <<"--set">>, sets[2])
  <2>1. Spelled(parts[1]) /\ Spelled(parts[2])
    BY <1>4
  <2>2. Argument(EncodeSet("k", parts[1]), <<"--set">>, SetArg("k", parts[1]))
    BY <2>1, SetArgument
  <2>3. Argument(EncodeSet("l", parts[2]), <<"--set">>, SetArg("l", parts[2]))
    BY <2>1, SetArgument
  <2> QED
    BY <1>5, <1>6, <2>2, <2>3
<1>9. Argument(a[4], <<"--publish">>, Publish[1]) /\ Argument(a[5], <<"--profile">>, Publish[2])
  BY <1>1, <1>3, <1>6, QuotedArgument
<1> QED
  BY <1>7, <1>8, <1>9 DEF a, sets, parts

LineFacts(a, f, v, ws) ==
    /\ (<<"SP", "SP">> \o a) \o <<"SP">> \in Text /\ <<"SP", "SP">> \o a \in Text
    /\ Append(Append(ws, f), v) \in Words /\ Append(ws, f) \in Words /\ v \in Text
    /\ Read(<<"SP", "SP">> \o a, St("bare", ws, <<>>, FALSE)) = St("bare", Append(ws, f), v, TRUE)
    /\ Read((<<"SP", "SP">> \o a) \o <<"SP">>, St("bare", ws, <<>>, FALSE))
           = St("bare", Append(Append(ws, f), v), <<>>, FALSE)
LEMMA LineRead ==
    ASSUME NEW a, NEW f, NEW v, Argument(a, f, v), NEW ws \in Words
    PROVE  LineFacts(a, f, v, ws)
<1> DEFINE s == St("bare", ws, <<>>, FALSE)
           g == <<"SP", "SP">>
           e == <<"SP">>
           us == Append(ws, f)
           r == St("bare", us, v, TRUE)
<1>0. a \in Text /\ f \in Text /\ v \in Text /\ us \in Words /\ "SP" \in Symbols /\ Append(us, v) \in Words
  BY WordsAre DEF Argument, WordsAppend, Symbols, Chars
<1>1. Read(a, s) = r
  BY DEF Argument
<1>2. s \in States /\ ReadChar(s, "SP") = s
  BY EmptyStates, BareReads
<1> HIDE DEF us
<1>3. r \in States /\ ReadChar(r, "SP") = St("bare", Append(us, v), <<>>, FALSE)
  BY <1>0, StIs, BareReads DEF Modes
<1> HIDE DEF s, r
<1>4. g \in Text /\ Read(g, s) = s
  BY <1>0, <1>2, ReadTwo
<1>5. e \in Text /\ Read(e, r) = ReadChar(r, "SP")
  BY <1>0, <1>3, ReadChars
<1> HIDE DEF g, e
<1>6. g \o a \in Text /\ Read(g \o a, s) = r
  BY <1>0, <1>1, <1>2, <1>4, ReadThen
<1>7. (g \o a) \o e \in Text /\ Read((g \o a) \o e, s) = Read(e, r)
  BY <1>2, <1>5, <1>6, ReadThen
<1> QED
  BY <1>0, <1>3, <1>5, <1>6, <1>7 DEF s, r, g, e, us, LineFacts

-----------------------------------------------------------------------------
(* The arguments of a command one by one, read as the strings that are     *)
(* posted.                                                                 *)

LEMMA Ten ==
    ASSUME NEW a, NEW b, NEW c, NEW d, NEW e, NEW f, NEW g, NEW h, NEW i, NEW j
    PROVE  <<a, b, c, d, e, f, g, h, i, j>>
             = Append(Append(Append(Append(Append(Append(Append(Append(Append(<<a>>, b), c), d), e), f), g), h), i), j)
  OBVIOUS

AppendAfter(X) == \A hs, ps \in Seq(X), x \in X : Append(hs \o ps, x) = hs \o Append(ps, x)
LEMMA AppendAfterIs ==
    ASSUME NEW X
    PROVE  AppendAfter(X)
<1>1. SUFFICES ASSUME NEW hs \in Seq(X), NEW ps \in Seq(X), NEW x \in X
               PROVE  Append(hs \o ps, x) = hs \o Append(ps, x)
  BY Zenon DEF AppendAfter
<1> DEFINE one == <<x>>
<1>2. one \in Seq(X) /\ hs \o ps \in Seq(X)
  BY ConcatIs, OneIs
<1>3. Append(hs \o ps, x) = (hs \o ps) \o one /\ Append(ps, x) = ps \o one
  BY <1>2, AppendIsConcat
<1> HIDE DEF one
<1>4. (hs \o ps) \o one = hs \o (ps \o one)
  BY <1>2, ConcatAssociative
<1> QED
  BY <1>3, <1>4

WordsAfter ==
    /\ \A hs, ps \in Words, x \in Text : Append(hs \o ps, x) = hs \o Append(ps, x)
    /\ \A hs \in Words, x \in Text : Append(hs, x) = hs \o <<x>>
    /\ \A x \in Text : <<x>> \in Words
    /\ \A hs, ps \in Words : hs \o ps \in Words
LEMMA WordsAfterIs == WordsAfter
<1>1. \A hs, ps \in Words, x \in Text : Append(hs \o ps, x) = hs \o Append(ps, x)
  <2>1. AppendAfter(Text)
    BY AppendAfterIs
  <2> QED
    BY <2>1, Zenon DEF AppendAfter, Words
<1>2. \A hs \in Words, x \in Text : Append(hs, x) = hs \o <<x>>
  BY AppendIsConcat DEF Words
<1>3. \A x \in Text : <<x>> \in Words
  BY Concats DEF Closed, Words
<1>4. \A hs, ps \in Words : hs \o ps \in Words
  BY ConcatIs DEF Words
<1> QED
  BY <1>1, <1>2, <1>3, <1>4 DEF WordsAfter

StepAfter == \A hs, ps \in Words, x \in Text : Append(ps, x) \in Words /\ Append(hs \o ps, x) = hs \o Append(ps, x)
LEMMA StepAfterIs == StepAfter
<1>1. ASSUME NEW hs \in Words, NEW ps \in Words, NEW x \in Text
      PROVE  Append(ps, x) \in Words /\ Append(hs \o ps, x) = hs \o Append(ps, x)
  <2>1. Append(ps, x) \in Words
    BY WordsAre, Zenon DEF WordsAppend
  <2>2. Append(hs \o ps, x) = hs \o Append(ps, x)
    BY WordsAfterIs, Zenon DEF WordsAfter
  <2> QED
    BY <2>1, <2>2
<1> QED
  BY <1>1, Zenon DEF StepAfter

(* Ten words more.                                                         *)
TenFact(hs, f1, v1, f2, v2, f3, v3, f4, v4, f5, v5) ==
    Append(Append(Append(Append(Append(Append(Append(Append(Append(Append(hs, f1), v1), f2), v2), f3), v3), f4), v4), f5), v5)
      = hs \o <<f1, v1, f2, v2, f3, v3, f4, v4, f5, v5>>
LEMMA TenAfter ==
    ASSUME NEW hs \in Words, NEW f1 \in Text, NEW v1 \in Text, NEW f2 \in Text, NEW v2 \in Text,
           NEW f3 \in Text, NEW v3 \in Text, NEW f4 \in Text, NEW v4 \in Text, NEW f5 \in Text,
           NEW v5 \in Text
    PROVE  TenFact(hs, f1, v1, f2, v2, f3, v3, f4, v4, f5, v5)
<1> DEFINE p1 == <<f1>>
           p2 == Append(p1, v1)
           p3 == Append(p2, f2)
           p4 == Append(p3, v2)
           p5 == Append(p4, f3)
           p6 == Append(p5, v3)
           p7 == Append(p6, f4)
           p8 == Append(p7, v4)
           p9 == Append(p8, f5)
           p10 == Append(p9, v5)
<1>1. <<f1, v1, f2, v2, f3, v3, f4, v4, f5, v5>> = p10
  BY Ten
<1>2. p1 \in Words /\ Append(hs, f1) = hs \o p1
  <2>1. p1 \in Words
    BY WordsAfterIs, Zenon DEF WordsAfter
  <2>2. Append(hs, f1) = hs \o p1
    BY WordsAfterIs, Zenon DEF WordsAfter
  <2> QED
    BY <2>1, <2>2
<1> HIDE DEF p1
<1>3. p2 \in Words /\ Append(hs \o p1, v1) = hs \o p2
  BY <1>2, StepAfterIs, Zenon DEF StepAfter
<1> HIDE DEF p2
<1>4. p3 \in Words /\ Append(hs \o p2, f2) = hs \o p3
  BY <1>3, StepAfterIs, Zenon DEF StepAfter
<1> HIDE DEF p3
<1>5. p4 \in Words /\ Append(hs \o p3, v2) = hs \o p4
  BY <1>4, StepAfterIs, Zenon DEF StepAfter
<1> HIDE DEF p4
<1>6. p5 \in Words /\ Append(hs \o p4, f3) = hs \o p5
  BY <1>5, StepAfterIs, Zenon DEF StepAfter
<1> HIDE DEF p5
<1>7. p6 \in Words /\ Append(hs \o p5, v3) = hs \o p6
  BY <1>6, StepAfterIs, Zenon DEF StepAfter
<1> HIDE DEF p6
<1>8. p7 \in Words /\ Append(hs \o p6, f4) = hs \o p7
  BY <1>7, StepAfterIs, Zenon DEF StepAfter
<1> HIDE DEF p7
<1>9. p8 \in Words /\ Append(hs \o p7, v4) = hs \o p8
  BY <1>8, StepAfterIs, Zenon DEF StepAfter
<1> HIDE DEF p8
<1>10. p9 \in Words /\ Append(hs \o p8, f5) = hs \o p9
  BY <1>9, StepAfterIs, Zenon DEF StepAfter
<1> HIDE DEF p9
<1>11. p10 \in Words /\ Append(hs \o p9, v5) = hs \o p10
  BY <1>10, StepAfterIs, Zenon DEF StepAfter
<1> HIDE DEF p10
<1> QED
  BY <1>1, <1>2, <1>3, <1>4, <1>5, <1>6, <1>7, <1>8, <1>9, <1>10, <1>11 DEF TenFact

(* Reading a brings the shell from one word to the next two.               *)
Next2(x, f, v) ==
    /\ x \in Text /\ f \in Text /\ v \in Text
    /\ \A ws \in Words, w \in Text :
          /\ Append(Append(ws, w), f) \in Words
          /\ Read(x, St("bare", ws, w, TRUE)) = St("bare", Append(Append(ws, w), f), v, TRUE)
LEMMA Next2Is ==
    ASSUME NEW a, NEW f, NEW v, Argument(a, f, v)
    PROVE  Next2(Continue \o a, f, v)
<1> DEFINE x == Continue \o a
<1>1. <<>> \in Words /\ <<>> \in Text
  BY WordsAre, TextIs DEF WordsAppend, TextClosed
<1>2. ASSUME NEW ws \in Words, NEW w \in Text
      PROVE  /\ x \in Text /\ f \in Text /\ v \in Text
             /\ Append(Append(ws, w), f) \in Words
             /\ Read(x, St("bare", ws, w, TRUE)) = St("bare", Append(Append(ws, w), f), v, TRUE)
  <2> DEFINE s == St("bare", ws, w, TRUE)
             g == Continue
             us == Append(ws, w)
             m == St("bare", us, <<>>, FALSE)
  <2>0. a \in Text /\ f \in Text /\ v \in Text /\ us \in Words
    BY WordsAre DEF Argument, WordsAppend
  <2> HIDE DEF us
  <2>1. s \in States /\ m \in States
    BY <2>0, EmptyStates, StIs DEF Modes
  <2>2. g \in Text /\ Read(g, s) = m
    BY GapRead DEF Gaps, us
  <2>3. Read(a, m) = St("bare", Append(us, f), v, TRUE)
    BY <2>0 DEF Argument
  <2>4. Append(us, f) \in Words
    BY <2>0, WordsAre DEF WordsAppend
  <2> HIDE DEF s, g, m
  <2>5. g \o a \in Text /\ Read(g \o a, s) = Read(a, Read(g, s))
    BY <2>0, <2>1, <2>2, ReadThen
  <2> QED
    BY <2>0, <2>2, <2>3, <2>4, <2>5 DEF s, g, us
<1> HIDE DEF x
<1>3. x \in Text /\ f \in Text /\ v \in Text
  BY <1>1, <1>2, Zenon
<1>4. \A ws \in Words, w \in Text :
          /\ Append(Append(ws, w), f) \in Words
          /\ Read(x, St("bare", ws, w, TRUE)) = St("bare", Append(Append(ws, w), f), v, TRUE)
  BY <1>2, Zenon
<1>5. Next2(x, f, v)
  BY <1>3, <1>4, Zenon DEF Next2
<1> QED
  BY <1>5 DEF x

(* The texts that the four flags and the parameters become.                *)
Valued(raw, kind) == Spelled(SetParts(raw, kind)) /\ Spelled(SetParts(<<"a">>, "str"))
Rest(raw, kind) == FlattenSeq([i \in DOMAIN Arg(raw, kind) |-> Continue \o Arg(raw, kind)[i]])

(* The arguments, each after a continuation.                               *)
Pieces(raw, kind) ==
    LET a == Arg(raw, kind) IN
    /\ a[1] \in Text /\ a[2] \in Text /\ a[3] \in Text /\ a[4] \in Text /\ a[5] \in Text
    /\ Continue \in Text /\ Rest(raw, kind) \in Text
    /\ Rest(raw, kind) = ((((Continue \o a[1]) \o (Continue \o a[2])) \o (Continue \o a[3]))
                              \o (Continue \o a[4])) \o (Continue \o a[5])
LEMMA RestIs ==
    ASSUME NEW raw, NEW kind, Valued(raw, kind)
    PROVE  Pieces(raw, kind)
<1> DEFINE a == Arg(raw, kind)
           c == Continue
           x1 == c \o a[1]
           x2 == c \o a[2]
           x3 == c \o a[3]
           x4 == c \o a[4]
           x5 == c \o a[5]
<1>1. Rest(raw, kind) = FlattenSeq(<<x1, x2, x3, x4, x5>>)
  <2> DEFINE m == [i \in 1..5 |-> c \o a[i]]
  <2>1. DOMAIN a = 1..5
    BY DEF Arg
  <2> HIDE DEF a, c
  <2>2. [i \in DOMAIN a |-> c \o a[i]] = m
    BY <2>1
  <2>3. <<x1, x2, x3, x4, x5>> = m
    <3>1. m[1] = x1 /\ m[2] = x2 /\ m[3] = x3 /\ m[4] = x4 /\ m[5] = x5
      OBVIOUS
    <3>2. DOMAIN m = 1..5 /\ m = [i \in 1..5 |-> m[i]]
      OBVIOUS
    <3> HIDE DEF m, x1, x2, x3, x4, x5
    <3> QED
      BY <3>1, <3>2
  <2> QED
    BY <2>2, <2>3 DEF Rest, a, c
<1>2. a[1] \in Text /\ a[2] \in Text /\ a[3] \in Text /\ a[4] \in Text /\ a[5] \in Text
  BY ArgsAre DEF Valued, Argument
<1>3. c \in Text
  <2>1. "SP" \in Symbols /\ "\\" \in Symbols /\ "NL" \in Symbols
    BY DEF Symbols, Chars
  <2> QED
    BY <2>1 DEF Continue, Text
<1> HIDE DEF a, c
<1>4. x1 \in Text /\ x2 \in Text /\ x3 \in Text /\ x4 \in Text /\ x5 \in Text
  BY <1>2, <1>3, TextIs, Zenon DEF TextClosed
<1> HIDE DEF x1, x2, x3, x4, x5
<1>5. /\ FlattenSeq(<<x1, x2, x3, x4, x5>>) = (((x1 \o x2) \o x3) \o x4) \o x5
      /\ FlattenSeq(<<x1, x2, x3, x4, x5>>) \in Text
  BY <1>4, FlattenFive, Zenon
<1> QED
  BY <1>1, <1>2, <1>3, <1>5, Zenon DEF Pieces, x1, x2, x3, x4, x5, a, c

(* After any word, the arguments are the words that the button posts.      *)
LEMMA RestRead ==
    ASSUME NEW raw, NEW kind, Valued(raw, kind), NEW ws \in Words, NEW w \in Text
    PROVE  /\ Rest(raw, kind) \in Text
           /\ EndWord(Read(Rest(raw, kind), St("bare", ws, w, TRUE)))
                = St("bare", Append(ws, w) \o Posted(raw, kind), <<>>, FALSE)
<1> DEFINE a == Arg(raw, kind)
           sets == BuildArgs(Sent(raw, kind))
           x1 == Continue \o a[1]
           x2 == Continue \o a[2]
           x3 == Continue \o a[3]
           x4 == Continue \o a[4]
           x5 == Continue \o a[5]
           hs == Append(ws, w)
           f1 == <<"--data-dir">>
           f2 == <<"--set">>
           f4 == <<"--publish">>
           f5 == <<"--profile">>
           v1 == DataDir
           v2 == sets[1]
           v3 == sets[2]
           v4 == Publish[1]
           v5 == Publish[2]
           w1 == Append(hs, f1)
           w2 == Append(Append(w1, v1), f2)
           w3 == Append(Append(w2, v2), f2)
           w4 == Append(Append(w3, v3), f4)
           w5 == Append(Append(w4, v4), f5)
           s0 == St("bare", ws, w, TRUE)
           s1 == St("bare", w1, v1, TRUE)
           s2 == St("bare", w2, v2, TRUE)
           s3 == St("bare", w3, v3, TRUE)
           s4 == St("bare", w4, v4, TRUE)
           s5 == St("bare", w5, v5, TRUE)
<1>1. /\ Argument(a[1], f1, v1) /\ Argument(a[2], f2, v2) /\ Argument(a[3], f2, v3)
      /\ Argument(a[4], f4, v4) /\ Argument(a[5], f5, v5)
  BY ArgsAre DEF Valued
<1>2. /\ Rest(raw, kind) = (((x1 \o x2) \o x3) \o x4) \o x5
      /\ Rest(raw, kind) \in Text
  BY RestIs, Zenon DEF Pieces
<1>3. Posted(raw, kind) = <<f1, v1, f2, v2, f2, v3, f4, v4, f5, v5>>
  BY DEF Posted
<1> HIDE DEF a, sets, v1, v2, v3, v4, v5, f1, f2, f4, f5
<1>0. hs \in Words
  BY WordsAre DEF WordsAppend
<1>4. x1 \in Text /\ w1 \in Words /\ v1 \in Text /\ Read(x1, s0) = s1
  <2>1. Next2(x1, f1, v1)
    BY <1>1, Next2Is, Zenon
  <2> HIDE DEF x1
  <2> QED
    BY <1>0, <2>1, Zenon DEF Next2
<1> HIDE DEF x1, w1
<1>5. x2 \in Text /\ w2 \in Words /\ v2 \in Text /\ Read(x2, s1) = s2
  <2>1. Next2(x2, f2, v2)
    BY <1>1, Next2Is, Zenon
  <2> HIDE DEF x2, hs, w1
  <2> QED
    BY <1>4, <2>1, Zenon DEF Next2
<1> HIDE DEF x2, w2
<1>6. x3 \in Text /\ w3 \in Words /\ v3 \in Text /\ Read(x3, s2) = s3
  <2>1. Next2(x3, f2, v3)
    BY <1>1, Next2Is, Zenon
  <2> HIDE DEF x3, hs, w2
  <2> QED
    BY <1>5, <2>1, Zenon DEF Next2
<1> HIDE DEF x3, w3
<1>7. x4 \in Text /\ w4 \in Words /\ v4 \in Text /\ Read(x4, s3) = s4
  <2>1. Next2(x4, f4, v4)
    BY <1>1, Next2Is, Zenon
  <2> HIDE DEF x4, hs, w3
  <2> QED
    BY <1>6, <2>1, Zenon DEF Next2
<1> HIDE DEF x4, w4
<1>8. x5 \in Text /\ w5 \in Words /\ v5 \in Text /\ Read(x5, s4) = s5
  <2>1. Next2(x5, f5, v5)
    BY <1>1, Next2Is, Zenon
  <2> HIDE DEF x5, hs, w4
  <2> QED
    BY <1>7, <2>1, Zenon DEF Next2
<1> HIDE DEF x5, w5
<1>9. s0 \in States /\ s1 \in States /\ s2 \in States /\ s3 \in States /\ s4 \in States
  <2>1. "bare" \in Modes
    BY DEF Modes
  <2> QED
    BY <1>4, <1>5, <1>6, <1>7, <1>8, <2>1, StIs
<1> HIDE DEF s0, s1, s2, s3, s4
<1> DEFINE y2 == x1 \o x2
           y3 == y2 \o x3
           y4 == y3 \o x4
           y5 == y4 \o x5
<1>10. y2 \in Text /\ Read(y2, s0) = s2
  BY <1>4, <1>5, <1>9, ReadThen
<1> HIDE DEF y2
<1>11. y3 \in Text /\ Read(y3, s0) = s3
  BY <1>6, <1>9, <1>10, ReadThen
<1> HIDE DEF y3
<1>12. y4 \in Text /\ Read(y4, s0) = s4
  BY <1>7, <1>9, <1>11, ReadThen
<1> HIDE DEF y4
<1>13. y5 \in Text /\ Read(y5, s0) = s5
  BY <1>8, <1>9, <1>12, ReadThen
<1>14. EndWord(s5) = St("bare", Append(w5, v5), <<>>, FALSE)
  BY DEF EndWord, St
<1>15. Append(w5, v5) = hs \o Posted(raw, kind)
  <2>1. v1 \in Text /\ v2 \in Text /\ v3 \in Text /\ v4 \in Text /\ v5 \in Text
    BY <1>4, <1>5, <1>6, <1>7, <1>8
  <2>2. f1 \in Text /\ f2 \in Text /\ f4 \in Text /\ f5 \in Text
    BY <1>1 DEF Argument
  <2>3. Append(w5, v5)
          = Append(Append(Append(Append(Append(Append(Append(Append(Append(Append(hs, f1), v1), f2), v2), f2), v3), f4), v4), f5), v5)
    BY DEF w1, w2, w3, w4, w5
  <2> HIDE DEF w1, w2, w3, w4, w5, hs
  <2>4. TenFact(hs, f1, v1, f2, v2, f2, v3, f4, v4, f5, v5)
    BY <1>0, <2>1, <2>2, TenAfter
  <2> QED
    BY <1>3, <2>3, <2>4, Zenon DEF TenFact
<1> HIDE DEF s5, hs
<1>16. Read(Rest(raw, kind), s0) = s5
  BY <1>2, <1>13 DEF y2, y3, y4, y5
<1> QED
  BY <1>2, <1>14, <1>15, <1>16 DEF s0, hs

-----------------------------------------------------------------------------
(* The heads: a command begins with words that are no flag, some of them   *)
(* in quotes, one perhaps open at its end.                                 *)

(* What the head of a command is made of, between its quotes.              *)
HeadChars == HeadSymbols \cup {"SP"}
HeadText  == Seq(HeadChars)
HeadWords == Seq(HeadText)
Heads(m)  == {s \in States : \E ws \in HeadWords, w \in HeadText, o \in BOOLEAN : s = St(m, ws, w, o)}
Open      == {s \in States : \E ws \in HeadWords, w \in HeadText : s = St("bare", ws, w, TRUE)}

HeadTyped ==
    /\ <<>> \in HeadText /\ <<>> \in HeadWords
    /\ \A w \in HeadText : w \in Text /\ (\A c \in HeadChars : w \o <<c>> \in HeadText)
    /\ \A ws \in HeadWords : ws \in Words /\ (\A w \in HeadText : Append(ws, w) \in HeadWords)
    /\ \A c \in HeadChars : c \in Symbols /\ c \notin Closing \ {"SP"}
LEMMA HeadIs == HeadTyped
<1>1. HeadChars \subseteq Symbols /\ \A c \in HeadChars : c \notin Closing \ {"SP"}
  <2>1. HeadChars \subseteq Symbols
    BY DEF HeadChars, Symbols, Chars
  <2>2. \A c \in HeadChars : c \notin Closing \ {"SP"}
    BY DEF HeadChars, HeadSymbols, Closing, Name, Tarball
  <2> QED
    BY <2>1, <2>2
<1>2. <<>> \in HeadText /\ <<>> \in HeadWords
  BY DEF HeadText, HeadWords
<1>3. HeadText \subseteq Text
  BY <1>1, SeqSub DEF HeadText, Text
<1>4. HeadWords \subseteq Words
  <2> HIDE DEF HeadText
  <2> QED
    BY <1>3, SeqSub DEF HeadWords, Words
<1>5. ASSUME NEW w \in HeadText, NEW c \in HeadChars PROVE w \o <<c>> \in HeadText
  <2>1. Closed(HeadChars)
    BY Concats
  <2> QED
    BY <2>1, Zenon DEF Closed, HeadText
<1>6. ASSUME NEW ws \in HeadWords, NEW w \in HeadText PROVE Append(ws, w) \in HeadWords
  <2> DEFINE X == HeadText
  <2>1. ws \in Seq(X) /\ w \in X
    BY DEF HeadWords
  <2> HIDE DEF X
  <2>2. Append(ws, w) \in Seq(X)
    BY <2>1
  <2> QED
    BY <2>2 DEF X, HeadWords
<1> QED
  BY <1>1, <1>2, <1>3, <1>4, <1>5, <1>6 DEF HeadTyped

LEMMA HeadStates == \A m \in Modes : Heads(m) \subseteq States
  BY DEF Heads
LEMMA InHeads ==
    ASSUME NEW m \in Modes, NEW ws \in HeadWords, NEW w \in HeadText, NEW o \in BOOLEAN
    PROVE  St(m, ws, w, o) \in Heads(m)
<1>1. ws \in Words /\ w \in Text
  BY HeadIs, Zenon DEF HeadTyped
<1>2. St(m, ws, w, o) \in States
  BY <1>1, StIs
<1> QED
  BY <1>2, Zenon DEF Heads
LEMMA InOpen ==
    ASSUME NEW ws \in HeadWords, NEW w \in HeadText
    PROVE  St("bare", ws, w, TRUE) \in Open /\ St("bare", ws, w, TRUE) \in Heads("bare")
<1>1. St("bare", ws, w, TRUE) \in Heads("bare")
  BY InHeads DEF Modes
<1>2. St("bare", ws, w, TRUE) \in States
  BY <1>1, Zenon DEF Heads
<1>3. St("bare", ws, w, TRUE) \in Open
  BY <1>2, Zenon DEF Open
<1> QED
  BY <1>1, <1>3

LEMMA HeadStep ==
    ASSUME NEW s \in Heads("bare"), NEW c \in HeadChars
    PROVE  /\ ReadChar(s, c) \in Heads("bare")
           /\ c \in HeadSymbols => ReadChar(s, c) \in Open
<1>1. PICK ws \in HeadWords, w \in HeadText, o \in BOOLEAN : s = St("bare", ws, w, o)
  BY DEF Heads
<1>2. /\ ws \in Words /\ w \in Text /\ w \o <<c>> \in HeadText /\ Append(ws, w) \in HeadWords
      /\ <<>> \in HeadText /\ c \in Symbols /\ c \notin Closing \ {"SP"}
  BY HeadIs, Zenon DEF HeadTyped
<1>3. CASE c = "SP"
  <2>1. CASE o = TRUE
    <3>1. ReadChar(s, c) = St("bare", Append(ws, w), <<>>, FALSE)
      BY <1>1, <1>2, <1>3, <2>1, BareReads
    <3>2. c \notin HeadSymbols
      BY <1>3 DEF HeadSymbols, Name, Tarball
    <3> QED
      BY <1>2, <3>1, <3>2, InHeads DEF Modes
  <2>2. CASE o = FALSE
    <3>1. ReadChar(s, c) = St("bare", ws, w, FALSE)
      BY <1>1, <1>2, <1>3, <2>2, BareReads
    <3>2. c \notin HeadSymbols
      BY <1>3 DEF HeadSymbols, Name, Tarball
    <3> QED
      BY <1>2, <3>1, <3>2, InHeads DEF Modes
  <2> QED
    BY <2>1, <2>2
<1>4. CASE c # "SP"
  <2>1. c \in Symbols \ Closing
    BY <1>2, <1>4
  <2>2. ReadChar(s, c) = St("bare", ws, w \o <<c>>, TRUE)
    <3>1. \A d \in Symbols \ Closing : ReadChar(St("bare", ws, w, o), d) = St("bare", ws, w \o <<d>>, TRUE)
      BY <1>2, BareReads
    <3> QED
      BY <1>1, <2>1, <3>1
  <2> DEFINE v == w \o <<c>>
  <2> HIDE DEF v
  <2>3. ReadChar(s, c) = St("bare", ws, v, TRUE) /\ v \in HeadText
    BY <1>2, <2>2 DEF v
  <2> QED
    BY <2>3, InOpen
<1> QED
  BY <1>3, <1>4

LEMMA QuotedStep ==
    ASSUME NEW s \in Heads("single"), NEW c \in HeadChars
    PROVE  ReadChar(s, c) \in Heads("single")
<1>1. PICK ws \in HeadWords, w \in HeadText, o \in BOOLEAN : s = St("single", ws, w, o)
  BY DEF Heads
<1>2. /\ ws \in Words /\ w \in Text /\ w \o <<c>> \in HeadText
      /\ c \in Symbols /\ c \notin Closing \ {"SP"}
  BY HeadIs, Zenon DEF HeadTyped
<1>3. c \in Symbols \ {"'"}
  BY <1>2 DEF Closing
<1>4. ReadChar(s, c) = St("single", ws, w \o <<c>>, TRUE)
  <2>1. \A d \in Symbols \ {"'"} : ReadChar(St("single", ws, w, o), d) = St("single", ws, w \o <<d>>, TRUE)
    BY <1>2, QuoteReads
  <2> QED
    BY <1>1, <1>3, <2>1
<1> DEFINE v == w \o <<c>>
<1> HIDE DEF v
<1>5. ReadChar(s, c) = St("single", ws, v, TRUE) /\ v \in HeadText
  BY <1>2, <1>4 DEF v
<1> QED
  BY <1>5, InHeads DEF Modes

(* A text that takes the shell from one mode to another, inside a head.    *)
Path(t, m, n) == t \in Text /\ \A s \in Heads(m) : Read(t, s) \in Heads(n)
Ends(t) == t \in Text /\ \A s \in Heads("bare") : Read(t, s) \in Open

LEMMA PlainPath ==
    ASSUME NEW t \in HeadText
    PROVE  Path(t, "bare", "bare") /\ Path(t, "single", "single")
<1>1. t \in Text
  BY HeadIs, Zenon DEF HeadTyped
<1>2. ASSUME NEW m \in {"bare", "single"} PROVE Path(t, m, m)
  <2>1. ASSUME NEW s \in Heads(m), NEW c \in HeadChars PROVE Reader[<<s, c>>] \in Heads(m)
    <3>1. m \in Modes
      BY DEF Modes
    <3>2. s \in States /\ c \in Symbols
      BY <3>1, HeadStates, HeadIs DEF HeadTyped
    <3>3. ReadChar(s, c) \in Heads(m)
      BY HeadStep, QuotedStep
    <3> QED
      BY <3>2, <3>3, ReaderIs DEF ReaderSteps
  <2>2. Stepper(Reader, Heads(m), HeadChars)
    BY <2>1 DEF Stepper
  <2>3. \A s \in Heads(m) : Read(t, s) \in Heads(m)
    BY <2>2, FoldTyped DEF Read, HeadText
  <2> QED
    BY <1>1, <2>3 DEF Path
<1> QED
  BY <1>2

LEMMA CharPath ==
    /\ Path(<<"'">>, "bare", "single") /\ Path(<<"'">>, "single", "bare")
    /\ Path(<<"\\">>, "bare", "bare\\") /\ Path(<<"NL">>, "bare\\", "bare")
<1>0. "'" \in Symbols /\ "\\" \in Symbols /\ "NL" \in Symbols
  BY DEF Symbols, Chars
<1>1. ASSUME NEW m \in Modes, NEW s \in Heads(m), NEW c \in Symbols
      PROVE  <<c>> \in Text /\ Read(<<c>>, s) = ReadChar(s, c)
  BY HeadStates, ReadChars
<1>2. ASSUME NEW m \in Modes, NEW n, NEW c \in Symbols,
             \A ws \in HeadWords, w \in HeadText, o \in BOOLEAN : ReadChar(St(m, ws, w, o), c) \in Heads(n)
      PROVE  Path(<<c>>, m, n)
  <2>1. \A s \in Heads(m) : ReadChar(s, c) \in Heads(n)
    BY <1>2 DEF Heads
  <2>2. <<c>> \in Text
    BY TextIs DEF TextClosed
  <2> QED
    BY <1>1, <2>1, <2>2 DEF Path
<1>3. ASSUME NEW ws \in HeadWords, NEW w \in HeadText, NEW o \in BOOLEAN
      PROVE  /\ ReadChar(St("bare", ws, w, o), "'") \in Heads("single")
             /\ ReadChar(St("single", ws, w, o), "'") \in Heads("bare")
             /\ ReadChar(St("bare", ws, w, o), "\\") \in Heads("bare\\")
             /\ ReadChar(St("bare\\", ws, w, o), "NL") \in Heads("bare")
  <2>1. ws \in Words /\ w \in Text
    BY HeadIs, Zenon DEF HeadTyped
  <2>2. /\ ReadChar(St("bare", ws, w, o), "'") = St("single", ws, w, TRUE)
        /\ ReadChar(St("single", ws, w, o), "'") = St("bare", ws, w, o)
        /\ ReadChar(St("bare", ws, w, o), "\\") = St("bare\\", ws, w, o)
        /\ ReadChar(St("bare\\", ws, w, o), "NL") = St("bare", ws, w, o)
    <3>1. /\ ReadChar(St("bare", ws, w, o), "'") = St("single", ws, w, TRUE)
          /\ ReadChar(St("bare", ws, w, o), "\\") = St("bare\\", ws, w, o)
          /\ ReadChar(St("bare\\", ws, w, o), "NL") = St("bare", ws, w, o)
      BY <2>1, BareReads
    <3>2. ReadChar(St("single", ws, w, o), "'") = St("bare", ws, w, o)
      BY <2>1, QuoteReads
    <3> QED
      BY <3>1, <3>2
  <2> QED
    BY <2>2, InHeads DEF Modes
<1>4. "bare" \in Modes /\ "single" \in Modes /\ "bare\\" \in Modes
  BY DEF Modes
<1> QED
  BY <1>0, <1>2, <1>3, <1>4

LEMMA PathThen ==
    ASSUME NEW m \in Modes, NEW n, NEW k, NEW t, NEW u, Path(t, m, n), Path(u, n, k)
    PROVE  Path(t \o u, m, k)
<1>1. t \in Text /\ u \in Text
  BY DEF Path
<1>2. ASSUME NEW s \in Heads(m) PROVE t \o u \in Text /\ Read(t \o u, s) \in Heads(k)
  <2>1. s \in States
    BY HeadStates
  <2>2. t \o u \in Text /\ Read(t \o u, s) = Read(u, Read(t, s))
    BY <1>1, <2>1, ReadThen
  <2>3. Read(u, Read(t, s)) \in Heads(k)
    BY DEF Path
  <2> QED
    BY <2>2, <2>3
<1>3. t \o u \in Text
  BY <1>1, TextIs, Zenon DEF TextClosed
<1> QED
  BY <1>2, <1>3, Zenon DEF Path

LEMMA EndsThen ==
    ASSUME NEW t, NEW u, Path(t, "bare", "bare"), Ends(u)
    PROVE  Ends(t \o u)
<1>1. t \in Text /\ u \in Text
  BY DEF Path, Ends
<1>2. ASSUME NEW s \in Heads("bare") PROVE t \o u \in Text /\ Read(t \o u, s) \in Open
  <2>1. s \in States
    BY HeadStates DEF Modes
  <2>2. t \o u \in Text /\ Read(t \o u, s) = Read(u, Read(t, s))
    BY <1>1, <2>1, ReadThen
  <2>3. Read(u, Read(t, s)) \in Open
    BY DEF Path, Ends
  <2> QED
    BY <2>2, <2>3
<1>3. t \o u \in Text
  BY <1>1, TextIs, Zenon DEF TextClosed
<1> QED
  BY <1>2, <1>3, Zenon DEF Ends

LEMMA LastEnds ==
    ASSUME NEW c \in HeadSymbols
    PROVE  Ends(<<c>>)
<1>1. c \in HeadChars /\ c \in Symbols
  BY DEF HeadChars, Symbols
<1>2. ASSUME NEW s \in Heads("bare") PROVE Read(<<c>>, s) \in Open
  <2>1. s \in States
    BY HeadStates DEF Modes
  <2>2. Read(<<c>>, s) = ReadChar(s, c)
    BY <1>1, <2>1, ReadChars
  <2> QED
    BY <1>1, <2>2, HeadStep
<1>3. <<c>> \in Text
  BY <1>1, TextIs DEF TextClosed
<1> QED
  BY <1>2, <1>3 DEF Ends

-----------------------------------------------------------------------------
(* The head of each setup, before the first argument.                      *)

LEMMA Features ==
    <<"SP", "--extra-experimental-features", "SP", "'", "nix-command", "SP", "flakes", "'">>
      = ((<<"SP", "--extra-experimental-features", "SP">> \o <<"'">>) \o <<"nix-command", "SP", "flakes">>) \o <<"'">>
  OBVIOUS
LEMMA ContinueParts ==
    <<"SP", "\\", "NL", "SP", "SP">> = ((<<"SP">> \o <<"\\">>) \o <<"NL">>) \o <<"SP", "SP">>
  OBVIOUS
LEMMA BuiltLast == <<"-A", "SP", "exec.x)">> = <<"-A", "SP">> \o <<"exec.x)">>
  OBVIOUS

HeadPart(t) == Path(t, "bare", "bare")
LEMMA HeadParts ==
    /\ \A t, u : HeadPart(t) /\ HeadPart(u) => HeadPart(t \o u)
    /\ \A t, u : HeadPart(t) /\ Ends(u) => Ends(t \o u)
    /\ \A t \in HeadText : HeadPart(t)
    /\ HeadPart(Continue)
    /\ HeadPart(<<"SP", "--extra-experimental-features", "SP", "'", "nix-command", "SP", "flakes", "'">>)
<1>0. "bare" \in Modes /\ "single" \in Modes /\ "bare\\" \in Modes
  BY DEF Modes
<1>1. ASSUME NEW t, NEW u, HeadPart(t), HeadPart(u) PROVE HeadPart(t \o u)
  BY <1>0, <1>1, PathThen DEF HeadPart
<1>2. ASSUME NEW t, NEW u, HeadPart(t), Ends(u) PROVE Ends(t \o u)
  BY <1>2, EndsThen DEF HeadPart
<1>3. ASSUME NEW t \in HeadText PROVE HeadPart(t)
  BY PlainPath DEF HeadPart
<1>4. HeadPart(Continue)
  <2> DEFINE a == <<"SP">>
             b == <<"\\">>
             c == <<"NL">>
             d == <<"SP", "SP">>
  <2>1. a \in HeadText /\ d \in HeadText
    BY DEF HeadText, HeadChars
  <2>2. Path(a, "bare", "bare") /\ Path(d, "bare", "bare")
    BY <2>1, PlainPath
  <2>3. Path(b, "bare", "bare\\") /\ Path(c, "bare\\", "bare")
    BY CharPath
  <2>4. Continue = ((a \o b) \o c) \o d
    BY ContinueParts DEF Continue
  <2> HIDE DEF a, b, c, d
  <2>5. Path(a \o b, "bare", "bare\\")
    BY <1>0, <2>2, <2>3, PathThen
  <2>6. Path((a \o b) \o c, "bare", "bare")
    BY <1>0, <2>3, <2>5, PathThen
  <2>7. Path(((a \o b) \o c) \o d, "bare", "bare")
    BY <1>0, <2>2, <2>6, PathThen
  <2> QED
    BY <2>4, <2>7 DEF HeadPart
<1>5. HeadPart(<<"SP", "--extra-experimental-features", "SP", "'", "nix-command", "SP", "flakes", "'">>)
  <2> DEFINE a == <<"SP", "--extra-experimental-features", "SP">>
             q == <<"'">>
             d == <<"nix-command", "SP", "flakes">>
  <2>1. a \in HeadText /\ d \in HeadText
    BY DEF HeadText, HeadChars, HeadSymbols
  <2>2. Path(a, "bare", "bare") /\ Path(d, "single", "single")
    BY <2>1, PlainPath
  <2>3. Path(q, "bare", "single") /\ Path(q, "single", "bare")
    BY CharPath
  <2>4. <<"SP", "--extra-experimental-features", "SP", "'", "nix-command", "SP", "flakes", "'">> = ((a \o q) \o d) \o q
    BY Features
  <2> HIDE DEF a, q, d
  <2>5. Path(a \o q, "bare", "single")
    BY <1>0, <2>2, <2>3, PathThen
  <2>6. Path((a \o q) \o d, "bare", "single")
    BY <1>0, <2>2, <2>5, PathThen
  <2>7. Path(((a \o q) \o d) \o q, "bare", "bare")
    BY <1>0, <2>3, <2>6, PathThen
  <2> QED
    BY <2>4, <2>7 DEF HeadPart
<1> QED
  BY <1>1, <1>2, <1>3, <1>4, <1>5

(* What the head ends with.                                                *)
LEMMA TailEnds == Ends(<<"SP", "--">>) /\ Ends(<<"-A", "SP", "exec.x)">>)
<1>1. HeadPart(<<"SP">>) /\ HeadPart(<<"-A", "SP">>)
  <2>1. <<"SP">> \in HeadText /\ <<"-A", "SP">> \in HeadText
    BY DEF HeadText, HeadChars, HeadSymbols
  <2> QED
    BY <2>1, HeadParts
<1>2. Ends(<<"--">>) /\ Ends(<<"exec.x)">>)
  <2>1. "--" \in HeadSymbols /\ "exec.x)" \in HeadSymbols
    BY DEF HeadSymbols
  <2> QED
    BY <2>1, LastEnds
<1>3. <<"SP", "--">> = <<"SP">> \o <<"--">>
  BY Pair
<1> QED
  BY <1>1, <1>2, <1>3, BuiltLast, HeadParts

LEMMA WhenPart == ASSUME NEW c, NEW t, HeadPart(t) PROVE HeadPart(When(c, t))
<1>1. HeadPart(<<>>)
  <2>1. <<>> \in HeadText
    BY HeadIs DEF HeadTyped
  <2> QED
    BY <2>1, HeadParts
<1> QED
  BY <1>1 DEF When

(* The head of a command is one text before what followed the name; only   *)
(* the built program needs no separator.                                   *)
Undashed(r) == IF Len(r) > 1 /\ r[2] = "--" THEN SubSeq(r, 3, Len(r)) ELSE r
Heading(x, p) == HeadPart(x) /\ \A r : CommandHead(r, p) = x \o r
Built(x, p)   == Ends(x) /\ ~Wrapped(p) /\ \A r : CommandHead(r, p) = x \o Undashed(r)

SourceOf(p) == IF p.source = "local" THEN <<>> ELSE <<Tarball>> \o Continue
LEMMA SourcePart == ASSUME NEW p PROVE HeadPart(SourceOf(p))
<1>1. <<>> \in HeadText /\ <<Tarball>> \in HeadText
  BY DEF HeadText, HeadChars, HeadSymbols
<1>2. HeadPart(<<>>) /\ HeadPart(<<Tarball>> \o Continue)
  BY <1>1, HeadParts
<1> QED
  BY <1>2 DEF SourceOf

LEMMA FlakesHeading == ASSUME NEW p, p.mode = "flakes" PROVE \E x : Heading(x, p)
<1> DEFINE a == <<"nix", "SP", "run", "SP", Ref(p)>>
           b == When(~p.flakes, <<"SP", "--extra-experimental-features", "SP", "'", "nix-command",
                                  "SP", "flakes", "'">>)
           c == When(Fresh(p), <<"SP", "--refresh">>)
<1>1. \A r : CommandHead(r, p) = ((a \o b) \o c) \o r
  BY DEF CommandHead
<1>2. a \in HeadText /\ <<"SP", "--refresh">> \in HeadText
  BY DEF HeadText, HeadChars, HeadSymbols, Ref
<1>3. HeadPart(a) /\ HeadPart(b) /\ HeadPart(c)
  BY <1>2, HeadParts, WhenPart
<1> HIDE DEF a, b, c
<1>4. HeadPart(a \o b)
  BY <1>3, HeadParts
<1>5. HeadPart((a \o b) \o c)
  BY <1>3, <1>4, HeadParts
<1> QED
  BY <1>1, <1>5, Zenon DEF Heading

LEMMA BuildHeading == ASSUME NEW p, p.mode = "nix-build" PROVE \E x : Built(x, p)
<1> DEFINE a == <<"$(nix-build", "SP", "--no-out-link", "SP">>
           b == When(Fresh(p), <<"--tarball-ttl", "SP", "0", "SP">>)
           c == SourceOf(p)
           e == <<"-A", "SP", "exec.x)">>
<1>1. \A r : CommandHead(r, p) = (((a \o b) \o c) \o e) \o Undashed(r)
  BY DEF CommandHead, FlakelessHead, Undashed, SourceOf
<1>2. a \in HeadText /\ <<"--tarball-ttl", "SP", "0", "SP">> \in HeadText
  BY DEF HeadText, HeadChars, HeadSymbols
<1>3. HeadPart(a) /\ HeadPart(b) /\ HeadPart(c)
  BY <1>2, HeadParts, WhenPart, SourcePart
<1>4. Ends(e)
  BY TailEnds
<1> HIDE DEF a, b, c, e
<1>5. HeadPart(a \o b)
  BY <1>3, HeadParts
<1>6. HeadPart((a \o b) \o c)
  BY <1>3, <1>5, HeadParts
<1>7. Ends(((a \o b) \o c) \o e)
  BY <1>4, <1>6, HeadParts
<1>8. ~Wrapped(p)
  BY DEF Wrapped
<1> QED
  BY <1>1, <1>7, <1>8, Zenon DEF Built

(* What stands before and after the source.                                *)
RunFirst(p) ==
    (<<"nix-run", "SP">> \o When(Fresh(p), <<"--option", "SP", "tarball-ttl", "SP", "0", "SP">>))
        \o When(p.source = "local", <<".", "SP">>)
RunLast == <<"-A", "SP", "experiment-x">>
LEMMA RunHeading ==
    ASSUME NEW p, p.mode # "flakes", p.mode # "nix-build"
    PROVE  Heading((RunFirst(p) \o SourceOf(p)) \o RunLast, p)
<1> DEFINE a == <<"nix-run", "SP">>
           b == When(Fresh(p), <<"--option", "SP", "tarball-ttl", "SP", "0", "SP">>)
           c == When(p.source = "local", <<".", "SP">>)
           d == SourceOf(p)
           e == RunLast
<1>1. \A r : CommandHead(r, p) = ((((a \o b) \o c) \o d) \o e) \o r
  BY DEF CommandHead, FlakelessHead, RunLast, SourceOf
<1>2. /\ a \in HeadText /\ <<"--option", "SP", "tarball-ttl", "SP", "0", "SP">> \in HeadText
      /\ <<".", "SP">> \in HeadText /\ e \in HeadText
  BY DEF HeadText, HeadChars, HeadSymbols, RunLast
<1>3. HeadPart(a) /\ HeadPart(b) /\ HeadPart(c) /\ HeadPart(d) /\ HeadPart(e)
  BY <1>2, HeadParts, WhenPart, SourcePart
<1>4. RunFirst(p) = (a \o b) \o c
  BY DEF RunFirst
<1> HIDE DEF a, b, c, d, e
<1>5. HeadPart(a \o b)
  BY <1>3, HeadParts
<1>6. HeadPart((a \o b) \o c)
  BY <1>3, <1>5, HeadParts
<1>7. HeadPart(((a \o b) \o c) \o d)
  BY <1>3, <1>6, HeadParts
<1>8. HeadPart((((a \o b) \o c) \o d) \o e)
  BY <1>3, <1>7, HeadParts
<1>9. Heading((((a \o b) \o c) \o d) \o e, p)
  BY <1>1, <1>8, Zenon DEF Heading
<1> QED
  BY <1>4, <1>9, Zenon DEF d, e

LEMMA HeadShape == ASSUME NEW p PROVE \E x : Heading(x, p) \/ Built(x, p)
<1>1. p.mode = "flakes" \/ p.mode = "nix-build" \/ (p.mode # "flakes" /\ p.mode # "nix-build")
  OBVIOUS
<1> QED
  BY <1>1, FlakesHeading, BuildHeading, RunHeading, Zenon

(* What follows the name on the first line of a command, with and without  *)
(* its continuation.                                                       *)
Dashes == <<"SP", "--">>
More   == <<"SP", "\\">>
LEMMA DashesIs ==
    /\ Undashed(Dashes) = <<>> /\ Undashed(<<"SP", "--", "SP", "\\">>) = More
    /\ <<"SP", "--", "SP", "\\">> = Dashes \o More
    /\ Dashes \in Text /\ More \in Text
<1>1. Undashed(Dashes) = <<>>
  BY DEF Undashed, Dashes
<1>0. "SP" \in Symbols /\ "--" \in Symbols /\ "\\" \in Symbols
  BY DEF Symbols, Chars, HeadSymbols
<1>2. Undashed(<<"SP", "--", "SP", "\\">>) = More
  <2> DEFINE r == <<"SP", "--", "SP", "\\">>
             u == SubSeq(r, 3, 4)
  <2>1. /\ r \in Seq(Symbols) /\ Len(r) = 4 /\ r[2] = "--" /\ r[3] = "SP" /\ r[4] = "\\"
        /\ More \in Seq(Symbols) /\ Len(More) = 2 /\ More[1] = "SP" /\ More[2] = "\\"
    BY <1>0 DEF More
  <2> HIDE DEF r
  <2>2. \A i \in 3..4 : r[i] \in Symbols
    <3>1. \A i \in 3..4 : i = 3 \/ i = 4
      OBVIOUS
    <3> QED
      BY <1>0, <2>1, <3>1
  <2>3. u \in Seq(Symbols) /\ Len(u) = 2 /\ \A i \in 1..2 : u[i] = r[3 + i - 1]
    BY <2>2, SubSeqProperties
  <2> HIDE DEF u
  <2>4. u[1] = r[3] /\ u[2] = r[4]
    BY <2>3
  <2>5. u = More
    BY <2>1, <2>3, <2>4, SeqEqual
  <2> QED
    BY <2>1, <2>5 DEF Undashed, u, r
<1>3. <<"SP", "--", "SP", "\\">> = Dashes \o More
  BY DEF Dashes, More
<1>5. Dashes \in Text /\ More \in Text
  BY <1>0 DEF Text, Dashes, More
<1> QED
  BY <1>1, <1>2, <1>3, <1>5

(* The head of a command, for every setup: the shell ends inside its last  *)
(* word; and a continuation after it stays at its end.                     *)
LEMMA HeadEnds ==
    ASSUME NEW p
    PROVE  /\ Ends(CommandHead(Dashes, p)) /\ CommandHead(Dashes, p) \in Text
           /\ CommandHead(<<"SP", "--", "SP", "\\">>, p) = CommandHead(Dashes, p) \o More
<1>1. PICK x : Heading(x, p) \/ Built(x, p)
  BY HeadShape
<1>0. Dashes \in Text /\ More \in Text
  BY DashesIs
<1>2. CASE Heading(x, p)
  <2>1. CommandHead(Dashes, p) = x \o Dashes /\ x \in Text
    BY <1>2 DEF Heading, HeadPart, Path
  <2>2. CommandHead(<<"SP", "--", "SP", "\\">>, p) = x \o (Dashes \o More)
    BY <1>2, DashesIs, Zenon DEF Heading
  <2>3. Ends(x \o Dashes)
    BY <1>2, HeadParts, TailEnds DEF Heading, Dashes
  <2>4. x \o (Dashes \o More) = (x \o Dashes) \o More
    <3>1. Same(x, Dashes, More)
      BY <1>0, <2>1, TextSame
    <3> QED
      BY <3>1, Zenon DEF Same
  <2> QED
    BY <2>1, <2>2, <2>3, <2>4, Zenon DEF Ends
<1>3. CASE Built(x, p)
  <2>1. CommandHead(Dashes, p) = x \o <<>> /\ Ends(x)
    BY <1>3, DashesIs, Zenon DEF Built
  <2>2. CommandHead(<<"SP", "--", "SP", "\\">>, p) = x \o More
    BY <1>3, DashesIs, Zenon DEF Built
  <2>3. x \in Text
    BY <2>1, Zenon DEF Ends
  <2>4. x \o <<>> = x
    BY <2>3, TextIs, Zenon DEF TextNeutral
  <2> QED
    BY <2>1, <2>2, <2>3, <2>4, Zenon
<1> QED
  BY <1>1, <1>2, <1>3

-----------------------------------------------------------------------------
(* A shell that reads a head and the arguments finds the posted strings.   *)

LEMMA ShellIs ==
    ASSUME NEW t \in Text, NEW ws,
           EndWord(Read(t, St("bare", <<>>, <<>>, FALSE))) = St("bare", ws, <<>>, FALSE)
    PROVE  Shell(t) = ws
<1>1. ShellStart = St("bare", <<>>, <<>>, FALSE)
  BY DEF ShellStart, St
<1>2. ShellStart \in States
  BY <1>1, EmptyStates, WordsAre DEF WordsAppend
<1> HIDE DEF ShellStart
<1>3. Along(t, ShellStart, ReadChar) = Read(t, ShellStart)
  BY <1>2, AlongRead
<1>4. Shell(t) = IF St("bare", ws, <<>>, FALSE).ok /\ St("bare", ws, <<>>, FALSE).mode = "bare"
                 THEN St("bare", ws, <<>>, FALSE).words ELSE <<>>
  BY <1>1, <1>3 DEF Shell
<1> QED
  BY <1>4 DEF St

(* No word of a head is a flag, or asks for a second shell.                *)
LEMMA HeadWord == \A w \in HeadText : w \notin Flags /\ w # <<"nix-shell">>
<1>1. ASSUME NEW w \in Seq(HeadChars), NEW c, w = <<c>> PROVE c \in HeadChars
  <2>1. Len(w) = 1 /\ w[1] = c
    BY <1>1
  <2> QED
    BY <2>1, ElementOfSeq
<1>2. \A c \in {"nix-shell", "--data-dir", "--set", "--publish", "--profile"} : c \notin HeadChars
  BY DEF HeadChars, HeadSymbols, Name, Tarball
<1>3. \A w \in HeadText : \A c : w = <<c>> => c \in HeadChars
  BY <1>1 DEF HeadText
<1> QED
  BY <1>2, <1>3 DEF Flags

ArgsOf(words) ==
    LET first == {i \in DOMAIN words : words[i] \in Flags}
    IN  IF first = {} THEN <<>> ELSE SubSeq(words, Min(first), Len(words))

LEMMA PostedTaken ==
    ASSUME NEW hs \in HeadWords, NEW ps \in Words, ps # <<>>, ps[1] \in Flags
    PROVE  ArgsOf(hs \o ps) = ps
<1> DEFINE X == Text
           n == Len(hs)
           words == hs \o ps
           first == {i \in DOMAIN words : words[i] \in Flags}
<1>1. hs \in Seq(X) /\ ps \in Seq(X)
  BY HeadIs DEF HeadTyped, Words
<1>2. \A i \in 1..n : hs[i] \in HeadText
  <2> DEFINE Y == HeadText
  <2>1. hs \in Seq(Y)
    BY DEF HeadWords
  <2> HIDE DEF Y
  <2>2. \A i \in 1..n : hs[i] \in Y
    BY <2>1
  <2> QED
    BY <2>2 DEF Y
<1> HIDE DEF X
<1>3. n \in Nat /\ Len(ps) \in Nat \ {0}
  BY <1>1, EmptySeq, LenProperties
<1>4. /\ words \in Seq(X) /\ Len(words) = n + Len(ps)
      /\ \A i \in 1..n : words[i] = hs[i]
      /\ \A i \in 1..Len(ps) : words[n + i] = ps[i]
  BY <1>1, ConcatIs
<1>5. DOMAIN words = 1..(n + Len(ps))
  BY <1>4
<1> HIDE DEF words, n
<1>6. n + 1 \in first
  <2>1. n + 1 \in 1..(n + Len(ps)) /\ words[n + 1] = ps[1]
    BY <1>3, <1>4
  <2> QED
    BY <1>5, <2>1
<1>7. \A i \in first : n + 1 <= i
  <2> SUFFICES ASSUME NEW i \in first, ~(n + 1 <= i) PROVE FALSE
    OBVIOUS
  <2>1. i \in 1..n
    BY <1>3, <1>5
  <2>2. words[i] \in HeadText
    BY <1>2, <1>4, <2>1
  <2>3. words[i] \in Flags
    OBVIOUS
  <2> QED
    BY <2>2, <2>3, HeadWord
<1>8. first \subseteq Nat
  BY <1>3, <1>5
<1> HIDE DEF first
<1>9. Min(first) = n + 1
  <2>1. Min(first) \in first /\ \A k \in first : Min(first) <= k
    BY <1>6, <1>7 DEF Min
  <2> DEFINE m == Min(first)
  <2>2. m \in first /\ m <= n + 1
    BY <1>6, <2>1
  <2>3. m \in Nat /\ n + 1 <= m
    BY <1>7, <1>8, <2>2
  <2> HIDE DEF m
  <2>4. m = n + 1
    BY <1>3, <2>2, <2>3
  <2> QED
    BY <2>4 DEF m
<1>10. SubSeq(words, n + 1, n + Len(ps)) = ps
  <2>1. n + 1 \in Len(hs) + 1 .. Len(hs) + Len(ps) /\ n + Len(ps) \in Len(hs) + 1 .. Len(hs) + Len(ps)
    BY <1>3 DEF n
  <2>2. SubSeq(hs \o ps, n + 1, n + Len(ps)) = SubSeq(ps, (n + 1) - Len(hs), (n + Len(ps)) - Len(hs))
    BY <1>1, <2>1, SubSeqOfConcat2
  <2>3. (n + 1) - Len(hs) = 1 /\ (n + Len(ps)) - Len(hs) = Len(ps)
    BY <1>3 DEF n
  <2>4. SubSeq(ps, 1, Len(ps)) = ps
    BY <1>1, SubSeqFull
  <2> QED
    BY <2>2, <2>3, <2>4 DEF words
<1>11. ArgsOf(words) = SubSeq(words, Min(first), Len(words))
  BY <1>6 DEF ArgsOf, first
<1> QED
  BY <1>4, <1>9, <1>10, <1>11 DEF words

(* The words of a command whose head the shell reads as hs.                *)
LEMMA HeadThenRest ==
    ASSUME NEW raw, NEW kind, Valued(raw, kind), NEW h, Ends(h)
    PROVE  /\ h \o Rest(raw, kind) \in Text
           /\ \E hs \in HeadWords : hs # <<>> /\ Shell(h \o Rest(raw, kind)) = hs \o Posted(raw, kind)
<1> DEFINE s == St("bare", <<>>, <<>>, FALSE)
           r == Rest(raw, kind)
<1>1. s \in Heads("bare") /\ s \in States
  <2>1. s \in Heads("bare")
    BY HeadIs, InHeads DEF HeadTyped, Modes
  <2> QED
    BY <2>1, Zenon DEF Heads
<1>2. Read(h, s) \in Open /\ h \in Text
  BY <1>1 DEF Ends
<1>3. PICK ws \in HeadWords, w \in HeadText : Read(h, s) = St("bare", ws, w, TRUE)
  BY <1>2, Zenon DEF Open
<1>4. ws \in Words /\ w \in Text /\ Append(ws, w) \in HeadWords
  BY HeadIs, Zenon DEF HeadTyped
<1>5. /\ r \in Text
      /\ EndWord(Read(r, St("bare", ws, w, TRUE))) = St("bare", Append(ws, w) \o Posted(raw, kind), <<>>, FALSE)
  BY <1>4, RestRead
<1> HIDE DEF r
<1>6. h \o r \in Text /\ Read(h \o r, s) = Read(r, Read(h, s))
  BY <1>1, <1>2, <1>5, ReadThen
<1>7. EndWord(Read(h \o r, s)) = St("bare", Append(ws, w) \o Posted(raw, kind), <<>>, FALSE)
  BY <1>3, <1>5, <1>6
<1>8. Shell(h \o r) = Append(ws, w) \o Posted(raw, kind)
  BY <1>6, <1>7, ShellIs
<1>9. Append(ws, w) # <<>>
  <2> DEFINE X == Text
  <2>1. ws \in Seq(X) /\ w \in X
    BY <1>4 DEF Words
  <2> HIDE DEF X
  <2> QED
    BY <2>1, AppendProperties
<1> QED
  BY <1>4, <1>6, <1>8, <1>9 DEF r

LEMMA PostedIs ==
    ASSUME NEW raw, NEW kind, Valued(raw, kind)
    PROVE  Posted(raw, kind) \in Words /\ Posted(raw, kind) # <<>> /\ Posted(raw, kind)[1] \in Flags
<1>1. Posted(raw, kind) # <<>> /\ Posted(raw, kind)[1] \in Flags
  BY DEF Posted, Flags
<1>2. Posted(raw, kind) \in Words
  <2> DEFINE sets == BuildArgs(Sent(raw, kind))
             f1 == <<"--data-dir">>
             f2 == <<"--set">>
             f4 == <<"--publish">>
             f5 == <<"--profile">>
             v1 == DataDir
             v2 == sets[1]
             v3 == sets[2]
             v4 == Publish[1]
             v5 == Publish[2]
  <2>1. /\ v1 \in Text /\ v2 \in Text /\ v3 \in Text /\ v4 \in Text /\ v5 \in Text
        /\ f1 \in Text /\ f2 \in Text /\ f4 \in Text /\ f5 \in Text
    BY ArgsAre DEF Valued, Argument
  <2>2. Posted(raw, kind) = <<f1, v1, f2, v2, f2, v3, f4, v4, f5, v5>>
    BY DEF Posted
  <2> HIDE DEF sets, f1, f2, f4, f5, v1, v2, v3, v4, v5
  <2> DEFINE X == Text
  <2> HIDE DEF X
  <2>3. <<f1, v1, f2, v2, f2, v3, f4, v4, f5, v5>> \in Seq(X)
    BY <2>1 DEF X
  <2> QED
    BY <2>2, <2>3 DEF X, Words
<1> QED
  BY <1>1, <1>2

(* A command that needs no second shell is the words that are posted.      *)
LEMMA UnwrappedArgv ==
    ASSUME NEW raw, NEW kind, Valued(raw, kind), NEW h, Ends(h)
    PROVE  Argv(h \o Rest(raw, kind)) = Posted(raw, kind)
<1> DEFINE t == h \o Rest(raw, kind)
<1>1. PICK hs \in HeadWords : hs # <<>> /\ Shell(t) = hs \o Posted(raw, kind)
  BY HeadThenRest
<1>2. ArgsOf(Shell(t)) = Posted(raw, kind)
  BY <1>1, PostedIs, PostedTaken
<1>3. Shell(t)[1] # <<"nix-shell">>
  <2> DEFINE X == Text
             Y == HeadText
             ps == Posted(raw, kind)
  <2>1. hs \in Seq(X) /\ ps \in Seq(X) /\ hs \in Seq(Y)
    BY <1>1, HeadIs, PostedIs DEF HeadTyped, Words, HeadWords
  <2> HIDE DEF X, Y, ps
  <2>2. Len(hs) \in Nat \ {0}
    BY <1>1, <2>1, EmptySeq
  <2>3. 1 \in 1..Len(hs)
    BY <2>2
  <2>4. hs[1] \in Y
    BY <2>1, <2>3, ElementOfSeq
  <2>5. (hs \o ps)[1] = hs[1]
    BY <2>1, <2>3, ConcatIs
  <2> QED
    BY <1>1, <2>4, <2>5, HeadWord DEF ps, Y
<1> HIDE DEF t
<1>4. Argv(t) = ArgsOf(Shell(t))
  BY <1>3 DEF Argv, ArgsOf
<1> QED
  BY <1>2, <1>4 DEF t
=============================================================================
