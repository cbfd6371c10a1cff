------------------------- MODULE CommandLineProofs --------------------------
(***************************************************************************)
(* For every text that a reader types, of any length, every kind of        *)
(* parameter and every setup, the command that is pasted does what the     *)
(* button does. The command is followed through cmd-rewrite, line by line, *)
(* through one shell or two (ShellProofs), and its value through the       *)
(* runner's parser.                                                        *)
(***************************************************************************)
EXTENDS ShellProofs

-----------------------------------------------------------------------------
(* A text as a list of lines: how it is split.                             *)

(* A list of lines that is being split: all but the last, and the last.    *)
SomeRows(D) == LineLists(D) \ {<<>>}
Splitter(D) == [x \in SomeRows(D) \X D |-> SplitChar(x[1], x[2])]

With(ls, l) == ls \o <<l>>
LEMMA LastLine ==
    ASSUME NEW D, NEW s \in SomeRows(D)
    PROVE  \E b \in LineLists(D), l \in Seq(D) : s = With(b, l)
<1> DEFINE X == Seq(D)
<1>1. s \in Seq(X) /\ s # <<>>
  BY DEF SomeRows, LineLists
<1> HIDE DEF X
<1>2. \E b \in Seq(X), l \in X : s = b \o <<l>>
  BY <1>1, SnocIs
<1> QED
  BY <1>2 DEF X, LineLists, With

RowsSnoc(D) == \A b \in LineLists(D), l \in Seq(D) : With(b, l) \in SomeRows(D)
LEMMA RowsSnocIs == ASSUME NEW D PROVE RowsSnoc(D)
<1> DEFINE X == Seq(D)
<1>1. ASSUME NEW b \in Seq(X), NEW l \in X PROVE b \o <<l>> \in Seq(X) /\ b \o <<l>> # <<>>
  <2>1. Append(b, l) = b \o <<l>>
    BY AppendIsConcat
  <2>2. Append(b, l) \in Seq(X) /\ Append(b, l) # <<>>
    BY AppendProperties
  <2> QED
    BY <2>1, <2>2
<1> HIDE DEF X
<1>2. \A b \in Seq(X), l \in X : b \o <<l>> \in Seq(X) /\ b \o <<l>> # <<>>
  BY <1>1
<1> QED
  BY <1>2 DEF X, RowsSnoc, SomeRows, LineLists, With

LEMMA SplitLast ==
    ASSUME NEW D, NEW b \in LineLists(D), NEW l \in Seq(D), NEW c \in D
    PROVE  /\ c = "NL" => SplitChar(With(b, l), c) = With(With(b, l), <<>>)
           /\ c # "NL" => SplitChar(With(b, l), c) = With(b, With(l, c))
           /\ SplitChar(With(b, l), c) \in SomeRows(D)
<1> DEFINE X == Seq(D)
           s == b \o <<l>>
           m == l \o <<c>>
           none == <<>>
<1>0. b \in Seq(X) /\ l \in X /\ none \in X /\ m \in X /\ Append(l, c) = m
  <2>1. m \in X
    BY Concats DEF Closed
  <2>2. Append(l, c) = m
    BY AppendIsConcat
  <2>3. none \in X
    OBVIOUS
  <2> QED
    BY <2>1, <2>2, <2>3 DEF LineLists
<1>1. s \in SomeRows(D) /\ s \in Seq(X)
  <2>1. s \in SomeRows(D)
    BY RowsSnocIs DEF RowsSnoc, With
  <2> QED
    BY <2>1 DEF SomeRows, LineLists
<1> HIDE DEF X, m, none
<1>2. Len(b) \in Nat /\ Len(s) = Len(b) + 1 /\ s[Len(s)] = l /\ \A i \in 1..Len(b) : s[i] = b[i]
  <2>1. Append(b, l) = s
    BY <1>0, AppendIsConcat
  <2> HIDE DEF s
  <2> QED
    BY <1>0, <2>1, AppendProperties, LenProperties
<1> HIDE DEF s
<1>3. CASE c = "NL"
  <2>1. SplitChar(s, c) = Append(s, none)
    BY <1>3 DEF SplitChar, none
  <2>2. Append(s, none) = s \o <<none>>
    BY <1>0, <1>1, AppendIsConcat
  <2>3. s \o <<none>> \in SomeRows(D)
    BY <1>0, <1>1, RowsSnocIs DEF RowsSnoc, SomeRows, X, With
  <2> QED
    BY <1>3, <2>1, <2>2, <2>3 DEF s, none, With
<1>4. CASE c # "NL"
  <2>1. SplitChar(s, c) = [s EXCEPT ![Len(s)] = m]
    BY <1>0, <1>2, <1>4 DEF SplitChar
  <2>2. Len(s) \in 1..Len(s)
    BY <1>2
  <2>3. /\ [s EXCEPT ![Len(s)] = m] \in Seq(X)
        /\ Len([s EXCEPT ![Len(s)] = m]) = Len(s)
        /\ \A j \in 1 .. Len(s) : [s EXCEPT ![Len(s)] = m][j] = IF j = Len(s) THEN m ELSE s[j]
    BY <1>0, <1>1, <2>2, ExceptSeq
  <2> DEFINE u == [s EXCEPT ![Len(s)] = m]
             v == Append(b, m)
  <2>4. v \in Seq(X) /\ Len(v) = Len(b) + 1 /\ v[Len(b) + 1] = m /\ \A i \in 1..Len(b) : v[i] = b[i]
    BY <1>0, AppendProperties
  <2>5. u \in Seq(X) /\ Len(u) = Len(s) /\ \A j \in 1 .. Len(s) : u[j] = IF j = Len(s) THEN m ELSE s[j]
    BY <2>3
  <2>6. v = b \o <<m>>
    BY <1>0, AppendIsConcat
  <2> HIDE DEF u, v
  <2>7. Len(u) = Len(v) /\ \A j \in 1..Len(u) : u[j] = v[j]
    <3>1. Len(u) = Len(b) + 1 /\ Len(v) = Len(b) + 1
      BY <1>2, <2>4, <2>5
    <3>2. ASSUME NEW j \in 1..Len(u) PROVE u[j] = v[j]
      <4>1. CASE j = Len(b) + 1
        BY <1>2, <2>4, <2>5, <3>1, <4>1
      <4>2. CASE j # Len(b) + 1
        <5>1. j \in 1..Len(b) /\ j \in 1..Len(s) /\ j # Len(s)
          BY <1>2, <3>1, <4>2
        <5> QED
          BY <1>2, <2>4, <2>5, <5>1
      <4> QED
        BY <4>1, <4>2
    <3> QED
      BY <3>1, <3>2
  <2>8. u = v
    BY <2>4, <2>5, <2>7, SeqEqual
  <2>9. b \o <<m>> \in SomeRows(D)
    BY <1>0, RowsSnocIs DEF RowsSnoc, X, With
  <2> QED
    BY <1>4, <2>1, <2>6, <2>8, <2>9 DEF u, s, m, With
<1> QED
  BY <1>3, <1>4

SplitSteps(D) ==
    /\ \A s \in SomeRows(D), c \in D : Splitter(D)[<<s, c>>] = SplitChar(s, c) /\ SplitChar(s, c) \in SomeRows(D)
    /\ <<<<>>>> \in SomeRows(D)
LEMMA SplitterIs == ASSUME NEW D PROVE Stepper(Splitter(D), SomeRows(D), D) /\ SplitSteps(D)
<1>1. ASSUME NEW s \in SomeRows(D), NEW c \in D PROVE SplitChar(s, c) \in SomeRows(D)
  <2>1. PICK b \in LineLists(D), l \in Seq(D) : s = With(b, l)
    BY LastLine
  <2> QED
    BY <2>1, SplitLast
<1>2. ASSUME NEW s \in SomeRows(D), NEW c \in D PROVE Splitter(D)[<<s, c>>] = SplitChar(s, c)
  <2>1. <<s, c>> \in SomeRows(D) \X D
    OBVIOUS
  <2> QED
    BY <2>1 DEF Splitter
<1>3. <<<<>>>> \in SomeRows(D)
  <2> DEFINE none == <<>>
  <2>1. none \in Seq(D)
    OBVIOUS
  <2> HIDE DEF none
  <2>2. <<none>> \in LineLists(D)
    BY <2>1, RowsJoin DEF RowsClosed
  <2>3. <<none>> # <<>>
    OBVIOUS
  <2> QED
    BY <2>2, <2>3 DEF SomeRows, none
<1> QED
  BY <1>1, <1>2, <1>3 DEF SplitSteps, Stepper

LEMMA AlongSplit ==
    ASSUME NEW D, NEW t \in Seq(D), NEW s \in SomeRows(D)
    PROVE  Along(t, s, SplitChar) = Fold(Splitter(D), t, s)
<1> DEFINE g == Splitter(D)
           n == Len(t)
           Def(h) == h = [i \in 0..n |-> IF i = 0 THEN s ELSE SplitChar(h[i - 1], t[i])]
           after == CHOOSE h : Def(h)
<1>1. n \in Nat /\ \A i \in 1..n : t[i] \in D
  OBVIOUS
<1>2. PICK f : RunOf(g, t, s, f) /\ \A i \in 0..n : f[i] \in SomeRows(D)
  BY SplitterIs, RunExists
<1> HIDE DEF g
<1>3. f[0] = s /\ \A i \in 1..n : f[i] = g[<<f[i - 1], t[i]>>]
  BY <1>2, RunStarts
<1>4. \A i \in 1..n : f[i] = SplitChar(f[i - 1], t[i])
  <2>1. \A i \in 1..n : f[i - 1] \in SomeRows(D)
    <3>1. \A i \in 1..n : i - 1 \in 0..n
      BY <1>1
    <3> QED
      BY <1>2, <3>1
  <2> QED
    BY <1>1, <1>3, <2>1, SplitterIs DEF SplitSteps, g
<1>5. Def([i \in 0..n |-> f[i]])
  <2> DEFINE F == [i \in 0..n |-> f[i]]
  <2>1. ASSUME NEW i \in 0..n PROVE F[i] = IF i = 0 THEN s ELSE SplitChar(F[i - 1], t[i])
    <3>1. CASE i = 0
      BY <1>3, <3>1
    <3>2. CASE i # 0
      <4>1. i \in 1..n /\ i - 1 \in 0..n
        BY <1>1, <3>2
      <4> QED
        BY <1>4, <3>2, <4>1
    <3> QED
      BY <3>1, <3>2
  <2>2. F = [i \in 0..n |-> F[i]]
    OBVIOUS
  <2> HIDE DEF F
  <2>3. Def(F)
    BY <2>1, <2>2
  <2> QED
    BY <2>3 DEF F
<1>6. Def(after)
  BY <1>5
<1>7. Along(t, s, SplitChar) = after[n]
  BY DEF Along
<1> HIDE DEF after
<1>8. after[0] = s /\ \A i \in 1..n : after[i] = SplitChar(after[i - 1], t[i])
  <2>1. \A i \in 0..n : after[i] = IF i = 0 THEN s ELSE SplitChar(after[i - 1], t[i])
    BY <1>6
  <2>2. 0 \in 0..n /\ \A i \in 1..n : i \in 0..n /\ i # 0
    BY <1>1
  <2> QED
    BY <2>1, <2>2
<1>9. \A i \in 0..n : after[i] = f[i]
  <2>1. Together(after, f, 0, n)
    BY <1>4, <1>8 DEF Together
  <2>2. after[0] = f[0]
    BY <1>3, <1>8
  <2>3. n \in Nat /\ 0 \in Nat
    BY <1>1
  <2> HIDE DEF n
  <2> QED
    BY <2>1, <2>2, <2>3, InStep
<1>10. Fold(g, t, s) = f[n]
  BY <1>2, FoldIs
<1>11. n \in 0..n
  BY <1>1
<1> QED
  BY <1>7, <1>9, <1>10, <1>11 DEF g

(* A text that is read to its end, from a list of lines.                   *)
Split(D, t, s) == Fold(Splitter(D), t, s)

SplitsText(D) ==
    /\ \A s : Split(D, <<>>, s) = s
    /\ \A t \in Seq(D), s \in SomeRows(D) : Split(D, t, s) \in SomeRows(D)
    /\ \A t, u \in Seq(D), s \in SomeRows(D) : Split(D, t \o u, s) = Split(D, u, Split(D, t, s))
    /\ \A t \in Seq(D), s \in SomeRows(D), c \in D : Split(D, t \o <<c>>, s) = SplitChar(Split(D, t, s), c)
    /\ \A t \in Seq(D) : Lines(t) = Split(D, t, <<<<>>>>) /\ Lines(t) \in SomeRows(D)
LEMMA SplitIs == ASSUME NEW D PROVE SplitsText(D)
<1>1. \A s : Split(D, <<>>, s) = s
  BY FoldEmpty DEF Split
<1>2. \A t \in Seq(D), s \in SomeRows(D) : Split(D, t, s) \in SomeRows(D)
  BY SplitterIs, FoldTyped DEF Split
<1>3. \A t, u \in Seq(D), s \in SomeRows(D) : Split(D, t \o u, s) = Split(D, u, Split(D, t, s))
  BY SplitterIs, FoldConcat DEF Split
<1>4. \A t \in Seq(D), s \in SomeRows(D), c \in D : Split(D, t \o <<c>>, s) = SplitChar(Split(D, t, s), c)
  <2>1. SUFFICES ASSUME NEW t \in Seq(D), NEW s \in SomeRows(D), NEW c \in D
                 PROVE  Split(D, t \o <<c>>, s) = SplitChar(Split(D, t, s), c)
    OBVIOUS
  <2>2. Split(D, t \o <<c>>, s) = Splitter(D)[<<Split(D, t, s), c>>]
    BY SplitterIs, FoldSnoc DEF Split
  <2> DEFINE r == Split(D, t, s)
  <2>3. r \in SomeRows(D)
    BY <1>2
  <2> HIDE DEF r
  <2>4. Splitter(D)[<<r, c>>] = SplitChar(r, c)
    BY <2>3, SplitterIs DEF SplitSteps
  <2> QED
    BY <2>2, <2>4 DEF r
<1>5. ASSUME NEW t \in Seq(D) PROVE Lines(t) = Split(D, t, <<<<>>>>) /\ Lines(t) \in SomeRows(D)
  <2> DEFINE s == <<<<>>>>
  <2>1. s \in SomeRows(D)
    BY SplitterIs DEF SplitSteps
  <2>2. Lines(t) = Along(t, s, SplitChar)
    BY DEF Lines
  <2> HIDE DEF s
  <2>3. Along(t, s, SplitChar) = Split(D, t, s)
    BY <2>1, AlongSplit DEF Split
  <2> QED
    BY <1>2, <2>1, <2>2, <2>3 DEF s
<1> QED
  BY <1>1, <1>2, <1>3, <1>4, <1>5 DEF SplitsText

(* Lines that are complete do not matter for what follows.                 *)
LEMMA SplitAfter ==
    ASSUME NEW D, NEW as \in LineLists(D), NEW s \in SomeRows(D), NEW t \in Seq(D)
    PROVE  as \o s \in SomeRows(D) /\ Split(D, t, as \o s) = as \o Split(D, t, s)
<1>0. RowsClosed(D) /\ RowsNeutral(D) /\ RowsAssoc(D) /\ SplitsText(D) /\ Closed(D)
  BY RowsJoin, SplitIs, Concats
<1>1. ASSUME NEW x \in SomeRows(D)
      PROVE  /\ as \o x \in SomeRows(D)
             /\ \A c \in D : SplitChar(as \o x, c) = as \o SplitChar(x, c)
  <2>1. PICK b \in LineLists(D), l \in Seq(D) : x = With(b, l)
    BY LastLine
  <2> DEFINE ab == as \o b
  <2>2. ab \in LineLists(D)
    BY <1>0, Zenon DEF RowsClosed
  <2>3. \A y \in LineLists(D), m \in Seq(D) : as \o With(y, m) = With(as \o y, m)
    <3> SUFFICES ASSUME NEW y \in LineLists(D), NEW m \in Seq(D) PROVE as \o (y \o <<m>>) = (as \o y) \o <<m>>
      BY Zenon DEF With
    <3> DEFINE one == <<m>>
    <3>1. one \in LineLists(D)
      BY <1>0, Zenon DEF RowsClosed
    <3> HIDE DEF one
    <3>2. (as \o y) \o one = as \o (y \o one)
      BY <1>0, <3>1, Zenon DEF RowsAssoc
    <3> QED
      BY <3>2 DEF one
  <2>4. as \o x = With(ab, l) /\ as \o x \in SomeRows(D)
    <3>1. as \o x = With(ab, l)
      BY <2>1, <2>3, Zenon
    <3> QED
      BY <2>2, <3>1, RowsSnocIs, Zenon DEF RowsSnoc
  <2> HIDE DEF ab
  <2>5. ASSUME NEW c \in D PROVE SplitChar(as \o x, c) = as \o SplitChar(x, c)
    <3>1. CASE c = "NL"
      <4>1. SplitChar(With(ab, l), c) = With(With(ab, l), <<>>)
        BY <2>2, <3>1, SplitLast
      <4>2. SplitChar(With(b, l), c) = With(With(b, l), <<>>)
        BY <3>1, SplitLast
      <4>3. <<>> \in Seq(D) /\ x \in LineLists(D)
        BY <1>0 DEF Closed, SomeRows
      <4>4. as \o With(x, <<>>) = With(as \o x, <<>>)
        BY <2>3, <4>3, Zenon
      <4> QED
        BY <2>1, <2>4, <4>1, <4>2, <4>4, Zenon
    <3>2. CASE c # "NL"
      <4>1. SplitChar(With(ab, l), c) = With(ab, With(l, c))
        BY <2>2, <3>2, SplitLast
      <4>2. SplitChar(With(b, l), c) = With(b, With(l, c))
        BY <3>2, SplitLast
      <4>3. With(l, c) \in Seq(D)
        BY <1>0 DEF Closed, With
      <4>4. as \o With(b, With(l, c)) = With(as \o b, With(l, c))
        BY <2>3, <4>3, Zenon
      <4> QED
        BY <2>1, <2>4, <4>1, <4>2, <4>4, Zenon DEF ab
    <3> QED
      BY <3>1, <3>2
  <2> QED
    BY <2>4, <2>5
<1> DEFINE T == {u \in Seq(D) : Split(D, u, as \o s) = as \o Split(D, u, s)}
<1>2. as \o s \in SomeRows(D)
  BY <1>1
<1>3. <<>> \in T
  <2>1. Split(D, <<>>, as \o s) = as \o s /\ Split(D, <<>>, s) = s
    BY <1>0, Zenon DEF SplitsText
  <2>2. <<>> \in Seq(D)
    OBVIOUS
  <2> QED
    BY <2>1, <2>2
<1>4. ASSUME NEW u \in T, NEW c \in D PROVE u \o <<c>> \in T
  <2>1. u \in Seq(D) /\ Split(D, u, as \o s) = as \o Split(D, u, s)
    OBVIOUS
  <2> DEFINE F == Split(D, u, s)
             v == u \o <<c>>
  <2>2. F \in SomeRows(D)
    BY <1>0, <2>1, Zenon DEF SplitsText
  <2>3. Split(D, v, s) = SplitChar(F, c)
    BY <1>0, <2>1, Zenon DEF SplitsText
  <2>4. Split(D, v, as \o s) = SplitChar(as \o F, c)
    <3> DEFINE z == as \o s
    <3>1. z \in SomeRows(D)
      BY <1>2
    <3>2. Split(D, u, z) = as \o F
      BY <2>1
    <3> HIDE DEF z
    <3>3. Split(D, v, z) = SplitChar(Split(D, u, z), c)
      BY <1>0, <2>1, <3>1, Zenon DEF SplitsText
    <3> QED
      BY <3>2, <3>3 DEF z
  <2>5. SplitChar(as \o F, c) = as \o SplitChar(F, c)
    BY <1>1, <2>2
  <2>6. v \in Seq(D)
    BY <1>0, <2>1, Zenon DEF Closed
  <2> QED
    BY <2>3, <2>4, <2>5, <2>6
<1>5. T = Seq(D)
  <2>1. T \subseteq Seq(D)
    OBVIOUS
  <2> HIDE DEF T
  <2> QED
    BY <1>3, <1>4, <2>1, TextInduction
<1> QED
  BY <1>2, <1>5

-----------------------------------------------------------------------------
(* A text that is split in the middle.                                     *)

(* One more line at the end of a list of lines.                            *)
WithAfter(D) == \A as, bs \in LineLists(D), l \in Seq(D) : as \o With(bs, l) = With(as \o bs, l)
LEMMA WithAfterIs == ASSUME NEW D PROVE WithAfter(D)
<1>0. RowsClosed(D) /\ RowsAssoc(D)
  BY RowsJoin
<1> SUFFICES ASSUME NEW as \in LineLists(D), NEW bs \in LineLists(D), NEW l \in Seq(D)
             PROVE  as \o (bs \o <<l>>) = (as \o bs) \o <<l>>
  BY Zenon DEF WithAfter, With
<1> DEFINE one == <<l>>
<1>1. one \in LineLists(D)
  BY <1>0, Zenon DEF RowsClosed
<1> HIDE DEF one
<1>2. (as \o bs) \o one = as \o (bs \o one)
  BY <1>0, <1>1, Zenon DEF RowsAssoc
<1> QED
  BY <1>2 DEF one

RowsInduct(D, T) == T \subseteq LineLists(D) /\ <<>> \in T /\ \A ls \in T, l \in Seq(D) : With(ls, l) \in T
LEMMA RowsInduction == ASSUME NEW D, NEW T, RowsInduct(D, T) PROVE T = LineLists(D)
<1> DEFINE X == Seq(D)
<1>1. T \subseteq Seq(X) /\ <<>> \in T /\ \A u \in T, c \in X : u \o <<c>> \in T
  BY DEF RowsInduct, LineLists, With
<1> HIDE DEF X
<1>2. T = Seq(X)
  BY <1>1, TextInduction
<1> QED
  BY <1>2 DEF LineLists, X

TextInduct(D, T) == T \subseteq Seq(D) /\ <<>> \in T /\ \A t \in T, c \in D : With(t, c) \in T
LEMMA TextsInduction == ASSUME NEW D, NEW T, TextInduct(D, T) PROVE T = Seq(D)
<1>1. T \subseteq Seq(D) /\ <<>> \in T /\ \A u \in T, c \in D : u \o <<c>> \in T
  BY DEF TextInduct, With
<1> QED
  BY <1>1, TextInduction

(* The lines of a text, character by character.                            *)
LinesRead(D) ==
    /\ Lines(<<>>) = <<<<>>>>
    /\ \A t \in Seq(D) : Lines(t) \in SomeRows(D)
    /\ \A t \in Seq(D), c \in D : Lines(With(t, c)) = SplitChar(Lines(t), c)
LEMMA LinesAre == ASSUME NEW D PROVE LinesRead(D)
<1>0. SplitsText(D) /\ Closed(D) /\ SplitSteps(D)
  BY SplitIs, Concats, SplitterIs
<1>1. Lines(<<>>) = <<<<>>>>
  <2>1. Lines(<<>>) = Split(D, <<>>, <<<<>>>>)
    BY <1>0, Zenon DEF SplitsText, Closed
  <2> QED
    BY <1>0, <2>1, Zenon DEF SplitsText
<1>2. \A t \in Seq(D) : Lines(t) \in SomeRows(D)
  BY <1>0, Zenon DEF SplitsText
<1>3. ASSUME NEW t \in Seq(D), NEW c \in D PROVE Lines(With(t, c)) = SplitChar(Lines(t), c)
  <2> DEFINE s == <<<<>>>>
  <2>1. s \in SomeRows(D)
    BY <1>0 DEF SplitSteps
  <2>2. \A u \in Seq(D) : Lines(u) = Split(D, u, s)
    BY <1>0, Zenon DEF SplitsText
  <2> HIDE DEF s
  <2>3. Split(D, t \o <<c>>, s) = SplitChar(Split(D, t, s), c)
    BY <1>0, <2>1, Zenon DEF SplitsText
  <2>4. t \o <<c>> \in Seq(D)
    BY <1>0, Zenon DEF Closed
  <2>5. Lines(t \o <<c>>) = Split(D, t \o <<c>>, s)
    BY <2>2, <2>4, Zenon
  <2>6. Lines(t) = Split(D, t, s)
    BY <2>2, Zenon
  <2> QED
    BY <2>3, <2>5, <2>6, Zenon DEF With
<1> QED
  BY <1>1, <1>2, <1>3, Zenon DEF LinesRead

LinesJoin(D) == \A t, u \in Seq(D) : Lines(With(t, "NL") \o u) = Lines(t) \o Lines(u)
LEMMA LinesThen == ASSUME NEW D, "NL" \in D PROVE LinesJoin(D)
<1>0. SplitsText(D) /\ Closed(D) /\ SplitSteps(D) /\ LinesRead(D)
  BY SplitIs, Concats, SplitterIs, LinesAre
<1> SUFFICES ASSUME NEW t \in Seq(D), NEW u \in Seq(D)
             PROVE  Lines(With(t, "NL") \o u) = Lines(t) \o Lines(u)
  BY Zenon DEF LinesJoin
<1> DEFINE v == With(t, "NL")
           s == <<<<>>>>
           ls == Lines(t)
<1>1. v \in Seq(D) /\ s \in SomeRows(D) /\ ls \in SomeRows(D) /\ ls \in LineLists(D)
  <2>1. v \in Seq(D)
    BY <1>0, Zenon DEF Closed, With
  <2>2. s \in SomeRows(D)
    BY <1>0, Zenon DEF SplitSteps
  <2>3. ls \in SomeRows(D)
    BY <1>0, Zenon DEF LinesRead
  <2> QED
    BY <2>1, <2>2, <2>3 DEF SomeRows
<1>2. Lines(v) = ls \o s
  <2>1. Lines(v) = SplitChar(ls, "NL")
    BY <1>0, Zenon DEF LinesRead
  <2>2. PICK b \in LineLists(D), l \in Seq(D) : ls = With(b, l)
    BY <1>1, LastLine
  <2> HIDE DEF ls, v, s
  <2>3. SplitChar(With(b, l), "NL") = With(With(b, l), <<>>)
    BY SplitLast
  <2> QED
    BY <2>1, <2>2, <2>3, Zenon DEF With, s
<1>3. /\ Lines(v \o u) = Split(D, v \o u, s) /\ Split(D, v \o u, s) = Split(D, u, Split(D, v, s))
      /\ Lines(v) = Split(D, v, s) /\ Lines(u) = Split(D, u, s)
  <2>1. \A x \in Seq(D) : Lines(x) = Split(D, x, s)
    BY <1>0, Zenon DEF SplitsText
  <2> HIDE DEF v, s
  <2>2. v \o u \in Seq(D)
    BY <1>0, <1>1, Zenon DEF Closed
  <2>3. Split(D, v \o u, s) = Split(D, u, Split(D, v, s))
    BY <1>0, <1>1, Zenon DEF SplitsText
  <2> QED
    BY <1>1, <2>1, <2>2, <2>3, Zenon
<1> HIDE DEF v, s, ls
<1>4. Split(D, u, ls \o s) = ls \o Split(D, u, s)
  BY <1>1, SplitAfter
<1> QED
  BY <1>2, <1>3, <1>4, Zenon DEF v, ls

(* A text without a newline is one line.                                   *)
LEMMA OneLine == ASSUME NEW D, "NL" \notin D, NEW t \in Seq(D) PROVE Lines(t) = <<t>>
<1>0. LinesRead(D) /\ Closed(D) /\ RowsClosed(D) /\ RowsNeutral(D)
  BY LinesAre, Concats, RowsJoin
<1>1. \A u \in Seq(D) : <<u>> = With(<<>>, u)
  <2> SUFFICES ASSUME NEW u \in Seq(D) PROVE <<u>> = <<>> \o <<u>>
    BY Zenon DEF With
  <2> DEFINE one == <<u>>
  <2>1. one \in LineLists(D)
    BY <1>0, Zenon DEF RowsClosed
  <2> HIDE DEF one
  <2>2. <<>> \o one = one
    BY <1>0, <2>1, Zenon DEF RowsNeutral
  <2> QED
    BY <2>2 DEF one
<1> DEFINE T == {u \in Seq(D) : Lines(u) = With(<<>>, u)}
<1>2. <<>> \in T
  <2>1. <<>> \in Seq(D) /\ Lines(<<>>) = <<<<>>>>
    BY <1>0, Zenon DEF LinesRead, Closed
  <2>2. <<<<>>>> = With(<<>>, <<>>)
    BY <1>1, <2>1, Zenon
  <2> QED
    BY <2>1, <2>2
<1>3. ASSUME NEW u \in T, NEW c \in D PROVE With(u, c) \in T
  <2>1. u \in Seq(D) /\ Lines(u) = With(<<>>, u) /\ c # "NL"
    OBVIOUS
  <2>2. Lines(With(u, c)) = SplitChar(With(<<>>, u), c)
    BY <1>0, <2>1, Zenon DEF LinesRead
  <2>3. <<>> \in LineLists(D)
    BY <1>0, Zenon DEF RowsClosed
  <2>4. SplitChar(With(<<>>, u), c) = With(<<>>, With(u, c))
    BY <2>1, <2>3, SplitLast
  <2>5. With(u, c) \in Seq(D)
    BY <1>0, <2>1, Zenon DEF Closed, With
  <2> QED
    BY <2>2, <2>4, <2>5
<1>4. TextInduct(D, T)
  BY <1>2, <1>3 DEF TextInduct
<1> HIDE DEF T
<1>5. t \in T
  BY <1>4, TextsInduction
<1> QED
  BY <1>1, <1>5, Zenon DEF T

-----------------------------------------------------------------------------
(* Lines joined again are the text they came from.                         *)

(* Lines, each after a newline.                                            *)
Hang(D)  == [l \in Seq(D) |-> <<"NL">> \o l]
Hung(ls) == FlattenSeq([k \in DOMAIN ls |-> <<"NL">> \o ls[k]])

SpellsSnoc(e, D) == \A t \in Seq(D), c \in D : SpellBy(e, With(t, c)) = SpellBy(e, t) \o e[c]
LEMMA SpellWith == ASSUME NEW D, NEW S, NEW e, Spelling(e, D, S) PROVE SpellsSnoc(e, D)
<1>1. ASSUME NEW t \in Seq(D), NEW c \in D PROVE SpellBy(e, t \o <<c>>) = SpellBy(e, t) \o e[c]
  BY SpellSnoc
<1> QED
  BY <1>1, Zenon DEF SpellsSnoc, With

Hangs(D) ==
    /\ Hung(<<>>) = <<>>
    /\ \A ls \in LineLists(D) : Hung(ls) \in Seq(D)
    /\ \A ls \in LineLists(D), l \in Seq(D) : Hung(With(ls, l)) = Hung(ls) \o (<<"NL">> \o l)
LEMMA HungIs == ASSUME NEW D, "NL" \in D PROVE Hangs(D)
<1> DEFINE X == Seq(D)
           e == Hang(D)
<1>1. \A l \in X : e[l] = <<"NL">> \o l /\ e[l] \in X
  <2> SUFFICES ASSUME NEW l \in X PROVE e[l] = <<"NL">> \o l /\ e[l] \in X
    OBVIOUS
  <2>1. <<"NL">> \in X /\ \A a, b \in X : a \o b \in X
    BY Concats DEF Closed
  <2>2. e[l] = <<"NL">> \o l
    BY DEF Hang
  <2> QED
    BY <2>1, <2>2
<1>2. Spelling(e, X, D)
  BY <1>1 DEF Spelling
<1> HIDE DEF e
<1>3. ASSUME NEW ls \in LineLists(D) PROVE Hung(ls) = SpellBy(e, ls)
  <2>1. ls \in Seq(X)
    BY DEF LineLists
  <2> HIDE DEF X
  <2>2. \A k \in DOMAIN ls : ls[k] \in X
    BY <2>1
  <2>3. [k \in DOMAIN ls |-> <<"NL">> \o ls[k]] = [k \in DOMAIN ls |-> e[ls[k]]]
    BY <1>1, <2>2
  <2> QED
    BY <2>3 DEF Hung, SpellBy
<1>4. Hung(<<>>) = <<>>
  <2>1. <<>> \in LineLists(D)
    BY RowsJoin DEF RowsClosed
  <2> QED
    BY <1>3, <2>1, SpellEmpty
<1>5. \A ls \in LineLists(D) : Hung(ls) \in Seq(D)
  <2> SUFFICES ASSUME NEW ls \in LineLists(D) PROVE Hung(ls) \in Seq(D)
    OBVIOUS
  <2>1. ls \in Seq(X)
    BY DEF LineLists
  <2> HIDE DEF X
  <2>2. SpellBy(e, ls) \in Seq(D)
    BY <1>2, <2>1, SpellTyped
  <2> QED
    BY <1>3, <2>2
<1>6. ASSUME NEW ls \in LineLists(D), NEW l \in Seq(D) PROVE Hung(With(ls, l)) = Hung(ls) \o (<<"NL">> \o l)
  <2>1. ls \in Seq(X) /\ l \in X /\ With(ls, l) \in LineLists(D)
    BY RowsSnocIs DEF LineLists, RowsSnoc, SomeRows
  <2> HIDE DEF X
  <2>2. SpellsSnoc(e, X)
    BY <1>2, SpellWith
  <2>3. Hung(With(ls, l)) = SpellBy(e, With(ls, l))
    BY <1>3, <2>1
  <2>4. e[l] = <<"NL">> \o l
    BY <1>1, <2>1
  <2>5. SpellBy(e, With(ls, l)) = SpellBy(e, ls) \o e[l]
    BY <2>1, <2>2, Zenon DEF SpellsSnoc
  <2> QED
    BY <1>3, <2>3, <2>4, <2>5, Zenon
<1> QED
  BY <1>4, <1>5, <1>6, Zenon DEF Hangs

HangsJoin(D) == \A as, bs \in LineLists(D) : Hung(as \o bs) = Hung(as) \o Hung(bs)
LEMMA HungConcat == ASSUME NEW D, "NL" \in D PROVE HangsJoin(D)
<1>0. /\ Hangs(D) /\ RowsClosed(D) /\ RowsNeutral(D) /\ WithAfter(D) /\ Closed(D) /\ Assoc(D) /\ Neutral(D)
      /\ RowsSnoc(D)
  BY HungIs, RowsJoin, WithAfterIs, Concats, RowsSnocIs
<1> SUFFICES ASSUME NEW as \in LineLists(D), NEW bs \in LineLists(D)
             PROVE  Hung(as \o bs) = Hung(as) \o Hung(bs)
  BY Zenon DEF HangsJoin
<1> DEFINE T == {ls \in LineLists(D) : Hung(as \o ls) = Hung(as) \o Hung(ls)}
<1>1. <<>> \in T
  <2>1. <<>> \in LineLists(D) /\ as \o <<>> = as /\ Hung(as) \in Seq(D)
    BY <1>0, Zenon DEF RowsClosed, RowsNeutral, Hangs
  <2>2. Hung(as) \o <<>> = Hung(as) /\ Hung(<<>>) = <<>>
    BY <1>0, <2>1, Zenon DEF Neutral, Hangs
  <2> QED
    BY <2>1, <2>2
<1>2. ASSUME NEW ls \in T, NEW l \in Seq(D) PROVE With(ls, l) \in T
  <2>1. ls \in LineLists(D) /\ Hung(as \o ls) = Hung(as) \o Hung(ls)
    OBVIOUS
  <2> DEFINE n == <<"NL">> \o l
             x == Hung(as)
             y == Hung(ls)
  <2>2. n \in Seq(D) /\ x \in Seq(D) /\ y \in Seq(D)
    <3>1. <<"NL">> \in Seq(D)
      BY <1>0 DEF Closed
    <3>2. n \in Seq(D)
      BY <1>0, <3>1, Zenon DEF Closed
    <3> QED
      BY <1>0, <2>1, <3>2, Zenon DEF Hangs
  <2>3. as \o With(ls, l) = With(as \o ls, l) /\ as \o ls \in LineLists(D) /\ With(ls, l) \in LineLists(D)
    <3>1. as \o With(ls, l) = With(as \o ls, l)
      BY <1>0, <2>1, Zenon DEF WithAfter
    <3>2. as \o ls \in LineLists(D)
      BY <1>0, <2>1, Zenon DEF RowsClosed
    <3>3. With(ls, l) \in SomeRows(D)
      BY <1>0, <2>1, Zenon DEF RowsSnoc
    <3> QED
      BY <3>1, <3>2, <3>3 DEF SomeRows
  <2>4. Hung(With(as \o ls, l)) = Hung(as \o ls) \o n /\ Hung(With(ls, l)) = y \o n
    BY <1>0, <2>1, <2>3, Zenon DEF Hangs
  <2> HIDE DEF n, x, y
  <2>5. (x \o y) \o n = x \o (y \o n)
    BY <1>0, <2>2, Zenon DEF Assoc
  <2>6. Hung(as \o With(ls, l)) = x \o Hung(With(ls, l))
    BY <2>1, <2>3, <2>4, <2>5, Zenon DEF x, y
  <2> QED
    BY <2>3, <2>6 DEF x
<1>3. RowsInduct(D, T)
  BY <1>1, <1>2 DEF RowsInduct
<1> HIDE DEF T
<1>4. bs \in T
  BY <1>3, RowsInduction
<1> QED
  BY <1>4, Zenon DEF T

(* The lines of a text are the text.                                       *)
HangsLines(D) == \A t \in Seq(D) : Hung(Lines(t)) = <<"NL">> \o t
LEMMA HungLines == ASSUME NEW D, "NL" \in D PROVE HangsLines(D)
<1> DEFINE nl == <<"NL">>
<1>0. /\ Hangs(D) /\ LinesRead(D) /\ Closed(D) /\ Assoc(D) /\ Neutral(D) /\ RowsSnoc(D) /\ RowsClosed(D)
      /\ nl \in Seq(D) /\ RowsNeutral(D)
  BY HungIs, LinesAre, Concats, RowsSnocIs, RowsJoin DEF Closed
<1> DEFINE T == {u \in Seq(D) : Hung(Lines(u)) = nl \o u}
<1>1. <<>> \in T
  <2>1. <<>> \in Seq(D) /\ <<>> \in LineLists(D) /\ Lines(<<>>) = <<<<>>>>
    BY <1>0, Zenon DEF Closed, RowsClosed, LinesRead
  <2>2. <<<<>>>> = With(<<>>, <<>>)
    <3> DEFINE one == <<<<>>>>
    <3>1. one \in LineLists(D)
      BY <1>0, <2>1, Zenon DEF RowsClosed
    <3> HIDE DEF one
    <3>2. <<>> \o one = one
      BY <1>0, <3>1, Zenon DEF RowsNeutral
    <3> QED
      BY <3>2, Zenon DEF one, With
  <2>3. Hung(With(<<>>, <<>>)) = Hung(<<>>) \o (nl \o <<>>)
    BY <1>0, <2>1, Zenon DEF Hangs
  <2> HIDE DEF nl
  <2>4. nl \o <<>> = nl /\ <<>> \o nl = nl /\ Hung(<<>>) = <<>>
    BY <1>0, Zenon DEF Neutral, Hangs
  <2>5. Hung(Lines(<<>>)) = nl \o <<>>
    BY <2>1, <2>2, <2>3, <2>4, Zenon
  <2> QED
    BY <2>1, <2>5
<1>2. ASSUME NEW u \in T, NEW c \in D PROVE With(u, c) \in T
  <2>1. u \in Seq(D) /\ Hung(Lines(u)) = nl \o u
    OBVIOUS
  <2> DEFINE one == <<c>>
             ls == Lines(u)
  <2>2. one \in Seq(D) /\ ls \in SomeRows(D) /\ Lines(With(u, c)) = SplitChar(ls, c) /\ With(u, c) \in Seq(D)
    BY <1>0, <2>1, Zenon DEF Closed, LinesRead, With
  <2>3. PICK b \in LineLists(D), l \in Seq(D) : ls = With(b, l)
    BY <2>2, LastLine
  <2> HIDE DEF ls, nl
  <2> DEFINE x == Hung(b)
  <2>4. x \in Seq(D) /\ Hung(ls) = x \o (nl \o l)
    <3>1. x \in Seq(D)
      BY <1>0, Zenon DEF Hangs
    <3>2. Hung(With(b, l)) = x \o (nl \o l)
      BY <1>0, Zenon DEF Hangs, nl
    <3> QED
      BY <2>3, <3>1, <3>2
  <2>5. With(u, c) = u \o one
    BY DEF With
  <2>6. nl \o (u \o one) = (nl \o u) \o one
    <3> HIDE DEF one
    <3> QED
      BY <1>0, <2>1, <2>2, Zenon DEF Assoc
  <2>7. CASE c = "NL"
    <3>1. SplitChar(ls, c) = With(ls, <<>>)
      BY <2>3, <2>7, SplitLast
    <3>2. ls \in LineLists(D) /\ <<>> \in Seq(D)
      BY <1>0, <2>2 DEF SomeRows, Closed
    <3>3. Hung(With(ls, <<>>)) = Hung(ls) \o (nl \o <<>>)
      BY <1>0, <3>2, Zenon DEF Hangs, nl
    <3>4. nl \o <<>> = nl /\ nl = one
      BY <1>0, <2>7, Zenon DEF Neutral, nl
    <3>5. Hung(Lines(With(u, c))) = nl \o With(u, c)
      <4> HIDE DEF one
      <4> QED
        BY <2>1, <2>2, <2>5, <2>6, <3>1, <3>3, <3>4, Zenon DEF ls
    <3> QED
      BY <2>2, <3>5
  <2>8. CASE c # "NL"
    <3>1. SplitChar(ls, c) = With(b, With(l, c))
      BY <2>3, <2>8, SplitLast
    <3>2. With(l, c) \in Seq(D) /\ With(l, c) = l \o one
      BY <1>0, Zenon DEF Closed, With
    <3> HIDE DEF one, x
    <3>3. Hung(With(b, With(l, c))) = x \o (nl \o (l \o one))
      BY <1>0, <3>2, Zenon DEF Hangs, nl, x
    <3>4. nl \o l \in Seq(D)
      BY <1>0, Zenon DEF Closed
    <3>5. nl \o (l \o one) = (nl \o l) \o one
      BY <1>0, <2>2, Zenon DEF Assoc
    <3>6. x \o ((nl \o l) \o one) = (x \o (nl \o l)) \o one
      <4> DEFINE y == nl \o l
      <4>1. x \in Seq(D) /\ y \in Seq(D) /\ one \in Seq(D) /\ Assoc(D)
        BY <1>0, <2>2, <2>4, <3>4
      <4> HIDE DEF y
      <4>2. (x \o y) \o one = x \o (y \o one)
        BY <4>1, Zenon DEF Assoc
      <4> QED
        BY <4>2, Zenon DEF y
    <3>7. Hung(Lines(With(u, c))) = nl \o With(u, c)
      BY <2>1, <2>2, <2>4, <2>5, <2>6, <3>1, <3>3, <3>5, <3>6, Zenon DEF ls
    <3> QED
      BY <2>2, <3>7
  <2> QED
    BY <2>7, <2>8
<1>3. TextInduct(D, T)
  BY <1>1, <1>2 DEF TextInduct
<1> HIDE DEF T
<1>4. \A t \in Seq(D) : t \in T
  BY <1>3, TextsInduction
<1> QED
  BY <1>4, Zenon DEF T, HangsLines

(* Joining is what hangs the lines, but for the first newline.             *)
LEMMA TailOf == ASSUME NEW D, NEW c \in D, NEW x \in Seq(D) PROVE Tail(<<c>> \o x) = x
<1> DEFINE one == <<c>>
           s == one \o x
<1>1. one \in Seq(D) /\ Len(one) = 1 /\ one[1] = c
  OBVIOUS
<1>2. /\ s \in Seq(D) /\ Len(s) = 1 + Len(x) /\ Len(x) \in Nat
      /\ \A i \in 1..Len(x) : s[1 + i] = x[i]
  <2> HIDE DEF one
  <2> QED
    BY <1>1, ConcatIs
<1> HIDE DEF s
<1>3. s # <<>>
  BY <1>2
<1>4. /\ Tail(s) \in Seq(D) /\ Len(Tail(s)) = Len(s) - 1
      /\ \A i \in 1 .. Len(Tail(s)) : Tail(s)[i] = s[i + 1]
  BY <1>2, <1>3, HeadTailProperties
<1> DEFINE v == Tail(s)
<1>5. v \in Seq(D) /\ Len(v) = Len(x) /\ \A i \in 1..Len(v) : v[i] = x[i]
  BY <1>2, <1>4
<1> HIDE DEF v
<1>6. v = x
  BY <1>5, SeqEqual
<1> QED
  BY <1>6 DEF v, s

Joins(D) ==
    /\ \A ls \in SomeRows(D) : Join(ls) \in Seq(D) /\ <<"NL">> \o Join(ls) = Hung(ls)
    /\ \A ls \in LineLists(D), x \in Seq(D) : Hung(ls) = <<"NL">> \o x => Join(ls) = x
LEMMA JoinIs == ASSUME NEW D, "NL" \in D PROVE Joins(D)
<1> DEFINE nl == <<"NL">>
<1>0. Hangs(D) /\ Closed(D) /\ Assoc(D) /\ Neutral(D) /\ nl \in Seq(D) /\ RowsSnoc(D)
  BY HungIs, Concats, RowsSnocIs DEF Closed
<1>1. ASSUME NEW ls \in LineLists(D), NEW x \in Seq(D), Hung(ls) = nl \o x PROVE Join(ls) = x
  <2>1. Join(ls) = Tail(Hung(ls))
    BY DEF Join, Hung
  <2>2. Tail(nl \o x) = x
    BY TailOf
  <2> QED
    BY <1>1, <2>1, <2>2, Zenon
<1>2. ASSUME NEW ls \in SomeRows(D) PROVE \E x \in Seq(D) : Hung(ls) = nl \o x
  <2> DEFINE T == {as \in LineLists(D) : as = <<>> \/ \E x \in Seq(D) : Hung(as) = nl \o x}
  <2>1. <<>> \in T
    BY RowsJoin DEF RowsClosed
  <2>2. ASSUME NEW as \in T, NEW l \in Seq(D) PROVE With(as, l) \in T
    <3>1. as \in LineLists(D)
      OBVIOUS
    <3>2. Hung(With(as, l)) = Hung(as) \o (nl \o l)
      BY <1>0, <3>1, Zenon DEF Hangs
    <3>3. With(as, l) \in LineLists(D)
      BY <1>0, <3>1 DEF RowsSnoc, SomeRows
    <3> HIDE DEF nl
    <3>4. nl \o l \in Seq(D)
      BY <1>0, Zenon DEF Closed
    <3>5. CASE as = <<>>
      <4>1. Hung(<<>>) = <<>> /\ <<>> \o (nl \o l) = nl \o l
        BY <1>0, <3>4, Zenon DEF Hangs, Neutral
      <4>2. Hung(With(as, l)) = nl \o l
        BY <3>2, <3>5, <4>1
      <4> QED
        BY <3>3, <4>2
    <3>6. CASE as # <<>>
      <4>1. PICK x \in Seq(D) : Hung(as) = nl \o x
        BY <3>6
      <4>2. (nl \o x) \o (nl \o l) = nl \o (x \o (nl \o l)) /\ x \o (nl \o l) \in Seq(D)
        <5>1. (nl \o x) \o (nl \o l) = nl \o (x \o (nl \o l))
          BY <1>0, <3>4, Zenon DEF Assoc
        <5>2. x \o (nl \o l) \in Seq(D)
          BY <1>0, <3>4, Zenon DEF Closed
        <5> QED
          BY <5>1, <5>2
      <4> DEFINE y == x \o (nl \o l)
      <4>3. Hung(With(as, l)) = nl \o y /\ y \in Seq(D)
        BY <3>2, <4>1, <4>2, Zenon
      <4> HIDE DEF y
      <4> QED
        BY <3>3, <4>3
    <3> QED
      BY <3>5, <3>6
  <2>3. RowsInduct(D, T)
    BY <2>1, <2>2 DEF RowsInduct
  <2> HIDE DEF T
  <2>4. ls \in T /\ ls # <<>>
    BY <2>3, RowsInduction DEF SomeRows
  <2> QED
    BY <2>4, Zenon DEF T
<1>3. ASSUME NEW ls \in SomeRows(D) PROVE Join(ls) \in Seq(D) /\ nl \o Join(ls) = Hung(ls)
  <2>1. PICK x \in Seq(D) : Hung(ls) = nl \o x
    BY <1>2
  <2>2. ls \in LineLists(D)
    BY DEF SomeRows
  <2>3. Join(ls) = x
    BY <1>1, <2>1, <2>2
  <2> QED
    BY <2>1, <2>3, Zenon
<1> QED
  BY <1>1, <1>3, Zenon DEF Joins

-----------------------------------------------------------------------------
(* The rewriting goes through the lines: which belong to a command.        *)

(* Where a command that begins on line i ends.                             *)
EndOf(ls, i) == Min({k \in i..Len(ls) : ~Continued(ls[k])} \cup {Len(ls)})

LEMMA EndIs ==
    ASSUME NEW ls, Len(ls) \in Nat, NEW i \in 1..Len(ls)
    PROVE  /\ EndOf(ls, i) \in i..Len(ls)
           /\ EndOf(ls, i) = Len(ls) \/ ~Continued(ls[EndOf(ls, i)])
           /\ \A k \in i..(EndOf(ls, i) - 1) : Continued(ls[k])
<1> DEFINE n == Len(ls)
           T == {k \in i..n : ~Continued(ls[k])} \cup {n}
           m == Min(T)
<1>1. T \subseteq Nat /\ T \subseteq i..n /\ n \in T
  OBVIOUS
<1>2. \A k \in i..n : Continued(ls[k]) \/ k \in T
  OBVIOUS
<1>3. \A k \in T : k = n \/ ~Continued(ls[k])
  OBVIOUS
<1> HIDE DEF T
<1>4. m \in T /\ \A k \in T : m <= k
  <2>1. \E x \in T : \A k \in T : x <= k
    BY <1>1, Least
  <2> QED
    BY <2>1 DEF Min
<1>5. EndOf(ls, i) = m
  BY DEF EndOf, T
<1> HIDE DEF m
<1>6. \A k \in i..(m - 1) : Continued(ls[k])
  BY <1>1, <1>2, <1>4
<1> QED
  BY <1>1, <1>3, <1>4, <1>5, <1>6

(* The lines from line i on, rewritten.                                    *)
Next1(f, ls, p, i) ==
    IF i > Len(ls) THEN <<>>
    ELSE IF Name \in ToSet(ls[i])
         THEN <<RewriteSpan(SubSeq(ls, i, EndOf(ls, i)), p)>> \o f[EndOf(ls, i) + 1]
         ELSE <<ls[i]>> \o f[i + 1]
FromEq(f, ls, p) == f = [i \in 1..Len(ls) + 1 |-> Next1(f, ls, p, i)]
From(ls, p) == (CHOOSE f : FromEq(f, ls, p))[1]

LEMMA RewriteIs == ASSUME NEW t, NEW p PROVE RewriteCmd(t, p) = Join(From(Lines(t), p))
  BY DEF RewriteCmd, From, FromEq, Next1, EndOf

LEMMA FromUnique ==
    ASSUME NEW ls, Len(ls) \in Nat, NEW p, NEW f, NEW h, FromEq(f, ls, p), FromEq(h, ls, p)
    PROVE  f[1] = h[1]
<1> DEFINE n == Len(ls)
           T == {j \in 0..n : f[n + 1 - j] # h[n + 1 - j]}
<1>0. /\ \A i \in 1..n + 1 : f[i] = Next1(f, ls, p, i)
      /\ \A i \in 1..n + 1 : h[i] = Next1(h, ls, p, i)
  BY DEF FromEq
<1>1. ASSUME T # {} PROVE FALSE
  <2>0. T \subseteq Nat
    OBVIOUS
  <2> HIDE DEF T
  <2>1. PICK m \in T : \A j \in T : m <= j
    BY <1>1, <2>0, Least
  <2> DEFINE i == n + 1 - m
  <2>2. m \in 0..n /\ f[i] # h[i]
    BY <2>1 DEF T
  <2>3. i \in 1..n + 1
    BY <2>2
  <2>4. \A k \in (i + 1)..(n + 1) : f[k] = h[k]
    <3> SUFFICES ASSUME NEW k \in (i + 1)..(n + 1), f[k] # h[k] PROVE FALSE
      OBVIOUS
    <3> DEFINE j == n + 1 - k
    <3>1. j \in 0..n /\ n + 1 - j = k /\ j < m
      BY <2>2, <2>3
    <3>2. j \in T
      BY <3>1 DEF T
    <3> QED
      BY <2>1, <2>2, <3>1, <3>2
  <2> HIDE DEF i
  <2>5. i \in 1..n => i + 1 \in (i + 1)..(n + 1)
    OBVIOUS
  <2>6. i \in 1..n => EndOf(ls, i) + 1 \in (i + 1)..(n + 1)
    BY EndIs
  <2>7. i \in 1..n \/ i > n
    BY <2>3
  <2>8. Next1(f, ls, p, i) = Next1(h, ls, p, i)
    <3>1. CASE i > n
      BY <3>1 DEF Next1
    <3>2. CASE i \in 1..n
      <4> DEFINE z == EndOf(ls, i) + 1
      <4>1. f[i + 1] = h[i + 1] /\ f[z] = h[z]
        BY <2>4, <2>5, <2>6, <3>2
      <4> QED
        BY <4>1, Zenon DEF Next1
    <3> QED
      BY <2>7, <3>1, <3>2
  <2> QED
    BY <1>0, <2>2, <2>3, <2>8
<1>2. n \in 0..n /\ n + 1 - n = 1
  OBVIOUS
<1> HIDE DEF n
<1> QED
  BY <1>1, <1>2

(* When one line alone, at a, holds the name.                              *)
LEMMA FromIs ==
    ASSUME NEW X, NEW ls \in Seq(X), NEW a \in 1..Len(ls), NEW p,
           \A i \in 1..Len(ls) : Name \in ToSet(ls[i]) <=> i = a,
           RewriteSpan(SubSeq(ls, a, EndOf(ls, a)), p) \in X
    PROVE  From(ls, p) = SubSeq(ls, 1, a - 1)
                           \o (<<RewriteSpan(SubSeq(ls, a, EndOf(ls, a)), p)>>
                                 \o SubSeq(ls, EndOf(ls, a) + 1, Len(ls)))
<1> DEFINE n == Len(ls)
           e == EndOf(ls, a)
           R == RewriteSpan(SubSeq(ls, a, e), p)
           one == <<R>>
           C == one \o SubSeq(ls, e + 1, n)
           F == [i \in 1..n + 1 |-> IF i > a THEN SubSeq(ls, i, n) ELSE SubSeq(ls, i, a - 1) \o C]
<1>8. Assoc(X)
  BY Concats
<1>0. n \in Nat /\ a \in 1..n /\ DOMAIN ls = 1..n /\ \A i \in 1..n : ls[i] \in X
  OBVIOUS
<1>1. e \in a..n
  BY <1>0, EndIs
<1>2. \A i, j \in 1..n + 1 : SubSeq(ls, i, j - 1) \in Seq(X)
  <2> SUFFICES ASSUME NEW i \in 1..n + 1, NEW j \in 1..n + 1 PROVE SubSeq(ls, i, j - 1) \in Seq(X)
    OBVIOUS
  <2> DEFINE k == j - 1
  <2>1. i \in Int /\ k \in Int /\ \A q \in i..k : ls[q] \in X
    BY <1>0
  <2> HIDE DEF k
  <2>2. SubSeq(ls, i, k) \in Seq(X)
    BY <2>1, SubSeqProperties
  <2> QED
    BY <2>2 DEF k
<1>3. one \in Seq(X) /\ SubSeq(ls, e + 1, n) \in Seq(X) /\ C \in Seq(X)
  <2>1. one \in Seq(X)
    BY OneIs
  <2>2. SubSeq(ls, e + 1, n) \in Seq(X)
    <3>1. e + 1 \in 1..n + 1 /\ n + 1 \in 1..n + 1 /\ (n + 1) - 1 = n
      BY <1>0, <1>1
    <3> HIDE DEF e, n
    <3> QED
      BY <1>2, <3>1
  <2> HIDE DEF one, e
  <2>3. one \o SubSeq(ls, e + 1, n) \in Seq(X)
    BY <2>1, <2>2, ConcatIs
  <2> QED
    BY <2>1, <2>2, <2>3
<1> HIDE DEF C, R, one, e
<1>4. ASSUME NEW i \in 1..n + 1 PROVE F[i] = Next1(F, ls, p, i)
  <2>1. CASE i = n + 1
    <3>0. i > a /\ i > Len(ls)
      BY <1>0, <2>1
    <3>1. F[i] = SubSeq(ls, i, n)
      BY <3>0
    <3>2. SubSeq(ls, i, n) = <<>>
      BY <1>0, <2>1, SubSeqEmpty
    <3> HIDE DEF F
    <3> QED
      BY <3>0, <3>1, <3>2, Zenon DEF Next1
  <2>2. CASE i \in 1..n /\ i > a
    <3>1. F[i] = SubSeq(ls, i, n) /\ F[i + 1] = SubSeq(ls, i + 1, n)
      BY <1>0, <2>2
    <3>2. SubSeq(ls, i, n) = <<ls[i]>> \o SubSeq(ls, i + 1, n)
      <4>1. i \in 1..Len(ls) /\ n \in i..Len(ls)
        BY <1>0, <2>2
      <4> QED
        BY <4>1, SubSeqRecursiveFirst
    <3>3. ~(i > Len(ls)) /\ Name \notin ToSet(ls[i])
      BY <1>0, <2>2
    <3> HIDE DEF F
    <3> QED
      BY <3>1, <3>2, <3>3, Zenon DEF Next1
  <2>3. CASE i = a
    <3>1. F[i] = SubSeq(ls, a, a - 1) \o C /\ F[e + 1] = SubSeq(ls, e + 1, n)
      BY <1>0, <1>1, <2>3
    <3>2. SubSeq(ls, a, a - 1) = <<>>
      BY <1>0, SubSeqEmpty
    <3>3. ~(i > Len(ls)) /\ Name \in ToSet(ls[i])
      BY <1>0, <2>3
    <3>4. <<>> \o C = C
      BY <1>3, ConcatEmptySeq
    <3> HIDE DEF F
    <3>5. Next1(F, ls, p, i) = <<RewriteSpan(SubSeq(ls, i, EndOf(ls, i)), p)>> \o F[EndOf(ls, i) + 1]
      BY <3>3, Zenon DEF Next1
    <3>6. Next1(F, ls, p, i) = C
      BY <2>3, <3>1, <3>5, Zenon DEF C, one, R, e
    <3> QED
      BY <3>1, <3>2, <3>4, <3>6, Zenon
  <2>4. CASE i < a
    <3>1. F[i] = SubSeq(ls, i, a - 1) \o C /\ F[i + 1] = SubSeq(ls, i + 1, a - 1) \o C
      <4>1. ~(i > a) /\ ~(i + 1 > a) /\ i + 1 \in 1..n + 1
        BY <1>0, <2>4
      <4> QED
        BY <4>1
    <3> DEFINE x == SubSeq(ls, i + 1, a - 1)
               b == <<ls[i]>>
    <3>2. SubSeq(ls, i, a - 1) = b \o x
      <4>1. i \in 1..Len(ls) /\ a - 1 \in i..Len(ls)
        BY <1>0, <2>4
      <4> QED
        BY <4>1, SubSeqRecursiveFirst
    <3>3. x \in Seq(X) /\ b \in Seq(X)
      <4>1. i + 1 \in 1..n + 1 /\ a \in 1..n + 1 /\ ls[i] \in X
        BY <1>0, <2>4
      <4> QED
        BY <1>2, <4>1, OneIs
    <3> HIDE DEF x, b
    <3>4. (b \o x) \o C = b \o (x \o C)
      <4>1. b \in Seq(X) /\ x \in Seq(X) /\ C \in Seq(X) /\ Assoc(X)
        BY <1>3, <3>3, <1>8
      <4> QED
        BY <4>1, Zenon DEF Assoc
    <3>5. ~(i > Len(ls)) /\ Name \notin ToSet(ls[i])
      BY <1>0, <2>4
    <3> HIDE DEF F
    <3>6. Next1(F, ls, p, i) = b \o F[i + 1]
      BY <3>5, Zenon DEF Next1, b
    <3> QED
      BY <3>1, <3>2, <3>4, <3>6, Zenon DEF x
  <2>5. i = n + 1 \/ (i \in 1..n /\ i > a) \/ i = a \/ i < a
    BY <1>0
  <2> HIDE DEF F
  <2> QED
    BY <2>1, <2>2, <2>3, <2>4, <2>5, Zenon
<1>5. FromEq(F, ls, p)
  <2>1. F = [i \in 1..n + 1 |-> F[i]]
    OBVIOUS
  <2> HIDE DEF F
  <2>2. F = [i \in 1..n + 1 |-> Next1(F, ls, p, i)]
    BY <1>4, <2>1
  <2> QED
    BY <2>2 DEF FromEq
<1>6. F[1] = SubSeq(ls, 1, a - 1) \o C
  BY <1>0
<1> HIDE DEF F
<1>7. From(ls, p) = F[1]
  <2> DEFINE G == CHOOSE f : FromEq(f, ls, p)
  <2>1. FromEq(G, ls, p)
    BY <1>5, Zenon
  <2> HIDE DEF G
  <2>2. G[1] = F[1]
    BY <1>0, <1>5, <2>1, FromUnique
  <2> QED
    BY <2>2 DEF G, From
<1> QED
  BY <1>6, <1>7, Zenon DEF C, one, R, e

-----------------------------------------------------------------------------
(* Elements and pieces of sequences that were put together.                *)

(* The elements of two sequences in one, and of a piece of one.            *)
ConcatFacts(S, t, u) ==
    /\ t \o u \in Seq(S)
    /\ Len(t) \in Nat /\ Len(u) \in Nat /\ Len(t \o u) = Len(t) + Len(u)
    /\ \A i \in 1..Len(t) : (t \o u)[i] = t[i]
    /\ \A i \in 1..Len(u) : (t \o u)[Len(t) + i] = u[i]
Concatenates(S) == \A t, u \in Seq(S) : ConcatFacts(S, t, u)
LEMMA ConcatsAre == ASSUME NEW S PROVE Concatenates(S)
  BY ConcatIs DEF Concatenates, ConcatFacts

LEMMA PieceIs ==
    ASSUME NEW S, NEW t \in Seq(S), NEW lo \in Int, NEW hi \in Int,
           1 <= lo, lo <= hi + 1, hi <= Len(t)
    PROVE  /\ SubSeq(t, lo, hi) \in Seq(S) /\ Len(SubSeq(t, lo, hi)) = hi - lo + 1
           /\ \A i \in 1..(hi - lo + 1) : SubSeq(t, lo, hi)[i] = t[lo + i - 1]
<1>1. \A i \in lo..hi : t[i] \in S
  <2> SUFFICES ASSUME NEW i \in lo..hi PROVE t[i] \in S
    OBVIOUS
  <2>1. i \in 1..Len(t)
    OBVIOUS
  <2> QED
    BY <2>1
<1>2. /\ SubSeq(t, lo, hi) \in Seq(S)
      /\ Len(SubSeq(t, lo, hi)) = IF lo <= hi THEN hi - lo + 1 ELSE 0
      /\ \A i \in 1..(hi - lo + 1) : SubSeq(t, lo, hi)[i] = t[lo + i - 1]
  BY <1>1, SubSeqProperties
<1> QED
  BY <1>2

(* A list of lines between two others.                                     *)
FrameFacts(X, ls, g, e, G) ==
    /\ G \in Seq(X) /\ Len(G) = Len(ls) + 2 /\ G[1] = g /\ G[Len(ls) + 2] = g
    /\ \A k \in 1..Len(ls) : G[k + 1] = ls[k]
    /\ SubSeq(G, 1, 1) = <<g>>
    /\ SubSeq(G, 2, e + 1) = SubSeq(ls, 1, e)
    /\ SubSeq(G, e + 2, Len(ls) + 2) = SubSeq(ls, e + 1, Len(ls)) \o <<g>>
LEMMA Frame ==
    ASSUME NEW X, NEW ls \in Seq(X), NEW g \in X, NEW e \in 1..Len(ls), NEW G, G = <<g>> \o (ls \o <<g>>)
    PROVE  FrameFacts(X, ls, g, e, G)
<1> DEFINE n == Len(ls)
           one == <<g>>
           b == ls \o one
<1>1. one \in Seq(X) /\ Len(one) = 1 /\ one[1] = g
  BY OneIs
<1>0. G = one \o b
  OBVIOUS
<1> HIDE DEF one
<1>2. /\ b \in Seq(X) /\ Len(b) = n + 1 /\ b[n + 1] = g /\ n \in Nat
      /\ \A k \in 1..n : b[k] = ls[k]
  <2>0. ConcatFacts(X, ls, one)
    BY <1>1, ConcatsAre, Zenon DEF Concatenates
  <2>1. /\ b \in Seq(X)
        /\ n \in Nat /\ Len(one) \in Nat /\ Len(b) = n + Len(one)
        /\ \A i \in 1..n : b[i] = ls[i]
        /\ \A i \in 1..Len(one) : b[n + i] = one[i]
    BY <2>0, Zenon DEF ConcatFacts
  <2> HIDE DEF b, n
  <2> QED
    BY <1>1, <2>1
<1> HIDE DEF b, n
<1>3. /\ G \in Seq(X) /\ Len(G) = n + 2 /\ G[1] = g
      /\ \A k \in 1..(n + 1) : G[k + 1] = b[k]
  <2>1. /\ G \in Seq(X) /\ Len(G) = 1 + Len(b) /\ G[1] = one[1]
        /\ \A k \in 1..Len(b) : G[1 + k] = b[k]
    <3>0. ConcatFacts(X, one, b)
      BY <1>1, <1>2, ConcatsAre, Zenon DEF Concatenates
    <3>1. /\ G \in Seq(X)
          /\ Len(one) \in Nat /\ Len(b) \in Nat /\ Len(G) = Len(one) + Len(b)
          /\ \A i \in 1..Len(one) : G[i] = one[i]
          /\ \A i \in 1..Len(b) : G[Len(one) + i] = b[i]
      BY <1>0, <3>0, Zenon DEF ConcatFacts
    <3> QED
      BY <1>1, <3>1
  <2> QED
    BY <1>1, <1>2, <2>1
<1>4. G[n + 2] = g
  BY <1>2, <1>3
<1>5. \A k \in 1..n : G[k + 1] = ls[k]
  BY <1>2, <1>3
<1>6. e \in 1..n
  BY DEF n
<1>a. \A k \in 1..(n + 2) : G[k] \in X
  BY <1>3
<1>7. SubSeq(G, 1, 1) = <<g>>
  <2> DEFINE u == SubSeq(G, 1, 1)
  <2>1. \A i \in 1..1 : G[i] \in X
    BY <1>2, <1>a
  <2>2. u \in Seq(X) /\ Len(u) = 1 /\ \A i \in 1..1 : u[i] = G[i]
    BY <2>1, SubSeqProperties
  <2> HIDE DEF u
  <2>3. Len(u) = Len(one) /\ \A i \in 1..Len(u) : u[i] = one[i]
    BY <1>1, <1>3, <2>2
  <2>4. u = one
    BY <1>1, <2>2, <2>3, SeqEqual
  <2> QED
    BY <2>4 DEF u, one
<1>8. SubSeq(G, 2, e + 1) = SubSeq(ls, 1, e)
  <2> DEFINE u == SubSeq(G, 2, e + 1)
             v == SubSeq(ls, 1, e)
  <2>1. 2 \in Int /\ e + 1 \in Int /\ \A i \in 2..(e + 1) : G[i] \in X
    BY <1>2, <1>6, <1>a
  <2>2. u \in Seq(X) /\ Len(u) = e /\ \A i \in 1..e : u[i] = G[2 + i - 1]
    <3>1. /\ u \in Seq(X) /\ Len(u) = IF 2 <= e + 1 THEN (e + 1) - 2 + 1 ELSE 0
          /\ \A i \in 1..(e + 1) - 2 + 1 : u[i] = G[2 + i - 1]
      BY <2>1, SubSeqProperties
    <3> QED
      BY <1>2, <1>6, <3>1
  <2>3. 1 \in Int /\ e \in Int /\ \A i \in 1..e : ls[i] \in X
    BY <1>2, <1>6 DEF n
  <2>4. v \in Seq(X) /\ Len(v) = e /\ \A i \in 1..e : v[i] = ls[i]
    <3>1. /\ v \in Seq(X) /\ Len(v) = IF 1 <= e THEN e - 1 + 1 ELSE 0
          /\ \A i \in 1..e - 1 + 1 : v[i] = ls[1 + i - 1]
      BY <2>3, SubSeqProperties
    <3> QED
      BY <1>2, <1>6, <3>1
  <2> HIDE DEF u, v
  <2>5. Len(u) = Len(v) /\ \A i \in 1..Len(u) : u[i] = v[i]
    <3>1. Len(u) = e /\ Len(v) = e
      BY <2>2, <2>4
    <3>2. ASSUME NEW i \in 1..e PROVE u[i] = v[i]
      <4>1. 2 + i - 1 = i + 1 /\ i \in 1..n
        BY <1>2, <1>6
      <4>2. u[i] = G[i + 1] /\ v[i] = ls[i]
        BY <2>2, <2>4, <4>1
      <4> QED
        BY <1>5, <4>1, <4>2
    <3> QED
      BY <3>1, <3>2
  <2>6. u = v
    BY <2>2, <2>4, <2>5, SeqEqual
  <2> QED
    BY <2>6 DEF u, v
<1>9. SubSeq(G, e + 2, n + 2) = SubSeq(ls, e + 1, n) \o one
  <2> DEFINE u == SubSeq(G, e + 2, n + 2)
             v == SubSeq(ls, e + 1, n)
             w == v \o one
  <2>2. u \in Seq(X) /\ Len(u) = n + 1 - e /\ \A i \in 1..(n + 1 - e) : u[i] = G[e + i + 1]
    <3> DEFINE lo == e + 2
               hi == n + 2
    <3>1. lo \in Int /\ hi \in Int /\ 1 <= lo /\ lo <= hi + 1 /\ hi <= Len(G)
      BY <1>2, <1>3, <1>6
    <3>2. /\ hi - lo + 1 = n + 1 - e
          /\ \A i \in 1..(n + 1 - e) : lo + i - 1 = e + i + 1
      BY <1>2, <1>6
    <3>3. u = SubSeq(G, lo, hi)
      OBVIOUS
    <3> HIDE DEF u, lo, hi
    <3>4. /\ u \in Seq(X) /\ Len(u) = hi - lo + 1
          /\ \A i \in 1..(hi - lo + 1) : u[i] = G[lo + i - 1]
      BY <1>3, <3>1, <3>3, PieceIs
    <3> QED
      BY <3>2, <3>4
  <2>4. v \in Seq(X) /\ Len(v) = n - e /\ \A i \in 1..(n - e) : v[i] = ls[e + i]
    <3> DEFINE lo == e + 1
               hi == n
    <3>1. lo \in Int /\ hi \in Int /\ 1 <= lo /\ lo <= hi + 1 /\ hi <= Len(ls)
      BY <1>2, <1>6 DEF n
    <3>2. /\ hi - lo + 1 = n - e
          /\ \A i \in 1..(n - e) : lo + i - 1 = e + i
      BY <1>2, <1>6
    <3>3. v = SubSeq(ls, lo, hi)
      OBVIOUS
    <3> HIDE DEF v, lo, hi
    <3>4. /\ v \in Seq(X) /\ Len(v) = hi - lo + 1
          /\ \A i \in 1..(hi - lo + 1) : v[i] = ls[lo + i - 1]
      BY <3>1, <3>3, PieceIs
    <3> QED
      BY <3>2, <3>4
  <2> HIDE DEF u, v
  <2>5. /\ w \in Seq(X) /\ Len(w) = n - e + 1 /\ w[n - e + 1] = g
        /\ \A i \in 1..(n - e) : w[i] = v[i]
    <3>0. ConcatFacts(X, v, one)
      BY <1>1, <2>4, ConcatsAre, Zenon DEF Concatenates
    <3>1. /\ w \in Seq(X)
          /\ Len(v) \in Nat /\ Len(one) \in Nat /\ Len(w) = Len(v) + Len(one)
          /\ \A i \in 1..Len(v) : w[i] = v[i]
          /\ \A i \in 1..Len(one) : w[Len(v) + i] = one[i]
      BY <3>0, Zenon DEF ConcatFacts
    <3> HIDE DEF w
    <3> QED
      BY <1>1, <1>2, <1>6, <2>4, <3>1
  <2> HIDE DEF w
  <2>6. \A i \in 1..Len(u) : u[i] = w[i]
    <3> SUFFICES ASSUME NEW i \in 1..Len(u) PROVE u[i] = w[i]
      OBVIOUS
    <3>0. e \in Int /\ n \in Int /\ Len(u) = n + 1 - e
      BY <1>2, <1>6, <2>2
    <3>1. i \in 1..(n + 1 - e) /\ u[i] = G[e + i + 1] /\ i \in Int /\ e \in Int /\ n \in Int
      <4>1. i \in 1..(n + 1 - e)
        BY <3>0
      <4>2. u[i] = G[e + i + 1]
        BY <2>2, <4>1
      <4> QED
        BY <3>0, <4>1, <4>2
    <3>2. CASE i = n - e + 1
      <4>1. e + i + 1 = n + 2
        BY <1>2, <1>6, <3>2
      <4> QED
        BY <1>4, <2>5, <3>1, <3>2, <4>1
    <3>3. CASE i # n - e + 1
      <4>1. i \in 1..(n - e) /\ e + i \in 1..n /\ e + i + 1 = (e + i) + 1
        BY <1>2, <1>6, <3>1, <3>3
      <4>2. G[(e + i) + 1] = ls[e + i]
        BY <1>5, <4>1
      <4> QED
        BY <2>4, <2>5, <3>1, <4>1, <4>2
    <3> QED
      BY <3>2, <3>3
  <2>7. u = w
    <3>1. Len(u) = Len(w)
      BY <1>2, <1>6, <2>2, <2>5
    <3> QED
      BY <2>2, <2>5, <2>6, <3>1, SeqEqual
  <2> QED
    BY <2>7 DEF u, v, w
<1> QED
  BY <1>3, <1>4, <1>5, <1>7, <1>8, <1>9 DEF n, one, FrameFacts

(* In a frame of lines that are not continued, a command ends where it     *)
(* ended.                                                                  *)
LEMMA FrameEnd ==
    ASSUME NEW X, NEW ls \in Seq(X), Len(ls) # 0, ~Continued(ls[Len(ls)]),
           NEW g \in X, NEW G, G = <<g>> \o (ls \o <<g>>)
    PROVE  EndOf(G, 2) = EndOf(ls, 1) + 1 /\ EndOf(ls, 1) \in 1..Len(ls)
<1> DEFINE n == Len(ls)
           e == EndOf(ls, 1)
           d == EndOf(G, 2)
<1>1. n \in Nat /\ 1 \in 1..n
  OBVIOUS
<1>2. /\ e \in 1..n /\ (e = n \/ ~Continued(ls[e]))
      /\ \A k \in 1..(e - 1) : Continued(ls[k])
  BY <1>1, EndIs
<1>3. /\ Len(G) = n + 2 /\ \A k \in 1..n : G[k + 1] = ls[k]
  BY <1>1, Frame DEF FrameFacts
<1> HIDE DEF e
<1>4. Len(G) \in Nat /\ 2 \in 1..Len(G)
  BY <1>1, <1>3
<1>5. /\ d \in 2..Len(G) /\ (d = Len(G) \/ ~Continued(G[d]))
      /\ \A k \in 2..(d - 1) : Continued(G[k])
  BY <1>4, EndIs
<1> HIDE DEF d, n
<1>6. ~Continued(ls[e])
  BY <1>2 DEF n
<1>7. CASE d < e + 1
  <2>1. d - 1 \in 1..(e - 1) /\ d - 1 \in 1..n /\ (d - 1) + 1 = d
    BY <1>1, <1>2, <1>3, <1>5, <1>7
  <2>2. Continued(ls[d - 1]) /\ G[d] = ls[d - 1]
    BY <1>2, <1>3, <2>1
  <2>3. d # Len(G)
    BY <1>1, <1>2, <1>3, <1>5, <1>7
  <2> QED
    BY <1>5, <2>2, <2>3
<1>8. CASE d > e + 1
  <2>1. e + 1 \in 2..(d - 1)
    BY <1>1, <1>2, <1>5, <1>8
  <2>2. Continued(G[e + 1]) /\ G[e + 1] = ls[e]
    BY <1>2, <1>3, <1>5, <2>1
  <2> QED
    BY <1>6, <2>2
<1>9. d \in Int /\ e \in Int
  BY <1>1, <1>2, <1>3, <1>5
<1> QED
  BY <1>2, <1>7, <1>8, <1>9 DEF d, e, n

-----------------------------------------------------------------------------
(* The first line of a command.                                            *)

(* The first line of a command, and the lines of one.                      *)
All   == Symbols \cup {Name}
Head1 == <<"SP", "--", "SP", "\\">>
Line1 == <<Name, "SP", "--", "SP", "\\">>
LEMMA Line1Is ==
    /\ Line1 \in Seq(All) /\ Line1 \in Seq(All \ {"NL"}) /\ Head1 \in Text
    /\ Len(Line1) = 5 /\ {i \in DOMAIN Line1 : Line1[i] = Name} = {1}
    /\ SubSeq(Line1, 1, 0) = <<>> /\ SubSeq(Line1, 2, 5) = Head1
    /\ Line1 = <<Name>> \o Head1
<1>1. "SP" \in Symbols /\ "--" \in Symbols /\ "\\" \in Symbols
  BY DEF Symbols, Chars, HeadSymbols
<1>2. Head1 \in Text
  BY <1>1 DEF Head1, Text
<1>3. /\ "SP" \in All \ {"NL"} /\ "--" \in All \ {"NL"} /\ "\\" \in All \ {"NL"} /\ Name \in All \ {"NL"}
      /\ Name # "SP" /\ Name # "--" /\ Name # "\\"
  BY <1>1 DEF All, Name
<1>4. Line1 = <<Name>> \o Head1
  BY DEF Line1, Head1
<1> DEFINE X == All \ {"NL"}
<1>5. X \subseteq All
  OBVIOUS
<1> HIDE DEF X
<1>6. Line1 \in Seq(X)
  BY <1>3 DEF Line1, X
<1>7. Line1 \in Seq(All)
  BY <1>5, <1>6, SeqSub
<1>8. /\ DOMAIN Line1 = 1..5 /\ Len(Line1) = 5
      /\ Line1[1] = Name /\ Line1[2] = "SP" /\ Line1[3] = "--" /\ Line1[4] = "SP" /\ Line1[5] = "\\"
  BY DEF Line1
<1>9. {i \in DOMAIN Line1 : Line1[i] = Name} = {1}
  <2>1. \A i \in 1..5 : i = 1 \/ i = 2 \/ i = 3 \/ i = 4 \/ i = 5
    OBVIOUS
  <2>2. \A i \in 1..5 : Line1[i] = Name <=> i = 1
    BY <1>3, <1>8, <2>1
  <2> QED
    BY <1>8, <2>2
<1>10. SubSeq(Line1, 1, 0) = <<>>
  BY <1>7, SubSeqEmpty
<1>11. SubSeq(Line1, 2, 5) = Head1
  <2> DEFINE u == SubSeq(Line1, 2, 5)
             hi == 5
  <2>0. hi \in Int /\ 2 \in Int /\ 1 <= 2 /\ 2 <= hi + 1 /\ hi <= Len(Line1)
    BY <1>8
  <2> HIDE DEF hi
  <2>1. /\ SubSeq(Line1, 2, hi) \in Seq(X) /\ Len(SubSeq(Line1, 2, hi)) = hi - 2 + 1
        /\ \A i \in 1..(hi - 2 + 1) : SubSeq(Line1, 2, hi)[i] = Line1[2 + i - 1]
    BY <1>6, <2>0, PieceIs
  <2>2. u \in Seq(X) /\ Len(u) = 4 /\ \A i \in 1..4 : u[i] = Line1[i + 1]
    <3>1. hi - 2 + 1 = 4 /\ \A i \in 1..4 : 2 + i - 1 = i + 1
      BY DEF hi
    <3>2. u = SubSeq(Line1, 2, hi)
      BY DEF hi
    <3> HIDE DEF u
    <3> QED
      BY <2>1, <3>1, <3>2
  <2> HIDE DEF u
  <2>3. /\ Len(Head1) = 4 /\ Head1[1] = "SP" /\ Head1[2] = "--" /\ Head1[3] = "SP" /\ Head1[4] = "\\"
        /\ Head1 \in Seq(Symbols)
    BY <1>2 DEF Head1, Text
  <2>4. \A i \in 1..4 : u[i] = Head1[i]
    <3>1. Line1[2] = Head1[1] /\ Line1[3] = Head1[2] /\ Line1[4] = Head1[3] /\ Line1[5] = Head1[4]
      BY <1>8, <2>3
    <3> SUFFICES ASSUME NEW i \in 1..4 PROVE Line1[i + 1] = Head1[i]
      BY <2>2
    <3>2. i = 1 \/ i = 2 \/ i = 3 \/ i = 4
      OBVIOUS
    <3> QED
      BY <3>1, <3>2
  <2>5. Len(u) = Len(Head1) /\ Len(u) \in Nat /\ \A i \in 1..Len(u) : u[i] = Head1[i]
    BY <2>2, <2>3, <2>4
  <2>6. u = Head1
    BY <2>2, <2>3, <2>5, SeqEqual
  <2> QED
    BY <2>6 DEF u
<1>12. Line1 \in Seq(All \ {"NL"})
  BY <1>6 DEF X
<1> QED
  BY <1>2, <1>4, <1>7, <1>8, <1>9, <1>10, <1>11, <1>12

LEMMA Nameless == \A l \in Text : Name \notin ToSet(l)
<1>1. Name \notin Symbols
  BY DEF Name, Symbols, Plain, Chars, HeadSymbols, OtherSymbols, Tarball
<1> SUFFICES ASSUME NEW l \in Text, Name \in ToSet(l) PROVE FALSE
  OBVIOUS
<1>2. PICK i \in DOMAIN l : l[i] = Name
  BY DEF ToSet
<1>3. l[i] \in Symbols
  BY DEF Text
<1> QED
  BY <1>1, <1>2, <1>3

(* The lines of a command: the first, which names the program, and those   *)
(* of what follows its newline.                                            *)
CommandOf(u) == With(Line1, "NL") \o u
LEMMA CommandLines ==
    ASSUME NEW u \in Text
    PROVE  /\ CommandOf(u) \in Seq(All)
           /\ Lines(u) \in SomeRows(Symbols) /\ Lines(u) \in LineLists(Symbols)
           /\ Lines(CommandOf(u)) = <<Line1>> \o Lines(u)
<1>0. Symbols \subseteq All /\ "NL" \in All
  BY DEF All, Symbols, Chars
<1>1. u \in Seq(All)
  BY <1>0, SeqSub DEF Text
<1>2. With(Line1, "NL") \in Seq(All)
  <2>1. Closed(All)
    BY Concats
  <2> QED
    BY <1>0, <2>1, Line1Is, Zenon DEF Closed, With
<1>3. CommandOf(u) \in Seq(All)
  <2>1. Closed(All)
    BY Concats
  <2> QED
    BY <1>1, <1>2, <2>1, Zenon DEF Closed, CommandOf
<1>4. Lines(u) \in SomeRows(Symbols)
  <2>1. LinesRead(Symbols)
    BY LinesAre
  <2> QED
    BY <2>1, Zenon DEF LinesRead, Text
<1>5. Lines(Line1) = <<Line1>>
  <2> DEFINE X == All \ {"NL"}
  <2>1. "NL" \notin X /\ Line1 \in Seq(X)
    BY Line1Is
  <2> HIDE DEF X
  <2> QED
    BY <2>1, OneLine
<1>6. Lines(CommandOf(u)) = Lines(Line1) \o Lines(u)
  <2>1. LinesJoin(All)
    BY <1>0, LinesThen
  <2> QED
    BY <1>1, <2>1, Line1Is, Zenon DEF LinesJoin, CommandOf
<1> QED
  BY <1>3, <1>4, <1>5, <1>6 DEF SomeRows

-----------------------------------------------------------------------------
(* Where a line's continuing backslash is, and which lines have one.       *)

(* A text with a character more, and its parts.                            *)
WithFacts(D, b, c) ==
    /\ With(b, c) \in Seq(D) /\ Len(b) \in Nat /\ Len(With(b, c)) = Len(b) + 1
    /\ DOMAIN With(b, c) = 1..(Len(b) + 1)
    /\ \A i \in 1..Len(b) : With(b, c)[i] = b[i]
    /\ With(b, c)[Len(b) + 1] = c
    /\ SubSeq(With(b, c), 1, Len(b)) = b
    /\ SubSeq(With(b, c), Len(b) + 1, Len(b) + 1) = <<c>>
LEMMA WithIs ==
    ASSUME NEW D, NEW b \in Seq(D), NEW c \in D
    PROVE  WithFacts(D, b, c)
<1> DEFINE one == <<c>>
           s == b \o one
           n == Len(b)
<1>1. one \in Seq(D) /\ Len(one) = 1 /\ one[1] = c
  BY OneIs
<1> HIDE DEF one
<1>2. ConcatFacts(D, b, one)
  BY <1>1, ConcatsAre, Zenon DEF Concatenates
<1>3. /\ s \in Seq(D)
      /\ n \in Nat /\ Len(one) \in Nat /\ Len(s) = n + Len(one)
      /\ \A i \in 1..n : s[i] = b[i]
      /\ \A i \in 1..Len(one) : s[n + i] = one[i]
  BY <1>2, Zenon DEF ConcatFacts
<1> HIDE DEF s, n
<1>4. Len(s) = n + 1 /\ s[n + 1] = c /\ DOMAIN s = 1..(n + 1)
  BY <1>1, <1>3
<1>5. SubSeq(s, 1, n) = b
  <2> DEFINE u == SubSeq(s, 1, n)
  <2>1. u \in Seq(D) /\ Len(u) = n - 1 + 1 /\ \A i \in 1..(n - 1 + 1) : u[i] = s[1 + i - 1]
    BY <1>3, <1>4, PieceIs
  <2> HIDE DEF u
  <2>2. Len(u) = n /\ \A i \in 1..Len(u) : u[i] = b[i]
    BY <1>3, <2>1
  <2>3. u = b
    BY <2>1, <2>2, SeqEqual DEF n
  <2> QED
    BY <2>3 DEF u
<1>6. SubSeq(s, n + 1, n + 1) = one
  <2> DEFINE k == n + 1
             u == SubSeq(s, k, k)
  <2>0. k \in Int /\ 1 <= k /\ k <= Len(s) /\ k <= k + 1 /\ s[k] = c
    BY <1>3, <1>4
  <2> HIDE DEF k
  <2>1. u \in Seq(D) /\ Len(u) = k - k + 1 /\ \A i \in 1..(k - k + 1) : u[i] = s[k + i - 1]
    BY <1>3, <2>0, PieceIs
  <2> HIDE DEF u
  <2>2. Len(u) = Len(one) /\ \A i \in 1..Len(u) : u[i] = one[i]
    BY <1>1, <2>0, <2>1
  <2>3. u = one
    BY <1>1, <2>1, <2>2, SeqEqual
  <2> QED
    BY <2>3 DEF u, k
<1> QED
  BY <1>3, <1>4, <1>5, <1>6 DEF s, n, one, With, WithFacts

(* Where a line is cut, whatever is on it.                                 *)
LEMMA CutIs ==
    ASSUME NEW D, NEW line \in Seq(D)
    PROVE  Cut(line) \in 1..(Len(line) + 1)
<1> DEFINE cuts == {i \in DOMAIN line : line[i] = "\\" /\ ToSet(SubSeq(line, i + 1, Len(line))) \subseteq {"SP"}}
           m == Min(cuts)
<1>1. Len(line) \in Nat /\ cuts \subseteq 1..Len(line)
  OBVIOUS
<1>2. Cut(line) = IF cuts = {} THEN Len(line) + 1 ELSE m
  BY DEF Cut
<1>3. cuts # {} => m \in cuts
  <2>0. cuts \subseteq Nat
    BY <1>1
  <2> HIDE DEF cuts
  <2>1. cuts # {} => \E x \in cuts : \A k \in cuts : x <= k
    BY <2>0, Least
  <2> QED
    BY <2>1 DEF Min
<1> HIDE DEF cuts, m
<1>4. cuts # {} => m \in 1..Len(line)
  BY <1>1, <1>3
<1> DEFINE n == Len(line)
<1>5. n \in Nat /\ n + 1 \in 1..(n + 1) /\ (m \in 1..n => m \in 1..(n + 1))
  BY <1>1
<1> HIDE DEF n
<1>6. Cut(line) \in 1..(n + 1)
  BY <1>2, <1>4, <1>5 DEF n
<1> QED
  BY <1>6 DEF n

(* A line that ends with something else than a blank.                      *)
LEMMA CutLast ==
    ASSUME NEW D, NEW b \in Seq(D), NEW c \in D, c # "SP"
    PROVE  /\ c = "\\" => Cut(With(b, c)) = Len(b) + 1 /\ Continued(With(b, c))
           /\ c # "\\" => Cut(With(b, c)) = Len(b) + 2 /\ ~Continued(With(b, c))
<1> DEFINE l == With(b, c)
           n == Len(b)
           Good(i) == l[i] = "\\" /\ ToSet(SubSeq(l, i + 1, Len(l))) \subseteq {"SP"}
           cuts == {i \in DOMAIN l : Good(i)}
           m == Min(cuts)
<1>1. /\ l \in Seq(D) /\ n \in Nat /\ Len(l) = n + 1 /\ DOMAIN l = 1..(n + 1) /\ l[n + 1] = c
  BY WithIs DEF WithFacts
<1> HIDE DEF l, n
<1>2. ASSUME NEW i \in 1..n PROVE ~Good(i)
  <2> DEFINE lo == i + 1
             hi == n + 1
             u == SubSeq(l, lo, hi)
  <2>1. lo \in Int /\ hi \in Int /\ 1 <= lo /\ lo <= hi + 1 /\ hi <= Len(l) /\ hi - lo + 1 = n - i + 1
    BY <1>1
  <2>2. u \in Seq(D) /\ Len(u) = hi - lo + 1 /\ \A k \in 1..(hi - lo + 1) : u[k] = l[lo + k - 1]
    <3> HIDE DEF lo, hi
    <3> QED
      BY <1>1, <2>1, PieceIs
  <2> HIDE DEF u
  <2>3. n - i + 1 \in DOMAIN u /\ lo + (n - i + 1) - 1 = n + 1
    BY <1>1, <2>1, <2>2
  <2>4. u[n - i + 1] = c
    BY <1>1, <2>1, <2>2, <2>3
  <2>5. c \in ToSet(u)
    BY <2>3, <2>4 DEF ToSet
  <2> QED
    BY <1>1, <2>5 DEF u
<1>3. Good(n + 1) <=> c = "\\"
  <2>1. SubSeq(l, (n + 1) + 1, Len(l)) = <<>>
    BY <1>1, SubSeqEmpty
  <2>2. ToSet(<<>>) = {}
    BY DEF ToSet
  <2> QED
    BY <1>1, <2>1, <2>2
<1>4. cuts = IF c = "\\" THEN {n + 1} ELSE {}
  <2> HIDE DEF Good
  <2>1. \A i \in 1..(n + 1) : i \in 1..n \/ i = n + 1
    BY <1>1
  <2>2. n + 1 \in 1..(n + 1)
    BY <1>1
  <2> QED
    BY <1>1, <1>2, <1>3, <2>1, <2>2
<1>5. Cut(l) = IF cuts = {} THEN Len(l) + 1 ELSE m
  BY DEF Cut
<1>6. c = "\\" => m = n + 1
  <2>1. c = "\\" => m \in cuts
    <3> SUFFICES ASSUME c = "\\" PROVE m \in cuts
      OBVIOUS
    <3>1. cuts = {n + 1} /\ n + 1 \in Nat
      BY <1>1, <1>4
    <3> HIDE DEF cuts
    <3>2. \E x \in cuts : \A k \in cuts : x <= k
      BY <3>1
    <3> QED
      BY <3>2 DEF Min
  <2> HIDE DEF m
  <2> QED
    BY <1>4, <2>1
<1> HIDE DEF cuts, m
<1>7. c = "\\" => Cut(l) = n + 1
  BY <1>4, <1>5, <1>6
<1>8. c # "\\" => Cut(l) = n + 2
  BY <1>1, <1>4, <1>5
<1> QED
  BY <1>1, <1>7, <1>8 DEF Continued, l, n

(* What becomes of a line in double quotes.                                *)
LEMMA EscapedTyped ==
    ASSUME NEW line \in Text
    PROVE  DqEscapeLine(line) \in Text
<1> DEFINE k == Cut(line)
           a == SubSeq(line, 1, k - 1)
           b == SubSeq(line, k, Len(line))
<1>1. line \in Seq(Symbols) /\ Len(line) \in Nat /\ k \in 1..(Len(line) + 1)
  BY CutIs DEF Text
<1> HIDE DEF k
<1>2. a \in Text
  <2> DEFINE j == k - 1
  <2>1. j \in Int /\ 1 <= j + 1 /\ j <= Len(line)
    BY <1>1
  <2> HIDE DEF j
  <2>2. SubSeq(line, 1, j) \in Seq(Symbols)
    BY <1>1, <2>1, PieceIs
  <2> QED
    BY <2>2 DEF j, Text
<1>3. b \in Text
  <2> DEFINE j == Len(line)
  <2>1. j \in Int /\ k \in Int /\ 1 <= k /\ k <= j + 1
    BY <1>1
  <2> HIDE DEF j
  <2>2. SubSeq(line, k, j) \in Seq(Symbols)
    BY <1>1, <2>1, PieceIs DEF j
  <2> QED
    BY <2>2 DEF j, Text
<1> HIDE DEF a, b
<1>4. Spell(a, EscapeDouble) \in Text
  <2>1. <<>> \in Words /\ <<>> \in Text
    BY WordsAre, TextIs, Zenon DEF WordsAppend, TextClosed
  <2> QED
    BY <1>2, <2>1, DoubleSpelled
<1>5. Spell(a, EscapeDouble) \o b \in Text
  BY <1>3, <1>4, TextIs, Zenon DEF TextClosed
<1> QED
  BY <1>5 DEF DqEscapeLine, a, b, k

Escaped(ls) == [k \in DOMAIN ls |-> DqEscapeLine(ls[k])]
LEMMA EscapedRows ==
    ASSUME NEW ls \in SomeRows(Symbols)
    PROVE  Escaped(ls) \in SomeRows(Symbols) /\ DqEscape(ls) \in Text
<1> DEFINE X == Text
<1>1. ls \in Seq(X) /\ ls # <<>>
  BY DEF SomeRows, LineLists, Text
<1> HIDE DEF X
<1>2. Len(ls) \in Nat /\ DOMAIN ls = 1..Len(ls) /\ Len(ls) # 0
  BY <1>1
<1>3. \A k \in 1..Len(ls) : DqEscapeLine(ls[k]) \in X
  BY <1>1, EscapedTyped DEF X
<1>4. Escaped(ls) = [k \in 1..Len(ls) |-> DqEscapeLine(ls[k])]
  BY <1>2 DEF Escaped
<1>5. Escaped(ls) \in Seq(X) /\ Escaped(ls) # <<>>
  <2> DEFINE e == [k \in 1..Len(ls) |-> DqEscapeLine(ls[k])]
             n == Len(ls)
  <2>1. e \in [1..n -> X]
    BY <1>3
  <2> HIDE DEF e, n
  <2>2. n \in Nat \ {0}
    BY <1>2 DEF n
  <2>3. e \in Seq(X) /\ Len(e) = n
    BY <2>1, <2>2
  <2> QED
    BY <1>4, <2>2, <2>3 DEF e
<1>6. Escaped(ls) \in SomeRows(Symbols)
  BY <1>5 DEF X, SomeRows, LineLists, Text
<1>7. Join(Escaped(ls)) \in Text
  <2>0. "NL" \in Symbols
    BY DEF Symbols, Chars
  <2>1. Joins(Symbols)
    BY <2>0, JoinIs
  <2> QED
    BY <1>6, <2>1, Zenon DEF Joins, Text
<1> QED
  BY <1>6, <1>7 DEF DqEscape, Escaped

-----------------------------------------------------------------------------
(* The lines under the head of a setup.                                    *)

(* The lines of a command under its new head, and what they become.        *)
Span(p, m) == Lines(CommandHead(Head1, p)) \o m
Rewritten(p, m) ==
    IF Wrapped(p) THEN <<"nix-shell", "SP", "--run", "SP", "DQ">> \o DqEscape(Span(p, m)) \o <<"DQ">>
                  ELSE Join(Span(p, m))

LEMMA SpanTyped ==
    ASSUME NEW p, NEW m \in LineLists(Symbols)
    PROVE  /\ CommandHead(Head1, p) \in Text /\ Lines(CommandHead(Head1, p)) \in LineLists(Symbols)
           /\ Span(p, m) \in SomeRows(Symbols)
           /\ Rewritten(p, m) \in Text
<1> DEFINE h == CommandHead(Head1, p)
           ls == Lines(h)
<1>0. "NL" \in Symbols /\ "DQ" \in Symbols /\ "SP" \in Symbols /\ "nix-shell" \in Symbols /\ "--run" \in Symbols
  BY DEF Symbols, Chars, OtherSymbols
<1>1. h \in Text
  <2>1. h = CommandHead(Dashes, p) \o More /\ CommandHead(Dashes, p) \in Text
    BY HeadEnds DEF Head1
  <2> HIDE DEF h
  <2> QED
    BY <2>1, DashesIs, TextIs, Zenon DEF TextClosed
<1> HIDE DEF h
<1>2. ls \in SomeRows(Symbols) /\ ls \in LineLists(Symbols)
  <2>1. LinesRead(Symbols)
    BY LinesAre
  <2>2. ls \in SomeRows(Symbols)
    BY <1>1, <2>1, Zenon DEF LinesRead, Text
  <2> QED
    BY <2>2 DEF SomeRows
<1> HIDE DEF ls
<1>3. ls \o m \in SomeRows(Symbols)
  <2>1. \A s \in SomeRows(Symbols) : s # <<>> /\ s \in LineLists(Symbols)
    BY DEF SomeRows
  <2> DEFINE X == Text
  <2>2. ls \in Seq(X) /\ m \in Seq(X) /\ ls # <<>>
    BY <1>2, <2>1 DEF LineLists, Text
  <2> HIDE DEF X
  <2>3. ls \o m \in Seq(X) /\ Len(ls \o m) = Len(ls) + Len(m) /\ Len(ls) \in Nat \ {0} /\ Len(m) \in Nat
    BY <2>2
  <2>4. ls \o m # <<>>
    BY <2>3
  <2> QED
    BY <2>3, <2>4 DEF X, SomeRows, LineLists, Text
<1>4. Span(p, m) \in SomeRows(Symbols)
  BY <1>3 DEF Span, ls, h
<1>5. Rewritten(p, m) \in Text
  <2> DEFINE s == Span(p, m)
             a == <<"nix-shell", "SP", "--run", "SP", "DQ">>
             b == <<"DQ">>
  <2>1. DqEscape(s) \in Text
    BY <1>4, EscapedRows
  <2>2. a \in Text /\ b \in Text
    BY <1>0 DEF Text
  <2>3. Join(s) \in Text
    <3>1. Joins(Symbols)
      BY <1>0, JoinIs
    <3> HIDE DEF s
    <3> QED
      BY <1>4, <3>1, Zenon DEF Joins, Text, s
  <2> HIDE DEF s, a, b
  <2>4. (a \o DqEscape(s)) \o b \in Text
    BY <2>1, <2>2, TextIs, Zenon DEF TextClosed
  <2>5. Rewritten(p, m) = IF Wrapped(p) THEN (a \o DqEscape(s)) \o b ELSE Join(s)
    BY DEF Rewritten, s, a, b
  <2> QED
    BY <2>3, <2>4, <2>5
<1> QED
  BY <1>1, <1>2, <1>4, <1>5 DEF h, ls

LEMMA MinOne == Min({1}) = 1
<1>1. \E x \in {1} : \A k \in {1} : x <= k
  OBVIOUS
<1> QED
  BY <1>1 DEF Min

LEMMA SpanRewritten ==
    ASSUME NEW p, NEW m \in LineLists(Symbols)
    PROVE  RewriteSpan(<<Line1>> \o m, p) = Rewritten(p, m)
<1> DEFINE X == Seq(All)
           one == <<Line1>>
           ls == one \o m
<1>1. Symbols \subseteq All
  BY DEF All
<1>2. Text \subseteq X
  BY <1>1, SeqSub DEF Text
<1>3. m \in Seq(X)
  <2> DEFINE Y == Text
  <2>1. Y \subseteq X /\ m \in Seq(Y)
    BY <1>2 DEF LineLists, Text
  <2> HIDE DEF X, Y
  <2> QED
    BY <2>1, SeqSub
<1>4. Line1 \in X
  BY Line1Is
<1> HIDE DEF X
<1>5. one \in Seq(X) /\ Len(one) = 1 /\ one[1] = Line1
  BY <1>4, OneIs
<1>6. Tail(ls) = m
  BY <1>3, <1>4, TailOf
<1>7. ls[1] = Line1
  <2> HIDE DEF one
  <2> QED
    BY <1>3, <1>5, ConcatIs
<1> HIDE DEF ls
<1> DEFINE at == Min({i \in DOMAIN ls[1] : ls[1][i] = Name})
<1>8. at = 1
  BY <1>7, Line1Is, MinOne
<1>9. SubSeq(ls[1], 1, at - 1) = <<>> /\ SubSeq(ls[1], at + 1, Len(ls[1])) = Head1
  <2>1. at - 1 = 0 /\ at + 1 = 2
    BY <1>8
  <2>2. Len(ls[1]) = 5 /\ SubSeq(Line1, 1, 0) = <<>> /\ SubSeq(Line1, 2, 5) = Head1
    BY <1>7, Line1Is
  <2> QED
    BY <1>7, <2>1, <2>2, Zenon
<1>10. RewriteSpan(ls, p) = SubSeq(ls[1], 1, at - 1)
         \o IF Wrapped(p)
            THEN <<"nix-shell", "SP", "--run", "SP", "DQ">>
                   \o DqEscape(Lines(CommandHead(SubSeq(ls[1], at + 1, Len(ls[1])), p)) \o Tail(ls)) \o <<"DQ">>
            ELSE Join(Lines(CommandHead(SubSeq(ls[1], at + 1, Len(ls[1])), p)) \o Tail(ls))
  BY DEF RewriteSpan
<1> HIDE DEF at
<1>11. RewriteSpan(ls, p) = <<>> \o Rewritten(p, m)
  BY <1>6, <1>9, <1>10, Zenon DEF Rewritten, Span
<1>12. <<>> \o Rewritten(p, m) = Rewritten(p, m)
  <2>1. Rewritten(p, m) \in Text
    BY SpanTyped
  <2> QED
    BY <2>1, TextIs, Zenon DEF TextNeutral
<1> QED
  BY <1>11, <1>12 DEF ls, one

-----------------------------------------------------------------------------
(* The lines of a command, and how far it goes.                            *)

(* A list after a first element, in two parts.                             *)
FirstFacts(Y, X, c, v, e, ls) ==
    /\ SubSeq(v, 1, e - 1) \in Seq(Y) /\ SubSeq(v, e, Len(v)) \in Seq(Y)
    /\ v = SubSeq(v, 1, e - 1) \o SubSeq(v, e, Len(v))
    /\ SubSeq(ls, 1, e) = <<c>> \o SubSeq(v, 1, e - 1)
    /\ SubSeq(ls, e + 1, Len(ls)) = SubSeq(v, e, Len(v))
    /\ ls \in Seq(X) /\ Len(ls) = Len(v) + 1 /\ ls[1] = c
    /\ \A i \in 1..Len(v) : ls[i + 1] = v[i]
LEMMA FirstParts ==
    ASSUME NEW Y, NEW X, Y \subseteq X, NEW c \in X, NEW v \in Seq(Y),
           NEW e \in 1..(Len(v) + 1), NEW ls, ls = <<c>> \o v
    PROVE  FirstFacts(Y, X, c, v, e, ls)
<1> DEFINE n == Len(v)
           k == e - 1
           m == SubSeq(v, 1, k)
           z == SubSeq(v, e, n)
           one == <<c>>
<1>0. n \in Nat /\ e \in 1..(n + 1) /\ k \in 0..n /\ e = k + 1 /\ k \in Int /\ e \in Int /\ n \in Int
  OBVIOUS
<1> HIDE DEF k
<1>1. m \in Seq(Y) /\ Len(m) = k /\ \A i \in 1..k : m[i] = v[i]
  <2>1. m \in Seq(Y) /\ Len(m) = k - 1 + 1 /\ \A i \in 1..(k - 1 + 1) : m[i] = v[1 + i - 1]
    <3>1. 1 <= k + 1 /\ k <= Len(v)
      BY <1>0
    <3> QED
      BY <1>0, <3>1, PieceIs
  <2> HIDE DEF m
  <2> QED
    BY <1>0, <2>1
<1>2. z \in Seq(Y) /\ Len(z) = n - k /\ \A i \in 1..(n - k) : z[i] = v[k + i]
  <2>1. z \in Seq(Y) /\ Len(z) = n - e + 1 /\ \A i \in 1..(n - e + 1) : z[i] = v[e + i - 1]
    <3>1. e <= n + 1 /\ n <= Len(v) /\ 1 <= e
      BY <1>0
    <3> HIDE DEF n
    <3> QED
      BY <1>0, <3>1, PieceIs
  <2> HIDE DEF z
  <2>2. n - e + 1 = n - k /\ \A i \in 1..(n - k) : e + i - 1 = k + i
    BY <1>0
  <2> QED
    BY <2>1, <2>2
<1>3. one \in Seq(X) /\ Len(one) = 1 /\ one[1] = c
  BY OneIs
<1> HIDE DEF one
<1>4. m \in Seq(X) /\ z \in Seq(X) /\ v \in Seq(X)
  BY <1>1, <1>2, SeqSub
<1> HIDE DEF m, z
<1>5. v = m \o z
  <2> DEFINE w == m \o z
  <2>0. ConcatFacts(Y, m, z)
    BY <1>1, <1>2, ConcatsAre, Zenon DEF Concatenates
  <2>1. /\ w \in Seq(Y) /\ Len(w) = Len(m) + Len(z)
        /\ \A i \in 1..Len(m) : w[i] = m[i]
        /\ \A i \in 1..Len(z) : w[Len(m) + i] = z[i]
    BY <2>0, Zenon DEF ConcatFacts
  <2> HIDE DEF w
  <2>2. Len(w) = n
    BY <1>0, <1>1, <1>2, <2>1
  <2>3. ASSUME NEW i \in 1..n PROVE w[i] = v[i]
    <3>1. CASE i <= k
      <4>1. i \in 1..k
        BY <1>0, <3>1
      <4> QED
        BY <1>1, <2>1, <4>1
    <3>2. CASE ~(i <= k)
      <4> DEFINE j == i - k
      <4>1. j \in 1..(n - k) /\ k + j = i
        BY <1>0, <3>2
      <4> HIDE DEF j
      <4>2. w[k + j] = z[j] /\ z[j] = v[k + j]
        BY <1>1, <1>2, <2>1, <4>1
      <4> QED
        BY <4>1, <4>2
    <3> QED
      BY <3>1, <3>2
  <2>4. w = v
    BY <2>1, <2>2, <2>3, SeqEqual DEF n
  <2> QED
    BY <2>4 DEF w
<1>6. /\ ls \in Seq(X) /\ Len(ls) = n + 1 /\ ls[1] = c
      /\ \A i \in 1..n : ls[i + 1] = v[i]
  <2>0. ConcatFacts(X, one, v)
    BY <1>3, <1>4, ConcatsAre, Zenon DEF Concatenates
  <2>1. ls = one \o v
    BY DEF one
  <2>2. /\ ls \in Seq(X) /\ Len(ls) = Len(one) + n
        /\ \A i \in 1..Len(one) : ls[i] = one[i]
        /\ \A i \in 1..n : ls[Len(one) + i] = v[i]
    BY <2>0, <2>1, Zenon DEF ConcatFacts
  <2> QED
    BY <1>0, <1>3, <2>2
<1>7. SubSeq(ls, 1, e) = one \o m
  <2> DEFINE u == SubSeq(ls, 1, e)
             w == one \o m
  <2>0. ConcatFacts(X, one, m)
    BY <1>3, <1>4, ConcatsAre, Zenon DEF Concatenates
  <2>1. /\ w \in Seq(X) /\ Len(w) = Len(one) + Len(m)
        /\ \A i \in 1..Len(one) : w[i] = one[i]
        /\ \A i \in 1..Len(m) : w[Len(one) + i] = m[i]
    BY <2>0, Zenon DEF ConcatFacts
  <2>2. u \in Seq(X) /\ Len(u) = e - 1 + 1 /\ \A i \in 1..(e - 1 + 1) : u[i] = ls[1 + i - 1]
    <3>1. 1 <= e + 1 /\ e <= Len(ls)
      BY <1>0, <1>6
    <3> QED
      BY <1>0, <1>6, <3>1, PieceIs
  <2> HIDE DEF u, w
  <2>3. Len(u) = e /\ Len(w) = e /\ \A i \in 1..e : u[i] = ls[i]
    BY <1>0, <1>1, <1>3, <2>1, <2>2
  <2>4. ASSUME NEW i \in 1..e PROVE u[i] = w[i]
    <3>1. CASE i = 1
      BY <1>3, <1>6, <2>1, <2>3, <3>1
    <3>2. CASE i # 1
      <4> DEFINE j == i - 1
      <4>1. j \in 1..k /\ 1 + j = i /\ j + 1 = i /\ j \in 1..n
        BY <1>0, <3>2
      <4> HIDE DEF j
      <4>2. w[1 + j] = m[j] /\ m[j] = v[j] /\ ls[j + 1] = v[j]
        BY <1>1, <1>3, <1>6, <2>1, <4>1
      <4> QED
        BY <2>3, <4>1, <4>2
    <3> QED
      BY <3>1, <3>2
  <2>5. u = w
    BY <2>1, <2>2, <2>3, <2>4, SeqEqual
  <2> QED
    BY <2>5 DEF u, w
<1>8. SubSeq(ls, e + 1, Len(ls)) = z
  <2> DEFINE lo == e + 1
             hi == n + 1
             u == SubSeq(ls, lo, hi)
  <2>1. lo \in Int /\ hi \in Int /\ 1 <= lo /\ lo <= hi + 1 /\ hi <= Len(ls) /\ hi - lo + 1 = n - k
    BY <1>0, <1>6
  <2>2. \A i \in 1..(n - k) : lo + i - 1 = (k + i) + 1 /\ k + i \in 1..n
    BY <1>0
  <2> HIDE DEF lo, hi
  <2>3. u \in Seq(X) /\ Len(u) = hi - lo + 1 /\ \A i \in 1..(hi - lo + 1) : u[i] = ls[lo + i - 1]
    BY <1>6, <2>1, PieceIs
  <2> HIDE DEF u
  <2>4. ASSUME NEW i \in 1..(n - k) PROVE u[i] = z[i]
    <3>1. u[i] = ls[(k + i) + 1] /\ k + i \in 1..n
      BY <2>1, <2>2, <2>3
    <3> QED
      BY <1>2, <1>6, <3>1
  <2>5. u = z
    BY <1>2, <1>4, <2>1, <2>3, <2>4, SeqEqual
  <2> QED
    BY <1>6, <2>5 DEF u, lo, hi
<1> QED
  BY <1>1, <1>2, <1>5, <1>6, <1>7, <1>8 DEF m, z, one, k, n, FirstFacts

(* The lines of a command after its rewriting, with e the last line that   *)
(* belongs to it.                                                          *)
Whole(u)    == Lines(CommandOf(u))
EndLine(u)  == EndOf(Whole(u), 1)
Inside(u)   == SubSeq(Lines(u), 1, EndLine(u) - 1)
Outside(u)  == SubSeq(Lines(u), EndLine(u), Len(Lines(u)))
After(u, p) == <<Rewritten(p, Inside(u))>> \o Outside(u)
Parts(u, p) ==
    /\ Inside(u) \in LineLists(Symbols) /\ Outside(u) \in LineLists(Symbols)
    /\ Lines(u) = Inside(u) \o Outside(u)
    /\ Whole(u) \in SomeRows(All) /\ EndLine(u) \in 1..Len(Whole(u))
    /\ Len(Whole(u)) = Len(Lines(u)) + 1 /\ Whole(u)[1] = Line1
    /\ \A i \in 1..Len(Lines(u)) : Whole(u)[i + 1] = Lines(u)[i]
    /\ SubSeq(Whole(u), 1, EndLine(u)) = <<Line1>> \o Inside(u)
    /\ SubSeq(Whole(u), EndLine(u) + 1, Len(Whole(u))) = Outside(u)
    /\ \A i \in 1..Len(Whole(u)) : Name \in ToSet(Whole(u)[i]) <=> i = 1
    /\ RewriteSpan(SubSeq(Whole(u), 1, EndLine(u)), p) = Rewritten(p, Inside(u))
    /\ Rewritten(p, Inside(u)) \in Text
LEMMA PartsAre ==
    ASSUME NEW u \in Text, NEW p
    PROVE  Parts(u, p)
<1> DEFINE Y == Text
           X == Seq(All)
           v == Lines(u)
           ls == Whole(u)
           e == EndLine(u)
<1>1. v \in Seq(Y) /\ ls = <<Line1>> \o v /\ v \in LineLists(Symbols)
  BY CommandLines DEF LineLists, Text, Whole
<1>2. Y \subseteq X
  <2>1. Symbols \subseteq All
    BY DEF All
  <2> QED
    BY <2>1, SeqSub DEF Text
<1>3. Line1 \in X
  BY Line1Is
<1>a. \A w : w \in Seq(Y) => w \in LineLists(Symbols)
  BY DEF LineLists, Text
<1>b. \A w : w \in Seq(X) /\ w # <<>> => w \in SomeRows(All)
  BY DEF SomeRows, LineLists
<1>c. \A i \in Y : Name \notin ToSet(i)
  BY Nameless
<1> HIDE DEF X, Y, v
<1>4. Len(v) \in Nat /\ Len(v) + 1 \in 1..(Len(v) + 1)
  BY <1>1
<1>5. ls \in Seq(X) /\ Len(ls) = Len(v) + 1 /\ ls[1] = Line1 /\ \A i \in 1..Len(v) : ls[i + 1] = v[i]
  <2> DEFINE f == Len(v) + 1
  <2>1. f \in 1..(Len(v) + 1)
    BY <1>4
  <2> HIDE DEF ls, f
  <2>2. FirstFacts(Y, X, Line1, v, f, ls)
    BY <1>1, <1>2, <1>3, <2>1, FirstParts, Zenon
  <2> QED
    BY <2>2, Zenon DEF FirstFacts
<1>6. e \in 1..Len(ls)
  <2>1. Len(ls) \in Nat /\ 1 \in 1..Len(ls)
    BY <1>4, <1>5
  <2> QED
    BY <2>1, EndIs DEF EndLine
<1> HIDE DEF ls, e
<1>7. /\ SubSeq(v, 1, e - 1) \in Seq(Y) /\ SubSeq(v, e, Len(v)) \in Seq(Y)
      /\ v = SubSeq(v, 1, e - 1) \o SubSeq(v, e, Len(v))
      /\ SubSeq(ls, 1, e) = <<Line1>> \o SubSeq(v, 1, e - 1)
      /\ SubSeq(ls, e + 1, Len(ls)) = SubSeq(v, e, Len(v))
  <2>1. e \in 1..(Len(v) + 1)
    BY <1>5, <1>6
  <2>2. FirstFacts(Y, X, Line1, v, e, ls)
    BY <1>1, <1>2, <1>3, <2>1, FirstParts, Zenon
  <2> QED
    BY <2>2, Zenon DEF FirstFacts
<1>8. Inside(u) = SubSeq(v, 1, e - 1) /\ Outside(u) = SubSeq(v, e, Len(v))
  BY DEF Inside, Outside, v, e
<1>9. Inside(u) \in LineLists(Symbols) /\ Outside(u) \in LineLists(Symbols)
  BY <1>a, <1>7, <1>8
<1>10. RewriteSpan(SubSeq(ls, 1, e), p) = Rewritten(p, Inside(u))
  <2>1. RewriteSpan(<<Line1>> \o Inside(u), p) = Rewritten(p, Inside(u))
    BY <1>9, SpanRewritten
  <2> QED
    BY <1>7, <1>8, <2>1, Zenon
<1>11. Rewritten(p, Inside(u)) \in Text
  BY <1>9, SpanTyped
<1>12. \A i \in 1..Len(ls) : Name \in ToSet(ls[i]) <=> i = 1
  <2>1. Name \in ToSet(Line1)
    <3>1. 1 \in DOMAIN Line1 /\ Line1[1] = Name
      BY DEF Line1
    <3> QED
      BY <3>1 DEF ToSet
  <2>2. ASSUME NEW i \in 1..Len(ls), i # 1 PROVE Name \notin ToSet(ls[i])
    <3> DEFINE j == i - 1
    <3>1. j \in 1..Len(v) /\ j + 1 = i
      BY <1>4, <1>5, <2>2
    <3> HIDE DEF j
    <3>2. ls[i] = v[j] /\ v[j] \in Y
      BY <1>1, <1>5, <3>1
    <3> QED
      BY <1>c, <3>2
  <2> QED
    BY <1>5, <2>1, <2>2
<1>13. ls \in SomeRows(All)
  <2>1. Len(ls) # 0
    BY <1>4, <1>5
  <2>2. ls # <<>>
    BY <1>5, <2>1, EmptySeq
  <2> QED
    BY <1>5, <1>b, <2>2
<1> QED
  BY <1>5, <1>6, <1>7, <1>8, <1>9, <1>10, <1>11, <1>12, <1>13 DEF Parts, ls, e, v

-----------------------------------------------------------------------------
(* The command alone on its page.                                          *)

(* A command alone is rewritten line by line.                              *)
Lone(u, p) ==
    /\ After(u, p) \in SomeRows(Symbols) /\ After(u, p) \in LineLists(All)
    /\ From(Whole(u), p) = After(u, p)
    /\ RewriteCmd(CommandOf(u), p) = Join(After(u, p))
    /\ RewriteCmd(CommandOf(u), p) \in Text
    /\ <<"NL">> \o RewriteCmd(CommandOf(u), p) = Hung(After(u, p))
LEMMA LoneIs ==
    ASSUME NEW u \in Text, NEW p
    PROVE  Lone(u, p)
<1> DEFINE X == Seq(All)
           ls == Whole(u)
           e == EndLine(u)
           r == Rewritten(p, Inside(u))
           one == <<r>>
           z == Outside(u)
<1>0. Parts(u, p)
  BY PartsAre
<1>1. /\ ls \in SomeRows(All) /\ e \in 1..Len(ls)
      /\ SubSeq(ls, e + 1, Len(ls)) = z
      /\ \A i \in 1..Len(ls) : Name \in ToSet(ls[i]) <=> i = 1
      /\ RewriteSpan(SubSeq(ls, 1, e), p) = r
      /\ r \in Text /\ z \in LineLists(Symbols)
  BY <1>0, Zenon DEF Parts
<1>2. ls \in Seq(X) /\ Text \subseteq X
  <2>1. Symbols \subseteq All
    BY DEF All
  <2>2. Text \subseteq X
    BY <2>1, SeqSub DEF Text
  <2> QED
    BY <1>1, <2>2 DEF SomeRows, LineLists
<1>3. one \in LineLists(Symbols) /\ one \o z \in SomeRows(Symbols)
  <2> DEFINE Y == Text
  <2>1. r \in Y /\ z \in Seq(Y)
    BY <1>1 DEF LineLists, Text
  <2> HIDE DEF Y, r, z
  <2>2. one \in Seq(Y) /\ Len(one) = 1
    BY <2>1, OneIs
  <2> HIDE DEF one
  <2>3. one \o z \in Seq(Y) /\ Len(one \o z) = 1 + Len(z) /\ Len(z) \in Nat
    <3>1. ConcatFacts(Y, one, z)
      BY <2>1, <2>2, ConcatsAre, Zenon DEF Concatenates
    <3> QED
      BY <2>2, <3>1, Zenon DEF ConcatFacts
  <2>4. one \o z # <<>>
    BY <2>3
  <2> QED
    BY <2>2, <2>3, <2>4 DEF Y, LineLists, Text, SomeRows
<1>4. After(u, p) = one \o z
  BY DEF After
<1>5. From(ls, p) = one \o z
  <2>0. EndOf(ls, 1) = e
    BY DEF EndLine
  <2> HIDE DEF X, ls, e, z
  <2>1. /\ 1 \in 1..Len(ls)
        /\ SubSeq(ls, 1, 1 - 1) = <<>>
    BY <1>1, <1>2, SubSeqEmpty
  <2>2. RewriteSpan(SubSeq(ls, 1, EndOf(ls, 1)), p) \in X
    BY <1>1, <1>2, <2>0
  <2>6. /\ ls \in Seq(X) /\ Len(ls) \in Nat
        /\ \A i \in 1..Len(ls) : Name \in ToSet(ls[i]) <=> i = 1
    BY <1>1, <1>2
  <2>3. From(ls, p) = SubSeq(ls, 1, 1 - 1)
                        \o (<<RewriteSpan(SubSeq(ls, 1, EndOf(ls, 1)), p)>>
                              \o SubSeq(ls, EndOf(ls, 1) + 1, Len(ls)))
    BY <2>1, <2>2, <2>6, FromIs
  <2>4. From(ls, p) = <<>> \o (one \o z)
    BY <1>1, <2>0, <2>1, <2>3, Zenon
  <2>5. <<>> \o (one \o z) = one \o z
    <3>1. RowsNeutral(Symbols)
      BY RowsJoin
    <3>2. one \o z \in LineLists(Symbols)
      BY <1>3 DEF SomeRows
    <3> QED
      BY <3>1, <3>2, Zenon DEF RowsNeutral
  <2> QED
    BY <2>4, <2>5
<1>6. RewriteCmd(CommandOf(u), p) = Join(one \o z)
  BY <1>5, RewriteIs DEF Whole
<1> HIDE DEF one, z
<1>7. Join(one \o z) \in Text /\ <<"NL">> \o Join(one \o z) = Hung(one \o z)
  <2>1. "NL" \in Symbols
    BY DEF Symbols, Chars
  <2>2. Joins(Symbols)
    BY <2>1, JoinIs
  <2> QED
    BY <1>3, <2>2, Zenon DEF Joins, Text
<1>8. one \o z \in LineLists(All)
  <2> DEFINE Y == Text
             w == one \o z
  <2>1. w \in Seq(Y)
    BY <1>3 DEF SomeRows, LineLists, Text
  <2> HIDE DEF X, Y, w
  <2>2. w \in Seq(X)
    BY <1>2, <2>1, SeqSub DEF Y
  <2> QED
    BY <2>2 DEF w, X, LineLists
<1> QED
  BY <1>3, <1>4, <1>5, <1>6, <1>7, <1>8, Zenon DEF Lone, ls

(* Without a second shell, the head alone is another.                      *)
LEMMA UnwrappedRewritten ==
    ASSUME NEW u \in Text, NEW p, ~Wrapped(p)
    PROVE  RewriteCmd(CommandOf(u), p) = CommandHead(Head1, p) \o (<<"NL">> \o u)
<1> DEFINE h == CommandHead(Head1, p)
           nl == <<"NL">>
           m == Inside(u)
           z == Outside(u)
           r == Rewritten(p, m)
           one == <<r>>
           s == Span(p, m)
<1>0. /\ "NL" \in Symbols /\ nl \in Text
      /\ Hangs(Symbols) /\ HangsJoin(Symbols) /\ HangsLines(Symbols) /\ Joins(Symbols)
      /\ RowsSnoc(Symbols) /\ RowsClosed(Symbols) /\ RowsNeutral(Symbols)
  <2>1. "NL" \in Symbols
    BY DEF Symbols, Chars
  <2>2. nl \in Text
    BY <2>1, TextIs DEF TextClosed
  <2> QED
    BY <2>1, <2>2, HungIs, HungConcat, HungLines, JoinIs, RowsSnocIs, RowsJoin
<1>1. /\ m \in LineLists(Symbols) /\ z \in LineLists(Symbols) /\ Lines(u) = m \o z
  BY PartsAre, Zenon DEF Parts
<1>2. /\ h \in Text /\ Lines(h) \in LineLists(Symbols) /\ s \in SomeRows(Symbols) /\ r \in Text
      /\ s = Lines(h) \o m /\ r = Join(s)
  BY <1>1, SpanTyped DEF Span, Rewritten
<1> HIDE DEF h, m, z, r, s
<1>3. nl \o r = (nl \o h) \o Hung(m)
  <2>1. nl \o r = Hung(Lines(h) \o m)
    BY <1>0, <1>2, Zenon DEF Joins
  <2>2. Hung(Lines(h) \o m) = Hung(Lines(h)) \o Hung(m)
    BY <1>0, <1>1, <1>2, Zenon DEF HangsJoin
  <2>3. Hung(Lines(h)) = nl \o h
    BY <1>0, <1>2, Zenon DEF HangsLines, Text
  <2> QED
    BY <2>1, <2>2, <2>3, Zenon
<1>4. Hung(one) = nl \o r
  <2>1. one = With(<<>>, r)
    <3>1. one \in LineLists(Symbols)
      BY <1>0, <1>2, Zenon DEF RowsClosed, Text
    <3> HIDE DEF one
    <3>2. <<>> \o one = one
      BY <1>0, <3>1, Zenon DEF RowsNeutral
    <3> QED
      BY <3>2, Zenon DEF With, one
  <2>2. <<>> \in LineLists(Symbols)
    BY <1>0, Zenon DEF RowsClosed
  <2>3. Hung(With(<<>>, r)) = Hung(<<>>) \o (nl \o r)
    BY <1>0, <1>2, <2>2, Zenon DEF Hangs, Text
  <2>4. Hung(<<>>) = <<>> /\ <<>> \o (nl \o r) = nl \o r
    <3> HIDE DEF nl
    <3>1. nl \o r \in Text
      BY <1>0, <1>2, TextIs, Zenon DEF TextClosed
    <3> QED
      BY <1>0, <3>1, TextIs, Zenon DEF Hangs, TextNeutral
  <2> QED
    BY <2>1, <2>3, <2>4, Zenon
<1>5. one \in LineLists(Symbols)
  BY <1>0, <1>2, Zenon DEF RowsClosed, Text
<1>6. Hung(one \o z) = Hung(one) \o Hung(z)
  <2> HIDE DEF one
  <2> QED
    BY <1>0, <1>1, <1>5, Zenon DEF HangsJoin
<1>7. Hung(m) \o Hung(z) = nl \o u /\ Hung(m) \in Text /\ Hung(z) \in Text
  <2>1. Hung(m \o z) = Hung(m) \o Hung(z)
    BY <1>0, <1>1, Zenon DEF HangsJoin
  <2>2. Hung(Lines(u)) = nl \o u
    BY <1>0, Zenon DEF HangsLines, Text
  <2>3. Hung(m) \in Text /\ Hung(z) \in Text
    BY <1>0, <1>1, Zenon DEF Hangs, Text
  <2> QED
    BY <1>1, <2>1, <2>2, <2>3, Zenon
<1> HIDE DEF nl, one
<1>8. nl \o h \in Text /\ nl \o u \in Text
  BY <1>0, <1>2, TextIs, Zenon DEF TextClosed
<1>9. ((nl \o h) \o Hung(m)) \o Hung(z) = (nl \o h) \o (Hung(m) \o Hung(z))
  BY <1>7, <1>8, TextIs, Zenon DEF TextAssoc
<1>10. (nl \o h) \o (nl \o u) = nl \o (h \o (nl \o u))
  <2> DEFINE x == nl \o u
  <2>1. x \in Text
    BY <1>8
  <2> HIDE DEF x
  <2>0. nl \in Text /\ h \in Text
    BY <1>0, <1>2
  <2>2. (nl \o h) \o x = nl \o (h \o x)
    <3>1. Same(nl, h, x)
      BY <2>0, <2>1, TextSame
    <3> QED
      BY <3>1, Zenon DEF Same
  <2> QED
    BY <2>2 DEF x
<1>11. Hung(one \o z) = nl \o (h \o (nl \o u))
  BY <1>3, <1>4, <1>6, <1>7, <1>9, <1>10, Zenon
<1>12. h \o (nl \o u) \in Text /\ one \o z \in LineLists(Symbols)
  <2>1. h \o (nl \o u) \in Text
    BY <1>2, <1>8, TextIs, Zenon DEF TextClosed
  <2>2. one \o z \in LineLists(Symbols)
    BY <1>0, <1>1, <1>5, Zenon DEF RowsClosed
  <2> QED
    BY <2>1, <2>2
<1>13. Join(one \o z) = h \o (nl \o u)
  BY <1>0, <1>11, <1>12, Zenon DEF Joins, Text, nl
<1>14. RewriteCmd(CommandOf(u), p) = Join(one \o z)
  <2>1. Lone(u, p)
    BY LoneIs
  <2>2. After(u, p) = one \o z
    BY DEF After, one, z, r, m
  <2> QED
    BY <2>1, <2>2, Zenon DEF Lone
<1> QED
  BY <1>13, <1>14, Zenon DEF nl, h

-----------------------------------------------------------------------------
(* The command between other lines of a page.                              *)

(* A command among the lines of a page.                                    *)
Framed(t) == <<"a", "NL">> \o t \o <<"NL", "a">>

LEMMA HungOne == ASSUME NEW r \in Text PROVE <<r>> \in LineLists(Symbols) /\ Hung(<<r>>) = <<"NL">> \o r
<1> DEFINE one == <<r>>
           nl == <<"NL">>
<1>0. Hangs(Symbols) /\ RowsClosed(Symbols) /\ RowsNeutral(Symbols) /\ "NL" \in Symbols /\ nl \in Text
  <2>1. "NL" \in Symbols
    BY DEF Symbols, Chars
  <2>2. nl \in Text
    BY <2>1, TextIs DEF TextClosed
  <2> QED
    BY <2>1, <2>2, HungIs, RowsJoin
<1>1. one \in LineLists(Symbols) /\ <<>> \in LineLists(Symbols)
  BY <1>0, Zenon DEF RowsClosed, Text
<1>2. one = With(<<>>, r)
  <2> HIDE DEF one
  <2>1. <<>> \o one = one
    BY <1>0, <1>1, Zenon DEF RowsNeutral
  <2> QED
    BY <2>1, Zenon DEF With, one
<1>3. Hung(With(<<>>, r)) = Hung(<<>>) \o (nl \o r)
  BY <1>0, <1>1, Zenon DEF Hangs, Text
<1>4. Hung(<<>>) = <<>> /\ <<>> \o (nl \o r) = nl \o r
  <2> HIDE DEF nl
  <2>1. nl \o r \in Text
    BY <1>0, TextIs, Zenon DEF TextClosed
  <2> QED
    BY <1>0, <2>1, TextIs, Zenon DEF Hangs, TextNeutral
<1> QED
  BY <1>1, <1>2, <1>3, <1>4, Zenon

(* The texts around it, and its lines.                                     *)
LEMMA FramedIs ==
    ASSUME NEW t \in Seq(All)
    PROVE  /\ Framed(t) = With(<<"a">>, "NL") \o (With(t, "NL") \o <<"a">>)
           /\ Lines(Framed(t)) = <<<<"a">>>> \o (Lines(t) \o <<<<"a">>>>)
           /\ Framed(t) = (<<"a">> \o <<"NL">>) \o t \o (<<"NL">> \o <<"a">>)
<1> DEFINE g == <<"a">>
           nl == <<"NL">>
<1>0. /\ "a" \in All /\ "NL" \in All /\ "a" # "NL" /\ g \in Seq(All) /\ nl \in Seq(All)
      /\ Closed(All) /\ Assoc(All) /\ LinesJoin(All)
  <2>1. "a" \in All /\ "NL" \in All
    BY DEF All, Symbols, Chars
  <2>2. g \in Seq(All) /\ nl \in Seq(All) /\ Closed(All) /\ Assoc(All)
    BY <2>1, OneIs, Concats
  <2> QED
    BY <2>1, <2>2, LinesThen
<1>1. <<"a", "NL">> = g \o nl /\ <<"NL", "a">> = nl \o g
  BY Pair, Zenon
<1>2. Framed(t) = ((g \o nl) \o t) \o (nl \o g)
  BY <1>1, Zenon DEF Framed
<1>3. With(g, "NL") = g \o nl /\ With(t, "NL") = t \o nl
  BY DEF With
<1>4. Lines(g) = <<g>>
  <2> DEFINE X == All \ {"NL"}
  <2>1. "NL" \notin X /\ g \in Seq(X)
    <3>1. "a" \in X
      BY <1>0
    <3> QED
      BY <3>1, OneIs
  <2> HIDE DEF X, g
  <2> QED
    BY <2>1, OneLine
<1> HIDE DEF g, nl
<1>5. g \o nl \in Seq(All) /\ t \o nl \in Seq(All) /\ nl \o g \in Seq(All)
  BY <1>0, Zenon DEF Closed
<1> DEFINE x == g \o nl
           y == nl \o g
<1>6. (x \o t) \o y = x \o (t \o y)
  <2>1. x \in Seq(All) /\ y \in Seq(All)
    BY <1>5
  <2> HIDE DEF x, y
  <2>2. x \in Seq(All) /\ t \in Seq(All) /\ y \in Seq(All) /\ Assoc(All)
    BY <1>0, <2>1
  <2> QED
    BY <2>2, Zenon DEF Assoc
<1>7. t \o (nl \o g) = (t \o nl) \o g
  BY <1>0, Zenon DEF Assoc
<1>8. Framed(t) = x \o ((t \o nl) \o g)
  BY <1>2, <1>6, <1>7
<1>9. (t \o nl) \o g \in Seq(All)
  BY <1>0, <1>5, Zenon DEF Closed
<1>10. Lines(Framed(t)) = Lines(g) \o Lines((t \o nl) \o g)
  <2> DEFINE v == (t \o nl) \o g
  <2>1. v \in Seq(All) /\ Framed(t) = With(g, "NL") \o v
    BY <1>3, <1>8, <1>9
  <2> HIDE DEF v
  <2>2. Lines(With(g, "NL") \o v) = Lines(g) \o Lines(v)
    BY <1>0, <2>1, Zenon DEF LinesJoin
  <2> QED
    BY <2>1, <2>2, Zenon DEF v
<1>11. Lines((t \o nl) \o g) = Lines(t) \o Lines(g)
  BY <1>0, <1>3, Zenon DEF LinesJoin
<1> QED
  BY <1>2, <1>3, <1>4, <1>8, <1>10, <1>11, Zenon DEF g, nl

LEMMA FramedRewritten ==
    ASSUME NEW u \in Text, NEW p, ~Continued(Whole(u)[Len(Whole(u))])
    PROVE  RewriteCmd(Framed(CommandOf(u)), p) = Framed(RewriteCmd(CommandOf(u), p))
<1> DEFINE X == Seq(All)
           g == <<"a">>
           nl == <<"NL">>
           one == <<g>>
           ls == Whole(u)
           G == one \o (ls \o one)
           n == Len(ls)
           e == EndLine(u)
           r == Rewritten(p, Inside(u))
           z == Outside(u)
           R == <<r>>
           c == RewriteCmd(CommandOf(u), p)
<1>1. /\ ls \in SomeRows(All) /\ e \in 1..n
      /\ SubSeq(ls, 1, e) = <<Line1>> \o Inside(u)
      /\ SubSeq(ls, e + 1, n) = z
      /\ \A i \in 1..n : Name \in ToSet(ls[i]) <=> i = 1
      /\ RewriteSpan(SubSeq(ls, 1, e), p) = r
      /\ r \in Text /\ z \in LineLists(Symbols)
  BY PartsAre, Zenon DEF Parts
<1>2. ls \in Seq(X) /\ ls # <<>> /\ Text \subseteq X
  <2>1. Symbols \subseteq All
    BY DEF All
  <2>2. Text \subseteq X
    BY <2>1, SeqSub DEF Text
  <2> QED
    BY <1>1, <2>2 DEF SomeRows, LineLists
<1>3. g \in X /\ g \in Text /\ nl \in Text /\ Name \notin ToSet(g)
  <2>1. "a" \in Symbols /\ "NL" \in Symbols
    BY DEF Symbols, Chars
  <2>2. g \in Text /\ nl \in Text
    BY <2>1, TextIs DEF TextClosed
  <2> HIDE DEF X, g
  <2> QED
    BY <1>2, <2>2, Nameless
<1>4. Lines(Framed(CommandOf(u))) = G
  <2>1. CommandOf(u) \in Seq(All)
    BY CommandLines
  <2> QED
    BY <2>1, FramedIs DEF Whole
<1>5. EndOf(ls, 1) = e
  BY DEF EndLine
<1> HIDE DEF X, g, ls, e, r, z, n
<1>6. /\ G \in Seq(X) /\ Len(G) = n + 2 /\ G[1] = g /\ G[n + 2] = g
      /\ \A k \in 1..n : G[k + 1] = ls[k]
      /\ SubSeq(G, 1, 1) = one
      /\ SubSeq(G, 2, e + 1) = SubSeq(ls, 1, e)
      /\ SubSeq(G, e + 2, n + 2) = SubSeq(ls, e + 1, n) \o one
  <2>1. FrameFacts(X, ls, g, e, G)
    BY <1>1, <1>2, <1>3, Frame, Zenon DEF n, one
  <2> HIDE DEF G
  <2> QED
    BY <2>1, Zenon DEF FrameFacts, n, one
<1>7. EndOf(G, 2) = e + 1
  <2>1. Len(ls) # 0 /\ ~Continued(ls[Len(ls)])
    BY <1>2 DEF ls
  <2> QED
    BY <1>2, <1>3, <1>5, <2>1, FrameEnd
<1>8. n \in Nat /\ n \in Int /\ e \in Int
  BY <1>1, <1>2 DEF n
<1> HIDE DEF G
<1>9. \A i \in 1..Len(G) : Name \in ToSet(G[i]) <=> i = 2
  <2> SUFFICES ASSUME NEW i \in 1..Len(G) PROVE Name \in ToSet(G[i]) <=> i = 2
    OBVIOUS
  <2>1. i = 1 \/ i = n + 2 \/ i \in 2..(n + 1)
    <3>1. i \in 1..(n + 2)
      BY <1>6
    <3> QED
      BY <1>8, <3>1
  <2>2. CASE i = 1
    BY <1>3, <1>6, <2>2
  <2>3. CASE i = n + 2
    <3>1. n # 0
      BY <1>1, <1>8
    <3> QED
      BY <1>3, <1>6, <1>8, <2>3, <3>1
  <2>4. CASE i \in 2..(n + 1)
    <3> DEFINE j == i - 1
    <3>1. j \in 1..n /\ j + 1 = i
      BY <1>8, <2>4
    <3> HIDE DEF j
    <3>2. G[i] = ls[j]
      BY <1>6, <3>1
    <3> QED
      BY <1>1, <1>8, <3>1, <3>2
  <2> QED
    BY <2>1, <2>2, <2>3, <2>4
<1>10. From(G, p) = one \o (R \o (z \o one))
  <2> DEFINE d == EndOf(G, 2)
  <2>1. 2 \in 1..Len(G)
    BY <1>6, <1>8
  <2>2. SubSeq(G, 2, d) = SubSeq(ls, 1, e) /\ SubSeq(G, d + 1, Len(G)) = z \o one
    <3>1. d + 1 = e + 2
      BY <1>7, <1>8
    <3>2. SubSeq(G, d + 1, Len(G)) = SubSeq(G, e + 2, n + 2)
      BY <1>6, <3>1, Zenon
    <3> QED
      BY <1>1, <1>6, <1>7, <3>2, Zenon
  <2> HIDE DEF d
  <2>3. RewriteSpan(SubSeq(G, 2, d), p) = r /\ r \in X
    BY <1>1, <1>2, <2>2, Zenon
  <2>4. From(G, p) = SubSeq(G, 1, 2 - 1) \o (<<RewriteSpan(SubSeq(G, 2, d), p)>> \o SubSeq(G, d + 1, Len(G)))
    <3>1. RewriteSpan(SubSeq(G, 2, EndOf(G, 2)), p) \in X
      BY <2>3 DEF d
    <3> QED
      BY <1>6, <1>9, <2>1, <3>1, FromIs DEF d
  <2>5. 2 - 1 = 1
    OBVIOUS
  <2> QED
    BY <1>6, <2>2, <2>3, <2>4, <2>5, Zenon
<1>11. one \in LineLists(Symbols) /\ Hung(one) = nl \o g /\ R \in LineLists(Symbols)
  BY <1>1, <1>3, HungOne
<1> HIDE DEF one, R
<1>12. R \o (z \o one) = (R \o z) \o one /\ R \o z \in LineLists(Symbols) /\ (R \o z) \o one \in LineLists(Symbols)
  <2>1. RowsClosed(Symbols) /\ RowsAssoc(Symbols)
    BY RowsJoin
  <2>2. R \o (z \o one) = (R \o z) \o one
    BY <1>1, <1>11, <2>1, Zenon DEF RowsAssoc
  <2>3. R \o z \in LineLists(Symbols)
    BY <1>1, <1>11, <2>1, Zenon DEF RowsClosed
  <2>4. (R \o z) \o one \in LineLists(Symbols)
    BY <1>11, <2>1, <2>3, Zenon DEF RowsClosed
  <2> QED
    BY <2>2, <2>3, <2>4
<1>13. c \in Text /\ nl \o c = Hung(R \o z)
  <2>1. Lone(u, p)
    BY LoneIs
  <2>2. R \o z = After(u, p)
    BY DEF R, z, r, After
  <2> QED
    BY <2>1, <2>2, Zenon DEF Lone
<1> DEFINE L == R \o z
           w == one \o (L \o one)
<1> HIDE DEF L, c
<1>14. L \in LineLists(Symbols) /\ nl \o c = Hung(L) /\ From(G, p) = w /\ L \o one \in LineLists(Symbols)
  BY <1>10, <1>12, <1>13 DEF L
<1>15. w \in LineLists(Symbols) /\ Hung(w) = (nl \o g) \o ((nl \o c) \o (nl \o g))
  <2>1. RowsClosed(Symbols) /\ HangsJoin(Symbols)
    <3>1. "NL" \in Symbols
      BY DEF Symbols, Chars
    <3> QED
      BY <3>1, RowsJoin, HungConcat
  <2>2. w \in LineLists(Symbols)
    BY <1>11, <1>14, <2>1, Zenon DEF RowsClosed
  <2>3. Hung(L \o one) = Hung(L) \o Hung(one)
    BY <1>11, <1>14, <2>1, Zenon DEF HangsJoin
  <2> DEFINE v == L \o one
  <2> HIDE DEF v
  <2>4. Hung(one \o v) = Hung(one) \o Hung(v)
    <3>1. v \in LineLists(Symbols)
      BY <1>14 DEF v
    <3> QED
      BY <1>11, <2>1, <3>1, Zenon DEF HangsJoin
  <2> QED
    BY <1>11, <1>14, <2>2, <2>3, <2>4, Zenon DEF v
<1> HIDE DEF w, nl
<1> DEFINE b == nl \o g
<1>16. b \in Text /\ g \o nl \in Text
  BY <1>3, TextIs, Zenon DEF TextClosed
<1>17. b \o ((nl \o c) \o b) = nl \o (((g \o nl) \o c) \o b)
  <2> HIDE DEF b
  <2>1. nl \o c \in Text /\ c \o b \in Text
    BY <1>3, <1>13, <1>16, TextIs, Zenon DEF TextClosed
  <2>2. (nl \o c) \o b = nl \o (c \o b)
    <3>1. nl \in Text /\ c \in Text /\ b \in Text /\ TextAssoc
      BY <1>3, <1>13, <1>16, TextIs
    <3>2. Same(nl, c, b)
      BY <3>1, TextSame
    <3> QED
      BY <3>2, Zenon DEF Same
  <2> DEFINE y == c \o b
  <2> HIDE DEF y
  <2>3. y \in Text /\ nl \o y \in Text
    BY <1>3, <2>1, TextIs, Zenon DEF TextClosed, y
  <2>4. (nl \o g) \o (nl \o y) = nl \o (g \o (nl \o y)) /\ g \o (nl \o y) = (g \o nl) \o y
    <3> DEFINE q == nl \o y
    <3>1. q \in Text
      BY <2>3
    <3>0. g \in Text /\ nl \in Text /\ y \in Text /\ TextAssoc
      BY <1>3, <2>3, TextIs
    <3>2. (g \o nl) \o y = g \o (nl \o y)
      <4>1. Same(g, nl, y)
        BY <3>0, TextSame
      <4> QED
        BY <4>1, Zenon DEF Same
    <3> HIDE DEF q
    <3>3. (nl \o g) \o q = nl \o (g \o q)
      <4>1. Same(nl, g, q)
        BY <3>0, <3>1, TextSame
      <4> QED
        BY <4>1, Zenon DEF Same
    <3> QED
      BY <3>2, <3>3, Zenon DEF q
  <2>5. (g \o nl) \o (c \o b) = ((g \o nl) \o c) \o b
    <3> DEFINE q == g \o nl
    <3>1. q \in Text
      BY <1>16
    <3> HIDE DEF q
    <3>2. (q \o c) \o b = q \o (c \o b)
      <4>1. Same(q, c, b)
        BY <1>13, <1>16, <3>1, TextSame
      <4> QED
        BY <4>1, Zenon DEF Same
    <3> QED
      BY <3>2, Zenon DEF q
  <2> QED
    BY <2>2, <2>4, <2>5, Zenon DEF y, b
<1>18. Framed(c) = ((g \o nl) \o c) \o b
  <2>1. c \in Seq(All)
    BY <1>2, <1>13 DEF X
  <2>2. Framed(c) = (<<"a">> \o <<"NL">>) \o c \o (<<"NL">> \o <<"a">>)
    BY <2>1, FramedIs
  <2> QED
    BY <2>2, Zenon DEF g, nl, b
<1>19. Framed(c) \in Text
  <2>1. (g \o nl) \o c \in Text
    BY <1>13, <1>16, TextIs, Zenon DEF TextClosed
  <2> DEFINE q == (g \o nl) \o c
  <2> HIDE DEF b, q
  <2>2. q \o b \in Text
    BY <1>16, <2>1, TextIs, Zenon DEF TextClosed, q
  <2> QED
    BY <1>18, <2>2, Zenon DEF q
<1>20. Join(w) = Framed(c)
  <2>1. Joins(Symbols)
    <3>1. "NL" \in Symbols
      BY DEF Symbols, Chars
    <3> QED
      BY <3>1, JoinIs
  <2>2. Hung(w) = <<"NL">> \o Framed(c)
    BY <1>15, <1>17, <1>18, Zenon DEF b, nl
  <2> QED
    BY <1>15, <1>19, <2>1, <2>2, Zenon DEF Joins, Text
<1>21. RewriteCmd(Framed(CommandOf(u)), p) = Join(From(G, p))
  BY <1>4, RewriteIs, Zenon
<1> QED
  BY <1>14, <1>20, <1>21, Zenon DEF c

-----------------------------------------------------------------------------
(* The arguments of a command, line by line.                               *)

(* A line of an argument, continued, before the text u of the next ones.   *)
ArgLine(a) == With(<<"SP", "SP">> \o a, "SP")
Upon(b, u) == With(With(b, "\\"), "NL") \o u

FiveIs(a, b, c, d, e) == (((a \o b) \o c) \o d) \o e = a \o (b \o (c \o (d \o e)))
LEMMA FiveAssoc ==
    ASSUME NEW a \in Text, NEW b \in Text, NEW c \in Text, NEW d \in Text, NEW e \in Text
    PROVE  FiveIs(a, b, c, d, e)
<1> DEFINE ab == a \o b
           de == d \o e
           cde == c \o de
<1>1. ab \in Text /\ de \in Text
  BY TextIs, Zenon DEF TextClosed
<1>2. cde \in Text /\ ab \o c \in Text
  <2> HIDE DEF ab, de
  <2> QED
    BY <1>1, TextIs, Zenon DEF TextClosed
<1>3. a \o (b \o cde) = ab \o cde
  <2>1. TextAssoc /\ a \in Text /\ b \in Text /\ cde \in Text
    BY <1>2, TextIs
  <2> HIDE DEF ab, de, cde
  <2>2. (a \o b) \o cde = a \o (b \o cde)
    <3>1. Same(a, b, cde)
      BY <2>1, TextSame
    <3> QED
      BY <3>1, Zenon DEF Same
  <2> QED
    BY <2>2 DEF ab
<1> HIDE DEF ab
<1>4. ((ab \o c) \o d) \o e = (ab \o c) \o de
  <2> DEFINE x == ab \o c
  <2>1. x \in Text
    BY <1>2
  <2> HIDE DEF x
  <2>2. (x \o d) \o e = x \o (d \o e)
    <3>1. TextAssoc
      BY TextIs
    <3>2. \A v, w \in Text : (x \o v) \o w = x \o (v \o w)
      BY <2>1, <3>1, Zenon DEF TextAssoc
    <3> QED
      BY <3>2
  <2> QED
    BY <2>2, Zenon DEF x
<1>5. (ab \o c) \o de = ab \o cde
  <2> HIDE DEF de
  <2>0. ab \in Text /\ c \in Text /\ de \in Text /\ TextAssoc
    BY <1>1, TextIs
  <2>1. (ab \o c) \o de = ab \o (c \o de)
    <3>1. Same(ab, c, de)
      BY <2>0, TextSame
    <3> QED
      BY <3>1, Zenon DEF Same
  <2> QED
    BY <2>1
<1> QED
  BY <1>3, <1>4, <1>5, Zenon DEF ab, de, cde, FiveIs

LEMMA ContinueTwo == <<"SP", "\\", "NL", "SP", "SP">> = (<<"SP", "\\">> \o <<"NL">>) \o <<"SP", "SP">>
  OBVIOUS

(* What is after a continuation begins a line.                             *)
Begun(u) == More \o (<<"NL">> \o u)
LEMMA Begins ==
    ASSUME NEW a \in Text
    PROVE  <<"SP", "SP">> \o a \in Text /\ Continue \o a = Begun(<<"SP", "SP">> \o a)
<1> DEFINE m == More
           nl == <<"NL">>
           g == <<"SP", "SP">>
<1>1. m \in Text /\ nl \in Text /\ g \in Text
  <2>1. "SP" \in Symbols /\ "NL" \in Symbols
    BY DEF Symbols, Chars
  <2> QED
    BY <2>1, DashesIs DEF Text
<1>2. Continue = (m \o nl) \o g
  BY ContinueTwo DEF Continue, More
<1> HIDE DEF m, nl, g
<1>3. g \o a \in Text /\ m \o nl \in Text
  BY <1>1, TextIs, Zenon DEF TextClosed
<1>4. ((m \o nl) \o g) \o a = (m \o nl) \o (g \o a)
  <2> DEFINE x == m \o nl
  <2>1. x \in Text /\ g \in Text /\ a \in Text /\ TextAssoc
    BY <1>1, <1>3, TextIs
  <2> HIDE DEF x
  <2>2. (x \o g) \o a = x \o (g \o a)
    <3>1. Same(x, g, a)
      BY <2>1, TextSame
    <3> QED
      BY <3>1, Zenon DEF Same
  <2> QED
    BY <2>2, Zenon DEF x
<1>5. (m \o nl) \o (g \o a) = m \o (nl \o (g \o a))
  <2> DEFINE x == g \o a
  <2>1. x \in Text
    BY <1>3
  <2> HIDE DEF x
  <2>2. (m \o nl) \o x = m \o (nl \o x)
    <3>1. Same(m, nl, x)
      BY <1>1, <2>1, TextSame
    <3> QED
      BY <3>1, Zenon DEF Same
  <2> QED
    BY <2>2, Zenon DEF x
<1> QED
  BY <1>2, <1>3, <1>4, <1>5, Zenon DEF m, nl, g, Begun

(* A line before such a continuation.                                      *)
LEMMA Overs ==
    ASSUME NEW x \in Text, NEW u \in Text
    PROVE  /\ Upon(With(x, "SP"), u) \in Text /\ x \o Begun(u) = Upon(With(x, "SP"), u)
           /\ Begun(u) \in Text
<1> DEFINE sp == <<"SP">>
           bs == <<"\\">>
           nl == <<"NL">>
           a == x \o sp
           b == a \o bs
           c == b \o nl
<1>1. sp \in Text /\ bs \in Text /\ nl \in Text
  <2>1. "SP" \in Symbols /\ "NL" \in Symbols /\ "\\" \in Symbols
    BY DEF Symbols, Chars
  <2> QED
    BY <2>1, TextIs DEF TextClosed
<1>2. More = sp \o bs
  BY Pair DEF More
<1>3. Upon(With(x, "SP"), u) = c \o u
  BY Zenon DEF Upon, With
<1> HIDE DEF sp, bs, nl
<1>4. a \in Text
  BY <1>1, TextIs, Zenon DEF TextClosed
<1> DEFINE n == nl \o u
<1>5. n \in Text
  BY <1>1, TextIs, Zenon DEF TextClosed
<1>6. x \o ((sp \o bs) \o n) = a \o (bs \o n)
  <2> HIDE DEF n
  <2>1. (sp \o bs) \o n = sp \o (bs \o n)
    <3>1. sp \in Text /\ bs \in Text /\ n \in Text /\ TextAssoc
      BY <1>1, <1>5, TextIs
    <3>2. Same(sp, bs, n)
      BY <3>1, TextSame
    <3> QED
      BY <3>2, Zenon DEF Same
  <2> DEFINE y == bs \o n
  <2>2. y \in Text
    BY <1>1, <1>5, TextIs, Zenon DEF TextClosed
  <2> HIDE DEF y
  <2>3. (x \o sp) \o y = x \o (sp \o y)
    <3>1. x \in Text /\ sp \in Text /\ y \in Text /\ TextAssoc
      BY <1>1, <2>2, TextIs
    <3>2. Same(x, sp, y)
      BY <3>1, TextSame
    <3> QED
      BY <3>2, Zenon DEF Same
  <2> QED
    BY <2>1, <2>3, Zenon DEF y
<1> HIDE DEF a
<1>7. a \o (bs \o n) = b \o n
  <2>0. a \in Text /\ bs \in Text /\ n \in Text
    BY <1>1, <1>4, <1>5
  <2> HIDE DEF n
  <2>1. (a \o bs) \o n = a \o (bs \o n)
    <3>1. Same(a, bs, n)
      BY <2>0, TextSame
    <3> QED
      BY <3>1, Zenon DEF Same
  <2> QED
    BY <2>1, Zenon
<1>8. b \in Text
  BY <1>1, <1>4, TextIs, Zenon DEF TextClosed
<1> HIDE DEF b
<1>9. (b \o nl) \o u = b \o (nl \o u)
  <2>0. b \in Text /\ nl \in Text /\ u \in Text
    BY <1>1, <1>8
  <2> QED
    BY <2>0, TextIs, Zenon DEF TextAssoc
<1>10. c \in Text
  BY <1>1, <1>8, TextIs, Zenon DEF TextClosed
<1>11. c \o u \in Text
  <2> HIDE DEF c
  <2> QED
    BY <1>10, TextIs, Zenon DEF TextClosed
<1>12. Begun(u) = (sp \o bs) \o n
  BY <1>2, Zenon DEF Begun, nl
<1>13. Begun(u) \in Text
  <2>1. sp \o bs \in Text
    BY <1>1, TextIs, Zenon DEF TextClosed
  <2> DEFINE q == sp \o bs
  <2> HIDE DEF q, n
  <2>2. q \o n \in Text
    BY <1>5, <2>1, TextIs, Zenon DEF TextClosed, q
  <2> QED
    BY <1>12, <2>2, Zenon DEF q
<1> QED
  BY <1>3, <1>6, <1>7, <1>9, <1>11, <1>12, <1>13, Zenon

LEMMA Pushed ==
    ASSUME NEW a \in Text, NEW u \in Text
    PROVE  (Continue \o a) \o Begun(u) = Begun(Upon(ArgLine(a), u)) /\ Upon(ArgLine(a), u) \in Text
<1> DEFINE g == <<"SP", "SP">>
           x == g \o a
           v == Begun(u)
           nl == <<"NL">>
<1>1. x \in Text /\ Continue \o a = Begun(x)
  BY Begins
<1>2. Upon(ArgLine(a), u) \in Text /\ x \o v = Upon(ArgLine(a), u) /\ v \in Text
  BY <1>1, Overs DEF ArgLine
<1>3. More \in Text /\ nl \in Text
  <2>1. "NL" \in Symbols
    BY DEF Symbols, Chars
  <2> QED
    BY <2>1, DashesIs, TextIs DEF TextClosed
<1> HIDE DEF x, v, nl
<1>4. (More \o (nl \o x)) \o v = More \o ((nl \o x) \o v)
  <2> DEFINE y == nl \o x
  <2>1. y \in Text
    BY <1>1, <1>3, TextIs, Zenon DEF TextClosed
  <2> HIDE DEF y
  <2>2. (More \o y) \o v = More \o (y \o v)
    <3>1. Same(More, y, v)
      BY <1>2, <1>3, <2>1, TextSame
    <3> QED
      BY <3>1, Zenon DEF Same
  <2> QED
    BY <2>2, Zenon DEF y
<1>5. (nl \o x) \o v = nl \o (x \o v)
  <2>1. nl \in Text /\ x \in Text /\ v \in Text /\ TextAssoc
    BY <1>1, <1>2, <1>3, TextIs
  <2>2. Same(nl, x, v)
    BY <2>1, TextSame
  <2> QED
    BY <2>2, Zenon DEF Same
<1>6. (Continue \o a) \o v = More \o (nl \o (x \o v))
  BY <1>1, <1>4, <1>5, Zenon DEF Begun, nl
<1> QED
  BY <1>2, <1>6, Zenon DEF Begun, nl, v

-----------------------------------------------------------------------------
(* A setup with one shell: the rewritten command gives the runner the      *)
(* posted strings; and the guide rewrites a block around a command as the  *)
(* command.                                                                *)

(* The command of the page is its first line and a line for each argument. *)
Tail1(a) == <<"SP", "SP">> \o a
Under(a) == Upon(ArgLine(a[1]), Upon(ArgLine(a[2]), Upon(ArgLine(a[3]), Upon(ArgLine(a[4]), Tail1(a[5])))))

UnderFacts(raw, kind) ==
    /\ Under(Arg(raw, kind)) \in Text
    /\ Rest(raw, kind) = Begun(Under(Arg(raw, kind)))
    /\ Rest(raw, kind) = More \o (<<"NL">> \o Under(Arg(raw, kind)))
    /\ Copied(raw, kind) = CommandOf(Under(Arg(raw, kind)))
LEMMA FirstLine == <<Name, "SP", "--", "SP", "\\">> = <<Name, "SP", "--">> \o <<"SP", "\\">>
  OBVIOUS
LEMMA UnderIs ==
    ASSUME NEW raw, NEW kind, Valued(raw, kind)
    PROVE  UnderFacts(raw, kind)
<1> DEFINE a == Arg(raw, kind)
           u5 == Tail1(a[5])
           u4 == Upon(ArgLine(a[4]), u5)
           u3 == Upon(ArgLine(a[3]), u4)
           u2 == Upon(ArgLine(a[2]), u3)
           u1 == Upon(ArgLine(a[1]), u2)
           c1 == Continue \o a[1]
           c2 == Continue \o a[2]
           c3 == Continue \o a[3]
           c4 == Continue \o a[4]
           c5 == Continue \o a[5]
<1>1. /\ a[1] \in Text /\ a[2] \in Text /\ a[3] \in Text /\ a[4] \in Text /\ a[5] \in Text
      /\ Continue \in Text /\ Rest(raw, kind) \in Text
      /\ Rest(raw, kind) = (((c1 \o c2) \o c3) \o c4) \o c5
  <2>1. Pieces(raw, kind)
    BY RestIs
  <2> QED
    BY <2>1, Zenon DEF Pieces
<1> HIDE DEF a
<1>2. c1 \in Text /\ c2 \in Text /\ c3 \in Text /\ c4 \in Text /\ c5 \in Text
  BY <1>1, TextIs, Zenon DEF TextClosed
<1>3. (((c1 \o c2) \o c3) \o c4) \o c5 = c1 \o (c2 \o (c3 \o (c4 \o c5)))
  <2> HIDE DEF c1, c2, c3, c4, c5
  <2> QED
    <3>1. FiveIs(c1, c2, c3, c4, c5)
      BY <1>2, FiveAssoc
    <3> QED
      BY <3>1, Zenon DEF FiveIs
<1>4. c5 = Begun(u5) /\ u5 \in Text
  BY <1>1, Begins DEF Tail1
<1> HIDE DEF u5
<1>5. c4 \o Begun(u5) = Begun(u4) /\ u4 \in Text
  BY <1>1, <1>4, Pushed
<1> HIDE DEF u4
<1>6. c3 \o Begun(u4) = Begun(u3) /\ u3 \in Text
  BY <1>1, <1>5, Pushed
<1> HIDE DEF u3
<1>7. c2 \o Begun(u3) = Begun(u2) /\ u2 \in Text
  BY <1>1, <1>6, Pushed
<1> HIDE DEF u2
<1>8. c1 \o Begun(u2) = Begun(u1) /\ u1 \in Text
  BY <1>1, <1>7, Pushed
<1>9. Rest(raw, kind) = Begun(u1)
  BY <1>1, <1>3, <1>4, <1>5, <1>6, <1>7, <1>8, Zenon
<1>10. Under(a) = u1
  BY Zenon DEF Under, u2, u3, u4, u5
<1> HIDE DEF u1
<1> DEFINE f == <<Name, "SP", "--">>
           nl == <<"NL">>
<1>11. Copied(raw, kind) = f \o Rest(raw, kind)
  BY CopiedIs DEF Rest, a
<1>12. f \in Seq(All) /\ nl \in Seq(All) /\ More \in Seq(All) /\ u1 \in Seq(All) /\ Line1 = f \o More
  <2>1. "SP" \in All /\ "--" \in All /\ "NL" \in All /\ "\\" \in All /\ Name \in All
    BY DEF All, Symbols, Chars, HeadSymbols
  <2>2. f \in Seq(All) /\ nl \in Seq(All) /\ More \in Seq(All)
    BY <2>1 DEF More
  <2>3. u1 \in Seq(All)
    <3>1. Symbols \subseteq All /\ u1 \in Seq(Symbols)
      BY <1>8 DEF All, Text
    <3> QED
      BY <3>1, SeqSub
  <2>4. Line1 = f \o More
    BY FirstLine DEF Line1, More
  <2> QED
    BY <2>2, <2>3, <2>4
<1> HIDE DEF f, nl
<1>13. f \o (More \o (nl \o u1)) = ((f \o More) \o nl) \o u1
  <2> DEFINE y == nl \o u1
             x == f \o More
  <2>1. Assoc(All) /\ Closed(All)
    BY Concats
  <2>2. y \in Seq(All) /\ x \in Seq(All)
    BY <1>12, <2>1, Zenon DEF Closed
  <2> HIDE DEF y
  <2>3. (f \o More) \o y = f \o (More \o y)
    BY <1>12, <2>1, <2>2, Zenon DEF Assoc
  <2>5. x \in Seq(All) /\ nl \in Seq(All) /\ u1 \in Seq(All) /\ Assoc(All)
    BY <1>12, <2>1, <2>2
  <2> HIDE DEF x
  <2>4. (x \o nl) \o u1 = x \o (nl \o u1)
    BY <2>5, Zenon DEF Assoc
  <2> QED
    BY <2>3, <2>4, Zenon DEF x, y
<1>14. CommandOf(u1) = ((f \o More) \o nl) \o u1
  BY <1>12, Zenon DEF CommandOf, With, nl
<1>15. Begun(u1) = More \o (nl \o u1)
  BY Zenon DEF Begun, nl
<1> QED
  BY <1>8, <1>9, <1>10, <1>11, <1>13, <1>14, <1>15, Zenon DEF UnderFacts, a, nl

(* Lines of which the last ends with a quote.                              *)
Stops(ls) == \E b \in LineLists(Symbols), l \in Text : ls = With(b, With(l, "'"))
LEMMA QuoteStops == ASSUME NEW t \in Text PROVE Stops(Lines(With(t, "'")))
<1>1. LinesRead(Symbols) /\ "'" \in Symbols /\ t \in Seq(Symbols)
  BY LinesAre DEF Symbols, Chars, Text
<1>2. Lines(t) \in SomeRows(Symbols) /\ Lines(With(t, "'")) = SplitChar(Lines(t), "'")
  BY <1>1, Zenon DEF LinesRead
<1>3. PICK b \in LineLists(Symbols), l \in Seq(Symbols) : Lines(t) = With(b, l)
  BY <1>2, LastLine
<1>4. SplitChar(With(b, l), "'") = With(b, With(l, "'"))
  <2>1. "'" # "NL"
    OBVIOUS
  <2> QED
    BY <1>1, <1>3, <2>1, SplitLast
<1> QED
  BY <1>2, <1>3, <1>4, Zenon DEF Stops, Text

LEMMA StopsAfter ==
    ASSUME NEW as \in LineLists(Symbols), NEW ls, Stops(ls)
    PROVE  Stops(as \o ls)
<1>1. PICK b \in LineLists(Symbols), l \in Text : ls = With(b, With(l, "'"))
  BY Zenon DEF Stops
<1>2. WithAfter(Symbols) /\ RowsClosed(Symbols)
  BY WithAfterIs, RowsJoin
<1>3. With(l, "'") \in Seq(Symbols)
  <2>1. "'" \in Symbols
    BY DEF Symbols, Chars
  <2> QED
    BY <2>1, TextIs, Zenon DEF TextClosed, With, Text
<1>4. as \o b \in LineLists(Symbols) /\ as \o With(b, With(l, "'")) = With(as \o b, With(l, "'"))
  BY <1>2, <1>3, Zenon DEF WithAfter, RowsClosed
<1> QED
  BY <1>1, <1>4, Zenon DEF Stops

LEMMA OverLines ==
    ASSUME NEW b \in Text, NEW u \in Text
    PROVE  /\ Lines(Upon(b, u)) = Lines(With(b, "\\")) \o Lines(u)
           /\ Lines(With(b, "\\")) \in LineLists(Symbols)
<1>1. "NL" \in Symbols /\ "\\" \in Symbols
  BY DEF Symbols, Chars
<1>2. LinesJoin(Symbols) /\ LinesRead(Symbols)
  BY <1>1, LinesThen, LinesAre
<1>3. With(b, "\\") \in Seq(Symbols)
  BY <1>1, TextIs, Zenon DEF TextClosed, With, Text
<1>4. Lines(With(b, "\\")) \in SomeRows(Symbols)
  BY <1>2, <1>3, Zenon DEF LinesRead
<1>5. Lines(With(With(b, "\\"), "NL") \o u) = Lines(With(b, "\\")) \o Lines(u)
  BY <1>2, <1>3, Zenon DEF LinesJoin, Text
<1> QED
  BY <1>4, <1>5 DEF Upon, SomeRows

LEMMA OverStops ==
    ASSUME NEW b \in Text, NEW u \in Text, Stops(Lines(u))
    PROVE  Stops(Lines(Upon(b, u)))
BY OverLines, StopsAfter

LEMMA WholeStops ==
    ASSUME NEW u \in Text, Stops(Lines(u))
    PROVE  ~Continued(Whole(u)[Len(Whole(u))])
<1> DEFINE ls == Lines(u)
           Y == Text
<1>1. PICK b \in LineLists(Symbols), l \in Text : ls = With(b, With(l, "'"))
  BY Zenon DEF Stops
<1> DEFINE k == With(l, "'")
<1>2. k \in Text /\ ~Continued(k)
  <2>1. "'" \in Symbols /\ "'" # "SP" /\ "'" # "\\"
    BY DEF Symbols, Chars
  <2>2. l \in Seq(Symbols)
    BY DEF Text
  <2>3. ~Continued(With(l, "'"))
    BY <2>1, <2>2, CutLast
  <2>4. With(l, "'") \in Text
    BY <2>1, TextIs, Zenon DEF TextClosed, With
  <2> QED
    BY <2>3, <2>4
<1> HIDE DEF k, ls
<1>3. Len(ls) \in Nat /\ Len(ls) > 0 /\ ls[Len(ls)] = k
  <2>1. b \in Seq(Y) /\ k \in Y
    BY <1>2 DEF LineLists, Text
  <2> HIDE DEF Y
  <2>2. WithFacts(Y, b, k)
    BY <2>1, WithIs
  <2>3. ls = With(b, k)
    BY <1>1 DEF k
  <2>4. Len(b) \in Nat /\ Len(ls) = Len(b) + 1 /\ ls[Len(b) + 1] = k
    BY <2>2, <2>3, Zenon DEF WithFacts
  <2> QED
    BY <2>4
<1>4. Len(Whole(u)) = Len(ls) + 1 /\ \A i \in 1..Len(ls) : Whole(u)[i + 1] = ls[i]
  <2>1. Parts(u, 1)
    BY PartsAre
  <2> QED
    BY <2>1, Zenon DEF Parts, ls
<1>5. Whole(u)[Len(Whole(u))] = k
  BY <1>3, <1>4
<1> QED
  BY <1>2, <1>5

LEMMA QuoteEnds ==
    ASSUME NEW f \in Text, NEW t \in Text
    PROVE  \E x \in Text : f \o ShQuote(t) = With(x, "'")
<1> DEFINE q == <<"'">>
           e == Spell(t, EscapeQuote)
           y == q \o e
           x == f \o y
<1>1. q \in Text /\ e \in Text /\ y \in Text
  <2>1. "'" \in Symbols /\ <<>> \in Words
    BY WordsAre DEF Symbols, Chars, WordsAppend
  <2>2. e \in Text
    BY <2>1, QuoteSpelled
  <2> HIDE DEF e
  <2> QED
    BY <2>1, <2>2, TextIs DEF TextClosed
<1>2. ShQuote(t) = y \o q
  BY DEF ShQuote
<1> HIDE DEF y, q
<1>3. x \in Text
  BY <1>1, TextIs, Zenon DEF TextClosed
<1>4. f \o (y \o q) = x \o q
  <2>1. f \in Text /\ y \in Text /\ q \in Text /\ TextAssoc
    BY <1>1, TextIs
  <2>2. (f \o y) \o q = f \o (y \o q)
    <3>1. Same(f, y, q)
      BY <2>1, TextSame
    <3> QED
      BY <3>1, Zenon DEF Same
  <2> QED
    BY <2>2
<1> QED
  BY <1>2, <1>3, <1>4, Zenon DEF With, q

LEMMA UnderStops ==
    ASSUME NEW raw, NEW kind, Valued(raw, kind)
    PROVE  Stops(Lines(Under(Arg(raw, kind))))
<1> DEFINE a == Arg(raw, kind)
           g == <<"SP", "SP">>
           f == <<"--profile", "SP">>
           t == Publish[2]
           u5 == Tail1(a[5])
           u4 == Upon(ArgLine(a[4]), u5)
           u3 == Upon(ArgLine(a[3]), u4)
           u2 == Upon(ArgLine(a[2]), u3)
<1>1. /\ a[1] \in Text /\ a[2] \in Text /\ a[3] \in Text /\ a[4] \in Text /\ a[5] \in Text
  <2>1. Pieces(raw, kind)
    BY RestIs
  <2> QED
    BY <2>1, Zenon DEF Pieces
<1>2. g \in Text /\ f \in Text /\ t \in Text /\ a[5] = f \o ShQuote(t)
  <2>1. {"SP", "--profile", "a"} \subseteq Symbols
    BY DEF Symbols, Chars, OtherSymbols
  <2>2. g \in Text /\ f \in Text /\ t \in Text
    BY <2>1 DEF Text, Publish
  <2>3. a[5] = f \o ShQuote(t)
    BY DEF Arg
  <2> QED
    BY <2>2, <2>3
<1> HIDE DEF a, g, f, t
<1>3. u5 \in Text /\ Stops(Lines(u5))
  <2>1. u5 = g \o (f \o ShQuote(t))
    BY <1>2 DEF Tail1, g
  <2>2. PICK x \in Text : f \o ShQuote(t) = With(x, "'")
    BY <1>2, QuoteEnds
  <2>3. g \o x \in Text /\ g \o With(x, "'") = With(g \o x, "'")
    <3>1. "'" \in Symbols
      BY DEF Symbols, Chars
    <3> DEFINE q == <<"'">>
    <3>2. q \in Text
      BY <3>1, TextIs DEF TextClosed
    <3> HIDE DEF q
    <3>3. g \in Text /\ x \in Text /\ q \in Text /\ TextAssoc /\ TextClosed
      BY <1>2, <3>2, TextIs
    <3>4. g \o x \in Text
      BY <3>3, Zenon DEF TextClosed
    <3>5. (g \o x) \o q = g \o (x \o q)
      <4>1. Same(g, x, q)
        BY <3>3, TextSame
      <4> QED
        BY <4>1, Zenon DEF Same
    <3> QED
      BY <3>4, <3>5, Zenon DEF With, q
  <2>4. u5 = With(g \o x, "'")
    BY <2>1, <2>2, <2>3, Zenon
  <2>5. Stops(Lines(With(g \o x, "'")))
    BY <2>3, QuoteStops
  <2>6. With(g \o x, "'") \in Text
    <3>1. "'" \in Symbols
      BY DEF Symbols, Chars
    <3> QED
      BY <2>3, <3>1, TextIs, Zenon DEF TextClosed, With
  <2> QED
    BY <2>4, <2>5, <2>6
<1> HIDE DEF u5
<1>4. ArgLine(a[1]) \in Text /\ ArgLine(a[2]) \in Text /\ ArgLine(a[3]) \in Text /\ ArgLine(a[4]) \in Text
  <2>1. \A b \in Text : ArgLine(b) \in Text
    <3>1. "SP" \in Symbols
      BY DEF Symbols, Chars
    <3> QED
      BY <1>2, <3>1, TextIs, Zenon DEF TextClosed, ArgLine, With, g
  <2> QED
    BY <1>1, <2>1
<1>5. u4 \in Text /\ Stops(Lines(u4))
  BY <1>1, <1>3, <1>4, Pushed, OverStops
<1> HIDE DEF u4
<1>6. u3 \in Text /\ Stops(Lines(u3))
  BY <1>1, <1>4, <1>5, Pushed, OverStops
<1> HIDE DEF u3
<1>7. u2 \in Text /\ Stops(Lines(u2))
  BY <1>1, <1>4, <1>6, Pushed, OverStops
<1> HIDE DEF u2
<1>8. Stops(Lines(Upon(ArgLine(a[1]), u2)))
  BY <1>1, <1>4, <1>7, OverStops
<1> QED
  BY <1>8, Zenon DEF Under, u2, u3, u4, u5, a

(* Without a second shell, the shell gives the runner what is posted.      *)
LEMMA UnwrappedSame ==
    ASSUME NEW raw, NEW kind, Valued(raw, kind), NEW p, ~Wrapped(p)
    PROVE  Argv(RewriteCmd(Copied(raw, kind), p)) = Posted(raw, kind)
<1> DEFINE u == Under(Arg(raw, kind))
           nl == <<"NL">>
           h == CommandHead(Dashes, p)
<1>1. u \in Text /\ Rest(raw, kind) = More \o (nl \o u) /\ Copied(raw, kind) = CommandOf(u)
  <2>1. UnderFacts(raw, kind)
    BY UnderIs
  <2> QED
    BY <2>1, Zenon DEF UnderFacts
<1> HIDE DEF u
<1>2. RewriteCmd(CommandOf(u), p) = CommandHead(Head1, p) \o (nl \o u)
  BY <1>1, UnwrappedRewritten
<1>3. Ends(h) /\ h \in Text /\ CommandHead(Head1, p) = h \o More
  BY HeadEnds DEF Head1
<1>4. More \in Text /\ nl \o u \in Text
  <2>1. "NL" \in Symbols
    BY DEF Symbols, Chars
  <2>2. More \in Text
    BY DashesIs
  <2> QED
    BY <1>1, <2>1, <2>2, TextIs, Zenon DEF TextClosed
<1>5. (h \o More) \o (nl \o u) = h \o (More \o (nl \o u))
  <2> DEFINE y == nl \o u
  <2>1. y \in Text
    BY <1>4
  <2> HIDE DEF h, y
  <2>2. (h \o More) \o y = h \o (More \o y)
    <3>1. Same(h, More, y)
      BY <1>3, <1>4, <2>1, TextSame
    <3> QED
      BY <3>1, Zenon DEF Same
  <2> QED
    BY <2>2, Zenon DEF y
<1>6. RewriteCmd(Copied(raw, kind), p) = h \o Rest(raw, kind)
  BY <1>1, <1>2, <1>3, <1>5, Zenon
<1> QED
  BY <1>3, <1>6, UnwrappedArgv

(* Among the lines of a page, the command is rewritten to the same text.   *)
LEMMA GuideSame ==
    ASSUME NEW raw, NEW kind, Valued(raw, kind), NEW p
    PROVE  GuideBlock([text |-> <<"a", "NL">> \o Copied(raw, kind) \o <<"NL", "a">>, local |-> FALSE], p)
             = <<"a", "NL">> \o RewriteCmd(Copied(raw, kind), p) \o <<"NL", "a">>
<1> DEFINE u == Under(Arg(raw, kind))
<1>1. u \in Text /\ Copied(raw, kind) = CommandOf(u) /\ Stops(Lines(u))
  <2>1. UnderFacts(raw, kind)
    BY UnderIs
  <2> QED
    BY <2>1, UnderStops, Zenon DEF UnderFacts
<1> HIDE DEF u
<1>2. RewriteCmd(Framed(CommandOf(u)), p) = Framed(RewriteCmd(CommandOf(u), p))
  BY <1>1, WholeStops, FramedRewritten
<1>3. \A x : GuideBlock([text |-> x, local |-> FALSE], p) = RewriteCmd(x, p)
  BY DEF GuideBlock, GuideRewrite
<1> QED
  BY <1>1, <1>2, <1>3 DEF Framed

-----------------------------------------------------------------------------
(* A setup with a second shell: the escape of a line, which leaves its     *)
(* continuation alone.                                                     *)

(* Texts of one line.                                                      *)
FlatChars == Symbols \ {"NL"}
Flat == Seq(FlatChars)
FlatClosed ==
    /\ <<>> \in Flat /\ \A c \in FlatChars : <<c>> \in Flat
    /\ \A a, b \in Flat : a \o b \in Flat
    /\ \A a \in Flat, c \in FlatChars : With(a, c) \in Flat
    /\ Flat \subseteq Text
LEMMA FlatIs == FlatClosed
<1>1. Closed(FlatChars)
  BY Concats
<1>2. Flat \subseteq Text
  BY SeqSub DEF Flat, Text, FlatChars
<1> QED
  BY <1>1, <1>2, Zenon DEF Closed, FlatClosed, Flat, With

(* A line with its continuing backslash, escaped.                          *)
LEMMA EscapedMore ==
    ASSUME NEW b \in Text
    PROVE  DqEscapeLine(With(b, "\\")) = Spell(b, EscapeDouble) \o <<"\\">>
<1> DEFINE l == With(b, "\\")
           n == Len(b)
           c == "\\"
<1>1. c \in Symbols /\ c # "SP" /\ b \in Seq(Symbols)
  BY DEF Symbols, Chars, Text
<1>2. WithFacts(Symbols, b, c)
  BY <1>1, WithIs
<1>3. Cut(l) = n + 1
  BY <1>1, CutLast
<1>4. n \in Nat /\ Len(l) = n + 1 /\ SubSeq(l, 1, n) = b /\ SubSeq(l, n + 1, n + 1) = <<c>>
  BY <1>2, Zenon DEF WithFacts
<1>5. (n + 1) - 1 = n
  BY <1>4
<1> HIDE DEF l, n
<1>6. DqEscapeLine(l) = Spell(SubSeq(l, 1, Cut(l) - 1), EscapeDouble) \o SubSeq(l, Cut(l), Len(l))
  BY DEF DqEscapeLine
<1>7. SubSeq(l, 1, Cut(l) - 1) = b /\ SubSeq(l, Cut(l), Len(l)) = <<c>>
  BY <1>3, <1>4, <1>5, Zenon
<1> QED
  BY <1>6, <1>7 DEF l

(* A line that ends otherwise is escaped whole.                            *)
LEMMA EscapedWhole ==
    ASSUME NEW b \in Text, NEW c \in Symbols, c # "SP", c # "\\"
    PROVE  DqEscapeLine(With(b, c)) = Spell(With(b, c), EscapeDouble)
<1> DEFINE l == With(b, c)
           n == Len(b)
           s == Spell(l, EscapeDouble)
<1>1. b \in Seq(Symbols)
  BY DEF Text
<1>2. WithFacts(Symbols, b, c)
  BY <1>1, WithIs
<1>3. Cut(l) = n + 2
  BY <1>1, CutLast
<1>4. n \in Nat /\ Len(l) = n + 1 /\ l \in Text
  BY <1>2, Zenon DEF WithFacts, Text
<1>5. Cut(l) - 1 = Len(l) /\ Cut(l) = Len(l) + 1
  BY <1>3, <1>4
<1>6. s \in Text
  <2>1. <<>> \in Words /\ <<>> \in Text
    BY WordsAre, TextIs DEF WordsAppend, TextClosed
  <2> QED
    BY <1>4, <2>1, DoubleSpelled
<1> HIDE DEF l, n
<1>7. SubSeq(l, 1, Len(l)) = l /\ SubSeq(l, Len(l) + 1, Len(l)) = <<>>
  <2> DEFINE X == Symbols
  <2>1. l \in Seq(X)
    BY <1>4 DEF Text
  <2> HIDE DEF X
  <2> QED
    BY <2>1
<1>8. DqEscapeLine(l) = Spell(SubSeq(l, 1, Cut(l) - 1), EscapeDouble) \o SubSeq(l, Cut(l), Len(l))
  BY DEF DqEscapeLine
<1>9. DqEscapeLine(l) = Spell(l, EscapeDouble) \o <<>>
  BY <1>5, <1>7, <1>8, Zenon
<1>10. s \o <<>> = s
  <2> HIDE DEF s
  <2> QED
    BY <1>6, TextIs, Zenon DEF TextNeutral
<1> QED
  BY <1>9, <1>10 DEF l

(* What is done to each of some texts, when one stands before them.        *)
LEMMA MapFirst ==
    ASSUME NEW X, NEW Y, NEW e, \A x \in X : e[x] \in Y, NEW c \in X, NEW ls \in Seq(X),
           NEW v, v = <<c>> \o ls
    PROVE  [k \in DOMAIN v |-> e[v[k]]] = <<e[c]>> \o [k \in DOMAIN ls |-> e[ls[k]]]
<1> DEFINE n == Len(ls)
           one == <<c>>
           w == [k \in 1..(n + 1) |-> e[v[k]]]
           s == [k \in 1..n |-> e[ls[k]]]
           o2 == <<e[c]>>
           r == o2 \o s
<1>1. one \in Seq(X) /\ Len(one) = 1 /\ one[1] = c /\ e[c] \in Y
  BY OneIs
<1> HIDE DEF one
<1>2. ConcatFacts(X, one, ls)
  BY <1>1, ConcatsAre, Zenon DEF Concatenates
<1>3. /\ v \in Seq(X) /\ n \in Nat /\ Len(v) = 1 + n
      /\ v[1] = c /\ \A i \in 1..n : v[1 + i] = ls[i]
  BY <1>1, <1>2 DEF ConcatFacts, one
<1>4. DOMAIN v = 1..(n + 1) /\ DOMAIN ls = 1..n
  BY <1>3
<1>5. \A i \in 1..n : ls[i] \in X
  BY ElementOfSeq
<1>6. \A k \in 1..(n + 1) : v[k] \in X
  BY <1>3, <1>4
<1>7. w \in [1..(n + 1) -> Y] /\ s \in [1..n -> Y]
  BY <1>5, <1>6
<1>8. \A k \in 1..(n + 1) : w[k] = e[v[k]]
  OBVIOUS
<1>9. \A k \in 1..n : s[k] = e[ls[k]]
  OBVIOUS
<1> HIDE DEF n, w, s
<1>10. w \in Seq(Y) /\ Len(w) = n + 1 /\ s \in Seq(Y) /\ Len(s) = n
  BY <1>3, <1>7
<1>11. o2 \in Seq(Y) /\ Len(o2) = 1 /\ o2[1] = e[c]
  BY <1>1, OneIs
<1> HIDE DEF o2
<1>12. ConcatFacts(Y, o2, s)
  BY <1>10, <1>11, ConcatsAre, Zenon DEF Concatenates
<1>13. /\ r \in Seq(Y) /\ Len(r) = 1 + n /\ r[1] = e[c] /\ \A i \in 1..n : r[1 + i] = s[i]
  BY <1>10, <1>11, <1>12 DEF ConcatFacts
<1> HIDE DEF r
<1>14. \A k \in 1..(n + 1) : w[k] = r[k]
  <2> TAKE k \in 1..(n + 1)
  <2>1. CASE k = 1
    BY <1>3, <1>8, <1>13, <2>1
  <2>2. CASE k # 1
    <3> DEFINE i == k - 1
    <3>1. i \in 1..n /\ k = 1 + i
      BY <1>3, <2>2
    <3> HIDE DEF i
    <3>2. w[k] = e[v[1 + i]]
      BY <1>8, <3>1
    <3>3. r[k] = s[i] /\ s[i] = e[ls[i]] /\ v[1 + i] = ls[i]
      BY <1>3, <1>9, <1>13, <3>1
    <3> QED
      BY <3>2, <3>3, Zenon
  <2> QED
    BY <2>1, <2>2
<1>15. w = r
  BY <1>3, <1>10, <1>13, <1>14, SeqEqual
<1> QED
  BY <1>4, <1>15 DEF w, r, s, o2

LEMMA EscapedFirst ==
    ASSUME NEW l \in Text, NEW ls \in SomeRows(Symbols)
    PROVE  /\ DqEscape(<<l>> \o ls) = DqEscapeLine(l) \o (<<"NL">> \o DqEscape(ls))
           /\ DqEscapeLine(l) \in Text /\ DqEscape(ls) \in Text
<1> DEFINE X == Text
           e == [x \in X |-> DqEscapeLine(x)]
           one == <<l>>
           v == one \o ls
           x1 == DqEscapeLine(l)
           o2 == <<x1>>
           es == Escaped(ls)
           nl == <<"NL">>
           j == DqEscape(ls)
<1>1. ls \in Seq(X) /\ es \in SomeRows(Symbols) /\ j \in Text /\ x1 \in Text /\ es \in LineLists(Symbols)
  BY EscapedRows, EscapedTyped DEF SomeRows, LineLists, Text
<1>2. \A x \in X : e[x] \in X /\ e[x] = DqEscapeLine(x)
  BY EscapedTyped
<1>3. \A k \in DOMAIN ls : ls[k] \in X
  <2> HIDE DEF X
  <2> QED
    BY <1>1, ElementOfSeq, LenProperties
<1>4. v \in Seq(X) /\ l \in X
  <2>1. l \in X
    OBVIOUS
  <2> HIDE DEF X
  <2>2. one \in Seq(X)
    BY <2>1, OneIs
  <2> HIDE DEF one
  <2> QED
    BY <1>1, <2>1, <2>2
<1>5. \A k \in DOMAIN v : v[k] \in X
  <2> HIDE DEF X, v
  <2> QED
    BY <1>4, ElementOfSeq, LenProperties
<1>6. [k \in DOMAIN v |-> e[v[k]]] = <<e[l]>> \o [k \in DOMAIN ls |-> e[ls[k]]]
  <2> HIDE DEF X, e, v
  <2> QED
    BY <1>1, <1>2, <1>4, MapFirst DEF v
<1> HIDE DEF X, e
<1>7. Escaped(v) = [k \in DOMAIN v |-> e[v[k]]] /\ es = [k \in DOMAIN ls |-> e[ls[k]]]
  <2>1. Escaped(v) = [k \in DOMAIN v |-> e[v[k]]]
    <3> HIDE DEF v
    <3> QED
      BY <1>2, <1>5 DEF Escaped
  <2>2. es = [k \in DOMAIN ls |-> e[ls[k]]]
    BY <1>2, <1>3 DEF Escaped
  <2> QED
    BY <2>1, <2>2
<1>8. Escaped(v) = o2 \o es
  BY <1>2, <1>4, <1>6, <1>7
<1>9. "NL" \in Symbols /\ nl \in Text
  <2>1. "NL" \in Symbols
    BY DEF Symbols, Chars
  <2> QED
    BY <2>1, TextIs DEF TextClosed
<1>10. Joins(Symbols) /\ HangsJoin(Symbols) /\ RowsClosed(Symbols)
  BY <1>9, JoinIs, HungConcat, RowsJoin
<1>11. o2 \in LineLists(Symbols) /\ Hung(o2) = nl \o x1
  <2> HIDE DEF x1
  <2> QED
    BY <1>1, HungOne
<1>12. DqEscape(v) = Join(Escaped(v)) /\ j = Join(es)
  BY DEF DqEscape, Escaped
<1> HIDE DEF v, o2, es, j, x1, nl
<1>13. Hung(o2 \o es) = Hung(o2) \o Hung(es) /\ Hung(es) = nl \o j
  BY <1>1, <1>10, <1>11, <1>12, Zenon DEF HangsJoin, Joins, nl
<1>14. x1 \o (nl \o j) \in Text /\ (nl \o x1) \o (nl \o j) = nl \o (x1 \o (nl \o j))
  <2>1. nl \o j \in Text
    BY <1>1, <1>9, TextIs, Zenon DEF TextClosed
  <2> DEFINE y == nl \o j
  <2>2. y \in Text
    BY <2>1
  <2> HIDE DEF y
  <2>3. nl \in Text /\ x1 \in Text /\ y \in Text /\ TextAssoc /\ TextClosed
    BY <1>1, <1>9, <2>2, TextIs
  <2>4. x1 \o y \in Text
    BY <2>3, Zenon DEF TextClosed
  <2>5. (nl \o x1) \o y = nl \o (x1 \o y)
    <3>1. Same(nl, x1, y)
      BY <2>3, TextSame
    <3> QED
      BY <3>1, Zenon DEF Same
  <2> QED
    BY <2>4, <2>5, Zenon DEF y
<1>15. o2 \o es \in LineLists(Symbols)
  BY <1>1, <1>10, <1>11, Zenon DEF RowsClosed
<1>16. Join(o2 \o es) = x1 \o (nl \o j)
  BY <1>10, <1>11, <1>13, <1>14, <1>15, Zenon DEF Joins, Text, nl
<1> QED
  BY <1>1, <1>8, <1>12, <1>16 DEF v, nl, x1, j

-----------------------------------------------------------------------------
(* What the outer shell hands on of the lines, read within double quotes.  *)

(* Lines of which each but the last is continued, and what a shell that    *)
(* reads them escaped, inside double quotes, makes of them.                *)
Straight(ls) == \A k \in 1..(Len(ls) - 1) : Continued(ls[k])
Passes(t, i) ==
    \A ws \in Words, w \in Text :
        Read(DqEscape(Lines(t)), St("double", ws, w, TRUE)) = St("double", ws, w \o i, TRUE)
Carries(t, i) ==
    /\ t \in Text /\ i \in Text /\ Lines(t) \in SomeRows(Symbols) /\ DqEscape(Lines(t)) \in Text
    /\ Straight(Lines(t))
    /\ Passes(t, i)

LEMMA JoinOne == ASSUME NEW r \in Text PROVE Join(<<r>>) = r
<1>1. "NL" \in Symbols
  BY DEF Symbols, Chars
<1>2. Joins(Symbols)
  BY <1>1, JoinIs
<1> DEFINE one == <<r>>
<1>3. one \in LineLists(Symbols) /\ Hung(one) = <<"NL">> \o r
  BY HungOne
<1> HIDE DEF one
<1>4. Join(one) = r
  BY <1>2, <1>3, Zenon DEF Joins, Text
<1> QED
  BY <1>4 DEF one

LEMMA EscapedOne == ASSUME NEW l \in Text PROVE DqEscape(<<l>>) = DqEscapeLine(l)
<1> DEFINE x == DqEscapeLine(l)
<1>1. Escaped(<<l>>) = <<x>>
  BY DEF Escaped
<1>2. x \in Text
  BY EscapedTyped
<1>3. DqEscape(<<l>>) = Join(Escaped(<<l>>))
  BY DEF DqEscape, Escaped
<1> HIDE DEF x
<1>4. Join(<<x>>) = x
  BY <1>2, JoinOne
<1> QED
  BY <1>1, <1>3, <1>4, Zenon DEF x

LEMMA CarriesLast ==
    ASSUME NEW b \in Flat
    PROVE  Carries(With(b, "'"), With(b, "'"))
<1> DEFINE c == "'"
           l == With(b, c)
           x == Spell(l, EscapeDouble)
<1>1. c \in FlatChars /\ c \in Symbols /\ c # "SP" /\ c # "\\"
  BY DEF FlatChars, Symbols, Chars
<1>2. l \in Flat /\ l \in Text /\ b \in Text
  BY <1>1, FlatIs DEF FlatClosed
<1>3. Lines(l) = <<l>>
  <2> DEFINE D == FlatChars
  <2>1. "NL" \notin D /\ l \in Seq(D)
    BY <1>2 DEF FlatChars, Flat
  <2> HIDE DEF D, l
  <2> QED
    BY <2>1, OneLine
<1>4. DqEscapeLine(l) = x
  BY <1>1, <1>2, EscapedWhole
<1> HIDE DEF l
<1>5. DqEscape(Lines(l)) = x
  BY <1>2, <1>3, <1>4, EscapedOne
<1>6. x \in Text /\ \A ws \in Words, w \in Text :
          Read(x, St("double", ws, w, TRUE)) = St("double", ws, w \o l, TRUE)
  <2>1. <<>> \in Words /\ <<>> \in Text
    BY WordsAre, TextIs DEF WordsAppend, TextClosed
  <2> QED
    BY <1>2, <2>1, DoubleSpelled
<1> HIDE DEF x
<1>7. Passes(l, l)
  BY <1>5, <1>6 DEF Passes
<1>8. Straight(Lines(l))
  <2> DEFINE one == <<l>>
  <2>1. Len(one) - 1 = 0
    OBVIOUS
  <2> HIDE DEF one
  <2>2. \A k \in 1..0 : Continued(one[k])
    OBVIOUS
  <2>3. \A k \in 1..(Len(one) - 1) : Continued(one[k])
    BY <2>1, <2>2, Zenon
  <2> QED
    BY <1>3, <2>3 DEF Straight, one
<1>9. Lines(l) \in SomeRows(Symbols)
  <2>1. LinesRead(Symbols)
    BY LinesAre
  <2> QED
    BY <1>2, <2>1, Zenon DEF LinesRead, Text
<1>10. DqEscape(Lines(l)) \in Text
  BY <1>5, <1>6
<1> QED
  BY <1>2, <1>7, <1>8, <1>9, <1>10, Zenon DEF Carries, l

(* A line, continued, before them: the shell takes the continuation away.  *)
Gives(j, ws, i) == \A v \in Text : Read(j, St("double", ws, v, TRUE)) = St("double", ws, v \o i, TRUE)
OverEscaped(b, j) == (Spell(b, EscapeDouble) \o <<"\\">>) \o (<<"NL">> \o j)
LEMMA OverPasses ==
    ASSUME NEW b \in Text, NEW j \in Text, NEW i \in Text, NEW ws \in Words, Gives(j, ws, i)
    PROVE  Gives(OverEscaped(b, j), ws, b \o i)
<1> SUFFICES ASSUME NEW w \in Text
             PROVE  Read((Spell(b, EscapeDouble) \o <<"\\">>) \o (<<"NL">> \o j), St("double", ws, w, TRUE))
                      = St("double", ws, w \o (b \o i), TRUE)
  BY DEF Gives, OverEscaped
<1> DEFINE x == Spell(b, EscapeDouble)
           bs == <<"\\">>
           nl == <<"NL">>
           s0 == St("double", ws, w, TRUE)
           wb == w \o b
           s1 == St("double", ws, wb, TRUE)
           s2 == St("double\\", ws, wb, TRUE)
<1>1. "\\" \in Symbols /\ "NL" \in Symbols /\ wb \in Text
  BY TextIs DEF Symbols, Chars, TextClosed
<1>2. x \in Text /\ Read(x, s0) = s1
  BY DoubleSpelled
<1> HIDE DEF x, wb
<1>3. s0 \in States /\ s1 \in States /\ s2 \in States
  BY <1>1, StIs DEF Modes
<1>4. ReadChar(s1, "\\") = s2 /\ ReadChar(s2, "NL") = s1
  BY <1>1, QuoteReads
<1>5. Read(j, s1) = St("double", ws, wb \o i, TRUE)
  BY <1>1, Zenon DEF Gives
<1> HIDE DEF s0, s1, s2
<1>6. bs \in Text /\ Read(bs, s1) = s2 /\ nl \in Text /\ Read(nl, s2) = s1
  BY <1>1, <1>3, <1>4, ReadChars
<1> HIDE DEF bs, nl
<1>7. x \o bs \in Text /\ Read(x \o bs, s0) = s2
  BY <1>2, <1>3, <1>6, ReadThen
<1>8. nl \o j \in Text /\ Read(nl \o j, s2) = Read(j, s1)
  BY <1>3, <1>6, ReadThen
<1>9. Read((x \o bs) \o (nl \o j), s0) = Read(j, s1)
  <2> DEFINE y == nl \o j
             z == x \o bs
  <2>1. y \in Text /\ z \in Text /\ Read(z, s0) = s2 /\ Read(y, s2) = Read(j, s1)
    BY <1>7, <1>8
  <2> HIDE DEF y, z
  <2>2. Read(z \o y, s0) = Read(y, s2)
    BY <1>3, <2>1, ReadThen
  <2> QED
    BY <2>1, <2>2 DEF y, z
<1>10. wb \o i = w \o (b \o i)
  BY TextIs, Zenon DEF TextAssoc, wb
<1> QED
  BY <1>5, <1>9, <1>10 DEF x, bs, nl, s0

LEMMA StraightFirst ==
    ASSUME NEW X, NEW ls \in Seq(X), Straight(ls), NEW l \in X, Continued(l), NEW v, v = <<l>> \o ls
    PROVE  Straight(v) /\ Len(v) = 1 + Len(ls) /\ Len(ls) \in Nat
<1> DEFINE n == Len(ls)
           one == <<l>>
<1>1. one \in Seq(X) /\ Len(one) = 1 /\ one[1] = l
  BY OneIs
<1> HIDE DEF one
<1>2. ConcatFacts(X, one, ls)
  BY <1>1, ConcatsAre, Zenon DEF Concatenates
<1>3. /\ v \in Seq(X) /\ n \in Nat /\ Len(v) = 1 + n
      /\ v[1] = l /\ \A i \in 1..n : v[1 + i] = ls[i]
  BY <1>1, <1>2 DEF ConcatFacts, one
<1>4. ASSUME NEW k \in 1..(Len(v) - 1) PROVE Continued(v[k])
  <2>1. CASE k = 1
    BY <1>3, <2>1
  <2>2. CASE k # 1
    <3> DEFINE i == k - 1
    <3>1. i \in 1..(n - 1) /\ i \in 1..n /\ k = 1 + i
      BY <1>3, <2>2
    <3> HIDE DEF i
    <3>2. Continued(ls[i])
      BY <3>1 DEF Straight
    <3> QED
      BY <1>3, <3>1, <3>2
  <2> QED
    BY <2>1, <2>2
<1> QED
  BY <1>3, <1>4 DEF Straight

LEMMA CarriesOver ==
    ASSUME NEW b \in Flat, NEW u, NEW i, Carries(u, i)
    PROVE  Carries(Upon(b, u), b \o i)
<1> DEFINE l == With(b, "\\")
           ls == Lines(u)
           j == DqEscape(ls)
           o == Upon(b, u)
           x == Spell(b, EscapeDouble) \o <<"\\">>
           v == <<l>> \o ls
<1>1. /\ u \in Text /\ i \in Text /\ ls \in SomeRows(Symbols) /\ j \in Text
      /\ Straight(ls)
      /\ \A ws \in Words, w \in Text : Read(j, St("double", ws, w, TRUE)) = St("double", ws, w \o i, TRUE)
  BY Zenon DEF Carries, Passes
<1>2. b \in Text /\ l \in Text /\ l \in Flat
  <2>1. "\\" \in FlatChars
    BY DEF FlatChars, Symbols, Chars
  <2> QED
    BY <2>1, FlatIs DEF FlatClosed
<1>3. Lines(l) = <<l>>
  <2> DEFINE D == FlatChars
  <2>1. "NL" \notin D /\ l \in Seq(D)
    BY <1>2 DEF FlatChars, Flat
  <2> HIDE DEF D, l
  <2> QED
    BY <2>1, OneLine
<1>4. Lines(o) = v
  BY <1>1, <1>2, <1>3, OverLines
<1>5. DqEscapeLine(l) = x
  BY <1>2, EscapedMore
<1>6. Continued(l)
  <2>1. b \in Seq(Symbols) /\ "\\" \in Symbols /\ "\\" # "SP"
    BY <1>2 DEF Text, Symbols, Chars
  <2> QED
    BY <2>1, CutLast
<1>7. o \in Text
  <2>1. "\\" \in Symbols /\ "NL" \in Symbols
    BY DEF Symbols, Chars
  <2> DEFINE m == With(l, "NL")
  <2>2. m \in Text
    <3> HIDE DEF l
    <3> QED
      BY <1>2, <2>1, TextIs, Zenon DEF TextClosed, With
  <2> HIDE DEF m
  <2>3. m \o u \in Text
    BY <1>1, <2>2, TextIs, Zenon DEF TextClosed
  <2> QED
    BY <2>3 DEF Upon, m
<1> HIDE DEF l, j, o
<1>8. DqEscape(v) = DqEscapeLine(l) \o (<<"NL">> \o j)
  BY <1>1, <1>2, EscapedFirst DEF j
<1>9. v \in SomeRows(Symbols) /\ Straight(v)
  <2> DEFINE X == Text
  <2>1. ls \in Seq(X) /\ l \in X
    BY <1>1, <1>2 DEF SomeRows, LineLists, Text
  <2> HIDE DEF X, ls
  <2>2. Straight(v) /\ Len(v) = 1 + Len(ls) /\ Len(ls) \in Nat
    BY <1>1, <1>6, <2>1, StraightFirst
  <2> HIDE DEF v
  <2>3. v # <<>>
    BY <2>2
  <2>4. v \in SomeRows(Symbols)
    <3>1. LinesRead(Symbols)
      BY LinesAre
    <3> QED
      BY <1>4, <1>7, <3>1, Zenon DEF LinesRead, Text
  <2> QED
    BY <2>2, <2>4
<1> HIDE DEF v, ls
<1>10. DqEscape(v) \in Text
  BY <1>9, EscapedRows
<1>11. Passes(o, b \o i)
  <2>1. b \in Text /\ j \in Text /\ i \in Text
    BY <1>1, <1>2
  <2>2. \A ws \in Words : Gives(j, ws, i)
    BY <1>1, Zenon DEF Gives
  <2>3. \A ws \in Words : Gives(OverEscaped(b, j), ws, b \o i)
    BY <2>1, <2>2, OverPasses
  <2>4. DqEscape(Lines(o)) = OverEscaped(b, j)
    BY <1>4, <1>5, <1>8, Zenon DEF OverEscaped
  <2> QED
    BY <2>3, <2>4, Zenon DEF Passes, Gives
<1>12. b \o i \in Text
  BY <1>1, <1>2, TextIs, Zenon DEF TextClosed
<1> QED
  BY <1>4, <1>7, <1>9, <1>10, <1>11, <1>12 DEF Carries, o

-----------------------------------------------------------------------------
(* The arguments of a command whose values are of one line.                *)

LEMMA FlatSpelled == ASSUME NEW t \in Flat PROVE Spell(t, EscapeQuote) \in Flat
<1> DEFINE e == [c \in Symbols |-> EscapeQuote(c)]
           D == FlatChars
<1>0. "'" \in D /\ "\\" \in D /\ D \subseteq Symbols /\ t \in Text
  BY FlatIs DEF FlatChars, Symbols, Chars, FlatClosed
<1>1. ASSUME NEW c \in D PROVE e[c] \in Flat
  <2>1. e[c] = EscapeQuote(c)
    BY <1>0
  <2>2. \A a, b \in D : <<a, b>> \in Flat
    BY FlatIs, Pair DEF FlatClosed
  <2>3. <<c>> \in Flat /\ <<"'", "\\">> \o <<"'", "'">> \in Flat
    BY <1>0, <2>2, FlatIs, Zenon DEF FlatClosed
  <2>4. EscapeQuote(c) \in Flat
    BY <2>3, SingleQuote, Zenon DEF EscapeQuote
  <2> QED
    BY <2>1, <2>4
<1>2. Spell(t, EscapeQuote) = SpellBy(e, t)
  BY <1>0, SpellIs
<1> HIDE DEF e
<1>3. Spelling(e, D, D) /\ t \in Seq(D)
  BY <1>1 DEF Spelling, Flat
<1> HIDE DEF D
<1>4. SpellBy(e, t) \in Seq(D)
  BY <1>3, SpellTyped
<1> QED
  BY <1>2, <1>4 DEF D, Flat

LEMMA FlatQuote ==
    ASSUME NEW f \in Flat, NEW t \in Flat
    PROVE  \E x \in Flat : f \o ShQuote(t) = With(x, "'") /\ With(x, "'") \in Flat
<1> DEFINE q == <<"'">>
           e == Spell(t, EscapeQuote)
           y == q \o e
           x == f \o y
<1>0. "'" \in FlatChars
  BY DEF FlatChars, Symbols, Chars
<1>1. q \in Flat /\ e \in Flat
  BY <1>0, FlatSpelled, FlatIs DEF FlatClosed
<1>2. ShQuote(t) = y \o q
  BY DEF ShQuote
<1> HIDE DEF q, e
<1>3. y \in Flat
  BY <1>1, FlatIs, Zenon DEF FlatClosed
<1> HIDE DEF y
<1>4. x \in Flat
  BY <1>3, FlatIs, Zenon DEF FlatClosed
<1>5. f \in Text /\ y \in Text /\ q \in Text
  BY <1>1, <1>3, FlatIs DEF FlatClosed
<1>6. f \o (y \o q) = x \o q
  BY <1>5, TextIs, Zenon DEF TextAssoc
<1>7. With(x, "'") \in Flat
  BY <1>0, <1>4, FlatIs, Zenon DEF FlatClosed
<1> QED
  BY <1>2, <1>4, <1>6, <1>7, Zenon DEF With, q

(* A value without a line end keeps its argument on one line.              *)
LEMMA FlatSet ==
    ASSUME NEW part, part.value \in Flat, NEW key \in {"k", "l"}
    PROVE  EncodeSet(key, part) \in Flat
<1> DEFINE s == <<key, "=">>
           v == SetArg(key, part)
           f == <<"--set", "SP">>
<1>1. s \in Flat /\ f \in Flat
  <2>1. {"--set", "SP", "=", key} \subseteq FlatChars
    BY DEF FlatChars, Symbols, Chars, OtherSymbols
  <2>2. \A a, b \in FlatChars : <<a, b>> \in Flat
    BY FlatIs, Pair DEF FlatClosed
  <2> QED
    BY <2>1, <2>2
<1>2. v = s \o part.value
  BY DEF SetArg
<1> HIDE DEF s
<1>3. v \in Flat
  BY <1>1, <1>2, FlatIs, Zenon DEF FlatClosed
<1>4. EncodeSet(key, part) = f \o v \/ EncodeSet(key, part) = f \o ShQuote(v)
  BY Zenon DEF EncodeSet
<1> HIDE DEF f, v
<1>5. f \o v \in Flat /\ f \o ShQuote(v) \in Flat
  <2>1. f \o v \in Flat
    BY <1>1, <1>3, FlatIs, Zenon DEF FlatClosed
  <2>2. PICK x \in Flat : f \o ShQuote(v) = With(x, "'") /\ With(x, "'") \in Flat
    BY <1>1, <1>3, FlatQuote
  <2> QED
    BY <2>1, <2>2
<1> QED
  BY <1>4, <1>5

FlatValues(raw, kind) == SetParts(raw, kind).value \in Flat /\ SetParts(<<"a">>, "str").value \in Flat
FlatArgs(a) ==
    /\ a[1] \in Flat /\ a[2] \in Flat /\ a[3] \in Flat /\ a[4] \in Flat
    /\ \E x \in Flat : a[5] = With(x, "'")
LEMMA FlatArgsAre ==
    ASSUME NEW raw, NEW kind, FlatValues(raw, kind)
    PROVE  FlatArgs(Arg(raw, kind))
<1> DEFINE a == Arg(raw, kind)
           s == Sent(raw, kind)
           f1 == <<"--data-dir", "SP">>
           f4 == <<"--publish", "SP">>
           f5 == <<"--profile", "SP">>
           v1 == DataDir
           v4 == Publish[1]
           v5 == Publish[2]
<1>1. a[1] = f1 \o ShQuote(v1) /\ a[4] = f4 \o ShQuote(v4) /\ a[5] = f5 \o ShQuote(v5)
      /\ a[2] = EncodeSet("k", s[1]) /\ a[3] = EncodeSet("l", s[2])
  BY DEF Arg
<1>2. {f1, f4, f5, v1, v4, v5} \subseteq Flat
  <2>1. {"--data-dir", "--publish", "--profile", "SP", "a", "'", "$"} \subseteq FlatChars
    BY DEF FlatChars, Symbols, Chars, OtherSymbols
  <2> QED
    BY <2>1 DEF Flat, DataDir, Publish
<1>3. s[1].value \in Flat /\ s[2].value \in Flat
  BY DEF FlatValues, Sent
<1> HIDE DEF a, s, f1, f4, f5, v1, v4, v5
<1>4. a[2] \in Flat /\ a[3] \in Flat
  BY <1>1, <1>3, FlatSet
<1>6. /\ \E x \in Flat : f1 \o ShQuote(v1) = With(x, "'") /\ With(x, "'") \in Flat
      /\ \E x \in Flat : f4 \o ShQuote(v4) = With(x, "'") /\ With(x, "'") \in Flat
      /\ \E x \in Flat : f5 \o ShQuote(v5) = With(x, "'") /\ With(x, "'") \in Flat
  <2>1. f1 \in Flat /\ f4 \in Flat /\ f5 \in Flat /\ v1 \in Flat /\ v4 \in Flat /\ v5 \in Flat
    BY <1>2
  <2> QED
    BY <2>1, FlatQuote, Zenon
<1>5. a[1] \in Flat /\ a[4] \in Flat
  BY <1>1, <1>6, Zenon
<1>7. \E x \in Flat : a[5] = With(x, "'")
  BY <1>1, <1>6, Zenon
<1> QED
  BY <1>4, <1>5, <1>7, Zenon DEF FlatArgs, a

Inner5(a) == ArgLine(a[1]) \o (ArgLine(a[2]) \o (ArgLine(a[3]) \o (ArgLine(a[4]) \o Tail1(a[5]))))
LEMMA FlatLine == ASSUME NEW a \in Flat PROVE <<"SP", "SP">> \o a \in Flat /\ ArgLine(a) \in Flat
<1> DEFINE g == <<"SP", "SP">>
<1>1. "SP" \in FlatChars
  BY DEF FlatChars, Symbols, Chars
<1>2. g \in Flat
  BY <1>1 DEF Flat
<1> HIDE DEF g
<1>3. g \o a \in Flat
  BY <1>2, FlatIs, Zenon DEF FlatClosed
<1>4. With(g \o a, "SP") \in Flat
  BY <1>1, <1>3, FlatIs, Zenon DEF FlatClosed
<1> QED
  BY <1>3, <1>4 DEF ArgLine, g

LEMMA UnderCarried ==
    ASSUME NEW a, FlatArgs(a)
    PROVE  Carries(Under(a), Inner5(a))
<1> DEFINE u5 == Tail1(a[5])
           u4 == Upon(ArgLine(a[4]), u5)
           u3 == Upon(ArgLine(a[3]), u4)
           u2 == Upon(ArgLine(a[2]), u3)
           i4 == ArgLine(a[4]) \o u5
           i3 == ArgLine(a[3]) \o i4
           i2 == ArgLine(a[2]) \o i3
<1>1. /\ ArgLine(a[1]) \in Flat /\ ArgLine(a[2]) \in Flat
      /\ ArgLine(a[3]) \in Flat /\ ArgLine(a[4]) \in Flat
  BY FlatLine DEF FlatArgs
<1>2. Carries(u5, u5)
  <2>1. PICK x \in Flat : a[5] = With(x, "'")
    BY DEF FlatArgs
  <2> DEFINE g == <<"SP", "SP">>
             q == <<"'">>
  <2>2. g \o x \in Flat
    BY FlatLine
  <2>3. g \in Text /\ x \in Text /\ q \in Text
    <3>1. "SP" \in Symbols /\ "'" \in Symbols
      BY DEF Symbols, Chars
    <3>2. g \in Text /\ q \in Text
      BY <3>1 DEF Text
    <3> QED
      BY <3>2, FlatIs DEF FlatClosed
  <2>4. u5 = g \o With(x, "'")
    BY <2>1 DEF Tail1
  <2> HIDE DEF g, q, u5
  <2>5. g \o (x \o q) = (g \o x) \o q
    <3>1. Same(g, x, q)
      BY <2>3, TextSame
    <3> QED
      BY <3>1, Zenon DEF Same
  <2>6. u5 = With(g \o x, "'")
    BY <2>4, <2>5, Zenon DEF With, q
  <2>7. Carries(With(g \o x, "'"), With(g \o x, "'"))
    BY <2>2, CarriesLast
  <2> QED
    BY <2>6, <2>7
<1> HIDE DEF u5
<1>3. Carries(u4, i4)
  BY <1>1, <1>2, CarriesOver
<1> HIDE DEF u4, i4
<1>4. Carries(u3, i3)
  BY <1>1, <1>3, CarriesOver
<1> HIDE DEF u3, i3
<1>5. Carries(u2, i2)
  BY <1>1, <1>4, CarriesOver
<1> HIDE DEF u2, i2
<1>6. Carries(Upon(ArgLine(a[1]), u2), ArgLine(a[1]) \o i2)
  BY <1>1, <1>5, CarriesOver
<1> QED
  BY <1>6, Zenon DEF Under, Inner5, u2, u3, u4, u5, i2, i3, i4

-----------------------------------------------------------------------------
(* The inner shell reads those arguments.                                  *)

(* The inner shell on the lines of the arguments.                          *)
LineStep(x, f, v) ==
    /\ x \in Text /\ f \in Text /\ v \in Text
    /\ \A ws \in Words :
          /\ Append(Append(ws, f), v) \in Words
          /\ Read(x, St("bare", ws, <<>>, FALSE)) = St("bare", Append(Append(ws, f), v), <<>>, FALSE)
LEMMA LineStepIs == ASSUME NEW a, NEW f, NEW v, Argument(a, f, v) PROVE LineStep(ArgLine(a), f, v)
<1>1. f \in Text /\ v \in Text /\ <<>> \in Words
  BY WordsAre DEF Argument, WordsAppend
<1>2. ArgLine(a) = (<<"SP", "SP">> \o a) \o <<"SP">>
  BY DEF ArgLine, With
<1>3. ArgLine(a) \in Text
  <2>1. LineFacts(a, f, v, <<>>)
    BY <1>1, LineRead
  <2> QED
    BY <1>2, <2>1, Zenon DEF LineFacts
<1>4. ASSUME NEW ws \in Words
      PROVE  /\ Append(Append(ws, f), v) \in Words
             /\ Read(ArgLine(a), St("bare", ws, <<>>, FALSE)) = St("bare", Append(Append(ws, f), v), <<>>, FALSE)
  <2>1. /\ Append(Append(ws, f), v) \in Words
        /\ Read((<<"SP", "SP">> \o a) \o <<"SP">>, St("bare", ws, <<>>, FALSE))
             = St("bare", Append(Append(ws, f), v), <<>>, FALSE)
    <3>1. LineFacts(a, f, v, ws)
      BY LineRead
    <3> QED
      BY <3>1, Zenon DEF LineFacts
  <2> QED
    BY <1>2, <2>1, Zenon
<1> QED
  BY <1>1, <1>3, <1>4 DEF LineStep

LEMMA InnerRead ==
    ASSUME NEW raw, NEW kind, Valued(raw, kind), NEW hs \in Words
    PROVE  /\ Inner5(Arg(raw, kind)) \in Text
           /\ EndWord(Read(Inner5(Arg(raw, kind)), St("bare", hs, <<>>, FALSE)))
                = St("bare", hs \o Posted(raw, kind), <<>>, FALSE)
<1> DEFINE a == Arg(raw, kind)
           sets == BuildArgs(Sent(raw, kind))
           x1 == ArgLine(a[1])
           x2 == ArgLine(a[2])
           x3 == ArgLine(a[3])
           x4 == ArgLine(a[4])
           x5 == Tail1(a[5])
           f1 == <<"--data-dir">>
           f2 == <<"--set">>
           f4 == <<"--publish">>
           f5 == <<"--profile">>
           v1 == DataDir
           v2 == sets[1]
           v3 == sets[2]
           v4 == Publish[1]
           v5 == Publish[2]
           w1 == Append(Append(hs, f1), v1)
           w2 == Append(Append(w1, f2), v2)
           w3 == Append(Append(w2, f2), v3)
           w4 == Append(Append(w3, f4), v4)
           w5 == Append(w4, f5)
           s0 == St("bare", hs, <<>>, FALSE)
           s1 == St("bare", w1, <<>>, FALSE)
           s2 == St("bare", w2, <<>>, FALSE)
           s3 == St("bare", w3, <<>>, FALSE)
           s4 == St("bare", w4, <<>>, FALSE)
           s5 == St("bare", w5, v5, TRUE)
<1>1. /\ Argument(a[1], f1, v1) /\ Argument(a[2], f2, v2) /\ Argument(a[3], f2, v3)
      /\ Argument(a[4], f4, v4) /\ Argument(a[5], f5, v5)
  BY ArgsAre DEF Valued
<1>3. Posted(raw, kind) = <<f1, v1, f2, v2, f2, v3, f4, v4, f5, v5>>
  BY DEF Posted
<1>2. Inner5(a) = x1 \o (x2 \o (x3 \o (x4 \o x5)))
  BY Zenon DEF Inner5
<1> HIDE DEF a, sets, v1, v2, v3, v4, v5, f1, f2, f4, f5
<1>4. LineStep(x1, f1, v1) /\ LineStep(x2, f2, v2) /\ LineStep(x3, f2, v3) /\ LineStep(x4, f4, v4)
  BY <1>1, LineStepIs, Zenon
<1> HIDE DEF x1, x2, x3, x4
<1>5. x1 \in Text /\ w1 \in Words /\ Read(x1, s0) = s1
  BY <1>4, Zenon DEF LineStep
<1> HIDE DEF w1
<1>6. x2 \in Text /\ w2 \in Words /\ Read(x2, s1) = s2
  BY <1>4, <1>5, Zenon DEF LineStep
<1> HIDE DEF w2
<1>7. x3 \in Text /\ w3 \in Words /\ Read(x3, s2) = s3
  BY <1>4, <1>6, Zenon DEF LineStep
<1> HIDE DEF w3
<1>8. x4 \in Text /\ w4 \in Words /\ Read(x4, s3) = s4
  BY <1>4, <1>7, Zenon DEF LineStep
<1> HIDE DEF w4
<1>9. x5 \in Text /\ w5 \in Words /\ v5 \in Text /\ Read(x5, s4) = s5
  <2>1. Argument(a[5], f5, v5) /\ w4 \in Words
    BY <1>1, <1>8
  <2>2. /\ <<"SP", "SP">> \o a[5] \in Text /\ Append(w4, f5) \in Words /\ v5 \in Text
        /\ Read(<<"SP", "SP">> \o a[5], St("bare", w4, <<>>, FALSE)) = St("bare", Append(w4, f5), v5, TRUE)
    <3>1. LineFacts(a[5], f5, v5, w4)
      BY <2>1, LineRead
    <3> QED
      BY <3>1, Zenon DEF LineFacts
  <2> QED
    BY <2>2, Zenon DEF Tail1
<1> HIDE DEF x5, w5
<1>10. s0 \in States /\ s1 \in States /\ s2 \in States /\ s3 \in States /\ s4 \in States
  BY <1>5, <1>6, <1>7, <1>8, EmptyStates
<1>11. EndWord(s5) = St("bare", Append(w5, v5), <<>>, FALSE)
  BY DEF EndWord, St
<1> HIDE DEF s0, s1, s2, s3, s4, s5
<1> DEFINE y4 == x4 \o x5
           y3 == x3 \o y4
           y2 == x2 \o y3
           y1 == x1 \o y2
<1>12. y4 \in Text /\ Read(y4, s3) = s5
  BY <1>8, <1>9, <1>10, ReadThen
<1> HIDE DEF y4
<1>13. y3 \in Text /\ Read(y3, s2) = s5
  BY <1>7, <1>10, <1>12, ReadThen
<1> HIDE DEF y3
<1>14. y2 \in Text /\ Read(y2, s1) = s5
  BY <1>6, <1>10, <1>13, ReadThen
<1> HIDE DEF y2
<1>15. y1 \in Text /\ Read(y1, s0) = s5
  BY <1>5, <1>10, <1>14, ReadThen
<1>16. Append(w5, v5) = hs \o Posted(raw, kind)
  <2>1. v1 \in Text /\ v2 \in Text /\ v3 \in Text /\ v4 \in Text /\ v5 \in Text
    BY <1>4, <1>9 DEF LineStep
  <2>2. f1 \in Text /\ f2 \in Text /\ f4 \in Text /\ f5 \in Text
    BY <1>1 DEF Argument
  <2>3. Append(w5, v5)
          = Append(Append(Append(Append(Append(Append(Append(Append(Append(Append(hs, f1), v1), f2), v2), f2), v3), f4), v4), f5), v5)
    BY DEF w1, w2, w3, w4, w5
  <2> HIDE DEF w1, w2, w3, w4, w5
  <2>4. TenFact(hs, f1, v1, f2, v2, f2, v3, f4, v4, f5, v5)
    BY <2>1, <2>2, TenAfter
  <2> QED
    BY <1>3, <2>3, <2>4, Zenon DEF TenFact
<1>17. Inner5(a) = y1
  BY <1>2, Zenon DEF y1, y2, y3, y4
<1> HIDE DEF y1
<1> QED
  BY <1>11, <1>15, <1>16, <1>17 DEF a, s0

(* A head that the inner shell reads, to the end of its last word.         *)
Leads(x) ==
    /\ x \in Text
    /\ \A s \in Heads("bare") : \E hs \in HeadWords : hs # <<>> /\ Read(x, s) = St("bare", hs, <<>>, FALSE)
LEMMA EndsLead == ASSUME NEW t, Ends(t) PROVE Leads(With(t, "SP"))
<1> DEFINE sp == <<"SP">>
<1>1. "SP" \in Symbols /\ t \in Text
  BY DEF Symbols, Chars, Ends
<1>2. ASSUME NEW s \in Heads("bare")
      PROVE  \E hs \in HeadWords : hs # <<>> /\ Read(t \o sp, s) = St("bare", hs, <<>>, FALSE)
  <2>1. s \in States
    BY Zenon DEF Heads
  <2>2. Read(t, s) \in Open
    BY Zenon DEF Ends
  <2>3. PICK ws \in HeadWords, w \in HeadText : Read(t, s) = St("bare", ws, w, TRUE)
    BY <2>2, Zenon DEF Open
  <2>4. ws \in Words /\ w \in Text /\ Append(ws, w) \in HeadWords
    BY HeadIs, Zenon DEF HeadTyped
  <2> DEFINE r == St("bare", ws, w, TRUE)
             q == St("bare", Append(ws, w), <<>>, FALSE)
  <2>5. r \in States /\ ReadChar(r, "SP") = q
    BY <2>4, StIs, BareReads DEF Modes
  <2> HIDE DEF r, q
  <2>6. sp \in Text /\ Read(sp, r) = q
    BY <1>1, <2>5, ReadChars
  <2>7. Read(t, s) = r
    BY <2>3 DEF r
  <2> HIDE DEF sp
  <2>8. Read(t \o sp, s) = q
    BY <1>1, <2>1, <2>6, <2>7, ReadThen
  <2>9. Append(ws, w) # <<>>
    <3> DEFINE X == Text
    <3>1. ws \in Seq(X) /\ w \in X
      BY <2>4 DEF Words
    <3> HIDE DEF X
    <3> QED
      BY <3>1, AppendProperties
  <2> QED
    BY <2>4, <2>8, <2>9, Zenon DEF q
<1>3. t \o sp \in Text
  BY <1>1, TextIs, Zenon DEF TextClosed
<1> QED
  BY <1>2, <1>3, Zenon DEF Leads, With

LEMMA PathLeads == ASSUME NEW t, NEW x, Path(t, "bare", "bare"), Leads(x) PROVE Leads(t \o x)
<1>1. t \in Text /\ x \in Text
  BY DEF Path, Leads
<1>2. t \o x \in Text
  BY <1>1, TextIs, Zenon DEF TextClosed
<1>3. ASSUME NEW s \in Heads("bare")
      PROVE  \E hs \in HeadWords : hs # <<>> /\ Read(t \o x, s) = St("bare", hs, <<>>, FALSE)
  <2>1. s \in States
    BY Zenon DEF Heads
  <2>2. Read(t, s) \in Heads("bare")
    BY Zenon DEF Path
  <2>3. Read(t \o x, s) = Read(x, Read(t, s))
    BY <1>1, <2>1, ReadThen
  <2> QED
    BY <2>2, <2>3, Zenon DEF Leads
<1> QED
  BY <1>2, <1>3, Zenon DEF Leads

(* What the second shell is given.                                         *)
LEMMA InnerShell ==
    ASSUME NEW raw, NEW kind, Valued(raw, kind), NEW x, Leads(x)
    PROVE  /\ ArgsOf(Shell(x \o Inner5(Arg(raw, kind)))) = Posted(raw, kind)
           /\ x \o Inner5(Arg(raw, kind)) \in Text
<1> DEFINE s == St("bare", <<>>, <<>>, FALSE)
           r == Inner5(Arg(raw, kind))
<1>1. s \in Heads("bare") /\ s \in States
  <2>1. s \in Heads("bare")
    BY HeadIs, InHeads DEF HeadTyped, Modes
  <2> QED
    BY <2>1, Zenon DEF Heads
<1>2. PICK hs \in HeadWords : hs # <<>> /\ Read(x, s) = St("bare", hs, <<>>, FALSE)
  BY <1>1, Zenon DEF Leads
<1>3. hs \in Words /\ x \in Text
  BY HeadIs, Zenon DEF HeadTyped, Leads
<1>4. r \in Text /\ EndWord(Read(r, St("bare", hs, <<>>, FALSE))) = St("bare", hs \o Posted(raw, kind), <<>>, FALSE)
  BY <1>3, InnerRead
<1> HIDE DEF r
<1>5. x \o r \in Text /\ Read(x \o r, s) = Read(r, Read(x, s))
  BY <1>1, <1>3, <1>4, ReadThen
<1>6. EndWord(Read(x \o r, s)) = St("bare", hs \o Posted(raw, kind), <<>>, FALSE)
  BY <1>2, <1>4, <1>5
<1>7. Shell(x \o r) = hs \o Posted(raw, kind)
  BY <1>5, <1>6, ShellIs
<1>8. ArgsOf(hs \o Posted(raw, kind)) = Posted(raw, kind)
  BY PostedIs, PostedTaken
<1> QED
  BY <1>5, <1>7, <1>8 DEF r

-----------------------------------------------------------------------------
(* The head that the inner shell is given.                                 *)

(* The head of a setup with a second shell: what that shell is given of it.*)
Frees(p, x) ==
    /\ Leads(x)
    /\ \A u \in Text, i \in Text : Carries(u, i) => Carries(Upon(With(CommandHead(Dashes, p), "SP"), u), x \o i)

LEMMA HeadFlat == HeadText \subseteq Flat /\ (\A a, b \in HeadText : a \o b \in HeadText) /\ Dashes \in HeadText
<1> DEFINE X == HeadChars
<1>1. X \subseteq FlatChars
  BY DEF HeadChars, HeadSymbols, FlatChars, Symbols, Chars, Tarball
<1>2. HeadText \subseteq Flat
  <2> HIDE DEF X
  <2>1. Seq(X) \subseteq Seq(FlatChars)
    BY <1>1, SeqSub
  <2> QED
    BY <2>1 DEF HeadText, Flat, X
<1>3. \A a, b \in HeadText : a \o b \in HeadText
  <2>1. Closed(X)
    BY Concats
  <2> QED
    BY <2>1, Zenon DEF Closed, HeadText
<1>4. Dashes \in HeadText
  BY DEF Dashes, HeadText, HeadChars, HeadSymbols
<1> QED
  BY <1>2, <1>3, <1>4

LEMMA RunParts ==
    ASSUME NEW p
    PROVE  RunFirst(p) \in HeadText /\ RunLast \in HeadText
<1> DEFINE a == <<"nix-run", "SP">>
           b == When(Fresh(p), <<"--option", "SP", "tarball-ttl", "SP", "0", "SP">>)
           c == When(p.source = "local", <<".", "SP">>)
<1>1. /\ a \in HeadText /\ <<"--option", "SP", "tarball-ttl", "SP", "0", "SP">> \in HeadText
      /\ <<".", "SP">> \in HeadText /\ RunLast \in HeadText /\ <<>> \in HeadText
  BY DEF HeadText, HeadChars, HeadSymbols, RunLast
<1>2. b \in HeadText /\ c \in HeadText
  BY <1>1, Zenon DEF When
<1>3. RunFirst(p) = (a \o b) \o c
  BY DEF RunFirst
<1> HIDE DEF a, b, c
<1>4. a \o b \in HeadText
  BY <1>1, <1>2, HeadFlat, Zenon
<1> DEFINE d == a \o b
<1>5. d \in HeadText
  BY <1>4
<1> HIDE DEF d
<1>6. d \o c \in HeadText
  BY <1>2, <1>5, HeadFlat, Zenon
<1> QED
  BY <1>1, <1>3, <1>6, Zenon DEF d

(* From the local checkout: one line.                                      *)
LEMMA LocalFrees ==
    ASSUME NEW p, Wrapped(p), p.source = "local"
    PROVE  Frees(p, With(CommandHead(Dashes, p), "SP"))
<1> DEFINE x == RunFirst(p)
           y == RunLast
           h == CommandHead(Dashes, p)
<1>1. h = ((x \o <<>>) \o y) \o Dashes
  <2>1. p.mode # "flakes" /\ p.mode # "nix-build"
    BY DEF Wrapped
  <2>2. Heading((x \o SourceOf(p)) \o y, p)
    BY <2>1, RunHeading
  <2>3. SourceOf(p) = <<>>
    BY DEF SourceOf
  <2> QED
    BY <2>2, <2>3, Zenon DEF Heading
<1>2. x \in HeadText /\ y \in HeadText /\ x \in Text
  BY RunParts, HeadIs DEF HeadTyped
<1> HIDE DEF x, y
<1>3. x \o <<>> = x
  BY <1>2, TextIs, Zenon DEF TextNeutral
<1>4. h \in HeadText
  <2> DEFINE z == x \o y
  <2>1. z \in HeadText
    BY <1>2, HeadFlat, Zenon
  <2> HIDE DEF z
  <2>2. z \o Dashes \in HeadText
    BY <2>1, HeadFlat, Zenon
  <2> QED
    BY <1>1, <1>3, <2>2, Zenon DEF z
<1>5. Ends(h)
  BY HeadEnds
<1> HIDE DEF h
<1>6. With(h, "SP") \in Flat
  <2>1. "SP" \in FlatChars /\ h \in Flat
    BY <1>4, HeadFlat DEF FlatChars, Symbols, Chars
  <2> QED
    BY <2>1, FlatIs, Zenon DEF FlatClosed
<1>7. Leads(With(h, "SP"))
  BY <1>5, EndsLead
<1>8. \A u \in Text, i \in Text : Carries(u, i) => Carries(Upon(With(h, "SP"), u), With(h, "SP") \o i)
  BY <1>6, CarriesOver
<1> QED
  BY <1>7, <1>8, Zenon DEF Frees, h

LEMMA OverOver ==
    ASSUME NEW b \in Text, NEW c \in Text, NEW d \in Text
    PROVE  Upon(b, c) \in Text /\ Upon(b, c) \o d = Upon(b, c \o d)
<1> DEFINE k == With(With(b, "\\"), "NL")
<1>1. k \in Text
  <2>1. "\\" \in Symbols /\ "NL" \in Symbols
    BY DEF Symbols, Chars
  <2> DEFINE m == With(b, "\\")
  <2>2. m \in Text
    BY <2>1, TextIs, Zenon DEF TextClosed, With
  <2> HIDE DEF m
  <2>3. With(m, "NL") \in Text
    BY <2>1, <2>2, TextIs, Zenon DEF TextClosed, With
  <2> QED
    BY <2>3 DEF m
<1>2. Upon(b, c) = k \o c /\ Upon(b, c \o d) = k \o (c \o d)
  BY DEF Upon
<1> HIDE DEF k
<1>3. k \o c \in Text /\ (k \o c) \o d = k \o (c \o d)
  <2>1. TextAssoc /\ TextClosed
    BY TextIs
  <2>2. k \o c \in Text
    BY <1>1, <2>1, Zenon DEF TextClosed
  <2>3. (k \o c) \o d = k \o (c \o d)
    <3>1. Same(k, c, d)
      BY <1>1, <2>1, TextSame
    <3> QED
      BY <3>1, Zenon DEF Same
  <2> QED
    BY <2>2, <2>3
<1> QED
  BY <1>2, <1>3, Zenon

(* From the repository: the source ends a line of its own.                 *)
FirstBody(p) == With(RunFirst(p) \o <<Tarball>>, "SP")
LastBody     == (<<"SP", "SP">> \o RunLast) \o Dashes
LEMMA RemoteHead ==
    ASSUME NEW p, Wrapped(p), p.source # "local"
    PROVE  /\ CommandHead(Dashes, p) = Upon(FirstBody(p), LastBody)
           /\ FirstBody(p) \in Flat /\ LastBody \in HeadText
           /\ Path(FirstBody(p), "bare", "bare") /\ Ends(LastBody)
<1> DEFINE x == RunFirst(p)
           y == RunLast
           tb == <<Tarball>>
           m == <<"SP", "\\">>
           nl == <<"NL">>
           g == <<"SP", "SP">>
           sp == <<"SP">>
           bs == <<"\\">>
           h == CommandHead(Dashes, p)
           h0 == x \o tb
           k == ((h0 \o sp) \o bs) \o nl
<1>1. h = ((x \o (tb \o ((m \o nl) \o g))) \o y) \o Dashes
  <2>1. p.mode # "flakes" /\ p.mode # "nix-build"
    BY DEF Wrapped
  <2>2. Heading((x \o SourceOf(p)) \o y, p)
    BY <2>1, RunHeading
  <2>3. SourceOf(p) = tb \o ((m \o nl) \o g)
    BY ContinueTwo DEF SourceOf, Continue
  <2> QED
    BY <2>2, <2>3, Zenon DEF Heading
<1>2. /\ x \in HeadText /\ y \in HeadText /\ tb \in HeadText /\ g \in HeadText /\ sp \in HeadText
      /\ Dashes \in HeadText
  BY RunParts, HeadFlat DEF HeadText, HeadChars, HeadSymbols
<1>3. /\ x \in Text /\ y \in Text /\ tb \in Text /\ g \in Text /\ sp \in Text /\ Dashes \in Text
      /\ m \in Text /\ nl \in Text /\ bs \in Text
  <2>1. {"SP", "\\", "NL"} \subseteq Symbols
    BY DEF Symbols, Chars
  <2>2. m \in Text /\ nl \in Text /\ bs \in Text
    BY <2>1 DEF Text
  <2> QED
    BY <1>2, <2>2, HeadIs DEF HeadTyped
<1>4. m = sp \o bs
  BY Pair
<1>5. FirstBody(p) = h0 \o sp /\ LastBody = (g \o y) \o Dashes
  BY DEF FirstBody, LastBody, With
<1>6. \A z : Upon(h0 \o sp, z) = k \o z
  BY DEF Upon, With
<1> HIDE DEF x, y, tb, m, nl, g, sp, bs, h
<1>7. h0 \in HeadText /\ h0 \in Text
  <2>1. h0 \in HeadText
    BY <1>2, HeadFlat, Zenon
  <2> QED
    BY <2>1, HeadIs DEF HeadTyped
<1>8. m \o nl \in Text /\ h0 \o m \in Text /\ h0 \o sp \in Text
  <2> HIDE DEF h0
  <2> QED
    BY <1>3, <1>7, TextIs, Zenon DEF TextClosed
<1>9. x \o (tb \o ((m \o nl) \o g)) = h0 \o ((m \o nl) \o g)
  <2> DEFINE z == (m \o nl) \o g
  <2>1. z \in Text /\ x \in Text /\ tb \in Text
    <3> DEFINE z0 == m \o nl
    <3>1. z0 \in Text /\ g \in Text
      BY <1>3, <1>8
    <3> HIDE DEF z0
    <3>2. z0 \o g \in Text
      BY <3>1, TextIs, Zenon DEF TextClosed
    <3> QED
      BY <1>3, <3>2 DEF z0
  <2> HIDE DEF z
  <2>2. x \o (tb \o z) = (x \o tb) \o z
    <3>1. Same(x, tb, z)
      BY <2>1, TextSame
    <3> QED
      BY <3>1, Zenon DEF Same
  <2> QED
    BY <2>2, Zenon DEF z
<1> HIDE DEF h0
<1>10. h0 \o ((m \o nl) \o g) = (h0 \o (m \o nl)) \o g
  <2> DEFINE z == m \o nl
  <2>1. z \in Text /\ h0 \in Text /\ g \in Text
    BY <1>3, <1>7, <1>8
  <2> HIDE DEF z
  <2>2. h0 \o (z \o g) = (h0 \o z) \o g
    <3>1. Same(h0, z, g)
      BY <2>1, TextSame
    <3> QED
      BY <3>1, Zenon DEF Same
  <2> QED
    BY <2>2, Zenon DEF z
<1>11. h0 \o (m \o nl) = k
  <2>0. h0 \in Text /\ m \in Text /\ nl \in Text /\ sp \in Text /\ bs \in Text
    BY <1>3, <1>7
  <2>1. h0 \o (m \o nl) = (h0 \o m) \o nl
    <3>1. Same(h0, m, nl)
      BY <2>0, TextSame
    <3> QED
      BY <3>1, Zenon DEF Same
  <2>2. h0 \o (sp \o bs) = (h0 \o sp) \o bs
    <3>1. Same(h0, sp, bs)
      BY <2>0, TextSame
    <3> QED
      BY <3>1, Zenon DEF Same
  <2> QED
    BY <1>4, <2>1, <2>2, Zenon
<1>12. k \in Text
  <2> DEFINE b == h0 \o sp
             c == b \o bs
  <2>0. b \in Text /\ bs \in Text /\ nl \in Text
    BY <1>3, <1>8
  <2> HIDE DEF b
  <2>1. c \in Text
    BY <2>0, TextIs, Zenon DEF TextClosed
  <2> HIDE DEF c
  <2>2. c \o nl \in Text
    BY <2>0, <2>1, TextIs, Zenon DEF TextClosed
  <2> QED
    BY <2>2, Zenon DEF c, b
<1> HIDE DEF k
<1>13. h = ((k \o g) \o y) \o Dashes
  BY <1>1, <1>9, <1>10, <1>11, Zenon
<1>14. (k \o g) \o y = k \o (g \o y)
  <2>0. k \in Text /\ g \in Text /\ y \in Text
    BY <1>3, <1>12
  <2> QED
    BY <2>0, TextIs, Zenon DEF TextAssoc
<1> DEFINE z == g \o y
<1>15. z \in Text /\ z \in HeadText
  <2>1. z \in HeadText
    BY <1>2, HeadFlat, Zenon
  <2> QED
    BY <2>1, HeadIs DEF HeadTyped
<1> HIDE DEF z
<1>16. (k \o z) \o Dashes = k \o (z \o Dashes)
  <2>0. k \in Text /\ z \in Text /\ Dashes \in Text
    BY <1>3, <1>12, <1>15
  <2> QED
    BY <2>0, TextIs, Zenon DEF TextAssoc
<1>17. h = Upon(FirstBody(p), LastBody)
  BY <1>5, <1>6, <1>13, <1>14, <1>16, Zenon DEF z
<1>18. h0 \o sp \in HeadText /\ z \o Dashes \in HeadText
  BY <1>2, <1>7, <1>15, HeadFlat, Zenon
<1>19. FirstBody(p) \in Flat /\ Path(FirstBody(p), "bare", "bare")
  <2>1. FirstBody(p) \in HeadText
    BY <1>5, <1>18, Zenon
  <2> QED
    BY <2>1, HeadFlat, PlainPath
<1>20. Ends(LastBody) /\ LastBody \in HeadText
  <2>1. HeadPart(z)
    BY <1>15, HeadParts
  <2>2. Ends(z \o Dashes)
    BY <2>1, HeadParts, TailEnds DEF Dashes
  <2> QED
    BY <1>5, <1>18, <2>2, Zenon DEF z
<1> QED
  BY <1>17, <1>19, <1>20 DEF h

LEMMA RemoteFrees ==
    ASSUME NEW p, Wrapped(p), p.source # "local"
    PROVE  Frees(p, FirstBody(p) \o With(LastBody, "SP"))
<1> DEFINE b == FirstBody(p)
           c == LastBody
           d == With(c, "SP")
           h == CommandHead(Dashes, p)
<1>1. h = Upon(b, c) /\ b \in Flat /\ c \in HeadText /\ Path(b, "bare", "bare") /\ Ends(c)
  BY RemoteHead
<1> HIDE DEF b, c, h
<1>2. Leads(b \o d)
  <2>1. Leads(d)
    BY <1>1, EndsLead
  <2> HIDE DEF d
  <2> QED
    BY <1>1, <2>1, PathLeads
<1>3. b \in Text /\ c \in Text /\ c \in Flat /\ d \in Flat /\ d \in Text
  <2>1. "SP" \in FlatChars
    BY DEF FlatChars, Symbols, Chars
  <2>2. b \in Text /\ c \in Flat
    BY <1>1, HeadFlat, FlatIs DEF FlatClosed
  <2>3. d \in Flat
    BY <2>1, <2>2, FlatIs, Zenon DEF FlatClosed
  <2> QED
    BY <2>2, <2>3, FlatIs DEF FlatClosed
<1>4. With(h, "SP") = Upon(b, d)
  <2> DEFINE sp == <<"SP">>
  <2>1. sp \in Text
    <3>1. "SP" \in Symbols
      BY DEF Symbols, Chars
    <3> QED
      BY <3>1, TextIs DEF TextClosed
  <2> HIDE DEF sp
  <2>2. Upon(b, c) \o sp = Upon(b, c \o sp)
    BY <1>3, <2>1, OverOver
  <2> QED
    BY <1>1, <2>2, Zenon DEF With, sp
<1> HIDE DEF d
<1>5. ASSUME NEW u \in Text, NEW i \in Text, Carries(u, i)
      PROVE  Carries(Upon(With(h, "SP"), u), (b \o d) \o i)
  <2>1. Carries(Upon(d, u), d \o i)
    BY <1>3, <1>5, CarriesOver
  <2> DEFINE v == Upon(d, u)
             j == d \o i
  <2> HIDE DEF v, j
  <2>2. Carries(Upon(b, v), b \o j)
    BY <1>1, <2>1, CarriesOver DEF v, j
  <2>3. (b \o d) \o i = b \o j
    BY <1>3, TextIs, Zenon DEF TextAssoc, j
  <2>4. Upon(Upon(b, d), u) = Upon(b, v)
    <3> DEFINE bs == <<"\\">>
               nl == <<"NL">>
    <3>1. bs \in Text /\ nl \in Text
      <4>1. "\\" \in Symbols /\ "NL" \in Symbols
        BY DEF Symbols, Chars
      <4> QED
        BY <4>1, TextIs DEF TextClosed
    <3> HIDE DEF bs, nl
    <3>2. Upon(b, d) \o bs = Upon(b, d \o bs)
      BY <1>3, <3>1, OverOver
    <3> DEFINE e == d \o bs
    <3>3. e \in Text
      BY <1>3, <3>1, TextIs, Zenon DEF TextClosed
    <3> HIDE DEF e
    <3>4. Upon(b, e) \o nl = Upon(b, e \o nl)
      BY <1>3, <3>1, <3>3, OverOver
    <3> DEFINE f == e \o nl
    <3>5. f \in Text
      BY <3>1, <3>3, TextIs, Zenon DEF TextClosed
    <3> HIDE DEF f
    <3>6. Upon(b, f) \o u = Upon(b, f \o u)
      BY <1>3, <3>5, OverOver
    <3>7. Upon(Upon(b, d), u) = ((Upon(b, d) \o bs) \o nl) \o u
      BY Zenon DEF Upon, With, bs, nl
    <3>8. v = f \o u
      BY Zenon DEF v, f, e, Upon, With, bs, nl
    <3> QED
      BY <3>2, <3>4, <3>6, <3>7, <3>8, Zenon DEF e, f
  <2> QED
    BY <1>4, <2>2, <2>3, <2>4, Zenon
<1> QED
  BY <1>2, <1>5, Zenon DEF Frees, b, d, c, h

LEMMA WrappedFrees == ASSUME NEW p, Wrapped(p) PROVE \E x : Frees(p, x)
<1>1. p.source = "local" \/ p.source # "local"
  OBVIOUS
<1> QED
  BY <1>1, LocalFrees, RemoteFrees, Zenon

-----------------------------------------------------------------------------
(* The command of a setup with a second shell gives the runner the posted  *)
(* strings.                                                                *)

(* A command of which every line but the last goes on is rewritten whole.  *)
LEMMA StraightEnd ==
    ASSUME NEW ls, Len(ls) \in Nat \ {0}, Straight(ls)
    PROVE  EndOf(ls, 1) = Len(ls)
<1> DEFINE e == EndOf(ls, 1)
           n == Len(ls)
<1>1. n \in Nat /\ 1 \in 1..n
  OBVIOUS
<1>2. e \in 1..n /\ (e = n \/ ~Continued(ls[e]))
  BY <1>1, EndIs
<1> HIDE DEF e, n
<1>3. ASSUME e # n PROVE Continued(ls[e])
  <2>1. e \in 1..(n - 1)
    BY <1>1, <1>2, <1>3
  <2> QED
    BY <2>1 DEF Straight, n
<1> QED
  BY <1>2, <1>3 DEF e, n

LEMMA StraightWhole ==
    ASSUME NEW u \in Text, Straight(Lines(u)), NEW p, Wrapped(p)
    PROVE  RewriteCmd(CommandOf(u), p) = Rewritten(p, Lines(u))
<1> DEFINE ls == Lines(u)
           w == Whole(u)
           X == Seq(All)
           Y == Text
           n == Len(ls)
<1>1. /\ Inside(u) \in LineLists(Symbols) /\ Outside(u) \in LineLists(Symbols)
      /\ Len(w) = n + 1
  BY PartsAre DEF Parts
<1>2. ls \in Seq(X) /\ ls \in Seq(Y) /\ w = <<Line1>> \o ls /\ Line1 \in X
  <2>1. ls \in LineLists(Symbols) /\ w = <<Line1>> \o ls
    BY CommandLines DEF Whole
  <2>2. ls \in Seq(Y)
    BY <2>1 DEF LineLists, Text
  <2>3. Text \subseteq Seq(All)
    <3>1. Symbols \subseteq All
      BY DEF All
    <3> QED
      BY <3>1, SeqSub DEF Text
  <2>4. ls \in Seq(X)
    <3> HIDE DEF X, ls
    <3> QED
      BY <2>2, <2>3, SeqSub DEF X
  <2> QED
    BY <2>1, <2>2, <2>4, Line1Is
<1>3. Continued(Line1)
  <2> DEFINE b == <<Name, "SP", "--", "SP">>
  <2>1. Line1 = With(b, "\\")
    BY DEF Line1, With
  <2>2. b \in Seq(All) /\ "\\" \in All /\ "\\" # "SP"
    <3>1. {Name, "SP", "--", "\\"} \subseteq All
      BY DEF All, Symbols, Chars, HeadSymbols
    <3> QED
      BY <3>1
  <2> HIDE DEF b
  <2>3. Continued(With(b, "\\"))
    BY <2>2, CutLast
  <2> QED
    BY <2>1, <2>3
<1> HIDE DEF X, Y, ls, w
<1>4. Straight(w) /\ n \in Nat
  BY <1>2, <1>3, StraightFirst DEF ls
<1>5. EndLine(u) = n + 1
  <2>1. Len(w) \in Nat \ {0}
    BY <1>1, <1>4
  <2>2. EndOf(w, 1) = Len(w)
    BY <1>4, <2>1, StraightEnd
  <2> QED
    BY <1>1, <2>2 DEF EndLine, w
<1> HIDE DEF n
<1>6. Inside(u) = ls /\ Outside(u) = <<>>
  <2>1. n + 1 - 1 = n
    BY <1>4
  <2>2. SubSeq(ls, 1, n) = ls /\ SubSeq(ls, n + 1, n) = <<>>
    BY <1>2 DEF n
  <2> QED
    BY <1>5, <2>1, <2>2 DEF Inside, Outside, ls, n
<1>7. /\ RewriteCmd(CommandOf(u), p) = Join(After(u, p))
      /\ After(u, p) = <<Rewritten(p, ls)>> \o <<>>
      /\ Rewritten(p, ls) \in Text
  <2>1. Lone(u, p) /\ Parts(u, p)
    BY LoneIs, PartsAre
  <2>2. RewriteCmd(CommandOf(u), p) = Join(After(u, p))
    BY <2>1, Zenon DEF Lone
  <2>3. Rewritten(p, Inside(u)) \in Text
    BY <2>1, Zenon DEF Parts
  <2> QED
    BY <1>6, <2>2, <2>3, Zenon DEF After
<1> DEFINE r == Rewritten(p, ls)
           one == <<r>>
<1>8. one \o <<>> = one
  <2>1. RowsNeutral(Symbols) /\ RowsClosed(Symbols)
    BY RowsJoin
  <2> HIDE DEF r
  <2>2. one \in LineLists(Symbols)
    BY <1>7, <2>1, Zenon DEF RowsClosed, Text, r
  <2> HIDE DEF one
  <2> QED
    BY <2>1, <2>2, Zenon DEF RowsNeutral
<1> HIDE DEF r
<1>9. Join(one) = r
  BY <1>7, JoinOne DEF r
<1> QED
  BY <1>7, <1>8, <1>9 DEF r, ls

(* The outer shell makes one word of what is in its double quotes.         *)
LEMMA Opening ==
    <<"nix-shell", "SP", "--run", "SP", "DQ">> = <<"nix-shell", "SP">> \o (<<"--run", "SP">> \o <<"DQ">>)
  OBVIOUS
LEMMA Three == ASSUME NEW a, NEW b, NEW c PROVE <<a, b, c>> = Append(Append(Append(<<>>, a), b), c)
  OBVIOUS
ShellWords(i) == <<<<"nix-shell">>, <<"--run">>, i>>
LEMMA OuterRead ==
    ASSUME NEW e \in Text, NEW i \in Text,
           \A ws \in Words, w \in Text : Read(e, St("double", ws, w, TRUE)) = St("double", ws, w \o i, TRUE)
    PROVE  Shell(<<"nix-shell", "SP", "--run", "SP", "DQ">> \o e \o <<"DQ">>) = ShellWords(i)
<1> DEFINE n == <<"nix-shell">>
           r == <<"--run">>
           a == <<"nix-shell", "SP">>
           b == <<"--run", "SP">>
           dq == <<"DQ">>
           w1 == Append(<<>>, n)
           w2 == Append(w1, r)
           s0 == St("bare", <<>>, <<>>, FALSE)
           s1 == St("bare", w1, <<>>, FALSE)
           s2 == St("bare", w2, <<>>, FALSE)
           s3 == St("double", w2, <<>>, TRUE)
           s4 == St("double", w2, i, TRUE)
           s5 == St("bare", w2, i, TRUE)
           q == a \o (b \o dq)
<1>0. /\ "nix-shell" \in Symbols \ Closing /\ "--run" \in Symbols \ Closing /\ "DQ" \in Symbols
      /\ <<>> \in Words /\ <<>> \in Text
  BY WordsAre, TextIs DEF Symbols, Chars, OtherSymbols, Closing, WordsAppend, TextClosed
<1>1. a \in Text /\ w1 \in Words /\ Read(a, s0) = s1
  BY <1>0, FlagRead
<1> HIDE DEF w1
<1>2. b \in Text /\ w2 \in Words /\ Read(b, s1) = s2
  BY <1>0, <1>1, FlagRead
<1> HIDE DEF w2
<1>3. ReadChar(s2, "DQ") = s3 /\ ReadChar(s4, "DQ") = s5
  <2>1. ReadChar(s2, "DQ") = s3
    BY <1>0, <1>2, BareReads
  <2>2. ReadChar(s4, "DQ") = s5
    BY <1>0, <1>2, QuoteReads
  <2> QED
    BY <2>1, <2>2
<1>4. s0 \in States /\ s1 \in States /\ s2 \in States /\ s3 \in States /\ s4 \in States
  BY <1>0, <1>1, <1>2, EmptyStates, StIs DEF Modes
<1>5. Read(e, s3) = s4
  <2>1. Read(e, s3) = St("double", w2, <<>> \o i, TRUE)
    BY <1>0, <1>2
  <2>2. <<>> \o i = i
    BY TextIs, Zenon DEF TextNeutral
  <2> QED
    BY <2>1, <2>2
<1>6. EndWord(s5) = St("bare", Append(w2, i), <<>>, FALSE)
  BY DEF EndWord, St
<1>7. Append(w2, i) = ShellWords(i)
  <2>1. ShellWords(i) = <<n, r, i>>
    BY DEF ShellWords
  <2> HIDE DEF n, r
  <2>2. <<n, r, i>> = Append(Append(Append(<<>>, n), r), i)
    BY Three
  <2> QED
    BY <2>1, <2>2, Zenon DEF w1, w2
<1>8. <<"nix-shell", "SP", "--run", "SP", "DQ">> = q
  BY Opening
<1> HIDE DEF s0, s1, s2, s3, s4, s5
<1>10. dq \in Text /\ Read(dq, s2) = s3 /\ Read(dq, s4) = s5
  BY <1>0, <1>3, <1>4, ReadChars
<1> HIDE DEF a, b, dq
<1> DEFINE c == b \o dq
<1>11. c \in Text /\ Read(c, s1) = s3
  BY <1>2, <1>4, <1>10, ReadThen
<1> HIDE DEF c
<1>12. a \o c \in Text /\ Read(a \o c, s0) = s3
  BY <1>1, <1>4, <1>11, ReadThen
<1>13. q = a \o c
  BY DEF c
<1> HIDE DEF q
<1>14. q \o e \in Text /\ Read(q \o e, s0) = s4
  BY <1>4, <1>5, <1>12, <1>13, ReadThen
<1> DEFINE d == q \o e
<1> HIDE DEF d
<1>15. d \o dq \in Text /\ Read(d \o dq, s0) = s5
  BY <1>4, <1>10, <1>14, ReadThen DEF d
<1>16. EndWord(Read(d \o dq, St("bare", <<>>, <<>>, FALSE))) = St("bare", ShellWords(i), <<>>, FALSE)
  BY <1>6, <1>7, <1>15, Zenon DEF s0
<1>17. Shell(d \o dq) = ShellWords(i)
  BY <1>15, <1>16, ShellIs
<1> QED
  BY <1>8, <1>17, Zenon DEF d, dq

LEMMA OuterArgv ==
    ASSUME NEW t, NEW i, Shell(t) = ShellWords(i)
    PROVE  Argv(t) = ArgsOf(Shell(i))
<1>1. Shell(t) # <<>> /\ Shell(t)[1] = <<"nix-shell">> /\ Shell(t)[Len(Shell(t))] = i
  BY DEF ShellWords
<1> QED
  BY <1>1, Zenon DEF Argv, ArgsOf

(* With a second shell, that shell gives the runner what is posted.        *)
LEMMA WrappedSame ==
    ASSUME NEW raw, NEW kind, Valued(raw, kind), FlatValues(raw, kind), NEW p, Wrapped(p)
    PROVE  Argv(RewriteCmd(Copied(raw, kind), p)) = Posted(raw, kind)
<1> DEFINE a == Arg(raw, kind)
           u == Under(a)
           i == Inner5(a)
           hd == CommandHead(Dashes, p)
           h == CommandHead(Head1, p)
           t == Upon(With(hd, "SP"), u)
           ls == Lines(u)
<1>1. u \in Text /\ Copied(raw, kind) = CommandOf(u)
  <2>1. UnderFacts(raw, kind)
    BY UnderIs
  <2> QED
    BY <2>1, Zenon DEF UnderFacts
<1>2. Carries(u, i)
  BY FlatArgsAre, UnderCarried
<1>3. PICK x : Frees(p, x)
  BY WrappedFrees
<1>4. i \in Text /\ Straight(ls)
  BY <1>2 DEF Carries
<1>5. ArgsOf(Shell(x \o i)) = Posted(raw, kind)
  <2>1. Leads(x)
    BY <1>3 DEF Frees
  <2> QED
    BY <2>1, InnerShell
<1> HIDE DEF u, i
<1>6. Carries(t, x \o i)
  BY <1>1, <1>2, <1>3, <1>4, Zenon DEF Frees
<1>7. RewriteCmd(Copied(raw, kind), p) = Rewritten(p, ls)
  BY <1>1, <1>4, StraightWhole
<1>8. Span(p, ls) = Lines(t)
  <2> DEFINE sp == <<"SP">>
             bs == <<"\\">>
  <2>1. h = hd \o More /\ hd \in Text
    BY HeadEnds DEF Head1
  <2>2. More = sp \o bs
    BY Pair DEF More
  <2>3. sp \in Text /\ bs \in Text
    <3>1. "SP" \in Symbols /\ "\\" \in Symbols
      BY DEF Symbols, Chars
    <3> QED
      BY <3>1, TextIs DEF TextClosed
  <2> HIDE DEF sp, bs, hd, h
  <2>4. hd \o (sp \o bs) = (hd \o sp) \o bs
    <3>1. Same(hd, sp, bs)
      BY <2>1, <2>3, TextSame
    <3> QED
      BY <3>1, Zenon DEF Same
  <2>5. h = With(With(hd, "SP"), "\\")
    BY <2>1, <2>2, <2>4, Zenon DEF With, sp, bs
  <2>6. t = With(h, "NL") \o u
    BY <2>5, Zenon DEF Upon
  <2>7. Lines(With(h, "NL") \o u) = Lines(h) \o ls
    <3>1. "NL" \in Symbols
      BY DEF Symbols, Chars
    <3>2. LinesJoin(Symbols)
      BY <3>1, LinesThen
    <3>3. More \in Text
      BY DashesIs
    <3>4. h \in Text
      BY <2>1, <3>3, TextIs, Zenon DEF TextClosed
    <3> QED
      BY <1>1, <3>2, <3>4, Zenon DEF LinesJoin, Text
  <2> QED
    BY <2>6, <2>7, Zenon DEF Span, h
<1> DEFINE e == DqEscape(Lines(t))
<1>9. /\ e \in Text /\ x \o i \in Text
      /\ \A ws \in Words, w \in Text : Read(e, St("double", ws, w, TRUE)) = St("double", ws, w \o (x \o i), TRUE)
  BY <1>6, Zenon DEF Carries, Passes
<1>10. Rewritten(p, ls) = <<"nix-shell", "SP", "--run", "SP", "DQ">> \o e \o <<"DQ">>
  BY <1>8 DEF Rewritten
<1> HIDE DEF e
<1> DEFINE j == x \o i
<1>11. Shell(<<"nix-shell", "SP", "--run", "SP", "DQ">> \o e \o <<"DQ">>) = ShellWords(j)
  <2>1. /\ e \in Text /\ j \in Text
        /\ \A ws \in Words, w \in Text : Read(e, St("double", ws, w, TRUE)) = St("double", ws, w \o j, TRUE)
    BY <1>9
  <2> HIDE DEF j
  <2> QED
    BY <2>1, OuterRead, Zenon
<1> HIDE DEF j
<1>12. Argv(RewriteCmd(Copied(raw, kind), p)) = ArgsOf(Shell(j))
  BY <1>7, <1>10, <1>11, OuterArgv
<1> QED
  BY <1>5, <1>12 DEF j

-----------------------------------------------------------------------------
(* Blanks around a text, and a text between two characters.                *)

LEMMA Greatest ==
    ASSUME NEW n \in Nat, NEW T, T \subseteq 1..n, T # {}
    PROVE  Max(T) \in T /\ \A k \in T : k <= Max(T)
<1> DEFINE U == {m \in 0..n : n - m \in T}
<1>0. \A k \in T : n - k \in 0..n /\ n - (n - k) = k
  OBVIOUS
<1>1. U \subseteq Nat /\ U # {}
  <2>1. PICK k \in T : TRUE
    OBVIOUS
  <2>2. n - k \in U
    BY <1>0, <2>1
  <2>3. U \subseteq Nat
    OBVIOUS
  <2> HIDE DEF U
  <2> QED
    BY <2>2, <2>3
<1>2. PICK m \in U : \A k \in U : m <= k
  BY <1>1, Least
<1>3. PICK g \in T : m = n - g
  <2>1. m \in 0..n /\ n - m \in T
    OBVIOUS
  <2>2. m = n - (n - m)
    BY <2>1
  <2> QED
    BY <2>1, <2>2
<1>4. \A k \in T : g >= k
  <2>1. \A k \in T : n - k \in U
    BY <1>0
  <2> HIDE DEF U
  <2>2. \A k \in T : m <= n - k
    BY <1>2, <2>1
  <2> QED
    BY <1>3, <2>2
<1>5. \E x \in T : \A y \in T : x >= y
  BY <1>4
<1>6. Max(T) \in T /\ \A y \in T : Max(T) >= y
  BY <1>5 DEF Max
<1> QED
  BY <1>6
LEMMA Smallest ==
    ASSUME NEW T, T \subseteq Nat, T # {}
    PROVE  Min(T) \in T /\ \A k \in T : Min(T) <= k
<1>1. \E x \in T : \A k \in T : x <= k
  BY Least
<1> QED
  BY <1>1 DEF Min

(* A text without blanks at its ends.                                      *)
Solid(t) == t = <<>> \/ (t # <<>> /\ t[1] \notin Blanks /\ t[Len(t)] \notin Blanks)
LEMMA TrimIs ==
    ASSUME NEW D, NEW t \in Seq(D)
    PROVE  Trim(t) \in Seq(D) /\ Solid(Trim(t)) /\ (Solid(t) => Trim(t) = t)
<1> DEFINE n == Len(t)
           S == {i \in DOMAIN t : t[i] \notin Blanks}
           lo == Min(S)
           hi == Max(S)
           s == SubSeq(t, lo, hi)
<1>1. n \in Nat /\ DOMAIN t = 1..n /\ S \subseteq 1..n
  OBVIOUS
<1>2. Trim(t) = IF S = {} THEN <<>> ELSE s
  BY DEF Trim
<1>3. \A i \in S : t[i] \notin Blanks
  OBVIOUS
<1>0. \A i \in 1..n : t[i] \notin Blanks => i \in S
  BY <1>1
<1> HIDE DEF n, S
<1>4. CASE S = {}
  <2>1. Trim(t) = <<>>
    BY <1>2, <1>4
  <2>2. ASSUME Solid(t) PROVE t = <<>>
    <3>1. CASE t # <<>>
      <4>1. n # 0
        BY <3>1 DEF n
      <4>2. 1 \in 1..n /\ t[1] \notin Blanks
        BY <1>1, <2>2, <3>1, <4>1 DEF Solid
      <4> QED
        BY <1>0, <1>4, <4>2
    <3> QED
      BY <3>1
  <2> QED
    BY <2>1, <2>2 DEF Solid
<1>5. CASE S # {}
  <2>1. lo \in S /\ (\A k \in S : lo <= k) /\ hi \in S /\ (\A k \in S : k <= hi)
    <3>1. S \subseteq Nat
      BY <1>1
    <3> QED
      BY <1>1, <1>5, <3>1, Smallest, Greatest
  <2>2. Trim(t) = s
    BY <1>2, <1>5
  <2> HIDE DEF lo, hi
  <2>3. lo \in Int /\ hi \in Int /\ 1 <= lo /\ lo <= hi /\ lo <= hi + 1 /\ hi <= Len(t)
    BY <1>1, <2>1 DEF n
  <2>4. s \in Seq(D) /\ Len(s) = hi - lo + 1 /\ \A i \in 1..(hi - lo + 1) : s[i] = t[lo + i - 1]
    BY <2>3, PieceIs
  <2> HIDE DEF s
  <2>5. s # <<>> /\ s[1] = t[lo] /\ s[Len(s)] = t[hi]
    <3>1. Len(s) # 0 /\ 1 \in 1..(hi - lo + 1) /\ hi - lo + 1 \in 1..(hi - lo + 1)
      BY <2>3, <2>4
    <3>2. lo + 1 - 1 = lo /\ lo + (hi - lo + 1) - 1 = hi
      BY <2>3
    <3>3. s[1] = t[lo + 1 - 1] /\ s[hi - lo + 1] = t[lo + (hi - lo + 1) - 1]
      BY <2>4, <3>1
    <3>4. s # <<>>
      BY <3>1
    <3> QED
      BY <2>4, <3>2, <3>3, <3>4
  <2>6. Solid(s)
    BY <1>3, <2>1, <2>5 DEF Solid
  <2>7. ASSUME Solid(t) PROVE s = t
    <3>0. t # <<>> /\ n # 0
      <4>0. PICK i \in S : TRUE
        BY <1>5
      <4>1. n # 0
        BY <1>1, <4>0
      <4> QED
        BY <4>1 DEF n
    <3>1. 1 \in S /\ n \in S
      <4>1. t[1] \notin Blanks /\ t[n] \notin Blanks
        BY <2>7, <3>0 DEF Solid, n
      <4> QED
        BY <1>0, <1>1, <3>0, <4>1
    <3>2. lo = 1 /\ hi = n
      BY <1>1, <2>1, <3>1
    <3>3. SubSeq(t, 1, n) = t
      BY DEF n
    <3> QED
      BY <3>2, <3>3 DEF s
  <2> QED
    BY <2>2, <2>4, <2>6, <2>7
<1> QED
  BY <1>4, <1>5

LEMMA TrimTwice ==
    ASSUME NEW D, NEW t \in Seq(D)
    PROVE  Trim(Trim(t)) = Trim(t) /\ Trim(t) \in Seq(D) /\ Solid(Trim(t))
<1>1. Trim(t) \in Seq(D) /\ Solid(Trim(t))
  BY TrimIs
<1> DEFINE s == Trim(t)
<1> HIDE DEF s
<1>2. s \in Seq(D) /\ Solid(s) => Trim(s) = s
  BY TrimIs
<1> QED
  BY <1>1, <1>2 DEF s

(* A text between two characters.                                          *)
BetweenFacts(D, c, b, d, s) ==
    /\ s \in Seq(D) /\ Len(b) \in Nat /\ Len(s) = Len(b) + 2 /\ Len(s) > 1
    /\ s # <<>> /\ s[1] = c /\ s[Len(s)] = d
    /\ SubSeq(s, 2, Len(s) - 1) = b
LEMMA BetweenIs ==
    ASSUME NEW D, NEW c \in D, NEW b \in Seq(D), NEW d \in D, NEW s, s = <<c>> \o b \o <<d>>
    PROVE  BetweenFacts(D, c, b, d, s)
<1> DEFINE n == Len(b)
           one == <<c>>
           o2 == <<d>>
           t == one \o b
<1>1. one \in Seq(D) /\ Len(one) = 1 /\ one[1] = c
  BY OneIs
<1>2. o2 \in Seq(D) /\ Len(o2) = 1 /\ o2[1] = d
  BY OneIs
<1>3. s = t \o o2
  OBVIOUS
<1> HIDE DEF one, o2
<1>4. ConcatFacts(D, one, b)
  BY <1>1, ConcatsAre, Zenon DEF Concatenates
<1>5. t \in Seq(D) /\ n \in Nat /\ Len(t) = 1 + n /\ t[1] = c /\ \A i \in 1..n : t[1 + i] = b[i]
  BY <1>1, <1>4 DEF ConcatFacts
<1> HIDE DEF t
<1>6. ConcatFacts(D, t, o2)
  BY <1>2, <1>5, ConcatsAre, Zenon DEF Concatenates
<1>7. s \in Seq(D) /\ Len(s) = n + 2 /\ (\A i \in 1..(n + 1) : s[i] = t[i]) /\ s[n + 2] = d
  <2>1. /\ s \in Seq(D) /\ Len(s) = Len(t) + Len(o2)
        /\ \A i \in 1..Len(t) : s[i] = t[i]
        /\ \A i \in 1..Len(o2) : s[Len(t) + i] = o2[i]
    BY <1>3, <1>6, Zenon DEF ConcatFacts
  <2>2. s[Len(t) + 1] = d
    BY <1>2, <2>1
  <2>3. Len(t) + 1 = n + 2 /\ Len(t) = n + 1
    BY <1>5
  <2> QED
    BY <1>2, <2>1, <2>2, <2>3
<1> HIDE DEF n
<1>8. s[1] = c /\ s # <<>>
  <2>1. Len(s) # 0
    BY <1>5, <1>7
  <2>2. s # <<>>
    BY <2>1
  <2> QED
    BY <1>5, <1>7, <2>2
<1>9. SubSeq(s, 2, n + 1) = b
  <2> DEFINE u == SubSeq(s, 2, n + 1)
             hi == n + 1
  <2>1. hi \in Int /\ 2 <= hi + 1 /\ hi <= Len(s) /\ hi - 2 + 1 = n
    BY <1>5, <1>7
  <2> HIDE DEF hi
  <2>2. /\ SubSeq(s, 2, hi) \in Seq(D) /\ Len(SubSeq(s, 2, hi)) = hi - 2 + 1
        /\ \A i \in 1..(hi - 2 + 1) : SubSeq(s, 2, hi)[i] = s[2 + i - 1]
    BY <1>7, <2>1, PieceIs
  <2>3. u \in Seq(D) /\ Len(u) = n /\ \A i \in 1..n : u[i] = s[2 + i - 1]
    BY <2>1, <2>2 DEF hi
  <2> HIDE DEF u
  <2>4. ASSUME NEW i \in 1..n PROVE u[i] = b[i]
    <3>1. 2 + i - 1 = 1 + i /\ 1 + i \in 1..(n + 1)
      BY <1>5
    <3> QED
      BY <1>5, <1>7, <2>3, <3>1
  <2>5. u = b
    BY <2>3, <2>4, SeqEqual DEF n
  <2> QED
    BY <2>5 DEF u
<1>10. Len(s) - 1 = n + 1 /\ Len(s) > 1
  BY <1>5, <1>7
<1> QED
  BY <1>5, <1>7, <1>8, <1>9, <1>10 DEF BetweenFacts, n

LEMMA Within ==
    ASSUME NEW D, NEW E, NEW t \in Seq(D), ToSet(t) \subseteq E
    PROVE  t \in Seq(E)
<1>1. Len(t) \in Nat /\ t \in [1..Len(t) -> D]
  OBVIOUS
<1>2. \A i \in 1..Len(t) : t[i] \in E
  <2>1. \A i \in 1..Len(t) : t[i] \in ToSet(t)
    BY <1>1 DEF ToSet
  <2> QED
    BY <2>1
<1>3. t \in [1..Len(t) -> E]
  BY <1>1, <1>2
<1> QED
  BY <1>1, <1>3

-----------------------------------------------------------------------------
(* A JSON string is read as the text it spells.                            *)

(* A JSON string, read character by character.                             *)
Bodies == [text : Text, esc : BOOLEAN, ok : BOOLEAN]
Got(u, e) == [text |-> u, esc |-> e, ok |-> TRUE]
LEMMA TextAppend == \A u \in Text, c \in Symbols : Append(u, c) = u \o <<c>> /\ Append(u, c) \in Text
<1> SUFFICES ASSUME NEW u \in Text, NEW c \in Symbols PROVE Append(u, c) = u \o <<c>> /\ Append(u, c) \in Text
  OBVIOUS
<1> DEFINE X == Symbols
<1>1. u \in Seq(X) /\ c \in X
  BY DEF Text
<1> HIDE DEF X
<1>2. Append(u, c) = u \o <<c>> /\ Append(u, c) \in Seq(X)
  BY <1>1
<1> QED
  BY <1>2 DEF X, Text
LEMMA UnquoteTyped == ASSUME NEW s \in Bodies, NEW c \in Symbols PROVE Unquote(s, c) \in Bodies
<1>1. "NL" \in Symbols
  BY DEF Symbols, Chars
<1>2. s.text \in Text
  BY DEF Bodies
<1>3. Append(s.text, "NL") \in Text /\ Append(s.text, c) \in Text
  BY <1>1, <1>2, TextAppend
<1>4. /\ \A t \in Text : [s EXCEPT !.esc = FALSE, !.text = t] \in Bodies /\ [s EXCEPT !.text = t] \in Bodies
      /\ [s EXCEPT !.esc = TRUE] \in Bodies /\ [s EXCEPT !.ok = FALSE] \in Bodies
  BY DEF Bodies
<1>5. /\ [s EXCEPT !.esc = FALSE, !.text = Append(@, "NL")] = [s EXCEPT !.esc = FALSE, !.text = Append(s.text, "NL")]
      /\ [s EXCEPT !.esc = FALSE, !.text = Append(@, c)] = [s EXCEPT !.esc = FALSE, !.text = Append(s.text, c)]
      /\ [s EXCEPT !.text = Append(@, c)] = [s EXCEPT !.text = Append(s.text, c)]
  BY DEF Bodies
<1>6. /\ [s EXCEPT !.esc = FALSE, !.text = Append(@, "NL")] \in Bodies
      /\ [s EXCEPT !.esc = FALSE, !.text = Append(@, c)] \in Bodies
      /\ [s EXCEPT !.text = Append(@, c)] \in Bodies
  BY <1>3, <1>4, <1>5
<1> QED
  BY <1>4, <1>6 DEF Unquote

Unquoter == [x \in Bodies \X Symbols |-> Unquote(x[1], x[2])]
UnquoterSteps == \A s \in Bodies, c \in Symbols : Unquoter[<<s, c>>] = Unquote(s, c) /\ Unquote(s, c) \in Bodies
LEMMA UnquoterIs == UnquoterSteps /\ Stepper(Unquoter, Bodies, Symbols)
<1>1. ASSUME NEW s \in Bodies, NEW c \in Symbols PROVE Unquoter[<<s, c>>] = Unquote(s, c)
  <2>1. <<s, c>> \in Bodies \X Symbols
    OBVIOUS
  <2> QED
    BY <2>1 DEF Unquoter
<1>2. UnquoterSteps
  BY <1>1, UnquoteTyped DEF UnquoterSteps
<1> QED
  BY <1>2 DEF UnquoterSteps, Stepper

LEMMA AlongUnquote ==
    ASSUME NEW t \in Text, NEW s \in Bodies
    PROVE  Along(t, s, Unquote) = Fold(Unquoter, t, s)
<1> DEFINE n == Len(t)
           Def(h) == h = [i \in 0..n |-> IF i = 0 THEN s ELSE Unquote(h[i - 1], t[i])]
           after == CHOOSE h : Def(h)
<1>1. n \in Nat /\ \A i \in 1..n : t[i] \in Symbols
  BY DEF Text
<1>2. PICK f : RunOf(Unquoter, t, s, f) /\ \A i \in 0..n : f[i] \in Bodies
  BY UnquoterIs, RunExists DEF Text
<1>3. f[0] = s /\ \A i \in 1..n : f[i] = Unquoter[<<f[i - 1], t[i]>>]
  BY <1>2, RunStarts
<1>4. \A i \in 1..n : f[i] = Unquote(f[i - 1], t[i])
  <2>1. \A i \in 1..n : f[i - 1] \in Bodies
    <3>1. \A i \in 1..n : i - 1 \in 0..n
      BY <1>1
    <3> QED
      BY <1>2, <3>1
  <2> QED
    BY <1>1, <1>3, <2>1, UnquoterIs DEF UnquoterSteps
<1>5. Def([i \in 0..n |-> f[i]])
  <2> DEFINE F == [i \in 0..n |-> f[i]]
  <2>1. ASSUME NEW i \in 0..n PROVE F[i] = IF i = 0 THEN s ELSE Unquote(F[i - 1], t[i])
    <3>1. CASE i = 0
      BY <1>3, <3>1
    <3>2. CASE i # 0
      <4>1. i \in 1..n /\ i - 1 \in 0..n
        BY <1>1, <3>2
      <4> QED
        BY <1>4, <3>2, <4>1
    <3> QED
      BY <3>1, <3>2
  <2>2. F = [i \in 0..n |-> F[i]]
    OBVIOUS
  <2> HIDE DEF F
  <2>3. Def(F)
    BY <2>1, <2>2
  <2> QED
    BY <2>3 DEF F
<1>6. Def(after)
  BY <1>5
<1>7. Along(t, s, Unquote) = after[n]
  BY DEF Along
<1> HIDE DEF after
<1>8. after[0] = s /\ \A i \in 1..n : after[i] = Unquote(after[i - 1], t[i])
  <2>1. \A i \in 0..n : after[i] = IF i = 0 THEN s ELSE Unquote(after[i - 1], t[i])
    BY <1>6
  <2>2. 0 \in 0..n /\ \A i \in 1..n : i \in 0..n /\ i # 0
    BY <1>1
  <2> QED
    BY <2>1, <2>2
<1>9. \A i \in 0..n : after[i] = f[i]
  <2>1. Together(after, f, 0, n)
    BY <1>4, <1>8 DEF Together
  <2>2. after[0] = f[0]
    BY <1>3, <1>8
  <2> HIDE DEF n
  <2> QED
    BY <1>1, <2>1, <2>2, InStep
<1>10. Fold(Unquoter, t, s) = f[n]
  BY <1>2, FoldIs
<1>11. n \in 0..n
  BY <1>1
<1> QED
  BY <1>7, <1>9, <1>10, <1>11

LEMMA UnquoteReads ==
    ASSUME NEW u \in Text
    PROVE  /\ Unquote(Got(u, FALSE), "\\") = Got(u, TRUE)
           /\ Unquote(Got(u, TRUE), "n") = Got(u \o <<"NL">>, FALSE)
           /\ \A c \in {"DQ", "\\"} : Unquote(Got(u, TRUE), c) = Got(u \o <<c>>, FALSE)
           /\ \A c \in Symbols \ {"DQ", "NL", "\\"} : Unquote(Got(u, FALSE), c) = Got(u \o <<c>>, FALSE)
<1>0. "NL" \in Symbols /\ "DQ" \in Symbols /\ "\\" \in Symbols
  BY DEF Symbols, Chars
<1>1. \A c \in Symbols : Append(u, c) = u \o <<c>>
  BY TextAppend
<1>2. Unquote(Got(u, FALSE), "\\") = Got(u, TRUE)
  BY DEF Unquote, Got
<1>3. Unquote(Got(u, TRUE), "n") = Got(Append(u, "NL"), FALSE)
  BY DEF Unquote, Got
<1>4. \A c \in {"DQ", "\\"} : Unquote(Got(u, TRUE), c) = Got(Append(u, c), FALSE)
  BY DEF Unquote, Got
<1>5. \A c \in Symbols \ {"DQ", "NL", "\\"} : Unquote(Got(u, FALSE), c) = Got(Append(u, c), FALSE)
  BY DEF Unquote, Got
<1> QED
  BY <1>0, <1>1, <1>2, <1>3, <1>4, <1>5

(* What is spelled as JSON is read back.                                   *)
LEMMA JsonSpelled ==
    ASSUME NEW t \in Text
    PROVE  /\ Spell(t, EscapeJson) \in Flat
           /\ Along(Spell(t, EscapeJson), [text |-> <<>>, esc |-> FALSE, ok |-> TRUE], Unquote) = Got(t, FALSE)
<1> DEFINE e == [c \in Symbols |-> EscapeJson(c)]
           out == [u \in Text |-> Got(u, FALSE)]
           D == FlatChars
<1>0. "n" \in Symbols /\ "NL" \in Symbols /\ "\\" \in Symbols /\ "n" \in D /\ "\\" \in D /\ "DQ" \in D /\ <<>> \in Text
  BY TextIs DEF Symbols, Chars, Plain, FlatChars, TextClosed
<1>1. Spell(t, EscapeJson) = SpellBy(e, t)
  BY SpellIs
<1>2. ASSUME NEW c \in Symbols PROVE e[c] \in Flat
  <2>1. \A a, b \in D : <<a, b>> \in Flat
    BY FlatIs, Pair DEF FlatClosed
  <2>2. c # "NL" => <<c>> \in Flat
    BY FlatIs DEF FlatClosed, FlatChars
  <2>3. EscapeJson(c) \in Flat
    BY <1>0, <2>1, <2>2 DEF EscapeJson
  <2> QED
    BY <2>3
<1>3. ASSUME NEW u \in Text, NEW c \in Symbols
      PROVE  Fold(Unquoter, e[c], out[u]) = out[u \o <<c>>] /\ out[u] \in Bodies
  <2>1. out[u] = Got(u, FALSE) /\ out[u] \in Bodies /\ Got(u, TRUE) \in Bodies
    BY DEF Got, Bodies
  <2>2. u \o <<c>> \in Text
    BY TextIs DEF TextClosed
  <2>3. out[u \o <<c>>] = Got(u \o <<c>>, FALSE)
    BY <2>2
  <2>4. e[c] = EscapeJson(c)
    OBVIOUS
  <2>5. \A s \in Bodies, d \in Symbols : Unquoter[<<s, d>>] = Unquote(s, d) /\ Unquote(s, d) \in Bodies
    BY UnquoterIs, Zenon DEF UnquoterSteps
  <2> HIDE DEF out, e
  <2>6. CASE c \notin {"NL", "DQ", "\\"}
    <3>1. e[c] = <<c>>
      BY <2>4, <2>6 DEF EscapeJson
    <3>2. Fold(Unquoter, <<c>>, out[u]) = Unquoter[<<out[u], c>>]
      BY FoldOne
    <3>3. Unquote(Got(u, FALSE), c) = Got(u \o <<c>>, FALSE)
      BY <2>6, UnquoteReads
    <3> QED
      BY <2>1, <2>3, <2>5, <3>1, <3>2, <3>3
  <2>7. ASSUME NEW d \in Symbols, e[c] = <<"\\", d>>, Unquote(Got(u, TRUE), d) = Got(u \o <<c>>, FALSE)
        PROVE  Fold(Unquoter, e[c], out[u]) = out[u \o <<c>>]
    <3> DEFINE bs == <<"\\">>
               s1 == Got(u, TRUE)
    <3>1. e[c] = bs \o <<d>> /\ bs \in Text
      BY <1>0, <2>7, Pair, TextIs DEF TextClosed
    <3>2. Fold(Unquoter, bs, out[u]) = Unquoter[<<out[u], "\\">>]
      BY FoldOne
    <3>3. Unquoter[<<out[u], "\\">>] = s1
      BY <1>0, <2>1, <2>5, UnquoteReads
    <3>4. Fold(Unquoter, bs \o <<d>>, out[u]) = Unquoter[<<Fold(Unquoter, bs, out[u]), d>>]
      <4> DEFINE s0 == out[u]
      <4>1. Stepper(Unquoter, Bodies, Symbols) /\ bs \in Seq(Symbols)
        BY <3>1, UnquoterIs DEF Text
      <4>2. s0 \in Bodies /\ d \in Symbols
        BY <2>1, <2>7
      <4> HIDE DEF bs, s0
      <4>3. Fold(Unquoter, bs \o <<d>>, s0) = Unquoter[<<Fold(Unquoter, bs, s0), d>>]
        BY <4>1, <4>2, FoldSnoc
      <4> QED
        BY <4>3 DEF s0
    <3>5. Unquoter[<<s1, d>>] = Got(u \o <<c>>, FALSE)
      BY <2>1, <2>5, <2>7
    <3> QED
      BY <2>3, <3>1, <3>2, <3>3, <3>4, <3>5
  <2>8. CASE c = "NL"
    <3>1. e[c] = <<"\\", "n">>
      BY <2>4, <2>8 DEF EscapeJson
    <3>2. Unquote(Got(u, TRUE), "n") = Got(u \o <<c>>, FALSE)
      BY <2>8, UnquoteReads
    <3> QED
      BY <1>0, <2>1, <2>7, <3>1, <3>2
  <2>9. CASE c \in {"DQ", "\\"}
    <3>1. e[c] = <<"\\", c>>
      BY <2>4, <2>9 DEF EscapeJson
    <3>2. Unquote(Got(u, TRUE), c) = Got(u \o <<c>>, FALSE)
      BY <2>9, UnquoteReads
    <3> QED
      BY <2>1, <2>7, <3>1, <3>2
  <2> QED
    BY <2>1, <2>6, <2>8, <2>9
<1>4. out[<<>>] = [text |-> <<>>, esc |-> FALSE, ok |-> TRUE] /\ out[t] = Got(t, FALSE)
  BY <1>0 DEF Got
<1> HIDE DEF e, out
<1>5. Spelling(e, Symbols, D) /\ Spelling(e, Symbols, Symbols)
  <2>1. \A c \in Symbols : e[c] \in Flat /\ e[c] \in Text
    BY <1>2, FlatIs DEF FlatClosed
  <2> QED
    BY <2>1 DEF Spelling, Flat, Text
<1>6. SpellBy(e, t) \in Flat /\ SpellBy(e, t) \in Text
  <2> HIDE DEF D
  <2>1. t \in Seq(Symbols)
    BY DEF Text
  <2>2. SpellBy(e, t) \in Seq(D)
    BY <1>5, <2>1, SpellTyped
  <2> QED
    BY <2>2, FlatIs DEF FlatClosed, D, Flat
<1>7. Reads(Unquoter, e, out, Symbols, Bodies)
  <2>1. \A u \in Text : out[u] \in Bodies /\ \A c \in Symbols : Fold(Unquoter, e[c], out[u]) = out[u \o <<c>>]
    BY <1>0, <1>3
  <2> QED
    BY <2>1, Zenon DEF Reads, Text
<1>8. Fold(Unquoter, SpellBy(e, t), out[<<>>]) = out[t]
  <2>1. Stepper(Unquoter, Bodies, Symbols)
    BY UnquoterIs
  <2>2. \A u \in Seq(Symbols) : Fold(Unquoter, SpellBy(e, u), out[<<>>]) = out[u]
    BY <1>5, <1>7, <2>1, FoldSpell
  <2> QED
    BY <2>2 DEF Text
<1>9. out[<<>>] \in Bodies
  BY <1>0, <1>3
<1>10. Along(SpellBy(e, t), out[<<>>], Unquote) = out[t]
  BY <1>6, <1>8, <1>9, AlongUnquote
<1> QED
  BY <1>1, <1>4, <1>6, <1>10

-----------------------------------------------------------------------------
(* What the runner's parser makes of numbers, strings and lists.           *)

(* What the runner makes of the text of a value.                           *)
LEMMA NotNumber == ASSUME NEW t \in Text, t # <<>>, t[1] # "1" PROVE ~IsNumber(t)
<1>1. t[1] \in ToSet(t)
  BY DEF ToSet, Text
<1> QED
  BY <1>1 DEF IsNumber

LEMMA NotString == ASSUME NEW t \in Text, t[1] # "DQ" PROVE ~IsString(t)
  BY DEF IsString

LEMMA JsonSolid ==
    ASSUME NEW t \in Text, Solid(t)
    PROVE  /\ Trim(t) = t
           /\ t # <<>> /\ t[1] # "@" /\ (t[1] = "[" => Json(t) # NoJson)
                => ParseValue(t) = IF Json(t) = NoJson THEN [type |-> "string", text |-> t] ELSE Json(t)
<1>1. Trim(t) = t
  BY TrimIs DEF Text
<1> QED
  BY <1>1 DEF ParseValue

(* A quoted JSON string is read as the text that was quoted.               *)
LEMMA StringifyRead ==
    ASSUME NEW t \in Text
    PROVE  Stringify(t) \in Flat /\ ParseValue(Stringify(t)) = [type |-> "string", text |-> t]
<1> DEFINE b == Spell(t, EscapeJson)
           s == Stringify(t)
           r == [type |-> "string", text |-> t]
<1>1. "DQ" \in FlatChars /\ b \in Flat
  BY JsonSpelled DEF FlatChars, Symbols, Chars
<1>2. s = <<"DQ">> \o b \o <<"DQ">>
  BY DEF Stringify
<1>3. BetweenFacts(FlatChars, "DQ", b, "DQ", s)
  <2> HIDE DEF b, s
  <2>1. b \in Seq(FlatChars)
    BY <1>1 DEF Flat
  <2> QED
    BY <1>1, <1>2, <2>1, BetweenIs
<1>4. s \in Flat /\ s \in Text /\ Len(s) > 1 /\ s # <<>> /\ s[1] = "DQ" /\ s[Len(s)] = "DQ"
      /\ SubSeq(s, 2, Len(s) - 1) = b
  <2> HIDE DEF b, s
  <2>1. s \in Flat
    BY <1>3 DEF BetweenFacts, Flat
  <2>2. s \in Text
    BY <2>1, FlatIs DEF FlatClosed
  <2> QED
    BY <1>3, <2>1, <2>2 DEF BetweenFacts
<1>5. Body(s) = Got(t, FALSE)
  BY <1>4, JsonSpelled DEF Body
<1> HIDE DEF b, s
<1>6. IsString(s) /\ Body(s).text = t
  BY <1>4, <1>5 DEF IsString, Got
<1>7. ~IsNumber(s)
  BY <1>4, NotNumber
<1>8. Solid(s)
  BY <1>4 DEF Solid, Blanks
<1>9. Trim(s) = s
  BY <1>4, <1>8, JsonSolid
<1>10. Json(s) = r
  <2>1. s # <<"null">> /\ ~IsList(s)
    BY <1>4 DEF IsList
  <2> QED
    BY <1>6, <1>7, <1>9, <2>1 DEF Json
<1>11. r # NoJson
  BY DEF NoJson
<1>12. ParseValue(s) = r
  BY <1>4, <1>8, <1>10, <1>11, JsonSolid
<1> QED
  BY <1>4, <1>12 DEF s

(* A number, without the blanks around it, is read as that number.         *)
LEMMA NumberRead ==
    ASSUME NEW raw \in Text, IsNumber(Trim(raw))
    PROVE  /\ ParseValue(Trim(raw)) = Json(raw)
           /\ Json(raw) = [type |-> "number", text |-> Trim(raw)]
<1> DEFINE t == Trim(raw)
           r == [type |-> "number", text |-> t]
<1>1. t \in Text /\ Solid(t) /\ Trim(t) = t
  BY TrimTwice, TrimIs DEF Text
<1>2. r = [type |-> "number", text |-> Trim(raw)]
  OBVIOUS
<1> HIDE DEF t
<1>3. IsNumber(t)
  BY DEF t
<1>4. t # <<>> /\ t[1] = "1"
  <2>1. t # <<>> /\ ToSet(t) = {"1"}
    BY <1>3 DEF IsNumber
  <2>2. t[1] \in ToSet(t)
    BY <1>1, <2>1 DEF ToSet, Text
  <2> QED
    BY <2>1, <2>2
<1>5. Json(t) = r /\ Json(raw) = r
  <2>1. ~IsString(t) /\ t # <<"null">> /\ ~IsList(t)
    BY <1>4 DEF IsString, IsList
  <2>2. Json(t) = r
    BY <1>1, <1>3, <2>1 DEF Json
  <2>3. Json(raw) = r
    BY <1>3, <2>1 DEF Json, t
  <2> QED
    BY <2>2, <2>3
<1>6. r # NoJson
  BY DEF NoJson
<1>7. ParseValue(t) = r
  BY <1>1, <1>4, <1>5, <1>6, JsonSolid
<1> QED
  BY <1>2, <1>5, <1>7 DEF t

(* A list, spelled anew, is read as that list.                             *)
LEMMA ListRead ==
    ASSUME NEW raw \in Text, Json(raw).type = "list"
    PROVE  Json(raw).text \in Text /\ ParseValue(Json(raw).text) = Json(raw)
<1> DEFINE t == Trim(raw)
           u == SubSeq(t, 2, Len(t) - 1)
           b == Inner(t)
           s == <<"[">> \o b \o <<"]">>
           r == [type |-> "list", text |-> s]
<1>1. t \in Text
  BY TrimIs DEF Text
<1>2. IsList(t) /\ Json(raw) = r
  BY DEF Json, NoJson
<1>3. b = Trim(u)
  BY DEF Inner
<1> HIDE DEF t, b
<1>4. Len(t) > 1 /\ (b = <<>> \/ IsScalar(b))
  BY <1>2 DEF IsList, b
<1>5. u \in Text
  <2> DEFINE hi == Len(t) - 1
  <2>1. Len(t) \in Nat
    BY <1>1 DEF Text
  <2>2. hi \in Int /\ 2 <= hi + 1 /\ hi <= Len(t)
    BY <1>4, <2>1
  <2> HIDE DEF hi
  <2>3. SubSeq(t, 2, hi) \in Text
    BY <1>1, <2>2, PieceIs DEF Text
  <2> QED
    BY <2>3 DEF hi
<1> HIDE DEF u
<1>6. b \in Text /\ Trim(b) = b
  BY <1>3, <1>5, TrimTwice DEF Text
<1>7. BetweenFacts(Symbols, "[", b, "]", s)
  <2> HIDE DEF s
  <2>1. "[" \in Symbols /\ "]" \in Symbols
    BY DEF Symbols, Chars
  <2>2. b \in Seq(Symbols)
    BY <1>6 DEF Text
  <2>3. s = <<"[">> \o b \o <<"]">>
    BY DEF s
  <2> QED
    BY <2>1, <2>2, <2>3, BetweenIs
<1> HIDE DEF s
<1>8. s \in Text /\ Len(s) > 1 /\ s # <<>> /\ s[1] = "[" /\ s[Len(s)] = "]"
      /\ SubSeq(s, 2, Len(s) - 1) = b
  BY <1>7 DEF BetweenFacts, Text
<1>9. Inner(s) = b
  BY <1>6, <1>8 DEF Inner
<1>10. IsList(s)
  BY <1>4, <1>8, <1>9 DEF IsList
<1>11. Solid(s)
  BY <1>8 DEF Solid, Blanks
<1>12. Trim(s) = s
  BY <1>8, <1>11, JsonSolid
<1>13. ~IsNumber(s) /\ ~IsString(s) /\ s # <<"null">>
  <2>1. s # <<"null">>
    BY <1>8
  <2> QED
    BY <1>8, <2>1, NotNumber, NotString
<1>14. Json(s) = r
  <2>1. Json(s) = [type |-> "list", text |-> <<"[">> \o Inner(s) \o <<"]">>]
    BY <1>10, <1>12, <1>13 DEF Json
  <2> QED
    BY <1>9, <2>1 DEF s
<1>15. r # NoJson
  BY DEF NoJson
<1>16. ParseValue(s) = r
  BY <1>8, <1>11, <1>14, <1>15, JsonSolid
<1> QED
  BY <1>2, <1>8, <1>16

(* A text that is no JSON of the parameter's type is none for the runner.  *)
LEMMA OtherRead ==
    ASSUME NEW raw \in Text, NEW type \in {"number", "list"}, Json(raw).type # type
    PROVE  ParseValue(raw).type # type
<1> DEFINE s == Trim(raw)
<1>1. Trim(s) = s
  BY TrimTwice DEF Text
<1>2. Json(s) = Json(raw)
  BY <1>1 DEF Json
<1> HIDE DEF s
<1>3. /\ ParseValue(raw) = Refused \/ ParseValue(raw) = [type |-> "file", text |-> Tail(s)]
           \/ ParseValue(raw) = [type |-> "string", text |-> s] \/ ParseValue(raw) = Json(s)
  BY DEF ParseValue, s
<1> QED
  BY <1>2, <1>3 DEF Refused

-----------------------------------------------------------------------------
(* Each value of the form is spelled so that the runner reads what the     *)
(* form shows of it.                                                       *)

(* The texts that a reader types are texts.                                *)
LEMMA TypedText == ASSUME NEW raw \in Seq(Chars) PROVE raw \in Text
<1>1. Chars \subseteq Symbols
  BY DEF Symbols
<1> HIDE DEF Chars, Symbols
<1> QED
  BY <1>1, SeqSub DEF Text

(* A bare string stands for itself, in the shell and for the runner.       *)
LEMMA BareStands ==
    ASSUME NEW raw \in Text, BareString(raw), raw[1] # "@"
    PROVE  /\ raw \in BareText
           /\ Json(raw) = NoJson => ParseValue(raw) = [type |-> "string", text |-> raw]
<1> DEFINE E == Symbols \ Closing
<1>1. raw # <<>> /\ ToSet(raw) \subseteq Plain \cup {"@"}
  BY DEF BareString
<1>2. Plain \cup {"@"} \subseteq E
  BY DEF Plain, Symbols, Chars, Closing
<1>3. raw \in BareText
  <2>1. ToSet(raw) \subseteq E
    BY <1>1, <1>2
  <2> HIDE DEF E
  <2>2. raw \in Seq(E)
    BY <2>1, Within DEF Text
  <2> QED
    BY <2>2 DEF BareText, E
<1>4. raw[1] \in ToSet(raw) /\ raw[Len(raw)] \in ToSet(raw)
  BY <1>1 DEF ToSet, Text
<1>5. raw[1] \in Plain \cup {"@"} /\ raw[Len(raw)] \in Plain \cup {"@"}
  BY <1>1, <1>4
<1>6. Solid(raw) /\ raw[1] # "["
  BY <1>1, <1>5 DEF Solid, Blanks, Plain
<1>7. Json(raw) = NoJson => ParseValue(raw) = [type |-> "string", text |-> raw]
  BY <1>1, <1>6, JsonSolid
<1> QED
  BY <1>3, <1>7

(* Each of the form's values reads as what the form shows of it.           *)
Understood(raw, kind, part) ==
    /\ Spelled(part)
    /\ LET v == ParseValue(part.value) IN (IF v.type = Expected[kind] THEN v ELSE Refused) = Means(raw, kind)
LEMMA StringUnderstood ==
    ASSUME NEW raw \in Text
    PROVE  Understood(raw, "str", SetParts(raw, "str"))
<1> DEFINE part == SetParts(raw, "str")
           r == [type |-> "string", text |-> raw]
<1>1. Means(raw, "str") = r /\ Expected["str"] = "string"
  BY DEF Means, Expected
<1>2. Spelled(part) /\ ParseValue(part.value) = r
  <2>1. CASE BareString(raw) /\ raw[1] # "@" /\ Json(raw) = NoJson
    <3>1. part = [value |-> raw, bare |-> TRUE]
      BY <2>1 DEF SetParts
    <3>2. raw \in BareText /\ ParseValue(raw) = r
      BY <2>1, BareStands
    <3> QED
      BY <3>1, <3>2 DEF Spelled
  <2>2. CASE ~(BareString(raw) /\ raw[1] # "@" /\ Json(raw) = NoJson)
    <3>1. part = [value |-> Stringify(raw), bare |-> FALSE]
      BY <2>2 DEF SetParts
    <3>2. Stringify(raw) \in Text /\ ParseValue(Stringify(raw)) = r
      BY StringifyRead, FlatIs DEF FlatClosed
    <3> QED
      BY <3>1, <3>2 DEF Spelled
  <2> QED
    BY <2>1, <2>2
<1> HIDE DEF part
<1> QED
  BY <1>1, <1>2 DEF Understood, part

LEMMA NumberBare ==
    ASSUME NEW t \in Text, IsNumber(t)
    PROVE  t \in BareText
<1> DEFINE E == Symbols \ Closing
<1>1. ToSet(t) = {"1"}
  BY DEF IsNumber
<1>2. ToSet(t) \subseteq E
  BY <1>1 DEF Symbols, Plain, Closing
<1> HIDE DEF E
<1>3. t \in Seq(E)
  BY <1>2, Within DEF Text
<1> QED
  BY <1>3 DEF BareText, E

LEMMA IntUnderstood ==
    ASSUME NEW raw \in Text
    PROVE  Understood(raw, "int", SetParts(raw, "int"))
<1> DEFINE part == SetParts(raw, "int")
           t == Trim(raw)
<1>1. Expected["int"] = "number"
  BY DEF Expected
<1>2. Means(raw, "int") = IF Json(raw).type = "number" THEN Json(raw) ELSE Refused
  BY <1>1 DEF Means
<1>3. t \in Text
  BY TrimIs DEF Text
<1>4. CASE IsNumber(t)
  <2>1. part = [value |-> t, bare |-> TRUE]
    BY <1>4 DEF SetParts
  <2>2. ParseValue(t) = Json(raw) /\ Json(raw).type = "number"
    BY <1>4, NumberRead
  <2>3. t \in BareText
    BY <1>3, <1>4, NumberBare
  <2> HIDE DEF t, part
  <2>4. Understood(raw, "int", part)
    BY <1>1, <1>2, <1>3, <2>1, <2>2, <2>3 DEF Understood, Spelled
  <2> QED
    BY <2>4 DEF part
<1>5. CASE ~IsNumber(t)
  <2>1. part = [value |-> raw, bare |-> FALSE]
    BY <1>5 DEF SetParts
  <2>2. Json(raw).type # "number"
    BY <1>5 DEF Json, NoJson
  <2>3. ParseValue(raw).type # "number"
    BY <2>2, OtherRead
  <2> HIDE DEF t, part
  <2>4. Understood(raw, "int", part)
    BY <1>1, <1>2, <2>1, <2>2, <2>3 DEF Understood, Spelled
  <2> QED
    BY <2>4 DEF part
<1> QED
  BY <1>4, <1>5

LEMMA ListUnderstood ==
    ASSUME NEW raw \in Text
    PROVE  Understood(raw, "list", SetParts(raw, "list"))
<1> DEFINE part == SetParts(raw, "list")
           j == Json(raw)
<1>1. Expected["list"] = "list"
  BY DEF Expected
<1>2. Means(raw, "list") = IF j.type = "list" THEN j ELSE Refused
  BY <1>1 DEF Means
<1>3. CASE j.type = "list"
  <2>1. part = [value |-> j.text, bare |-> FALSE]
    BY <1>3 DEF SetParts
  <2>2. ParseValue(j.text) = j /\ j.text \in Text
    BY <1>3, ListRead
  <2> HIDE DEF j, part
  <2>4. Understood(raw, "list", part)
    BY <1>1, <1>2, <1>3, <2>1, <2>2 DEF Understood, Spelled
  <2> QED
    BY <2>4 DEF part
<1>4. CASE j.type # "list"
  <2>1. part = [value |-> raw, bare |-> FALSE]
    BY <1>4 DEF SetParts
  <2>3. ParseValue(raw).type # "list"
    BY <1>4, OtherRead
  <2> HIDE DEF j, part
  <2>4. Understood(raw, "list", part)
    BY <1>1, <1>2, <1>4, <2>1, <2>3 DEF Understood, Spelled
  <2> QED
    BY <2>4 DEF part
<1> QED
  BY <1>3, <1>4

LEMMA ValueUnderstood ==
    ASSUME NEW raw \in Text, NEW kind \in Kinds
    PROVE  Understood(raw, kind, SetParts(raw, kind))
  BY StringUnderstood, IntUnderstood, ListUnderstood DEF Kinds

(* The part of the second parameter, whose value is a letter.              *)
LEMMA LetterSpelled == Spelled(SetParts(<<"a">>, "str")) /\ SetParts(<<"a">>, "str").value \in Flat
<1> DEFINE raw == <<"a">>
           part == SetParts(raw, "str")
<1>1. raw \in Flat /\ raw \in Text
  <2>1. "a" \in FlatChars
    BY DEF FlatChars, Symbols, Plain
  <2> QED
    BY <2>1, FlatIs DEF FlatClosed
<1> HIDE DEF raw
<1>2. Understood(raw, "str", part)
  BY <1>1, StringUnderstood
<1>3. part.value = raw \/ part.value = Stringify(raw)
  BY DEF SetParts
<1>4. Stringify(raw) \in Flat
  BY <1>1, StringifyRead
<1> HIDE DEF part
<1>5. Spelled(part) /\ part.value \in Flat
  BY <1>1, <1>2, <1>3, <1>4 DEF Understood
<1> QED
  BY <1>5 DEF part, raw

LEMMA ValuesSpelled ==
    ASSUME NEW raw \in Text, NEW kind \in Kinds
    PROVE  /\ Valued(raw, kind)
           /\ "NL" \notin ToSet(SetParts(raw, kind).value) => FlatValues(raw, kind)
<1> DEFINE v == SetParts(raw, kind).value
<1>1. Spelled(SetParts(raw, kind))
  BY ValueUnderstood DEF Understood
<1>2. Valued(raw, kind)
  BY <1>1, LetterSpelled DEF Valued
<1>3. v \in Text
  BY <1>1 DEF Spelled
<1>4. ASSUME "NL" \notin ToSet(v) PROVE v \in Flat
  <2> HIDE DEF v
  <2>1. v \in Seq(Symbols)
    BY <1>3 DEF Text
  <2>2. ToSet(v) \subseteq Symbols
    BY <2>1 DEF ToSet
  <2>3. ToSet(v) \subseteq FlatChars
    BY <1>4, <2>2 DEF FlatChars
  <2>4. v \in Seq(FlatChars)
    BY <2>1, <2>3, Within
  <2> QED
    BY <2>4 DEF Flat
<1> QED
  BY <1>2, <1>4, LetterSpelled DEF FlatValues

-----------------------------------------------------------------------------
(* The whole way.                                                          *)

(* Behind the key and the sign the runner finds the value.                 *)
LEMMA BehindKey ==
    ASSUME NEW v \in Text
    PROVE  LET s == <<"k", "=">> \o v IN SubSeq(s, 3, Len(s)) = v
<1> DEFINE k == <<"k", "=">>
           s == k \o v
           n == Len(v)
           u == SubSeq(s, 3, Len(s))
<1>1. k \in Seq(Symbols) /\ Len(k) = 2
  BY DEF Symbols, OtherSymbols
<1>2. v \in Seq(Symbols)
  BY DEF Text
<1> HIDE DEF k
<1>3. ConcatFacts(Symbols, k, v)
  BY <1>1, <1>2, ConcatsAre DEF Concatenates
<1>4. s \in Seq(Symbols) /\ n \in Nat /\ Len(s) = 2 + n /\ \A i \in 1..n : s[2 + i] = v[i]
  BY <1>1, <1>3 DEF ConcatFacts
<1> HIDE DEF s
<1> DEFINE hi == 2 + n
<1>5. hi \in Int /\ 3 <= hi + 1 /\ hi <= Len(s) /\ hi - 3 + 1 = n
  BY <1>4
<1>6. u = SubSeq(s, 3, hi)
  BY <1>4
<1> HIDE DEF hi, u
<1>7. /\ SubSeq(s, 3, hi) \in Seq(Symbols) /\ Len(SubSeq(s, 3, hi)) = hi - 3 + 1
      /\ \A i \in 1..(hi - 3 + 1) : SubSeq(s, 3, hi)[i] = s[3 + i - 1]
  BY <1>4, <1>5, PieceIs
<1>8. u \in Seq(Symbols) /\ Len(u) = n /\ \A i \in 1..n : u[i] = s[3 + i - 1]
  BY <1>5, <1>6, <1>7
<1>9. ASSUME NEW i \in 1..n PROVE u[i] = v[i]
  <2>1. 3 + i - 1 = 2 + i
    BY <1>4
  <2> QED
    BY <1>4, <1>8, <2>1
<1>10. u = v
  BY <1>2, <1>8, <1>9, SeqEqual DEF n
<1> QED
  BY <1>10 DEF u, s, k

(* The runner reads the posted string as the value the form shows.         *)
LEMMA BindSame ==
    ASSUME NEW raw \in Text, NEW kind \in Kinds
    PROVE  Bind(BuildArgs(Sent(raw, kind))[1], kind) = Means(raw, kind)
<1> DEFINE part == SetParts(raw, kind)
           s == <<"k", "=">> \o part.value
<1>1. BuildArgs(Sent(raw, kind))[1] = s
  BY DEF BuildArgs, Sent, SetArg, Keys
<1>2. Understood(raw, kind, part)
  BY ValueUnderstood
<1>3. part.value \in Text
  BY <1>2 DEF Understood, Spelled
<1>4. SubSeq(s, 3, Len(s)) = part.value
  BY <1>3, BehindKey
<1> HIDE DEF part, s
<1>5. Bind(s, kind) = Means(raw, kind)
  BY <1>2, <1>4 DEF Bind, Understood
<1> QED
  BY <1>1, <1>5

(* For every text, kind of parameter and setup, the pasted command does    *)
(* what the button does.                                                   *)
THEOREM CommandSame ==
    ASSUME NEW raw \in Seq(Chars), NEW kind \in Kinds, NEW p
    PROVE  SameFor(raw, kind, p)
<1>0. raw \in Text
  BY TypedText
<1>1. Valued(raw, kind) /\ ("NL" \notin ToSet(SetParts(raw, kind).value) => FlatValues(raw, kind))
  BY <1>0, ValuesSpelled
<1>2. Bind(BuildArgs(Sent(raw, kind))[1], kind) = Means(raw, kind)
  BY <1>0, BindSame
<1>3. Exempt(raw, kind, p) \/ Argv(RewriteCmd(Copied(raw, kind), p)) = Posted(raw, kind)
  <2>1. CASE ~Wrapped(p)
    BY <1>1, <2>1, UnwrappedSame
  <2>2. CASE Wrapped(p) /\ "NL" \notin ToSet(SetParts(raw, kind).value)
    BY <1>1, <2>2, WrappedSame
  <2>3. CASE Wrapped(p) /\ "NL" \in ToSet(SetParts(raw, kind).value)
    BY <2>3 DEF Exempt
  <2> QED
    BY <2>1, <2>2, <2>3
<1>4. GuideBlock([text |-> <<"a", "NL">> \o Copied(raw, kind) \o <<"NL", "a">>, local |-> FALSE], p)
          = <<"a", "NL">> \o RewriteCmd(Copied(raw, kind), p) \o <<"NL", "a">>
  BY <1>1, GuideSame
<1> QED
  BY <1>2, <1>3, <1>4, Zenon DEF SameFor

LEMMA PastedSame ==
    ASSUME NEW p \in Setups, Texts \subseteq Seq(Chars)
    PROVE  <<p, TRUE>> \in Pasted
<1> DEFINE P == \A raw \in Texts, kind \in Kinds : SameFor(raw, kind, p)
<1>1. P
  BY CommandSame
<1>2. P = TRUE
  BY <1>1, Zenon
<1>3. <<p, P>> \in Pasted
  BY Zenon DEF Pasted
<1> QED
  BY <1>2, <1>3
=============================================================================
