----------------------- MODULE SubmittedMessageProofs -----------------------
(***************************************************************************)
(* Proofs about SubmittedMessage, for every text, every size of the buffer *)
(* and limit of the message, every set of records and any number of        *)
(* failures.                                                               *)
(***************************************************************************)
EXTENDS SubmittedMessage, WellFoundedInduction, TLAPS

\* Induction over the natural numbers, for a set.
LEMMA SetInduction ==
    ASSUME NEW S, 0 \in S, \A n \in Nat : n \in S => n + 1 \in S
    PROVE  Nat \subseteq S
<1>. DEFINE T == Nat \ S
<1>. SUFFICES ASSUME T # {} PROVE FALSE
  BY Zenon
<1>1. PICK x \in T : \A y \in T : ~(<<y, x>> \in OpToRel(<, Nat))
  <2>. HIDE DEF T
  <2>1. T \subseteq Nat
    BY Zenon DEF T
  <2>. QED
    BY <2>1, WFMin, NatLessThanWellFounded, Zenon
<1>2. \A y \in T : ~(y < x)
  BY <1>1, Zenon DEF OpToRel
<1>3. x # 0 /\ x - 1 \in Nat /\ x - 1 < x
  OBVIOUS
<1>4. x - 1 \in S
  BY <1>2, <1>3, Zenon
<1>. QED
  BY <1>3, <1>4

-----------------------------------------------------------------------------
(* Lines one after the other *)

\* The function that Flat goes by, up to n.
Flattens(f, s, n) ==
    f = [k \in 0..n |-> IF k = 0 THEN <<>> ELSE f[k - 1] \o s[k]]

\* What it is for no lines, and for one line more.
Grows(f, s, n) ==
    /\ f[0] = <<>>
    /\ \A k \in Nat : k + 1 <= n => f[k + 1] = f[k] \o s[k + 1]

LEMMA FlattensGrows ==
    ASSUME NEW f, NEW s, NEW n \in Nat, Flattens(f, s, n)
    PROVE  Grows(f, s, n)
<1>. DEFINE Part(g, i) == IF i = 0 THEN <<>> ELSE g[i - 1] \o s[i]
<1>1. f = [i \in 0..n |-> Part(f, i)]
  BY Zenon DEF Flattens
<1>2. ASSUME NEW g, NEW k \in 0..n
      PROVE  [i \in 0..n |-> Part(g, i)][k] = Part(g, k)
  <2>. HIDE DEF Part
  <2>. QED
    BY Zenon
<1>3. \A k \in 0..n : f[k] = Part(f, k)
  <2>. HIDE DEF Part
  <2>. QED
    BY <1>1, <1>2
<1>4. f[0] = <<>>
  <2>1. 0 \in 0..n
    OBVIOUS
  <2>. QED
    BY <1>3, <2>1, Zenon
<1>5. ASSUME NEW k \in Nat, k + 1 <= n
      PROVE  f[k + 1] = f[k] \o s[k + 1]
  <2>1. k + 1 \in 0..n /\ k + 1 # 0 /\ (k + 1) - 1 = k
    BY <1>5
  <2>. QED
    BY <1>3, <2>1, Zenon
<1>. QED
  BY <1>4, <1>5, Zenon DEF Grows

\* The function exists, whatever the lines.
LEMMA FlattensExists ==
    ASSUME NEW s, NEW n \in Nat
    PROVE  \E f : Flattens(f, s, n)
<1>. DEFINE S == {k \in Nat : \E f : Flattens(f, s, k)}
<1>1. 0 \in S
  <2>. DEFINE f == [k \in 0..0 |-> <<>>]
  <2>1. Flattens(f, s, 0)
    BY DEF Flattens
  <2>. QED
    BY <2>1, Zenon
<1>2. ASSUME NEW k \in Nat, k \in S
      PROVE  k + 1 \in S
  <2>1. PICK f : Flattens(f, s, k)
    BY <1>2, Zenon
  <2>0. Grows(f, s, k)
    BY <2>1, FlattensGrows, Zenon
  <2>. DEFINE g == [i \in 0..(k + 1) |-> IF i <= k THEN f[i] ELSE f[k] \o s[k + 1]]
  <2>2. ASSUME NEW i \in 0..(k + 1)
        PROVE  g[i] = IF i = 0 THEN <<>> ELSE g[i - 1] \o s[i]
    <3>1. CASE i = 0
      <4>1. g[i] = f[0]
        BY <3>1
      <4>. HIDE DEF g
      <4>. QED
        BY <2>0, <3>1, <4>1, Zenon DEF Grows
    <3>2. CASE i \in 1..k
      <4>1. g[i] = f[i] /\ g[i - 1] = f[i - 1] /\ i # 0 /\ i - 1 \in Nat /\ (i - 1) + 1 = i
            /\ (i - 1) + 1 <= k
        BY <3>2
      <4>. HIDE DEF g
      <4>2. f[(i - 1) + 1] = f[i - 1] \o s[(i - 1) + 1]
        BY <2>0, <4>1, Zenon DEF Grows
      <4>. QED
        BY <4>1, <4>2, Zenon
    <3>3. CASE i = k + 1
      <4>1. g[i] = f[k] \o s[i] /\ g[i - 1] = f[k] /\ i # 0
        BY <3>3
      <4>. HIDE DEF g
      <4>. QED
        BY <4>1, Zenon
    <3>4. i = 0 \/ i \in 1..k \/ i = k + 1
      OBVIOUS
    <3>. QED
      BY <3>1, <3>2, <3>3, <3>4, Zenon
  <2>3. g = [i \in 0..(k + 1) |-> g[i]]
    BY Zenon
  <2>. HIDE DEF g
  <2>4. Flattens(g, s, k + 1)
    BY <2>2, <2>3, Zenon DEF Flattens
  <2>5. k + 1 \in Nat
    OBVIOUS
  <2>. QED
    BY <2>4, <2>5, Zenon
<1>. HIDE DEF S
<1>3. n \in S
  BY <1>1, <1>2, SetInduction, Zenon
<1>. QED
  BY <1>3, Zenon DEF S

LEMMA FlatIs ==
    ASSUME NEW X, NEW s \in Seq(X)
    PROVE  \E f : Grows(f, s, Len(s)) /\ Flat(s) = f[Len(s)]
<1>0. Len(s) \in Nat
  OBVIOUS
<1>1. \E f : Flattens(f, s, Len(s))
  BY <1>0, FlattensExists, Zenon
<1>2. PICK u : u = CHOOSE f : Flattens(f, s, Len(s))
  BY Zenon
<1>3. Flattens(u, s, Len(s))
  BY <1>1, <1>2, Zenon
<1>4. Flat(s) = u[Len(s)]
  BY <1>2, Zenon DEF Flat, Flattens
<1>. QED
  BY <1>0, <1>3, <1>4, FlattensGrows, Zenon

LEMMA FlatOfNone == Flat(<<>>) = <<>>
<1>1. <<>> \in Seq({}) /\ Len(<<>>) = 0
  OBVIOUS
<1>2. PICK f : Grows(f, <<>>, 0) /\ Flat(<<>>) = f[0]
  BY <1>1, FlatIs, Zenon
<1>. QED
  BY <1>2, Zenon DEF Grows

\* The lines hold bytes of the same kind.
LEMMA FlatType ==
    ASSUME NEW B, NEW s \in Seq(Seq(B))
    PROVE  Flat(s) \in Seq(B)
<1>0. Len(s) \in Nat /\ \A k \in Nat : k + 1 <= Len(s) => s[k + 1] \in Seq(B)
  OBVIOUS
<1>1. PICK f : Grows(f, s, Len(s)) /\ Flat(s) = f[Len(s)]
  BY FlatIs, Zenon
<1>. DEFINE S == {k \in Nat : k <= Len(s) => f[k] \in Seq(B)}
<1>2. 0 \in S
  <2>1. <<>> \in Seq(B)
    OBVIOUS
  <2>2. f[0] \in Seq(B)
    BY <1>1, <2>1, Zenon DEF Grows
  <2>. QED
    BY <2>2
<1>3. ASSUME NEW k \in Nat, k \in S
      PROVE  k + 1 \in S
  <2>. SUFFICES ASSUME k + 1 <= Len(s) PROVE f[k + 1] \in Seq(B)
    OBVIOUS
  <2>1. f[k] \in Seq(B) /\ s[k + 1] \in Seq(B)
    BY <1>0, <1>3
  <2>2. f[k + 1] = f[k] \o s[k + 1]
    BY <1>1, Zenon DEF Grows
  <2>3. \A a, b \in Seq(B) : a \o b \in Seq(B)
    OBVIOUS
  <2>. QED
    BY <2>1, <2>2, <2>3, Zenon
<1>4. Len(s) \in S
  <2>. HIDE DEF S
  <2>. QED
    BY <1>0, <1>2, <1>3, SetInduction, Zenon
<1>. QED
  BY <1>0, <1>1, <1>4

Associate(a, b, c) == (a \o b) \o c = a \o (b \o c)

LEMMA AlwaysAssociate ==
    ASSUME NEW B, NEW a \in Seq(B), NEW b \in Seq(B), NEW c \in Seq(B)
    PROVE  Associate(a, b, c)
BY DEF Associate

StartsWith(text, line, rest) == text = line \o rest

\* The first line stands first.
LEMMA FlatOfMore ==
    ASSUME NEW B, NEW x \in Seq(B), NEW t \in Seq(Seq(B)), NEW s \in Seq(Seq(B)),
           Len(s) = Len(t) + 1, s[1] = x,
           \A k \in 1..Len(t) : s[k + 1] = t[k]
    PROVE  StartsWith(Flat(s), x, Flat(t))
<1>. DEFINE n == Len(t)
<1>0. n \in Nat /\ \A k \in Nat : k + 1 <= n => t[k + 1] \in Seq(B) /\ s[(k + 1) + 1] = t[k + 1]
  BY SMTT(30)
<1>1. PICK f : Grows(f, t, n) /\ Flat(t) = f[n]
  BY FlatIs, Zenon
<1>2. PICK g : Grows(g, s, n + 1) /\ Flat(s) = g[n + 1]
  BY FlatIs, Zenon
<1>. DEFINE S == {k \in Nat : k <= n => f[k] \in Seq(B) /\ g[k + 1] = x \o f[k]}
<1>. HIDE DEF n
<1>3. 0 \in S
  <2>1. f[0] = <<>> /\ g[0] = <<>>
    BY <1>1, <1>2, Zenon DEF Grows
  <2>2. 0 + 1 <= n + 1 /\ 0 + 1 = 1
    BY <1>0
  <2>3. g[0 + 1] = g[0] \o s[0 + 1]
    BY <1>2, <2>2, Zenon DEF Grows
  <2>4. <<>> \o x = x /\ x \o <<>> = x /\ <<>> \in Seq(B)
    OBVIOUS
  <2>5. f[0] \in Seq(B) /\ g[0 + 1] = x \o f[0]
    BY <2>1, <2>2, <2>3, <2>4, Zenon
  <2>. QED
    BY <2>5, Zenon
<1>4. ASSUME NEW k \in Nat, k \in S
      PROVE  k + 1 \in S
  <2>. SUFFICES ASSUME k + 1 <= n
                PROVE  f[k + 1] \in Seq(B) /\ g[(k + 1) + 1] = x \o f[k + 1]
    <3>1. k + 1 \in Nat
      OBVIOUS
    <3>. QED
      BY <3>1, Zenon
  <2>1. k <= n /\ (k + 1) + 1 <= n + 1 /\ k + 1 \in Nat
    BY <1>0
  <2>2. f[k] \in Seq(B) /\ g[k + 1] = x \o f[k]
    BY <1>4, <2>1, Zenon
  <2>3. t[k + 1] \in Seq(B) /\ s[(k + 1) + 1] = t[k + 1]
    BY <1>0, Zenon
  <2>4. f[k + 1] = f[k] \o t[k + 1]
    BY <1>1, Zenon DEF Grows
  <2>5. g[(k + 1) + 1] = g[k + 1] \o s[(k + 1) + 1]
    BY <1>2, <2>1, Zenon DEF Grows
  <2>6. f[k + 1] \in Seq(B)
    BY <2>2, <2>3, <2>4
  <2>7. Associate(x, f[k], t[k + 1])
    BY <2>2, <2>3, AlwaysAssociate, Zenon
  <2>. QED
    BY <2>2, <2>3, <2>4, <2>5, <2>6, <2>7, Zenon DEF Associate
<1>5. n \in S
  <2>. HIDE DEF S
  <2>. QED
    BY <1>0, <1>3, <1>4, SetInduction, Zenon
<1>6. g[n + 1] = x \o f[n]
  BY <1>0, <1>5, SMTT(30)
<1>. QED
  BY <1>1, <1>2, <1>6, Zenon DEF StartsWith

-----------------------------------------------------------------------------
(* What a client sends *)

LEMMA LineIs ==
    ASSUME NEW l \in Line
    PROVE  /\ l \in Seq(Bytes) /\ Len(l) \in Nat \ {0} /\ l[Len(l)] = LF
           /\ \A i \in 1..Len(l) : l[i] = LF => i = Len(l)
<1>1. l \in Seq(Bytes) /\ l # <<>> /\ \A i \in DOMAIN l : l[i] = LF <=> i = Len(l)
  BY Zenon DEF Line
<1>2. Len(l) \in Nat \ {0} /\ DOMAIN l = 1..Len(l) /\ Len(l) \in 1..Len(l)
  BY <1>1
<1>. QED
  BY <1>1, <1>2, Zenon

\* A stuffed line is a line that starts with two dots or with none.
LEMMA StuffedIs ==
    ASSUME NEW l \in Line, NEW t, t = Stuffed(l)
    PROVE  /\ t \in Line
           /\ t[1] = Dot => t = <<Dot>> \o l /\ Len(t) >= 2 /\ t[2] = Dot
           /\ t[1] # Dot => t = l
<1>1. /\ l \in Seq(Bytes) /\ Len(l) \in Nat \ {0} /\ l[Len(l)] = LF
      /\ \A i \in 1..Len(l) : l[i] = LF => i = Len(l)
  BY LineIs, Zenon
<1>2. CASE l[1] # Dot
  BY <1>2, Zenon DEF Stuffed
<1>3. CASE l[1] = Dot
  <2>1. t = <<Dot>> \o l
    BY <1>3, Zenon DEF Stuffed
  <2>2. Dot \in Bytes /\ Dot # LF
    BY DEF Bytes, Dot, LF
  <2>3. /\ t \in Seq(Bytes) /\ Len(t) = Len(l) + 1 /\ t[1] = Dot
        /\ \A i \in 1..Len(l) : t[i + 1] = l[i]
    BY <1>1, <2>1, <2>2, SMTT(30)
  <2>4. ASSUME NEW i \in 1..Len(t)
        PROVE  t[i] = LF <=> i = Len(t)
    <3>1. CASE i = 1
      BY <1>1, <2>2, <2>3, <3>1
    <3>2. CASE i # 1
      <4>1. i - 1 \in 1..Len(l) /\ (i - 1) + 1 = i
        BY <1>1, <2>3, <3>2
      <4>2. t[i] = l[i - 1]
        BY <2>3, <4>1, Zenon
      <4>3. l[i - 1] = LF <=> i - 1 = Len(l)
        BY <1>1, <4>1, Zenon
      <4>. QED
        BY <1>1, <2>3, <4>2, <4>3
    <3>. QED
      BY <3>1, <3>2, Zenon
  <2>5. t # <<>> /\ DOMAIN t = 1..Len(t)
    BY <1>1, <2>3
  <2>6. t \in Line
    BY <2>3, <2>4, <2>5, Zenon DEF Line
  <2>7. Len(t) >= 2 /\ t[2] = Dot
    <3>1. 1 \in 1..Len(l) /\ 1 + 1 = 2
      BY <1>1
    <3>2. t[1 + 1] = l[1]
      BY <2>3, <3>1, Zenon
    <3>3. Len(t) >= 2
      BY <1>1, <2>3
    <3>. QED
      BY <1>3, <3>1, <3>2, <3>3, Zenon
  <2>. QED
    BY <2>1, <2>3, <2>6, <2>7, Zenon
<1>. QED
  BY <1>2, <1>3, Zenon

Terminator == <<Dot, CR, LF>>

LEMMA EncodedOfNone == Encoded(<<>>) = Terminator
<1>1. [i \in DOMAIN <<>> |-> Stuffed(<<>>[i])] = <<>>
  OBVIOUS
<1>2. <<>> \o Terminator = Terminator
  BY DEF Terminator
<1>. QED
  BY <1>1, <1>2, FlatOfNone, Zenon DEF Encoded, Terminator

\* A text is its first line and the rest, and so is what is sent for it.
LEMMA TextOfMore ==
    ASSUME NEW lines \in Seq(Line), lines # <<>>
    PROVE  /\ Head(lines) \in Line /\ Tail(lines) \in Seq(Line)
           /\ StartsWith(Flat(lines), Head(lines), Flat(Tail(lines)))
           /\ StartsWith(Encoded(lines), Stuffed(Head(lines)), Encoded(Tail(lines)))
<1>1. PICK h, t, n : h = Head(lines) /\ t = Tail(lines) /\ n = Len(t)
  BY Zenon
<1>2. /\ h \in Line /\ t \in Seq(Line) /\ n \in Nat /\ Len(lines) = n + 1 /\ lines[1] = h
      /\ \A k \in 1..n : lines[k + 1] = t[k]
  BY <1>1
<1>3. Line \subseteq Seq(Bytes)
  BY Zenon DEF Line
<1>4. lines \in Seq(Seq(Bytes)) /\ t \in Seq(Seq(Bytes)) /\ h \in Seq(Bytes)
  BY <1>2, <1>3
<1>5. StartsWith(Flat(lines), h, Flat(t))
  BY <1>1, <1>2, <1>4, FlatOfMore, Zenon
<1>. DEFINE sl == [i \in DOMAIN lines |-> Stuffed(lines[i])]
            st == [i \in DOMAIN t |-> Stuffed(t[i])]
<1>6. \A l \in Line : Stuffed(l) \in Seq(Bytes)
  BY <1>3, StuffedIs, Zenon
<1>7. sl \in Seq(Seq(Bytes)) /\ st \in Seq(Seq(Bytes)) /\ Len(sl) = Len(st) + 1 /\ Len(st) = n
  BY <1>1, <1>2, <1>6, SMTT(30)
<1>8. sl[1] = Stuffed(h) /\ \A k \in 1..n : sl[k + 1] = st[k]
  BY <1>1, <1>2
<1>9. Stuffed(h) \in Seq(Bytes)
  BY <1>2, <1>6, Zenon
<1>. HIDE DEF sl, st
<1>10. StartsWith(Flat(sl), Stuffed(h), Flat(st))
  BY <1>7, <1>8, <1>9, FlatOfMore, Zenon
<1>11. Flat(st) \in Seq(Bytes) /\ Terminator \in Seq(Bytes)
  <2>1. Terminator \in Seq(Bytes)
    BY DEF Terminator, Bytes
  <2>. QED
    BY <1>7, <2>1, FlatType, Zenon
<1>12. Associate(Stuffed(h), Flat(st), Terminator)
  BY <1>9, <1>11, AlwaysAssociate, Zenon
<1>13. Encoded(lines) = Stuffed(h) \o Encoded(t)
  BY <1>10, <1>12, Zenon DEF Encoded, Associate, StartsWith, Terminator, sl, st
<1>. QED
  BY <1>1, <1>2, <1>5, <1>13, Zenon DEF StartsWith

LEMMA TextType ==
    ASSUME NEW lines \in Seq(Line)
    PROVE  Flat(lines) \in Seq(Bytes) /\ Encoded(lines) \in Seq(Bytes)
<1>1. Line \subseteq Seq(Bytes)
  BY Zenon DEF Line
<1>2. lines \in Seq(Seq(Bytes))
  BY <1>1
<1>. DEFINE sl == [i \in DOMAIN lines |-> Stuffed(lines[i])]
<1>3. \A l \in Line : Stuffed(l) \in Seq(Bytes)
  BY <1>1, StuffedIs, Zenon
<1>4. sl \in Seq(Seq(Bytes))
  <2>1. \A i \in 1..Len(lines) : lines[i] \in Line
    OBVIOUS
  <2>2. \A i \in 1..Len(lines) : Stuffed(lines[i]) \in Seq(Bytes)
    BY <1>3, <2>1, Zenon
  <2>. QED
    BY <2>2
<1>. HIDE DEF sl
<1>5. Flat(sl) \in Seq(Bytes) /\ Flat(lines) \in Seq(Bytes)
  BY <1>2, <1>4, FlatType, Zenon
<1>6. <<Dot, CR, LF>> \in Seq(Bytes)
  BY DEF Bytes
<1>7. \A a, b \in Seq(Bytes) : a \o b \in Seq(Bytes)
  OBVIOUS
<1>. QED
  BY <1>5, <1>6, <1>7, Zenon DEF Encoded, sl

-----------------------------------------------------------------------------
(* What the server reads *)

\* The end of the first line is found.
LEMMA LineEndIs ==
    ASSUME NEW w, NEW l \in Line, NEW rest \in Seq(Bytes), StartsWith(w, l, rest)
    PROVE  LineEnd(w) = Len(l)
<1>. DEFINE ends == {i \in DOMAIN w : w[i] = LF}
            n == Len(l)
<1>1. /\ l \in Seq(Bytes) /\ n \in Nat \ {0} /\ l[n] = LF
      /\ \A i \in 1..n : l[i] = LF => i = n
  BY LineIs, Zenon
<1>2. DOMAIN w = 1..(n + Len(rest)) /\ Len(rest) \in Nat /\ \A i \in 1..n : w[i] = l[i]
  BY <1>1 DEF StartsWith
<1>. HIDE DEF n
<1>3. n \in ends
  <2>1. n \in 1..(n + Len(rest)) /\ n \in 1..n
    BY <1>1, <1>2
  <2>. QED
    BY <1>1, <1>2, <2>1, Zenon
<1>4. ends \subseteq Nat
  BY <1>2
<1>5. ASSUME NEW j \in ends
      PROVE  n <= j
  <2>1. CASE j \in 1..n
    <3>1. j = n
      BY <1>1, <1>2, <2>1, Zenon
    <3>. QED
      BY <1>1, <3>1
  <2>2. CASE j \notin 1..n
    BY <1>1, <1>2, <2>2
  <2>. QED
    BY <2>1, <2>2, Zenon
<1>6. ends # {} /\ LineEnd(w) = CHOOSE i \in ends : \A j \in ends : i <= j
  BY <1>3, Zenon DEF LineEnd
<1>. HIDE DEF ends
<1>7. LineEnd(w) \in ends /\ \A j \in ends : LineEnd(w) <= j
  BY <1>3, <1>5, <1>6, Zenon
<1>8. LineEnd(w) <= n /\ n <= LineEnd(w) /\ LineEnd(w) \in Nat
  BY <1>3, <1>4, <1>5, <1>7, Zenon
<1>. QED
  BY <1>1, <1>8 DEF n

\* t has the places of a and then those of b.
InTurn(t, a, b) ==
    /\ Len(t) = Len(a) + Len(b)
    /\ \A i \in 1..Len(a) : t[i] = a[i]
    /\ \A i \in 1..Len(b) : t[Len(a) + i] = b[i]

LEMMA Concatenated ==
    ASSUME NEW X, NEW a \in Seq(X), NEW b \in Seq(X), NEW t, StartsWith(t, a, b)
    PROVE  t \in Seq(X) /\ InTurn(t, a, b)
BY DEF StartsWith, InTurn

LEMMA SameSequence ==
    ASSUME NEW X, NEW s \in Seq(X), NEW t \in Seq(X), Len(s) = Len(t),
           \A i \in 1..Len(s) : t[i] = s[i]
    PROVE  t = s
OBVIOUS

\* The first n bytes of a line are taken from what is on the wire: a line or
\* nothing remains of it.
Takes(w, n, l, rest, taken, cut) ==
    /\ taken \in Seq(Bytes) /\ Len(taken) = n
    /\ cut \in Seq(Bytes)
    /\ l = taken \o cut
    /\ SubSeq(w, n + 1, Len(w)) = cut \o rest
    /\ cut = <<>> <=> n = Len(l)
    /\ cut # <<>> => cut \in Line
    /\ \A i \in 1..n : taken[i] = l[i]

LEMMA TakesPart ==
    ASSUME NEW w, NEW l \in Line, NEW rest \in Seq(Bytes), StartsWith(w, l, rest),
           NEW n \in 1..Len(l)
    PROVE  \E cut : Takes(w, n, l, rest, SubSeq(w, 1, n), cut)
<1>1. PICK m, q, taken, cut, left :
        /\ m = Len(l) /\ q = Len(rest) /\ taken = SubSeq(w, 1, n)
        /\ cut = SubSeq(l, n + 1, m) /\ left = SubSeq(w, n + 1, Len(w))
  BY Zenon
<1>2. /\ l \in Seq(Bytes) /\ m \in Nat \ {0} /\ l[m] = LF
      /\ \A i \in 1..m : l[i] = LF => i = m
  BY <1>1, LineIs, Zenon
<1>3. /\ q \in Nat /\ n \in Nat /\ n <= m /\ w \in Seq(Bytes) /\ Len(w) = m + q
      /\ \A i \in 1..m : w[i] = l[i]
      /\ \A i \in 1..q : w[m + i] = rest[i]
  BY <1>1, <1>2 DEF StartsWith
<1>4. taken \in Seq(Bytes) /\ Len(taken) = n /\ \A i \in 1..n : taken[i] = l[i]
  BY <1>1, <1>3, SMTT(30)
<1>5. cut \in Seq(Bytes) /\ Len(cut) = m - n /\ \A i \in 1..(m - n) : cut[i] = l[n + i]
  BY <1>1, <1>2, <1>3, SMTT(30)
<1>6. left \in Seq(Bytes) /\ Len(left) = (m + q) - n
      /\ \A i \in 1..((m + q) - n) : left[i] = w[n + i]
  BY <1>1, <1>3
<1>7. l = taken \o cut
  <2>1. PICK t : StartsWith(t, taken, cut)
    BY Zenon DEF StartsWith
  <2>0. t \in Seq(Bytes) /\ InTurn(t, taken, cut)
    <3>1. taken \in Seq(Bytes) /\ cut \in Seq(Bytes)
      BY <1>4, <1>5, Zenon
    <3>. QED
      BY <2>1, <3>1, Concatenated, Zenon
  <2>2. /\ t \in Seq(Bytes) /\ Len(t) = n + (m - n)
        /\ \A i \in 1..n : t[i] = taken[i]
        /\ \A i \in 1..(m - n) : t[n + i] = cut[i]
    BY <1>4, <1>5, <2>0, Zenon DEF InTurn
  <2>3. ASSUME NEW i \in 1..m
        PROVE  t[i] = l[i]
    <3>1. CASE i \in 1..n
      BY <1>4, <2>2, <3>1, Zenon
    <3>2. CASE i \notin 1..n
      <4>1. i - n \in 1..(m - n) /\ n + (i - n) = i
        BY <1>2, <1>3, <3>2
      <4>. QED
        BY <1>5, <2>2, <4>1, ZenonT(40)
    <3>. QED
      BY <3>1, <3>2, Zenon
  <2>4. Len(t) = m
    BY <1>2, <1>3, <2>2
  <2>5. t = l
    <3>1. l \in Seq(Bytes) /\ Len(l) = m /\ t \in Seq(Bytes)
      BY <1>1, <1>2, <2>2, Zenon
    <3>. QED
      BY <2>3, <2>4, <3>1, SameSequence, Zenon
  <2>. QED
    BY <2>1, <2>5, Zenon DEF StartsWith
<1>8. left = cut \o rest
  <2>1. PICK t : StartsWith(t, cut, rest)
    BY Zenon DEF StartsWith
  <2>0. t \in Seq(Bytes) /\ InTurn(t, cut, rest)
    <3>1. cut \in Seq(Bytes)
      BY <1>5, Zenon
    <3>. QED
      BY <2>1, <3>1, Concatenated, Zenon
  <2>2. /\ t \in Seq(Bytes) /\ Len(t) = (m - n) + q
        /\ \A i \in 1..(m - n) : t[i] = cut[i]
        /\ \A i \in 1..q : t[(m - n) + i] = rest[i]
    BY <1>1, <1>5, <2>0, Zenon DEF InTurn
  <2>3. ASSUME NEW i \in 1..((m + q) - n)
        PROVE  t[i] = left[i]
    <3>1. CASE i \in 1..(m - n)
      <4>1. n + i \in 1..m
        BY <1>2, <1>3, <3>1
      <4>. QED
        BY <1>3, <1>5, <1>6, <2>2, <3>1, <4>1, ZenonT(40)
    <3>2. CASE i \notin 1..(m - n)
      <4>1. i - (m - n) \in 1..q /\ (m - n) + (i - (m - n)) = i /\ m + (i - (m - n)) = n + i
        BY <1>2, <1>3, <3>2
      <4>2. t[(m - n) + (i - (m - n))] = rest[i - (m - n)]
        BY <2>2, <4>1, Zenon
      <4>3. w[m + (i - (m - n))] = rest[i - (m - n)]
        BY <1>3, <4>1, Zenon
      <4>. QED
        BY <1>6, <4>1, <4>2, <4>3, Zenon
    <3>. QED
      BY <3>1, <3>2, Zenon
  <2>4. Len(t) = (m + q) - n
    BY <1>2, <1>3, <2>2
  <2>5. t = left
    <3>1. left \in Seq(Bytes) /\ Len(left) = (m + q) - n /\ t \in Seq(Bytes)
      BY <1>6, <2>2, Zenon
    <3>. QED
      BY <2>3, <2>4, <3>1, SameSequence, Zenon
  <2>. QED
    BY <2>1, <2>5, Zenon DEF StartsWith
<1>9. cut = <<>> <=> n = m
  BY <1>2, <1>3, <1>5
<1>10. ASSUME cut # <<>> PROVE cut \in Line
  <2>1. m - n \in Nat /\ m - n >= 1
    BY <1>2, <1>3, <1>9, <1>10
  <2>2. ASSUME NEW i \in 1..(m - n)
        PROVE  cut[i] = LF <=> i = m - n
    <3>1. n + i \in 1..m /\ (n + i = m <=> i = m - n)
      BY <1>2, <1>3
    <3>. QED
      BY <1>2, <1>5, <3>1, Zenon
  <2>3. DOMAIN cut = 1..(m - n)
    BY <1>5, <2>1
  <2>. QED
    BY <1>5, <1>10, <2>2, <2>3, Zenon DEF Line
<1>. QED
  BY <1>1, <1>4, <1>5, <1>7, <1>8, <1>9, <1>10, Zenon DEF Takes

\* A fragment is the line, or as much of it as the buffer holds.
LEMMA FragmentIs ==
    ASSUME NEW l \in Line, NEW rest \in Seq(Bytes), StartsWith(wire, l, rest)
    PROVE  \E n, cut :
              /\ n \in 1..Len(l)
              /\ Takes(wire, n, l, rest, Fragment, cut)
              /\ lineComplete <=> cut = <<>>
              /\ Len(l) >= 2 => n >= 2
<1>1. LineEnd(wire) = Len(l) /\ Len(l) \in Nat \ {0}
  BY LineEndIs, LineIs, Zenon
<1>2. PICK n : n = IF lineComplete THEN LineEnd(wire) ELSE BufferSize
  BY Zenon
<1>3. /\ n \in 1..Len(l) /\ (lineComplete <=> n = Len(l)) /\ (Len(l) >= 2 => n >= 2)
  BY <1>1, <1>2, DataAssumption DEF lineComplete
<1>4. Fragment = SubSeq(wire, 1, n)
  BY <1>2, Zenon DEF Fragment
<1>5. PICK cut : Takes(wire, n, l, rest, SubSeq(wire, 1, n), cut)
  BY <1>3, TakesPart, Zenon
<1>6. cut = <<>> <=> n = Len(l)
  BY <1>5, Zenon DEF Takes
<1>. QED
  BY <1>3, <1>4, <1>5, <1>6, Zenon

LEMMA TailOfConcat ==
    ASSUME NEW X, NEW a \in Seq(X), NEW b \in Seq(X), a # <<>>
    PROVE  Tail(a) \in Seq(X) /\ StartsWith(Tail(a \o b), Tail(a), b)
BY DEF StartsWith

\* The start of a stuffed line is not the terminator, and the dot is removed.
LEMMA LineStarts ==
    ASSUME NEW h \in Line, NEW l, l = Stuffed(h), NEW n \in 1..Len(l), NEW w, NEW rest,
           NEW taken, NEW cut, Takes(w, n, l, rest, taken, cut), Len(l) >= 2 => n >= 2,
           firstFragment
    PROVE  /\ ~isSMTPDataTerminator(taken)
           /\ Unstuffed(taken) \in Seq(Bytes)
           /\ StartsWith(h, Unstuffed(taken), cut)
<1>1. /\ l \in Line
      /\ l[1] = Dot => l = <<Dot>> \o h /\ Len(l) >= 2 /\ l[2] = Dot
      /\ l[1] # Dot => l = h
  BY StuffedIs, Zenon
<1>2. /\ taken \in Seq(Bytes) /\ Len(taken) = n /\ cut \in Seq(Bytes) /\ l = taken \o cut
      /\ \A i \in 1..n : taken[i] = l[i]
  BY Zenon DEF Takes
<1>3. 1 \in 1..n /\ taken[1] = l[1]
  <2>1. 1 \in 1..n
    BY <1>1, LineIs
  <2>. QED
    BY <1>2, <2>1, Zenon
<1>4. CASE l[1] # Dot
  <2>1. ~isSMTPDataTerminator(taken)
    BY <1>3, <1>4 DEF isSMTPDataTerminator
  <2>2. Unstuffed(taken) = taken
    BY <1>3, <1>4, Zenon DEF Unstuffed
  <2>. QED
    BY <1>1, <1>2, <1>4, <2>1, <2>2, Zenon DEF StartsWith
<1>5. CASE l[1] = Dot
  <2>1. n >= 2 /\ 2 \in 1..n
    BY <1>1, <1>5
  <2>2. taken[2] = Dot
    BY <1>1, <1>2, <1>5, <2>1, Zenon
  <2>3. ~isSMTPDataTerminator(taken)
    BY <2>2 DEF isSMTPDataTerminator, Dot, CR, LF
  <2>4. Unstuffed(taken) = Tail(taken)
    BY <1>2, <1>3, <1>5, <2>1, <2>2, Zenon DEF Unstuffed
  <2>5. Tail(taken) \in Seq(Bytes) /\ StartsWith(Tail(taken \o cut), Tail(taken), cut)
    <3>1. taken # <<>>
      BY <1>2, <2>1
    <3>. QED
      BY <1>2, <3>1, TailOfConcat, Zenon
  <2>6. Tail(<<Dot>> \o h) = h
    <3>1. h \in Seq(Bytes)
      BY LineIs, Zenon
    <3>. QED
      BY <3>1
  <2>7. StartsWith(h, Tail(taken), cut)
    BY <1>1, <1>2, <1>5, <2>5, <2>6, Zenon
  <2>. QED
    BY <2>3, <2>4, <2>5, <2>7, Zenon
<1>. QED
  BY <1>4, <1>5, Zenon

\* What is on the wire: the rest of a line, if the server is within one, and
\* the lines that follow.
OnWire(part, lines) ==
    /\ lines \in Seq(Line)
    /\ part \in Seq(Bytes) /\ (part # <<>> => part \in Line)
    /\ firstFragment <=> part = <<>>
    /\ StartsWith(wire, part, Encoded(lines))

LEMMA OnlyTerminator ==
    ASSUME OnWire(<<>>, <<>>)
    PROVE  AtTerminator /\ SubSeq(wire, Len(Fragment) + 1, Len(wire)) = <<>>
<1>1. <<>> \o Terminator = Terminator
  BY DEF Terminator
<1>2. wire = Terminator /\ firstFragment
  BY <1>1, EncodedOfNone, Zenon DEF OnWire, StartsWith
<1>3. Terminator \in Line
  BY SMTT(30) DEF Terminator, Line, Bytes, Dot, CR, LF
<1>4. StartsWith(wire, Terminator, <<>>) /\ <<>> \in Seq(Bytes)
  BY <1>2 DEF StartsWith, Terminator
<1>5. LineEnd(wire) = Len(Terminator)
  BY <1>3, <1>4, LineEndIs, Zenon
<1>6. Len(Terminator) = 3 /\ 3 \in 1..BufferSize
  BY DataAssumption DEF Terminator
<1>7. lineComplete /\ Fragment = SubSeq(wire, 1, 3)
  BY <1>5, <1>6, Zenon DEF lineComplete, Fragment
<1>8. SubSeq(Terminator, 1, 3) = Terminator /\ SubSeq(Terminator, 3 + 1, 3) = <<>>
  <2>1. \A s \in Seq(Bytes) : SubSeq(s, 1, Len(s)) = s /\ SubSeq(s, Len(s) + 1, Len(s)) = <<>>
    OBVIOUS
  <2>2. Terminator \in Seq(Bytes)
    BY <1>3, LineIs, Zenon
  <2>. QED
    BY <1>6, <2>1, <2>2, Zenon
<1>. QED
  BY <1>2, <1>6, <1>7, <1>8, Zenon DEF AtTerminator, isSMTPDataTerminator, Terminator

\* One fragment more is read: what it adds, what remains of its line, and the
\* lines that follow.
Reads(part, lines, cut, following) ==
    /\ following \in Seq(Line)
    /\ cut \in Seq(Bytes) /\ (cut # <<>> => cut \in Line)
    /\ lineComplete <=> cut = <<>>
    /\ StartsWith(SubSeq(wire, Len(Fragment) + 1, Len(wire)), cut, Encoded(following))
    /\ Unstuffed(Fragment) \in Seq(Bytes)
    /\ StartsWith(part \o Flat(lines), Unstuffed(Fragment), cut \o Flat(following))
    /\ ~AtTerminator

LEMMA WithinLine ==
    ASSUME NEW part, NEW lines, OnWire(part, lines), part # <<>>
    PROVE  \E cut : Reads(part, lines, cut, lines)
<1>1. /\ lines \in Seq(Line) /\ part \in Line /\ ~firstFragment
      /\ StartsWith(wire, part, Encoded(lines))
  BY Zenon DEF OnWire
<1>2. Encoded(lines) \in Seq(Bytes) /\ Flat(lines) \in Seq(Bytes)
  BY <1>1, TextType, Zenon
<1>3. PICK n, cut :
        /\ n \in 1..Len(part)
        /\ Takes(wire, n, part, Encoded(lines), Fragment, cut)
        /\ lineComplete <=> cut = <<>>
  BY <1>1, <1>2, FragmentIs, Zenon
<1>4. /\ Fragment \in Seq(Bytes) /\ Len(Fragment) = n /\ cut \in Seq(Bytes)
      /\ part = Fragment \o cut
      /\ SubSeq(wire, n + 1, Len(wire)) = cut \o Encoded(lines)
      /\ cut # <<>> => cut \in Line
  BY <1>3, Zenon DEF Takes
<1>5. Unstuffed(Fragment) = Fragment /\ ~AtTerminator
  BY <1>1, Zenon DEF Unstuffed, AtTerminator
<1>6. Associate(Fragment, cut, Flat(lines))
  BY <1>2, <1>4, AlwaysAssociate, Zenon
<1>7. StartsWith(part \o Flat(lines), Unstuffed(Fragment), cut \o Flat(lines))
  BY <1>4, <1>5, <1>6, Zenon DEF StartsWith, Associate
<1>. QED
  BY <1>1, <1>3, <1>4, <1>5, <1>7, Zenon DEF Reads, StartsWith

LEMMA NewLine ==
    ASSUME NEW lines, OnWire(<<>>, lines), lines # <<>>
    PROVE  \E cut : Reads(<<>>, lines, cut, Tail(lines))
<1>1. PICK h, following, l : h = Head(lines) /\ following = Tail(lines) /\ l = Stuffed(h)
  BY Zenon
<1>2. /\ lines \in Seq(Line) /\ firstFragment /\ StartsWith(wire, <<>>, Encoded(lines))
  BY Zenon DEF OnWire
<1>3. /\ h \in Line /\ following \in Seq(Line)
      /\ StartsWith(Flat(lines), h, Flat(following))
      /\ StartsWith(Encoded(lines), l, Encoded(following))
  BY <1>1, <1>2, TextOfMore, Zenon
<1>4. /\ Encoded(lines) \in Seq(Bytes) /\ Encoded(following) \in Seq(Bytes)
      /\ Flat(following) \in Seq(Bytes) /\ Flat(lines) \in Seq(Bytes)
  BY <1>2, <1>3, TextType, Zenon
<1>5. \A s \in Seq(Bytes) : <<>> \o s = s
  OBVIOUS
<1>6. l \in Line /\ StartsWith(wire, l, Encoded(following))
  <2>1. l \in Line
    BY <1>1, <1>3, StuffedIs, Zenon
  <2>. QED
    BY <1>2, <1>3, <1>4, <1>5, <2>1, Zenon DEF StartsWith
<1>7. PICK n, cut :
        /\ n \in 1..Len(l)
        /\ Takes(wire, n, l, Encoded(following), Fragment, cut)
        /\ lineComplete <=> cut = <<>>
        /\ Len(l) >= 2 => n >= 2
  BY <1>4, <1>6, FragmentIs, Zenon
<1>8. /\ Fragment \in Seq(Bytes) /\ Len(Fragment) = n /\ cut \in Seq(Bytes)
      /\ SubSeq(wire, n + 1, Len(wire)) = cut \o Encoded(following)
      /\ cut # <<>> => cut \in Line
  BY <1>7, Zenon DEF Takes
<1>9. /\ ~isSMTPDataTerminator(Fragment)
      /\ Unstuffed(Fragment) \in Seq(Bytes)
      /\ StartsWith(h, Unstuffed(Fragment), cut)
  BY <1>1, <1>2, <1>3, <1>7, LineStarts, Zenon
<1>10. ~AtTerminator
  BY <1>9, Zenon DEF AtTerminator
<1>11. Associate(Unstuffed(Fragment), cut, Flat(following))
  BY <1>4, <1>8, <1>9, AlwaysAssociate, Zenon
<1>12. StartsWith(<<>> \o Flat(lines), Unstuffed(Fragment), cut \o Flat(following))
  BY <1>3, <1>4, <1>5, <1>9, <1>11, Zenon DEF StartsWith, Associate
<1>. QED
  BY <1>1, <1>3, <1>7, <1>8, <1>9, <1>10, <1>12, Zenon DEF Reads, StartsWith

\* What has been read and what is on the wire make the text, unless it has
\* turned out too large.
Reading(text) ==
    /\ tooLarge \in BOOLEAN /\ firstFragment \in BOOLEAN
    /\ data \in Seq(Bytes) /\ Len(data) <= MaxMessageBytes
    /\ tooLarge => Len(text) > MaxMessageBytes
    /\ \E part, lines :
          /\ OnWire(part, lines)
          /\ ~tooLarge => StartsWith(text, data, part \o Flat(lines))

LEMMA ReadKeeps ==
    ASSUME NEW text, Reading(text), ReadFragment
    PROVE  Reading(text)'
<1>1. PICK part, lines : /\ OnWire(part, lines)
                         /\ ~tooLarge => StartsWith(text, data, part \o Flat(lines))
  BY Zenon DEF Reading
<1>2. PICK cut, following : Reads(part, lines, cut, following)
  <2>1. CASE part # <<>>
    BY <1>1, <2>1, WithinLine, Zenon
  <2>2. CASE part = <<>> /\ lines # <<>>
    BY <1>1, <2>2, NewLine, Zenon
  <2>3. CASE part = <<>> /\ lines = <<>>
    <3>1. AtTerminator
      BY <1>1, <2>3, OnlyTerminator, Zenon
    <3>. QED
      BY <3>1, Zenon DEF ReadFragment
  <2>. QED
    BY <2>1, <2>2, <2>3, Zenon
<1>3. PICK u, rest : u = Unstuffed(Fragment) /\ rest = cut \o Flat(following)
  BY Zenon
<1>4. /\ following \in Seq(Line) /\ cut \in Seq(Bytes) /\ u \in Seq(Bytes)
      /\ StartsWith(part \o Flat(lines), u, rest)
  BY <1>2, <1>3, Zenon DEF Reads
<1>5. rest \in Seq(Bytes)
  <2>1. Flat(following) \in Seq(Bytes)
    BY <1>4, TextType, Zenon
  <2>. QED
    BY <1>3, <1>4, <2>1
<1>6. /\ wire' = SubSeq(wire, Len(Fragment) + 1, Len(wire))
      /\ firstFragment' = lineComplete
      /\ tooLarge' = (tooLarge \/ Len(data) + Len(u) > MaxMessageBytes)
      /\ data' = IF tooLarge \/ Len(data) + Len(u) > MaxMessageBytes THEN data ELSE data \o u
  BY <1>3, Zenon DEF ReadFragment
<1>7. OnWire(cut, following)'
  BY <1>2, <1>6, Zenon DEF Reads, OnWire
<1>8. data \in Seq(Bytes) /\ Len(data) <= MaxMessageBytes /\ tooLarge \in BOOLEAN
  BY Zenon DEF Reading
<1>9. ASSUME ~tooLarge
      PROVE  /\ StartsWith(text, data \o u, rest)
             /\ Len(text) = (Len(data) + Len(u)) + Len(rest)
  <2>1. text = data \o (u \o rest)
    BY <1>1, <1>4, <1>9, Zenon DEF StartsWith
  <2>2. Associate(data, u, rest)
    BY <1>4, <1>5, <1>8, AlwaysAssociate, Zenon
  <2>3. StartsWith(text, data \o u, rest)
    BY <2>1, <2>2, Zenon DEF StartsWith, Associate
  <2>4. Len(data \o u) = Len(data) + Len(u) /\ data \o u \in Seq(Bytes)
    BY <1>4, <1>8
  <2>5. Len(text) = Len(data \o u) + Len(rest)
    BY <1>5, <2>3, <2>4, Concatenated, ZenonT(40) DEF InTurn
  <2>. QED
    BY <2>3, <2>4, <2>5, Zenon
<1>10. /\ tooLarge' \in BOOLEAN /\ firstFragment' \in BOOLEAN
  <2>1. lineComplete \in BOOLEAN
    BY DEF lineComplete
  <2>. QED
    BY <1>6, <1>8, <2>1, Zenon
<1>11. CASE tooLarge \/ Len(data) + Len(u) > MaxMessageBytes
  <2>1. tooLarge' /\ data' = data
    BY <1>6, <1>11, Zenon
  <2>2. Len(text) > MaxMessageBytes
    <3>1. CASE tooLarge
      BY <3>1, Zenon DEF Reading
    <3>2. CASE ~tooLarge
      <4>1. Len(data) \in Nat /\ Len(u) \in Nat /\ Len(rest) \in Nat
        BY <1>4, <1>5, <1>8
      <4>. QED
        BY <1>9, <1>11, <3>2, <4>1, DataAssumption
    <3>. QED
      BY <3>1, <3>2, Zenon
  <2>. QED
    BY <1>7, <1>8, <1>10, <2>1, <2>2, Zenon DEF Reading
<1>12. CASE ~(tooLarge \/ Len(data) + Len(u) > MaxMessageBytes)
  <2>1. ~tooLarge' /\ ~tooLarge /\ data' = data \o u
    BY <1>6, <1>12, Zenon
  <2>2. data' \in Seq(Bytes) /\ Len(data') <= MaxMessageBytes
    <3>1. Len(data) \in Nat /\ Len(u) \in Nat /\ Len(data \o u) = Len(data) + Len(u)
          /\ data \o u \in Seq(Bytes)
      BY <1>4, <1>8
    <3>. QED
      BY <1>12, <2>1, <3>1, DataAssumption
  <2>3. StartsWith(text, data', cut \o Flat(following))
    BY <1>3, <1>9, <2>1, Zenon
  <2>. QED
    BY <1>7, <1>10, <2>1, <2>2, <2>3, Zenon DEF Reading
<1>. QED
  BY <1>11, <1>12, Zenon

\* When the terminator comes, all of the text has been read.
LEMMA ReadingEnds ==
    ASSUME NEW text, Reading(text), AtTerminator
    PROVE  /\ SubSeq(wire, Len(Fragment) + 1, Len(wire)) = <<>>
           /\ tooLarge <=> Len(text) > MaxMessageBytes
           /\ ~tooLarge => data = text
<1>1. PICK part, lines : /\ OnWire(part, lines)
                         /\ ~tooLarge => StartsWith(text, data, part \o Flat(lines))
  BY Zenon DEF Reading
<1>2. part = <<>> /\ lines = <<>>
  <2>1. CASE part # <<>>
    BY <1>1, <2>1, WithinLine, Zenon DEF Reads
  <2>2. CASE part = <<>> /\ lines # <<>>
    BY <1>1, <2>2, NewLine, Zenon DEF Reads
  <2>. QED
    BY <2>1, <2>2, Zenon
<1>3. SubSeq(wire, Len(Fragment) + 1, Len(wire)) = <<>>
  BY <1>1, <1>2, OnlyTerminator, Zenon
<1>4. ASSUME ~tooLarge PROVE data = text
  <2>1. data \in Seq(Bytes)
    BY Zenon DEF Reading
  <2>2. <<>> \o <<>> = <<>> /\ data \o <<>> = data
    BY <2>1
  <2>. QED
    BY <1>1, <1>2, <1>4, <2>2, FlatOfNone, Zenon DEF StartsWith
<1>5. tooLarge => Len(text) > MaxMessageBytes
  BY Zenon DEF Reading
<1>6. ASSUME ~tooLarge PROVE ~(Len(text) > MaxMessageBytes)
  <2>1. data = text /\ Len(data) <= MaxMessageBytes /\ Len(data) \in Nat
    BY <1>4, <1>6 DEF Reading
  <2>. QED
    BY <2>1, DataAssumption
<1>. QED
  BY <1>3, <1>4, <1>5, <1>6, Zenon

\* A text that is sent is there to be read.
LEMMA ReadingStarts ==
    ASSUME NEW lines \in Seq(Line), StartReading(Encoded(lines))
    PROVE  Reading(Flat(lines))'
<1>1. /\ wire' = Encoded(lines) /\ data' = <<>> /\ tooLarge' = FALSE
      /\ firstFragment' = TRUE
  BY Zenon DEF StartReading
<1>2. Encoded(lines) \in Seq(Bytes) /\ Flat(lines) \in Seq(Bytes)
  BY TextType, Zenon
<1>3. /\ \A s \in Seq(Bytes) : <<>> \o s = s
      /\ <<>> \in Seq(Bytes) /\ Len(<<>>) <= MaxMessageBytes
  BY DataAssumption
<1>4. OnWire(<<>>, lines)'
  BY <1>1, <1>2, <1>3, Zenon DEF OnWire, StartsWith
<1>5. StartsWith(Flat(lines), data', <<>> \o Flat(lines))
  BY <1>1, <1>2, <1>3, Zenon DEF StartsWith
<1>. QED
  BY <1>1, <1>3, <1>4, <1>5, Zenon DEF Reading

-----------------------------------------------------------------------------
(* The message that was sent is the message that is relayed *)

Messages == [lines : Texts, domains : {1, 2}, ownFrom : BOOLEAN]

Underway == \E text : text = Text /\ Reading(text)

\* While handleData reads, what it has and what it has not read make the text.
DataInv ==
    /\ message \in Messages
    /\ at = "reading" => Underway
    /\ DataRoundTrips

LEMMA DataInvInit == Init => DataInv
BY Zenon DEF Init, DataInv, Messages, DataRoundTrips

LEMMA ReadingStays ==
    ASSUME NEW text, Reading(text), UNCHANGED dataVars
    PROVE  Reading(text)'
<1>1. wire' = wire /\ data' = data /\ tooLarge' = tooLarge /\ firstFragment' = firstFragment
  BY Zenon DEF dataVars
<1>2. ASSUME NEW part, NEW lines, OnWire(part, lines) PROVE OnWire(part, lines)'
  BY <1>1, <1>2, Zenon DEF OnWire
<1>. QED
  BY <1>1, <1>2, Zenon DEF Reading

LEMMA DataInvNext == DataInv /\ [Next]_vars => DataInv'
<1>. SUFFICES ASSUME DataInv, [Next]_vars
              PROVE  DataInv'
  BY Zenon
<1>1. message' = message
  BY Zenon DEF Next, Work, Disturb, Submit, Read, ReadEnds, DataTooLarge,
       SenderNotAuthorized, BeginRelay, Lookup, TargetAccepts, TargetRefuses,
       TargetsExhausted, Throttled, LookupFails, TargetAcceptsUnheard, TargetFails,
       Disconnect, vars
<1>2. message' \in Messages /\ Text' = Text
  BY <1>1, Zenon DEF DataInv, Text
<1>3. CASE Submit
  <2>1. PICK lines : lines = message.lines
    BY Zenon
  <2>2. lines \in Seq(Line)
    BY <2>1, TextsAssumption, Zenon DEF DataInv, Messages
  <2>3. Reading(Flat(lines))'
    BY <1>3, <2>1, <2>2, ReadingStarts, Zenon DEF Submit
  <2>4. Underway'
    BY <1>2, <2>1, <2>3, Zenon DEF Underway, Text
  <2>5. at' = "reading"
    BY <1>3, Zenon DEF Submit
  <2>6. DataRoundTrips'
    BY <2>5 DEF DataRoundTrips
  <2>. QED
    BY <1>2, <2>4, <2>6, Zenon DEF DataInv
<1>4. CASE Read
  <2>1. PICK text : text = Text /\ Reading(text)
    BY <1>4, Zenon DEF DataInv, Read, Underway
  <2>2. Reading(text)'
    BY <1>4, <2>1, ReadKeeps, Zenon DEF Read
  <2>3. Underway' /\ at' = "reading"
    BY <1>2, <1>4, <2>1, <2>2, Zenon DEF Underway, Read
  <2>4. DataRoundTrips'
    BY <2>3 DEF DataRoundTrips
  <2>. QED
    BY <1>2, <2>3, <2>4, Zenon DEF DataInv
<1>5. CASE ReadEnds
  <2>1. PICK text : text = Text /\ Reading(text)
    BY <1>5, Zenon DEF DataInv, ReadEnds, Underway
  <2>2. /\ SubSeq(wire, Len(Fragment) + 1, Len(wire)) = <<>>
        /\ tooLarge <=> Len(text) > MaxMessageBytes
        /\ ~tooLarge => data = text
    BY <1>5, <2>1, ReadingEnds, Zenon DEF ReadEnds
  <2>3. wire' = <<>> /\ tooLarge' = tooLarge /\ data' = data /\ at' = "read"
    BY <1>5, <2>2, Zenon DEF ReadEnds
  <2>4. DataRoundTrips'
    BY <1>2, <2>1, <2>2, <2>3, Zenon DEF DataRoundTrips
  <2>5. at' # "reading"
    BY <2>3
  <2>. QED
    BY <1>2, <2>4, <2>5, Zenon DEF DataInv
<1>6. ASSUME at' \notin {"reading", "read"} PROVE DataInv'
  BY <1>2, <1>6, Zenon DEF DataInv, DataRoundTrips
<1>7. CASE \/ DataTooLarge \/ SenderNotAuthorized \/ BeginRelay
           \/ \E found \in Found : Lookup(found)
           \/ TargetAccepts \/ TargetRefuses \/ TargetsExhausted
           \/ Throttled \/ LookupFails \/ TargetAcceptsUnheard \/ Disconnect
  <2>1. at' \in {"idle", "lookup", "try"}
    BY <1>7, Zenon DEF DataTooLarge, SenderNotAuthorized, BeginRelay, Lookup, TargetAccepts,
         TargetRefuses, TargetsExhausted, Throttled, LookupFails, TargetAcceptsUnheard,
         Disconnect, Answer, TryAgain, Return
  <2>2. at' \notin {"reading", "read"}
    BY <2>1
  <2>. QED
    BY <1>6, <2>2, Zenon
<1>8. CASE \E taken \in BOOLEAN : TargetFails(taken)
  <2>1. at' = "try"
    BY <1>8, Zenon DEF TargetFails
  <2>2. at' \notin {"reading", "read"}
    BY <2>1
  <2>. QED
    BY <1>6, <2>2, Zenon
<1>9. CASE UNCHANGED vars
  <2>1. UNCHANGED dataVars /\ at' = at
    BY <1>9, Zenon DEF vars
  <2>2. at' = "reading" => Underway'
    BY <1>2, <2>1, ReadingStays, Zenon DEF DataInv, Underway
  <2>3. DataRoundTrips'
    BY <1>2, <2>1, Zenon DEF DataInv, DataRoundTrips, dataVars
  <2>. QED
    BY <1>2, <2>2, <2>3, Zenon DEF DataInv
<1>. QED
  BY <1>3, <1>4, <1>5, <1>7, <1>8, <1>9, Zenon DEF Next, Work, Disturb

\* What readData (internal/smtpsubmission/server.go) has read when it meets the
\* terminator is the client's text, to the byte, for every text of lines and
\* every buffer that holds the terminator; a text is refused as too large
\* exactly when it is longer than the limit, and nothing is left unread.
THEOREM AlwaysDataRoundTrips == Spec => []DataRoundTrips
<1>1. DataInv => DataRoundTrips
  BY Zenon DEF DataInv
<1>. QED
  BY DataInvInit, DataInvNext, <1>1, PTL DEF Spec

-----------------------------------------------------------------------------
(* Answers and copies *)

\* Until it is answered, a message has one copy for every failure at most.
AnswerInv ==
    /\ copies \in Nat /\ faults \in Nat
    /\ at # "idle" => answer = "none"
    /\ DeliveredAsAnswered

LEMMA AnswerInvInit == Init => AnswerInv
BY DEF Init, AnswerInv, DeliveredAsAnswered

LEMMA AnswerInvNext == AnswerInv /\ [Next]_vars => AnswerInv'
<1>. SUFFICES ASSUME AnswerInv, [Next]_vars
              PROVE  AnswerInv'
  BY Zenon
<1>1. /\ copies \in Nat /\ faults \in Nat
      /\ at # "idle" => answer = "none"
      /\ answer = "none" => copies <= faults
  BY DEF AnswerInv, DeliveredAsAnswered
<1>3. CASE Submit /\ UNCHANGED faults
  <2>1. answer = "none" /\ answer' = answer /\ copies' = copies /\ faults' = faults
    BY <1>3, Zenon DEF Submit
  <2>. QED
    BY <1>1, <2>1 DEF AnswerInv, DeliveredAsAnswered
<1>4. CASE (Read \/ ReadEnds \/ \E found \in Found : Lookup(found)) /\ UNCHANGED faults
  <2>1. /\ answer = "none" /\ copies' = copies /\ faults' = faults
        /\ answer' \in {"none", "rejected"}
        /\ at' # "idle" => answer' = "none"
    <3>1. at \in {"reading", "lookup"} /\ copies' = copies /\ faults' = faults
      BY <1>4, Zenon DEF Read, ReadEnds, Lookup
    <3>2. answer = "none"
      BY <1>1, <3>1
    <3>. QED
      BY <1>4, <3>1, <3>2, Zenon DEF Read, ReadEnds, Lookup, Answer, Return
  <2>. QED
    BY <1>1, <2>1 DEF AnswerInv, DeliveredAsAnswered
<1>5. CASE (DataTooLarge \/ SenderNotAuthorized \/ BeginRelay \/ TargetRefuses
             \/ TargetsExhausted) /\ UNCHANGED faults
  <2>1. at \in {"read", "try"} /\ copies' = copies /\ faults' = faults
    BY <1>5, Zenon DEF DataTooLarge, SenderNotAuthorized, BeginRelay, Authorized,
         TargetRefuses, TargetsExhausted
  <2>2. answer = "none"
    BY <1>1, <2>1
  <2>3. /\ answer' \in {"none", "rejected"}
        /\ at' # "idle" => answer' = "none"
    BY <1>5, <2>2, Zenon DEF DataTooLarge, SenderNotAuthorized, BeginRelay, TargetRefuses,
         TargetsExhausted, Answer, TryAgain, Return
  <2>. QED
    BY <1>1, <2>1, <2>2, <2>3 DEF AnswerInv, DeliveredAsAnswered
<1>6. CASE TargetAccepts /\ UNCHANGED faults
  <2>1. /\ at = "try" /\ copies' = copies + 1 /\ faults' = faults
        /\ answer' = "accepted" /\ at' = "idle"
    BY <1>6, Zenon DEF TargetAccepts, Taken, Answer, Return
  <2>. QED
    BY <1>1, <2>1 DEF AnswerInv, DeliveredAsAnswered
<1>7. CASE Disturb /\ faults' = faults + 1
  <2>1. at # "idle" /\ answer' = answer
    <3>1. at \in {"read", "lookup", "try"} \/ Disconnect
      BY <1>7, Zenon DEF Disturb, Throttled, Authorized, LookupFails, TargetAcceptsUnheard,
           TargetFails
    <3>2. at # "idle"
      BY <3>1 DEF Disconnect
    <3>. QED
      BY <1>7, <3>2, Zenon DEF Disturb, Throttled, LookupFails, TargetAcceptsUnheard,
           TargetFails, Disconnect, TryAgain
  <2>2. copies' = copies \/ copies' = copies + 1
    BY <1>7, Zenon DEF Disturb, Throttled, LookupFails, TargetAcceptsUnheard, TargetFails,
         Disconnect, Taken
  <2>. QED
    BY <1>1, <1>7, <2>1, <2>2 DEF AnswerInv, DeliveredAsAnswered
<1>8. CASE UNCHANGED vars
  BY <1>8 DEF vars, AnswerInv, DeliveredAsAnswered
<1>. QED
  BY <1>3, <1>4, <1>5, <1>6, <1>7, <1>8, Zenon DEF Next, Work

\* The client has a 250 only when a mail server took the message, and there are
\* never more copies than failures and the 250 account for: what
\* relayAcceptedMessage and relayDomain (direct_relay.go) promise, however
\* often the client tries again.
THEOREM AlwaysDeliveredAsAnswered == Spec => []DeliveredAsAnswered
<1>1. AnswerInv => DeliveredAsAnswered
  BY Zenon DEF AnswerInv
<1>. QED
  BY AnswerInvInit, AnswerInvNext, <1>1, PTL DEF Spec

-----------------------------------------------------------------------------
(* The order of the mail servers *)

LEMMA RecordsHave ==
    ASSUME NEW found \in Seq(MXRecord), NEW i \in DOMAIN found
    PROVE  found[i].pref \in Nat /\ found[i].host \in Nat /\ i \in Nat
<1>1. found[i] \in MXRecord /\ i \in Nat
  OBVIOUS
<1>2. found[i].pref \in Preferences /\ found[i].host \in MailHosts \cup {Blank, NullMX}
  BY <1>1, Zenon DEF MXRecord
<1>3. Blank \in Nat /\ NullMX \in Nat
  BY DEF Blank, NullMX
<1>. QED
  BY <1>1, <1>2, <1>3, MailHostsAssumption, PreferencesAssumption, Zenon

\* By preference, then by name, then by place.
Earlier(a, i, b, j) ==
    \/ a.pref < b.pref
    \/ a.pref = b.pref /\ a.host < b.host
    \/ a.pref = b.pref /\ a.host = b.host /\ i < j

LEMMA SoonerIs ==
    ASSUME NEW found \in Seq(MXRecord), NEW i \in DOMAIN found, NEW j \in DOMAIN found
    PROVE  Sooner(found, i, j) <=> Earlier(found[i], i, found[j], j)
<1>1. /\ found[i].pref \in Nat /\ found[i].host \in Nat /\ i \in Nat
      /\ found[j].pref \in Nat /\ found[j].host \in Nat /\ j \in Nat
  BY RecordsHave, Zenon
<1>. QED
  BY <1>1, SMTT(30) DEF Sooner, Before, Earlier

LEMMA SoonerOrders ==
    ASSUME NEW found \in Seq(MXRecord), NEW i \in DOMAIN found, NEW j \in DOMAIN found
    PROVE  /\ i # j => Sooner(found, i, j) \/ Sooner(found, j, i)
           /\ Sooner(found, i, j) => found[i].pref <= found[j].pref
           /\ \A k \in DOMAIN found :
                Sooner(found, i, j) /\ Sooner(found, j, k) => Sooner(found, i, k)
<1>1. /\ found[i].pref \in Nat /\ found[i].host \in Nat /\ i \in Nat
      /\ found[j].pref \in Nat /\ found[j].host \in Nat /\ j \in Nat
  BY RecordsHave, Zenon
<1>2. i # j => Sooner(found, i, j) \/ Sooner(found, j, i)
  BY <1>1, SoonerIs, SMTT(30) DEF Earlier
<1>3. Sooner(found, i, j) => found[i].pref <= found[j].pref
  BY <1>1, SoonerIs DEF Earlier
<1>4. ASSUME NEW k \in DOMAIN found, Sooner(found, i, j), Sooner(found, j, k)
      PROVE  Sooner(found, i, k)
  <2>1. found[k].pref \in Nat /\ found[k].host \in Nat /\ k \in Nat
    BY RecordsHave, Zenon
  <2>2. PICK a, b, c : a = found[i] /\ b = found[j] /\ c = found[k]
    BY Zenon
  <2>3. Earlier(a, i, b, j) /\ Earlier(b, j, c, k)
    BY <1>4, <2>2, SoonerIs, Zenon
  <2>4. /\ a.pref \in Nat /\ b.pref \in Nat /\ c.pref \in Nat
        /\ a.host \in Nat /\ b.host \in Nat /\ c.host \in Nat
        /\ i \in Nat /\ j \in Nat /\ k \in Nat
    BY <1>1, <2>1, <2>2, Zenon
  <2>5. Earlier(a, i, c, k)
    BY <2>3, <2>4, SMTT(30) DEF Earlier
  <2>. QED
    BY <2>2, <2>5, SoonerIs, Zenon
<1>. QED
  BY <1>2, <1>3, <1>4, Zenon

\* order lists the records of found that name a host, of the first n.
Orders(found, n, m, order) ==
    /\ order \in [1..m -> {i \in 1..n : found[i].host # Blank}]
    /\ \A k, l \in 1..m : k < l => Sooner(found, order[k], order[l])
    /\ \A i \in 1..n : found[i].host # Blank => \E k \in 1..m : order[k] = i

\* The first place in order with a record that x comes before.
LEMMA PlaceFor ==
    ASSUME NEW found, NEW m \in Nat, NEW order, NEW x
    PROVE  \E q \in 1..(m + 1) :
             /\ \A k \in 1..m : k < q => ~Sooner(found, x, order[k])
             /\ q <= m => Sooner(found, x, order[q])
<1>. DEFINE S == {k \in 1..m : Sooner(found, x, order[k])}
<1>1. CASE S = {}
  <2>1. m + 1 \in 1..(m + 1) /\ ~(m + 1 <= m)
    OBVIOUS
  <2>2. \A k \in 1..m : ~Sooner(found, x, order[k])
    BY <1>1, Zenon
  <2>. QED
    BY <2>1, <2>2, Zenon
<1>2. CASE S # {}
  <2>0. S \subseteq Nat
    OBVIOUS
  <2>1. PICK q \in S : \A k \in S : ~(<<k, q>> \in OpToRel(<, Nat))
    BY <1>2, <2>0, NatLessThanWellFounded, WFMin, Zenon
  <2>2. \A k \in S : ~(k < q)
    BY <2>0, <2>1, Zenon DEF OpToRel
  <2>3. q \in 1..(m + 1) /\ Sooner(found, x, order[q])
    <3>1. q \in 1..m /\ Sooner(found, x, order[q])
      BY <2>1, Zenon
    <3>2. q \in 1..(m + 1)
      BY <3>1
    <3>. QED
      BY <3>1, <3>2, Zenon
  <2>. QED
    BY <2>2, <2>3, Zenon
<1>. QED
  BY <1>1, <1>2, Zenon

LEMMA Inserted ==
    ASSUME NEW found \in Seq(MXRecord), NEW n \in Nat, n + 1 <= Len(found),
           NEW m \in Nat, NEW order, Orders(found, n, m, order),
           found[n + 1].host # Blank
    PROVE  \E longer : Orders(found, n + 1, m + 1, longer)
<1>1. PICK x : x = n + 1
  OBVIOUS
<1>2. PICK q \in 1..(m + 1) :
        /\ \A k \in 1..m : k < q => ~Sooner(found, x, order[k])
        /\ q <= m => Sooner(found, x, order[q])
  BY PlaceFor, Zenon
<1>3. PICK longer : longer = [k \in 1..(m + 1) |->
          IF k < q THEN order[k] ELSE IF k = q THEN x ELSE order[k - 1]]
  BY Zenon
<1>4. /\ \A k \in 1..m : order[k] \in 1..n /\ found[order[k]].host # Blank
                         /\ order[k] \in DOMAIN found /\ order[k] # x
      /\ x \in DOMAIN found /\ x \in 1..(n + 1)
  BY <1>1 DEF Orders
<1>5. /\ \A k \in 1..(m + 1) : k < q => k \in 1..m /\ longer[k] = order[k]
      /\ longer[q] = x
      /\ \A k \in 1..(m + 1) : q < k => k - 1 \in 1..m /\ longer[k] = order[k - 1]
  BY <1>3
<1>6. \A k \in 1..m : /\ k < q => Sooner(found, order[k], x)
                      /\ q <= k => Sooner(found, x, order[k])
  <2>1. SUFFICES ASSUME NEW k \in 1..m
                 PROVE  /\ k < q => Sooner(found, order[k], x)
                        /\ q <= k => Sooner(found, x, order[k])
    BY Zenon
  <2>2. k < q => Sooner(found, order[k], x)
    BY <1>2, <1>4, SoonerOrders, Zenon
  <2>3. ASSUME q <= k PROVE Sooner(found, x, order[k])
    <3>1. q <= m /\ q \in 1..m /\ (q = k \/ q < k)
      BY <2>3
    <3>2. Sooner(found, x, order[q])
      BY <1>2, <3>1, Zenon
    <3>3. q < k => Sooner(found, order[q], order[k])
      BY <3>1, Zenon DEF Orders
    <3>. QED
      BY <1>4, <3>1, <3>2, <3>3, SoonerOrders, Zenon
  <2>. QED
    BY <2>2, <2>3, Zenon
<1>7. longer \in [1..(m + 1) -> {i \in 1..(n + 1) : found[i].host # Blank}]
  <2>1. ASSUME NEW k \in 1..(m + 1)
        PROVE  longer[k] \in 1..(n + 1) /\ found[longer[k]].host # Blank
    <3>1. k < q \/ k = q \/ q < k
      OBVIOUS
    <3>2. \A y \in 1..n : y \in 1..(n + 1)
      OBVIOUS
    <3>. QED
      BY <1>1, <1>4, <1>5, <3>1, <3>2, ZenonT(40)
  <2>. QED
    BY <1>3, <2>1, Zenon
<1>8. ASSUME NEW k \in 1..(m + 1), NEW l \in 1..(m + 1), k < l
      PROVE  Sooner(found, longer[k], longer[l])
  <2>1. CASE l < q
    <3>1. k < q
      BY <1>8, <2>1
    <3>. QED
      BY <1>5, <1>8, <2>1, <3>1, Zenon DEF Orders
  <2>2. CASE l = q
    BY <1>5, <1>6, <1>8, <2>2, Zenon
  <2>3. CASE q < l /\ k < q
    <3>1. k < l - 1
      BY <2>3
    <3>. QED
      BY <1>5, <2>3, <3>1, Zenon DEF Orders
  <2>4. CASE q < l /\ k = q
    <3>1. q <= l - 1
      BY <2>4
    <3>. QED
      BY <1>5, <1>6, <2>4, <3>1, Zenon
  <2>5. CASE q < l /\ q < k
    <3>1. k - 1 < l - 1
      BY <1>8
    <3>. QED
      BY <1>5, <2>5, <3>1, Zenon DEF Orders
  <2>. QED
    BY <2>1, <2>2, <2>3, <2>4, <2>5
<1>9. ASSUME NEW i \in 1..(n + 1), found[i].host # Blank
      PROVE  \E k \in 1..(m + 1) : longer[k] = i
  <2>1. CASE i = x
    BY <1>5, <2>1, Zenon
  <2>2. CASE i # x
    <3>1. i \in 1..n
      BY <1>1, <2>2
    <3>2. PICK k \in 1..m : order[k] = i
      BY <1>9, <3>1, Zenon DEF Orders
    <3>3. k \in 1..(m + 1) /\ k + 1 \in 1..(m + 1) /\ (k < q \/ q < k + 1) /\ (k + 1) - 1 = k
      OBVIOUS
    <3>. QED
      BY <1>5, <3>2, <3>3, Zenon
  <2>. QED
    BY <2>1, <2>2, Zenon
<1>. QED
  BY <1>7, <1>8, <1>9, Zenon DEF Orders

LEMMA OrderExists ==
    ASSUME NEW found \in Seq(MXRecord)
    PROVE  \E m, order : m \in 0..Len(found) /\ Orders(found, Len(found), m, order)
<1>. DEFINE S == {n \in Nat : n <= Len(found) => \E m, order : m \in 0..n /\ Orders(found, n, m, order)}
<1>1. 0 \in S
  <2>1. Orders(found, 0, 0, <<>>)
    BY DEF Orders
  <2>2. 0 \in 0..0 /\ 0 \in Nat
    OBVIOUS
  <2>. QED
    BY <2>1, <2>2, Zenon
<1>2. ASSUME NEW n \in S PROVE n + 1 \in S
  <2>0. n \in Nat /\ n + 1 \in Nat
    OBVIOUS
  <2>1. SUFFICES ASSUME n + 1 <= Len(found)
                 PROVE  \E m, order : m \in 0..(n + 1) /\ Orders(found, n + 1, m, order)
    BY <2>0, Zenon
  <2>2. n <= Len(found)
    BY <2>0, <2>1
  <2>3. PICK m, order : m \in 0..n /\ Orders(found, n, m, order)
    BY <2>2, Zenon
  <2>4. m \in Nat /\ m + 1 \in 0..(n + 1) /\ m \in 0..(n + 1)
    BY <2>0, <2>3
  <2>5. CASE found[n + 1].host = Blank
    <3>1. /\ \A i \in 1..n : i \in 1..(n + 1)
          /\ \A i \in 1..(n + 1) : i = n + 1 \/ i \in 1..n
      BY <2>0
    <3>2. {i \in 1..(n + 1) : found[i].host # Blank} = {i \in 1..n : found[i].host # Blank}
      BY <2>5, <3>1, Zenon
    <3>3. Orders(found, n + 1, m, order)
      BY <2>3, <2>5, <3>1, <3>2, Zenon DEF Orders
    <3>. QED
      BY <2>4, <3>3, Zenon
  <2>6. CASE found[n + 1].host # Blank
    BY <2>0, <2>1, <2>3, <2>4, <2>6, Inserted, Zenon
  <2>. QED
    BY <2>5, <2>6, Zenon
<1>3. Nat \subseteq S
  <2>. HIDE DEF S
  <2>. QED
    BY <1>1, <1>2, SetInduction, Zenon
<1>4. Len(found) \in Nat /\ Len(found) <= Len(found)
  OBVIOUS
<1>5. Len(found) \in S
  <2>. HIDE DEF S
  <2>. QED
    BY <1>3, <1>4, Zenon
<1>. QED
  BY <1>4, <1>5, Zenon

\* What the sort of lookupMXTargets returns.
LEMMA SortedIs ==
    ASSUME NEW found \in Seq(MXRecord)
    PROVE  \E m \in Nat : Orders(found, Len(found), m, Sorted(found))
<1>. DEFINE named == {i \in DOMAIN found : found[i].host # Blank}
            Good(order) ==
              /\ \A k, l \in DOMAIN order : k < l => Sooner(found, order[k], order[l])
              /\ \A i \in named : \E k \in DOMAIN order : order[k] = i
<1>1. DOMAIN found = 1..Len(found)
  OBVIOUS
<1>2. PICK m, order : m \in 0..Len(found) /\ Orders(found, Len(found), m, order)
  BY OrderExists, Zenon
<1>3. order \in [1..m -> named] /\ Good(order)
  BY <1>1, <1>2, Zenon DEF Orders
<1>4. \E o \in UNION {[1..n -> named] : n \in 0..Len(found)} : Good(o)
  BY <1>2, <1>3, Zenon
<1>5. Sorted(found) = CHOOSE o \in UNION {[1..n -> named] : n \in 0..Len(found)} : Good(o)
  BY DEF Sorted
<1>6. Sorted(found) \in UNION {[1..n -> named] : n \in 0..Len(found)} /\ Good(Sorted(found))
  <2>. HIDE DEF named, Good
  <2>. QED
    BY <1>4, <1>5, Zenon
<1>7. PICK n \in 0..Len(found) : Sorted(found) \in [1..n -> named]
  BY <1>6, Zenon
<1>8. n \in Nat
  OBVIOUS
<1>9. DOMAIN Sorted(found) = 1..n
  BY <1>7, Zenon
<1>10. Orders(found, Len(found), n, Sorted(found))
  BY <1>1, <1>6, <1>7, <1>9, Zenon DEF Orders
<1>. QED
  BY <1>8, <1>10, Zenon

\* hosts in turn: those tried, then those still to try.
InTurnOf(hosts) ==
    /\ hosts \in Seq(Nat) /\ tried \in Seq(Nat) /\ targets \in Seq(Nat)
    /\ hosts = tried \o targets

\* relayDomain goes through what lookupTargets found, in its order.
RelayInv ==
    at = "try" => records \in Seq(MXRecord) /\ InTurnOf(HostsOf(records))

LEMMA FoundIs ==
    ASSUME NEW found \in Found
    PROVE  found \in Seq(MXRecord) /\ HostsOf(found) \in Seq(Nat)
<1>1. PICK n \in 0..MaxRecords : found \in [1..n -> MXRecord]
  BY Zenon DEF Found
<1>2. found \in Seq(MXRecord)
  BY <1>1, SubmittedBounds
<1>3. CASE found = <<>>
  <2>1. DomainHost \in Nat
    BY MailHostsAssumption, Zenon
  <2>. QED
    BY <1>2, <1>3, <2>1 DEF HostsOf
<1>4. CASE found # <<>>
  <2>1. PICK m \in Nat : Orders(found, Len(found), m, Sorted(found))
    BY <1>2, SortedIs, Zenon
  <2>2. PICK order : order = Sorted(found)
    BY Zenon
  <2>3. DOMAIN order = 1..m /\ \A k \in 1..m : order[k] \in 1..Len(found)
    BY <2>1, <2>2, Zenon DEF Orders
  <2>4. HostsOf(found) = [k \in 1..m |-> found[order[k]].host]
    BY <1>4, <2>2, <2>3, Zenon DEF HostsOf
  <2>5. \A k \in 1..m : found[order[k]].host \in Nat
    <3>1. DOMAIN found = 1..Len(found)
      BY <1>2
    <3>. QED
      BY <1>2, <2>3, <3>1, RecordsHave, Zenon
  <2>6. HostsOf(found) \in [1..m -> Nat]
    BY <2>4, <2>5, Zenon
  <2>7. \A f \in [1..m -> Nat] : f \in Seq(Nat)
    BY <2>1
  <2>. QED
    BY <1>2, <2>6, <2>7, Zenon
<1>. QED
  BY <1>2, <1>3, <1>4, Zenon

LEMMA GoesOn ==
    ASSUME NEW a \in Seq(Nat), NEW b \in Seq(Nat), b # <<>>
    PROVE  /\ Append(a, Head(b)) \in Seq(Nat) /\ Tail(b) \in Seq(Nat)
           /\ Append(a, Head(b)) \o Tail(b) = a \o b
<1>1. PICK h, t : h = Head(b) /\ t = Tail(b)
  BY Zenon
<1>2. h \in Nat /\ t \in Seq(Nat)
  BY <1>1
<1>3. <<h>> \in Seq(Nat) /\ Append(a, h) \in Seq(Nat) /\ Append(a, h) = a \o <<h>>
  BY <1>2
<1>4. <<h>> \o t = b
  BY <1>1
<1>5. Associate(a, <<h>>, t)
  BY <1>2, <1>3, AlwaysAssociate, Zenon
<1>. QED
  BY <1>1, <1>2, <1>3, <1>4, <1>5, Zenon DEF Associate

LEMMA RelayInvNext == RelayInv /\ [Next]_vars => RelayInv'
<1>. SUFFICES ASSUME RelayInv, [Next]_vars, at' = "try"
              PROVE  (records \in Seq(MXRecord) /\ InTurnOf(HostsOf(records)))'
  BY Zenon DEF RelayInv
<1>1. CASE \E found \in Found : Lookup(found)
  <2>1. PICK found \in Found : Lookup(found)
    BY <1>1, Zenon
  <2>2. lookupTargets(found)
    <3>1. ~ (at' = "idle")
      OBVIOUS
    <3>. QED
      BY <2>1, <3>1, Zenon DEF Lookup, Answer, Return
  <2>3. records' = found /\ targets' = HostsOf(found) /\ tried' = <<>>
    BY <2>2, Zenon DEF lookupTargets
  <2>4. found \in Seq(MXRecord) /\ HostsOf(found) \in Seq(Nat)
    BY FoundIs, Zenon
  <2>5. <<>> \o HostsOf(found) = HostsOf(found) /\ <<>> \in Seq(Nat)
    BY <2>4
  <2>6. HostsOf(records)' = HostsOf(found)
    BY <2>3, Zenon DEF HostsOf
  <2>. QED
    BY <2>3, <2>4, <2>5, <2>6, Zenon DEF InTurnOf
<1>2. CASE \E taken \in BOOLEAN : TargetFails(taken)
  <2>1. at = "try" /\ NextTarget
    BY <1>2, Zenon DEF TargetFails
  <2>2. /\ targets # <<>> /\ targets' = Tail(targets) /\ records' = records
        /\ tried' = Append(tried, Head(targets))
    BY <2>1, Zenon DEF NextTarget
  <2>3. records \in Seq(MXRecord) /\ InTurnOf(HostsOf(records))
    BY <2>1, Zenon DEF RelayInv
  <2>4. /\ tried' \in Seq(Nat) /\ targets' \in Seq(Nat)
        /\ tried' \o targets' = tried \o targets
    <3>1. PICK a, b : a = tried /\ b = targets
      BY Zenon
    <3>. QED
      BY <2>2, <2>3, <3>1, GoesOn, Zenon DEF InTurnOf
  <2>5. HostsOf(records)' = HostsOf(records)
    BY <2>2, Zenon DEF HostsOf
  <2>. QED
    BY <2>2, <2>3, <2>4, <2>5, Zenon DEF InTurnOf
<1>3. CASE UNCHANGED vars
  <2>1. at = "try" /\ records' = records /\ tried' = tried /\ targets' = targets
    BY <1>3, Zenon DEF vars, relayVars
  <2>2. HostsOf(records)' = HostsOf(records)
    BY <2>1, Zenon DEF HostsOf
  <2>. QED
    BY <2>1, <2>2, Zenon DEF RelayInv, InTurnOf
<1>4. CASE \/ Submit \/ Read \/ ReadEnds \/ DataTooLarge \/ SenderNotAuthorized
           \/ BeginRelay \/ TargetAccepts \/ TargetRefuses \/ TargetsExhausted
           \/ Throttled \/ LookupFails \/ TargetAcceptsUnheard \/ Disconnect
  <2>1. at' \in {"idle", "reading", "read", "lookup"}
    BY <1>4, Zenon DEF Submit, Read, ReadEnds, DataTooLarge, SenderNotAuthorized,
         BeginRelay, TargetAccepts, TargetRefuses, TargetsExhausted, Throttled,
         LookupFails, TargetAcceptsUnheard, Disconnect, Answer, TryAgain, Return
  <2>. QED
    BY <2>1
<1>. QED
  BY <1>1, <1>2, <1>3, <1>4, Zenon DEF Next, Work, Disturb

LEMMA InOrder ==
    ASSUME NEW found \in Seq(MXRecord), NEW a \in Seq(Nat), NEW b \in Seq(Nat),
           HostsOf(found) = a \o b,
           NEW i \in DOMAIN found, found[i].host # Blank
    PROVE  \/ \E k \in DOMAIN a : a[k] = found[i].host
           \/ /\ b # <<>>
              /\ \E j \in DOMAIN found : /\ found[j].host = Head(b)
                                         /\ found[j].pref <= found[i].pref
<1>1. PICK m \in Nat : Orders(found, Len(found), m, Sorted(found))
  BY SortedIs, Zenon
<1>2. PICK order : order = Sorted(found)
  BY Zenon
<1>3. DOMAIN found = 1..Len(found) /\ found # <<>>
  OBVIOUS
<1>4. /\ DOMAIN order = 1..m
      /\ \A k \in 1..m : order[k] \in DOMAIN found
      /\ \A k, l \in 1..m : k < l => Sooner(found, order[k], order[l])
  BY <1>1, <1>2, <1>3, Zenon DEF Orders
<1>5. PICK k \in 1..m : order[k] = i
  BY <1>1, <1>2, <1>3, Zenon DEF Orders
<1>6. PICK hosts : hosts = HostsOf(found)
  BY Zenon
<1>7. hosts = [l \in 1..m |-> found[order[l]].host]
  BY <1>2, <1>3, <1>4, <1>6, Zenon DEF HostsOf
<1>8. DOMAIN hosts = 1..m /\ \A l \in 1..m : hosts[l] = found[order[l]].host
  BY <1>7, Zenon
<1>9. /\ Len(a) \in Nat
      /\ \A l \in 1..Len(a) : l \in DOMAIN a /\ hosts[l] = a[l]
      /\ \A l \in DOMAIN hosts : Len(a) < l => /\ b # <<>>
                                               /\ Len(a) + 1 \in DOMAIN hosts
                                               /\ hosts[Len(a) + 1] = Head(b)
  <2>1. hosts = a \o b
    BY <1>6, Zenon
  <2>. QED
    BY <2>1, SMTT(30)
<1>10. CASE k <= Len(a)
  <2>1. k \in 1..Len(a)
    BY <1>9, <1>10
  <2>2. k \in DOMAIN a /\ a[k] = found[i].host
    BY <1>5, <1>8, <1>9, <2>1, Zenon
  <2>. QED
    BY <2>2, Zenon
<1>11. CASE Len(a) < k
  <2>1. PICK t : t = Len(a) + 1
    BY Zenon
  <2>2. b # <<>> /\ t \in 1..m /\ hosts[t] = Head(b)
    BY <1>8, <1>9, <1>11, <2>1, Zenon
  <2>3. t = k \/ t < k
    BY <1>9, <1>11, <2>1
  <2>4. order[t] \in DOMAIN found /\ found[order[t]].host = Head(b)
    BY <1>4, <1>8, <2>2, Zenon
  <2>5. found[order[t]].pref <= found[i].pref
    <3>1. CASE t = k
      <4>1. found[i].pref \in Nat
        BY RecordsHave, Zenon
      <4>. QED
        BY <1>5, <3>1, <4>1
    <3>2. CASE t < k
      BY <1>4, <1>5, <2>2, <2>4, <3>2, SoonerOrders, Zenon
    <3>. QED
      BY <2>3, <3>1, <3>2, Zenon
  <2>. QED
    BY <2>2, <2>4, <2>5, Zenon
<1>. QED
  BY <1>9, <1>10, <1>11

LEMMA PreferredByRelay == RelayInv => PreferredFirst
<1>. SUFFICES ASSUME RelayInv, at = "try", NEW i \in DOMAIN records,
                     records[i].host # Blank
              PROVE  \/ \E k \in DOMAIN tried : tried[k] = records[i].host
                     \/ /\ targets # <<>>
                        /\ \E p \in PrefsOf(Head(targets)) : p <= records[i].pref
  BY Zenon DEF PreferredFirst
<1>1. PICK found, a, b : found = records /\ a = tried /\ b = targets
  BY Zenon
<1>2. /\ found \in Seq(MXRecord) /\ a \in Seq(Nat) /\ b \in Seq(Nat)
      /\ HostsOf(found) = a \o b
  BY <1>1, Zenon DEF RelayInv, InTurnOf
<1>3. \/ \E k \in DOMAIN a : a[k] = found[i].host
      \/ /\ b # <<>>
         /\ \E j \in DOMAIN found : /\ found[j].host = Head(b)
                                    /\ found[j].pref <= found[i].pref
  <2>1. i \in DOMAIN found /\ found[i].host # Blank
    BY <1>1, Zenon
  <2>. QED
    BY <1>2, <2>1, InOrder, Zenon
<1>. QED
  BY <1>1, <1>3, Zenon DEF PrefsOf

\* relayDomain tries a host only after all that the domain prefers to it, and
\* gives up only after all of them: the stable sort of lookupTargets
\* (direct_relay.go) and the loop over its targets, for any records.
THEOREM AlwaysPreferredFirst == Spec => []PreferredFirst
<1>1. Init => RelayInv
  BY DEF Init, RelayInv
<1>. QED
  BY <1>1, RelayInvNext, PreferredByRelay, PTL DEF Spec
=============================================================================
