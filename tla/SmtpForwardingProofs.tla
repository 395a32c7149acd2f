------------------------ MODULE SmtpForwardingProofs ------------------------
(***************************************************************************)
(* Proofs about SmtpForwarding for every set of connections, hosts,        *)
(* shared addresses and messages, and for every limit.                     *)
(***************************************************************************)
EXTENDS SmtpForwarding, FiniteSetTheorems, WellFoundedInduction, TLAPS

-----------------------------------------------------------------------------
(* What the relay writes *)

\* Induction over the natural numbers, for a set.
LEMMA SetInduction ==
    ASSUME NEW S, 0 \in S, \A n \in Nat : n \in S => n + 1 \in S
    PROVE  Nat \subseteq S
<1>. DEFINE T == Nat \ S
<1>. SUFFICES ASSUME T # {} PROVE FALSE
  BY Zenon
<1>1. PICK x \in T : \A y \in T : ~(<<y, x>> \in OpToRel(<, Nat))
  <2>. HIDE DEF T
  <2>1. T \subseteq Nat
    BY Zenon DEF T
  <2>. QED
    BY <2>1, WFMin, NatLessThanWellFounded, Zenon
<1>2. \A y \in T : ~(y < x)
  BY <1>1, Zenon DEF OpToRel
<1>3. x # 0 /\ x - 1 \in Nat /\ x - 1 < x
  OBVIOUS
<1>4. x - 1 \in S
  BY <1>2, <1>3, Zenon
<1>. QED
  BY <1>3, <1>4

\* The function that Lines goes by, up to n.
Collects(f, headers, names, n) ==
    f = [k \in 0..n |-> IF k = 0 THEN <<>> ELSE WithLine(f[k - 1], headers[k], names)]

\* The lines before the first one, and after one more.
Follows(f, headers, names, n) ==
    /\ f[0] = <<>>
    /\ \A k \in Nat : k + 1 <= n => f[k + 1] = WithLine(f[k], headers[k + 1], names)

LEMMA CollectsFollows ==
    ASSUME NEW f, NEW headers, NEW names, NEW n \in Nat, Collects(f, headers, names, n)
    PROVE  Follows(f, headers, names, n)
<1>. DEFINE Line(g, i) == IF i = 0 THEN <<>> ELSE WithLine(g[i - 1], headers[i], names)
<1>1. f = [i \in 0..n |-> Line(f, i)]
  BY Zenon DEF Collects
<1>2. ASSUME NEW g, NEW k \in 0..n
      PROVE  [i \in 0..n |-> Line(g, i)][k] = Line(g, k)
  <2>. HIDE DEF Line
  <2>. QED
    BY Zenon
<1>3. \A k \in 0..n : f[k] = Line(f, k)
  <2>. HIDE DEF Line
  <2>. QED
    BY <1>1, <1>2
<1>4. f[0] = <<>>
  <2>1. 0 \in 0..n
    OBVIOUS
  <2>. QED
    BY <1>3, <2>1, Zenon
<1>5. ASSUME NEW k \in Nat, k + 1 <= n
      PROVE  f[k + 1] = WithLine(f[k], headers[k + 1], names)
  <2>1. k + 1 \in 0..n /\ k + 1 # 0 /\ (k + 1) - 1 = k
    BY <1>5
  <2>. QED
    BY <1>3, <2>1, Zenon
<1>. QED
  BY <1>4, <1>5, Zenon DEF Follows

\* The function exists, whatever the header.
LEMMA CollectsExists ==
    ASSUME NEW headers, NEW names, NEW n \in Nat
    PROVE  \E f : Collects(f, headers, names, n)
<1>. DEFINE S == {k \in Nat : \E f : Collects(f, headers, names, k)}
<1>1. 0 \in S
  <2>. DEFINE f == [k \in 0..0 |-> <<>>]
  <2>1. Collects(f, headers, names, 0)
    BY DEF Collects
  <2>. QED
    BY <2>1, Zenon
<1>2. ASSUME NEW k \in Nat, k \in S
      PROVE  k + 1 \in S
  <2>1. PICK f : Collects(f, headers, names, k)
    BY <1>2, Zenon
  <2>. DEFINE g == [i \in 0..(k + 1) |->
                        IF i <= k THEN f[i] ELSE WithLine(f[k], headers[k + 1], names)]
  <2>2. ASSUME NEW i \in 0..(k + 1)
        PROVE  g[i] = IF i = 0 THEN <<>> ELSE WithLine(g[i - 1], headers[i], names)
    <3>1. CASE i = 0
      <4>1. g[i] = f[0]
        BY <3>1
      <4>. HIDE DEF g
      <4>. QED
        BY <2>1, <3>1, <4>1, CollectsFollows, Zenon DEF Follows
    <3>2. CASE i \in 1..k
      <4>1. g[i] = f[i] /\ g[i - 1] = f[i - 1] /\ i # 0 /\ i - 1 \in Nat /\ (i - 1) + 1 = i
            /\ (i - 1) + 1 <= k
        BY <3>2
      <4>. HIDE DEF g
      <4>2. f[(i - 1) + 1] = WithLine(f[i - 1], headers[(i - 1) + 1], names)
        BY <2>1, <4>1, CollectsFollows DEF Follows
      <4>. QED
        BY <4>1, <4>2, Zenon
    <3>3. CASE i = k + 1
      <4>1. g[i] = WithLine(f[k], headers[i], names) /\ g[i - 1] = f[k] /\ i # 0
        BY <3>3
      <4>. HIDE DEF g
      <4>. QED
        BY <4>1, Zenon
    <3>4. i = 0 \/ i \in 1..k \/ i = k + 1
      OBVIOUS
    <3>. QED
      BY <3>1, <3>2, <3>3, <3>4, Zenon
  <2>3. g = [i \in 0..(k + 1) |-> g[i]]
    BY Zenon
  <2>. HIDE DEF g
  <2>4. Collects(g, headers, names, k + 1)
    BY <2>2, <2>3, Zenon DEF Collects
  <2>5. k + 1 \in Nat
    OBVIOUS
  <2>. QED
    BY <2>4, <2>5, Zenon
<1>. HIDE DEF S
<1>3. n \in S
  BY <1>1, <1>2, SetInduction, Zenon
<1>. QED
  BY <1>3, Zenon DEF S

LEMMA LinesAre ==
    ASSUME NEW X, NEW headers \in Seq(X), NEW names
    PROVE  \E f : /\ Follows(f, headers, names, Len(headers))
                  /\ Lines(headers, names) = f[Len(headers)]
<1>0. Len(headers) \in Nat
  OBVIOUS
<1>1. \E f : Collects(f, headers, names, Len(headers))
  BY <1>0, CollectsExists, Zenon
<1>2. PICK u : u = CHOOSE f : Collects(f, headers, names, Len(headers))
  BY Zenon
<1>3. Collects(u, headers, names, Len(headers))
  BY <1>1, <1>2, Zenon
<1>4. Lines(headers, names) = u[Len(headers)]
  BY <1>2, Zenon DEF Lines, Collects
<1>. QED
  BY <1>0, <1>3, <1>4, CollectsFollows, Zenon

\* The lines of a header are those before its last line and, if it has one of
\* the names, that line.
LEMMA LinesOfNone ==
    ASSUME NEW names
    PROVE  Lines(<<>>, names) = <<>>
<1>1. <<>> \in Seq({}) /\ Len(<<>>) = 0
  OBVIOUS
<1>2. PICK f : Follows(f, <<>>, names, 0) /\ Lines(<<>>, names) = f[0]
  BY <1>1, LinesAre, Zenon
<1>. QED
  BY <1>2, Zenon DEF Follows

LEMMA LinesOfAppend ==
    ASSUME NEW X, NEW headers \in Seq(X), NEW h \in X, NEW names
    PROVE  Lines(Append(headers, h), names) = WithLine(Lines(headers, names), h, names)
<1>0. PICK n, more :
        /\ n = Len(headers) /\ more = Append(headers, h) /\ Len(more) = n + 1
        /\ n \in Nat /\ more \in Seq(X)
        /\ more[n + 1] = h /\ \A i \in 1..n : more[i] = headers[i]
  <2>1. PICK n, more : n = Len(headers) /\ more = Append(headers, h)
    BY Zenon
  <2>2. /\ Len(more) = n + 1 /\ n \in Nat /\ more \in Seq(X)
        /\ more[n + 1] = h /\ \A i \in 1..n : more[i] = headers[i]
    BY <2>1
  <2>. QED
    BY <2>1, <2>2, Zenon
<1>n. n \in Nat /\ n + 1 \in Nat /\ n + 1 <= n + 1
  BY <1>0
<1>1. PICK f : Follows(f, headers, names, n) /\ Lines(headers, names) = f[n]
  BY <1>0, LinesAre, Zenon
<1>2. PICK g : Follows(g, more, names, n + 1) /\ Lines(more, names) = g[n + 1]
  BY <1>0, LinesAre, Zenon
<1>. DEFINE S == {k \in Nat : k <= n => g[k] = f[k]}
<1>3. 0 \in S
  <2>1. f[0] = g[0]
    BY <1>1, <1>2, Zenon DEF Follows
  <2>. QED
    BY <2>1
<1>4. ASSUME NEW k \in Nat, k \in S
      PROVE  k + 1 \in S
  <2>. SUFFICES ASSUME k + 1 <= n PROVE g[k + 1] = f[k + 1]
    OBVIOUS
  <2>1. k + 1 <= n + 1 /\ g[k] = f[k] /\ more[k + 1] = headers[k + 1]
    BY <1>0, <1>4
  <2>2. f[k + 1] = WithLine(f[k], headers[k + 1], names)
    BY <1>1, Zenon DEF Follows
  <2>3. g[k + 1] = WithLine(g[k], more[k + 1], names)
    BY <1>2, <2>1, Zenon DEF Follows
  <2>. QED
    BY <2>1, <2>2, <2>3, Zenon
<1>5. g[n] = f[n]
  <2>. HIDE DEF S
  <2>1. n \in S
    BY <1>3, <1>4, <1>n, SetInduction, Zenon
  <2>. QED
    BY <1>n, <2>1 DEF S
<1>6. g[n + 1] = WithLine(g[n], more[n + 1], names)
  BY <1>2, <1>n, Zenon DEF Follows
<1>. QED
  BY <1>0, <1>1, <1>2, <1>5, <1>6, Zenon

\* Every sequence is empty or another one with an element appended.
LEMMA LastOf ==
    ASSUME NEW X, NEW n \in Nat, NEW s \in Seq(X), Len(s) = n + 1
    PROVE  \E t \in Seq(X), x \in X : s = Append(t, x) /\ Len(t) = n
<1>1. PICK t, x : t = SubSeq(s, 1, n) /\ x = s[n + 1]
  BY Zenon
<1>2. t \in Seq(X) /\ x \in X /\ Len(t) = n /\ \A i \in 1..n : t[i] = s[i]
  BY <1>1
<1>3. s = Append(t, x)
  BY <1>1, <1>2
<1>. QED
  BY <1>2, <1>3, Zenon

LEMMA LinesType ==
    ASSUME NEW X, NEW headers \in Seq(X), NEW names
    PROVE  Lines(headers, names) \in Seq({h \in X : h.name \in names})
<1>. DEFINE Y == {h \in X : h.name \in names}
            S == {n \in Nat : \A s \in Seq(X) : Len(s) = n => Lines(s, names) \in Seq(Y)}
<1>1. 0 \in S
  <2>1. \A s \in Seq(X) : Len(s) = 0 => s = <<>>
    OBVIOUS
  <2>2. <<>> \in Seq(Y)
    OBVIOUS
  <2>. QED
    BY <2>1, <2>2, LinesOfNone
<1>2. ASSUME NEW n \in Nat, n \in S
      PROVE  n + 1 \in S
  <2>. SUFFICES ASSUME NEW s \in Seq(X), Len(s) = n + 1
                PROVE  Lines(s, names) \in Seq(Y)
    OBVIOUS
  <2>1. PICK t \in Seq(X), x \in X : s = Append(t, x) /\ Len(t) = n
    BY LastOf, Zenon
  <2>2. PICK l : l = Lines(t, names) /\ l \in Seq(Y)
    BY <1>2, <2>1, Zenon
  <2>3. Lines(s, names) = WithLine(l, x, names)
    BY <2>1, <2>2, LinesOfAppend, Zenon
  <2>4. x.name \in names => x \in Y
    BY Zenon
  <2>. HIDE DEF Y
  <2>. QED
    BY <2>2, <2>3, <2>4 DEF WithLine
<1>3. Len(headers) \in Nat
  OBVIOUS
<1>4. Len(headers) \in S
  <2>. HIDE DEF S
  <2>. QED
    BY <1>1, <1>2, <1>3, SetInduction, Zenon
<1>. QED
  BY <1>4, Zenon

LineJoins(before, after, header, names) ==
    WithLine(before \o after, header, names) = before \o WithLine(after, header, names)

LEMMA AlwaysJoins ==
    ASSUME NEW X, NEW s \in Seq(X), NEW t \in Seq(X), NEW x \in X, NEW names
    PROVE  LineJoins(s, t, x, names)
<1>1. Append(s \o t, x) = s \o Append(t, x)
  OBVIOUS
<1>. QED
  BY <1>1, Zenon DEF LineJoins, WithLine

LinesJoin(before, after, names) ==
    Lines(before \o after, names) = Lines(before, names) \o Lines(after, names)

\* The lines of two parts are the lines of the one and then of the other.
LEMMA LinesOfConcat ==
    ASSUME NEW X, NEW before \in Seq(X), NEW after \in Seq(X), NEW names
    PROVE  LinesJoin(before, after, names)
<1>. DEFINE S == {n \in Nat : \A s \in Seq(X) : Len(s) = n =>
                    Lines(before \o s, names) = Lines(before, names) \o Lines(s, names)}
<1>0. PICK l : l = Lines(before, names) /\ l \in Seq(X)
  <2>1. PICK l : l = Lines(before, names) /\ l \in Seq({h \in X : h.name \in names})
    BY LinesType, Zenon
  <2>2. l \in Seq(X)
    BY <2>1
  <2>. QED
    BY <2>1, <2>2, Zenon
<1>1. 0 \in S
  <2>1. \A s \in Seq(X) : Len(s) = 0 => s = <<>>
    OBVIOUS
  <2>2. l \o <<>> = l /\ before \o <<>> = before
    BY <1>0
  <2>3. Lines(before \o <<>>, names) = Lines(before, names) \o Lines(<<>>, names)
    BY <1>0, <2>2, LinesOfNone, Zenon
  <2>. QED
    BY <2>1, <2>3, Zenon
<1>2. ASSUME NEW n \in Nat, n \in S
      PROVE  n + 1 \in S
  <2>. SUFFICES ASSUME NEW s \in Seq(X), Len(s) = n + 1
                PROVE  Lines(before \o s, names) = Lines(before, names) \o Lines(s, names)
    OBVIOUS
  <2>1. PICK t \in Seq(X), x \in X : s = Append(t, x) /\ Len(t) = n
    BY LastOf, Zenon
  <2>2. PICK m : m = Lines(t, names) /\ m \in Seq(X)
    <3>1. PICK m : m = Lines(t, names) /\ m \in Seq({h \in X : h.name \in names})
      BY LinesType, Zenon
    <3>2. m \in Seq(X)
      BY <3>1
    <3>. QED
      BY <3>1, <3>2, Zenon
  <2>3. before \o t \in Seq(X) /\ before \o s = Append(before \o t, x)
    BY <2>1, SMTT(30)
  <2>4. Lines(before \o t, names) = l \o m
    BY <1>0, <1>2, <2>1, <2>2, Zenon
  <2>5. Lines(before \o s, names) = WithLine(l \o m, x, names)
    <3>1. PICK joined : joined = before \o t
      BY Zenon
    <3>2. joined \in Seq(X) /\ before \o s = Append(joined, x) /\ Lines(joined, names) = l \o m
      BY <2>3, <2>4, <3>1, Zenon
    <3>. QED
      BY <3>2, LinesOfAppend, Zenon
  <2>6. Lines(s, names) = WithLine(m, x, names)
    BY <2>1, <2>2, LinesOfAppend, Zenon
  <2>7. LineJoins(l, m, x, names)
    BY <1>0, <2>2, AlwaysJoins, Zenon
  <2>. QED
    BY <1>0, <2>5, <2>6, <2>7, Zenon DEF LineJoins
<1>3. Len(after) \in Nat
  OBVIOUS
<1>4. Len(after) \in S
  <2>. HIDE DEF S
  <2>. QED
    BY <1>1, <1>2, <1>3, SetInduction, Zenon
<1>. QED
  BY <1>4, Zenon DEF LinesJoin

LinesMeet(headers, names, others, both) ==
    Lines(Lines(headers, names), others) = Lines(headers, both)

\* Of the lines with some names, those with others have a name of both.
LEMMA LinesOfLines ==
    ASSUME NEW X, NEW headers \in Seq(X), NEW names, NEW others, NEW both,
           both = names \cap others
    PROVE  LinesMeet(headers, names, others, both)
<1>. DEFINE S == {n \in Nat : \A s \in Seq(X) : Len(s) = n =>
                    Lines(Lines(s, names), others) = Lines(s, both)}
<1>1. 0 \in S
  <2>1. \A s \in Seq(X) : Len(s) = 0 => s = <<>>
    OBVIOUS
  <2>. QED
    BY <2>1, LinesOfNone
<1>2. ASSUME NEW n \in Nat, n \in S
      PROVE  n + 1 \in S
  <2>0. n + 1 \in Nat
    OBVIOUS
  <2>. SUFFICES ASSUME NEW s \in Seq(X), Len(s) = n + 1
                PROVE  Lines(Lines(s, names), others) = Lines(s, both)
    BY <2>0, Zenon
  <2>1. PICK t \in Seq(X), x \in X : s = Append(t, x) /\ Len(t) = n
    BY LastOf, Zenon
  <2>2. PICK m : m = Lines(t, names) /\ m \in Seq(X)
    <3>1. PICK m : m = Lines(t, names) /\ m \in Seq({h \in X : h.name \in names})
      BY LinesType, Zenon
    <3>2. m \in Seq(X)
      BY <3>1
    <3>. QED
      BY <3>1, <3>2, Zenon
  <2>3. Lines(m, others) = Lines(t, both)
    BY <1>2, <2>1, <2>2, Zenon
  <2>4. Lines(s, names) = WithLine(m, x, names)
    BY <2>1, <2>2, LinesOfAppend, Zenon
  <2>5. Lines(Append(m, x), others) = WithLine(Lines(m, others), x, others)
    BY <2>2, LinesOfAppend, Zenon
  <2>6. Lines(s, both) = WithLine(Lines(m, others), x, both)
    <3>1. Lines(Append(t, x), both) = WithLine(Lines(t, both), x, both)
      BY LinesOfAppend, Zenon
    <3>. QED
      BY <2>1, <2>3, <3>1, Zenon
  <2>. QED
    BY <2>2, <2>4, <2>5, <2>6, Zenon DEF WithLine
<1>3. Len(headers) \in Nat
  OBVIOUS
<1>4. Len(headers) \in S
  <2>. HIDE DEF S
  <2>. QED
    BY <1>1, <1>2, <1>3, SetInduction, Zenon
<1>. QED
  BY <1>4, Zenon DEF LinesMeet

LEMMA LinesOfOne ==
    ASSUME NEW header, NEW names
    PROVE  /\ header.name \in names => Lines(<<header>>, names) = <<header>>
           /\ header.name \notin names => Lines(<<header>>, names) = <<>>
<1>1. PICK X : X = {header}
  BY Zenon
<1>2. <<>> \in Seq(X) /\ header \in X /\ Append(<<>>, header) = <<header>>
  BY <1>1
<1>3. Lines(Append(<<>>, header), names) = WithLine(Lines(<<>>, names), header, names)
  BY <1>2, LinesOfAppend, Zenon
<1>. QED
  BY <1>2, <1>3, LinesOfNone, Zenon DEF WithLine

\* No line has a name if there are no names.
LEMMA NoLines ==
    ASSUME NEW X, NEW headers \in Seq(X)
    PROVE  Lines(headers, {}) = <<>>
<1>1. PICK l, none : l = Lines(headers, none) /\ none = {}
  BY Zenon
<1>2. l \in Seq({h \in X : h.name \in none})
  BY <1>1, LinesType, Zenon
<1>3. l \in Seq({})
  <2>1. {h \in X : h.name \in none} = {}
    BY <1>1, Zenon
  <2>. QED
    BY <1>2, <2>1, Zenon
<1>4. l = <<>>
  <2>1. Len(l) \in Nat /\ DOMAIN l = 1..Len(l) /\ \A i \in 1..Len(l) : l[i] \in {}
    BY <1>3
  <2>2. Len(l) = 0
    BY <2>1
  <2>. QED
    BY <1>3, <2>2
<1>. QED
  BY <1>1, <1>4, Zenon

\* Of the lines that are kept, none is one of those that are written anew, and
\* those with a subject are all there.
LEMMA KeptLines ==
    ASSUME NEW X, NEW headers \in Seq(X)
    PROVE  /\ Kept(headers) \in Seq(X)
           /\ \A i \in 1..Len(Kept(headers)) : Kept(headers)[i].name \notin Dropped
           /\ \A name \in Dropped : Lines(Kept(headers), {name}) = <<>>
           /\ Lines(Kept(headers), {"Subject"}) = Lines(headers, {"Subject"})
<1>1. PICK kept, names : names = HeaderNames \ Dropped /\ kept = Kept(headers)
  BY Zenon
<1>2. kept = Lines(headers, names)
  BY <1>1, Zenon DEF Kept
<1>3. kept \in Seq({h \in X : h.name \in names})
  BY <1>2, LinesType, Zenon
<1>4. kept \in Seq(X) /\ \A i \in 1..Len(kept) : kept[i].name \in names
  BY <1>3
<1>5. ASSUME NEW name \in Dropped
      PROVE  Lines(kept, {name}) = <<>>
  <2>1. {} = names \cap {name}
    BY <1>1, Zenon
  <2>2. LinesMeet(headers, names, {name}, {})
    BY <2>1, LinesOfLines, Zenon
  <2>. QED
    BY <1>2, <2>2, NoLines, Zenon DEF LinesMeet
<1>6. Lines(kept, {"Subject"}) = Lines(headers, {"Subject"})
  <2>1. {"Subject"} = names \cap {"Subject"}
    BY <1>1 DEF HeaderNames, Dropped, From, ReplyTo, XOriginalFrom
  <2>2. LinesMeet(headers, names, {"Subject"}, {"Subject"})
    BY <2>1, LinesOfLines, Zenon
  <2>. QED
    BY <1>2, <2>2, Zenon DEF LinesMeet
<1>7. \A i \in 1..Len(kept) : kept[i].name \notin Dropped
  BY <1>1, <1>4, Zenon
<1>. QED
  BY <1>1, <1>4, <1>5, <1>6, <1>7, Zenon

\* The lines that are written: From for the route, first, and what the author
\* and the reply address are kept in.
Written(lines, route, author, replyTo) ==
    /\ \E X : lines \in Seq(X)
    /\ Len(lines) >= 1 /\ lines[1] = Header(From, Value(author, route))
    /\ \A i \in 2..Len(lines) : lines[i].name \in {ReplyTo, XOriginalFrom}
    /\ replyTo # NoValue =>
        Lines(lines, {ReplyTo}) = <<Header(ReplyTo, Value(replyTo, NoValue))>>
    /\ Lines(lines, {"Subject"}) = <<>>

\* IdentityHeaders writes these lines.
LEMMA IdentityLines ==
    ASSUME NEW route, NEW author, NEW replyTo, NEW lines,
           lines = IdentityHeaders(route, author, replyTo)
    PROVE  Written(lines, route, author, replyTo)
<1>1. PICK f, r, o : /\ f = Header(From, Value(author, route))
                     /\ r = Header(ReplyTo, Value(replyTo, NoValue))
                     /\ o = Header(XOriginalFrom, Value(author, NoValue))
  BY Zenon
<1>2. PICK rs, os : rs = Unless(replyTo, r) /\ os = Unless(author, o)
  BY Zenon
<1>3. lines = (<<f>> \o rs) \o os
  BY <1>1, <1>2, Zenon DEF IdentityHeaders, forwardedFromHeader
<1>4. f.name = From /\ r.name = ReplyTo /\ o.name = XOriginalFrom
  BY <1>1 DEF Header
<1>5. (rs = <<>> \/ rs = <<r>>) /\ (os = <<>> \/ os = <<o>>) /\ (replyTo # NoValue => rs = <<r>>)
  BY <1>2, Zenon DEF Unless
<1>6. PICK X : X = {f, r, o}
  BY Zenon
<1>7. <<f>> \in Seq(X) /\ rs \in Seq(X) /\ os \in Seq(X) /\ <<f>> \o rs \in Seq(X)
  <2>1. <<f>> \in Seq(X) /\ <<r>> \in Seq(X) /\ <<o>> \in Seq(X) /\ <<>> \in Seq(X)
    BY <1>6
  <2>2. rs \in Seq(X) /\ os \in Seq(X)
    BY <1>5, <2>1, Zenon
  <2>. QED
    BY <2>1, <2>2
<1>8. lines \in Seq(X)
  BY <1>3, <1>7
<1>9. /\ Len(lines) >= 1 /\ lines[1] = f
      /\ \A i \in 2..Len(lines) : lines[i] = r \/ lines[i] = o
  <2>1. CASE rs = <<>>
    BY <1>3, <1>5, <2>1, SMTT(30)
  <2>2. CASE rs = <<r>>
    BY <1>3, <1>5, <2>2
  <2>. QED
    BY <1>5, <2>1, <2>2, Zenon
<1>a. ASSUME NEW names
      PROVE  Lines(lines, names) = (Lines(<<f>>, names) \o Lines(rs, names)) \o Lines(os, names)
  <2>1. PICK both : both = <<f>> \o rs
    BY Zenon
  <2>2. LinesJoin(both, os, names) /\ LinesJoin(<<f>>, rs, names)
    BY <1>7, <2>1, LinesOfConcat, Zenon
  <2>. QED
    BY <1>3, <2>1, <2>2, Zenon DEF LinesJoin
<1>b. ASSUME NEW names, r.name \notin names, o.name \notin names
      PROVE  Lines(rs, names) = <<>> /\ Lines(os, names) = <<>>
  BY <1>5, <1>b, LinesOfOne, LinesOfNone, Zenon
<1>c. Lines(lines, {"Subject"}) = <<>>
  <2>1. f.name \notin {"Subject"} /\ r.name \notin {"Subject"} /\ o.name \notin {"Subject"}
    BY <1>4 DEF From, ReplyTo, XOriginalFrom
  <2>2. /\ Lines(<<f>>, {"Subject"}) = <<>> /\ Lines(rs, {"Subject"}) = <<>>
        /\ Lines(os, {"Subject"}) = <<>>
    BY <1>b, <2>1, LinesOfOne, Zenon
  <2>3. (<<>> \o <<>>) \o <<>> = <<>>
    OBVIOUS
  <2>. QED
    BY <1>a, <2>2, <2>3, Zenon
<1>d. ASSUME replyTo # NoValue
      PROVE  Lines(lines, {ReplyTo}) = <<r>>
  <2>1. f.name \notin {ReplyTo} /\ r.name \in {ReplyTo} /\ o.name \notin {ReplyTo}
    BY <1>4 DEF From, ReplyTo, XOriginalFrom
  <2>2. rs = <<r>>
    BY <1>5, <1>d, Zenon
  <2>3. Lines(<<f>>, {ReplyTo}) = <<>> /\ Lines(rs, {ReplyTo}) = <<r>>
    BY <2>1, <2>2, LinesOfOne, Zenon
  <2>4. Lines(os, {ReplyTo}) = <<>>
    BY <1>5, <2>1, LinesOfOne, LinesOfNone, Zenon
  <2>5. (<<>> \o <<r>>) \o <<>> = <<r>>
    OBVIOUS
  <2>. QED
    BY <1>a, <2>3, <2>4, <2>5, Zenon
<1>e. \A i \in 2..Len(lines) : lines[i].name \in {ReplyTo, XOriginalFrom}
  BY <1>4, <1>9, Zenon
<1>. QED
  BY <1>1, <1>8, <1>9, <1>c, <1>d, <1>e, Zenon DEF Written

Joined(t, a, b) == t = a \o b

\* t has the places of a and then those of b.
InTurn(t, a, b) ==
    /\ Len(t) = Len(a) + Len(b)
    /\ \A i \in 1..Len(a) : t[i] = a[i]
    /\ \A i \in 1..Len(b) : t[Len(a) + i] = b[i]

LEMMA Concatenated ==
    ASSUME NEW X, NEW a \in Seq(X), NEW b \in Seq(X), NEW t, Joined(t, a, b)
    PROVE  t \in Seq(X) /\ InTurn(t, a, b)
BY DEF Joined, InTurn

\* Two parts that meet the places of s in turn make s.
LEMMA PartsMake ==
    ASSUME NEW X, NEW s \in Seq(X), NEW t \in Seq(X), NEW n \in Nat, NEW m \in Nat,
           Len(s) = n + m, Len(t) = n + m,
           \A i \in 1..n : t[i] = s[i],
           \A i \in 1..m : t[n + i] = s[n + i]
    PROVE  t = s
<1>1. ASSUME NEW i \in 1..(n + m)
      PROVE  t[i] = s[i]
  <2>1. CASE i \in 1..n
    BY <2>1, Zenon
  <2>2. CASE i \notin 1..n
    <3>1. i - n \in 1..m /\ n + (i - n) = i
      BY <2>2
    <3>. QED
      BY <3>1, Zenon
  <2>. QED
    BY <2>1, <2>2, Zenon
<1>. QED
  BY <1>1

\* s is cut after place p.
Splits(s, p, before, after) ==
    before = SubSeq(s, 1, p) /\ after = SubSeq(s, p + 1, Len(s))

\* A sequence cut in two is its two parts.
LEMMA SplitAt ==
    ASSUME NEW X, NEW s \in Seq(X), NEW p \in 0..Len(s), NEW before, NEW after,
           Splits(s, p, before, after)
    PROVE  before \in Seq(X) /\ after \in Seq(X) /\ Joined(s, before, after)
<1>1. PICK n : n = Len(s) - p
  BY Zenon
<1>2. Len(s) \in Nat /\ p \in Nat /\ n \in Nat /\ Len(s) = p + n
  BY <1>1
<1>3. before \in Seq(X) /\ Len(before) = p /\ \A i \in 1..p : before[i] = s[i]
  BY <1>2 DEF Splits
<1>4. after \in Seq(X) /\ Len(after) = n /\ \A i \in 1..n : after[i] = s[p + i]
  BY <1>2 DEF Splits
<1>5. PICK t : Joined(t, before, after)
  BY Zenon DEF Joined
<1>6. t \in Seq(X) /\ InTurn(t, before, after)
  <2>1. before \in Seq(X) /\ after \in Seq(X)
    BY <1>3, <1>4, Zenon
  <2>. QED
    BY <1>5, <2>1, Concatenated, Zenon
<1>7. /\ \A i \in 1..p : t[i] = s[i]
      /\ \A i \in 1..n : t[p + i] = s[p + i]
  BY <1>3, <1>4, <1>6, ZenonT(40) DEF InTurn
<1>8. t = s
  <2>1. Len(t) = p + n
    BY <1>3, <1>4, <1>6, Zenon DEF InTurn
  <2>. QED
    BY <1>2, <1>6, <1>7, <2>1, PartsMake, Zenon
<1>. QED
  BY <1>3, <1>4, <1>5, <1>8, Zenon

\* The first From line splits a header in two.
LEMMA FirstPlace ==
    ASSUME NEW X, NEW headers \in Seq(X), NEW froms, froms \subseteq DOMAIN headers,
           NEW place, place = IF froms = {} THEN 0 ELSE Min(froms)
    PROVE  place \in 0..Len(headers)
<1>1. froms \subseteq 1..Len(headers) /\ Len(headers) \in Nat
  OBVIOUS
<1>2. CASE froms = {}
  BY <1>1, <1>2
<1>3. CASE froms # {}
  <2>0. froms \subseteq Nat
    BY <1>1
  <2>1. PICK x \in froms : \A y \in froms : ~(<<y, x>> \in OpToRel(<, Nat))
    BY <1>3, <2>0, WFMin, NatLessThanWellFounded, Zenon
  <2>2. \A y \in froms : ~(y < x)
    BY <2>0, <2>1, Zenon DEF OpToRel
  <2>3. \A y \in froms : x <= y
    BY <2>0, <2>2
  <2>4. place \in froms
    BY <1>3, <2>3, Zenon DEF Min
  <2>. QED
    BY <1>1, <2>4
<1>. QED
  BY <1>2, <1>3, Zenon

\* The rewritten header: the new lines between the kept ones.
Frames(before, lines, after, rewritten) ==
    rewritten = (Kept(before) \o lines) \o Kept(after)

SameLines(headers, others, names) ==
    Lines(headers, names) = Lines(others, names)

\* What is written between lines that are kept is all that has a dropped name.
LEMMA WrittenBetween ==
    ASSUME NEW X, NEW before \in Seq(X), NEW lines \in Seq(X), NEW after \in Seq(X),
           NEW name \in Dropped, NEW rewritten,
           Frames(before, lines, after, rewritten)
    PROVE  SameLines(rewritten, lines, {name})
<1>1. PICK k, l : k = Kept(before) /\ l = Kept(after)
  BY Zenon
<1>2. k \in Seq(X) /\ l \in Seq(X) /\ Lines(k, {name}) = <<>> /\ Lines(l, {name}) = <<>>
  BY <1>1, KeptLines, Zenon
<1>3. PICK first : first = k \o lines
  BY Zenon
<1>4. first \in Seq(X)
  BY <1>2, <1>3
<1>5. LinesJoin(first, l, {name}) /\ LinesJoin(k, lines, {name})
  BY <1>2, <1>4, LinesOfConcat, Zenon
<1>6. PICK m : m = Lines(lines, {name}) /\ m \in Seq({h \in X : h.name \in {name}})
  BY LinesType, Zenon
<1>7. (<<>> \o m) \o <<>> = m
  BY <1>6
<1>. QED
  BY <1>1, <1>2, <1>3, <1>5, <1>6, <1>7, Zenon DEF LinesJoin, Frames, SameLines

\* Every other line stays, in order.
LEMMA OthersStay ==
    ASSUME NEW X, NEW before \in Seq(X), NEW lines \in Seq(X), NEW after \in Seq(X),
           Lines(lines, {"Subject"}) = <<>>, NEW rewritten,
           Frames(before, lines, after, rewritten)
    PROVE  Lines(rewritten, {"Subject"}) = Lines(before \o after, {"Subject"})
<1>1. PICK k, l : k = Kept(before) /\ l = Kept(after)
  BY Zenon
<1>2. /\ k \in Seq(X) /\ l \in Seq(X)
      /\ Lines(k, {"Subject"}) = Lines(before, {"Subject"})
      /\ Lines(l, {"Subject"}) = Lines(after, {"Subject"})
  BY <1>1, KeptLines, Zenon
<1>3. PICK first : first = k \o lines
  BY Zenon
<1>4. first \in Seq(X)
  BY <1>2, <1>3
<1>5. /\ LinesJoin(first, l, {"Subject"}) /\ LinesJoin(k, lines, {"Subject"})
      /\ LinesJoin(before, after, {"Subject"})
  BY <1>2, <1>4, LinesOfConcat, Zenon
<1>6. PICK m : m = Lines(before, {"Subject"}) /\ m \in Seq({h \in X : h.name \in {"Subject"}})
  BY LinesType, Zenon
<1>7. m \o <<>> = m
  BY <1>6
<1>. QED
  BY <1>1, <1>2, <1>3, <1>5, <1>6, <1>7, Zenon DEF LinesJoin, Frames

\* The first of the new lines stands somewhere, and every other line with a
\* dropped name is another of the new lines.
OneIsFirst(lines, rewritten) ==
    \E p \in DOMAIN rewritten :
        /\ rewritten[p] = lines[1]
        /\ \A i \in DOMAIN rewritten \ {p} :
               \/ rewritten[i].name \notin Dropped
               \/ \E j \in 2..Len(lines) : rewritten[i] = lines[j]

\* Names and lines, place by place.
LEMMA PlaceByPlace ==
    ASSUME NEW X, NEW before \in Seq(X), NEW lines \in Seq(X), NEW after \in Seq(X),
           NEW rewritten, Frames(before, lines, after, rewritten),
           Len(lines) >= 1
    PROVE  OneIsFirst(lines, rewritten)
<1>1. PICK k, l : k = Kept(before) /\ l = Kept(after)
  BY Zenon
<1>2. /\ k \in Seq(X) /\ l \in Seq(X)
      /\ \A i \in 1..Len(k) : k[i].name \notin Dropped
      /\ \A i \in 1..Len(l) : l[i].name \notin Dropped
  BY <1>1, KeptLines, Zenon
<1>3. PICK n, m, q : n = Len(k) /\ m = Len(lines) /\ q = Len(l)
  BY Zenon
<1>4. /\ n \in Nat /\ m \in Nat /\ q \in Nat /\ m >= 1
      /\ rewritten \in Seq(X) /\ Len(rewritten) = n + m + q
      /\ \A i \in 1..n : rewritten[i] = k[i]
      /\ \A i \in 1..m : rewritten[n + i] = lines[i]
      /\ \A i \in 1..q : rewritten[n + m + i] = l[i]
  BY <1>1, <1>2, <1>3, SMTT(30) DEF Frames
<1>5. n + 1 \in DOMAIN rewritten /\ rewritten[n + 1] = lines[1]
  <2>1. n + 1 \in 1..(n + m + q) /\ 1 \in 1..m
    BY <1>4
  <2>2. DOMAIN rewritten = 1..(n + m + q)
    <3>1. \A s \in Seq(X) : DOMAIN s = 1..Len(s)
      OBVIOUS
    <3>. QED
      BY <1>4, <3>1, Zenon
  <2>. QED
    BY <1>4, <2>1, <2>2, Zenon
<1>6. ASSUME NEW i \in DOMAIN rewritten \ {n + 1}
      PROVE  \/ rewritten[i].name \notin Dropped
             \/ \E j \in 2..m : rewritten[i] = lines[j]
  <2>1. i \in 1..(n + m + q) /\ i # n + 1
    BY <1>4
  <2>2. CASE i \in 1..n
    BY <1>2, <1>3, <1>4, <2>2, Zenon
  <2>3. CASE i \in (n + 2)..(n + m)
    <3>1. i - n \in 2..m /\ i - n \in 1..m /\ n + (i - n) = i
      BY <1>4, <2>3
    <3>2. rewritten[n + (i - n)] = lines[i - n]
      BY <1>4, <3>1, Zenon
    <3>. QED
      BY <3>1, <3>2, Zenon
  <2>4. CASE i \in (n + m + 1)..(n + m + q)
    <3>1. i - (n + m) \in 1..q /\ n + m + (i - (n + m)) = i
      BY <1>4, <2>4
    <3>2. rewritten[n + m + (i - (n + m))] = l[i - (n + m)]
      BY <1>4, <3>1, Zenon
    <3>. QED
      BY <1>2, <1>3, <3>1, <3>2, Zenon
  <2>5. i \in 1..n \/ i \in (n + 2)..(n + m) \/ i \in (n + m + 1)..(n + m + q)
    BY <1>4, <2>1
  <2>. QED
    BY <2>2, <2>3, <2>4, <2>5, Zenon
<1>. QED
  BY <1>3, <1>5, <1>6, Zenon DEF OneIsFirst

\* Whatever header a message comes in with, the rewritten one speaks for the
\* route.
LEMMA RewrittenSpeaks ==
    ASSUME NEW route, NEW headers \in Seq(Received)
    PROVE  SpeaksFor(route, headers, rewriteParsed(route, headers))
<1>1. PICK author, original, replyTo, froms, place, lines, rewritten :
        /\ author = firstHeaderValue(headers, From)
        /\ original = firstHeaderValue(headers, ReplyTo)
        /\ replyTo = (IF original = NoValue THEN author ELSE original)
        /\ froms = {i \in DOMAIN headers : headers[i].name = From}
        /\ place = (IF froms = {} THEN 0 ELSE Min(froms))
        /\ lines = IdentityHeaders(route, author, replyTo)
        /\ rewritten = rewriteParsed(route, headers)
  BY Zenon
<1>2. PICK before, after : /\ before = SubSeq(headers, 1, place)
                           /\ after = SubSeq(headers, place + 1, Len(headers))
  BY Zenon
<1>3. Frames(before, lines, after, rewritten)
  BY <1>1, <1>2, Zenon DEF rewriteParsed, Frames
<1>4. place \in 0..Len(headers)
  <2>1. froms \subseteq DOMAIN headers
    BY <1>1, Zenon
  <2>. QED
    BY <1>1, <2>1, FirstPlace, Zenon
<1>5. before \in Seq(Received) /\ after \in Seq(Received) /\ before \o after = headers
  <2>1. Splits(headers, place, before, after)
    BY <1>2, Zenon DEF Splits
  <2>. QED
    BY <1>4, <2>1, SplitAt DEF Joined
<1>6. Written(lines, route, author, replyTo)
  BY <1>1, IdentityLines, Zenon
<1>7. PICK X : before \in Seq(X) /\ after \in Seq(X) /\ lines \in Seq(X)
  <2>1. PICK Y : lines \in Seq(Y)
    BY <1>6, Zenon DEF Written
  <2>2. PICK X : X = Received \cup Y
    BY Zenon
  <2>3. lines \in Seq(X)
    BY <2>1, <2>2
  <2>4. before \in Seq(X) /\ after \in Seq(X)
    BY <1>5, <2>2
  <2>. QED
    BY <2>3, <2>4, Zenon
<1>8. PICK p \in DOMAIN rewritten :
        /\ rewritten[p] = Header(From, Value(author, route))
        /\ \A i \in DOMAIN rewritten \ {p} :
                \/ rewritten[i].name \notin Dropped
                \/ rewritten[i].name \in {ReplyTo, XOriginalFrom}
  <2>1. PICK p \in DOMAIN rewritten :
        /\ rewritten[p] = lines[1]
        /\ \A i \in DOMAIN rewritten \ {p} :
                \/ rewritten[i].name \notin Dropped
                \/ \E j \in 2..Len(lines) : rewritten[i] = lines[j]
    <3>1. Len(lines) >= 1
      BY <1>6, Zenon DEF Written
    <3>2. OneIsFirst(lines, rewritten)
      BY <1>3, <1>7, <3>1, PlaceByPlace, Zenon
    <3>. QED
      BY <3>2, Zenon DEF OneIsFirst
  <2>. QED
    BY <1>6, <2>1, ZenonT(40) DEF Written
<1>9. /\ From \in Dropped /\ "DKIM-Signature" \in Dropped /\ ReplyTo \in Dropped
      /\ From \notin {ReplyTo, XOriginalFrom} /\ "DKIM-Signature" \notin {ReplyTo, XOriginalFrom}
      /\ From # "DKIM-Signature"
  BY DEF Dropped, From, ReplyTo, XOriginalFrom
<1>a. \A i \in DOMAIN rewritten : rewritten[i].name # "DKIM-Signature"
  <2>1. rewritten[p].name = From
    BY <1>8 DEF Header
  <2>. QED
    BY <1>8, <1>9, <2>1, Zenon
<1>b. \A j \in DOMAIN rewritten \ {p} : rewritten[j].name # From
  BY <1>8, <1>9, Zenon
<1>c. ASSUME AnswersTo(headers) # NoValue
      PROVE  AnswersTo(rewritten) = AnswersTo(headers)
  <2>1. AnswersTo(headers) = replyTo
    BY <1>1, Zenon DEF AnswersTo
  <2>2. Named(rewritten, ReplyTo) = <<Header(ReplyTo, Value(replyTo, NoValue))>>
    <3>1. SameLines(rewritten, lines, {ReplyTo})
      BY <1>3, <1>7, <1>9, WrittenBetween, Zenon
    <3>. QED
      BY <1>6, <1>c, <2>1, <3>1, Zenon DEF Named, Written, SameLines
  <2>3. PICK h : h = Header(ReplyTo, Value(replyTo, NoValue))
    BY Zenon
  <2>4. <<h>> # <<>> /\ <<h>>[1] = h /\ h.value.author = replyTo
    BY <2>3 DEF Header, Value
  <2>5. firstHeaderValue(rewritten, ReplyTo) = replyTo
    BY <2>2, <2>3, <2>4, Zenon DEF firstHeaderValue
  <2>. QED
    BY <1>c, <2>1, <2>5, Zenon DEF AnswersTo
<1>d. Named(rewritten, "Subject") = Named(headers, "Subject")
  <2>1. Lines(rewritten, {"Subject"}) = Lines(before \o after, {"Subject"})
    <3>1. Lines(lines, {"Subject"}) = <<>>
      BY <1>6, Zenon DEF Written
    <3>. QED
      BY <1>3, <1>7, <3>1, OthersStay, ZenonT(40)
  <2>. QED
    BY <1>5, <2>1, Zenon DEF Named
<1>e. SpeaksFor(route, headers, rewritten)
  BY <1>1, <1>8, <1>a, <1>b, <1>c, <1>d, Zenon DEF SpeaksFor
<1>. QED
  BY <1>1, <1>e, Zenon

\* A copy that the relay took for a route comes from the route alone, for every
\* header a message may come in with, however long (rewriteParsed and
\* firstHeaderValue of relay.go).
THEOREM AlwaysForwardedInTheNameOfRoute == Spec => []ForwardedInTheNameOfRoute
<1>1. SpeakingRoutes = Addresses
  <2>1. ASSUME NEW a \in Addresses, NEW headers \in Contents, parses(headers)
        PROVE  SpeaksFor(a, headers, Forwarded(a, headers))
    <3>1. headers \in Seq(Received)
      BY ContentsAssumption, Zenon
    <3>2. SpeaksFor(a, headers, rewriteParsed(a, headers))
      BY <3>1, RewrittenSpeaks, Zenon
    <3>. QED
      BY <2>1, <3>2, Zenon DEF Forwarded
  <2>. QED
    BY <2>1, Zenon DEF SpeakingRoutes
<1>2. ForwardedInTheNameOfRoute
  BY <1>1, Zenon DEF ForwardedInTheNameOfRoute
<1>. QED
  BY <1>2, PTL

-----------------------------------------------------------------------------
(* Sessions and deliveries *)

Phases == {"closed", "command", "data", "forward"}

-----------------------------------------------------------------------------
(* The session limiter *)

OpenFrom(h) == {s \in OpenSessions : host[s] = h}

LimiterInv ==
    /\ phase \in [Sessions -> Phases]
    /\ host \in [Sessions -> Hosts]
    /\ activeSessions \in Nat
    /\ activeSessionsByHost \in [Hosts -> Nat]
    /\ IsFiniteSet(OpenSessions)
    /\ ForwardingSessionsAccounted

LEMMA InitSessions == Init => LimiterInv
<1>. SUFFICES ASSUME Init PROVE LimiterInv
  BY Zenon
<1>1. OpenSessions = {} /\ \A h \in Hosts : {s \in OpenSessions : host[s] = h} = {}
  BY Zenon DEF Init, OpenSessions
<1>2. IsFiniteSet(OpenSessions) /\ Cardinality(OpenSessions) = 0
      /\ \A h \in Hosts : Cardinality({s \in OpenSessions : host[s] = h}) = 0
  BY <1>1, FS_EmptySet, Zenon
<1>. QED
  BY <1>2, LimitsAssumption
  DEF Init, InitLimiter, LimiterInv, ForwardingSessionsAccounted, Phases

LEMMA AcceptSessions ==
    ASSUME LimiterInv, NEW s \in Sessions, NEW h \in Hosts, Accept(s, h)
    PROVE  LimiterInv'
<1>. USE DEF LimiterInv
<1>0. /\ phase[s] = "closed" /\ phase' = [phase EXCEPT ![s] = "command"]
      /\ host' = [host EXCEPT ![s] = h]
      /\ acquire(h)
  BY Zenon DEF Accept, GoTo
<1>1. s \notin OpenSessions /\ OpenSessions' = OpenSessions \cup {s}
  BY <1>0, Zenon DEF OpenSessions
<1>2. /\ Cardinality(OpenSessions') = Cardinality(OpenSessions) + 1
      /\ IsFiniteSet(OpenSessions')
  BY <1>1, FS_AddElement, Zenon
<1>3. ASSUME NEW g \in Hosts
      PROVE  Cardinality(OpenFrom(g)') =
                IF g = h THEN Cardinality(OpenFrom(g)) + 1 ELSE Cardinality(OpenFrom(g))
  <2>1. IsFiniteSet(OpenFrom(g))
    BY FS_Subset, Zenon DEF OpenFrom
  <2>2. CASE g = h
    <3>1. OpenFrom(g)' = OpenFrom(g) \cup {s} /\ s \notin OpenFrom(g)
      BY <1>0, <1>1, <2>2, Zenon DEF OpenFrom, OpenSessions
    <3>. QED
      BY <2>1, <2>2, <3>1, FS_AddElement, Zenon
  <2>3. CASE g # h
    <3>1. OpenFrom(g)' = OpenFrom(g)
      BY <1>0, <1>1, <2>3, Zenon DEF OpenFrom, OpenSessions
    <3>. QED
      BY <2>3, <3>1, Zenon
  <2>. QED
    BY <2>2, <2>3, Zenon
<1>4. phase' \in [Sessions -> Phases] /\ host' \in [Sessions -> Hosts]
  BY <1>0, Zenon DEF Phases
<1>5. /\ activeSessions' \in Nat /\ activeSessions' <= MaxConcurrentSessions
      /\ activeSessions' = Cardinality(OpenSessions')
  BY <1>0, <1>2, LimitsAssumption DEF acquire, ForwardingSessionsAccounted
<1>6. /\ activeSessionsByHost' \in [Hosts -> Nat]
      /\ \A g \in Hosts : activeSessionsByHost'[g] <= MaxSessionsPerRemoteHost
  BY <1>0, LimitsAssumption DEF acquire, ForwardingSessionsAccounted
<1>7. \A g \in Hosts : activeSessionsByHost'[g] = Cardinality(OpenFrom(g)')
  BY <1>0, <1>3, Zenon DEF acquire, ForwardingSessionsAccounted, OpenFrom
<1>. QED
  BY <1>2, <1>4, <1>5, <1>6, <1>7, Zenon DEF ForwardingSessionsAccounted, OpenFrom

\* The guards of release never bite: both counters are positive when a
\* connection closes.
LEMMA CloseSessions ==
    ASSUME LimiterInv, NEW s \in Sessions, Close(s)
    PROVE  LimiterInv'
<1>. USE DEF LimiterInv
<1>. DEFINE h == host[s]
<1>0. /\ h \in Hosts
      /\ phase[s] = "command" /\ phase' = [phase EXCEPT ![s] = "closed"]
      /\ host' = host
      /\ release(h)
  BY Zenon DEF Close, GoTo
<1>1. s \in OpenSessions /\ OpenSessions' = OpenSessions \ {s}
  BY <1>0, Zenon DEF OpenSessions
<1>2. /\ Cardinality(OpenSessions') = Cardinality(OpenSessions) - 1
      /\ Cardinality(OpenSessions) \in Nat /\ Cardinality(OpenSessions') \in Nat
      /\ IsFiniteSet(OpenSessions')
  BY <1>1, FS_RemoveElement, FS_CardinalityType, Zenon
<1>3. /\ Cardinality(OpenFrom(h) \ {s}) = Cardinality(OpenFrom(h)) - 1
      /\ Cardinality(OpenFrom(h)) \in Nat /\ Cardinality(OpenFrom(h) \ {s}) \in Nat
  <2>1. IsFiniteSet(OpenFrom(h)) /\ s \in OpenFrom(h)
    BY <1>1, FS_Subset, Zenon DEF OpenFrom
  <2>. QED
    BY <2>1, FS_RemoveElement, FS_CardinalityType, Zenon
<1>4. ASSUME NEW g \in Hosts
      PROVE  OpenFrom(g)' = IF g = h THEN OpenFrom(g) \ {s} ELSE OpenFrom(g)
  BY <1>0, <1>1, Zenon DEF OpenFrom
<1>5. /\ activeSessions' \in Nat /\ activeSessions' <= MaxConcurrentSessions
      /\ activeSessions' = Cardinality(OpenSessions')
  BY <1>0, <1>2, LimitsAssumption DEF release, ForwardingSessionsAccounted
<1>6. ASSUME NEW g \in Hosts
      PROVE  activeSessionsByHost'[g] = Cardinality(OpenFrom(g)')
  <2>1. CASE g = h
    <3>1. activeSessionsByHost[h] = Cardinality(OpenFrom(h))
      BY <1>0, Zenon DEF ForwardingSessionsAccounted, OpenFrom
    <3>2. activeSessionsByHost'[h] = Cardinality(OpenFrom(h) \ {s})
      BY <1>0, <1>3, <3>1 DEF release
    <3>. QED
      BY <1>4, <2>1, <3>2, Zenon
  <2>2. CASE g # h
    BY <1>0, <1>4, <2>2, Zenon DEF release, ForwardingSessionsAccounted, OpenFrom
  <2>. QED
    BY <2>1, <2>2, Zenon
<1>7. /\ activeSessionsByHost' \in [Hosts -> Nat]
      /\ \A g \in Hosts : activeSessionsByHost'[g] <= MaxSessionsPerRemoteHost
  BY <1>0, LimitsAssumption DEF release, ForwardingSessionsAccounted
<1>8. phase' \in [Sessions -> Phases] /\ host' \in [Sessions -> Hosts]
  BY <1>0, Zenon DEF Phases
<1>. QED
  BY <1>2, <1>5, <1>6, <1>7, <1>8, Zenon DEF ForwardingSessionsAccounted, OpenFrom

\* A step that opens and closes nothing leaves the counters right.
LEMMA SameSessions ==
    ASSUME LimiterInv, phase' \in [Sessions -> Phases],
           \A s \in Sessions : phase'[s] = "closed" <=> phase[s] = "closed",
           UNCHANGED <<host, limiterVars>>
    PROVE  LimiterInv'
<1>1. OpenSessions' = OpenSessions
  BY Zenon DEF OpenSessions
<1>. QED
  BY <1>1, Zenon DEF LimiterInv, ForwardingSessionsAccounted, limiterVars

LEMMA DeliverSessions ==
    ASSUME LimiterInv, NEW s \in Sessions, Deliver(s) \/ Serve(s)
    PROVE  LimiterInv'
<1>1. UNCHANGED <<host, limiterVars>>
  BY Zenon DEF Deliver, Mail, Recipient, RecipientUnknown, BeginData, Serve, DataReceived,
         DataTooLarge, Forward, Accepted
<1>2. \/ UNCHANGED phase
      \/ /\ phase[s] # "closed"
         /\ \E p \in Phases \ {"closed"} : phase' = [phase EXCEPT ![s] = p]
  BY Zenon DEF Deliver, Mail, Recipient, RecipientUnknown, BeginData, Serve, DataReceived,
         DataTooLarge, Forward, Accepted, GoTo, Phases
<1>. QED
  BY <1>1, <1>2, SameSessions, Zenon DEF LimiterInv

LEMMA DisturbSessions ==
    ASSUME LimiterInv, NEW s \in Sessions, Disturb(s), ~Close(s)
    PROVE  LimiterInv'
<1>1. UNCHANGED <<host, limiterVars>>
  BY Zenon DEF Disturb, Mail, Rset, RecipientDeferred, DataReadFails, ForwardFails,
         AcceptedUnheard
<1>2. \/ UNCHANGED phase
      \/ /\ phase[s] # "closed"
         /\ \E p \in Phases \ {"closed"} : phase' = [phase EXCEPT ![s] = p]
  BY Zenon DEF Disturb, Mail, Rset, RecipientDeferred, DataReadFails, ForwardFails,
         AcceptedUnheard, GoTo, Phases
<1>. QED
  BY <1>1, <1>2, SameSessions, Zenon DEF LimiterInv

LEMMA NextSessions == LimiterInv /\ [Next]_vars => LimiterInv'
<1>. SUFFICES ASSUME LimiterInv, [Next]_vars PROVE LimiterInv'
  BY Zenon
<1>1. CASE UNCHANGED vars \/ \E a \in Addresses : Reconfigure(a)
  <2>1. UNCHANGED <<phase, host, limiterVars>>
    BY <1>1, Zenon DEF Reconfigure, vars
  <2>. QED
    BY <2>1, SameSessions, Zenon DEF LimiterInv
<1>2. ASSUME NEW s \in Sessions, Open(s) \/ Deliver(s) \/ Serve(s) \/ Quit(s) \/ Disturb(s)
      PROVE  LimiterInv'
  BY <1>2, AcceptSessions, DeliverSessions, DisturbSessions, CloseSessions, Zenon DEF Open, Quit
<1>. QED
  BY <1>1, <1>2, Zenon DEF Next

\* However many connections come and go, the counters of the limiter are the
\* connections that are open, and they stay within the limits (acquire and
\* release of sessionLimiter).
THEOREM ForwardingSessionsAlwaysAccounted == Spec => []ForwardingSessionsAccounted
<1>1. LimiterInv => ForwardingSessionsAccounted
  BY Zenon DEF LimiterInv
<1>. QED
  BY <1>1, InitSessions, NextSessions, PTL DEF Spec

-----------------------------------------------------------------------------
(* Copies *)

SessionState == [mailFrom : Messages \cup {None}, recipients : Nat, routes : SUBSET Addresses]

DeliveryTypes ==
    /\ phase \in [Sessions -> Phases]
    /\ session \in [Sessions -> SessionState]
    /\ left \in [Sessions -> SUBSET Addresses]
    /\ outstanding \in [Messages -> SUBSET Addresses]
    /\ refused \in [Messages -> SUBSET Addresses]
    /\ copies \in [Messages -> [Addresses -> Nat]]
    /\ tries \in [Messages -> Nat]
    /\ faults \in Nat

\* The routes that the transaction of a connection has served so far.
Served(s) == IF phase[s] = "forward" THEN session[s].routes \ left[s] ELSE {}

\* Routes wait only while the relay is called, and only routes that were named.
Envelope(s) ==
    /\ left[s] \subseteq session[s].routes
    /\ phase[s] # "forward" => left[s] = {}
    /\ phase[s] \in {"data", "forward"} => session[s].mailFrom # None
    /\ session[s].mailFrom = None => session[s].routes = {}
    /\ session[s].mailFrom # None =>
        /\ session[s].routes \subseteq To[session[s].mailFrom]
        /\ \A t \in Sessions \ {s} : session[t].mailFrom # session[s].mailFrom

\* A route that was served has a copy; one that was not has at most a copy
\* for every fault, and while it waits it lacks the one of this transaction.
Progress(s, a) ==
    LET m == session[s].mailFrom
    IN  /\ a \in Served(s) => copies[m][a] >= 1
        /\ a \notin Served(s) => copies[m][a] <= faults
        /\ a \in left[s] => copies[m][a] < tries[m]

\* What is outstanding has at most a copy for every fault, and one more while
\* the transaction that has served it is not over.
Outstanding(m, a) ==
    \/ copies[m][a] <= faults
    \/ \E s \in Sessions : session[s].mailFrom = m /\ a \in Served(s)

Recorded(m, a) ==
    /\ a \in To[m] \ (outstanding[m] \cup refused[m]) => copies[m][a] >= 1
    /\ copies[m][a] <= IF a \in To[m] THEN tries[m] ELSE 0
    /\ copies[m][a] <= 1 + faults
    /\ a \in outstanding[m] => a \in To[m] /\ Outstanding(m, a)

DeliveryInv ==
    /\ DeliveryTypes
    /\ \A s \in Sessions : Envelope(s)
    /\ \A s \in Sessions, a \in Addresses : a \in session[s].routes => Progress(s, a)
    /\ \A m \in Messages, a \in Addresses : Recorded(m, a)

LEMMA InitDelivery == Init => DeliveryInv
<1>. SUFFICES ASSUME Init PROVE DeliveryInv
  BY Zenon
<1>1. DeliveryTypes
  BY ToAssumption, Zenon DEF Init, DeliveryTypes, SessionState, Empty, Phases
<1>2. \A s \in Sessions : Envelope(s) /\ session[s].routes = {}
  BY Zenon DEF Init, Envelope, Empty
<1>3. \A m \in Messages, a \in Addresses : Recorded(m, a)
  BY ToAssumption DEF Init, Recorded, Outstanding
<1>. QED
  BY <1>1, <1>2, <1>3, Zenon DEF DeliveryInv

\* A step moves one connection,
OnlyConnection(s) ==
    \A t \in Sessions \ {s} :
        phase'[t] = phase[t] /\ session'[t] = session[t] /\ left'[t] = left[t]

\* and settles recipients of one message.
OnlyMessage(m) ==
    \A k \in Messages \ {m} :
        /\ outstanding'[k] = outstanding[k] /\ refused'[k] = refused[k]
        /\ copies'[k] = copies[k] /\ tries'[k] = tries[k]

\* A connection is disturbed by no other: no two have a message in common, and
\* a step changes the copies of the message of its own connection alone.
LEMMA OtherConnections ==
    ASSUME DeliveryInv, DeliveryTypes', NEW s \in Sessions, OnlyConnection(s),
           session'[s].mailFrom \in {None, session[s].mailFrom}
             \/ \A t \in Sessions \ {s} : session[t].mailFrom # session'[s].mailFrom,
           \A m \in Messages \ {session[s].mailFrom} :
                copies'[m] = copies[m] /\ tries'[m] = tries[m],
           faults' >= faults,
           NEW t \in Sessions \ {s}
    PROVE  /\ Envelope(t)'
           /\ \A a \in Addresses : a \in session'[t].routes => Progress(t, a)'
<1>1. /\ phase'[t] = phase[t] /\ session'[t] = session[t] /\ left'[t] = left[t]
      /\ \A u \in Sessions \ {s} : session'[u] = session[u]
  BY Zenon DEF OnlyConnection
<1>2. Served(t)' = Served(t)
  BY <1>1, Zenon DEF Served
<1>3. Envelope(t) /\ Envelope(s)
  BY Zenon DEF DeliveryInv
<1>4. Envelope(t)'
  BY <1>1, <1>3, ZenonT(40) DEF Envelope
<1>5. ASSUME NEW a \in Addresses, a \in session'[t].routes
      PROVE  Progress(t, a)'
  <2>. DEFINE m == session[t].mailFrom
  <2>1. m # None /\ m # session[s].mailFrom /\ m \in Messages
    BY <1>1, <1>3, <1>5 DEF Envelope, DeliveryInv, DeliveryTypes, SessionState
  <2>2. copies'[m] = copies[m] /\ tries'[m] = tries[m] /\ session'[t].mailFrom = m
    BY <1>1, <2>1, Zenon
  <2>3. copies[m][a] \in Nat /\ faults \in Nat /\ faults' \in Nat
    BY <2>1, ZenonT(40) DEF DeliveryInv, DeliveryTypes
  <2>4. Progress(t, a)
    BY <1>1, <1>5, Zenon DEF DeliveryInv
  <2>. QED
    BY <1>1, <1>2, <2>2, <2>3, <2>4, SMTT(30) DEF Progress
<1>. QED
  BY <1>4, <1>5, Zenon

\* So is a message that the connection has not taken up, or of which it has
\* served no route.
LEMMA OtherMessages ==
    ASSUME DeliveryInv, DeliveryTypes', NEW s \in Sessions, OnlyConnection(s),
           NEW m \in Messages,
           m # session[s].mailFrom \/ Served(s) = {},
           outstanding'[m] = outstanding[m], refused'[m] = refused[m],
           copies'[m] = copies[m], tries'[m] = tries[m],
           faults' >= faults,
           NEW a \in Addresses
    PROVE  Recorded(m, a)'
<1>1. Recorded(m, a) /\ copies[m][a] \in Nat /\ faults \in Nat /\ faults' \in Nat
  BY ZenonT(40) DEF DeliveryInv, DeliveryTypes
<1>2. Outstanding(m, a) => Outstanding(m, a)'
  <2>1. CASE copies[m][a] <= faults
    BY <1>1, <2>1 DEF Outstanding
  <2>2. ASSUME NEW t \in Sessions, session[t].mailFrom = m /\ a \in Served(t)
        PROVE  Outstanding(m, a)'
    <3>1. t # s
      BY <2>2, Zenon
    <3>2. session'[t] = session[t] /\ phase'[t] = phase[t] /\ left'[t] = left[t]
      BY <3>1, Zenon DEF OnlyConnection
    <3>3. Served(t)' = Served(t)
      BY <3>2, Zenon DEF Served
    <3>. QED
      BY <2>2, <3>2, <3>3, Zenon DEF Outstanding
  <2>. QED
    BY <2>1, <2>2, Zenon DEF Outstanding
<1>. QED
  BY <1>1, <1>2 DEF Recorded

\* What a connection has served of its message is known to no other.
LEMMA ServedHere ==
    ASSUME DeliveryInv, NEW s \in Sessions, session[s].mailFrom # None,
           NEW a \in outstanding[session[s].mailFrom]
    PROVE  a \in Served(s) \/ copies[session[s].mailFrom][a] <= faults
<1>. DEFINE m == session[s].mailFrom
<1>1. m \in Messages /\ a \in Addresses
  BY Zenon DEF DeliveryInv, DeliveryTypes, SessionState
<1>2. Outstanding(m, a)
  BY <1>1, Zenon DEF DeliveryInv, Recorded
<1>3. ASSUME NEW t \in Sessions, session[t].mailFrom = m
      PROVE  t = s
  BY <1>3, Zenon DEF DeliveryInv, Envelope
<1>. QED
  BY <1>2, <1>3, Zenon DEF Outstanding

\* Steps of the command loop that settle no recipient.
LEMMA CommandStep ==
    ASSUME DeliveryInv, NEW s \in Sessions, NEW p \in Phases \ {"forward"},
           NEW state \in SessionState,
           phase[s] # "forward",
           phase' = [phase EXCEPT ![s] = p],
           session' = [session EXCEPT ![s] = state],
           UNCHANGED <<left, mailVars>>,
           faults' \in Nat, faults' >= faults,
           p = "data" => state.mailFrom # None,
           \/ /\ state.routes = {}
              /\ state.mailFrom = None
                    \/ \A t \in Sessions \ {s} : session[t].mailFrom # state.mailFrom
           \/ /\ state.mailFrom = session[s].mailFrom /\ state.mailFrom # None
              /\ state.routes \subseteq session[s].routes \cup outstanding[state.mailFrom]
    PROVE  DeliveryInv'
<1>1. left[s] = {} /\ Served(s) = {} /\ Envelope(s)
  BY Zenon DEF DeliveryInv, Envelope, Served
<1>2. left'[s] = {}
  BY <1>1, Zenon
<1>3. DeliveryTypes'
  BY Zenon DEF DeliveryInv, DeliveryTypes, mailVars
<1>4. session'[s] = state /\ phase'[s] = p /\ OnlyConnection(s)
  BY Zenon DEF DeliveryInv, DeliveryTypes, OnlyConnection
<1>5. Envelope(s)'
  <2>1. state.mailFrom # None => state.routes \subseteq To[state.mailFrom]
    BY <1>1, Zenon DEF DeliveryInv, Envelope, Recorded, DeliveryTypes, SessionState
  <2>2. state.mailFrom = None => state.routes = {}
    BY Zenon
  <2>3. state.mailFrom # None => \A t \in Sessions \ {s} : session[t].mailFrom # state.mailFrom
    BY <1>1, Zenon DEF Envelope
  <2>. QED
    BY <1>2, <1>4, <2>1, <2>2, <2>3, Zenon DEF Envelope, OnlyConnection
<1>6. ASSUME NEW a \in Addresses, a \in state.routes
      PROVE  Progress(s, a)'
  <2>. DEFINE m == session[s].mailFrom
  <2>1. /\ m # None /\ state.mailFrom = m
        /\ a \in session[s].routes \/ a \in outstanding[m]
    BY <1>6, Zenon
  <2>2. m \in Messages
    BY <2>1, Zenon DEF DeliveryInv, DeliveryTypes, SessionState
  <2>3. copies[m][a] <= faults
    BY <1>1, <2>1, ServedHere, ZenonT(40) DEF DeliveryInv, Progress
  <2>4. copies[m][a] <= faults'
    BY <2>2, <2>3 DEF DeliveryInv, DeliveryTypes
  <2>5. Served(s)' = {}
    BY <1>4, Zenon DEF Served
  <2>. QED
    BY <1>2, <1>4, <2>1, <2>4, <2>5, Zenon DEF Progress, mailVars
<1>7. \A t \in Sessions \ {s} :
        Envelope(t)' /\ \A a \in Addresses : a \in session'[t].routes => Progress(t, a)'
  <2>1. session'[s].mailFrom \in {None, session[s].mailFrom}
             \/ \A t \in Sessions \ {s} : session[t].mailFrom # session'[s].mailFrom
    BY <1>4, Zenon
  <2>2. \A m \in Messages \ {session[s].mailFrom} :
                copies'[m] = copies[m] /\ tries'[m] = tries[m]
    BY Zenon DEF mailVars
  <2>. QED
    BY <1>3, <1>4, <2>1, <2>2, OtherConnections, Zenon
<1>8. \A m \in Messages, a \in Addresses : Recorded(m, a)'
  <2>1. UNCHANGED <<outstanding, refused, copies, tries>>
    BY Zenon DEF mailVars
  <2>. QED
    BY <1>1, <1>3, <1>4, <2>1, OtherMessages, Zenon
<1>. QED
  BY <1>3, <1>4, <1>5, <1>6, <1>7, <1>8, Zenon DEF DeliveryInv

\* For every other step it is enough to look at the connection that moves and
\* at its message.
LEMMA MessageStep ==
    ASSUME DeliveryInv, DeliveryTypes', NEW s \in Sessions, OnlyConnection(s),
           session[s].mailFrom # None, OnlyMessage(session[s].mailFrom),
           session'[s].mailFrom \in {None, session[s].mailFrom},
           faults' >= faults,
           Envelope(s)',
           \A a \in Addresses : a \in session'[s].routes => Progress(s, a)',
           NEW m, m = session[s].mailFrom,
           \A a \in Addresses : Recorded(m, a)'
    PROVE  DeliveryInv'
<1>1. \A t \in Sessions \ {s} :
        Envelope(t)' /\ \A a \in Addresses : a \in session'[t].routes => Progress(t, a)'
  <2>1. \A k \in Messages \ {session[s].mailFrom} :
                copies'[k] = copies[k] /\ tries'[k] = tries[k]
    BY Zenon DEF OnlyMessage
  <2>. QED
    BY <2>1, OtherConnections, Zenon
<1>2. \A k \in Messages \ {m}, a \in Addresses : Recorded(k, a)'
  BY OtherMessages, ZenonT(40) DEF OnlyMessage
<1>. QED
  BY <1>1, <1>2, Zenon DEF DeliveryInv

\* What is known of the connection that moves and of its message.
LEMMA Facts ==
    ASSUME DeliveryInv, NEW s \in Sessions, session[s].mailFrom # None
    PROVE  /\ session[s].mailFrom \in Messages
           /\ session[s] \in SessionState /\ Empty \in SessionState
           /\ session[s].routes \subseteq Addresses /\ left[s] \subseteq Addresses
           /\ session[s].routes \subseteq To[session[s].mailFrom]
           /\ \A t \in Sessions \ {s} : session[t].mailFrom # session[s].mailFrom
           /\ outstanding[session[s].mailFrom] \subseteq Addresses
           /\ refused[session[s].mailFrom] \subseteq Addresses
           /\ copies[session[s].mailFrom] \in [Addresses -> Nat]
           /\ tries[session[s].mailFrom] \in Nat
           /\ faults \in Nat
  BY DEF DeliveryInv, DeliveryTypes, SessionState, Envelope, Empty

LEMMA RecipientUnknownStep ==
    ASSUME DeliveryInv, NEW s \in Sessions, NEW a \in Addresses, RecipientUnknown(s, a),
           faults' = faults
    PROVE  DeliveryInv'
<1>1. PICK m : m = session[s].mailFrom
  BY Zenon
<1>2. /\ phase[s] = "command" /\ m # None /\ a \in outstanding[m]
      /\ outstanding' = [outstanding EXCEPT ![m] = @ \ {a}]
      /\ refused' = [refused EXCEPT ![m] = @ \cup ({a} \cap outstanding[m])]
      /\ UNCHANGED <<phase, session, left, copies, tries>>
  BY <1>1, ZenonT(40) DEF RecipientUnknown, MayName, GiveUp
<1>3. m \in Messages /\ faults' >= faults
  BY <1>1, <1>2, Facts
<1>4. DeliveryTypes' /\ OnlyConnection(s) /\ OnlyMessage(m)
  BY <1>2, Zenon DEF DeliveryInv, DeliveryTypes, OnlyConnection, OnlyMessage
<1>5. Served(s)' = Served(s)
  BY <1>2, Zenon DEF Served
<1>6. Envelope(s)'
  BY <1>2, Zenon DEF DeliveryInv, Envelope
<1>7. \A b \in Addresses : b \in session'[s].routes => Progress(s, b)'
  BY <1>2, <1>5, Zenon DEF DeliveryInv, Progress
<1>8. ASSUME NEW b \in Addresses
      PROVE  Recorded(m, b)'
  <2>1. Recorded(m, b)
    BY <1>3, Zenon DEF DeliveryInv
  <2>2. Outstanding(m, b)' <=> Outstanding(m, b)
    BY <1>2, Zenon DEF Outstanding, Served
  <2>3. /\ outstanding'[m] = outstanding[m] \ {a}
        /\ refused'[m] = refused[m] \cup {a}
    BY <1>2, <1>3, Zenon DEF DeliveryInv, DeliveryTypes
  <2>. QED
    BY <1>2, <2>1, <2>2, <2>3, Zenon DEF Recorded
<1>. QED
  BY <1>1, <1>2, <1>3, <1>4, <1>6, <1>7, <1>8, MessageStep, ZenonT(40)

\* The transaction is over: the envelope is empty.
LEMMA EmptyEnvelope ==
    ASSUME NEW s \in Sessions, left'[s] = {}, session'[s] = Empty, phase'[s] = "command"
    PROVE  /\ Envelope(s)'
           /\ session'[s].mailFrom = None
           /\ \A a \in Addresses : a \in session'[s].routes => Progress(s, a)'
  BY DEF Envelope, Empty

LEMMA DataTooLargeStep ==
    ASSUME DeliveryInv, NEW s \in Sessions, DataTooLarge(s), faults' = faults
    PROVE  DeliveryInv'
<1>1. PICK m : m = session[s].mailFrom
  BY Zenon
<1>2. phase[s] = "data" /\ m # None /\ left[s] = {} /\ Served(s) = {}
  BY <1>1, Zenon DEF DataTooLarge, DeliveryInv, Envelope, Served
<1>3. /\ m \in Messages /\ faults' >= faults
      /\ session[s].routes \subseteq Addresses
      /\ session[s].routes \subseteq To[m] /\ Empty \in SessionState
  BY <1>1, <1>2, Facts
<1>. DEFINE o == outstanding[m] \ session[s].routes
            r == refused[m] \cup (session[s].routes \cap outstanding[m])
<1>4. /\ phase' = [phase EXCEPT ![s] = "command"]
      /\ session' = [session EXCEPT ![s] = Empty]
      /\ outstanding' = [outstanding EXCEPT ![m] = o]
      /\ refused' = [refused EXCEPT ![m] = r]
      /\ UNCHANGED <<left, copies, tries>>
  BY <1>1, Zenon DEF DataTooLarge, GiveUp, GoTo, Reset
<1>5. DeliveryTypes' /\ OnlyConnection(s) /\ OnlyMessage(m)
  BY <1>3, <1>4, Zenon DEF DeliveryInv, DeliveryTypes, OnlyConnection, OnlyMessage, Phases
<1>6. /\ phase'[s] = "command" /\ session'[s] = Empty /\ left'[s] = {}
      /\ outstanding'[m] = o /\ refused'[m] = r
  BY <1>2, <1>3, <1>4, Zenon DEF DeliveryInv, DeliveryTypes
<1>7. ASSUME NEW a \in Addresses
      PROVE  Recorded(m, a)'
  <2>1. Recorded(m, a)
    BY <1>3, Zenon DEF DeliveryInv
  <2>2. a \in outstanding[m] => Outstanding(m, a)'
    BY <1>1, <1>2, <1>4, ServedHere, Zenon DEF Outstanding
  <2>. QED
    BY <1>4, <1>6, <2>1, <2>2, Zenon DEF Recorded
<1>8. /\ Envelope(s)' /\ session'[s].mailFrom = None
      /\ \A a \in Addresses : a \in session'[s].routes => Progress(s, a)'
  BY <1>6, EmptyEnvelope, Zenon
<1>. QED
  BY <1>1, <1>2, <1>3, <1>5, <1>7, <1>8, MessageStep, ZenonT(40)

\* The shared address that comes first is one of those that are left.
LEMMA MinOfAddresses ==
    ASSUME NEW S \in SUBSET Addresses, S # {}
    PROVE  Min(S) \in S
<1>1. S \subseteq Nat
  BY AddressesAssumption, Zenon
<1>2. PICK x \in S : \A y \in S : ~(<<y, x>> \in OpToRel(<, Nat))
  BY <1>1, WFMin, NatLessThanWellFounded, Zenon
<1>3. \A y \in S : ~(y < x)
  BY <1>1, <1>2, Zenon DEF OpToRel
<1>4. \A y \in S : x <= y
  BY <1>1, <1>3
<1>. QED
  BY <1>4, Zenon DEF Min

LEMMA DataReceivedStep ==
    ASSUME DeliveryInv, NEW s \in Sessions, DataReceived(s), faults' = faults
    PROVE  DeliveryInv'
<1>1. PICK m : m = session[s].mailFrom
  BY Zenon
<1>2. phase[s] = "data" /\ m # None /\ Served(s) = {} /\ Envelope(s)
  BY <1>1, Zenon DEF DataReceived, DeliveryInv, Envelope, Served
<1>3. /\ m \in Messages /\ faults \in Nat /\ faults' >= faults /\ tries[m] \in Nat
      /\ copies[m] \in [Addresses -> Nat]
      /\ session[s].routes \subseteq Addresses /\ session[s].routes \subseteq To[m]
  BY <1>1, <1>2, Facts
<1>4. /\ phase' = [phase EXCEPT ![s] = "forward"]
      /\ left' = [left EXCEPT ![s] = session[s].routes]
      /\ tries' = [tries EXCEPT ![m] = tries[m] + 1]
      /\ UNCHANGED <<session, outstanding, refused, copies>>
  BY <1>1, ZenonT(40) DEF DataReceived, GoTo
<1>5. DeliveryTypes' /\ OnlyConnection(s) /\ OnlyMessage(m)
  BY <1>3, <1>4 DEF DeliveryInv, DeliveryTypes, OnlyConnection, OnlyMessage, Phases
<1>6. phase'[s] = "forward" /\ left'[s] = session[s].routes /\ tries'[m] = tries[m] + 1
  BY <1>3, <1>4, Zenon DEF DeliveryInv, DeliveryTypes
<1>7. \A a \in Addresses : Recorded(m, a) /\ copies[m][a] \in Nat
  BY <1>3, Zenon DEF DeliveryInv
<1>8. Envelope(s)' /\ Served(s)' = {}
  BY <1>2, <1>4, <1>6, Zenon DEF Envelope, Served
<1>9. ASSUME NEW a \in Addresses, a \in session'[s].routes
      PROVE  Progress(s, a)'
  <2>1. copies[m][a] <= faults
    BY <1>1, <1>2, <1>4, <1>9, Zenon DEF DeliveryInv, Progress
  <2>2. copies[m][a] <= tries[m]
    BY <1>3, <1>4, <1>7, <1>9, Zenon DEF Recorded
  <2>3. copies[m][a] < tries[m] + 1
    BY <1>3, <1>7, <2>2
  <2>. QED
    BY <1>1, <1>4, <1>6, <1>8, <2>1, <2>3, ZenonT(40) DEF Progress
<1>10. ASSUME NEW a \in Addresses
       PROVE  Recorded(m, a)'
  <2>1. a \in outstanding[m] => Outstanding(m, a)'
    BY <1>1, <1>2, <1>4, ServedHere, ZenonT(40) DEF Outstanding
  <2>2. copies[m][a] <= IF a \in To[m] THEN tries[m] + 1 ELSE 0
    BY <1>3, <1>7 DEF Recorded
  <2>. QED
    BY <1>4, <1>6, <1>7, <2>1, <2>2, Zenon DEF Recorded
<1>11. session'[s].mailFrom = m
  BY <1>1, <1>4, Zenon
<1>. QED
  BY <1>1, <1>2, <1>3, <1>5, <1>8, <1>9, <1>10, <1>11, MessageStep, ZenonT(40)

\* The relay call of a connection, as far as the message is concerned.
LEMMA RelayCall ==
    ASSUME DeliveryInv, NEW s \in Sessions, phase[s] = "forward", left[s] # {}
    PROVE  \E m \in Messages, a \in Addresses :
            /\ m = session[s].mailFrom /\ m # None
            /\ a = Min(left[s]) /\ a \in left[s] /\ a \in session[s].routes
            /\ a \in To[m] /\ a \notin Served(s)
            /\ copies[m][a] <= faults /\ copies[m][a] < tries[m]
<1>1. /\ left[s] \in SUBSET Addresses /\ session[s].mailFrom # None /\ Envelope(s)
  BY Zenon DEF DeliveryInv, DeliveryTypes, Envelope
<1>2. Min(left[s]) \in left[s]
  BY <1>1, MinOfAddresses, Zenon
<1>3. session[s].mailFrom \in Messages /\ session[s].routes \subseteq To[session[s].mailFrom]
  BY <1>1, Facts, Zenon
<1>4. Min(left[s]) \notin Served(s) /\ Min(left[s]) \in session[s].routes
  BY <1>1, <1>2, Zenon DEF Served, Envelope
<1>5. Progress(s, Min(left[s]))
  BY <1>1, <1>2, <1>4, Zenon DEF DeliveryInv
<1>. QED
  BY <1>1, <1>2, <1>3, <1>4, <1>5, Zenon DEF Progress

LEMMA ForwardStep ==
    ASSUME DeliveryInv, NEW s \in Sessions, Forward(s), faults' = faults
    PROVE  DeliveryInv'
<1>1. PICK m \in Messages, a \in Addresses :
        /\ m = session[s].mailFrom /\ m # None
        /\ a = Min(left[s]) /\ a \in left[s] /\ a \in session[s].routes
        /\ a \in To[m] /\ a \notin Served(s)
        /\ copies[m][a] <= faults /\ copies[m][a] < tries[m]
  BY RelayCall, Zenon DEF Forward
<1>2. /\ phase[s] = "forward" /\ Envelope(s)
      /\ copies' = [copies EXCEPT ![m][a] = @ + 1]
      /\ left' = [left EXCEPT ![s] = @ \ {a}]
      /\ UNCHANGED <<phase, session, outstanding, refused, tries>>
  BY <1>1, ZenonT(40) DEF Forward, Taken, DeliveryInv
<1>3. faults \in Nat /\ faults' >= faults /\ tries[m] \in Nat /\ copies[m] \in [Addresses -> Nat]
  BY <1>1, Facts, SMTT(30)
<1>4. DeliveryTypes' /\ OnlyConnection(s) /\ OnlyMessage(m)
  BY <1>1, <1>2 DEF DeliveryInv, DeliveryTypes, OnlyConnection, OnlyMessage
<1>5. /\ left'[s] = left[s] \ {a} /\ copies'[m][a] = copies[m][a] + 1
      /\ \A b \in Addresses \ {a} : copies'[m][b] = copies[m][b]
  BY <1>1, <1>2, <1>3, Zenon DEF DeliveryInv, DeliveryTypes
<1>6. Served(s)' = Served(s) \cup {a}
  BY <1>1, <1>2, <1>5, Zenon DEF Served
<1>7. Envelope(s)' /\ session'[s].mailFrom = m
  BY <1>1, <1>2, <1>5, ZenonT(40) DEF Envelope
<1>8. ASSUME NEW b \in Addresses, b \in session'[s].routes
      PROVE  Progress(s, b)'
  <2>1. Progress(s, b)
    BY <1>2, <1>8, ZenonT(40) DEF DeliveryInv
  <2>2. CASE b = a
    BY <1>1, <1>2, <1>3, <1>5, <1>6, <1>7, <2>2, SMTT(30) DEF Progress
  <2>3. CASE b # a
    BY <1>1, <1>2, <1>5, <1>6, <1>7, <2>1, <2>3, ZenonT(40) DEF Progress
  <2>. QED
    BY <2>2, <2>3, Zenon
<1>9. ASSUME NEW b \in Addresses
      PROVE  Recorded(m, b)'
  <2>1. Recorded(m, b)
    BY Zenon DEF DeliveryInv
  <2>2. CASE b = a
    <3>1. Outstanding(m, a)'
      BY <1>6, <1>7, ZenonT(40) DEF Outstanding
    <3>2. /\ copies'[m][a] >= 1 /\ copies'[m][a] <= tries[m] /\ copies'[m][a] <= 1 + faults
      BY <1>1, <1>3, <1>5, SMTT(30)
    <3>3. a \in outstanding'[m] => a \in To[m]
      BY <1>1, Zenon
    <3>. QED
      BY <1>1, <1>2, <2>2, <3>1, <3>2, <3>3, ZenonT(40) DEF Recorded
  <2>3. CASE b # a
    <3>1. b \in outstanding[m] => Outstanding(m, b)'
      BY <1>1, <1>2, <1>5, <1>6, <1>7, <2>3, ServedHere, SMTT(30) DEF Outstanding
    <3>. QED
      BY <1>2, <1>5, <2>1, <2>3, <3>1, ZenonT(40) DEF Recorded
  <2>. QED
    BY <2>2, <2>3, Zenon
<1>. QED
  BY <1>1, <1>3, <1>4, <1>7, <1>8, <1>9, MessageStep, ZenonT(40)

\* A transaction that ends in a fault leaves every copy within the faults.
LEMMA FaultEnds ==
    ASSUME DeliveryInv, NEW s \in Sessions, NEW m \in Messages, m = session[s].mailFrom,
           m # None, DeliveryTypes',
           phase' = [phase EXCEPT ![s] = "command"],
           session' = [session EXCEPT ![s] = Empty],
           left' = [left EXCEPT ![s] = {}],
           UNCHANGED <<outstanding, refused, tries>>, OnlyMessage(m),
           faults' = faults + 1,
           \A a \in Addresses :
                \/ copies'[m][a] = copies[m][a]
                \/ /\ copies'[m][a] = copies[m][a] + 1
                   /\ copies[m][a] <= faults /\ copies[m][a] < tries[m] /\ a \in To[m]
    PROVE  DeliveryInv'
<1>1. faults \in Nat /\ faults' >= faults /\ tries[m] \in Nat /\ copies[m] \in [Addresses -> Nat]
  BY Facts
<1>2. OnlyConnection(s) /\ left'[s] = {} /\ session'[s] = Empty /\ phase'[s] = "command"
  BY ZenonT(40) DEF DeliveryInv, DeliveryTypes, OnlyConnection
<1>3. ASSUME NEW a \in Addresses
      PROVE  Recorded(m, a)'
  <2>1. Recorded(m, a) /\ copies[m][a] \in Nat
    BY <1>1, ZenonT(40) DEF DeliveryInv
  <2>2. copies'[m][a] <= faults'
    BY <1>1, <2>1 DEF Recorded
  <2>3. Outstanding(m, a)'
    BY <2>2, ZenonT(40) DEF Outstanding
  <2>4. /\ copies'[m][a] <= IF a \in To[m] THEN tries[m] ELSE 0
        /\ copies'[m][a] >= copies[m][a] /\ copies'[m][a] <= 1 + faults'
    BY <1>1, <2>1, <2>2, SMTT(30) DEF Recorded
  <2>5. a \in To[m] \ (outstanding[m] \cup refused[m]) => copies'[m][a] >= 1
    BY <1>1, <2>1, <2>4, SMTT(30) DEF Recorded
  <2>. QED
    BY <2>1, <2>3, <2>4, <2>5, Zenon DEF Recorded
<1>4. /\ Envelope(s)' /\ session'[s].mailFrom = None
      /\ \A a \in Addresses : a \in session'[s].routes => Progress(s, a)'
  BY <1>2, EmptyEnvelope, Zenon
<1>. QED
  BY <1>1, <1>2, <1>3, <1>4, MessageStep, ZenonT(40)

LEMMA ForwardFailsStep ==
    ASSUME DeliveryInv, NEW s \in Sessions, NEW taken \in BOOLEAN, ForwardFails(s, taken),
           faults' = faults + 1
    PROVE  DeliveryInv'
<1>1. PICK m \in Messages, a \in Addresses :
        /\ m = session[s].mailFrom /\ m # None
        /\ a = Min(left[s]) /\ a \in left[s] /\ a \in session[s].routes
        /\ a \in To[m] /\ a \notin Served(s)
        /\ copies[m][a] <= faults /\ copies[m][a] < tries[m]
  BY RelayCall, Zenon DEF ForwardFails
<1>2. /\ phase' = [phase EXCEPT ![s] = "command"]
      /\ session' = [session EXCEPT ![s] = Empty]
      /\ left' = [left EXCEPT ![s] = {}]
      /\ UNCHANGED <<outstanding, refused, tries>>
      /\ copies' = [copies EXCEPT ![m][a] = @ + 1] \/ copies' = copies
  BY <1>1, Zenon DEF ForwardFails, Taken, GoTo, Reset
<1>3. Empty \in SessionState
  BY <1>1, Facts, ZenonT(40)
<1>4. DeliveryTypes'
  <2>1. copies' \in [Messages -> [Addresses -> Nat]]
    <3>1. copies \in [Messages -> [Addresses -> Nat]]
      BY Zenon DEF DeliveryInv, DeliveryTypes
    <3>2. CASE copies' = [copies EXCEPT ![m][a] = @ + 1]
      BY <3>1, <3>2
    <3>. QED
      BY <1>2, <3>1, <3>2, ZenonT(40)
  <2>. QED
    BY <1>2, <1>3, <2>1, SMTT(30) DEF DeliveryInv, DeliveryTypes, Phases
<1>5. OnlyMessage(m)
  BY <1>1, <1>2, Zenon DEF DeliveryInv, DeliveryTypes, OnlyMessage
<1>6. copies[m] \in [Addresses -> Nat]
  BY <1>1, Zenon DEF DeliveryInv, DeliveryTypes
<1>7. \A b \in Addresses :
        \/ copies'[m][b] = copies[m][b]
        \/ /\ copies'[m][b] = copies[m][b] + 1
           /\ copies[m][b] <= faults /\ copies[m][b] < tries[m] /\ b \in To[m]
  <2>. SUFFICES ASSUME NEW b \in Addresses
                PROVE  \/ copies'[m][b] = copies[m][b]
                       \/ copies'[m][b] = copies[m][b] + 1 /\ b = a
    BY <1>1, Zenon
  <2>1. CASE copies' = [copies EXCEPT ![m][a] = @ + 1]
    BY <1>6, <2>1, Zenon DEF DeliveryInv, DeliveryTypes
  <2>. QED
    BY <1>2, <2>1, Zenon
<1>. QED
  BY <1>1, <1>2, <1>4, <1>5, <1>7, FaultEnds, ZenonT(40)

LEMMA AcceptedUnheardStep ==
    ASSUME DeliveryInv, NEW s \in Sessions, AcceptedUnheard(s), faults' = faults + 1
    PROVE  DeliveryInv'
<1>1. /\ phase[s] = "forward" /\ left[s] = {}
      /\ phase' = [phase EXCEPT ![s] = "command"]
      /\ session' = [session EXCEPT ![s] = Empty]
      /\ UNCHANGED <<left, outstanding, refused, copies, tries>>
  BY Zenon DEF AcceptedUnheard, GoTo, Reset, mailVars
<1>2. session[s].mailFrom # None
  BY <1>1, Zenon DEF DeliveryInv, Envelope
<1>3. session[s].mailFrom \in Messages /\ Empty \in SessionState
  BY <1>2, Facts, ZenonT(40)
<1>4. DeliveryTypes' /\ left' = [left EXCEPT ![s] = {}] /\ OnlyMessage(session[s].mailFrom)
  BY <1>1, <1>3, SMTT(30) DEF DeliveryInv, DeliveryTypes, Phases, OnlyMessage
<1>. QED
  BY <1>1, <1>2, <1>3, <1>4, FaultEnds, Zenon

LEMMA AcceptedStep ==
    ASSUME DeliveryInv, NEW s \in Sessions, Accepted(s), faults' = faults
    PROVE  DeliveryInv'
<1>1. PICK m : m = session[s].mailFrom
  BY Zenon
<1>2. /\ phase[s] = "forward" /\ left[s] = {} /\ m # None
      /\ Served(s) = session[s].routes
  BY <1>1, Zenon DEF Accepted, DeliveryInv, Envelope, Served
<1>3. /\ m \in Messages /\ faults' >= faults /\ Empty \in SessionState
  BY <1>1, <1>2, Facts
<1>4. /\ phase' = [phase EXCEPT ![s] = "command"]
      /\ session' = [session EXCEPT ![s] = Empty]
      /\ outstanding' = [outstanding EXCEPT ![m] = @ \ session[s].routes]
      /\ UNCHANGED <<left, refused, copies, tries>>
  BY <1>1, Zenon DEF Accepted, GoTo, Reset
<1>5. DeliveryTypes' /\ OnlyConnection(s) /\ OnlyMessage(m)
  BY <1>3, <1>4, Zenon DEF DeliveryInv, DeliveryTypes, OnlyConnection, OnlyMessage, Phases
<1>6. /\ phase'[s] = "command" /\ session'[s] = Empty /\ left'[s] = {}
      /\ outstanding'[m] = outstanding[m] \ session[s].routes
  BY <1>2, <1>3, <1>4, Zenon DEF DeliveryInv, DeliveryTypes
<1>7. ASSUME NEW a \in Addresses
      PROVE  Recorded(m, a)'
  <2>1. Recorded(m, a)
    BY <1>3, Zenon DEF DeliveryInv
  <2>2. a \in session[s].routes => copies[m][a] >= 1
    BY <1>1, <1>2, Zenon DEF DeliveryInv, Progress
  <2>3. a \in outstanding'[m] => Outstanding(m, a)'
    BY <1>1, <1>2, <1>4, <1>6, ServedHere, ZenonT(40) DEF Outstanding
  <2>. QED
    BY <1>4, <1>6, <2>1, <2>2, <2>3, Zenon DEF Recorded
<1>8. /\ Envelope(s)' /\ session'[s].mailFrom = None
      /\ \A a \in Addresses : a \in session'[s].routes => Progress(s, a)'
  BY <1>6, EmptyEnvelope, Zenon
<1>. QED
  BY <1>1, <1>2, <1>3, <1>5, <1>7, <1>8, MessageStep, ZenonT(40)

LEMMA CommandSteps ==
    ASSUME DeliveryInv, NEW s \in Sessions, faults' \in Nat, faults' >= faults,
           \/ \E h \in Hosts : Accept(s, h)
           \/ Close(s) \/ Rset(s) \/ BeginData(s) \/ DataReadFails(s)
           \/ \E m \in Messages : Mail(s, m)
           \/ \E a \in Addresses : Recipient(s, a) \/ RecipientDeferred(s, a)
    PROVE  DeliveryInv'
<1>1. /\ session[s] \in SessionState /\ Empty \in SessionState
      /\ phase[s] \in Phases /\ session[s].recipients \in Nat
      /\ Empty.mailFrom = None /\ Empty.routes = {}
      /\ {"closed", "command", "data"} \subseteq Phases \ {"forward"}
      /\ session = [session EXCEPT ![s] = session[s]] /\ phase = [phase EXCEPT ![s] = phase[s]]
  BY Zenon DEF DeliveryInv, DeliveryTypes, SessionState, Empty, Phases
<1>2. CASE \/ \E h \in Hosts : Accept(s, h)
           \/ Close(s) \/ Rset(s)
  <2>1. \E p \in {"closed", "command"} :
            /\ phase' = [phase EXCEPT ![s] = p]
            /\ phase[s] # "forward"
            /\ session' = [session EXCEPT ![s] = Empty]
            /\ UNCHANGED <<left, mailVars>>
    BY <1>1, <1>2, Zenon DEF Accept, Close, Rset, GoTo, Reset
  <2>. QED
    BY <1>1, <2>1, CommandStep, Zenon
<1>3. ASSUME NEW m \in Messages, Mail(s, m)
      PROVE  DeliveryInv'
  <2>. DEFINE new == [mailFrom |-> m, recipients |-> 0, routes |-> {}]
  <2>1. /\ phase[s] = "command" /\ phase' = [phase EXCEPT ![s] = "command"]
        /\ session' = [session EXCEPT ![s] = new]
        /\ UNCHANGED <<left, mailVars>>
        /\ \A t \in Sessions \ {s} : session[t].mailFrom # m
    BY <1>1, <1>3, Zenon DEF Mail, MayStart
  <2>2. new \in SessionState /\ new.routes = {} /\ new.mailFrom = m
    BY Zenon DEF SessionState
  <2>. HIDE DEF new
  <2>. QED
    BY <1>1, <2>1, <2>2, CommandStep, ZenonT(40)
<1>4. ASSUME NEW a \in Addresses, Recipient(s, a)
      PROVE  DeliveryInv'
  <2>. DEFINE new == [mailFrom |-> session[s].mailFrom,
                      recipients |-> session[s].recipients + 1,
                      routes |-> session[s].routes \cup {a}]
  <2>1. /\ phase[s] = "command" /\ phase' = [phase EXCEPT ![s] = "command"]
        /\ session' = [session EXCEPT ![s] = new]
        /\ UNCHANGED <<left, mailVars>>
        /\ session[s].mailFrom # None /\ a \in outstanding[session[s].mailFrom]
    BY <1>1, <1>4, Zenon DEF Recipient, MayName
  <2>2. /\ new \in SessionState /\ new.mailFrom = session[s].mailFrom
        /\ new.routes = session[s].routes \cup {a}
    BY <1>1 DEF SessionState
  <2>. HIDE DEF new
  <2>3. new.routes \subseteq session[s].routes \cup outstanding[new.mailFrom]
    BY <2>1, <2>2, Zenon
  <2>. QED
    BY <1>1, <2>1, <2>2, <2>3, CommandStep, Zenon
<1>5. CASE \/ BeginData(s) \/ DataReadFails(s)
           \/ \E a \in Addresses : RecipientDeferred(s, a)
  <2>1. \E p \in {"command", "data"} :
            /\ phase' = [phase EXCEPT ![s] = p]
            /\ phase[s] # "forward" /\ session[s].mailFrom # None
            /\ session' = [session EXCEPT ![s] = session[s]]
            /\ UNCHANGED <<left, mailVars>>
    BY <1>1, <1>5, Zenon
    DEF BeginData, DataReadFails, RecipientDeferred, MayName, GoTo, DeliveryInv, Envelope
  <2>. QED
    BY <1>1, <2>1, CommandStep, ZenonT(40)
<1>. QED
  BY <1>2, <1>3, <1>4, <1>5, Zenon

LEMMA SameDelivery ==
    ASSUME DeliveryInv, UNCHANGED <<phase, session, left, mailVars>>,
           faults' \in Nat, faults' >= faults
    PROVE  DeliveryInv'
<1>. USE DEF mailVars
<1>1. DeliveryTypes' /\ \A s \in Sessions : Envelope(s)' /\ Served(s)' = Served(s)
  BY ZenonT(40) DEF DeliveryInv, DeliveryTypes, Envelope, Served
<1>2. ASSUME NEW s \in Sessions, NEW a \in Addresses, a \in session[s].routes
      PROVE  Progress(s, a)'
  <2>1. Progress(s, a) /\ session[s].mailFrom \in Messages
    BY <1>2 DEF DeliveryInv, DeliveryTypes, Envelope, SessionState
  <2>2. copies[session[s].mailFrom][a] \in Nat /\ faults \in Nat
    BY <2>1, ZenonT(40) DEF DeliveryInv, DeliveryTypes
  <2>. QED
    BY <1>1, <2>1, <2>2, SMTT(30) DEF Progress
<1>3. ASSUME NEW m \in Messages, NEW a \in Addresses
      PROVE  Recorded(m, a)'
  <2>1. Recorded(m, a) /\ copies[m][a] \in Nat /\ faults \in Nat
    BY Zenon DEF DeliveryInv, DeliveryTypes
  <2>2. Outstanding(m, a) => Outstanding(m, a)'
    BY <1>1, <2>1 DEF Outstanding
  <2>. QED
    BY <2>1, <2>2 DEF Recorded
<1>. QED
  BY <1>1, <1>2, <1>3, Zenon DEF DeliveryInv

LEMMA NextDelivery == DeliveryInv /\ [Next]_vars => DeliveryInv'
<1>. SUFFICES ASSUME DeliveryInv, [Next]_vars PROVE DeliveryInv'
  BY Zenon
<1>1. faults \in Nat
  BY Zenon DEF DeliveryInv, DeliveryTypes
<1>2. CASE UNCHANGED vars
  BY <1>1, <1>2, SameDelivery, SMTT(30) DEF vars
<1>3. ASSUME NEW a \in Addresses, Reconfigure(a) /\ Fault
      PROVE  DeliveryInv'
  BY <1>1, <1>3, SameDelivery, SMTT(30) DEF Reconfigure, Fault
<1>4. ASSUME NEW s \in Sessions, (Open(s) \/ Deliver(s) \/ Serve(s) \/ Quit(s)) /\ UNCHANGED faults
      PROVE  DeliveryInv'
  <2>1. faults' = faults /\ faults' \in Nat /\ faults' >= faults
    BY <1>1, <1>4
  <2>2. \/ \E h \in Hosts : Accept(s, h)
        \/ Close(s) \/ BeginData(s)
        \/ \E m \in Messages : Mail(s, m)
        \/ \E a \in Addresses : Recipient(s, a)
        \/ \E a \in Addresses : RecipientUnknown(s, a)
        \/ DataReceived(s) \/ DataTooLarge(s) \/ Forward(s) \/ Accepted(s)
    BY <1>4, Zenon DEF Open, Deliver, Serve, Quit
  <2>. QED
    BY <2>1, <2>2, CommandSteps, RecipientUnknownStep, DataReceivedStep, DataTooLargeStep,
       ForwardStep, AcceptedStep, ZenonT(40)
<1>5. ASSUME NEW s \in Sessions, Disturb(s) /\ Fault
      PROVE  DeliveryInv'
  <2>1. faults' = faults + 1 /\ faults' \in Nat /\ faults' >= faults
    BY <1>1, <1>5 DEF Fault
  <2>2. \/ Close(s) \/ Rset(s) \/ DataReadFails(s)
        \/ \E m \in Messages : Mail(s, m)
        \/ \E a \in Addresses : RecipientDeferred(s, a)
        \/ \E taken \in BOOLEAN : ForwardFails(s, taken)
        \/ AcceptedUnheard(s)
    BY <1>5, ZenonT(40) DEF Disturb
  <2>. QED
    BY <2>1, <2>2, CommandSteps, ForwardFailsStep, AcceptedUnheardStep, ZenonT(40)
<1>. QED
  BY <1>2, <1>3, <1>4, <1>5, Zenon DEF Next

\* Whatever fails and however often a message comes back: what the sending
\* server has crossed off was served or refused for good, and a route gets one
\* copy per transaction and one more only after a fault (handleData,
\* forwardRoutes).
THEOREM CopiesAlwaysAccounted == Spec => []CopiesAccounted
<1>1. DeliveryInv => CopiesAccounted
  BY Zenon DEF DeliveryInv, Recorded, CopiesAccounted
<1>. QED
  BY <1>1, InitDelivery, NextDelivery, PTL DEF Spec
=============================================================================
