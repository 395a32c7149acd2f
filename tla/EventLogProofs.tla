--------------------------- MODULE EventLogProofs ---------------------------
(***************************************************************************)
(* Proofs about EventLog, whatever the rows, the tenants, the filters and  *)
(* the size of a page: the invariant that every step of the page and of    *)
(* the server keeps, and from which the properties of the table follow.    *)
(***************************************************************************)
EXTENDS EventLog, FiniteSetTheorems, WellFoundedInduction, TLAPS

RowStatus == {"none", "queued", "sent", "cancelled"}
Item == [id : Ids, status : RowStatus]
Cursors == {CursorOf(i) : i \in Ids}

\* Newest first.
Sorted(items) ==
    \A k, l \in 1..Len(items) : k < l => Newer(items[k].id, items[l].id)

\* The row was one of those the filter asks for when it was read.
Matches(item, filter) ==
    /\ TenantOf[item.id] = filter.tenant
    /\ filter.statuses # {} => item.status \in filter.statuses
    /\ filter.query # "" => filter.query \in Texts[item.id] \cup {item.status}

AllMatch(items, filter) == \A k \in 1..Len(items) : Matches(items[k], filter)

\* A row that no longer is what the filter asks for never will be again.
Settled(i, filter) ==
    status[i] # "none" /\ (i \notin notificationListQuery(filter) => status[i] # "queued")

\* The row comes on a later page.
Behind(i, cursor) == cursor # NoCursor /\ notificationCursorCondition(i, cursor)

\* The next page starts after the last of the rows.
EndsAt(items, cursor) ==
    /\ cursor \in Cursors \cup {NoCursor}
    /\ cursor # NoCursor /\ items # <<>> => cursor = CursorOf(items[Len(items)].id)

\* Of these rows none is missing, or it comes later.
Reached(rows, filter, items, cursor) ==
    \A i \in rows \cap notificationListQuery(filter) : i \in ItemIds(items) \/ Behind(i, cursor)

LogTypes ==
    /\ status \in [Ids -> RowStatus]
    /\ requestSequence \in Nat
    /\ notifications \in Seq(Item)
    /\ due \subseteq Ids
    /\ \A e \in edits : e.id \in Ids
    /\ auth \in {"hydrating", "in", "out"}

\* Before the session starts nothing is under way.
WaitingInv ==
    auth = "hydrating" =>
        /\ sent = {} /\ answered = {} /\ edits = {}
        /\ ~searchTimer /\ tenantLoad.phase = "idle" /\ selectedTenantId = NoTenant

\* A load has one request, which is on its way to the server or back.
LoadsInv ==
    /\ \A r, s \in sent : r.load = s.load => r = s
    /\ \A a, b \in answered : a.request.load = b.request.load => a = b
    /\ \A r \in sent, a \in answered : r.load # a.request.load

\* What the last load asks for is what the controls ask for, and it asks for
\* the page after the last row of the table.
RequestInv(r) ==
    /\ r.load \in Nat /\ r.load <= requestSequence
    /\ r.cursor \in Cursors \cup {NoCursor}
    /\ r.reset <=> r.cursor = NoCursor
    /\ r.load = requestSequence => EndsAt(notifications, r.cursor)
    /\ r.load = requestSequence /\ Browsing =>
        r.filter = Selection /\ (~r.reset => r.cursor = nextCursor)

AnswerInv(a) ==
    /\ a.items \in Seq(Item) /\ Sorted(a.items) /\ AllMatch(a.items, a.request.filter)
    /\ ~a.request.reset =>
        \A k \in 1..Len(a.items) : notificationCursorCondition(a.items[k].id, a.request.cursor)
    /\ EndsAt(a.items, a.next) /\ (a.next # NoCursor => a.items # <<>>)
    /\ a.matched \subseteq Ids
    /\ \A i \in a.matched : Settled(i, a.request.filter)
    /\ a.ok /\ a.request.reset => Reached(a.matched, a.request.filter, a.items, a.next)
    /\ a.ok /\ ~a.request.reset /\ a.request.load = requestSequence /\ Browsing =>
        Reached({i \in due : Behind(i, nextCursor)}, Selection, a.items, a.next)

TableInv ==
    /\ Sorted(notifications)
    /\ EndsAt(notifications, nextCursor)
    /\ Browsing =>
        /\ AllMatch(notifications, Selection)
        /\ \A i \in due : Settled(i, Selection)
        /\ Reached(due, Selection, notifications, nextCursor)

LogInv ==
    /\ LogTypes /\ WaitingInv /\ LoadsInv /\ TableInv
    /\ \A r \in sent : RequestInv(r)
    /\ \A a \in answered : RequestInv(a.request) /\ AnswerInv(a)


-----------------------------------------------------------------------------
(* The listing *)

\* A set that contains 0 and with each number its successor contains them all.
LEMMA SetInduction ==
    ASSUME NEW S, 0 \in S, \A n \in Nat : n \in S => n + 1 \in S
    PROVE  Nat \subseteq S
<1> DEFINE T == Nat \ S
<1> SUFFICES ASSUME T # {}
             PROVE  FALSE
    BY Zenon
<1>1. PICK x \in T : \A y \in T : ~(<<y, x>> \in OpToRel(<, Nat))
    <2> HIDE DEF T
    <2>1. T \subseteq Nat
        BY Zenon DEF T
    <2> QED
        BY <2>1, WFMin, NatLessThanWellFounded, Zenon
<1>2. \A y \in T : ~(y < x)
    BY <1>1, Zenon DEF OpToRel
<1>3. x # 0 /\ x - 1 \in Nat /\ x - 1 < x
    OBVIOUS
<1>4. x - 1 \in S
    BY <1>2, <1>3, Zenon
<1> QED
    BY <1>3, <1>4

LEMMA LeastNumber ==
    ASSUME NEW T, T \subseteq Nat, T # {}
    PROVE  \E x \in T : \A y \in T : x <= y
<1>1. PICK x \in T : \A y \in T : ~(<<y, x>> \in OpToRel(<, Nat))
    BY WFMin, NatLessThanWellFounded, Zenon
<1>2. \A y \in T : ~(y < x)
    BY <1>1, Zenon DEF OpToRel
<1>3. \A y \in T : x \in Nat /\ y \in Nat
    BY Zenon
<1>4. \A y \in T : x <= y
    BY <1>2, <1>3
<1> QED
    BY <1>4, Zenon

LEMMA CreatedAtType == Ids \subseteq Nat /\ IsFiniteSet(Ids) /\ \A i \in Ids : CreatedAt[i] \in Nat
<1>1. Len(CreatedAt) \in Nat /\ \A i \in 1..Len(CreatedAt) : CreatedAt[i] \in Nat
    BY IdsAssumption
<1>2. IsFiniteSet(1..Len(CreatedAt))
    BY <1>1, FS_Interval
<1> QED
    BY <1>1, <1>2, IdsAssumption

\* The order of the listing is strict.
LEMMA NewerIsStrict ==
    ASSUME NEW i \in Ids, NEW j \in Ids
    PROVE  /\ Newer(i, j) => i # j
           /\ Newer(i, j) <=> notificationCursorCondition(j, CursorOf(i))
           /\ \A k \in Ids : Newer(i, j) /\ Newer(j, k) => Newer(i, k)
    BY CreatedAtType DEF Newer, notificationCursorCondition, CursorOf

LEMMA OldestRow ==
    ASSUME NEW rows, rows \subseteq Ids, rows # {}
    PROVE  \E m \in rows : \A i \in rows \ {m} : Newer(i, m)
<1> DEFINE Times == {CreatedAt[i] : i \in rows}
<1>1. Times \subseteq Nat /\ Times # {}
    BY CreatedAtType, Zenon
<1>2. PICK t \in Times : \A u \in Times : t <= u
    <2> HIDE DEF Times
    <2> QED
        BY <1>1, LeastNumber, Zenon
<1> DEFINE First == {i \in rows : CreatedAt[i] = t}
<1>3. First \subseteq Nat /\ First # {}
    BY CreatedAtType, Zenon
<1>4. PICK m \in First : \A i \in First : m <= i
    <2> HIDE DEF First
    <2> QED
        BY <1>3, LeastNumber, Zenon
<1>5. ASSUME NEW i \in rows \ {m}
      PROVE  Newer(i, m)
    <2>1. t <= CreatedAt[i] /\ CreatedAt[m] = t /\ (CreatedAt[i] = t => m <= i)
        BY <1>2, <1>4, Zenon
    <2>2. CreatedAt[i] \in Nat /\ CreatedAt[m] \in Nat /\ i \in Nat /\ m \in Nat /\ i # m
        BY <1>4, CreatedAtType, Zenon
    <2> QED
        BY <2>1, <2>2 DEF Newer
<1> QED
    BY <1>4, <1>5, Zenon

\* Every set of rows has an order that is newest first.
LEMMA OrderExists ==
    ASSUME NEW rows, rows \subseteq Ids
    PROVE  /\ IsFiniteSet(rows) /\ Cardinality(rows) \in Nat
           /\ \E records \in [1..Cardinality(rows) -> rows] :
                \A k, l \in 1..Cardinality(rows) : k < l => Newer(records[k], records[l])
<1> DEFINE Ordered(r, n) == \E f \in [1..n -> r] : \A k, l \in 1..n : k < l => Newer(f[k], f[l])
           S == {n \in Nat : \A r \in SUBSET Ids : Cardinality(r) = n => Ordered(r, n)}
<1>0. \A r \in SUBSET Ids : IsFiniteSet(r) /\ Cardinality(r) \in Nat
    BY CreatedAtType, FS_Subset, FS_CardinalityType, Zenon
<1>1. 0 \in S
    <2> SUFFICES ASSUME NEW r \in SUBSET Ids
                 PROVE  Ordered(r, 0)
        OBVIOUS
    <2>1. 1..0 = {}
        OBVIOUS
    <2>2. [k \in 1..0 |-> 0] \in [1..0 -> r]
        BY <2>1
    <2> QED
        BY <2>1, <2>2, Zenon
<1>2. ASSUME NEW n \in Nat, n \in S
      PROVE  n + 1 \in S
    <2> SUFFICES ASSUME NEW r \in SUBSET Ids, Cardinality(r) = n + 1
                 PROVE  Ordered(r, n + 1)
        OBVIOUS
    <2>1. r # {}
        BY FS_EmptySet
    <2>2. PICK m \in r : \A i \in r \ {m} : Newer(i, m)
        BY <2>1, OldestRow, Zenon
    <2>3. Cardinality(r \ {m}) = n
        BY <1>0, FS_RemoveElement
    <2>4. PICK f \in [1..n -> r \ {m}] : \A k, l \in 1..n : k < l => Newer(f[k], f[l])
        <3>1. r \ {m} \in SUBSET Ids
            BY Zenon
        <3> QED
            BY <1>2, <2>3, <3>1, Zenon
    <2> DEFINE g == [k \in 1..(n + 1) |-> IF k <= n THEN f[k] ELSE m]
    <2>5. g \in [1..(n + 1) -> r]
        BY <2>4
    <2>6. ASSUME NEW k \in 1..(n + 1), NEW l \in 1..(n + 1), k < l
          PROVE  Newer(g[k], g[l])
        <3>1. k \in 1..n /\ g[k] = f[k] /\ f[k] \in r \ {m}
            BY <2>4, <2>6
        <3>2. CASE l = n + 1
            <4>1. g[l] = m
                BY <3>2
            <4> HIDE DEF g
            <4> QED
                BY <2>2, <3>1, <4>1, Zenon
        <3>3. CASE l # n + 1
            <4>1. l \in 1..n /\ g[l] = f[l]
                BY <3>3
            <4> HIDE DEF g
            <4> QED
                BY <2>4, <2>6, <3>1, <4>1, Zenon
        <3> QED
            BY <3>2, <3>3, Zenon
    <2> HIDE DEF g
    <2> QED
        BY <2>5, <2>6, Zenon
<1>3. Cardinality(rows) \in S
    <2> HIDE DEF S
    <2> QED
        BY <1>0, <1>1, <1>2, SetInduction, Zenon
<1> QED
    BY <1>0, <1>3, Zenon

LEMMA NewestFirstIs ==
    ASSUME NEW rows, rows \subseteq Ids, NEW records, records = NewestFirst(rows)
    PROVE  /\ records \in Seq(rows)
           /\ \A k, l \in 1..Len(records) : k < l => Newer(records[k], records[l])
           /\ \A i \in rows : \E k \in 1..Len(records) : records[k] = i
<1> DEFINE n == Cardinality(rows)
           Ordered(f) == \A k, l \in 1..n : k < l => Newer(f[k], f[l])
<1>1. n \in Nat /\ IsFiniteSet(rows) /\ \E f \in [1..n -> rows] : Ordered(f)
    BY OrderExists, Zenon
<1>2. records \in [1..n -> rows] /\ Ordered(records)
    BY <1>1, Zenon DEF NewestFirst
<1>3. ASSUME NEW k \in 1..n, NEW l \in 1..n, records[k] = records[l]
      PROVE  k = l
    <2>1. records[k] \in Ids /\ records[l] \in Ids
        BY <1>2, Zenon
    <2>2. ~Newer(records[k], records[l]) /\ ~Newer(records[l], records[k])
        BY <1>3, <2>1, NewerIsStrict, Zenon
    <2>3. ~(k < l) /\ ~(l < k)
        BY <1>2, <2>2, Zenon
    <2> QED
        BY <1>1, <2>3
<1> HIDE DEF n
<1>4. records \in Surjection(1..n, rows)
    <2>1. records \in Injection(1..n, rows)
        BY <1>2, <1>3, Zenon DEF Injection, IsInjective
    <2>2. Cardinality(1..n) = n
        BY <1>1, FS_Interval
    <2> QED
        BY <1>1, <2>1, <2>2, FS_Injection, Zenon DEF n
<1>5. records \in Seq(rows) /\ Len(records) = n
    BY <1>1, <1>2
<1> QED
    BY <1>2, <1>4, <1>5, Zenon DEF Surjection


\* A page is newest first, holds rows the filter asks for, behind the cursor,
\* and leaves out none of those that its own cursor does not stand before.
LEMMA PageIs ==
    ASSUME NEW filter, NEW cursor \in Cursors \cup {NoCursor},
           NEW page, page = ListNotificationsPage(filter, cursor)
    PROVE  /\ page.items \in Seq(notificationListQuery(filter))
           /\ \A k, l \in 1..Len(page.items) : k < l => Newer(page.items[k], page.items[l])
           /\ cursor # NoCursor =>
                \A k \in 1..Len(page.items) : notificationCursorCondition(page.items[k], cursor)
           /\ \/ page.next = NoCursor
              \/ page.items # <<>> /\ page.next = CursorOf(page.items[Len(page.items)])
           /\ \A i \in notificationListQuery(filter) :
                (cursor # NoCursor => notificationCursorCondition(i, cursor)) =>
                    (\E k \in 1..Len(page.items) : page.items[k] = i) \/ Behind(i, page.next)
<1>0. PICK found : found = {i \in notificationListQuery(filter) :
                                cursor # NoCursor => notificationCursorCondition(i, cursor)}
    BY Zenon
<1>1. found \subseteq Ids
    BY <1>0, Zenon DEF notificationListQuery, Existing
<1>2. PICK records : records = NewestFirst(found)
    BY Zenon
<1>3. page = notificationPageFromRecords(records)
    BY <1>0, <1>2, Zenon DEF ListNotificationsPage
<1>4. /\ records \in Seq(found)
      /\ \A k, l \in 1..Len(records) : k < l => Newer(records[k], records[l])
      /\ \A i \in found : \E k \in 1..Len(records) : records[k] = i
    BY <1>1, <1>2, NewestFirstIs
<1>5. \A k \in 1..Len(records) : records[k] \in found /\ records[k] \in Ids
    BY <1>1, <1>4
<1>a. /\ page.items \in Seq(found) /\ Len(page.items) <= Len(records)
      /\ \A k \in 1..Len(page.items) : page.items[k] = records[k]
      /\ \/ page.next = NoCursor /\ Len(page.items) = Len(records)
         \/ /\ page.items # <<>> /\ page.next = CursorOf(page.items[Len(page.items)])
            /\ page.next \in Cursors
    <2>1. CASE Len(records) <= Limit
        <3>1. page = [items |-> records, next |-> NoCursor]
            BY <1>3, <2>1, Zenon DEF notificationPageFromRecords
        <3> QED
            BY <1>4, <3>1
    <2>2. CASE ~(Len(records) <= Limit)
        <3>1. /\ page.items = SubSeq(records, 1, Limit)
              /\ page.next = CursorOf(records[Limit])
<4>1. PICK first, last : first = SubSeq(records, 1, Limit) /\ last = CursorOf(records[Limit])
                BY Zenon
            <4>2. page = [items |-> first, next |-> last]
                BY <1>3, <2>2, <4>1, Zenon DEF notificationPageFromRecords
            <4>3. page.items = first /\ page.next = last
                BY <4>2
            <4> QED
                BY <4>1, <4>3, Zenon
        <3>2. Len(records) \in Nat /\ Limit \in Nat /\ Limit > 0 /\ Limit < Len(records)
            BY <1>4, <2>2, LimitAssumption
        <3>3. /\ page.items \in Seq(found) /\ Len(page.items) = Limit
              /\ \A k \in 1..Limit : page.items[k] = records[k]
            BY <1>4, <3>1, <3>2
        <3>4. CursorOf(records[Limit]) \in Cursors
            BY <1>5, <3>2 DEF Cursors
        <3> QED
            BY <3>1, <3>2, <3>3, <3>4
    <2> QED
        BY <2>1, <2>2, Zenon
<1>b. Len(records) \in Nat /\ Len(page.items) \in Nat
    BY <1>4, <1>a
<1>6. page.items \in Seq(notificationListQuery(filter))
    <2>1. \A k \in 1..Len(page.items) : page.items[k] \in notificationListQuery(filter)
        <3>1. \A k \in 1..Len(page.items) : k \in 1..Len(records)
            BY <1>a, <1>b
        <3> QED
            BY <1>0, <1>5, <1>a, <3>1, Zenon
    <2> QED
        BY <1>a, <2>1
<1>7. \A k, l \in 1..Len(page.items) : k < l => Newer(page.items[k], page.items[l])
    <2>1. \A k \in 1..Len(page.items) : k \in 1..Len(records)
        BY <1>a, <1>b
    <2> QED
        BY <1>4, <1>a, <2>1, Zenon
<1>8. cursor # NoCursor =>
        \A k \in 1..Len(page.items) : notificationCursorCondition(page.items[k], cursor)
    <2>1. \A k \in 1..Len(page.items) : k \in 1..Len(records)
        BY <1>a, <1>b
    <2> QED
        BY <1>0, <1>5, <1>a, <2>1, Zenon
<1>9. ASSUME NEW i \in notificationListQuery(filter),
             cursor # NoCursor => notificationCursorCondition(i, cursor)
      PROVE  (\E k \in 1..Len(page.items) : page.items[k] = i) \/ Behind(i, page.next)
    <2>1. i \in found
        BY <1>0, <1>9, Zenon
    <2>2. PICK k \in 1..Len(records) : records[k] = i
        BY <1>4, <2>1, Zenon
    <2>3. CASE k <= Len(page.items)
        <3>1. k \in 1..Len(page.items)
            BY <1>b, <2>3
        <3> QED
            BY <1>a, <2>2, <3>1, Zenon
    <2>4. CASE ~(k <= Len(page.items))
        <3>1. /\ page.items # <<>> /\ page.next = CursorOf(page.items[Len(page.items)])
              /\ page.next # NoCursor
            BY <1>a, <1>b, <2>4, CursorAssumption DEF Cursors
        <3> DEFINE l == Len(page.items)
        <3>2. l \in 1..Len(page.items) /\ l \in 1..Len(records) /\ l < k
            BY <1>a, <1>b, <2>4, <3>1
        <3>3. Newer(records[l], i) /\ records[l] \in Ids /\ i \in Ids
            BY <1>4, <1>5, <2>2, <3>2, Zenon
        <3>4. page.next = CursorOf(records[l])
            BY <1>a, <3>1, <3>2, Zenon
        <3> QED
            BY <3>1, <3>3, <3>4, NewerIsStrict, ZenonT(40) DEF Behind
    <2> QED
        BY <2>3, <2>4, Zenon
<1> QED
    BY <1>6, <1>7, <1>8, <1>9, <1>a, Zenon

\* Rows that are all older than the ones shown are added as they are.
LEMMA JoinIs ==
    ASSUME NEW current \in Seq(Item), NEW next \in Seq(Item), Sorted(next),
           \A k \in 1..Len(current), l \in 1..Len(next) : Newer(current[k].id, next[l].id),
           NEW joined, joined = appendUniqueNotifications(current, next)
    PROVE  /\ joined \in Seq(Item) /\ Len(joined) = Len(current) + Len(next)
           /\ \A k \in 1..Len(current) : joined[k] = current[k]
           /\ \A l \in 1..Len(next) : joined[Len(current) + l] = next[l]
<1> DEFINE Add(s, k) == IF next[k].id \in ItemIds(s) THEN s ELSE Append(s, next[k])
           Merges(f, n) == f = [k \in 0..n |-> IF k = 0 THEN current ELSE Add(f[k - 1], k)]
           S == {n \in Nat : \E f : Merges(f, n)}
<1>0. Len(next) \in Nat /\ Len(current) \in Nat
    OBVIOUS
<1>1. 0 \in S
    <2> DEFINE f == [k \in 0..0 |-> current]
    <2> HIDE DEF Add
    <2>1. Merges(f, 0)
        OBVIOUS
    <2> QED
        BY <2>1, Zenon
<1>2. ASSUME NEW n \in Nat, n \in S
      PROVE  n + 1 \in S
    <2>1. PICK f : Merges(f, n)
        BY <1>2, Zenon
    <2> DEFINE g == [k \in 0..(n + 1) |-> IF k <= n THEN f[k] ELSE Add(f[n], n + 1)]
    <2> HIDE DEF Add
    <2>2. ASSUME NEW k \in 0..(n + 1)
          PROVE  g[k] = IF k = 0 THEN current ELSE Add(g[k - 1], k)
        <3>1. CASE k = 0
            BY <2>1, <3>1
        <3>2. CASE k \in 1..n
            BY <2>1, <3>2
        <3>3. CASE k = n + 1
            BY <3>3
        <3> QED
            BY <3>1, <3>2, <3>3
    <2>3. g = [k \in 0..(n + 1) |-> g[k]]
        BY Zenon
    <2> HIDE DEF g
    <2>4. Merges(g, n + 1)
        BY <2>2, <2>3, Zenon
    <2> HIDE DEF Merges
    <2>5. \E h : Merges(h, n + 1)
        BY <2>4, Zenon
    <2> QED
        BY <2>5
<1>3. \E f : Merges(f, Len(next))
    <2> HIDE DEF S
    <2>1. Len(next) \in S
        BY <1>0, <1>1, <1>2, SetInduction, Zenon
    <2> QED
        BY <2>1, Zenon DEF S
<1>4. PICK u : u = CHOOSE f : Merges(f, Len(next))
    BY Zenon
<1>5. Merges(u, Len(next))
    BY <1>3, <1>4, Zenon
<1>6. joined = u[Len(next)]
    BY <1>4, Zenon DEF appendUniqueNotifications
<1> DEFINE Joined(s, n) ==
            /\ s \in Seq(Item) /\ Len(s) = Len(current) + n
            /\ \A k \in 1..Len(current) : s[k] = current[k]
            /\ \A l \in 1..n : s[Len(current) + l] = next[l]
           U == {n \in Nat : n <= Len(next) => Joined(u[n], n)}
<1>7. 0 \in U
    <2> HIDE DEF Add
    <2>1. u[0] = current
        BY <1>0, <1>5
    <2> QED
        BY <2>1
<1>8. ASSUME NEW n \in Nat, n \in U
      PROVE  n + 1 \in U
    <2> SUFFICES ASSUME n + 1 <= Len(next)
                 PROVE  Joined(u[n + 1], n + 1)
        OBVIOUS
    <2>0. n <= Len(next)
        BY <1>0
    <2>1. Joined(u[n], n)
        BY <1>8, <2>0, Zenon
    <2>2. u[n + 1] = Add(u[n], n + 1)
        <3> HIDE DEF Add
        <3> QED
            BY <1>0, <1>5
    <2>3. PICK s : s = u[n]
        BY Zenon
    <2>4. n + 1 \in 1..Len(next) /\ next[n + 1] \in Item
        BY <1>0
    <2>7. s \in Seq(Item) /\ Len(s) = Len(current) + n
        BY <2>1, <2>3, Zenon
    <2>5. ASSUME NEW k \in DOMAIN s
          PROVE  s[k].id # next[n + 1].id
        <3>1. CASE k \in 1..Len(current)
            <4>1. Newer(s[k].id, next[n + 1].id)
                BY <2>1, <2>3, <2>4, <3>1, Zenon
            <4>2. s[k].id \in Ids /\ next[n + 1].id \in Ids
                <5>1. s[k] \in Item
                    BY <2>7, <2>5
                <5> QED
                    BY <2>4, <5>1 DEF Item
            <4> QED
                BY <4>1, <4>2, NewerIsStrict, Zenon
        <3>2. CASE k \notin 1..Len(current)
            <4>1. PICK l \in 1..n : k = Len(current) + l
                <5>1. k \in 1..(Len(current) + n)
                    BY <2>1, <2>3
                <5>2. k - Len(current) \in 1..n /\ k = Len(current) + (k - Len(current))
                    BY <1>0, <3>2, <5>1
                <5> QED
                    BY <5>2, Zenon
            <4>2. s[k] = next[l] /\ l \in 1..Len(next) /\ l < n + 1
                BY <1>0, <2>1, <2>3, <2>4, <4>1
            <4>3. Newer(s[k].id, next[n + 1].id)
                BY <2>4, <4>2, Zenon DEF Sorted
            <4>4. s[k].id \in Ids /\ next[n + 1].id \in Ids
                <5>1. s[k] \in Item
                    BY <2>7, <2>5
                <5> QED
                    BY <2>4, <5>1 DEF Item
            <4> QED
                BY <4>3, <4>4, NewerIsStrict, Zenon
        <3> QED
            BY <3>1, <3>2, Zenon
    <2>6. u[n + 1] = Append(s, next[n + 1])
        BY <2>2, <2>3, <2>5, Zenon DEF ItemIds
    <2>8. /\ u[n + 1] \in Seq(Item) /\ Len(u[n + 1]) = Len(s) + 1
          /\ \A k \in 1..Len(s) : u[n + 1][k] = s[k]
          /\ u[n + 1][Len(s) + 1] = next[n + 1]
        <3> HIDE DEF Joined
        <3> QED
            BY <2>4, <2>6, <2>7
    <2>9. \A k \in 1..Len(current) : s[k] = current[k]
        BY <2>1, <2>3, Zenon
    <2>10. \A l \in 1..n : s[Len(current) + l] = next[l]
        BY <2>1, <2>3, Zenon
    <2>11. \A k \in 1..Len(current) : u[n + 1][k] = current[k]
        <3>1. \A k \in 1..Len(current) : k \in 1..Len(s)
            BY <1>0, <2>7
        <3> QED
            BY <2>8, <2>9, <3>1, Zenon
    <2>12. ASSUME NEW l \in 1..(n + 1)
           PROVE  u[n + 1][Len(current) + l] = next[l]
        <3>1. CASE l = n + 1
            BY <2>7, <2>8, <3>1
        <3>2. CASE l # n + 1
            <4>1. l \in 1..n /\ Len(current) + l \in 1..Len(s)
                BY <1>0, <2>7, <3>2
            <4> QED
                BY <2>8, <2>10, <4>1, Zenon
        <3> QED
            BY <3>1, <3>2, Zenon
    <2>13. Len(u[n + 1]) = Len(current) + (n + 1)
        BY <1>0, <2>7, <2>8
    <2> QED
        BY <2>8, <2>11, <2>12, <2>13, Zenon
<1>9. Joined(u[Len(next)], Len(next))
    <2> HIDE DEF U
    <2>1. Len(next) \in U
        BY <1>0, <1>7, <1>8, SetInduction, Zenon
    <2> QED
        BY <1>0, <2>1 DEF U
<1> QED
    BY <1>6, <1>9, Zenon


-----------------------------------------------------------------------------
(* Steps of the event log *)

\* What a request is answered.
LEMMA ReplyIs ==
    ASSUME status \in [Ids -> RowStatus],
           NEW r, r.cursor \in Cursors \cup {NoCursor}, r.reset <=> r.cursor = NoCursor,
           NEW a, a = Reply(r)
    PROVE  /\ a.request = r /\ a.matched = notificationListQuery(r.filter)
           /\ a.items \in Seq(Item) /\ Sorted(a.items) /\ AllMatch(a.items, r.filter)
           /\ ~r.reset =>
                \A k \in 1..Len(a.items) : notificationCursorCondition(a.items[k].id, r.cursor)
           /\ EndsAt(a.items, a.next) /\ (a.next # NoCursor => a.items # <<>>)
           /\ \A i \in notificationListQuery(r.filter) :
                r.reset \/ Behind(i, r.cursor) => i \in ItemIds(a.items) \/ Behind(i, a.next)
<1>1. PICK page : page = ListNotificationsPage(r.filter, r.cursor)
    BY Zenon
<1>2. PICK items : items = [k \in DOMAIN page.items |->
                                [id |-> page.items[k], status |-> status[page.items[k]]]]
    BY Zenon
<1>3. a = [request |-> r, items |-> items, next |-> page.next,
           matched |-> notificationListQuery(r.filter), ok |-> TRUE]
    BY <1>1, <1>2, Zenon DEF Reply
<1>4. PICK matched : matched = notificationListQuery(r.filter)
    BY Zenon
<1>5. /\ a.request = r /\ a.items = items /\ a.next = page.next /\ a.matched = matched
    BY <1>3, <1>4, SMTT(30)
<1>6. /\ page.items \in Seq(matched)
      /\ \A k, l \in 1..Len(page.items) : k < l => Newer(page.items[k], page.items[l])
      /\ r.cursor # NoCursor =>
            \A k \in 1..Len(page.items) : notificationCursorCondition(page.items[k], r.cursor)
      /\ \/ page.next = NoCursor
         \/ page.items # <<>> /\ page.next = CursorOf(page.items[Len(page.items)])
      /\ \A i \in matched :
            (r.cursor # NoCursor => notificationCursorCondition(i, r.cursor)) =>
                (\E k \in 1..Len(page.items) : page.items[k] = i) \/ Behind(i, page.next)
    BY <1>1, <1>4, PageIs
<1>7. \A i \in matched :
        /\ i \in Ids /\ TenantOf[i] = r.filter.tenant
        /\ r.filter.statuses # {} => status[i] \in r.filter.statuses
        /\ r.filter.query # "" => r.filter.query \in Texts[i] \cup {status[i]}
    BY <1>4, Zenon DEF notificationListQuery, Existing
<1>8. DOMAIN page.items = 1..Len(page.items) /\ Len(page.items) \in Nat
      /\ \A k \in 1..Len(page.items) : page.items[k] \in matched
    BY <1>6
<1>9. \A k \in 1..Len(page.items) :
        /\ items[k] = [id |-> page.items[k], status |-> status[page.items[k]]]
        /\ items[k].id = page.items[k] /\ items[k].status = status[page.items[k]]
    BY <1>2, <1>8
<1>10. \A k \in 1..Len(page.items) : items[k] \in Item
    <2> TAKE k \in 1..Len(page.items)
    <2>1. page.items[k] \in Ids /\ status[page.items[k]] \in RowStatus
        BY <1>7, <1>8, Zenon
    <2> QED
        <3>1. PICK i, s : i = page.items[k] /\ s = status[page.items[k]]
            BY Zenon
        <3>2. items[k] = [id |-> i, status |-> s] /\ i \in Ids /\ s \in RowStatus
            BY <1>9, <2>1, <3>1, Zenon
        <3> QED
            BY <3>2 DEF Item
<1>11. items \in Seq(Item) /\ Len(items) = Len(page.items) /\ DOMAIN items = 1..Len(items)
    <2>1. items \in [1..Len(page.items) -> Item]
        BY <1>2, <1>8, <1>10, Zenon
    <2> QED
        BY <1>8, <2>1
<1>a. \A k \in 1..Len(items) :
        /\ items[k].id = page.items[k] /\ items[k].status = status[page.items[k]]
        /\ page.items[k] \in matched
    BY <1>8, <1>9, <1>11, Zenon
<1>b. \A k, l \in 1..Len(items) : k < l => Newer(page.items[k], page.items[l])
    BY <1>6, <1>11
<1>12. Sorted(items)
    BY <1>a, <1>b DEF Sorted
<1>13. AllMatch(items, r.filter)
    BY <1>7, <1>a, Zenon DEF AllMatch, Matches
<1>14. ~r.reset => \A k \in 1..Len(items) : notificationCursorCondition(items[k].id, r.cursor)
    BY <1>6, <1>9, <1>11, Zenon
<1>15. EndsAt(items, page.next) /\ (page.next # NoCursor => items # <<>>)
    <2>1. CASE page.next = NoCursor
        BY <2>1, Zenon DEF EndsAt
    <2>2. CASE page.next # NoCursor
        <3>1. page.items # <<>> /\ page.next = CursorOf(page.items[Len(page.items)])
            BY <1>6, <2>2, Zenon
        <3>2. Len(page.items) \in 1..Len(page.items)
            BY <1>6, <1>8, <3>1
        <3>3. items # <<>>
            BY <1>11, <3>2
        <3>4. page.next = CursorOf(items[Len(items)].id) /\ page.items[Len(page.items)] \in Ids
            BY <1>7, <1>8, <1>9, <1>11, <3>1, <3>2, Zenon
        <3>5. page.next \in Cursors
            BY <3>1, <3>4, Zenon DEF Cursors
        <3> QED
            BY <3>3, <3>4, <3>5, Zenon DEF EndsAt
    <2> QED
        BY <2>1, <2>2, Zenon
<1>16. ASSUME NEW i \in matched, r.reset \/ Behind(i, r.cursor)
       PROVE  i \in ItemIds(items) \/ Behind(i, page.next)
    <2>1. (\E k \in 1..Len(page.items) : page.items[k] = i) \/ Behind(i, page.next)
        BY <1>6, <1>16, Zenon DEF Behind
    <2> QED
        BY <1>11, <1>a, <2>1 DEF ItemIds
<1> QED
    BY <1>4, <1>5, <1>11, <1>12, <1>13, <1>14, <1>15, <1>16, Zenon

\* What any step may do to the rows on the server.
StatusStep ==
    /\ status' \in [Ids -> RowStatus]
    /\ \A i \in Ids :
        \/ status'[i] = status[i]
        \/ status[i] = "none" /\ status'[i] = "queued"
        \/ status[i] = "queued" /\ status'[i] # "none" /\ status'[i] # "queued"

LEMMA SettledStays ==
    ASSUME LogTypes, StatusStep, NEW i \in Ids, NEW filter, Settled(i, filter)
    PROVE  /\ Settled(i, filter)'
           /\ i \in notificationListQuery(filter)' => i \in notificationListQuery(filter)
<1>1. CASE status'[i] = status[i]
    BY <1>1, Zenon DEF Settled, notificationListQuery, Existing
<1>2. CASE status[i] = "queued" /\ status'[i] # "none" /\ status'[i] # "queued"
    BY <1>2, Zenon DEF Settled, notificationListQuery, Existing
<1> QED
    BY <1>1, <1>2, Zenon DEF StatusStep, Settled

LEMMA ReachedStays ==
    ASSUME LogTypes, StatusStep, NEW rows, rows \subseteq Ids, NEW filter, NEW items, NEW cursor,
           \A i \in rows : Settled(i, filter), Reached(rows, filter, items, cursor)
    PROVE  Reached(rows, filter, items, cursor)'
<1> SUFFICES ASSUME NEW i \in rows, i \in notificationListQuery(filter)'
             PROVE  i \in ItemIds(items) \/ Behind(i, cursor)
    BY Zenon DEF Reached, ItemIds, Behind, notificationCursorCondition
<1>1. i \in notificationListQuery(filter)
    BY SettledStays, Zenon
<1> QED
    BY <1>1, Zenon DEF Reached

\* The table that the controls ask for stays.
Kept ==
    /\ Browsing /\ Selection' = Selection
    /\ notifications' = notifications /\ nextCursor' = nextCursor /\ due' = due

LEMMA AnswerStays ==
    ASSUME LogTypes, TableInv, StatusStep, NEW a, AnswerInv(a),
           a.request.load = requestSequence' /\ Browsing' =>
                a.request.load = requestSequence /\ Kept
    PROVE  AnswerInv(a)'
<1>1. \A i \in a.matched : i \in Ids /\ Settled(i, a.request.filter)
    BY Zenon DEF AnswerInv
<1>2. \A i \in a.matched : Settled(i, a.request.filter)'
    BY <1>1, SettledStays, Zenon
<1>3. a.ok /\ a.request.reset => Reached(a.matched, a.request.filter, a.items, a.next)'
    <2> SUFFICES ASSUME a.ok, a.request.reset
                 PROVE  Reached(a.matched, a.request.filter, a.items, a.next)'
        BY Zenon
    <2>1. Reached(a.matched, a.request.filter, a.items, a.next) /\ a.matched \subseteq Ids
        BY Zenon DEF AnswerInv
    <2> QED
        BY <1>1, <2>1, ReachedStays, Zenon
<1>4. ASSUME a.ok, ~a.request.reset, a.request.load = requestSequence', Browsing'
      PROVE  Reached({i \in due : Behind(i, nextCursor)}, Selection, a.items, a.next)'
    <2>1. a.request.load = requestSequence /\ Kept
        BY <1>4, Zenon
    <2>2. PICK rows, filter : rows = {i \in due : Behind(i, nextCursor)} /\ filter = Selection
        BY Zenon
    <2>3. rows \subseteq Ids /\ \A i \in rows : Settled(i, filter)
        BY <2>1, <2>2, Zenon DEF LogTypes, TableInv, Kept
    <2>4. Reached(rows, filter, a.items, a.next)
        BY <1>4, <2>1, <2>2, Zenon DEF AnswerInv, Kept
    <2>5. Reached(rows, filter, a.items, a.next)'
        BY <2>3, <2>4, ReachedStays, Zenon
    <2>6. {i \in due : Behind(i, nextCursor)}' = rows /\ Selection' = filter
        BY <2>1, <2>2, Zenon DEF Kept, Behind, notificationCursorCondition
    <2> QED
        BY <2>5, <2>6, Zenon DEF Reached
<1> QED
    BY <1>2, <1>3, <1>4, Zenon
    DEF AnswerInv, Sorted, AllMatch, Matches, EndsAt, Newer, notificationCursorCondition


\* The rows of the next page join those of the table.
LEMMA JoinKeeps ==
    ASSUME NEW current \in Seq(Item), Sorted(current), NEW next \in Seq(Item), Sorted(next),
           NEW cursor, cursor # NoCursor, EndsAt(current, cursor),
           \A l \in 1..Len(next) : notificationCursorCondition(next[l].id, cursor),
           NEW joined, joined = appendUniqueNotifications(current, next)
    PROVE  /\ joined \in Seq(Item) /\ Sorted(joined)
           /\ \A c : EndsAt(next, c) /\ (c # NoCursor => next # <<>>) => EndsAt(joined, c)
           /\ \A filter : AllMatch(current, filter) /\ AllMatch(next, filter) =>
                AllMatch(joined, filter)
           /\ \A i : i \in ItemIds(current) \/ i \in ItemIds(next) => i \in ItemIds(joined)
<1>0. Len(current) \in Nat /\ Len(next) \in Nat
    OBVIOUS
<1>1. \A k \in 1..Len(current) : current[k] \in Item /\ current[k].id \in Ids
    <2>1. \A k \in 1..Len(current) : current[k] \in Item
        OBVIOUS
    <2> QED
        BY <2>1 DEF Item
<1>2. \A k \in 1..Len(next) : next[k] \in Item /\ next[k].id \in Ids
    <2>1. \A k \in 1..Len(next) : next[k] \in Item
        OBVIOUS
    <2> QED
        BY <2>1 DEF Item
<1>3. ASSUME NEW k \in 1..Len(current), NEW l \in 1..Len(next)
      PROVE  Newer(current[k].id, next[l].id)
    <2> DEFINE m == Len(current)
    <2>1. m \in 1..Len(current) /\ current # <<>>
        BY <1>0
    <2>2. cursor = CursorOf(current[m].id)
        BY <2>1, Zenon DEF EndsAt
    <2>3. Newer(current[m].id, next[l].id)
        BY <1>1, <1>2, <2>1, <2>2, NewerIsStrict, Zenon
    <2>4. k = m \/ Newer(current[k].id, current[m].id)
        <3>1. k = m \/ k < m
            BY <1>0
        <3> QED
            BY <2>1, <3>1, Zenon DEF Sorted
    <2>5. current[k].id \in Ids /\ current[m].id \in Ids /\ next[l].id \in Ids
        BY <1>1, <1>2, <2>1, Zenon
    <2>6. \A a, b, c \in Ids : Newer(a, b) /\ Newer(b, c) => Newer(a, c)
        BY NewerIsStrict, Zenon
    <2> QED
        BY <2>3, <2>4, <2>5, <2>6, Zenon
<1>4. /\ joined \in Seq(Item) /\ Len(joined) = Len(current) + Len(next)
      /\ \A k \in 1..Len(current) : joined[k] = current[k]
      /\ \A l \in 1..Len(next) : joined[Len(current) + l] = next[l]
    BY <1>3, JoinIs
<1>5. ASSUME NEW k \in 1..Len(joined)
      PROVE  \/ k \in 1..Len(current)
             \/ k - Len(current) \in 1..Len(next) /\ k = Len(current) + (k - Len(current))
    BY <1>0, <1>4
<1>6. Sorted(joined)
    <2> SUFFICES ASSUME NEW k \in 1..Len(joined), NEW l \in 1..Len(joined), k < l
                 PROVE  Newer(joined[k].id, joined[l].id)
        BY Zenon DEF Sorted
    <2>1. CASE l \in 1..Len(current)
        <3>1. k \in 1..Len(current)
            BY <1>0, <1>4, <2>1
        <3> QED
            BY <1>4, <2>1, <3>1, Zenon DEF Sorted
    <2>2. CASE l \notin 1..Len(current)
        <3>1. PICK p \in 1..Len(next) : l = Len(current) + p
            BY <1>5, <2>2, Zenon
        <3>2. joined[l] = next[p]
            BY <1>4, <3>1, Zenon
        <3>3. CASE k \in 1..Len(current)
            BY <1>3, <1>4, <3>2, <3>3, Zenon
        <3>4. CASE k \notin 1..Len(current)
            <4>1. PICK q \in 1..Len(next) : k = Len(current) + q
                BY <1>5, <3>4, Zenon
            <4>2. q < p
                BY <1>0, <3>1, <4>1
            <4> QED
                BY <1>4, <3>2, <4>1, <4>2, Zenon DEF Sorted
        <3> QED
            BY <3>3, <3>4, Zenon
    <2> QED
        BY <2>1, <2>2, Zenon
<1>7. ASSUME NEW c, EndsAt(next, c), c # NoCursor => next # <<>>
      PROVE  EndsAt(joined, c)
    <2> SUFFICES ASSUME c # NoCursor
                 PROVE  c = CursorOf(joined[Len(joined)].id)
        BY <1>7, Zenon DEF EndsAt
    <2>1. Len(next) \in 1..Len(next)
        BY <1>0, <1>7
    <2>2. joined[Len(joined)] = next[Len(next)]
        BY <1>4, <2>1, Zenon
    <2> QED
        BY <1>7, <2>2, Zenon DEF EndsAt
<1>8. ASSUME NEW filter, AllMatch(current, filter), AllMatch(next, filter)
      PROVE  AllMatch(joined, filter)
    <2> SUFFICES ASSUME NEW k \in 1..Len(joined)
                 PROVE  Matches(joined[k], filter)
        BY Zenon DEF AllMatch
    <2>1. CASE k \in 1..Len(current)
        BY <1>4, <1>8, <2>1, Zenon DEF AllMatch
    <2>2. CASE k \notin 1..Len(current)
        <3>1. PICK p \in 1..Len(next) : k = Len(current) + p
            BY <1>5, <2>2, Zenon
        <3> QED
            BY <1>4, <1>8, <3>1, Zenon DEF AllMatch
    <2> QED
        BY <2>1, <2>2, Zenon
<1>9. ASSUME NEW i, i \in ItemIds(current) \/ i \in ItemIds(next)
      PROVE  i \in ItemIds(joined)
    <2>0. DOMAIN current = 1..Len(current) /\ DOMAIN next = 1..Len(next)
          /\ DOMAIN joined = 1..Len(joined)
        BY <1>4
    <2>1. CASE i \in ItemIds(current)
        <3>1. PICK k \in 1..Len(current) : i = current[k].id
            BY <2>0, <2>1, Zenon DEF ItemIds
        <3>2. k \in DOMAIN joined
            BY <1>0, <1>4, <2>0
        <3> QED
            BY <1>4, <3>1, <3>2, Zenon DEF ItemIds
    <2>2. CASE i \in ItemIds(next)
        <3>1. PICK l \in 1..Len(next) : i = next[l].id
            BY <2>0, <2>2, Zenon DEF ItemIds
        <3>2. Len(current) + l \in DOMAIN joined
            BY <1>0, <1>4, <2>0
        <3> QED
            BY <1>4, <3>1, <3>2, Zenon DEF ItemIds
    <2> QED
        BY <1>9, <2>1, <2>2, Zenon
<1> QED
    BY <1>4, <1>6, <1>7, <1>8, <1>9, Zenon

LEMMA EmptyTableIs ==
    /\ <<>> \in Seq(Item) /\ Sorted(<<>>) /\ \A filter : AllMatch(<<>>, filter)
    /\ \A cursor \in Cursors \cup {NoCursor} : EndsAt(<<>>, cursor)
<1>1. <<>> \in Seq(Item) /\ 1..Len(<<>>) = {}
    OBVIOUS
<1> QED
    BY <1>1, Zenon DEF Sorted, AllMatch, EndsAt

\* A step keeps the table that the controls ask for, empties it, or is followed
\* by a new load before the controls count again.
LEMMA TableStays ==
    ASSUME LogTypes, TableInv, StatusStep, Browsing' => Kept,
           \/ notifications' = notifications /\ nextCursor' = nextCursor
           \/ notifications' = <<>> /\ nextCursor' \in {nextCursor, NoCursor}
    PROVE  TableInv'
<1>1. Sorted(notifications')
    BY EmptyTableIs, Zenon DEF TableInv
<1>2. EndsAt(notifications', nextCursor')
    <2>1. EndsAt(notifications, nextCursor) /\ nextCursor \in Cursors \cup {NoCursor}
        BY Zenon DEF TableInv, EndsAt
    <2> QED
        BY <2>1, EmptyTableIs, Zenon
<1>3. ASSUME Browsing'
      PROVE  /\ AllMatch(notifications, Selection)'
             /\ \A i \in due' : Settled(i, Selection)'
             /\ Reached(due, Selection, notifications, nextCursor)'
    <2>1. Kept
        BY <1>3, Zenon
    <2>2. PICK filter, rows, items, cursor :
            /\ filter = Selection /\ rows = due
            /\ items = notifications /\ cursor = nextCursor
        BY Zenon
    <2>3. /\ AllMatch(items, filter) /\ rows \subseteq Ids
          /\ \A i \in rows : Settled(i, filter)
          /\ Reached(rows, filter, items, cursor)
        BY <2>1, <2>2, Zenon DEF TableInv, LogTypes, Kept
    <2>4. /\ \A i \in rows : Settled(i, filter)'
          /\ Reached(rows, filter, items, cursor)'
        BY <2>3, SettledStays, ReachedStays, Zenon
    <2>5. /\ filter = Selection' /\ rows = due'
          /\ items = notifications' /\ cursor = nextCursor'
        BY <2>1, <2>2, Zenon DEF Kept
    <2> QED
        BY <2>3, <2>4, <2>5, Zenon DEF AllMatch, Matches, Settled, Reached
<1> QED
    BY <1>1, <1>2, <1>3, Zenon DEF TableInv, Sorted, EndsAt, Newer, Cursors

\* A step that starts no load.
LEMMA CalmStep ==
    ASSUME LogInv, StatusStep, UNCHANGED network,
           \A e \in edits' : e.id \in Ids, auth' \in {"hydrating", "in", "out"}, WaitingInv',
           Browsing' => Kept, due' \in {due, {}},
           \/ notifications' = notifications /\ nextCursor' = nextCursor
           \/ notifications' = <<>> /\ nextCursor' \in {nextCursor, NoCursor}
    PROVE  LogInv'
<1>0. UNCHANGED <<requestSequence, sent, answered>>
    BY Zenon DEF network
<1>1. LogTypes'
    BY <1>0, EmptyTableIs, Zenon DEF LogInv, LogTypes, StatusStep
<1>2. LoadsInv'
    BY <1>0, Zenon DEF LogInv, LoadsInv
<1>3. ASSUME NEW r, RequestInv(r)
      PROVE  RequestInv(r)'
    <2>1. r.load = requestSequence => EndsAt(notifications, r.cursor)'
        <3> SUFFICES ASSUME r.load = requestSequence
                     PROVE  EndsAt(notifications', r.cursor)
            BY Zenon DEF EndsAt, Cursors
        <3> QED
            BY <1>3, EmptyTableIs, Zenon DEF RequestInv
    <2> QED
        BY <1>0, <1>3, <2>1, Zenon DEF RequestInv, Kept, Cursors
<1>4. ASSUME NEW a \in answered
      PROVE  RequestInv(a.request)' /\ AnswerInv(a)'
    BY <1>0, <1>3, AnswerStays, Zenon DEF LogInv
<1>5. TableInv'
    BY TableStays, Zenon DEF LogInv
<1> QED
    BY <1>0, <1>1, <1>2, <1>3, <1>4, <1>5, Zenon DEF LogInv


\* A step that starts a load: it alone counts from now on.
LEMMA SubmitStepIs ==
    ASSUME LogInv, StatusStep, NEW reset \in BOOLEAN, Submit(reset), reset \/ nextCursor # NoCursor,
           reset => notifications' = <<>>,
           ~reset => notifications' = notifications /\ nextCursor' = nextCursor
    PROVE  /\ LoadsInv' /\ requestSequence' \in Nat
           /\ \A r \in sent' : RequestInv(r)'
           /\ \A a \in answered' : RequestInv(a.request)' /\ AnswerInv(a)'
<1>1. requestSequence \in Nat
    BY Zenon DEF LogInv, LogTypes
<1>2. PICK new : new = Request(reset)
    BY Zenon
<1>3. /\ requestSequence' = requestSequence + 1
      /\ sent' = sent \cup {new} /\ answered' = answered
    BY <1>2, Zenon DEF Submit
<1>4. /\ new.load = requestSequence + 1 /\ new.reset = reset
      /\ new.filter = Selection'
      /\ new.cursor = IF reset THEN NoCursor ELSE nextCursor
    <2>1. PICK filter, cursor, load :
            /\ filter = [tenant   |-> selectedTenantId',
                         statuses |-> IF statusFilter' = "all" THEN {} ELSE {statusFilter'},
                         query    |-> searchQuery']
            /\ cursor = IF reset THEN NoCursor ELSE nextCursor
            /\ load = requestSequence + 1
        BY Zenon
    <2>2. new = [load |-> load, reset |-> reset, filter |-> filter, cursor |-> cursor]
        BY <1>2, <2>1, Zenon DEF Request
    <2>3. filter = Selection'
        BY <2>1, Zenon DEF Selection
    <2>4. new.load = load /\ new.reset = reset /\ new.filter = filter /\ new.cursor = cursor
        BY <2>2
    <2> QED
        BY <2>1, <2>3, <2>4, Zenon
<1>5. ASSUME NEW r, RequestInv(r)
      PROVE  RequestInv(r)' /\ r.load # requestSequence'
    <2>1. r.load \in Nat /\ r.load <= requestSequence
        BY <1>5, Zenon DEF RequestInv
    <2>2. r.load <= requestSequence' /\ r.load # requestSequence'
        BY <1>1, <1>3, <2>1
    <2> QED
        BY <1>5, <2>1, <2>2, Zenon DEF RequestInv, Cursors
<1>6. RequestInv(new)'
    <2>1. new.load \in Nat /\ new.load <= requestSequence'
        BY <1>1, <1>3, <1>4
    <2>2. EndsAt(notifications, nextCursor) /\ nextCursor \in Cursors \cup {NoCursor}
        BY Zenon DEF LogInv, TableInv, EndsAt
    <2>3. new.cursor \in Cursors \cup {NoCursor} /\ EndsAt(notifications', new.cursor)
        BY <1>4, <2>2, EmptyTableIs, Zenon
    <2>4. new.reset <=> new.cursor = NoCursor
        BY <1>4, Zenon
    <2> QED
        BY <1>4, <2>1, <2>3, <2>4, Zenon DEF RequestInv, EndsAt, Cursors
<1>7. \A r \in sent : r.load # new.load /\ RequestInv(r)'
    BY <1>3, <1>4, <1>5, Zenon DEF LogInv
<1>8. ASSUME NEW a \in answered
      PROVE  a.request.load # new.load /\ RequestInv(a.request)' /\ AnswerInv(a)'
    <2>1. RequestInv(a.request) /\ AnswerInv(a)
        BY Zenon DEF LogInv
    <2>2. a.request.load # requestSequence' /\ RequestInv(a.request)'
        BY <1>5, <2>1, Zenon
    <2>3. AnswerInv(a)'
        BY <2>1, <2>2, AnswerStays, Zenon DEF LogInv
    <2> QED
        BY <1>3, <1>4, <2>2, <2>3, Zenon
<1>9. LoadsInv'
    BY <1>3, <1>7, <1>8, Zenon DEF LogInv, LoadsInv
<1>10. requestSequence' \in Nat
    BY <1>1, <1>3
<1> QED
    BY <1>3, <1>6, <1>7, <1>8, <1>9, <1>10, Zenon

LEMMA ResetStep ==
    ASSUME LogInv, StatusStep, StartReset,
           \A e \in edits' : e.id \in Ids, auth' \in {"in", "out"}
    PROVE  LogInv'
<1>1. Submit(TRUE) /\ notifications' = <<>> /\ nextCursor' = NoCursor /\ due' = {}
    BY Zenon DEF StartReset
<1>2. /\ LoadsInv' /\ requestSequence' \in Nat
      /\ \A r \in sent' : RequestInv(r)'
      /\ \A a \in answered' : RequestInv(a.request)' /\ AnswerInv(a)'
    BY <1>1, SubmitStepIs, Zenon
<1>3. TableInv'
    <2>1. Sorted(notifications') /\ EndsAt(notifications', nextCursor')
          /\ AllMatch(notifications', Selection')
        BY <1>1, EmptyTableIs, Zenon
    <2> QED
        BY <1>1, <2>1, Zenon
        DEF TableInv, Sorted, EndsAt, Newer, Cursors, AllMatch, Matches, Settled, Reached
<1>4. LogTypes' /\ WaitingInv'
    BY <1>1, <1>2, EmptyTableIs, Zenon DEF LogTypes, WaitingInv, StatusStep
<1> QED
    BY <1>2, <1>3, <1>4, Zenon DEF LogInv

LEMMA StatusUnchanged ==
    ASSUME LogTypes, UNCHANGED status
    PROVE  StatusStep
    BY Zenon DEF LogTypes, StatusStep

LEMMA KeptByControls ==
    ASSUME UNCHANGED <<controls, notifications, nextCursor, due>>
    PROVE  (Browsing' <=> Browsing) /\ (Browsing' => Kept)
<1>1. UNCHANGED <<auth, selectedTenantId, statusFilter, searchQuery, searchTimer>>
    BY Zenon DEF controls
<1>2. Browsing' <=> Browsing
    BY <1>1, Zenon DEF Browsing
<1>3. Selection' = Selection
    BY <1>1, Zenon DEF Selection
<1> QED
    BY <1>2, <1>3, Zenon DEF Kept

LEMMA NextPageStep ==
    ASSUME LogInv, loadNextPage
    PROVE  LogInv'
<1>1. /\ Submit(FALSE) /\ nextCursor # NoCursor /\ auth = "in"
      /\ UNCHANGED <<status, controls, notifications, nextCursor, due, edits>>
    BY Zenon DEF loadNextPage
<1>2. StatusStep
    BY <1>1, StatusUnchanged, Zenon DEF LogInv
<1>3. /\ LoadsInv' /\ requestSequence' \in Nat
      /\ \A r \in sent' : RequestInv(r)'
      /\ \A a \in answered' : RequestInv(a.request)' /\ AnswerInv(a)'
    BY <1>1, <1>2, SubmitStepIs, Zenon
<1>4. TableInv'
    BY <1>1, <1>2, KeptByControls, TableStays, Zenon DEF LogInv
<1>5. LogTypes' /\ WaitingInv'
    BY <1>1, <1>3, Zenon DEF LogInv, LogTypes, WaitingInv, controls
<1> QED
    BY <1>3, <1>4, <1>5, Zenon DEF LogInv

\* An answer takes the place of its request.
LEMMA AnsweredStep ==
    ASSUME LogInv, NEW r \in sent, NEW a, a.request = r, AnswerInv(a),
           sent' = sent \ {r}, answered' = answered \cup {a},
           UNCHANGED <<status, controls, table, requestSequence, tenantLoad, edits>>
    PROVE  LogInv'
<1>0. UNCHANGED <<notifications, nextCursor, due, auth, searchTimer, selectedTenantId>>
    BY Zenon DEF table, controls
<1>1. StatusStep
    BY StatusUnchanged, Zenon DEF LogInv
<1>2. Browsing' => Kept
    BY <1>0, KeptByControls, Zenon
<1>3. ASSUME NEW s, RequestInv(s)
      PROVE  RequestInv(s)'
    BY <1>0, <1>2, <1>3, Zenon DEF RequestInv, EndsAt, Cursors, Kept
<1>4. \A b \in answered' : RequestInv(b.request) /\ AnswerInv(b)
    BY Zenon DEF LogInv
<1>5. \A b \in answered' : RequestInv(b.request)' /\ AnswerInv(b)'
    BY <1>1, <1>2, <1>3, <1>4, AnswerStays, Zenon DEF LogInv
<1>6. \A s \in sent' : RequestInv(s)'
    BY <1>3, Zenon DEF LogInv
<1>7. LoadsInv'
    BY DEF LogInv, LoadsInv
<1>8. TableInv'
    BY <1>0, <1>1, <1>2, TableStays, Zenon DEF LogInv
<1>9. LogTypes' /\ WaitingInv'
    BY <1>0, Zenon DEF LogInv, LogTypes, WaitingInv
<1> QED
    BY <1>5, <1>6, <1>7, <1>8, <1>9, Zenon DEF LogInv

LEMMA AnswerStep ==
    ASSUME LogInv, NEW r \in sent, Answer(r)
    PROVE  LogInv'
<1>1. PICK a : a = Reply(r)
    BY Zenon
<1>2. RequestInv(r) /\ LogTypes
    BY ZenonT(40) DEF LogInv
<1>3. /\ a.request = r /\ a.matched = notificationListQuery(r.filter)
      /\ a.items \in Seq(Item) /\ Sorted(a.items) /\ AllMatch(a.items, r.filter)
      /\ ~r.reset =>
            \A k \in 1..Len(a.items) : notificationCursorCondition(a.items[k].id, r.cursor)
      /\ EndsAt(a.items, a.next) /\ (a.next # NoCursor => a.items # <<>>)
      /\ \A i \in notificationListQuery(r.filter) :
            r.reset \/ Behind(i, r.cursor) => i \in ItemIds(a.items) \/ Behind(i, a.next)
    <2>1. /\ status \in [Ids -> RowStatus] /\ r.cursor \in Cursors \cup {NoCursor}
          /\ r.reset <=> r.cursor = NoCursor
        BY <1>2, Zenon DEF RequestInv, LogTypes
    <2> QED
        BY <1>1, <2>1, ReplyIs
<1>4. AnswerInv(a)
    <2>1. a.matched \subseteq Ids /\ \A i \in a.matched : Settled(i, r.filter)
        BY <1>3, Zenon DEF Settled, notificationListQuery, Existing
    <2>2. r.reset => Reached(a.matched, r.filter, a.items, a.next)
        BY <1>3, Zenon DEF Reached
    <2>3. ~r.reset /\ r.load = requestSequence /\ Browsing =>
            Reached({i \in due : Behind(i, nextCursor)}, Selection, a.items, a.next)
        BY <1>2, <1>3, Zenon DEF Reached, RequestInv
    <2> QED
        BY <1>3, <2>1, <2>2, <2>3, Zenon DEF AnswerInv
<1> QED
    BY <1>1, <1>3, <1>4, AnsweredStep, Zenon DEF Answer

LEMMA RequestFailsStep ==
    ASSUME LogInv, NEW r \in sent, RequestFails(r)
    PROVE  LogInv'
<1>1. PICK a : a = [request |-> r, items |-> <<>>, next |-> NoCursor, matched |-> {}, ok |-> FALSE]
    BY Zenon
<1>2. a.request = r /\ a.items = <<>> /\ a.next = NoCursor /\ a.matched = {} /\ ~a.ok
    BY <1>1
<1>3. 1..Len(<<>>) = {}
    OBVIOUS
<1>4. AnswerInv(a)
    BY <1>2, <1>3, EmptyTableIs, Zenon DEF AnswerInv
<1> QED
    BY <1>1, <1>2, <1>4, AnsweredStep, Zenon DEF RequestFails


\* An answer that still counts is applied to the table.
LEMMA ApplyIs ==
    ASSUME LogInv, NEW a \in answered, a.ok, IsLatest(a.request.load), Apply(a),
           UNCHANGED <<status, controls>>
    PROVE  notifications' \in Seq(Item) /\ due' \subseteq Ids /\ TableInv'
<1>1. /\ RequestInv(a.request) /\ AnswerInv(a) /\ a.request.load = requestSequence
      /\ LogTypes /\ TableInv
    BY Zenon DEF LogInv, IsLatest
<1>2. PICK filter : filter = Selection
    BY Zenon
<1>3. (Browsing' <=> Browsing) /\ Selection' = filter
    <2>1. UNCHANGED <<auth, selectedTenantId, statusFilter, searchQuery, searchTimer>>
        BY Zenon DEF controls
    <2> QED
        BY <1>2, <2>1, Zenon DEF Browsing, Selection
<1>4. SUFFICES /\ notifications' \in Seq(Item) /\ due' \subseteq Ids
               /\ Sorted(notifications') /\ EndsAt(notifications', nextCursor')
               /\ Browsing =>
                    /\ AllMatch(notifications', filter)
                    /\ \A i \in due' : Settled(i, filter)
                    /\ Reached(due', filter, notifications', nextCursor')
    <2>1. ASSUME NEW i, Settled(i, filter)
          PROVE  Settled(i, filter)'
        BY <2>1, Zenon DEF Settled, notificationListQuery, Existing
    <2>2. ASSUME NEW rows, NEW items, NEW cursor, Reached(rows, filter, items, cursor)
          PROVE  Reached(rows, filter, items, cursor)'
        BY <2>2, Zenon
        DEF Reached, Behind, ItemIds, notificationListQuery, Existing, notificationCursorCondition
    <2>3. PICK rows, items, cursor : rows = due' /\ items = notifications' /\ cursor = nextCursor'
        BY Zenon
    <2>4. Browsing' =>
            /\ AllMatch(items, filter)
            /\ \A i \in rows : Settled(i, filter)'
            /\ Reached(rows, filter, items, cursor)'
        BY <1>3, <2>1, <2>2, <2>3, <1>4, Zenon
    <2>5. Browsing' =>
            /\ AllMatch(notifications, Selection)'
            /\ \A i \in due' : Settled(i, Selection)'
            /\ Reached(due, Selection, notifications, nextCursor)'
        BY <1>3, <2>3, <2>4, Zenon DEF AllMatch, Matches, Settled, Reached
    <2> QED
        BY <1>4, <2>5, Zenon DEF TableInv, Sorted, EndsAt, Newer, Cursors
<1>5. CASE a.request.reset
    <2>1. notifications' = a.items /\ nextCursor' = a.next /\ due' = a.matched
        BY <1>5, Zenon DEF Apply
    <2> QED
        BY <1>1, <1>2, <1>5, <2>1, Zenon DEF AnswerInv, RequestInv
<1>6. CASE ~a.request.reset
    <2>1. /\ notifications' = appendUniqueNotifications(notifications, a.items)
          /\ nextCursor' = a.next /\ due' = due
        BY <1>6, Zenon DEF Apply
    <2>2. PICK joined, cursor : joined = notifications' /\ cursor = a.request.cursor
        BY Zenon
    <2>3. /\ notifications \in Seq(Item) /\ Sorted(notifications)
          /\ a.items \in Seq(Item) /\ Sorted(a.items)
          /\ cursor # NoCursor /\ EndsAt(notifications, cursor)
          /\ \A l \in 1..Len(a.items) : notificationCursorCondition(a.items[l].id, cursor)
        BY <1>1, <1>6, <2>2, Zenon DEF AnswerInv, RequestInv, LogTypes, TableInv
    <2>4. /\ joined \in Seq(Item) /\ Sorted(joined)
          /\ \A c : EndsAt(a.items, c) /\ (c # NoCursor => a.items # <<>>) => EndsAt(joined, c)
          /\ \A f : AllMatch(notifications, f) /\ AllMatch(a.items, f) => AllMatch(joined, f)
          /\ \A i : i \in ItemIds(notifications) \/ i \in ItemIds(a.items) => i \in ItemIds(joined)
        BY <2>1, <2>2, <2>3, JoinKeeps
    <2>5. EndsAt(joined, a.next)
        BY <1>1, <2>4, Zenon DEF AnswerInv
    <2>6. ASSUME Browsing
          PROVE  /\ AllMatch(joined, filter)
                 /\ \A i \in due : Settled(i, filter)
                 /\ Reached(due, filter, joined, a.next)
        <3>1. a.request.filter = filter /\ cursor = nextCursor
            BY <1>1, <1>2, <1>6, <2>2, <2>6, Zenon DEF RequestInv
        <3>2. AllMatch(joined, filter)
            BY <1>1, <1>2, <2>4, <2>6, <3>1, Zenon DEF AnswerInv, TableInv
        <3>3. \A i \in due : Settled(i, filter)
            BY <1>1, <1>2, <2>6, Zenon DEF TableInv
        <3>4. /\ Reached(due, filter, notifications, nextCursor)
              /\ Reached({i \in due : Behind(i, nextCursor)}, filter, a.items, a.next)
            BY <1>1, <1>2, <1>6, <2>6, Zenon DEF AnswerInv, TableInv
        <3>5. Reached(due, filter, joined, a.next)
            BY <2>4, <3>4, Zenon DEF Reached
        <3> QED
            BY <3>2, <3>3, <3>5, Zenon
    <2> QED
        BY <1>1, <2>1, <2>2, <2>4, <2>5, <2>6, Zenon DEF LogTypes
<1> QED
    BY <1>5, <1>6, Zenon

LEMMA DeliverStep ==
    ASSUME LogInv, NEW a \in answered, Deliver(a)
    PROVE  LogInv'
<1>0. /\ answered' = answered \ {a} /\ edits' = edits \ Waiting(a.request.load)
      /\ UNCHANGED <<status, controls, requestSequence, sent>> /\ auth' = auth
    BY Zenon DEF Deliver, controls
<1>1. StatusStep
    BY <1>0, StatusUnchanged, Zenon DEF LogInv
<1>2. LoadsInv'
    BY <1>0, Zenon DEF LogInv, LoadsInv
<1>3. WaitingInv'
    BY <1>0, Zenon DEF LogInv, WaitingInv
<1>4. \A e \in edits' : e.id \in Ids
    BY <1>0, Zenon DEF LogInv, LogTypes
<1>5. CASE a.ok /\ IsLatest(a.request.load)
    <2>1. Apply(a)
        BY <1>5, Zenon DEF Deliver
    <2>2. notifications' \in Seq(Item) /\ due' \subseteq Ids /\ TableInv'
        BY <1>0, <1>5, <2>1, ApplyIs, Zenon
    <2>3. /\ \A r \in sent : r.load # requestSequence
          /\ \A b \in answered' : b.request.load # requestSequence
        BY <1>0, <1>5, Zenon DEF LogInv, LoadsInv, IsLatest
    <2>4. ASSUME NEW r, RequestInv(r), r.load # requestSequence
          PROVE  RequestInv(r)'
        BY <1>0, <2>4, Zenon DEF RequestInv, Cursors
    <2>5. \A r \in sent' : RequestInv(r)'
        BY <1>0, <2>3, <2>4, Zenon DEF LogInv
    <2>6. \A b \in answered' : RequestInv(b.request)' /\ AnswerInv(b)'
        BY <1>0, <1>1, <2>3, <2>4, AnswerStays, Zenon DEF LogInv
    <2>7. LogTypes'
        BY <1>0, <1>1, <1>4, <2>2, Zenon DEF LogInv, LogTypes
    <2> QED
        BY <1>2, <1>3, <2>2, <2>5, <2>6, <2>7, Zenon DEF LogInv
<1>6. CASE ~(a.ok /\ IsLatest(a.request.load))
    <2>1. UNCHANGED <<notifications, nextCursor, due>>
        BY <1>6, Zenon DEF Deliver
    <2>2. Browsing' => Kept
        BY <1>0, <2>1, KeptByControls, Zenon
    <2>3. TableInv'
        BY <1>1, <2>1, <2>2, TableStays, Zenon DEF LogInv
    <2>4. ASSUME NEW r, RequestInv(r)
          PROVE  RequestInv(r)'
        BY <1>0, <2>1, <2>2, <2>4, Zenon DEF RequestInv, EndsAt, Cursors, Kept
    <2>5. \A r \in sent' : RequestInv(r)'
        BY <1>0, <2>4, Zenon DEF LogInv
    <2>6. \A b \in answered' : RequestInv(b.request)' /\ AnswerInv(b)'
        BY <1>0, <1>1, <2>2, <2>4, AnswerStays, Zenon DEF LogInv
    <2>7. LogTypes'
        BY <1>0, <1>1, <1>4, <2>1, Zenon DEF LogInv, LogTypes
    <2> QED
        BY <1>2, <1>3, <2>3, <2>5, <2>6, <2>7, Zenon DEF LogInv
<1> QED
    BY <1>5, <1>6, Zenon

\* The handlers that load the table anew.
LEMMA LoadStep ==
    ASSUME LogInv, StatusStep, loadNotifications, auth' \in {"in", "out"},
           \A e \in edits' : e.id \in Ids
    PROVE  LogInv'
<1>1. CASE StartReset
    BY <1>1, ResetStep, Zenon
<1>2. CASE WithoutTenant
    <2>1. ~Browsing' /\ WaitingInv'
        BY <1>2, Zenon DEF WithoutTenant, Browsing, WaitingInv
    <2> QED
        BY <1>2, <2>1, CalmStep, Zenon DEF WithoutTenant, EmptyTable
<1> QED
    BY <1>1, <1>2, Zenon DEF loadNotifications


\* One row of the server moves on.
LEMMA RowMoves ==
    ASSUME LogTypes, NEW i \in Ids, NEW s,
           \/ status[i] = "none" /\ s = "queued"
           \/ status[i] = "queued" /\ s \in {"sent", "cancelled"},
           status' = [status EXCEPT ![i] = s]
    PROVE  StatusStep
    BY DEF LogTypes, StatusStep, RowStatus

LEMMA LogStep ==
    ASSUME LogInv, Next
    PROVE  LogInv'
<1>0. LogTypes /\ WaitingInv
    BY Zenon DEF LogInv
<1>a. UNCHANGED status => StatusStep
    BY <1>0, StatusUnchanged, Zenon
<1>b. (\A e \in edits : e.id \in Ids) /\ auth \in {"hydrating", "in", "out"}
    BY <1>0, Zenon DEF LogTypes
<1>1. CASE SignIn
    <2>1. /\ UNCHANGED <<status, selectedTenantId, table, network, edits>>
          /\ auth = "hydrating" /\ auth' = "in"
        BY <1>1, Zenon DEF SignIn, SessionStarts
    <2>2. UNCHANGED <<notifications, nextCursor, due>>
        BY <2>1, Zenon DEF table
    <2>3. ~Browsing' /\ WaitingInv'
        BY <1>0, <2>1, Zenon DEF Browsing, WaitingInv
    <2> QED
        BY <1>a, <1>b, <2>1, <2>2, <2>3, CalmStep, Zenon
<1>2. CASE SignOut
    <2>1. /\ UNCHANGED <<status, network, edits>> /\ auth' = "out"
          /\ notifications' = <<>> /\ nextCursor' = NoCursor /\ due' = {}
        BY <1>2, Zenon DEF SignOut, SessionEnds, EmptyTable
    <2>2. ~Browsing' /\ WaitingInv'
        BY <2>1, Zenon DEF Browsing, WaitingInv
    <2> QED
        BY <1>a, <1>b, <2>1, <2>2, CalmStep, Zenon
<1>3. CASE (\E t \in Tenants : changeTenant(t)) \/ (\E f \in Filters : ChangeFilter(f)) \/ Refresh
    <2>1. UNCHANGED <<status, auth, edits>> /\ auth = "in" /\ loadNotifications
        BY <1>3, Zenon DEF changeTenant, ChangeFilter, Refresh, controls
    <2> QED
        BY <1>a, <1>b, <2>1, LoadStep, Zenon
<1>4. CASE \E q \in Queries : changeSearch(q)
    <2>1. UNCHANGED <<status, auth, table, network, edits>> /\ auth = "in" /\ searchTimer'
        BY <1>4, Zenon DEF changeSearch
    <2>2. UNCHANGED <<notifications, nextCursor, due>>
        BY <2>1, Zenon DEF table
    <2>3. ~Browsing' /\ WaitingInv'
        BY <2>1, Zenon DEF Browsing, WaitingInv
    <2> QED
        BY <1>a, <1>b, <2>1, <2>2, <2>3, CalmStep, Zenon
<1>5. CASE \E k \in DOMAIN notifications, kind \in {"cancel", "reschedule"} :
                BeginEdit(notifications[k], kind)
    <2>1. PICK k \in DOMAIN notifications, kind \in {"cancel", "reschedule"} :
                BeginEdit(notifications[k], kind)
        BY <1>5, Zenon
    <2>2. /\ UNCHANGED <<status, controls, notifications, nextCursor, due, network>>
          /\ edits' = edits \cup {[kind |-> kind, id |-> notifications[k].id, load |-> 0]}
          /\ auth = "in" /\ auth' = "in"
        BY <2>1, Zenon DEF BeginEdit, controls
    <2>3. notifications[k].id \in Ids
        <3>1. notifications[k] \in Item
            BY <1>0 DEF LogTypes
        <3> QED
            BY <3>1 DEF Item
    <2>4. \A e \in edits' : e.id \in Ids
        BY <1>b, <2>2, <2>3
    <2>5. (Browsing' => Kept) /\ WaitingInv'
        BY <2>2, KeptByControls, Zenon DEF WaitingInv
    <2> QED
        BY <1>a, <2>2, <2>4, <2>5, CalmStep, Zenon
<1>6. CASE SearchTimerFires
    <2>1. /\ UNCHANGED <<status, auth, edits>> /\ searchTimer
          /\ IF auth = "in" THEN loadNotifications ELSE UNCHANGED <<table, network>>
        BY <1>6, Zenon DEF SearchTimerFires
    <2>2. CASE auth = "in"
        BY <1>a, <1>b, <2>1, <2>2, LoadStep, Zenon
    <2>3. CASE auth # "in"
        <3>1. UNCHANGED <<notifications, nextCursor, due, network>>
            BY <2>1, <2>3, Zenon DEF table
        <3>2. ~Browsing' /\ WaitingInv'
            BY <1>0, <2>1, <2>3, Zenon DEF Browsing, WaitingInv
        <3> QED
            BY <1>a, <1>b, <2>1, <3>1, <3>2, CalmStep, Zenon
    <2> QED
        BY <2>2, <2>3, Zenon
<1>7. CASE \E options \in SUBSET Tenants : TenantsAnswered(options)
    <2>1. /\ UNCHANGED <<status, auth, edits>> /\ tenantLoad.phase = "calling"
          /\ IF auth = "in" THEN loadNotifications ELSE UNCHANGED <<table, network>>
        BY <1>7, Zenon DEF TenantsAnswered
    <2>2. CASE auth = "in"
        BY <1>a, <1>b, <2>1, <2>2, LoadStep, Zenon
    <2>3. CASE auth # "in"
        <3>1. UNCHANGED <<notifications, nextCursor, due, network>>
            BY <2>1, <2>3, Zenon DEF table
        <3>2. ~Browsing' /\ WaitingInv'
            BY <1>0, <2>1, <2>3, Zenon DEF Browsing, WaitingInv
        <3> QED
            BY <1>a, <1>b, <2>1, <3>1, <3>2, CalmStep, Zenon
    <2> QED
        BY <2>2, <2>3, Zenon
<1>8. CASE TenantsFail
    <2>1. /\ UNCHANGED <<status, auth, nextCursor, due, network, edits>>
          /\ tenantLoad.phase = "calling" /\ selectedTenantId' = NoTenant /\ notifications' = <<>>
        BY <1>8, Zenon DEF TenantsFail
    <2>2. ~Browsing' /\ WaitingInv'
        BY <1>0, <2>1, Zenon DEF Browsing, WaitingInv
    <2> QED
        BY <1>a, <1>b, <2>1, <2>2, CalmStep, Zenon
<1>9. CASE \E e \in edits : EditReturns(e)
    <2>1. PICK e \in edits : EditReturns(e)
        BY <1>9, Zenon
    <2>2. /\ status[e.id] = "queued" /\ UNCHANGED controls
          /\ status' = IF e.kind = "cancel" THEN [status EXCEPT ![e.id] = "cancelled"] ELSE status
        BY <2>1, Zenon DEF EditReturns
    <2>3. StatusStep
        BY <1>0, <1>a, <1>b, <2>2, RowMoves, Zenon
    <2>4. auth' = auth /\ auth \in {"in", "out"}
        BY <1>0, <1>b, <2>2, Zenon DEF controls, WaitingInv
    <2>5. CASE auth = "in" /\ selectedTenantId # NoTenant
        <3>1. /\ StartReset
              /\ edits' = (edits \ {e}) \cup {[e EXCEPT !.load = requestSequence + 1]}
            BY <2>1, <2>5, Zenon DEF EditReturns
        <3>2. [e EXCEPT !.load = requestSequence + 1].id = e.id
            OBVIOUS
        <3>3. \A f \in edits' : f.id \in Ids
            BY <1>b, <3>1, <3>2, Zenon
        <3> QED
            BY <2>3, <2>4, <3>1, <3>3, ResetStep, Zenon
    <2>6. CASE ~(auth = "in" /\ selectedTenantId # NoTenant)
        <3>1. /\ edits' = edits \ {e} /\ UNCHANGED network
              /\ IF auth = "in" THEN EmptyTable
                 ELSE UNCHANGED <<notifications, nextCursor, hasLoaded, due>>
            BY <2>1, <2>6, Zenon DEF EditReturns
        <3>2. \/ UNCHANGED <<notifications, nextCursor, due>>
              \/ notifications' = <<>> /\ nextCursor' = NoCursor /\ due' = {}
            BY <3>1, Zenon DEF EmptyTable
        <3>3. ~Browsing' /\ WaitingInv'
            BY <2>2, <2>4, <2>6, Zenon DEF Browsing, controls, WaitingInv
        <3>4. \A f \in edits' : f.id \in Ids
            BY <1>b, <3>1, Zenon
        <3> QED
            BY <1>b, <2>3, <2>4, <3>1, <3>2, <3>3, <3>4, CalmStep, ZenonT(40)
    <2> QED
        BY <2>5, <2>6, Zenon
<1>10. CASE \E e \in edits : EditFails(e)
    <2>1. PICK e \in edits : EditFails(e)
        BY <1>10, Zenon
    <2>2. /\ UNCHANGED <<status, controls, notifications, nextCursor, due, network>>
          /\ edits' = edits \ {e} /\ auth' = auth /\ auth # "hydrating"
        BY <1>0, <2>1, Zenon DEF EditFails, controls, WaitingInv
    <2>3. (Browsing' => Kept) /\ WaitingInv' /\ \A f \in edits' : f.id \in Ids
        BY <1>b, <2>2, KeptByControls, Zenon DEF WaitingInv
    <2> QED
        BY <1>a, <1>b, <2>2, <2>3, CalmStep, Zenon
<1>11. CASE Server
    <2>1. PICK i \in Ids : Insert(i) \/ Dispatch(i)
        BY <1>11, Zenon DEF Server
    <2>2. StatusStep
        BY <1>0, <2>1, RowMoves, Zenon DEF Insert, Dispatch
    <2>3. /\ UNCHANGED <<controls, table, network, tenantLoad, edits>>
        BY <2>1, Zenon DEF Insert, Dispatch
    <2>4. UNCHANGED <<notifications, nextCursor, due, auth, sent, answered, searchTimer,
                      selectedTenantId>>
        BY <2>3, Zenon DEF table, controls, network
    <2>5. (Browsing' => Kept) /\ WaitingInv' /\ \A f \in edits' : f.id \in Ids
        BY <1>0, <1>b, <2>3, <2>4, KeptByControls, Zenon DEF WaitingInv
    <2> QED
        BY <1>b, <2>2, <2>3, <2>4, <2>5, CalmStep, Zenon
<1>12. CASE loadNextPage \/ (\E r \in sent : Answer(r) \/ RequestFails(r))
                \/ \E a \in answered : Deliver(a)
    BY <1>12, NextPageStep, AnswerStep, RequestFailsStep, DeliverStep, Zenon
<1> QED
    BY <1>1, <1>2, <1>3, <1>4, <1>5, <1>6, <1>7, <1>8, <1>9, <1>10, <1>11, <1>12, ZenonT(40)
    DEF Next, Reader, Network, Failures

LEMMA LogStarts == Init => LogInv
<1> SUFFICES ASSUME Init
             PROVE  LogInv
    BY Zenon
<1> USE DEF Init, VisitInit
<1>1. status \in [Ids -> RowStatus]
    BY Zenon DEF RowStatus
<1>2. /\ notifications = <<>> /\ nextCursor = NoCursor /\ due = {} /\ sent = {} /\ answered = {}
      /\ edits = {} /\ requestSequence = 0 /\ auth = "hydrating" /\ ~searchTimer
      /\ tenantLoad = [phase |-> "idle", load |-> 0] /\ selectedTenantId = NoTenant
    BY Zenon
<1> HIDE DEF Init, VisitInit
<1>3. tenantLoad.phase = "idle" /\ requestSequence \in Nat
    <2>1. tenantLoad.phase = "idle"
        BY <1>2, Zenon
    <2>2. requestSequence \in Nat
        BY <1>2
    <2> QED
        BY <2>1, <2>2, Zenon
<1>4. TableInv
    BY <1>2, EmptyTableIs, Zenon DEF TableInv, Browsing
<1> QED
    BY <1>1, <1>2, <1>3, <1>4, EmptyTableIs, Zenon DEF LogInv, LogTypes, WaitingInv, LoadsInv

LEMMA LogStutters ==
    ASSUME LogInv, UNCHANGED vars
    PROVE  LogInv'
<1>1. UNCHANGED <<status, controls, table, network, tenantLoad, edits>>
    BY Zenon DEF vars
<1>2. UNCHANGED <<notifications, nextCursor, due, auth, sent, answered, searchTimer,
                  selectedTenantId>>
    BY <1>1, Zenon DEF table, controls, network
<1>3. LogTypes /\ WaitingInv
    BY Zenon DEF LogInv
<1>4. StatusStep /\ (Browsing' => Kept)
    BY <1>1, <1>2, <1>3, StatusUnchanged, KeptByControls, Zenon
<1>5. /\ WaitingInv' /\ auth' \in {"hydrating", "in", "out"}
      /\ \A e \in edits' : e.id \in Ids
    BY <1>1, <1>2, <1>3, Zenon DEF LogTypes, WaitingInv
<1> QED
    BY <1>1, <1>2, <1>4, <1>5, CalmStep, Zenon

-----------------------------------------------------------------------------
(* What the invariant says of the table *)

LEMMA LogShowsSelected ==
    ASSUME LogInv
    PROVE  ShownIsSelected
<1> SUFFICES ASSUME Browsing, NEW k \in DOMAIN notifications
             PROVE  /\ TenantOf[notifications[k].id] = selectedTenantId
                    /\ statusFilter # "all" => notifications[k].status = statusFilter
                    /\ searchQuery # "" => searchQuery \in
                            Texts[notifications[k].id] \cup {notifications[k].status}
    BY Zenon DEF ShownIsSelected
<1>1. notifications # <<>>
    OBVIOUS
<1>2. LogTypes /\ AllMatch(notifications, Selection)
    BY <1>1, Zenon DEF LogInv, TableInv
<1>3. k \in 1..Len(notifications)
    BY <1>2 DEF LogTypes
<1>4. Matches(notifications[k], Selection)
    BY <1>2, <1>3, Zenon DEF AllMatch
<1>5. /\ Selection.tenant = selectedTenantId /\ Selection.query = searchQuery
      /\ statusFilter # "all" => Selection.statuses = {statusFilter}
    BY DEF Selection
<1> QED
    BY <1>4, <1>5, Zenon DEF Matches

LEMMA LogSkipsNone ==
    ASSUME LogInv
    PROVE  NoneSkipped
<1>1. LogTypes /\ TableInv
    BY Zenon DEF LogInv
<1>2. ASSUME NEW k \in 1..Len(notifications) - 1
      PROVE  Newer(notifications[k].id, notifications[k + 1].id)
    <2>1. k \in 1..Len(notifications) /\ k + 1 \in 1..Len(notifications) /\ k < k + 1
        BY <1>1 DEF LogTypes
    <2> QED
        BY <1>1, <2>1, Zenon DEF TableInv, Sorted
<1>3. Complete => due \cap notificationListQuery(Selection) \subseteq ItemIds(notifications)
    BY <1>1, Zenon DEF Complete, TableInv, Reached, Behind
<1> QED
    BY <1>2, <1>3, Zenon DEF NoneSkipped, Newer

\* Whatever order the answers come in, the rows on the screen are rows the
\* controls ask for (requestSequence in notificationsTable.js).
THEOREM ShownAlwaysSelected == LogSpec => []ShownIsSelected
<1>1. LogInv /\ [Next]_vars => LogInv'
    BY LogStep, LogStutters, Zenon
<1>2. LogInv => ShownIsSelected
    BY LogShowsSelected, Zenon
<1> QED
    BY <1>1, <1>2, LogStarts, PTL DEF LogSpec

\* Pages join without a gap or an overlap though rows are inserted, sent and
\* cancelled while the reader scrolls (appendUniqueNotifications in
\* notificationsTable.js, ListNotificationsPage in internal/model/models.go).
THEOREM NoneEverSkipped == LogSpec => []NoneSkipped
<1>1. LogInv /\ [Next]_vars => LogInv'
    BY LogStep, LogStutters, Zenon
<1>2. LogInv => NoneSkipped
    BY LogSkipsNone, Zenon
<1> QED
    BY <1>1, <1>2, LogStarts, PTL DEF LogSpec
=============================================================================
