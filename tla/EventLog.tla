------------------------------ MODULE EventLog ------------------------------
(***************************************************************************)
(* The event log of the browser UI (web/js/ui/notificationsTable.js) over  *)
(* the paged listing of the server.                                        *)
(*                                                                         *)
(* A page of JavaScript runs one turn at a time, and every await ends a    *)
(* turn: requests overlap, their answers come in any order, and the reader *)
(* may change tenant, filter and search while they are under way.  A load  *)
(* numbers itself with requestSequence and applies its answer only while   *)
(* it is still the last one.  On the server, notifications are inserted,   *)
(* sent and cancelled between any two queries.                             *)
(*                                                                         *)
(* The session is that of PageSession, which the session bridge            *)
(* implements: it starts once per page, a sign-out navigates away, and     *)
(* only the answers under way still reach the page.                        *)
(***************************************************************************)
EXTENDS NotificationListing, PageVisit

CONSTANTS
    Filters,    \* status filters on offer: "all" or a status
    Queries,    \* search strings, "" for no search
    NoTenant

ASSUME EventLogAssumption == NoTenant \notin Tenants

VARIABLES
    tenants,          \* options of the tenant control
    selectedTenantId,
    statusFilter,
    searchQuery,
    searchTimer,      \* a debounced search is waiting
    notifications,    \* the rows of the table, as they were answered
    nextCursor,
    hasLoaded,
    isLoading,
    isLoadingMore,
    requestSequence,
    sent,             \* list requests on their way to the server
    answered,         \* answers on their way back
    tenantLoad,       \* loadTenants: idle, calling, or awaiting load n
    edits,            \* cancel and reschedule handlers under way
    \* history
    due               \* rows that matched when the first page was read

controls == <<auth, tenants, selectedTenantId, statusFilter, searchQuery, searchTimer>>
table == <<notifications, nextCursor, hasLoaded, isLoading, isLoadingMore, due>>
network == <<requestSequence, sent, answered>>
vars == <<status, controls, table, network, tenantLoad, edits, changes, faults>>

Init ==
    /\ \E n \in 0..Cardinality(Ids) :
            status = [i \in Ids |-> IF i <= n THEN "queued" ELSE "none"]
    /\ VisitInit
    /\ tenants = {}
    /\ selectedTenantId = NoTenant
    /\ statusFilter = "all"
    /\ searchQuery = ""
    /\ searchTimer = FALSE
    /\ notifications = <<>>
    /\ nextCursor = NoCursor
    /\ hasLoaded = FALSE
    /\ isLoading = FALSE
    /\ isLoadingMore = FALSE
    /\ requestSequence = 0
    /\ sent = {}
    /\ answered = {}
    /\ tenantLoad = [phase |-> "idle", load |-> 0]
    /\ edits = {}
    /\ due = {}

ItemIds(items) == {items[k].id : k \in DOMAIN items}

-----------------------------------------------------------------------------
(* loadNotificationPage, up to its await.  Callers fix the primed controls  *)
(* first; selectedTenantId' may have changed in the same turn.              *)

Request(reset) ==
    [load   |-> requestSequence + 1,
     reset  |-> reset,
     filter |-> [tenant   |-> selectedTenantId',
                 statuses |-> IF statusFilter' = "all" THEN {} ELSE {statusFilter'},
                 query    |-> searchQuery'],
     cursor |-> IF reset THEN NoCursor ELSE nextCursor]

Submit(reset) ==
    /\ requestSequence' = requestSequence + 1
    /\ sent' = sent \cup {Request(reset)}
    /\ UNCHANGED answered

StartReset ==
    /\ selectedTenantId' # NoTenant
    /\ Submit(TRUE)
    /\ isLoading' = TRUE
    /\ notifications' = <<>>
    /\ nextCursor' = NoCursor
    /\ hasLoaded' = FALSE
    /\ due' = {}
    /\ UNCHANGED isLoadingMore

\* Without a tenant the table is emptied, and a load under way goes on.
EmptyTable ==
    /\ notifications' = <<>>
    /\ nextCursor' = NoCursor
    /\ hasLoaded' = FALSE
    /\ due' = {}

WithoutTenant ==
    /\ selectedTenantId' = NoTenant
    /\ EmptyTable
    /\ UNCHANGED <<isLoading, isLoadingMore, network>>

loadNotifications == StartReset \/ WithoutTenant

\* The scroll observer asks for the next page.
loadNextPage ==
    /\ auth = "in"
    /\ selectedTenantId # NoTenant
    /\ nextCursor # NoCursor
    /\ ~isLoading /\ ~isLoadingMore
    /\ isLoadingMore' = TRUE
    /\ UNCHANGED controls
    /\ Submit(FALSE)
    /\ UNCHANGED <<status, notifications, nextCursor, hasLoaded, isLoading, due,
                   tenantLoad, edits, changes, faults>>

-----------------------------------------------------------------------------
(* The server reads the table between any two turns. *)

Reply(r) ==
    LET page == ListNotificationsPage(r.filter, r.cursor) IN
    [request |-> r,
     items   |-> [k \in DOMAIN page.items |->
                    [id |-> page.items[k], status |-> status[page.items[k]]]],
     next    |-> page.next,
     matched |-> notificationListQuery(r.filter),
     ok      |-> TRUE]

Answer(r) ==
    /\ sent' = sent \ {r}
    /\ answered' = answered \cup {Reply(r)}
    /\ UNCHANGED <<status, controls, table, requestSequence, tenantLoad, edits, changes, faults>>

\* An error status, a network failure.
RequestFails(r) ==
    /\ Fault
    /\ sent' = sent \ {r}
    /\ answered' = answered \cup
            {[request |-> r, items |-> <<>>, next |-> NoCursor, matched |-> {}, ok |-> FALSE]}
    /\ UNCHANGED <<status, controls, table, requestSequence, tenantLoad, edits, changes>>

-----------------------------------------------------------------------------
(* loadNotificationPage, from its await on. *)

appendUniqueNotifications(current, next) ==
    LET merged[n \in 0..Len(next)] ==
            IF n = 0 THEN current
            ELSE IF next[n].id \in ItemIds(merged[n - 1]) THEN merged[n - 1]
            ELSE Append(merged[n - 1], next[n])
    IN merged[Len(next)]

Apply(a) ==
    /\ notifications' = IF a.request.reset THEN a.items
                        ELSE appendUniqueNotifications(notifications, a.items)
    /\ nextCursor' = a.next
    /\ hasLoaded' = TRUE
    /\ due' = IF a.request.reset THEN a.matched ELSE due

\* A faulty form of the test below: answers that have been overtaken count.
IsLatestAlways(load) == TRUE

IsLatest(load) == load = requestSequence

\* Handlers that await this load: they finish in the same turn.
Waiting(load) == {e \in edits : e.load = load}

\* A faulty form of the end of a load below: each kind clears its own mark.
FinishLoadOwnMark(a) ==
    /\ isLoading' = IF a.request.reset /\ IsLatest(a.request.load) THEN FALSE ELSE isLoading
    /\ isLoadingMore' =
        IF a.request.reset \/ ~IsLatest(a.request.load) THEN isLoadingMore ELSE FALSE

\* The finally blocks: of the load when it is the last one, and of a cancel
\* that awaited it in any case.
FinishLoad(a) ==
    /\ isLoading' =
            IF \/ IsLatest(a.request.load)
               \/ \E e \in Waiting(a.request.load) : e.kind = "cancel"
            THEN FALSE ELSE isLoading
    /\ isLoadingMore' = IF IsLatest(a.request.load) THEN FALSE ELSE isLoadingMore

Deliver(a) ==
    /\ answered' = answered \ {a}
    /\ IF a.ok /\ IsLatest(a.request.load)
       THEN Apply(a)
       ELSE UNCHANGED <<notifications, nextCursor, hasLoaded, due>>
    /\ FinishLoad(a)
    /\ edits' = edits \ Waiting(a.request.load)
    /\ tenantLoad' = IF tenantLoad.load = a.request.load
                     THEN [phase |-> "idle", load |-> 0] ELSE tenantLoad
    /\ UNCHANGED <<status, controls, requestSequence, sent, changes, faults>>

-----------------------------------------------------------------------------
(* Session and tenants *)

\* refreshIfAuthenticated or the watcher: loadTenants, up to its await.
SignIn ==
    /\ SessionStarts
    /\ tenantLoad' = [phase |-> "calling", load |-> 0]
    /\ UNCHANGED <<status, tenants, selectedTenantId, statusFilter, searchQuery, searchTimer,
                   table, network, edits, changes, faults>>

\* The watcher empties the table; requestSequence stays.
SignOut ==
    /\ auth = "in"
    /\ Change
    /\ SessionEnds
    /\ tenants' = {}
    /\ EmptyTable
    /\ UNCHANGED <<status, selectedTenantId, statusFilter, searchQuery, searchTimer,
                   isLoading, isLoadingMore, network, tenantLoad, edits, faults>>

\* The selection stays when it is on offer; otherwise the first tenant of the
\* answer takes its place, here any of them.
selectTenantId(selected, options) ==
    CASE selected \in options -> {selected}
      [] selected \notin options /\ options # {} -> options
      [] options = {} -> {NoTenant}

\* The answer of listTenants; a reader without any is shown an empty table,
\* and after a sign-out loadNotifications returns at once.
TenantsAnswered(options) ==
    /\ tenantLoad.phase = "calling"
    /\ tenants' = options
    /\ selectedTenantId' \in selectTenantId(selectedTenantId, options)
    /\ UNCHANGED <<auth, statusFilter, searchQuery, searchTimer>>
    /\ IF auth = "in" THEN loadNotifications ELSE UNCHANGED <<table, network>>
    /\ tenantLoad' = IF auth = "in" /\ selectedTenantId' # NoTenant
                     THEN [phase |-> "loading", load |-> requestSequence + 1]
                     ELSE [phase |-> "idle", load |-> 0]
    /\ UNCHANGED <<status, edits, changes, faults>>

TenantsFail ==
    /\ tenantLoad.phase = "calling"
    /\ Fault
    /\ tenants' = {}
    /\ selectedTenantId' = NoTenant
    /\ notifications' = <<>>
    /\ tenantLoad' = [phase |-> "idle", load |-> 0]
    /\ UNCHANGED <<status, auth, statusFilter, searchQuery, searchTimer, nextCursor, hasLoaded,
                   isLoading, isLoadingMore, due, network, edits, changes>>

-----------------------------------------------------------------------------
(* The reader *)

\* The tenant control is disabled while tenants are loading.
changeTenant(t) ==
    /\ auth = "in" /\ Change
    /\ tenantLoad.phase = "idle"
    /\ t \in tenants \ {selectedTenantId}
    /\ selectedTenantId' = t
    /\ UNCHANGED <<auth, tenants, statusFilter, searchQuery, searchTimer>>
    /\ loadNotifications
    /\ UNCHANGED <<status, tenantLoad, edits, faults>>

ChangeFilter(f) ==
    /\ auth = "in" /\ Change
    /\ f # statusFilter
    /\ statusFilter' = f
    /\ UNCHANGED <<auth, tenants, selectedTenantId, searchQuery, searchTimer>>
    /\ loadNotifications
    /\ UNCHANGED <<status, tenantLoad, edits, faults>>

\* Refresh button or the refresh event of the shell.
Refresh ==
    /\ auth = "in" /\ Change
    /\ UNCHANGED controls
    /\ loadNotifications
    /\ UNCHANGED <<status, tenantLoad, edits, faults>>

\* Typing (re)starts the timer.
changeSearch(q) ==
    /\ auth = "in" /\ Change
    /\ q # searchQuery
    /\ searchQuery' = q
    /\ searchTimer' = TRUE
    /\ UNCHANGED <<status, auth, tenants, selectedTenantId, statusFilter, table, network,
                   tenantLoad, edits, faults>>

SearchTimerFires ==
    /\ searchTimer
    /\ searchTimer' = FALSE
    /\ UNCHANGED <<auth, tenants, selectedTenantId, statusFilter, searchQuery>>
    /\ IF auth = "in" THEN loadNotifications ELSE UNCHANGED <<table, network>>
    /\ UNCHANGED <<status, tenantLoad, edits, changes, faults>>

\* cancelNotification and submitSchedule, up to their first await; both are
\* offered for rows shown as queued.
BeginEdit(item, kind) ==
    /\ auth = "in" /\ Change
    /\ item.status = "queued"
    /\ edits' = edits \cup {[kind |-> kind, id |-> item.id, load |-> 0]}
    /\ isLoading' = IF kind = "cancel" THEN TRUE ELSE isLoading
    /\ UNCHANGED <<status, controls, notifications, nextCursor, hasLoaded, isLoadingMore, due,
                   network, tenantLoad, faults>>

EditReturns(e) ==
    /\ e.load = 0
    /\ status[e.id] = "queued"
    /\ status' = IF e.kind = "cancel" THEN [status EXCEPT ![e.id] = "cancelled"] ELSE status
    /\ UNCHANGED controls
    /\ IF auth = "in" /\ selectedTenantId # NoTenant
       THEN /\ StartReset
            /\ edits' = (edits \ {e}) \cup {[e EXCEPT !.load = requestSequence + 1]}
       ELSE /\ edits' = edits \ {e}
            /\ IF auth = "in" THEN EmptyTable
               ELSE UNCHANGED <<notifications, nextCursor, hasLoaded, due>>
            /\ isLoading' = IF e.kind = "cancel" THEN FALSE ELSE isLoading
            /\ UNCHANGED <<isLoadingMore, network>>
    /\ UNCHANGED <<tenantLoad, changes, faults>>

\* The server refuses (the row is no longer queued) or the call fails.
EditFails(e) ==
    /\ e.load = 0
    /\ IF status[e.id] = "queued" THEN Fault ELSE UNCHANGED faults
    /\ edits' = edits \ {e}
    /\ isLoading' = IF e.kind = "cancel" THEN FALSE ELSE isLoading
    /\ UNCHANGED <<status, controls, notifications, nextCursor, hasLoaded, isLoadingMore, due,
                   network, tenantLoad, changes>>

-----------------------------------------------------------------------------
(* Other actors of the server *)

Insert(i) ==
    /\ status[i] = "none"
    /\ \A j \in Ids : j < i => status[j] # "none"
    /\ status' = [status EXCEPT ![i] = "queued"]
    /\ UNCHANGED <<controls, table, network, tenantLoad, edits, changes, faults>>

Dispatch(i) ==
    /\ status[i] = "queued"
    /\ status' = [status EXCEPT ![i] = "sent"]
    /\ UNCHANGED <<controls, table, network, tenantLoad, edits, changes, faults>>

-----------------------------------------------------------------------------
Reader ==
    \/ SignOut
    \/ \E t \in Tenants : changeTenant(t)
    \/ \E f \in Filters : ChangeFilter(f)
    \/ \E q \in Queries : changeSearch(q)
    \/ Refresh
    \/ \E k \in DOMAIN notifications, kind \in {"cancel", "reschedule"} :
            BeginEdit(notifications[k], kind)

Network ==
    \/ \E a \in answered : Deliver(a)
    \/ \E e \in edits : EditReturns(e)
    \/ \E options \in SUBSET Tenants : TenantsAnswered(options)
    \/ \E r \in sent : Answer(r)

Failures ==
    \/ \E r \in sent : RequestFails(r)
    \/ TenantsFail
    \/ \E e \in edits : EditFails(e)

Server == \E i \in Ids : Insert(i) \/ Dispatch(i)

Next ==
    \/ SignIn
    \/ Reader
    \/ loadNextPage
    \/ SearchTimerFires
    \/ Network
    \/ Failures
    \/ Server

\* The log by itself, on a page whose session is the one PageSession allows.
LogSpec == Init /\ [][Next]_vars

\* A request is answered or fails in the end, a timer fires, and the reader
\* scrolls on while there is a next page.
LogProgress == SearchTimerFires \/ loadNextPage \/ Network \/ Failures

-----------------------------------------------------------------------------
(* Properties *)

\* What the controls ask for.
Selection ==
    [tenant   |-> selectedTenantId,
     statuses |-> IF statusFilter = "all" THEN {} ELSE {statusFilter},
     query    |-> searchQuery]

Browsing == auth = "in" /\ selectedTenantId # NoTenant /\ ~searchTimer

\* Whatever order the answers come in, the rows on the screen are rows the
\* controls ask for: of the selected tenant, with a status of the filter when
\* they were read, and found by the search.
ShownIsSelected ==
    Browsing =>
        \A k \in DOMAIN notifications :
            LET item == notifications[k] IN
            /\ TenantOf[item.id] = selectedTenantId
            /\ statusFilter # "all" => item.status = statusFilter
            /\ searchQuery # "" => searchQuery \in Texts[item.id] \cup {item.status}

InFlight == sent # {} \/ answered # {}

\* The end of the list has been reached.
Complete == Browsing /\ hasLoaded /\ nextCursor = NoCursor /\ ~InFlight

\* Pages join without a gap or an overlap, though rows are inserted before and
\* behind the cursor while the reader scrolls: rows are newest first, none
\* comes twice, and a reader who has scrolled to the end has seen every row
\* that was there when the first page was read and that the controls still ask
\* for (appendUniqueNotifications, the cursor of the listing).
NoneSkipped ==
    /\ \A k \in 1..Len(notifications) - 1 :
        LET i == notifications[k].id
            j == notifications[k + 1].id
        IN CreatedAt[i] > CreatedAt[j] \/ (CreatedAt[i] = CreatedAt[j] /\ i > j)
    /\ Complete => due \cap notificationListQuery(Selection) \subseteq ItemIds(notifications)

\* No mark stays on that would keep the observer from asking for the next
\* page, and the last page is reached.
LogLoaded == auth = "out" \/ (~isLoading /\ ~isLoadingMore /\ nextCursor = NoCursor)
=============================================================================
