------------------------ MODULE NotificationListing ------------------------
(***************************************************************************)
(* The paged listing of notifications (internal/model/models.go): newest   *)
(* first, one tenant, optional status filter and search, and a cursor made *)
(* from the created_at and id of the last row of the page before.          *)
(*                                                                         *)
(* created_at is drawn by the caller's clock before the insert that draws  *)
(* the id, so the two orders need not agree and created_at may be equal.   *)
(* What never changes in a row is a constant here, its status is state.    *)
(***************************************************************************)
EXTENDS Naturals, Sequences, FiniteSets

CONSTANTS
    Ids,       \* primary keys 1..n, in the order of the inserts
    Tenants,
    TenantOf,
    CreatedAt,
    Texts,     \* search strings found in the columns that never change
    Limit,     \* rows per page
    NoCursor

ASSUME IdsAssumption == CreatedAt \in Seq(Nat) /\ Ids = 1..Len(CreatedAt)
ASSUME RowAssumption == TenantOf \in [Ids -> Tenants]
ASSUME LimitAssumption == Limit \in Nat \ {0}

VARIABLE status \* status of each row, "none" before its insert

Existing == {i \in Ids : status[i] # "none"}

Newer(i, j) ==
    \/ CreatedAt[i] > CreatedAt[j]
    \/ CreatedAt[i] = CreatedAt[j] /\ i > j

\* A filter is [tenant, statuses, query]; no statuses means all of them, and a
\* search also looks into the status column.
notificationListQuery(filter) ==
    {i \in Existing :
        /\ TenantOf[i] = filter.tenant
        /\ filter.statuses # {} => status[i] \in filter.statuses
        /\ filter.query # "" => filter.query \in Texts[i] \cup {status[i]}}

\* A faulty form of the condition below: rows created at the same time as the
\* cursor's row are taken as seen.
notificationCursorConditionNoTies(i, cursor) == CreatedAt[i] < cursor.createdAt

notificationCursorCondition(i, cursor) ==
    \/ CreatedAt[i] < cursor.createdAt
    \/ CreatedAt[i] = cursor.createdAt /\ i < cursor.id

CursorOf(i) == [createdAt |-> CreatedAt[i], id |-> i]

ASSUME CursorAssumption == \A i \in Ids : CursorOf(i) # NoCursor

notificationPageFromRecords(records) ==
    IF Len(records) <= Limit
    THEN [items |-> records, next |-> NoCursor]
    ELSE [items |-> SubSeq(records, 1, Limit), next |-> CursorOf(records[Limit])]

\* The rows in the order of the listing.
NewestFirst(rows) ==
    CHOOSE records \in [1..Cardinality(rows) -> rows] :
        \A k, l \in 1..Cardinality(rows) : k < l => Newer(records[k], records[l])

ListNotificationsPage(filter, cursor) ==
    LET found == {i \in notificationListQuery(filter) :
                    cursor # NoCursor => notificationCursorCondition(i, cursor)}
    IN notificationPageFromRecords(NewestFirst(found))
=============================================================================
