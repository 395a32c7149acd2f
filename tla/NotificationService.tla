------------------------- MODULE NotificationService -------------------------
(***************************************************************************)
(* The notification service and its retry worker                           *)
(* (internal/service/notification_service.go, notification_retry.go and    *)
(* the notifications table of internal/model).                             *)
(*                                                                         *)
(* RPC and HTTP handlers run concurrently with one background worker.      *)
(* Every update of a stored notification is a read of the whole row, a     *)
(* decision in memory and a later GORM Save of the whole row, so each      *)
(* handler is two or three steps here and the steps of different actors    *)
(* interleave.  The worker of utils/scheduler is not in the repository: it *)
(* is modelled from the Repository and Dispatcher interfaces it is given.  *)
(*                                                                         *)
(* Times are kept as distances to now.  dueIn is the time left to          *)
(* ScheduledFor (0 when it is NULL or past) and backoffLeft the time left  *)
(* of the backoff that started at LastAttemptedAt; Tick ages every record, *)
(* stored or held in memory.                                               *)
(***************************************************************************)
EXTENDS Naturals, FiniteSets

CONSTANTS
    Ids,            \* notification identifiers, each used by one Send call
    Tenants,
    Clients,        \* concurrent RPC / HTTP calls
    TenantOf,       \* the tenant on whose behalf an identifier is issued
    SenderDisabled, \* identifiers whose channel has no credentials (SMS off)
    MaxRetries,     \* config.MaxRetries
    Backoff,        \* scheduler backoff after the n-th attempt
    Delays,         \* distances of scheduled_time from now that callers ask for
    MaxEdits,       \* bound on reschedule and cancel calls
    MaxFaults,      \* bound on crashes and failed result writes
    None            \* no notification

ASSUME MaxRetriesAssumption == MaxRetries \in Nat \ {0}
ASSUME BackoffAssumption == Backoff \in [0..MaxRetries -> Nat]
ASSUME DelaysAssumption == Delays \subseteq Nat
ASSUME TenantOfAssumption == TenantOf \in [Ids -> Tenants]
ASSUME BoundsAssumption == MaxEdits \in Nat /\ MaxFaults \in Nat
ASSUME NoneAssumption == None \notin Ids

VARIABLES
    row,          \* the notifications table
    tenantStatus, \* the tenants table, written by Bootstrap at start-up
    issued,       \* identifiers already drawn from the clock
    pc,           \* where each handler is
    target,       \* the notification a handler works on, None when idle
    draft,        \* the record a handler holds in memory
    jobs,         \* identifiers of the batch the worker still has to attempt
    snapshot,     \* the records of that batch, as read or as updated
    current,      \* the job attempted but not yet saved
    edits,        \* reschedule and cancel calls so far
    faults,       \* crashes and failed result writes so far
    \* history
    delivered,    \* times the provider took the message
    unrecorded,   \* identifiers with a delivery that no write will record
    raced,        \* identifiers written while another actor held a snapshot
    cancelAcked   \* identifiers whose cancel call returned success

handlerVars == <<issued, pc, target, draft>>
workerVars == <<jobs, snapshot, current>>
historyVars == <<delivered, unrecorded, raced, cancelAcked>>
vars == <<row, tenantStatus, handlerVars, workerVars, edits, faults, historyVars>>

-----------------------------------------------------------------------------
Status == {"none", "queued", "sent", "errored", "cancelled"}

Notification == [status : Status, retryCount : 0..MaxRetries,
                 dueIn : Nat, backoffLeft : Nat]

Absent == [status |-> "none", retryCount |-> 0, dueIn |-> 0, backoffLeft |-> 0]

NewNotification(delay, backoff) ==
    [status |-> "queued", retryCount |-> 0, dueIn |-> delay, backoffLeft |-> backoff]

TenantStates == {"active", "suspended", "absent"}

\* Bootstrap rejects a configuration without an enabled tenant.
TenantTables ==
    {t \in [Tenants -> TenantStates] : \E x \in Tenants : t[x] = "active"}

\* ResolveByID finds every configured tenant, whatever its status.
Resolves(id) == tenantStatus[TenantOf[id]] # "absent"

\* Faulty forms of the filter below.
PendingJobWithoutStatus(id) ==
    /\ row[id].status # "none"
    /\ row[id].retryCount < MaxRetries
    /\ row[id].dueIn = 0
    /\ tenantStatus[TenantOf[id]] = "active"
PendingJobNotDue(id) ==
    /\ row[id].status \in {"queued", "errored"}
    /\ row[id].retryCount < MaxRetries
    /\ tenantStatus[TenantOf[id]] = "active"
PendingJobAnyTenant(id) ==
    /\ row[id].status \in {"queued", "errored"}
    /\ row[id].retryCount < MaxRetries
    /\ row[id].dueIn = 0
PendingJobErroredOnly(id) ==
    /\ row[id].status = "errored"
    /\ row[id].retryCount < MaxRetries
    /\ row[id].dueIn = 0
    /\ tenantStatus[TenantOf[id]] = "active"

\* pendingJobsFilter joined with the active tenants.
PendingJob(id) ==
    /\ row[id].status \in {"queued", "errored"}
    /\ row[id].retryCount < MaxRetries
    /\ row[id].dueIn = 0
    /\ tenantStatus[TenantOf[id]] = "active"

\* The scheduler leaves a pending job alone until its backoff has elapsed.
BackoffElapsed(id) == row[id].backoffLeft = 0

\* A faulty form of the update below: the attempt is not counted.
AttemptUpdateUncounted(rec, answer) ==
    IF answer = "accepted"
    THEN [rec EXCEPT !.status = "sent", !.backoffLeft = 0]
    ELSE [rec EXCEPT !.status = "errored",
                     !.backoffLeft = Backoff[rec.retryCount + 1]]

\* The columns an attempt changes.  Successes count as attempts too.
AttemptUpdate(rec, answer) ==
    IF answer = "accepted"
    THEN [rec EXCEPT !.status = "sent", !.retryCount = @ + 1, !.backoffLeft = 0]
    ELSE [rec EXCEPT !.status = "errored", !.retryCount = @ + 1,
                     !.backoffLeft = Backoff[rec.retryCount + 1]]

\* A faulty form of the outcome below: the dispatch error is dropped.
DispatchOutcomeErrorDropped(rec, answer) ==
    [rec EXCEPT !.status = "sent", !.backoffLeft = 0]

\* What an immediate send makes of the answer.
DispatchOutcome(rec, answer) ==
    IF answer = "accepted" THEN [rec EXCEPT !.status = "sent", !.backoffLeft = 0]
    ELSE [rec EXCEPT !.status = "errored"]

Less(n) == IF n = 0 THEN 0 ELSE n - 1

Aged(rec) == [status |-> rec.status, retryCount |-> rec.retryCount,
              dueIn |-> Less(rec.dueIn), backoffLeft |-> Less(rec.backoffLeft)]

\* What a provider may answer: it takes the message and says so, it refuses
\* it, or it takes it and the answer is lost (timeout, failing DATA close).
Answers == {"accepted", "refused", "lost"}
Answer(id) == IF id \in SenderDisabled THEN {"refused"} ELSE Answers

Count(id, answer) ==
    IF answer = "refused" THEN delivered
    ELSE [delivered EXCEPT ![id] = @ + 1]

LostDelivery(id, answer) ==
    IF answer = "lost" THEN unrecorded \cup {id} ELSE unrecorded

\* No actor holds a record of id in memory.
WorkerHolds(id) == id \in jobs \/ id = current
Quiet(id) == ~WorkerHolds(id) /\ \A c \in Clients : target[c] # id

\* Store overwrites the row; every snapshot that another actor still holds of
\* it is stale from now on.
Store(id, rec) == row' = [row EXCEPT ![id] = rec]
RaceIf(id, othersHold) == raced' = IF othersHold THEN raced \cup {id} ELSE raced

Return(c) ==
    /\ pc' = [pc EXCEPT ![c] = "idle"]
    /\ target' = [target EXCEPT ![c] = None]
    /\ draft' = [draft EXCEPT ![c] = Absent]

-----------------------------------------------------------------------------
Init ==
    /\ row = [id \in Ids |-> Absent]
    /\ tenantStatus \in TenantTables
    /\ issued = {}
    /\ pc = [c \in Clients |-> "idle"]
    /\ target = [c \in Clients |-> None]
    /\ draft = [c \in Clients |-> Absent]
    /\ jobs = {}
    /\ snapshot = [id \in Ids |-> Absent]
    /\ current = None
    /\ edits = 0
    /\ faults = 0
    /\ delivered = [id \in Ids |-> 0]
    /\ unrecorded = {}
    /\ raced = {}
    /\ cancelAcked = {}

-----------------------------------------------------------------------------
(* SendNotification *)

\* A scheduled notification is stored as it is; an immediate one is sent
\* first.  An immediate send on a disabled channel returns an error and leaves
\* nothing behind.  LastAttemptedAt is the time read before the send.
BeginSend(c, id, delay) ==
    /\ pc[c] = "idle"
    /\ id \notin issued
    /\ Resolves(id)
    /\ delay = 0 => id \notin SenderDisabled
    /\ issued' = issued \cup {id}
    /\ pc' = [pc EXCEPT ![c] = IF delay > 0 THEN "create" ELSE "dispatch"]
    /\ target' = [target EXCEPT ![c] = id]
    /\ draft' = [draft EXCEPT ![c] =
            NewNotification(delay, IF delay > 0 THEN 0 ELSE Backoff[0])]
    /\ UNCHANGED <<row, tenantStatus, workerVars, edits, faults, historyVars>>

\* The provider call of an immediate send, outside any transaction.
Dispatch(c, answer) ==
    /\ pc[c] = "dispatch"
    /\ answer \in Answer(target[c])
    /\ delivered' = Count(target[c], answer)
    /\ unrecorded' = LostDelivery(target[c], answer)
    /\ draft' = [draft EXCEPT ![c] = DispatchOutcome(@, answer)]
    /\ pc' = [pc EXCEPT ![c] = "create"]
    /\ UNCHANGED <<row, tenantStatus, issued, target, workerVars, edits, faults,
                   raced, cancelAcked>>

\* CreateNotification: the first time anything is persisted.
Create(c) ==
    /\ pc[c] = "create"
    /\ Store(target[c], draft[c])
    /\ Return(c)
    /\ UNCHANGED <<tenantStatus, issued, workerVars, edits, faults, historyVars>>

\* The insert fails: the caller sees an error even when the message went out.
CreateFails(c) ==
    /\ pc[c] = "create"
    /\ unrecorded' = IF draft[c].status = "sent"
                     THEN unrecorded \cup {target[c]} ELSE unrecorded
    /\ Return(c)
    /\ UNCHANGED <<row, tenantStatus, issued, workerVars, edits, faults,
                   delivered, raced, cancelAcked>>

-----------------------------------------------------------------------------
(* RescheduleNotification and CancelNotification: read, check, Save *)

\* A faulty form of the check below: every live notification may be edited.
EditableUnsettled(id) == row[id].status \notin {"none", "cancelled"}

\* Anything but a queued notification is ErrNotificationNotEditable.
Editable(id) == row[id].status = "queued"

BeginEdit(c, id, rec) ==
    /\ pc[c] = "idle"
    /\ edits < MaxEdits
    /\ Resolves(id)
    /\ Editable(id)
    /\ edits' = edits + 1
    /\ pc' = [pc EXCEPT ![c] = "save"]
    /\ target' = [target EXCEPT ![c] = id]
    /\ draft' = [draft EXCEPT ![c] = rec]
    /\ UNCHANGED <<row, tenantStatus, issued, workerVars, faults, historyVars>>

BeginReschedule(c, id, delay) ==
    BeginEdit(c, id, [row[id] EXCEPT !.dueIn = delay])

BeginCancel(c, id) ==
    BeginEdit(c, id, [row[id] EXCEPT !.status = "cancelled", !.dueIn = 0])

\* SaveNotification writes every column of the record read earlier.
Save(c) ==
    /\ pc[c] = "save"
    /\ Store(target[c], draft[c])
    /\ RaceIf(target[c], \/ WorkerHolds(target[c])
                         \/ \E d \in Clients \ {c} : target[d] = target[c])
    /\ cancelAcked' = IF draft[c].status = "cancelled"
                      THEN cancelAcked \cup {target[c]} ELSE cancelAcked
    /\ Return(c)
    /\ UNCHANGED <<tenantStatus, issued, workerVars, edits, faults, delivered,
                   unrecorded>>

SaveFails(c) ==
    /\ pc[c] = "save"
    /\ Return(c)
    /\ UNCHANGED <<row, tenantStatus, issued, workerVars, edits, faults,
                   historyVars>>

-----------------------------------------------------------------------------
(* The retry worker *)

\* PendingJobs: one query per run; the jobs carry the records as read.
Scan ==
    LET due == {id \in Ids : PendingJob(id) /\ BackoffElapsed(id)}
    IN  /\ jobs = {} /\ current = None
        /\ due # {}
        /\ jobs' = due
        /\ snapshot' = [id \in Ids |-> IF id \in due THEN row[id] ELSE Absent]
        /\ UNCHANGED <<row, tenantStatus, handlerVars, current, edits, faults,
                       historyVars>>

\* Attempt hands the message of the snapshot to the provider; the result is
\* put into the snapshot that ApplyAttemptResult will save.
Attempt(id, answer) ==
    /\ current = None
    /\ id \in jobs
    /\ answer \in Answer(id)
    /\ delivered' = Count(id, answer)
    /\ unrecorded' = LostDelivery(id, answer)
    /\ jobs' = jobs \ {id}
    /\ current' = id
    /\ snapshot' = [snapshot EXCEPT ![id] = AttemptUpdate(@, answer)]
    /\ UNCHANGED <<row, tenantStatus, handlerVars, edits, faults, raced,
                   cancelAcked>>

Finish == current' = None /\ snapshot' = [snapshot EXCEPT ![current] = Absent]

\* ApplyAttemptResult saves the whole snapshot.
ApplyAttemptResult ==
    /\ current # None
    /\ Store(current, snapshot[current])
    /\ RaceIf(current, \E c \in Clients : target[c] = current)
    /\ Finish
    /\ UNCHANGED <<tenantStatus, handlerVars, jobs, edits, faults, delivered,
                   unrecorded, cancelAcked>>

\* The save of a result fails; the worker goes on with the next job.
ApplyFails ==
    /\ current # None
    /\ faults < MaxFaults
    /\ faults' = faults + 1
    /\ unrecorded' = IF snapshot[current].status = "sent"
                     THEN unrecorded \cup {current} ELSE unrecorded
    /\ Finish
    /\ UNCHANGED <<row, tenantStatus, handlerVars, jobs, edits, delivered, raced,
                   cancelAcked>>

-----------------------------------------------------------------------------
(* Time and process failures *)

Tick ==
    /\ row' = [id \in Ids |-> Aged(row[id])]
    /\ draft' = [c \in Clients |-> Aged(draft[c])]
    /\ snapshot' = [id \in Ids |-> Aged(snapshot[id])]
    /\ UNCHANGED <<tenantStatus, issued, pc, target, jobs, current, edits, faults,
                   historyVars>>

\* What memory knows to be delivered and the table does not.
InMemoryOnly(id) ==
    \/ current = id /\ snapshot[id].status = "sent"
    \/ \E c \in Clients : target[c] = id /\ draft[c].status = "sent"

\* The process dies and starts again; Bootstrap rewrites the tenants from the
\* configuration file before the service and its worker start.
CrashRestart ==
    /\ faults < MaxFaults
    /\ faults' = faults + 1
    /\ unrecorded' = unrecorded \cup {id \in Ids : InMemoryOnly(id)}
    /\ tenantStatus' \in TenantTables
    /\ pc' = [c \in Clients |-> "idle"]
    /\ target' = [c \in Clients |-> None]
    /\ draft' = [c \in Clients |-> Absent]
    /\ jobs' = {}
    /\ snapshot' = [id \in Ids |-> Absent]
    /\ current' = None
    /\ UNCHANGED <<row, issued, edits, delivered, raced, cancelAcked>>

-----------------------------------------------------------------------------
SendNotification(c) ==
    \/ \E id \in Ids, delay \in Delays : BeginSend(c, id, delay)
    \/ \E answer \in Answers : Dispatch(c, answer)
    \/ Create(c)
    \/ CreateFails(c)

EditNotification(c) ==
    \/ \E id \in Ids, delay \in Delays : BeginReschedule(c, id, delay)
    \/ \E id \in Ids : BeginCancel(c, id)
    \/ Save(c)
    \/ SaveFails(c)

RetryWorker ==
    \/ Scan
    \/ \E id \in Ids, answer \in Answers : Attempt(id, answer)
    \/ ApplyAttemptResult
    \/ ApplyFails

Next ==
    \/ \E c \in Clients : SendNotification(c) \/ EditNotification(c)
    \/ RetryWorker
    \/ Tick
    \/ CrashRestart

Spec == Init /\ [][Next]_vars

\* The worker's goroutine runs its loop for as long as the process lives,
\* calls that have begun go on (every provider call has a timeout), and time
\* passes.  Nothing obliges anybody to call, or the process to crash.
Fairness ==
    /\ WF_vars(RetryWorker)
    /\ WF_vars(Tick)
    /\ \A c \in Clients : WF_vars(pc[c] # "idle" /\ (SendNotification(c) \/ EditNotification(c)))

FairSpec == Spec /\ Fairness

-----------------------------------------------------------------------------
(* Properties *)

TypeOK ==
    /\ row \in [Ids -> Notification]
    /\ tenantStatus \in [Tenants -> TenantStates]
    /\ issued \in SUBSET Ids
    /\ pc \in [Clients -> {"idle", "dispatch", "create", "save"}]
    /\ target \in [Clients -> Ids \cup {None}]
    /\ draft \in [Clients -> Notification]
    /\ jobs \in SUBSET Ids
    /\ snapshot \in [Ids -> Notification]
    /\ current \in Ids \cup {None}
    /\ edits \in 0..MaxEdits
    /\ faults \in 0..MaxFaults
    /\ delivered \in [Ids -> Nat]
    /\ unrecorded \in SUBSET Ids
    /\ raced \in SUBSET Ids
    /\ cancelAcked \in SUBSET Ids

Settled(rec) ==
    \/ rec.status \in {"sent", "cancelled"}
    \/ rec.status = "errored" /\ rec.retryCount = MaxRetries

AtRest(id) == Quiet(id) /\ Settled(row[id])

\* A notification reported as sent was taken by the provider at least once,
\* whatever raced, failed or crashed: no path of SendNotification or of the
\* worker stores StatusSent for a message that did not go out.
SentMeansDelivered ==
    \A id \in Ids : row[id].status = "sent" => delivered[id] >= 1

\* The table and the provider agree.  If no handler is at work on id, no two
\* actors overlapped on it and no accepted message lost its record (lost
\* answer, failed write, crash), then the provider took the message exactly
\* once if the row says sent and not at all otherwise.
DeliveriesAccounted ==
    \A id \in Ids \ (raced \cup unrecorded) :
        Quiet(id) => delivered[id] = IF row[id].status = "sent" THEN 1 ELSE 0

\* The provider never takes a message more often than the immediate send and
\* the MaxRetries attempts of the worker allow, plus one for each fault that
\* destroyed the record of an attempt; overlapping edits excepted.
AttemptBudget ==
    \A id \in Ids \ raced : delivered[id] <= 1 + MaxRetries + faults

\* The batch the worker is going through belongs to active tenants only:
\* pendingJobsForActiveTenants filters when the batch is read, and statuses
\* change only while no batch is in memory.
WorkerServesActiveTenants ==
    \A id \in Ids : WorkerHolds(id) => tenantStatus[TenantOf[id]] = "active"

\* A message goes out only while its row is due and neither sent nor
\* cancelled, unless its row was rewritten behind a snapshot: the filter of
\* the scan still holds at the later moment of the attempt.
DispatchOnlyPending ==
    [][\A id \in Ids \ raced : delivered'[id] # delivered[id] =>
            /\ row[id].status \notin {"sent", "cancelled"}
            /\ row[id].dueIn = 0]_vars

\* Sent, cancelled and exhausted are final.  Once such a notification is at
\* rest no handler and no batch ever takes it up again: its status, its retry
\* count and its deliveries stay what they are.
SettledIsFinal ==
    [][\A id \in Ids : AtRest(id) =>
            /\ AtRest(id)'
            /\ row'[id].status = row[id].status
            /\ row'[id].retryCount = row[id].retryCount
            /\ delivered'[id] = delivered[id]]_vars

\* Every stored notification of a tenant that stays active ends up sent,
\* cancelled or errored with its retries used up; the worker overlooks none.
\* (A stored row stays stored, so that from then on it is settled again and
\* again, until its tenant is suspended.)
EventuallySettled ==
    \A id \in Ids :
        []<>(row[id].status # "none" =>
                Settled(row[id]) \/ tenantStatus[TenantOf[id]] # "active")

\* "CancelNotification transitions a queued notification to cancelled so
\* workers skip it": after a cancel call has returned success, the provider
\* is not handed the message any more.
CancelledIsSkipped ==
    [][\A id \in cancelAcked : delivered'[id] = delivered[id]]_vars

\* "TenantStatusSuspended blocks access": nothing goes out on behalf of a
\* tenant that is not active.
SuspendedIsBlocked ==
    [][\A id \in Ids : delivered'[id] # delivered[id] =>
            tenantStatus[TenantOf[id]] = "active"]_vars
=============================================================================
