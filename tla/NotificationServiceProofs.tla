--------------------- MODULE NotificationServiceProofs ----------------------
(***************************************************************************)
(* Theorems about NotificationService for every set of notifications,      *)
(* clients and tenants and every retry limit, backoff and bound: the       *)
(* inductive invariant, the initial states, the steps of the RPC and HTTP  *)
(* handlers, of the retry worker, of time and of a crash.  Then those      *)
(* about ClientPrograms: the programs use the service only through its     *)
(* operations, so that what is proved of the service holds with them; a    *)
(* program that waits is told the truth; and a command means the same to   *)
(* client and server.                                                      *)
(***************************************************************************)
EXTENDS ClientPrograms, WellFoundedInduction, TLAPS

-----------------------------------------------------------------------------
(* The inductive invariant *)

\* An identifier not yet drawn from the clock has left no trace.
FreshInv ==
    \A id \in Ids : id \notin issued =>
        /\ row[id].status = "none" /\ row[id].dueIn = 0
        /\ delivered[id] = 0
        /\ id \notin jobs
        /\ id # current
        /\ \A c \in Clients : target[c] # id

\* A call that sends owns its identifier; a call that edits holds a record of
\* a stored notification that is still queued unless the row was raced.
HandlerInv ==
    \A c \in Clients :
        /\ pc[c] = "idle" <=> target[c] = None
        /\ pc[c] \in {"dispatch", "create"} =>
                /\ row[target[c]].status = "none" /\ row[target[c]].dueIn = 0
                /\ target[c] \notin jobs
                /\ target[c] # current
                /\ \A d \in Clients \ {c} : target[d] # target[c]
                /\ draft[c].retryCount = 0
                /\ draft[c].dueIn > 0 => draft[c].status = "queued"
        /\ pc[c] = "dispatch" => draft[c].status = "queued" /\ draft[c].dueIn = 0
        /\ pc[c] = "create" => draft[c].status \in {"queued", "sent", "errored"}
        /\ pc[c] = "save" =>
                /\ row[target[c]].status # "none"
                /\ draft[c].status \in {"queued", "cancelled"}
                /\ target[c] \notin raced =>
                        /\ row[target[c]].status = "queued"
                        /\ row[target[c]].retryCount = draft[c].retryCount

\* What the worker holds was pending when it was read, and still is what the
\* table says unless the row was raced.
WorkerInv ==
    /\ \A id \in jobs :
        /\ id # current
        /\ row[id].status # "none"
        /\ snapshot[id].status \in {"queued", "errored"}
        /\ snapshot[id].retryCount < MaxRetries
        /\ snapshot[id].dueIn = 0
        /\ id \notin raced => snapshot[id] = row[id]
    /\ current # None =>
        /\ row[current].status # "none"
        /\ snapshot[current].status \in {"sent", "errored"}
        /\ current \notin raced =>
                /\ row[current].status \in {"queued", "errored"}
                /\ snapshot[current].retryCount = row[current].retryCount + 1

\* Whoever is about to record a delivery knows of one.
SentInv ==
    \A id \in Ids :
        row[id].status = "sent" \/ InMemoryOnly(id) => delivered[id] >= 1

AccountInv ==
    \A id \in Ids \ (raced \cup unrecorded) :
        delivered[id] = IF row[id].status = "sent" \/ InMemoryOnly(id)
                        THEN 1 ELSE 0

BudgetInv ==
    \A id \in Ids :
        /\ row[id].status = "none" => delivered[id] <= 1
        /\ \A c \in Clients : target[c] = id /\ pc[c] = "dispatch" => delivered[id] = 0
        /\ id \notin raced =>
            delivered[id] <= 1 + faults + (IF current = id THEN snapshot[id].retryCount
                                           ELSE row[id].retryCount)

IndInv ==
    /\ TypeOK
    /\ FreshInv
    /\ HandlerInv
    /\ WorkerInv
    /\ SentInv
    /\ AccountInv
    /\ BudgetInv
    /\ WorkerServesActiveTenants

-----------------------------------------------------------------------------
(* Records *)

\* The empty record and a new one are notifications.
LEMMA NewRecords ==
    /\ Absent \in Notification
    /\ Absent.status = "none"
    /\ Absent.retryCount = 0
    /\ Absent.dueIn = 0
    /\ \A delay, backoff \in Nat :
        /\ NewNotification(delay, backoff) \in Notification
        /\ NewNotification(delay, backoff).status = "queued"
        /\ NewNotification(delay, backoff).retryCount = 0
        /\ NewNotification(delay, backoff).dueIn = delay
BY MaxRetriesAssumption DEF Absent, NewNotification, Notification, Status

\* Ageing keeps everything but the two distances, and never moves a
\* notification away from being due.
LEMMA AgedRecord ==
    ASSUME NEW rec \in Notification
    PROVE  /\ Aged(rec) \in Notification
           /\ Aged(rec).status = rec.status
           /\ Aged(rec).retryCount = rec.retryCount
           /\ rec.dueIn = 0 => Aged(rec).dueIn = 0
BY DEF Aged, Less, Notification

\* An immediate send only decides the status.
LEMMA DispatchedRecord ==
    ASSUME NEW rec \in Notification, NEW answer \in Answers
    PROVE  /\ DispatchOutcome(rec, answer) \in Notification
           /\ DispatchOutcome(rec, answer).status =
                IF answer = "accepted" THEN "sent" ELSE "errored"
           /\ DispatchOutcome(rec, answer).retryCount = rec.retryCount
           /\ DispatchOutcome(rec, answer).dueIn = rec.dueIn
BY Zenon DEF DispatchOutcome, Answers, Notification, Status

\* An attempt by the worker decides the status and counts itself.
LEMMA AttemptedRecord ==
    ASSUME NEW rec \in Notification, NEW answer \in Answers,
           rec.retryCount < MaxRetries
    PROVE  /\ AttemptUpdate(rec, answer) \in Notification
           /\ AttemptUpdate(rec, answer).status =
                IF answer = "accepted" THEN "sent" ELSE "errored"
           /\ AttemptUpdate(rec, answer).retryCount = rec.retryCount + 1
<1>1. rec.retryCount \in 0..MaxRetries /\ rec.retryCount + 1 \in 0..MaxRetries
  BY MaxRetriesAssumption DEF Notification
<1>2. Backoff[rec.retryCount + 1] \in Nat
  BY <1>1, BackoffAssumption, Zenon
<1>. QED
  BY <1>1, <1>2, Zenon DEF AttemptUpdate, Answers, Notification, Status

\* A provider call counts for its own notification only.
LEMMA CountEffect ==
    ASSUME TypeOK, NEW id \in Ids, NEW answer \in Answers
    PROVE  /\ Count(id, answer) \in [Ids -> Nat]
           /\ Count(id, answer)[id] =
                delivered[id] + IF answer = "refused" THEN 0 ELSE 1
           /\ \A x \in Ids \ {id} : Count(id, answer)[x] = delivered[x]
           /\ LostDelivery(id, answer) \in SUBSET Ids
BY DEF Count, LostDelivery, TypeOK

-----------------------------------------------------------------------------
(* The initial states *)

LEMMA InitIndInv == Init => IndInv
<1>. SUFFICES ASSUME Init PROVE IndInv
  BY Zenon
<1>. USE DEF Init
<1>1. TypeOK
  BY NewRecords, BoundsAssumption, MaxRetriesAssumption DEF TypeOK, TenantTables
<1>2. FreshInv
  BY NewRecords, NoneAssumption, Zenon DEF FreshInv
<1>3. HandlerInv
  BY Zenon DEF HandlerInv
<1>4. WorkerInv
  BY Zenon DEF WorkerInv
<1>5. SentInv /\ AccountInv
  BY NewRecords, NoneAssumption, Zenon DEF SentInv, AccountInv, InMemoryOnly
<1>6. BudgetInv
  BY NewRecords, NoneAssumption DEF BudgetInv
<1>7. WorkerServesActiveTenants
  BY NoneAssumption, Zenon DEF WorkerServesActiveTenants, WorkerHolds
<1>. QED
  BY <1>1, <1>2, <1>3, <1>4, <1>5, <1>6, <1>7, Zenon DEF IndInv

-----------------------------------------------------------------------------
(* SendNotification *)

LEMMA BeginSendIndInv ==
    ASSUME IndInv, NEW c \in Clients, NEW id \in Ids, NEW delay \in Delays,
           BeginSend(c, id, delay)
    PROVE  IndInv'
<1>. DEFINE backoff == IF delay > 0 THEN 0 ELSE Backoff[0]
            rec == NewNotification(delay, backoff)
<1>0. /\ rec \in Notification /\ rec.status = "queued"
      /\ rec.retryCount = 0 /\ rec.dueIn = delay
  <2>1. backoff \in Nat
    BY BackoffAssumption, MaxRetriesAssumption
  <2>. QED
    BY <2>1, NewRecords, DelaysAssumption
<1>a. draft' = [draft EXCEPT ![c] = rec]
  BY Zenon DEF BeginSend
<1>. HIDE DEF rec
<1>. USE DEF BeginSend, IndInv, TypeOK, workerVars, historyVars
<1>1. TypeOK'
  BY <1>0, <1>a
<1>2. FreshInv'
  BY DEF FreshInv
<1>3. HandlerInv'
  BY <1>0, <1>a, NoneAssumption, DelaysAssumption DEF HandlerInv, FreshInv
<1>4. WorkerInv'
  BY Zenon DEF WorkerInv
<1>5. SentInv'
  BY <1>0, <1>a, Zenon DEF SentInv, InMemoryOnly
<1>6. AccountInv'
  <2>1. ASSUME NEW x \in Ids
        PROVE  InMemoryOnly(x)' <=> InMemoryOnly(x)
    BY <1>0, <1>a, NoneAssumption DEF InMemoryOnly, HandlerInv, FreshInv
  <2>. QED
    BY <2>1, Zenon DEF AccountInv
<1>7. BudgetInv'
  BY DEF BudgetInv, FreshInv
<1>8. WorkerServesActiveTenants'
  BY Zenon DEF WorkerServesActiveTenants, WorkerHolds
<1>. QED
  BY <1>1, <1>2, <1>3, <1>4, <1>5, <1>6, <1>7, <1>8, Zenon

LEMMA DispatchIndInv ==
    ASSUME IndInv, NEW c \in Clients, NEW answer \in Answers,
           Dispatch(c, answer)
    PROVE  IndInv'
<1>. DEFINE id == target[c]
            rec == DispatchOutcome(draft[c], answer)
<1>0. /\ id \in Ids
      /\ draft[c] \in Notification
      /\ draft[c].status = "queued" /\ draft[c].dueIn = 0
      /\ draft[c].retryCount = 0
      /\ row[id].status = "none" /\ id # current
      /\ \A d \in Clients \ {c} : target[d] # id
      /\ delivered[id] = 0
      /\ id \in issued
  BY DEF Dispatch, IndInv, TypeOK, HandlerInv, BudgetInv, FreshInv
<1>a. /\ rec \in Notification
      /\ rec.status = IF answer = "accepted" THEN "sent" ELSE "errored"
      /\ rec.retryCount = 0 /\ rec.dueIn = 0
  BY <1>0, DispatchedRecord, Zenon
<1>b. draft' = [draft EXCEPT ![c] = rec]
  BY Zenon DEF Dispatch
<1>c. /\ delivered' \in [Ids -> Nat]
      /\ delivered'[id] = IF answer = "refused" THEN 0 ELSE 1
      /\ \A x \in Ids \ {id} : delivered'[x] = delivered[x]
      /\ unrecorded' \in SUBSET Ids
      /\ unrecorded' = IF answer = "lost" THEN unrecorded \cup {id} ELSE unrecorded
  BY <1>0, CountEffect DEF Dispatch, LostDelivery, IndInv
<1>. HIDE DEF rec
<1>. USE DEF Dispatch, IndInv, TypeOK, workerVars
<1>1. TypeOK'
  BY <1>0, <1>a, <1>b, <1>c
<1>2. FreshInv'
  BY <1>0, <1>c DEF FreshInv
<1>3. HandlerInv'
  BY <1>0, <1>a, <1>b DEF HandlerInv
<1>4. WorkerInv'
  BY Zenon DEF WorkerInv
<1>m. ASSUME NEW x \in Ids
      PROVE  InMemoryOnly(x)' <=> IF x = id THEN answer = "accepted"
                                  ELSE InMemoryOnly(x)
  BY <1>0, <1>a, <1>b DEF InMemoryOnly
<1>5. SentInv'
  BY <1>0, <1>c, <1>m DEF SentInv
<1>6. AccountInv'
  BY <1>0, <1>c, <1>m DEF AccountInv, Answers
<1>7. BudgetInv'
  <2>1. \A x \in Ids : delivered'[x] <= delivered[x] \/ (x = id /\ delivered'[x] <= 1)
    BY <1>0, <1>c
  <2>. QED
    BY <1>0, <1>c, <2>1 DEF BudgetInv, Notification
<1>8. WorkerServesActiveTenants'
  BY Zenon DEF WorkerServesActiveTenants, WorkerHolds
<1>. QED
  BY <1>1, <1>2, <1>3, <1>4, <1>5, <1>6, <1>7, <1>8, Zenon

\* What a call leaves behind when it returns.
LEMMA ReturnEffect ==
    ASSUME TypeOK, NEW c \in Clients, Return(c)
    PROVE  /\ pc' \in [Clients -> {"idle", "dispatch", "create", "save"}]
           /\ target' \in [Clients -> Ids \cup {None}]
           /\ draft' \in [Clients -> Notification]
           /\ pc'[c] = "idle" /\ target'[c] = None /\ draft'[c].status = "none"
           /\ \A d \in Clients \ {c} :
                pc'[d] = pc[d] /\ target'[d] = target[d] /\ draft'[d] = draft[d]
BY NewRecords, SMTT(30) DEF Return, TypeOK

\* The other handlers when one returns: their rows stay, or are raced.
LEMMA OtherHandlers ==
    ASSUME TypeOK, HandlerInv, NEW c \in Clients, Return(c),
           UNCHANGED <<jobs, current>>, raced \subseteq raced',
           \A d \in Clients \ {c} : pc[d] # "idle" =>
                \/ row'[target[d]] = row[target[d]]
                \/ /\ pc[d] = "save" /\ target[d] \in raced'
                   /\ row'[target[d]].status # "none"
    PROVE  HandlerInv'
<1>1. pc'[c] = "idle" /\ target'[c] = None
  BY ReturnEffect, Zenon
<1>2. \A d \in Clients \ {c} : pc'[d] = pc[d] /\ target'[d] = target[d] /\ draft'[d] = draft[d]
  BY ReturnEffect, Zenon
<1>3. \A e \in Clients : pc'[e] = "idle" <=> target'[e] = None
  BY <1>1, <1>2 DEF HandlerInv
<1>4. ASSUME NEW e \in Clients, pc'[e] \in {"dispatch", "create"}
      PROVE  /\ row'[target'[e]].status = "none" /\ row'[target'[e]].dueIn = 0
             /\ target'[e] \notin jobs'
             /\ target'[e] # current'
             /\ \A d \in Clients \ {e} : target'[d] # target'[e]
             /\ draft'[e].retryCount = 0
             /\ draft'[e].dueIn > 0 => draft'[e].status = "queued"
  <2>1. /\ e # c /\ pc[e] \in {"dispatch", "create"} /\ pc[e] # "idle" /\ pc[e] # "save"
        /\ target'[e] = target[e] /\ draft'[e] = draft[e]
    BY <1>1, <1>2, <1>4, Zenon
  <2>2. row'[target[e]] = row[target[e]]
    BY <2>1, Zenon
  <2>3. target[e] # None /\ \A d \in Clients \ {e} : target[d] # target[e]
    BY <2>1, Zenon DEF HandlerInv
  <2>4. \A d \in Clients \ {e} : target'[d] # target'[e]
    BY <1>1, <1>2, <2>1, <2>3, Zenon
  <2>. QED
    BY <2>1, <2>2, <2>4 DEF HandlerInv
<1>5. ASSUME NEW e \in Clients
      PROVE  /\ pc'[e] = "dispatch" => draft'[e].status = "queued" /\ draft'[e].dueIn = 0
             /\ pc'[e] = "create" => draft'[e].status \in {"queued", "sent", "errored"}
  BY <1>1, <1>2 DEF HandlerInv
<1>6. ASSUME NEW e \in Clients, pc'[e] = "save"
      PROVE  /\ row'[target'[e]].status # "none"
             /\ draft'[e].status \in {"queued", "cancelled"}
             /\ target'[e] \notin raced' =>
                    /\ row'[target'[e]].status = "queued"
                    /\ row'[target'[e]].retryCount = draft'[e].retryCount
  <2>1. /\ e # c /\ pc[e] = "save"
        /\ target'[e] = target[e] /\ draft'[e] = draft[e]
    BY <1>1, <1>2, <1>6, Zenon
  <2>. QED
    BY <2>1 DEF HandlerInv
<1>. QED
  BY <1>3, <1>4, <1>5, <1>6 DEF HandlerInv

LEMMA CreateIndInv ==
    ASSUME IndInv, NEW c \in Clients, Create(c)
    PROVE  IndInv'
<1>. DEFINE id == target[c]
<1>0. /\ id \in Ids
      /\ draft[c] \in Notification
      /\ draft[c].status \in {"queued", "sent", "errored"}
      /\ draft[c].retryCount = 0
      /\ row[id].status = "none" /\ id # current /\ id \notin jobs
      /\ \A d \in Clients \ {c} : target[d] # id
      /\ delivered[id] <= 1
      /\ id \in issued
  BY DEF Create, IndInv, TypeOK, HandlerInv, BudgetInv, FreshInv
<1>a. TypeOK /\ Return(c)
  BY Zenon DEF Create, IndInv
<1>b. row' = [row EXCEPT ![id] = draft[c]]
  BY Zenon DEF Create, Store
<1>. USE DEF Create, IndInv, TypeOK, workerVars, historyVars
<1>1. TypeOK'
  BY <1>0, <1>a, <1>b, ReturnEffect, Zenon
<1>2. FreshInv'
  BY <1>0, <1>a, <1>b, ReturnEffect, NoneAssumption, SMTT(20) DEF FreshInv
<1>3. HandlerInv'
  <2>1. \A d \in Clients \ {c} : row'[target[d]] = row[target[d]]
    BY <1>0, <1>b
  <2>2. TypeOK /\ HandlerInv /\ UNCHANGED <<jobs, current, raced>>
    BY Zenon
  <2>. HIDE DEF Create, IndInv, TypeOK
  <2>. QED
    BY <1>a, <2>1, <2>2, OtherHandlers, Zenon
<1>4. WorkerInv'
  BY <1>0, <1>b, SMTT(30) DEF WorkerInv
<1>m. ASSUME NEW x \in Ids
      PROVE  row'[x].status = "sent" \/ InMemoryOnly(x)' <=>
                row[x].status = "sent" \/ InMemoryOnly(x)
  BY <1>0, <1>a, <1>b, ReturnEffect, NoneAssumption, SMTT(20) DEF InMemoryOnly
<1>5. SentInv'
  <2>1. SentInv /\ UNCHANGED delivered
    BY Zenon
  <2>. HIDE DEF Create, IndInv, TypeOK
  <2>. QED
    BY <1>m, <2>1, Zenon DEF SentInv
<1>6. AccountInv'
  BY <1>m, Zenon DEF AccountInv
<1>7. BudgetInv'
  BY <1>0, <1>a, <1>b, ReturnEffect, NoneAssumption DEF BudgetInv
<1>8. WorkerServesActiveTenants'
  BY Zenon DEF WorkerServesActiveTenants, WorkerHolds
<1>. QED
  BY <1>1, <1>2, <1>3, <1>4, <1>5, <1>6, <1>7, <1>8, Zenon

LEMMA CreateFailsIndInv ==
    ASSUME IndInv, NEW c \in Clients, CreateFails(c)
    PROVE  IndInv'
<1>. DEFINE id == target[c]
<1>0. /\ id \in Ids
      /\ row[id].status = "none" /\ id # current
      /\ \A d \in Clients \ {c} : target[d] # id
  BY DEF CreateFails, IndInv, TypeOK, HandlerInv
<1>a. TypeOK /\ Return(c)
  BY Zenon DEF CreateFails, IndInv
<1>. USE DEF CreateFails, IndInv, TypeOK, workerVars
<1>1. TypeOK'
  BY <1>0, <1>a, ReturnEffect, Zenon
<1>2. FreshInv'
  BY <1>a, ReturnEffect, NoneAssumption DEF FreshInv
<1>3. HandlerInv'
  <2>1. HandlerInv /\ UNCHANGED <<row, jobs, current, raced>>
    BY Zenon
  <2>. HIDE DEF CreateFails, IndInv, TypeOK
  <2>. QED
    BY <1>a, <2>1, OtherHandlers, Zenon
<1>4. WorkerInv'
  BY Zenon DEF WorkerInv
<1>m. ASSUME NEW x \in Ids
      PROVE  InMemoryOnly(x)' <=> x # id /\ InMemoryOnly(x)
  BY <1>0, <1>a, ReturnEffect, NoneAssumption DEF InMemoryOnly
<1>5. SentInv'
  BY <1>m, SMTT(20) DEF SentInv
<1>6. AccountInv'
  <2>1. /\ AccountInv
        /\ UNCHANGED <<row, delivered, raced>>
        /\ unrecorded \subseteq unrecorded'
    BY Zenon
  <2>2. id \notin unrecorded' => ~InMemoryOnly(id)
    BY <1>0, Zenon DEF InMemoryOnly
  <2>. HIDE DEF CreateFails, IndInv, TypeOK, id
  <2>3. \A x \in Ids \ unrecorded' : InMemoryOnly(x)' <=> InMemoryOnly(x)
    BY <1>m, <2>2, Zenon
  <2>. QED
    BY <2>1, <2>3, Zenon DEF AccountInv
<1>7. BudgetInv'
  BY <1>a, ReturnEffect, NoneAssumption DEF BudgetInv
<1>8. WorkerServesActiveTenants'
  BY Zenon DEF WorkerServesActiveTenants, WorkerHolds
<1>. QED
  BY <1>1, <1>2, <1>3, <1>4, <1>5, <1>6, <1>7, <1>8, Zenon

-----------------------------------------------------------------------------
(* RescheduleNotification and CancelNotification *)

LEMMA BeginEditIndInv ==
    ASSUME IndInv, NEW c \in Clients, NEW id \in Ids, NEW rec \in Notification,
           rec.status \in {"queued", "cancelled"},
           rec.retryCount = row[id].retryCount,
           BeginEdit(c, id, rec)
    PROVE  IndInv'
<1>0. row[id].status = "queued" /\ id \in issued /\ pc[c] = "idle"
      /\ target[c] = None
  BY Zenon DEF BeginEdit, Editable, IndInv, TypeOK, FreshInv, HandlerInv
<1>. USE DEF BeginEdit, IndInv, TypeOK, workerVars, historyVars
<1>1. TypeOK'
  BY BoundsAssumption
<1>2. FreshInv'
  BY <1>0, SMTT(30) DEF FreshInv
<1>3. HandlerInv'
  BY <1>0, NoneAssumption DEF HandlerInv
<1>4. WorkerInv'
  BY Zenon DEF WorkerInv
<1>m. ASSUME NEW x \in Ids
      PROVE  InMemoryOnly(x)' <=> InMemoryOnly(x)
  BY <1>0, NoneAssumption, Zenon DEF InMemoryOnly
<1>5. SentInv'
  BY <1>m, Zenon DEF SentInv
<1>6. AccountInv'
  BY <1>m, Zenon DEF AccountInv
<1>7. BudgetInv'
  BY <1>0, Zenon DEF BudgetInv
<1>8. WorkerServesActiveTenants'
  BY Zenon DEF WorkerServesActiveTenants, WorkerHolds
<1>. QED
  BY <1>1, <1>2, <1>3, <1>4, <1>5, <1>6, <1>7, <1>8, Zenon

LEMMA BeginRescheduleIndInv ==
    ASSUME IndInv, NEW c \in Clients, NEW id \in Ids, NEW delay \in Delays,
           BeginReschedule(c, id, delay)
    PROVE  IndInv'
<1>. DEFINE rec == [row[id] EXCEPT !.dueIn = delay]
<1>1. row[id] \in Notification /\ row[id].status = "queued"
  BY Zenon DEF IndInv, TypeOK, BeginReschedule, BeginEdit, Editable
<1>2. /\ rec \in Notification /\ rec.status = "queued"
      /\ rec.retryCount = row[id].retryCount
  BY <1>1, DelaysAssumption, Zenon DEF Notification
<1>3. BeginEdit(c, id, rec)
  BY Zenon DEF BeginReschedule
<1>. HIDE DEF rec
<1>. QED
  BY <1>2, <1>3, BeginEditIndInv, Zenon

LEMMA BeginCancelIndInv ==
    ASSUME IndInv, NEW c \in Clients, NEW id \in Ids, BeginCancel(c, id)
    PROVE  IndInv'
<1>. DEFINE rec == [row[id] EXCEPT !.status = "cancelled", !.dueIn = 0]
<1>1. row[id] \in Notification
  BY Zenon DEF IndInv, TypeOK
<1>2. /\ rec \in Notification /\ rec.status = "cancelled"
      /\ rec.retryCount = row[id].retryCount
  BY <1>1, Zenon DEF Notification, Status
<1>3. BeginEdit(c, id, rec)
  BY Zenon DEF BeginCancel
<1>. HIDE DEF rec
<1>. QED
  BY <1>2, <1>3, BeginEditIndInv, Zenon

LEMMA SaveIndInv ==
    ASSUME IndInv, NEW c \in Clients, Save(c)
    PROVE  IndInv'
<1>. DEFINE id == target[c]
<1>0. /\ id \in Ids
      /\ draft[c] \in Notification
      /\ draft[c].status \in {"queued", "cancelled"}
      /\ row[id].status # "none"
      /\ id \notin raced => /\ row[id].status = "queued"
                            /\ row[id].retryCount = draft[c].retryCount
      /\ id \in issued
      /\ \A d \in Clients \ {c} : target[d] = id => pc[d] = "save"
  BY SMTT(20) DEF Save, IndInv, TypeOK, HandlerInv, FreshInv
<1>a. TypeOK /\ Return(c)
  BY ZenonT(30) DEF Save, IndInv
<1>b. row' = [row EXCEPT ![id] = draft[c]]
  BY ZenonT(30) DEF Save, Store
<1>c. /\ raced' \in SUBSET Ids
      /\ raced \subseteq raced' /\ raced' \subseteq raced \cup {id}
      /\ id \notin raced' => /\ id \notin jobs /\ id # current
                             /\ \A d \in Clients \ {c} : target[d] # id
  BY <1>0, Zenon DEF Save, RaceIf, WorkerHolds, IndInv, TypeOK
<1>d. /\ cancelAcked' \in SUBSET Ids
      /\ UNCHANGED <<tenantStatus, issued, jobs, snapshot, current, edits, faults,
                     delivered, unrecorded>>
  BY <1>0, Zenon DEF Save, workerVars, IndInv, TypeOK
<1>. USE DEF IndInv, TypeOK
<1>1. TypeOK'
  BY <1>0, <1>a, <1>b, <1>c, <1>d, ReturnEffect, Zenon
<1>2. FreshInv'
  BY <1>0, <1>a, <1>b, <1>d, ReturnEffect, NoneAssumption, SMTT(20) DEF FreshInv
<1>3. HandlerInv'
  <2>1. ASSUME NEW d \in Clients \ {c}, pc[d] # "idle"
        PROVE  \/ row'[target[d]] = row[target[d]]
               \/ /\ pc[d] = "save" /\ target[d] \in raced'
                  /\ row'[target[d]].status # "none"
    <3>1. CASE target[d] = id
      BY <1>0, <1>b, <1>c, <3>1, Zenon
    <3>2. CASE target[d] # id
      BY <1>b, <3>2
    <3>. QED
      BY <3>1, <3>2, Zenon
  <2>2. HandlerInv /\ raced \subseteq raced' /\ UNCHANGED <<jobs, current>>
    BY <1>c, <1>d, Zenon
  <2>. HIDE DEF IndInv, TypeOK
  <2>. QED
    BY <1>a, <2>1, <2>2, OtherHandlers, ZenonT(30)
<1>4. WorkerInv'
  BY <1>0, <1>b, <1>c, <1>d, SMTT(30) DEF WorkerInv
<1>m. ASSUME NEW x \in Ids
      PROVE  InMemoryOnly(x)' <=> InMemoryOnly(x)
  BY <1>0, <1>a, <1>d, ReturnEffect, NoneAssumption DEF InMemoryOnly
<1>5. SentInv'
  BY <1>0, <1>b, <1>d, <1>m, Zenon DEF SentInv
<1>6. AccountInv'
  BY <1>0, <1>b, <1>c, <1>d, <1>m, SMTT(20) DEF AccountInv
<1>7. BudgetInv'
  BY <1>0, <1>a, <1>b, <1>c, <1>d, ReturnEffect, NoneAssumption DEF BudgetInv
<1>8. WorkerServesActiveTenants'
  BY <1>d, Zenon DEF WorkerServesActiveTenants, WorkerHolds
<1>. QED
  BY <1>1, <1>2, <1>3, <1>4, <1>5, <1>6, <1>7, <1>8, Zenon

LEMMA SaveFailsIndInv ==
    ASSUME IndInv, NEW c \in Clients, SaveFails(c)
    PROVE  IndInv'
<1>a. TypeOK /\ Return(c) /\ draft[c].status \in {"queued", "cancelled"}
  BY Zenon DEF SaveFails, IndInv, HandlerInv
<1>. USE DEF SaveFails, IndInv, TypeOK, workerVars, historyVars
<1>1. TypeOK'
  BY <1>a, ReturnEffect, Zenon
<1>2. FreshInv'
  BY <1>a, ReturnEffect, NoneAssumption, SMTT(20) DEF FreshInv
<1>3. HandlerInv'
  <2>1. HandlerInv /\ UNCHANGED <<row, jobs, current, raced>>
    BY Zenon
  <2>. HIDE DEF SaveFails, IndInv, TypeOK
  <2>. QED
    BY <1>a, <2>1, OtherHandlers, Zenon
<1>4. WorkerInv'
  BY Zenon DEF WorkerInv
<1>m. ASSUME NEW x \in Ids
      PROVE  InMemoryOnly(x)' <=> InMemoryOnly(x)
  BY <1>a, ReturnEffect, NoneAssumption DEF InMemoryOnly
<1>5. SentInv'
  BY <1>m, Zenon DEF SentInv
<1>6. AccountInv'
  BY <1>m, Zenon DEF AccountInv
<1>7. BudgetInv'
  BY <1>a, ReturnEffect, NoneAssumption DEF BudgetInv
<1>8. WorkerServesActiveTenants'
  BY Zenon DEF WorkerServesActiveTenants, WorkerHolds
<1>. QED
  BY <1>1, <1>2, <1>3, <1>4, <1>5, <1>6, <1>7, <1>8, Zenon

-----------------------------------------------------------------------------
(* The retry worker *)

LEMMA ScanIndInv ==
    ASSUME IndInv, Scan
    PROVE  IndInv'
<1>. DEFINE due == {id \in Ids : PendingJob(id) /\ BackoffElapsed(id)}
<1>0. /\ jobs' = due /\ due \subseteq Ids
      /\ snapshot' = [id \in Ids |-> IF id \in due THEN row[id] ELSE Absent]
      /\ current = None
      /\ UNCHANGED <<row, tenantStatus, issued, pc, target, draft, current, edits,
                     faults, delivered, unrecorded, raced, cancelAcked>>
  BY Zenon DEF Scan, handlerVars, historyVars
<1>a. ASSUME NEW id \in due
      PROVE  /\ row[id].status \in {"queued", "errored"}
             /\ row[id].retryCount < MaxRetries
             /\ row[id].dueIn = 0
             /\ tenantStatus[TenantOf[id]] = "active"
             /\ id \in issued
             /\ \A c \in Clients : pc[c] \in {"dispatch", "create"} => target[c] # id
  BY Zenon DEF PendingJob, IndInv, FreshInv, HandlerInv
<1>. HIDE DEF due
<1>. USE DEF IndInv, TypeOK
<1>1. TypeOK'
  BY <1>0, NewRecords, Zenon
<1>2. FreshInv'
  BY <1>0, <1>a, SMTT(30) DEF FreshInv
<1>3. HandlerInv'
  BY <1>0, <1>a DEF HandlerInv
<1>4. WorkerInv'
  BY <1>0, <1>a, NoneAssumption DEF WorkerInv
<1>m. ASSUME NEW x \in Ids
      PROVE  InMemoryOnly(x)' <=> InMemoryOnly(x)
  BY <1>0, NoneAssumption, Zenon DEF InMemoryOnly
<1>5. SentInv'
  BY <1>0, <1>m, Zenon DEF SentInv
<1>6. AccountInv'
  BY <1>0, <1>m, Zenon DEF AccountInv
<1>7. BudgetInv'
  BY <1>0, NoneAssumption, Zenon DEF BudgetInv
<1>8. WorkerServesActiveTenants'
  BY <1>0, <1>a, NoneAssumption, Zenon DEF WorkerServesActiveTenants, WorkerHolds
<1>. QED
  BY <1>1, <1>2, <1>3, <1>4, <1>5, <1>6, <1>7, <1>8, Zenon

LEMMA AttemptIndInv ==
    ASSUME IndInv, NEW id \in Ids, NEW answer \in Answers, Attempt(id, answer)
    PROVE  IndInv'
<1>. DEFINE rec == AttemptUpdate(snapshot[id], answer)
<1>0. /\ id \in jobs /\ current = None
      /\ snapshot[id] \in Notification
      /\ snapshot[id].status \in {"queued", "errored"}
      /\ snapshot[id].retryCount < MaxRetries
      /\ row[id].status # "none"
      /\ id \notin raced => snapshot[id] = row[id]
      /\ id \in issued
      /\ tenantStatus[TenantOf[id]] = "active"
      /\ \A c \in Clients : target[c] = id => draft[c].status # "sent"
  BY DEF Attempt, IndInv, TypeOK, WorkerInv, FreshInv, HandlerInv,
         WorkerServesActiveTenants, WorkerHolds
<1>a. /\ rec \in Notification
      /\ rec.status = IF answer = "accepted" THEN "sent" ELSE "errored"
      /\ rec.retryCount = snapshot[id].retryCount + 1
  BY <1>0, AttemptedRecord, Zenon
<1>b. /\ snapshot' = [snapshot EXCEPT ![id] = rec]
      /\ jobs' = jobs \ {id} /\ current' = id
      /\ UNCHANGED <<row, tenantStatus, issued, pc, target, draft, edits, faults,
                     raced, cancelAcked>>
  BY Zenon DEF Attempt, handlerVars
<1>c. /\ delivered' \in [Ids -> Nat]
      /\ delivered'[id] = delivered[id] + IF answer = "refused" THEN 0 ELSE 1
      /\ \A x \in Ids \ {id} : delivered'[x] = delivered[x]
      /\ unrecorded' \in SUBSET Ids
      /\ unrecorded' = IF answer = "lost" THEN unrecorded \cup {id} ELSE unrecorded
  BY CountEffect DEF Attempt, LostDelivery, IndInv
<1>. HIDE DEF rec
<1>. USE DEF IndInv, TypeOK
<1>1. TypeOK'
  BY <1>a, <1>b, <1>c, Zenon
<1>2. FreshInv'
  BY <1>0, <1>b, <1>c, SMTT(30) DEF FreshInv
<1>3. HandlerInv'
  BY <1>0, <1>b DEF HandlerInv
<1>4. WorkerInv'
  BY <1>0, <1>a, <1>b, NoneAssumption, Zenon DEF WorkerInv
<1>m. ASSUME NEW x \in Ids
      PROVE  InMemoryOnly(x)' <=> IF x = id THEN answer = "accepted"
                                  ELSE InMemoryOnly(x)
  BY <1>0, <1>a, <1>b, NoneAssumption, Zenon DEF InMemoryOnly
<1>n. ~InMemoryOnly(id)
  BY <1>0, NoneAssumption, Zenon DEF InMemoryOnly
<1>5. SentInv'
  BY <1>b, <1>c, <1>m DEF SentInv
<1>6. AccountInv'
  BY <1>0, <1>b, <1>c, <1>m, <1>n, SMTT(30) DEF AccountInv, Answers
<1>7. BudgetInv'
  BY <1>0, <1>a, <1>b, <1>c, NoneAssumption, MaxRetriesAssumption, SMTT(30)
     DEF BudgetInv, HandlerInv, Notification
<1>8. WorkerServesActiveTenants'
  BY <1>0, <1>b, ZenonT(40) DEF WorkerServesActiveTenants, WorkerHolds
<1>. QED
  BY <1>1, <1>2, <1>3, <1>4, <1>5, <1>6, <1>7, <1>8, ZenonT(40)

LEMMA ApplyAttemptResultIndInv ==
    ASSUME IndInv, ApplyAttemptResult
    PROVE  IndInv'
<1>. DEFINE id == current
<1>0. /\ id \in Ids /\ id # None
      /\ id \notin jobs
      /\ snapshot[id] \in Notification
      /\ snapshot[id].status \in {"sent", "errored"}
      /\ row[id].status # "none"
      /\ id \notin raced => /\ row[id].status \in {"queued", "errored"}
                            /\ snapshot[id].retryCount = row[id].retryCount + 1
      /\ id \in issued
      /\ \A c \in Clients : target[c] = id => pc[c] = "save"
  BY NoneAssumption
     DEF ApplyAttemptResult, IndInv, TypeOK, WorkerInv, FreshInv, HandlerInv
<1>b. /\ row' = [row EXCEPT ![id] = snapshot[id]]
      /\ snapshot' = [snapshot EXCEPT ![id] = Absent]
      /\ current' = None
      /\ UNCHANGED <<tenantStatus, issued, pc, target, draft, jobs, edits, faults,
                     delivered, unrecorded, cancelAcked>>
  BY Zenon DEF ApplyAttemptResult, Store, Finish, handlerVars
<1>c. /\ raced' \in SUBSET Ids
      /\ raced \subseteq raced' /\ raced' \subseteq raced \cup {id}
      /\ id \notin raced' => \A c \in Clients : target[c] # id
  BY <1>0, Zenon DEF ApplyAttemptResult, RaceIf, IndInv, TypeOK
<1>. HIDE DEF id
<1>. USE DEF IndInv, TypeOK
<1>1. TypeOK'
  BY <1>0, <1>b, <1>c, NewRecords, Zenon
<1>2. FreshInv'
  BY <1>0, <1>b, NoneAssumption, SMTT(30) DEF FreshInv
<1>3. HandlerInv'
  BY <1>0, <1>b, <1>c, NoneAssumption, SMTT(30) DEF HandlerInv
<1>4. WorkerInv'
  BY <1>0, <1>b, <1>c, NoneAssumption DEF WorkerInv, id
<1>m. ASSUME NEW x \in Ids
      PROVE  /\ InMemoryOnly(x)' => InMemoryOnly(x)
             /\ x # id => (InMemoryOnly(x)' <=> InMemoryOnly(x))
             /\ x = id /\ snapshot[id].status = "sent" => InMemoryOnly(x)
             /\ x = id /\ id \notin raced' =>
                    /\ ~InMemoryOnly(x)'
                    /\ snapshot[id].status # "sent" => ~InMemoryOnly(x)
  BY <1>0, <1>b, <1>c, NoneAssumption, Zenon DEF InMemoryOnly, id
<1>5. SentInv'
  BY <1>0, <1>b, <1>m, Zenon DEF SentInv
<1>6. AccountInv'
  BY <1>0, <1>b, <1>c, <1>m, ZenonT(40) DEF AccountInv
<1>7. BudgetInv'
  BY <1>0, <1>b, <1>c, NoneAssumption DEF BudgetInv, HandlerInv, id
<1>8. WorkerServesActiveTenants'
  BY <1>b, NoneAssumption, Zenon DEF WorkerServesActiveTenants, WorkerHolds
<1>. QED
  BY <1>1, <1>2, <1>3, <1>4, <1>5, <1>6, <1>7, <1>8, Zenon

LEMMA ApplyFailsIndInv ==
    ASSUME IndInv, ApplyFails
    PROVE  IndInv'
<1>. DEFINE id == current
<1>0. /\ id \in Ids /\ id # None /\ id \notin jobs
      /\ id \notin raced =>
            snapshot[id].retryCount = row[id].retryCount + 1
      /\ row[id].status # "none"
  BY NoneAssumption, Zenon DEF ApplyFails, IndInv, TypeOK, WorkerInv
<1>b. /\ snapshot' = [snapshot EXCEPT ![id] = Absent]
      /\ current' = None
      /\ faults' = faults + 1 /\ faults' \in 0..MaxFaults
      /\ unrecorded' = IF snapshot[id].status = "sent"
                       THEN unrecorded \cup {id} ELSE unrecorded
      /\ UNCHANGED <<row, tenantStatus, issued, pc, target, draft, jobs, edits,
                     delivered, raced, cancelAcked>>
  BY BoundsAssumption DEF ApplyFails, Finish, handlerVars, IndInv, TypeOK
<1>. HIDE DEF id
<1>. USE DEF IndInv, TypeOK
<1>1. TypeOK'
  BY <1>0, <1>b, NewRecords, Zenon
<1>2. FreshInv'
  BY <1>b, NoneAssumption, Zenon DEF FreshInv
<1>3. HandlerInv'
  BY <1>b, NoneAssumption DEF HandlerInv
<1>4. WorkerInv'
  BY <1>0, <1>b, NoneAssumption DEF WorkerInv
<1>m. ASSUME NEW x \in Ids
      PROVE  /\ InMemoryOnly(x)' => InMemoryOnly(x)
             /\ x \notin unrecorded' => (InMemoryOnly(x)' <=> InMemoryOnly(x))
  BY <1>0, <1>b, NoneAssumption, Zenon DEF InMemoryOnly, id
<1>5. SentInv'
  BY <1>b, <1>m, Zenon DEF SentInv
<1>6. AccountInv'
  BY <1>b, <1>m, Zenon DEF AccountInv
<1>7. BudgetInv'
  <2>1. \A x \in Ids : row[x].retryCount \in Nat
    BY DEF Notification
  <2>. QED
    BY <1>0, <1>b, <2>1, NoneAssumption DEF BudgetInv, id
<1>8. WorkerServesActiveTenants'
  BY <1>b, NoneAssumption, Zenon DEF WorkerServesActiveTenants, WorkerHolds
<1>. QED
  BY <1>1, <1>2, <1>3, <1>4, <1>5, <1>6, <1>7, <1>8, Zenon

-----------------------------------------------------------------------------
(* Time and process failures *)

LEMMA TickIndInv ==
    ASSUME IndInv, Tick
    PROVE  IndInv'
<1>a. /\ row' \in [Ids -> Notification]
      /\ draft' \in [Clients -> Notification]
      /\ snapshot' \in [Ids -> Notification]
      /\ \A id \in Ids : row'[id] = Aged(row[id]) /\ snapshot'[id] = Aged(snapshot[id])
      /\ \A c \in Clients : draft'[c] = Aged(draft[c])
  BY AgedRecord, Zenon DEF Tick, IndInv, TypeOK
<1>b. /\ \A id \in Ids :
            /\ row'[id].status = row[id].status
            /\ row'[id].retryCount = row[id].retryCount
            /\ row[id].dueIn = 0 => row'[id].dueIn = 0
            /\ snapshot'[id].status = snapshot[id].status
            /\ snapshot'[id].retryCount = snapshot[id].retryCount
            /\ snapshot[id].dueIn = 0 => snapshot'[id].dueIn = 0
            /\ snapshot[id] = row[id] => snapshot'[id] = row'[id]
      /\ \A c \in Clients :
            /\ draft'[c].status = draft[c].status
            /\ draft'[c].retryCount = draft[c].retryCount
            /\ draft[c].dueIn = 0 => draft'[c].dueIn = 0
  BY <1>a, AgedRecord DEF IndInv, TypeOK
<1>c. /\ \A c \in Clients : draft'[c].dueIn > 0 => draft[c].dueIn > 0
  BY <1>a, <1>b DEF IndInv, TypeOK, Notification
<1>d. UNCHANGED <<tenantStatus, issued, pc, target, jobs, current, edits, faults,
                  delivered, unrecorded, raced, cancelAcked>>
  BY Zenon DEF Tick, historyVars
<1>. USE DEF IndInv, TypeOK
<1>1. TypeOK'
  BY <1>a, <1>d, Zenon
<1>2. FreshInv'
  BY <1>b, <1>d, ZenonT(40) DEF FreshInv
<1>3. HandlerInv'
  BY <1>b, <1>c, <1>d, NoneAssumption, SMTT(30) DEF HandlerInv
<1>4. WorkerInv'
  BY <1>b, <1>d DEF WorkerInv
<1>m. ASSUME NEW x \in Ids
      PROVE  InMemoryOnly(x)' <=> InMemoryOnly(x)
  BY <1>b, <1>d, Zenon DEF InMemoryOnly
<1>5. SentInv'
  BY <1>b, <1>d, <1>m, ZenonT(40) DEF SentInv
<1>6. AccountInv'
  BY <1>b, <1>d, <1>m DEF AccountInv
<1>7. BudgetInv'
  BY <1>b, <1>d, ZenonT(40) DEF BudgetInv
<1>8. WorkerServesActiveTenants'
  BY <1>d, Zenon DEF WorkerServesActiveTenants, WorkerHolds
<1>. QED
  BY <1>1, <1>2, <1>3, <1>4, <1>5, <1>6, <1>7, <1>8, Zenon

LEMMA CrashRestartIndInv ==
    ASSUME IndInv, CrashRestart
    PROVE  IndInv'
<1>b. /\ faults' = faults + 1 /\ faults' \in 0..MaxFaults
      /\ unrecorded' = unrecorded \cup {id \in Ids : InMemoryOnly(id)}
      /\ tenantStatus' \in [Tenants -> TenantStates]
      /\ pc' = [c \in Clients |-> "idle"]
      /\ target' = [c \in Clients |-> None]
      /\ draft' = [c \in Clients |-> Absent]
      /\ jobs' = {} /\ current' = None
      /\ snapshot' = [id \in Ids |-> Absent]
      /\ UNCHANGED <<row, issued, edits, delivered, raced, cancelAcked>>
  BY BoundsAssumption DEF CrashRestart, TenantTables, IndInv, TypeOK
<1>. USE DEF IndInv, TypeOK
<1>1. TypeOK'
  BY <1>b, NewRecords, Zenon
<1>2. FreshInv'
  BY <1>b, NoneAssumption, Zenon DEF FreshInv
<1>3. HandlerInv'
  BY <1>b, Zenon DEF HandlerInv
<1>4. WorkerInv'
  BY <1>b, Zenon DEF WorkerInv
<1>m. ASSUME NEW x \in Ids
      PROVE  ~InMemoryOnly(x)'
  BY <1>b, NoneAssumption, Zenon DEF InMemoryOnly
<1>5. SentInv'
  BY <1>b, <1>m, Zenon DEF SentInv
<1>6. AccountInv'
  BY <1>b, <1>m, Zenon DEF AccountInv
<1>7. BudgetInv'
  <2>1. \A x \in Ids : row[x].retryCount \in Nat
    BY DEF Notification
  <2>. QED
    BY <1>b, <2>1, NoneAssumption DEF BudgetInv, WorkerInv
<1>8. WorkerServesActiveTenants'
  BY <1>b, NoneAssumption, ZenonT(40) DEF WorkerServesActiveTenants, WorkerHolds
<1>. QED
  BY <1>1, <1>2, <1>3, <1>4, <1>5, <1>6, <1>7, <1>8, Zenon

-----------------------------------------------------------------------------
(* Every step *)

LEMMA StutterIndInv ==
    ASSUME IndInv, UNCHANGED vars
    PROVE  IndInv'
<1>. USE DEF vars, handlerVars, workerVars, historyVars, IndInv
<1>1. TypeOK' /\ FreshInv' /\ HandlerInv'
  BY SMTT(30) DEF TypeOK, FreshInv, HandlerInv
<1>2. WorkerInv' /\ SentInv' /\ AccountInv' /\ BudgetInv'
  BY SMTT(30) DEF WorkerInv, SentInv, AccountInv, BudgetInv, InMemoryOnly
<1>3. WorkerServesActiveTenants'
  BY Zenon DEF WorkerServesActiveTenants, WorkerHolds
<1>. QED
  BY <1>1, <1>2, <1>3, Zenon

LEMMA NextIndInv == IndInv /\ [Next]_vars => IndInv'
<1>. SUFFICES ASSUME IndInv, [Next]_vars PROVE IndInv'
  BY Zenon
<1>1. ASSUME NEW c \in Clients, SendNotification(c) PROVE IndInv'
  BY <1>1, BeginSendIndInv, DispatchIndInv, CreateIndInv, CreateFailsIndInv, Zenon
     DEF SendNotification
<1>2. ASSUME NEW c \in Clients, EditNotification(c) PROVE IndInv'
  BY <1>2, BeginRescheduleIndInv, BeginCancelIndInv, SaveIndInv, SaveFailsIndInv, Zenon
     DEF EditNotification
<1>3. CASE RetryWorker
  BY <1>3, ScanIndInv, AttemptIndInv, ApplyAttemptResultIndInv, ApplyFailsIndInv, Zenon
     DEF RetryWorker
<1>4. CASE Tick
  BY <1>4, TickIndInv, Zenon
<1>5. CASE CrashRestart
  BY <1>5, CrashRestartIndInv, Zenon
<1>6. CASE UNCHANGED vars
  BY <1>6, StutterIndInv, Zenon
<1>. QED
  BY <1>1, <1>2, <1>3, <1>4, <1>5, <1>6, Zenon DEF Next

\* IndInv holds in every reachable state.
THEOREM IndInvHolds == Spec => []IndInv
BY InitIndInv, NextIndInv, PTL DEF Spec

\* Every variable keeps its type; in particular no retry counter exceeds
\* MaxRetries.
THEOREM TypeCorrect == Spec => []TypeOK
<1>1. IndInv => TypeOK
  BY Zenon DEF IndInv
<1>. QED
  BY <1>1, IndInvHolds, PTL

\* No row ever says sent for a message the provider did not take.
THEOREM SentDelivered == Spec => []SentMeansDelivered
<1>1. IndInv => SentMeansDelivered
  BY Zenon DEF IndInv, SentInv, SentMeansDelivered
<1>. QED
  BY <1>1, IndInvHolds, PTL

\* Away from overlaps and lost records, the table and the provider agree on
\* how often each message went out.
THEOREM Accounted == Spec => []DeliveriesAccounted
<1>1. IndInv => DeliveriesAccounted
  BY NoneAssumption, Zenon
     DEF IndInv, TypeOK, AccountInv, InMemoryOnly, DeliveriesAccounted, Quiet,
         WorkerHolds
<1>. QED
  BY <1>1, IndInvHolds, PTL

\* Retries are bounded by the configured limit and the faults that happened.
THEOREM WithinBudget == Spec => []AttemptBudget
<1>1. IndInv => AttemptBudget
  BY MaxRetriesAssumption, BoundsAssumption
     DEF IndInv, TypeOK, BudgetInv, AttemptBudget, Notification
<1>. QED
  BY <1>1, IndInvHolds, PTL

\* The worker only ever holds jobs of active tenants.
THEOREM ActiveTenantsOnly == Spec => []WorkerServesActiveTenants
<1>1. IndInv => WorkerServesActiveTenants
  BY Zenon DEF IndInv
<1>. QED
  BY <1>1, IndInvHolds, PTL

-----------------------------------------------------------------------------
(* What a step may never do *)

\* Only the two provider calls change delivered, and only for one
\* notification.
LEMMA DeliveringSteps ==
    ASSUME IndInv, [Next]_vars, NEW id \in Ids, delivered'[id] # delivered[id]
    PROVE  \/ \E c \in Clients : pc[c] = "dispatch" /\ target[c] = id
           \/ id \in jobs
<1>1. ASSUME NEW c \in Clients, SendNotification(c)
      PROVE  pc[c] = "dispatch" /\ target[c] = id
  <2>1. ASSUME NEW answer \in Answers, Dispatch(c, answer)
        PROVE  pc[c] = "dispatch" /\ target[c] = id
    <3>1. pc[c] = "dispatch" /\ target[c] \in Ids
      BY <2>1 DEF Dispatch, IndInv, TypeOK, HandlerInv
    <3>. QED
      BY <2>1, <3>1, CountEffect, ZenonT(40) DEF Dispatch, IndInv
  <2>. QED
    BY <1>1, <2>1, Zenon DEF SendNotification, BeginSend, Create, CreateFails, historyVars
<1>2. ASSUME NEW c \in Clients, EditNotification(c) PROVE FALSE
  BY <1>2, Zenon DEF EditNotification, BeginReschedule, BeginCancel, BeginEdit, Save,
              SaveFails, historyVars
<1>3. CASE RetryWorker
  <2>1. ASSUME NEW x \in Ids, NEW answer \in Answers, Attempt(x, answer)
        PROVE  id \in jobs
    BY <2>1, CountEffect DEF Attempt, IndInv
  <2>. QED
    BY <1>3, <2>1, Zenon DEF RetryWorker, Scan, ApplyAttemptResult, ApplyFails, historyVars
<1>4. CASE Tick \/ CrashRestart \/ UNCHANGED vars
  BY <1>4, Zenon DEF Tick, CrashRestart, vars, historyVars
<1>. QED
  BY <1>1, <1>2, <1>3, <1>4, Zenon DEF Next

\* A message that goes out is pending at that very moment unless its row was
\* raced.
THEOREM DispatchedWhilePending == Spec => DispatchOnlyPending
<1>. DEFINE Pending == \A id \in Ids \ raced : delivered'[id] # delivered[id] =>
                            /\ row[id].status \notin {"sent", "cancelled"}
                            /\ row[id].dueIn = 0
<1>1. IndInv /\ [Next]_vars => [Pending]_vars
  <2>. SUFFICES ASSUME IndInv, [Next]_vars, NEW id \in Ids \ raced,
                       delivered'[id] # delivered[id]
                PROVE  /\ row[id].status \notin {"sent", "cancelled"}
                       /\ row[id].dueIn = 0
    BY Zenon
  <2>1. CASE id \in jobs
    BY <2>1, Zenon DEF IndInv, WorkerInv
  <2>2. ASSUME NEW c \in Clients, pc[c] = "dispatch", target[c] = id
        PROVE  row[id].status = "none" /\ row[id].dueIn = 0
    BY <2>2, Zenon DEF IndInv, HandlerInv
  <2>. QED
    BY <2>1, <2>2, DeliveringSteps, Zenon
<1>. QED
  BY <1>1, IndInvHolds, PTL DEF Spec, DispatchOnlyPending

\* Sent, cancelled and exhausted notifications stay as they are once nobody
\* is at work on them.
THEOREM SettledFinal == Spec => SettledIsFinal
<1>. DEFINE Final == \A id \in Ids : AtRest(id) =>
                        /\ AtRest(id)'
                        /\ row'[id].status = row[id].status
                        /\ row'[id].retryCount = row[id].retryCount
                        /\ delivered'[id] = delivered[id]
<1>1. IndInv /\ [Next]_vars => [Final]_vars
  <2>. SUFFICES ASSUME IndInv, [Next]_vars, NEW id \in Ids, AtRest(id)
                PROVE  /\ AtRest(id)'
                       /\ row'[id].status = row[id].status
                       /\ row'[id].retryCount = row[id].retryCount
                       /\ delivered'[id] = delivered[id]
    BY Zenon
  <2>a. /\ id \notin jobs /\ id # current /\ \A c \in Clients : target[c] # id
        /\ Settled(row[id]) /\ id \in issued
        /\ row[id].status # "queued" /\ ~PendingJob(id)
    BY DEF AtRest, Quiet, WorkerHolds, Settled, PendingJob, IndInv, TypeOK, FreshInv,
           Notification
  <2>b. delivered'[id] = delivered[id]
    BY <2>a, DeliveringSteps, Zenon
  <2>c. /\ row'[id].status = row[id].status
        /\ row'[id].retryCount = row[id].retryCount
    <3>1. ASSUME NEW c \in Clients, SendNotification(c) PROVE row'[id] = row[id]
      BY <2>a, <3>1, Zenon DEF SendNotification, BeginSend, Dispatch, Create, CreateFails,
                        Store, IndInv, TypeOK
    <3>2. ASSUME NEW c \in Clients, EditNotification(c) PROVE row'[id] = row[id]
      BY <2>a, <3>2, Zenon DEF EditNotification, BeginReschedule, BeginCancel, BeginEdit,
                        Save, SaveFails, Store, IndInv, TypeOK
    <3>3. CASE RetryWorker
      BY <2>a, <3>3, Zenon DEF RetryWorker, Scan, Attempt, ApplyAttemptResult, ApplyFails,
                        Store, IndInv, TypeOK
    <3>4. CASE Tick
      BY <3>4, AgedRecord, Zenon DEF Tick, IndInv, TypeOK
    <3>5. CASE CrashRestart \/ UNCHANGED vars
      BY <3>5, Zenon DEF CrashRestart, vars
    <3>. QED
      BY <3>1, <3>2, <3>3, <3>4, <3>5, Zenon DEF Next
  <2>d. id \notin jobs' /\ id # current'
    <3>1. ASSUME NEW c \in Clients, SendNotification(c) \/ EditNotification(c)
          PROVE  jobs' = jobs /\ current' = current
      BY <3>1, Zenon DEF SendNotification, BeginSend, Dispatch, Create, CreateFails,
                  EditNotification, BeginReschedule, BeginCancel, BeginEdit,
                  Save, SaveFails, workerVars
    <3>2. CASE RetryWorker
      BY <2>a, <3>2, NoneAssumption, Zenon
         DEF RetryWorker, Scan, Attempt, ApplyAttemptResult, ApplyFails, Finish
    <3>3. CASE Tick \/ CrashRestart \/ UNCHANGED vars
      BY <2>a, <3>3, NoneAssumption, Zenon DEF Tick, CrashRestart, vars, workerVars
    <3>. QED
      BY <2>a, <3>1, <3>2, <3>3, Zenon DEF Next
  <2>e. ASSUME NEW d \in Clients PROVE target'[d] # id
    <3>1. ASSUME NEW c \in Clients, SendNotification(c) PROVE target'[d] # id
      BY <2>a, <3>1, NoneAssumption
         DEF SendNotification, BeginSend, Dispatch, Create, CreateFails, Return,
             IndInv, TypeOK
    <3>2. ASSUME NEW c \in Clients, EditNotification(c) PROVE target'[d] # id
      BY <2>a, <3>2, NoneAssumption, Zenon
         DEF EditNotification, BeginReschedule, BeginCancel, BeginEdit, Editable,
             Save, SaveFails, Return, IndInv, TypeOK
    <3>3. CASE RetryWorker
      BY <2>a, <3>3, Zenon DEF RetryWorker, Scan, Attempt, ApplyAttemptResult, ApplyFails,
                        handlerVars
    <3>4. CASE Tick \/ CrashRestart \/ UNCHANGED vars
      BY <2>a, <3>4, NoneAssumption, Zenon DEF Tick, CrashRestart, vars, handlerVars
    <3>. QED
      BY <3>1, <3>2, <3>3, <3>4, ZenonT(40) DEF Next
  <2>. QED
    BY <2>a, <2>b, <2>c, <2>d, <2>e, Zenon DEF AtRest, Quiet, WorkerHolds, Settled
<1>. QED
  BY <1>1, IndInvHolds, PTL DEF Spec, SettledIsFinal

-----------------------------------------------------------------------------
(* The programs and the service *)

LEMMA InitService == InitPrograms => Init
  BY Zenon DEF InitPrograms, InitClient

LEMMA ServiceStep ==
    ASSUME [ProgramsNext]_programVars
    PROVE  [Next]_vars
<1>1. CASE RunCommand
  BY <1>1, CommandAssumption, Zenon DEF RunCommand, Next, SendNotification
<1>2. CASE Client
  BY <1>2, WaiterAssumption, Zenon
     DEF Client, SendNotificationAndWait, SendDeadline, Examine, GetNotificationStatus,
         GetNotificationStatusFails, Next, SendNotification
<1>3. CASE SendReturns \/ SendFails
  BY <1>3, WaiterAssumption, Zenon DEF SendReturns, SendFails, Next, SendNotification
<1>4. CASE ClientTick \/ CrashRestart
  BY <1>4, Zenon DEF ClientTick, Next
<1>5. CASE \/ \E c \in Clients \ {Waiter} : SendNotification(c) \/ EditNotification(c)
           \/ \E answer \in Answers : Dispatch(Waiter, answer)
           \/ RetryWorker
  BY <1>5, WaiterAssumption, Zenon DEF Next, SendNotification
<1>6. CASE UNCHANGED programVars
  BY <1>6, Zenon DEF programVars, clientVars
<1>. QED
  BY <1>1, <1>2, <1>3, <1>4, <1>5, <1>6, Zenon DEF ProgramsNext, ClientNext

\* The service goes on as specified whatever its programs do: what a program
\* waits for, gives up on or sends is a sequence of calls of the service.
THEOREM ProgramsUseService == FairProgramsSpec => Spec
  BY InitService, ServiceStep, PTL DEF FairProgramsSpec, Spec

-----------------------------------------------------------------------------
(* The program that waits *)

Response == {"QUEUED", "SENT", "CANCELLED", "ERRORED", "UNKNOWN"}

WaitRecord ==
    [at : {"idle", "sending", "examine", "asleep", "poll"} \cup Ended, id : Ids \cup {None},
     response : Response, waited : Nat]

\* Until the call returns, the server works on the notification of the
\* program; a response that says sent is about a message that went out.
WaitInv ==
    /\ wait \in WaitRecord
    /\ wait.at # "idle" => wait.id \in Ids
    /\ wait.at = "idle" => wait.response # "SENT"
    /\ wait.at = "sending" => pc[Waiter] \in {"dispatch", "create"} /\ target[Waiter] = wait.id
    /\ wait.response = "SENT" => delivered[wait.id] >= 1
    /\ wait.at = "sent" => wait.response = "SENT"

LEMMA Responses ==
    ASSUME NEW status
    PROVE  /\ mapModelToGrpcResponse(status) \in Response
           /\ mapModelToGrpcResponse(status) = "SENT" => status = "sent"
  BY Zenon DEF mapModelToGrpcResponse, Response

\* The provider does not give messages back.
LEMMA DeliveredGrows ==
    ASSUME IndInv, [Next]_vars, NEW id \in Ids
    PROVE  delivered[id] >= 1 => delivered'[id] >= 1
<1>1. TypeOK /\ delivered[id] \in Nat
  BY Zenon DEF IndInv, TypeOK
<1>2. ASSUME NEW x \in Ids, NEW answer \in Answers, delivered' = Count(x, answer)
      PROVE  delivered[id] >= 1 => delivered'[id] >= 1
  BY <1>1, <1>2, CountEffect
<1>3. ASSUME NEW c \in Clients, SendNotification(c)
      PROVE  delivered[id] >= 1 => delivered'[id] >= 1
  <2>1. ASSUME NEW answer \in Answers, Dispatch(c, answer)
        PROVE  delivered[id] >= 1 => delivered'[id] >= 1
    <3>1. target[c] \in Ids
      BY <2>1 DEF Dispatch, IndInv, TypeOK, HandlerInv
    <3>. QED
      BY <1>2, <2>1, <3>1, Zenon DEF Dispatch
  <2>. QED
    BY <1>3, <2>1, Zenon DEF SendNotification, BeginSend, Create, CreateFails, historyVars
<1>4. ASSUME NEW c \in Clients, EditNotification(c) PROVE delivered' = delivered
  BY <1>4, Zenon DEF EditNotification, BeginReschedule, BeginCancel, BeginEdit, Save, SaveFails,
              historyVars
<1>5. CASE RetryWorker
  <2>1. ASSUME NEW x \in Ids, NEW answer \in Answers, Attempt(x, answer)
        PROVE  delivered[id] >= 1 => delivered'[id] >= 1
    BY <1>2, <2>1, Zenon DEF Attempt
  <2>. QED
    BY <1>5, <2>1, Zenon DEF RetryWorker, Scan, ApplyAttemptResult, ApplyFails, historyVars
<1>6. CASE Tick \/ CrashRestart \/ UNCHANGED vars
  BY <1>6, Zenon DEF Tick, CrashRestart, vars, historyVars
<1>. QED
  BY <1>3, <1>4, <1>5, <1>6, Zenon DEF Next

\* A step of the program that changes its record.
LEMMA WaitMoves ==
    ASSUME WaitInv, IndInv, [Next]_vars, NEW new, wait' = new, new \in WaitRecord,
           new.id = wait.id \/ (wait.at = "idle" /\ new.response = wait.response),
           new.at # "idle" => new.id \in Ids,
           new.at = "idle" => new.response # "SENT",
           new.at = "sending" => pc'[Waiter] \in {"dispatch", "create"} /\ target'[Waiter] = new.id,
           new.response = "SENT" => wait.response = "SENT" \/ delivered[new.id] >= 1,
           new.at = "sent" => new.response = "SENT"
    PROVE  WaitInv'
<1>1. ASSUME new.response = "SENT" PROVE delivered'[new.id] >= 1
  <2>1. new.id \in Ids
    BY <1>1, Zenon
  <2>2. delivered[new.id] >= 1
    BY <1>1, Zenon DEF WaitInv
  <2>. QED
    BY <2>1, <2>2, DeliveredGrows, Zenon
<1>. QED
  BY <1>1, Zenon DEF WaitInv

\* Steps of the other actors.
LEMMA OthersKeepWaiter ==
    ASSUME TypeOK, UNCHANGED wait,
           \/ \E c \in Clients \ {Waiter} : SendNotification(c) \/ EditNotification(c)
           \/ \E answer \in Answers : Dispatch(Waiter, answer)
           \/ RetryWorker \/ Tick
           \/ UNCHANGED vars
    PROVE  /\ target'[Waiter] = target[Waiter]
           /\ pc[Waiter] \in {"dispatch", "create"} => pc'[Waiter] \in {"dispatch", "create"}
<1>1. pc \in [Clients -> {"idle", "dispatch", "create", "save"}]
      /\ target \in [Clients -> Ids \cup {None}] /\ Waiter \in Clients
  BY WaiterAssumption, Zenon DEF TypeOK
<1>2. ASSUME NEW c \in Clients \ {Waiter}, SendNotification(c) \/ EditNotification(c)
      PROVE  pc'[Waiter] = pc[Waiter] /\ target'[Waiter] = target[Waiter]
  <2>1. CASE SendNotification(c)
    BY <1>1, <1>2, <2>1, Zenon
       DEF SendNotification, BeginSend, Dispatch, Create, CreateFails, Return
  <2>2. CASE EditNotification(c)
    BY <1>1, <1>2, <2>2, Zenon
       DEF EditNotification, BeginReschedule, BeginCancel, BeginEdit, Save,
                            SaveFails, Return
  <2>. QED
    BY <1>2, <2>1, <2>2, Zenon
<1>3. ASSUME NEW answer \in Answers, Dispatch(Waiter, answer)
      PROVE  pc'[Waiter] = "create" /\ target'[Waiter] = target[Waiter]
  BY <1>1, <1>3, Zenon DEF Dispatch
<1>4. CASE RetryWorker \/ Tick \/ UNCHANGED vars
  BY <1>4, Zenon
     DEF RetryWorker, Scan, Attempt, ApplyAttemptResult, ApplyFails, Tick, vars, handlerVars
<1>. QED
  BY <1>2, <1>3, <1>4, Zenon

LEMMA WaitKept ==
    ASSUME WaitInv, IndInv, [Next]_vars, UNCHANGED wait,
           target'[Waiter] = target[Waiter],
           pc[Waiter] \in {"dispatch", "create"} => pc'[Waiter] \in {"dispatch", "create"}
    PROVE  WaitInv'
<1>1. PICK new : new = wait
  BY Zenon
<1>2. /\ wait' = new /\ new \in WaitRecord /\ new.id = wait.id
      /\ new.at # "idle" => new.id \in Ids
      /\ new.at = "idle" => new.response # "SENT"
      /\ new.at = "sending" =>
            pc'[Waiter] \in {"dispatch", "create"} /\ target'[Waiter] = new.id
      /\ new.response = "SENT" => wait.response = "SENT"
      /\ new.at = "sent" => new.response = "SENT"
  BY <1>1, Zenon DEF WaitInv
<1>. QED
  BY <1>2, WaitMoves, Zenon

\* The program gives up on the call that sends.
LEMMA GiveUpKeeps ==
    ASSUME WaitInv, IndInv, [Next]_vars, GiveUp
    PROVE  WaitInv'
<1>1. wait \in WaitRecord
  BY Zenon DEF WaitInv
<1>2. PICK p : p = IF wait.at = "sending" THEN "failed" ELSE wait.at
  BY Zenon
<1>3. PICK new : wait' = new /\ new = [wait EXCEPT !.at = p]
  BY <1>1, <1>2, Zenon DEF GiveUp, WaitRecord
<1>4. /\ p \in {"idle", "sending", "examine", "asleep", "poll"} \cup Ended /\ p # "sending"
      /\ p = "idle" <=> wait.at = "idle"
      /\ p = "sent" => wait.at = "sent"
  BY <1>1, <1>2, Zenon DEF WaitRecord, Ended
<1>5. /\ new \in WaitRecord /\ new.at = p /\ new.id = wait.id /\ new.response = wait.response
  BY <1>1, <1>3, <1>4, Zenon DEF WaitRecord
<1>. QED
  BY <1>3, <1>4, <1>5, WaitMoves, Zenon DEF WaitInv

LEMMA BeginWaitKeeps ==
    ASSUME WaitInv, IndInv, [Next]_vars, NEW id \in Ids, NEW delay \in Delays,
           SendNotificationAndWait(id, delay)
    PROVE  WaitInv'
<1>1. wait \in WaitRecord /\ wait.at = "idle" /\ wait.response # "SENT"
  BY Zenon DEF WaitInv, SendNotificationAndWait
<1>2. PICK new : wait' = new /\ new = [wait EXCEPT !.at = "sending", !.id = id]
  BY Zenon DEF SendNotificationAndWait
<1>3. new \in WaitRecord /\ new.at = "sending" /\ new.id = id /\ new.response = wait.response
  BY <1>1, <1>2, Zenon DEF WaitRecord
<1>4. pc'[Waiter] \in {"dispatch", "create"} /\ target'[Waiter] = id
  BY WaiterAssumption, Zenon DEF SendNotificationAndWait, BeginSend, IndInv, TypeOK
<1>. QED
  BY <1>1, <1>2, <1>3, <1>4, WaitMoves, Zenon

LEMMA SendReturnsKeeps ==
    ASSUME WaitInv, IndInv, [Next]_vars, SendReturns
    PROVE  WaitInv'
<1>1. wait \in WaitRecord
  BY Zenon DEF WaitInv
<1>2. CASE wait.at # "sending"
  <2>1. UNCHANGED wait
    BY <1>2, Zenon DEF SendReturns
  <2>2. PICK new : new = wait
    BY Zenon
  <2>. QED
    BY <1>1, <1>2, <2>1, <2>2, WaitMoves, Zenon DEF WaitInv
<1>3. CASE wait.at = "sending"
  <2>1. PICK r : r = mapModelToGrpcResponse(draft[Waiter].status)
    BY Zenon
  <2>2. r \in Response /\ (r = "SENT" => draft[Waiter].status = "sent")
    BY <2>1, Responses, Zenon
  <2>3. PICK new : wait' = new /\ new = [wait EXCEPT !.at = "examine", !.response = r]
    BY <1>3, <2>1, Zenon DEF SendReturns
  <2>4. new \in WaitRecord /\ new.at = "examine" /\ new.id = wait.id /\ new.response = r
    BY <1>1, <2>2, <2>3, Zenon DEF WaitRecord
  <2>5. wait.id \in Ids /\ target[Waiter] = wait.id
    BY <1>3, Zenon DEF WaitInv
  <2>6. r = "SENT" => delivered[wait.id] >= 1
    BY <2>2, <2>5, WaiterAssumption, Zenon DEF IndInv, SentInv, InMemoryOnly
  <2>. QED
    BY <2>3, <2>4, <2>5, <2>6, WaitMoves, Zenon
<1>. QED
  BY <1>2, <1>3, Zenon

LEMMA ExamineKeeps ==
    ASSUME WaitInv, IndInv, [Next]_vars, Examine
    PROVE  WaitInv'
<1>1. wait \in WaitRecord /\ wait.at = "examine" /\ wait.id \in Ids
  BY Zenon DEF WaitInv, Examine
<1>2. PICK p \in {"sent", "errored", "timeout", "asleep"} :
        wait' = [wait EXCEPT !.at = p] /\ (p = "sent" => wait.response = "SENT")
  BY Zenon DEF Examine
<1>3. PICK new : wait' = new /\ new = [wait EXCEPT !.at = p]
  BY <1>2, Zenon
<1>4. new \in WaitRecord /\ new.at = p /\ new.id = wait.id /\ new.response = wait.response
  BY <1>1, <1>3, Zenon DEF WaitRecord, Ended
<1>. QED
  BY <1>1, <1>2, <1>3, <1>4, WaitMoves, Zenon

LEMMA PollKeeps ==
    ASSUME WaitInv, IndInv, [Next]_vars, GetNotificationStatus \/ GetNotificationStatusFails
    PROVE  WaitInv'
<1>1. wait \in WaitRecord /\ wait.at = "poll" /\ wait.id \in Ids
  BY Zenon DEF WaitInv, GetNotificationStatus, GetNotificationStatusFails
<1>2. CASE GetNotificationStatus
  <2>1. PICK r : r = mapModelToGrpcResponse(row[wait.id].status)
    BY Zenon
  <2>2. r \in Response /\ (r = "SENT" => row[wait.id].status = "sent")
    BY <2>1, Responses, Zenon
  <2>3. PICK new : wait' = new /\ new = [wait EXCEPT !.at = "examine", !.response = r]
    BY <1>2, <2>1, Zenon DEF GetNotificationStatus
  <2>4. new \in WaitRecord /\ new.at = "examine" /\ new.id = wait.id /\ new.response = r
    BY <1>1, <2>2, <2>3, Zenon DEF WaitRecord
  <2>5. r = "SENT" => delivered[wait.id] >= 1
    BY <1>1, <2>2, Zenon DEF IndInv, SentInv
  <2>. QED
    BY <1>1, <2>3, <2>4, <2>5, WaitMoves, Zenon
<1>3. CASE GetNotificationStatusFails
  <2>1. PICK new : wait' = new /\ new = [wait EXCEPT !.at = "failed"]
    BY <1>3, Zenon DEF GetNotificationStatusFails
  <2>2. new \in WaitRecord /\ new.at = "failed" /\ new.id = wait.id
        /\ new.response = wait.response
    BY <1>1, <2>1, Zenon DEF WaitRecord, Ended
  <2>. QED
    BY <1>1, <2>1, <2>2, WaitMoves, Zenon
<1>. QED
  BY <1>2, <1>3, Zenon

LEMMA ClientTickKeeps ==
    ASSUME WaitInv, IndInv, [Next]_vars, ClientTick
    PROVE  WaitInv'
<1>1. wait \in WaitRecord
  BY Zenon DEF WaitInv
<1>2. CASE wait.at \notin {"examine", "asleep", "poll"}
  <2>1. UNCHANGED wait /\ TypeOK /\ Tick
    BY <1>2, Zenon DEF ClientTick, IndInv
  <2>. QED
    BY <2>1, OthersKeepWaiter, WaitKept, Zenon
<1>3. CASE wait.at \in {"examine", "asleep", "poll"}
  <2>1. PICK p, w : /\ p = IF wait.at = "asleep" THEN "poll" ELSE wait.at
                    /\ w = IF wait.waited > PollTimeout THEN wait.waited ELSE wait.waited + 1
    BY Zenon
  <2>2. PICK new : wait' = new /\ new = [wait EXCEPT !.at = p, !.waited = w]
    BY <1>1, <1>3, <2>1, Zenon DEF ClientTick, WaitRecord
  <2>3. p \in {"examine", "poll"} /\ w \in Nat
    BY <1>1, <1>3, <2>1 DEF WaitRecord
  <2>4. new \in WaitRecord /\ new.at = p /\ new.id = wait.id /\ new.response = wait.response
    BY <1>1, <2>2, <2>3, Zenon DEF WaitRecord
  <2>5. wait.id \in Ids
    BY <1>3, Zenon DEF WaitInv
  <2>. QED
    BY <2>2, <2>3, <2>4, <2>5, WaitMoves, Zenon
<1>. QED
  BY <1>2, <1>3, Zenon

LEMMA RunCommandKeeps ==
    ASSUME WaitInv, IndInv, [Next]_vars, RunCommand
    PROVE  WaitInv'
<1>1. UNCHANGED wait /\ TypeOK
  BY Zenon DEF RunCommand, IndInv
<1>2. \/ \E c \in Clients \ {Waiter} : SendNotification(c)
      \/ UNCHANGED vars
  BY CommandAssumption, Zenon DEF RunCommand, SendNotification
<1>. QED
  BY <1>1, <1>2, OthersKeepWaiter, WaitKept, Zenon

LEMMA WaitStepKeeps ==
    ASSUME WaitInv, IndInv, [ProgramsNext]_programVars
    PROVE  WaitInv'
<1>1. [Next]_vars /\ TypeOK
  BY ServiceStep, Zenon DEF IndInv
<1>2. CASE Client
  BY <1>1, <1>2, BeginWaitKeeps, GiveUpKeeps, ExamineKeeps, PollKeeps, Zenon
     DEF Client, SendDeadline
<1>3. CASE SendReturns \/ ClientTick \/ RunCommand
  BY <1>1, <1>3, SendReturnsKeeps, ClientTickKeeps, RunCommandKeeps, Zenon
<1>4. CASE GiveUp
  BY <1>1, <1>4, GiveUpKeeps, Zenon
<1>5. CASE /\ \/ \E c \in Clients \ {Waiter} : SendNotification(c) \/ EditNotification(c)
              \/ \E answer \in Answers : Dispatch(Waiter, answer)
              \/ RetryWorker
           /\ UNCHANGED wait
  BY <1>1, <1>5, OthersKeepWaiter, WaitKept, Zenon
<1>6. CASE UNCHANGED programVars
  <2>1. UNCHANGED wait /\ UNCHANGED vars
    BY <1>6, Zenon DEF programVars, clientVars
  <2>. QED
    BY <1>1, <2>1, OthersKeepWaiter, WaitKept, Zenon
<1>. QED
  BY <1>2, <1>3, <1>4, <1>5, <1>6, Zenon DEF ProgramsNext, ClientNext, SendFails

\* The program that waits is told "sent" only for a message that the provider
\* took, however many answers, deadlines, edits and crashes lie between the
\* two (SendNotificationAndWait, mapModelToGrpcResponse).
THEOREM ToldTheTruth == FairProgramsSpec => []WaitTellsTruth
<1>1. InitPrograms => WaitInv
  BY DEF InitPrograms, InitClient, NotWaiting, WaitInv, WaitRecord, Response
<1>2. WaitInv /\ IndInv /\ [ProgramsNext]_programVars => WaitInv'
  BY WaitStepKeeps, Zenon
<1>3. WaitInv => WaitTellsTruth
  BY Zenon DEF WaitInv, WaitTellsTruth
<1>4. FairProgramsSpec => []IndInv
  BY ProgramsUseService, IndInvHolds, PTL
<1>. QED
  BY <1>1, <1>2, <1>3, <1>4, PTL DEF FairProgramsSpec

-----------------------------------------------------------------------------
(* The command-line client *)

\* What holds of zero and of the successor of every number it holds of, holds
\* of all natural numbers.
LEMMA SetInduction ==
    ASSUME NEW S, 0 \in S, \A n \in Nat : n \in S => n + 1 \in S
    PROVE  Nat \subseteq S
<1>. DEFINE T == Nat \ S
<1>. SUFFICES ASSUME T # {} PROVE FALSE
  BY Zenon
<1>1. PICK x \in T : \A y \in T : ~(<<y, x>> \in OpToRel(<, Nat))
  <2>. HIDE DEF T
  <2>1. T \subseteq Nat
    BY Zenon DEF T
  <2>. QED
    BY <2>1, WFMin, NatLessThanWellFounded, Zenon
<1>2. \A y \in T : ~(y < x)
  BY <1>1, Zenon DEF OpToRel
<1>3. x # 0 /\ x - 1 \in Nat /\ x - 1 < x
  OBVIOUS
<1>4. x - 1 \in S
  BY <1>2, <1>3, Zenon
<1>. QED
  BY <1>3, <1>4

\* The sizes of attachments add up to a natural number, of none to zero.
LEMMA TotalIsSize ==
    ASSUME NEW a, Len(a) \in Nat, \A i \in 1..Len(a) : a[i].size \in Nat
    PROVE  Total(a) \in Nat /\ (Len(a) = 0 => Total(a) = 0)
<1>. DEFINE Sums(f, n) == f = [k \in 0..n |-> IF k = 0 THEN 0 ELSE f[k - 1] + a[k].size]
            S == {n \in Nat : \E f : Sums(f, n)}
<1>1. 0 \in S
  <2>. DEFINE f == [k \in 0..0 |-> 0]
  <2>1. Sums(f, 0)
    OBVIOUS
  <2>. QED
    BY <2>1, Zenon
<1>2. ASSUME NEW n \in Nat, n \in S
      PROVE  n + 1 \in S
  <2>1. PICK f : Sums(f, n)
    BY <1>2, Zenon
  <2>. DEFINE g == [k \in 0..(n + 1) |-> IF k <= n THEN f[k] ELSE f[n] + a[n + 1].size]
  <2>2. ASSUME NEW k \in 0..(n + 1)
        PROVE  g[k] = IF k = 0 THEN 0 ELSE g[k - 1] + a[k].size
    <3>1. CASE k = 0
      BY <2>1, <3>1
    <3>2. CASE k \in 1..n
      BY <2>1, <3>2
    <3>3. CASE k = n + 1
      BY <3>3
    <3>. QED
      BY <3>1, <3>2, <3>3, SMTT(30)
  <2>3. g = [k \in 0..(n + 1) |-> g[k]]
    BY Zenon
  <2>. HIDE DEF g
  <2>4. Sums(g, n + 1)
    BY <2>2, <2>3, Zenon
  <2>. HIDE DEF Sums
  <2>5. \E h : Sums(h, n + 1)
    BY <2>4, Zenon
  <2>. QED
    BY <2>5
<1>3. \E f : Sums(f, Len(a))
  <2>. HIDE DEF S
  <2>1. Len(a) \in S
    BY <1>1, <1>2, SetInduction, Zenon
  <2>. QED
    BY <2>1, Zenon DEF S
<1>4. PICK u : u = CHOOSE f : Sums(f, Len(a))
  BY Zenon
<1>5. Sums(u, Len(a))
  BY <1>3, <1>4, Zenon
<1>6. Total(a) = u[Len(a)]
  BY <1>4, Zenon DEF Total
<1>. DEFINE U == {n \in Nat : n <= Len(a) => u[n] \in Nat}
<1>7. u[0] = 0
  BY <1>5
<1>8. ASSUME NEW n \in Nat, n \in U
      PROVE  n + 1 \in U
  <2>. SUFFICES ASSUME n + 1 <= Len(a) PROVE u[n + 1] \in Nat
    OBVIOUS
  <2>1. u[n] \in Nat /\ a[n + 1].size \in Nat
    BY <1>8
  <2>2. u[n + 1] = u[n] + a[n + 1].size
    BY <1>5
  <2>. QED
    BY <2>1, <2>2
<1>9. u[Len(a)] \in Nat
  <2>1. 0 \in U
    BY <1>7
  <2>. HIDE DEF U
  <2>2. Len(a) \in U
    BY <1>8, <2>1, SetInduction, Zenon
  <2>. QED
    BY <2>2 DEF U
<1>. QED
  BY <1>6, <1>7, <1>9, Zenon

LEMMA CommandFields ==
    ASSUME NEW c \in CommandLine
    PROVE  /\ c.type \in {"", "email", "sms", "fax"} /\ c.message \in Nat
           /\ c.settings \in {"complete", "incomplete"}
           /\ c.recipient \in {"blank", "given"} /\ c.subject \in {"blank", "given"}
           /\ Len(c.files) \in Nat /\ DOMAIN c.files = 1..Len(c.files)
           /\ \A i \in DOMAIN c.files : c.files[i].read \in BOOLEAN /\ c.files[i].size \in Nat
           /\ c.files = <<>> <=> Len(c.files) = 0
<1>1. /\ c.type \in {"", "email", "sms", "fax"} /\ c.message \in Nat
      /\ c.settings \in {"complete", "incomplete"}
      /\ c.recipient \in {"blank", "given"} /\ c.subject \in {"blank", "given"}
  <2>1. c.message \in 0..MaxText
    BY Zenon DEF CommandLine
  <2>2. c.message \in Nat
    BY <2>1, LimitsAssumption
  <2>. QED
    BY <2>2, Zenon DEF CommandLine
<1>2. PICK n \in 0..maxNotificationAttachmentCount + 1 : c.files \in [1..n -> Files]
  BY Zenon DEF CommandLine
<1>3. n \in Nat
  BY <1>2, LimitsAssumption
<1>4. c.files \in Seq(Files) /\ Len(c.files) = n /\ DOMAIN c.files = 1..n
  BY <1>2, <1>3
<1>5. \A x \in Files : x.read \in BOOLEAN /\ x.size \in Nat
  <2>. SUFFICES ASSUME NEW x \in Files PROVE x.read \in BOOLEAN /\ x.size \in Nat
    BY Zenon
  <2>1. x.read \in BOOLEAN /\ (x.size = 0 \/ x.size \in 0..maxNotificationAttachmentSizeBytes + 1)
    BY Zenon DEF Files
  <2>. QED
    BY <2>1, LimitsAssumption
<1>6. c.files = <<>> <=> Len(c.files) = 0
  BY <1>3, <1>4
<1>. QED
  BY <1>1, <1>2, <1>3, <1>4, <1>5, <1>6, Zenon

LEMMA ComposeFields ==
    ASSUME NEW c, NEW r, r = Compose(c)
    PROVE  /\ r.type = parseNotificationType(c.type) /\ r.recipient = c.recipient
           /\ r.message = c.message /\ r.schedule = c.schedule /\ r.attachments = c.files
  BY Zenon DEF Compose

LEMMA Types ==
    ASSUME NEW t
    PROVE  parseNotificationType(t) \in {"EMAIL", "SMS", "invalid"}
  BY Zenon DEF parseNotificationType

LEMMA LoadedNotEmpty ==
    ASSUME NEW files, Loadable(files), NEW i \in DOMAIN files, files[i].size \in Nat
    PROVE  files[i].size # 0
<1>1. files[i].size > 0
  BY Zenon DEF Loadable
<1>. QED
  BY <1>1

\* What the server says of the attachments of a command.
LEMMA Attached ==
    ASSUME NEW c \in CommandLine, NEW r, r = Compose(c), r.type \in {"EMAIL", "SMS"}
    PROVE  LET error == normalizeNotificationAttachments(r) IN
           /\ error \in Limits \cup {"none", "attachments_not_allowed", "data_required"}
           /\ error = "attachments_not_allowed" => r.type = "SMS" /\ c.files # <<>>
           /\ error = "data_required" => ~Loadable(c.files)
           /\ error = "none" => /\ r.type = "SMS" => c.files = <<>>
                                /\ c.files # <<>> =>
                                     Total(c.files) <= maxNotificationAttachmentsTotalBytes
<1>1. r.attachments = c.files
  BY ComposeFields, Zenon
<1>2. Loadable(c.files) => \A i \in 1..Len(c.files) : c.files[i].size # 0
  BY CommandFields, LoadedNotEmpty, Zenon
<1>3. CASE c.files = <<>>
  BY <1>1, <1>3, Zenon DEF normalizeNotificationAttachments
<1>4. CASE c.files # <<>> /\ r.type = "SMS"
  BY <1>1, <1>4, ZenonT(40) DEF normalizeNotificationAttachments
<1>5. CASE c.files # <<>> /\ r.type = "EMAIL"
  <2>1. Total(c.files) \in Nat /\ maxNotificationAttachmentsTotalBytes \in Nat
    BY CommandFields, TotalIsSize, LimitsAssumption, Zenon
  <2>. QED
    BY <1>1, <1>2, <1>5, <2>1 DEF normalizeNotificationAttachments, Limits
<1>. QED
  BY <1>3, <1>4, <1>5, Zenon

\* Every command means the same to both sides.
LEMMA CommandMeans ==
    ASSUME NEW c \in CommandLine, NEW r, r = Compose(c),
           NEW error, error = NewNotificationRequest(r)
    PROVE  /\ Sends(c) => error \in Limits \cup {"none"}
           /\ ~Sends(c) /\ error = "none" =>
                \/ c.settings = "incomplete"
                \/ r.type = "EMAIL" /\ c.subject = "blank"
                \/ ~Loadable(c.files)
           /\ Admitted(c)
              /\ r.message < MaxMessageSizeBytes - maxNotificationAttachmentsTotalBytes =>
                   ResponseSize(r) <= MaxMessageSizeBytes
<1>1. /\ r.type = parseNotificationType(c.type) /\ r.recipient = c.recipient
      /\ r.message = c.message /\ r.schedule = c.schedule /\ r.attachments = c.files
  BY ComposeFields, Zenon
<1>2. r.type \in {"EMAIL", "SMS", "invalid"}
  BY <1>1, Types, Zenon
<1>3. PICK attached : attached = normalizeNotificationAttachments(r)
  BY Zenon
<1>4. c.message \in Nat /\ c.recipient \in {"blank", "given"} /\ c.subject \in {"blank", "given"}
      /\ c.settings \in {"complete", "incomplete"}
  BY CommandFields, Zenon
<1>5. Sends(c) => /\ r.type \in {"EMAIL", "SMS"} /\ r.schedule # "garbled"
                  /\ r.recipient # "blank" /\ r.message # 0
                  /\ r.type = "SMS" => c.files = <<>>
                  /\ Loadable(c.files)
  BY <1>1, <1>2, <1>4 DEF Sends
<1>6. error = IF r.type = "invalid" THEN "invalid_type"
              ELSE IF r.schedule = "garbled" THEN "invalid_schedule"
              ELSE IF r.recipient = "blank" THEN "recipient_required"
              ELSE IF r.message = 0 THEN "message_required"
              ELSE attached
  BY <1>3, Zenon DEF NewNotificationRequest
<1>7. r.type \in {"EMAIL", "SMS"} =>
        /\ attached \in Limits \cup {"none", "attachments_not_allowed", "data_required"}
        /\ attached = "attachments_not_allowed" => r.type = "SMS" /\ c.files # <<>>
        /\ attached = "data_required" => ~Loadable(c.files)
        /\ attached = "none" => /\ r.type = "SMS" => c.files = <<>>
                                /\ c.files # <<>> =>
                                     Total(c.files) <= maxNotificationAttachmentsTotalBytes
  BY <1>3, Attached, Zenon
<1>8. Sends(c) => error \in Limits \cup {"none"}
  BY <1>5, <1>6, <1>7, Zenon
<1>9. ASSUME error = "none", c.settings = "complete", ~(r.type = "EMAIL" /\ c.subject = "blank"),
             Loadable(c.files)
      PROVE  Sends(c)
  <2>1. r.type \in {"EMAIL", "SMS"} /\ r.schedule # "garbled" /\ r.recipient = "given"
        /\ r.message # 0 /\ attached = "none"
    BY <1>1, <1>2, <1>4, <1>6, <1>9, Zenon
  <2>2. c.message > 0
    BY <1>1, <1>4, <2>1, SMTT(30)
  <2>. QED
    BY <1>1, <1>4, <1>7, <1>9, <2>1, <2>2, Zenon DEF Sends
<1>10. ASSUME Admitted(c),
              r.message < MaxMessageSizeBytes - maxNotificationAttachmentsTotalBytes
       PROVE  ResponseSize(r) <= MaxMessageSizeBytes
  <2>1. error = "none" /\ Sends(c)
    BY <1>10, Zenon DEF Admitted
  <2>2. attached = "none"
    BY <1>5, <1>6, <2>1, Zenon
  <2>3. Total(c.files) \in Nat /\ (c.files = <<>> => Total(c.files) = 0)
    BY CommandFields, TotalIsSize, Zenon
  <2>4. Total(c.files) <= maxNotificationAttachmentsTotalBytes
    BY <1>5, <1>7, <2>1, <2>2, <2>3, LimitsAssumption, SMTT(30)
  <2>5. ResponseSize(r) = c.message + Total(c.files) + 1
    BY <1>1, Zenon DEF ResponseSize, RequestSize
  <2>. QED
    BY <1>1, <1>4, <1>10, <2>3, <2>4, <2>5, LimitsAssumption, SMTT(30)
<1>. QED
  BY <1>4, <1>8, <1>9, <1>10, Zenon

\* What the command-line client sends, the server refuses only for the number
\* and size of its attachments, which the client does not look at; what the
\* client refuses, the server would refuse; and an admitted request can be
\* answered (RunE, NewNotificationRequest, MaxMessageSizeBytes).
THEOREM CommandAlwaysMeetsServer == FairProgramsSpec => []CommandMeetsServer
<1>. DEFINE CommandInv == command \in CommandLine \cup {None}
<1>1. InitPrograms => CommandInv
  BY Zenon DEF InitPrograms
<1>2. CommandInv /\ [ProgramsNext]_programVars => CommandInv'
  BY Zenon DEF ProgramsNext, RunCommand, programVars
<1>3. CommandInv => CommandMeetsServer
  BY CommandMeans, Zenon DEF CommandMeetsServer
<1>. QED
  BY <1>1, <1>2, <1>3, PTL DEF FairProgramsSpec
=============================================================================
