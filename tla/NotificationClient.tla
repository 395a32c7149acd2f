------------------------- MODULE NotificationClient -------------------------
(***************************************************************************)
(* SendNotificationAndWait of the Go client (pkg/client/client.go) against *)
(* the notification service, through the gRPC handlers of                  *)
(* cmd/server/main.go.  One program sends and then polls once per tick;    *)
(* the other callers, the worker and crashes of the server go on meanwhile.*)
(***************************************************************************)
EXTENDS NotificationService

CONSTANTS
    Waiter,      \* the server call that serves the waiting program
    PollTimeout  \* the operation timeout, in ticks

ASSUME WaiterAssumption == Waiter \in Clients /\ PollTimeout \in Nat \ {0}

VARIABLE wait    \* where the program is, its notification, the last response

clientVars == <<vars, wait>>

Ended == {"sent", "errored", "timeout", "failed"}

NotWaiting == [at |-> "idle", id |-> None, response |-> "UNKNOWN", waited |-> 0]

InitClient == Init /\ wait = NotWaiting

\* A faulty form of the conversion below: what is not queued has been sent.
mapModelToGrpcResponseSettled(status) ==
    CASE status = "queued"    -> "QUEUED"
      [] status = "cancelled" -> "CANCELLED"
      [] OTHER                -> "SENT"

\* The status of a response; a status without a counterpart is UNKNOWN.
mapModelToGrpcResponse(status) ==
    CASE status = "queued"    -> "QUEUED"
      [] status = "sent"      -> "SENT"
      [] status = "cancelled" -> "CANCELLED"
      [] status = "errored"   -> "ERRORED"
      [] OTHER                -> "UNKNOWN"

-----------------------------------------------------------------------------
(* The call that sends *)

SendNotificationAndWait(id, delay) ==
    /\ wait.at = "idle"
    /\ BeginSend(Waiter, id, delay)
    /\ wait' = [wait EXCEPT !.at = "sending", !.id = id]

\* The handler returns; the answer is of use only to a program that waits.
SendReturns ==
    /\ Create(Waiter)
    /\ wait' = IF wait.at = "sending"
               THEN [wait EXCEPT !.at = "examine",
                                 !.response = mapModelToGrpcResponse(draft[Waiter].status)]
               ELSE wait

GiveUp == wait' = [wait EXCEPT !.at = IF @ = "sending" THEN "failed" ELSE @]

SendFails == CreateFails(Waiter) /\ GiveUp

\* The deadline of the call passes, or its connection breaks.
SendDeadline == wait.at = "sending" /\ GiveUp /\ UNCHANGED vars

-----------------------------------------------------------------------------
(* The loop *)

\* A faulty form of the loop's head below: the time is looked at only while
\* the notification is queued.
ExamineQueuedOnly ==
    /\ wait.at = "examine"
    /\ wait' = [wait EXCEPT !.at =
            CASE wait.response = "SENT"    -> "sent"
              [] wait.response = "ERRORED" -> "errored"
              [] wait.response = "QUEUED" /\ wait.waited > PollTimeout -> "timeout"
              [] OTHER                     -> "asleep"]
    /\ UNCHANGED vars

Examine ==
    /\ wait.at = "examine"
    /\ wait' = [wait EXCEPT !.at =
            CASE wait.response = "SENT"    -> "sent"
              [] wait.response = "ERRORED" -> "errored"
              [] wait.response \notin {"SENT", "ERRORED"} /\ wait.waited > PollTimeout -> "timeout"
              [] OTHER                     -> "asleep"]
    /\ UNCHANGED vars

GetNotificationStatus ==
    /\ wait.at = "poll"
    /\ Resolves(wait.id)
    /\ row[wait.id].status # "none"
    /\ wait' = [wait EXCEPT !.at = "examine",
                            !.response = mapModelToGrpcResponse(row[wait.id].status)]
    /\ UNCHANGED vars

\* The server is down, the tenant or the row is gone, or the call times out.
GetNotificationStatusFails ==
    /\ wait.at = "poll"
    /\ wait' = [wait EXCEPT !.at = "failed"]
    /\ UNCHANGED vars

\* One tick is one interval of the loop.
ClientTick ==
    /\ Tick
    /\ wait' = IF wait.at \in {"examine", "asleep", "poll"}
               THEN [wait EXCEPT !.at = IF @ = "asleep" THEN "poll" ELSE @,
                                 !.waited = IF @ > PollTimeout THEN @ ELSE @ + 1]
               ELSE wait

-----------------------------------------------------------------------------
Client ==
    \/ \E id \in Ids, delay \in Delays : SendNotificationAndWait(id, delay)
    \/ SendDeadline
    \/ Examine
    \/ GetNotificationStatus
    \/ GetNotificationStatusFails

ClientNext ==
    \/ Client
    \/ SendReturns
    \/ SendFails
    \/ ClientTick
    \/ CrashRestart /\ GiveUp
    \/ /\ \/ \E c \in Clients \ {Waiter} : SendNotification(c) \/ EditNotification(c)
          \/ \E answer \in Answers : Dispatch(Waiter, answer)
          \/ RetryWorker
       /\ UNCHANGED wait

\* In addition to the fairness of the server, the program goes on once it has
\* been started, and its calls end.
ClientFairness ==
    /\ WF_clientVars(RetryWorker /\ UNCHANGED wait)
    /\ WF_clientVars(ClientTick)
    /\ WF_clientVars(wait.at # "idle" /\ Client)
    /\ WF_clientVars(pc[Waiter] # "idle" /\
            (SendReturns \/ SendFails \/ ((\E answer \in Answers : Dispatch(Waiter, answer))
                                          /\ UNCHANGED wait)))
    /\ \A c \in Clients \ {Waiter} :
        WF_clientVars(pc[c] # "idle" /\ (SendNotification(c) \/ EditNotification(c))
                      /\ UNCHANGED wait)

-----------------------------------------------------------------------------
(* Properties *)

\* The program is told that its message was sent only if the provider took
\* it, however many answers, crashes and edits lie between the two.
WaitTellsTruth ==
    wait.at = "sent" => delivered[wait.id] >= 1

\* Every wait ends: with the notification sent or errored, with an error, or
\* after the timeout, also when somebody else cancels the notification.  (A
\* wait that has begun never is idle again.)
WaitEnds == []<>(wait.at \in Ended \cup {"idle"})
=============================================================================
