----------------------------- MODULE SendCommand -----------------------------
(***************************************************************************)
(* What becomes of one "send" of the command-line client                   *)
(* (cmd/client/internal/command/root.go, pkg/attachments): the client      *)
(* refuses it or makes a request of it, gRPC carries messages up to a      *)
(* size, and the server validates the request again                        *)
(* (internal/model/notification_request.go).  Texts are blank or not; a    *)
(* message and a file have a size.                                         *)
(***************************************************************************)
EXTENDS Naturals, Sequences

CONSTANTS
    maxNotificationAttachmentCount,
    maxNotificationAttachmentSizeBytes,
    maxNotificationAttachmentsTotalBytes,
    MaxMessageSizeBytes,   \* of gRPC, in both directions
    MaxText                \* bound on the size of a text

ASSUME LimitsAssumption ==
    /\ maxNotificationAttachmentCount \in Nat
    /\ maxNotificationAttachmentSizeBytes \in Nat
    /\ maxNotificationAttachmentsTotalBytes \in Nat /\ MaxMessageSizeBytes \in Nat
    /\ maxNotificationAttachmentsTotalBytes < MaxMessageSizeBytes
    /\ MaxText \in Nat

\* A path names a file of some size, or nothing that can be read.
Files == [read : {TRUE}, size : 0..maxNotificationAttachmentSizeBytes + 1]
             \cup [read : {FALSE}, size : {0}]

CommandLine ==
    [settings  : {"complete", "incomplete"},   \* token, tenant, positive timeouts
     type      : {"", "email", "sms", "fax"},
     recipient : {"blank", "given"},
     subject   : {"blank", "given"},
     message   : 0..MaxText,
     schedule  : {"none", "time", "garbled"},
     files     : UNION {[1..n -> Files] : n \in 0..maxNotificationAttachmentCount + 1}]

Total(attachments) ==
    LET upTo[n \in 0..Len(attachments)] ==
            IF n = 0 THEN 0 ELSE upTo[n - 1] + attachments[n].size
    IN upTo[Len(attachments)]

-----------------------------------------------------------------------------
(* The client *)

parseNotificationType(input) ==
    CASE input \in {"", "email"} -> "EMAIL"
      [] input = "sms" -> "SMS"
      [] OTHER -> "invalid"

\* A faulty form of the check below: empty files are sent.
LoadableUnlessMissing(files) == \A i \in DOMAIN files : files[i].read

\* attachments.Load: every file is read and has a content; its name is the
\* last element of the path, its type is given, inferred or the default.
Loadable(files) == \A i \in DOMAIN files : files[i].read /\ files[i].size > 0

Compose(c) ==
    [type        |-> parseNotificationType(c.type),
     recipient   |-> c.recipient,
     message     |-> c.message,
     schedule    |-> c.schedule,
     attachments |-> c.files]

\* RunE of the command: whether the request is sent.
Sends(c) ==
    /\ c.settings = "complete"
    /\ parseNotificationType(c.type) # "invalid"
    /\ c.recipient = "given"
    /\ c.message > 0
    /\ parseNotificationType(c.type) = "EMAIL" => c.subject = "given"
    /\ Loadable(c.files)
    /\ parseNotificationType(c.type) = "SMS" => c.files = <<>>
    /\ c.schedule # "garbled"

-----------------------------------------------------------------------------
(* gRPC and the server *)

RequestSize(r) == r.message + Total(r.attachments)

\* The response repeats the request and adds identifiers, status and times.
ResponseSize(r) == RequestSize(r) + 1

\* What is wrong with the attachments, in the order of the checks; of several
\* faulty ones the first decides.
normalizeNotificationAttachments(r) ==
    LET size(i) == r.attachments[i].size
        fits(i) == size(i) \in 1..maxNotificationAttachmentSizeBytes
        indices == 1..Len(r.attachments)
    IN
    IF r.attachments = <<>> THEN "none"
    ELSE IF r.type # "EMAIL" THEN "attachments_not_allowed"
    ELSE IF Len(r.attachments) > maxNotificationAttachmentCount THEN "count_exceeded"
    ELSE IF \E i \in indices : size(i) = 0 /\ \A j \in 1..i - 1 : fits(j) THEN "data_required"
    ELSE IF \E i \in indices : ~fits(i) THEN "size_exceeded"
    ELSE IF Total(r.attachments) > maxNotificationAttachmentsTotalBytes
         THEN "total_size_exceeded"
    ELSE "none"

\* SendNotification and NewNotificationRequest: the error, or "none".
NewNotificationRequest(r) ==
    IF r.type = "invalid" THEN "invalid_type"
    ELSE IF r.schedule = "garbled" THEN "invalid_schedule"
    ELSE IF r.recipient = "blank" THEN "recipient_required"
    ELSE IF r.message = 0 THEN "message_required"
    ELSE normalizeNotificationAttachments(r)

\* The call reaches the handler of the service.
Admitted(c) ==
    /\ Sends(c)
    /\ RequestSize(Compose(c)) <= MaxMessageSizeBytes
    /\ NewNotificationRequest(Compose(c)) = "none"
=============================================================================
