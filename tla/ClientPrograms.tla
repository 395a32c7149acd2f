--------------------------- MODULE ClientPrograms ---------------------------
(***************************************************************************)
(* The programs on the other side of the service: one that uses the Go     *)
(* client to send and wait, and the command-line client, which sends once. *)
(* What becomes of a command depends on nothing but the command, so it is  *)
(* run before the others do anything.                                      *)
(***************************************************************************)
EXTENDS NotificationClient, SendCommand

CONSTANT Command  \* the server call that serves the command-line client

ASSUME CommandAssumption == Command \in Clients \ {Waiter}

VARIABLE command  \* the command that is to be run, if any

programVars == <<clientVars, command>>

InitPrograms == InitClient /\ command \in CommandLine \cup {None}

\* An admitted command is a call of SendNotification, which may refuse it for
\* its tenant or a disabled channel; any other has no effect.
RunCommand ==
    /\ command # None
    /\ command' = None
    /\ \/ /\ Admitted(command)
          /\ \E id \in Ids, delay \in Delays :
                /\ delay > 0 => command.schedule = "time"
                /\ BeginSend(Command, id, delay)
       \/ /\ ~Admitted(command) \/ \E id \in Ids : ~Resolves(id) \/ id \in SenderDisabled
          /\ UNCHANGED vars
    /\ UNCHANGED wait

ProgramsNext ==
    \/ RunCommand
    \/ command = None /\ ClientNext /\ UNCHANGED command

\* A program that is started runs.
ProgramsFairness == ClientFairness /\ WF_programVars(RunCommand)

FairProgramsSpec == InitPrograms /\ [][ProgramsNext]_programVars /\ ProgramsFairness

-----------------------------------------------------------------------------
(* Properties *)

Limits == {"count_exceeded", "size_exceeded", "total_size_exceeded"}

\* Client and server agree on what a request is.  What the command-line client
\* sends, the server refuses only for the number and size of attachments, which
\* the client does not look at.  What the client refuses, the server would
\* refuse, but for an e-mail without a subject, incomplete settings and files
\* that cannot be read.  And what is admitted is small enough to be answered,
\* unless the text alone fills what the attachments leave (RunE,
\* NewNotificationRequest, MaxMessageSizeBytes).
CommandMeetsServer ==
    command # None =>
        LET r == Compose(command)
            error == NewNotificationRequest(r)
        IN  /\ Sends(command) => error \in Limits \cup {"none"}
            /\ ~Sends(command) /\ error = "none" =>
                    \/ command.settings = "incomplete"
                    \/ r.type = "EMAIL" /\ command.subject = "blank"
                    \/ ~Loadable(command.files)
            /\ Admitted(command)
               /\ r.message < MaxMessageSizeBytes - maxNotificationAttachmentsTotalBytes =>
                    ResponseSize(r) <= MaxMessageSizeBytes
=============================================================================
