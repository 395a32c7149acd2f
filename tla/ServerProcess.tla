--------------------------- MODULE ServerProcess ---------------------------
(***************************************************************************)
(* The life of a server process (cmd/server/main.go): runServer loads the  *)
(* configuration, bootstraps the tenants, starts the retry worker, the two *)
(* SMTP servers and the HTTP server in goroutines of their own, and ends   *)
(* in the gRPC server.  An error of one of the goroutines exits the        *)
(* process at once; an error of runServer itself first runs the deferred   *)
(* functions, latest first.  The requests the process answers meanwhile    *)
(* are those of TenantAccess.                                              *)
(***************************************************************************)
EXTENDS TenantAccess, ServerConfig

CONSTANTS
    Files,          \* configuration files the process may be started with
    Probed,         \* bound: those under which it is sent requests
    Rebootstrapped  \* bound: those under which it is bootstrapped again

ASSUME FilesAssumption ==
    Files \subseteq ConfigFile /\ Rebootstrapped \subseteq Probed /\ Probed \subseteq Files

VARIABLES
    stage,       \* the part of runServer that comes next, or "down"
    file,        \* the file of the last start
    refusal,     \* why that process ended by itself, "none" unless it did
    ready,       \* the gRPC port is bound and the service reported ready
    deferred,    \* deferred calls of runServer, the latest last
    cancelled,   \* contexts that are cancelled
    submission,  \* the goroutine of smtpsubmission.Server.Start
    forwarding,  \* the goroutine of smtpforwarding.Server.Start
    web,         \* the goroutine of the HTTP server
    \* history
    expired      \* the HTTP server was given up on with requests in flight

mainVars == <<stage, file, refusal, ready, deferred, cancelled, expired>>
serverVars == <<submission, forwarding, web>>
processVars == <<mainVars, serverVars, vars>>

SubmissionOff ==
    [at |-> "off", open |-> {}, accepting |-> {}, errChan |-> <<>>, completed |-> 0]

NoServers ==
    /\ submission' = SubmissionOff
    /\ forwarding' = "off"
    /\ web' = "off"

ProcessInit ==
    /\ Init
    /\ stage = "down"
    /\ file = None
    /\ refusal = "none"
    /\ ready = FALSE
    /\ deferred = <<>>
    /\ cancelled = {}
    /\ submission = SubmissionOff
    /\ forwarding = "off"
    /\ web = "off"
    /\ expired = FALSE

-----------------------------------------------------------------------------
(* runServer *)

\* Nothing has been deferred yet: the process just ends.
Refuse(why) ==
    /\ refusal' = why
    /\ UNCHANGED <<stage, deferred, vars>>

runServer(f) ==
    /\ stage = "down"
    /\ file' = f
    /\ cancelled' = {}
    /\ expired' = FALSE
    /\ UNCHANGED <<ready, serverVars>>
    /\ \/ ~LoadConfig(f) /\ Refuse("config")
       \/ LoadConfig(f) /\ Refuse("fault")  \* the database cannot be opened
       \/ LoadConfig(f) /\ "masterKey" \notin f.usable /\ Refuse("masterKey")
       \/ /\ LoadConfig(f) /\ "masterKey" \in f.usable
          /\ Start(TenantsToStore(f))
          /\ IF up'
             THEN stage' = "submission" /\ refusal' = "none" /\ deferred' = <<"worker">>
             ELSE refusal' = "bootstrap" /\ UNCHANGED <<stage, deferred>>

Return(why) ==
    /\ stage' = "returning"
    /\ refusal' = why
    /\ UNCHANGED <<file, ready, deferred, cancelled, expired, vars>>

Continue(next, cleanup) ==
    /\ stage' = next
    /\ deferred' = deferred \o cleanup
    /\ ready' = (next = "serving")
    /\ UNCHANGED <<file, refusal, cancelled, expired, vars>>

StartSubmission ==
    /\ stage = "submission"
    /\ UNCHANGED <<forwarding, web>>
    /\ \/ /\ ~file.submission
          /\ Continue("forwarding", <<>>) /\ UNCHANGED submission
       \/ /\ file.submission /\ ~SubmissionServerBuilt(file)
          /\ Return("server") /\ UNCHANGED submission
       \/ /\ file.submission /\ SubmissionServerBuilt(file)
          /\ Continue("forwarding", <<"submission">>)
          /\ submission' = [SubmissionOff EXCEPT !.at = "plain"]

\* What NewServer and the forwarder ask for was asked of the configuration.
StartForwarding ==
    /\ stage = "forwarding"
    /\ UNCHANGED <<submission, web>>
    /\ IF file.forwarding
       THEN Continue("web", <<"forwarding">>) /\ forwarding' = "binding"
       ELSE Continue("web", <<>>) /\ UNCHANGED forwarding

StartWeb ==
    /\ stage = "web"
    /\ UNCHANGED <<submission, forwarding>>
    /\ \/ /\ ~webEnabled(file)
          /\ Continue("listen", <<>>) /\ UNCHANGED web
       \/ /\ webEnabled(file) /\ "trustedProxies" \notin file.usable
          /\ Return("server") /\ UNCHANGED web
       \/ /\ webEnabled(file) /\ "trustedProxies" \in file.usable
          /\ Continue("listen", <<"web">>) /\ web' = "starting"

\* The port is bound before the service is reported ready and served.
Listen ==
    /\ stage = "listen"
    /\ Continue("serving", <<>>) \/ Return("fault")
    /\ UNCHANGED serverVars

serveGRPCFails ==
    /\ stage = "serving"
    /\ Return("fault")
    /\ UNCHANGED serverVars

\* A faulty form of the choice below: the earliest deferred call is next.
NextDeferredFirst == Head(deferred)

NextDeferred == deferred[Len(deferred)]

Pop(d) == SelectSeq(deferred, LAMBDA e : e # d)

\* The contexts are cancelled; Shutdown closes the HTTP server to new requests.
RunDeferred ==
    /\ stage = "returning"
    /\ deferred # <<>>
    /\ \/ /\ NextDeferred # "web"
          /\ cancelled' = cancelled \cup {NextDeferred}
          /\ deferred' = Pop(NextDeferred)
          /\ UNCHANGED <<stage, web>>
       \/ /\ NextDeferred = "web"
          /\ stage' = "shutdown"
          /\ web' = IF web = "failed" THEN web ELSE "closed"
          /\ UNCHANGED <<cancelled, deferred>>
    /\ UNCHANGED <<file, refusal, ready, expired, submission, forwarding, vars>>

HttpInFlight == \E c \in Calls : call[c].kind \in {"http", "host"}

\* It returns when the requests are answered, or after five seconds.
ShutdownReturns ==
    /\ stage = "shutdown"
    /\ stage' = "returning"
    /\ deferred' = Pop("web")
    /\ expired' = HttpInFlight
    /\ UNCHANGED <<file, refusal, ready, cancelled, serverVars, vars>>

ProcessEnds ==
    /\ Stop
    /\ stage' = "down"
    /\ ready' = FALSE
    /\ deferred' = <<>>
    /\ NoServers
    /\ UNCHANGED <<file, cancelled, expired>>

Exit ==
    /\ stage = "returning" /\ deferred = <<>>
    /\ ProcessEnds
    /\ UNCHANGED refusal

\* os.Exit from a goroutine runs no deferred call.
ExitByServer ==
    /\ submission.at = "failed" \/ forwarding = "failed" \/ web = "failed"
    /\ ProcessEnds
    /\ refusal' = "fault"

\* No signal is handled.
Kill == ProcessEnds /\ refusal' = "none"

-----------------------------------------------------------------------------
(* The submission server's listeners *)

Addresses == file.given \cap Listeners

SubmissionStep(new) ==
    /\ submission' = new
    /\ UNCHANGED <<mainVars, forwarding, web, vars>>

ListenPlain ==
    /\ submission.at = "plain"
    /\ \/ /\ "submission.listenAddr" \notin Addresses
          /\ SubmissionStep([submission EXCEPT !.at = "tls"])
       \/ /\ "submission.listenAddr" \in Addresses
          /\ \/ SubmissionStep([submission EXCEPT !.at = "tls",
                                                  !.open = {"submission.listenAddr"}])
             \/ SubmissionStep([submission EXCEPT !.at = "failed"])

ServeListeners ==
    SubmissionStep([submission EXCEPT !.at = "serving", !.open = Addresses,
                                      !.accepting = Addresses])

\* A faulty form of the step below: the listener that is open stays open.
ListenTLSKeepsPlain ==
    /\ submission.at = "tls"
    /\ \/ ServeListeners
       \/ /\ "submission.tlsListenAddr" \in Addresses
          /\ SubmissionStep([submission EXCEPT !.at = "failed"])

ListenTLS ==
    /\ submission.at = "tls"
    /\ \/ ServeListeners
       \/ /\ "submission.tlsListenAddr" \in Addresses
          /\ SubmissionStep([submission EXCEPT !.at = "failed", !.open = {}])

\* Accept fails because the listener is closed, or by itself.
ServeEnds(l) ==
    /\ l \in submission.accepting
    /\ SubmissionStep(
        [submission EXCEPT
            !.accepting = @ \ {l},
            !.errChan = Append(@, IF "submission" \in cancelled THEN "nil"
                                  ELSE IF l \in submission.open THEN "error" ELSE "closed")])

CloseOnCancel ==
    /\ "submission" \in cancelled
    /\ submission.at \in {"serving", "draining"} /\ submission.open # {}
    /\ SubmissionStep([submission EXCEPT !.open = {}])

\* A faulty form of the test below: one result too many is waited for.
CompletedLate == submission.completed = Cardinality(Addresses)

Completed == submission.completed + 1 = Cardinality(Addresses)

Received == [submission EXCEPT !.errChan = Tail(@), !.completed = @ + 1]

\* The first error closes every listener; a listener that failed by itself
\* once the context was cancelled may be left to the end of the process.
Receive ==
    /\ submission.at = "serving" /\ submission.errChan # <<>>
    /\ IF Head(submission.errChan) = "error"
       THEN SubmissionStep([Received EXCEPT !.at = IF Completed THEN "failed" ELSE "draining",
                                            !.open = {}])
       ELSE SubmissionStep([Received EXCEPT !.at = IF Completed THEN "returned" ELSE "serving"])

Drain ==
    /\ submission.at = "draining" /\ submission.errChan # <<>>
    /\ SubmissionStep([Received EXCEPT !.at = IF Completed THEN "failed" ELSE "draining"])

-----------------------------------------------------------------------------
(* The forwarding server's and the HTTP server's *)

ForwardingStep(from, to) ==
    /\ forwarding = from
    /\ forwarding' = to
    /\ UNCHANGED <<mainVars, submission, web, vars>>

ForwardingListens == ForwardingStep("binding", "serving") \/ ForwardingStep("binding", "failed")

ForwardingCloses == "forwarding" \in cancelled /\ ForwardingStep("serving", "closed")

ForwardingServeEnds ==
    \/ ForwardingStep("closed", "returned")
    \/ ForwardingStep("serving", IF "forwarding" \in cancelled THEN "returned" ELSE "failed")

WebStep(from, to) ==
    /\ web = from
    /\ web' = to
    /\ UNCHANGED <<mainVars, submission, forwarding, vars>>

ListenAndServe == WebStep("starting", "serving") \/ WebStep("starting", "failed")

WebServeFails == WebStep("serving", "failed")

-----------------------------------------------------------------------------
(* Requests reach a process whose server listens; connections of the gRPC
   server outlive its listener. *)

Requested(c) ==
    /\ file \in Probed
    /\ \/ web = "serving" /\ \E u \in Users, t \in Tenants : BeginHttp(c, u, t)
       \/ web = "serving" /\ \E h \in Hosts : BeginHost(c, h)
       \/ ready /\ \E t \in Tenants : BeginGrpc(c, t)
    /\ UNCHANGED <<mainVars, serverVars>>

Repository ==
    /\ \/ file \in Rebootstrapped /\ \E cfg \in Configs : Rebootstrap(cfg)
       \/ invalidateRegisteredRepositories
       \/ \E c \in Calls : Advance(c)
    /\ UNCHANGED <<mainVars, serverVars>>

MainStep ==
    \/ StartSubmission
    \/ StartForwarding
    \/ StartWeb
    \/ Listen
    \/ RunDeferred
    \/ ShutdownReturns
    \/ Exit

ProcessNext ==
    \/ \E f \in Files : runServer(f)
    \/ MainStep
    \/ serveGRPCFails
    \/ ExitByServer
    \/ Kill
    \/ ListenPlain
    \/ ListenTLS
    \/ \E l \in Listeners : ServeEnds(l)
    \/ CloseOnCancel
    \/ Receive
    \/ Drain
    \/ ForwardingListens
    \/ ForwardingCloses
    \/ ForwardingServeEnds
    \/ ListenAndServe
    \/ WebServeFails
    \/ Repository
    \/ \E c \in Calls : Requested(c)

\* What a goroutine does without waiting for anybody: runServer, the loop of
\* serveListeners, the one that waits for the context, Accept once its
\* listener is closed.  The wait in Shutdown ends by its timer.
Proceed ==
    \/ MainStep
    \/ ExitByServer
    \/ Receive
    \/ Drain
    \/ CloseOnCancel
    \/ \E l \in Listeners \ submission.open : ServeEnds(l)

\* Goroutines are scheduled fairly; less is enough, that one of those that
\* can proceed does.  Nothing says that a server ever fails, that a port is
\* bound or that a request is answered.
ProcessFairness == WF_processVars(Proceed)

ProcessSpec == ProcessInit /\ [][ProcessNext]_processVars /\ ProcessFairness

-----------------------------------------------------------------------------
(* Properties *)

\* When the submission server's Start has returned, none of its accept loops
\* runs on and no result of one is unread, and after an error no listener is
\* left open, whichever of the listeners failed, in whichever order, and
\* whether or not the process was stopping (Start, serveListeners).
SubmissionStopsWhole ==
    submission.at \in {"returned", "failed"} =>
        /\ submission.accepting = {}
        /\ submission.errChan = <<>>
        /\ submission.at = "failed" => submission.open = {}

\* When runServer returns, requests over HTTP are answered, or given up on
\* after the grace time, before anything they may need is cancelled, and none
\* is taken any more (the order of the deferred calls in runServer).
OrderlyReturn ==
    up /\ cancelled # {} =>
        /\ web # "serving"
        /\ HttpInFlight => expired

Failed ==
    \/ stage \in {"returning", "shutdown"}
    \/ \E i \in DOMAIN submission.errChan : submission.errChan[i] = "error"
    \/ submission.at \in {"draining", "failed"}
    \/ forwarding = "failed"
    \/ web = "failed"

\* A process that starts gets to serve or ends, and one of whose servers has
\* failed ends: it never stays up with a part of it dead (runServer,
\* startSMTPSubmission, startSMTPForwarding, startHTTPServer).
FailureEndsProcess ==
    /\ []<>(stage \in {"down", "serving"})
    /\ Failed ~> stage = "down"
=============================================================================
