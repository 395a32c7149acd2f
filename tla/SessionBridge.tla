---------------------------- MODULE SessionBridge ----------------------------
(***************************************************************************)
(* The session bridge of the browser UI (web/js/app.js): how the documents *)
(* of the site follow the session of the header, a web component that is   *)
(* loaded from elsewhere.                                                  *)
(*                                                                         *)
(* The header reports the session by events, sets its own attributes, and  *)
(* answers one request for a snapshot, at once or later.  The bridge       *)
(* listens from the moment its script runs and is started once the header  *)
(* is ready.  A report of no session is believed only after it has stood   *)
(* for a while; no report at all is an error after a while.  The landing   *)
(* page sends readers with a session to the event log, protected pages     *)
(* send those without to the landing page; until the next document is      *)
(* there, the old one goes on.                                             *)
(***************************************************************************)
EXTENDS Naturals

CONSTANTS
    ProtectedPages,
    MaxSessions,     \* bound on sign-ins and sign-outs
    MaxUpsets        \* bound on what goes wrong with the header

ASSUME BridgeAssumption ==
    /\ "event-log" \in ProtectedPages /\ "landing" \notin ProtectedPages
    /\ MaxSessions \in Nat /\ MaxUpsets \in Nat

VARIABLES
    session,   \* the reader has a session
    sessions,
    upsets,
    doc        \* the document

bridgeVars == <<session, sessions, upsets, doc>>

\* header: its attributes; untold: it has yet to report them; snapshot: "none",
\* "asked", or what it answers.
NewDocument(page) ==
    [page |-> page, header |-> "unknown", untold |-> FALSE,
     snapshot |-> "none",
     started |-> FALSE, hasResolved |-> FALSE, callbacks |-> FALSE,
     isAuthenticated |-> FALSE, statusTimer |-> FALSE, settleTimer |-> FALSE,
     leavingFor |-> "none",
     failed |-> FALSE, overtaken |-> FALSE]  \* history

BridgeInit ==
    /\ session \in BOOLEAN
    /\ sessions = 0
    /\ upsets = 0
    /\ \E page \in ProtectedPages \cup {"landing"} : doc = NewDocument(page)

isProtectedPage(d) == d.page \in ProtectedPages

-----------------------------------------------------------------------------
(* What the handlers do to the document *)

Assign(d, page) == [d EXCEPT !.leavingFor = IF @ = "none" THEN page ELSE @]

\* The shell hears of every status, and of a session that has ended.
redirectToLanding(d) ==
    IF isProtectedPage(d) /\ ~d.isAuthenticated THEN Assign(d, "landing") ELSE d

Resolve(d, authenticated) ==
    [d EXCEPT !.hasResolved = TRUE, !.settleTimer = FALSE, !.statusTimer = FALSE,
              !.isAuthenticated = authenticated]

\* onAuthenticated of the landing page; onUnauthenticated repeats the shell's.
onAuthenticated(d) == IF d.callbacks /\ d.page = "landing" THEN Assign(d, "event-log") ELSE d

handleHeaderAuthenticated(d) == onAuthenticated(Resolve(d, TRUE))

\* A faulty form of the step below: the page stays.
ClearOnly(d) == Resolve(d, FALSE)

resolveUnauthenticated(d) == redirectToLanding(Resolve(d, FALSE))

handleHeaderUnauthenticated(d) == [d EXCEPT !.settleTimer = TRUE]

setStatusError(d) == redirectToLanding(d)

-----------------------------------------------------------------------------
Upset == upsets < MaxUpsets /\ upsets' = upsets + 1

Document(d) == doc' = d /\ UNCHANGED <<session, sessions>>

\* The reader signs in or out, here or in another window.
SessionChanges ==
    /\ sessions < MaxSessions
    /\ sessions' = sessions + 1
    /\ session' = ~session
    /\ UNCHANGED <<upsets, doc>>

Name(authenticated) == IF authenticated THEN "authenticated" ELSE "unauthenticated"

HeaderLearns ==
    /\ doc.header # Name(session)
    /\ Document([doc EXCEPT !.header = Name(session), !.untold = TRUE])
    /\ UNCHANGED upsets

HeaderReports ==
    /\ doc.untold /\ doc.header # "unknown"
    /\ LET d == [doc EXCEPT !.untold = FALSE]
       IN Document(IF d.header = "authenticated" THEN handleHeaderAuthenticated(d)
                   ELSE handleHeaderUnauthenticated(d))
    /\ UNCHANGED upsets

\* While it restores a session it may report for a moment that there is none.
HeaderWavers ==
    /\ Upset
    /\ session
    /\ Document(handleHeaderUnauthenticated([doc EXCEPT !.untold = TRUE]))

\* An error event ends the wait of a bridge that has heard nothing.
HeaderErrs ==
    /\ ~doc.hasResolved /\ Upset
    /\ Document([setStatusError(doc) EXCEPT !.statusTimer = FALSE])

-----------------------------------------------------------------------------
(* start and fail, once the header is ready or has failed to load *)

\* A faulty form of the step below: what was reported before is not told.
StartUntold ==
    /\ ~doc.started
    /\ \/ /\ doc.hasResolved
          /\ Document([doc EXCEPT !.started = TRUE, !.callbacks = TRUE])
       \/ /\ ~doc.hasResolved
          /\ Document([doc EXCEPT !.started = TRUE, !.callbacks = TRUE,
                                  !.statusTimer = TRUE, !.snapshot = "asked"])
    /\ UNCHANGED upsets

startSession ==
    /\ ~doc.started
    /\ LET d == [doc EXCEPT !.started = TRUE, !.callbacks = TRUE] IN
       \/ /\ d.hasResolved
          /\ Document(IF d.isAuthenticated THEN onAuthenticated(d) ELSE redirectToLanding(d))
       \/ /\ ~d.hasResolved
          /\ Document([d EXCEPT !.statusTimer = TRUE, !.snapshot = "asked"])
    /\ UNCHANGED upsets

handleAuthError ==
    /\ ~doc.started /\ Upset
    /\ Document(redirectToLanding([Resolve(doc, FALSE) EXCEPT !.started = TRUE, !.failed = TRUE]))

-----------------------------------------------------------------------------
(* applyAuthSnapshotResult *)

\* The header answers what it shows or what it has just learnt.
SnapshotTaken ==
    /\ doc.snapshot = "asked"
    /\ \E seen \in {doc.header, Name(session)} : Document([doc EXCEPT !.snapshot = seen])
    /\ UNCHANGED upsets

\* overtaken: the header has reported the session's end since the snapshot.
SnapshotAnswered ==
    /\ doc.snapshot \in {"authenticated", "unauthenticated", "unknown"}
    /\ LET d == [doc EXCEPT !.snapshot = "none"] IN
       \/ /\ d.hasResolved \/ doc.snapshot = "unknown"
          /\ Document(d)
       \/ /\ ~d.hasResolved /\ doc.snapshot = "authenticated"
          /\ Document([handleHeaderAuthenticated(d) EXCEPT
                           !.overtaken = d.header = "unauthenticated" /\ ~d.untold])
       \/ /\ ~d.hasResolved /\ doc.snapshot = "unauthenticated"
          /\ Document(handleHeaderUnauthenticated(d))
    /\ UNCHANGED upsets

SnapshotFails ==
    /\ doc.snapshot # "none" /\ Upset
    /\ LET d == [doc EXCEPT !.snapshot = "none"]
       IN Document(IF d.hasResolved THEN d ELSE [setStatusError(d) EXCEPT !.statusTimer = FALSE])

-----------------------------------------------------------------------------
(* Timers *)

\* A faulty form of the step below: the header is not asked again.
SettleUnread ==
    /\ doc.settleTimer
    /\ Document(resolveUnauthenticated(doc))
    /\ UNCHANGED upsets

settleTimerFires ==
    /\ doc.settleTimer
    /\ Document(IF doc.header = "authenticated" THEN handleHeaderAuthenticated(doc)
                ELSE resolveUnauthenticated(doc))
    /\ UNCHANGED upsets

\* The header took too long.
statusTimerFires ==
    /\ doc.statusTimer /\ ~doc.hasResolved /\ Upset
    /\ Document([setStatusError(doc) EXCEPT !.statusTimer = FALSE])

DocumentLoads ==
    /\ doc.leavingFor # "none"
    /\ Document(NewDocument(doc.leavingFor))
    /\ UNCHANGED upsets

-----------------------------------------------------------------------------
\* Timers, promises and events that come sooner or later.
Bridge ==
    \/ HeaderLearns
    \/ HeaderReports
    \/ startSession
    \/ SnapshotTaken
    \/ SnapshotAnswered
    \/ settleTimerFires
    \/ DocumentLoads

BridgeNext ==
    \/ SessionChanges
    \/ Bridge
    \/ HeaderWavers
    \/ HeaderErrs
    \/ handleAuthError
    \/ SnapshotFails
    \/ statusTimerFires

-----------------------------------------------------------------------------
(* Properties *)

\* What a protected page sees of the session: a document that is being left
\* has none any more.
BridgeAuth ==
    IF ~isProtectedPage(doc) \/ doc.leavingFor # "none" THEN "out"
    ELSE IF doc.isAuthenticated THEN "in" ELSE "hydrating"

AbstractSession == INSTANCE PageSession WITH auth <- BridgeAuth

\* In a settled site a reader with a session is on a protected page that knows
\* it, one without on the landing page.
FollowsHeader ==
    \/ doc.failed \/ doc.overtaken
    \/ session /\ isProtectedPage(doc) /\ doc.isAuthenticated /\ doc.leavingFor = "none"
    \/ ~session /\ ~isProtectedPage(doc) /\ ~doc.isAuthenticated /\ doc.leavingFor = "none"
=============================================================================
