-------------------------------- MODULE WebUI --------------------------------
(***************************************************************************)
(* The browser UI: the documents of the site share nothing but the server  *)
(* and the session, so each of its parts is followed on its own: the event *)
(* log, the sender identities page, and the session bridge, which is shown *)
(* to give every protected page the session that the other two rely on.    *)
(***************************************************************************)
EXTENDS EventLog, SenderPage, SessionBridge

VARIABLE part  \* the part that is followed

\* The frames of the three parts.
beyondLog == <<senderVars, bridgeVars, part>>
beyondSender == <<status, tenants, selectedTenantId, statusFilter, searchQuery, searchTimer,
                  table, network, tenantLoad, edits, bridgeVars, part>>
beyondBridge == <<vars, senderVars, part>>
web == <<vars, senderVars, bridgeVars, part>>

WebInit ==
    /\ part \in {"event-log", "smtp-relay", "session"}
    /\ Init
    /\ SenderInit
    /\ BridgeInit

WebNext ==
    \/ part = "event-log" /\ Next /\ UNCHANGED beyondLog
    \/ part = "smtp-relay" /\ SenderNext /\ UNCHANGED beyondSender
    \/ part = "session" /\ BridgeNext /\ UNCHANGED beyondBridge

\* What goes on by itself: answers, timers, and events of the header.
Progress ==
    \/ part = "event-log" /\ LogProgress /\ UNCHANGED beyondLog
    \/ part = "smtp-relay" /\ SenderNetwork /\ UNCHANGED beyondSender
    \/ part = "session" /\ Bridge /\ UNCHANGED beyondBridge

WebFairness == WF_web(Progress)

WebSpec == WebInit /\ [][WebNext]_web /\ WebFairness

-----------------------------------------------------------------------------
(* Properties *)

\* When nothing is under way the page shows what the server holds: the list of
\* identities with their forwarding, the status of every domain, and in the
\* dialog credentials that are valid.  The exceptions are known: an answer
\* that was lost, a load that failed, and answers that overlap, of the first
\* load with a reload, a new domain or a check, or of two requests about one
\* domain (createIdentity, rotateIdentity, deleteIdentity, upsertDomain).
SenderPageCurrent == part = "smtp-relay" => ShowsStored

\* Whatever overlaps, is overtaken or fails, the pages come to rest: no mark
\* stays on that would keep the observer from asking for the next page of the
\* log or a button disabled, and the last page of the log is reached
\* (loadNotificationPage, the finally blocks of smtpIdentities.js).
LoadingEnds ==
    <>[](/\ part = "event-log" => LogLoaded
         /\ part = "smtp-relay" => SenderLoaded)

\* Once the reader stops signing in and out, they end up where their session
\* belongs, in whatever order the header, its snapshot and the timers report
\* (createSessionBridge, bootstrapPage).  The exceptions are a header that
\* failed to load and a snapshot that arrives after the header has reported
\* the session's end.
SessionFollowsHeader == <>[](part = "session" => FollowsHeader)

\* A page that has a session keeps it until the header itself shows none: a
\* passing report of no session is not enough (handleHeaderUnauthenticated).
SignedInStays ==
    [][BridgeAuth = "in" /\ BridgeAuth' # "in" => doc.header # "authenticated" \/ doc'.failed]_web

\* What the bridge tells a protected page is the session the pages are
\* modelled with: it starts at most once in a document, and a document that
\* has lost it, or waited in vain, is left.
ImplementsPageSession == AbstractSession!SessionSpec
=============================================================================
