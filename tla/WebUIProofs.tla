----------------------------- MODULE WebUIProofs -----------------------------
(***************************************************************************)
(* Proofs about the pages, whatever the bounds, the rows and the protected *)
(* pages: that the session bridge gives every page the session its model   *)
(* assumes and keeps it while the header shows one, that the sender page   *)
(* shows what is stored, and that the event log of EventLogProofs is the   *)
(* one of the site.                                                        *)
(***************************************************************************)
EXTENDS WebUI, TLAPS

Pages == ProtectedPages \cup {"landing"}

Headers == {"unknown", "authenticated", "unauthenticated"}

DocumentType ==
    [page : Pages, header : Headers, untold : BOOLEAN,
     snapshot : Headers \cup {"none", "asked"},
     started : BOOLEAN, hasResolved : BOOLEAN, callbacks : BOOLEAN,
     isAuthenticated : BOOLEAN, statusTimer : BOOLEAN, settleTimer : BOOLEAN,
     leavingFor : Pages \cup {"none"},
     failed : BOOLEAN, overtaken : BOOLEAN]

BridgeType == doc \in DocumentType /\ session \in BOOLEAN

\* What a protected page sees of a document.
Sees(d) ==
    IF ~isProtectedPage(d) \/ d.leavingFor # "none" THEN "out"
    ELSE IF d.isAuthenticated THEN "in" ELSE "hydrating"

\* A document that goes on: its page stays, and once it is being left so does
\* where to.
GoesOn(d, e) ==
    /\ e \in DocumentType
    /\ e.page = d.page
    /\ d.leavingFor # "none" => e.leavingFor = d.leavingFor

\* The session of a page does not fall back into waiting.
MovesOn(d, e) == GoesOn(d, e) /\ (Sees(d) = "in" => Sees(e) # "hydrating")

\* Nor does it end.
Keeps(d, e) == GoesOn(d, e) /\ (Sees(d) = "in" => Sees(e) = "in")

\* What a step may do to the document.
Follows(d, e) ==
    /\ e \in DocumentType
    /\ Sees(d) = "in" => Sees(e) # "hydrating"
    /\ Sees(d) = "out" => Sees(e) # "in"
    /\ Sees(d) = "in" /\ Sees(e) # "in" => d.header # "authenticated" \/ e.failed

\* Fields that decide neither what a page sees nor where it leads.
Alike(d, e) ==
    /\ d.page = e.page /\ d.leavingFor = e.leavingFor
    /\ d.isAuthenticated = e.isAuthenticated

-----------------------------------------------------------------------------
(* The helpers *)

LEMMA NewDocumentType ==
    ASSUME NEW page \in Pages
    PROVE  NewDocument(page) \in DocumentType /\ Sees(NewDocument(page)) # "in"
BY Zenon DEF NewDocument, DocumentType, Headers, Sees, isProtectedPage

LEMMA ResolveFields ==
    ASSUME NEW d \in DocumentType, NEW b \in BOOLEAN
    PROVE  /\ Resolve(d, b) \in DocumentType
           /\ Resolve(d, b).page = d.page
           /\ Resolve(d, b).leavingFor = d.leavingFor
           /\ Resolve(d, b).isAuthenticated = b
BY ZenonT(30) DEF Resolve, DocumentType

LEMMA AssignFields ==
    ASSUME NEW d \in DocumentType, NEW page \in Pages
    PROVE  /\ Assign(d, page) \in DocumentType
           /\ Assign(d, page).page = d.page
           /\ Assign(d, page).leavingFor = IF d.leavingFor = "none" THEN page ELSE d.leavingFor
           /\ Assign(d, page).isAuthenticated = d.isAuthenticated
<1> DEFINE next == IF d.leavingFor = "none" THEN page ELSE d.leavingFor
<1>1. next \in Pages \cup {"none"}
    BY Zenon DEF DocumentType
<1>2. Assign(d, page) = [d EXCEPT !.leavingFor = next]
    BY Zenon DEF Assign
<1> HIDE DEF next
<1>3. /\ Assign(d, page) \in DocumentType
      /\ Assign(d, page).page = d.page
      /\ Assign(d, page).leavingFor = next
      /\ Assign(d, page).isAuthenticated = d.isAuthenticated
    BY <1>1, <1>2 DEF DocumentType
<1> QED
    BY <1>3, Zenon DEF next

LEMMA HelpersKeep ==
    ASSUME NEW d \in DocumentType
    PROVE  /\ Keeps(d, handleHeaderAuthenticated(d))
           /\ Keeps(d, onAuthenticated(d))
           /\ Keeps(d, redirectToLanding(d))
           /\ Keeps(d, handleHeaderUnauthenticated(d))
           /\ MovesOn(d, resolveUnauthenticated(d))
<1>p. "event-log" \in Pages /\ "landing" \in Pages /\ "landing" \notin ProtectedPages
    BY BridgeAssumption, Zenon DEF Pages
<1>n. "none" # "landing" /\ "none" # "event-log"
    BY Zenon
<1>o. ASSUME NEW e \in DocumentType
      PROVE  Keeps(e, onAuthenticated(e)) /\ Keeps(e, redirectToLanding(e))
    <2> DEFINE f == Assign(e, "event-log")
               g == Assign(e, "landing")
    <2>1. Keeps(e, e)
        BY Zenon DEF Keeps, GoesOn
    <2>2. /\ f \in DocumentType /\ f.page = e.page
          /\ e.leavingFor # "none" => f.leavingFor = e.leavingFor
        BY <1>p, AssignFields, Zenon
    <2>3. /\ g \in DocumentType /\ g.page = e.page
          /\ e.leavingFor # "none" => g.leavingFor = e.leavingFor
        BY <1>p, AssignFields, Zenon
    <2> HIDE DEF f, g
    <2>4. e.page = "landing" => Keeps(e, f)
        BY <1>p, <2>2, Zenon DEF Keeps, GoesOn, Sees, isProtectedPage
    <2>5. ~e.isAuthenticated => Keeps(e, g)
        BY <2>3, Zenon DEF Keeps, GoesOn, Sees
    <2>6. Keeps(e, onAuthenticated(e))
        BY <2>1, <2>4, Zenon DEF onAuthenticated, f
    <2>7. Keeps(e, redirectToLanding(e))
        BY <2>1, <2>5, Zenon DEF redirectToLanding, g
    <2> QED
        BY <2>6, <2>7, Zenon
<1>1. Keeps(d, handleHeaderAuthenticated(d))
    <2> DEFINE e == Resolve(d, TRUE)
    <2>1. e \in DocumentType /\ Keeps(d, e)
        BY ResolveFields, ZenonT(30) DEF Keeps, GoesOn, Sees, isProtectedPage
    <2> HIDE DEF e
    <2>2. Keeps(e, onAuthenticated(e))
        BY <1>o, <2>1
    <2>3. Keeps(d, onAuthenticated(e))
        BY <2>1, <2>2, Zenon DEF Keeps, GoesOn
    <2> QED
        BY <2>3, ZenonT(30) DEF e, handleHeaderAuthenticated
<1>4. Keeps(d, handleHeaderUnauthenticated(d))
    <2> DEFINE e == handleHeaderUnauthenticated(d)
    <2>1. e \in DocumentType /\ e.page = d.page /\ e.leavingFor = d.leavingFor
              /\ e.isAuthenticated = d.isAuthenticated
        BY ZenonT(30) DEF handleHeaderUnauthenticated, DocumentType
    <2> HIDE DEF e
    <2>2. Keeps(d, e)
        BY <2>1, Zenon DEF Keeps, GoesOn, Sees, isProtectedPage
    <2> QED
        BY <2>2, Zenon DEF e
<1>5. MovesOn(d, resolveUnauthenticated(d))
    <2> DEFINE e == Resolve(d, FALSE)
    <2>1. /\ e \in DocumentType /\ e.page = d.page /\ e.leavingFor = d.leavingFor
          /\ ~e.isAuthenticated
        BY ResolveFields, ZenonT(30)
    <2> HIDE DEF e
    <2>2. GoesOn(d, redirectToLanding(e))
        BY <1>o, <2>1, Zenon DEF Keeps, GoesOn
    <2>3. CASE isProtectedPage(e)
        <3>1. redirectToLanding(e).leavingFor # "none"
            BY <1>p, <1>n, <2>1, <2>3, AssignFields DEF redirectToLanding
        <3> QED
            BY <2>2, <3>1, ZenonT(30) DEF MovesOn, Sees, e, resolveUnauthenticated
    <2>4. CASE ~isProtectedPage(e)
        BY <2>1, <2>2, <2>4, ZenonT(30)
        DEF MovesOn, Sees, isProtectedPage, e, resolveUnauthenticated
    <2> QED
        BY <2>3, <2>4, Zenon
<1> QED
    BY <1>1, <1>4, <1>5, <1>o

LEMMA KeepsFollows ==
    ASSUME NEW d \in DocumentType, NEW e \in DocumentType, NEW f \in DocumentType,
           NEW g \in DocumentType,
           Alike(d, e), Keeps(e, f), Alike(f, g)
    PROVE  Follows(d, g)
BY Zenon DEF Alike, Keeps, GoesOn, Follows, Sees, isProtectedPage

LEMMA AlikeSelf == ASSUME NEW d PROVE Alike(d, d)
BY Zenon DEF Alike

-----------------------------------------------------------------------------
(* The steps of the bridge *)

\* What one step of the bridge does to the document and to the session.
LEMMA BridgeStep ==
    ASSUME BridgeType, BridgeNext
    PROVE  session' \in BOOLEAN /\ Follows(doc, doc')
<1>t. doc \in DocumentType /\ session \in BOOLEAN
    BY Zenon DEF BridgeType
<1>0. Follows(doc, doc) /\ Alike(doc, doc)
    BY <1>t, Zenon DEF Follows, Sees, Alike
<1>s. ASSUME NEW a \in BOOLEAN PROVE Name(a) \in Headers
    BY Zenon DEF Name, Headers
<1>e. ASSUME NEW d \in DocumentType, Alike(doc, d)
      PROVE  /\ Follows(doc, d)
             /\ Follows(doc, handleHeaderAuthenticated(d))
             /\ Follows(doc, onAuthenticated(d))
             /\ Follows(doc, redirectToLanding(d))
             /\ Follows(doc, handleHeaderUnauthenticated(d))
    <2>1. Keeps(d, d)
        BY Zenon DEF Keeps, GoesOn
    <2> QED
        BY <1>t, <1>e, <2>1, HelpersKeep, KeepsFollows, AlikeSelf DEF Keeps, GoesOn
<1>r. ASSUME NEW d \in DocumentType, Alike(doc, d)
      PROVE  /\ redirectToLanding(d) \in DocumentType
             /\ Follows(doc, [redirectToLanding(d) EXCEPT !.statusTimer = FALSE])
    <2> DEFINE f == redirectToLanding(d)
               g == [f EXCEPT !.statusTimer = FALSE]
    <2>1. Keeps(d, f) /\ f \in DocumentType
        BY HelpersKeep, Zenon DEF Keeps, GoesOn
    <2> HIDE DEF f
    <2>2. g \in DocumentType /\ Alike(f, g)
        BY <2>1, ZenonT(30) DEF DocumentType, Alike
    <2>3. Follows(doc, g)
        BY <1>t, <1>r, <2>1, <2>2, KeepsFollows
    <2> QED
        BY <2>1, <2>3 DEF f
<1>1. CASE SessionChanges
    BY <1>1, <1>t, <1>0 DEF SessionChanges
<1>2. CASE HeaderLearns
    <2> DEFINE d == [doc EXCEPT !.header = Name(session), !.untold = TRUE]
    <2>1. d \in DocumentType /\ Alike(doc, d)
        BY <1>t, <1>s, ZenonT(30) DEF DocumentType, Alike
    <2> QED
        BY <1>2, <1>t, <1>e, <2>1, SMTT(30) DEF HeaderLearns, Document
<1>3. CASE HeaderReports
    <2> DEFINE d == [doc EXCEPT !.untold = FALSE]
    <2>1. d \in DocumentType /\ Alike(doc, d)
        BY <1>t, ZenonT(30) DEF DocumentType, Alike
    <2>2. \/ doc' = handleHeaderAuthenticated(d)
          \/ doc' = handleHeaderUnauthenticated(d)
        BY <1>3 DEF HeaderReports, Document
    <2>3. session' = session
        BY <1>3 DEF HeaderReports, Document
    <2> HIDE DEF d
    <2> QED
        BY <1>t, <1>e, <2>1, <2>2, <2>3
<1>4. CASE startSession
    <2> DEFINE d == [doc EXCEPT !.started = TRUE, !.callbacks = TRUE]
               e == [d EXCEPT !.statusTimer = TRUE, !.snapshot = "asked"]
    <2>1. d \in DocumentType /\ Alike(doc, d) /\ e \in DocumentType /\ Alike(doc, e)
        BY <1>t, ZenonT(30) DEF DocumentType, Alike
    <2>2. \/ doc' = onAuthenticated(d) \/ doc' = redirectToLanding(d)
          \/ doc' = e
        BY <1>4, Zenon DEF startSession, Document
    <2>3. session' = session
        BY <1>4, Zenon DEF startSession, Document
    <2> HIDE DEF d, e
    <2> QED
        BY <1>t, <1>e, <2>1, <2>2, <2>3
<1>5. CASE SnapshotTaken
    <2>1. PICK seen \in {doc.header, Name(session)} : Document([doc EXCEPT !.snapshot = seen])
        BY <1>5, Zenon DEF SnapshotTaken
    <2>2. seen \in Headers
        BY <1>t, <1>s DEF DocumentType
    <2>3. [doc EXCEPT !.snapshot = seen] \in DocumentType
        BY <1>t, <2>2 DEF DocumentType
    <2>4. Alike(doc, [doc EXCEPT !.snapshot = seen])
        BY <1>t DEF DocumentType, Alike
    <2> QED
        BY <1>t, <1>e, <2>1, <2>3, <2>4, SMTT(30) DEF Document
<1>6. CASE SnapshotAnswered
    <2> DEFINE d == [doc EXCEPT !.snapshot = "none"]
               f == handleHeaderAuthenticated(d)
               b == d.header = "unauthenticated" /\ ~d.untold
               g == [f EXCEPT !.overtaken = b]
    <2>1. d \in DocumentType /\ Alike(doc, d)
        BY <1>t DEF DocumentType, Alike
    <2>2. \/ doc' = d \/ doc' = g \/ doc' = handleHeaderUnauthenticated(d)
        BY <1>6 DEF SnapshotAnswered, Document
    <2>3. session' = session
        BY <1>6 DEF SnapshotAnswered, Document
    <2>b. b \in BOOLEAN
        BY Zenon
    <2> HIDE DEF d, b
    <2>4. Keeps(d, f) /\ f \in DocumentType
        BY <2>1, HelpersKeep DEF Keeps, GoesOn
    <2> HIDE DEF f
    <2>5. g \in DocumentType /\ Alike(f, g)
        BY <2>4, <2>b, Zenon DEF DocumentType, Alike
    <2>6. Follows(doc, g)
        BY <1>t, <2>1, <2>4, <2>5, KeepsFollows
    <2> QED
        BY <1>t, <1>e, <2>1, <2>2, <2>3, <2>6
<1>7. CASE settleTimerFires
    <2>1. CASE doc.header = "authenticated"
        BY <1>7, <1>t, <1>0, <1>e, <2>1 DEF settleTimerFires, Document
    <2>2. CASE doc.header # "authenticated"
        <3>1. doc' = resolveUnauthenticated(doc) /\ session' = session
            BY <1>7, <2>2 DEF settleTimerFires, Document
        <3>2. MovesOn(doc, doc')
            BY <1>t, <3>1, HelpersKeep, SMTT(30)
        <3> QED
            BY <1>t, <2>2, <3>1, <3>2 DEF MovesOn, GoesOn, Follows, Sees, isProtectedPage
    <2> QED
        BY <2>1, <2>2, Zenon
<1>8. CASE DocumentLoads
    <2>1. doc.leavingFor \in Pages
        BY <1>8, <1>t DEF DocumentLoads, DocumentType
    <2>2. doc' = NewDocument(doc.leavingFor) /\ session' = session /\ Sees(doc) = "out"
        BY <1>8 DEF DocumentLoads, Document, Sees
    <2> QED
        BY <1>t, <2>1, <2>2, NewDocumentType DEF Follows
<1>9. CASE HeaderWavers
    <2> DEFINE d == [doc EXCEPT !.untold = TRUE]
    <2>1. d \in DocumentType /\ Alike(doc, d)
        BY <1>t, ZenonT(30) DEF DocumentType, Alike
    <2> HIDE DEF d
    <2>2. doc' = handleHeaderUnauthenticated(d) /\ session' = session
        BY <1>9 DEF HeaderWavers, Document, d
    <2> QED
        BY <1>t, <1>e, <2>1, <2>2
<1>10. CASE HeaderErrs
    BY <1>10, <1>t, <1>0, <1>r DEF HeaderErrs, Document, setStatusError
<1>11. CASE handleAuthError
    <2> DEFINE d == [Resolve(doc, FALSE) EXCEPT !.started = TRUE, !.failed = TRUE]
    <2>1. /\ d \in DocumentType /\ d.failed /\ ~d.isAuthenticated
          /\ d.page = doc.page /\ d.leavingFor = doc.leavingFor
        BY <1>t, ZenonT(30) DEF DocumentType, Resolve
    <2>2. doc' = redirectToLanding(d) /\ session' = session
        BY <1>11 DEF handleAuthError, Document
    <2> HIDE DEF d
    <2>3. redirectToLanding(d) \in DocumentType
        BY <2>1, HelpersKeep DEF Keeps, GoesOn
    <2>4. doc'.failed /\ doc'.page = doc.page /\ Sees(doc') = "out"
        BY <1>t, <2>1, <2>2, SMTT(30)
        DEF redirectToLanding, Assign, Sees, isProtectedPage, DocumentType
    <2> QED
        BY <1>t, <2>2, <2>3, <2>4, SMTT(30) DEF Follows
<1>12. CASE SnapshotFails
    <2> DEFINE d == [doc EXCEPT !.snapshot = "none"]
    <2>1. d \in DocumentType /\ Alike(doc, d)
        BY <1>t, Zenon DEF DocumentType, Alike
    <2>2. /\ doc' = d \/ doc' = [redirectToLanding(d) EXCEPT !.statusTimer = FALSE]
          /\ session' = session
        BY <1>12 DEF SnapshotFails, Document, setStatusError
    <2> HIDE DEF d
    <2> QED
        BY <1>t, <1>e, <1>r, <2>1, <2>2
<1>13. CASE statusTimerFires
    BY <1>13, <1>t, <1>0, <1>r DEF statusTimerFires, Document, setStatusError
<1> QED
    BY <1>1, <1>2, <1>3, <1>4, <1>5, <1>6, <1>7, <1>8, <1>9, <1>10, <1>11, <1>12, <1>13
    DEF BridgeNext, Bridge

-----------------------------------------------------------------------------
(* The site *)

LEMMA WebInitType == WebInit => BridgeType /\ BridgeAuth # "in"
<1> SUFFICES ASSUME WebInit
             PROVE  BridgeType /\ BridgeAuth # "in"
    BY Zenon
<1>1. PICK page \in Pages : doc = NewDocument(page)
    BY Zenon DEF WebInit, BridgeInit, Pages
<1>2. session \in BOOLEAN
    BY Zenon DEF WebInit, BridgeInit
<1> QED
    BY <1>1, <1>2, NewDocumentType DEF BridgeType, BridgeAuth, Sees

LEMMA WebStep ==
    ASSUME BridgeType, [WebNext]_web
    PROVE  BridgeType' /\ Follows(doc, doc')
<1>1. CASE part = "session" /\ BridgeNext
    BY <1>1, BridgeStep DEF BridgeType, Follows
<1>2. CASE UNCHANGED bridgeVars
    BY <1>2 DEF bridgeVars, BridgeType, Follows, Sees
<1>3. CASE UNCHANGED web
    BY <1>3, <1>2 DEF web
<1>4. CASE UNCHANGED beyondLog
    BY <1>4, <1>2 DEF beyondLog
<1>5. CASE UNCHANGED beyondSender
    BY <1>5, <1>2 DEF beyondSender
<1> QED
    BY <1>1, <1>3, <1>4, <1>5 DEF WebNext

\* A page that has a session keeps it until the header itself shows none,
\* whatever the header, its snapshot and the timers report in between
\* (createSessionBridge in web/js/app.js).
THEOREM SignedInAlwaysStays == WebSpec => SignedInStays
<1>1. BridgeType /\ [WebNext]_web => BridgeType'
    BY WebStep, Zenon
<1>2. ASSUME BridgeType, [WebNext]_web
      PROVE  [BridgeAuth = "in" /\ BridgeAuth' # "in"
                  => doc.header # "authenticated" \/ doc'.failed]_web
    BY <1>2, WebStep DEF Follows, Sees, BridgeAuth
<1> QED
    BY <1>1, <1>2, WebInitType, PTL DEF WebSpec, SignedInStays

\* The bridge implements the session the pages are modelled with: it starts at
\* most once in a document, and a document that has lost it is left
\* (createSessionBridge and redirectToLanding in web/js/app.js).
THEOREM BridgeImplementsSession == WebSpec => ImplementsPageSession
<1>1. WebInit => AbstractSession!SessionInit
    BY WebInitType DEF AbstractSession!SessionInit, BridgeAuth
<1>2. BridgeType /\ [WebNext]_web => BridgeType'
    BY WebStep, Zenon
<1>3. ASSUME BridgeType, [WebNext]_web
      PROVE  [AbstractSession!DocumentOpens \/ AbstractSession!SessionStarts
                  \/ AbstractSession!SessionEnds]_BridgeAuth
    BY <1>3, WebStep
    DEF Follows, Sees, BridgeAuth, AbstractSession!DocumentOpens,
        AbstractSession!SessionStarts, AbstractSession!SessionEnds
<1> QED
    BY <1>1, <1>2, <1>3, WebInitType, PTL
    DEF WebSpec, ImplementsPageSession, AbstractSession!SessionSpec

-----------------------------------------------------------------------------
(* The sender identities page *)

Statuses == {"absent", "pending", "verified"}
IdentityRows == [Identities -> Forwards \cup {Nothing}]
DomainRows == [Domains -> Statuses]
LoadNames == {"domains", "identities", "reload"}
OnIdentity == {"createIdentity", "updateForwarding", "rotate", "view", "delete"}

Check == [domain : Domains, at : {"sent", "answered"}, status : Statuses \cup {Nothing}]

StoredType == [domains : DomainRows, identities : IdentityRows, key : [Identities -> Nat]]

PageType ==
    [identities : IdentityRows, domains : DomainRows,
     credentials : [identity : Identities, key : Nat] \cup {Nothing},
     dialog : BOOLEAN, editingIdentityId : Identities \cup {Nothing}]

SubmitType ==
    [kind : OnIdentity \cup {"none", "createDomain"},
     at : {"idle", "sent", "answered", "failed", "reloading"},
     on : Identities \cup Domains \cup {Nothing},
     value : Forwards \cup {Nothing}, key : Nat]

SenderTypes ==
    /\ stored \in StoredType
    /\ shown \in PageType
    /\ loads \in [LoadNames -> [at : {"idle", "sent", "answered"},
                                rows : DomainRows \cup IdentityRows \cup {Nothing}]]
    /\ loads["domains"].at = "answered" => loads["domains"].rows \in DomainRows
    /\ \A l \in {"identities", "reload"} :
            loads[l].at = "answered" => loads[l].rows \in IdentityRows
    /\ submit \in SubmitType
    /\ \A c \in checks : c \in Check
    /\ \A c \in checks : c.at = "answered" => c.status \in {"pending", "verified"}
    /\ auth \in {"hydrating", "in", "out"}

\* One handler at a time has set isSubmitting.
SubmitInv ==
    /\ submit.kind = "none" <=> submit.at = "idle"
    /\ submit.kind = "createDomain" => submit.on \in Domains
    /\ submit.kind \in OnIdentity => submit.on \in Identities
    /\ submit.kind \in {"createIdentity", "updateForwarding"} => submit.value \in Forwards
    /\ submit.at # "idle" => "isSubmitting" \in busy
    /\ submit.at = "reloading" <=> loads["reload"].at # "idle"
    /\ submit.at = "reloading" => submit.kind \in Reloads
    /\ auth = "hydrating" => Quiet /\ shown = BlankPage

\* The server has a new list that the page has yet to ask for.
Changed == submit.kind \in Reloads /\ submit.at \in {"answered", "reloading"}

IdentitiesInv ==
    /\ loads["reload"].at = "answered" => loads["reload"].rows = stored.identities
    /\ auth = "in" =>
        \/ "identities" \in doubt
        \/ Changed
        \/ IF loads["identities"].at = "idle" THEN shown.identities = stored.identities
           ELSE loads["identities"].at = "answered" =>
                    loads["identities"].rows = stored.identities

\* The page has yet to be told that the domain was created.
Created(d) == submit.kind = "createDomain" /\ submit.at = "answered" /\ submit.on = d

\* A domain that is known once stays known.
KnownInv ==
    \A d \in Domains : stored.domains[d] = "absent" =>
        /\ shown.domains[d] = "absent" /\ ~Created(d)
        /\ loads["domains"].at = "answered" => loads["domains"].rows[d] = "absent"
        /\ \A c \in checks : c.domain # d

DomainsInv ==
    auth = "in" /\ "domains" \notin doubt =>
        /\ loads["domains"].at # "idle" => checks = {}
        /\ \A c \in checks : ~Created(c.domain)
        /\ \A c, e \in checks : c.domain = e.domain => c = e
        /\ \A c \in checks : c.at = "answered" => stored.domains[c.domain] = c.status
        /\ \A d \in Domains :
            /\ Created(d) => stored.domains[d] = "pending"
            /\ \/ Created(d)
               \/ loads["domains"].at = "sent"
               \/ loads["domains"].at = "answered" /\ loads["domains"].rows[d] = stored.domains[d]
               \/ loads["domains"].at = "idle" /\ shown.domains[d] = stored.domains[d]
               \/ \E c \in checks : c.domain = d /\ c.at = "answered"

\* What the dialog shows is the credential in force.
Valid ==
    /\ shown.credentials \in [identity : Identities, key : Nat]
    /\ stored.identities[shown.credentials.identity] # Nothing
    /\ shown.credentials.key = stored.key[shown.credentials.identity]

CredentialsInv ==
    /\ submit.at = "answered" /\ submit.kind \in {"createIdentity", "rotate", "view"} =>
        submit.key = stored.key[submit.on] /\ stored.identities[submit.on] # Nothing
    /\ auth = "in" =>
        /\ shown.dialog => submit.kind \in {"none", "rotate"}
        /\ "credentials" \notin doubt =>
            /\ shown.dialog /\ submit.at # "answered" => Valid
            /\ submit.at = "reloading" /\ submit.kind \in {"createIdentity", "rotate"} => Valid

SenderInv ==
    SenderTypes /\ SubmitInv /\ IdentitiesInv /\ KnownInv /\ DomainsInv /\ CredentialsInv

-----------------------------------------------------------------------------
LEMMA SignInKeeps ==
    ASSUME SenderInv, SenderSignIn
    PROVE  SenderInv'
<1> USE SenderAssumption DEF SenderInv, StoredType, PageType, SubmitType
<1>1. SenderTypes'
    BY SMTT(30) DEF SenderTypes, Statuses, IdentityRows, DomainRows, LoadNames, OnIdentity, Check,
           SenderSignIn, SessionStarts
<1>2. SubmitInv'
    BY Zenon DEF SenderTypes, LoadNames, SubmitInv, OnIdentity, Quiet, Reloads, IdentitiesInv,
           SenderSignIn, SessionStarts
<1>3. IdentitiesInv'
    BY DEF SenderTypes, LoadNames, IdentitiesInv, Changed, Reloads, SubmitInv,
           SenderSignIn, SessionStarts
<1>4. KnownInv'
    BY DEF SenderTypes, LoadNames, KnownInv, Created, Statuses, DomainRows, SenderSignIn,
           SessionStarts
<1>5. DomainsInv'
    BY DEF SenderTypes, LoadNames, DomainsInv, Created, SubmitInv, Quiet, SenderSignIn,
           SessionStarts
<1>6. CredentialsInv'
    BY DEF SenderTypes, LoadNames, CredentialsInv, Valid, SubmitInv, BlankPage, Quiet,
           SenderSignIn, SessionStarts
<1> QED
    BY <1>1, <1>2, <1>3, <1>4, <1>5, <1>6, Zenon

LEMMA SignOutKeeps ==
    ASSUME SenderInv, SenderSignOut
    PROVE  SenderInv'
<1> USE SenderAssumption DEF SenderInv, StoredType, PageType, SubmitType
<1>1. SenderTypes'
    BY DEF SenderTypes, Statuses, IdentityRows, DomainRows, LoadNames, OnIdentity, Check,
           SenderSignOut, SessionEnds, BlankPage
<1>2. SubmitInv'
    BY Zenon DEF SenderTypes, LoadNames, SubmitInv, OnIdentity, Quiet, Reloads, SenderSignOut,
           SessionEnds, BlankPage
<1>3. IdentitiesInv'
    BY Zenon DEF SenderTypes, LoadNames, IdentitiesInv, Changed, Reloads, SenderSignOut,
           SessionEnds, BlankPage
<1>4. KnownInv'
    BY Zenon DEF SenderTypes, LoadNames, KnownInv, Created, Statuses, DomainRows, SenderSignOut,
           SessionEnds, BlankPage
<1>5. DomainsInv'
    BY Zenon DEF SenderTypes, LoadNames, DomainsInv, Created, SenderSignOut, SessionEnds, BlankPage
<1>6. CredentialsInv'
    BY Zenon DEF SenderTypes, LoadNames, CredentialsInv, Valid, SenderSignOut, SessionEnds,
                 BlankPage
<1> QED
    BY <1>1, <1>2, <1>3, <1>4, <1>5, <1>6, Zenon

LEMMA BeginKeeps ==
    ASSUME NEW kind \in OnIdentity \cup {"createDomain"}, NEW on, NEW value,
           SenderInv, Enabled, Begin(kind, on, value),
           kind = "createDomain" => on \in Domains, kind \in OnIdentity => on \in Identities,
           value \in Forwards \cup {Nothing},
           kind \in {"createIdentity", "updateForwarding"} => value \in Forwards,
           shown.dialog => kind = "rotate"
    PROVE  SenderInv'
<1> USE SenderAssumption DEF SenderInv, StoredType, PageType, SubmitType
<1>1. SenderTypes'
    BY Zenon DEF SenderTypes, Statuses, IdentityRows, DomainRows, LoadNames, OnIdentity, Check,
           SubmitInv, Enabled, Begin, NoSubmit
<1>2. SubmitInv'
    BY DEF SenderTypes, LoadNames, SubmitInv, OnIdentity, Quiet, Reloads, Enabled, Begin, NoSubmit
<1>3. IdentitiesInv'
    BY Zenon DEF SenderTypes, LoadNames, IdentitiesInv, Changed, Reloads, SubmitInv, Enabled,
           Begin, NoSubmit, OnIdentity
<1>4. KnownInv'
    BY Zenon DEF SenderTypes, LoadNames, KnownInv, Created, Statuses, DomainRows, SubmitInv,
           Enabled, Begin, NoSubmit, OnIdentity
<1>5. DomainsInv'
    BY DEF SenderTypes, LoadNames, DomainsInv, Created, SubmitInv, Enabled, Begin,
           NoSubmit, OnIdentity
<1>6. CredentialsInv'
    BY Zenon DEF SenderTypes, LoadNames, CredentialsInv, Valid, SubmitInv, Enabled, Begin,
           NoSubmit, OnIdentity
<1> QED
    BY <1>1, <1>2, <1>3, <1>4, <1>5, <1>6, Zenon

LEMMA EditKeeps ==
    ASSUME NEW i \in Identities \cup {Nothing}, NEW page, Edit(page),
           page \in {[shown EXCEPT !.editingIdentityId = i], [shown EXCEPT !.dialog = FALSE]},
           SenderInv, auth # "hydrating"
    PROVE  SenderInv'
<1> USE SenderAssumption DEF SenderInv, StoredType, PageType, SubmitType
<1>0. /\ page \in PageType
      /\ page.identities = shown.identities /\ page.domains = shown.domains
      /\ page.credentials = shown.credentials /\ (page.dialog => shown.dialog)
    BY ZenonT(40) DEF SenderTypes
<1>1. SenderTypes'
    BY <1>0 DEF SenderTypes, Check, Edit
<1>2. SubmitInv'
    BY Zenon DEF SubmitInv, Edit
<1>3. IdentitiesInv'
    BY <1>0, Zenon DEF IdentitiesInv, Changed, Edit
<1>4. KnownInv'
    BY <1>0 DEF KnownInv, Created, Edit
<1>5. DomainsInv'
    BY <1>0 DEF DomainsInv, Created, Edit
<1>6. CredentialsInv'
    BY <1>0, Zenon DEF CredentialsInv, Valid, Edit
<1> QED
    BY <1>1, <1>2, <1>3, <1>4, <1>5, <1>6, Zenon

LEMMA CheckKeeps ==
    ASSUME NEW d \in Domains, SenderInv, checkDomain(d)
    PROVE  SenderInv'
<1> USE SenderAssumption DEF SenderInv, StoredType, PageType, SubmitType
<1>1. SenderTypes'
    BY DEF SenderTypes, Statuses, IdentityRows, DomainRows, LoadNames, OnIdentity, Check,
           checkDomain
<1>2. SubmitInv'
    BY Zenon DEF SenderTypes, LoadNames, SubmitInv, OnIdentity, Quiet, Reloads, checkDomain
<1>3. IdentitiesInv'
    BY Zenon DEF SenderTypes, LoadNames, IdentitiesInv, Changed, Reloads, checkDomain
<1>4. KnownInv'
    BY DEF SenderTypes, LoadNames, KnownInv, Created, Statuses, DomainRows, checkDomain
<1>5. DomainsInv'
    BY DEF SenderTypes, LoadNames, DomainsInv, Created, KnownInv, SubmitInv, checkDomain
<1>6. CredentialsInv'
    BY Zenon DEF SenderTypes, LoadNames, CredentialsInv, Valid, checkDomain
<1> QED
    BY <1>1, <1>2, <1>3, <1>4, <1>5, <1>6, Zenon

LEMMA LoadAnsweredKeeps ==
    ASSUME NEW l \in LoadNames, SenderInv, LoadAnswered(l)
    PROVE  SenderInv'
<1> USE SenderAssumption DEF SenderInv, StoredType, PageType, SubmitType
<1>1. SenderTypes'
    BY DEF SenderTypes, Statuses, IdentityRows, DomainRows, LoadNames, OnIdentity, Check,
           LoadAnswered, Rows
<1>2. SubmitInv'
    BY Zenon DEF SenderTypes, LoadNames, SubmitInv, OnIdentity, Quiet, Reloads, LoadAnswered, Rows
<1>3. IdentitiesInv'
    BY Zenon DEF SenderTypes, LoadNames, IdentitiesInv, Changed, Reloads, LoadAnswered, Rows
<1>4. KnownInv'
    BY Zenon DEF SenderTypes, LoadNames, KnownInv, Created, Statuses, DomainRows, Rows, LoadAnswered
<1>5. DomainsInv'
    BY DEF SenderTypes, LoadNames, DomainsInv, Created, LoadAnswered, Rows
<1>6. CredentialsInv'
    BY Zenon DEF SenderTypes, LoadNames, CredentialsInv, Valid, LoadAnswered, Rows
<1> QED
    BY <1>1, <1>2, <1>3, <1>4, <1>5, <1>6, Zenon

LEMMA LoadDeliveredKeeps ==
    ASSUME NEW l \in LoadNames, SenderInv, LoadDelivered(l)
    PROVE  SenderInv'
<1> USE SenderAssumption DEF SenderInv, StoredType, PageType, SubmitType
<1>1. SenderTypes'
    BY Zenon DEF SenderTypes, Statuses, IdentityRows, DomainRows, LoadNames, OnIdentity, Check,
           SubmitInv, Reloads, Quiet, LoadDelivered, LoadEnds, AfterReload, Overlaps, Idle,
           NoSubmit, LoadMark
<1>2. SubmitInv'
    BY Zenon DEF SenderTypes, LoadNames, SubmitInv, OnIdentity, Quiet, Reloads, LoadDelivered,
           LoadEnds, AfterReload, Overlaps, Idle, NoSubmit, LoadMark
<1>3. IdentitiesInv'
    BY ZenonT(40) DEF SenderTypes, LoadNames, IdentitiesInv, Changed, Reloads, SubmitInv, Quiet,
           LoadDelivered, LoadEnds, AfterReload, Overlaps, Idle, NoSubmit, LoadMark
<1>4. KnownInv'
    BY DEF SenderTypes, LoadNames, KnownInv, Created, Statuses, DomainRows, SubmitInv,
           Reloads, Quiet, LoadDelivered, LoadEnds, AfterReload, Overlaps, Idle, NoSubmit,
           LoadMark
<1>5. DomainsInv'
    BY DEF SenderTypes, LoadNames, DomainsInv, Created, SubmitInv, Reloads, Quiet,
           LoadDelivered, LoadEnds, AfterReload, Overlaps, Idle, NoSubmit, LoadMark
<1>6. CredentialsInv'
    BY Zenon DEF SenderTypes, LoadNames, CredentialsInv, Valid, SubmitInv, Reloads, Quiet,
           LoadDelivered, LoadEnds, AfterReload, Overlaps, Idle, NoSubmit, LoadMark
<1> QED
    BY <1>1, <1>2, <1>3, <1>4, <1>5, <1>6, Zenon

LEMMA LoadFailsKeeps ==
    ASSUME NEW l \in LoadNames, SenderInv, LoadFails(l)
    PROVE  SenderInv'
<1> USE SenderAssumption DEF SenderInv, StoredType, PageType, SubmitType
<1>1. SenderTypes'
    BY ZenonT(40) DEF SenderTypes, Statuses, IdentityRows, DomainRows, LoadNames, OnIdentity, Check,
           SubmitInv, Reloads, Quiet, LoadFails, LoadEnds, AfterReload, List, Idle, NoSubmit,
           LoadMark
<1>2. SubmitInv'
    BY Zenon DEF SenderTypes, LoadNames, SubmitInv, OnIdentity, Quiet, Reloads, LoadFails,
           LoadEnds, AfterReload, List, Idle, NoSubmit, LoadMark
<1>3. IdentitiesInv'
    BY Zenon DEF SenderTypes, LoadNames, IdentitiesInv, Changed, Reloads, SubmitInv, Quiet,
           LoadFails, LoadEnds, AfterReload, List, Idle, NoSubmit, LoadMark
<1>4. KnownInv'
    BY ZenonT(40) DEF SenderTypes, LoadNames, KnownInv, Created, Statuses, DomainRows, SubmitInv,
           Reloads, Quiet, LoadFails, LoadEnds, AfterReload, List, Idle, NoSubmit, LoadMark
<1>5. DomainsInv'
    BY DEF SenderTypes, LoadNames, DomainsInv, Created, SubmitInv, Reloads, Quiet,
           LoadFails, LoadEnds, AfterReload, List, Idle, NoSubmit, LoadMark
<1>6. CredentialsInv'
    BY Zenon DEF SenderTypes, LoadNames, CredentialsInv, Valid, SubmitInv, Reloads, Quiet,
           LoadFails, LoadEnds, AfterReload, List, Idle, NoSubmit, LoadMark
<1> QED
    BY <1>1, <1>2, <1>3, <1>4, <1>5, <1>6, Zenon

\* What a request that is not refused does to the server.
LEMMA EffectIs ==
    ASSUME SenderInv, submit.at = "sent", ~Refused(submit), NEW new, new = Effect(submit)
    PROVE  /\ new \in StoredType
           /\ submit.kind \notin Reloads => new.identities = stored.identities
           /\ submit.kind # "createDomain" => new.domains = stored.domains
           /\ submit.kind = "createDomain" =>
                /\ stored.domains[submit.on] = "absent"
                /\ new.domains = [stored.domains EXCEPT ![submit.on] = "pending"]
           /\ submit.kind \in {"createIdentity", "rotate", "view"} =>
                new.identities[submit.on] # Nothing
<1> USE SenderAssumption DEF SenderInv, StoredType, PageType, SubmitType, SenderTypes,
       SubmitInv, OnIdentity, IdentityRows, Reloads
<1>1. CASE submit.kind = "createDomain"
    <2>1. /\ new = [stored EXCEPT !.domains[submit.on] = "pending"]
          /\ stored.domains[submit.on] = "absent"
        BY <1>1, Zenon DEF Refused, Effect
    <2> QED
        BY <1>1, <2>1 DEF DomainRows, Statuses
<1>2. CASE submit.kind = "createIdentity"
    <2>1. PICK mid : mid = [stored EXCEPT !.identities[submit.on] = submit.value]
        BY Zenon
    <2>2. new = [mid EXCEPT !.key[submit.on] = @ + 1]
        BY <1>2, <2>1, Zenon DEF Effect
    <2>3. /\ mid \in StoredType /\ mid.domains = stored.domains
          /\ mid.identities[submit.on] # Nothing
        BY <1>2, <2>1, Zenon
    <2> QED
        BY <1>2, <2>2, <2>3
<1>3. CASE submit.kind = "updateForwarding"
    <2>1. new = [stored EXCEPT !.identities[submit.on] = submit.value]
        BY <1>3, Zenon DEF Effect
    <2> QED
        BY <1>3, <2>1
<1>4. CASE submit.kind = "rotate"
    <2>1. new = [stored EXCEPT !.key[submit.on] = @ + 1] /\ stored.identities[submit.on] # Nothing
        BY <1>4, Zenon DEF Refused, Effect
    <2> QED
        BY <1>4, <2>1
<1>5. CASE submit.kind = "delete"
    <2>1. new = [stored EXCEPT !.identities[submit.on] = Nothing]
        BY <1>5, Zenon DEF Effect
    <2> QED
        BY <1>5, <2>1
<1>6. CASE submit.kind = "view"
    <2>1. new = stored /\ stored.identities[submit.on] # Nothing
        BY <1>6, Zenon DEF Refused, Effect
    <2> QED
        BY <1>6, <2>1, Zenon
<1> QED
    BY <1>1, <1>2, <1>3, <1>4, <1>5, <1>6, Zenon

LEMMA RefusedKeeps ==
    ASSUME SenderInv, submit.at = "sent", SubmitStep([submit EXCEPT !.at = "failed"]),
           UNCHANGED <<stored, doubt>>
    PROVE  SenderInv'
<1> USE SenderAssumption DEF SenderInv, StoredType, PageType, SubmitType, SubmitStep
<1>1. SenderTypes'
    BY Zenon DEF SenderTypes, Check
<1>2. SubmitInv'
    BY Zenon DEF SenderTypes, SubmitInv, Quiet
<1>3. IdentitiesInv'
    BY Zenon DEF SenderTypes, IdentitiesInv, Changed, SubmitInv
<1>4. KnownInv'
    BY Zenon DEF SenderTypes, KnownInv, Created
<1>5. DomainsInv'
    BY DEF SenderTypes, DomainsInv, Created
<1>6. CredentialsInv'
    BY Zenon DEF SenderTypes, CredentialsInv, Valid
<1> QED
    BY <1>1, <1>2, <1>3, <1>4, <1>5, <1>6, Zenon

LEMMA SubmitAnsweredKeeps ==
    ASSUME SenderInv, SubmitAnswered
    PROVE  SenderInv'
<1>0. CASE Refused(submit)
    BY <1>0, RefusedKeeps, Zenon DEF SubmitAnswered
<1>a. CASE ~Refused(submit)
    <2> USE SenderAssumption DEF SenderInv, StoredType, PageType, SubmitType
    <2>0. /\ submit.at = "sent" /\ stored' = Effect(submit)
          /\ submit' = [submit EXCEPT
                    !.at = "answered",
                    !.key = IF submit.on \in Identities THEN stored'.key[submit.on] ELSE 0]
          /\ UNCHANGED <<shown, busy, loads, checks, auth, doubt>>
        BY <1>a, Zenon DEF SubmitAnswered, SubmitStep
    <2>a. /\ stored' \in StoredType
          /\ submit.kind \notin Reloads => stored'.identities = stored.identities
          /\ submit.kind # "createDomain" => stored'.domains = stored.domains
          /\ submit.kind = "createDomain" =>
                /\ stored.domains[submit.on] = "absent"
                /\ stored'.domains = [stored.domains EXCEPT ![submit.on] = "pending"]
          /\ submit.kind \in {"createIdentity", "rotate", "view"} =>
                stored'.identities[submit.on] # Nothing
        BY <1>a, <2>0, EffectIs, Zenon
    <2>b. (IF submit.on \in Identities THEN stored'.key[submit.on] ELSE 0) \in Nat
        BY <2>a, Zenon DEF StoredType
    <2>c. /\ submit' \in SubmitType
          /\ submit'.kind = submit.kind /\ submit'.at = "answered" /\ submit'.on = submit.on
          /\ submit'.value = submit.value
          /\ submit.on \in Identities => submit'.key = stored'.key[submit.on]
        BY <2>0, <2>b, Zenon DEF SenderTypes
    <2> HIDE <2>b
    <2>1. SenderTypes'
        BY <2>0, <2>a, <2>c, ZenonT(40) DEF SenderTypes, Check, StoredType
    <2>2. SubmitInv'
        BY <2>0, <2>c, Zenon DEF SubmitInv, Quiet
    <2>3. IdentitiesInv'
        BY <2>0, <2>a, <2>c DEF SubmitInv, IdentitiesInv, Changed
    <2>4. KnownInv'
        BY <2>0, <2>a, <2>c, SMTT(30) DEF KnownInv, Created, SubmitInv, SenderTypes, DomainRows
    <2>5. DomainsInv'
        BY <2>0, <2>a, <2>c
        DEF KnownInv, DomainsInv, Created, SubmitInv, SenderTypes, DomainRows, Check
    <2>6. CredentialsInv'
        BY <2>0, <2>a, <2>c, Zenon DEF CredentialsInv, SubmitInv, OnIdentity
    <2> QED
        BY <2>1, <2>2, <2>3, <2>4, <2>5, <2>6, Zenon
<1> QED
    BY <1>0, <1>a, Zenon

LEMMA SubmitFailsKeeps ==
    ASSUME SenderInv, SubmitFails
    PROVE  SenderInv'
<1>0. CASE UNCHANGED <<stored, doubt>>
    BY <1>0, RefusedKeeps, Zenon DEF SubmitFails
<1>a. CASE /\ ~Refused(submit)
           /\ stored' = Effect(submit)
           /\ doubt' = doubt \cup {"domains", "identities", "credentials"}
    <2> USE SenderAssumption DEF SenderInv, StoredType, PageType, SubmitType
    <2>0. /\ submit.at = "sent"
          /\ submit' = [submit EXCEPT !.at = "failed"]
          /\ UNCHANGED <<shown, busy, loads, checks, auth>>
        BY <1>a, Zenon DEF SubmitFails, SubmitStep
    <2>a. /\ stored' \in StoredType
          /\ submit.kind # "createDomain" => stored'.domains = stored.domains
          /\ submit.kind = "createDomain" =>
                stored'.domains = [stored.domains EXCEPT ![submit.on] = "pending"]
        BY <1>a, <2>0, EffectIs, Zenon
    <2>1. SenderTypes'
        BY <2>0, <2>a, Zenon DEF SenderTypes, Check, StoredType
    <2>2. SubmitInv'
        BY <2>0, Zenon DEF SenderTypes, SubmitInv, Quiet
    <2>3. IdentitiesInv'
        BY <1>a, <2>0, Zenon DEF SenderTypes, SubmitInv, IdentitiesInv
    <2>4. KnownInv'
        BY <2>0, <2>a DEF KnownInv, Created, SubmitInv, SenderTypes, DomainRows
    <2>5. DomainsInv'
        BY <1>a, Zenon DEF DomainsInv
    <2>6. CredentialsInv'
        BY <1>a, <2>0, Zenon DEF SenderTypes, CredentialsInv
    <2> QED
        BY <2>1, <2>2, <2>3, <2>4, <2>5, <2>6, Zenon
<1> QED
    BY <1>0, <1>a, Zenon DEF SubmitFails

\* What a handler shows when its request is answered.
LEMMA AppliedIs ==
    ASSUME SenderInv, submit.at = "answered", NEW page, page = Applied
    PROVE  /\ page \in PageType
           /\ page.identities = shown.identities
           /\ submit.kind # "createDomain" => page.domains = shown.domains
           /\ submit.kind = "createDomain" =>
                page.domains = [shown.domains EXCEPT ![submit.on] = "pending"]
           /\ submit.kind \in {"createIdentity", "rotate", "view"} =>
                /\ page.credentials \in [identity : Identities, key : Nat]
                /\ page.credentials.identity = submit.on /\ page.credentials.key = submit.key
           /\ submit.kind # "view" => page.dialog = shown.dialog
           /\ submit.kind \notin {"createIdentity", "rotate", "view"} =>
                page.credentials = shown.credentials
<1> USE SenderAssumption DEF SenderInv, StoredType, PageType, SubmitType, SenderTypes,
       SubmitInv, OnIdentity
<1>0. submit.kind \in {"createIdentity", "rotate", "view"} =>
            /\ Credentials \in [identity : Identities, key : Nat]
            /\ Credentials.identity = submit.on /\ Credentials.key = submit.key
    BY Zenon DEF Credentials
<1>1. CASE submit.kind = "createDomain"
    <2>1. page = [shown EXCEPT !.domains[submit.on] = "pending"]
        BY <1>1, Zenon DEF Applied
    <2> QED
        BY <1>1, <2>1, SMTT(30) DEF DomainRows, Statuses
<1>2. CASE submit.kind \in {"createIdentity", "rotate"}
    <2>1. page = [shown EXCEPT !.credentials = Credentials]
        BY <1>2, Zenon DEF Applied
    <2> QED
        BY <1>0, <1>2, <2>1
<1>3. CASE submit.kind = "view"
    <2>1. PICK mid : mid = [shown EXCEPT !.credentials = Credentials]
        BY Zenon
    <2>2. page = [mid EXCEPT !.dialog = TRUE]
        BY <1>3, <2>1, Zenon DEF Applied
    <2>3. /\ mid \in PageType /\ mid.identities = shown.identities /\ mid.domains = shown.domains
          /\ mid.credentials = Credentials
        BY <1>0, <1>3, <2>1, Zenon
    <2> QED
        BY <1>0, <1>3, <2>2, <2>3, Zenon
<1>4. CASE submit.kind = "updateForwarding"
    <2>1. page = [shown EXCEPT !.editingIdentityId = Nothing]
        BY <1>4, Zenon DEF Applied
    <2> QED
        BY <1>4, <2>1, Zenon
<1>5. CASE submit.kind = "delete"
    <2>1. page = shown
        BY <1>5, Zenon DEF Applied
    <2> QED
        BY <1>5, <2>1, Zenon
<1> QED
    BY <1>1, <1>2, <1>3, <1>4, <1>5, Zenon

LEMMA SubmitDeliveredKeeps ==
    ASSUME SenderInv, SubmitDelivered
    PROVE  SenderInv'
<1> USE SenderAssumption DEF SenderInv, StoredType, PageType, SubmitType
<1>a. PICK page : page = Applied
    BY Zenon
<1>b. submit.at = "answered" /\ UNCHANGED <<stored, checks, auth>>
    BY Zenon DEF SubmitDelivered
<1>c. /\ page \in PageType
      /\ page.identities = shown.identities
      /\ submit.kind # "createDomain" => page.domains = shown.domains
      /\ submit.kind = "createDomain" =>
            page.domains = [shown.domains EXCEPT ![submit.on] = "pending"]
      /\ submit.kind \in {"createIdentity", "rotate", "view"} =>
            /\ page.credentials \in [identity : Identities, key : Nat]
            /\ page.credentials.identity = submit.on /\ page.credentials.key = submit.key
      /\ submit.kind # "view" => page.dialog = shown.dialog
      /\ submit.kind \notin {"createIdentity", "rotate", "view"} =>
            page.credentials = shown.credentials
    BY <1>a, <1>b, AppliedIs, Zenon
<1>d. /\ submit.kind = "createDomain" /\ loads["domains"].at # "idle" => "domains" \in doubt'
      /\ submit.kind \notin {"createIdentity", "rotate", "view"} /\ "credentials" \in doubt =>
            "credentials" \in doubt'
      /\ "domains" \in doubt => "domains" \in doubt'
      /\ "identities" \in doubt => "identities" \in doubt'
    BY Zenon DEF SubmitDelivered
<1>e. submit.kind \in OnIdentity \cup {"createDomain"} /\ auth # "hydrating"
    BY <1>b, Zenon DEF SenderTypes, SubmitInv, Quiet
<1>1. CASE submit.kind \in Reloads /\ auth = "in"
    <2>0. /\ loads' = [loads EXCEPT !["reload"].at = "sent"]
          /\ busy' = busy \cup {"isLoading"}
          /\ submit' = [submit EXCEPT !.at = "reloading"]
          /\ shown' = page
        BY <1>1, <1>a, Zenon DEF SubmitDelivered
    <2>1. SenderTypes'
        BY <1>b, <1>c, <2>0 DEF SenderTypes, PageType, LoadNames, Check
    <2>2. SubmitInv'
        BY <1>1, <1>b, <2>0, Zenon DEF SenderTypes, SubmitInv, LoadNames
    <2>3. IdentitiesInv'
        BY <1>1, <1>b, <2>0 DEF SenderTypes, SubmitInv, IdentitiesInv, Changed, LoadNames
    <2>4. KnownInv'
        BY <1>1, <1>b, <1>c, <2>0 DEF SenderTypes, KnownInv, Created, Reloads, LoadNames
    <2>5. DomainsInv'
        BY <1>1, <1>b, <1>c, <1>d, <2>0 DEF SenderTypes, DomainsInv, Created, Reloads, LoadNames
    <2>6. CredentialsInv'
        BY <1>1, <1>b, <1>c, <1>d, <2>0, Zenon
        DEF SenderTypes, SubmitInv, CredentialsInv, Valid, Reloads
    <2> QED
        BY <2>1, <2>2, <2>3, <2>4, <2>5, <2>6, Zenon
<1>2. CASE ~(submit.kind \in Reloads /\ auth = "in")
    <2>0. /\ UNCHANGED loads
          /\ busy' = busy \ {"isSubmitting"}
          /\ submit' = NoSubmit
          /\ shown' = AfterReload(page)
        BY <1>2, <1>a, Zenon DEF SubmitDelivered
    <2>a. /\ shown' \in PageType /\ shown'.identities = page.identities
          /\ shown'.domains = page.domains /\ shown'.credentials = page.credentials
          /\ submit.kind \notin Reloads => shown'.dialog = page.dialog
        BY <1>c, <2>0, Zenon DEF AfterReload, PageType, Reloads
    <2>b. /\ submit'.kind = "none" /\ submit'.at = "idle"
          /\ submit' \in SubmitType
        BY <2>0, Zenon DEF NoSubmit
    <2>1. SenderTypes'
        BY <1>b, <2>0, <2>a, <2>b, Zenon DEF SenderTypes, PageType, Check
    <2>2. SubmitInv'
        BY <1>b, <1>e, <2>0, <2>b, Zenon DEF SenderTypes, SubmitInv, OnIdentity
    <2>3. IdentitiesInv'
        BY <1>2, <1>b, <1>c, <1>d, <2>0, <2>a, ZenonT(40) DEF SubmitInv, IdentitiesInv, Changed
    <2>4. KnownInv'
        BY <1>b, <1>c, <2>0, <2>a, <2>b, SMTT(30)
        DEF SenderTypes, SubmitInv, DomainRows, KnownInv, Created
    <2>5. DomainsInv'
        BY <1>b, <1>c, <1>d, <2>0, <2>a, <2>b, SMTT(30)
        DEF SenderTypes, SubmitInv, DomainRows, DomainsInv, Created, Check
    <2>6. CredentialsInv'
        BY <1>2, <1>b, <1>c, <1>d, <1>e, <2>0, <2>a, <2>b, SMTT(30)
        DEF SenderTypes, SubmitInv, CredentialsInv, Valid, Reloads, OnIdentity
    <2> QED
        BY <2>1, <2>2, <2>3, <2>4, <2>5, <2>6, Zenon
<1> QED
    BY <1>1, <1>2, Zenon

LEMMA SubmitRejectedKeeps ==
    ASSUME SenderInv, SubmitRejected
    PROVE  SenderInv'
<1> USE SenderAssumption DEF SenderInv, StoredType, PageType, SubmitType
<1>1. SenderTypes'
    BY Zenon DEF SenderTypes, Statuses, IdentityRows, DomainRows, LoadNames, OnIdentity, Check,
           SubmitInv, SubmitRejected, NoSubmit
<1>2. SubmitInv'
    BY Zenon DEF SenderTypes, LoadNames, SubmitInv, OnIdentity, Quiet, Reloads, SubmitRejected,
                 NoSubmit
<1>3. IdentitiesInv'
    BY Zenon DEF SenderTypes, LoadNames, IdentitiesInv, Changed, Reloads, SubmitInv,
           SubmitRejected, NoSubmit
<1>4. KnownInv'
    BY ZenonT(40) DEF SenderTypes, LoadNames, KnownInv, Created, Statuses, DomainRows, SubmitInv,
           SubmitRejected, NoSubmit
<1>5. DomainsInv'
    BY DEF SenderTypes, LoadNames, DomainsInv, Created, SubmitInv, SubmitRejected, NoSubmit
<1>6. CredentialsInv'
    BY Zenon DEF SenderTypes, LoadNames, CredentialsInv, Valid, SubmitInv, SubmitRejected, NoSubmit
<1> QED
    BY <1>1, <1>2, <1>3, <1>4, <1>5, <1>6, Zenon

LEMMA CheckAnsweredKeeps ==
    ASSUME NEW c \in checks, NEW found \in {"pending", "verified"}, SenderInv,
           CheckAnswered(c, found)
    PROVE  SenderInv'
<1> USE SenderAssumption DEF SenderInv, StoredType, PageType, SubmitType
<1>a. PICK new : new = [c EXCEPT !.at = "answered", !.status = found]
    BY Zenon
<1>b. /\ c \in Check /\ new \in Check /\ new.domain = c.domain
      /\ new.at = "answered" /\ new.status = found
    BY <1>a, Zenon DEF SenderTypes, Check, Statuses
<1>c. /\ c.at = "sent"
      /\ checks' = (checks \ {c}) \cup {new}
      /\ stored' = [stored EXCEPT !.domains[c.domain] = found]
      /\ UNCHANGED <<shown, busy, loads, submit, doubt, auth>>
    BY <1>a, Zenon DEF CheckAnswered
<1>d. /\ stored' \in StoredType /\ stored'.identities = stored.identities
      /\ stored'.domains = [stored.domains EXCEPT ![c.domain] = found]
    BY <1>b, <1>c, Zenon DEF SenderTypes, StoredType, DomainRows, Statuses, Check
<1>e. c.domain \in Domains /\ stored.domains[c.domain] # "absent" /\ stored.domains \in DomainRows
    BY <1>b, ZenonT(40) DEF SenderTypes, KnownInv, Check
<1>1. SenderTypes'
    <2>1. \A e \in checks' :
            e \in Check /\ (e.at = "answered" => e.status \in {"pending", "verified"})
        BY <1>b, <1>c, Zenon DEF SenderTypes
    <2> QED
        BY <1>c, <1>d, <2>1 DEF SenderTypes, StoredType
<1>2. SubmitInv'
    BY Zenon DEF SenderTypes, LoadNames, SubmitInv, OnIdentity, Quiet, Reloads, CheckAnswered
<1>3. IdentitiesInv'
    BY Zenon DEF SenderTypes, LoadNames, IdentitiesInv, Changed, Reloads, SubmitInv, CheckAnswered
<1>4. KnownInv'
    <2> SUFFICES ASSUME NEW d \in Domains, stored'.domains[d] = "absent"
                 PROVE  /\ shown.domains[d] = "absent" /\ ~Created(d)
                        /\ loads["domains"].at = "answered" => loads["domains"].rows[d] = "absent"
                        /\ \A e \in checks' : e.domain # d
        BY <1>c, Zenon DEF KnownInv, Created
    <2>1. d # c.domain /\ stored.domains[d] = "absent"
        BY <1>d, <1>e DEF DomainRows
    <2> QED
        BY <1>b, <1>c, <2>1, Zenon DEF KnownInv
<1>5. DomainsInv'
    <2> SUFFICES ASSUME auth = "in", "domains" \notin doubt
                 PROVE  DomainsInv'
        BY <1>c, Zenon DEF DomainsInv
    <2>1. \A e \in checks : e # c => e.domain # c.domain
        BY ZenonT(40) DEF DomainsInv
    <2>2. /\ loads["domains"].at = "idle"
          /\ \A e \in checks' : ~Created(e.domain)
        BY <1>b, <1>c DEF SenderTypes, DomainsInv
    <2>3. \A e, g \in checks' : e.domain = g.domain => e = g
        BY <1>b, <1>c, <2>1 DEF DomainsInv
    <2>4. \A e \in checks' : e.at = "answered" => stored'.domains[e.domain] = e.status
        BY <1>b, <1>c, <1>d, <1>e, <2>1 DEF DomainsInv, SenderTypes, DomainRows, Check
    <2>5. ASSUME NEW d \in Domains
          PROVE  /\ Created(d) => stored'.domains[d] = "pending"
                 /\ \/ Created(d)
                    \/ shown.domains[d] = stored'.domains[d]
                    \/ \E e \in checks' : e.domain = d /\ e.at = "answered"
        <3>1. CASE d = c.domain
            BY <1>b, <1>c, <3>1, Zenon DEF DomainsInv
        <3>2. CASE d # c.domain
            <4>1. stored'.domains[d] = stored.domains[d]
                BY <1>d, <1>e, <3>2 DEF DomainRows
            <4>2. \A e \in checks : e.domain = d => e \in checks'
                BY <1>c, <3>2, Zenon
            <4> QED
                BY <2>2, <4>1, <4>2, ZenonT(40) DEF DomainsInv
        <3> QED
            BY <3>1, <3>2, Zenon
    <2> QED
        BY <1>c, <2>2, <2>3, <2>4, <2>5 DEF DomainsInv, Created
<1>6. CredentialsInv'
    BY Zenon DEF SenderTypes, LoadNames, CredentialsInv, Valid, SubmitInv, CheckAnswered
<1> QED
    BY <1>1, <1>2, <1>3, <1>4, <1>5, <1>6, Zenon

LEMMA CheckDeliveredKeeps ==
    ASSUME NEW c \in checks, SenderInv, CheckDelivered(c)
    PROVE  SenderInv'
<1> USE SenderAssumption DEF SenderInv, StoredType, PageType, SubmitType
<1>1. SenderTypes'
    BY SMTT(30) DEF SenderTypes, Statuses, IdentityRows, DomainRows, LoadNames, OnIdentity, Check,
           SubmitInv, CheckDelivered
<1>2. SubmitInv'
    BY Zenon DEF SenderTypes, LoadNames, SubmitInv, OnIdentity, Quiet, Reloads, CheckDelivered
<1>3. IdentitiesInv'
    BY Zenon DEF SenderTypes, LoadNames, IdentitiesInv, Changed, Reloads, SubmitInv, CheckDelivered
<1>4. KnownInv'
    BY SMTT(30) DEF SenderTypes, LoadNames, KnownInv, Created, Statuses, DomainRows, SubmitInv,
           CheckDelivered
<1>5. DomainsInv'
    <2> SUFFICES ASSUME auth = "in", "domains" \notin doubt
                 PROVE  DomainsInv'
        BY Zenon DEF DomainsInv, CheckDelivered
    <2>a. /\ checks' = checks \ {c} /\ c \in Check /\ c.at = "answered"
          /\ shown'.domains = [shown.domains EXCEPT ![c.domain] = c.status]
          /\ UNCHANGED <<stored, loads, submit, doubt, auth>>
        BY Zenon DEF CheckDelivered, SenderTypes
    <2>b. stored.domains[c.domain] = c.status /\ loads["domains"].at = "idle"
        BY <2>a, Zenon DEF DomainsInv
    <2>1. ASSUME NEW d \in Domains
          PROVE  \/ Created(d)
                 \/ shown'.domains[d] = stored.domains[d]
                 \/ \E e \in checks' : e.domain = d /\ e.at = "answered"
        <3>1. CASE d = c.domain
            BY <2>a, <2>b, <3>1, ZenonT(40) DEF SenderTypes, DomainRows
        <3>2. CASE d # c.domain
            BY <2>a, <2>b, <3>2 DEF SenderTypes, DomainRows, DomainsInv
        <3> QED
            BY <3>1, <3>2, Zenon
    <2> QED
        BY <2>a, <2>b, <2>1 DEF DomainsInv, Created
<1>6. CredentialsInv'
    BY ZenonT(40) DEF SenderTypes, LoadNames, CredentialsInv, Valid, SubmitInv, CheckDelivered
<1> QED
    BY <1>1, <1>2, <1>3, <1>4, <1>5, <1>6, Zenon

LEMMA CheckFailsKeeps ==
    ASSUME NEW c \in checks, SenderInv, CheckFails(c)
    PROVE  SenderInv'
<1> USE SenderAssumption DEF SenderInv, StoredType, PageType, SubmitType
<1>1. SenderTypes'
    BY DEF SenderTypes, Statuses, IdentityRows, DomainRows, LoadNames, OnIdentity, Check,
           SubmitInv, CheckFails
<1>2. SubmitInv'
    BY Zenon DEF SenderTypes, LoadNames, SubmitInv, OnIdentity, Quiet, Reloads, CheckFails
<1>3. IdentitiesInv'
    BY ZenonT(40) DEF SenderTypes, LoadNames, IdentitiesInv, Changed, Reloads, SubmitInv, CheckFails
<1>4. KnownInv'
    BY SMTT(30) DEF SenderTypes, LoadNames, KnownInv, Created, Statuses, DomainRows, SubmitInv,
                    CheckFails
<1>5. DomainsInv'
    BY DEF SenderTypes, LoadNames, DomainsInv, Created, SubmitInv, CheckFails
<1>6. CredentialsInv'
    BY Zenon DEF SenderTypes, LoadNames, CredentialsInv, Valid, SubmitInv, CheckFails
<1> QED
    BY <1>1, <1>2, <1>3, <1>4, <1>5, <1>6, Zenon

LEMMA SenderStep ==
    ASSUME SenderInv, SenderNext
    PROVE  SenderInv'
<1> USE SenderAssumption DEF SenderInv, StoredType, PageType, SubmitType
<1>1. CASE \E d \in Domains : createDomain(d)
    <2> PICK d \in Domains : createDomain(d)
        BY <1>1, Zenon
    <2> QED
        BY BeginKeeps, Zenon DEF createDomain, OnIdentity
<1>2. CASE \E f \in Forwards : updateForwarding(f)
    <2> PICK f \in Forwards : updateForwarding(f)
        BY <1>2, Zenon
    <2>1. shown.editingIdentityId \in Identities
        BY Zenon DEF updateForwarding, SenderTypes
    <2> QED
        BY <2>1, BeginKeeps, Zenon DEF updateForwarding, OnIdentity
<1>3. CASE \E f \in Forwards, i \in Identities : createIdentity(i, f)
    <2> PICK f \in Forwards, i \in Identities : createIdentity(i, f)
        BY <1>3, Zenon
    <2> QED
        BY BeginKeeps, Zenon DEF createIdentity, OnIdentity
<1>4. CASE \E i \in Identities : viewCredentials(i) \/ deleteIdentity(i)
    <2> PICK i \in Identities : viewCredentials(i) \/ deleteIdentity(i)
        BY <1>4, Zenon
    <2> QED
        BY BeginKeeps, Zenon DEF viewCredentials, deleteIdentity, Row, OnIdentity
<1>5. CASE rotateCurrentCredentials
    <2>1. shown.credentials.identity \in Identities
        BY <1>5, Zenon DEF rotateCurrentCredentials, SenderTypes
    <2> QED
        BY <1>5, <2>1, BeginKeeps, Zenon DEF rotateCurrentCredentials, OnIdentity
<1>6. CASE \E i \in Identities : editForwarding(i)
    <2> PICK i \in Identities : editForwarding(i)
        BY <1>6, Zenon
    <2> QED
        BY EditKeeps, Zenon DEF editForwarding
<1>7. CASE cancelForwardingEdit
    BY <1>7, EditKeeps, Zenon DEF cancelForwardingEdit
<1>8. CASE closeCredentialsDialog
    <2>1. auth # "hydrating"
        BY <1>8 DEF closeCredentialsDialog, SubmitInv, BlankPage
    <2> QED
        BY <1>8, <2>1, EditKeeps, Zenon DEF closeCredentialsDialog
<1>9. CASE \E l \in DOMAIN loads : LoadAnswered(l) \/ LoadDelivered(l) \/ LoadFails(l)
    <2>1. DOMAIN loads = LoadNames
        BY Zenon DEF SenderTypes
    <2> QED
        BY <1>9, <2>1, LoadAnsweredKeeps, LoadDeliveredKeeps, LoadFailsKeeps, Zenon
<1>10. CASE \E c \in checks : \/ \E found \in {"pending", "verified"} : CheckAnswered(c, found)
                              \/ CheckDelivered(c)
                              \/ CheckFails(c)
    BY <1>10, CheckAnsweredKeeps, CheckDeliveredKeeps, CheckFailsKeeps, Zenon
<1>11. CASE SenderSignIn \/ SenderSignOut \/ \E d \in Domains : checkDomain(d)
    BY <1>11, SignInKeeps, SignOutKeeps, CheckKeeps, Zenon
<1>12. CASE SubmitAnswered \/ SubmitFails \/ SubmitDelivered \/ SubmitRejected
    BY <1>12, SubmitAnsweredKeeps, SubmitFailsKeeps, SubmitDeliveredKeeps, SubmitRejectedKeeps,
       Zenon
<1> QED
    BY <1>1, <1>2, <1>3, <1>4, <1>5, <1>6, <1>7, <1>8, <1>9, <1>10, <1>11, <1>12, Zenon
    DEF SenderNext, SenderReader, SenderNetwork

LEMMA SenderStarts == WebInit => SenderInv
<1> SUFFICES ASSUME WebInit
             PROVE  SenderInv
    BY Zenon
<1> USE SenderAssumption DEF WebInit, SenderInit, VisitInit
<1>1. PICK d \in Domains, i \in Identities, f \in Forwards :
        stored = [domains    |-> [e \in Domains |-> IF e = d THEN "verified" ELSE "absent"],
                  identities |-> [j \in Identities |-> IF j = i THEN f ELSE Nothing],
                  key        |-> [j \in Identities |-> 0]]
    BY Zenon
<1>2. stored \in StoredType
    BY <1>1, Zenon DEF StoredType, DomainRows, Statuses, IdentityRows
<1>3. shown \in PageType
    BY Zenon DEF PageType, BlankPage, DomainRows, Statuses, IdentityRows
<1>4. SenderTypes
    BY <1>2, <1>3, Zenon
    DEF SenderTypes, SubmitType, LoadNames, Idle, NoSubmit, OnIdentity
<1>5. SubmitInv /\ IdentitiesInv /\ CredentialsInv
    BY Zenon DEF SubmitInv, IdentitiesInv, CredentialsInv, NoSubmit, Idle, Quiet, OnIdentity
<1>6. KnownInv /\ DomainsInv
    BY Zenon DEF KnownInv, DomainsInv, Created, NoSubmit, Idle, BlankPage
<1> QED
    BY <1>4, <1>5, <1>6, Zenon DEF SenderInv

\* When nothing is under way the sender identities page shows what the server
\* holds, but for the known exceptions, however its requests, reloads and
\* checks overlap (smtpIdentities.js).
THEOREM SenderPageAlwaysCurrent == WebSpec => []SenderPageCurrent
<1> DEFINE Inv == part = "smtp-relay" => SenderInv
<1>1. WebInit => Inv
    BY SenderStarts, Zenon
<1>2. ASSUME Inv, [WebNext]_web
      PROVE  Inv'
    <2> SUFFICES ASSUME part' = "smtp-relay"
                 PROVE  SenderInv'
        BY Zenon
    <2>1. part = "smtp-relay"
        <3>1. UNCHANGED beyondLog \/ UNCHANGED beyondSender \/ UNCHANGED beyondBridge
                \/ UNCHANGED web
            BY <1>2, Zenon DEF WebNext
        <3> QED
            BY <3>1, Zenon DEF web, beyondLog, beyondSender, beyondBridge
    <2>2. CASE SenderNext
        BY <1>2, <2>1, <2>2, SenderStep, Zenon
    <2>3. CASE UNCHANGED web
        <3>1. UNCHANGED <<auth, stored, shown, busy, loads, submit, checks, doubt>>
            BY <2>3, Zenon DEF web, vars, controls, senderVars
        <3>2. SenderInv
            BY <1>2, <2>1, Zenon
        <3>3. SenderTypes'
            BY <3>1, <3>2, Zenon DEF SenderInv, SenderTypes
        <3>4. SubmitInv' /\ IdentitiesInv'
            BY <3>1, <3>2, ZenonT(40) DEF SenderInv, SubmitInv, IdentitiesInv, Changed, Quiet
        <3>5. KnownInv' /\ DomainsInv'
            BY <3>1, <3>2 DEF SenderInv, KnownInv, DomainsInv, Created
        <3>6. CredentialsInv'
            BY <3>1, <3>2, Zenon DEF SenderInv, CredentialsInv, Valid
        <3> QED
            BY <3>3, <3>4, <3>5, <3>6, Zenon DEF SenderInv
    <2> QED
        BY <1>2, <2>1, <2>2, <2>3, Zenon DEF WebNext
<1>3. Inv => SenderPageCurrent
    <2> SUFFICES ASSUME SenderInv, auth = "in", Quiet
                 PROVE  /\ "identities" \in doubt \/ shown.identities = stored.identities
                        /\ "domains" \in doubt \/ shown.domains = stored.domains
                        /\ shown.dialog /\ "credentials" \notin doubt => Valid
        BY Zenon DEF SenderPageCurrent, ShowsStored, Valid
    <2>0. submit.at = "idle" /\ checks = {} /\ \A l \in LoadNames : loads[l].at = "idle"
        BY Zenon DEF SenderInv, SenderTypes, Quiet
    <2>1. "identities" \in doubt \/ shown.identities = stored.identities
        BY <2>0, Zenon DEF SenderInv, IdentitiesInv, Changed, LoadNames
    <2>2. "domains" \in doubt \/ \A d \in Domains : shown.domains[d] = stored.domains[d]
        BY <2>0, Zenon DEF SenderInv, DomainsInv, Created, LoadNames
    <2>3. shown.domains \in DomainRows /\ stored.domains \in DomainRows
        BY Zenon DEF SenderInv, SenderTypes, StoredType, PageType
    <2>4. "domains" \in doubt \/ shown.domains = stored.domains
        BY <2>2, <2>3 DEF DomainRows
    <2>5. shown.dialog /\ "credentials" \notin doubt => Valid
        BY <2>0, Zenon DEF SenderInv, CredentialsInv
    <2> QED
        BY <2>1, <2>4, <2>5, Zenon
<1> QED
    BY <1>1, <1>2, <1>3, PTL DEF WebSpec

-----------------------------------------------------------------------------
(* The event log *)

\* The site is the event log, by itself, for the reader who is on its page: what
\* holds of every behaviour of the log holds there.
THEOREM LogIsFollowed == WebSpec /\ part = "event-log" => LogSpec
<1>1. WebInit => Init
    BY Zenon DEF WebInit
<1>2. ASSUME part = "event-log", [WebNext]_web
      PROVE  [Next]_vars /\ (part = "event-log")'
    <2>1. CASE UNCHANGED web
        BY <1>2, <2>1, Zenon DEF web
    <2>2. CASE WebNext
        BY <1>2, <2>2 DEF WebNext, beyondLog
    <2> QED
        BY <1>2, <2>1, <2>2, Zenon
<1> QED
    BY <1>1, <1>2, PTL DEF WebSpec, LogSpec
=============================================================================
