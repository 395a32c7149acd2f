--------------------------- MODULE SmtpSubmission ---------------------------
(***************************************************************************)
(* The SMTP submission server (internal/smtpsubmission/server.go): one     *)
(* goroutine per connection, all sharing the throttle.  A command is one   *)
(* step, except the two that leave the server between a reservation and    *)
(* its settlement: AUTH (while the authenticator looks the credentials up) *)
(* and DATA (while the body is read, and while the relay delivers it).     *)
(***************************************************************************)
EXTENDS SmtpThrottle

CONSTANTS
    Sessions,          \* connection slots, reused after a close
    MaxRecipients,
    AllowInsecureAuth, \* config.AllowInsecureAuth
    TLSAvailable,      \* config.TLSConfig # nil
    None

ASSUME ServerAssumption ==
    /\ MaxRecipients \in Nat \ {0}
    /\ AllowInsecureAuth \in BOOLEAN
    /\ TLSAvailable \in BOOLEAN
    /\ None \notin AuthKeys
    /\ IsFiniteSet(Sessions)

VARIABLES
    phase,      \* closed, or where the goroutine of the connection is
    host,       \* the remote host of the connection
    session,    \* sessionState
    call,       \* the reservation of the AUTH or relay call in progress
    \* history
    failed,     \* failed[k][a]: logins of key k that failed, by the age of
                \*   their reservation, since the key was last cleared
    accepted    \* accepted[k][a]: messages relayed for identity k, likewise

historyVars == <<failed, accepted>>
vars == <<throttleVars, phase, host, session, call, historyVars>>

Phases == {"closed", "command", "auth", "data", "relay"}

SessionState == [secure : BOOLEAN,
                 authenticated : Identities \cup {None},
                 mailFrom : Identities \cup {None},
                 recipients : 0..MaxRecipients]

NewSession(secure) ==
    [secure |-> secure, authenticated |-> None, mailFrom |-> None, recipients |-> 0]

\* overtaken: the key was cleared by another session since the reservation.
NoCall == [key |-> None, age |-> 0, overtaken |-> FALSE]
CallOn(key) == [key |-> key, age |-> 0, overtaken |-> FALSE]

Envelope(state, mailFrom, recipients) ==
    [secure |-> state.secure, authenticated |-> state.authenticated,
     mailFrom |-> mailFrom, recipients |-> recipients]

ResetMail(s) == session' = [session EXCEPT ![s] = Envelope(@, None, 0)]
GoTo(s, p) == phase' = [phase EXCEPT ![s] = p]

Init ==
    /\ InitThrottle
    /\ phase = [s \in Sessions |-> "closed"]
    /\ host \in [Sessions -> Hosts]
    /\ session = [s \in Sessions |-> NewSession(FALSE)]
    /\ call = [s \in Sessions |-> NoCall]
    /\ failed = [k \in AuthKeys |-> [a \in 0..AuthFailureWindow - 1 |-> 0]]
    /\ accepted = [k \in Identities |-> [a \in 0..MessageWindow - 1 |-> 0]]

-----------------------------------------------------------------------------
(* Connections *)

\* Serve: a connection over the limits gets a 421 and changes nothing.
Accept(s, h, implicitTLS) ==
    /\ phase[s] = "closed"
    /\ implicitTLS => TLSAvailable
    /\ acquireSession(h)
    /\ GoTo(s, "command")
    /\ host' = [host EXCEPT ![s] = h]
    /\ session' = [session EXCEPT ![s] = NewSession(implicitTLS)]
    /\ UNCHANGED <<windowVars, call, historyVars>>

\* QUIT, a failing read or write, a deadline, a failed TLS handshake.
Close(s) ==
    /\ phase[s] = "command"
    /\ releaseSession(host[s])
    /\ GoTo(s, "closed")
    /\ session' = [session EXCEPT ![s] = NewSession(FALSE)]
    /\ UNCHANGED <<windowVars, host, call, historyVars>>

\* A faulty form of the handler below: the envelope survives the handshake.
StartTLSKeepsMail(s) ==
    /\ phase[s] = "command"
    /\ TLSAvailable /\ ~session[s].secure
    /\ session' = [session EXCEPT ![s].secure = TRUE, ![s].authenticated = None]
    /\ UNCHANGED <<throttleVars, phase, host, call, historyVars>>

\* The handshake forgets everything the client said in the clear.
StartTLS(s) ==
    /\ phase[s] = "command"
    /\ TLSAvailable /\ ~session[s].secure
    /\ session' = [session EXCEPT ![s] = NewSession(TRUE)]
    /\ UNCHANGED <<throttleVars, phase, host, call, historyVars>>

-----------------------------------------------------------------------------
(* AUTH *)

MayAuthenticate(s) ==
    /\ phase[s] = "command"
    /\ session[s].authenticated = None
    /\ session[s].secure \/ AllowInsecureAuth

\* Credentials that cannot be decoded have no username: they are charged to
\* the host and rejected at once.
AuthMalformed(s) ==
    LET key == host[s]
    IN  /\ MayAuthenticate(s)
        /\ reserveAuthAttempt(key)
        /\ failed' = IF AuthAllowed(key) THEN [failed EXCEPT ![key][0] = @ + 1]
                     ELSE failed
        /\ UNCHANGED <<sessionLimitVars, acceptedMessagesByKey, phase, host, session,
                       call, accepted>>

\* completeAuthAttempt up to the call of the authenticator; a throttled
\* attempt gets a 454.
BeginAuth(s, user) ==
    /\ MayAuthenticate(s)
    /\ reserveAuthAttempt(user)
    /\ IF AuthAllowed(user)
       THEN GoTo(s, "auth") /\ call' = [call EXCEPT ![s] = CallOn(user)]
       ELSE UNCHANGED <<phase, call>>
    /\ UNCHANGED <<sessionLimitVars, acceptedMessagesByKey, host, session, historyVars>>

\* The authenticator says yes: the reservation clears its key, and with it
\* what other sessions have reserved there.
AuthAccepted(s) ==
    LET user == call[s].key
    IN  /\ phase[s] = "auth"
        /\ clearAuthFailures(user)
        /\ session' = [session EXCEPT ![s] = [@ EXCEPT !.authenticated = user]]
        /\ GoTo(s, "command")
        /\ call' = [t \in Sessions |->
                IF t = s THEN NoCall
                ELSE IF phase[t] = "auth" /\ call[t].key = user
                     THEN [call[t] EXCEPT !.overtaken = TRUE]
                     ELSE call[t]]
        /\ failed' = [failed EXCEPT ![user] = [a \in 0..AuthFailureWindow - 1 |-> 0]]
        /\ UNCHANGED <<sessionLimitVars, acceptedMessagesByKey, host, accepted>>

\* The authenticator says no: the reservation stays as a failure.
AuthRejected(s) ==
    /\ phase[s] = "auth"
    /\ GoTo(s, "command")
    /\ call' = [call EXCEPT ![s] = NoCall]
    /\ failed' = IF call[s].overtaken \/ call[s].age >= AuthFailureWindow THEN failed
                 ELSE [failed EXCEPT ![call[s].key][call[s].age] = @ + 1]
    /\ UNCHANGED <<throttleVars, host, session, accepted>>

-----------------------------------------------------------------------------
(* MAIL, RCPT, RSET *)

\* handleMail: only the address of the authenticated identity passes.
Mail(s, address) ==
    /\ phase[s] = "command"
    /\ session[s].authenticated # None
    /\ address = session[s].authenticated
    /\ session' = [session EXCEPT ![s] = Envelope(@, address, 0)]
    /\ UNCHANGED <<throttleVars, phase, host, call, historyVars>>

Recipient(s) ==
    /\ phase[s] = "command"
    /\ session[s].mailFrom # None
    /\ session[s].recipients < MaxRecipients
    /\ session' = [session EXCEPT ![s] = Envelope(@, @.mailFrom, @.recipients + 1)]
    /\ UNCHANGED <<throttleVars, phase, host, call, historyVars>>

Rset(s) ==
    /\ phase[s] = "command"
    /\ ResetMail(s)
    /\ UNCHANGED <<throttleVars, phase, host, call, historyVars>>

-----------------------------------------------------------------------------
(* DATA *)

BeginData(s) ==
    /\ phase[s] = "command"
    /\ session[s].authenticated # None
    /\ session[s].mailFrom # None
    /\ session[s].recipients > 0
    /\ GoTo(s, "data")
    /\ UNCHANGED <<throttleVars, host, session, call, historyVars>>

\* A read that fails or times out inside the body: handleData returns and the
\* command loop carries on with the envelope it had.
DataReadFails(s) ==
    /\ phase[s] = "data"
    /\ GoTo(s, "command")
    /\ UNCHANGED <<throttleVars, host, session, call, historyVars>>

\* Too large, or a From header that is not the identity's address.
DataRejected(s) ==
    /\ phase[s] = "data"
    /\ ResetMail(s)
    /\ GoTo(s, "command")
    /\ UNCHANGED <<throttleVars, host, call, historyVars>>

\* relayAcceptedMessage up to the call of the relay.
BeginRelay(s) ==
    LET identity == session[s].authenticated
    IN  /\ phase[s] = "data"
        /\ reserveAcceptedMessage(identity)
        /\ IF MessageAllowed(identity)
           THEN /\ GoTo(s, "relay")
                /\ call' = [call EXCEPT ![s] = CallOn(identity)]
                /\ UNCHANGED session
           ELSE /\ GoTo(s, "command")
                /\ ResetMail(s)
                /\ UNCHANGED call
        /\ UNCHANGED <<sessionLimitVars, authFailuresByKey, host, historyVars>>

EndRelay(s) ==
    /\ phase[s] = "relay"
    /\ ResetMail(s)
    /\ GoTo(s, "command")
    /\ call' = [call EXCEPT ![s] = NoCall]

RelayAccepted(s) ==
    /\ EndRelay(s)
    /\ accepted' = IF call[s].age >= MessageWindow THEN accepted
                   ELSE [accepted EXCEPT ![call[s].key][call[s].age] = @ + 1]
    /\ UNCHANGED <<throttleVars, host, failed>>

\* A permanent or temporary error gives the slot back.
RelayRejected(s) ==
    /\ EndRelay(s)
    /\ cancelMessageReservation(call[s].key, call[s].age)
    /\ UNCHANGED <<sessionLimitVars, authFailuresByKey, host, historyVars>>

-----------------------------------------------------------------------------
Shift(counts) == [a \in DOMAIN counts |-> IF a = 0 THEN 0 ELSE counts[a - 1]]

CallWindow(s) == IF phase[s] = "relay" THEN MessageWindow ELSE AuthFailureWindow

Tick ==
    /\ UNCHANGED <<phase, host, session, sessionLimitVars>>
    /\ AgeWindows
    /\ call' = [s \in Sessions |->
            IF call[s] = NoCall THEN NoCall
            ELSE [call[s] EXCEPT !.age = Older(@, CallWindow(s))]]
    /\ failed' = [k \in AuthKeys |-> Shift(failed[k])]
    /\ accepted' = [k \in Identities |-> Shift(accepted[k])]

Command(s) ==
    \/ StartTLS(s)
    \/ AuthMalformed(s)
    \/ \E user \in Identities : BeginAuth(s, user)
    \/ \E address \in Identities : Mail(s, address)
    \/ Recipient(s)
    \/ Rset(s)
    \/ BeginData(s)

Answer(s) ==
    \/ AuthAccepted(s)
    \/ AuthRejected(s)
    \/ DataReadFails(s)
    \/ DataRejected(s)
    \/ BeginRelay(s)
    \/ RelayAccepted(s)
    \/ RelayRejected(s)

Next ==
    \/ \E s \in Sessions, h \in Hosts, implicitTLS \in BOOLEAN :
            Accept(s, h, implicitTLS)
    \/ \E s \in Sessions : Command(s) \/ Answer(s) \/ Close(s)
    \/ Tick

Spec == Init /\ [][Next]_vars

\* Time passes; nothing else is needed for a limit to be lifted.
FairSpec == Spec /\ WF_vars(Tick)

-----------------------------------------------------------------------------
(* Properties *)

Open == {s \in Sessions : phase[s] # "closed"}
OpenFrom(h) == {s \in Open : host[s] = h}

\* The counters of the throttle are the connections that are really open, in
\* total and per host, whatever the order in which goroutines acquire and
\* release: no slot leaks and none is given back twice.
SessionsAccounted ==
    /\ activeSessions = Cardinality(Open)
    /\ \A h \in Hosts : activeSessionsByHost[h] = Cardinality(OpenFrom(h))

Occurrences(events, age) == Cardinality({i \in DOMAIN events : events[i] = age})

Calls(p, key, age) ==
    {s \in Sessions : phase[s] = p /\ call[s].key = key /\ call[s].age = age}

\* Every slot of an identity's message window stands for a message relayed at
\* that time or for a relay call still running, every slot of a key's failure
\* window for a login that failed since the last success or is still running.
SlotsAccounted ==
    /\ \A k \in Identities, a \in 0..MessageWindow - 1 :
            Occurrences(acceptedMessagesByKey[k], a) =
                accepted[k][a] + Cardinality(Calls("relay", k, a))
    /\ \A k \in AuthKeys, a \in 0..AuthFailureWindow - 1 :
            Occurrences(authFailuresByKey[k], a) =
                failed[k][a] + Cardinality({s \in Calls("auth", k, a) : ~call[s].overtaken})

\* What was counted at all the ages inside a window.
InWindow(counts, window) ==
    LET upTo[n \in 0..window] == IF n = 0 THEN 0 ELSE upTo[n - 1] + counts[n - 1]
    IN  upTo[window]

\* "60 accepted messages per SMTP identity per hour", "5 AUTH failures per
\* credential username per 10 minutes" (since the last success), sessions in
\* total and per host: the limits hold for what was really accepted, what
\* really failed and what is really open, and they are not stricter than that:
\* concurrent failures and successes give back exactly their own slots.
LimitsHold ==
    /\ SlotsAccounted
    /\ Cardinality(Open) <= MaxConcurrentSessions
    /\ \A h \in Hosts : Cardinality(OpenFrom(h)) <= MaxSessionsPerRemoteHost
    /\ \A k \in Identities : InWindow(accepted[k], MessageWindow) <= MessageLimit
    /\ \A k \in AuthKeys : InWindow(failed[k], AuthFailureWindow) <= AuthFailureLimit

\* A message is handed to the relay only for an authenticated sender, on a
\* channel where it was allowed to authenticate, under its own address and
\* with recipients named after the last MAIL, RSET or STARTTLS.
RelayIsAuthorised ==
    \A s \in Sessions :
        /\ session[s].recipients > 0 => session[s].mailFrom # None
        /\ session[s].mailFrom # None => session[s].mailFrom = session[s].authenticated
        /\ session[s].authenticated # None => session[s].secure \/ AllowInsecureAuth
        /\ phase[s] = "relay" => session[s].recipients > 0 /\ call[s].key = session[s].mailFrom

\* A limit that is reached does not stay reached: again and again an identity
\* may send and a key may log in, once the window has passed, though running
\* calls go on reserving slots.
LimitsLifted ==
    /\ \A k \in Identities : []<>MessageAllowed(k)
    /\ \A k \in AuthKeys : []<>AuthAllowed(k)
=============================================================================
