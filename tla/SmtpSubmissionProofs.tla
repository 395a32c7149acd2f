------------------------ MODULE SmtpSubmissionProofs ------------------------
(***************************************************************************)
(* Proofs about SmtpSubmission for every number of connections, hosts and  *)
(* identities and for every limit: its counters are the connections that   *)
(* are open, what is relayed is authorised, and every slot of a window     *)
(* stands for a login or a message, so that the limits hold.               *)
(***************************************************************************)
EXTENDS SmtpSubmission, FiniteSetTheorems, WellFoundedInduction, TLAPS

-----------------------------------------------------------------------------
(* Session counters *)

SessionsInv ==
    /\ phase \in [Sessions -> Phases]
    /\ host \in [Sessions -> Hosts]
    /\ activeSessionsByHost \in [Hosts -> Nat]
    /\ SessionsAccounted

\* The open connections are finitely many.
LEMMA OpenFinite ==
    /\ IsFiniteSet(Open)
    /\ \A h \in Hosts : IsFiniteSet(OpenFrom(h))
BY ServerAssumption, FS_Subset, Zenon DEF Open, OpenFrom

LEMMA InitSessions == Init => SessionsInv
<1>. SUFFICES ASSUME Init PROVE SessionsInv
  BY Zenon
<1>1. Open = {} /\ \A h \in Hosts : OpenFrom(h) = {}
  BY Zenon DEF Init, Open, OpenFrom
<1>. QED
  BY <1>1, FS_EmptySet, Zenon DEF Init, InitThrottle, SessionsInv, SessionsAccounted, Phases

\* A connection that is admitted is counted once, for its own host.
LEMMA AcceptSessions ==
    ASSUME SessionsInv, NEW s \in Sessions, NEW h \in Hosts, NEW tls \in BOOLEAN,
           Accept(s, h, tls)
    PROVE  SessionsInv'
<1>. USE DEF SessionsInv
<1>0. /\ phase[s] = "closed" /\ phase' = [phase EXCEPT ![s] = "command"]
      /\ host' = [host EXCEPT ![s] = h]
      /\ activeSessions' = activeSessions + 1
      /\ activeSessionsByHost' = [activeSessionsByHost EXCEPT ![h] = @ + 1]
  BY Zenon DEF Accept, GoTo, acquireSession
<1>1. /\ s \notin Open /\ Open' = Open \cup {s}
      /\ s \notin OpenFrom(h)
  BY <1>0, Zenon DEF Open, OpenFrom
<1>2. ASSUME NEW g \in Hosts
      PROVE  OpenFrom(g)' = IF g = h THEN OpenFrom(g) \cup {s} ELSE OpenFrom(g)
  BY <1>0, Zenon DEF Open, OpenFrom
<1>3. Cardinality(Open') = Cardinality(Open) + 1
  BY <1>1, OpenFinite, FS_AddElement, Zenon
<1>4. ASSUME NEW g \in Hosts
      PROVE  Cardinality(OpenFrom(g)') =
                IF g = h THEN Cardinality(OpenFrom(g)) + 1 ELSE Cardinality(OpenFrom(g))
  <2>1. CASE g = h
    <3>1. OpenFrom(g)' = OpenFrom(g) \cup {s} /\ s \notin OpenFrom(g)
      BY <1>1, <1>2, <2>1, Zenon
    <3>2. IsFiniteSet(OpenFrom(g))
      BY OpenFinite, Zenon
    <3>. QED
      BY <2>1, <3>1, <3>2, FS_AddElement, Zenon
  <2>2. CASE g # h
    BY <1>2, <2>2, Zenon
  <2>. QED
    BY <2>1, <2>2, Zenon
<1>5. phase' \in [Sessions -> Phases] /\ host' \in [Sessions -> Hosts]
      /\ activeSessionsByHost' \in [Hosts -> Nat]
  BY <1>0 DEF Phases
<1>6. SessionsAccounted'
  BY <1>0, <1>3, <1>4, Zenon DEF SessionsAccounted
<1>. QED
  BY <1>5, <1>6, Zenon

\* The guards of releaseSession never bite: both counters are positive when a
\* connection closes.
LEMMA CloseSessions ==
    ASSUME SessionsInv, NEW s \in Sessions, Close(s)
    PROVE  SessionsInv'
<1>. USE DEF SessionsInv
<1>. DEFINE h == host[s]
<1>0. /\ h \in Hosts
      /\ phase[s] = "command" /\ phase' = [phase EXCEPT ![s] = "closed"]
      /\ host' = host
      /\ releaseSession(h)
  BY Zenon DEF Close, GoTo
<1>1. /\ s \in Open /\ Open' = Open \ {s}
      /\ s \in OpenFrom(h)
  BY <1>0, Zenon DEF Open, OpenFrom
<1>2. ASSUME NEW g \in Hosts
      PROVE  OpenFrom(g)' = IF g = h THEN OpenFrom(g) \ {s} ELSE OpenFrom(g)
  BY <1>0, Zenon DEF Open, OpenFrom
<1>3. /\ Cardinality(Open') = Cardinality(Open) - 1
      /\ Cardinality(Open) \in Nat /\ Cardinality(Open') \in Nat
  BY <1>1, OpenFinite, FS_RemoveElement, FS_CardinalityType, Zenon
<1>4. /\ Cardinality(OpenFrom(h) \ {s}) = Cardinality(OpenFrom(h)) - 1
      /\ Cardinality(OpenFrom(h)) \in Nat /\ Cardinality(OpenFrom(h) \ {s}) \in Nat
  BY <1>0, <1>1, OpenFinite, FS_RemoveElement, FS_CardinalityType, Zenon
<1>5. activeSessions' = Cardinality(Open')
  BY <1>0, <1>3 DEF releaseSession, SessionsAccounted
<1>6. ASSUME NEW g \in Hosts
      PROVE  activeSessionsByHost'[g] = Cardinality(OpenFrom(g)')
  <2>1. CASE g = h
    BY <1>0, <1>2, <1>4, <2>1 DEF releaseSession, SessionsAccounted
  <2>2. CASE g # h
    BY <1>0, <1>2, <2>2, Zenon DEF releaseSession, SessionsAccounted
  <2>. QED
    BY <2>1, <2>2, Zenon
<1>7. phase' \in [Sessions -> Phases] /\ host' \in [Sessions -> Hosts]
      /\ activeSessionsByHost' \in [Hosts -> Nat]
  BY <1>0 DEF Phases, releaseSession
<1>. QED
  BY <1>5, <1>6, <1>7, Zenon DEF SessionsAccounted

\* A step that opens and closes nothing leaves the counters right.
LEMMA SameSessions ==
    ASSUME SessionsInv, phase' \in [Sessions -> Phases],
           \A s \in Sessions : phase'[s] = "closed" <=> phase[s] = "closed",
           UNCHANGED <<host, sessionLimitVars>>
    PROVE  SessionsInv'
<1>1. Open' = Open
  BY Zenon DEF Open
<1>2. \A h \in Hosts : OpenFrom(h)' = OpenFrom(h)
  BY <1>1, Zenon DEF OpenFrom
<1>. QED
  BY <1>1, <1>2, Zenon DEF SessionsInv, SessionsAccounted, sessionLimitVars

LEMMA CommandSessions ==
    ASSUME SessionsInv, NEW s \in Sessions, Command(s)
    PROVE  SessionsInv'
<1>1. /\ phase' \in [Sessions -> Phases]
      /\ \A t \in Sessions : phase'[t] = "closed" <=> phase[t] = "closed"
  BY Zenon DEF SessionsInv, Phases, Command, StartTLS, AuthMalformed, BeginAuth,
         MayAuthenticate, Mail, Recipient, Rset, BeginData, GoTo
<1>2. UNCHANGED <<host, sessionLimitVars>>
  BY Zenon DEF Command, StartTLS, AuthMalformed, BeginAuth, Mail, Recipient, Rset,
         BeginData, throttleVars
<1>. QED
  BY <1>1, <1>2, SameSessions, Zenon

LEMMA AnswerSessions ==
    ASSUME SessionsInv, NEW s \in Sessions, Answer(s)
    PROVE  SessionsInv'
<1>1. /\ phase' \in [Sessions -> Phases]
      /\ \A t \in Sessions : phase'[t] = "closed" <=> phase[t] = "closed"
  BY Zenon DEF SessionsInv, Phases, Answer, AuthAccepted, AuthRejected, DataReadFails,
         DataRejected, BeginRelay, RelayAccepted, RelayRejected, EndRelay, GoTo
<1>2. UNCHANGED <<host, sessionLimitVars>>
  BY Zenon DEF Answer, AuthAccepted, AuthRejected, DataReadFails, DataRejected, BeginRelay,
         RelayAccepted, RelayRejected, throttleVars
<1>. QED
  BY <1>1, <1>2, SameSessions, Zenon

LEMMA NextSessions == SessionsInv /\ [Next]_vars => SessionsInv'
<1>. SUFFICES ASSUME SessionsInv, [Next]_vars PROVE SessionsInv'
  BY Zenon
<1>1. CASE Tick \/ UNCHANGED vars
  <2>1. UNCHANGED <<phase, host, sessionLimitVars>>
    BY <1>1, Zenon DEF Tick, vars, throttleVars
  <2>. QED
    BY <2>1, SameSessions, Zenon DEF SessionsInv
<1>. QED
  BY <1>1, AcceptSessions, CommandSessions, AnswerSessions, CloseSessions DEF Next

\* However many connections come and go, the counters of the throttle are the
\* connections that are open.
THEOREM SessionsAlwaysAccounted == Spec => []SessionsAccounted
<1>1. SessionsInv => SessionsAccounted
  BY Zenon DEF SessionsInv
<1>. QED
  BY <1>1, InitSessions, NextSessions, PTL DEF Spec

-----------------------------------------------------------------------------
(* What is relayed *)

Call == [key : AuthKeys \cup {None}, age : Nat, overtaken : BOOLEAN]

\* The state of one connection: its phase, its sessionState and the call it
\* has in progress.
Authorised(p, state, c) ==
    /\ p \in Phases /\ state \in SessionState /\ c \in Call
    /\ state.recipients > 0 => state.mailFrom # None
    /\ state.mailFrom # None => state.mailFrom = state.authenticated
    /\ state.authenticated # None => state.secure \/ AllowInsecureAuth
    /\ p = "auth" => /\ state.authenticated = None
                     /\ state.secure \/ AllowInsecureAuth
                     /\ c.key \in Identities
    /\ p \in {"data", "relay"} => state.mailFrom # None /\ state.recipients > 0
    /\ p = "relay" => c.key = state.authenticated

AuthorisedInv ==
    /\ phase \in [Sessions -> Phases]
    /\ session \in [Sessions -> SessionState]
    /\ call \in [Sessions -> Call]
    /\ \A s \in Sessions : Authorised(phase[s], session[s], call[s])

\* It is enough to look at the connection that moves.
LEMMA OthersAuthorised ==
    ASSUME AuthorisedInv, NEW s \in Sessions, NEW p, NEW state, NEW c,
           phase' = [phase EXCEPT ![s] = p],
           session' = [session EXCEPT ![s] = state],
           call' = [call EXCEPT ![s] = c],
           Authorised(p, state, c)
    PROVE  AuthorisedInv'
BY DEF AuthorisedInv, Authorised

\* Sessions, envelopes and calls as records.
LEMMA SessionRecords ==
    /\ \A b \in BOOLEAN :
        /\ NewSession(b) \in SessionState
        /\ NewSession(b).secure = b
        /\ NewSession(b).authenticated = None
        /\ NewSession(b).mailFrom = None
        /\ NewSession(b).recipients = 0
    /\ \A state \in SessionState, from \in Identities \cup {None}, n \in 0..MaxRecipients :
        /\ Envelope(state, from, n) \in SessionState
        /\ Envelope(state, from, n).secure = state.secure
        /\ Envelope(state, from, n).authenticated = state.authenticated
        /\ Envelope(state, from, n).mailFrom = from
        /\ Envelope(state, from, n).recipients = n
    /\ NoCall \in Call /\ NoCall.key = None
    /\ \A k \in AuthKeys : CallOn(k) \in Call /\ CallOn(k).key = k
BY ServerAssumption DEF NewSession, Envelope, SessionState, NoCall, CallOn, Call

LEMMA InitAuthorised == Init => AuthorisedInv
<1>. SUFFICES ASSUME Init PROVE AuthorisedInv
  BY Zenon
<1>1. Authorised("closed", NewSession(FALSE), NoCall)
  <2>1. ASSUME NEW b \in BOOLEAN
        PROVE  Authorised("closed", NewSession(b), NoCall)
    BY SessionRecords DEF Authorised, Phases
  <2>. QED
    BY <2>1, Zenon
<1>2. /\ phase = [s \in Sessions |-> "closed"]
      /\ session = [s \in Sessions |-> NewSession(FALSE)]
      /\ call = [s \in Sessions |-> NoCall]
  BY Zenon DEF Init
<1>. QED
  BY <1>1, <1>2, SessionRecords, Zenon DEF AuthorisedInv, Phases

LEMMA ConnectionAuthorised ==
    ASSUME AuthorisedInv, NEW s \in Sessions,
           \/ \E h \in Hosts, tls \in BOOLEAN : Accept(s, h, tls)
           \/ Close(s)
           \/ StartTLS(s)
    PROVE  AuthorisedInv'
<1>1. PICK p \in {"closed", "command"}, b \in BOOLEAN :
            /\ phase' = [phase EXCEPT ![s] = p]
            /\ session' = [session EXCEPT ![s] = NewSession(b)]
            /\ call' = [call EXCEPT ![s] = call[s]]
  BY Zenon DEF Accept, Close, StartTLS, GoTo, AuthorisedInv
<1>2. Authorised(p, NewSession(b), call[s])
  BY SessionRecords DEF Authorised, AuthorisedInv, Phases
<1>. QED
  BY <1>1, <1>2, OthersAuthorised, Zenon

LEMMA BeginAuthAuthorised ==
    ASSUME AuthorisedInv, NEW s \in Sessions, NEW user \in Identities,
           BeginAuth(s, user)
    PROVE  AuthorisedInv'
<1>1. CASE UNCHANGED <<phase, session, call>>
  BY <1>1, Zenon DEF AuthorisedInv
<1>2. CASE /\ MayAuthenticate(s)
           /\ phase' = [phase EXCEPT ![s] = "auth"]
           /\ session' = session
           /\ call' = [call EXCEPT ![s] = CallOn(user)]
  <2>1. Authorised("auth", session[s], CallOn(user))
    BY <1>2, SessionRecords
       DEF MayAuthenticate, Authorised, AuthorisedInv, Phases, AuthKeys
  <2>2. session' = [session EXCEPT ![s] = session[s]]
    BY <1>2, Zenon DEF AuthorisedInv
  <2>. QED
    BY <1>2, <2>1, <2>2, OthersAuthorised, Zenon
<1>. QED
  BY <1>1, <1>2, Zenon DEF BeginAuth, GoTo

LEMMA AuthAcceptedAuthorised ==
    ASSUME AuthorisedInv, NEW s \in Sessions, AuthAccepted(s)
    PROVE  AuthorisedInv'
<1>. DEFINE user == call[s].key
            state == [session[s] EXCEPT !.authenticated = user]
<1>0. /\ Authorised(phase[s], session[s], call[s]) /\ phase[s] = "auth"
      /\ user \in Identities /\ session[s] \in SessionState
      /\ session[s].authenticated = None
  BY Zenon DEF AuthAccepted, AuthorisedInv, Authorised
<1>1. /\ state \in SessionState /\ state.authenticated = user
      /\ state.secure = session[s].secure /\ state.mailFrom = session[s].mailFrom
      /\ state.recipients = session[s].recipients
  BY <1>0, Zenon DEF SessionState
<1>2. phase' = [phase EXCEPT ![s] = "command"] /\ session' = [session EXCEPT ![s] = state]
  BY Zenon DEF AuthAccepted, GoTo
<1>. HIDE DEF state
<1>3. Authorised("command", state, NoCall)
  BY <1>0, <1>1, SessionRecords, Zenon DEF Authorised, Phases
<1>4. /\ call'[s] = NoCall
      /\ \A t \in Sessions \ {s} : call'[t] \in Call /\ call'[t].key = call[t].key
  BY Zenon DEF AuthAccepted, AuthorisedInv, Call
<1>5. call' \in [Sessions -> Call]
  BY <1>4, SessionRecords, Zenon DEF AuthAccepted
<1>6. ASSUME NEW t \in Sessions PROVE Authorised(phase'[t], session'[t], call'[t])
  BY <1>2, <1>3, <1>4 DEF AuthorisedInv, Authorised
<1>7. phase' \in [Sessions -> Phases] /\ session' \in [Sessions -> SessionState]
  BY <1>1, <1>2, Zenon DEF AuthorisedInv, Phases
<1>. QED
  BY <1>5, <1>6, <1>7, Zenon DEF AuthorisedInv

LEMMA AuthRejectedAuthorised ==
    ASSUME AuthorisedInv, NEW s \in Sessions, AuthRejected(s) \/ DataReadFails(s)
    PROVE  AuthorisedInv'
<1>1. PICK c \in {NoCall, call[s]} :
            /\ phase' = [phase EXCEPT ![s] = "command"]
            /\ session' = [session EXCEPT ![s] = session[s]]
            /\ call' = [call EXCEPT ![s] = c]
  BY Zenon DEF AuthRejected, DataReadFails, GoTo, AuthorisedInv
<1>2. Authorised("command", session[s], c)
  BY SessionRecords DEF AuthorisedInv, Authorised, Phases
<1>. QED
  BY <1>1, <1>2, OthersAuthorised, Zenon

\* A new envelope is in order if its sender is the authenticated identity.
LEMMA EnvelopeStep ==
    ASSUME AuthorisedInv, NEW s \in Sessions,
           NEW from \in Identities \cup {None}, NEW n \in 0..MaxRecipients,
           NEW c \in {NoCall, call[s]},
           n > 0 => from # None,
           from # None => from = session[s].authenticated,
           phase' = [phase EXCEPT ![s] = "command"],
           session' = [session EXCEPT ![s] = Envelope(session[s], from, n)],
           call' = [call EXCEPT ![s] = c]
    PROVE  AuthorisedInv'
<1>0. Authorised(phase[s], session[s], call[s]) /\ session[s] \in SessionState
  BY Zenon DEF AuthorisedInv
<1>1. Authorised("command", Envelope(session[s], from, n), c)
  BY <1>0, SessionRecords DEF Authorised, Phases
<1>. QED
  BY <1>1, OthersAuthorised, Zenon

LEMMA MailAuthorised ==
    ASSUME AuthorisedInv, NEW s \in Sessions, NEW address \in Identities,
           Mail(s, address)
    PROVE  AuthorisedInv'
<1>. DEFINE n == 0
<1>1. /\ phase' = [phase EXCEPT ![s] = "command"]
      /\ session' = [session EXCEPT ![s] = Envelope(session[s], address, n)]
      /\ call' = [call EXCEPT ![s] = call[s]]
      /\ address = session[s].authenticated
  BY Zenon DEF Mail, AuthorisedInv
<1>2. n \in 0..MaxRecipients /\ ~(n > 0)
  BY ServerAssumption
<1>. HIDE DEF n
<1>. QED
  BY <1>1, <1>2, EnvelopeStep, Zenon

LEMMA RecipientAuthorised ==
    ASSUME AuthorisedInv, NEW s \in Sessions, Recipient(s)
    PROVE  AuthorisedInv'
<1>. DEFINE from == session[s].mailFrom
            n == session[s].recipients + 1
<1>1. /\ phase' = [phase EXCEPT ![s] = "command"]
      /\ session' = [session EXCEPT ![s] = Envelope(session[s], from, n)]
      /\ call' = [call EXCEPT ![s] = call[s]]
  BY Zenon DEF Recipient, AuthorisedInv
<1>2. /\ from \in Identities \cup {None} /\ from # None
      /\ from = session[s].authenticated
      /\ n \in 0..MaxRecipients
  BY ServerAssumption DEF Recipient, AuthorisedInv, Authorised, SessionState
<1>. HIDE DEF from, n
<1>. QED
  BY <1>1, <1>2, EnvelopeStep, Zenon

\* RSET, a rejected body and the end of a relay call forget the envelope.
LEMMA ResetAuthorised ==
    ASSUME AuthorisedInv, NEW s \in Sessions, ResetMail(s),
           NEW c \in {NoCall, call[s]},
           phase' = [phase EXCEPT ![s] = "command"],
           call' = [call EXCEPT ![s] = c]
    PROVE  AuthorisedInv'
<1>. DEFINE n == 0
<1>1. session' = [session EXCEPT ![s] = Envelope(session[s], None, n)]
  BY Zenon DEF ResetMail
<1>2. n \in 0..MaxRecipients /\ ~(n > 0)
  BY ServerAssumption
<1>. HIDE DEF n
<1>. QED
  BY <1>1, <1>2, EnvelopeStep, Zenon

LEMMA EndOfMailAuthorised ==
    ASSUME AuthorisedInv, NEW s \in Sessions,
           Rset(s) \/ DataRejected(s) \/ RelayAccepted(s) \/ RelayRejected(s)
    PROVE  AuthorisedInv'
<1>1. /\ ResetMail(s)
      /\ phase' = [phase EXCEPT ![s] = "command"]
  BY Zenon DEF Rset, DataRejected, RelayAccepted, RelayRejected, EndRelay, GoTo, AuthorisedInv
<1>2. \E c \in {NoCall, call[s]} : call' = [call EXCEPT ![s] = c]
  BY Zenon DEF Rset, DataRejected, RelayAccepted, RelayRejected, EndRelay, AuthorisedInv
<1>. QED
  BY <1>1, <1>2, ResetAuthorised, Zenon

LEMMA DataAuthorised ==
    ASSUME AuthorisedInv, NEW s \in Sessions, BeginData(s) \/ BeginRelay(s)
    PROVE  AuthorisedInv'
<1>0. Authorised(phase[s], session[s], call[s])
  BY Zenon DEF AuthorisedInv
<1>1. CASE BeginData(s)
  <2>1. Authorised("data", session[s], call[s])
    BY <1>0, <1>1, Zenon DEF BeginData, Authorised, Phases
  <2>2. /\ phase' = [phase EXCEPT ![s] = "data"]
        /\ session' = [session EXCEPT ![s] = session[s]]
        /\ call' = [call EXCEPT ![s] = call[s]]
    BY <1>1, Zenon DEF BeginData, GoTo, AuthorisedInv
  <2>. QED
    BY <2>1, <2>2, OthersAuthorised, Zenon
<1>2. CASE BeginRelay(s) /\ MessageAllowed(session[s].authenticated)
  <2>. DEFINE identity == session[s].authenticated
  <2>0. identity \in Identities
    BY <1>0, <1>2, Zenon DEF BeginRelay, Authorised, SessionState
  <2>1. Authorised("relay", session[s], CallOn(identity))
    BY <1>0, <1>2, <2>0, SessionRecords DEF BeginRelay, Authorised, Phases, AuthKeys
  <2>2. /\ phase' = [phase EXCEPT ![s] = "relay"]
        /\ session' = [session EXCEPT ![s] = session[s]]
        /\ call' = [call EXCEPT ![s] = CallOn(identity)]
    BY <1>2, Zenon DEF BeginRelay, GoTo, AuthorisedInv
  <2>. QED
    BY <2>1, <2>2, OthersAuthorised, Zenon
<1>3. CASE BeginRelay(s) /\ ~MessageAllowed(session[s].authenticated)
  <2>1. /\ ResetMail(s) /\ phase' = [phase EXCEPT ![s] = "command"]
        /\ call' = [call EXCEPT ![s] = call[s]]
    BY <1>3, Zenon DEF BeginRelay, GoTo, AuthorisedInv
  <2>. QED
    BY <2>1, ResetAuthorised, Zenon
<1>. QED
  BY <1>1, <1>2, <1>3, Zenon

LEMMA TickAuthorised ==
    ASSUME AuthorisedInv, Tick
    PROVE  AuthorisedInv'
<1>1. ASSUME NEW s \in Sessions
      PROVE  call'[s] \in Call /\ call'[s].key = call[s].key
  BY WindowsAssumption DEF Tick, AuthorisedInv, Call, NoCall, Older, CallWindow
<1>2. call' \in [Sessions -> Call]
  BY <1>1, Zenon DEF Tick
<1>3. UNCHANGED <<phase, session>>
  BY Zenon DEF Tick
<1>. QED
  BY <1>1, <1>2, <1>3 DEF AuthorisedInv, Authorised

LEMMA NextAuthorised == AuthorisedInv /\ [Next]_vars => AuthorisedInv'
<1>. SUFFICES ASSUME AuthorisedInv, [Next]_vars PROVE AuthorisedInv'
  BY Zenon
<1>1. ASSUME NEW s \in Sessions, NEW h \in Hosts, NEW tls \in BOOLEAN,
             Accept(s, h, tls)
      PROVE  AuthorisedInv'
  BY <1>1, ConnectionAuthorised, Zenon
<1>2. ASSUME NEW s \in Sessions, Close(s) \/ StartTLS(s) PROVE AuthorisedInv'
  BY <1>2, ConnectionAuthorised, Zenon
<1>3. ASSUME NEW s \in Sessions, Command(s) PROVE AuthorisedInv'
  <2>1. CASE AuthMalformed(s)
    BY <2>1, Zenon DEF AuthMalformed, AuthorisedInv
  <2>2. ASSUME NEW user \in Identities, BeginAuth(s, user) \/ Mail(s, user)
        PROVE  AuthorisedInv'
    BY <2>2, BeginAuthAuthorised, MailAuthorised, Zenon
  <2>3. CASE StartTLS(s) \/ Recipient(s) \/ Rset(s) \/ BeginData(s)
    BY <1>2, <2>3, RecipientAuthorised, EndOfMailAuthorised, DataAuthorised
  <2>. QED
    BY <1>3, <2>1, <2>2, <2>3 DEF Command
<1>4. ASSUME NEW s \in Sessions, Answer(s) PROVE AuthorisedInv'
  BY <1>4, AuthAcceptedAuthorised, AuthRejectedAuthorised, EndOfMailAuthorised,
     DataAuthorised DEF Answer
<1>5. CASE Tick
  BY <1>5, TickAuthorised, Zenon
<1>6. CASE UNCHANGED vars
  BY <1>6 DEF vars, AuthorisedInv
<1>. QED
  BY <1>1, <1>2, <1>3, <1>4, <1>5, <1>6, Zenon DEF Next

\* Only authenticated senders relay, under their own address, over a channel
\* where authentication was allowed.
THEOREM AlwaysAuthorised == Spec => []RelayIsAuthorised
<1>1. AuthorisedInv => RelayIsAuthorised
  BY Zenon DEF AuthorisedInv, Authorised, RelayIsAuthorised
<1>. QED
  BY <1>1, InitAuthorised, NextAuthorised, PTL DEF Spec

-----------------------------------------------------------------------------
(* The windows of the throttle *)

LEMMA LeastPlace ==
    ASSUME NEW places, places \subseteq Nat, places # {}
    PROVE  First(places) \in places /\ \A i \in places : First(places) <= i
<1>1. PICK i \in places : \A j \in places : ~(<<j, i>> \in OpToRel(<, Nat))
  BY WFMin, NatLessThanWellFounded, Zenon
<1>2. \A j \in places : ~(j < i) /\ i \in Nat /\ j \in Nat
  BY <1>1, Zenon DEF OpToRel
<1>3. \A j \in places : i <= j
  BY <1>2
<1>. QED
  BY <1>3, Zenon DEF First

LEMMA NumbersInduction ==
    ASSUME NEW S, 0 \in S, \A n \in Nat : n \in S => n + 1 \in S
    PROVE  Nat \subseteq S
<1>. DEFINE rest == Nat \ S
<1>. SUFFICES ASSUME rest # {} PROVE FALSE
  BY Zenon
<1>1. First(rest) \in rest /\ \A i \in rest : First(rest) <= i
  <2>1. rest \subseteq Nat
    BY Zenon
  <2>. HIDE DEF rest
  <2>. QED
    BY <2>1, LeastPlace, Zenon
<1>2. PICK m : m = First(rest)
  BY Zenon
<1>3. m \in Nat /\ m # 0 /\ m \notin S
  BY <1>1, <1>2, Zenon
<1>4. m - 1 \in Nat /\ (m - 1) + 1 = m /\ ~(m <= m - 1)
  BY <1>3
<1>. QED
  BY <1>1, <1>2, <1>3, <1>4, Zenon

Places(events, age) == {i \in DOMAIN events : events[i] = age}

LEMMA IntervalSize ==
    ASSUME NEW n \in Nat
    PROVE  IsFiniteSet(1..n) /\ Cardinality(1..n) = n
BY FS_Interval

LEMMA SomePlaces ==
    ASSUME NEW T, NEW events \in Seq(T), NEW places \in SUBSET DOMAIN events
    PROVE  /\ IsFiniteSet(places) /\ Cardinality(places) \in Nat
           /\ Cardinality(places) <= Len(events)
<1>1. DOMAIN events = 1..Len(events) /\ Len(events) \in Nat
  OBVIOUS
<1>2. IsFiniteSet(1..Len(events)) /\ Cardinality(1..Len(events)) = Len(events)
  BY <1>1, IntervalSize, Zenon
<1>3. places \in SUBSET (1..Len(events))
  BY <1>1
<1>4. IsFiniteSet(places) /\ Cardinality(places) <= Cardinality(1..Len(events))
  BY <1>2, <1>3, FS_Subset, Zenon
<1>. QED
  BY <1>2, <1>4, FS_CardinalityType, Zenon

LEMMA OccurrencesType ==
    ASSUME NEW T, NEW events \in Seq(T), NEW age
    PROVE  /\ IsFiniteSet(Places(events, age))
           /\ Occurrences(events, age) \in Nat
           /\ Occurrences(events, age) = Cardinality(Places(events, age))
           /\ Occurrences(events, age) = 0 <=> Places(events, age) = {}
<1>1. Places(events, age) \in SUBSET DOMAIN events
  BY Zenon DEF Places
<1>2. Occurrences(events, age) = Cardinality(Places(events, age))
  BY Zenon DEF Occurrences, Places
<1>. QED
  BY <1>1, <1>2, SomePlaces, FS_EmptySet, Zenon

\* One more event.
LEMMA AppendOccurrences ==
    ASSUME NEW T, NEW events \in Seq(T), NEW e \in T, NEW age
    PROVE  /\ age = e => Occurrences(Append(events, e), age) = Occurrences(events, age) + 1
           /\ age # e => Occurrences(Append(events, e), age) = Occurrences(events, age)
<1>1. PICK longer : longer = Append(events, e)
  BY Zenon
<1>2. /\ longer \in Seq(T) /\ Len(events) \in Nat
      /\ DOMAIN longer = 1..(Len(events) + 1) /\ DOMAIN events = 1..Len(events)
      /\ longer[Len(events) + 1] = e
      /\ \A i \in 1..Len(events) : longer[i] = events[i]
  BY <1>1
<1>3. Len(events) + 1 \notin Places(events, age)
  BY <1>2 DEF Places
<1>4. /\ Occurrences(events, age) = Cardinality(Places(events, age))
      /\ Occurrences(longer, age) = Cardinality(Places(longer, age))
      /\ Occurrences(events, age) \in Nat /\ IsFiniteSet(Places(events, age))
  BY <1>2, OccurrencesType, Zenon
<1>5. CASE age = e
  <2>1. Places(longer, age) = Places(events, age) \cup {Len(events) + 1}
    BY <1>2, <1>5 DEF Places
  <2>2. Cardinality(Places(longer, age)) = Cardinality(Places(events, age)) + 1
    BY <1>3, <1>4, <2>1, FS_AddElement, Zenon
  <2>. QED
    BY <1>1, <1>4, <1>5, <2>2, Zenon
<1>6. CASE age # e
  <2>1. Places(longer, age) = Places(events, age)
    BY <1>2, <1>6 DEF Places
  <2>. QED
    BY <1>1, <1>4, <1>6, <2>1
<1>. QED
  BY <1>5, <1>6, Zenon

\* The places of a sequence and of a part of it that begins later.
LEMMA ShiftedPlaces ==
    ASSUME NEW S, IsFiniteSet(S), S \subseteq Int, NEW d \in Int
    PROVE  LET moved == {i + d : i \in S}
           IN  IsFiniteSet(moved) /\ Cardinality(moved) = Cardinality(S)
<1>. DEFINE moved == {i + d : i \in S}
            f == [i \in S |-> i + d]
<1>1. f \in [S -> moved]
  BY Zenon
<1>2. \A i, j \in S : f[i] = f[j] => i = j
  BY SMT
<1>3. \A m \in moved : \E i \in S : f[i] = m
  BY Zenon
<1>4. f \in Bijection(S, moved)
  BY <1>1, <1>2, <1>3, Zenon DEF Bijection, Injection, Surjection, IsInjective
<1>. QED
  BY <1>4, FS_Bijection, Zenon DEF ExistsBijection

\* Pruning keeps what is inside the window.
LEMMA PruneKeeps ==
    ASSUME NEW window \in Nat, NEW events \in Seq(0..window),
           NEW pruned, pruned = pruneWindow(events, window)
    PROVE  /\ pruned \in Seq(0..window) /\ Len(pruned) <= Len(events)
           /\ \A age \in 0..window - 1 : Occurrences(pruned, age) = Occurrences(events, age)
<1>. DEFINE kept == {i \in DOMAIN events : events[i] < window}
<1>1. DOMAIN events = 1..Len(events) /\ Len(events) \in Nat
  OBVIOUS
<1>2. CASE kept = {}
  <2>1. pruned = <<>>
    BY <1>2, Zenon DEF pruneWindow
  <2>2. ASSUME NEW age \in 0..window - 1
        PROVE  Occurrences(pruned, age) = 0 /\ Occurrences(events, age) = 0
    <3>1. age < window
      OBVIOUS
    <3>2. Places(events, age) = {}
      BY <1>2, <3>1, Zenon DEF Places
    <3>3. pruned \in Seq(0..window) /\ DOMAIN pruned = {}
      BY <2>1
    <3>4. Places(pruned, age) = {}
      BY <3>3, Zenon DEF Places
    <3>. QED
      BY <3>2, <3>3, <3>4, OccurrencesType, Zenon
  <2>3. pruned \in Seq(0..window) /\ Len(pruned) <= Len(events)
    BY <1>1, <2>1
  <2>. QED
    BY <2>2, <2>3, Zenon
<1>3. CASE kept # {}
  <2>1. PICK m : m = First(kept)
    BY Zenon
  <2>2. m \in kept /\ \A i \in kept : m <= i
    <3>1. kept \subseteq Nat
      BY <1>1
    <3>. HIDE DEF kept
    <3>. QED
      BY <1>3, <2>1, <3>1, LeastPlace, Zenon
  <2>3. m \in 1..Len(events)
    BY <1>1, <2>2, Zenon
  <2>4. pruned = SubSeq(events, m, Len(events))
    BY <1>3, <2>1, Zenon DEF pruneWindow
  <2>5. /\ pruned \in Seq(0..window) /\ Len(pruned) = Len(events) - m + 1
        /\ \A i \in 1..Len(pruned) : pruned[i] = events[i + (m - 1)]
    BY <1>1, <2>3, <2>4
  <2>6. ASSUME NEW age \in 0..window - 1
        PROVE  Occurrences(pruned, age) = Occurrences(events, age)
    <3>. DEFINE there == Places(pruned, age)
    <3>1. ASSUME NEW i \in DOMAIN events, events[i] = age
          PROVE  m <= i
      <4>1. age < window
        OBVIOUS
      <4>. QED
        BY <2>2, <3>1, <4>1, Zenon
    <3>2. DOMAIN pruned = 1..(Len(events) - m + 1) /\ Len(pruned) = Len(events) - m + 1
      BY <2>5
    <3>3. ASSUME NEW i \in Places(events, age)
          PROVE  i - (m - 1) \in there /\ (i - (m - 1)) + (m - 1) = i
      <4>1. i \in 1..Len(events) /\ events[i] = age /\ m <= i
        BY <1>1, <3>1, Zenon DEF Places
      <4>2. i - (m - 1) \in 1..Len(pruned) /\ (i - (m - 1)) + (m - 1) = i
        BY <1>1, <2>3, <3>2, <4>1
      <4>3. pruned[i - (m - 1)] = events[(i - (m - 1)) + (m - 1)]
        BY <2>5, <4>2, Zenon
      <4>. QED
        BY <3>2, <4>1, <4>2, <4>3, Zenon DEF Places
    <3>4. ASSUME NEW i \in there
          PROVE  i + (m - 1) \in Places(events, age)
      <4>1. i \in 1..Len(pruned) /\ pruned[i] = age
        BY <3>2, Zenon DEF Places
      <4>2. i + (m - 1) \in DOMAIN events
        BY <1>1, <2>3, <3>2, <4>1
      <4>. QED
        BY <2>5, <4>1, <4>2, Zenon DEF Places
    <3>5. /\ Occurrences(pruned, age) = Cardinality(there) /\ IsFiniteSet(there)
          /\ Occurrences(events, age) = Cardinality(Places(events, age))
      BY <2>5, OccurrencesType, Zenon
    <3>6. there \subseteq Int /\ m - 1 \in Int
      BY <2>3, <3>2 DEF Places
    <3>. HIDE DEF there
    <3>7. Places(events, age) = {i + (m - 1) : i \in there}
      BY <3>3, <3>4, Zenon
    <3>. QED
      BY <3>5, <3>6, <3>7, ShiftedPlaces, Zenon
  <2>7. Len(pruned) <= Len(events)
    BY <1>1, <2>3, <2>5
  <2>. QED
    BY <2>5, <2>6, <2>7, Zenon
<1>. QED
  BY <1>2, <1>3, Zenon

\* Time passes for a window.
LEMMA AgedOccurrences ==
    ASSUME NEW window \in Nat \ {0}, NEW events \in Seq(0..window),
           NEW aged, aged = [i \in DOMAIN events |-> Older(events[i], window)]
    PROVE  /\ aged \in Seq(0..window) /\ Len(aged) = Len(events)
           /\ Occurrences(aged, 0) = 0
           /\ \A age \in 1..window - 1 : Occurrences(aged, age) = Occurrences(events, age - 1)
<1>1. DOMAIN events = 1..Len(events) /\ Len(events) \in Nat
  OBVIOUS
<1>2. \A i \in DOMAIN events : aged[i] = Older(events[i], window) /\ aged[i] \in 0..window
  BY DEF Older
<1>3. aged \in Seq(0..window) /\ Len(aged) = Len(events) /\ DOMAIN aged = DOMAIN events
  <2>1. aged \in [1..Len(events) -> 0..window]
    BY <1>1, <1>2, Zenon
  <2>. QED
    BY <1>1, <2>1
<1>4. ASSUME NEW age \in 0..window - 1
      PROVE  /\ age = 0 => Occurrences(aged, age) = 0
             /\ age # 0 => Occurrences(aged, age) = Occurrences(events, age - 1)
  <2>1. ASSUME NEW i \in DOMAIN events
        PROVE  aged[i] = age <=> age # 0 /\ events[i] = age - 1
    <3>1. PICK e \in 0..window : e = events[i]
      BY <1>1
    <3>2. aged[i] = IF e < window THEN e + 1 ELSE window
      BY <1>2, <3>1, Zenon DEF Older
    <3>3. aged[i] = age <=> age # 0 /\ e = age - 1
      BY <3>2
    <3>. QED
      BY <3>1, <3>3, Zenon
  <2>2. CASE age = 0
    <3>1. Places(aged, age) = {}
      BY <1>3, <2>1, <2>2, Zenon DEF Places
    <3>2. Occurrences(aged, age) = 0
      BY <1>3, <3>1, OccurrencesType, Zenon
    <3>. QED
      BY <2>2, <3>2, Zenon
  <2>3. CASE age # 0
    <3>1. Places(aged, age) = Places(events, age - 1)
      BY <1>3, <2>1, <2>3, Zenon DEF Places
    <3>. QED
      BY <1>3, <2>3, <3>1, OccurrencesType, Zenon
  <2>. QED
    BY <2>2, <2>3, Zenon
<1>5. 0 \in 0..window - 1 /\ \A age \in 1..window - 1 : age \in 0..window - 1 /\ age # 0
  OBVIOUS
<1>. QED
  BY <1>3, <1>4, <1>5, Zenon

\* The first event of an age is taken out.
LEMMA WithoutOccurrences ==
    ASSUME NEW T, NEW events \in Seq(T), NEW age,
           NEW shorter, shorter = WithoutFirst(events, age)
    PROVE  /\ shorter \in Seq(T) /\ Len(shorter) <= Len(events)
           /\ \A b : b # age => Occurrences(shorter, b) = Occurrences(events, b)
           /\ Occurrences(events, age) # 0 =>
                    Occurrences(shorter, age) = Occurrences(events, age) - 1
<1>1. DOMAIN events = 1..Len(events) /\ Len(events) \in Nat
  OBVIOUS
<1>2. Places(events, age) = {i \in DOMAIN events : events[i] = age}
  BY Zenon DEF Places
<1>3. CASE Places(events, age) = {}
  <2>1. shorter = events
    BY <1>2, <1>3, Zenon DEF WithoutFirst
  <2>2. Occurrences(events, age) = 0
    BY <1>3, OccurrencesType, Zenon
  <2>. QED
    BY <1>1, <2>1, <2>2
<1>4. CASE Places(events, age) # {}
  <2>1. PICK m : m = First(Places(events, age))
    BY Zenon
  <2>2. m \in 1..Len(events) /\ events[m] = age
    <3>1. Places(events, age) \subseteq Nat
      BY <1>1 DEF Places
    <3>2. m \in Places(events, age)
      BY <1>4, <2>1, <3>1, LeastPlace, Zenon
    <3>. QED
      BY <1>1, <3>2, Zenon DEF Places
  <2>3. shorter = [i \in 1..Len(events) - 1 |-> IF i < m THEN events[i] ELSE events[i + 1]]
    BY <1>2, <1>4, <2>1, Zenon DEF WithoutFirst
  <2>4. shorter \in Seq(T) /\ Len(shorter) = Len(events) - 1
    <3>1. ASSUME NEW i \in 1..Len(events) - 1
          PROVE  (IF i < m THEN events[i] ELSE events[i + 1]) \in T
      BY <1>1, <2>2
    <3>2. shorter \in [1..Len(events) - 1 -> T] /\ Len(events) - 1 \in Nat
      BY <1>1, <2>2, <2>3, <3>1
    <3>. QED
      BY <3>2
  <2>5. ASSUME NEW b
        PROVE  Cardinality(Places(shorter, b)) = Cardinality(Places(events, b) \ {m})
    <3>. DEFINE f == [i \in Places(shorter, b) |-> IF i < m THEN i ELSE i + 1]
    <3>1. Places(shorter, b) \subseteq 1..Len(events) - 1
      BY <2>3 DEF Places
    <3>2. ASSUME NEW i \in Places(shorter, b)
          PROVE  f[i] \in Places(events, b) \ {m}
      <4>1. i \in 1..Len(events) - 1 /\ shorter[i] = b
        BY <2>3, Zenon DEF Places
      <4>2. f[i] \in 1..Len(events) /\ f[i] # m /\ shorter[i] = events[f[i]]
        BY <1>1, <2>2, <2>3, <4>1
      <4>. QED
        BY <1>1, <4>1, <4>2, Zenon DEF Places
    <3>3. f \in [Places(shorter, b) -> Places(events, b) \ {m}]
      BY <3>2, Zenon
    <3>4. \A i, j \in Places(shorter, b) : f[i] = f[j] => i = j
      BY <2>2, <3>1
    <3>5. ASSUME NEW j \in Places(events, b) \ {m}
          PROVE  \E i \in Places(shorter, b) : f[i] = j
      <4>1. j \in 1..Len(events) /\ events[j] = b /\ j # m
        BY <1>1, Zenon DEF Places
      <4>2. CASE j < m
        <5>1. j \in 1..Len(events) - 1 /\ shorter[j] = events[j]
          BY <1>1, <2>2, <2>3, <4>1, <4>2
        <5>2. j \in Places(shorter, b)
          BY <2>3, <4>1, <5>1, Zenon DEF Places
        <5>. QED
          BY <4>2, <5>2, Zenon
      <4>3. CASE ~(j < m)
        <5>1. j - 1 \in 1..Len(events) - 1 /\ ~(j - 1 < m) /\ (j - 1) + 1 = j
          BY <1>1, <2>2, <4>1, <4>3
        <5>2. shorter[j - 1] = events[j]
          BY <2>3, <5>1, Zenon
        <5>3. j - 1 \in Places(shorter, b)
          BY <2>3, <4>1, <5>1, <5>2, Zenon DEF Places
        <5>. QED
          BY <5>1, <5>3, Zenon
      <4>. QED
        BY <4>2, <4>3, Zenon
    <3>. HIDE DEF f
    <3>6. f \in Bijection(Places(shorter, b), Places(events, b) \ {m})
      BY <3>3, <3>4, <3>5, Zenon DEF Bijection, Injection, Surjection, IsInjective
    <3>7. IsFiniteSet(Places(shorter, b))
      BY <2>4, OccurrencesType, Zenon
    <3>. QED
      BY <3>6, <3>7, FS_Bijection, Zenon DEF ExistsBijection
  <2>6. Occurrences(events, age) # 0
    BY <1>4, OccurrencesType, Zenon
  <2>7. ASSUME NEW b
        PROVE  /\ b = age => Occurrences(shorter, b) = Occurrences(events, b) - 1
               /\ b # age => Occurrences(shorter, b) = Occurrences(events, b)
    <3>1. m \in Places(events, b) <=> b = age
      BY <1>1, <2>2, Zenon DEF Places
    <3>2. /\ Occurrences(shorter, b) = Cardinality(Places(shorter, b))
          /\ Occurrences(events, b) = Cardinality(Places(events, b))
          /\ IsFiniteSet(Places(events, b))
      BY <2>4, OccurrencesType, Zenon
    <3>. QED
      BY <2>5, <3>1, <3>2, FS_RemoveElement, Zenon
  <2>8. Len(shorter) <= Len(events)
    BY <1>1, <2>4
  <2>. QED
    BY <2>4, <2>6, <2>7, <2>8, Zenon
<1>. QED
  BY <1>3, <1>4, Zenon

\* What is counted at most as often as it occurs adds up to no more than there
\* are events.
LEMMA InWindowBound ==
    ASSUME NEW window \in Nat, NEW events \in Seq(0..window),
           NEW counts \in [0..window - 1 -> Nat],
           \A age \in 0..window - 1 : counts[age] <= Occurrences(events, age)
    PROVE  InWindow(counts, window) \in Nat /\ InWindow(counts, window) <= Len(events)
<1>. DEFINE Adds(f, n) == f = [k \in 0..n |-> IF k = 0 THEN 0 ELSE f[k - 1] + counts[k - 1]]
            S == {n \in Nat : \E f : Adds(f, n)}
<1>1. 0 \in S
  <2>. DEFINE f == [k \in 0..0 |-> 0]
  <2>1. Adds(f, 0)
    OBVIOUS
  <2>. QED
    BY <2>1, Zenon
<1>2. ASSUME NEW n \in Nat, n \in S
      PROVE  n + 1 \in S
  <2>1. PICK f : Adds(f, n)
    BY <1>2, Zenon
  <2>. DEFINE g == [k \in 0..(n + 1) |-> IF k <= n THEN f[k] ELSE f[n] + counts[n]]
  <2>2. ASSUME NEW k \in 0..(n + 1)
        PROVE  g[k] = IF k = 0 THEN 0 ELSE g[k - 1] + counts[k - 1]
    <3>1. CASE k = 0
      BY <2>1, <3>1
    <3>2. CASE k \in 1..n
      BY <2>1, <3>2
    <3>3. CASE k = n + 1
      BY <3>3
    <3>. QED
      BY <3>1, <3>2, <3>3
  <2>3. g = [k \in 0..(n + 1) |-> g[k]]
    BY Zenon
  <2>. HIDE DEF g
  <2>4. Adds(g, n + 1)
    BY <2>2, <2>3, Zenon
  <2>. HIDE DEF Adds
  <2>5. \E h : Adds(h, n + 1)
    BY <2>4, Zenon
  <2>. QED
    BY <2>5
<1>3. \E f : Adds(f, window)
  <2>. HIDE DEF S
  <2>1. window \in S
    BY <1>1, <1>2, NumbersInduction, Zenon
  <2>. QED
    BY <2>1, Zenon DEF S
<1>4. PICK sum : sum = CHOOSE f : Adds(f, window)
  BY Zenon
<1>5. Adds(sum, window)
  BY <1>3, <1>4, Zenon
<1>6. InWindow(counts, window) = sum[window]
  BY <1>4, Zenon DEF InWindow
<1>7. PICK newest : newest = [n \in Nat |-> {i \in DOMAIN events : events[i] < n}]
  BY Zenon
<1>8. DOMAIN events = 1..Len(events) /\ Len(events) \in Nat
  OBVIOUS
<1>9. ASSUME NEW n \in Nat
      PROVE  /\ IsFiniteSet(newest[n]) /\ Cardinality(newest[n]) \in Nat
             /\ Cardinality(newest[n]) <= Len(events)
  <2>1. newest[n] \in SUBSET DOMAIN events
    BY <1>7, Zenon
  <2>. QED
    BY <2>1, SomePlaces, Zenon
<1>. DEFINE U == {n \in Nat : n <= window => sum[n] \in Nat /\ sum[n] <= Cardinality(newest[n])}
<1>10. 0 \in U
  <2>1. sum[0] = 0
    BY <1>5
  <2>2. Cardinality(newest[0]) \in Nat
    BY <1>9, Zenon
  <2>. QED
    BY <2>1, <2>2
<1>11. ASSUME NEW n \in Nat, n \in U
       PROVE  n + 1 \in U
  <2>1. ASSUME n + 1 <= window
        PROVE  sum[n + 1] \in Nat /\ sum[n + 1] <= Cardinality(newest[n + 1])
    <3>1. n <= window /\ n \in 0..window - 1 /\ n + 1 \in 0..window /\ n + 1 # 0 /\ (n + 1) - 1 = n
      BY <2>1
    <3>2. sum[n] \in Nat /\ sum[n] <= Cardinality(newest[n])
      BY <1>11, <3>1, Zenon
    <3>3. sum[n + 1] = sum[n] + counts[n]
      BY <1>5, <3>1, Zenon
    <3>4. newest[n + 1] = newest[n] \cup Places(events, n) /\ newest[n] \cap Places(events, n) = {}
      BY <1>7, <1>8 DEF Places
    <3>5. /\ counts[n] \in Nat /\ counts[n] <= Cardinality(Places(events, n))
          /\ IsFiniteSet(Places(events, n)) /\ Cardinality(Places(events, n)) \in Nat
      BY <3>1, OccurrencesType, Zenon
    <3>6. IsFiniteSet(newest[n]) /\ Cardinality(newest[n]) \in Nat
      BY <1>9, Zenon
    <3>7. Cardinality(newest[n + 1]) =
              Cardinality(newest[n]) + Cardinality(Places(events, n)) - Cardinality({})
      BY <3>4, <3>5, <3>6, FS_Union, Zenon
    <3>8. Cardinality(newest[n + 1]) = Cardinality(newest[n]) + Cardinality(Places(events, n))
      BY <3>5, <3>6, <3>7, FS_EmptySet
    <3>. QED
      BY <3>2, <3>3, <3>5, <3>6, <3>8, SMTT(30)
  <2>2. n + 1 \in Nat
    OBVIOUS
  <2>. QED
    BY <2>1, <2>2, Zenon
<1>12. window \in U
  <2>. HIDE DEF U
  <2>. QED
    BY <1>10, <1>11, NumbersInduction, Zenon
<1>13. sum[window] \in Nat /\ sum[window] <= Cardinality(newest[window])
  <2>1. window <= window
    OBVIOUS
  <2>. QED
    BY <1>12, <2>1, Zenon
<1>14. Cardinality(newest[window]) \in Nat /\ Cardinality(newest[window]) <= Len(events)
  BY <1>9, Zenon
<1>. QED
  BY <1>6, <1>8, <1>13, <1>14

-----------------------------------------------------------------------------
(* Slots, what was settled and what is running *)

\* The slots of one key in one window: each stands for something counted at
\* its age or for a call that is still running.
Ledger(events, counts, running, window, limit) ==
    /\ events \in Seq(0..window) /\ Len(events) <= limit
    /\ counts \in [0..window - 1 -> Nat] /\ running \in [0..window - 1 -> Nat]
    /\ \A age \in 0..window - 1 : Occurrences(events, age) = counts[age] + running[age]

LEMMA LedgerStarts ==
    ASSUME NEW window \in Nat, NEW limit \in Nat,
           NEW none, none = [age \in 0..window - 1 |-> 0]
    PROVE  Ledger(<<>>, none, none, window, limit)
<1>1. <<>> \in Seq(0..window) /\ Len(<<>>) = 0 /\ DOMAIN <<>> = {}
  OBVIOUS
<1>2. ASSUME NEW age
      PROVE  Occurrences(<<>>, age) = 0
  BY <1>1, OccurrencesType, Zenon DEF Places
<1>. QED
  BY <1>1, <1>2 DEF Ledger

\* A reservation at the limit only prunes.
LEMMA LedgerFull ==
    ASSUME NEW window \in Nat, NEW limit \in Nat, NEW events, NEW counts, NEW running,
           Ledger(events, counts, running, window, limit),
           NEW pruned, pruned = pruneWindow(events, window)
    PROVE  Ledger(pruned, counts, running, window, limit)
<1>1. events \in Seq(0..window) /\ Len(events) \in Nat /\ Len(events) <= limit
  BY DEF Ledger
<1>2. /\ pruned \in Seq(0..window) /\ Len(pruned) <= Len(events)
      /\ \A age \in 0..window - 1 : Occurrences(pruned, age) = Occurrences(events, age)
  BY <1>1, PruneKeeps, Zenon
<1>3. Len(pruned) \in Nat /\ Len(pruned) <= limit
  BY <1>1, <1>2
<1>. QED
  BY <1>2, <1>3, Zenon DEF Ledger

\* One below it, the new slot is for a call or counted at once.
LEMMA LedgerReserves ==
    ASSUME NEW window \in Nat \ {0}, NEW limit \in Nat, NEW events, NEW counts, NEW running,
           Ledger(events, counts, running, window, limit),
           NEW pruned, pruned = pruneWindow(events, window), Len(pruned) < limit
    PROVE  /\ Ledger(Append(pruned, 0), counts, [running EXCEPT ![0] = @ + 1], window, limit)
           /\ Ledger(Append(pruned, 0), [counts EXCEPT ![0] = @ + 1], running, window, limit)
<1>1. Ledger(pruned, counts, running, window, limit)
  BY LedgerFull, Zenon
<1>2. PICK longer : longer = Append(pruned, 0)
  BY Zenon
<1>3. pruned \in Seq(0..window) /\ 0 \in 0..window
  BY <1>1 DEF Ledger
<1>4. longer \in Seq(0..window) /\ Len(longer) <= limit
  BY <1>2, <1>3
<1>5. /\ Occurrences(longer, 0) = Occurrences(pruned, 0) + 1
      /\ \A age : age # 0 => Occurrences(longer, age) = Occurrences(pruned, age)
  BY <1>2, <1>3, AppendOccurrences, ZenonT(40)
<1>6. ASSUME NEW age \in 0..window - 1
      PROVE  /\ counts[age] \in Nat /\ running[age] \in Nat
             /\ age = 0 => Occurrences(longer, age) = counts[age] + running[age] + 1
             /\ age # 0 => Occurrences(longer, age) = counts[age] + running[age]
  BY <1>1, <1>5, Zenon DEF Ledger
<1>7. counts \in [0..window - 1 -> Nat] /\ running \in [0..window - 1 -> Nat]
  BY <1>1, Zenon DEF Ledger
<1>8. PICK more : more = [running EXCEPT ![0] = @ + 1]
  BY Zenon
<1>9. /\ more \in [0..window - 1 -> Nat]
      /\ \A age \in 0..window - 1 : more[age] = IF age = 0 THEN running[age] + 1 ELSE running[age]
  BY <1>7, <1>8
<1>12. ASSUME NEW age \in 0..window - 1
       PROVE  Occurrences(longer, age) = counts[age] + more[age]
  <2>1. PICK c \in Nat, r \in Nat : c = counts[age] /\ r = running[age]
    BY <1>6, Zenon
  <2>2. CASE age = 0
    <3>1. Occurrences(longer, age) = (c + r) + 1 /\ more[age] = r + 1
      BY <1>6, <1>9, <2>1, <2>2, Zenon
    <3>2. (c + r) + 1 = c + (r + 1)
      OBVIOUS
    <3>. QED
      BY <2>1, <3>1, <3>2, Zenon
  <2>3. CASE age # 0
    BY <1>6, <1>9, <2>3, Zenon
  <2>. QED
    BY <2>2, <2>3, Zenon
<1>10. PICK next : next = [counts EXCEPT ![0] = @ + 1]
  BY Zenon
<1>11. /\ next \in [0..window - 1 -> Nat]
       /\ \A age \in 0..window - 1 : next[age] = IF age = 0 THEN counts[age] + 1 ELSE counts[age]
  BY <1>7, <1>10
<1>13. ASSUME NEW age \in 0..window - 1
       PROVE  Occurrences(longer, age) = next[age] + running[age]
  <2>1. PICK c \in Nat, r \in Nat : c = counts[age] /\ r = running[age]
    BY <1>6, Zenon
  <2>2. CASE age = 0
    <3>1. Occurrences(longer, age) = (c + r) + 1 /\ next[age] = c + 1
      BY <1>6, <1>11, <2>1, <2>2, Zenon
    <3>2. (c + r) + 1 = (c + 1) + r
      OBVIOUS
    <3>. QED
      BY <2>1, <3>1, <3>2, Zenon
  <2>3. CASE age # 0
    BY <1>6, <1>11, <2>3, Zenon
  <2>. QED
    BY <2>2, <2>3, Zenon
<1>. QED
  BY <1>2, <1>4, <1>7, <1>8, <1>9, <1>10, <1>11, <1>12, <1>13, Zenon DEF Ledger

\* The end of a call that is counted, and of one that gives its slot back.
LEMMA LedgerSettles ==
    ASSUME NEW window \in Nat, NEW limit \in Nat, NEW events, NEW counts, NEW running,
           Ledger(events, counts, running, window, limit),
           NEW age \in 0..window - 1, running[age] >= 1
    PROVE  /\ Ledger(events, [counts EXCEPT ![age] = @ + 1], [running EXCEPT ![age] = @ - 1],
                     window, limit)
           /\ Ledger(WithoutFirst(events, age), counts, [running EXCEPT ![age] = @ - 1],
                     window, limit)
<1>1. /\ events \in Seq(0..window) /\ Len(events) \in Nat /\ Len(events) <= limit
      /\ counts \in [0..window - 1 -> Nat] /\ running \in [0..window - 1 -> Nat]
  BY SMTT(30) DEF Ledger
<1>2. \A b \in 0..window - 1 : Occurrences(events, b) = counts[b] + running[b]
  BY Zenon DEF Ledger
<1>3. PICK less : less = [running EXCEPT ![age] = @ - 1]
  BY Zenon
<1>4. /\ less \in [0..window - 1 -> Nat]
      /\ \A b \in 0..window - 1 : less[b] = IF b = age THEN running[b] - 1 ELSE running[b]
  BY <1>1, <1>3
<1>5. PICK next : next = [counts EXCEPT ![age] = @ + 1]
  BY Zenon
<1>6. /\ next \in [0..window - 1 -> Nat]
      /\ \A b \in 0..window - 1 : next[b] = IF b = age THEN counts[b] + 1 ELSE counts[b]
  BY <1>1, <1>5
<1>14. ASSUME NEW b \in 0..window - 1
       PROVE  Occurrences(events, b) = next[b] + less[b]
  <2>1. PICK c \in Nat, r \in Nat : c = counts[b] /\ r = running[b]
    BY <1>1, Zenon
  <2>2. CASE b = age
    <3>1. Occurrences(events, b) = c + r /\ next[b] = c + 1 /\ less[b] = r - 1
      BY <1>2, <1>4, <1>6, <2>1, <2>2, Zenon
    <3>2. c + r = (c + 1) + (r - 1)
      OBVIOUS
    <3>. QED
      BY <3>1, <3>2, Zenon
  <2>3. CASE b # age
    BY <1>2, <1>4, <1>6, <2>3, Zenon
  <2>. QED
    BY <2>2, <2>3, Zenon
<1>7. Ledger(events, next, less, window, limit)
  BY <1>1, <1>4, <1>6, <1>14, Zenon DEF Ledger
<1>8. PICK shorter : shorter = WithoutFirst(events, age)
  BY Zenon
<1>9. /\ shorter \in Seq(0..window) /\ Len(shorter) <= Len(events)
      /\ \A b : b # age => Occurrences(shorter, b) = Occurrences(events, b)
      /\ Occurrences(events, age) # 0 => Occurrences(shorter, age) = Occurrences(events, age) - 1
  BY <1>1, <1>8, WithoutOccurrences
<1>10. Len(shorter) <= limit
  BY <1>1, <1>9
<1>11. Occurrences(events, age) # 0
  BY <1>1, <1>2
<1>12. ASSUME NEW b \in 0..window - 1
       PROVE  Occurrences(shorter, b) = counts[b] + less[b]
  <2>1. CASE b = age
    <3>1. Occurrences(shorter, b) = Occurrences(events, b) - 1
      BY <1>9, <1>11, <2>1, Zenon
    <3>. QED
      BY <1>1, <1>2, <1>4, <2>1, <3>1
  <2>2. CASE b # age
    <3>1. Occurrences(shorter, b) = Occurrences(events, b)
      BY <1>9, <2>2, Zenon
    <3>. QED
      BY <1>1, <1>2, <1>4, <2>2, <3>1
  <2>. QED
    BY <2>1, <2>2, Zenon
<1>13. Ledger(shorter, counts, less, window, limit)
  BY <1>1, <1>4, <1>9, <1>10, <1>12, Zenon DEF Ledger
<1>. QED
  BY <1>3, <1>5, <1>7, <1>8, <1>13, Zenon

\* A slot that has left the window is given back.
LEMMA LedgerStale ==
    ASSUME NEW window \in Nat, NEW limit \in Nat, NEW events, NEW counts, NEW running,
           Ledger(events, counts, running, window, limit),
           NEW age, age \notin 0..window - 1
    PROVE  Ledger(WithoutFirst(events, age), counts, running, window, limit)
<1>1. /\ events \in Seq(0..window) /\ Len(events) \in Nat /\ Len(events) <= limit
      /\ counts \in [0..window - 1 -> Nat] /\ running \in [0..window - 1 -> Nat]
  BY DEF Ledger
<1>2. PICK shorter : shorter = WithoutFirst(events, age)
  BY Zenon
<1>3. /\ shorter \in Seq(0..window) /\ Len(shorter) <= Len(events)
      /\ \A b \in 0..window - 1 : Occurrences(shorter, b) = Occurrences(events, b)
  BY <1>1, <1>2, WithoutOccurrences
<1>4. Len(shorter) <= limit
  BY <1>1, <1>3
<1>. QED
  BY <1>1, <1>2, <1>3, <1>4, Zenon DEF Ledger

\* Time passes for the slots, the counts and the calls.
LEMMA LedgerAges ==
    ASSUME NEW window \in Nat \ {0}, NEW limit \in Nat, NEW events, NEW counts, NEW running,
           Ledger(events, counts, running, window, limit),
           NEW aged, aged = [i \in DOMAIN events |-> Older(events[i], window)]
    PROVE  Ledger(aged, Shift(counts), Shift(running), window, limit)
<1>1. /\ events \in Seq(0..window) /\ Len(events) <= limit
      /\ counts \in [0..window - 1 -> Nat] /\ running \in [0..window - 1 -> Nat]
      /\ \A age \in 0..window - 1 : Occurrences(events, age) = counts[age] + running[age]
  BY Zenon DEF Ledger
<1>2. /\ aged \in Seq(0..window) /\ Len(aged) = Len(events)
      /\ Occurrences(aged, 0) = 0
      /\ \A age \in 1..window - 1 : Occurrences(aged, age) = Occurrences(events, age - 1)
  BY <1>1, AgedOccurrences, ZenonT(40)
<1>3. ASSUME NEW f \in [0..window - 1 -> Nat]
      PROVE  /\ Shift(f) \in [0..window - 1 -> Nat]
             /\ \A age \in 0..window - 1 : Shift(f)[age] = IF age = 0 THEN 0 ELSE f[age - 1]
  BY DEF Shift
<1>4. ASSUME NEW age \in 0..window - 1
      PROVE  Occurrences(aged, age) = Shift(counts)[age] + Shift(running)[age]
  <2>1. /\ Shift(counts)[age] = IF age = 0 THEN 0 ELSE counts[age - 1]
        /\ Shift(running)[age] = IF age = 0 THEN 0 ELSE running[age - 1]
    BY <1>1, <1>3, Zenon
  <2>2. CASE age = 0
    BY <1>2, <2>1, <2>2
  <2>3. CASE age # 0
    <3>1. age - 1 \in 0..window - 1 /\ age \in 1..window - 1
      BY <2>3
    <3>. QED
      BY <1>1, <1>2, <2>1, <2>3, <3>1, Zenon
  <2>. QED
    BY <2>2, <2>3, Zenon
<1>5. Shift(counts) \in [0..window - 1 -> Nat] /\ Shift(running) \in [0..window - 1 -> Nat]
  BY <1>1, <1>3, Zenon
<1>. QED
  BY <1>1, <1>2, <1>4, <1>5, Zenon DEF Ledger

LEMMA LedgerBounds ==
    ASSUME NEW window \in Nat, NEW limit \in Nat, NEW events, NEW counts, NEW running,
           Ledger(events, counts, running, window, limit)
    PROVE  InWindow(counts, window) <= limit
<1>1. /\ events \in Seq(0..window) /\ Len(events) \in Nat /\ Len(events) <= limit
      /\ counts \in [0..window - 1 -> Nat] /\ running \in [0..window - 1 -> Nat]
  BY DEF Ledger
<1>2. \A age \in 0..window - 1 : counts[age] <= Occurrences(events, age)
  BY <1>1 DEF Ledger
<1>3. InWindow(counts, window) \in Nat /\ InWindow(counts, window) <= Len(events)
  BY <1>1, <1>2, InWindowBound, Zenon
<1>. QED
  BY <1>1, <1>3

-----------------------------------------------------------------------------
(* Limits *)

\* The calls of a key whose outcome its slots wait for, by age.
Waiting(p, key, age) == {s \in Calls(p, key, age) : p = "auth" => ~call[s].overtaken}

Running(p, key, window) == [age \in 0..window - 1 |-> Cardinality(Waiting(p, key, age))]

\* The calls of one key become others, those of the other keys stay.
RunningBecomes(p, key, window, after) ==
    /\ Running(p, key, window)' = after
    /\ \A k : k # key => Running(p, k, window)' = Running(p, k, window)

\* The message window of each identity, and the failure window of each key.
MessageSlots ==
    /\ acceptedMessagesByKey \in [Identities -> Seq(0..MessageWindow)]
    /\ accepted \in [Identities -> [0..MessageWindow - 1 -> Nat]]
    /\ \A k \in Identities :
            Ledger(acceptedMessagesByKey[k], accepted[k], Running("relay", k, MessageWindow),
                   MessageWindow, MessageLimit)

FailureSlots ==
    /\ authFailuresByKey \in [AuthKeys -> Seq(0..AuthFailureWindow)]
    /\ failed \in [AuthKeys -> [0..AuthFailureWindow - 1 -> Nat]]
    /\ \A k \in AuthKeys :
            Ledger(authFailuresByKey[k], failed[k], Running("auth", k, AuthFailureWindow),
                   AuthFailureWindow, AuthFailureLimit)

SlotsInv == MessageSlots /\ FailureSlots

LEMMA WaitingFinite ==
    ASSUME NEW p, NEW key, NEW age
    PROVE  IsFiniteSet(Waiting(p, key, age)) /\ Cardinality(Waiting(p, key, age)) \in Nat
<1>1. Waiting(p, key, age) \in SUBSET Sessions
  BY Zenon DEF Waiting, Calls
<1>. QED
  BY <1>1, ServerAssumption, FS_Subset, FS_CardinalityType, Zenon

\* Steps that leave the calls of one kind alone.
LEMMA RunningSame ==
    ASSUME NEW p, NEW window,
           \A t \in Sessions : (phase[t] = p \/ phase'[t] = p) =>
                                    phase'[t] = phase[t] /\ call'[t] = call[t]
    PROVE  \A key : Running(p, key, window)' = Running(p, key, window)
<1>1. ASSUME NEW key, NEW age
      PROVE  Waiting(p, key, age)' = Waiting(p, key, age)
  <2>1. ASSUME NEW t \in Sessions
        PROVE  t \in Waiting(p, key, age)' <=> t \in Waiting(p, key, age)
    BY Zenon DEF Waiting, Calls
  <2>. QED
    BY <2>1, Zenon DEF Waiting, Calls
<1>. QED
  BY <1>1, Zenon DEF Running

\* A call begins.
LEMMA RunningBegins ==
    ASSUME NEW p, NEW key, NEW window \in Nat \ {0}, NEW s \in Sessions,
           phase \in [Sessions -> Phases], call \in [Sessions -> Call],
           phase[s] # p, phase' = [phase EXCEPT ![s] = p],
           call' = [call EXCEPT ![s] = CallOn(key)]
    PROVE  RunningBecomes(p, key, window, [Running(p, key, window) EXCEPT ![0] = @ + 1])
<1>1. CallOn(key).key = key /\ CallOn(key).age = 0 /\ CallOn(key).overtaken = FALSE
  BY Zenon DEF CallOn
<1>2. /\ phase'[s] = p /\ call'[s] = CallOn(key)
      /\ \A t \in Sessions \ {s} : phase'[t] = phase[t] /\ call'[t] = call[t]
  BY Zenon
<1>3. ASSUME NEW k, NEW age
      PROVE  /\ s \notin Waiting(p, k, age)
             /\ k = key /\ age = 0 => Waiting(p, k, age)' = Waiting(p, k, age) \cup {s}
             /\ ~(k = key /\ age = 0) => Waiting(p, k, age)' = Waiting(p, k, age)
  <2>1. s \notin Waiting(p, k, age)
    BY Zenon DEF Waiting, Calls
  <2>2. ASSUME NEW t \in Sessions \ {s}
        PROVE  t \in Waiting(p, k, age)' <=> t \in Waiting(p, k, age)
    BY <1>2, Zenon DEF Waiting, Calls
  <2>3. s \in Waiting(p, k, age)' <=> k = key /\ age = 0
    BY <1>1, <1>2, Zenon DEF Waiting, Calls
  <2>4. Waiting(p, k, age)' \in SUBSET Sessions /\ Waiting(p, k, age) \in SUBSET Sessions
    BY Zenon DEF Waiting, Calls
  <2>5. PICK before, after : before = Waiting(p, k, age) /\ after = Waiting(p, k, age)'
    BY Zenon
  <2>6. /\ before \in SUBSET Sessions /\ after \in SUBSET Sessions /\ s \notin before
        /\ \A t \in Sessions \ {s} : t \in after <=> t \in before
    BY <2>1, <2>2, <2>4, <2>5, Zenon
  <2>7. /\ s \in after => after = before \cup {s}
        /\ s \notin after => after = before
    BY <2>6
  <2>. QED
    BY <2>1, <2>3, <2>5, <2>7, Zenon
<1>4. ASSUME NEW k, k # key
      PROVE  Running(p, k, window)' = Running(p, k, window)
  BY <1>3, <1>4, Zenon DEF Running
<1>5. Cardinality(Waiting(p, key, 0)') = Cardinality(Waiting(p, key, 0)) + 1
  <2>1. Waiting(p, key, 0)' = Waiting(p, key, 0) \cup {s} /\ s \notin Waiting(p, key, 0)
    BY <1>3, Zenon
  <2>. QED
    BY <2>1, WaitingFinite, FS_AddElement, Zenon
<1>6. \A age : age # 0 => Waiting(p, key, age)' = Waiting(p, key, age)
  BY <1>3, Zenon
<1>7. 0 \in 0..window - 1
  OBVIOUS
<1>8. Running(p, key, window)' = [Running(p, key, window) EXCEPT ![0] = @ + 1]
  BY <1>5, <1>6, <1>7, Zenon DEF Running
<1>. QED
  BY <1>4, <1>8, Zenon DEF RunningBecomes

\* A call ends: one that was waited for is gone, the end of any other is not
\* noticed.
LEMMA CallEnds ==
    ASSUME NEW p, p # "command", NEW s \in Sessions,
           phase \in [Sessions -> Phases], call \in [Sessions -> Call],
           phase[s] = p, phase' = [phase EXCEPT ![s] = "command"],
           call' = [call EXCEPT ![s] = NoCall],
           NEW k, NEW age
    PROVE  Waiting(p, k, age)' = Waiting(p, k, age) \ {s}
<1>1. /\ phase'[s] = "command"
      /\ \A t \in Sessions \ {s} : phase'[t] = phase[t] /\ call'[t] = call[t]
  BY Zenon
<1>2. ASSUME NEW t \in Sessions \ {s}
      PROVE  t \in Waiting(p, k, age)' <=> t \in Waiting(p, k, age)
  BY <1>1, Zenon DEF Waiting, Calls
<1>3. s \notin Waiting(p, k, age)'
  BY <1>1, Zenon DEF Waiting, Calls
<1>4. Waiting(p, k, age)' \subseteq Sessions /\ Waiting(p, k, age) \subseteq Sessions
  BY Zenon DEF Waiting, Calls
<1>. QED
  BY <1>2, <1>3, <1>4, Zenon

LEMMA RunningEnds ==
    ASSUME NEW p, p # "command", NEW window \in Nat, NEW s \in Sessions,
           NEW key, NEW age \in 0..window - 1, key = call[s].key, age = call[s].age,
           p = "auth" => ~call[s].overtaken,
           phase \in [Sessions -> Phases], call \in [Sessions -> Call],
           phase[s] = p, phase' = [phase EXCEPT ![s] = "command"],
           call' = [call EXCEPT ![s] = NoCall]
    PROVE  /\ Running(p, key, window)[age] >= 1
           /\ RunningBecomes(p, key, window, [Running(p, key, window) EXCEPT ![age] = @ - 1])
<1>0. ASSUME NEW k, NEW a
      PROVE  Waiting(p, k, a)' = Waiting(p, k, a) \ {s}
  BY CallEnds, ZenonT(40)
<1>1. s \in Waiting(p, key, age)
  BY Zenon DEF Waiting, Calls
<1>2. ASSUME NEW k, NEW a, k # key \/ a # age
      PROVE  Waiting(p, k, a)' = Waiting(p, k, a)
  <2>1. s \notin Waiting(p, k, a)
    BY <1>2, Zenon DEF Waiting, Calls
  <2>2. \A w : s \notin w => w \ {s} = w
    BY Zenon
  <2>3. Waiting(p, k, a)' = Waiting(p, k, a) \ {s}
    BY <1>0, Zenon
  <2>. QED
    BY <2>1, <2>2, <2>3, Zenon
<1>3. /\ Cardinality(Waiting(p, key, age) \ {s}) = Cardinality(Waiting(p, key, age)) - 1
      /\ Cardinality(Waiting(p, key, age)) \in Nat
      /\ Cardinality(Waiting(p, key, age) \ {s}) \in Nat
  BY <1>1, WaitingFinite, FS_RemoveElement, FS_CardinalityType, Zenon
<1>4. Cardinality(Waiting(p, key, age)) >= 1
  BY <1>3
<1>5. Cardinality(Waiting(p, key, age)') = Cardinality(Waiting(p, key, age)) - 1
  <2>1. Waiting(p, key, age)' = Waiting(p, key, age) \ {s}
    BY <1>0, Zenon
  <2>. QED
    BY <1>3, <2>1, Zenon
<1>6. Running(p, key, window)[age] >= 1
  BY <1>4, Zenon DEF Running
<1>7. \A a : a # age => Waiting(p, key, a)' = Waiting(p, key, a)
  BY <1>2, Zenon
<1>8. Running(p, key, window)' = [Running(p, key, window) EXCEPT ![age] = @ - 1]
  BY <1>5, <1>7, Zenon DEF Running
<1>9. \A k : k # key => Running(p, k, window)' = Running(p, k, window)
  BY <1>2, Zenon DEF Running
<1>. QED
  BY <1>6, <1>8, <1>9, Zenon DEF RunningBecomes

LEMMA RunningEndsUnnoticed ==
    ASSUME NEW p, p # "command", NEW window \in Nat, NEW s \in Sessions, NEW key,
           (p = "auth" /\ call[s].overtaken) \/ call[s].age \notin 0..window - 1,
           phase \in [Sessions -> Phases], call \in [Sessions -> Call],
           phase[s] = p, phase' = [phase EXCEPT ![s] = "command"],
           call' = [call EXCEPT ![s] = NoCall]
    PROVE  RunningBecomes(p, key, window, Running(p, key, window))
<1>1. ASSUME NEW k, NEW age \in 0..window - 1
      PROVE  Waiting(p, k, age)' = Waiting(p, k, age)
  <2>1. s \notin Waiting(p, k, age)
    BY Zenon DEF Waiting, Calls
  <2>2. \A w : s \notin w => w \ {s} = w
    BY Zenon
  <2>3. Waiting(p, k, age)' = Waiting(p, k, age) \ {s}
    BY CallEnds, ZenonT(40)
  <2>. QED
    BY <2>1, <2>2, <2>3, Zenon
<1>2. \A k : Running(p, k, window)' = Running(p, k, window)
  BY <1>1, Zenon DEF Running
<1>. QED
  BY <1>2, Zenon DEF RunningBecomes

\* A login that succeeds overtakes the others of its key.
LEMMA RunningOvertaken ==
    ASSUME NEW window \in Nat, NEW s \in Sessions, NEW user,
           phase \in [Sessions -> Phases], call \in [Sessions -> Call],
           phase[s] = "auth", phase' = [phase EXCEPT ![s] = "command"], user = call[s].key,
           call' = [t \in Sessions |->
                        IF t = s THEN NoCall
                        ELSE IF phase[t] = "auth" /\ call[t].key = user
                             THEN [call[t] EXCEPT !.overtaken = TRUE] ELSE call[t]]
    PROVE  RunningBecomes("auth", user, window, [age \in 0..window - 1 |-> 0])
<1>1. phase'[s] = "command" /\ \A t \in Sessions \ {s} : phase'[t] = phase[t]
  BY Zenon
<1>2. ASSUME NEW t \in Sessions \ {s}, phase[t] = "auth", call[t].key = user
      PROVE  call'[t].key = user /\ call'[t].overtaken = TRUE
  BY <1>2 DEF Call
<1>3. ASSUME NEW t \in Sessions \ {s}, ~(phase[t] = "auth" /\ call[t].key = user)
      PROVE  call'[t] = call[t]
  BY <1>3, Zenon
<1>4. ASSUME NEW age
      PROVE  Waiting("auth", user, age)' = {}
  <2>1. ASSUME NEW t \in Sessions, t \in Waiting("auth", user, age)'
        PROVE  FALSE
    <3>1. phase'[t] = "auth" /\ call'[t].key = user /\ ~call'[t].overtaken
      BY <2>1, Zenon DEF Waiting, Calls
    <3>2. t \in Sessions \ {s} /\ phase[t] = "auth"
      BY <1>1, <3>1, Zenon
    <3>. QED
      BY <1>2, <1>3, <3>1, <3>2, Zenon
  <2>. QED
    BY <2>1, Zenon DEF Waiting, Calls
<1>5. Running("auth", user, window)' = [age \in 0..window - 1 |-> 0]
  BY <1>4, FS_EmptySet, Zenon DEF Running
<1>6. ASSUME NEW k, k # user
      PROVE  Running("auth", k, window)' = Running("auth", k, window)
  <2>1. ASSUME NEW age
        PROVE  Waiting("auth", k, age)' = Waiting("auth", k, age)
    <3>1. ASSUME NEW t \in Sessions
          PROVE  t \in Waiting("auth", k, age)' <=> t \in Waiting("auth", k, age)
      <4>1. CASE t = s
        BY <1>1, <1>6, <4>1, Zenon DEF Waiting, Calls
      <4>2. CASE t # s /\ phase[t] = "auth" /\ call[t].key = user
        BY <1>2, <1>6, <4>2, Zenon DEF Waiting, Calls
      <4>3. CASE t # s /\ ~(phase[t] = "auth" /\ call[t].key = user)
        BY <1>1, <1>3, <4>3, Zenon DEF Waiting, Calls
      <4>. QED
        BY <4>1, <4>2, <4>3, Zenon
    <3>. QED
      BY <3>1, Zenon DEF Waiting, Calls
  <2>. QED
    BY <2>1, Zenon DEF Running
<1>. QED
  BY <1>5, <1>6, Zenon DEF RunningBecomes

\* Time passes for the calls.
LEMMA RunningAges ==
    ASSUME NEW p \in {"auth", "relay"}, NEW key, NEW window \in Nat \ {0},
           window = IF p = "relay" THEN MessageWindow ELSE AuthFailureWindow,
           AuthorisedInv, Tick
    PROVE  Running(p, key, window)' = Shift(Running(p, key, window))
<1>1. phase' = phase
  BY Zenon DEF Tick
<1>2. ASSUME NEW t \in Sessions, phase[t] = p
      PROVE  /\ call'[t].key = call[t].key /\ call'[t].overtaken = call[t].overtaken
             /\ call[t].age \in Nat /\ call'[t].age = Older(call[t].age, window)
  <2>1. call[t] \in Call /\ call[t].key \in Identities
    <3>1. Authorised(phase[t], session[t], call[t])
      BY Zenon DEF AuthorisedInv
    <3>2. CASE p = "auth"
      BY <1>2, <3>1, <3>2, Zenon DEF Authorised
    <3>3. CASE p = "relay"
      <4>1. session[t] \in SessionState /\ session[t].mailFrom # None
            /\ session[t].mailFrom = session[t].authenticated
            /\ call[t].key = session[t].authenticated /\ call[t] \in Call
        BY <1>2, <3>1, <3>3, Zenon DEF Authorised
      <4>2. session[t].authenticated \in Identities \cup {None}
        BY <4>1 DEF SessionState
      <4>. QED
        BY <4>1, <4>2, Zenon
    <3>. QED
      BY <3>2, <3>3, Zenon
  <2>2. call[t] # NoCall
    <3>1. NoCall.key = None
      BY Zenon DEF NoCall
    <3>2. None \notin Identities
      BY ServerAssumption, Zenon DEF AuthKeys
    <3>. QED
      BY <2>1, <3>1, <3>2, Zenon
  <2>3. call'[t] = [call[t] EXCEPT !.age = Older(call[t].age, CallWindow(t))]
    BY <2>2, Zenon DEF Tick
  <2>4. CallWindow(t) = window
    BY <1>2, Zenon DEF CallWindow
  <2>5. /\ call'[t].key = call[t].key /\ call'[t].overtaken = call[t].overtaken
        /\ call'[t].age = Older(call[t].age, CallWindow(t))
    BY <2>1, <2>3 DEF Call
  <2>6. call[t].age \in Nat
    BY <2>1 DEF Call
  <2>. QED
    BY <2>4, <2>5, <2>6, Zenon
<1>3. ASSUME NEW age \in 0..window - 1, NEW t \in Sessions
      PROVE  t \in Waiting(p, key, age)' <=> age # 0 /\ t \in Waiting(p, key, age - 1)
  <2>1. CASE phase[t] = p
    <3>1. PICK a \in Nat : a = call[t].age
      BY <1>2, <2>1, Zenon
    <3>2. call'[t].age = IF a < window THEN a + 1 ELSE window
      BY <1>2, <2>1, <3>1, Zenon DEF Older
    <3>3. call'[t].age = age <=> age # 0 /\ a = age - 1
      BY <3>2
    <3>. QED
      BY <1>1, <1>2, <2>1, <3>1, <3>3, Zenon DEF Waiting, Calls
  <2>2. CASE phase[t] # p
    BY <1>1, <2>2, Zenon DEF Waiting, Calls
  <2>. QED
    BY <2>1, <2>2, Zenon
<1>4. ASSUME NEW age \in 0..window - 1
      PROVE  Running(p, key, window)'[age] =
                IF age = 0 THEN 0 ELSE Running(p, key, window)[age - 1]
  <2>1. Running(p, key, window)'[age] = Cardinality(Waiting(p, key, age)')
    BY Zenon DEF Running
  <2>2. CASE age = 0
    <3>1. Waiting(p, key, age)' = {}
      BY <1>3, <2>2, Zenon DEF Waiting, Calls
    <3>. QED
      BY <2>1, <2>2, <3>1, FS_EmptySet, Zenon
  <2>3. CASE age # 0
    <3>1. Waiting(p, key, age)' = Waiting(p, key, age - 1)
      BY <1>3, <2>3, Zenon DEF Waiting, Calls
    <3>2. age - 1 \in 0..window - 1
      BY <2>3
    <3>3. Running(p, key, window)[age - 1] = Cardinality(Waiting(p, key, age - 1))
      BY <3>2, Zenon DEF Running
    <3>. QED
      BY <2>1, <2>3, <3>1, <3>3, Zenon
  <2>. QED
    BY <2>2, <2>3, Zenon
<1>5. /\ DOMAIN Running(p, key, window) = 0..window - 1
      /\ Running(p, key, window)' = [age \in 0..window - 1 |-> Running(p, key, window)'[age]]
  BY Zenon DEF Running
<1>. QED
  BY <1>4, <1>5, Zenon DEF Shift

\* Nothing happens in a window, or to one key of it.
LEMMA MessageSlotsStay ==
    ASSUME MessageSlots, UNCHANGED <<acceptedMessagesByKey, accepted>>,
           \A t \in Sessions : (phase[t] = "relay" \/ phase'[t] = "relay") =>
                                    phase'[t] = phase[t] /\ call'[t] = call[t]
    PROVE  MessageSlots'
<1>1. \A k : Running("relay", k, MessageWindow)' = Running("relay", k, MessageWindow)
  BY RunningSame, Zenon
<1>. QED
  BY <1>1, Zenon DEF MessageSlots

LEMMA FailureSlotsStay ==
    ASSUME FailureSlots, UNCHANGED <<authFailuresByKey, failed>>,
           \A t \in Sessions : (phase[t] = "auth" \/ phase'[t] = "auth") =>
                                    phase'[t] = phase[t] /\ call'[t] = call[t]
    PROVE  FailureSlots'
<1>1. \A k : Running("auth", k, AuthFailureWindow)' = Running("auth", k, AuthFailureWindow)
  BY RunningSame, Zenon
<1>. QED
  BY <1>1, Zenon DEF FailureSlots

LEMMA MessageKeyMoves ==
    ASSUME MessageSlots, NEW key \in Identities, NEW events, NEW counts,
           acceptedMessagesByKey' = [acceptedMessagesByKey EXCEPT ![key] = events],
           accepted' = [accepted EXCEPT ![key] = counts],
           NEW after, RunningBecomes("relay", key, MessageWindow, after),
           Ledger(events, counts, after, MessageWindow, MessageLimit)
    PROVE  MessageSlots'
<1>1. events \in Seq(0..MessageWindow) /\ counts \in [0..MessageWindow - 1 -> Nat]
  BY Zenon DEF Ledger
<1>2. /\ acceptedMessagesByKey' \in [Identities -> Seq(0..MessageWindow)]
      /\ accepted' \in [Identities -> [0..MessageWindow - 1 -> Nat]]
  BY <1>1, Zenon DEF MessageSlots
<1>3. ASSUME NEW k \in Identities
      PROVE  Ledger(acceptedMessagesByKey'[k], accepted'[k],
                    Running("relay", k, MessageWindow)', MessageWindow, MessageLimit)
  <2>1. CASE k = key
    <3>1. acceptedMessagesByKey'[k] = events /\ accepted'[k] = counts
      BY <2>1, Zenon DEF MessageSlots
    <3>. QED
      BY <2>1, <3>1, Zenon DEF RunningBecomes
  <2>2. CASE k # key
    <3>1. acceptedMessagesByKey'[k] = acceptedMessagesByKey[k] /\ accepted'[k] = accepted[k]
      BY <2>2, Zenon DEF MessageSlots
    <3>. QED
      BY <2>2, <3>1, Zenon DEF MessageSlots, RunningBecomes
  <2>. QED
    BY <2>1, <2>2, Zenon
<1>. QED
  BY <1>2, <1>3, Zenon DEF MessageSlots

LEMMA FailureKeyMoves ==
    ASSUME FailureSlots, NEW key \in AuthKeys, NEW events, NEW counts,
           authFailuresByKey' = [authFailuresByKey EXCEPT ![key] = events],
           failed' = [failed EXCEPT ![key] = counts],
           NEW after, RunningBecomes("auth", key, AuthFailureWindow, after),
           Ledger(events, counts, after, AuthFailureWindow, AuthFailureLimit)
    PROVE  FailureSlots'
<1>1. events \in Seq(0..AuthFailureWindow) /\ counts \in [0..AuthFailureWindow - 1 -> Nat]
  BY Zenon DEF Ledger
<1>2. /\ authFailuresByKey' \in [AuthKeys -> Seq(0..AuthFailureWindow)]
      /\ failed' \in [AuthKeys -> [0..AuthFailureWindow - 1 -> Nat]]
  BY <1>1, Zenon DEF FailureSlots
<1>3. ASSUME NEW k \in AuthKeys
      PROVE  Ledger(authFailuresByKey'[k], failed'[k],
                    Running("auth", k, AuthFailureWindow)', AuthFailureWindow, AuthFailureLimit)
  <2>1. CASE k = key
    <3>1. authFailuresByKey'[k] = events /\ failed'[k] = counts
      BY <2>1, Zenon DEF FailureSlots
    <3>. QED
      BY <2>1, <3>1, Zenon DEF RunningBecomes
  <2>2. CASE k # key
    <3>1. authFailuresByKey'[k] = authFailuresByKey[k] /\ failed'[k] = failed[k]
      BY <2>2, Zenon DEF FailureSlots
    <3>. QED
      BY <2>2, <3>1, Zenon DEF FailureSlots, RunningBecomes
  <2>. QED
    BY <2>1, <2>2, Zenon
<1>. QED
  BY <1>2, <1>3, Zenon DEF FailureSlots

LEMMA InitSlots == Init => SlotsInv
<1>. SUFFICES ASSUME Init PROVE SlotsInv
  BY Zenon
<1>1. ASSUME NEW p \in {"auth", "relay"}, NEW key, NEW window
      PROVE  Running(p, key, window) = [age \in 0..window - 1 |-> 0]
  <2>1. \A age : Waiting(p, key, age) = {}
    BY Zenon DEF Init, Waiting, Calls
  <2>. QED
    BY <2>1, FS_EmptySet, Zenon DEF Running
<1>2. ASSUME NEW window \in Nat, NEW limit \in Nat
      PROVE  /\ Ledger(<<>>, [age \in 0..window - 1 |-> 0], [age \in 0..window - 1 |-> 0],
                       window, limit)
             /\ <<>> \in Seq(0..window)
             /\ [age \in 0..window - 1 |-> 0] \in [0..window - 1 -> Nat]
  BY LedgerStarts, Zenon DEF Ledger
<1>3. /\ MessageWindow \in Nat /\ MessageLimit \in Nat
      /\ AuthFailureWindow \in Nat /\ AuthFailureLimit \in Nat
  BY WindowsAssumption, Zenon
<1>4. MessageSlots
  <2>1. PICK none : none = [age \in 0..MessageWindow - 1 |-> 0]
    BY Zenon
  <2>2. /\ Ledger(<<>>, none, none, MessageWindow, MessageLimit)
        /\ <<>> \in Seq(0..MessageWindow) /\ none \in [0..MessageWindow - 1 -> Nat]
        /\ \A k : Running("relay", k, MessageWindow) = none
    BY <1>1, <1>2, <1>3, <2>1, Zenon
  <2>3. /\ acceptedMessagesByKey = [k \in Identities |-> <<>>]
        /\ accepted = [k \in Identities |-> none]
    BY <2>1, Zenon DEF Init, InitThrottle
  <2>. QED
    BY <2>2, <2>3, Zenon DEF MessageSlots
<1>5. FailureSlots
  <2>1. PICK none : none = [age \in 0..AuthFailureWindow - 1 |-> 0]
    BY Zenon
  <2>2. /\ Ledger(<<>>, none, none, AuthFailureWindow, AuthFailureLimit)
        /\ <<>> \in Seq(0..AuthFailureWindow) /\ none \in [0..AuthFailureWindow - 1 -> Nat]
        /\ \A k : Running("auth", k, AuthFailureWindow) = none
    BY <1>1, <1>2, <1>3, <2>1, Zenon
  <2>3. /\ authFailuresByKey = [k \in AuthKeys |-> <<>>]
        /\ failed = [k \in AuthKeys |-> none]
    BY <2>1, Zenon DEF Init, InitThrottle
  <2>. QED
    BY <2>2, <2>3, Zenon DEF FailureSlots
<1>. QED
  BY <1>4, <1>5, Zenon DEF SlotsInv

-----------------------------------------------------------------------------
(* Logins *)

LEMMA AuthMalformedSlots ==
    ASSUME SlotsInv, SessionsInv, NEW s \in Sessions, AuthMalformed(s)
    PROVE  SlotsInv'
<1>1. PICK key \in AuthKeys : key = host[s]
  BY Zenon DEF SessionsInv, AuthKeys
<1>2. PICK failures : failures = pruneWindow(authFailuresByKey[key], AuthFailureWindow)
  BY Zenon
<1>3. PICK running : running = Running("auth", key, AuthFailureWindow)
  BY Zenon
<1>4. /\ UNCHANGED <<phase, call, acceptedMessagesByKey, accepted>>
      /\ AuthAllowed(key) <=> Len(failures) < AuthFailureLimit
      /\ FailureSlots
      /\ Ledger(authFailuresByKey[key], failed[key], running, AuthFailureWindow, AuthFailureLimit)
  BY <1>1, <1>2, <1>3, Zenon DEF AuthMalformed, AuthAllowed, SlotsInv, FailureSlots
<1>5. MessageSlots'
  BY <1>4, MessageSlotsStay, Zenon DEF SlotsInv
<1>6. RunningBecomes("auth", key, AuthFailureWindow, running)
  BY <1>3, <1>4, RunningSame, Zenon DEF RunningBecomes
<1>7. CASE AuthAllowed(key)
  <2>1. PICK counts : counts = [failed[key] EXCEPT ![0] = @ + 1]
    BY Zenon
  <2>2. /\ authFailuresByKey' = [authFailuresByKey EXCEPT ![key] = Append(failures, 0)]
        /\ failed' = [failed EXCEPT ![key] = counts]
    BY <1>1, <1>2, <1>7, <2>1, Zenon DEF AuthMalformed, reserveAuthAttempt
  <2>3. Ledger(Append(failures, 0), counts, running, AuthFailureWindow, AuthFailureLimit)
    BY <1>2, <1>4, <1>7, <2>1, WindowsAssumption, LedgerReserves, Zenon
  <2>. QED
    BY <1>4, <1>5, <1>6, <2>2, <2>3, FailureKeyMoves, Zenon DEF SlotsInv
<1>8. CASE ~AuthAllowed(key)
  <2>1. /\ authFailuresByKey' = [authFailuresByKey EXCEPT ![key] = failures]
        /\ failed' = [failed EXCEPT ![key] = failed[key]]
    BY <1>1, <1>2, <1>8, Zenon DEF AuthMalformed, reserveAuthAttempt, SlotsInv, FailureSlots
  <2>2. Ledger(failures, failed[key], running, AuthFailureWindow, AuthFailureLimit)
    BY <1>2, <1>4, WindowsAssumption, LedgerFull, Zenon
  <2>. QED
    BY <1>4, <1>5, <1>6, <2>1, <2>2, FailureKeyMoves, Zenon DEF SlotsInv
<1>. QED
  BY <1>7, <1>8, Zenon

LEMMA BeginAuthSlots ==
    ASSUME SlotsInv, AuthorisedInv, NEW s \in Sessions, NEW user \in Identities,
           BeginAuth(s, user)
    PROVE  SlotsInv'
<1>1. user \in AuthKeys
  BY Zenon DEF AuthKeys
<1>2. PICK failures : failures = pruneWindow(authFailuresByKey[user], AuthFailureWindow)
  BY Zenon
<1>3. PICK running : running = Running("auth", user, AuthFailureWindow)
  BY Zenon
<1>4. /\ UNCHANGED <<acceptedMessagesByKey, accepted, failed>>
      /\ AuthAllowed(user) <=> Len(failures) < AuthFailureLimit
      /\ Ledger(authFailuresByKey[user], failed[user], running,
                AuthFailureWindow, AuthFailureLimit)
  BY <1>1, <1>2, <1>3, Zenon
     DEF BeginAuth, AuthAllowed, SlotsInv, FailureSlots, historyVars
<1>5. MessageSlots'
  <2>1. \A t \in Sessions : (phase[t] = "relay" \/ phase'[t] = "relay") =>
                                    phase'[t] = phase[t] /\ call'[t] = call[t]
    BY Zenon DEF BeginAuth, MayAuthenticate, GoTo, AuthorisedInv
  <2>. QED
    BY <1>4, <2>1, MessageSlotsStay, Zenon DEF SlotsInv
<1>6. FailureSlots /\ failed' = [failed EXCEPT ![user] = failed[user]]
  BY <1>1, <1>4, Zenon DEF SlotsInv, FailureSlots
<1>7. CASE AuthAllowed(user)
  <2>1. /\ phase \in [Sessions -> Phases] /\ call \in [Sessions -> Call]
        /\ phase[s] # "auth" /\ phase' = [phase EXCEPT ![s] = "auth"]
        /\ call' = [call EXCEPT ![s] = CallOn(user)]
    BY <1>7, Zenon DEF BeginAuth, AuthorisedInv, GoTo, MayAuthenticate
  <2>2. RunningBecomes("auth", user, AuthFailureWindow,
                       [Running("auth", user, AuthFailureWindow) EXCEPT ![0] = @ + 1])
    BY <2>1, WindowsAssumption, RunningBegins, Zenon
  <2>3. PICK more : more = [running EXCEPT ![0] = @ + 1]
    BY Zenon
  <2>4. RunningBecomes("auth", user, AuthFailureWindow, more)
    BY <1>3, <2>2, <2>3, Zenon
  <2>5. authFailuresByKey' = [authFailuresByKey EXCEPT ![user] = Append(failures, 0)]
    BY <1>2, <1>7, Zenon DEF BeginAuth, reserveAuthAttempt
  <2>6. Ledger(Append(failures, 0), failed[user], more, AuthFailureWindow, AuthFailureLimit)
    BY <1>2, <1>4, <1>7, <2>3, WindowsAssumption, LedgerReserves, Zenon
  <2>. QED
    BY <1>1, <1>5, <1>6, <2>4, <2>5, <2>6, FailureKeyMoves, Zenon DEF SlotsInv
<1>8. CASE ~AuthAllowed(user)
  <2>1. UNCHANGED <<phase, call>>
    BY <1>8, Zenon DEF BeginAuth
  <2>2. RunningBecomes("auth", user, AuthFailureWindow, running)
    BY <1>3, <2>1, RunningSame, Zenon DEF RunningBecomes
  <2>3. authFailuresByKey' = [authFailuresByKey EXCEPT ![user] = failures]
    BY <1>2, <1>8, Zenon DEF BeginAuth, reserveAuthAttempt
  <2>4. Ledger(failures, failed[user], running, AuthFailureWindow, AuthFailureLimit)
    BY <1>2, <1>4, WindowsAssumption, LedgerFull, Zenon
  <2>. QED
    BY <1>1, <1>5, <1>6, <2>2, <2>3, <2>4, FailureKeyMoves, Zenon DEF SlotsInv
<1>. QED
  BY <1>7, <1>8, Zenon

LEMMA AuthAcceptedSlots ==
    ASSUME SlotsInv, AuthorisedInv, NEW s \in Sessions, AuthAccepted(s)
    PROVE  SlotsInv'
<1>1. PICK user \in AuthKeys : user = call[s].key
  BY Zenon DEF AuthorisedInv, Authorised, AuthAccepted, AuthKeys
<1>2. /\ phase \in [Sessions -> Phases] /\ call \in [Sessions -> Call]
      /\ phase[s] = "auth" /\ phase' = [phase EXCEPT ![s] = "command"]
      /\ call' = [t \in Sessions |->
                    IF t = s THEN NoCall
                    ELSE IF phase[t] = "auth" /\ call[t].key = user
                         THEN [call[t] EXCEPT !.overtaken = TRUE] ELSE call[t]]
  BY <1>1, Zenon DEF AuthAccepted, AuthorisedInv, GoTo
<1>3. PICK none : none = [age \in 0..AuthFailureWindow - 1 |-> 0]
  BY Zenon
<1>4. /\ authFailuresByKey' = [authFailuresByKey EXCEPT ![user] = <<>>]
      /\ failed' = [failed EXCEPT ![user] = none]
      /\ UNCHANGED <<acceptedMessagesByKey, accepted>>
  BY <1>1, <1>3, Zenon DEF AuthAccepted, clearAuthFailures
<1>5. AuthFailureWindow \in Nat /\ AuthFailureLimit \in Nat
  BY WindowsAssumption, Zenon
<1>6. RunningBecomes("auth", user, AuthFailureWindow, none)
  <2>1. RunningBecomes("auth", user, AuthFailureWindow, [age \in 0..AuthFailureWindow - 1 |-> 0])
    BY <1>1, <1>2, <1>5, RunningOvertaken, Zenon
  <2>. QED
    BY <1>3, <2>1, Zenon
<1>7. Ledger(<<>>, none, none, AuthFailureWindow, AuthFailureLimit)
  BY <1>3, <1>5, LedgerStarts, Zenon
<1>8. FailureSlots'
  BY <1>4, <1>6, <1>7, FailureKeyMoves, Zenon DEF SlotsInv
<1>9. MessageSlots'
  <2>1. \A t \in Sessions : (phase[t] = "relay" \/ phase'[t] = "relay") =>
                                    phase'[t] = phase[t] /\ call'[t] = call[t]
    BY <1>2, Zenon
  <2>. QED
    BY <1>4, <2>1, MessageSlotsStay, Zenon DEF SlotsInv
<1>. QED
  BY <1>8, <1>9, Zenon DEF SlotsInv

LEMMA AuthRejectedSlots ==
    ASSUME SlotsInv, AuthorisedInv, NEW s \in Sessions, AuthRejected(s)
    PROVE  SlotsInv'
<1>1. PICK key \in AuthKeys, age \in Nat : key = call[s].key /\ age = call[s].age
  <2>1. call[s].key \in AuthKeys
    BY Zenon DEF AuthorisedInv, Authorised, AuthRejected, AuthKeys
  <2>2. call[s] \in Call
    BY Zenon DEF AuthorisedInv
  <2>3. call[s].age \in Nat
    BY <2>2 DEF Call
  <2>. QED
    BY <2>1, <2>3, Zenon
<1>2. /\ phase \in [Sessions -> Phases] /\ call \in [Sessions -> Call]
      /\ phase[s] = "auth" /\ phase' = [phase EXCEPT ![s] = "command"]
      /\ call' = [call EXCEPT ![s] = NoCall]
      /\ UNCHANGED <<authFailuresByKey, acceptedMessagesByKey, accepted>>
  BY Zenon DEF AuthRejected, AuthorisedInv, GoTo, throttleVars, windowVars
<1>3. MessageSlots'
  <2>1. \A t \in Sessions : (phase[t] = "relay" \/ phase'[t] = "relay") =>
                                    phase'[t] = phase[t] /\ call'[t] = call[t]
    BY <1>2, Zenon
  <2>. QED
    BY <1>2, <2>1, MessageSlotsStay, Zenon DEF SlotsInv
<1>4. PICK running, events :
        running = Running("auth", key, AuthFailureWindow) /\ events = authFailuresByKey[key]
  BY Zenon
<1>5. /\ FailureSlots
      /\ Ledger(events, failed[key], running, AuthFailureWindow, AuthFailureLimit)
      /\ authFailuresByKey' = [authFailuresByKey EXCEPT ![key] = events]
  BY <1>2, <1>4, Zenon DEF SlotsInv, FailureSlots
<1>6. AuthFailureWindow \in Nat /\ AuthFailureLimit \in Nat /\ "auth" # "command"
  BY WindowsAssumption, Zenon
<1>7. age >= AuthFailureWindow <=> age \notin 0..AuthFailureWindow - 1
  BY <1>6
<1>8. CASE call[s].overtaken \/ age >= AuthFailureWindow
  <2>1. failed' = [failed EXCEPT ![key] = failed[key]]
    BY <1>1, <1>5, <1>8, Zenon DEF AuthRejected, FailureSlots
  <2>2. RunningBecomes("auth", key, AuthFailureWindow, Running("auth", key, AuthFailureWindow))
    BY <1>1, <1>2, <1>6, <1>7, <1>8, RunningEndsUnnoticed, Zenon
  <2>3. RunningBecomes("auth", key, AuthFailureWindow, running)
    BY <1>4, <2>2, Zenon
  <2>. QED
    BY <1>3, <1>5, <2>1, <2>3, FailureKeyMoves, Zenon DEF SlotsInv
<1>9. CASE ~(call[s].overtaken \/ age >= AuthFailureWindow)
  <2>1. PICK counts, less : /\ counts = [failed[key] EXCEPT ![age] = @ + 1]
                            /\ less = [running EXCEPT ![age] = @ - 1]
    BY Zenon
  <2>2. failed' = [failed EXCEPT ![key] = counts]
    BY <1>1, <1>9, <2>1, Zenon DEF AuthRejected
  <2>3. age \in 0..AuthFailureWindow - 1 /\ ~call[s].overtaken
    BY <1>7, <1>9, Zenon
  <2>4. /\ Running("auth", key, AuthFailureWindow)[age] >= 1
        /\ RunningBecomes("auth", key, AuthFailureWindow,
                          [Running("auth", key, AuthFailureWindow) EXCEPT ![age] = @ - 1])
    BY <1>1, <1>2, <1>6, <2>3, RunningEnds, Zenon
  <2>5. running[age] >= 1 /\ RunningBecomes("auth", key, AuthFailureWindow, less)
    BY <1>4, <2>1, <2>4, Zenon
  <2>6. Ledger(events, counts, less, AuthFailureWindow, AuthFailureLimit)
    BY <1>5, <1>6, <2>1, <2>3, <2>5, LedgerSettles, Zenon
  <2>. QED
    BY <1>3, <1>5, <2>2, <2>5, <2>6, FailureKeyMoves, Zenon DEF SlotsInv
<1>. QED
  BY <1>8, <1>9, Zenon

-----------------------------------------------------------------------------
(* Messages *)

LEMMA BeginRelaySlots ==
    ASSUME SlotsInv, AuthorisedInv, NEW s \in Sessions, BeginRelay(s)
    PROVE  SlotsInv'
<1>1. PICK identity \in Identities : identity = session[s].authenticated
  <2>1. /\ session[s] \in SessionState /\ session[s].mailFrom # None
        /\ session[s].mailFrom = session[s].authenticated
    BY Zenon DEF AuthorisedInv, Authorised, BeginRelay
  <2>2. session[s].authenticated \in Identities \cup {None}
    BY <2>1 DEF SessionState
  <2>. QED
    BY <2>1, <2>2, Zenon
<1>2. PICK messages : messages = pruneWindow(acceptedMessagesByKey[identity], MessageWindow)
  BY Zenon
<1>3. PICK running : running = Running("relay", identity, MessageWindow)
  BY Zenon
<1>4. /\ UNCHANGED <<authFailuresByKey, failed, accepted>>
      /\ MessageAllowed(identity) <=> Len(messages) < MessageLimit
      /\ Ledger(acceptedMessagesByKey[identity], accepted[identity], running,
                MessageWindow, MessageLimit)
  BY <1>1, <1>2, <1>3, Zenon
     DEF BeginRelay, MessageAllowed, SlotsInv, MessageSlots, historyVars
<1>5. FailureSlots'
  <2>1. \A t \in Sessions : (phase[t] = "auth" \/ phase'[t] = "auth") =>
                                    phase'[t] = phase[t] /\ call'[t] = call[t]
    BY Zenon DEF BeginRelay, GoTo, AuthorisedInv
  <2>. QED
    BY <1>4, <2>1, FailureSlotsStay, Zenon DEF SlotsInv
<1>6. MessageSlots /\ accepted' = [accepted EXCEPT ![identity] = accepted[identity]]
  BY <1>4, Zenon DEF SlotsInv, MessageSlots
<1>7. CASE MessageAllowed(identity)
  <2>1. /\ phase \in [Sessions -> Phases] /\ call \in [Sessions -> Call]
        /\ phase[s] # "relay" /\ phase' = [phase EXCEPT ![s] = "relay"]
        /\ call' = [call EXCEPT ![s] = CallOn(identity)]
    BY <1>1, <1>7, Zenon DEF BeginRelay, AuthorisedInv, GoTo
  <2>2. RunningBecomes("relay", identity, MessageWindow,
                       [Running("relay", identity, MessageWindow) EXCEPT ![0] = @ + 1])
    BY <2>1, WindowsAssumption, RunningBegins, Zenon
  <2>3. PICK more : more = [running EXCEPT ![0] = @ + 1]
    BY Zenon
  <2>4. RunningBecomes("relay", identity, MessageWindow, more)
    BY <1>3, <2>2, <2>3, Zenon
  <2>5. acceptedMessagesByKey' =
            [acceptedMessagesByKey EXCEPT ![identity] = Append(messages, 0)]
    BY <1>1, <1>2, <1>7, Zenon DEF BeginRelay, reserveAcceptedMessage
  <2>6. Ledger(Append(messages, 0), accepted[identity], more, MessageWindow, MessageLimit)
    BY <1>2, <1>4, <1>7, <2>3, WindowsAssumption, LedgerReserves, Zenon
  <2>. QED
    BY <1>5, <1>6, <2>4, <2>5, <2>6, MessageKeyMoves, Zenon DEF SlotsInv
<1>8. CASE ~MessageAllowed(identity)
  <2>1. \A t \in Sessions : (phase[t] = "relay" \/ phase'[t] = "relay") =>
                                    phase'[t] = phase[t] /\ call'[t] = call[t]
    BY <1>1, <1>8, Zenon DEF BeginRelay, GoTo, AuthorisedInv
  <2>2. RunningBecomes("relay", identity, MessageWindow, running)
    BY <1>3, <2>1, RunningSame, Zenon DEF RunningBecomes
  <2>3. acceptedMessagesByKey' = [acceptedMessagesByKey EXCEPT ![identity] = messages]
    BY <1>1, <1>2, <1>8, Zenon DEF BeginRelay, reserveAcceptedMessage
  <2>4. Ledger(messages, accepted[identity], running, MessageWindow, MessageLimit)
    BY <1>2, <1>4, WindowsAssumption, LedgerFull, Zenon
  <2>. QED
    BY <1>5, <1>6, <2>2, <2>3, <2>4, MessageKeyMoves, Zenon DEF SlotsInv
<1>. QED
  BY <1>7, <1>8, Zenon

\* The end of a relay call, with what its slot becomes.
LEMMA EndRelaySlots ==
    ASSUME SlotsInv, AuthorisedInv, NEW s \in Sessions, EndRelay(s),
           UNCHANGED <<authFailuresByKey, failed>>,
           \/ UNCHANGED acceptedMessagesByKey /\
              accepted' = IF call[s].age >= MessageWindow THEN accepted
                          ELSE [accepted EXCEPT ![call[s].key][call[s].age] = @ + 1]
           \/ cancelMessageReservation(call[s].key, call[s].age) /\ UNCHANGED accepted
    PROVE  SlotsInv'
<1>1. PICK key \in Identities, age \in Nat : key = call[s].key /\ age = call[s].age
  <2>1. /\ session[s] \in SessionState /\ session[s].mailFrom # None
        /\ session[s].mailFrom = session[s].authenticated
        /\ call[s].key = session[s].authenticated /\ call[s] \in Call
    BY Zenon DEF AuthorisedInv, Authorised, EndRelay
  <2>2. session[s].authenticated \in Identities \cup {None} /\ call[s].age \in Nat
    BY <2>1 DEF SessionState, Call
  <2>. QED
    BY <2>1, <2>2, Zenon
<1>2. /\ phase \in [Sessions -> Phases] /\ call \in [Sessions -> Call]
      /\ phase[s] = "relay" /\ phase' = [phase EXCEPT ![s] = "command"]
      /\ call' = [call EXCEPT ![s] = NoCall]
  BY Zenon DEF EndRelay, AuthorisedInv, GoTo
<1>3. FailureSlots'
  <2>1. \A t \in Sessions : (phase[t] = "auth" \/ phase'[t] = "auth") =>
                                    phase'[t] = phase[t] /\ call'[t] = call[t]
    BY <1>2, Zenon
  <2>. QED
    BY <2>1, FailureSlotsStay, Zenon DEF SlotsInv
<1>4. PICK running, events, counts :
        /\ running = Running("relay", key, MessageWindow)
        /\ events = acceptedMessagesByKey[key] /\ counts = accepted[key]
  BY Zenon
<1>5. /\ MessageSlots /\ Ledger(events, counts, running, MessageWindow, MessageLimit)
      /\ acceptedMessagesByKey = [acceptedMessagesByKey EXCEPT ![key] = events]
      /\ accepted = [accepted EXCEPT ![key] = counts]
  BY <1>4, Zenon DEF SlotsInv, MessageSlots
<1>6. MessageWindow \in Nat /\ MessageLimit \in Nat /\ "relay" # "command"
  BY WindowsAssumption, Zenon
<1>7. age >= MessageWindow <=> age \notin 0..MessageWindow - 1
  BY <1>6
<1>8. PICK shorter : shorter = WithoutFirst(events, age)
  BY Zenon
<1>9. CASE age >= MessageWindow
  <2>1. /\ accepted' = [accepted EXCEPT ![key] = counts]
        /\ \/ acceptedMessagesByKey' = [acceptedMessagesByKey EXCEPT ![key] = events]
           \/ acceptedMessagesByKey' = [acceptedMessagesByKey EXCEPT ![key] = shorter]
    BY <1>1, <1>4, <1>5, <1>8, <1>9, Zenon DEF cancelMessageReservation
  <2>2. RunningBecomes("relay", key, MessageWindow, Running("relay", key, MessageWindow))
    BY <1>1, <1>2, <1>6, <1>7, <1>9, RunningEndsUnnoticed, Zenon
  <2>3. RunningBecomes("relay", key, MessageWindow, running)
    BY <1>4, <2>2, Zenon
  <2>4. Ledger(shorter, counts, running, MessageWindow, MessageLimit)
    BY <1>5, <1>6, <1>7, <1>8, <1>9, LedgerStale, Zenon
  <2>5. MessageSlots'
    BY <1>5, <2>1, <2>3, <2>4, MessageKeyMoves, Zenon
  <2>. QED
    BY <1>3, <2>5, Zenon DEF SlotsInv
<1>10. CASE ~(age >= MessageWindow)
  <2>1. PICK more, less : /\ more = [counts EXCEPT ![age] = @ + 1]
                          /\ less = [running EXCEPT ![age] = @ - 1]
    BY Zenon
  <2>2. \/ /\ accepted' = [accepted EXCEPT ![key] = more]
           /\ acceptedMessagesByKey' = [acceptedMessagesByKey EXCEPT ![key] = events]
        \/ /\ accepted' = [accepted EXCEPT ![key] = counts]
           /\ acceptedMessagesByKey' = [acceptedMessagesByKey EXCEPT ![key] = shorter]
    BY <1>1, <1>4, <1>5, <1>8, <1>10, <2>1, Zenon DEF cancelMessageReservation
  <2>3. age \in 0..MessageWindow - 1 /\ ("relay" = "auth" => ~call[s].overtaken)
    BY <1>7, <1>10, Zenon
  <2>4. /\ Running("relay", key, MessageWindow)[age] >= 1
        /\ RunningBecomes("relay", key, MessageWindow,
                          [Running("relay", key, MessageWindow) EXCEPT ![age] = @ - 1])
    BY <1>1, <1>2, <1>6, <2>3, RunningEnds, Zenon
  <2>5. running[age] >= 1 /\ RunningBecomes("relay", key, MessageWindow, less)
    BY <1>4, <2>1, <2>4, Zenon
  <2>6. /\ Ledger(events, more, less, MessageWindow, MessageLimit)
        /\ Ledger(shorter, counts, less, MessageWindow, MessageLimit)
    BY <1>5, <1>6, <1>8, <2>1, <2>3, <2>5, LedgerSettles, Zenon
  <2>7. MessageSlots'
    BY <1>5, <2>2, <2>5, <2>6, MessageKeyMoves, Zenon
  <2>. QED
    BY <1>3, <2>7, Zenon DEF SlotsInv
<1>. QED
  BY <1>9, <1>10, Zenon

-----------------------------------------------------------------------------
(* The limits *)

LEMMA TickSlots ==
    ASSUME SlotsInv, AuthorisedInv, Tick
    PROVE  SlotsInv'
<1>1. ASSUME NEW k \in Identities
      PROVE  Ledger(acceptedMessagesByKey'[k], accepted'[k],
                    Running("relay", k, MessageWindow)', MessageWindow, MessageLimit)
  <2>1. PICK running, events, counts :
          /\ running = Running("relay", k, MessageWindow)
          /\ events = acceptedMessagesByKey[k] /\ counts = accepted[k]
    BY Zenon
  <2>2. PICK aged : aged = [i \in DOMAIN events |-> Older(events[i], MessageWindow)]
    BY Zenon
  <2>3. /\ Ledger(events, counts, running, MessageWindow, MessageLimit)
        /\ acceptedMessagesByKey'[k] = aged /\ accepted'[k] = Shift(counts)
    BY <2>1, <2>2, Zenon DEF SlotsInv, MessageSlots, Tick, AgeWindows
  <2>4. Running("relay", k, MessageWindow)' = Shift(Running("relay", k, MessageWindow))
    BY WindowsAssumption, RunningAges, Zenon
  <2>5. Ledger(aged, Shift(counts), Shift(running), MessageWindow, MessageLimit)
    BY <2>2, <2>3, WindowsAssumption, LedgerAges, Zenon
  <2>. QED
    BY <2>1, <2>3, <2>4, <2>5, Zenon
<1>2. ASSUME NEW k \in AuthKeys
      PROVE  Ledger(authFailuresByKey'[k], failed'[k],
                    Running("auth", k, AuthFailureWindow)', AuthFailureWindow, AuthFailureLimit)
  <2>1. PICK running, events, counts :
          /\ running = Running("auth", k, AuthFailureWindow)
          /\ events = authFailuresByKey[k] /\ counts = failed[k]
    BY Zenon
  <2>2. PICK aged : aged = [i \in DOMAIN events |-> Older(events[i], AuthFailureWindow)]
    BY Zenon
  <2>3. /\ Ledger(events, counts, running, AuthFailureWindow, AuthFailureLimit)
        /\ authFailuresByKey'[k] = aged /\ failed'[k] = Shift(counts)
    BY <2>1, <2>2, Zenon DEF SlotsInv, FailureSlots, Tick, AgeWindows
  <2>4. Running("auth", k, AuthFailureWindow)' = Shift(Running("auth", k, AuthFailureWindow))
    BY WindowsAssumption, RunningAges, Zenon
  <2>5. Ledger(aged, Shift(counts), Shift(running), AuthFailureWindow, AuthFailureLimit)
    BY <2>2, <2>3, WindowsAssumption, LedgerAges, Zenon
  <2>. QED
    BY <2>1, <2>3, <2>4, <2>5, Zenon
<1>3. MessageSlots'
  <2>1. \A k \in Identities : /\ acceptedMessagesByKey'[k] \in Seq(0..MessageWindow)
                              /\ accepted'[k] \in [0..MessageWindow - 1 -> Nat]
    BY <1>1, Zenon DEF Ledger
  <2>2. /\ acceptedMessagesByKey' = [k \in Identities |-> acceptedMessagesByKey'[k]]
        /\ accepted' = [k \in Identities |-> accepted'[k]]
    BY Zenon DEF Tick, AgeWindows
  <2>3. /\ acceptedMessagesByKey' \in [Identities -> Seq(0..MessageWindow)]
        /\ accepted' \in [Identities -> [0..MessageWindow - 1 -> Nat]]
    BY <2>1, <2>2, Zenon
  <2>. QED
    BY <1>1, <2>3, Zenon DEF MessageSlots
<1>4. FailureSlots'
  <2>1. \A k \in AuthKeys : /\ authFailuresByKey'[k] \in Seq(0..AuthFailureWindow)
                            /\ failed'[k] \in [0..AuthFailureWindow - 1 -> Nat]
    BY <1>2, Zenon DEF Ledger
  <2>2. /\ authFailuresByKey' = [k \in AuthKeys |-> authFailuresByKey'[k]]
        /\ failed' = [k \in AuthKeys |-> failed'[k]]
    BY Zenon DEF Tick, AgeWindows
  <2>3. /\ authFailuresByKey' \in [AuthKeys -> Seq(0..AuthFailureWindow)]
        /\ failed' \in [AuthKeys -> [0..AuthFailureWindow - 1 -> Nat]]
    BY <2>1, <2>2, Zenon
  <2>. QED
    BY <1>2, <2>3, Zenon DEF FailureSlots
<1>. QED
  BY <1>3, <1>4, Zenon DEF SlotsInv

\* Steps that reserve nothing and settle nothing.
LEMMA QuietSlots ==
    ASSUME SlotsInv, UNCHANGED <<windowVars, historyVars, call>>,
           \A t \in Sessions : phase[t] \in {"auth", "relay"} \/ phase'[t] \in {"auth", "relay"} =>
                                    phase'[t] = phase[t]
    PROVE  SlotsInv'
<1>1. /\ UNCHANGED <<acceptedMessagesByKey, accepted>>
      /\ UNCHANGED <<authFailuresByKey, failed>>
  BY Zenon DEF windowVars, historyVars
<1>2. MessageSlots'
  <2>1. \A t \in Sessions : (phase[t] = "relay" \/ phase'[t] = "relay") =>
                                    phase'[t] = phase[t] /\ call'[t] = call[t]
    BY Zenon
  <2>. QED
    BY <1>1, <2>1, MessageSlotsStay, Zenon DEF SlotsInv
<1>3. FailureSlots'
  <2>1. \A t \in Sessions : (phase[t] = "auth" \/ phase'[t] = "auth") =>
                                    phase'[t] = phase[t] /\ call'[t] = call[t]
    BY Zenon
  <2>. QED
    BY <1>1, <2>1, FailureSlotsStay, Zenon DEF SlotsInv
<1>. QED
  BY <1>2, <1>3, Zenon DEF SlotsInv

LEMMA NextSlots == SlotsInv /\ AuthorisedInv /\ SessionsInv /\ [Next]_vars => SlotsInv'
<1>. SUFFICES ASSUME SlotsInv, AuthorisedInv, SessionsInv, [Next]_vars PROVE SlotsInv'
  BY Zenon
<1>1. CASE UNCHANGED vars
  BY <1>1, QuietSlots, Zenon DEF vars, throttleVars
<1>2. ASSUME NEW s \in Sessions, NEW h \in Hosts, NEW tls \in BOOLEAN, Accept(s, h, tls)
      PROVE  SlotsInv'
  <2>1. \A t \in Sessions : phase[t] \in {"auth", "relay"} \/ phase'[t] \in {"auth", "relay"} =>
                                    phase'[t] = phase[t]
    BY <1>2, Zenon DEF Accept, GoTo, SessionsInv
  <2>. QED
    BY <1>2, <2>1, QuietSlots, Zenon DEF Accept
<1>3. ASSUME NEW s \in Sessions, Close(s)
      PROVE  SlotsInv'
  <2>1. \A t \in Sessions : phase[t] \in {"auth", "relay"} \/ phase'[t] \in {"auth", "relay"} =>
                                    phase'[t] = phase[t]
    BY <1>3, Zenon DEF Close, GoTo, SessionsInv
  <2>. QED
    BY <1>3, <2>1, QuietSlots, Zenon DEF Close
<1>4. ASSUME NEW s \in Sessions,
             \/ StartTLS(s) \/ (\E address \in Identities : Mail(s, address)) \/ Recipient(s)
             \/ Rset(s) \/ BeginData(s) \/ DataReadFails(s) \/ DataRejected(s)
      PROVE  SlotsInv'
  <2>1. \A t \in Sessions : phase[t] \in {"auth", "relay"} \/ phase'[t] \in {"auth", "relay"} =>
                                    phase'[t] = phase[t]
    BY <1>4, Zenon DEF StartTLS, Mail, Recipient, Rset, BeginData, DataReadFails, DataRejected,
                       GoTo, SessionsInv
  <2>2. UNCHANGED <<windowVars, historyVars, call>>
    BY <1>4, Zenon DEF StartTLS, Mail, Recipient, Rset, BeginData, DataReadFails, DataRejected,
                       throttleVars
  <2>. QED
    BY <2>1, <2>2, QuietSlots, Zenon
<1>5. ASSUME NEW s \in Sessions, RelayAccepted(s) \/ RelayRejected(s)
      PROVE  SlotsInv'
  <2>1. CASE RelayAccepted(s)
    <3>1. /\ EndRelay(s) /\ UNCHANGED <<authFailuresByKey, failed>>
          /\ UNCHANGED acceptedMessagesByKey
          /\ accepted' = IF call[s].age >= MessageWindow THEN accepted
                         ELSE [accepted EXCEPT ![call[s].key][call[s].age] = @ + 1]
      BY <2>1, Zenon DEF RelayAccepted, throttleVars, windowVars
    <3>. QED
      BY <3>1, EndRelaySlots, Zenon
  <2>2. CASE RelayRejected(s)
    <3>1. /\ EndRelay(s) /\ UNCHANGED <<authFailuresByKey, failed>>
          /\ cancelMessageReservation(call[s].key, call[s].age) /\ UNCHANGED accepted
      BY <2>2, Zenon DEF RelayRejected, historyVars
    <3>. QED
      BY <3>1, EndRelaySlots, Zenon
  <2>. QED
    BY <1>5, <2>1, <2>2, Zenon
<1>6. ASSUME NEW s \in Sessions, Command(s) \/ Answer(s)
      PROVE  SlotsInv'
  BY <1>4, <1>5, <1>6, AuthMalformedSlots, BeginAuthSlots, AuthAcceptedSlots, AuthRejectedSlots,
     BeginRelaySlots, Zenon DEF Command, Answer
<1>. QED
  BY <1>1, <1>2, <1>3, <1>6, TickSlots, Zenon DEF Next

WithinSessionLimits ==
    /\ activeSessions <= MaxConcurrentSessions
    /\ \A h \in Hosts : activeSessionsByHost[h] <= MaxSessionsPerRemoteHost

LEMMA NextWithinSessionLimits ==
    WithinSessionLimits /\ SessionsInv /\ [Next]_vars => WithinSessionLimits'
<1>. SUFFICES ASSUME WithinSessionLimits, SessionsInv, [Next]_vars PROVE WithinSessionLimits'
  BY Zenon
<1>1. activeSessions \in Nat /\ activeSessionsByHost \in [Hosts -> Nat]
  BY OpenFinite, FS_CardinalityType, Zenon DEF SessionsInv, SessionsAccounted
<1>2. ASSUME NEW s \in Sessions, NEW h \in Hosts, NEW tls \in BOOLEAN, Accept(s, h, tls)
      PROVE  WithinSessionLimits'
  <2>1. acquireSession(h)
    BY <1>2, Zenon DEF Accept
  <2>. QED
    BY <1>1, <2>1, SessionLimitsAssumption
       DEF acquireSession, CanAcquire, WithinSessionLimits
<1>3. ASSUME NEW s \in Sessions, Close(s)
      PROVE  WithinSessionLimits'
  <2>1. PICK h \in Hosts : releaseSession(h)
    BY <1>3, Zenon DEF Close, SessionsInv
  <2>. QED
    BY <1>1, <2>1, SessionLimitsAssumption DEF releaseSession, WithinSessionLimits
<1>4. ASSUME NEW s \in Sessions, Command(s)
      PROVE  UNCHANGED sessionLimitVars
  BY <1>4, Zenon DEF Command, StartTLS, AuthMalformed, BeginAuth, Mail, Recipient, Rset,
                     BeginData, throttleVars
<1>5. ASSUME NEW s \in Sessions, Answer(s)
      PROVE  UNCHANGED sessionLimitVars
  BY <1>5, Zenon DEF Answer, AuthAccepted, AuthRejected, DataReadFails, DataRejected,
                     BeginRelay, RelayAccepted, RelayRejected, throttleVars
<1>6. Tick \/ UNCHANGED vars => UNCHANGED sessionLimitVars
  BY Zenon DEF Tick, vars, throttleVars
<1>7. UNCHANGED sessionLimitVars => WithinSessionLimits'
  BY Zenon DEF sessionLimitVars, WithinSessionLimits
<1>. QED
  BY <1>2, <1>3, <1>4, <1>5, <1>6, <1>7, Zenon DEF Next

\* The invariants give what the property says of every window.
LEMMA LimitsFollow == SlotsInv /\ SessionsInv /\ WithinSessionLimits => LimitsHold
<1>. SUFFICES ASSUME SlotsInv, SessionsInv, WithinSessionLimits PROVE LimitsHold
  BY Zenon
<1>1. /\ MessageWindow \in Nat /\ MessageLimit \in Nat
      /\ AuthFailureWindow \in Nat /\ AuthFailureLimit \in Nat
  BY WindowsAssumption, Zenon
<1>2. ASSUME NEW k \in Identities
      PROVE  /\ InWindow(accepted[k], MessageWindow) <= MessageLimit
             /\ \A a \in 0..MessageWindow - 1 :
                    Occurrences(acceptedMessagesByKey[k], a) =
                        accepted[k][a] + Cardinality(Calls("relay", k, a))
  <2>1. Ledger(acceptedMessagesByKey[k], accepted[k], Running("relay", k, MessageWindow),
               MessageWindow, MessageLimit)
    BY Zenon DEF SlotsInv, MessageSlots
  <2>2. \A a : Waiting("relay", k, a) = Calls("relay", k, a)
    BY Zenon DEF Waiting, Calls
  <2>3. InWindow(accepted[k], MessageWindow) <= MessageLimit
    BY <1>1, <2>1, LedgerBounds, Zenon
  <2>4. ASSUME NEW a \in 0..MessageWindow - 1
        PROVE  Occurrences(acceptedMessagesByKey[k], a) =
                    accepted[k][a] + Cardinality(Calls("relay", k, a))
    <3>1. Running("relay", k, MessageWindow)[a] = Cardinality(Calls("relay", k, a))
      BY <2>2, Zenon DEF Running
    <3>. QED
      BY <2>1, <3>1, Zenon DEF Ledger
  <2>. QED
    BY <2>3, <2>4, Zenon
<1>3. ASSUME NEW k \in AuthKeys
      PROVE  /\ InWindow(failed[k], AuthFailureWindow) <= AuthFailureLimit
             /\ \A a \in 0..AuthFailureWindow - 1 :
                    Occurrences(authFailuresByKey[k], a) =
                        failed[k][a]
                        + Cardinality({s \in Calls("auth", k, a) : ~call[s].overtaken})
  <2>1. Ledger(authFailuresByKey[k], failed[k], Running("auth", k, AuthFailureWindow),
               AuthFailureWindow, AuthFailureLimit)
    BY Zenon DEF SlotsInv, FailureSlots
  <2>2. \A a : Waiting("auth", k, a) = {s \in Calls("auth", k, a) : ~call[s].overtaken}
    BY Zenon DEF Waiting
  <2>3. InWindow(failed[k], AuthFailureWindow) <= AuthFailureLimit
    BY <1>1, <2>1, LedgerBounds, Zenon
  <2>4. ASSUME NEW a \in 0..AuthFailureWindow - 1
        PROVE  Occurrences(authFailuresByKey[k], a) =
                    failed[k][a] + Cardinality({s \in Calls("auth", k, a) : ~call[s].overtaken})
    <3>1. Running("auth", k, AuthFailureWindow)[a] =
                Cardinality({s \in Calls("auth", k, a) : ~call[s].overtaken})
      BY <2>2, Zenon DEF Running
    <3>. QED
      BY <2>1, <3>1, Zenon DEF Ledger
  <2>. QED
    BY <2>3, <2>4, Zenon
<1>4. SlotsAccounted
  BY <1>2, <1>3, Zenon DEF SlotsAccounted
<1>5. /\ Cardinality(Open) <= MaxConcurrentSessions
      /\ \A h \in Hosts : Cardinality(OpenFrom(h)) <= MaxSessionsPerRemoteHost
  BY Zenon DEF SessionsInv, SessionsAccounted, WithinSessionLimits
<1>. QED
  BY <1>2, <1>3, <1>4, <1>5, Zenon DEF LimitsHold

\* However many connections, logins and messages overlap, whichever of them
\* fail, and however the windows move on meanwhile, no more connections are
\* open, no more logins have failed within a window and no more messages were
\* accepted within a window than configured (acquireSession,
\* reserveAuthAttempt and reserveAcceptedMessage in
\* internal/smtpsubmission/throttle.go).
THEOREM LimitsAlwaysHold == Spec => []LimitsHold
<1>1. Init => WithinSessionLimits
  BY SessionLimitsAssumption DEF Init, InitThrottle, WithinSessionLimits
<1>. QED
  BY <1>1, InitSessions, NextSessions, InitAuthorised, NextAuthorised, InitSlots, NextSlots,
     NextWithinSessionLimits, LimitsFollow, PTL DEF Spec
=============================================================================
