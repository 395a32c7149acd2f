---------------------------- MODULE SmtpIdentity ----------------------------
(***************************************************************************)
(* SMTP identities: their credentials, their forwarding recipients and     *)
(* the logins and route lookups that depend on them                        *)
(* (internal/smtpidentity/repository.go), over the registry of sender      *)
(* domains that gates them.                                                *)
(*                                                                         *)
(* Every call reads a row, decides and writes later, Save writing all the  *)
(* columns that were read.  A username and its password are drawn together *)
(* and stored together, so one number stands for both.  A row is never     *)
(* removed: an address has at most one for ever.                           *)
(***************************************************************************)
EXTENDS DomainRegistry, Naturals, FiniteSets

CONSTANTS
    Addresses,     \* shared addresses
    Mailboxes,     \* other addresses
    DomainOf,      \* the domain of a shared address
    Calls,         \* concurrent HTTP requests on identities
    Logins,        \* SMTP connections that authenticate
    Lookups,       \* inbound RCPT commands that resolve a route
    MaxCredentials \* bound on credentials drawn

ASSUME DomainOfAssumption == DomainOf \in [Addresses -> Domains]
ASSUME MaxCredentialsAssumption == MaxCredentials \in Nat
ASSUME NoneIsNoAddress == None \notin Addresses

VARIABLES
    identity,    \* the identities table
    forward,     \* the forward_recipients table
    credentials, \* credentials drawn so far
    call,        \* the call in progress
    login,       \* the login in progress or in force
    route,       \* the route lookup in progress or answered
    \* history
    retired,     \* credentials that a call which returned success replaced or
                 \*   disabled
    disabled     \* addresses whose delete returned success, not created since

identityVars == <<identity, forward, credentials, call, login, route, retired, disabled>>
vars == <<registry, identityVars>>

-----------------------------------------------------------------------------
Credentials == 1..MaxCredentials
Recipients == Addresses \cup Mailboxes

NoIdentity == [status |-> "none", owner |-> None, username |-> 0]

NoCall == [step |-> "idle", user |-> None, address |-> None, row |-> NoIdentity,
           forwardTo |-> {}]
NoLogin == [step |-> "idle", address |-> None, row |-> NoIdentity]
NoRoute == [step |-> "idle", address |-> None, owner |-> None, recipients |-> {}]

ActiveIdentity(owner, username) ==
    [status |-> "active", owner |-> owner, username |-> username]

DeletedIdentity(row) ==
    [status |-> "deleted", owner |-> row.owner, username |-> row.username]

\* validateForwardRecipients and validateForwardRecipientTarget.
ValidRecipients(address, forwardTo) == forwardTo # {} /\ address \notin forwardTo

\* requireIdentityForScope
VisibleIdentity(user, a) ==
    identity[a].status = "active" /\ (user \in Admins \/ identity[a].owner = user)

Return(c) == call' = [call EXCEPT ![c] = NoCall]

Init ==
    /\ InitRegistry
    /\ identity = [a \in Addresses |-> NoIdentity]
    /\ forward = [a \in Addresses |-> {}]
    /\ credentials = 0
    /\ call = [c \in Calls |-> NoCall]
    /\ login = [l \in Logins |-> NoLogin]
    /\ route = [r \in Lookups |-> NoRoute]
    /\ retired = {}
    /\ disabled = {}

-----------------------------------------------------------------------------
(* CreateForScope *)

BeginCreate(c, user, a, forwardTo) ==
    /\ call[c].step = "idle"
    /\ SenderDomainAllowed(user, DomainOf[a])
    /\ ValidRecipients(a, forwardTo)
    /\ call' = [call EXCEPT ![c] =
            [step |-> "find", user |-> user, address |-> a, row |-> NoIdentity,
             forwardTo |-> forwardTo]]
    /\ UNCHANGED <<registry, identity, forward, credentials, login, route, retired, disabled>>

\* An active identity is ErrIdentityExists; a deleted one will be reactivated.
FindExisting(c) ==
    LET found == identity[call[c].address]
    IN  /\ call[c].step = "find"
        /\ IF found.status = "active"
           THEN Return(c) /\ UNCHANGED credentials
           ELSE /\ credentials < MaxCredentials
                /\ credentials' = credentials + 1
                /\ call' = [call EXCEPT ![c] =
                        [step |-> IF found.status = "deleted" THEN "reactivate" ELSE "insert",
                         user |-> call[c].user, address |-> call[c].address,
                         row |-> ActiveIdentity(call[c].user, credentials + 1),
                         forwardTo |-> call[c].forwardTo]]
        /\ UNCHANGED <<registry, identity, forward, login, route, retired, disabled>>

\* A faulty form of the transaction below: the old recipients go, the new
\* ones are lost.
ReactivateWithoutRecipients(c) ==
    LET a == call[c].address
    IN  /\ call[c].step = "reactivate"
        /\ identity' = [identity EXCEPT ![a] = call[c].row]
        /\ forward' = [forward EXCEPT ![a] = {}]
        /\ retired' = retired \cup {identity[a].username}
        /\ disabled' = disabled \ {a}
        /\ Return(c)
        /\ UNCHANGED <<registry, credentials, login, route>>

\* One transaction: recipients deleted, row saved, recipients inserted.
Reactivate(c) ==
    LET a == call[c].address
    IN  /\ call[c].step = "reactivate"
        /\ identity' = [identity EXCEPT ![a] = call[c].row]
        /\ forward' = [forward EXCEPT ![a] = call[c].forwardTo]
        /\ retired' = retired \cup {identity[a].username}
        /\ disabled' = disabled \ {a}
        /\ Return(c)
        /\ UNCHANGED <<registry, credentials, login, route>>

\* The unique index on the address lets one of several inserts through.
InsertIdentity(c) ==
    LET a == call[c].address
    IN  /\ call[c].step = "insert"
        /\ IF identity[a].status = "none"
           THEN /\ identity' = [identity EXCEPT ![a] = call[c].row]
                /\ forward' = [forward EXCEPT ![a] = call[c].forwardTo]
           ELSE UNCHANGED <<identity, forward>>
        /\ Return(c)
        /\ UNCHANGED <<registry, credentials, login, route, retired, disabled>>

-----------------------------------------------------------------------------
(* RotateForScope, DeleteForScope, UpdateForwardingForScope *)

BeginRotate(c, user, a) ==
    /\ call[c].step = "idle"
    /\ VisibleIdentity(user, a)
    /\ credentials < MaxCredentials
    /\ credentials' = credentials + 1
    /\ call' = [call EXCEPT ![c] =
            [step |-> "rotate", user |-> user, address |-> a,
             row |-> ActiveIdentity(identity[a].owner, credentials + 1), forwardTo |-> {}]]
    /\ UNCHANGED <<registry, identity, forward, login, route, retired, disabled>>

SaveRotated(c) ==
    LET a == call[c].address
    IN  /\ call[c].step = "rotate"
        /\ identity' = [identity EXCEPT ![a] = call[c].row]
        /\ retired' = retired \cup {identity[a].username}
        /\ Return(c)
        /\ UNCHANGED <<registry, forward, credentials, login, route, disabled>>

BeginDelete(c, user, a) ==
    /\ call[c].step = "idle"
    /\ VisibleIdentity(user, a)
    /\ call' = [call EXCEPT ![c] =
            [step |-> "delete", user |-> user, address |-> a,
             row |-> DeletedIdentity(identity[a]), forwardTo |-> {}]]
    /\ UNCHANGED <<registry, identity, forward, credentials, login, route, retired, disabled>>

\* The row is saved with the username that was read; the recipients stay.
SaveDeleted(c) ==
    LET a == call[c].address
    IN  /\ call[c].step = "delete"
        /\ identity' = [identity EXCEPT ![a] = call[c].row]
        /\ retired' = retired \cup {identity[a].username, call[c].row.username}
        /\ disabled' = disabled \cup {a}
        /\ Return(c)
        /\ UNCHANGED <<registry, forward, credentials, login, route>>

BeginUpdateForwarding(c, user, a, forwardTo) ==
    /\ call[c].step = "idle"
    /\ VisibleIdentity(user, a)
    /\ ValidRecipients(a, forwardTo)
    /\ call' = [call EXCEPT ![c] =
            [step |-> "forward", user |-> user, address |-> a, row |-> NoIdentity,
             forwardTo |-> forwardTo]]
    /\ UNCHANGED <<registry, identity, forward, credentials, login, route, retired, disabled>>

\* One transaction, whatever has become of the identity since.
ReplaceForwarding(c) ==
    /\ call[c].step = "forward"
    /\ forward' = [forward EXCEPT ![call[c].address] = call[c].forwardTo]
    /\ Return(c)
    /\ UNCHANGED <<registry, identity, credentials, login, route, retired, disabled>>

\* A database error, a client that has gone or a crash ends a call.
AbandonCall(c) ==
    /\ call[c].step # "idle"
    /\ Return(c)
    /\ UNCHANGED <<registry, identity, forward, credentials, login, route, retired, disabled>>

-----------------------------------------------------------------------------
(* Authenticate *)

BeginLogin(l, username) ==
    /\ login[l].step = "idle"
    /\ \E a \in Addresses :
        /\ identity[a].status = "active" /\ identity[a].username = username
        /\ login' = [login EXCEPT ![l] = [step |-> "domain", address |-> a, row |-> identity[a]]]
    /\ UNCHANGED <<registry, identity, forward, credentials, call, route, retired, disabled>>

LoginDomain(l) ==
    /\ login[l].step = "domain"
    /\ login' = [login EXCEPT ![l] =
            IF SenderDomainAllowed(login[l].row.owner, DomainOf[login[l].address])
            THEN [step |-> "mark", address |-> login[l].address, row |-> login[l].row]
            ELSE NoLogin]
    /\ UNCHANGED <<registry, identity, forward, credentials, call, route, retired, disabled>>

\* A faulty form of the condition below: the update goes by id and status.
StillCurrentByStatus(l) == identity[login[l].address].status = "active"

\* The WHERE clause of markAuthenticatedIdentityUsed.
StillCurrent(l) ==
    /\ identity[login[l].address].status = "active"
    /\ identity[login[l].address].username = login[l].row.username

MarkUsed(l) ==
    /\ login[l].step = "mark"
    /\ login' = [login EXCEPT ![l] =
            IF StillCurrent(l)
            THEN [step |-> "accepted", address |-> login[l].address, row |-> login[l].row]
            ELSE NoLogin]
    /\ UNCHANGED <<registry, identity, forward, credentials, call, route, retired, disabled>>

\* The connection ends, at whatever point.
EndLogin(l) ==
    /\ login[l].step # "idle"
    /\ login' = [login EXCEPT ![l] = NoLogin]
    /\ UNCHANGED <<registry, identity, forward, credentials, call, route, retired, disabled>>

-----------------------------------------------------------------------------
(* ResolveForwarding: row, recipients and domain are three queries *)

BeginResolve(r, a) ==
    /\ route[r].step = "idle"
    /\ identity[a].status = "active"
    /\ route' = [route EXCEPT ![r] =
            [step |-> "recipients", address |-> a, owner |-> identity[a].owner, recipients |-> {}]]
    /\ UNCHANGED <<registry, identity, forward, credentials, call, login, retired, disabled>>

ReadRecipients(r) ==
    LET found == forward[route[r].address]
    IN  /\ route[r].step = "recipients"
        /\ route' = [route EXCEPT ![r] =
                IF found = {} THEN NoRoute
                ELSE [step |-> "domain", address |-> route[r].address,
                      owner |-> route[r].owner, recipients |-> found]]
        /\ UNCHANGED <<registry, identity, forward, credentials, call, login, retired, disabled>>

RouteDomain(r) ==
    /\ route[r].step = "domain"
    /\ route' = [route EXCEPT ![r] =
            IF SenderDomainAllowed(route[r].owner, DomainOf[route[r].address])
            THEN [step |-> "answered", address |-> route[r].address,
                  owner |-> route[r].owner, recipients |-> route[r].recipients]
            ELSE NoRoute]
    /\ UNCHANGED <<registry, identity, forward, credentials, call, login, retired, disabled>>

EndResolve(r) ==
    /\ route[r].step # "idle"
    /\ route' = [route EXCEPT ![r] = NoRoute]
    /\ UNCHANGED <<registry, identity, forward, credentials, call, login, retired, disabled>>

-----------------------------------------------------------------------------
BeginCall(c) ==
    \E user \in Users, a \in Addresses :
        \/ \E forwardTo \in SUBSET Recipients :
                \/ BeginCreate(c, user, a, forwardTo)
                \/ BeginUpdateForwarding(c, user, a, forwardTo)
        \/ BeginRotate(c, user, a)
        \/ BeginDelete(c, user, a)

EndCall(c) ==
    \/ FindExisting(c)
    \/ Reactivate(c)
    \/ InsertIdentity(c)
    \/ SaveRotated(c)
    \/ SaveDeleted(c)
    \/ ReplaceForwarding(c)

Login(l) ==
    \/ \E username \in Credentials : BeginLogin(l, username)
    \/ LoginDomain(l)
    \/ MarkUsed(l)

ResolveForwarding(r) ==
    \/ \E a \in Addresses : BeginResolve(r, a)
    \/ ReadRecipients(r)
    \/ RouteDomain(r)

Next ==
    \/ RegistryNext /\ UNCHANGED identityVars
    \/ \E c \in Calls : BeginCall(c) \/ EndCall(c) \/ AbandonCall(c)
    \/ \E l \in Logins : Login(l) \/ EndLogin(l)
    \/ \E r \in Lookups : ResolveForwarding(r) \/ EndResolve(r)

Spec == Init /\ [][Next]_vars

\* Calls and logins that have begun go on.
FairSpec ==
    /\ Spec
    /\ \A c \in Calls : WF_vars(EndCall(c))
    /\ \A l \in Logins : WF_vars(LoginDomain(l) \/ MarkUsed(l))

-----------------------------------------------------------------------------
(* Properties *)

\* Every stored identity belongs to the owner of its verified domain, whoever
\* created, rotated or reactivated it and whatever overlapped.  "forward_to
\* must contain at least one valid address", and not the shared address itself:
\* true of every stored identity and of every route that ResolveForwarding
\* answers, though it reads row and recipients separately.
IdentityIsSound ==
    /\ \A a \in Addresses : identity[a].status # "none" =>
            /\ identity[a].owner = registry[DomainOf[a]].owner
            /\ forward[a] # {} /\ a \notin forward[a]
    /\ \A r \in Lookups : route[r].step = "answered" =>
            route[r].recipients # {} /\ route[r].address \notin route[r].recipients

Accepts(l) == login[l].step # "accepted" /\ login'[l].step = "accepted"

\* A credential that a rotate, a create or a delete has replaced or disabled
\* never authenticates again, even if a stale Save writes it back and even if
\* the login began before.
RetiredNeverAuthenticates ==
    [][\A l \in Logins : Accepts(l) => login[l].row.username \notin retired]_vars

\* "DeleteForScope disables an identity visible to the owner scope so it can
\* no longer authenticate": nobody logs in as an address whose delete has
\* returned success until it is created again.
DeletedCannotAuthenticate ==
    [][\A l \in Logins : Accepts(l) => login[l].address \notin disabled]_vars
=============================================================================
