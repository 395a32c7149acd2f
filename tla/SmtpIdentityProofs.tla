------------------------ MODULE SmtpIdentityProofs ------------------------
(***************************************************************************)
(* What overlapping requests leave intact, for any number of them: that    *)
(* registrations and DNS checks of sender domains implement the registry   *)
(* which the identities are modelled with, and that a verified domain has  *)
(* published its own token; the owner and the recipients of every          *)
(* identity, and that a retired credential never logs in.                  *)
(***************************************************************************)
EXTENDS SenderDomain, SmtpIdentity, TLAPS

(* Sender domains *)

\* Rows the program stores.
StoredRow == [owner : Users, status : {"pending", "verified"}, token : Tokens]
Row == StoredRow \cup {NoDomain}

TXTLookups == {"ownership", "spf", "dmarc"}
Checks == TXTLookups \cup {"reread", "save"}
Steps == Checks \cup {"idle", "insert"}

Request == [step : Steps, domain : Domains \cup {None}, row : Row, passed : BOOLEAN]

DomainTypes ==
    /\ domain \in [Domains -> Row]
    /\ dns \in [Domains -> SUBSET Records]
    /\ published \in [Domains -> SUBSET Records]
    /\ tokens \in 0..MaxTokens
    /\ request \in [Requests -> Request]

\* What is in a zone was published.
ZoneInv == \A d \in Domains : dns[d] \subseteq published[d]

\* An insert holds a row that may be stored.
InsertInv ==
    \A r \in Requests : request[r].step = "insert" =>
        /\ request[r].domain \in Domains
        /\ request[r].row \in StoredRow
        /\ request[r].row.status = "pending"

\* A check holds a row that agrees with the table on owner and token: neither
\* changes once the domain is registered.
CheckInv ==
    \A r \in Requests : request[r].step \in Checks =>
        /\ request[r].domain \in Domains
        /\ request[r].row \in StoredRow
        /\ domain[request[r].domain] \in StoredRow
        /\ request[r].row.owner = domain[request[r].domain].owner
        /\ request[r].row.token = domain[request[r].domain].token

\* The records a check has found by the time it is at a step.
Found(step, token) ==
    CASE step = "spf" -> {Ownership(token)}
      [] step = "dmarc" -> {Ownership(token), SPF}
      [] step \in {"reread", "save"} -> {Ownership(token), SPF, DMARC}
      [] OTHER -> {}

\* A check that has passed so far found records that were published.
PassedInv ==
    \A r \in Requests : request[r].step \in Checks /\ request[r].passed = TRUE =>
        Found(request[r].step, request[r].row.token) \subseteq published[request[r].domain]

DomainInv ==
    DomainTypes /\ ZoneInv /\ InsertInv /\ CheckInv /\ PassedInv /\ VerifiedWasPublished

-----------------------------------------------------------------------------
LEMMA DomainInvInit == InitDomains => DomainInv
<1> SUFFICES ASSUME InitDomains PROVE DomainInv
    BY Zenon
<1> USE UsersAssumption, MaxTokensAssumption DEF InitDomains
<1>1. NoDomain \in Row /\ NoDomain.status = "none"
    BY Zenon DEF Row, NoDomain
<1>2. NoRequest \in Request /\ NoRequest.step = "idle"
    BY <1>1, Zenon DEF NoRequest, Request, Steps
<1>3. DomainTypes
    BY <1>1, <1>2 DEF DomainTypes
<1>4. ZoneInv /\ InsertInv /\ CheckInv /\ PassedInv
    BY <1>2, Zenon DEF ZoneInv, InsertInv, CheckInv, PassedInv, Checks, TXTLookups
<1>5. VerifiedWasPublished
    BY <1>1, Zenon DEF VerifiedWasPublished
<1> QED
    BY <1>3, <1>4, <1>5, Zenon DEF DomainInv

\* A request that ends leaves the others as they are.
LEMMA RequestEnds ==
    ASSUME DomainInv, NEW r \in Requests, EndRequest(r),
           UNCHANGED <<dns, tokens, published>>,
           domain' \in [Domains -> Row],
           \A d \in Domains : domain[d] \in StoredRow =>
                /\ domain'[d] \in StoredRow
                /\ domain'[d].owner = domain[d].owner
                /\ domain'[d].token = domain[d].token,
           VerifiedWasPublished'
    PROVE  DomainInv'
<1> USE DEF DomainInv, EndRequest
<1>1. NoRequest \in Request /\ NoRequest.step = "idle"
    BY Zenon DEF NoRequest, Request, Row, Steps
<1>2. DomainTypes'
    BY <1>1, Zenon DEF DomainTypes
<1>3. \A s \in Requests : request'[s] = request[s] \/ request'[s].step = "idle"
    BY <1>1, Zenon DEF DomainTypes
<1>4. ZoneInv' /\ InsertInv'
    BY <1>3, Zenon DEF ZoneInv, InsertInv
<1>5. CheckInv'
    <2> SUFFICES ASSUME NEW s \in Requests, request'[s].step \in Checks
                 PROVE  /\ request'[s].domain \in Domains
                        /\ request'[s].row \in StoredRow
                        /\ domain'[request'[s].domain] \in StoredRow
                        /\ request'[s].row.owner = domain'[request'[s].domain].owner
                        /\ request'[s].row.token = domain'[request'[s].domain].token
        BY Zenon DEF CheckInv
    <2>1. request'[s] = request[s]
        BY <1>3, Zenon DEF Checks, TXTLookups
    <2> QED
        BY <2>1 DEF CheckInv
<1>6. PassedInv'
    BY <1>3, ZenonT(30) DEF PassedInv, Checks, TXTLookups
<1> QED
    BY <1>2, <1>4, <1>5, <1>6, Zenon

-----------------------------------------------------------------------------
(* One lemma per action *)

LEMMA BeginRegisterInv ==
    ASSUME DomainInv, NEW r \in Requests, NEW user \in Users, NEW d \in Domains,
           BeginRegister(r, user, d)
    PROVE  DomainInv'
<1> DEFINE row == [owner |-> user, status |-> "pending", token |-> tokens + 1]
           new == [step |-> "insert", domain |-> d, passed |-> TRUE, row |-> row]
<1> USE DEF DomainInv, BeginRegister
<1>1. row \in StoredRow
    BY MaxTokensAssumption DEF StoredRow, Tokens, DomainTypes
<1>2. new \in Request
    BY <1>1, Zenon DEF Request, Steps, Row
<1>3. DomainTypes'
    BY <1>2, MaxTokensAssumption DEF DomainTypes
<1>4. \A s \in Requests : request'[s] = IF s = r THEN new ELSE request[s]
    BY Zenon DEF DomainTypes
<1>5. InsertInv'
    BY <1>1, <1>4 DEF InsertInv
<1>6. CheckInv'
    BY <1>4 DEF CheckInv, Checks, TXTLookups
<1>7. PassedInv'
    BY <1>4 DEF PassedInv, Checks, TXTLookups
<1>8. ZoneInv' /\ VerifiedWasPublished'
    BY Zenon DEF ZoneInv, VerifiedWasPublished
<1> QED
    BY <1>3, <1>5, <1>6, <1>7, <1>8, Zenon

LEMMA InsertKeepsInv ==
    ASSUME DomainInv, NEW r \in Requests, Insert(r)
    PROVE  DomainInv'
<1> DEFINE d == request[r].domain
<1> USE DEF DomainInv, Insert
<1>1. d \in Domains /\ request[r].row \in StoredRow /\ request[r].row.status = "pending"
    BY Zenon DEF InsertInv
<1>2. \A e \in Domains : domain[e] \in StoredRow => Registered(e)
    BY Zenon DEF StoredRow, Registered
<1>3. \A e \in Domains :
          domain'[e] = domain[e] \/ (e = d /\ ~Registered(d) /\ domain'[e] = request[r].row)
    BY <1>1, Zenon DEF DomainTypes
<1>4. domain' \in [Domains -> Row]
    BY <1>1, Zenon DEF DomainTypes, Row
<1>5. VerifiedWasPublished'
    BY <1>1, <1>3, Zenon DEF VerifiedWasPublished
<1> QED
    BY <1>2, <1>3, <1>4, <1>5, RequestEnds, Zenon

LEMMA BeginCheckInv ==
    ASSUME DomainInv, NEW r \in Requests, NEW user \in Users, NEW d \in Domains,
           BeginCheck(r, user, d)
    PROVE  DomainInv'
<1> DEFINE new == [step |-> "ownership", domain |-> d, row |-> domain[d], passed |-> TRUE]
<1> USE DEF DomainInv, BeginCheck
<1>1. domain[d] \in StoredRow
    BY DEF VisibleDomain, Registered, DomainTypes, Row, NoDomain
<1>2. new \in Request
    BY <1>1, Zenon DEF Request, Steps, Checks, TXTLookups, Row
<1>3. DomainTypes'
    BY <1>2, Zenon DEF DomainTypes
<1>4. \A s \in Requests : request'[s] = IF s = r THEN new ELSE request[s]
    BY Zenon DEF DomainTypes
<1>5. InsertInv'
    BY <1>4 DEF InsertInv
<1>6. CheckInv'
    BY <1>1, <1>4 DEF CheckInv
<1>7. PassedInv'
    BY <1>4 DEF PassedInv, Found
<1>8. ZoneInv' /\ VerifiedWasPublished'
    BY Zenon DEF ZoneInv, VerifiedWasPublished
<1> QED
    BY <1>3, <1>5, <1>6, <1>7, <1>8, Zenon

LEMMA LookupTXTInv ==
    ASSUME DomainInv, NEW r \in Requests, NEW answered \in BOOLEAN, LookupTXT(r, answered)
    PROVE  DomainInv'
<1> DEFINE q == request[r]
           verdict == AllPassed(q.passed, answered, Expected(r) \in dns[q.domain])
           new == [q EXCEPT !.step = NextStep(@), !.passed = verdict]
<1> USE DEF DomainInv
<1>1. q \in Request /\ q.step \in TXTLookups /\ q.step \in Checks
    BY Zenon DEF LookupTXT, DomainTypes, TXTLookups, Checks
<1>2. NextStep(q.step) \in Checks
    BY <1>1, Zenon DEF NextStep, TXTLookups, Checks
<1>3. verdict \in BOOLEAN
    BY Zenon DEF AllPassed
<1>4. /\ new \in Request
      /\ new.step = NextStep(q.step)
      /\ new.passed = verdict
      /\ new.row = q.row /\ new.domain = q.domain
    BY <1>1, <1>2, <1>3, ZenonT(30) DEF Request, Steps
<1>5. request' = [request EXCEPT ![r] = new] /\ UNCHANGED <<domain, dns, tokens, published>>
    BY ZenonT(30) DEF LookupTXT, DomainTypes
<1>6. \A s \in Requests : request'[s] = IF s = r THEN new ELSE request[s]
    BY <1>5, Zenon DEF DomainTypes
<1> HIDE DEF new, verdict
<1>7. DomainTypes'
    BY <1>4, <1>5, Zenon DEF DomainTypes
<1>8. InsertInv'
    BY <1>2, <1>4, <1>5, <1>6, Zenon DEF InsertInv, Checks, TXTLookups
<1>9. CheckInv'
    BY <1>1, <1>4, <1>5, <1>6 DEF CheckInv
<1>10. PassedInv'
    <2> SUFFICES ASSUME NEW s \in Requests,
                        request'[s].step \in Checks, request'[s].passed = TRUE
                 PROVE  Found(request'[s].step, request'[s].row.token)
                            \subseteq published'[request'[s].domain]
        BY ZenonT(30) DEF PassedInv
    <2>0. CASE s # r
        BY <1>5, <1>6, <2>0, Zenon DEF PassedInv
    <2> SUFFICES ASSUME verdict = TRUE
                 PROVE  Found(NextStep(q.step), q.row.token) \subseteq published[q.domain]
        BY <1>4, <1>5, <1>6, <2>0, ZenonT(30)
    <2>1. q.passed = TRUE /\ Expected(r) \in dns[q.domain]
        BY <1>1, Zenon DEF verdict, AllPassed, Request
    <2>2. q.domain \in Domains
        BY <1>1, Zenon DEF CheckInv
    <2>3. Expected(r) \in published[q.domain]
        BY <2>1, <2>2, Zenon DEF ZoneInv
    <2>4. Found(q.step, q.row.token) \subseteq published[q.domain]
        BY <1>1, <2>1, Zenon DEF PassedInv
    <2>5. CASE q.step = "ownership"
        BY <2>3, <2>5, Zenon DEF Found, NextStep, Expected
    <2>6. CASE q.step = "spf"
        BY <2>3, <2>4, <2>6, Zenon DEF Found, NextStep, Expected
    <2>7. CASE q.step = "dmarc"
        BY <2>3, <2>4, <2>7, Zenon DEF Found, NextStep, Expected
    <2> QED
        BY <1>1, <2>5, <2>6, <2>7, Zenon DEF TXTLookups
<1>11. ZoneInv' /\ VerifiedWasPublished'
    BY <1>5, Zenon DEF ZoneInv, VerifiedWasPublished
<1> QED
    BY <1>7, <1>8, <1>9, <1>10, <1>11, Zenon

LEMMA RereadInv ==
    ASSUME DomainInv, NEW r \in Requests, Reread(r)
    PROVE  DomainInv'
<1> DEFINE q == request[r]
           new == [q EXCEPT !.step = "save", !.row = domain[q.domain]]
<1> USE DEF DomainInv
<1>1. q \in Request /\ q.step = "reread" /\ q.step \in Checks
    BY Zenon DEF Reread, DomainTypes, Checks
<1>2. /\ q.domain \in Domains /\ domain[q.domain] \in StoredRow
      /\ q.row.token = domain[q.domain].token
    BY <1>1, Zenon DEF CheckInv
<1>3. /\ new \in Request
      /\ new.step = "save" /\ new.row = domain[q.domain]
      /\ new.domain = q.domain /\ new.passed = q.passed
    BY <1>1, <1>2, ZenonT(30) DEF Request, Steps, Checks, Row
<1>4. request' = [request EXCEPT ![r] = new] /\ UNCHANGED <<domain, dns, tokens, published>>
    BY ZenonT(30) DEF Reread, DomainTypes
<1>5. \A s \in Requests : request'[s] = IF s = r THEN new ELSE request[s]
    BY <1>4, Zenon DEF DomainTypes
<1> HIDE DEF new
<1>6. DomainTypes'
    BY <1>3, <1>4, Zenon DEF DomainTypes
<1>7. InsertInv'
    BY <1>3, <1>4, <1>5 DEF InsertInv
<1>8. CheckInv'
    BY <1>2, <1>3, <1>4, <1>5 DEF CheckInv
<1>9. PassedInv'
    BY <1>1, <1>2, <1>3, <1>4, <1>5, SMTT(30) DEF PassedInv, Found
<1>10. ZoneInv' /\ VerifiedWasPublished'
    BY <1>4, Zenon DEF ZoneInv, VerifiedWasPublished
<1> QED
    BY <1>6, <1>7, <1>8, <1>9, <1>10, Zenon

LEMMA SaveOutcomeInv ==
    ASSUME DomainInv, NEW r \in Requests, SaveOutcome(r)
    PROVE  DomainInv'
<1> DEFINE q == request[r]
           d == q.domain
           saved == [q.row EXCEPT !.status = Outcome(q.passed)]
<1> USE DEF DomainInv
<1>1. q \in Request /\ q.step = "save" /\ q.step \in Checks
    BY Zenon DEF SaveOutcome, DomainTypes, Checks
<1>2. /\ d \in Domains /\ q.row \in StoredRow /\ domain[d] \in StoredRow
      /\ q.row.owner = domain[d].owner /\ q.row.token = domain[d].token
    BY <1>1, Zenon DEF CheckInv
<1>3. /\ saved \in StoredRow
      /\ saved.owner = domain[d].owner /\ saved.token = domain[d].token
      /\ saved.status = Outcome(q.passed)
    BY <1>2, Zenon DEF StoredRow, Outcome
<1>4. /\ domain' = [domain EXCEPT ![d] = saved]
      /\ EndRequest(r) /\ UNCHANGED <<dns, tokens, published>>
    BY Zenon DEF SaveOutcome
<1> HIDE DEF saved
<1>5. \A e \in Domains : domain'[e] = IF e = d THEN saved ELSE domain[e]
    BY <1>4, Zenon DEF DomainTypes
<1>6. domain' \in [Domains -> Row]
    BY <1>3, <1>4, ZenonT(30) DEF DomainTypes, Row
<1>7. VerifiedWasPublished'
    <2> SUFFICES ASSUME saved.status = "verified"
                 PROVE  {Ownership(saved.token), SPF, DMARC} \subseteq published[d]
        BY <1>4, <1>5 DEF VerifiedWasPublished
    <2>1. q.passed = TRUE
        BY <1>1, <1>3, Zenon DEF Outcome, Request
    <2>2. Found("save", q.row.token) \subseteq published[d]
        BY <1>1, <2>1, Zenon DEF PassedInv
    <2> QED
        BY <1>2, <1>3, <2>2, Zenon DEF Found
<1> QED
    BY <1>3, <1>4, <1>5, <1>6, <1>7, RequestEnds, Zenon

LEMMA AbandonRequestInv ==
    ASSUME DomainInv, NEW r \in Requests, AbandonRequest(r)
    PROVE  DomainInv'
BY RequestEnds, Zenon DEF AbandonRequest, DomainInv, DomainTypes, VerifiedWasPublished

LEMMA ZoneChangesInv ==
    ASSUME DomainInv, NEW d \in Domains, NEW rec \in Records,
           Publish(d, rec) \/ Withdraw(d, rec)
    PROVE  DomainInv'
<1> USE DEF DomainInv, Publish, Withdraw
<1>1. DomainTypes'
    BY DEF DomainTypes
<1>2. \A e \in Domains : published[e] \subseteq published'[e]
    BY Zenon DEF DomainTypes
<1>3. ZoneInv'
    BY Zenon DEF DomainTypes, ZoneInv
<1>4. InsertInv' /\ CheckInv'
    BY Zenon DEF InsertInv, CheckInv
<1>5. PassedInv'
    BY <1>2, Zenon DEF PassedInv, CheckInv
<1>6. VerifiedWasPublished'
    BY <1>2, Zenon DEF VerifiedWasPublished
<1> QED
    BY <1>1, <1>3, <1>4, <1>5, <1>6, Zenon

LEMMA DomainInvNext == DomainInv /\ [DomainNext]_domainVars => DomainInv'
<1> SUFFICES ASSUME DomainInv, [DomainNext]_domainVars PROVE DomainInv'
    BY Zenon
<1>1. CASE UNCHANGED domainVars
    BY <1>1, Zenon DEF domainVars, DomainInv, DomainTypes, ZoneInv, InsertInv, CheckInv, PassedInv,
                VerifiedWasPublished
<1>2. CASE \E r \in Requests, user \in Users, d \in Domains :
                BeginRegister(r, user, d) \/ BeginCheck(r, user, d)
    BY <1>2, BeginRegisterInv, BeginCheckInv, Zenon
<1>3. CASE \E r \in Requests : HandleRequest(r) \/ AbandonRequest(r)
    BY <1>3, InsertKeepsInv, LookupTXTInv, RereadInv, SaveOutcomeInv, AbandonRequestInv, Zenon
       DEF HandleRequest
<1>4. CASE \E d \in Domains, rec \in Records : Publish(d, rec) \/ Withdraw(d, rec)
    BY <1>4, ZoneChangesInv, Zenon
<1> QED
    BY <1>1, <1>2, <1>3, <1>4, Zenon DEF DomainNext

\* A domain is verified only if the token stored with it, SPF and DMARC were
\* published, however many registrations and checks overlap
\* (CheckSenderDomainDNS, UpdateSenderDomainStatusForScope).
THEOREM VerifiedDomains == DomainSpec => []VerifiedWasPublished
<1>1. DomainInv => VerifiedWasPublished
    BY Zenon DEF DomainInv
<1> QED
    BY <1>1, DomainInvInit, DomainInvNext, PTL DEF DomainSpec

-----------------------------------------------------------------------------
(* The refinement *)

\* The registry that the table stands for.
Entries == [d \in Domains |-> [owner |-> domain[d].owner, status |-> domain[d].status]]

LEMMA InitIsInitRegistry == InitDomains => Registry!InitRegistry
BY DEF InitDomains, NoDomain, Registry!InitRegistry, Registry!Unregistered

\* What writing one row does to the registry.
LEMMA WriteRow ==
    ASSUME NEW d \in Domains, NEW row, domain \in [Domains -> Row],
           domain' = [domain EXCEPT ![d] = row]
    PROVE  Entries' = [Entries EXCEPT ![d] = [owner |-> row.owner, status |-> row.status]]
<1>1. \A e \in Domains : domain'[e] = IF e = d THEN row ELSE domain[e]
    BY Zenon
<1> QED
    BY <1>1, Zenon DEF Entries

\* Only two actions write the table.
LEMMA StepIsRegistryStep ==
    DomainInv /\ [DomainNext]_domainVars => [Registry!RegistryNext]_Entries
<1> SUFFICES ASSUME DomainInv, [DomainNext]_domainVars
             PROVE  Registry!RegistryNext \/ Entries' = Entries
    BY Zenon
<1>1. ASSUME domain' = domain PROVE Entries' = Entries
    BY <1>1, Zenon DEF Entries
<1>2. ASSUME NEW r \in Requests, Insert(r) PROVE Registry!RegistryNext \/ Entries' = Entries
    <2>1. /\ request[r].domain \in Domains /\ request[r].row.owner \in Users
          /\ request[r].row.status = "pending"
        BY <1>2, Zenon DEF DomainInv, InsertInv, Insert, StoredRow
    <2>2. PICK d \in Domains, user \in Users :
            d = request[r].domain /\ user = request[r].row.owner
        BY <2>1, Zenon
    <2>3. CASE Registered(d)
        BY <1>1, <1>2, <2>2, <2>3, Zenon DEF Insert
    <2>4. CASE ~Registered(d)
        <3>1. domain' = [domain EXCEPT ![d] = request[r].row] /\ domain \in [Domains -> Row]
            BY <1>2, <2>2, <2>4, Zenon DEF Insert, DomainInv, DomainTypes
        <3>2. Registry!Register(d, user)
            BY <2>1, <2>2, <2>4, <3>1, WriteRow, SMTT(30)
               DEF Registry!Register, Registered, Entries
        <3> QED
            BY <3>2, Zenon DEF Registry!RegistryNext
    <2> QED
        BY <2>3, <2>4, Zenon
<1>3. ASSUME NEW r \in Requests, SaveOutcome(r) PROVE Registry!RegistryNext
    <2>1. /\ request[r].domain \in Domains /\ request[r].row \in StoredRow
          /\ domain[request[r].domain] \in StoredRow
          /\ request[r].row.owner = domain[request[r].domain].owner
        BY <1>3, Zenon DEF DomainInv, CheckInv, SaveOutcome, Checks
    <2>2. PICK d \in Domains, outcome \in {"pending", "verified"} :
            d = request[r].domain /\ outcome = Outcome(request[r].passed)
        BY <2>1, Zenon DEF Outcome
    <2>3. domain' = [domain EXCEPT ![d] = [request[r].row EXCEPT !.status = outcome]]
        BY <1>3, <2>2, Zenon DEF SaveOutcome
    <2>4. /\ domain[d].status # "none"
          /\ [request[r].row EXCEPT !.status = outcome].owner = domain[d].owner
          /\ [request[r].row EXCEPT !.status = outcome].status = outcome
        BY <2>1, <2>2, Zenon DEF StoredRow
    <2>5. domain \in [Domains -> Row]
        BY Zenon DEF DomainInv, DomainTypes
    <2>6. Registry!StoreStatus(d, outcome)
        BY <2>3, <2>4, <2>5, WriteRow, ZenonT(30) DEF Registry!StoreStatus, Entries
    <2> QED
        BY <2>6, Zenon DEF Registry!RegistryNext
<1> QED
    BY <1>1, <1>2, <1>3, ZenonT(30)
       DEF DomainNext, domainVars, HandleRequest, BeginRegister, BeginCheck, LookupTXT, Reread,
           AbandonRequest, Publish, Withdraw

\* Racing requests implement the registry that the identities are modelled
\* with: the first registration of a domain wins for good, and every save of
\* a check stores an outcome and nothing else (CreateSenderDomainForScope,
\* UpdateSenderDomainStatusForScope).
THEOREM DomainsImplementRegistry == DomainSpec => ImplementsRegistry
<1>1. DomainSpec => []DomainInv
    BY DomainInvInit, DomainInvNext, PTL DEF DomainSpec
<1> QED
    BY <1>1, InitIsInitRegistry, StepIsRegistryStep, PTL
       DEF DomainSpec, ImplementsRegistry, Registry!RegistrySpec, Entries
-----------------------------------------------------------------------------
(* Identities *)

Identity ==
    [status : {"active", "deleted"}, owner : Users, username : Credentials]
        \cup {NoIdentity}

Call ==
    [step : {"idle", "find", "insert", "reactivate", "rotate", "delete", "forward"},
     user : Users \cup {None}, address : Addresses \cup {None}, row : Identity,
     forwardTo : SUBSET Recipients]

LoginState ==
    [step : {"idle", "domain", "mark", "accepted"},
     address : Addresses \cup {None}, row : Identity]

Route ==
    [step : {"idle", "recipients", "domain", "answered"}, address : Addresses \cup {None},
     owner : Users \cup {None}, recipients : SUBSET Recipients]

TypeInv ==
    /\ registry \in [Domains -> Entry]
    /\ identity \in [Addresses -> Identity]
    /\ forward \in [Addresses -> SUBSET Recipients]
    /\ credentials \in 0..MaxCredentials
    /\ call \in [Calls -> Call]
    /\ login \in [Logins -> LoginState]
    /\ route \in [Lookups -> Route]

-----------------------------------------------------------------------------
(* Owners and recipients *)

Exists(a) == identity[a].status # "none"

\* Once this is true it stays true: a registered domain keeps its owner.
Owns(owner, a) ==
    registry[DomainOf[a]].status # "none" /\ registry[DomainOf[a]].owner = owner

SoundRow(a) ==
    Exists(a) => Owns(identity[a].owner, a) /\ ValidRecipients(a, forward[a])

\* What a call holds between its read and its save.
SoundCall(q) ==
    /\ q.step # "idle" => q.address \in Addresses
    /\ q.step \in {"find", "insert", "reactivate"} =>
            Owns(q.user, q.address) /\ q.user \in Users
    /\ q.step \in {"find", "insert", "reactivate", "forward"} =>
            ValidRecipients(q.address, q.forwardTo)
    /\ q.step \in {"insert", "reactivate"} => q.row.owner = q.user
    /\ q.step \in {"insert", "reactivate", "rotate"} => q.row.status = "active"
    /\ q.step = "delete" => q.row.status = "deleted"
    /\ q.step \in {"rotate", "delete"} => Owns(q.row.owner, q.address) /\ Exists(q.address)

SoundRoute(q) ==
    /\ q.step # "idle" => q.address \in Addresses
    /\ q.step = "recipients" => Exists(q.address)
    /\ q.step \in {"domain", "answered"} => ValidRecipients(q.address, q.recipients)

SoundInv ==
    /\ TypeInv
    /\ \A a \in Addresses : SoundRow(a)
    /\ \A c \in Calls : SoundCall(call[c])
    /\ \A r \in Lookups : SoundRoute(route[r])

LEMMA SoundInvInit == Init => SoundInv
<1> SUFFICES ASSUME Init PROVE SoundInv
    BY Zenon
<1> USE DEF Init, InitRegistry
<1>1. NoIdentity \in Identity /\ NoIdentity.status = "none"
    BY Zenon DEF Identity, NoIdentity
<1>2. NoCall \in Call /\ NoCall.step = "idle"
    BY <1>1, Zenon DEF Call, NoCall
<1>3. NoLogin \in LoginState
    BY <1>1, Zenon DEF LoginState, NoLogin
<1>4. NoRoute \in Route /\ NoRoute.step = "idle"
    BY Zenon DEF Route, NoRoute
<1>5. TypeInv
    BY <1>1, <1>2, <1>3, <1>4, MaxCredentialsAssumption DEF TypeInv, Entry
<1>6. \A a \in Addresses : SoundRow(a)
    BY <1>1, Zenon DEF SoundRow, Exists
<1>7. \A c \in Calls : SoundCall(call[c])
    BY <1>2, Zenon DEF SoundCall
<1>8. \A r \in Lookups : SoundRoute(route[r])
    BY <1>4, Zenon DEF SoundRoute
<1> QED
    BY <1>5, <1>6, <1>7, <1>8, Zenon DEF SoundInv

\* The registry moves on its own.
LEMMA RegistrySound ==
    ASSUME SoundInv, RegistryNext, UNCHANGED identityVars
    PROVE  SoundInv'
<1> USE DEF SoundInv, identityVars
<1>1. TypeInv'
    BY DEF TypeInv, RegistryNext, Register, StoreStatus, Entry, Unregistered
<1>2. \A a \in Addresses : \A owner : Owns(owner, a) => Owns(owner, a)'
    BY DomainOfAssumption DEF TypeInv, RegistryNext, Register, StoreStatus, Owns
<1>3. \A a \in Addresses : SoundRow(a)'
    BY <1>2, Zenon DEF SoundRow, Exists
<1>4. \A c \in Calls : SoundCall(call[c])'
    BY <1>2, Zenon DEF SoundCall, Exists
<1>5. \A r \in Lookups : SoundRoute(route[r])'
    BY Zenon DEF SoundRoute, Exists
<1> QED
    BY <1>1, <1>3, <1>4, <1>5, Zenon

\* A call that only reads: the tables stay, and so does what the others hold.
LEMMA CallReads ==
    ASSUME SoundInv, NEW c \in Calls, NEW q \in Call, SoundCall(q),
           call' = [call EXCEPT ![c] = q],
           credentials' \in 0..MaxCredentials,
           UNCHANGED <<registry, identity, forward, login, route>>
    PROVE  SoundInv'
<1> USE DEF SoundInv
<1>1. TypeInv'
    BY Zenon DEF TypeInv
<1>2. \A a \in Addresses : SoundRow(a)'
    BY Zenon DEF SoundRow, Exists, Owns
<1>3. \A e \in Calls : call'[e] = IF e = c THEN q ELSE call[e]
    BY SMTT(30) DEF TypeInv
<1>4. \A e \in Calls : SoundCall(call[e])'
    <2> TAKE e \in Calls
    <2>1. PICK p : p = call'[e]
        BY Zenon
    <2>2. SoundCall(p)
        BY <1>3, <2>1, Zenon
    <2>3. SoundCall(p)'
        BY <2>2, Zenon DEF SoundCall, Exists, Owns
    <2> QED
        BY <2>1, <2>3, ZenonT(40) DEF SoundCall, Exists, Owns
<1>5. \A r \in Lookups : SoundRoute(route[r])'
    BY Zenon DEF SoundRoute, Exists
<1> QED
    BY <1>1, <1>2, <1>4, <1>5, Zenon

LEMMA NoCallSound == NoCall \in Call /\ SoundCall(NoCall)
BY Zenon DEF NoCall, Call, Identity, SoundCall

\* A call that writes its row and its recipients and returns: nothing that
\* exists ceases to.
LEMMA CallWrites ==
    ASSUME SoundInv, NEW c \in Calls, Return(c),
           NEW a \in Addresses,
           identity' \in [Addresses -> Identity],
           forward' \in [Addresses -> SUBSET Recipients],
           \A b \in Addresses : b # a => identity'[b] = identity[b] /\ forward'[b] = forward[b],
           Exists(a) => Exists(a)', SoundRow(a)',
           UNCHANGED <<registry, credentials, login, route>>
    PROVE  SoundInv'
<1> USE DEF SoundInv
<1>1. TypeInv'
    BY NoCallSound, Zenon DEF TypeInv, Return
<1>2. \A b \in Addresses : Exists(b) => Exists(b)'
    BY Zenon DEF Exists
<1>3. \A b \in Addresses : SoundRow(b)'
    <2> SUFFICES ASSUME NEW b \in Addresses, b # a PROVE SoundRow(b)'
        BY Zenon
    <2> QED
        BY Zenon DEF SoundRow, Exists, Owns
<1>4. \A e \in Calls : call'[e] = IF e = c THEN NoCall ELSE call[e]
    BY Zenon DEF TypeInv, Return
<1>5. \A e \in Calls : SoundCall(call[e])'
    <2> SUFFICES ASSUME NEW e \in Calls PROVE SoundCall(call[e])'
        BY ZenonT(40)
    <2>1. CASE e = c
        BY <1>4, <2>1, SMTT(30) DEF SoundCall, NoCall
    <2>2. CASE e # c
        <3>1. SoundCall(call[e]) /\ call'[e] = call[e]
            BY <1>4, <2>2, Zenon
        <3> QED
            BY <1>2, <3>1, ZenonT(30) DEF SoundCall, Owns
    <2> QED
        BY <2>1, <2>2, Zenon
<1>6. \A r \in Lookups : SoundRoute(route[r])'
    BY <1>2, Zenon DEF SoundRoute
<1> QED
    BY <1>1, <1>3, <1>5, <1>6, Zenon

-----------------------------------------------------------------------------
(* Calls *)

LEMMA BeginCallSound ==
    ASSUME SoundInv, NEW c \in Calls, BeginCall(c)
    PROVE  SoundInv'
<1>1. PICK user \in Users, a \in Addresses :
        \/ \E forwardTo \in SUBSET Recipients :
                BeginCreate(c, user, a, forwardTo) \/ BeginUpdateForwarding(c, user, a, forwardTo)
        \/ BeginRotate(c, user, a)
        \/ BeginDelete(c, user, a)
    BY Zenon DEF BeginCall
<1>2. NoIdentity \in Identity
    BY Zenon DEF Identity
<1>3. credentials \in 0..MaxCredentials /\ identity[a] \in Identity /\ SoundRow(a)
    BY Zenon DEF SoundInv, TypeInv
<1>4. ASSUME NEW forwardTo \in SUBSET Recipients, BeginCreate(c, user, a, forwardTo)
      PROVE  SoundInv'
    <2> DEFINE q == [step |-> "find", user |-> user, address |-> a, row |-> NoIdentity,
                     forwardTo |-> forwardTo]
    <2>1. q \in Call
        BY <1>2, Zenon DEF Call
    <2>2. Owns(user, a)
        BY <1>4, DomainOfAssumption, Zenon DEF BeginCreate, SenderDomainAllowed, Owns
    <2>3. SoundCall(q)
        BY <1>4, <2>2, Zenon DEF SoundCall, BeginCreate
    <2> HIDE DEF q
    <2> QED
        BY <1>3, <1>4, <2>1, <2>3, CallReads, ZenonT(30) DEF BeginCreate, q
<1>5. ASSUME NEW forwardTo \in SUBSET Recipients, BeginUpdateForwarding(c, user, a, forwardTo)
      PROVE  SoundInv'
    <2> DEFINE q == [step |-> "forward", user |-> user, address |-> a, row |-> NoIdentity,
                     forwardTo |-> forwardTo]
    <2>1. q \in Call
        BY <1>2, Zenon DEF Call
    <2>2. SoundCall(q)
        BY <1>5, Zenon DEF SoundCall, BeginUpdateForwarding
    <2> HIDE DEF q
    <2> QED
        BY <1>3, <1>5, <2>1, <2>2, CallReads, ZenonT(30) DEF BeginUpdateForwarding, q
<1>6. CASE BeginRotate(c, user, a)
    <2> DEFINE q == [step |-> "rotate", user |-> user, address |-> a,
                     row |-> ActiveIdentity(identity[a].owner, credentials + 1),
                     forwardTo |-> {}]
    <2>1. Exists(a) /\ identity[a].owner \in Users /\ credentials + 1 \in Credentials
        BY <1>3, <1>6, MaxCredentialsAssumption
           DEF BeginRotate, VisibleIdentity, Exists, Identity, NoIdentity, Credentials
    <2>2. q \in Call
        BY <2>1, Zenon DEF Call, ActiveIdentity, Identity
    <2>3. SoundCall(q)
        BY <1>3, <2>1, Zenon DEF SoundCall, SoundRow, ActiveIdentity
    <2>4. credentials' \in 0..MaxCredentials
        BY <1>3, <1>6, MaxCredentialsAssumption DEF BeginRotate
    <2> HIDE DEF q
    <2> QED
        BY <1>6, <2>2, <2>3, <2>4, CallReads, ZenonT(30) DEF BeginRotate, q
<1>7. CASE BeginDelete(c, user, a)
    <2> DEFINE q == [step |-> "delete", user |-> user, address |-> a,
                     row |-> DeletedIdentity(identity[a]), forwardTo |-> {}]
    <2>1. Exists(a) /\ identity[a].owner \in Users /\ identity[a].username \in Credentials
        BY <1>3, <1>7 DEF BeginDelete, VisibleIdentity, Exists, Identity, NoIdentity
    <2>2. q \in Call
        BY <2>1, Zenon DEF Call, DeletedIdentity, Identity
    <2>3. SoundCall(q)
        BY <1>3, <2>1, Zenon DEF SoundCall, SoundRow, DeletedIdentity
    <2> HIDE DEF q
    <2> QED
        BY <1>3, <1>7, <2>2, <2>3, CallReads, ZenonT(30) DEF BeginDelete, q
<1> QED
    BY <1>1, <1>4, <1>5, <1>6, <1>7, Zenon

LEMMA FindExistingSound ==
    ASSUME SoundInv, NEW c \in Calls, FindExisting(c)
    PROVE  SoundInv'
<1> DEFINE found == identity[call[c].address]
<1>1. /\ call[c] \in Call /\ SoundCall(call[c]) /\ call[c].step = "find"
      /\ credentials \in 0..MaxCredentials
    BY Zenon DEF FindExisting, SoundInv, TypeInv
<1>2. CASE found.status = "active"
    BY <1>1, <1>2, NoCallSound, CallReads, Zenon DEF FindExisting, Return
<1>3. CASE found.status # "active"
    <2> DEFINE q == [step |-> IF found.status = "deleted" THEN "reactivate" ELSE "insert",
                     user |-> call[c].user, address |-> call[c].address,
                     row |-> ActiveIdentity(call[c].user, credentials + 1),
                     forwardTo |-> call[c].forwardTo]
    <2>1. /\ call' = [call EXCEPT ![c] = q] /\ credentials' = credentials + 1
          /\ credentials < MaxCredentials
          /\ UNCHANGED <<registry, identity, forward, login, route>>
        BY <1>3, Zenon DEF FindExisting
    <2>2. call[c].user \in Users /\ credentials + 1 \in Credentials
        BY <1>1, <2>1, MaxCredentialsAssumption DEF SoundCall, Credentials
    <2>3. q \in Call
        BY <1>1, <2>2, Zenon DEF Call, ActiveIdentity, Identity
    <2>4. SoundCall(q)
        BY <1>1, Zenon DEF SoundCall, ActiveIdentity
    <2>5. credentials' \in 0..MaxCredentials
        BY <1>1, <2>1, MaxCredentialsAssumption, SMTT(30)
    <2> HIDE DEF q
    <2> QED
        BY <2>1, <2>3, <2>4, <2>5, CallReads, ZenonT(30)
<1> QED
    BY <1>2, <1>3, Zenon

LEMMA CreateWritesSound ==
    ASSUME SoundInv, NEW c \in Calls, Reactivate(c) \/ InsertIdentity(c)
    PROVE  SoundInv'
<1>1. call[c] \in Call /\ SoundCall(call[c]) /\ call[c].step \in {"insert", "reactivate"}
    BY Zenon DEF Reactivate, InsertIdentity, SoundInv, TypeInv
<1>2. PICK a \in Addresses : a = call[c].address
    BY <1>1, Zenon DEF SoundCall
<1>3. /\ a \in Addresses /\ call[c].row \in Identity /\ call[c].forwardTo \in SUBSET Recipients
      /\ call[c].row.status = "active"
      /\ Owns(call[c].row.owner, a) /\ ValidRecipients(a, call[c].forwardTo)
    BY <1>1, <1>2, Zenon DEF SoundCall, Call
<1>4. identity \in [Addresses -> Identity] /\ forward \in [Addresses -> SUBSET Recipients]
    BY Zenon DEF SoundInv, TypeInv
<1>5. CASE /\ identity' = [identity EXCEPT ![a] = call[c].row]
           /\ forward' = [forward EXCEPT ![a] = call[c].forwardTo]
           /\ Return(c) /\ UNCHANGED <<registry, credentials, login, route>>
    <2>1. identity'[a] = call[c].row /\ forward'[a] = call[c].forwardTo
        BY <1>3, <1>4, <1>5, Zenon
    <2>2. Exists(a)' /\ SoundRow(a)'
        BY <1>3, <1>5, <2>1, Zenon DEF Exists, SoundRow, Owns, Return
    <2> QED
        BY <1>3, <1>4, <1>5, <2>2, CallWrites, Zenon
<1>6. CASE UNCHANGED <<identity, forward, registry, credentials, login, route>> /\ Return(c)
    BY <1>6, NoCallSound, CallReads, ZenonT(30) DEF Return, SoundInv, TypeInv
<1> QED
    BY <1>2, <1>5, <1>6, Zenon DEF Reactivate, InsertIdentity

LEMMA SavesSound ==
    ASSUME SoundInv, NEW c \in Calls, SaveRotated(c) \/ SaveDeleted(c)
    PROVE  SoundInv'
<1>1. call[c] \in Call /\ SoundCall(call[c]) /\ call[c].step \in {"rotate", "delete"}
    BY Zenon DEF SaveRotated, SaveDeleted, SoundInv, TypeInv
<1>2. PICK a \in Addresses : a = call[c].address
    BY <1>1, Zenon DEF SoundCall
<1>3. /\ a \in Addresses /\ call[c].row \in Identity /\ call[c].row.status # "none"
      /\ Owns(call[c].row.owner, a) /\ Exists(a)
    BY <1>1, <1>2, Zenon DEF SoundCall, Call
<1>4. /\ identity \in [Addresses -> Identity] /\ forward \in [Addresses -> SUBSET Recipients]
      /\ SoundRow(a)
    BY <1>3, Zenon DEF SoundInv, TypeInv
<1>5. /\ identity' = [identity EXCEPT ![a] = call[c].row]
      /\ Return(c) /\ UNCHANGED <<forward, registry, credentials, login, route>>
    BY <1>2, Zenon DEF SaveRotated, SaveDeleted
<1>6. identity'[a] = call[c].row
    BY <1>3, <1>4, <1>5, Zenon
<1>7. Exists(a)' /\ SoundRow(a)'
    BY <1>3, <1>4, <1>5, <1>6, Zenon DEF Exists, SoundRow, Owns, Return
<1> QED
    BY <1>3, <1>4, <1>5, <1>7, CallWrites, Zenon

LEMMA ReplaceForwardingSound ==
    ASSUME SoundInv, NEW c \in Calls, ReplaceForwarding(c)
    PROVE  SoundInv'
<1>1. call[c] \in Call /\ SoundCall(call[c]) /\ call[c].step = "forward"
    BY Zenon DEF ReplaceForwarding, SoundInv, TypeInv
<1>2. PICK a \in Addresses : a = call[c].address
    BY <1>1, Zenon DEF SoundCall
<1>3. /\ a \in Addresses /\ call[c].forwardTo \in SUBSET Recipients
      /\ ValidRecipients(a, call[c].forwardTo)
    BY <1>1, <1>2, SMTT(30) DEF SoundCall, Call
<1>4. /\ identity \in [Addresses -> Identity] /\ forward \in [Addresses -> SUBSET Recipients]
      /\ SoundRow(a)
    BY <1>3, Zenon DEF SoundInv, TypeInv
<1>5. /\ forward' = [forward EXCEPT ![a] = call[c].forwardTo]
      /\ Return(c) /\ UNCHANGED <<identity, registry, credentials, login, route>>
    BY <1>2, SMTT(30) DEF ReplaceForwarding
<1>6. (Exists(a) => Exists(a)') /\ SoundRow(a)'
    BY <1>3, <1>4, <1>5, Zenon DEF Exists, SoundRow, Owns
<1> QED
    BY <1>3, <1>4, <1>5, <1>6, CallWrites, SMTT(30)

LEMMA AbandonCallSound ==
    ASSUME SoundInv, NEW c \in Calls, AbandonCall(c)
    PROVE  SoundInv'
BY NoCallSound, CallReads, ZenonT(30) DEF AbandonCall, Return, SoundInv, TypeInv

-----------------------------------------------------------------------------
(* Logins and lookups *)

LEMMA LoginSound ==
    ASSUME SoundInv, NEW l \in Logins, Login(l) \/ EndLogin(l)
    PROVE  SoundInv'
<1> USE DEF SoundInv
<1>1. UNCHANGED <<registry, identity, forward, credentials, call, route>>
    BY Zenon DEF Login, EndLogin, BeginLogin, LoginDomain, MarkUsed
<1>2. login[l] \in LoginState /\ \A a \in Addresses : identity[a] \in Identity
    BY Zenon DEF TypeInv
<1>3. NoLogin \in LoginState
    BY Zenon DEF NoLogin, LoginState, Identity
<1>4. login' \in [Logins -> LoginState]
    <2>1. CASE \E username \in Credentials : BeginLogin(l, username)
        BY <1>2, <2>1 DEF BeginLogin, TypeInv, LoginState
    <2>2. CASE LoginDomain(l) \/ MarkUsed(l) \/ EndLogin(l)
        BY <1>2, <1>3, <2>2 DEF LoginDomain, MarkUsed, EndLogin, TypeInv, LoginState
    <2> QED
        BY <2>1, <2>2, Zenon DEF Login
<1>5. TypeInv'
    BY <1>1, <1>4, Zenon DEF TypeInv
<1>6. \A a \in Addresses : SoundRow(a)'
    BY <1>1, SMTT(30) DEF SoundRow, Exists, Owns
<1>7. \A c \in Calls : SoundCall(call[c])'
    BY <1>1, ZenonT(40) DEF SoundCall, Exists, Owns
<1>8. \A r \in Lookups : SoundRoute(route[r])'
    BY <1>1, Zenon DEF SoundRoute, Exists
<1> QED
    BY <1>5, <1>6, <1>7, <1>8, Zenon

LEMMA ResolveSound ==
    ASSUME SoundInv, NEW r \in Lookups, ResolveForwarding(r) \/ EndResolve(r)
    PROVE  SoundInv'
<1> USE DEF SoundInv
<1>1. UNCHANGED <<registry, identity, forward, credentials, call, login>>
    BY Zenon DEF ResolveForwarding, EndResolve, BeginResolve, ReadRecipients, RouteDomain
<1>2. PICK q \in Route : route' = [route EXCEPT ![r] = q] /\ SoundRoute(q)
    <2>1. NoRoute \in Route /\ SoundRoute(NoRoute)
        BY Zenon DEF NoRoute, Route, SoundRoute
    <2>2. route[r] \in Route /\ SoundRoute(route[r])
        BY Zenon DEF TypeInv
    <2>3. ASSUME NEW a \in Addresses, BeginResolve(r, a)
          PROVE  \E q \in Route : route' = [route EXCEPT ![r] = q] /\ SoundRoute(q)
        <3> DEFINE q == [step |-> "recipients", address |-> a, owner |-> identity[a].owner,
                         recipients |-> {}]
        <3>1. identity[a] \in Identity
            BY Zenon DEF TypeInv
        <3>2. identity[a].owner \in Users \cup {None}
            BY <3>1 DEF Identity, NoIdentity
        <3>3. q \in Route
            BY <3>2, Zenon DEF Route
        <3>a. q.step = "recipients" /\ q.address = a
            BY Zenon
        <3>5. route' = [route EXCEPT ![r] = q]
            BY <2>3, Zenon DEF BeginResolve
        <3> HIDE DEF q
        <3>b. Exists(a)
            BY <2>3, Zenon DEF BeginResolve, Exists
        <3>4. SoundRoute(q)
            BY <3>a, <3>b, Zenon DEF SoundRoute
        <3> QED
            BY <3>3, <3>4, <3>5, ZenonT(30)
    <2>4. CASE ReadRecipients(r)
        <3> DEFINE a == route[r].address
                   q == [step |-> "domain", address |-> a, owner |-> route[r].owner,
                         recipients |-> forward[a]]
        <3>1. a \in Addresses /\ Exists(a)
            BY <2>2, <2>4, Zenon DEF ReadRecipients, SoundRoute
        <3>2. q \in Route
            BY <2>2, <3>1, SMTT(30) DEF Route, TypeInv
        <3>3. SoundRoute(q)
            BY <3>1, Zenon DEF SoundRoute, SoundRow
        <3>4. route' = [route EXCEPT ![r] = NoRoute] \/ route' = [route EXCEPT ![r] = q]
            BY <2>4, ZenonT(30) DEF ReadRecipients
        <3> HIDE DEF q
        <3> QED
            BY <2>1, <3>2, <3>3, <3>4, SMTT(30)
    <2>5. CASE RouteDomain(r)
        <3> DEFINE q == [step |-> "answered", address |-> route[r].address,
                         owner |-> route[r].owner, recipients |-> route[r].recipients]
        <3>1. q \in Route
            BY <2>2, Zenon DEF Route
        <3>2. SoundRoute(q)
            BY <2>2, <2>5, Zenon DEF SoundRoute, RouteDomain
        <3>3. route' = [route EXCEPT ![r] = NoRoute] \/ route' = [route EXCEPT ![r] = q]
            BY <2>5, ZenonT(30) DEF RouteDomain
        <3> HIDE DEF q
        <3> QED
            BY <2>1, <3>1, <3>2, <3>3, Zenon
    <2>6. CASE EndResolve(r)
        BY <2>1, <2>6, ZenonT(30) DEF EndResolve
    <2> QED
        BY <2>3, <2>4, <2>5, <2>6, SMTT(30) DEF ResolveForwarding
<1>3. TypeInv'
    BY <1>1, <1>2, Zenon DEF TypeInv
<1>4. \A s \in Lookups : route'[s] = IF s = r THEN q ELSE route[s]
    BY <1>2, Zenon DEF TypeInv
<1>5. \A s \in Lookups : SoundRoute(route[s])'
    BY <1>1, <1>2, <1>4, ZenonT(40) DEF SoundRoute, Exists
<1>6. \A a \in Addresses : SoundRow(a)'
    BY <1>1, SMTT(30) DEF SoundRow, Exists, Owns
<1>7. \A c \in Calls : SoundCall(call[c])'
    BY <1>1 DEF SoundCall, Exists, Owns
<1> QED
    BY <1>3, <1>5, <1>6, <1>7, Zenon

LEMMA SoundInvNext == SoundInv /\ [Next]_vars => SoundInv'
<1> SUFFICES ASSUME SoundInv, [Next]_vars PROVE SoundInv'
    BY Zenon
<1>1. CASE UNCHANGED vars
    <2>1. UNCHANGED <<registry, identity, forward, credentials, call, login, route>>
        BY <1>1, Zenon DEF vars, identityVars
    <2>2. TypeInv'
        BY <2>1, Zenon DEF SoundInv, TypeInv
    <2>3. \A a \in Addresses : SoundRow(a)'
        BY <2>1, ZenonT(40) DEF SoundInv, SoundRow, Exists, Owns
    <2>4. \A c \in Calls : SoundCall(call[c])'
        BY <2>1 DEF SoundInv, SoundCall, Exists, Owns
    <2>5. \A r \in Lookups : SoundRoute(route[r])'
        BY <2>1, Zenon DEF SoundInv, SoundRoute, Exists
    <2> QED
        BY <2>2, <2>3, <2>4, <2>5, Zenon DEF SoundInv
<1>2. CASE RegistryNext /\ UNCHANGED identityVars
    BY <1>2, RegistrySound, Zenon
<1>3. CASE \E c \in Calls : BeginCall(c) \/ EndCall(c) \/ AbandonCall(c)
    BY <1>3, BeginCallSound, FindExistingSound, CreateWritesSound, SavesSound,
       ReplaceForwardingSound, AbandonCallSound, Zenon DEF EndCall
<1>4. CASE \E l \in Logins : Login(l) \/ EndLogin(l)
    BY <1>4, LoginSound, Zenon
<1>5. CASE \E r \in Lookups : ResolveForwarding(r) \/ EndResolve(r)
    BY <1>5, ResolveSound, Zenon
<1> QED
    BY <1>1, <1>2, <1>3, <1>4, <1>5, Zenon DEF Next

LEMMA AlwaysSoundInv == Spec => []SoundInv
BY SoundInvInit, SoundInvNext, PTL DEF Spec

\* However many creates, rotates, deletes, edits and lookups overlap, every
\* stored identity belongs to the owner of its domain and has recipients other
\* than itself, and so does every route that is answered
\* (internal/smtpidentity/repository.go).
THEOREM IdentitiesSound == Spec => []IdentityIsSound
<1>1. SoundInv => IdentityIsSound
    BY ZenonT(30)
       DEF SoundInv, SoundRow, SoundRoute, Exists, Owns, ValidRecipients, IdentityIsSound
<1> QED
    BY <1>1, AlwaysSoundInv, PTL

-----------------------------------------------------------------------------
(* Credentials: one that is drawn is in one place at a time, and a stale   *)
(* save can bring back a row but none of the retired ones.                 *)

Draws(c) == call[c].step \in {"insert", "reactivate", "rotate"}
Deletes(c) == call[c].step = "delete"
Held(c) == call[c].row.username
Stored(a) == identity[a].username

\* Numbers are drawn in order.
BoundedCredentials ==
    /\ retired \subseteq 0..credentials
    /\ \A a \in Addresses : Stored(a) \in 0..credentials
    /\ \A a \in Addresses : Stored(a) = 0 <=> ~Exists(a)
    /\ \A c \in Calls : Draws(c) \/ Deletes(c) => Held(c) \in 1..credentials

\* No two addresses have one credential, nor have two calls of which one has
\* drawn it, nor a call that has drawn it and an address.  A delete holds the
\* credential of no other address and of no delete of another address.
DistinctCredentials ==
    /\ \A a, b \in Addresses : a # b /\ Exists(a) /\ Exists(b) => Stored(a) # Stored(b)
    /\ \A c \in Calls, a \in Addresses : Draws(c) => Held(c) # Stored(a)
    /\ \A c, e \in Calls : c # e /\ Draws(c) /\ (Draws(e) \/ Deletes(e)) => Held(c) # Held(e)
    /\ \A c \in Calls, a \in Addresses :
            Deletes(c) /\ Exists(a) /\ a # call[c].address => Held(c) # Stored(a)
    /\ \A c, e \in Calls :
            Deletes(c) /\ Deletes(e) /\ call[c].address # call[e].address => Held(c) # Held(e)

\* What is in force, or will be, is not retired.
InForce ==
    /\ \A a \in Addresses : identity[a].status = "active" => Stored(a) \notin retired
    /\ \A c \in Calls : Draws(c) => Held(c) \notin retired

LoginsKnown == \A l \in Logins : login[l].step # "idle" => login[l].address \in Addresses

CredentialInv == BoundedCredentials /\ DistinctCredentials /\ InForce /\ LoginsKnown

LEMMA CredentialInvInit == Init => CredentialInv
<1> SUFFICES ASSUME Init PROVE CredentialInv
    BY Zenon
<1> USE DEF Init, Draws, Deletes, Held, Stored, Exists
<1>1. NoIdentity.status = "none" /\ NoIdentity.username = 0
    BY Zenon DEF NoIdentity
<1>2. NoCall.step = "idle" /\ NoLogin.step = "idle"
    BY Zenon DEF NoCall, NoLogin
<1>3. BoundedCredentials
    BY <1>1, <1>2 DEF BoundedCredentials
<1>4. DistinctCredentials
    BY <1>1, <1>2, Zenon DEF DistinctCredentials
<1>5. InForce /\ LoginsKnown
    BY <1>1, <1>2, Zenon DEF InForce, LoginsKnown
<1> QED
    BY <1>3, <1>4, <1>5, Zenon DEF CredentialInv

\* A call that neither draws nor deletes, or that ends.
LEMMA CallHoldsNothing ==
    ASSUME SoundInv, CredentialInv, NEW c \in Calls, NEW q,
           q.step \notin {"insert", "reactivate", "rotate", "delete"},
           call' = [call EXCEPT ![c] = q],
           UNCHANGED <<identity, credentials, login, retired>>
    PROVE  CredentialInv'
<1>1. \A e \in Calls : call'[e] = IF e = c THEN q ELSE call[e]
    BY Zenon DEF SoundInv, TypeInv
<1>2. \A e \in Calls : Draws(e)' \/ Deletes(e)' => e # c /\ call'[e] = call[e]
    BY <1>1, Zenon DEF Draws, Deletes
<1>3. \A e \in Calls : (Draws(e)' => Draws(e)) /\ (Deletes(e)' => Deletes(e))
    BY <1>2, Zenon DEF Draws, Deletes
<1> USE DEF CredentialInv, Held, Stored, Exists
<1>4. BoundedCredentials'
    BY <1>2, <1>3, ZenonT(40) DEF BoundedCredentials
<1>5. DistinctCredentials'
    BY <1>2, <1>3 DEF DistinctCredentials
<1>6. InForce' /\ LoginsKnown'
    BY <1>2, <1>3 DEF InForce, LoginsKnown
<1> QED
    BY <1>4, <1>5, <1>6, Zenon

\* A call that draws the next number.
LEMMA CallDraws ==
    ASSUME SoundInv, CredentialInv, NEW c \in Calls,
           Draws(c)', Held(c)' = credentials', credentials' = credentials + 1,
           \A e \in Calls : e # c => call'[e] = call[e],
           UNCHANGED <<identity, login, retired>>
    PROVE  CredentialInv'
<1>1. \A e \in Calls : e # c =>
        (Draws(e)' <=> Draws(e)) /\ (Deletes(e)' <=> Deletes(e)) /\ call'[e] = call[e]
    BY Zenon DEF Draws, Deletes
<1>2. call'[c].row.username = credentials + 1 /\ ~Deletes(c)'
    BY Zenon DEF Deletes, Draws, Held
<1>3. credentials \in Nat
    BY MaxCredentialsAssumption DEF SoundInv, TypeInv
<1> USE DEF CredentialInv, Held, Stored, Exists
<1>4. BoundedCredentials'
    <2>1. 0..credentials \subseteq 0..credentials'
        BY <1>3
    <2>2. retired' \subseteq 0..credentials'
        BY <2>1, Zenon DEF BoundedCredentials
    <2>3. \A a \in Addresses :
              Stored(a)' \in 0..credentials' /\ (Stored(a)' = 0 <=> ~Exists(a)')
        BY <2>1, Zenon DEF BoundedCredentials
    <2>4. ASSUME NEW e \in Calls, (Draws(e) \/ Deletes(e))'
          PROVE  Held(e)' \in 1..credentials'
        <3>1. CASE e = c
            BY <1>2, <1>3, <3>1
        <3>2. CASE e # c
            BY <1>1, <1>3, <2>4, <3>2, SMTT(30) DEF BoundedCredentials
        <3> QED
            BY <3>1, <3>2, Zenon
    <2> QED
        BY <2>2, <2>3, <2>4, Zenon DEF BoundedCredentials
<1>5. DistinctCredentials'
    BY <1>1, <1>2, <1>3, SMTT(30) DEF DistinctCredentials, BoundedCredentials
<1>6. InForce' /\ LoginsKnown'
    BY <1>1, <1>2, <1>3 DEF InForce, LoginsKnown, BoundedCredentials
<1> QED
    BY <1>4, <1>5, <1>6, Zenon

\* A call that begins to delete what is stored.
LEMMA CallDeletes ==
    ASSUME SoundInv, CredentialInv, NEW c \in Calls, NEW q, NEW a \in Addresses, Exists(a),
           q.step = "delete", q.address = a, q.row.username = Stored(a),
           call' = [call EXCEPT ![c] = q],
           UNCHANGED <<identity, credentials, login, retired>>
    PROVE  CredentialInv'
<1>1. \A e \in Calls : call'[e] = IF e = c THEN q ELSE call[e]
    BY Zenon DEF SoundInv, TypeInv
<1>2. \A e \in Calls : e # c =>
        (Draws(e)' <=> Draws(e)) /\ (Deletes(e)' <=> Deletes(e)) /\ call'[e] = call[e]
    BY <1>1, Zenon DEF Draws, Deletes
<1>3. call'[c].row.username = identity[a].username /\ call'[c].address = a /\ ~Draws(c)'
    BY <1>1, Zenon DEF Draws, Stored
<1>4. credentials \in Nat
    BY MaxCredentialsAssumption, SMTT(30) DEF SoundInv, TypeInv
<1> USE DEF CredentialInv, Held, Stored, Exists
<1>5. BoundedCredentials'
    BY <1>2, <1>3, <1>4, SMTT(30) DEF BoundedCredentials
<1>6. DistinctCredentials'
    BY <1>2, <1>3, SMTT(30) DEF DistinctCredentials
<1>7. InForce' /\ LoginsKnown'
    BY <1>2, <1>3 DEF InForce, LoginsKnown
<1> QED
    BY <1>5, <1>6, <1>7, Zenon

\* A call that stores the credential it has drawn; the one it replaces, if
\* any, may be retired.
LEMMA CallStores ==
    ASSUME SoundInv, CredentialInv, NEW c \in Calls, Draws(c), Return(c),
           NEW a \in Addresses,
           identity' = [identity EXCEPT ![a] = call[c].row],
           retired' \subseteq retired \cup {Stored(a)},
           UNCHANGED <<credentials, login>>
    PROVE  CredentialInv'
<1>1. \A e \in Calls : call'[e] = IF e = c THEN NoCall ELSE call[e]
    BY Zenon DEF SoundInv, TypeInv, Return
<1>2. \A e \in Calls : Draws(e)' \/ Deletes(e)' => e # c /\ call'[e] = call[e]
    BY <1>1 DEF Draws, Deletes, NoCall
<1>3. \A e \in Calls : (Draws(e)' => Draws(e)) /\ (Deletes(e)' => Deletes(e))
    BY <1>2, Zenon DEF Draws, Deletes
<1>4. \A b \in Addresses : identity'[b] = IF b = a THEN call[c].row ELSE identity[b]
    BY Zenon DEF SoundInv, TypeInv
<1>5. call[c].row.status = "active"
    BY Zenon DEF SoundInv, SoundCall, Draws
<1>6. credentials \in Nat
    BY MaxCredentialsAssumption, SMTT(30) DEF SoundInv, TypeInv
<1> USE DEF CredentialInv, Held, Stored, Exists
<1>7. BoundedCredentials'
    BY <1>2, <1>3, <1>4, <1>5, <1>6, SMTT(30) DEF BoundedCredentials
<1>8. DistinctCredentials'
    <2>1. \A b \in Addresses : b # a => identity'[b].username # identity'[a].username
        BY <1>4, SMTT(30) DEF DistinctCredentials
    <2>2. \A e \in Calls : Draws(e)' \/ Deletes(e)' => Held(e)' # identity'[a].username
        BY <1>2, <1>3, <1>4, SMTT(30) DEF DistinctCredentials
    <2> QED
        BY <1>2, <1>3, <1>4, <2>1, <2>2, SMTT(30) DEF DistinctCredentials
<1>9. InForce'
    <2>1. \A b \in Addresses : b # a /\ identity[b].status = "active" => Stored(b) # Stored(a)
        BY Zenon DEF DistinctCredentials, BoundedCredentials
    <2>2. \A e \in Calls : Draws(e) => Held(e) \notin retired'
        BY Zenon DEF DistinctCredentials, InForce
    <2> QED
        BY <1>2, <1>3, <1>4, <2>1, <2>2 DEF InForce
<1>10. LoginsKnown'
    BY Zenon DEF LoginsKnown
<1> QED
    BY <1>7, <1>8, <1>9, <1>10, Zenon

LEMMA SaveDeletedCredentials ==
    ASSUME SoundInv, CredentialInv, NEW c \in Calls, SaveDeleted(c)
    PROVE  CredentialInv'
<1>1. Deletes(c) /\ call[c].address \in Addresses
    BY Zenon DEF SaveDeleted, Deletes, SoundInv, SoundCall
<1>2. PICK a \in Addresses : a = call[c].address
    BY <1>1, Zenon
<1>3. Exists(a) /\ call[c].row.status = "deleted"
    BY <1>1, <1>2, Zenon DEF Deletes, SoundInv, SoundCall
<1>4. \A e \in Calls : call'[e] = IF e = c THEN NoCall ELSE call[e]
    BY Zenon DEF SoundInv, TypeInv, SaveDeleted, Return
<1>5. \A e \in Calls : Draws(e)' \/ Deletes(e)' => e # c /\ call'[e] = call[e]
    BY <1>4 DEF Draws, Deletes, NoCall
<1>6. \A e \in Calls : (Draws(e)' => Draws(e)) /\ (Deletes(e)' => Deletes(e))
    BY <1>5, Zenon DEF Draws, Deletes
<1>7. \A b \in Addresses : identity'[b] = IF b = a THEN call[c].row ELSE identity[b]
    BY <1>2, Zenon DEF SoundInv, TypeInv, SaveDeleted
<1>8. /\ retired' = retired \cup {Stored(a), Held(c)}
      /\ UNCHANGED <<credentials, login>>
    BY <1>2, Zenon DEF SaveDeleted, Stored, Held
<1>9. credentials \in Nat
    BY MaxCredentialsAssumption DEF SoundInv, TypeInv
<1> USE DEF CredentialInv, Held, Stored, Exists
<1>10. BoundedCredentials'
    <2>1. Held(c) \in 1..credentials /\ Stored(a) \in 0..credentials
        BY <1>1, Zenon DEF BoundedCredentials, Draws, Deletes
    <2>2. retired' \subseteq 0..credentials'
        <3>1. retired \subseteq 0..credentials /\ credentials' = credentials
            BY <1>8, Zenon DEF BoundedCredentials
        <3>2. Held(c) \in 0..credentials
            BY <1>9, <2>1, SMTT(30)
        <3> QED
            BY <1>8, <2>1, <3>1, <3>2, ZenonT(30)
    <2>3. \A b \in Addresses : Stored(b)' \in 0..credentials'
        BY <1>3, <1>7, <1>8, <1>9, <2>1, SMTT(30) DEF BoundedCredentials
    <2>4. \A b \in Addresses : Stored(b)' = 0 <=> ~Exists(b)'
        BY <1>3, <1>7, <1>8, <1>9, <2>1 DEF BoundedCredentials
    <2>5. \A e \in Calls : Draws(e)' \/ Deletes(e)' => Held(e)' \in 1..credentials'
        BY <1>5, <1>6, <1>8, ZenonT(40) DEF BoundedCredentials, Draws, Deletes
    <2> QED
        BY <2>2, <2>3, <2>4, <2>5, Zenon DEF BoundedCredentials, Draws, Deletes
<1>11. DistinctCredentials'
    <2>1. \A b \in Addresses : b # a /\ Exists(b) => Stored(b) # Held(c)
        BY <1>1, <1>2, Zenon DEF DistinctCredentials
    <2>2. \A e \in Calls : Draws(e) => Held(e) # Held(c)
        BY <1>1, Zenon DEF DistinctCredentials, Draws, Deletes
    <2>3. \A e \in Calls : Deletes(e) /\ call[e].address # a => Held(e) # Held(c)
        BY <1>1, <1>2, Zenon DEF DistinctCredentials
    <2> QED
        BY <1>3, <1>5, <1>6, <1>7, <2>1, <2>2, <2>3 DEF DistinctCredentials
<1>12. InForce'
    <2>1. \A b \in Addresses : b # a /\ identity[b].status = "active" =>
            Stored(b) # Stored(a) /\ Stored(b) # Held(c)
        BY <1>1, <1>2, <1>3, Zenon DEF DistinctCredentials
    <2>2. \A e \in Calls : Draws(e) => Held(e) # Stored(a) /\ Held(e) # Held(c)
        BY <1>1, Zenon DEF DistinctCredentials, Draws, Deletes
    <2>3. \A b \in Addresses : identity'[b].status = "active" => Stored(b)' \notin retired'
        BY <1>3, <1>7, <1>8, <2>1, Zenon DEF InForce
    <2>4. \A e \in Calls : Draws(e)' => Held(e)' \notin retired'
        BY <1>5, <1>6, <1>8, <2>2, Zenon DEF InForce
    <2> QED
        BY <2>3, <2>4, Zenon DEF InForce
<1>13. LoginsKnown'
    BY <1>8, Zenon DEF LoginsKnown
<1> QED
    BY <1>10, <1>11, <1>12, <1>13, Zenon

LEMMA BeginCallCredentials ==
    ASSUME SoundInv, CredentialInv, NEW c \in Calls, BeginCall(c)
    PROVE  CredentialInv'
<1>1. PICK user \in Users, a \in Addresses :
        \/ \E forwardTo \in SUBSET Recipients :
                BeginCreate(c, user, a, forwardTo) \/ BeginUpdateForwarding(c, user, a, forwardTo)
        \/ BeginRotate(c, user, a)
        \/ BeginDelete(c, user, a)
    BY Zenon DEF BeginCall
<1>2. CASE \E forwardTo \in SUBSET Recipients :
                BeginCreate(c, user, a, forwardTo) \/ BeginUpdateForwarding(c, user, a, forwardTo)
    <2>1. PICK q : /\ q.step \in {"find", "forward"} /\ call' = [call EXCEPT ![c] = q]
                   /\ UNCHANGED <<identity, credentials, login, retired>>
        BY <1>2, ZenonT(30) DEF BeginCreate, BeginUpdateForwarding
    <2> QED
        BY <2>1, CallHoldsNothing, ZenonT(30)
<1>3. CASE BeginRotate(c, user, a)
    <2> DEFINE q == [step |-> "rotate", user |-> user, address |-> a,
                     row |-> ActiveIdentity(identity[a].owner, credentials + 1),
                     forwardTo |-> {}]
    <2>1. /\ call' = [call EXCEPT ![c] = q] /\ credentials' = credentials + 1
          /\ UNCHANGED <<identity, login, retired>>
        BY <1>3, Zenon DEF BeginRotate
    <2>2. call'[c] = q /\ \A e \in Calls : e # c => call'[e] = call[e]
        BY <2>1, Zenon DEF SoundInv, TypeInv
    <2>3. Draws(c)' /\ Held(c)' = credentials'
        BY <2>1, <2>2 DEF ActiveIdentity, Draws, Held
    <2> HIDE DEF q
    <2> QED
        BY <2>1, <2>2, <2>3, CallDraws, Zenon
<1>4. CASE BeginDelete(c, user, a)
    <2> DEFINE q == [step |-> "delete", user |-> user, address |-> a,
                     row |-> DeletedIdentity(identity[a]), forwardTo |-> {}]
    <2>1. q.step = "delete" /\ q.address = a /\ q.row.username = Stored(a)
        BY Zenon DEF DeletedIdentity, Stored
    <2>2. Exists(a)
        BY <1>4, Zenon DEF BeginDelete, VisibleIdentity, Exists
    <2>3. /\ call' = [call EXCEPT ![c] = q]
          /\ UNCHANGED <<identity, credentials, login, retired>>
        BY <1>4, Zenon DEF BeginDelete
    <2> HIDE DEF q
    <2> QED
        BY <2>1, <2>2, <2>3, CallDeletes, ZenonT(30)
<1> QED
    BY <1>1, <1>2, <1>3, <1>4, Zenon

LEMMA EndCallCredentials ==
    ASSUME SoundInv, CredentialInv, NEW c \in Calls, EndCall(c) \/ AbandonCall(c)
    PROVE  CredentialInv'
<1>1. NoCall.step = "idle"
    BY Zenon DEF NoCall
<1>2. ASSUME Return(c), UNCHANGED <<identity, credentials, login, retired>>
      PROVE  CredentialInv'
    BY <1>1, <1>2, CallHoldsNothing, ZenonT(30) DEF Return
<1>3. CASE FindExisting(c)
    <2>1. CASE identity[call[c].address].status = "active"
        BY <1>2, <1>3, <2>1, Zenon DEF FindExisting
    <2>2. CASE identity[call[c].address].status # "active"
        <3> DEFINE q == [step |-> IF identity[call[c].address].status = "deleted"
                                  THEN "reactivate" ELSE "insert",
                         user |-> call[c].user, address |-> call[c].address,
                         row |-> ActiveIdentity(call[c].user, credentials + 1),
                         forwardTo |-> call[c].forwardTo]
        <3>1. /\ call' = [call EXCEPT ![c] = q] /\ credentials' = credentials + 1
              /\ UNCHANGED <<identity, login, retired>>
            BY <1>3, <2>2, Zenon DEF FindExisting
        <3>2. call'[c] = q /\ \A e \in Calls : e # c => call'[e] = call[e]
            BY <3>1, Zenon DEF SoundInv, TypeInv
        <3>3. Draws(c)' /\ Held(c)' = credentials'
            BY <3>1, <3>2 DEF ActiveIdentity, Draws, Held
        <3> HIDE DEF q
        <3> QED
            BY <3>1, <3>2, <3>3, CallDraws, Zenon
    <2> QED
        BY <2>1, <2>2, Zenon
<1>4. CASE Reactivate(c) \/ InsertIdentity(c) \/ SaveRotated(c)
    <2>1. Draws(c) /\ call[c].address \in Addresses
        BY <1>4, Zenon DEF Reactivate, InsertIdentity, SaveRotated, Draws, SoundInv, SoundCall
    <2>2. PICK a \in Addresses : a = call[c].address
        BY <2>1, Zenon
    <2>3. \/ /\ identity' = [identity EXCEPT ![a] = call[c].row]
             /\ retired' \subseteq retired \cup {Stored(a)}
          \/ UNCHANGED <<identity, retired>>
        BY <1>4, <2>2, Zenon DEF Reactivate, InsertIdentity, SaveRotated, Stored
    <2>4. Return(c) /\ UNCHANGED <<credentials, login>>
        BY <1>4, Zenon DEF Reactivate, InsertIdentity, SaveRotated
    <2> QED
        BY <1>2, <2>1, <2>3, <2>4, CallStores, SMTT(30)
<1>5. CASE SaveDeleted(c)
    BY <1>5, SaveDeletedCredentials, Zenon
<1>6. CASE ReplaceForwarding(c) \/ AbandonCall(c)
    BY <1>2, <1>6, SMTT(30) DEF ReplaceForwarding, AbandonCall
<1> QED
    BY <1>3, <1>4, <1>5, <1>6, Zenon DEF EndCall

\* Steps that leave calls and identities alone.
LEMMA OthersCredentials ==
    ASSUME SoundInv, CredentialInv, UNCHANGED <<identity, credentials, call, retired>>,
           LoginsKnown'
    PROVE  CredentialInv'
BY DEF CredentialInv, BoundedCredentials, DistinctCredentials, InForce, Draws, Deletes, Held,
       Stored, Exists

LEMMA LoginCredentials ==
    ASSUME SoundInv, CredentialInv, NEW l \in Logins, Login(l) \/ EndLogin(l)
    PROVE  CredentialInv'
<1>1. UNCHANGED <<identity, credentials, call, retired>>
    BY Zenon DEF Login, EndLogin, BeginLogin, LoginDomain, MarkUsed
<1>2. login \in [Logins -> LoginState] /\ NoLogin.step = "idle"
    BY Zenon DEF SoundInv, TypeInv, NoLogin
<1>3. LoginsKnown'
    <2>1. CASE \E username \in Credentials : BeginLogin(l, username)
        BY <1>2, <2>1, SMTT(30) DEF BeginLogin, LoginsKnown, CredentialInv
    <2>2. CASE LoginDomain(l) \/ MarkUsed(l) \/ EndLogin(l)
        BY <1>2, <2>2 DEF LoginDomain, MarkUsed, EndLogin, LoginsKnown, CredentialInv
    <2> QED
        BY <2>1, <2>2, ZenonT(40) DEF Login
<1> QED
    BY <1>1, <1>3, OthersCredentials, Zenon

LEMMA CredentialInvNext == SoundInv /\ CredentialInv /\ [Next]_vars => CredentialInv'
<1> SUFFICES ASSUME SoundInv, CredentialInv, [Next]_vars PROVE CredentialInv'
    BY Zenon
<1>1. CASE UNCHANGED <<identity, credentials, call, retired, login>>
    BY <1>1, OthersCredentials, Zenon DEF CredentialInv, LoginsKnown
<1>2. CASE \E c \in Calls : BeginCall(c) \/ EndCall(c) \/ AbandonCall(c)
    BY <1>2, BeginCallCredentials, EndCallCredentials, Zenon
<1>3. CASE \E l \in Logins : Login(l) \/ EndLogin(l)
    BY <1>3, LoginCredentials, Zenon
<1>4. CASE \E r \in Lookups : ResolveForwarding(r) \/ EndResolve(r)
    BY <1>1, <1>4, Zenon
       DEF ResolveForwarding, EndResolve, BeginResolve, ReadRecipients, RouteDomain
<1> QED
    BY <1>1, <1>2, <1>3, <1>4, Zenon DEF Next, vars, identityVars

\* Only the conditional update accepts a login.
LEMMA AcceptedIsCurrent ==
    ASSUME SoundInv, CredentialInv, Next, NEW l \in Logins, Accepts(l)
    PROVE  login[l].row.username \notin retired
<1>1. PICK k \in Logins : Login(k) \/ EndLogin(k)
    <2>1. login' # login
        BY ZenonT(40) DEF Accepts
    <2>2. ASSUME NEW c \in Calls PROVE ~(BeginCall(c) \/ EndCall(c) \/ AbandonCall(c))
        BY <2>1 DEF BeginCall, EndCall, AbandonCall, BeginCreate, BeginUpdateForwarding,
                    BeginRotate, BeginDelete, FindExisting, Reactivate, InsertIdentity,
                    SaveRotated, SaveDeleted, ReplaceForwarding
    <2>3. ASSUME NEW r \in Lookups PROVE ~(ResolveForwarding(r) \/ EndResolve(r))
        BY <2>1, Zenon
           DEF ResolveForwarding, EndResolve, BeginResolve, ReadRecipients, RouteDomain
    <2> QED
        BY <2>1, <2>2, <2>3, Zenon DEF Next, identityVars
<1>2. login \in [Logins -> LoginState] /\ NoLogin.step = "idle"
    BY Zenon DEF SoundInv, TypeInv, NoLogin
<1>3. MarkUsed(l) /\ StillCurrent(l)
    BY <1>1, <1>2 DEF Accepts, Login, EndLogin, BeginLogin, LoginDomain, MarkUsed
<1>4. login[l].address \in Addresses
    BY <1>3, Zenon DEF CredentialInv, LoginsKnown, MarkUsed
<1> QED
    BY <1>3, <1>4, Zenon DEF StillCurrent, CredentialInv, InForce, Stored

\* A credential that was replaced or disabled never logs in again, however
\* many stale saves, rotates, deletes and logins overlap (Authenticate,
\* markAuthenticatedIdentityUsed).
THEOREM RetiredStaysOut == Spec => RetiredNeverAuthenticates
<1>1. SoundInv /\ CredentialInv /\ [Next]_vars =>
        [\A l \in Logins : Accepts(l) => login[l].row.username \notin retired]_vars
    BY AcceptedIsCurrent, Zenon
<1>2. Spec => []CredentialInv
    BY AlwaysSoundInv, CredentialInvInit, CredentialInvNext, PTL DEF Spec
<1> QED
    BY <1>1, <1>2, AlwaysSoundInv, PTL DEF Spec, RetiredNeverAuthenticates
===========================================================================
