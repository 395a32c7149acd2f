---------------------------- MODULE SenderDomain ----------------------------
(***************************************************************************)
(* Sender domains and their DNS verification                               *)
(* (internal/smtpidentity/domain_repository.go, service.go and             *)
(* dns_verification.go).                                                   *)
(*                                                                         *)
(* A check reads the record, looks three TXT records up one after the      *)
(* other, reads the record again and saves it whole: checks of the same    *)
(* domain, and changes of the zone, interleave with each of these steps.   *)
(* Every row of the table has an owner and a token, because the program    *)
(* inserts no other: ensureSenderDomainToken finds nothing to do.          *)
(***************************************************************************)
EXTENDS SenderScope, Naturals, Sequences, FiniteSets

CONSTANTS
    Requests,      \* concurrent HTTP requests on sender domains
    MaxTokens      \* bound on verification tokens drawn

ASSUME MaxTokensAssumption == MaxTokens \in Nat

VARIABLES
    domain,      \* the sender_domains table
    dns,         \* the TXT records that are published
    tokens,      \* tokens drawn so far
    request,     \* the request in progress: what it has read and concluded
    \* history
    published    \* every TXT record that was ever published

domainVars == <<domain, dns, tokens, request, published>>

-----------------------------------------------------------------------------
Tokens == 1..MaxTokens

Ownership(token) == <<"ownership", token>>
SPF == <<"spf", 0>>
DMARC == <<"dmarc", 0>>
Records == {Ownership(token) : token \in Tokens} \cup {SPF, DMARC}

NoDomain == [owner |-> None, status |-> "none", token |-> 0]

NoRequest == [step |-> "idle", domain |-> None, row |-> NoDomain, passed |-> TRUE]

Registered(d) == domain[d].status # "none"

\* RequireSenderDomainForScope: owners see their own domains, admins all.
VisibleDomain(user, d) ==
    Registered(d) /\ (user \in Admins \/ domain[d].owner = user)

InitDomains ==
    /\ domain = [d \in Domains |-> NoDomain]
    /\ dns = [d \in Domains |-> {}]
    /\ tokens = 0
    /\ request = [r \in Requests |-> NoRequest]
    /\ published = [d \in Domains |-> {}]

EndRequest(r) == request' = [request EXCEPT ![r] = NoRequest]

-----------------------------------------------------------------------------
(* CreateSenderDomainForScope *)

\* The domain is not registered yet; a registered one is returned, or refused,
\* as it is.
BeginRegister(r, user, d) ==
    /\ request[r].step = "idle"
    /\ ~Registered(d)
    /\ tokens < MaxTokens
    /\ tokens' = tokens + 1
    /\ request' = [request EXCEPT ![r] =
            [step |-> "insert", domain |-> d, passed |-> TRUE,
             row |-> [owner |-> user, status |-> "pending", token |-> tokens + 1]]]
    /\ UNCHANGED <<domain, dns, published>>

\* A faulty form of the insert below: an upsert in place of the unique index.
InsertOverwrites(r) ==
    /\ request[r].step = "insert"
    /\ domain' = [domain EXCEPT ![request[r].domain] = request[r].row]
    /\ EndRequest(r)
    /\ UNCHANGED <<dns, tokens, published>>

\* The unique index on the name lets one of several inserts through.
Insert(r) ==
    LET d == request[r].domain
    IN  /\ request[r].step = "insert"
        /\ domain' = IF Registered(d) THEN domain
                     ELSE [domain EXCEPT ![d] = request[r].row]
        /\ EndRequest(r)
        /\ UNCHANGED <<dns, tokens, published>>

-----------------------------------------------------------------------------
(* CheckSenderDomainDNS *)

BeginCheck(r, user, d) ==
    /\ request[r].step = "idle"
    /\ VisibleDomain(user, d)
    /\ request' = [request EXCEPT ![r] =
            [step |-> "ownership", domain |-> d, row |-> domain[d], passed |-> TRUE]]
    /\ UNCHANGED <<domain, dns, tokens, published>>

Expected(r) ==
    CASE request[r].step = "ownership" -> Ownership(request[r].row.token)
      [] request[r].step = "spf" -> SPF
      [] request[r].step = "dmarc" -> DMARC

NextStep(step) ==
    CASE step = "ownership" -> "spf"
      [] step = "spf" -> "dmarc"
      [] step = "dmarc" -> "reread"

\* A faulty form of the verdict below: an unanswered lookup counts as passed.
PassedUnlessRefuted(sofar, answered, matches) == sofar /\ (answered => matches)

\* A lookup that fails counts against the domain, and one failure decides.
AllPassed(sofar, answered, matches) == sofar /\ answered /\ matches

Outcome(passed) == IF passed THEN "verified" ELSE "pending"

\* One TXT lookup; all three are made whatever the first ones say.
LookupTXT(r, answered) ==
    LET d == request[r].domain
        verdict == AllPassed(request[r].passed, answered, Expected(r) \in dns[d])
    IN  /\ request[r].step \in {"ownership", "spf", "dmarc"}
        /\ request' = [request EXCEPT ![r].step = NextStep(@), ![r].passed = verdict]
        /\ UNCHANGED <<domain, dns, tokens, published>>

\* UpdateSenderDomainStatusForScope reads the record again ...
Reread(r) ==
    /\ request[r].step = "reread"
    /\ request' = [request EXCEPT ![r].step = "save",
                                  ![r].row = domain[request[r].domain]]
    /\ UNCHANGED <<domain, dns, tokens, published>>

\* ... and saves it whole with the new status.
SaveOutcome(r) ==
    LET d == request[r].domain
        outcome == Outcome(request[r].passed)
    IN  /\ request[r].step = "save"
        /\ domain' = [domain EXCEPT ![d] = [request[r].row EXCEPT !.status = outcome]]
        /\ EndRequest(r)
        /\ UNCHANGED <<dns, tokens, published>>

\* A database error, a client that has gone or a crash ends a request.
AbandonRequest(r) ==
    /\ request[r].step # "idle"
    /\ EndRequest(r)
    /\ UNCHANGED <<domain, dns, tokens, published>>

-----------------------------------------------------------------------------
(* The zones, which belong to the owners of the domains *)

Publish(d, rec) ==
    /\ rec \notin dns[d]
    /\ dns' = [dns EXCEPT ![d] = @ \cup {rec}]
    /\ published' = [published EXCEPT ![d] = @ \cup {rec}]
    /\ UNCHANGED <<domain, tokens, request>>

Withdraw(d, rec) ==
    /\ rec \in dns[d]
    /\ dns' = [dns EXCEPT ![d] = @ \ {rec}]
    /\ UNCHANGED <<domain, tokens, request, published>>

HandleRequest(r) ==
    \/ Insert(r)
    \/ \E answered \in BOOLEAN : LookupTXT(r, answered)
    \/ Reread(r)
    \/ SaveOutcome(r)

DomainNext ==
    \/ \E r \in Requests, user \in Users, d \in Domains :
            BeginRegister(r, user, d) \/ BeginCheck(r, user, d)
    \/ \E r \in Requests : HandleRequest(r) \/ AbandonRequest(r)
    \/ \E d \in Domains, rec \in Records : Publish(d, rec) \/ Withdraw(d, rec)

DomainSpec == InitDomains /\ [][DomainNext]_domainVars

-----------------------------------------------------------------------------
(* Properties *)

\* A domain is verified only if its owner published all that the page asks
\* for: the token stored with the domain now, SPF and DMARC.  Concurrent
\* registrations and checks cannot make a check pass on another token.
VerifiedWasPublished ==
    \A d \in Domains : domain[d].status = "verified" =>
        {Ownership(domain[d].token), SPF, DMARC} \subseteq published[d]

\* Seen from outside, racing requests are single steps of the registry: one
\* registration per domain, then stored outcomes.
Registry == INSTANCE DomainRegistry WITH registry <-
    [d \in Domains |-> [owner |-> domain[d].owner, status |-> domain[d].status]]

ImplementsRegistry == Registry!RegistrySpec
=============================================================================
