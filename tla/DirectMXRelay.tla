--------------------------- MODULE DirectMXRelay ---------------------------
(***************************************************************************)
(* The relay that delivers a submitted message to the mail servers of its  *)
(* recipients' domain (internal/smtpsubmission/direct_relay.go).           *)
(*                                                                         *)
(* Hosts are numbers, in the order in which their names sort: the empty    *)
(* name, the dot of a null MX, then real hosts.  The domain itself is the  *)
(* host of last resort.                                                    *)
(***************************************************************************)
EXTENDS Naturals, Sequences

CONSTANTS
    MailHosts,  \* names of real mail servers
    DomainHost, \* the recipients' domain, used as a host
    Preferences

Blank == 0
NullMX == 1

ASSUME MailHostsAssumption == MailHosts \cup {DomainHost} \subseteq Nat \ {Blank, NullMX}
ASSUME PreferencesAssumption == Preferences \subseteq Nat

VARIABLES
    records, \* what the last lookup found
    targets, \* the hosts relayDomain has still to try
    tried    \* the hosts it has tried, history

relayVars == <<records, targets, tried>>

MXRecord == [pref : Preferences, host : MailHosts \cup {Blank, NullMX}]

Idle == records = <<>> /\ targets = <<>> /\ tried = <<>>
Forget == records' = <<>> /\ targets' = <<>> /\ tried' = <<>>

\* A faulty form of the order below: by name only.
BeforeByName(a, b) == a.host < b.host

Before(a, b) == IF a.pref = b.pref THEN a.host < b.host ELSE a.pref < b.pref

\* Which of two records a stable sort puts first.
Sooner(found, i, j) ==
    ~Before(found[j], found[i]) /\ (Before(found[i], found[j]) \/ i < j)

\* The records that name a host, by number, in order.
Sorted(found) ==
    LET named == {i \in DOMAIN found : found[i].host # Blank}
    IN  CHOOSE order \in UNION {[1..n -> named] : n \in 0..Len(found)} :
            /\ \A k, l \in DOMAIN order : k < l => Sooner(found, order[k], order[l])
            /\ \A i \in named : \E k \in DOMAIN order : order[k] = i

\* The hosts to try, in order.  A domain without records is its own host.
HostsOf(found) ==
    IF found = <<>> THEN <<DomainHost>>
    ELSE [k \in DOMAIN Sorted(found) |-> found[Sorted(found)[k]].host]

RefusesMail(found) == \E i \in DOMAIN found : found[i].host = NullMX

\* The lookup succeeds, or finds no such name (no records).
lookupTargets(found) ==
    /\ ~RefusesMail(found)
    /\ HostsOf(found) # <<>>
    /\ records' = found
    /\ targets' = HostsOf(found)
    /\ tried' = <<>>

\* relayDomain goes on with the host after this one.
NextTarget ==
    /\ targets # <<>>
    /\ targets' = Tail(targets)
    /\ tried' = Append(tried, Head(targets))
    /\ UNCHANGED records
=============================================================================
