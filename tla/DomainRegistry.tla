--------------------------- MODULE DomainRegistry ---------------------------
(***************************************************************************)
(* What the rest of the system may rely on about sender domains: a domain  *)
(* is registered once, for one owner, and from then on is verified or not  *)
(* as its DNS records are found.  SenderDomain implements this.            *)
(***************************************************************************)
EXTENDS SenderScope

VARIABLE registry

Unregistered == [owner |-> None, status |-> "none"]

Entry == [owner : Users, status : {"pending", "verified"}] \cup {Unregistered}

InitRegistry == registry = [d \in Domains |-> Unregistered]

Register(d, user) ==
    /\ registry[d].status = "none"
    /\ registry' = [registry EXCEPT ![d] = [owner |-> user, status |-> "pending"]]

StoreStatus(d, status) ==
    /\ registry[d].status # "none"
    /\ registry' = [registry EXCEPT ![d] = [owner |-> registry[d].owner, status |-> status]]

RegistryNext ==
    \E d \in Domains :
        \/ \E user \in Users : Register(d, user)
        \/ \E status \in {"pending", "verified"} : StoreStatus(d, status)

RegistrySpec == InitRegistry /\ [][RegistryNext]_registry

\* requireSenderDomainForScope: admin or not, the domain has to be the
\* owner's own and verified.
SenderDomainAllowed(owner, d) ==
    registry[d].owner = owner /\ registry[d].status = "verified"
=============================================================================
