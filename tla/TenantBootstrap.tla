--------------------------- MODULE TenantBootstrap ---------------------------
(***************************************************************************)
(* The tenant tables and the bootstrap that fills them                     *)
(* (internal/tenant/bootstrap.go).  A configuration is a sequence of       *)
(* tenants; one transaction empties the tables that hang on tenants,       *)
(* removes the tenants that are no longer named and stores the others.     *)
(***************************************************************************)
EXTENDS Naturals, Sequences, FiniteSets

CONSTANTS
    Tenants,
    Hosts,   \* normalized domain names
    Emails,  \* normalized addresses
    None

\* tenants[].domains is a sequence of normalized hosts, the first one is the
\* default; email and sms stand for the settings of the delivery profiles.
TenantSpec ==
    [id : Tenants, enabled : BOOLEAN, domains : Seq(Hosts), admins : SUBSET Emails,
     email : Nat, sms : Nat \cup {None}]

EmptyTables ==
    [status  |-> [t \in Tenants |-> "absent"],
     domains |-> {},   \* [host, tenant, isDefault], host unique
     admins  |-> {},   \* <<tenant, email>>, unique
     emails  |-> {},   \* <<tenant, settings>>
     sms     |-> {}]

-----------------------------------------------------------------------------
(* Validation *)

\* No host is named twice, in one tenant or in two.
DomainsDistinct(cfg) ==
    \A k, l \in DOMAIN cfg :
        \A i \in DOMAIN cfg[k].domains, j \in DOMAIN cfg[l].domains :
            cfg[k].domains[i] = cfg[l].domains[j] => k = l /\ i = j

validateBootstrapDomains(cfg) ==
    /\ DomainsDistinct(cfg)
    /\ \A k \in DOMAIN cfg : cfg[k].domains # <<>>

Valid(cfg) ==
    /\ cfg # <<>>
    /\ \E k \in DOMAIN cfg : cfg[k].enabled
    /\ validateBootstrapDomains(cfg)

-----------------------------------------------------------------------------
(* The transaction: accumulates the tables, or fails and is rolled back. *)

ConfiguredIDs(cfg) == {cfg[k].id : k \in DOMAIN cfg}

\* A faulty form of the step below: tenants that are no longer named stay.
removeStaleTenantsNever(tables, cfg) == tables.status

removeStaleTenants(tables, cfg) ==
    [t \in Tenants |-> IF t \in ConfiguredIDs(cfg) THEN tables.status[t] ELSE "absent"]

resetTables(tables, cfg) ==
    [EmptyTables EXCEPT !.status = removeStaleTenants(tables, cfg)]

DomainRows(spec) ==
    {[host |-> spec.domains[k], tenant |-> spec.id, isDefault |-> k = 1] :
        k \in DOMAIN spec.domains}

AdminRows(spec) == {<<spec.id, e>> : e \in spec.admins}

\* A host that is stored already must be stored with the same owner and mark.
DomainConflict(rows) == \E d, e \in rows : d.host = e.host /\ d # e

\* A second entry of the same tenant overwrites the first; an administrator
\* named in both violates the unique index.
upsertTenant(tx, spec) ==
    IF \/ ~tx.ok
       \/ DomainConflict(tx.tables.domains \cup DomainRows(spec))
       \/ AdminRows(spec) \cap tx.tables.admins # {}
    THEN [tx EXCEPT !.ok = FALSE]
    ELSE [ok     |-> TRUE,
          tables |->
            [status  |-> [tx.tables.status EXCEPT ![spec.id] =
                            IF spec.enabled THEN "active" ELSE "suspended"],
             domains |-> tx.tables.domains \cup DomainRows(spec),
             admins  |-> tx.tables.admins \cup AdminRows(spec),
             emails  |-> tx.tables.emails \cup {<<spec.id, spec.email>>},
             sms     |-> IF spec.sms = None THEN tx.tables.sms
                         ELSE tx.tables.sms \cup {<<spec.id, spec.sms>>}]]

\* The transaction once the first tenants of the configuration are stored.
Transaction(tables, cfg) ==
    LET tx[k \in 0..Len(cfg)] ==
            IF k = 0 THEN [ok |-> TRUE, tables |-> resetTables(tables, cfg)]
            ELSE upsertTenant(tx[k - 1], cfg[k])
    IN tx

Bootstrap(tables, cfg) ==
    LET tx == Transaction(tables, cfg)[Len(cfg)]
    IN [ok     |-> Valid(cfg) /\ tx.ok,
        tables |-> IF Valid(cfg) /\ tx.ok THEN tx.tables ELSE tables]

-----------------------------------------------------------------------------
(* Queries of the repository (internal/tenant/repository.go) *)

ListActiveTenants(tables) == {t \in Tenants : tables.status[t] = "active"}

ListActiveTenantsByDomain(tables, host) ==
    {t \in ListActiveTenants(tables) :
        \E d \in tables.domains : d.tenant = t /\ d.host = host}

\* A faulty form of the query below: administrators of suspended tenants count.
IsTenantAdmin(tables, email) == \E t \in Tenants : <<t, email>> \in tables.admins

IsActiveTenantAdmin(tables, email) ==
    \E t \in ListActiveTenants(tables) : <<t, email>> \in tables.admins
=============================================================================
