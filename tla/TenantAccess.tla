---------------------------- MODULE TenantAccess ----------------------------
(***************************************************************************)
(* Who is served for which tenant: the tenant repository with its caches   *)
(* (internal/tenant/repository.go), the HTTP handlers that authorise a     *)
(* session (internal/httpapi/server.go) and the gRPC tenant interceptor    *)
(* (cmd/server/main.go).                                                   *)
(*                                                                         *)
(* A call is a chain of separate database queries and cache accesses.      *)
(* runServer bootstraps the tables and then builds the repository; the     *)
(* package also lets a running repository be bootstrapped again, and       *)
(* clears its caches once the transaction is committed.  Calls that run    *)
(* across such a bootstrap are kept apart by the history variable.  The    *)
(* life of the process around these steps is in ServerProcess.             *)
(***************************************************************************)
EXTENDS TenantBootstrap

CONSTANTS
    Configs,       \* configurations a running process may be bootstrapped with
    Users,         \* holders of sessions, by their normalized address
    AdminRole,     \* users whose session carries the admin role
    EmailDomain,   \* the domain of each user's address, None without one
    Calls,
    MaxBootstraps  \* bound on the bootstraps of a running process

ASSUME AccessAssumption ==
    /\ Users \subseteq Emails
    /\ AdminRole \subseteq Users
    /\ EmailDomain \in [Users -> Hosts \cup {None}]
    /\ Configs \subseteq Seq(TenantSpec)
    /\ MaxBootstraps \in Nat
    /\ None \notin Hosts \cup Tenants \cup Users

VARIABLES
    up,                \* the process serves
    tables,            \* the database
    committed,         \* a bootstrap has committed and not yet cleared caches
    runtimeCache,
    domainTenantCache,
    call,              \* what each call is for, where it is, what it holds
    bootstraps,
    \* history
    config,            \* the last configuration that was stored
    overlapped         \* a call has run across the last bootstrap

cacheVars == <<runtimeCache, domainTenantCache>>
vars == <<up, tables, committed, cacheVars, call, bootstraps, config, overlapped>>

EmptyConfig == [status |-> "absent", email |-> None, sms |-> None]

Idle == [kind |-> "idle", at |-> "idle", user |-> None, tenant |-> None, host |-> None,
         admin |-> FALSE, cfg |-> EmptyConfig]

NoCaches ==
    /\ runtimeCache' = [t \in Tenants |-> None]
    /\ domainTenantCache' = [h \in Hosts |-> None]

Init ==
    /\ up = FALSE
    /\ tables = EmptyTables
    /\ committed = FALSE
    /\ runtimeCache = [t \in Tenants |-> None]
    /\ domainTenantCache = [h \in Hosts |-> None]
    /\ call = [c \in Calls |-> Idle]
    /\ bootstraps = 0
    /\ config = <<>>
    /\ overlapped = FALSE

-----------------------------------------------------------------------------
(* The repository comes and goes with the process *)

Store(cfg) ==
    /\ tables' = Bootstrap(tables, cfg).tables
    /\ config' = IF Bootstrap(tables, cfg).ok THEN cfg ELSE config

\* Without a stored configuration the process exits.
Start(cfg) ==
    /\ ~up
    /\ Store(cfg)
    /\ up' = Bootstrap(tables, cfg).ok
    /\ bootstraps' = 0
    /\ NoCaches
    /\ committed' = FALSE
    /\ overlapped' = FALSE
    /\ UNCHANGED call

Stop ==
    /\ up
    /\ up' = FALSE
    /\ NoCaches
    /\ committed' = FALSE
    /\ call' = [c \in Calls |-> Idle]
    /\ bootstraps' = 0
    /\ overlapped' = FALSE
    /\ UNCHANGED <<tables, config>>

InFlight == \E c \in Calls : call[c].at # "idle"

\* Bootstrap of a running process: the transaction, then the caches.
Rebootstrap(cfg) ==
    /\ up /\ ~committed
    /\ bootstraps < MaxBootstraps
    /\ bootstraps' = bootstraps + 1
    /\ Store(cfg)
    /\ committed' = Bootstrap(tables, cfg).ok
    /\ overlapped' = (overlapped \/ InFlight)
    /\ UNCHANGED <<up, cacheVars, call>>

\* A faulty form of the step below: the hosts are forgotten.
invalidateRuntimeOnly ==
    /\ committed
    /\ committed' = FALSE
    /\ runtimeCache' = [t \in Tenants |-> None]
    /\ overlapped' = InFlight
    /\ UNCHANGED <<up, tables, domainTenantCache, call, bootstraps, config>>

invalidateRegisteredRepositories ==
    /\ committed
    /\ committed' = FALSE
    /\ NoCaches
    /\ overlapped' = InFlight
    /\ UNCHANGED <<up, tables, call, bootstraps, config>>

-----------------------------------------------------------------------------
(* Calls *)

Set(c, new) ==
    /\ call' = [call EXCEPT ![c] = new]
    /\ UNCHANGED <<up, tables, committed, bootstraps, config>>

Step(c, new) == Set(c, new) /\ UNCHANGED <<cacheVars, overlapped>>

\* Not found, forbidden, or the answer has been written.
Finish(c) == Step(c, Idle)

Begin(c, new) ==
    /\ up
    /\ call[c] = Idle
    /\ Set(c, new)
    /\ overlapped' = (overlapped \/ committed)
    /\ UNCHANGED cacheVars

\* A notification request of a session names its tenant.
BeginHttp(c, u, t) ==
    Begin(c, [Idle EXCEPT !.kind = "http", !.at = "authorise", !.user = u, !.tenant = t])

\* The interceptor resolves whatever tenant the bearer of the token names.
BeginGrpc(c, t) ==
    Begin(c, [Idle EXCEPT !.kind = "grpc", !.at = "resolve", !.tenant = t])

\* Other paths are tied to a tenant by the host of the request.
BeginHost(c, h) ==
    IF domainTenantCache[h] # None
    THEN Begin(c, [Idle EXCEPT !.kind = "host", !.at = "resolve", !.host = h,
                               !.tenant = domainTenantCache[h]])
    ELSE Begin(c, [Idle EXCEPT !.kind = "host", !.at = "host", !.host = h])

\* authorizeNotificationTenant: administrators may work on every tenant,
sessionHasAdminAccess(u) == u \in AdminRole \/ IsActiveTenantAdmin(tables, u)

AdminLookup(c) ==
    /\ call[c].at = "authorise"
    /\ IF sessionHasAdminAccess(call[c].user)
       THEN Step(c, [call[c] EXCEPT !.at = "resolve", !.admin = TRUE])
       ELSE IF EmailDomain[call[c].user] = None
            THEN Finish(c)
            ELSE Step(c, [call[c] EXCEPT !.at = "domain"])

\* others on the active tenants of their address's domain.
DomainLookup(c) ==
    /\ call[c].at = "domain"
    /\ IF call[c].tenant \in ListActiveTenantsByDomain(tables, EmailDomain[call[c].user])
       THEN Step(c, [call[c] EXCEPT !.at = "resolve"])
       ELSE Finish(c)

\* ResolveByHost: the domain row.
HostLookup(c) ==
    /\ call[c].at = "host"
    /\ \/ \E d \in tables.domains :
            /\ d.host = call[c].host
            /\ Step(c, [call[c] EXCEPT !.at = "resolve", !.tenant = d.tenant])
       \/ /\ \A d \in tables.domains : d.host # call[c].host
          /\ Finish(c)

\* runtimeConfig: the cache, or three queries and then the cache.
CacheLookup(c) ==
    /\ call[c].at = "resolve"
    /\ IF runtimeCache[call[c].tenant] # None
       THEN Step(c, [call[c] EXCEPT !.at = "resolved", !.cfg = runtimeCache[call[c].tenant]])
       ELSE Step(c, [call[c] EXCEPT !.at = "tenant"])

LoadTenant(c) ==
    /\ call[c].at = "tenant"
    /\ IF tables.status[call[c].tenant] = "absent"
       THEN Finish(c)
       ELSE Step(c, [call[c] EXCEPT !.at = "email",
                                    !.cfg.status = tables.status[call[c].tenant]])

\* Two rows only when the configuration names a tenant twice; their keys are
\* random, so is the first of them.
SettingsOf(rows, t) == {row[2] : row \in {r \in rows : r[1] = t}}

LoadEmailProfile(c) ==
    /\ call[c].at = "email"
    /\ \/ \E e \in SettingsOf(tables.emails, call[c].tenant) :
            Step(c, [call[c] EXCEPT !.at = "sms", !.cfg.email = e])
       \/ /\ SettingsOf(tables.emails, call[c].tenant) = {}
          /\ Finish(c)

LoadSMSProfile(c) ==
    /\ call[c].at = "sms"
    /\ \E s \in LET found == SettingsOf(tables.sms, call[c].tenant)
                IN IF found = {} THEN {None} ELSE found :
            Step(c, [call[c] EXCEPT !.at = "store", !.cfg.sms = s])

cacheRuntimeConfig(c) ==
    /\ call[c].at = "store"
    /\ Set(c, [call[c] EXCEPT !.at = "resolved"])
    /\ runtimeCache' = [runtimeCache EXCEPT ![call[c].tenant] = call[c].cfg]
    /\ UNCHANGED <<domainTenantCache, overlapped>>

\* ResolveByHost stores the tenant of the host last; the work is then done on
\* behalf of the tenant.
cacheTenantID(c) ==
    /\ call[c].at = "resolved"
    /\ Set(c, [call[c] EXCEPT !.at = "served"])
    /\ domainTenantCache' = IF call[c].kind = "host"
                            THEN [domainTenantCache EXCEPT ![call[c].host] = call[c].tenant]
                            ELSE domainTenantCache
    /\ UNCHANGED <<runtimeCache, overlapped>>

\* A query that fails ends the call with an error.
QueryFails(c) ==
    /\ call[c].at \in {"authorise", "domain", "host", "tenant", "email", "sms"}
    /\ call[c].at = "authorise" => call[c].user \notin AdminRole
    /\ Finish(c)

Respond(c) == call[c].at = "served" /\ Finish(c)

-----------------------------------------------------------------------------
Advance(c) ==
    \/ AdminLookup(c)
    \/ DomainLookup(c)
    \/ HostLookup(c)
    \/ CacheLookup(c)
    \/ LoadTenant(c)
    \/ LoadEmailProfile(c)
    \/ LoadSMSProfile(c)
    \/ cacheRuntimeConfig(c)
    \/ cacheTenantID(c)
    \/ QueryFails(c)
    \/ Respond(c)

-----------------------------------------------------------------------------
(* Properties *)

\* What a configuration says of a tenant, read off it without the tables.
Entries(t) == {k \in DOMAIN config : config[k].id = t}

StatusOf(t) ==
    IF Entries(t) = {} THEN "absent"
    ELSE IF config[CHOOSE k \in Entries(t) : \A l \in Entries(t) : l <= k].enabled
         THEN "active" ELSE "suspended"

OwnerOf(h, t) ==
    \E k \in Entries(t) : \E i \in DOMAIN config[k].domains : config[k].domains[i] = h

Describes(cfg, t) ==
    /\ cfg.status = StatusOf(t)
    /\ \E k \in Entries(t) : cfg.email = config[k].email
    /\ \/ \E k \in Entries(t) : cfg.sms = config[k].sms
       \/ cfg.sms = None /\ \A k \in Entries(t) : config[k].sms = None

\* Whatever was stored before, and whichever configurations were refused in
\* between, the tables say what the last stored configuration says and nothing
\* else: no tenant, domain, administrator or profile is left over or lost, and
\* no host belongs to two tenants (Bootstrap, removeStaleTenants, resets).
TablesAreConfigured ==
    /\ \A t \in Tenants : tables.status[t] = StatusOf(t)
    /\ \A t \in Tenants, h \in Hosts :
        Cardinality({d \in tables.domains : d.host = h /\ d.tenant = t}) =
            IF OwnerOf(h, t) THEN 1 ELSE 0
    /\ \A h \in Hosts : Cardinality({d \in tables.domains : d.host = h}) <= 1
    /\ tables.admins = UNION {{config[k].id} \X config[k].admins : k \in DOMAIN config}
    /\ tables.emails = {<<config[k].id, config[k].email>> : k \in DOMAIN config}
    /\ tables.sms = {<<config[k].id, config[k].sms>> :
                        k \in {l \in DOMAIN config : config[l].sms # None}}

\* Once a bootstrap is through and no call ran across it, a cached tenant or
\* host is the one the stored configuration describes (clearCaches).
CacheIsCurrent ==
    up /\ ~committed /\ ~overlapped =>
        /\ \A t \in Tenants : runtimeCache[t] # None => Describes(runtimeCache[t], t)
        /\ \A h \in Hosts : domainTenantCache[h] # None => OwnerOf(h, domainTenantCache[h])

AdministersActive(u) ==
    \E k \in DOMAIN config : u \in config[k].admins /\ StatusOf(config[k].id) = "active"

\* Work is done with the settings of the tenant it is for, and a session gets
\* to it only by the admin role, by administering an active tenant, or by an
\* address in a domain of that tenant while it is active; a host only leads to
\* the tenant that owns it (authorizeNotificationTenant, ResolveByHost).
ServedIsEntitled ==
    \A c \in Calls : call[c].at = "served" /\ ~overlapped =>
        LET u == call[c].user t == call[c].tenant
        IN /\ Describes(call[c].cfg, t)
           /\ call[c].kind = "host" => OwnerOf(call[c].host, t)
           /\ call[c].kind = "http" =>
                \/ u \in AdminRole
                \/ AdministersActive(u)
                \/ EmailDomain[u] # None /\ OwnerOf(EmailDomain[u], t) /\ StatusOf(t) = "active"
=============================================================================
