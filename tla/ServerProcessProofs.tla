------------------------ MODULE ServerProcessProofs ------------------------
(***************************************************************************)
(* Proofs about ServerProcess and the tenant access it serves, for every   *)
(* set of files, configurations, tenants, users and calls.                 *)
(***************************************************************************)
EXTENDS ServerProcess, FiniteSetTheorems, WellFoundedInduction, TLAPS

-----------------------------------------------------------------------------
(* Numbers *)

LEMMA SetInduction ==
    ASSUME NEW S, 0 \in S, \A n \in Nat : n \in S => n + 1 \in S
    PROVE  Nat \subseteq S
<1>. DEFINE T == Nat \ S
<1>. SUFFICES ASSUME T # {} PROVE FALSE
  BY Zenon
<1>1. PICK x \in T : \A y \in T : ~(<<y, x>> \in OpToRel(<, Nat))
  <2>. HIDE DEF T
  <2>1. T \subseteq Nat
    BY Zenon DEF T
  <2>. QED
    BY <2>1, WFMin, NatLessThanWellFounded, Zenon
<1>2. \A y \in T : ~(y < x)
  BY <1>1, Zenon DEF OpToRel
<1>3. x # 0 /\ x - 1 \in Nat /\ x - 1 < x
  OBVIOUS
<1>4. x - 1 \in S
  BY <1>2, <1>3, Zenon
<1>. QED
  BY <1>3, <1>4

\* The latest of some entries of a sequence.
LEMMA Latest ==
    ASSUME NEW n \in Nat, NEW S \in SUBSET (1..n), S # {}
    PROVE  \E k \in S : \A l \in S : l <= k
<1>. DEFINE T == {n - k : k \in S}
<1>1. /\ \A k \in S : k \in Nat /\ n - k \in Nat
      /\ \A k \in S : n - k \in T
      /\ \A x \in T : \E k \in S : x = n - k
  OBVIOUS
<1>. HIDE DEF T
<1>2. T \subseteq Nat /\ T # {}
  BY <1>1, Zenon
<1>3. PICK x \in T : \A y \in T : ~(<<y, x>> \in OpToRel(<, Nat))
  BY <1>2, WFMin, NatLessThanWellFounded, Zenon
<1>4. \A y \in T : ~(y < x)
  BY <1>2, <1>3, Zenon DEF OpToRel
<1>5. PICK k \in S : x = n - k
  BY <1>1, Zenon
<1>. QED
  BY <1>1, <1>4, <1>5

-----------------------------------------------------------------------------
(* The bootstrap transaction *)

Started(T, cfg) == [ok |-> TRUE, tables |-> resetTables(T, cfg)]

\* The transaction exists, tenant by tenant.
LEMMA TransactionSteps ==
    ASSUME NEW T, NEW cfg \in Seq(TenantSpec), NEW tx, tx = Transaction(T, cfg)
    PROVE  /\ tx[0] = Started(T, cfg)
           /\ \A k \in 1..Len(cfg) : tx[k] = upsertTenant(tx[k - 1], cfg[k])
<1>. DEFINE Unfolds(f, n) ==
        f = [k \in 0..n |-> IF k = 0 THEN Started(T, cfg) ELSE upsertTenant(f[k - 1], cfg[k])]
            S == {n \in Nat : \E f : Unfolds(f, n)}
<1>1. 0 \in S
  <2>. DEFINE f == [k \in 0..0 |-> Started(T, cfg)]
  <2>1. Unfolds(f, 0)
    OBVIOUS
  <2>. QED
    BY <2>1, Zenon
<1>2. ASSUME NEW n \in Nat, n \in S
      PROVE  n + 1 \in S
  <2>1. PICK f : Unfolds(f, n)
    BY <1>2, Zenon
  <2>. DEFINE g == [k \in 0..(n + 1) |->
                        IF k <= n THEN f[k] ELSE upsertTenant(f[n], cfg[n + 1])]
  <2>2. ASSUME NEW k \in 0..(n + 1)
        PROVE  g[k] = IF k = 0 THEN Started(T, cfg) ELSE upsertTenant(g[k - 1], cfg[k])
    <3>1. CASE k = 0
      BY <2>1, <3>1
    <3>2. CASE k \in 1..n
      BY <2>1, <3>2
    <3>3. CASE k = n + 1
      BY <3>3
    <3>. QED
      BY <3>1, <3>2, <3>3
  <2>3. g = [k \in 0..(n + 1) |-> g[k]]
    BY Zenon
  <2>. HIDE DEF g
  <2>4. Unfolds(g, n + 1)
    BY <2>2, <2>3, Zenon
  <2>. HIDE DEF Unfolds
  <2>5. \E h : Unfolds(h, n + 1)
    BY <2>4, Zenon
  <2>. QED
    BY <2>5
<1>3. Len(cfg) \in Nat /\ DOMAIN cfg = 1..Len(cfg)
  OBVIOUS
<1>4. \E f : Unfolds(f, Len(cfg))
  <2>. HIDE DEF S
  <2>1. Len(cfg) \in S
    BY <1>1, <1>2, <1>3, SetInduction, Zenon
  <2>. QED
    BY <2>1, Zenon DEF S
<1>5. tx = CHOOSE f : Unfolds(f, Len(cfg))
  BY Zenon DEF Transaction, Started
<1>6. Unfolds(tx, Len(cfg))
  BY <1>4, <1>5, Zenon
<1>. QED
  BY <1>3, <1>6

Statuses == {"absent", "active", "suspended"}

StatusFor(spec) == IF spec.enabled THEN "active" ELSE "suspended"

\* What the first n tenants of a configuration leave in the tables.
StoredRows(tab, cfg, n) ==
    /\ tab.domains = UNION {DomainRows(cfg[k]) : k \in 1..n}
    /\ ~DomainConflict(tab.domains)
    /\ tab.admins = UNION {AdminRows(cfg[k]) : k \in 1..n}
    /\ tab.emails = {<<cfg[k].id, cfg[k].email>> : k \in 1..n}
    /\ tab.sms = {<<cfg[k].id, cfg[k].sms>> : k \in {l \in 1..n : cfg[l].sms # None}}

\* The latest entry of a tenant decides; one without an entry has the status
\* that the table was reset to.
StoredStatus(tab, cfg, n, reset) ==
    /\ tab.status \in [Tenants -> Statuses]
    /\ \A t \in Tenants : (\A k \in 1..n : cfg[k].id # t) => tab.status[t] = reset[t]
    /\ \A k \in 1..n : (\A l \in 1..n : cfg[l].id = cfg[k].id => l <= k) =>
            tab.status[cfg[k].id] = StatusFor(cfg[k])

Matches(tab, cfg) ==
    /\ StoredRows(tab, cfg, Len(cfg))
    /\ StoredStatus(tab, cfg, Len(cfg), [t \in Tenants |-> "absent"])

Refuses(tab, spec) ==
    \/ DomainConflict(tab.domains \cup DomainRows(spec))
    \/ AdminRows(spec) \cap tab.admins # {}

Adds(tab, spec) ==
    [status  |-> [tab.status EXCEPT ![spec.id] = StatusFor(spec)],
     domains |-> tab.domains \cup DomainRows(spec),
     admins  |-> tab.admins \cup AdminRows(spec),
     emails  |-> tab.emails \cup {<<spec.id, spec.email>>},
     sms     |-> IF spec.sms = None THEN tab.sms ELSE tab.sms \cup {<<spec.id, spec.sms>>}]

LEMMA UpsertOutcome ==
    ASSUME NEW tx, NEW spec
    PROVE  /\ tx.ok /\ ~Refuses(tx.tables, spec) =>
                upsertTenant(tx, spec) = [ok |-> TRUE, tables |-> Adds(tx.tables, spec)]
           /\ ~tx.ok \/ Refuses(tx.tables, spec) =>
                upsertTenant(tx, spec) = [tx EXCEPT !.ok = FALSE]
  BY Zenon DEF upsertTenant, Refuses, Adds, StatusFor

LEMMA UpsertStores ==
    ASSUME NEW cfg \in Seq(TenantSpec), NEW n \in Nat, n + 1 \in 1..Len(cfg), NEW reset,
           NEW tab, StoredRows(tab, cfg, n), StoredStatus(tab, cfg, n, reset),
           NEW new, new = Adds(tab, cfg[n + 1]), ~Refuses(tab, cfg[n + 1])
    PROVE  StoredRows(new, cfg, n + 1) /\ StoredStatus(new, cfg, n + 1, reset)
<1>1. PICK spec \in TenantSpec : spec = cfg[n + 1]
  OBVIOUS
<1>2. /\ ~DomainConflict(tab.domains \cup DomainRows(spec))
      /\ new.status = [tab.status EXCEPT ![spec.id] = StatusFor(spec)]
      /\ new.domains = tab.domains \cup DomainRows(spec)
      /\ new.admins = tab.admins \cup AdminRows(spec)
      /\ new.emails = tab.emails \cup {<<spec.id, spec.email>>}
      /\ new.sms = IF spec.sms = None THEN tab.sms ELSE tab.sms \cup {<<spec.id, spec.sms>>}
  BY <1>1, Zenon DEF Adds, Refuses
<1>3. 1..(n + 1) = (1..n) \cup {n + 1}
  OBVIOUS
<1>4. StoredRows(new, cfg, n + 1)
  <2>1. new.domains = UNION {DomainRows(cfg[k]) : k \in 1..(n + 1)}
    BY <1>1, <1>2, <1>3 DEF StoredRows
  <2>2. new.admins = UNION {AdminRows(cfg[k]) : k \in 1..(n + 1)}
    BY <1>1, <1>2, <1>3 DEF StoredRows
  <2>3. new.emails = {<<cfg[k].id, cfg[k].email>> : k \in 1..(n + 1)}
    BY <1>1, <1>2, <1>3 DEF StoredRows
  <2>4. new.sms = {<<cfg[k].id, cfg[k].sms>> : k \in {l \in 1..(n + 1) : cfg[l].sms # None}}
    BY <1>1, <1>2, <1>3 DEF StoredRows
  <2>. QED
    BY <1>2, <2>1, <2>2, <2>3, <2>4, Zenon DEF StoredRows
<1>5. StoredStatus(new, cfg, n + 1, reset)
  <2>1. /\ spec.id \in Tenants /\ StatusFor(spec) \in Statuses
        /\ \A k \in 1..n : cfg[k].id \in Tenants
    <3>1. \A k \in 1..n : cfg[k] \in TenantSpec
      OBVIOUS
    <3>2. \A x \in TenantSpec : x.id \in Tenants
      BY Zenon DEF TenantSpec
    <3>. QED
      BY <3>1, <3>2, Zenon DEF StatusFor, Statuses
  <2>2. new.status \in [Tenants -> Statuses]
    BY <1>2, <2>1, Zenon DEF StoredStatus
  <2>3. ASSUME NEW t \in Tenants, \A k \in 1..(n + 1) : cfg[k].id # t
        PROVE  new.status[t] = reset[t]
    BY <1>1, <1>2, <1>3, <2>3 DEF StoredStatus
  <2>4. ASSUME NEW k \in 1..(n + 1),
               \A l \in 1..(n + 1) : cfg[l].id = cfg[k].id => l <= k
        PROVE  new.status[cfg[k].id] = StatusFor(cfg[k])
    <3>1. CASE k = n + 1
      BY <1>1, <1>2, <2>1, <3>1, Zenon DEF StoredStatus
    <3>2. CASE k # n + 1
      <4>1. k \in 1..n /\ cfg[k].id # spec.id
        BY <1>1, <1>3, <2>4, <3>2
      <4>2. tab.status[cfg[k].id] = StatusFor(cfg[k])
        BY <1>3, <2>4, <4>1, Zenon DEF StoredStatus
      <4>. QED
        BY <1>2, <2>1, <4>1, <4>2, Zenon DEF StoredStatus
    <3>. QED
      BY <3>1, <3>2, Zenon
  <2>. QED
    BY <2>2, <2>3, <2>4, Zenon DEF StoredStatus
<1>. QED
  BY <1>4, <1>5, Zenon

\* Whatever was stored before, the tables say what the configuration says.
LEMMA BootstrapStores ==
    ASSUME NEW T, T.status \in [Tenants -> Statuses], NEW cfg \in Seq(TenantSpec),
           Bootstrap(T, cfg).ok
    PROVE  Matches(Bootstrap(T, cfg).tables, cfg)
<1>1. PICK tx : tx = Transaction(T, cfg)
  BY Zenon
<1>2. PICK reset : reset = removeStaleTenants(T, cfg)
  BY Zenon
<1>3. /\ tx[0] = Started(T, cfg)
      /\ \A k \in 1..Len(cfg) : tx[k] = upsertTenant(tx[k - 1], cfg[k])
  BY <1>1, TransactionSteps, Zenon
<1>. DEFINE Sound(n) ==
        /\ tx[n] = [ok |-> tx[n].ok, tables |-> tx[n].tables] /\ tx[n].ok \in BOOLEAN
        /\ tx[n].ok => StoredRows(tx[n].tables, cfg, n) /\ StoredStatus(tx[n].tables, cfg, n, reset)
            S == {n \in Nat : n <= Len(cfg) => Sound(n)}
<1>4. 0 \in S
  <2>1. tx[0].ok = TRUE /\ tx[0].tables = [EmptyTables EXCEPT !.status = reset]
    BY <1>2, <1>3 DEF Started, resetTables
  <2>2. StoredRows(tx[0].tables, cfg, 0)
    BY <2>1 DEF StoredRows, EmptyTables, DomainConflict
  <2>3. StoredStatus(tx[0].tables, cfg, 0, reset)
    BY <1>2, <2>1 DEF StoredStatus, EmptyTables, removeStaleTenants, Statuses
  <2>4. tx[0] = [ok |-> tx[0].ok, tables |-> tx[0].tables]
    BY <1>3, Zenon DEF Started
  <2>. QED
    BY <2>1, <2>2, <2>3, <2>4, Zenon
<1>5. ASSUME NEW n \in Nat, n \in S
      PROVE  n + 1 \in S
  <2>. SUFFICES ASSUME n + 1 <= Len(cfg)
                PROVE  Sound(n + 1)
    OBVIOUS
  <2>1. Sound(n) /\ n + 1 \in 1..Len(cfg) /\ (n + 1) - 1 = n
    BY <1>5
  <2>2. tx[n + 1] = upsertTenant(tx[n], cfg[n + 1])
    BY <1>3, <2>1, Zenon
  <2>3. CASE ~tx[n].ok \/ Refuses(tx[n].tables, cfg[n + 1])
    <3>1. tx[n + 1] = [tx[n] EXCEPT !.ok = FALSE]
      BY <2>2, <2>3, UpsertOutcome, Zenon
    <3>2. \A c : [tx[n] EXCEPT !.ok = c] = [ok |-> c, tables |-> tx[n].tables]
      BY <2>1
    <3>3. tx[n + 1] = [ok |-> FALSE, tables |-> tx[n].tables]
      BY <3>1, <3>2, Zenon
    <3>. QED
      BY <3>3
  <2>4. CASE tx[n].ok /\ ~Refuses(tx[n].tables, cfg[n + 1])
    <3>1. tx[n + 1] = [ok |-> TRUE, tables |-> Adds(tx[n].tables, cfg[n + 1])]
      BY <2>2, <2>4, UpsertOutcome, Zenon
    <3>2. tx[n + 1].ok = TRUE /\ tx[n + 1].tables = Adds(tx[n].tables, cfg[n + 1])
      BY <3>1
    <3>3. /\ StoredRows(tx[n + 1].tables, cfg, n + 1)
          /\ StoredStatus(tx[n + 1].tables, cfg, n + 1, reset)
      BY <2>1, <2>4, <3>2, UpsertStores, Zenon
    <3>. QED
      BY <3>1, <3>2, <3>3, Zenon
  <2>. QED
    BY <2>3, <2>4, Zenon
<1>6. Len(cfg) \in Nat
  OBVIOUS
<1>7. Sound(Len(cfg))
  <2>. HIDE DEF S
  <2>1. Len(cfg) \in S
    BY <1>4, <1>5, <1>6, SetInduction, Zenon
  <2>. QED
    BY <1>6, <2>1 DEF S
<1>8. Bootstrap(T, cfg).ok = (Valid(cfg) /\ tx[Len(cfg)].ok)
  BY <1>1, Zenon DEF Bootstrap
<1>9. tx[Len(cfg)].ok /\ Bootstrap(T, cfg).tables = tx[Len(cfg)].tables
  BY <1>1, <1>8, Zenon DEF Bootstrap
<1>10. ASSUME NEW t \in Tenants, \A k \in 1..Len(cfg) : cfg[k].id # t
       PROVE  reset[t] = "absent"
  BY <1>2, <1>10 DEF removeStaleTenants, ConfiguredIDs
<1>. QED
  BY <1>7, <1>9, <1>10, Zenon DEF Matches, StoredStatus

-----------------------------------------------------------------------------
(* The tables *)

TablesInv == config \in Seq(TenantSpec) /\ Matches(tables, config)

LEMMA SpecFields ==
    ASSUME NEW cfg \in Seq(TenantSpec)
    PROVE  /\ DOMAIN cfg = 1..Len(cfg) /\ Len(cfg) \in Nat
           /\ \A k \in DOMAIN cfg :
                /\ cfg[k].id \in Tenants /\ cfg[k].domains \in Seq(Hosts)
                /\ cfg[k].email \in Nat /\ cfg[k].sms \in Nat \cup {None}
<1>1. \A x \in TenantSpec : /\ x.id \in Tenants /\ x.domains \in Seq(Hosts)
                            /\ x.email \in Nat /\ x.sms \in Nat \cup {None}
  BY Zenon DEF TenantSpec
<1>2. DOMAIN cfg = 1..Len(cfg) /\ Len(cfg) \in Nat /\ \A k \in DOMAIN cfg : cfg[k] \in TenantSpec
  OBVIOUS
<1>. QED
  BY <1>1, <1>2, Zenon

LEMMA StatusStored ==
    ASSUME TablesInv, NEW t \in Tenants
    PROVE  tables.status[t] = StatusOf(t)
<1>1. DOMAIN config = 1..Len(config) /\ Len(config) \in Nat
  BY SpecFields, Zenon DEF TablesInv
<1>2. CASE Entries(t) = {}
  <2>1. \A k \in 1..Len(config) : config[k].id # t
    BY <1>1, <1>2, Zenon DEF Entries
  <2>. QED
    BY <1>2, <2>1, Zenon DEF TablesInv, Matches, StoredStatus, StatusOf
<1>3. CASE Entries(t) # {}
  <2>1. Entries(t) \in SUBSET (1..Len(config))
    BY <1>1, Zenon DEF Entries
  <2>2. \E k \in Entries(t) : \A l \in Entries(t) : l <= k
    BY <1>1, <1>3, <2>1, Latest, Zenon
  <2>3. PICK k : k = CHOOSE j \in Entries(t) : \A l \in Entries(t) : l <= j
    BY Zenon
  <2>4. k \in Entries(t) /\ \A l \in Entries(t) : l <= k
    BY <2>2, <2>3, Zenon
  <2>5. k \in 1..Len(config) /\ config[k].id = t
        /\ \A l \in 1..Len(config) : config[l].id = config[k].id => l <= k
    BY <1>1, <2>4, Zenon DEF Entries
  <2>6. tables.status[t] = StatusFor(config[k])
    BY <2>5, Zenon DEF TablesInv, Matches, StoredStatus
  <2>. QED
    BY <1>3, <2>3, <2>6, Zenon DEF StatusOf, StatusFor
<1>. QED
  BY <1>2, <1>3, Zenon

\* A domain row stands for the tenant that names the host, and for no other.
LEMMA DomainsStored ==
    ASSUME TablesInv
    PROVE  /\ \A d \in tables.domains :
                d.host \in Hosts /\ d.tenant \in Tenants /\ OwnerOf(d.host, d.tenant)
           /\ \A d, e \in tables.domains : d.host = e.host => d = e
           /\ \A t \in Tenants, h \in Hosts : OwnerOf(h, t) =>
                \E d \in tables.domains : d.host = h /\ d.tenant = t
<1>. USE DEF TablesInv, Matches, StoredRows
<1>1. /\ DOMAIN config = 1..Len(config)
      /\ \A k \in DOMAIN config : config[k].id \in Tenants /\ config[k].domains \in Seq(Hosts)
  BY SpecFields, Zenon
<1>2. ASSUME NEW d \in tables.domains
      PROVE  d.host \in Hosts /\ d.tenant \in Tenants /\ OwnerOf(d.host, d.tenant)
  <2>1. PICK k \in DOMAIN config : d \in DomainRows(config[k])
    BY <1>1
  <2>2. PICK i \in DOMAIN config[k].domains : \E mark :
            d = [host |-> config[k].domains[i], tenant |-> config[k].id, isDefault |-> mark]
    BY <2>1, Zenon DEF DomainRows
  <2>3. d.host = config[k].domains[i] /\ d.tenant = config[k].id
    BY <2>2
  <2>4. config[k].domains[i] \in Hosts
    BY <1>1
  <2>5. OwnerOf(d.host, d.tenant)
    BY <2>3, Zenon DEF OwnerOf, Entries
  <2>. QED
    BY <1>1, <2>3, <2>4, <2>5, Zenon
<1>3. \A d, e \in tables.domains : d.host = e.host => d = e
  BY Zenon DEF DomainConflict
<1>4. ASSUME NEW t \in Tenants, NEW h \in Hosts, OwnerOf(h, t)
      PROVE  \E d \in tables.domains : d.host = h /\ d.tenant = t
  <2>1. PICK k \in DOMAIN config :
            config[k].id = t /\ \E i \in DOMAIN config[k].domains : config[k].domains[i] = h
    BY <1>4, Zenon DEF OwnerOf, Entries
  <2>2. \E d \in DomainRows(config[k]) : d.host = h /\ d.tenant = t
    <3>1. PICK i \in DOMAIN config[k].domains : config[k].domains[i] = h
      BY <2>1, Zenon
    <3>2. PICK d : d = [host |-> config[k].domains[i], tenant |-> config[k].id, isDefault |-> i = 1]
      BY Zenon
    <3>3. d \in DomainRows(config[k])
      BY <3>2, Zenon DEF DomainRows
    <3>4. d.host = h /\ d.tenant = t
      BY <2>1, <3>1, <3>2
    <3>. QED
      BY <3>3, <3>4, Zenon
  <2>3. DomainRows(config[k]) \subseteq tables.domains
    BY <1>1, Zenon
  <2>. QED
    BY <2>2, <2>3, Zenon
<1>. QED
  BY <1>2, <1>3, <1>4, Zenon

\* Administrators and profiles, as the configuration names them.
LEMMA RowsStored ==
    ASSUME TablesInv
    PROVE  /\ tables.admins = UNION {{config[k].id} \X config[k].admins : k \in DOMAIN config}
           /\ tables.emails = {<<config[k].id, config[k].email>> : k \in DOMAIN config}
           /\ tables.sms = {<<config[k].id, config[k].sms>> :
                                k \in {l \in DOMAIN config : config[l].sms # None}}
<1>1. DOMAIN config = 1..Len(config)
  BY SpecFields, Zenon DEF TablesInv
<1>2. \A k : AdminRows(config[k]) = {config[k].id} \X config[k].admins
  BY DEF AdminRows
<1>. QED
  BY <1>1, <1>2, Zenon DEF TablesInv, Matches, StoredRows

LEMMA ConfiguredByInv == TablesInv => TablesAreConfigured
<1>. SUFFICES ASSUME TablesInv PROVE TablesAreConfigured
  BY Zenon
<1>1. ASSUME NEW S, NEW d, S = {} \/ S = {d}
      PROVE  Cardinality(S) = IF S = {} THEN 0 ELSE 1
  BY <1>1, FS_EmptySet, FS_Singleton, Zenon
<1>2. ASSUME NEW h \in Hosts, NEW t \in Tenants
      PROVE  Cardinality({d \in tables.domains : d.host = h /\ d.tenant = t}) =
                IF OwnerOf(h, t) THEN 1 ELSE 0
  <2>. DEFINE S == {d \in tables.domains : d.host = h /\ d.tenant = t}
  <2>1. S # {} <=> OwnerOf(h, t)
    BY DomainsStored
  <2>2. \A d \in S : S = {d}
    BY DomainsStored
  <2>. HIDE DEF S
  <2>. QED
    BY <1>1, <2>1, <2>2, Zenon DEF S
<1>3. ASSUME NEW h \in Hosts
      PROVE  Cardinality({d \in tables.domains : d.host = h}) <= 1
  <2>. DEFINE S == {d \in tables.domains : d.host = h}
  <2>1. \A d \in S : S = {d}
    BY DomainsStored
  <2>. HIDE DEF S
  <2>2. Cardinality(S) = 0 \/ Cardinality(S) = 1
    BY <1>1, <2>1, Zenon
  <2>. QED
    BY <2>2 DEF S
<1>. QED
  BY <1>2, <1>3, StatusStored, RowsStored, Zenon DEF TablesAreConfigured

-----------------------------------------------------------------------------
(* Storing a configuration *)

LEMMA InitTables ==
    ASSUME Init
    PROVE  TablesInv
<1>1. config \in Seq(TenantSpec) /\ Len(config) = 0
  BY DEF Init
<1>2. tables.status = [t \in Tenants |-> "absent"]
  BY Zenon DEF Init, EmptyTables
<1>3. /\ tables.domains = {} /\ tables.admins = {} /\ tables.emails = {} /\ tables.sms = {}
  BY Zenon DEF Init, EmptyTables
<1>. QED
  BY <1>1, <1>2, <1>3 DEF TablesInv, Matches, StoredRows, StoredStatus, Statuses, DomainConflict

LEMMA BootstrapRefused ==
    ASSUME NEW T, NEW cfg, ~Bootstrap(T, cfg).ok
    PROVE  Bootstrap(T, cfg).tables = T
  BY Zenon DEF Bootstrap

LEMMA StoreTables ==
    ASSUME TablesInv, NEW cfg \in Seq(TenantSpec), Store(cfg)
    PROVE  /\ TablesInv'
           /\ Bootstrap(tables, cfg).ok \in BOOLEAN
           /\ ~Bootstrap(tables, cfg).ok => UNCHANGED <<tables, config>>
<1>1. Bootstrap(tables, cfg).ok \in BOOLEAN
  BY Zenon DEF Bootstrap
<1>2. tables.status \in [Tenants -> Statuses]
  BY Zenon DEF TablesInv, Matches, StoredStatus
<1>3. CASE Bootstrap(tables, cfg).ok
  <2>1. Matches(Bootstrap(tables, cfg).tables, cfg)
    BY <1>2, <1>3, BootstrapStores
  <2>2. tables' = Bootstrap(tables, cfg).tables /\ config' = cfg
    BY <1>3, Zenon DEF Store
  <2>3. Matches(tables', config')
    BY <2>1, <2>2, Zenon
  <2>. QED
    BY <1>1, <1>3, <2>2, <2>3 DEF TablesInv
<1>4. CASE ~Bootstrap(tables, cfg).ok
  <2>1. tables' = tables /\ config' = config
    BY <1>4, BootstrapRefused DEF Store
  <2>. QED
    BY <1>1, <2>1, Zenon DEF TablesInv
<1>. QED
  BY <1>3, <1>4


-----------------------------------------------------------------------------
(* Calls and caches *)

RuntimeConfig == [status : Statuses, email : Nat \cup {None}, sms : Nat \cup {None}]

Kinds == {"idle", "http", "grpc", "host"}

Places ==
    {"idle", "authorise", "domain", "host", "resolve", "tenant", "email", "sms", "store",
     "resolved", "served"}

CallRecord ==
    [kind : Kinds, at : Places,
     user : Users \cup {None}, tenant : Tenants \cup {None}, host : Hosts \cup {None},
     admin : BOOLEAN, cfg : RuntimeConfig]

AccessTypes ==
    /\ call \in [Calls -> CallRecord]
    /\ runtimeCache \in [Tenants -> RuntimeConfig \cup {None}]
    /\ domainTenantCache \in [Hosts -> Tenants \cup {None}]
    /\ up \in BOOLEAN /\ committed \in BOOLEAN /\ overlapped \in BOOLEAN

\* A call knows what it is for.
Shaped(k) ==
    /\ k.at = "idle" => k = Idle
    /\ k.at \notin {"idle", "host"} => k.tenant \in Tenants
    /\ k.at \in {"authorise", "domain"} => k.kind = "http"
    /\ k.at = "host" => k.kind = "host"
    /\ k.kind = "http" => k.user \in Users
    /\ k.kind = "host" => k.host \in Hosts

Entitled(u, t) ==
    \/ u \in AdminRole
    \/ AdministersActive(u)
    \/ EmailDomain[u] # None /\ OwnerOf(EmailDomain[u], t) /\ StatusOf(t) = "active"

\* What a call that no bootstrap ran across has found out so far: who may work
\* on the tenant, then its status, its email profile and its SMS profile.
FoundOut(k) ==
    /\ k.at \notin {"idle", "authorise", "domain", "host"} =>
        /\ k.kind = "host" => OwnerOf(k.host, k.tenant)
        /\ k.kind = "http" => Entitled(k.user, k.tenant)
    /\ k.at \in {"email", "sms"} => k.cfg.status = StatusOf(k.tenant)
    /\ k.at = "sms" => \E e \in Entries(k.tenant) : k.cfg.email = config[e].email
    /\ k.at \in {"store", "resolved", "served"} => Describes(k.cfg, k.tenant)

CachesCurrent ==
    /\ \A t \in Tenants : runtimeCache[t] # None => Describes(runtimeCache[t], t)
    /\ \A h \in Hosts : domainTenantCache[h] # None => OwnerOf(h, domainTenantCache[h])

AccessInv ==
    /\ TablesInv
    /\ AccessTypes
    /\ \A c \in Calls : Shaped(call[c])
    /\ ~up => ~InFlight
    /\ committed => overlapped \/ ~InFlight
    /\ ~overlapped => \A c \in Calls : FoundOut(call[c])
    /\ ~committed /\ ~overlapped => CachesCurrent

LEMMA InitAccess ==
    ASSUME Init
    PROVE  AccessInv
<1>1. TablesInv
  BY InitTables, Zenon
<1>2. Idle \in CallRecord /\ Shaped(Idle) /\ FoundOut(Idle) /\ Idle.at = "idle"
  BY Zenon
     DEF Idle, EmptyConfig, CallRecord, Kinds, Places, RuntimeConfig, Statuses, Shaped, FoundOut
<1>3. /\ \A c \in Calls : call[c] = Idle
      /\ call \in [Calls -> CallRecord]
  BY <1>2 DEF Init
<1>4. /\ runtimeCache \in [Tenants -> RuntimeConfig \cup {None}]
      /\ domainTenantCache \in [Hosts -> Tenants \cup {None}]
      /\ CachesCurrent
  BY Zenon DEF Init, CachesCurrent
<1>5. up = FALSE /\ committed = FALSE /\ overlapped = FALSE
  BY Zenon DEF Init
<1>. QED
  BY <1>1, <1>2, <1>3, <1>4, <1>5, Zenon DEF AccessInv, AccessTypes, InFlight

\* What is said of calls and caches depends on the configuration only.
LEMMA ConfigKept ==
    ASSUME UNCHANGED config
    PROVE  /\ \A k : FoundOut(k)' <=> FoundOut(k)
           /\ \A g, t : Describes(g, t)' <=> Describes(g, t)
           /\ \A h, t : OwnerOf(h, t)' <=> OwnerOf(h, t)
<1>1. \A t : Entries(t)' = Entries(t)
  BY Zenon DEF Entries
<1>2. \A t : StatusOf(t)' = StatusOf(t)
  BY Zenon DEF StatusOf, Entries
<1>3. \A h, t : OwnerOf(h, t)' <=> OwnerOf(h, t)
  BY Zenon DEF OwnerOf, Entries
<1>4. \A g, t : Describes(g, t)' <=> Describes(g, t)
  BY Zenon, <1>1, <1>2 DEF Describes
<1>5. \A u : AdministersActive(u)' <=> AdministersActive(u)
  BY Zenon, <1>2 DEF AdministersActive
<1>6. \A u, t : Entitled(u, t)' <=> Entitled(u, t)
  BY Zenon, <1>2, <1>3, <1>5 DEF Entitled
<1>7. \A k : FoundOut(k)' <=> FoundOut(k)
  BY Zenon, <1>1, <1>2, <1>3, <1>4, <1>6 DEF FoundOut
<1>. QED
  BY <1>3, <1>4, <1>7, Zenon

LEMMA NoneInFlight ==
    ASSUME AccessInv, ~InFlight
    PROVE  \A c \in Calls : FoundOut(call[c]) /\ call[c] = Idle
<1>1. \A c \in Calls : call[c].at = "idle" /\ call[c] = Idle
  BY Zenon DEF AccessInv, InFlight, Shaped
<1>. QED
  BY <1>1, Zenon DEF FoundOut

\* The caches are emptied.
LEMMA CachesEmpty ==
    ASSUME NoCaches
    PROVE  /\ runtimeCache' \in [Tenants -> RuntimeConfig \cup {None}]
           /\ domainTenantCache' \in [Hosts -> Tenants \cup {None}]
           /\ CachesCurrent'
  BY Zenon DEF NoCaches, CachesCurrent

\* Nobody is called while the configuration may change.
LEMMA QuietStep ==
    ASSUME AccessInv, TablesInv', ~InFlight, UNCHANGED call,
           up' \in BOOLEAN, committed' \in BOOLEAN, overlapped' \in BOOLEAN,
           runtimeCache' \in [Tenants -> RuntimeConfig \cup {None}],
           domainTenantCache' \in [Hosts -> Tenants \cup {None}],
           ~committed' /\ ~overlapped' => CachesCurrent'
    PROVE  AccessInv'
<1>1. \A c \in Calls : call'[c].at = "idle" /\ Shaped(call'[c]) /\ call'[c] = call[c]
  BY Zenon DEF AccessInv, InFlight
<1>2. \A c \in Calls : FoundOut(call[c])'
  BY <1>1, Zenon DEF FoundOut
<1>3. ~InFlight'
  BY <1>1, Zenon DEF InFlight
<1>4. AccessTypes'
  BY Zenon DEF AccessInv, AccessTypes
<1>5. \A c \in Calls : Shaped(call[c])'
  BY <1>1, Zenon DEF Shaped
<1>. QED
  BY <1>2, <1>3, <1>4, <1>5, Zenon DEF AccessInv

LEMMA StartStep ==
    ASSUME AccessInv, NEW cfg \in Seq(TenantSpec), Start(cfg)
    PROVE  AccessInv'
<1>1. TablesInv' /\ up' \in BOOLEAN
  BY StoreTables, Zenon DEF Start, AccessInv
<1>2. ~InFlight
  BY Zenon DEF Start, AccessInv
<1>3. NoCaches /\ UNCHANGED call /\ committed' = FALSE /\ overlapped' = FALSE
  BY Zenon DEF Start
<1>. QED
  BY <1>1, <1>2, <1>3, CachesEmpty, QuietStep, Zenon

LEMMA StopStep ==
    ASSUME AccessInv, Stop
    PROVE  AccessInv'
<1>1. Idle \in CallRecord /\ Shaped(Idle) /\ Idle.at = "idle"
  BY Zenon DEF Idle, EmptyConfig, CallRecord, Kinds, Places, RuntimeConfig, Statuses, Shaped
<1>2. /\ call' \in [Calls -> CallRecord]
      /\ \A c \in Calls : call'[c] = Idle
  BY <1>1, Zenon DEF Stop
<1>3. TablesInv' /\ up' = FALSE /\ committed' = FALSE /\ overlapped' = FALSE /\ NoCaches
  BY Zenon DEF Stop, AccessInv, TablesInv, Matches
<1>4. AccessTypes'
  BY <1>2, <1>3, CachesEmpty, Zenon DEF AccessTypes
<1>5. ~InFlight'
  BY <1>1, <1>2, Zenon DEF InFlight
<1>6. \A c \in Calls : Shaped(call[c])' /\ FoundOut(call[c])'
  <2>. SUFFICES ASSUME NEW c \in Calls PROVE Shaped(call[c])' /\ FoundOut(call[c])'
    BY Zenon
  <2>1. call'[c] = Idle /\ call'[c].at = "idle" /\ Shaped(call'[c])
    BY <1>1, <1>2, Zenon
  <2>. QED
    BY <2>1, Zenon DEF Shaped, FoundOut
<1>. QED
  BY <1>3, <1>4, <1>5, <1>6, CachesEmpty DEF AccessInv

LEMMA RebootstrapStep ==
    ASSUME AccessInv, NEW cfg \in Seq(TenantSpec), Rebootstrap(cfg)
    PROVE  AccessInv'
<1>1. /\ TablesInv' /\ committed' \in BOOLEAN /\ overlapped' \in BOOLEAN
      /\ ~committed' => UNCHANGED config
  BY StoreTables, Zenon DEF Rebootstrap, AccessInv
<1>2. ~committed /\ UNCHANGED <<up, runtimeCache, domainTenantCache, call>>
  BY Zenon DEF Rebootstrap, cacheVars
<1>3. overlapped' = (overlapped \/ InFlight)
  BY Zenon DEF Rebootstrap
<1>4. AccessTypes'
  BY <1>1, <1>2, Zenon DEF AccessInv, AccessTypes
<1>5. InFlight' <=> InFlight
  BY <1>2, Zenon DEF InFlight
<1>6. \A c \in Calls : Shaped(call[c])'
  BY <1>2, Zenon DEF AccessInv, Shaped
<1>7. ASSUME ~overlapped', NEW c \in Calls PROVE FoundOut(call[c])'
  <2>1. call'[c] = call[c] /\ call[c].at = "idle"
    BY <1>2, <1>3, <1>7, Zenon DEF InFlight
  <2>. QED
    BY <2>1, Zenon DEF FoundOut
<1>8. ASSUME ~committed', ~overlapped' PROVE CachesCurrent'
  <2>1. CachesCurrent /\ UNCHANGED config
    BY <1>1, <1>2, <1>3, <1>8, Zenon DEF AccessInv
  <2>. QED
    BY <1>2, <2>1, ConfigKept, Zenon DEF CachesCurrent
<1>. QED
  BY <1>1, <1>2, <1>3, <1>4, <1>5, <1>6, <1>7, <1>8 DEF AccessInv

LEMMA InvalidateStep ==
    ASSUME AccessInv, invalidateRegisteredRepositories
    PROVE  AccessInv'
<1>1. /\ NoCaches /\ UNCHANGED <<up, tables, call, config>>
      /\ committed' = FALSE /\ overlapped' = InFlight
  BY Zenon DEF invalidateRegisteredRepositories
<1>2. TablesInv'
  BY <1>1, Zenon DEF AccessInv, TablesInv
<1>3. InFlight \in BOOLEAN /\ (InFlight' <=> InFlight)
  BY <1>1, Zenon DEF InFlight
<1>4. AccessTypes'
  BY <1>1, <1>3, CachesEmpty, Zenon DEF AccessInv, AccessTypes
<1>5. \A c \in Calls : Shaped(call[c])'
  BY <1>1 DEF AccessInv, Shaped
<1>6. ASSUME ~overlapped', NEW c \in Calls PROVE FoundOut(call[c])'
  <2>1. call'[c] = call[c] /\ call[c].at = "idle"
    BY <1>1, <1>6 DEF InFlight
  <2>. QED
    BY <2>1, Zenon DEF FoundOut
<1>. QED
  BY <1>1, <1>2, <1>3, <1>4, <1>5, <1>6, CachesEmpty DEF AccessInv

-----------------------------------------------------------------------------
(* Calls, one step at a time *)

Carried(new, k) == new.kind = k.kind /\ new.user = k.user /\ new.host = k.host

\* What the steps of a call change of its record.
LEMMA CallMoves ==
    ASSUME NEW k \in CallRecord, NEW p \in Places, NEW new, new = [k EXCEPT !.at = p]
    PROVE  /\ new \in CallRecord /\ Carried(new, k) /\ new.at = p
           /\ new.tenant = k.tenant /\ new.cfg = k.cfg
  BY Zenon DEF CallRecord, Carried

\* A call that is not at its beginning is still for what it was for.
LEMMA CarriedShape ==
    ASSUME NEW k, NEW new, Shaped(k), Carried(new, k), new.tenant \in Tenants,
           new.at \notin {"idle", "authorise", "domain", "host"}
    PROVE  Shaped(new)
  BY Zenon DEF Shaped, Carried

\* A step of one call, which may write to the caches.
LEMMA CallStep ==
    ASSUME AccessInv, NEW c \in Calls, NEW new \in CallRecord, Shaped(new),
           ~overlapped' => FoundOut(new), call' = [call EXCEPT ![c] = new], up,
           committed => overlapped',
           UNCHANGED <<up, tables, committed, config>>,
           overlapped' \in BOOLEAN, overlapped => overlapped',
           runtimeCache' \in [Tenants -> RuntimeConfig \cup {None}],
           domainTenantCache' \in [Hosts -> Tenants \cup {None}],
           ~committed /\ ~overlapped' => CachesCurrent'
    PROVE  AccessInv'
<1>1. TablesInv' /\ AccessTypes'
  BY DEF AccessInv, TablesInv, AccessTypes
<1>2. \A d \in Calls : call'[d] = IF d = c THEN new ELSE call[d]
  BY Zenon DEF AccessInv, AccessTypes
<1>3. \A d \in Calls : Shaped(call'[d])
  BY <1>2 DEF AccessInv
<1>4. ASSUME ~overlapped', NEW d \in Calls PROVE FoundOut(call[d])'
  <2>1. PICK k : k = call'[d]
    BY Zenon
  <2>2. FoundOut(k)
    BY <1>2, <1>4, <2>1 DEF AccessInv
  <2>3. FoundOut(k)'
    BY <2>2, ConfigKept
  <2>. QED
    BY <2>1, <2>3
<1>5. \A d \in Calls : Shaped(call[d])'
  BY <1>3, Zenon DEF Shaped, Idle
<1>. QED
  BY <1>1, <1>4, <1>5 DEF AccessInv

\* The caches as they were.
LEMMA CachesKept ==
    ASSUME AccessInv, UNCHANGED <<runtimeCache, domainTenantCache, config>>
    PROVE  /\ runtimeCache' \in [Tenants -> RuntimeConfig \cup {None}]
           /\ domainTenantCache' \in [Hosts -> Tenants \cup {None}]
           /\ ~committed /\ ~overlapped => CachesCurrent'
<1>1. CachesCurrent => CachesCurrent'
  BY ConfigKept DEF CachesCurrent
<1>. QED
  BY <1>1 DEF AccessInv, AccessTypes

LEMMA InFlightFacts ==
    ASSUME AccessInv, NEW c \in Calls, call[c].at # "idle"
    PROVE  /\ up
           /\ committed => overlapped
           /\ call[c] \in CallRecord /\ Shaped(call[c])
           /\ ~overlapped => FoundOut(call[c]) /\ CachesCurrent
           /\ overlapped \in BOOLEAN
  BY Zenon DEF AccessInv, AccessTypes, InFlight

\* A call that goes on is of the kind it was.
LEMMA KindKept ==
    ASSUME AccessInv, NEW c \in Calls, NEW new, call' = [call EXCEPT ![c] = new],
           new = Idle \/ Carried(new, call[c])
    PROVE  HttpInFlight' => HttpInFlight
<1>1. Idle.kind = "idle"
  BY Zenon DEF Idle
<1>2. \A d \in Calls : call'[d].kind \in {"http", "host"} => call[d].kind \in {"http", "host"}
  BY <1>1 DEF AccessInv, AccessTypes, Carried
<1>. QED
  BY <1>2 DEF HttpInFlight

LEMMA PlainStep ==
    ASSUME AccessInv, NEW c \in Calls, call[c].at # "idle", NEW new \in CallRecord, Shaped(new),
           ~overlapped => FoundOut(new), new = Idle \/ Carried(new, call[c]), Step(c, new)
    PROVE  AccessInv' /\ (HttpInFlight' => HttpInFlight)
<1>1. /\ call' = [call EXCEPT ![c] = new]
      /\ UNCHANGED <<up, tables, committed, config, runtimeCache, domainTenantCache, overlapped>>
  BY Zenon DEF Step, Set, cacheVars
<1>2. up /\ (committed => overlapped') /\ overlapped' \in BOOLEAN
  BY <1>1, InFlightFacts
<1>. QED
  BY <1>1, <1>2, CachesKept, CallStep, KindKept, Zenon

LEMMA FinishStep ==
    ASSUME AccessInv, NEW c \in Calls, call[c].at # "idle", Finish(c)
    PROVE  AccessInv' /\ (HttpInFlight' => HttpInFlight)
<1>1. Idle \in CallRecord /\ Shaped(Idle) /\ FoundOut(Idle)
  BY Zenon
     DEF Idle, EmptyConfig, CallRecord, Kinds, Places, RuntimeConfig, Statuses, Shaped, FoundOut
<1>. QED
  BY <1>1, PlainStep DEF Finish

LEMMA BeginStep ==
    ASSUME AccessInv, NEW c \in Calls, NEW new \in CallRecord, Shaped(new),
           ~overlapped /\ ~committed => FoundOut(new), Begin(c, new)
    PROVE  AccessInv'
<1>1. /\ call' = [call EXCEPT ![c] = new] /\ up
      /\ UNCHANGED <<up, tables, committed, config, runtimeCache, domainTenantCache>>
      /\ overlapped' = (overlapped \/ committed)
  BY Zenon DEF Begin, Set, cacheVars
<1>2. /\ committed => overlapped'
      /\ overlapped' \in BOOLEAN
      /\ overlapped => overlapped'
      /\ ~overlapped' => ~overlapped /\ ~committed
  BY <1>1, Zenon
<1>. QED
  BY <1>1, <1>2, CachesKept, CallStep, Zenon

LEMMA IdleFields ==
    /\ Idle \in CallRecord /\ Shaped(Idle)
    /\ Idle.at = "idle" /\ Idle.user = None /\ Idle.tenant = None /\ Idle.host = None
  BY Zenon DEF Idle, EmptyConfig, CallRecord, Kinds, Places, RuntimeConfig, Statuses, Shaped

LEMMA BeginHttpStep ==
    ASSUME AccessInv, NEW c \in Calls, NEW u \in Users, NEW t \in Tenants, BeginHttp(c, u, t)
    PROVE  AccessInv'
<1>1. PICK new :
        new = [Idle EXCEPT !.kind = "http", !.at = "authorise", !.user = u, !.tenant = t]
  BY Zenon
<1>2. Begin(c, new)
  BY <1>1, Zenon DEF BeginHttp
<1>3. "http" \in Kinds /\ "authorise" \in Places
  BY Zenon DEF Kinds, Places
<1>4. /\ new \in CallRecord /\ new.kind = "http" /\ new.at = "authorise"
      /\ new.user = u /\ new.tenant = t
  BY <1>1, <1>3, IdleFields, Zenon DEF CallRecord
<1>5. Shaped(new) /\ FoundOut(new)
  BY <1>4, Zenon DEF Shaped, FoundOut
<1>. QED
  BY <1>2, <1>4, <1>5, BeginStep

LEMMA BeginGrpcStep ==
    ASSUME AccessInv, NEW c \in Calls, NEW t \in Tenants, BeginGrpc(c, t)
    PROVE  AccessInv'
<1>1. PICK new : new = [Idle EXCEPT !.kind = "grpc", !.at = "resolve", !.tenant = t]
  BY Zenon
<1>2. Begin(c, new)
  BY <1>1, Zenon DEF BeginGrpc
<1>3. "grpc" \in Kinds /\ "resolve" \in Places
  BY Zenon DEF Kinds, Places
<1>4. new \in CallRecord /\ new.kind = "grpc" /\ new.at = "resolve" /\ new.tenant = t
  BY <1>1, <1>3, IdleFields, Zenon DEF CallRecord
<1>5. Shaped(new) /\ FoundOut(new)
  BY <1>4, Zenon DEF Shaped, FoundOut
<1>. QED
  BY <1>2, <1>4, <1>5, BeginStep, Zenon

LEMMA BeginHostStep ==
    ASSUME AccessInv, NEW c \in Calls, NEW h \in Hosts, BeginHost(c, h)
    PROVE  AccessInv'
<1>1. "host" \in Kinds /\ "host" \in Places /\ "resolve" \in Places
  BY Zenon DEF Kinds, Places
<1>2. CASE domainTenantCache[h] # None
  <2>1. PICK t \in Tenants : t = domainTenantCache[h]
    BY <1>2, Zenon DEF AccessInv, AccessTypes
  <2>2. PICK new :
          new = [Idle EXCEPT !.kind = "host", !.at = "resolve", !.host = h, !.tenant = t]
    BY Zenon
  <2>3. Begin(c, new)
    BY <1>2, <2>1, <2>2, Zenon DEF BeginHost
  <2>4. /\ new \in CallRecord /\ new.kind = "host" /\ new.at = "resolve"
        /\ new.tenant = t /\ new.host = h
    BY <1>1, <2>2, IdleFields, Zenon DEF CallRecord
  <2>5. ~overlapped /\ ~committed => OwnerOf(h, t)
    BY <1>2, <2>1, Zenon DEF AccessInv, CachesCurrent
  <2>6. Shaped(new) /\ (~overlapped /\ ~committed => FoundOut(new))
    BY <2>4, <2>5, Zenon DEF Shaped, FoundOut
  <2>. QED
    BY <2>3, <2>4, <2>6, BeginStep
<1>3. CASE domainTenantCache[h] = None
  <2>1. PICK new : new = [Idle EXCEPT !.kind = "host", !.at = "host", !.host = h]
    BY Zenon
  <2>2. Begin(c, new)
    BY <1>3, <2>1, Zenon DEF BeginHost
  <2>3. new \in CallRecord /\ new.kind = "host" /\ new.at = "host" /\ new.host = h
    BY <1>1, <2>1, IdleFields, Zenon DEF CallRecord
  <2>4. Shaped(new) /\ FoundOut(new)
    BY <2>3, Zenon DEF Shaped, FoundOut
  <2>. QED
    BY <2>2, <2>3, <2>4, BeginStep, Zenon
<1>. QED
  BY <1>2, <1>3, Zenon

\* What the queries find is what the configuration says.
LEMMA AdminQuery ==
    ASSUME TablesInv, NEW u \in Users, NEW t \in Tenants, sessionHasAdminAccess(u)
    PROVE  Entitled(u, t)
<1>1. CASE u \in AdminRole
  BY <1>1, Zenon DEF Entitled
<1>2. CASE IsActiveTenantAdmin(tables, u)
  <2>1. PICK a \in Tenants : tables.status[a] = "active" /\ <<a, u>> \in tables.admins
    BY <1>2, Zenon DEF IsActiveTenantAdmin, ListActiveTenants
  <2>2. PICK k \in DOMAIN config : <<a, u>> \in {config[k].id} \X config[k].admins
    BY <2>1, RowsStored
  <2>3. config[k].id = a /\ u \in config[k].admins /\ StatusOf(a) = "active"
    BY <2>1, <2>2, StatusStored, Zenon
  <2>4. AdministersActive(u)
    BY <2>3, Zenon DEF AdministersActive
  <2>. QED
    BY <2>4, Zenon DEF Entitled
<1>. QED
  BY <1>1, <1>2, Zenon DEF sessionHasAdminAccess

LEMMA DomainQuery ==
    ASSUME TablesInv, NEW u \in Users,
           NEW t \in ListActiveTenantsByDomain(tables, EmailDomain[u])
    PROVE  Entitled(u, t)
<1>1. t \in Tenants /\ tables.status[t] = "active"
  BY Zenon DEF ListActiveTenantsByDomain, ListActiveTenants
<1>2. PICK d \in tables.domains : d.tenant = t /\ d.host = EmailDomain[u]
  BY Zenon DEF ListActiveTenantsByDomain
<1>3. d.host \in Hosts /\ OwnerOf(d.host, d.tenant)
  BY DomainsStored, Zenon
<1>4. EmailDomain[u] # None /\ OwnerOf(EmailDomain[u], t) /\ StatusOf(t) = "active"
  BY <1>1, <1>2, <1>3, StatusStored, AccessAssumption, Zenon
<1>. QED
  BY <1>4, Zenon DEF Entitled

LEMMA EmailQuery ==
    ASSUME TablesInv, NEW t \in Tenants, NEW e \in SettingsOf(tables.emails, t)
    PROVE  e \in Nat /\ \E k \in Entries(t) : e = config[k].email
<1>1. PICK row \in tables.emails : row[1] = t /\ row[2] = e
  BY Zenon DEF SettingsOf
<1>2. PICK k \in DOMAIN config : row = <<config[k].id, config[k].email>>
  BY RowsStored, Zenon
<1>3. config[k].id = t /\ config[k].email = e
  BY <1>1, <1>2, Zenon
<1>4. config[k].email \in Nat
  BY SpecFields, Zenon DEF TablesInv
<1>. QED
  BY <1>3, <1>4, Zenon DEF Entries

LEMMA SmsQuery ==
    ASSUME TablesInv, NEW t \in Tenants
    PROVE  /\ \A s \in SettingsOf(tables.sms, t) :
                s \in Nat \cup {None} /\ \E k \in Entries(t) : s = config[k].sms
           /\ SettingsOf(tables.sms, t) = {} => \A k \in Entries(t) : config[k].sms = None
<1>1. ASSUME NEW s \in SettingsOf(tables.sms, t)
      PROVE  s \in Nat \cup {None} /\ \E k \in Entries(t) : s = config[k].sms
  <2>1. PICK row \in tables.sms : row[1] = t /\ row[2] = s
    BY Zenon DEF SettingsOf
  <2>2. PICK k \in DOMAIN config : row = <<config[k].id, config[k].sms>>
    BY RowsStored, Zenon
  <2>3. config[k].id = t /\ config[k].sms = s
    BY <2>1, <2>2, Zenon
  <2>4. config[k].sms \in Nat \cup {None}
    BY SpecFields, Zenon DEF TablesInv
  <2>. QED
    BY <2>3, <2>4, Zenon DEF Entries
<1>2. ASSUME NEW k \in Entries(t), config[k].sms # None PROVE SettingsOf(tables.sms, t) # {}
  <2>1. k \in DOMAIN config /\ config[k].id = t
    BY Zenon DEF Entries
  <2>2. <<config[k].id, config[k].sms>> \in tables.sms
    BY <1>2, <2>1, RowsStored, Zenon
  <2>3. <<t, config[k].sms>> \in {r \in tables.sms : r[1] = t}
    BY <2>1, <2>2, Zenon
  <2>. QED
    BY <2>3, Zenon DEF SettingsOf
<1>. QED
  BY <1>1, <1>2, Zenon

LEMMA AdminLookupStep ==
    ASSUME AccessInv, NEW c \in Calls, AdminLookup(c)
    PROVE  AccessInv' /\ (HttpInFlight' => HttpInFlight)
<1>1. call[c].at = "authorise" /\ call[c].at # "idle"
  BY Zenon DEF AdminLookup
<1>2. /\ call[c] \in CallRecord /\ Shaped(call[c]) /\ TablesInv
      /\ "resolve" \in Places /\ "domain" \in Places /\ TRUE \in BOOLEAN
  BY <1>1, InFlightFacts, Zenon DEF Places, AccessInv
<1>3. call[c].user \in Users /\ call[c].tenant \in Tenants /\ call[c].kind = "http"
  BY <1>1, <1>2, Zenon DEF Shaped
<1>4. CASE Finish(c)
  BY <1>1, <1>4, FinishStep, Zenon
<1>5. CASE sessionHasAdminAccess(call[c].user)
  <2>1. PICK b \in BOOLEAN : b = TRUE
    BY Zenon
  <2>2. PICK new : new = [call[c] EXCEPT !.at = "resolve", !.admin = b]
    BY Zenon
  <2>3. Step(c, new)
    BY Zenon, <1>5, <2>1, <2>2 DEF AdminLookup
  <2>4. /\ new \in CallRecord /\ Carried(new, call[c]) /\ new.at = "resolve"
        /\ new.tenant = call[c].tenant
    BY <1>2, <2>2, Zenon DEF CallRecord, Carried
  <2>5. Entitled(call[c].user, call[c].tenant)
    BY <1>2, <1>3, <1>5, AdminQuery
  <2>6. Shaped(new) /\ FoundOut(new)
    BY <1>2, <1>3, <2>4, <2>5, CarriedShape, Zenon DEF FoundOut, Carried
  <2>. QED
    BY <1>1, <2>3, <2>4, <2>6, PlainStep
<1>6. CASE Step(c, [call[c] EXCEPT !.at = "domain"])
  <2>1. PICK new : new = [call[c] EXCEPT !.at = "domain"]
    BY Zenon
  <2>2. /\ new \in CallRecord /\ Carried(new, call[c]) /\ new.at = "domain"
        /\ new.tenant = call[c].tenant
    BY <1>2, <2>1, CallMoves
  <2>3. Shaped(new) /\ FoundOut(new)
    BY <1>3, <2>2, Zenon DEF Shaped, FoundOut, Carried
  <2>. QED
    BY <1>1, <1>6, <2>1, <2>2, <2>3, PlainStep
<1>. QED
  BY <1>4, <1>5, <1>6, Zenon DEF AdminLookup

LEMMA DomainLookupStep ==
    ASSUME AccessInv, NEW c \in Calls, DomainLookup(c)
    PROVE  AccessInv' /\ (HttpInFlight' => HttpInFlight)
<1>1. call[c].at = "domain" /\ call[c].at # "idle"
  BY Zenon DEF DomainLookup
<1>2. call[c] \in CallRecord /\ Shaped(call[c]) /\ TablesInv /\ "resolve" \in Places
  BY <1>1, InFlightFacts, Zenon DEF Places, AccessInv
<1>3. call[c].user \in Users /\ call[c].tenant \in Tenants /\ call[c].kind = "http"
  BY <1>1, <1>2, Zenon DEF Shaped
<1>4. CASE Finish(c)
  BY <1>1, <1>4, FinishStep, Zenon
<1>5. CASE call[c].tenant \in ListActiveTenantsByDomain(tables, EmailDomain[call[c].user])
  <2>1. PICK new : new = [call[c] EXCEPT !.at = "resolve"]
    BY Zenon
  <2>2. Step(c, new)
    BY <1>5, <2>1, Zenon DEF DomainLookup
  <2>3. /\ new \in CallRecord /\ Carried(new, call[c]) /\ new.at = "resolve"
        /\ new.tenant = call[c].tenant
    BY <1>2, <2>1, CallMoves
  <2>4. Entitled(call[c].user, call[c].tenant)
    BY <1>2, <1>3, <1>5, DomainQuery, Zenon
  <2>5. Shaped(new) /\ FoundOut(new)
    BY <1>2, <1>3, <2>3, <2>4, CarriedShape, Zenon DEF FoundOut, Carried
  <2>. QED
    BY <1>1, <2>2, <2>3, <2>5, PlainStep, Zenon
<1>. QED
  BY <1>4, <1>5, Zenon DEF DomainLookup

LEMMA HostLookupStep ==
    ASSUME AccessInv, NEW c \in Calls, HostLookup(c)
    PROVE  AccessInv' /\ (HttpInFlight' => HttpInFlight)
<1>1. call[c].at = "host" /\ call[c].at # "idle"
  BY Zenon DEF HostLookup
<1>2. call[c] \in CallRecord /\ Shaped(call[c]) /\ TablesInv /\ "resolve" \in Places
  BY <1>1, InFlightFacts, Zenon DEF Places, AccessInv
<1>3. call[c].kind = "host"
  BY <1>1, <1>2, Zenon DEF Shaped
<1>4. CASE Finish(c)
  BY <1>1, <1>4, FinishStep, Zenon
<1>5. ASSUME NEW d \in tables.domains, d.host = call[c].host,
             Step(c, [call[c] EXCEPT !.at = "resolve", !.tenant = d.tenant])
      PROVE  AccessInv' /\ (HttpInFlight' => HttpInFlight)
  <2>1. PICK new : new = [call[c] EXCEPT !.at = "resolve", !.tenant = d.tenant]
    BY Zenon
  <2>2. d.tenant \in Tenants /\ OwnerOf(d.host, d.tenant)
    BY <1>2, DomainsStored, Zenon
  <2>3. /\ new \in CallRecord /\ Carried(new, call[c]) /\ new.at = "resolve"
        /\ new.tenant = d.tenant
    BY <1>2, <2>1, <2>2, Zenon DEF CallRecord, Carried
  <2>4. Shaped(new)
    BY <1>2, <2>2, <2>3, CarriedShape, Zenon
  <2>5. FoundOut(new)
    BY <1>3, <1>5, <2>2, <2>3, Zenon DEF FoundOut, Carried
  <2>. QED
    BY <1>1, <1>5, <2>1, <2>3, <2>4, <2>5, PlainStep
<1>. QED
  BY <1>4, <1>5, Zenon DEF HostLookup

LEMMA CacheLookupStep ==
    ASSUME AccessInv, NEW c \in Calls, CacheLookup(c)
    PROVE  AccessInv' /\ (HttpInFlight' => HttpInFlight)
<1>1. call[c].at = "resolve" /\ call[c].at # "idle"
  BY Zenon DEF CacheLookup
<1>2. /\ call[c] \in CallRecord /\ Shaped(call[c])
      /\ ~overlapped => FoundOut(call[c]) /\ CachesCurrent
      /\ "resolved" \in Places /\ "tenant" \in Places
  BY <1>1, InFlightFacts, Zenon DEF Places
<1>3. call[c].tenant \in Tenants
  BY <1>1, <1>2, Zenon DEF Shaped
<1>4. CASE runtimeCache[call[c].tenant] # None
  <2>1. PICK g \in RuntimeConfig : g = runtimeCache[call[c].tenant]
    BY <1>3, <1>4, Zenon DEF AccessInv, AccessTypes
  <2>2. PICK new : new = [call[c] EXCEPT !.at = "resolved", !.cfg = g]
    BY Zenon
  <2>3. Step(c, new)
    BY <1>4, <2>1, <2>2, Zenon DEF CacheLookup
  <2>4. /\ new \in CallRecord /\ Carried(new, call[c]) /\ new.at = "resolved"
        /\ new.tenant = call[c].tenant /\ new.cfg = g
    BY <1>2, <2>2, Zenon DEF CallRecord, Carried
  <2>5. Shaped(new)
    BY <1>2, <1>3, <2>4, CarriedShape, Zenon
  <2>6. ~overlapped => Describes(g, call[c].tenant)
    BY <1>2, <1>3, <1>4, <2>1, Zenon DEF CachesCurrent
  <2>7. ~overlapped => FoundOut(new)
    BY <1>1, <1>2, <2>4, <2>6, Zenon DEF FoundOut, Carried
  <2>. QED
    BY <1>1, <2>3, <2>4, <2>5, <2>7, PlainStep, Zenon
<1>5. CASE runtimeCache[call[c].tenant] = None
  <2>1. PICK new : new = [call[c] EXCEPT !.at = "tenant"]
    BY Zenon
  <2>2. Step(c, new)
    BY <1>5, <2>1, Zenon DEF CacheLookup
  <2>3. /\ new \in CallRecord /\ Carried(new, call[c]) /\ new.at = "tenant"
        /\ new.tenant = call[c].tenant
    BY <1>2, <2>1, CallMoves
  <2>4. Shaped(new) /\ (~overlapped => FoundOut(new))
    BY <1>1, <1>2, <1>3, <2>3, CarriedShape, Zenon DEF FoundOut, Carried
  <2>. QED
    BY <1>1, <2>2, <2>3, <2>4, PlainStep, Zenon
<1>. QED
  BY <1>4, <1>5, Zenon

LEMMA LoadTenantStep ==
    ASSUME AccessInv, NEW c \in Calls, LoadTenant(c)
    PROVE  AccessInv' /\ (HttpInFlight' => HttpInFlight)
<1>1. call[c].at = "tenant" /\ call[c].at # "idle"
  BY Zenon DEF LoadTenant
<1>2. /\ call[c] \in CallRecord /\ Shaped(call[c]) /\ TablesInv /\ "email" \in Places
      /\ ~overlapped => FoundOut(call[c])
  BY <1>1, InFlightFacts, Zenon DEF Places, AccessInv
<1>3. call[c].tenant \in Tenants
  BY <1>1, <1>2, Zenon DEF Shaped
<1>4. CASE Finish(c)
  BY <1>1, <1>4, FinishStep, Zenon
<1>5. CASE ~Finish(c)
  <2>1. PICK s \in Statuses : s = tables.status[call[c].tenant]
    BY <1>2, <1>3, Zenon DEF TablesInv, Matches, StoredStatus
  <2>2. PICK new : new = [call[c] EXCEPT !.at = "email", !.cfg.status = s]
    BY Zenon
  <2>3. Step(c, new)
    BY <1>5, <2>1, <2>2, Zenon DEF LoadTenant
  <2>4. /\ new \in CallRecord /\ Carried(new, call[c]) /\ new.at = "email"
        /\ new.tenant = call[c].tenant /\ new.cfg.status = s
    BY <1>2, <2>2, ZenonT(40) DEF CallRecord, RuntimeConfig, Carried
  <2>5. s = StatusOf(call[c].tenant)
    BY <1>2, <1>3, <2>1, StatusStored, Zenon
  <2>6. Shaped(new)
    BY <1>2, <1>3, <2>4, CarriedShape, SMTT(30)
  <2>7. ~overlapped => FoundOut(new)
    BY <1>1, <1>2, <2>4, <2>5 DEF FoundOut, Carried
  <2>. QED
    BY <1>1, <2>3, <2>4, <2>6, <2>7, PlainStep, Zenon
<1>. QED
  BY <1>4, <1>5, Zenon

LEMMA LoadEmailStep ==
    ASSUME AccessInv, NEW c \in Calls, LoadEmailProfile(c)
    PROVE  AccessInv' /\ (HttpInFlight' => HttpInFlight)
<1>1. call[c].at = "email" /\ call[c].at # "idle"
  BY Zenon DEF LoadEmailProfile
<1>2. /\ call[c] \in CallRecord /\ Shaped(call[c]) /\ TablesInv /\ "sms" \in Places
      /\ ~overlapped => FoundOut(call[c])
  BY <1>1, InFlightFacts, Zenon DEF Places, AccessInv
<1>3. call[c].tenant \in Tenants
  BY <1>1, <1>2, Zenon DEF Shaped
<1>4. CASE Finish(c)
  BY <1>1, <1>4, FinishStep
<1>5. ASSUME NEW e \in SettingsOf(tables.emails, call[c].tenant),
             Step(c, [call[c] EXCEPT !.at = "sms", !.cfg.email = e])
      PROVE  AccessInv' /\ (HttpInFlight' => HttpInFlight)
  <2>1. PICK new : new = [call[c] EXCEPT !.at = "sms", !.cfg.email = e]
    BY Zenon
  <2>2. e \in Nat /\ \E k \in Entries(call[c].tenant) : e = config[k].email
    BY <1>2, <1>3, EmailQuery, Zenon
  <2>3. /\ new \in CallRecord /\ Carried(new, call[c]) /\ new.at = "sms"
        /\ new.tenant = call[c].tenant /\ new.cfg.status = call[c].cfg.status
        /\ new.cfg.email = e
    BY <1>2, <2>1, <2>2, Zenon DEF CallRecord, RuntimeConfig, Carried
  <2>4. Shaped(new)
    BY <1>2, <1>3, <2>3, CarriedShape, Zenon
  <2>5. ~overlapped => FoundOut(new)
    BY <1>1, <1>2, <2>2, <2>3, Zenon DEF FoundOut, Carried
  <2>. QED
    BY <1>1, <1>5, <2>1, <2>3, <2>4, <2>5, PlainStep
<1>. QED
  BY <1>4, <1>5, Zenon DEF LoadEmailProfile

LEMMA LoadSMSStep ==
    ASSUME AccessInv, NEW c \in Calls, LoadSMSProfile(c)
    PROVE  AccessInv' /\ (HttpInFlight' => HttpInFlight)
<1>1. call[c].at = "sms" /\ call[c].at # "idle"
  BY Zenon DEF LoadSMSProfile
<1>2. /\ call[c] \in CallRecord /\ Shaped(call[c]) /\ TablesInv /\ "store" \in Places
      /\ ~overlapped => FoundOut(call[c])
  BY <1>1, InFlightFacts, Zenon DEF Places, AccessInv
<1>3. call[c].tenant \in Tenants
  BY <1>1, <1>2, Zenon DEF Shaped
<1>. DEFINE found == SettingsOf(tables.sms, call[c].tenant)
<1>4. PICK s \in IF found = {} THEN {None} ELSE found :
        Step(c, [call[c] EXCEPT !.at = "store", !.cfg.sms = s])
  BY Zenon DEF LoadSMSProfile
<1>5. PICK new : new = [call[c] EXCEPT !.at = "store", !.cfg.sms = s]
  BY Zenon
<1>6. /\ s \in Nat \cup {None}
      /\ \/ \E k \in Entries(call[c].tenant) : s = config[k].sms
         \/ s = None /\ \A k \in Entries(call[c].tenant) : config[k].sms = None
  <2>1. CASE found = {}
    BY <1>2, <1>3, <1>4, <2>1, SmsQuery, SMTT(30)
  <2>2. CASE found # {}
    BY <1>2, <1>3, <1>4, <2>2, SmsQuery
  <2>. QED
    BY <2>1, <2>2, Zenon
<1>7. /\ new \in CallRecord /\ Carried(new, call[c]) /\ new.at = "store"
      /\ new.tenant = call[c].tenant /\ new.cfg.status = call[c].cfg.status
      /\ new.cfg.email = call[c].cfg.email /\ new.cfg.sms = s
  BY <1>2, <1>5, <1>6, ZenonT(40) DEF CallRecord, RuntimeConfig, Carried
<1>8. Shaped(new)
  BY <1>2, <1>3, <1>7, CarriedShape, Zenon
<1>9. ~overlapped => Describes(new.cfg, new.tenant)
  BY <1>1, <1>2, <1>6, <1>7 DEF FoundOut, Describes
<1>10. ~overlapped => FoundOut(new)
  BY <1>1, <1>2, <1>7, <1>9, Zenon DEF FoundOut, Carried
<1>. QED
  BY <1>1, <1>4, <1>5, <1>7, <1>8, <1>10, PlainStep, SMTT(30)

LEMMA CacheRuntimeStep ==
    ASSUME AccessInv, NEW c \in Calls, cacheRuntimeConfig(c)
    PROVE  AccessInv' /\ (HttpInFlight' => HttpInFlight)
<1>1. call[c].at = "store" /\ call[c].at # "idle"
  BY Zenon DEF cacheRuntimeConfig
<1>2. /\ call[c] \in CallRecord /\ Shaped(call[c]) /\ "resolved" \in Places
      /\ up /\ (committed => overlapped) /\ overlapped \in BOOLEAN
      /\ ~overlapped => FoundOut(call[c]) /\ CachesCurrent
  BY <1>1, InFlightFacts, Zenon DEF Places
<1>3. call[c].tenant \in Tenants /\ call[c].cfg \in RuntimeConfig
  BY <1>1, <1>2, Zenon DEF Shaped, CallRecord
<1>4. PICK new : new = [call[c] EXCEPT !.at = "resolved"]
  BY Zenon
<1>5. /\ call' = [call EXCEPT ![c] = new]
      /\ runtimeCache' = [runtimeCache EXCEPT ![call[c].tenant] = call[c].cfg]
      /\ UNCHANGED <<up, tables, committed, config, domainTenantCache, overlapped>>
  BY <1>4, Zenon DEF cacheRuntimeConfig, Set
<1>6. /\ new \in CallRecord /\ Carried(new, call[c]) /\ new.at = "resolved"
      /\ new.tenant = call[c].tenant /\ new.cfg = call[c].cfg
  BY <1>2, <1>4, CallMoves
<1>7. Shaped(new) /\ (~overlapped => FoundOut(new))
  BY <1>1, <1>2, <1>3, <1>6, CarriedShape, Zenon DEF FoundOut, Carried
<1>8. /\ runtimeCache' \in [Tenants -> RuntimeConfig \cup {None}]
      /\ domainTenantCache' \in [Hosts -> Tenants \cup {None}]
      /\ \A t \in Tenants :
            runtimeCache'[t] = IF t = call[c].tenant THEN call[c].cfg ELSE runtimeCache[t]
  BY <1>3, <1>5, Zenon DEF AccessInv, AccessTypes
<1>9. ASSUME ~overlapped PROVE CachesCurrent'
  <2>1. Describes(call[c].cfg, call[c].tenant)
    BY <1>1, <1>2, <1>9, Zenon DEF FoundOut
  <2>2. \A t \in Tenants : runtimeCache'[t] # None => Describes(runtimeCache'[t], t)
    BY <1>2, <1>8, <1>9, <2>1, Zenon DEF CachesCurrent
  <2>3. ASSUME NEW t \in Tenants, runtimeCache'[t] # None PROVE Describes(runtimeCache[t], t)'
    <3>1. PICK g : g = runtimeCache'[t]
      BY Zenon
    <3>2. Describes(g, t)'
      BY <1>5, <2>2, <2>3, <3>1, ConfigKept, Zenon
    <3>. QED
      BY <3>1, <3>2, Zenon
  <2>4. ASSUME NEW h \in Hosts, domainTenantCache'[h] # None
        PROVE  OwnerOf(h, domainTenantCache[h])'
    <3>1. PICK t : t = domainTenantCache'[h]
      BY Zenon
    <3>2. OwnerOf(h, t)'
      BY <1>2, <1>5, <1>9, <2>4, <3>1, ConfigKept, Zenon DEF CachesCurrent
    <3>. QED
      BY <3>1, <3>2, Zenon
  <2>. QED
    BY <2>3, <2>4, Zenon DEF CachesCurrent
<1>. QED
  BY <1>2, <1>5, <1>6, <1>7, <1>8, <1>9, CallStep, KindKept, Zenon

LEMMA CacheTenantStep ==
    ASSUME AccessInv, NEW c \in Calls, cacheTenantID(c)
    PROVE  AccessInv' /\ (HttpInFlight' => HttpInFlight)
<1>1. call[c].at = "resolved" /\ call[c].at # "idle"
  BY Zenon DEF cacheTenantID
<1>2. /\ call[c] \in CallRecord /\ Shaped(call[c]) /\ "served" \in Places
      /\ up /\ (committed => overlapped) /\ overlapped \in BOOLEAN
      /\ ~overlapped => FoundOut(call[c]) /\ CachesCurrent
  BY <1>1, InFlightFacts, Zenon DEF Places
<1>3. call[c].tenant \in Tenants /\ (call[c].kind = "host" => call[c].host \in Hosts)
  BY <1>1, <1>2, Zenon DEF Shaped
<1>4. PICK new : new = [call[c] EXCEPT !.at = "served"]
  BY Zenon
<1>5. /\ call' = [call EXCEPT ![c] = new]
      /\ UNCHANGED <<up, tables, committed, config, runtimeCache, overlapped>>
      /\ call[c].kind = "host" =>
            domainTenantCache' = [domainTenantCache EXCEPT ![call[c].host] = call[c].tenant]
      /\ call[c].kind # "host" => domainTenantCache' = domainTenantCache
  BY <1>4, Zenon DEF cacheTenantID, Set
<1>6. /\ new \in CallRecord /\ Carried(new, call[c]) /\ new.at = "served"
      /\ new.tenant = call[c].tenant /\ new.cfg = call[c].cfg
  BY <1>2, <1>4, CallMoves
<1>7. Shaped(new) /\ (~overlapped => FoundOut(new))
  BY <1>1, <1>2, <1>3, <1>6, CarriedShape, Zenon DEF FoundOut, Carried
<1>8. /\ runtimeCache' \in [Tenants -> RuntimeConfig \cup {None}]
      /\ domainTenantCache' \in [Hosts -> Tenants \cup {None}]
      /\ \A h \in Hosts :
            \/ domainTenantCache'[h] = domainTenantCache[h]
            \/ /\ call[c].kind = "host" /\ h = call[c].host
               /\ domainTenantCache'[h] = call[c].tenant
  BY <1>3, <1>5, Zenon DEF AccessInv, AccessTypes
<1>9. ASSUME ~overlapped PROVE CachesCurrent'
  <2>1. call[c].kind = "host" => OwnerOf(call[c].host, call[c].tenant)
    BY <1>1, <1>2, <1>9, Zenon DEF FoundOut
  <2>2. \A h \in Hosts : domainTenantCache'[h] # None => OwnerOf(h, domainTenantCache'[h])
    BY <1>2, <1>8, <1>9, <2>1, Zenon DEF CachesCurrent
  <2>3. ASSUME NEW t \in Tenants, runtimeCache'[t] # None PROVE Describes(runtimeCache[t], t)'
    <3>1. PICK g : g = runtimeCache'[t]
      BY Zenon
    <3>2. Describes(g, t)'
      BY <1>2, <1>5, <1>9, <2>3, <3>1, ConfigKept, Zenon DEF CachesCurrent
    <3>. QED
      BY <3>1, <3>2, Zenon
  <2>4. ASSUME NEW h \in Hosts, domainTenantCache'[h] # None
        PROVE  OwnerOf(h, domainTenantCache[h])'
    <3>1. PICK t : t = domainTenantCache'[h]
      BY Zenon
    <3>2. OwnerOf(h, t)'
      BY <1>5, <2>2, <2>4, <3>1, ConfigKept, Zenon
    <3>. QED
      BY <3>1, <3>2, Zenon
  <2>. QED
    BY <2>3, <2>4, Zenon DEF CachesCurrent
<1>. QED
  BY <1>2, <1>5, <1>6, <1>7, <1>8, <1>9, CallStep, KindKept, Zenon

LEMMA AdvanceStep ==
    ASSUME AccessInv, NEW c \in Calls, Advance(c)
    PROVE  AccessInv' /\ (HttpInFlight' => HttpInFlight)
<1>1. CASE QueryFails(c) \/ Respond(c)
  <2>1. Finish(c) /\ call[c].at # "idle"
    BY <1>1, Zenon DEF QueryFails, Respond
  <2>. QED
    BY <2>1, FinishStep, Zenon
<1>. QED
  BY <1>1, AdminLookupStep, DomainLookupStep, HostLookupStep, CacheLookupStep, LoadTenantStep,
     LoadEmailStep, LoadSMSStep, CacheRuntimeStep, CacheTenantStep, ZenonT(40) DEF Advance

\* The steps that reach tables, caches and calls.
AccessStep ==
    \/ \E cfg \in Seq(TenantSpec) : Start(cfg) \/ Rebootstrap(cfg)
    \/ Stop
    \/ invalidateRegisteredRepositories
    \/ \E c \in Calls : Advance(c)
    \/ \E c \in Calls, u \in Users, t \in Tenants : BeginHttp(c, u, t)
    \/ \E c \in Calls, h \in Hosts : BeginHost(c, h)
    \/ \E c \in Calls, t \in Tenants : BeginGrpc(c, t)
    \/ UNCHANGED vars

LEMMA AccessStepKeeps ==
    ASSUME AccessInv, AccessStep
    PROVE  AccessInv'
<1>1. CASE UNCHANGED vars
  <2>1. /\ UNCHANGED <<up, tables, committed, call, config, overlapped>>
        /\ UNCHANGED <<runtimeCache, domainTenantCache>>
    BY <1>1, Zenon DEF vars, cacheVars
  <2>2. TablesInv' /\ AccessTypes'
    BY <2>1, Zenon DEF AccessInv, TablesInv, AccessTypes
  <2>3. (\A c \in Calls : Shaped(call[c])') /\ (InFlight' <=> InFlight)
    BY <2>1, Zenon DEF AccessInv, Shaped, InFlight
  <2>4. ASSUME ~overlapped, NEW c \in Calls PROVE FoundOut(call[c])'
    <3>1. PICK k : k = call[c] /\ k = call'[c]
      BY <2>1, Zenon
    <3>2. FoundOut(k)'
      BY <2>1, <2>4, <3>1, ConfigKept, Zenon DEF AccessInv
    <3>. QED
      BY <3>1, <3>2, Zenon
  <2>. QED
    BY <2>1, <2>2, <2>3, <2>4, CachesKept, Zenon DEF AccessInv
<1>. QED
  BY <1>1, StartStep, RebootstrapStep, StopStep, InvalidateStep, AdvanceStep, BeginHttpStep,
     BeginHostStep, BeginGrpcStep, ZenonT(40) DEF AccessStep

LEMMA ProcessAccess ==
    ASSUME [ProcessNext]_processVars
    PROVE  AccessStep
<1>1. ASSUME NEW f \in Files, runServer(f) PROVE AccessStep
  <2>1. f.inline \in Seq(TenantSpec) /\ f.outside \in Seq(TenantSpec) \cup {None}
    BY FilesAssumption, Zenon DEF ConfigFile
  <2>2. TenantsToStore(f) \in Seq(TenantSpec)
    BY <2>1, Zenon DEF TenantsToStore
  <2>. QED
    BY <1>1, <2>2, Zenon DEF runServer, Refuse, AccessStep
<1>2. CASE Repository
  BY <1>2, AccessAssumption, Zenon DEF Repository, AccessStep
<1>3. ASSUME NEW c \in Calls, Requested(c) PROVE AccessStep
  BY <1>3, Zenon DEF Requested, AccessStep
<1>4. CASE Exit \/ ExitByServer \/ Kill
  BY <1>4, Zenon DEF Exit, ExitByServer, Kill, ProcessEnds, AccessStep
<1>5. CASE StartSubmission \/ StartForwarding \/ StartWeb \/ Listen \/ serveGRPCFails
  BY <1>5, Zenon
     DEF StartSubmission, StartForwarding, StartWeb, Listen, serveGRPCFails, Continue,
              Return, AccessStep
<1>6. CASE RunDeferred \/ ShutdownReturns
  BY <1>6, Zenon DEF RunDeferred, ShutdownReturns, AccessStep
<1>7. CASE \/ ListenPlain \/ ListenTLS \/ CloseOnCancel \/ Receive \/ Drain
           \/ \E l \in Listeners : ServeEnds(l)
  BY <1>7, Zenon
     DEF ListenPlain, ListenTLS, ServeListeners, CloseOnCancel, Receive, Drain, ServeEnds,
              SubmissionStep, AccessStep
<1>8. CASE \/ ForwardingListens \/ ForwardingCloses \/ ForwardingServeEnds
           \/ ListenAndServe \/ WebServeFails
  BY <1>8, Zenon DEF ForwardingListens, ForwardingCloses, ForwardingServeEnds, ForwardingStep,
              ListenAndServe, WebServeFails, WebStep, AccessStep
<1>9. CASE UNCHANGED processVars
  BY <1>9, Zenon DEF processVars, AccessStep
<1>. QED
  BY <1>1, <1>2, <1>3, <1>4, <1>5, <1>6, <1>7, <1>8, <1>9, ZenonT(40) DEF ProcessNext, MainStep

LEMMA AccessInvariant == ProcessSpec => []AccessInv
<1>1. ProcessInit => AccessInv
  BY InitAccess, Zenon DEF ProcessInit
<1>2. AccessInv /\ [ProcessNext]_processVars => AccessInv'
  BY ProcessAccess, AccessStepKeeps, Zenon
<1>. QED
  BY <1>1, <1>2, PTL DEF ProcessSpec

\* Whatever configurations a process was started and bootstrapped again with,
\* and whichever of them were refused on the way, the tables hold what the last
\* stored one says and nothing else (Bootstrap, removeStaleTenants, upsertTenant).
THEOREM TablesAlwaysConfigured == ProcessSpec => []TablesAreConfigured
<1>1. AccessInv => TablesAreConfigured
  BY ConfiguredByInv, Zenon DEF AccessInv
<1>. QED
  BY <1>1, AccessInvariant, PTL

\* Unless a call has run across the last bootstrap, whatever the repository
\* has cached is what the stored configuration says (clearCaches, runtimeConfig,
\* ResolveByHost).
THEOREM CacheAlwaysCurrent == ProcessSpec => []CacheIsCurrent
<1>1. AccessInv => CacheIsCurrent
  BY Zenon DEF AccessInv, CachesCurrent, CacheIsCurrent
<1>. QED
  BY <1>1, AccessInvariant, PTL

\* Unless it has run across a bootstrap, a call that is served is served with
\* the settings of its tenant, for a session that may work on that tenant or a
\* host that leads to it (authorizeNotificationTenant, ResolveByHost).
THEOREM ServedAlwaysEntitled == ProcessSpec => []ServedIsEntitled
<1>1. AccessInv => ServedIsEntitled
  BY Zenon DEF AccessInv, FoundOut, Entitled, ServedIsEntitled
<1>. QED
  BY <1>1, AccessInvariant, PTL

-----------------------------------------------------------------------------
(* The submission server *)

SubmissionRecord ==
    [at : {"off", "plain", "tls", "serving", "draining", "returned", "failed"},
     open : SUBSET Listeners, accepting : SUBSET Listeners,
     errChan : Seq({"nil", "error", "closed"}), completed : Nat]

\* While results are awaited, each listener is accepting, has a result in the
\* channel, or has been counted.
SubmissionInv ==
    /\ submission \in SubmissionRecord
    /\ submission.at \in {"off", "plain", "tls"} =>
        /\ submission.accepting = {} /\ submission.errChan = <<>> /\ submission.completed = 0
    /\ submission.at \in {"off", "plain", "draining", "failed"} => submission.open = {}
    /\ submission.at \in {"returned", "failed"} =>
        submission.accepting = {} /\ submission.errChan = <<>>
    /\ submission.at \in {"serving", "draining"} =>
        submission.completed + Len(submission.errChan) + Cardinality(submission.accepting)
            = Cardinality(Addresses)
    /\ stage = "down" => submission.at = "off"

LEMMA AddressesFinite ==
    /\ Listeners = {"submission.listenAddr", "submission.tlsListenAddr"}
    /\ Addresses \subseteq Listeners
    /\ \A S \in SUBSET Listeners : IsFiniteSet(S) /\ Cardinality(S) \in Nat
    /\ Cardinality(Addresses) \in Nat
<1>1. IsFiniteSet(Listeners)
  <2>1. IsFiniteSet({"submission.listenAddr"})
    BY FS_Singleton, Zenon
  <2>2. IsFiniteSet({"submission.listenAddr"} \cup {"submission.tlsListenAddr"})
    BY Zenon, <2>1, FS_AddElement
  <2>3. Listeners = {"submission.listenAddr"} \cup {"submission.tlsListenAddr"}
    BY Zenon DEF Listeners
  <2>. QED
    BY Zenon, <2>2, <2>3
<1>2. \A S \in SUBSET Listeners : IsFiniteSet(S) /\ Cardinality(S) \in Nat
  BY <1>1, FS_Subset, FS_CardinalityType, Zenon
<1>. QED
  BY <1>2, Zenon DEF Listeners, Addresses

LEMMA SubmissionKept ==
    ASSUME SubmissionInv, UNCHANGED <<submission, file>>, stage' = "down" => stage = "down"
    PROVE  SubmissionInv'
  BY Zenon DEF SubmissionInv, Addresses

\* A step of the goroutine.
LEMMA SubmissionMoves ==
    ASSUME SubmissionInv, NEW new, SubmissionStep(new), new \in SubmissionRecord,
           submission.at # "off",
           new.at \in {"off", "plain", "tls"} =>
               new.accepting = {} /\ new.errChan = <<>> /\ new.completed = 0,
           new.at \in {"off", "plain", "draining", "failed"} => new.open = {},
           new.at \in {"returned", "failed"} => new.accepting = {} /\ new.errChan = <<>>,
           new.at \in {"serving", "draining"} =>
               new.completed + Len(new.errChan) + Cardinality(new.accepting)
                   = Cardinality(Addresses)
    PROVE  SubmissionInv'
<1>1. submission' = new /\ stage' = stage /\ file' = file
  BY Zenon DEF SubmissionStep, mainVars
<1>2. stage # "down"
  BY Zenon DEF SubmissionInv
<1>. QED
  BY <1>1, <1>2, Zenon DEF SubmissionInv, Addresses

LEMMA SubmissionStarts ==
    SubmissionOff \in SubmissionRecord /\ [SubmissionOff EXCEPT !.at = "plain"] \in SubmissionRecord
<1>1. SubmissionOff \in SubmissionRecord
  BY DEF SubmissionOff, SubmissionRecord
<1>2. \A s \in SubmissionRecord : [s EXCEPT !.at = "plain"] \in SubmissionRecord
  BY Zenon DEF SubmissionRecord
<1>. QED
  BY Zenon, <1>1, <1>2

LEMMA ListenPlainStep ==
    ASSUME SubmissionInv, ListenPlain
    PROVE  SubmissionInv'
<1>1. submission.at = "plain" /\ submission \in SubmissionRecord
  BY Zenon DEF ListenPlain, SubmissionInv
<1>2. /\ submission.accepting = {} /\ submission.errChan = <<>> /\ submission.completed = 0
      /\ submission.open = {}
  BY <1>1, Zenon DEF SubmissionInv
<1>3. PICK new :
        /\ SubmissionStep(new)
        /\ \/ new = [submission EXCEPT !.at = "tls"]
           \/ new = [submission EXCEPT !.at = "tls", !.open = {"submission.listenAddr"}]
           \/ new = [submission EXCEPT !.at = "failed"]
  BY Zenon DEF ListenPlain
<1>4. /\ new \in SubmissionRecord /\ new.at \in {"tls", "failed"}
      /\ new.accepting = {} /\ new.errChan = <<>> /\ new.completed = 0
      /\ new.at = "failed" => new.open = {}
  <2>1. CASE new = [submission EXCEPT !.at = "tls"]
    BY <1>1, <1>2, <2>1, Zenon DEF SubmissionRecord
  <2>2. CASE new = [submission EXCEPT !.at = "tls", !.open = {"submission.listenAddr"}]
    <3>1. PICK o \in SUBSET Listeners : o = {"submission.listenAddr"}
      BY AddressesFinite, Zenon
    <3>2. new = [submission EXCEPT !.at = "tls", !.open = o]
      BY <2>2, <3>1, Zenon
    <3>. QED
      BY <1>1, <1>2, <3>2, Zenon DEF SubmissionRecord
  <2>3. CASE new = [submission EXCEPT !.at = "failed"]
    BY <1>1, <1>2, <2>3, Zenon DEF SubmissionRecord
  <2>. QED
    BY <1>3, <2>1, <2>2, <2>3, Zenon
<1>. QED
  BY <1>1, <1>3, <1>4, SubmissionMoves, Zenon

LEMMA ListenTLSStep ==
    ASSUME SubmissionInv, ListenTLS
    PROVE  SubmissionInv'
<1>1. submission.at = "tls" /\ submission \in SubmissionRecord
  BY Zenon DEF ListenTLS, SubmissionInv
<1>2. submission.accepting = {} /\ submission.errChan = <<>> /\ submission.completed = 0
  BY <1>1, Zenon DEF SubmissionInv
<1>3. CASE ServeListeners
  <2>1. PICK new :
          /\ SubmissionStep(new)
          /\ new = [submission EXCEPT !.at = "serving", !.open = Addresses,
                                      !.accepting = Addresses]
    BY <1>3, Zenon DEF ServeListeners
  <2>2. /\ new \in SubmissionRecord /\ new.at = "serving" /\ new.accepting = Addresses
        /\ new.errChan = <<>> /\ new.completed = 0
    BY <1>1, <1>2, <2>1, AddressesFinite, Zenon DEF SubmissionRecord
  <2>3. new.completed + Len(new.errChan) + Cardinality(new.accepting) = Cardinality(Addresses)
    BY <2>2, AddressesFinite
  <2>. QED
    BY <1>1, <2>1, <2>2, <2>3, SubmissionMoves, Zenon
<1>4. CASE SubmissionStep([submission EXCEPT !.at = "failed", !.open = {}])
  <2>1. PICK new : SubmissionStep(new) /\ new = [submission EXCEPT !.at = "failed", !.open = {}]
    BY <1>4, Zenon
  <2>2. /\ new \in SubmissionRecord /\ new.at = "failed" /\ new.accepting = {}
        /\ new.errChan = <<>> /\ new.open = {}
    BY <1>1, <1>2, <2>1, Zenon DEF SubmissionRecord
  <2>. QED
    BY <1>1, <2>1, <2>2, SubmissionMoves, Zenon
<1>. QED
  BY <1>3, <1>4, Zenon DEF ListenTLS

LEMMA ServeEndsStep ==
    ASSUME SubmissionInv, NEW l \in Listeners, ServeEnds(l)
    PROVE  SubmissionInv'
<1>1. /\ l \in submission.accepting /\ submission \in SubmissionRecord
      /\ submission.at \in {"serving", "draining"}
  BY Zenon DEF ServeEnds, SubmissionInv, SubmissionRecord
<1>2. PICK r \in {"nil", "error", "closed"} :
        SubmissionStep([submission EXCEPT !.accepting = @ \ {l}, !.errChan = Append(@, r)])
  BY Zenon DEF ServeEnds
<1>3. PICK q \in Seq({"nil", "error", "closed"}), S \in SUBSET Listeners, n \in Nat :
        q = submission.errChan /\ S = submission.accepting /\ n = submission.completed
  BY <1>1, Zenon DEF SubmissionRecord
<1>4. Append(q, r) \in Seq({"nil", "error", "closed"}) /\ Len(Append(q, r)) = Len(q) + 1
  OBVIOUS
<1>5. PICK new :
        /\ SubmissionStep(new)
        /\ new = [submission EXCEPT !.accepting = S \ {l}, !.errChan = Append(q, r)]
  BY <1>1, <1>2, <1>3, Zenon DEF SubmissionRecord
<1>6. /\ new \in SubmissionRecord /\ new.at = submission.at /\ new.open = submission.open
      /\ new.accepting = S \ {l} /\ new.errChan = Append(q, r) /\ new.completed = n
  BY <1>1, <1>3, <1>4, <1>5, Zenon DEF SubmissionRecord
<1>7. Cardinality(S \ {l}) = Cardinality(S) - 1 /\ Cardinality(S) \in Nat
  BY <1>1, <1>3, AddressesFinite, FS_RemoveElement, SMTT(30)
<1>8. n + Len(q) + Cardinality(S) = Cardinality(Addresses) /\ Len(q) \in Nat
  BY <1>1, <1>3 DEF SubmissionInv
<1>9. n + Len(Append(q, r)) + Cardinality(S \ {l}) = Cardinality(Addresses)
  BY <1>4, <1>7, <1>8
<1>10. new.at = "draining" => new.open = {}
  BY <1>6, Zenon DEF SubmissionInv
<1>. QED
  BY <1>1, <1>5, <1>6, <1>9, <1>10, SubmissionMoves, Zenon

LEMMA CloseOnCancelStep ==
    ASSUME SubmissionInv, CloseOnCancel
    PROVE  SubmissionInv'
<1>1. submission \in SubmissionRecord /\ submission.at \in {"serving", "draining"}
  BY Zenon DEF CloseOnCancel, SubmissionInv
<1>2. PICK new : SubmissionStep(new) /\ new = [submission EXCEPT !.open = {}]
  BY Zenon DEF CloseOnCancel
<1>3. /\ new \in SubmissionRecord /\ new.at = submission.at /\ new.open = {}
      /\ new.accepting = submission.accepting /\ new.errChan = submission.errChan
      /\ new.completed = submission.completed
  BY <1>1, <1>2, Zenon DEF SubmissionRecord
<1>4. new.completed + Len(new.errChan) + Cardinality(new.accepting) = Cardinality(Addresses)
  BY <1>1, <1>3, Zenon DEF SubmissionInv
<1>. QED
  BY <1>1, <1>2, <1>3, <1>4, SubmissionMoves, Zenon

\* A result is read: the last one leaves no loop running and no result behind.
LEMMA ResultRead ==
    ASSUME SubmissionInv, submission.at \in {"serving", "draining"}, submission.errChan # <<>>
    PROVE  /\ Received \in SubmissionRecord
           /\ Received.open = submission.open /\ Received.accepting = submission.accepting
           /\ Completed => Received.accepting = {} /\ Received.errChan = <<>>
           /\ Received.completed + Len(Received.errChan) + Cardinality(Received.accepting)
                = Cardinality(Addresses)
<1>1. submission \in SubmissionRecord
  BY Zenon DEF SubmissionInv
<1>2. PICK q \in Seq({"nil", "error", "closed"}), n \in Nat :
        q = submission.errChan /\ n = submission.completed /\ q # <<>>
  BY <1>1, Zenon DEF SubmissionRecord
<1>3. /\ Received \in SubmissionRecord
      /\ Received.open = submission.open /\ Received.accepting = submission.accepting
      /\ Received.errChan = Tail(q) /\ Received.completed = n + 1
  <2>1. Tail(q) \in Seq({"nil", "error", "closed"}) /\ n + 1 \in Nat
    BY <1>2
  <2>2. Received = [submission EXCEPT !.errChan = Tail(q), !.completed = n + 1]
    BY <1>1, <1>2, Zenon DEF SubmissionRecord, Received
  <2>. QED
    BY <1>1, <2>1, <2>2, Zenon DEF SubmissionRecord
<1>4. /\ Len(q) \in Nat /\ Len(q) >= 1 /\ Len(Tail(q)) = Len(q) - 1
      /\ Tail(q) \in Seq({"nil", "error", "closed"})
  BY <1>2
<1>5. PICK a \in Nat : a = Cardinality(submission.accepting)
  BY <1>1, AddressesFinite, Zenon DEF SubmissionRecord
<1>6. n + Len(q) + a = Cardinality(Addresses)
  BY <1>2, <1>5, Zenon DEF SubmissionInv
<1>7. ASSUME Completed PROVE Received.accepting = {} /\ Received.errChan = <<>>
  <2>1. n + 1 = Cardinality(Addresses)
    BY <1>2, <1>7, Zenon DEF Completed
  <2>2. a = 0 /\ Len(Tail(q)) = 0
    <3>1. \A x, y, z \in Nat : x + y + z = x + 1 /\ y >= 1 => z = 0 /\ y = 1
      OBVIOUS
    <3>2. a = 0 /\ Len(q) = 1
      BY Zenon, <1>2, <1>4, <1>5, <1>6, <2>1, <3>1
    <3>. QED
      BY <1>4, <3>2
  <2>3. submission.accepting = {}
    BY <1>1, <1>5, <2>2, AddressesFinite, FS_EmptySet, Zenon DEF SubmissionRecord
  <2>4. Tail(q) = <<>>
    <3>1. \A t \in Seq({"nil", "error", "closed"}) : Len(t) = 0 => t = <<>>
      OBVIOUS
    <3>. QED
      BY Zenon, <1>4, <2>2, <3>1
  <2>. QED
    BY <1>3, <2>3, <2>4, Zenon
<1>8. (n + 1) + Len(Tail(q)) + a = Cardinality(Addresses)
  BY <1>4, <1>6, AddressesFinite
<1>. QED
  BY <1>3, <1>5, <1>7, <1>8, Zenon

LEMMA ReceiveStep ==
    ASSUME SubmissionInv, Receive
    PROVE  SubmissionInv'
<1>1. submission.at = "serving" /\ submission.errChan # <<>>
  BY Zenon DEF Receive
<1>. DEFINE got == Received
<1>2. /\ got \in SubmissionRecord
      /\ Completed => got.accepting = {} /\ got.errChan = <<>>
      /\ got.completed + Len(got.errChan) + Cardinality(got.accepting) = Cardinality(Addresses)
  BY <1>1, ResultRead, Zenon
<1>3. PICK new, at :
        /\ SubmissionStep(new)
        /\ \/ new = [got EXCEPT !.at = at, !.open = {}] /\ at \in {"failed", "draining"}
           \/ new = [got EXCEPT !.at = at] /\ at \in {"returned", "serving"}
        /\ at \in {"failed", "returned"} <=> Completed
  <2>1. CASE Head(submission.errChan) = "error"
    <3>. DEFINE at == IF Completed THEN "failed" ELSE "draining"
    <3>1. SubmissionStep([got EXCEPT !.at = at, !.open = {}])
      BY Zenon, <2>1 DEF Receive
    <3>2. at \in {"failed", "draining"} /\ (at = "failed" <=> Completed)
      BY Zenon
    <3>. QED
      BY <3>1, <3>2, Zenon
  <2>2. CASE Head(submission.errChan) # "error"
    <3>. DEFINE at == IF Completed THEN "returned" ELSE "serving"
    <3>1. SubmissionStep([got EXCEPT !.at = at])
      BY Zenon, <2>2 DEF Receive
    <3>2. at \in {"returned", "serving"} /\ (at = "returned" <=> Completed)
      BY Zenon
    <3>. QED
      BY <3>1, <3>2, Zenon
  <2>. QED
    BY <2>1, <2>2, Zenon
<1>. HIDE DEF got
<1>4. /\ new \in SubmissionRecord /\ new.at = at
      /\ at \in {"failed", "draining", "returned", "serving"}
      /\ at \in {"failed", "draining"} => new.open = {}
      /\ new.accepting = got.accepting /\ new.errChan = got.errChan
      /\ new.completed = got.completed
  BY <1>2, <1>3, Zenon DEF SubmissionRecord
<1>. QED
  BY <1>1, <1>2, <1>3, <1>4, SubmissionMoves, Zenon

LEMMA DrainStep ==
    ASSUME SubmissionInv, Drain
    PROVE  SubmissionInv'
<1>1. submission.at = "draining" /\ submission.errChan # <<>> /\ submission.open = {}
  BY Zenon DEF Drain, SubmissionInv
<1>. DEFINE got == Received
<1>2. /\ got \in SubmissionRecord /\ got.open = {}
      /\ Completed => got.accepting = {} /\ got.errChan = <<>>
      /\ got.completed + Len(got.errChan) + Cardinality(got.accepting) = Cardinality(Addresses)
  BY <1>1, ResultRead, Zenon
<1>3. PICK new, at :
        /\ SubmissionStep(new)
        /\ new = [got EXCEPT !.at = at] /\ at \in {"failed", "draining"}
        /\ at = "failed" <=> Completed
  BY Zenon DEF Drain
<1>. HIDE DEF got
<1>4. /\ new \in SubmissionRecord /\ new.at = at /\ new.open = {}
      /\ new.accepting = got.accepting /\ new.errChan = got.errChan
      /\ new.completed = got.completed
  BY <1>2, <1>3, Zenon DEF SubmissionRecord
<1>. QED
  BY <1>1, <1>2, <1>3, <1>4, SubmissionMoves, Zenon

LEMMA SubmissionStepKeeps ==
    ASSUME SubmissionInv, [ProcessNext]_processVars
    PROVE  SubmissionInv'
<1>1. ASSUME NEW f \in Files, runServer(f) PROVE SubmissionInv'
  <2>1. submission' = submission /\ submission.at = "off"
    BY <1>1, Zenon DEF runServer, serverVars, SubmissionInv
  <2>. QED
    BY <2>1, Zenon DEF SubmissionInv
<1>2. CASE StartSubmission
  <2>1. CASE UNCHANGED submission
    <3>1. UNCHANGED file /\ stage' # "down"
      BY <1>2, Zenon DEF StartSubmission, Continue, Return
    <3>. QED
      BY <2>1, <3>1, SubmissionKept, Zenon
  <2>2. CASE submission' = [SubmissionOff EXCEPT !.at = "plain"]
    <3>1. stage' # "down"
      BY <1>2, Zenon DEF StartSubmission, Continue, Return
    <3>2. /\ submission' \in SubmissionRecord /\ submission'.at = "plain"
          /\ submission'.open = {} /\ submission'.accepting = {}
          /\ submission'.errChan = <<>> /\ submission'.completed = 0
      BY <2>2, SubmissionStarts, Zenon DEF SubmissionOff
    <3>. QED
      BY <3>1, <3>2, Zenon DEF SubmissionInv
  <2>. QED
    BY <1>2, <2>1, <2>2, Zenon DEF StartSubmission
<1>3. CASE Exit \/ ExitByServer \/ Kill
  <2>1. submission' = SubmissionOff
    BY <1>3, Zenon DEF Exit, ExitByServer, Kill, ProcessEnds, NoServers
  <2>2. /\ submission' \in SubmissionRecord /\ submission'.at = "off"
        /\ submission'.open = {} /\ submission'.accepting = {}
        /\ submission'.errChan = <<>> /\ submission'.completed = 0
    BY <2>1, SubmissionStarts, Zenon DEF SubmissionOff
  <2>. QED
    BY <2>2, Zenon DEF SubmissionInv
<1>4. CASE StartForwarding \/ StartWeb \/ Listen \/ serveGRPCFails
  <2>1. UNCHANGED <<submission, file>> /\ stage' # "down"
    BY <1>4, Zenon
       DEF StartForwarding, StartWeb, Listen, serveGRPCFails, Continue, Return, serverVars
  <2>. QED
    BY <2>1, SubmissionKept, Zenon
<1>5. CASE RunDeferred \/ ShutdownReturns
  <2>1. UNCHANGED <<submission, file>> /\ (stage' = "down" => stage = "down")
    BY <1>5, Zenon DEF RunDeferred, ShutdownReturns, serverVars
  <2>. QED
    BY <2>1, SubmissionKept, Zenon
<1>6. CASE \/ ForwardingListens \/ ForwardingCloses \/ ForwardingServeEnds
           \/ ListenAndServe \/ WebServeFails
  <2>1. UNCHANGED <<submission, file, stage>>
    BY <1>6, Zenon DEF ForwardingListens, ForwardingCloses, ForwardingServeEnds, ForwardingStep,
                ListenAndServe, WebServeFails, WebStep, mainVars
  <2>. QED
    BY <2>1, SubmissionKept, Zenon
<1>7. CASE Repository \/ (\E c \in Calls : Requested(c)) \/ UNCHANGED processVars
  <2>1. UNCHANGED <<submission, file, stage>>
    BY <1>7, Zenon DEF Repository, Requested, processVars, mainVars, serverVars
  <2>. QED
    BY <2>1, SubmissionKept, Zenon
<1>. QED
  BY <1>1, <1>2, <1>3, <1>4, <1>5, <1>6, <1>7, ListenPlainStep, ListenTLSStep, ServeEndsStep,
     CloseOnCancelStep, ReceiveStep, DrainStep, SMTT(30) DEF ProcessNext, MainStep

\* Whichever listeners the file asks for and whichever of them fails, in
\* whichever order, Start returns with no accept loop running and no result
\* unread, and after an error with every listener closed (serveListeners).
THEOREM SubmissionAlwaysStopsWhole == ProcessSpec => []SubmissionStopsWhole
<1>1. ProcessInit => SubmissionInv
  BY SubmissionStarts DEF ProcessInit, SubmissionOff, SubmissionInv
<1>2. SubmissionInv /\ [ProcessNext]_processVars => SubmissionInv'
  BY SubmissionStepKeeps, Zenon
<1>3. SubmissionInv => SubmissionStopsWhole
  BY Zenon DEF SubmissionInv, SubmissionStopsWhole
<1>. QED
  BY <1>1, <1>2, <1>3, PTL DEF ProcessSpec

-----------------------------------------------------------------------------
(* The deferred calls *)

Running == {"submission", "forwarding", "web", "listen", "serving"}

Cleanups == {"worker", "submission", "forwarding", "web"}

\* The HTTP server is shut down before anything else.
WebDeferred == deferred # <<>> /\ NextDeferred = "web" /\ cancelled = {}

ReturnInv ==
    /\ web \in {"off", "starting", "serving", "closed", "failed"}
    /\ stage \in Running => deferred \in Seq(Cleanups) /\ cancelled = {}
    /\ stage = "down" => ~up
    /\ stage \in {"down", "submission", "forwarding", "web"} => web = "off" /\ ~HttpInFlight
    /\ stage = "shutdown" => web \notin {"starting", "serving"}
    /\ web \in {"starting", "serving"} \/ (HttpInFlight /\ ~expired) => WebDeferred

LEMMA GrpcKind ==
    ASSUME AccessInv, NEW c \in Calls, NEW t \in Tenants, BeginGrpc(c, t)
    PROVE  HttpInFlight' => HttpInFlight
<1>1. call \in [Calls -> CallRecord]
  BY Zenon DEF AccessInv, AccessTypes
<1>2. PICK new : /\ new = [Idle EXCEPT !.kind = "grpc", !.at = "resolve", !.tenant = t]
                 /\ call' = [call EXCEPT ![c] = new]
  BY Zenon DEF BeginGrpc, Begin, Set
<1>3. new.kind = "grpc"
  BY <1>2, IdleFields, Zenon DEF CallRecord
<1>. QED
  BY <1>1, <1>2, <1>3, Zenon DEF HttpInFlight

\* Steps that leave runServer where it is.
LEMMA ReturnKept ==
    ASSUME ReturnInv, UNCHANGED <<stage, deferred, cancelled, expired>>,
           up' => up,
           web' = web \/ (web \in {"starting", "serving"} /\ web' \in {"serving", "failed"}),
           HttpInFlight' => HttpInFlight \/ web = "serving"
    PROVE  ReturnInv'
<1>1. NextDeferred' = NextDeferred
  BY Zenon DEF NextDeferred
<1>2. web' \in {"starting", "serving"} => web \in {"starting", "serving"}
  BY Zenon
<1>. QED
  BY <1>1, <1>2, Zenon DEF ReturnInv, Running, WebDeferred

\* runServer goes on before the HTTP server is started,
LEMMA EarlyStep ==
    ASSUME stage' \notin {"down", "shutdown"}, deferred' \in Seq(Cleanups), cancelled' = {},
           web' = "off", ~HttpInFlight'
    PROVE  ReturnInv'
  BY Zenon DEF ReturnInv

\* and afterwards.
LEMMA LateStep ==
    ASSUME ReturnInv, stage \in {"listen", "serving"}, stage' \in {"serving", "returning"},
           UNCHANGED <<deferred, cancelled, expired, web, call>>
    PROVE  ReturnInv'
<1>1. NextDeferred' = NextDeferred /\ (HttpInFlight' <=> HttpInFlight)
  BY Zenon DEF NextDeferred, HttpInFlight
<1>2. deferred \in Seq(Cleanups) /\ cancelled = {}
  BY Zenon DEF ReturnInv, Running
<1>. QED
  BY <1>1, <1>2, Zenon DEF ReturnInv, WebDeferred

LEMMA StartsReturn ==
    ASSUME ReturnInv, StartSubmission \/ StartForwarding
    PROVE  ReturnInv'
<1>1. /\ stage \in {"submission", "forwarding"} /\ web = "off" /\ ~HttpInFlight
      /\ deferred \in Seq(Cleanups) /\ cancelled = {}
  BY Zenon DEF StartSubmission, StartForwarding, ReturnInv, Running
<1>2. UNCHANGED <<web, call, cancelled>> /\ stage' \in {"forwarding", "web", "returning"}
  BY Zenon DEF StartSubmission, StartForwarding, Continue, Return, vars
<1>3. <<"submission">> \in Seq(Cleanups) /\ <<"forwarding">> \in Seq(Cleanups)
  BY DEF Cleanups
<1>4. \/ deferred' = deferred \/ deferred' = deferred \o <<>>
      \/ deferred' = deferred \o <<"submission">> \/ deferred' = deferred \o <<"forwarding">>
  BY Zenon DEF StartSubmission, StartForwarding, Continue, Return
<1>5. deferred' \in Seq(Cleanups)
  BY <1>1, <1>3, <1>4, SMTT(30)
<1>6. ~HttpInFlight'
  BY <1>1, <1>2, Zenon DEF HttpInFlight
<1>. QED
  BY <1>1, <1>2, <1>5, <1>6, EarlyStep, Zenon

LEMMA StartWebReturn ==
    ASSUME ReturnInv, StartWeb
    PROVE  ReturnInv'
<1>1. /\ stage = "web" /\ web = "off" /\ ~HttpInFlight
      /\ deferred \in Seq(Cleanups) /\ cancelled = {}
  BY Zenon DEF StartWeb, ReturnInv, Running
<1>2. UNCHANGED <<call, cancelled>> /\ stage' \in {"listen", "returning"}
  BY Zenon DEF StartWeb, Continue, Return, vars
<1>3. ~HttpInFlight'
  BY <1>1, <1>2, Zenon DEF HttpInFlight
<1>4. CASE UNCHANGED web
  <2>1. deferred \o <<>> = deferred
    BY <1>1
  <2>2. deferred' = deferred
    BY <1>1, <1>4, <2>1, Zenon DEF StartWeb, Continue, Return
  <2>. QED
    BY <1>1, <1>2, <1>3, <1>4, <2>2, EarlyStep, Zenon
<1>5. CASE web' = "starting" /\ Continue("listen", <<"web">>)
  <2>1. deferred' = Append(deferred, "web") /\ "web" \in Cleanups
    BY <1>1, <1>5 DEF Continue, Cleanups
  <2>2. /\ deferred' \in Seq(Cleanups) /\ deferred' # <<>>
        /\ deferred'[Len(deferred')] = "web"
    BY <1>1, <2>1
  <2>3. WebDeferred'
    BY <1>1, <1>2, <2>2, Zenon DEF WebDeferred, NextDeferred
  <2>4. stage' = "listen"
    BY <1>5, Zenon DEF Continue
  <2>. QED
    BY <1>1, <1>2, <1>3, <1>5, <2>2, <2>3, <2>4, SMTT(30) DEF ReturnInv
<1>. QED
  BY <1>4, <1>5, Zenon DEF StartWeb

LEMMA RunDeferredReturn ==
    ASSUME ReturnInv, RunDeferred
    PROVE  ReturnInv'
<1>1. /\ stage = "returning" /\ UNCHANGED <<expired, call>>
      /\ stage' \in {"returning", "shutdown"}
  BY Zenon DEF RunDeferred, vars
<1>2. HttpInFlight' <=> HttpInFlight
  BY <1>1, Zenon DEF HttpInFlight
<1>3. CASE NextDeferred # "web"
  <2>1. UNCHANGED <<web, stage>>
    BY <1>3, Zenon DEF RunDeferred
  <2>2. ~(web \in {"starting", "serving"} \/ (HttpInFlight /\ ~expired))
    BY <1>3, Zenon DEF ReturnInv, WebDeferred
  <2>. QED
    BY <1>1, <1>2, <2>1, <2>2, Zenon DEF ReturnInv, Running
<1>4. CASE NextDeferred = "web"
  <2>1. UNCHANGED <<cancelled, deferred>> /\ stage' = "shutdown" /\ web' \in {"failed", "closed"}
    BY <1>4, Zenon DEF RunDeferred
  <2>2. WebDeferred => WebDeferred'
    BY <2>1, Zenon DEF WebDeferred, NextDeferred
  <2>. QED
    BY <1>1, <1>2, <2>1, <2>2, Zenon DEF ReturnInv, Running
<1>. QED
  BY <1>3, <1>4, Zenon

LEMMA ShutdownReturn ==
    ASSUME ReturnInv, ShutdownReturns
    PROVE  ReturnInv'
<1>1. /\ stage = "shutdown" /\ stage' = "returning" /\ UNCHANGED <<web, call>>
      /\ expired' = HttpInFlight
  BY Zenon DEF ShutdownReturns, serverVars, vars
<1>2. HttpInFlight' <=> HttpInFlight
  BY <1>1, Zenon DEF HttpInFlight
<1>3. web \notin {"starting", "serving"}
  BY <1>1, Zenon DEF ReturnInv
<1>. QED
  BY <1>1, <1>2, <1>3, Zenon DEF ReturnInv, Running

LEMMA EndReturn ==
    ASSUME ProcessEnds
    PROVE  ReturnInv'
<1>1. web' = "off" /\ up' = FALSE /\ stage' = "down" /\ call' = [c \in Calls |-> Idle]
  BY Zenon DEF ProcessEnds, NoServers, Stop
<1>2. Idle.kind = "idle"
  BY Zenon DEF Idle
<1>3. ~HttpInFlight'
  BY <1>1, <1>2, Zenon DEF HttpInFlight
<1>. QED
  BY <1>1, <1>3, Zenon DEF ReturnInv, Running

LEMMA RunServerReturn ==
    ASSUME ReturnInv, NEW f \in Files, runServer(f)
    PROVE  ReturnInv'
<1>1. stage = "down" /\ web = "off" /\ ~HttpInFlight /\ ~up
  BY Zenon DEF runServer, ReturnInv
<1>2. UNCHANGED <<web, call>> /\ cancelled' = {}
  BY Zenon DEF runServer, Refuse, Start, serverVars, vars
<1>3. ~HttpInFlight'
  BY <1>1, <1>2, Zenon DEF HttpInFlight
<1>4. CASE stage' = "down" /\ ~up'
  BY <1>1, <1>2, <1>3, <1>4, Zenon DEF ReturnInv, Running
<1>5. CASE stage' = "submission" /\ deferred' = <<"worker">>
  <2>1. deferred' \in Seq(Cleanups)
    BY <1>5 DEF Cleanups
  <2>. QED
    BY <1>1, <1>2, <1>3, <1>5, <2>1, EarlyStep, SMTT(30)
<1>6. \/ stage' = "down" /\ ~up'
      \/ stage' = "submission" /\ deferred' = <<"worker">>
  BY <1>1, Zenon DEF runServer, Refuse, vars
<1>. QED
  BY <1>4, <1>5, <1>6, Zenon

LEMMA ReturnStepKeeps ==
    ASSUME AccessInv, ReturnInv, [ProcessNext]_processVars
    PROVE  ReturnInv'
<1>1. CASE Repository
  <2>1. UNCHANGED <<stage, deferred, cancelled, expired, web>>
    BY <1>1, Zenon DEF Repository, mainVars, serverVars
  <2>2. CASE \E c \in Calls : Advance(c)
    <3>1. PICK c \in Calls : Advance(c)
      BY <2>2, Zenon
    <3>2. up' = up
      BY <3>1, Zenon DEF Advance, AdminLookup, DomainLookup, HostLookup, CacheLookup, LoadTenant,
                  LoadEmailProfile, LoadSMSProfile, cacheRuntimeConfig, cacheTenantID,
                  QueryFails, Respond, Finish, Step, Set
    <3>3. HttpInFlight' => HttpInFlight
      BY <3>1, AdvanceStep, Zenon
    <3>. QED
      BY <2>1, <3>2, <3>3, ReturnKept, Zenon
  <2>3. CASE invalidateRegisteredRepositories \/ \E cfg \in Configs : Rebootstrap(cfg)
    <3>1. UNCHANGED <<up, call>>
      BY <2>3, Zenon DEF invalidateRegisteredRepositories, Rebootstrap
    <3>2. HttpInFlight' => HttpInFlight
      BY <3>1, Zenon DEF HttpInFlight
    <3>. QED
      BY <2>1, <3>1, <3>2, ReturnKept, Zenon
  <2>. QED
    BY <1>1, <2>2, <2>3, Zenon DEF Repository
<1>2. ASSUME NEW c \in Calls, Requested(c) PROVE ReturnInv'
  <2>1. UNCHANGED <<stage, deferred, cancelled, expired, web>>
    BY <1>2, Zenon DEF Requested, mainVars, serverVars
  <2>2. up /\ up' = up
    BY <1>2, Zenon DEF Requested, BeginHttp, BeginHost, BeginGrpc, Begin, Set
  <2>3. HttpInFlight' => HttpInFlight \/ web = "serving"
    BY <1>2, GrpcKind, Zenon DEF Requested
  <2>. QED
    BY <2>1, <2>2, <2>3, ReturnKept, Zenon
<1>3. CASE Listen \/ serveGRPCFails
  <2>1. /\ stage \in {"listen", "serving"} /\ stage' \in {"serving", "returning"}
        /\ UNCHANGED <<cancelled, expired, web, call>>
    BY <1>3, Zenon DEF Listen, serveGRPCFails, Continue, Return, serverVars, vars
  <2>2. deferred \in Seq(Cleanups)
    BY <2>1, Zenon DEF ReturnInv, Running
  <2>3. deferred \o <<>> = deferred
    BY <2>2
  <2>4. deferred' = deferred
    BY <1>3, <2>3, Zenon DEF Listen, serveGRPCFails, Continue, Return
  <2>. QED
    BY <2>1, <2>4, LateStep, Zenon
<1>4. CASE \/ ListenPlain \/ ListenTLS \/ CloseOnCancel \/ Receive \/ Drain
           \/ \E l \in Listeners : ServeEnds(l)
  <2>1. UNCHANGED <<stage, deferred, cancelled, expired, web, up, call>>
    BY <1>4, Zenon
       DEF ListenPlain, ListenTLS, ServeListeners, CloseOnCancel, Receive, Drain, ServeEnds,
                SubmissionStep, mainVars, vars
  <2>2. HttpInFlight' => HttpInFlight
    BY <2>1, Zenon DEF HttpInFlight
  <2>. QED
    BY <2>1, <2>2, ReturnKept, Zenon
<1>5. CASE \/ ForwardingListens \/ ForwardingCloses \/ ForwardingServeEnds
           \/ ListenAndServe \/ WebServeFails
  <2>1. UNCHANGED <<stage, deferred, cancelled, expired, up, call>>
    BY <1>5, Zenon DEF ForwardingListens, ForwardingCloses, ForwardingServeEnds, ForwardingStep,
                ListenAndServe, WebServeFails, WebStep, mainVars, vars
  <2>2. web' = web \/ (web \in {"starting", "serving"} /\ web' \in {"serving", "failed"})
    BY <1>5, Zenon DEF ForwardingListens, ForwardingCloses, ForwardingServeEnds, ForwardingStep,
                ListenAndServe, WebServeFails, WebStep
  <2>3. HttpInFlight' => HttpInFlight
    BY <2>1, Zenon DEF HttpInFlight
  <2>. QED
    BY <2>1, <2>2, <2>3, ReturnKept, SMTT(30)
<1>6. CASE UNCHANGED processVars
  <2>1. UNCHANGED <<stage, deferred, cancelled, expired, web, up, call>>
    BY <1>6, Zenon DEF processVars, mainVars, serverVars, vars
  <2>2. HttpInFlight' => HttpInFlight
    BY <2>1, Zenon DEF HttpInFlight
  <2>. QED
    BY <2>1, <2>2, ReturnKept, Zenon
<1>7. CASE Exit \/ ExitByServer \/ Kill
  BY <1>7, EndReturn, Zenon DEF Exit, ExitByServer, Kill
<1>. QED
  BY <1>1, <1>2, <1>3, <1>4, <1>5, <1>6, <1>7, RunServerReturn, StartsReturn, StartWebReturn,
     RunDeferredReturn, ShutdownReturn, SMTT(30) DEF ProcessNext, MainStep

\* When runServer returns, nothing that requests over HTTP may need is
\* cancelled before the HTTP server is closed to new ones and those in flight
\* are answered or given up on, whatever was started (the deferred calls).
THEOREM ReturnAlwaysOrderly == ProcessSpec => []OrderlyReturn
<1>1. ProcessInit => ReturnInv
  <2>. SUFFICES ASSUME ProcessInit PROVE ReturnInv
    BY Zenon
  <2>1. Idle.kind = "idle"
    BY Zenon DEF Idle
  <2>2. ~HttpInFlight
    BY <2>1, Zenon DEF ProcessInit, Init, HttpInFlight
  <2>. QED
    BY <2>2, Zenon DEF ProcessInit, Init, ReturnInv, Running
<1>2. AccessInv /\ ReturnInv /\ [ProcessNext]_processVars => ReturnInv'
  BY ReturnStepKeeps, Zenon
<1>3. ReturnInv => OrderlyReturn
  BY Zenon DEF ReturnInv, WebDeferred, OrderlyReturn
<1>. QED
  BY <1>1, <1>2, <1>3, AccessInvariant, PTL DEF ProcessSpec
=============================================================================
