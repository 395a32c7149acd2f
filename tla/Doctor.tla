------------------------------- MODULE Doctor -------------------------------
(***************************************************************************)
(* pinguin-doctor (internal/doctor/doctor.go, cmd/doctor/main.go): what it *)
(* says of a configuration file, next to what a process started with that  *)
(* file does.  The two validate the same file with code of their own.      *)
(***************************************************************************)
EXTENDS ServerProcess, SequencesExt

-----------------------------------------------------------------------------
(* The doctor, run with --expand-env as the deployment does *)

tenantsForValidation(f) ==
    IF f.inline # <<>> THEN f.inline
    ELSE IF "tenants.configPath" \in f.given /\ f.outside # None THEN f.outside ELSE <<>>

\* Unlike the server, it wants an administrator behind every web interface.
validateTenantConfig(f, t) ==
    /\ "tenants.displayName" \in f.given
    /\ t.domains # <<>>
    /\ webEnabled(f) => t.admins # {}

validateServerConfig(f) ==
    /\ ServerSettings \subseteq f.given
    /\ webEnabled(f) => "tauth.signingKey" \in f.given

validateWebConfig(f) == webEnabled(f) => "web.listenAddr" \in f.given

validateSMTPSubmissionConfig(f) ==
    f.submission =>
        /\ SubmissionSettings \subseteq f.given
        /\ "submission.listenAddr" \in f.given \/ "submission.tlsListenAddr" \in f.given
        /\ normalizeSMTPDeliveryMode(f.deliveryMode) \in {"upstream", "direct"}
        /\ normalizeSMTPDeliveryMode(f.deliveryMode) = "upstream" =>
                SubmissionRelay \subseteq f.given
        /\ f.publicPort # -1
        /\ f.publicSecurityMode \in {"", "starttls", "ssl"}
        /\ f.allowInsecureAuth \/ Certificate \subseteq f.given

validateSMTPForwardingConfig(f) == f.forwarding => ForwardingSettings \subseteq f.given

\* The verdict on one file.
DoctorValid(f) ==
    /\ f.expands /\ f.parses
    /\ validateServerConfig(f)
    /\ validateWebConfig(f)
    /\ validateSMTPSubmissionConfig(f)
    /\ validateSMTPForwardingConfig(f)
    /\ tenantsForValidation(f) # <<>>
    /\ \A k \in DOMAIN tenantsForValidation(f) :
            validateTenantConfig(f, tenantsForValidation(f)[k])

\* Every domain of the inline tenants with the place that claims it.
Claims(f) ==
    FlattenSeq([k \in DOMAIN f.inline |->
        [l \in DOMAIN f.inline[k].domains |->
            [host |-> f.inline[k].domains[l], at |-> <<f, f.inline[k].id>>]]])

ClaimDomain(seen, claim) ==
    IF seen.owner[claim.host] = None
    THEN [seen EXCEPT !.owner[claim.host] = claim.at]
    ELSE IF seen.owner[claim.host] # claim.at
         THEN [seen EXCEPT !.conflicts = @ \cup {claim.host}]
         ELSE seen

\* The valid files are the values of a map, visited in any order.
validateCrossConfigs(order) ==
    FoldLeft(ClaimDomain, [owner |-> [h \in Hosts |-> None], conflicts |-> {}],
             FlattenSeq([k \in DOMAIN order |-> Claims(order[k])])).conflicts

\* Whether the command succeeds.
runDoctor(files, order, crossValidate) ==
    /\ \A f \in files : DoctorValid(f)
    /\ crossValidate /\ Len(order) > 1 => validateCrossConfigs(order) = {}
-----------------------------------------------------------------------------
(* Properties *)

\* Two files pass together when each does and no domain is claimed in two
\* places, whichever order the doctor meets them in.
TogetherIsSound ==
    \A f, g \in {h \in Files : DoctorValid(h)} : f # g =>
        LET claims == Range(Claims(f) \o Claims(g))
        IN runDoctor({f, g}, <<f, g>>, TRUE) <=>
                \A c, d \in claims : c.host = d.host => c.at = d.at

\* A file the doctor passes is never refused by the server's own validation,
\* and the process ends at start only for what the doctor does not look at: a
\* key, certificate or proxy that is not usable, a listener with TLS but no
\* certificate, tenants none of whom is enabled or that share a domain or name
\* an administrator twice, or a fault.  A file it rejects is refused, unless
\* it only lacks administrators or, in the file of the tenants, their names.
\* Files pass together when no domain is claimed twice among them
\* (doctor.validateConfig against config.validateConfig, Bootstrap and
\* NewServer; validateCrossConfigs).
DoctorForesees ==
    /\ TogetherIsSound
    /\ file # None /\ DoctorValid(file) =>
        /\ refusal # "config"
        /\ refusal = "server" =>
            \/ ~({"certificate", "trustedProxies"} \subseteq file.usable)
            \/ "submission.tlsListenAddr" \in file.given /\ ~(Certificate \subseteq file.given)
        /\ refusal = "bootstrap" =>
            LET ts == TenantsToStore(file)
            IN \/ \A k \in DOMAIN ts : ~ts[k].enabled
               \/ ~DomainsDistinct(ts)
               \/ \E k, l \in DOMAIN ts :
                    k # l /\ ts[k].id = ts[l].id /\ ts[k].admins \cap ts[l].admins # {}
    /\ ready /\ ~DoctorValid(file) =>
        \/ file.inline = <<>> /\ "tenants.displayName" \notin file.given
        \/ webEnabled(file) /\ \E k \in DOMAIN TenantsToStore(file) :
                TenantsToStore(file)[k].admins = {}
=============================================================================
