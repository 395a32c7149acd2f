---------------------------- MODULE ServerConfig ----------------------------
(***************************************************************************)
(* The configuration file, and what the server makes of it                 *)
(* (internal/config/config.go, cmd/server/main.go).                        *)
(*                                                                         *)
(* Of a text only matters whether it is blank, of a number whether it is   *)
(* positive: "given" is the set of settings that are.  Settings with more  *)
(* values than that are fields of their own; "usable" holds those whose    *)
(* value also means something to its user (NewSecretKeeper, LoadTLSConfig, *)
(* SetTrustedProxies).                                                     *)
(***************************************************************************)
EXTENDS TenantBootstrap, Integers

ServerSettings ==
    {"databasePath", "grpcAuthToken", "logLevel", "maxRetries", "retryIntervalSec",
     "masterEncryptionKey", "connectionTimeoutSec", "operationTimeoutSec"}

WebSettings == {"web.listenAddr", "tauth.signingKey"}

SubmissionSettings ==
    {"submission.hostname", "submission.maxMessageBytes", "submission.maxRecipients"}

SubmissionRelay ==
    {"submission.relay.host", "submission.relay.port", "submission.relay.username",
     "submission.relay.password"}

Certificate == {"submission.tlsCertPath", "submission.tlsKeyPath"}

Listeners == {"submission.listenAddr", "submission.tlsListenAddr"}

ForwardingSettings ==
    {"forwarding.hostname", "forwarding.listenAddr", "forwarding.maxMessageBytes",
     "forwarding.maxRecipients", "forwarding.relay.host", "forwarding.relay.port",
     "forwarding.relay.username", "forwarding.relay.password"}

Settings ==
    ServerSettings \cup WebSettings \cup SubmissionSettings \cup SubmissionRelay
        \cup Certificate \cup Listeners \cup ForwardingSettings
        \cup {"tenants.configPath", "tenants.displayName"}

ConfigFile ==
    [given              : SUBSET Settings,
     expands            : BOOLEAN,  \* every placeholder names a variable that is set
     parses             : BOOLEAN,  \* YAML with known fields only
     usable             : SUBSET {"masterKey", "certificate", "trustedProxies"},
     web                : {"default", "on", "off"},
     submission         : BOOLEAN,
     forwarding         : BOOLEAN,
     deliveryMode       : {"", "upstream", "direct", "other"},
     publicPort         : {-1, 0, 1},
     publicSecurityMode : {"", "starttls", "ssl", "other"},
     allowInsecureAuth  : BOOLEAN,
     inline             : Seq(TenantSpec),
     outside            : Seq(TenantSpec) \cup {None}] \* the file at configPath

webEnabled(f) == f.web # "off"

normalizeSMTPDeliveryMode(mode) == IF mode = "" THEN "upstream" ELSE mode

-----------------------------------------------------------------------------
(* Loading *)

SubmissionAccepted(f) ==
    /\ SubmissionSettings \subseteq f.given
    /\ Listeners \cap f.given # {}
    /\ \/ normalizeSMTPDeliveryMode(f.deliveryMode) = "direct"
       \/ /\ normalizeSMTPDeliveryMode(f.deliveryMode) = "upstream"
          /\ SubmissionRelay \subseteq f.given
    /\ f.publicPort >= 0
    /\ f.publicSecurityMode # "other"
    /\ ~f.allowInsecureAuth => Certificate \subseteq f.given

\* A faulty form of the check below: a file that only forwards is not asked
\* for its relay.
validateConfigWithoutRelay(f) ==
    /\ ServerSettings \subseteq f.given
    /\ f.inline = <<>> => "tenants.configPath" \in f.given
    /\ webEnabled(f) => WebSettings \subseteq f.given
    /\ f.submission => SubmissionAccepted(f)
    /\ \A k \in DOMAIN f.inline :
        "tenants.displayName" \in f.given /\ f.inline[k].domains # <<>>

validateConfig(f) ==
    /\ ServerSettings \subseteq f.given
    /\ f.inline = <<>> => "tenants.configPath" \in f.given
    /\ webEnabled(f) => WebSettings \subseteq f.given
    /\ f.submission => SubmissionAccepted(f)
    /\ f.forwarding => ForwardingSettings \subseteq f.given
    /\ \A k \in DOMAIN f.inline :
        "tenants.displayName" \in f.given /\ f.inline[k].domains # <<>>

\* Placeholders are always expanded, and one without a variable is an error.
LoadConfig(f) == f.expands /\ f.parses /\ validateConfig(f)

\* runServer bootstraps the inline tenants, or else those of the other file;
\* a file that cannot be read is as good as none.
TenantsToStore(f) ==
    IF f.inline # <<>> THEN f.inline
    ELSE IF f.outside = None THEN <<>> ELSE f.outside

\* runServer loads the certificate when both paths are given; NewServer
\* refuses a listener that would need one.
SubmissionServerBuilt(f) ==
    IF Certificate \subseteq f.given
    THEN "certificate" \in f.usable
    ELSE "submission.tlsListenAddr" \notin f.given /\ f.allowInsecureAuth

=============================================================================
