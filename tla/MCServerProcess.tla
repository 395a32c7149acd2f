--------------------------- MODULE MCServerProcess ---------------------------
(* Instances of ServerProcess for TLC. *)
EXTENDS Doctor

CONSTANTS t1, t2, h1, h2, ann, bob, rob

MCTenants == {t1, t2}
MCHosts == {h1, h2}
MCUsers == {ann, bob, rob}

\* ann has an address in h1; the addresses of the others have no domain,
\* and rob's session carries the admin role.
MCEmailDomain == [u \in MCUsers |-> IF u = ann THEN h1 ELSE None]

Entry(t, enabled, domains, admins, email, sms) ==
    [id |-> t, enabled |-> enabled, domains |-> domains, admins |-> admins,
     email |-> email, sms |-> sms]

Both == <<Entry(t1, TRUE, <<h1>>, {bob}, 1, 1), Entry(t2, FALSE, <<h2>>, {}, 1, None)>>

Administered == <<Entry(t1, TRUE, <<h1>>, {bob}, 1, None)>>

Elsewhere == <<Entry(t2, TRUE, <<h2>>, {ann}, 2, None)>>

\* The first tenant gone, its host with the second.
Moved == <<Entry(t2, TRUE, <<h2, h1>>, {}, 2, None)>>

\* The first suspended, with another profile.
Suspended ==
    <<Entry(t1, FALSE, <<h1>>, {bob}, 2, None), Entry(t2, TRUE, <<h2>>, {}, 1, 2)>>

\* One tenant named twice.
Twice == <<Entry(t1, TRUE, <<h1>>, {}, 1, None), Entry(t1, FALSE, <<h2>>, {ann}, 2, 1),
           Entry(t2, TRUE, <<>>, {}, 1, None)>>

TwiceStored == <<Entry(t1, FALSE, <<h1>>, {}, 1, None), Entry(t1, TRUE, <<h2>>, {ann}, 2, 1)>>

\* Refused: two owners of a host, nobody enabled, an administrator twice.
TwoOwners == <<Entry(t1, TRUE, <<h1>>, {}, 2, None), Entry(t2, TRUE, <<h1>>, {}, 2, None)>>
NoneEnabled == <<Entry(t2, FALSE, <<h1>>, {}, 2, None)>>
AdminTwice == <<Entry(t2, TRUE, <<h1>>, {ann}, 2, None), Entry(t2, TRUE, <<h2>>, {ann}, 1, None)>>

MCConfigs == {Moved, Suspended, TwoOwners}

Stored ==
    {Both, Moved, Suspended, Twice, TwiceStored, TwoOwners, NoneEnabled, AdminTwice, <<>>}

\* Files: only the web interface, with each of the configurations;
Web(cfg) ==
    [given              |-> ServerSettings \cup WebSettings \cup {"tenants.displayName"},
     expands            |-> TRUE,
     parses             |-> TRUE,
     usable             |-> {"masterKey", "certificate", "trustedProxies"},
     web                |-> "default",
     submission         |-> FALSE,
     forwarding         |-> FALSE,
     deliveryMode       |-> "",
     publicPort         |-> 0,
     publicSecurityMode |-> "",
     allowInsecureAuth  |-> FALSE,
     inline             |-> cfg,
     outside            |-> None]

\* everything, and the same without one of the settings, with one of the
\* others changed, or with the tenants in a file of their own.
Full ==
    [Web(Administered) EXCEPT !.given = Settings, !.submission = TRUE, !.forwarding = TRUE,
                      !.publicPort = 1, !.publicSecurityMode = "ssl"]

OneMissing == {[Full EXCEPT !.given = Settings \ {s}] : s \in Settings}

Outside ==
    {[Full EXCEPT !.inline = <<>>, !.outside = o] : o \in {None, <<>>, Administered}}
        \cup {[Full EXCEPT !.inline = <<>>, !.outside = Administered,
                           !.given = Settings \ {s}] :
                s \in {"tenants.configPath", "tenants.displayName"}}

OneChanged ==
    {[Full EXCEPT !.expands = FALSE],
     [Full EXCEPT !.parses = FALSE],
     [Full EXCEPT !.web = "off"],
     [Full EXCEPT !.web = "off", !.given = Settings \ WebSettings],
     [Full EXCEPT !.deliveryMode = "other"],
     [Full EXCEPT !.deliveryMode = "direct", !.given = Settings \ SubmissionRelay],
     [Full EXCEPT !.publicPort = -1],
     [Full EXCEPT !.publicSecurityMode = "other"],
     [Full EXCEPT !.allowInsecureAuth = TRUE, !.given = Settings \ Certificate],
     [Full EXCEPT !.allowInsecureAuth = TRUE,
                  !.given = Settings \ (Certificate \cup {"submission.tlsListenAddr"})]}
        \cup {[Full EXCEPT !.web = "off", !.inline = i] :
                i \in {Moved, TwoOwners, NoneEnabled, AdminTwice, Elsewhere}}
        \cup {[Full EXCEPT !.usable = @ \ {u}] : u \in Full.usable}

MCRebootstrapped == {Web(Both)}

MCProbed == {Web(cfg) : cfg \in Stored}

MCFiles == MCProbed \cup {Full} \cup OneMissing \cup Outside \cup OneChanged
=============================================================================
