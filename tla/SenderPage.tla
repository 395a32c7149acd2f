------------------------------ MODULE SenderPage ------------------------------
(***************************************************************************)
(* The sender identities page of the browser UI                            *)
(* (web/js/ui/smtpIdentities.js) over the server's sender domains and      *)
(* identities.                                                             *)
(*                                                                         *)
(* Each handler is an async function: it marks the page as busy, awaits    *)
(* its request and, after most changes, a reload of the list.  The mark    *)
(* isSubmitting disables every button that submits; a check of a domain    *)
(* only disables its own button, and the loads at the start of the session *)
(* disable nothing.  Loads carry no number: the answer that comes last     *)
(* wins.                                                                   *)
(***************************************************************************)
EXTENDS PageVisit, FiniteSets

CONSTANTS
    Domains,
    Identities,
    DomainOf,    \* the domain of each identity's address
    Forwards,    \* lists of recipients
    Nothing,
    MaxSubmits   \* bound on what the reader does here

ASSUME SenderAssumption ==
    /\ DomainOf \in [Identities -> Domains]
    /\ Nothing \notin Identities \cup Domains \cup Forwards
    /\ MaxSubmits \in Nat

VARIABLES
    stored,            \* the server: status of domains; forwarding and key of identities
    shown,             \* what the page holds
    busy,              \* isLoading, isLoadingDomains, isSubmitting
    checkingDomainId,
    loads,             \* list requests, and where they are
    submit,            \* the handler that has set isSubmitting
    checks,            \* DNS checks under way
    \* history
    doubt              \* what of the page may be out of date, and why is known

senderVars == <<stored, shown, busy, checkingDomainId, loads, submit, checks, doubt>>

Idle == [at |-> "idle", rows |-> Nothing]

NoSubmit == [kind |-> "none", at |-> "idle", on |-> Nothing, value |-> Nothing, key |-> 0]

BlankPage ==
    [identities |-> [i \in Identities |-> Nothing],  \* the forwarding of each row
     domains    |-> [d \in Domains |-> "absent"],
     credentials |-> Nothing, dialog |-> FALSE, editingIdentityId |-> Nothing]

\* One domain is verified and has an identity already.
SenderInit ==
    /\ VisitInit
    /\ \E d \in Domains : \E i \in {j \in Identities : DomainOf[j] = d} : \E f \in Forwards :
        stored = [domains    |-> [e \in Domains |-> IF e = d THEN "verified" ELSE "absent"],
                  identities |-> [j \in Identities |-> IF j = i THEN f ELSE Nothing],
                  key        |-> [j \in Identities |-> 0]]
    /\ shown = BlankPage
    /\ busy = {}
    /\ checkingDomainId = Nothing
    /\ loads = [l \in {"domains", "identities", "reload"} |-> Idle]
    /\ submit = NoSubmit
    /\ checks = {}
    /\ doubt = {}

Act == changes < MaxSubmits /\ changes' = changes + 1

-----------------------------------------------------------------------------
(* The session *)

\* loadWorkspace
SenderSignIn ==
    /\ SessionStarts
    /\ loads' = [loads EXCEPT !["domains"].at = "sent", !["identities"].at = "sent"]
    /\ busy' = busy \cup {"isLoading", "isLoadingDomains"}
    /\ UNCHANGED <<stored, shown, checkingDomainId, submit, checks, doubt, changes, faults>>

SenderSignOut ==
    /\ auth = "in" /\ Act
    /\ SessionEnds
    /\ shown' = [BlankPage EXCEPT !.dialog = shown.dialog]
    /\ UNCHANGED <<stored, busy, checkingDomainId, loads, submit, checks, doubt, faults>>

-----------------------------------------------------------------------------
(* loadDomains and loadIdentities *)

Rows(l) == IF l = "domains" THEN stored.domains ELSE stored.identities
List(l) == IF l = "domains" THEN "domains" ELSE "identities"
LoadMark(l) == IF l = "domains" THEN "isLoadingDomains" ELSE "isLoading"

LoadAnswered(l) ==
    /\ loads[l].at = "sent"
    /\ loads' = [loads EXCEPT ![l] = [at |-> "answered", rows |-> Rows(l)]]
    /\ UNCHANGED <<stored, shown, busy, checkingDomainId, submit, checks, doubt, auth, changes,
                   faults>>

\* What the handler that awaits a reload does in the same turn.
AfterReload(page) ==
    [page EXCEPT !.dialog = @ \/ submit.kind \in {"createIdentity", "rotate"}]

LoadEnds(l, page, why) ==
    /\ loads' = [loads EXCEPT ![l] = Idle]
    /\ shown' = IF l = "reload" THEN AfterReload(page) ELSE page
    /\ busy' = busy \ ({LoadMark(l)} \cup IF l = "reload" THEN {"isSubmitting"} ELSE {})
    /\ submit' = IF l = "reload" THEN NoSubmit ELSE submit
    /\ doubt' = why
    /\ UNCHANGED <<stored, checkingDomainId, checks, auth, changes>>

Overlaps(l) ==
    /\ l \in {"identities", "reload"}
    /\ \A k \in {"identities", "reload"} : loads[k].at # "idle"

LoadDelivered(l) ==
    /\ loads[l].at = "answered"
    /\ LoadEnds(l, IF l = "domains" THEN [shown EXCEPT !.domains = loads[l].rows]
                   ELSE [shown EXCEPT !.identities = loads[l].rows],
                IF l = "reload" /\ ~Overlaps(l) THEN doubt \ {"identities"}
                ELSE IF Overlaps(l) THEN doubt \cup {"identities"} ELSE doubt)
    /\ UNCHANGED faults

\* Caught inside the load: the rows stay as they are.
LoadFails(l) ==
    /\ loads[l].at # "idle" /\ Fault
    /\ LoadEnds(l, shown, doubt \cup {List(l)})

-----------------------------------------------------------------------------
(* Handlers up to their first await *)

Enabled == auth = "in" /\ "isSubmitting" \notin busy /\ Act

Begin(kind, on, value) ==
    /\ submit' = [NoSubmit EXCEPT !.kind = kind, !.at = "sent", !.on = on, !.value = value]
    /\ busy' = busy \cup {"isSubmitting"}
    /\ UNCHANGED <<stored, shown, checkingDomainId, loads, checks, doubt, auth, faults>>

createDomain(d) == Enabled /\ ~shown.dialog /\ Begin("createDomain", d, Nothing)

createIdentity(i, f) ==
    /\ Enabled /\ ~shown.dialog
    /\ shown.editingIdentityId = Nothing
    /\ shown.domains[DomainOf[i]] = "verified"
    /\ Begin("createIdentity", i, f)

updateForwarding(f) ==
    /\ Enabled /\ ~shown.dialog
    /\ shown.editingIdentityId # Nothing
    /\ Begin("updateForwarding", shown.editingIdentityId, f)

Row(i) == Enabled /\ ~shown.dialog /\ shown.identities[i] # Nothing

viewCredentials(i) == Row(i) /\ Begin("view", i, Nothing)

deleteIdentity(i) == Row(i) /\ Begin("delete", i, Nothing)

rotateCurrentCredentials ==
    Enabled /\ shown.dialog /\ shown.credentials # Nothing
        /\ Begin("rotate", shown.credentials.identity, Nothing)

Edit(page) ==
    /\ shown' = page
    /\ UNCHANGED <<stored, busy, checkingDomainId, loads, submit, checks, doubt, auth, changes,
                   faults>>

editForwarding(i) ==
    /\ auth = "in" /\ "isSubmitting" \notin busy /\ ~shown.dialog
    /\ shown.identities[i] # Nothing
    /\ Edit([shown EXCEPT !.editingIdentityId = i])

\* Not disabled by anything.
cancelForwardingEdit ==
    /\ auth = "in" /\ shown.editingIdentityId # Nothing /\ ~shown.dialog
    /\ Edit([shown EXCEPT !.editingIdentityId = Nothing])

closeCredentialsDialog == shown.dialog /\ Edit([shown EXCEPT !.dialog = FALSE])

-----------------------------------------------------------------------------
(* The server *)

\* What a request does to the server, or that it is refused.
Refused(s) ==
    CASE s.kind = "createDomain" -> stored.domains[s.on] # "absent"
      [] s.kind = "createIdentity" ->
            stored.identities[s.on] # Nothing \/ stored.domains[DomainOf[s.on]] # "verified"
      [] OTHER -> stored.identities[s.on] = Nothing

Effect(s) ==
    CASE s.kind = "createDomain" -> [stored EXCEPT !.domains[s.on] = "pending"]
      [] s.kind = "createIdentity" ->
            [stored EXCEPT !.identities[s.on] = s.value, !.key[s.on] = @ + 1]
      [] s.kind = "updateForwarding" -> [stored EXCEPT !.identities[s.on] = s.value]
      [] s.kind = "rotate" -> [stored EXCEPT !.key[s.on] = @ + 1]
      [] s.kind = "delete" -> [stored EXCEPT !.identities[s.on] = Nothing]
      [] s.kind = "view" -> stored

SubmitStep(s) ==
    /\ submit' = s
    /\ UNCHANGED <<shown, busy, checkingDomainId, loads, checks, auth, changes>>

SubmitAnswered ==
    /\ submit.at = "sent"
    /\ IF Refused(submit)
       THEN SubmitStep([submit EXCEPT !.at = "failed"]) /\ UNCHANGED stored
       ELSE /\ stored' = Effect(submit)
            /\ SubmitStep([submit EXCEPT
                    !.at = "answered",
                    !.key = IF submit.on \in Identities THEN stored'.key[submit.on] ELSE 0])
    /\ UNCHANGED <<doubt, faults>>

\* The request is lost, or its answer is.
SubmitFails ==
    /\ submit.at = "sent" /\ Fault
    /\ SubmitStep([submit EXCEPT !.at = "failed"])
    /\ \/ UNCHANGED <<stored, doubt>>
       \/ /\ ~Refused(submit)
          /\ stored' = Effect(submit)
          /\ doubt' = doubt \cup {"domains", "identities", "credentials"}

-----------------------------------------------------------------------------
(* Handlers from their first await on *)

Credentials == [identity |-> submit.on, key |-> submit.key]

\* A faulty form of the table below: a deleted row stays until the next load.
ReloadsOnChange == {"createIdentity", "updateForwarding", "rotate"}

\* Handlers that load the list again before they finish.
Reloads == {"createIdentity", "updateForwarding", "rotate", "delete"}

Applied ==
    CASE submit.kind = "createDomain" -> [shown EXCEPT !.domains[submit.on] = "pending"]
      [] submit.kind \in {"createIdentity", "rotate"} -> [shown EXCEPT !.credentials = Credentials]
      [] submit.kind = "view" -> [shown EXCEPT !.credentials = Credentials, !.dialog = TRUE]
      [] submit.kind = "updateForwarding" -> [shown EXCEPT !.editingIdentityId = Nothing]
      [] submit.kind = "delete" -> shown

\* Without a session loadIdentities returns at once.
SubmitDelivered ==
    /\ submit.at = "answered"
    /\ IF submit.kind \in Reloads /\ auth = "in"
       THEN /\ loads' = [loads EXCEPT !["reload"].at = "sent"]
            /\ busy' = busy \cup {"isLoading"}
            /\ submit' = [submit EXCEPT !.at = "reloading"]
            /\ shown' = Applied
       ELSE /\ UNCHANGED loads
            /\ busy' = busy \ {"isSubmitting"}
            /\ submit' = NoSubmit
            /\ shown' = AfterReload(Applied)
    /\ doubt' = (doubt \ IF submit.kind \in {"createIdentity", "rotate", "view"}
                         THEN {"credentials"} ELSE {})
                    \cup IF submit.kind = "createDomain" /\ loads["domains"].at # "idle"
                         THEN {"domains"} ELSE {}
    /\ UNCHANGED <<stored, checkingDomainId, checks, auth, changes, faults>>

SubmitRejected ==
    /\ submit.at = "failed"
    /\ submit' = NoSubmit
    /\ busy' = busy \ {"isSubmitting"}
    /\ UNCHANGED <<stored, shown, checkingDomainId, loads, checks, doubt, auth, changes, faults>>

-----------------------------------------------------------------------------
(* checkDomain *)

checkDomain(d) ==
    /\ auth = "in" /\ ~shown.dialog /\ Act
    /\ shown.domains[d] # "absent"
    /\ checkingDomainId # d
    /\ [domain |-> d, at |-> "sent", status |-> Nothing] \notin checks
    /\ checks' = checks \cup {[domain |-> d, at |-> "sent", status |-> Nothing]}
    /\ checkingDomainId' = d
    /\ doubt' = IF \/ loads["domains"].at # "idle"
                   \/ submit.kind = "createDomain" /\ submit.on = d
                   \/ \E c \in checks : c.domain = d
                THEN doubt \cup {"domains"} ELSE doubt
    /\ UNCHANGED <<stored, shown, busy, loads, submit, auth, faults>>

\* The server looks the records up and stores what it finds.
CheckAnswered(c, found) ==
    /\ c.at = "sent"
    /\ stored' = [stored EXCEPT !.domains[c.domain] = found]
    /\ checks' = (checks \ {c}) \cup {[c EXCEPT !.at = "answered", !.status = found]}
    /\ UNCHANGED <<shown, busy, checkingDomainId, loads, submit, doubt, auth, changes, faults>>

\* upsertDomain; the mark is cleared whichever domain it is for.
CheckDelivered(c) ==
    /\ c.at = "answered"
    /\ checks' = checks \ {c}
    /\ shown' = [shown EXCEPT !.domains[c.domain] = c.status]
    /\ checkingDomainId' = Nothing
    /\ UNCHANGED <<stored, busy, loads, submit, doubt, auth, changes, faults>>

\* Before the server stores anything, or after.
CheckFails(c) ==
    /\ Fault
    /\ checks' = checks \ {c}
    /\ checkingDomainId' = Nothing
    /\ doubt' = IF c.at = "answered" THEN doubt \cup {"domains"} ELSE doubt
    /\ UNCHANGED <<stored, shown, busy, loads, submit, auth, changes>>

-----------------------------------------------------------------------------
SenderReader ==
    \/ SenderSignIn
    \/ SenderSignOut
    \/ \E d \in Domains : createDomain(d) \/ checkDomain(d)
    \/ \E f \in Forwards : updateForwarding(f) \/ \E i \in Identities : createIdentity(i, f)
    \/ \E i \in Identities : viewCredentials(i) \/ deleteIdentity(i) \/ editForwarding(i)
    \/ cancelForwardingEdit
    \/ rotateCurrentCredentials
    \/ closeCredentialsDialog

SenderNetwork ==
    \/ \E l \in DOMAIN loads : LoadAnswered(l) \/ LoadDelivered(l) \/ LoadFails(l)
    \/ SubmitAnswered
    \/ SubmitFails
    \/ SubmitDelivered
    \/ SubmitRejected
    \/ \E c \in checks :
        \/ \E found \in {"pending", "verified"} : CheckAnswered(c, found)
        \/ CheckDelivered(c)
        \/ CheckFails(c)

SenderNext == SenderReader \/ SenderNetwork

-----------------------------------------------------------------------------
(* Properties *)

Quiet == submit.at = "idle" /\ checks = {} /\ \A l \in DOMAIN loads : loads[l].at = "idle"

\* The page shows what the server holds.
ShowsStored ==
    auth = "in" /\ Quiet =>
        /\ "identities" \in doubt \/ shown.identities = stored.identities
        /\ "domains" \in doubt \/ shown.domains = stored.domains
        /\ shown.dialog /\ "credentials" \notin doubt =>
            /\ stored.identities[shown.credentials.identity] # Nothing
            /\ shown.credentials.key = stored.key[shown.credentials.identity]

\* No mark stays on that would keep a button disabled.
SenderLoaded == busy = {} /\ checkingDomainId = Nothing
=============================================================================
