---------------------------- MODULE SenderScope ----------------------------
(***************************************************************************)
(* The users and the sender domains that SenderDomain and SmtpIdentity     *)
(* are about (AccessScope of internal/smtpidentity/repository.go).         *)
(***************************************************************************)
CONSTANTS
    Users,   \* authenticated e-mail addresses
    Admins,  \* the users with admin access
    Domains,
    None     \* no user, no domain

ASSUME UsersAssumption == Admins \subseteq Users /\ None \notin Users /\ None \notin Domains
=============================================================================
