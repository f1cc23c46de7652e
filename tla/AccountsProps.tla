---------------------------- MODULE AccountsProps ----------------------------
(***************************************************************************)
(* What accounts and sessions promise.                                     *)
(***************************************************************************)
EXTENDS Accounts

RowsTypeOK ==
    /\ server \in {"up", "down"}
    /\ lastId \in 0..MaxIds
    /\ users \subseteq 1..lastId
    /\ name \in [Ids -> Names \union {NoName}]
    /\ role \in [Ids -> {"admin", "user"}]
    /\ status \in [Ids -> {"pending", "approved", "rejected"}]
    /\ approver \in [Ids -> Ids \union {NoUser}]
    /\ adminMail \in Ids \union {NoUser}
    /\ issued \subseteq Tokens
    /\ session \in [Tokens -> Ids \union {NoUser}]
    /\ jobs \subseteq Ids
    /\ asked \in BOOLEAN
    /\ verifying \subseteq Ids
    /\ verifier \in Ids \union {NoUser}
    /\ blocker \in Ids \union {NoUser}
    /\ refused \subseteq Ids

\* The row of a session belongs to an account that exists and was approved: of
\* all endpoints only login and api_start_scan look at the status, the others rely
\* on no account losing its approval while a session of it lasts.  (A row left
\* behind by its account would authenticate nobody: get_session_user joins.)
SessionsApproved ==
    \A t \in Tokens : session[t] # NoUser =>
        session[t] \in users /\ status[session[t]] = "approved"

\* Whoever is named in a row still has an account: the owner of a job, the author
\* of a blocklist entry, who verified a target, even if his account was deleted
\* while the target was asked, and, behind every approved account but the
\* built-in one, the administrator who let it in.
NobodyMissing ==
    /\ jobs \subseteq users
    /\ verifier \in users \union {NoUser}
    /\ blocker \in users \union {NoUser}
    /\ \A u \in users : status[u] = "approved" =>
          approver[u] \in users \/ (approver[u] = NoUser /\ name[u] = AdminName)

\* Administrators may demote, reject and delete each other and themselves, and
\* nobody counts them; but the last one goes by nobody's hand but his own: the
\* step that leaves none is a request he makes himself, about himself.  No request
\* of somebody who is no longer an administrator, whatever tokens he still has,
\* no two administrators who turn on each other and no restart leave none.
Administrators == {u \in users : role[u] = "admin" /\ status[u] = "approved"}
LastAdminGoesHimself ==
    [][Administrators # {} /\ Administrators' = {} =>
          \E u \in Administrators, t \in Tokens :
              session[t] = u /\ (Reject(t, u) \/ ChangeRole(t, u, "user"))]_accountsVars

-----------------------------------------------------------------------------
(* Statements of comments that the code does not keep *)

\* init_db, "ensures the default administrator's account": after a start the
\* built-in account exists, is approved and is an administrator.
AdminEnsured ==
    [][server = "down" /\ server' = "up" =>
          \E u \in users' :
              name'[u] = AdminName /\ role'[u] = "admin" /\ status'[u] = "approved"]_accountsVars

\* delete_user, "its sessions, scans and reports are cleaned up together by the
\* foreign keys' CASCADE": no deletion fails.
DeletionSucceeds == refused = {}
=============================================================================
