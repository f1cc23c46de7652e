------------------------------ MODULE Accounts ------------------------------
(***************************************************************************)
(* Accounts and sessions: the tables users and sessions of database.py,    *)
(* and the endpoints of api.py that change them.                           *)
(*                                                                         *)
(* An account is registered as pending, and can log in once an             *)
(* administrator has approved it.  A request is made with a session token; *)
(* any token that was ever issued may be presented again.  Every endpoint  *)
(* runs to its end on the event loop, and each is one step; the exception  *)
(* is the verification of a target, which waits for the target between     *)
(* looking up the session and writing the verifier's id.  The database     *)
(* outlives the server.                                                    *)
(*                                                                         *)
(* Foreign keys: a deleted account takes its sessions along (ON DELETE     *)
(* CASCADE), and cannot be deleted while a scan job, a verified target, an *)
(* entry of the blocklist or the approval of another account refers to it. *)
(***************************************************************************)
EXTENDS Naturals, FiniteSets

CONSTANTS
    Names,       \* user names
    AdminName,   \* "admin"
    NoName,
    Tokens,      \* session tokens
    MaxIds       \* bounds users.id, an AUTOINCREMENT column

ASSUME AccountsAssumption ==
    /\ AdminName \in Names /\ NoName \notin Names
    /\ MaxIds \in Nat \ {0}

Ids == 1..MaxIds
NoUser == 0

VARIABLES
    server,                       \* up or down
    lastId,
    users,                        \* ids of the rows of users
    name, role, status, approver, \* their columns
    adminMail,                    \* the row with the e-mail admin@sls.local
    issued,                       \* tokens that were given out
    session,                      \* whose session a token is, if it is valid
    jobs,                         \* accounts with a row in scan_jobs
    asked,                        \* a job waits for its target's verification
    verifying,                    \* users whose verification asks the target
    verifier,                     \* verified_targets.user_id, of one target
    blocker,                      \* waf_ip_blocklist.created_by, of one entry
    refused                       \* accounts a DELETE failed for

columns      == <<name, role, status, approver, adminMail>>
targets      == <<asked, verifying, verifier>>
others       == <<jobs, targets, blocker>>
accountsVars == <<server, lastId, users, columns, issued, session, others, refused>>

Taken(n) == \E u \in users : name[u] = n

\* get_session_user: the session's owner, if there is still a row for him.
Request(t) == server = "up" /\ session[t] \in users

\* Mutated form of AdminRequest: the role is not looked at.
AdminRequestOfAnybody(t) == Request(t)

AdminRequest(t) == Request(t) /\ role[session[t]] = "admin"

AccountsInit ==
    /\ server = "down"
    /\ lastId = 0
    /\ users = {}
    /\ name = [u \in Ids |-> NoName]
    /\ role = [u \in Ids |-> "user"]
    /\ status = [u \in Ids |-> "pending"]
    /\ approver = [u \in Ids |-> NoUser]
    /\ adminMail = NoUser
    /\ issued = {}
    /\ session = [t \in Tokens |-> NoUser]
    /\ jobs = {}
    /\ asked = FALSE
    /\ verifying = {}
    /\ verifier = NoUser
    /\ blocker = NoUser
    /\ refused = {}

\* A new row: INSERT INTO users, with the built-in e-mail or another.
Insert(n, mail, r, st) ==
    /\ lastId < MaxIds
    /\ lastId' = lastId + 1
    /\ users' = users \union {lastId + 1}
    /\ name' = [name EXCEPT ![lastId + 1] = n]
    /\ role' = [role EXCEPT ![lastId + 1] = r]
    /\ status' = [status EXCEPT ![lastId + 1] = st]
    /\ adminMail' = IF mail = "admin" THEN lastId + 1 ELSE adminMail
    /\ UNCHANGED approver

-----------------------------------------------------------------------------
\* startup and init_db: the built-in administrator, OR IGNORE when the name or
\* the e-mail is taken.
Startup ==
    /\ server = "down"
    /\ server' = "up"
    /\ IF Taken(AdminName) \/ adminMail \in users
       THEN UNCHANGED <<lastId, users, columns>>
       ELSE Insert(AdminName, "admin", "admin", "approved")
    /\ UNCHANGED <<issued, session, others, refused>>

\* The verifications under way are lost.
Stop ==
    /\ server = "up"
    /\ server' = "down"
    /\ verifying' = {}
    /\ UNCHANGED <<lastId, users, columns, issued, session, jobs, asked, verifier, blocker, refused>>

\* Name and e-mail are unique; the other e-mails are not told apart.
Register(n, mail) ==
    /\ server = "up"
    /\ ~Taken(n) /\ ~(mail = "admin" /\ adminMail \in users)
    /\ Insert(n, mail, "user", "pending")
    /\ UNCHANGED <<server, issued, session, others, refused>>

\* login and create_session, with the right password.
Login(u, t) ==
    /\ server = "up"
    /\ u \in users
    /\ status[u] \notin {"pending", "rejected"}
    /\ t \notin issued
    /\ issued' = issued \union {t}
    /\ session' = [session EXCEPT ![t] = u]
    /\ UNCHANGED <<server, lastId, users, columns, others, refused>>

\* logout, or 24 hours have passed.
SessionEnds(t) ==
    /\ session[t] # NoUser
    /\ session' = [session EXCEPT ![t] = NoUser]
    /\ UNCHANGED <<server, lastId, users, columns, issued, others, refused>>

\* approve_user and update_user_status, whatever the account's status is; no row,
\* no change.
Approve(t, u) ==
    /\ AdminRequest(t)
    /\ u \in users
    /\ status' = [status EXCEPT ![u] = "approved"]
    /\ approver' = [approver EXCEPT ![u] = session[t]]
    /\ UNCHANGED <<server, lastId, users, name, role, adminMail, issued, session, others, refused>>

Referenced(u) ==
    \/ u \in jobs
    \/ u \in {verifier, blocker}
    \/ \E v \in users \ {u} : approver[v] = u

\* Mutated form of Delete: without the cascade to sessions.
DeleteKeepingSessions(u) ==
    /\ IF Referenced(u)
       THEN refused' = refused \union {u} /\ UNCHANGED <<users, session>>
       ELSE users' = users \ {u} /\ UNCHANGED <<refused, session>>
    /\ UNCHANGED <<server, lastId, columns, issued, others>>

\* Mutated form of Delete: foreign keys are not enforced on this connection.
DeleteUnchecked(u) ==
    /\ users' = users \ {u}
    /\ session' = [t \in Tokens |-> IF session[t] = u THEN NoUser ELSE session[t]]
    /\ UNCHANGED <<server, lastId, columns, issued, others, refused>>

\* delete_user: an IntegrityError rolls it back.
Delete(u) ==
    /\ IF Referenced(u)
       THEN refused' = refused \union {u} /\ UNCHANGED <<users, session>>
       ELSE /\ users' = users \ {u}
            /\ session' = [t \in Tokens |-> IF session[t] = u THEN NoUser ELSE session[t]]
            /\ UNCHANGED refused
    /\ UNCHANGED <<server, lastId, columns, issued, others>>

\* reject_user: any account, also the administrator's own.
Reject(t, u) ==
    /\ AdminRequest(t)
    /\ u \in users
    /\ Delete(u)

\* delete_user_endpoint: any account but one's own.
DeleteUser(t, u) ==
    /\ AdminRequest(t)
    /\ u \in users
    /\ u # session[t]
    /\ Delete(u)

\* change_role, which may be one's own.
ChangeRole(t, u, r) ==
    /\ AdminRequest(t)
    /\ u \in users
    /\ role' = [role EXCEPT ![u] = r]
    /\ UNCHANGED <<server, lastId, users, name, status, approver, adminMail, issued, session,
                   others, refused>>

-----------------------------------------------------------------------------
(* The rows that refer to accounts *)

\* api_start_scan and create_job.  The target is to be verified first, unless an
\* administrator asks or it was verified not long ago.
StartScan(t) ==
    /\ Request(t)
    /\ status[session[t]] = "approved"
    /\ jobs' = jobs \union {session[t]}
    /\ \/ role[session[t]] # "admin" /\ asked' = TRUE
       \/ (role[session[t]] = "admin" \/ verifier # NoUser) /\ UNCHANGED asked
    /\ UNCHANGED <<server, lastId, users, columns, issued, session, verifying, verifier, blocker,
                   refused>>

\* api_verify_ownership up to its first await, by anybody with a session,
Verify(t) ==
    /\ Request(t)
    /\ asked
    /\ verifying' = verifying \union {session[t]}
    /\ UNCHANGED <<server, lastId, users, columns, issued, session, jobs, asked, verifier, blocker,
                   refused>>

\* and after it: the token was not found, or upsert_verified_target writes who
\* found it, which the foreign key refuses if his account is gone by then.
Verified(u) ==
    /\ server = "up"
    /\ u \in verifying
    /\ verifying' = verifying \ {u}
    /\ verifier' \in {verifier} \union ({u} \intersect users)
    /\ UNCHANGED <<server, lastId, users, columns, issued, session, jobs, asked, blocker, refused>>

\* add_waf_block_ip, by an administrator, and remove_waf_block_ip.
BlockIp(t) ==
    /\ AdminRequest(t)
    /\ blocker' = session[t]
    /\ UNCHANGED <<server, lastId, users, columns, issued, session, jobs, targets, refused>>

UnblockIp(t) ==
    /\ AdminRequest(t)
    /\ blocker' = NoUser
    /\ UNCHANGED <<server, lastId, users, columns, issued, session, jobs, targets, refused>>

-----------------------------------------------------------------------------
AccountsNext ==
    \/ Startup \/ Stop
    \/ \E n \in Names, mail \in {"admin", "other"} : Register(n, mail)
    \/ \E u \in Ids : Verified(u)
    \/ \E t \in Tokens :
          \/ SessionEnds(t) \/ StartScan(t) \/ Verify(t) \/ BlockIp(t) \/ UnblockIp(t)
          \/ \E u \in Ids :
                \/ Login(u, t) \/ Approve(t, u) \/ Reject(t, u) \/ DeleteUser(t, u)
                \/ \E r \in {"admin", "user"} : ChangeRole(t, u, r)

AccountsSpec == AccountsInit /\ [][AccountsNext]_accountsVars
=============================================================================
