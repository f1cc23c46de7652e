-------------------------- MODULE Dashboard_proofs --------------------------
(***************************************************************************)
(* Proofs about the dashboard: the accounts and sessions it is used with,  *)
(* for any number of names, tokens and ids, and the streams its pages      *)
(* follow a scan by, for any number of pages, streams, queues and events.  *)
(*                                                                         *)
(* SessionsApproved and NobodyMissing need each other: an account whose    *)
(* session is used for an approval, a scan or a blocklist entry is known   *)
(* to exist because its session is valid, and it cannot be deleted         *)
(* afterwards because it is referred to.                                   *)
(*                                                                         *)
(* The streams' properties rest on the line an event stands in: scheduled  *)
(* on the loop, in a queue, received.  Whoever is behind in the line has a *)
(* greater number, in any state; and while no client goes away there is    *)
(* one line, without a gap, until a page has been told the end: by then    *)
(* the end is announced, and what was pushed before has been received, or  *)
(* the scan is over and the streams that are left still read that line.    *)
(***************************************************************************)
EXTENDS AccountsProps, SseChannelProps, SequenceTheorems, TLAPS

-----------------------------------------------------------------------------
(* Accounts and sessions *)

\* The ids not given out yet carry no approval.
Unapproved == \A u \in Ids : u > lastId => approver[u] = NoUser

IInv == RowsTypeOK /\ SessionsApproved /\ NobodyMissing /\ Unapproved

\* The server's state and the failed deletions do not matter to the invariant.
LEMMA SameRows ==
    ASSUME IInv, UNCHANGED <<lastId, users, columns, issued, session, others>>,
           server' \in {"up", "down"}, refused' \subseteq Ids
    PROVE  IInv'
PROOF
  <1> USE DEF columns, others, targets
  <1>1. RowsTypeOK'
    BY DEF IInv, RowsTypeOK
  <1>2. SessionsApproved'
    BY DEF IInv, SessionsApproved
  <1>3. NobodyMissing'
    BY DEF IInv, NobodyMissing
  <1>4. Unapproved'
    BY DEF IInv, Unapproved
  <1> QED
    BY <1>1, <1>2, <1>3, <1>4 DEF IInv

\* A new row has an id that no other row refers to.
LEMMA InsertInv ==
    ASSUME IInv, NEW n \in Names, NEW mail, NEW r \in {"admin", "user"},
           NEW st \in {"pending", "approved"}, st = "approved" => n = AdminName,
           Insert(n, mail, r, st), UNCHANGED <<issued, session, others, refused>>,
           server' \in {"up", "down"}
    PROVE  IInv'
PROOF
  <1> USE AccountsAssumption DEF IInv, Insert, others, targets, Ids, NoUser
  <1>1. lastId + 1 \in Ids /\ lastId + 1 \notin users /\ approver[lastId + 1] = NoUser
    BY DEF RowsTypeOK, Unapproved
  <1>2. RowsTypeOK'
    BY <1>1 DEF RowsTypeOK
  <1>3. SessionsApproved'
    BY <1>1 DEF RowsTypeOK, SessionsApproved
  <1>4. NobodyMissing'
    BY <1>1 DEF RowsTypeOK, NobodyMissing
  <1>5. Unapproved'
    BY <1>1 DEF RowsTypeOK, Unapproved
  <1> QED
    BY <1>2, <1>3, <1>4, <1>5

\* A row that goes away is referred to by no job, entry or approval, and takes
\* its sessions along.
LEMMA DeleteInv ==
    ASSUME IInv, NEW u \in users, Delete(u)
    PROVE  IInv'
PROOF
  <1> USE AccountsAssumption DEF IInv, columns, others, targets, Ids, NoUser
  <1>1. CASE Referenced(u)
    <2>1. refused' \subseteq Ids /\ server' \in {"up", "down"}
      <3>1. refused' = refused \union {u} /\ server' = server
        BY <1>1 DEF Delete
      <3>2. u \in Ids /\ refused \subseteq Ids /\ server \in {"up", "down"}
        BY DEF RowsTypeOK
      <3> QED
        BY <3>1, <3>2
    <2>2. UNCHANGED <<lastId, users, columns, issued, session, others>>
      BY <1>1 DEF Delete
    <2> QED
      BY <2>1, <2>2, SameRows
  <1>2. CASE ~Referenced(u)
    <2> USE <1>2 DEF Delete, Referenced
    <2>1. RowsTypeOK'
      BY DEF RowsTypeOK
    <2>2. SessionsApproved'
      BY DEF RowsTypeOK, SessionsApproved
    <2>3. NobodyMissing'
      BY DEF RowsTypeOK, NobodyMissing
    <2>4. Unapproved'
      BY DEF Unapproved
    <2> QED
      BY <2>1, <2>2, <2>3, <2>4
  <1> QED
    BY <1>1, <1>2

LEMMA InitInv == AccountsInit => IInv
PROOF
  <1> SUFFICES ASSUME AccountsInit PROVE IInv
    OBVIOUS
  <1> USE AccountsAssumption DEF AccountsInit, Ids, NoUser
  <1>1. asked \in BOOLEAN /\ verifying \subseteq Ids /\ verifier \in Ids \union {NoUser}
        /\ adminMail \in Ids \union {NoUser}
    OBVIOUS
  <1>2. RowsTypeOK
    BY <1>1 DEF RowsTypeOK
  <1>3. SessionsApproved /\ NobodyMissing /\ Unapproved
    BY DEF SessionsApproved, NobodyMissing, Unapproved
  <1> QED
    BY <1>2, <1>3 DEF IInv

LEMMA NextInv == IInv /\ [AccountsNext]_accountsVars => IInv'
PROOF
  <1> SUFFICES ASSUME IInv, [AccountsNext]_accountsVars PROVE IInv'
    OBVIOUS
  <1> USE AccountsAssumption DEF Ids, NoUser
  <1>1. CASE Startup
    <2>1. CASE Taken(AdminName) \/ adminMail \in users
      <3>1. server' \in {"up", "down"} /\ refused' \subseteq Ids
        BY <1>1 DEF Startup, IInv, RowsTypeOK
      <3>2. UNCHANGED <<lastId, users, columns, issued, session, others>>
        BY <1>1, <2>1 DEF Startup
      <3> QED
        BY <3>1, <3>2, SameRows
    <2>2. CASE ~(Taken(AdminName) \/ adminMail \in users)
      <3>1. Insert(AdminName, "admin", "admin", "approved") /\ server' = "up"
            /\ UNCHANGED <<issued, session, others, refused>>
        BY <1>1, <2>2 DEF Startup
      <3> QED
        BY <3>1, InsertInv
    <2> QED
      BY <2>1, <2>2
  <1>2. CASE Stop
    BY <1>2 DEF Stop, columns, IInv, RowsTypeOK, SessionsApproved, NobodyMissing,
                Unapproved
  <1>3. ASSUME NEW n \in Names, NEW mail, Register(n, mail) PROVE IInv'
    <2>1. Insert(n, mail, "user", "pending") /\ UNCHANGED <<server, issued, session, others, refused>>
      BY <1>3 DEF Register
    <2>2. server' \in {"up", "down"}
      BY <2>1 DEF IInv, RowsTypeOK
    <2> QED
      BY <2>1, <2>2, InsertInv
  <1>4. ASSUME NEW t \in Tokens, SessionEnds(t) PROVE IInv'
    BY <1>4 DEF SessionEnds, columns, others, targets, IInv, RowsTypeOK, SessionsApproved,
                NobodyMissing, Unapproved
  <1>5. ASSUME NEW t \in Tokens, StartScan(t) \/ Verify(t) PROVE IInv'
    <2>1. session[t] \in users /\ session[t] \in Ids
      BY <1>5 DEF StartScan, Verify, Request, IInv, RowsTypeOK
    <2>2. /\ UNCHANGED <<server, lastId, users, columns, issued, session, verifier, blocker, refused>>
          /\ jobs' \in {jobs, jobs \union {session[t]}}
          /\ verifying' \in {verifying, verifying \union {session[t]}}
      BY <1>5 DEF StartScan, Verify
    <2>3. asked' \in BOOLEAN
      BY <1>5 DEF StartScan, Verify, IInv, RowsTypeOK
    <2>4. RowsTypeOK'
      BY <2>1, <2>2, <2>3 DEF columns, IInv, RowsTypeOK
    <2>5. SessionsApproved' /\ NobodyMissing' /\ Unapproved'
      BY <2>1, <2>2 DEF columns, IInv, SessionsApproved, NobodyMissing, Unapproved
    <2> QED
      BY <2>4, <2>5 DEF IInv
  <1>6. ASSUME NEW t \in Tokens, BlockIp(t) \/ UnblockIp(t) PROVE IInv'
    <2>1. blocker' \in users \union {NoUser}
      BY <1>6 DEF BlockIp, UnblockIp, AdminRequest, Request
    <2>2. UNCHANGED <<server, lastId, users, columns, issued, session, jobs, targets, refused>>
      BY <1>6 DEF BlockIp, UnblockIp
    <2>3. RowsTypeOK'
      BY <2>1, <2>2 DEF columns, targets, IInv, RowsTypeOK
    <2>4. SessionsApproved' /\ NobodyMissing' /\ Unapproved'
      BY <2>1, <2>2 DEF columns, targets, IInv, SessionsApproved, NobodyMissing, Unapproved
    <2> QED
      BY <2>3, <2>4 DEF IInv
  <1>7. ASSUME NEW t \in Tokens, NEW u \in Ids, Login(u, t) PROVE IInv'
    BY <1>7 DEF Login, columns, others, targets, IInv, RowsTypeOK, SessionsApproved,
                NobodyMissing, Unapproved
  <1>8. ASSUME NEW t \in Tokens, NEW u \in Ids, Approve(t, u) PROVE IInv'
    <2>1. session[t] \in users /\ u \in users
      BY <1>8 DEF Approve, AdminRequest, Request
    <2>2. RowsTypeOK'
      BY <1>8, <2>1 DEF Approve, others, targets, IInv, RowsTypeOK
    <2>3. SessionsApproved'
      BY <1>8 DEF Approve, others, targets, IInv, RowsTypeOK, SessionsApproved
    <2>4. NobodyMissing'
      BY <1>8, <2>1 DEF Approve, others, targets, IInv, RowsTypeOK, NobodyMissing
    <2>5. Unapproved'
      BY <1>8, <2>1 DEF Approve, IInv, RowsTypeOK, Unapproved
    <2> QED
      BY <2>2, <2>3, <2>4, <2>5 DEF IInv
  <1>9. ASSUME NEW t \in Tokens, NEW u \in Ids, Reject(t, u) \/ DeleteUser(t, u) PROVE IInv'
    BY <1>9, DeleteInv DEF Reject, DeleteUser
  <1>10. ASSUME NEW t \in Tokens, NEW u \in Ids, NEW r \in {"admin", "user"},
                ChangeRole(t, u, r)
         PROVE IInv'
    BY <1>10 DEF ChangeRole, others, targets, IInv, RowsTypeOK, SessionsApproved, NobodyMissing,
                 Unapproved
  <1>11. ASSUME NEW u \in Ids, Verified(u) PROVE IInv'
    <2>1. /\ UNCHANGED <<server, lastId, users, columns, issued, session, jobs, asked, blocker,
                         refused>>
          /\ verifying' = verifying \ {u}
          /\ verifier' = verifier \/ verifier' \in users
      BY <1>11 DEF Verified
    <2>2. RowsTypeOK'
      <3>1. \A v \in users : v \in Ids
        BY DEF IInv, RowsTypeOK
      <3>2. verifier' \in Ids \union {NoUser}
        BY <2>1, <3>1 DEF IInv, RowsTypeOK
      <3>3. verifying' \subseteq Ids
        BY <2>1 DEF IInv, RowsTypeOK
      <3> QED
        BY <2>1, <3>2, <3>3 DEF columns, IInv, RowsTypeOK
    <2>3. SessionsApproved' /\ NobodyMissing' /\ Unapproved'
      BY <2>1 DEF columns, IInv, SessionsApproved, NobodyMissing, Unapproved
    <2> QED
      BY <2>2, <2>3 DEF IInv
  <1>12. CASE UNCHANGED accountsVars
    BY <1>12 DEF accountsVars, columns, others, targets, IInv, RowsTypeOK, SessionsApproved,
                 NobodyMissing, Unapproved
  <1> QED
    BY <1>1, <1>2, <1>3, <1>4, <1>5, <1>6, <1>7, <1>8, <1>9, <1>10, <1>11, <1>12
       DEF AccountsNext, Ids

LEMMA AlwaysIInv == AccountsSpec => []IInv
  BY InitInv, NextInv, PTL DEF AccountsSpec

-----------------------------------------------------------------------------
\* Every reachable state is well typed: ids, roles and statuses keep to their
\* sets, and no row has an id that was not given out.
THEOREM RowsTypeCorrect == AccountsSpec => []RowsTypeOK
PROOF
  <1>1. IInv => RowsTypeOK
    BY DEF IInv
  <1> QED
    BY <1>1, AlwaysIInv, PTL

\* A token that authenticates always belongs to an existing, approved account,
\* through every sequence of registrations, approvals, deletions, changes of
\* roles and restarts.
THEOREM SessionsAlwaysApproved == AccountsSpec => []SessionsApproved
PROOF
  <1>1. IInv => SessionsApproved
    BY DEF IInv
  <1> QED
    BY <1>1, AlwaysIInv, PTL

\* No job, verified target, blocklist entry or approval ever refers to an account
\* that is gone, also when the account was deleted while its verification waited
\* for the target.
THEOREM NobodyEverMissing == AccountsSpec => []NobodyMissing
PROOF
  <1>1. IInv => NobodyMissing
    BY DEF IInv
  <1> QED
    BY <1>1, AlwaysIInv, PTL

-----------------------------------------------------------------------------
\* An administrator loses his place only through a request of an administrator,
\* who is one of them: a step after which none is left is his own.
GoesHimself(u, t) == session[t] = u /\ (Reject(t, u) \/ ChangeRole(t, u, "user"))

LEMMA LastGoesHimself ==
    ASSUME IInv, [AccountsNext]_accountsVars, Administrators # {}, Administrators' = {}
    PROVE  \E u \in Administrators, t \in Tokens : GoesHimself(u, t)
PROOF
  <1> USE AccountsAssumption DEF Ids, NoUser
  <1>1. ASSUME NEW t \in Tokens, AdminRequest(t) PROVE session[t] \in Administrators
    BY <1>1 DEF IInv, SessionsApproved, AdminRequest, Request, RowsTypeOK, Administrators
  <1>2. ASSUME UNCHANGED <<users, role, status>> PROVE FALSE
    BY <1>2 DEF Administrators
  <1>3. ASSUME NEW n, NEW mail, NEW r, NEW st, Insert(n, mail, r, st) PROVE FALSE
    <2>1. PICK u \in users : role[u] = "admin" /\ status[u] = "approved"
      BY DEF Administrators
    <2>2. u # lastId + 1 /\ u \in Ids
      BY DEF IInv, RowsTypeOK
    <2>3. u \in Administrators'
      BY <1>3, <2>1, <2>2 DEF Insert, Administrators, IInv, RowsTypeOK
    <2> QED
      BY <2>3
  <1>4. ASSUME NEW t \in Tokens, NEW u \in Ids, Approve(t, u) PROVE FALSE
    <2>1. session[t] \in Administrators
      BY <1>1, <1>4 DEF Approve
    <2>2. session[t] \in Administrators'
      BY <1>4, <2>1 DEF Approve, Administrators, IInv, RowsTypeOK
    <2> QED
      BY <2>2
  <1>5. ASSUME NEW t \in Tokens, NEW u \in Ids, AdminRequest(t),
               \A v \in Administrators : v # u => v \in Administrators'
        PROVE  session[t] = u /\ u \in Administrators
    BY <1>1, <1>5
  <1>6. ASSUME NEW t \in Tokens, NEW u \in Ids, Reject(t, u) \/ DeleteUser(t, u)
        PROVE  u \in Administrators /\ GoesHimself(u, t)
    <2>1. AdminRequest(t)
      BY <1>6 DEF Reject, DeleteUser
    <2>2. \A v \in Administrators : v # u => v \in Administrators'
      BY <1>6 DEF Reject, DeleteUser, Delete, columns, Administrators
    <2>3. session[t] = u /\ u \in Administrators
      BY <1>5, <2>1, <2>2
    <2> QED
      BY <1>6, <2>3 DEF DeleteUser, GoesHimself
  <1>7. ASSUME NEW t \in Tokens, NEW u \in Ids, NEW r \in {"admin", "user"}, ChangeRole(t, u, r)
        PROVE  u \in Administrators /\ GoesHimself(u, t)
    <2>1. AdminRequest(t)
      BY <1>7 DEF ChangeRole
    <2>2. \A v \in Administrators : v # u => v \in Administrators'
      BY <1>7 DEF ChangeRole, Administrators, IInv, RowsTypeOK
    <2>3. session[t] = u /\ u \in Administrators
      BY <1>5, <2>1, <2>2
    <2>4. r # "admin"
      <3>1. ASSUME r = "admin" PROVE u \in Administrators'
        BY <1>7, <2>3, <3>1 DEF ChangeRole, Administrators, IInv, RowsTypeOK
      <3> QED
        BY <3>1
    <2> QED
      BY <1>7, <2>3, <2>4 DEF GoesHimself
  <1>8. ~Startup /\ ~Stop
    BY <1>2, <1>3 DEF Startup, Stop, columns
  <1>9. \A n, mail : ~Register(n, mail)
    BY <1>3 DEF Register
  <1>10. \A t \in Tokens :
            /\ ~SessionEnds(t) /\ ~StartScan(t) /\ ~Verify(t) /\ ~BlockIp(t) /\ ~UnblockIp(t)
            /\ \A u \in Ids : ~Login(u, t) /\ ~Approve(t, u)
    BY <1>2, <1>4 DEF SessionEnds, StartScan, Verify, BlockIp, UnblockIp, Login, columns
  <1>11. \A u \in Ids : ~Verified(u)
    BY <1>2 DEF Verified, columns
  <1>12. accountsVars' # accountsVars
    BY <1>2 DEF accountsVars, columns
  <1> QED
    BY <1>6, <1>7, <1>8, <1>9, <1>10, <1>11, <1>12 DEF AccountsNext, Ids

\* api.py's admin endpoints: requests of somebody who has lost his rights, or of
\* nobody, cost no administrator his place: the step that leaves none is a request
\* the last one makes himself, to reject or demote his own account.
THEOREM LastAdminAlwaysGoesHimself == AccountsSpec => LastAdminGoesHimself
PROOF
  <1>1. IInv /\ [AccountsNext]_accountsVars =>
          [Administrators # {} /\ Administrators' = {} =>
              \E u \in Administrators, t \in Tokens :
                  session[t] = u /\ (Reject(t, u) \/ ChangeRole(t, u, "user"))]_accountsVars
    BY LastGoesHimself DEF GoesHimself
  <1> QED
    BY <1>1, AlwaysIInv, PTL DEF AccountsSpec, LastAdminGoesHimself

-----------------------------------------------------------------------------
(* Sequences *)

Items(s) == {s[i] : i \in DOMAIN s}
Increasing(s) == \A i, j \in DOMAIN s : i < j => s[i] < s[j]

\* The same for put_nowait calls, pairs of a queue and a number.
CallsInOrder(r) == \A i, j \in DOMAIN r : i < j => r[i][2] < r[j][2]

LEMMA NoItems == Items(<<>>) = {} /\ Increasing(<<>>) /\ CallsInOrder(<<>>)
BY DEF Items, Increasing, CallsInOrder

LEMMA ItemsOfSeq ==
    ASSUME NEW S, NEW s \in Seq(S)
    PROVE  Items(s) \subseteq S
BY LenProperties, ElementOfSeq DEF Items

\* A sequence is its head and its tail.
LEMMA TailItems ==
    ASSUME NEW S, NEW s \in Seq(S), s # <<>>
    PROVE  /\ Head(s) \in S /\ Tail(s) \in Seq(S)
           /\ Items(s) = {Head(s)} \union Items(Tail(s))
<1>1. /\ Len(s) \in Nat \ {0} /\ DOMAIN s = 1..Len(s) /\ Head(s) = s[1]
      /\ Head(s) \in S /\ Tail(s) \in Seq(S)
      /\ DOMAIN Tail(s) = 1..(Len(s) - 1)
      /\ \A i \in 1..(Len(s) - 1) : Tail(s)[i] = s[i + 1]
    BY EmptySeq, LenProperties, HeadTailProperties
<1>2. ASSUME NEW x \in Items(s) PROVE x = Head(s) \/ x \in Items(Tail(s))
  <2>1. PICK i \in 1..Len(s) : x = s[i]
      BY <1>1 DEF Items
  <2>2. CASE i = 1
      BY <1>1, <2>1, <2>2
  <2>3. CASE i # 1
    <3>1. i - 1 \in 1..(Len(s) - 1) /\ Tail(s)[i - 1] = s[i]
        BY <1>1, <2>3
    <3> QED
        BY <1>1, <2>1, <3>1 DEF Items
  <2> QED
      BY <2>2, <2>3
<1>3. Head(s) \in Items(s)
    BY <1>1 DEF Items
<1>4. ASSUME NEW x \in Items(Tail(s)) PROVE x \in Items(s)
  <2>1. PICK i \in 1..(Len(s) - 1) : x = s[i + 1]
      BY <1>1 DEF Items
  <2>2. i + 1 \in 1..Len(s)
      BY <1>1
  <2> QED
      BY <1>1, <2>1, <2>2 DEF Items
<1> QED
    BY <1>1, <1>2, <1>3, <1>4

LEMMA AppendItems ==
    ASSUME NEW S, NEW s \in Seq(S), NEW x \in S
    PROVE  Append(s, x) \in Seq(S) /\ Items(Append(s, x)) = Items(s) \union {x}
<1>1. /\ Len(s) \in Nat /\ DOMAIN s = 1..Len(s)
      /\ Append(s, x) \in Seq(S) /\ DOMAIN Append(s, x) = 1..(Len(s) + 1)
      /\ \A i \in 1..Len(s) : Append(s, x)[i] = s[i]
      /\ Append(s, x)[Len(s) + 1] = x
    BY LenProperties, AppendProperties
<1>2. \A i \in 1..(Len(s) + 1) : i = Len(s) + 1 \/ i \in 1..Len(s)
    BY <1>1
<1>3. Len(s) + 1 \in 1..(Len(s) + 1) /\ \A i \in 1..Len(s) : i \in 1..(Len(s) + 1)
    BY <1>1
<1> QED
    BY <1>1, <1>2, <1>3 DEF Items

\* The head of an increasing sequence is less than what comes after it,
LEMMA TailIncreasing ==
    ASSUME NEW s \in Seq(Nat), s # <<>>, Increasing(s)
    PROVE  Increasing(Tail(s)) /\ \A x \in Items(Tail(s)) : Head(s) < x
<1>1. /\ Len(s) \in Nat \ {0} /\ DOMAIN s = 1..Len(s) /\ Head(s) = s[1]
      /\ DOMAIN Tail(s) = 1..(Len(s) - 1)
      /\ \A i \in 1..(Len(s) - 1) : Tail(s)[i] = s[i + 1]
    BY EmptySeq, LenProperties, HeadTailProperties
<1>2. \A i, j \in 1..Len(s) : i < j => s[i] < s[j]
    BY <1>1 DEF Increasing
<1>3. \A i \in 1..(Len(s) - 1) : i + 1 \in 1..Len(s) /\ 1 < i + 1
    BY <1>1
<1>4. \A i, j \in 1..(Len(s) - 1) : i < j => i + 1 < j + 1
    BY <1>1
<1>5. Increasing(Tail(s))
    BY <1>1, <1>2, <1>3, <1>4 DEF Increasing
<1>6. \A i \in 1..(Len(s) - 1) : s[1] < s[i + 1]
    BY <1>1, <1>2, <1>3
<1> QED
    BY <1>1, <1>5, <1>6 DEF Items

\* and a greater number keeps it increasing.
LEMMA AppendIncreasing ==
    ASSUME NEW s \in Seq(Nat), Increasing(s), NEW x \in Nat, \A y \in Items(s) : y < x
    PROVE  Increasing(Append(s, x))
<1>1. /\ Len(s) \in Nat /\ DOMAIN s = 1..Len(s)
      /\ DOMAIN Append(s, x) = 1..(Len(s) + 1)
      /\ \A i \in 1..Len(s) : Append(s, x)[i] = s[i]
      /\ Append(s, x)[Len(s) + 1] = x
    BY LenProperties, AppendProperties
<1>2. SUFFICES ASSUME NEW i \in 1..(Len(s) + 1), NEW j \in 1..(Len(s) + 1), i < j
               PROVE  Append(s, x)[i] < Append(s, x)[j]
    BY <1>1 DEF Increasing
<1>3. i \in 1..Len(s) /\ (j = Len(s) + 1 \/ j \in 1..Len(s))
    BY <1>1, <1>2
<1>4. s[i] \in Items(s)
    BY <1>1, <1>3 DEF Items
<1> QED
    BY <1>1, <1>2, <1>3, <1>4 DEF Increasing

LEMMA TailCalls ==
    ASSUME NEW S, NEW r \in Seq(S \X Nat), r # <<>>, CallsInOrder(r)
    PROVE  CallsInOrder(Tail(r)) /\ \A c \in Items(Tail(r)) : Head(r)[2] < c[2]
<1>1. /\ Len(r) \in Nat \ {0} /\ DOMAIN r = 1..Len(r) /\ Head(r) = r[1]
      /\ DOMAIN Tail(r) = 1..(Len(r) - 1)
      /\ \A i \in 1..(Len(r) - 1) : Tail(r)[i] = r[i + 1]
    BY EmptySeq, LenProperties, HeadTailProperties
<1>2. \A i, j \in 1..Len(r) : i < j => r[i][2] < r[j][2]
    BY <1>1 DEF CallsInOrder
<1>3. \A i \in 1..(Len(r) - 1) : i + 1 \in 1..Len(r) /\ 1 < i + 1
    BY <1>1
<1>4. \A i, j \in 1..(Len(r) - 1) : i < j => i + 1 < j + 1
    BY <1>1
<1>5. CallsInOrder(Tail(r))
    BY <1>1, <1>2, <1>3, <1>4 DEF CallsInOrder
<1>6. \A i \in 1..(Len(r) - 1) : r[1][2] < r[i + 1][2]
    BY <1>1, <1>2, <1>3
<1> QED
    BY <1>1, <1>5, <1>6 DEF Items

LEMMA AppendCalls ==
    ASSUME NEW S, NEW r \in Seq(S \X Nat), CallsInOrder(r),
           NEW x \in S \X Nat, \A c \in Items(r) : c[2] < x[2]
    PROVE  CallsInOrder(Append(r, x))
<1>1. /\ Len(r) \in Nat /\ DOMAIN r = 1..Len(r)
      /\ DOMAIN Append(r, x) = 1..(Len(r) + 1)
      /\ \A i \in 1..Len(r) : Append(r, x)[i] = r[i]
      /\ Append(r, x)[Len(r) + 1] = x
    BY LenProperties, AppendProperties
<1>2. SUFFICES ASSUME NEW i \in 1..(Len(r) + 1), NEW j \in 1..(Len(r) + 1), i < j
               PROVE  Append(r, x)[i][2] < Append(r, x)[j][2]
    BY <1>1 DEF CallsInOrder
<1>3. i \in 1..Len(r) /\ (j = Len(r) + 1 \/ j \in 1..Len(r))
  <2>1. Len(r) \in Nat
      BY <1>1
  <2> QED
      BY <2>1, <1>2
<1>4. r[i] \in Items(r)
    BY <1>1, <1>3 DEF Items
<1> QED
    BY <1>1, <1>2, <1>3, <1>4 DEF CallsInOrder

-----------------------------------------------------------------------------
(* The streams: types *)

\* A generator that runs has its queue.
SseTypeInv ==
    /\ TypeOK
    /\ \A s \in Streams : stream[s] # "free" => streamQueue[s] \in Queues

\* The end is announced by the worker as it returns, or afterwards.
Announced == \E i \in 1..Len(log) : log[i] = "end"

QuietInv ==
    /\ Announced => at["main"] = "returned"
    /\ ended => Announced

\* What a push adds to the log,
LEMMA LogGrows ==
    ASSUME NEW l \in Seq(Kinds), NEW kind \in Kinds
    PROVE  /\ Append(l, kind) \in Seq(Kinds)
           /\ Len(l) \in Nat /\ Len(Append(l, kind)) = Len(l) + 1
           /\ \A i \in 1..Len(l) : Append(l, kind)[i] = l[i]
           /\ Append(l, kind)[Len(l) + 1] = kind
BY LenProperties, AppendProperties

\* and what the producers do.
LEMMA ProduceMoves ==
    ASSUME SseTypeInv, Produce
    PROVE  /\ UNCHANGED <<registered, contents, streamVars, pageVars, leaves>>
           /\ \/ log' = log /\ ready' = ready
              \/ \E kind \in Kinds :
                    /\ log' = Append(log, kind)
                    /\ \/ registered = NoQueue /\ ready' = ready
                       \/ /\ registered \in Queues
                          /\ ready' = Append(ready, <<registered, Len(log) + 1>>)
<1>1. registered = NoQueue \/ registered \in Queues
    BY DEF SseTypeInv, TypeOK
<1>2. ASSUME NEW kind \in Kinds, Push(kind)
      PROVE  /\ log' = Append(log, kind)
             /\ \/ registered = NoQueue /\ ready' = ready
                \/ /\ registered \in Queues
                   /\ ready' = Append(ready, <<registered, Len(log) + 1>>)
    BY <1>1, <1>2, SseAssumption DEF Push
<1>3. \A th \in Threads : EventOf(th) \in Kinds
    BY DEF EventOf, Kinds
<1>4. ASSUME NEW th \in Threads, Thread(th)
      PROVE  /\ UNCHANGED <<registered, contents, streamVars, pageVars, leaves>>
             /\ \/ log' = log /\ ready' = ready
                \/ log' = Append(log, EventOf(th)) /\ registered = NoQueue /\ ready' = ready
                \/ Push(EventOf(th))
    BY <1>4 DEF Thread, Reports, Checks, Schedules, queueVars
<1>5. CASE Start \/ Fork \/ Cancels \/ Returns \/ Finish
  <2>1. /\ UNCHANGED <<registered, contents, streamVars, pageVars, leaves>>
        /\ \/ log' = log /\ ready' = ready
           \/ Push("progress")
           \/ Push("end")
      BY <1>5 DEF Start, Fork, Cancels, Returns, Finish, queueVars
  <2>2. "progress" \in Kinds /\ "end" \in Kinds
      BY DEF Kinds
  <2> QED
      BY <1>2, <2>1, <2>2
<1>6. CASE \E th \in Threads : Thread(th)
  <2>1. PICK th \in Threads : Thread(th)
      BY <1>6
  <2> QED
      BY <1>2, <1>3, <1>4, <2>1
<1>7. "main" \in Threads /\ "zap" \in Threads /\ "monitor" \in Threads
    BY DEF Threads
<1> QED
    BY <1>5, <1>6, <1>7 DEF Produce, Scan

\* What a step of a stream, and a page, leave of the queues.
LEMMA LeftOf ==
    ASSUME NEW queues \in [Queues -> Seq(Nat)], NEW s \in Streams
    PROVE  /\ Left(s, queues) \in [Queues -> Seq(Nat)]
           /\ \A q \in Queues : Left(s, queues)[q] = queues[q] \/ Left(s, queues)[q] = <<>>
           /\ \A q \in Queues : (\E t \in Streams \ {s} : Read(q, t)) => Left(s, queues)[q] = queues[q]
BY EmptySeq DEF Left

LEMMA FetchTypes ==
    ASSUME TypeOK, NEW p \in Pages, Fetch(p) \/ UNCHANGED fetches
    PROVE  fetches' \in [Pages -> SUBSET {"active", "end"}]
<1>1. Status \in {"active", "end"}
    BY DEF Status
<1>2. fetches[p] \union {Status} \in SUBSET {"active", "end"}
    BY <1>1 DEF TypeOK
<1> QED
    BY <1>2 DEF TypeOK, Fetch

LEMMA ReceiveTypes ==
    ASSUME TypeOK, NEW p \in Pages, NEW kind, Receive(p, kind)
    PROVE  /\ page' \in [Pages -> {"loaded", "watching", "polling", "left"}]
           /\ card' = card /\ lost' = lost
           /\ shows' \in [Pages -> {"active", "end"}]
           /\ fetches' \in [Pages -> SUBSET {"active", "end"}]
<1>1. fetches' \in [Pages -> SUBSET {"active", "end"}]
    BY FetchTypes DEF Receive
<1>2. shows' = shows \/ shows' = [shows EXCEPT ![p] = "active"]
    BY DEF Receive
<1>3. page' = page \/ page' = [page EXCEPT ![p] = "left"]
    BY DEF Receive
<1>4. shows' \in [Pages -> {"active", "end"}]
    BY <1>2 DEF TypeOK
<1>5. page' \in [Pages -> {"loaded", "watching", "polling", "left"}]
    BY <1>3 DEF TypeOK
<1> QED
    BY <1>1, <1>4, <1>5 DEF Receive

LEMMA CloseTypes ==
    ASSUME SseTypeInv, NEW s \in Streams, Close(s)
    PROVE  /\ registered' \in Queues \union {NoQueue}
           /\ stream' \in [Streams -> {"free", "open", "dropped"}]
           /\ streamQueue' \in [Streams -> Queues \union {NoQueue}]
           /\ owner' \in [Streams -> Pages]
           /\ \A t \in Streams : stream'[t] # "free" => streamQueue'[t] \in Queues
<1>1. Nobody \in Pages
    BY SseAssumption DEF Nobody
<1> QED
    BY <1>1 DEF SseTypeInv, TypeOK, Close

LEMMA InitSseTypeInv == Init => SseTypeInv /\ QuietInv
<1> SUFFICES ASSUME Init PROVE SseTypeInv /\ QuietInv
    OBVIOUS
<1> USE SseAssumption
<1>1. Nobody \in Pages /\ registered \in Queues
    BY DEF Nobody, Init
<1>2. /\ contents \in [Queues -> Seq(Nat)]
      /\ ready \in Seq(Queues \X Nat) /\ log \in Seq(Kinds)
    BY EmptySeq DEF Init
<1>3. ended \in BOOLEAN /\ cancelled \in BOOLEAN
    BY DEF Init
<1>4. reports \in 0..MaxReports /\ leaves \in 0..MaxLeaves /\ failed \subseteq Threads
      /\ at \in [Threads -> {"queued", "running", "checking", "indexing", "returned"}]
    BY DEF Init
<1>5. /\ stream \in [Streams -> {"free", "open", "dropped"}]
      /\ streamQueue \in [Streams -> Queues \union {NoQueue}]
      /\ owner \in [Streams -> Pages]
      /\ \A s \in Streams : stream[s] = "free"
    BY <1>1 DEF Init
<1>6. /\ page \in [Pages -> {"loaded", "watching", "polling", "left"}]
      /\ card \in [Pages -> {"badge", "bare"}]
      /\ shows \in [Pages -> {"active", "end"}]
      /\ fetches \in [Pages -> SUBSET {"active", "end"}]
      /\ received \in [Pages -> SUBSET Nat]
      /\ lost \subseteq Pages
    BY DEF Init
<1>7. SseTypeInv
    BY <1>1, <1>2, <1>3, <1>4, <1>5, <1>6 DEF SseTypeInv, TypeOK
<1>8. log = <<>> /\ ~ended
    BY DEF Init
<1>9. ~Announced
    BY <1>8 DEF Announced
<1> QED
    BY <1>7, <1>8, <1>9 DEF QuietInv

\* Each kind of step on its own: the producers,
LEMMA ProduceTypes == SseTypeInv /\ Produce => SseTypeInv'
<1> SUFFICES ASSUME SseTypeInv, Produce PROVE SseTypeInv'
    OBVIOUS
<1> USE SseAssumption
<1>1. /\ UNCHANGED <<registered, contents, streamVars, pageVars, leaves>>
      /\ \/ log' = log /\ ready' = ready
         \/ \E kind \in Kinds :
               /\ log' = Append(log, kind)
               /\ \/ registered = NoQueue /\ ready' = ready
                  \/ /\ registered \in Queues
                     /\ ready' = Append(ready, <<registered, Len(log) + 1>>)
    BY ProduceMoves
<1>2. log \in Seq(Kinds) /\ ready \in Seq(Queues \X Nat)
    BY DEF SseTypeInv, TypeOK
<1>3. log' \in Seq(Kinds)
    BY <1>1, <1>2, LogGrows
<1>4. ready' \in Seq(Queues \X Nat)
  <2>1. Len(log) + 1 \in Nat
      BY <1>2, LenProperties
  <2>2. registered \in Queues => <<registered, Len(log) + 1>> \in Queues \X Nat
      BY <2>1
  <2>3. \A x \in Queues \X Nat : Append(ready, x) \in Seq(Queues \X Nat)
      BY <1>2, AppendItems
  <2> QED
      BY <1>1, <1>2, <2>2, <2>3
<1>5. /\ at' \in [Threads -> {"queued", "running", "checking", "indexing", "returned"}]
      /\ failed' \subseteq Threads
  <2>1. /\ at \in [Threads -> {"queued", "running", "checking", "indexing", "returned"}]
        /\ failed \subseteq Threads
      BY DEF SseTypeInv, TypeOK
  <2>2. CASE Start \/ Fork \/ Cancels \/ Returns \/ Finish
      BY <2>1, <2>2 DEF Start, Fork, Cancels, Returns, Finish
  <2>3. ASSUME NEW th \in Threads, Thread(th)
        PROVE  /\ at' \in [Threads -> {"queued", "running", "checking", "indexing", "returned"}]
               /\ failed' \subseteq Threads
      BY <2>1, <2>3 DEF Thread, Reports, Checks, Schedules, After
  <2>4. "main" \in Threads /\ "zap" \in Threads /\ "monitor" \in Threads
      BY DEF Threads
  <2> QED
      BY <2>2, <2>3, <2>4 DEF Produce, Scan
<1>6. reports' \in 0..MaxReports
  <2>1. reports' = reports \/ (reports < MaxReports /\ reports' = reports + 1)
      BY DEF Produce, Scan, Start, Fork, Cancels, Returns, Finish, Thread, Reports, Checks, Schedules
  <2> QED
      BY <2>1 DEF SseTypeInv, TypeOK
<1>7. ended' \in BOOLEAN /\ cancelled' \in BOOLEAN
    BY DEF Produce, Scan, Start, Fork, Cancels, Returns, Finish, Thread, Reports, Checks, Schedules,
           SseTypeInv, TypeOK
<1> QED
    BY <1>1, <1>3, <1>4, <1>5, <1>6, <1>7 DEF SseTypeInv, TypeOK, streamVars, pageVars

\* the loop,
LEMMA LoopPutsTypes == SseTypeInv /\ LoopPuts => SseTypeInv'
<1> SUFFICES ASSUME SseTypeInv, LoopPuts PROVE SseTypeInv'
    OBVIOUS
<1>1. /\ ready # <<>> /\ ready \in Seq(Queues \X Nat)
      /\ ready' = Tail(ready) /\ Put(Head(ready))
      /\ UNCHANGED <<scanVars, registered, streamVars, pageVars, leaves>>
    BY DEF LoopPuts, SseTypeInv, TypeOK
<1>2. Head(ready) \in Queues \X Nat /\ ready' \in Seq(Queues \X Nat)
    BY <1>1, TailItems
<1>3. contents' \in [Queues -> Seq(Nat)]
  <2>1. PICK q \in Queues, n \in Nat : Head(ready) = <<q, n>>
      BY <1>2
  <2>2. contents \in [Queues -> Seq(Nat)]
      BY DEF SseTypeInv, TypeOK
  <2>3. Append(contents[q], n) \in Seq(Nat)
      BY <2>2, AppendItems
  <2> QED
      BY <1>1, <2>1, <2>2, <2>3 DEF Put
<1> QED
    BY <1>1, <1>2, <1>3 DEF SseTypeInv, TypeOK, scanVars, streamVars, pageVars

\* the streams.  A stream takes the head of its queue or nothing, and hands it to
\* its page or to nobody; a stream that closes leaves the queues to the others.
HandsOver(s, n) ==
    \/ /\ stream[s] = "open"
       /\ Receive(owner[s], log[n])
       /\ received' = [received EXCEPT ![owner[s]] = @ \union {n}]
    \/ stream[s] = "dropped" /\ UNCHANGED pageVars

TakesEvent(s, q) ==
    /\ contents[q] # <<>>
    /\ contents' = [contents EXCEPT ![q] = Tail(@)]
    /\ log[Head(contents[q])] # "end"
    /\ UNCHANGED <<streamVars, registered>>
    /\ HandsOver(s, Head(contents[q]))

TakesEnd(s, q) ==
    /\ contents[q] # <<>>
    /\ contents' = Left(s, [contents EXCEPT ![q] = Tail(@)])
    /\ log[Head(contents[q])] = "end"
    /\ Close(s)
    /\ HandsOver(s, Head(contents[q]))

GivesUp(s, q) ==
    /\ contents' = Left(s, contents) /\ Close(s)
    /\ \/ stream[s] = "open" /\ ended /\ Receive(owner[s], "end") /\ received' = received
       \/ stream[s] = "dropped" /\ UNCHANGED pageVars

LEMMA StreamMoves ==
    ASSUME SseTypeInv, NEW s \in Streams, StreamStep(s)
    PROVE  /\ UNCHANGED <<scanVars, ready, leaves>>
           /\ stream[s] # "free"
           /\ \E q \in Queues :
                 /\ q = streamQueue[s]
                 /\ TakesEvent(s, q) \/ TakesEnd(s, q) \/ GivesUp(s, q)
<1>1. CASE Deliver(s)
  <2>1. streamQueue[s] \in Queues
      BY <1>1 DEF Deliver, SseTypeInv
  <2>2. PICK q \in Queues : q = streamQueue[s]
      BY <2>1
  <2> QED
      BY <1>1, <2>2 DEF Deliver, TakesEvent, TakesEnd, HandsOver
<1>2. CASE TimesOut(s) \/ Disconnect(s)
  <2>1. streamQueue[s] \in Queues
      BY <1>2 DEF TimesOut, Disconnect, SseTypeInv
  <2> QED
      BY <1>2, <2>1 DEF TimesOut, Disconnect, GivesUp
<1> QED
    BY <1>1, <1>2 DEF StreamStep

LEMMA StreamTypes == SseTypeInv /\ (\E s \in Streams : StreamStep(s)) => SseTypeInv'
<1> SUFFICES ASSUME SseTypeInv, NEW s \in Streams, StreamStep(s) PROVE SseTypeInv'
    OBVIOUS
<1> USE SseAssumption
<1>1. /\ TypeOK /\ contents \in [Queues -> Seq(Nat)] /\ owner[s] \in Pages
      /\ received \in [Pages -> SUBSET Nat]
    BY DEF SseTypeInv, TypeOK
<1>2. UNCHANGED <<scanVars, ready, leaves>>
    BY StreamMoves
<1>3. PICK q \in Queues :
          q = streamQueue[s] /\ (TakesEvent(s, q) \/ TakesEnd(s, q) \/ GivesUp(s, q))
    BY StreamMoves
<1>4. contents[q] # <<>> =>
          /\ Head(contents[q]) \in Nat /\ Tail(contents[q]) \in Seq(Nat)
          /\ [contents EXCEPT ![q] = Tail(@)] \in [Queues -> Seq(Nat)]
  <2>1. contents[q] # <<>> => Head(contents[q]) \in Nat /\ Tail(contents[q]) \in Seq(Nat)
      BY <1>1, TailItems
  <2> QED
      BY <1>1, <2>1
<1>5. contents' \in [Queues -> Seq(Nat)]
  <2>1. \A queues \in [Queues -> Seq(Nat)] : Left(s, queues) \in [Queues -> Seq(Nat)]
      BY LeftOf
  <2> QED
      BY <1>1, <1>3, <1>4, <2>1 DEF TakesEvent, TakesEnd, GivesUp
<1>6. (\E kind \in Kinds \union {log[Head(contents[q])]} : Receive(owner[s], kind)) \/ UNCHANGED pageVars
    BY <1>3 DEF TakesEvent, TakesEnd, GivesUp, HandsOver, Kinds
<1>7. /\ page' \in [Pages -> {"loaded", "watching", "polling", "left"}]
      /\ card' = card /\ lost' = lost
      /\ shows' \in [Pages -> {"active", "end"}]
      /\ fetches' \in [Pages -> SUBSET {"active", "end"}]
    BY <1>1, <1>6, ReceiveTypes DEF TypeOK, pageVars
<1>8. received' \in [Pages -> SUBSET Nat]
  <2>1. \/ received' = received
        \/ /\ contents[q] # <<>>
           /\ received' = [received EXCEPT ![owner[s]] = @ \union {Head(contents[q])}]
      BY <1>3 DEF TakesEvent, TakesEnd, GivesUp, HandsOver, pageVars
  <2> QED
      BY <1>1, <1>4, <2>1
<1>9. /\ registered' \in Queues \union {NoQueue}
      /\ stream' \in [Streams -> {"free", "open", "dropped"}]
      /\ streamQueue' \in [Streams -> Queues \union {NoQueue}]
      /\ owner' \in [Streams -> Pages]
      /\ \A t \in Streams : stream'[t] # "free" => streamQueue'[t] \in Queues
  <2>1. Close(s) \/ UNCHANGED <<streamVars, registered>>
      BY <1>3 DEF TakesEvent, TakesEnd, GivesUp
  <2> QED
      BY <2>1, CloseTypes DEF SseTypeInv, TypeOK, streamVars
<1> QED
    BY <1>2, <1>5, <1>7, <1>8, <1>9 DEF SseTypeInv, TypeOK, scanVars

\* a page that connects,
LEMMA OpenedStream ==
    ASSUME SseTypeInv, NEW p \in Pages, NEW q \in Queues, Open(p, q)
    PROVE  \E s \in Streams :
              /\ stream[s] = "free"
              /\ stream' = [stream EXCEPT ![s] = "open"]
              /\ owner' = [owner EXCEPT ![s] = p]
              /\ streamQueue' = [streamQueue EXCEPT ![s] = q]
              /\ registered' = q
              /\ page' = [page EXCEPT ![p] = "watching"]
              /\ UNCHANGED <<card, shows, fetches, lost>>
<1>1. FreeSlot \in Streams /\ stream[FreeSlot] = "free"
    BY DEF Open, FreeSlot
<1> QED
    BY <1>1 DEF Open

LEMMA Connects ==
    ASSUME SseTypeInv, NEW p \in Pages, Connect(p)
    PROVE  /\ page[p] = "loaded"
           /\ \/ ended /\ Receive(p, "end") /\ UNCHANGED <<streamVars, registered>>
              \/ /\ ~ended
                 /\ \E q \in Queues : /\ Open(p, q)
                                      /\ registered # NoQueue => q = registered
           /\ UNCHANGED <<scanVars, contents, ready, received, leaves>>
<1>1. Fresh # {} => NewQueue \in Queues
    BY DEF NewQueue, Fresh
<1>2. registered \in Queues \union {NoQueue}
    BY DEF SseTypeInv, TypeOK
<1> QED
    BY <1>1, <1>2 DEF Connect

LEMMA ConnectTypes == SseTypeInv /\ (\E p \in Pages : Connect(p)) => SseTypeInv'
<1> SUFFICES ASSUME SseTypeInv, NEW p \in Pages, Connect(p) PROVE SseTypeInv'
    OBVIOUS
<1>1. UNCHANGED <<scanVars, contents, ready, received, leaves>>
    BY Connects
<1>2. CASE Receive(p, "end") /\ UNCHANGED <<streamVars, registered>>
  <2>1. /\ page' \in [Pages -> {"loaded", "watching", "polling", "left"}]
        /\ card' = card /\ lost' = lost
        /\ shows' \in [Pages -> {"active", "end"}]
        /\ fetches' \in [Pages -> SUBSET {"active", "end"}]
      BY <1>2, ReceiveTypes DEF SseTypeInv
  <2> QED
      BY <1>1, <1>2, <2>1 DEF SseTypeInv, TypeOK, streamVars, scanVars
<1>3. ASSUME NEW q \in Queues, Open(p, q) PROVE SseTypeInv'
  <2>1. PICK s \in Streams :
              /\ stream' = [stream EXCEPT ![s] = "open"]
              /\ owner' = [owner EXCEPT ![s] = p]
              /\ streamQueue' = [streamQueue EXCEPT ![s] = q]
              /\ registered' = q
              /\ page' = [page EXCEPT ![p] = "watching"]
              /\ UNCHANGED <<card, shows, fetches, lost>>
      BY <1>3, OpenedStream
  <2>2. /\ stream' \in [Streams -> {"free", "open", "dropped"}]
        /\ owner' \in [Streams -> Pages]
        /\ page' \in [Pages -> {"loaded", "watching", "polling", "left"}]
      BY <2>1 DEF SseTypeInv, TypeOK
  <2>3. /\ streamQueue' \in [Streams -> Queues \union {NoQueue}]
        /\ \A t \in Streams : stream'[t] # "free" => streamQueue'[t] \in Queues
      BY <2>1 DEF SseTypeInv, TypeOK
  <2> QED
      BY <1>1, <2>1, <2>2, <2>3 DEF SseTypeInv, TypeOK, scanVars
<1> QED
    BY <1>2, <1>3, Connects

\* and everything else a page does.
LEMMA PageTypes ==
    ASSUME SseTypeInv, NEW p \in Pages,
           Reload(p) \/ ConnectionBreaks(p) \/ Refresh(p) \/ Show(p) \/ ResponseLost(p)
    PROVE  SseTypeInv'
<1> USE SseAssumption
<1>1. /\ UNCHANGED <<scanVars, queueVars, streamQueue, owner>>
      /\ stream' = stream \/ Drop(p)
    BY DEF Reload, ConnectionBreaks, Refresh, Show, ResponseLost, streamVars
<1>2. /\ stream' \in [Streams -> {"free", "open", "dropped"}]
      /\ \A s \in Streams : stream'[s] # "free" => stream[s] # "free"
    BY <1>1 DEF SseTypeInv, TypeOK, Drop, StreamOf
<1>3. leaves' \in 0..MaxLeaves
    BY DEF SseTypeInv, TypeOK, Reload, ConnectionBreaks, Refresh, Show, ResponseLost, Leave
<1>4. page' \in [Pages -> {"loaded", "watching", "polling", "left"}]
  <2>1. \/ page' = page
        \/ \E st \in {"loaded", "polling", "left", page[p]} : page' = [page EXCEPT ![p] = st]
      BY DEF Reload, ConnectionBreaks, Refresh, Show, ResponseLost
  <2> QED
      BY <2>1 DEF SseTypeInv, TypeOK
<1>5. Status \in {"active", "end"}
    BY DEF Status
<1>6. shows' \in [Pages -> {"active", "end"}]
  <2>1. fetches[p] \subseteq {"active", "end"}
      BY DEF SseTypeInv, TypeOK
  <2>2. \/ shows' = shows
        \/ \E v \in {"active", "end"} : shows' = [shows EXCEPT ![p] = v]
      BY <1>5, <2>1 DEF Reload, ConnectionBreaks, Refresh, Show, ResponseLost
  <2> QED
      BY <2>2 DEF SseTypeInv, TypeOK
<1>7. fetches' \in [Pages -> SUBSET {"active", "end"}]
  <2>1. fetches[p] \subseteq {"active", "end"} /\ TypeOK
      BY DEF SseTypeInv, TypeOK
  <2>2. \/ Fetch(p) \/ UNCHANGED fetches
        \/ \E f \in SUBSET {"active", "end"} : fetches' = [fetches EXCEPT ![p] = f]
      BY <2>1 DEF Reload, ConnectionBreaks, Refresh, Show, ResponseLost
  <2> QED
      BY <2>1, <2>2, FetchTypes DEF TypeOK
<1>8. received' \in [Pages -> SUBSET Nat]
  <2>1. received' = received \/ received' = [received EXCEPT ![p] = {}]
      BY DEF Reload, ConnectionBreaks, Refresh, Show, ResponseLost
  <2> QED
      BY <2>1 DEF SseTypeInv, TypeOK
<1>9. card' \in [Pages -> {"badge", "bare"}] /\ lost' \subseteq Pages
  <2>1. card' = card \/ card' = [card EXCEPT ![p] = "badge"]
      BY DEF Reload, ConnectionBreaks, Refresh, Show, ResponseLost
  <2>2. lost' = lost \/ lost' = lost \union {p}
      BY DEF Reload, ConnectionBreaks, Refresh, Show, ResponseLost
  <2> QED
      BY <2>1, <2>2 DEF SseTypeInv, TypeOK
<1> QED
    BY <1>1, <1>2, <1>3, <1>4, <1>6, <1>7, <1>8, <1>9
       DEF SseTypeInv, TypeOK, scanVars, queueVars

LEMMA NextSseTypeInv == SseTypeInv /\ [Next]_vars => SseTypeInv'
<1>1. SseTypeInv /\ UNCHANGED vars => SseTypeInv'
    BY DEF SseTypeInv, TypeOK, vars, scanVars, queueVars, streamVars, pageVars
<1> QED
    BY <1>1, ProduceTypes, LoopPutsTypes, StreamTypes, ConnectTypes, PageTypes DEF Next

\* Every variable of the streams and the pages keeps its type.
THEOREM SseTypeCorrect == Spec => []TypeOK
<1>1. SseTypeInv => TypeOK
    BY DEF SseTypeInv
<1> QED
    BY InitSseTypeInv, NextSseTypeInv, <1>1, PTL DEF Spec

\* An event that announces the end comes from the worker as it returns, or from
\* the loop once it has.
LEMMA AnnouncedGrows ==
    ASSUME SseTypeInv, NEW kind \in Kinds, log' = Append(log, kind)
    PROVE  Announced' <=> Announced \/ kind = "end"
<1>1. log \in Seq(Kinds)
    BY DEF SseTypeInv, TypeOK
<1>2. /\ Len(log) \in Nat /\ Len(log') = Len(log) + 1
      /\ \A i \in 1..Len(log) : log'[i] = log[i]
      /\ log'[Len(log) + 1] = kind
    BY <1>1, LogGrows
<1>3. \A i \in 1..(Len(log) + 1) : i \in 1..Len(log) \/ i = Len(log) + 1
    BY <1>2
<1>4. Len(log) + 1 \in 1..(Len(log) + 1) /\ \A i \in 1..Len(log) : i \in 1..(Len(log) + 1)
    BY <1>2
<1> QED
    BY <1>2, <1>3, <1>4 DEF Announced

LEMMA ProduceQuiet == SseTypeInv /\ QuietInv /\ Produce => QuietInv'
<1> SUFFICES ASSUME SseTypeInv, QuietInv, Produce PROVE QuietInv'
    OBVIOUS
<1>1. at \in [Threads -> {"queued", "running", "checking", "indexing", "returned"}]
      /\ "main" \in Threads
    BY DEF SseTypeInv, TypeOK, Threads
<1>2. "progress" \in Kinds /\ "end" \in Kinds /\ \A th \in Threads : EventOf(th) \in Kinds
    BY DEF Kinds, EventOf
<1>3. CASE Start
  <2>1. ~Announced /\ ~ended /\ log' = Append(log, "progress") /\ ended' = ended
      BY <1>3 DEF Start, Push, QuietInv
  <2>2. ~Announced'
      BY <1>2, <2>1, AnnouncedGrows
  <2> QED
      BY <2>1, <2>2 DEF QuietInv
<1>4. CASE Fork \/ Cancels \/ Returns
    BY <1>1, <1>4 DEF Fork, Cancels, Returns, QuietInv, Announced
<1>5. CASE Finish
  <2>1. at["main"] = "returned" /\ at' = at /\ log' = Append(log, "end")
      BY <1>5 DEF Finish, Push
  <2>2. Announced'
      BY <1>2, <2>1, AnnouncedGrows
  <2> QED
      BY <2>1, <2>2 DEF QuietInv
<1>6. ASSUME NEW th \in Threads, Thread(th) PROVE QuietInv'
  <2>1. ended' = ended
      BY <1>6 DEF Thread, Reports, Checks, Schedules
  <2>2. \A x : at' = [at EXCEPT ![th] = x] => at'["main"] = IF th = "main" THEN x ELSE at["main"]
      BY <1>1
  <2>3. CASE log' = log
    <3>1. at["main"] = "returned" => at'["main"] = "returned"
      <4>1. th = "main" => at["main"] # "returned"
          BY <1>6 DEF Thread, Reports, Checks, Schedules
      <4>2. \E x : at' = [at EXCEPT ![th] = x]
          BY <1>6 DEF Thread, Reports, Checks, Schedules
      <4> QED
          BY <2>2, <4>1, <4>2
    <3> QED
        BY <2>1, <2>3, <3>1 DEF QuietInv, Announced
  <2>4. CASE log' = Append(log, EventOf(th)) /\ (Checks(th) \/ Schedules(th))
    <3>1. Announced' <=> Announced \/ EventOf(th) = "end"
        BY <1>2, <2>4, AnnouncedGrows
    <3>2. CASE th = "main"
      <4>1. ~Announced
          BY <2>4, <3>2 DEF Checks, Schedules, QuietInv
      <4>2. EventOf(th) = "end" => After(th) = "returned"
          BY <3>2 DEF EventOf, After
      <4>3. \/ at' = [at EXCEPT ![th] = After(th)]
            \/ at' = [at EXCEPT ![th] = "returned"]
            \/ log' = log
          BY <2>4 DEF Checks, Schedules
      <4>4. log' # log
        <5>1. log \in Seq(Kinds)
            BY DEF SseTypeInv, TypeOK
        <5>2. Len(log) \in Nat /\ Len(log') = Len(log) + 1
            BY <1>2, <2>4, <5>1, LogGrows
        <5> QED
            BY <5>2
      <4>5. EventOf(th) = "end" => at'["main"] = "returned"
          BY <2>2, <3>2, <4>2, <4>3, <4>4
      <4>6. ~ended'
          BY <2>1, <4>1 DEF QuietInv
      <4> QED
          BY <3>1, <4>1, <4>5, <4>6 DEF QuietInv
    <3>3. CASE th # "main"
      <4>1. EventOf(th) # "end"
          BY <3>3 DEF EventOf
      <4>2. at'["main"] = at["main"]
        <5>1. \E x : at' = [at EXCEPT ![th] = x]
            BY <2>4 DEF Checks, Schedules
        <5> QED
            BY <2>2, <3>3, <5>1
      <4> QED
          BY <2>1, <3>1, <4>1, <4>2 DEF QuietInv
    <3> QED
        BY <3>2, <3>3
  <2> QED
      BY <1>6, <2>3, <2>4 DEF Thread, Reports, Checks, Schedules, Push
<1>7. "zap" \in Threads /\ "monitor" \in Threads
    BY DEF Threads
<1> QED
    BY <1>1, <1>3, <1>4, <1>5, <1>6, <1>7 DEF Produce, Scan

LEMMA NextQuiet == SseTypeInv /\ QuietInv /\ [Next]_vars => QuietInv'
<1> SUFFICES ASSUME SseTypeInv, QuietInv, [Next]_vars PROVE QuietInv'
    OBVIOUS
<1>1. CASE UNCHANGED scanVars
    BY <1>1 DEF QuietInv, Announced, scanVars
<1>2. LoopPuts => UNCHANGED scanVars
    BY DEF LoopPuts
<1>3. \A s \in Streams : StreamStep(s) => UNCHANGED scanVars
    BY StreamMoves
<1>4. \A p \in Pages : Connect(p) \/ Reload(p) \/ ConnectionBreaks(p) \/ Refresh(p)
                       \/ Show(p) \/ ResponseLost(p) => UNCHANGED scanVars
    BY DEF Connect, Reload, ConnectionBreaks, Refresh, Show, ResponseLost
<1> QED
    BY <1>1, <1>2, <1>3, <1>4, ProduceQuiet DEF Next, vars

-----------------------------------------------------------------------------
(* The streams: the line the events stand in *)

Pushed == Len(log)

\* In a queue and on the loop the numbers grow, and those on the loop are
\* greater than those in any queue.
QueuesInOrder ==
    /\ \A q \in Queues : Increasing(contents[q])
    /\ CallsInOrder(ready)
    /\ \A q \in Queues : \A n \in Items(contents[q]) :
          n \in 1..Pushed /\ \A c \in Items(ready) : n < c[2]
    /\ \A c \in Items(ready) : c[2] \in 1..Pushed

\* An open stream has a page of its own, which watches it; what the page has
\* received is less than all that may still come.
PagesInOrder ==
    /\ \A s \in Streams : stream[s] = "open" => page[owner[s]] = "watching"
    /\ \A s, t \in Streams :
          stream[s] = "open" /\ stream[t] = "open" /\ owner[s] = owner[t] => s = t
    /\ \A p \in Pages : page[p] = "loaded" => received[p] = {}
    /\ \A p \in Pages : received[p] \subseteq 1..Pushed
    /\ \A s \in Streams : stream[s] = "open" =>
          \A m \in received[owner[s]] :
              /\ \A n \in Items(contents[streamQueue[s]]) : m < n
              /\ \A c \in Items(ready) : m < c[2]

LineInv == SseTypeInv /\ QuietInv /\ QueuesInOrder /\ PagesInOrder

\* What is in the queues and on the loop are numbers.
LEMMA LineTypes ==
    ASSUME SseTypeInv
    PROVE  /\ Pushed \in Nat /\ log \in Seq(Kinds)
           /\ \A q \in Queues : contents[q] \in Seq(Nat) /\ Items(contents[q]) \subseteq Nat
           /\ ready \in Seq(Queues \X Nat)
           /\ Items(ready) \subseteq Queues \X Nat
           /\ \A c \in Items(ready) : c[2] \in Nat
<1>1. log \in Seq(Kinds) /\ Pushed \in Nat
    BY LenProperties DEF SseTypeInv, TypeOK, Pushed
<1>2. \A q \in Queues : contents[q] \in Seq(Nat)
    BY DEF SseTypeInv, TypeOK
<1>3. ready \in Seq(Queues \X Nat)
    BY DEF SseTypeInv, TypeOK
<1>4. Items(ready) \subseteq Queues \X Nat
    BY <1>3, ItemsOfSeq
<1>5. \A q \in Queues : Items(contents[q]) \subseteq Nat
    BY <1>2, ItemsOfSeq
<1>6. \A c \in Queues \X Nat : c[2] \in Nat
    OBVIOUS
<1> QED
    BY <1>1, <1>2, <1>3, <1>4, <1>5, <1>6

\* The producers push nothing, or the next number.
LEMMA ProducePushes ==
    ASSUME SseTypeInv, Produce
    PROVE  \/ log' = log /\ ready' = ready /\ Pushed' = Pushed
           \/ \E kind \in Kinds :
                 /\ log' = Append(log, kind) /\ Pushed' = Pushed + 1
                 /\ \A i \in 1..Pushed : log'[i] = log[i]
                 /\ log'[Pushed'] = kind
                 /\ \/ registered = NoQueue /\ ready' = ready
                    \/ registered \in Queues /\ ready' = Append(ready, <<registered, Pushed'>>)
<1>1. log \in Seq(Kinds)
    BY LineTypes
<1>2. \/ log' = log /\ ready' = ready
      \/ \E kind \in Kinds :
            /\ log' = Append(log, kind)
            /\ \/ registered = NoQueue /\ ready' = ready
               \/ registered \in Queues /\ ready' = Append(ready, <<registered, Len(log) + 1>>)
    BY ProduceMoves
<1>3. CASE log' = log /\ ready' = ready
    BY <1>3 DEF Pushed
<1>4. ASSUME NEW kind \in Kinds, log' = Append(log, kind)
      PROVE  /\ Pushed' = Pushed + 1 /\ Pushed' = Len(log) + 1
             /\ \A i \in 1..Pushed : log'[i] = log[i]
             /\ log'[Pushed'] = kind
    BY <1>1, <1>4, LogGrows DEF Pushed
<1> QED
    BY <1>2, <1>3, <1>4

\* What is pushed goes to the end of the line,
LEMMA ProduceLine == LineInv /\ Produce => QueuesInOrder' /\ PagesInOrder'
<1> SUFFICES ASSUME LineInv, Produce PROVE QueuesInOrder' /\ PagesInOrder'
    OBVIOUS
<1>1. SseTypeInv /\ QueuesInOrder /\ PagesInOrder
    BY DEF LineInv
<1>2. UNCHANGED <<registered, contents, stream, streamQueue, owner, page, received>>
    BY <1>1, ProduceMoves DEF streamVars, pageVars
<1>3. Pushed \in Nat /\ (Pushed' = Pushed \/ Pushed' = Pushed + 1)
    BY <1>1, LineTypes, ProducePushes
<1>4. \A n \in 1..Pushed : n \in 1..Pushed' /\ n \in Nat
    BY <1>3
<1>5. CASE ready' = ready
    BY <1>1, <1>2, <1>4, <1>5 DEF QueuesInOrder, PagesInOrder
<1>6. CASE /\ Pushed' = Pushed + 1 /\ registered \in Queues
           /\ ready' = Append(ready, <<registered, Pushed'>>)
  <2>1. PICK c \in Queues \X Nat : c = <<registered, Pushed'>>
    <3>1. PICK k \in Nat : k = Pushed'
        BY <1>3, <1>6
    <3>2. <<registered, k>> \in Queues \X Nat
        BY <1>6
    <3> QED
        BY <3>1, <3>2
  <2>2. Items(ready') = Items(ready) \union {c} /\ c[2] = Pushed'
    <3>1. ready \in Seq(Queues \X Nat)
        BY <1>1, LineTypes
    <3>2. Items(Append(ready, c)) = Items(ready) \union {c}
        BY <3>1, AppendItems
    <3> QED
        BY <1>6, <2>1, <3>2
  <2>3. \A n \in 1..Pushed : n < Pushed'
      BY <1>3, <1>6
  <2>4. \A d \in Items(ready) : d[2] < c[2]
      BY <1>1, <2>2, <2>3 DEF QueuesInOrder
  <2>5. CallsInOrder(ready')
    <3>1. ready \in Seq(Queues \X Nat) /\ CallsInOrder(ready)
        BY <1>1, LineTypes DEF QueuesInOrder
    <3> QED
        BY <1>6, <2>1, <2>4, <3>1, AppendCalls
  <2>6. \A d \in Items(ready') : d \in Items(ready) \/ d[2] = Pushed'
      BY <2>2
  <2>7. Pushed' \in 1..Pushed'
      BY <1>3, <1>6
  <2>8. QueuesInOrder'
    <3>1. \A d \in Items(ready') : d[2] \in 1..Pushed'
        BY <1>1, <1>4, <2>6, <2>7 DEF QueuesInOrder
    <3>2. ASSUME NEW q \in Queues, NEW n \in Items(contents[q])
          PROVE  n \in 1..Pushed' /\ \A d \in Items(ready') : n < d[2]
        BY <1>1, <1>4, <2>3, <2>6 DEF QueuesInOrder
    <3> QED
        BY <1>1, <1>2, <2>5, <3>1, <3>2 DEF QueuesInOrder
  <2>9. PagesInOrder'
    <3>1. \A p \in Pages : received[p] \subseteq 1..Pushed'
        BY <1>1, <1>4 DEF PagesInOrder
    <3>2. \A s \in Streams : owner[s] \in Pages
        BY <1>1 DEF SseTypeInv, TypeOK
    <3>3. \A s \in Streams : stream[s] = "open" =>
             \A m \in received[owner[s]] : \A d \in Items(ready') : m < d[2]
        BY <1>1, <2>3, <2>6, <3>2 DEF PagesInOrder
    <3> QED
        BY <1>1, <1>2, <3>1, <3>3 DEF PagesInOrder
  <2> QED
      BY <2>8, <2>9
<1> QED
    BY <1>1, <1>5, <1>6, ProducePushes

\* and from the head of what is scheduled to the end of its queue.
LEMMA LoopMoves ==
    ASSUME SseTypeInv, LoopPuts
    PROVE  \E q \in Queues, n \in Nat :
              /\ Head(ready) = <<q, n>> /\ ready # <<>> /\ ready' = Tail(ready)
              /\ Items(ready) = {<<q, n>>} \union Items(ready')
              /\ q \in Used => contents' = [contents EXCEPT ![q] = Append(@, n)]
              /\ q \notin Used => contents' = contents
              /\ UNCHANGED <<scanVars, registered, streamVars, pageVars, leaves>>
<1>1. ready # <<>> /\ ready' = Tail(ready) /\ Put(Head(ready))
      /\ UNCHANGED <<scanVars, registered, streamVars, pageVars, leaves>>
    BY DEF LoopPuts
<1>2. Head(ready) \in Queues \X Nat /\ Items(ready) = {Head(ready)} \union Items(ready')
    BY <1>1, LineTypes, TailItems
<1>3. PICK q \in Queues, n \in Nat : Head(ready) = <<q, n>>
    BY <1>2
<1>4. Head(ready)[1] = q /\ Head(ready)[2] = n
    BY <1>3
<1> QED
    BY <1>1, <1>2, <1>3, <1>4 DEF Put

LEMMA LoopPutsLine == LineInv /\ LoopPuts => QueuesInOrder' /\ PagesInOrder'
<1> SUFFICES ASSUME LineInv, LoopPuts PROVE QueuesInOrder' /\ PagesInOrder'
    OBVIOUS
<1>1. SseTypeInv /\ QueuesInOrder /\ PagesInOrder
    BY DEF LineInv
<1>2. PICK q \in Queues, n \in Nat :
          /\ Head(ready) = <<q, n>> /\ ready # <<>> /\ ready' = Tail(ready)
          /\ Items(ready) = {<<q, n>>} \union Items(ready')
          /\ q \in Used => contents' = [contents EXCEPT ![q] = Append(@, n)]
          /\ q \notin Used => contents' = contents
          /\ UNCHANGED <<scanVars, registered, streamVars, pageVars, leaves>>
    BY <1>1, LoopMoves
<1>3. UNCHANGED <<stream, streamQueue, owner, page, received>> /\ Pushed' = Pushed
    BY <1>2 DEF streamVars, pageVars, scanVars, Pushed
<1>4. CallsInOrder(ready') /\ \A c \in Items(ready') : n < c[2]
  <2>1. ready \in Seq(Queues \X Nat) /\ CallsInOrder(ready) /\ Head(ready)[2] = n
      BY <1>1, <1>2, LineTypes DEF QueuesInOrder
  <2>2. CallsInOrder(Tail(ready)) /\ \A c \in Items(Tail(ready)) : Head(ready)[2] < c[2]
      BY <1>2, <2>1, TailCalls
  <2> QED
      BY <1>2, <2>1, <2>2
<1>5. <<q, n>> \in Items(ready) /\ <<q, n>>[2] = n
    BY <1>2
<1>6. n \in 1..Pushed /\ \A r \in Queues : \A u \in Items(contents[r]) : u < n
    BY <1>1, <1>5 DEF QueuesInOrder
<1>7. \A r \in Queues : /\ Increasing(contents'[r])
                        /\ Items(contents'[r]) \subseteq Items(contents[r]) \union {n}
  <2> SUFFICES ASSUME NEW r \in Queues
               PROVE  /\ Increasing(contents'[r])
                      /\ Items(contents'[r]) \subseteq Items(contents[r]) \union {n}
      OBVIOUS
  <2>1. CASE contents'[r] = contents[r]
      BY <1>1, <2>1 DEF QueuesInOrder
  <2>2. CASE r = q /\ contents'[r] = Append(contents[r], n)
    <3>1. Increasing(contents[r]) /\ contents[r] \in Seq(Nat)
        BY <1>1, LineTypes DEF QueuesInOrder
    <3> QED
        BY <1>6, <2>2, <3>1, AppendIncreasing, AppendItems
  <2>3. contents \in [Queues -> Seq(Nat)]
      BY <1>1 DEF SseTypeInv, TypeOK
  <2> QED
      BY <1>2, <2>1, <2>2, <2>3
<1>8. QueuesInOrder'
  <2>1. \A r \in Queues : \A u \in Items(contents'[r]) :
            u \in 1..Pushed /\ \A c \in Items(ready') : u < c[2]
      BY <1>1, <1>2, <1>4, <1>6, <1>7 DEF QueuesInOrder
  <2>2. \A c \in Items(ready') : c[2] \in 1..Pushed
      BY <1>1, <1>2 DEF QueuesInOrder
  <2> QED
      BY <1>3, <1>4, <1>7, <2>1, <2>2 DEF QueuesInOrder
<1>9. \A s \in Streams : stream[s] = "open" =>
          /\ streamQueue[s] \in Queues
          /\ \A m \in received[owner[s]] : m < n
    BY <1>1, <1>5 DEF PagesInOrder, SseTypeInv
<1>10. ASSUME NEW s \in Streams, stream[s] = "open", NEW m \in received[owner[s]]
       PROVE  /\ \A u \in Items(contents'[streamQueue[s]]) : m < u
              /\ \A c \in Items(ready') : m < c[2]
  <2>1. /\ \A u \in Items(contents[streamQueue[s]]) : m < u
        /\ \A c \in Items(ready) : m < c[2]
      BY <1>1, <1>10 DEF PagesInOrder
  <2>2. m < n /\ streamQueue[s] \in Queues
      BY <1>9, <1>10
  <2> QED
      BY <1>2, <1>7, <2>1, <2>2
<1>11. PagesInOrder'
    BY <1>1, <1>3, <1>10 DEF PagesInOrder
<1> QED
    BY <1>8, <1>11

\* A step that only takes from the queues keeps them in order,
LEMMA ShorterLine ==
    ASSUME LineInv, UNCHANGED <<log, ready>>,
           \A q \in Queues : \/ contents'[q] = contents[q]
                             \/ contents'[q] = <<>>
                             \/ contents[q] # <<>> /\ contents'[q] = Tail(contents[q])
    PROVE  /\ QueuesInOrder'
           /\ \A q \in Queues : Items(contents'[q]) \subseteq Items(contents[q])
<1>1. SseTypeInv /\ QueuesInOrder /\ Pushed' = Pushed
    BY DEF LineInv, Pushed
<1>2. ASSUME NEW q \in Queues
      PROVE  Increasing(contents'[q]) /\ Items(contents'[q]) \subseteq Items(contents[q])
  <2>1. Increasing(contents[q]) /\ contents[q] \in Seq(Nat)
      BY <1>1, LineTypes DEF QueuesInOrder
  <2>2. CASE contents'[q] = contents[q]
      BY <2>1, <2>2
  <2>3. CASE contents'[q] = <<>>
      BY <2>3, NoItems
  <2>4. CASE contents[q] # <<>> /\ contents'[q] = Tail(contents[q])
      BY <2>1, <2>4, TailIncreasing, TailItems
  <2> QED
      BY <2>2, <2>3, <2>4
<1> QED
    BY <1>1, <1>2 DEF QueuesInOrder

\* and so does one that opens no stream and lets the pages of the open ones
\* receive nothing.
LEMMA FewerWatch ==
    ASSUME LineInv, UNCHANGED <<log, ready>>,
           \A q \in Queues : Items(contents'[q]) \subseteq Items(contents[q]),
           \A s \in Streams : stream'[s] = "open" =>
              /\ stream[s] = "open" /\ owner'[s] = owner[s] /\ streamQueue'[s] = streamQueue[s]
              /\ page'[owner[s]] = "watching" /\ received'[owner[s]] = received[owner[s]],
           \A p \in Pages : page'[p] = "loaded" => received'[p] = {},
           \A p \in Pages : received'[p] \subseteq 1..Pushed
    PROVE  PagesInOrder'
<1>1. SseTypeInv /\ PagesInOrder /\ Pushed' = Pushed
    BY DEF LineInv, Pushed
<1>2. \A s \in Streams : stream[s] # "free" => streamQueue[s] \in Queues
    BY <1>1 DEF SseTypeInv
<1>3. /\ \A s \in Streams : stream'[s] = "open" => page'[owner'[s]] = "watching"
      /\ \A p \in Pages : page'[p] = "loaded" => received'[p] = {}
      /\ \A p \in Pages : received'[p] \subseteq 1..Pushed'
    BY <1>1
<1>4. \A s, t \in Streams :
          stream'[s] = "open" /\ stream'[t] = "open" /\ owner'[s] = owner'[t] => s = t
    BY <1>1 DEF PagesInOrder
<1>5. ASSUME NEW s \in Streams, stream'[s] = "open", NEW m \in received'[owner'[s]]
      PROVE  /\ \A n \in Items(contents'[streamQueue'[s]]) : m < n
             /\ \A c \in Items(ready') : m < c[2]
  <2>1. /\ stream[s] = "open" /\ m \in received[owner[s]]
        /\ streamQueue'[s] = streamQueue[s] /\ streamQueue[s] \in Queues
      BY <1>2, <1>5
  <2> QED
      BY <1>1, <2>1 DEF PagesInOrder
<1> QED
    BY <1>3, <1>4, <1>5 DEF PagesInOrder

\* What a page does with its own state, and what it takes.
LEMMA Receives ==
    ASSUME NEW p, NEW kind, Receive(p, kind)
    PROVE  \/ kind = "end" /\ page' = [page EXCEPT ![p] = "left"]
           \/ kind # "end" /\ page' = page
BY DEF Receive

LEMMA StreamShortens ==
    ASSUME SseTypeInv, NEW s \in Streams, NEW q \in Queues,
           TakesEvent(s, q) \/ TakesEnd(s, q) \/ GivesUp(s, q)
    PROVE  \A r \in Queues : \/ contents'[r] = contents[r]
                             \/ contents'[r] = <<>>
                             \/ contents[r] # <<>> /\ contents'[r] = Tail(contents[r])
<1>1. contents \in [Queues -> Seq(Nat)]
    BY DEF SseTypeInv, TypeOK
<1>2. \A queues \in [Queues -> Seq(Nat)] : \A r \in Queues :
          Left(s, queues)[r] = queues[r] \/ Left(s, queues)[r] = <<>>
    BY LeftOf
<1>3. CASE GivesUp(s, q)
    BY <1>1, <1>2, <1>3 DEF GivesUp
<1>4. CASE TakesEvent(s, q) \/ TakesEnd(s, q)
  <2>1. contents[q] # <<>> /\ Tail(contents[q]) \in Seq(Nat)
      BY <1>1, <1>4, TailItems DEF TakesEvent, TakesEnd
  <2>2. PICK d \in [Queues -> Seq(Nat)] : d = [contents EXCEPT ![q] = Tail(@)]
      BY <1>1, <2>1
  <2>3. \A r \in Queues : contents'[r] = d[r] \/ contents'[r] = <<>>
      BY <1>2, <1>4, <2>2 DEF TakesEvent, TakesEnd
  <2> QED
      BY <1>1, <2>1, <2>2, <2>3
<1> QED
    BY <1>3, <1>4

\* What a stream takes is the least of what its queue holds, and less than what
\* is scheduled.
LEMMA HeadIsNext ==
    ASSUME LineInv, NEW q \in Queues, contents[q] # <<>>
    PROVE  /\ Head(contents[q]) \in 1..Pushed
           /\ Items(contents[q]) = {Head(contents[q])} \union Items(Tail(contents[q]))
           /\ \A n \in Items(Tail(contents[q])) : Head(contents[q]) < n
           /\ \A c \in Items(ready) : Head(contents[q]) < c[2]
<1>1. SseTypeInv /\ QueuesInOrder
    BY DEF LineInv
<1>2. contents[q] \in Seq(Nat) /\ Increasing(contents[q])
    BY <1>1, LineTypes DEF QueuesInOrder
<1>3. Items(contents[q]) = {Head(contents[q])} \union Items(Tail(contents[q]))
    BY <1>2, TailItems
<1>4. \A n \in Items(Tail(contents[q])) : Head(contents[q]) < n
    BY <1>2, TailIncreasing
<1>5. Head(contents[q]) \in Items(contents[q])
    BY <1>3
<1>6. /\ Head(contents[q]) \in 1..Pushed
      /\ \A c \in Items(ready) : Head(contents[q]) < c[2]
    BY <1>1, <1>5 DEF QueuesInOrder
<1> QED
    BY <1>3, <1>4, <1>6

LEMMA StreamLine == LineInv /\ (\E s \in Streams : StreamStep(s)) => QueuesInOrder' /\ PagesInOrder'
<1> SUFFICES ASSUME LineInv, NEW s \in Streams, StreamStep(s)
             PROVE  QueuesInOrder' /\ PagesInOrder'
    OBVIOUS
<1>1. SseTypeInv /\ QueuesInOrder /\ PagesInOrder
    BY DEF LineInv
<1>2. UNCHANGED <<log, ready>> /\ stream[s] # "free" /\ Pushed' = Pushed
    BY <1>1, StreamMoves DEF scanVars, Pushed
<1>3. PICK q \in Queues :
          q = streamQueue[s] /\ (TakesEvent(s, q) \/ TakesEnd(s, q) \/ GivesUp(s, q))
    BY <1>1, StreamMoves
<1>4. /\ contents \in [Queues -> Seq(Nat)]
      /\ received \in [Pages -> SUBSET Nat] /\ owner \in [Streams -> Pages]
      /\ page \in [Pages -> {"loaded", "watching", "polling", "left"}]
      /\ stream \in [Streams -> {"free", "open", "dropped"}]
      /\ streamQueue \in [Streams -> Queues \union {NoQueue}]
    BY <1>1 DEF SseTypeInv, TypeOK
<1>5. QueuesInOrder' /\ \A r \in Queues : Items(contents'[r]) \subseteq Items(contents[r])
  <2>1. \A r \in Queues : \/ contents'[r] = contents[r]
                          \/ contents'[r] = <<>>
                          \/ contents[r] # <<>> /\ contents'[r] = Tail(contents[r])
      BY <1>1, <1>3, StreamShortens
  <2> QED
      BY <1>2, <2>1, ShorterLine
<1>6. CASE UNCHANGED pageVars
  <2>1. \A t \in Streams : stream'[t] = "open" =>
            stream[t] = "open" /\ owner'[t] = owner[t] /\ streamQueue'[t] = streamQueue[t]
    <3>1. Close(s) \/ UNCHANGED streamVars
        BY <1>3 DEF TakesEvent, TakesEnd, GivesUp
    <3> QED
        BY <1>4, <3>1 DEF Close, streamVars
  <2>2. UNCHANGED <<page, received>>
      BY <1>6 DEF pageVars
  <2> QED
      BY <1>1, <1>2, <1>5, <2>1, <2>2, FewerWatch DEF PagesInOrder
<1>7. CASE /\ stream[s] = "open" /\ Close(s)
           /\ page' = [page EXCEPT ![owner[s]] = "left"]
           /\ \/ received' = received
              \/ \E n \in 1..Pushed : received' = [received EXCEPT ![owner[s]] = @ \union {n}]
  <2>1. \A t \in Streams : stream'[t] = "open" =>
            /\ stream[t] = "open" /\ owner'[t] = owner[t] /\ streamQueue'[t] = streamQueue[t]
            /\ t # s
      BY <1>4, <1>7 DEF Close
  <2>2. \A t \in Streams : stream'[t] = "open" =>
            /\ owner[t] # owner[s] /\ owner[t] \in Pages
            /\ page'[owner[t]] = "watching" /\ received'[owner[t]] = received[owner[t]]
      BY <1>1, <1>4, <1>7, <2>1 DEF PagesInOrder
  <2>3. \A p \in Pages : page'[p] = "loaded" => received'[p] = {}
      BY <1>1, <1>4, <1>7 DEF PagesInOrder
  <2>4. \A p \in Pages : received'[p] \subseteq 1..Pushed
    <3>1. \A p \in Pages : received[p] \subseteq 1..Pushed
        BY <1>1 DEF PagesInOrder
    <3>2. ASSUME NEW n \in 1..Pushed, received' = [received EXCEPT ![owner[s]] = @ \union {n}],
                 NEW p \in Pages
          PROVE  received'[p] \subseteq 1..Pushed
      <4>1. received'[p] = received[p] \/ received'[p] = received[p] \union {n}
          BY <1>4, <3>2
      <4> QED
          BY <3>1, <4>1
    <3> QED
        BY <1>7, <3>1, <3>2
  <2> QED
      BY <1>2, <1>5, <2>1, <2>2, <2>3, <2>4, FewerWatch
<1>8. CASE /\ stream[s] = "open" /\ TakesEvent(s, q)
           /\ Receive(owner[s], log[Head(contents[q])])
           /\ received' = [received EXCEPT ![owner[s]] = @ \union {Head(contents[q])}]
  <2>1. contents[q] # <<>> /\ contents' = [contents EXCEPT ![q] = Tail(@)]
        /\ log[Head(contents[q])] # "end" /\ UNCHANGED <<stream, streamQueue, owner>>
      BY <1>8 DEF TakesEvent, streamVars
  <2>2. PICK n \in 1..Pushed : n = Head(contents[q])
      BY <2>1, HeadIsNext
  <2>3. n \in Items(contents[q]) /\ \A u \in Items(contents'[q]) : n < u
    <3>1. contents'[q] = Tail(contents[q])
        BY <1>4, <2>1
    <3> QED
        BY <2>1, <2>2, <3>1, HeadIsNext
  <2>4. \A c \in Items(ready) : n < c[2]
      BY <2>1, <2>2, HeadIsNext
  <2>5. page' = page /\ received' = [received EXCEPT ![owner[s]] = @ \union {n}]
      BY <1>8, <2>1, <2>2, Receives
  <2>6. \A p \in Pages : received'[p] \subseteq 1..Pushed
      BY <1>1, <1>4, <2>5 DEF PagesInOrder
  <2>7. \A p \in Pages : page[p] = "loaded" => received'[p] = {}
    <3>1. page[owner[s]] = "watching"
        BY <1>1, <1>8 DEF PagesInOrder
    <3> QED
        BY <1>1, <1>4, <2>5, <3>1 DEF PagesInOrder
  <2>8. ASSUME NEW t \in Streams, stream[t] = "open", NEW m \in received'[owner[t]]
        PROVE  /\ \A u \in Items(contents'[streamQueue[t]]) : m < u
               /\ \A c \in Items(ready) : m < c[2]
    <3>1. streamQueue[t] \in Queues /\ owner[t] \in Pages
        BY <1>1, <1>4, <2>8 DEF SseTypeInv
    <3>2. CASE m \in received[owner[t]]
        BY <1>1, <1>5, <2>8, <3>1, <3>2 DEF PagesInOrder
    <3>3. CASE m \notin received[owner[t]]
      <4>1. owner[t] = owner[s] /\ m = n
          BY <1>4, <2>5, <2>8, <3>1, <3>3
      <4>2. t = s /\ streamQueue[t] = q
          BY <1>1, <1>3, <1>8, <2>8, <4>1 DEF PagesInOrder
      <4> QED
          BY <2>3, <2>4, <4>1, <4>2
    <3> QED
        BY <3>2, <3>3
  <2>9. PagesInOrder'
      BY <1>1, <1>2, <2>1, <2>5, <2>6, <2>7, <2>8 DEF PagesInOrder
  <2> QED
      BY <1>5, <2>9
<1>9. contents[q] # <<>> => Head(contents[q]) \in 1..Pushed
    BY HeadIsNext
<1>10. CASE stream[s] = "dropped"
    BY <1>3, <1>6, <1>10 DEF TakesEvent, TakesEnd, GivesUp, HandsOver
<1>11. CASE stream[s] = "open" /\ TakesEvent(s, q)
    BY <1>8, <1>11 DEF TakesEvent, HandsOver
<1>12. CASE stream[s] = "open" /\ (TakesEnd(s, q) \/ GivesUp(s, q))
  <2>1. Close(s) /\ Receive(owner[s], "end")
      BY <1>12 DEF TakesEnd, GivesUp, HandsOver
  <2>2. page' = [page EXCEPT ![owner[s]] = "left"]
      BY <2>1, Receives
  <2>3. \/ received' = received
        \/ \E n \in 1..Pushed : received' = [received EXCEPT ![owner[s]] = @ \union {n}]
      BY <1>9, <1>12 DEF TakesEnd, GivesUp, HandsOver
  <2> QED
      BY <1>7, <1>12, <2>1, <2>2, <2>3
<1> QED
    BY <1>2, <1>3, <1>4, <1>10, <1>11, <1>12

\* A page that connects has received nothing yet.
LEMMA ConnectLine == LineInv /\ (\E p \in Pages : Connect(p)) => QueuesInOrder' /\ PagesInOrder'
<1> SUFFICES ASSUME LineInv, NEW p \in Pages, Connect(p)
             PROVE  QueuesInOrder' /\ PagesInOrder'
    OBVIOUS
<1>1. SseTypeInv /\ QueuesInOrder /\ PagesInOrder
    BY DEF LineInv
<1>2. page[p] = "loaded" /\ UNCHANGED <<log, contents, ready, received>>
    BY <1>1, Connects DEF scanVars
<1>3. QueuesInOrder' /\ Pushed' = Pushed
    BY <1>1, <1>2 DEF QueuesInOrder, Pushed
<1>4. /\ received \in [Pages -> SUBSET Nat] /\ owner \in [Streams -> Pages]
      /\ page \in [Pages -> {"loaded", "watching", "polling", "left"}]
      /\ stream \in [Streams -> {"free", "open", "dropped"}]
      /\ streamQueue \in [Streams -> Queues \union {NoQueue}]
    BY <1>1 DEF SseTypeInv, TypeOK
<1>5. received[p] = {} /\ \A s \in Streams : stream[s] = "open" => owner[s] # p
    BY <1>1, <1>2 DEF PagesInOrder
<1>6. CASE Receive(p, "end") /\ UNCHANGED <<streamVars, registered>>
  <2>1. page' = [page EXCEPT ![p] = "left"] /\ UNCHANGED <<stream, streamQueue, owner>>
      BY <1>6, Receives DEF streamVars
  <2>2. \A s \in Streams : stream[s] = "open" => page'[owner[s]] = "watching"
      BY <1>1, <1>4, <1>5, <2>1 DEF PagesInOrder
  <2>3. \A r \in Pages : page'[r] = "loaded" => received[r] = {}
      BY <1>1, <1>4, <2>1 DEF PagesInOrder
  <2> QED
      BY <1>1, <1>2, <1>3, <2>1, <2>2, <2>3, FewerWatch DEF PagesInOrder
<1>7. ASSUME NEW q \in Queues, Open(p, q) PROVE PagesInOrder'
  <2>1. PICK s \in Streams :
            /\ stream[s] = "free"
            /\ stream' = [stream EXCEPT ![s] = "open"]
            /\ owner' = [owner EXCEPT ![s] = p]
            /\ streamQueue' = [streamQueue EXCEPT ![s] = q]
            /\ page' = [page EXCEPT ![p] = "watching"]
      BY <1>1, <1>7, OpenedStream
  <2>2. \A t \in Streams : stream'[t] = "open" =>
            \/ t = s /\ owner'[t] = p
            \/ /\ t # s /\ stream[t] = "open" /\ owner'[t] = owner[t] /\ owner[t] # p
               /\ streamQueue'[t] = streamQueue[t] /\ owner[t] \in Pages
      BY <1>4, <1>5, <2>1
  <2>3. \A t \in Streams : stream'[t] = "open" => page'[owner'[t]] = "watching"
      BY <1>1, <1>4, <2>1, <2>2 DEF PagesInOrder
  <2>4. \A t, u \in Streams :
            stream'[t] = "open" /\ stream'[u] = "open" /\ owner'[t] = owner'[u] => t = u
      BY <1>1, <2>2 DEF PagesInOrder
  <2>5. \A r \in Pages : page'[r] = "loaded" => received[r] = {}
      BY <1>1, <1>4, <2>1 DEF PagesInOrder
  <2>6. ASSUME NEW t \in Streams, stream'[t] = "open", NEW m \in received[owner'[t]]
        PROVE  /\ \A n \in Items(contents[streamQueue'[t]]) : m < n
               /\ \A c \in Items(ready) : m < c[2]
    <3>1. stream[t] = "open" /\ owner'[t] = owner[t] /\ streamQueue'[t] = streamQueue[t]
        BY <1>5, <2>2, <2>6
    <3> QED
        BY <1>1, <2>6, <3>1 DEF PagesInOrder
  <2> QED
      BY <1>1, <1>2, <1>3, <2>1, <2>3, <2>4, <2>5, <2>6 DEF PagesInOrder
<1> QED
    BY <1>1, <1>3, <1>6, <1>7, Connects

\* A page that is loaded again, or stops watching, has no stream any more.
LEMMA PageLine ==
    ASSUME LineInv, NEW p \in Pages,
           Reload(p) \/ ConnectionBreaks(p) \/ Refresh(p) \/ Show(p) \/ ResponseLost(p)
    PROVE  QueuesInOrder' /\ PagesInOrder'
<1>1. SseTypeInv /\ QueuesInOrder /\ PagesInOrder
    BY DEF LineInv
<1>2. UNCHANGED <<log, contents, ready, streamQueue, owner>>
    BY DEF Reload, ConnectionBreaks, Refresh, Show, ResponseLost, scanVars, queueVars, streamVars
<1>3. QueuesInOrder' /\ Pushed' = Pushed
    BY <1>1, <1>2 DEF QueuesInOrder, Pushed
<1>4. /\ received \in [Pages -> SUBSET Nat] /\ owner \in [Streams -> Pages]
      /\ page \in [Pages -> {"loaded", "watching", "polling", "left"}]
      /\ stream \in [Streams -> {"free", "open", "dropped"}]
    BY <1>1 DEF SseTypeInv, TypeOK
<1>5. CASE Reload(p) \/ ConnectionBreaks(p)
  <2>1. Drop(p) /\ \E st \in {"loaded", "polling", "left"} : page' = [page EXCEPT ![p] = st]
      BY <1>5 DEF Reload, ConnectionBreaks
  <2>2. \A s \in Streams : stream'[s] = "open" => stream[s] = "open" /\ owner[s] # p
      BY <1>4, <2>1 DEF Drop, StreamOf
  <2>3. \/ received' = [received EXCEPT ![p] = {}]
        \/ received' = received /\ page' = [page EXCEPT ![p] = "polling"]
      BY <1>5 DEF Reload, ConnectionBreaks
  <2>4. \A s \in Streams : stream'[s] = "open" =>
            page'[owner[s]] = "watching" /\ received'[owner[s]] = received[owner[s]]
      BY <1>1, <1>4, <2>1, <2>2, <2>3 DEF PagesInOrder
  <2>5. \A r \in Pages : /\ page'[r] = "loaded" => received'[r] = {}
                         /\ received'[r] \subseteq 1..Pushed
      BY <1>1, <1>4, <2>1, <2>3 DEF PagesInOrder
  <2> QED
      BY <1>2, <1>3, <2>2, <2>4, <2>5, FewerWatch
<1>6. CASE Refresh(p) \/ Show(p) \/ ResponseLost(p)
  <2>1. /\ UNCHANGED <<stream, received>>
        /\ \/ page' = page
           \/ page[p] = "polling" /\ page' = [page EXCEPT ![p] = "left"]
    <3>1. UNCHANGED <<stream, received>>
        BY <1>6 DEF Refresh, Show, ResponseLost, streamVars
    <3>2. page' = page \/ Show(p)
        BY <1>6 DEF Refresh, ResponseLost
    <3>3. ASSUME NEW v, page' = [page EXCEPT ![p] = IF @ = "polling" /\ v = "end" THEN "left" ELSE @]
          PROVE  page' = page \/ (page[p] = "polling" /\ page' = [page EXCEPT ![p] = "left"])
        BY <1>4, <3>3
    <3> QED
        BY <3>1, <3>2, <3>3 DEF Show
  <2>2. \A s \in Streams : stream[s] = "open" => page'[owner[s]] = "watching"
      BY <1>1, <1>4, <2>1 DEF PagesInOrder
  <2>3. \A r \in Pages : page'[r] = "loaded" => page[r] = "loaded"
      BY <1>4, <2>1
  <2> QED
      BY <1>1, <1>2, <1>3, <2>1, <2>2, <2>3, FewerWatch DEF PagesInOrder
<1> QED
    BY <1>5, <1>6

LEMMA InitLine == Init => LineInv
<1> SUFFICES ASSUME Init PROVE LineInv
    OBVIOUS
<1>1. /\ \A q \in Queues : contents[q] = <<>>
      /\ ready = <<>>
      /\ \A s \in Streams : stream[s] = "free"
      /\ \A p \in Pages : received[p] = {}
    BY DEF Init
<1>2. QueuesInOrder
    BY <1>1, NoItems DEF QueuesInOrder
<1>3. PagesInOrder
    BY <1>1 DEF PagesInOrder
<1> QED
    BY <1>2, <1>3, InitSseTypeInv DEF LineInv

LEMMA NextLine == LineInv /\ [Next]_vars => LineInv'
<1> SUFFICES ASSUME LineInv, [Next]_vars PROVE LineInv'
    OBVIOUS
<1>1. SseTypeInv' /\ QuietInv'
    BY NextSseTypeInv, NextQuiet DEF LineInv
<1>2. CASE UNCHANGED vars
    BY <1>1, <1>2 DEF LineInv, QueuesInOrder, PagesInOrder, Pushed,
                      vars, scanVars, queueVars, streamVars, pageVars
<1> QED
    BY <1>1, <1>2, ProduceLine, LoopPutsLine, StreamLine, ConnectLine, PageLine DEF Next, LineInv

\* api.py and the dashboard's script: the events a page receives between two
\* loads come in the order in which the scan's threads and the loop pushed them,
\* whoever shares its queue and however often connections broke and queues were
\* replaced.
THEOREM EventsAlwaysInOrder == Spec => EventsInOrder
<1>1. ASSUME LineInv, Next, NEW p \in Pages, NEW n \in received'[p] \ received[p],
             NEW m \in received[p]
      PROVE  m < n
  <2>1. SseTypeInv /\ PagesInOrder /\ received \in [Pages -> SUBSET Nat]
      BY <1>1 DEF LineInv, SseTypeInv, TypeOK
  <2>2. received' # received
      BY <1>1
  <2>3. CASE Produce \/ LoopPuts
      BY <2>1, <2>2, <2>3, ProduceMoves, LoopMoves DEF pageVars
  <2>4. ASSUME NEW s \in Streams, StreamStep(s) PROVE m < n
    <3>1. PICK q \in Queues :
              q = streamQueue[s] /\ (TakesEvent(s, q) \/ TakesEnd(s, q) \/ GivesUp(s, q))
        BY <2>1, <2>4, StreamMoves
    <3>2. /\ stream[s] = "open" /\ contents[q] # <<>>
          /\ received' = [received EXCEPT ![owner[s]] = @ \union {Head(contents[q])}]
        BY <2>2, <3>1 DEF TakesEvent, TakesEnd, GivesUp, HandsOver, pageVars
    <3>3. owner[s] \in Pages
        BY <2>1 DEF SseTypeInv, TypeOK
    <3>4. owner[s] = p /\ n = Head(contents[q])
        BY <1>1, <2>1, <3>2, <3>3
    <3>5. n \in Items(contents[q])
        BY <1>1, <3>2, <3>4, HeadIsNext
    <3> QED
        BY <1>1, <2>1, <3>1, <3>2, <3>4, <3>5 DEF PagesInOrder
  <2>5. ASSUME NEW r \in Pages, Connect(r) PROVE m < n
      BY <2>2, <2>5 DEF Connect
  <2>6. ASSUME NEW r \in Pages,
               Reload(r) \/ ConnectionBreaks(r) \/ Refresh(r) \/ Show(r) \/ ResponseLost(r)
        PROVE  m < n
    <3>1. received' = received \/ received' = [received EXCEPT ![r] = {}]
        BY <2>6 DEF Reload, ConnectionBreaks, Refresh, Show, ResponseLost
    <3> QED
        BY <1>1, <2>1, <3>1
  <2> QED
      BY <1>1, <2>3, <2>4, <2>5, <2>6 DEF Next
<1>2. LineInv /\ [Next]_vars =>
         [\A p \in Pages : \A n \in received'[p] \ received[p] :
             received[p] \subseteq received'[p] => \A m \in received[p] : m < n]_vars
    BY <1>1
<1> QED
    BY InitLine, NextLine, <1>2, PTL DEF Spec, EventsInOrder

-----------------------------------------------------------------------------
(* The streams: nothing is missed *)

Told == \E p \in Pages : page[p] = "left"

\* The events before the end, and where they are as long as the queue q is used.
Early == {n \in 1..Pushed : BeforeEnd(n)}
Known(q) == Delivered \union Items(contents[q]) \union {c[2] : c \in Items(ready)}

Gapless(S) == \A n \in S : \A m \in 1..n : BeforeEnd(m) => m \in S

\* Everything scheduled goes to q and every open stream reads it; the entry of
\* the job is gone only when the scan has ended and a page was told.
FedBy(q) ==
    /\ registered = q \/ (registered = NoQueue /\ ended /\ Told)
    /\ \A s \in Streams : stream[s] = "open" => streamQueue[s] = q
    /\ \A c \in Items(ready) : c[1] = q
    /\ (~ended \/ \E s \in Streams : stream[s] = "open") => Early \subseteq Known(q)

\* A page has been told the end and nothing before it is missing.
Complete == Told /\ Announced /\ Early \subseteq Delivered

FedInv ==
    leaves = 0 =>
        /\ \A s \in Streams : stream[s] # "dropped"
        /\ Gapless(Delivered)
        /\ "main" \notin failed
        /\ failed # {} => Told
        /\ Complete \/ \E q \in Queues : FedBy(q)

\* What a page receives is delivered.
LEMMA DeliveredGrows ==
    ASSUME received \in [Pages -> SUBSET Nat], NEW p \in Pages, NEW n,
           received' = [received EXCEPT ![p] = @ \union {n}]
    PROVE  Delivered' = Delivered \union {n}
<1>1. \A r \in Pages : received'[r] = IF r = p THEN received[r] \union {n} ELSE received[r]
    OBVIOUS
<1> QED
    BY <1>1 DEF Delivered

LEMMA DeliveredPushed ==
    ASSUME LineInv
    PROVE  Pushed \in Nat /\ Delivered \subseteq 1..Pushed /\ Early \subseteq 1..Pushed
BY LineTypes DEF LineInv, PagesInOrder, Delivered, Early

\* After the announcement nothing more is to be told.
LEMMA EarlyGrows ==
    ASSUME SseTypeInv, NEW kind \in Kinds, log' = Append(log, kind)
    PROVE  /\ Pushed' = Pushed + 1
           /\ \A n \in 1..Pushed : BeforeEnd(n)' <=> BeforeEnd(n)
           /\ Early' \subseteq Early \union {Pushed'}
           /\ Announced => Early' = Early
<1>1. Pushed \in Nat /\ log \in Seq(Kinds)
    BY LineTypes
<1>2. Pushed' = Pushed + 1 /\ \A i \in 1..Pushed : log'[i] = log[i]
    BY <1>1, LogGrows DEF Pushed
<1>3. \A n \in 1..Pushed : \A i \in 1..n : i \in 1..Pushed
    BY <1>1
<1>4. \A n \in 1..Pushed : BeforeEnd(n)' <=> BeforeEnd(n)
    BY <1>2, <1>3 DEF BeforeEnd
<1>5. \A n \in 1..(Pushed + 1) : n \in 1..Pushed \/ n = Pushed + 1
    BY <1>1
<1>6. \A n \in 1..Pushed : n \in 1..(Pushed + 1)
    BY <1>1
<1>7. Early' \subseteq Early \union {Pushed'}
    BY <1>2, <1>4, <1>5 DEF Early
<1>8. Announced => \A n \in 1..(Pushed + 1) : n = Pushed + 1 => ~BeforeEnd(n)'
    BY <1>2, <1>6 DEF Announced, Pushed, BeforeEnd
<1>9. Announced => Early' = Early
  <2>1. Announced => \A n \in 1..Pushed' : BeforeEnd(n)' => n \in 1..Pushed /\ BeforeEnd(n)
      BY <1>2, <1>4, <1>5, <1>8
  <2>2. \A n \in 1..Pushed : BeforeEnd(n) => n \in 1..Pushed' /\ BeforeEnd(n)'
      BY <1>2, <1>4, <1>6
  <2>3. Announced => Early' \subseteq Early
      BY <2>1 DEF Early
  <2>4. Early \subseteq Early'
      BY <2>2 DEF Early
  <2> QED
      BY <2>3, <2>4
<1> QED
    BY <1>2, <1>4, <1>7, <1>9

\* The producers: the scan does not die of its pushes,
LEMMA ProduceFails ==
    ASSUME SseTypeInv, QuietInv, Produce, leaves = 0, FedInv
    PROVE  "main" \notin failed' /\ (failed' # {} => Told)
<1>1. /\ "main" \notin failed
      /\ failed # {} => Told
      /\ registered = NoQueue => Announced /\ Told
    BY SseAssumption DEF FedInv, Complete, FedBy, QuietInv
<1>2. \/ failed' = failed
      \/ \E th \in Threads : /\ failed' = failed \union {th}
                             /\ at[th] = "indexing" /\ registered = NoQueue
  <2>1. CASE Start \/ Fork \/ Cancels \/ Returns \/ Finish
      BY <2>1 DEF Start, Fork, Cancels, Returns, Finish
  <2>2. \A th \in Threads : Thread(th) =>
            \/ failed' = failed
            \/ failed' = failed \union {th} /\ at[th] = "indexing" /\ registered = NoQueue
      BY DEF Thread, Reports, Checks, Schedules
  <2>3. "main" \in Threads /\ "zap" \in Threads /\ "monitor" \in Threads
      BY DEF Threads
  <2> QED
      BY <2>1, <2>2, <2>3 DEF Produce, Scan
<1>3. Announced => at["main"] # "indexing"
    BY DEF QuietInv
<1> QED
    BY <1>1, <1>2, <1>3

LEMMA ProduceFed == LineInv /\ FedInv /\ Produce => FedInv'
<1> SUFFICES ASSUME LineInv, FedInv, Produce, leaves = 0 PROVE FedInv'
    BY ProduceMoves DEF FedInv, LineInv
<1>1. SseTypeInv /\ QuietInv
    BY DEF LineInv
<1>2. UNCHANGED <<registered, contents, stream, streamQueue, page, received, leaves>>
    BY <1>1, ProduceMoves DEF streamVars, pageVars
<1>3. Told' = Told /\ Delivered' = Delivered
    BY <1>2 DEF Told, Delivered
<1>4. "main" \notin failed' /\ (failed' # {} => Told')
    BY <1>1, <1>3, ProduceFails
<1>5. ended => ended'
    BY DEF Produce, Scan, Start, Fork, Cancels, Returns, Finish, Thread, Reports, Checks, Schedules
<1>6. CASE log' = log /\ ready' = ready /\ Pushed' = Pushed
  <2>1. /\ Early' = Early /\ (Announced' <=> Announced)
        /\ \A q \in Queues : Known(q)' = Known(q)
        /\ Gapless(Delivered)' <=> Gapless(Delivered)
      BY <1>2, <1>3, <1>6 DEF Early, Announced, Known, Gapless, BeforeEnd
  <2>2. Complete => Complete'
      BY <1>3, <2>1 DEF Complete
  <2>3. \A q \in Queues : FedBy(q) => FedBy(q)'
      BY <1>2, <1>3, <1>5, <1>6, <2>1 DEF FedBy
  <2> QED
      BY <1>2, <1>4, <2>1, <2>2, <2>3 DEF FedInv
<1>7. ASSUME NEW kind \in Kinds, log' = Append(log, kind),
             \/ registered = NoQueue /\ ready' = ready
             \/ registered \in Queues /\ ready' = Append(ready, <<registered, Pushed'>>)
      PROVE  FedInv'
  <2>1. /\ Pushed' = Pushed + 1 /\ Pushed \in Nat
        /\ \A n \in 1..Pushed : BeforeEnd(n)' <=> BeforeEnd(n)
        /\ Early' \subseteq Early \union {Pushed'}
        /\ Announced => Early' = Early /\ Announced'
      BY <1>1, <1>7, EarlyGrows, AnnouncedGrows, LineTypes
  <2>2. Gapless(Delivered)'
    <3>1. Gapless(Delivered) /\ Delivered \subseteq 1..Pushed
        BY DeliveredPushed DEF FedInv
    <3>2. \A n \in 1..Pushed : \A m \in 1..n : m \in 1..Pushed
        BY <2>1
    <3> QED
        BY <1>3, <2>1, <3>1, <3>2 DEF Gapless
  <2>3. Complete => Complete'
      BY <1>3, <2>1 DEF Complete
  <2>4. ASSUME NEW q \in Queues, FedBy(q) PROVE FedBy(q)'
    <3>1. CASE registered = NoQueue
      <4>1. ended /\ Announced /\ ready' = ready
          BY <1>1, <1>7, <2>4, <3>1, SseAssumption DEF FedBy, QuietInv
      <4>2. Known(q)' = Known(q) /\ Early' = Early
          BY <1>2, <1>3, <2>1, <4>1 DEF Known
      <4> QED
          BY <1>2, <1>3, <1>5, <2>4, <4>1, <4>2 DEF FedBy
    <3>2. CASE registered # NoQueue
      <4>1. registered = q /\ ready' = Append(ready, <<q, Pushed'>>)
          BY <1>7, <2>4, <3>2 DEF FedBy
      <4>2. PICK k \in Nat : k = Pushed'
          BY <2>1
      <4>3. Items(ready') = Items(ready) \union {<<q, k>>}
        <5>1. ready \in Seq(Queues \X Nat)
            BY <1>1, LineTypes
        <5>2. PICK c \in Queues \X Nat : c = <<q, k>>
            OBVIOUS
        <5>3. Items(Append(ready, c)) = Items(ready) \union {c}
            BY <5>1, AppendItems
        <5> QED
            BY <4>1, <4>2, <5>2, <5>3
      <4>4. \A c \in Items(ready') : c[1] = q
          BY <2>4, <4>3 DEF FedBy
      <4>5. Known(q) \union {Pushed'} \subseteq Known(q)'
        <5>1. \A c \in Items(ready) : c \in Items(ready')
            BY <4>3
        <5>2. <<q, k>> \in Items(ready') /\ <<q, k>>[2] = Pushed'
            BY <4>2, <4>3
        <5> QED
            BY <1>2, <1>3, <5>1, <5>2 DEF Known
      <4>6. (~ended' \/ \E s \in Streams : stream'[s] = "open") => Early' \subseteq Known(q)'
          BY <1>2, <1>5, <2>1, <2>4, <4>5 DEF FedBy
      <4> QED
          BY <1>2, <1>3, <2>4, <4>1, <4>4, <4>6 DEF FedBy
    <3> QED
        BY <3>1, <3>2
  <2> QED
      BY <1>2, <1>4, <2>2, <2>3, <2>4 DEF FedInv
<1> QED
    BY <1>1, <1>6, <1>7, ProducePushes

\* the loop,
LEMMA LoopPutsFed == LineInv /\ FedInv /\ LoopPuts => FedInv'
<1> SUFFICES ASSUME LineInv, FedInv, LoopPuts, leaves = 0 PROVE FedInv'
    BY DEF FedInv, LoopPuts
<1>1. SseTypeInv /\ contents \in [Queues -> Seq(Nat)]
    BY DEF LineInv, SseTypeInv, TypeOK
<1>2. PICK q \in Queues, n \in Nat :
          /\ Items(ready) = {<<q, n>>} \union Items(ready')
          /\ q \in Used => contents' = [contents EXCEPT ![q] = Append(@, n)]
          /\ q \notin Used => contents' = contents
          /\ UNCHANGED <<scanVars, registered, streamVars, pageVars, leaves>>
    BY <1>1, LoopMoves
<1>3. UNCHANGED <<ended, log, failed, registered, stream, streamQueue, page, received, leaves>>
    BY <1>2 DEF scanVars, streamVars, pageVars
<1>4. /\ Told' = Told /\ Delivered' = Delivered /\ Early' = Early
      /\ (Announced' <=> Announced)
      /\ Gapless(Delivered)' <=> Gapless(Delivered)
    BY <1>3 DEF Told, Delivered, Early, Announced, Gapless, BeforeEnd, Pushed
<1>5. Complete => Complete'
    BY <1>4 DEF Complete
<1>6. ASSUME NEW r \in Queues, FedBy(r) PROVE FedBy(r)'
  <2>1. q = r /\ \A c \in Items(ready') : c[1] = r
    <3>1. <<q, n>> \in Items(ready) /\ <<q, n>>[1] = q
        BY <1>2
    <3> QED
        BY <1>2, <1>6, <3>1 DEF FedBy
  <2>2. CASE q \in Used
    <3>1. Items(contents'[q]) = Items(contents[q]) \union {n}
      <4>1. contents[q] \in Seq(Nat) /\ contents'[q] = Append(contents[q], n)
          BY <1>1, <1>2, <2>2
      <4> QED
          BY <4>1, AppendItems
    <3>2. \A m : m \in {c[2] : c \in Items(ready)} <=> m = n \/ m \in {c[2] : c \in Items(ready')}
      <4>1. <<q, n>>[2] = n
          OBVIOUS
      <4>2. \A c : c \in Items(ready) <=> c = <<q, n>> \/ c \in Items(ready')
          BY <1>2
      <4> QED
          BY <4>1, <4>2
    <3>3. \A m : m \in Known(r)' <=> m \in Known(r)
        BY <1>4, <2>1, <3>1, <3>2 DEF Known
    <3> QED
        BY <1>3, <1>4, <1>6, <2>1, <3>3 DEF FedBy
  <2>3. CASE q \notin Used
    <3>1. registered # r /\ \A s \in Streams : stream[s] # "open"
        BY <1>6, <2>1, <2>3 DEF Used, Read, FedBy
    <3> QED
        BY <1>3, <1>4, <1>6, <2>1, <3>1 DEF FedBy
  <2> QED
      BY <2>2, <2>3
<1> QED
    BY <1>3, <1>4, <1>5, <1>6 DEF FedInv

\* the streams: what is before the head of the queue has been delivered,
LEMMA HeadIsDue ==
    ASSUME LineInv, NEW q \in Queues, contents[q] # <<>>, Early \subseteq Known(q),
           NEW m \in Early, m \notin Delivered
    PROVE  Head(contents[q]) \in Nat /\ m \in Nat /\ Head(contents[q]) <= m
<1>1. /\ Head(contents[q]) \in 1..Pushed
      /\ Items(contents[q]) = {Head(contents[q])} \union Items(Tail(contents[q]))
      /\ \A n \in Items(Tail(contents[q])) : Head(contents[q]) < n
      /\ \A c \in Items(ready) : Head(contents[q]) < c[2]
    BY HeadIsNext
<1>2. Pushed \in Nat /\ m \in 1..Pushed
    BY DeliveredPushed
<1>3. m = Head(contents[q]) \/ Head(contents[q]) < m
    BY <1>1 DEF Known
<1> QED
    BY <1>1, <1>2, <1>3

LEMMA StreamFed == LineInv /\ FedInv /\ (\E s \in Streams : StreamStep(s)) => FedInv'
<1> SUFFICES ASSUME LineInv, FedInv, NEW s \in Streams, StreamStep(s), leaves = 0 PROVE FedInv'
    BY StreamMoves DEF FedInv, LineInv
<1>1. SseTypeInv /\ QuietInv
    BY DEF LineInv
<1>2. /\ UNCHANGED <<ended, log, failed, ready, leaves>>
      /\ stream[s] = "open"
    BY <1>1, StreamMoves DEF scanVars, FedInv, SseTypeInv, TypeOK
<1>3. PICK q \in Queues :
          q = streamQueue[s] /\ (TakesEvent(s, q) \/ TakesEnd(s, q) \/ GivesUp(s, q))
    BY <1>1, StreamMoves
<1>4. /\ contents \in [Queues -> Seq(Nat)]
      /\ received \in [Pages -> SUBSET Nat] /\ owner[s] \in Pages
      /\ page \in [Pages -> {"loaded", "watching", "polling", "left"}]
      /\ stream \in [Streams -> {"free", "open", "dropped"}]
      /\ streamQueue \in [Streams -> Queues \union {NoQueue}]
    BY <1>1 DEF SseTypeInv, TypeOK
<1>5. /\ Early' = Early /\ (Announced' <=> Announced)
      /\ \A n : BeforeEnd(n)' <=> BeforeEnd(n)
    BY <1>2 DEF Early, Announced, BeforeEnd, Pushed
<1>6. Told => Told'
  <2>1. \E kind : Receive(owner[s], kind)
      BY <1>2, <1>3 DEF TakesEvent, TakesEnd, GivesUp, HandsOver
  <2>2. page' = page \/ page' = [page EXCEPT ![owner[s]] = "left"]
      BY <2>1, Receives
  <2> QED
      BY <1>4, <2>2 DEF Told
<1>7. \/ Delivered' = Delivered
      \/ contents[q] # <<>> /\ Delivered' = Delivered \union {Head(contents[q])}
  <2>1. CASE received' = received
      BY <2>1 DEF Delivered
  <2>2. CASE /\ contents[q] # <<>>
             /\ received' = [received EXCEPT ![owner[s]] = @ \union {Head(contents[q])}]
      BY <1>4, <2>2, DeliveredGrows
  <2> QED
      BY <1>2, <1>3, <2>1, <2>2 DEF TakesEvent, TakesEnd, GivesUp, HandsOver
<1>8. Complete => Complete'
    BY <1>5, <1>6, <1>7 DEF Complete
<1>9. Complete \/ (FedBy(q) /\ Early \subseteq Known(q))
    BY <1>2, <1>3 DEF FedInv, FedBy
<1>10. Gapless(Delivered)'
  <2>1. Gapless(Delivered) /\ Delivered \subseteq 1..Pushed /\ Pushed \in Nat
      BY DeliveredPushed DEF FedInv
  <2>2. ASSUME contents[q] # <<>>, NEW m \in 1..Head(contents[q]), BeforeEnd(m)
        PROVE  m \in Delivered \/ m = Head(contents[q])
    <3>1. Head(contents[q]) \in 1..Pushed
        BY <2>2, HeadIsNext
    <3>2. m \in 1..Pushed
        BY <2>1, <2>2, <3>1
    <3>3. m \in Early
        BY <2>2, <3>2 DEF Early
    <3>4. CASE Complete
        BY <3>3, <3>4 DEF Complete
    <3>5. CASE Early \subseteq Known(q) /\ m \notin Delivered
      <4>1. Head(contents[q]) <= m
          BY <2>2, <3>3, <3>5, HeadIsDue
      <4> QED
          BY <2>1, <2>2, <3>1, <3>2, <4>1
    <3> QED
        BY <1>9, <3>4, <3>5
  <2>3. ASSUME NEW n \in Delivered', NEW m \in 1..n, BeforeEnd(m) PROVE m \in Delivered'
    <3>1. CASE n \in Delivered
        BY <1>7, <2>1, <2>3, <3>1 DEF Gapless
    <3>2. CASE n \notin Delivered
      <4>1. /\ contents[q] # <<>> /\ n = Head(contents[q])
            /\ Delivered' = Delivered \union {Head(contents[q])}
          BY <1>7, <2>3, <3>2
      <4> QED
          BY <2>2, <2>3, <4>1
    <3> QED
        BY <3>1, <3>2
  <2> QED
      BY <1>5, <2>3 DEF Gapless
<1>11. \A t \in Streams : stream'[t] # "dropped"
  <2>1. Close(s) \/ UNCHANGED streamVars
      BY <1>3 DEF TakesEvent, TakesEnd, GivesUp
  <2> QED
      BY <1>4, <2>1 DEF FedInv, Close, streamVars
<1>12. CASE FedBy(q) /\ Early \subseteq Known(q) /\ TakesEvent(s, q)
  <2>1. /\ contents[q] # <<>> /\ contents' = [contents EXCEPT ![q] = Tail(@)]
        /\ UNCHANGED <<stream, streamQueue, registered>>
        /\ received' = [received EXCEPT ![owner[s]] = @ \union {Head(contents[q])}]
      BY <1>2, <1>12 DEF TakesEvent, HandsOver, streamVars
  <2>2. Delivered' = Delivered \union {Head(contents[q])}
      BY <1>4, <2>1, DeliveredGrows
  <2>3. Items(contents[q]) = {Head(contents[q])} \union Items(contents'[q])
      BY <1>4, <2>1, HeadIsNext
  <2>4. Known(q)' = Known(q)
      BY <1>2, <2>2, <2>3 DEF Known
  <2>5. FedBy(q)'
      BY <1>2, <1>5, <1>6, <1>12, <2>1, <2>4 DEF FedBy
  <2> QED
      BY <1>2, <1>6, <1>10, <1>11, <2>5 DEF FedInv
<1>13. CASE Early \subseteq Known(q) /\ TakesEnd(s, q)
  <2>1. /\ contents[q] # <<>> /\ log[Head(contents[q])] = "end"
        /\ Receive(owner[s], "end")
        /\ received' = [received EXCEPT ![owner[s]] = @ \union {Head(contents[q])}]
      BY <1>2, <1>13 DEF TakesEnd, HandsOver
  <2>2. Head(contents[q]) \in 1..Pushed /\ Pushed \in Nat
      BY <2>1, HeadIsNext, DeliveredPushed
  <2>3. Announced'
      BY <1>5, <2>1, <2>2 DEF Announced, Pushed
  <2>4. Told'
      BY <1>4, <2>1, Receives DEF Told
  <2>5. Early \subseteq Delivered
    <3> SUFFICES ASSUME NEW m \in Early, m \notin Delivered PROVE FALSE
        OBVIOUS
    <3>1. Head(contents[q]) \in Nat /\ m \in Nat /\ Head(contents[q]) <= m
        BY <1>13, <2>1, HeadIsDue
    <3>2. Head(contents[q]) \in 1..m
        BY <2>2, <3>1
    <3> QED
        BY <2>1, <3>2 DEF Early, BeforeEnd
  <2>6. Complete'
      BY <1>5, <1>7, <2>3, <2>4, <2>5 DEF Complete
  <2> QED
      BY <1>2, <1>6, <1>10, <1>11, <2>6 DEF FedInv
<1>14. CASE FedBy(q) /\ Early \subseteq Known(q) /\ GivesUp(s, q)
  <2>1. /\ ended /\ Receive(owner[s], "end") /\ received' = received
        /\ Close(s) /\ contents' = Left(s, contents)
      BY <1>2, <1>14 DEF GivesUp
  <2>2. Told' /\ Delivered' = Delivered
      BY <1>4, <2>1, Receives DEF Told, Delivered
  <2>3. \A t \in Streams : stream'[t] = "open" =>
            t # s /\ stream[t] = "open" /\ streamQueue'[t] = streamQueue[t]
      BY <1>4, <2>1 DEF Close
  <2>4. (\E t \in Streams : stream'[t] = "open") => Known(q)' = Known(q)
    <3> SUFFICES ASSUME NEW t \in Streams, stream'[t] = "open" PROVE Known(q)' = Known(q)
        OBVIOUS
    <3>1. t \in Streams \ {s} /\ Read(q, t)
        BY <1>14, <2>3 DEF FedBy, Read
    <3>2. contents'[q] = contents[q]
        BY <1>4, <2>1, <3>1, LeftOf
    <3> QED
        BY <1>2, <2>2, <3>2 DEF Known
  <2>5. registered' = NoQueue /\ ended'
      BY <1>2, <2>1 DEF Close
  <2>6. FedBy(q)'
      BY <1>2, <1>5, <1>14, <2>2, <2>3, <2>4, <2>5 DEF FedBy
  <2> QED
      BY <1>2, <1>6, <1>10, <1>11, <2>6 DEF FedInv
<1> QED
    BY <1>2, <1>3, <1>6, <1>8, <1>9, <1>10, <1>11, <1>12, <1>13, <1>14 DEF FedInv

\* and the pages, as long as none goes away.
LEMMA ConnectFed == LineInv /\ FedInv /\ (\E p \in Pages : Connect(p)) => FedInv'
<1> SUFFICES ASSUME LineInv, FedInv, NEW p \in Pages, Connect(p), leaves = 0 PROVE FedInv'
    BY DEF FedInv, Connect
<1>1. SseTypeInv
    BY DEF LineInv
<1>2. /\ page[p] = "loaded"
      /\ UNCHANGED <<ended, log, failed, contents, ready, received, leaves>>
    BY <1>1, Connects DEF scanVars
<1>3. /\ page \in [Pages -> {"loaded", "watching", "polling", "left"}]
      /\ stream \in [Streams -> {"free", "open", "dropped"}]
      /\ streamQueue \in [Streams -> Queues \union {NoQueue}]
    BY <1>1 DEF SseTypeInv, TypeOK
<1>4. /\ Delivered' = Delivered /\ Early' = Early /\ (Announced' <=> Announced)
      /\ Gapless(Delivered)' <=> Gapless(Delivered)
      /\ \A q \in Queues : Known(q)' = Known(q)
    BY <1>2 DEF Delivered, Early, Announced, Gapless, BeforeEnd, Pushed, Known
<1>5. CASE Receive(p, "end") /\ UNCHANGED <<streamVars, registered>>
  <2>1. page' = [page EXCEPT ![p] = "left"] /\ UNCHANGED <<stream, streamQueue, registered>>
      BY <1>5, Receives DEF streamVars
  <2>2. Told'
      BY <1>3, <2>1 DEF Told
  <2>3. Complete => Complete'
      BY <1>4, <2>2 DEF Complete
  <2>4. \A q \in Queues : FedBy(q) => FedBy(q)'
      BY <1>2, <1>4, <2>1, <2>2 DEF FedBy
  <2> QED
      BY <1>2, <1>4, <2>1, <2>2, <2>3, <2>4 DEF FedInv
<1>6. ASSUME ~ended, NEW q \in Queues, Open(p, q), registered # NoQueue => q = registered
      PROVE  FedInv'
  <2>1. PICK s \in Streams :
            /\ stream' = [stream EXCEPT ![s] = "open"]
            /\ streamQueue' = [streamQueue EXCEPT ![s] = q]
            /\ registered' = q
            /\ page' = [page EXCEPT ![p] = "watching"]
      BY <1>1, <1>6, OpenedStream
  <2>2. Told => Told'
      BY <1>2, <1>3, <2>1 DEF Told
  <2>3. Complete => Complete'
      BY <1>4, <2>2 DEF Complete
  <2>4. ASSUME NEW r \in Queues, FedBy(r) PROVE FedBy(r)'
    <3>1. r = q /\ registered' = r
        BY <1>6, <2>1, <2>4, SseAssumption DEF FedBy
    <3>2. \A t \in Streams : stream'[t] = "open" => streamQueue'[t] = r
        BY <1>3, <2>1, <2>4, <3>1 DEF FedBy
    <3>3. Early' \subseteq Known(r)'
        BY <1>4, <1>6, <2>4 DEF FedBy
    <3> QED
        BY <1>2, <2>4, <3>1, <3>2, <3>3 DEF FedBy
  <2>5. \A t \in Streams : stream'[t] # "dropped"
      BY <1>3, <2>1 DEF FedInv
  <2> QED
      BY <1>2, <1>4, <2>2, <2>3, <2>4, <2>5 DEF FedInv
<1> QED
    BY <1>1, <1>5, <1>6, Connects

LEMMA PageFed ==
    ASSUME LineInv, FedInv, NEW p \in Pages,
           Reload(p) \/ ConnectionBreaks(p) \/ Refresh(p) \/ Show(p) \/ ResponseLost(p)
    PROVE  FedInv'
<1>1. /\ leaves \in Nat
      /\ page \in [Pages -> {"loaded", "watching", "polling", "left"}]
    BY SseAssumption DEF LineInv, SseTypeInv, TypeOK
<1>2. CASE Reload(p) \/ ConnectionBreaks(p) \/ ResponseLost(p)
    BY <1>1, <1>2 DEF Reload, ConnectionBreaks, ResponseLost, Leave, FedInv
<1>3. CASE Refresh(p) \/ Show(p)
  <2>1. UNCHANGED <<ended, log, failed, registered, contents, ready, stream, streamQueue,
                    received, leaves>>
      BY <1>3 DEF Refresh, Show, scanVars, queueVars, streamVars
  <2>2. Told => Told'
    <3>1. page' = page \/ \E v : page' = [page EXCEPT ![p] = IF @ = "polling" /\ v = "end" THEN "left" ELSE @]
        BY <1>3 DEF Refresh, Show
    <3> QED
        BY <1>1, <3>1 DEF Told
  <2>3. /\ Delivered' = Delivered /\ Early' = Early /\ (Announced' <=> Announced)
        /\ Gapless(Delivered)' <=> Gapless(Delivered)
        /\ \A q \in Queues : Known(q)' = Known(q)
      BY <2>1 DEF Delivered, Early, Announced, Gapless, BeforeEnd, Pushed, Known
  <2>4. Complete => Complete'
      BY <2>2, <2>3 DEF Complete
  <2>5. \A q \in Queues : FedBy(q) => FedBy(q)'
      BY <2>1, <2>2, <2>3 DEF FedBy
  <2> QED
      BY <2>1, <2>2, <2>3, <2>4, <2>5 DEF FedInv
<1> QED
    BY <1>2, <1>3

LEMMA InitFed == Init => FedInv
<1> SUFFICES ASSUME Init PROVE FedInv
    OBVIOUS
<1>1. /\ \A s \in Streams : stream[s] = "free"
      /\ log = <<>> /\ ready = <<>> /\ failed = {}
      /\ \A p \in Pages : received[p] = {}
    BY DEF Init
<1>2. PICK q \in Queues : registered = q
    BY SseAssumption DEF Init
<1>3. Delivered = {} /\ Early = {}
    BY <1>1 DEF Delivered, Early, Pushed
<1>4. FedBy(q)
    BY <1>1, <1>2, <1>3, NoItems DEF FedBy
<1> QED
    BY <1>1, <1>3, <1>4 DEF FedInv, Gapless

LEMMA NextFed == LineInv /\ FedInv /\ [Next]_vars => FedInv'
<1>1. ASSUME LineInv, FedInv, UNCHANGED vars PROVE FedInv'
  <2>1. UNCHANGED <<ended, log, failed, registered, contents, ready, stream, streamQueue,
                    page, received, leaves>>
      BY <1>1 DEF vars, scanVars, queueVars, streamVars, pageVars
  <2>2. /\ Told' = Told /\ Delivered' = Delivered /\ Early' = Early
        /\ (Announced' <=> Announced)
        /\ Gapless(Delivered)' <=> Gapless(Delivered)
        /\ \A q \in Queues : Known(q)' = Known(q)
      BY <2>1 DEF Told, Delivered, Early, Announced, Gapless, BeforeEnd, Pushed, Known
  <2>3. \A q \in Queues : FedBy(q) => FedBy(q)'
      BY <2>1, <2>2 DEF FedBy
  <2> QED
      BY <1>1, <2>1, <2>2, <2>3 DEF FedInv, Complete
<1> QED
    BY <1>1, ProduceFed, LoopPutsFed, StreamFed, ConnectFed, PageFed DEF Next

\* api.py: as long as no client goes away, the pages receive what the scan's
\* threads push without a gap up to the event that announces the end, also when
\* the worker announces it before the row is written; the scan does not die of a
\* push, and until a page is told the end every stream is fed.
THEOREM NothingIsEverMissed == Spec => []NothingMissed
<1>1. LineInv /\ FedInv => NothingMissed
  <2> SUFFICES ASSUME LineInv, FedInv, leaves = 0
               PROVE  /\ Gapless(Delivered)
                      /\ "main" \notin failed
                      /\ (\A p \in Pages : page[p] # "left") =>
                            /\ failed = {}
                            /\ \A s \in Streams : stream[s] = "open" => streamQueue[s] = registered
      BY DEF NothingMissed, Gapless
  <2>1. ~Told => \E q \in Queues : FedBy(q) /\ registered = q
      BY DEF FedInv, Complete, FedBy
  <2> QED
      BY <2>1 DEF FedInv, FedBy, Told
<1> QED
    BY InitLine, NextLine, InitFed, NextFed, <1>1, PTL DEF Spec
=============================================================================
