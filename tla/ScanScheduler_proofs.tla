------------------------- MODULE ScanScheduler_proofs -------------------------
(***************************************************************************)
(* Proofs about the scan scheduler, for any number of jobs, tasks, probes, *)
(* slots, faults and restarts, and for verifications that overlap as well  *)
(* as for those that do not.                                               *)
(***************************************************************************)
EXTENDS ScanSchedulerProps, Integers, FiniteSetTheorems, SequenceTheorems, WellFoundedInduction, TLAPS

-----------------------------------------------------------------------------
(* Lists: what RemoveFirst of SequencesExt, the model's list.remove, leaves *)

\* A nonempty set of positions of a list has a least one: of the intervals
\* 1..i that end in it, one is minimal.
LEMMA LeastElement ==
    ASSUME NEW n \in Nat, NEW I \in SUBSET (1..n), I # {}
    PROVE  \E x \in I : \A y \in I : x <= y
<1> DEFINE upTo == {1..i : i \in I}
<1>1. IsWellFoundedOn(StrictSubsetOrdering(1..n), SUBSET (1..n))
    <2>1. IsFiniteSet(1..n)
        BY FS_Interval
    <2> QED
        BY <2>1, FS_FiniteSubsetsOfFinite, FS_StrictSubsetOrderingWellFounded
<1>2. PICK u \in upTo : \A v \in upTo : <<v, u>> \notin StrictSubsetOrdering(1..n)
    <2>1. upTo \subseteq SUBSET (1..n)
        <3> SUFFICES ASSUME NEW i \in I PROVE 1..i \subseteq 1..n
            OBVIOUS
        <3> QED
            OBVIOUS
    <2>2. upTo # {}
        OBVIOUS
    <2> HIDE DEF upTo
    <2> QED
        BY <1>1, <2>1, <2>2, WFMin
<1>3. PICK x \in I : u = 1..x
    BY <1>2
<1>4. ASSUME NEW y \in I, y < x
      PROVE  FALSE
    <2>1. (1..y) \subseteq (1..x) /\ 1..y # 1..x
        <3>1. x \in 1..x /\ x \notin 1..y
            BY <1>4
        <3> QED
            BY <1>4, <3>1
    <2>2. <<1..y, 1..x>> \in StrictSubsetOrdering(1..n)
        BY <2>1 DEF StrictSubsetOrdering
    <2> QED
        BY <1>2, <1>3, <2>2
<1> QED
    BY <1>4

Positions(s, e) == {i \in 1..Len(s) : s[i] = e}

\* What list.remove leaves of a list that holds e: all but the first of its
\* occurrences.
LEMMA RemoveFirstIs ==
    ASSUME NEW S, NEW s \in Seq(S), NEW e, Positions(s, e) # {}
    PROVE  /\ RemoveFirst(s, e) \in Seq(S)
           /\ Len(RemoveFirst(s, e)) = Len(s) - 1
           /\ \E m \in Positions(s, e) :
                 /\ \A i \in Positions(s, e) : m <= i
                 /\ \A i \in 1..(Len(s) - 1) :
                       RemoveFirst(s, e)[i] = IF i < m THEN s[i] ELSE s[i + 1]
<1> DEFINE I == Positions(s, e)
           m == Min(I)
<1>1. Len(s) \in Nat /\ I \in SUBSET (1..Len(s)) /\ \A i \in 1..Len(s) : s[i] \in S
    BY LenProperties, ElementOfSeq DEF Positions
<1>2. m \in I /\ \A i \in I : m <= i
  <2>1. PICK x \in I : \A i \in I : x <= i
      BY <1>1, LeastElement
  <2> HIDE DEF I
  <2> QED
      BY <2>1 DEF Min
<1>3. RemoveFirst(s, e) = RemoveAt(s, m)
    BY <1>1, <1>2 DEF RemoveFirst, SelectInSeq, Positions
<1> HIDE DEF m
<1>4. m \in 1..Len(s)
    BY <1>1, <1>2
<1> DEFINE left == SubSeq(s, 1, m - 1)
           right == SubSeq(s, m + 1, Len(s))
<1>5. /\ left \in Seq(S) /\ Len(left) = m - 1
      /\ \A i \in 1..(m - 1) : left[i] = s[i]
    BY <1>1, <1>4, SubSeqProperties
<1>6. /\ right \in Seq(S) /\ Len(right) = Len(s) - m
      /\ \A i \in 1..(Len(s) - m) : right[i] = s[m + i]
  <2>1. /\ right \in Seq(S)
        /\ Len(right) = IF m + 1 <= Len(s) THEN Len(s) - (m + 1) + 1 ELSE 0
        /\ \A i \in 1..(Len(s) - (m + 1) + 1) : right[i] = s[m + 1 + i - 1]
      BY <1>1, <1>4, SubSeqProperties
  <2> HIDE DEF right
  <2>2. Len(s) - (m + 1) + 1 = Len(s) - m /\ \A i \in Nat : m + 1 + i - 1 = m + i
      BY <1>1, <1>4
  <2>3. Len(right) = Len(s) - m
      BY <1>1, <1>4, <2>1
  <2> QED
      BY <2>1, <2>2, <2>3
<1> HIDE DEF left, right
<1>7. /\ left \o right \in Seq(S)
      /\ Len(left \o right) = Len(s) - 1
      /\ \A i \in 1..(Len(s) - 1) : (left \o right)[i] = IF i < m THEN s[i] ELSE s[i + 1]
  <2>1. /\ left \o right \in Seq(S)
        /\ Len(left \o right) = Len(left) + Len(right)
        /\ \A i \in 1..(Len(left) + Len(right)) :
              (left \o right)[i] = IF i <= Len(left) THEN left[i] ELSE right[i - Len(left)]
      BY <1>5, <1>6, ConcatProperties
  <2>2. Len(left) + Len(right) = Len(s) - 1
      BY <1>1, <1>4, <1>5, <1>6
  <2>3. ASSUME NEW i \in 1..(Len(s) - 1)
        PROVE  (left \o right)[i] = IF i < m THEN s[i] ELSE s[i + 1]
    <3>1. CASE i < m
      <4>1. i \in 1..(m - 1) /\ i <= Len(left)
          BY <1>4, <1>5, <3>1
      <4> QED
          BY <1>5, <2>1, <2>2, <3>1, <4>1
    <3>2. CASE ~(i < m)
      <4>1. ~(i <= Len(left)) /\ i - Len(left) = i - (m - 1)
          BY <1>4, <1>5, <3>2
      <4>2. i - (m - 1) \in 1..(Len(s) - m) /\ m + (i - (m - 1)) = i + 1
          BY <1>1, <1>4, <3>2
      <4>3. right[i - (m - 1)] = s[i + 1]
          BY <1>6, <4>2
      <4>4. (left \o right)[i] = right[i - (m - 1)]
          BY <2>1, <2>2, <4>1
      <4> QED
          BY <3>2, <4>3, <4>4
    <3> QED
        BY <3>1, <3>2
  <2> QED
      BY <2>1, <2>2, <2>3
<1> QED
    BY <1>2, <1>3, <1>7 DEF RemoveAt, left, right

LEMMA RemoveFirstNothing ==
    ASSUME NEW s, NEW e, Positions(s, e) = {}
    PROVE  RemoveFirst(s, e) = s
BY DEF Positions, RemoveFirst

\* list.remove leaves a list of elements of the same set.
LEMMA RemoveFirstType ==
    ASSUME NEW S, NEW s \in Seq(S), NEW e
    PROVE  RemoveFirst(s, e) \in Seq(S)
BY RemoveFirstIs, RemoveFirstNothing

\* Of a list that begins with e it leaves the rest.
LEMMA RemoveFirstHead ==
    ASSUME NEW S, NEW s \in Seq(S), s # <<>>, NEW e, e = s[1]
    PROVE  /\ RemoveFirst(s, e) \in Seq(S)
           /\ Len(RemoveFirst(s, e)) = Len(s) - 1
           /\ \A i \in 1..(Len(s) - 1) : RemoveFirst(s, e)[i] = s[i + 1]
<1>1. Len(s) \in Nat /\ 1 \in 1..Len(s)
    BY EmptySeq, LenProperties
<1>2. 1 \in Positions(s, e)
    BY <1>1 DEF Positions
<1>3. /\ RemoveFirst(s, e) \in Seq(S)
      /\ Len(RemoveFirst(s, e)) = Len(s) - 1
      /\ \E m \in Positions(s, e) :
            /\ \A i \in Positions(s, e) : m <= i
            /\ \A i \in 1..(Len(s) - 1) :
                  RemoveFirst(s, e)[i] = IF i < m THEN s[i] ELSE s[i + 1]
    BY <1>2, RemoveFirstIs
<1>4. PICK m \in Positions(s, e) :
        /\ m <= 1
        /\ \A i \in 1..(Len(s) - 1) :
              RemoveFirst(s, e)[i] = IF i < m THEN s[i] ELSE s[i + 1]
    BY <1>2, <1>3
<1>5. m = 1
    BY <1>1, <1>4 DEF Positions
<1>6. \A i \in 1..(Len(s) - 1) : ~(i < m)
    BY <1>1, <1>5
<1> QED
    BY <1>3, <1>4, <1>6

LEMMA PositionsFinite ==
    ASSUME NEW S, NEW s \in Seq(S), NEW e
    PROVE  IsFiniteSet(Positions(s, e)) /\ Cardinality(Positions(s, e)) \in Nat
<1>1. IsFiniteSet(1..Len(s))
    BY LenProperties, FS_Interval
<1> QED
    BY <1>1, FS_Subset, FS_CardinalityType DEF Positions

\* It leaves one e less, and as many of any other element.
LEMMA RemoveFirstCounts ==
    ASSUME NEW S, NEW s \in Seq(S), NEW e, Positions(s, e) # {}, NEW k
    PROVE  Cardinality(Positions(RemoveFirst(s, e), k)) =
              IF k = e THEN Cardinality(Positions(s, k)) - 1 ELSE Cardinality(Positions(s, k))
<1> DEFINE r == RemoveFirst(s, e)
<1>1. PICK m \in Positions(s, e) :
        \A i \in 1..(Len(s) - 1) : r[i] = IF i < m THEN s[i] ELSE s[i + 1]
    BY RemoveFirstIs
<1>2. r \in Seq(S) /\ Len(r) = Len(s) - 1
    BY RemoveFirstIs
<1> HIDE DEF r
<1>3. Len(s) \in Nat /\ m \in 1..Len(s) /\ s[m] = e
    BY LenProperties DEF Positions
<1> DEFINE P == Positions(r, k)
           Q == Positions(s, k) \ {m}
           f == [i \in P |-> IF i < m THEN i ELSE i + 1]
<1>4. \A i \in P : i \in 1..(Len(s) - 1) /\ r[i] = k
    BY <1>2 DEF Positions
<1>5. ASSUME NEW i \in P
      PROVE  f[i] \in Q
  <2>1. CASE i < m
      BY <1>1, <1>3, <1>4, <1>5, <2>1 DEF Positions
  <2>2. CASE ~(i < m)
    <3>1. i + 1 \in 1..Len(s) /\ i + 1 # m
        BY <1>3, <1>4, <1>5, <2>2
    <3>2. s[i + 1] = k
        BY <1>1, <1>4, <1>5, <2>2
    <3> QED
        BY <1>5, <2>2, <3>1, <3>2 DEF Positions
  <2> QED
      BY <2>1, <2>2
<1>6. \A i, l \in P : f[i] = f[l] => i = l
    BY <1>3, <1>4
<1>7. ASSUME NEW l \in Q
      PROVE  \E i \in P : f[i] = l
  <2>1. l \in 1..Len(s) /\ s[l] = k /\ l # m
      BY <1>7 DEF Positions
  <2>2. CASE l < m
    <3>1. l \in 1..(Len(s) - 1) /\ r[l] = k
        BY <1>1, <1>3, <2>1, <2>2
    <3>2. l \in P
        BY <1>2, <3>1 DEF Positions
    <3> QED
        BY <2>2, <3>2
  <2>3. CASE ~(l < m)
    <3>1. l - 1 \in 1..(Len(s) - 1) /\ ~(l - 1 < m) /\ l - 1 + 1 = l
        BY <1>3, <2>1, <2>3
    <3>2. r[l - 1] = k
        BY <1>1, <2>1, <3>1
    <3>3. l - 1 \in P
        BY <1>2, <3>1, <3>2 DEF Positions
    <3> QED
        BY <3>1, <3>3
  <2> QED
      BY <2>2, <2>3
<1>8. f \in Bijection(P, Q)
  <2>1. f \in [P -> Q]
      BY <1>5
  <2> HIDE DEF f, P, Q
  <2> QED
      BY <1>6, <1>7, <2>1 DEF Bijection, Injection, Surjection, IsInjective
<1>9. Cardinality(Q) = Cardinality(P)
  <2>1. IsFiniteSet(P)
      BY <1>2, PositionsFinite
  <2> HIDE DEF f, P, Q
  <2> QED
      BY <1>8, <2>1, FS_Bijection DEF ExistsBijection
<1>10. IsFiniteSet(Positions(s, k)) /\ Cardinality(Positions(s, k)) \in Nat
    BY PositionsFinite
<1>11. CASE k = e
  <2>1. Cardinality(Q) = Cardinality(Positions(s, k)) - 1
      BY <1>10, <1>11, FS_RemoveElement
  <2> QED
      BY <1>9, <1>11, <2>1 DEF r
<1>12. CASE k # e
  <2>1. Q = Positions(s, k)
      BY <1>3, <1>12 DEF Positions
  <2> QED
      BY <1>9, <1>12, <2>1 DEF r
<1> QED
    BY <1>11, <1>12

USE SchedulerAssumption DEF SchedulerAssumption

-----------------------------------------------------------------------------
(* The semaphore *)

Semaphore == [value : Nat, woken : Seq(Tasks), waiters : Seq(Tasks)]

\* The permits that no task executes with.
Permits(s) == s.value + Len(s.woken)

\* Waking the next waiter keeps the sum of free and handed-over permits.
LEMMA WakeUpNextLemma ==
    ASSUME NEW s \in Semaphore, s.value > 0
    PROVE  /\ WakeUpNext(s) \in Semaphore
           /\ Permits(WakeUpNext(s)) = Permits(s)
BY DEF Semaphore, WakeUpNext, Sem, Permits

\* release() adds one permit, whoever gets it.
LEMMA ReleaseLemma ==
    ASSUME NEW s \in Semaphore
    PROVE  /\ Release(s) \in Semaphore
           /\ Permits(Release(s)) = Permits(s) + 1
<1> DEFINE r == Sem(s.value + 1, s.woken, s.waiters)
<1>1. r \in Semaphore /\ r.value > 0 /\ Permits(r) = Permits(s) + 1
    BY DEF Semaphore, Sem, Permits
<1> HIDE DEF r
<1>2. WakeUpNext(r) \in Semaphore /\ Permits(WakeUpNext(r)) = Permits(r)
    BY <1>1, WakeUpNextLemma
<1> QED
    BY <1>1, <1>2 DEF Release, r

\* The end of acquire() takes one, whether or not it wakes somebody else.
LEMMA ResumedLemma ==
    ASSUME NEW s \in Semaphore, s.woken # <<>>
    PROVE  /\ Resumed(s) \in Semaphore
           /\ Permits(Resumed(s)) = Permits(s) - 1
<1> DEFINE r == Sem(s.value, Tail(s.woken), s.waiters)
<1>1. r \in Semaphore /\ Permits(r) = Permits(s) - 1
    <2>1. Tail(s.woken) \in Seq(Tasks) /\ Len(Tail(s.woken)) = Len(s.woken) - 1
        BY HeadTailProperties DEF Semaphore
    <2> QED
        BY <2>1 DEF Semaphore, Sem, Permits
<1> HIDE DEF r
<1>2. r.value > 0 => WakeUpNext(r) \in Semaphore /\ Permits(WakeUpNext(r)) = Permits(r)
    BY <1>1, WakeUpNextLemma
<1> QED
    BY <1>1, <1>2 DEF Resumed, r

LEMMA TakeFreeLemma ==
    ASSUME NEW s \in Semaphore, ~Locked(s)
    PROVE  /\ TakeFree(s) \in Semaphore
           /\ Permits(TakeFree(s)) = Permits(s) - 1
BY DEF Semaphore, Locked, TakeFree, Sem, Permits

LEMMA EnqueueLemma ==
    ASSUME NEW s \in Semaphore, NEW t \in Tasks
    PROVE  /\ Enqueue(s, t) \in Semaphore
           /\ Permits(Enqueue(s, t)) = Permits(s)
BY DEF Semaphore, Enqueue, Sem, Permits

LEMMA NewSemaphoreLemma ==
    /\ NewSemaphore(MaxConcurrentScans) \in Semaphore
    /\ Permits(NewSemaphore(MaxConcurrentScans)) = MaxConcurrentScans
BY DEF Semaphore, NewSemaphore, Sem, Permits

-----------------------------------------------------------------------------
(* Types *)

\* A task that exists works for a job.
TasksHaveJobs == \A t \in Tasks : pc[t] # "idle" => jobOf[t] \in Jobs

TypeInv == TypeOK /\ TasksHaveJobs

LEMMA InitTypeInv == Init => TypeInv
<1> SUFFICES ASSUME Init PROVE TypeInv
    OBVIOUS
<1> QED
    BY NewSemaphoreLemma
    DEF Init, TypeInv, TypeOK, TasksHaveJobs, JobStatus, Terminal, TokenStatus, TaskPc, Outcome,
        Semaphore, IdleTasks, NoTaskJobs, NoOutcomes, NoProbes

LEMMA FaultType ==
    ASSUME faults \in 0..MaxFaults, restarts \in 0..MaxRestarts, NEW n \in Nat, Fault(n)
    PROVE  faults' \in 0..MaxFaults /\ restarts' \in 0..MaxRestarts
BY DEF Fault

LEMMA CreateTaskType ==
    ASSUME TypeInv, NEW j \in Jobs, CreateTask(j)
    PROVE  /\ pc' \in [Tasks -> TaskPc]
           /\ jobOf' \in [Tasks -> Jobs \union {NoJob}]
           /\ \A t \in Tasks : pc'[t] # "idle" => jobOf'[t] \in Jobs
BY DEF TypeInv, TypeOK, TasksHaveJobs, CreateTask, TaskPc

\* What entering a slot does to the types.
LEMMA EnterSlotType ==
    ASSUME TypeInv, NEW t \in Tasks, pc[t] # "idle",
           NEW s \in Semaphore, NEW p \in Seq(Jobs), EnterSlot(t, s, p)
    PROVE  TypeInv'
<1>1. jobOf[t] \in Jobs
    BY DEF TypeInv, TasksHaveJobs
<1>2. pendingJobs' \in Seq(Jobs)
    BY RemoveFirstType DEF EnterSlot
<1>3. activeJobs' \in Seq(Jobs)
    <2>1. Append(activeJobs, jobOf[t]) \in Seq(Jobs)
        BY <1>1 DEF TypeInv, TypeOK
    <2>2. activeJobs' = Append(activeJobs, jobOf[t]) \/ activeJobs' = activeJobs
        BY DEF EnterSlot
    <2> QED
        BY <2>1, <2>2 DEF TypeInv, TypeOK
<1>4. sem' \in Semaphore
    BY ReleaseLemma DEF EnterSlot
<1>5. faults' \in 0..MaxFaults /\ restarts' \in 0..MaxRestarts
    BY FaultType DEF EnterSlot, TypeInv, TypeOK
<1>6. status' \in [Jobs -> JobStatus]
    BY <1>1 DEF EnterSlot, TypeInv, TypeOK, JobStatus
<1>7. /\ pc' \in [Tasks -> TaskPc]
      /\ jobOf' \in [Tasks -> Jobs \union {NoJob}]
      /\ TasksHaveJobs'
    BY <1>1 DEF EnterSlot, TypeInv, TypeOK, TasksHaveJobs, TaskPc
<1> QED
    BY <1>2, <1>3, <1>4, <1>5, <1>6, <1>7 DEF EnterSlot, TypeInv, TypeOK, Semaphore

LEMMA FinalStatusType ==
    ASSUME NEW o \in Outcome, NEW n \in Nat, NEW before \in JobStatus
    PROVE  FinalStatus(o, n, before) \in JobStatus
BY DEF FinalStatus, Outcome, JobStatus, Terminal

LEMMA NextTypeInv == TypeInv /\ [Next]_vars => TypeInv'
<1> SUFFICES ASSUME TypeInv, [Next]_vars
             PROVE  TypeInv'
    OBVIOUS
<1> USE DEF JobStatus, Terminal, TokenStatus
<1>1. ASSUME NEW j \in Jobs, StartExempt(j)
      PROVE  TypeInv'
    <2>1. CASE CreateTask(j) /\ Fault(0)
        BY <1>1, <2>1, CreateTaskType, FaultType
        DEF StartExempt, CreateTask, TypeInv, TypeOK, TasksHaveJobs
    <2>2. CASE Fault(1) /\ UNCHANGED slots
        BY <1>1, <2>2, FaultType DEF StartExempt, TypeInv, TypeOK, TasksHaveJobs, slots
    <2> QED
        BY <1>1, <2>1, <2>2 DEF StartExempt
<1>2. ASSUME NEW j \in Jobs, StartUnverified(j)
      PROVE  TypeInv'
    <2>1. faults' \in 0..MaxFaults /\ restarts' \in 0..MaxRestarts
        BY <1>2, FaultType DEF StartUnverified, TypeInv, TypeOK
    <2> QED
        BY <1>2, <2>1 DEF StartUnverified, TypeInv, TypeOK, TasksHaveJobs, memory, slots
<1>3. ASSUME NEW p \in Probes, NEW j \in Jobs, VerifyBegin(p, j)
      PROVE  TypeInv'
    BY <1>3 DEF VerifyBegin, TypeInv, TypeOK, TasksHaveJobs, database, slots, bounds
<1>4. ASSUME NEW p \in Probes, VerifySucceeds(p)
      PROVE  TypeInv'
    <2>1. probe[p] \in Jobs
        BY <1>4 DEF VerifySucceeds, TypeInv, TypeOK
    <2>2. target[probe[p]] \in Targets
        BY <2>1 DEF TypeInv, TypeOK
    <2>a. /\ probe' \in [Probes -> Jobs \union {NoJob}]
          /\ proved' \subseteq Targets
          /\ token' \in [Jobs -> TokenStatus]
        BY <1>4, <2>1, <2>2 DEF VerifySucceeds, TypeInv, TypeOK
    <2>d. contended' \subseteq Jobs
        <3>1. contended' = contended \union Contended(p) /\ Contended(p) \subseteq {probe[p]}
            BY <1>4 DEF VerifySucceeds, Contended
        <3> QED
            BY <2>1, <3>1 DEF TypeInv, TypeOK
    <2>b. status' \in [Jobs -> JobStatus]
        <3>1. [status EXCEPT ![probe[p]] = "queued"] \in [Jobs -> JobStatus]
            BY <2>1 DEF TypeInv, TypeOK
        <3>2. status' = [status EXCEPT ![probe[p]] = "queued"] \/ status' = status
            BY <1>4 DEF VerifySucceeds
        <3> QED
            BY <3>1, <3>2 DEF TypeInv, TypeOK
    <2>c. cached' \subseteq Targets
        <3>1. cached' = cached \union {target[probe[p]]} \/ cached' = cached
            BY <1>4 DEF VerifySucceeds
        <3> QED
            BY <2>2, <3>1 DEF TypeInv, TypeOK
    <2>3. CASE CreateTask(probe[p]) /\ Fault(0)
        <3>1. faults' \in 0..MaxFaults /\ restarts' \in 0..MaxRestarts
            BY <2>3, FaultType DEF TypeInv, TypeOK
        <3>2. /\ pc' \in [Tasks -> TaskPc]
              /\ jobOf' \in [Tasks -> Jobs \union {NoJob}]
              /\ TasksHaveJobs'
            BY <2>1, <2>3, CreateTaskType DEF TasksHaveJobs
        <3>3. UNCHANGED <<sem, outcome, pendingJobs, activeJobs>>
            BY <2>3 DEF CreateTask
        <3> QED
            BY <1>4, <2>a, <2>b, <2>c, <2>d, <3>1, <3>2, <3>3 DEF VerifySucceeds, TypeInv, TypeOK
    <2>4. CASE Fault(1) /\ UNCHANGED slots
        <3>1. faults' \in 0..MaxFaults /\ restarts' \in 0..MaxRestarts
            BY <2>4, FaultType DEF TypeInv, TypeOK
        <3> QED
            BY <1>4, <2>a, <2>b, <2>c, <2>d, <2>4, <3>1
            DEF VerifySucceeds, TypeInv, TypeOK, TasksHaveJobs, slots
    <2> QED
        BY <1>4, <2>3, <2>4 DEF VerifySucceeds, slots
<1>5. ASSUME NEW p \in Probes, VerifyFails(p) \/ VerifyAborts(p)
      PROVE  TypeInv'
    BY <1>5 DEF VerifyFails, VerifyAborts, TypeInv, TypeOK, TasksHaveJobs, database, slots, bounds
<1>6. ASSUME NEW j \in Jobs, Cancel(j)
      PROVE  TypeInv'
    BY <1>6 DEF Cancel, TypeInv, TypeOK, TasksHaveJobs, database, slots, bounds
<1>7. ASSUME NEW g \in Targets, CacheExpires(g)
      PROVE  TypeInv'
    BY <1>7 DEF CacheExpires, TypeInv, TypeOK, TasksHaveJobs, memory, slots, bounds
<1>8. ASSUME NEW t \in Tasks, TaskWaits(t)
      PROVE  TypeInv'
    <2>1. jobOf[t] \in Jobs
        BY <1>8 DEF TaskWaits, TypeInv, TasksHaveJobs
    <2>2. sem' \in Semaphore
        BY <1>8, EnqueueLemma DEF TaskWaits, TypeInv, TypeOK, Semaphore
    <2>3. pendingJobs' \in Seq(Jobs)
        BY <1>8, <2>1 DEF TaskWaits, TypeInv, TypeOK
    <2>4. pc' \in [Tasks -> TaskPc] /\ TasksHaveJobs'
        BY <1>8, <2>1 DEF TaskWaits, TypeInv, TypeOK, TasksHaveJobs, TaskPc
    <2> QED
        BY <1>8, <2>2, <2>3, <2>4 DEF TaskWaits, TypeInv, TypeOK, Semaphore, database, bounds
<1>9. ASSUME NEW t \in Tasks, TaskEnters(t)
      PROVE  TypeInv'
    <2>1. jobOf[t] \in Jobs
        BY <1>9 DEF TaskEnters, TypeInv, TasksHaveJobs
    <2>2. TakeFree(sem) \in Semaphore
        BY <1>9, TakeFreeLemma DEF TaskEnters, TypeInv, TypeOK, Semaphore
    <2>3. Append(pendingJobs, jobOf[t]) \in Seq(Jobs)
        BY <2>1 DEF TypeInv, TypeOK
    <2> QED
        BY <1>9, <2>2, <2>3, EnterSlotType DEF TaskEnters
<1>10. ASSUME NEW t \in Tasks, TaskResumes(t)
       PROVE  TypeInv'
    <2>1. Resumed(sem) \in Semaphore
        BY <1>10, ResumedLemma DEF TaskResumes, TypeInv, TypeOK, Semaphore
    <2> QED
        BY <1>10, <2>1, EnterSlotType DEF TaskResumes, TypeInv, TypeOK
<1>11. ASSUME NEW t \in Tasks, TaskFinishes(t)
       PROVE  TypeInv'
    <2>1. jobOf[t] \in Jobs
        BY <1>11 DEF TaskFinishes, TypeInv, TasksHaveJobs
    <2>2. PICK n \in 0..(IF outcome[t] = "cancelled" THEN 2 ELSE 1) :
              /\ Fault(n)
              /\ status' = [status EXCEPT ![jobOf[t]] = FinalStatus(outcome[t], n, status[jobOf[t]])]
        BY <1>11 DEF TaskFinishes
    <2>a. n \in Nat
        OBVIOUS
    <2>3. status' \in [Jobs -> JobStatus]
        <3>1. outcome[t] \in Outcome /\ status[jobOf[t]] \in JobStatus
            BY <2>1 DEF TypeInv, TypeOK
        <3>2. FinalStatus(outcome[t], n, status[jobOf[t]]) \in JobStatus
            BY <2>a, <3>1, FinalStatusType
        <3> HIDE DEF JobStatus
        <3> QED
            BY <2>1, <2>2, <3>2 DEF TypeInv, TypeOK
    <2>4. faults' \in 0..MaxFaults /\ restarts' \in 0..MaxRestarts
        BY <2>2, <2>a, FaultType DEF TypeInv, TypeOK
    <2>5. activeJobs' \in Seq(Jobs)
        BY <1>11, RemoveFirstType DEF TaskFinishes, TypeInv, TypeOK
    <2>6. sem' \in Semaphore
        BY <1>11, ReleaseLemma DEF TaskFinishes, TypeInv, TypeOK, Semaphore
    <2>7. /\ pc' \in [Tasks -> TaskPc]
          /\ jobOf' \in [Tasks -> Jobs \union {NoJob}]
          /\ outcome' \in [Tasks -> Outcome]
          /\ TasksHaveJobs'
        BY <1>11 DEF TaskFinishes, TypeInv, TypeOK, TasksHaveJobs, TaskPc, Outcome
    <2> QED
        BY <1>11, <2>3, <2>4, <2>5, <2>6, <2>7 DEF TaskFinishes, TypeInv, TypeOK, Semaphore
<1>12. ASSUME NEW t \in Tasks, WorkerStep(t)
       PROVE  TypeInv'
    <2>1. /\ pc' \in [Tasks -> TaskPc]
          /\ outcome' \in [Tasks -> Outcome]
          /\ TasksHaveJobs'
        BY <1>12
        DEF WorkerStep, WorkerCancelled, WorkerPassesLastCheck, WorkerCompletes, WorkerRaises,
            WorkerReturns, TypeInv, TypeOK, TasksHaveJobs, TaskPc, Outcome
    <2> QED
        BY <1>12, <2>1
        DEF WorkerStep, WorkerCancelled, WorkerPassesLastCheck, WorkerCompletes, WorkerRaises,
            WorkerReturns, TypeInv, TypeOK, database, bounds
<1>13. ASSUME LoseMemory, UNCHANGED status \/ CloseUnfinished
       PROVE  TypeInv'
    <2>1. status' \in [Jobs -> JobStatus]
        BY <1>13 DEF CloseUnfinished, TypeInv, TypeOK
    <2>2. sem' \in Semaphore
        BY <1>13, NewSemaphoreLemma DEF LoseMemory
    <2>3. /\ pc' \in [Tasks -> TaskPc]
          /\ jobOf' \in [Tasks -> Jobs \union {NoJob}]
          /\ outcome' \in [Tasks -> Outcome]
          /\ probe' \in [Probes -> Jobs \union {NoJob}]
          /\ TasksHaveJobs'
        BY <1>13
        DEF LoseMemory, TasksHaveJobs, TaskPc, Outcome, IdleTasks, NoTaskJobs, NoOutcomes, NoProbes
    <2>4. /\ up' \in BOOLEAN /\ cancelFlags' \subseteq Jobs
          /\ pendingJobs' \in Seq(Jobs) /\ activeJobs' \in Seq(Jobs)
          /\ faults' \in 0..MaxFaults /\ restarts' \in 0..MaxRestarts
        <3>1. <<>> \in Seq(Jobs)
            OBVIOUS
        <3>2. restarts + 1 \in 0..MaxRestarts
            BY <1>13 DEF LoseMemory, TypeInv, TypeOK
        <3> QED
            BY <1>13, <3>1, <3>2 DEF LoseMemory, TypeInv, TypeOK
    <2> QED
        BY <1>13, <2>1, <2>2, <2>3, <2>4 DEF LoseMemory, TypeInv, TypeOK, Semaphore
<1>14. ASSUME Startup
       PROVE  TypeInv'
    BY <1>14 DEF Startup, CloseUnfinished, TypeInv, TypeOK, TasksHaveJobs, slots, bounds
<1>15. ASSUME UNCHANGED vars
       PROVE  TypeInv'
    BY <1>15 DEF vars, database, memory, slots, bounds, TypeInv, TypeOK, TasksHaveJobs
<1> QED
    BY <1>1, <1>2, <1>3, <1>4, <1>5, <1>6, <1>7, <1>8, <1>9, <1>10, <1>11, <1>12, <1>13, <1>14, <1>15
    DEF Next, TaskStep, ProbeStep, Crash, Shutdown

\* The variables keep their types; in particular a task that exists works for a
\* job, and the semaphore's counter is never negative.
THEOREM TypeCorrect == Spec => []TypeOK
<1>1. TypeInv => TypeOK
    BY DEF TypeInv
<1> QED
    BY InitTypeInv, NextTypeInv, <1>1, PTL DEF Spec

-----------------------------------------------------------------------------
(* The slots *)

ExecutingPc == {"scanning", "reporting", "returned"}

LEMMA ExecutingFinite ==
    /\ IsFiniteSet(Executing)
    /\ Cardinality(Executing) \in Nat
BY FS_Subset, FS_CardinalityType DEF Executing

\* A step that moves one task into, out of, or inside and outside the slots.
LEMMA ExecutingStep ==
    ASSUME TypeOK, NEW t \in Tasks, NEW x \in TaskPc, pc' = [pc EXCEPT ![t] = x]
    PROVE  /\ t \notin Executing /\ x \in ExecutingPc =>
                Cardinality(Executing') = Cardinality(Executing) + 1
           /\ t \in Executing /\ x \notin ExecutingPc =>
                Cardinality(Executing') = Cardinality(Executing) - 1
           /\ (t \in Executing <=> x \in ExecutingPc) =>
                Cardinality(Executing') = Cardinality(Executing)
<1>1. \A u \in Tasks : pc'[u] = IF u = t THEN x ELSE pc[u]
    BY DEF TypeOK
<1>2. ASSUME t \notin Executing, x \in ExecutingPc
      PROVE  Executing' = Executing \union {t}
    BY <1>1, <1>2 DEF Executing, ExecutingPc
<1>3. ASSUME t \in Executing, x \notin ExecutingPc
      PROVE  Executing' = Executing \ {t}
    BY <1>1, <1>3 DEF Executing, ExecutingPc
<1>4. ASSUME t \in Executing <=> x \in ExecutingPc
      PROVE  Executing' = Executing
    BY <1>1, <1>4 DEF Executing, ExecutingPc
<1>5. /\ t \notin Executing => Cardinality(Executing \union {t}) = Cardinality(Executing) + 1
      /\ t \in Executing => Cardinality(Executing \ {t}) = Cardinality(Executing) - 1
    BY ExecutingFinite, FS_AddElement, FS_RemoveElement
<1>6. CASE t \notin Executing /\ x \in ExecutingPc
    BY <1>2, <1>5, <1>6
<1>7. CASE t \in Executing /\ x \notin ExecutingPc
    BY <1>3, <1>5, <1>7
<1>8. CASE t \in Executing <=> x \in ExecutingPc
    BY <1>4, <1>8
<1> QED
    BY <1>6, <1>7, <1>8

\* A fresh memory executes nothing and has every permit.
LEMMA FreshSlots ==
    /\ sem = NewSemaphore(MaxConcurrentScans) /\ pc = IdleTasks => PermitsAccounted
    /\ sem' = NewSemaphore(MaxConcurrentScans) /\ pc' = IdleTasks => PermitsAccounted'
<1>1. pc = IdleTasks => Executing = {}
    BY DEF Executing, IdleTasks
<1>2. pc' = IdleTasks => Executing' = {}
    BY DEF Executing, IdleTasks
<1>3. Cardinality({}) = 0 /\ Len(<<>>) = 0
    BY FS_EmptySet
<1>4. ASSUME sem = NewSemaphore(MaxConcurrentScans), pc = IdleTasks
      PROVE  PermitsAccounted
    <2>1. sem.value = MaxConcurrentScans /\ sem.woken = <<>>
        BY <1>4 DEF NewSemaphore, Sem
    <2>2. Cardinality(Executing) = 0
        BY <1>1, <1>3, <1>4
    <2> QED
        BY <1>3, <2>1, <2>2 DEF PermitsAccounted
<1>5. ASSUME sem' = NewSemaphore(MaxConcurrentScans), pc' = IdleTasks
      PROVE  PermitsAccounted'
    <2>1. sem'.value = MaxConcurrentScans /\ sem'.woken = <<>>
        BY <1>5 DEF NewSemaphore, Sem
    <2>2. Cardinality(Executing') = 0
        BY <1>2, <1>3, <1>5
    <2> QED
        BY <1>3, <2>1, <2>2 DEF PermitsAccounted
<1> QED
    BY <1>4, <1>5

LEMMA InitPermits == Init => PermitsAccounted
BY FreshSlots DEF Init

\* Entering a slot with a permit taken from sem keeps the account, whether the
\* task gets to its scan or dies and returns the permit.
LEMMA EnterSlotPermits ==
    ASSUME TypeInv, PermitsAccounted, NEW t \in Tasks, t \notin Executing,
           NEW s \in Semaphore, Permits(s) = Permits(sem) - 1, NEW p, EnterSlot(t, s, p)
    PROVE  PermitsAccounted'
<1> USE DEF PermitsAccounted, Permits
<1>1. TypeOK /\ sem \in Semaphore /\ Cardinality(Executing) \in Nat
    BY ExecutingFinite DEF TypeInv, TypeOK, Semaphore
<1>2. CASE pc' = [pc EXCEPT ![t] = "scanning"] /\ sem' = s
    <2>1. Cardinality(Executing') = Cardinality(Executing) + 1
        BY <1>1, <1>2, ExecutingStep DEF TaskPc, ExecutingPc
    <2> QED
        BY <1>1, <1>2, <2>1 DEF Semaphore
<1>3. CASE pc' = [pc EXCEPT ![t] = "idle"] /\ sem' = Release(s)
    <2>1. Cardinality(Executing') = Cardinality(Executing)
        BY <1>1, <1>3, ExecutingStep DEF TaskPc, ExecutingPc
    <2>2. Permits(Release(s)) = Permits(s) + 1
        BY ReleaseLemma
    <2> QED
        BY <1>1, <1>3, <2>1, <2>2 DEF Semaphore
<1> QED
    BY <1>2, <1>3 DEF EnterSlot

LEMMA NextPermits == TypeInv /\ PermitsAccounted /\ [Next]_vars => PermitsAccounted'
<1> SUFFICES ASSUME TypeInv, PermitsAccounted, [Next]_vars
             PROVE  PermitsAccounted'
    OBVIOUS
<1> USE DEF PermitsAccounted
<1>1. TypeOK /\ sem \in Semaphore /\ Cardinality(Executing) \in Nat
    BY ExecutingFinite DEF TypeInv, TypeOK, Semaphore
<1>2. ASSUME UNCHANGED <<sem, pc>>
      PROVE  PermitsAccounted'
    BY <1>2 DEF Executing
<1>3. ASSUME NEW j, CreateTask(j)
      PROVE  PermitsAccounted'
    <2>1. PICK t \in Tasks : pc[t] = "idle" /\ pc' = [pc EXCEPT ![t] = "created"]
        BY <1>3 DEF CreateTask
    <2>2. Cardinality(Executing') = Cardinality(Executing)
        BY <1>1, <2>1, ExecutingStep DEF TaskPc, ExecutingPc, Executing
    <2> QED
        BY <1>3, <2>2 DEF CreateTask
<1>4. ASSUME NEW t \in Tasks, TaskWaits(t)
      PROVE  PermitsAccounted'
    <2>1. Cardinality(Executing') = Cardinality(Executing)
        BY <1>1, <1>4, ExecutingStep DEF TaskWaits, TaskPc, ExecutingPc, Executing
    <2>2. sem' = Enqueue(sem, t)
        BY <1>4 DEF TaskWaits
    <2> QED
        BY <1>1, <2>1, <2>2, EnqueueLemma DEF Permits
<1>5. ASSUME NEW t \in Tasks, TaskEnters(t)
      PROVE  PermitsAccounted'
    <2>1. TakeFree(sem) \in Semaphore /\ Permits(TakeFree(sem)) = Permits(sem) - 1
        BY <1>1, <1>5, TakeFreeLemma DEF TaskEnters
    <2>2. t \notin Executing
        BY <1>5 DEF TaskEnters, Executing
    <2> QED
        BY <1>5, <2>1, <2>2, EnterSlotPermits DEF TaskEnters
<1>6. ASSUME NEW t \in Tasks, TaskResumes(t)
      PROVE  PermitsAccounted'
    <2>1. Resumed(sem) \in Semaphore /\ Permits(Resumed(sem)) = Permits(sem) - 1
        BY <1>1, <1>6, ResumedLemma DEF TaskResumes
    <2>2. t \notin Executing
        BY <1>6 DEF TaskResumes, Executing
    <2> QED
        BY <1>6, <2>1, <2>2, EnterSlotPermits DEF TaskResumes
<1>7. ASSUME NEW t \in Tasks, TaskFinishes(t)
      PROVE  PermitsAccounted'
    <2>1. Cardinality(Executing') = Cardinality(Executing) - 1
        BY <1>1, <1>7, ExecutingStep DEF TaskFinishes, TaskPc, ExecutingPc, Executing
    <2>2. sem' = Release(sem)
        BY <1>7 DEF TaskFinishes
    <2>3. Release(sem) \in Semaphore /\ Permits(Release(sem)) = Permits(sem) + 1
        BY <1>1, ReleaseLemma
    <2> QED
        BY <1>1, <2>1, <2>2, <2>3 DEF Permits, Semaphore
<1>8. ASSUME NEW t \in Tasks, WorkerStep(t)
      PROVE  PermitsAccounted'
    <2>1. t \in Executing /\ (pc' = [pc EXCEPT ![t] = "reporting"] \/ pc' = [pc EXCEPT ![t] = "returned"])
        BY <1>8
        DEF WorkerStep, WorkerCancelled, WorkerPassesLastCheck, WorkerCompletes, WorkerRaises,
            WorkerReturns, Executing
    <2>2. Cardinality(Executing') = Cardinality(Executing)
        BY <1>1, <2>1, ExecutingStep DEF TaskPc, ExecutingPc
    <2>3. sem' = sem
        BY <1>8
        DEF WorkerStep, WorkerCancelled, WorkerPassesLastCheck, WorkerCompletes, WorkerRaises,
            WorkerReturns
    <2> QED
        BY <2>2, <2>3
<1>9. ASSUME LoseMemory
      PROVE  PermitsAccounted'
    BY <1>9, FreshSlots DEF LoseMemory
<1>10. ASSUME NEW j \in Jobs, StartExempt(j) \/ StartUnverified(j) \/ Cancel(j)
       PROVE  PermitsAccounted'
    BY <1>10, <1>2, <1>3 DEF StartExempt, StartUnverified, Cancel, memory, slots
<1>11. ASSUME NEW p \in Probes, ProbeStep(p) \/ \E j \in Jobs : VerifyBegin(p, j)
       PROVE  PermitsAccounted'
    BY <1>11, <1>2, <1>3
    DEF ProbeStep, VerifyBegin, VerifySucceeds, VerifyFails, VerifyAborts, slots
<1>12. ASSUME Startup \/ \E g \in Targets : CacheExpires(g)
       PROVE  PermitsAccounted'
    BY <1>12, <1>2 DEF Startup, CacheExpires, memory, slots
<1>13. ASSUME UNCHANGED vars
       PROVE  PermitsAccounted'
    BY <1>13, <1>2 DEF vars, memory, slots
<1> HIDE DEF PermitsAccounted
<1> QED
    BY <1>4, <1>5, <1>6, <1>7, <1>8, <1>9, <1>10, <1>11, <1>12, <1>13
    DEF Next, TaskStep, Crash, Shutdown

\* No permit is leaked or returned twice on any path, failing writes, dying
\* tasks and restarts included.
THEOREM PermitsAlwaysAccounted == Spec => []PermitsAccounted
<1>1. TypeInv /\ PermitsAccounted /\ [Next]_vars => TypeInv' /\ PermitsAccounted'
    BY NextTypeInv, NextPermits
<1> QED
    BY InitTypeInv, InitPermits, <1>1, PTL DEF Spec

\* At most MaxConcurrentScans scans execute at a time.
AtMostMaxExecute == Cardinality(Executing) <= MaxConcurrentScans

THEOREM ConcurrencyBounded == Spec => []AtMostMaxExecute
<1>1. TypeOK /\ PermitsAccounted => AtMostMaxExecute
    BY ExecutingFinite DEF TypeOK, PermitsAccounted, AtMostMaxExecute
<1> QED
    BY TypeCorrect, PermitsAlwaysAccounted, <1>1, PTL

-----------------------------------------------------------------------------
(* Wake-ups *)

\* release() and the end of acquire() leave nobody asleep beside a free permit.
LEMMA ReleaseAwake ==
    ASSUME NEW s \in Semaphore
    PROVE  Release(s).waiters # <<>> => Release(s).woken # <<>>
BY DEF Release, WakeUpNext, Sem, Semaphore

LEMMA ResumedAwake ==
    ASSUME NEW s \in Semaphore, s.woken # <<>>
    PROVE  Resumed(s).waiters # <<>> => Resumed(s).value = 0 \/ Resumed(s).woken # <<>>
<1>1. s.value \in Nat /\ s.waiters \in Seq(Tasks)
    BY DEF Semaphore
<1>2. CASE s.value > 0 /\ s.waiters # <<>>
    <2>1. Resumed(s).woken = Append(Tail(s.woken), Head(s.waiters))
        BY <1>2 DEF Resumed, WakeUpNext, Sem
    <2>2. Tail(s.woken) \in Seq(Tasks)
        BY HeadTailProperties DEF Semaphore
    <2>3. Head(s.waiters) \in Tasks
        BY <1>1, <1>2
    <2> QED
        BY <2>1, <2>2, <2>3
<1>3. CASE s.waiters = <<>> \/ s.value = 0
    BY <1>1, <1>3 DEF Resumed, WakeUpNext, Sem
<1> QED
    BY <1>1, <1>2, <1>3

LEMMA NextAwake == TypeInv /\ NoLostWakeup /\ [Next]_vars => NoLostWakeup'
<1> SUFFICES ASSUME TypeInv, NoLostWakeup, [Next]_vars
             PROVE  NoLostWakeup'
    OBVIOUS
<1> USE DEF NoLostWakeup
<1>1. sem \in Semaphore
    BY DEF TypeInv, TypeOK, Semaphore
<1>2. ASSUME UNCHANGED sem
      PROVE  NoLostWakeup'
    BY <1>2
<1>3. ASSUME NEW s \in Semaphore, sem' = Release(s)
      PROVE  NoLostWakeup'
    BY <1>3, ReleaseAwake
<1>4. ASSUME NEW t \in Tasks, TaskWaits(t)
      PROVE  NoLostWakeup'
    BY <1>1, <1>4 DEF TaskWaits, Locked, Enqueue, Sem, Semaphore
<1>5. ASSUME NEW t \in Tasks, TaskEnters(t)
      PROVE  NoLostWakeup'
    <2>1. TakeFree(sem) \in Semaphore /\ TakeFree(sem).waiters = <<>>
        BY <1>1, <1>5, TakeFreeLemma DEF TaskEnters, Locked, TakeFree, Sem
    <2>2. sem' = TakeFree(sem) \/ sem' = Release(TakeFree(sem))
        BY <1>5 DEF TaskEnters, EnterSlot
    <2> QED
        BY <2>1, <2>2, <1>3
<1>6. ASSUME NEW t \in Tasks, TaskResumes(t)
      PROVE  NoLostWakeup'
    <2>1. sem.woken # <<>> /\ Resumed(sem) \in Semaphore
        BY <1>1, <1>6, ResumedLemma DEF TaskResumes
    <2>2. sem' = Resumed(sem) \/ sem' = Release(Resumed(sem))
        BY <1>6 DEF TaskResumes, EnterSlot
    <2> QED
        BY <1>1, <1>3, <2>1, <2>2, ResumedAwake
<1>7. ASSUME NEW t \in Tasks, TaskFinishes(t) \/ WorkerStep(t)
      PROVE  NoLostWakeup'
    <2>1. sem' = Release(sem) \/ sem' = sem
        BY <1>7
        DEF TaskFinishes, WorkerStep, WorkerCancelled, WorkerPassesLastCheck, WorkerCompletes,
            WorkerRaises, WorkerReturns
    <2> QED
        BY <1>1, <1>2, <1>3, <2>1
<1>8. ASSUME LoseMemory
      PROVE  NoLostWakeup'
    BY <1>8 DEF LoseMemory, NewSemaphore, Sem
<1>9. ASSUME NEW j \in Jobs, StartExempt(j) \/ StartUnverified(j) \/ Cancel(j)
      PROVE  NoLostWakeup'
    BY <1>9, <1>2 DEF StartExempt, StartUnverified, Cancel, CreateTask, memory, slots
<1>10. ASSUME NEW p \in Probes, ProbeStep(p) \/ \E j \in Jobs : VerifyBegin(p, j)
       PROVE  NoLostWakeup'
    BY <1>10, <1>2
    DEF ProbeStep, VerifyBegin, VerifySucceeds, VerifyFails, VerifyAborts, CreateTask, slots
<1>11. ASSUME Startup \/ (\E g \in Targets : CacheExpires(g)) \/ UNCHANGED vars
       PROVE  NoLostWakeup'
    BY <1>11, <1>2 DEF Startup, CacheExpires, vars, memory, slots
<1> HIDE DEF NoLostWakeup
<1> QED
    BY <1>4, <1>5, <1>6, <1>7, <1>8, <1>9, <1>10, <1>11 DEF Next, TaskStep, Crash, Shutdown

\* A task asleep in acquire() always has every permit held, or a woken task
\* ahead of it that will look at the counter when it runs.
THEOREM WakeupsNeverLost == Spec => []NoLostWakeup
<1>1. Init => NoLostWakeup
    BY DEF Init, NoLostWakeup, NewSemaphore, Sem
<1>2. TypeInv /\ NoLostWakeup /\ [Next]_vars => TypeInv' /\ NoLostWakeup'
    BY NextTypeInv, NextAwake
<1> QED
    BY InitTypeInv, <1>1, <1>2, PTL DEF Spec

-----------------------------------------------------------------------------
(* Ownership *)

\* The cache of verified targets only holds targets that were proved, so a job
\* that skips its own verification inherits somebody's proof.
CacheIsProved == cached \subseteq proved

LEMMA NextOwnership ==
    TypeInv /\ CacheIsProved /\ OwnershipBeforeScan /\ [Next]_vars
        => CacheIsProved' /\ OwnershipBeforeScan'
<1> SUFFICES ASSUME TypeInv, CacheIsProved, OwnershipBeforeScan, [Next]_vars
             PROVE  CacheIsProved' /\ OwnershipBeforeScan'
    OBVIOUS
<1> USE DEF CacheIsProved, OwnershipBeforeScan
<1>1. TypeOK /\ TasksHaveJobs
    BY DEF TypeInv
<1>2. target' = target /\ isAdmin' = isAdmin
    BY DEF Next, StartExempt, StartUnverified, Cancel, VerifyBegin, ProbeStep, VerifySucceeds,
           VerifyFails, VerifyAborts, CacheExpires, TaskStep, TaskWaits, TaskEnters, TaskResumes,
           EnterSlot, TaskFinishes, WorkerStep, WorkerCancelled, WorkerPassesLastCheck,
           WorkerCompletes, WorkerRaises, WorkerReturns, Crash, Shutdown, LoseMemory, Startup,
           vars, database
<1>3. ASSUME NEW j \in Jobs, CreateTask(j), isAdmin[j] \/ target[j] \in proved',
             proved \subseteq proved'
      PROVE  OwnershipBeforeScan'
    BY <1>1, <1>2, <1>3 DEF CreateTask, TypeOK
<1>4. ASSUME UNCHANGED <<pc, jobOf>>, proved \subseteq proved'
      PROVE  OwnershipBeforeScan'
    BY <1>2, <1>4
<1>5. ASSUME NEW j \in Jobs, StartExempt(j)
      PROVE  CacheIsProved' /\ OwnershipBeforeScan'
    <2>1. UNCHANGED <<cached, proved>> /\ (isAdmin[j] \/ target[j] \in proved)
        BY <1>5 DEF StartExempt
    <2>2. CreateTask(j) \/ UNCHANGED slots
        BY <1>5 DEF StartExempt
    <2> QED
        BY <2>1, <2>2, <1>3, <1>4 DEF slots
<1>6. ASSUME NEW p \in Probes, VerifySucceeds(p)
      PROVE  CacheIsProved' /\ OwnershipBeforeScan'
    <2>1. probe[p] \in Jobs
        BY <1>1, <1>6 DEF VerifySucceeds, TypeOK
    <2>2. proved' = proved \union {target[probe[p]]} /\ cached' \subseteq proved'
        BY <1>6 DEF VerifySucceeds
    <2>3. CreateTask(probe[p]) \/ UNCHANGED slots
        BY <1>6 DEF VerifySucceeds, slots
    <2> QED
        BY <2>1, <2>2, <2>3, <1>3, <1>4 DEF slots
<1>7. ASSUME NEW t \in Tasks, TaskStep(t) \/ WorkerStep(t)
      PROVE  CacheIsProved' /\ OwnershipBeforeScan'
    <2>1. UNCHANGED <<cached, proved>>
        BY <1>7
        DEF TaskStep, TaskWaits, TaskEnters, TaskResumes, EnterSlot, TaskFinishes, WorkerStep,
            WorkerCancelled, WorkerPassesLastCheck, WorkerCompletes, WorkerRaises, WorkerReturns,
            database
    <2>2. pc[t] # "idle" /\ \E x \in TaskPc :
              /\ pc' = [pc EXCEPT ![t] = x]
              /\ jobOf' = jobOf \/ (x = "idle" /\ jobOf' = [jobOf EXCEPT ![t] = NoJob])
        BY <1>7
        DEF TaskStep, TaskWaits, TaskEnters, TaskResumes, EnterSlot, TaskFinishes, WorkerStep,
            WorkerCancelled, WorkerPassesLastCheck, WorkerCompletes, WorkerRaises, WorkerReturns,
            TaskPc
    <2>3. ASSUME NEW u \in Tasks, pc'[u] # "idle"
          PROVE  pc[u] # "idle" /\ jobOf'[u] = jobOf[u]
        BY <1>1, <2>2, <2>3 DEF TypeOK
    <2> QED
        BY <1>2, <2>1, <2>3
<1>8. ASSUME LoseMemory
      PROVE  CacheIsProved' /\ OwnershipBeforeScan'
    BY <1>8 DEF LoseMemory, IdleTasks
<1>9. ASSUME UNCHANGED <<pc, jobOf, proved>>, cached' \subseteq cached
      PROVE  CacheIsProved' /\ OwnershipBeforeScan'
    BY <1>2, <1>9
<1>10. ASSUME NEW j \in Jobs, StartUnverified(j) \/ Cancel(j)
       PROVE  CacheIsProved' /\ OwnershipBeforeScan'
    BY <1>9, <1>10 DEF StartUnverified, Cancel, memory, slots, database
<1>11. ASSUME NEW p \in Probes, \/ VerifyFails(p) \/ VerifyAborts(p)
                                \/ \E j \in Jobs : VerifyBegin(p, j)
       PROVE  CacheIsProved' /\ OwnershipBeforeScan'
    BY <1>9, <1>11 DEF VerifyFails, VerifyAborts, VerifyBegin, memory, slots, database
<1>12. ASSUME Startup \/ (\E g \in Targets : CacheExpires(g)) \/ UNCHANGED vars
       PROVE  CacheIsProved' /\ OwnershipBeforeScan'
    BY <1>9, <1>12 DEF Startup, CacheExpires, vars, memory, slots, database
<1> HIDE DEF CacheIsProved, OwnershipBeforeScan
<1> QED
    BY <1>5, <1>6, <1>7, <1>8, <1>10, <1>11, <1>12 DEF Next, ProbeStep, Crash, Shutdown

\* No scan task exists for a job of a plain user whose target's ownership was
\* never proved, whatever happens to requests, cache and process.
THEOREM OwnershipAlwaysBeforeScan == Spec => []OwnershipBeforeScan
<1>1. Init => CacheIsProved /\ OwnershipBeforeScan
    BY DEF Init, CacheIsProved, OwnershipBeforeScan, IdleTasks
<1>2. TypeInv /\ CacheIsProved /\ OwnershipBeforeScan /\ [Next]_vars
        => TypeInv' /\ CacheIsProved' /\ OwnershipBeforeScan'
    BY NextTypeInv, NextOwnership
<1> QED
    BY InitTypeInv, <1>1, <1>2, PTL DEF Spec
-----------------------------------------------------------------------------
(* Rows and their tasks *)

WorksFor(t, j) == pc[t] # "idle" /\ jobOf[t] = j

\* A job that was not accepted has no token, and until it is queued no task.
RowInv ==
    /\ \A j \in Jobs :
          /\ status[j] = "none" => token[j] = "none"
          /\ status[j] \in {"none", "pending_verify"} => \A t \in Tasks : ~WorksFor(t, j)
    /\ \A p \in Probes : probe[p] # NoJob => token[probe[p]] # "none"

Unused(j) == token[j] \in {"pending", "failed"}

\* Unless two requests verified a job at the same time, an open probe means an
\* unused token, an unused token that no task exists, and no task has company.
ProbeInv ==
    /\ \A p \in Probes : probe[p] # NoJob => probe[p] \in contended \/ Unused(probe[p])
    /\ \A j \in Jobs \ contended : Unused(j) => \A t \in Tasks : ~WorksFor(t, j)
    /\ \A t, u \in Tasks :
          pc[t] # "idle" /\ pc[u] # "idle" /\ jobOf[t] = jobOf[u] =>
              t = u \/ jobOf[t] \in contended

\* A step of a task or its worker moves no other one, and makes none.
LEMMA OneTaskMoves ==
    ASSUME TypeInv, NEW t \in Tasks, TaskStep(t) \/ WorkerStep(t)
    PROVE  /\ pc[t] # "idle" /\ jobOf[t] \in Jobs
           /\ UNCHANGED <<token, probe, contended, up, restarts>>
           /\ faults \in Nat /\ faults' \in Nat /\ faults' >= faults
           /\ \A u \in Tasks : pc'[u] # "idle" => pc[u] # "idle" /\ jobOf'[u] = jobOf[u]
           /\ \A u \in Tasks \ {t} : pc'[u] = pc[u] /\ jobOf'[u] = jobOf[u]
           /\ \/ status' = status
              \/ \E s \in {"running"} \union Terminal : status' = [status EXCEPT ![jobOf[t]] = s]
<1>1. TypeOK /\ TasksHaveJobs
    BY DEF TypeInv
<1>2. /\ pc[t] # "idle"
      /\ UNCHANGED <<token, probe, contended, up, restarts>>
      /\ \E x \in TaskPc :
            /\ pc' = [pc EXCEPT ![t] = x]
            /\ jobOf' = jobOf \/ (x = "idle" /\ jobOf' = [jobOf EXCEPT ![t] = NoJob])
    BY DEF TaskStep, TaskWaits, TaskEnters, TaskResumes, EnterSlot, TaskFinishes, WorkerStep,
           WorkerCancelled, WorkerPassesLastCheck, WorkerCompletes, WorkerRaises, WorkerReturns,
           TaskPc, Fault, database, bounds
<1>3. jobOf[t] \in Jobs
    BY <1>1, <1>2 DEF TasksHaveJobs
<1>4. faults' = faults \/ \E n \in 0..2 : Fault(n)
    BY DEF TaskStep, TaskWaits, TaskEnters, TaskResumes, EnterSlot, TaskFinishes, WorkerStep,
           WorkerCancelled, WorkerPassesLastCheck, WorkerCompletes, WorkerRaises, WorkerReturns,
           bounds
<1>5. faults \in Nat /\ faults' \in Nat /\ faults' >= faults
    BY <1>1, <1>4 DEF Fault, TypeOK
<1>6. \/ status' = status
      \/ \E s \in {"running"} \union Terminal : status' = [status EXCEPT ![jobOf[t]] = s]
  <2>1. CASE TaskFinishes(t)
    <3>1. PICK n \in 0..(IF outcome[t] = "cancelled" THEN 2 ELSE 1) :
            status' = [status EXCEPT ![jobOf[t]] = FinalStatus(outcome[t], n, status[jobOf[t]])]
        BY <2>1 DEF TaskFinishes
    <3>2. \/ FinalStatus(outcome[t], n, status[jobOf[t]]) \in Terminal
          \/ FinalStatus(outcome[t], n, status[jobOf[t]]) = status[jobOf[t]]
        BY DEF FinalStatus, Terminal
    <3>3. [status EXCEPT ![jobOf[t]] = status[jobOf[t]]] = status
        BY <1>1, <1>3 DEF TypeOK
    <3> QED
        BY <3>1, <3>2, <3>3
  <2>2. CASE TaskEnters(t) \/ TaskResumes(t)
      BY <2>2 DEF TaskEnters, TaskResumes, EnterSlot
  <2>3. CASE TaskWaits(t) \/ WorkerStep(t)
      BY <2>3 DEF TaskWaits, WorkerStep, WorkerCancelled, WorkerPassesLastCheck, WorkerCompletes,
                  WorkerRaises, WorkerReturns, database
  <2> QED
      BY <2>1, <2>2, <2>3 DEF TaskStep
<1> QED
    BY <1>1, <1>2, <1>3, <1>5, <1>6 DEF TypeOK

\* A step of the process, or of nobody, makes no task and opens no probe.
LEMMA ProcessStep ==
    ASSUME TypeInv, Crash \/ Shutdown \/ Startup \/ UNCHANGED vars
                    \/ \E g \in Targets : CacheExpires(g)
    PROVE  /\ UNCHANGED <<token, contended, faults>>
           /\ UNCHANGED <<pc, jobOf>> \/ pc' = IdleTasks
           /\ probe' = probe \/ probe' = NoProbes
           /\ status' = status \/ CloseUnfinished
BY DEF Crash, Shutdown, LoseMemory, Startup, CacheExpires, vars, database, memory, slots, bounds

LEMMA InitRows == Init => RowInv /\ ProbeInv
BY DEF Init, RowInv, ProbeInv, WorksFor, IdleTasks, NoProbes

LEMMA NextRows == TypeInv /\ RowInv /\ [Next]_vars => RowInv'
<1> SUFFICES ASSUME TypeInv, RowInv, [Next]_vars
             PROVE  RowInv'
    OBVIOUS
<1> USE DEF RowInv, WorksFor
<1>1. TypeOK /\ TasksHaveJobs
    BY DEF TypeInv
<1>2. ASSUME NEW j \in Jobs, StartExempt(j)
      PROVE  RowInv'
    BY <1>1, <1>2 DEF StartExempt, CreateTask, TypeOK, slots
<1>3. ASSUME NEW j \in Jobs, StartUnverified(j)
      PROVE  RowInv'
    BY <1>1, <1>3 DEF StartUnverified, TypeOK, memory, slots
<1>4. ASSUME NEW j \in Jobs, Cancel(j) \/ \E p \in Probes : VerifyBegin(p, j)
      PROVE  RowInv'
  <2>1. /\ UNCHANGED <<status, token, pc, jobOf>>
        /\ \A p \in Probes : probe'[p] = probe[p] \/ token[probe'[p]] # "none"
      BY <1>1, <1>4 DEF Cancel, VerifyBegin, TypeOK, database, slots
  <2> QED
      BY <2>1
<1>5. ASSUME NEW p \in Probes, VerifySucceeds(p)
      PROVE  RowInv'
  <2> DEFINE j == probe[p]
  <2>1. j \in Jobs /\ status[j] # "none"
      BY <1>1, <1>5 DEF VerifySucceeds, TypeOK
  <2>2. /\ probe' = [probe EXCEPT ![p] = NoJob]
        /\ token' = [token EXCEPT ![j] = "verified"]
      BY <1>5 DEF VerifySucceeds
  <2>3. CASE status' = [status EXCEPT ![j] = "queued"] /\ CreateTask(j)
      BY <1>1, <2>1, <2>2, <2>3 DEF CreateTask, TypeOK
  <2>4. CASE status' \in {status, [status EXCEPT ![j] = "queued"]} /\ UNCHANGED slots
      BY <1>1, <2>1, <2>2, <2>4 DEF TypeOK, slots
  <2> QED
      BY <1>5, <2>3, <2>4 DEF VerifySucceeds, slots
<1>6. ASSUME NEW p \in Probes, VerifyFails(p) \/ VerifyAborts(p)
      PROVE  RowInv'
  <2>1. probe[p] \in Jobs /\ status[probe[p]] # "none"
      BY <1>1, <1>6 DEF VerifyFails, VerifyAborts, TypeOK
  <2>2. /\ probe' = [probe EXCEPT ![p] = NoJob]
        /\ token' = [token EXCEPT ![probe[p]] = "failed"] \/ token' = token
        /\ UNCHANGED <<status, pc, jobOf>>
      BY <1>6 DEF VerifyFails, VerifyAborts, database, slots
  <2>3. \A q \in Probes : probe'[q] # NoJob => probe'[q] = probe[q]
      BY <1>1, <2>2 DEF TypeOK
  <2>4. \A j \in Jobs : /\ j # probe[p] => token'[j] = token[j]
                        /\ token[j] # "none" => token'[j] # "none"
      BY <1>1, <2>2 DEF TypeOK
  <2>5. \A q \in Probes : probe[q] # NoJob => probe[q] \in Jobs
      BY <1>1 DEF TypeOK
  <2> QED
      BY <2>1, <2>2, <2>3, <2>4, <2>5
<1>7. ASSUME NEW t \in Tasks, TaskStep(t) \/ WorkerStep(t)
      PROVE  RowInv'
  <2>1. \A j \in Jobs : status'[j] \in {"none", "pending_verify"} => status'[j] = status[j]
      BY <1>1, <1>7, OneTaskMoves DEF TypeOK, Terminal
  <2> QED
      BY <1>1, <1>7, <2>1, OneTaskMoves
<1>8. CASE Crash \/ Shutdown \/ Startup \/ UNCHANGED vars \/ \E g \in Targets : CacheExpires(g)
  <2>1. \A j \in Jobs : status'[j] \in {"none", "pending_verify"} => status'[j] = status[j]
      BY <1>8, ProcessStep DEF CloseUnfinished
  <2> QED
      BY <1>8, <2>1, ProcessStep DEF IdleTasks, NoProbes
<1> HIDE DEF RowInv
<1> QED
    BY <1>2, <1>3, <1>4, <1>5, <1>6, <1>7, <1>8 DEF Next, ProbeStep

\* A task that is made for a job concerns no other job.
LEMMA NewTaskIsAlone ==
    ASSUME TypeOK, NEW j \in Jobs, CreateTask(j)
    PROVE  \E n \in Tasks :
              /\ pc[n] = "idle" /\ pc'[n] = "created" /\ jobOf'[n] = j
              /\ \A t \in Tasks \ {n} : pc'[t] = pc[t] /\ jobOf'[t] = jobOf[t]
BY DEF CreateTask, TypeOK

\* A successful verification of a job that another request verifies, too, makes
\* it a contended one; what it does to the probes and to the token.
LEMMA SuccessMarks ==
    ASSUME TypeInv, NEW p \in Probes, VerifySucceeds(p)
    PROVE  /\ probe[p] \in Jobs /\ probe[p] # NoJob
           /\ probe'[p] = NoJob
           /\ \A q \in Probes \ {p} :
                 probe'[q] = probe[q] /\ (probe[q] = probe[p] => probe[p] \in contended')
           /\ contended' \in {contended, contended \union {probe[p]}}
           /\ token'[probe[p]] = "verified"
           /\ \A i \in Jobs \ {probe[p]} : token'[i] = token[i] /\ status'[i] = status[i]
<1>1. TypeOK
    BY DEF TypeInv
<1>2. probe[p] \in Jobs /\ probe[p] # NoJob
    BY <1>1 DEF VerifySucceeds, TypeOK
<1>3. probe'[p] = NoJob /\ \A q \in Probes \ {p} : probe'[q] = probe[q]
    BY <1>1 DEF VerifySucceeds, TypeOK
<1>4. contended' = contended \union Contended(p)
    BY DEF VerifySucceeds
<1>5. \A q \in Probes \ {p} : probe[q] = probe[p] => probe[p] \in contended'
    BY <1>4 DEF Contended
<1>6. contended' \in {contended, contended \union {probe[p]}}
    BY <1>4 DEF Contended
<1>7. token' = [token EXCEPT ![probe[p]] = "verified"]
    BY DEF VerifySucceeds
<1>8. token'[probe[p]] = "verified" /\ \A i \in Jobs \ {probe[p]} : token'[i] = token[i]
    BY <1>1, <1>2, <1>7 DEF TypeOK
<1>9. status' = status \/ status' = [status EXCEPT ![probe[p]] = "queued"]
    BY DEF VerifySucceeds
<1>10. \A i \in Jobs \ {probe[p]} : status'[i] = status[i]
    BY <1>1, <1>9 DEF TypeOK
<1> QED
    BY <1>2, <1>3, <1>5, <1>6, <1>8, <1>10

\* What any other answer does.
LEMMA RefusalKeeps ==
    ASSUME TypeInv, NEW p \in Probes, VerifyFails(p) \/ VerifyAborts(p)
    PROVE  /\ probe[p] \in Jobs /\ probe[p] # NoJob
           /\ UNCHANGED <<contended, status, up, pc, jobOf>>
           /\ \A q \in Probes : probe'[q] # NoJob => probe'[q] = probe[q]
           /\ token'[probe[p]] \in {token[probe[p]], "failed"}
           /\ \A i \in Jobs \ {probe[p]} : token'[i] = token[i]
<1>1. TypeOK
    BY DEF TypeInv
<1>2. probe[p] \in Jobs /\ probe[p] # NoJob
    BY <1>1 DEF VerifyFails, VerifyAborts, TypeOK
<1>3. /\ UNCHANGED <<contended, status, up, pc, jobOf>>
      /\ probe' = [probe EXCEPT ![p] = NoJob]
      /\ token' = token \/ token' = [token EXCEPT ![probe[p]] = "failed"]
    BY DEF VerifyFails, VerifyAborts, database, slots
<1>4. \A q \in Probes : probe'[q] # NoJob => probe'[q] = probe[q]
    BY <1>1, <1>3 DEF TypeOK
<1>5. /\ token'[probe[p]] \in {token[probe[p]], "failed"}
      /\ \A i \in Jobs \ {probe[p]} : token'[i] = token[i]
    BY <1>1, <1>2, <1>3 DEF TypeOK
<1> QED
    BY <1>2, <1>3, <1>4, <1>5

LEMMA NextProbes == TypeInv /\ RowInv /\ ProbeInv /\ [Next]_vars => ProbeInv'
<1> SUFFICES ASSUME TypeInv, RowInv, ProbeInv, [Next]_vars
             PROVE  ProbeInv'
    OBVIOUS
<1> USE DEF RowInv, ProbeInv, WorksFor, Unused
<1>1. TypeOK /\ TasksHaveJobs
    BY DEF TypeInv
<1>2. ASSUME NEW j \in Jobs, StartExempt(j)
      PROVE  ProbeInv'
  <2>1. /\ UNCHANGED <<token, probe, contended>>
        /\ token[j] = "none" /\ \A t \in Tasks : ~WorksFor(t, j)
      BY <1>2 DEF StartExempt
  <2>2. CASE CreateTask(j)
      BY <1>1, <2>1, <2>2, NewTaskIsAlone
  <2>3. CASE UNCHANGED slots
      BY <2>1, <2>3 DEF slots
  <2> QED
      BY <1>2, <2>2, <2>3 DEF StartExempt
<1>3. ASSUME NEW j \in Jobs, StartUnverified(j)
      PROVE  ProbeInv'
  <2>1. /\ UNCHANGED <<pc, jobOf, probe, contended>>
        /\ token' = token \/ token' = [token EXCEPT ![j] = "pending"]
        /\ status[j] = "none"
      BY <1>3 DEF StartUnverified, memory, slots
  <2>2. token[j] = "none" /\ \A t \in Tasks : ~WorksFor(t, j)
      BY <2>1
  <2>3. \A i \in Jobs : i # j => token'[i] = token[i]
      BY <1>1, <2>1 DEF TypeOK
  <2>4. \A p \in Probes : probe[p] # NoJob => probe[p] \in Jobs \ {j}
      BY <1>1, <2>2 DEF TypeOK
  <2> QED
      BY <2>1, <2>2, <2>3, <2>4
<1>4. ASSUME NEW j \in Jobs, NEW p \in Probes, VerifyBegin(p, j)
      PROVE  ProbeInv'
    BY <1>1, <1>4 DEF VerifyBegin, TypeOK, database, slots
<1>5. ASSUME NEW p \in Probes, VerifySucceeds(p)
      PROVE  ProbeInv'
  <2>1. PICK j \in Jobs : j = probe[p]
      BY SuccessMarks, <1>5
  <2>2. /\ j # NoJob /\ token'[j] = "verified"
        /\ \A i \in Jobs \ {j} : token'[i] = token[i]
        /\ contended' \in {contended, contended \union {j}}
        /\ \A q \in Probes : probe'[q] # NoJob =>
              probe'[q] = probe[q] /\ (probe[q] = j => j \in contended')
      BY SuccessMarks, <1>5, <2>1
  <2>3. j \in contended \/ \A t \in Tasks : ~WorksFor(t, j)
      BY <2>1, <2>2
  <2>4. \A q \in Probes : probe[q] # NoJob => probe[q] \in Jobs
      BY <1>1 DEF TypeOK
  <2>5. (\A q \in Probes : probe[q] # NoJob => probe[q] \in contended \/ Unused(probe[q]))'
    <3> SUFFICES ASSUME NEW q \in Probes, probe'[q] # NoJob
                 PROVE  \/ probe'[q] \in contended'
                        \/ token'[probe'[q]] \in {"pending", "failed"}
        OBVIOUS
    <3>1. probe'[q] = probe[q] /\ probe[q] \in Jobs /\ (probe[q] \in contended \/ Unused(probe[q]))
        BY <2>2, <2>4
    <3>2. CASE probe[q] = j
        BY <2>2, <3>1, <3>2
    <3>3. CASE probe[q] \in Jobs \ {j}
        BY <2>2, <3>1, <3>3
    <3> QED
        BY <3>1, <3>2, <3>3
  <2>6. CASE CreateTask(j)
    <3>1. PICK n \in Tasks :
            /\ pc[n] = "idle" /\ pc'[n] = "created" /\ jobOf'[n] = j
            /\ \A t \in Tasks \ {n} : pc'[t] = pc[t] /\ jobOf'[t] = jobOf[t]
        BY <1>1, <2>6, NewTaskIsAlone
    <3>2. \A i \in Jobs \ {j} : \A t \in Tasks : WorksFor(t, i)' => WorksFor(t, i)
        BY <3>1
    <3>3. (\A i \in Jobs \ contended : Unused(i) => \A t \in Tasks : ~WorksFor(t, i))'
        BY <2>2, <3>2
    <3>4. (\A t, u \in Tasks : pc[t] # "idle" /\ pc[u] # "idle" /\ jobOf[t] = jobOf[u] =>
              t = u \/ jobOf[t] \in contended)'
        BY <2>2, <2>3, <3>1
    <3> QED
        BY <2>5, <3>3, <3>4
  <2>7. CASE UNCHANGED slots
    <3>1. (\A i \in Jobs \ contended : Unused(i) => \A t \in Tasks : ~WorksFor(t, i))'
        BY <2>2, <2>7 DEF slots
    <3>2. (\A t, u \in Tasks : pc[t] # "idle" /\ pc[u] # "idle" /\ jobOf[t] = jobOf[u] =>
              t = u \/ jobOf[t] \in contended)'
        BY <2>2, <2>7 DEF slots
    <3> QED
        BY <2>5, <3>1, <3>2
  <2> QED
      BY <1>5, <2>1, <2>6, <2>7 DEF VerifySucceeds, slots
<1>6. ASSUME NEW p \in Probes, VerifyFails(p) \/ VerifyAborts(p)
      PROVE  ProbeInv'
  <2>1. PICK j \in Jobs : j = probe[p]
      BY <1>6, RefusalKeeps
  <2>2. /\ j # NoJob /\ UNCHANGED <<pc, jobOf, contended>>
        /\ token'[j] \in {token[j], "failed"}
        /\ \A i \in Jobs \ {j} : token'[i] = token[i]
        /\ \A q \in Probes : probe'[q] # NoJob => probe'[q] = probe[q]
      BY <1>6, <2>1, RefusalKeeps
  <2>3. \A q \in Probes : probe[q] # NoJob => probe[q] \in Jobs
      BY <1>1 DEF TypeOK
  <2>4. j \in contended \/ Unused(j)
      BY <2>1, <2>2
  <2>5. \A i \in Jobs \ contended : Unused(i)' <=> Unused(i)
      BY <2>2, <2>4
  <2> QED
      BY <2>2, <2>3, <2>5
<1>7. ASSUME NEW t \in Tasks, TaskStep(t) \/ WorkerStep(t)
      PROVE  ProbeInv'
    BY <1>1, <1>7, OneTaskMoves
<1>8. ASSUME NEW j \in Jobs, Cancel(j)
      PROVE  ProbeInv'
    BY <1>1, <1>8 DEF Cancel, database, slots
<1>9. CASE Crash \/ Shutdown \/ Startup \/ UNCHANGED vars \/ \E g \in Targets : CacheExpires(g)
    BY <1>9, ProcessStep DEF IdleTasks, NoProbes
<1> HIDE DEF RowInv, ProbeInv
<1> QED
    BY <1>2, <1>3, <1>4, <1>5, <1>6, <1>7, <1>8, <1>9 DEF Next, ProbeStep

\* README, "pending_verify: the scan has not started": a row in that state has no
\* task, whatever probes overlap, writes fail and processes die.
THEOREM PendingNeverStarted == Spec => []PendingNotStarted
<1>1. RowInv => PendingNotStarted
    BY DEF RowInv, WorksFor, PendingNotStarted, TasksOf
<1>2. TypeInv /\ RowInv /\ [Next]_vars => TypeInv' /\ RowInv'
    BY NextTypeInv, NextRows
<1> QED
    BY InitTypeInv, InitRows, <1>1, <1>2, PTL DEF Spec

\* A job that has two tasks was verified by two requests at the same time:
\* nothing else makes a second task, for any number of requests, failed writes
\* and restarts.
THEOREM TwoTasksAlwaysContended == Spec => []TwoTasksOnlyIfContended
<1>1. ASSUME ProbeInv PROVE TwoTasksOnlyIfContended
  <2>1. ASSUME NEW j \in Jobs \ contended PROVE Cardinality(TasksOf(j)) \in {0, 1}
    <3>1. CASE TasksOf(j) = {}
        BY <3>1, FS_EmptySet
    <3>2. ASSUME NEW t \in TasksOf(j) PROVE Cardinality(TasksOf(j)) = 1
      <4>1. TasksOf(j) = {t}
          BY <1>1, <2>1, <3>2 DEF ProbeInv, TasksOf
      <4> QED
          BY <4>1, FS_Singleton
    <3> QED
        BY <3>1, <3>2
  <2>2. ASSUME NEW j \in Jobs, Cardinality(TasksOf(j)) > 1 PROVE j \in contended
      BY <2>1, <2>2
  <2> QED
      BY <2>2 DEF TwoTasksOnlyIfContended
<1>2. TypeInv /\ RowInv /\ ProbeInv /\ [Next]_vars => TypeInv' /\ RowInv' /\ ProbeInv'
    BY NextTypeInv, NextRows, NextProbes
<1> QED
    BY InitTypeInv, InitRows, <1>1, <1>2, PTL DEF Spec
-----------------------------------------------------------------------------
(* Rows that say that something is going on *)

Served(j) == \E t \in Tasks : WorksFor(t, j)
Runs(j) == \E t \in Tasks : WorksFor(t, j) /\ pc[t] \in ExecutingPc

\* While no write has failed, and whatever the process does to the tasks.
ServedInv ==
    /\ \A t \in Tasks : pc[t] = "returned" => outcome[t] \in {"ok", "cancelled", "error"}
    /\ faults = 0 => \A j \in Jobs : token[j] = "verified" => status[j] # "pending_verify"
    /\ up /\ faults = 0 =>
          \A j \in Jobs : /\ Unfinished(status[j]) => Served(j)
                          /\ status[j] = "running" => Runs(j)

LEMMA InitServed == Init => ServedInv
BY DEF Init, ServedInv, IdleTasks, Unfinished

\* Without a fault, a new task serves its job and leaves all others served.
LEMMA NewTaskServes ==
    ASSUME TypeOK, ServedInv, NEW j \in Jobs, CreateTask(j),
           status' = [status EXCEPT ![j] = "queued"], UNCHANGED <<up, faults>>,
           \A i \in Jobs \ {j} : token'[i] = token[i]
    PROVE  ServedInv'
<1>1. PICK n \in Tasks :
        /\ pc[n] = "idle"
        /\ pc' = [pc EXCEPT ![n] = "created"]
        /\ jobOf' = [jobOf EXCEPT ![n] = j]
        /\ outcome' = outcome
    BY DEF CreateTask
<1>2. /\ pc'[n] = "created" /\ jobOf'[n] = j
      /\ \A t \in Tasks \ {n} : pc'[t] = pc[t] /\ jobOf'[t] = jobOf[t]
    BY <1>1 DEF TypeOK
<1>3. \A i \in Jobs : (Served(i) => Served(i)') /\ (Runs(i) => Runs(i)')
    BY <1>1, <1>2 DEF Served, Runs, WorksFor
<1>4. Served(j)'
    BY <1>2 DEF Served, WorksFor
<1>5. status'[j] = "queued" /\ \A i \in Jobs \ {j} : status'[i] = status[i]
    BY DEF TypeOK
<1> QED
    BY <1>1, <1>2, <1>3, <1>4, <1>5 DEF ServedInv

\* A step that leaves tasks alone and begins nothing.
LEMMA NothingBegins ==
    ASSUME ServedInv, UNCHANGED <<pc, jobOf, outcome, up>>, faults' = 0 => faults = 0,
           faults' = 0 => \A j \in Jobs : /\ Unfinished(status'[j]) => status'[j] = status[j]
                                          /\ token'[j] = "verified" => status'[j] # "pending_verify"
    PROVE  ServedInv'
<1>1. \A j \in Jobs : Served(j)' = Served(j) /\ Runs(j)' = Runs(j)
    BY DEF Served, Runs, WorksFor
<1> QED
    BY <1>1 DEF ServedInv, Unfinished

\* A step of one task by which its job stays what the row says.
LEMMA TaskServes ==
    ASSUME TypeInv, ServedInv, NEW t \in Tasks, TaskStep(t) \/ WorkerStep(t)
    PROVE  ServedInv'
<1>0. PICK j \in Jobs : j = jobOf[t]
    BY OneTaskMoves
<1>1. /\ TypeOK
      /\ pc[t] # "idle"
      /\ UNCHANGED <<token, up>>
      /\ faults' = 0 => faults = 0
      /\ \A u \in Tasks \ {t} : pc'[u] = pc[u] /\ jobOf'[u] = jobOf[u]
    BY <1>0, OneTaskMoves DEF TypeInv
<1>2. \A i \in Jobs \ {j} : (Served(i) => Served(i)') /\ (Runs(i) => Runs(i)')
    BY <1>0, <1>1 DEF Served, Runs, WorksFor
<1>3. /\ \A i \in Jobs \ {j} : status'[i] = status[i]
      /\ status'[j] = "pending_verify" => status[j] = "pending_verify"
    BY <1>0, <1>1, OneTaskMoves DEF TypeOK, Terminal
<1>4. \A u \in Tasks : pc'[u] = "returned" => outcome'[u] \in {"ok", "cancelled", "error"}
  <2>1. CASE WorkerCancelled(t) \/ WorkerCompletes(t) \/ WorkerRaises(t)
      BY <1>1, <2>1
      DEF WorkerCancelled, WorkerCompletes, WorkerRaises, WorkerReturns, ServedInv, TypeOK
  <2>2. CASE TaskFinishes(t)
      BY <1>1, <2>2 DEF TaskFinishes, ServedInv, TypeOK
  <2>3. CASE TaskWaits(t) \/ TaskEnters(t) \/ TaskResumes(t) \/ WorkerPassesLastCheck(t)
      BY <1>1, <2>3
      DEF TaskWaits, TaskEnters, TaskResumes, EnterSlot, WorkerPassesLastCheck, ServedInv, TypeOK
  <2> QED
      BY <2>1, <2>2, <2>3 DEF TaskStep, WorkerStep
<1>5. ASSUME up, faults' = 0
      PROVE  /\ Unfinished(status'[j]) => Served(j)'
             /\ status'[j] = "running" => Runs(j)'
  <2>1. CASE TaskEnters(t) \/ TaskResumes(t)
    <3>1. pc'[t] = "scanning" /\ jobOf'[t] = j
        BY <1>0, <1>1, <1>5, <2>1 DEF TaskEnters, TaskResumes, EnterSlot, Fault, TypeOK
    <3> QED
        BY <3>1 DEF Served, Runs, WorksFor, ExecutingPc
  <2>2. CASE TaskFinishes(t)
    <3>1. PICK n \in 0..(IF outcome[t] = "cancelled" THEN 2 ELSE 1) :
            /\ Fault(n)
            /\ status' = [status EXCEPT ![j] = FinalStatus(outcome[t], n, status[j])]
        BY <1>0, <2>2 DEF TaskFinishes
    <3>2. n = 0
        BY <1>1, <1>5, <3>1 DEF Fault, TypeOK
    <3>3. FinalStatus(outcome[t], 0, status[j]) \in Terminal
        BY <2>2 DEF TaskFinishes, ServedInv, FinalStatus, Terminal
    <3> QED
        BY <1>1, <3>1, <3>2, <3>3 DEF TypeOK, Terminal, Unfinished
  <2>3. CASE TaskWaits(t)
    <3>1. /\ pc'[t] = "waiting" /\ jobOf'[t] = j /\ status' = status
          /\ pc[t] \notin ExecutingPc
        BY <1>0, <1>1, <2>3 DEF TaskWaits, TypeOK, database, ExecutingPc
    <3> QED
        BY <1>0, <1>1, <1>5, <3>1 DEF ServedInv, Served, Runs, WorksFor
  <2>4. CASE WorkerStep(t)
    <3>1. pc'[t] \in ExecutingPc /\ jobOf'[t] = j
        BY <1>0, <1>1, <2>4 DEF WorkerStep, WorkerCancelled, WorkerPassesLastCheck, WorkerCompletes,
                          WorkerRaises, WorkerReturns, TypeOK, ExecutingPc
    <3> QED
        BY <3>1 DEF Served, Runs, WorksFor, ExecutingPc
  <2> QED
      BY <2>1, <2>2, <2>3, <2>4 DEF TaskStep
<1>6. faults' = 0 =>
        \A i \in Jobs : token'[i] = "verified" => status'[i] # "pending_verify"
  <2> SUFFICES ASSUME faults' = 0, NEW i \in Jobs, token'[i] = "verified",
                      status'[i] = "pending_verify"
               PROVE  FALSE
      OBVIOUS
  <2>1. status[i] = "pending_verify" /\ token[i] = "verified" /\ faults = 0
      BY <1>1, <1>3
  <2> QED
      BY <2>1 DEF ServedInv
<1>7. up' /\ faults' = 0 =>
        \A i \in Jobs : /\ Unfinished(status'[i]) => Served(i)'
                        /\ status'[i] = "running" => Runs(i)'
  <2> SUFFICES ASSUME up', faults' = 0, NEW i \in Jobs
               PROVE  /\ Unfinished(status'[i]) => Served(i)'
                      /\ status'[i] = "running" => Runs(i)'
      OBVIOUS
  <2>1. up /\ faults = 0
      BY <1>1
  <2>2. CASE i = j
      BY <1>5, <2>1, <2>2
  <2>3. CASE i # j
    <3>1. /\ Unfinished(status[i]) => Served(i)
          /\ status[i] = "running" => Runs(i)
        BY <2>1 DEF ServedInv
    <3>2. status'[i] = status[i] /\ (Served(i) => Served(i)') /\ (Runs(i) => Runs(i)')
        BY <1>2, <1>3, <2>3
    <3> QED
        BY <3>1, <3>2
  <2> QED
      BY <2>2, <2>3
<1> QED
    BY <1>4, <1>6, <1>7 DEF ServedInv

LEMMA NextServed == TypeInv /\ ServedInv /\ [Next]_vars => ServedInv'
<1> SUFFICES ASSUME TypeInv, ServedInv, [Next]_vars
             PROVE  ServedInv'
    OBVIOUS
<1>1. TypeOK /\ faults \in Nat
    BY DEF TypeInv, TypeOK
<1>2. ASSUME NEW j \in Jobs, StartExempt(j)
      PROVE  ServedInv'
  <2>1. CASE CreateTask(j) /\ Fault(0)
    <3>1. UNCHANGED <<token, up, faults>> /\ status' = [status EXCEPT ![j] = "queued"]
        BY <1>1, <1>2, <2>1 DEF StartExempt, Fault
    <3> QED
        BY <1>1, <2>1, <3>1, NewTaskServes
  <2>2. CASE Fault(1) /\ UNCHANGED slots
      BY <1>1, <1>2, <2>2, NothingBegins DEF StartExempt, Fault, slots
  <2> QED
      BY <1>2, <2>1, <2>2 DEF StartExempt
<1>3. ASSUME NEW j \in Jobs, StartUnverified(j)
      PROVE  ServedInv'
  <2>1. UNCHANGED <<pc, jobOf, outcome, up>>
      BY <1>3 DEF StartUnverified, memory, slots
  <2>2. CASE /\ status' = [status EXCEPT ![j] = "pending_verify"]
             /\ token' = [token EXCEPT ![j] = "pending"]
             /\ Fault(0)
    <3>1. faults' = faults
        BY <1>1, <2>2 DEF Fault
    <3>2. /\ status'[j] = "pending_verify" /\ token'[j] = "pending"
          /\ \A i \in Jobs \ {j} : status'[i] = status[i] /\ token'[i] = token[i]
        BY <1>1, <2>2 DEF TypeOK
    <3> QED
        BY <2>1, <3>1, <3>2, NothingBegins DEF ServedInv, Unfinished
  <2>3. CASE Fault(1)
    <3>1. faults' # 0
        BY <1>1, <2>3 DEF Fault
    <3> QED
        BY <2>1, <3>1, NothingBegins
  <2> QED
      BY <1>3, <2>2, <2>3 DEF StartUnverified
<1>4. ASSUME NEW p \in Probes, VerifySucceeds(p)
      PROVE  ServedInv'
  <2>1. probe[p] \in Jobs
      BY <1>1, <1>4 DEF VerifySucceeds, TypeOK
  <2>2. CASE status' = [status EXCEPT ![probe[p]] = "queued"] /\ CreateTask(probe[p]) /\ Fault(0)
    <3>1. \A i \in Jobs \ {probe[p]} : token'[i] = token[i]
        BY <1>1, <1>4 DEF VerifySucceeds, TypeOK
    <3>2. UNCHANGED <<up, faults>>
        BY <1>1, <1>4, <2>2 DEF VerifySucceeds, Fault
    <3> QED
        BY <1>1, <2>1, <2>2, <3>1, <3>2, NewTaskServes
  <2>3. CASE Fault(1) /\ UNCHANGED slots
    <3>1. faults' # 0 /\ UNCHANGED <<pc, jobOf, outcome, up>>
        BY <1>1, <1>4, <2>3 DEF VerifySucceeds, Fault, slots
    <3> QED
        BY <3>1, NothingBegins
  <2> QED
      BY <1>4, <2>2, <2>3 DEF VerifySucceeds, slots
<1>5. ASSUME UNCHANGED <<status, pc, jobOf, outcome, up, faults>>,
             \A j \in Jobs : token'[j] = "verified" => token[j] = "verified"
      PROVE  ServedInv'
    BY <1>5, NothingBegins DEF ServedInv
<1>6. ASSUME NEW p \in Probes,
             \/ VerifyFails(p) \/ VerifyAborts(p)
             \/ \E j \in Jobs : VerifyBegin(p, j) \/ Cancel(j)
      PROVE  ServedInv'
  <2>1. UNCHANGED <<status, pc, jobOf, outcome, up, faults>>
      BY <1>6 DEF VerifyFails, VerifyAborts, VerifyBegin, Cancel, database, slots, bounds
  <2>2. token' = token \/ token' = [token EXCEPT ![probe[p]] = "failed"]
      BY <1>6 DEF VerifyFails, VerifyAborts, VerifyBegin, Cancel, database
  <2> QED
      BY <1>1, <1>5, <2>1, <2>2 DEF TypeOK
<1>7. ASSUME NEW j \in Jobs, Cancel(j)
      PROVE  ServedInv'
    BY <1>5, <1>7 DEF Cancel, database, slots, bounds
<1>8. ASSUME NEW t \in Tasks, TaskStep(t) \/ WorkerStep(t)
      PROVE  ServedInv'
    BY <1>8, TaskServes
<1>9. CASE LoseMemory /\ (status' = status \/ CloseUnfinished)
    BY <1>9 DEF LoseMemory, CloseUnfinished, ServedInv, IdleTasks
<1>10. CASE Startup
    BY <1>10 DEF Startup, CloseUnfinished, Unfinished, ServedInv, slots, bounds
<1>11. CASE UNCHANGED vars \/ \E g \in Targets : CacheExpires(g)
    BY <1>5, <1>11 DEF CacheExpires, vars, database, memory, slots, bounds
<1> QED
    BY <1>2, <1>3, <1>4, <1>6, <1>7, <1>8, <1>9, <1>10, <1>11
    DEF Next, ProbeStep, Crash, Shutdown

\* README, "verification succeeds, job status -> queued, the scan starts": while
\* no write has failed, a row that is queued or running has a task, a running
\* one a scan, and a verified job is not waiting for a verification.
THEOREM UnfinishedAlwaysHasTask == Spec => []UnfinishedHasTask
<1>1. ServedInv => UnfinishedHasTask
    BY DEF ServedInv, Served, Runs, WorksFor, ExecutingPc, UnfinishedHasTask, TasksOf, Executing
<1>2. TypeInv /\ ServedInv /\ [Next]_vars => TypeInv' /\ ServedInv'
    BY NextTypeInv, NextServed
<1> QED
    BY InitTypeInv, InitServed, <1>1, <1>2, PTL DEF Spec
-----------------------------------------------------------------------------
(* The life cycle of a job *)

\* A task knows what its job's row says and a token can be used only while the
\* scan has not begun, unless two requests verified the job at the same time.
\* Tasks live in a running process.
TaskRows ==
    /\ ~up => \A t \in Tasks : pc[t] = "idle"
    /\ \A t \in Tasks : pc[t] # "idle" /\ jobOf[t] \notin contended =>
          status[jobOf[t]] = IF pc[t] \in ExecutingPc THEN "running" ELSE "queued"
    /\ \A j \in Jobs \ contended :
          Unused(j) => status[j] \in {"queued", "pending_verify", "error"}

LifecycleInv == TypeInv /\ RowInv /\ ProbeInv /\ PermitsAccounted /\ TaskRows

\* A task is made together with its job's row, or for a job without a task.
LEMMA NewTaskRows ==
    ASSUME TypeInv, TaskRows, NEW j \in Jobs, CreateTask(j), up, UNCHANGED up,
           j \in contended' \/ \A t \in Tasks : ~WorksFor(t, j),
           status' = [status EXCEPT ![j] = "queued"],
           contended' \in {contended, contended \union {j}},
           \A i \in Jobs \ {j} : token'[i] = token[i]
    PROVE  TaskRows'
<1>1. PICK n \in Tasks :
        /\ pc[n] = "idle" /\ pc'[n] = "created" /\ jobOf'[n] = j
        /\ \A t \in Tasks \ {n} : pc'[t] = pc[t] /\ jobOf'[t] = jobOf[t]
    BY NewTaskIsAlone DEF TypeInv
<1>2. status'[j] = "queued" /\ \A i \in Jobs \ {j} : status'[i] = status[i]
    BY DEF TypeInv, TypeOK
<1>3. \A t \in Tasks \ {n} : pc'[t] # "idle" /\ jobOf'[t] \notin contended' =>
          jobOf'[t] \in Jobs \ ({j} \union contended)
    BY <1>1 DEF TypeInv, TasksHaveJobs, WorksFor
<1>4. \A t \in Tasks : pc'[t] # "idle" /\ jobOf'[t] \notin contended' =>
          status'[jobOf'[t]] = IF pc'[t] \in ExecutingPc THEN "running" ELSE "queued"
  <2>1. CASE j \in contended'
      BY <1>1, <1>2, <1>3, <2>1 DEF TaskRows
  <2>2. CASE j \notin contended'
      BY <1>1, <1>2, <1>3, <2>2 DEF TaskRows, ExecutingPc
  <2> QED
      BY <2>1, <2>2
<1>5. \A i \in Jobs \ contended' :
          Unused(i)' => status'[i] \in {"queued", "pending_verify", "error"}
    BY <1>2 DEF TaskRows, Unused
<1> QED
    BY <1>4, <1>5 DEF TaskRows

\* The row of a task's job after one of its steps, while no other task has it.
LEMMA TaskKeepsRows ==
    ASSUME LifecycleInv, NEW t \in Tasks, TaskStep(t) \/ WorkerStep(t)
    PROVE  TaskRows'
<1>0. PICK j \in Jobs : j = jobOf[t]
    BY OneTaskMoves DEF LifecycleInv
<1>1. /\ TypeOK
      /\ pc[t] # "idle"
      /\ UNCHANGED <<token, contended, up>> /\ up
      /\ \A u \in Tasks \ {t} : pc'[u] = pc[u] /\ jobOf'[u] = jobOf[u]
      /\ pc'[t] # "idle" => jobOf'[t] = j
      /\ \A i \in Jobs \ {j} : status'[i] = status[i]
  <2>1. TypeInv /\ TypeOK
      BY DEF LifecycleInv, TypeInv
  <2>2. /\ pc[t] # "idle"
        /\ UNCHANGED <<token, contended, up>>
        /\ \A u \in Tasks \ {t} : pc'[u] = pc[u] /\ jobOf'[u] = jobOf[u]
        /\ pc'[t] # "idle" => jobOf'[t] = j
      BY <1>0, <2>1, OneTaskMoves
  <2>3. up
      BY <2>1, <2>2 DEF LifecycleInv, TaskRows, TypeOK
  <2>4. \A i \in Jobs \ {j} : status'[i] = status[i]
      BY <1>0, <2>1, OneTaskMoves DEF TypeOK
  <2> QED
      BY <2>1, <2>2, <2>3, <2>4
<1>2. CASE j \in contended
  <2>1. \A u \in Tasks \ {t} : pc'[u] # "idle" /\ jobOf'[u] \notin contended =>
            jobOf[u] \in Jobs \ {j} /\ pc[u] # "idle"
      BY <1>1, <1>2 DEF LifecycleInv, TypeInv, TasksHaveJobs
  <2> QED
      BY <1>1, <1>2, <2>1 DEF LifecycleInv, TaskRows, Unused
<1>3. CASE j \notin contended
  <2>1. \A u \in Tasks \ {t} : pc'[u] # "idle" => jobOf'[u] \in Jobs \ {j}
      BY <1>0, <1>1, <1>3 DEF LifecycleInv, TypeInv, TasksHaveJobs, ProbeInv
  <2>2. ~Unused(j)
      BY <1>0, <1>1, <1>3 DEF LifecycleInv, ProbeInv, WorksFor
  <2>3. status[j] = IF pc[t] \in ExecutingPc THEN "running" ELSE "queued"
      BY <1>0, <1>1, <1>3 DEF LifecycleInv, TaskRows
  <2>4. pc'[t] # "idle" =>
          jobOf'[t] = j /\ status'[j] = IF pc'[t] \in ExecutingPc THEN "running" ELSE "queued"
    <3>1. CASE TaskEnters(t) \/ TaskResumes(t)
        BY <1>0, <1>1, <3>1 DEF TaskEnters, TaskResumes, EnterSlot, TypeOK, ExecutingPc
    <3>2. CASE TaskFinishes(t)
        BY <1>1, <3>2 DEF TaskFinishes, TypeOK
    <3>3. CASE TaskWaits(t)
        BY <1>0, <1>1, <2>3, <3>3 DEF TaskWaits, TypeOK, database, ExecutingPc
    <3>4. CASE WorkerStep(t)
        BY <1>0, <1>1, <2>3, <3>4
        DEF WorkerStep, WorkerCancelled, WorkerPassesLastCheck, WorkerCompletes, WorkerRaises,
            WorkerReturns, TypeOK, database, ExecutingPc
    <3> QED
        BY <3>1, <3>2, <3>3, <3>4 DEF TaskStep
  <2> QED
      BY <1>1, <2>1, <2>2, <2>4 DEF LifecycleInv, TaskRows, Unused
<1> QED
    BY <1>2, <1>3

LEMMA NextTaskRows == LifecycleInv /\ [Next]_vars => TaskRows'
<1> SUFFICES ASSUME LifecycleInv, [Next]_vars
             PROVE  TaskRows'
    OBVIOUS
<1>1. TypeInv /\ TypeOK /\ RowInv /\ ProbeInv /\ TaskRows
    BY DEF LifecycleInv, TypeInv
<1>2. ASSUME NEW j \in Jobs, StartExempt(j)
      PROVE  TaskRows'
  <2>1. /\ up /\ UNCHANGED <<up, token, contended>>
        /\ status' = [status EXCEPT ![j] = "queued"]
        /\ token[j] = "none" /\ \A t \in Tasks : ~WorksFor(t, j)
      BY <1>1, <1>2 DEF StartExempt, RowInv
  <2>2. CASE CreateTask(j)
      BY <1>1, <2>1, <2>2, NewTaskRows
  <2>3. CASE UNCHANGED slots
      BY <1>1, <2>1, <2>3 DEF TaskRows, TypeOK, WorksFor, Unused, slots
  <2> QED
      BY <1>2, <2>2, <2>3 DEF StartExempt
<1>3. ASSUME NEW j \in Jobs, StartUnverified(j)
      PROVE  TaskRows'
  <2>1. /\ UNCHANGED <<up, pc, jobOf, contended>>
        /\ \A t \in Tasks : ~WorksFor(t, j)
        /\ \/ status' = [status EXCEPT ![j] = "pending_verify"]
           \/ status' = [status EXCEPT ![j] = "queued"]
        /\ token' = token \/ token' = [token EXCEPT ![j] = "pending"]
      BY <1>1, <1>3 DEF StartUnverified, RowInv, memory, slots
  <2>2. /\ status'[j] \in {"pending_verify", "queued"}
        /\ \A i \in Jobs \ {j} : status'[i] = status[i] /\ token'[i] = token[i]
      BY <1>1, <2>1 DEF TypeOK
  <2>3. \A t \in Tasks : pc[t] # "idle" => jobOf[t] \in Jobs \ {j}
      BY <1>1, <2>1 DEF TypeInv, TasksHaveJobs, WorksFor
  <2> QED
      BY <1>1, <2>1, <2>2, <2>3 DEF TaskRows, Unused
<1>4. ASSUME NEW j \in Jobs, Cancel(j) \/ \E p \in Probes : VerifyBegin(p, j)
      PROVE  TaskRows'
    BY <1>1, <1>4 DEF Cancel, VerifyBegin, TaskRows, Unused, database, slots
<1>5. ASSUME NEW p \in Probes, VerifySucceeds(p)
      PROVE  TaskRows'
  <2>1. PICK j \in Jobs : j = probe[p]
      BY <1>1, <1>5, SuccessMarks
  <2>2. /\ up /\ UNCHANGED up /\ j # NoJob
        /\ contended' \in {contended, contended \union {j}}
        /\ token'[j] = "verified"
        /\ \A i \in Jobs \ {j} : token'[i] = token[i] /\ status'[i] = status[i]
      BY <1>1, <1>5, <2>1, SuccessMarks DEF VerifySucceeds
  <2>3. j \in contended \/ \A t \in Tasks : ~WorksFor(t, j)
      BY <1>1, <2>1, <2>2 DEF ProbeInv
  <2>4. CASE status' = [status EXCEPT ![j] = "queued"] /\ CreateTask(j)
    <3>1. j \in contended' \/ \A t \in Tasks : ~WorksFor(t, j)
        BY <2>2, <2>3
    <3> QED
        BY <1>1, <2>2, <2>4, <3>1, NewTaskRows
  <2>5. CASE status' \in {status, [status EXCEPT ![j] = "queued"]} /\ UNCHANGED slots
    <3>1. \A t \in Tasks : pc[t] # "idle" /\ jobOf[t] \notin contended' =>
              jobOf[t] \in Jobs \ ({j} \union contended)
        BY <1>1, <2>2, <2>3 DEF TypeInv, TasksHaveJobs, WorksFor
    <3> QED
        BY <1>1, <2>2, <2>5, <3>1 DEF TaskRows, Unused, slots
  <2> QED
      BY <1>5, <2>1, <2>4, <2>5 DEF VerifySucceeds, slots
<1>6. ASSUME NEW p \in Probes, VerifyFails(p) \/ VerifyAborts(p)
      PROVE  TaskRows'
  <2>1. PICK j \in Jobs : j = probe[p]
      BY <1>1, <1>6, RefusalKeeps
  <2>2. /\ j # NoJob /\ UNCHANGED <<contended, status, up, pc, jobOf>>
        /\ token'[j] \in {token[j], "failed"}
        /\ \A i \in Jobs \ {j} : token'[i] = token[i]
      BY <1>1, <1>6, <2>1, RefusalKeeps
  <2>3. j \in contended \/ Unused(j)
      BY <1>1, <2>1, <2>2 DEF ProbeInv
  <2>4. \A i \in Jobs \ contended : Unused(i)' => Unused(i)
      BY <2>2, <2>3 DEF Unused
  <2> QED
      BY <1>1, <2>2, <2>4 DEF TaskRows
<1>7. ASSUME NEW t \in Tasks, TaskStep(t) \/ WorkerStep(t)
      PROVE  TaskRows'
    BY <1>7, TaskKeepsRows
<1>8. CASE LoseMemory /\ (status' = status \/ CloseUnfinished)
    BY <1>1, <1>8 DEF LoseMemory, CloseUnfinished, Unfinished, TaskRows, IdleTasks, Unused
<1>9. CASE Startup
    BY <1>1, <1>9 DEF Startup, CloseUnfinished, Unfinished, TaskRows, Unused, slots
<1>10. CASE UNCHANGED vars \/ \E g \in Targets : CacheExpires(g)
    BY <1>1, <1>10 DEF CacheExpires, TaskRows, Unused, vars, database, memory, slots
<1> QED
    BY <1>2, <1>3, <1>4, <1>5, <1>6, <1>7, <1>8, <1>9, <1>10
    DEF Next, ProbeStep, Crash, Shutdown

LEMMA LifecycleInductive == Spec => []LifecycleInv
<1>1. Init => LifecycleInv
    BY InitTypeInv, InitRows, InitPermits
    DEF LifecycleInv, Init, TaskRows, IdleTasks, Unused
<1>2. LifecycleInv /\ [Next]_vars => LifecycleInv'
    BY NextTypeInv, NextRows, NextProbes, NextPermits, NextTaskRows DEF LifecycleInv
<1> QED
    BY <1>1, <1>2, PTL DEF Spec

\* A final status is left only by the verification of a token that had not been
\* used or, if two requests verified the job at the same time, by the task or
\* the answer that is left over: no late task, no restart and no second answer
\* to a page touches a row that says how its scan ended.
THEOREM FinalStatusAlwaysStays == Spec => FinalStatusStays
<1> DEFINE Stays(j) ==
        status[j] \in Terminal /\ status'[j] # status[j] =>
            \/ token[j] \in {"pending", "failed"} /\ token'[j] = "verified"
            \/ /\ j \in contended
               /\ TasksOf(j) # {} \/ \E p \in Probes : probe[p] = j
<1>1. ASSUME LifecycleInv, [Next]_vars, NEW j \in Jobs
      PROVE  Stays(j)
  <2>1. TypeInv /\ TypeOK /\ ProbeInv /\ TaskRows
      BY <1>1 DEF LifecycleInv, TypeInv
  <2>2. ASSUME NEW i \in Jobs, StartExempt(i) \/ StartUnverified(i)
        PROVE  Stays(j)
    <3>1. status[i] \notin Terminal /\ \A k \in Jobs \ {i} : status'[k] = status[k]
        BY <2>1, <2>2 DEF StartExempt, StartUnverified, TypeOK, Terminal
    <3> QED
        BY <3>1
  <2>3. ASSUME NEW p \in Probes, VerifySucceeds(p)
        PROVE  Stays(j)
    <3>1. PICK i \in Jobs : i = probe[p]
        BY <2>1, <2>3, SuccessMarks
    <3>2. /\ i # NoJob /\ token'[i] = "verified"
          /\ \A k \in Jobs \ {i} : status'[k] = status[k]
        BY <2>1, <2>3, <3>1, SuccessMarks
    <3>3. i \in contended \/ token[i] \in {"pending", "failed"}
        BY <2>1, <3>1, <3>2 DEF ProbeInv, Unused
    <3> QED
        BY <3>1, <3>2, <3>3
  <2>4. ASSUME NEW t \in Tasks, TaskStep(t) \/ WorkerStep(t)
        PROVE  Stays(j)
    <3>1. PICK i \in Jobs : i = jobOf[t]
        BY <2>1, <2>4, OneTaskMoves
    <3>2. pc[t] # "idle" /\ \A k \in Jobs \ {i} : status'[k] = status[k]
        BY <2>1, <2>4, <3>1, OneTaskMoves DEF TypeOK
    <3>3. i \in contended \/ status[i] \notin Terminal
        BY <2>1, <3>1, <3>2 DEF TaskRows, Terminal
    <3>4. TasksOf(i) # {}
        BY <3>1, <3>2 DEF TasksOf
    <3> QED
        BY <3>2, <3>3, <3>4
  <2>5. ASSUME status' = status \/ CloseUnfinished
        PROVE  Stays(j)
      BY <2>5 DEF CloseUnfinished, Unfinished, Terminal
  <2>6. CASE Crash \/ Shutdown \/ Startup \/ UNCHANGED vars \/ \E g \in Targets : CacheExpires(g)
      BY <2>1, <2>5, <2>6, ProcessStep
  <2>7. ASSUME NEW p \in Probes, VerifyFails(p) \/ VerifyAborts(p)
        PROVE  Stays(j)
      BY <2>5, <2>7 DEF VerifyFails, VerifyAborts, database
  <2>8. ASSUME NEW i \in Jobs, Cancel(i) \/ \E p \in Probes : VerifyBegin(p, i)
        PROVE  Stays(j)
      BY <2>5, <2>8 DEF Cancel, VerifyBegin, database
  <2> HIDE DEF Stays
  <2> QED
      BY <1>1, <2>2, <2>3, <2>4, <2>6, <2>7, <2>8 DEF Next, ProbeStep
<1>2. LifecycleInv /\ [Next]_vars => [\A j \in Jobs : Stays(j)]_vars
    BY <1>1
<1> QED
    BY <1>2, LifecycleInductive, PTL DEF Spec, FinalStatusStays
-----------------------------------------------------------------------------
(* The scheduler implements JobLifecycle *)

\* The refinement mapping, job by job and task by task.
Active == {<<t, jobOf[t]>> : t \in Executing}
IsSpent(j) ==
    /\ j \notin contended
    /\ status[j] # "none" /\ token[j] \in {"none", "verified"}
    /\ \A t \in Tasks : WorksFor(t, j) => pc[t] \in ExecutingPc

LEMMA Mapping ==
    /\ \A j : j \in Spent <=> j \in Jobs /\ IsSpent(j)
    /\ \A j : (j \in Spent)' <=> j \in Jobs /\ IsSpent(j)'
    /\ \A t \in Tasks : \A j : <<t, j>> \in Active <=> pc[t] \in ExecutingPc /\ jobOf[t] = j
    /\ \A t \in Tasks : \A j : (<<t, j>> \in Active)' <=> pc'[t] \in ExecutingPc /\ jobOf'[t] = j
BY DEF Spent, IsSpent, TasksOf, Executing, Active, WorksFor, ExecutingPc

LEMMA MappingTypes ==
    /\ TypeInv => Active \subseteq Tasks \X Jobs /\ Spent \subseteq Jobs
    /\ TypeInv' => Active' \subseteq Tasks \X Jobs /\ Spent' \subseteq Jobs
BY DEF TypeInv, TasksHaveJobs, Active, Executing, Spent

\* What a step does to other jobs than its own.
Untouched(j) ==
    /\ status'[j] = status[j] /\ token'[j] = token[j]
    /\ (j \in contended)' <=> j \in contended
    /\ \A t \in Tasks :
          /\ WorksFor(t, j)' <=> WorksFor(t, j)
          /\ WorksFor(t, j) => (pc'[t] \in ExecutingPc <=> pc[t] \in ExecutingPc)

LEMMA UntouchedStays ==
    ASSUME NEW j \in Jobs, Untouched(j)
    PROVE  (j \in Spent)' <=> j \in Spent
<1>1. IsSpent(j)' <=> IsSpent(j)
    BY DEF Untouched, IsSpent
<1> QED
    BY <1>1, Mapping

\* A step about one job puts at most this job into the set, or takes it out.
LEMMA OneJobMoves ==
    ASSUME TypeInv, TypeInv', NEW j \in Jobs, \A i \in Jobs \ {j} : Untouched(i)
    PROVE  /\ (j \in Spent)' => Spent' = Spent \union {j}
           /\ ~(j \in Spent)' => Spent' = Spent \ {j}
<1>1. \A i \in Jobs \ {j} : i \in Spent' <=> i \in Spent
    BY UntouchedStays
<1>2. Spent \subseteq Jobs /\ Spent' \subseteq Jobs
    BY MappingTypes
<1> QED
    BY <1>1, <1>2

\* A step of one task moves at most its own execution.
LEMMA OneSlotMoves ==
    ASSUME TypeInv, TypeInv', NEW t \in Tasks,
           \A u \in Tasks \ {t} : pc'[u] = pc[u] /\ jobOf'[u] = jobOf[u]
    PROVE  /\ pc[t] \notin ExecutingPc /\ pc'[t] \notin ExecutingPc => Active' = Active
           /\ pc[t] \in ExecutingPc /\ pc'[t] \in ExecutingPc /\ jobOf'[t] = jobOf[t] =>
                 Active' = Active
           /\ pc[t] \notin ExecutingPc /\ pc'[t] \in ExecutingPc =>
                 Active' = Active \union {<<t, jobOf'[t]>>}
           /\ pc[t] \in ExecutingPc /\ pc'[t] \notin ExecutingPc =>
                 Active' = Active \ {<<t, jobOf[t]>>}
<1>1. \A u \in Tasks \ {t} : u \in Executing' <=> u \in Executing
    BY DEF Executing
<1>2. (t \in Executing <=> pc[t] \in ExecutingPc) /\ (t \in Executing' <=> pc'[t] \in ExecutingPc)
    BY DEF Executing, ExecutingPc
<1>3. Executing \subseteq Tasks /\ Executing' \subseteq Tasks
    BY DEF Executing
<1>4. Active = {<<u, jobOf[u]>> : u \in Executing} /\ Active' = {<<u, jobOf'[u]>> : u \in Executing'}
    BY DEF Active
<1>5. \A u \in Tasks \ {t} : <<u, jobOf'[u]>> = <<u, jobOf[u]>>
    OBVIOUS
<1>6. CASE pc[t] \notin ExecutingPc /\ pc'[t] \notin ExecutingPc
  <2>1. Executing' = Executing /\ t \notin Executing
      BY <1>1, <1>2, <1>3, <1>6
  <2> QED
      BY <1>3, <1>4, <1>5, <1>6, <2>1
<1>7. CASE pc[t] \in ExecutingPc /\ pc'[t] \in ExecutingPc
  <2>1. Executing' = Executing
      BY <1>1, <1>2, <1>3, <1>7
  <2> QED
      BY <1>3, <1>4, <1>5, <1>7, <2>1
<1>8. CASE pc[t] \notin ExecutingPc /\ pc'[t] \in ExecutingPc
  <2>1. Executing' = Executing \union {t} /\ t \notin Executing
      BY <1>1, <1>2, <1>3, <1>8
  <2> QED
      BY <1>3, <1>4, <1>5, <1>8, <2>1
<1>9. CASE pc[t] \in ExecutingPc /\ pc'[t] \notin ExecutingPc
  <2>1. Executing' = Executing \ {t} /\ t \in Executing
      BY <1>1, <1>2, <1>3, <1>9
  <2> QED
      BY <1>3, <1>4, <1>5, <1>9, <2>1
<1> QED
    BY <1>6, <1>7, <1>8, <1>9

\* A task made for j, or none, concerns no other job and executes nothing.
LEMMA CreationTouchesOne ==
    ASSUME TypeInv, TypeInv', NEW j \in Jobs, CreateTask(j) \/ UNCHANGED <<pc, jobOf>>,
           \A i \in Jobs \ {j} : status'[i] = status[i] /\ token'[i] = token[i],
           contended' \in {contended, contended \union {j}}
    PROVE  (\A i \in Jobs \ {j} : Untouched(i)) /\ Active' = Active
<1>1. CASE CreateTask(j)
  <2>1. PICK n \in Tasks :
          /\ pc[n] = "idle" /\ pc'[n] = "created" /\ jobOf'[n] = j
          /\ \A t \in Tasks \ {n} : pc'[t] = pc[t] /\ jobOf'[t] = jobOf[t]
      BY <1>1, NewTaskIsAlone DEF TypeInv
  <2>2. \A i \in Jobs \ {j} : Untouched(i)
      BY <2>1 DEF Untouched, WorksFor
  <2>3. Active' = Active
      BY <2>1, OneSlotMoves DEF ExecutingPc
  <2> QED
      BY <2>2, <2>3
<1>2. CASE UNCHANGED <<pc, jobOf>>
  <2>1. \A i \in Jobs \ {j} : Untouched(i)
      BY <1>2 DEF Untouched, WorksFor
  <2>2. Active' = Active
      BY <1>2 DEF Active, Executing
  <2> QED
      BY <2>1, <2>2
<1> QED
    BY <1>1, <1>2

\* A step of a task concerns its own job; if requests did not contend for that
\* job, it has no other task and its token is of no use any more.
LEMMA TaskTouchesOne ==
    ASSUME LifecycleInv, NEW t \in Tasks, TaskStep(t) \/ WorkerStep(t), NEW j \in Jobs, j = jobOf[t]
    PROVE  /\ pc[t] # "idle" /\ token'[j] = token[j] /\ contended' = contended
           /\ \A u \in Tasks \ {t} : pc'[u] = pc[u] /\ jobOf'[u] = jobOf[u]
           /\ pc'[t] # "idle" => jobOf'[t] = j
           /\ \A i \in Jobs \ {j} : Untouched(i)
           /\ j \notin contended =>
                 /\ \A u \in Tasks : (WorksFor(u, j) <=> u = t) /\ (WorksFor(u, j)' => u = t)
                 /\ token[j] \in {"none", "verified"}
                 /\ status[j] = IF pc[t] \in ExecutingPc THEN "running" ELSE "queued"
<1>1. /\ TypeInv /\ TypeOK
      /\ pc[t] # "idle"
      /\ UNCHANGED <<token, contended>>
      /\ \A u \in Tasks \ {t} : pc'[u] = pc[u] /\ jobOf'[u] = jobOf[u]
      /\ pc'[t] # "idle" => jobOf'[t] = j
    BY OneTaskMoves DEF LifecycleInv, TypeInv
<1>2. \A i \in Jobs \ {j} : status'[i] = status[i]
    BY <1>1, OneTaskMoves DEF TypeOK
<1>3. ASSUME j \notin contended
      PROVE  /\ \A u \in Tasks : (WorksFor(u, j) <=> u = t) /\ (WorksFor(u, j)' => u = t)
             /\ token[j] \in {"none", "verified"}
             /\ status[j] = IF pc[t] \in ExecutingPc THEN "running" ELSE "queued"
  <2>1. \A u \in Tasks : (WorksFor(u, j) <=> u = t) /\ (WorksFor(u, j)' => u = t)
      BY <1>1, <1>3 DEF LifecycleInv, ProbeInv, WorksFor
  <2>2. token[j] \in {"none", "pending", "failed", "verified"}
      BY <1>1 DEF TypeOK, TokenStatus
  <2>3. ~Unused(j)
      BY <1>3, <2>1 DEF LifecycleInv, ProbeInv
  <2>4. token[j] \in {"none", "verified"}
      BY <2>2, <2>3 DEF Unused
  <2>5. status[j] = IF pc[t] \in ExecutingPc THEN "running" ELSE "queued"
      BY <1>1, <1>3 DEF LifecycleInv, TaskRows
  <2> QED
      BY <2>1, <2>4, <2>5
<1>4. ASSUME NEW i \in Jobs \ {j}
      PROVE  Untouched(i)
    BY <1>1, <1>2, <1>4 DEF Untouched, WorksFor
<1> QED
    BY <1>1, <1>3, <1>4

\* A task that may enter its slot finds one that is free.
LEMMA SlotIsFree ==
    ASSUME LifecycleInv, NEW t \in Tasks, TaskEnters(t) \/ TaskResumes(t)
    PROVE  Cardinality(Active) < MaxConcurrentScans
<1>1. sem.value + Len(sem.woken) >= 1
  <2>1. CASE TaskEnters(t)
      BY <2>1 DEF TaskEnters, Locked, LifecycleInv, TypeInv, TypeOK
  <2>2. CASE TaskResumes(t)
      BY <2>2 DEF TaskResumes, LifecycleInv, TypeInv, TypeOK
  <2> QED
      BY <2>1, <2>2
<1>2. Cardinality(Executing) < MaxConcurrentScans
    BY <1>1, ExecutingFinite DEF LifecycleInv, TypeInv, TypeOK, PermitsAccounted
<1>3. IsFiniteSet(Active) /\ Cardinality(Active) <= Cardinality(Executing)
  <2> DEFINE f == [t1 \in Executing |-> <<t1, jobOf[t1]>>]
  <2>1. f \in Surjection(Executing, Active)
      BY DEF Surjection, Active
  <2> QED
      BY <2>1, ExecutingFinite, FS_Surjection
<1> QED
    BY <1>2, <1>3, ExecutingFinite, FS_CardinalityType

\* A task that nobody contended for: its job is spent while it executes.
LEMMA SpentWhileExecuting ==
    ASSUME LifecycleInv, TypeInv', NEW t \in Tasks, TaskStep(t) \/ WorkerStep(t),
           NEW j \in Jobs, j = jobOf[t], j \notin contended
    PROVE  /\ j \in Spent <=> pc[t] \in ExecutingPc
           /\ \A s \in Tasks : <<s, j>> \in Active => s = t
           /\ status'[j] # "none" /\ (WorksFor(t, j)' => pc'[t] \in ExecutingPc) => (j \in Spent)'
<1>1. /\ token'[j] = token[j] /\ contended' = contended
      /\ \A u \in Tasks : (WorksFor(u, j) <=> u = t) /\ (WorksFor(u, j)' => u = t)
      /\ token[j] \in {"none", "verified"}
      /\ status[j] = IF pc[t] \in ExecutingPc THEN "running" ELSE "queued"
    BY TaskTouchesOne
<1>2. IsSpent(j) <=> pc[t] \in ExecutingPc
    BY <1>1 DEF IsSpent
<1>3. \A s \in Tasks : <<s, j>> \in Active => WorksFor(s, j)
    BY Mapping DEF WorksFor, ExecutingPc
<1>4. status'[j] # "none" /\ (WorksFor(t, j)' => pc'[t] \in ExecutingPc) => IsSpent(j)'
    BY <1>1 DEF IsSpent
<1> QED
    BY <1>1, <1>2, <1>3, <1>4, Mapping

LEMMA TaskRefines ==
    ASSUME LifecycleInv, TypeInv', NEW t \in Tasks, TaskStep(t) \/ WorkerStep(t)
    PROVE  Lifecycle!Next \/ UNCHANGED <<status, Spent, contended, Active>>
<1> PICK j \in Jobs : j = jobOf[t]
    BY OneTaskMoves DEF LifecycleInv
<1>1. /\ TypeInv /\ TypeOK
      /\ pc[t] # "idle" /\ token'[j] = token[j] /\ contended' = contended
      /\ \A u \in Tasks \ {t} : pc'[u] = pc[u] /\ jobOf'[u] = jobOf[u]
      /\ pc'[t] # "idle" => jobOf'[t] = j
      /\ \A i \in Jobs \ {j} : Untouched(i)
    BY TaskTouchesOne DEF LifecycleInv, TypeInv
<1>2. j \notin contended =>
        /\ \A u \in Tasks : (WorksFor(u, j) <=> u = t) /\ (WorksFor(u, j)' => u = t)
        /\ status[j] = IF pc[t] \in ExecutingPc THEN "running" ELSE "queued"
    BY TaskTouchesOne
<1>3. j \in contended => Spent' = Spent
  <2>1. j \in contended => j \notin Spent /\ ~(j \in Spent)'
      BY <1>1, Mapping DEF IsSpent
  <2> QED
      BY <1>1, <2>1, OneJobMoves
<1>4. CASE TaskWaits(t) \/ WorkerStep(t)
  <2>1. /\ status' = status /\ pc'[t] # "idle"
        /\ pc[t] \in ExecutingPc <=> pc'[t] \in ExecutingPc
      BY <1>1, <1>4
      DEF TaskWaits, WorkerStep, WorkerCancelled, WorkerPassesLastCheck, WorkerCompletes,
          WorkerRaises, WorkerReturns, TypeOK, database, ExecutingPc
  <2>2. Untouched(j)
      BY <1>1, <2>1 DEF Untouched, WorksFor
  <2>3. j \in Spent <=> (j \in Spent)'
      BY <2>2, UntouchedStays
  <2>4. Spent' = Spent
      BY <1>1, <2>3, OneJobMoves
  <2>5. Active' = Active
      BY <1>1, <2>1, OneSlotMoves
  <2> QED
      BY <1>1, <2>1, <2>4, <2>5
<1>5. CASE TaskEnters(t) \/ TaskResumes(t)
  <2>1. pc[t] \notin ExecutingPc
      BY <1>5 DEF TaskEnters, TaskResumes, ExecutingPc
  <2>2. j \notin contended =>
          status[j] = "queued" /\ j \notin Spent /\ \A s \in Tasks : <<s, j>> \notin Active
    <3>1. <<t, j>> \notin Active
        BY <2>1, Mapping
    <3> QED
        BY <1>2, <2>1, <3>1, SpentWhileExecuting
  <2>3. CASE /\ pc' = [pc EXCEPT ![t] = "scanning"] /\ UNCHANGED jobOf
             /\ status' = [status EXCEPT ![j] = "running"]
    <3>1. pc'[t] = "scanning" /\ pc'[t] \in ExecutingPc /\ status'[j] = "running"
        BY <1>1, <2>3 DEF ExecutingPc, TypeOK
    <3>2. Active' = Active \union {<<t, j>>}
        BY <1>1, <2>1, <3>1, OneSlotMoves
    <3>3. j \notin contended => Spent' = Spent \union {j}
        BY <1>1, <3>1, SpentWhileExecuting, OneJobMoves
    <3>4. Spent' = Spent \union ({j} \ contended)
        BY <1>3, <3>3
    <3>5. Cardinality(Active) < MaxConcurrentScans
        BY <1>5, SlotIsFree
    <3>6. Lifecycle!Cardinality(Active) = Cardinality(Active)
        BY DEF Lifecycle!Cardinality, Cardinality
    <3>7. \A i \in Jobs : <<t, i>> \notin Active
        BY <2>1, Mapping
    <3>8. Lifecycle!Begin(t, j)
        BY <1>1, <2>2, <2>3, <3>2, <3>4, <3>5, <3>6, <3>7 DEF Lifecycle!Begin, Lifecycle!Idle, Active
    <3> QED
        BY <3>8 DEF Lifecycle!Next
  <2>4. CASE pc' = [pc EXCEPT ![t] = "idle"] /\ UNCHANGED status
    <3>1. pc'[t] = "idle" /\ pc'[t] \notin ExecutingPc /\ ~WorksFor(t, j)'
        BY <1>1, <2>4 DEF WorksFor, TypeOK, ExecutingPc
    <3>2. Active' = Active
        BY <1>1, <2>1, <3>1, OneSlotMoves
    <3>3. CASE j \in contended
        BY <1>1, <1>3, <2>4, <3>2, <3>3
    <3>4. CASE j \notin contended
      <4>1. Spent' = Spent \union {j}
        <5>1. (j \in Spent)'
            BY <2>2, <2>4, <3>1, <3>4, SpentWhileExecuting
        <5> QED
            BY <1>1, <5>1, OneJobMoves
      <4>2. Lifecycle!Drop(j)
          BY <1>1, <2>2, <2>4, <3>2, <3>4, <4>1 DEF Lifecycle!Drop, Active
      <4> QED
          BY <4>2 DEF Lifecycle!Next
    <3> QED
        BY <3>3, <3>4
  <2> QED
      BY <1>5, <2>3, <2>4 DEF TaskEnters, TaskResumes, EnterSlot
<1>6. CASE TaskFinishes(t)
  <2>1. pc[t] \in ExecutingPc /\ <<t, j>> \in Active
      BY <1>6, Mapping DEF TaskFinishes, ExecutingPc
  <2>2. PICK n \in 0..(IF outcome[t] = "cancelled" THEN 2 ELSE 1) :
          status' = [status EXCEPT ![j] = FinalStatus(outcome[t], n, status[j])]
      BY <1>6 DEF TaskFinishes
  <2>3. FinalStatus(outcome[t], n, status[j]) \in {"done", "cancelled", "error", status[j]}
      BY DEF FinalStatus
  <2>4. pc'[t] = "idle" /\ pc'[t] \notin ExecutingPc /\ ~WorksFor(t, j)'
      BY <1>1, <1>6 DEF TaskFinishes, WorksFor, TypeOK, ExecutingPc
  <2>5. Active' = Active \ {<<t, j>>}
      BY <1>1, <2>1, <2>4, OneSlotMoves
  <2>6. Spent' = Spent
    <3>1. CASE j \notin contended
      <4>1. status[j] = "running" /\ j \in Spent
          BY <1>2, <2>1, <3>1, SpentWhileExecuting
      <4>2. status'[j] # "none"
          BY <1>1, <2>2, <2>3, <4>1 DEF TypeOK
      <4>3. (j \in Spent)'
          BY <2>4, <3>1, <4>2, SpentWhileExecuting
      <4> QED
          BY <1>1, <4>1, <4>3, OneJobMoves
    <3> QED
        BY <1>3, <3>1
  <2>7. Lifecycle!End(t, j)
      BY <1>1, <2>1, <2>2, <2>3, <2>5, <2>6 DEF Lifecycle!End, Lifecycle!Ended, Active
  <2> QED
      BY <2>7 DEF Lifecycle!Next
<1> QED
    BY <1>4, <1>5, <1>6 DEF TaskStep

LEMMA RequestRefines ==
    ASSUME LifecycleInv, TypeInv', NEW j \in Jobs, StartExempt(j) \/ StartUnverified(j)
    PROVE  Lifecycle!Next
<1>1. TypeInv /\ TypeOK /\ RowInv
    BY DEF LifecycleInv, TypeInv
<1>2. /\ status[j] = "none" /\ contended' = contended
      /\ CreateTask(j) \/ UNCHANGED <<pc, jobOf>>
      /\ \E s \in {"queued", "pending_verify"} : status' = [status EXCEPT ![j] = s]
      /\ token' = token \/ token' = [token EXCEPT ![j] = "pending"]
    BY <1>1 DEF StartExempt, StartUnverified, memory, slots
<1>3. \A i \in Jobs \ {j} : status'[i] = status[i] /\ token'[i] = token[i]
    BY <1>1, <1>2 DEF TypeOK
<1>4. (\A i \in Jobs \ {j} : Untouched(i)) /\ Active' = Active
    BY <1>1, <1>2, <1>3, CreationTouchesOne
<1>5. j \notin Spent
    BY <1>2, Mapping DEF IsSpent
<1>6. Spent' \in {Spent, Spent \union {j}}
    BY <1>1, <1>4, <1>5, OneJobMoves
<1>7. Lifecycle!Request(j)
    BY <1>2, <1>4, <1>6 DEF Lifecycle!Request, Active
<1> QED
    BY <1>7 DEF Lifecycle!Next

LEMMA VerifyRefines ==
    ASSUME LifecycleInv, TypeInv', NEW p \in Probes, VerifySucceeds(p)
    PROVE  Lifecycle!Next
<1>1. TypeInv /\ TypeOK /\ ProbeInv /\ TaskRows
    BY DEF LifecycleInv, TypeInv
<1> PICK j \in Jobs : j = probe[p]
    BY <1>1, SuccessMarks
<1>2. /\ j # NoJob
      /\ contended' \in {contended, contended \union {j}}
      /\ \A i \in Jobs \ {j} : token'[i] = token[i] /\ status'[i] = status[i]
      /\ CreateTask(j) \/ UNCHANGED <<pc, jobOf>>
      /\ status' \in {status, [status EXCEPT ![j] = "queued"]}
    BY <1>1, SuccessMarks DEF VerifySucceeds, slots
<1>3. j \notin contended =>
        /\ Unused(j) /\ \A t \in Tasks : ~WorksFor(t, j)
        /\ status[j] \in {"queued", "pending_verify", "error"}
    BY <1>1, <1>2 DEF ProbeInv, TaskRows
<1>4. j \notin Spent
    BY <1>3, Mapping DEF IsSpent, Unused
<1>5. j \notin contended => \A t \in Tasks : <<t, j>> \notin Active
    BY <1>3, Mapping DEF WorksFor, ExecutingPc
<1>6. (\A i \in Jobs \ {j} : Untouched(i)) /\ Active' = Active
    BY <1>1, <1>2, CreationTouchesOne
<1>7. CASE j \in contended'
  <2>1. ~(j \in Spent)'
      BY <1>7, Mapping DEF IsSpent
  <2>2. Spent' = Spent
      BY <1>1, <1>4, <1>6, <2>1, OneJobMoves
  <2>3. contended' = contended \union {j}
      BY <1>2, <1>7
  <2>4. Lifecycle!VerifyContended(j)
      BY <1>2, <1>3, <1>4, <1>5, <1>6, <2>2, <2>3
      DEF Lifecycle!VerifyContended, Lifecycle!Idle, Active
  <2> QED
      BY <2>4 DEF Lifecycle!Next
<1>8. CASE j \notin contended'
  <2>1. contended' = contended /\ j \notin contended
      BY <1>2, <1>8
  <2>2. Spent' \in {Spent, Spent \union {j}}
      BY <1>1, <1>4, <1>6, OneJobMoves
  <2>3. Lifecycle!Verify(j)
      BY <1>2, <1>3, <1>4, <1>5, <1>6, <2>1, <2>2 DEF Lifecycle!Verify, Lifecycle!Idle, Active
  <2> QED
      BY <2>3 DEF Lifecycle!Next
<1> QED
    BY <1>7, <1>8

LEMMA RefusalRefines ==
    ASSUME LifecycleInv, TypeInv', NEW p \in Probes, VerifyFails(p) \/ VerifyAborts(p)
    PROVE  UNCHANGED <<status, Spent, contended, Active>>
<1>1. TypeInv /\ ProbeInv
    BY DEF LifecycleInv
<1> PICK j \in Jobs : j = probe[p]
    BY <1>1, RefusalKeeps
<1>2. /\ j # NoJob /\ UNCHANGED <<contended, status, pc, jobOf>>
      /\ token'[j] \in {token[j], "failed"}
      /\ \A i \in Jobs \ {j} : token'[i] = token[i]
    BY <1>1, RefusalKeeps
<1>3. \A i \in Jobs \ {j} : Untouched(i)
    BY <1>2 DEF Untouched, WorksFor
<1>4. j \in contended \/ (Unused(j) /\ Unused(j)')
  <2>1. j \in contended \/ Unused(j)
      BY <1>1, <1>2 DEF ProbeInv
  <2> QED
      BY <1>2, <2>1 DEF Unused
<1>5. j \notin Spent /\ ~(j \in Spent)'
    BY <1>2, <1>4, Mapping DEF IsSpent, Unused
<1>6. Spent' = Spent
    BY <1>1, <1>3, <1>5, OneJobMoves
<1>7. Active' = Active
    BY <1>2 DEF Active, Executing
<1> QED
    BY <1>2, <1>6, <1>7

LEMMA DeathRefines ==
    ASSUME LifecycleInv, TypeInv', Crash \/ Shutdown \/ Startup
    PROVE  Lifecycle!Next
<1>1. TypeInv /\ TypeOK /\ TaskRows
    BY DEF LifecycleInv, TypeInv
<1>2. /\ \A t \in Tasks : pc'[t] = "idle"
      /\ token' = token /\ contended' = contended
      /\ status' = status \/ CloseUnfinished
    BY <1>1 DEF Crash, Shutdown, LoseMemory, Startup, IdleTasks, TaskRows, slots
<1>3. Active' = {}
    BY <1>2 DEF Active, Executing
<1>4. status' \in {status, Lifecycle!Closed}
    BY <1>2 DEF CloseUnfinished, Unfinished, Lifecycle!Closed
<1>5. Spent \subseteq Spent'
  <2> SUFFICES ASSUME NEW j \in Jobs, IsSpent(j) PROVE IsSpent(j)'
      BY Mapping
  <2>1. status'[j] # "none"
      BY <1>2 DEF IsSpent, CloseUnfinished
  <2> QED
      BY <1>2, <2>1 DEF IsSpent, WorksFor
<1>6. \E lost \in SUBSET (Jobs \ contended) : Spent' = Spent \union lost
  <2>1. Spent' \in SUBSET (Jobs \ contended)
      BY <1>2 DEF Spent
  <2>2. Spent' = Spent \union Spent'
      BY <1>5
  <2> QED
      BY <2>1, <2>2
<1>7. Lifecycle!Die
    BY <1>2, <1>3, <1>4, <1>6 DEF Lifecycle!Die, Active
<1> QED
    BY <1>7 DEF Lifecycle!Next

\* What a step that touches none of the mapped variables shows.
LEMMA InvisibleSteps ==
    ASSUME \/ UNCHANGED vars
           \/ \E g \in Targets : CacheExpires(g)
           \/ \E j \in Jobs : Cancel(j)
           \/ \E p \in Probes, j \in Jobs : VerifyBegin(p, j)
    PROVE  UNCHANGED <<status, Spent, contended, Active>>
<1>1. UNCHANGED <<status, token, contended, pc, jobOf>>
    BY DEF CacheExpires, Cancel, VerifyBegin, vars, database, memory, slots
<1> QED
    BY <1>1 DEF Spent, TasksOf, Active, Executing

LEMMA EveryStepRefines ==
    ASSUME LifecycleInv, TypeInv', [Next]_vars
    PROVE  Lifecycle!Next \/ UNCHANGED <<status, Spent, contended, Active>>
BY RequestRefines, VerifyRefines, RefusalRefines, TaskRefines, DeathRefines, InvisibleSteps
DEF Next, ProbeStep

\* The scheduler keeps the promises of JobLifecycle, the view from outside: at
\* most MaxConcurrentScans scans run, a job runs once unless two requests
\* verified it at the same time, and a row says 'done' or 'cancelled' only when
\* an execution of the job ended.
THEOREM SchedulerImplementsLifecycle == Spec => ImplementsLifecycle
<1>1. Init => Lifecycle!Init
  <2> SUFFICES ASSUME Init PROVE Lifecycle!Init
      OBVIOUS
  <2>1. status = [j \in Jobs |-> "none"] /\ contended = {}
      BY DEF Init
  <2>2. Spent = {}
      BY <2>1 DEF Spent
  <2>3. Executing = {}
      BY DEF Init, IdleTasks, Executing
  <2> QED
      BY <2>1, <2>2, <2>3 DEF Lifecycle!Init
<1>2. LifecycleInv /\ TypeInv' /\ [Next]_vars => [Lifecycle!Next]_(Lifecycle!vars)
    BY EveryStepRefines DEF Lifecycle!vars, Active
<1>3. LifecycleInv => TypeInv
    BY DEF LifecycleInv
<1> QED
    BY <1>1, <1>2, <1>3, LifecycleInductive, PTL DEF Spec, ImplementsLifecycle, Lifecycle!Spec

\* Seen from outside: unless two requests verified a job at the same time, a
\* scan that has begun or was given up does not begin again, and 'done' and
\* 'cancelled' are written when an execution ends.
BegunIsSpent == \A t \in Tasks, j \in Jobs : <<t, j>> \in Active => j \in Spent \union contended
RunsOnce(j) ==
    j \in Spent => /\ j \in Spent'
                   /\ \A t \in Tasks : <<t, j>> \in Active' => <<t, j>> \in Active
EndsReally(j) ==
    status'[j] # status[j] /\ status'[j] \in {"done", "cancelled"} =>
        \E t \in Tasks : <<t, j>> \in Active /\ <<t, j>> \notin Active'

LEMMA LifecycleKeepsOnce ==
    ASSUME Lifecycle!Next \/ UNCHANGED <<status, Spent, contended, Active>>,
           status \in [Jobs -> Lifecycle!Status], BegunIsSpent, Spent \intersect contended = {}
    PROVE  BegunIsSpent' /\ \A j \in Jobs : RunsOnce(j) /\ EndsReally(j)
<1> DEFINE Goal == BegunIsSpent' /\ \A j \in Jobs : RunsOnce(j) /\ EndsReally(j)
<1> USE DEF RunsOnce, EndsReally, BegunIsSpent
<1>1. CASE UNCHANGED <<status, Spent, contended, Active>>
    BY <1>1
<1>2. ASSUME NEW k \in Jobs, Lifecycle!Request(k) PROVE Goal
    BY <1>2 DEF Lifecycle!Request, Active
<1>3. ASSUME NEW k \in Jobs, Lifecycle!Verify(k) \/ Lifecycle!VerifyContended(k) PROVE Goal
    BY <1>3 DEF Lifecycle!Verify, Lifecycle!VerifyContended, Active
<1>4. ASSUME NEW s \in Tasks, NEW k \in Jobs, Lifecycle!Begin(s, k) PROVE Goal
    BY <1>4 DEF Lifecycle!Begin, Active
<1>5. ASSUME NEW k \in Jobs, Lifecycle!Drop(k) PROVE Goal
    BY <1>5 DEF Lifecycle!Drop, Active
<1>6. ASSUME NEW s \in Tasks, NEW k \in Jobs, Lifecycle!End(s, k) PROVE Goal
    BY <1>6 DEF Lifecycle!End, Active
<1>7. ASSUME Lifecycle!Die PROVE Goal
    BY <1>7 DEF Lifecycle!Die, Lifecycle!Closed, Active
<1> QED
    BY <1>1, <1>2, <1>3, <1>4, <1>5, <1>6, <1>7 DEF Lifecycle!Next

\* What the refinement is for: whatever fails and restarts, no scan of a job is
\* started a second time unless two requests verified the job at the same time,
\* and nothing but the end of one of its scans makes a row say 'done' or
\* 'cancelled'.
THEOREM NoScanRunsAgain ==
    Spec => /\ []BegunIsSpent
            /\ [][\A j \in Jobs : RunsOnce(j) /\ EndsReally(j)]_<<status, Spent, contended, Active>>
<1>1. Init => BegunIsSpent
  <2>1. Init => Executing = {}
      BY DEF Init, IdleTasks, Executing
  <2> QED
      BY <2>1 DEF Active, BegunIsSpent
<1>2. ASSUME LifecycleInv, BegunIsSpent, TypeInv', [Next]_vars
      PROVE  BegunIsSpent' /\ \A j \in Jobs : RunsOnce(j) /\ EndsReally(j)
  <2>1. status \in [Jobs -> Lifecycle!Status]
      BY <1>2 DEF LifecycleInv, TypeInv, TypeOK, JobStatus, Terminal, Lifecycle!Status, Lifecycle!Ended
  <2>2. Spent \intersect contended = {}
      BY DEF Spent
  <2>3. Lifecycle!Next \/ UNCHANGED <<status, Spent, contended, Active>>
      BY <1>2, EveryStepRefines
  <2> QED
      BY <1>2, <2>1, <2>2, <2>3, LifecycleKeepsOnce
<1>3. LifecycleInv => TypeInv
    BY DEF LifecycleInv
<1>4. LifecycleInv /\ BegunIsSpent /\ TypeInv' /\ [Next]_vars =>
          /\ BegunIsSpent'
          /\ [\A j \in Jobs : RunsOnce(j) /\ EndsReally(j)]_<<status, Spent, contended, Active>>
    BY <1>2
<1> QED
    BY <1>1, <1>3, <1>4, LifecycleInductive, PTL DEF Spec

-----------------------------------------------------------------------------
(* The lists of jobs and the semaphore's queue *)

Queue(s) == s.woken \o s.waiters

LEMMA QueueType ==
    ASSUME NEW s \in Semaphore PROVE Queue(s) \in Seq(Tasks)
BY ConcatProperties DEF Semaphore, Queue

\* Waking a waiter does not change its place.
LEMMA WakeUpKeepsQueue ==
    ASSUME NEW s \in Semaphore PROVE Queue(WakeUpNext(s)) = Queue(s)
<1> DEFINE w == s.woken
           u == s.waiters
<1>1. w \in Seq(Tasks) /\ u \in Seq(Tasks)
    BY DEF Semaphore
<1>2. CASE u = <<>>
    BY <1>2 DEF WakeUpNext
<1>3. CASE u # <<>>
  <2>1. Queue(WakeUpNext(s)) = Append(w, Head(u)) \o Tail(u)
      BY <1>3 DEF WakeUpNext, Sem, Queue
  <2> HIDE DEF w, u
  <2>2. Head(u) \in Tasks /\ Tail(u) \in Seq(Tasks)
      BY <1>1, <1>3, HeadTailProperties
  <2>3. Append(w, Head(u)) = w \o <<Head(u)>> /\ <<Head(u)>> \in Seq(Tasks)
      BY <1>1, <2>2, AppendIsConcat
  <2>4. (w \o <<Head(u)>>) \o Tail(u) = w \o (<<Head(u)>> \o Tail(u))
      BY <1>1, <2>2, <2>3, ConcatAssociative
  <2>5. <<Head(u)>> \o Tail(u) = u
      BY <1>1, <1>3, <2>2
  <2>6. Queue(s) = w \o u
      BY DEF Queue, w, u
  <2> QED
      BY <2>1, <2>3, <2>4, <2>5, <2>6
<1> QED
    BY <1>2, <1>3

LEMMA ReleaseKeepsQueue ==
    ASSUME NEW s \in Semaphore PROVE Queue(Release(s)) = Queue(s)
<1>1. Sem(s.value + 1, s.woken, s.waiters) \in Semaphore
    BY DEF Sem, Semaphore
<1>2. Queue(Sem(s.value + 1, s.woken, s.waiters)) = Queue(s)
    BY DEF Sem, Queue
<1> QED
    BY <1>1, <1>2, WakeUpKeepsQueue DEF Release

\* The first woken waiter is the first of the queue and leaves it.
LEMMA ResumedQueue ==
    ASSUME NEW s \in Semaphore, s.woken # <<>>
    PROVE  /\ Queue(s) # <<>> /\ Queue(s)[1] = Head(s.woken)
           /\ Queue(Resumed(s)) \in Seq(Tasks)
           /\ Len(Queue(Resumed(s))) = Len(Queue(s)) - 1
           /\ \A i \in 1..(Len(Queue(s)) - 1) : Queue(Resumed(s))[i] = Queue(s)[i + 1]
<1> DEFINE w == s.woken
           u == s.waiters
           r == Sem(s.value, Tail(w), u)
<1>1. w \in Seq(Tasks) /\ u \in Seq(Tasks) /\ Len(w) \in Nat /\ Len(u) \in Nat /\ Len(w) >= 1
    BY LenProperties, EmptySeq DEF Semaphore
<1>2. /\ Tail(w) \in Seq(Tasks) /\ Len(Tail(w)) = Len(w) - 1
      /\ \A i \in 1..(Len(w) - 1) : Tail(w)[i] = w[i + 1]
      /\ Head(w) = w[1]
    BY <1>1, HeadTailProperties
<1>3. r \in Semaphore /\ Queue(r) = Tail(w) \o u
    BY <1>1, <1>2 DEF Semaphore, Sem, Queue
<1>4. Queue(Resumed(s)) = Tail(w) \o u
    BY <1>3, WakeUpKeepsQueue DEF Resumed
<1>5. Queue(s) = w \o u
    BY DEF Queue
<1> HIDE DEF w, u
<1>6. /\ w \o u \in Seq(Tasks) /\ Len(w \o u) = Len(w) + Len(u)
      /\ \A i \in 1..(Len(w) + Len(u)) : (w \o u)[i] = IF i <= Len(w) THEN w[i] ELSE u[i - Len(w)]
    BY <1>1, ConcatProperties
<1>7. /\ Tail(w) \o u \in Seq(Tasks) /\ Len(Tail(w) \o u) = Len(w) + Len(u) - 1
      /\ \A i \in 1..(Len(w) + Len(u) - 1) :
            (Tail(w) \o u)[i] = IF i <= Len(w) - 1 THEN Tail(w)[i] ELSE u[i - (Len(w) - 1)]
  <2>1. /\ Tail(w) \o u \in Seq(Tasks) /\ Len(Tail(w) \o u) = Len(Tail(w)) + Len(u)
        /\ \A i \in 1..(Len(Tail(w)) + Len(u)) :
              (Tail(w) \o u)[i] = IF i <= Len(Tail(w)) THEN Tail(w)[i] ELSE u[i - Len(Tail(w))]
      BY <1>1, <1>2, ConcatProperties
  <2>2. Len(Tail(w)) + Len(u) = Len(w) + Len(u) - 1
      BY <1>1, <1>2
  <2> QED
      BY <1>2, <2>1, <2>2
<1>8. ASSUME NEW i \in 1..(Len(w) + Len(u) - 1)
      PROVE  (Tail(w) \o u)[i] = (w \o u)[i + 1]
  <2>1. CASE i <= Len(w) - 1
    <3>1. i \in 1..(Len(w) - 1) /\ i + 1 \in 1..(Len(w) + Len(u)) /\ i + 1 <= Len(w)
        BY <1>1, <2>1
    <3> QED
        BY <1>2, <1>6, <1>7, <2>1, <3>1
  <2>2. CASE ~(i <= Len(w) - 1)
    <3>1. i + 1 \in 1..(Len(w) + Len(u)) /\ ~(i + 1 <= Len(w)) /\ i - (Len(w) - 1) = i + 1 - Len(w)
        BY <1>1, <2>2
    <3> QED
        BY <1>6, <1>7, <2>2, <3>1
  <2> QED
      BY <2>1, <2>2
<1>9. w \o u # <<>> /\ (w \o u)[1] = w[1]
  <2>1. 1 \in 1..(Len(w) + Len(u)) /\ 1 <= Len(w) /\ Len(w) + Len(u) # 0
      BY <1>1
  <2> QED
      BY <1>6, <2>1, EmptySeq
<1>10. Len(w \o u) - 1 = Len(w) + Len(u) - 1
    BY <1>6
<1> QED
    BY <1>2, <1>4, <1>5, <1>6, <1>7, <1>8, <1>9, <1>10 DEF w

\* The queue holds waiting tasks, each once, and _pending_jobs their jobs.
QueueInv ==
    LET q == Queue(sem) IN
    /\ \A i \in 1..Len(q) : pc[q[i]] = "waiting"
    /\ \A i, k \in 1..Len(q) : q[i] = q[k] => i = k
    /\ Len(pendingJobs) = Len(q)
    /\ \A i \in 1..Len(q) : pendingJobs[i] = jobOf[q[i]]

\* A step that leaves the queue, its tasks and the list as they are.
LEMMA QueueStays ==
    ASSUME TypeInv, QueueInv, Queue(sem') = Queue(sem), UNCHANGED pendingJobs,
           \A t \in Tasks : pc[t] = "waiting" => pc'[t] = "waiting" /\ jobOf'[t] = jobOf[t]
    PROVE  QueueInv'
<1> DEFINE q == Queue(sem)
<1>1. q \in Seq(Tasks)
    BY QueueType DEF TypeInv, TypeOK, Semaphore
<1>2. \A i \in 1..Len(q) : q[i] \in Tasks
    BY <1>1, ElementOfSeq
<1>3. Queue(sem)' = Queue(sem)
    BY DEF Queue
<1> QED
    BY <1>2, <1>3 DEF QueueInv

\* _pending_jobs.append and the end of the deque.
LEMMA WaitingQueues ==
    ASSUME TypeInv, QueueInv, NEW t \in Tasks, TaskWaits(t)
    PROVE  QueueInv'
<1> DEFINE q == Queue(sem)
           p == pendingJobs
<1>1. /\ sem \in Semaphore /\ q \in Seq(Tasks) /\ p \in Seq(Jobs)
      /\ pc \in [Tasks -> TaskPc] /\ pc[t] = "created" /\ jobOf[t] \in Jobs
    BY QueueType DEF TypeInv, TypeOK, TasksHaveJobs, Semaphore, TaskWaits
<1>2. /\ Len(q) \in Nat /\ Len(p) = Len(q)
      /\ \A i \in 1..Len(q) : q[i] \in Tasks /\ pc[q[i]] = "waiting" /\ p[i] = jobOf[q[i]]
      /\ \A i, k \in 1..Len(q) : q[i] = q[k] => i = k
    BY <1>1, LenProperties, ElementOfSeq DEF QueueInv
<1>3. Queue(sem)' = Append(q, t)
  <2>1. sem.woken \in Seq(Tasks) /\ sem.waiters \in Seq(Tasks) /\ <<t>> \in Seq(Tasks)
      BY <1>1 DEF Semaphore
  <2>2. sem'.woken = sem.woken /\ sem'.waiters = Append(sem.waiters, t)
      BY DEF TaskWaits, Enqueue, Sem
  <2>3. Append(sem.waiters, t) = sem.waiters \o <<t>> /\ Append(q, t) = q \o <<t>>
      BY <1>1, <2>1, AppendIsConcat
  <2>4. \A a, b, c \in Seq(Tasks) : (a \o b) \o c = a \o (b \o c)
      BY ConcatAssociative
  <2>5. (sem.woken \o sem.waiters) \o <<t>> = sem.woken \o (sem.waiters \o <<t>>)
      BY <2>1, <2>4
  <2> QED
      BY <2>2, <2>3, <2>5 DEF Queue
<1>4. pendingJobs' = Append(p, jobOf[t]) /\ jobOf' = jobOf
    BY DEF TaskWaits
<1>5. pc'[t] = "waiting" /\ \A u \in Tasks \ {t} : pc'[u] = pc[u]
    BY <1>1 DEF TaskWaits
<1> HIDE DEF q, p
<1>6. /\ Len(Append(q, t)) = Len(q) + 1 /\ Append(q, t)[Len(q) + 1] = t
      /\ \A i \in 1..Len(q) : Append(q, t)[i] = q[i]
    BY <1>1, AppendProperties
<1>7. /\ Len(Append(p, jobOf[t])) = Len(q) + 1 /\ Append(p, jobOf[t])[Len(q) + 1] = jobOf[t]
      /\ \A i \in 1..Len(q) : Append(p, jobOf[t])[i] = p[i]
    BY <1>1, <1>2, AppendProperties
<1>8. \A i \in 1..(Len(q) + 1) : i \in 1..Len(q) \/ i = Len(q) + 1
    BY <1>2
<1>9. \A i \in 1..(Len(q) + 1) :
        pc'[Append(q, t)[i]] = "waiting" /\ Append(p, jobOf[t])[i] = jobOf[Append(q, t)[i]]
    BY <1>1, <1>2, <1>5, <1>6, <1>7, <1>8
<1>10. \A i \in 1..Len(q) : q[i] # t
    BY <1>1, <1>2
<1>11. \A i, k \in 1..(Len(q) + 1) : Append(q, t)[i] = Append(q, t)[k] => i = k
    BY <1>2, <1>6, <1>8, <1>10
<1> QED
    BY <1>3, <1>4, <1>6, <1>7, <1>9, <1>11 DEF QueueInv

\* A task that finds nobody ahead is listed and taken off the list at once.
LEMMA EnteringQueues ==
    ASSUME TypeInv, QueueInv, NEW t \in Tasks, TaskEnters(t)
    PROVE  QueueInv'
<1> DEFINE j == jobOf[t]
           p == Append(pendingJobs, j)
<1>1. sem \in Semaphore /\ pendingJobs \in Seq(Jobs) /\ jobOf[t] \in Jobs
    BY DEF TypeInv, TypeOK, TasksHaveJobs, Semaphore, TaskEnters
<1>2. ~Locked(sem) /\ sem.woken = <<>> /\ sem.waiters = <<>>
    BY DEF TaskEnters, Locked
<1>3. Queue(sem) = <<>> /\ Queue(TakeFree(sem)) = <<>> /\ TakeFree(sem) \in Semaphore
  <2>1. <<>> \o <<>> = <<>>
      OBVIOUS
  <2> QED
      BY <1>1, <1>2, <2>1, TakeFreeLemma DEF Queue, TakeFree, Sem
<1>4. Queue(sem)' = <<>>
  <2>1. sem' = TakeFree(sem) \/ sem' = Release(TakeFree(sem))
      BY DEF TaskEnters, EnterSlot
  <2>2. Queue(sem') = <<>>
      BY <1>3, <2>1, ReleaseKeepsQueue
  <2> QED
      BY <2>2 DEF Queue
<1>5. Len(pendingJobs') = 0
  <2>1. Len(pendingJobs) = 0
      BY <1>3, EmptySeq DEF QueueInv
  <2>2. p \in Seq(Jobs) /\ Len(p) = 1 /\ p[1] = jobOf[t] /\ p # <<>>
    <3>1. p \in Seq(Jobs) /\ Len(p) = Len(pendingJobs) + 1 /\ p[Len(pendingJobs) + 1] = jobOf[t]
        BY <1>1, AppendProperties
    <3>2. Len(p) = 1 /\ p[1] = jobOf[t]
        BY <2>1, <3>1
    <3> HIDE DEF p
    <3>3. p # <<>>
      <4>1. Len(<<>>) = 0 /\ Len(p) # 0
          BY <3>2
      <4> QED
          BY <4>1
    <3> QED
        BY <3>1, <3>2, <3>3
  <2>3. pendingJobs' = RemoveFirst(p, jobOf[t])
      BY DEF TaskEnters, EnterSlot
  <2> HIDE DEF p, j
  <2> QED
      BY <2>2, <2>3, RemoveFirstHead
<1> QED
    BY <1>4, <1>5, EmptySeq DEF QueueInv

\* The first of the queue takes its job from the head of the list.
LEMMA ResumingQueues ==
    ASSUME TypeInv, QueueInv, NEW t \in Tasks, TaskResumes(t)
    PROVE  QueueInv'
<1> DEFINE q == Queue(sem)
           r == Queue(Resumed(sem))
           p == pendingJobs
<1>1. /\ sem \in Semaphore /\ q \in Seq(Tasks) /\ p \in Seq(Jobs)
      /\ pc \in [Tasks -> TaskPc] /\ jobOf \in [Tasks -> Jobs \union {NoJob}]
      /\ sem.woken # <<>> /\ t = Head(sem.woken)
    BY QueueType DEF TypeInv, TypeOK, Semaphore, TaskResumes
<1>2. /\ q # <<>> /\ q[1] = t
      /\ r \in Seq(Tasks) /\ Len(r) = Len(q) - 1
      /\ \A i \in 1..(Len(q) - 1) : r[i] = q[i + 1]
    BY <1>1, ResumedQueue
<1>3. Queue(sem)' = r
  <2>1. Resumed(sem) \in Semaphore
      BY <1>1, ResumedLemma
  <2>2. sem' = Resumed(sem) \/ sem' = Release(Resumed(sem))
      BY DEF TaskResumes, EnterSlot
  <2>3. Queue(sem') = r
      BY <2>1, <2>2, ReleaseKeepsQueue
  <2> QED
      BY <2>3 DEF Queue
<1>4. /\ Len(p) = Len(q) /\ Len(q) \in Nat /\ Len(q) >= 1
      /\ \A i \in 1..Len(q) : q[i] \in Tasks /\ pc[q[i]] = "waiting" /\ p[i] = jobOf[q[i]]
      /\ \A i, k \in 1..Len(q) : q[i] = q[k] => i = k
    BY <1>1, <1>2, LenProperties, EmptySeq, ElementOfSeq DEF QueueInv
<1>5. pendingJobs' = RemoveFirst(p, jobOf[t])
    BY DEF TaskResumes, EnterSlot
<1>6. \A u \in Tasks \ {t} : pc'[u] = pc[u] /\ jobOf'[u] = jobOf[u]
    BY <1>1 DEF TaskResumes, EnterSlot
<1> HIDE DEF q, r, p
<1>7. p # <<>> /\ p[1] = jobOf[t]
    BY <1>1, <1>2, <1>4, EmptySeq
<1>8. /\ Len(pendingJobs') = Len(q) - 1
      /\ \A i \in 1..(Len(q) - 1) : pendingJobs'[i] = p[i + 1]
  <2>1. /\ Len(RemoveFirst(p, jobOf[t])) = Len(p) - 1
        /\ \A i \in 1..(Len(p) - 1) : RemoveFirst(p, jobOf[t])[i] = p[i + 1]
      BY <1>1, <1>7, RemoveFirstHead
  <2> QED
      BY <1>4, <1>5, <2>1
<1>9. ASSUME NEW i \in 1..(Len(q) - 1)
      PROVE  r[i] \in Tasks \ {t} /\ pc'[r[i]] = "waiting" /\ pendingJobs'[i] = jobOf'[r[i]]
  <2>1. i + 1 \in 1..Len(q) /\ 1 \in 1..Len(q) /\ i + 1 # 1
      BY <1>4
  <2>2. r[i] = q[i + 1] /\ q[i + 1] # t /\ q[i + 1] \in Tasks
      BY <1>2, <1>4, <2>1
  <2> QED
      BY <1>4, <1>6, <1>8, <2>1, <2>2
<1>10. ASSUME NEW i \in 1..(Len(q) - 1), NEW k \in 1..(Len(q) - 1), r[i] = r[k]
       PROVE  i = k
  <2>1. i + 1 \in 1..Len(q) /\ k + 1 \in 1..Len(q) /\ (i + 1 = k + 1 => i = k)
      BY <1>4
  <2>2. q[i + 1] = q[k + 1]
      BY <1>2, <1>10
  <2>3. i + 1 = k + 1
      BY <1>4, <2>1, <2>2
  <2> QED
      BY <2>1, <2>3
<1> QED
    BY <1>2, <1>3, <1>8, <1>9, <1>10 DEF QueueInv

LEMMA NextQueue == TypeInv /\ QueueInv /\ [Next]_vars => QueueInv'
<1> SUFFICES ASSUME TypeInv, QueueInv, [Next]_vars
             PROVE  QueueInv'
    OBVIOUS
<1>1. TypeOK /\ sem \in Semaphore
    BY DEF TypeInv, TypeOK, Semaphore
<1>2. ASSUME UNCHANGED <<sem, pc, jobOf, pendingJobs>>
      PROVE  QueueInv'
    BY <1>2, QueueStays
<1>3. ASSUME NEW j, CreateTask(j)
      PROVE  QueueInv'
  <2>1. PICK n \in Tasks :
          /\ pc[n] = "idle"
          /\ pc' = [pc EXCEPT ![n] = "created"]
          /\ jobOf' = [jobOf EXCEPT ![n] = j]
      BY <1>3 DEF CreateTask
  <2>2. \A t \in Tasks : pc[t] = "waiting" => pc'[t] = "waiting" /\ jobOf'[t] = jobOf[t]
      BY <1>1, <2>1 DEF TypeOK
  <2> QED
      BY <1>3, <2>2, QueueStays DEF CreateTask
<1>4. ASSUME NEW t \in Tasks, TaskFinishes(t)
      PROVE  QueueInv'
  <2>1. \A u \in Tasks : pc[u] = "waiting" => pc'[u] = "waiting" /\ jobOf'[u] = jobOf[u]
      BY <1>1, <1>4 DEF TaskFinishes, TypeOK
  <2>2. Queue(sem') = Queue(sem) /\ UNCHANGED pendingJobs
      BY <1>1, <1>4, ReleaseKeepsQueue DEF TaskFinishes
  <2> QED
      BY <2>1, <2>2, QueueStays
<1>5. ASSUME NEW t \in Tasks, WorkerStep(t)
      PROVE  QueueInv'
  <2>1. \A u \in Tasks : pc[u] = "waiting" => pc'[u] = "waiting" /\ jobOf'[u] = jobOf[u]
      BY <1>1, <1>5
      DEF WorkerStep, WorkerCancelled, WorkerPassesLastCheck, WorkerCompletes, WorkerRaises,
          WorkerReturns, TypeOK
  <2>2. UNCHANGED <<sem, pendingJobs>>
      BY <1>5
      DEF WorkerStep, WorkerCancelled, WorkerPassesLastCheck, WorkerCompletes, WorkerRaises,
          WorkerReturns
  <2> QED
      BY <2>1, <2>2, QueueStays
<1>6. ASSUME LoseMemory
      PROVE  QueueInv'
  <2>1. pendingJobs' = <<>> /\ sem'.woken = <<>> /\ sem'.waiters = <<>>
      BY <1>6 DEF LoseMemory, NewSemaphore, Sem
  <2>2. Queue(sem)' = <<>> /\ Len(<<>>) = 0
      BY <2>1 DEF Queue
  <2> QED
      BY <2>1, <2>2 DEF QueueInv
<1>7. ASSUME NEW j \in Jobs, StartExempt(j) \/ StartUnverified(j) \/ Cancel(j)
      PROVE  QueueInv'
    BY <1>7, <1>2, <1>3 DEF StartExempt, StartUnverified, Cancel, memory, slots
<1>8. ASSUME NEW p \in Probes, ProbeStep(p) \/ \E j \in Jobs : VerifyBegin(p, j)
      PROVE  QueueInv'
    BY <1>8, <1>2, <1>3
    DEF ProbeStep, VerifyBegin, VerifySucceeds, VerifyFails, VerifyAborts, slots
<1>9. ASSUME Startup \/ (\E g \in Targets : CacheExpires(g)) \/ UNCHANGED vars
      PROVE  QueueInv'
    BY <1>9, <1>2 DEF Startup, CacheExpires, vars, memory, slots
<1> HIDE DEF QueueInv
<1> QED
    BY <1>4, <1>5, <1>6, <1>7, <1>8, <1>9, WaitingQueues, EnteringQueues, ResumingQueues
    DEF Next, TaskStep, Crash, Shutdown

\* _active_jobs holds a job as often as tasks execute it.
ActiveInv ==
    \A j \in Jobs : Cardinality(Positions(activeJobs, j)) = Cardinality(Executing \intersect TasksOf(j))

ExecutingFor(j) == Executing \intersect TasksOf(j)

LEMMA ExecutingForFinite ==
    ASSUME NEW j
    PROVE  IsFiniteSet(ExecutingFor(j)) /\ Cardinality(ExecutingFor(j)) \in Nat
BY ExecutingFinite, FS_Subset, FS_CardinalityType DEF ExecutingFor

\* A step that neither begins nor ends an execution.
LEMMA ActiveStays ==
    ASSUME ActiveInv, UNCHANGED activeJobs,
           \A t \in Tasks : /\ pc[t] \in ExecutingPc <=> pc'[t] \in ExecutingPc
                            /\ pc[t] \in ExecutingPc => jobOf'[t] = jobOf[t]
    PROVE  ActiveInv'
<1>1. ASSUME NEW j \in Jobs
      PROVE  (Executing \intersect TasksOf(j))' = Executing \intersect TasksOf(j)
    BY DEF Executing, TasksOf, ExecutingPc
<1> QED
    BY <1>1 DEF ActiveInv, Positions

\* The job of a task that enters a slot is appended.
LEMMA ActiveBegins ==
    ASSUME TypeInv, ActiveInv, NEW t \in Tasks, pc[t] \notin {"idle"} \union ExecutingPc,
           pc' = [pc EXCEPT ![t] = "scanning"], UNCHANGED jobOf,
           activeJobs' = Append(activeJobs, jobOf[t])
    PROVE  ActiveInv'
<1>1. /\ activeJobs \in Seq(Jobs) /\ Len(activeJobs) \in Nat /\ jobOf[t] \in Jobs
      /\ pc \in [Tasks -> TaskPc]
    BY LenProperties DEF TypeInv, TypeOK, TasksHaveJobs
<1>2. /\ Len(activeJobs') = Len(activeJobs) + 1 /\ activeJobs'[Len(activeJobs) + 1] = jobOf[t]
      /\ \A i \in 1..Len(activeJobs) : activeJobs'[i] = activeJobs[i]
    BY <1>1, AppendProperties
<1>3. pc'[t] = "scanning" /\ \A u \in Tasks \ {t} : pc'[u] = pc[u]
    BY <1>1
<1>4. ASSUME NEW j \in Jobs
      PROVE  Cardinality(Positions(activeJobs', j)) = Cardinality(ExecutingFor(j)')
  <2>1. /\ IsFiniteSet(Positions(activeJobs, j)) /\ IsFiniteSet(ExecutingFor(j))
        /\ Cardinality(Positions(activeJobs, j)) = Cardinality(ExecutingFor(j))
      BY <1>1, PositionsFinite, ExecutingForFinite DEF ActiveInv, ExecutingFor
  <2>2. CASE j = jobOf[t]
    <3>1. /\ Positions(activeJobs', j) = Positions(activeJobs, j) \union {Len(activeJobs) + 1}
          /\ Len(activeJobs) + 1 \notin Positions(activeJobs, j)
        BY <1>1, <1>2, <2>2 DEF Positions
    <3>2. ExecutingFor(j)' = ExecutingFor(j) \union {t} /\ t \notin ExecutingFor(j)
        BY <1>3, <2>2 DEF ExecutingFor, Executing, TasksOf, ExecutingPc
    <3>3. Cardinality(Positions(activeJobs', j)) = Cardinality(Positions(activeJobs, j)) + 1
        BY <2>1, <3>1, FS_AddElement
    <3>4. Cardinality(ExecutingFor(j)') = Cardinality(ExecutingFor(j)) + 1
        BY <2>1, <3>2, FS_AddElement
    <3> QED
        BY <2>1, <3>3, <3>4
  <2>3. CASE j # jobOf[t]
    <3>1. Positions(activeJobs', j) = Positions(activeJobs, j)
        BY <1>1, <1>2, <2>3 DEF Positions
    <3>2. ExecutingFor(j)' = ExecutingFor(j)
        BY <1>3, <2>3 DEF ExecutingFor, Executing, TasksOf
    <3> QED
        BY <2>1, <3>1, <3>2
  <2> QED
      BY <2>2, <2>3
<1> QED
    BY <1>4 DEF ActiveInv, ExecutingFor

\* One entry of the job of a task that ends is removed.
LEMMA ActiveEnds ==
    ASSUME TypeInv, ActiveInv, NEW t \in Tasks, TaskFinishes(t)
    PROVE  ActiveInv'
<1>1. /\ activeJobs \in Seq(Jobs) /\ jobOf[t] \in Jobs
      /\ pc \in [Tasks -> TaskPc] /\ jobOf \in [Tasks -> Jobs \union {NoJob}]
      /\ pc[t] = "returned"
    BY DEF TypeInv, TypeOK, TasksHaveJobs, TaskFinishes
<1>2. activeJobs' = RemoveFirst(activeJobs, jobOf[t])
    BY DEF TaskFinishes
<1>3. /\ pc'[t] = "idle"
      /\ \A u \in Tasks \ {t} : pc'[u] = pc[u] /\ jobOf'[u] = jobOf[u]
    BY <1>1 DEF TaskFinishes
<1>4. t \in ExecutingFor(jobOf[t])
    BY <1>1 DEF ExecutingFor, Executing, TasksOf
<1>5. Positions(activeJobs, jobOf[t]) # {}
  <2>1. Cardinality(ExecutingFor(jobOf[t])) # 0
      BY <1>4, ExecutingForFinite, FS_EmptySet
  <2>2. Cardinality(Positions(activeJobs, jobOf[t])) # 0
      BY <1>1, <2>1 DEF ActiveInv, ExecutingFor
  <2> QED
      BY <2>2, FS_EmptySet
<1>6. ASSUME NEW j \in Jobs
      PROVE  Cardinality(Positions(activeJobs', j)) = Cardinality(ExecutingFor(j)')
  <2>1. /\ IsFiniteSet(ExecutingFor(j))
        /\ Cardinality(Positions(activeJobs, j)) = Cardinality(ExecutingFor(j))
      BY <1>1, ExecutingForFinite DEF ActiveInv, ExecutingFor
  <2>2. Cardinality(Positions(activeJobs', j)) =
          IF j = jobOf[t] THEN Cardinality(Positions(activeJobs, j)) - 1
          ELSE Cardinality(Positions(activeJobs, j))
      BY <1>1, <1>2, <1>5, RemoveFirstCounts
  <2>3. CASE j = jobOf[t]
    <3>1. ExecutingFor(j)' = ExecutingFor(j) \ {t}
        BY <1>3, <2>3 DEF ExecutingFor, Executing, TasksOf
    <3>2. Cardinality(ExecutingFor(j) \ {t}) = Cardinality(ExecutingFor(j)) - 1
        BY <1>4, <2>1, <2>3, FS_RemoveElement
    <3> QED
        BY <2>1, <2>2, <2>3, <3>1, <3>2
  <2>4. CASE j # jobOf[t]
    <3>1. ExecutingFor(j)' = ExecutingFor(j)
        BY <1>3, <2>4 DEF ExecutingFor, Executing, TasksOf
    <3> QED
        BY <2>1, <2>2, <2>4, <3>1
  <2> QED
      BY <2>3, <2>4
<1> QED
    BY <1>6 DEF ActiveInv, ExecutingFor

LEMMA NextActive == TypeInv /\ ActiveInv /\ [Next]_vars => ActiveInv'
<1> SUFFICES ASSUME TypeInv, ActiveInv, [Next]_vars
             PROVE  ActiveInv'
    OBVIOUS
<1>1. TypeOK /\ TypeInv
    BY DEF TypeInv
<1>2. ASSUME UNCHANGED <<pc, jobOf, activeJobs>>
      PROVE  ActiveInv'
    BY <1>2, ActiveStays
<1>3. ASSUME NEW j, CreateTask(j)
      PROVE  ActiveInv'
  <2>1. PICK n \in Tasks :
          /\ pc[n] = "idle"
          /\ pc' = [pc EXCEPT ![n] = "created"]
          /\ jobOf' = [jobOf EXCEPT ![n] = j]
      BY <1>3 DEF CreateTask
  <2>2. \A t \in Tasks : /\ pc[t] \in ExecutingPc <=> pc'[t] \in ExecutingPc
                         /\ pc[t] \in ExecutingPc => jobOf'[t] = jobOf[t]
      BY <1>1, <2>1 DEF TypeOK, ExecutingPc
  <2> QED
      BY <1>3, <2>2, ActiveStays DEF CreateTask
<1>4. ASSUME NEW t \in Tasks, TaskWaits(t) \/ WorkerStep(t)
      PROVE  ActiveInv'
  <2>1. /\ UNCHANGED <<jobOf, activeJobs>>
        /\ \A u \in Tasks : pc[u] \in ExecutingPc <=> pc'[u] \in ExecutingPc
      BY <1>1, <1>4
      DEF TaskWaits, WorkerStep, WorkerCancelled, WorkerPassesLastCheck, WorkerCompletes,
          WorkerRaises, WorkerReturns, TypeOK, ExecutingPc
  <2> QED
      BY <2>1, ActiveStays
<1>5. ASSUME NEW t \in Tasks, TaskEnters(t) \/ TaskResumes(t)
      PROVE  ActiveInv'
  <2>1. pc[t] \in {"created", "waiting"}
      BY <1>5 DEF TaskEnters, TaskResumes
  <2>2. CASE /\ pc' = [pc EXCEPT ![t] = "scanning"] /\ UNCHANGED jobOf
             /\ activeJobs' = Append(activeJobs, jobOf[t])
    <3>1. pc[t] \notin {"idle"} \union ExecutingPc
        BY <2>1 DEF ExecutingPc
    <3> QED
        BY <1>1, <2>2, <3>1, ActiveBegins
  <2>3. CASE /\ pc' = [pc EXCEPT ![t] = "idle"] /\ jobOf' = [jobOf EXCEPT ![t] = NoJob]
             /\ UNCHANGED activeJobs
    <3>1. \A u \in Tasks : /\ pc[u] \in ExecutingPc <=> pc'[u] \in ExecutingPc
                           /\ pc[u] \in ExecutingPc => jobOf'[u] = jobOf[u]
        BY <1>1, <2>1, <2>3 DEF TypeOK, ExecutingPc
    <3> QED
        BY <2>3, <3>1, ActiveStays
  <2> QED
      BY <1>5, <2>2, <2>3 DEF TaskEnters, TaskResumes, EnterSlot
<1>6. ASSUME LoseMemory
      PROVE  ActiveInv'
  <2>1. activeJobs' = <<>> /\ \A t \in Tasks : pc'[t] = "idle"
      BY <1>6 DEF LoseMemory, IdleTasks
  <2>2. ASSUME NEW j \in Jobs
        PROVE  Positions(activeJobs', j) = {} /\ (Executing \intersect TasksOf(j))' = {}
      BY <2>1 DEF Positions, Executing
  <2> QED
      BY <2>2 DEF ActiveInv
<1>7. ASSUME NEW j \in Jobs, StartExempt(j) \/ StartUnverified(j) \/ Cancel(j)
      PROVE  ActiveInv'
    BY <1>7, <1>2, <1>3 DEF StartExempt, StartUnverified, Cancel, memory, slots
<1>8. ASSUME NEW p \in Probes, ProbeStep(p) \/ \E j \in Jobs : VerifyBegin(p, j)
      PROVE  ActiveInv'
    BY <1>8, <1>2, <1>3
    DEF ProbeStep, VerifyBegin, VerifySucceeds, VerifyFails, VerifyAborts, slots
<1>9. ASSUME Startup \/ (\E g \in Targets : CacheExpires(g)) \/ UNCHANGED vars
      PROVE  ActiveInv'
    BY <1>9, <1>2 DEF Startup, CacheExpires, vars, memory, slots
<1> HIDE DEF ActiveInv
<1> QED
    BY <1>4, <1>5, <1>6, <1>7, <1>8, <1>9, ActiveEnds
    DEF Next, TaskStep, Crash, Shutdown

LEMMA InitLists == Init => QueueInv /\ ActiveInv
<1> SUFFICES ASSUME Init PROVE QueueInv /\ ActiveInv
    OBVIOUS
<1>1. sem.woken = <<>> /\ sem.waiters = <<>> /\ pendingJobs = <<>> /\ activeJobs = <<>>
    BY DEF Init, NewSemaphore, Sem
<1>2. Queue(sem) = <<>> /\ Len(<<>>) = 0
    BY <1>1 DEF Queue
<1>3. \A j \in Jobs : Positions(activeJobs, j) = {} /\ Executing \intersect TasksOf(j) = {}
    BY <1>1 DEF Init, IdleTasks, Positions, Executing
<1> QED
    BY <1>1, <1>2, <1>3 DEF QueueInv, ActiveInv

\* _pending_jobs is the semaphore's deque, job by job and in its order, and
\* _active_jobs counts every execution: what the dashboard says about the queue
\* is right whatever fails and however many tasks a job has.
THEOREM ListsAlwaysMatchTasks == Spec => []ListsMatchTasks
<1>1. ASSUME TypeInv, QueueInv, ActiveInv
      PROVE  ListsMatchTasks
  <2>1. pendingJobs = [i \in 1..Len(Queue(sem)) |-> jobOf[Queue(sem)[i]]]
    <3>1. pendingJobs \in Seq(Jobs)
        BY <1>1 DEF TypeInv, TypeOK
    <3>2. pendingJobs = [i \in 1..Len(pendingJobs) |-> pendingJobs[i]]
        BY <3>1
    <3> QED
        BY <1>1, <3>2 DEF QueueInv
  <2>2. \A j \in Jobs : Positions(activeJobs, j) = {i \in DOMAIN activeJobs : activeJobs[i] = j}
    <3>1. activeJobs \in Seq(Jobs)
        BY <1>1 DEF TypeInv, TypeOK
    <3>2. DOMAIN activeJobs = 1..Len(activeJobs)
        BY <3>1, LenProperties
    <3> QED
        BY <3>2 DEF Positions
  <2> QED
      BY <1>1, <2>1, <2>2 DEF ListsMatchTasks, ActiveInv, Queue
<1>2. TypeInv /\ QueueInv /\ ActiveInv /\ [Next]_vars => TypeInv' /\ QueueInv' /\ ActiveInv'
    BY NextTypeInv, NextQueue, NextActive
<1> QED
    BY InitTypeInv, InitLists, <1>1, <1>2, PTL DEF Spec
=============================================================================
