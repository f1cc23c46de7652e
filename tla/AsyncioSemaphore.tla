-------------------------- MODULE AsyncioSemaphore --------------------------
(***************************************************************************)
(* asyncio.Semaphore of CPython 3.11/3.12 (the Dockerfile's python:3.12),  *)
(* as api.py uses it: acquire and release from coroutines of one event     *)
(* loop, never cancelled while they wait.  A semaphore is a record:        *)
(*   value    the permits nobody holds;                                    *)
(*   woken    the waiters whose future has been resolved and that have not *)
(*            run since: they own a permit, and while there is one the     *)
(*            semaphore counts as locked;                                  *)
(*   waiters  the waiters whose future is not resolved.                    *)
(* The deque _waiters of the library is woken \o waiters.                  *)
(***************************************************************************)
EXTENDS Naturals, Sequences

Sem(value, woken, waiters) ==
    [value |-> value, woken |-> woken, waiters |-> waiters]

NewSemaphore(n) == Sem(n, <<>>, <<>>)

\* locked(): no free permit, or somebody is ahead in the queue.
Locked(s) == s.value = 0 \/ s.woken # <<>> \/ s.waiters # <<>>

\* acquire() of a semaphore that is not locked.
TakeFree(s) == Sem(s.value - 1, s.woken, s.waiters)

\* acquire() of a locked semaphore: the caller suspends.
Enqueue(s, t) == Sem(s.value, s.woken, Append(s.waiters, t))

\* _wake_up_next(): a free permit goes to the first unresolved waiter.
WakeUpNext(s) ==
    IF s.waiters = <<>>
    THEN s
    ELSE Sem(s.value - 1, Append(s.woken, Head(s.waiters)), Tail(s.waiters))

\* release()
Release(s) == WakeUpNext(Sem(s.value + 1, s.woken, s.waiters))

\* Mutated form of Resumed: a permit freed meanwhile is not passed on.
ResumedAlone(s) == Sem(s.value, Tail(s.woken), s.waiters)

\* The rest of acquire() when the first woken waiter runs again: it leaves the
\* deque and passes on a permit that was freed while the deque was not empty.
Resumed(s) ==
    LET left == Sem(s.value, Tail(s.woken), s.waiters)
    IN  IF left.value > 0 THEN WakeUpNext(left) ELSE left
=============================================================================
