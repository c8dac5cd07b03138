------------------------------ MODULE AsyncLock ------------------------------
(***************************************************************************)
(* The asyncio.Lock that chirpd's per-alias locks and its load gate are    *)
(* made of.  A lock is a record of its owner and the FIFO queue of tasks   *)
(* that await it.  Two facts of the library matter to chirpd:              *)
(*   - acquire() takes the lock in the calling step only when the lock is  *)
(*     free AND nobody waits; otherwise the caller joins the queue;        *)
(*   - release() frees the lock and wakes the first waiter, which takes    *)
(*     the lock in a later step of its own.  In between locked() is false  *)
(*     although a task is about to own the lock.                           *)
(***************************************************************************)
EXTENDS Naturals, Sequences, SequencesExt

CONSTANT None          \* "no task", also "no model", "no timer", ...

Unlocked == [owner |-> None, queue |-> <<>>]

\* asyncio.Lock.locked()
Locked(lk) == lk.owner # None

\* acquire() by task t would not suspend it
Uncontended(lk) == lk.owner = None /\ lk.queue = <<>>

\* acquire() by task t: take the lock, or join the queue
Acquire(lk, t) ==
    IF Uncontended(lk) THEN [lk EXCEPT !.owner = t]
                       ELSE [lk EXCEPT !.queue = Append(@, t)]

\* release() by the owner
Release(lk) == [lk EXCEPT !.owner = None]

\* t was woken and may now take the lock
Woken(lk, t) == lk.owner = None /\ lk.queue # <<>> /\ Head(lk.queue) = t

\* the woken task leaves the queue; it keeps the lock or lets it go at once
Take(lk, t)  == [owner |-> t, queue |-> Tail(lk.queue)]
Pass(lk)     == [owner |-> None, queue |-> Tail(lk.queue)]

\* a cancelled waiter leaves the queue (nobody leaves if t does not wait)
Abandon(lk, t) ==
    IF \E i \in DOMAIN lk.queue : lk.queue[i] = t
    THEN LET i == CHOOSE i \in DOMAIN lk.queue : lk.queue[i] = t IN
         [lk EXCEPT !.queue = RemoveAt(@, i)]
    ELSE lk

LockType(Tasks) == [owner : Tasks \cup {None}, queue : Seq(Tasks)]
=============================================================================
