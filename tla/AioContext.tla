----------------------------- MODULE AioContext ------------------------------
(* The part of QEMU's event loop by which other threads wake it            *)
(* (async.c, aio-posix.c): bottom halves, aio_notify, and aio_poll from    *)
(* its start to the dispatch. notify_me spares the system call when the    *)
(* loop is not about to block, and notified spares the one that clears the *)
(* event notifier; both are read and written without a lock.               *)
EXTENDS Naturals

CONSTANTS
    Loop,        \* the thread that runs the event loop
    OtherThread, \* threads that schedule bottom halves
    Bh,          \* bottom halves
    NoThread

Threads == OtherThread \cup {Loop}

VARIABLES
    pc,          \* where each thread is
    scheduled,   \* QEMUBH::scheduled
    caller,      \* where each thread goes on after aio_notify
    notify_me,
    notified,
    notifier,    \* the event notifier is readable
    timeout,     \* what aio_compute_timeout returned: 0 or block
    ctxLock,     \* who holds the AioContext
    nested       \* aio_poll was called from a callback, with the lock held

pollVars == <<notify_me, notified, notifier, timeout, nested>>
aioVars == <<pc, scheduled, caller, pollVars, ctxLock>>

AioInit ==
    /\ scheduled = [b \in Bh |-> FALSE]
    /\ caller = [t \in OtherThread |-> "none"]
    /\ notify_me = 0 /\ notified = FALSE /\ notifier = FALSE
    /\ timeout = "block"
    /\ ctxLock = NoThread
    /\ nested = FALSE

Goto(t, where) == pc' = [pc EXCEPT ![t] = where]
-----------------------------------------------------------------------------
(* qemu_bh_schedule by another thread, which goes on at "after": only the  *)
(* change of scheduled from 0 to 1 is followed by aio_notify.              *)
qemu_bh_schedule(t, b, after) ==
    /\ scheduled' = [scheduled EXCEPT ![b] = TRUE]
    /\ Goto(t, IF scheduled[b] THEN after ELSE "notify")
    /\ caller' = [caller EXCEPT ![t] = IF scheduled[b] THEN "none" ELSE after]

Return(t) == Goto(t, caller[t]) /\ caller' = [caller EXCEPT ![t] = "none"]

(* aio_notify, in the steps that the loop can see.                         *)
aio_notify(t) ==
    /\ \/ /\ pc[t] = "notify"
          /\ IF notify_me = 0 THEN Return(t) ELSE Goto(t, "notifierSet") /\ UNCHANGED caller
          /\ UNCHANGED <<notifier, notified>>
       \/ /\ pc[t] = "notifierSet"
          /\ notifier' = TRUE
          /\ Goto(t, "notified")
          /\ UNCHANGED <<notified, caller>>
       \/ /\ pc[t] = "notified"
          /\ notified' = TRUE
          /\ Return(t)
          /\ UNCHANGED notifier
    /\ UNCHANGED <<scheduled, notify_me, timeout, ctxLock, nested>>
-----------------------------------------------------------------------------
(* aio_poll(ctx, true) up to the dispatch.                                 *)

(* Mutant: the loop does not ask to be notified before it blocks.          *)
aioPollEnter_NotAsked ==
    /\ pc[Loop] = "poll"
    /\ nested \/ ctxLock = NoThread
    /\ ctxLock' = Loop
    /\ Goto(Loop, "computeTimeout")
    /\ UNCHANGED <<scheduled, caller, notify_me, notified, notifier, timeout, nested>>

aioPollEnter ==
    /\ pc[Loop] = "poll"
    /\ nested \/ ctxLock = NoThread
    /\ ctxLock' = Loop
    /\ notify_me' = notify_me + 2
    /\ Goto(Loop, "computeTimeout")
    /\ UNCHANGED <<scheduled, caller, notified, notifier, timeout, nested>>

(* A scheduled bottom half makes the timeout zero. Otherwise the lock is   *)
(* released while the loop blocks, unless an outer aio_poll holds it too.  *)
aio_compute_timeout ==
    /\ pc[Loop] = "computeTimeout"
    /\ timeout' = IF \E b \in Bh : scheduled[b] THEN "zero" ELSE "block"
    /\ ctxLock' = IF timeout' = "block" /\ ~nested THEN NoThread ELSE Loop
    /\ Goto(Loop, "wait")
    /\ UNCHANGED <<scheduled, caller, notify_me, notified, notifier, nested>>

(* qemu_poll_ns returns. No other descriptor and no timer wakes the loop.  *)
qemu_poll_ns ==
    /\ pc[Loop] = "wait"
    /\ timeout = "zero" \/ notifier
    /\ notify_me' = notify_me - 2
    /\ Goto(Loop, "accept")
    /\ UNCHANGED <<scheduled, caller, notified, notifier, timeout, ctxLock, nested>>

(* The lock is taken again and aio_notify_accept clears notified, then the *)
(* notifier; the dispatch follows.                                         *)
aio_notify_accept ==
    /\ \/ /\ pc[Loop] = "accept"
          /\ ctxLock \in {NoThread, Loop}
          /\ ctxLock' = Loop
          /\ notified' = FALSE
          /\ Goto(Loop, IF notified THEN "testAndClear" ELSE "dispatch")
          /\ UNCHANGED notifier
       \/ /\ pc[Loop] = "testAndClear"
          /\ notifier' = FALSE
          /\ Goto(Loop, "dispatch")
          /\ UNCHANGED <<ctxLock, notified>>
    /\ UNCHANGED <<scheduled, caller, notify_me, timeout, nested>>

AioPoll == aioPollEnter \/ aio_compute_timeout \/ qemu_poll_ns \/ aio_notify_accept
-----------------------------------------------------------------------------
AioTypeOK ==
    /\ scheduled \in [Bh -> BOOLEAN]
    /\ notify_me \in {0, 2}
    /\ notified \in BOOLEAN /\ notifier \in BOOLEAN /\ nested \in BOOLEAN
    /\ timeout \in {"zero", "block"}
    /\ ctxLock \in Threads \cup {NoThread}

(* aio_notify may skip event_notifier_set, and aio_notify_accept may clear *)
(* what it set: still, while the loop blocks with a bottom half scheduled, *)
(* the notifier is readable or a thread in aio_notify is about to make it  *)
(* so.                                                                     *)
NoLostNotify ==
    pc[Loop] = "wait" /\ timeout = "block" /\ (\E b \in Bh : scheduled[b]) =>
        notifier \/ \E t \in OtherThread : pc[t] \in {"notify", "notifierSet"}
=============================================================================
