----------------------------- MODULE ThreadPool ------------------------------
(* QEMU's pool of worker threads for blocking I/O (thread-pool.c) on top   *)
(* of the event loop of AioContext. Requests are submitted and cancelled   *)
(* by a thread that holds the AioContext, performed by workers and         *)
(* completed by a bottom half of the loop. Workers are created in a chain, *)
(* leave when they have waited in vain, and are awaited when the pool is   *)
(* freed.                                                                  *)
EXTENDS AioContext, Sequences, FiniteSets

CONSTANTS
    Requests,     \* bound: requests submitted, numbered in that order
    Worker,       \* names for the worker threads alive at a time
    Vcpu,         \* the thread that submits and cancels
    max_threads

Request == 1..Requests
NONE == 0

ASSUME ThreadPoolAssumption ==
    /\ max_threads \in Nat \ {0} /\ Requests \in Nat
    /\ Bh = {"new_thread_bh", "completion_bh"}
    /\ OtherThread = Worker \cup {Vcpu} /\ Vcpu \notin Worker /\ Loop \notin OtherThread
    /\ NoThread \notin OtherThread \cup {Loop}
    /\ IsFiniteSet(Worker) /\ Cardinality(Worker) >= max_threads

VARIABLES
    state,            \* ThreadPoolElement::state, and "new", "completed"
    head,             \* requests that have not been completed, newest first
    request_list,     \* requests that no worker has taken
    sem,
    lock,             \* who holds pool->lock between two steps
    cur_threads, idle_threads, new_threads, pending_threads, stopping,
    job,              \* per thread: the request it works on
    position,         \* of the completion handler in head
    waitsFor,         \* the request for which a callback calls aio_poll
    workerStopped     \* the condition variable has been signalled

counters == <<cur_threads, idle_threads, new_threads, pending_threads>>
poolVars == <<state, head, request_list, sem, lock, counters, stopping>>
loopVars == <<position, waitsFor, workerStopped>>
vars == <<aioVars, poolVars, job, loopVars>>

Init ==
    /\ AioInit
    /\ pc = [t \in Threads |-> IF t = Loop THEN "poll" ELSE IF t = Vcpu THEN "idle" ELSE "none"]
    /\ state = [r \in Request |-> "new"]
    /\ head = <<>> /\ request_list = <<>> /\ sem = 0
    /\ lock = NoThread
    /\ cur_threads = 0 /\ idle_threads = 0 /\ new_threads = 0 /\ pending_threads = 0
    /\ stopping = FALSE
    /\ job = [t \in OtherThread |-> NONE]
    /\ position = 1 /\ waitsFor = NONE
    /\ workerStopped = FALSE

Without(s, r) == SelectSeq(s, LAMBDA x : x # r)
-----------------------------------------------------------------------------
(* Worker threads.                                                         *)

(* Mutant: a worker leaves without a signal.                               *)
Leave_Silent(w) ==
    /\ cur_threads' = cur_threads - 1
    /\ Goto(w, "none")
    /\ UNCHANGED workerStopped

(* The end of worker_thread; the signal reaches thread_pool_free if it     *)
(* waits.                                                                  *)
Leave(w) ==
    /\ cur_threads' = cur_threads - 1
    /\ Goto(w, "none")
    /\ workerStopped' = (pc[Loop] = "freeWait")

(* do_spawn_thread: the thread that starts next, if one is owed.           *)
Spawned ==
    IF new_threads = 0 THEN {} ELSE {CHOOSE w \in Worker : pc[w] = "none"}

do_spawn_thread ==
    /\ new_threads' = new_threads - Cardinality(Spawned)
    /\ pending_threads' = pending_threads + Cardinality(Spawned)

(* worker_thread up to its first wait. It starts the next worker itself.   *)
workerStart(w) ==
    /\ pc[w] = "start" /\ lock = NoThread
    /\ IF stopping
       THEN /\ Leave(w)
            /\ pending_threads' = pending_threads - 1
            /\ UNCHANGED <<idle_threads, new_threads>>
       ELSE /\ idle_threads' = idle_threads + 1
            /\ pending_threads' = pending_threads - 1 + Cardinality(Spawned)
            /\ new_threads' = new_threads - Cardinality(Spawned)
            /\ pc' = [t \in Threads |-> IF t = w THEN "sem"
                                        ELSE IF t \in Spawned THEN "start" ELSE pc[t]]
            /\ UNCHANGED <<cur_threads, workerStopped>>
    /\ UNCHANGED <<scheduled, caller, pollVars, ctxLock, state,
                   head, request_list, sem, lock, stopping, job, position, waitsFor>>

(* qemu_sem_timedwait: without the lock, so that the request list may      *)
(* change before the worker looks at it.                                   *)
semWait(w) ==
    /\ pc[w] = "sem"
    /\ sem > 0
    /\ sem' = sem - 1
    /\ Goto(w, "acquired")
    /\ UNCHANGED <<scheduled, caller, pollVars, ctxLock, state,
                   head, request_list, lock, counters, stopping, job, loopVars>>

semTimeout(w) ==
    /\ pc[w] = "sem"
    /\ sem = 0
    /\ Goto(w, "timedOut")
    /\ UNCHANGED <<scheduled, caller, pollVars, ctxLock, poolVars,
                   job, loopVars>>

(* The worker has the lock again after a wait in vain: it waits once more  *)
(* if a request has come in, and leaves otherwise.                         *)
workerTimedOut(w) ==
    /\ pc[w] = "timedOut" /\ lock = NoThread
    /\ IF request_list # <<>>
       THEN Goto(w, "sem") /\ UNCHANGED <<cur_threads, idle_threads, workerStopped>>
       ELSE Leave(w) /\ idle_threads' = idle_threads - 1
    /\ UNCHANGED <<scheduled, caller, pollVars, ctxLock, state,
                   head, request_list, sem, lock, new_threads, pending_threads, stopping, job,
                   position, waitsFor>>

(* The worker has the semaphore and the lock: it takes the first request   *)
(* without looking whether there is one.                                   *)
workerTake(w) ==
    /\ pc[w] = "acquired" /\ lock = NoThread
    /\ idle_threads' = idle_threads - 1
    /\ IF stopping
       THEN /\ Leave(w)
            /\ UNCHANGED <<state, request_list, job>>
       ELSE /\ job' = [job EXCEPT ![w] = Head(request_list)]
            /\ request_list' = Tail(request_list)
            /\ state' = [state EXCEPT ![Head(request_list)] = "THREAD_ACTIVE"]
            /\ Goto(w, "work")
            /\ UNCHANGED <<cur_threads, workerStopped>>
    /\ UNCHANGED <<scheduled, caller, pollVars, ctxLock, head,
                   sem, lock, new_threads, pending_threads, stopping, position, waitsFor>>

(* req->func returns; the loop may see THREAD_DONE before the bottom half  *)
(* is scheduled.                                                           *)
workerDone(w) ==
    /\ pc[w] = "work"
    /\ state' = [state EXCEPT ![job[w]] = "THREAD_DONE"]
    /\ job' = [job EXCEPT ![w] = NONE]
    /\ Goto(w, "schedule")
    /\ UNCHANGED <<scheduled, caller, pollVars, ctxLock, head,
                   request_list, sem, lock, counters, stopping, loopVars>>

workerSchedule(w) ==
    /\ pc[w] = "schedule" /\ lock = NoThread
    /\ lock' = w
    /\ qemu_bh_schedule(w, "completion_bh", "unlock")
    /\ UNCHANGED <<pollVars, ctxLock, state, head,
                   request_list, sem, counters, stopping, job, loopVars>>

workerUnlock(w) ==
    /\ pc[w] = "unlock"
    /\ lock' = NoThread
    /\ IF stopping
       THEN Leave(w) /\ UNCHANGED idle_threads
       ELSE /\ idle_threads' = idle_threads + 1
            /\ Goto(w, "sem")
            /\ UNCHANGED <<cur_threads, workerStopped>>
    /\ UNCHANGED <<scheduled, caller, pollVars, ctxLock, state,
                   head, request_list, sem, new_threads, pending_threads, stopping, job,
                   position, waitsFor>>

WorkerStep(w) ==
    \/ workerStart(w) \/ semWait(w) \/ workerTimedOut(w) \/ workerTake(w) \/ workerDone(w)
    \/ workerSchedule(w) \/ workerUnlock(w)
    \/ aio_notify(w) /\ UNCHANGED <<poolVars, job, loopVars>>
-----------------------------------------------------------------------------
(* The thread that submits and cancels, holding the AioContext.            *)

(* thread_pool_submit_aio up to spawn_thread, which asks the loop for a    *)
(* worker unless one is being created and will create the next.            *)
thread_pool_submit_aio(r) ==
    LET spawn == idle_threads = 0 /\ cur_threads < max_threads IN
    /\ pc[Vcpu] = "idle" /\ ctxLock = NoThread /\ lock = NoThread
    /\ state[r] = "new" /\ \A q \in Request : q < r => state[q] # "new"
    /\ ctxLock' = Vcpu /\ lock' = Vcpu
    /\ state' = [state EXCEPT ![r] = "THREAD_QUEUED"]
    /\ head' = <<r>> \o head
    /\ job' = [job EXCEPT ![Vcpu] = r]
    /\ cur_threads' = IF spawn THEN cur_threads + 1 ELSE cur_threads
    /\ new_threads' = IF spawn THEN new_threads + 1 ELSE new_threads
    /\ IF spawn /\ pending_threads = 0
       THEN qemu_bh_schedule(Vcpu, "new_thread_bh", "insert")
       ELSE Goto(Vcpu, "insert") /\ UNCHANGED <<scheduled, caller>>
    /\ UNCHANGED <<pollVars, request_list, sem,
                   idle_threads, pending_threads, stopping, loopVars>>

submitInsert ==
    /\ pc[Vcpu] = "insert"
    /\ request_list' = Append(request_list, job[Vcpu])
    /\ lock' = NoThread
    /\ Goto(Vcpu, "post")
    /\ UNCHANGED <<scheduled, caller, pollVars, ctxLock, state,
                   head, sem, counters, stopping, job, loopVars>>

submitPost ==
    /\ pc[Vcpu] = "post"
    /\ sem' = sem + 1
    /\ job' = [job EXCEPT ![Vcpu] = NONE]
    /\ ctxLock' = NoThread
    /\ Goto(Vcpu, "idle")
    /\ UNCHANGED <<scheduled, caller, pollVars, state, head,
                   request_list, lock, counters, stopping, loopVars>>

(* Mutant: the request is taken back without its unit of the semaphore.    *)
thread_pool_cancel_KeepSem(r) ==
    /\ pc[Vcpu] = "idle" /\ ctxLock = NoThread /\ lock = NoThread
    /\ state[r] = "THREAD_QUEUED"
    /\ ctxLock' = Vcpu /\ lock' = Vcpu
    /\ request_list' = Without(request_list, r)
    /\ job' = [job EXCEPT ![Vcpu] = r]
    /\ qemu_bh_schedule(Vcpu, "completion_bh", "cancelled")
    /\ UNCHANGED <<pollVars, state, head, sem, counters,
                   stopping, loopVars>>

(* thread_pool_cancel of a request that no worker has taken: only if the   *)
(* unit of the semaphore that goes with it is still there.                 *)
thread_pool_cancel(r) ==
    /\ pc[Vcpu] = "idle" /\ ctxLock = NoThread /\ lock = NoThread
    /\ state[r] = "THREAD_QUEUED" /\ sem > 0
    /\ ctxLock' = Vcpu /\ lock' = Vcpu
    /\ sem' = sem - 1
    /\ request_list' = Without(request_list, r)
    /\ job' = [job EXCEPT ![Vcpu] = r]
    /\ qemu_bh_schedule(Vcpu, "completion_bh", "cancelled")
    /\ UNCHANGED <<pollVars, state, head, counters,
                   stopping, loopVars>>

cancelEnd ==
    /\ pc[Vcpu] = "cancelled"
    /\ state' = [state EXCEPT ![job[Vcpu]] = "THREAD_DONE"]
    /\ job' = [job EXCEPT ![Vcpu] = NONE]
    /\ lock' = NoThread /\ ctxLock' = NoThread
    /\ Goto(Vcpu, "idle")
    /\ UNCHANGED <<scheduled, caller, pollVars, head,
                   request_list, sem, counters, stopping, loopVars>>

VcpuStep ==
    \/ submitInsert \/ submitPost \/ cancelEnd
    \/ aio_notify(Vcpu) /\ UNCHANGED <<poolVars, job, loopVars>>
-----------------------------------------------------------------------------
(* The event loop: aio_bh_poll and the two bottom halves, in the order of  *)
(* the list. The loop holds the AioContext.                                *)

(* spawn_thread_bh_fn.                                                     *)
spawn_thread_bh_fn ==
    /\ pc[Loop] = "dispatch"
    /\ IF scheduled["new_thread_bh"]
       THEN /\ lock = NoThread
            /\ do_spawn_thread
            /\ pc' = [t \in Threads |-> IF t = Loop THEN "dispatchCompletion"
                                        ELSE IF t \in Spawned THEN "start" ELSE pc[t]]
       ELSE /\ Goto(Loop, "dispatchCompletion")
            /\ UNCHANGED <<new_threads, pending_threads>>
    /\ scheduled' = [scheduled EXCEPT !["new_thread_bh"] = FALSE]
    /\ UNCHANGED <<caller, pollVars, ctxLock, state, head, request_list, sem, lock,
                   cur_threads, idle_threads, stopping, job, loopVars>>

aioBhPollCompletion ==
    /\ pc[Loop] = "dispatchCompletion"
    /\ Goto(Loop, IF scheduled["completion_bh"] THEN "complete" ELSE "pollEnd")
    /\ position' = 1
    /\ scheduled' = [scheduled EXCEPT !["completion_bh"] = FALSE]
    /\ UNCHANGED <<caller, pollVars, ctxLock, poolVars, job, waitsFor, workerStopped>>

(* What the callback of a completed request does: nothing that matters     *)
(* here, or (at one level) calls aio_poll until another request completes. *)
Callback(other) ==
    IF other = NONE
    THEN /\ Goto(Loop, "complete")
         /\ UNCHANGED <<waitsFor, nested>>
    ELSE /\ ~nested
         /\ waitsFor' = other /\ nested' = TRUE
         /\ Goto(Loop, "poll")

(* Mutant: the handler does not schedule itself before the callback.       *)
thread_pool_completion_bh_Once ==
    /\ pc[Loop] = "complete"
    /\ IF position > Len(head)
       THEN /\ Goto(Loop, "pollEnd")
            /\ position' = 1
            /\ UNCHANGED <<scheduled, state, head, waitsFor, nested>>
       ELSE IF state[head[position]] # "THREAD_DONE"
       THEN /\ position' = position + 1
            /\ UNCHANGED <<pc, scheduled, state, head, waitsFor, nested>>
       ELSE /\ head' = Without(head, head[position])
            /\ state' = [state EXCEPT ![head[position]] = "completed"]
            /\ position' = 1
            /\ \E other \in {NONE} \cup {head'[i] : i \in DOMAIN head'} : Callback(other)
            /\ UNCHANGED scheduled
    /\ UNCHANGED <<caller, notify_me, notified, notifier, timeout, ctxLock, request_list, sem,
                   lock, counters, stopping, job, workerStopped>>

(* thread_pool_completion_bh: one request of the list. A completed one is  *)
(* removed, the handler schedules itself in case the callback polls (there *)
(* is nobody to notify, notify_me being 0 during a dispatch), and starts   *)
(* again at the head of the list.  Every request has a callback: one that  *)
(* has none, for which the loop just goes on, is left out.                 *)
thread_pool_completion_bh ==
    /\ pc[Loop] = "complete"
    /\ IF position > Len(head)
       THEN /\ Goto(Loop, "pollEnd")
            /\ position' = 1
            /\ UNCHANGED <<scheduled, state, head, waitsFor, nested>>
       ELSE IF state[head[position]] # "THREAD_DONE"
       THEN /\ position' = position + 1
            /\ UNCHANGED <<pc, scheduled, state, head, waitsFor, nested>>
       ELSE /\ head' = Without(head, head[position])
            /\ state' = [state EXCEPT ![head[position]] = "completed"]
            /\ position' = 1
            /\ scheduled' = [scheduled EXCEPT !["completion_bh"] = TRUE]
            /\ \E other \in {NONE} \cup {head'[i] : i \in DOMAIN head'} : Callback(other)
    /\ UNCHANGED <<caller, notify_me, notified, notifier, timeout, ctxLock, request_list, sem,
                   lock, counters, stopping, job, workerStopped>>

(* aio_poll returns: to its next call, or to the callback that waits, and  *)
(* which goes on when its request is complete.                             *)
aioPollEnd ==
    /\ pc[Loop] = "pollEnd"
    /\ IF nested /\ state[waitsFor] = "completed"
       THEN nested' = FALSE /\ waitsFor' = NONE /\ Goto(Loop, "complete")
       ELSE UNCHANGED <<nested, waitsFor>> /\ Goto(Loop, "poll")
    /\ ctxLock' = IF nested THEN Loop ELSE NoThread
    /\ UNCHANGED <<scheduled, caller, notify_me, notified, notifier, timeout, poolVars, job,
                   position, workerStopped>>

(* thread_pool_free, when the AioContext is finalized: every request has   *)
(* been completed. It wakes one worker at a time and waits for its end.    *)
thread_pool_free ==
    /\ pc[Loop] = "poll" /\ ~nested /\ ctxLock = NoThread /\ lock = NoThread
    /\ \A r \in Request : state[r] = "completed"
    /\ scheduled' = [scheduled EXCEPT !["new_thread_bh"] = FALSE,
                                      !["completion_bh"] = @ /\ cur_threads > new_threads]
    /\ cur_threads' = cur_threads - new_threads
    /\ new_threads' = 0
    /\ stopping' = TRUE
    /\ IF cur_threads' > 0 THEN sem' = sem + 1 /\ Goto(Loop, "freeWait")
                           ELSE UNCHANGED sem /\ Goto(Loop, "freed")
    /\ UNCHANGED <<caller, pollVars, ctxLock, state, head, request_list, lock, idle_threads,
                   pending_threads, job, loopVars>>

freeWait ==
    /\ pc[Loop] = "freeWait" /\ workerStopped /\ lock = NoThread
    /\ workerStopped' = FALSE
    /\ scheduled' = [scheduled EXCEPT !["completion_bh"] = @ /\ cur_threads > 0]
    /\ IF cur_threads > 0 THEN sem' = sem + 1 /\ UNCHANGED pc
                          ELSE UNCHANGED sem /\ Goto(Loop, "freed")
    /\ UNCHANGED <<caller, pollVars, ctxLock, state, head, request_list, lock,
                   counters, stopping, job, position, waitsFor>>

LoopStep ==
    \/ AioPoll /\ UNCHANGED <<poolVars, job, loopVars>>
    \/ spawn_thread_bh_fn \/ aioBhPollCompletion \/ thread_pool_completion_bh \/ aioPollEnd
    \/ thread_pool_free \/ freeWait
-----------------------------------------------------------------------------
Next ==
    \/ LoopStep
    \/ VcpuStep
    \/ \E r \in Request : thread_pool_submit_aio(r) \/ thread_pool_cancel(r)
    \/ \E w \in Worker : WorkerStep(w) \/ semTimeout(w)

Spec == Init /\ [][Next]_vars

(* Threads that can go on do. Nothing makes the vCPU submit or cancel, and *)
(* no result below needs the timeout of qemu_sem_timedwait.                *)
FairSpec ==
    /\ Spec
    /\ WF_vars(LoopStep) /\ WF_vars(VcpuStep)
    /\ \A w \in Worker : WF_vars(WorkerStep(w))
-----------------------------------------------------------------------------
Waiting == {w \in Worker : pc[w] \in {"sem", "acquired", "timedOut"}}

TypeOK ==
    /\ AioTypeOK
    /\ state \in [Request -> {"new", "THREAD_QUEUED", "THREAD_ACTIVE", "THREAD_DONE", "completed"}]
    /\ sem \in Nat /\ lock \in OtherThread \cup {NoThread}
    /\ pending_threads = Cardinality({w \in Worker : pc[w] = "start"})
    /\ idle_threads = Cardinality(Waiting)
    /\ cur_threads = new_threads + Cardinality({w \in Worker : pc[w] # "none"})
    /\ new_threads \in 0..max_threads /\ cur_threads <= max_threads
    /\ job \in [OtherThread -> Request \cup {NONE}]
    /\ waitsFor \in Request \cup {NONE}

(* A worker that has the semaphore takes the head of the list without a    *)
(* test: there is a request for each such worker and for each unit of the  *)
(* semaphore, whatever has been cancelled in between.                      *)
WorkerFindsRequest ==
    ~stopping =>
        sem + Cardinality({w \in Worker : pc[w] = "acquired"}) <= Len(request_list)

(* Every request that is submitted is completed, whatever the workers that *)
(* leave, the requests that are cancelled and the callbacks that poll for  *)
(* other requests: there is always again a time when none is outstanding.  *)
RequestsComplete ==
    []<>(\A r \in Request : state[r] \in {"new", "completed"})

(* thread_pool_free returns, wherever the workers are when it begins.      *)
FreeReturns == pc[Loop] = "freeWait" ~> pc[Loop] = "freed"
=============================================================================
