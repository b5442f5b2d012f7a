-------------------------------- MODULE Rcu ----------------------------------
(* QEMU's read-copy-update (util/rcu.c, include/qemu/rcu.h). Readers       *)
(* publish the grace period in which their critical section began;         *)
(* updaters unlink a node and hand it to call_rcu1; the call_rcu thread    *)
(* waits for the readers that may still use it and runs its callback. The  *)
(* only locks are those of the registry of readers: critical sections and  *)
(* the queue of callbacks rest on the order of atomic accesses.            *)
EXTENDS QemuEvent, FiniteSets

CONSTANTS
    Reader,      \* threads that read
    Updater,     \* threads that call call_rcu1
    CallRcu,     \* the call_rcu thread
    Nodes,       \* bound: protected objects, numbered in the order in which they are unlinked
    MaxDepth,    \* bound: nesting of critical sections
    Long64,      \* for each build: unsigned long has 64 bits
    UIntRange    \* 2^32: rcu_read_lock keeps the counter in an unsigned int

Node == 1..Nodes
NULL == 0
dummy == Nodes + 1
Queueable == Node \cup {dummy}
Thread == Reader \cup Updater \cup {CallRcu}

ASSUME RcuAssumption ==
    /\ Nodes \in Nat /\ MaxDepth \in Nat \ {0} /\ Long64 \subseteq BOOLEAN
    /\ UIntRange \in Nat /\ UIntRange >= 4
    /\ CallRcu \notin Reader \cup Updater
    /\ Event = {"rcu_gp_event", "rcu_call_ready_event"}

VARIABLES
    pc,            \* of each thread
    long64,        \* the build
    rcu_gp_ctr,
    ctr, waiting, depth,  \* rcu_reader_data
    loaded,        \* the value of rcu_gp_ctr that rcu_read_lock has read
    ref,           \* the node that a reader uses in its critical section
    registry, qsreaders,  \* without the call_rcu thread, which is registered and quiescent
    todo,          \* readers that the loop of wait_for_readers has yet to visit
    phase,         \* calls of wait_for_readers still to come
    object,        \* of each node: "published", "unlinked" or "freed"
    head, tail, next,     \* the queue; tail is the node that holds the last link
    rcu_call_count,
    n,             \* callbacks that the call_rcu thread has yet to run
    retry,         \* where it goes on when try_dequeue returns NULL
    mine, old_tail        \* per updater: its node; what enqueue links to it (also for CallRcu)

readerVars == <<ctr, waiting, depth, loaded, ref>>
gpVars == <<rcu_gp_ctr, registry, qsreaders, todo, phase>>
queueVars == <<head, tail, next, old_tail>>
callVars == <<rcu_call_count, n, retry, mine, object>>
vars == <<eventVars, pc, long64, readerVars, gpVars, queueVars, callVars>>

Init ==
    /\ qemu_event_init({"rcu_gp_event"})
    /\ pc = [t \in Thread |->
                IF t \in Reader THEN "outside" ELSE IF t = CallRcu THEN "fetch" ELSE "idle"]
    /\ long64 \in Long64
    /\ rcu_gp_ctr = 1
    /\ ctr = [r \in Reader |-> 0] /\ waiting = [r \in Reader |-> FALSE]
    /\ depth = [r \in Reader |-> 0] /\ loaded = [r \in Reader |-> 0]
    /\ ref = [r \in Reader |-> NULL]
    /\ registry = {} /\ qsreaders = {} /\ todo = {} /\ phase = 0
    /\ object = [x \in Node |-> "published"]
    /\ head = dummy /\ tail = dummy /\ next = [x \in Queueable |-> NULL]
    /\ rcu_call_count = 0 /\ n = 0 /\ retry = "dequeueReset"
    /\ mine = [u \in Updater |-> NULL]
    /\ old_tail = [u \in Updater \cup {CallRcu} |-> NULL]

Goto(t, where) == pc' = [pc EXCEPT ![t] = where]
-----------------------------------------------------------------------------
(* Registration takes rcu_registry_lock, which the call_rcu thread holds   *)
(* in synchronize_rcu except while it waits.                               *)
RegistryUnlocked == pc[CallRcu] \notin {"gpReset", "setWaiting", "walk"}

rcu_register_thread(r) ==
    /\ pc[r] = "outside" /\ RegistryUnlocked
    /\ r \notin registry \cup qsreaders
    /\ registry' = registry \cup {r}
    /\ UNCHANGED <<eventVars, pc, long64, readerVars, rcu_gp_ctr, qsreaders, todo, phase,
                   queueVars, callVars>>

(* The thread ends, and its thread-local data with it.                     *)
rcu_unregister_thread(r) ==
    /\ pc[r] = "outside" /\ RegistryUnlocked
    /\ r \in registry \cup qsreaders
    /\ registry' = registry \ {r} /\ qsreaders' = qsreaders \ {r}
    /\ waiting' = [waiting EXCEPT ![r] = FALSE]
    /\ UNCHANGED <<eventVars, pc, long64, ctr, depth, loaded, ref, rcu_gp_ctr, todo, phase,
                   queueVars, callVars>>
-----------------------------------------------------------------------------
(* rcu_read_lock: the grace period is read, cut to an unsigned int, and    *)
(* published by a second step. Only the outermost lock does anything.      *)
rcu_read_lock(r) ==
    /\ \/ /\ pc[r] = "outside" /\ r \in registry \cup qsreaders
          /\ depth' = [depth EXCEPT ![r] = 1]
          /\ loaded' = [loaded EXCEPT ![r] = rcu_gp_ctr % UIntRange]
          /\ Goto(r, "publish")
          /\ UNCHANGED ctr
       \/ /\ pc[r] = "publish"
          /\ ctr' = [ctr EXCEPT ![r] = loaded[r]]
          /\ loaded' = [loaded EXCEPT ![r] = 0]
          /\ Goto(r, "inside")
          /\ UNCHANGED depth
       \/ /\ pc[r] = "inside" /\ depth[r] < MaxDepth
          /\ depth' = [depth EXCEPT ![r] = @ + 1]
          /\ UNCHANGED <<pc, ctr, loaded>>
    /\ UNCHANGED <<eventVars, long64, waiting, ref, gpVars, queueVars, callVars>>

(* In its critical section a reader finds any node that is not unlinked.   *)
Dereference(r) ==
    /\ pc[r] = "inside" /\ ref[r] = NULL
    /\ \E x \in Node : object[x] = "published" /\ ref' = [ref EXCEPT ![r] = x]
    /\ UNCHANGED <<eventVars, pc, long64, ctr, waiting, depth, loaded, gpVars, queueVars,
                   callVars>>

(* rcu_read_unlock.                                                        *)
UnlockInner(r) ==
    /\ pc[r] = "inside" /\ depth[r] > 1
    /\ depth' = [depth EXCEPT ![r] = @ - 1]
    /\ UNCHANGED <<eventVars, pc, long64, ctr, waiting, loaded, ref, gpVars, queueVars, callVars>>

UnlockOuter(r) ==
    /\ pc[r] = "inside" /\ depth[r] = 1
    /\ depth' = [depth EXCEPT ![r] = 0]
    /\ ctr' = [ctr EXCEPT ![r] = 0]
    /\ ref' = [ref EXCEPT ![r] = NULL]
    /\ Goto(r, "testWaiting")
    /\ UNCHANGED <<eventVars, long64, waiting, loaded, gpVars, queueVars, callVars>>

(* The rest of the outermost unlock: a thread that is waited for sets the  *)
(* event.                                                                  *)
unlockNotify(r) ==
    /\ \/ /\ pc[r] = "testWaiting"
          /\ Goto(r, IF waiting[r] THEN "clearWaiting" ELSE "outside")
          /\ UNCHANGED <<eventVars, waiting>>
       \/ /\ pc[r] = "clearWaiting"
          /\ waiting' = [waiting EXCEPT ![r] = FALSE]
          /\ Goto(r, "setEvent")
          /\ UNCHANGED eventVars
       \/ /\ pc[r] = "setEvent"
          /\ eventExchange("rcu_gp_event")
          /\ Goto(r, IF MustWake("rcu_gp_event") THEN "wake" ELSE "outside")
          /\ UNCHANGED <<sleepers, waiting>>
       \/ /\ pc[r] = "wake"
          /\ futex_wake("rcu_gp_event")
          /\ Goto(r, "outside")
          /\ UNCHANGED <<value, waiting>>
    /\ UNCHANGED <<long64, ctr, depth, loaded, ref, gpVars, queueVars, callVars>>
-----------------------------------------------------------------------------
(* An updater unlinks a node and calls call_rcu1.                          *)
unlinkNode(u) ==
    /\ pc[u] = "idle"
    /\ \E x \in Node :
        /\ object[x] = "published" /\ \A y \in Node : y < x => object[y] # "published"
        /\ object' = [object EXCEPT ![x] = "unlinked"]
        /\ mine' = [mine EXCEPT ![u] = x]
    /\ Goto(u, "enqueue")
    /\ UNCHANGED <<eventVars, long64, readerVars, gpVars, queueVars, rcu_call_count, n, retry>>

(* enqueue of node x by thread t, in its two steps.                        *)
enqueueTail(t, x) ==
    /\ next' = [next EXCEPT ![x] = NULL]
    /\ old_tail' = [old_tail EXCEPT ![t] = tail]
    /\ tail' = x

enqueueLink(t, x) ==
    /\ next' = [next EXCEPT ![old_tail[t]] = x]
    /\ old_tail' = [old_tail EXCEPT ![t] = NULL]
    /\ UNCHANGED tail

(* call_rcu1: enqueue makes the node the tail, then links it to what was   *)
(* the tail; only then is it counted and the call_rcu thread woken.        *)
call_rcu1(u) ==
    /\ \/ /\ pc[u] = "enqueue"
          /\ enqueueTail(u, mine[u])
          /\ Goto(u, "link")
          /\ UNCHANGED <<eventVars, mine, rcu_call_count>>
       \/ /\ pc[u] = "link"
          /\ enqueueLink(u, mine[u])
          /\ mine' = [mine EXCEPT ![u] = NULL]
          /\ Goto(u, "count")
          /\ UNCHANGED <<eventVars, rcu_call_count>>
       \/ /\ pc[u] = "count"
          /\ rcu_call_count' = rcu_call_count + 1
          /\ Goto(u, "setEvent")
          /\ UNCHANGED <<eventVars, mine, tail, next, old_tail>>
       \/ /\ pc[u] = "setEvent"
          /\ eventExchange("rcu_call_ready_event")
          /\ Goto(u, IF MustWake("rcu_call_ready_event") THEN "wake" ELSE "idle")
          /\ UNCHANGED <<sleepers, mine, rcu_call_count, tail, next, old_tail>>
       \/ /\ pc[u] = "wake"
          /\ futex_wake("rcu_call_ready_event")
          /\ Goto(u, "idle")
          /\ UNCHANGED <<value, mine, rcu_call_count, tail, next, old_tail>>
    /\ UNCHANGED <<long64, readerVars, gpVars, head, n, retry, object>>
-----------------------------------------------------------------------------
(* The call_rcu thread.                                                    *)

(* Mutant: the count is not read again after the event has been reset.     *)
fetchCount_Once ==
    /\ \/ /\ pc[CallRcu] = "fetch"
          /\ n' = rcu_call_count
          /\ \E where \in {"fetch", "take"} :
                Goto(CallRcu, IF rcu_call_count = 0 THEN "resetCall" ELSE where)
          /\ UNCHANGED value
       \/ /\ pc[CallRcu] = "resetCall"
          /\ qemu_event_reset("rcu_call_ready_event")
          /\ Goto(CallRcu, "waitCall")
          /\ UNCHANGED n
    /\ UNCHANGED <<sleepers, long64, readerVars, gpVars, queueVars, rcu_call_count, retry, mine,
                   object>>

(* The callbacks are counted. The thread sleeps a few times to let some    *)
(* more pile up; when there are none it resets the event, counts again and *)
(* waits.                                                                  *)
fetchCount ==
    /\ \/ /\ pc[CallRcu] = "fetch"
          /\ n' = rcu_call_count
          /\ \E where \in {"fetch", "take"} :
                Goto(CallRcu, IF rcu_call_count = 0 THEN "resetCall" ELSE where)
          /\ UNCHANGED value
       \/ /\ pc[CallRcu] = "resetCall"
          /\ qemu_event_reset("rcu_call_ready_event")
          /\ Goto(CallRcu, "recount")
          /\ UNCHANGED n
       \/ /\ pc[CallRcu] = "recount"
          /\ Goto(CallRcu, IF rcu_call_count = 0 THEN "waitCall" ELSE "fetch")
          /\ UNCHANGED <<n, value>>
    /\ UNCHANGED <<sleepers, long64, readerVars, gpVars, queueVars, rcu_call_count, retry, mine,
                   object>>

(* The three calls of qemu_event_wait, with where the thread goes on (in   *)
(* wait_for_readers, once it has the registry lock again).                 *)
Waits ==
    {[at |-> "waitCall", futex |-> "futexCall", asleep |-> "asleepCall",
      event |-> "rcu_call_ready_event", then |-> "fetch"],
     [at |-> "waitReaders", futex |-> "futexReaders", asleep |-> "asleepReaders",
      event |-> "rcu_gp_event", then |-> "gpReset"],
     [at |-> "waitLink", futex |-> "futexLink", asleep |-> "asleepLink",
      event |-> "rcu_call_ready_event", then |-> "dequeue"]}

qemu_event_wait(w) ==
    /\ \/ /\ pc[CallRcu] = w.at
          /\ eventAnnounce(w.event)
          /\ Goto(CallRcu, IF value[w.event] = "EV_SET" THEN w.then ELSE w.futex)
          /\ UNCHANGED sleepers
       \/ /\ pc[CallRcu] = w.futex
          /\ futex_wait(w.event, CallRcu)
          /\ Goto(CallRcu, w.asleep)
          /\ UNCHANGED value
       \/ /\ pc[CallRcu] = w.asleep /\ CallRcu \notin sleepers[w.event]
          /\ Goto(CallRcu, w.then)
          /\ UNCHANGED eventVars
    /\ UNCHANGED <<long64, readerVars, gpVars, queueVars, callVars>>

(* Mutant: the callbacks of the batch stay counted.                        *)
takeCount_Kept ==
    /\ pc[CallRcu] = "take"
    /\ Goto(CallRcu, "synchronize")
    /\ UNCHANGED <<eventVars, long64, readerVars, gpVars, queueVars, callVars>>

(* The batch is fixed before the grace period starts.                      *)
takeCount ==
    /\ pc[CallRcu] = "take"
    /\ rcu_call_count' = rcu_call_count - n
    /\ Goto(CallRcu, "synchronize")
    /\ UNCHANGED <<eventVars, long64, readerVars, gpVars, queueVars, n, retry, mine, object>>

(* rcu_gp_ctr ^ RCU_GP_CTR.                                                *)
OtherParity == IF rcu_gp_ctr = 1 THEN 3 ELSE 1

(* Mutant: one phase is enough for a parity, too.                          *)
synchronize_rcu_OnePhase ==
    /\ pc[CallRcu] = "synchronize"
    /\ rcu_gp_ctr' = IF long64 THEN rcu_gp_ctr + 2 ELSE OtherParity
    /\ phase' = 0
    /\ Goto(CallRcu, "gpReset")
    /\ UNCHANGED <<eventVars, long64, readerVars, registry, qsreaders, todo, queueVars, callVars>>

(* synchronize_rcu up to its first call of wait_for_readers: a counter     *)
(* that never comes back to a value that a slow reader has read, or a      *)
(* parity that is changed twice. (The call_rcu thread itself keeps the     *)
(* registry from being empty.)                                             *)
synchronize_rcu ==
    /\ pc[CallRcu] = "synchronize"
    /\ rcu_gp_ctr' = IF long64 THEN rcu_gp_ctr + 2 ELSE OtherParity
    /\ phase' = IF long64 THEN 0 ELSE 1
    /\ Goto(CallRcu, "gpReset")
    /\ UNCHANGED <<eventVars, long64, readerVars, registry, qsreaders, todo, queueVars, callVars>>

rcu_gp_ongoing(r) == ctr[r] # 0 /\ ctr[r] # rcu_gp_ctr

(* wait_for_readers: ask all registered readers for a wakeup, then set     *)
(* those aside that are quiescent, and wait if some are not. (A quiescent  *)
(* reader that is set aside owes no wakeup, so that clearing its flag is   *)
(* no step of its own.)                                                    *)
askReaders ==
    /\ \/ /\ pc[CallRcu] = "gpReset"
          /\ qemu_event_reset("rcu_gp_event")
          /\ todo' = registry
          /\ Goto(CallRcu, IF registry = {} THEN "walk" ELSE "setWaiting")
          /\ UNCHANGED waiting
       \/ /\ pc[CallRcu] = "setWaiting"
          /\ \E r \in todo :
                /\ waiting' = [waiting EXCEPT ![r] = TRUE]
                /\ todo' = IF todo = {r} THEN registry ELSE todo \ {r}
                /\ Goto(CallRcu, IF todo = {r} THEN "walk" ELSE "setWaiting")
          /\ UNCHANGED value
    /\ UNCHANGED <<sleepers, long64, ctr, depth, loaded, ref, rcu_gp_ctr, registry, qsreaders,
                   phase, queueVars, callVars>>

walkReaders ==
    /\ pc[CallRcu] = "walk"
    /\ \E r \in todo :
        /\ todo' = todo \ {r}
        /\ IF rcu_gp_ongoing(r) THEN UNCHANGED <<registry, qsreaders, waiting>>
           ELSE /\ registry' = registry \ {r}
                /\ qsreaders' = qsreaders \cup {r}
                /\ waiting' = [waiting EXCEPT ![r] = FALSE]
    /\ UNCHANGED <<eventVars, pc, long64, ctr, depth, loaded, ref, rcu_gp_ctr, phase, queueVars,
                   callVars>>

(* After the walk: wait, without the lock; or put the readers back and     *)
(* start the second phase, or end synchronize_rcu.                         *)
walkEnd ==
    /\ pc[CallRcu] = "walk" /\ todo = {}
    /\ IF registry # {}
       THEN Goto(CallRcu, "waitReaders") /\ UNCHANGED <<rcu_gp_ctr, registry, qsreaders, phase>>
       ELSE /\ registry' = qsreaders /\ qsreaders' = {}
            /\ phase' = 0
            /\ rcu_gp_ctr' = IF phase = 1 THEN OtherParity ELSE rcu_gp_ctr
            /\ Goto(CallRcu, IF phase = 1 THEN "gpReset" ELSE "dequeue")
    /\ UNCHANGED <<eventVars, long64, readerVars, todo, queueVars, callVars>>
-----------------------------------------------------------------------------
(* The callbacks of the batch. try_dequeue takes the first node, putting   *)
(* the dummy back at the end when it meets it. It returns NULL if the next *)
(* link is not there yet: the thread tries again after a reset of the      *)
(* event, waits, and tries again.                                          *)
try_dequeue ==
    /\ pc[CallRcu] = "dequeue" /\ n > 0
    /\ IF head = dummy /\ tail = dummy
       THEN Goto(CallRcu, "abort") /\ UNCHANGED <<queueVars, n, retry, object>>
       ELSE IF next[head] = NULL
       THEN /\ Goto(CallRcu, retry)
            /\ retry' = "dequeueReset"
            /\ UNCHANGED <<queueVars, n, object>>
       ELSE IF head = dummy
       THEN /\ head' = next[dummy]
            /\ enqueueTail(CallRcu, dummy)
            /\ Goto(CallRcu, "linkDummy")
            /\ UNCHANGED <<n, retry, object>>
       ELSE /\ head' = next[head]
            /\ next' = [next EXCEPT ![head] = NULL]
            /\ object' = [object EXCEPT ![head] = "freed"]
            /\ n' = n - 1
            /\ retry' = "dequeueReset"
            /\ UNCHANGED <<pc, tail, old_tail>>
    /\ UNCHANGED <<eventVars, long64, readerVars, gpVars, rcu_call_count, mine>>

dequeueStep ==
    /\ \/ /\ pc[CallRcu] = "linkDummy"
          /\ enqueueLink(CallRcu, dummy)
          /\ Goto(CallRcu, "dequeue")
          /\ UNCHANGED <<value, retry>>
       \/ /\ pc[CallRcu] = "dequeueReset"
          /\ qemu_event_reset("rcu_call_ready_event")
          /\ retry' = "waitLink"
          /\ Goto(CallRcu, "dequeue")
          /\ UNCHANGED <<next, tail, old_tail>>
       \/ /\ pc[CallRcu] = "dequeue" /\ n = 0
          /\ Goto(CallRcu, "fetch")
          /\ UNCHANGED <<value, retry, next, tail, old_tail>>
    /\ UNCHANGED <<sleepers, long64, readerVars, gpVars, head, rcu_call_count, n, mine, object>>

call_rcu_thread ==
    \/ fetchCount \/ takeCount \/ synchronize_rcu \/ askReaders \/ walkReaders \/ walkEnd
    \/ try_dequeue \/ dequeueStep
    \/ \E w \in Waits : qemu_event_wait(w)
-----------------------------------------------------------------------------
ReaderStep(r) ==
    \/ rcu_register_thread(r) \/ rcu_unregister_thread(r)
    \/ rcu_read_lock(r) \/ Dereference(r) \/ UnlockInner(r)

Next ==
    \/ call_rcu_thread
    \/ \E r \in Reader : ReaderStep(r) \/ UnlockOuter(r) \/ unlockNotify(r)
    \/ \E u \in Updater : unlinkNode(u) \/ call_rcu1(u)

Spec == Init /\ [][Next]_vars
-----------------------------------------------------------------------------
TypeOK ==
    /\ EventTypeOK({CallRcu})
    /\ rcu_gp_ctr \in {2 * i + 1 : i \in 0..Nodes} /\ (long64 \/ rcu_gp_ctr \in {1, 3})
    /\ registry \subseteq Reader /\ qsreaders \subseteq Reader /\ registry \cap qsreaders = {}
    /\ todo \subseteq registry
    /\ object \in [Node -> {"published", "unlinked", "freed"}]
    /\ next \in [Queueable -> Queueable \cup {NULL}]
    /\ n \in 0..Nodes /\ rcu_call_count \in 0..Nodes

(* When the callback of a node runs, and from then on, nobody uses the     *)
(* node: no reader whose critical section found it before it was unlinked  *)
(* (however slowly it published its grace period, registered and           *)
(* unregistered around it), and no enqueue whose last link is in it.       *)
FreedIsUnused ==
    \A x \in Node : object[x] = "freed" =>
        /\ \A r \in Reader : ref[r] # x
        /\ \A t \in DOMAIN old_tail : old_tail[t] # x
        /\ head # x /\ tail # x

(* try_dequeue never finds the queue empty and aborts: every callback of   *)
(* the batch has been enqueued, even if its link is still missing.         *)
NeverAborts == pc[CallRcu] # "abort"

(* The call_rcu thread does not sleep past its wakeup. Asleep for readers, *)
(* one of those it waits for will see its flag or is about to set the      *)
(* event; asleep for callbacks, none is counted, or an updater is about to *)
(* set the event; asleep for a link, some updater has yet to link to the   *)
(* head of the queue or to set the event.                                  *)
NoLostWakeup ==
    /\ CallRcu \in sleepers["rcu_gp_event"] =>
        \E r \in Reader :
            \/ waiting[r] /\ ((r \in registry /\ rcu_gp_ongoing(r)) \/ pc[r] = "testWaiting")
            \/ pc[r] \in {"clearWaiting", "setEvent", "wake"}
    /\ CallRcu \in sleepers["rcu_call_ready_event"] =>
        \/ pc[CallRcu] = "asleepCall" /\ rcu_call_count = 0
        \/ \E u \in Updater :
            \/ pc[u] \in {"setEvent", "wake"}
            \/ pc[CallRcu] = "asleepLink"
               /\ (pc[u] = "count" \/ (pc[u] = "link" /\ old_tail[u] = head))
=============================================================================
