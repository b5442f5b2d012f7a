---------------------------- MODULE GoldfishSync ----------------------------
(***************************************************************************)
(* The goldfish sync device (hw/misc/goldfish_sync.c), its command queue   *)
(* (GoldfishSyncCommandQueue, a DeviceContextRunner) and the host service  *)
(* that issues the commands (android/emulation/goldfish_sync.cpp).         *)
(*                                                                         *)
(* Host threads issue commands (timeline increments, or commands whose     *)
(* reply they wait for).  The queue hands them to the device under the VM  *)
(* lock; the device links them into a list and raises the IRQ; the guest's *)
(* interrupt handler reads them one at a time until it is told there are   *)
(* none.  Commands are numbered in the order in which they are issued, and *)
(* a list node is named by the command it holds.                           *)
(***************************************************************************)
EXTENDS DeviceContextRunner

CONSTANTS
    Guest,        \* the vCPU that runs the guest's interrupt handler
    NeedsReply,   \* commands issued by sendCommandAndGetResult
    MaxCmd,       \* bound: commands issued
    MaxReboot,    \* bound: writes of SYNC_REG_INIT
    MaxSave,      \* bound: snapshots taken
    MaxLoad       \* bound: snapshots loaded

Cmd == 1..MaxCmd
NULL == 0
HostThread == Thread \ {MainLoop, Guest}

ASSUME SyncAssumption ==
    /\ MaxCmd \in Nat /\ MaxReboot \in Nat /\ MaxSave \in Nat /\ MaxLoad \in Nat
    /\ Op = Cmd
    /\ NeedsReply \subseteq Cmd
    /\ Guest \in Thread /\ Guest # MainLoop

VARIABLES
    first_pending_cmd,  \* head of the list, NULL when it is empty
    pending,      \* the node pushed last, NULL when the list is empty
    next,         \* the next field of each node
    irq,
    listed,       \* history: commands pushed and not popped since the last reset
    delivered,    \* commands the guest has read, in order
    ack,          \* the command whose reply the guest has still to write
    issued,       \* number of commands issued
    wait_map,     \* per command: no entry, an entry, an entry that is done
    hostPc,       \* per host thread: progress in sendCommandAndGetResult
    hostCmd,      \* per host thread: the command it waits for
    snap,         \* progress of goldfish_sync_save and goldfish_sync_load
    saved,        \* the snapshot
    loadPos,      \* next operation that GoldfishSyncCommandQueue::load queues
    reboots, saves, loads

listVars == <<first_pending_cmd, pending, next, irq, listed>>
guestVars == <<delivered, ack>>
serviceVars == <<issued, wait_map, hostPc, hostCmd>>
snapVars == <<snap, saved, loadPos, reboots, saves, loads>>
vars == <<runnerVars, listVars, guestVars, serviceVars, snapVars>>

(* goldfish_sync_push_cmd followed by raising the IRQ: the state of the    *)
(* list after goldfish_sync_send_command.                                  *)
goldfish_sync_send_command(c) ==
    /\ next' = [n \in Cmd |-> IF n = c THEN NULL
                              ELSE IF n = pending THEN c ELSE next[n]]
    /\ first_pending_cmd' = IF pending = NULL THEN c ELSE first_pending_cmd
    /\ pending' = c
    /\ irq' = 1
    /\ listed' = listed \cup {c}

(* goldfish_sync_pop_first_cmd on a list that is not empty.                *)
goldfish_sync_pop_first_cmd ==
    /\ first_pending_cmd' = next[first_pending_cmd]
    /\ pending' = IF pending = first_pending_cmd THEN NULL ELSE pending
    /\ listed' = listed \ {first_pending_cmd}
    /\ UNCHANGED <<next, irq>>

goldfish_sync_reset_device ==
    /\ first_pending_cmd' = NULL
    /\ pending' = NULL
    /\ irq' = 0
    /\ listed' = {}
    /\ UNCHANGED next

Init ==
    /\ RunnerInit
    /\ first_pending_cmd = NULL
    /\ pending = NULL
    /\ next = [c \in Cmd |-> NULL]
    /\ irq = 0
    /\ listed = {}
    /\ delivered = <<>>
    /\ ack = NULL
    /\ issued = 0
    /\ wait_map = [c \in Cmd |-> "absent"]
    /\ hostPc = [t \in HostThread |-> "idle"]
    /\ hostCmd = [t \in HostThread |-> NULL]
    /\ snap = "running"
    /\ saved = [pending |-> NULL, next |-> next, listed |-> {},
                delivered |-> <<>>, ack |-> NULL, count |-> 0, ops |-> <<>>]
    /\ loadPos = 0
    /\ reboots = 0
    /\ saves = 0
    /\ loads = 0
-----------------------------------------------------------------------------
(* The host service.                                                       *)

(* sendCommand, and the hostSignal with which sendCommandAndGetResult      *)
(* starts: the command is queued for the device.                           *)
hostSignal(t) ==
    /\ hostPc[t] = "idle"
    /\ issued < MaxCmd
    /\ issued' = issued + 1
    /\ queueDeviceOperation(t, issued', goldfish_sync_send_command(issued'),
                            UNCHANGED listVars)
    /\ IF issued' \in NeedsReply
       THEN /\ hostPc' = [hostPc EXCEPT ![t] = "allocWait"]
            /\ hostCmd' = [hostCmd EXCEPT ![t] = issued']
       ELSE UNCHANGED <<hostPc, hostCmd>>
    /\ UNCHANGED <<wait_map, guestVars, snapVars>>

startTimer(t) ==
    /\ StartTimer(t)
    /\ UNCHANGED <<listVars, guestVars, serviceVars, snapVars>>

allocWait(t) ==
    /\ hostPc[t] = "allocWait"
    /\ t \notin arming
    /\ wait_map' = [wait_map EXCEPT ![hostCmd[t]] = "waiting"]
    /\ hostPc' = [hostPc EXCEPT ![t] = "wait"]
    /\ UNCHANGED <<issued, hostCmd, runnerVars, listVars, guestVars, snapVars>>

(* cvDone.wait returns with done set; freeWait erases the entry.           *)
freeWait(t) ==
    /\ hostPc[t] = "wait"
    /\ wait_map[hostCmd[t]] = "done"
    /\ wait_map' = [wait_map EXCEPT ![hostCmd[t]] = "absent"]
    /\ hostPc' = [hostPc EXCEPT ![t] = "idle"]
    /\ hostCmd' = [hostCmd EXCEPT ![t] = NULL]
    /\ UNCHANGED <<issued, runnerVars, listVars, guestVars, snapVars>>
-----------------------------------------------------------------------------
(* The main loop performs the queued operations.                           *)

timerFires ==
    TimerFires /\ UNCHANGED <<listVars, guestVars, serviceVars, snapVars>>

timerPerform ==
    /\ TimerPerform
    /\ goldfish_sync_send_command(mPending[mNext])
    /\ UNCHANGED <<guestVars, serviceVars, snapVars>>

timerDone ==
    TimerDone /\ UNCHANGED <<listVars, guestVars, serviceVars, snapVars>>
-----------------------------------------------------------------------------
(* The guest's accesses to the registers; each is one exit to QEMU, which  *)
(* runs it under the VM lock.                                              *)

GuestRuns == snap = "running" /\ vmLock = NoThread

(* Mutant: the empty list is not told apart, and the guest is sent the     *)
(* command of no node.                                                     *)
goldfish_sync_read_NoNullCheck ==
    /\ GuestRuns
    /\ irq = 1
    /\ ack = NULL
    /\ delivered' = Append(delivered, first_pending_cmd)
    /\ first_pending_cmd' = IF first_pending_cmd = NULL THEN NULL ELSE next[first_pending_cmd]
    /\ pending' = IF pending = first_pending_cmd THEN NULL ELSE pending
    /\ listed' = listed \ {first_pending_cmd}
    /\ ack' = IF first_pending_cmd \in NeedsReply THEN first_pending_cmd ELSE NULL
    /\ UNCHANGED <<next, irq, runnerVars, serviceVars, snapVars>>

(* A read of SYNC_REG_BATCH_COMMAND.                                       *)
goldfish_sync_read ==
    /\ GuestRuns
    /\ irq = 1
    /\ ack = NULL
    /\ IF first_pending_cmd = NULL
       THEN /\ irq' = 0
            /\ UNCHANGED <<first_pending_cmd, pending, next, listed, guestVars>>
       ELSE /\ goldfish_sync_pop_first_cmd
            /\ delivered' = Append(delivered, first_pending_cmd)
            /\ ack' = IF first_pending_cmd \in NeedsReply THEN first_pending_cmd ELSE NULL
    /\ UNCHANGED <<runnerVars, serviceVars, snapVars>>

(* A write of SYNC_REG_BATCH_COMMAND: the reply to the command read last.  *)
goldfish_sync_receive_hostcmd_result ==
    /\ GuestRuns
    /\ ack # NULL
    /\ ack' = NULL
    /\ wait_map' = [wait_map EXCEPT ![ack] = IF @ = "waiting" THEN "done" ELSE @]
    /\ UNCHANGED <<delivered, issued, hostPc, hostCmd, runnerVars, listVars, snapVars>>

(* A write of SYNC_REG_INIT: the driver of a freshly booted guest.         *)
SyncRegInit ==
    /\ GuestRuns
    /\ reboots < MaxReboot
    /\ reboots' = reboots + 1
    /\ goldfish_sync_reset_device
    /\ delivered' = <<>>
    /\ ack' = NULL
    /\ UNCHANGED <<snap, saved, loadPos, saves, loads, runnerVars, serviceVars>>
-----------------------------------------------------------------------------
(* Snapshots, on the main loop thread while the vCPU is stopped.  The host *)
(* threads keep running and may queue operations between two steps.        *)

(* Mutant: the list is saved from its head, and load takes the head for    *)
(* the node pushed last.                                                   *)
goldfish_sync_save_FromHead ==
    /\ snap = "running"
    /\ saves < MaxSave
    /\ LockVm(MainLoop)
    /\ saves' = saves + 1
    /\ snap' = "saveCount"
    /\ saved' = [pending |-> first_pending_cmd, next |-> next, listed |-> listed,
                 delivered |-> delivered, ack |-> ack, count |-> 0, ops |-> <<>>]
    /\ UNCHANGED <<loadPos, reboots, loads, listVars, guestVars, serviceVars>>

(* goldfish_sync_save up to service_ops->save.  The stream receives the    *)
(* nodes found by following next from s->pending: saved holds that pointer *)
(* and the links; saved.listed is the list as it was, for the properties.  *)
goldfish_sync_save ==
    /\ snap = "running"
    /\ saves < MaxSave
    /\ LockVm(MainLoop)
    /\ saves' = saves + 1
    /\ snap' = "saveCount"
    /\ saved' = [pending |-> pending, next |-> next, listed |-> listed,
                 delivered |-> delivered, ack |-> ack, count |-> 0, ops |-> <<>>]
    /\ UNCHANGED <<loadPos, reboots, loads, listVars, guestVars, serviceVars>>

(* GoldfishSyncCommandQueue::save: numPending() takes and releases mLock,  *)
saveNumPending ==
    /\ snap = "saveCount"
    /\ LockFree
    /\ snap' = "saveOps"
    /\ saved' = [saved EXCEPT !.count = Len(mPending)]
    /\ UNCHANGED <<loadPos, reboots, saves, loads, runnerVars, listVars,
                   guestVars, serviceVars>>

(* Mutant: saving an operation takes it out of the queue.                  *)
saveForEachPending_Drains ==
    /\ snap = "saveOps"
    /\ vmLock' = NoThread
    /\ mPending' = <<>>
    /\ snap' = "running"
    /\ saved' = [saved EXCEPT !.ops = mPending]
    /\ UNCHANGED <<mContextRunMode, mTimer, mNext, arming, loadPos, reboots, saves,
                   loads, listVars, guestVars, serviceVars>>

(* then forEachPendingOperation() takes it again.                          *)
saveForEachPending ==
    /\ snap = "saveOps"
    /\ UnlockVm(MainLoop)
    /\ snap' = "running"
    /\ saved' = [saved EXCEPT !.ops = mPending]
    /\ UNCHANGED <<loadPos, reboots, saves, loads, listVars, guestVars, serviceVars>>

(* goldfish_sync_load up to service_ops->load, which starts by dropping    *)
(* the operations queued before the load.                                  *)
goldfish_sync_load ==
    /\ snap = "running"
    /\ saves > 0 /\ loads < MaxLoad
    /\ vmLock = NoThread
    /\ LockFree
    /\ vmLock' = MainLoop
    /\ mPending' = <<>>
    /\ loads' = loads + 1
    /\ snap' = "loading"
    /\ loadPos' = 1
    /\ pending' = saved.pending
    /\ first_pending_cmd' = saved.pending
    /\ next' = saved.next
    /\ listed' = {c \in saved.listed : saved.pending # NULL /\ c >= saved.pending}
    /\ irq' = 0
    /\ delivered' = saved.delivered
    /\ ack' = saved.ack
    /\ UNCHANGED <<mContextRunMode, mTimer, mNext, arming, saved, reboots, saves,
                   serviceVars>>

(* Mutant: load queues the saved operations behind the ones already        *)
(* pending, without performing them first.                                 *)
loadQueueOperation_Deferred ==
    /\ snap = "loading"
    /\ loadPos \in 1..saved.count
    /\ PushPending(MainLoop, saved.ops[loadPos])
    /\ loadPos' = loadPos + 1
    /\ UNCHANGED <<snap, saved, reboots, saves, loads, listVars, guestVars, serviceVars>>

(* The loop of GoldfishSyncCommandQueue::load.                             *)
loadQueueOperation ==
    /\ snap = "loading"
    /\ loadPos \in 1..saved.count
    /\ queueDeviceOperation(MainLoop, saved.ops[loadPos],
                            goldfish_sync_send_command(saved.ops[loadPos]),
                            UNCHANGED listVars)
    /\ loadPos' = loadPos + 1
    /\ UNCHANGED <<snap, saved, reboots, saves, loads, guestVars, serviceVars>>

(* Mutant: goldfish_sync_load does not raise the IRQ for a loaded list.    *)
loadRaiseIrq_Forgotten ==
    /\ snap = "loading"
    /\ loadPos = saved.count + 1
    /\ snap' = "loaded"
    /\ loadPos' = 0
    /\ UNCHANGED <<listVars, saved, reboots, saves, loads, runnerVars, guestVars,
                   serviceVars>>

(* The end of goldfish_sync_load.                                          *)
loadRaiseIrq ==
    /\ snap = "loading"
    /\ loadPos = saved.count + 1
    /\ irq' = IF pending # NULL THEN 1 ELSE irq
    /\ snap' = "loaded"
    /\ loadPos' = 0
    /\ UNCHANGED <<first_pending_cmd, pending, next, listed, saved, reboots, saves,
                   loads, runnerVars, guestVars, serviceVars>>

resumeVm ==
    /\ snap = "loaded"
    /\ UnlockVm(MainLoop)
    /\ snap' = "running"
    /\ UNCHANGED <<saved, loadPos, reboots, saves, loads, listVars, guestVars, serviceVars>>
-----------------------------------------------------------------------------
Next ==
    \/ \E t \in HostThread :
          hostSignal(t) \/ startTimer(t) \/ allocWait(t) \/ freeWait(t)
    \/ timerFires \/ timerPerform \/ timerDone
    \/ goldfish_sync_read \/ goldfish_sync_receive_hostcmd_result \/ SyncRegInit
    \/ goldfish_sync_save \/ saveNumPending \/ saveForEachPending
    \/ goldfish_sync_load \/ loadQueueOperation \/ loadRaiseIrq \/ resumeVm

Spec == Init /\ [][Next]_vars

(* The main loop runs its timers, a thread that queued an operation goes   *)
(* on to start the timer, and a guest whose interrupt line is high runs    *)
(* its handler until the device lowers it.                                 *)
Fairness ==
    /\ \A t \in HostThread : WF_vars(startTimer(t)) /\ WF_vars(allocWait(t))
                                                    /\ WF_vars(freeWait(t))
    /\ WF_vars(timerFires) /\ WF_vars(timerPerform) /\ WF_vars(timerDone)
    /\ WF_vars(goldfish_sync_read)
    /\ WF_vars(goldfish_sync_receive_hostcmd_result)
    /\ WF_vars(saveNumPending \/ saveForEachPending)
    /\ WF_vars(loadQueueOperation \/ loadRaiseIrq \/ resumeVm)

FairSpec == Spec /\ Fairness
-----------------------------------------------------------------------------
TypeOK ==
    /\ RunnerTypeOK
    /\ first_pending_cmd \in Cmd \cup {NULL}
    /\ pending \in Cmd \cup {NULL}
    /\ next \in [Cmd -> Cmd \cup {NULL}]
    /\ irq \in {0, 1}
    /\ listed \subseteq Cmd
    /\ delivered \in Seq(Cmd)
    /\ ack \in Cmd \cup {NULL}
    /\ issued \in Cmd \cup {0}
    /\ wait_map \in [Cmd -> {"absent", "waiting", "done"}]
    /\ hostPc \in [HostThread -> {"idle", "allocWait", "wait"}]
    /\ hostCmd \in [HostThread -> Cmd \cup {NULL}]
    /\ snap \in {"running", "saveCount", "saveOps", "loading", "loaded"}
    /\ saved \in [pending : Cmd \cup {NULL}, next : [Cmd -> Cmd \cup {NULL}],
                  listed : SUBSET Cmd, delivered : Seq(Cmd), ack : Cmd \cup {NULL},
                  count : Nat, ops : Seq(Cmd)]
    /\ loadPos \in Nat
    /\ reboots \in Nat /\ saves \in Nat /\ loads \in Nat

(* A guest never sleeps on pending commands: outside goldfish_sync_load    *)
(* the IRQ is high while the list is not empty.                            *)
PendingRaisesIrq ==
    snap # "loading" /\ first_pending_cmd # NULL => irq = 1

(* pending is the last node of the list that starts at first_pending_cmd,  *)
(* both are NULL together, and the links visit exactly the commands pushed *)
(* and not popped, in order.  When this fails goldfish_sync_push_cmd links *)
(* a command behind a node that is not the last, and commands are lost.    *)
ListShape ==
    /\ (listed = {}) <=> (pending = NULL)
    /\ (listed = {}) <=> (first_pending_cmd = NULL)
    /\ listed # {} => /\ first_pending_cmd \in listed
                      /\ pending \in listed
                      /\ next[pending] = NULL
                      /\ \A c \in listed : first_pending_cmd <= c /\ c <= pending
    /\ \A c \in listed \ {pending} :
          /\ next[c] \in listed
          /\ c < next[c]
          /\ \A d \in listed : d <= c \/ next[c] <= d

(* "We plan to process pending commands in the same order in which they    *)
(* were received" (goldfish_sync.c:78): from the host threads through the  *)
(* queue and the list to the guest, no command overtakes another and none  *)
(* is read twice, across reboots and snapshots.                            *)
CommandsInOrder ==
    LET waiting == {i \in DOMAIN mPending : mNext <= i} IN
    /\ \A i, j \in DOMAIN delivered : i < j => delivered[i] < delivered[j]
    /\ \A i \in DOMAIN delivered : \A c \in listed : delivered[i] < c
    /\ \A i, j \in waiting : i < j => mPending[i] < mPending[j]
    /\ \A i \in waiting : /\ \A c \in listed : c < mPending[i]
                          /\ \A j \in DOMAIN delivered : delivered[j] < mPending[i]

(* Every command that a host thread issues is read by the guest, unless a  *)
(* reboot empties the list or a load replaces it.                          *)
CommandsDelivered ==
    \A c \in Cmd :
        issued >= c ~> (\E i \in DOMAIN delivered : delivered[i] = c) \/ reboots > 0 \/ loads > 0

(* A snapshot restores the commands that were on their way to the guest:   *)
(* those in the list and those in the queue.                               *)
SnapshotKeepsPending ==
    snap = "loaded" /\ saved.count = Len(saved.ops) =>
        listed = saved.listed \cup {saved.ops[i] : i \in DOMAIN saved.ops}

=============================================================================
