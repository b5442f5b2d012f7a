------------------------- MODULE GoldfishSyncProofs -------------------------
(***************************************************************************)
(* Proofs about GoldfishSync, for any number of host threads, commands,    *)
(* reboots and snapshots.  The inductive invariant is built in layers:     *)
(* TypeOK, the control invariant Control, the runner's and the interrupt's *)
(* invariants on top of them, and Order, which relates the host's queue,   *)
(* the list, the guest and the snapshot.                                   *)
(***************************************************************************)
EXTENDS GoldfishSync, TLAPS

(* Who may hold the locks where, and how far the loops have come.          *)
Control ==
    /\ mContextRunMode = "DeferIfNotLocked"
    /\ vmLock \in {MainLoop, NoThread}
    /\ arming \subseteq HostThread
    /\ mNext <= Len(mPending) + 1
    /\ mNext # 0 => vmLock = MainLoop /\ snap = "running"
    /\ snap # "running" => vmLock = MainLoop
    /\ snap = "loading" => loadPos \in 1..(saved.count + 1)
    /\ snap = "saveOps" => saved.count <= Len(mPending)
    /\ snap \in {"running", "loading", "loaded"} => saved.count <= Len(saved.ops)

LEMMA InitTypeOK == Init => TypeOK
<1> SUFFICES ASSUME Init PROVE TypeOK
  OBVIOUS
<1>1. RunnerTypeOK
  <2>1. RunnerInit
    BY DEF Init
  <2>2. mPending \in Seq(Op) /\ mNext \in Nat
    BY <2>1 DEF RunnerInit
  <2>3. mTimer \in BOOLEAN
    BY <2>1 DEF RunnerInit
  <2> QED
    BY <2>1, <2>2, <2>3 DEF RunnerInit, RunnerTypeOK
<1>2. next \in [Cmd -> Cmd \cup {NULL}]
  BY DEF Init
<1>3. saved \in [pending : Cmd \cup {NULL}, next : [Cmd -> Cmd \cup {NULL}],
                 listed : SUBSET Cmd, delivered : Seq(Cmd), ack : Cmd \cup {NULL},
                 count : Nat, ops : Seq(Cmd)]
  BY <1>2 DEF Init
<1> QED
  BY <1>1, <1>2, <1>3 DEF Init, TypeOK, NULL

LEMMA SendCommandType ==
    ASSUME TypeOK, NEW c \in Cmd, goldfish_sync_send_command(c)
    PROVE  /\ first_pending_cmd' \in Cmd \cup {NULL}
           /\ pending' \in Cmd \cup {NULL}
           /\ next' \in [Cmd -> Cmd \cup {NULL}]
           /\ irq' \in {0, 1}
           /\ listed' \subseteq Cmd
BY DEF TypeOK, goldfish_sync_send_command

LEMMA StepTypeOK == TypeOK /\ Control /\ [Next]_vars => TypeOK'
<1> SUFFICES ASSUME TypeOK, Control, [Next]_vars PROVE TypeOK'
  OBVIOUS
<1> USE SyncAssumption, ThreadAssumption
<1>1. ASSUME NEW t \in HostThread, hostSignal(t) PROVE TypeOK'
  <2>1. issued' \in Cmd
    BY <1>1 DEF hostSignal, TypeOK, Cmd
  <2>2. PushPending(t, issued') /\ UNCHANGED listVars
    BY <1>1 DEF hostSignal, queueDeviceOperation, CanPerform, Control, HostThread
  <2>3. RunnerTypeOK'
    BY <2>1, <2>2 DEF PushPending, TypeOK, RunnerTypeOK, HostThread
  <2>4. hostPc' \in [HostThread -> {"idle", "allocWait", "wait"}]
        /\ hostCmd' \in [HostThread -> Cmd \cup {NULL}]
    <3>1. CASE issued' \in NeedsReply
      <4>1. hostPc' = [hostPc EXCEPT ![t] = "allocWait"]
            /\ hostCmd' = [hostCmd EXCEPT ![t] = issued']
        BY <1>1, <3>1 DEF hostSignal
      <4> QED
        BY <2>1, <4>1 DEF TypeOK
    <3>2. CASE issued' \notin NeedsReply
      BY <1>1, <3>2 DEF hostSignal, TypeOK
    <3> QED
      BY <3>1, <3>2
  <2> QED
    BY <1>1, <2>1, <2>2, <2>3, <2>4 DEF hostSignal, TypeOK, listVars, guestVars, snapVars
<1>2. ASSUME NEW t \in HostThread, startTimer(t) PROVE TypeOK'
  BY <1>2 DEF startTimer, StartTimer, TypeOK, RunnerTypeOK, listVars, guestVars,
              serviceVars, snapVars
<1>3. ASSUME NEW t \in HostThread, allocWait(t) PROVE TypeOK'
  <2>1. wait_map' \in [Cmd -> {"absent", "waiting", "done"}]
        /\ hostPc' \in [HostThread -> {"idle", "allocWait", "wait"}]
    BY <1>3 DEF allocWait, TypeOK
  <2> QED
    BY <1>3, <2>1 DEF allocWait, TypeOK, RunnerTypeOK, runnerVars, listVars, guestVars,
                      snapVars
<1>4. ASSUME NEW t \in HostThread, freeWait(t) PROVE TypeOK'
  <2>1. /\ wait_map' \in [Cmd -> {"absent", "waiting", "done"}]
        /\ hostPc' \in [HostThread -> {"idle", "allocWait", "wait"}]
        /\ hostCmd' \in [HostThread -> Cmd \cup {NULL}]
    BY <1>4 DEF freeWait, TypeOK
  <2> QED
    BY <1>4, <2>1 DEF freeWait, TypeOK, RunnerTypeOK, runnerVars, listVars, guestVars,
                      snapVars
<1>5. CASE timerFires
  <2>1. RunnerTypeOK'
    BY <1>5 DEF timerFires, TimerFires, TypeOK, RunnerTypeOK
  <2> QED
    BY <1>5, <2>1 DEF timerFires, TypeOK, listVars, guestVars, serviceVars, snapVars
<1>6. CASE timerPerform
  <2>1. mPending[mNext] \in Cmd
    BY <1>6 DEF timerPerform, TimerPerform, TypeOK, RunnerTypeOK
  <2>2. goldfish_sync_send_command(mPending[mNext])
    BY <1>6 DEF timerPerform, TimerPerform
  <2>3. RunnerTypeOK'
    BY <1>6 DEF timerPerform, TimerPerform, TypeOK, RunnerTypeOK
  <2> QED
    BY <1>6, <2>1, <2>2, <2>3, SendCommandType
    DEF timerPerform, TypeOK, guestVars, serviceVars, snapVars
<1>7. CASE timerDone
  BY <1>7 DEF timerDone, TimerDone, TypeOK, RunnerTypeOK, listVars, guestVars,
              serviceVars, snapVars
<1>8. CASE goldfish_sync_read
  <2>1. RunnerTypeOK'
    BY <1>8 DEF goldfish_sync_read, TypeOK, RunnerTypeOK, runnerVars
  <2>2. CASE first_pending_cmd = NULL
    BY <1>8, <2>1, <2>2 DEF goldfish_sync_read, TypeOK, guestVars, serviceVars, snapVars
  <2>3. CASE first_pending_cmd # NULL
    <3>1. first_pending_cmd \in Cmd
      BY <2>3 DEF TypeOK
    <3>2. /\ first_pending_cmd' \in Cmd \cup {NULL}
          /\ pending' \in Cmd \cup {NULL}
          /\ UNCHANGED <<next, irq>>
          /\ listed' \subseteq Cmd
      BY <1>8, <2>3, <3>1 DEF goldfish_sync_read, goldfish_sync_pop_first_cmd, TypeOK
    <3>3. delivered' \in Seq(Cmd)
      <4>1. delivered' = Append(delivered, first_pending_cmd)
        BY <1>8, <2>3 DEF goldfish_sync_read
      <4> QED
        BY <3>1, <4>1 DEF TypeOK
    <3>4. ack' \in Cmd \cup {NULL}
      BY <1>8, <2>3, <3>1 DEF goldfish_sync_read
    <3> QED
      BY <1>8, <2>1, <3>2, <3>3, <3>4 DEF goldfish_sync_read, TypeOK, serviceVars, snapVars
  <2> QED
    BY <2>2, <2>3
<1>9. CASE goldfish_sync_receive_hostcmd_result
  BY <1>9 DEF goldfish_sync_receive_hostcmd_result, TypeOK, RunnerTypeOK, runnerVars,
              listVars, snapVars
<1>10. CASE SyncRegInit
  BY <1>10 DEF SyncRegInit, goldfish_sync_reset_device, TypeOK, RunnerTypeOK,
               runnerVars, serviceVars
<1>11. CASE goldfish_sync_save
  BY <1>11 DEF goldfish_sync_save, LockVm, TypeOK, RunnerTypeOK, listVars, guestVars,
               serviceVars
<1>12. CASE saveNumPending
  <2>1. Len(mPending) \in Nat
    BY DEF TypeOK, RunnerTypeOK
  <2> QED
    BY <1>12, <2>1 DEF saveNumPending, TypeOK, RunnerTypeOK, runnerVars, listVars,
                       guestVars, serviceVars
<1>13. CASE saveForEachPending
  BY <1>13 DEF saveForEachPending, UnlockVm, TypeOK, RunnerTypeOK, listVars, guestVars,
               serviceVars
<1>14. CASE goldfish_sync_load
  BY <1>14 DEF goldfish_sync_load, TypeOK, RunnerTypeOK, serviceVars
<1>15. CASE loadQueueOperation
  <2>1. saved.ops[loadPos] \in Cmd
    BY <1>15 DEF loadQueueOperation, TypeOK, Control
  <2>2. goldfish_sync_send_command(saved.ops[loadPos]) /\ UNCHANGED runnerVars
    BY <1>15 DEF loadQueueOperation, queueDeviceOperation, CanPerform, Control, HostThread
  <2>3. /\ loadPos' = loadPos + 1
        /\ UNCHANGED <<runnerVars, snap, saved, reboots, saves, loads, guestVars, serviceVars>>
    BY <1>15, <2>2 DEF loadQueueOperation
  <2> QED
    BY <2>1, <2>2, <2>3, SendCommandType, SMTT(30)
    DEF TypeOK, RunnerTypeOK, runnerVars, guestVars, serviceVars
<1>16. CASE loadRaiseIrq
  BY <1>16 DEF loadRaiseIrq, TypeOK, RunnerTypeOK, runnerVars, guestVars, serviceVars
<1>17. CASE resumeVm
  BY <1>17 DEF resumeVm, UnlockVm, TypeOK, RunnerTypeOK, listVars, guestVars, serviceVars
<1>18. CASE UNCHANGED vars
  BY <1>18 DEF vars, TypeOK, RunnerTypeOK, runnerVars, listVars, guestVars, serviceVars,
               snapVars
<1> QED
  BY <1>1, <1>2, <1>3, <1>4, <1>5, <1>6, <1>7, <1>8, <1>9, <1>10, <1>11, <1>12, <1>13,
     <1>14, <1>15, <1>16, <1>17, <1>18 DEF Next
-----------------------------------------------------------------------------
LEMMA InitControl == Init => Control
BY DEF Init, RunnerInit, Control

LEMMA StepControl == TypeOK /\ Control /\ [Next]_vars => Control'
<1> SUFFICES ASSUME TypeOK, Control, [Next]_vars PROVE Control'
  OBVIOUS
<1> USE SyncAssumption, ThreadAssumption
<1>0. /\ mPending \in Seq(Cmd) /\ Len(mPending) \in Nat /\ mNext \in Nat
      /\ saved.count \in Nat /\ loadPos \in Nat
      /\ saved.ops \in Seq(Cmd) /\ Len(saved.ops) \in Nat
  BY DEF TypeOK, RunnerTypeOK
<1>1. ASSUME NEW t \in HostThread, hostSignal(t) PROVE Control'
  <2>1. PushPending(t, issued') /\ UNCHANGED snapVars
    BY <1>1 DEF hostSignal, queueDeviceOperation, CanPerform, Control, HostThread
  <2>2. Len(mPending') = Len(mPending) + 1
    BY <1>0, <2>1 DEF PushPending
  <2> QED
    BY <1>0, <2>1, <2>2 DEF PushPending, Control, LockFree, snapVars
<1>2. ASSUME NEW t \in HostThread, startTimer(t) PROVE Control'
  BY <1>2 DEF startTimer, StartTimer, Control, snapVars
<1>3. ASSUME NEW t \in HostThread, allocWait(t) PROVE Control'
  BY <1>3 DEF allocWait, Control, runnerVars, snapVars
<1>4. ASSUME NEW t \in HostThread, freeWait(t) PROVE Control'
  BY <1>4 DEF freeWait, Control, runnerVars, snapVars
<1>5. CASE timerFires
  BY <1>5, <1>0 DEF timerFires, TimerFires, Control, snapVars
<1>6. CASE timerPerform
  BY <1>6, <1>0 DEF timerPerform, TimerPerform, Control, snapVars
<1>7. CASE timerDone
  BY <1>7, <1>0 DEF timerDone, TimerDone, Control, snapVars
<1>8. CASE goldfish_sync_read
  BY <1>8 DEF goldfish_sync_read, Control, runnerVars, snapVars
<1>9. CASE goldfish_sync_receive_hostcmd_result
  BY <1>9 DEF goldfish_sync_receive_hostcmd_result, Control, runnerVars, snapVars
<1>10. CASE SyncRegInit
  BY <1>10 DEF SyncRegInit, Control, runnerVars
<1>11. CASE goldfish_sync_save
  BY <1>11 DEF goldfish_sync_save, LockVm, Control
<1>12. CASE saveNumPending
  BY <1>12, <1>0 DEF saveNumPending, Control, runnerVars, TypeOK
<1>13. CASE saveForEachPending
  <2>1. saved'.count = saved.count /\ saved'.ops = mPending
    BY <1>13 DEF saveForEachPending, TypeOK
  <2> QED
    BY <1>13, <1>0, <2>1 DEF saveForEachPending, UnlockVm, Control
<1>14. CASE goldfish_sync_load
  BY <1>14, <1>0 DEF goldfish_sync_load, Control, LockFree
<1>15. CASE loadQueueOperation
  <2>1. UNCHANGED runnerVars
    BY <1>15 DEF loadQueueOperation, queueDeviceOperation, CanPerform, Control, HostThread
  <2> QED
    BY <1>15, <1>0, <2>1 DEF loadQueueOperation, Control, runnerVars
<1>16. CASE loadRaiseIrq
  BY <1>16 DEF loadRaiseIrq, Control, runnerVars
<1>17. CASE resumeVm
  BY <1>17 DEF resumeVm, UnlockVm, Control
<1>18. CASE UNCHANGED vars
  BY <1>18 DEF vars, Control, runnerVars, snapVars
<1> QED
  BY <1>1, <1>2, <1>3, <1>4, <1>5, <1>6, <1>7, <1>8, <1>9, <1>10, <1>11, <1>12, <1>13,
     <1>14, <1>15, <1>16, <1>17, <1>18 DEF Next

(* TypeOK and Control hold in every reachable state.                       *)
THEOREM TypeCorrect == Spec => [](TypeOK /\ Control)
<1>1. Init => TypeOK /\ Control
  BY InitTypeOK, InitControl
<1>2. TypeOK /\ Control /\ [Next]_vars => (TypeOK /\ Control)'
  BY StepTypeOK, StepControl
<1> QED
  BY <1>1, <1>2, PTL DEF Spec
-----------------------------------------------------------------------------
(* The runner strands no operation, and a guest with pending commands is   *)
(* interrupted.  A stranded operation would need the timer to be disarmed  *)
(* while mPending is not empty: only TimerFires disarms it, and the loop   *)
(* it starts ends by clearing mPending.                                    *)
Wakeups == NoStrandedOperation /\ TimerHoldsVmLock /\ PendingRaisesIrq

LEMMA StepWakeups ==
    TypeOK /\ Control /\ Wakeups /\ ListShape /\ [Next]_vars => Wakeups'
<1> SUFFICES ASSUME TypeOK, Control, Wakeups, ListShape, [Next]_vars PROVE Wakeups'
  OBVIOUS
<1> USE SyncAssumption, ThreadAssumption DEF Wakeups
<1>1. TimerHoldsVmLock'
  BY StepControl DEF Control, TimerHoldsVmLock
<1>2. NoStrandedOperation'
  <2>1. ASSUME NEW t \in HostThread, hostSignal(t) PROVE arming' # {}
    BY <2>1 DEF hostSignal, queueDeviceOperation, PushPending, CanPerform, Control,
                HostThread
  <2>2. ASSUME NEW t \in HostThread, startTimer(t) PROVE mTimer'
    BY <2>2 DEF startTimer, StartTimer
  <2>3. CASE timerFires
    BY <2>3 DEF timerFires, TimerFires, NoStrandedOperation
  <2>4. CASE timerPerform
    BY <2>4 DEF timerPerform, TimerPerform, NoStrandedOperation
  <2>5. CASE timerDone \/ goldfish_sync_load
    BY <2>5 DEF timerDone, TimerDone, goldfish_sync_load, NoStrandedOperation
  <2>6. CASE loadQueueOperation
    BY <2>6 DEF loadQueueOperation, queueDeviceOperation, CanPerform, Control,
                HostThread, runnerVars, NoStrandedOperation
  <2>7. CASE UNCHANGED <<mPending, mTimer, mNext, arming>>
    BY <2>7 DEF NoStrandedOperation
  <2> QED
    BY <2>1, <2>2, <2>3, <2>4, <2>5, <2>6, <2>7
    DEF Next, vars, runnerVars, NoStrandedOperation, allocWait, freeWait,
        goldfish_sync_read, goldfish_sync_receive_hostcmd_result, SyncRegInit,
        goldfish_sync_save, LockVm, saveNumPending, saveForEachPending, UnlockVm,
        loadRaiseIrq, resumeVm
<1>3. PendingRaisesIrq'
  <2>1. ASSUME NEW c, goldfish_sync_send_command(c) PROVE irq' = 1
    BY <2>1 DEF goldfish_sync_send_command
  <2>2. ASSUME NEW t \in HostThread, hostSignal(t) PROVE PendingRaisesIrq'
    BY <2>2, <2>1 DEF hostSignal, queueDeviceOperation, PendingRaisesIrq, listVars, snapVars
  <2>3. CASE timerPerform
    BY <2>3, <2>1 DEF timerPerform, TimerPerform, PendingRaisesIrq
  <2>4. CASE goldfish_sync_read
    BY <2>4 DEF goldfish_sync_read, goldfish_sync_pop_first_cmd, PendingRaisesIrq, snapVars
  <2>5. CASE SyncRegInit
    BY <2>5 DEF SyncRegInit, goldfish_sync_reset_device, PendingRaisesIrq
  <2>6. CASE goldfish_sync_load \/ loadQueueOperation
    BY <2>6 DEF goldfish_sync_load, loadQueueOperation, PendingRaisesIrq
  <2>7. CASE loadRaiseIrq
    BY <2>7 DEF loadRaiseIrq, ListShape, PendingRaisesIrq
  <2> QED
    BY <2>2, <2>3, <2>4, <2>5, <2>6, <2>7
    DEF Next, vars, listVars, snapVars, PendingRaisesIrq, startTimer, allocWait, freeWait,
        timerFires, timerDone, goldfish_sync_receive_hostcmd_result,
        goldfish_sync_save, saveNumPending, saveForEachPending, resumeVm
<1> QED
  BY <1>1, <1>2, <1>3
-----------------------------------------------------------------------------
(* What the snapshot remembers is a list that ends at saved.pending,       *)
(* followed by the queue.                                                  *)
SavedOrder ==
    /\ (saved.listed = {}) <=> (saved.pending = NULL)
    /\ saved.pending # NULL => /\ saved.pending \in saved.listed
                               /\ saved.next[saved.pending] = NULL
                               /\ \A c \in saved.listed : c <= saved.pending
    /\ \A i, j \in DOMAIN saved.delivered :
          i < j => saved.delivered[i] < saved.delivered[j]
    /\ \A i \in DOMAIN saved.delivered : \A c \in saved.listed : saved.delivered[i] < c
    /\ \A i, j \in DOMAIN saved.ops : i < j => saved.ops[i] < saved.ops[j]
    /\ \A i \in DOMAIN saved.ops :
          /\ \A c \in saved.listed : c < saved.ops[i]
          /\ \A j \in DOMAIN saved.delivered : saved.delivered[j] < saved.ops[i]
    /\ snap \in {"saveCount", "saveOps"} =>
          /\ saved.listed = listed
          /\ saved.delivered = delivered

(* While goldfish_sync_load runs, the saved operations not yet queued come *)
(* after the list and before everything queued since.                      *)
LoadOrder ==
    snap = "loading" =>
        /\ \A i \in DOMAIN saved.ops : loadPos <= i =>
              /\ \A c \in listed : c < saved.ops[i]
              /\ \A j \in DOMAIN delivered : delivered[j] < saved.ops[i]
        /\ \A i \in DOMAIN saved.ops : \A j \in DOMAIN mPending : saved.ops[i] < mPending[j]

(* Every command anywhere has been issued.                                 *)
AllIssued ==
    /\ \A c \in listed : c <= issued
    /\ \A i \in DOMAIN delivered : delivered[i] <= issued
    /\ \A i \in DOMAIN mPending : mPending[i] <= issued
    /\ \A c \in saved.listed : c <= issued
    /\ \A i \in DOMAIN saved.delivered : saved.delivered[i] <= issued
    /\ \A i \in DOMAIN saved.ops : saved.ops[i] <= issued

Order == ListShape /\ CommandsInOrder /\ SavedOrder /\ LoadOrder /\ AllIssued

LEMMA InitOrder == Init => Order
BY DEF Init, RunnerInit, Order, ListShape, CommandsInOrder, SavedOrder, LoadOrder,
       AllIssued

(* A push of a command above all listed ones keeps the shape of the list.  *)
LEMMA SendKeepsShape ==
    ASSUME TypeOK, ListShape, NEW c \in Cmd, \A d \in listed : d < c,
           goldfish_sync_send_command(c)
    PROVE  ListShape'
<1> USE SyncAssumption DEF Cmd, NULL
<1>0. listed \subseteq Nat /\ c \in Nat
  BY DEF TypeOK
<1>1. /\ pending' = c /\ listed' = listed \cup {c} /\ c \notin listed
      /\ next'[c] = NULL
      /\ \A n \in listed : n # pending => next'[n] = next[n]
      /\ pending \in listed => next'[pending] = c
  BY DEF goldfish_sync_send_command, TypeOK
<1>2. CASE listed = {}
  BY <1>1, <1>2 DEF ListShape, goldfish_sync_send_command
<1>3. CASE listed # {}
  <2>1. first_pending_cmd' = first_pending_cmd /\ pending \in listed
    BY <1>3 DEF ListShape, goldfish_sync_send_command
  <2>2. \A d \in listed' \ {pending'} :
          /\ next'[d] \in listed'
          /\ d < next'[d]
          /\ \A e \in listed' : e <= d \/ next'[d] <= e
    <3> SUFFICES ASSUME NEW d \in listed' \ {pending'}
                 PROVE  /\ next'[d] \in listed'
                        /\ d < next'[d]
                        /\ \A e \in listed' : e <= d \/ next'[d] <= e
      OBVIOUS
    <3>1. d \in listed /\ d \in Nat
      BY <1>1 DEF TypeOK
    <3>2. CASE d = pending
      BY <1>1, <3>1, <3>2 DEF ListShape, TypeOK
    <3>3. CASE d # pending
      <4>1. next'[d] = next[d] /\ next[d] \in listed /\ d < next[d]
        BY <1>1, <3>1, <3>3 DEF ListShape
      <4>2. \A e \in listed : e <= d \/ next[d] <= e
        BY <3>1, <3>3 DEF ListShape
      <4>3. next[d] <= c
        <5>1. next[d] < c
          BY <4>1, Zenon
        <5>2. next[d] \in Nat /\ c \in Nat
          BY <1>0, <4>1, Zenon
        <5> QED
          BY <5>1, <5>2
      <4> QED
        BY <1>1, <4>1, <4>2, <4>3
    <3> QED
      BY <3>2, <3>3
  <2>3. \A d \in listed' : first_pending_cmd' <= d /\ d <= pending'
    BY <1>1, <1>3, <2>1 DEF ListShape, TypeOK
  <2> QED
    BY <1>1, <1>3, <2>1, <2>2, <2>3 DEF ListShape
<1> QED
  BY <1>2, <1>3

(* So does a pop; the command popped is below the ones that stay.          *)
LEMMA PopKeepsShape ==
    ASSUME TypeOK, ListShape, first_pending_cmd # NULL, goldfish_sync_pop_first_cmd
    PROVE  /\ ListShape'
           /\ first_pending_cmd \in listed
           /\ \A c \in listed' : first_pending_cmd < c
<1> USE SyncAssumption DEF Cmd, NULL
<1>1. first_pending_cmd \in listed /\ listed' = listed \ {first_pending_cmd}
  BY DEF ListShape, goldfish_sync_pop_first_cmd
<1>2. \A c \in listed' : first_pending_cmd < c
  BY <1>1 DEF ListShape, TypeOK
<1>3. CASE pending = first_pending_cmd
  <2>1. listed' = {}
    BY <1>1, <1>2, <1>3 DEF ListShape, TypeOK
  <2> QED
    BY <1>1, <1>2, <1>3, <2>1 DEF ListShape, goldfish_sync_pop_first_cmd
<1>4. CASE pending # first_pending_cmd
  <2>1. /\ pending' = pending /\ pending \in listed'
        /\ first_pending_cmd' = next[first_pending_cmd] /\ next' = next
        /\ first_pending_cmd' \in listed'
    BY <1>1, <1>4 DEF ListShape, goldfish_sync_pop_first_cmd, TypeOK
  <2>2. \A c \in listed' : first_pending_cmd' <= c /\ c <= pending'
    BY <1>1, <1>2, <1>4, <2>1 DEF ListShape, TypeOK
  <2>3. \A c \in listed' \ {pending'} :
          /\ next'[c] \in listed'
          /\ c < next'[c]
          /\ \A d \in listed' : d <= c \/ next'[c] <= d
    <3> SUFFICES ASSUME NEW c \in listed' \ {pending'}
                 PROVE  /\ next'[c] \in listed'
                        /\ c < next'[c]
                        /\ \A d \in listed' : d <= c \/ next'[c] <= d
      OBVIOUS
    <3>1. c \in listed \ {pending} /\ c \in Nat /\ first_pending_cmd < c
      BY <1>1, <1>2, <2>1 DEF TypeOK
    <3>2. next[c] \in listed /\ c < next[c] /\ next[c] \in Nat
      BY <3>1 DEF ListShape, TypeOK
    <3>3. next[c] # first_pending_cmd
      BY <3>1, <3>2 DEF TypeOK
    <3> QED
      BY <1>1, <2>1, <3>1, <3>2, <3>3 DEF ListShape
  <2> QED
    <3>1. next'[pending'] = NULL /\ pending' # NULL /\ first_pending_cmd' # NULL
      BY <1>1, <2>1 DEF ListShape, TypeOK
    <3>2. listed' # {} /\ pending' \in listed' /\ first_pending_cmd' \in listed'
      BY <2>1
    <3>3. ListShape'
      BY <2>2, <2>3, <3>1, <3>2, Zenon DEF ListShape
    <3> QED
      BY <1>1, <1>2, <3>3
<1> QED
  BY <1>3, <1>4

(* The numbers in the state, as arithmetic needs them.                     *)
Numeral(s) ==
    /\ Len(s) \in Nat
    /\ DOMAIN s = 1..Len(s)
    /\ \A i \in DOMAIN s : s[i] \in Nat

LEMMA NumeralSeq == ASSUME NEW s \in Seq(Cmd) PROVE Numeral(s)
BY SyncAssumption DEF Numeral, Cmd

LEMMA Numbers ==
    ASSUME TypeOK
    PROVE  /\ listed \subseteq Nat /\ issued \in Nat /\ mNext \in Nat /\ loadPos \in Nat
           /\ Numeral(delivered) /\ Numeral(mPending)
           /\ saved.listed \subseteq Nat /\ saved.count \in Nat
           /\ Numeral(saved.delivered) /\ Numeral(saved.ops)
<1>1. Cmd \subseteq Nat
  BY SyncAssumption DEF Cmd
<1>2. /\ listed \subseteq Cmd /\ issued \in Cmd \cup {0} /\ mNext \in Nat /\ loadPos \in Nat
      /\ delivered \in Seq(Cmd) /\ mPending \in Seq(Cmd)
      /\ saved.listed \subseteq Cmd /\ saved.delivered \in Seq(Cmd)
      /\ saved.ops \in Seq(Cmd) /\ saved.count \in Nat
  BY SyncAssumption DEF TypeOK, RunnerTypeOK
<1>3. /\ Numeral(delivered) /\ Numeral(mPending)
      /\ Numeral(saved.delivered) /\ Numeral(saved.ops)
  BY <1>2, NumeralSeq, Zenon
<1>4. issued \in Nat
  BY <1>1, <1>2
<1> QED
  BY <1>1, <1>2, <1>3, <1>4, Zenon

LEMMA AllWaiting ==
    ASSUME TypeOK, mNext = 0
    PROVE  \A i \in DOMAIN mPending : mNext <= i
<1>1. Len(mPending) \in Nat /\ DOMAIN mPending = 1..Len(mPending)
  BY Numbers DEF Numeral
<1> QED
  BY <1>1

(* hostSignal appends a command above all others to the queue.             *)
LEMMA SignalKeepsOrder ==
    ASSUME TypeOK, Control, Order, NEW t \in HostThread, hostSignal(t)
    PROVE  Order'
<1>1. PushPending(t, issued') /\ UNCHANGED <<listVars, guestVars, snapVars>>
  BY ThreadAssumption DEF hostSignal, queueDeviceOperation, CanPerform, Control, HostThread
<1>2. issued' = issued + 1 /\ mNext = 0 /\ mNext' = mNext
  BY <1>1 DEF hostSignal, PushPending, LockFree
<1>3. /\ DOMAIN mPending' = 1..(Len(mPending) + 1)
      /\ DOMAIN mPending = 1..Len(mPending) /\ Len(mPending) \in Nat
      /\ \A i \in 1..Len(mPending) : mPending'[i] = mPending[i] /\ mPending[i] \in Nat
      /\ mPending'[Len(mPending) + 1] = issued + 1
  <2>1. mPending \in Seq(Cmd) /\ mPending' = Append(mPending, issued + 1)
    BY <1>1, <1>2, SyncAssumption DEF PushPending, TypeOK, RunnerTypeOK
  <2>2. /\ DOMAIN mPending = 1..Len(mPending) /\ Len(mPending) \in Nat
        /\ \A i \in 1..Len(mPending) : mPending[i] \in Nat
    BY Numbers DEF Numeral
  <2> QED
    BY <2>1, <2>2
<1>4. ListShape'
  BY <1>1 DEF Order, ListShape, listVars
<1>5. AllIssued'
  <2>1. UNCHANGED <<listed, delivered, saved>> /\ AllIssued
    BY <1>1 DEF Order, listVars, guestVars, snapVars
  <2>2. /\ \A c \in listed : c <= issued'
        /\ \A c \in saved.listed : c <= issued'
    BY <1>2, <2>1, Numbers DEF AllIssued
  <2>3. /\ \A i \in DOMAIN delivered : delivered[i] <= issued'
        /\ \A i \in DOMAIN saved.delivered : saved.delivered[i] <= issued'
        /\ \A i \in DOMAIN saved.ops : saved.ops[i] <= issued'
    BY <1>2, <2>1, Numbers DEF AllIssued, Numeral
  <2>4. \A i \in DOMAIN mPending' : mPending'[i] <= issued'
    BY <1>2, <1>3, <2>1, Numbers DEF AllIssued
  <2> QED
    BY <2>1, <2>2, <2>3, <2>4 DEF AllIssued
<1>6. LoadOrder'
  <2>1. UNCHANGED <<listed, delivered, saved, snap, loadPos>> /\ AllIssued /\ LoadOrder
    BY <1>1 DEF Order, listVars, guestVars, snapVars
  <2>2. \A i \in DOMAIN saved.ops : saved.ops[i] \in Nat /\ saved.ops[i] <= issued
    BY <2>1, Numbers DEF Numeral, AllIssued
  <2>3. issued \in Nat
    BY Numbers
  <2>4. \A i \in DOMAIN saved.ops : saved.ops[i] < issued + 1
    BY <2>2, <2>3
  <2> QED
    BY <1>3, <2>1, <2>4 DEF LoadOrder
<1>7. SavedOrder'
  BY <1>1 DEF Order, SavedOrder, listVars, guestVars, snapVars
<1>8. CommandsInOrder'
  <2>1. UNCHANGED <<listed, delivered>> /\ AllIssued /\ CommandsInOrder
    BY <1>1 DEF Order, listVars, guestVars
  <2>2. \A i, j \in DOMAIN mPending' : i < j => mPending'[i] < mPending'[j]
    <3>1. \A i, j \in DOMAIN mPending : i < j => mPending[i] < mPending[j]
      BY <1>2, <2>1, AllWaiting DEF CommandsInOrder
    <3>2. issued \in Nat
      BY Numbers
    <3>3. \A i \in DOMAIN mPending : mPending[i] < issued + 1
      BY <1>3, <2>1, <3>2 DEF AllIssued
    <3> QED
      BY <1>3, <3>1, <3>3
  <2>3. \A i \in DOMAIN mPending' : \A c \in listed : c < mPending'[i]
    <3>1. \A i \in DOMAIN mPending : \A c \in listed : c < mPending[i]
      BY <1>2, <1>3, <2>1 DEF CommandsInOrder
    <3>2. \A c \in listed : c < issued + 1
      BY <2>1, Numbers DEF AllIssued
    <3> QED
      BY <1>3, <3>1, <3>2
  <2>4. \A i \in DOMAIN mPending' : \A j \in DOMAIN delivered : delivered[j] < mPending'[i]
    <3>1. \A i \in DOMAIN mPending : \A j \in DOMAIN delivered : delivered[j] < mPending[i]
      BY <1>2, <1>3, <2>1 DEF CommandsInOrder
    <3>2. \A j \in DOMAIN delivered : delivered[j] < issued + 1
      BY <2>1, Numbers DEF AllIssued, Numeral
    <3> QED
      BY <1>3, <3>1, <3>2
  <2> QED
    BY <1>2, <2>1, <2>2, <2>3, <2>4 DEF CommandsInOrder
<1> QED
  BY <1>4, <1>5, <1>6, <1>7, <1>8 DEF Order

(* onTimerEvent pushes the command at mNext, which is above the list and   *)
(* below the rest of the queue.                                            *)
LEMMA PerformKeepsOrder ==
    ASSUME TypeOK, Control, Order, timerPerform
    PROVE  Order'
<1> DEFINE c == mPending[mNext]
<1>1. /\ mNext \in 1..Len(mPending) /\ mNext' = mNext + 1 /\ mPending' = mPending
      /\ goldfish_sync_send_command(c)
      /\ UNCHANGED <<guestVars, issued, snapVars>>
  BY DEF timerPerform, TimerPerform, serviceVars
<1>2. c \in Cmd /\ c \in Nat /\ DOMAIN mPending = 1..Len(mPending)
  BY <1>1, SyncAssumption DEF TypeOK, RunnerTypeOK, Cmd
<1>3. \A d \in listed : d < c
  <2>1. mNext \in DOMAIN mPending /\ mNext <= mNext
    BY <1>1, <1>2
  <2> QED
    BY <2>1 DEF Order, CommandsInOrder
<1>4. listed' = listed \cup {c}
  BY <1>1 DEF goldfish_sync_send_command
<1>5. ListShape'
  BY <1>1, <1>2, <1>3, SendKeepsShape DEF Order
<1>6. AllIssued'
  BY <1>1, <1>2, <1>4, Numbers DEF Numeral, Order, AllIssued, guestVars, snapVars
<1>7. snap = "running" /\ snap' = "running"
  <2>1. mNext # 0
    BY <1>1
  <2> QED
    BY <1>1, <2>1 DEF Control, snapVars
<1>8. LoadOrder' /\ SavedOrder'
  BY <1>1, <1>7 DEF Order, LoadOrder, SavedOrder, snapVars
<1>9. CommandsInOrder'
  <2>1. delivered' = delivered
    BY <1>1 DEF guestVars
  <2>2. \A i \in DOMAIN delivered : delivered[i] < c
    BY <1>1, <1>2 DEF Order, CommandsInOrder
  <2>3. \A i \in DOMAIN mPending : mNext + 1 <= i => mNext <= i /\ c < mPending[i]
    <3>1. mNext \in Nat /\ Len(mPending) \in Nat
      BY Numbers DEF Numeral
    <3>2. \A i \in DOMAIN mPending : mNext + 1 <= i => mNext < i /\ mNext <= mNext /\ mNext <= i
      BY <1>2, <3>1
    <3> QED
      BY <1>1, <1>2, <3>2 DEF Order, CommandsInOrder
  <2> QED
    BY <1>1, <1>4, <2>1, <2>2, <2>3 DEF Order, CommandsInOrder
<1> QED
  BY <1>5, <1>6, <1>8, <1>9 DEF Order

(* The guest reads the smallest command of the list.                       *)
LEMMA ReadKeepsOrder ==
    ASSUME TypeOK, Control, Order, goldfish_sync_read
    PROVE  Order'
<1>1. UNCHANGED <<mPending, mNext, issued, snapVars>> /\ snap = "running" /\ mNext = 0
  BY ThreadAssumption DEF goldfish_sync_read, runnerVars, serviceVars, GuestRuns, Control
<1>2. CASE first_pending_cmd = NULL
  <2>1. UNCHANGED <<first_pending_cmd, pending, next, listed, delivered>>
    BY <1>2 DEF goldfish_sync_read, guestVars
  <2> QED
    BY <1>1, <2>1 DEF Order, ListShape, CommandsInOrder, SavedOrder, LoadOrder, AllIssued,
                      snapVars
<1>3. CASE first_pending_cmd # NULL
  <2> DEFINE c == first_pending_cmd
  <2>1. goldfish_sync_pop_first_cmd /\ delivered' = Append(delivered, c)
    BY <1>3 DEF goldfish_sync_read
  <2>2. ListShape' /\ c \in listed /\ \A d \in listed' : c < d
    BY <1>3, <2>1, PopKeepsShape DEF Order
  <2>3. listed' \subseteq listed /\ c \in Nat
    BY <2>1, <2>2, Numbers DEF Numeral, goldfish_sync_pop_first_cmd
  <2>4. /\ DOMAIN delivered' = 1..(Len(delivered) + 1)
        /\ DOMAIN delivered = 1..Len(delivered) /\ Len(delivered) \in Nat
        /\ \A i \in 1..Len(delivered) : delivered'[i] = delivered[i] /\ delivered[i] \in Nat
        /\ delivered'[Len(delivered) + 1] = c
    <3>1. delivered \in Seq(Cmd)
      BY DEF TypeOK
    <3>2. /\ DOMAIN delivered = 1..Len(delivered) /\ Len(delivered) \in Nat
          /\ \A i \in 1..Len(delivered) : delivered[i] \in Nat
      BY Numbers DEF Numeral
    <3> QED
      BY <2>1, <3>1, <3>2
  <2>5. AllIssued'
    <3>1. AllIssued /\ UNCHANGED <<mPending, issued, saved>> /\ c <= issued
      BY <1>1, <2>2 DEF Order, AllIssued, snapVars
    <3>2. \A i \in DOMAIN delivered' : delivered'[i] <= issued
      BY <2>4, <3>1 DEF AllIssued
    <3> QED
      BY <2>3, <3>1, <3>2 DEF AllIssued
  <2>6. LoadOrder' /\ SavedOrder'
    BY <1>1 DEF Order, LoadOrder, SavedOrder, snapVars
  <2>7. CommandsInOrder'
    <3>1. \A i, j \in DOMAIN delivered' : i < j => delivered'[i] < delivered'[j]
      <4>1. /\ \A i, j \in DOMAIN delivered : i < j => delivered[i] < delivered[j]
            /\ \A i \in DOMAIN delivered : delivered[i] < c
        BY <2>2 DEF Order, CommandsInOrder
      <4> QED
        BY <2>4, <4>1
    <3>2. \A i \in DOMAIN delivered' : \A d \in listed' : delivered'[i] < d
      <4>1. \A i \in DOMAIN delivered : \A d \in listed' : delivered[i] < d
        BY <2>3 DEF Order, CommandsInOrder
      <4> QED
        BY <2>2, <2>4, <4>1
    <3>3. \A i \in DOMAIN mPending : /\ \A d \in listed' : d < mPending[i]
                                     /\ \A j \in DOMAIN delivered' : delivered'[j] < mPending[i]
      <4>1. \A i \in DOMAIN mPending : mNext <= i
        BY <1>1, AllWaiting
      <4>2. \A i \in DOMAIN mPending : /\ \A d \in listed : d < mPending[i]
                                       /\ \A j \in DOMAIN delivered : delivered[j] < mPending[i]
        BY <4>1 DEF Order, CommandsInOrder
      <4> QED
        BY <2>2, <2>3, <2>4, <4>2
    <3> QED
      BY <1>1, <3>1, <3>2, <3>3 DEF Order, CommandsInOrder
  <2> QED
    BY <2>2, <2>5, <2>6, <2>7 DEF Order
<1> QED
  BY <1>2, <1>3

(* Saving copies the list, the guest's state and then the queue, none of   *)
(* which but the queue can change while the main loop holds the VM lock.   *)
LEMMA SaveKeepsOrder ==
    ASSUME TypeOK, Control, Order,
           goldfish_sync_save \/ saveNumPending \/ saveForEachPending
    PROVE  Order'
<1>1. UNCHANGED <<listVars, delivered, mPending, mNext, issued>>
      /\ snap' # "loading"
  BY DEF goldfish_sync_save, LockVm, saveNumPending, saveForEachPending, UnlockVm,
         runnerVars, guestVars, serviceVars
<1>2. ListShape' /\ CommandsInOrder' /\ LoadOrder'
  BY <1>1 DEF Order, ListShape, CommandsInOrder, LoadOrder, listVars
<1>3. CASE goldfish_sync_save
  <2>1. saved' = [pending |-> pending, next |-> next, listed |-> listed,
                  delivered |-> delivered, ack |-> ack, count |-> 0, ops |-> <<>>]
    BY <1>3 DEF goldfish_sync_save
  <2>2. /\ saved'.pending = pending /\ saved'.next = next /\ saved'.listed = listed
        /\ saved'.delivered = delivered /\ DOMAIN saved'.ops = {}
    BY <2>1
  <2>3. SavedOrder'
    BY <1>1, <2>2 DEF Order, SavedOrder, ListShape, CommandsInOrder, listVars
  <2>4. AllIssued'
    BY <1>1, <2>2 DEF Order, AllIssued, listVars
  <2> QED
    BY <1>2, <2>3, <2>4 DEF Order
<1>4. CASE saveNumPending
  <2>1. /\ saved'.pending = saved.pending /\ saved'.next = saved.next
        /\ saved'.listed = saved.listed /\ saved'.delivered = saved.delivered
        /\ saved'.ops = saved.ops /\ snap = "saveCount"
    BY <1>4 DEF saveNumPending, TypeOK
  <2> QED
    BY <1>1, <1>2, <2>1 DEF Order, SavedOrder, AllIssued, listVars
<1>5. CASE saveForEachPending
  <2>1. /\ saved'.pending = saved.pending /\ saved'.next = saved.next
        /\ saved'.listed = saved.listed /\ saved'.delivered = saved.delivered
        /\ saved'.ops = mPending /\ snap = "saveOps" /\ snap' = "running"
    BY <1>5 DEF saveForEachPending, TypeOK
  <2>2. mNext = 0
    BY <2>1, Numbers DEF Control
  <2>3. \A i \in DOMAIN mPending : mNext <= i
    BY <2>2, AllWaiting
  <2>4. saved.listed = listed /\ saved.delivered = delivered
    BY <2>1 DEF Order, SavedOrder
  <2>5. SavedOrder'
    BY <2>1, <2>3, <2>4 DEF Order, SavedOrder, CommandsInOrder
  <2>6. AllIssued'
    BY <1>1, <2>1 DEF Order, AllIssued, listVars
  <2> QED
    BY <1>2, <2>5, <2>6 DEF Order
<1> QED
  BY <1>3, <1>4, <1>5

(* Loading restores a list of at most one command, saved.pending.          *)
LEMMA LoadKeepsOrder ==
    ASSUME TypeOK, Control, Order, goldfish_sync_load
    PROVE  Order'
<1>1. /\ UNCHANGED <<saved, issued, mNext>> /\ mPending' = <<>> /\ DOMAIN mPending' = {}
      /\ snap' = "loading" /\ pending' = saved.pending
      /\ first_pending_cmd' = saved.pending /\ next' = saved.next
      /\ delivered' = saved.delivered
      /\ listed' = {c \in saved.listed : saved.pending # NULL /\ c >= saved.pending}
  BY DEF goldfish_sync_load, serviceVars
<1>2. SavedOrder' /\ snap' \notin {"saveCount", "saveOps"}
  BY <1>1 DEF Order, SavedOrder
<1>3. CASE saved.pending = NULL
  <2>1. listed' = {} /\ saved.listed = {}
    BY <1>1, <1>3 DEF Order, SavedOrder
  <2>2. ListShape'
    BY <1>1, <1>3, <2>1 DEF ListShape
  <2>3. LoadOrder'
    BY <1>1, <2>1 DEF Order, SavedOrder, LoadOrder
  <2>4. CommandsInOrder'
    BY <1>1, <2>1 DEF Order, SavedOrder, CommandsInOrder
  <2>5. AllIssued'
    BY <1>1, <2>1 DEF Order, AllIssued
  <2> QED
    BY <1>2, <2>2, <2>3, <2>4, <2>5 DEF Order
<1>4. CASE saved.pending # NULL
  <2>1. saved.pending \in saved.listed /\ \A c \in saved.listed : c <= saved.pending
    BY <1>4 DEF Order, SavedOrder
  <2>2. listed' = {saved.pending} /\ saved.pending \in Nat
    <3>1. saved.listed \subseteq Nat
      BY Numbers
    <3>2. listed' = {c \in saved.listed : c >= saved.pending}
      BY <1>1, <1>4
    <3> QED
      BY <2>1, <3>1, <3>2
  <2>3. ListShape'
    BY <1>1, <1>4, <2>2 DEF Order, SavedOrder, ListShape
  <2>4. LoadOrder'
    BY <1>1, <2>1, <2>2 DEF Order, SavedOrder, LoadOrder
  <2>5. CommandsInOrder'
    BY <1>1, <2>1, <2>2 DEF Order, SavedOrder, CommandsInOrder
  <2>6. AllIssued'
    BY <1>1, <2>1, <2>2 DEF Order, AllIssued
  <2> QED
    BY <1>2, <2>3, <2>4, <2>5, <2>6 DEF Order
<1> QED
  BY <1>3, <1>4

(* GoldfishSyncCommandQueue::load pushes the saved operations behind it.   *)
LEMMA RequeueKeepsOrder ==
    ASSUME TypeOK, Control, Order, loadQueueOperation
    PROVE  Order'
<1> DEFINE c == saved.ops[loadPos]
<1>1. /\ UNCHANGED <<mPending, mNext, issued, saved, snap, delivered>>
      /\ goldfish_sync_send_command(c)
      /\ snap = "loading" /\ loadPos \in 1..saved.count /\ loadPos' = loadPos + 1
  BY ThreadAssumption
  DEF loadQueueOperation, queueDeviceOperation, CanPerform, Control, HostThread,
      runnerVars, guestVars, serviceVars
<1>2. loadPos \in DOMAIN saved.ops /\ c \in Cmd /\ c \in Nat /\ mNext = 0
  <2>1. /\ loadPos \in Nat /\ saved.count \in Nat /\ Len(saved.ops) \in Nat
        /\ DOMAIN saved.ops = 1..Len(saved.ops)
        /\ \A i \in DOMAIN saved.ops : saved.ops[i] \in Nat
    BY Numbers DEF Numeral
  <2>2. saved.count <= Len(saved.ops)
    <3>1. snap = "loading"
      BY <1>1
    <3> QED
      BY <3>1 DEF Control
  <2>3. loadPos \in DOMAIN saved.ops
    BY <1>1, <2>1, <2>2
  <2>4. saved.ops \in Seq(Cmd)
    BY DEF TypeOK
  <2>5. mNext = 0
    BY <1>1 DEF Control
  <2> QED
    BY <2>1, <2>3, <2>4, <2>5
<1>3. \A d \in listed : d < c
  <2>1. loadPos <= loadPos
    BY <1>1
  <2> QED
    BY <1>1, <1>2, <2>1 DEF Order, LoadOrder
<1>4. listed' = listed \cup {c}
  BY <1>1 DEF goldfish_sync_send_command
<1>5. ListShape'
  BY <1>1, <1>2, <1>3, SendKeepsShape DEF Order
<1>6. AllIssued' /\ SavedOrder'
  BY <1>1, <1>2, <1>4 DEF Order, AllIssued, SavedOrder
<1>7. LoadOrder'
  <2>1. \A i \in DOMAIN saved.ops : loadPos + 1 <= i => loadPos <= i /\ c < saved.ops[i]
    <3>1. /\ loadPos \in Nat /\ Len(saved.ops) \in Nat
          /\ DOMAIN saved.ops = 1..Len(saved.ops)
      BY Numbers DEF Numeral
    <3>2. \A i \in DOMAIN saved.ops : loadPos + 1 <= i => loadPos <= i /\ loadPos < i
      BY <3>1
    <3>3. \A i \in DOMAIN saved.ops : loadPos < i => c < saved.ops[i]
      BY <1>2 DEF Order, SavedOrder
    <3> QED
      BY <3>2, <3>3
  <2> QED
    BY <1>1, <1>4, <2>1 DEF Order, LoadOrder
<1>8. CommandsInOrder'
  <2>1. \A i \in DOMAIN delivered : delivered[i] < c
    <3>1. loadPos <= loadPos
      BY <1>1
    <3> QED
      BY <1>1, <1>2, <3>1 DEF Order, LoadOrder
  <2>2. \A i \in DOMAIN mPending : c < mPending[i]
    BY <1>1, <1>2 DEF Order, LoadOrder
  <2> QED
    BY <1>1, <1>4, <2>1, <2>2 DEF Order, CommandsInOrder
<1> QED
  BY <1>5, <1>6, <1>7, <1>8 DEF Order

LEMMA StepOrder == TypeOK /\ Control /\ Order /\ [Next]_vars => Order'
<1> SUFFICES ASSUME TypeOK, Control, Order, [Next]_vars PROVE Order'
  OBVIOUS
<1>1. ASSUME UNCHANGED <<first_pending_cmd, pending, next, listed, delivered, mPending,
                         mNext, issued, saved>>,
             \/ snap' = snap /\ loadPos' = loadPos
             \/ snap' \notin {"saveCount", "saveOps", "loading"}
      PROVE  Order'
  BY <1>1 DEF Order, ListShape, CommandsInOrder, SavedOrder, LoadOrder, AllIssued
<1>2. CASE \E t \in HostThread : startTimer(t) \/ allocWait(t) \/ freeWait(t)
  BY <1>1, <1>2 DEF startTimer, StartTimer, allocWait, freeWait, runnerVars, listVars,
                    guestVars, serviceVars, snapVars
<1>3. CASE timerFires
  <2>1. /\ mNext = 0 /\ mNext' = 1
        /\ UNCHANGED <<mPending, listVars, guestVars, serviceVars, snapVars>>
    BY <1>3, ThreadAssumption DEF timerFires, TimerFires, Control
  <2>2. \A i \in DOMAIN mPending : mNext <= i
    BY <2>1, AllWaiting
  <2>3. CommandsInOrder'
    BY <2>1, <2>2 DEF Order, CommandsInOrder, listVars, guestVars
  <2> QED
    BY <2>1, <2>3 DEF Order, ListShape, SavedOrder, LoadOrder, AllIssued, listVars,
                      guestVars, serviceVars, snapVars
<1>4. CASE timerDone
  <2>1. /\ mPending' = <<>> /\ DOMAIN mPending' = {}
        /\ UNCHANGED <<listVars, guestVars, serviceVars, snapVars>>
    BY <1>4 DEF timerDone, TimerDone
  <2> QED
    BY <2>1 DEF Order, ListShape, CommandsInOrder, SavedOrder, LoadOrder, AllIssued,
                listVars, guestVars, serviceVars, snapVars
<1>5. CASE SyncRegInit
  <2>1. /\ first_pending_cmd' = NULL /\ pending' = NULL /\ listed' = {} /\ snap = "running"
        /\ delivered' = <<>> /\ DOMAIN delivered' = {}
        /\ UNCHANGED <<snap, saved, mPending, mNext, issued>>
    BY <1>5 DEF SyncRegInit, GuestRuns, goldfish_sync_reset_device, runnerVars, serviceVars
  <2> QED
    BY <2>1 DEF Order, ListShape, CommandsInOrder, SavedOrder, LoadOrder, AllIssued
<1>6. CASE goldfish_sync_receive_hostcmd_result
  BY <1>1, <1>6 DEF goldfish_sync_receive_hostcmd_result, runnerVars, listVars, snapVars
<1>7. CASE loadRaiseIrq \/ resumeVm
  BY <1>1, <1>7 DEF loadRaiseIrq, resumeVm, UnlockVm, runnerVars, listVars, guestVars,
                    serviceVars
<1>8. CASE UNCHANGED vars
  BY <1>1, <1>8 DEF vars, runnerVars, listVars, guestVars, serviceVars, snapVars
<1> QED
  BY <1>2, <1>3, <1>4, <1>5, <1>6, <1>7, <1>8, SignalKeepsOrder, PerformKeepsOrder,
     ReadKeepsOrder, SaveKeepsOrder, LoadKeepsOrder, RequeueKeepsOrder DEF Next

Inv == TypeOK /\ Control /\ Order /\ Wakeups

LEMMA Invariance == Spec => []Inv
<1>1. Init => Inv
  BY InitTypeOK, InitControl, InitOrder
  DEF Inv, Wakeups, Init, RunnerInit, NoStrandedOperation, TimerHoldsVmLock,
      PendingRaisesIrq
<1>2. Inv /\ [Next]_vars => Inv'
  BY StepTypeOK, StepControl, StepOrder, StepWakeups DEF Inv, Order
<1> QED
  BY <1>1, <1>2, PTL DEF Spec

(* The list of pending commands is always well formed: its two ends agree  *)
(* and its links visit the commands in order.                              *)
THEOREM ListAlwaysShaped == Spec => []ListShape
<1>1. Inv => ListShape
  BY DEF Inv, Order
<1> QED
  BY <1>1, Invariance, PTL

(* Commands reach the guest in the order of their issue, none twice.       *)
THEOREM AlwaysInOrder == Spec => []CommandsInOrder
<1>1. Inv => CommandsInOrder
  BY DEF Inv, Order
<1> QED
  BY <1>1, Invariance, PTL

(* The guest is interrupted while commands are pending.                    *)
THEOREM AlwaysInterrupted == Spec => []PendingRaisesIrq
<1>1. Inv => PendingRaisesIrq
  BY DEF Inv, Wakeups
<1> QED
  BY <1>1, Invariance, PTL

(* The runner never strands an operation, and its timer callback runs only *)
(* under the VM lock.                                                      *)
THEOREM NeverStranded == Spec => [](NoStrandedOperation /\ TimerHoldsVmLock)
<1>1. Inv => NoStrandedOperation /\ TimerHoldsVmLock
  BY DEF Inv, Wakeups
<1> QED
  BY <1>1, Invariance, PTL
=============================================================================
