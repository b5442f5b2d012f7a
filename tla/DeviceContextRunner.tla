------------------------ MODULE DeviceContextRunner ------------------------
(***************************************************************************)
(* The template class DeviceContextRunner<T>: operations on a virtual      *)
(* device may only run while the VM lock (the big QEMU lock) is held.  A   *)
(* thread that holds it performs the operation at once; any other thread   *)
(* appends it to mPending and arms a timer, and the main loop performs the *)
(* pending operations under the lock.                                      *)
(*                                                                         *)
(* The virtual method performDeviceOperation is the step of the device in  *)
(* the modules that extend this one (the pipe device, the sync device):    *)
(* they conjoin it to TimerPerform and pass it to queueDeviceOperation.    *)
(***************************************************************************)
EXTENDS Naturals, Sequences

CONSTANTS
    Thread,     \* host threads, the main loop and the vCPU included
    MainLoop,   \* the thread that runs timers
    NoThread,   \* nobody holds the VM lock
    Op          \* operations on the device

ASSUME ThreadAssumption == MainLoop \in Thread /\ NoThread \notin Thread

VARIABLES
    vmLock,           \* owner of the VM lock
    mContextRunMode,
    mPending,
    mTimer,           \* mTimer is armed
    mNext,            \* position of onTimerEvent's loop in mPending; 0 outside it
    arming            \* threads between push_back and startAbsolute

runnerVars == <<vmLock, mContextRunMode, mPending, mTimer, mNext, arming>>

RunnerTypeOK ==
    /\ vmLock \in Thread \cup {NoThread}
    /\ mContextRunMode \in {"DeferIfNotLocked", "DeferAlways"}
    /\ mPending \in Seq(Op)
    /\ mTimer \in BOOLEAN
    /\ mNext \in Nat
    /\ arming \subseteq Thread

RunnerInit ==
    /\ vmLock = NoThread
    /\ mContextRunMode = "DeferIfNotLocked"
    /\ mPending = <<>>
    /\ mTimer = FALSE
    /\ mNext = 0
    /\ arming = {}

LockVm(t) ==
    /\ vmLock = NoThread
    /\ vmLock' = t
    /\ UNCHANGED <<mContextRunMode, mPending, mTimer, mNext, arming>>

UnlockVm(t) ==
    /\ vmLock = t
    /\ vmLock' = NoThread
    /\ UNCHANGED <<mContextRunMode, mPending, mTimer, mNext, arming>>

(* mLock is held by onTimerEvent throughout its loop, and otherwise only   *)
(* for the length of one of the steps below.                               *)
LockFree == mNext = 0

CanPerform(t) == mContextRunMode = "DeferIfNotLocked" /\ vmLock = t

(* Mutant: queueDeviceOperation leaves the timer as it is.                 *)
PushPending_NoTimer(t, op) ==
    /\ LockFree
    /\ mPending' = Append(mPending, op)
    /\ UNCHANGED <<vmLock, mContextRunMode, mTimer, mNext, arming>>

(* push_back under mLock; the timer is started after mLock is released.    *)
PushPending(t, op) ==
    /\ LockFree
    /\ mPending' = Append(mPending, op)
    /\ arming' = arming \cup {t}
    /\ UNCHANGED <<vmLock, mContextRunMode, mTimer, mNext>>

(* perform is the device's step for op, skip the device standing still.    *)
queueDeviceOperation(t, op, perform, skip) ==
    /\ t \notin arming
    /\ \/ CanPerform(t) /\ perform /\ UNCHANGED runnerVars
       \/ ~CanPerform(t) /\ PushPending(t, op) /\ skip

StartTimer(t) ==
    /\ t \in arming
    /\ arming' = arming \ {t}
    /\ mTimer' = TRUE
    /\ UNCHANGED <<vmLock, mContextRunMode, mPending, mNext>>

(* Mutant: onTimerEvent runs without the VM lock.                          *)
TimerFires_Unlocked ==
    /\ mTimer
    /\ vmLock = NoThread
    /\ mTimer' = FALSE
    /\ mNext' = 1
    /\ UNCHANGED <<vmLock, mContextRunMode, mPending, arming>>

(* The main loop takes the VM lock, disarms the timer and calls            *)
(* onTimerEvent, whose loop is one TimerPerform step per pending operation.*)
TimerFires ==
    /\ mTimer
    /\ vmLock = NoThread
    /\ vmLock' = MainLoop
    /\ mTimer' = FALSE
    /\ mNext' = 1
    /\ UNCHANGED <<mContextRunMode, mPending, arming>>

TimerPerform ==
    /\ mNext \in 1..Len(mPending)
    /\ mNext' = mNext + 1
    /\ UNCHANGED <<vmLock, mContextRunMode, mPending, mTimer, arming>>

TimerDone ==
    /\ mNext = Len(mPending) + 1
    /\ mPending' = <<>>
    /\ mNext' = 0
    /\ vmLock' = NoThread
    /\ UNCHANGED <<mContextRunMode, mTimer, arming>>

removeAllPendingOperations(ops) ==
    /\ LockFree
    /\ mPending' = SelectSeq(mPending, LAMBDA op : op \notin ops)
    /\ UNCHANGED <<vmLock, mContextRunMode, mTimer, mNext, arming>>

(* No operation is stranded: while an operation waits in mPending, the     *)
(* timer is armed, or onTimerEvent is about to reach it, or the thread     *)
(* that queued it has still to start the timer.  It is the reason why      *)
(* queueDeviceOperation may start the timer outside mLock, but only after  *)
(* push_back.                                                              *)
NoStrandedOperation ==
    mPending # <<>> => mTimer \/ mNext # 0 \/ arming # {}

(* onTimerEvent performs operations only while the main loop holds the VM  *)
(* lock: the promise of the class ("the operation is always performed in   *)
(* such a thread").                                                        *)
TimerHoldsVmLock == mNext # 0 => vmLock = MainLoop
=============================================================================
