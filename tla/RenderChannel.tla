---------------------------- MODULE RenderChannel ----------------------------
(***************************************************************************)
(* One connection of a guest process to the host renderer: EmuglPipe (the  *)
(* pipe service, OpenglEsPipe.cpp), RenderChannelImpl with its two         *)
(* BufferQueues, RenderThread, and the snapshot protocol that RendererImpl *)
(* runs over them.                                                         *)
(*                                                                         *)
(* Three threads act.  The guest's vCPU executes pipe commands and holds   *)
(* the VM lock from the beginning to the end of each, also while it waits  *)
(* in writeToHost.  The main loop saves and loads snapshots and holds the  *)
(* VM lock too.  The render thread holds only the channel's lock and its   *)
(* own.  A section that runs under the channel's lock is one step; a       *)
(* thread that waits on a condition variable is in the queue's mCanPush or *)
(* mCanPop.                                                                *)
(*                                                                         *)
(* Buffers are numbered in the order the guest sends them.  The first is   *)
(* the |flags| word that opens the stream, each of the others is a command *)
(* whose reply carries its number.                                         *)
(***************************************************************************)
EXTENDS BufferQueue, FiniteSets

CONSTANTS
    GuestToHostCapacity,    \* kGuestToHostQueueCapacity
    HostToGuestCapacity,    \* kHostToGuestQueueCapacity
    MaxSend,                \* bound: buffers the guest sends
    MaxSave,                \* bound: snapshots saved
    MaxLoad                 \* bound: snapshots loaded

ASSUME CapacityAssumption ==
    /\ GuestToHostCapacity \in Nat \ {0}
    /\ HostToGuestCapacity \in Nat \ {0}

VARIABLES
    mFromGuest, mToGuest,   \* the two BufferQueues of the channel
    mState, mWantedEvents,  \* sets of State flags
    mEventCallback,         \* TRUE: the pipe's, FALSE: the empty one of stop()
    mIsWorking,             \* EmuglPipe::mIsWorking
    guest,                  \* [pc, want]: what the vCPU is doing
    asked,                  \* events the guest sleeps for, not yet signalled
    sent, received,         \* buffers sent, and the replies read, by the guest
    thread,                 \* [pc, inLoop, decoded]: the render thread
    snapshotState,          \* RenderThread::mState
    mFinished,              \* RenderThread::mFinished
    main,                   \* what the main loop is doing
    saved,                  \* the last snapshot
    saves, loads,           \* counters for the bounds
    torn                    \* history: a snapshot that was not Complete was loaded

channelVars == <<mFromGuest, mToGuest, mState, mWantedEvents, mEventCallback>>
guestVars == <<mIsWorking, guest, sent, received>>
threadVars == <<thread, snapshotState, mFinished>>
mainVars == <<main, saved, saves, loads, torn>>
vars == <<channelVars, guestVars, asked, threadVars, mainVars>>

Event == {"CanRead", "CanWrite"}
State == Event \cup {"Stopped"}

(* RenderThread::SnapshotState *)
SnapshotState == {"Empty", "StartSaving", "StartLoading", "InProgress", "Finished"}

NoSnapshot == [complete |-> FALSE]

(***************************************************************************)
(* RenderChannelImpl                                                       *)
(***************************************************************************)

(* What updateStateLocked computes from the two queues.                    *)
StateOf(from, to) ==
    (IF canPopLocked(to) THEN {"CanRead"} ELSE {})
        \cup (IF canPushLocked(from) THEN {"CanWrite"} ELSE {})
        \cup (IF to.mClosed THEN {"Stopped"} ELSE {})

(* EmuglPipe::onChannelHostEvent and signalState: the events the guest is  *)
(* woken for.  Closing the pipe wakes every sleeper.                       *)
onChannelHostEvent(available) ==
    IF ~mIsWorking THEN {}
    ELSE IF "Stopped" \in available THEN Event
    ELSE available

(* When nothing wanted is available, wanted \ state is just wanted.        *)
notifyStateChangeLocked(state, wanted) ==
    /\ mWantedEvents' = wanted \ state
    /\ asked' = asked \ (IF mEventCallback
                         THEN onChannelHostEvent(state \cap (wanted \cup {"Stopped"}))
                         ELSE {})

updateStateLocked == mState' = StateOf(mFromGuest', mToGuest')

(* The tail of writeToHost, writeToGuest and readFromGuest.                *)
UpdateAndNotify ==
    /\ updateStateLocked
    /\ notifyStateChangeLocked(mState', mWantedEvents)
    /\ UNCHANGED mEventCallback

(* stop: mState and mWantedEvents stay as they are.                        *)
stop ==
    /\ mFromGuest' = closeLocked(mFromGuest)
    /\ mToGuest' = closeLocked(mToGuest)
    /\ mEventCallback' = FALSE
    /\ UNCHANGED <<mState, mWantedEvents>>

(***************************************************************************)
(* The guest's pipe commands.  The vCPU needs the VM lock for each.        *)
(***************************************************************************)

VmLockFree == main = "idle"

(* onGuestSend up to the push of writeToHost, or its wait for room.  A     *)
(* stopped channel makes the call fail; nothing is sent then.              *)
PushFromGuest ==
    LET push == pushLocked(mFromGuest, sent + 1) IN
    IF PushMustWait(mFromGuest) /\ ~mFromGuest.mClosed
    THEN /\ guest' = [guest EXCEPT !.pc = "send"]
         /\ mFromGuest' = [mFromGuest EXCEPT !.mCanPush = @ \cup {"guest"}]
         /\ UNCHANGED <<mToGuest, mState, mWantedEvents, mEventCallback, asked, sent>>
    ELSE /\ mFromGuest' = push.queue
         /\ UNCHANGED mToGuest
         /\ UpdateAndNotify
         /\ sent' = IF push.result = "Ok" THEN sent + 1 ELSE sent
         /\ guest' = [guest EXCEPT !.pc = "run"]

onGuestSend ==
    /\ VmLockFree
    /\ guest.pc = "run" /\ mIsWorking
    /\ sent < MaxSend
    /\ PushFromGuest
    /\ UNCHANGED <<mIsWorking, received, threadVars, mainVars>>

(* The vCPU was woken on mCanPush and tests the loop's condition again.    *)
SendContinues ==
    /\ guest.pc = "send" /\ "guest" \notin mFromGuest.mCanPush
    /\ PushFromGuest
    /\ UNCHANGED <<mIsWorking, received, threadVars, mainVars>>

(* Mutant: tryRead leaves mState as it was.                                *)
onGuestRecv_StaleState ==
    LET pop == tryPopLocked(mToGuest) IN
    /\ VmLockFree
    /\ guest.pc = "run" /\ mIsWorking
    /\ mToGuest' = pop.queue
    /\ received' = IF pop.result = "Ok" THEN Append(received, pop.buffer) ELSE received
    /\ UNCHANGED <<mFromGuest, mState, mWantedEvents, mEventCallback, mIsWorking, guest, asked, sent,
                   threadVars, mainVars>>

(* onGuestRecv: tryRead updates the state and notifies nobody.             *)
onGuestRecv ==
    LET pop == tryPopLocked(mToGuest) IN
    /\ VmLockFree
    /\ guest.pc = "run" /\ mIsWorking
    /\ mToGuest' = pop.queue
    /\ UNCHANGED mFromGuest
    /\ updateStateLocked
    /\ received' = IF pop.result = "Ok" THEN Append(received, pop.buffer) ELSE received
    /\ UNCHANGED <<mWantedEvents, mEventCallback, mIsWorking, guest, asked, sent, threadVars, mainVars>>

(* onGuestWantWakeOn reads the state in one locked section, signals what   *)
(* is available, and asks for the rest in another.                         *)
onGuestWantWakeOn ==
    /\ VmLockFree
    /\ guest.pc = "run" /\ mIsWorking
    /\ \E wanted \in (SUBSET Event) \ {{}} :
        /\ asked' = (asked \cup wanted) \ (mState \cap wanted)
        /\ guest' = [pc |-> IF wanted \ mState = {} THEN "run" ELSE "want", want |-> wanted \ mState]
    /\ UNCHANGED <<channelVars, mIsWorking, sent, received, threadVars, mainVars>>

(* Mutant: setWantedEvents does not call the callback.                     *)
setWantedEvents_Silent ==
    /\ guest.pc = "want"
    /\ mWantedEvents' = mWantedEvents \cup guest.want
    /\ guest' = [pc |-> "run", want |-> {}]
    /\ UNCHANGED <<mFromGuest, mToGuest, mState, mEventCallback, mIsWorking, asked, sent, received,
                   threadVars, mainVars>>

setWantedEvents ==
    /\ guest.pc = "want"
    /\ notifyStateChangeLocked(mState, mWantedEvents \cup guest.want)
    /\ guest' = [pc |-> "run", want |-> {}]
    /\ UNCHANGED <<mFromGuest, mToGuest, mState, mEventCallback, mIsWorking, sent, received, threadVars, mainVars>>

(* onGuestClose: mIsWorking is cleared before the channel is stopped.      *)
onGuestClose ==
    /\ VmLockFree
    /\ guest.pc = "run" /\ mIsWorking
    /\ mIsWorking' = FALSE
    /\ guest' = [guest EXCEPT !.pc = "close"]
    /\ UNCHANGED <<channelVars, asked, sent, received, threadVars, mainVars>>

CloseStops ==
    /\ guest.pc = "close"
    /\ stop
    /\ guest' = [guest EXCEPT !.pc = "gone"]
    /\ UNCHANGED <<mIsWorking, asked, sent, received, threadVars, mainVars>>

(***************************************************************************)
(* RenderThread                                                            *)
(***************************************************************************)

(* main(): a thread that could not be loaded returns, one that is loaded   *)
(* begins with loadImpl, a new one reads the flags.                        *)
ThreadStarts ==
    /\ thread.pc = "start"
    /\ thread' = [thread EXCEPT !.pc = IF mFinished THEN "exit"
                                       ELSE IF snapshotState = "StartLoading" THEN "loading" ELSE "read"]
    /\ snapshotState' = IF snapshotState = "StartLoading" THEN "InProgress" ELSE snapshotState
    /\ UNCHANGED <<channelVars, guestVars, asked, mFinished, mainVars>>

(* Mutant: a loaded thread reads the flags again.                          *)
loadImpl_FlagsAgain ==
    /\ thread.pc = "loading"
    /\ thread' = [pc |-> "paused", inLoop |-> FALSE, decoded |-> saved.decoded]
    /\ snapshotState' = "Finished"
    /\ UNCHANGED <<channelVars, guestVars, asked, mFinished, mainVars>>

(* The body of loadImpl: the thread takes the state it was saved with and  *)
(* goes on in the command loop.                                            *)
loadImpl ==
    /\ thread.pc = "loading"
    /\ thread' = [pc |-> "paused", inLoop |-> TRUE, decoded |-> saved.decoded]
    /\ snapshotState' = "Finished"
    /\ UNCHANGED <<channelVars, guestVars, asked, mFinished, mainVars>>

(* ChannelStream::readRaw calls readFromGuest and waits for data.  The     *)
(* first buffer is dropped, the others are decoded; each is answered.      *)
readFromGuest ==
    LET pop == popLocked(mFromGuest) IN
    /\ thread.pc = "read" /\ "render" \notin mFromGuest.mCanPop
    /\ IF PopMustWait(mFromGuest) /\ ~mFromGuest.mClosed
       THEN /\ mFromGuest' = [mFromGuest EXCEPT !.mCanPop = @ \cup {"render"}]
            /\ UNCHANGED <<mToGuest, mState, mWantedEvents, mEventCallback, asked, thread>>
       ELSE /\ mFromGuest' = pop.queue
            /\ UNCHANGED mToGuest
            /\ UpdateAndNotify
            /\ thread' = IF pop.result # "Ok" THEN [thread EXCEPT !.pc = "failed"]
                         ELSE IF thread.inLoop
                         THEN [thread EXCEPT !.pc = "write", !.decoded = Append(@, pop.buffer)]
                         ELSE [thread EXCEPT !.inLoop = TRUE]
    /\ UNCHANGED <<guestVars, snapshotState, mFinished, mainVars>>

(* The decoder's reply: ChannelStream::commitBuffer calls writeToGuest and *)
(* ignores its result.                                                     *)
writeToGuest ==
    LET push == pushLocked(mToGuest, thread.decoded[Len(thread.decoded)]) IN
    /\ thread.pc = "write" /\ "render" \notin mToGuest.mCanPush
    /\ IF PushMustWait(mToGuest) /\ ~mToGuest.mClosed
       THEN /\ mToGuest' = [mToGuest EXCEPT !.mCanPush = @ \cup {"render"}]
            /\ UNCHANGED <<mFromGuest, mState, mWantedEvents, mEventCallback, asked, thread>>
       ELSE /\ mToGuest' = push.queue
            /\ UNCHANGED mFromGuest
            /\ UpdateAndNotify
            /\ thread' = [thread EXCEPT !.pc = "read"]
    /\ UNCHANGED <<guestVars, snapshotState, mFinished, mainVars>>

(* Mutant: a failed read is always tried again.                            *)
doSnapshotOperation_Retry ==
    /\ thread.pc = "failed"
    /\ snapshotState' = IF snapshotState = "StartSaving" THEN "InProgress" ELSE snapshotState
    /\ thread' = [thread EXCEPT !.pc = IF snapshotState = "StartSaving" THEN "saving" ELSE "read"]
    /\ UNCHANGED <<channelVars, guestVars, asked, mFinished, mainVars>>

(* A failed read is either a pending snapshot or the end of the stream.    *)
doSnapshotOperation ==
    /\ thread.pc = "failed"
    /\ IF snapshotState = "StartSaving"
       THEN /\ snapshotState' = "InProgress"
            /\ thread' = [thread EXCEPT !.pc = "saving"]
       ELSE /\ thread' = [thread EXCEPT !.pc = "exiting"]
            /\ UNCHANGED snapshotState
    /\ UNCHANGED <<channelVars, guestVars, asked, mFinished, mainVars>>

(* saveImpl writes the thread's state to mStream.                          *)
saveImpl ==
    /\ thread.pc = "saving"
    /\ thread' = [thread EXCEPT !.pc = "paused"]
    /\ snapshotState' = "Finished"
    /\ UNCHANGED <<channelVars, guestVars, asked, mFinished, mainVars>>

(* snapshotOperation only returns once resume has set the state to Empty.  *)
ThreadProceeds ==
    /\ thread.pc = "paused" /\ snapshotState = "Empty"
    /\ thread' = [thread EXCEPT !.pc = "read"]
    /\ UNCHANGED <<channelVars, guestVars, asked, snapshotState, mFinished, mainVars>>

(* Mutant: the thread exits without a word.                                *)
setFinished_Silent ==
    /\ thread.pc = "exiting"
    /\ thread' = [thread EXCEPT !.pc = "exit"]
    /\ UNCHANGED <<channelVars, guestVars, asked, snapshotState, mFinished, mainVars>>

setFinished ==
    /\ thread.pc = "exiting"
    /\ mFinished' = TRUE
    /\ thread' = [thread EXCEPT !.pc = "exit"]
    /\ UNCHANGED <<channelVars, guestVars, asked, snapshotState, mainVars>>

(* The thread decodes what it has read by itself.  The other branch of     *)
(* consumeBuffers, where a commandBufferCallBackFunc was set, is left out: *)
(* there the thread sleeps until the callback has cleared waitFlag.        *)
ThreadStep ==
    \/ ThreadStarts
    \/ loadImpl
    \/ readFromGuest
    \/ writeToGuest
    \/ doSnapshotOperation
    \/ saveImpl
    \/ ThreadProceeds
    \/ setFinished

(***************************************************************************)
(* The main loop: RendererImpl and the snapshot hooks of EmuglPipe.        *)
(***************************************************************************)

VcpuStopped == guest.pc \in {"run", "gone"}

SetSnapshotMode(on) ==
    /\ mFromGuest' = setSnapshotModeLocked(mFromGuest, on)
    /\ mToGuest' = setSnapshotModeLocked(mToGuest, on)
    /\ UNCHANGED <<mState, mWantedEvents, mEventCallback>>

(* preSave: pauseAllPreSave pauses every render thread.  A pipe the guest  *)
(* has closed is not saved.                                                *)
pauseAllPreSave ==
    /\ main = "idle" /\ VcpuStopped
    /\ saves < MaxSave
    /\ saves' = saves + 1
    /\ SetSnapshotMode(TRUE)
    /\ snapshotState' = "StartSaving"
    /\ main' = IF mIsWorking THEN "onSave" ELSE "resume"
    /\ saved' = NoSnapshot
    /\ UNCHANGED <<guestVars, asked, thread, mFinished, loads, torn>>

(* EmuglPipe::onSave and RenderChannelImpl::onSave up to its unlock.       *)
onSave ==
    /\ main = "onSave"
    /\ saved' = [complete |-> FALSE,
                 from |-> onSaveLocked(mFromGuest), to |-> onSaveLocked(mToGuest),
                 state |-> mState, wanted |-> mWantedEvents,
                 asked |-> asked, sent |-> sent, received |-> received,
                 early |-> snapshotState # "Finished" /\ ~mFinished,
                 success |-> FALSE, inLoop |-> FALSE, decoded |-> <<>>]
    /\ main' = "save"
    /\ UNCHANGED <<channelVars, guestVars, asked, threadVars, saves, loads, torn>>

SnapshotCompleted == snapshotState = "Finished" \/ mFinished

(* RenderThread::save, behind waitForSnapshotCompletion.                   *)
save ==
    /\ main = "save" /\ SnapshotCompleted
    /\ saved' = [saved EXCEPT !.complete = TRUE, !.success = snapshotState = "Finished",
                              !.inLoop = thread.inLoop, !.decoded = thread.decoded]
    /\ main' = "resume"
    /\ UNCHANGED <<channelVars, guestVars, asked, threadVars, saves, loads, torn>>

(* Mutant: the thread's state is not reset to Empty.                       *)
resumeAll_StateKept ==
    /\ main = "resume"
    /\ snapshotState = "Empty" \/ SnapshotCompleted
    /\ SetSnapshotMode(FALSE)
    /\ main' = "idle"
    /\ UNCHANGED <<guestVars, asked, threadVars, saved, saves, loads, torn>>

(* postSave and postLoad: resumeAll waits for the thread to be done.       *)
resumeAll ==
    /\ main = "resume"
    /\ snapshotState = "Empty" \/ SnapshotCompleted
    /\ IF snapshotState = "Empty" THEN UNCHANGED channelVars ELSE SetSnapshotMode(FALSE)
    /\ snapshotState' = "Empty"
    /\ main' = "idle"
    /\ UNCHANGED <<guestVars, asked, thread, mFinished, saved, saves, loads, torn>>

(* preLoad: cleanupRenderThreads stops the channel ...                     *)
cleanupRenderThreads ==
    /\ main = "idle" /\ VcpuStopped
    /\ saved.complete /\ loads < MaxLoad
    /\ loads' = loads + 1
    /\ stop
    /\ main' = "cleanup"
    /\ UNCHANGED <<guestVars, asked, threadVars, saved, saves, torn>>

(* ... and waits for its thread; then the pipe, the channel and the guest  *)
(* take the saved state, and a new thread starts.                          *)
createRenderChannel ==
    /\ main = "cleanup" /\ thread.pc = "exit"
    /\ mFromGuest' = onLoadLocked(GuestToHostCapacity, saved.from)
    /\ mToGuest' = onLoadLocked(HostToGuestCapacity, saved.to)
    /\ mState' = saved.state
    /\ mWantedEvents' = saved.wanted \ saved.state
    /\ asked' = saved.asked \ (saved.state \cap saved.wanted)
    /\ mEventCallback' = TRUE
    /\ mIsWorking' = TRUE
    /\ guest' = [pc |-> "run", want |-> {}]
    /\ sent' = saved.sent /\ received' = saved.received
    /\ thread' = [pc |-> "start", inLoop |-> FALSE, decoded |-> <<>>]
    /\ snapshotState' = IF saved.success THEN "StartLoading" ELSE "Empty"
    /\ mFinished' = ~saved.success
    /\ main' = "resume"
    /\ torn' = (torn \/ saved.early \/ ~saved.inLoop)
    /\ UNCHANGED <<saved, saves, loads>>

(* RendererImpl::stop, when the main loop has exited: stopFromHost.        *)
stopFromHost ==
    /\ main = "idle" /\ VcpuStopped
    /\ mFromGuest' = closeLocked(mFromGuest)
    /\ mToGuest' = closeLocked(mToGuest)
    /\ mState' = mState \cup {"Stopped"}
    /\ notifyStateChangeLocked(mState', mWantedEvents)
    /\ mEventCallback' = FALSE
    /\ main' = "exit"
    /\ UNCHANGED <<guestVars, threadVars, saved, saves, loads, torn>>

(* What the main loop has begun it goes on with.                           *)
MainContinues == onSave \/ save \/ resumeAll \/ createRenderChannel

GuestContinues == SendContinues \/ setWantedEvents \/ CloseStops

Init ==
    /\ mFromGuest = BufferQueue(GuestToHostCapacity)
    /\ mToGuest = BufferQueue(HostToGuestCapacity)
    /\ mState = {"CanWrite"} /\ mWantedEvents = {}
    /\ mEventCallback = TRUE /\ mIsWorking = TRUE
    /\ guest = [pc |-> "run", want |-> {}]
    /\ asked = {}
    /\ sent = 0 /\ received = <<>>
    /\ thread = [pc |-> "start", inLoop |-> FALSE, decoded |-> <<>>]
    /\ snapshotState = "Empty" /\ mFinished = FALSE
    /\ main = "idle"
    /\ saved = NoSnapshot
    /\ saves = 0 /\ loads = 0
    /\ torn = FALSE

Next ==
    \/ onGuestSend
    \/ onGuestRecv
    \/ onGuestWantWakeOn
    \/ onGuestClose
    \/ GuestContinues
    \/ ThreadStep
    \/ pauseAllPreSave
    \/ cleanupRenderThreads
    \/ stopFromHost
    \/ MainContinues

Spec == Init /\ [][Next]_vars

(* The host runs its threads: whatever has begun goes on.  The guest need  *)
(* not issue another command, nor the user another snapshot.               *)
FairSpec ==
    /\ Spec
    /\ WF_vars(ThreadStep)
    /\ WF_vars(MainContinues)
    /\ WF_vars(GuestContinues)

-----------------------------------------------------------------------------
(***************************************************************************)
(* Properties                                                              *)
(***************************************************************************)

Numbers(m, n) == [i \in 1..(n + 1 - m) |-> m + i - 1]

QueueOK(q) ==
    /\ q.mCount \in 0..size(q)
    /\ q.mPos \in 0..(size(q) - 1)
    /\ \A i \in 1..size(q) : q.mBuffers[i] \in 0..MaxSend
    /\ q.mClosed \in BOOLEAN /\ q.mSnapshotMode \in BOOLEAN
    /\ q.mCanPush \subseteq {"guest", "render"} /\ q.mCanPop \subseteq {"guest", "render"}

(* The types of the variables.                                             *)
TypeOK ==
    /\ QueueOK(mFromGuest) /\ QueueOK(mToGuest)
    /\ mState \subseteq State /\ mWantedEvents \subseteq Event
    /\ mEventCallback \in BOOLEAN /\ mIsWorking \in BOOLEAN
    /\ guest \in [pc : {"run", "send", "want", "close", "gone"}, want : SUBSET Event]
    /\ asked \subseteq Event
    /\ sent \in 0..MaxSend /\ received \in Seq(1..MaxSend)
    /\ thread.pc \in {"start", "loading", "read", "write", "failed", "saving", "paused", "exiting", "exit"}
    /\ thread.inLoop \in BOOLEAN /\ thread.decoded \in Seq(1..MaxSend)
    /\ snapshotState \in SnapshotState /\ mFinished \in BOOLEAN
    /\ main \in {"idle", "onSave", "save", "resume", "cleanup", "exit"}
    /\ saves \in 0..MaxSave /\ loads \in 0..MaxLoad /\ torn \in BOOLEAN

(* A thread waits on a condition variable of a queue only while its loop   *)
(* in pushLocked or popLocked has a reason to: tryPushLocked signals only  *)
(* when the queue was empty and tryPopLocked only when it was full, and    *)
(* closing or pausing the queue wakes everyone, so no wake-up is missed.   *)
WaitersHaveReason ==
    \A q \in {mFromGuest, mToGuest} :
        /\ q.mCanPush # {} => PushMustWait(q) /\ ~q.mClosed
        /\ q.mCanPop # {} => PopMustWait(q) /\ ~q.mClosed

(* The guest never sleeps for an event that is there: when it has asked    *)
(* for CanRead or CanWrite and was not signalled, the queues really have   *)
(* no data or no room.  The state is read and the wish recorded in two     *)
(* sections of onGuestWantWakeOn, with the render thread in between.       *)
NoLostWakeup ==
    mIsWorking /\ guest.pc # "want" => asked \cap StateOf(mFromGuest, mToGuest) = {}

(* onGuestPoll answers from mState, which is recomputed by the operations  *)
(* and not by the queues: it is right as long as the channel is open, also *)
(* in snapshot mode and after a load.                                      *)
StateIsCurrent == ~mToGuest.mClosed => mState = StateOf(mFromGuest, mToGuest)

(* The commands decoded, followed by those in the queue, are what the      *)
(* guest sent, in its order, each once, through every growth of the ring,  *)
(* save and load, unless the snapshot loaded was taken while the thread    *)
(* was still running or had not read the flags yet (SnapshotIsWhole).      *)
CommandsInOrder ==
    ~torn /\ thread.pc \notin {"start", "loading"} =>
        (IF thread.inLoop THEN <<1>> ELSE <<>>) \o thread.decoded \o Contents(mFromGuest)
            = Numbers(1, sent)

(* The replies read, followed by those in the queue and the one being      *)
(* written, answer the commands decoded, in their order, each once, as     *)
(* long as the channel is open.                                            *)
RepliesInOrder ==
    ~torn /\ ~mToGuest.mClosed /\ thread.pc \notin {"start", "loading"} =>
        received \o Contents(mToGuest)
            \o (IF thread.pc = "write" THEN <<thread.decoded[Len(thread.decoded)]>> ELSE <<>>)
            = thread.decoded

(* A save, and the wait of a load for the old thread and for the new one,  *)
(* ends: a render thread blocked on a full or an empty queue is brought to *)
(* the point where it saves, loads or exits.                               *)
SnapshotEnds == main \notin {"idle", "exit"} ~> main = "idle"

(* Once the channel is closed, by the guest or by the renderer, the render *)
(* thread comes to its end, which RendererImpl::stop and the destructor of *)
(* the channel wait for; a new thread may have taken its place by a load.  *)
ThreadEnds == mFromGuest.mClosed ~> (thread.pc = "exit" \/ ~mFromGuest.mClosed)

(* The guest waits in writeToHost for the render thread to read, and the   *)
(* render thread in writeToGuest for the guest to read.                    *)
MutualWait == "guest" \in mFromGuest.mCanPush /\ "render" \in mToGuest.mCanPush

(* A send returns, and the vCPU gives the VM lock back, unless it and the  *)
(* render thread wait for each other: this is the only way in which        *)
(* writeToHost blocks for ever, whatever was saved, loaded or signalled.   *)
SendReturns == guest.pc = "send" ~> (guest.pc # "send" \/ MutualWait)

(* "This way we can make sure all data at the snapshot time is here and is *)
(* saved": every command the guest sent is in the saved queue or behind    *)
(* the saved thread, not in both, and so is every reply.                   *)
SnapshotIsWhole ==
    saved.complete /\ saved.success =>
        /\ (IF saved.inLoop THEN <<1>> ELSE <<>>) \o saved.decoded \o saved.from.buffers = Numbers(1, saved.sent)
        /\ saved.received \o saved.to.buffers = saved.decoded
=============================================================================
