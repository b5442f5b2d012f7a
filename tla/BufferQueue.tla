----------------------------- MODULE BufferQueue -----------------------------
(***************************************************************************)
(* emugl::BufferQueue (libOpenglRender/BufferQueue.h): the ring of buffers *)
(* that carries one direction of a render channel.  A queue is a record    *)
(* with the members of the class; every operator below is one of its       *)
(* methods, and is called with the channel's lock held.  The two condition *)
(* variables are the sets of threads that wait on them.                    *)
(*                                                                         *)
(* mBuffers is a sequence, so slot |pos| of the C++ vector is element      *)
(* pos + 1.                                                                *)
(***************************************************************************)
EXTENDS Naturals, Sequences

(* The content of a slot whose buffer was moved out, or never filled.      *)
MovedFrom == 0

BufferQueue(capacity) ==
    [mBuffers |-> [i \in 1..capacity |-> MovedFrom], mPos |-> 0, mCount |-> 0,
     mClosed |-> FALSE, mSnapshotMode |-> FALSE, mCanPush |-> {}, mCanPop |-> {}]

size(q) == Len(q.mBuffers)

IsFull(q) == q.mCount = size(q)

canPushLocked(q) == ~q.mClosed /\ q.mCount < size(q)

canPopLocked(q) == q.mCount > 0

(* The slot |n| places behind the front of the ring: one conditional       *)
(* subtraction, as the code does it.                                       *)
Slot(q, n) ==
    LET pos == q.mPos + n IN IF pos >= size(q) THEN pos - size(q) ELSE pos

(* What the ring holds, front first.                                       *)
Contents(q) == [i \in 1..q.mCount |-> q.mBuffers[Slot(q, i - 1) + 1]]

(* ConditionVariable::signal wakes one thread, broadcast all of them.  A   *)
(* queue joins two threads, so at most one waits on each variable.         *)
signal(waiters) == IF waiters = {} THEN {} ELSE waiters \ {CHOOSE t \in waiters : TRUE}

wakeAllWaiters(q) ==
    [q EXCEPT !.mCanPush = IF IsFull(q) THEN {} ELSE @,
              !.mCanPop = IF q.mCount = 0 THEN {} ELSE @]

setSnapshotModeLocked(q, on) ==
    LET r == [q EXCEPT !.mSnapshotMode = on]
    IN  IF on /\ ~q.mClosed THEN wakeAllWaiters(r) ELSE r

closeLocked(q) == wakeAllWaiters([q EXCEPT !.mClosed = TRUE])

(* Mutant: the ring is copied from slot 0, not from mPos.                  *)
grow_FromZero(q) ==
    [q EXCEPT !.mBuffers = q.mBuffers \o [i \in 1..size(q) |-> MovedFrom], !.mPos = 0]

(* A full ring, read from mPos around to mPos, becomes the first half of   *)
(* a ring of twice the size.                                               *)
grow(q) ==
    LET n == size(q)
        front == SubSeq(q.mBuffers, q.mPos + 1, IF q.mPos + q.mCount < n THEN q.mPos + q.mCount ELSE n)
        back == SubSeq(q.mBuffers, 1, (q.mPos + q.mCount) % n)
    IN  [q EXCEPT !.mBuffers = front \o back \o [i \in 1..n |-> MovedFrom], !.mPos = 0]

(* The outcome of a push and of a pop: the IoResult, the queue and, for a  *)
(* pop, the buffer.                                                        *)
tryPushLocked(q, buffer) ==
    LET r == IF IsFull(q) THEN grow(q) ELSE q IN
    IF q.mClosed THEN [result |-> "Error", queue |-> q]
    ELSE IF IsFull(q) /\ ~q.mSnapshotMode THEN [result |-> "TryAgain", queue |-> q]
    ELSE [result |-> "Ok",
          queue |-> [r EXCEPT !.mBuffers[Slot(r, r.mCount) + 1] = buffer,
                              !.mCount = @ + 1,
                              !.mCanPop = IF r.mCount = 0 THEN signal(@) ELSE @]]

(* Mutant: a pop signals mCanPush when it empties the queue, not when the  *)
(* queue was full.                                                         *)
tryPopLocked_SignalEmpty(q) ==
    IF q.mCount = 0
    THEN [result |-> IF q.mClosed \/ q.mSnapshotMode THEN "Error" ELSE "TryAgain",
          queue |-> q, buffer |-> MovedFrom]
    ELSE [result |-> "Ok", buffer |-> q.mBuffers[q.mPos + 1],
          queue |-> [q EXCEPT !.mBuffers[q.mPos + 1] = MovedFrom, !.mPos = Slot(q, 1), !.mCount = @ - 1,
                              !.mCanPush = IF q.mCount = 1 THEN signal(@) ELSE @]]

tryPopLocked(q) ==
    IF q.mCount = 0
    THEN [result |-> IF q.mClosed \/ q.mSnapshotMode THEN "Error" ELSE "TryAgain",
          queue |-> q, buffer |-> MovedFrom]
    ELSE [result |-> "Ok", buffer |-> q.mBuffers[q.mPos + 1],
          queue |-> [q EXCEPT !.mBuffers[q.mPos + 1] = MovedFrom,
                              !.mPos = Slot(q, 1),
                              !.mCount = @ - 1,
                              !.mCanPush = IF IsFull(q) THEN signal(@) ELSE @]]

(* The loops of pushLocked and popLocked: while the first holds the thread *)
(* waits, unless the queue is closed, which ends the call with an error.   *)
PushMustWait(q) == IsFull(q) /\ ~q.mSnapshotMode

PopMustWait(q) == q.mCount = 0 /\ ~q.mSnapshotMode

pushLocked(q, buffer) ==
    IF PushMustWait(q) THEN [result |-> "Error", queue |-> q] ELSE tryPushLocked(q, buffer)

popLocked(q) ==
    IF PopMustWait(q) THEN [result |-> "Error", queue |-> q, buffer |-> MovedFrom] ELSE tryPopLocked(q)

(* A closed queue is saved without what it holds.                          *)
onSaveLocked(q) == [closed |-> q.mClosed, buffers |-> IF q.mClosed THEN <<>> ELSE Contents(q)]

(* Mutant: the vector is not resized for a queue that had grown.           *)
onLoadLocked_NoResize(capacity, s) ==
    [BufferQueue(capacity) EXCEPT
        !.mClosed = s.closed, !.mCount = Len(s.buffers),
        !.mBuffers = [i \in 1..capacity |-> IF i <= Len(s.buffers) THEN s.buffers[i] ELSE MovedFrom]]

onLoadLocked(capacity, s) ==
    LET n == Len(s.buffers)
    IN  [BufferQueue(capacity) EXCEPT
            !.mClosed = s.closed, !.mCount = n,
            !.mBuffers = s.buffers \o [i \in 1..(IF n < capacity THEN capacity - n ELSE 0) |-> MovedFrom]]
=============================================================================
