------------------------------ MODULE RamLoader ------------------------------
(* Lazy loading of the guest's RAM from a snapshot                         *)
(* (android/snapshot/RamLoader.cpp with MemoryWatch_linux.cpp).            *)
(*                                                                         *)
(* Three kinds of thread move pages through their states with              *)
(* compare-and-exchange and without locks: the page-fault thread, which    *)
(* serves the faults of the guest and, when there are none, queues and     *)
(* fills pages in the background; the reader thread, which reads the       *)
(* queued pages from the disk; and any thread of the emulator that is      *)
(* about to touch guest memory and calls loadRam first.                    *)
EXTENDS Naturals, Sequences

CONSTANTS
    PageCount,     \* pages in the index, in the order of mIndex.pages
    ZeroPage,      \* pages with sizeOnDisk = 0
    PagefaultThread,
    ReaderThread,
    Accessor,      \* threads that call loadRam
    Guest,         \* vCPUs that touch the memory
    LoadRamRange,  \* bound: the ranges of pages, <<first, last>>, that they load
    QueueSize,     \* capacity of mReadingQueue and of mReadDataQueue (32)
    MaxError       \* bound: reads or fills that fail

Page == 1..PageCount
NULL == 0
Loader == {PagefaultThread} \cup Accessor
Thread == Loader \cup {ReaderThread}

ASSUME RamLoaderAssumption ==
    /\ PageCount \in Nat /\ QueueSize \in Nat \ {0} /\ MaxError \in Nat
    /\ ZeroPage \subseteq Page /\ LoadRamRange \subseteq Page \X Page
    /\ PagefaultThread # ReaderThread
    /\ {PagefaultThread, ReaderThread} \cap Accessor = {}

VARIABLES
    state,                  \* Page::state
    data,                   \* Page::data: NULL, or the thread whose buffer it is
    memory,                 \* the page as the guest sees it
    pc, cur,                \* per thread: where it is, and the page it works on
    last,                   \* per accessor: the last page of its loadRam call
    mBackgroundPageIt, mSentEndOfPagesMarker,
    queued,                 \* pages queued in this call of backgroundPageLoad
    serving,                \* the fault thread is in its loop over faults
    mReadingQueue, readingStopped,
    mReadDataQueue, dataStopped,
    mLoadingCompleted, mHasError,
    mAccessWatch,           \* the watch exists, and its userfaultfd is open
    exit,                   \* mExitFd has been written
    fault,                  \* per vCPU: the page it waits for
    unread,                 \* vCPUs whose fault has not been read
    errors, destroyed       \* failures so far; ~RamLoader has run interruptReading

pageVars == <<state, data, memory>>
queueVars == <<mReadingQueue, readingStopped, mReadDataQueue, dataStopped>>
scanVars == <<mBackgroundPageIt, mSentEndOfPagesMarker, queued, serving>>
endVars == <<mLoadingCompleted, mAccessWatch, exit, destroyed>>
errorVars == <<mHasError, errors>>
guestVars == <<fault, unread>>
vars == <<pageVars, pc, cur, last, queueVars, scanVars, endVars, errorVars, guestVars>>

(* RamLoader::start: readIndex has set every page to Empty, or to Read if  *)
(* it has nothing on disk; registerPageWatches has made all of them        *)
(* missing, and both threads are started.                                  *)
Init ==
    /\ state = [p \in Page |-> IF p \in ZeroPage THEN "Read" ELSE "Empty"]
    /\ data = [p \in Page |-> NULL]
    /\ memory = [p \in Page |-> "missing"]
    /\ pc = [t \in Thread |-> IF t = PagefaultThread THEN "poll" ELSE "idle"]
    /\ cur = [t \in Thread |-> NULL]
    /\ last = [a \in Accessor |-> NULL]
    /\ mBackgroundPageIt = 1 /\ mSentEndOfPagesMarker = FALSE /\ queued = 0
    /\ serving = FALSE
    /\ mReadingQueue = <<>> /\ readingStopped = FALSE
    /\ mReadDataQueue = <<>> /\ dataStopped = FALSE
    /\ mLoadingCompleted = FALSE /\ mHasError = FALSE
    /\ mAccessWatch = TRUE /\ exit = FALSE
    /\ fault = [g \in Guest |-> NULL] /\ unread = {}
    /\ errors = 0 /\ destroyed = FALSE

Goto(t, where) == pc' = [pc EXCEPT ![t] = where]

(* A thread that still uses the index after the reader has cleared it is   *)
(* outside the program's defined behaviour and takes no further step here. *)
Runs(t, where) == pc[t] = where /\ mAccessWatch

InterruptQueues ==
    /\ mReadingQueue' = <<>> /\ readingStopped' = TRUE
    /\ mReadDataQueue' = <<>> /\ dataStopped' = TRUE
-----------------------------------------------------------------------------
(* What all three kinds of thread do with a page.                          *)

(* Where a thread goes after readDataFromDisk returns res: the reader      *)
(* passes on only the pages that it has read itself.                       *)
AfterRead(t, res) ==
    IF t # ReaderThread THEN "fill" ELSE IF res THEN "send" ELSE "idle"

(* readDataFromDisk up to the pread: the page is claimed with a            *)
(* compare-and-exchange; who loses waits until it has been read.           *)
readClaim(t) ==
    LET p == cur[t] IN
    /\ Runs(t, "read")
    /\ \/ /\ p \in ZeroPage
          /\ data' = [data EXCEPT ![p] = NULL]
          /\ Goto(t, AfterRead(t, TRUE))
          /\ UNCHANGED state
       \/ /\ p \notin ZeroPage /\ state[p] = "Empty"
          /\ state' = [state EXCEPT ![p] = "Reading"]
          /\ Goto(t, "disk")
          /\ UNCHANGED data
       \/ /\ p \notin ZeroPage /\ state[p] \notin {"Empty", "Reading"}
          /\ Goto(t, AfterRead(t, FALSE))
          /\ UNCHANGED <<state, data>>
    /\ UNCHANGED <<memory, cur, last, queueVars, scanVars, endVars, errorVars, guestVars>>

(* The rest of readDataFromDisk: the page is read into a buffer of the     *)
(* thread, or the read fails.                                              *)
readDataFromDisk(t) ==
    LET p == cur[t] IN
    /\ Runs(t, "disk")
    /\ \/ /\ data' = [data EXCEPT ![p] = t]
          /\ state' = [state EXCEPT ![p] = "Read"]
          /\ Goto(t, AfterRead(t, TRUE))
          /\ UNCHANGED errorVars
       \/ /\ errors < MaxError
          /\ errors' = errors + 1
          /\ state' = [state EXCEPT ![p] = "Error"]
          /\ mHasError' = TRUE
          /\ Goto(t, AfterRead(t, FALSE))
          /\ UNCHANGED data
    /\ UNCHANGED <<memory, cur, last, queueVars, scanVars, endVars, guestVars>>

(* Mutant: the page is not claimed before it is filled.                    *)
fillClaim_Shared(t) ==
    LET p == cur[t] IN
    /\ Runs(t, "fill")
    /\ \/ /\ state[p] \in {"Read", "Filling"}
          /\ state' = [state EXCEPT ![p] = "Filling"]
          /\ Goto(t, "filling")
       \/ /\ state[p] \in {"Filled", "Error"}
          /\ Goto(t, "release")
          /\ UNCHANGED state
    /\ UNCHANGED <<data, memory, cur, last, queueVars, scanVars, endVars, errorVars, guestVars>>

(* fillPageData up to the ioctl: again one thread wins, and the others     *)
(* wait until the page is filled or has failed.                            *)
fillClaim(t) ==
    LET p == cur[t] IN
    /\ Runs(t, "fill")
    /\ \/ /\ state[p] = "Read"
          /\ state' = [state EXCEPT ![p] = "Filling"]
          /\ Goto(t, "filling")
       \/ /\ state[p] \in {"Filled", "Error"}
          /\ Goto(t, "release")
          /\ UNCHANGED state
    /\ UNCHANGED <<data, memory, cur, last, queueVars, scanVars, endVars, errorVars, guestVars>>

(* MemoryAccessWatch::fillPage: UFFDIO_COPY of the buffer, or              *)
(* UFFDIO_ZEROPAGE without one. The kernel refuses a page that is present. *)
fillPage(p) ==
    /\ memory[p] = "missing"
    /\ memory' = [memory EXCEPT ![p] = IF data[p] = NULL THEN "zeroes" ELSE "bytes"]

fillPageData(t) ==
    LET p == cur[t] IN
    /\ Runs(t, "filling")
    /\ \/ /\ fillPage(p)
          /\ state' = [state EXCEPT ![p] = "Filled"]
          /\ UNCHANGED errorVars
       \/ /\ \/ memory[p] # "missing" /\ errors' = errors
             \/ errors < MaxError /\ errors' = errors + 1
          /\ state' = [state EXCEPT ![p] = "Error"]
          /\ mHasError' = TRUE
          /\ UNCHANGED memory
    /\ Goto(t, "release")
    /\ UNCHANGED <<data, cur, last, queueVars, scanVars, endVars, guestVars>>

(* The end of loadRamPage and of fillPageInBackground. The fault thread    *)
(* looks for the next fault, or polls again if it was in the background;   *)
(* an accessor goes on to the next page of its range.                      *)
releaseData(t) ==
    /\ Runs(t, "release")
    /\ data' = [data EXCEPT ![cur[t]] = NULL]
    /\ IF t \in Accessor /\ cur[t] < last[t]
       THEN /\ cur' = [cur EXCEPT ![t] = @ + 1]
            /\ Goto(t, "read")
            /\ UNCHANGED last
       ELSE /\ cur' = [cur EXCEPT ![t] = NULL]
            /\ last' = [a \in Accessor |-> IF a = t THEN NULL ELSE last[a]]
            /\ Goto(t, IF t \in Accessor THEN "idle" ELSE IF serving THEN "faults" ELSE "poll")
    /\ UNCHANGED <<state, memory, queueVars, scanVars, endVars, errorVars, guestVars>>

(* The loadRam callback of Snapshotter, then RamLoader::loadRam.           *)
loadRam(a, first, final) ==
    /\ pc[a] = "idle"
    /\ mAccessWatch /\ ~mLoadingCompleted
    /\ cur' = [cur EXCEPT ![a] = first]
    /\ last' = [last EXCEPT ![a] = final]
    /\ Goto(a, "read")
    /\ UNCHANGED <<pageVars, queueVars, scanVars, endVars, errorVars, guestVars>>
-----------------------------------------------------------------------------
(* The page-fault thread: MemoryAccessWatch::Impl::pagefaultWorker.        *)

(* One ppoll: the exit descriptor comes first, then faults, then idling.   *)
(* The exit of the thread when ppoll itself fails is left out.             *)
pagefaultPoll ==
    /\ pc[PagefaultThread] = "poll"
    /\ \/ exit /\ Goto(PagefaultThread, "done") /\ UNCHANGED serving
       \/ ~exit /\ unread # {} /\ Goto(PagefaultThread, "faults") /\ serving' = TRUE
       \/ ~exit /\ unread = {} /\ Goto(PagefaultThread, "background") /\ UNCHANGED serving
    /\ UNCHANGED <<pageVars, cur, last, queueVars, mBackgroundPageIt, mSentEndOfPagesMarker,
                   queued, endVars, errorVars, guestVars>>

(* readNextPagefaultAddr, and the access callback loadRamPage.             *)
readNextPagefaultAddr ==
    /\ pc[PagefaultThread] = "faults"
    /\ \/ \E g \in unread :
             /\ unread' = unread \ {g}
             /\ cur' = [cur EXCEPT ![PagefaultThread] = fault[g]]
             /\ Goto(PagefaultThread, "read")
             /\ UNCHANGED serving
       \/ /\ unread = {}
          /\ serving' = FALSE
          /\ Goto(PagefaultThread, "poll")
          /\ UNCHANGED <<unread, cur>>
    /\ UNCHANGED <<pageVars, last, queueVars, mBackgroundPageIt, mSentEndOfPagesMarker, queued,
                   endVars, errorVars, fault>>

(* backgroundPageLoad up to the loop: finish, take a page that the reader  *)
(* has read, or look for pages to queue (at most QueueSize in one call).   *)
(* A null page ends the loading.                                           *)
backgroundReceive ==
    /\ pc[PagefaultThread] = "background"
    /\ \/ /\ readingStopped /\ dataStopped
          /\ Goto(PagefaultThread, "done")
          /\ UNCHANGED <<cur, queueVars, mLoadingCompleted>>
       \/ /\ mReadDataQueue # <<>>
          /\ Head(mReadDataQueue) # NULL
          /\ mReadDataQueue' = Tail(mReadDataQueue)
          /\ cur' = [cur EXCEPT ![PagefaultThread] = Head(mReadDataQueue)]
          /\ Goto(PagefaultThread, "fill")
          /\ UNCHANGED <<mReadingQueue, readingStopped, dataStopped, mLoadingCompleted>>
       \/ /\ mReadDataQueue # <<>>
          /\ Head(mReadDataQueue) = NULL
          /\ InterruptQueues
          /\ mLoadingCompleted' = TRUE
          /\ Goto(PagefaultThread, "done")
          /\ UNCHANGED cur
       \/ /\ mReadDataQueue = <<>> /\ ~(readingStopped /\ dataStopped)
          /\ Goto(PagefaultThread, "scan")
          /\ UNCHANGED <<cur, queueVars, mLoadingCompleted>>
    /\ UNCHANGED <<pageVars, last, scanVars, mAccessWatch, exit, destroyed, errorVars, guestVars>>

(* MessageChannel::trySend on the reading queue.                           *)
CanSend == Len(mReadingQueue) < QueueSize /\ ~readingStopped

Unclaimed(p) == state[p] = "Empty" \/ (state[p] = "Read" /\ data[p] = NULL)

(* Mutant: the marker counts as sent even if the queue had no room.        *)
findPage_MarkerLost ==
    LET found == {p \in Page : p >= mBackgroundPageIt /\ Unclaimed(p)} IN
    /\ pc[PagefaultThread] = "scan"
    /\ \/ /\ found # {}
          /\ mBackgroundPageIt' = CHOOSE p \in found : \A q \in found : p <= q
          /\ Goto(PagefaultThread, "dispatch")
          /\ UNCHANGED <<mSentEndOfPagesMarker, mReadingQueue, queued>>
       \/ /\ found = {}
          /\ mBackgroundPageIt' = PageCount + 1
          /\ mSentEndOfPagesMarker' = TRUE
          /\ mReadingQueue' = IF CanSend /\ ~mSentEndOfPagesMarker
                              THEN Append(mReadingQueue, NULL) ELSE mReadingQueue
          /\ queued' = 0
          /\ Goto(PagefaultThread, "poll")
    /\ UNCHANGED <<pageVars, cur, last, readingStopped, mReadDataQueue, dataStopped,
                   serving, endVars, errorVars, guestVars>>

(* The search in the loop: the next page that nobody has claimed, or the   *)
(* end of the index and, once, the marker for it.                          *)
findPage ==
    LET found == {p \in Page : p >= mBackgroundPageIt /\ Unclaimed(p)} IN
    /\ pc[PagefaultThread] = "scan"
    /\ \/ /\ found # {}
          /\ mBackgroundPageIt' = CHOOSE p \in found : \A q \in found : p <= q
          /\ Goto(PagefaultThread, "dispatch")
          /\ UNCHANGED <<mSentEndOfPagesMarker, mReadingQueue, queued>>
       \/ /\ found = {}
          /\ mBackgroundPageIt' = PageCount + 1
          /\ mSentEndOfPagesMarker' = (mSentEndOfPagesMarker \/ CanSend)
          /\ mReadingQueue' = IF CanSend /\ ~mSentEndOfPagesMarker
                              THEN Append(mReadingQueue, NULL) ELSE mReadingQueue
          /\ queued' = 0
          /\ Goto(PagefaultThread, "poll")
    /\ UNCHANGED <<pageVars, cur, last, readingStopped, mReadDataQueue, dataStopped,
                   serving, endVars, errorVars, guestVars>>

(* Mutant: the iterator moves on although the queue was full.              *)
queuePage_SkipsFull ==
    /\ pc[PagefaultThread] = "dispatch"
    /\ mBackgroundPageIt' = mBackgroundPageIt + 1
    /\ \/ /\ state[mBackgroundPageIt] = "Read"
          /\ cur' = [cur EXCEPT ![PagefaultThread] = mBackgroundPageIt]
          /\ Goto(PagefaultThread, "fill")
          /\ queued' = 0
          /\ UNCHANGED mReadingQueue
       \/ /\ state[mBackgroundPageIt] # "Read"
          /\ mReadingQueue' = IF CanSend THEN Append(mReadingQueue, mBackgroundPageIt)
                              ELSE mReadingQueue
          /\ queued' = IF CanSend /\ queued + 1 < QueueSize THEN queued + 1 ELSE 0
          /\ Goto(PagefaultThread, IF CanSend /\ queued + 1 < QueueSize THEN "scan" ELSE "poll")
          /\ UNCHANGED cur
    /\ UNCHANGED <<pageVars, last, readingStopped, mReadDataQueue, dataStopped,
                   mSentEndOfPagesMarker, serving, endVars, errorVars, guestVars>>

(* The rest of the loop: a page that needs no reading is filled at once,   *)
(* another one is queued for the reader if there is room.                  *)
queuePage ==
    /\ pc[PagefaultThread] = "dispatch"
    /\ \/ /\ state[mBackgroundPageIt] = "Read"
          /\ mBackgroundPageIt' = mBackgroundPageIt + 1
          /\ cur' = [cur EXCEPT ![PagefaultThread] = mBackgroundPageIt]
          /\ Goto(PagefaultThread, "fill")
          /\ queued' = 0
          /\ UNCHANGED mReadingQueue
       \/ /\ state[mBackgroundPageIt] # "Read"
          /\ CanSend
          /\ mReadingQueue' = Append(mReadingQueue, mBackgroundPageIt)
          /\ mBackgroundPageIt' = mBackgroundPageIt + 1
          /\ IF queued + 1 < QueueSize
             THEN queued' = queued + 1 /\ Goto(PagefaultThread, "scan")
             ELSE queued' = 0 /\ Goto(PagefaultThread, "poll")
          /\ UNCHANGED cur
       \/ /\ state[mBackgroundPageIt] # "Read"
          /\ ~CanSend
          /\ queued' = 0
          /\ Goto(PagefaultThread, "poll")
          /\ UNCHANGED <<mReadingQueue, mBackgroundPageIt, cur>>
    /\ UNCHANGED <<pageVars, last, readingStopped, mReadDataQueue, dataStopped,
                   mSentEndOfPagesMarker, serving, endVars, errorVars, guestVars>>
-----------------------------------------------------------------------------
(* The reader thread: RamLoader::readerWorker.                             *)

readerReceive ==
    /\ pc[ReaderThread] = "idle"
    /\ \/ /\ mReadingQueue # <<>>
          /\ mReadingQueue' = Tail(mReadingQueue)
          /\ cur' = [cur EXCEPT ![ReaderThread] = Head(mReadingQueue)]
          /\ Goto(ReaderThread, IF Head(mReadingQueue) = NULL THEN "sendNull" ELSE "read")
       \/ /\ readingStopped
          /\ Goto(ReaderThread, "clear")
          /\ UNCHANGED <<mReadingQueue, cur>>
    /\ UNCHANGED <<pageVars, last, readingStopped, mReadDataQueue, dataStopped, scanVars,
                   endVars, errorVars, guestVars>>

(* MessageChannel::send on the data queue: it waits for room.              *)
SendData(p) ==
    /\ Len(mReadDataQueue) < QueueSize \/ dataStopped
    /\ mReadDataQueue' = IF dataStopped THEN mReadDataQueue ELSE Append(mReadDataQueue, p)

readerSend ==
    /\ pc[ReaderThread] \in {"send", "sendNull"}
    /\ SendData(cur[ReaderThread])
    /\ Goto(ReaderThread, IF pc[ReaderThread] = "send" THEN "idle" ELSE "stop")
    /\ cur' = [cur EXCEPT ![ReaderThread] = NULL]
    /\ UNCHANGED <<pageVars, last, mReadingQueue, readingStopped, dataStopped, scanVars,
                   endVars, errorVars, guestVars>>

readerStop ==
    /\ pc[ReaderThread] = "stop"
    /\ mReadingQueue' = <<>> /\ readingStopped' = TRUE
    /\ Goto(ReaderThread, "clear")
    /\ UNCHANGED <<pageVars, cur, last, mReadDataQueue, dataStopped, scanVars, endVars,
                   errorVars, guestVars>>

(* mAccessWatch.clear(): ~MemoryAccessWatch writes the exit descriptor,    *)
(* ~Impl waits for the fault thread and closes the userfaultfd, which lets *)
(* every waiting vCPU go on; a page that is still missing then reads as    *)
(* zeroes. Then the index is cleared.                                      *)
watchStop ==
    /\ pc[ReaderThread] = "clear"
    /\ exit' = TRUE
    /\ Goto(ReaderThread, "join")
    /\ UNCHANGED <<pageVars, cur, last, queueVars, scanVars, mLoadingCompleted, mAccessWatch,
                   destroyed, errorVars, guestVars>>

watchClear ==
    /\ pc[ReaderThread] = "join"
    /\ pc[PagefaultThread] = "done"
    /\ mAccessWatch' = FALSE
    /\ memory' = [p \in Page |-> IF memory[p] = "missing" THEN "zeroes" ELSE memory[p]]
    /\ fault' = [g \in Guest |-> NULL] /\ unread' = {}
    /\ Goto(ReaderThread, "done")
    /\ UNCHANGED <<state, data, cur, last, queueVars, scanVars, mLoadingCompleted, exit, destroyed,
                   errorVars>>
-----------------------------------------------------------------------------
(* The guest (external), and the destructor.                               *)

(* A vCPU touches a page that is missing and waits; the kernel wakes it    *)
(* when the page has been filled.                                          *)
guestTouch(g, p) ==
    /\ mAccessWatch
    /\ fault[g] = NULL /\ memory[p] = "missing"
    /\ fault' = [fault EXCEPT ![g] = p]
    /\ unread' = unread \cup {g}
    /\ UNCHANGED <<pageVars, pc, cur, last, queueVars, scanVars, endVars, errorVars>>

guestResume(g) ==
    /\ fault[g] # NULL /\ memory[fault[g]] # "missing"
    /\ fault' = [fault EXCEPT ![g] = NULL]
    /\ unread' = unread \ {g}
    /\ UNCHANGED <<pageVars, pc, cur, last, queueVars, scanVars, endVars, errorVars>>

(* ~Loader joins the loading unless it has failed (Loader.cpp:98); only    *)
(* then does ~RamLoader interrupt it, with three stores that are one step  *)
(* here.                                                                   *)
interruptReading ==
    /\ mHasError /\ ~destroyed
    /\ destroyed' = TRUE
    /\ mLoadingCompleted' = TRUE
    /\ InterruptQueues
    /\ UNCHANGED <<pageVars, pc, cur, last, scanVars, mAccessWatch, exit, errorVars, guestVars>>
-----------------------------------------------------------------------------
PageStep(t) ==
    readClaim(t) \/ readDataFromDisk(t) \/ fillClaim(t) \/ fillPageData(t) \/ releaseData(t)

PagefaultStep ==
    PageStep(PagefaultThread) \/ pagefaultPoll \/ readNextPagefaultAddr \/ backgroundReceive
        \/ findPage \/ queuePage

ReaderStep ==
    PageStep(ReaderThread) \/ readerReceive \/ readerSend \/ readerStop \/ watchStop \/ watchClear

Next ==
    \/ PagefaultStep
    \/ ReaderStep
    \/ \E a \in Accessor : PageStep(a)
    \/ \E a \in Accessor, range \in LoadRamRange : loadRam(a, range[1], range[2])
    \/ \E g \in Guest : guestResume(g) \/ \E p \in Page : guestTouch(g, p)
    \/ interruptReading

Spec == Init /\ [][Next]_vars

(* Every thread that can go on does: none of them waits for an event other *)
(* than the progress of another one. Nothing makes a vCPU touch a page, an *)
(* accessor start a call, or the loader be destroyed.                      *)
FairSpec ==
    /\ Spec
    /\ WF_vars(PagefaultStep) /\ WF_vars(ReaderStep)
    /\ \A a \in Accessor : WF_vars(PageStep(a))
-----------------------------------------------------------------------------
PageState == {"Empty", "Reading", "Read", "Filling", "Filled", "Error"}

TypeOK ==
    /\ state \in [Page -> PageState]
    /\ data \in [Page -> Thread \cup {NULL}]
    /\ memory \in [Page -> {"missing", "zeroes", "bytes"}]
    /\ pc \in [Thread -> {"poll", "faults", "background", "scan", "dispatch", "idle", "read",
                          "disk", "fill", "filling", "release", "send", "sendNull", "stop",
                          "clear", "join", "done"}]
    /\ cur \in [Thread -> Page \cup {NULL}]
    /\ last \in [Accessor -> Page \cup {NULL}]
    /\ mBackgroundPageIt \in 1..(PageCount + 1) /\ queued \in 0..QueueSize
    /\ {mSentEndOfPagesMarker, serving, readingStopped, dataStopped, mLoadingCompleted,
        mHasError, mAccessWatch, exit, destroyed} \subseteq BOOLEAN
    /\ mReadingQueue \in Seq(Page \cup {NULL}) /\ Len(mReadingQueue) <= QueueSize
    /\ mReadDataQueue \in Seq(Page \cup {NULL}) /\ Len(mReadDataQueue) <= QueueSize
    /\ fault \in [Guest -> Page \cup {NULL}] /\ unread \subseteq Guest
    /\ errors \in 0..MaxError

(* Whoever reads a page and whoever fills it, the guest sees in it what    *)
(* was saved, as long as the watch exists, and in a filled page also after *)
(* that (StopMeansLoaded is about the others); no page is filled twice, so *)
(* that the loader reports an error only if a read or a fill has really    *)
(* failed.                                                                 *)
SavedPageSeenOnce ==
    /\ \A p \in Page : memory[p] # "missing" /\ (mAccessWatch \/ state[p] = "Filled") =>
          memory[p] = IF p \in ZeroPage THEN "zeroes" ELSE "bytes"
    /\ mHasError => errors > 0

(* "null page == all pages were loaded" (RamLoader.cpp:408), as far as it  *)
(* holds: when the fault thread receives the null page, every page is      *)
(* filled or has failed, or a loadRam call in progress has claimed it.     *)
NullPageMeansClaimed ==
    mLoadingCompleted /\ ~destroyed =>
        \A p \in Page : \/ state[p] \in {"Filled", "Error"}
                        \/ \E a \in Accessor : cur[a] = p

(* The loading comes to an end, whichever read or fill fails and wherever  *)
(* threads wait for each other: for a page, for room in a queue or for the *)
(* other's end.                                                            *)
LoadingEnds == <>~mAccessWatch

(* "null page == all pages were loaded, stop." (RamLoader.cpp:408): once   *)
(* the reader has passed the null page on and has removed the watch, every *)
(* page has been loaded.                                                   *)
StopMeansLoaded ==
    ~mAccessWatch /\ ~mHasError => \A p \in Page : state[p] = "Filled"
=============================================================================
