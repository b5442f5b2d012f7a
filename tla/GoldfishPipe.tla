---------------------------- MODULE GoldfishPipe ----------------------------
(***************************************************************************)
(* The goldfish pipe device, version 2 (hw/misc/goldfish_pipe.c), the      *)
(* PipeWaker that carries wake-ups to it (AndroidPipe.cpp, a               *)
(* DeviceContextRunner) and the snapshots of both.                         *)
(*                                                                         *)
(* A guest process that cannot go on reading or writing a pipe asks to be  *)
(* woken and sleeps.  The service behind the pipe signals the event from   *)
(* any thread; the waker brings it to the device under the VM lock; the    *)
(* device links the pipe into its list of wanted pipes and raises the IRQ; *)
(* the driver's handler fetches the list.  Services are modelled by what   *)
(* AndroidPipe requires of them: the events they were asked to signal and  *)
(* have not signalled yet.  The memory of a freed pipe is used again only  *)
(* when no queued operation names it any more, so that an operation on a   *)
(* freed pipe is told from one on a new pipe.                              *)
(***************************************************************************)
EXTENDS DeviceContextRunner, FiniteSets

CONSTANTS
    Id,              \* pipe ids the guest uses
    Guest,           \* the vCPU
    Event,           \* events a guest may wait for: READ, WRITE
    Service,         \* services, by whether canLoad(): loadable, unloadable
    ServiceOf,       \* bound: the services the guest connects each id to
    BufferSize,      \* signalled_pipe_buffer_size
    InitialCapacity, \* pipes_capacity after realize
    AbortsPending,   \* whether onGuestClose calls abortPendingOperation
    MaxPipe,         \* bound: pipe objects allocated at a time
    MaxPending,      \* bound: operations in the waker's queue
    MaxStopped,      \* bound: pipes whose service has closed its side, at a time
    MaxSave,         \* bound: snapshots taken
    MaxLoad          \* bound: snapshots loaded

Pipe == 1..MaxPipe
NULL == 0
HostThread == Thread \ {MainLoop, Guest}
Flag == Event \cup {"CLOSED"}

ASSUME PipeAssumption ==
    /\ Id \subseteq Nat
    /\ Event \subseteq {"READ", "WRITE"}
    /\ Service \subseteq {"loadable", "unloadable"}
    /\ ServiceOf \in [Id -> SUBSET Service]
    /\ BufferSize \in Nat \ {0} /\ InitialCapacity \in Nat
    /\ MaxPipe \in Nat /\ MaxPending \in Nat /\ MaxStopped \in Nat /\ MaxSave \in Nat /\ MaxLoad \in Nat
    /\ AbortsPending \in BOOLEAN
    /\ Op = [pipe : Pipe, flags : SUBSET Flag]
    /\ Guest \in Thread /\ Guest # MainLoop

VARIABLES
    pipes,              \* dev->pipes: id -> pipe
    pipes_capacity,
    wanted_pipes_first,
    irq,
    id, wanted_next, wanted_prev, wanted, closed, host_pipe,  \* fields of HwPipe
    live,               \* pipes allocated and not freed
    asked,              \* per pipe: events its service has still to signal
    stopped,            \* pipes whose service has closed its side
    waiting,            \* per id: events a guest process sleeps for
    fetched,            \* GET_SIGNALLED in progress: what the buffer holds
    snap,               \* progress of a save or a load
    saved,              \* the snapshot
    cursor,             \* position of the loop of the save or load in progress
    saves, loads

listVars == <<wanted_pipes_first, wanted_next, wanted_prev>>
deviceVars == <<listVars, irq, wanted, closed>>
tableVars == <<pipes, pipes_capacity, id, host_pipe, live>>
serviceVars == <<asked, stopped>>
guestVars == <<waiting, fetched>>
snapVars == <<snap, saved, cursor, saves, loads>>
vars == <<runnerVars, deviceVars, tableVars, serviceVars, guestVars, snapVars>>

Init ==
    /\ RunnerInit
    /\ pipes = [i \in Id |-> NULL]
    /\ pipes_capacity = InitialCapacity
    /\ wanted_pipes_first = NULL
    /\ irq = 0
    /\ id = [p \in Pipe |-> 0]
    /\ wanted_next = [p \in Pipe |-> NULL]
    /\ wanted_prev = [p \in Pipe |-> NULL]
    /\ wanted = [p \in Pipe |-> {}]
    /\ closed = [p \in Pipe |-> FALSE]
    /\ host_pipe = [p \in Pipe |-> "NULL"]
    /\ live = {}
    /\ asked = [p \in Pipe |-> {}]
    /\ stopped = {}
    /\ waiting = [i \in Id |-> {}]
    /\ fetched = {}
    /\ snap = "running"
    /\ saved = [capacity |-> 0, pipes |-> <<>>, list |-> <<>>, waiting |-> waiting]
    /\ cursor = 0
    /\ saves = 0 /\ loads = 0
-----------------------------------------------------------------------------
(* The list of wanted pipes.                                               *)

(* The test by which the code tells whether a pipe is in the list.         *)
InWantedList(p) ==
    wanted_next[p] # NULL \/ wanted_prev[p] # NULL \/ wanted_pipes_first = p

wanted_pipes_add_v2(p) ==
    IF InWantedList(p)
    THEN UNCHANGED listVars
    ELSE /\ wanted_next' = [wanted_next EXCEPT ![p] = wanted_pipes_first]
         /\ wanted_prev' = [q \in Pipe |-> IF q = wanted_pipes_first THEN p ELSE wanted_prev[q]]
         /\ wanted_pipes_first' = p

(* Mutant: the new head keeps its pointer to the pipe that was popped.     *)
wanted_pipes_pop_first_v2_KeepPrev ==
    /\ wanted_pipes_first' = wanted_next[wanted_pipes_first]
    /\ wanted_next' = [wanted_next EXCEPT ![wanted_pipes_first] = NULL]
    /\ UNCHANGED wanted_prev

wanted_pipes_pop_first_v2 ==
    LET next == wanted_next[wanted_pipes_first] IN
    /\ wanted_pipes_first' = next
    /\ wanted_next' = [wanted_next EXCEPT ![wanted_pipes_first] = NULL]
    /\ wanted_prev' = [q \in Pipe |-> IF q = next THEN NULL ELSE wanted_prev[q]]

wanted_pipes_remove_v2(p) ==
    LET next == wanted_next[p]
        prev == wanted_prev[p]
    IN  /\ wanted_prev' = [q \in Pipe |-> IF q = p THEN NULL
                                          ELSE IF q = next THEN prev ELSE wanted_prev[q]]
        /\ wanted_next' = [q \in Pipe |-> IF q = p THEN NULL
                                          ELSE IF q = prev THEN next ELSE wanted_next[q]]
        /\ wanted_pipes_first' = IF prev = NULL /\ wanted_pipes_first = p
                                 THEN next ELSE wanted_pipes_first

goldfish_pipe_signal_wake(p, flags) ==
    /\ wanted' = [wanted EXCEPT ![p] = @ \cup flags]
    /\ wanted_pipes_add_v2(p)
    /\ irq' = 1
    /\ UNCHANGED closed

(* Mutant: a pipe closed by the host is listed without an interrupt.       *)
goldfish_pipe_close_from_host_NoIrq(p) ==
    IF closed[p]
    THEN UNCHANGED deviceVars
    ELSE /\ closed' = [closed EXCEPT ![p] = TRUE]
         /\ wanted' = [wanted EXCEPT ![p] = @ \cup {"CLOSED"}]
         /\ wanted_pipes_add_v2(p)
         /\ UNCHANGED irq

goldfish_pipe_close_from_host(p) ==
    IF closed[p]
    THEN UNCHANGED deviceVars
    ELSE /\ closed' = [closed EXCEPT ![p] = TRUE]
         /\ wanted' = [wanted EXCEPT ![p] = @ \cup {"CLOSED"}]
         /\ wanted_pipes_add_v2(p)
         /\ irq' = 1

(* PipeWaker::performDeviceOperation.                                      *)
performDeviceOperation(op) ==
    IF "CLOSED" \in op.flags
    THEN goldfish_pipe_close_from_host(op.pipe)
    ELSE goldfish_pipe_signal_wake(op.pipe, op.flags)

(* AndroidPipe::signalWake and closeFromHost.                              *)
signalWake(t, p, flags) ==
    queueDeviceOperation(t, [pipe |-> p, flags |-> flags],
                         performDeviceOperation([pipe |-> p, flags |-> flags]),
                         UNCHANGED deviceVars)
-----------------------------------------------------------------------------
(* Services.  An event is signalled in the critical section in which the   *)
(* service forgets that it was asked for it.                               *)

Connected(p) == p \in live /\ host_pipe[p] \in Service

HostEvent(t, p, events) ==
    /\ Connected(p) /\ p \notin stopped
    /\ events # {} /\ events \subseteq asked[p]
    /\ Len(mPending) < MaxPending
    /\ signalWake(t, p, events)
    /\ asked' = [asked EXCEPT ![p] = @ \ events]
    /\ UNCHANGED <<stopped, tableVars, guestVars, snapVars>>

HostClose(t, p) ==
    /\ Connected(p) /\ p \notin stopped
    /\ Len(mPending) < MaxPending /\ Cardinality(stopped) < MaxStopped
    /\ signalWake(t, p, {"CLOSED"})
    /\ stopped' = stopped \cup {p}
    /\ UNCHANGED <<asked, tableVars, guestVars, snapVars>>

startTimer(t) ==
    StartTimer(t) /\ UNCHANGED <<deviceVars, tableVars, serviceVars, guestVars, snapVars>>

timerFires ==
    TimerFires /\ UNCHANGED <<deviceVars, tableVars, serviceVars, guestVars, snapVars>>

timerPerform ==
    /\ TimerPerform
    /\ performDeviceOperation(mPending[mNext])
    /\ UNCHANGED <<tableVars, serviceVars, guestVars, snapVars>>

timerDone ==
    TimerDone /\ UNCHANGED <<deviceVars, tableVars, serviceVars, guestVars, snapVars>>
-----------------------------------------------------------------------------
(* Guest accesses to the registers; each runs under the VM lock.           *)

GuestRuns == snap = "running" /\ vmLock = NoThread

(* Mutant: operations queued for the pipe stay in the waker.               *)
hwpipe_free_KeepPending(freed) ==
    /\ live' = live \ freed
    /\ asked' = [p \in Pipe |-> IF p \in freed THEN {} ELSE asked[p]]
    /\ stopped' = stopped \ freed
    /\ id' = [p \in Pipe |-> IF p \in freed THEN 0 ELSE id[p]]
    /\ wanted' = [p \in Pipe |-> IF p \in freed THEN {} ELSE wanted[p]]
    /\ closed' = [p \in Pipe |-> p \notin freed /\ closed[p]]
    /\ host_pipe' = [p \in Pipe |-> IF p \in freed THEN "NULL" ELSE host_pipe[p]]
    /\ UNCHANGED mPending

(* hwpipe_free on every pipe of a set: guest_close lets the service go.    *)
(* The contents of freed memory are forgotten.                             *)
hwpipe_free(freed) ==
    /\ live' = live \ freed
    /\ asked' = [p \in Pipe |-> IF p \in freed THEN {} ELSE asked[p]]
    /\ stopped' = stopped \ freed
    /\ id' = [p \in Pipe |-> IF p \in freed THEN 0 ELSE id[p]]
    /\ wanted' = [p \in Pipe |-> IF p \in freed THEN {} ELSE wanted[p]]
    /\ closed' = [p \in Pipe |-> p \notin freed /\ closed[p]]
    /\ host_pipe' = [p \in Pipe |-> IF p \in freed THEN "NULL" ELSE host_pipe[p]]
    /\ mPending' = IF AbortsPending
                   THEN SelectSeq(mPending, LAMBDA op : op.pipe \notin freed)
                   ELSE mPending

Unused == (Pipe \ live) \ {mPending[k].pipe : k \in DOMAIN mPending}

(* hwpipe_new0.                                                            *)
NewPipe == CHOOSE p \in Unused : \A q \in Unused : p <= q

(* Mutant: the array grows to twice its capacity, whatever the id.         *)
PipeCmdOpen_Doubles(i) ==
    LET p == NewPipe IN
    /\ GuestRuns
    /\ ~(i < pipes_capacity /\ pipes[i] # NULL)
    /\ Unused # {}
    /\ live' = live \cup {p}
    /\ pipes_capacity' = IF i < pipes_capacity THEN pipes_capacity
                         ELSE 2 * pipes_capacity
    /\ pipes' = [pipes EXCEPT ![i] = p]
    /\ id' = [id EXCEPT ![p] = i]
    /\ host_pipe' = [host_pipe EXCEPT ![p] = "connector"]
    /\ UNCHANGED <<runnerVars, deviceVars, serviceVars, guestVars, snapVars>>

(* pipeDevice_doOpenClose_v2: guest_open creates a ConnectorPipe.          *)
PipeCmdOpen(i) ==
    LET p == NewPipe IN
    /\ GuestRuns
    /\ ~(i < pipes_capacity /\ pipes[i] # NULL)
    /\ Unused # {}
    /\ live' = live \cup {p}
    /\ pipes_capacity' = IF i < pipes_capacity THEN pipes_capacity
                         ELSE IF i + 1 > 2 * pipes_capacity THEN i + 1
                         ELSE 2 * pipes_capacity
    /\ pipes' = [pipes EXCEPT ![i] = p]
    /\ id' = [id EXCEPT ![p] = i]
    /\ host_pipe' = [host_pipe EXCEPT ![p] = "connector"]
    /\ UNCHANGED <<runnerVars, deviceVars, serviceVars, guestVars, snapVars>>

(* PIPE_CMD_WRITE of the service name: ConnectorPipe::onGuestSend creates  *)
(* the service's pipe and goldfish_pipe_reset installs it.                 *)
goldfish_pipe_reset(i, service) ==
    /\ GuestRuns
    /\ pipes[i] # NULL
    /\ ~closed[pipes[i]]
    /\ host_pipe[pipes[i]] = "connector"
    /\ host_pipe' = [host_pipe EXCEPT ![pipes[i]] = service]
    /\ UNCHANGED <<pipes, pipes_capacity, id, live, runnerVars, deviceVars,
                   serviceVars, guestVars, snapVars>>

PipeCmdClose(i) ==
    /\ GuestRuns
    /\ pipes[i] # NULL
    /\ pipes' = [pipes EXCEPT ![i] = NULL]
    /\ wanted_pipes_remove_v2(pipes[i])
    /\ hwpipe_free({pipes[i]})
    /\ waiting' = [waiting EXCEPT ![i] = {}]
    /\ UNCHANGED <<vmLock, mContextRunMode, mTimer, mNext, arming, pipes_capacity,
                   irq, fetched, snapVars>>

(* PIPE_CMD_WAKE_ON_READ and PIPE_CMD_WAKE_ON_WRITE.  The driver sends     *)
(* them when a transfer has returned PIPE_ERROR_AGAIN, which a connector   *)
(* never does.  onGuestWantWakeOn signals the events available now and     *)
(* keeps the others in mind.                                               *)
PipeCmdWakeOn(i, event, available) ==
    LET p == pipes[i] IN
    /\ GuestRuns
    /\ p # NULL
    /\ host_pipe[p] # "connector"
    /\ ~closed[p]
    /\ waiting' = [waiting EXCEPT ![i] = @ \cup {event}]
    /\ IF event \in wanted[p]
       THEN available = {} /\ UNCHANGED <<asked, deviceVars>>
       ELSE LET flags == (wanted[p] \cup {event}) \cap Event IN
            /\ available \subseteq flags
            /\ asked' = [asked EXCEPT ![p] = @ \cup (flags \ available)]
            /\ IF available = {}
               THEN /\ wanted' = [wanted EXCEPT ![p] = @ \cup {event}]
                    /\ UNCHANGED <<listVars, irq, closed>>
               ELSE goldfish_pipe_signal_wake(p, available \cup {event})
    /\ UNCHANGED <<stopped, fetched, runnerVars, tableVars, snapVars>>

(* A read of PIPE_REG_VERSION, by the driver of a freshly booted guest:    *)
(* close_all_pipes_v2 and reset_pipe_device.                               *)
PipeRegVersion ==
    /\ GuestRuns
    /\ pipes' = [i \in Id |-> NULL]
    /\ hwpipe_free(live)
    /\ wanted_pipes_first' = NULL
    /\ wanted_next' = [p \in Pipe |-> NULL]
    /\ wanted_prev' = [p \in Pipe |-> NULL]
    /\ irq' = 0
    /\ waiting' = [i \in Id |-> {}]
    /\ UNCHANGED <<vmLock, mContextRunMode, mTimer, mNext, arming, pipes_capacity,
                   fetched, snapVars>>

(* The interrupt handler reads PIPE_REG_GET_SIGNALLED; one step per pipe.  *)
GetSignalledBegin ==
    /\ snap = "running"
    /\ irq = 1
    /\ LockVm(Guest)
    /\ UNCHANGED <<deviceVars, tableVars, serviceVars, guestVars, snapVars>>

(* Mutant: the flags of a reported pipe are not cleared.                   *)
GetSignalledPop_KeepWanted ==
    LET p == wanted_pipes_first IN
    /\ vmLock = Guest
    /\ Cardinality(fetched) < BufferSize
    /\ p # NULL
    /\ wanted_pipes_pop_first_v2
    /\ fetched' = fetched \cup {[id |-> id[p], flags |-> wanted[p]]}
    /\ UNCHANGED <<irq, wanted, closed, waiting, runnerVars, tableVars, serviceVars, snapVars>>

GetSignalledPop ==
    LET p == wanted_pipes_first IN
    /\ vmLock = Guest
    /\ Cardinality(fetched) < BufferSize
    /\ p # NULL
    /\ wanted_pipes_pop_first_v2
    /\ fetched' = fetched \cup {[id |-> id[p], flags |-> wanted[p]]}
    /\ wanted' = [wanted EXCEPT ![p] = {}]
    /\ UNCHANGED <<irq, closed, waiting, runnerVars, tableVars, serviceVars, snapVars>>

(* Mutant: the IRQ is lowered although the buffer did not hold all pipes.  *)
GetSignalledEnd_AlwaysLower ==
    /\ Cardinality(fetched) = BufferSize \/ wanted_pipes_first = NULL
    /\ UnlockVm(Guest)
    /\ irq' = 0
    /\ waiting' = [i \in Id |-> {e \in waiting[i] :
                      \A s \in fetched : s.id = i => s.flags \cap {e, "CLOSED"} = {}}]
    /\ fetched' = {}
    /\ UNCHANGED <<listVars, wanted, closed, tableVars, serviceVars, snapVars>>

(* The read returns; the driver wakes the processes the buffer names.      *)
GetSignalledEnd ==
    /\ Cardinality(fetched) = BufferSize \/ wanted_pipes_first = NULL
    /\ UnlockVm(Guest)
    /\ irq' = IF wanted_pipes_first = NULL THEN 0 ELSE irq
    /\ waiting' = [i \in Id |-> {e \in waiting[i] :
                      \A s \in fetched : s.id = i => s.flags \cap {e, "CLOSED"} = {}}]
    /\ fetched' = {}
    /\ UNCHANGED <<listVars, wanted, closed, tableVars, serviceVars, snapVars>>
-----------------------------------------------------------------------------
(* Snapshots, on the main loop thread under the VM lock.  Services keep    *)
(* running, and may queue operations between two steps.                    *)

(* The n-th pipe of the list, counting from 0; NULL beyond its end.        *)
Chain[n \in 0..MaxPipe] ==
    IF n = 0 THEN wanted_pipes_first
    ELSE IF Chain[n-1] = NULL THEN NULL ELSE wanted_next[Chain[n-1]]

WantedPipes == SelectSeq([n \in 1..MaxPipe |-> Chain[n-1]], LAMBDA p : p # NULL)

goldfish_pipe_save ==
    /\ snap = "running"
    /\ saves < MaxSave
    /\ LockVm(MainLoop)
    /\ snap' = "savePipe"
    /\ saves' = saves + 1
    /\ cursor' = 0
    /\ saved' = [capacity |-> pipes_capacity, pipes |-> <<>>, list |-> <<>>,
                 waiting |-> waiting]
    /\ UNCHANGED <<loads, deviceVars, tableVars, serviceVars, guestVars>>

(* Ids whose pipes goldfish_pipe_save_v2 has still to write.               *)
Unsaved == {i \in Id : cursor <= i /\ i < pipes_capacity /\ pipes[i] # NULL}

NextUnsaved == CHOOSE i \in Unsaved : \A j \in Unsaved : i <= j

PendingFlags(p) ==
    UNION {mPending[k].flags : k \in {k \in DOMAIN mPending : mPending[k].pipe = p}}

(* What is written for a pipe: its fields, the service's state, and flags. *)
SavedFields(p, flags) ==
    [id |-> id[p], closed |-> closed[p], wanted |-> wanted[p], host |-> host_pipe[p],
     asked |-> asked[p], stopped |-> p \in stopped, pending |-> flags]

(* Mutant: saveToStream writes the pending flags before onSave.            *)
saveToStream_FlagsFirst ==
    LET p == IF snap = "savePipe" THEN pipes[NextUnsaved]
             ELSE pipes[saved.pipes[Len(saved.pipes)].id]
    IN
    /\ \/ /\ snap = "savePipe"
          /\ Unsaved # {}
          /\ saved' = [saved EXCEPT !.pipes = Append(@, SavedFields(p, PendingFlags(p)))]
          /\ snap' = IF host_pipe[p] = "NULL" THEN "savePipe" ELSE "saveFlags"
          /\ cursor' = NextUnsaved + 1
       \/ /\ snap = "saveFlags"
          /\ saved' = [saved EXCEPT !.pipes[Len(saved.pipes)] = SavedFields(p, @.pending)]
          /\ snap' = "savePipe"
          /\ UNCHANGED cursor
    /\ UNCHANGED <<saves, loads, runnerVars, deviceVars, tableVars, serviceVars, guestVars>>

(* One round of the loop of goldfish_pipe_save_v2, in two steps:           *)
(* AndroidPipe::saveToStream calls the service's onSave, and then reads    *)
(* the flags that the waker still holds for the pipe.                      *)
saveToStream ==
    LET p == IF snap = "savePipe" THEN pipes[NextUnsaved]
             ELSE pipes[saved.pipes[Len(saved.pipes)].id]
    IN
    /\ \/ /\ snap = "savePipe"
          /\ Unsaved # {}
          /\ saved' = [saved EXCEPT !.pipes = Append(@, SavedFields(p, {}))]
          /\ snap' = IF host_pipe[p] = "NULL" THEN "savePipe" ELSE "saveFlags"
          /\ cursor' = NextUnsaved + 1
       \/ /\ snap = "saveFlags"
          /\ saved' = [saved EXCEPT !.pipes[Len(saved.pipes)].pending = PendingFlags(p)]
          /\ snap' = "savePipe"
          /\ UNCHANGED cursor
    /\ UNCHANGED <<saves, loads, runnerVars, deviceVars, tableVars, serviceVars, guestVars>>

saveWantedList ==
    /\ snap = "savePipe"
    /\ Unsaved = {}
    /\ saved' = [saved EXCEPT !.list = [n \in DOMAIN WantedPipes |-> id[WantedPipes[n]]]]
    /\ snap' = "running"
    /\ UnlockVm(MainLoop)
    /\ UNCHANGED <<cursor, saves, loads, deviceVars, tableVars, serviceVars, guestVars>>

(* The pipes array has the capacity it had when the snapshot was taken,    *)
(* and holds no pipe: it is a new one, or all its pipes have been closed.  *)
loadArray ==
    /\ pipes' = [i \in Id |-> NULL]
    /\ pipes_capacity' = saved.capacity

(* goldfish_pipe_load up to the loop over the pipes: the old pipes are     *)
(* closed, and android_pipe_guest_pre_load defers all operations.  The     *)
(* guest's memory is that of the snapshot.                                 *)
goldfish_pipe_load ==
    /\ snap = "running"
    /\ saves > 0 /\ loads < MaxLoad
    /\ vmLock = NoThread
    /\ LockFree
    /\ vmLock' = MainLoop
    /\ mContextRunMode' = "DeferAlways"
    /\ loads' = loads + 1
    /\ snap' = "loadPipe"
    /\ cursor' = 1
    /\ loadArray
    /\ hwpipe_free(live)
    /\ wanted_pipes_first' = NULL
    /\ wanted_next' = [p \in Pipe |-> NULL]
    /\ wanted_prev' = [p \in Pipe |-> NULL]
    /\ waiting' = saved.waiting
    /\ UNCHANGED <<mTimer, mNext, arming, irq, fetched, saved, saves>>

ForceClose(r) == r.host \in {"unloadable", "NULL"}

(* Mutant: a pipe without a host pipe stays open.                          *)
loadPipe_LeftOpen ==
    LET r == saved.pipes[cursor]
        p == NewPipe
    IN
    /\ snap = "loadPipe"
    /\ cursor \in DOMAIN saved.pipes
    /\ Unused # {}
    /\ cursor' = cursor + 1
    /\ live' = live \cup {p}
    /\ pipes' = [pipes EXCEPT ![r.id] = p]
    /\ id' = [id EXCEPT ![p] = r.id]
    /\ wanted' = [wanted EXCEPT ![p] = r.wanted]
    /\ closed' = [closed EXCEPT ![p] = r.closed]
    /\ host_pipe' = [host_pipe EXCEPT ![p] = IF ForceClose(r) THEN "NULL" ELSE r.host]
    /\ asked' = [asked EXCEPT ![p] = IF ForceClose(r) THEN {} ELSE r.asked]
    /\ stopped' = IF r.stopped /\ ~ForceClose(r) THEN stopped \cup {p} ELSE stopped
    /\ MainLoop \notin arming
    /\ IF r.pending # {} /\ ~ForceClose(r)
       THEN PushPending(MainLoop, [pipe |-> p, flags |-> r.pending])
       ELSE UNCHANGED runnerVars
    /\ UNCHANGED <<listVars, irq, pipes_capacity, guestVars, snap, saved, saves, loads>>

(* One round of the loop of goldfish_pipe_load_v2: guest_load restores the *)
(* service's pipe if the service can load, and signals the flags that were *)
(* pending.                                                                *)
loadPipe ==
    LET r == saved.pipes[cursor]
        p == NewPipe
    IN
    /\ snap = "loadPipe"
    /\ cursor \in DOMAIN saved.pipes
    /\ Unused # {}
    /\ cursor' = cursor + 1
    /\ live' = live \cup {p}
    /\ pipes' = [pipes EXCEPT ![r.id] = p]
    /\ id' = [id EXCEPT ![p] = r.id]
    /\ wanted' = [wanted EXCEPT ![p] = r.wanted]
    /\ closed' = [closed EXCEPT ![p] = r.closed \/ ForceClose(r)]
    /\ host_pipe' = [host_pipe EXCEPT ![p] = IF ForceClose(r) THEN "NULL" ELSE r.host]
    /\ asked' = [asked EXCEPT ![p] = IF ForceClose(r) THEN {} ELSE r.asked]
    /\ stopped' = IF r.stopped /\ ~ForceClose(r) THEN stopped \cup {p} ELSE stopped
    /\ MainLoop \notin arming
    /\ IF r.pending # {} /\ ~ForceClose(r)
       THEN PushPending(MainLoop, [pipe |-> p, flags |-> r.pending])
       ELSE UNCHANGED runnerVars
    /\ UNCHANGED <<listVars, irq, pipes_capacity, guestVars, snap, saved, saves, loads>>

loadPipesDone ==
    /\ snap = "loadPipe"
    /\ cursor = Len(saved.pipes) + 1
    /\ MainLoop \notin arming
    /\ snap' = "loadList"
    /\ cursor' = 1
    /\ UNCHANGED <<runnerVars, deviceVars, tableVars, serviceVars, guestVars, saved, saves,
                   loads>>

loadWantedPipe ==
    /\ snap = "loadList"
    /\ cursor \in DOMAIN saved.list
    /\ wanted_pipes_add_v2(pipes[saved.list[cursor]])
    /\ cursor' = cursor + 1
    /\ UNCHANGED <<irq, wanted, closed, runnerVars, tableVars, serviceVars, guestVars, snap,
                   saved, saves, loads>>

loadListDone ==
    /\ snap = "loadList"
    /\ cursor = Len(saved.list) + 1
    /\ snap' = "loadForced"
    /\ cursor' = 1
    /\ UNCHANGED <<runnerVars, deviceVars, tableVars, serviceVars, guestVars, saved, saves,
                   loads>>

(* Forcibly closed pipes are added to the wanted list.                     *)
loadForceClosed ==
    /\ snap = "loadForced"
    /\ cursor \in DOMAIN saved.pipes
    /\ IF ForceClose(saved.pipes[cursor])
       THEN LET p == pipes[saved.pipes[cursor].id] IN
            /\ wanted' = [wanted EXCEPT ![p] = @ \cup {"CLOSED"}]
            /\ closed' = [closed EXCEPT ![p] = TRUE]
            /\ wanted_pipes_add_v2(p)
            /\ UNCHANGED irq
       ELSE UNCHANGED deviceVars
    /\ cursor' = cursor + 1
    /\ UNCHANGED <<runnerVars, tableVars, serviceVars, guestVars, snap, saved, saves, loads>>

(* android_pipe_guest_post_load, and goldfish_pipe_post_load once all VM   *)
(* state has been loaded.                                                  *)
goldfish_pipe_post_load ==
    /\ snap = "loadForced"
    /\ cursor = Len(saved.pipes) + 1
    /\ LockFree
    /\ mContextRunMode' = "DeferIfNotLocked"
    /\ vmLock' = NoThread
    /\ irq' = 1
    /\ snap' = "running"
    /\ UNCHANGED <<mPending, mTimer, mNext, arming, listVars, wanted, closed, tableVars,
                   serviceVars, guestVars, cursor, saved, saves, loads>>
-----------------------------------------------------------------------------
Next ==
    \/ \E t \in HostThread, p \in Pipe :
          HostClose(t, p) \/ \E events \in SUBSET Event : HostEvent(t, p, events)
    \/ \E t \in HostThread \cup {MainLoop} : startTimer(t)
    \/ timerFires \/ timerPerform \/ timerDone
    \/ \E i \in Id :
          \/ PipeCmdOpen(i)
          \/ PipeCmdClose(i)
          \/ \E service \in ServiceOf[i] : goldfish_pipe_reset(i, service)
          \/ \E event \in Event, available \in SUBSET Event :
                PipeCmdWakeOn(i, event, available)
    \/ PipeRegVersion \/ GetSignalledBegin \/ GetSignalledPop \/ GetSignalledEnd
    \/ goldfish_pipe_save \/ saveToStream \/ saveWantedList
    \/ goldfish_pipe_load \/ loadPipe \/ loadPipesDone \/ loadWantedPipe \/ loadListDone
    \/ loadForceClosed \/ goldfish_pipe_post_load

Spec == Init /\ [][Next]_vars

(* The main loop and the vCPU take turns at the VM lock: the vCPU gives it *)
(* up while it runs guest code, the main loop while it polls.              *)
Fairness ==
    /\ \A t \in HostThread \cup {MainLoop} : WF_vars(startTimer(t))
    /\ SF_vars(timerFires) /\ WF_vars(timerPerform) /\ WF_vars(timerDone)
    /\ SF_vars(GetSignalledBegin) /\ WF_vars(GetSignalledPop) /\ WF_vars(GetSignalledEnd)

FairSpec == Spec /\ Fairness
-----------------------------------------------------------------------------
Loading == snap \in {"loadPipe", "loadList", "loadForced"}

SavedPipe ==
    [id : Id, closed : BOOLEAN, wanted : SUBSET Flag,
     host : Service \cup {"connector", "NULL"}, asked : SUBSET Event,
     stopped : BOOLEAN, pending : SUBSET Flag]

(* Every variable has its type, and an open pipe is in the pipes array at  *)
(* the index pipe->id, below pipes_capacity.                               *)
TypeOK ==
    /\ RunnerTypeOK
    /\ pipes \in [Id -> Pipe \cup {NULL}]
    /\ pipes_capacity \in Nat
    /\ \A i \in Id : pipes[i] # NULL => /\ pipes[i] \in live
                                       /\ id[pipes[i]] = i
                                       /\ i < pipes_capacity
    /\ wanted_pipes_first \in Pipe \cup {NULL}
    /\ irq \in {0, 1}
    /\ id \in [Pipe -> Id \cup {0}]
    /\ wanted_next \in [Pipe -> Pipe \cup {NULL}]
    /\ wanted_prev \in [Pipe -> Pipe \cup {NULL}]
    /\ wanted \in [Pipe -> SUBSET Flag]
    /\ closed \in [Pipe -> BOOLEAN]
    /\ host_pipe \in [Pipe -> Service \cup {"connector", "NULL"}]
    /\ live \subseteq Pipe
    /\ asked \in [Pipe -> SUBSET Event]
    /\ stopped \subseteq Pipe
    /\ waiting \in [Id -> SUBSET Event]
    /\ fetched \subseteq [id : Id, flags : SUBSET Flag]
    /\ snap \in {"running", "savePipe", "saveFlags", "loadPipe", "loadList", "loadForced"}
    /\ saved.capacity \in Nat
    /\ saved.pipes \in Seq(SavedPipe)
    /\ saved.list \in Seq(Id)
    /\ saved.waiting \in [Id -> SUBSET Event]
    /\ cursor \in Nat
    /\ saves \in 0..MaxSave /\ loads \in 0..MaxLoad

(* The wanted list is well formed at all times: its head has no            *)
(* predecessor (the assertion in wanted_pipes_pop_first_v2), the two       *)
(* pointers are each other's inverse, and a pipe with no predecessor is    *)
(* listed only as the head, so that the three-part test in                 *)
(* wanted_pipes_add_v2 tells exactly whether a pipe is in the list.        *)
(* GET_SIGNALLED, which pops from the head, reaches every pipe that tests  *)
(* as listed and comes to an end.                                          *)
WantedListShape ==
    /\ wanted_pipes_first # NULL => wanted_prev[wanted_pipes_first] = NULL
    /\ \A p \in Pipe :
          /\ wanted_next[p] # NULL => wanted_prev[wanted_next[p]] = p
          /\ wanted_prev[p] # NULL => wanted_next[wanted_prev[p]] = p
          /\ wanted_next[p] # NULL /\ wanted_prev[p] = NULL => wanted_pipes_first = p
          /\ InWantedList(p) => \E n \in 0..MaxPipe : Chain[n] = p
    /\ Chain[MaxPipe] = NULL

(* No operation queued in the waker names a pipe that was freed.  It rests *)
(* on onGuestClose calling abortPendingOperation.                          *)
NoDanglingOperation == \A k \in DOMAIN mPending : mPending[k].pipe \in live

(* A pipe without a host pipe is closed, so that no command of the guest   *)
(* but PIPE_CMD_CLOSE reaches service_ops with a null pointer.             *)
HostPipePresent == \A p \in live : host_pipe[p] = "NULL" => closed[p]

(* The device is about to report event e, or the end of the pipe, to the   *)
(* guest.                                                                  *)
Reporting(p, e) ==
    \/ InWantedList(p) /\ wanted[p] \cap {e, "CLOSED"} # {}
    \/ \E s \in fetched : s.id = id[p] /\ s.flags \cap {e, "CLOSED"} # {}
    \/ \E k \in DOMAIN mPending : /\ k >= mNext
                                  /\ mPending[k].pipe = p
                                  /\ mPending[k].flags \cap {e, "CLOSED"} # {}

(* No wake-up is lost: an event a guest process sleeps for is one that its *)
(* service still has to signal, or it is on its way to the guest, whatever *)
(* the order of WAKE_ON commands, signals from other threads, timer events *)
(* and interrupts, and across a save and a load.                           *)
NoLostWakeup ==
    ~Loading =>
        \A i \in Id : \A e \in waiting[i] :
            /\ pipes[i] # NULL
            /\ \/ e \in asked[pipes[i]] /\ pipes[i] \notin stopped
               \/ Reporting(pipes[i], e)

(* A sleeping process whose event has been signalled, or whose pipe was    *)
(* closed by the host, wakes up: the waker's timer brings the event to the *)
(* device and the interrupt handler fetches it.  It needs a buffer with    *)
(* room for every pipe (BufferSize >= Cardinality(Id)): the list is last   *)
(* in, first out, and with a smaller one its tail may never be reported.   *)
Signalled(i, e) ==
    /\ pipes[i] # NULL
    /\ e \in waiting[i]
    /\ e \notin asked[pipes[i]] \/ pipes[i] \in stopped

SignalledWakes ==
    \A i \in Id, e \in Event : Signalled(i, e) ~> (e \notin waiting[i])
-----------------------------------------------------------------------------
Listed == {p \in Pipe : InWantedList(p)}
Wakeups == INSTANCE PipeWakeups
    WITH Pipes <- Pipe, open <- live, signalled <- Listed, line <- irq, loading <- Loading

(* The doubly linked list, with its test for membership, and the handling  *)
(* of the IRQ implement the set of pipes to report of PipeWakeups: no step *)
(* of the device, the waker or a load adds a closed pipe to the set, or    *)
(* loses one that was neither reported nor closed.                         *)
ImplementsWakeups == Wakeups!Spec
=============================================================================
