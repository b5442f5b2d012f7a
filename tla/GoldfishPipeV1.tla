--------------------------- MODULE GoldfishPipeV1 ---------------------------
(***************************************************************************)
(* Version 1 of the goldfish pipe device (hw/misc/goldfish_pipe.c), for    *)
(* guests with an old driver.  Pipes are named by a channel, a 64-bit      *)
(* handle, and the interrupt handler fetches signalled pipes one at a      *)
(* time, in three register reads: the high half of the channel, its low    *)
(* half, and the flags.  Between the reads the device keeps the pipe in    *)
(* wanted_pipe_after_channel_high.                                         *)
(*                                                                         *)
(* Each action is one access under the VM lock.  The waker (see            *)
(* GoldfishPipe) is left out: a service's signal is one action here.       *)
(***************************************************************************)
EXTENDS Naturals, FiniteSets, SequencesExt

CONSTANTS
    Channel,    \* channels the guest uses
    Event,      \* events a guest may wait for: READ, WRITE
    Service,    \* services, by whether canLoad(): loadable, unloadable
    ServiceOf,  \* bound: the services the guest connects each channel to
    MaxPipe     \* bound: pipe objects allocated at a time

Pipe == 1..MaxPipe
NULL == 0
Flag == Event \cup {"CLOSED"}

ASSUME V1Assumption ==
    /\ NULL \notin Channel
    /\ Event \subseteq {"READ", "WRITE"}
    /\ Service \subseteq {"loadable", "unloadable"}
    /\ ServiceOf \in [Channel -> SUBSET Service]
    /\ MaxPipe \in Nat

VARIABLES
    pipes_by_channel,
    pipes_list,          \* the list linked by pipe->next, head first
    wanted_pipes_first,
    wanted_pipe_after_channel_high,
    irq,
    wakes,               \* the PIPE_REG_WAKES register
    channel, wanted_next, wanted_prev, wanted, closed, host_pipe,  \* fields of HwPipe
    live,                \* pipes allocated and not freed
    asked,               \* per pipe: events its service has still to signal
    waiting,             \* per channel: events a guest process sleeps for
    handler,             \* the guest's interrupt handler: next read, halves read
    mislinked            \* history: a load has built a list that is not doubly linked

listVars == <<wanted_pipes_first, wanted_pipe_after_channel_high, wanted_next, wanted_prev>>
tableVars == <<pipes_by_channel, pipes_list, channel, host_pipe, live>>
flagVars == <<irq, wakes, wanted, closed>>
guestVars == <<waiting, handler>>
vars == <<listVars, tableVars, flagVars, asked, guestVars, mislinked>>

Idle == [pc |-> "idle", high |-> NULL, low |-> NULL]

Init ==
    /\ pipes_by_channel = [c \in Channel |-> NULL]
    /\ pipes_list = <<>>
    /\ wanted_pipes_first = NULL
    /\ wanted_pipe_after_channel_high = NULL
    /\ irq = 0
    /\ wakes = {}
    /\ channel = [p \in Pipe |-> NULL]
    /\ wanted_next = [p \in Pipe |-> NULL]
    /\ wanted_prev = [p \in Pipe |-> NULL]
    /\ wanted = [p \in Pipe |-> {}]
    /\ closed = [p \in Pipe |-> FALSE]
    /\ host_pipe = [p \in Pipe |-> "NULL"]
    /\ live = {}
    /\ asked = [p \in Pipe |-> {}]
    /\ waiting = [c \in Channel |-> {}]
    /\ handler = Idle
    /\ mislinked = FALSE
-----------------------------------------------------------------------------
(* The list of wanted pipes.                                               *)

(* No pipe that was freed is still linked.  What an operation on the list  *)
(* does with freed memory is undefined; it is not followed.                *)
LinksLive ==
    {wanted_pipes_first, wanted_pipe_after_channel_high}
        \cup UNION {{wanted_next[p], wanted_prev[p]} : p \in live} \subseteq live \cup {NULL}

wanted_pipes_add_v1(p) ==
    IF \/ wanted_next[p] # NULL \/ wanted_prev[p] # NULL
       \/ p \in {wanted_pipes_first, wanted_pipe_after_channel_high}
    THEN UNCHANGED listVars
    ELSE /\ LinksLive
         /\ wanted_next' = [wanted_next EXCEPT ![p] = wanted_pipes_first]
         /\ wanted_prev' = [q \in Pipe |-> IF q = wanted_pipes_first THEN p ELSE wanted_prev[q]]
         /\ wanted_pipes_first' = p
         /\ UNCHANGED wanted_pipe_after_channel_high

(* Mutant: the list has precedence over the pipe kept for this read.       *)
FirstWanted_ListFirst ==
    IF wanted_pipes_first # NULL THEN wanted_pipes_first
    ELSE wanted_pipe_after_channel_high

(* The pipe that wanted_pipes_pop_first_v1 returns.                        *)
FirstWanted ==
    IF wanted_pipe_after_channel_high # NULL THEN wanted_pipe_after_channel_high
    ELSE wanted_pipes_first

(* wanted_pipes_pop_first_v1; the caller keeps the pipe in held or not.    *)
(* The emulator ends when the assertion on wanted_prev fails.              *)
wanted_pipes_pop_first_v1(held) ==
    /\ LinksLive
    /\ wanted_pipe_after_channel_high' = held
    /\ IF wanted_pipe_after_channel_high # NULL \/ wanted_pipes_first = NULL
       THEN UNCHANGED <<wanted_pipes_first, wanted_next, wanted_prev>>
       ELSE LET next == wanted_next[wanted_pipes_first] IN
            /\ wanted_prev[wanted_pipes_first] = NULL
            /\ wanted_pipes_first' = next
            /\ wanted_next' = [wanted_next EXCEPT ![wanted_pipes_first] = NULL]
            /\ wanted_prev' = [q \in Pipe |-> IF q = next THEN NULL ELSE wanted_prev[q]]

(* Mutant: the pipe's predecessor stays linked to it.                      *)
wanted_pipes_remove_v1_KeepLink(p) ==
    LET next == wanted_next[p]
        prev == wanted_prev[p]
    IN  /\ LinksLive
        /\ wanted_prev' = [q \in Pipe |-> IF q = p THEN NULL
                                          ELSE IF q = next THEN prev ELSE wanted_prev[q]]
        /\ wanted_next' = [wanted_next EXCEPT ![p] = NULL]
        /\ wanted_pipes_first' = IF prev = NULL /\ wanted_pipes_first = p
                                 THEN next ELSE wanted_pipes_first
        /\ wanted_pipe_after_channel_high' =
                IF wanted_pipe_after_channel_high = p THEN NULL ELSE wanted_pipe_after_channel_high

wanted_pipes_remove_v1(p) ==
    LET next == wanted_next[p]
        prev == wanted_prev[p]
    IN  /\ LinksLive
        /\ wanted_prev' = [q \in Pipe |-> IF q = p THEN NULL
                                          ELSE IF q = next THEN prev ELSE wanted_prev[q]]
        /\ wanted_next' = [q \in Pipe |-> IF q = p THEN NULL
                                          ELSE IF q = prev THEN next ELSE wanted_next[q]]
        /\ wanted_pipes_first' = IF prev = NULL /\ wanted_pipes_first = p
                                 THEN next ELSE wanted_pipes_first
        /\ wanted_pipe_after_channel_high' =
              IF wanted_pipe_after_channel_high = p THEN NULL
              ELSE wanted_pipe_after_channel_high
-----------------------------------------------------------------------------
(* Signals of services, brought to the device by the waker.                *)

goldfish_pipe_signal_wake(p, flags) ==
    /\ wanted' = [wanted EXCEPT ![p] = @ \cup flags]
    /\ wanted_pipes_add_v1(p)
    /\ irq' = 1

Connected(p) == p \in live /\ host_pipe[p] \in Service

HostEvent(p, events) ==
    /\ Connected(p)
    /\ events # {} /\ events \subseteq asked[p]
    /\ goldfish_pipe_signal_wake(p, events)
    /\ asked' = [asked EXCEPT ![p] = @ \ events]
    /\ UNCHANGED <<wakes, closed, tableVars, guestVars, mislinked>>

goldfish_pipe_close_from_host(p) ==
    /\ Connected(p)
    /\ ~closed[p]
    /\ closed' = [closed EXCEPT ![p] = TRUE]
    /\ goldfish_pipe_signal_wake(p, {"CLOSED"})
    /\ UNCHANGED <<wakes, asked, tableVars, guestVars, mislinked>>
-----------------------------------------------------------------------------
(* Commands of the guest.                                                  *)

(* The driver's lock keeps commands out of its interrupt handler.          *)
GuestRuns == handler = Idle

(* hwpipe_free on every pipe of a set; freed memory is forgotten.          *)
hwpipe_free(freed) ==
    /\ live' = live \ freed
    /\ asked' = [p \in Pipe |-> IF p \in freed THEN {} ELSE asked[p]]
    /\ channel' = [p \in Pipe |-> IF p \in freed THEN NULL ELSE channel[p]]
    /\ wanted' = [p \in Pipe |-> IF p \in freed THEN {} ELSE wanted[p]]
    /\ closed' = [p \in Pipe |-> p \notin freed /\ closed[p]]
    /\ host_pipe' = [p \in Pipe |-> IF p \in freed THEN "NULL" ELSE host_pipe[p]]

(* hwpipe_new0.                                                            *)
NewPipe == CHOOSE p \in Pipe \ live : \A q \in Pipe \ live : p <= q

PipeCmdOpen(c) ==
    /\ GuestRuns
    /\ pipes_by_channel[c] = NULL
    /\ live # Pipe /\ LinksLive
    /\ live' = live \cup {NewPipe}
    /\ channel' = [channel EXCEPT ![NewPipe] = c]
    /\ host_pipe' = [host_pipe EXCEPT ![NewPipe] = "connector"]
    /\ pipes_list' = <<NewPipe>> \o pipes_list
    /\ pipes_by_channel' = [pipes_by_channel EXCEPT ![c] = NewPipe]
    /\ UNCHANGED <<listVars, flagVars, asked, guestVars, mislinked>>

(* The service name is written: ConnectorPipe::onGuestSend.                *)
goldfish_pipe_reset(c, service) ==
    LET p == pipes_by_channel[c] IN
    /\ GuestRuns
    /\ p # NULL /\ ~closed[p] /\ host_pipe[p] = "connector"
    /\ host_pipe' = [host_pipe EXCEPT ![p] = service]
    /\ UNCHANGED <<pipes_by_channel, pipes_list, channel, live, listVars, flagVars, asked,
                   guestVars, mislinked>>

(* Mutant: the channel stays in the hash table.                            *)
PipeCmdClose_KeepHash(c) ==
    LET p == pipes_by_channel[c] IN
    /\ GuestRuns
    /\ p # NULL
    /\ pipes_list' = SelectSeq(pipes_list, LAMBDA q : q # p)
    /\ wanted_pipes_remove_v1(p)
    /\ hwpipe_free({p})
    /\ waiting' = [waiting EXCEPT ![c] = {}]
    /\ UNCHANGED <<irq, wakes, handler, pipes_by_channel, mislinked>>

PipeCmdClose(c) ==
    LET p == pipes_by_channel[c] IN
    /\ GuestRuns
    /\ p # NULL
    /\ pipes_list' = SelectSeq(pipes_list, LAMBDA q : q # p)
    /\ pipes_by_channel' = [pipes_by_channel EXCEPT ![c] = NULL]
    /\ wanted_pipes_remove_v1(p)
    /\ hwpipe_free({p})
    /\ waiting' = [waiting EXCEPT ![c] = {}]
    /\ UNCHANGED <<irq, wakes, handler, mislinked>>

(* PIPE_CMD_WAKE_ON_READ and PIPE_CMD_WAKE_ON_WRITE: onGuestWantWakeOn     *)
(* signals the events available now and keeps the others in mind.          *)
PipeCmdWakeOn(c, event, available) ==
    LET p == pipes_by_channel[c] IN
    /\ GuestRuns
    /\ p # NULL /\ ~closed[p] /\ host_pipe[p] # "connector"
    /\ waiting' = [waiting EXCEPT ![c] = @ \cup {event}]
    /\ IF event \in wanted[p]
       THEN available = {} /\ UNCHANGED <<asked, listVars, flagVars>>
       ELSE LET flags == (wanted[p] \cup {event}) \cap Event IN
            /\ available \subseteq flags
            /\ asked' = [asked EXCEPT ![p] = @ \cup (flags \ available)]
            /\ UNCHANGED <<wakes, closed>>
            /\ IF available = {}
               THEN wanted' = [wanted EXCEPT ![p] = @ \cup {event}] /\ UNCHANGED <<listVars, irq>>
               ELSE goldfish_pipe_signal_wake(p, available \cup {event})
    /\ UNCHANGED <<handler, tableVars, mislinked>>

(* A read of PIPE_REG_VERSION: close_all_pipes_v1 and reset_pipe_device.   *)
PipeRegVersion ==
    /\ pipes_by_channel' = [c \in Channel |-> NULL]
    /\ pipes_list' = <<>>
    /\ hwpipe_free(live)
    /\ wanted_pipes_first' = NULL
    /\ wanted_pipe_after_channel_high' = NULL
    /\ wanted_next' = [p \in Pipe |-> NULL]
    /\ wanted_prev' = [p \in Pipe |-> NULL]
    /\ irq' = 0
    /\ waiting' = [c \in Channel |-> {}]
    /\ handler' = Idle
    /\ mislinked' = FALSE
    /\ UNCHANGED wakes
-----------------------------------------------------------------------------
(* The interrupt handler.  It ends when it reads channel 0.                *)

(* Mutant: the IRQ is lowered as soon as the last pipe leaves the list.    *)
PipeRegChannelHigh_LastLowers ==
    /\ handler = Idle
    /\ irq = 1
    /\ wanted_pipes_pop_first_v1(FirstWanted)
    /\ IF FirstWanted = NULL
       THEN irq' = 0 /\ UNCHANGED handler
       ELSE /\ irq' = IF wanted_next[FirstWanted] = NULL THEN 0 ELSE irq
            /\ handler' = [pc |-> "low", high |-> channel[FirstWanted], low |-> NULL]
    /\ UNCHANGED <<wakes, wanted, closed, waiting, asked, tableVars, mislinked>>

PipeRegChannelHigh ==
    /\ handler = Idle
    /\ irq = 1
    /\ wanted_pipes_pop_first_v1(FirstWanted)
    /\ IF FirstWanted = NULL
       THEN irq' = 0 /\ UNCHANGED handler
       ELSE /\ handler' = [pc |-> "low", high |-> channel[FirstWanted], low |-> NULL]
            /\ UNCHANGED irq
    /\ UNCHANGED <<wakes, wanted, closed, waiting, asked, tableVars, mislinked>>

PipeRegChannel ==
    /\ handler.pc = "low"
    /\ wanted_pipes_pop_first_v1(NULL)
    /\ IF FirstWanted = NULL
       THEN irq' = 0 /\ handler' = Idle /\ UNCHANGED <<wakes, wanted>>
       ELSE /\ wakes' = wanted[FirstWanted]
            /\ wanted' = [wanted EXCEPT ![FirstWanted] = {}]
            /\ handler' = [handler EXCEPT !.pc = "wakes", !.low = channel[FirstWanted]]
            /\ UNCHANGED irq
    /\ UNCHANGED <<closed, waiting, asked, tableVars, mislinked>>

(* The driver wakes the processes of the pipe it put together from halves. *)
PipeRegWakes ==
    /\ handler.pc = "wakes"
    /\ waiting' = [waiting EXCEPT ![handler.high] =
                      {e \in @ : handler.high = handler.low => wakes \cap {e, "CLOSED"} = {}}]
    /\ handler' = Idle
    /\ UNCHANGED <<listVars, tableVars, flagVars, asked, mislinked>>
-----------------------------------------------------------------------------
(* Snapshots.  A save or a load runs under the VM lock.                    *)

(* The n-th pipe of the wanted list, counting from 0; NULL beyond its end. *)
Chain[n \in 0..MaxPipe] ==
    IF n = 0 THEN wanted_pipes_first
    ELSE LET p == Chain[n-1] IN IF p = NULL THEN NULL ELSE wanted_next[p]

(* The loops over the wanted list in goldfish_pipe_save_v1 come to an end. *)
(* "It's possible to get a 'save' command right after the 'load' one, when *)
(* some force-closed pipes are still on the list."                         *)
WantedListEnds == Chain[MaxPipe] = NULL

(* Mutant: the pipe kept for the next read is not saved.                   *)
goldfish_pipe_save_v1_NoHeld ==
    LET list == SelectSeq([n \in 1..MaxPipe |-> Chain[n-1]], LAMBDA p : p # NULL) IN
    [pipes |-> [n \in DOMAIN pipes_list |->
                  LET p == pipes_list[n] IN
                  [channel |-> channel[p], closed |-> closed[p], wanted |-> wanted[p],
                   host |-> host_pipe[p], asked |-> asked[p]]],
     list |-> [n \in DOMAIN list |-> channel[list[n]]],
     held |-> NULL]

(* What goldfish_pipe_save_v1 writes.                                      *)
goldfish_pipe_save_v1 ==
    LET list == SelectSeq([n \in 1..MaxPipe |-> Chain[n-1]], LAMBDA p : p # NULL) IN
    [pipes |-> [n \in DOMAIN pipes_list |->
                  LET p == pipes_list[n] IN
                  [channel |-> channel[p], closed |-> closed[p], wanted |-> wanted[p],
                   host |-> host_pipe[p], asked |-> asked[p]]],
     list |-> [n \in DOMAIN list |-> channel[list[n]]],
     held |-> IF wanted_pipe_after_channel_high = NULL THEN NULL
              ELSE channel[wanted_pipe_after_channel_high]]

ForceClose(r) == r.host \in {"unloadable", "NULL"}

(* *wanted_pipe_list_end, where end is the pipe whose wanted_next it is,   *)
(* or NULL for &dev->wanted_pipes_first.                                   *)
ListEnd(l) == IF l.end = NULL THEN l.first ELSE l.next[l.end]

SetListEnd(l, p) ==
    [l EXCEPT !.first = IF l.end = NULL THEN p ELSE @,
              !.next = [q \in Pipe |-> IF q = l.end THEN p ELSE l.next[q]],
              !.prev[p] = ListEnd(l),
              !.end = p]

(* One round of the loop that reconstructs the wanted list.                *)
RestoreWanted(l, p) == SetListEnd([l EXCEPT !.next[p] = NULL], p)

(* One round of the loop over the forcibly closed pipes.                   *)
AddForceClosed(l, p) ==
    IF l.next[p] = NULL /\ l.prev[p] = NULL /\ p # l.held
    THEN SetListEnd(l, p)
    ELSE l

(* The pipes-by-channel table of the pipes |r| of a snapshot; pipe n is    *)
(* the n-th of them.                                                       *)
ByChannel(r) ==
    [c \in Channel |-> IF \E n \in DOMAIN r : r[n].channel = c
                       THEN CHOOSE n \in DOMAIN r : r[n].channel = c ELSE NULL]

(* The wanted list the load builds: the saved pipes, then the forcibly     *)
(* closed ones that seem not to be on it.                                  *)
RestoredList(saved) ==
    LET r == saved.pipes
        byChannel == ByChannel(r)
        forced == SelectSeq([n \in DOMAIN r |-> n], LAMBDA n : ForceClose(r[n]))
        empty == [first |-> NULL, end |-> NULL,
                  next |-> [p \in Pipe |-> NULL], prev |-> [p \in Pipe |-> NULL],
                  held |-> IF saved.held = NULL THEN NULL ELSE byChannel[saved.held]]
        restored == FoldLeft(LAMBDA l, c : RestoreWanted(l, byChannel[c]), empty, saved.list)
    IN  FoldLeft(AddForceClosed, restored, forced)

(* goldfish_pipe_load, goldfish_pipe_load_v1 and goldfish_pipe_post_load   *)
(* with the wanted list they build.  The guest's own state and the wakes   *)
(* register are loaded as they were saved.                                 *)
LoadDevice(saved, list) ==
    LET r == saved.pipes
        new == DOMAIN r
        Load(f, default) == [p \in Pipe |-> IF p \in new THEN f[p] ELSE default]
    IN
    /\ live' = new
    /\ pipes_list' = [n \in new |-> n]
    /\ pipes_by_channel' = ByChannel(r)
    /\ channel' = Load([n \in new |-> r[n].channel], NULL)
    /\ closed' = Load([n \in new |-> r[n].closed \/ ForceClose(r[n])], FALSE)
    /\ wanted' = Load([n \in new |-> r[n].wanted \cup
                                     (IF ForceClose(r[n]) THEN {"CLOSED"} ELSE {})], {})
    /\ host_pipe' = Load([n \in new |-> IF ForceClose(r[n]) THEN "NULL" ELSE r[n].host], "NULL")
    /\ asked' = Load([n \in new |-> IF ForceClose(r[n]) THEN {} ELSE r[n].asked], {})
    /\ wanted_pipes_first' = list.first
    /\ wanted_next' = list.next
    /\ wanted_prev' = list.prev
    /\ wanted_pipe_after_channel_high' = list.held
    /\ irq' = 1
    /\ mislinked' = (mislinked \/ \E p \in new : list.next[p] # NULL /\ list.prev[list.next[p]] # p)
    /\ UNCHANGED <<wakes, guestVars>>

(* The load of a snapshot taken now.  It replaces the state of the device, *)
(* its services and the guest, so nothing that happens between the save    *)
(* and the load is left after it: the two are one step.  The loops of the  *)
(* save never end on a list without an end: there is no snapshot then.     *)
goldfish_pipe_load_v1 ==
    /\ WantedListEnds /\ LinksLive
    /\ \E saved \in {goldfish_pipe_save_v1} :
          \E list \in {RestoredList(saved)} : LoadDevice(saved, list)

Next ==
    \/ \E p \in Pipe :
          goldfish_pipe_close_from_host(p) \/ \E events \in SUBSET Event : HostEvent(p, events)
    \/ \E c \in Channel :
          \/ PipeCmdOpen(c)
          \/ PipeCmdClose(c)
          \/ \E service \in ServiceOf[c] : goldfish_pipe_reset(c, service)
          \/ \E event \in Event, available \in SUBSET Event :
                PipeCmdWakeOn(c, event, available)
    \/ PipeRegVersion
    \/ PipeRegChannelHigh \/ PipeRegChannel \/ PipeRegWakes
    \/ goldfish_pipe_load_v1

Spec == Init /\ [][Next]_vars
-----------------------------------------------------------------------------
(* Every variable has its type, and the hash table, the list of all pipes  *)
(* and the pipes not freed are the same pipes.                             *)
TypeOK ==
    /\ pipes_by_channel \in [Channel -> Pipe \cup {NULL}]
    /\ ToSet(pipes_list) = live
    /\ Len(pipes_list) = Cardinality(live)
    /\ {pipes_by_channel[c] : c \in Channel} \ {NULL} = live
    /\ \A p \in live : pipes_by_channel[channel[p]] = p
    /\ wanted_pipes_first \in Pipe \cup {NULL}
    /\ wanted_pipe_after_channel_high \in Pipe \cup {NULL}
    /\ irq \in {0, 1}
    /\ wakes \subseteq Flag
    /\ wanted_next \in [Pipe -> Pipe \cup {NULL}]
    /\ wanted_prev \in [Pipe -> Pipe \cup {NULL}]
    /\ wanted \in [Pipe -> SUBSET Flag]
    /\ closed \in [Pipe -> BOOLEAN]
    /\ host_pipe \in [Pipe -> Service \cup {"connector", "NULL"}]
    /\ asked \in [Pipe -> SUBSET Event]
    /\ waiting \in [Channel -> SUBSET Event]
    /\ handler \in [pc : {"idle", "low", "wakes"}, high : Channel \cup {NULL},
                    low : Channel \cup {NULL}]

(* As long as no load has built a list that is not doubly linked, the      *)
(* wanted list stays one under every order of signals, register reads,     *)
(* closes and loads: it ends, its links agree, its head has no predecessor *)
(* (the assertion of wanted_pipes_pop_first_v1), no pipe on it or kept for *)
(* the next read has been freed ("remove from device's lists"), and a pipe *)
(* outside it has no links that would keep wanted_pipes_add_v1 from adding *)
(* it.                                                                     *)
WantedListLinked ==
    ~mislinked =>
        /\ WantedListEnds
        /\ \A n \in 0..(MaxPipe - 1) :
              Chain[n] # NULL =>
                 /\ Chain[n] \in live \ {wanted_pipe_after_channel_high}
                 /\ wanted_prev[Chain[n]] = IF n = 0 THEN NULL ELSE Chain[n-1]
        /\ wanted_pipe_after_channel_high \in live \cup {NULL}
        /\ \A p \in live \ {Chain[n] : n \in 0..(MaxPipe - 1)} :
              wanted_next[p] = NULL /\ wanted_prev[p] = NULL

(* The read of PIPE_REG_CHANNEL returns the low half of the pipe whose     *)
(* high half PIPE_REG_CHANNEL_HIGH returned, whatever is signalled, saved  *)
(* or loaded between the two.                                              *)
SamePipeAfterChannelHigh == handler.pc = "wakes" => handler.low = handler.high

(* The IRQ stays raised while a pipe has to be reported.                   *)
WantedRaisesIrq == FirstWanted # NULL => irq = 1

(* As long as no load has built a list that is not doubly linked, an event *)
(* a guest process sleeps for is one that its service still has to signal, *)
(* or it is on its way to the guest: in the flags of a pipe that is listed *)
(* or kept, or in the register that the handler is about to read.  Loads   *)
(* that restore a list of more than one pipe are outside of it: the pipes  *)
(* behind the first have no wanted_prev, and closing one drops the rest.   *)
NoLostWakeup ==
    ~mislinked =>
        \A c \in Channel : \A e \in waiting[c] :
            LET p == pipes_by_channel[c] IN
            /\ p # NULL
            /\ \/ e \in asked[p] /\ ~closed[p]
               \/ /\ wanted[p] \cap {e, "CLOSED"} # {}
                  /\ \/ wanted_pipe_after_channel_high = p
                     \/ \E n \in 0..MaxPipe : Chain[n] = p
               \/ handler.pc = "wakes" /\ handler.high = c /\ wakes \cap {e, "CLOSED"} # {}
=============================================================================
