------------------------------ MODULE QemuEvent ------------------------------
(* QEMU's manual-reset event on a futex (util/qemu-thread-posix.c): a word *)
(* that is EV_SET, EV_FREE (not set, nobody waits) or EV_BUSY (not set,    *)
(* somebody may wait). A setter enters the kernel only if the word was     *)
(* EV_BUSY. Each operator is one atomic access to the word, or one system  *)
(* call. A test before an atomic exchange is no step of its own: whatever  *)
(* changes the word in between makes the exchange change nothing.          *)
EXTENDS Naturals

CONSTANT Event

VARIABLES
    value,       \* of each event
    sleepers     \* of each event: threads asleep in futex_wait

eventVars == <<value, sleepers>>

(* qemu_event_init: the events in "set" start as set.                      *)
qemu_event_init(set) ==
    /\ value = [e \in Event |-> IF e \in set THEN "EV_SET" ELSE "EV_FREE"]
    /\ sleepers = [e \in Event |-> {}]

(* qemu_event_set up to futex_wake, which follows if the word was EV_BUSY. *)
eventExchange(e) == value' = [value EXCEPT ![e] = "EV_SET"]
MustWake(e) == value[e] = "EV_BUSY"

futex_wake(e) == sleepers' = [sleepers EXCEPT ![e] = {}]

qemu_event_reset(e) ==
    value' = [value EXCEPT ![e] = IF @ = "EV_SET" THEN "EV_FREE" ELSE @]

(* qemu_event_wait: return at once if the event is set; otherwise announce *)
(* the wait, then sleep if the word is still EV_BUSY.                      *)
eventAnnounce(e) == value' = [value EXCEPT ![e] = IF @ = "EV_FREE" THEN "EV_BUSY" ELSE @]

futex_wait(e, t) ==
    sleepers' = IF value[e] = "EV_BUSY" THEN [sleepers EXCEPT ![e] = @ \cup {t}] ELSE sleepers

EventTypeOK(t) ==
    /\ value \in [Event -> {"EV_SET", "EV_FREE", "EV_BUSY"}]
    /\ sleepers \in [Event -> SUBSET t]
=============================================================================
