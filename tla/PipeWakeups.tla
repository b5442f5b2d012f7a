---------------------------- MODULE PipeWakeups ----------------------------
(***************************************************************************)
(* What the pipe device promises of wake-ups, whatever data structure      *)
(* holds them: a set of open pipes that have something to report, and an   *)
(* interrupt line that stays up until the guest has taken every one of     *)
(* them.  A pipe is in the set at most once, and leaves it only when it is *)
(* reported or closed.                                                     *)
(***************************************************************************)
EXTENDS Naturals

CONSTANT Pipes

VARIABLES
    open,       \* pipes the guest has open
    signalled,  \* open pipes with something to report
    line,       \* the interrupt line
    loading     \* a snapshot is being loaded: the interrupt is raised at the end

wakeupVars == <<open, signalled, line, loading>>

Init ==
    /\ open = {}
    /\ signalled = {}
    /\ line = 0
    /\ loading = FALSE

Open(p) ==
    /\ p \notin open
    /\ open' = open \cup {p}
    /\ UNCHANGED <<signalled, line, loading>>

Close(p) ==
    /\ p \in open
    /\ open' = open \ {p}
    /\ signalled' = signalled \ {p}
    /\ UNCHANGED <<line, loading>>

Signal(p) ==
    /\ p \in open
    /\ ~loading
    /\ signalled' = signalled \cup {p}
    /\ line' = 1
    /\ UNCHANGED <<open, loading>>

Report(p) ==
    /\ p \in signalled
    /\ ~loading
    /\ signalled' = signalled \ {p}
    /\ UNCHANGED <<open, line, loading>>

Lower ==
    /\ signalled = {}
    /\ ~loading
    /\ line' = 0
    /\ UNCHANGED <<open, signalled, loading>>

Reboot ==
    /\ ~loading
    /\ open' = {}
    /\ signalled' = {}
    /\ line' = 0
    /\ UNCHANGED loading

BeginLoad ==
    /\ ~loading
    /\ open' = {}
    /\ signalled' = {}
    /\ loading' = TRUE
    /\ UNCHANGED line

Restore(p) ==
    /\ p \in open
    /\ loading
    /\ signalled' = signalled \cup {p}
    /\ UNCHANGED <<open, line, loading>>

EndLoad ==
    /\ loading
    /\ line' = 1
    /\ loading' = FALSE
    /\ UNCHANGED <<open, signalled>>

Next ==
    \/ \E p \in Pipes : Open(p) \/ Close(p) \/ Signal(p) \/ Report(p) \/ Restore(p)
    \/ Lower \/ Reboot \/ BeginLoad \/ EndLoad

Spec == Init /\ [][Next]_wakeupVars
=============================================================================
