-------------------------- MODULE MCGoldfishPipeV1 --------------------------
(* Instances of GoldfishPipeV1 for TLC.                                    *)
EXTENDS GoldfishPipeV1

CONSTANTS c1, c2, c3

ThreeChannels == {c1, c2, c3}
Read == {"READ"}
AnyService == {"loadable", "unloadable"}
LastUnloadable == [c \in Channel |-> IF c = c3 THEN {"unloadable"} ELSE {"loadable"}]

(* The channels with the same services are alike.                          *)
Symmetry == Permutations({c1, c2})

(* PIPE_REG_CHANNEL writes the wakes register before the handler reads it: *)
(* states that differ only in its old value behave alike.                  *)
MCView == <<listVars, tableVars, irq, wanted, closed, asked, guestVars, mislinked,
            IF handler.pc = "wakes" THEN wakes ELSE {}>>
=============================================================================
