----------------------------- MODULE MCRamLoader -----------------------------
(* Instances of RamLoader for TLC.                                         *)
EXTENDS RamLoader

CONSTANTS a1, g1

OneAccessor == {a1}
NoAccessor == {}
OneGuest == {g1}
NoGuest == {}
SecondZero == {2}
LastTwo == {<<2, 3>>}
NoRange == {}
=============================================================================
