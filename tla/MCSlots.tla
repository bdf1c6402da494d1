------------------------------ MODULE MCSlots ------------------------------
(* Small instances of Slots for TLC.                                        *)
EXTENDS Slots, TLC

\* Slots, places and conversations are only compared for equality.
Symmetry == Permutations(Slots) \cup Permutations(Places) \cup Permutations(Convs)

=============================================================================
