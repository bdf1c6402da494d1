----------------------------- MODULE MCActivity -----------------------------
(* Small instances of Activity for TLC.                                     *)
EXTENDS Activity, TLC

\* Tool calls and conversations are only compared for equality.
Symmetry == Permutations(Tools) \cup Permutations(Conversations)

=============================================================================
