----------------------------- MODULE MCHandoff ------------------------------
(* Small instances of Handoff for TLC. Its runs check liveness or an action  *)
(* property over a few hundred thousand states; they take no symmetry.       *)
EXTENDS Handoff

=============================================================================
