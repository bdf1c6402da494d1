------------------------------- MODULE Ticket -------------------------------
(***************************************************************************)
(* What a handoff ticket promises: for each destination only the newest    *)
(* ticket is open, and a ticket leaves "open" once, either consumed or     *)
(* void, for good.                                                         *)
(***************************************************************************)
CONSTANTS
  Tickets,  \* handoff IDs
  Dests,    \* destinations: provider, account and workspace
  None

VARIABLES
  status,   \* ticket -> "none", "open", "consumed" or "void"
  dest      \* ticket -> the destination it was created for

Init ==
  /\ status = [t \in Tickets |-> "none"]
  /\ dest = [t \in Tickets |-> None]

\* A new ticket takes the place of the open one of its destination.
Create(t, d) ==
  /\ status[t] = "none"
  /\ dest' = [dest EXCEPT ![t] = d]
  /\ status' = [u \in Tickets |->
                  IF u = t THEN "open"
                  ELSE IF status[u] = "open" /\ dest[u] = d THEN "void"
                  ELSE status[u]]

Consume(t) ==
  /\ status[t] = "open"
  /\ status' = [status EXCEPT ![t] = "consumed"]
  /\ UNCHANGED dest

\* Tickets expire, or their checkpoint is deleted.
Void(S) ==
  /\ \A t \in S : status[t] = "open"
  /\ status' = [t \in Tickets |-> IF t \in S THEN "void" ELSE status[t]]
  /\ UNCHANGED dest

Next ==
  \/ \E t \in Tickets, d \in Dests : Create(t, d)
  \/ \E t \in Tickets : Consume(t)
  \/ \E S \in SUBSET Tickets : Void(S)

Spec == Init /\ [][Next]_<<status, dest>>

=============================================================================
