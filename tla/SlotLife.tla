------------------------------ MODULE SlotLife ------------------------------
(***************************************************************************)
(* What the worker manager promises about a slot, whatever goroutines keep *)
(* the promise: a process is begun only while the slot is wanted and only  *)
(* when nothing else runs there; from the moment a slot is left nothing is *)
(* begun for it any more; the slot's record names what runs; and a run is  *)
(* opened once, when it begins, and is closed for good.                    *)
(***************************************************************************)
CONSTANTS
  Slots,     \* remote session IDs
  Launches,  \* run IDs, and the processes started under them
  None

VARIABLES
  mode,      \* slot -> "free", "wanted" or "leaving"
  running,   \* slot -> the processes at work for it
  open,      \* slot -> the run whose callbacks are accepted, or None
  record,    \* slot -> the process the next daemon would look for, or None
  used       \* the runs there have been

Init ==
  /\ mode = [s \in Slots |-> "free"]
  /\ running = [s \in Slots |-> {}]
  /\ open = [s \in Slots |-> None]
  /\ record = [s \in Slots |-> None]
  /\ used = {}

Take(s) ==
  /\ mode[s] = "free"
  /\ mode' = [mode EXCEPT ![s] = "wanted"]
  /\ UNCHANGED <<running, open, record, used>>

\* A run never seen before begins, on its own in its slot, with a process or
\* without one.
Begin(s, l) ==
  /\ mode[s] = "wanted"
  /\ running[s] = {}
  /\ l \notin used
  /\ used' = used \cup {l}
  /\ open' = [open EXCEPT ![s] = l]
  /\ \/ /\ running' = [running EXCEPT ![s] = {l}]
        /\ record' = [record EXCEPT ![s] = l]
     \/ UNCHANGED <<running, record>>
  /\ UNCHANGED mode

Close(s) ==
  /\ open' = [open EXCEPT ![s] = None]
  /\ UNCHANGED <<mode, running, record, used>>

\* The process ends, or is killed.
End(s) ==
  /\ running' = [running EXCEPT ![s] = {}]
  /\ UNCHANGED <<mode, open, record, used>>

Leave(s) ==
  /\ mode[s] = "wanted"
  /\ mode' = [mode EXCEPT ![s] = "leaving"]
  /\ UNCHANGED <<running, open, record, used>>

\* The record is removed only when there is nothing left to recover.
Forget(s) ==
  /\ running[s] = {}
  /\ record' = [record EXCEPT ![s] = None]
  /\ UNCHANGED <<mode, running, open, used>>

\* The slot is given back, with nothing that runs and nothing that is open.
Free(s) ==
  /\ mode[s] # "free"
  /\ running[s] = {}
  /\ mode' = [mode EXCEPT ![s] = "free"]
  /\ open' = [open EXCEPT ![s] = None]
  /\ record' \in {record, [record EXCEPT ![s] = None]}
  /\ UNCHANGED <<running, used>>

Next ==
  \E s \in Slots :
    \/ Take(s) \/ Close(s) \/ End(s) \/ Leave(s) \/ Forget(s) \/ Free(s)
    \/ \E l \in Launches : Begin(s, l)

Spec == Init /\ [][Next]_<<mode, running, open, record, used>>

=============================================================================
