------------------------------ MODULE Runtime ------------------------------
(***************************************************************************)
(* The private copies of the claude executable and their maintenance       *)
(* (snapshotNativeExecutable in claude/runtime.go, rememberRuntime and     *)
(* CleanupRuntimes in claude/runtime_cleanup.go).                          *)
(*                                                                         *)
(* A worker runs from the copy of the version that is installed when it    *)
(* starts. A sweep removes copies older than a week that nobody needs; it  *)
(* takes no lock for longer than the look at the workers, so workers start *)
(* and register, and updates are installed, between its steps. It asks for *)
(* live workers only: one that did not register in time is failed, though  *)
(* its process runs until it obeys the interrupt or is killed. And it goes *)
(* on if it cannot read what is installed.                                 *)
(***************************************************************************)
CONSTANTS
  Versions,   \* contents of the executable
  NoVersion,
  RuntimeSlots    \* worker slots

ASSUME RuntimeAssumption == NoVersion \notin Versions /\ Versions # {}

VARIABLES
  installed,  \* the version that is installed
  snapshot,   \* snapshot[v]: no copy, one of this week, or an older one
  history,    \* runtime-history.json
  session,    \* session[s]: the version its worker's process runs, and the worker's state
  sweep       \* CleanupRuntimes: where it is, the old copies it does not spare so far, whether it
              \* has found no previous version, whether it knows what is installed

runtimeVars == <<installed, snapshot, history, session, sweep>>

Stopped == [version |-> NoVersion, at |-> "stopped"]
NoSweep == [at |-> "idle", unspared |-> {}, first |-> FALSE, sure |-> TRUE]

RuntimeInit ==
  /\ installed = CHOOSE v \in Versions : TRUE
  /\ snapshot = [v \in Versions |-> "none"]
  /\ history = [current |-> NoVersion, previous |-> NoVersion]
  /\ session = [s \in RuntimeSlots |-> Stopped]
  /\ sweep = NoSweep

\* An update or a downgrade. A sweep under way does not know which version workers that
\* start beside it will run.
Install(v) ==
  /\ v # installed
  /\ installed' = v
  /\ sweep' = [sweep EXCEPT !.sure = sweep.at = "idle"]
  /\ UNCHANGED <<snapshot, history, session>>

\* A sweep takes the time when it begins.
WeekPasses(v) ==
  /\ sweep.at = "idle" /\ snapshot[v] = "fresh"
  /\ snapshot' = [snapshot EXCEPT ![v] = "old"]
  /\ UNCHANGED <<installed, history, session, sweep>>

\* execRunner.Start, with the manager's lock held: the copy is made unless it is there.
RunSession(s) ==
  /\ session[s] = Stopped
  /\ snapshot' = [snapshot EXCEPT ![installed] = IF @ = "none" THEN "fresh" ELSE @]
  /\ session' = [session EXCEPT ![s] = [version |-> installed, at |-> "starting"]]
  /\ UNCHANGED <<installed, history, sweep>>

\* The worker has registered: rememberRuntime, as far as its file can be read and written.
RememberRuntime(s) ==
  LET v == session[s].version IN
  /\ session[s].at = "starting"
  /\ session' = [session EXCEPT ![s].at = "running"]
  /\ \/ UNCHANGED history
     \/ history.current # v /\ history' = [current |-> v, previous |-> history.current]
  /\ UNCHANGED <<installed, snapshot, sweep>>

\* settle: it has not registered in time. Its process is interrupted, and runs on.
RegistrationFails(s) ==
  /\ session[s].at = "starting"
  /\ session' = [session EXCEPT ![s].at = "failed"]
  /\ UNCHANGED <<installed, snapshot, history, sweep>>

\* The process exits.
EndSession(s) ==
  /\ session[s] # Stopped
  /\ session' = [session EXCEPT ![s] = Stopped]
  /\ UNCHANGED <<installed, snapshot, history, sweep>>

Live(s) == session[s].at \in {"starting", "running"}

\* CleanupRuntimes: the old copies there are but, looked up with the manager's read lock,
\* those of live workers. A failed one is live again only while it is being stopped.
SweepWorkers ==
  /\ sweep.at = "idle"
  /\ \E stopping \in SUBSET {s \in RuntimeSlots : session[s].at = "failed"} :
       LET spared == {session[s].version : s \in {q \in RuntimeSlots : Live(q)} \cup stopping} IN
       sweep' = [NoSweep EXCEPT !.at = "history",
                                !.unspared = {v \in Versions : snapshot[v] = "old"} \ spared]
  /\ UNCHANGED <<installed, snapshot, history, session>>

\* A history that cannot be read ends the sweep.
SweepHistory ==
  /\ sweep.at = "history"
  /\ sweep' \in {NoSweep, [sweep EXCEPT !.at = "installed",
                                        !.unspared = @ \ {history.current, history.previous},
                                        !.first = history.previous = NoVersion]}
  /\ UNCHANGED <<installed, snapshot, history, session>>

\* With no previous version the newest copy is spared, an old one unless there is a later.
Doomed(unspared) == {unspared} \cup (IF sweep.first THEN {unspared \ {v} : v \in unspared} ELSE {})

\* Mutant: what could be started next is not asked.
SweepInstalledUnasked ==
  /\ sweep.at = "installed"
  /\ \E doomed \in Doomed(sweep.unspared) :
       sweep' = [sweep EXCEPT !.at = "remove", !.unspared = doomed, !.first = FALSE]
  /\ UNCHANGED <<installed, snapshot, history, session>>

\* The hash of what is installed now, if it is found and can be read: the sweep goes on
\* without.
SweepInstalled ==
  /\ sweep.at = "installed"
  /\ \E read \in BOOLEAN :
       \E doomed \in Doomed(sweep.unspared \ (IF read THEN {installed} ELSE {})) :
         sweep' = [at |-> "remove", unspared |-> doomed, first |-> FALSE, sure |-> sweep.sure /\ read]
  /\ UNCHANGED <<installed, snapshot, history, session>>

\* They go as far as the removals succeed.
SweepRemove ==
  /\ sweep.at = "remove"
  /\ \E gone \in SUBSET sweep.unspared :
       snapshot' = [v \in Versions |-> IF v \in gone THEN "none" ELSE snapshot[v]]
  /\ sweep' = NoSweep
  /\ UNCHANGED <<installed, history, session>>

RuntimeNext ==
  \/ \E v \in Versions : Install(v) \/ WeekPasses(v)
  \/ \E s \in RuntimeSlots : RunSession(s) \/ RememberRuntime(s) \/ RegistrationFails(s) \/ EndSession(s)
  \/ SweepWorkers \/ SweepHistory \/ SweepInstalled \/ SweepRemove

RuntimeSpec == RuntimeInit /\ [][RuntimeNext]_runtimeVars

-----------------------------------------------------------------------------
(* Properties.                                                             *)

RuntimeTypeOK ==
  /\ installed \in Versions
  /\ snapshot \in [Versions -> {"none", "fresh", "old"}]
  /\ history \in [current : Versions \cup {NoVersion}, previous : Versions \cup {NoVersion}]
  /\ session \in [RuntimeSlots -> [version : Versions \cup {NoVersion},
                                at : {"stopped", "starting", "running", "failed"}]]
  /\ sweep \in [at : {"idle", "history", "installed", "remove"},
                unspared : SUBSET Versions, first : BOOLEAN, sure : BOOLEAN]

Needed == {session[s].version : s \in {q \in RuntimeSlots : Live(q)}} \cup {history.current, history.previous}

\* README.md:91, 187: no sweep takes the copy a live worker runs from, or the one of the
\* current or the previous version that registered, although workers start, register and
\* fail while it is under way; if it could read what is installed and that did not
\* change meanwhile. A worker that failed is not live, while its process may still run.
NeededCopiesStay ==
  [][\A v \in Versions :
       snapshot[v] # "none" /\ snapshot'[v] = "none" => v \notin Needed \/ ~sweep.sure]_runtimeVars

=============================================================================
