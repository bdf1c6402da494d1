------------------------------ MODULE Recovery ------------------------------
(***************************************************************************)
(* Daemon ownership and the recovery of workers that outlived their daemon *)
(* (claude/ownership.go, serve in cmd/vibe-remote/main.go).                *)
(*                                                                         *)
(* One daemon at a time holds the lock of the installation. When it starts *)
(* it goes through the PID records its predecessor left behind, ends the   *)
(* processes it recognises and leaves every other record alone; a record   *)
(* that is still there blocks the launch of its slot. PIDs are reused: a   *)
(* process is known by its birth, which its identity (start time and       *)
(* command) stands for.                                                    *)
(***************************************************************************)
EXTENDS Integers, Sequences

CONSTANTS
  Daemons,      \* daemon processes; any of them may be started at any time
  WorkerSlots,  \* slots
  PIDs,         \* process numbers
  MaxBirths     \* bound: processes ever started

ASSUME RecoveryAssumption ==
  /\ MaxBirths \in Nat \ {0} /\ PIDs \subseteq Nat \ {0}
  /\ WorkerSlots \cap {"legacy", "stranger", "none"} = {}
  /\ "none" \notin Daemons

VARIABLES
  running,   \* running[d]: what daemon d is at
  lock,      \* the daemon that holds daemon.lock
  births,    \* births[b]: what the process born b-th runs for
  process,   \* process[p]: the birth of the process with number p, 0: none
  record,    \* record[f]: the PID record f; "legacy" is worker.pid of earlier versions
  known,     \* births a record was ever written of
  signalled  \* births a recovery sent a signal to

recoveryVars == <<running, lock, births, process, record, known, signalled>>

Files == WorkerSlots \cup {"legacy"}

Off == [at |-> "off", todo |-> {}, file |-> "none", pid |-> 0, slots |-> {}]
Daemon == [at : {"off", "recover", "terminate", "kill", "serve", "record"}, todo : SUBSET Files,
           file : Files \cup {"none"}, pid : PIDs \cup {0}, slots : SUBSET WorkerSlots]

\* identity 0: it could not be read when the record was written. mine: the birth the
\* daemon wrote it for, which it knows by run id and PID.
NoFile == [pid |-> 0, identity |-> 0, mine |-> 0]

\* An installation is new, or has the record of an earlier version and its process.
RecoveryInit ==
  /\ running = [d \in Daemons |-> Off]
  /\ lock = "none"
  /\ \/ births = <<>> /\ process = [p \in PIDs |-> 0] /\ record = [f \in Files |-> NoFile]
     \/ /\ births = <<"legacy">>
        /\ \E p \in PIDs :
             /\ process = [q \in PIDs |-> IF q = p THEN 1 ELSE 0]
             /\ record = [f \in Files |-> IF f = "legacy" THEN [pid |-> p, identity |-> 0, mine |-> 1]
                                          ELSE NoFile]
  /\ known = {record[f].mine : f \in Files} \ {0}
  /\ signalled = {}

Lives(b) == b # 0 /\ \E p \in PIDs : process[p] = b
Alive(p) == process[p] # 0

\* A process starts and takes a free number.
Born(p, for) ==
  /\ Len(births) < MaxBirths /\ ~Alive(p)
  /\ births' = Append(births, for)
  /\ process' = [process EXCEPT ![p] = Len(births')]

-----------------------------------------------------------------------------
(* Processes.                                                              *)

\* Any process may end at any time.
ProcessEnds(p) ==
  /\ Alive(p)
  /\ process' = [process EXCEPT ![p] = 0]
  /\ UNCHANGED <<running, lock, births, record, known, signalled>>

\* Somebody else's process starts. A number just freed is not handed out again
\* before a launch has written its record.
StrangerStarts(p) ==
  /\ \A d \in Daemons : running[d].at # "record"
  /\ Born(p, "stranger")
  /\ UNCHANGED <<running, lock, record, known, signalled>>

-----------------------------------------------------------------------------
(* Recovery.                                                               *)

\* AcquireOwnership, and RecoverWorkers lists the records. Without the lock the
\* daemon exits.
AcquireOwnership(d) ==
  /\ running[d].at = "off" /\ lock = "none"
  /\ lock' = d
  /\ running' = [running EXCEPT ![d].at = "recover", ![d].todo = {f \in Files : record[f] # NoFile}]
  /\ UNCHANGED <<births, process, record, known, signalled>>

\* The record's turn is over: kept, or removed because its process is gone.
Leave(d, f, gone) ==
  /\ running' = [running EXCEPT ![d].at = "recover", ![d].todo = @ \ {f}, ![d].file = "none"]
  /\ record' = IF gone THEN [record EXCEPT ![f] = NoFile] ELSE record

\* The process with the recorded number has the recorded identity.
Recognises(f) == record[f].identity # 0 /\ process[record[f].pid] = record[f].identity

\* Signal 0, the identity, and SIGTERM right after it: a number is not handed out
\* again within that moment.
Examine(d, f) ==
  /\ running[d].at = "recover" /\ f \in running[d].todo
  /\ \/ /\ ~Alive(record[f].pid)
        /\ Leave(d, f, TRUE) /\ UNCHANGED signalled
     \/ /\ Alive(record[f].pid) /\ ~Recognises(f)
        /\ Leave(d, f, FALSE) /\ UNCHANGED signalled
     \/ /\ Alive(record[f].pid) /\ Recognises(f)
        /\ signalled' = signalled \cup {process[record[f].pid]}
        /\ running' = [running EXCEPT ![d].at = "terminate", ![d].file = f]
        /\ UNCHANGED record
  /\ UNCHANGED <<lock, births, process, known>>

\* Within three seconds nothing answers under the number any more.
SeenGone(d) ==
  /\ running[d].at \in {"terminate", "kill"}
  /\ ~Alive(record[running[d].file].pid)
  /\ Leave(d, running[d].file, TRUE)
  /\ UNCHANGED <<lock, births, process, known, signalled>>

\* Mutant: the identity is not compared again.
TermTimeoutBlind(d) ==
  LET p == record[running[d].file].pid IN
  /\ running[d].at = "terminate" /\ Alive(p)
  /\ signalled' = signalled \cup {process[p]}
  /\ process' = [process EXCEPT ![p] = 0]
  /\ running' = [running EXCEPT ![d].at = "kill"]
  /\ UNCHANGED <<lock, births, record, known>>

\* Three seconds are over: the identity is compared again before SIGKILL.
TermTimeout(d) ==
  LET f == running[d].file IN
  /\ running[d].at = "terminate"
  /\ \/ /\ ~Recognises(f)
        /\ Leave(d, f, FALSE) /\ UNCHANGED <<process, signalled>>
     \/ /\ Recognises(f)
        /\ signalled' = signalled \cup {process[record[f].pid]}
        /\ process' = [process EXCEPT ![record[f].pid] = 0]
        /\ running' = [running EXCEPT ![d].at = "kill"]
        /\ UNCHANGED record
  /\ UNCHANGED <<lock, births, known>>

\* One second after SIGKILL something still answers.
KillTimeout(d) ==
  /\ running[d].at = "kill" /\ Alive(record[running[d].file].pid)
  /\ Leave(d, running[d].file, FALSE)
  /\ UNCHANGED <<lock, births, process, known, signalled>>

\* What recovery could not settle is only logged.
Serve(d) ==
  /\ running[d].at = "recover" /\ running[d].todo = {}
  /\ running' = [running EXCEPT ![d].at = "serve"]
  /\ UNCHANGED <<lock, births, process, record, known, signalled>>

-----------------------------------------------------------------------------
(* Launches.                                                               *)

\* Mutant: the record of an earlier version blocks nothing.
RecordsClearOwn(d, s) == s \in running[d].slots \/ record[s] = NoFile

\* checkRecoveryRecords: a slot the manager knows is its own business.
RecordsClear(d, s) ==
  s \in running[d].slots \/ (record[s] = NoFile /\ record["legacy"] = NoFile)

\* A first launch or, for a slot in the manager's map, one after its process ended.
LaunchWorker(d, s, p) ==
  /\ running[d].at = "serve"
  /\ RecordsClear(d, s)
  /\ s \in running[d].slots => ~Lives(record[s].mine)
  /\ Born(p, s)
  /\ running' = [running EXCEPT ![d].at = "record", ![d].file = s, ![d].pid = p,
                               ![d].slots = @ \cup {s}]
  /\ UNCHANGED <<lock, record, known, signalled>>

\* writeWorkerPID: an unreadable identity is left out; a failed write kills the process.
WriteWorkerPID(d) ==
  LET b == Len(births)
      s == running[d].file
  IN
  /\ running[d].at = "record"
  /\ running' = [running EXCEPT ![d].at = "serve", ![d].file = "none", ![d].pid = 0]
  /\ \/ \E identity \in {0, process[running[d].pid]} :
          /\ record' = [record EXCEPT ![s] = [pid |-> running[d].pid, identity |-> identity, mine |-> b]]
          /\ known' = known \cup {b}
          /\ UNCHANGED process
     \/ /\ process' = [process EXCEPT ![running[d].pid] = 0]
        /\ UNCHANGED <<record, known>>
  /\ UNCHANGED <<lock, births, signalled>>

\* The newest run of a slot.
Newest(s) == CHOOSE b \in DOMAIN births : births[b] = s /\ \A c \in DOMAIN births : births[c] = s => c <= b

\* The slot's process has ended, by itself or stopped, and the slot leaves the map:
\* removeWorkerPID takes the record if it is the one of the newest run.
SlotDown(d, s) ==
  /\ running[d].at = "serve" /\ s \in running[d].slots
  /\ ~Lives(record[s].mine)
  /\ running' = [running EXCEPT ![d].slots = @ \ {s}]
  /\ record' = IF record[s].mine = Newest(s) THEN [record EXCEPT ![s] = NoFile] ELSE record
  /\ UNCHANGED <<lock, births, process, known, signalled>>

\* The daemon ends: in order, its slots down first, or at any point by a crash. The
\* kernel drops the lock with the process; workers go on.
DaemonEnds(d) ==
  /\ running[d].at # "off"
  /\ running' = [running EXCEPT ![d] = Off]
  /\ lock' = IF lock = d THEN "none" ELSE lock
  /\ UNCHANGED <<births, process, record, known, signalled>>

RecoveryNext ==
  \/ \E p \in PIDs : ProcessEnds(p) \/ StrangerStarts(p)
  \/ \E d \in Daemons :
       \/ AcquireOwnership(d) \/ SeenGone(d) \/ TermTimeout(d) \/ KillTimeout(d)
       \/ Serve(d) \/ WriteWorkerPID(d) \/ DaemonEnds(d)
       \/ \E f \in Files : Examine(d, f)
       \/ \E s \in WorkerSlots : SlotDown(d, s) \/ \E p \in PIDs : LaunchWorker(d, s, p)

RecoverySpec == RecoveryInit /\ [][RecoveryNext]_recoveryVars

-----------------------------------------------------------------------------
(* Properties.                                                             *)

RecoveryTypeOK ==
  /\ running \in [Daemons -> Daemon]
  /\ lock \in Daemons \cup {"none"}
  /\ births \in Seq(WorkerSlots \cup {"legacy", "stranger"}) /\ Len(births) <= MaxBirths
  /\ process \in [PIDs -> 0..Len(births)]
  /\ record \in [Files -> [pid : PIDs \cup {0}, identity : 0..Len(births), mine : 0..Len(births)]]
  /\ known \subseteq 1..Len(births)
  /\ signalled \subseteq 1..Len(births)

\* Recovery signals workers a record was written of and nothing else, however often
\* their numbers were reused before or during the three seconds of grace
\* (ownership.go:211, 225).
OnlyRecordedAreSignalled == \A b \in signalled : births[b] \in WorkerSlots /\ b \in known

\* No worker is started for a slot beside one that a record was written of and that
\* still runs, whichever daemon started it; the worker of an earlier version stands
\* for every slot (ownership.go:163-180, README.md:165).
NoLaunchBesideRecorded ==
  [][\A d \in Daemons, s \in WorkerSlots, p \in PIDs :
       LaunchWorker(d, s, p)
         => \A b \in known : births[b] \in {s, "legacy"} => ~Lives(b)]_recoveryVars

=============================================================================
