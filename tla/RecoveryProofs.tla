--------------------------- MODULE RecoveryProofs ---------------------------
(***************************************************************************)
(* Proofs about Recovery: what recovery signals, and beside what a worker  *)
(* is launched, for any number of daemons, slots, process numbers and      *)
(* births. The inductive invariant says what a record is worth: it was     *)
(* written of the process it names, that process still has its number if   *)
(* it lives, and whatever lives and was ever recorded is in a record now.  *)
(***************************************************************************)
EXTENDS Recovery, TLAPS

\* Whoever is up holds the lock.
LockInv == \A d \in Daemons : running[d].at # "off" => lock = d

\* What recovery has still to look at, or is ending, has a record.
Recovering == {"recover", "terminate", "kill"}
TodoInv ==
  \A d \in Daemons :
    /\ running[d].at \in Recovering => \A f \in running[d].todo : record[f].mine # 0
    /\ running[d].at \in {"terminate", "kill"} => running[d].file \in running[d].todo

\* Between a launch and its record nothing else is born, and nothing recorded runs for
\* the slot.
LaunchInv ==
  \A d \in Daemons :
    running[d].at = "record" =>
      /\ running[d].file \in WorkerSlots /\ running[d].pid \in PIDs
      /\ Len(births) > 0 /\ births[Len(births)] = running[d].file
      /\ Len(births) \notin known
      /\ \A q \in PIDs : process[q] = Len(births) => q = running[d].pid
      /\ process[running[d].pid] \in {0, Len(births)}
      /\ \A b \in known : births[b] = running[d].file => ~Lives(b)

\* The record of an earlier version blocked every launch while it was there.
LegacyInv ==
  /\ record["legacy"].identity = 0
  /\ \A d \in Daemons : running[d].slots # {} => record["legacy"].mine = 0

\* A record, if there, was written of the process it names.
RecordInv ==
  \A f \in Files :
    /\ record[f].mine = 0 => record[f] = NoFile
    /\ record[f].mine # 0 =>
         /\ record[f].mine \in known /\ births[record[f].mine] = f
         /\ record[f].pid \in PIDs
         /\ record[f].identity \in {0, record[f].mine}
         /\ \A q \in PIDs : process[q] = record[f].mine => q = record[f].pid

\* What was recorded and lives is in the record of its slot.
KnownInv ==
  \A b \in known : births[b] \in Files /\ (Lives(b) => record[births[b]].mine = b)

RecoveryIInv ==
  /\ RecoveryTypeOK
  /\ LockInv /\ TodoInv /\ LaunchInv /\ LegacyInv /\ RecordInv /\ KnownInv
  /\ OnlyRecordedAreSignalled

LEMMA RecoveryInitInv == RecoveryInit => RecoveryIInv
  <1> SUFFICES ASSUME RecoveryInit PROVE RecoveryIInv
    OBVIOUS
  <1> USE RecoveryAssumption
  <1>1. /\ "legacy" \in Files /\ NoFile.mine = 0 /\ NoFile.identity = 0 /\ Off.at = "off" /\ Off.slots = {}
        /\ running = [d \in Daemons |-> Off] /\ lock = "none" /\ signalled = {}
    BY DEF Files, NoFile, Off, RecoveryInit
  <1>2. Off \in Daemon
    BY DEF Off, Daemon
  <1>3. LockInv /\ TodoInv /\ LaunchInv /\ OnlyRecordedAreSignalled
    BY <1>1 DEF LockInv, TodoInv, LaunchInv, Recovering, OnlyRecordedAreSignalled
  <1>4. CASE births = <<>> /\ process = [p \in PIDs |-> 0] /\ record = [f \in Files |-> NoFile]
    <2>1. known = {}
      BY <1>1, <1>4 DEF RecoveryInit
    <2>2. RecoveryTypeOK
      BY <1>1, <1>2, <1>4, <2>1 DEF RecoveryTypeOK, NoFile
    <2> QED
      BY <1>1, <1>3, <1>4, <2>1, <2>2 DEF RecoveryIInv, LegacyInv, RecordInv, KnownInv
  <1>5. ASSUME NEW p \in PIDs, births = <<"legacy">>,
               process = [q \in PIDs |-> IF q = p THEN 1 ELSE 0],
               record = [f \in Files |-> IF f = "legacy" THEN [pid |-> p, identity |-> 0, mine |-> 1]
                                         ELSE NoFile]
        PROVE  RecoveryIInv
    <2>1. /\ \A f \in Files : record[f].mine = IF f = "legacy" THEN 1 ELSE 0
          /\ record["legacy"].identity = 0 /\ record["legacy"].pid = p
      BY <1>1, <1>5
    <2>2. known = {1}
      BY <1>1, <2>1 DEF RecoveryInit
    <2>3. Len(births) = 1 /\ births[1] = "legacy" /\ births \in Seq(WorkerSlots \cup {"legacy", "stranger"})
      BY <1>5
    <2>4. RecoveryTypeOK
      <3>1. process \in [PIDs -> 0..1]
        BY <1>5
      <3>2. record \in [Files -> [pid : PIDs \cup {0}, identity : 0..1, mine : 0..1]]
        BY <1>5 DEF NoFile
      <3> QED
        BY <1>1, <1>2, <2>2, <2>3, <3>1, <3>2 DEF RecoveryTypeOK
    <2>5. LegacyInv /\ RecordInv
      BY <1>1, <1>5, <2>1, <2>2, <2>3 DEF LegacyInv, RecordInv, NoFile
    <2>6. KnownInv
      BY <1>1, <2>1, <2>2, <2>3 DEF KnownInv
    <2> QED
      BY <1>3, <2>4, <2>5, <2>6 DEF RecoveryIInv
  <1> QED
    BY <1>4, <1>5 DEF RecoveryInit

-----------------------------------------------------------------------------
(* What a daemon's step leaves, whatever it is: the others are off.          *)

Alone(d) == \A e \in Daemons \ {d} : running[e].at = "off"

LEMMA UpIsAlone ==
  ASSUME RecoveryIInv, NEW d \in Daemons, running[d].at # "off" \/ lock = "none"
  PROVE  Alone(d)
  BY RecoveryAssumption DEF RecoveryIInv, LockInv, Alone

LEMMA DaemonMoves ==
  ASSUME RecoveryIInv, NEW d \in Daemons, NEW r \in Daemon, Alone(d),
         running' = [running EXCEPT ![d] = r], r.at # "record",
         r.at # "off" => lock' = d,
         r.at \in Recovering => \A f \in r.todo : record'[f].mine # 0,
         r.at \in {"terminate", "kill"} => r.file \in r.todo
  PROVE  /\ running' \in [Daemons -> Daemon]
         /\ LockInv' /\ TodoInv' /\ LaunchInv'
  <1> USE DEF RecoveryIInv, RecoveryTypeOK
  <1>1. running'[d] = r /\ \A e \in Daemons \ {d} : running'[e] = running[e] /\ running[e].at = "off"
    BY DEF Alone
  <1> QED
    BY <1>1 DEF LockInv, TodoInv, LaunchInv, Recovering

\* A process that ends, or several, leaves every record as true as it was.
LEMMA ProcessesGo ==
  ASSUME RecoveryIInv, \A q \in PIDs : process'[q] \in {0, process[q]}, UNCHANGED <<births, record, known>>
  PROVE  RecordInv' /\ KnownInv' /\ (\A b : Lives(b)' => Lives(b))
  <1>1. \A b : Lives(b)' => Lives(b)
    BY DEF Lives
  <1>2. RecordInv'
    <2>1. \A f \in Files : record[f].mine \in 0..Len(births)
      BY DEF RecoveryIInv, RecoveryTypeOK
    <2> QED
      BY <2>1 DEF RecoveryIInv, RecordInv
  <1> QED
    BY <1>1, <1>2 DEF RecoveryIInv, KnownInv

\* A record may go when its process has.
LEMMA RecordGoes ==
  ASSUME RecoveryIInv, NEW f \in Files, ~Lives(record[f].mine), record' = [record EXCEPT ![f] = NoFile],
         UNCHANGED <<births, process, known>>
  PROVE  /\ record' \in [Files -> [pid : PIDs \cup {0}, identity : 0..Len(births), mine : 0..Len(births)]]
         /\ RecordInv' /\ KnownInv' /\ record'["legacy"].identity = 0
         /\ \A g \in Files : g # f => record'[g] = record[g]
         /\ \A g \in Files : record[g].mine = 0 => record'[g].mine = 0
  <1> USE DEF RecoveryIInv, RecoveryTypeOK
  <1>1. /\ NoFile \in [pid : PIDs \cup {0}, identity : 0..Len(births), mine : 0..Len(births)]
        /\ NoFile.mine = 0 /\ NoFile.identity = 0
    BY DEF NoFile
  <1>2. "legacy" \in Files
    BY DEF Files
  <1>3. record'[f] = NoFile /\ \A g \in Files : g # f => record'[g] = record[g]
    OBVIOUS
  <1>4. KnownInv'
    <2> SUFFICES ASSUME NEW b \in known, Lives(b) PROVE record'[births[b]].mine = b
      BY DEF KnownInv, Lives
    <2> QED
      BY <1>3 DEF KnownInv
  <1> QED
    BY <1>1, <1>2, <1>3, <1>4 DEF RecordInv, LegacyInv

\* The process under a record's number is the one it was written of, if that lives.
LEMMA NoneThere ==
  ASSUME RecoveryIInv, NEW f \in Files, record[f].mine # 0, ~Alive(record[f].pid)
  PROVE  ~Lives(record[f].mine)
  BY DEF RecoveryIInv, RecordInv, Lives, Alive

LEMMA RecognisedIsWorker ==
  ASSUME RecoveryIInv, NEW f \in Files, record[f].mine # 0, Recognises(f)
  PROVE  /\ record[f].pid \in PIDs /\ process[record[f].pid] \in known
         /\ births[process[record[f].pid]] \in WorkerSlots
  BY DEF RecoveryIInv, RecordInv, LegacyInv, Recognises, Files

-----------------------------------------------------------------------------
(* Processes.                                                                *)

LEMMA ProcessEndsKeeps ==
  ASSUME RecoveryIInv, NEW p \in PIDs, ProcessEnds(p)
  PROVE  RecoveryIInv'
  <1> USE DEF RecoveryIInv, RecoveryTypeOK
  <1>1. /\ process' = [process EXCEPT ![p] = 0]
        /\ UNCHANGED <<running, lock, births, record, known, signalled>>
    BY DEF ProcessEnds
  <1>2. process' \in [PIDs -> 0..Len(births)] /\ \A q \in PIDs : process'[q] \in {0, process[q]}
    BY <1>1
  <1>3. RecordInv' /\ KnownInv' /\ \A b : Lives(b)' => Lives(b)
    BY <1>1, <1>2, ProcessesGo
  <1>4. LaunchInv'
    BY <1>1, <1>2, <1>3 DEF LaunchInv
  <1>5. LockInv' /\ TodoInv' /\ LegacyInv' /\ OnlyRecordedAreSignalled'
    BY <1>1 DEF LockInv, TodoInv, LegacyInv, OnlyRecordedAreSignalled
  <1> QED
    BY <1>1, <1>2, <1>3, <1>4, <1>5

\* A birth is of a process no record names, under a number nobody has.
LEMMA BornKeeps ==
  ASSUME RecoveryIInv, NEW p \in PIDs, NEW for \in WorkerSlots \cup {"stranger"}, Born(p, for),
         UNCHANGED <<record, known, signalled>>
  PROVE  /\ births' \in Seq(WorkerSlots \cup {"legacy", "stranger"})
         /\ Len(births') = Len(births) + 1 /\ Len(births') <= MaxBirths
         /\ births'[Len(births')] = for
         /\ \A b \in 1..Len(births) : births'[b] = births[b]
         /\ process' \in [PIDs -> 0..Len(births')]
         /\ process'[p] = Len(births') /\ \A q \in PIDs : q # p => process'[q] = process[q]
         /\ \A b \in 1..Len(births) : Lives(b)' => Lives(b)
         /\ RecordInv' /\ KnownInv' /\ OnlyRecordedAreSignalled'
         /\ record' \in [Files -> [pid : PIDs \cup {0}, identity : 0..Len(births'), mine : 0..Len(births')]]
         /\ known' \subseteq 1..Len(births') /\ signalled' \subseteq 1..Len(births')
  <1> USE DEF RecoveryIInv, RecoveryTypeOK, Born
  <1>1. /\ births' \in Seq(WorkerSlots \cup {"legacy", "stranger"})
        /\ Len(births') = Len(births) + 1 /\ births'[Len(births')] = for
        /\ \A b \in 1..Len(births) : births'[b] = births[b]
    OBVIOUS
  <1>2. Len(births) \in Nat /\ Len(births') <= MaxBirths /\ MaxBirths \in Nat
    BY <1>1, RecoveryAssumption
  <1>3. /\ process' \in [PIDs -> 0..Len(births')]
        /\ process'[p] = Len(births') /\ \A q \in PIDs : q # p => process'[q] = process[q]
    BY <1>1, <1>2
  <1>4. \A b \in 1..Len(births) : Lives(b)' => Lives(b)
    BY <1>1, <1>2, <1>3 DEF Lives
  <1>5. record' \in [Files -> [pid : PIDs \cup {0}, identity : 0..Len(births'), mine : 0..Len(births')]]
    BY <1>1, <1>2
  <1>6. RecordInv'
    <2> SUFFICES ASSUME NEW f \in Files, record[f].mine # 0
                 PROVE  /\ record[f].mine \in known /\ births'[record[f].mine] = f
                        /\ record[f].pid \in PIDs
                        /\ record[f].identity \in {0, record[f].mine}
                        /\ \A q \in PIDs : process'[q] = record[f].mine => q = record[f].pid
      BY DEF RecordInv
    <2>1. record[f].mine \in 1..Len(births)
      BY DEF RecordInv
    <2> QED
      BY <1>1, <1>2, <1>3, <2>1 DEF RecordInv
  <1>7. KnownInv' /\ OnlyRecordedAreSignalled'
    BY <1>1, <1>2, <1>4 DEF KnownInv, OnlyRecordedAreSignalled, Lives
  <1> QED
    BY <1>1, <1>2, <1>3, <1>4, <1>5, <1>6, <1>7

LEMMA StrangerStartsKeeps ==
  ASSUME RecoveryIInv, NEW p \in PIDs, StrangerStarts(p)
  PROVE  RecoveryIInv'
  <1>1. Born(p, "stranger") /\ UNCHANGED <<running, lock, record, known, signalled>>
    BY DEF StrangerStarts
  <1>2. LockInv' /\ TodoInv' /\ LaunchInv' /\ LegacyInv'
    BY <1>1 DEF RecoveryIInv, LockInv, TodoInv, LaunchInv, LegacyInv, StrangerStarts
  <1> QED
    BY <1>1, <1>2, BornKeeps DEF RecoveryIInv, RecoveryTypeOK

-----------------------------------------------------------------------------
(* Recovery.                                                                 *)

LEMMA AcquireKeeps ==
  ASSUME RecoveryIInv, NEW d \in Daemons, AcquireOwnership(d)
  PROVE  RecoveryIInv'
  <1> USE DEF RecoveryIInv, RecoveryTypeOK
  <1> DEFINE r == [running[d] EXCEPT !.at = "recover", !.todo = {f \in Files : record[f] # NoFile}]
  <1>1. /\ running' = [running EXCEPT ![d] = r] /\ lock' = d
        /\ UNCHANGED <<births, process, record, known, signalled>>
    BY DEF AcquireOwnership
  <1>2. r \in Daemon /\ r.at = "recover" /\ r.slots = running[d].slots
        /\ r.todo = {f \in Files : record[f] # NoFile}
    BY DEF Daemon
  <1>3. \A f \in r.todo : record'[f].mine # 0
    BY <1>1, <1>2 DEF RecordInv
  <1>4. Alone(d)
    BY UpIsAlone DEF AcquireOwnership
  <1>5. running' \in [Daemons -> Daemon] /\ LockInv' /\ TodoInv' /\ LaunchInv'
    <2> HIDE DEF r
    <2> QED
      BY <1>1, <1>2, <1>3, <1>4, DaemonMoves
  <1>6. \A e \in Daemons : running'[e].slots = running[e].slots
    BY <1>1, <1>2
  <1>7. LegacyInv' /\ RecordInv' /\ KnownInv' /\ OnlyRecordedAreSignalled'
    BY <1>1, <1>6 DEF LegacyInv, RecordInv, KnownInv, OnlyRecordedAreSignalled, Lives
  <1> QED
    BY <1>1, <1>5, <1>7

\* The end of a record's turn, whether or not the record goes with it.
LEMMA LeaveKeeps ==
  ASSUME RecoveryIInv, NEW d \in Daemons, NEW f \in Files, NEW gone \in BOOLEAN,
         running[d].at \in Recovering, f \in running[d].todo,
         Leave(d, f, gone), gone => ~Alive(record[f].pid),
         UNCHANGED <<lock, births, process, known, signalled>>
  PROVE  RecoveryIInv'
  <1> USE DEF RecoveryIInv, RecoveryTypeOK
  <1> DEFINE r == [running[d] EXCEPT !.at = "recover", !.todo = @ \ {f}, !.file = "none"]
  <1>1. running' = [running EXCEPT ![d] = r]
        /\ record' = IF gone THEN [record EXCEPT ![f] = NoFile] ELSE record
    BY DEF Leave
  <1>2. r \in Daemon /\ r.at = "recover" /\ r.slots = running[d].slots /\ r.todo = running[d].todo \ {f}
    BY DEF Daemon
  <1>3. \A g \in running[d].todo : g \in Files /\ record[g].mine # 0
    BY DEF TodoInv, Daemon
  <1>4. gone => ~Lives(record[f].mine)
    BY <1>3, NoneThere
  <1>5. /\ record' \in [Files -> [pid : PIDs \cup {0}, identity : 0..Len(births), mine : 0..Len(births)]]
        /\ RecordInv' /\ KnownInv' /\ record'["legacy"].identity = 0
        /\ \A g \in Files : g # f => record'[g] = record[g]
        /\ \A g \in Files : record[g].mine = 0 => record'[g].mine = 0
    <2>1. CASE gone
      BY <1>1, <1>4, <2>1, RecordGoes
    <2>2. CASE ~gone
      BY <1>1, <2>2 DEF RecordInv, KnownInv, LegacyInv, Lives
    <2> QED
      BY <2>1, <2>2
  <1>6. \A g \in r.todo : record'[g].mine # 0
    BY <1>2, <1>3, <1>5
  <1>7. Alone(d) /\ lock' = d
    BY UpIsAlone DEF Recovering, LockInv
  <1>8. running' \in [Daemons -> Daemon] /\ LockInv' /\ TodoInv' /\ LaunchInv'
    <2> HIDE DEF r
    <2> QED
      BY <1>1, <1>2, <1>6, <1>7, DaemonMoves
  <1>9. \A e \in Daemons : running'[e].slots = running[e].slots
    BY <1>1, <1>2
  <1>10. LegacyInv' /\ OnlyRecordedAreSignalled'
    BY <1>5, <1>9 DEF LegacyInv, OnlyRecordedAreSignalled, Files
  <1> QED
    BY <1>5, <1>8, <1>10

\* A signal goes to what is recognised.
LEMMA SignalKeeps ==
  ASSUME RecoveryIInv, NEW d \in Daemons, NEW f \in Files, NEW at \in {"terminate", "kill"},
         running[d].at \in Recovering, f \in running[d].todo, Recognises(f),
         running' = [running EXCEPT ![d].at = at, ![d].file = f],
         signalled' = signalled \cup {process[record[f].pid]},
         process' \in {process, [process EXCEPT ![record[f].pid] = 0]},
         UNCHANGED <<lock, births, record, known>>
  PROVE  RecoveryIInv'
  <1> USE DEF RecoveryIInv, RecoveryTypeOK
  <1> DEFINE r == [running[d] EXCEPT !.at = at, !.file = f]
  <1>1. running' = [running EXCEPT ![d] = r]
    OBVIOUS
  <1>0. running[d].todo \subseteq Files /\ Len(births) \in Nat
    BY DEF Daemon
  <1>2. r \in Daemon /\ r.at = at /\ r.file = f /\ r.slots = running[d].slots /\ r.todo = running[d].todo
    <2>1. running[d] \in Daemon
      OBVIOUS
    <2>2. CASE at = "terminate"
      BY <2>1, <2>2 DEF Daemon
    <2>3. CASE at = "kill"
      BY <2>1, <2>3 DEF Daemon
    <2> QED
      BY <2>2, <2>3
  <1>3. \A g \in running[d].todo : g \in Files /\ record[g].mine # 0
    BY DEF TodoInv, Daemon
  <1>4. /\ process[record[f].pid] \in known /\ births[process[record[f].pid]] \in WorkerSlots
        /\ record[f].pid \in PIDs
    BY <1>3, RecognisedIsWorker
  <1>5. Alone(d) /\ lock' = d
    BY UpIsAlone DEF Recovering, LockInv
  <1>6. running' \in [Daemons -> Daemon] /\ LockInv' /\ TodoInv' /\ LaunchInv'
    <2> HIDE DEF r
    <2> QED
      BY <1>1, <1>2, <1>3, <1>5, DaemonMoves
  <1>7. process' \in [PIDs -> 0..Len(births)] /\ \A q \in PIDs : process'[q] \in {0, process[q]}
    <2>1. CASE process' = process
      BY <2>1
    <2>2. CASE process' = [process EXCEPT ![record[f].pid] = 0]
      BY <1>0, <1>4, <2>2
    <2> QED
      BY <2>1, <2>2
  <1>8. RecordInv' /\ KnownInv'
    BY <1>7, ProcessesGo
  <1>9. \A e \in Daemons : running'[e].slots = running[e].slots
    BY <1>1, <1>2
  <1>10. LegacyInv' /\ OnlyRecordedAreSignalled'
    BY <1>4, <1>9 DEF LegacyInv, OnlyRecordedAreSignalled
  <1> QED
    BY <1>4, <1>6, <1>7, <1>8, <1>10

LEMMA RecoveryKeeps ==
  ASSUME RecoveryIInv, NEW d \in Daemons,
         \/ \E f \in Files : Examine(d, f)
         \/ SeenGone(d) \/ TermTimeout(d) \/ KillTimeout(d)
  PROVE  RecoveryIInv'
  <1>1. ASSUME NEW f \in Files, Examine(d, f) PROVE RecoveryIInv'
    <2>1. running[d].at \in Recovering /\ f \in running[d].todo /\ UNCHANGED <<lock, births, process, known>>
      BY <1>1 DEF Examine, Recovering
    <2>2. CASE ~Alive(record[f].pid) /\ Leave(d, f, TRUE) /\ UNCHANGED signalled
      BY <2>1, <2>2, LeaveKeeps
    <2>3. CASE Leave(d, f, FALSE) /\ UNCHANGED signalled
      BY <2>1, <2>3, LeaveKeeps
    <2>4. CASE /\ Recognises(f)
               /\ signalled' = signalled \cup {process[record[f].pid]}
               /\ running' = [running EXCEPT ![d].at = "terminate", ![d].file = f]
               /\ UNCHANGED record
      BY <2>1, <2>4, SignalKeeps
    <2> QED
      BY <1>1, <2>2, <2>3, <2>4 DEF Examine
  <1>2. ASSUME running[d].at \in {"terminate", "kill"}
        PROVE  /\ running[d].at \in Recovering
               /\ running[d].file \in running[d].todo /\ running[d].file \in Files
    BY <1>2 DEF RecoveryIInv, RecoveryTypeOK, TodoInv, Recovering, Daemon
  <1>3. CASE SeenGone(d)
    BY <1>2, <1>3, LeaveKeeps DEF SeenGone
  <1>4. CASE KillTimeout(d)
    BY <1>2, <1>4, LeaveKeeps DEF KillTimeout
  <1>5. CASE TermTimeout(d)
    <2> DEFINE f == running[d].file
    <2>1. running[d].at = "terminate" /\ UNCHANGED <<lock, births, known>>
      BY <1>5 DEF TermTimeout
    <2>2. CASE Leave(d, f, FALSE) /\ UNCHANGED <<process, signalled>>
      BY <1>2, <2>1, <2>2, LeaveKeeps
    <2>3. CASE /\ Recognises(f)
               /\ signalled' = signalled \cup {process[record[f].pid]}
               /\ process' = [process EXCEPT ![record[f].pid] = 0]
               /\ running' = [running EXCEPT ![d].at = "kill"]
               /\ UNCHANGED record
      <3>1. running' = [running EXCEPT ![d].at = "kill", ![d].file = f]
        BY <2>3 DEF RecoveryIInv, RecoveryTypeOK, Daemon
      <3> QED
        BY <1>2, <2>1, <2>3, <3>1, SignalKeeps
    <2> QED
      BY <1>5, <2>2, <2>3 DEF TermTimeout
  <1> QED
    BY <1>1, <1>3, <1>4, <1>5

LEMMA ServeKeeps ==
  ASSUME RecoveryIInv, NEW d \in Daemons, Serve(d)
  PROVE  RecoveryIInv'
  <1> USE DEF RecoveryIInv, RecoveryTypeOK
  <1> DEFINE r == [running[d] EXCEPT !.at = "serve"]
  <1>1. running' = [running EXCEPT ![d] = r]
        /\ UNCHANGED <<lock, births, process, record, known, signalled>>
    BY DEF Serve
  <1>2. r \in Daemon /\ r.at = "serve" /\ r.slots = running[d].slots
    BY DEF Daemon
  <1>3. Alone(d) /\ lock' = d
    BY <1>1, UpIsAlone DEF Serve, LockInv
  <1>4. running' \in [Daemons -> Daemon] /\ LockInv' /\ TodoInv' /\ LaunchInv'
    <2> HIDE DEF r
    <2> QED
      BY <1>1, <1>2, <1>3, DaemonMoves DEF Recovering
  <1>5. \A e \in Daemons : running'[e].slots = running[e].slots
    BY <1>1, <1>2
  <1>6. LegacyInv' /\ RecordInv' /\ KnownInv' /\ OnlyRecordedAreSignalled'
    BY <1>1, <1>5 DEF LegacyInv, RecordInv, KnownInv, OnlyRecordedAreSignalled, Lives
  <1> QED
    BY <1>1, <1>4, <1>6

LEMMA DaemonEndsKeeps ==
  ASSUME RecoveryIInv, NEW d \in Daemons, DaemonEnds(d)
  PROVE  RecoveryIInv'
  <1> USE DEF RecoveryIInv, RecoveryTypeOK
  <1>1. /\ running' = [running EXCEPT ![d] = Off]
        /\ UNCHANGED <<births, process, record, known, signalled>>
        /\ Off \in Daemon /\ Off.at = "off" /\ Off.slots = {} /\ lock' \in {lock, "none"}
    BY DEF DaemonEnds, Off, Daemon
  <1>2. Alone(d)
    BY UpIsAlone DEF DaemonEnds
  <1>3. running' \in [Daemons -> Daemon] /\ LockInv' /\ TodoInv' /\ LaunchInv'
    BY <1>1, <1>2, DaemonMoves DEF Recovering
  <1>4. LegacyInv' /\ RecordInv' /\ KnownInv' /\ OnlyRecordedAreSignalled'
    BY <1>1 DEF LegacyInv, RecordInv, KnownInv, OnlyRecordedAreSignalled, Lives
  <1> QED
    BY <1>1, <1>3, <1>4

-----------------------------------------------------------------------------
(* Launches.                                                                 *)

\* checkRecoveryRecords and the manager's map together: nothing that was recorded for the
\* slot, or by an earlier version, still runs.
LEMMA LaunchIsAlone ==
  ASSUME RecoveryIInv, NEW d \in Daemons, NEW s \in WorkerSlots, NEW p \in PIDs, LaunchWorker(d, s, p),
         NEW b \in known, births[b] \in {s, "legacy"}
  PROVE  ~Lives(b)
  <1> USE DEF RecoveryIInv, KnownInv
  <1>1. NoFile.mine = 0 /\ b # 0 /\ "legacy" \in Files /\ s \in Files
    BY DEF NoFile, RecoveryTypeOK, Files
  <1>2. CASE births[b] = s
    BY <1>1, <1>2 DEF LaunchWorker, RecordsClear
  <1>3. CASE births[b] = "legacy"
    BY <1>1, <1>3 DEF LaunchWorker, RecordsClear, LegacyInv
  <1> QED
    BY <1>2, <1>3

LEMMA LaunchWorkerKeeps ==
  ASSUME RecoveryIInv, NEW d \in Daemons, NEW s \in WorkerSlots, NEW p \in PIDs, LaunchWorker(d, s, p)
  PROVE  RecoveryIInv'
  <1> USE DEF RecoveryIInv, RecoveryTypeOK
  <1> DEFINE r == [running[d] EXCEPT !.at = "record", !.file = s, !.pid = p, !.slots = @ \cup {s}]
  <1>1. /\ running' = [running EXCEPT ![d] = r] /\ Born(p, s)
        /\ UNCHANGED <<lock, record, known, signalled>>
    BY DEF LaunchWorker
  <1>2. r \in Daemon /\ r.at = "record" /\ r.file = s /\ r.pid = p /\ s \in WorkerSlots
    BY DEF Daemon, Files
  <1>3. running'[d] = r /\ \A e \in Daemons \ {d} : running'[e] = running[e] /\ running[e].at = "off"
    BY <1>1, UpIsAlone DEF Alone, LaunchWorker
  <1>4. lock = d /\ running' \in [Daemons -> Daemon]
    BY <1>1, <1>2 DEF LaunchWorker, LockInv
  <1>5. /\ births' \in Seq(WorkerSlots \cup {"legacy", "stranger"})
        /\ Len(births') = Len(births) + 1 /\ Len(births') <= MaxBirths
        /\ births'[Len(births')] = s
        /\ \A b \in 1..Len(births) : births'[b] = births[b]
        /\ process' \in [PIDs -> 0..Len(births')]
        /\ process'[p] = Len(births') /\ \A q \in PIDs : q # p => process'[q] = process[q]
        /\ \A b \in 1..Len(births) : Lives(b)' => Lives(b)
        /\ RecordInv' /\ KnownInv' /\ OnlyRecordedAreSignalled'
        /\ record' \in [Files -> [pid : PIDs \cup {0}, identity : 0..Len(births'), mine : 0..Len(births')]]
        /\ known' \subseteq 1..Len(births') /\ signalled' \subseteq 1..Len(births')
    BY <1>1, BornKeeps
  <1>6. LockInv' /\ TodoInv'
    BY <1>1, <1>2, <1>3, <1>4 DEF LockInv, TodoInv, Recovering
  <1>7. LaunchInv'
    <2>1. \A b \in known : births'[b] = s => ~Lives(b)'
      BY <1>5, LaunchIsAlone
    <2>2. \A q \in PIDs : process'[q] = Len(births') => q = p
      BY <1>5
    <2>3. Len(births') \notin known /\ Len(births') > 0
      BY <1>5
    <2> QED
      BY <1>1, <1>2, <1>3, <1>5, <2>1, <2>2, <2>3 DEF LaunchInv
  <1>8. LegacyInv'
    <2>1. record["legacy"].mine = 0
      BY DEF LaunchWorker, RecordsClear, LegacyInv, NoFile
    <2> QED
      BY <1>1, <2>1 DEF LegacyInv
  <1> QED
    BY <1>1, <1>4, <1>5, <1>6, <1>7, <1>8

\* The new process takes the slot's record over from one that has ended, or is killed.
LEMMA WriteWorkerPIDKeeps ==
  ASSUME RecoveryIInv, NEW d \in Daemons, WriteWorkerPID(d)
  PROVE  RecoveryIInv'
  <1> USE DEF RecoveryIInv, RecoveryTypeOK
  <1> DEFINE b == Len(births)
             s == running[d].file
             p == running[d].pid
             r == [running[d] EXCEPT !.at = "serve", !.file = "none", !.pid = 0]
  <1>1. /\ running' = [running EXCEPT ![d] = r]
        /\ UNCHANGED <<lock, births, signalled>>
    BY DEF WriteWorkerPID
  <1>2. r \in Daemon /\ r.at = "serve" /\ r.slots = running[d].slots
    BY DEF Daemon
  <1>3. Alone(d) /\ lock' = d
    BY <1>1, UpIsAlone DEF WriteWorkerPID, LockInv
  <1>4. running' \in [Daemons -> Daemon] /\ LockInv' /\ TodoInv' /\ LaunchInv'
    <2> HIDE DEF r
    <2> QED
      BY <1>1, <1>2, <1>3, DaemonMoves DEF Recovering
  <1>5. /\ s \in WorkerSlots /\ p \in PIDs /\ b > 0 /\ b \in Nat /\ births[b] = s /\ b \notin known
        /\ \A q \in PIDs : process[q] = b => q = p
        /\ process[p] \in {0, b}
        /\ \A c \in known : births[c] = s => ~Lives(c)
        /\ s \in Files /\ s # "legacy"
    BY RecoveryAssumption DEF WriteWorkerPID, LaunchInv, Files
  <1>6. \A e \in Daemons : running'[e].slots = running[e].slots
    BY <1>1, <1>2
  <1>7. ASSUME NEW identity \in {0, process[p]},
               record' = [record EXCEPT ![s] = [pid |-> p, identity |-> identity, mine |-> b]],
               known' = known \cup {b}, UNCHANGED process
        PROVE  RecoveryIInv'
    <2> DEFINE new == [pid |-> p, identity |-> identity, mine |-> b]
    <2>1. new \in [pid : PIDs \cup {0}, identity : 0..Len(births), mine : 0..Len(births)]
      BY <1>5
    <2>2. record'[s] = new /\ \A f \in Files : f # s => record'[f] = record[f]
      BY <1>5, <1>7
    <2>3. record' \in [Files -> [pid : PIDs \cup {0}, identity : 0..Len(births), mine : 0..Len(births)]]
      BY <1>5, <1>7, <2>1
    <2>4. known' \subseteq 1..Len(births)
      <3>1. known \subseteq 1..Len(births) /\ b \in 1..Len(births)
        BY <1>5
      <3> QED
        BY <1>7, <3>1
    <2>5. RecordInv'
      <3>1. /\ new.mine # 0 /\ new.mine \in known' /\ births[new.mine] = s /\ new.pid \in PIDs
            /\ new.identity \in {0, new.mine} /\ \A q \in PIDs : process[q] = new.mine => q = new.pid
        BY <1>5, <1>7
      <3> QED
        BY <1>1, <1>7, <2>2, <3>1 DEF RecordInv
    <2>6. KnownInv'
      <3> SUFFICES ASSUME NEW c \in known'
                   PROVE  births[c] \in Files /\ (Lives(c) => record'[births[c]].mine = c)
        BY <1>1, <1>7 DEF KnownInv, Lives
      <3>1. CASE c = b
        BY <1>5, <2>2, <3>1
      <3>2. CASE c \in known
        BY <1>5, <2>2, <3>2 DEF KnownInv
      <3> QED
        BY <1>7, <3>1, <3>2
    <2>7. LegacyInv' /\ OnlyRecordedAreSignalled'
      BY <1>1, <1>5, <1>6, <1>7, <2>2 DEF LegacyInv, OnlyRecordedAreSignalled, Files
    <2> QED
      BY <1>1, <1>4, <1>7, <2>3, <2>4, <2>5, <2>6, <2>7
  <1>8. CASE process' = [process EXCEPT ![p] = 0] /\ UNCHANGED <<record, known>>
    <2>1. process' \in [PIDs -> 0..Len(births)] /\ \A q \in PIDs : process'[q] \in {0, process[q]}
      BY <1>5, <1>8
    <2>2. RecordInv' /\ KnownInv'
      BY <1>1, <1>8, <2>1, ProcessesGo
    <2>3. LegacyInv' /\ OnlyRecordedAreSignalled'
      BY <1>1, <1>6, <1>8 DEF LegacyInv, OnlyRecordedAreSignalled
    <2> QED
      BY <1>1, <1>4, <1>8, <2>1, <2>2, <2>3
  <1> QED
    BY <1>7, <1>8 DEF WriteWorkerPID

LEMMA SlotDownKeeps ==
  ASSUME RecoveryIInv, NEW d \in Daemons, NEW s \in WorkerSlots, SlotDown(d, s)
  PROVE  RecoveryIInv'
  <1> USE DEF RecoveryIInv, RecoveryTypeOK
  <1> DEFINE r == [running[d] EXCEPT !.slots = @ \ {s}]
  <1>1. /\ running' = [running EXCEPT ![d] = r]
        /\ record' = record \/ record' = [record EXCEPT ![s] = NoFile]
        /\ UNCHANGED <<lock, births, process, known, signalled>>
    BY DEF SlotDown
  <1>2. r \in Daemon /\ r.at = "serve" /\ r.slots \subseteq running[d].slots
    BY DEF Daemon, SlotDown
  <1>3. Alone(d) /\ lock' = d
    BY <1>1, UpIsAlone DEF SlotDown, LockInv
  <1>4. running' \in [Daemons -> Daemon] /\ LockInv' /\ TodoInv' /\ LaunchInv'
    <2> HIDE DEF r
    <2> QED
      BY <1>1, <1>2, <1>3, DaemonMoves DEF Recovering
  <1>5. \A e \in Daemons : running'[e].slots \subseteq running[e].slots
    BY <1>1, <1>2
  <1>6. s \in Files /\ ~Lives(record[s].mine) /\ "legacy" \in Files
    BY DEF Files, SlotDown
  <1>7. /\ record' \in [Files -> [pid : PIDs \cup {0}, identity : 0..Len(births), mine : 0..Len(births)]]
        /\ RecordInv' /\ KnownInv' /\ record'["legacy"].identity = 0
        /\ \A g \in Files : record[g].mine = 0 => record'[g].mine = 0
    <2>1. CASE record' = record
      BY <1>1, <2>1 DEF RecordInv, KnownInv, LegacyInv, Lives
    <2>2. CASE record' = [record EXCEPT ![s] = NoFile]
      BY <1>1, <1>6, <2>2, RecordGoes
    <2> QED
      BY <1>1, <2>1, <2>2
  <1>8. LegacyInv' /\ OnlyRecordedAreSignalled'
    BY <1>1, <1>5, <1>6, <1>7 DEF LegacyInv, OnlyRecordedAreSignalled
  <1> QED
    BY <1>1, <1>4, <1>7, <1>8

-----------------------------------------------------------------------------

LEMMA RecoveryStepInv == RecoveryIInv /\ [RecoveryNext]_recoveryVars => RecoveryIInv'
  <1> SUFFICES ASSUME RecoveryIInv, [RecoveryNext]_recoveryVars PROVE RecoveryIInv'
    OBVIOUS
  <1>1. CASE UNCHANGED recoveryVars
    BY <1>1 DEF recoveryVars, RecoveryIInv, RecoveryTypeOK, LockInv, TodoInv, LaunchInv, LegacyInv, RecordInv,
       KnownInv, OnlyRecordedAreSignalled, Lives
  <1>2. ASSUME NEW p \in PIDs, ProcessEnds(p) \/ StrangerStarts(p) PROVE RecoveryIInv'
    BY <1>2, ProcessEndsKeeps, StrangerStartsKeeps
  <1>3. ASSUME NEW d \in Daemons,
               \/ \E f \in Files : Examine(d, f)
               \/ SeenGone(d) \/ TermTimeout(d) \/ KillTimeout(d)
        PROVE  RecoveryIInv'
    BY <1>3, RecoveryKeeps
  <1>4. ASSUME NEW d \in Daemons, AcquireOwnership(d) \/ Serve(d) \/ WriteWorkerPID(d) \/ DaemonEnds(d)
        PROVE  RecoveryIInv'
    BY <1>4, AcquireKeeps, ServeKeeps, WriteWorkerPIDKeeps, DaemonEndsKeeps
  <1>5. ASSUME NEW d \in Daemons, NEW s \in WorkerSlots,
               SlotDown(d, s) \/ \E p \in PIDs : LaunchWorker(d, s, p)
        PROVE  RecoveryIInv'
    BY <1>5, SlotDownKeeps, LaunchWorkerKeeps
  <1> QED
    BY <1>1, <1>2, <1>3, <1>4, <1>5 DEF RecoveryNext

\* A recovery signals workers a record was written of and nothing else, whatever numbers
\* are reused before and between its two signals, for any number of daemons, slots and
\* process numbers (recoverWorkerRecord).
THEOREM OnlyWorkersSignalled == RecoverySpec => []OnlyRecordedAreSignalled
<1>1. RecoveryIInv => OnlyRecordedAreSignalled
  BY DEF RecoveryIInv
<1> QED
  BY <1>1, RecoveryInitInv, RecoveryStepInv, PTL DEF RecoverySpec

\* No worker is launched beside one of its slot that was recorded and still runs, or
\* beside one of an earlier version, however many daemons came and went in between
\* (checkRecoveryRecords).
THEOREM NothingRunsBeside == RecoverySpec => NoLaunchBesideRecorded
<1>1. RecoveryIInv /\ [RecoveryNext]_recoveryVars
        => [\A d \in Daemons, s \in WorkerSlots, p \in PIDs :
              LaunchWorker(d, s, p)
                => \A b \in known : births[b] \in {s, "legacy"} => ~Lives(b)]_recoveryVars
  BY LaunchIsAlone
<1> QED
  BY <1>1, RecoveryInitInv, RecoveryStepInv, PTL DEF RecoverySpec, NoLaunchBesideRecorded

\* Whatever was recorded and still runs is in a record now: no end of a slot and no
\* recovery removes the record of a live worker (removeWorkerPID, recoverWorkerRecord).
THEOREM LiveStaysRecorded == RecoverySpec => []KnownInv
<1>1. RecoveryIInv => KnownInv
  BY DEF RecoveryIInv
<1> QED
  BY <1>1, RecoveryInitInv, RecoveryStepInv, PTL DEF RecoverySpec

=============================================================================
