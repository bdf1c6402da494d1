----------------------------- MODULE SlotsProofs -----------------------------
(* Proofs about Slots: that nothing runs which should not, and that no slot  *)
(* resumes a conversation of another account or workspace.                   *)
EXTENDS Slots, TLAPS

(***************************************************************************)
(* The invariant. An operation acts on what it read or wrote some steps    *)
(* ago; OpInv says what of that still holds, although workers, their hooks *)
(* and crashes go on in between.                                           *)
(***************************************************************************)

WorkerInPlace == \A s \in Slots : Live(s) => worker[s].place = slot[s].place

\* A conversation can be resumed in a place.
Belongs(c, p) == c # None => p # None /\ conv[c].place = p

\* Only a slot that is there has a run, an account and a workspace, and a conversation.
RowInv ==
  \A s \in Slots : /\ s \in open => slot[s].present
                   /\ slot[s].present \/ slot[s].resume # None => slot[s].place # None

OpInv ==
  /\ op.pc # "idle" => op.slot \in Slots /\ slot[op.slot].present
  /\ op.pc \in {"mark", "write"} => ~Live(op.slot)
  /\ op.pc = "launch" => slot[op.slot].desired = "running"
  /\ op.pc # "idle" /\ op.kind = "create" => ~Live(op.slot) /\ op.slot \notin open
  /\ op.pc # "idle" /\ op.kind = "edit" => op.place # None
  /\ Belongs(op.resume, op.place)

IInv ==
  /\ TypeOK /\ WorkerIsWanted /\ WorkerInPlace /\ ResumeInPlace /\ TalksInItsConversation
  /\ RowInv /\ OpInv

-----------------------------------------------------------------------------

LEMMA InitInv == Init => IInv
  <1> SUFFICES ASSUME Init PROVE IInv
    OBVIOUS
  <1>1. TypeOK
    BY DEF Init, TypeOK, Row, NoRow, Worker, NoWorker, Checkpoint, Operation, Idle, Holding
  <1>2. WorkerIsWanted /\ WorkerInPlace /\ ResumeInPlace /\ TalksInItsConversation /\ RowInv
    BY DEF Init, Live, WorkerIsWanted, WorkerInPlace, ResumeInPlace, TalksInItsConversation,
       RowInv, NoRow, NoWorker
  <1>3. OpInv
    BY DEF Init, OpInv, Belongs, Idle, Holding
  <1> QED
    BY <1>1, <1>2, <1>3 DEF IInv

\* The requests: only Create and Start touch a row, and none touches a worker.
LEMMA CreateKeeps ==
  ASSUME IInv, NEW s \in Slots, NEW p \in Places, NEW c \in Convs \cup {None}, Create(s, p, c)
  PROVE  IInv'
  <1> USE DEF IInv, Create, Begin, Holding
  <1>1. TypeOK'
    BY DEF TypeOK, Row, Operation
  <1>2. ~Live(s)
    BY DEF WorkerIsWanted
  <1>3. WorkerIsWanted' /\ WorkerInPlace' /\ TalksInItsConversation'
    BY <1>2 DEF TypeOK, Live, WorkerIsWanted, WorkerInPlace, TalksInItsConversation
  <1>4. ResumeInPlace' /\ RowInv'
    BY NoneAssumption DEF TypeOK, ResumeInPlace, RowInv, Resumable
  <1>5. OpInv'
    BY <1>2 DEF RowInv, TypeOK, Live, OpInv, Belongs
  <1> QED
    BY <1>1, <1>3, <1>4, <1>5

LEMMA BeginEditKeeps ==
  ASSUME IInv, NEW s \in Slots, NEW p \in Places, NEW c \in Convs \cup {None},
         NEW keep \in BOOLEAN, NEW force \in BOOLEAN, BeginEdit(s, p, c, keep, force),
         Belongs(c, p)
  PROVE  IInv'
  <1> USE DEF IInv, BeginEdit, Holding
  <1>1. TypeOK'
    BY DEF TypeOK, Operation
  <1>2. WorkerIsWanted' /\ WorkerInPlace' /\ ResumeInPlace' /\ TalksInItsConversation' /\ RowInv'
    BY DEF Live, WorkerIsWanted, WorkerInPlace, ResumeInPlace, TalksInItsConversation, RowInv
  <1>3. OpInv'
    BY NoneAssumption DEF Live, OpInv, Belongs
  <1> QED
    BY <1>1, <1>2, <1>3

LEMMA EditKeeps ==
  ASSUME IInv, NEW s \in Slots, NEW p \in Places, NEW c \in Convs \cup {None},
         NEW force \in BOOLEAN, EditKeeping(s, p, force) \/ EditChoosing(s, p, c, force)
  PROVE  IInv'
  <1>1. CASE EditKeeping(s, p, force)
    <2> DEFINE kept == IF p = slot[s].place THEN slot[s].resume ELSE None
    <2>1. kept \in Convs \cup {None}
      BY DEF IInv, TypeOK, Row
    <2>2. Belongs(kept, p)
      BY NoneAssumption DEF IInv, TypeOK, ResumeInPlace, RowInv, Belongs
    <2>3. CASE p = slot[s].place
      BY <1>1, <2>1, <2>2, <2>3, BeginEditKeeps DEF EditKeeping
    <2>4. CASE p # slot[s].place
      BY <1>1, <2>1, <2>2, <2>4, BeginEditKeeps DEF EditKeeping
    <2> QED
      BY <2>3, <2>4
  <1>2. CASE EditChoosing(s, p, c, force)
    <2>1. Belongs(c, p)
      BY <1>2, NoneAssumption DEF EditChoosing, Resumable, Belongs
    <2> QED
      BY <1>2, <2>1, BeginEditKeeps DEF EditChoosing
  <1> QED
    BY <1>1, <1>2

LEMMA StartKeeps ==
  ASSUME IInv, NEW s \in Slots, NEW force \in BOOLEAN, Start(s, force)
  PROVE  IInv'
  <1> USE DEF IInv, Start, Begin, Holding
  <1>1. TypeOK'
    BY DEF TypeOK, Row, Operation
  <1>2. WorkerIsWanted' /\ WorkerInPlace' /\ ResumeInPlace' /\ TalksInItsConversation' /\ RowInv'
    BY DEF TypeOK, Live, WorkerIsWanted, WorkerInPlace, ResumeInPlace, TalksInItsConversation, RowInv
  <1>3. OpInv'
    BY DEF TypeOK, Live, OpInv, Belongs
  <1> QED
    BY <1>1, <1>2, <1>3

LEMMA StopRequestKeeps ==
  ASSUME IInv, NEW s \in Slots, NEW force \in BOOLEAN,
         Restart(s, force) \/ Stop(s, force) \/ Delete(s)
  PROVE  IInv'
  <1> USE DEF IInv, Restart, Stop, Delete, Begin, Holding
  <1>1. TypeOK'
    <2>1. CASE Restart(s, force)
      BY <2>1 DEF TypeOK, Operation
    <2>2. CASE Stop(s, force)
      BY <2>2 DEF TypeOK, Operation
    <2>3. CASE Delete(s)
      BY <2>3 DEF TypeOK, Operation
    <2> QED
      BY <2>1, <2>2, <2>3
  <1>2. WorkerIsWanted' /\ WorkerInPlace' /\ ResumeInPlace' /\ TalksInItsConversation' /\ RowInv'
    BY DEF Live, WorkerIsWanted, WorkerInPlace, ResumeInPlace, TalksInItsConversation, RowInv
  <1>3. OpInv'
    BY DEF Live, OpInv, Belongs
  <1> QED
    BY <1>1, <1>2, <1>3

LEMMA RequestKeeps == ASSUME IInv, Request PROVE IInv'
  BY CreateKeeps, EditKeeps, StartKeeps, StopRequestKeeps DEF Request

-----------------------------------------------------------------------------
\* Stopping, for whoever asked for it.
LEMMA StopReadsKeeps == ASSUME IInv, StopReads PROVE IInv'
  <1> USE DEF IInv, StopReads
  <1>1. TypeOK'
    BY DEF TypeOK, Operation
  <1>2. WorkerIsWanted' /\ WorkerInPlace' /\ ResumeInPlace' /\ TalksInItsConversation' /\ RowInv'
    BY DEF Live, WorkerIsWanted, WorkerInPlace, ResumeInPlace, TalksInItsConversation, RowInv
  <1>3. OpInv'
    BY DEF TypeOK, Operation, Live, OpInv, Belongs
  <1> QED
    BY <1>1, <1>2, <1>3

LEMMA StopDoneKeeps == ASSUME IInv, StopDone PROVE IInv'
  <1> USE DEF IInv, StopDone, NoWorker
  <1>1. TypeOK'
    BY DEF TypeOK, Operation, Worker
  <1>2. WorkerIsWanted' /\ WorkerInPlace' /\ ResumeInPlace' /\ TalksInItsConversation' /\ RowInv'
    BY DEF TypeOK, Live, WorkerIsWanted, WorkerInPlace, ResumeInPlace, TalksInItsConversation, RowInv
  <1>3. OpInv'
    BY DEF TypeOK, Operation, Live, OpInv, Belongs
  <1> QED
    BY <1>1, <1>2, <1>3

LEMMA StopCancelsKeeps == ASSUME IInv, StopCancels PROVE IInv'
  <1> USE DEF IInv, StopCancels, Live
  <1>1. op.slot \in Slots
    BY DEF OpInv
  <1>2. worker' \in [Slots -> Worker]
    BY <1>1 DEF TypeOK, Worker
  <1>3. TypeOK'
    BY <1>2 DEF TypeOK, Operation
  <1>4. \A s \in Slots : /\ Live(s)' <=> Live(s)
                         /\ worker'[s].place = worker[s].place
                         /\ worker'[s].conv = worker[s].conv
    BY <1>1 DEF TypeOK, Worker
  <1>5. WorkerIsWanted' /\ WorkerInPlace' /\ ResumeInPlace' /\ TalksInItsConversation' /\ RowInv'
    BY <1>4 DEF WorkerIsWanted, WorkerInPlace, ResumeInPlace, TalksInItsConversation, RowInv
  <1>6. OpInv'
    BY <1>4 DEF TypeOK, Operation, OpInv, Belongs
  <1> QED
    BY <1>3, <1>5, <1>6

LEMMA MarkKeeps == ASSUME IInv, NEW c \in Convs, Mark(c) PROVE IInv'
  <1> USE DEF IInv, Mark
  <1>1. TypeOK'
    BY DEF TypeOK, Operation, Checkpoint
  <1>2. WorkerIsWanted' /\ WorkerInPlace' /\ TalksInItsConversation'
    BY DEF Live, WorkerIsWanted, WorkerInPlace, TalksInItsConversation
  <1>3. \A d \in Convs : conv'[d].place = conv[d].place
    BY DEF TypeOK, Checkpoint
  <1>4. ResumeInPlace' /\ RowInv'
    BY <1>3 DEF TypeOK, Row, ResumeInPlace, RowInv
  <1>5. OpInv'
    BY <1>3 DEF TypeOK, Operation, Live, OpInv, Belongs
  <1> QED
    BY <1>1, <1>2, <1>4, <1>5

\* The operation fails and holds nothing any more.
LEMMA GiveUpKeeps == ASSUME IInv, StopTimeout \/ WriteFails PROVE IInv'
  <1> USE DEF IInv, StopTimeout, WriteFails, Idle, Holding
  <1>1. TypeOK'
    <2>1. op' = Idle /\ UNCHANGED <<slot, worker, open, conv, listed, daemon>>
      OBVIOUS
    <2>2. Idle \in Operation
      BY DEF Operation
    <2> QED
      BY ONLY <2>1, <2>2, TypeOK DEF TypeOK
  <1>2. WorkerIsWanted' /\ WorkerInPlace' /\ ResumeInPlace' /\ TalksInItsConversation' /\ RowInv'
    BY DEF Live, WorkerIsWanted, WorkerInPlace, ResumeInPlace, TalksInItsConversation, RowInv
  <1>3. OpInv'
    BY DEF Live, OpInv, Belongs
  <1> QED
    BY <1>1, <1>2, <1>3

-----------------------------------------------------------------------------
\* Writing the row. The worker is down by then, so the row may say anything that
\* a worker could be started from.
LEMMA WriteStoppedKeeps == ASSUME IInv, WriteStopped PROVE IInv'
  <1> USE DEF IInv, WriteStopped, Idle, Holding
  <1>1. op.slot \in Slots /\ slot[op.slot].present /\ ~Live(op.slot)
    BY DEF Live, OpInv
  <1>2. TypeOK'
    BY <1>1 DEF TypeOK, Operation, Row
  <1>3. WorkerIsWanted' /\ WorkerInPlace' /\ ResumeInPlace' /\ TalksInItsConversation' /\ RowInv'
    BY <1>1 DEF TypeOK, Live, WorkerIsWanted, WorkerInPlace, ResumeInPlace, TalksInItsConversation, RowInv
  <1>4. OpInv'
    BY DEF Live, OpInv, Belongs
  <1> QED
    BY <1>2, <1>3, <1>4

LEMMA WriteDeletedKeeps == ASSUME IInv, WriteDeleted PROVE IInv'
  <1> USE DEF IInv, WriteDeleted, Idle, Holding, NoRow
  <1>1. op.slot \in Slots /\ ~Live(op.slot)
    BY DEF Live, OpInv
  <1>2. TypeOK'
    BY <1>1 DEF TypeOK, Operation, Row
  <1>3. WorkerIsWanted' /\ WorkerInPlace' /\ ResumeInPlace' /\ TalksInItsConversation' /\ RowInv'
    BY <1>1 DEF TypeOK, Live, WorkerIsWanted, WorkerInPlace, ResumeInPlace, TalksInItsConversation, RowInv
  <1>4. OpInv'
    BY DEF Live, OpInv, Belongs
  <1> QED
    BY <1>2, <1>3, <1>4

LEMMA WriteRestartedKeeps == ASSUME IInv, WriteRestarted PROVE IInv'
  <1> USE DEF IInv, WriteRestarted
  <1>1. op.slot \in Slots /\ slot[op.slot].present /\ ~Live(op.slot)
    BY DEF Live, OpInv
  <1>2. TypeOK'
    <2>1. slot' \in [Slots -> Row]
      BY <1>1 DEF TypeOK, Row
    <2>2. op' \in Operation
      BY DEF TypeOK, Operation
    <2> QED
      BY <2>1, <2>2 DEF TypeOK
  <1>3. WorkerIsWanted' /\ WorkerInPlace' /\ ResumeInPlace' /\ TalksInItsConversation' /\ RowInv'
    BY <1>1 DEF TypeOK, Live, WorkerIsWanted, WorkerInPlace, ResumeInPlace, TalksInItsConversation, RowInv
  <1>4. OpInv'
    BY <1>1 DEF TypeOK, Operation, Live, OpInv, Belongs
  <1> QED
    BY <1>2, <1>3, <1>4

LEMMA WriteEditedKeeps == ASSUME IInv, WriteEdited PROVE IInv'
  <1> USE DEF IInv, WriteEdited
  <1>1. op.slot \in Slots /\ ~Live(op.slot) /\ Belongs(op.resume, op.place)
    BY DEF Live, OpInv
  <1>2. TypeOK'
    BY <1>1 DEF TypeOK, Operation, Row
  <1>3. WorkerIsWanted' /\ WorkerInPlace' /\ TalksInItsConversation'
    BY <1>1 DEF TypeOK, Live, WorkerIsWanted, WorkerInPlace, TalksInItsConversation
  <1>4. ResumeInPlace' /\ RowInv'
    BY <1>1 DEF TypeOK, ResumeInPlace, RowInv, OpInv, Belongs
  <1>5. OpInv'
    BY <1>1 DEF TypeOK, Operation, Live, OpInv, Belongs
  <1> QED
    BY <1>2, <1>3, <1>4, <1>5

-----------------------------------------------------------------------------
\* A start from the row as it is now, by whoever holds opMu or by supervise.
LEMMA LaunchedKeeps ==
  ASSUME IInv, NEW s \in Slots, slot[s].present, slot[s].desired = "running",
         worker' = Launched(s, slot[s].place), open' = open \cup {s}, UNCHANGED <<slot, conv>>
  PROVE  /\ worker' \in [Slots -> Worker]
         /\ WorkerIsWanted' /\ WorkerInPlace' /\ ResumeInPlace' /\ TalksInItsConversation' /\ RowInv'
  <1> USE DEF IInv, Launched
  <1>1. worker' \in [Slots -> Worker]
    BY DEF TypeOK, Worker, Row
  <1>2. WorkerIsWanted' /\ WorkerInPlace' /\ ResumeInPlace' /\ TalksInItsConversation' /\ RowInv'
    BY DEF TypeOK, Live, WorkerIsWanted, WorkerInPlace, ResumeInPlace, TalksInItsConversation, RowInv
  <1> QED
    BY <1>1, <1>2

LEMMA LaunchKeeps == ASSUME IInv, Launch PROVE IInv'
  <1> USE DEF Launch, Idle, Holding
  <1>1. op.slot \in Slots /\ slot[op.slot].present /\ slot[op.slot].desired = "running"
    BY DEF IInv, OpInv
  <1>2. /\ worker' \in [Slots -> Worker]
        /\ WorkerIsWanted' /\ WorkerInPlace' /\ ResumeInPlace' /\ TalksInItsConversation' /\ RowInv'
    <2>1. CASE UNCHANGED <<worker, open>>
      BY <2>1 DEF IInv, TypeOK, Live, WorkerIsWanted, WorkerInPlace, ResumeInPlace,
         TalksInItsConversation, RowInv
    <2>2. CASE /\ worker' = Launched(op.slot, slot[op.slot].place)
               /\ open' = open \cup {op.slot}
      BY <1>1, <2>2, LaunchedKeeps
    <2> QED
      BY <2>1, <2>2
  <1>3. TypeOK'
    BY <1>1, <1>2 DEF IInv, TypeOK, Operation
  <1>4. OpInv'
    BY DEF IInv, OpInv, Belongs
  <1> QED
    BY <1>2, <1>3, <1>4 DEF IInv

LEMMA LaunchFailsKeeps == ASSUME IInv, LaunchFails PROVE IInv'
  <1> USE DEF IInv, LaunchFails, Idle, Holding, Live
  <1>1. /\ op.slot \in Slots /\ slot[op.slot].present
        /\ op.kind = "create" => ~Live(op.slot) /\ op.slot \notin open
    BY DEF OpInv
  <1>2. slot' \in [Slots -> Row]
    <2>1. NoRow \in Row
      BY DEF Row, NoRow
    <2> QED
      BY <1>1, <2>1 DEF TypeOK
  <1>3. worker' \in [Slots -> Worker]
    BY <1>1 DEF TypeOK, Worker, NoWorker
  <1>4. TypeOK'
    BY <1>2, <1>3 DEF TypeOK, Operation
  <1>5. \A s \in Slots : Live(s)' => /\ Live(s) /\ slot'[s] = slot[s]
                                     /\ worker'[s].place = worker[s].place
                                     /\ worker'[s].conv = worker[s].conv
    BY <1>1 DEF TypeOK, Worker, NoWorker
  <1>6. \A s \in Slots : slot'[s].resume # None => slot'[s] = slot[s]
    BY <1>1 DEF TypeOK, NoRow
  <1>7. WorkerIsWanted' /\ WorkerInPlace' /\ TalksInItsConversation'
    BY <1>5 DEF WorkerIsWanted, WorkerInPlace, TalksInItsConversation
  <1>8. ResumeInPlace' /\ RowInv'
    BY <1>1, <1>6 DEF TypeOK, NoRow, ResumeInPlace, RowInv
  <1>9. OpInv'
    BY DEF OpInv, Belongs
  <1> QED
    BY <1>4, <1>7, <1>8, <1>9

LEMMA OpStepKeeps == ASSUME IInv, OpStep PROVE IInv'
  BY StopReadsKeeps, StopCancelsKeeps, StopDoneKeeps, GiveUpKeeps, MarkKeeps, WriteStoppedKeeps,
     WriteDeletedKeeps, WriteRestartedKeeps, WriteEditedKeeps, LaunchKeeps, LaunchFailsKeeps
  DEF OpStep

-----------------------------------------------------------------------------
\* The daemon. Nothing it forgets in a crash is relied on afterwards.
LEMMA CrashKeeps == ASSUME IInv, Crash PROVE IInv'
  <1> USE DEF IInv, Crash, Idle, Holding, NoWorker
  <1>1. TypeOK'
    BY DEF TypeOK, Operation, Worker
  <1>2. WorkerIsWanted' /\ WorkerInPlace' /\ ResumeInPlace' /\ TalksInItsConversation' /\ RowInv'
    BY DEF TypeOK, Live, WorkerIsWanted, WorkerInPlace, ResumeInPlace, TalksInItsConversation, RowInv
  <1>3. OpInv'
    BY DEF Live, OpInv, Belongs
  <1> QED
    BY <1>1, <1>2, <1>3

LEMMA ServeKeeps == ASSUME IInv, Serve PROVE IInv'
  <1> USE DEF IInv, Serve, NoWorker
  <1>1. TypeOK'
    BY DEF TypeOK, Worker
  <1>2. WorkerIsWanted' /\ WorkerInPlace' /\ ResumeInPlace' /\ TalksInItsConversation' /\ RowInv'
    BY DEF TypeOK, Live, WorkerIsWanted, WorkerInPlace, ResumeInPlace, TalksInItsConversation, RowInv
  <1>3. OpInv'
    BY DEF Live, OpInv, Belongs
  <1> QED
    BY <1>1, <1>2, <1>3

LEMMA ListKeeps == ASSUME IInv, List PROVE IInv'
  BY DEF List, IInv, TypeOK, Live, WorkerIsWanted, WorkerInPlace, ResumeInPlace,
     TalksInItsConversation, RowInv, OpInv, Belongs

LEMMA RestoreOneKeeps == ASSUME IInv, NEW s \in Slots, RestoreOne(s) PROVE IInv'
  <1> USE DEF RestoreOne, Restored
  <1>1. /\ worker' \in [Slots -> Worker]
        /\ WorkerIsWanted' /\ WorkerInPlace' /\ ResumeInPlace' /\ TalksInItsConversation' /\ RowInv'
    <2>1. CASE /\ worker' = worker \/ worker' = [worker EXCEPT ![s] = NoWorker]
               /\ open' \in {open, open \ {s}}
      BY <2>1 DEF IInv, TypeOK, Worker, NoWorker, Live, WorkerIsWanted, WorkerInPlace,
         ResumeInPlace, TalksInItsConversation, RowInv
    <2>2. CASE /\ slot[s].present /\ slot[s].desired = "running"
               /\ worker' = Launched(s, slot[s].place)
               /\ open' = open \cup {s}
      BY <2>2, LaunchedKeeps
    <2> QED
      BY <2>1, <2>2
  <1>2. open' \in SUBSET Slots
    BY DEF IInv, TypeOK
  <1>3. TypeOK'
    BY <1>1, <1>2 DEF IInv, TypeOK
  <1>4. OpInv'
    BY DEF IInv, OpInv, Belongs
  <1> QED
    BY <1>1, <1>3, <1>4 DEF IInv

-----------------------------------------------------------------------------
\* The workers and their hooks, in the middle of whatever the operations do.
\* A report moves a slot to a conversation of its own place, and the worker, if it
\* is still there, with it.
LEMMA ReportKeeps == ASSUME IInv, NEW s \in Slots, NEW c \in Convs, Report(s, c) PROVE IInv'
  <1> USE DEF IInv, Report
  <1>1. TypeOK'
    <2>1. slot' \in [Slots -> Row]
      BY DEF TypeOK, Row
    <2>2. worker' \in [Slots -> Worker]
      BY DEF TypeOK, Worker
    <2>3. conv' \in [Convs -> Checkpoint]
      BY DEF TypeOK, Row, Checkpoint
    <2> QED
      BY <2>1, <2>2, <2>3 DEF TypeOK
  <1>2. \A t \in Slots : /\ worker'[t].state = worker[t].state
                         /\ worker'[t].place = worker[t].place
                         /\ slot'[t].present = slot[t].present
                         /\ slot'[t].desired = slot[t].desired
                         /\ slot'[t].place = slot[t].place
    BY DEF TypeOK, Worker, Row
  <1>3. WorkerIsWanted' /\ WorkerInPlace'
    BY <1>2 DEF Live, WorkerIsWanted, WorkerInPlace
  <1>4. TalksInItsConversation'
    BY DEF TypeOK, Live, Worker, Row, TalksInItsConversation
  <1>5. \A d \in Convs : conv[d].place # None => conv'[d].place = conv[d].place
    BY DEF TypeOK, Checkpoint
  <1>6. conv'[c].place = slot[s].place /\ slot[s].place # None
    BY DEF TypeOK, Checkpoint, RowInv
  <1>7. ResumeInPlace'
    <2> SUFFICES ASSUME NEW t \in Slots, slot'[t].resume # None
                 PROVE  conv'[slot'[t].resume].place = slot'[t].place
      BY DEF ResumeInPlace
    <2>1. CASE t = s
      BY <2>1, <1>2, <1>6 DEF TypeOK, Row
    <2>2. CASE t # s
      <3>1. slot'[t] = slot[t] /\ slot[t].resume \in Convs /\ slot[t].place # None
        BY <2>2 DEF TypeOK, Row, RowInv
      <3>2. conv[slot[t].resume].place = slot[t].place
        BY <3>1 DEF ResumeInPlace
      <3> QED
        BY <3>1, <3>2, <1>5
    <2> QED
      BY <2>1, <2>2
  <1>8. Belongs(op.resume, op.place)'
    BY <1>5 DEF TypeOK, Operation, OpInv, Belongs
  <1>9. RowInv'
    BY <1>2 DEF RowInv, TypeOK
  <1>10. OpInv'
    BY <1>2, <1>8 DEF Live, OpInv
  <1> QED
    BY <1>1, <1>3, <1>4, <1>7, <1>9, <1>10

\* What a hook captures leaves a conversation where it is.
LEMMA CaptureKeeps ==
  ASSUME IInv, NEW c \in Convs, Capture(c) \/ TurnEnds(c)
  PROVE  IInv'
  <1> USE DEF IInv, Capture, TurnEnds
  <1>1. TypeOK'
    BY DEF TypeOK, Checkpoint
  <1>2. WorkerIsWanted' /\ WorkerInPlace' /\ TalksInItsConversation' /\ RowInv'
    BY DEF Live, WorkerIsWanted, WorkerInPlace, TalksInItsConversation, RowInv
  <1>3. \A d \in Convs : conv[d].place # None => conv'[d].place = conv[d].place
    BY DEF TypeOK, Checkpoint
  <1>4. ResumeInPlace'
    BY <1>3 DEF TypeOK, Row, ResumeInPlace, RowInv
  <1>5. OpInv'
    BY <1>3 DEF TypeOK, Operation, Live, OpInv, Belongs
  <1> QED
    BY <1>1, <1>2, <1>4, <1>5

LEMMA SupervisedRestartKeeps == ASSUME IInv, NEW s \in Slots, SupervisedRestart(s) PROVE IInv'
  <1> USE DEF SupervisedRestart
  <1>1. slot[s].present /\ slot[s].desired = "running" /\ worker[s].place = slot[s].place
    BY DEF IInv, Live, WorkerIsWanted, WorkerInPlace
  <1>2. /\ worker' \in [Slots -> Worker]
        /\ WorkerIsWanted' /\ WorkerInPlace' /\ ResumeInPlace' /\ TalksInItsConversation' /\ RowInv'
    BY <1>1, LaunchedKeeps
  <1>3. TypeOK'
    BY <1>2 DEF IInv, TypeOK
  <1>4. /\ Live(s)
        /\ \A t \in Slots : worker'[t].state = worker[t].state
    BY DEF IInv, TypeOK, Worker, Launched, Live
  <1>5. OpInv'
    BY <1>4 DEF IInv, Live, OpInv, Belongs
  <1> QED
    BY <1>2, <1>3, <1>5 DEF IInv

LEMMA WorkerFailsKeeps ==
  ASSUME IInv, NEW s \in Slots, WorkerFails(s) \/ WorkerExits(s)
  PROVE  IInv'
  <1> USE DEF IInv, WorkerFails, WorkerExits, NoWorker
  <1>1. TypeOK'
    BY DEF TypeOK, Worker
  <1>2. /\ WorkerIsWanted' /\ WorkerInPlace'
        /\ ResumeInPlace' /\ TalksInItsConversation' /\ RowInv'
    BY DEF TypeOK, Live, WorkerIsWanted, WorkerInPlace, ResumeInPlace, TalksInItsConversation,
       RowInv
  <1>3. \A t \in Slots : Live(t)' => Live(t)
    BY DEF TypeOK, Live
  <1>4. OpInv'
    BY <1>3 DEF OpInv, Belongs
  <1> QED
    BY <1>1, <1>2, <1>4

-----------------------------------------------------------------------------

LEMMA NextKeeps == ASSUME IInv, [Next]_vars PROVE IInv'
  <1>1. CASE Next
    BY <1>1, RequestKeeps, OpStepKeeps, CrashKeeps, ServeKeeps, ListKeeps, RestoreOneKeeps,
       SupervisedRestartKeeps, WorkerFailsKeeps, ReportKeeps, CaptureKeeps
    DEF Next
  <1>2. CASE UNCHANGED vars
    BY <1>2 DEF vars, IInv, TypeOK, Live, WorkerIsWanted, WorkerInPlace, ResumeInPlace,
       TalksInItsConversation, RowInv, OpInv, Belongs
  <1> QED
    BY <1>1, <1>2

\* The invariant holds in every reachable state.
THEOREM Inductive == Spec => []IInv
  <1>1. Init => IInv
    BY InitInv
  <1>2. IInv /\ [Next]_vars => IInv'
    BY NextKeeps
  <1> QED
    BY <1>1, <1>2, PTL DEF Spec

\* The rows, workers, checkpoints and the operation have their types.
THEOREM TypeCorrect == Spec => []TypeOK
  <1>1. IInv => TypeOK
    BY DEF IInv
  <1> QED
    BY <1>1, Inductive, PTL

\* A worker runs only for a slot that exists and wants to run: what an operation
\* stopped or removed no restart, restore or crash brings back.
THEOREM StoppedStaysDown == Spec => []WorkerIsWanted
  <1>1. IInv => WorkerIsWanted
    BY DEF IInv
  <1> QED
    BY <1>1, Inductive, PTL

\* A slot resumes only a conversation of its own account and workspace.
THEOREM ResumesInPlace == Spec => []ResumeInPlace
  <1>1. IInv => ResumeInPlace
    BY DEF IInv
  <1> QED
    BY <1>1, Inductive, PTL

\* The conversation a worker talks in is the one its slot would resume.
THEOREM ResumesWhatItTalksIn == Spec => []TalksInItsConversation
  <1>1. IInv => TalksInItsConversation
    BY DEF IInv
  <1> QED
    BY <1>1, Inductive, PTL

=============================================================================
