-------------------------------- MODULE Slots --------------------------------
(***************************************************************************)
(* The session slots: their rows, the workers behind them, and the         *)
(* conversations they talk in (internal/server/ops.go and server.go,        *)
(* internal/store/store.go).                                               *)
(*                                                                         *)
(* Every operation of the dashboard holds Server.opMu to its end; the      *)
(* workers, their hooks and a crash of the daemon do not wait for it, so   *)
(* an operation is a series of steps (variable op). What Activate and      *)
(* Deactivate do inside is module Worker; here they are their outcomes.    *)
(***************************************************************************)
EXTENDS FiniteSets

CONSTANTS
  Slots,   \* remote session IDs
  Places,  \* an account and a workspace
  Convs,   \* Claude conversations
  None     \* the empty string

ASSUME NoneAssumption == None \notin Slots \cup Places \cup Convs

VARIABLES
  slot,     \* remote_sessions
  worker,   \* the worker of each slot
  open,     \* worker_activity_runs: the slots whose run takes what its hooks report
  conv,     \* sessions: the checkpoint of each conversation
  op,       \* what the holder of opMu is doing; pc = "idle" when opMu is free
  listed,   \* Restore: the slots it found wanting to run and has not come to
  daemon    \* "down", "serving" until Restore has listed the slots, then "up"

vars == <<slot, worker, open, conv, op, listed, daemon>>

Row == [present : BOOLEAN, place : Places \cup {None}, resume : Convs \cup {None},
        desired : {"running", "stopped"}]

NoRow == [present |-> FALSE, place |-> None, resume |-> None, desired |-> "stopped"]

\* "cancelled": its stop timed out, so it runs on but is not supervised. "failed":
\* still in the manager's map, without a process. conv: what it was started in, or
\* what its hooks last reported.
Worker == [state : {"none", "up", "cancelled", "failed"}, place : Places \cup {None},
           conv : Convs \cup {None}]

NoWorker == [state |-> "none", place |-> None, conv |-> None]

\* place: where Claude keeps the conversation. "none": nothing of it was captured.
Checkpoint == [state : {"none", "prompted", "completed", "interrupted"},
               place : Places \cup {None}]

\* place, resume: what an edit will write. keep: it leaves the conversation alone.
\* active: the prompted checkpoints stopRemote read before it stopped the worker.
Operation == [pc : {"idle", "stop", "cancel", "wait", "mark", "write", "launch"},
              kind : {"none", "create", "edit", "start", "restart", "stop", "delete"},
              slot : Slots \cup {None}, force : BOOLEAN, place : Places \cup {None},
              resume : Convs \cup {None}, keep : BOOLEAN, active : SUBSET Convs]

Holding(pc, kind, s, force, p, c, keep) ==
  [pc |-> pc, kind |-> kind, slot |-> s, force |-> force, place |-> p, resume |-> c,
   keep |-> keep, active |-> {}]

Idle == Holding("idle", "none", None, FALSE, None, None, FALSE)

Init ==
  /\ slot = [s \in Slots |-> NoRow]
  /\ worker = [s \in Slots |-> NoWorker]
  /\ open = {}
  /\ conv = [c \in Convs |-> [state |-> "none", place |-> None]]
  /\ op = Idle
  /\ listed = {}
  /\ daemon = "up"

Live(s) == worker[s].state \in {"up", "cancelled"}

-----------------------------------------------------------------------------
(* What the dashboard asks for.                                             *)

Begin(kind, s, pc, force) ==
  /\ daemon # "down" /\ op.pc = "idle"
  /\ op' = Holding(pc, kind, s, force, None, None, FALSE)

\* resolveResume: nothing, or a checkpoint of that account and workspace.
Resumable(p) == {None} \cup {c \in Convs : conv[c].state # "none" /\ conv[c].place = p}

\* createSlotOp writes the row first.
Create(s, p, c) ==
  /\ ~slot[s].present
  /\ Begin("create", s, "launch", FALSE)
  /\ c \in Resumable(p)
  /\ slot' = [slot EXCEPT ![s] = [present |-> TRUE, place |-> p, resume |-> c,
                                  desired |-> "running"]]
  /\ UNCHANGED <<worker, open, conv, listed, daemon>>

BeginEdit(s, p, c, keep, force) ==
  /\ daemon # "down" /\ op.pc = "idle" /\ slot[s].present
  /\ op' = Holding("stop", "edit", s, force, p, c, keep)
  /\ UNCHANGED <<slot, worker, open, conv, listed, daemon>>

\* Mutant: the link stays when the slot moves.
EditKeepingLink(s, p, force) == BeginEdit(s, p, slot[s].resume, p = slot[s].place, force)

\* updateSlotOp without a conversation: the one the row has now, or none when the
\* slot moves.
EditKeeping(s, p, force) ==
  BeginEdit(s, p, IF p = slot[s].place THEN slot[s].resume ELSE None, p = slot[s].place, force)

\* updateSlotOp with a conversation, or with the explicit choice of a new one.
EditChoosing(s, p, c, force) == c \in Resumable(p) /\ BeginEdit(s, p, c, FALSE, force)

\* lifecycleSlotOp: a start writes desired and launches, a restart stops first.
Start(s, force) ==
  /\ slot[s].present
  /\ Begin("start", s, "launch", force)
  /\ slot' = [slot EXCEPT ![s].desired = "running"]
  /\ UNCHANGED <<worker, open, conv, listed, daemon>>

Restart(s, force) ==
  /\ slot[s].present /\ Begin("restart", s, "stop", force)
  /\ UNCHANGED <<slot, worker, open, conv, listed, daemon>>

\* stopSlotOp; also handoffSlotOp, which goes on with a ticket (module Handoff).
Stop(s, force) ==
  /\ slot[s].present /\ Begin("stop", s, "stop", force)
  /\ UNCHANGED <<slot, worker, open, conv, listed, daemon>>

Delete(s) ==
  /\ slot[s].present /\ Begin("delete", s, "stop", TRUE)
  /\ UNCHANGED <<slot, worker, open, conv, listed, daemon>>

Request ==
  \E s \in Slots :
    \/ \E p \in Places, c \in Convs \cup {None} :
         \/ Create(s, p, c)
         \/ \E force \in BOOLEAN : EditChoosing(s, p, c, force)
    \/ \E p \in Places, force \in BOOLEAN : EditKeeping(s, p, force)
    \/ \E force \in BOOLEAN : Start(s, force) \/ Restart(s, force) \/ Stop(s, force)
    \/ Delete(s)

-----------------------------------------------------------------------------
(* stopRemote.                                                              *)

\* activePromptedSessions asks by account and workspace, before the stop.
StopReads ==
  /\ op.pc = "stop"
  /\ op' = IF worker[op.slot].state = "none" THEN [op EXCEPT !.pc = "write"]
           ELSE [op EXCEPT !.pc = "cancel",
                           !.active = {c \in Convs : /\ conv[c].state = "prompted"
                                                     /\ conv[c].place = slot[op.slot].place}]
  /\ UNCHANGED <<slot, worker, open, conv, listed, daemon>>

\* Deactivate cancels the worker and closes its run.
StopCancels ==
  /\ op.pc = "cancel"
  /\ worker' = IF Live(op.slot) THEN [worker EXCEPT ![op.slot].state = "cancelled"] ELSE worker
  /\ open' = open \ {op.slot}
  /\ op' = [op EXCEPT !.pc = "wait"]
  /\ UNCHANGED <<slot, conv, listed, daemon>>

\* The worker is down.
StopDone ==
  /\ op.pc = "wait"
  /\ worker' = [worker EXCEPT ![op.slot] = NoWorker]
  /\ op' = [op EXCEPT !.pc = IF op.active = {} THEN "write" ELSE "mark"]
  /\ UNCHANGED <<slot, open, conv, listed, daemon>>

\* ErrStopTimeout; a forced stop can run into it too. The operation fails.
StopTimeout ==
  /\ op.pc = "wait" /\ Live(op.slot)
  /\ op' = Idle
  /\ UNCHANGED <<slot, worker, open, conv, listed, daemon>>

\* markSessionInterrupted, one checkpoint after the other.
Mark(c) ==
  /\ op.pc = "mark" /\ c \in op.active
  /\ conv' = [conv EXCEPT ![c].state = "interrupted"]
  /\ op' = [op EXCEPT !.active = @ \ {c}, !.pc = IF op.active = {c} THEN "write" ELSE "mark"]
  /\ UNCHANGED <<slot, worker, open, listed, daemon>>

\* Mutant: what the worker is now becomes what the slot wants.
WriteStatus ==
  /\ op.pc = "write" /\ op.kind = "stop"
  /\ slot' = [slot EXCEPT ![op.slot].desired = worker[op.slot].state]
  /\ op' = Idle
  /\ UNCHANGED <<worker, open, conv, listed, daemon>>

\* The operation then writes the row as its snapshot has it.
WriteStopped ==
  /\ op.pc = "write" /\ op.kind = "stop"
  /\ slot' = [slot EXCEPT ![op.slot].desired = "stopped"]
  /\ op' = Idle
  /\ UNCHANGED <<worker, open, conv, listed, daemon>>

WriteDeleted ==
  /\ op.pc = "write" /\ op.kind = "delete"
  /\ slot' = [slot EXCEPT ![op.slot] = NoRow]
  /\ open' = open \ {op.slot}
  /\ op' = Idle
  /\ UNCHANGED <<worker, conv, listed, daemon>>

WriteRestarted ==
  /\ op.pc = "write" /\ op.kind = "restart"
  /\ slot' = [slot EXCEPT ![op.slot].desired = "running"]
  /\ op' = [op EXCEPT !.pc = "launch", !.force = TRUE]
  /\ UNCHANGED <<worker, open, conv, listed, daemon>>

WriteEdited ==
  /\ op.pc = "write" /\ op.kind = "edit"
  /\ slot' = [slot EXCEPT ![op.slot] = [present |-> TRUE, place |-> op.place,
                                        resume |-> op.resume, desired |-> "running"]]
  /\ op' = [op EXCEPT !.pc = "launch", !.force = TRUE]
  /\ UNCHANGED <<worker, open, conv, listed, daemon>>

\* The store refuses a write or a mark; what was done before it stays.
WriteFails ==
  /\ op.pc \in {"mark", "write"}
  /\ op' = Idle
  /\ UNCHANGED <<slot, worker, open, conv, listed, daemon>>

-----------------------------------------------------------------------------
(* startRemote.                                                             *)

\* Mutant: a worker opens a conversation of its own.
LaunchedFresh(s, p) == [worker EXCEPT ![s] = [state |-> "up", place |-> p, conv |-> None]]

\* A worker resumes what the row says when its process starts; its account and
\* workspace are those of its spec.
Launched(s, p) == [worker EXCEPT ![s] = [state |-> "up", place |-> p, conv |-> slot[s].resume]]

\* Activate leaves a live worker alone unless it is forced; it stops it, or what
\* is left of a failed one, before it starts another, in a new run.
Launch ==
  /\ op.pc = "launch"
  /\ \/ Live(op.slot) /\ ~op.force /\ UNCHANGED <<worker, open>>
     \/ /\ ~Live(op.slot) \/ op.force
        /\ worker' = Launched(op.slot, slot[op.slot].place)
        /\ open' = open \cup {op.slot}
  /\ op' = Idle
  /\ UNCHANGED <<slot, conv, listed, daemon>>

\* Activate fails before it touches the worker, by the timeout of its stop, or when
\* it starts the new one. Only a slot just created is taken back, unless the request
\* is gone and with it the context of the DELETE.
LaunchFails ==
  /\ op.pc = "launch"
  /\ \/ UNCHANGED worker
     \/ /\ ~Live(op.slot) \/ op.force
        /\ worker' = [worker EXCEPT ![op.slot] = NoWorker]
     \/ /\ Live(op.slot) /\ op.force
        /\ worker' = [worker EXCEPT ![op.slot].state = "cancelled"]
  /\ open' \in {open, open \ {op.slot}}
  /\ \/ UNCHANGED slot
     \/ op.kind = "create" /\ slot' = [slot EXCEPT ![op.slot] = NoRow]
  /\ op' = Idle
  /\ UNCHANGED <<conv, listed, daemon>>

OpStep ==
  \/ StopReads \/ StopCancels \/ StopDone \/ StopTimeout \/ (\E c \in Convs : Mark(c))
  \/ WriteStopped \/ WriteDeleted \/ WriteRestarted \/ WriteEdited \/ WriteFails
  \/ Launch \/ LaunchFails

-----------------------------------------------------------------------------
(* The daemon stops and comes back.                                         *)

\* The workers are processes of their own and outlive it.
Crash ==
  /\ daemon # "down"
  /\ daemon' = "down"
  /\ op' = Idle
  /\ listed' = {}
  /\ worker' = [s \in Slots |-> IF Live(s) THEN worker[s] ELSE NoWorker]
  /\ UNCHANGED <<slot, open, conv>>

\* RecoverWorkers ends the workers that were recorded. Their runs stay open.
Serve ==
  /\ daemon = "down"
  /\ daemon' = "serving"
  /\ worker' = [s \in Slots |-> NoWorker]
  /\ UNCHANGED <<slot, open, conv, op, listed>>

\* Restore reads the slots, without opMu.
List ==
  /\ daemon = "serving"
  /\ daemon' = "up"
  /\ listed' = {s \in Slots : slot[s].present /\ slot[s].desired = "running"}
  /\ UNCHANGED <<slot, worker, open, conv, op>>

\* restoreOne starts a slot, or fails to.
Restored(s) ==
  \/ worker' = Launched(s, slot[s].place) /\ open' = open \cup {s}
  \/ worker' \in {worker, [worker EXCEPT ![s] = NoWorker]} /\ open' \in {open, open \ {s}}

\* Mutant: the row is not read again.
RestoreListed(s) ==
  /\ daemon = "up" /\ op.pc = "idle" /\ s \in listed
  /\ listed' = listed \ {s}
  /\ IF ~Live(s) THEN Restored(s) ELSE UNCHANGED <<worker, open>>
  /\ UNCHANGED <<slot, conv, op, daemon>>

\* Mutant: the sweep waits for a slot that does not want to run any more.
RestoreWaits(s) ==
  /\ daemon = "up" /\ op.pc = "idle" /\ s \in listed
  /\ slot[s].present /\ slot[s].desired = "running"
  /\ listed' = listed \ {s}
  /\ IF ~Live(s) THEN Restored(s) ELSE UNCHANGED <<worker, open>>
  /\ UNCHANGED <<slot, conv, op, daemon>>

\* One slot at a time, under opMu, as its row is by then.
RestoreOne(s) ==
  /\ daemon = "up" /\ op.pc = "idle" /\ s \in listed
  /\ listed' = listed \ {s}
  /\ IF slot[s].present /\ slot[s].desired = "running" /\ ~Live(s)
       THEN Restored(s)
       ELSE UNCHANGED <<worker, open>>
  /\ UNCHANGED <<slot, conv, op, daemon>>

-----------------------------------------------------------------------------
(* The workers and their hooks.                                             *)

\* Mutant: the run alone vouches for a hook.
ReportAnywhere(s, c) ==
  /\ s \in open
  /\ conv' = [conv EXCEPT ![c].place = IF @ = None THEN slot[s].place ELSE @]
  /\ slot' = [slot EXCEPT ![s].resume = c]
  /\ worker' = IF Live(s) THEN [worker EXCEPT ![s].conv = c] ELSE worker
  /\ UNCHANGED <<open, op, listed, daemon>>

\* RecordWorkerActivity, when a conversation starts or is prompted: the slot adopts
\* it, if the run of the hook is open and the hook comes from the slot's account and
\* workspace. The worker may be gone by now: a hook is a process of its own.
Report(s, c) ==
  /\ s \in open
  /\ conv[c].place \in {None, slot[s].place}
  /\ conv' = [conv EXCEPT ![c].place = slot[s].place]
  /\ slot' = [slot EXCEPT ![s].resume = c]
  /\ worker' = IF Live(s) THEN [worker EXCEPT ![s].conv = c] ELSE worker
  /\ UNCHANGED <<open, op, listed, daemon>>

\* RecordHookEvent of a prompt, in a transaction of its own after the report, also
\* when the run was closed and the slot did not take it.
Capture(c) ==
  /\ \E p \in Places :
       /\ \/ conv[c].place = p
          \/ /\ conv[c].place = None
             /\ \E s \in Slots : Live(s) /\ s \notin open /\ worker[s].place = p
       /\ conv' = [conv EXCEPT ![c] = [state |-> "prompted", place |-> p]]
  /\ UNCHANGED <<slot, worker, open, op, listed, daemon>>

\* The Stop hook of a turn; it may come when its worker is already gone.
TurnEnds(c) ==
  /\ conv[c].place # None
  /\ conv' = [conv EXCEPT ![c].state = "completed"]
  /\ UNCHANGED <<slot, worker, open, op, listed, daemon>>

\* supervise starts the process again in a new run, or gives the worker up.
SupervisedRestart(s) ==
  /\ daemon # "down" /\ worker[s].state = "up"
  /\ worker' = Launched(s, worker[s].place)
  /\ open' = open \cup {s}
  /\ UNCHANGED <<slot, conv, op, listed, daemon>>

WorkerFails(s) ==
  /\ daemon # "down" /\ worker[s].state = "up"
  /\ worker' = [worker EXCEPT ![s] = [NoWorker EXCEPT !.state = "failed"]]
  /\ open' = open \ {s}
  /\ UNCHANGED <<slot, conv, op, listed, daemon>>

\* A cancelled worker is not started again, and while the daemon is down none is;
\* then nobody closes the run either.
WorkerExits(s) ==
  /\ Live(s) /\ (worker[s].state = "cancelled" \/ daemon = "down")
  /\ worker' = [worker EXCEPT ![s] = NoWorker]
  /\ open' = IF daemon = "down" THEN open ELSE open \ {s}
  /\ UNCHANGED <<slot, conv, op, listed, daemon>>

Next ==
  \/ Request \/ OpStep
  \/ Crash \/ Serve \/ List \/ (\E s \in Slots : RestoreOne(s))
  \/ \E s \in Slots : \/ SupervisedRestart(s) \/ WorkerFails(s) \/ WorkerExits(s)
                      \/ \E c \in Convs : Report(s, c)
  \/ \E c \in Convs : Capture(c) \/ TurnEnds(c)

Spec == Init /\ [][Next]_vars

\* opMu is a Go mutex: nobody waits for it forever. Every step of its holder has a
\* timeout.
FairSpec == Spec /\ WF_vars(OpStep) /\ \A s \in Slots : SF_vars(RestoreOne(s))

-----------------------------------------------------------------------------
(* Properties.                                                              *)

TypeOK ==
  /\ slot \in [Slots -> Row]
  /\ worker \in [Slots -> Worker]
  /\ open \in SUBSET Slots
  /\ conv \in [Convs -> Checkpoint]
  /\ op \in Operation
  /\ listed \in SUBSET Slots
  /\ daemon \in {"down", "serving", "up"}

\* A worker runs only for a slot that exists and wants to run: what was stopped or
\* removed stays down, through crashes and the restore that follows them.
WorkerIsWanted ==
  \A s \in Slots : Live(s) => slot[s].present /\ slot[s].desired = "running"

\* A slot resumes only a conversation that Claude keeps in its own account and
\* workspace, whatever moves, late hooks and restarts came in between.
ResumeInPlace ==
  \A s \in Slots : slot[s].resume # None => conv[slot[s].resume].place = slot[s].place

\* The conversation a worker was started in, or moved to and reported, is the one its
\* slot would resume: no operation writes over it while the worker lives.
TalksInItsConversation ==
  \A s \in Slots : Live(s) => worker[s].conv = slot[s].resume

\* Restore comes to every slot it listed, although operations take opMu in between
\* and slots fail to start.
RestoreEnds == \A s \in Slots : s \in listed ~> s \notin listed

\* README.md: an edit leaves the adopted conversation alone unless another one is
\* picked. Violated: the row is read before the stop and written after it, and the
\* worker may move on to another conversation until it is down (ops.go:205, 236).
EditKeepsConversation ==
  [][WriteEdited /\ op.keep => slot'[op.slot].resume = slot[op.slot].resume]_vars

\* README.md: stopping one session never disturbs the others. Violated: the
\* checkpoints to mark are those of the account and workspace (server.go:623), also
\* the one another slot is being talked to in.
OthersUndisturbed ==
  [][\A c \in Convs :
       conv[c].state = "prompted" /\ conv'[c].state = "interrupted"
         => slot[op.slot].resume = c \/ ~ \E s \in Slots : Live(s) /\ worker[s].conv = c]_vars

=============================================================================
