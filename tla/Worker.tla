------------------------------- MODULE Worker -------------------------------
(***************************************************************************)
(* The life of the Claude worker behind each remote session slot, as       *)
(* internal/claude/manager.go runs it.                                     *)
(*                                                                         *)
(* Goroutines that interleave:                                             *)
(*   - the holder of Manager.opMu, one Activate or Deactivate at a time    *)
(*     (variable op);                                                      *)
(*   - supervise, one per worker object (variable sup);                    *)
(*   - settle, one per worker object (variable settle);                    *)
(*   - the claude processes themselves (variable proc).                    *)
(*                                                                         *)
(* A step is one critical section of Manager.mu, one store or file write   *)
(* made outside it, or one receive from a channel.                         *)
(*                                                                         *)
(* A launch is one call of Manager.start that got as far as                *)
(* BeginWorkerActivity: it stands for the activity run ID that call drew   *)
(* and for the process it then started, if it started one.                 *)
(***************************************************************************)
EXTENDS Naturals

CONSTANTS
  Slots,         \* remote session IDs
  Workers,       \* worker objects, one per Activate that got to build one
  Launches,      \* run IDs, and the processes started under them
  RestartLimit,  \* Options.RestartLimit
  None           \* Go's nil

ASSUME RestartLimitAssumption == RestartLimit \in Nat
ASSUME NoneAssumption == None \notin Workers \cup Launches \cup Slots

VARIABLES
  op,        \* what the holder of opMu is doing; pc = "idle" when opMu is free
  workers,   \* Manager.workers: slot -> the worker in the map
  wk,        \* the worker objects
  sup,       \* supervise: where the goroutine is, and its attempts counter
  settle,    \* settle: where the goroutine is, and the process it looks after
  proc,      \* the processes
  activity,  \* the slot's activity row: run_id and closed
  pidRecord  \* the slot's PID file: the launch it names, or None

vars == <<op, workers, wk, sup, settle, proc, activity, pidRecord>>

-----------------------------------------------------------------------------
(* The shape of the state.                                                 *)

States == {"starting", "connecting", "running", "restarting",
           "stopping", "stopped", "failed"}

OpPcs == {"idle", "stop", "interrupt", "wait", "term", "kill",
          "create", "start", "abandon"}

SupPcs == {"none", "watch", "triage", "refuse", "refuse_cancel", "stopped",
           "retry", "backoff", "start", "start_failed", "ready", "serve",
           "unready", "drain", "done"}

SettlePcs == {"none", "wait", "serve", "fail", "cancel", "down", "end"}

\* process: the local of stopLocked, read under mu and signalled after it.
Operation == [pc : OpPcs, kind : {"activate", "deactivate"},
              slot : Slots \cup {None}, force : BOOLEAN,
              process : Launches \cup {None}]

Idle == [pc |-> "idle", kind |-> "deactivate", slot |-> None, force |-> FALSE,
         process |-> None]

\* Of model.WorkerStatus only State is kept: Running is WorkerRunning below.
WorkerObject == [slot : Slots \cup {None}, cancelled : BOOLEAN,
                 process : Launches \cup {None}, run : Launches \cup {None},
                 state : States]

\* refused: the readiness error of the restart is modelUnavailableMessage. The
\* locals of a goroutine that has returned are reset.
Supervisor == [pc : SupPcs, attempts : 0..RestartLimit, refused : BOOLEAN]

Settler == [pc : SettlePcs, process : Launches \cup {None}]

\* phase "runless": the run began and no process was started under it.
\* registered: the URL was printed, or the bridge record carries this PID.
\* refused: ReadyError is modelUnavailableMessage. The other readiness errors
\* (another diagnostic, an exit, a timeout) need no state: waitReady may fail
\* at any moment. killed: SIGKILL has been sent and has not ended it yet.
Process == [phase : {"unused", "runless", "alive", "dead"},
            owner : Workers \cup {None},
            registered : BOOLEAN, refused : BOOLEAN, killed : BOOLEAN]

ActivityRow == [run : Launches \cup {None}, closed : BOOLEAN]

Init ==
  /\ op = Idle
  /\ workers = [s \in Slots |-> None]
  /\ wk = [w \in Workers |-> [slot |-> None, cancelled |-> FALSE, process |-> None,
                              run |-> None, state |-> "starting"]]
  /\ sup = [w \in Workers |-> [pc |-> "none", attempts |-> 0, refused |-> FALSE]]
  /\ settle = [w \in Workers |-> [pc |-> "none", process |-> None]]
  /\ proc = [l \in Launches |-> [phase |-> "unused", owner |-> None,
                                 registered |-> FALSE, refused |-> FALSE,
                                 killed |-> FALSE]]
  /\ activity = [s \in Slots |-> [run |-> None, closed |-> TRUE]]
  /\ pidRecord = [s \in Slots |-> None]

-----------------------------------------------------------------------------
(* Helpers, named for the functions they stand for.                        *)

InMap(w) == wk[w].slot # None /\ workers[wk[w].slot] = w

\* state.Running: markRunning sets it; stopLocked sets it to "has a process",
\* and a worker that can be found in the map while opMu is free has one.
WorkerRunning(w) == wk[w].state \in {"running", "stopping"}

live(w) == \/ WorkerRunning(w)
           \/ wk[w].state \in {"starting", "connecting", "restarting"}

\* markFailed, markRestarting: only the worker in the map is written.
SetState(w, state) ==
  wk' = IF InMap(w) THEN [wk EXCEPT ![w].state = state] ELSE wk

\* markRunning also wants the process to be the worker's present one.
markRunning(w, l) ==
  wk' = IF InMap(w) /\ wk[w].process = l
          THEN [wk EXCEPT ![w].state = "running"] ELSE wk

\* removeWorkerPID(w, w.process): the file goes only when it names both the
\* worker's process and the worker's run.
removeWorkerPID(w) ==
  pidRecord' = IF /\ wk[w].process # None
                  /\ pidRecord[wk[w].slot] = wk[w].process
                  /\ wk[w].process = wk[w].run
                 THEN [pidRecord EXCEPT ![wk[w].slot] = None] ELSE pidRecord

\* EndWorkerActivity(slot, w.activityRunID): closes the row of that run only.
EndWorkerActivity(w) ==
  activity' = IF wk[w].run # None /\ activity[wk[w].slot].run = wk[w].run
                THEN [activity EXCEPT ![wk[w].slot].closed = TRUE] ELSE activity

Cancel(w) == [wk EXCEPT ![w].cancelled = TRUE]

Kill(l) == proc' = IF proc[l].phase = "alive"
                     THEN [proc EXCEPT ![l].killed = TRUE] ELSE proc

-----------------------------------------------------------------------------
(* Manager.start. The reads before the lock can fail; under the lock the   *)
(* slot must still be this worker's and not cancelled. Then the run begins, *)
(* and the launch either starts no process, or a process whose PID file     *)
(* cannot be written (it is killed), or a process.                          *)

MayLaunch(w, l) == InMap(w) /\ ~wk[w].cancelled /\ proc[l].phase = "unused"

\* Mutant: the row is updated in place and closed is not reset.
BeginRunKeepsClosed(w, l) == activity' = [activity EXCEPT ![wk[w].slot].run = l]

BeginRun(w, l) == activity' = [activity EXCEPT ![wk[w].slot] = [run |-> l, closed |-> FALSE]]

NewProcess(w, killed) ==
  [phase |-> "alive", owner |-> w, registered |-> FALSE, refused |-> FALSE,
   killed |-> killed]

StartRunless(w, l) ==
  /\ MayLaunch(w, l)
  /\ BeginRun(w, l)
  /\ wk' = [wk EXCEPT ![w].run = l]
  /\ proc' = [proc EXCEPT ![l].phase = "runless"]
  /\ UNCHANGED pidRecord

StartUnrecorded(w, l) ==
  /\ MayLaunch(w, l)
  /\ BeginRun(w, l)
  /\ wk' = [wk EXCEPT ![w].run = l, ![w].process = l]
  /\ proc' = [proc EXCEPT ![l] = NewProcess(w, TRUE)]
  /\ UNCHANGED pidRecord

StartEarlyFailure == UNCHANGED <<wk, proc, activity, pidRecord>>

StartFails(w) ==
  \/ StartEarlyFailure
  \/ \E l \in Launches : StartRunless(w, l) \/ StartUnrecorded(w, l)

StartSucceeds(w, l) ==
  /\ MayLaunch(w, l)
  /\ BeginRun(w, l)
  /\ wk' = [wk EXCEPT ![w].run = l, ![w].process = l, ![w].state = "connecting"]
  /\ proc' = [proc EXCEPT ![l] = NewProcess(w, FALSE)]
  /\ pidRecord' = [pidRecord EXCEPT ![wk[w].slot] = l]

-----------------------------------------------------------------------------
(* Operations under opMu.                                                   *)

OpTo(pc) == op' = [op EXCEPT !.pc = pc]
OpDone == op' = Idle

\* Activate up to the choice it makes about the slot's present worker. It
\* returns without a change when a PID file is left and no worker is in the map
\* (checkRecoveryRecords), when a validation fails, and when the worker has the
\* same account, workspace and name, is live and force is not set.
Activate(s, force, sameSpec) ==
  /\ op.pc = "idle"
  /\ ~(workers[s] = None /\ pidRecord[s] # None)
  /\ ~(workers[s] # None /\ sameSpec /\ live(workers[s]) /\ ~force)
  /\ op' = [pc |-> IF workers[s] = None THEN "create" ELSE "stop",
            kind |-> "activate", slot |-> s, force |-> force, process |-> None]
  /\ UNCHANGED <<workers, wk, sup, settle, proc, activity, pidRecord>>

\* Deactivate, and each slot of Close (forced) and of DeactivateAccount. A slot
\* that is not in the map returns at once.
Deactivate(s, force) ==
  /\ op.pc = "idle"
  /\ workers[s] # None
  /\ op' = [pc |-> "stop", kind |-> "deactivate", slot |-> s, force |-> force,
            process |-> None]
  /\ UNCHANGED <<workers, wk, sup, settle, proc, activity, pidRecord>>

\* stopLocked, the part under mu.
StopCancel ==
  LET w == workers[op.slot] IN
  /\ op.pc = "stop"
  /\ wk' = [Cancel(w) EXCEPT ![w].state = "stopping"]
  /\ op' = [op EXCEPT !.pc = "interrupt", !.process = wk[w].process]
  /\ UNCHANGED <<workers, sup, settle, proc, activity, pidRecord>>

\* stopLocked closes the run and interrupts the process, which need not obey.
\* An interrupt that cannot be sent ends an unforced stop as StopTimeout does.
StopInterrupt ==
  LET w == workers[op.slot] IN
  /\ op.pc = "interrupt"
  /\ EndWorkerActivity(w)
  /\ OpTo("wait")
  /\ UNCHANGED <<workers, wk, sup, settle, proc, pidRecord>>

\* Mutant: a forced stop clears the slot without waiting for done.
StopDoneUnwaited ==
  LET w == workers[op.slot] IN
  /\ op.pc \in {"wait", "term", "kill"}
  /\ sup[w].pc = "done" \/ op.force
  /\ removeWorkerPID(w)
  /\ workers' = [workers EXCEPT ![op.slot] = None]
  /\ IF op.kind = "activate" THEN op' = [op EXCEPT !.pc = "create", !.process = None]
                             ELSE OpDone
  /\ UNCHANGED <<wk, sup, settle, proc, activity>>

\* waitFor(done) returned true: clearStopped.
StopDone ==
  LET w == workers[op.slot] IN
  /\ op.pc \in {"wait", "term", "kill"}
  /\ sup[w].pc = "done"
  /\ removeWorkerPID(w)
  /\ workers' = [workers EXCEPT ![op.slot] = None]
  /\ IF op.kind = "activate" THEN op' = [op EXCEPT !.pc = "create", !.process = None]
                             ELSE OpDone
  /\ UNCHANGED <<wk, sup, settle, proc, activity>>

\* Mutant: after SIGTERM a forced stop waits for done without a limit.
StopTimeoutUnlimited ==
  /\ op.pc = "wait"
  /\ IF op.force THEN OpTo("term") ELSE OpDone
  /\ UNCHANGED <<workers, wk, sup, settle, proc, activity, pidRecord>>

\* waitFor timed out, or the caller's context ended: ErrStopTimeout unless
\* force, which goes on to SIGTERM, then SIGKILL, then gives up as well.
StopTimeout ==
  \/ /\ op.pc = "wait"
     /\ IF op.force THEN OpTo("term") ELSE OpDone
     /\ UNCHANGED <<workers, wk, sup, settle, proc, activity, pidRecord>>
  \/ /\ op.pc = "term"
     /\ OpTo("kill")
     /\ Kill(op.process)
     /\ UNCHANGED <<workers, wk, sup, settle, activity, pidRecord>>
  \/ /\ op.pc = "kill"
     /\ OpDone
     /\ UNCHANGED <<workers, wk, sup, settle, proc, activity, pidRecord>>

\* Activate with the slot clear: enableWorkspaceTools fails, or a new worker
\* object goes into the map.
ActivateRefused ==
  /\ op.pc = "create"
  /\ OpDone
  /\ UNCHANGED <<workers, wk, sup, settle, proc, activity, pidRecord>>

ActivateCreate(w) ==
  /\ op.pc = "create"
  /\ wk[w].slot = None
  /\ wk' = [wk EXCEPT ![w].slot = op.slot]
  /\ workers' = [workers EXCEPT ![op.slot] = w]
  /\ OpTo("start")
  /\ UNCHANGED <<sup, settle, proc, activity, pidRecord>>

\* start succeeded: go supervise, go settle.
ActivateStart(l) ==
  LET w == workers[op.slot] IN
  /\ op.pc = "start"
  /\ StartSucceeds(w, l)
  /\ sup' = [sup EXCEPT ![w].pc = "watch"]
  /\ settle' = [settle EXCEPT ![w] = [pc |-> "wait", process |-> l]]
  /\ OpDone
  /\ UNCHANGED workers

ActivateStartFails ==
  /\ op.pc = "start"
  /\ StartFails(workers[op.slot])
  /\ OpTo("abandon")
  /\ UNCHANGED <<workers, sup, settle>>

\* Mutant: a first start that fails leaves the run it began open.
ActivateAbandonOpen ==
  LET w == workers[op.slot] IN
  /\ op.pc = "abandon"
  /\ wk' = Cancel(w)
  /\ workers' = [workers EXCEPT ![op.slot] = None]
  /\ OpDone
  /\ UNCHANGED <<sup, settle, proc, activity, pidRecord>>

\* endFailedActivity, cancel, delete(m.workers, id).
ActivateAbandon ==
  LET w == workers[op.slot] IN
  /\ op.pc = "abandon"
  /\ EndWorkerActivity(w)
  /\ wk' = Cancel(w)
  /\ workers' = [workers EXCEPT ![op.slot] = None]
  /\ OpDone
  /\ UNCHANGED <<sup, settle, proc, pidRecord>>

-----------------------------------------------------------------------------
(* supervise. Its local process, and next while a restart is under way, are *)
(* w.process: start is the only writer and only this goroutine calls it     *)
(* once Activate has returned.                                              *)

SupTo(w, pc) == sup' = [sup EXCEPT ![w].pc = pc]

\* return, with the deferred close(w.done).
SupReturn(w) == sup' = [sup EXCEPT ![w] = [pc |-> "done", attempts |-> 0, refused |-> FALSE]]

\* process.Wait returned; endFailedActivity.
SupWait(w) ==
  /\ sup[w].pc = "watch"
  /\ proc[wk[w].process].phase = "dead"
  /\ EndWorkerActivity(w)
  /\ SupTo(w, "triage")
  /\ UNCHANGED <<op, workers, wk, settle, proc, pidRecord>>

\* The model was refused; or the worker was cancelled; or this was unexpected,
\* and a run longer than stableWindow forgets the attempts before it.
SupTriage(w) ==
  /\ sup[w].pc = "triage"
  /\ \/ /\ proc[wk[w].process].refused
        /\ SupTo(w, "refuse")
     \/ /\ ~proc[wk[w].process].refused
        /\ wk[w].cancelled
        /\ SupTo(w, "stopped")
     \/ /\ ~proc[wk[w].process].refused
        /\ ~wk[w].cancelled
        /\ \E attempts \in {0, sup[w].attempts} :
             sup' = [sup EXCEPT ![w].pc = "retry", ![w].attempts = attempts]
  /\ UNCHANGED <<op, workers, wk, settle, proc, activity, pidRecord>>

\* markFailed(modelUnavailableMessage), then cancel, then markStopped.
SupRefuse(w) ==
  /\ sup[w].pc = "refuse"
  /\ SetState(w, "failed")
  /\ SupTo(w, "refuse_cancel")
  /\ UNCHANGED <<op, workers, settle, proc, activity, pidRecord>>

SupRefuseCancel(w) ==
  /\ sup[w].pc = "refuse_cancel"
  /\ wk' = Cancel(w)
  /\ SupTo(w, "stopped")
  /\ UNCHANGED <<op, workers, settle, proc, activity, pidRecord>>

\* markStopped keeps "failed"; then close(done).
SupStopped(w) ==
  /\ sup[w].pc = "stopped"
  /\ IF InMap(w)
       THEN /\ removeWorkerPID(w)
            /\ SetState(w, IF wk[w].state = "failed" THEN "failed" ELSE "stopped")
       ELSE UNCHANGED <<pidRecord, wk>>
  /\ SupReturn(w)
  /\ UNCHANGED <<op, workers, settle, proc, activity>>

\* Mutant: one attempt too many.
SupRetryOffByOne(w) ==
  /\ sup[w].pc = "retry"
  /\ IF sup[w].attempts <= RestartLimit
       THEN /\ SetState(w, "restarting")
            /\ sup' = [sup EXCEPT ![w].pc = "backoff", ![w].attempts = @ + 1]
       ELSE /\ SetState(w, "failed")
            /\ SupReturn(w)
  /\ UNCHANGED <<op, workers, settle, proc, activity, pidRecord>>

\* The attempts are counted; past the limit the slot is failed and done closed.
SupRetry(w) ==
  /\ sup[w].pc = "retry"
  /\ IF sup[w].attempts < RestartLimit
       THEN /\ SetState(w, "restarting")
            /\ sup' = [sup EXCEPT ![w].pc = "backoff", ![w].attempts = @ + 1]
       ELSE /\ SetState(w, "failed")
            /\ SupReturn(w)
  /\ UNCHANGED <<op, workers, settle, proc, activity, pidRecord>>

\* waitDelay: the delay runs out, or the context ends it.
SupBackoff(w) ==
  /\ sup[w].pc = "backoff"
  /\ \/ SupTo(w, "start")
     \/ wk[w].cancelled /\ SupTo(w, "stopped")
  /\ UNCHANGED <<op, workers, wk, settle, proc, activity, pidRecord>>

SupStart(w, l) ==
  /\ sup[w].pc = "start"
  /\ StartSucceeds(w, l)
  /\ SupTo(w, "ready")
  /\ UNCHANGED <<op, workers, settle>>

SupStartFails(w) ==
  /\ sup[w].pc = "start"
  /\ StartFails(w)
  /\ SupTo(w, "start_failed")
  /\ UNCHANGED <<op, workers, settle>>

SupEndFailedStart(w) ==
  /\ sup[w].pc = "start_failed"
  /\ EndWorkerActivity(w)
  /\ SupTo(w, "retry")
  /\ UNCHANGED <<op, workers, wk, settle, proc, pidRecord>>

\* waitReady(w, next): Ready or the bridge record, neither of which asks whether
\* the process still lives; or an error, which a timeout makes possible always.
SupReady(w) ==
  /\ sup[w].pc = "ready"
  /\ \/ proc[wk[w].process].registered /\ SupTo(w, "serve")
     \/ SupTo(w, "unready")
     \/ /\ proc[wk[w].process].refused
        /\ sup' = [sup EXCEPT ![w].pc = "unready", ![w].refused = TRUE]
  /\ UNCHANGED <<op, workers, wk, settle, proc, activity, pidRecord>>

SupServe(w) ==
  /\ sup[w].pc = "serve"
  /\ markRunning(w, wk[w].process)
  /\ SupTo(w, "watch")
  /\ UNCHANGED <<op, workers, settle, proc, activity, pidRecord>>

\* endFailedActivity and an interrupt; then the process is waited for, and
\* killed when stopTimeout passes first.
SupUnready(w) ==
  /\ sup[w].pc = "unready"
  /\ EndWorkerActivity(w)
  /\ SupTo(w, "drain")
  /\ UNCHANGED <<op, workers, wk, settle, proc, pidRecord>>

SupDrainTimeout(w) ==
  /\ sup[w].pc = "drain"
  /\ proc[wk[w].process].phase = "alive"
  /\ Kill(wk[w].process)
  /\ UNCHANGED <<op, workers, wk, sup, settle, activity, pidRecord>>

\* Mutant: the restarted process that did not register is not waited for.
SupUndrained(w) ==
  /\ sup[w].pc = "drain"
  /\ sup' = [sup EXCEPT ![w].pc = IF sup[w].refused THEN "refuse" ELSE "retry",
                        ![w].refused = FALSE]
  /\ UNCHANGED <<op, workers, wk, settle, proc, activity, pidRecord>>

SupDrained(w) ==
  /\ sup[w].pc = "drain"
  /\ proc[wk[w].process].phase = "dead"
  /\ sup' = [sup EXCEPT ![w].pc = IF sup[w].refused THEN "refuse" ELSE "retry",
                        ![w].refused = FALSE]
  /\ UNCHANGED <<op, workers, wk, settle, proc, activity, pidRecord>>

Supervise(w) ==
  \/ SupWait(w) \/ SupTriage(w) \/ SupRefuse(w) \/ SupRefuseCancel(w)
  \/ SupStopped(w) \/ SupRetry(w) \/ SupBackoff(w)
  \/ \E l \in Launches : SupStart(w, l)
  \/ SupStartFails(w) \/ SupEndFailedStart(w) \/ SupReady(w) \/ SupServe(w)
  \/ SupUnready(w) \/ SupDrainTimeout(w) \/ SupDrained(w)

-----------------------------------------------------------------------------
(* settle, for the process Activate started.                                *)

SettleTo(w, pc) == settle' = [settle EXCEPT ![w].pc = pc]
SettleReturn(w) == settle' = [settle EXCEPT ![w] = [pc |-> "end", process |-> None]]

\* waitReady returned nil.
SettleReady(w) ==
  /\ settle[w].pc = "wait"
  /\ proc[settle[w].process].registered
  /\ SettleTo(w, "serve")
  /\ UNCHANGED <<op, workers, wk, sup, proc, activity, pidRecord>>

SettleServe(w) ==
  /\ settle[w].pc = "serve"
  /\ markRunning(w, settle[w].process)
  /\ SettleReturn(w)
  /\ UNCHANGED <<op, workers, sup, proc, activity, pidRecord>>

\* Mutant: waitReady has no timeout.
SettleUnreadyUntimed(w) ==
  /\ settle[w].pc = "wait"
  /\ wk[w].cancelled \/ proc[settle[w].process].phase = "dead"
  /\ IF wk[w].cancelled THEN SettleReturn(w) ELSE SettleTo(w, "fail")
  /\ UNCHANGED <<op, workers, wk, sup, proc, activity, pidRecord>>

\* waitReady returned an error; a cancelled worker was stopped deliberately.
SettleUnready(w) ==
  /\ settle[w].pc = "wait"
  /\ IF wk[w].cancelled THEN SettleReturn(w) ELSE SettleTo(w, "fail")
  /\ UNCHANGED <<op, workers, wk, sup, proc, activity, pidRecord>>

SettleFail(w) ==
  /\ settle[w].pc = "fail"
  /\ SetState(w, "failed")
  /\ SettleTo(w, "cancel")
  /\ UNCHANGED <<op, workers, sup, proc, activity, pidRecord>>

\* w.cancel, and an interrupt the process need not obey.
SettleCancel(w) ==
  /\ settle[w].pc = "cancel"
  /\ wk' = Cancel(w)
  /\ SettleTo(w, "down")
  /\ UNCHANGED <<op, workers, sup, proc, activity, pidRecord>>

\* Mutant: the process is interrupted and never killed.
SettleDownUnkilled(w) ==
  /\ settle[w].pc = "down"
  /\ sup[w].pc = "done"
  /\ SettleReturn(w)
  /\ UNCHANGED <<op, workers, wk, sup, proc, activity, pidRecord>>

\* done is closed, or stopTimeout passes and the process is killed.
SettleDown(w) ==
  /\ settle[w].pc = "down"
  /\ \/ sup[w].pc = "done" /\ UNCHANGED proc
     \/ Kill(settle[w].process)
  /\ SettleReturn(w)
  /\ UNCHANGED <<op, workers, wk, sup, activity, pidRecord>>

Settle(w) ==
  \/ SettleReady(w) \/ SettleServe(w) \/ SettleUnready(w)
  \/ SettleFail(w) \/ SettleCancel(w) \/ SettleDown(w)

-----------------------------------------------------------------------------
(* The claude process: what Claude and readinessWriter and reap do.         *)

\* The Remote Control URL is printed, or the bridge record written.
Register(l) ==
  /\ proc[l].phase = "alive"
  /\ proc' = [proc EXCEPT ![l].registered = TRUE]
  /\ UNCHANGED <<op, workers, wk, sup, settle, activity, pidRecord>>

\* setDiagnostic: the model is unavailable, or (overwriting that) something else.
Diagnose(l, modelUnavailable) ==
  /\ proc[l].phase = "alive"
  /\ proc' = [proc EXCEPT ![l].refused = modelUnavailable]
  /\ UNCHANGED <<op, workers, wk, sup, settle, activity, pidRecord>>

\* reap: the process ends, by itself or by a signal.
Exit(l) ==
  /\ proc[l].phase = "alive"
  /\ proc' = [proc EXCEPT ![l].phase = "dead", ![l].killed = FALSE]
  /\ UNCHANGED <<op, workers, wk, sup, settle, activity, pidRecord>>

ProcessStep(l) ==
  \/ Register(l) \/ Exit(l)
  \/ \E modelUnavailable \in BOOLEAN : Diagnose(l, modelUnavailable)

-----------------------------------------------------------------------------

Call ==
  \E s \in Slots, force \in BOOLEAN :
    \/ \E sameSpec \in BOOLEAN : Activate(s, force, sameSpec)
    \/ Deactivate(s, force)

OpStep ==
  \/ StopCancel \/ StopInterrupt \/ StopDone \/ StopTimeout
  \/ ActivateRefused \/ ActivateStartFails \/ ActivateAbandon
  \/ \E w \in Workers : ActivateCreate(w)
  \/ \E l \in Launches : ActivateStart(l)

Next ==
  \/ Call
  \/ OpStep
  \/ \E w \in Workers : Supervise(w) \/ Settle(w)
  \/ \E l \in Launches : ProcessStep(l)

Spec == Init /\ [][Next]_vars

-----------------------------------------------------------------------------
(* Fairness. Go runs every runnable goroutine and timers fire, so the holder *)
(* of opMu, supervise and settle each keep going; a process is not fair (it  *)
(* may ignore SIGINT and SIGTERM, and need not register) but SIGKILL ends it. *)

Fairness ==
  /\ WF_vars(OpStep)
  /\ \A w \in Workers : WF_vars(Supervise(w)) /\ WF_vars(Settle(w))
  /\ \A l \in Launches : WF_vars(proc[l].killed /\ Exit(l))

FairSpec == Spec /\ Fairness

-----------------------------------------------------------------------------
(* Properties.                                                              *)

\* Every variable keeps the shape the code's types give it.
TypeOK ==
  /\ op \in Operation
  /\ workers \in [Slots -> Workers \cup {None}]
  /\ wk \in [Workers -> WorkerObject]
  /\ sup \in [Workers -> Supervisor]
  /\ settle \in [Workers -> Settler]
  /\ proc \in [Launches -> Process]
  /\ activity \in [Slots -> ActivityRow]
  /\ pidRecord \in [Slots -> Launches \cup {None}]

\* A process that runs and has not been sent SIGKILL.
Running(l) == proc[l].phase = "alive" /\ ~proc[l].killed

SlotOf(l) == wk[proc[l].owner].slot

\* No process escapes the manager: whatever runs is the present process of the
\* worker its slot has in the map, so the next stop will reach it. A stop that
\* forgets a worker too soon, or a restart that races a stop, would leave one.
Managed ==
  \A l \in Launches :
    Running(l) => InMap(proc[l].owner) /\ wk[proc[l].owner].process = l

\* One session never has two Claude processes talking in its name, through any
\* number of crashes, supervised restarts, moves and forced stops.
OneProcess ==
  \A k, l \in Launches :
    Running(k) /\ Running(l) /\ SlotOf(k) = SlotOf(l) => k = l

\* Whatever runs is named by its slot's PID file, so that the next daemon can
\* recover it when this one dies: no stop, replacement or late markStopped of an
\* older run removes the file of a newer one.
RecordNamesProcess ==
  \A l \in Launches : Running(l) => pidRecord[SlotOf(l)] = l

\* While a process is served and nobody has asked it to stop, its run is the
\* slot's open run: its hooks are accepted. Ending the run of an earlier
\* process never closes the run of the present one.
ServedRunIsOpen ==
  \A l \in Launches :
    LET w == proc[l].owner IN
    Running(l) /\ ~wk[w].cancelled /\ sup[w].pc \in {"watch", "ready", "serve"}
      => activity[wk[w].slot] = [run |-> l, closed |-> FALSE]

\* A slot without a worker has no open run: callbacks from its old worker
\* cannot restore the activity a stop cleared.
StoppedSlotIsClosed ==
  \A s \in Slots : workers[s] = None => activity[s].closed

\* The process stopLocked reads under the lock and signals after it, three
\* timeouts later at the latest, is still the slot's process: no supervised
\* restart slips a new one in behind a stop.
StopHoldsProcess ==
  op.pc \in {"interrupt", "wait", "term", "kill"}
    => op.process = wk[workers[op.slot]].process

\* An operation that holds opMu gives it up again, whatever the process it
\* waits for does: no session's stop blocks the others for ever.
OperationReturns == (op.pc # "idle") ~> (op.pc = "idle")

\* A slot that is coming up does not stay so: it ends up running, failed or
\* stopped, also when Claude neither registers nor exits.
ComingUpResolves ==
  \A w \in Workers :
    (InMap(w) /\ wk[w].state \in {"starting", "connecting", "restarting"})
      ~> ~(InMap(w) /\ wk[w].state \in {"starting", "connecting", "restarting"})

\* The process settle gave up on does not stay behind the slot shown as failed:
\* it goes down also when it ignores the interrupt.
GivenUpComesDown ==
  \A w \in Workers, l \in Launches :
    (settle[w].pc \in {"cancel", "down"} /\ settle[w].process = l)
      ~> (proc[l].phase = "dead")

-----------------------------------------------------------------------------
(* The manager as SlotLife sees it.                                         *)

\* A slot is left from the moment its worker is cancelled.
slotMode ==
  [s \in Slots |-> IF workers[s] = None THEN "free"
                   ELSE IF wk[workers[s]].cancelled THEN "leaving" ELSE "wanted"]

slotRunning == [s \in Slots |-> {l \in Launches : Running(l) /\ SlotOf(l) = s}]

slotOpen == [s \in Slots |-> IF activity[s].closed THEN None ELSE activity[s].run]

usedRuns == {l \in Launches : proc[l].phase # "unused"}

Life == INSTANCE SlotLife
  WITH mode <- slotMode, running <- slotRunning, open <- slotOpen,
       record <- pidRecord, used <- usedRuns

\* Whatever the goroutines do between them, each slot lives the life SlotLife
\* describes: no launch behind a stop or beside a process that still runs, no
\* record removed under a process, no run opened twice or left open.
ImplementsSlotLife == Life!Spec

-----------------------------------------------------------------------------
(* What a comment or the README says and the code does not keep.            *)

\* README: only unverifiable or live records block a launch. So once a slot has
\* been stopped and nothing runs, no PID file stands in the way of the next
\* Activate.
StoppedSlotHasNoRecord ==
  \A s \in Slots : workers[s] = None /\ op.pc = "idle" => pidRecord[s] = None

=============================================================================
