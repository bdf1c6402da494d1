---------------------------- MODULE WorkerProofs ----------------------------
(***************************************************************************)
(* What Worker promises for every number of slots, worker objects,         *)
(* launches and restart attempts, proved from one inductive invariant.     *)
(***************************************************************************)
EXTENDS Worker, TLAPS

-----------------------------------------------------------------------------
(* The inductive invariant, by what each part is about.                     *)

\* Where a supervisor stands when nothing its worker started runs any more.
Quiet == {"none", "triage", "refuse", "refuse_cancel", "stopped", "retry",
          "backoff", "start", "start_failed", "done"}

\* The map and the worker objects agree, and a worker that no Activate has
\* taken yet has no process.
MapInv ==
  /\ \A s \in Slots : workers[s] # None => wk[workers[s]].slot = s
  /\ \A w \in Workers : wk[w].slot = None => wk[w].process = None

\* A worker's process is one it started itself.
OwnInv ==
  \A w \in Workers :
    wk[w].process # None
      => /\ proc[wk[w].process].owner = w
         /\ proc[wk[w].process].phase \in {"alive", "dead"}

\* Whatever runs is the present process and run of a worker in the map, and its
\* slot's PID file names it.
ProcInv ==
  \A l \in Launches :
    Running(l) => /\ proc[l].owner # None
                  /\ InMap(proc[l].owner)
                  /\ wk[proc[l].owner].process = l
                  /\ wk[proc[l].owner].run = l
                  /\ pidRecord[SlotOf(l)] = l

\* A supervisor has a process; until it returns its worker stays in the map; and
\* when it is quiet nothing of its worker runs.
SupInv ==
  \A w \in Workers :
    /\ sup[w].pc # "none" => wk[w].process # None
    /\ sup[w].pc \notin {"none", "done"} => InMap(w)
    /\ sup[w].pc \in Quiet => \A l \in Launches : Running(l) => proc[l].owner # w

SettleInv ==
  \A w \in Workers : settle[w].pc \notin {"none", "end"} => settle[w].process # None

\* What the holder of opMu has established at each point.
OpInv ==
  /\ op.pc # "idle" => op.slot # None
  /\ op.pc \in {"stop", "interrupt", "wait", "term", "kill", "start", "abandon"}
       => workers[op.slot] # None
  /\ op.pc = "create" => workers[op.slot] = None
  /\ op.pc = "start" => wk[workers[op.slot]].process = None
  /\ \A s \in Slots :
       workers[s] # None
         => (sup[workers[s]].pc = "none" <=> op.pc \in {"start", "abandon"} /\ op.slot = s)
  /\ op.pc \in {"interrupt", "wait", "term", "kill"}
       => wk[workers[op.slot]].cancelled /\ StopHoldsProcess
  /\ op.pc \in {"wait", "term", "kill"} => activity[op.slot].closed

\* An open row is that of the last run of the worker in the map.
RowInv ==
  \A s \in Slots :
    ~activity[s].closed
      => /\ workers[s] # None
         /\ activity[s].run # None
         /\ activity[s].run = wk[workers[s]].run

IInv ==
  /\ TypeOK
  /\ MapInv /\ OwnInv /\ ProcInv /\ RowInv
  /\ SupInv /\ SettleInv /\ OpInv /\ ServedRunIsOpen

-----------------------------------------------------------------------------
(* What the helpers of Worker leave alone.                                  *)

\* Of a worker object only the state changes, and cancelled may be set.
WkKept ==
  /\ wk' \in [Workers -> WorkerObject]
  /\ \A v \in Workers : /\ wk'[v].slot = wk[v].slot
                        /\ wk'[v].process = wk[v].process
                        /\ wk'[v].run = wk[v].run
                        /\ wk[v].cancelled => wk'[v].cancelled

\* No process is started, none changes hands and none comes back.
ProcKept ==
  /\ proc' \in [Launches -> Process]
  /\ \A l \in Launches : /\ proc'[l].owner = proc[l].owner
                         /\ Running(l)' => Running(l)
                         /\ proc[l].phase \in {"alive", "dead"}
                              => proc'[l].phase \in {"alive", "dead"}

\* No row is opened.
RowsKept ==
  /\ activity' \in [Slots -> ActivityRow]
  /\ \A s \in Slots : /\ activity'[s].run = activity[s].run
                      /\ activity[s].closed => activity'[s].closed

LEMMA UnchangedKeeps ==
  ASSUME TypeOK
  PROVE  /\ wk' = wk => WkKept
         /\ proc' = proc => ProcKept
         /\ activity' = activity => RowsKept
BY DEF TypeOK, WkKept, ProcKept, RowsKept, Running

LEMMA SetStateKeeps ==
  ASSUME TypeOK, NEW w \in Workers, NEW state \in States, SetState(w, state)
  PROVE  WkKept
BY DEF TypeOK, WorkerObject, SetState, WkKept

LEMMA CancelKeeps ==
  ASSUME TypeOK, NEW w \in Workers, wk' = Cancel(w)
  PROVE  WkKept /\ wk'[w].cancelled
BY DEF TypeOK, WorkerObject, Cancel, WkKept

LEMMA MarkRunningKeeps ==
  ASSUME TypeOK, NEW w \in Workers, NEW l, markRunning(w, l)
  PROVE  WkKept
<1>1. "running" \in States
  BY DEF States
<1>2. QED
  BY <1>1 DEF TypeOK, WorkerObject, markRunning, WkKept

LEMMA KillKeeps ==
  ASSUME TypeOK, NEW l \in Launches, Kill(l)
  PROVE  ProcKept
BY DEF TypeOK, Process, Kill, ProcKept, Running

\* Only the row of the worker's slot is touched, and if it is the row of the
\* worker's own run it ends up closed.
LEMMA EndWorkerActivityKeeps ==
  ASSUME TypeOK, NEW w \in Workers, wk[w].slot # None, EndWorkerActivity(w)
  PROVE  /\ RowsKept
         /\ \A s \in Slots \ {wk[w].slot} : activity'[s] = activity[s]
         /\ wk[w].run # None /\ activity[wk[w].slot].run = wk[w].run
              => activity'[wk[w].slot].closed
BY DEF TypeOK, ActivityRow, WorkerObject, EndWorkerActivity, RowsKept

LEMMA RemoveWorkerPIDKeeps ==
  ASSUME TypeOK, NEW w \in Workers, wk[w].slot # None, removeWorkerPID(w)
  PROVE  /\ pidRecord' \in [Slots -> Launches \cup {None}]
         /\ \A s \in Slots \ {wk[w].slot} : pidRecord'[s] = pidRecord[s]
BY DEF TypeOK, WorkerObject, removeWorkerPID

LEMMA SupToKeeps ==
  ASSUME TypeOK, NEW w \in Workers, NEW pc \in SupPcs, SupTo(w, pc)
  PROVE  /\ sup' \in [Workers -> Supervisor]
         /\ sup'[w].pc = pc
         /\ \A v \in Workers \ {w} : sup'[v] = sup[v]
BY DEF TypeOK, Supervisor, SupTo

LEMMA SupReturnKeeps ==
  ASSUME TypeOK, NEW w \in Workers, SupReturn(w)
  PROVE  /\ sup' \in [Workers -> Supervisor]
         /\ sup'[w].pc = "done"
         /\ \A v \in Workers \ {w} : sup'[v] = sup[v]
<1>1. "done" \in SupPcs /\ 0 \in 0..RestartLimit
  BY RestartLimitAssumption DEF SupPcs
<1>2. QED
  BY <1>1 DEF TypeOK, Supervisor, SupReturn

-----------------------------------------------------------------------------
(* Two kinds of step that most actions belong to.                           *)

\* A step that starts nothing and opens nothing keeps the parts of the invariant
\* that do not speak of the goroutines.
LEMMA WorldKept ==
  ASSUME IInv, WkKept, ProcKept, RowsKept, UNCHANGED <<workers, pidRecord>>
  PROVE  MapInv' /\ OwnInv' /\ ProcInv' /\ RowInv'
<1> USE DEF WkKept
<1>1. MapInv'
  BY DEF IInv, TypeOK, MapInv
<1>2. OwnInv'
  BY DEF IInv, TypeOK, WorkerObject, OwnInv, ProcKept
<1>3. ProcInv'
  BY DEF IInv, TypeOK, Process, ProcInv, ProcKept, InMap, SlotOf
<1>4. RowInv'
  BY DEF IInv, TypeOK, RowInv, RowsKept, ActivityRow
<1>5. QED
  BY <1>1, <1>2, <1>3, <1>4

\* A step of one supervisor that has not returned yet.
LEMMA SuperviseStep ==
  ASSUME IInv, NEW w \in Workers,
         UNCHANGED <<op, workers, settle>>, WkKept, ProcKept, RowsKept,
         sup' \in [Workers -> Supervisor],
         pidRecord' \in [Slots -> Launches \cup {None}],
         sup[w].pc \notin {"none", "done"},
         sup'[w].pc # "none",
         \A v \in Workers \ {w} : sup'[v] = sup[v],
         sup'[w].pc \in Quiet => \A l \in Launches : Running(l)' => proc[l].owner # w,
         sup'[w].pc \in {"watch", "ready", "serve"}
           => sup[w].pc \in {"watch", "ready", "serve"} /\ activity' = activity,
         \A s \in Slots \ {wk[w].slot} : activity'[s] = activity[s],
         \A s \in Slots \ {wk[w].slot} : pidRecord'[s] = pidRecord[s],
         pidRecord' = pidRecord \/ sup[w].pc \in Quiet
  PROVE  IInv'
<1> USE DEF WkKept
<1>0. InMap(w) /\ wk[w].slot \in Slots
  BY DEF IInv, SupInv, InMap, TypeOK, WorkerObject
<1>1. TypeOK'
  BY DEF IInv, TypeOK, ProcKept, RowsKept
<1>2. MapInv'
  BY DEF IInv, TypeOK, MapInv
<1>3. OwnInv'
  BY DEF IInv, TypeOK, WorkerObject, OwnInv, ProcKept
<1>4. ProcInv'
  <2> SUFFICES ASSUME NEW l \in Launches, Running(l)'
               PROVE  /\ proc[l].owner # None
                      /\ InMap(proc[l].owner)'
                      /\ wk'[proc[l].owner].process = l
                      /\ wk'[proc[l].owner].run = l
                      /\ pidRecord'[wk'[proc[l].owner].slot] = l
    BY DEF ProcInv, ProcKept, SlotOf, InMap
  <2>1. Running(l) /\ proc[l].owner \in Workers
    BY DEF IInv, TypeOK, Process, ProcInv, ProcKept
  <2>2. /\ InMap(proc[l].owner)
        /\ wk[proc[l].owner].process = l
        /\ wk[proc[l].owner].run = l
        /\ pidRecord[wk[proc[l].owner].slot] = l
    BY <2>1 DEF IInv, ProcInv, SlotOf
  <2>3. pidRecord' = pidRecord \/ wk[proc[l].owner].slot # wk[w].slot
    BY <1>0, <2>1, <2>2 DEF IInv, SupInv, InMap
  <2>4. wk[proc[l].owner].slot \in Slots
    BY <2>1, <2>2 DEF IInv, TypeOK, WorkerObject, InMap
  <2>5. /\ wk'[proc[l].owner].slot = wk[proc[l].owner].slot
        /\ wk'[proc[l].owner].process = l
        /\ wk'[proc[l].owner].run = l
    BY <2>1, <2>2
  <2>6. proc[l].owner # None /\ InMap(proc[l].owner)'
    BY <2>1, <2>2, <2>5, NoneAssumption DEF InMap, ProcKept
  <2>7. pidRecord'[wk[proc[l].owner].slot] = l
    BY <2>2, <2>3, <2>4
  <2>8. QED
    BY <2>5, <2>6, <2>7
<1>5. RowInv'
  BY DEF IInv, TypeOK, RowInv, RowsKept, ActivityRow
<1>6. SupInv'
  <2> SUFFICES ASSUME NEW v \in Workers
               PROVE  /\ sup'[v].pc # "none" => wk'[v].process # None
                      /\ sup'[v].pc \notin {"none", "done"} => InMap(v)'
                      /\ sup'[v].pc \in Quiet
                           => \A l \in Launches : Running(l)' => proc'[l].owner # v
    BY DEF SupInv
  <2>1. InMap(v)' <=> InMap(v)
    BY DEF InMap
  <2>2. CASE v = w
    BY <1>0, <2>1, <2>2 DEF IInv, SupInv, ProcKept
  <2>3. CASE v # w
    BY <2>1, <2>3 DEF IInv, SupInv, ProcKept
  <2>4. QED
    BY <2>2, <2>3
<1>7. SettleInv'
  BY DEF IInv, SettleInv
<1>8. OpInv'
  BY <1>0 DEF IInv, TypeOK, Operation, OpInv, StopHoldsProcess, InMap, RowsKept, MapInv
<1>9. ServedRunIsOpen'
  <2> SUFFICES ASSUME NEW l \in Launches, Running(l)',
                      ~wk'[proc[l].owner].cancelled,
                      sup'[proc[l].owner].pc \in {"watch", "ready", "serve"}
               PROVE  activity'[wk[proc[l].owner].slot] = [run |-> l, closed |-> FALSE]
    BY <1>4 DEF ServedRunIsOpen, ProcInv, ProcKept, TypeOK, Process, IInv
  <2>1. Running(l) /\ proc[l].owner \in Workers /\ InMap(proc[l].owner)
    BY DEF IInv, TypeOK, Process, ProcInv, ProcKept
  <2>2. sup[proc[l].owner].pc \in {"watch", "ready", "serve"}
    BY <2>1
  <2>3. activity[wk[proc[l].owner].slot] = [run |-> l, closed |-> FALSE]
    BY <2>1, <2>2 DEF IInv, ServedRunIsOpen
  <2>4. CASE proc[l].owner = w
    BY <2>3, <2>4
  <2>5. CASE proc[l].owner # w
    <3>1. wk[proc[l].owner].slot \in Slots \ {wk[w].slot}
      BY <1>0, <2>1, <2>5 DEF IInv, TypeOK, WorkerObject, InMap
    <3>2. QED
      BY <2>3, <3>1
  <2>6. QED
    BY <2>4, <2>5
<1>10. QED
  BY <1>1, <1>2, <1>3, <1>4, <1>5, <1>6, <1>7, <1>8, <1>9 DEF IInv

\* A step of settle or of a process.
LEMMA BystanderStep ==
  ASSUME IInv, UNCHANGED <<op, workers, sup, activity, pidRecord>>,
         WkKept, ProcKept,
         settle' \in [Workers -> Settler], SettleInv'
  PROVE  IInv'
<1>1. RowsKept
  BY DEF IInv, TypeOK, RowsKept
<1>2. TypeOK'
  BY DEF IInv, TypeOK, WkKept, ProcKept
<1>3. MapInv' /\ OwnInv' /\ ProcInv' /\ RowInv'
  BY <1>1, WorldKept
<1>4. SupInv'
  BY DEF IInv, TypeOK, WorkerObject, SupInv, InMap, WkKept, ProcKept
<1>5. OpInv'
  BY DEF IInv, TypeOK, Operation, OpInv, StopHoldsProcess, WkKept
<1>6. ServedRunIsOpen'
  BY DEF IInv, TypeOK, Process, ServedRunIsOpen, ProcInv, WkKept, ProcKept
<1>7. QED
  BY <1>2, <1>3, <1>4, <1>5, <1>6 DEF IInv

-----------------------------------------------------------------------------
(* Manager.start.                                                           *)

\* A launch that left a process: it is the only one of its worker.
LEMMA StartSucceedsStep ==
  ASSUME IInv, NEW w \in Workers, NEW l \in Launches, InMap(w),
         sup[w].pc \in {"none", "start"}, StartSucceeds(w, l), workers' = workers,
         sup' \in [Workers -> Supervisor],
         sup'[w].pc \in {"watch", "ready"},
         \A v \in Workers \ {w} : sup'[v] = sup[v]
  PROVE  /\ wk' \in [Workers -> WorkerObject]
         /\ proc' \in [Launches -> Process]
         /\ activity' \in [Slots -> ActivityRow]
         /\ pidRecord' \in [Slots -> Launches \cup {None}]
         /\ MapInv' /\ OwnInv' /\ ProcInv' /\ RowInv' /\ SupInv' /\ ServedRunIsOpen'
<1> DEFINE s == wk[w].slot
<1>1. /\ TypeOK
      /\ s \in Slots /\ workers[s] = w
      /\ ~wk[w].cancelled /\ proc[l].phase = "unused"
  BY DEF IInv, TypeOK, WorkerObject, InMap, StartSucceeds, MayLaunch
<1>2. /\ wk' = [wk EXCEPT ![w].run = l, ![w].process = l, ![w].state = "connecting"]
      /\ proc' = [proc EXCEPT ![l] = NewProcess(w, FALSE)]
      /\ activity' = [activity EXCEPT ![s] = [run |-> l, closed |-> FALSE]]
      /\ pidRecord' = [pidRecord EXCEPT ![s] = l]
  BY DEF StartSucceeds, BeginRun
<1>3. \A k \in Launches : Running(k) => proc[k].owner # w /\ k # l
  BY <1>1 DEF IInv, SupInv, Quiet, Running
<1>4. /\ wk' \in [Workers -> WorkerObject]
      /\ wk'[w].slot = s /\ wk'[w].process = l /\ wk'[w].run = l
      /\ \A v \in Workers \ {w} : wk'[v] = wk[v]
  <2>1. "connecting" \in States
    BY DEF States
  <2>2. wk \in [Workers -> WorkerObject]
    BY <1>1 DEF TypeOK
  <2>3. /\ wk'[w] = [wk[w] EXCEPT !.run = l, !.process = l, !.state = "connecting"]
        /\ \A v \in Workers \ {w} : wk'[v] = wk[v]
        /\ wk' = [v \in Workers |-> wk'[v]]
    BY <1>2, <2>2
  <2>4. wk[w] \in WorkerObject
    BY <2>2
  <2>5. wk'[w] \in WorkerObject /\ wk'[w].slot = s /\ wk'[w].process = l /\ wk'[w].run = l
    BY <2>1, <2>3, <2>4 DEF WorkerObject
  <2>6. QED
    BY <2>2, <2>3, <2>5
<1>5. /\ proc' \in [Launches -> Process]
      /\ proc'[l].owner = w /\ proc'[l].phase = "alive" /\ Running(l)'
      /\ \A k \in Launches \ {l} : proc'[k] = proc[k] /\ (Running(k)' <=> Running(k))
  BY <1>1, <1>2 DEF TypeOK, Process, NewProcess, Running
<1>6. /\ activity' \in [Slots -> ActivityRow]
      /\ activity'[s] = [run |-> l, closed |-> FALSE]
      /\ \A r \in Slots \ {s} : activity'[r] = activity[r]
  BY <1>1, <1>2 DEF TypeOK, ActivityRow
<1>7. /\ pidRecord' \in [Slots -> Launches \cup {None}]
      /\ pidRecord'[s] = l
      /\ \A r \in Slots \ {s} : pidRecord'[r] = pidRecord[r]
  BY <1>1, <1>2 DEF TypeOK
<1>8. \A v \in Workers : wk'[v].slot = wk[v].slot /\ (InMap(v)' <=> InMap(v))
  BY <1>4 DEF InMap
<1>9. MapInv'
  <2>1. \A v \in Workers : wk'[v].slot = None => v # w /\ wk'[v].process = None
    BY <1>1, <1>4, NoneAssumption DEF IInv, MapInv
  <2>2. QED
    BY <1>8, <2>1 DEF IInv, MapInv, TypeOK
<1>10. OwnInv'
  <2> SUFFICES ASSUME NEW v \in Workers, wk'[v].process # None
               PROVE  /\ proc'[wk'[v].process].owner = v
                      /\ proc'[wk'[v].process].phase \in {"alive", "dead"}
    BY DEF OwnInv
  <2>1. CASE v = w
    BY <1>4, <1>5, <2>1
  <2>2. CASE v # w
    <3>1. /\ wk'[v].process = wk[v].process
          /\ proc[wk[v].process].owner = v
          /\ proc[wk[v].process].phase \in {"alive", "dead"}
      BY <1>4, <2>2 DEF IInv, OwnInv
    <3>2. wk[v].process \in Launches \ {l}
      BY <1>1, <1>4, <2>2, <3>1 DEF TypeOK, WorkerObject
    <3>3. QED
      BY <1>5, <3>1, <3>2
  <2>3. QED
    BY <2>1, <2>2
<1>11. \A k \in Launches \ {l} : Running(k)'
         => /\ Running(k)
            /\ proc'[k].owner = proc[k].owner /\ proc[k].owner \in Workers \ {w}
            /\ InMap(proc[k].owner)' /\ wk'[proc[k].owner] = wk[proc[k].owner]
            /\ wk[proc[k].owner].slot \in Slots \ {s}
  BY <1>1, <1>3, <1>4, <1>5, <1>8 DEF IInv, TypeOK, Process, ProcInv, InMap, WorkerObject
<1>12. ProcInv'
  <2> SUFFICES ASSUME NEW k \in Launches, Running(k)'
               PROVE  /\ proc'[k].owner # None
                      /\ InMap(proc[k].owner)'
                      /\ wk'[proc'[k].owner].process = k
                      /\ wk'[proc'[k].owner].run = k
                      /\ pidRecord'[wk'[proc'[k].owner].slot] = k
    BY DEF ProcInv, SlotOf
  <2>1. CASE k = l
    BY <1>1, <1>4, <1>5, <1>7, <1>8, <2>1, NoneAssumption DEF InMap
  <2>2. CASE k # l
    BY <1>7, <1>11, <2>2, NoneAssumption DEF IInv, ProcInv, SlotOf
  <2>3. QED
    BY <2>1, <2>2
<1>13. RowInv'
  BY <1>1, <1>4, <1>6, NoneAssumption DEF IInv, TypeOK, RowInv, MapInv
<1>14. SupInv'
  BY <1>3, <1>4, <1>5, <1>8, <1>11, NoneAssumption DEF IInv, SupInv, Quiet
<1>15. ServedRunIsOpen'
  <2> SUFFICES ASSUME NEW k \in Launches, Running(k)',
                      ~wk'[proc'[k].owner].cancelled,
                      sup'[proc'[k].owner].pc \in {"watch", "ready", "serve"}
               PROVE  activity'[wk'[proc'[k].owner].slot] = [run |-> k, closed |-> FALSE]
    BY DEF ServedRunIsOpen
  <2>1. CASE k = l
    BY <1>4, <1>5, <1>6, <2>1
  <2>2. CASE k # l
    <3>1. activity[wk[proc[k].owner].slot] = [run |-> k, closed |-> FALSE]
      BY <1>11, <2>2 DEF IInv, ServedRunIsOpen
    <3>2. QED
      BY <1>6, <1>11, <2>2, <3>1
  <2>3. QED
    BY <2>1, <2>2
<1>16. QED
  BY <1>4, <1>5, <1>6, <1>7, <1>9, <1>10, <1>12, <1>13, <1>14, <1>15

\* What a start that failed leaves behind: at most an open run, and a process
\* that has been killed.
StartFailed(w) ==
  /\ wk' \in [Workers -> WorkerObject]
  /\ \A v \in Workers \ {w} : wk'[v] = wk[v]
  /\ wk'[w].slot = wk[w].slot /\ wk'[w].cancelled = wk[w].cancelled
  /\ wk[w].process # None => wk'[w].process # None
  /\ wk'[w].process # wk[w].process
       => /\ ~wk[w].cancelled
          /\ wk'[w].process \in Launches
          /\ proc[wk'[w].process].phase = "unused"
          /\ proc'[wk'[w].process].owner = w
          /\ proc'[wk'[w].process].phase = "alive"
  /\ proc' \in [Launches -> Process]
  /\ \A l \in Launches : proc[l].phase \in {"alive", "dead"} => proc'[l] = proc[l]
  /\ \A l \in Launches : Running(l)' => Running(l)
  /\ activity' \in [Slots -> ActivityRow]
  /\ \A s \in Slots \ {wk[w].slot} : activity'[s] = activity[s]
  /\ \/ wk'[w].run = wk[w].run /\ activity' = activity
     \/ /\ wk'[w].run # None /\ activity'[wk[w].slot].run = wk'[w].run
        /\ ~wk[w].cancelled
  /\ pidRecord' = pidRecord

LEMMA StartFailsEffect ==
  ASSUME IInv, NEW w \in Workers, InMap(w), StartFails(w)
  PROVE  StartFailed(w)
<1>1. wk[w] \in WorkerObject /\ wk[w].slot \in Slots
  BY DEF IInv, TypeOK, WorkerObject, InMap
<1>2. TypeOK
  BY DEF IInv
<1>3. CASE StartEarlyFailure
  BY <1>2, <1>3 DEF StartEarlyFailure, StartFailed, TypeOK, Running
<1>4. CASE \E l \in Launches : StartRunless(w, l)
  <2>1. PICK l \in Launches : StartRunless(w, l)
    BY <1>4
  <2>2. wk'[w] = [wk[w] EXCEPT !.run = l] /\ wk' = [wk EXCEPT ![w] = wk'[w]]
    BY <1>2, <2>1 DEF StartRunless, TypeOK
  <2>3. wk'[w] \in WorkerObject
    BY <1>1, <2>2 DEF WorkerObject
  <2>4. wk' \in [Workers -> WorkerObject] /\ \A v \in Workers \ {w} : wk'[v] = wk[v]
    BY <1>2, <2>2, <2>3 DEF TypeOK
  <2>5. /\ wk'[w].slot = wk[w].slot /\ wk'[w].cancelled = wk[w].cancelled
        /\ wk'[w].process = wk[w].process /\ wk'[w].run = l
    BY <1>1, <2>2 DEF WorkerObject
  <2>6. /\ proc' = [proc EXCEPT ![l].phase = "runless"] /\ proc[l].phase = "unused"
        /\ activity' = [activity EXCEPT ![wk[w].slot] = [run |-> l, closed |-> FALSE]]
        /\ pidRecord' = pidRecord /\ ~wk[w].cancelled
    BY <2>1 DEF StartRunless, BeginRun, MayLaunch
  <2>7. /\ proc' \in [Launches -> Process]
        /\ \A k \in Launches : proc[k].phase \in {"alive", "dead"} => proc'[k] = proc[k]
        /\ \A k \in Launches : Running(k)' => Running(k)
    BY <1>2, <2>6 DEF TypeOK, Process, Running
  <2>8. /\ activity' \in [Slots -> ActivityRow] /\ activity'[wk[w].slot].run = l
        /\ \A s \in Slots \ {wk[w].slot} : activity'[s] = activity[s]
    BY <1>1, <1>2, <2>6 DEF TypeOK, ActivityRow
  <2>9. QED
    BY <2>4, <2>5, <2>6, <2>7, <2>8, NoneAssumption DEF StartFailed
<1>5. CASE \E l \in Launches : StartUnrecorded(w, l)
  <2>1. PICK l \in Launches : StartUnrecorded(w, l)
    BY <1>5
  <2>2. /\ wk'[w] = [wk[w] EXCEPT !.run = l, !.process = l]
        /\ wk' = [wk EXCEPT ![w] = wk'[w]]
    BY <1>2, <2>1 DEF StartUnrecorded, TypeOK
  <2>3. wk'[w] \in WorkerObject
    BY <1>1, <2>2 DEF WorkerObject
  <2>4. wk' \in [Workers -> WorkerObject] /\ \A v \in Workers \ {w} : wk'[v] = wk[v]
    BY <1>2, <2>2, <2>3 DEF TypeOK
  <2>5. /\ wk'[w].slot = wk[w].slot /\ wk'[w].cancelled = wk[w].cancelled
        /\ wk'[w].process = l /\ wk'[w].run = l
    BY <1>1, <2>2 DEF WorkerObject
  <2>6. /\ proc' = [proc EXCEPT ![l] = NewProcess(w, TRUE)] /\ proc[l].phase = "unused"
        /\ activity' = [activity EXCEPT ![wk[w].slot] = [run |-> l, closed |-> FALSE]]
        /\ pidRecord' = pidRecord /\ ~wk[w].cancelled
    BY <2>1 DEF StartUnrecorded, BeginRun, MayLaunch
  <2>7. NewProcess(w, TRUE) \in Process
    BY DEF NewProcess, Process
  <2>8. /\ proc' \in [Launches -> Process] /\ proc'[l] = NewProcess(w, TRUE)
        /\ \A k \in Launches \ {l} : proc'[k] = proc[k]
    BY <1>2, <2>6, <2>7 DEF TypeOK
  <2>9. /\ proc'[l].owner = w /\ proc'[l].phase = "alive"
        /\ \A k \in Launches : proc[k].phase \in {"alive", "dead"} => proc'[k] = proc[k]
        /\ \A k \in Launches : Running(k)' => Running(k)
    BY <2>6, <2>8 DEF NewProcess, Running
  <2>10. /\ activity' \in [Slots -> ActivityRow] /\ activity'[wk[w].slot].run = l
         /\ \A s \in Slots \ {wk[w].slot} : activity'[s] = activity[s]
    BY <1>1, <1>2, <2>6 DEF TypeOK, ActivityRow
  <2>11. QED
    BY <2>4, <2>5, <2>6, <2>8, <2>9, <2>10, NoneAssumption DEF StartFailed
<1>6. QED
  BY <1>3, <1>4, <1>5 DEF StartFails

LEMMA StartFailsStep ==
  ASSUME IInv, NEW w \in Workers, InMap(w), workers' = workers,
         sup[w].pc \in {"none", "start"}, StartFails(w),
         sup' \in [Workers -> Supervisor],
         sup'[w].pc = "start_failed" \/ sup'[w].pc = "none",
         sup'[w].pc = "none" <=> sup[w].pc = "none",
         \A v \in Workers \ {w} : sup'[v] = sup[v]
  PROVE  MapInv' /\ OwnInv' /\ ProcInv' /\ RowInv' /\ SupInv' /\ ServedRunIsOpen'
<1>1. StartFailed(w)
  BY StartFailsEffect
<1>2. TypeOK /\ wk[w].slot \in Slots /\ workers[wk[w].slot] = w
  BY DEF IInv, TypeOK, WorkerObject, InMap
<1>3. \A v \in Workers : wk'[v].slot = wk[v].slot /\ (InMap(v)' <=> InMap(v))
  BY <1>1 DEF InMap, StartFailed
<1>4. \A k \in Launches : Running(k)'
        => /\ Running(k) /\ proc'[k] = proc[k]
           /\ proc[k].owner \in Workers \ {w} /\ InMap(proc[k].owner)
           /\ wk'[proc[k].owner] = wk[proc[k].owner]
           /\ wk[proc[k].owner].slot \in Slots \ {wk[w].slot}
  <2> SUFFICES ASSUME NEW k \in Launches, Running(k)'
               PROVE  /\ Running(k) /\ proc'[k] = proc[k]
                      /\ proc[k].owner \in Workers \ {w} /\ InMap(proc[k].owner)
                      /\ wk'[proc[k].owner] = wk[proc[k].owner]
                      /\ wk[proc[k].owner].slot \in Slots \ {wk[w].slot}
    OBVIOUS
  <2>1. Running(k) /\ proc'[k] = proc[k]
    BY <1>1 DEF StartFailed, Running
  <2>2. proc[k].owner \in Workers \ {w} /\ InMap(proc[k].owner)
    BY <1>2, <2>1 DEF IInv, SupInv, Quiet, ProcInv, TypeOK, Process
  <2>3. wk'[proc[k].owner] = wk[proc[k].owner]
    BY <1>1, <2>2 DEF StartFailed
  <2>4. wk[proc[k].owner].slot \in Slots \ {wk[w].slot}
    BY <1>2, <2>2 DEF InMap, TypeOK, WorkerObject
  <2>5. QED
    BY <2>1, <2>2, <2>3, <2>4
<1>5. MapInv'
  <2>1. \A v \in Workers : wk'[v].slot = None => v # w /\ wk'[v].process = None
    BY <1>1, <1>2, NoneAssumption DEF IInv, MapInv, StartFailed
  <2>2. QED
    BY <1>2, <1>3, <2>1 DEF IInv, MapInv, TypeOK
<1>6. OwnInv'
  <2> SUFFICES ASSUME NEW v \in Workers, wk'[v].process # None
               PROVE  /\ proc'[wk'[v].process].owner = v
                      /\ proc'[wk'[v].process].phase \in {"alive", "dead"}
    BY DEF OwnInv
  <2>1. CASE wk'[v].process = wk[v].process
    <3>1. wk[v].process \in Launches
      BY <1>2, <2>1 DEF TypeOK, WorkerObject
    <3>2. QED
      BY <1>1, <2>1, <3>1 DEF IInv, OwnInv, StartFailed
  <2>2. CASE wk'[v].process # wk[v].process
    BY <1>1, <2>2 DEF StartFailed
  <2>3. QED
    BY <2>1, <2>2
<1>7. ProcInv'
  BY <1>1, <1>3, <1>4 DEF IInv, ProcInv, SlotOf, StartFailed
<1>8. RowInv'
  <2> SUFFICES ASSUME NEW s \in Slots, ~activity'[s].closed
               PROVE  /\ workers[s] # None
                      /\ activity'[s].run # None
                      /\ activity'[s].run = wk'[workers[s]].run
    BY DEF RowInv
  <2>1. CASE s = wk[w].slot
    BY <1>1, <1>2, <2>1, NoneAssumption DEF IInv, RowInv, StartFailed
  <2>2. CASE s # wk[w].slot
    <3>1. activity'[s] = activity[s]
      BY <1>1, <2>2 DEF StartFailed
    <3>2. workers[s] \in Workers \ {w}
      BY <1>2, <2>2, <3>1 DEF IInv, RowInv, MapInv, TypeOK
    <3>3. QED
      BY <1>1, <3>1, <3>2 DEF IInv, RowInv, StartFailed
  <2>3. QED
    BY <2>1, <2>2
<1>9. SupInv'
  <2> SUFFICES ASSUME NEW v \in Workers
               PROVE  /\ sup'[v].pc # "none" => wk'[v].process # None
                      /\ sup'[v].pc \notin {"none", "done"} => InMap(v)'
                      /\ sup'[v].pc \in Quiet
                           => \A l \in Launches : Running(l)' => proc'[l].owner # v
    BY DEF SupInv
  <2>1. CASE v = w
    BY <1>1, <1>3, <1>4, <2>1 DEF IInv, SupInv, StartFailed
  <2>2. CASE v # w
    BY <1>1, <1>3, <1>4, <2>2 DEF IInv, SupInv, StartFailed
  <2>3. QED
    BY <2>1, <2>2
<1>10. ServedRunIsOpen'
  <2> SUFFICES ASSUME NEW k \in Launches, Running(k)',
                      ~wk'[proc'[k].owner].cancelled,
                      sup'[proc'[k].owner].pc \in {"watch", "ready", "serve"}
               PROVE  activity'[wk'[proc'[k].owner].slot] = [run |-> k, closed |-> FALSE]
    BY DEF ServedRunIsOpen
  <2>1. activity[wk[proc[k].owner].slot] = [run |-> k, closed |-> FALSE]
    BY <1>4 DEF IInv, ServedRunIsOpen
  <2>2. QED
    BY <1>1, <1>4, <2>1 DEF StartFailed
<1>11. QED
  BY <1>5, <1>6, <1>7, <1>8, <1>9, <1>10

-----------------------------------------------------------------------------
(* One step per action.                                                     *)

LEMMA SuperviseKeeps ==
  ASSUME IInv, NEW w \in Workers, Supervise(w)
  PROVE  IInv'
<1>1. TypeOK /\ sup[w].pc # "none" /\ sup[w].pc # "done"
  BY DEF IInv, Supervise, SupWait, SupTriage, SupRefuse, SupRefuseCancel, SupStopped,
         SupRetry, SupBackoff, SupStart, SupStartFails, SupEndFailedStart, SupReady,
         SupServe, SupUnready, SupDrainTimeout, SupDrained
<1>2. /\ InMap(w) /\ wk[w].slot \in Slots /\ wk[w].slot # None
      /\ wk[w].process \in Launches /\ proc[wk[w].process].owner = w
  BY <1>1 DEF IInv, SupInv, OwnInv, InMap, TypeOK, WorkerObject
<1>3. /\ wk' = wk => WkKept
      /\ proc' = proc => ProcKept
      /\ activity' = activity => RowsKept
  BY <1>1, UnchangedKeeps
<1>4. pidRecord \in [Slots -> Launches \cup {None}]
  BY <1>1 DEF TypeOK
\* Nothing of a quiet worker runs after the step either.
<1>5. ASSUME ProcKept, sup[w].pc \in Quiet, NEW l \in Launches, Running(l)'
      PROVE  proc[l].owner # w
  BY <1>5 DEF IInv, SupInv, ProcKept
\* Nor of one whose process is dead.
<1>6. ASSUME ProcKept, proc[wk[w].process].phase = "dead", NEW l \in Launches, Running(l)'
      PROVE  proc[l].owner # w
  BY <1>6 DEF IInv, ProcInv, ProcKept, Running
<1>7. CASE SupWait(w)
  <2>1. "triage" \in SupPcs
    BY DEF SupPcs
  <2>2. sup' \in [Workers -> Supervisor] /\ sup'[w].pc = "triage"
        /\ \A v \in Workers \ {w} : sup'[v] = sup[v]
    BY <1>1, <1>7, <2>1, SupToKeeps DEF SupWait
  <2>3. RowsKept /\ \A s \in Slots \ {wk[w].slot} : activity'[s] = activity[s]
    BY <1>1, <1>2, <1>7, EndWorkerActivityKeeps DEF SupWait
  <2>4. QED
    BY <1>1, <1>3, <1>4, <1>6, <1>7, <2>2, <2>3, SuperviseStep DEF SupWait
<1>8. CASE SupTriage(w)
  <2>1. sup' \in [Workers -> Supervisor]
        /\ sup'[w].pc \in {"refuse", "stopped", "retry"}
        /\ \A v \in Workers \ {w} : sup'[v] = sup[v]
    <3>1. {"refuse", "stopped", "retry"} \subseteq SupPcs
      BY DEF SupPcs
    <3>2. CASE SupTo(w, "refuse") \/ SupTo(w, "stopped")
      BY <1>1, <3>1, <3>2, SupToKeeps
    <3>3. CASE \E attempts \in {0, sup[w].attempts} :
                 sup' = [sup EXCEPT ![w].pc = "retry", ![w].attempts = attempts]
      <4>1. PICK attempts \in {0, sup[w].attempts} :
                 sup' = [sup EXCEPT ![w].pc = "retry", ![w].attempts = attempts]
        BY <3>3
      <4>2. sup[w] \in Supervisor /\ attempts \in 0..RestartLimit
        BY <1>1, RestartLimitAssumption DEF TypeOK, Supervisor
      <4>3. sup'[w] = [sup[w] EXCEPT !.pc = "retry", !.attempts = attempts]
        BY <1>1, <4>1 DEF TypeOK
      <4>4. sup'[w] \in Supervisor /\ sup'[w].pc = "retry"
        BY <3>1, <4>2, <4>3 DEF Supervisor
      <4>5. QED
        BY <1>1, <4>1, <4>4 DEF TypeOK
    <3>4. QED
      BY <1>8, <3>2, <3>3 DEF SupTriage
  <2>2. QED
    BY <1>1, <1>3, <1>4, <1>5, <1>8, <2>1, SuperviseStep DEF SupTriage, Quiet
<1>9. CASE SupRefuse(w)
  <2>1. "refuse_cancel" \in SupPcs /\ "failed" \in States
    BY DEF SupPcs, States
  <2>2. sup' \in [Workers -> Supervisor] /\ sup'[w].pc = "refuse_cancel"
        /\ \A v \in Workers \ {w} : sup'[v] = sup[v]
    BY <1>1, <1>9, <2>1, SupToKeeps DEF SupRefuse
  <2>3. WkKept
    BY <1>1, <1>9, <2>1, SetStateKeeps DEF SupRefuse
  <2>4. QED
    BY <1>1, <1>3, <1>4, <1>5, <1>9, <2>2, <2>3, SuperviseStep DEF SupRefuse, Quiet
<1>10. CASE SupRefuseCancel(w)
  <2>1. "stopped" \in SupPcs
    BY DEF SupPcs
  <2>2. sup' \in [Workers -> Supervisor] /\ sup'[w].pc = "stopped"
        /\ \A v \in Workers \ {w} : sup'[v] = sup[v]
    BY <1>1, <1>10, <2>1, SupToKeeps DEF SupRefuseCancel
  <2>3. WkKept
    BY <1>1, <1>10, CancelKeeps DEF SupRefuseCancel
  <2>4. QED
    BY <1>1, <1>3, <1>4, <1>5, <1>10, <2>2, <2>3, SuperviseStep DEF SupRefuseCancel, Quiet
<1>11. CASE SupStopped(w)
  <2>1. {"failed", "stopped"} \subseteq States
    BY DEF States
  <2>2. sup' \in [Workers -> Supervisor] /\ sup'[w].pc = "done"
        /\ \A v \in Workers \ {w} : sup'[v] = sup[v]
    BY <1>1, <1>11, SupReturnKeeps DEF SupStopped
  <2>3. removeWorkerPID(w)
        /\ SetState(w, IF wk[w].state = "failed" THEN "failed" ELSE "stopped")
    BY <1>2, <1>11 DEF SupStopped
  <2>4. WkKept
    BY <1>1, <2>1, <2>3, SetStateKeeps
  <2>5. pidRecord' \in [Slots -> Launches \cup {None}]
        /\ \A s \in Slots \ {wk[w].slot} : pidRecord'[s] = pidRecord[s]
    BY <1>1, <1>2, <2>3, RemoveWorkerPIDKeeps
  <2>6. QED
    BY <1>1, <1>3, <1>5, <1>11, <2>2, <2>4, <2>5, SuperviseStep DEF SupStopped, Quiet
<1>12. CASE SupRetry(w)
  <2>1. {"backoff", "done"} \subseteq SupPcs /\ {"restarting", "failed"} \subseteq States
    BY DEF SupPcs, States
  <2>2. WkKept
    BY <1>1, <1>12, <2>1, SetStateKeeps DEF SupRetry
  <2>3. sup' \in [Workers -> Supervisor] /\ sup'[w].pc \in {"backoff", "done"}
        /\ \A v \in Workers \ {w} : sup'[v] = sup[v]
    <3>1. CASE sup[w].attempts < RestartLimit
      <4>1. sup[w] \in Supervisor /\ sup[w].attempts + 1 \in 0..RestartLimit
        BY <1>1, <3>1, RestartLimitAssumption DEF TypeOK, Supervisor
      <4>2. /\ sup' = [sup EXCEPT ![w].pc = "backoff", ![w].attempts = @ + 1]
            /\ sup'[w] = [sup[w] EXCEPT !.pc = "backoff", !.attempts = @ + 1]
        BY <1>1, <1>12, <3>1 DEF SupRetry, TypeOK
      <4>3. sup'[w] \in Supervisor /\ sup'[w].pc = "backoff"
        BY <2>1, <4>1, <4>2 DEF Supervisor
      <4>4. QED
        BY <1>1, <4>2, <4>3 DEF TypeOK
    <3>2. CASE ~(sup[w].attempts < RestartLimit)
      BY <1>1, <1>12, <3>2, SupReturnKeeps DEF SupRetry
    <3>3. QED
      BY <3>1, <3>2
  <2>4. QED
    BY <1>1, <1>3, <1>4, <1>5, <1>12, <2>2, <2>3, SuperviseStep DEF SupRetry, Quiet
<1>13. CASE SupBackoff(w)
  <2>1. {"start", "stopped"} \subseteq SupPcs
    BY DEF SupPcs
  <2>2. sup' \in [Workers -> Supervisor] /\ sup'[w].pc \in {"start", "stopped"}
        /\ \A v \in Workers \ {w} : sup'[v] = sup[v]
    BY <1>1, <1>13, <2>1, SupToKeeps DEF SupBackoff
  <2>3. QED
    BY <1>1, <1>3, <1>4, <1>5, <1>13, <2>2, SuperviseStep DEF SupBackoff, Quiet
<1>14. CASE \E l \in Launches : SupStart(w, l)
  <2>1. PICK l \in Launches : SupStart(w, l)
    BY <1>14
  <2>2. "ready" \in SupPcs
    BY DEF SupPcs
  <2>3. sup' \in [Workers -> Supervisor] /\ sup'[w].pc = "ready"
        /\ \A v \in Workers \ {w} : sup'[v] = sup[v]
    BY <1>1, <2>1, <2>2, SupToKeeps DEF SupStart
  <2>4. /\ wk' \in [Workers -> WorkerObject] /\ proc' \in [Launches -> Process]
        /\ activity' \in [Slots -> ActivityRow]
        /\ pidRecord' \in [Slots -> Launches \cup {None}]
        /\ MapInv' /\ OwnInv' /\ ProcInv' /\ RowInv' /\ SupInv' /\ ServedRunIsOpen'
    BY <1>2, <2>1, <2>3, StartSucceedsStep DEF SupStart
  <2>5. TypeOK'
    BY <1>1, <2>1, <2>3, <2>4 DEF SupStart, TypeOK
  <2>6. SettleInv'
    BY <2>1 DEF SupStart, IInv, SettleInv
  <2>7. /\ ~wk[w].cancelled /\ op' = op /\ workers' = workers
        /\ wk' = [wk EXCEPT ![w].run = l, ![w].process = l, ![w].state = "connecting"]
        /\ activity' = [activity EXCEPT ![wk[w].slot] = [run |-> l, closed |-> FALSE]]
    BY <2>1 DEF SupStart, StartSucceeds, MayLaunch, BeginRun
  <2>8. op.slot \in Slots /\ op.pc # "idle" => workers[op.slot] \in Workers \cup {None}
    BY <1>1 DEF TypeOK
  <2>9. OpInv'
    BY <1>1, <1>2, <2>1, <2>3, <2>7, <2>8
    DEF IInv, TypeOK, Operation, OpInv, StopHoldsProcess, InMap, MapInv, SupStart
  <2>10. QED
    BY <2>4, <2>5, <2>6, <2>9 DEF IInv
<1>15. CASE SupStartFails(w)
  <2>1. "start_failed" \in SupPcs
    BY DEF SupPcs
  <2>2. sup' \in [Workers -> Supervisor] /\ sup'[w].pc = "start_failed"
        /\ \A v \in Workers \ {w} : sup'[v] = sup[v]
    BY <1>1, <1>15, <2>1, SupToKeeps DEF SupStartFails
  <2>3. MapInv' /\ OwnInv' /\ ProcInv' /\ RowInv' /\ SupInv' /\ ServedRunIsOpen'
    BY <1>2, <1>15, <2>2, StartFailsStep DEF SupStartFails
  <2>4. StartFailed(w)
    BY <1>2, <1>15, StartFailsEffect DEF SupStartFails
  <2>5. TypeOK'
    BY <1>1, <1>15, <2>2, <2>4 DEF SupStartFails, StartFailed, TypeOK
  <2>6. SettleInv'
    BY <1>15 DEF SupStartFails, IInv, SettleInv
  <2>7. UNCHANGED <<op, workers>> /\ sup[w].pc = "start" /\ OpInv /\ MapInv
    BY <1>15 DEF SupStartFails, IInv
  <2>8. /\ op.pc # "idle" => op.slot \in Slots
        /\ op.pc = "start" => workers[op.slot] \in Workers \ {w}
        /\ op.pc \in {"interrupt", "wait", "term", "kill"} /\ ~wk[w].cancelled
             => workers[op.slot] \in Workers \ {w}
        /\ op.pc \in {"interrupt", "wait", "term", "kill"}
             => workers[op.slot] \in Workers
    BY <1>1, <1>2, <2>7 DEF OpInv, TypeOK, Operation, InMap
  <2>9. OpInv'
    <3>1. op.pc = "start" => wk'[workers[op.slot]].process = None
      BY <2>4, <2>7, <2>8 DEF OpInv, StartFailed
    <3>2. \A s \in Slots : workers[s] # None
            => (sup'[workers[s]].pc = "none" <=> op.pc \in {"start", "abandon"} /\ op.slot = s)
      BY <1>1, <2>2, <2>7 DEF OpInv, TypeOK
    <3>3. op.pc \in {"interrupt", "wait", "term", "kill"}
            => wk'[workers[op.slot]].cancelled /\ StopHoldsProcess'
      BY <2>4, <2>7, <2>8 DEF OpInv, StartFailed, StopHoldsProcess
    <3>4. op.pc \in {"wait", "term", "kill"} => activity'[op.slot].closed
      BY <1>2, <2>4, <2>7, <2>8 DEF OpInv, StartFailed, InMap, MapInv
    <3>5. QED
      BY <2>7, <3>1, <3>2, <3>3, <3>4 DEF OpInv
  <2>10. QED
    BY <2>3, <2>5, <2>6, <2>9 DEF IInv
<1>16. CASE SupEndFailedStart(w)
  <2>1. "retry" \in SupPcs
    BY DEF SupPcs
  <2>2. sup' \in [Workers -> Supervisor] /\ sup'[w].pc = "retry"
        /\ \A v \in Workers \ {w} : sup'[v] = sup[v]
    BY <1>1, <1>16, <2>1, SupToKeeps DEF SupEndFailedStart
  <2>3. RowsKept /\ \A s \in Slots \ {wk[w].slot} : activity'[s] = activity[s]
    BY <1>1, <1>2, <1>16, EndWorkerActivityKeeps DEF SupEndFailedStart
  <2>4. QED
    BY <1>1, <1>3, <1>4, <1>5, <1>16, <2>2, <2>3, SuperviseStep
    DEF SupEndFailedStart, Quiet
<1>17. CASE SupReady(w)
  <2>1. {"serve", "unready"} \subseteq SupPcs
    BY DEF SupPcs
  <2>2. sup' \in [Workers -> Supervisor] /\ sup'[w].pc \in {"serve", "unready"}
        /\ \A v \in Workers \ {w} : sup'[v] = sup[v]
    <3>1. CASE SupTo(w, "serve") \/ SupTo(w, "unready")
      BY <1>1, <2>1, <3>1, SupToKeeps
    <3>2. CASE sup' = [sup EXCEPT ![w].pc = "unready", ![w].refused = TRUE]
      <4>1. sup[w] \in Supervisor
            /\ sup'[w] = [sup[w] EXCEPT !.pc = "unready", !.refused = TRUE]
        BY <1>1, <3>2 DEF TypeOK
      <4>2. sup'[w] \in Supervisor /\ sup'[w].pc = "unready"
        BY <2>1, <4>1 DEF Supervisor
      <4>3. QED
        BY <1>1, <3>2, <4>2 DEF TypeOK
    <3>3. QED
      BY <1>17, <3>1, <3>2 DEF SupReady
  <2>3. QED
    BY <1>1, <1>3, <1>4, <1>17, <2>2, SuperviseStep DEF SupReady, Quiet
<1>18. CASE SupServe(w)
  <2>1. "watch" \in SupPcs
    BY DEF SupPcs
  <2>2. sup' \in [Workers -> Supervisor] /\ sup'[w].pc = "watch"
        /\ \A v \in Workers \ {w} : sup'[v] = sup[v]
    BY <1>1, <1>18, <2>1, SupToKeeps DEF SupServe
  <2>3. WkKept
    BY <1>1, <1>18, MarkRunningKeeps DEF SupServe
  <2>4. QED
    BY <1>1, <1>3, <1>4, <1>18, <2>2, <2>3, SuperviseStep DEF SupServe, Quiet
<1>19. CASE SupUnready(w)
  <2>1. "drain" \in SupPcs
    BY DEF SupPcs
  <2>2. sup' \in [Workers -> Supervisor] /\ sup'[w].pc = "drain"
        /\ \A v \in Workers \ {w} : sup'[v] = sup[v]
    BY <1>1, <1>19, <2>1, SupToKeeps DEF SupUnready
  <2>3. RowsKept /\ \A s \in Slots \ {wk[w].slot} : activity'[s] = activity[s]
    BY <1>1, <1>2, <1>19, EndWorkerActivityKeeps DEF SupUnready
  <2>4. QED
    BY <1>1, <1>3, <1>4, <1>19, <2>2, <2>3, SuperviseStep DEF SupUnready, Quiet
<1>20. CASE SupDrainTimeout(w)
  <2>1. ProcKept
    BY <1>1, <1>2, <1>20, KillKeeps DEF SupDrainTimeout
  <2>2. sup' = sup /\ sup \in [Workers -> Supervisor]
    BY <1>1, <1>20 DEF SupDrainTimeout, TypeOK
  <2>3. QED
    BY <1>1, <1>3, <1>4, <1>20, <2>1, <2>2, SuperviseStep DEF SupDrainTimeout, Quiet
<1>21. CASE SupDrained(w)
  <2>1. {"refuse", "retry"} \subseteq SupPcs
    BY DEF SupPcs
  <2>2. sup' \in [Workers -> Supervisor] /\ sup'[w].pc \in {"refuse", "retry"}
        /\ \A v \in Workers \ {w} : sup'[v] = sup[v]
    <3>1. sup[w] \in Supervisor
          /\ sup'[w] = [sup[w] EXCEPT
                          !.pc = IF sup[w].refused THEN "refuse" ELSE "retry",
                          !.refused = FALSE]
      BY <1>1, <1>21 DEF SupDrained, TypeOK
    <3>2. sup'[w] \in Supervisor /\ sup'[w].pc \in {"refuse", "retry"}
      BY <2>1, <3>1 DEF Supervisor
    <3>3. QED
      BY <1>1, <1>21, <3>2 DEF SupDrained, TypeOK
  <2>3. QED
    BY <1>1, <1>3, <1>4, <1>6, <1>21, <2>2, SuperviseStep DEF SupDrained
<1>22. QED
  BY <1>7, <1>8, <1>9, <1>10, <1>11, <1>12, <1>13, <1>14, <1>15, <1>16, <1>17, <1>18,
     <1>19, <1>20, <1>21 DEF Supervise

LEMMA SettleKeeps ==
  ASSUME IInv, NEW w \in Workers, Settle(w)
  PROVE  IInv'
<1>1. TypeOK /\ settle \in [Workers -> Settler] /\ settle[w] \in Settler
  BY DEF IInv, TypeOK
<1>2. /\ wk' = wk => WkKept
      /\ proc' = proc => ProcKept
  BY <1>1, UnchangedKeeps
<1>3. {"serve", "fail", "cancel", "down", "end"} \subseteq SettlePcs
  BY DEF SettlePcs
\* The moves of the goroutine keep the shape of settle.
<1>4. ASSUME NEW pc \in {"serve", "fail", "cancel", "down"}, SettleTo(w, pc),
             settle[w].pc \notin {"none", "end"}
      PROVE  settle' \in [Workers -> Settler] /\ SettleInv'
  <2>1. settle'[w] = [settle[w] EXCEPT !.pc = pc]
        /\ \A v \in Workers \ {w} : settle'[v] = settle[v]
    BY <1>1, <1>4 DEF SettleTo
  <2>2. settle'[w] \in Settler /\ settle'[w].process = settle[w].process
    BY <1>1, <1>3, <2>1 DEF Settler
  <2>3. settle' \in [Workers -> Settler]
    BY <1>1, <1>4, <2>2 DEF SettleTo
  <2>4. SettleInv'
    BY <1>4, <2>1, <2>2 DEF IInv, SettleInv
  <2>5. QED
    BY <2>3, <2>4
<1>5. ASSUME SettleReturn(w)
      PROVE  settle' \in [Workers -> Settler] /\ SettleInv'
  <2>1. [pc |-> "end", process |-> None] \in Settler
    BY <1>3 DEF Settler
  <2>2. QED
    BY <1>1, <1>5, <2>1 DEF SettleReturn, IInv, SettleInv
<1>6. CASE SettleReady(w)
  BY <1>2, <1>4, <1>6, BystanderStep DEF SettleReady
<1>7. CASE SettleServe(w)
  <2>1. WkKept
    BY <1>1, <1>7, MarkRunningKeeps DEF SettleServe
  <2>2. QED
    BY <1>2, <1>5, <1>7, <2>1, BystanderStep DEF SettleServe
<1>8. CASE SettleUnready(w)
  BY <1>2, <1>4, <1>5, <1>8, BystanderStep DEF SettleUnready
<1>9. CASE SettleFail(w)
  <2>1. WkKept
    <3>1. "failed" \in States
      BY DEF States
    <3>2. QED
      BY <1>1, <1>9, <3>1, SetStateKeeps DEF SettleFail
  <2>2. QED
    BY <1>2, <1>4, <1>9, <2>1, BystanderStep DEF SettleFail
<1>10. CASE SettleCancel(w)
  <2>1. WkKept
    BY <1>1, <1>10, CancelKeeps DEF SettleCancel
  <2>2. QED
    BY <1>2, <1>4, <1>10, <2>1, BystanderStep DEF SettleCancel
<1>11. CASE SettleDown(w)
  <2>1. settle[w].process \in Launches
    BY <1>1, <1>11 DEF SettleDown, Settler, IInv, SettleInv
  <2>2. ProcKept
    BY <1>1, <1>2, <1>11, <2>1, KillKeeps DEF SettleDown
  <2>3. QED
    BY <1>2, <1>5, <1>11, <2>2, BystanderStep DEF SettleDown
<1>12. QED
  BY <1>6, <1>7, <1>8, <1>9, <1>10, <1>11 DEF Settle

LEMMA ProcessKeepsProc ==
  ASSUME TypeOK, NEW l \in Launches, ProcessStep(l)
  PROVE  ProcKept
<1>1. proc \in [Launches -> Process] /\ proc[l] \in Process
  BY DEF TypeOK
<1>2. proc'[l] \in Process /\ proc'[l].owner = proc[l].owner
      /\ proc'[l].phase \in {"alive", "dead"} /\ (Running(l)' => Running(l))
  <2>1. CASE Register(l)
    BY <1>1, <2>1 DEF Register, Process, Running
  <2>2. CASE Exit(l)
    BY <1>1, <2>2 DEF Exit, Process, Running
  <2>3. CASE \E modelUnavailable \in BOOLEAN : Diagnose(l, modelUnavailable)
    BY <1>1, <2>3 DEF Diagnose, Process, Running
  <2>4. QED
    BY <2>1, <2>2, <2>3 DEF ProcessStep
<1>3. proc' = [proc EXCEPT ![l] = proc'[l]]
  BY <1>1 DEF ProcessStep, Register, Exit, Diagnose
<1>4. QED
  BY <1>1, <1>2, <1>3 DEF ProcKept, Running

LEMMA ProcessKeeps ==
  ASSUME IInv, NEW l \in Launches, ProcessStep(l)
  PROVE  IInv'
<1>1. TypeOK /\ proc \in [Launches -> Process] /\ proc[l] \in Process
  BY DEF IInv, TypeOK
<1>2. WkKept
  BY <1>1, UnchangedKeeps DEF ProcessStep, Register, Exit, Diagnose
<1>3. ProcKept
  BY <1>1, ProcessKeepsProc
<1>4. /\ UNCHANGED <<op, workers, sup, activity, pidRecord, settle>>
  BY DEF ProcessStep, Register, Exit, Diagnose
<1>5. settle' \in [Workers -> Settler] /\ SettleInv'
  BY <1>1, <1>4 DEF TypeOK, IInv, SettleInv
<1>6. QED
  BY <1>2, <1>3, <1>4, <1>5, BystanderStep

\* A step of the holder of opMu that touches nothing but op, and at most kills.
LEMMA OpMove ==
  ASSUME IInv, UNCHANGED <<workers, wk, sup, settle, activity, pidRecord>>, ProcKept,
         op' \in Operation, OpInv'
  PROVE  IInv'
<1>1. TypeOK /\ WkKept /\ RowsKept
  BY UnchangedKeeps DEF IInv
<1>2. TypeOK'
  BY <1>1 DEF TypeOK, ProcKept
<1>3. MapInv' /\ OwnInv' /\ ProcInv' /\ RowInv'
  BY <1>1, WorldKept
<1>4. SupInv'
  BY DEF IInv, SupInv, InMap, ProcKept
<1>5. SettleInv'
  BY DEF IInv, SettleInv
<1>6. ServedRunIsOpen'
  BY DEF IInv, ServedRunIsOpen, ProcKept
<1>7. QED
  BY <1>2, <1>3, <1>4, <1>5, <1>6 DEF IInv

LEMMA CallKeeps ==
  ASSUME IInv, Call
  PROVE  IInv'
<1>1. TypeOK /\ ProcKept
  BY UnchangedKeeps DEF IInv, Call, Activate, Deactivate
<1>2. PICK s \in Slots, force \in BOOLEAN :
        \/ \E sameSpec \in BOOLEAN : Activate(s, force, sameSpec)
        \/ Deactivate(s, force)
  BY DEF Call
<1>3. op'.pc \in {"create", "stop"} /\ op'.slot = s /\ op.pc = "idle"
      /\ (op'.pc = "create" <=> workers[s] = None)
  BY <1>2 DEF Activate, Deactivate
<1>4. op' \in Operation
  <2>1. {"create", "stop"} \subseteq OpPcs
    BY DEF OpPcs
  <2>2. QED
    BY <1>2, <2>1 DEF Activate, Deactivate, Operation
<1>5. UNCHANGED <<workers, wk, sup, settle, activity, pidRecord>>
  BY <1>2 DEF Activate, Deactivate
<1>6. OpInv'
  BY <1>3, <1>5, NoneAssumption DEF IInv, OpInv
<1>7. QED
  BY <1>1, <1>4, <1>5, <1>6, OpMove

LEMMA OpTypes ==
  ASSUME TypeOK
  PROVE  /\ Idle \in Operation
         /\ \A pc \in OpPcs : OpTo(pc) => op' \in Operation /\ op'.pc = pc
              /\ op'.slot = op.slot /\ op'.process = op.process
<1>1. "idle" \in OpPcs
  BY DEF OpPcs
<1>2. Idle \in Operation
  BY <1>1 DEF Idle, Operation
<1>3. ASSUME NEW pc \in OpPcs, OpTo(pc)
      PROVE  op' \in Operation /\ op'.pc = pc /\ op'.slot = op.slot /\ op'.process = op.process
  BY <1>3 DEF OpTo, TypeOK, Operation
<1>4. QED
  BY <1>2, <1>3

\* The holder of opMu at work on a slot that has a worker.
LEMMA OpWorker ==
  ASSUME IInv, op.pc \in {"stop", "interrupt", "wait", "term", "kill", "start", "abandon"}
  PROVE  /\ TypeOK /\ op \in Operation
         /\ op.slot \in Slots
         /\ workers[op.slot] \in Workers
         /\ wk[workers[op.slot]].slot = op.slot
         /\ wk[workers[op.slot]] \in WorkerObject
         /\ InMap(workers[op.slot])
BY NoneAssumption DEF IInv, TypeOK, Operation, OpInv, MapInv, InMap

LEMMA StopCancelKeeps ==
  ASSUME IInv, StopCancel
  PROVE  IInv'
<1> DEFINE w == workers[op.slot]
<1>1. op.pc = "stop" /\ TypeOK /\ op \in Operation /\ op.slot \in Slots /\ w \in Workers
      /\ wk[w].slot = op.slot /\ wk[w] \in WorkerObject /\ InMap(w)
  BY OpWorker DEF StopCancel
<1>2. WkKept /\ wk'[w].cancelled
  <2>1. "stopping" \in States
    BY DEF States
  <2>2. wk'[w] = [wk[w] EXCEPT !.cancelled = TRUE, !.state = "stopping"]
        /\ wk' = [wk EXCEPT ![w] = wk'[w]]
    BY <1>1 DEF StopCancel, Cancel, TypeOK
  <2>3. wk'[w] \in WorkerObject /\ wk'[w].cancelled /\ wk'[w].slot = wk[w].slot
        /\ wk'[w].process = wk[w].process /\ wk'[w].run = wk[w].run
    BY <1>1, <2>1, <2>2 DEF WorkerObject
  <2>4. wk' \in [Workers -> WorkerObject] /\ \A v \in Workers \ {w} : wk'[v] = wk[v]
    BY <1>1, <2>2, <2>3 DEF TypeOK
  <2>5. QED
    BY <1>1, <2>3, <2>4 DEF WkKept
<1>3. op' \in Operation /\ op'.pc = "interrupt" /\ op'.slot = op.slot
      /\ op'.process = wk[w].process
  <2>1. "interrupt" \in OpPcs
    BY DEF OpPcs
  <2>2. wk[w].process \in Launches \cup {None}
    BY <1>1 DEF WorkerObject
  <2>3. op' = [op EXCEPT !.pc = "interrupt", !.process = wk[w].process]
    BY DEF StopCancel
  <2>4. QED
    BY <1>1, <2>1, <2>2, <2>3 DEF Operation
<1>4. UNCHANGED <<workers, sup, settle, proc, activity, pidRecord>>
  BY DEF StopCancel
<1>5. ProcKept /\ RowsKept
  BY <1>1, <1>4, UnchangedKeeps
<1>6. TypeOK'
  BY <1>1, <1>2, <1>3, <1>4 DEF TypeOK, WkKept
<1>7. MapInv' /\ OwnInv' /\ ProcInv' /\ RowInv'
  BY <1>2, <1>4, <1>5, WorldKept
<1>8. SupInv'
  BY <1>2, <1>4, <1>5 DEF IInv, SupInv, InMap, WkKept, ProcKept
<1>9. SettleInv'
  BY <1>4 DEF IInv, SettleInv
<1>10. OpInv'
  BY <1>1, <1>2, <1>3, <1>4, NoneAssumption DEF IInv, OpInv, StopHoldsProcess, WkKept
<1>11. ServedRunIsOpen'
  BY <1>2, <1>4, <1>5 DEF IInv, TypeOK, Process, ServedRunIsOpen, ProcInv, WkKept, ProcKept
<1>12. QED
  BY <1>6, <1>7, <1>8, <1>9, <1>10, <1>11 DEF IInv

LEMMA StopInterruptKeeps ==
  ASSUME IInv, StopInterrupt
  PROVE  IInv'
<1> DEFINE w == workers[op.slot]
<1>1. op.pc = "interrupt" /\ TypeOK /\ op \in Operation /\ op.slot \in Slots
      /\ w \in Workers /\ wk[w].slot = op.slot /\ wk[w] \in WorkerObject /\ InMap(w)
      /\ wk[w].cancelled /\ op.process = wk[w].process
  BY OpWorker DEF StopInterrupt, IInv, OpInv, StopHoldsProcess
<1>2. /\ RowsKept
      /\ \A s \in Slots \ {op.slot} : activity'[s] = activity[s]
      /\ wk[w].run # None /\ activity[op.slot].run = wk[w].run => activity'[op.slot].closed
  BY <1>1, EndWorkerActivityKeeps, NoneAssumption DEF StopInterrupt
<1>3. op' \in Operation /\ op'.pc = "wait" /\ op'.slot = op.slot /\ op'.process = op.process
  <2>1. "wait" \in OpPcs
    BY DEF OpPcs
  <2>2. QED
    BY <1>1, <2>1, OpTypes DEF StopInterrupt
<1>4. UNCHANGED <<workers, wk, sup, settle, proc, pidRecord>>
  BY DEF StopInterrupt
<1>5. WkKept /\ ProcKept
  BY <1>1, <1>4, UnchangedKeeps
<1>6. TypeOK'
  BY <1>1, <1>2, <1>3, <1>4 DEF TypeOK, RowsKept
<1>7. MapInv' /\ OwnInv' /\ ProcInv' /\ RowInv'
  BY <1>2, <1>4, <1>5, WorldKept
<1>8. SupInv' /\ SettleInv'
  BY <1>4, <1>5 DEF IInv, SupInv, SettleInv, InMap, ProcKept
<1>9. activity'[op.slot].closed
  BY <1>1, <1>2 DEF IInv, RowInv, RowsKept
<1>10. OpInv'
  BY <1>1, <1>3, <1>4, <1>9, NoneAssumption DEF IInv, OpInv, StopHoldsProcess
<1>11. ServedRunIsOpen'
  <2> SUFFICES ASSUME NEW l \in Launches, Running(l)', ~wk[proc[l].owner].cancelled,
                      sup[proc[l].owner].pc \in {"watch", "ready", "serve"}
               PROVE  activity'[wk[proc[l].owner].slot] = [run |-> l, closed |-> FALSE]
    BY <1>4 DEF ServedRunIsOpen
  <2>1. Running(l) /\ InMap(proc[l].owner) /\ proc[l].owner \in Workers
        /\ proc[l].owner # w
    BY <1>1, <1>5 DEF IInv, ProcInv, ProcKept, TypeOK, Process
  <2>2. wk[proc[l].owner].slot \in Slots \ {op.slot}
    BY <1>1, <2>1 DEF InMap, TypeOK, WorkerObject
  <2>3. QED
    BY <1>2, <2>1, <2>2 DEF IInv, ServedRunIsOpen
<1>12. QED
  BY <1>6, <1>7, <1>8, <1>10, <1>11 DEF IInv

\* A worker of which nothing runs and whose run is closed may leave the map.
LEMMA LeaveMapStep ==
  ASSUME IInv, NEW s \in Slots, workers[s] # None,
         sup[workers[s]].pc \in {"none", "done"},
         workers' = [workers EXCEPT ![s] = None],
         UNCHANGED <<sup, settle, proc>>, WkKept, RowsKept, activity'[s].closed,
         \A r \in Slots \ {s} : activity'[r] = activity[r] /\ pidRecord'[r] = pidRecord[r],
         pidRecord' \in [Slots -> Launches \cup {None}],
         op' \in Operation, op.slot = s, op.pc # "idle",
         \/ op'.pc = "idle"
         \/ op'.pc = "create" /\ op'.slot = s
  PROVE  IInv'
<1> USE DEF WkKept
<1>1. TypeOK /\ workers[s] \in Workers /\ wk[workers[s]].slot = s
  BY DEF IInv, TypeOK, MapInv
<1>2. workers'[s] = None /\ \A r \in Slots \ {s} : workers'[r] = workers[r]
  BY <1>1 DEF TypeOK
<1>3. TypeOK'
  BY <1>1 DEF TypeOK, RowsKept
<1>4. \A v \in Workers : InMap(v) /\ v # workers[s] => InMap(v)' /\ wk[v].slot # s
  BY <1>1, <1>2 DEF InMap, TypeOK, WorkerObject
<1>5. \A l \in Launches : Running(l)'
        => /\ Running(l) /\ proc[l].owner \in Workers \ {workers[s]}
           /\ InMap(proc[l].owner) /\ InMap(proc[l].owner)'
           /\ wk[proc[l].owner].slot \in Slots \ {s}
  <2> SUFFICES ASSUME NEW l \in Launches, Running(l)'
               PROVE  /\ Running(l) /\ proc[l].owner \in Workers \ {workers[s]}
                      /\ InMap(proc[l].owner) /\ InMap(proc[l].owner)'
                      /\ wk[proc[l].owner].slot \in Slots \ {s}
    OBVIOUS
  <2>1. Running(l)
    BY DEF Running
  <2>2. proc[l].owner \in Workers \ {workers[s]} /\ InMap(proc[l].owner)
    BY <1>1, <2>1 DEF IInv, SupInv, Quiet, ProcInv, TypeOK, Process
  <2>3. InMap(proc[l].owner)' /\ wk[proc[l].owner].slot # s
    BY <1>4, <2>2 DEF InMap
  <2>4. wk[proc[l].owner].slot \in Slots
    BY <1>1, <2>2 DEF TypeOK, WorkerObject, InMap
  <2>5. QED
    BY <2>1, <2>2, <2>3, <2>4
<1>6. MapInv'
  BY <1>1, <1>2 DEF IInv, MapInv, TypeOK
<1>7. OwnInv'
  BY DEF IInv, OwnInv
<1>8. ProcInv'
  BY <1>1, <1>5 DEF IInv, ProcInv, SlotOf
<1>9. RowInv'
  <2> SUFFICES ASSUME NEW r \in Slots, ~activity'[r].closed
               PROVE  /\ workers'[r] # None
                      /\ activity'[r].run # None
                      /\ activity'[r].run = wk'[workers'[r]].run
    BY DEF RowInv
  <2>1. r # s /\ activity'[r] = activity[r] /\ workers'[r] = workers[r]
    BY <1>2
  <2>2. workers[r] \in Workers
    BY <1>1, <2>1 DEF IInv, RowInv, TypeOK
  <2>3. QED
    BY <2>1, <2>2 DEF IInv, RowInv
<1>10. SupInv'
  BY <1>1, <1>4, <1>5 DEF IInv, SupInv
<1>11. SettleInv'
  BY DEF IInv, SettleInv
<1>12. OpInv'
  <2>1. op'.pc \notin {"stop", "interrupt", "wait", "term", "kill", "start", "abandon"}
    OBVIOUS
  <2>2. \A r \in Slots : workers'[r] # None => sup'[workers'[r]].pc # "none"
    BY <1>2 DEF IInv, OpInv
  <2>3. QED
    BY <1>2, <2>1, <2>2, NoneAssumption DEF OpInv
<1>13. ServedRunIsOpen'
  BY <1>5 DEF IInv, ServedRunIsOpen
<1>14. QED
  BY <1>3, <1>6, <1>7, <1>8, <1>9, <1>10, <1>11, <1>12, <1>13 DEF IInv

LEMMA StopDoneKeeps ==
  ASSUME IInv, StopDone
  PROVE  IInv'
<1> DEFINE w == workers[op.slot]
<1>1. op.pc \in {"wait", "term", "kill"} /\ TypeOK /\ op \in Operation /\ op.slot \in Slots
      /\ w \in Workers /\ wk[w].slot = op.slot /\ sup[w].pc = "done"
      /\ activity[op.slot].closed
  BY OpWorker DEF StopDone, IInv, OpInv
<1>2. /\ pidRecord' \in [Slots -> Launches \cup {None}]
      /\ \A s \in Slots \ {op.slot} : pidRecord'[s] = pidRecord[s]
  BY <1>1, RemoveWorkerPIDKeeps, NoneAssumption DEF StopDone
<1>3. /\ op' \in Operation
      /\ op'.pc = "idle" \/ (op'.pc = "create" /\ op'.slot = op.slot)
  <2>1. CASE op.kind = "activate"
    <3>1. "create" \in OpPcs
      BY DEF OpPcs
    <3>2. op' = [op EXCEPT !.pc = "create", !.process = None]
      BY <2>1 DEF StopDone
    <3>3. QED
      BY <1>1, <3>1, <3>2 DEF Operation
  <2>2. CASE op.kind # "activate"
    <3>1. op' = Idle
      BY <2>2 DEF StopDone, OpDone
    <3>2. Idle \in Operation /\ Idle.pc = "idle"
      BY <1>1, OpTypes DEF Idle
    <3>3. QED
      BY <3>1, <3>2
  <2>3. QED
    BY <2>1, <2>2
<1>4. /\ UNCHANGED <<wk, sup, settle, proc, activity>>
      /\ workers' = [workers EXCEPT ![op.slot] = None]
  BY DEF StopDone
<1>5. WkKept /\ RowsKept
  BY <1>1, <1>4, UnchangedKeeps
<1>6. w # None
  BY <1>1, NoneAssumption
<1>7. QED
  BY <1>1, <1>2, <1>3, <1>4, <1>5, <1>6, LeaveMapStep

LEMMA StopTimeoutKeeps ==
  ASSUME IInv, StopTimeout
  PROVE  IInv'
<1>1. op.pc \in {"wait", "term", "kill"} /\ TypeOK /\ op \in Operation /\ op.slot \in Slots
      /\ workers[op.slot] \in Workers /\ wk[workers[op.slot]] \in WorkerObject
      /\ sup[workers[op.slot]].pc # "none" /\ op.process = wk[workers[op.slot]].process
  BY OpWorker, NoneAssumption DEF StopTimeout, IInv, OpInv, StopHoldsProcess
<1>2. op.process \in Launches
  BY <1>1 DEF IInv, SupInv, WorkerObject
<1>3. UNCHANGED <<workers, wk, sup, settle, activity, pidRecord>>
  BY DEF StopTimeout
<1>4. ProcKept
  BY <1>1, <1>2, KillKeeps, UnchangedKeeps DEF StopTimeout
<1>5. /\ op' \in Operation
      /\ \/ op'.pc = "idle"
         \/ op'.pc \in {"term", "kill"} /\ op'.slot = op.slot /\ op'.process = op.process
  <2>1. {"term", "kill"} \subseteq OpPcs
    BY DEF OpPcs
  <2>2. OpTo("term") \/ OpTo("kill") \/ op' = Idle
    BY DEF StopTimeout, OpDone
  <2>3. Idle \in Operation /\ Idle.pc = "idle"
    BY <1>1, OpTypes DEF Idle
  <2>4. CASE OpTo("term")
    BY <1>1, <2>1, <2>4, OpTypes
  <2>5. CASE OpTo("kill")
    BY <1>1, <2>1, <2>5, OpTypes
  <2>6. QED
    BY <2>2, <2>3, <2>4, <2>5
<1>6. OpInv'
  BY <1>1, <1>3, <1>5 DEF IInv, OpInv, StopHoldsProcess
<1>7. QED
  BY <1>3, <1>4, <1>5, <1>6, OpMove

LEMMA ActivateRefusedKeeps ==
  ASSUME IInv, ActivateRefused
  PROVE  IInv'
<1>1. TypeOK /\ ProcKept
  BY UnchangedKeeps DEF IInv, ActivateRefused
<1>2. op' \in Operation /\ op'.pc = "idle"
  BY <1>1, OpTypes DEF ActivateRefused, OpDone, Idle
<1>3. OpInv'
  BY <1>2 DEF IInv, OpInv, ActivateRefused
<1>4. QED
  BY <1>1, <1>2, <1>3, OpMove DEF ActivateRefused

LEMMA ActivateStartFailsKeeps ==
  ASSUME IInv, ActivateStartFails
  PROVE  IInv'
<1> DEFINE w == workers[op.slot]
<1>1. op.pc = "start" /\ TypeOK /\ op \in Operation /\ op.slot \in Slots /\ w \in Workers
      /\ wk[w].slot = op.slot /\ InMap(w) /\ sup[w].pc = "none"
  BY OpWorker, NoneAssumption DEF ActivateStartFails, IInv, OpInv
<1>2. op' \in Operation /\ op'.pc = "abandon" /\ op'.slot = op.slot
  <2>1. "abandon" \in OpPcs
    BY DEF OpPcs
  <2>2. QED
    BY <1>1, <2>1, OpTypes DEF ActivateStartFails
<1>3. UNCHANGED <<workers, sup, settle>> /\ sup' \in [Workers -> Supervisor]
  BY <1>1 DEF ActivateStartFails, TypeOK
<1>4. StartFailed(w)
  BY <1>1, StartFailsEffect DEF ActivateStartFails
<1>5. MapInv' /\ OwnInv' /\ ProcInv' /\ RowInv' /\ SupInv' /\ ServedRunIsOpen'
  BY <1>1, <1>3, StartFailsStep DEF ActivateStartFails
<1>6. TypeOK'
  BY <1>1, <1>2, <1>3, <1>4 DEF TypeOK, StartFailed
<1>7. SettleInv'
  BY <1>3 DEF IInv, SettleInv
<1>8. OpInv'
  BY <1>1, <1>2, <1>3, NoneAssumption DEF IInv, OpInv
<1>9. QED
  BY <1>5, <1>6, <1>7, <1>8 DEF IInv

LEMMA ActivateAbandonKeeps ==
  ASSUME IInv, ActivateAbandon
  PROVE  IInv'
<1> DEFINE w == workers[op.slot]
<1>1. op.pc = "abandon" /\ TypeOK /\ op \in Operation /\ op.slot \in Slots /\ w \in Workers
      /\ wk[w].slot = op.slot /\ sup[w].pc = "none" /\ w # None /\ wk[w].slot # None
  BY OpWorker, NoneAssumption DEF ActivateAbandon, IInv, OpInv
<1>2. /\ RowsKept
      /\ \A s \in Slots \ {op.slot} : activity'[s] = activity[s]
      /\ wk[w].run # None /\ activity[op.slot].run = wk[w].run => activity'[op.slot].closed
  BY <1>1, EndWorkerActivityKeeps DEF ActivateAbandon
<1>3. activity'[op.slot].closed
  BY <1>1, <1>2 DEF IInv, RowInv, RowsKept
<1>4. WkKept
  BY <1>1, CancelKeeps DEF ActivateAbandon
<1>5. op' \in Operation /\ op'.pc = "idle"
  BY <1>1, OpTypes DEF ActivateAbandon, OpDone, Idle
<1>6. UNCHANGED <<sup, settle, proc, pidRecord>>
      /\ workers' = [workers EXCEPT ![op.slot] = None]
      /\ pidRecord' \in [Slots -> Launches \cup {None}]
  BY <1>1 DEF ActivateAbandon, TypeOK
<1>7. QED
  BY <1>1, <1>2, <1>3, <1>4, <1>5, <1>6, LeaveMapStep

LEMMA ActivateCreateKeeps ==
  ASSUME IInv, NEW w \in Workers, ActivateCreate(w)
  PROVE  IInv'
<1>1. op.pc = "create" /\ TypeOK /\ op \in Operation /\ op.slot \in Slots
      /\ workers[op.slot] = None
  BY DEF ActivateCreate, IInv, OpInv, TypeOK, Operation
<1>2. /\ wk[w].slot = None /\ wk[w].process = None /\ sup[w].pc = "none"
      /\ wk[w] \in WorkerObject /\ ~InMap(w) /\ \A s \in Slots : workers[s] # w
  BY <1>1, NoneAssumption DEF ActivateCreate, IInv, MapInv, SupInv, TypeOK, InMap
<1>3. /\ wk' \in [Workers -> WorkerObject]
      /\ wk'[w].slot = op.slot /\ wk'[w].process = None
      /\ \A v \in Workers \ {w} : wk'[v] = wk[v]
  <2>1. wk'[w] = [wk[w] EXCEPT !.slot = op.slot] /\ wk' = [wk EXCEPT ![w] = wk'[w]]
    BY <1>1 DEF ActivateCreate, TypeOK
  <2>2. wk'[w] \in WorkerObject /\ wk'[w].slot = op.slot /\ wk'[w].process = None
    BY <1>1, <1>2, <2>1 DEF WorkerObject
  <2>3. QED
    BY <1>1, <2>1, <2>2 DEF TypeOK
<1>4. /\ workers' \in [Slots -> Workers \cup {None}] /\ workers'[op.slot] = w
      /\ \A s \in Slots \ {op.slot} : workers'[s] = workers[s]
  BY <1>1 DEF ActivateCreate, TypeOK
<1>5. op' \in Operation /\ op'.pc = "start" /\ op'.slot = op.slot
  <2>1. "start" \in OpPcs
    BY DEF OpPcs
  <2>2. QED
    BY <1>1, <2>1, OpTypes DEF ActivateCreate
<1>6. UNCHANGED <<sup, settle, proc, activity, pidRecord>>
  BY DEF ActivateCreate
<1>7. \A v \in Workers : InMap(v) => InMap(v)' /\ v # w
  <2> SUFFICES ASSUME NEW v \in Workers, InMap(v) PROVE InMap(v)' /\ v # w
    OBVIOUS
  <2>1. v # w /\ wk'[v] = wk[v]
    BY <1>2, <1>3
  <2>2. wk[v].slot \in Slots \ {op.slot}
    BY <1>1, NoneAssumption DEF InMap, TypeOK, WorkerObject
  <2>3. QED
    BY <1>4, <2>1, <2>2 DEF InMap
<1>8. \A l \in Launches : Running(l)'
        => /\ Running(l) /\ proc[l].owner \in Workers \ {w}
           /\ InMap(proc[l].owner)' /\ wk'[proc[l].owner] = wk[proc[l].owner]
  <2> SUFFICES ASSUME NEW l \in Launches, Running(l)'
               PROVE  /\ Running(l) /\ proc[l].owner \in Workers \ {w}
                      /\ InMap(proc[l].owner)' /\ wk'[proc[l].owner] = wk[proc[l].owner]
    OBVIOUS
  <2>1. Running(l) /\ proc'[l] = proc[l]
    BY <1>6 DEF Running
  <2>2. proc[l].owner \in Workers \ {w} /\ InMap(proc[l].owner)
    BY <1>1, <1>2, <2>1 DEF IInv, SupInv, Quiet, ProcInv, TypeOK, Process
  <2>3. wk'[proc[l].owner] = wk[proc[l].owner]
    BY <1>3, <2>2
  <2>4. InMap(proc[l].owner)'
    BY <1>6, <1>7, <2>1, <2>2 DEF InMap
  <2>5. QED
    BY <2>1, <2>2, <2>3, <2>4
<1>9. TypeOK'
  BY <1>1, <1>3, <1>4, <1>5, <1>6 DEF TypeOK
<1>10. MapInv'
  BY <1>1, <1>2, <1>3, <1>4, NoneAssumption DEF IInv, MapInv, TypeOK
<1>11. OwnInv'
  BY <1>3, <1>6 DEF IInv, OwnInv
<1>12. ProcInv'
  BY <1>6, <1>8 DEF IInv, ProcInv, SlotOf
<1>13. RowInv'
  <2> SUFFICES ASSUME NEW s \in Slots, ~activity[s].closed
               PROVE  /\ workers'[s] # None
                      /\ activity[s].run # None
                      /\ activity[s].run = wk'[workers'[s]].run
    BY <1>6 DEF RowInv
  <2>1. s # op.slot /\ workers[s] \in Workers \ {w}
    BY <1>1, <1>2 DEF IInv, RowInv, TypeOK
  <2>2. QED
    BY <1>3, <1>4, <2>1 DEF IInv, RowInv
<1>14. SupInv'
  BY <1>2, <1>3, <1>6, <1>7, <1>8 DEF IInv, SupInv
<1>15. SettleInv'
  BY <1>6 DEF IInv, SettleInv
<1>16. OpInv'
  BY <1>1, <1>2, <1>3, <1>4, <1>5, <1>6, NoneAssumption DEF IInv, OpInv
<1>17. ServedRunIsOpen'
  BY <1>6, <1>8 DEF IInv, ServedRunIsOpen
<1>18. QED
  BY <1>9, <1>10, <1>11, <1>12, <1>13, <1>14, <1>15, <1>16, <1>17 DEF IInv

LEMMA ActivateStartKeeps ==
  ASSUME IInv, NEW l \in Launches, ActivateStart(l)
  PROVE  IInv'
<1> DEFINE w == workers[op.slot]
<1>1. op.pc = "start" /\ TypeOK /\ op \in Operation /\ op.slot \in Slots /\ w \in Workers
      /\ wk[w].slot = op.slot /\ InMap(w) /\ sup[w].pc = "none"
  BY OpWorker, NoneAssumption DEF ActivateStart, IInv, OpInv
<1>2. /\ sup' \in [Workers -> Supervisor]
      /\ sup'[w].pc = "watch" /\ \A v \in Workers \ {w} : sup'[v] = sup[v]
  <2>1. "watch" \in SupPcs
    BY DEF SupPcs
  <2>2. sup[w] \in Supervisor /\ sup'[w] = [sup[w] EXCEPT !.pc = "watch"]
    BY <1>1 DEF ActivateStart, TypeOK
  <2>3. sup'[w] \in Supervisor /\ sup'[w].pc = "watch"
    BY <2>1, <2>2 DEF Supervisor
  <2>4. QED
    BY <1>1, <2>3 DEF ActivateStart, TypeOK
<1>3. settle' \in [Workers -> Settler] /\ SettleInv'
  <2>1. [pc |-> "wait", process |-> l] \in Settler
    BY DEF Settler, SettlePcs
  <2>2. QED
    BY <1>1, <2>1, NoneAssumption DEF ActivateStart, TypeOK, IInv, SettleInv
<1>4. op' \in Operation /\ op'.pc = "idle"
  BY <1>1, OpTypes DEF ActivateStart, OpDone, Idle
<1>5. workers' = workers
  BY DEF ActivateStart
<1>6. /\ wk' \in [Workers -> WorkerObject] /\ proc' \in [Launches -> Process]
      /\ activity' \in [Slots -> ActivityRow]
      /\ pidRecord' \in [Slots -> Launches \cup {None}]
      /\ MapInv' /\ OwnInv' /\ ProcInv' /\ RowInv' /\ SupInv' /\ ServedRunIsOpen'
  BY <1>1, <1>2, <1>5, StartSucceedsStep DEF ActivateStart
<1>7. TypeOK'
  BY <1>1, <1>2, <1>3, <1>4, <1>5, <1>6 DEF TypeOK
<1>8. OpInv'
  BY <1>1, <1>2, <1>4, <1>5 DEF IInv, OpInv, MapInv, TypeOK
<1>9. QED
  BY <1>3, <1>6, <1>7, <1>8 DEF IInv

-----------------------------------------------------------------------------
(* The theorems.                                                            *)

LEMMA InitEstablishes == Init => IInv
<1> SUFFICES ASSUME Init PROVE IInv
  OBVIOUS
<1>1. TypeOK
  BY RestartLimitAssumption DEF Init, Idle, TypeOK, Operation, WorkerObject, Supervisor, Settler,
     Process, ActivityRow, States, OpPcs, SupPcs, SettlePcs
<1>2. MapInv /\ OwnInv /\ ProcInv /\ RowInv
  BY DEF Init, MapInv, OwnInv, ProcInv, RowInv, Running
<1>3. SupInv /\ SettleInv /\ OpInv /\ ServedRunIsOpen
  BY DEF Init, Idle, SupInv, SettleInv, OpInv, ServedRunIsOpen, Running
<1>4. QED
  BY <1>1, <1>2, <1>3 DEF IInv

LEMMA NextKeeps == IInv /\ [Next]_vars => IInv'
<1> SUFFICES ASSUME IInv, [Next]_vars PROVE IInv'
  OBVIOUS
<1>1. CASE Call
  BY <1>1, CallKeeps
<1>2. CASE OpStep
  <2>1. CASE \E w \in Workers : ActivateCreate(w)
    BY <2>1, ActivateCreateKeeps
  <2>2. CASE \E l \in Launches : ActivateStart(l)
    BY <2>2, ActivateStartKeeps
  <2>3. QED
    BY <1>2, <2>1, <2>2, StopCancelKeeps, StopInterruptKeeps, StopDoneKeeps,
       StopTimeoutKeeps, ActivateRefusedKeeps, ActivateStartFailsKeeps,
       ActivateAbandonKeeps DEF OpStep
<1>3. CASE \E w \in Workers : Supervise(w) \/ Settle(w)
  BY <1>3, SuperviseKeeps, SettleKeeps
<1>4. CASE \E l \in Launches : ProcessStep(l)
  BY <1>4, ProcessKeeps
<1>5. CASE UNCHANGED vars
  BY <1>5 DEF vars, IInv, TypeOK, MapInv, OwnInv, ProcInv, RowInv, SupInv, SettleInv,
     OpInv, StopHoldsProcess, ServedRunIsOpen, InMap, Running, SlotOf
<1>6. QED
  BY <1>1, <1>2, <1>3, <1>4, <1>5 DEF Next

\* The invariant holds of every behaviour: the manager's bookkeeping (map, worker
\* objects, PID files, activity rows) and its goroutines never disagree.
THEOREM Inductive == Spec => []IInv
<1>1. QED
  BY InitEstablishes, NextKeeps, PTL DEF Spec

\* Every variable keeps the shape of the code's types.
THEOREM TypeCorrect == Spec => []TypeOK
<1>1. IInv => TypeOK
  BY DEF IInv
<1>2. QED
  BY <1>1, Inductive, PTL

\* No process escapes the manager: what runs is the present process of the
\* worker in the map, whatever stops, restarts and replacements came before.
THEOREM NoneEscapes == Spec => []Managed
<1>1. IInv => Managed
  BY DEF IInv, ProcInv, Managed
<1>2. QED
  BY <1>1, Inductive, PTL

\* A slot never has two processes: both would be the present process of the one
\* worker the map has for it.
THEOREM OneProcessPerSlot == Spec => []OneProcess
<1>1. ASSUME IInv, NEW k \in Launches, NEW l \in Launches,
             Running(k), Running(l), SlotOf(k) = SlotOf(l)
      PROVE  k = l
  <2>1. proc[k].owner = proc[l].owner
    BY <1>1 DEF IInv, ProcInv, InMap, SlotOf
  <2>2. QED
    BY <1>1, <2>1 DEF IInv, ProcInv
<1>2. IInv => OneProcess
  BY <1>1 DEF OneProcess
<1>3. QED
  BY <1>2, Inductive, PTL

\* Whatever runs is named by its slot's PID file, so the next daemon finds it.
THEOREM RunningIsRecorded == Spec => []RecordNamesProcess
<1>1. IInv => RecordNamesProcess
  BY DEF IInv, ProcInv, RecordNamesProcess
<1>2. QED
  BY <1>1, Inductive, PTL

\* The run of a served process is its slot's open run.
THEOREM ServedRunAccepted == Spec => []ServedRunIsOpen
<1>1. IInv => ServedRunIsOpen
  BY DEF IInv
<1>2. QED
  BY <1>1, Inductive, PTL

\* A slot without a worker accepts no callbacks.
THEOREM StoppedAcceptsNothing == Spec => []StoppedSlotIsClosed
<1>1. IInv => StoppedSlotIsClosed
  BY DEF IInv, RowInv, StoppedSlotIsClosed
<1>2. QED
  BY <1>1, Inductive, PTL

\* A stop signals the process the slot still has.
THEOREM StopSignalsPresentProcess == Spec => []StopHoldsProcess
<1>1. IInv => StopHoldsProcess
  BY DEF IInv, OpInv, StopHoldsProcess
<1>2. QED
  BY <1>1, Inductive, PTL

-----------------------------------------------------------------------------
(* The refinement of SlotLife: what each step does to a slot as SlotLife    *)
(* sees it.                                                                 *)

LifeStep == [Life!Next]_<<slotMode, slotRunning, slotOpen, pidRecord, usedRuns>>

\* Nobody cancels a worker.
NoneCancelled ==
  \A v \in Workers : wk'[v].slot = wk[v].slot /\ wk'[v].cancelled = wk[v].cancelled

LEMMA SetStateCancelsNone ==
  ASSUME TypeOK, NEW w \in Workers, NEW state, SetState(w, state)
  PROVE  NoneCancelled
<1>1. wk' = wk \/ wk' = [wk EXCEPT ![w].state = state]
  BY DEF SetState
<1>2. QED
  BY <1>1 DEF TypeOK, WorkerObject, NoneCancelled

LEMMA MarkRunningCancelsNone ==
  ASSUME TypeOK, NEW w \in Workers, NEW l, markRunning(w, l)
  PROVE  NoneCancelled
<1>1. wk' = wk \/ wk' = [wk EXCEPT ![w].state = "running"]
  BY DEF markRunning
<1>2. QED
  BY <1>1 DEF TypeOK, WorkerObject, NoneCancelled

LEMMA ModeKept ==
  ASSUME TypeOK, workers' = workers, NoneCancelled
  PROVE  slotMode' = slotMode
BY DEF TypeOK, NoneCancelled, slotMode

\* To cancel a worker is to leave its slot, unless it was left before or has gone
\* to another worker.
LEMMA CancelLeaves ==
  ASSUME TypeOK, MapInv, workers' = workers, NEW w \in Workers, wk'[w].cancelled,
         \A v \in Workers \ {w} : wk'[v].cancelled = wk[v].cancelled
  PROVE  \/ slotMode' = slotMode
         \/ \E s \in Slots : /\ slotMode[s] = "wanted"
                             /\ slotMode' = [slotMode EXCEPT ![s] = "leaving"]
<1>1. \A s \in Slots : workers[s] \in Workers \cup {None}
  BY DEF TypeOK
<1>2. CASE \E s \in Slots : workers[s] = w /\ ~wk[w].cancelled
  <2>1. PICK s \in Slots : workers[s] = w /\ ~wk[w].cancelled
    BY <1>2
  <2>2. slotMode[s] = "wanted" /\ slotMode'[s] = "leaving"
    BY <2>1, NoneAssumption DEF slotMode
  <2>3. ASSUME NEW r \in Slots \ {s}
        PROVE  slotMode'[r] = slotMode[r]
    <3>1. workers[r] # w
      BY <2>1, NoneAssumption DEF MapInv
    <3>2. QED
      BY <1>1, <3>1 DEF slotMode
  <2>4. slotMode' = [slotMode EXCEPT ![s] = "leaving"]
    <3>1. /\ slotMode = [r \in Slots |-> slotMode[r]]
          /\ slotMode' = [r \in Slots |-> slotMode'[r]]
      BY DEF slotMode
    <3>2. QED
      BY <2>2, <2>3, <3>1
  <2>5. QED
    BY <2>2, <2>4
<1>3. CASE ~\E s \in Slots : workers[s] = w /\ ~wk[w].cancelled
  <2>1. ASSUME NEW r \in Slots
        PROVE  slotMode'[r] = slotMode[r]
    BY <1>1, <1>3 DEF slotMode
  <2>2. slotMode' = slotMode
    BY <2>1 DEF slotMode
  <2>3. QED
    BY <2>2
<1>4. QED
  BY <1>2, <1>3

LEMMA RunningKept ==
  ASSUME IInv,
         \A l \in Launches : /\ Running(l)' <=> Running(l)
                             /\ proc'[l].owner = proc[l].owner,
         \A v \in Workers : wk'[v].slot = wk[v].slot
  PROVE  slotRunning' = slotRunning
<1>1. \A l \in Launches : Running(l) => proc[l].owner \in Workers
  BY DEF IInv, ProcInv, TypeOK, Process
<1>2. \A l \in Launches : Running(l) => SlotOf(l)' = SlotOf(l)
  BY <1>1 DEF SlotOf
<1>3. ASSUME NEW s \in Slots
      PROVE  {l \in Launches : Running(l)' /\ SlotOf(l)' = s}
               = {l \in Launches : Running(l) /\ SlotOf(l) = s}
  BY <1>2
<1>4. QED
  BY <1>3 DEF slotRunning

\* Whatever runs for a slot is the process of the worker the map has for it.
LEMMA RunsInItsSlot ==
  ASSUME IInv, NEW l \in Launches, Running(l)
  PROVE  /\ proc[l].owner \in Workers /\ SlotOf(l) \in Slots
         /\ workers[SlotOf(l)] = proc[l].owner
         /\ l \in slotRunning[SlotOf(l)]
         /\ \A k \in Launches : Running(k) /\ SlotOf(k) = SlotOf(l) => k = l
<1>1. proc[l].owner \in Workers /\ InMap(proc[l].owner)
  BY DEF IInv, ProcInv, TypeOK, Process
<1>2. SlotOf(l) \in Slots /\ workers[SlotOf(l)] = proc[l].owner
  BY <1>1 DEF IInv, TypeOK, WorkerObject, InMap, SlotOf
<1>3. l \in slotRunning[SlotOf(l)]
  BY <1>2 DEF slotRunning
<1>4. ASSUME NEW k \in Launches, Running(k), SlotOf(k) = SlotOf(l)
      PROVE  k = l
  <2>1. InMap(proc[k].owner) /\ wk[proc[k].owner].process = k
    BY <1>4 DEF IInv, ProcInv
  <2>2. proc[k].owner = proc[l].owner
    BY <1>2, <1>4, <2>1 DEF InMap, SlotOf
  <2>3. QED
    BY <2>1, <2>2 DEF IInv, ProcInv
<1>5. QED
  BY <1>1, <1>2, <1>3, <1>4

\* A process that ends or is killed was all that ran for its slot.
LEMMA DownEnds ==
  ASSUME IInv, ProcKept, wk' = wk, NEW l \in Launches,
         \A k \in Launches \ {l} : Running(k)' <=> Running(k)
  PROVE  \/ slotRunning' = slotRunning
         \/ \E s \in Slots : slotRunning' = [slotRunning EXCEPT ![s] = {}]
<1>1. \A k \in Launches : proc'[k].owner = proc[k].owner /\ SlotOf(k)' = SlotOf(k)
  BY DEF ProcKept, SlotOf
<1>2. CASE Running(l) /\ ~Running(l)'
  <2>1. /\ SlotOf(l) \in Slots
        /\ \A k \in Launches : Running(k) /\ SlotOf(k) = SlotOf(l) => k = l
    BY <1>2, RunsInItsSlot
  <2>2. {k \in Launches : Running(k)' /\ SlotOf(k)' = SlotOf(l)} = {}
    BY <1>1, <1>2, <2>1 DEF ProcKept
  <2>3. ASSUME NEW s \in Slots \ {SlotOf(l)}
        PROVE  {k \in Launches : Running(k)' /\ SlotOf(k)' = s}
                 = {k \in Launches : Running(k) /\ SlotOf(k) = s}
    BY <1>1
  <2>4. slotRunning' = [slotRunning EXCEPT ![SlotOf(l)] = {}]
    BY <2>1, <2>2, <2>3, <1>1 DEF slotRunning
  <2>5. QED
    BY <2>1, <2>4
<1>3. CASE ~(Running(l) /\ ~Running(l)')
  <2>1. \A k \in Launches : Running(k)' <=> Running(k)
    BY <1>3 DEF ProcKept
  <2>2. QED
    BY <1>1, <2>1, RunningKept
<1>4. QED
  BY <1>2, <1>3

\* Nothing runs for the slot of a worker whose supervisor is quiet.
LEMMA QuietSlot ==
  ASSUME IInv, NEW w \in Workers, InMap(w), sup[w].pc \in Quiet
  PROVE  wk[w].slot \in Slots /\ slotRunning[wk[w].slot] = {}
<1>1. wk[w].slot \in Slots /\ workers[wk[w].slot] = w
  BY DEF IInv, TypeOK, WorkerObject, InMap
<1>2. ASSUME NEW l \in Launches, Running(l), SlotOf(l) = wk[w].slot
      PROVE  FALSE
  <2>1. proc[l].owner = w
    BY <1>1, <1>2, RunsInItsSlot
  <2>2. QED
    BY <1>2, <2>1 DEF IInv, SupInv
<1>3. QED
  BY <1>1, <1>2 DEF slotRunning

LEMMA EndCloses ==
  ASSUME TypeOK, NEW w \in Workers, wk[w].slot \in Slots, EndWorkerActivity(w)
  PROVE  \/ slotOpen' = slotOpen
         \/ slotOpen' = [slotOpen EXCEPT ![wk[w].slot] = None]
<1>1. CASE activity' = activity
  BY <1>1 DEF slotOpen
<1>2. CASE activity' = [activity EXCEPT ![wk[w].slot].closed = TRUE]
  <2>1. /\ activity'[wk[w].slot].closed
        /\ \A s \in Slots \ {wk[w].slot} : activity'[s] = activity[s]
    BY <1>2 DEF TypeOK, ActivityRow
  <2>2. slotOpen' = [slotOpen EXCEPT ![wk[w].slot] = None]
    BY <2>1 DEF slotOpen
  <2>3. QED
    BY <2>2
<1>3. QED
  BY <1>1, <1>2 DEF EndWorkerActivity

LEMMA RemoveForgets ==
  ASSUME NEW w \in Workers, removeWorkerPID(w)
  PROVE  pidRecord' \in {pidRecord, [pidRecord EXCEPT ![wk[w].slot] = None]}
BY DEF removeWorkerPID

\* A step that starts nothing, ends nothing and cancels nobody.
LEMMA Unseen ==
  ASSUME IInv, NoneCancelled, UNCHANGED <<workers, proc>>
  PROVE  slotMode' = slotMode /\ slotRunning' = slotRunning /\ usedRuns' = usedRuns
<1>1. slotMode' = slotMode
  BY ModeKept DEF IInv
<1>2. slotRunning' = slotRunning
  BY RunningKept DEF Running, NoneCancelled
<1>3. usedRuns' = usedRuns
  BY DEF usedRuns
<1>4. QED
  BY <1>1, <1>2, <1>3

\* A step inside the manager is no step of the slot.
LEMMA Stutters ==
  ASSUME IInv, NoneCancelled, UNCHANGED <<workers, proc, activity, pidRecord>>
  PROVE  LifeStep
<1>1. slotOpen' = slotOpen
  BY DEF slotOpen
<1>2. QED
  BY <1>1, Unseen DEF LifeStep

LEMMA Closes ==
  ASSUME IInv, NoneCancelled, UNCHANGED <<workers, proc, pidRecord>>,
         NEW w \in Workers, wk[w].slot \in Slots, EndWorkerActivity(w)
  PROVE  LifeStep
<1>1. slotMode' = slotMode /\ slotRunning' = slotRunning /\ usedRuns' = usedRuns
  BY Unseen
<1>2. slotOpen' = slotOpen \/ slotOpen' = [slotOpen EXCEPT ![wk[w].slot] = None]
  BY EndCloses DEF IInv
<1>3. CASE slotOpen' = slotOpen
  BY <1>1, <1>3 DEF LifeStep
<1>4. CASE slotOpen' = [slotOpen EXCEPT ![wk[w].slot] = None]
  <2>1. Life!Close(wk[w].slot)
    BY <1>1, <1>4 DEF Life!Close
  <2>2. QED
    BY <2>1 DEF LifeStep, Life!Next
<1>5. QED
  BY <1>2, <1>3, <1>4

LEMMA Leaves ==
  ASSUME IInv, UNCHANGED <<workers, proc, activity, pidRecord>>,
         NEW w \in Workers, wk'[w].cancelled, WkKept,
         \A v \in Workers \ {w} : wk'[v].cancelled = wk[v].cancelled
  PROVE  LifeStep
<1>1. slotRunning' = slotRunning
  BY RunningKept DEF Running, WkKept
<1>2. usedRuns' = usedRuns /\ slotOpen' = slotOpen
  BY DEF usedRuns, slotOpen
<1>3. \/ slotMode' = slotMode
      \/ \E s \in Slots : /\ slotMode[s] = "wanted"
                          /\ slotMode' = [slotMode EXCEPT ![s] = "leaving"]
  BY CancelLeaves DEF IInv
<1>4. CASE slotMode' = slotMode
  BY <1>1, <1>2, <1>4 DEF LifeStep
<1>5. CASE \E s \in Slots : /\ slotMode[s] = "wanted"
                            /\ slotMode' = [slotMode EXCEPT ![s] = "leaving"]
  <2>1. \E s \in Slots : Life!Leave(s)
    BY <1>1, <1>2, <1>5 DEF Life!Leave
  <2>2. QED
    BY <2>1 DEF LifeStep, Life!Next
<1>6. QED
  BY <1>3, <1>4, <1>5

LEMMA Ends ==
  ASSUME IInv, ProcKept, UNCHANGED <<workers, wk, activity, pidRecord>>,
         NEW l \in Launches, proc[l].phase = "alive",
         \A k \in Launches \ {l} : proc'[k] = proc[k]
  PROVE  LifeStep
<1>1. slotMode' = slotMode /\ slotOpen' = slotOpen
  BY DEF slotMode, slotOpen
<1>2. usedRuns' = usedRuns
  <2>1. proc'[l].phase # "unused"
    BY DEF ProcKept
  <2>2. QED
    BY <2>1 DEF usedRuns
<1>3. \A k \in Launches \ {l} : Running(k)' <=> Running(k)
  BY DEF Running
<1>4. \/ slotRunning' = slotRunning
      \/ \E s \in Slots : slotRunning' = [slotRunning EXCEPT ![s] = {}]
  BY <1>3, DownEnds
<1>5. CASE slotRunning' = slotRunning
  BY <1>1, <1>2, <1>5 DEF LifeStep
<1>6. CASE \E s \in Slots : slotRunning' = [slotRunning EXCEPT ![s] = {}]
  <2>1. \E s \in Slots : Life!End(s)
    BY <1>1, <1>2, <1>6 DEF Life!End
  <2>2. QED
    BY <2>1 DEF LifeStep, Life!Next
<1>7. QED
  BY <1>4, <1>5, <1>6

LEMMA KillEnds ==
  ASSUME IInv, UNCHANGED <<workers, wk, activity, pidRecord>>,
         NEW l \in Launches, Kill(l)
  PROVE  LifeStep
<1>1. ProcKept /\ TypeOK
  BY KillKeeps DEF IInv
<1>2. CASE proc[l].phase = "alive"
  <2>1. \A k \in Launches \ {l} : proc'[k] = proc[k]
    BY <1>1, <1>2 DEF Kill, TypeOK
  <2>2. QED
    BY <1>1, <1>2, <2>1, Ends
<1>3. CASE proc[l].phase # "alive"
  <2>1. proc' = proc
    BY <1>3 DEF Kill
  <2>2. NoneCancelled
    BY DEF NoneCancelled
  <2>3. QED
    BY <2>1, <2>2, Stutters
<1>4. QED
  BY <1>2, <1>3


\* A worker that no Activate has taken has nobody to cancel it.
FreshInv ==
  \A w \in Workers :
    wk[w].slot = None => ~wk[w].cancelled /\ settle[w].pc = "none"

\* A step that writes at most the worker w, which has a slot.
Touches(w) ==
  /\ wk[w].slot # None
  /\ wk'[w].slot = wk[w].slot
  /\ \A v \in Workers \ {w} : wk'[v] = wk[v] /\ settle'[v] = settle[v]

LEMMA WritesTouch ==
  ASSUME TypeOK, NEW w \in Workers, wk[w].slot # None,
         \A v \in Workers \ {w} : settle'[v] = settle[v],
         \/ wk' = wk
         \/ \E state \in States : SetState(w, state)
         \/ \E l \in Launches : markRunning(w, l) \/ StartSucceeds(w, l)
         \/ wk' = Cancel(w)
         \/ wk' = [Cancel(w) EXCEPT ![w].state = "stopping"]
  PROVE  Touches(w)
<1>1. wk \in [Workers -> WorkerObject] /\ wk[w] \in WorkerObject
  BY DEF TypeOK
<1>2. CASE wk' = wk
  BY <1>2 DEF Touches
<1>3. CASE \E state \in States : SetState(w, state)
  BY <1>1, <1>3 DEF SetState, Touches, WorkerObject
<1>4. CASE \E l \in Launches : markRunning(w, l)
  BY <1>1, <1>4 DEF markRunning, Touches, WorkerObject
<1>5. CASE \E l \in Launches : StartSucceeds(w, l)
  <2>1. PICK l \in Launches :
          wk' = [wk EXCEPT ![w].run = l, ![w].process = l, ![w].state = "connecting"]
    BY <1>5 DEF StartSucceeds
  <2>2. wk'[w] = [wk[w] EXCEPT !.run = l, !.process = l, !.state = "connecting"]
        /\ \A v \in Workers \ {w} : wk'[v] = wk[v]
    BY <1>1, <2>1
  <2>3. wk'[w].slot = wk[w].slot
    BY <1>1, <2>2 DEF WorkerObject
  <2>4. QED
    BY <2>2, <2>3 DEF Touches
<1>6. CASE wk' = Cancel(w) \/ wk' = [Cancel(w) EXCEPT ![w].state = "stopping"]
  BY <1>1, <1>6 DEF Cancel, Touches, WorkerObject
<1>7. QED
  BY <1>2, <1>3, <1>4, <1>5, <1>6

LEMMA SuperviseTouches ==
  ASSUME IInv, NEW w \in Workers, Supervise(w)
  PROVE  Touches(w)
<1>1. TypeOK /\ sup[w].pc # "none" /\ sup[w].pc # "done" /\ settle' = settle
  BY DEF IInv, Supervise, SupWait, SupTriage, SupRefuse, SupRefuseCancel, SupStopped,
         SupRetry, SupBackoff, SupStart, SupStartFails, SupEndFailedStart, SupReady,
         SupServe, SupUnready, SupDrainTimeout, SupDrained
<1>2. InMap(w) /\ wk[w].slot # None /\ wk[w].process \in Launches
  BY <1>1 DEF IInv, SupInv, InMap, TypeOK, WorkerObject
<1>3. {"failed", "stopped", "restarting"} \subseteq States
  BY DEF States
<1>4. CASE SupStartFails(w)
  BY <1>1, <1>2, <1>4, StartFailsEffect DEF SupStartFails, StartFailed, Touches
<1>5. CASE SupStopped(w) \/ SupRetry(w) \/ SupRefuse(w)
  <2>1. wk' = wk \/ \E state \in States : SetState(w, state)
    BY <1>3, <1>5 DEF SupStopped, SupRetry, SupRefuse
  <2>2. QED
    BY <1>1, <1>2, <2>1, WritesTouch
<1>6. CASE SupServe(w) \/ \E l \in Launches : SupStart(w, l)
  <2>1. \E l \in Launches : markRunning(w, l) \/ StartSucceeds(w, l)
    BY <1>2, <1>6 DEF SupServe, SupStart
  <2>2. QED
    BY <1>1, <1>2, <2>1, WritesTouch
<1>7. CASE SupRefuseCancel(w)
  BY <1>1, <1>2, <1>7, WritesTouch DEF SupRefuseCancel
<1>8. CASE wk' = wk
  BY <1>1, <1>2, <1>8, WritesTouch
<1>9. QED
  BY <1>4, <1>5, <1>6, <1>7, <1>8
  DEF Supervise, SupWait, SupTriage, SupBackoff, SupEndFailedStart, SupReady, SupUnready,
      SupDrainTimeout, SupDrained

LEMMA SettleTouches ==
  ASSUME IInv, FreshInv, NEW w \in Workers, Settle(w)
  PROVE  Touches(w)
<1>1. TypeOK /\ settle[w].pc # "none" /\ settle[w].pc # "end"
  BY DEF IInv, Settle, SettleReady, SettleServe, SettleUnready, SettleFail, SettleCancel,
         SettleDown
<1>2. wk[w].slot # None /\ settle[w].process \in Launches
  BY <1>1 DEF FreshInv, IInv, SettleInv, TypeOK, Settler
<1>3. \A v \in Workers \ {w} : settle'[v] = settle[v]
  BY <1>1 DEF TypeOK, Settle, SettleReady, SettleServe, SettleUnready, SettleFail,
              SettleCancel, SettleDown, SettleTo, SettleReturn
<1>4. "failed" \in States
  BY DEF States
<1>5. \/ wk' = wk
      \/ \E state \in States : SetState(w, state)
      \/ \E l \in Launches : markRunning(w, l)
      \/ wk' = Cancel(w)
  BY <1>2, <1>4 DEF Settle, SettleReady, SettleServe, SettleUnready, SettleFail,
                    SettleCancel, SettleDown
<1>6. QED
  BY <1>1, <1>2, <1>3, <1>5, WritesTouch

LEMMA OpTouches ==
  ASSUME IInv, OpStep, ~\E w \in Workers : ActivateCreate(w)
  PROVE  UNCHANGED <<wk, settle>> \/ \E w \in Workers : Touches(w)
<1> DEFINE w == workers[op.slot]
<1>1. CASE StopInterrupt \/ StopDone \/ StopTimeout \/ ActivateRefused
  BY <1>1 DEF StopInterrupt, StopDone, StopTimeout, ActivateRefused
<1>2. CASE StopCancel \/ ActivateAbandon
  <2>1. TypeOK /\ w \in Workers /\ wk[w].slot # None
    BY <1>2, OpWorker, NoneAssumption DEF StopCancel, ActivateAbandon
  <2>2. QED
    BY <1>2, <2>1, WritesTouch DEF StopCancel, ActivateAbandon
<1>3. CASE ActivateStartFails
  <2>1. w \in Workers /\ InMap(w) /\ wk[w].slot # None /\ settle' = settle
    BY <1>3, OpWorker, NoneAssumption DEF ActivateStartFails
  <2>2. StartFailed(w)
    BY <1>3, <2>1, StartFailsEffect DEF ActivateStartFails
  <2>3. QED
    BY <2>1, <2>2 DEF StartFailed, Touches
<1>4. CASE \E l \in Launches : ActivateStart(l)
  <2>1. PICK l \in Launches : ActivateStart(l)
    BY <1>4
  <2>2. TypeOK /\ w \in Workers /\ wk[w].slot # None
    BY <2>1, OpWorker, NoneAssumption DEF ActivateStart
  <2>3. \A v \in Workers \ {w} : settle'[v] = settle[v]
    BY <2>1, <2>2 DEF ActivateStart, TypeOK
  <2>4. StartSucceeds(w, l)
    BY <2>1 DEF ActivateStart
  <2>5. QED
    BY <2>2, <2>3, <2>4, WritesTouch
<1>5. QED
  BY <1>1, <1>2, <1>3, <1>4 DEF OpStep

LEMMA FreshKept ==
  ASSUME IInv, FreshInv, [Next]_vars
  PROVE  FreshInv'
<1>1. CASE UNCHANGED <<wk, settle>>
  BY <1>1 DEF FreshInv
<1>2. CASE \E w \in Workers : Touches(w)
  BY <1>2 DEF FreshInv, Touches
<1>3. CASE \E w \in Workers : ActivateCreate(w)
  <2>1. PICK w \in Workers : ActivateCreate(w)
    BY <1>3
  <2>2. /\ wk' = [wk EXCEPT ![w].slot = op.slot] /\ op.slot # None /\ settle' = settle
        /\ wk \in [Workers -> WorkerObject]
    BY <2>1 DEF ActivateCreate, IInv, OpInv, TypeOK
  <2>3. wk'[w].slot = op.slot /\ \A v \in Workers \ {w} : wk'[v] = wk[v]
    BY <2>2 DEF WorkerObject
  <2>4. QED
    BY <2>2, <2>3 DEF FreshInv
<1>4. CASE Call \/ UNCHANGED vars \/ \E l \in Launches : ProcessStep(l)
  BY <1>1, <1>4 DEF Call, Activate, Deactivate, vars, ProcessStep, Register, Exit, Diagnose
<1>5. QED
  BY <1>1, <1>2, <1>3, <1>4, SuperviseTouches, SettleTouches, OpTouches DEF Next

LEMMA Begins ==
  ASSUME IInv, NEW w \in Workers, NEW l \in Launches, InMap(w), sup[w].pc \in Quiet,
         workers' = workers,
         StartSucceeds(w, l) \/ StartRunless(w, l) \/ StartUnrecorded(w, l)
  PROVE  LifeStep
<1> DEFINE s == wk[w].slot
<1>1. /\ TypeOK /\ wk \in [Workers -> WorkerObject] /\ proc \in [Launches -> Process]
      /\ s \in Slots /\ workers[s] = w /\ slotRunning[s] = {}
  BY QuietSlot DEF IInv, TypeOK, InMap
<1>2. /\ ~wk[w].cancelled /\ proc[l].phase = "unused" /\ BeginRun(w, l)
  BY DEF StartSucceeds, StartRunless, StartUnrecorded, MayLaunch
<1>3. NoneCancelled
  <2>1. /\ wk'[w].slot = wk[w].slot /\ wk'[w].cancelled = wk[w].cancelled
        /\ \A v \in Workers \ {w} : wk'[v] = wk[v]
    <3>1. wk[w] \in WorkerObject
      BY <1>1
    <3>2. CASE StartSucceeds(w, l)
      BY <1>1, <3>1, <3>2 DEF StartSucceeds, WorkerObject
    <3>3. CASE StartRunless(w, l)
      BY <1>1, <3>1, <3>3 DEF StartRunless, WorkerObject
    <3>4. CASE StartUnrecorded(w, l)
      BY <1>1, <3>1, <3>4 DEF StartUnrecorded, WorkerObject
    <3>5. QED
      BY <3>2, <3>3, <3>4
  <2>2. QED
    BY <2>1 DEF NoneCancelled
<1>4. slotMode[s] = "wanted" /\ slotMode' = slotMode
  BY <1>1, <1>2, <1>3, ModeKept, NoneAssumption DEF slotMode
<1>5. /\ \A k \in Launches \ {l} : proc'[k] = proc[k]
      /\ proc'[l].phase # "unused"
      /\ Running(l)' <=> StartSucceeds(w, l)
      /\ StartSucceeds(w, l) => proc'[l].owner = w
  BY <1>1, <1>2 DEF StartSucceeds, StartRunless, StartUnrecorded, NewProcess, Running, Process
<1>6. l \notin usedRuns /\ usedRuns' = usedRuns \cup {l}
  BY <1>2, <1>5 DEF usedRuns
<1>7. slotOpen' = [slotOpen EXCEPT ![s] = l]
  <2>1. activity' = [activity EXCEPT ![s] = [run |-> l, closed |-> FALSE]]
    BY <1>2 DEF BeginRun
  <2>2. activity'[s] = [run |-> l, closed |-> FALSE]
        /\ \A r \in Slots \ {s} : activity'[r] = activity[r]
    BY <1>1, <2>1 DEF TypeOK
  <2>3. slotOpen'[s] = l /\ \A r \in Slots \ {s} : slotOpen'[r] = slotOpen[r]
    BY <1>1, <2>2 DEF slotOpen
  <2>4. /\ slotOpen = [r \in Slots |-> slotOpen[r]]
        /\ slotOpen' = [r \in Slots |-> slotOpen'[r]]
    BY DEF slotOpen
  <2>5. QED
    BY <1>1, <2>3, <2>4
<1>8. \A k \in Launches \ {l} : /\ Running(k)' <=> Running(k)
                                /\ Running(k) => SlotOf(k)' = SlotOf(k)
  <2>1. \A k \in Launches : Running(k) => proc[k].owner \in Workers
    BY RunsInItsSlot
  <2>2. QED
    BY <1>3, <1>5, <2>1 DEF Running, SlotOf, NoneCancelled
<1>9. ~Running(l)
  BY <1>2 DEF Running
<1>10. CASE StartSucceeds(w, l)
  <2>1. Running(l)' /\ SlotOf(l)' = s
    BY <1>3, <1>5, <1>10 DEF SlotOf, NoneCancelled
  <2>2. {k \in Launches : Running(k)' /\ SlotOf(k)' = s} = {l}
    <3>1. \A k \in Launches : ~(Running(k) /\ SlotOf(k) = s)
      BY <1>1 DEF slotRunning
    <3>2. QED
      BY <1>8, <2>1, <3>1
  <2>3. ASSUME NEW r \in Slots \ {s}
        PROVE  {k \in Launches : Running(k)' /\ SlotOf(k)' = r}
                 = {k \in Launches : Running(k) /\ SlotOf(k) = r}
    BY <1>8, <1>9, <2>1
  <2>4. slotRunning' = [slotRunning EXCEPT ![s] = {l}]
    BY <1>1, <2>2, <2>3 DEF slotRunning
  <2>5. pidRecord' = [pidRecord EXCEPT ![s] = l]
    BY <1>10 DEF StartSucceeds
  <2>6. Life!Begin(s, l)
    BY <1>1, <1>4, <1>6, <1>7, <2>4, <2>5 DEF Life!Begin
  <2>7. QED
    BY <1>1, <2>6 DEF LifeStep, Life!Next
<1>11. CASE StartRunless(w, l) \/ StartUnrecorded(w, l)
  <2>1. ~Running(l)'
    BY <1>1, <1>2, <1>11 DEF StartRunless, StartUnrecorded, NewProcess, Running, Process
  <2>2. ASSUME NEW r \in Slots
        PROVE  {k \in Launches : Running(k)' /\ SlotOf(k)' = r}
                 = {k \in Launches : Running(k) /\ SlotOf(k) = r}
    BY <1>8, <1>9, <2>1
  <2>3. slotRunning' = slotRunning
    BY <2>2 DEF slotRunning
  <2>4. pidRecord' = pidRecord
    BY <1>11 DEF StartRunless, StartUnrecorded
  <2>5. Life!Begin(s, l)
    BY <1>1, <1>4, <1>6, <1>7, <2>3, <2>4 DEF Life!Begin
  <2>6. QED
    BY <1>1, <2>5 DEF LifeStep, Life!Next
<1>12. QED
  BY <1>10, <1>11

LEMMA FailedStartMaps ==
  ASSUME IInv, NEW w \in Workers, InMap(w), sup[w].pc \in Quiet,
         workers' = workers, StartFails(w)
  PROVE  LifeStep
<1>1. CASE StartEarlyFailure
  BY <1>1, Stutters DEF StartEarlyFailure, NoneCancelled
<1>2. CASE \E l \in Launches : StartRunless(w, l) \/ StartUnrecorded(w, l)
  BY <1>2, Begins
<1>3. QED
  BY <1>1, <1>2 DEF StartFails

LEMMA SuperviseMaps ==
  ASSUME IInv, NEW w \in Workers, Supervise(w)
  PROVE  LifeStep
<1>1. TypeOK /\ sup[w].pc # "none" /\ sup[w].pc # "done" /\ workers' = workers
  BY DEF IInv, Supervise, SupWait, SupTriage, SupRefuse, SupRefuseCancel, SupStopped,
         SupRetry, SupBackoff, SupStart, SupStartFails, SupEndFailedStart, SupReady,
         SupServe, SupUnready, SupDrainTimeout, SupDrained
<1>2. InMap(w) /\ wk[w].slot \in Slots /\ wk[w].process \in Launches
  BY <1>1 DEF IInv, SupInv, InMap, TypeOK, WorkerObject
<1>3. CASE SupWait(w) \/ SupEndFailedStart(w) \/ SupUnready(w)
  <2>1. NoneCancelled /\ EndWorkerActivity(w) /\ UNCHANGED <<proc, pidRecord>>
    BY <1>3 DEF SupWait, SupEndFailedStart, SupUnready, NoneCancelled
  <2>2. QED
    BY <1>1, <1>2, <2>1, Closes
<1>4. CASE SupTriage(w) \/ SupBackoff(w) \/ SupReady(w) \/ SupDrained(w)
  <2>1. NoneCancelled /\ UNCHANGED <<proc, activity, pidRecord>>
    BY <1>4 DEF SupTriage, SupBackoff, SupReady, SupDrained, NoneCancelled
  <2>2. QED
    BY <1>1, <2>1, Stutters
<1>5. CASE SupRefuse(w) \/ SupRetry(w) \/ SupServe(w)
  <2>1. /\ UNCHANGED <<proc, activity, pidRecord>>
        /\ (\E state : SetState(w, state)) \/ (\E l : markRunning(w, l))
    BY <1>5 DEF SupRefuse, SupRetry, SupServe
  <2>2. NoneCancelled
    BY <1>1, <2>1, SetStateCancelsNone, MarkRunningCancelsNone
  <2>3. QED
    BY <1>1, <2>1, <2>2, Stutters
<1>6. CASE SupRefuseCancel(w)
  <2>1. WkKept /\ wk'[w].cancelled
    BY <1>1, <1>6, CancelKeeps DEF SupRefuseCancel
  <2>2. \A v \in Workers \ {w} : wk'[v].cancelled = wk[v].cancelled
    BY <1>1, <1>6 DEF SupRefuseCancel, Cancel, TypeOK
  <2>3. QED
    BY <1>6, <2>1, <2>2, Leaves DEF SupRefuseCancel
<1>7. CASE SupStopped(w)
  <2>1. /\ removeWorkerPID(w) /\ UNCHANGED <<proc, activity>> /\ sup[w].pc = "stopped"
        /\ \E state : SetState(w, state)
    BY <1>2, <1>7 DEF SupStopped
  <2>2. NoneCancelled
    BY <1>1, <2>1, SetStateCancelsNone
  <2>3. slotMode' = slotMode /\ slotRunning' = slotRunning /\ usedRuns' = usedRuns
    BY <1>1, <2>1, <2>2, Unseen
  <2>4. slotOpen' = slotOpen
    BY <2>1 DEF slotOpen
  <2>5. slotRunning[wk[w].slot] = {}
    BY <1>2, <2>1, QuietSlot DEF Quiet
  <2>6. CASE pidRecord' = pidRecord
    BY <2>3, <2>4, <2>6 DEF LifeStep
  <2>7. CASE pidRecord' = [pidRecord EXCEPT ![wk[w].slot] = None]
    <3>1. Life!Forget(wk[w].slot)
      BY <2>3, <2>4, <2>5, <2>7 DEF Life!Forget
    <3>2. QED
      BY <1>2, <3>1 DEF LifeStep, Life!Next
  <2>8. QED
    BY <2>1, <2>6, <2>7, RemoveForgets
<1>8. CASE \E l \in Launches : SupStart(w, l)
  <2>1. PICK l \in Launches : SupStart(w, l)
    BY <1>8
  <2>2. StartSucceeds(w, l) /\ sup[w].pc \in Quiet
    BY <2>1 DEF SupStart, Quiet
  <2>3. QED
    BY <1>1, <1>2, <2>2, Begins
<1>9. CASE SupStartFails(w)
  <2>1. StartFails(w) /\ sup[w].pc \in Quiet
    BY <1>9 DEF SupStartFails, Quiet
  <2>2. QED
    BY <1>1, <1>2, <2>1, FailedStartMaps
<1>10. CASE SupDrainTimeout(w)
  BY <1>1, <1>2, <1>10, KillEnds DEF SupDrainTimeout
<1>11. QED
  BY <1>3, <1>4, <1>5, <1>6, <1>7, <1>8, <1>9, <1>10 DEF Supervise

LEMMA SettleMaps ==
  ASSUME IInv, NEW w \in Workers, Settle(w)
  PROVE  LifeStep
<1>1. TypeOK /\ workers' = workers /\ UNCHANGED <<activity, pidRecord>>
  BY DEF IInv, Settle, SettleReady, SettleServe, SettleUnready, SettleFail, SettleCancel,
         SettleDown
<1>2. CASE SettleReady(w) \/ SettleUnready(w)
  <2>1. NoneCancelled /\ proc' = proc
    BY <1>2 DEF SettleReady, SettleUnready, NoneCancelled
  <2>2. QED
    BY <1>1, <2>1, Stutters
<1>3. CASE SettleServe(w) \/ SettleFail(w)
  <2>1. /\ proc' = proc
        /\ (\E state : SetState(w, state)) \/ (\E l : markRunning(w, l))
    BY <1>3 DEF SettleServe, SettleFail
  <2>2. NoneCancelled
    BY <1>1, <2>1, SetStateCancelsNone, MarkRunningCancelsNone
  <2>3. QED
    BY <1>1, <2>1, <2>2, Stutters
<1>4. CASE SettleCancel(w)
  <2>1. WkKept /\ wk'[w].cancelled
    BY <1>1, <1>4, CancelKeeps DEF SettleCancel
  <2>2. \A v \in Workers \ {w} : wk'[v].cancelled = wk[v].cancelled
    BY <1>1, <1>4 DEF SettleCancel, Cancel, TypeOK
  <2>3. QED
    BY <1>4, <2>1, <2>2, Leaves DEF SettleCancel
<1>5. CASE SettleDown(w)
  <2>1. settle[w].process \in Launches /\ wk' = wk
    BY <1>1, <1>5 DEF SettleDown, IInv, SettleInv, TypeOK, Settler
  <2>2. CASE proc' = proc
    BY <1>1, <2>1, <2>2, Stutters DEF NoneCancelled
  <2>3. CASE Kill(settle[w].process)
    BY <1>1, <2>1, <2>3, KillEnds
  <2>4. QED
    BY <1>5, <2>2, <2>3 DEF SettleDown
<1>6. QED
  BY <1>2, <1>3, <1>4, <1>5 DEF Settle

LEMMA ProcessMaps ==
  ASSUME IInv, NEW l \in Launches, ProcessStep(l)
  PROVE  LifeStep
<1>1. /\ UNCHANGED <<workers, wk, activity, pidRecord>> /\ NoneCancelled
      /\ TypeOK /\ proc \in [Launches -> Process] /\ proc[l].phase = "alive"
  BY DEF ProcessStep, Register, Diagnose, Exit, NoneCancelled, IInv, TypeOK
<1>2. \A k \in Launches \ {l} : proc'[k] = proc[k]
  BY <1>1 DEF ProcessStep, Register, Diagnose, Exit
<1>3. ProcKept
  BY <1>1, ProcessKeepsProc
<1>4. QED
  BY <1>1, <1>2, <1>3, Ends

\* A slot given back: by clearStopped after its supervisor returned, or by the
\* Activate whose first start failed.
LEMMA Frees ==
  ASSUME IInv, NEW s \in Slots, workers[s] # None, slotRunning[s] = {},
         workers' = [workers EXCEPT ![s] = None],
         \A v \in Workers \ {workers[s]} : wk'[v] = wk[v],
         wk'[workers[s]].slot = wk[workers[s]].slot, proc' = proc,
         slotOpen' = [slotOpen EXCEPT ![s] = None],
         pidRecord' \in {pidRecord, [pidRecord EXCEPT ![s] = None]}
  PROVE  LifeStep
<1>1. workers \in [Slots -> Workers \cup {None}] /\ workers[s] \in Workers
  BY DEF IInv, TypeOK
<1>2. slotMode[s] # "free"
  BY DEF slotMode
<1>3. slotMode' = [slotMode EXCEPT ![s] = "free"]
  <2>1. slotMode'[s] = "free"
    BY <1>1 DEF slotMode
  <2>2. ASSUME NEW r \in Slots \ {s}
        PROVE  slotMode'[r] = slotMode[r]
    <3>1. workers'[r] = workers[r] /\ workers[r] \in Workers \cup {None}
      BY <1>1
    <3>2. workers[r] # workers[s]
      BY DEF IInv, MapInv
    <3>3. QED
      BY <3>1, <3>2 DEF slotMode
  <2>3. /\ slotMode = [r \in Slots |-> slotMode[r]]
        /\ slotMode' = [r \in Slots |-> slotMode'[r]]
    BY DEF slotMode
  <2>4. QED
    BY <2>1, <2>2, <2>3
<1>4. slotRunning' = slotRunning
  BY RunningKept DEF Running
<1>5. usedRuns' = usedRuns
  BY DEF usedRuns
<1>6. Life!Free(s)
  BY <1>2, <1>3, <1>4, <1>5 DEF Life!Free
<1>7. QED
  BY <1>6 DEF LifeStep, Life!Next

LEMMA StopDoneMaps ==
  ASSUME IInv, StopDone
  PROVE  LifeStep
<1> DEFINE w == workers[op.slot]
<1>1. /\ TypeOK /\ op.slot \in Slots /\ w \in Workers /\ wk[w].slot = op.slot /\ InMap(w)
      /\ sup[w].pc = "done" /\ activity[op.slot].closed
  BY OpWorker DEF StopDone, IInv, OpInv
<1>2. w # None /\ slotRunning[op.slot] = {}
  BY <1>1, QuietSlot, NoneAssumption DEF Quiet
<1>3. /\ workers' = [workers EXCEPT ![op.slot] = None]
      /\ wk' = wk /\ proc' = proc /\ activity' = activity
      /\ pidRecord' \in {pidRecord, [pidRecord EXCEPT ![op.slot] = None]}
  BY <1>1, RemoveForgets DEF StopDone
<1>4. slotOpen' = [slotOpen EXCEPT ![op.slot] = None]
  <2>1. slotOpen[op.slot] = None /\ slotOpen' = slotOpen
    BY <1>1, <1>3 DEF slotOpen
  <2>2. slotOpen = [r \in Slots |-> slotOpen[r]]
    BY DEF slotOpen
  <2>3. QED
    BY <1>1, <2>1, <2>2
<1>5. QED
  BY <1>1, <1>2, <1>3, <1>4, Frees

LEMMA AbandonMaps ==
  ASSUME IInv, ActivateAbandon
  PROVE  LifeStep
<1> DEFINE w == workers[op.slot]
<1>1. /\ TypeOK /\ op.slot \in Slots /\ w \in Workers /\ wk[w].slot = op.slot /\ InMap(w)
      /\ wk[w] \in WorkerObject /\ w # None
  BY OpWorker, NoneAssumption DEF ActivateAbandon
<1>2. sup[w].pc = "none" /\ RowInv
  BY <1>1 DEF ActivateAbandon, IInv, OpInv
<1>3. slotRunning[op.slot] = {}
  BY <1>1, <1>2, QuietSlot DEF Quiet
<1>4. /\ workers' = [workers EXCEPT ![op.slot] = None]
      /\ wk' = Cancel(w) /\ proc' = proc /\ pidRecord' = pidRecord /\ EndWorkerActivity(w)
  BY DEF ActivateAbandon
<1>5. wk'[w].slot = wk[w].slot /\ \A v \in Workers \ {w} : wk'[v] = wk[v]
  BY <1>1, <1>4 DEF Cancel, TypeOK, WorkerObject
\* The row is closed already, or is that of the run the failed start began.
<1>6. slotOpen' = [slotOpen EXCEPT ![op.slot] = None]
  <2>1. activity'[op.slot].closed
    BY <1>1, <1>2, <1>4 DEF EndWorkerActivity, RowInv, TypeOK, ActivityRow
  <2>2. slotOpen'[op.slot] = None
    BY <1>1, <2>1 DEF slotOpen
  <2>3. \A s \in Slots \ {op.slot} : slotOpen'[s] = slotOpen[s]
    BY <1>1, <1>4 DEF EndWorkerActivity, slotOpen, TypeOK
  <2>4. /\ slotOpen = [r \in Slots |-> slotOpen[r]]
        /\ slotOpen' = [r \in Slots |-> slotOpen'[r]]
    BY DEF slotOpen
  <2>5. QED
    BY <1>1, <2>2, <2>3, <2>4
<1>7. QED
  BY <1>1, <1>3, <1>4, <1>5, <1>6, Frees

LEMMA CreateMaps ==
  ASSUME IInv, FreshInv, NEW w \in Workers, ActivateCreate(w)
  PROVE  LifeStep
<1>1. /\ TypeOK /\ op.slot \in Slots /\ workers[op.slot] = None
      /\ wk[w].slot = None /\ ~wk[w].cancelled
      /\ workers' = [workers EXCEPT ![op.slot] = w]
      /\ wk' = [wk EXCEPT ![w].slot = op.slot]
      /\ proc' = proc /\ activity' = activity /\ pidRecord' = pidRecord
  BY DEF ActivateCreate, IInv, OpInv, TypeOK, Operation, FreshInv
<1>2. /\ ~wk'[w].cancelled
      /\ \A v \in Workers \ {w} : wk'[v] = wk[v]
  BY <1>1 DEF TypeOK, WorkerObject
<1>3. \A s \in Slots : workers[s] # w
  BY <1>1, NoneAssumption DEF IInv, MapInv
<1>4. slotMode[op.slot] = "free" /\ slotMode' = [slotMode EXCEPT ![op.slot] = "wanted"]
  <2>1. slotMode[op.slot] = "free" /\ slotMode'[op.slot] = "wanted"
    BY <1>1, <1>2, NoneAssumption DEF slotMode, TypeOK
  <2>2. ASSUME NEW r \in Slots \ {op.slot}
        PROVE  slotMode'[r] = slotMode[r]
    <3>1. workers'[r] = workers[r] /\ workers[r] \in (Workers \ {w}) \cup {None}
      BY <1>1, <1>3 DEF TypeOK
    <3>2. QED
      BY <1>2, <3>1 DEF slotMode
  <2>3. /\ slotMode = [r \in Slots |-> slotMode[r]]
        /\ slotMode' = [r \in Slots |-> slotMode'[r]]
    BY DEF slotMode
  <2>4. QED
    BY <2>1, <2>2, <2>3
<1>5. slotRunning' = slotRunning
  <2>1. \A l \in Launches : Running(l) => SlotOf(l)' = SlotOf(l)
    <3>1. ASSUME NEW l \in Launches, Running(l)
          PROVE  wk'[proc[l].owner] = wk[proc[l].owner]
      BY <1>2, <1>3, <3>1, RunsInItsSlot
    <3>2. QED
      BY <1>1, <3>1 DEF SlotOf
  <2>2. ASSUME NEW r \in Slots
        PROVE  {k \in Launches : Running(k)' /\ SlotOf(k)' = r}
                 = {k \in Launches : Running(k) /\ SlotOf(k) = r}
    BY <1>1, <2>1 DEF Running
  <2>3. QED
    BY <2>2 DEF slotRunning
<1>6. usedRuns' = usedRuns /\ slotOpen' = slotOpen
  BY <1>1 DEF usedRuns, slotOpen
<1>7. Life!Take(op.slot)
  BY <1>1, <1>4, <1>5, <1>6 DEF Life!Take
<1>8. QED
  BY <1>1, <1>7 DEF LifeStep, Life!Next

LEMMA OpMaps ==
  ASSUME IInv, FreshInv, OpStep
  PROVE  LifeStep
<1> DEFINE w == workers[op.slot]
<1>1. CASE StopCancel
  <2>1. TypeOK /\ w \in Workers /\ wk[w] \in WorkerObject
    BY <1>1, OpWorker DEF StopCancel
  <2>2. /\ wk'[w] = [wk[w] EXCEPT !.cancelled = TRUE, !.state = "stopping"]
        /\ \A v \in Workers \ {w} : wk'[v] = wk[v]
        /\ UNCHANGED <<workers, proc, activity, pidRecord>>
    BY <1>1, <2>1 DEF StopCancel, Cancel, TypeOK
  <2>3. /\ wk'[w].cancelled /\ wk'[w].slot = wk[w].slot /\ wk'[w].process = wk[w].process
        /\ wk'[w].run = wk[w].run
    BY <2>1, <2>2 DEF WorkerObject
  <2>4. WkKept
    <3>1. wk' \in [Workers -> WorkerObject]
      BY <1>1, StopCancelKeeps DEF IInv, TypeOK
    <3>2. QED
      BY <2>2, <2>3, <3>1 DEF WkKept
  <2>5. QED
    BY <2>1, <2>2, <2>3, <2>4, Leaves
<1>2. CASE StopInterrupt
  <2>1. w \in Workers /\ wk[w].slot \in Slots
    BY <1>2, OpWorker DEF StopInterrupt
  <2>2. NoneCancelled /\ EndWorkerActivity(w) /\ UNCHANGED <<workers, proc, pidRecord>>
    BY <1>2 DEF StopInterrupt, NoneCancelled
  <2>3. QED
    BY <2>1, <2>2, Closes
<1>3. CASE StopTimeout
  <2>1. UNCHANGED <<workers, wk, activity, pidRecord>> /\ NoneCancelled
    BY <1>3 DEF StopTimeout, NoneCancelled
  <2>2. CASE proc' = proc
    BY <2>1, <2>2, Stutters
  <2>3. CASE Kill(op.process)
    <3>1. op.process \in Launches
      <4>1. w \in Workers /\ sup[w].pc # "none" /\ op.process = wk[w].process
            /\ wk[w] \in WorkerObject
        BY <1>3, OpWorker, NoneAssumption DEF StopTimeout, IInv, OpInv, StopHoldsProcess
      <4>2. QED
        BY <4>1 DEF IInv, SupInv, WorkerObject
    <3>2. QED
      BY <2>1, <2>3, <3>1, KillEnds
  <2>4. QED
    BY <1>3, <2>2, <2>3 DEF StopTimeout
<1>4. CASE ActivateRefused
  BY <1>4, Stutters DEF ActivateRefused, NoneCancelled
<1>5. CASE ActivateStartFails
  <2>1. w \in Workers /\ InMap(w) /\ workers' = workers /\ StartFails(w)
    BY <1>5, OpWorker DEF ActivateStartFails
  <2>2. sup[w].pc \in Quiet
    BY <1>5, <2>1, OpWorker, NoneAssumption DEF ActivateStartFails, IInv, OpInv, Quiet
  <2>3. QED
    BY <2>1, <2>2, FailedStartMaps
<1>6. CASE \E l \in Launches : ActivateStart(l)
  <2>1. PICK l \in Launches : ActivateStart(l)
    BY <1>6
  <2>2. w \in Workers /\ InMap(w) /\ workers' = workers /\ StartSucceeds(w, l)
    BY <2>1, OpWorker DEF ActivateStart
  <2>3. sup[w].pc \in Quiet
    BY <2>1, <2>2, OpWorker, NoneAssumption DEF ActivateStart, IInv, OpInv, Quiet
  <2>4. QED
    BY <2>2, <2>3, Begins
<1>7. QED
  BY <1>1, <1>2, <1>3, <1>4, <1>5, <1>6, StopDoneMaps, AbandonMaps, CreateMaps DEF OpStep

LEMMA NextMaps == IInv /\ FreshInv /\ [Next]_vars => LifeStep
<1> SUFFICES ASSUME IInv, FreshInv, [Next]_vars PROVE LifeStep
  OBVIOUS
<1>1. CASE Call \/ UNCHANGED vars
  BY <1>1, Stutters DEF Call, Activate, Deactivate, vars, NoneCancelled
<1>2. QED
  BY <1>1, OpMaps, SuperviseMaps, SettleMaps, ProcessMaps DEF Next

LEMMA InitMaps == Init => Life!Init /\ FreshInv
<1> SUFFICES ASSUME Init PROVE Life!Init /\ FreshInv
  OBVIOUS
<1>1. slotMode = [s \in Slots |-> "free"]
  BY DEF Init, slotMode
<1>2. slotRunning = [s \in Slots |-> {}]
  <2>1. \A s \in Slots : {l \in Launches : Running(l) /\ SlotOf(l) = s} = {}
    BY DEF Init, Running
  <2>2. QED
    BY <2>1 DEF slotRunning
<1>3. slotOpen = [s \in Slots |-> None] /\ usedRuns = {}
  BY DEF Init, slotOpen, usedRuns
<1>4. FreshInv
  BY DEF Init, FreshInv
<1>5. QED
  BY <1>1, <1>2, <1>3, <1>4 DEF Init, Life!Init

\* The manager implements SlotLife: whatever its goroutines do between them, each
\* slot is taken, left and given back, and each run begins and ends, as SlotLife
\* allows.
THEOREM Implements == Spec => ImplementsSlotLife
<1>1. IInv /\ FreshInv /\ [Next]_vars
        => [Life!Next]_<<slotMode, slotRunning, slotOpen, pidRecord, usedRuns>>
  BY NextMaps DEF LifeStep
<1>2. IInv /\ FreshInv /\ [Next]_vars => FreshInv'
  BY FreshKept
<1>3. QED
  BY <1>1, <1>2, InitMaps, Inductive, PTL DEF Spec, ImplementsSlotLife, Life!Spec

-----------------------------------------------------------------------------
(* What follows for every step of the manager.                              *)

\* A process begins only for a slot that is wanted, and alone: from the moment a
\* stop has cancelled the worker until the slot is taken again, nothing starts.
BeginsOnlyWanted ==
  [][\A s \in Slots :
       ~(slotRunning'[s] \subseteq slotRunning[s])
         => slotMode[s] = "wanted" /\ slotRunning[s] = {}]_vars

\* A run that was closed, or replaced by a later one, is never open again: its
\* callbacks are refused for good.
RunsOpenOnce ==
  [][\A s \in Slots, l \in usedRuns : slotOpen[s] # l => slotOpen'[s] # l]_vars

\* The functions a step of SlotLife speaks of have one value for each slot.
LEMMA LifeFunctions ==
  /\ slotRunning = [s \in Slots |-> slotRunning[s]]
  /\ slotRunning' = [s \in Slots |-> slotRunning'[s]]
  /\ slotOpen = [s \in Slots |-> slotOpen[s]]
  /\ slotOpen' = [s \in Slots |-> slotOpen'[s]]
BY DEF slotRunning, slotOpen

\* No process is started behind a stop or beside another one.
THEOREM StartsOnlyWanted == Spec => BeginsOnlyWanted
<1>1. [Life!Next]_<<slotMode, slotRunning, slotOpen, pidRecord, usedRuns>>
        => \A s \in Slots : ~(slotRunning'[s] \subseteq slotRunning[s])
                              => slotMode[s] = "wanted" /\ slotRunning[s] = {}
  <2> SUFFICES ASSUME LifeStep, NEW s \in Slots,
                      ~(slotRunning'[s] \subseteq slotRunning[s])
               PROVE  slotMode[s] = "wanted" /\ slotRunning[s] = {}
    BY DEF LifeStep
  <2>1. PICK r \in Slots :
          \/ slotRunning' = [slotRunning EXCEPT ![r] = {}]
          \/ \E l \in Launches : Life!Begin(r, l)
    BY DEF LifeStep, Life!Next, Life!Take, Life!Close, Life!End, Life!Leave, Life!Forget,
           Life!Free
  <2>2. CASE slotRunning' = [slotRunning EXCEPT ![r] = {}]
    BY <2>2, LifeFunctions
  <2>3. CASE \E l \in Launches : Life!Begin(r, l)
    BY <2>3, LifeFunctions DEF Life!Begin
  <2>4. QED
    BY <2>1, <2>2, <2>3
<1>2. QED
  BY <1>1, Implements, PTL DEF ImplementsSlotLife, Life!Spec, BeginsOnlyWanted

\* The callbacks of a run that has ended are refused whatever runs follow it.
THEOREM ClosedForGood == Spec => RunsOpenOnce
<1>1. [Life!Next]_<<slotMode, slotRunning, slotOpen, pidRecord, usedRuns>>
        => \A s \in Slots, l \in usedRuns : slotOpen[s] # l => slotOpen'[s] # l
  <2> SUFFICES ASSUME LifeStep, NEW s \in Slots, NEW l \in usedRuns, slotOpen[s] # l
               PROVE  slotOpen'[s] # l
    BY DEF LifeStep
  <2>1. l # None
    BY NoneAssumption DEF usedRuns
  <2>2. \/ slotOpen' = slotOpen
        \/ \E r \in Slots : slotOpen' = [slotOpen EXCEPT ![r] = None]
        \/ \E r \in Slots, k \in Launches \ usedRuns : slotOpen' = [slotOpen EXCEPT ![r] = k]
    BY DEF LifeStep, Life!Next, Life!Take, Life!Close, Life!End, Life!Leave, Life!Forget,
           Life!Free, Life!Begin
  <2>3. QED
    BY <2>1, <2>2, LifeFunctions
<1>2. QED
  BY <1>1, Implements, PTL DEF ImplementsSlotLife, Life!Spec, RunsOpenOnce

=============================================================================
