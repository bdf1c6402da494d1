----------------------------- MODULE PartsProofs -----------------------------
(***************************************************************************)
(* Proofs about the smaller parts together: that what is proved of each    *)
(* part by itself holds where they are checked as one (MCParts); and       *)
(* proofs about the parts that have no module of proofs: account setup     *)
(* (Setup), the approver of computer use (Approval), and the console       *)
(* (Console).                                                              *)
(***************************************************************************)
EXTENDS MCParts, ConversationProofs, FilesProofs, RecoveryProofs, TLAPS

-----------------------------------------------------------------------------
(* Console: a key meets the process whose output the user saw. While the   *)
(* worker is of run r, r stands for one process: whatever carries r, page, *)
(* chunk or key, carries that process's output.                            *)

Worker == [run : 0..MaxRuns, process : 0..MaxRuns, alive : BOOLEAN, cancelled : BOOLEAN]

Page ==
  [at : {"open", "stopped"}, run : 0..MaxRuns, cursor : 0..MaxOutput,
   shows : SUBSET Processes, ready : BOOLEAN]

\* Runs are drawn in order, and a process has one.
RunInv ==
  /\ served.run <= runs /\ page.run <= runs /\ chunk.run <= runs /\ key.run <= runs
  /\ served.process # 0 => served.run # 0
  /\ chunk # NoChunk => chunk.run # 0
  /\ key # NoKey => key.run # 0
  /\ page.ready => page.run # 0
  /\ page.run = 0 => page.shows = {}

ScreenInv ==
  /\ chunk # NoChunk /\ chunk.run = served.run => chunk.process = served.process
  /\ page.run # 0 /\ page.run = served.run => page.shows = {served.process}
  /\ chunk # NoChunk /\ page.run = chunk.run => page.shows = {chunk.process}
  /\ key # NoKey /\ key.run = served.run => key.shown = {served.process}

ConsoleIInv == ConsoleTypeOK /\ RunInv /\ ScreenInv /\ KeysMeetTheirScreen

LEMMA ConsoleInitInv == ConsoleInit => ConsoleIInv
  <1> SUFFICES ASSUME ConsoleInit PROVE ConsoleIInv
    OBVIOUS
  <1> USE ConsoleAssumption
  <1>1. ConsoleTypeOK
    BY DEF ConsoleInit, ConsoleTypeOK, NoWorker, NewPage, NoChunk, NoKey, Processes
  <1>2. RunInv /\ ScreenInv /\ KeysMeetTheirScreen
    BY DEF ConsoleInit, RunInv, ScreenInv, KeysMeetTheirScreen, NoWorker, NewPage, NoChunk, NoKey
  <1> QED
    BY <1>1, <1>2 DEF ConsoleIInv

\* The worker's steps: a new run is nobody's yet.
LEMMA WorkerKeeps ==
  ASSUME ConsoleIInv, StartRun \/ ProcessWrites \/ ProcessExits \/ WorkerStops
  PROVE  ConsoleIInv'
  <1> USE ConsoleAssumption DEF ConsoleIInv, ConsoleTypeOK, Processes
  <1>1. CASE StartRun
    <2>1. runs' = runs + 1 /\ runs' \in 0..MaxRuns /\ UNCHANGED <<page, chunk, key, typed>>
      BY <1>1 DEF StartRun
    <2>2. served' \in Worker /\ output' \in 0..MaxOutput /\ served'.run = runs'
      <3>1. CASE served' = [served EXCEPT !.run = runs + 1] /\ UNCHANGED output
        BY <2>1, <3>1 DEF Worker
      <3>2. CASE /\ served' = [served EXCEPT !.run = runs + 1, !.process = runs + 1, !.alive = TRUE]
                 /\ output' = 0
        <4>1. served' \in Worker /\ served'.run = runs + 1
          BY <2>1, <3>2 DEF Worker
        <4> QED
          BY <2>1, <3>2, <4>1
      <3> QED
        BY <1>1, <3>1, <3>2 DEF StartRun
    <2>3. RunInv'
      BY <2>1, <2>2 DEF RunInv
    <2>4. ScreenInv' /\ KeysMeetTheirScreen'
      BY <2>1, <2>2 DEF RunInv, ScreenInv, KeysMeetTheirScreen
    <2>5. ConsoleTypeOK'
      BY <2>1, <2>2 DEF Worker
    <2> QED
      BY <2>3, <2>4, <2>5
  <1>2. CASE ProcessWrites
    BY <1>2 DEF ProcessWrites, RunInv, ScreenInv, KeysMeetTheirScreen
  <1>3. CASE ProcessExits
    <2>1. /\ served' = [served EXCEPT !.alive = FALSE]
          /\ UNCHANGED <<runs, output, page, chunk, key, typed>>
      BY <1>3 DEF ProcessExits
    <2> QED
      BY <2>1 DEF RunInv, ScreenInv, KeysMeetTheirScreen
  <1>4. CASE WorkerStops
    <2>1. served' \in {[served EXCEPT !.cancelled = TRUE], NoWorker} /\ UNCHANGED <<runs, output, page, chunk, key, typed>>
      BY <1>4 DEF WorkerStops
    <2>2. /\ served' \in Worker
          /\ \/ served'.run = served.run /\ served'.process = served.process
             \/ served'.run = 0 /\ served'.process = 0
      <3>1. CASE served' = [served EXCEPT !.cancelled = TRUE]
        BY <3>1 DEF Worker
      <3>2. CASE served' = NoWorker
        BY <3>2 DEF Worker, NoWorker
      <3> QED
        BY <2>1, <3>1, <3>2
    <2>3. ConsoleTypeOK' /\ RunInv'
      BY <2>1, <2>2 DEF Worker, RunInv
    <2>4. ScreenInv' /\ KeysMeetTheirScreen'
      BY <2>1, <2>2 DEF RunInv, ScreenInv, KeysMeetTheirScreen
    <2> QED
      BY <2>3, <2>4
  <1> QED
    BY <1>1, <1>2, <1>3, <1>4

\* Whatever stops the page leaves its run and screen.
LEMMA StoppedKeeps ==
  ASSUME ConsoleIInv, page' = PageStopped
  PROVE  page' \in Page /\ page'.run = page.run /\ page'.shows = page.shows /\ ~page'.ready
  BY DEF ConsoleIInv, ConsoleTypeOK, Page, PageStopped

LEMMA ReadTerminalKeeps ==
  ASSUME ConsoleIInv, ReadTerminal
  PROVE  ConsoleIInv'
  <1> USE ConsoleAssumption DEF ConsoleIInv, ConsoleTypeOK, Processes
  <1>1. chunk = NoChunk /\ UNCHANGED <<runs, served, output, key, typed>>
    BY DEF ReadTerminal
  <1>2. CASE Available
    <2> DEFINE start == ReadFrom(page.cursor)
               end == IF start < output THEN start + 1 ELSE start
    <2>1. /\ chunk' = [run |-> served.run, process |-> served.process, start |-> start,
                       end |-> end, total |-> output]
          /\ UNCHANGED page
      BY <1>2 DEF ReadTerminal
    <2>2. start \in 0..output /\ end \in 0..output
      BY DEF ReadFrom, Oldest
    <2>3. ConsoleTypeOK'
      BY <1>1, <2>1, <2>2
    <2>4. chunk'.run = served.run /\ chunk'.process = served.process /\ served.run # 0
      BY <1>2, <2>1 DEF Available, RunInv
    <2>5. RunInv'
      BY <1>1, <2>1, <2>4 DEF RunInv
    <2>6. ScreenInv' /\ KeysMeetTheirScreen'
      BY <1>1, <2>1, <2>4 DEF ScreenInv, KeysMeetTheirScreen
    <2> QED
      BY <2>3, <2>5, <2>6
  <1>3. CASE ~Available
    <2>1. page' = PageStopped /\ UNCHANGED chunk
      BY <1>3 DEF ReadTerminal
    <2>2. page' \in Page /\ page'.run = page.run /\ page'.shows = page.shows /\ ~page'.ready
      BY <2>1, StoppedKeeps
    <2> QED
      BY <1>1, <2>1, <2>2 DEF Page, RunInv, ScreenInv, KeysMeetTheirScreen
  <1> QED
    BY <1>2, <1>3

LEMMA ShowChunkKeeps ==
  ASSUME ConsoleIInv, ShowChunk
  PROVE  ConsoleIInv'
  <1> USE ConsoleAssumption DEF ConsoleIInv, ConsoleTypeOK, Processes
  <1>1. chunk # NoChunk /\ chunk' = NoChunk /\ UNCHANGED <<runs, served, output, key, typed>>
    BY DEF ShowChunk
  <1>2. NoChunk \in [run : 0..MaxRuns, process : 0..MaxRuns, start : 0..MaxOutput,
                     end : 0..MaxOutput, total : 0..MaxOutput] /\ NoChunk.run = 0
    BY DEF NoChunk
  <1>3. CASE page' = PageStopped
    <2>1. page' \in Page /\ page'.run = page.run /\ page'.shows = page.shows /\ ~page'.ready
      BY <1>3, StoppedKeeps
    <2> QED
      BY <1>1, <1>2, <2>1 DEF Page, RunInv, ScreenInv, KeysMeetTheirScreen
  <1>4. CASE page' # PageStopped
    <2> DEFINE shows == {chunk.process} \cup (IF chunk.start = page.cursor THEN page.shows ELSE {})
    <2>1. /\ page.run \in {0, chunk.run}
          /\ page' = [at |-> "open", run |-> chunk.run, cursor |-> chunk.end, shows |-> shows,
                      ready |-> chunk.end = chunk.total]
      BY <1>4 DEF ShowChunk
    <2>2. shows = {chunk.process}
      BY <1>1, <2>1 DEF RunInv, ScreenInv
    <2>3. page' \in Page /\ page'.run = chunk.run /\ page'.shows = {chunk.process} /\ chunk.run # 0
      BY <1>1, <2>1, <2>2 DEF Page, RunInv
    <2> QED
      BY <1>1, <1>2, <2>3 DEF Page, RunInv, ScreenInv, KeysMeetTheirScreen
  <1> QED
    BY <1>3, <1>4

LEMMA KeyKeeps ==
  ASSUME ConsoleIInv, SendKey \/ UpdateTerminal \/ Reopen
  PROVE  ConsoleIInv'
  <1> USE ConsoleAssumption DEF ConsoleIInv, ConsoleTypeOK, Processes
  <1>1. CASE SendKey
    BY <1>1 DEF SendKey, RunInv, ScreenInv, KeysMeetTheirScreen
  <1>2. CASE UpdateTerminal
    <2> DEFINE taken == Available /\ served.run = key.run /\ served.alive
    <2>1. /\ key # NoKey /\ key' = NoKey /\ UNCHANGED <<runs, served, output, chunk>>
          /\ typed' = IF taken THEN typed \cup {[process |-> served.process, shown |-> key.shown]} ELSE typed
          /\ page' \in {page, PageStopped}
      BY <1>2 DEF UpdateTerminal, Answer
    <2>2. page' \in Page /\ page'.run = page.run /\ page'.shows = page.shows /\ (page'.ready => page.ready)
      BY <2>1, StoppedKeeps DEF Page
    <2>3. taken => key.shown = {served.process}
      BY <2>1 DEF ScreenInv
    <2>4. NoKey \in [run : 0..MaxRuns, shown : SUBSET (0..MaxRuns), waited : BOOLEAN] /\ NoKey.run = 0
      BY DEF NoKey
    <2>5. /\ typed' \subseteq [process : 0..MaxRuns, shown : SUBSET (0..MaxRuns)]
          /\ \A k \in typed' : k.shown = {k.process}
      BY <2>1, <2>3 DEF KeysMeetTheirScreen
    <2> QED
      BY <2>1, <2>2, <2>4, <2>5 DEF Page, RunInv, ScreenInv, KeysMeetTheirScreen
  <1>3. CASE Reopen
    <2>1. /\ page' = NewPage /\ chunk' = NoChunk /\ UNCHANGED <<runs, served, output, typed>>
          /\ key' = NoKey \/ (key # NoKey /\ key' = [key EXCEPT !.waited = FALSE])
      BY <1>3 DEF Reopen
    <2>2. NewPage \in Page /\ NewPage.run = 0 /\ NewPage.shows = {} /\ ~NewPage.ready
      BY DEF NewPage, Page
    <2>3. NoChunk \in [run : 0..MaxRuns, process : 0..MaxRuns, start : 0..MaxOutput,
                       end : 0..MaxOutput, total : 0..MaxOutput] /\ NoChunk.run = 0
      BY DEF NoChunk
    <2>4. /\ key' \in [run : 0..MaxRuns, shown : SUBSET (0..MaxRuns), waited : BOOLEAN]
          /\ key'.run <= runs /\ (key' # NoKey => key # NoKey /\ key'.run = key.run /\ key'.shown = key.shown)
      <3>1. CASE key' = NoKey
        BY <3>1 DEF NoKey
      <3>2. CASE key # NoKey /\ key' = [key EXCEPT !.waited = FALSE]
        BY <3>2 DEF RunInv
      <3> QED
        BY <2>1, <3>1, <3>2
    <2> QED
      BY <2>1, <2>2, <2>3, <2>4 DEF Page, RunInv, ScreenInv, KeysMeetTheirScreen
  <1> QED
    BY <1>1, <1>2, <1>3

LEMMA ConsoleStepInv == ConsoleIInv /\ [ConsoleNext]_consoleVars => ConsoleIInv'
  <1> SUFFICES ASSUME ConsoleIInv, [ConsoleNext]_consoleVars PROVE ConsoleIInv'
    OBVIOUS
  <1>1. CASE UNCHANGED consoleVars
    BY <1>1 DEF consoleVars, ConsoleIInv, ConsoleTypeOK, RunInv, ScreenInv, KeysMeetTheirScreen
  <1>2. CASE StartRun \/ ProcessWrites \/ ProcessExits \/ WorkerStops
    BY <1>2, WorkerKeeps
  <1>3. CASE ReadTerminal \/ ShowChunk
    BY <1>3, ReadTerminalKeeps, ShowChunkKeeps
  <1>4. CASE SendKey \/ UpdateTerminal \/ Reopen
    BY <1>4, KeyKeeps
  <1> QED
    BY <1>1, <1>2, <1>3, <1>4 DEF ConsoleNext

\* A key reaches the process whose output was on the screen when it was pressed, and a
\* screen never mixes two processes, for any number of runs and any output, with chunks
\* and keys under way across restarts (UpdateTerminal, poll).
THEOREM KeysMeet == ConsoleSpec => []KeysMeetTheirScreen
<1>1. ConsoleIInv => KeysMeetTheirScreen
  BY DEF ConsoleIInv
<1> QED
  BY <1>1, ConsoleInitInv, ConsoleStepInv, PTL DEF ConsoleSpec

\* The page, the worker and what is under way between them keep their types.
THEOREM ConsoleTypeCorrect == ConsoleSpec => []ConsoleTypeOK
<1>1. ConsoleIInv => ConsoleTypeOK
  BY DEF ConsoleIInv
<1> QED
  BY <1>1, ConsoleInitInv, ConsoleStepInv, PTL DEF ConsoleSpec

-----------------------------------------------------------------------------
(* Account setup.                                                          *)

\* A job that has a verdict keeps it, whatever its helper, a ticker or the monitor
\* still has to say.
VerdictStands ==
  [][\A j \in Jobs : job[j].state \notin {"none", "pending"} => job'[j] = job[j]]_setupVars

LEMMA FinishKeeps ==
  ASSUME SetupTypeOK, NEW j \in Jobs, NEW a \in 0..MaxJobs,
         NEW state \in {"ready", "cancelled", "failed", "interrupted"}, Finish(j, state, a)
  PROVE  /\ job' \in [Jobs -> JobRow]
         /\ \A i \in Jobs : job[i].state \notin {"none", "pending"} => job'[i] = job[i]
<1>1. job \in [Jobs -> JobRow] /\ job[j] \in JobRow
  BY DEF SetupTypeOK
<1>2. CASE Pending(j)
  <2>1. \E b \in 0..MaxJobs : job' = [job EXCEPT ![j] = Decided(state, b)]
    BY <1>1, <1>2 DEF Finish, JobRow
  <2>2. \A b \in 0..MaxJobs : Decided(state, b) \in JobRow
    BY DEF Decided, JobRow
  <2>3. QED
    BY <1>1, <1>2, <2>1, <2>2 DEF Pending
<1>3. CASE ~Pending(j)
  BY <1>1, <1>3 DEF Finish
<1>4. QED
  BY <1>2, <1>3

LEMMA HelperMoves ==
  ASSUME SetupTypeOK, NEW j \in Jobs,
         \/ \E at \in {"insert", "verify", "login", "prepare", "add", "repair"} : Go(j, at)
         \/ Fails(j)
         \/ helper' = [helper EXCEPT ![j] = Gone]
         \/ helper' = [helper EXCEPT ![j].cancelled = TRUE]
         \/ helper' = [helper EXCEPT ![j].at = "finish", ![j].ok = TRUE]
         \/ \E a \in 0..MaxJobs : \/ helper' = [helper EXCEPT ![j].at = "launched", ![j].account = a]
                                  \/ helper' = [helper EXCEPT ![j].at = "login", ![j].account = a]
         \/ helper' = helper
  PROVE  helper' \in [Jobs -> Helper]
<1>1. helper \in [Jobs -> Helper] /\ helper[j] \in Helper /\ Gone \in Helper
  BY SetupAssumption DEF SetupTypeOK, Gone, Fresh, Helper
<1>2. \E h \in Helper : helper' = [helper EXCEPT ![j] = h]
  <2>1. CASE \E at \in {"insert", "verify", "login", "prepare", "add", "repair"} : Go(j, at)
    <3>1. PICK at \in {"insert", "verify", "login", "prepare", "add", "repair"} :
            helper' = [helper EXCEPT ![j].at = at]
      BY <2>1 DEF Go
    <3>2. [helper[j] EXCEPT !.at = at] \in Helper
      BY <1>1 DEF Helper
    <3>3. helper' = [helper EXCEPT ![j] = [helper[j] EXCEPT !.at = at]]
      BY <3>1
    <3>4. QED
      BY <3>2, <3>3
  <2>2. CASE Fails(j) \/ helper' = [helper EXCEPT ![j].at = "finish", ![j].ok = TRUE]
    <3>1. PICK ok \in BOOLEAN : helper' = [helper EXCEPT ![j].at = "finish", ![j].ok = ok]
      BY <2>2 DEF Fails
    <3>2. [helper[j] EXCEPT !.at = "finish", !.ok = ok] \in Helper
      BY <1>1 DEF Helper
    <3>3. helper' = [helper EXCEPT ![j] = [helper[j] EXCEPT !.at = "finish", !.ok = ok]]
      BY <3>1
    <3>4. QED
      BY <3>2, <3>3
  <2>3. CASE helper' = [helper EXCEPT ![j].cancelled = TRUE]
    <3>1. [helper[j] EXCEPT !.cancelled = TRUE] \in Helper
      BY <1>1 DEF Helper
    <3>2. QED
      BY <1>1, <2>3, <3>1
  <2>4. CASE \E a \in 0..MaxJobs :
               \/ helper' = [helper EXCEPT ![j].at = "launched", ![j].account = a]
               \/ helper' = [helper EXCEPT ![j].at = "login", ![j].account = a]
    <3>1. PICK a \in 0..MaxJobs, at \in {"launched", "login"} :
            helper' = [helper EXCEPT ![j].at = at, ![j].account = a]
      BY <2>4
    <3>2. [helper[j] EXCEPT !.at = at, !.account = a] \in Helper
      BY <1>1 DEF Helper
    <3>3. helper' = [helper EXCEPT ![j] = [helper[j] EXCEPT !.at = at, !.account = a]]
      BY <3>1
    <3>4. QED
      BY <3>2, <3>3
  <2>5. CASE helper' = [helper EXCEPT ![j] = Gone] \/ helper' = helper
    BY <1>1, <2>5
  <2>6. QED
    BY <2>1, <2>2, <2>3, <2>4, <2>5
<1>3. QED
  BY <1>1, <1>2

SetupKept ==
  /\ SetupTypeOK'
  /\ \A j \in Jobs : job[j].state \notin {"none", "pending"} => job'[j] = job[j]

LEMMA DaemonKeeps ==
  ASSUME SetupTypeOK,
         \/ InterruptStaleSetupJobs \/ DaemonDies \/ DaemonServes
         \/ \E a \in Jobs : RemoveAccount(a)
         \/ \E j \in Jobs :
              Launch(j) \/ Cancel(j) \/ TimePasses(j) \/ \E a \in 0..MaxJobs : CreateJob(j, a)
  PROVE  SetupKept
<1> USE DEF SetupKept, SetupTypeOK
<1>1. job \in [Jobs -> JobRow] /\ helper \in [Jobs -> Helper] /\ Gone \in Helper
  BY SetupAssumption DEF Gone, Fresh, Helper
<1>2. CASE InterruptStaleSetupJobs
  <2>1. \A j \in Jobs : Decided("interrupted", job[j].account) \in JobRow
    BY <1>1 DEF Decided, JobRow
  <2>2. job' \in [Jobs -> JobRow]
    BY <1>1, <1>2, <2>1 DEF InterruptStaleSetupJobs
  <2>3. QED
    BY <1>2, <2>2 DEF InterruptStaleSetupJobs, Pending
<1>3. CASE DaemonDies \/ DaemonServes
  BY <1>1, <1>3 DEF DaemonDies, DaemonServes
<1>4. CASE \E a \in Jobs : RemoveAccount(a)
  BY <1>4 DEF RemoveAccount, Status
<1>5. ASSUME NEW j \in Jobs, Launch(j)
      PROVE  SetupKept
  <2>1. UNCHANGED <<account, daemon>> /\ job[j].account \in 0..MaxJobs /\ job[j].state # "none"
    BY <1>1, <1>5 DEF Launch, JobRow
  <2>2. helper' \in [Jobs -> Helper]
    BY <1>5, <2>1, HelperMoves DEF Launch
  <2>3. job' = job \/ Finish(j, "failed", job[j].account)
    BY <1>5 DEF Launch
  <2>4. QED
    BY <2>1, <2>2, <2>3, FinishKeeps
<1>6. ASSUME NEW j \in Jobs, Cancel(j)
      PROVE  SetupKept
  <2>1. 0 \in 0..MaxJobs
    BY SetupAssumption
  <2>2. QED
    BY <1>6, <2>1, FinishKeeps DEF Cancel
<1>7. ASSUME NEW j \in Jobs, TimePasses(j)
      PROVE  SetupKept
  <2>1. [job[j] EXCEPT !.fresh = FALSE] \in JobRow /\ Pending(j)
        /\ job' = [job EXCEPT ![j] = [job[j] EXCEPT !.fresh = FALSE]]
        /\ UNCHANGED <<helper, account, daemon>>
    BY <1>1, <1>7 DEF TimePasses, JobRow
  <2>2. QED
    BY <1>1, <2>1 DEF Pending
<1>8. ASSUME NEW j \in Jobs, NEW a \in 0..MaxJobs, CreateJob(j, a)
      PROVE  SetupKept
  <2>1. [state |-> "pending", account |-> a, fresh |-> TRUE] \in JobRow
    BY DEF JobRow
  <2>2. QED
    BY <1>1, <1>8, <2>1 DEF CreateJob
<1>9. QED
  BY <1>2, <1>3, <1>4, <1>5, <1>6, <1>7, <1>8

LEMMA HelperKeeps ==
  ASSUME SetupTypeOK, NEW j \in Jobs,
         \/ HelperStarts(j) \/ Beat(j) \/ Aborts(j) \/ AccountGone(j) \/ Prepare(j)
         \/ HelperFinishes(j) \/ AddLooks(j) \/ AddInserts(j) \/ Login(j) \/ Verify(j)
         \/ Hangup(j) \/ HelperDies(j)
  PROVE  SetupKept
<1> USE DEF SetupKept, SetupTypeOK
<1>1. job \in [Jobs -> JobRow] /\ job[j] \in JobRow /\ helper[j] \in Helper
      /\ j \in 0..MaxJobs
  BY SetupAssumption DEF Jobs
\* A touch.
<1>2. ASSUME Pending(j), job' = [job EXCEPT ![j].fresh = TRUE]
      PROVE  /\ job' \in [Jobs -> JobRow]
             /\ \A i \in Jobs : job[i].state \notin {"none", "pending"} => job'[i] = job[i]
  <2>1. [job[j] EXCEPT !.fresh = TRUE] \in JobRow
        /\ job' = [job EXCEPT ![j] = [job[j] EXCEPT !.fresh = TRUE]]
    BY <1>1, <1>2 DEF JobRow
  <2>2. QED
    BY <1>1, <1>2, <2>1 DEF Pending
<1>3. CASE HelperStarts(j) \/ Beat(j)
  <2>1. helper' \in [Jobs -> Helper]
    BY <1>3, HelperMoves DEF HelperStarts, Beat
  <2>2. QED
    BY <1>2, <1>3, <2>1 DEF HelperStarts, Beat
<1>4. CASE Aborts(j) \/ AccountGone(j) \/ Prepare(j) \/ AddLooks(j) \/ Hangup(j) \/ HelperDies(j)
  <2>1. helper' \in [Jobs -> Helper]
    BY <1>4, HelperMoves DEF Aborts, AccountGone, Prepare, AddLooks, Hangup, HelperDies
  <2>2. UNCHANGED <<job, account, daemon>>
    BY <1>4 DEF Aborts, AccountGone, Prepare, AddLooks, Hangup, HelperDies
  <2>3. QED
    BY <2>1, <2>2
<1>5. CASE HelperFinishes(j)
  <2>1. helper' \in [Jobs -> Helper] /\ helper[j].account \in 0..MaxJobs
    BY <1>1, <1>5, HelperMoves DEF HelperFinishes, Helper
  <2>2. PICK state \in {"ready", "cancelled", "failed"} : Finish(j, state, helper[j].account)
    BY <1>5 DEF HelperFinishes
  <2>3. UNCHANGED <<account, daemon>>
    BY <1>5 DEF HelperFinishes
  <2>4. QED
    BY <2>1, <2>2, <2>3, FinishKeeps
<1>6. CASE AddInserts(j)
  <2>1. helper' \in [Jobs -> Helper]
    BY <1>1, <1>6, HelperMoves DEF AddInserts
  <2>2. QED
    BY <1>6, <2>1 DEF AddInserts, Status
<1>7. CASE Login(j) \/ Verify(j)
  <2>1. helper' \in [Jobs -> Helper]
    BY <1>7, HelperMoves DEF Login, Verify
  <2>2. /\ UNCHANGED <<job, daemon>>
        /\ \/ account' = account
           \/ \E status \in Status : account' = [account EXCEPT ![helper[j].account] = status]
    BY <1>7 DEF Login, Verify, Status
  <2>3. account' \in [Jobs -> Status]
    BY <2>2
  <2>4. QED
    BY <2>1, <2>2, <2>3
<1>8. QED
  BY <1>3, <1>4, <1>5, <1>6, <1>7

LEMMA SetupStep == SetupTypeOK /\ [SetupNext]_setupVars => SetupKept
<1>1. UNCHANGED setupVars /\ SetupTypeOK => SetupKept
  BY DEF setupVars, SetupKept, SetupTypeOK
<1>2. SetupTypeOK /\ SetupNext => SetupKept
  BY DaemonKeeps, HelperKeeps DEF SetupNext
<1>3. QED
  BY <1>1, <1>2

LEMMA SetupInitTypes == SetupInit => SetupTypeOK
BY SetupAssumption DEF SetupInit, SetupTypeOK, Fresh, JobRow, Helper, Status

\* The jobs, the helpers and the accounts keep their types.
THEOREM SetupTypeCorrect == SetupSpec => []SetupTypeOK
<1>1. SetupTypeOK /\ [SetupNext]_setupVars => SetupTypeOK'
  BY SetupStep DEF SetupKept
<1> QED
  BY <1>1, SetupInitTypes, PTL DEF SetupSpec

\* A cancelled, failed, finished or interrupted job stays that: a helper that finishes
\* later does not make it ready, and the monitor does not take a finished one back
\* (FinishSetupJob).
THEOREM VerdictsStand == SetupSpec => VerdictStands
<1>1. SetupTypeOK /\ [SetupNext]_setupVars
        => \A j \in Jobs : job[j].state \notin {"none", "pending"} => job'[j] = job[j]
  BY SetupStep DEF SetupKept
<1> QED
  BY <1>1, SetupTypeCorrect, PTL DEF SetupSpec, VerdictStands

-----------------------------------------------------------------------------
(* The approver of computer use.                                           *)

\* Of any pending calls one is the oldest: what the query for it relies on.
HasOldest(some) ==
  \A S \in SUBSET some : S # {} => \E c \in S : \A d \in S : c <= d

ApprovalIInv == ApprovalTypeOK /\ HasOldest(pending)

Candidate == [call : Numbers0, key : {"none", "enter", "down"}]
Approver ==
  [at : {"wait", "look"}, request : Numbers0, candidate : Candidate, settled : BOOLEAN,
   navigated : Numbers0, answered : Numbers0]
Dialog == [open : BOOLEAN, list : Lengths, option : Options]

LEMMA OldestOfMore ==
  ASSUME NEW some \in SUBSET Numbers0, HasOldest(some), NEW n \in Numbers0
  PROVE  HasOldest(some \cup {n})
<1> SUFFICES ASSUME NEW S \in SUBSET (some \cup {n}), S # {}
             PROVE  \E c \in S : \A d \in S : c <= d
  BY DEF HasOldest
<1>1. S \subseteq Nat
  BY ApprovalAssumption DEF Numbers0
<1>2. CASE S \ {n} = {}
  <2>1. n \in S /\ n \in Nat /\ \A d \in S : d = n
    BY <1>1, <1>2
  <2>2. \A d \in S : n <= d
    BY <2>1
  <2>3. QED
    BY <2>1, <2>2
<1>3. CASE S \ {n} # {}
  <2>1. PICK c \in S \ {n} : \A d \in S \ {n} : c <= d
    BY <1>3 DEF HasOldest
  <2>2. CASE n \in S /\ n < c
    BY <1>1, <2>1, <2>2
  <2>3. CASE ~(n \in S /\ n < c)
    BY <1>1, <2>1, <2>3
  <2>4. QED
    BY <2>2, <2>3
<1>4. QED
  BY <1>2, <1>3

LEMMA ClaudeKeeps ==
  ASSUME ApprovalIInv,
         CallComputerUse \/ OpenDialog \/ CallEnds \/ \E c \in Numbers0 : EndIsRecorded(c)
  PROVE  ApprovalIInv'
<1> USE DEF ApprovalIInv, ApprovalTypeOK
<1>1. CASE CallComputerUse
  <2>1. calls.made + 1 \in Numbers0
    BY <1>1, ApprovalAssumption DEF CallComputerUse, Numbers0
  <2>2. HasOldest(pending') /\ pending' \subseteq Numbers0
    BY <1>1, <2>1, OldestOfMore DEF CallComputerUse
  <2>3. QED
    BY <1>1, <2>1, <2>2 DEF CallComputerUse
<1>2. CASE OpenDialog
  BY <1>2 DEF OpenDialog
<1>3. CASE CallEnds
  <2>1. calls' \in [made : Numbers0, at : {"over", "called", "dialog"}]
    BY <1>3 DEF CallEnds
  <2>2. dialog' \in Dialog
    BY <1>3 DEF CallEnds, NoDialog, Lengths, Options, Dialog
  <2>3. UNCHANGED <<pending, tall, screen, approver, touched>>
    BY <1>3 DEF CallEnds
  <2>4. QED
    BY <2>1, <2>2, <2>3 DEF Dialog
<1>4. CASE \E c \in Numbers0 : EndIsRecorded(c)
  <2>1. pending' \subseteq pending /\ UNCHANGED <<calls, dialog, tall, screen, approver, touched>>
    BY <1>4 DEF EndIsRecorded
  <2>2. HasOldest(pending')
    BY <2>1 DEF HasOldest
  <2>3. QED
    BY <2>1, <2>2
<1>5. QED
  BY <1>1, <1>2, <1>3, <1>4

LEMMA PressKeeps ==
  ASSUME dialog \in Dialog, NEW k \in {"down", "enter"}, Press(k)
  PROVE  dialog' \in Dialog
BY DEF Press, Dialog, NoDialog, Lengths, Options

LEMMA ScreenKeeps ==
  ASSUME ApprovalIInv, Paint \/ UserPresses \/ Settle
  PROVE  ApprovalIInv'
<1> USE DEF ApprovalIInv, ApprovalTypeOK
<1>1. CASE Paint
  <2>1. View \in Shown
    BY DEF View, CutOff, Shown
  <2>2. QED
    BY <1>1, <2>1 DEF Paint
<1>2. CASE UserPresses
  <2>1. dialog' \in Dialog
    BY <1>2, PressKeeps DEF UserPresses, Dialog
  <2>2. QED
    BY <1>2, <2>1 DEF UserPresses, Dialog
<1>3. CASE Settle
  <2>1. approver \in Approver
    BY DEF Approver, Candidate
  <2>2. approver' \in Approver
    BY <1>3, <2>1 DEF Settle, Approver
  <2>3. QED
    BY <1>3, <2>2 DEF Settle, Approver, Candidate
<1>4. QED
  BY <1>1, <1>2, <1>3

LEMMA AskKeeps ==
  ASSUME ApprovalIInv, AskRequest
  PROVE  ApprovalIInv'
<1> USE DEF ApprovalIInv, ApprovalTypeOK
<1>1. approver \in Approver /\ NoCandidate \in Candidate
  BY ApprovalAssumption DEF Approver, Candidate, NoCandidate, Numbers0
<1>2. approver' \in Approver
  <2>1. CASE pending = {}
    BY <1>1, <2>1 DEF AskRequest, Approver
  <2>2. CASE pending # {}
    <3>1. \E c \in pending : \A d \in pending : c <= d
      BY <2>2 DEF HasOldest
    <3>2. (CHOOSE c \in pending : \A d \in pending : c <= d) \in Numbers0
      BY <3>1
    <3>3. QED
      BY <1>1, <2>2, <3>2 DEF AskRequest, Approver
  <2>3. QED
    BY <2>1, <2>2
<1>3. QED
  BY <1>2 DEF AskRequest, Approver, Candidate

LEMMA ApproveKeeps ==
  ASSUME ApprovalIInv, Approve
  PROVE  ApprovalIInv'
<1> USE DEF ApprovalIInv, ApprovalTypeOK
<1> DEFINE candidate == [call |-> approver.request, key |-> Key]
<1>1. approver \in Approver /\ NoCandidate \in Candidate
  BY ApprovalAssumption DEF Approver, Candidate, NoCandidate, Numbers0
<1>2. Key \in {"none", "enter", "down"}
  BY DEF Key
<1>3. candidate \in Candidate
  BY <1>1, <1>2 DEF Approver, Candidate
<1>4. approver' \in Approver
  <2>1. Looked \in Approver
    BY <1>1 DEF Looked, Approver
  <2>2. \A c \in Candidate : [Looked EXCEPT !.candidate = c, !.settled = FALSE] \in Approver
    BY <2>1 DEF Approver
  <2>3. \A a, n \in Numbers0 : [Looked EXCEPT !.answered = a, !.navigated = n] \in Approver
    BY <2>1 DEF Approver
  <2>4. CASE \/ approver' = [Looked EXCEPT !.candidate = NoCandidate, !.settled = FALSE]
             \/ approver' = [Looked EXCEPT !.candidate = candidate, !.settled = FALSE]
             \/ approver' = Looked
    BY <1>1, <1>3, <2>1, <2>2, <2>4
  <2>5. CASE approver' = [Looked EXCEPT
                            !.answered = IF Key = "enter" THEN approver.request ELSE @,
                            !.navigated = IF Key = "down" THEN approver.request ELSE @]
    BY <1>1, <2>1, <2>3, <2>5 DEF Approver
  <2>6. QED
    BY <2>4, <2>5 DEF Approve
<1>5. dialog' \in Dialog /\ tall' \in BOOLEAN
  BY <1>2, PressKeeps DEF Approve, Dialog
<1>6. UNCHANGED <<calls, pending, screen, touched>>
  BY DEF Approve
<1>7. QED
  BY <1>4, <1>5, <1>6 DEF Approver, Candidate, Dialog

LEMMA ApprovalStep == ApprovalIInv /\ [ApprovalNext]_approvalVars => ApprovalIInv'
<1>1. UNCHANGED approvalVars /\ ApprovalIInv => ApprovalIInv'
  BY DEF approvalVars, ApprovalIInv, ApprovalTypeOK
<1>2. ApprovalIInv /\ ApprovalNext => ApprovalIInv'
  BY ClaudeKeeps, ScreenKeeps, AskKeeps, ApproveKeeps DEF ApprovalNext
<1>3. QED
  BY <1>1, <1>2

LEMMA ApprovalInitIInv == ApprovalInit => ApprovalIInv
<1> SUFFICES ASSUME ApprovalInit PROVE ApprovalIInv
  OBVIOUS
<1>1. ApprovalTypeOK
  <2>1. 0 \in Numbers0
    BY ApprovalAssumption DEF Numbers0
  <2>2. NoDialog \in Dialog /\ NoCandidate \in Candidate
    BY <2>1 DEF NoDialog, Dialog, Lengths, Options, NoCandidate, Candidate
  <2>3. approver \in Approver
    BY <2>1, <2>2 DEF ApprovalInit, Approver
  <2>4. QED
    BY <2>1, <2>2, <2>3 DEF ApprovalInit, ApprovalTypeOK, Approver, Candidate, Dialog, Shown
<1>2. HasOldest(pending)
  BY DEF ApprovalInit, HasOldest
<1>3. QED
  BY <1>1, <1>2 DEF ApprovalIInv

\* The approver, the dialog and the store's pending calls keep their types: in
\* particular whenever a call is pending there is an oldest one to ask for.
THEOREM ApprovalTypeCorrect == ApprovalSpec => []ApprovalTypeOK
<1>1. ApprovalIInv => ApprovalTypeOK
  BY DEF ApprovalIInv
<1> QED
  BY <1>1, ApprovalInitIInv, ApprovalStep, PTL DEF ApprovalSpec

\* Whatever is asked for or being considered is of a call that was made; a dialog is of
\* the last one.
RequestInv ==
  /\ pending \subseteq 0..calls.made
  /\ approver.request <= calls.made /\ approver.candidate.call <= calls.made
  /\ dialog.open => calls.at = "dialog"

\* A candidate of the last call that has settled was on a screen no older than the
\* call: what shows of its dialog since then is what was selected in it, but for the
\* approver's own move.
ScreenSeenInv ==
  approver.settled /\ approver.candidate.call = calls.made =>
    /\ calls.at = "called" => screen = "none"
    /\ dialog.open /\ ~touched =>
         /\ screen = "allow" => dialog.option = "allow"
         /\ screen = "deny" => dialog.option = "deny" \/ approver.navigated = calls.made

SeenInv == ApprovalTypeOK /\ RequestInv /\ ScreenSeenInv

LEMMA ClaudeKeepsSeen ==
  ASSUME ApprovalIInv, SeenInv,
         CallComputerUse \/ OpenDialog \/ CallEnds \/ \E c \in Numbers0 : EndIsRecorded(c)
  PROVE  RequestInv' /\ ScreenSeenInv'
<1> USE DEF SeenInv, RequestInv, ScreenSeenInv
<1>1. calls.made \in Nat /\ approver.request \in Nat /\ approver.candidate.call \in Nat
  BY ApprovalAssumption DEF ApprovalTypeOK, Numbers0
<1>2. CASE CallComputerUse
  BY <1>1, <1>2 DEF CallComputerUse
<1>3. CASE OpenDialog
  <2>1. calls'.made = calls.made /\ calls'.at = "dialog" /\ touched' = FALSE
    BY <1>3 DEF OpenDialog, ApprovalTypeOK
  <2>2. calls.at = "called" /\ UNCHANGED <<pending, screen, approver>>
    BY <1>3 DEF OpenDialog
  <2>3. QED
    BY <2>1, <2>2
<1>4. CASE CallEnds
  <2>1. calls'.made = calls.made /\ calls'.at = "over" /\ ~dialog'.open
    BY <1>4 DEF CallEnds, NoDialog, Lengths, ApprovalTypeOK
  <2>2. QED
    BY <1>4, <2>1 DEF CallEnds
<1>5. CASE \E c \in Numbers0 : EndIsRecorded(c)
  BY <1>5 DEF EndIsRecorded
<1>6. QED
  BY <1>2, <1>3, <1>4, <1>5

LEMMA ScreenKeepsSeen ==
  ASSUME SeenInv, Paint \/ UserPresses \/ Settle
  PROVE  RequestInv' /\ ScreenSeenInv'
<1> USE DEF SeenInv, RequestInv, ScreenSeenInv
<1>1. calls.at = "called" => View = "none"
  BY DEF View, CutOff
<1>2. View = "allow" \/ View = "deny" => View = dialog.option
  BY DEF View, CutOff
<1>3. CASE Paint
  BY <1>1, <1>2, <1>3 DEF Paint
<1>4. CASE UserPresses
  <2>1. dialog.open /\ touched' = TRUE /\ UNCHANGED <<calls, pending, screen, approver>>
    BY <1>4 DEF UserPresses
  <2>2. QED
    BY <2>1
<1>5. CASE Settle
  <2>1. approver'.request = approver.request /\ approver'.candidate = approver.candidate
    BY <1>5 DEF Settle, ApprovalTypeOK
  <2>2. screen = View /\ UNCHANGED <<calls, pending, dialog, screen, touched>>
    BY <1>5 DEF Settle
  <2>3. QED
    BY <1>1, <1>2, <2>1, <2>2
<1>6. QED
  BY <1>3, <1>4, <1>5

LEMMA AskKeepsSeen ==
  ASSUME ApprovalIInv, SeenInv, AskRequest
  PROVE  RequestInv' /\ ScreenSeenInv'
<1> USE DEF SeenInv, RequestInv, ScreenSeenInv
<1>1. UNCHANGED <<calls, pending, dialog, screen, touched>>
  BY DEF AskRequest
<1>2. CASE pending = {}
  <2>1. approver'.request = approver.request /\ approver'.candidate = NoCandidate
          /\ ~approver'.settled
    BY <1>2 DEF AskRequest, ApprovalTypeOK
  <2>2. QED
    BY <1>1, <2>1, ApprovalAssumption DEF NoCandidate, ApprovalTypeOK, Numbers0
<1>3. CASE pending # {}
  <2>1. \E c \in pending : \A d \in pending : c <= d
    BY <1>3 DEF ApprovalIInv, HasOldest
  <2>2. (CHOOSE c \in pending : \A d \in pending : c <= d) \in 0..calls.made
    BY <2>1
  <2>3. /\ approver'.request \in 0..calls.made
        /\ approver'.candidate = approver.candidate /\ approver'.settled = approver.settled
        /\ approver'.navigated = approver.navigated
    BY <1>3, <2>2 DEF AskRequest, ApprovalTypeOK
  <2>4. QED
    BY <1>1, <2>3
<1>4. QED
  BY <1>2, <1>3

\* What a look at the screen does: it presses no key, and at most begins anew, or it
\* presses the key of a settled candidate that it has not pressed for the call.
LEMMA ApproveDoes ==
  ASSUME ApprovalTypeOK, Approve
  PROVE  /\ UNCHANGED <<calls, pending, screen, touched>>
         /\ approver'.request = approver.request
         /\ \/ /\ dialog' = dialog /\ approver'.navigated = approver.navigated
               /\ \/ ~approver'.settled /\ approver'.candidate.call \in {0, approver.request}
                  \/ /\ approver'.settled = approver.settled
                     /\ approver'.candidate = approver.candidate
            \/ /\ approver.settled /\ approver'.candidate = approver.candidate
               /\ approver.candidate.call = approver.request
               /\ \/ Key = "enter" /\ Press("enter")
                  \/ /\ Key = "down" /\ Press("down")
                     /\ approver.request # approver.navigated
                     /\ approver'.navigated = approver.request
<1>1. Looked = [approver EXCEPT !.at = "wait"]
  BY DEF Looked
<1>2. UNCHANGED <<calls, pending, screen, touched>>
  BY DEF Approve
<1>3. Key \in {"none", "enter", "down"}
  BY DEF Key
<1>4. approver'.request = approver.request
  BY <1>1 DEF Approve, ApprovalTypeOK
<1>5. CASE dialog' = dialog /\ approver' = [Looked EXCEPT !.candidate = NoCandidate, !.settled = FALSE]
  BY <1>1, <1>2, <1>4, <1>5 DEF ApprovalTypeOK, NoCandidate
<1>6. CASE /\ dialog' = dialog
           /\ approver' = [Looked EXCEPT !.candidate = [call |-> approver.request, key |-> Key],
                                         !.settled = FALSE]
  BY <1>1, <1>2, <1>4, <1>6 DEF ApprovalTypeOK
<1>7. CASE dialog' = dialog /\ approver' = Looked
  BY <1>1, <1>2, <1>4, <1>7 DEF ApprovalTypeOK
<1>8. CASE /\ Key # "none" /\ [call |-> approver.request, key |-> Key] = approver.candidate
           /\ approver.settled /\ ~HasDone(Key) /\ Press(Key)
           /\ approver' = [Looked EXCEPT
                             !.answered = IF Key = "enter" THEN approver.request ELSE @,
                             !.navigated = IF Key = "down" THEN approver.request ELSE @]
  <2>1. /\ approver'.candidate = approver.candidate
        /\ approver'.navigated = IF Key = "down" THEN approver.request ELSE approver.navigated
    BY <1>1, <1>8 DEF ApprovalTypeOK
  <2>2. approver.candidate.call = approver.request
    BY <1>8
  <2>3. Key = "down" => approver.request # approver.navigated
    BY <1>8 DEF HasDone
  <2>4. \/ Key = "enter" /\ Press("enter")
        \/ Key = "down" /\ Press("down")
    BY <1>3, <1>8
  <2>5. QED
    BY <1>2, <1>4, <1>8, <2>1, <2>2, <2>3, <2>4
<1>9. QED
  BY <1>5, <1>6, <1>7, <1>8 DEF Approve

\* What a key of the approver does to an untouched dialog of the call it acts for.
LEMMA PressesAllow ==
  ASSUME SeenInv, Approve, dialog' # dialog, ~touched, approver.request = calls.made
  PROVE  (IF dialog'.open THEN dialog' ELSE dialog).option = "allow"
<1> USE DEF SeenInv, RequestInv, ScreenSeenInv
<1>1. dialog.open
  BY ApproveDoes DEF Press
<1>2. CASE Key = "enter" /\ Press("enter")
  BY <1>1, <1>2, ApproveDoes DEF Key, Press, NoDialog
<1>3. CASE Key = "down" /\ Press("down") /\ approver.request # approver.navigated
  <2>1. dialog.option = "deny"
    BY <1>1, <1>3, ApproveDoes DEF Key
  <2>2. dialog' = [dialog EXCEPT !.option = "allow"]
    BY <1>1, <1>3, <2>1 DEF Press
  <2>3. QED
    BY <1>1, <2>2 DEF ApprovalTypeOK
<1>4. QED
  BY <1>2, <1>3, ApproveDoes

LEMMA ApproveKeepsSeen ==
  ASSUME SeenInv, Approve
  PROVE  RequestInv' /\ ScreenSeenInv'
<1> USE DEF SeenInv, RequestInv, ScreenSeenInv
<1>1. dialog'.open => dialog.open
  BY ApproveDoes DEF Press, NoDialog
<1>2. RequestInv'
  <2>1. approver'.candidate.call \in {0, approver.request, approver.candidate.call}
    BY ApproveDoes
  <2>2. calls.made \in Nat
    BY ApprovalAssumption DEF ApprovalTypeOK, Numbers0
  <2>3. QED
    <3>1. /\ calls' = calls /\ pending' = pending
          /\ approver'.request = approver.request
      BY ApproveDoes
    <3>2. approver'.candidate.call <= calls.made
      BY <2>1, <2>2
    <3>3. QED
      BY <1>1, <3>1, <3>2
<1>3. ScreenSeenInv'
  <2>1. CASE dialog' = dialog /\ approver'.navigated = approver.navigated
    BY <2>1, ApproveDoes
  <2>2. CASE Press("enter")
    BY <2>2, ApproveDoes DEF Press, NoDialog
  <2>3. CASE /\ Key = "down" /\ Press("down")
             /\ approver'.navigated = approver.request
             /\ approver.candidate.call = approver.request
             /\ approver'.candidate = approver.candidate
    <3>1. screen = "deny" /\ screen' = screen
      BY <2>3, ApproveDoes DEF Key
    <3>2. QED
      BY <1>1, <2>3, <3>1, ApproveDoes
  <2>4. QED
    BY <2>1, <2>2, <2>3, ApproveDoes
<1>4. QED
  BY <1>2, <1>3

LEMMA SeenStep ==
  ApprovalIInv /\ SeenInv /\ [ApprovalNext]_approvalVars => SeenInv'
<1> SUFFICES ASSUME ApprovalIInv, SeenInv, [ApprovalNext]_approvalVars PROVE SeenInv'
  OBVIOUS
<1>1. ApprovalTypeOK'
  BY ApprovalStep DEF ApprovalIInv
<1>2. CASE UNCHANGED approvalVars
  BY <1>1, <1>2 DEF approvalVars, SeenInv, RequestInv, ScreenSeenInv
<1>3. CASE ApprovalNext
  BY <1>1, <1>3, ClaudeKeepsSeen, ScreenKeepsSeen, AskKeepsSeen, ApproveKeepsSeen
  DEF ApprovalNext, SeenInv
<1>4. QED
  BY <1>2, <1>3

\* In a dialog no user has touched, the approver moves only to Allow and confirms only
\* Allow, for any number of calls, late screens and lost hooks, if the call it acts for
\* is that of the dialog.
THEOREM OnlyAllows == ApprovalSpec => AnswersAsSeen
<1>1. ApprovalInit => SeenInv
  <2> SUFFICES ASSUME ApprovalInit PROVE SeenInv
    OBVIOUS
  <2>1. ApprovalTypeOK
    BY ApprovalInitIInv DEF ApprovalIInv
  <2>2. QED
    BY <2>1 DEF ApprovalInit, SeenInv, RequestInv, ScreenSeenInv, NoDialog, NoCandidate
<1>2. SeenInv /\ [ApprovalNext]_approvalVars
        => [Approve /\ dialog' # dialog /\ ~touched /\ approver.request = calls.made
              => (IF dialog'.open THEN dialog' ELSE dialog).option = "allow"]_approvalVars
  BY PressesAllow
<1>3. QED
  BY <1>1, <1>2, ApprovalInitIInv, ApprovalStep, SeenStep, PTL
  DEF ApprovalSpec, AnswersAsSeen

-----------------------------------------------------------------------------
(* The parts together.                                                     *)

\* A step of the composition is one of the named part or leaves that part alone.
LEMMA PartsStep ==
  ASSUME [PartsNext]_partsVars
  PROVE  /\ [TurnsNext]_turnsVars
         /\ [SelectionNext]_selectionVars
         /\ [SetupNext]_setupVars
         /\ [RecoveryNext]_recoveryVars
         /\ [ContinuationNext]_continuationVars
         /\ [ProfileNext]_profileVars
         /\ [MemoryNext]_memoryVars
         /\ [RuntimeNext]_runtimeVars
         /\ [ConsoleNext]_consoleVars
         /\ [ApprovalNext]_approvalVars
BY DEF PartsNext, partsVars, Only

\* A behaviour of the composition is one of each part: what is proved of the parts by
\* themselves holds of what the run of MCParts checks.
THEOREM PartsAreParts ==
  PartsSpec => /\ TurnsSpec /\ SelectionSpec /\ SetupSpec /\ RecoverySpec
               /\ ContinuationSpec /\ ProfileSpec /\ MemorySpec /\ RuntimeSpec
               /\ ConsoleSpec /\ ApprovalSpec
<1>1. PartsInit => /\ TurnsInit /\ SelectionInit /\ SetupInit /\ RecoveryInit
                   /\ ContinuationInit /\ ProfileInit /\ MemoryInit /\ RuntimeInit
                   /\ ConsoleInit /\ ApprovalInit
  BY DEF PartsInit
<1>2. [PartsNext]_partsVars
        => /\ [TurnsNext]_turnsVars /\ [SelectionNext]_selectionVars
           /\ [SetupNext]_setupVars /\ [RecoveryNext]_recoveryVars
           /\ [ContinuationNext]_continuationVars /\ [ProfileNext]_profileVars
           /\ [MemoryNext]_memoryVars /\ [RuntimeNext]_runtimeVars
           /\ [ConsoleNext]_consoleVars /\ [ApprovalNext]_approvalVars
  BY PartsStep
<1> QED
  BY <1>1, <1>2, PTL
  DEF PartsSpec, TurnsSpec, SelectionSpec, SetupSpec, RecoverySpec, ContinuationSpec,
      ProfileSpec, MemorySpec, RuntimeSpec, ConsoleSpec, ApprovalSpec

\* Every part keeps its types, for every value of its constants.
THEOREM PartsTypeCorrect == PartsSpec => []PartsTypeOK
<1>1. RecoverySpec => []RecoveryTypeOK
  <2>1. RecoveryIInv => RecoveryTypeOK
    BY DEF RecoveryIInv
  <2> QED
    BY <2>1, RecoveryInitInv, RecoveryStepInv, PTL DEF RecoverySpec
<1>2. MemorySpec => []MemoryTypeOK
  <2>1. MemoryIInv => MemoryTypeOK
    BY DEF MemoryIInv
  <2> QED
    BY <2>1, MemoryInitInv, MemoryStepInv, PTL DEF MemorySpec
<1>3. RuntimeSpec => []RuntimeTypeOK
  <2>1. RuntimeIInv => RuntimeTypeOK
    BY DEF RuntimeIInv
  <2> QED
    BY <2>1, RuntimeInitInv, RuntimeStepInv, PTL DEF RuntimeSpec
<1>4. ASSUME TurnsTypeOK, SelectionTypeOK, SetupTypeOK, RecoveryTypeOK,
             ContinuationTypeOK, ProfileTypeOK, MemoryTypeOK, RuntimeTypeOK,
             ConsoleTypeOK, ApprovalTypeOK
      PROVE  PartsTypeOK
  BY <1>4 DEF PartsTypeOK
<1> QED
  BY <1>1, <1>2, <1>3, <1>4, PartsAreParts, TurnsTypeCorrect, SelectionTypeCorrect,
     SetupTypeCorrect, ContinuationTypeCorrect, ProfileTypeCorrect, ConsoleTypeCorrect,
     ApprovalTypeCorrect, PTL

\* What the run of the parts checks of their steps and states holds of the composition
\* for every value of the constants, liveness apart: turns and answers, the requested
\* model, recovery, checkpoints, files, keys and approvals.
THEOREM PartsCorrect ==
  PartsSpec => /\ []AnswersMatch /\ PromptsStay /\ InterruptionStands
               /\ ChoiceIsKept /\ VerdictStands
               /\ []OnlyRecordedAreSignalled /\ NoLaunchBesideRecorded
               /\ CheckpointArrives
               /\ []OwnContentSurvives /\ []OneCopyPerNote /\ NeededCopiesStay
               /\ []KeysMeetTheirScreen /\ AnswersAsSeen
BY PartsAreParts, AnswersBesideQuestions, PromptsKept, InterruptionsStand, ChoiceKept,
   VerdictsStand, OnlyWorkersSignalled, NothingRunsBeside, Arrival, OwnContentKept,
   OneCopyEach, NeededStay, KeysMeet, OnlyAllows, PTL

=============================================================================
