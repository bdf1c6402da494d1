------------------------------ MODULE Console ------------------------------
(***************************************************************************)
(* The approval console of a slot: the bounded output of its worker, and   *)
(* the page that polls it and sends keys (claude/terminal.go,              *)
(* server/terminal.go, server/static/console.js).                          *)
(*                                                                         *)
(* Every start of the worker draws a run ID, also one that fails before it *)
(* has a process; until the next one the output of the process that ended  *)
(* is still served, under the new ID. The page learns the ID with its      *)
(* first chunk and sends it with each key. Chunks and keys are under way   *)
(* while the worker restarts. Output is counted in blocks of the size of a *)
(* chunk.                                                                  *)
(***************************************************************************)
EXTENDS Naturals

CONSTANTS
  MaxRuns,    \* bound: starts of the slot's worker
  MaxOutput,  \* bound: blocks a process writes
  Kept        \* blocks the buffer keeps

ASSUME ConsoleAssumption == MaxRuns \in Nat /\ MaxOutput \in Nat /\ Kept \in Nat \ {0}

VARIABLES
  runs,    \* run IDs drawn; a process is named after its own
  served,  \* the worker in the map: its run, its process (0: none), alive, cancelled
  output,  \* blocks its process has written
  page,    \* the page: run and cursor, the processes on its screen, ready for keys
  chunk,   \* the answer on its way to the page
  key,     \* the key on its way to the daemon: its page's run and screen
  typed    \* keys a process got: which, and what the page's screen showed (history)

consoleVars == <<runs, served, output, page, chunk, key, typed>>

NoWorker == [run |-> 0, process |-> 0, alive |-> FALSE, cancelled |-> FALSE]
NewPage == [at |-> "open", run |-> 0, cursor |-> 0, shows |-> {}, ready |-> FALSE]
NoChunk == [run |-> 0, process |-> 0, start |-> 0, end |-> 0, total |-> 0]
NoKey == [run |-> 0, shown |-> {}, waited |-> FALSE]
PageStopped == [page EXCEPT !.at = "stopped", !.ready = FALSE]

ConsoleInit ==
  /\ runs = 0 /\ served = NoWorker /\ output = 0
  /\ page = NewPage /\ chunk = NoChunk /\ key = NoKey /\ typed = {}

-----------------------------------------------------------------------------
(* The worker, as far as the console meets it.                             *)

\* Manager.start: a new run, and its process unless something fails before.
StartRun ==
  /\ ~served.alive /\ ~served.cancelled /\ runs < MaxRuns
  /\ runs' = runs + 1
  /\ \/ served' = [served EXCEPT !.run = runs + 1] /\ UNCHANGED output
     \/ /\ served' = [served EXCEPT !.run = runs + 1, !.process = runs + 1, !.alive = TRUE]
        /\ output' = 0
  /\ UNCHANGED <<page, chunk, key, typed>>

\* terminalBuffer.Write
ProcessWrites ==
  /\ served.alive /\ output < MaxOutput
  /\ output' = output + 1
  /\ UNCHANGED <<runs, served, page, chunk, key, typed>>

ProcessExits ==
  /\ served.alive
  /\ served' = [served EXCEPT !.alive = FALSE]
  /\ UNCHANGED <<runs, output, page, chunk, key, typed>>

\* The slot is being stopped, and then another worker takes its place in the map.
WorkerStops ==
  /\ served' = IF ~served.cancelled THEN [served EXCEPT !.cancelled = TRUE] ELSE NoWorker
  /\ served.cancelled => ~served.alive
  /\ UNCHANGED <<runs, output, page, chunk, key, typed>>

Available == served.process # 0 /\ ~served.cancelled

-----------------------------------------------------------------------------
(* The page.                                                               *)

Oldest == IF output > Kept THEN output - Kept ELSE 0

\* A cursor outside of what is kept starts over with the oldest block.
ReadFrom(cursor) == IF cursor < Oldest \/ cursor > output THEN Oldest ELSE cursor

\* ReadTerminal, under the manager's lock; an error stops the page.
ReadTerminal ==
  /\ page.at = "open" /\ chunk = NoChunk
  /\ IF Available
     THEN /\ LET start == ReadFrom(page.cursor) IN
               chunk' = [run |-> served.run, process |-> served.process, start |-> start,
                         end |-> IF start < output THEN start + 1 ELSE start, total |-> output]
          /\ UNCHANGED page
     ELSE page' = PageStopped /\ UNCHANGED chunk
  /\ UNCHANGED <<runs, served, output, key, typed>>

\* The chunk arrives: one of another run stops the page; one that does not follow on
\* clears the screen. The first is answered with the size of the screen, which the
\* daemon refuses when the run has changed since.
ShowChunk ==
  /\ page.at = "open" /\ chunk # NoChunk
  /\ chunk' = NoChunk
  /\ page' = IF \/ page.run \notin {0, chunk.run}
                \/ page.run = 0 /\ ~(Available /\ served.run = chunk.run)
             THEN PageStopped
             ELSE [at |-> "open", run |-> chunk.run, cursor |-> chunk.end,
                   shows |-> {chunk.process} \cup
                               (IF chunk.start = page.cursor THEN page.shows ELSE {}),
                   ready |-> chunk.end = chunk.total]
  /\ UNCHANGED <<runs, served, output, key, typed>>

\* The user presses a key; the page sends one at a time.
SendKey ==
  /\ page.at = "open" /\ page.ready /\ key = NoKey
  /\ key' = [run |-> page.run, shown |-> page.shows, waited |-> TRUE]
  /\ UNCHANGED <<runs, served, output, page, chunk, typed>>

\* The key is taken, or refused, which stops the page that waits for the answer.
Answer(taken) ==
  /\ key # NoKey
  /\ key' = NoKey
  /\ typed' = IF taken THEN typed \cup {[process |-> served.process, shown |-> key.shown]} ELSE typed
  /\ page' = IF ~taken /\ key.waited THEN PageStopped ELSE page
  /\ UNCHANGED <<runs, served, output, chunk>>

\* Mutant: the run the page names is not compared.
UpdateTerminalAnyRun == Answer(Available /\ served.alive)

\* The key reaches the process if the run is still the page's; a process that has ended
\* takes none.
UpdateTerminal == Answer(Available /\ served.run = key.run /\ served.alive)

\* The page is closed and opened again. Its requests are given up, but a key may still
\* arrive; what is answered nobody hears.
Reopen ==
  /\ page' = NewPage /\ chunk' = NoChunk
  /\ key' \in IF key = NoKey THEN {NoKey} ELSE {NoKey, [key EXCEPT !.waited = FALSE]}
  /\ UNCHANGED <<runs, served, output, typed>>

ConsoleNext ==
  \/ StartRun \/ ProcessWrites \/ ProcessExits \/ WorkerStops
  \/ ReadTerminal \/ ShowChunk \/ SendKey \/ UpdateTerminal \/ Reopen

ConsoleSpec == ConsoleInit /\ [][ConsoleNext]_consoleVars

-----------------------------------------------------------------------------
(* Properties.                                                             *)

Processes == 0..MaxRuns

ConsoleTypeOK ==
  /\ runs \in 0..MaxRuns
  /\ served \in [run : 0..MaxRuns, process : Processes, alive : BOOLEAN, cancelled : BOOLEAN]
  /\ output \in 0..MaxOutput
  /\ page \in [at : {"open", "stopped"}, run : 0..MaxRuns, cursor : 0..MaxOutput,
               shows : SUBSET Processes, ready : BOOLEAN]
  /\ chunk \in [run : 0..MaxRuns, process : Processes, start : 0..MaxOutput,
                end : 0..MaxOutput, total : 0..MaxOutput]
  /\ key \in [run : 0..MaxRuns, shown : SUBSET Processes, waited : BOOLEAN]
  /\ typed \subseteq [process : Processes, shown : SUBSET Processes]

\* A key goes to the process whose output the user had before him, and to no other that
\* was started meanwhile; and a page never mixes the output of two, although a start
\* that failed leaves the old output under a new run (terminal.go:105, console.js:68).
KeysMeetTheirScreen ==
  /\ \A k \in typed : k.shown = {k.process}
  /\ \A p, q \in page.shows : p = q

=============================================================================
