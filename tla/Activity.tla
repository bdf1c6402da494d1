------------------------------ MODULE Activity ------------------------------
(***************************************************************************)
(* The live activity of one session slot: which tools run and which        *)
(* confirmations wait (internal/store/activity.go, checkpoint/activity.go). *)
(*                                                                         *)
(* The daemon begins and ends a worker's run. Claude runs one hook process *)
(* per event, and each hook records its event in one immediate             *)
(* transaction. Hooks are not ordered among themselves: an event can be    *)
(* recorded late, after events that followed it, or never.                 *)
(*                                                                         *)
(* The tools are calls of one MCP server. Servers do not meet in the code  *)
(* (every query names the server), and a tool that is no MCP tool skips    *)
(* the correlation with confirmations.                                     *)
(***************************************************************************)
EXTENDS Naturals, FiniteSets

CONSTANTS
  Tools,          \* tool calls (tool_use_id)
  Conversations,  \* Claude session IDs
  MaxRuns,        \* bound: runs of the worker
  MaxSent,        \* bound: hooks at work at a time
  None            \* the empty string

ASSUME BoundsAssumption == MaxRuns \in Nat /\ MaxSent \in Nat
ASSUME NoneAssumption == None \notin Tools \cup Conversations
\* The ID the store makes up for a request is no call's.
ASSUME IdsAssumption == Tools \cap ({"server"} \X (Tools \cup {None})) = {}

VARIABLES
  row,     \* the slot's row of worker_activity_runs; run = 0 when there is none
  items,   \* the slot's rows of worker_activity_items
  resume,  \* remote_sessions.resume_session_id of the slot
  claude,  \* the process: its run, its conversation, and whether a turn goes on
  call,    \* what became of each tool call
  sent,    \* the events whose hook has not recorded them yet
  orderly  \* no hook has failed, and none has overtaken an earlier one of its call

vars == <<row, items, resume, claude, call, sent, orderly>>

Runs == 0..MaxRuns

RunRow == [run : Runs, session : Conversations \cup {None}, accepting : BOOLEAN,
           closed : BOOLEAN]

\* A confirmation's ID: that of its request, which is named after the call that
\* asked, or, when the server gave none, "server:name:" and the parent's ID.
Item == [kind : {"tool", "confirmation"}, id : Tools \cup ({"server"} \X (Tools \cup {None})),
         parent : Tools \cup {None}, anonymous : BOOLEAN, finished : BOOLEAN]

\* tool: of a request, who asked; the hook does not know it unless request = "named".
Event == [run : Runs, session : Conversations,
          event : {"start", "stop", "pre", "post", "ask", "answer"},
          tool : Tools \cup {None}, request : {"none", "named", "anonymous"}]

Init ==
  /\ row = [run |-> 0, session |-> None, accepting |-> FALSE, closed |-> TRUE]
  /\ items = {}
  /\ resume = None
  /\ claude = [run |-> 0, session |-> None, turn |-> FALSE]
  /\ call = [t \in Tools |-> [state |-> "idle", run |-> 0, session |-> None,
                              request |-> "none"]]
  /\ sent = {}
  /\ orderly = TRUE

-----------------------------------------------------------------------------
(* The daemon.                                                              *)

\* The row is replaced, and its items go with it (ON DELETE CASCADE); the new run
\* starts from the slot's conversation. The process of the run before is gone.
BeginWorkerActivity ==
  /\ row.run < MaxRuns
  /\ row' = [run |-> row.run + 1, session |-> resume, accepting |-> TRUE, closed |-> FALSE]
  /\ items' = {}
  /\ claude' = [run |-> row.run + 1, session |-> None, turn |-> FALSE]
  /\ call' = [t \in Tools |-> IF call[t].state \in {"running", "asking"}
                                THEN [call[t] EXCEPT !.state = "dropped"] ELSE call[t]]
  /\ UNCHANGED <<resume, sent, orderly>>

\* stopLocked and supervise; the process can outlive it.
EndWorkerActivity ==
  /\ row.run # 0
  /\ row' = [row EXCEPT !.closed = TRUE]
  /\ items' = {}
  /\ UNCHANGED <<resume, claude, call, sent, orderly>>

-----------------------------------------------------------------------------
(* RecordWorkerActivity: one event of a hook.                               *)

ToolRows(table) == {i \in table : i.kind = "tool"}
PendingTools(table) == {i \in ToolRows(table) : ~i.finished}

SameKey(i, j) == i.kind = j.kind /\ i.id = j.id

\* Mutant: ON CONFLICT DO UPDATE SET finished = excluded.finished.
UpsertOverwrites(table, new) ==
  IF \E i \in table : SameKey(i, new)
    THEN {IF SameKey(i, new) THEN [i EXCEPT !.finished = new.finished] ELSE i : i \in table}
    ELSE table \cup {new}

\* Mutant: a plain INSERT.
UpsertInserts(table, new) == table \cup {new}

\* INSERT ... ON CONFLICT DO UPDATE SET finished = MAX(finished, excluded.finished)
Upsert(table, new) ==
  IF \E i \in table : SameKey(i, new)
    THEN {IF SameKey(i, new) THEN [i EXCEPT !.finished = @ \/ new.finished] ELSE i : i \in table}
    ELSE table \cup {new}

\* UPDATE ... SET parent_tool_id = parent, of the requests among rows without one
Adopt(table, rows, parent) ==
  {IF i \in rows /\ i.kind = "confirmation" /\ i.parent = None
     THEN [i EXCEPT !.parent = parent] ELSE i : i \in table}

\* UPDATE ... SET finished = 1, of the requests of tool t
FinishRequests(table, t) ==
  {IF i.kind = "confirmation" /\ i.parent = t THEN [i EXCEPT !.finished = TRUE] ELSE i
     : i \in table}

\* Mutant: a tool does not look for requests that came before it.
RecordToolUnlinked(table, t, done) ==
  LET written == Upsert(table, [kind |-> "tool", id |-> t, parent |-> None,
                                anonymous |-> FALSE, finished |-> done])
  IN IF done THEN FinishRequests(written, t) ELSE written

\* A tool starts (done = FALSE) or has ended. A confirmation without a parent is
\* given the tool when only one is pending, or ends with the last one.
RecordTool(table, t, done) ==
  LET written == Upsert(table, [kind |-> "tool", id |-> t, parent |-> None,
                                anonymous |-> FALSE, finished |-> done])
      pending == PendingTools(written)
      answeredAnonymous == {i \in written : i.anonymous /\ i.finished}
      linked == IF (~done /\ Cardinality(pending) = 1) \/ (done /\ pending = {})
                  THEN Adopt(written, written, t)
                ELSE IF done /\ Cardinality(pending) = 1
                  THEN Adopt(written, answeredAnonymous, (CHOOSE i \in pending : TRUE).id)
                ELSE written
  IN IF done THEN FinishRequests(linked, t) ELSE linked

\* The request's tool: the only pending one; or, for a request without an ID when
\* none is pending, the last that started. Hooks take the time before they write,
\* so which one is last is open.
Parents(table, anonymous) ==
  LET pending == PendingTools(table) IN
  IF anonymous /\ pending = {} /\ ToolRows(table) # {} THEN {i.id : i \in ToolRows(table)}
  ELSE IF Cardinality(pending) = 1 THEN {i.id : i \in pending}
  ELSE {None}

\* The row of a request without an ID: one that waits, else one of the same parent.
Rows(table, parent) ==
  LET candidates == {i \in table : /\ i.kind = "confirmation" /\ i.anonymous
                                   /\ ~i.finished \/ i.parent = parent}
      waiting == {i \in candidates : ~i.finished}
  IN {i.id : i \in IF waiting # {} THEN waiting ELSE candidates}

\* The tables a request or its answer may leave behind.
RecordRequest(table, e) ==
  LET anonymous == e.request = "anonymous"
      done(parent) == e.event = "answer" \/ (parent # None /\ PendingTools(table) = {})
      Written(parent, id, linked) ==
        Upsert(linked, [kind |-> "confirmation", id |-> id, parent |-> parent,
                        anonymous |-> anonymous, finished |-> done(parent)])
  IN
  UNION {
    IF ~anonymous THEN {Written(parent, e.tool, table)}
    ELSE IF Rows(table, parent) = {} THEN {Written(parent, <<"server", parent>>, table)}
    ELSE {Written(parent, id, IF e.event = "answer" /\ parent # None
                                THEN Adopt(table, {i \in table : i.id = id}, parent)
                                ELSE table)
            : id \in Rows(table, parent)}
    : parent \in Parents(table, anonymous)}

\* The order in which a call sends its events.
Rank == [event \in {"pre", "ask", "answer", "post"} |->
           CASE event = "pre" -> 1 [] event = "ask" -> 2 [] event = "answer" -> 3 [] OTHER -> 4]

Overtakes(e) ==
  \E f \in sent : e.tool # None /\ f.tool = e.tool /\ Rank[f.event] < Rank[e.event]

\* Mutant: closed is not looked at.
AcceptedClosed(e) ==
  /\ e.run = row.run
  /\ row.session \in {None, e.session} \/ e.event = "start"
  /\ e.event \in {"pre", "ask"} => row.accepting

\* Mutant: the conversation is not compared.
AcceptedAnyConversation(e) ==
  /\ e.run = row.run /\ ~row.closed
  /\ e.event \in {"pre", "ask"} => row.accepting

\* Mutant: a turn that has ended goes on accepting.
AcceptedAfterStop(e) ==
  /\ e.run = row.run /\ ~row.closed
  /\ row.session \in {None, e.session} \/ e.event = "start"

\* An event counts when it is of the slot's open run, and of its conversation or
\* the start of another; a tool or request may only start while a turn goes on.
Accepted(e) ==
  /\ e.run = row.run /\ ~row.closed
  /\ row.session \in {None, e.session} \/ e.event = "start"
  /\ e.event \in {"pre", "ask"} => row.accepting

RecordWorkerActivity(e) ==
  LET kept == IF row.session \in {None, e.session} THEN items ELSE {} IN
  /\ e \in sent
  /\ sent' = sent \ {e}
  /\ orderly' = (orderly /\ ~Overtakes(e))
  /\ IF Accepted(e)
       THEN /\ row' = [row EXCEPT !.session = e.session,
                                  !.accepting = CASE e.event = "start" -> TRUE
                                                  [] e.event = "stop" -> FALSE
                                                  [] OTHER -> @]
            /\ resume' = IF e.event = "start" THEN e.session ELSE resume
            /\ items' \in CASE e.event = "start" -> {kept}
                            [] e.event = "stop" -> {{[i EXCEPT !.finished = TRUE] : i \in kept}}
                            [] e.event \in {"pre", "post"} ->
                                 {RecordTool(kept, e.tool, e.event = "post")}
                            [] OTHER -> RecordRequest(kept, e)
       ELSE UNCHANGED <<row, resume, items>>
  /\ UNCHANGED <<claude, call>>

\* The transaction fails, or Claude gives the hook up.
HookFails(e) ==
  /\ e \in sent
  /\ sent' = sent \ {e}
  /\ orderly' = FALSE
  /\ UNCHANGED <<row, items, resume, claude, call>>

-----------------------------------------------------------------------------
(* Claude, as far as its hooks tell.                                        *)

\* Claude waits for the hooks of a prompt and of the end of a turn. It waits for
\* those of tools too, but they time out, and calls go on in parallel.
Heard == \A e \in sent : e.run = claude.run => e.event \notin {"start", "stop"}

Send(event, t, request) ==
  /\ Cardinality(sent) < MaxSent
  /\ sent' = sent \cup {[run |-> claude.run, session |-> claude'.session, event |-> event,
                         tool |-> t, request |-> request]}

\* A prompt, or a conversation that is opened or cleared; calls of another
\* conversation are dropped without an event.
Start(c) ==
  /\ claude.run # 0 /\ Heard
  /\ claude' = [claude EXCEPT !.session = c, !.turn = TRUE]
  /\ call' = [t \in Tools |-> IF call[t].state \in {"running", "asking"} /\ call[t].session # c
                                THEN [call[t] EXCEPT !.state = "dropped"] ELSE call[t]]
  /\ Send("start", None, "none")
  /\ UNCHANGED <<row, items, resume, orderly>>

\* Stop, StopFailure, Interrupt or SessionEnd.
Stop ==
  /\ claude.turn /\ Heard
  /\ claude' = [claude EXCEPT !.turn = FALSE]
  /\ call' = [t \in Tools |-> IF call[t].state \in {"running", "asking"}
                                THEN [call[t] EXCEPT !.state = "dropped"] ELSE call[t]]
  /\ Send("stop", None, "none")
  /\ UNCHANGED <<row, items, resume, orderly>>

CallTool(t) ==
  /\ claude.turn /\ Heard
  /\ call[t].state = "idle"
  /\ call' = [call EXCEPT ![t] = [state |-> "running", run |-> claude.run,
                                  session |-> claude.session, request |-> "none"]]
  /\ UNCHANGED claude
  /\ Send("pre", t, "none")
  /\ UNCHANGED <<row, items, resume, orderly>>

\* The server asks the user, once per call, with an ID or without.
Elicit(t, request) ==
  /\ call[t].state = "running" /\ call[t].request = "none"
  /\ call' = [call EXCEPT ![t].state = "asking", ![t].request = request]
  /\ UNCHANGED claude
  /\ Send("ask", t, request)
  /\ UNCHANGED <<row, items, resume, orderly>>

Answer(t) ==
  /\ call[t].state = "asking"
  /\ call' = [call EXCEPT ![t].state = "running"]
  /\ UNCHANGED claude
  /\ Send("answer", t, call[t].request)
  /\ UNCHANGED <<row, items, resume, orderly>>

\* PostToolUse, PostToolUseFailure or PermissionDenied.
EndTool(t) ==
  /\ call[t].state \in {"running", "asking"}
  /\ call' = [call EXCEPT ![t].state = "ended"]
  /\ UNCHANGED claude
  /\ Send("post", t, "none")
  /\ UNCHANGED <<row, items, resume, orderly>>

Claude ==
  \/ \E c \in Conversations : Start(c)
  \/ Stop
  \/ \E t \in Tools : \/ CallTool(t) \/ Answer(t) \/ EndTool(t)
                      \/ \E request \in {"named", "anonymous"} : Elicit(t, request)

Next ==
  \/ BeginWorkerActivity \/ EndWorkerActivity
  \/ \E e \in sent : RecordWorkerActivity(e) \/ HookFails(e)
  \/ Claude

Spec == Init /\ [][Next]_vars

-----------------------------------------------------------------------------
(* Properties.                                                              *)

CallStates == {"idle", "running", "asking", "ended", "dropped"}

\* Types, and the primary key of worker_activity_items (migrations.go): an event
\* of a call or request already shown changes its row and adds none.
TypeOK ==
  /\ row \in RunRow
  /\ items \in SUBSET Item
  /\ \A i, j \in items : SameKey(i, j) => i = j
  /\ resume \in Conversations \cup {None}
  /\ claude \in [run : Runs, session : Conversations \cup {None}, turn : BOOLEAN]
  /\ call \in [Tools -> [state : CallStates, run : Runs,
                         session : Conversations \cup {None},
                         request : {"none", "named", "anonymous"}]]
  /\ sent \in SUBSET Event
  /\ orderly \in BOOLEAN

\* What is shown belongs to the open run of the slot and to the conversation the
\* run is in, however late the hooks of an earlier run or conversation record
\* ("callbacks from its old worker cannot restore it", README.md).
ShownIsOfThisRun ==
  \A i \in items :
    /\ ~row.closed
    /\ i.id \in Tools => call[i.id].run = row.run /\ call[i.id].session = row.session

\* Once the end of a turn is recorded nothing is shown as running or waiting until
\* the next turn, although hooks of the calls it cut off are still to come.
IdleShowsNothing == ~row.accepting => \A i \in items : i.finished

\* While a row stays, a call or request that has ended never runs again, whatever
\* the order in which its hooks record.
NoResurrection ==
  [][\A i \in items, j \in items' : SameKey(i, j) /\ i.finished => j.finished]_vars

\* The conversation the slot would resume is the one whose activity it shows, or
\* the slot has none yet: the two tables move together.
ResumeIsShown == row.closed \/ resume \in {row.session, None}

\* Once every call of the run and conversation shown has ended and every hook has
\* recorded, in the order of its own call, nothing is shown: each request has been
\* tied to a tool that ended it, with or without an ID, and however parallel calls
\* interleave.
Settled ==
  /\ orderly /\ sent = {} /\ ~row.closed
  /\ \A t \in Tools : call[t].run = row.run /\ call[t].session = row.session
                      => call[t].state = "ended"
  => \A i \in items : i.finished

=============================================================================
