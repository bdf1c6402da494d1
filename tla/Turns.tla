------------------------------- MODULE Turns -------------------------------
(***************************************************************************)
(* The turns of one conversation, as hooks capture them (store.go          *)
(* RecordHookEvent, checkpoint/service.go) and the daemon interrupts them  *)
(* (server.go stopRemote).                                                 *)
(*                                                                         *)
(* Every event runs a hook process. It takes its time, captures the state  *)
(* of Git, and then records the event in one immediate transaction, so     *)
(* events may be recorded in another order than they happened, or never.   *)
(* Codex names the turn of an event. Claude does not: the store finds the  *)
(* turn that fits.                                                         *)
(***************************************************************************)
EXTENDS Naturals, FiniteSets

CONSTANTS
  MaxTurns,  \* bound: turns of the conversation
  MaxStops,  \* bound: stops of the worker, and deaths of the agent
  MaxHooks   \* bound: hooks at work when the agent goes on

ASSUME TurnsAssumption == MaxTurns \in Nat \ {0} /\ MaxStops \in Nat /\ MaxHooks \in Nat

VARIABLES
  provider,  \* who talks: it decides whether events name their turn
  agent,     \* the agent: the number of its last turn, and whether that goes on
  hooks,     \* the hook processes at work; at = 0 until a hook has taken its time
  turns,     \* the rows of turns; number 0 is an empty prompt or message
  chat,      \* the row of sessions: what the dashboard shows
  stopping,  \* the stop of the worker: "no", or what it read of the session
  now,       \* the clock: everything recorded has a time of its own
  stops,     \* how often the agent has been stopped or died
  orderly    \* no hook has failed, or was still at work when its agent was gone

turnsVars == <<provider, agent, hooks, turns, chat, stopping, now, stops, orderly>>

Numbers == 0..MaxTurns
Kinds == {"prompt", "stop", "complete", "interrupt", "failure"}
States == {"unknown", "prompted", "stopped", "completed", "interrupted"}

Hook == [kind : Kinds, turn : Numbers, at : Nat]
Turn == [native : Nat, prompt : Numbers, message : Numbers, state : States,
         created : Nat, updated : Nat]

TurnsInit ==
  /\ provider \in {"claude", "codex"}
  /\ agent = [turn |-> 0, busy |-> FALSE]
  /\ hooks = {}
  /\ turns = {}
  /\ chat = [present |-> FALSE, state |-> "unknown", prompt |-> 0, updated |-> 0]
  /\ stopping = "no"
  /\ now = 0
  /\ stops = 0
  /\ orderly = TRUE

-----------------------------------------------------------------------------
(* The agent. Claude waits for its prompt and stop hooks; Codex does not   *)
(* wait for its notifications. A stopped agent is not started again before *)
(* the stop is through: its operation holds Server.opMu.                   *)

Goes ==
  /\ stopping # "marking"
  /\ Cardinality(hooks) <= IF provider = "claude" THEN 0 ELSE MaxHooks

NewHook(kind) == [kind |-> kind, turn |-> agent'.turn, at |-> 0]

PromptSubmitted ==
  /\ Goes /\ ~agent.busy /\ agent.turn < MaxTurns
  /\ agent' = [turn |-> agent.turn + 1, busy |-> TRUE]
  /\ hooks' = hooks \cup {NewHook("prompt")}
  /\ UNCHANGED <<provider, turns, chat, stopping, now, stops, orderly>>

\* Claude runs Stop or StopFailure; Codex Interrupt, or Stop and its notification.
TurnEnds ==
  /\ Goes /\ agent.busy
  /\ agent' = [agent EXCEPT !.busy = FALSE]
  /\ \E kinds \in IF provider = "claude" THEN {{"stop"}, {"failure"}}
                                         ELSE {{"stop", "complete"}, {"interrupt"}} :
       hooks' = hooks \cup {NewHook(k) : k \in kinds}
  /\ UNCHANGED <<provider, turns, chat, stopping, now, stops, orderly>>

-----------------------------------------------------------------------------
(* The hooks.                                                              *)

\* prepareEvent: the time of the event, and the state of Git, which is not modelled.
PrepareEvent(h) ==
  /\ h.at = 0
  /\ now' = now + 1
  /\ hooks' = (hooks \ {h}) \cup {[h EXCEPT !.at = now + 1]}
  /\ UNCHANGED <<provider, agent, turns, chat, stopping, stops, orderly>>

StateForEvent(kind) ==
  CASE kind = "prompt" -> "prompted"
    [] kind = "stop" -> "stopped"
    [] kind = "complete" -> "completed"
    [] kind = "interrupt" -> "interrupted"
    [] kind = "failure" -> "unknown"

StateRank(state) ==
  CASE state \in {"completed", "interrupted"} -> 4
    [] state = "stopped" -> 3
    [] state = "prompted" -> 2
    [] state = "unknown" -> 1

Ended == {"completed", "interrupted"}

\* Mutant: the latest turn is the one that began last.
LatestCreated(rows) == CHOOSE t \in rows : \A u \in rows : u.created <= t.created

Latest(rows) == CHOOSE t \in rows : \A u \in rows : u.updated <= t.updated

\* Mutant: a prompt without a turn ID goes to the latest open turn as well.
FittingAny(h) == {t \in turns : t.state \notin Ended}

\* latestTurnMissingPromptID, latestOpenNativeTurnID
Fitting(h) ==
  IF h.kind = "prompt" THEN {t \in turns : t.prompt = 0}
                       ELSE {t \in turns : t.state \notin Ended}

\* Mutant: the turn an event names is not used.
NativeTurnIDGuessed(h) ==
  IF Fitting(h) = {} THEN Cardinality(turns) + 1 ELSE Latest(Fitting(h)).native

\* The turn an event belongs to: the one it names, or one that fits, or a new one.
NativeTurnID(h) ==
  IF provider = "codex" THEN h.turn
  ELSE IF Fitting(h) = {} THEN Cardinality(turns) + 1
  ELSE Latest(Fitting(h)).native

Outranks(h, t) ==
  LET new == StateRank(StateForEvent(h.kind)) IN
  \/ new > StateRank(t.state)
  \/ new = StateRank(t.state) /\ h.at > t.updated

HasPrompt(h) == h.kind \in {"prompt", "complete"}
HasMessage(h) == h.kind \in {"stop", "complete"}

Merge(t, h) ==
  [t EXCEPT
    !.prompt = IF HasPrompt(h) /\ (h.kind = "prompt" \/ @ = 0) THEN h.turn ELSE @,
    !.message = IF HasMessage(h) /\ (h.kind = "complete" \/ @ = 0) THEN h.turn ELSE @,
    !.state = IF h.kind = "failure" /\ @ \notin Ended THEN "unknown"
              ELSE IF Outranks(h, t) THEN StateForEvent(h.kind) ELSE @,
    !.created = IF h.at < @ THEN h.at ELSE @,
    !.updated = IF h.at > @ THEN h.at ELSE @]

NewTurn(native, h) ==
  [native |-> native, prompt |-> 0, message |-> 0, state |-> "unknown",
   created |-> h.at, updated |-> h.at]

\* The transaction: find or create the turn, merge the event into it, and let the
\* session follow its latest turn.
RecordHookEvent(h) ==
  /\ h.at # 0
  /\ LET native == NativeTurnID(h)
         same == {t \in turns : t.native = native}
         turn == IF same = {} THEN NewTurn(native, h) ELSE CHOOSE t \in same : TRUE
         latest == Latest(turns')
     IN /\ turns' = (turns \ same) \cup {Merge(turn, h)}
        /\ chat' = [present |-> TRUE, state |-> latest.state, prompt |-> latest.prompt,
                    updated |-> latest.updated]
  /\ hooks' = hooks \ {h}
  /\ UNCHANGED <<provider, agent, stopping, now, stops, orderly>>

\* A hook is killed after three seconds, or cannot write.
EventLost(h) ==
  /\ hooks' = hooks \ {h}
  /\ orderly' = FALSE
  /\ UNCHANGED <<provider, agent, turns, chat, stopping, now, stops>>

-----------------------------------------------------------------------------
(* The daemon stops the worker, or the agent dies and is started again.    *)

\* activePromptedSessions, before the worker is stopped; Codex is nobody's worker
StopBegins ==
  /\ provider = "claude" /\ stopping = "no" /\ stops < MaxStops
  /\ stopping' = IF chat.present /\ chat.state = "prompted" THEN "mark" ELSE "none"
  /\ UNCHANGED <<provider, agent, hooks, turns, chat, now, stops, orderly>>

AgentGone ==
  /\ stops < MaxStops
  /\ stops' = stops + 1
  /\ agent' = [agent EXCEPT !.busy = FALSE]
  /\ orderly' = (orderly /\ hooks = {})
  /\ stopping' = CASE stopping = "mark" -> "marking" [] OTHER -> "no"
  /\ UNCHANGED <<provider, hooks, turns, chat, now>>

\* InterruptSession: the session and its latest turn, whatever state they are in.
InterruptSession ==
  /\ stopping = "marking"
  /\ stopping' = "no"
  /\ now' = now + 1
  /\ chat' = [chat EXCEPT !.state = "interrupted", !.updated = now + 1]
  /\ LET latest == Latest(turns)
     IN turns' = (turns \ {latest})
                   \cup {[latest EXCEPT !.state = "interrupted", !.updated = now + 1]}
  /\ UNCHANGED <<provider, agent, hooks, stops, orderly>>

TurnsNext ==
  \/ PromptSubmitted
  \/ TurnEnds
  \/ \E h \in hooks : PrepareEvent(h) \/ RecordHookEvent(h) \/ EventLost(h)
  \/ StopBegins
  \/ AgentGone
  \/ InterruptSession

TurnsSpec == TurnsInit /\ [][TurnsNext]_turnsVars

-----------------------------------------------------------------------------
(* Properties.                                                             *)

TurnsTypeOK ==
  /\ provider \in {"claude", "codex"}
  /\ agent \in [turn : Numbers, busy : BOOLEAN]
  /\ hooks \subseteq Hook
  /\ turns \subseteq Turn
  /\ \A t, u \in turns : t.native = u.native => t = u
  /\ chat \in [present : BOOLEAN, state : States, prompt : Numbers, updated : Nat]
  /\ stopping \in {"no", "none", "mark", "marking"}
  /\ now \in Nat /\ stops \in Nat /\ orderly \in BOOLEAN

\* What the user asked stays in the history: no event, in whatever order it is
\* recorded, takes the turn of one prompt for another's or writes over its text
\* (latestTurnMissingPromptID, mergeTurnEvent).
PromptsStay ==
  [][\A t \in turns : t.prompt # 0 =>
       \E u \in turns' : u.native = t.native /\ u.prompt = t.prompt]_turnsVars

\* An answer stands beside the question it answers. Codex names its turns, so this
\* holds in any order of events; the guesses for Claude hold while no hook failed or
\* outlived its agent.
AnswersMatch ==
  provider = "codex" \/ orderly =>
    \A t \in turns : t.prompt # 0 /\ t.message # 0 => t.message = t.prompt

\* An interrupted conversation does not come back to life by an event from before
\* the interruption that is recorded after it (mergeTurnEvent, refreshSessionFromTurns,
\* InterruptSession): the session changes for an event of a later time only.
InterruptionStands ==
  [][chat.state = "interrupted" /\ chat'.state # "interrupted"
       => chat'.updated > chat.updated]_turnsVars

=============================================================================
