------------------------- MODULE ConversationProofs -------------------------
(***************************************************************************)
(* Proofs about what the store keeps of a conversation. Its turns (Turns), *)
(* for any length, any number of hooks at work and of stops: what was      *)
(* asked stays, answers stand beside their questions, and an interruption  *)
(* is not undone by a late hook. The model asked for it (Selection), for   *)
(* any number of slots, conversations and models.                          *)
(***************************************************************************)
EXTENDS Turns, Selection, FiniteSetTheorems, TLAPS

-----------------------------------------------------------------------------
(* Turns: the invariant.                                                    *)

\* Among the rows of any choice one is the last.
HasLatest(rows) ==
  \A some \in SUBSET rows : some # {} => \E t \in some : \A u \in some : u.updated <= t.updated

\* Everything recorded, and every hook that has taken its time, has a time of its own.
TimesInv ==
  /\ \A t \in turns : t.updated <= now
  /\ \A t, u \in turns : t.updated = u.updated => t = u
  /\ \A h \in hooks : h.at <= now
  /\ \A h \in hooks, t \in turns : h.at # 0 => h.at # t.updated
  /\ \A g, h \in hooks : g.at # 0 /\ g.at = h.at => g = h

\* The session is what its latest turn is.
ChatInv ==
  /\ chat.present <=> turns # {}
  /\ turns # {} => chat.state = Latest(turns).state /\ chat.updated = Latest(turns).updated
  /\ turns = {} => chat.state = "unknown"
  /\ stopping \in {"mark", "marking"} => turns # {}

\* Claude has no events that carry prompt and message; the store counts its turns.
ClaudeInv ==
  provider = "claude" =>
    /\ \A h \in hooks : h.kind \in {"prompt", "stop", "failure"}
    /\ {t.native : t \in turns} = 1..Cardinality(turns)

\* Codex's events say where they belong.
CodexInv ==
  provider = "codex" => \A t \in turns : t.prompt \in {0, t.native} /\ t.message \in {0, t.native}

\* While nothing went wrong, Claude's hooks come one at a time: the turns are those of the
\* agent, in order, and the last is open until the agent's last hook is recorded.
Open(n) == \E t \in turns : t.native = n /\ t.state \notin Ended

OrderInv ==
  provider = "claude" /\ orderly =>
    /\ \A g, h \in hooks : g = h
    /\ \A h \in hooks : h.turn = agent.turn
    /\ \A h \in hooks : IF h.kind = "prompt" THEN agent.busy /\ Cardinality(turns) + 1 = agent.turn
                                             ELSE ~agent.busy /\ Open(agent.turn)
    /\ (\A h \in hooks : h.kind # "prompt") => Cardinality(turns) = agent.turn
    /\ agent.busy /\ hooks = {} => Open(agent.turn)
    /\ \A t \in turns : t.prompt = t.native /\ t.message \in {0, t.native}
    /\ \A t, u \in turns : t.native < u.native => t.updated < u.updated
    /\ \A h \in hooks, t \in turns : h.at # 0 => t.updated < h.at
    /\ stopping = "marking" => hooks = {} /\ ~agent.busy

TurnsIInv ==
  /\ TurnsTypeOK /\ IsFiniteSet(hooks) /\ IsFiniteSet(turns) /\ HasLatest(turns)
  /\ TimesInv /\ ChatInv /\ ClaudeInv /\ CodexInv /\ OrderInv

-----------------------------------------------------------------------------
(* The last row, and the merge of an event into a row.                      *)

LEMMA LastRow ==
  ASSUME NEW rows, HasLatest(rows), rows # {}
  PROVE  Latest(rows) \in rows /\ \A u \in rows : u.updated <= Latest(rows).updated
BY DEF HasLatest, Latest

\* A choice of rows has a last one with one row more.
LEMMA OneMoreHasLatest ==
  ASSUME NEW rows, HasLatest(rows), NEW t, t.updated \in Nat, \A u \in rows : u.updated \in Nat,
         NEW less \in SUBSET rows
  PROVE  HasLatest(less \cup {t})
<1> SUFFICES ASSUME NEW some \in SUBSET (less \cup {t}), some # {}
             PROVE  \E v \in some : \A u \in some : u.updated <= v.updated
  BY DEF HasLatest
<1> DEFINE rest == some \ {t}
<1>1. rest \in SUBSET rows
  OBVIOUS
<1>2. CASE rest = {}
  <2>1. t \in some /\ \A u \in some : u = t
    BY <1>2
  <2>2. t.updated <= t.updated
    OBVIOUS
  <2> QED
    BY <2>1, <2>2
<1>3. CASE rest # {}
  <2>1. PICK v \in rest : \A u \in rest : u.updated <= v.updated
    BY <1>1, <1>3 DEF HasLatest
  <2>2. v.updated \in Nat /\ v \in some
    BY <1>1, <2>1
  <2>3. CASE t \in some /\ v.updated <= t.updated
    <3>1. \A u \in some : u.updated <= t.updated
      BY <1>1, <2>1, <2>2, <2>3
    <3> QED
      BY <2>3, <3>1
  <2>4. CASE t \notin some \/ t.updated <= v.updated
    <3>1. \A u \in some : u.updated <= v.updated
      BY <2>1, <2>2, <2>4
    <3> QED
      BY <2>2, <3>1
  <2> QED
    BY <2>2, <2>3, <2>4
<1> QED
  BY <1>2, <1>3

\* What a merge does to a row.
LEMMA Merged ==
  ASSUME NEW t \in Turn, NEW h \in Hook
  PROVE  LET m == Merge(t, h) IN
         /\ m \in Turn /\ m.native = t.native
         /\ m.prompt = IF h.kind = "prompt" \/ (h.kind = "complete" /\ t.prompt = 0)
                         THEN h.turn ELSE t.prompt
         /\ m.message = IF h.kind = "complete" \/ (h.kind = "stop" /\ t.message = 0)
                          THEN h.turn ELSE t.message
         /\ m.updated = IF h.at > t.updated THEN h.at ELSE t.updated
         /\ t.state \in Ended /\ ~(h.at > t.updated) => m.state = t.state
         /\ t.state \notin Ended /\ h.kind \in {"prompt", "failure"} => m.state \notin Ended
<1>1. h.kind \in Kinds /\ h.turn \in Numbers /\ h.at \in Nat
  BY DEF Hook
<1>2. /\ t.native \in Nat /\ t.prompt \in Numbers /\ t.message \in Numbers /\ t.state \in States
      /\ t.created \in Nat /\ t.updated \in Nat
  BY DEF Turn
<1>3. StateForEvent(h.kind) \in States
      /\ (h.kind \in {"prompt", "failure"} => StateForEvent(h.kind) \notin Ended)
  BY <1>1 DEF StateForEvent, Kinds, States, Ended
<1>4. \A state \in States : StateRank(state) \in 1..4 /\ (state \in Ended => StateRank(state) = 4)
  BY DEF StateRank, States, Ended
<1> DEFINE state == IF h.kind = "failure" /\ t.state \notin Ended THEN "unknown"
                    ELSE IF Outranks(h, t) THEN StateForEvent(h.kind) ELSE t.state
<1>5. /\ state \in States
      /\ t.state \in Ended /\ ~(h.at > t.updated) => state = t.state
      /\ t.state \notin Ended /\ h.kind \in {"prompt", "failure"} => state \notin Ended
  <2>1. state \in States
    BY <1>2, <1>3 DEF States
  <2>2. ASSUME t.state \in Ended, ~(h.at > t.updated) PROVE state = t.state
    <3>1. StateRank(t.state) = 4 /\ StateRank(StateForEvent(h.kind)) \in 1..4
      BY <1>2, <1>3, <1>4, <2>2
    <3>2. ~Outranks(h, t)
      BY <2>2, <3>1 DEF Outranks
    <3> QED
      BY <2>2, <3>2
  <2>3. ASSUME t.state \notin Ended, h.kind \in {"prompt", "failure"} PROVE state \notin Ended
    BY <1>3, <2>3 DEF Ended
  <2> QED
    BY <2>1, <2>2, <2>3
<1>6. Merge(t, h) =
        [t EXCEPT
          !.prompt = IF HasPrompt(h) /\ (h.kind = "prompt" \/ @ = 0) THEN h.turn ELSE @,
          !.message = IF HasMessage(h) /\ (h.kind = "complete" \/ @ = 0) THEN h.turn ELSE @,
          !.state = state,
          !.created = IF h.at < @ THEN h.at ELSE @,
          !.updated = IF h.at > @ THEN h.at ELSE @]
  BY DEF Merge
<1> HIDE DEF state
<1>7. /\ Merge(t, h) \in Turn /\ Merge(t, h).native = t.native
      /\ Merge(t, h).state = state
      /\ Merge(t, h).updated = IF h.at > t.updated THEN h.at ELSE t.updated
  BY <1>1, <1>2, <1>5, <1>6 DEF Turn, HasPrompt, HasMessage
<1>8. Merge(t, h).prompt = IF h.kind = "prompt" \/ (h.kind = "complete" /\ t.prompt = 0)
                             THEN h.turn ELSE t.prompt
  BY <1>6 DEF Turn, HasPrompt
<1>9. Merge(t, h).message = IF h.kind = "complete" \/ (h.kind = "stop" /\ t.message = 0)
                              THEN h.turn ELSE t.message
  BY <1>6 DEF Turn, HasMessage
<1> QED
  BY <1>5, <1>7, <1>8, <1>9

\* The row an event is merged into: one of the table, or a new one.
Row(t, h) ==
  /\ t \in Turn /\ t.native = NativeTurnID(h)
  /\ \/ t \in turns
     \/ t = NewTurn(NativeTurnID(h), h) /\ \A u \in turns : u.native # NativeTurnID(h)
  /\ turns' = (turns \ {t}) \cup {Merge(t, h)}

LEMMA RowOfEvent ==
  ASSUME TurnsIInv, NEW h \in hooks, RecordHookEvent(h)
  PROVE  /\ \E t \in Turn : Row(t, h)
         /\ chat'.present /\ chat'.state = Latest(turns').state
         /\ chat'.updated = Latest(turns').updated
<1> DEFINE native == NativeTurnID(h)
           same == {t \in turns : t.native = native}
           turn == IF same = {} THEN NewTurn(native, h) ELSE CHOOSE t \in same : TRUE
<1>1. h \in Hook /\ turns \subseteq Turn /\ \A t, u \in turns : t.native = u.native => t = u
  BY DEF TurnsIInv, TurnsTypeOK
<1>2. native \in Nat
  <2>1. CASE provider = "codex"
    BY <1>1, <2>1, TurnsAssumption DEF NativeTurnID, Hook, Numbers
  <2>2. CASE provider # "codex" /\ Fitting(h) = {}
    BY <2>2, FS_CardinalityType DEF NativeTurnID, TurnsIInv
  <2>3. CASE provider # "codex" /\ Fitting(h) # {}
    <3>1. Fitting(h) \in SUBSET turns
      BY DEF Fitting
    <3>2. Latest(Fitting(h)) \in Fitting(h)
      BY <2>3, <3>1 DEF TurnsIInv, HasLatest, Latest
    <3> QED
      BY <1>1, <2>3, <3>1, <3>2 DEF NativeTurnID, Turn
  <2> QED
    BY <2>1, <2>2, <2>3
<1>3. turns' = (turns \ same) \cup {Merge(turn, h)}
      /\ chat' = [present |-> TRUE, state |-> Latest(turns').state,
                  prompt |-> Latest(turns').prompt, updated |-> Latest(turns').updated]
  BY DEF RecordHookEvent
<1> HIDE DEF native
<1>4. CASE same = {}
  <2>1. turn = NewTurn(native, h)
    BY <1>4
  <2>2. turn \in Turn /\ turn.native = native
    BY <1>1, <1>2, <2>1, TurnsAssumption DEF NewTurn, Turn, Hook, Numbers, States
  <2>3. \A u \in turns : u.native # native
    BY <1>4
  <2>4. turn \notin turns /\ turns \ {turn} = turns \ same
    BY <1>4, <2>2, <2>3
  <2> HIDE DEF turn
  <2>5. Row(turn, h)
    BY <1>3, <2>1, <2>2, <2>3, <2>4 DEF Row, native
  <2> QED
    BY <1>3, <2>2, <2>5
<1>5. CASE same # {}
  <2>1. turn \in same
    BY <1>5
  <2> HIDE DEF turn
  <2>2. same = {turn}
    BY <1>1, <2>1
  <2>3. turn \in Turn /\ turn \in turns /\ turn.native = native
    BY <1>1, <2>1
  <2>4. Row(turn, h)
    BY <1>3, <2>2, <2>3 DEF Row, native
  <2> QED
    BY <1>3, <2>3, <2>4
<1> QED
  BY <1>4, <1>5

-----------------------------------------------------------------------------
(* The steps of the agent, and of hooks that record nothing.                *)

LEMMA TurnsInitIInv == TurnsInit => TurnsIInv
<1> SUFFICES ASSUME TurnsInit PROVE TurnsIInv
  OBVIOUS
<1> USE DEF TurnsInit
<1>1. 0 \in Numbers
  BY TurnsAssumption DEF Numbers
<1>2. TurnsTypeOK
  BY <1>1 DEF TurnsTypeOK, States
<1>3. IsFiniteSet(hooks) /\ IsFiniteSet(turns) /\ Cardinality(turns) = 0
  BY FS_EmptySet
<1>4. HasLatest(turns) /\ TimesInv /\ ChatInv
  BY DEF HasLatest, TimesInv, ChatInv
<1>5. ClaudeInv /\ CodexInv /\ OrderInv
  BY <1>3 DEF ClaudeInv, CodexInv, OrderInv
<1> QED
  BY <1>2, <1>3, <1>4, <1>5 DEF TurnsIInv

\* When Claude goes on, no hook is at work.
LEMMA ClaudeWaits ==
  ASSUME TurnsIInv, Goes, provider = "claude"
  PROVE  hooks = {}
<1>1. Cardinality(hooks) <= 0 /\ Cardinality(hooks) \in Nat
  BY FS_CardinalityType DEF Goes, TurnsIInv
<1> QED
  BY <1>1, FS_EmptySet DEF TurnsIInv

\* Hooks that have not taken their time disturb nothing about times.
LEMMA NewHooksTimes ==
  ASSUME TurnsIInv, UNCHANGED <<turns, now>>,
         \A h \in hooks' : h \in hooks \/ h.at = 0
  PROVE  TimesInv'
BY DEF TimesInv, TurnsIInv, TurnsTypeOK

LEMMA PromptKeeps == TurnsIInv /\ PromptSubmitted => TurnsIInv'
<1> SUFFICES ASSUME TurnsIInv, PromptSubmitted PROVE TurnsIInv'
  OBVIOUS
<1> DEFINE new == [kind |-> "prompt", turn |-> agent.turn + 1, at |-> 0]
<1>1. /\ agent' = [turn |-> agent.turn + 1, busy |-> TRUE] /\ hooks' = hooks \cup {new}
      /\ UNCHANGED <<provider, turns, chat, stopping, now, stops, orderly>>
      /\ Goes /\ ~agent.busy /\ agent.turn < MaxTurns
  BY DEF PromptSubmitted, NewHook
<1>2. agent.turn \in Nat /\ agent.turn + 1 \in Numbers
  BY <1>1, TurnsAssumption DEF TurnsIInv, TurnsTypeOK, Numbers
<1>3. new \in Hook /\ new.at = 0 /\ new.kind = "prompt" /\ new.turn = agent.turn + 1
  BY <1>2 DEF Hook, Kinds
<1> HIDE DEF new
<1>4. TurnsTypeOK'
  BY <1>1, <1>2, <1>3 DEF TurnsIInv, TurnsTypeOK
<1>5. IsFiniteSet(hooks') /\ IsFiniteSet(turns') /\ HasLatest(turns')
  BY <1>1, FS_AddElement DEF TurnsIInv
<1>6. TimesInv'
  BY <1>1, <1>3, NewHooksTimes
<1>7. ChatInv' /\ CodexInv'
  BY <1>1 DEF TurnsIInv, ChatInv, CodexInv, Latest
<1>8. ClaudeInv'
  BY <1>1, <1>3 DEF TurnsIInv, ClaudeInv
<1>9. OrderInv'
  <2> SUFFICES ASSUME provider = "claude", orderly PROVE OrderInv'
    BY <1>1 DEF OrderInv
  <2>1. hooks = {} /\ hooks' = {new}
    BY <1>1, ClaudeWaits
  <2>2. Cardinality(turns) = agent.turn /\ stopping # "marking"
    BY <1>1, <2>1 DEF TurnsIInv, OrderInv, Goes
  <2>3. \A t \in turns : t.prompt = t.native /\ t.message \in {0, t.native}
    BY DEF TurnsIInv, OrderInv
  <2>4. \A t, u \in turns : t.native < u.native => t.updated < u.updated
    BY DEF TurnsIInv, OrderInv
  <2> QED
    BY <1>1, <1>2, <1>3, <2>1, <2>2, <2>3, <2>4 DEF OrderInv
<1> QED
  BY <1>4, <1>5, <1>6, <1>7, <1>8, <1>9 DEF TurnsIInv

LEMMA TurnEndsKeeps == TurnsIInv /\ TurnEnds => TurnsIInv'
<1> SUFFICES ASSUME TurnsIInv, TurnEnds PROVE TurnsIInv'
  OBVIOUS
<1> DEFINE new(k) == [kind |-> k, turn |-> agent.turn, at |-> 0]
<1>1. /\ agent' = [agent EXCEPT !.busy = FALSE] /\ agent'.turn = agent.turn
      /\ ~agent'.busy /\ agent' \in [turn : Numbers, busy : BOOLEAN]
      /\ UNCHANGED <<provider, turns, chat, stopping, now, stops, orderly>>
      /\ Goes /\ agent.busy
  BY DEF TurnEnds, TurnsIInv, TurnsTypeOK
<1>2. PICK k \in Kinds, l \in Kinds :
        /\ hooks' = hooks \cup {new(k)} \cup {new(l)}
        /\ provider = "claude" => k = l /\ k \in {"stop", "failure"}
  <2>1. PICK kinds \in IF provider = "claude" THEN {{"stop"}, {"failure"}}
                                             ELSE {{"stop", "complete"}, {"interrupt"}} :
          hooks' = hooks \cup {new(k) : k \in kinds}
    BY <1>1 DEF TurnEnds, NewHook
  <2>2. \E k, l \in Kinds : kinds = {k, l} /\ (provider = "claude" => k = l /\ k \in {"stop", "failure"})
    BY <2>1 DEF Kinds
  <2> HIDE DEF new
  <2> QED
    BY <2>1, <2>2
<1>3. \A m \in Kinds : new(m) \in Hook /\ new(m).at = 0 /\ new(m).kind = m /\ new(m).turn = agent.turn
  BY DEF Hook, TurnsIInv, TurnsTypeOK, Numbers, TurnsAssumption
<1> HIDE DEF new
<1>4. TurnsTypeOK'
  BY <1>1, <1>2, <1>3 DEF TurnsIInv, TurnsTypeOK
<1>5. IsFiniteSet(hooks') /\ IsFiniteSet(turns') /\ HasLatest(turns')
  BY <1>1, <1>2, FS_AddElement DEF TurnsIInv
<1>6. TimesInv'
  BY <1>1, <1>2, <1>3, NewHooksTimes
<1>7. ChatInv' /\ CodexInv'
  BY <1>1 DEF TurnsIInv, ChatInv, CodexInv, Latest
<1>8. ClaudeInv'
  BY <1>1, <1>2, <1>3 DEF TurnsIInv, ClaudeInv
<1>9. OrderInv'
  <2> SUFFICES ASSUME provider = "claude", orderly PROVE OrderInv'
    BY <1>1 DEF OrderInv
  <2>1. hooks = {} /\ hooks' = {new(k)} /\ k \in {"stop", "failure"}
    BY <1>1, <1>2, ClaudeWaits
  <2>2. Cardinality(turns) = agent.turn /\ stopping # "marking" /\ Open(agent.turn)
    BY <1>1, <2>1 DEF TurnsIInv, OrderInv, Goes
  <2>3. \A t \in turns : t.prompt = t.native /\ t.message \in {0, t.native}
    BY DEF TurnsIInv, OrderInv
  <2>4. \A t, u \in turns : t.native < u.native => t.updated < u.updated
    BY DEF TurnsIInv, OrderInv
  <2>5. Open(agent.turn)'
    BY <1>1, <2>2 DEF Open
  <2> QED
    BY <1>1, <1>3, <2>1, <2>2, <2>3, <2>4, <2>5 DEF OrderInv
<1> QED
  BY <1>4, <1>5, <1>6, <1>7, <1>8, <1>9 DEF TurnsIInv

LEMMA PrepareKeeps == ASSUME NEW h \in hooks PROVE TurnsIInv /\ PrepareEvent(h) => TurnsIInv'
<1> SUFFICES ASSUME TurnsIInv, PrepareEvent(h) PROVE TurnsIInv'
  OBVIOUS
<1> DEFINE new == [h EXCEPT !.at = now + 1]
<1>1. /\ h.at = 0 /\ now' = now + 1 /\ hooks' = (hooks \ {h}) \cup {new}
      /\ UNCHANGED <<provider, agent, turns, chat, stopping, stops, orderly>>
  BY DEF PrepareEvent
<1>2. h \in Hook /\ now \in Nat /\ hooks \subseteq Hook /\ turns \subseteq Turn
  BY DEF TurnsIInv, TurnsTypeOK
<1>3. new \in Hook /\ new.at = now + 1 /\ new.kind = h.kind /\ new.turn = h.turn
  BY <1>2 DEF Hook
<1> HIDE DEF new
<1>4. TurnsTypeOK'
  BY <1>1, <1>2, <1>3 DEF TurnsIInv, TurnsTypeOK
<1>5. IsFiniteSet(hooks') /\ IsFiniteSet(turns') /\ HasLatest(turns')
  BY <1>1, FS_AddElement, FS_RemoveElement DEF TurnsIInv
<1>6. TimesInv'
  <2>1. \A g \in hooks : g.at \in Nat /\ g.at <= now
    BY <1>2 DEF TurnsIInv, TimesInv, Hook
  <2>2. \A t \in turns : t.updated \in Nat /\ t.updated <= now
    BY <1>2 DEF TurnsIInv, TimesInv, Turn
  <2> QED
    BY <1>1, <1>2, <1>3, <2>1, <2>2 DEF TurnsIInv, TimesInv
<1>7. ChatInv' /\ CodexInv'
  BY <1>1 DEF TurnsIInv, ChatInv, CodexInv, Latest
<1>8. ClaudeInv'
  BY <1>1, <1>3 DEF TurnsIInv, ClaudeInv
<1>9. OrderInv'
  <2> SUFFICES ASSUME provider = "claude", orderly PROVE OrderInv'
    BY <1>1 DEF OrderInv
  <2>1. hooks = {h} /\ hooks' = {new}
    BY <1>1 DEF TurnsIInv, OrderInv
  <2>2. \A t \in turns : t.updated < new.at
    BY <1>2, <1>3 DEF TurnsIInv, TimesInv, Turn
  <2>3. Open(agent.turn) <=> Open(agent.turn)'
    BY <1>1 DEF Open
  <2> QED
    BY <1>1, <1>3, <2>1, <2>2, <2>3 DEF TurnsIInv, OrderInv
<1> QED
  BY <1>4, <1>5, <1>6, <1>7, <1>8, <1>9 DEF TurnsIInv

LEMMA LostKeeps == ASSUME NEW h \in hooks PROVE TurnsIInv /\ EventLost(h) => TurnsIInv'
<1> SUFFICES ASSUME TurnsIInv, EventLost(h) PROVE TurnsIInv'
  OBVIOUS
<1> USE DEF EventLost
<1>1. TurnsTypeOK'
  BY DEF TurnsIInv, TurnsTypeOK
<1>2. IsFiniteSet(hooks') /\ IsFiniteSet(turns') /\ HasLatest(turns')
  BY FS_RemoveElement DEF TurnsIInv
<1>3. TimesInv' /\ OrderInv'
  BY DEF TurnsIInv, TimesInv, OrderInv
<1>4. ChatInv' /\ CodexInv' /\ ClaudeInv'
  BY DEF TurnsIInv, ChatInv, CodexInv, ClaudeInv, Latest
<1> QED
  BY <1>1, <1>2, <1>3, <1>4 DEF TurnsIInv

LEMMA StopBeginsKeeps == TurnsIInv /\ StopBegins => TurnsIInv'
<1> SUFFICES ASSUME TurnsIInv, StopBegins PROVE TurnsIInv'
  OBVIOUS
<1> USE DEF StopBegins
<1>1. TurnsTypeOK'
  BY DEF TurnsIInv, TurnsTypeOK
<1>2. IsFiniteSet(hooks') /\ IsFiniteSet(turns') /\ HasLatest(turns')
  BY DEF TurnsIInv
<1>3. TimesInv' /\ CodexInv' /\ ClaudeInv'
  BY DEF TurnsIInv, TimesInv, CodexInv, ClaudeInv
<1>4. ChatInv'
  BY DEF TurnsIInv, ChatInv, Latest
<1>5. OrderInv'
  BY DEF TurnsIInv, OrderInv, Open
<1> QED
  BY <1>1, <1>2, <1>3, <1>4, <1>5 DEF TurnsIInv

LEMMA GoneKeeps == TurnsIInv /\ AgentGone => TurnsIInv'
<1> SUFFICES ASSUME TurnsIInv, AgentGone PROVE TurnsIInv'
  OBVIOUS
<1>1. /\ agent' = [agent EXCEPT !.busy = FALSE] /\ agent'.turn = agent.turn
      /\ ~agent'.busy /\ agent' \in [turn : Numbers, busy : BOOLEAN]
      /\ UNCHANGED <<provider, hooks, turns, chat, now>> /\ stops' \in Nat
      /\ orderly' = (orderly /\ hooks = {}) /\ orderly' \in BOOLEAN
      /\ stopping' \in {"no", "marking"} /\ (stopping' = "marking" => stopping = "mark")
  <2>1. /\ agent'.turn = agent.turn /\ ~agent'.busy /\ agent' \in [turn : Numbers, busy : BOOLEAN]
        /\ agent' = [agent EXCEPT !.busy = FALSE] /\ stops' \in Nat
    <3>1. agent' = [agent EXCEPT !.busy = FALSE] /\ stops' = stops + 1
      BY DEF AgentGone
    <3>2. agent \in [turn : Numbers, busy : BOOLEAN] /\ stops \in Nat
      BY DEF TurnsIInv, TurnsTypeOK
    <3>3. stops' \in Nat
      BY <3>1, <3>2
    <3>4. agent'.turn = agent.turn /\ agent'.busy = FALSE
          /\ agent' \in [turn : Numbers, busy : BOOLEAN]
      BY <3>1, <3>2
    <3> QED
      BY <3>1, <3>3, <3>4
  <2>2. /\ UNCHANGED <<provider, hooks, turns, chat, now>>
        /\ stopping' \in {"no", "marking"} /\ (stopping' = "marking" => stopping = "mark")
    BY DEF AgentGone
  <2>3. orderly' = (orderly /\ hooks = {})
    BY DEF AgentGone
  <2>4. orderly' \in BOOLEAN
    BY <2>3
  <2> QED
    BY <2>1, <2>2, <2>3, <2>4
<1>2. TurnsTypeOK'
  BY <1>1 DEF TurnsIInv, TurnsTypeOK
<1>3. IsFiniteSet(hooks') /\ IsFiniteSet(turns') /\ HasLatest(turns')
  BY <1>1 DEF TurnsIInv
<1>4. TimesInv' /\ CodexInv' /\ ClaudeInv'
  BY <1>1 DEF TurnsIInv, TimesInv, CodexInv, ClaudeInv
<1>5. ChatInv'
  BY <1>1 DEF TurnsIInv, ChatInv, Latest
<1>6. OrderInv'
  BY <1>1 DEF TurnsIInv, OrderInv
<1> QED
  BY <1>2, <1>3, <1>4, <1>5, <1>6 DEF TurnsIInv

-----------------------------------------------------------------------------
(* The daemon's interruption.                                               *)

LEMMA InterruptKeeps == TurnsIInv /\ InterruptSession => TurnsIInv'
<1> SUFFICES ASSUME TurnsIInv, InterruptSession PROVE TurnsIInv'
  OBVIOUS
<1> DEFINE last == Latest(turns)
           new == [last EXCEPT !.state = "interrupted", !.updated = now + 1]
<1>1. /\ turns' = (turns \ {last}) \cup {new} /\ now' = now + 1 /\ stopping = "marking"
      /\ chat' = [chat EXCEPT !.state = "interrupted", !.updated = now + 1] /\ stopping' = "no"
      /\ UNCHANGED <<provider, agent, hooks, stops, orderly>>
  BY DEF InterruptSession
<1>2. last \in turns /\ \A u \in turns : u.updated <= last.updated
  BY <1>1, LastRow DEF TurnsIInv, ChatInv
<1>3. turns \subseteq Turn /\ hooks \subseteq Hook /\ now \in Nat
      /\ \A t, u \in turns : t.native = u.native => t = u
  BY DEF TurnsIInv, TurnsTypeOK
<1> HIDE DEF last
<1>4. /\ new \in Turn /\ new.native = last.native /\ new.prompt = last.prompt
      /\ new.message = last.message /\ new.updated = now + 1 /\ new.state = "interrupted"
  <2>1. last \in Turn /\ now + 1 \in Nat
    BY <1>2, <1>3
  <2> QED
    BY <2>1 DEF Turn, States
<1> HIDE DEF new
<1>5. \A t \in turns : t.updated \in Nat /\ t.updated <= now
  BY <1>3 DEF Turn, TurnsIInv, TimesInv
<1>6. TurnsTypeOK'
  <2>1. chat' \in [present : BOOLEAN, state : States, prompt : Numbers, updated : Nat]
    <3>1. now + 1 \in Nat /\ chat \in [present : BOOLEAN, state : States, prompt : Numbers,
                                       updated : Nat]
      BY <1>3 DEF TurnsIInv, TurnsTypeOK
    <3> QED
      BY <1>1, <3>1 DEF States
  <2>2. turns' \subseteq Turn /\ \A t, u \in turns' : t.native = u.native => t = u
    BY <1>1, <1>2, <1>3, <1>4
  <2> QED
    BY <1>1, <1>3, <2>1, <2>2 DEF TurnsIInv, TurnsTypeOK
<1>7. /\ IsFiniteSet(turns') /\ IsFiniteSet(hooks') /\ Cardinality(turns') = Cardinality(turns)
      /\ {t.native : t \in turns'} = {t.native : t \in turns}
  <2>1. new \notin turns \ {last}
    BY <1>2, <1>3, <1>4
  <2>2. Cardinality(turns) \in Nat
    BY FS_CardinalityType DEF TurnsIInv
  <2>3. IsFiniteSet(turns \ {last}) /\ Cardinality(turns \ {last}) = Cardinality(turns) - 1
    BY <1>2, FS_RemoveElement DEF TurnsIInv
  <2>4. IsFiniteSet(turns') /\ Cardinality(turns') = Cardinality(turns)
    <3> DEFINE others == turns \ {last}
    <3>1. IsFiniteSet(others) /\ new \notin others /\ Cardinality(others) = Cardinality(turns) - 1
      BY <2>1, <2>3
    <3>2. turns' = others \cup {new}
      BY <1>1
    <3> HIDE DEF others
    <3>3. IsFiniteSet(turns') /\ Cardinality(turns') = Cardinality(others) + 1
      BY <3>1, <3>2, FS_AddElement
    <3> QED
      BY <2>2, <3>1, <3>3
  <2>5. {t.native : t \in turns'} = {t.native : t \in turns}
    BY <1>1, <1>2, <1>4
  <2> QED
    BY <1>1, <2>4, <2>5 DEF TurnsIInv
<1>8. HasLatest(turns')
  <2>1. turns \ {last} \in SUBSET turns /\ new.updated \in Nat /\ HasLatest(turns)
    BY <1>3, <1>4 DEF TurnsIInv
  <2>2. HasLatest((turns \ {last}) \cup {new})
    BY <1>5, <2>1, OneMoreHasLatest
  <2> QED
    BY <1>1, <2>2
<1>9. TimesInv'
  <2>1. \A g \in hooks : g.at \in Nat /\ g.at <= now
    BY <1>3 DEF TurnsIInv, TimesInv, Hook
  <2> QED
    BY <1>1, <1>3, <1>4, <1>5, <2>1 DEF TurnsIInv, TimesInv
<1>10. ChatInv'
  <2>1. Latest(turns') = new
    <3>1. Latest(turns') \in turns' /\ new.updated <= Latest(turns').updated
      BY <1>1, <1>8, LastRow
    <3> QED
      BY <1>1, <1>3, <1>4, <1>5, <3>1
  <2> QED
    BY <1>1, <1>2, <1>4, <2>1 DEF TurnsIInv, TurnsTypeOK, ChatInv
<1>11. ClaudeInv' /\ CodexInv'
  BY <1>1, <1>2, <1>4, <1>7 DEF TurnsIInv, ClaudeInv, CodexInv
<1>12. OrderInv'
  <2> SUFFICES ASSUME provider = "claude", orderly PROVE OrderInv'
    BY <1>1 DEF OrderInv
  <2>1. hooks = {} /\ ~agent.busy
    BY <1>1 DEF TurnsIInv, OrderInv
  <2>2. \A t \in turns' : t.prompt = t.native /\ t.message \in {0, t.native}
    BY <1>1, <1>2, <1>4 DEF TurnsIInv, OrderInv
  <2>3. \A t \in turns : t.native <= last.native
    BY <1>2, <1>3 DEF TurnsIInv, OrderInv, Turn
  <2>4. \A t, u \in turns' : t.native < u.native => t.updated < u.updated
    BY <1>1, <1>2, <1>3, <1>4, <1>5, <2>3 DEF TurnsIInv, OrderInv, Turn
  <2> QED
    BY <1>1, <1>7, <2>1, <2>2, <2>4 DEF TurnsIInv, OrderInv
<1> QED
  BY <1>6, <1>7, <1>8, <1>9, <1>10, <1>11, <1>12 DEF TurnsIInv

-----------------------------------------------------------------------------
(* The hook's transaction.                                                  *)

\* The table after it: the row merged into is t, and m is what it becomes.
Recorded(t, h) ==
  /\ TurnsIInv /\ RecordHookEvent(h) /\ Row(t, h)

LEMMA RecordedTable ==
  ASSUME NEW h \in hooks, NEW t \in Turn, Recorded(t, h)
  PROVE  LET m == Merge(t, h) IN
         /\ h \in Hook /\ m \in Turn /\ m.native = t.native
         /\ turns' = (turns \ {t}) \cup {m} /\ turns' \subseteq Turn
         /\ \A u \in turns \ {t} : u.native # m.native
         /\ \A u, v \in turns' : u.native = v.native => u = v
         /\ IsFiniteSet(turns') /\ HasLatest(turns')
         /\ Cardinality(turns') = IF t \in turns THEN Cardinality(turns) ELSE Cardinality(turns) + 1
         /\ UNCHANGED <<provider, agent, stopping, now, stops, orderly>> /\ hooks' = hooks \ {h}
<1> DEFINE m == Merge(t, h)
<1>1. turns \subseteq Turn /\ hooks \subseteq Hook /\ IsFiniteSet(turns) /\ HasLatest(turns)
      /\ \A u, v \in turns : u.native = v.native => u = v
  BY DEF Recorded, TurnsIInv, TurnsTypeOK
<1>2. h \in Hook /\ m \in Turn /\ m.native = t.native
  BY <1>1, Merged
<1> HIDE DEF m
<1>3. turns' = (turns \ {t}) \cup {m}
  BY DEF Recorded, Row, m
<1>4. \A u \in turns \ {t} : u.native # m.native
  BY <1>1, <1>2 DEF Recorded, Row
<1>5. turns' \subseteq Turn /\ \A u, v \in turns' : u.native = v.native => u = v
  BY <1>1, <1>2, <1>3, <1>4
<1>6. HasLatest(turns')
  BY <1>1, <1>2, <1>3, OneMoreHasLatest DEF Turn
<1>7. IsFiniteSet(turns') /\
      Cardinality(turns') = IF t \in turns THEN Cardinality(turns) ELSE Cardinality(turns) + 1
  <2>1. m \notin turns \ {t}
    BY <1>4
  <2>2. Cardinality(turns) \in Nat
    BY <1>1, FS_CardinalityType
  <2>3. IsFiniteSet(turns \ {t}) /\
        Cardinality(turns \ {t}) = IF t \in turns THEN Cardinality(turns) - 1 ELSE Cardinality(turns)
    BY <1>1, FS_RemoveElement
  <2> DEFINE others == turns \ {t}
  <2>4. turns' = others \cup {m} /\ IsFiniteSet(others) /\ m \notin others
    BY <1>3, <2>1, <2>3
  <2> HIDE DEF others
  <2>5. IsFiniteSet(turns') /\ Cardinality(turns') = Cardinality(others) + 1
    BY <2>4, FS_AddElement
  <2> QED
    BY <2>2, <2>3, <2>5 DEF others
<1>8. UNCHANGED <<provider, agent, stopping, now, stops, orderly>> /\ hooks' = hooks \ {h}
  BY DEF Recorded, RecordHookEvent
<1> QED
  BY <1>2, <1>3, <1>4, <1>5, <1>6, <1>7, <1>8 DEF m

LEMMA RecordedTimes ==
  ASSUME NEW h \in hooks, NEW t \in Turn, Recorded(t, h)
  PROVE  LET m == Merge(t, h) IN
         /\ h.at # 0 /\ h.at \in Nat
         /\ \A u \in turns : u.updated \in Nat /\ u.updated # h.at
         /\ m.updated = IF t \in turns /\ ~(h.at > t.updated) THEN t.updated ELSE h.at
         /\ \A u \in turns \ {t} : u.updated # m.updated
         /\ TimesInv'
<1> DEFINE m == Merge(t, h)
<1>1. /\ h \in Hook /\ turns \subseteq Turn /\ hooks \subseteq Hook /\ now \in Nat
      /\ TimesInv /\ h.at # 0
  BY RecordedTable DEF Recorded, TurnsIInv, TurnsTypeOK, RecordHookEvent
<1>2. h.at \in Nat /\ \A u \in turns : u.updated \in Nat /\ u.updated # h.at
  BY <1>1 DEF Hook, Turn, TimesInv
<1>3. m.updated = IF h.at > t.updated THEN h.at ELSE t.updated
  BY <1>1, Merged
<1>4. turns' = (turns \ {t}) \cup {m} /\ hooks' = hooks \ {h} /\ UNCHANGED now
  BY RecordedTable
<1> HIDE DEF m
<1>5. t \notin turns => t.updated = h.at
  BY DEF Recorded, Row, NewTurn
<1>6. m.updated = IF t \in turns /\ ~(h.at > t.updated) THEN t.updated ELSE h.at
  BY <1>2, <1>3, <1>5
<1>7. \A u \in turns \ {t} : u.updated # m.updated
  BY <1>1, <1>2, <1>6 DEF TimesInv
<1>8. TimesInv'
  <2>1. m.updated <= now
    BY <1>1, <1>6 DEF TimesInv
  <2>2. \A g \in hooks : g # h /\ g.at # 0 => g.at # m.updated
    BY <1>1, <1>6 DEF TimesInv
  <2> QED
    BY <1>1, <1>4, <1>7, <2>1, <2>2 DEF TimesInv
<1> QED
  BY <1>1, <1>2, <1>6, <1>7, <1>8 DEF m

\* Which row Claude's events find: a prompt's has none yet, any other is open.
LEMMA ClaudeRow ==
  ASSUME NEW h \in hooks, NEW t \in Turn, Recorded(t, h), provider = "claude"
  PROVE  /\ t \in turns => t \in Fitting(h) /\ t = Latest(Fitting(h))
         /\ t \notin turns => Fitting(h) = {} /\ t = NewTurn(Cardinality(turns) + 1, h)
<1>1. \A u, v \in turns : u.native = v.native => u = v
  BY DEF Recorded, TurnsIInv, TurnsTypeOK
<1>2. Fitting(h) \in SUBSET turns
  BY DEF Fitting
<1>3. CASE Fitting(h) = {}
  <2>1. NativeTurnID(h) = Cardinality(turns) + 1
    BY <1>3 DEF NativeTurnID
  <2>2. Cardinality(turns) \in Nat /\ {u.native : u \in turns} = 1..Cardinality(turns)
    BY FS_CardinalityType DEF Recorded, TurnsIInv, ClaudeInv
  <2>3. \A u \in turns : u.native # Cardinality(turns) + 1
    BY <2>2
  <2> QED
    BY <1>3, <2>1, <2>3 DEF Recorded, Row
<1>4. CASE Fitting(h) # {}
  <2>1. NativeTurnID(h) = Latest(Fitting(h)).native
    BY <1>4 DEF NativeTurnID
  <2>2. Latest(Fitting(h)) \in Fitting(h)
    BY <1>2, <1>4 DEF Recorded, TurnsIInv, HasLatest, Latest
  <2>3. t \in turns
    BY <1>2, <2>1, <2>2 DEF Recorded, Row
  <2>4. t = Latest(Fitting(h))
    BY <1>1, <1>2, <2>1, <2>2, <2>3 DEF Recorded, Row
  <2> QED
    BY <2>2, <2>3, <2>4
<1> QED
  BY <1>3, <1>4

LEMMA RecordedNumbers ==
  ASSUME NEW h \in hooks, NEW t \in Turn, Recorded(t, h)
  PROVE  ClaudeInv' /\ CodexInv'
<1> DEFINE m == Merge(t, h)
<1>1. /\ turns' = (turns \ {t}) \cup {m} /\ m.native = t.native
      /\ hooks' = hooks \ {h} /\ UNCHANGED provider /\ h \in Hook
      /\ Cardinality(turns') = IF t \in turns THEN Cardinality(turns) ELSE Cardinality(turns) + 1
  BY RecordedTable
<1>2. m.prompt \in {t.prompt, h.turn} /\ m.message \in {t.message, h.turn}
  BY <1>1, Merged
<1> HIDE DEF m
<1>3. ClaudeInv'
  <2> SUFFICES ASSUME provider = "claude" PROVE ClaudeInv'
    BY <1>1 DEF ClaudeInv
  <2>1. /\ {u.native : u \in turns} = 1..Cardinality(turns) /\ Cardinality(turns) \in Nat
        /\ \A g \in hooks : g.kind \in {"prompt", "stop", "failure"}
    BY FS_CardinalityType DEF Recorded, TurnsIInv, ClaudeInv
  <2>2. {u.native : u \in turns'} = {u.native : u \in turns} \cup {t.native}
    <3>1. CASE t \in turns
      BY <1>1, <3>1
    <3>2. CASE t \notin turns
      BY <1>1, <3>2
    <3> QED
      BY <3>1, <3>2
  <2>3. CASE t \in turns
    <3>1. {u.native : u \in turns'} = {u.native : u \in turns}
      BY <2>2, <2>3
    <3> QED
      BY <1>1, <2>1, <2>3, <3>1 DEF ClaudeInv
  <2>4. CASE t \notin turns
    <3>1. t.native = Cardinality(turns) + 1
      BY <2>4, ClaudeRow DEF NewTurn
    <3>2. {u.native : u \in turns'} = 1..(Cardinality(turns) + 1)
      BY <2>1, <2>2, <3>1
    <3> QED
      BY <1>1, <2>1, <2>4, <3>2 DEF ClaudeInv
  <2> QED
    BY <2>3, <2>4
<1>4. CodexInv'
  <2> SUFFICES ASSUME provider = "codex" PROVE CodexInv'
    BY <1>1 DEF CodexInv
  <2>1. t.native = h.turn
    BY DEF Recorded, Row, NativeTurnID
  <2>2. t.prompt \in {0, t.native} /\ t.message \in {0, t.native}
    BY DEF Recorded, Row, NewTurn, TurnsIInv, CodexInv
  <2> QED
    BY <1>1, <1>2, <2>1, <2>2 DEF Recorded, TurnsIInv, CodexInv
<1> QED
  BY <1>3, <1>4

\* The last row after an event: the row merged into, or the one that was last before.
\* An interrupted last row is only replaced by one of a later time.
LEMMA RecordedChat ==
  ASSUME NEW h \in hooks, NEW t \in Turn, Recorded(t, h)
  PROVE  /\ ChatInv'
         /\ chat.state = "interrupted" /\ chat'.state # "interrupted" => chat'.updated > chat.updated
<1> DEFINE m == Merge(t, h)
           last == Latest(turns)
           next == Latest(turns')
<1>1. /\ turns' = (turns \ {t}) \cup {m} /\ turns' \subseteq Turn /\ m \in Turn
      /\ HasLatest(turns') /\ UNCHANGED stopping
  BY RecordedTable
<1>2. /\ \A u \in turns : u.updated \in Nat /\ u.updated # h.at
      /\ m.updated = IF t \in turns /\ ~(h.at > t.updated) THEN t.updated ELSE h.at
      /\ \A u \in turns \ {t} : u.updated # m.updated
      /\ h.at \in Nat
  BY RecordedTimes
<1>3. t.state \in Ended /\ ~(h.at > t.updated) => m.state = t.state
  BY RecordedTable, Merged
<1>4. chat'.present /\ chat'.state = next.state /\ chat'.updated = next.updated
  BY RowOfEvent DEF Recorded
<1>5. \A u, v \in turns : u.updated = v.updated => u = v
  BY DEF Recorded, TurnsIInv, TimesInv
<1> HIDE DEF m
<1>6. turns' # {} /\ m \in turns'
  BY <1>1
<1>7. next \in turns' /\ \A u \in turns' : u.updated <= next.updated
  BY <1>1, <1>6, LastRow
<1>8. ChatInv'
  BY <1>1, <1>4, <1>6 DEF ChatInv
<1>9. ASSUME chat.state = "interrupted", chat'.state # "interrupted"
      PROVE  chat'.updated > chat.updated
  <2>1. turns # {} /\ last.state = "interrupted" /\ chat.updated = last.updated
    BY <1>9 DEF Recorded, TurnsIInv, ChatInv
  <2>2. last \in turns /\ \A u \in turns : u.updated <= last.updated
    BY <2>1, LastRow DEF Recorded, TurnsIInv
  <2>3. next.state # "interrupted" /\ next.updated \in Nat /\ m.updated \in Nat
    BY <1>1, <1>4, <1>7, <1>9 DEF Turn
  <2> HIDE DEF last, next
  <2>4. CASE t = last /\ h.at > last.updated
    <3>1. m.updated = h.at /\ m.updated <= next.updated
      BY <1>2, <1>6, <1>7, <2>4
    <3> QED
      BY <1>2, <1>4, <2>1, <2>2, <2>3, <2>4, <3>1
  <2>5. CASE t = last /\ ~(h.at > last.updated)
    <3>1. m.state = "interrupted" /\ m.updated = last.updated
      BY <1>2, <1>3, <2>1, <2>2, <2>5 DEF Ended
    <3>2. next # m /\ next \in turns \ {t} /\ m.updated <= next.updated
      BY <1>1, <1>6, <1>7, <2>3, <3>1
    <3>3. next.updated <= last.updated /\ next.updated # m.updated
      BY <1>2, <2>2, <3>2
    <3> QED
      BY <1>2, <2>2, <2>3, <3>1, <3>2, <3>3
  <2>6. CASE t # last
    <3>1. last \in turns' /\ last.updated <= next.updated /\ last.updated \in Nat
      BY <1>1, <1>2, <1>7, <2>2, <2>6
    <3>2. next # last
      BY <2>1, <2>3
    <3>3. next.updated # last.updated
      <4>1. CASE next = m
        BY <1>2, <2>2, <2>6, <4>1
      <4>2. CASE next \in turns
        BY <1>5, <2>2, <3>2, <4>2
      <4> QED
        BY <1>1, <1>7, <4>1, <4>2
    <3> QED
      BY <1>4, <2>1, <2>3, <3>1, <3>3
  <2> QED
    BY <2>4, <2>5, <2>6
<1> QED
  BY <1>8, <1>9

LEMMA RecordedOrder ==
  ASSUME NEW h \in hooks, NEW t \in Turn, Recorded(t, h)
  PROVE  OrderInv'
<1> DEFINE m == Merge(t, h)
<1>1. /\ turns' = (turns \ {t}) \cup {m} /\ m.native = t.native /\ h \in Hook
      /\ Cardinality(turns') = IF t \in turns THEN Cardinality(turns) ELSE Cardinality(turns) + 1
      /\ UNCHANGED <<provider, agent, stopping, now, stops, orderly>> /\ hooks' = hooks \ {h}
  BY RecordedTable
<1> SUFFICES ASSUME provider = "claude", orderly PROVE OrderInv'
  BY <1>1 DEF OrderInv
<1>2. /\ m.prompt = IF h.kind = "prompt" \/ (h.kind = "complete" /\ t.prompt = 0)
                      THEN h.turn ELSE t.prompt
      /\ m.message = IF h.kind = "complete" \/ (h.kind = "stop" /\ t.message = 0)
                       THEN h.turn ELSE t.message
      /\ t.state \notin Ended /\ h.kind \in {"prompt", "failure"} => m.state \notin Ended
  BY <1>1, Merged
<1>3. /\ h.at # 0 /\ h.at \in Nat /\ \A u \in turns : u.updated \in Nat
      /\ m.updated = IF t \in turns /\ ~(h.at > t.updated) THEN t.updated ELSE h.at
  BY RecordedTimes
<1>4. /\ hooks = {h} /\ h.turn = agent.turn
      /\ IF h.kind = "prompt" THEN agent.busy /\ Cardinality(turns) + 1 = agent.turn
                              ELSE ~agent.busy /\ Open(agent.turn)
      /\ h.kind # "prompt" => Cardinality(turns) = agent.turn
      /\ \A u \in turns : u.prompt = u.native /\ u.message \in {0, u.native}
      /\ \A u, v \in turns : u.native < v.native => u.updated < v.updated
      /\ \A u \in turns : u.updated < h.at
      /\ stopping # "marking"
  BY <1>3 DEF Recorded, TurnsIInv, OrderInv
<1>5. /\ h.kind \in {"prompt", "stop", "failure"} /\ Cardinality(turns) \in Nat
      /\ \A u \in turns : u.native \in 1..Cardinality(turns)
  <2>1. {u.native : u \in turns} = 1..Cardinality(turns) /\ h.kind \in {"prompt", "stop", "failure"}
    BY DEF Recorded, TurnsIInv, ClaudeInv
  <2> QED
    BY <2>1, FS_CardinalityType DEF Recorded, TurnsIInv
<1> HIDE DEF m
<1>6. hooks' = {}
  BY <1>1, <1>4
<1>7. m.updated = h.at
  BY <1>3, <1>4
<1>8. CASE h.kind = "prompt"
  <2>1. Fitting(h) = {}
    BY <1>4, <1>5, <1>8 DEF Fitting
  <2>2. t \notin turns /\ t = NewTurn(Cardinality(turns) + 1, h)
    BY <2>1, ClaudeRow
  <2>3. t.native = agent.turn /\ t.message = 0 /\ t.state \notin Ended
    BY <1>4, <1>8, <2>2 DEF NewTurn, Ended
  <2>4. m.prompt = m.native /\ m.message = 0 /\ m.native = agent.turn /\ m.state \notin Ended
    BY <1>1, <1>2, <1>4, <1>8, <2>3
  <2>5. Open(agent.turn)'
    BY <1>1, <2>4 DEF Open
  <2>6. Cardinality(turns') = agent.turn
    BY <1>1, <1>4, <1>8, <2>2
  <2>7. \A u \in turns : u.native < m.native
    BY <1>4, <1>5, <1>8, <2>4
  <2>8. \A u, v \in turns' : u.native < v.native => u.updated < v.updated
    <3> SUFFICES ASSUME NEW u \in turns', NEW v \in turns', u.native < v.native
                 PROVE  u.updated < v.updated
      OBVIOUS
    <3>1. m.native \in Nat /\ \A w \in turns : w.native \in Nat
      BY <1>4, <1>5, <1>8, <2>4
    <3>2. (u \in turns \/ u = m) /\ (v \in turns \/ v = m)
      BY <1>1
    <3>3. u \in turns
      BY <2>7, <3>1, <3>2
    <3>4. CASE v \in turns
      BY <1>4, <3>3, <3>4
    <3>5. CASE v = m
      BY <1>4, <1>7, <3>3, <3>5
    <3> QED
      BY <3>2, <3>4, <3>5
  <2>9. \A u \in turns' : u.prompt = u.native /\ u.message \in {0, u.native}
    BY <1>1, <1>4, <2>4
  <2> QED
    BY <1>1, <1>4, <1>6, <2>5, <2>6, <2>8, <2>9 DEF OrderInv
<1>9. CASE h.kind # "prompt"
  <2>1. PICK o \in turns : o.native = agent.turn /\ o.state \notin Ended
    BY <1>4, <1>9 DEF Open
  <2>2. o \in Fitting(h) /\ Fitting(h) \in SUBSET turns
    BY <1>9, <2>1 DEF Fitting
  <2>3. t \in turns /\ t = Latest(Fitting(h))
    BY <2>2, ClaudeRow
  <2>4. o.updated <= t.updated
    BY <2>2, <2>3 DEF Recorded, TurnsIInv, HasLatest, Latest
  <2>5. t.native = agent.turn
    BY <1>3, <1>4, <1>5, <1>9, <2>1, <2>3, <2>4
  <2>6. m.prompt = m.native /\ m.message \in {0, m.native}
    BY <1>1, <1>2, <1>4, <1>5, <1>9, <2>3, <2>5
  <2>7. Cardinality(turns') = agent.turn
    BY <1>1, <1>4, <1>9, <2>3
  <2>8. \A u \in turns \ {t} : u.native < t.native
    <3>1. \A u, v \in turns : u.native = v.native => u = v
      BY DEF Recorded, TurnsIInv, TurnsTypeOK
    <3> QED
      BY <1>4, <1>5, <1>9, <2>3, <2>5, <3>1
  <2>9. \A u, v \in turns' : u.native < v.native => u.updated < v.updated
    BY <1>1, <1>3, <1>4, <1>5, <1>7, <2>3, <2>8
  <2>10. \A u \in turns' : u.prompt = u.native /\ u.message \in {0, u.native}
    BY <1>1, <1>4, <2>6
  <2> QED
    BY <1>1, <1>4, <1>6, <1>9, <2>7, <2>9, <2>10 DEF OrderInv
<1> QED
  BY <1>8, <1>9

\* No event takes a prompt from its turn.
Stays == \A t \in turns : t.prompt # 0 =>
           \E u \in turns' : u.native = t.native /\ u.prompt = t.prompt

LEMMA RecordedStays ==
  ASSUME NEW h \in hooks, NEW t \in Turn, Recorded(t, h)
  PROVE  Stays
<1> DEFINE m == Merge(t, h)
<1>1. turns' = (turns \ {t}) \cup {m} /\ m.native = t.native /\ h \in Hook
  BY RecordedTable
<1>2. m.prompt = IF h.kind = "prompt" \/ (h.kind = "complete" /\ t.prompt = 0)
                   THEN h.turn ELSE t.prompt
  BY <1>1, Merged
<1> HIDE DEF m
<1> SUFFICES ASSUME t \in turns, t.prompt # 0, h.kind = "prompt"
             PROVE  m.prompt = t.prompt
  BY <1>1, <1>2 DEF Stays
<1>3. CASE provider = "claude"
  <2>1. t \in Fitting(h)
    BY <1>3, ClaudeRow
  <2> QED
    BY <2>1 DEF Fitting
<1>4. CASE provider = "codex"
  <2>1. t.native = h.turn
    BY <1>4 DEF Recorded, Row, NativeTurnID
  <2>2. t.prompt = t.native
    BY <1>4 DEF Recorded, TurnsIInv, CodexInv
  <2> QED
    BY <1>2, <2>1, <2>2
<1> QED
  BY <1>3, <1>4 DEF Recorded, TurnsIInv, TurnsTypeOK

Stands == chat.state = "interrupted" /\ chat'.state # "interrupted" => chat'.updated > chat.updated

LEMMA RecordKeeps ==
  ASSUME NEW h \in hooks, TurnsIInv, RecordHookEvent(h)
  PROVE  TurnsIInv' /\ Stays /\ Stands
<1>1. PICK t \in Turn : Recorded(t, h)
  BY RowOfEvent DEF Recorded
<1>2. /\ turns' \subseteq Turn /\ \A u, v \in turns' : u.native = v.native => u = v
      /\ IsFiniteSet(turns') /\ HasLatest(turns')
      /\ UNCHANGED <<provider, agent, stopping, now, stops, orderly>> /\ hooks' = hooks \ {h}
      /\ turns' # {}
  BY <1>1, RecordedTable
<1>3. chat' \in [present : BOOLEAN, state : States, prompt : Numbers, updated : Nat]
  <2>1. Latest(turns') \in Turn
    BY <1>2, LastRow
  <2>2. chat' = [present |-> TRUE, state |-> Latest(turns').state,
                 prompt |-> Latest(turns').prompt, updated |-> Latest(turns').updated]
    BY DEF RecordHookEvent
  <2> HIDE DEF Latest
  <2> QED
    BY <2>1, <2>2 DEF Turn
<1>4. TurnsTypeOK'
  BY <1>2, <1>3 DEF TurnsIInv, TurnsTypeOK
<1>5. IsFiniteSet(hooks')
  BY <1>2, FS_RemoveElement DEF TurnsIInv
<1>6. TimesInv' /\ ChatInv' /\ ClaudeInv' /\ CodexInv' /\ OrderInv' /\ Stays /\ Stands
  BY <1>1, RecordedTimes, RecordedChat, RecordedNumbers, RecordedOrder, RecordedStays DEF Stands
<1> QED
  BY <1>2, <1>4, <1>5, <1>6 DEF TurnsIInv

LEMMA TurnsNextKeeps ==
  TurnsIInv /\ [TurnsNext]_turnsVars => TurnsIInv' /\ [Stays]_turnsVars /\ [Stands]_turnsVars
<1> SUFFICES ASSUME TurnsIInv, [TurnsNext]_turnsVars
             PROVE  TurnsIInv' /\ [Stays]_turnsVars /\ [Stands]_turnsVars
  OBVIOUS
<1>1. CASE UNCHANGED turnsVars
  <2>1. TurnsIInv'
    BY <1>1
       DEF turnsVars, TurnsIInv, TurnsTypeOK, TimesInv, ChatInv, ClaudeInv, CodexInv, OrderInv,
           Open, Latest
  <2> QED
    BY <1>1, <2>1
<1>2. CASE PromptSubmitted \/ TurnEnds \/ StopBegins \/ AgentGone
  <2>1. UNCHANGED <<turns, chat>>
    BY <1>2 DEF PromptSubmitted, TurnEnds, StopBegins, AgentGone
  <2>2. Stays /\ Stands
    BY <2>1 DEF Stays, Stands
  <2> QED
    BY <1>2, <2>2, PromptKeeps, TurnEndsKeeps, StopBeginsKeeps, GoneKeeps
<1>3. ASSUME NEW h \in hooks, PrepareEvent(h) \/ EventLost(h)
      PROVE  TurnsIInv' /\ Stays /\ Stands
  <2>1. UNCHANGED <<turns, chat>>
    BY <1>3 DEF PrepareEvent, EventLost
  <2>2. Stays /\ Stands
    BY <2>1 DEF Stays, Stands
  <2> QED
    BY <1>3, <2>2, PrepareKeeps, LostKeeps
<1>4. CASE InterruptSession
  <2>1. Latest(turns) \in turns
    BY <1>4, LastRow DEF InterruptSession, TurnsIInv, ChatInv
  <2>2. Stays
    <3> DEFINE last == Latest(turns)
               new == [last EXCEPT !.state = "interrupted", !.updated = now + 1]
    <3>1. last \in Turn
      BY <2>1 DEF TurnsIInv, TurnsTypeOK
    <3>2. turns' = (turns \ {last}) \cup {new}
      BY <1>4 DEF InterruptSession
    <3> HIDE DEF last
    <3>3. new.native = last.native /\ new.prompt = last.prompt
      BY <3>1 DEF Turn
    <3> QED
      BY <3>2, <3>3 DEF Stays
  <2>3. chat'.state = "interrupted"
    BY <1>4 DEF InterruptSession, TurnsIInv, TurnsTypeOK
  <2> QED
    BY <1>4, <2>2, <2>3, InterruptKeeps DEF Stands
<1> QED
  BY <1>1, <1>2, <1>3, <1>4, RecordKeeps DEF TurnsNext

LEMMA TurnsInductive == TurnsSpec => []TurnsIInv
BY TurnsInitIInv, TurnsNextKeeps, PTL DEF TurnsSpec

-----------------------------------------------------------------------------
(* The theorems.                                                            *)

\* Types, and one row per turn ID.
THEOREM TurnsTypeCorrect == TurnsSpec => []TurnsTypeOK
<1>1. TurnsIInv => TurnsTypeOK
  BY DEF TurnsIInv
<1> QED
  BY <1>1, TurnsInductive, PTL

\* An answer stands beside its question: always for Codex, and for Claude, whose turns
\* the store guesses, while no hook failed or outlived its agent.
THEOREM AnswersBesideQuestions == TurnsSpec => []AnswersMatch
<1>1. TurnsIInv => AnswersMatch
  BY DEF TurnsIInv, TurnsTypeOK, OrderInv, CodexInv, AnswersMatch
<1> QED
  BY <1>1, TurnsInductive, PTL

\* No event takes a turn from its prompt or writes over it, in whatever order events
\* are recorded, and however many are lost.
THEOREM PromptsKept == TurnsSpec => PromptsStay
<1>1. Stays <=> \A t \in turns : t.prompt # 0 =>
                  \E u \in turns' : u.native = t.native /\ u.prompt = t.prompt
  BY DEF Stays
<1> QED
  BY <1>1, TurnsInitIInv, TurnsNextKeeps, PTL DEF TurnsSpec, PromptsStay

\* An event from before an interruption does not bring the conversation back to life.
THEOREM InterruptionsStand == TurnsSpec => InterruptionStands
<1>1. Stands <=> (chat.state = "interrupted" /\ chat'.state # "interrupted"
                    => chat'.updated > chat.updated)
  BY DEF Stands
<1> QED
  BY <1>1, TurnsInitIInv, TurnsNextKeeps, PTL DEF TurnsSpec, InterruptionStands

-----------------------------------------------------------------------------
(* Selection.                                                               *)

\* What comes first is what is chosen.
LEMMA FirstChosen ==
  ASSUME NEW a, NEW b, NEW c, NEW d, a # NoModel
  PROVE  First(<<a, b, c, d>>) = a
<1> DEFINE candidates == <<a, b, c, d>>
           valid == {i \in DOMAIN candidates : candidates[i] # NoModel}
<1>1. DOMAIN candidates = 1..4 /\ candidates[1] = a
  OBVIOUS
<1> HIDE DEF candidates
<1>2. 1 \in valid /\ \A i \in valid : i \in Nat /\ 1 <= i
  BY <1>1
<1>3. First(candidates) = candidates[CHOOSE i \in valid : \A j \in valid : i <= j]
  BY <1>2 DEF First
<1> HIDE DEF valid
<1>4. (CHOOSE i \in valid : \A j \in valid : i <= j) = 1
  BY <1>2
<1> QED
  BY <1>1, <1>3, <1>4 DEF candidates

LEMMA RequestedComesFirst ==
  ASSUME NEW r \in Remotes, remote[r].resume # NoSession,
         settings[remote[r].resume].requested # NoModel
  PROVE  NextModel(r) = settings[remote[r].resume].requested
BY FirstChosen DEF NextModel, ResolveClaudeSelection

LEMMA RequestedComesFirstNext ==
  ASSUME NEW r \in Remotes, remote'[r].resume # NoSession,
         settings'[remote'[r].resume].requested # NoModel
  PROVE  NextModel(r)' = settings'[remote'[r].resume].requested
BY FirstChosen DEF NextModel, ResolveClaudeSelection

Asked(c) ==
  \/ \E s \in Remotes : EndUpdate(s) \/ \E m \in Models : SwitchModel(s, m)
  \/ \E m \in Models : UsedElsewhere(c, m, TRUE)

\* What a conversation was asked to use changes only when the user asks.
LEMMA RequestStays ==
  ASSUME settings \in [Sessions -> Pair], SelectionNext, NEW r \in Remotes,
         NEW c \in Sessions, remote[r].resume = c, c # NoSession,
         settings[c].requested # NoModel
  PROVE  Asked(c) \/ settings'[c].requested = settings[c].requested
<1>1. ASSUME NEW b \in Sessions, NEW m \in Models, NEW intent \in BOOLEAN,
             UsedElsewhere(b, m, intent)
      PROVE  Asked(c) \/ settings'[c].requested = settings[c].requested
  <2>1. CASE b = c /\ intent
    BY <1>1, <2>1 DEF Asked
  <2>2. CASE b # c \/ ~intent
    <3>1. settings' = [settings EXCEPT ![b] = [model |-> m,
                         requested |-> IF intent THEN m ELSE settings[b].requested]]
      BY <1>1 DEF UsedElsewhere, Settled
    <3> QED
      BY <2>2, <3>1
  <2> QED
    BY <2>1, <2>2
<1>2. ASSUME NEW b \in Sessions, CleanupOrphanMetadata(b)
      PROVE  settings'[c].requested = settings[c].requested
  BY <1>2 DEF CleanupOrphanMetadata
<1>3. ASSUME NEW s \in Remotes, NEW m \in Models, Observe(s, m)
      PROVE  settings'[c].requested = settings[c].requested
  BY <1>3 DEF Observe, RecordSettings, Settled
<1>4. ASSUME NEW s \in Remotes, StartRemote(s)
      PROVE  settings'[c].requested = settings[c].requested
  <2>1. settings' = [b \in Sessions |-> IF b = remote[s].resume
                       THEN [settings[b] EXCEPT !.requested = NextModel(s)] ELSE settings[b]]
    BY <1>4 DEF StartRemote, RequestedOfSession
  <2>2. CASE remote[s].resume = c
    <3>1. NextModel(s) = settings[c].requested
      BY <2>2, RequestedComesFirst
    <3>2. settings[c] \in Pair
      OBVIOUS
    <3> QED
      BY <2>1, <2>2, <3>1, <3>2 DEF Pair
  <2>3. CASE remote[s].resume # c
    BY <2>1, <2>3
  <2> QED
    BY <2>2, <2>3
<1>5. ASSUME NEW s \in Remotes,
             \/ \E b \in Sessions : AdoptSession(s, b)
             \/ \E b \in Sessions \cup {NoSession}, m \in Models \cup {NoModel} :
                  BeginUpdate(s, b, m)
      PROVE  settings'[c].requested = settings[c].requested
  BY <1>5 DEF AdoptSession, BeginUpdate
<1>6. ASSUME NEW s \in Remotes, EndUpdate(s) \/ \E m \in Models : SwitchModel(s, m)
      PROVE  Asked(c)
  BY <1>6 DEF Asked
<1> QED
  BY <1>1, <1>2, <1>3, <1>4, <1>5, <1>6 DEF SelectionNext

\* A model is resolved in any case.
LEMMA FirstIsModel ==
  ASSUME NEW a \in Models \cup {NoModel}, NEW b \in Models \cup {NoModel},
         NEW c \in Models \cup {NoModel}, NEW d \in Models \cup {NoModel}
  PROVE  First(<<a, b, c, d>>) \in Models
<1> DEFINE candidates == <<a, b, c, d>>
           valid == {i \in DOMAIN candidates : candidates[i] # NoModel}
<1>1. DOMAIN candidates = 1..4 /\ \A i \in 1..4 : candidates[i] \in Models \cup {NoModel}
  OBVIOUS
<1> HIDE DEF candidates
<1>2. valid \subseteq 1..4 /\ \A i \in valid : candidates[i] \in Models
  BY <1>1
<1>3. First(candidates) = IF valid = {} THEN DefaultModel
                          ELSE candidates[CHOOSE i \in valid : \A j \in valid : i <= j]
  BY DEF First
<1> HIDE DEF valid
<1>4. CASE valid # {}
  <2>1. \E i \in valid : \A j \in valid : i <= j
    <3>1. CASE 1 \in valid
      BY <1>2, <3>1
    <3>2. CASE 1 \notin valid /\ 2 \in valid
      BY <1>2, <3>2
    <3>3. CASE 1 \notin valid /\ 2 \notin valid /\ 3 \in valid
      BY <1>2, <3>3
    <3>4. CASE 1 \notin valid /\ 2 \notin valid /\ 3 \notin valid
      <4>1. ASSUME NEW j \in valid PROVE j = 4
        <5>1. j \in 1..4 /\ j # 1 /\ j # 2 /\ j # 3
          BY <1>2, <3>4
        <5> QED
          BY <5>1
      <4>2. 4 \in valid
        BY <1>4, <4>1
      <4> QED
        BY <4>1, <4>2
    <3> QED
      BY <3>1, <3>2, <3>3, <3>4
  <2>2. (CHOOSE i \in valid : \A j \in valid : i <= j) \in valid
    BY <2>1
  <2> QED
    BY <1>2, <1>3, <1>4, <2>2 DEF candidates
<1>5. CASE valid = {}
  BY <1>3, <1>5, SelectionAssumption DEF candidates
<1> QED
  BY <1>4, <1>5

LEMMA ResolvedIsModel ==
  ASSUME NEW conversation \in Pair, NEW slot \in Pair
  PROVE  ResolveClaudeSelection(conversation, slot) \in Models
BY FirstIsModel DEF ResolveClaudeSelection, Pair

LEMMA RowsArePairs ==
  ASSUME SelectionTypeOK
  PROVE  /\ Unset \in Pair /\ \A r \in Remotes : PairOf(remote[r]) \in Pair
         /\ \A c \in Sessions \cup {NoSession} :
              (IF c = NoSession THEN Unset ELSE settings[c]) \in Pair
         /\ \A r \in Remotes : NextModel(r) \in Models
<1>1. Unset \in Pair /\ \A r \in Remotes : PairOf(remote[r]) \in Pair
  BY DEF SelectionTypeOK, Unset, Pair, PairOf
<1>2. \A c \in Sessions \cup {NoSession} : (IF c = NoSession THEN Unset ELSE settings[c]) \in Pair
  BY <1>1 DEF SelectionTypeOK
<1>3. \A r \in Remotes : remote[r].resume \in Sessions \cup {NoSession}
  BY DEF SelectionTypeOK
<1> HIDE DEF Unset, Pair
<1>4. \A r \in Remotes : NextModel(r) \in Models
  BY <1>1, <1>2, <1>3, ResolvedIsModel DEF NextModel
<1> QED
  BY <1>1, <1>2, <1>4

RemoteRow == [resume : Sessions \cup {NoSession}, model : Models \cup {NoModel},
              requested : Models \cup {NoModel}, observed : BOOLEAN]

\* The parts of the types.
LEMMA SelectionTypes ==
  SelectionTypeOK <=> /\ remote \in [Remotes -> RemoteRow]
                      /\ settings \in [Sessions -> Pair]
                      /\ talk \in [Remotes -> [open : BOOLEAN, session : Sessions \cup {NoSession}]]
                      /\ edit \in {Idle} \cup Updates
BY DEF SelectionTypeOK, RemoteRow

LEMMA RequestedOfSessionTyped ==
  ASSUME SelectionTypeOK, NEW resume, NEW m \in Models
  PROVE  RequestedOfSession(resume, m) \in [Sessions -> Pair]
BY DEF SelectionTypeOK, RequestedOfSession, Pair

LEMMA SettledTyped ==
  ASSUME NEW pair \in Pair, NEW m \in Models, NEW intent \in BOOLEAN
  PROVE  Settled(pair, m, intent) \in Pair
BY DEF Settled, Pair

LEMMA RecordSettingsTyped ==
  ASSUME SelectionTypeOK, NEW r \in Remotes, NEW m \in Models, NEW intent \in BOOLEAN,
         RecordSettings(r, m, intent)
  PROVE  SelectionTypeOK'
<1> DEFINE c == talk[r].session
           pair == Settled(PairOf(remote[r]), m, intent)
<1>1. remote[r] \in RemoteRow /\ settings \in [Sessions -> Pair] /\ remote \in [Remotes -> RemoteRow]
  BY SelectionTypes
<1>2. c \in Sessions
  BY DEF RecordSettings, Accepts, SelectionTypeOK
<1>3. pair \in Pair /\ Settled(settings[c], m, intent) \in Pair
  BY <1>1, <1>2, RowsArePairs, SettledTyped
<1>4. /\ settings' = [settings EXCEPT ![c] = Settled(settings[c], m, intent)]
      /\ remote' = [remote EXCEPT ![r].model = pair.model, ![r].requested = pair.requested,
                                  ![r].observed = TRUE]
      /\ UNCHANGED <<talk, edit>>
  BY <1>1, <1>2 DEF RecordSettings
<1> HIDE DEF pair, c
<1>5. settings' \in [Sessions -> Pair]
  BY <1>1, <1>3, <1>4
<1>6. remote' \in [Remotes -> RemoteRow]
  BY <1>1, <1>3, <1>4 DEF RemoteRow, Pair
<1> QED
  BY <1>4, <1>5, <1>6 DEF SelectionTypeOK, RemoteRow

LEMMA BeginUpdateTyped ==
  ASSUME SelectionTypeOK, NEW r \in Remotes, NEW resume \in Sessions \cup {NoSession},
         NEW override \in Models \cup {NoModel}, BeginUpdate(r, resume, override)
  PROVE  SelectionTypeOK'
<1>1. PICK selected \in IF override # NoModel THEN {override}
                        ELSE IF resume = remote[r].resume THEN {NextModel(r)}
                        ELSE ResolveRemoteSelection(resume, Unset) :
        edit' = [at |-> "stopping", slot |-> r, resume |-> resume, selected |-> selected]
  BY DEF BeginUpdate
<1>2. \A m \in ResolveRemoteSelection(resume, Unset) : m \in Models
  <2> DEFINE own == IF resume = NoSession THEN Unset ELSE settings[resume]
             others == IF Unset = Unset /\ resume # NoSession /\ SourceSlots(resume) # {}
                         THEN {PairOf(remote[s]) : s \in SourceSlots(resume)} ELSE {Unset}
  <2>1. own \in Pair /\ others \subseteq Pair
    BY RowsArePairs DEF SourceSlots
  <2>2. ResolveRemoteSelection(resume, Unset) = {ResolveClaudeSelection(own, f) : f \in others}
    BY DEF ResolveRemoteSelection
  <2> HIDE DEF own, others
  <2> QED
    BY <2>1, <2>2, ResolvedIsModel
<1>3. selected \in Models
  BY <1>1, <1>2, RowsArePairs
<1>4. edit' \in Updates
  BY <1>1, <1>3 DEF Updates
<1> QED
  BY <1>4 DEF BeginUpdate, SelectionTypeOK

LEMMA EndUpdateTyped ==
  ASSUME SelectionTypeOK, NEW r \in Remotes, EndUpdate(r)
  PROVE  SelectionTypeOK'
<1>1. edit \in Updates
  BY DEF EndUpdate, SelectionTypeOK
<1>2. edit.resume \in Sessions \cup {NoSession} /\ edit.selected \in Models
  BY <1>1 DEF Updates
<1>3. settings' \in [Sessions -> Pair]
  BY <1>2, RequestedOfSessionTyped DEF EndUpdate
<1>4. [resume |-> edit.resume, model |-> edit.selected, requested |-> edit.selected,
       observed |-> FALSE] \in RemoteRow
  BY <1>2 DEF RemoteRow
<1>5. remote' \in [Remotes -> RemoteRow]
  BY <1>4, SelectionTypes DEF EndUpdate
<1>6. talk' \in [Remotes -> [open : BOOLEAN, session : Sessions \cup {NoSession}]]
  BY DEF EndUpdate, SelectionTypeOK
<1> QED
  BY <1>3, <1>5, <1>6 DEF EndUpdate, SelectionTypeOK, RemoteRow

LEMMA StartRemoteTyped ==
  ASSUME SelectionTypeOK, NEW r \in Remotes, StartRemote(r)
  PROVE  SelectionTypeOK'
<1>1. NextModel(r) \in Models
  BY RowsArePairs
<1>2. settings' \in [Sessions -> Pair]
  BY <1>1, RequestedOfSessionTyped DEF StartRemote
<1>3. Requested(remote[r], NextModel(r)) \in RemoteRow
  BY <1>1, SelectionTypes DEF Requested, RemoteRow
<1>4. remote' \in [Remotes -> RemoteRow]
  BY <1>3, SelectionTypes DEF StartRemote
<1>5. talk' \in [Remotes -> [open : BOOLEAN, session : Sessions \cup {NoSession}]]
  BY DEF StartRemote, SelectionTypeOK
<1> QED
  BY <1>2, <1>4, <1>5 DEF StartRemote, SelectionTypeOK, RemoteRow

LEMMA SelectionStepTyped ==
  ASSUME SelectionTypeOK, SelectionNext
  PROVE  SelectionTypeOK'
<1>1. ASSUME NEW b \in Sessions, NEW m \in Models, NEW intent \in BOOLEAN,
             UsedElsewhere(b, m, intent)
      PROVE  SelectionTypeOK'
  <2>1. Settled(settings[b], m, intent) \in Pair
    BY SettledTyped DEF SelectionTypeOK
  <2> QED
    BY <1>1, <2>1 DEF UsedElsewhere, SelectionTypeOK
<1>2. ASSUME NEW b \in Sessions, CleanupOrphanMetadata(b) PROVE SelectionTypeOK'
  BY <1>2, RowsArePairs DEF CleanupOrphanMetadata, SelectionTypeOK
<1>3. ASSUME NEW r \in Remotes, NEW c \in Sessions, AdoptSession(r, c) PROVE SelectionTypeOK'
  BY <1>3 DEF AdoptSession, SelectionTypeOK
<1>4. ASSUME NEW r \in Remotes, NEW m \in Models, Observe(r, m) \/ SwitchModel(r, m)
      PROVE  SelectionTypeOK'
  BY <1>4, RecordSettingsTyped DEF Observe, SwitchModel
<1> QED
  BY <1>1, <1>2, <1>3, <1>4, BeginUpdateTyped, EndUpdateTyped, StartRemoteTyped
     DEF SelectionNext

\* A model is resolved for every launch; the tables keep their types.
THEOREM SelectionTypeCorrect == SelectionSpec => []SelectionTypeOK
<1>1. SelectionInit => SelectionTypeOK
  BY DEF SelectionInit, SelectionTypeOK, Unset, Pair
<1>2. SelectionTypeOK /\ [SelectionNext]_selectionVars => SelectionTypeOK'
  <2>1. SelectionTypeOK /\ UNCHANGED selectionVars => SelectionTypeOK'
    BY DEF selectionVars, SelectionTypeOK
  <2> QED
    BY <2>1, SelectionStepTyped
<1> QED
  BY <1>1, <1>2, PTL DEF SelectionSpec

\* What the user asked for a conversation is what its slot is started with until the
\* user asks again: no observation, restart or use of the conversation replaces it.
THEOREM ChoiceKept == SelectionSpec => ChoiceIsKept
<1> DEFINE Kept == \A r \in Remotes :
             LET c == remote[r].resume IN
             c # NoSession /\ remote'[r].resume = c /\ settings[c].requested # NoModel
               /\ NextModel(r)' # NextModel(r)
             => \/ \E s \in Remotes : EndUpdate(s) \/ \E m \in Models : SwitchModel(s, m)
                \/ \E m \in Models : UsedElsewhere(c, m, TRUE)
<1>1. ASSUME SelectionTypeOK, SelectionNext PROVE Kept
  <2> SUFFICES ASSUME NEW r \in Remotes, NEW c \in Sessions, remote[r].resume = c, c # NoSession,
                      remote'[r].resume = c, settings[c].requested # NoModel,
                      NextModel(r)' # NextModel(r)
               PROVE  Asked(c)
    <3>1. \A r \in Remotes : remote[r].resume \in Sessions \cup {NoSession}
      BY <1>1 DEF SelectionTypeOK
    <3> QED
      BY <3>1 DEF Asked
  <2>1. NextModel(r) = settings[c].requested
    BY RequestedComesFirst
  <2>2. settings'[c].requested = settings[c].requested => NextModel(r)' = settings[c].requested
    BY RequestedComesFirstNext
  <2>3. Asked(c) \/ settings'[c].requested = settings[c].requested
    BY <1>1, RequestStays DEF SelectionTypeOK
  <2> QED
    BY <2>1, <2>2, <2>3
<1>2. SelectionTypeOK /\ [SelectionNext]_selectionVars => [Kept]_selectionVars
  BY <1>1
<1> QED
  BY <1>2, SelectionTypeCorrect, PTL DEF SelectionSpec, ChoiceIsKept

=============================================================================
