----------------------------- MODULE Selection -----------------------------
(***************************************************************************)
(* Which model a worker is launched with: what was requested, what was     *)
(* observed, and the defaults (store/selection.go, model/selection.go).    *)
(*                                                                         *)
(* A slot's row and a table of conversations each hold a requested and an  *)
(* observed model. The dashboard's operations, the start of a worker and   *)
(* the hooks write both. The effort is resolved in the same way and on its *)
(* own; it is left out. The slots here share an account and a workspace:   *)
(* a hook of another place is refused.                                     *)
(***************************************************************************)
EXTENDS Naturals

CONSTANTS
  Sessions,      \* Claude conversations
  Remotes,       \* session slots
  Models,        \* valid model names
  DefaultModel,  \* "opus"
  NoModel,       \* the empty string
  NoSession      \* the empty string

ASSUME SelectionAssumption ==
  DefaultModel \in Models /\ NoModel \notin Models /\ NoSession \notin Sessions

VARIABLES
  remote,    \* the slots' rows of remote_sessions
  settings,  \* session_agents, by conversation; empty fields when there is no row
  talk,      \* of each slot: the activity run is open, and the conversation it adopted
  edit       \* the update that holds opMu, with what it read before the stop

selectionVars == <<remote, settings, talk, edit>>

Pair == [model : Models \cup {NoModel}, requested : Models \cup {NoModel}]
Unset == [model |-> NoModel, requested |-> NoModel]
Idle == [at |-> "idle"]
Updates == [at : {"stopping"}, slot : Remotes, resume : Sessions \cup {NoSession},
            selected : Models]

SelectionInit ==
  /\ remote = [r \in Remotes |-> [resume |-> NoSession, model |-> NoModel,
                                  requested |-> NoModel, observed |-> FALSE]]
  /\ settings = [c \in Sessions |-> Unset]
  /\ talk = [r \in Remotes |-> [open |-> FALSE, session |-> NoSession]]
  /\ edit = Idle

-----------------------------------------------------------------------------
(* Resolution.                                                             *)

First(candidates) ==
  LET valid == {i \in DOMAIN candidates : candidates[i] # NoModel}
  IN IF valid = {} THEN DefaultModel
     ELSE candidates[CHOOSE i \in valid : \A j \in valid : i <= j]

\* Mutant: what was observed comes before what was requested.
ResolveObserved(conversation, slot) ==
  First(<<conversation.model, conversation.requested, slot.requested, slot.model>>)

ResolveClaudeSelection(conversation, slot) ==
  First(<<conversation.requested, conversation.model, slot.requested, slot.model>>)

PairOf(row) == [model |-> row.model, requested |-> row.requested]

\* The fallback of an operation that has no row of its own: a slot that is linked to
\* the conversation.
SourceSlots(resume) == {r \in Remotes : remote[r].resume = resume}

ResolveRemoteSelection(resume, fallback) ==
  {ResolveClaudeSelection(IF resume = NoSession THEN Unset ELSE settings[resume], f) :
     f \in IF fallback = Unset /\ resume # NoSession /\ SourceSlots(resume) # {}
           THEN {PairOf(remote[s]) : s \in SourceSlots(resume)} ELSE {fallback}}

\* The model the next launch of a slot would take.
NextModel(r) ==
  ResolveClaudeSelection(
    IF remote[r].resume = NoSession THEN Unset ELSE settings[remote[r].resume],
    PairOf(remote[r]))

\* SetRemoteRequestedSelection, on the row a preceding write left
Requested(row, selected) ==
  [row EXCEPT !.requested = selected, !.model = IF row.observed THEN @ ELSE selected]

RequestedOfSession(resume, selected) ==
  [c \in Sessions |-> IF c = resume THEN [settings[c] EXCEPT !.requested = selected]
                                    ELSE settings[c]]

-----------------------------------------------------------------------------
(* The hooks (RecordManagedAgentSettings, RecordWorkerActivity).           *)

Accepts(r) ==
  talk[r].open /\ talk[r].session # NoSession /\ remote[r].resume = talk[r].session

\* A SessionStart or prompt hook moves the slot to the conversation it is talking in.
AdoptSession(r, c) ==
  /\ talk[r].open /\ talk[r].session # c
  /\ talk' = [talk EXCEPT ![r].session = c]
  /\ remote' = [remote EXCEPT ![r].resume = c]
  /\ UNCHANGED <<settings, edit>>

Settled(pair, m, intent) ==
  [model |-> m, requested |-> IF intent THEN m ELSE pair.requested]

RecordSettings(r, m, intent) ==
  /\ Accepts(r)
  /\ LET c == talk[r].session
         pair == Settled(PairOf(remote[r]), m, intent)
     IN /\ settings' = [settings EXCEPT ![c] = Settled(@, m, intent)]
        /\ remote' = [remote EXCEPT ![r].model = pair.model, ![r].requested = pair.requested,
                                    ![r].observed = TRUE]
  /\ UNCHANGED <<talk, edit>>

\* SessionStart, or a switch Claude made on its own: only observed.
Observe(r, m) == RecordSettings(r, m, FALSE)

\* PostModelSwitch from a command, the picker or the SDK: the user's intent.
SwitchModel(r, m) == RecordSettings(r, m, TRUE)

\* RecordAgentSettings: the conversation is used outside the slots.
UsedElsewhere(c, m, intent) ==
  /\ settings' = [settings EXCEPT ![c] = Settled(@, m, intent)]
  /\ UNCHANGED <<remote, talk, edit>>

\* CleanupOrphanMetadata: an old row of a conversation that has no checkpoint any more
\* and that no slot resumes.
CleanupOrphanMetadata(c) ==
  /\ \A r \in Remotes : remote[r].resume # c
  /\ settings' = [settings EXCEPT ![c] = Unset]
  /\ UNCHANGED <<remote, talk, edit>>

-----------------------------------------------------------------------------
(* The dashboard.                                                          *)

\* createSlotOp, and updateSlotOp until it stops the worker: an override, or what is
\* resolved for the conversation; a change of it forgets the row's own models.
BeginUpdate(r, resume, override) ==
  /\ edit = Idle
  /\ \E selected \in IF override # NoModel THEN {override}
                     ELSE IF resume = remote[r].resume THEN {NextModel(r)}
                     ELSE ResolveRemoteSelection(resume, Unset) :
       edit' = [at |-> "stopping", slot |-> r, resume |-> resume, selected |-> selected]
  /\ UNCHANGED <<remote, settings, talk>>

\* The rest of it, and the start of the worker.
EndUpdate(r) ==
  /\ edit # Idle /\ edit.slot = r
  /\ remote' = [remote EXCEPT ![r] = [resume |-> edit.resume, model |-> edit.selected,
                                      requested |-> edit.selected, observed |-> FALSE]]
  /\ settings' = RequestedOfSession(edit.resume, edit.selected)
  /\ talk' = [talk EXCEPT ![r] = [open |-> TRUE, session |-> NoSession]]
  /\ edit' = Idle

\* startRemote, or storedAgent of a supervised restart, which does not need opMu
StartRemote(r) ==
  /\ remote[r].requested # NoModel
  /\ edit = Idle \/ talk[r].open
  /\ remote' = [remote EXCEPT ![r] = Requested(@, NextModel(r))]
  /\ settings' = RequestedOfSession(remote[r].resume, NextModel(r))
  /\ talk' = [talk EXCEPT ![r] = [open |-> TRUE, session |-> NoSession]]
  /\ UNCHANGED edit

SelectionNext ==
  \/ \E c \in Sessions, m \in Models, intent \in BOOLEAN : UsedElsewhere(c, m, intent)
  \/ \E c \in Sessions : CleanupOrphanMetadata(c)
  \/ \E r \in Remotes :
       \/ \E c \in Sessions : AdoptSession(r, c)
       \/ \E m \in Models : Observe(r, m) \/ SwitchModel(r, m)
       \/ \E c \in Sessions \cup {NoSession}, m \in Models \cup {NoModel} : BeginUpdate(r, c, m)
       \/ EndUpdate(r)
       \/ StartRemote(r)

SelectionSpec == SelectionInit /\ [][SelectionNext]_selectionVars

-----------------------------------------------------------------------------
(* Properties.                                                             *)

SelectionTypeOK ==
  /\ remote \in [Remotes -> [resume : Sessions \cup {NoSession}, model : Models \cup {NoModel},
                             requested : Models \cup {NoModel}, observed : BOOLEAN]]
  /\ settings \in [Sessions -> Pair]
  /\ talk \in [Remotes -> [open : BOOLEAN, session : Sessions \cup {NoSession}]]
  /\ edit \in {Idle} \cup Updates

\* What the user asked for a conversation is what its slot is started with until the
\* user asks again: no observation, restart, or use of the conversation in another slot
\* replaces it. An update that stopped its worker in between writes what it has read.
ChoiceIsKept ==
  [][\A r \in Remotes :
       LET c == remote[r].resume IN
       c # NoSession /\ remote'[r].resume = c /\ settings[c].requested # NoModel
         /\ NextModel(r)' # NextModel(r)
       => \/ \E s \in Remotes : EndUpdate(s) \/ \E m \in Models : SwitchModel(s, m)
          \/ \E m \in Models : UsedElsewhere(c, m, TRUE)]_selectionVars

\* README.md: an automatic fallback updates the observation only. Violated: the
\* conversation of a slot that started without one has no request of its own, and what
\* was observed in it comes before what was requested of the slot (selection.go:35).
FallbackObservesOnly ==
  [][\A r \in Remotes, m \in Models :
       Observe(r, m) => NextModel(r)' = NextModel(r)]_selectionVars

=============================================================================
