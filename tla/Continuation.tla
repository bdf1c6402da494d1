---------------------------- MODULE Continuation ----------------------------
(***************************************************************************)
(* The automatic continuation of a conversation in another Claude account  *)
(* (server/continuation.go, server/session_handoff.go,                     *)
(* checkpoint/continuation.go, runHook in cmd/vibe-remote/main.go).        *)
(*                                                                         *)
(* The daemon stops the source slot, writes the checkpoint to a file of    *)
(* the destination slot and starts that slot; its worker is given a prompt *)
(* of its own when the file is there, and the hook of that prompt attaches *)
(* the file's text and removes it. The operation can fail at every step    *)
(* and be tried again, the daemon can die, the worker can die and be       *)
(* restarted, and a hook can fail or outlive its worker. A hook refuses    *)
(* the prompt by its exit code only; one that cannot open the store, runs  *)
(* out of its three seconds, is killed, or whose report is not accepted    *)
(* lets it go ahead. What a hook wrote before it died is taken as          *)
(* attached. One source and one destination, whose slot id is the hash of  *)
(* the two.                                                                *)
(***************************************************************************)
EXTENDS Naturals, FiniteSets

CONSTANTS
  PromptHooks,  \* bound: hook processes at one time
  MaxTalks      \* bound: conversations the destination opens

ASSUME ContinuationAssumption == MaxTalks \in Nat /\ IsFiniteSet(PromptHooks)

VARIABLES
  source,  \* the source slot: "running" or "stopped"
  dest,    \* the destination's row: none, or what is desired; and the conversation it resumes
  file,    \* the destination's checkpoint file is there
  op,      \* the operation that holds opMu
  claude,   \* the destination's worker: whether its own prompt waits, in which conversation
  hook,    \* the prompt hooks: where they are, what they loaded, for which conversation
  talks,   \* conversations opened
  given    \* conversations the saved checkpoint was written to

continuationVars == <<source, dest, file, op, claude, hook, talks, given>>

Talks == 1..MaxTalks
Ops == {"none", "continue", "source", "capture", "create", "want", "launch"}

NoHook == [at |-> "none", loaded |-> FALSE, talk |-> 0]
NoAgent == [at |-> "down", talk |-> 0]

ContinuationInit ==
  /\ source = "running"
  /\ dest = [desired |-> "none", resume |-> 0]
  /\ file = FALSE
  /\ op = "none"
  /\ claude = NoAgent
  /\ hook = [h \in PromptHooks |-> NoHook]
  /\ talks = 0
  /\ given = {}

Exists == dest.desired # "none"

-----------------------------------------------------------------------------
(* continueClaude.                                                         *)

\* handoffSlotOp stops its slot first; what follows may still fail.
HandoffSlot ==
  /\ op = "none"
  /\ source' = "stopped" /\ op' \in {"continue", "none"}
  /\ UNCHANGED <<dest, file, claude, hook, talks, given>>

\* createHandoffOp, from the list of conversations.
CreateHandoff ==
  /\ op = "none"
  /\ op' = "continue"
  /\ UNCHANGED <<source, dest, file, claude, hook, talks, given>>

\* With a destination, a retry starts it again and one that runs is left alone; without
\* one the source is stopped first.
ContinueClaude ==
  /\ op = "continue"
  /\ op' = IF ~Exists THEN "source" ELSE IF claude.at = "down" THEN "want" ELSE "none"
  /\ UNCHANGED <<source, dest, file, claude, hook, talks, given>>

\* Any step may fail and end the operation.
ContinueFails ==
  /\ op \in {"continue", "source", "capture"}
  /\ op' = "none"
  /\ UNCHANGED <<source, dest, file, claude, hook, talks, given>>

StopSource ==
  /\ op = "source"
  /\ source' = "stopped" /\ op' = "capture"
  /\ UNCHANGED <<dest, file, claude, hook, talks, given>>

\* SaveContinuation: a temporary file renamed into place.
SaveContinuation ==
  /\ op = "capture"
  /\ file' = TRUE /\ op' = "create" /\ given' = {}
  /\ UNCHANGED <<source, dest, claude, hook, talks>>

\* UpsertRemoteSession writes the row and reads it back; either can fail, and then
\* the file is removed.
CreateDestination ==
  /\ op = "create"
  /\ \/ dest' = [desired |-> "stopped", resume |-> 0] /\ op' = "want" /\ UNCHANGED file
     \/ dest' = [desired |-> "stopped", resume |-> 0] /\ op' = "none" /\ file' = FALSE
     \/ op' = "none" /\ file' = FALSE /\ UNCHANGED dest
  /\ UNCHANGED <<source, claude, hook, talks, given>>

\* SetRemoteSessionDesired writes and reads back, too.
WantDestination ==
  /\ op = "want"
  /\ \/ dest' = [dest EXCEPT !.desired = "running"] /\ op' \in {"launch", "none"}
     \/ op' = "none" /\ UNCHANGED dest
  /\ UNCHANGED <<source, file, claude, hook, talks, given>>

\* Manager.start: the conversation to resume, or a new one, and a prompt if there is a
\* checkpoint.
StartAgent ==
  /\ dest.resume = 0 => talks < MaxTalks
  /\ talks' = IF dest.resume = 0 THEN talks + 1 ELSE talks
  /\ claude' = [at |-> IF file THEN "prompt" ELSE "works",
               talk |-> IF dest.resume = 0 THEN talks + 1 ELSE dest.resume]

LaunchDestination ==
  /\ op = "launch"
  /\ op' = "none"
  /\ \/ StartAgent /\ UNCHANGED dest
     \/ dest' = [dest EXCEPT !.desired = "stopped"] /\ UNCHANGED <<claude, talks>>
  /\ UNCHANGED <<source, file, hook, given>>

-----------------------------------------------------------------------------
(* The rest of the daemon, as far as the destination meets it.             *)

\* A supervised restart after the worker died, or the restore after the daemon did.
Restart ==
  /\ op = "none" /\ dest.desired = "running" /\ claude.at = "down"
  /\ StartAgent
  /\ UNCHANGED <<source, dest, file, op, hook, given>>

\* A hook that outlives its worker is of no conversation that waits for it.
Orphans == [h \in PromptHooks |-> [hook[h] EXCEPT !.talk = 0]]

\* The worker's process dies, or the user stops the slot.
AgentStops ==
  /\ claude.at # "down" /\ op = "none"
  /\ claude' = NoAgent /\ hook' = Orphans
  /\ dest' \in {dest, [dest EXCEPT !.desired = "stopped"]}
  /\ UNCHANGED <<source, file, op, talks, given>>

\* The user removes a stopped destination: its file stays where it is. Its hooks,
\* which have two and a half seconds, have ended by then.
RemoveDestination ==
  /\ Exists /\ claude.at = "down" /\ op = "none"
  /\ \A h \in PromptHooks : hook[h] = NoHook
  /\ dest' = [desired |-> "none", resume |-> 0]
  /\ UNCHANGED <<source, file, op, claude, hook, talks, given>>

\* The user starts the source again; opMu keeps that out of a running operation.
StartSource ==
  /\ source = "stopped" /\ op = "none"
  /\ source' = "running"
  /\ UNCHANGED <<dest, file, op, claude, hook, talks, given>>

DaemonCrashes ==
  /\ op # "none"
  /\ op' = "none" /\ claude' = NoAgent /\ hook' = Orphans
  /\ UNCHANGED <<source, dest, file, talks, given>>

-----------------------------------------------------------------------------
(* The hook of the worker's own prompt.                                    *)

\* The prompt is submitted; the store does not open within half a second, which is no
\* continuationHookError, or the hook dies before it reads the file.
HookUnopened(h) ==
  /\ claude.at = "prompt" /\ hook[h].at = "none"
  /\ claude' = [claude EXCEPT !.at = "hooked"]
  /\ hook' = [hook EXCEPT ![h] = [at |-> "silent", loaded |-> FALSE, talk |-> claude.talk]]
  /\ UNCHANGED <<source, dest, file, op, talks, given>>

\* The prompt is submitted, and LoadContinuation reads the file; when it cannot, the
\* prompt is refused and waits as before.
HookLoads(h) ==
  /\ claude.at = "prompt" /\ hook[h].at = "none"
  /\ claude' = [claude EXCEPT !.at = "hooked"]
  /\ hook' = [hook EXCEPT ![h] = [at |-> "loaded", loaded |-> file, talk |-> claude.talk]]
  /\ UNCHANGED <<source, dest, file, op, talks, given>>

Waits(h) == claude.at = "hooked" /\ claude.talk = hook[h].talk

\* The hook's exit: with a checkpoint that was not attached the prompt is refused and
\* waits to be tried again, otherwise it goes ahead.
Exit(h, refused) ==
  /\ hook' = [hook EXCEPT ![h] = NoHook]
  /\ claude' = IF Waits(h) THEN [claude EXCEPT !.at = IF refused THEN "prompt" ELSE "works"] ELSE claude

\* Mutant: a failed hook does not stop the prompt.
HookFailsQuietly(h) ==
  /\ hook[h].at \in {"loaded", "recorded"}
  /\ Exit(h, FALSE)
  /\ UNCHANGED <<source, dest, file, op, talks, given>>

\* HandleStdin fails, or its answer cannot be written: continuationHookError.
HookFails(h) ==
  /\ hook[h].at \in {"loaded", "recorded"}
  /\ Exit(h, hook[h].loaded)
  /\ UNCHANGED <<source, dest, file, op, talks, given>>

\* HandleStdin: the slot adopts the conversation, if the report is of its current run,
\* and the prompt is recorded.
HookRecords(h) ==
  /\ hook[h].at = "loaded"
  /\ hook' = [hook EXCEPT ![h].at = "recorded"]
  /\ dest' = IF Exists /\ Waits(h) THEN [dest EXCEPT !.resume = hook[h].talk] ELSE dest
  /\ UNCHANGED <<source, file, op, claude, talks, given>>

\* The text goes to a worker that still reads it.
HookWrites(h) ==
  /\ hook[h].at = "recorded" /\ hook[h].loaded /\ Waits(h)
  /\ given' = given \cup {hook[h].talk}
  /\ hook' = [hook EXCEPT ![h].at = "written"]
  /\ UNCHANGED <<source, dest, file, op, claude, talks>>

\* Nothing to attach: the prompt goes ahead as any other.
HookPasses(h) ==
  /\ hook[h].at = "recorded" /\ ~hook[h].loaded
  /\ Exit(h, FALSE)
  /\ UNCHANGED <<source, dest, file, op, talks, given>>

\* RemoveContinuation, the last thing the hook does.
RemoveContinuation(h) ==
  /\ hook[h].at = "written"
  /\ file' = FALSE
  /\ Exit(h, FALSE)
  /\ UNCHANGED <<source, dest, op, talks, given>>

\* HandleStdin does not accept the report: the hook ends with nothing recorded or written.
HookIgnored(h) ==
  /\ hook[h].at = "loaded"
  /\ hook' = [hook EXCEPT ![h].at = "silent"]
  /\ UNCHANGED <<source, dest, file, op, claude, talks, given>>

\* The hook runs out of its three seconds or is killed, or the removal fails.
HookKilled(h) ==
  /\ hook[h].at \in {"loaded", "recorded", "written"}
  /\ hook' = [hook EXCEPT ![h].at = "silent"]
  /\ UNCHANGED <<source, dest, file, op, claude, talks, given>>

\* A hook that did not refuse it does not hold the prompt.
PromptGoesAhead(h) ==
  /\ hook[h].at = "silent"
  /\ Exit(h, FALSE)
  /\ UNCHANGED <<source, dest, file, op, talks, given>>

ContinuationNext ==
  \/ HandoffSlot \/ CreateHandoff \/ ContinueClaude \/ ContinueFails \/ StopSource
  \/ SaveContinuation \/ CreateDestination \/ WantDestination \/ LaunchDestination \/ Restart \/ AgentStops \/ RemoveDestination
  \/ StartSource \/ DaemonCrashes
  \/ \E h \in PromptHooks :
       \/ HookUnopened(h) \/ HookLoads(h) \/ HookFails(h) \/ HookRecords(h) \/ HookWrites(h)
       \/ HookPasses(h) \/ RemoveContinuation(h)
       \/ HookIgnored(h) \/ HookKilled(h) \/ PromptGoesAhead(h)

ContinuationSpec == ContinuationInit /\ [][ContinuationNext]_continuationVars

-----------------------------------------------------------------------------
(* Properties.                                                             *)

ContinuationTypeOK ==
  /\ source \in {"running", "stopped"}
  /\ dest \in [desired : {"none", "running", "stopped"}, resume : 0..MaxTalks]
  /\ file \in BOOLEAN
  /\ op \in Ops
  /\ claude \in [at : {"down", "prompt", "hooked", "works"}, talk : 0..MaxTalks]
  /\ hook \in [PromptHooks -> [at : {"none", "loaded", "recorded", "written", "silent"},
                               loaded : BOOLEAN, talk : 0..MaxTalks]]
  /\ talks \in 0..MaxTalks
  /\ given \subseteq Talks

\* The checkpoint is not lost. Its file is removed after delivery only, or by an
\* operation that could not create its destination (README.md:83, continuation.go:104),
\* whatever hooks fail, are killed or outlive their worker. And the worker's own prompt
\* goes ahead without the text, in that run or in an earlier one, only when its own hook
\* ended without refusing it; then the file is there for the next start
\* (main.go:40-43, 262-297).
CheckpointArrives ==
  [][/\ file /\ ~file' => op = "create" \/ given # {}
     /\ claude.at = "hooked" /\ claude'.at = "works" /\ given = {} =>
          file' /\ \E h \in PromptHooks : hook[h].at = "silent" /\ Waits(h)
    ]_continuationVars

=============================================================================
