------------------------------ MODULE MCParts ------------------------------
(***************************************************************************)
(* One TLC instance for the smaller parts: a behaviour is one of one part, *)
(* the others stay as they began. The parts share no state, so this checks *)
(* the same states as a run for each of them would.                        *)
(***************************************************************************)
EXTENDS Turns, Selection, Setup, Recovery, Continuation, Profile, Memory, Runtime,
        Console, Approval

VARIABLE part

Parts == {"turns", "selection", "setup", "recovery", "continuation", "profile", "memory", "runtime",
          "console", "approval"}

\* The variables of every part but the named one are left alone.
Only(name) ==
  /\ part = name /\ part' = part
  /\ IF name = "turns" THEN TRUE ELSE UNCHANGED turnsVars
  /\ IF name = "selection" THEN TRUE ELSE UNCHANGED selectionVars
  /\ IF name = "setup" THEN TRUE ELSE UNCHANGED setupVars
  /\ IF name = "recovery" THEN TRUE ELSE UNCHANGED recoveryVars
  /\ IF name = "continuation" THEN TRUE ELSE UNCHANGED continuationVars
  /\ IF name = "profile" THEN TRUE ELSE UNCHANGED profileVars
  /\ IF name = "memory" THEN TRUE ELSE UNCHANGED memoryVars
  /\ IF name = "runtime" THEN TRUE ELSE UNCHANGED runtimeVars
  /\ IF name = "console" THEN TRUE ELSE UNCHANGED consoleVars
  /\ IF name = "approval" THEN TRUE ELSE UNCHANGED approvalVars

\* Turns begins with one of two providers; the other parts need one of them only.
PartsInit ==
  /\ part \in Parts
  /\ part # "turns" => provider = "claude"
  /\ part # "recovery" => births = <<>>
  /\ TurnsInit
  /\ SelectionInit
  /\ SetupInit
  /\ RecoveryInit
  /\ ContinuationInit
  /\ ProfileInit
  /\ MemoryInit
  /\ RuntimeInit
  /\ ConsoleInit
  /\ ApprovalInit

PartsNext ==
  \/ Only("turns") /\ TurnsNext
  \/ Only("selection") /\ SelectionNext
  \/ Only("setup") /\ SetupNext
  \/ Only("recovery") /\ RecoveryNext
  \/ Only("continuation") /\ ContinuationNext
  \/ Only("profile") /\ ProfileNext
  \/ Only("memory") /\ MemoryNext
  \/ Only("runtime") /\ RuntimeNext
  \/ Only("console") /\ ConsoleNext
  \/ Only("approval") /\ ApprovalNext

partsVars ==
  <<part, turnsVars, selectionVars, setupVars, recoveryVars, continuationVars, profileVars,
    memoryVars, runtimeVars, consoleVars, approvalVars>>

PartsSpec == PartsInit /\ [][PartsNext]_partsVars /\ SetupFairness /\ ApprovalFairness

-----------------------------------------------------------------------------
(* Properties. The other ones are stated in the modules of the parts.      *)

\* Every part's variables have their types: among them that no turn has two rows, that
\* a record names a process that was born, and that a backup has a content.
PartsTypeOK ==
  /\ TurnsTypeOK
  /\ SelectionTypeOK
  /\ SetupTypeOK
  /\ RecoveryTypeOK
  /\ ContinuationTypeOK
  /\ ProfileTypeOK
  /\ MemoryTypeOK
  /\ RuntimeTypeOK
  /\ ConsoleTypeOK
  /\ ApprovalTypeOK

=============================================================================
