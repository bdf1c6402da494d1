------------------------------ MODULE Profile ------------------------------
(***************************************************************************)
(* The shared profile baseline (reconcileBaseline and ReconcileProfile in  *)
(* claude/profile.go), for one entry of one profile.                       *)
(*                                                                         *)
(* A reconciliation copies what ~/.claude has into the profile, keeps a    *)
(* copy of what the profile had of its own, and remembers in the manifest  *)
(* what it put there, to take exactly that away when the source no longer  *)
(* has it. It runs in the daemon and in the account helpers, nothing keeps *)
(* two of them apart, it can fail or die after each write, and the user    *)
(* edits both sides in between. Reading the entry and writing it is one    *)
(* step: an edit within that moment would be lost.                         *)
(***************************************************************************)
EXTENDS Naturals

CONSTANTS
  Reconcilers,  \* processes that reconcile: the daemon's starts, account helpers
  Shared,       \* contents the source can have
  Own,          \* contents the user can give the profile's copy
  Nothing       \* no file

ASSUME ProfileAssumption == Shared \cap Own = {} /\ Nothing \notin Shared \cup Own

VARIABLES
  normal,    \* the entry in ~/.claude
  entry,     \* the entry in the profile
  manifest,  \* the hash of what the reconciler put there, and the backup of what was there
  backups,   \* the contents under .vibe-baseline/backups
  reconcile, \* the reconciliations: where they are, what they read
  workers,   \* a worker of this account runs, or its PID record says so
  owned      \* what the user wrote into the profile and did not take away (history)

profileVars == <<normal, entry, manifest, backups, reconcile, workers, owned>>

Entry == [hash : Shared \cup {Nothing}, backup : Own \cup Shared \cup {Nothing}]
NoEntry == [hash |-> Nothing, backup |-> Nothing]
Waiting == [at |-> "idle", want |-> Nothing, had |-> NoEntry]

ProfileInit ==
  /\ normal = Nothing /\ entry = Nothing
  /\ manifest = NoEntry
  /\ backups = {}
  /\ reconcile = [r \in Reconcilers |-> Waiting]
  /\ workers = FALSE
  /\ owned = {}

-----------------------------------------------------------------------------
(* The user.                                                               *)

EditSource ==
  /\ normal' \in Shared \cup {Nothing}
  /\ UNCHANGED <<entry, manifest, backups, reconcile, workers, owned>>

EditProfile ==
  /\ entry' \in Own \cup {Nothing}
  /\ owned' = (owned \ {entry}) \cup ({entry'} \ {Nothing})
  /\ UNCHANGED <<normal, manifest, backups, reconcile, workers>>

\* The last worker of the account ends.
WorkersEnd ==
  /\ workers' = FALSE
  /\ UNCHANGED <<normal, entry, manifest, backups, reconcile, owned>>

-----------------------------------------------------------------------------
(* A reconciliation.                                                       *)

\* collectBaseline: the source with its links followed and what is not shared left out.
CollectBaseline == normal

\* Also a record that cannot be read or has no account counts as a live one.
LiveProfileRecord == workers

\* ReconcileProfile with a live worker: nothing is written, and no other worker starts
\* unless the profile is what the source wants and the report of the last one agrees
\* (what that says is not kept here: it may).
BaselineCurrent(r) ==
  /\ reconcile[r].at = "idle" /\ LiveProfileRecord
  /\ CollectBaseline # Nothing => entry = CollectBaseline
  /\ reconcile' = [reconcile EXCEPT ![r] = [Waiting EXCEPT !.at = "ready"]]
  /\ UNCHANGED <<normal, entry, manifest, backups, workers, owned>>

\* ReconcileProfile without: the source and the manifest are read.
ReconcileProfile(r) ==
  /\ reconcile[r].at = "idle" /\ ~LiveProfileRecord
  /\ reconcile' = [reconcile EXCEPT ![r] = [at |-> "entry", want |-> CollectBaseline, had |-> manifest]]
  /\ UNCHANGED <<normal, entry, manifest, backups, workers, owned>>

\* Mutant: what was there is kept the first time only.
BackupOnce(previous) == IF previous.backup = Nothing THEN backups \cup {entry} ELSE backups

\* backupBaselineConflict: under a name of its own for each content.
Backup(previous) == backups \cup {entry}

\* The source has it no more: what was put there goes, or gives way to the backup.
Revoke(previous) ==
  entry' = IF entry = previous.hash THEN previous.backup ELSE entry

\* Mutant: a copy is made also of an entry that is not there.
ConflictIfMissing(want, previous) == entry \notin {want, previous.hash}

\* Contents that are neither the wanted nor the remembered one are the profile's own.
Conflict(want, previous) == entry \notin {Nothing, want, previous.hash}

\* The entry's turn. The first content of its own is what a revocation brings back. An
\* equal entry nobody put there is not taken over.
ReconcileEntry(r) ==
  LET want == reconcile[r].want
      previous == reconcile[r].had
      first == IF Conflict(want, previous) /\ previous.backup = Nothing THEN entry ELSE previous.backup
  IN
  /\ reconcile[r].at = "entry"
  /\ \/ /\ want # Nothing
        /\ backups' = IF Conflict(want, previous) THEN Backup(previous) ELSE backups
        /\ entry' = want
        /\ reconcile' = [reconcile EXCEPT ![r].at = "manifest",
                           ![r].had = IF previous.hash = Nothing /\ entry = want THEN previous
                                      ELSE [hash |-> want, backup |-> first]]
     \/ /\ want = Nothing
        /\ IF previous.hash = Nothing THEN UNCHANGED entry ELSE Revoke(previous)
        /\ reconcile' = [reconcile EXCEPT ![r].at = "manifest", ![r].had = NoEntry]
        /\ UNCHANGED backups
  /\ UNCHANGED <<normal, manifest, workers, owned>>

\* The manifest is written, before the plugins and after.
WriteManifest(r) ==
  /\ reconcile[r].at = "manifest"
  /\ manifest' = reconcile[r].had
  /\ UNCHANGED <<normal, entry, backups, reconcile, workers, owned>>

\* The last time the report follows.
ReportReady(r) ==
  /\ reconcile[r].at = "manifest"
  /\ manifest' = reconcile[r].had
  /\ reconcile' = [reconcile EXCEPT ![r] = [Waiting EXCEPT !.at = "ready"]]
  /\ UNCHANGED <<normal, entry, backups, workers, owned>>

\* A later entry, the settings or the context fail, which is reported, or the process
\* dies.
ReconcileFails(r) ==
  /\ reconcile[r].at \in {"entry", "manifest"}
  /\ reconcile' = [reconcile EXCEPT ![r] = Waiting]
  /\ UNCHANGED <<normal, entry, manifest, backups, workers, owned>>

\* The worker that waited for it starts, or it was a helper's.
StartWorker(r) ==
  /\ reconcile[r].at = "ready"
  /\ reconcile' = [reconcile EXCEPT ![r] = Waiting]
  /\ workers' \in {workers, TRUE}
  /\ UNCHANGED <<normal, entry, manifest, backups, owned>>

ProfileNext ==
  \/ EditSource \/ EditProfile \/ WorkersEnd
  \/ \E r \in Reconcilers :
       \/ BaselineCurrent(r) \/ ReconcileProfile(r) \/ ReconcileEntry(r) \/ WriteManifest(r)
       \/ ReportReady(r) \/ ReconcileFails(r) \/ StartWorker(r)

ProfileSpec == ProfileInit /\ [][ProfileNext]_profileVars

-----------------------------------------------------------------------------
(* Properties.                                                             *)

ProfileTypeOK ==
  /\ normal \in Shared \cup {Nothing}
  /\ entry \in Shared \cup Own \cup {Nothing}
  /\ manifest \in Entry
  /\ backups \subseteq Shared \cup Own
  /\ reconcile \in [Reconcilers -> [at : {"idle", "entry", "manifest", "ready"},
                                    want : Shared \cup {Nothing}, had : Entry]]
  /\ workers \in BOOLEAN
  /\ owned \subseteq Own

\* README.md:179: conflicting entries get private backups. What the user wrote into the
\* profile is there or in a backup, whatever two reconciliations, their failures and
\* the edits between them do.
OwnContentSurvives == owned \subseteq backups \cup {entry}

=============================================================================
