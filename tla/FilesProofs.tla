----------------------------- MODULE FilesProofs -----------------------------
(***************************************************************************)
(* Proofs about the parts whose state is files: the baseline of a profile  *)
(* (Profile), the memory of a project (Memory), the private copies of the  *)
(* executable (Runtime), and the saved checkpoint of a conversation that   *)
(* continues elsewhere (Continuation), for any contents and any number of  *)
(* actors.                                                                 *)
(***************************************************************************)
EXTENDS Profile, Memory, Runtime, Continuation, TLAPS

-----------------------------------------------------------------------------
(* The shared profile baseline.                                            *)

\* Types matter here: a hash in the manifest is that of a shared content, and no content
\* of the user's own is one.
ProfileIInv == ProfileTypeOK /\ OwnContentSurvives

LEMMA ProfileInitInv == ProfileInit => ProfileIInv
  <1> SUFFICES ASSUME ProfileInit PROVE ProfileIInv
    OBVIOUS
  <1>1. NoEntry \in Entry
    BY DEF NoEntry, Entry
  <1>2. Waiting \in [at : {"idle", "entry", "manifest", "ready"},
                    want : Shared \cup {Nothing}, had : Entry]
    BY <1>1 DEF Waiting
  <1>3. ProfileTypeOK
    BY <1>1, <1>2 DEF ProfileInit, ProfileTypeOK
  <1>4. OwnContentSurvives
    BY DEF ProfileInit, OwnContentSurvives
  <1> QED
    BY <1>3, <1>4 DEF ProfileIInv

\* The user's steps.
LEMMA UserKeeps ==
  ASSUME ProfileIInv, EditSource \/ EditProfile \/ WorkersEnd
  PROVE  ProfileIInv'
  <1>1. CASE EditSource
    BY <1>1 DEF EditSource, ProfileIInv, ProfileTypeOK, OwnContentSurvives
  <1>2. CASE EditProfile
    BY <1>2 DEF EditProfile, ProfileIInv, ProfileTypeOK, OwnContentSurvives
  <1>3. CASE WorkersEnd
    BY <1>3 DEF WorkersEnd, ProfileIInv, ProfileTypeOK, OwnContentSurvives
  <1> QED
    BY <1>1, <1>2, <1>3

\* The only step that takes away what the profile has: the content is the user's own
\* only if it is a conflict, and then it is in the backups.
LEMMA EntryKeeps ==
  ASSUME ProfileIInv, NEW r \in Reconcilers, ReconcileEntry(r)
  PROVE  ProfileIInv'
  <1> DEFINE want == reconcile[r].want
             previous == reconcile[r].had
             first == IF Conflict(want, previous) /\ previous.backup = Nothing THEN entry ELSE previous.backup
  <1>1. /\ want \in Shared \cup {Nothing} /\ previous \in Entry
        /\ entry \in Shared \cup Own \cup {Nothing}
    BY DEF ProfileIInv, ProfileTypeOK
  <1>2. /\ first \in Own \cup Shared \cup {Nothing}
        /\ Conflict(want, previous) => entry \in Shared \cup Own
        /\ ~Conflict(want, previous) => entry \notin Own
        /\ entry = previous.hash => entry \notin Own
    BY <1>1, ProfileAssumption DEF Entry, Conflict
  <1>3. CASE want # Nothing
    <2>1. /\ backups' = IF Conflict(want, previous) THEN Backup(previous) ELSE backups
          /\ entry' = want
          /\ reconcile' = [reconcile EXCEPT ![r].at = "manifest",
                             ![r].had = IF previous.hash = Nothing /\ entry = want THEN previous
                                        ELSE [hash |-> want, backup |-> first]]
          /\ UNCHANGED <<normal, manifest, workers, owned>>
      BY <1>3 DEF ReconcileEntry
    <2>2. backups' \subseteq Shared \cup Own /\ entry' \in Shared \cup Own \cup {Nothing}
      BY <1>1, <1>2, <2>1 DEF ProfileIInv, ProfileTypeOK, Backup
    <2>3. reconcile' \in [Reconcilers -> [at : {"idle", "entry", "manifest", "ready"},
                                          want : Shared \cup {Nothing}, had : Entry]]
      <3>1. [hash |-> want, backup |-> first] \in Entry
        BY <1>1, <1>2 DEF Entry
      <3> QED
        <4>1. PICK had \in Entry :
                reconcile' = [reconcile EXCEPT ![r].at = "manifest", ![r].had = had]
          BY <1>1, <2>1, <3>1
        <4> QED
          BY <4>1 DEF ProfileIInv, ProfileTypeOK
    <2>4. owned' \subseteq backups' \cup {entry'}
      BY <1>2, <2>1 DEF ProfileIInv, ProfileTypeOK, OwnContentSurvives, Backup
    <2> QED
      BY <2>1, <2>2, <2>3, <2>4 DEF ProfileIInv, ProfileTypeOK, OwnContentSurvives
  <1>4. CASE want = Nothing
    <2>1. /\ IF previous.hash = Nothing THEN UNCHANGED entry ELSE Revoke(previous)
          /\ reconcile' = [reconcile EXCEPT ![r].at = "manifest", ![r].had = NoEntry]
          /\ UNCHANGED <<normal, manifest, backups, workers, owned>>
      BY <1>4 DEF ReconcileEntry
    <2>2. entry' \in Shared \cup Own \cup {Nothing}
      BY <1>1, <2>1 DEF Revoke, Entry
    <2>3. owned' \subseteq backups' \cup {entry'}
      BY <1>1, <1>2, <2>1 DEF ProfileIInv, ProfileTypeOK, OwnContentSurvives, Revoke
    <2>4. NoEntry \in Entry
      BY DEF NoEntry, Entry
    <2> QED
      BY <2>1, <2>2, <2>3, <2>4 DEF ProfileIInv, ProfileTypeOK, OwnContentSurvives
  <1> QED
    BY <1>3, <1>4

\* The other steps of a reconciliation leave the profile's entry alone.
LEMMA ReconcilerKeeps ==
  ASSUME ProfileIInv, NEW r \in Reconcilers,
         \/ BaselineCurrent(r) \/ ReconcileProfile(r) \/ WriteManifest(r)
         \/ ReportReady(r) \/ ReconcileFails(r) \/ StartWorker(r)
  PROVE  ProfileIInv'
  <1> USE DEF ProfileIInv, ProfileTypeOK, OwnContentSurvives
  <1>0. NoEntry \in Entry
    BY DEF NoEntry, Entry
  <1>1. CASE BaselineCurrent(r)
    BY <1>0, <1>1 DEF BaselineCurrent, Waiting
  <1>2. CASE ReconcileProfile(r)
    BY <1>2 DEF ReconcileProfile, CollectBaseline
  <1>3. CASE WriteManifest(r)
    BY <1>3 DEF WriteManifest
  <1>4. CASE ReportReady(r)
    BY <1>0, <1>4 DEF ReportReady, Waiting
  <1>5. CASE ReconcileFails(r)
    BY <1>0, <1>5 DEF ReconcileFails, Waiting
  <1>6. CASE StartWorker(r)
    BY <1>0, <1>6 DEF StartWorker, Waiting
  <1> QED
    BY <1>1, <1>2, <1>3, <1>4, <1>5, <1>6

LEMMA ProfileStepInv == ProfileIInv /\ [ProfileNext]_profileVars => ProfileIInv'
  <1> SUFFICES ASSUME ProfileIInv, [ProfileNext]_profileVars PROVE ProfileIInv'
    OBVIOUS
  <1>1. CASE UNCHANGED profileVars
    BY <1>1 DEF profileVars, ProfileIInv, ProfileTypeOK, OwnContentSurvives
  <1>2. CASE EditSource \/ EditProfile \/ WorkersEnd
    BY <1>2, UserKeeps
  <1>3. ASSUME NEW r \in Reconcilers, ReconcileEntry(r) PROVE ProfileIInv'
    BY <1>3, EntryKeeps
  <1>4. ASSUME NEW r \in Reconcilers,
               \/ BaselineCurrent(r) \/ ReconcileProfile(r) \/ WriteManifest(r)
               \/ ReportReady(r) \/ ReconcileFails(r) \/ StartWorker(r)
        PROVE  ProfileIInv'
    BY <1>4, ReconcilerKeeps
  <1> QED
    BY <1>1, <1>2, <1>3, <1>4 DEF ProfileNext

\* What the user wrote into a profile is there or in a backup, whatever reconciliations of
\* the daemon and of account helpers, their failures and edits of both sides do
\* (reconcileBaseline).
THEOREM OwnContentKept == ProfileSpec => []OwnContentSurvives
<1>1. ProfileIInv => OwnContentSurvives
  BY DEF ProfileIInv
<1> QED
  BY <1>1, ProfileInitInv, ProfileStepInv, PTL DEF ProfileSpec

\* Among the types: a backup and a manifest entry name a content, never a missing file.
THEOREM ProfileTypeCorrect == ProfileSpec => []ProfileTypeOK
<1>1. ProfileIInv => ProfileTypeOK
  BY DEF ProfileIInv
<1> QED
  BY <1>1, ProfileInitInv, ProfileStepInv, PTL DEF ProfileSpec

-----------------------------------------------------------------------------
(* The shared memory of a project.                                         *)

\* Only the holder of the lock imports.
HolderInv == \A i \in Importers : import[i].at = "import" => holder = i

\* It knows every copy there is, and what it is about to write to the index is true.
ImporterInv ==
  \A i \in Importers :
    import[i].at = "import" =>
      /\ import[i].seen = copies
      /\ \A k \in import[i].index : k.target \in copies /\ k.target.note = k.note

MemoryIInv == MemoryTypeOK /\ OneCopyPerNote /\ HolderInv /\ ImporterInv

Importing ==
  [at : {"idle", "import"}, todo : SUBSET Found, index : SUBSET Import, seen : SUBSET Copy]

LEMMA MemoryInitInv == MemoryInit => MemoryIInv
  <1> SUFFICES ASSUME MemoryInit PROVE MemoryIInv
    OBVIOUS
  <1>1. NotImporting \in Importing /\ NotImporting.at = "idle"
    BY DEF NotImporting, Importing
  <1>2. MemoryTypeOK
    BY <1>1 DEF MemoryInit, MemoryTypeOK, Importing
  <1> QED
    BY <1>1, <1>2 DEF MemoryInit, MemoryIInv, OneCopyPerNote, HolderInv, ImporterInv

LEMMA LockKeeps ==
  ASSUME MemoryIInv, NEW i \in Importers, LockMemoryImport(i)
  PROVE  MemoryIInv'
  <1> USE DEF MemoryIInv, MemoryTypeOK
  <1>1. Beginning \in Importing
    BY DEF Beginning, Importing, Import
  <1>2. /\ Beginning.at = "import" /\ Beginning.seen = copies /\ Beginning.index = imports
    BY DEF Beginning, OneCopyPerNote
  <1>3. /\ import' = [import EXCEPT ![i] = Beginning] /\ holder' = i
        /\ UNCHANGED <<notes, copies, imports>>
    BY DEF LockMemoryImport
  <1>4. \A j \in Importers : import[j].at # "import"
    BY MemoryAssumption DEF HolderInv, LockMemoryImport
  <1>5. MemoryTypeOK'
    BY <1>1, <1>3 DEF Importing
  <1>6. HolderInv'
    BY <1>3, <1>4 DEF HolderInv
  <1>7. OneCopyPerNote' /\ ImporterInv'
    BY <1>2, <1>3, <1>4 DEF OneCopyPerNote, ImporterInv
  <1> QED
    BY <1>5, <1>6, <1>7

\* What Done makes of the importer, for a target that has the note's content.
LEMMA DoneKeeps ==
  ASSUME MemoryIInv, NEW i \in Importers, NEW f \in Found, NEW target \in Copy,
         import[i].at = "import", target.note = f[2], Done(i, f, target),
         copies' = copies \cup {target}, UNCHANGED <<notes, imports, holder>>,
         \A c \in copies : c.note = f[2] => c = target
  PROVE  MemoryIInv'
  <1> USE DEF MemoryIInv, MemoryTypeOK
  <1> DEFINE k == [note |-> f[2], source |-> f[1], target |-> target]
  <1>1. k \in Import /\ k.target = target /\ k.note = f[2]
    BY DEF Import, Found, Copy
  <1>2. PICK todo \in SUBSET Found :
          import' = [import EXCEPT ![i].todo = todo, ![i].seen = @ \cup {target}, ![i].index = @ \cup {k}]
    BY DEF Done
  <1>3. /\ import'[i].at = "import" /\ import'[i].seen = import[i].seen \cup {target}
        /\ import'[i].index = import[i].index \cup {k} /\ import'[i].todo = todo
        /\ \A j \in Importers \ {i} : import'[j] = import[j]
    BY <1>2
  <1>4. MemoryTypeOK'
    <2>1. import[i].seen \cup {target} \in SUBSET Copy /\ import[i].index \cup {k} \in SUBSET Import
      BY <1>1
    <2>2. PICK seen \in SUBSET Copy, index \in SUBSET Import :
            import' = [import EXCEPT ![i].todo = todo, ![i].seen = seen, ![i].index = index]
      BY <1>2, <2>1
    <2>3. [import[i] EXCEPT !.todo = todo, !.seen = seen, !.index = index] \in Importing
      BY DEF Importing
    <2>4. import' = [import EXCEPT ![i] = [import[i] EXCEPT !.todo = todo, !.seen = seen, !.index = index]]
      BY <2>2
    <2>5. import' \in [Importers -> Importing]
      BY <2>3, <2>4 DEF Importing
    <2> QED
      BY <2>5 DEF Importing
  <1>5. \A j \in Importers \ {i} : import[j].at # "import"
    BY DEF HolderInv
  <1>6. HolderInv'
    BY <1>3, <1>5 DEF HolderInv
  <1>7. OneCopyPerNote'
    BY DEF OneCopyPerNote
  <1>8. ImporterInv'
    BY <1>1, <1>3, <1>5 DEF ImporterInv
  <1> QED
    BY <1>4, <1>6, <1>7, <1>8

LEMMA ImportNoteKeeps ==
  ASSUME MemoryIInv, NEW i \in Importers, NEW f \in Found, ImportNote(i, f)
  PROVE  MemoryIInv'
  <1> USE DEF MemoryIInv, MemoryTypeOK
  <1>1. import[i].at = "import" /\ import[i].seen = copies /\ UNCHANGED <<notes, imports, holder>>
    BY DEF ImportNote, ImporterInv
  <1>2. CASE /\ import' = [import EXCEPT ![i].todo = @ \ {f}]
             /\ UNCHANGED copies
    <2>1. import' \in [Importers -> Importing]
      BY <1>2 DEF Importing
    <2>2. \A j \in Importers : /\ import'[j].at = import[j].at /\ import'[j].seen = import[j].seen
                               /\ import'[j].index = import[j].index
      BY <1>2
    <2> QED
      BY <1>1, <1>2, <2>1, <2>2 DEF Importing, OneCopyPerNote, HolderInv, ImporterInv
  <1>3. ASSUME NEW c \in CopiesOf(i, f[2]), Done(i, f, c), UNCHANGED copies
        PROVE  MemoryIInv'
    <2>1. c \in copies /\ c \in Copy /\ c.note = f[2] /\ copies' = copies \cup {c}
      BY <1>1, <1>3 DEF CopiesOf
    <2>2. \A d \in copies : d.note = f[2] => d = c
      BY <2>1 DEF OneCopyPerNote
    <2> QED
      BY <1>1, <1>3, <2>1, <2>2, DoneKeeps
  <1>4. CASE /\ CopiesOf(i, f[2]) = {}
             /\ copies' = copies \cup {[note |-> f[2], from |-> f[1]]}
             /\ Done(i, f, [note |-> f[2], from |-> f[1]])
    <2> DEFINE new == [note |-> f[2], from |-> f[1]]
    <2>1. new \in Copy /\ new.note = f[2]
      BY DEF Copy, Found
    <2>2. \A c \in copies : c.note # f[2]
      BY <1>1, <1>4 DEF CopiesOf
    <2> QED
      BY <1>1, <1>4, <2>1, <2>2, DoneKeeps
  <1> QED
    BY <1>2, <1>3, <1>4 DEF ImportNote

\* The lock goes with the importer.
LEMMA UnlockKeeps ==
  ASSUME MemoryIInv, NEW i \in Importers, import[i].at = "import", Unlock(i),
         UNCHANGED <<notes, copies>>, imports' \in {imports, import[i].index}
  PROVE  MemoryIInv'
  <1> USE DEF MemoryIInv, MemoryTypeOK
  <1>1. NotImporting \in Importing /\ NotImporting.at = "idle"
    BY DEF NotImporting, Importing
  <1>2. import' = [import EXCEPT ![i] = NotImporting] /\ holder' \in Importers \cup {NoImporter}
    BY DEF Unlock
  <1>3. \A j \in Importers : import'[j].at # "import"
    BY <1>1, <1>2 DEF HolderInv
  <1>4. MemoryTypeOK'
    BY <1>1, <1>2 DEF Importing
  <1>5. OneCopyPerNote'
    BY DEF OneCopyPerNote, ImporterInv
  <1> QED
    BY <1>3, <1>4, <1>5 DEF HolderInv, ImporterInv

LEMMA MemoryStepInv == MemoryIInv /\ [MemoryNext]_memoryVars => MemoryIInv'
  <1> SUFFICES ASSUME MemoryIInv, [MemoryNext]_memoryVars PROVE MemoryIInv'
    OBVIOUS
  <1>1. CASE UNCHANGED memoryVars
    BY <1>1 DEF memoryVars, MemoryIInv, MemoryTypeOK, OneCopyPerNote, HolderInv, ImporterInv
  <1>2. ASSUME NEW p \in Profiles, NEW n \in Notes, WriteNote(p, n) PROVE MemoryIInv'
    BY <1>2 DEF WriteNote, MemoryIInv, MemoryTypeOK, OneCopyPerNote, HolderInv, ImporterInv
  <1>3. ASSUME NEW i \in Importers, LockMemoryImport(i) PROVE MemoryIInv'
    BY <1>3, LockKeeps
  <1>4. ASSUME NEW i \in Importers, WriteImports(i) PROVE MemoryIInv'
    BY <1>4, UnlockKeeps DEF WriteImports
  <1>5. ASSUME NEW i \in Importers, ImportFails(i) PROVE MemoryIInv'
    BY <1>5, UnlockKeeps DEF ImportFails
  <1>6. ASSUME NEW i \in Importers, NEW f \in Found, ImportNote(i, f) PROVE MemoryIInv'
    BY <1>6, ImportNoteKeeps
  <1> QED
    BY <1>1, <1>2, <1>3, <1>4, <1>5, <1>6 DEF MemoryNext

\* Equal notes of different profiles have one copy, and the index names a copy that is
\* there and has the note's content, whatever imports run, fail or die (PrepareProjectMemory).
THEOREM OneCopyEach == MemorySpec => []OneCopyPerNote
<1>1. MemoryIInv => OneCopyPerNote
  BY DEF MemoryIInv
<1> QED
  BY <1>1, MemoryInitInv, MemoryStepInv, PTL DEF MemorySpec

\* No two starts are inside of an import at once: each is the holder of the lock
\* (lockMemoryImport).
THEOREM OneImporter == MemorySpec => []HolderInv
<1>1. MemoryIInv => HolderInv
  BY DEF MemoryIInv
<1> QED
  BY <1>1, MemoryInitInv, MemoryStepInv, PTL DEF MemorySpec

-----------------------------------------------------------------------------
(* The copies of the executable.                                           *)

\* What a sweep knows holds on, although workers start, register and fail meanwhile: a
\* live worker runs what it ran when the sweep asked, or what is installed, and history
\* only ever takes up what a live worker runs. Before anything is removed what is
\* installed has been spared, unless it could not be read or changed.
Safe(v) == v \notin sweep.unspared \/ (sweep.at # "remove" /\ v = installed)

SweepInv ==
  sweep.sure /\ sweep.at # "idle" =>
    /\ \A s \in RuntimeSlots : Live(s) => Safe(session[s].version)
    /\ sweep.at # "history" => Safe(history.current) /\ Safe(history.previous)
    /\ sweep.at = "remove" => installed \notin sweep.unspared

RuntimeIInv == RuntimeTypeOK /\ SweepInv

LEMMA RuntimeInitInv == RuntimeInit => RuntimeIInv
  <1> SUFFICES ASSUME RuntimeInit PROVE RuntimeIInv
    OBVIOUS
  <1>1. installed \in Versions
    BY RuntimeAssumption DEF RuntimeInit
  <1>2. RuntimeTypeOK
    BY <1>1 DEF RuntimeInit, RuntimeTypeOK, Stopped, NoSweep
  <1>3. SweepInv
    BY DEF RuntimeInit, SweepInv, NoSweep
  <1> QED
    BY <1>2, <1>3 DEF RuntimeIInv

\* Versions and workers.
LEMMA InstallKeeps ==
  ASSUME RuntimeIInv, NEW v \in Versions, Install(v) \/ WeekPasses(v)
  PROVE  RuntimeIInv'
  <1> USE DEF RuntimeIInv
  <1>1. CASE Install(v)
    BY <1>1 DEF Install, RuntimeTypeOK, SweepInv
  <1>2. CASE WeekPasses(v)
    BY <1>2 DEF WeekPasses, RuntimeTypeOK, SweepInv
  <1> QED
    BY <1>1, <1>2

LEMMA RunSessionKeeps ==
  ASSUME RuntimeIInv, NEW s \in RuntimeSlots, RunSession(s)
  PROVE  RuntimeIInv'
  <1> USE DEF RuntimeIInv
  <1>1. /\ snapshot' \in [Versions -> {"none", "fresh", "old"}]
        /\ session' = [session EXCEPT ![s] = [version |-> installed, at |-> "starting"]]
        /\ UNCHANGED <<installed, history, sweep>>
    BY DEF RuntimeTypeOK, RunSession
  <1>2. \A q \in RuntimeSlots :
          session'[q] = session[q] \/ session'[q] = [version |-> installed, at |-> "starting"]
    BY <1>1 DEF RuntimeTypeOK
  <1>3. RuntimeTypeOK'
    BY <1>1 DEF RuntimeTypeOK
  <1>4. SweepInv'
    BY <1>1, <1>2 DEF SweepInv, Safe, Live
  <1> QED
    BY <1>3, <1>4

LEMMA RememberRuntimeKeeps ==
  ASSUME RuntimeIInv, NEW s \in RuntimeSlots, RememberRuntime(s)
  PROVE  RuntimeIInv'
  <1> USE DEF RuntimeIInv
  <1> DEFINE v == session[s].version
  <1>1. session' = [session EXCEPT ![s] = [session[s] EXCEPT !.at = "running"]]
    BY DEF RuntimeTypeOK, RememberRuntime
  <1>2. /\ Live(s) /\ v \in Versions \cup {NoVersion}
        /\ history' \in {history, [current |-> v, previous |-> history.current]}
        /\ \A q \in RuntimeSlots : session'[q].version = session[q].version /\ (Live(q)' => Live(q))
        /\ UNCHANGED <<installed, snapshot, sweep>>
    BY <1>1 DEF RuntimeTypeOK, RememberRuntime, Live
  <1>3. RuntimeTypeOK'
    BY <1>1, <1>2 DEF RuntimeTypeOK
  <1>4. SweepInv'
    BY <1>2 DEF SweepInv, Safe
  <1> QED
    BY <1>3, <1>4

LEMMA FailOrEndKeeps ==
  ASSUME RuntimeIInv, NEW s \in RuntimeSlots, RegistrationFails(s) \/ EndSession(s)
  PROVE  RuntimeIInv'
  <1> USE DEF RuntimeIInv
  <1>1. /\ session' \in {[session EXCEPT ![s] = [session[s] EXCEPT !.at = "failed"]],
                         [session EXCEPT ![s] = Stopped]}
        /\ UNCHANGED <<installed, snapshot, history, sweep>>
    BY DEF RuntimeTypeOK, RegistrationFails, EndSession
  <1>2. \A q \in RuntimeSlots : Live(q)' => Live(q) /\ session'[q] = session[q]
    BY <1>1 DEF RuntimeTypeOK, Live, Stopped
  <1>3. RuntimeTypeOK'
    BY <1>1 DEF RuntimeTypeOK, Stopped
  <1>4. SweepInv'
    BY <1>1, <1>2 DEF SweepInv, Safe
  <1> QED
    BY <1>3, <1>4

\* The sweep.
LEMMA DoomedUnspared ==
  ASSUME NEW unspared, NEW doomed \in Doomed(unspared)
  PROVE  doomed \subseteq unspared
  BY DEF Doomed

LEMMA SweepWorkersKeeps ==
  ASSUME RuntimeIInv, SweepWorkers
  PROVE  RuntimeIInv'
  <1> USE DEF RuntimeIInv
  <1>1. PICK unspared \in SUBSET Versions :
          /\ sweep' = [NoSweep EXCEPT !.at = "history", !.unspared = unspared]
          /\ \A s \in RuntimeSlots : Live(s) => session[s].version \notin unspared
    <2>1. PICK stopping \in SUBSET {s \in RuntimeSlots : session[s].at = "failed"} :
            LET spared == {session[s].version : s \in {q \in RuntimeSlots : Live(q)} \cup stopping} IN
            sweep' = [NoSweep EXCEPT !.at = "history",
                                     !.unspared = {v \in Versions : snapshot[v] = "old"} \ spared]
      BY DEF SweepWorkers
    <2> DEFINE spared == {session[s].version : s \in {q \in RuntimeSlots : Live(q)} \cup stopping}
               unspared == {v \in Versions : snapshot[v] = "old"} \ spared
    <2>2. unspared \in SUBSET Versions /\ \A s \in RuntimeSlots : Live(s) => session[s].version \in spared
      OBVIOUS
    <2>3. sweep' = [NoSweep EXCEPT !.at = "history", !.unspared = unspared]
      BY <2>1
    <2> QED
      BY <2>2, <2>3
  <1>2. UNCHANGED <<installed, snapshot, history, session>>
    BY DEF SweepWorkers
  <1>3. RuntimeTypeOK'
    BY <1>1, <1>2 DEF RuntimeTypeOK, NoSweep
  <1>4. SweepInv'
    BY <1>1, <1>2 DEF SweepInv, Safe, Live, NoSweep
  <1> QED
    BY <1>3, <1>4

LEMMA SweepHistoryKeeps ==
  ASSUME RuntimeIInv, SweepHistory
  PROVE  RuntimeIInv'
  <1> USE DEF RuntimeIInv
  <1>1. UNCHANGED <<installed, snapshot, history, session>>
    BY DEF SweepHistory
  <1>2. CASE sweep' = NoSweep
    BY <1>1, <1>2 DEF RuntimeTypeOK, SweepInv, NoSweep
  <1>3. CASE sweep' = [sweep EXCEPT !.at = "installed",
                                    !.unspared = @ \ {history.current, history.previous},
                                    !.first = history.previous = NoVersion]
    <2>1. /\ sweep.at = "history" /\ sweep'.at = "installed" /\ sweep'.sure = sweep.sure
          /\ sweep'.unspared = sweep.unspared \ {history.current, history.previous}
      BY <1>3 DEF SweepHistory, RuntimeTypeOK
    <2>2. RuntimeTypeOK'
      BY <1>1, <1>3 DEF RuntimeTypeOK
    <2>3. SweepInv'
      BY <1>1, <2>1 DEF SweepInv, Safe, Live
    <2> QED
      BY <2>2, <2>3
  <1> QED
    BY <1>2, <1>3 DEF SweepHistory

LEMMA SweepInstalledKeeps ==
  ASSUME RuntimeIInv, SweepInstalled
  PROVE  RuntimeIInv'
  <1> USE DEF RuntimeIInv
  <1>1. PICK read \in BOOLEAN, doomed \in SUBSET Versions :
          /\ doomed \subseteq sweep.unspared \ (IF read THEN {installed} ELSE {})
          /\ sweep' = [at |-> "remove", unspared |-> doomed, first |-> FALSE, sure |-> sweep.sure /\ read]
    BY DoomedUnspared DEF SweepInstalled, RuntimeTypeOK
  <1>2. sweep.at = "installed" /\ UNCHANGED <<installed, snapshot, history, session>>
    BY DEF SweepInstalled
  <1>3. RuntimeTypeOK'
    BY <1>1, <1>2 DEF RuntimeTypeOK
  <1>4. SweepInv'
    BY <1>1, <1>2 DEF SweepInv, Safe, Live, RuntimeTypeOK
  <1> QED
    BY <1>3, <1>4

LEMMA SweepRemoveKeeps ==
  ASSUME RuntimeIInv, SweepRemove
  PROVE  RuntimeIInv'
  <1> USE DEF RuntimeIInv
  <1>1. sweep' = NoSweep /\ UNCHANGED <<installed, history, session>>
    BY DEF SweepRemove
  <1>2. RuntimeTypeOK'
    BY <1>1 DEF SweepRemove, RuntimeTypeOK, NoSweep
  <1>3. SweepInv'
    BY <1>1 DEF SweepInv, NoSweep
  <1> QED
    BY <1>2, <1>3

LEMMA RuntimeStepInv == RuntimeIInv /\ [RuntimeNext]_runtimeVars => RuntimeIInv'
  <1> SUFFICES ASSUME RuntimeIInv, [RuntimeNext]_runtimeVars PROVE RuntimeIInv'
    OBVIOUS
  <1>1. CASE UNCHANGED runtimeVars
    BY <1>1 DEF runtimeVars, RuntimeIInv, RuntimeTypeOK, SweepInv, Safe, Live
  <1>2. ASSUME NEW v \in Versions, Install(v) \/ WeekPasses(v) PROVE RuntimeIInv'
    BY <1>2, InstallKeeps
  <1>3. ASSUME NEW s \in RuntimeSlots,
               RunSession(s) \/ RememberRuntime(s) \/ RegistrationFails(s) \/ EndSession(s)
        PROVE  RuntimeIInv'
    BY <1>3, RunSessionKeeps, RememberRuntimeKeeps, FailOrEndKeeps
  <1>4. CASE SweepWorkers \/ SweepHistory \/ SweepInstalled \/ SweepRemove
    BY <1>4, SweepWorkersKeeps, SweepHistoryKeeps, SweepInstalledKeeps, SweepRemoveKeeps
  <1> QED
    BY <1>1, <1>2, <1>3, <1>4 DEF RuntimeNext

\* Only a sweep takes a copy, and it takes none that is safe.
Removals ==
  \A v \in Versions :
    snapshot[v] # "none" /\ snapshot'[v] = "none" => v \notin Needed \/ ~sweep.sure

LEMMA OnlySweepRemoves ==
  ASSUME RuntimeIInv, [RuntimeNext]_runtimeVars
  PROVE  Removals
  <1> USE DEF RuntimeIInv
  <1>1. CASE SweepRemove
    <2>1. PICK gone \in SUBSET sweep.unspared :
            snapshot' = [v \in Versions |-> IF v \in gone THEN "none" ELSE snapshot[v]]
      BY <1>1 DEF SweepRemove
    <2>2. sweep.sure => \A v \in Needed : v \notin sweep.unspared
      BY <1>1 DEF SweepRemove, SweepInv, Safe, Needed
    <2> QED
      BY <2>1, <2>2 DEF Removals
  <1>2. ASSUME NEW s \in RuntimeSlots, RunSession(s) PROVE Removals
    BY <1>2 DEF RunSession, RuntimeTypeOK, Removals
  <1>3. ASSUME NEW u \in Versions, WeekPasses(u) PROVE Removals
    BY <1>3 DEF WeekPasses, RuntimeTypeOK, Removals
  <1>4. CASE UNCHANGED snapshot
    BY <1>4 DEF Removals
  <1> QED
    BY <1>1, <1>2, <1>3, <1>4
    DEF RuntimeNext, runtimeVars, Install, RememberRuntime, RegistrationFails, EndSession,
        SweepWorkers, SweepHistory, SweepInstalled

\* No sweep removes the copy that a live worker runs from, or the one of the current or
\* the previous version, if it read what is installed and that did not change while it
\* went on; for any number of versions and workers (CleanupRuntimes).
THEOREM NeededStay == RuntimeSpec => NeededCopiesStay
<1>1. RuntimeIInv /\ [RuntimeNext]_runtimeVars => [Removals]_runtimeVars
  BY OnlySweepRemoves
<1>2. RuntimeSpec => [][Removals]_runtimeVars
  BY <1>1, RuntimeInitInv, RuntimeStepInv, PTL DEF RuntimeSpec
<1> QED
  BY <1>2 DEF NeededCopiesStay, Removals

-----------------------------------------------------------------------------
(* The checkpoint of a conversation that continues elsewhere.              *)

\* Without a destination there is no worker and no hook: a new checkpoint, and with it
\* an empty given, meets nobody who read an earlier one.
NobodyInv ==
  /\ ~Exists => claude.at = "down" /\ \A h \in PromptHooks : hook[h] = NoHook
  /\ op \in {"source", "capture", "create"} => ~Exists
  /\ op \in {"want", "launch"} => Exists

\* Whoever found no file, or has written, knows that the text was written to a prompt; a
\* hook that ended in silence need not have looked. A worker that is up is in a conversation.
GivenInv ==
  /\ \A h \in PromptHooks :
       hook[h].at \notin {"none", "silent"} /\ (~hook[h].loaded \/ hook[h].at = "written")
         => given # {}
  /\ claude.at \in {"prompt", "hooked"} => file \/ given # {}
  /\ claude.at # "down" => claude.talk # 0

ContinuationIInv == ContinuationTypeOK /\ NobodyInv /\ GivenInv

\* What a step must do to the file and to the prompt.
Arrives ==
  /\ file /\ ~file' => op = "create" \/ given # {}
  /\ claude.at = "hooked" /\ claude'.at = "works" /\ given = {} =>
       file' /\ \E h \in PromptHooks : hook[h].at = "silent" /\ Waits(h)

LEMMA ConversationNumbers ==
  0 \in 0..MaxTalks /\ \A n \in 0..MaxTalks : n < MaxTalks => n + 1 \in 0..MaxTalks
BY ContinuationAssumption

LEMMA ContinuationInitIInv == ContinuationInit => ContinuationIInv
<1> SUFFICES ASSUME ContinuationInit PROVE ContinuationIInv
  OBVIOUS
<1> USE DEF ContinuationInit, NoHook, NoAgent
<1>1. ContinuationTypeOK
  BY ConversationNumbers DEF ContinuationTypeOK, Ops, Talks
<1>2. NobodyInv /\ GivenInv
  BY DEF NobodyInv, GivenInv, Exists
<1> QED
  BY <1>1, <1>2 DEF ContinuationIInv

\* The steps of the operation that leave file, worker and hooks alone.
LEMMA OperationKeeps ==
  ASSUME ContinuationIInv,
         \/ HandoffSlot \/ CreateHandoff \/ ContinueClaude \/ ContinueFails \/ StopSource
         \/ WantDestination \/ StartSource
  PROVE  ContinuationIInv' /\ Arrives
<1> USE DEF ContinuationIInv, HandoffSlot, CreateHandoff, ContinueClaude, ContinueFails,
        StopSource, WantDestination, StartSource, Exists
<1>1. ContinuationTypeOK'
  BY ConversationNumbers DEF ContinuationTypeOK, Ops, Talks
<1>2. NobodyInv'
  BY DEF NobodyInv, ContinuationTypeOK
<1>3. GivenInv' /\ Arrives
  BY DEF GivenInv, Arrives
<1> QED
  BY <1>1, <1>2, <1>3

LEMMA SaveKeeps == ContinuationIInv /\ SaveContinuation => ContinuationIInv' /\ Arrives
<1> SUFFICES ASSUME ContinuationIInv, SaveContinuation PROVE ContinuationIInv' /\ Arrives
  OBVIOUS
<1> USE DEF ContinuationIInv, SaveContinuation, Exists
<1>1. ContinuationTypeOK'
  BY ConversationNumbers DEF ContinuationTypeOK, Ops, Talks
<1>2. NobodyInv'
  BY DEF NobodyInv
<1>3. GivenInv' /\ Arrives
  BY DEF GivenInv, NobodyInv, NoHook, Arrives
<1> QED
  BY <1>1, <1>2, <1>3

LEMMA CreateKeeps == ContinuationIInv /\ CreateDestination => ContinuationIInv' /\ Arrives
<1> SUFFICES ASSUME ContinuationIInv, CreateDestination PROVE ContinuationIInv' /\ Arrives
  OBVIOUS
<1> USE DEF ContinuationIInv, CreateDestination, Exists
<1>1. ContinuationTypeOK'
  <2>1. dest' \in [desired : {"none", "running", "stopped"}, resume : 0..MaxTalks]
    BY ConversationNumbers DEF ContinuationTypeOK
  <2>2. op' \in Ops /\ file' \in BOOLEAN
    BY DEF ContinuationTypeOK, Ops
  <2> QED
    BY <2>1, <2>2 DEF ContinuationTypeOK, Talks
<1>2. NobodyInv'
  BY DEF NobodyInv, ContinuationTypeOK
<1>3. GivenInv' /\ Arrives
  BY DEF GivenInv, NobodyInv, NoHook, Arrives
<1> QED
  BY <1>1, <1>2, <1>3

\* A worker is given a prompt of its own only when the file is there.
LEMMA AgentStartKeeps ==
  ASSUME ContinuationIInv, Exists,
         \/ LaunchDestination \/ Restart
  PROVE  ContinuationIInv' /\ Arrives
<1> USE DEF ContinuationIInv, Exists
<1>1. CASE StartAgent /\ op' \in {"none", op} /\ UNCHANGED <<source, dest, file, hook, given>>
           /\ op' = "none"
  <2>1. ContinuationTypeOK'
    BY <1>1, ConversationNumbers DEF StartAgent, ContinuationTypeOK, Ops, Talks
  <2>2. NobodyInv' /\ GivenInv' /\ Arrives
    BY <1>1, ContinuationAssumption DEF StartAgent, NobodyInv, GivenInv, Arrives, ContinuationTypeOK
  <2> QED
    BY <2>1, <2>2
<1>2. CASE /\ dest' = [dest EXCEPT !.desired = "stopped"] /\ op' = "none"
           /\ UNCHANGED <<source, claude, talks, file, hook, given>>
  <2>1. ContinuationTypeOK'
    BY <1>2 DEF ContinuationTypeOK, Ops, Talks
  <2>2. NobodyInv' /\ GivenInv' /\ Arrives
    BY <1>2 DEF ContinuationTypeOK, NobodyInv, GivenInv, Arrives
  <2> QED
    BY <2>1, <2>2
<1> QED
  BY <1>1, <1>2 DEF LaunchDestination, Restart

LEMMA OrphansKeep ==
  ASSUME ContinuationIInv
  PROVE  /\ Orphans \in [PromptHooks -> [at : {"none", "loaded", "recorded", "written", "silent"},
                                         loaded : BOOLEAN, talk : 0..MaxTalks]]
         /\ \A h \in PromptHooks : /\ hook[h] = NoHook => Orphans[h] = NoHook
                                   /\ Orphans[h].at = hook[h].at
                                   /\ Orphans[h].loaded = hook[h].loaded
<1>1. \A h \in PromptHooks :
        /\ hook[h] \in [at : {"none", "loaded", "recorded", "written", "silent"},
                        loaded : BOOLEAN, talk : 0..MaxTalks]
        /\ Orphans[h] = [hook[h] EXCEPT !.talk = 0]
  BY DEF ContinuationIInv, ContinuationTypeOK, Orphans
<1>2. ASSUME NEW h \in PromptHooks
      PROVE  /\ Orphans[h].at = hook[h].at /\ Orphans[h].loaded = hook[h].loaded
             /\ Orphans[h] \in [at : {"none", "loaded", "recorded", "written", "silent"},
                                loaded : BOOLEAN, talk : 0..MaxTalks]
             /\ hook[h] = NoHook => Orphans[h] = NoHook
  <2>1. Orphans[h] = [at |-> hook[h].at, loaded |-> hook[h].loaded, talk |-> 0]
    BY <1>1
  <2>2. /\ hook[h].at \in {"none", "loaded", "recorded", "written", "silent"}
        /\ hook[h].loaded \in BOOLEAN
    BY <1>1
  <2>3. hook[h] = NoHook => Orphans[h] = NoHook
    BY <2>1 DEF NoHook
  <2>4. Orphans[h] \in [at : {"none", "loaded", "recorded", "written", "silent"},
                        loaded : BOOLEAN, talk : 0..MaxTalks]
    BY <2>1, <2>2, ConversationNumbers
  <2> QED
    BY <2>1, <2>3, <2>4
<1> QED
  BY <1>2 DEF Orphans

LEMMA EndsKeep ==
  ASSUME ContinuationIInv,
         AgentStops \/ RemoveDestination \/ DaemonCrashes
  PROVE  ContinuationIInv' /\ Arrives
<1> USE DEF ContinuationIInv, AgentStops, RemoveDestination, DaemonCrashes, Exists, NoAgent
<1>1. ContinuationTypeOK'
  BY ConversationNumbers, OrphansKeep DEF ContinuationTypeOK, Ops, Talks
<1>2. NobodyInv'
  BY OrphansKeep DEF NobodyInv, ContinuationTypeOK
<1>3. GivenInv' /\ Arrives
  BY OrphansKeep DEF GivenInv, Arrives
<1> QED
  BY <1>1, <1>2, <1>3

\* A hook that is at work has a destination.
LEMMA HookHasDestination ==
  ASSUME ContinuationIInv, NEW h \in PromptHooks, hook[h].at # "none" \/ claude.at # "down"
  PROVE  Exists
BY DEF ContinuationIInv, NobodyInv, NoHook

LEMMA LoadKeeps ==
  ASSUME ContinuationIInv, NEW h \in PromptHooks, HookLoads(h) \/ HookUnopened(h)
  PROVE  ContinuationIInv' /\ Arrives
<1> USE DEF ContinuationIInv, HookLoads, HookUnopened
<1>1. ContinuationTypeOK'
  <2>1. claude.talk \in 0..MaxTalks /\ file \in BOOLEAN
    BY DEF ContinuationTypeOK
  <2>2. hook' \in [PromptHooks -> [at : {"none", "loaded", "recorded", "written", "silent"},
                                   loaded : BOOLEAN, talk : 0..MaxTalks]]
    <3>1. \E new \in [at : {"none", "loaded", "recorded", "written", "silent"},
                      loaded : BOOLEAN, talk : 0..MaxTalks] : hook' = [hook EXCEPT ![h] = new]
      BY <2>1
    <3> QED
      BY <3>1 DEF ContinuationTypeOK
  <2>3. claude' \in [at : {"down", "prompt", "hooked", "works"}, talk : 0..MaxTalks]
    BY DEF ContinuationTypeOK
  <2> QED
    BY <2>2, <2>3 DEF ContinuationTypeOK
<1>2. Exists
  BY HookHasDestination
<1>3. NobodyInv'
  BY <1>2 DEF NobodyInv, Exists
<1>4. GivenInv' /\ Arrives
  BY DEF GivenInv, Arrives, ContinuationTypeOK
<1> QED
  BY <1>1, <1>3, <1>4

LEMMA SilentKeeps ==
  ASSUME ContinuationIInv, NEW h \in PromptHooks, HookIgnored(h) \/ HookKilled(h)
  PROVE  ContinuationIInv' /\ Arrives
<1> USE DEF ContinuationIInv, HookIgnored, HookKilled
<1>1. ContinuationTypeOK'
  BY DEF ContinuationTypeOK
<1>2. Exists
  BY HookHasDestination
<1>3. NobodyInv'
  BY <1>2 DEF NobodyInv, Exists
<1>4. GivenInv' /\ Arrives
  BY DEF GivenInv, Arrives, ContinuationTypeOK
<1> QED
  BY <1>1, <1>3, <1>4

LEMMA HookRecordsKeeps ==
  ASSUME ContinuationIInv, NEW h \in PromptHooks, HookRecords(h)
  PROVE  ContinuationIInv' /\ Arrives
<1> USE DEF ContinuationIInv, HookRecords
<1>1. ContinuationTypeOK'
  BY DEF ContinuationTypeOK
<1>2. Exists
  BY HookHasDestination
<1>3. NobodyInv'
  BY <1>2 DEF NobodyInv, Exists, ContinuationTypeOK
<1>4. GivenInv' /\ Arrives
  BY DEF GivenInv, Arrives, ContinuationTypeOK
<1> QED
  BY <1>1, <1>3, <1>4

LEMMA WriteKeeps ==
  ASSUME ContinuationIInv, NEW h \in PromptHooks, HookWrites(h)
  PROVE  ContinuationIInv' /\ Arrives
<1> USE DEF ContinuationIInv, HookWrites
<1>1. ContinuationTypeOK'
  <2>1. hook[h].talk \in 0..MaxTalks /\ hook[h].talk # 0
    BY DEF ContinuationTypeOK, GivenInv, Waits
  <2> QED
    BY <2>1, ContinuationAssumption DEF ContinuationTypeOK, Talks
<1>2. Exists
  BY HookHasDestination
<1>3. NobodyInv'
  BY <1>2 DEF NobodyInv, Exists, ContinuationTypeOK
<1>4. GivenInv' /\ Arrives
  BY DEF GivenInv, Arrives, ContinuationTypeOK
<1> QED
  BY <1>1, <1>3, <1>4

\* A hook ends: the prompt goes ahead only if the text was written, or in silence.
LEMMA ExitKeeps ==
  ASSUME ContinuationIInv, NEW h \in PromptHooks, hook[h].at # "none",
         NEW refused \in BOOLEAN, Exit(h, refused),
         ~refused => given # {} \/ (hook[h].at = "silent" /\ file' = file),
         UNCHANGED <<source, dest, op, talks, given>>, file' \in BOOLEAN,
         file' # file => given # {}
  PROVE  ContinuationIInv' /\ Arrives
<1> USE DEF ContinuationIInv, Exit
<1>1. ContinuationTypeOK'
  <2>1. hook' \in [PromptHooks -> [at : {"none", "loaded", "recorded", "written", "silent"},
                                   loaded : BOOLEAN, talk : 0..MaxTalks]]
    BY ContinuationAssumption DEF ContinuationTypeOK, NoHook
  <2>2. claude' \in [at : {"down", "prompt", "hooked", "works"}, talk : 0..MaxTalks]
    BY DEF ContinuationTypeOK
  <2> QED
    BY <2>1, <2>2 DEF ContinuationTypeOK, Talks
<1>2. Exists
  BY HookHasDestination
<1>3. NobodyInv'
  BY <1>2 DEF NobodyInv, Exists
<1>4. GivenInv'
  <2>1. \A q \in PromptHooks : hook'[q] = NoHook \/ hook'[q] = hook[q]
    BY DEF ContinuationTypeOK
  <2>2. /\ claude'.talk = claude.talk /\ (claude'.at = "down" <=> claude.at = "down")
        /\ claude'.at \in {"prompt", "hooked"} => claude.at \in {"prompt", "hooked"}
    BY DEF ContinuationTypeOK, Waits
  <2> QED
    BY <2>1, <2>2 DEF GivenInv, ContinuationTypeOK, NoHook
<1>5. Arrives
  BY DEF GivenInv, Arrives, ContinuationTypeOK, Waits
<1> QED
  BY <1>1, <1>3, <1>4, <1>5

LEMMA HookEndKeeps ==
  ASSUME ContinuationIInv, NEW h \in PromptHooks,
         HookFails(h) \/ HookPasses(h) \/ RemoveContinuation(h) \/ PromptGoesAhead(h)
  PROVE  ContinuationIInv' /\ Arrives
<1>1. CASE HookFails(h)
  <2>1. hook[h].loaded \in BOOLEAN /\ file \in BOOLEAN
    BY DEF ContinuationIInv, ContinuationTypeOK
  <2>2. hook[h].at # "none" /\ (~hook[h].loaded => given # {})
    BY <1>1 DEF HookFails, ContinuationIInv, GivenInv
  <2>3. Exit(h, hook[h].loaded) /\ UNCHANGED <<source, dest, file, op, talks, given>>
    BY <1>1 DEF HookFails
  <2> QED
    BY <2>1, <2>2, <2>3, ExitKeeps
<1>2. CASE HookPasses(h) \/ RemoveContinuation(h)
  <2>1. hook[h].at # "none" /\ given # {} /\ file \in BOOLEAN
    BY <1>2
       DEF HookPasses, RemoveContinuation, ContinuationIInv, ContinuationTypeOK,
           GivenInv
  <2>2. /\ Exit(h, FALSE) /\ UNCHANGED <<source, dest, op, talks, given>>
        /\ file' \in {file, FALSE}
    BY <1>2 DEF HookPasses, RemoveContinuation
  <2> QED
    BY <2>1, <2>2, ExitKeeps
<1>3. CASE PromptGoesAhead(h)
  <2>1. hook[h].at = "silent" /\ file \in BOOLEAN
    BY <1>3 DEF PromptGoesAhead, ContinuationIInv, ContinuationTypeOK
  <2>2. Exit(h, FALSE) /\ UNCHANGED <<source, dest, op, talks, given, file>>
    BY <1>3 DEF PromptGoesAhead
  <2> QED
    BY <2>1, <2>2, ExitKeeps
<1> QED
  BY <1>1, <1>2, <1>3

LEMMA ContinuationNextKeeps ==
  ContinuationIInv /\ [ContinuationNext]_continuationVars
    => ContinuationIInv' /\ [Arrives]_continuationVars
<1> SUFFICES ASSUME ContinuationIInv, [ContinuationNext]_continuationVars
             PROVE  ContinuationIInv' /\ [Arrives]_continuationVars
  OBVIOUS
<1>1. CASE UNCHANGED continuationVars
  BY <1>1
     DEF continuationVars, ContinuationIInv, ContinuationTypeOK, NobodyInv, GivenInv, Exists
<1>2. CASE LaunchDestination \/ Restart
  <2>1. Exists
    BY <1>2 DEF LaunchDestination, Restart, ContinuationIInv, NobodyInv, Exists
  <2> QED
    BY <1>2, <2>1, AgentStartKeeps
<1>3. ASSUME NEW h \in PromptHooks,
             \/ HookUnopened(h) \/ HookLoads(h) \/ HookFails(h) \/ HookRecords(h) \/ HookWrites(h)
             \/ HookPasses(h) \/ RemoveContinuation(h)
             \/ HookIgnored(h) \/ HookKilled(h) \/ PromptGoesAhead(h)
      PROVE  ContinuationIInv' /\ Arrives
  BY <1>3, LoadKeeps, SilentKeeps, HookRecordsKeeps, WriteKeeps, HookEndKeeps
<1> QED
  BY <1>1, <1>2, <1>3, OperationKeeps, SaveKeeps, CreateKeeps, EndsKeep DEF ContinuationNext

\* The types of the continuation, and what they rest on.
THEOREM ContinuationTypeCorrect == ContinuationSpec => []ContinuationTypeOK
<1>1. ContinuationIInv => ContinuationTypeOK
  BY DEF ContinuationIInv
<1> QED
  BY <1>1, ContinuationInitIInv, ContinuationNextKeeps, PTL DEF ContinuationSpec

\* A saved checkpoint is not lost, however often the continuation is tried and whatever
\* hooks fail, are killed or outlive their worker; and it is left out only of a prompt
\* whose own hook ended without refusing it, which leaves the file for the next start.
THEOREM Arrival == ContinuationSpec => CheckpointArrives
<1>1. Arrives <=>
        /\ file /\ ~file' => op = "create" \/ given # {}
        /\ claude.at = "hooked" /\ claude'.at = "works" /\ given = {} =>
             file' /\ \E h \in PromptHooks : hook[h].at = "silent" /\ Waits(h)
  BY DEF Arrives
<1> QED
  BY <1>1, ContinuationInitIInv, ContinuationNextKeeps, PTL
     DEF ContinuationSpec, CheckpointArrives

=============================================================================
