------------------------------- MODULE Memory -------------------------------
(***************************************************************************)
(* The shared memory of one project (PrepareProjectMemory in               *)
(* claude/memory.go).                                                      *)
(*                                                                         *)
(* Each start of a worker imports the notes of the profiles into the       *)
(* directory of the project: a content is copied once, and the index,      *)
(* written at the end, says from where each note came. A lock keeps two    *)
(* starts apart; an import may fail or die after any write, and profiles   *)
(* get notes meanwhile. A note is its content: that is what a hash names.  *)
(***************************************************************************)
EXTENDS FiniteSets

CONSTANTS
  Importers,  \* starts of workers in the project
  Profiles,   \* directories with notes: the normal one and the accounts'
  Notes,      \* contents of notes
  NoImporter

ASSUME MemoryAssumption == NoImporter \notin Importers

VARIABLES
  notes,    \* notes[p]: the notes of profile p
  copies,   \* copies in the shared directory: content, and the profile its name is made from
  imports,  \* imports.json: note, profile it was found in, copy it is linked to
  holder,   \* who holds .import.lock
  import    \* import[i]: what importer i knows and has still to look at

memoryVars == <<notes, copies, imports, holder, import>>

Copy == [note : Notes, from : Profiles]
Import == [note : Notes, source : Profiles, target : Copy]
Found == Profiles \X Notes
NotImporting == [at |-> "idle", todo |-> {}, index |-> {}, seen |-> {}]

\* What an import starts from: the index, the notes it lists, and the copies the index
\* names or a walk of the directory finds, which an import that failed may have left.
Beginning ==
  [at |-> "import", index |-> imports, todo |-> {f \in Found : f[2] \in notes[f[1]]},
   seen |-> copies \cup {k.target : k \in imports}]

MemoryInit ==
  /\ notes = [p \in Profiles |-> {}]
  /\ copies = {} /\ imports = {}
  /\ holder = NoImporter
  /\ import = [i \in Importers |-> NotImporting]

\* A profile gets a note of its own, or loses one; originals are nobody else's.
WriteNote(p, n) ==
  /\ notes' = [notes EXCEPT ![p] = IF n \in @ THEN @ \ {n} ELSE @ \cup {n}]
  /\ UNCHANGED <<copies, imports, holder, import>>

\* Mutant: nobody waits for the lock.
LockMemoryImportUnlocked(i) ==
  /\ import[i].at = "idle"
  /\ import' = [import EXCEPT ![i] = Beginning]
  /\ UNCHANGED <<notes, copies, imports, holder>>

\* lockMemoryImport.
LockMemoryImport(i) ==
  /\ import[i].at = "idle" /\ holder = NoImporter
  /\ holder' = i
  /\ import' = [import EXCEPT ![i] = Beginning]
  /\ UNCHANGED <<notes, copies, imports>>

Done(i, f, target) ==
  import' = [import EXCEPT ![i].todo = @ \ {f}, ![i].seen = @ \cup {target},
               ![i].index = @ \cup {[note |-> f[2], source |-> f[1], target |-> target]}]

CopiesOf(i, n) == {c \in import[i].seen : c.note = n}

\* A note that is known from this profile is passed over, one whose content is there
\* is linked to the copy, another is copied first.
ImportNote(i, f) ==
  LET n == f[2] IN
  /\ import[i].at = "import" /\ f \in import[i].todo
  /\ \/ /\ \E k \in import[i].index : k.note = n /\ k.source = f[1]
        /\ import' = [import EXCEPT ![i].todo = @ \ {f}]
        /\ UNCHANGED copies
     \/ /\ ~\E k \in import[i].index : k.note = n /\ k.source = f[1]
        /\ \E c \in CopiesOf(i, n) : Done(i, f, c)
        /\ UNCHANGED copies
     \/ /\ CopiesOf(i, n) = {}
        /\ copies' = copies \cup {[note |-> n, from |-> f[1]]}
        /\ Done(i, f, [note |-> n, from |-> f[1]])
  /\ UNCHANGED <<notes, imports, holder>>

Unlock(i) ==
  /\ import' = [import EXCEPT ![i] = NotImporting]
  /\ holder' = IF holder = i THEN NoImporter ELSE holder

\* imports.json, then IMPORTS.md and MEMORY.md, which are made from it.
WriteImports(i) ==
  /\ import[i].at = "import" /\ import[i].todo = {}
  /\ imports' = import[i].index
  /\ Unlock(i)
  /\ UNCHANGED <<notes, copies>>

\* A write fails, the context ends, or the process dies: the kernel drops the lock.
ImportFails(i) ==
  /\ import[i].at = "import"
  /\ Unlock(i)
  /\ UNCHANGED <<notes, copies, imports>>

MemoryNext ==
  \/ \E p \in Profiles, n \in Notes : WriteNote(p, n)
  \/ \E i \in Importers :
       \/ LockMemoryImport(i) \/ WriteImports(i) \/ ImportFails(i)
       \/ \E f \in Found : ImportNote(i, f)

MemorySpec == MemoryInit /\ [][MemoryNext]_memoryVars

-----------------------------------------------------------------------------
(* Properties.                                                             *)

MemoryTypeOK ==
  /\ notes \in [Profiles -> SUBSET Notes]
  /\ copies \subseteq Copy
  /\ imports \subseteq Import
  /\ holder \in Importers \cup {NoImporter}
  /\ import \in [Importers -> [at : {"idle", "import"}, todo : SUBSET Found,
                               index : SUBSET Import, seen : SUBSET Copy]]

\* README.md:181: identical notes share one copy, also after imports that failed half
\* way, and every note the index names is there under the name it gives.
OneCopyPerNote ==
  /\ \A c, d \in copies : c.note = d.note => c = d
  /\ \A k \in imports : k.target \in copies /\ k.target.note = k.note

=============================================================================
