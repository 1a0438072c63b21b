---------------------------- MODULE LibraryFiles ----------------------------
(***************************************************************************)
(* The files of the library and what may happen to them: import workers    *)
(* store a file under its content's hash (StorageManager::storeFile and    *)
(* moveFile, behind the database row stageInsertMesh has inserted), the    *)
(* user deletes models, a detached thread relocates the workspace          *)
(* (WorkspaceRelocator::relocate) and the main thread switches to the new  *)
(* root when it has succeeded; the program may end at any point and is     *)
(* started again.                                                          *)
(*                                                                         *)
(* A file is "none", "whole" when it has the bytes its hash was taken from *)
(* and "part" when it has not.  A workspace root keeps, below              *)
(* Support/blobs, the blob of a content and the temporary file storeFile   *)
(* writes first; both are relocated.  The Support directory has no         *)
(* override of its own, and the database lies outside the workspace.       *)
(***************************************************************************)
EXTENDS Naturals, FiniteSets

CONSTANTS
  Contents,     \* files the user has, told apart by their hash
  Roots,        \* directories the workspace may have as its root
  MaxMoves,     \* bound on relocations begun
  MaxRestarts,  \* bound on ends of the program, orderly or not
  MayReturn     \* a relocation may go to the directory StorageManager was
                \* built with and keeps writing to until the next start

ASSUME LibraryAssumption ==
  /\ "none" \notin Roots /\ "relative" \notin Roots
  /\ MaxMoves \in Nat /\ MaxRestarts \in Nat /\ MayReturn \in BOOLEAN

VARIABLES
  source,    \* contents whose own file the user still has
  disk,      \* the library's files under each root
  row,       \* models.file_path: "none", "relative" to Support, or the root
             \* of an absolute path
  root,      \* Config::getEffectiveWorkspaceRoot
  home,      \* the root StorageManager was built with
  pc,        \* where the import of a content is
  relPc, dest, due, seen, cur, success,  \* relocate: step, options.destRoot,
             \* files of the start not yet visited, files visited, the one
             \* in hand, result.success
  moves, restarts,
  \* history: contents some copy of which a relocation left unfinished;
  \* contents imported across a relocation or a restart, and those whose
  \* absolute path a relocation took the files away from; roots to which a
  \* relocation that did not succeed has taken files
  cut, strays, split

library == <<source, row, pc>>
relocator == <<relPc, dest, due, seen, cur, success>>
history == <<cut, strays, split>>
vars == <<library, disk, root, home, relocator, moves, restarts, history>>

Entries == {"blob", "temp"} \X Contents
Blob(c) == <<"blob", c>>
Temp(c) == <<"temp", c>>
Exists(r, e) == disk[r][e] # "none"
FilesIn(r) == {e \in Entries : Exists(r, e)}
InFlight == {c \in Contents : pc[c] # "idle"}

Init ==
  /\ source = Contents
  /\ disk = [r \in Roots |-> [e \in Entries |-> "none"]]
  /\ row = [c \in Contents |-> "none"]
  /\ root \in Roots /\ home = root
  /\ pc = [c \in Contents |-> "idle"]
  /\ relPc = "idle" /\ dest = root /\ due = {} /\ seen = {}
  /\ cur = {} /\ success = FALSE
  /\ moves = 0 /\ restarts = 0
  /\ cut = {} /\ strays = {} /\ split = {}

-----------------------------------------------------------------------------
(* An import worker, from the row it inserts to the file's last step.  One  *)
(* content is imported once at a time: its hash is UNIQUE in the table.     *)

At(c, here, next) == pc[c] = here /\ pc' = [pc EXCEPT ![c] = next]

Write(r, e, state) == disk' = [disk EXCEPT ![r][e] = state]

\* makeStorable(blobPath(hash)): relative while StorageManager's root is the
\* configured one.
StorablePath == IF home = root THEN "relative" ELSE home

\* stageCheckDuplicate and stageInsertMesh.
InsertRow(c) ==
  /\ c \in source /\ row[c] = "none"
  /\ At(c, "idle", "store")
  /\ row' = [row EXCEPT ![c] = StorablePath]
  /\ strays' = IF relPc = "idle" THEN strays \ {c} ELSE strays \cup {c}
  /\ UNCHANGED <<source, disk, root, home, relocator, moves, restarts, cut,
                 split>>

\* Defect to compare with: the source is copied over the blob's own name.
StoreInPlace(c) ==
  /\ IF Exists(home, Blob(c))
     THEN At(c, "store", "stored") /\ UNCHANGED disk
     ELSE At(c, "store", "copying") /\ Write(home, Blob(c), "part")
  /\ UNCHANGED <<source, row, root, home, relocator, moves, restarts,
                 history>>

\* storeFile: the blob is there already, or the copy to the temporary file
\* begins.
StoreFile(c) ==
  /\ IF Exists(home, Blob(c))
     THEN At(c, "store", "stored") /\ UNCHANGED disk
     ELSE At(c, "store", "copying") /\ Write(home, Temp(c), "part")
  /\ UNCHANGED <<source, row, root, home, relocator, moves, restarts,
                 history>>

\* copy_file returns, or throws and leaves what it has written.  The source
\* may have changed since it was hashed, and the temporary file be gone.
CopiedToTemp(c) ==
  /\ At(c, "copying", "verify")
  /\ \E state \in {"part", "whole"} :
       Write(home, Temp(c), IF Exists(home, Temp(c)) THEN state ELSE "none")
  /\ UNCHANGED <<source, row, root, home, relocator, moves, restarts,
                 history>>

CopyThrows(c) ==
  /\ At(c, "copying", "failed")
  /\ UNCHANGED <<source, row, disk, root, home, relocator, moves,
                 restarts, history>>

VerifyHash(c) ==
  /\ IF disk[home][Temp(c)] = "whole"
     THEN At(c, "verify", "rename") /\ UNCHANGED disk
     ELSE At(c, "verify", "failed") /\ Write(home, Temp(c), "none")
  /\ UNCHANGED <<source, row, root, home, relocator, moves, restarts,
                 history>>

\* fs::rename replaces the destination, and throws when the file is gone.
RenameToBlob(c) ==
  /\ IF Exists(home, Temp(c))
     THEN /\ At(c, "rename", "stored")
          /\ disk' = [disk EXCEPT ![home][Blob(c)] = disk[home][Temp(c)],
                                  ![home][Temp(c)] = "none"]
     ELSE At(c, "rename", "failed") /\ UNCHANGED disk
  /\ UNCHANGED <<source, row, root, home, relocator, moves, restarts,
                 history>>

\* moveFile removes the source, if it can; storeFile alone leaves it.
Stored(c) ==
  /\ At(c, "stored", "idle")
  /\ source' = source \ {c} \/ UNCHANGED source
  /\ UNCHANGED <<row, disk, root, home, relocator, moves, restarts,
                 history>>

\* stageHandleFile: the row is rolled back.
RollBack(c) ==
  /\ At(c, "failed", "idle")
  /\ row' = [row EXCEPT ![c] = "none"]
  /\ UNCHANGED <<source, disk, root, home, relocator, moves, restarts,
                 history>>

\* LibraryManager::removeModel: the row goes, the blob stays.
RemoveModel(c) ==
  /\ row[c] # "none"
  /\ row' = [row EXCEPT ![c] = "none"]
  /\ UNCHANGED <<source, pc, disk, root, home, relocator, moves,
                 restarts, history>>

-----------------------------------------------------------------------------
(* Relocation: one at a time, under a modal dialog, from the root in use.   *)

\* handleRelocateWorkspace: with no file to move the root is switched at once;
\* otherwise a thread walks the tree.
Relocate(r) ==
  /\ relPc = "idle" /\ r # root /\ moves < MaxMoves
  /\ r # home \/ MayReturn
  /\ moves' = moves + 1
  /\ dest' = r /\ strays' = strays \cup InFlight \cup {c \in Contents : row[c] = root}
  /\ IF FilesIn(root) = {}
     THEN root' = r /\ split' = split \ {r} /\ UNCHANGED <<relPc, due, seen>>
     ELSE /\ relPc' = "walk" /\ due' = FilesIn(root) /\ seen' = {}
          /\ UNCHANGED <<root, split>>
  /\ UNCHANGED <<library, disk, home, cur, success, restarts, cut>>

\* The next file of the walk; one that exists at the destination is skipped.
NextFile(e) ==
  /\ relPc = "walk" /\ e \in FilesIn(root) \ seen
  /\ seen' = seen \cup {e} /\ due' = due \ {e}
  /\ IF Exists(dest, e) THEN UNCHANGED <<relPc, cur>>
                        ELSE relPc' = "open" /\ cur' = {e}
  /\ UNCHANGED <<library, disk, root, home, dest, success, moves, restarts,
                 history>>

Finish(how) == relPc' = "done" /\ success' = how /\ cur' = {}

\* file::copy opens both files; the source may be gone by now.
OpenCopy(e) ==
  /\ relPc = "open" /\ e \in cur
  /\ IF Exists(root, e)
     THEN relPc' = "copy" /\ Write(dest, e, "part") /\ UNCHANGED <<cur, success>>
     ELSE Finish(FALSE) /\ UNCHANGED disk
  /\ UNCHANGED <<library, root, home, dest, due, seen, moves, restarts,
                 history>>

\* The copy is as good as the file it was made from; a temporary file may
\* have been renamed, or still be growing.
Copied(e) ==
  /\ relPc = "copy" /\ e \in cur /\ relPc' = "remove"
  /\ Write(dest, e, IF Exists(root, e) THEN disk[root][e] ELSE "part")
  /\ UNCHANGED <<library, root, home, dest, due, seen, cur, success, moves,
                 restarts, history>>

\* Defect to compare with: the result of the copy is not looked at.
CopyUnchecked(e) ==
  /\ relPc = "copy" /\ e \in cur /\ relPc' = "remove"
  /\ cut' = cut \cup {e[2]}
  /\ UNCHANGED <<library, disk, root, home, dest, due, seen, cur, success,
                 moves, restarts, strays, split>>

CopyFails(e) ==
  /\ relPc = "copy" /\ e \in cur /\ Finish(FALSE)
  /\ cut' = cut \cup {e[2]}
  /\ UNCHANGED <<library, disk, root, home, dest, due, seen, moves, restarts,
                 strays, split>>

\* Not removing the source is no failure.
RemoveCopied(e) ==
  /\ relPc = "remove" /\ e \in cur /\ relPc' = "walk" /\ cur' = {}
  /\ Write(root, e, "none") \/ UNCHANGED disk
  /\ UNCHANGED <<library, root, home, dest, due, seen, success, moves,
                 restarts, history>>

\* Defect to compare with: an iterator that stops early counts as the end.
WalkBreaksOff ==
  /\ relPc = "walk" /\ Finish(TRUE)
  /\ UNCHANGED <<library, disk, root, home, dest, due, seen, moves, restarts,
                 history>>

\* The iterator may or may not meet a file that came during the walk.
WalkEnds ==
  /\ relPc = "walk" /\ due \cap FilesIn(root) = {}
  /\ Finish(TRUE)
  /\ UNCHANGED <<library, disk, root, home, dest, due, seen, moves, restarts,
                 history>>

\* Between two files: the user has cancelled, or a directory cannot be made.
Cancelled ==
  /\ relPc = "walk" /\ Finish(FALSE)
  /\ UNCHANGED <<library, disk, root, home, dest, due, seen, moves, restarts,
                 history>>

\* What the relocation kept is gone with it.
Forget ==
  /\ relPc' = "idle" /\ dest' = root' /\ due' = {} /\ seen' = {} /\ cur' = {}
  /\ success' = FALSE

\* The task the thread leaves on the main thread's queue.
SwitchRoot ==
  /\ relPc = "done"
  /\ root' = IF success THEN dest ELSE root
  /\ Forget
  /\ split' = IF success THEN split \ {dest} ELSE split \cup {dest}
  /\ UNCHANGED <<library, disk, home, moves, restarts, cut, strays>>

\* The program ends, orderly or not, and is started again: StorageManager
\* takes the configured root and removes the temporary files it finds there.
Restart ==
  /\ restarts < MaxRestarts /\ restarts' = restarts + 1
  /\ home' = root
  /\ disk' = [disk EXCEPT ![root] =
                [e \in Entries |-> IF e[1] = "temp" THEN "none" ELSE @[e]]]
  /\ pc' = [c \in Contents |-> "idle"]
  /\ UNCHANGED root /\ Forget
  /\ cut' = cut \cup {e[2] : e \in IF relPc = "copy" THEN cur ELSE {}}
  /\ strays' = strays \cup InFlight
  /\ split' = IF relPc = "idle" THEN split ELSE split \cup {dest}
  /\ UNCHANGED <<source, row, moves>>

-----------------------------------------------------------------------------
ImportStep(c) ==
  \/ InsertRow(c) \/ StoreFile(c) \/ CopiedToTemp(c) \/ CopyThrows(c)
  \/ VerifyHash(c) \/ RenameToBlob(c) \/ Stored(c) \/ RollBack(c)

RelocationStep ==
  \/ \E r \in Roots : Relocate(r)
  \/ \E e \in Entries : \/ NextFile(e) \/ OpenCopy(e) \/ Copied(e)
                        \/ CopyFails(e) \/ RemoveCopied(e)
  \/ WalkEnds \/ Cancelled \/ SwitchRoot

Next ==
  \/ \E c \in Contents : ImportStep(c) \/ RemoveModel(c)
  \/ RelocationStep
  \/ Restart

Spec == Init /\ [][Next]_vars

-----------------------------------------------------------------------------
Files == {"none", "part", "whole"}

TypeOK ==
  /\ source \subseteq Contents
  /\ disk \in [Roots -> [Entries -> Files]]
  /\ row \in [Contents -> {"none", "relative"} \cup Roots]
  /\ root \in Roots /\ home \in Roots /\ dest \in Roots
  /\ pc \in [Contents -> {"idle", "store", "copying", "verify", "rename",
                          "stored", "failed"}]
  /\ relPc \in {"idle", "walk", "open", "copy", "remove", "done"}
  /\ due \subseteq Entries /\ seen \subseteq Entries /\ cur \subseteq Entries
  /\ success \in BOOLEAN
  /\ moves \in Nat /\ restarts \in Nat
  /\ cut \subseteq Contents /\ strays \subseteq Contents
  /\ split \subseteq Roots

\* Whatever is imported, moved, relocated, cancelled or cut off, the bytes of
\* every file are complete somewhere: in the user's own file or in a blob
\* under some root (moveFile removes the source only behind a stored blob,
\* the relocator only behind a complete copy), as long as the workspace is
\* not moved into the directory the running StorageManager writes to.
NothingLost ==
  ~MayReturn => \A c \in Contents :
    c \in source \/ \E r \in Roots : disk[r][Blob(c)] = "whole"

\* A blob is whole wherever it is (storage_manager.h: temp, verify, rename),
\* unless the relocator is writing it or was stopped while it did.
BlobIsWhole ==
  ~MayReturn => \A c \in Contents \ cut, r \in Roots :
    disk[r][Blob(c)] = "part" => relPc = "copy" /\ dest = r /\ cur = {Blob(c)}

\* The path of a model that was imported in peace leads to its blob whenever
\* no relocation is under way and none that has failed is still to be made good.
\* The absolute path a model gets between a relocation and the next start does
\* so until the workspace leaves that directory once more: nothing rewrites it.
RowHasFile ==
  relPc = "idle" /\ split = {} /\ ~MayReturn
    => \A c \in Contents \ (strays \cup InFlight) :
         row[c] # "none" =>
           Exists(IF row[c] = "relative" THEN root ELSE row[c], Blob(c))
=============================================================================
