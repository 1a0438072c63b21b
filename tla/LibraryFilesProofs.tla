------------------------- MODULE LibraryFilesProofs -------------------------
(***************************************************************************)
(* The library's files for any number of contents and roots: types, no     *)
(* content is lost, no unfinished file passes for a blob (FilesInv), and   *)
(* the path in a row leads to its file, as a relocation either takes the   *)
(* whole root along or says that it has failed (PathInv).                  *)
(***************************************************************************)
EXTENDS LibraryFiles, TLAPS

-----------------------------------------------------------------------------
(* Types.                                                                  *)

LEMMA BlobsAndTemps ==
  ASSUME NEW c \in Contents, NEW d \in Contents
  PROVE  /\ Blob(c) \in Entries /\ Temp(c) \in Entries
         /\ Blob(c) # Temp(d)
         /\ Blob(c) = Blob(d) => c = d
         /\ Temp(c) = Temp(d) => c = d
         /\ Blob(c)[1] = "blob" /\ Blob(c)[2] = c
  BY DEF Entries, Blob, Temp

LEMMA WriteType ==
  ASSUME TypeOK, NEW r \in Roots, NEW e \in Entries, NEW s \in Files,
         Write(r, e, s)
  PROVE  /\ disk' \in [Roots -> [Entries -> Files]]
         /\ disk'[r][e] = s
         /\ \A q \in Roots, f \in Entries :
              <<q, f>> # <<r, e>> => disk'[q][f] = disk[q][f]
  BY DEF TypeOK, Write

LEMMA AtType ==
  ASSUME TypeOK, NEW c \in Contents, NEW here, NEW next, At(c, here, next),
         next \in {"idle", "store", "copying", "verify", "rename", "stored",
                   "failed"}
  PROVE  /\ pc' \in [Contents -> {"idle", "store", "copying", "verify",
                                  "rename", "stored", "failed"}]
         /\ pc[c] = here /\ pc'[c] = next
         /\ \A d \in Contents \ {c} : pc'[d] = pc[d]
  BY DEF TypeOK, At

LEMMA TypeInit == ASSUME Init PROVE TypeOK
  BY DEF Init, TypeOK, Files

LEMMA ImportTypes ==
  ASSUME TypeOK, NEW c \in Contents, ImportStep(c) \/ RemoveModel(c)
  PROVE  TypeOK'
<1> USE DEF relocator, history
<1> Blob(c) \in Entries /\ Temp(c) \in Entries  BY BlobsAndTemps
<1>1. CASE InsertRow(c)
  <2>1. pc' \in [Contents -> {"idle", "store", "copying", "verify", "rename",
                              "stored", "failed"}]
    BY <1>1, AtType DEF InsertRow
  <2> QED  BY <1>1, <2>1 DEF InsertRow, StorablePath, TypeOK
<1>2. CASE StoreFile(c)
  <2>1. pc' \in [Contents -> {"idle", "store", "copying", "verify", "rename",
                              "stored", "failed"}]
    BY <1>2, AtType DEF StoreFile
  <2>2. disk' \in [Roots -> [Entries -> Files]]
    BY <1>2, WriteType DEF StoreFile, TypeOK, Files
  <2> QED  BY <1>2, <2>1, <2>2 DEF StoreFile, TypeOK
<1>3. CASE CopiedToTemp(c)
  <2>1. pc' \in [Contents -> {"idle", "store", "copying", "verify", "rename",
                              "stored", "failed"}]
    BY <1>3, AtType DEF CopiedToTemp
  <2>2. disk' \in [Roots -> [Entries -> Files]]
    <3>1. PICK s \in {"part", "whole"} :
            Write(home, Temp(c), IF Exists(home, Temp(c)) THEN s ELSE "none")
      BY <1>3 DEF CopiedToTemp
    <3> QED  BY <3>1, WriteType DEF TypeOK, Files
  <2> QED  BY <1>3, <2>1, <2>2 DEF CopiedToTemp, TypeOK
<1>4. CASE CopyThrows(c)
  <2>1. pc' \in [Contents -> {"idle", "store", "copying", "verify", "rename",
                              "stored", "failed"}]
    BY <1>4, AtType DEF CopyThrows
  <2> QED  BY <1>4, <2>1 DEF CopyThrows, TypeOK
<1>5. CASE VerifyHash(c)
  <2>1. pc' \in [Contents -> {"idle", "store", "copying", "verify", "rename",
                              "stored", "failed"}]
    BY <1>5, AtType DEF VerifyHash
  <2>2. disk' \in [Roots -> [Entries -> Files]]
    BY <1>5, WriteType DEF VerifyHash, TypeOK, Files
  <2> QED  BY <1>5, <2>1, <2>2 DEF VerifyHash, TypeOK
<1>6. CASE RenameToBlob(c)
  <2>1. pc' \in [Contents -> {"idle", "store", "copying", "verify", "rename",
                              "stored", "failed"}]
    BY <1>6, AtType DEF RenameToBlob
  <2>2. disk' \in [Roots -> [Entries -> Files]]
    BY <1>6 DEF RenameToBlob, TypeOK, Files
  <2> QED  BY <1>6, <2>1, <2>2 DEF RenameToBlob, TypeOK
<1>7. CASE Stored(c)
  <2>1. pc' \in [Contents -> {"idle", "store", "copying", "verify", "rename",
                              "stored", "failed"}]
    BY <1>7, AtType DEF Stored
  <2> QED  BY <1>7, <2>1 DEF Stored, TypeOK
<1>8. CASE RollBack(c)
  <2>1. pc' \in [Contents -> {"idle", "store", "copying", "verify", "rename",
                              "stored", "failed"}]
    BY <1>8, AtType DEF RollBack
  <2> QED  BY <1>8, <2>1 DEF RollBack, TypeOK
<1>9. CASE RemoveModel(c)
  BY <1>9 DEF RemoveModel, TypeOK
<1> QED
  BY <1>1, <1>2, <1>3, <1>4, <1>5, <1>6, <1>7, <1>8, <1>9 DEF ImportStep

LEMMA RelocationTypes ==
  ASSUME TypeOK, RelocationStep
  PROVE  TypeOK'
<1> USE DEF library, history
<1>1. ASSUME NEW r \in Roots, Relocate(r)  PROVE TypeOK'
  <2>1. strays' \subseteq Contents  BY <1>1 DEF Relocate, InFlight, TypeOK
  <2>2. moves' \in Nat /\ dest' \in Roots  BY <1>1 DEF Relocate, TypeOK
  <2>3. due' \subseteq Entries /\ seen' \subseteq Entries
    BY <1>1 DEF Relocate, FilesIn, TypeOK
  <2>4. root' \in Roots /\ split' \subseteq Roots
    BY <1>1 DEF Relocate, TypeOK
  <2>5. relPc' \in {"idle", "walk"}
    BY <1>1 DEF Relocate, TypeOK
  <2> QED
    BY <1>1, <2>1, <2>2, <2>3, <2>4, <2>5 DEF Relocate, TypeOK
<1>2. ASSUME NEW e \in Entries, NextFile(e)  PROVE TypeOK'
  BY <1>2 DEF NextFile, TypeOK
<1>3. ASSUME NEW e \in Entries, OpenCopy(e)  PROVE TypeOK'
  <2>1. disk' \in [Roots -> [Entries -> Files]]
    BY <1>3, WriteType DEF OpenCopy, TypeOK, Files
  <2> QED  BY <1>3, <2>1 DEF OpenCopy, Finish, TypeOK
<1>4. ASSUME NEW e \in Entries, Copied(e)  PROVE TypeOK'
  <2>1. disk' \in [Roots -> [Entries -> Files]]
    <3>1. (IF Exists(root, e) THEN disk[root][e] ELSE "part") \in Files
      BY DEF TypeOK, Files
    <3> QED  BY <1>4, <3>1, WriteType DEF Copied, TypeOK
  <2> QED  BY <1>4, <2>1 DEF Copied, TypeOK
<1>5. ASSUME NEW e \in Entries, CopyFails(e)  PROVE TypeOK'
  BY <1>5 DEF CopyFails, Finish, TypeOK, Entries
<1>6. ASSUME NEW e \in Entries, RemoveCopied(e)  PROVE TypeOK'
  <2>1. disk' \in [Roots -> [Entries -> Files]]
    BY <1>6, WriteType DEF RemoveCopied, TypeOK, Files
  <2> QED  BY <1>6, <2>1 DEF RemoveCopied, TypeOK
<1>7. ASSUME WalkEnds  PROVE TypeOK'
  BY <1>7 DEF WalkEnds, Finish, TypeOK
<1>8. ASSUME Cancelled  PROVE TypeOK'
  BY <1>8 DEF Cancelled, Finish, TypeOK
<1>9. ASSUME SwitchRoot  PROVE TypeOK'
  BY <1>9 DEF SwitchRoot, Forget, TypeOK
<1> QED
  BY <1>1, <1>2, <1>3, <1>4, <1>5, <1>6, <1>7, <1>8, <1>9
  DEF RelocationStep

LEMMA RestartTypes ==
  ASSUME TypeOK, Restart
  PROVE  TypeOK'
<1>1. disk' \in [Roots -> [Entries -> Files]]
  BY DEF Restart, TypeOK, Files
<1>2. cut' \subseteq Contents
  BY DEF Restart, TypeOK, Entries
<1>3. strays' \subseteq Contents
  BY DEF Restart, InFlight, TypeOK
<1>4. split' \subseteq Roots
  BY DEF Restart, TypeOK
<1>5. pc' \in [Contents -> {"idle"}]
  BY DEF Restart
<1>6. UNCHANGED <<source, row, root, moves>> /\ home' = root
      /\ restarts' \in Nat /\ relPc' = "idle" /\ dest' = root
      /\ due' = {} /\ seen' = {} /\ cur' = {} /\ success' = FALSE
  BY DEF Restart, Forget, TypeOK
<1> QED
  BY <1>1, <1>2, <1>3, <1>4, <1>5, <1>6 DEF TypeOK

LEMMA TypeNext == ASSUME TypeOK, [Next]_vars PROVE TypeOK'
<1>1. CASE UNCHANGED vars
  BY <1>1 DEF vars, library, relocator, history, TypeOK
<1> QED
  BY <1>1, ImportTypes, RelocationTypes, RestartTypes DEF Next

\* Every variable keeps to its type.
THEOREM FileTypes == Spec => []TypeOK
  BY TypeInit, TypeNext, PTL DEF Spec

-----------------------------------------------------------------------------
(* The inductive invariant, while the workspace is never relocated into    *)
(* the running StorageManager's directory.                                 *)

Safe(c) == \E r \in Roots : disk[r][Blob(c)] = "whole"

\* The relocator writes neither to the root in use nor to StorageManager's.
Apart == relPc # "idle" => dest # root /\ dest # home

OneInHand ==
  relPc \in {"open", "copy", "remove"} => \E e \in Entries : cur = {e}

\* What the relocator has in hand: nothing is there yet, a piece is, or as
\* good a file as the one it is about to remove.
Fresh == relPc = "open" => \A e \in cur : disk[dest][e] = "none"
Growing ==
  relPc = "copy" => \A c \in Contents :
    Blob(c) \in cur => /\ disk[dest][Blob(c)] = "part"
                       /\ disk[root][Blob(c)] # "none"
Same ==
  relPc = "remove" => \A c \in Contents :
    Blob(c) \in cur => /\ disk[dest][Blob(c)] = disk[root][Blob(c)]
                       /\ disk[root][Blob(c)] # "none"

\* A blob being stored is not there yet; one about to be renamed is whole.
Absent ==
  \A c \in Contents : pc[c] \in {"copying", "verify", "rename"}
                        => disk[home][Blob(c)] = "none"
Verified ==
  \A c \in Contents : pc[c] = "rename" => disk[home][Temp(c)] # "part"

\* The source is only removed behind a whole blob, and so is any blob.
Kept ==
  \A c \in Contents :
    /\ c \in source \/ Safe(c)
    /\ pc[c] = "stored" => Safe(c)
    /\ \A r \in Roots : disk[r][Blob(c)] # "none" => Safe(c)
WholeBlobs ==
  \A c \in Contents \ cut, r \in Roots :
    disk[r][Blob(c)] = "part" => relPc = "copy" /\ dest = r /\ cur = {Blob(c)}

FilesInv ==
  /\ TypeOK /\ Apart /\ OneInHand /\ Fresh /\ Growing /\ Same
  /\ Absent /\ Verified /\ Kept /\ WholeBlobs

LEMMA InvInit == ASSUME Init PROVE FilesInv
<1>1. \A c \in Contents, r \in Roots :
        disk[r][Blob(c)] = "none" /\ pc[c] = "idle"
  BY BlobsAndTemps DEF Init
<1> QED
  BY <1>1, TypeInit DEF Init, FilesInv, Apart, OneInHand, Fresh, Growing, Same,
     Absent, Verified, Kept, WholeBlobs

\* A step that leaves the files and both sides' places alone.
LEMMA InvStutter ==
  ASSUME FilesInv, UNCHANGED vars
  PROVE  FilesInv'
  BY TypeNext DEF FilesInv, vars, library, relocator, history, Apart, OneInHand,
     Fresh, Growing, Same, Absent, Verified, Kept, WholeBlobs, Safe, Next

-----------------------------------------------------------------------------
(* Import steps.                                                           *)

\* A step of an import that leaves every blob where it is.
LEMMA BlobsUntouched ==
  ASSUME FilesInv, TypeOK', NEW c \in Contents,
         UNCHANGED <<home, root, relocator, cut>>,
         \A r \in Roots, d \in Contents : disk'[r][Blob(d)] = disk[r][Blob(d)],
         \A e \in Entries : disk'[dest][e] = disk[dest][e] \/ dest = home,
         \A d \in Contents \ {c} : /\ pc'[d] = pc[d]
                                   /\ disk'[home][Temp(d)] = disk[home][Temp(d)],
         source \ {c} \subseteq source',
         c \in source' \/ c \notin source \/ pc[c] = "stored",
         pc'[c] \in {"copying", "verify", "rename"}
           => disk[home][Blob(c)] = "none",
         pc'[c] = "rename" => disk'[home][Temp(c)] # "part",
         pc'[c] = "stored" => Safe(c)
  PROVE  FilesInv'
<1> USE DEF relocator
<1>0. dest \in Roots /\ home \in Roots /\ root \in Roots
  BY DEF FilesInv, TypeOK
<1>1. \A d \in Contents : Safe(d)' <=> Safe(d)
  BY DEF Safe
<1>2. Apart' /\ OneInHand'
  BY DEF FilesInv, Apart, OneInHand
<1>3. Fresh'
  <2> SUFFICES ASSUME relPc = "open", NEW e \in cur
               PROVE  disk'[dest][e] = "none"
    BY DEF Fresh
  <2>1. e \in Entries /\ dest # home /\ disk[dest][e] = "none"
    BY DEF FilesInv, TypeOK, Fresh, Apart
  <2> QED  BY <2>1
<1>4. Growing' /\ Same'
  BY <1>0 DEF FilesInv, Growing, Same
<1>5. Absent'
  BY <1>0 DEF FilesInv, Absent
<1>6. Verified'
  BY <1>0 DEF FilesInv, Verified
<1>7. Kept'
  <2> SUFFICES ASSUME NEW d \in Contents
               PROVE  /\ d \in source' \/ Safe(d)'
                      /\ pc'[d] = "stored" => Safe(d)'
                      /\ \A r \in Roots : disk'[r][Blob(d)] # "none" => Safe(d)'
    BY DEF Kept
  <2> QED  BY <1>1 DEF FilesInv, Kept
<1>8. WholeBlobs'
  BY DEF FilesInv, WholeBlobs
<1> QED
  BY <1>2, <1>3, <1>4, <1>5, <1>6, <1>7, <1>8 DEF FilesInv

\* Writing the temporary file of c under StorageManager's root is such a step.
LEMMA TempWritten ==
  ASSUME FilesInv, NEW c \in Contents, NEW s \in Files, Write(home, Temp(c), s)
  PROVE  /\ \A r \in Roots, d \in Contents :
              disk'[r][Blob(d)] = disk[r][Blob(d)]
         /\ \A e \in Entries : disk'[dest][e] = disk[dest][e] \/ dest = home
         /\ \A d \in Contents \ {c} :
              disk'[home][Temp(d)] = disk[home][Temp(d)]
         /\ disk'[home][Temp(c)] = s
<1>1. TypeOK /\ home \in Roots /\ dest \in Roots  BY DEF FilesInv, TypeOK
<1>2. \A d \in Contents : Blob(d) \in Entries /\ Temp(d) \in Entries
                            /\ Blob(d) # Temp(c) /\ (d # c => Temp(d) # Temp(c))
  BY BlobsAndTemps
<1>3. disk'[home][Temp(c)] = s
  BY <1>1, <1>2, WriteType
<1>4. \A q \in Roots, f \in Entries :
        q # home \/ f # Temp(c) => disk'[q][f] = disk[q][f]
  BY <1>1, <1>2, WriteType
<1> QED
  BY <1>1, <1>2, <1>3, <1>4

LEMMA ImportKeeps ==
  ASSUME FilesInv, NEW c \in Contents, ImportStep(c) \/ RemoveModel(c)
  PROVE  FilesInv'
<1> USE DEF relocator, history
<1>0. TypeOK /\ TypeOK' /\ home \in Roots /\ dest \in Roots
  BY ImportTypes DEF FilesInv, TypeOK
<1>b. Blob(c) \in Entries /\ Temp(c) \in Entries  BY BlobsAndTemps
<1>1. CASE InsertRow(c)
  <2>1. pc'[c] = "store" /\ \A d \in Contents \ {c} : pc'[d] = pc[d]
    BY <1>0, <1>1, AtType DEF InsertRow
  <2>2. UNCHANGED <<source, disk, home, root, relocator, cut>>
    BY <1>1 DEF InsertRow
  <2> QED  BY <1>0, <2>1, <2>2, BlobsUntouched
<1>2. CASE StoreFile(c) /\ Exists(home, Blob(c))
  <2>1. pc'[c] = "stored" /\ \A d \in Contents \ {c} : pc'[d] = pc[d]
    BY <1>0, <1>2, AtType DEF StoreFile
  <2>2. UNCHANGED <<source, disk, home, root, relocator, cut>>
    BY <1>2 DEF StoreFile
  <2>3. Safe(c)
    BY <1>0, <1>2 DEF FilesInv, Kept, Exists
  <2> QED  BY <1>0, <2>1, <2>2, <2>3, BlobsUntouched
<1>3. CASE StoreFile(c) /\ ~Exists(home, Blob(c))
  <2>1. pc'[c] = "copying" /\ \A d \in Contents \ {c} : pc'[d] = pc[d]
    BY <1>0, <1>3, AtType DEF StoreFile
  <2>2. UNCHANGED <<source, home, root, relocator, cut>>
    BY <1>3 DEF StoreFile
  <2>3. Write(home, Temp(c), "part") /\ "part" \in Files
    BY <1>3 DEF StoreFile, Files
  <2>4. disk[home][Blob(c)] = "none"
    BY <1>3 DEF Exists
  <2> QED  BY <1>0, <2>1, <2>2, <2>3, <2>4, TempWritten, BlobsUntouched
<1>4. CASE CopiedToTemp(c)
  <2>1. /\ pc[c] = "copying" /\ pc'[c] = "verify"
        /\ \A d \in Contents \ {c} : pc'[d] = pc[d]
    BY <1>0, <1>4, AtType DEF CopiedToTemp
  <2>2. UNCHANGED <<source, home, root, relocator, cut>>
    BY <1>4 DEF CopiedToTemp
  <2>3. PICK s \in Files : Write(home, Temp(c), s)
    BY <1>4 DEF CopiedToTemp, Files
  <2>4. disk[home][Blob(c)] = "none"
    BY <2>1 DEF FilesInv, Absent
  <2> QED  BY <1>0, <2>1, <2>2, <2>3, <2>4, TempWritten, BlobsUntouched
<1>5. CASE CopyThrows(c)
  <2>1. pc'[c] = "failed" /\ \A d \in Contents \ {c} : pc'[d] = pc[d]
    BY <1>0, <1>5, AtType DEF CopyThrows
  <2>2. UNCHANGED <<source, disk, home, root, relocator, cut>>
    BY <1>5 DEF CopyThrows
  <2> QED  BY <1>0, <2>1, <2>2, BlobsUntouched
<1>6. CASE VerifyHash(c) /\ disk[home][Temp(c)] = "whole"
  <2>1. /\ pc[c] = "verify" /\ pc'[c] = "rename"
        /\ \A d \in Contents \ {c} : pc'[d] = pc[d]
    BY <1>0, <1>6, AtType DEF VerifyHash
  <2>2. UNCHANGED <<source, disk, home, root, relocator, cut>>
    BY <1>6 DEF VerifyHash
  <2>4. disk[home][Blob(c)] = "none"
    BY <2>1 DEF FilesInv, Absent
  <2> QED  BY <1>0, <1>6, <2>1, <2>2, <2>4, BlobsUntouched
<1>7. CASE VerifyHash(c) /\ disk[home][Temp(c)] # "whole"
  <2>1. pc'[c] = "failed" /\ \A d \in Contents \ {c} : pc'[d] = pc[d]
    BY <1>0, <1>7, AtType DEF VerifyHash
  <2>2. UNCHANGED <<source, home, root, relocator, cut>>
    BY <1>7 DEF VerifyHash
  <2>3. Write(home, Temp(c), "none") /\ "none" \in Files
    BY <1>7 DEF VerifyHash, Files
  <2> QED  BY <1>0, <2>1, <2>2, <2>3, TempWritten, BlobsUntouched
<1>8. CASE RenameToBlob(c) /\ Exists(home, Temp(c))
  <2>1. /\ pc[c] = "rename" /\ pc'[c] = "stored"
        /\ \A d \in Contents \ {c} : pc'[d] = pc[d]
    BY <1>0, <1>8, AtType DEF RenameToBlob
  <2>2. UNCHANGED <<source, home, root, relocator, cut>>
    BY <1>8 DEF RenameToBlob
  <2>3. disk[home][Blob(c)] = "none" /\ disk[home][Temp(c)] = "whole"
    BY <1>0, <1>8, <1>b, <2>1
    DEF FilesInv, Absent, Verified, Exists, TypeOK, Files
  <2>4. /\ disk'[home][Blob(c)] = "whole" /\ disk'[home][Temp(c)] = "none"
        /\ \A q \in Roots, e \in Entries :
             q # home \/ (e # Blob(c) /\ e # Temp(c)) => disk'[q][e] = disk[q][e]
    BY <1>0, <1>8, <1>b, <2>3, BlobsAndTemps DEF RenameToBlob, TypeOK
  <2>5. \A d \in Contents : /\ Blob(d) \in Entries /\ Temp(d) \in Entries
                            /\ Blob(d) # Temp(c) /\ Temp(d) # Blob(c)
                            /\ (d # c => Temp(d) # Temp(c) /\ Blob(d) # Blob(c))
    BY BlobsAndTemps
  <2>6. \A d \in Contents : Safe(d) => Safe(d)'
    BY <2>3, <2>4, <2>5 DEF Safe
  <2>7. Safe(c)'
    BY <1>0, <2>2, <2>4 DEF Safe
  <2>8. Apart' /\ OneInHand'
    BY <2>2 DEF FilesInv, Apart, OneInHand
  <2>9. Fresh'
    BY <1>0, <2>2, <2>4 DEF FilesInv, Fresh, Apart, TypeOK
  <2>10. Growing'
    BY <1>0, <2>2, <2>3, <2>4, <2>5 DEF FilesInv, Growing, Apart, TypeOK
  <2>11. Same'
    BY <1>0, <2>2, <2>3, <2>4, <2>5 DEF FilesInv, Same, Apart, TypeOK
  <2>12. Absent'
    BY <1>0, <2>1, <2>2, <2>4, <2>5 DEF FilesInv, Absent
  <2>13. Verified'
    BY <1>0, <2>1, <2>2, <2>4, <2>5 DEF FilesInv, Verified
  <2>14. Kept'
    <3> SUFFICES ASSUME NEW d \in Contents
                 PROVE  /\ d \in source' \/ Safe(d)'
                        /\ pc'[d] = "stored" => Safe(d)'
                        /\ \A r \in Roots :
                             disk'[r][Blob(d)] # "none" => Safe(d)'
      BY DEF Kept
    <3>1. CASE d = c  BY <3>1, <2>7
    <3>2. CASE d # c
      BY <3>2, <2>1, <2>2, <2>4, <2>5, <2>6 DEF FilesInv, Kept
    <3> QED  BY <3>1, <3>2
  <2>15. WholeBlobs'
    BY <1>0, <2>2, <2>4, <2>5 DEF FilesInv, WholeBlobs
  <2> QED
    BY <1>0, <2>8, <2>9, <2>10, <2>11, <2>12, <2>13, <2>14, <2>15 DEF FilesInv
<1>9. CASE RenameToBlob(c) /\ ~Exists(home, Temp(c))
  <2>1. pc'[c] = "failed" /\ \A d \in Contents \ {c} : pc'[d] = pc[d]
    BY <1>0, <1>9, AtType DEF RenameToBlob
  <2>2. UNCHANGED <<source, disk, home, root, relocator, cut>>
    BY <1>9 DEF RenameToBlob
  <2> QED  BY <1>0, <2>1, <2>2, BlobsUntouched
<1>10. CASE Stored(c)
  <2>1. /\ pc[c] = "stored" /\ pc'[c] = "idle"
        /\ \A d \in Contents \ {c} : pc'[d] = pc[d]
    BY <1>0, <1>10, AtType DEF Stored
  <2>2. UNCHANGED <<disk, home, root, relocator, cut>>
        /\ source \ {c} \subseteq source'
    BY <1>10 DEF Stored
  <2> QED  BY <1>0, <2>1, <2>2, BlobsUntouched
<1>11. CASE RollBack(c)
  <2>1. pc'[c] = "idle" /\ \A d \in Contents \ {c} : pc'[d] = pc[d]
    BY <1>0, <1>11, AtType DEF RollBack
  <2>2. UNCHANGED <<source, disk, home, root, relocator, cut>>
    BY <1>11 DEF RollBack
  <2> QED  BY <1>0, <2>1, <2>2, BlobsUntouched
<1>12. CASE RemoveModel(c)
  <2>1. UNCHANGED <<source, pc, disk, home, root, relocator, cut>>
    BY <1>12 DEF RemoveModel
  <2>2. /\ pc[c] \in {"copying", "verify", "rename"}
            => disk[home][Blob(c)] = "none"
        /\ pc[c] = "rename" => disk[home][Temp(c)] # "part"
        /\ pc[c] = "stored" => Safe(c)
    BY DEF FilesInv, Absent, Verified, Kept
  <2> QED  BY <1>0, <2>1, <2>2, BlobsUntouched
<1> QED
  BY <1>1, <1>2, <1>3, <1>4, <1>5, <1>6, <1>7, <1>8, <1>9, <1>10, <1>11, <1>12
  DEF ImportStep

-----------------------------------------------------------------------------
(* The relocator's steps, the switch of roots and a restart.               *)

\* A step of the relocator that writes no file.
LEMMA NothingWritten ==
  ASSUME FilesInv, TypeOK', UNCHANGED <<source, pc, disk, home>>,
         cut \subseteq cut', Apart', OneInHand', Fresh', Growing', Same',
         \A c \in Contents : relPc = "copy" /\ cur = {Blob(c)}
           => c \in cut' \/ (relPc' = "copy" /\ UNCHANGED <<cur, dest>>)
  PROVE  FilesInv'
<1>1. \A c \in Contents : Safe(c)' <=> Safe(c)
  BY DEF Safe
<1>2. Absent' /\ Verified'
  BY DEF FilesInv, Absent, Verified
<1>3. Kept'
  BY <1>1 DEF FilesInv, Kept
<1>4. WholeBlobs'
  BY DEF FilesInv, WholeBlobs
<1> QED
  BY <1>2, <1>3, <1>4 DEF FilesInv

LEMMA WalkKeeps ==
  ASSUME FilesInv, ~MayReturn,
         \/ \E r \in Roots : Relocate(r)
         \/ \E e \in Entries : NextFile(e)
         \/ WalkEnds \/ Cancelled \/ SwitchRoot
  PROVE  FilesInv'
<1> USE DEF library, history
<1>0. TypeOK /\ TypeOK'
  BY RelocationTypes DEF FilesInv, RelocationStep
<1>1. ASSUME NEW r \in Roots, Relocate(r)  PROVE FilesInv'
  <2>1. UNCHANGED <<source, pc, disk, home, cut>> /\ relPc = "idle"
        /\ relPc' \in {"idle", "walk"}
    BY <1>1 DEF Relocate
  <2>2. Apart'
    BY <1>1 DEF Relocate, Apart
  <2>3. OneInHand' /\ Fresh' /\ Growing' /\ Same'
    BY <2>1 DEF OneInHand, Fresh, Growing, Same
  <2> QED  BY <1>0, <2>1, <2>2, <2>3, NothingWritten
<1>2. ASSUME NEW e \in Entries, NextFile(e)  PROVE FilesInv'
  <2>1. UNCHANGED <<source, pc, disk, home, cut, root, dest>> /\ relPc = "walk"
    BY <1>2 DEF NextFile
  <2>2. CASE Exists(dest, e)
    <3>1. relPc' = "walk"  BY <1>2, <2>1, <2>2 DEF NextFile
    <3>2. Apart' /\ OneInHand' /\ Fresh' /\ Growing' /\ Same'
      BY <2>1, <3>1 DEF FilesInv, Apart, OneInHand, Fresh, Growing, Same
    <3> QED  BY <1>0, <2>1, <3>1, <3>2, NothingWritten
  <2>3. CASE ~Exists(dest, e)
    <3>1. relPc' = "open" /\ cur' = {e} /\ disk[dest][e] = "none"
      BY <1>2, <2>3 DEF NextFile, Exists
    <3>2. Apart' /\ OneInHand' /\ Fresh' /\ Growing' /\ Same'
      BY <2>1, <3>1 DEF FilesInv, Apart, OneInHand, Fresh, Growing, Same
    <3> QED  BY <1>0, <2>1, <3>1, <3>2, NothingWritten
  <2> QED  BY <2>2, <2>3
<1>3. CASE WalkEnds \/ Cancelled
  <2>1. UNCHANGED <<source, pc, disk, home, cut, root, dest>> /\ relPc = "walk"
        /\ relPc' = "done"
    BY <1>3 DEF WalkEnds, Cancelled, Finish
  <2>2. Apart' /\ OneInHand' /\ Fresh' /\ Growing' /\ Same'
    BY <2>1 DEF FilesInv, Apart, OneInHand, Fresh, Growing, Same
  <2> QED  BY <1>0, <2>1, <2>2, NothingWritten
<1>4. CASE SwitchRoot
  <2>1. UNCHANGED <<source, pc, disk, home, cut>> /\ relPc = "done"
        /\ relPc' = "idle"
    BY <1>4 DEF SwitchRoot, Forget
  <2>2. Apart' /\ OneInHand' /\ Fresh' /\ Growing' /\ Same'
    BY <2>1 DEF Apart, OneInHand, Fresh, Growing, Same
  <2> QED  BY <1>0, <2>1, <2>2, NothingWritten
<1> QED
  BY <1>1, <1>2, <1>3, <1>4

\* A write of the relocator: of one file, under a root that is not
\* StorageManager's, or the removal of one.
LEMMA FileWritten ==
  ASSUME FilesInv, TypeOK', UNCHANGED <<source, pc, home, cut>>,
         NEW r \in Roots, NEW e \in Entries, NEW s \in Files, Write(r, e, s),
         r # home \/ s = "none",
         Apart', OneInHand', Fresh', Growing', Same',
         \A c \in Contents : e = Blob(c) /\ s # "none" => Safe(c),
         \A c \in Contents : e = Blob(c) /\ Safe(c) => Safe(c)',
         \A c \in Contents : e = Blob(c) /\ s = "part"
           => c \in cut \/ (relPc' = "copy" /\ dest' = r /\ cur' = {e}),
         relPc = "copy" => cur = {e} /\ dest = r
  PROVE  FilesInv'
<1>0. TypeOK /\ home \in Roots /\ dest \in Roots  BY DEF FilesInv, TypeOK
<1>1. disk'[r][e] = s /\ \A q \in Roots, f \in Entries :
        q # r \/ f # e => disk'[q][f] = disk[q][f]
  BY <1>0, WriteType
<1>2. \A c \in Contents : Blob(c) \in Entries /\ Temp(c) \in Entries
  BY BlobsAndTemps
<1>3. \A c \in Contents : Safe(c) => Safe(c)'
  BY <1>1, <1>2 DEF Safe
<1>4. Absent' /\ Verified'
  BY <1>0, <1>1, <1>2 DEF FilesInv, Absent, Verified
<1>5. Kept'
  <2> SUFFICES ASSUME NEW c \in Contents
               PROVE  /\ c \in source' \/ Safe(c)'
                      /\ pc'[c] = "stored" => Safe(c)'
                      /\ \A q \in Roots : disk'[q][Blob(c)] # "none" => Safe(c)'
    BY DEF Kept
  <2>1. /\ c \in source' \/ Safe(c)'
        /\ pc'[c] = "stored" => Safe(c)'
    BY <1>3 DEF FilesInv, Kept
  <2>2. ASSUME NEW q \in Roots, disk'[q][Blob(c)] # "none"  PROVE Safe(c)'
    <3>1. CASE q = r /\ Blob(c) = e
      BY <1>1, <1>3, <2>2, <3>1
    <3>2. CASE q # r \/ Blob(c) # e
      BY <1>1, <1>2, <1>3, <2>2, <3>2 DEF FilesInv, Kept
    <3> QED  BY <3>1, <3>2
  <2> QED  BY <2>1, <2>2
<1>6. WholeBlobs'
  <2> SUFFICES ASSUME NEW c \in Contents \ cut, NEW q \in Roots,
                      disk'[q][Blob(c)] = "part"
               PROVE  relPc' = "copy" /\ dest' = q /\ cur' = {Blob(c)}
    BY DEF WholeBlobs
  <2>1. CASE q = r /\ Blob(c) = e
    BY <1>1, <2>1
  <2>2. CASE q # r \/ Blob(c) # e
    <3>1. disk[q][Blob(c)] = "part"  BY <1>1, <1>2, <2>2
    <3>2. relPc = "copy" /\ dest = q /\ cur = {Blob(c)}
      BY <3>1 DEF FilesInv, WholeBlobs
    <3> QED  BY <2>2, <3>2
  <2> QED  BY <2>1, <2>2
<1> QED
  BY <1>4, <1>5, <1>6 DEF FilesInv

LEMMA CopyKeeps ==
  ASSUME FilesInv, NEW e \in Entries,
         OpenCopy(e) \/ Copied(e) \/ CopyFails(e) \/ RemoveCopied(e)
  PROVE  FilesInv'
<1> USE DEF library, history
<1>0. TypeOK /\ TypeOK' /\ root \in Roots /\ dest \in Roots /\ home \in Roots
  BY RelocationTypes DEF FilesInv, TypeOK, RelocationStep
<1>1. dest # root /\ dest # home /\ cur = {e}
  BY DEF FilesInv, Apart, OneInHand, OpenCopy, Copied, CopyFails, RemoveCopied
<1>2. \A c \in Contents : Blob(c) \in Entries
  BY BlobsAndTemps
<1>3. CASE OpenCopy(e) /\ Exists(root, e)
  <2>1. /\ UNCHANGED <<source, pc, home, cut, root, dest, cur>>
        /\ relPc = "open" /\ relPc' = "copy" /\ Write(dest, e, "part")
    BY <1>3 DEF OpenCopy
  <2>2. "part" \in Files /\ disk[dest][e] = "none"
    BY <1>1, <2>1 DEF FilesInv, Fresh, Files
  <2>3. /\ disk'[dest][e] = "part"
        /\ \A q \in Roots, f \in Entries :
             q # dest \/ f # e => disk'[q][f] = disk[q][f]
    BY <1>0, <2>1, <2>2, WriteType
  <2>4. Apart' /\ OneInHand' /\ Fresh' /\ Same'
    BY <1>1, <2>1 DEF FilesInv, Apart, OneInHand, Fresh, Same
  <2>5. Growing'
    BY <1>0, <1>1, <1>3, <2>1, <2>3 DEF Growing, Exists
  <2>6. ASSUME NEW c \in Contents, e = Blob(c)  PROVE Safe(c) /\ Safe(c)'
    <3>1. Safe(c)
      BY <1>0, <1>3, <2>6 DEF FilesInv, Kept, Exists
    <3>2. PICK q \in Roots : disk[q][e] = "whole"
      BY <2>6, <3>1 DEF Safe
    <3>3. q # dest  BY <2>2, <3>2
    <3> QED  BY <2>3, <2>6, <3>1, <3>2, <3>3 DEF Safe
  <2> QED
    BY <1>0, <1>1, <2>1, <2>2, <2>4, <2>5, <2>6, FileWritten
<1>4. CASE OpenCopy(e) /\ ~Exists(root, e)
  <2>1. /\ UNCHANGED <<source, pc, home, cut, root, dest, disk>>
        /\ relPc = "open" /\ relPc' = "done"
    BY <1>4 DEF OpenCopy, Finish
  <2>2. Apart' /\ OneInHand' /\ Fresh' /\ Growing' /\ Same'
    BY <1>1, <2>1 DEF Apart, OneInHand, Fresh, Growing, Same
  <2> QED  BY <1>0, <2>1, <2>2, NothingWritten
<1>5. CASE Copied(e)
  <2> DEFINE s == IF Exists(root, e) THEN disk[root][e] ELSE "part"
  <2>1. /\ UNCHANGED <<source, pc, home, cut, root, dest, cur>>
        /\ relPc = "copy" /\ relPc' = "remove" /\ Write(dest, e, s)
    BY <1>5 DEF Copied
  <2>2. s \in Files
    BY <1>0 DEF TypeOK, Files
  <2> HIDE DEF s
  <2>3. /\ disk'[dest][e] = s
        /\ \A q \in Roots, f \in Entries :
             q # dest \/ f # e => disk'[q][f] = disk[q][f]
    BY <1>0, <2>1, <2>2, WriteType
  <2>4. Apart' /\ OneInHand' /\ Fresh' /\ Growing'
    BY <1>1, <2>1 DEF FilesInv, Apart, OneInHand, Fresh, Growing
  <2>5. ASSUME NEW c \in Contents, e = Blob(c)
        PROVE  /\ s = disk[root][e] /\ disk[root][e] # "none"
               /\ disk[dest][e] = "part"
    BY <1>1, <2>1, <2>5 DEF FilesInv, Growing, Exists, s
  <2>6. Same'
    BY <1>0, <1>1, <2>1, <2>3, <2>5 DEF Same
  <2>7. ASSUME NEW c \in Contents, e = Blob(c)  PROVE Safe(c) /\ Safe(c)'
    <3>1. Safe(c)
      BY <1>0, <2>5, <2>7 DEF FilesInv, Kept
    <3>2. PICK q \in Roots : disk[q][e] = "whole"
      BY <2>7, <3>1 DEF Safe
    <3>3. q # dest  BY <2>5, <2>7, <3>2
    <3> QED  BY <2>3, <2>7, <3>1, <3>2, <3>3 DEF Safe
  <2>8. ASSUME NEW c \in Contents, e = Blob(c), s = "part"  PROVE c \in cut
    <3>1. disk[root][Blob(c)] = "part"  BY <2>5, <2>8
    <3> QED  BY <1>0, <1>1, <3>1 DEF FilesInv, WholeBlobs
  <2> QED
    BY <1>0, <1>1, <2>1, <2>2, <2>4, <2>6, <2>7, <2>8, FileWritten
<1>6. CASE CopyFails(e)
  <2>1. /\ UNCHANGED <<source, pc, home, root, dest, disk>>
        /\ relPc = "copy" /\ relPc' = "done" /\ cut' = cut \cup {e[2]}
    BY <1>6 DEF CopyFails, Finish
  <2>2. Apart' /\ OneInHand' /\ Fresh' /\ Growing' /\ Same'
    BY <1>1, <2>1 DEF Apart, OneInHand, Fresh, Growing, Same
  <2>3. \A c \in Contents : cur = {Blob(c)} => c \in cut'
    BY <1>1, <2>1, BlobsAndTemps
  <2> QED  BY <1>0, <2>1, <2>2, <2>3, NothingWritten
<1>7. CASE RemoveCopied(e) /\ Write(root, e, "none")
  <2>1. /\ UNCHANGED <<source, pc, home, cut, root, dest>>
        /\ relPc = "remove" /\ relPc' = "walk" /\ "none" \in Files
    BY <1>7 DEF RemoveCopied, Files
  <2>2. /\ disk'[root][e] = "none"
        /\ \A q \in Roots, f \in Entries :
             q # root \/ f # e => disk'[q][f] = disk[q][f]
    BY <1>0, <1>7, <2>1, WriteType
  <2>3. Apart' /\ OneInHand' /\ Fresh' /\ Growing' /\ Same'
    BY <1>1, <2>1 DEF Apart, OneInHand, Fresh, Growing, Same
  <2>4. ASSUME NEW c \in Contents, e = Blob(c), Safe(c)  PROVE Safe(c)'
    <3>1. disk[dest][e] = disk[root][e]
      BY <1>1, <2>1, <2>4 DEF FilesInv, Same
    <3>2. PICK q \in Roots : disk[q][e] = "whole"
      BY <2>4 DEF Safe
    <3>3. CASE q = root
      BY <1>0, <1>1, <2>2, <2>4, <3>1, <3>2, <3>3 DEF Safe
    <3>4. CASE q # root
      BY <2>2, <2>4, <3>2, <3>4 DEF Safe
    <3> QED  BY <3>3, <3>4
  <2> QED
    BY <1>0, <1>7, <2>1, <2>3, <2>4, FileWritten
<1>8. CASE RemoveCopied(e) /\ UNCHANGED disk
  <2>1. /\ UNCHANGED <<source, pc, home, cut, root, dest>>
        /\ relPc = "remove" /\ relPc' = "walk"
    BY <1>8 DEF RemoveCopied
  <2>2. Apart' /\ OneInHand' /\ Fresh' /\ Growing' /\ Same'
    BY <1>1, <2>1 DEF Apart, OneInHand, Fresh, Growing, Same
  <2> QED  BY <1>0, <1>8, <2>1, <2>2, NothingWritten
<1> QED
  BY <1>3, <1>4, <1>5, <1>6, <1>7, <1>8 DEF RemoveCopied

LEMMA RestartKeeps ==
  ASSUME FilesInv, Restart
  PROVE  FilesInv'
<1>1. TypeOK /\ TypeOK'  BY RestartTypes DEF FilesInv
<1>2. \A r \in Roots, c \in Contents : disk'[r][Blob(c)] = disk[r][Blob(c)]
  BY <1>1, BlobsAndTemps DEF Restart, TypeOK
<1>3. \A c \in Contents : Safe(c)' <=> Safe(c)
  BY <1>2 DEF Safe
<1>4. \A c \in Contents : pc'[c] = "idle"
  BY DEF Restart
<1>5. relPc' = "idle" /\ UNCHANGED source
  BY DEF Restart, Forget
<1>6. Apart' /\ OneInHand' /\ Fresh' /\ Growing' /\ Same' /\ Absent' /\ Verified'
  BY <1>4, <1>5 DEF Apart, OneInHand, Fresh, Growing, Same, Absent, Verified
<1>7. Kept'
  BY <1>2, <1>3, <1>4, <1>5 DEF FilesInv, Kept
<1>8. WholeBlobs'
  <2>1. ASSUME NEW c \in Contents, relPc = "copy", cur = {Blob(c)}
        PROVE  c \in cut'
    BY <2>1, BlobsAndTemps DEF Restart
  <2>2. cut \subseteq cut'  BY DEF Restart
  <2> QED  BY <1>2, <2>1, <2>2 DEF FilesInv, WholeBlobs
<1> QED
  BY <1>1, <1>6, <1>7, <1>8 DEF FilesInv

LEMMA InvNext ==
  ASSUME FilesInv, ~MayReturn, [Next]_vars
  PROVE  FilesInv'
  BY InvStutter, ImportKeeps, WalkKeeps, CopyKeeps, RestartKeeps
  DEF Next, RelocationStep

\* A complete copy of every content is left, wherever the program stops.
THEOREM NothingIsLost == Spec => []NothingLost
<1>1. CASE MayReturn
  <2>1. NothingLost  BY <1>1 DEF NothingLost
  <2> QED  BY <2>1, PTL
<1>2. CASE ~MayReturn
  <2>1. Init => FilesInv  BY InvInit
  <2>2. FilesInv /\ [Next]_vars => FilesInv'  BY <1>2, InvNext
  <2>3. FilesInv => NothingLost  BY DEF FilesInv, Kept, Safe, NothingLost
  <2> QED  BY <2>1, <2>2, <2>3, PTL DEF Spec
<1> QED  BY <1>1, <1>2

\* Only a relocation that was stopped leaves an unfinished blob.
THEOREM BlobsAreWhole == Spec => []BlobIsWhole
<1>1. CASE MayReturn
  <2>1. BlobIsWhole  BY <1>1 DEF BlobIsWhole
  <2> QED  BY <2>1, PTL
<1>2. CASE ~MayReturn
  <2>1. Init => FilesInv  BY InvInit
  <2>2. FilesInv /\ [Next]_vars => FilesInv'  BY <1>2, InvNext
  <2>3. FilesInv => BlobIsWhole  BY DEF FilesInv, WholeBlobs, BlobIsWhole
  <2> QED  BY <2>1, <2>2, <2>3, PTL DEF Spec
<1> QED  BY <1>1, <1>2
-----------------------------------------------------------------------------
(* Where the path in a model's row leads.                                  *)

HasBlob(r, c) == Exists(r, Blob(c))
Settled == Contents \ (strays \cup InFlight)

\* An import that nothing has crossed: the roots are those it began with.
ImportInPeace ==
  \A c \in InFlight \ strays :
    /\ relPc = "idle" /\ row[c] \in {"none", StorablePath}
    /\ pc[c] = "stored" => HasBlob(home, c)

\* A directory an absolute path names is not the one a relocation empties.
AbsolutePaths ==
  \A c \in Settled : row[c] \in Roots =>
    HasBlob(row[c], c) /\ (relPc # "idle" => row[c] # root)

\* What the roots that relocations left files at have, and the next root.
Ahead(c) == \E r \in split \cup {dest} : HasBlob(r, c)

\* The blob of a relative path is at the root in use or ahead of it; a
\* relocation has still to visit it, has it in hand, or it is ahead.
RelativePaths ==
  \A c \in Settled : row[c] = "relative" =>
    /\ relPc = "idle" => \E r \in split \cup {root} : HasBlob(r, c)
    /\ relPc # "idle" => HasBlob(root, c) \/ Ahead(c)
    /\ relPc = "walk" => Blob(c) \in due \/ Ahead(c)
    /\ relPc \in {"open", "copy", "remove"} => Blob(c) \in due \cup cur \/ Ahead(c)
    /\ relPc = "done" /\ success => Ahead(c)

PathInv == ImportInPeace /\ AbsolutePaths /\ RelativePaths

LEMMA PathInit == ASSUME Init PROVE PathInv
<1>1. \A c \in Contents : row[c] = "none" /\ pc[c] = "idle"
  BY DEF Init
<1>2. ImportInPeace  BY <1>1 DEF ImportInPeace, InFlight
<1>3. AbsolutePaths /\ RelativePaths
  BY <1>1, LibraryAssumption DEF AbsolutePaths, RelativePaths, Settled
<1> QED  BY <1>2, <1>3 DEF PathInv

\* A step of the import of c, of which only what it does to c matters.
LEMMA OneImport ==
  ASSUME TypeOK, PathInv, NEW c \in Contents,
         UNCHANGED <<home, root, relocator, split>>,
         \A r \in Roots, d \in Contents : HasBlob(r, d) => HasBlob(r, d)',
         \A d \in Contents \ {c} : /\ row'[d] = row[d] /\ pc'[d] = pc[d]
                                   /\ d \in strays' <=> d \in strays,
         pc'[c] # "idle" /\ c \notin strays'
           => /\ relPc = "idle" /\ row'[c] \in {"none", StorablePath}
              /\ pc'[c] = "stored" => HasBlob(home, c)',
         pc'[c] = "idle" /\ c \notin strays'
           => \/ row'[c] = "none"
              \/ c \in Settled /\ row'[c] = row[c]
              \/ relPc = "idle" /\ row'[c] = StorablePath /\ HasBlob(home, c)'
  PROVE  PathInv'
<1> USE DEF relocator
<1>0. /\ home \in Roots /\ root \in Roots /\ dest \in Roots /\ split \subseteq Roots
      /\ \A d \in Contents : row[d] \in {"none", "relative"} \cup Roots
  BY DEF TypeOK
<1>1. StorablePath' = StorablePath  BY DEF StorablePath
<1>2. ImportInPeace'
  <2> SUFFICES ASSUME NEW d \in Contents, pc'[d] # "idle", d \notin strays'
               PROVE  /\ relPc' = "idle" /\ row'[d] \in {"none", StorablePath'}
                      /\ pc'[d] = "stored" => HasBlob(home, d)'
    BY DEF ImportInPeace, InFlight
  <2>1. CASE d = c  BY <1>1, <2>1
  <2>2. CASE d # c
    <3>1. d \in InFlight \ strays  BY <2>2 DEF InFlight
    <3>2. /\ relPc = "idle" /\ row[d] \in {"none", StorablePath}
          /\ pc[d] = "stored" => HasBlob(home, d)
      BY <3>1 DEF PathInv, ImportInPeace
    <3> QED  BY <1>0, <1>1, <2>2, <3>2
  <2> QED  BY <2>1, <2>2
<1>3. \A d \in Settled' \ {c} : d \in Settled /\ row'[d] = row[d]
  BY DEF Settled, InFlight
<1>4. \A d \in Settled' : \/ row'[d] = "none"
                          \/ d \in Settled /\ row'[d] = row[d]
                          \/ /\ relPc = "idle" /\ row'[d] = StorablePath
                             /\ HasBlob(home, d)'
  BY <1>3 DEF Settled, InFlight
<1>5. AbsolutePaths'
  <2> SUFFICES ASSUME NEW d \in Settled', row'[d] \in Roots
               PROVE  HasBlob(row[d], d)' /\ (relPc' # "idle" => row'[d] # root')
    BY DEF AbsolutePaths
  <2>1. CASE d \in Settled /\ row'[d] = row[d]
    <3>1. HasBlob(row[d], d) /\ (relPc # "idle" => row[d] # root)
      BY <2>1 DEF PathInv, AbsolutePaths
    <3>2. d \in Contents  BY <2>1 DEF Settled
    <3> QED  BY <2>1, <3>1, <3>2
  <2>2. CASE relPc = "idle" /\ row'[d] = StorablePath /\ HasBlob(home, d)'
    <3>1. row'[d] = home
      BY <2>2, LibraryAssumption DEF StorablePath
    <3> QED  BY <2>2, <3>1
  <2> QED  BY <1>4, <2>1, <2>2, LibraryAssumption
<1>6. RelativePaths'
  <2> SUFFICES ASSUME NEW d \in Settled', row'[d] = "relative"
               PROVE  /\ relPc' = "idle" => \E r \in split' \cup {root'} : HasBlob(r, d)'
                      /\ relPc' # "idle" => HasBlob(root, d)' \/ Ahead(d)'
                      /\ relPc' = "walk" => Blob(d) \in due' \/ Ahead(d)'
                      /\ relPc' \in {"open", "copy", "remove"}
                           => Blob(d) \in due' \cup cur' \/ Ahead(d)'
                      /\ relPc' = "done" /\ success' => Ahead(d)'
    BY DEF RelativePaths
  <2>1. CASE d \in Settled /\ row'[d] = row[d]
    <3>1. d \in Contents  BY <2>1 DEF Settled
    <3>2. Ahead(d) => Ahead(d)'  BY <1>0, <3>1 DEF Ahead
    <3>3. /\ relPc = "idle" => \E r \in split \cup {root} : HasBlob(r, d)
          /\ relPc # "idle" => HasBlob(root, d) \/ Ahead(d)
          /\ relPc = "walk" => Blob(d) \in due \/ Ahead(d)
          /\ relPc \in {"open", "copy", "remove"} => Blob(d) \in due \cup cur \/ Ahead(d)
          /\ relPc = "done" /\ success => Ahead(d)
      BY <2>1 DEF PathInv, RelativePaths
    <3>4. relPc = "idle" => \E r \in split \cup {root} : HasBlob(r, d)'
      BY <1>0, <3>1, <3>3
    <3> QED  BY <1>0, <3>1, <3>2, <3>3, <3>4
  <2>2. CASE relPc = "idle" /\ row'[d] = StorablePath /\ HasBlob(home, d)'
    <3>1. home = root  BY <1>0, <2>2, LibraryAssumption DEF StorablePath
    <3> QED  BY <2>2, <3>1
  <2> QED  BY <1>4, <2>1, <2>2
<1> QED  BY <1>2, <1>5, <1>6 DEF PathInv

\* A write to a temporary file, or of some file over a blob, keeps every blob.
LEMMA BlobsStay ==
  ASSUME TypeOK, NEW r \in Roots, NEW e \in Entries, NEW s \in Files,
         Write(r, e, s), s # "none" \/ \A d \in Contents : e # Blob(d)
  PROVE  \A q \in Roots, d \in Contents : HasBlob(q, d) => HasBlob(q, d)'
<1>1. disk'[r][e] = s /\ \A q \in Roots, f \in Entries :
        q # r \/ f # e => disk'[q][f] = disk[q][f]
  BY WriteType
<1> QED  BY <1>1, BlobsAndTemps DEF HasBlob, Exists

LEMMA ImportPaths ==
  ASSUME TypeOK, PathInv, NEW c \in Contents, ImportStep(c) \/ RemoveModel(c)
  PROVE  PathInv'
<1> USE DEF relocator, history
<1>0. /\ home \in Roots /\ Blob(c) \in Entries /\ Temp(c) \in Entries
      /\ \A d \in Contents : Temp(c) # Blob(d)
      /\ row \in [Contents -> {"none", "relative"} \cup Roots]
  BY BlobsAndTemps DEF TypeOK
<1>p. pc[c] # "idle" /\ c \notin strays
        => /\ relPc = "idle" /\ row[c] \in {"none", StorablePath}
           /\ pc[c] = "stored" => HasBlob(home, c)
  BY DEF PathInv, ImportInPeace, InFlight
<1>s. UNCHANGED disk => \A r \in Roots, d \in Contents : HasBlob(r, d) => HasBlob(r, d)'
  BY DEF HasBlob, Exists
<1>1. CASE InsertRow(c)
  <2>1. pc'[c] = "store" /\ \A d \in Contents \ {c} : pc'[d] = pc[d]
    BY <1>1, AtType DEF InsertRow
  <2>2. /\ row'[c] = StorablePath /\ \A d \in Contents \ {c} : row'[d] = row[d]
        /\ UNCHANGED <<disk, home, root, relocator, split>>
        /\ \A d \in Contents \ {c} : d \in strays' <=> d \in strays
        /\ c \notin strays' => relPc = "idle"
    BY <1>0, <1>1 DEF InsertRow
  <2> QED  BY <1>s, <2>1, <2>2, OneImport
<1>2. CASE StoreFile(c) /\ Exists(home, Blob(c))
  <2>1. pc[c] = "store" /\ pc'[c] = "stored" /\ \A d \in Contents \ {c} : pc'[d] = pc[d]
    BY <1>2, AtType DEF StoreFile
  <2>2. UNCHANGED <<row, strays, disk, home, root, relocator, split>>
    BY <1>2 DEF StoreFile
  <2>3. HasBlob(home, c)'  BY <1>0, <1>2, <2>2 DEF HasBlob, Exists
  <2> QED  BY <1>p, <1>s, <2>1, <2>2, <2>3, OneImport
<1>3. CASE StoreFile(c) /\ ~Exists(home, Blob(c))
  <2>1. pc[c] = "store" /\ pc'[c] = "copying" /\ \A d \in Contents \ {c} : pc'[d] = pc[d]
    BY <1>3, AtType DEF StoreFile
  <2>2. UNCHANGED <<row, strays, home, root, relocator, split>>
    BY <1>3 DEF StoreFile
  <2>3. \A r \in Roots, d \in Contents : HasBlob(r, d) => HasBlob(r, d)'
    BY <1>0, <1>3, BlobsStay DEF StoreFile, Files
  <2> QED  BY <1>p, <2>1, <2>2, <2>3, OneImport
<1>4. CASE CopiedToTemp(c) \/ CopyThrows(c)
  <2>1. /\ pc[c] = "copying" /\ pc'[c] \in {"verify", "failed"}
        /\ \A d \in Contents \ {c} : pc'[d] = pc[d]
    BY <1>4, AtType DEF CopiedToTemp, CopyThrows
  <2>2. UNCHANGED <<row, strays, home, root, relocator, split>>
    BY <1>4 DEF CopiedToTemp, CopyThrows
  <2>3. \A r \in Roots, d \in Contents : HasBlob(r, d) => HasBlob(r, d)'
    BY <1>0, <1>4, <1>s, BlobsStay DEF CopiedToTemp, CopyThrows, Files
  <2> QED  BY <1>p, <2>1, <2>2, <2>3, OneImport
<1>5. CASE VerifyHash(c)
  <2>1. /\ pc[c] = "verify" /\ pc'[c] \in {"rename", "failed"}
        /\ \A d \in Contents \ {c} : pc'[d] = pc[d]
    BY <1>5, AtType DEF VerifyHash
  <2>2. UNCHANGED <<row, strays, home, root, relocator, split>>
    BY <1>5 DEF VerifyHash
  <2>3. \A r \in Roots, d \in Contents : HasBlob(r, d) => HasBlob(r, d)'
    BY <1>0, <1>5, <1>s, BlobsStay DEF VerifyHash, Files
  <2> QED  BY <1>p, <2>1, <2>2, <2>3, OneImport
<1>6. CASE RenameToBlob(c) /\ Exists(home, Temp(c))
  <2>1. pc[c] = "rename" /\ pc'[c] = "stored" /\ \A d \in Contents \ {c} : pc'[d] = pc[d]
    BY <1>6, AtType DEF RenameToBlob
  <2>2. UNCHANGED <<row, strays, home, root, relocator, split>>
    BY <1>6 DEF RenameToBlob
  <2>3. /\ disk'[home][Blob(c)] = disk[home][Temp(c)]
        /\ \A r \in Roots, d \in Contents :
             r # home \/ d # c => disk'[r][Blob(d)] = disk[r][Blob(d)]
    <3>1. \A d \in Contents : Blob(d) \in Entries /\ Blob(d) # Temp(c)
                              /\ (d # c => Blob(d) # Blob(c))
      BY BlobsAndTemps
    <3> QED  BY <1>0, <1>6, <3>1 DEF RenameToBlob, TypeOK
  <2>4. \A r \in Roots, d \in Contents : HasBlob(r, d) => HasBlob(r, d)'
    BY <1>6, <2>3 DEF HasBlob, Exists
  <2>5. HasBlob(home, c)'  BY <1>6, <2>2, <2>3 DEF HasBlob, Exists
  <2> QED  BY <1>p, <2>1, <2>2, <2>4, <2>5, OneImport
<1>7. CASE RenameToBlob(c) /\ ~Exists(home, Temp(c))
  <2>1. pc[c] = "rename" /\ pc'[c] = "failed" /\ \A d \in Contents \ {c} : pc'[d] = pc[d]
    BY <1>7, AtType DEF RenameToBlob
  <2>2. UNCHANGED <<row, strays, disk, home, root, relocator, split>>
    BY <1>7 DEF RenameToBlob
  <2> QED  BY <1>p, <1>s, <2>1, <2>2, OneImport
<1>8. CASE Stored(c)
  <2>1. pc[c] = "stored" /\ pc'[c] = "idle" /\ \A d \in Contents \ {c} : pc'[d] = pc[d]
    BY <1>8, AtType DEF Stored
  <2>2. UNCHANGED <<row, strays, disk, home, root, relocator, split>>
    BY <1>8 DEF Stored
  <2>3. HasBlob(home, c) => HasBlob(home, c)'  BY <2>2 DEF HasBlob, Exists
  <2> QED  BY <1>p, <1>s, <2>1, <2>2, <2>3, OneImport
<1>9. CASE RollBack(c)
  <2>1. pc'[c] = "idle" /\ \A d \in Contents \ {c} : pc'[d] = pc[d]
    BY <1>9, AtType DEF RollBack
  <2>2. /\ row'[c] = "none" /\ \A d \in Contents \ {c} : row'[d] = row[d]
        /\ UNCHANGED <<strays, disk, home, root, relocator, split>>
    BY <1>0, <1>9 DEF RollBack
  <2> QED  BY <1>s, <2>1, <2>2, OneImport
<1>10. CASE RemoveModel(c)
  <2>1. /\ row'[c] = "none" /\ \A d \in Contents \ {c} : row'[d] = row[d]
        /\ UNCHANGED <<pc, strays, disk, home, root, relocator, split>>
    BY <1>0, <1>10 DEF RemoveModel
  <2>2. HasBlob(home, c) => HasBlob(home, c)'  BY <2>1 DEF HasBlob, Exists
  <2> QED  BY <1>p, <1>s, <2>1, <2>2, OneImport
<1> QED
  BY <1>1, <1>2, <1>3, <1>4, <1>5, <1>6, <1>7, <1>8, <1>9, <1>10 DEF ImportStep

\* A step that no import survives in peace: the paths decide.
LEMMA NoImport ==
  ASSUME PathInv, UNCHANGED row, strays \subseteq strays', InFlight' \subseteq strays',
         Settled' \subseteq Settled,
         \A c \in Settled' : row[c] \in Roots =>
           HasBlob(row[c], c)' /\ (relPc' # "idle" => row[c] # root'),
         RelativePaths'
  PROVE  PathInv'
<1>1. ImportInPeace'  BY DEF ImportInPeace
<1>2. AbsolutePaths'  BY DEF AbsolutePaths
<1> QED  BY <1>1, <1>2 DEF PathInv

LEMMA BeginPaths ==
  ASSUME TypeOK, PathInv, NEW r \in Roots, Relocate(r)
  PROVE  PathInv'
<1> USE DEF library, history
<1>0. UNCHANGED <<row, pc, disk>> /\ relPc = "idle" /\ dest' = r /\ root \in Roots
  BY DEF Relocate, TypeOK
<1>1. strays' = strays \cup InFlight \cup {c \in Contents : row[c] = root}
  BY DEF Relocate
<1>2. InFlight' = InFlight /\ Settled' \subseteq Settled
  BY <1>0, <1>1 DEF InFlight, Settled
<1>3. \A q \in Roots, c \in Contents : HasBlob(q, c)' <=> HasBlob(q, c)
  BY <1>0 DEF HasBlob, Exists
<1>4. \A c \in Settled' : c \in Settled /\ c \in Contents /\ row[c] # root
  BY <1>1, <1>2 DEF Settled
<1>5. \A c \in Settled' : row[c] = "relative" =>
        \E q \in split \cup {root} : HasBlob(q, c)
  BY <1>0, <1>4 DEF PathInv, RelativePaths
<1>6. \A c \in Settled' : row[c] \in Roots => HasBlob(row[c], c)'
  BY <1>0, <1>3, <1>4 DEF PathInv, AbsolutePaths
<1>7. CASE FilesIn(root) = {}
  <2>1. root' = r /\ split' = split \ {r} /\ relPc' = "idle"
    BY <1>0, <1>7 DEF Relocate
  <2>2. \A c \in Settled' : ~HasBlob(root, c)
    BY <1>4, <1>7, BlobsAndTemps DEF FilesIn, HasBlob
  <2>3. RelativePaths'
    <3> SUFFICES ASSUME NEW c \in Settled', row'[c] = "relative"
                 PROVE  \E q \in split' \cup {root'} : HasBlob(q, c)'
      BY <2>1 DEF RelativePaths
    <3>1. PICK q \in split \cup {root} : HasBlob(q, c)  BY <1>0, <1>5
    <3>2. q \in split' \cup {root'}  BY <2>1, <2>2, <3>1
    <3>3. q \in Roots  BY <1>0, <3>1 DEF TypeOK
    <3> QED  BY <1>3, <1>4, <3>1, <3>2, <3>3
  <2> QED  BY <1>0, <1>1, <1>2, <1>6, <2>1, <2>3, NoImport
<1>8. CASE FilesIn(root) # {}
  <2>1. /\ root' = root /\ split' = split /\ relPc' = "walk" /\ due' = FilesIn(root)
    BY <1>8 DEF Relocate
  <2>2. RelativePaths'
    <3> SUFFICES ASSUME NEW c \in Settled', row'[c] = "relative"
                 PROVE  /\ HasBlob(root, c)' \/ Ahead(c)'
                        /\ Blob(c) \in due' \/ Ahead(c)'
      BY <2>1 DEF RelativePaths
    <3>1. PICK q \in split \cup {root} : HasBlob(q, c)  BY <1>0, <1>5
    <3>2. q \in Roots /\ HasBlob(q, c)'  BY <1>0, <1>3, <1>4, <3>1 DEF TypeOK
    <3>3. CASE q \in split  BY <2>1, <3>2, <3>3 DEF Ahead
    <3>4. CASE q = root
      <4>1. Blob(c) \in FilesIn(root)
        BY <1>4, <3>1, <3>4, BlobsAndTemps DEF FilesIn, HasBlob
      <4> QED  BY <2>1, <3>2, <3>4, <4>1
    <3> QED  BY <3>1, <3>3, <3>4
  <2> QED  BY <1>0, <1>1, <1>2, <1>4, <1>6, <2>1, <2>2, NoImport
<1> QED  BY <1>7, <1>8

\* A step of a relocation under way: only the file in hand is removed from the
\* root in use, and only when it is at the next root.
LEMMA MovePaths ==
  ASSUME TypeOK, PathInv, relPc # "idle", relPc' # "idle",
         UNCHANGED <<row, pc, strays, root, dest, split>>,
         \A q \in Roots, c \in Contents : HasBlob(q, c) /\ q # root => HasBlob(q, c)',
         \A c \in Contents : HasBlob(root, c) => HasBlob(root, c)' \/ HasBlob(dest, c)',
         \A c \in Settled : row[c] = "relative" /\ ~Ahead(c)' =>
           /\ relPc' = "walk" => Blob(c) \in due'
           /\ relPc' \in {"open", "copy", "remove"} => Blob(c) \in due' \cup cur'
           /\ ~(relPc' = "done" /\ success')
  PROVE  PathInv'
<1>0. root \in Roots /\ dest \in Roots /\ split \subseteq Roots  BY DEF TypeOK
<1>1. InFlight' = InFlight /\ Settled' = Settled  BY DEF InFlight, Settled
<1>2. InFlight \subseteq strays  BY DEF PathInv, ImportInPeace
<1>3. \A c \in Settled : row[c] \in Roots => HasBlob(row[c], c)' /\ row[c] # root
  BY DEF PathInv, AbsolutePaths, Settled
<1>4. RelativePaths'
  <2> SUFFICES ASSUME NEW c \in Settled, row[c] = "relative"
               PROVE  HasBlob(root, c)' \/ Ahead(c)'
    BY <1>1 DEF RelativePaths
  <2>1. c \in Contents /\ (HasBlob(root, c) \/ Ahead(c))
    BY DEF PathInv, RelativePaths, Settled
  <2>2. CASE HasBlob(root, c)  BY <2>1, <2>2 DEF Ahead
  <2>3. CASE ~HasBlob(root, c)
    <3>1. PICK q \in split \cup {dest} : HasBlob(q, c)  BY <2>1, <2>3 DEF Ahead
    <3>2. HasBlob(q, c)'  BY <1>0, <2>1, <2>3, <3>1
    <3> QED  BY <3>1, <3>2 DEF Ahead
  <2> QED  BY <2>2, <2>3
<1> QED  BY <1>1, <1>2, <1>3, <1>4, NoImport

LEMMA RelocationPaths ==
  ASSUME FilesInv, PathInv, RelocationStep
  PROVE  PathInv'
<1> USE DEF library, history
<1>0. /\ TypeOK /\ root \in Roots /\ dest \in Roots /\ split \subseteq Roots
      /\ relPc # "idle" => dest # root
  BY DEF FilesInv, TypeOK, Apart
<1>b. \A c \in Contents : Blob(c) \in Entries  BY BlobsAndTemps
<1>s. UNCHANGED disk => \A r, c : HasBlob(r, c)' <=> HasBlob(r, c)
  BY DEF HasBlob, Exists
<1>r. \A c \in Settled : row[c] = "relative" /\ relPc # "idle" =>
        /\ relPc = "walk" => Blob(c) \in due \/ Ahead(c)
        /\ relPc \in {"open", "copy", "remove"} => Blob(c) \in due \cup cur \/ Ahead(c)
        /\ HasBlob(root, c) \/ Ahead(c)
        /\ relPc = "done" /\ success => Ahead(c)
  BY DEF PathInv, RelativePaths
<1>1. ASSUME NEW r \in Roots, Relocate(r)  PROVE PathInv'
  BY <1>0, <1>1, BeginPaths
<1>2. ASSUME NEW e \in Entries, NextFile(e)  PROVE PathInv'
  <2>1. /\ UNCHANGED <<row, pc, strays, root, dest, split, disk>> /\ relPc = "walk"
        /\ relPc' \in {"walk", "open"} /\ due' = due \ {e}
    BY <1>2 DEF NextFile
  <2>2. \A c : Ahead(c)' <=> Ahead(c)  BY <1>s, <2>1 DEF Ahead
  <2>3. ASSUME NEW c \in Settled, row[c] = "relative", ~Ahead(c)'
        PROVE  /\ relPc' = "walk" => Blob(c) \in due'
               /\ relPc' = "open" => Blob(c) \in due' \cup cur'
    <3>1. Blob(c) \in due  BY <1>r, <2>1, <2>2, <2>3
    <3>2. CASE e = Blob(c)
      <4>1. ~Exists(dest, e)  BY <2>2, <2>3, <3>2 DEF Ahead, HasBlob
      <4> QED  BY <1>2, <2>1, <3>2, <4>1 DEF NextFile
    <3>3. CASE e # Blob(c)  BY <2>1, <3>1, <3>3
    <3> QED  BY <3>2, <3>3
  <2> QED  BY <1>0, <1>s, <2>1, <2>3, MovePaths
<1>3. ASSUME NEW e \in Entries, OpenCopy(e)  PROVE PathInv'
  <2>1. /\ UNCHANGED <<row, pc, strays, root, dest, split, due>> /\ relPc = "open"
        /\ cur = {e}
    BY <1>3 DEF OpenCopy, FilesInv, OneInHand
  <2>2. CASE Exists(root, e)
    <3>1. relPc' = "copy" /\ cur' = cur /\ Write(dest, e, "part") /\ "part" \in Files
      BY <1>3, <2>2 DEF OpenCopy, Files
    <3>2. \A q \in Roots, c \in Contents : HasBlob(q, c) => HasBlob(q, c)'
      BY <1>0, <3>1, BlobsStay
    <3>3. \A c \in Settled : Ahead(c) => Ahead(c)'
      BY <1>0, <2>1, <3>2 DEF Ahead, Settled
    <3> QED  BY <1>0, <1>r, <2>1, <3>1, <3>2, <3>3, MovePaths
  <2>3. CASE ~Exists(root, e)
    <3>1. relPc' = "done" /\ success' = FALSE /\ UNCHANGED disk
      BY <1>3, <2>3 DEF OpenCopy, Finish
    <3> QED  BY <1>0, <1>s, <2>1, <3>1, MovePaths
  <2> QED  BY <2>2, <2>3
<1>4. ASSUME NEW e \in Entries, Copied(e)  PROVE PathInv'
  <2>1. /\ UNCHANGED <<row, pc, strays, root, dest, split, due, cur>> /\ relPc = "copy"
        /\ relPc' = "remove"
    BY <1>4 DEF Copied
  <2>2. PICK state \in Files \ {"none"} : Write(dest, e, state)
    BY <1>0, <1>4 DEF Copied, Exists, TypeOK, Files
  <2>3. \A q \in Roots, c \in Contents : HasBlob(q, c) => HasBlob(q, c)'
    BY <1>0, <2>2, BlobsStay
  <2>4. \A c \in Settled : Ahead(c) => Ahead(c)'
    BY <1>0, <2>1, <2>3 DEF Ahead, Settled
  <2> QED  BY <1>0, <1>r, <2>1, <2>3, <2>4, MovePaths
<1>5. ASSUME NEW e \in Entries, CopyFails(e)  PROVE PathInv'
  <2>1. /\ UNCHANGED <<row, pc, strays, root, dest, split, disk>> /\ relPc = "copy"
        /\ relPc' = "done" /\ success' = FALSE
    BY <1>5 DEF CopyFails, Finish
  <2> QED  BY <1>0, <1>s, <2>1, MovePaths
<1>6. ASSUME NEW e \in Entries, RemoveCopied(e)  PROVE PathInv'
  <2>1. /\ UNCHANGED <<row, pc, strays, root, dest, split, due>> /\ relPc = "remove"
        /\ relPc' = "walk" /\ cur = {e}
    BY <1>6 DEF RemoveCopied, FilesInv, OneInHand
  <2>2. \/ UNCHANGED disk
        \/ \A q \in Roots, f \in Entries : q # root \/ f # e => disk'[q][f] = disk[q][f]
    BY <1>0, <1>6, WriteType DEF RemoveCopied, Files
  <2>3. \A q \in Roots, c \in Contents :
          HasBlob(q, c) /\ (q # root \/ Blob(c) # e) => HasBlob(q, c)'
    BY <1>b, <1>s, <2>2 DEF HasBlob, Exists
  <2>4. \A c \in Contents : Blob(c) = e => HasBlob(dest, c)'
    <3>1. \A c \in Contents : Blob(c) = e => HasBlob(dest, c)
      BY <2>1 DEF FilesInv, Same, HasBlob, Exists
    <3> QED  BY <1>0, <2>1, <2>3, <3>1
  <2>5. ASSUME NEW c \in Settled, row[c] = "relative", ~Ahead(c)'
        PROVE  Blob(c) \in due'
    <3>1. c \in Contents /\ Blob(c) # e
      BY <2>1, <2>4, <2>5 DEF Ahead, Settled
    <3>2. ~Ahead(c)  BY <1>0, <2>1, <2>3, <2>5, <3>1 DEF Ahead
    <3> QED  BY <1>r, <2>1, <2>5, <3>1, <3>2
  <2> QED  BY <1>0, <2>1, <2>3, <2>4, <2>5, MovePaths
<1>7. ASSUME WalkEnds \/ Cancelled  PROVE PathInv'
  <2>1. /\ UNCHANGED <<row, pc, strays, root, dest, split, disk>> /\ relPc = "walk"
        /\ relPc' = "done" /\ (success' => due \cap FilesIn(root) = {})
    BY <1>7 DEF WalkEnds, Cancelled, Finish
  <2>2. \A c : Ahead(c)' <=> Ahead(c)  BY <1>s, <2>1 DEF Ahead
  <2>3. ASSUME NEW c \in Settled, row[c] = "relative", ~Ahead(c)  PROVE ~success'
    <3>1. Blob(c) \in due /\ HasBlob(root, c) /\ c \in Contents
      BY <1>r, <2>1, <2>3 DEF Settled
    <3>2. Blob(c) \in FilesIn(root)  BY <1>b, <3>1 DEF FilesIn, HasBlob
    <3> QED  BY <2>1, <3>1, <3>2
  <2> QED  BY <1>0, <1>s, <2>1, <2>2, <2>3, MovePaths
<1>8. ASSUME SwitchRoot  PROVE PathInv'
  <2>1. /\ UNCHANGED <<row, pc, strays, disk>> /\ relPc = "done" /\ relPc' = "idle"
        /\ root' = (IF success THEN dest ELSE root)
        /\ split' = (IF success THEN split \ {dest} ELSE split \cup {dest})
    BY <1>8 DEF SwitchRoot, Forget
  <2>2. InFlight' = InFlight /\ Settled' = Settled /\ InFlight \subseteq strays
    BY <2>1 DEF InFlight, Settled, PathInv, ImportInPeace
  <2>3. \A c \in Settled : row[c] \in Roots => HasBlob(row[c], c)'
    BY <1>s, <2>1 DEF PathInv, AbsolutePaths
  <2>4. RelativePaths'
    <3> SUFFICES ASSUME NEW c \in Settled, row[c] = "relative"
                 PROVE  \E r \in split' \cup {root'} : HasBlob(r, c)'
      BY <2>1, <2>2 DEF RelativePaths
    <3>1. /\ HasBlob(root, c) \/ Ahead(c)
          /\ success => Ahead(c)
      BY <1>r, <2>1
    <3>2. \A r : HasBlob(r, c)' <=> HasBlob(r, c)  BY <1>s, <2>1
    <3> QED  BY <2>1, <3>1, <3>2 DEF Ahead
  <2> QED  BY <2>1, <2>2, <2>3, <2>4, NoImport
<1> QED
  BY <1>1, <1>2, <1>3, <1>4, <1>5, <1>6, <1>7, <1>8 DEF RelocationStep

LEMMA RestartPaths ==
  ASSUME TypeOK, PathInv, Restart
  PROVE  PathInv'
<1>1. \A q \in Roots, c \in Contents : HasBlob(q, c)' <=> HasBlob(q, c)
  BY BlobsAndTemps DEF Restart, TypeOK, HasBlob, Exists
<1>2. /\ UNCHANGED <<row, root>> /\ relPc' = "idle" /\ InFlight' = {}
      /\ strays' = strays \cup InFlight
      /\ split' = (IF relPc = "idle" THEN split ELSE split \cup {dest})
      /\ root \in Roots /\ dest \in Roots /\ split \subseteq Roots
  BY DEF Restart, Forget, InFlight, TypeOK
<1>3. \A c \in Settled' : c \in Settled /\ c \in Contents
  BY <1>2 DEF Settled
<1>4. \A c \in Settled' : row[c] \in Roots => HasBlob(row[c], c)'
  BY <1>1, <1>2, <1>3 DEF PathInv, AbsolutePaths
<1>5. RelativePaths'
  <2> SUFFICES ASSUME NEW c \in Settled', row[c] = "relative"
               PROVE  \E r \in split' \cup {root'} : HasBlob(r, c)'
    BY <1>2 DEF RelativePaths
  <2>1. /\ relPc = "idle" => \E r \in split \cup {root} : HasBlob(r, c)
        /\ relPc # "idle" => HasBlob(root, c) \/ Ahead(c)
    BY <1>3 DEF PathInv, RelativePaths
  <2>2. PICK r \in split' \cup {root'} : HasBlob(r, c)  BY <1>2, <2>1 DEF Ahead
  <2> QED  BY <1>1, <1>2, <1>3, <2>2
<1> QED  BY <1>2, <1>3, <1>4, <1>5, NoImport

LEMMA PathNext ==
  ASSUME FilesInv, PathInv, [Next]_vars
  PROVE  PathInv'
<1>1. TypeOK  BY DEF FilesInv
<1>2. CASE UNCHANGED vars
  BY <1>2 DEF vars, library, relocator, history, PathInv, ImportInPeace, AbsolutePaths,
     RelativePaths, Settled, InFlight, Ahead, HasBlob, Exists, StorablePath
<1> QED  BY <1>1, <1>2, ImportPaths, RelocationPaths, RestartPaths DEF Next

\* A model imported in peace is found where its path leads, after any number of
\* relocations and restarts.
THEOREM RowsHaveFiles == Spec => []RowHasFile
<1>1. CASE MayReturn
  <2>1. RowHasFile  BY <1>1 DEF RowHasFile
  <2> QED  BY <2>1, PTL
<1>2. CASE ~MayReturn
  <2> DEFINE I == FilesInv /\ PathInv
  <2>1. Init => I  BY InvInit, PathInit
  <2>2. I /\ [Next]_vars => I'  BY <1>2, InvNext, PathNext
  <2>3. I => RowHasFile
    <3> SUFFICES ASSUME FilesInv, PathInv, relPc = "idle", split = {},
                        NEW c \in Settled, row[c] # "none"
                 PROVE  HasBlob(IF row[c] = "relative" THEN root ELSE row[c], c)
      BY DEF RowHasFile, HasBlob, Settled
    <3>1. row[c] = "relative" \/ row[c] \in Roots
      BY DEF FilesInv, TypeOK, Settled
    <3> QED  BY <3>1, LibraryAssumption DEF PathInv, AbsolutePaths, RelativePaths
  <2> QED  BY <2>1, <2>2, <2>3, PTL DEF Spec
<1> QED  BY <1>1, <1>2
=============================================================================
