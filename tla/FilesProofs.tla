---------------------------- MODULE FilesProofs ----------------------------
(* Proofs about Files: what file_thread's cache, rows and blobs keep to,      *)
(* whatever fails, is lost or dies, for every set of files and every drift.   *)
EXTENDS Files, TLAPS

-----------------------------------------------------------------------------
(* Types *)

(* A number below its bound or at it, one more or not. *)
LEMMA AgeGrows ==
  ASSUME NEW a \in [FileIds -> 0..FileDrift]
  PROVE  [f \in FileIds |-> IF a[f] < FileDrift THEN a[f] + 1 ELSE a[f]]
           \in [FileIds -> 0..FileDrift]
  BY FilesAssumption

(* NewRound keeps types: the ages stay within the drift. *)
LEMMA NewRoundType ==
  ASSUME FileTypeOK, NewRound
  PROVE  /\ age' \in [FileIds -> 0..FileDrift] /\ fpc' = "walk" /\ offset' \in Nat
         /\ file' \in FileIds \cup {0} /\ meta' \in 0..2
         /\ shown' \subseteq FileIds /\ fileError' \in {"NoError", "Generic", "Reconnect"}
  <1>1. age' \in [FileIds -> 0..FileDrift]
    <2>1. age \in [FileIds -> 0..FileDrift]  BY DEF FileTypeOK
    <2>2. QED  BY <2>1, AgeGrows DEF NewRound
  <1>2. QED  BY <1>1 DEF NewRound

(* A fault is counted. *)
LEMMA FaultType ==
  ASSUME FileTypeOK, FileFault
  PROVE  fileFaults' \in Nat
  BY DEF FileTypeOK, FileFault

(* Every step keeps the types. *)
LEMMA TypeStep ==
  ASSUME FileTypeOK, HasFile, [FileNext]_fileVars
  PROVE  FileTypeOK'
  <1> USE DEF FileTypeOK, cacheVars, blobVars
  <1>0. 0 \in 0..FileDrift  BY FilesAssumption
  <1>1. CASE FilePage
    <2>1. CASE PageAt(offset) = {}  BY <1>1, <2>1 DEF FilePage
    <2>2. CASE PageAt(offset) # {}
      <3>1. PICK f \in FileIds :
              /\ file' = f /\ meta' = files[f] /\ offset' = offset + 1
              /\ shown' = shown \cup {f}
              /\ age' = [age EXCEPT ![f] = IF fileSum[f] # 0 THEN 0 ELSE @]
              /\ fpc' = IF fileSum[f] = files[f] THEN "download" ELSE "persist"
              /\ UNCHANGED fileSum
        BY <1>1, <2>2 DEF FilePage, PageAt, InList
      <3>2. age' \in [FileIds -> 0..FileDrift]  BY <3>1, <1>0
      <3>3. QED  BY <1>1, <3>1, <3>2 DEF FilePage
    <2>3. QED  BY <2>1, <2>2
  <1>2. CASE FilePageFails  BY <1>2, FaultType DEF FilePageFails, WalkOver
  <1>3. CASE PersistFile  BY <1>3, <1>0 DEF PersistFile, HasFile
  <1>4. CASE PersistFileFails
    <2>1. fileFaults' \in Nat  BY <1>4, FaultType DEF PersistFileFails
    <2>2. fileRow' \in [FileIds -> 0..2] /\ unsure' \subseteq FileIds
      BY <1>4 DEF PersistFileFails, HasFile
    <2>3. /\ fpc' \in {"download", "round"} /\ fileError' \in {"NoError", "Generic", "Reconnect"}
          /\ file' \in FileIds \cup {0} /\ meta' \in 0..2
      BY <1>4 DEF PersistFileFails, WalkOver
    <2>4. QED  BY <1>4, <2>1, <2>2, <2>3 DEF PersistFileFails
  <1>5. CASE Download  BY <1>5 DEF Download
  <1>6. CASE DownloadFails  BY <1>6, FaultType DEF DownloadFails
  <1>7. CASE WriteBlob  BY <1>7, FaultType DEF WriteBlob, HasFile
  <1>8. CASE RenameBlob  BY <1>8 DEF RenameBlob, HasFile
  <1>9. CASE BlobFails  BY <1>9, FaultType DEF BlobFails
  <1>10. CASE PruneFileFails  BY <1>10, FaultType DEF PruneFileFails, WalkOver
  <1>11. CASE FilesPruned  BY <1>11 DEF FilesPruned, WalkOver
  <1>12. CASE FileRound  BY <1>12, NewRoundType DEF FileRound
  <1>13. CASE FileReconnects  BY <1>13, NewRoundType, FaultType DEF FileReconnects
  <1>14. CASE FileRoundFails
    <2>1. fileErrors' \in Nat /\ fileConn' \in BOOLEAN /\ staleQuery' \in BOOLEAN
      <3>1. fileErrors' \in Nat  BY <1>14 DEF FileRoundFails
      <3>2. fileConn' \in BOOLEAN  BY <1>14 DEF FileRoundFails
      <3>3. staleQuery' \in BOOLEAN  BY <1>14, Zenon DEF FileRoundFails
      <3>4. QED  BY <3>1, <3>2, <3>3
    <2>2. CASE fpc' = "exited" /\ UNCHANGED <<age, offset, file, meta, fileError, shown>>
      BY <1>14, <2>1, <2>2 DEF FileRoundFails
    <2>3. CASE NewRound  BY <1>14, <2>1, <2>3, NewRoundType DEF FileRoundFails
    <2>4. QED  BY <1>14, <2>2, <2>3 DEF FileRoundFails
  <1>15. ASSUME NEW f \in FileIds, PruneFile(f)
         PROVE  FileTypeOK'
    BY <1>15 DEF PruneFile
  <1>16. ASSUME NEW f \in FileIds, PruneAnswerLost(f)
         PROVE  FileTypeOK'
    BY <1>16, FaultType DEF PruneAnswerLost, WalkOver
  <1>17. ASSUME NEW f \in FileIds, EditFile(f)
         PROVE  FileTypeOK'
    BY <1>17 DEF EditFile
  <1>18. CASE FileRestart
    <2>1. age' \in [FileIds -> 0..FileDrift]  BY <1>18, <1>0 DEF FileRestart
    <2>2. fileFaults' \in Nat  BY <1>18, FaultType DEF FileRestart
    <2>3. fileConn' \in BOOLEAN /\ staleQuery' \in BOOLEAN /\ shown' \subseteq FileIds
      BY <1>18 DEF FileRestart
    <2>4. offset' \in Nat /\ file' \in FileIds \cup {0} /\ meta' \in 0..2 /\ fileErrors' \in Nat
      BY <1>18 DEF FileRestart
    <2>5. QED  BY <1>18, <2>1, <2>2, <2>3, <2>4 DEF FileRestart
  <1>19. CASE UNCHANGED fileVars  BY <1>19 DEF fileVars
  <1>20. QED
    BY <1>1, <1>2, <1>3, <1>4, <1>5, <1>6, <1>7, <1>8, <1>9, <1>10, <1>11, <1>12,
       <1>13, <1>14, <1>15, <1>16, <1>17, <1>18, <1>19 DEF FileNext, FileStep

-----------------------------------------------------------------------------
(* Blobs *)

(* dest changes by rename alone, and .part is whole by then or its flush was  *)
(* lost.                                                                      *)
LEMMA BlobStep ==
  ASSUME FileInv, [FileNext]_fileVars
  PROVE  BlobsWhole' /\ PartReady'
  <1> USE DEF FileInv, FileTypeOK, BlobsWhole, HasFile, PartReady, cacheVars, blobVars
  <1>1. CASE FilePage  BY <1>1 DEF FilePage
  <1>2. CASE FilePageFails  BY <1>2 DEF FilePageFails, WalkOver
  <1>3. CASE PersistFile  BY <1>3 DEF PersistFile
  <1>4. CASE PersistFileFails  BY <1>4 DEF PersistFileFails, WalkOver
  <1>5. CASE Download  BY <1>5 DEF Download
  <1>6. CASE DownloadFails  BY <1>6 DEF DownloadFails
  <1>7. CASE WriteBlob  BY <1>7 DEF WriteBlob
  <1>8. CASE RenameBlob  BY <1>8 DEF RenameBlob
  <1>9. CASE BlobFails  BY <1>9 DEF BlobFails
  <1>10. CASE PruneFileFails  BY <1>10 DEF PruneFileFails, WalkOver
  <1>11. CASE FilesPruned  BY <1>11 DEF FilesPruned, WalkOver
  <1>12. CASE FileRound  BY <1>12 DEF FileRound, NewRound
  <1>13. CASE FileReconnects  BY <1>13 DEF FileReconnects, NewRound
  <1>14. CASE FileRoundFails  BY <1>14 DEF FileRoundFails, NewRound
  <1>15. CASE \E f \in FileIds : PruneFile(f)  BY <1>15 DEF PruneFile
  <1>16. CASE \E f \in FileIds : PruneAnswerLost(f)  BY <1>16 DEF PruneAnswerLost, WalkOver
  <1>17. CASE \E f \in FileIds : EditFile(f)  BY <1>17 DEF EditFile
  <1>18. CASE FileRestart  BY <1>18 DEF FileRestart
  <1>19. CASE UNCHANGED fileVars  BY <1>19 DEF fileVars
  <1>20. QED
    BY <1>1, <1>2, <1>3, <1>4, <1>5, <1>6, <1>7, <1>8, <1>9, <1>10, <1>11, <1>12,
       <1>13, <1>14, <1>15, <1>16, <1>17, <1>18, <1>19 DEF FileNext, FileStep

-----------------------------------------------------------------------------
(* Rows and cache *)

(* Row and checksum change together, or the file is marked unsure. *)
LEMMA CacheStep ==
  ASSUME FileInv, [FileNext]_fileVars
  PROVE  CacheIsTable'
  <1> USE DEF FileInv, FileTypeOK, CacheIsTable, HasFile, cacheVars
  <1>1. CASE FilePage
    <2>1. UNCHANGED <<fileSum, fileRow, unsure>>  BY <1>1 DEF FilePage
    <2>2. QED  BY <2>1
  <1>2. CASE FilePageFails  BY <1>2 DEF FilePageFails
  <1>3. CASE PersistFile  BY <1>3 DEF PersistFile
  <1>4. CASE PersistFileFails  BY <1>4 DEF PersistFileFails
  <1>5. CASE Download  BY <1>5 DEF Download
  <1>6. CASE DownloadFails  BY <1>6 DEF DownloadFails
  <1>7. CASE WriteBlob  BY <1>7 DEF WriteBlob
  <1>8. CASE RenameBlob  BY <1>8 DEF RenameBlob
  <1>9. CASE BlobFails  BY <1>9 DEF BlobFails
  <1>10. CASE PruneFileFails  BY <1>10 DEF PruneFileFails
  <1>11. CASE FilesPruned  BY <1>11 DEF FilesPruned
  <1>12. CASE FileRound  BY <1>12 DEF FileRound
  <1>13. CASE FileReconnects  BY <1>13 DEF FileReconnects
  <1>14. CASE FileRoundFails  BY <1>14 DEF FileRoundFails
  <1>15. CASE \E f \in FileIds : PruneFile(f)  BY <1>15 DEF PruneFile
  <1>16. CASE \E f \in FileIds : PruneAnswerLost(f)  BY <1>16 DEF PruneAnswerLost
  <1>17. CASE \E f \in FileIds : EditFile(f)  BY <1>17 DEF EditFile
  <1>18. CASE FileRestart  BY <1>18 DEF FileRestart
  <1>19. CASE UNCHANGED fileVars  BY <1>19 DEF fileVars
  <1>20. QED
    BY <1>1, <1>2, <1>3, <1>4, <1>5, <1>6, <1>7, <1>8, <1>9, <1>10, <1>11, <1>12,
       <1>13, <1>14, <1>15, <1>16, <1>17, <1>18, <1>19 DEF FileNext, FileStep

-----------------------------------------------------------------------------
(* The walk *)

(* A file of the walk stays marked seen until the next walk begins: the ages  *)
(* grow with a new round alone, which forgets what the last walk showed.      *)
LEMMA SeenStep ==
  ASSUME FileInv, [FileNext]_fileVars
  PROVE  HasFile' /\ ShownSeen'
  <1> USE DEF FileInv, FileTypeOK, HasFile, ShownSeen, cacheVars
  <1>1. CASE FilePage
    <2>1. CASE PageAt(offset) = {}  BY <1>1, <2>1 DEF FilePage
    <2>2. CASE PageAt(offset) # {}
      <3>1. PICK f \in FileIds :
              /\ files[f] # 0 /\ file' = f /\ meta' = files[f] /\ shown' = shown \cup {f}
              /\ age' = [age EXCEPT ![f] = IF fileSum[f] # 0 THEN 0 ELSE @]
              /\ UNCHANGED fileSum
        BY <1>1, <2>2 DEF FilePage, PageAt, InList
      <3>2. QED  BY <3>1
    <2>3. QED  BY <2>1, <2>2
  <1>2. CASE FilePageFails  BY <1>2 DEF FilePageFails, WalkOver
  <1>3. CASE PersistFile  BY <1>3 DEF PersistFile
  <1>4. CASE PersistFileFails  BY <1>4 DEF PersistFileFails, WalkOver
  <1>5. CASE Download  BY <1>5 DEF Download
  <1>6. CASE DownloadFails  BY <1>6 DEF DownloadFails
  <1>7. CASE WriteBlob  BY <1>7 DEF WriteBlob
  <1>8. CASE RenameBlob  BY <1>8 DEF RenameBlob
  <1>9. CASE BlobFails  BY <1>9 DEF BlobFails
  <1>10. CASE PruneFileFails  BY <1>10 DEF PruneFileFails, WalkOver
  <1>11. CASE FilesPruned  BY <1>11 DEF FilesPruned, WalkOver
  <1>12. CASE FileRound  BY <1>12 DEF FileRound, NewRound
  <1>13. CASE FileReconnects  BY <1>13 DEF FileReconnects, NewRound
  <1>14. CASE FileRoundFails  BY <1>14 DEF FileRoundFails, NewRound
  <1>15. CASE \E f \in FileIds : PruneFile(f)  BY <1>15 DEF PruneFile
  <1>16. CASE \E f \in FileIds : PruneAnswerLost(f)  BY <1>16 DEF PruneAnswerLost, WalkOver
  <1>17. CASE \E f \in FileIds : EditFile(f)  BY <1>17 DEF EditFile
  <1>18. CASE FileRestart  BY <1>18 DEF FileRestart
  <1>19. CASE UNCHANGED fileVars  BY <1>19 DEF fileVars
  <1>20. QED
    BY <1>1, <1>2, <1>3, <1>4, <1>5, <1>6, <1>7, <1>8, <1>9, <1>10, <1>11, <1>12,
       <1>13, <1>14, <1>15, <1>16, <1>17, <1>18, <1>19 DEF FileNext, FileStep

-----------------------------------------------------------------------------
(* Theorems *)

(* The invariant of file_thread holds whatever fails, is lost or dies.        *)
THEOREM FilesInvariant == FileSpec => []FileInv
  <1>1. FileInit => FileInv
    <2> SUFFICES ASSUME FileInit PROVE FileInv  OBVIOUS
    <2>0. 0 \in 0..FileDrift  BY FilesAssumption
    <2>1. FileTypeOK
      <3>1. /\ files \in [FileIds -> 0..2] /\ fileRow \in [FileIds -> 0..2]
            /\ fileSum \in [FileIds -> 0..2] /\ age \in [FileIds -> 0..FileDrift]
        BY <2>0 DEF FileInit
      <3>2. /\ blob \in [FileIds -> {"none", "short", "whole"}]
            /\ dotPart \in [FileIds -> {"none", "short", "whole"}]
        BY DEF FileInit
      <3>3. /\ fileConn \in BOOLEAN /\ staleQuery \in BOOLEAN
            /\ shown \subseteq FileIds /\ flushLost \subseteq FileIds /\ unsure \subseteq FileIds
        BY DEF FileInit
      <3>4. /\ offset \in Nat /\ file \in FileIds \cup {0} /\ meta \in 0..2 /\ fileErrors \in Nat
            /\ fileEdits \in Nat /\ fileFaults \in Nat
            /\ fpc = "walk" /\ fileError = "NoError"
        BY DEF FileInit
      <3>5. QED  BY <3>1, <3>2, <3>3, <3>4 DEF FileTypeOK
    <2>2. QED
      BY <2>1 DEF FileInit, FileInv, BlobsWhole, CacheIsTable, HasFile, PartReady, ShownSeen
  <1>2. FileInv /\ [FileNext]_fileVars => FileInv'
    BY TypeStep, BlobStep, CacheStep, SeenStep DEF FileInv
  <1>3. QED  BY <1>1, <1>2, PTL DEF FileSpec

(* What stands under a blob's name is the whole file, also when the process   *)
(* dies between fopen and rename of download_file; a lost flush excepted.     *)
THEOREM BlobsAreWhole == FileSpec => []BlobsWhole
  <1>1. FileInv => BlobsWhole  BY DEF FileInv
  <1>2. QED  BY FilesInvariant, <1>1, PTL

(* file_thread's cache says of every file what bx_file has, but for           *)
(* statements that were executed and not answered, and for the rows that a    *)
(* failed SELECT at the start left out (persist_file, cache_set_item,         *)
(* bx_prune_items, bx_cache_hydrate).                                         *)
THEOREM CacheAgreesWithTable == FileSpec => []CacheIsTable
  <1>1. FileInv => CacheIsTable  BY DEF FileInv
  <1>2. QED  BY FilesInvariant, <1>1, PTL

(* bx_prune_items deletes no row of a file the walk before it showed, for     *)
(* every drift of at least 1.                                                 *)
THEOREM ShownFilesSpared == FileSpec => PruneSparesShown
  <1>1. FileInv /\ [FileNext]_fileVars
          => [\A f \in FileIds : fileRow[f] # 0 /\ fileRow'[f] = 0 => f \notin shown]_fileVars
    <2> SUFFICES ASSUME FileInv, FileNext, NEW f \in FileIds, fileRow[f] # 0, fileRow'[f] = 0
                 PROVE  f \notin shown
      OBVIOUS
    <2> USE DEF FileInv, FileTypeOK, cacheVars
    <2>1. CASE \E g \in FileIds : PruneFile(g) \/ PruneAnswerLost(g)
      <3>1. f \in Unseen  BY <2>1 DEF PruneFile, PruneAnswerLost
      <3>2. fileSum[f] # 0 /\ age[f] # 0  BY <3>1, FilesAssumption DEF Unseen
      <3>3. QED  BY <3>2 DEF ShownSeen
    <2>2. CASE PersistFile  BY <2>2 DEF PersistFile, HasFile
    <2>3. CASE PersistFileFails  BY <2>3 DEF PersistFileFails, HasFile
    <2>4. CASE UNCHANGED fileRow  BY <2>4
    <2>5. QED
      BY <2>1, <2>2, <2>3, <2>4
         DEF FileNext, FileStep, FilePage, FilePageFails, Download, DownloadFails, WriteBlob,
             RenameBlob, BlobFails, PruneFileFails, FilesPruned, FileRound, FileReconnects,
             FileRoundFails, FileRestart, EditFile
  <1>2. QED  BY <1>1, FilesInvariant, PTL DEF FileSpec, PruneSparesShown

=============================================================================
