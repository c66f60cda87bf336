------------------------------- MODULE Files -------------------------------
(* file_thread: the rows of bx_file, the blobs in the cache directory, and    *)
(* the prune of rows Bexio no longer lists.  Pages hold one file each and are *)
(* asked for by offset.  A blob is "none", "short" or "whole".                *)
EXTENDS Integers, FiniteSets

CONSTANTS
  FileIds, NoUuid,             \* files without a (valid) uuid have no blob
  FileDrift, MaxFileEdits, MaxFileFaults, FileExitMax

(* A prune-drift of 0 becomes the default, a negative one prunes nothing. *)
ASSUME FilesAssumption ==
  /\ FileIds \subseteq Nat \ {0} /\ FileDrift \in Nat \ {0}
  /\ MaxFileEdits \in Nat /\ MaxFileFaults \in Nat /\ FileExitMax \in Nat

VARIABLES
  files,         \* Bexio: version of the metadata, 0 when the file is gone
  fileRow,       \* bx_file: version stored, or 0
  fileSum,       \* cache: version whose checksum is held, 0 when not in it
  age,           \* cache: versions since last_seen, up to FileDrift
  blob, dotPart,    \* dest and dest.part
  fpc,           \* "walk", "persist", "download", "write", "rename", "prune", "round", "exited"
  offset,        \* files before the page that comes next
  file, meta,    \* the file of the page and the version the page has of it
  fileError, fileConn, fileErrors,
  staleQuery,    \* the DELETE was prepared on a handle that is closed
  shown,         \* history: files this walk showed
  flushLost,     \* history: files whose last bytes fclose could not write
  unsure,        \* history: files of whose row the cache may not know: a statement was
                 \* executed and not answered, or the SELECT at the start failed
  fileEdits, fileFaults

cacheVars == <<fileSum, age>>
blobVars == <<blob, dotPart, flushLost>>
fileVars == <<files, fileRow, cacheVars, blobVars, fpc, offset, file, meta, fileError,
              fileConn, fileErrors, staleQuery, shown, unsure, fileEdits, fileFaults>>

FileInit ==
  /\ files = [f \in FileIds |-> 1] /\ fileRow = [f \in FileIds |-> 0]
  /\ fileSum = [f \in FileIds |-> 0] /\ age = [f \in FileIds |-> 0]
  /\ blob = [f \in FileIds |-> "none"] /\ dotPart = [f \in FileIds |-> "none"]
  /\ fpc = "walk" /\ offset = 0 /\ file = 0 /\ meta = 0
  /\ fileError = "NoError" /\ fileConn = TRUE /\ fileErrors = 0
  /\ staleQuery = FALSE /\ shown = {} /\ flushLost = {} /\ unsure = {}
  /\ fileEdits = 0 /\ fileFaults = 0

FileFault == fileFaults < MaxFileFaults /\ fileFaults' = fileFaults + 1

InList == {f \in FileIds : files[f] # 0}
(* The page with the file that comes after n others, or an empty page. *)
PageAt(n) == {f \in InList : Cardinality({g \in InList : g < f}) = n}

(* Bexio: the metadata change, or the file is removed. *)
EditFile(f) ==
  /\ fileEdits < MaxFileEdits /\ fileEdits' = fileEdits + 1
  /\ files[f] # 0 /\ files' = [files EXCEPT ![f] = IF @ = 1 THEN 2 ELSE 0]
  /\ UNCHANGED <<fileRow, cacheVars, blobVars, fpc, offset, file, meta, fileError,
                 fileConn, fileErrors, staleQuery, shown, unsure, fileFaults>>

WalkOver(e) == fpc' = "round" /\ fileError' = e /\ file' = 0 /\ meta' = 0

(* Mutant of FilePage: only a file whose checksum is the same is seen. *)
FilePageSeesClean ==
  /\ fpc = "walk" /\ fileConn
  /\ IF PageAt(offset) = {}
     THEN /\ fpc' = "prune" /\ UNCHANGED <<cacheVars, offset, file, meta, shown>>
     ELSE \E f \in PageAt(offset) :
          /\ file' = f /\ meta' = files[f] /\ offset' = offset + 1 /\ shown' = shown \cup {f}
          /\ age' = [age EXCEPT ![f] = IF fileSum[f] = files[f] THEN 0 ELSE @]
          /\ fpc' = IF fileSum[f] = files[f] THEN "download" ELSE "persist"
          /\ UNCHANGED fileSum
  /\ UNCHANGED <<files, fileRow, blobVars, fileError, fileConn, fileErrors,
                 staleQuery, unsure, fileEdits, fileFaults>>

(* bx_walk_pages: a page, and cache_check_item for its file.  The check marks *)
(* a file seen whatever its checksum.                                         *)
FilePage ==
  /\ fpc = "walk" /\ fileConn
  /\ IF PageAt(offset) = {}
     THEN /\ fpc' = "prune" /\ UNCHANGED <<cacheVars, offset, file, meta, shown>>
     ELSE \E f \in PageAt(offset) :
          /\ file' = f /\ meta' = files[f] /\ offset' = offset + 1 /\ shown' = shown \cup {f}
          /\ age' = [age EXCEPT ![f] = IF fileSum[f] # 0 THEN 0 ELSE @]
          /\ fpc' = IF fileSum[f] = files[f] THEN "download" ELSE "persist"
          /\ UNCHANGED fileSum
  /\ UNCHANGED <<files, fileRow, blobVars, fileError, fileConn, fileErrors,
                 staleQuery, unsure, fileEdits, fileFaults>>

FilePageFails ==
  /\ fpc = "walk" /\ IF fileConn THEN FileFault ELSE UNCHANGED fileFaults
  /\ WalkOver("Generic")
  /\ UNCHANGED <<files, fileRow, cacheVars, blobVars, offset, fileConn,
                 fileErrors, staleQuery, shown, unsure, fileEdits>>

(* persist_file, then cache_set_item. *)
PersistFile ==
  /\ fpc = "persist"
  /\ fileRow' = [fileRow EXCEPT ![file] = meta]
  /\ fileSum' = [fileSum EXCEPT ![file] = meta] /\ age' = [age EXCEPT ![file] = 0]
  /\ fpc' = "download" /\ unsure' = unsure \ {file}
  /\ UNCHANGED <<files, blobVars, offset, file, meta, fileError, fileConn, fileErrors,
                 staleQuery, shown, fileEdits, fileFaults>>

(* Mutant of PersistFileFails: cache_set_item whatever persist_file answered. *)
PersistFileFailsCaches ==
  /\ fpc = "persist" /\ FileFault
  /\ fpc' = "download" /\ fileSum' = [fileSum EXCEPT ![file] = meta]
  /\ UNCHANGED <<files, fileRow, age, blobVars, offset, file, meta, fileError, fileConn,
                 fileErrors, staleQuery, shown, unsure, fileEdits>>

(* The file is left uncached; the blob is tried all the same, unless the      *)
(* connection is gone, which ends the walk.  The answer that is lost with it  *)
(* may be that of a statement the server executed.                            *)
PersistFileFails ==
  /\ fpc = "persist" /\ FileFault
  /\ \/ fpc' = "download" /\ UNCHANGED <<fileRow, file, meta, fileError, unsure>>
     \/ WalkOver("Reconnect") /\ UNCHANGED <<fileRow, unsure>>
     \/ /\ WalkOver("Reconnect") /\ unsure' = unsure \cup {file}
        /\ fileRow' = [fileRow EXCEPT ![file] = meta]
  /\ UNCHANGED <<files, cacheVars, blobVars, offset, fileConn,
                 fileErrors, staleQuery, shown, fileEdits>>

(* Mutant of Download: a blob that is there is taken for the file, whatever its size. *)
DownloadOnce ==
  /\ fpc = "download"
  /\ IF file \in NoUuid \/ blob[file] # "none"
     THEN fpc' = "walk" /\ UNCHANGED dotPart
     ELSE fpc' = "write" /\ dotPart' = [dotPart EXCEPT ![file] = "short"]
  /\ UNCHANGED <<files, fileRow, cacheVars, blob, flushLost, offset, file, meta,
                 fileError, fileConn, fileErrors, staleQuery, shown, unsure, fileEdits,
                 fileFaults>>

(* download_file: nothing to do for a file without a uuid, or whose blob has  *)
(* the size the metadata say.                                                 *)
Download ==
  /\ fpc = "download"
  /\ IF file \in NoUuid \/ blob[file] = "whole"
     THEN fpc' = "walk" /\ UNCHANGED dotPart
     ELSE fpc' = "write" /\ dotPart' = [dotPart EXCEPT ![file] = "short"]
  /\ UNCHANGED <<files, fileRow, cacheVars, blob, flushLost, offset, file, meta,
                 fileError, fileConn, fileErrors, staleQuery, shown, unsure, fileEdits,
                 fileFaults>>

(* No directory, no answer, no .part: the walk goes on with the next file. *)
DownloadFails ==
  /\ fpc = "download" /\ file \notin NoUuid /\ blob[file] # "whole" /\ FileFault
  /\ fpc' = "walk"
  /\ UNCHANGED <<files, fileRow, cacheVars, blobVars, offset, file, meta, fileError,
                 fileConn, fileErrors, staleQuery, shown, unsure, fileEdits>>

(* Mutant of WriteBlob: the bytes go to dest itself. *)
WriteBlobInPlace ==
  /\ fpc = "write"
  /\ dotPart' = [dotPart EXCEPT ![file] = "whole"] /\ blob' = [blob EXCEPT ![file] = "short"]
  /\ fpc' = "rename"
  /\ UNCHANGED <<files, fileRow, cacheVars, flushLost, offset, file, meta, fileError,
                 fileConn, fileErrors, staleQuery, shown, unsure, fileEdits, fileFaults>>

(* The bytes are written.  fclose flushes the last of them, and nobody looks  *)
(* whether it could.                                                          *)
WriteBlob ==
  /\ fpc = "write"
  /\ \/ /\ dotPart' = [dotPart EXCEPT ![file] = "whole"]
        /\ UNCHANGED <<flushLost, fileFaults>>
     \/ FileFault /\ flushLost' = flushLost \cup {file} /\ UNCHANGED dotPart
  /\ fpc' = "rename"
  /\ UNCHANGED <<files, fileRow, cacheVars, blob, offset, file, meta, fileError,
                 fileConn, fileErrors, staleQuery, shown, unsure, fileEdits>>

RenameBlob ==
  /\ fpc = "rename"
  /\ blob' = [blob EXCEPT ![file] = dotPart[file]]
  /\ dotPart' = [dotPart EXCEPT ![file] = "none"] /\ fpc' = "walk"
  /\ flushLost' = IF dotPart[file] = "whole" THEN flushLost \ {file} ELSE flushLost
  /\ UNCHANGED <<files, fileRow, cacheVars, offset, file, meta, fileError,
                 fileConn, fileErrors, staleQuery, shown, unsure, fileEdits, fileFaults>>

(* A short write or a failed rename takes .part away. *)
BlobFails ==
  /\ fpc \in {"write", "rename"} /\ FileFault
  /\ dotPart' = [dotPart EXCEPT ![file] = "none"] /\ fpc' = "walk"
  /\ UNCHANGED <<files, fileRow, cacheVars, blob, flushLost, offset, file, meta, fileError,
                 fileConn, fileErrors, staleQuery, shown, unsure, fileEdits>>

(* bx_prune_items: every file the cache has not seen for FileDrift versions.  *)
Unseen == {f \in FileIds : fileSum[f] # 0 /\ age[f] >= FileDrift}

PruneFile(f) ==
  /\ fpc = "prune" /\ ~staleQuery /\ f \in Unseen /\ \A g \in Unseen : f <= g
  /\ fileRow' = [fileRow EXCEPT ![f] = 0] /\ fileSum' = [fileSum EXCEPT ![f] = 0]
  /\ unsure' = unsure \ {f}
  /\ UNCHANGED <<files, age, blobVars, fpc, offset, file, meta, fileError, fileConn,
                 fileErrors, staleQuery, shown, fileEdits, fileFaults>>

(* A DELETE whose handle was closed answers as a lost connection does. *)
PruneFileFails ==
  /\ fpc = "prune" /\ Unseen # {}
  /\ IF staleQuery THEN UNCHANGED fileFaults ELSE FileFault
  /\ \E e \in (IF staleQuery THEN {"Reconnect"} ELSE {"Generic", "Reconnect"}) : WalkOver(e)
  /\ UNCHANGED <<files, fileRow, cacheVars, blobVars, offset, fileConn,
                 fileErrors, staleQuery, shown, unsure, fileEdits>>

(* The server executes the DELETE and its answer is lost: no cache_tombstone. *)
PruneAnswerLost(f) ==
  /\ fpc = "prune" /\ ~staleQuery /\ f \in Unseen /\ \A g \in Unseen : f <= g
  /\ FileFault /\ WalkOver("Reconnect")
  /\ fileRow' = [fileRow EXCEPT ![f] = 0] /\ unsure' = unsure \cup {f}
  /\ UNCHANGED <<files, cacheVars, blobVars, offset, fileConn, fileErrors,
                 staleQuery, shown, fileEdits>>

FilesPruned ==
  /\ fpc = "prune" /\ Unseen = {} /\ WalkOver("NoError")
  /\ UNCHANGED <<files, fileRow, cacheVars, blobVars, offset, fileConn,
                 fileErrors, staleQuery, shown, unsure, fileEdits, fileFaults>>

(* The walk of a round begins with a new version, also after one that failed. *)
NewRound ==
  /\ age' = [f \in FileIds |-> IF age[f] < FileDrift THEN age[f] + 1 ELSE age[f]]
  /\ fpc' = "walk" /\ offset' = 0 /\ file' = 0 /\ meta' = 0 /\ shown' = {} /\ fileError' = "NoError"

FileRound ==
  /\ fpc = "round" /\ fileError = "NoError"
  /\ fileErrors' = 0 /\ NewRound
  /\ UNCHANGED <<files, fileRow, fileSum, blobVars, fileConn, staleQuery,
                 unsure, fileEdits, fileFaults>>

(* thread_reconnect, asked for or found needed by a ping.  The DELETE is       *)
(* prepared anew when the handle has another address; the one that was freed   *)
(* may be handed out again.                                                    *)
FileReconnects ==
  /\ fpc = "round"
  /\ \/ fileError = "Reconnect" /\ UNCHANGED fileFaults
     \/ fileError = "Generic" /\ fileConn /\ FileFault
  /\ fileConn' = TRUE /\ fileErrors' = 0 /\ staleQuery' \in BOOLEAN /\ NewRound
  /\ UNCHANGED <<files, fileRow, fileSum, blobVars, unsure, fileEdits>>

(* The reconnection fails and leaves no handle, or there is nothing to do but *)
(* to count the error.                                                        *)
FileRoundFails ==
  /\ fpc = "round" /\ fileError # "NoError"
  /\ fileConn' \in IF fileError = "Reconnect" THEN {FALSE} ELSE {fileConn, FALSE}
  /\ staleQuery' = (staleQuery \/ ~fileConn')
  /\ fileErrors' = fileErrors + 1
  /\ IF fileErrors > FileExitMax
     THEN fpc' = "exited" /\ UNCHANGED <<age, offset, file, meta, fileError, shown>>
     ELSE NewRound
  /\ UNCHANGED <<files, fileRow, fileSum, blobVars, unsure, fileEdits, fileFaults>>

(* Mutant of FileRestart: the cache starts empty and nothing is read into it. *)
FileRestartEmpty ==
  /\ FileFault
  /\ fileSum' = [f \in FileIds |-> 0] /\ unsure' = {} /\ age' = [f \in FileIds |-> 0]
  /\ fpc' = "walk" /\ offset' = 0 /\ file' = 0 /\ meta' = 0 /\ shown' = {} /\ fileError' = "NoError"
  /\ fileConn' = TRUE /\ fileErrors' = 0 /\ staleQuery' = FALSE
  /\ UNCHANGED <<files, fileRow, blobVars, fileEdits>>

(* The process dies and is started again; a .part that is left is written     *)
(* over.  bx_cache_hydrate reads the cache from bx_file.  When its SELECT      *)
(* fails the thread goes on with an empty cache, on a new handle if need be,   *)
(* and ends when it cannot get one.                                            *)
FileRestart ==
  /\ FileFault
  /\ \E loaded \in BOOLEAN :
       /\ fileSum' = IF loaded THEN fileRow ELSE [f \in FileIds |-> 0]
       /\ unsure' = IF loaded THEN {} ELSE {f \in FileIds : fileRow[f] # 0}
       /\ fpc' \in IF loaded THEN {"walk"} ELSE {"walk", "exited"}
  /\ age' = [f \in FileIds |-> 0]
  /\ offset' = 0 /\ file' = 0 /\ meta' = 0 /\ shown' = {} /\ fileError' = "NoError"
  /\ fileConn' = TRUE /\ fileErrors' = 0 /\ staleQuery' = FALSE
  /\ UNCHANGED <<files, fileRow, blobVars, fileEdits>>

FileStep ==
  \/ FilePage \/ FilePageFails \/ PersistFile \/ PersistFileFails
  \/ Download \/ DownloadFails \/ WriteBlob \/ RenameBlob \/ BlobFails
  \/ PruneFileFails \/ FilesPruned \/ FileRound \/ FileReconnects \/ FileRoundFails
  \/ \E f \in FileIds : PruneFile(f) \/ PruneAnswerLost(f)

FileNext == FileStep \/ FileRestart \/ \E f \in FileIds : EditFile(f)
FileSpec == FileInit /\ [][FileNext]_fileVars /\ WF_fileVars(FileStep)

-----------------------------------------------------------------------------
(* Properties *)

(* What stands under a blob's name is the whole file, whenever the process    *)
(* dies: download_file writes .part and renames it.  The exception is a flush *)
(* fclose could not do.                                                       *)
BlobsWhole == \A f \in FileIds : blob[f] = "short" => f \in flushLost

(* The prune that follows a walk takes no file this walk showed, however many *)
(* walks failed before it and although each of them moved the version on.     *)
PruneSparesShown ==
  [][\A f \in FileIds : fileRow[f] # 0 /\ fileRow'[f] = 0 => f \notin shown]_fileVars

(* The cache has of a file what bx_file has: file_page_item leaves out        *)
(* persist_file for a checksum the cache holds, and bx_prune_items looks for  *)
(* rows in the cache alone.  The exceptions are a file with a statement the   *)
(* server executed and did not answer, and the rows that are there when the   *)
(* SELECT of bx_cache_hydrate fails, until the file is stored or pruned or    *)
(* the process starts again.                                                  *)
CacheIsTable == \A f \in FileIds : fileSum[f] = fileRow[f] \/ f \in unsure

(* A file that stays in Bexio has its row and its whole blob in the end, and  *)
(* one that is gone loses its row, unless the thread gave up or its DELETE    *)
(* belongs to a handle that was closed.  A row that CacheIsTable excepts may  *)
(* stay away, or stay: a file Bexio lists is stored again, since persist_file *)
(* looks for the row itself, but nobody looks for the row of one that is gone.*)
FilesFollow ==
  []<>(fpc = "exited" \/ \A f \in FileIds :
         IF files[f] = 0 THEN fileRow[f] = 0 \/ staleQuery \/ f \in unsure
         ELSE /\ fileRow[f] = files[f] \/ f \in unsure
              /\ f \in NoUuid \/ blob[f] = "whole")

-----------------------------------------------------------------------------
(* What the proofs add *)

(* The types of file_thread's variables. *)
FileTypeOK ==
  /\ files \in [FileIds -> 0..2] /\ fileRow \in [FileIds -> 0..2]
  /\ fileSum \in [FileIds -> 0..2] /\ age \in [FileIds -> 0..FileDrift]
  /\ blob \in [FileIds -> {"none", "short", "whole"}]
  /\ dotPart \in [FileIds -> {"none", "short", "whole"}]
  /\ fpc \in {"walk", "persist", "download", "write", "rename", "prune", "round", "exited"}
  /\ offset \in Nat /\ file \in FileIds \cup {0} /\ meta \in 0..2
  /\ fileError \in {"NoError", "Generic", "Reconnect"} /\ fileConn \in BOOLEAN
  /\ fileErrors \in Nat /\ staleQuery \in BOOLEAN
  /\ shown \subseteq FileIds /\ flushLost \subseteq FileIds /\ unsure \subseteq FileIds
  /\ fileEdits \in Nat /\ fileFaults \in Nat

(* A step for a file has the file and the metadata the page had of it. *)
HasFile == fpc \in {"persist", "download", "write", "rename"} => file \in shown /\ meta # 0

(* .part has something to rename: the whole file, unless the flush failed. *)
PartReady ==
  /\ fpc = "write" => dotPart[file] = "short"
  /\ fpc = "rename" => dotPart[file] = "whole" \/ (dotPart[file] = "short" /\ file \in flushLost)

(* cache_check_item marked what the walk showed and the cache has. *)
ShownSeen == \A f \in shown : fileSum[f] # 0 => age[f] = 0

(* What makes BlobsWhole, CacheIsTable and PruneSparesShown inductive:    *)
(* what .part holds on the way to rename, and that what the walk has shown    *)
(* has age 0 when bx_prune_items looks for files not seen.                    *)
FileInv == FileTypeOK /\ BlobsWhole /\ CacheIsTable /\ HasFile /\ PartReady /\ ShownSeen

=============================================================================
