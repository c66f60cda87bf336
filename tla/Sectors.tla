------------------------------ MODULE Sectors ------------------------------
(* contact_sector_thread: the whole list of sectors is read with one request; *)
(* rows the list does not have are marked _deleted, never removed.            *)
EXTENDS Integers, FiniteSets

CONSTANTS SectorIds, MaxSectorEdits, MaxSectorFaults, SectorVersionMax, SectorExitMax

ASSUME SectorsAssumption ==
  /\ SectorIds \subseteq Int
  /\ {MaxSectorEdits, MaxSectorFaults, SectorExitMax} \subseteq Nat
  /\ SectorVersionMax \in Nat \ {0}

VARIABLES
  sectors,       \* Bexio: version of a sector, 0 when it is gone
  sectorRow,     \* contact_sector: version stored, or 0
  marked,        \* rows whose _deleted is set
  spc,           \* "ask", "store", "delete", "round" or "exited"
  answer,        \* the list at hand, as a function like sectors
  held,          \* `items`: rows that were not marked when the walk began
  left,          \* sectors still to work on in this step of the walk
  sectorError, sectorConn, sectorErrors,
  sectorEdits, sectorFaults

secVars == <<sectors, sectorRow, marked, spc, answer, held, left, sectorError,
             sectorConn, sectorErrors, sectorEdits, sectorFaults>>

None == [id \in SectorIds |-> 0]
Listed == {id \in SectorIds : answer[id] # 0}

SecInit ==
  /\ sectors = [id \in SectorIds |-> 1] /\ sectorRow = None /\ marked = {}
  /\ spc = "ask" /\ answer = None /\ held = {} /\ left = {}
  /\ sectorError = "NoError" /\ sectorConn = TRUE /\ sectorErrors = 0
  /\ sectorEdits = 0 /\ sectorFaults = 0

SectorFault == sectorFaults < MaxSectorFaults /\ sectorFaults' = sectorFaults + 1
WalkEnds(e) == spc' = "round" /\ sectorError' = e /\ left' = {}

(* Bexio: a sector is renamed, removed, or comes back as it was. *)
EditSector(id) ==
  /\ sectorEdits < MaxSectorEdits /\ sectorEdits' = sectorEdits + 1
  /\ \E v \in {0, 1, sectors[id] + 1} :
       v # sectors[id] /\ v <= SectorVersionMax /\ sectors' = [sectors EXCEPT ![id] = v]
  /\ UNCHANGED <<sectorRow, marked, spc, answer, held, left, sectorError,
                 sectorConn, sectorErrors, sectorFaults>>

(* The list, and the ids of the rows that are not marked.  A body that is not *)
(* a list counts as an empty one.                                             *)
AskList ==
  /\ spc = "ask" /\ sectorConn
  /\ \/ answer' = sectors /\ UNCHANGED sectorFaults
     \/ answer' = None /\ SectorFault
  /\ held' = {id \in SectorIds : sectorRow[id] # 0} \ marked
  /\ left' = {id \in SectorIds : answer'[id] # 0}
  /\ spc' = "store"
  /\ UNCHANGED <<sectors, sectorRow, marked, sectorError, sectorConn,
                 sectorErrors, sectorEdits>>

AskListFails ==
  /\ spc = "ask"
  /\ IF sectorConn THEN SectorFault ELSE UNCHANGED sectorFaults
  /\ \E e \in (IF sectorConn THEN {"Generic", "Reconnect"} ELSE {"Generic"}) : WalkEnds(e)
  /\ UNCHANGED <<sectors, sectorRow, marked, answer, held, sectorConn,
                 sectorErrors, sectorEdits>>

NextLeft(id) == id \in left /\ \A other \in left : id <= other

(* No row: INSERT.  The same checksum: nothing, whatever _deleted says.       *)
(* Another one: UPDATE, which clears _deleted.                                *)
Upsert(id) ==
  /\ spc = "store" /\ NextLeft(id)
  /\ sectorRow' = [sectorRow EXCEPT ![id] = answer[id]]
  /\ marked' = IF sectorRow[id] = answer[id] THEN marked ELSE marked \ {id}

StoreSector(id) ==
  /\ Upsert(id) /\ left' = left \ {id}
  /\ UNCHANGED <<sectors, spc, answer, held, sectorError, sectorConn,
                 sectorErrors, sectorEdits, sectorFaults>>

(* Mutant of BeginDelete: the loop over `items` ends one too early. *)
BeginDeleteButLast ==
  /\ spc = "store" /\ left = {}
  /\ spc' = "delete"
  /\ left' = {id \in held \ Listed : \E other \in held : other > id}
  /\ UNCHANGED <<sectors, sectorRow, marked, answer, held, sectorError,
                 sectorConn, sectorErrors, sectorEdits, sectorFaults>>

(* Every sector of the list was stored: the rows it does not have come next. *)
BeginDelete ==
  /\ spc = "store" /\ left = {}
  /\ spc' = "delete" /\ left' = held \ Listed
  /\ UNCHANGED <<sectors, sectorRow, marked, answer, held, sectorError,
                 sectorConn, sectorErrors, sectorEdits, sectorFaults>>

Mark(id) ==
  /\ spc = "delete" /\ NextLeft(id)
  /\ marked' = marked \cup {id} /\ UNCHANGED sectorRow

MarkDeleted(id) ==
  /\ Mark(id) /\ left' = left \ {id}
  /\ UNCHANGED <<sectors, spc, answer, held, sectorError,
                 sectorConn, sectorErrors, sectorEdits, sectorFaults>>

(* Mutant of SectorSqlFails: the sector is passed over and the walk goes on. *)
SectorSqlFailsGoesOn ==
  /\ spc \in {"store", "delete"} /\ SectorFault
  /\ \E id \in left : left' = left \ {id}
  /\ UNCHANGED <<sectors, sectorRow, marked, spc, answer, held, sectorError,
                 sectorConn, sectorErrors, sectorEdits>>

(* A statement fails, and the walk with it: nothing is marked before every    *)
(* listed sector was stored.  The UPDATE that marks rows is prepared whenever *)
(* there are `items`, even with none to mark.                                 *)
SectorSqlFails ==
  /\ spc \in {"store", "delete"} /\ SectorFault
  /\ left # {} \/ (spc = "delete" /\ held # {})
  /\ \E e \in {"Generic", "Reconnect"} : WalkEnds(e)
  /\ UNCHANGED <<sectors, sectorRow, marked, answer, held, sectorConn,
                 sectorErrors, sectorEdits>>

(* The server executes the statement and its answer is lost. *)
SectorAnswerLost(id) ==
  /\ (Upsert(id) \/ Mark(id)) /\ SectorFault /\ WalkEnds("Reconnect")
  /\ UNCHANGED <<sectors, answer, held, sectorConn, sectorErrors, sectorEdits>>

SectorsDone ==
  /\ spc = "delete" /\ left = {} /\ WalkEnds("NoError")
  /\ UNCHANGED <<sectors, sectorRow, marked, answer, held, sectorConn,
                 sectorErrors, sectorEdits, sectorFaults>>

(* thread_handle_error, and the count of walks that failed. *)
SectorRound ==
  /\ spc = "round"
  /\ \/ /\ sectorError = "NoError" /\ UNCHANGED sectorConn
        /\ sectorErrors' = 0 /\ spc' = "ask"
        /\ UNCHANGED sectorFaults
     \/ /\ \/ sectorError = "Reconnect" /\ UNCHANGED sectorFaults
           \/ sectorError = "Generic" /\ sectorConn /\ SectorFault
        /\ sectorConn' = TRUE /\ sectorErrors' = 0 /\ spc' = "ask"
     \/ /\ sectorError # "NoError"
        /\ sectorConn' = IF sectorError = "Reconnect" THEN FALSE ELSE sectorConn
        /\ sectorErrors' = sectorErrors + 1 /\ UNCHANGED sectorFaults
        /\ spc' = IF sectorErrors > SectorExitMax THEN "exited" ELSE "ask"
  /\ sectorError' = "NoError" /\ answer' = None /\ held' = {} /\ left' = {}
  /\ UNCHANGED <<sectors, sectorRow, marked, sectorEdits>>

SecStep ==
  \/ AskList \/ AskListFails \/ BeginDelete \/ SectorSqlFails \/ SectorsDone
  \/ SectorRound
  \/ \E id \in SectorIds : StoreSector(id) \/ MarkDeleted(id) \/ SectorAnswerLost(id)

SecNext == SecStep \/ \E id \in SectorIds : EditSector(id)
SecSpec == SecInit /\ [][SecNext]_secVars /\ WF_secVars(SecStep)

-----------------------------------------------------------------------------
(* Properties *)

(* What Bexio lists is stored with its last content, and a sector that is     *)
(* gone is marked, whatever requests and statements failed before, unless the *)
(* thread gave up (bx_contact_sector_walk_items).                             *)
SectorsFollow ==
  []<>(spc = "exited" \/ \A id \in SectorIds :
         IF sectors[id] = 0 THEN sectorRow[id] = 0 \/ id \in marked
         ELSE sectorRow[id] = sectors[id])

(* A row is marked only by a walk that read a list without it and stored      *)
(* every sector of that list: a walk that fails before that marks nothing.    *)
MarkedAfterStored ==
  [][\A id \in marked' \ marked :
       id \notin Listed /\ \A other \in Listed : sectorRow[other] = answer[other]]_secVars

(* "If they are found on the remote side, we set deleted to false"            *)
(* (contact_sector.c): a sector Bexio lists does not stay marked.             *)
ListedNotMarked ==
  \A id \in SectorIds :
    []<>(spc = "exited" \/ sectors[id] = 0 \/ id \notin marked)

-----------------------------------------------------------------------------
(* What the proofs add *)

(* The types of contact_sector_thread's variables; what is marked are rows. *)
SecTypeOK ==
  /\ {sectors, sectorRow, answer} \subseteq [SectorIds -> 0 .. SectorVersionMax]
  /\ marked \cup held \subseteq {id \in SectorIds : sectorRow[id] # 0}
  /\ left \subseteq SectorIds
  /\ spc \in {"ask", "store", "delete", "round", "exited"}
  /\ sectorError \in {"NoError", "Generic", "Reconnect"} /\ sectorConn \in BOOLEAN
  /\ {sectorErrors, sectorEdits, sectorFaults} \subseteq Nat

(* Sectors of the list that are no longer left have their row. *)
StoredSoFar ==
  spc \in {"store", "delete"} =>
    \A id \in Listed : sectorRow[id] = answer[id] \/ (spc = "store" /\ id \in left)

(* What is left to store is in the list; what is left to mark are rows the    *)
(* walk found and the list does not have.                                     *)
LeftIs ==
  /\ spc = "store" => left \subseteq Listed
  /\ spc = "delete" => left \subseteq held \ Listed

(* What makes MarkedAfterStored inductive: how far the walk has come. *)
SecInv == SecTypeOK /\ StoredSoFar /\ LeftIs

=============================================================================
