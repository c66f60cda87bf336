--------------------------- MODULE SectorsProofs ---------------------------
(* Proofs about Sectors: contact_sector_thread marks no row too early, for    *)
(* every set of sectors and every number of edits and faults.                 *)
EXTENDS Sectors, TLAPS

LEMMA FaultType ==
  ASSUME SecTypeOK, SectorFault
  PROVE  sectorFaults' \in Nat
  BY DEF SecTypeOK, SectorFault

LEMMA NoneType == None \in [SectorIds -> 0 .. SectorVersionMax]
  <1>1. 0 \in 0 .. SectorVersionMax  BY SectorsAssumption
  <1>2. QED  BY <1>1 DEF None

(* What a statement does to the row, answered or not. *)
LEMMA UpsertType ==
  ASSUME SecInv, NEW id \in SectorIds, Upsert(id)
  PROVE  /\ sectorRow' \in [SectorIds -> 0 .. SectorVersionMax]
         /\ marked' \cup held \subseteq {s \in SectorIds : sectorRow'[s] # 0}
         /\ sectorRow'[id] = answer[id]
         /\ \A other \in SectorIds \ {id} : sectorRow'[other] = sectorRow[other]
  <1>1. answer[id] # 0  BY DEF Upsert, NextLeft, SecInv, LeftIs, Listed
  <1>2. QED  BY <1>1 DEF Upsert, SecInv, SecTypeOK

LEMMA MarkType ==
  ASSUME SecInv, NEW id \in SectorIds, Mark(id)
  PROVE  /\ sectorRow' = sectorRow /\ id \in held \ Listed
         /\ marked' \cup held \subseteq {s \in SectorIds : sectorRow[s] # 0}
  BY DEF Mark, NextLeft, SecInv, SecTypeOK, LeftIs

(* Every step keeps the types. *)
LEMMA TypeStep ==
  ASSUME SecInv, [SecNext]_secVars
  PROVE  SecTypeOK'
  <1> USE DEF SecTypeOK
  <1>0. SecTypeOK  BY DEF SecInv
  <1>1. CASE AskList  BY <1>0, <1>1, NoneType, FaultType DEF AskList
  <1>2. CASE AskListFails  BY <1>0, <1>2, FaultType DEF AskListFails, WalkEnds
  <1>3. CASE BeginDelete  BY <1>0, <1>3 DEF BeginDelete
  <1>4. CASE SectorSqlFails  BY <1>0, <1>4, FaultType DEF SectorSqlFails, WalkEnds
  <1>5. CASE SectorsDone  BY <1>0, <1>5 DEF SectorsDone, WalkEnds
  <1>6. CASE SectorRound
    <2>1. sectorFaults' \in Nat  BY <1>0, <1>6, FaultType DEF SectorRound
    <2>2. sectorConn' \in BOOLEAN /\ sectorErrors' \in Nat
      <3>1. sectorErrors' = 0 \/ sectorErrors' = sectorErrors + 1  BY <1>6, Zenon DEF SectorRound
      <3>2. sectorErrors \in Nat  BY <1>0
      <3>3. sectorConn' \in {sectorConn, TRUE, FALSE}  BY <1>6 DEF SectorRound
      <3>4. sectorErrors' \in Nat  BY <3>1, <3>2
      <3>5. QED  BY <1>0, <3>3, <3>4
    <2>3. spc' \in {"ask", "exited"} /\ sectorError' = "NoError"  BY <1>6 DEF SectorRound
    <2>4. QED  BY <1>0, <1>6, <2>1, <2>2, <2>3, NoneType DEF SectorRound
  <1>7. ASSUME NEW id \in SectorIds, StoreSector(id)
        PROVE  SecTypeOK'
    BY <1>0, <1>7, UpsertType DEF StoreSector
  <1>8. ASSUME NEW id \in SectorIds, MarkDeleted(id)
        PROVE  SecTypeOK'
    BY <1>0, <1>8, MarkType DEF MarkDeleted
  <1>9. ASSUME NEW id \in SectorIds, SectorAnswerLost(id)
        PROVE  SecTypeOK'
    <2>1. CASE Upsert(id)
      BY <1>0, <1>9, <2>1, UpsertType, FaultType DEF SectorAnswerLost, WalkEnds
    <2>2. CASE Mark(id)
      BY <1>0, <1>9, <2>2, MarkType, FaultType DEF SectorAnswerLost, WalkEnds
    <2>3. QED  BY <1>9, <2>1, <2>2 DEF SectorAnswerLost
  <1>10. ASSUME NEW id \in SectorIds, EditSector(id)
         PROVE  SecTypeOK'
    <2>1. sectors' \in [SectorIds -> 0 .. SectorVersionMax]
      BY <1>0, <1>10, SectorsAssumption DEF EditSector
    <2>2. QED  BY <1>0, <1>10, <2>1 DEF EditSector
  <1>11. CASE UNCHANGED secVars  BY <1>0, <1>11 DEF secVars
  <1>12. QED
    BY <1>1, <1>2, <1>3, <1>4, <1>5, <1>6, <1>7, <1>8, <1>9, <1>10, <1>11
       DEF SecNext, SecStep

(* Every step keeps what the walk has done and what is left of it. *)
LEMMA WalkStep ==
  ASSUME SecInv, [SecNext]_secVars
  PROVE  StoredSoFar' /\ LeftIs'
  <1> USE DEF SecInv, SecTypeOK, StoredSoFar, LeftIs, Listed
  <1>1. CASE AskList  BY <1>1, NoneType DEF AskList
  <1>2. CASE AskListFails  BY <1>2 DEF AskListFails, WalkEnds
  <1>3. CASE BeginDelete  BY <1>3 DEF BeginDelete
  <1>4. CASE SectorSqlFails  BY <1>4 DEF SectorSqlFails, WalkEnds
  <1>5. CASE SectorsDone  BY <1>5 DEF SectorsDone, WalkEnds
  <1>6. CASE SectorRound  BY <1>6 DEF SectorRound
  <1>7. CASE \E id \in SectorIds : StoreSector(id)
    BY <1>7, UpsertType DEF StoreSector, Upsert
  <1>8. CASE \E id \in SectorIds : MarkDeleted(id)  BY <1>8 DEF MarkDeleted, Mark
  <1>9. CASE \E id \in SectorIds : SectorAnswerLost(id)  BY <1>9 DEF SectorAnswerLost, WalkEnds
  <1>10. CASE \E id \in SectorIds : EditSector(id)  BY <1>10 DEF EditSector
  <1>11. CASE UNCHANGED secVars  BY <1>11 DEF secVars
  <1>12. QED
    BY <1>1, <1>2, <1>3, <1>4, <1>5, <1>6, <1>7, <1>8, <1>9, <1>10, <1>11
       DEF SecNext, SecStep

-----------------------------------------------------------------------------
(* contact_sector_thread knows at every step how far its walk has come.       *)
THEOREM SectorsInvariant == SecSpec => []SecInv
  <1>1. SecInit => SecInv
    <2> SUFFICES ASSUME SecInit PROVE SecInv  OBVIOUS
    <2>0. 0 \in 0 .. SectorVersionMax /\ 1 \in 0 .. SectorVersionMax  BY SectorsAssumption
    <2>1. {sectors, sectorRow, answer} \subseteq [SectorIds -> 0 .. SectorVersionMax]
      BY <2>0, NoneType DEF SecInit
    <2>2. SecTypeOK  BY <2>1 DEF SecInit, SecTypeOK
    <2>3. QED  BY <2>2 DEF SecInit, SecInv, StoredSoFar, LeftIs
  <1>2. SecInv /\ [SecNext]_secVars => SecInv'
    BY TypeStep, WalkStep DEF SecInv
  <1>3. QED  BY <1>1, <1>2, PTL DEF SecSpec

(* A row of contact_sector is marked _deleted only when the list that was     *)
(* read does not have it and every sector of that list is stored              *)
(* (bx_contact_sector_walk_items).                                            *)
THEOREM NoEarlyMark == SecSpec => MarkedAfterStored
  <1>1. SecInv /\ [SecNext]_secVars
          => [\A id \in marked' \ marked :
                id \notin Listed /\ \A other \in Listed : sectorRow[other] = answer[other]]_secVars
    <2> SUFFICES ASSUME SecInv, SecNext, NEW id \in marked' \ marked
                 PROVE  id \notin Listed /\ \A other \in Listed : sectorRow[other] = answer[other]
      OBVIOUS
    <2>1. CASE \E m \in SectorIds : Mark(m)
      <3>1. PICK m \in SectorIds : Mark(m)  BY <2>1
      <3>2. id = m /\ spc = "delete"  BY <3>1 DEF Mark
      <3>3. QED  BY <3>1, <3>2, MarkType DEF SecInv, StoredSoFar
    <2>2. CASE marked' \subseteq marked  BY <2>2
    <2>3. QED
      BY <2>1, <2>2
         DEF SecNext, SecStep, AskList, AskListFails, BeginDelete, SectorSqlFails, SectorsDone,
             SectorRound, StoreSector, MarkDeleted, SectorAnswerLost, Upsert, EditSector
  <1>2. QED  BY <1>1, SectorsInvariant, PTL DEF SecSpec, MarkedAfterStored

=============================================================================
