-------------------------- MODULE SyncChainProofs --------------------------
(* Safety of the sync chain for every set of ids, page size, drift and bound. *)
EXTENDS SyncChain, TLAPS

(* What the thread and Bexio do to the variables TypeOK speaks of, action by  *)
(* action: the type invariant is inductive.                                   *)
LEMMA InitType == Init => TypeOK
  <1> SUFFICES ASSUME Init PROVE TypeOK
    OBVIOUS
  <1>1. remote \in [Resource -> [Ids -> Status]]
    <2>1. {"unborn", "live"} \subseteq Status
      BY DEF Status
    <2> QED BY <2>1 DEF Init
  <1>2. seen \in [Resource -> [Ids -> -1 .. VersionMax - 1]]
    BY BoundsAssumption DEF Init, NotCached
  <1>3. /\ stored \in Cursor /\ cursor \in Cursor
        /\ result \in [error : Error, bump : SUBSET Resource,
                       prune : Resource \cup {"none"}]
    BY DEF Init, Cursor, Phase, Error
  <1>4. version \in [Resource -> 1 .. VersionMax - 1]
    BY BoundsAssumption DEF Init
  <1>5. /\ contact_from_zero \in BOOLEAN /\ invoice_from_zero \in BOOLEAN
        /\ from_zero \in BOOLEAN
    BY DEF Init
  <1>6. /\ table \in [Resource -> SUBSET Ids]
        /\ listed \in [Resource -> SUBSET Ids] /\ covered \in [Phase -> SUBSET Ids]
    BY DEF Init
  <1>7. /\ iter \in Ids \cup {0} /\ page \in SUBSET Ids
        /\ error_counter \in 0 .. ExitMax + 1
        /\ faults \in 0 .. MaxFaults /\ creates \in 0 .. MaxCreates
        /\ removals \in 0 .. MaxRemovals
    BY BoundsAssumption DEF Init
  <1>8. /\ pc \in {"down", "top", "walk", "items", "checkpoint", "missed",
                   "prune", "handle", "exited"}
        /\ conn \in {"up", "null"} /\ stmt \in {"bound", "stale"}
    BY DEF Init
  <1> QED BY <1>1, <1>2, <1>3, <1>4, <1>5, <1>6, <1>7, <1>8 DEF TypeOK

LEMMA BexioType == TypeOK /\ BexioNext => TypeOK'
  <1> SUFFICES ASSUME TypeOK, NEW r \in Resource, NEW id \in Members(r),
                      \/ Create(r, id)
                      \/ \E status \in Status : Remove(r, id, status)
               PROVE  TypeOK'
    BY DEF BexioNext
  <1>0. id \in Ids
    BY DEF Members, Ids, Resource
  <1>1. CASE Create(r, id)
    <2>1. covered' \in [Phase -> SUBSET Ids]
      BY <1>0, <1>1 DEF Create, TypeOK
    <2> QED BY <1>0, <1>1, <2>1, BoundsAssumption
            DEF Create, SetStatus, BexioUnchanged, TypeOK, Status, flags, cache, link
  <1>2. CASE \E status \in Status : Remove(r, id, status)
    BY <1>0, <1>2, BoundsAssumption
    DEF Remove, SetStatus, BexioUnchanged, TypeOK, Status, flags, cache, link,
        history
  <1> QED BY <1>1, <1>2

LEMMA ResIsResource == TypeOK => Res \in Resource
  BY DEF TypeOK, Cursor, Phase, Res, ResourceOf, Resource

LEMMA PageInList == ASSUME NEW S, NEW offset PROVE Page(S, offset) \subseteq S
  BY DEF Page

LEMMA ListInIds == ASSUME NEW phase PROVE List(phase) \subseteq Ids
  BY DEF List

LEMMA SyncItemsType ==
  ASSUME TypeOK, NEW r \in Resource, NEW ids, NEW kept, NEW torn,
         kept \subseteq Ids, torn \subseteq Ids, SyncItems(r, ids, kept, torn)
  PROVE  /\ table' \in [Resource -> SUBSET Ids]
         /\ seen' \in [Resource -> [Ids -> -1 .. VersionMax - 1]]
         /\ version' = version /\ doubtful' = doubtful
  <1>1. table' \in [Resource -> SUBSET Ids]
    BY DEF SyncItems, TypeOK
  <1>2. version[r] \in -1 .. VersionMax - 1
    BY BoundsAssumption DEF TypeOK
  <1>3. [id \in Ids |-> IF id \in kept \/ (id \in ids /\ seen[r][id] > 0)
                       THEN version[r] ELSE seen[r][id]]
          \in [Ids -> -1 .. VersionMax - 1]
    BY <1>2 DEF TypeOK
  <1>4. seen' \in [Resource -> [Ids -> -1 .. VersionMax - 1]]
    BY <1>3 DEF SyncItems, TypeOK
  <1> QED BY <1>1, <1>4 DEF SyncItems

LEMMA NextVersionType ==
  ASSUME TypeOK, NEW bump, cache_next_version(bump)
  PROVE  /\ version' \in [Resource -> 1 .. VersionMax - 1]
         /\ seen' \in [Resource -> [Ids -> -1 .. VersionMax - 1]]
  <1>1. version' \in [Resource -> 1 .. VersionMax - 1]
    <2> SUFFICES ASSUME NEW r \in Resource
                 PROVE  (IF r \notin bump THEN version[r]
                         ELSE IF Wraps(r) THEN 1 ELSE version[r] + 1)
                           \in 1 .. VersionMax - 1
      BY DEF cache_next_version
    <2>1. version[r] \in 1 .. VersionMax - 1
      BY DEF TypeOK
    <2> QED BY <2>1, BoundsAssumption DEF Wraps
  <1>2. seen' \in [Resource -> [Ids -> -1 .. VersionMax - 1]]
    <2>1. ASSUME NEW r \in Resource
          PROVE  /\ seen[r] \in [Ids -> -1 .. VersionMax - 1]
                 /\ [id \in Ids |-> IF seen[r][id] = NotCached THEN NotCached
                                    ELSE 1] \in [Ids -> -1 .. VersionMax - 1]
      BY BoundsAssumption DEF TypeOK, NotCached
    <2> QED BY <2>1 DEF cache_next_version
  <1> QED BY <1>1, <1>2

LEMMA FinishType ==
  ASSUME TypeOK, NEW next \in Phase, NEW bump \in SUBSET Resource,
         NEW prune \in BOOLEAN, Finish(next, bump, prune),
         contact_from_zero' \in BOOLEAN, invoice_from_zero' \in BOOLEAN
  PROVE  TypeOK'
  <1> PICK saved \in BOOLEAN :
        /\ cursor' = [phase |-> next, offset |-> 0]
        /\ IF saved THEN stored' = cursor' /\ UNCHANGED faults
                    ELSE stored' \in {stored, cursor'} /\ Fault
        /\ result' = [error |-> IF saved THEN "None" ELSE "Generic",
                      bump |-> IF saved THEN bump ELSE {Res},
                      prune |-> IF saved /\ prune THEN Res ELSE "none"]
        /\ pc' = IF saved /\ prune THEN "prune" ELSE "handle"
        /\ iter' = 0
        /\ UNCHANGED <<bexio, table, from_zero, cache, page, link, history>>
    BY DEF Finish
  <1>1. cursor' \in Cursor /\ stored' \in Cursor
    BY DEF Cursor, TypeOK
  <1>2. faults' \in 0 .. MaxFaults
    BY BoundsAssumption DEF TypeOK, Fault
  <1>3. result' \in [error : Error, bump : SUBSET Resource,
                    prune : Resource \cup {"none"}]
    BY ResIsResource DEF Error
  <1> QED BY <1>1, <1>2, <1>3
          DEF TypeOK, bexio, history, flags, cache, link

LEMMA SyncItemsEffect ==
  ASSUME TypeOK, NEW r \in Resource, NEW ids, NEW kept, NEW torn,
         SyncItems(r, ids, kept, torn),
         NEW s \in Resource, NEW id \in Ids
  PROVE  /\ id \in table'[s] <=> \/ id \in table[s]
                                 \/ s = r /\ id \in kept \cup torn
         /\ seen'[s][id] =
              IF s = r /\ (id \in kept \/ (id \in ids /\ seen[r][id] > 0))
              THEN version[r] ELSE seen[s][id]
  BY DEF SyncItems, TypeOK

(* One item of the answer at hand is worked through, or stops the page.       *)
ItemStep == \E id \in Ids : ItemSynced(id) \/ ItemSkipped(id) \/ ItemFails(id)

(* It touches the rows and marks of that item only.                           *)
LEMMA ItemEffect ==
  ASSUME TypeOK, ItemStep
  PROVE  \E ids, kept, torn :
           /\ SyncItems(Res, ids, kept, torn)
           /\ kept \subseteq Members(Res) /\ torn \subseteq Members(Res)
           /\ kept \subseteq page /\ torn \subseteq page
           /\ \A id \in kept \cup torn : RefsPresent(Res, id)
           /\ pc = "items" /\ UNCHANGED <<remote, cursor, flags>>
           /\ page' \subseteq page /\ (pc' # "items" => page' = {})
           /\ \/ pc' = "handle"
              \/ /\ pc' \in {"items", "checkpoint"}
                 /\ listed' = [listed EXCEPT ![Res] = @ \cup ids]
  <1>1. PICK id \in Ids : ItemSynced(id) \/ ItemSkipped(id) \/ ItemFails(id)
    BY DEF ItemStep
  <1>2. /\ Fresh(Res, {id}) \subseteq Members(Res) /\ Fresh(Res, {id}) \subseteq {id}
        /\ \A other \in Fresh(Res, {id}) : RefsPresent(Res, other)
    BY DEF Fresh
  <1>3. pc = "items" /\ id \in page
    BY <1>1 DEF ItemSynced, ItemSkipped, ItemFails, AtItem
  <1>4. ASSUME NEW ids, NEW kept \in SUBSET Fresh(Res, {id}),
               NEW torn \in SUBSET Fresh(Res, {id})
        PROVE  /\ kept \subseteq Members(Res) /\ torn \subseteq Members(Res)
               /\ kept \subseteq page /\ torn \subseteq page
               /\ \A other \in kept \cup torn : RefsPresent(Res, other)
    BY <1>2, <1>3
  <1>5. ItemPassed(id) => /\ UNCHANGED <<remote, cursor, flags>>
                          /\ page' \subseteq page /\ (pc' # "items" => page' = {})
                          /\ pc' \in {"items", "checkpoint"}
                          /\ listed' = [listed EXCEPT ![Res] = @ \cup {id}]
    BY DEF ItemPassed, bexio
  <1>6. CASE ItemSynced(id)
    <2>1. PICK kept \in SUBSET Fresh(Res, {id}) : SyncItems(Res, {id}, kept, {})
      BY <1>6 DEF ItemSynced
    <2>2. ItemPassed(id) /\ {} \in SUBSET Fresh(Res, {id})
      BY <1>6 DEF ItemSynced
    <2> WITNESS {id}, kept, {}
    <2> QED BY <1>3, <1>4, <1>5, <2>1, <2>2
  <1>7. CASE ItemSkipped(id)
    <2>1. PICK torn \in SUBSET Fresh(Res, {id}) : SyncItems(Res, {id}, {}, torn)
      BY <1>7 DEF ItemSkipped
    <2>2. ItemPassed(id) /\ {} \in SUBSET Fresh(Res, {id})
      BY <1>7 DEF ItemSkipped
    <2> WITNESS {id}, {}, torn
    <2> QED BY <1>3, <1>4, <1>5, <2>1, <2>2
  <1>8. CASE ItemFails(id)
    <2>1. PICK error, item :
            /\ SyncItems(Res, IF item = "done" THEN {id} ELSE {},
                         IF item = "done" THEN Fresh(Res, {id}) ELSE {},
                         IF item = "torn" THEN Fresh(Res, {id}) ELSE {})
            /\ FailResource(error, {Res})
      BY <1>8 DEF ItemFails
    <2>2. PICK ids, kept, torn : /\ SyncItems(Res, ids, kept, torn)
                                 /\ kept \in SUBSET Fresh(Res, {id})
                                 /\ torn \in SUBSET Fresh(Res, {id})
      BY <2>1
    <2>4. pc' = "handle" /\ page' = {} /\ UNCHANGED <<remote, cursor, flags>>
      BY <1>8, <2>1 DEF ItemFails, FailResource, bexio
    <2> WITNESS ids, kept, torn
    <2> QED BY <1>3, <1>4, <2>2, <2>4
  <1> QED BY <1>1, <1>6, <1>7, <1>8

(* The steps of a walk and of the missed pass. *)
LEMMA SyncType ==
  ASSUME TypeOK,
         \/ CallSync \/ CallSyncNoConn \/ FetchPage \/ FetchFails
         \/ ItemStep \/ Checkpoint \/ CheckpointFails
         \/ FinishActive \/ FinishArchived \/ FinishProject
         \/ FinishInvoiceList \/ FinishMissed
         \/ \E id \in Ids : \/ MissedGet(id) \/ MissedGetFails(id)
                           \/ MissedItemFails(id)
  PROVE  TypeOK'
  <1> USE BoundsAssumption, ResIsResource
  <1>1. CASE CallSync
    <2>1. from_zero' \in BOOLEAN /\ contact_from_zero' \in BOOLEAN
            /\ invoice_from_zero' \in BOOLEAN
      BY <1>1 DEF CallSync
    <2>2. listed' \in [Resource -> SUBSET Ids] /\ covered' \in [Phase -> SUBSET Ids]
      BY <1>1 DEF CallSync, TypeOK
    <2> QED BY <1>1, <2>1, <2>2 DEF CallSync, TypeOK, bexio, history, cache, link
  <1>2. CASE CallSyncNoConn
    BY <1>2 DEF CallSyncNoConn, FailResource, TypeOK, bexio, history, flags, cache, link,
                Error
  <1>3. CASE FetchPage
    <2>1. page' \in SUBSET Ids
      BY <1>3, PageInList, ListInIds DEF FetchPage, NextPage
    <2> QED BY <1>3, <2>1 DEF FetchPage, TypeOK, bexio, history, flags, cache, link
  <1>4. CASE ItemStep
    <2>1. PICK id \in Ids : ItemSynced(id) \/ ItemSkipped(id) \/ ItemFails(id)
      BY <1>4 DEF ItemStep
    <2>2. PICK ids, kept, torn : /\ SyncItems(Res, ids, kept, torn)
                                 /\ kept \subseteq page /\ torn \subseteq page
      BY <1>4, ItemEffect
    <2>3. /\ table' \in [Resource -> SUBSET Ids]
          /\ seen' \in [Resource -> [Ids -> -1 .. VersionMax - 1]]
          /\ version' = version
      <3>1. kept \subseteq Ids /\ torn \subseteq Ids
        BY <2>2 DEF TypeOK
      <3> QED BY <2>2, <3>1, SyncItemsType
    <2>4. faults' \in 0 .. MaxFaults
      BY <2>1 DEF ItemSynced, ItemSkipped, ItemFails, Fault, TypeOK
    <2>5. CASE ItemPassed(id)
      <3>1. /\ listed' \in [Resource -> SUBSET Ids]
            /\ covered' \in [Phase -> SUBSET Ids]
        BY <2>5 DEF ItemPassed, TypeOK
      <3> QED BY <2>3, <2>4, <2>5, <3>1
              DEF ItemPassed, TypeOK, bexio, flags, link
    <2>6. CASE ItemFails(id)
      <3>1. /\ \E error \in {"Generic", "Reconnect"} : FailResource(error, {Res})
            /\ UNCHANGED <<bexio, stored, cursor, flags, iter, link, history>>
        BY <2>6 DEF ItemFails
      <3> QED BY <2>3, <2>4, <3>1
              DEF FailResource, TypeOK, Error, bexio, flags, link, history
    <2> QED BY <2>1, <2>5, <2>6 DEF ItemSynced, ItemSkipped
  <1>7. CASE FetchFails
    BY <1>7 DEF FetchFails, FailResource, Fault, TypeOK, bexio, history, flags, cache,
                link, Error
  <1>9. CASE Checkpoint
    <2>1. [cursor EXCEPT !.offset = @ + PageSize] \in Cursor
      <3>1. cursor \in [phase : Phase, offset : Nat]
        BY DEF TypeOK, Cursor
      <3>2. cursor.offset + PageSize \in Nat
        BY <3>1
      <3> QED BY <3>1, <3>2 DEF Cursor
    <2> QED BY <1>9, <2>1 DEF Checkpoint, TypeOK, bexio, history, flags, cache, link
  <1>10. CASE CheckpointFails
    <2>1. stored' \in Cursor
      <3>1. cursor \in [phase : Phase, offset : Nat] /\ stored \in Cursor
        BY DEF TypeOK, Cursor
      <3>2. cursor.offset + PageSize \in Nat
        BY <3>1
      <3>3. [cursor EXCEPT !.offset = @ + PageSize] \in Cursor
        BY <3>1, <3>2 DEF Cursor
      <3> QED BY <1>10, <3>1, <3>3 DEF CheckpointFails
    <2>2. faults' \in 0 .. MaxFaults
      BY <1>10 DEF CheckpointFails, Fault, TypeOK
    <2> QED BY <1>10, <2>1, <2>2 DEF CheckpointFails, FailResource, Fault, TypeOK, bexio, history, flags,
                 cache, link, Error
  <1>11. /\ contact_from_zero \in BOOLEAN /\ invoice_from_zero \in BOOLEAN
         /\ from_zero \in BOOLEAN
    BY DEF TypeOK
  <1>12. /\ {"contact-archived", "project", "invoice-list", "invoice-missed",
             "contact-active"} \subseteq Phase
         /\ {"contact", "project", "invoice"} \subseteq Resource
    BY DEF Phase, Resource
  <1>13. CASE FinishActive
    BY <1>11, <1>12, <1>13, FinishType DEF FinishActive
  <1>14. CASE FinishArchived
    BY <1>11, <1>12, <1>14, FinishType DEF FinishArchived
  <1>15. CASE FinishProject
    BY <1>11, <1>12, <1>15, FinishType DEF FinishProject
  <1>16. CASE FinishInvoiceList
    BY <1>11, <1>12, <1>16, FinishType DEF FinishInvoiceList
  <1>17. CASE FinishMissed
    BY <1>11, <1>12, <1>17, FinishType DEF FinishMissed
  <1>18. ASSUME NEW id \in Ids, MissedGet(id) PROVE TypeOK'
    <2>1. /\ table' \in [Resource -> SUBSET Ids]
          /\ seen' \in [Resource -> [Ids -> -1 .. VersionMax - 1]]
          /\ version' = version
      <3>1. CASE remote["invoice"][id] = "live"
        <4>1. SyncItems("invoice", {id}, {}, {})
          BY <1>18, <3>1 DEF MissedGet
        <4> QED BY <1>12, <4>1, SyncItemsType
      <3>2. CASE remote["invoice"][id] # "live"
        BY <1>18, <3>2 DEF MissedGet, cache, TypeOK
      <3> QED BY <3>1, <3>2
    <2> QED BY <1>18, <2>1 DEF MissedGet, TypeOK, bexio, history, flags, link
  <1>19. ASSUME NEW id \in Ids, MissedGetFails(id) PROVE TypeOK'
    BY <1>12, <1>19 DEF MissedGetFails, FailResource, Fault, TypeOK, bexio, history, flags,
                        cache, link, Error
  <1>20. ASSUME NEW id \in Ids, MissedItemFails(id) PROVE TypeOK'
    <2>1. /\ table' \in [Resource -> SUBSET Ids]
          /\ seen' \in [Resource -> [Ids -> -1 .. VersionMax - 1]]
          /\ version' = version
      <3>1. SyncItems("invoice", {id}, {}, {})
        BY <1>20 DEF MissedItemFails
      <3> QED BY <1>12, <3>1, SyncItemsType
    <2>2. result' \in [error : Error, bump : SUBSET Resource,
                      prune : Resource \cup {"none"}]
      BY <1>12, <1>20 DEF MissedItemFails, FailResource, Error
    <2> QED BY <1>20, <2>1, <2>2 DEF MissedItemFails, FailResource, Fault, TypeOK,
                                     bexio, history, flags, link
  <1> QED BY <1>1, <1>2, <1>3, <1>4, <1>7, <1>9, <1>10, <1>13, <1>14,
             <1>15, <1>16, <1>17, <1>18, <1>19, <1>20

(* The steps of a prune, of the end of the loop body, and of the process.     *)
LEMMA LoopType ==
  ASSUME TypeOK, pc = "prune" => result.prune # "none",
         \/ \E id \in Ids : PruneDelete(id) \/ PruneFails(id) \/ PruneAnswerLost(id)
         \/ PruneDone \/ HandleOk \/ HandleError \/ HandleReconnect
         \/ HandleReconnectFails \/ RebuildFails \/ Crash \/ Start
         \/ StartFails
  PROVE  TypeOK'
  <1> USE BoundsAssumption
  <1>1. pc = "prune" => result.prune \in Resource
    BY DEF TypeOK
  <1>2. ASSUME NEW id \in Ids, PruneDelete(id) PROVE TypeOK'
    <2>1. table' \in [Resource -> SUBSET Ids]
      BY <1>2 DEF PruneDelete, Delete, TypeOK
    <2>2. seen' \in [Resource -> [Ids -> -1 .. VersionMax - 1]]
      BY <1>1, <1>2 DEF PruneDelete, TypeOK
    <2> QED BY <1>2, <2>1, <2>2 DEF PruneDelete, TypeOK, bexio, history, flags, link
  <1>3. ASSUME NEW id \in Ids, PruneFails(id) PROVE TypeOK'
    <2>1. PICK error \in {"Generic", "Reconnect"} :
            /\ UNCHANGED faults \/ Fault
            /\ result' = [result EXCEPT !.error = error]
      BY <1>3 DEF PruneFails
    <2>2. result' \in [error : Error, bump : SUBSET Resource,
                      prune : Resource \cup {"none"}]
      BY <2>1 DEF TypeOK, Error
    <2>3. faults' \in 0 .. MaxFaults
      BY <2>1 DEF Fault, TypeOK
    <2> QED BY <1>3, <2>2, <2>3 DEF PruneFails, TypeOK, bexio, history, flags, cache, link
  <1>4. CASE PruneDone
    <2>1. [id \in Ids |-> IF seen[result.prune][id] = 0 THEN NotCached
                         ELSE seen[result.prune][id]]
            \in [Ids -> -1 .. VersionMax - 1]
      BY <1>1, <1>4 DEF PruneDone, TypeOK, NotCached
    <2>2. seen' \in [Resource -> [Ids -> -1 .. VersionMax - 1]]
      BY <1>4, <2>1 DEF PruneDone, TypeOK
    <2> QED BY <1>4, <2>2 DEF PruneDone, TypeOK, bexio, history, flags, link
  <1>5. ASSUME Bumped \/ UNCHANGED <<cache>>
        PROVE  /\ version' \in [Resource -> 1 .. VersionMax - 1]
               /\ seen' \in [Resource -> [Ids -> -1 .. VersionMax - 1]]
    BY <1>5, NextVersionType DEF Bumped, cache, TypeOK
  <1>6. CASE HandleOk
    BY <1>5, <1>6 DEF HandleOk, HandleUnchanged, Bumped, TypeOK, bexio, history, flags
  <1>7. ASSUME CountError
        PROVE  /\ error_counter' \in 0 .. ExitMax + 1
               /\ pc' \in {"top", "exited"}
               /\ version' \in [Resource -> 1 .. VersionMax - 1]
               /\ seen' \in [Resource -> [Ids -> -1 .. VersionMax - 1]]
    <2>1. error_counter' \in 0 .. ExitMax + 1 /\ pc' \in {"top", "exited"}
      BY <1>7 DEF CountError, Bumped, TypeOK
    <2>2. Bumped \/ UNCHANGED <<cache>>
      BY <1>7 DEF CountError
    <2> QED BY <1>5, <2>1, <2>2
  <1>8. CASE HandleError
    BY <1>7, <1>8 DEF HandleError, HandleUnchanged, TypeOK, bexio, history, flags
  <1>9. CASE HandleReconnect
    <2>1. faults' \in 0 .. MaxFaults /\ stmt' \in {"bound", "stale"}
      BY <1>9 DEF HandleReconnect, Fault, TypeOK
    <2> QED BY <1>5, <1>9, <2>1
            DEF HandleReconnect, HandleUnchanged, Bumped, TypeOK, bexio, history, flags
  <1>10. CASE HandleReconnectFails
    BY <1>7, <1>10 DEF HandleReconnectFails, HandleUnchanged, Fault, TypeOK,
                       bexio, history, flags
  <1>11. CASE RebuildFails
    BY <1>11 DEF RebuildFails, HandleUnchanged, Fault, TypeOK, bexio, history, flags, cache
  <1>12. CASE Crash
    BY <1>12 DEF Crash, Fault, TypeOK, bexio, history, flags, cache, link
  <1>13. CASE StartFails
    BY <1>13 DEF StartFails, Fault, TypeOK, bexio, history, flags, cache, link
  <1>14. CASE Start
    <2>1. /\ seen' \in [Resource -> [Ids -> -1 .. VersionMax - 1]]
          /\ faults' \in 0 .. MaxFaults
      <3>1. PICK failed \in {{}} \cup {{r} : r \in Resource} :
              /\ IF failed = {} /\ cursor' = stored THEN UNCHANGED faults ELSE Fault
              /\ seen' = [r \in Resource |-> [id \in Ids |->
                   IF id \in table[r] /\ r \notin failed THEN 1 ELSE NotCached]]
        BY <1>14 DEF Start
      <3> QED BY <3>1 DEF NotCached, Fault, TypeOK
    <2>2. version' \in [Resource -> 1 .. VersionMax - 1]
      BY <1>14 DEF Start
    <2>3. result' \in [error : Error, bump : SUBSET Resource,
                      prune : Resource \cup {"none"}]
      BY <1>14 DEF Start, Error
    <2>4. /\ contact_from_zero' \in BOOLEAN /\ invoice_from_zero' \in BOOLEAN
          /\ from_zero' \in BOOLEAN
      BY <1>14 DEF Start
    <2>5. /\ UNCHANGED <<remote, creates, removals, table, stored, page, listed,
                         covered>>
          /\ iter' = 0 /\ pc' = "top"
          /\ conn' = "up" /\ stmt' = "bound" /\ error_counter' = 0
      BY <1>14 DEF Start, bexio, history
    <2>6. cursor' \in Cursor
      BY <1>14 DEF Start, TypeOK, Cursor, Phase
    <2> QED BY <2>1, <2>2, <2>3, <2>4, <2>5, <2>6 DEF TypeOK
  <1>15. ASSUME NEW id \in Ids, PruneAnswerLost(id) PROVE TypeOK'
    <2>1. table' \in [Resource -> SUBSET Ids]
      BY <1>15 DEF PruneAnswerLost, Delete, TypeOK
    <2>2. result' \in [error : Error, bump : SUBSET Resource,
                      prune : Resource \cup {"none"}]
      BY <1>15 DEF PruneAnswerLost, TypeOK, Error
    <2>3. faults' \in 0 .. MaxFaults
      BY <1>15 DEF PruneAnswerLost, Fault, TypeOK
    <2>4. /\ UNCHANGED <<bexio, stored, cursor, flags, version, seen, iter, page,
                         link, history>>
          /\ pc' = "handle"
      BY <1>15 DEF PruneAnswerLost
    <2> QED BY <2>1, <2>2, <2>3, <2>4 DEF TypeOK, bexio, history, flags, link
  <1> QED BY <1>2, <1>3, <1>4, <1>6, <1>8, <1>9, <1>10, <1>11, <1>12, <1>13,
             <1>14, <1>15

-----------------------------------------------------------------------------
(* What the shared parts of the actions do, id by id.                         *)

LEMMA NextVersionEffect ==
  ASSUME TypeOK, NEW bump, cache_next_version(bump),
         NEW r \in Resource, NEW id \in Ids
  PROVE  /\ seen'[r][id] = NotCached <=> seen[r][id] = NotCached
         /\ r \notin doubtful' => r \notin doubtful /\ seen'[r][id] = seen[r][id]
  <1>1. seen'[r][id] = IF r \in bump /\ Wraps(r)
                       THEN IF seen[r][id] = NotCached THEN NotCached ELSE 1
                       ELSE seen[r][id]
    BY DEF cache_next_version
  <1>2. doubtful' = doubtful \cup {s \in bump : Wraps(s)}
    BY DEF cache_next_version
  <1> QED BY <1>1, <1>2 DEF NotCached

(* Which steps leave the rows and the caches alone, and which steps lead to   *)
(* the missed pass, to a walk and to a prune.                                 *)
LEMMA HandleSteps ==
  ASSUME HandleOk \/ HandleError \/ HandleReconnect \/ HandleReconnectFails
           \/ RebuildFails
  PROVE  /\ pc' \in {"top", "exited"} /\ UNCHANGED <<remote, table>>
         /\ UNCHANGED cache \/ \E bump : cache_next_version(bump)
  BY DEF HandleOk, HandleError, HandleReconnect, HandleReconnectFails,
         RebuildFails, HandleUnchanged, Bumped, CountError, bexio, history

LEMMA FinishSteps ==
  ASSUME FinishActive \/ FinishArchived \/ FinishProject
           \/ FinishInvoiceList \/ FinishMissed
  PROVE  /\ UNCHANGED <<remote, table, cache, listed>>
         /\ pc' \in {"prune", "handle"}
         /\ pc' = "prune" =>
              /\ result'.prune = Res
              /\ \/ FinishArchived
                 \/ FinishProject /\ from_zero
                 \/ FinishMissed
  <1>1. ASSUME NEW next, NEW bump, NEW prune, Finish(next, bump, prune)
        PROVE  /\ UNCHANGED <<remote, table, cache, listed>>
               /\ pc' \in {"prune", "handle"}
               /\ pc' = "prune" => result'.prune = Res /\ prune
    BY <1>1 DEF Finish, bexio, history
  <1>2. CASE FinishActive
    BY <1>1, <1>2 DEF FinishActive
  <1>3. CASE FinishArchived
    BY <1>1, <1>3 DEF FinishArchived
  <1>4. CASE FinishProject
    BY <1>1, <1>4 DEF FinishProject
  <1>5. CASE FinishInvoiceList
    BY <1>1, <1>5 DEF FinishInvoiceList
  <1>6. CASE FinishMissed
    BY <1>1, <1>6 DEF FinishMissed
  <1> QED BY <1>2, <1>3, <1>4, <1>5, <1>6

LEMMA QuietSteps ==
  ASSUME \/ CallSync \/ CallSyncNoConn \/ FetchPage \/ FetchFails \/ Checkpoint
         \/ CheckpointFails \/ Crash \/ StartFails
         \/ \E id \in Ids : MissedGetFails(id) \/ PruneFails(id)
         \/ UNCHANGED vars
  PROVE  UNCHANGED <<remote, table, cache>>
  BY DEF CallSync, CallSyncNoConn, FetchPage, FetchFails, Checkpoint,
         CheckpointFails, Crash, StartFails, MissedGetFails, PruneFails, vars, bexio, history

(* The next-state relation, grouped the way the lemmas above treat it.        *)
LEMMA NextCases ==
  ASSUME [Next]_vars
  PROVE  \/ BexioNext
         \/ ItemStep
         \/ FinishActive \/ FinishArchived \/ FinishProject
         \/ FinishInvoiceList \/ FinishMissed
         \/ HandleOk \/ HandleError \/ HandleReconnect
         \/ HandleReconnectFails \/ RebuildFails
         \/ CallSync \/ CallSyncNoConn \/ FetchPage \/ FetchFails \/ Checkpoint
         \/ CheckpointFails \/ Crash \/ StartFails
         \/ (\E id \in Ids : MissedGetFails(id) \/ PruneFails(id))
         \/ UNCHANGED vars
         \/ (\E id \in Ids : \/ MissedGet(id) \/ MissedItemFails(id)
                            \/ PruneDelete(id) \/ PruneAnswerLost(id))
         \/ PruneDone \/ Start
  BY DEF Next, ThreadNext, FaultNext, ItemStep

(* Bexio never takes a deleted id back, and touches nothing else.             *)
LEMMA BexioEffect ==
  ASSUME TypeOK, BexioNext
  PROVE  /\ UNCHANGED <<table, cache, pc, result, iter, page, listed, cursor,
                        flags>>
         /\ \A r \in Resource : \A id \in Ids :
              /\ remote[r][id] = "gone" => remote'[r][id] = "gone"
              /\ remote[r][id] # "unborn" => remote'[r][id] # "unborn"
              /\ id \notin Members(r) => remote'[r][id] = remote[r][id]
              /\ r # "contact" /\ remote[r][id] # "archived"
                   => remote'[r][id] # "archived"
  <1>0. PICK r \in Resource : \E id \in Members(r) :
          Create(r, id) \/ \E status \in Status : Remove(r, id, status)
    BY DEF BexioNext
  <1>1. PICK id \in Members(r) :
          Create(r, id) \/ \E status \in Status : Remove(r, id, status)
    BY <1>0
  <1>2. UNCHANGED <<table, cache, pc, result, iter, page, listed, cursor,
                        flags>>
    BY <1>1 DEF Create, Remove, BexioUnchanged, history
  <1>3. id \in Ids
    BY DEF Members, Ids, Resource
  <1>4. PICK status \in Status :
          /\ remote' = [remote EXCEPT ![r][id] = status]
          /\ \/ remote[r][id] = "unborn" /\ status = "live"
             \/ remote[r][id] \in {"live", "archived"} /\ status = "gone"
             \/ r = "contact" /\ remote[r][id] = "live" /\ status = "archived"
             \/ r = "contact" /\ remote[r][id] = "archived" /\ status = "live"
    BY <1>1 DEF Create, Remove, SetStatus, Status
  <1>5. \A r2 \in Resource : \A id2 \in Ids :
          remote'[r2][id2] = IF r2 = r /\ id2 = id THEN status
                             ELSE remote[r2][id2]
    BY <1>3, <1>4 DEF TypeOK
  <1>6. ASSUME NEW r2 \in Resource, NEW id2 \in Ids
        PROVE  /\ remote[r2][id2] = "gone" => remote'[r2][id2] = "gone"
               /\ remote[r2][id2] # "unborn" => remote'[r2][id2] # "unborn"
               /\ id2 \notin Members(r2) => remote'[r2][id2] = remote[r2][id2]
               /\ r2 # "contact" /\ remote[r2][id2] # "archived"
                    => remote'[r2][id2] # "archived"
    BY <1>4, <1>5
  <1> QED BY <1>2, <1>6

LEMMA KnownIdsStep ==
  ASSUME TypeOK, KnownIds, PageKnown, pc = "prune" => result.prune # "none",
         [Next]_vars
  PROVE  KnownIds'
  <1> USE DEF KnownIds
  <1>1. CASE BexioNext
    BY <1>1, BexioEffect DEF cache
  <1>2. CASE ItemStep
    <2>1. PICK ids, kept, torn :
            /\ SyncItems(Res, ids, kept, torn)
            /\ kept \subseteq Members(Res) /\ torn \subseteq Members(Res)
            /\ kept \subseteq page
            /\ torn \subseteq page
            /\ UNCHANGED remote
      BY <1>2, ItemEffect
    <2>2. ASSUME NEW id \in kept \cup torn PROVE remote[Res][id] # "unborn"
      BY <2>1 DEF PageKnown
    <2>3. ASSUME NEW r \in Resource, NEW id \in Ids,
                 id \in table'[r] \/ seen'[r][id] # NotCached
          PROVE  remote[r][id] # "unborn"
      <3>1. /\ id \in table'[r] <=> \/ id \in table[r]
                                    \/ r = Res /\ id \in kept \cup torn
            /\ seen'[r][id] =
                 IF r = Res /\ (id \in kept \/ (id \in ids /\ seen[Res][id] > 0))
                 THEN version[Res] ELSE seen[r][id]
        BY <2>1, ResIsResource, SyncItemsEffect
      <3> QED BY <2>2, <2>3, <3>1 DEF NotCached
    <2> QED BY <2>1, <2>3
  <1>3. CASE FinishActive \/ FinishArchived \/ FinishProject
               \/ FinishInvoiceList \/ FinishMissed
    BY <1>3, FinishSteps DEF cache
  <1>4. CASE HandleOk \/ HandleError \/ HandleReconnect \/ HandleReconnectFails
               \/ RebuildFails
    <2>1. UNCHANGED <<remote, table>>
      BY <1>4, HandleSteps
    <2>2. ASSUME NEW r \in Resource, NEW id \in Ids
          PROVE  seen'[r][id] = NotCached <=> seen[r][id] = NotCached
      BY <1>4, HandleSteps, NextVersionEffect DEF cache
    <2> QED BY <2>1, <2>2
  <1>5. CASE \/ CallSync \/ CallSyncNoConn \/ FetchPage \/ FetchFails \/ Checkpoint
             \/ CheckpointFails \/ Crash \/ StartFails
             \/ (\E id \in Ids : MissedGetFails(id) \/ PruneFails(id))
             \/ UNCHANGED vars
    BY <1>5, QuietSteps DEF cache
  <1>6. ASSUME NEW g \in Ids, MissedGet(g) PROVE KnownIds'
    <2>1. CASE remote["invoice"][g] = "live"
      <3>1. SyncItems("invoice", {g}, {}, {}) /\ UNCHANGED remote
        BY <1>6, <2>1 DEF MissedGet, bexio, history
      <3>2. ASSUME NEW r \in Resource, NEW id \in Ids
            PROVE  /\ id \in table'[r] <=> id \in table[r]
                   /\ seen'[r][id] = seen[r][id] \/ seen[r][id] > 0
        <4>1. "invoice" \in Resource
          BY DEF Resource
        <4> QED BY <3>1, <4>1, SyncItemsEffect
      <3> QED BY <3>1, <3>2 DEF NotCached
    <2>2. CASE remote["invoice"][g] # "live"
      BY <1>6, <2>2 DEF MissedGet, bexio, history, cache
    <2> QED BY <2>1, <2>2
  <1>7. ASSUME NEW g \in Ids, PruneDelete(g) PROVE KnownIds'
    <2>1. UNCHANGED remote
      BY <1>7 DEF PruneDelete, bexio, history
    <2>2. ASSUME NEW r \in Resource, NEW id \in Ids
          PROVE  /\ id \in table'[r] => id \in table[r]
                 /\ seen'[r][id] = seen[r][id] \/ seen[r][id] > 0
      <3>1. seen[result.prune][g] > 0 /\ result.prune \in Resource
        BY <1>7 DEF PruneDelete, NextPrunable, Prunable, TypeOK
      <3>2. seen' = [seen EXCEPT ![result.prune][g] = 0]
        BY <1>7 DEF PruneDelete
      <3>3. seen'[r][id] = seen[r][id] \/ seen[r][id] > 0
        BY <3>1, <3>2 DEF TypeOK
      <3>4. id \in table'[r] => id \in table[r]
        BY <1>7 DEF PruneDelete, Delete
      <3> QED BY <3>3, <3>4
    <2> QED BY <2>1, <2>2 DEF NotCached
  <1>10. ASSUME NEW g \in Ids, MissedItemFails(g) PROVE KnownIds'
    <2>1. SyncItems("invoice", {g}, {}, {}) /\ UNCHANGED remote
      BY <1>10 DEF MissedItemFails, bexio
    <2>2. ASSUME NEW r \in Resource, NEW id \in Ids
          PROVE  /\ id \in table'[r] <=> id \in table[r]
                 /\ seen'[r][id] = seen[r][id] \/ seen[r][id] > 0
      <3>1. "invoice" \in Resource
        BY DEF Resource
      <3> QED BY <2>1, <3>1, SyncItemsEffect
    <2> QED BY <2>1, <2>2 DEF NotCached
  <1>11. ASSUME NEW g \in Ids, PruneAnswerLost(g) PROVE KnownIds'
    <2>1. UNCHANGED <<remote, seen>>
      BY <1>11 DEF PruneAnswerLost, bexio
    <2>2. ASSUME NEW r \in Resource, NEW id \in Ids
          PROVE  id \in table'[r] => id \in table[r]
      BY <1>11 DEF PruneAnswerLost, Delete
    <2> QED BY <2>1, <2>2
  <1>8. CASE PruneDone
    <2>1. UNCHANGED <<remote, table>> /\ result.prune \in Resource
      BY <1>8 DEF PruneDone, bexio, history, TypeOK
    <2>2. ASSUME NEW r \in Resource, NEW id \in Ids
          PROVE  seen'[r][id] \in {seen[r][id], NotCached}
      BY <1>8, <2>1 DEF PruneDone, TypeOK
    <2> QED BY <2>1, <2>2
  <1>9. CASE Start
    <2>1. UNCHANGED <<remote, table>>
      BY <1>9 DEF Start, bexio, history
    <2>2. ASSUME NEW r \in Resource, NEW id \in Ids
          PROVE  seen'[r][id] # NotCached => id \in table[r]
      BY <1>9 DEF Start
    <2> QED BY <2>1, <2>2
  <1> QED BY NextCases, <1>1, <1>2, <1>3, <1>4, <1>5, <1>6, <1>7, <1>8, <1>9,
             <1>10, <1>11

(* No other step touches an answer, but for a crash, which loses it.          *)
LEMMA NoPageAtHand ==
  ASSUME PageKnown,
         \/ FinishActive \/ FinishArchived \/ FinishProject
         \/ FinishInvoiceList \/ FinishMissed
         \/ HandleOk \/ HandleError \/ HandleReconnect
         \/ HandleReconnectFails \/ RebuildFails
         \/ CallSync \/ CallSyncNoConn \/ FetchFails \/ Checkpoint
         \/ CheckpointFails \/ StartFails
         \/ (\E id \in Ids : \/ MissedGetFails(id) \/ PruneFails(id)
                            \/ MissedGet(id) \/ MissedItemFails(id)
                            \/ PruneDelete(id) \/ PruneAnswerLost(id))
         \/ PruneDone \/ Start
  PROVE  page = {} /\ page' = {} /\ pc' # "items"
  <1>1. CASE FinishActive \/ FinishArchived \/ FinishProject
               \/ FinishInvoiceList \/ FinishMissed
    <2>1. ASSUME NEW next, NEW bump, NEW prune, Finish(next, bump, prune)
          PROVE  page' = page
      BY <2>1 DEF Finish
    <2>2. pc # "items" /\ page' = page
      BY <1>1, <2>1 DEF FinishActive, FinishArchived, FinishProject,
                        FinishInvoiceList, FinishMissed, WalkOver
    <2> QED BY <1>1, <2>2, FinishSteps DEF PageKnown
  <1>2. CASE HandleOk \/ HandleError \/ HandleReconnect \/ HandleReconnectFails
               \/ RebuildFails
    <2>1. pc = "handle" /\ page' = page
      BY <1>2 DEF HandleOk, HandleError, HandleReconnect, HandleReconnectFails,
                  RebuildFails, HandleUnchanged
    <2> QED BY <1>2, <2>1, HandleSteps DEF PageKnown
  <1>3. CASE \/ CallSync \/ CallSyncNoConn \/ FetchFails \/ Checkpoint
             \/ CheckpointFails \/ StartFails \/ PruneDone \/ Start
    BY <1>3 DEF CallSync, CallSyncNoConn, FetchFails, Checkpoint, CheckpointFails,
                StartFails, PruneDone, Start, FailResource, PageKnown
  <1>4. ASSUME NEW id \in Ids, \/ MissedGetFails(id) \/ PruneFails(id)
                               \/ MissedGet(id) \/ MissedItemFails(id)
                               \/ PruneDelete(id) \/ PruneAnswerLost(id)
        PROVE  page = {} /\ page' = {} /\ pc' # "items"
    BY <1>4 DEF MissedGetFails, PruneFails, MissedGet, MissedItemFails, PruneDelete,
                PruneAnswerLost, FailResource, PageKnown
  <1> QED BY <1>1, <1>2, <1>3, <1>4

(* An answer holds ids of the list, and they stay known while it is at hand.  *)
LEMMA PageStep ==
  ASSUME TypeOK, KnownIds, PageKnown, [Next]_vars
  PROVE  PageKnown'
  <1>0. ASSUME page' = {}, pc' # "items" PROVE PageKnown'
    BY <1>0 DEF PageKnown
  <1>1. CASE BexioNext
    <2>1. /\ UNCHANGED <<page, pc, cursor>>
          /\ \A r \in Resource : \A id \in Ids :
               remote[r][id] # "unborn" => remote'[r][id] # "unborn"
      BY <1>1, BexioEffect
    <2>2. Res' = Res /\ Res \in Resource /\ page \subseteq Ids
      BY <2>1, ResIsResource DEF Res, TypeOK
    <2> QED BY <2>1, <2>2 DEF PageKnown
  <1>2. CASE ItemStep
    <2>1. /\ pc = "items" /\ UNCHANGED <<remote, cursor>>
          /\ page' \subseteq page /\ (pc' # "items" => page' = {})
      BY <1>2, ItemEffect
    <2> QED BY <2>1 DEF PageKnown, Res
  <1>3. CASE FetchPage
    <2>1. page' \subseteq List(cursor.phase) /\ pc' = "items"
          /\ UNCHANGED <<remote, cursor>>
      BY <1>3, PageInList DEF FetchPage, NextPage, bexio
    <2>2. ASSUME NEW id \in List(cursor.phase)
          PROVE  id \in Ids /\ remote[Res][id] # "unborn"
      BY DEF List, Res
    <2>3. ASSUME NEW id \in List(cursor.phase)
          PROVE  id \in Members(Res)
      BY <2>2, ResIsResource DEF KnownIds
    <2> QED BY <2>1, <2>2, <2>3 DEF PageKnown, Res
  <1>4. CASE Crash
    BY <1>0, <1>4 DEF Crash
  <1>5. CASE UNCHANGED vars
    BY <1>5 DEF vars, bexio, PageKnown, Res
  <1> QED BY NextCases, NoPageAtHand, <1>0, <1>1, <1>2, <1>3, <1>4, <1>5

(* Only the start of a call and the GETs stay in the missed pass; an id that  *)
(* was passed is deleted, or seen by the GET, and Bexio brings none back.     *)
LEMMA PassedStep ==
  ASSUME TypeOK, KnownIds, PassedAreGone, [Next]_vars
  PROVE  PassedAreGone'
  <1> SUFFICES ASSUME pc' = "missed",
                      NEW id \in Prunable("invoice", 1)', id <= iter'
               PROVE  remote'["invoice"][id] = "gone"
    BY DEF PassedAreGone
  <1> USE DEF Prunable
  <1>0. "invoice" \in Resource /\ id \in Ids
    BY DEF Resource
  <1>1. CASE BexioNext
    BY <1>0, <1>1, BexioEffect DEF PassedAreGone, cache
  <1>2. CASE ItemStep
    BY <1>2, ItemEffect
  <1>3. CASE FinishActive \/ FinishArchived \/ FinishProject
               \/ FinishInvoiceList \/ FinishMissed
    BY <1>3, FinishSteps
  <1>4. CASE HandleOk \/ HandleError \/ HandleReconnect \/ HandleReconnectFails
               \/ RebuildFails
    BY <1>4, HandleSteps
  <1>5. CASE CallSync
    BY <1>0, <1>5, IdsAssumption DEF CallSync
  <1>6. CASE \/ CallSyncNoConn \/ FetchPage \/ FetchFails \/ Checkpoint
             \/ CheckpointFails \/ Crash \/ StartFails
             \/ (\E g \in Ids : \/ MissedGetFails(g) \/ MissedItemFails(g)
                               \/ PruneFails(g) \/ PruneAnswerLost(g))
             \/ PruneDone \/ Start
    BY <1>6 DEF CallSyncNoConn, FetchPage, FetchFails, Checkpoint, CheckpointFails,
                Crash, StartFails, MissedGetFails, MissedItemFails, PruneFails,
                PruneAnswerLost, PruneDone, Start, FailResource
  <1>7. CASE UNCHANGED vars
    BY <1>7 DEF PassedAreGone, vars, bexio, history, cache
  <1>8. ASSUME NEW g \in Ids, PruneDelete(g) PROVE FALSE
    BY <1>8 DEF PruneDelete
  <1>9. ASSUME NEW g \in Ids, MissedGet(g)
        PROVE  remote'["invoice"][id] = "gone"
    <2>1. /\ g \in Prunable("invoice", 1) /\ iter' = g /\ pc = "missed"
          /\ \A other \in Prunable("invoice", 1) : other > iter => g <= other
          /\ UNCHANGED <<remote, version>>
      BY <1>9 DEF MissedGet, NextPrunable, SyncItems, bexio, history, cache
    <2>2. id \in Nat /\ g \in Nat /\ iter \in Nat
      BY <1>0, IdsAssumption DEF TypeOK
    <2>3. CASE remote["invoice"][g] = "live"
      <3>1. SyncItems("invoice", {g}, {}, {})
        BY <1>9, <2>3 DEF MissedGet
      <3>2. seen'["invoice"][id] = IF id \in {g} /\ seen["invoice"][id] > 0
                                   THEN version["invoice"]
                                   ELSE seen["invoice"][id]
        BY <1>0, <3>1, SyncItemsEffect
      <3>3. id \in Prunable("invoice", 1) /\ id # g
        BY <2>1, <3>2 DEF TypeOK, Resource
      <3> QED BY <2>1, <2>2, <3>3 DEF PassedAreGone
    <2>4. CASE remote["invoice"][g] # "live"
      <3>1. id \in Prunable("invoice", 1)
        BY <1>9, <2>4 DEF MissedGet, cache
      <3>2. remote["invoice"][g] = "gone"
        BY <1>0, <2>1, <2>4 DEF KnownIds, TypeOK, Status, NotCached
      <3> QED BY <2>1, <2>2, <3>1, <3>2 DEF PassedAreGone
    <2> QED BY <2>3, <2>4
  <1> QED BY NextCases, <1>1, <1>2, <1>3, <1>4, <1>5, <1>6, <1>7, <1>8, <1>9

(* Invoices are pruned only right after a missed pass with nothing left.      *)
LEMMA UnseenStep ==
  ASSUME TypeOK, PassedAreGone, UnseenAreGone, [Next]_vars
  PROVE  UnseenAreGone'
  <1> SUFFICES ASSUME pc' = "prune", result'.prune = "invoice",
                      NEW id \in Prunable("invoice", 1)'
               PROVE  remote'["invoice"][id] = "gone"
    BY DEF UnseenAreGone
  <1> USE DEF Prunable
  <1>0. "invoice" \in Resource /\ id \in Ids
    BY DEF Resource
  <1>1. CASE BexioNext
    BY <1>0, <1>1, BexioEffect DEF UnseenAreGone, cache
  <1>2. CASE ItemStep
    BY <1>2, ItemEffect
  <1>3. CASE FinishActive \/ FinishArchived \/ FinishProject
               \/ FinishInvoiceList \/ FinishMissed
    <2>1. Res = "invoice" /\ UNCHANGED <<remote, version, seen>>
      BY <1>3, FinishSteps DEF cache
    <2>2. FinishMissed
      BY <1>3, <2>1, FinishSteps
      DEF FinishArchived, FinishProject, WalkOver, Res, ResourceOf
    <2> QED BY <2>1, <2>2 DEF FinishMissed, NoPrunable, PassedAreGone
  <1>4. CASE HandleOk \/ HandleError \/ HandleReconnect \/ HandleReconnectFails
               \/ RebuildFails
    BY <1>4, HandleSteps
  <1>5. CASE \/ CallSync \/ CallSyncNoConn \/ FetchPage \/ FetchFails \/ Checkpoint
             \/ CheckpointFails \/ Crash \/ StartFails
             \/ (\E g \in Ids : \/ MissedGetFails(g) \/ MissedItemFails(g)
                               \/ PruneFails(g) \/ PruneAnswerLost(g))
             \/ PruneDone \/ Start
    BY <1>5 DEF CallSync, CallSyncNoConn, FetchPage, FetchFails, Checkpoint,
                CheckpointFails, Crash, StartFails, MissedGetFails, MissedItemFails,
                PruneFails, PruneAnswerLost, PruneDone, Start, FailResource
  <1>6. CASE UNCHANGED vars
    BY <1>6 DEF UnseenAreGone, vars, bexio, history, cache
  <1>7. ASSUME NEW g \in Ids, MissedGet(g) PROVE FALSE
    BY <1>7 DEF MissedGet
  <1>8. ASSUME NEW g \in Ids, PruneDelete(g)
        PROVE  remote'["invoice"][id] = "gone"
    <2>1. /\ pc = "prune" /\ result.prune = "invoice"
          /\ UNCHANGED <<remote, version>>
          /\ seen' = [seen EXCEPT !["invoice"][g] = 0]
      BY <1>8 DEF PruneDelete, bexio, history
    <2>2. id \in Prunable("invoice", 1)
      BY <1>0, <2>1 DEF TypeOK
    <2> QED BY <2>1, <2>2 DEF UnseenAreGone
  <1> QED BY NextCases, <1>1, <1>2, <1>3, <1>4, <1>5, <1>6, <1>7, <1>8

(* A project that is listed and held is marked with the version of its page,  *)
(* and the version stands until the prune that follows the walk.              *)
LEMMA ListedStep ==
  ASSUME TypeOK, TypeOK', ListedAreSeen, [Next]_vars,
         pc = "missed" => cursor.phase = "invoice-missed"
  PROVE  ListedAreSeen'
  <1> SUFFICES ASSUME \/ /\ pc' \in {"walk", "items", "checkpoint"}
                         /\ cursor'.phase = "project" /\ from_zero'
                      \/ pc' = "prune" /\ result'.prune = "project",
                      NEW id \in listed'["project"],
                      seen'["project"][id] > 0
               PROVE  seen'["project"][id] = version'["project"]
    BY DEF ListedAreSeen
  <1>0. "project" \in Resource /\ id \in Ids
    BY DEF Resource, TypeOK
  <1>1. CASE BexioNext
    BY <1>1, BexioEffect DEF ListedAreSeen, cache, flags
  <1>2. CASE ItemStep
    <2>1. PICK ids, kept, torn :
            /\ SyncItems(Res, ids, kept, torn)
            /\ pc = "items" /\ UNCHANGED <<remote, cursor, flags>>
            /\ \/ pc' = "handle"
               \/ /\ pc' \in {"items", "checkpoint"}
                  /\ listed' = [listed EXCEPT ![Res] = @ \cup ids]
      BY <1>2, ItemEffect
    <2>2. /\ cursor.phase = "project" /\ from_zero /\ Res = "project"
          /\ version' = version
      BY <2>1 DEF flags, Res, ResourceOf, SyncItems
    <2>3. id \in listed["project"] \/ id \in ids
      BY <1>0, <2>1, <2>2 DEF TypeOK
    <2>4. seen'["project"][id] =
            IF id \in kept \/ (id \in ids /\ seen["project"][id] > 0)
            THEN version["project"] ELSE seen["project"][id]
      BY <1>0, <2>1, <2>2, SyncItemsEffect
    <2>5. id \in listed["project"] /\ seen["project"][id] > 0
            => seen["project"][id] = version["project"]
      BY <2>1, <2>2 DEF ListedAreSeen
    <2> QED BY <2>2, <2>3, <2>4, <2>5
  <1>3. CASE FinishActive \/ FinishArchived \/ FinishProject
               \/ FinishInvoiceList \/ FinishMissed
    <2>1. Res = "project" /\ UNCHANGED <<version, seen, listed>>
      BY <1>3, FinishSteps DEF cache
    <2>2. FinishProject /\ from_zero
      BY <1>3, <2>1, FinishSteps
      DEF FinishArchived, FinishMissed, WalkOver, Res, ResourceOf
    <2> QED BY <2>1, <2>2 DEF FinishProject, WalkOver, ListedAreSeen
  <1>4. CASE HandleOk \/ HandleError \/ HandleReconnect \/ HandleReconnectFails
               \/ RebuildFails
    BY <1>4, HandleSteps
  <1>5. CASE CallSync
    <2>1. cursor.phase = "project" /\ cursor.offset = 0 /\ Res = "project"
      BY <1>5 DEF CallSync, Res, ResourceOf
    <2>2. listed' = [listed EXCEPT !["project"] = {}]
      BY <1>5, <2>1 DEF CallSync
    <2> QED BY <1>0, <2>2 DEF TypeOK
  <1>6. CASE Checkpoint
    <2>1. /\ pc = "checkpoint" /\ pc' = "walk"
          /\ UNCHANGED <<version, seen, listed, from_zero>>
          /\ cursor' = [cursor EXCEPT !.offset = @ + PageSize]
      BY <1>6 DEF Checkpoint, cache, flags, history
    <2>2. cursor'.phase = cursor.phase
      BY <2>1 DEF TypeOK, Cursor
    <2> QED BY <2>1, <2>2 DEF ListedAreSeen
  <1>a. CASE FetchPage
    BY <1>a DEF FetchPage, ListedAreSeen, cache, flags, history
  <1>7. CASE \/ CallSyncNoConn \/ FetchFails \/ CheckpointFails
             \/ Crash \/ StartFails
             \/ (\E g \in Ids : \/ MissedGetFails(g) \/ MissedItemFails(g)
                               \/ PruneFails(g) \/ PruneAnswerLost(g))
             \/ PruneDone \/ Start
    BY <1>7 DEF CallSyncNoConn, FetchFails, CheckpointFails, Crash,
                StartFails, MissedGetFails, MissedItemFails, PruneFails,
                PruneAnswerLost, PruneDone, Start, FailResource
  <1>8. CASE UNCHANGED vars
    BY <1>8 DEF ListedAreSeen, vars, cache, flags, history
  <1>9. ASSUME NEW g \in Ids, MissedGet(g) PROVE FALSE
    BY <1>9 DEF MissedGet
  <1>10. ASSUME NEW g \in Ids, PruneDelete(g)
         PROVE  seen'["project"][id] = version'["project"]
    <2>1. /\ pc = "prune" /\ result.prune = "project"
          /\ UNCHANGED <<version, listed>>
          /\ seen' = [seen EXCEPT !["project"][g] = 0]
      BY <1>10 DEF PruneDelete, history
    <2>2. seen'["project"][id] = seen["project"][id]
      BY <1>0, <2>1 DEF TypeOK
    <2> QED BY <2>1, <2>2 DEF ListedAreSeen
  <1> QED BY NextCases, <1>1, <1>2, <1>3, <1>4, <1>5, <1>6, <1>7, <1>8, <1>9,
             <1>10, <1>a

(* A contact or project enters a cache with its row and loses its row with    *)
(* its mark.                                                                  *)
LEMMA ParentStep ==
  ASSUME TypeOK, ParentCachedHasRow, pc = "prune" => result.prune # "none",
         [Next]_vars
  PROVE  ParentCachedHasRow'
  <1> SUFFICES ASSUME NEW r \in {"contact", "project"}, r \notin doubtful',
                      NEW id \in Ids, seen'[r][id] > 0
               PROVE  id \in table'[r]
    BY DEF ParentCachedHasRow, CachedHasRow
  <1>0. r \in Resource /\ r # "invoice"
    BY DEF Resource
  <1>a. r \notin doubtful /\ seen[r][id] > 0 => id \in table[r]
    BY DEF ParentCachedHasRow, CachedHasRow
  <1>1. CASE BexioNext
    BY <1>1, <1>a, BexioEffect DEF cache
  <1>2. CASE ItemStep
    <2>1. PICK ids, kept, torn : SyncItems(Res, ids, kept, torn)
      BY <1>2, ItemEffect
    <2>2. /\ id \in table'[r] <=> \/ id \in table[r]
                                  \/ r = Res /\ id \in kept \cup torn
          /\ seen'[r][id] =
               IF r = Res /\ (id \in kept \/ (id \in ids /\ seen[Res][id] > 0))
               THEN version[Res] ELSE seen[r][id]
      <3>1. Res \in Resource
        BY ResIsResource
      <3> QED BY <1>0, <2>1, <3>1, SyncItemsEffect
    <2> QED BY <1>a, <2>1, <2>2 DEF SyncItems
  <1>3. CASE FinishActive \/ FinishArchived \/ FinishProject
               \/ FinishInvoiceList \/ FinishMissed
    BY <1>3, <1>a, FinishSteps DEF cache
  <1>4. CASE HandleOk \/ HandleError \/ HandleReconnect \/ HandleReconnectFails
               \/ RebuildFails
    <2>1. UNCHANGED table /\ (UNCHANGED cache \/ \E b : cache_next_version(b))
      BY <1>4, HandleSteps
    <2>2. r \notin doubtful /\ seen'[r][id] = seen[r][id]
      BY <1>0, <2>1, NextVersionEffect DEF cache
    <2> QED BY <1>a, <2>1, <2>2
  <1>5. CASE \/ CallSync \/ CallSyncNoConn \/ FetchPage \/ FetchFails \/ Checkpoint
             \/ CheckpointFails \/ Crash \/ StartFails
             \/ (\E g \in Ids : MissedGetFails(g) \/ PruneFails(g))
             \/ UNCHANGED vars
    BY <1>5, <1>a, QuietSteps DEF cache
  <1>6. ASSUME NEW g \in Ids, MissedGet(g) PROVE id \in table'[r]
    <2>1. CASE remote["invoice"][g] = "live"
      <3>1. SyncItems("invoice", {g}, {}, {}) /\ "invoice" \in Resource
        BY <1>6, <2>1 DEF MissedGet, Resource
      <3>2. /\ id \in table'[r] <=> id \in table[r]
            /\ seen'[r][id] = seen[r][id]
        BY <1>0, <3>1, SyncItemsEffect
      <3> QED BY <1>a, <3>1, <3>2 DEF SyncItems
    <2>2. CASE remote["invoice"][g] # "live"
      BY <1>6, <1>a, <2>2 DEF MissedGet, cache
    <2> QED BY <2>1, <2>2
  <1>7. ASSUME NEW g \in Ids, PruneDelete(g) PROVE id \in table'[r]
    <2>1. /\ seen' = [seen EXCEPT ![result.prune][g] = 0]
          /\ Delete(result.prune, g) /\ UNCHANGED doubtful
          /\ result.prune \in Resource
      BY <1>7 DEF PruneDelete, TypeOK
    <2>2. seen'[r][id] = IF r = result.prune /\ id = g THEN 0 ELSE seen[r][id]
      BY <1>0, <2>1 DEF TypeOK
    <2>3. table'[r] = IF r = result.prune THEN table[r] \ {g} ELSE table[r]
      BY <1>0, <2>1 DEF Delete
    <2> QED BY <1>a, <2>1, <2>2, <2>3
  <1>10. ASSUME NEW g \in Ids, MissedItemFails(g) PROVE id \in table'[r]
    <2>1. SyncItems("invoice", {g}, {}, {}) /\ "invoice" \in Resource
      BY <1>10 DEF MissedItemFails, Resource
    <2>2. /\ id \in table'[r] <=> id \in table[r]
          /\ seen'[r][id] = seen[r][id]
      BY <1>0, <2>1, SyncItemsEffect
    <2> QED BY <1>a, <2>1, <2>2 DEF SyncItems
  <1>11. ASSUME NEW g \in Ids, PruneAnswerLost(g) PROVE id \in table'[r]
    <2>1. /\ Delete(result.prune, g) /\ UNCHANGED seen
          /\ doubtful' = doubtful \cup {result.prune}
      BY <1>11 DEF PruneAnswerLost
    <2>2. table'[r] = table[r]
      BY <1>0, <2>1 DEF Delete
    <2> QED BY <1>a, <2>1, <2>2
  <1>8. CASE PruneDone
    <2>1. UNCHANGED <<doubtful, table>> /\ result.prune \in Resource
      BY <1>8 DEF PruneDone, TypeOK
    <2>2. seen'[r][id] \in {seen[r][id], NotCached}
      BY <1>0, <1>8, <2>1 DEF PruneDone, TypeOK
    <2> QED BY <1>a, <2>1, <2>2 DEF NotCached
  <1>9. CASE Start
    <2>1. seen'[r][id] # NotCached => id \in table[r]
      BY <1>0, <1>9 DEF Start
    <2> QED BY <1>9, <2>1 DEF Start, NotCached
  <1> QED BY NextCases, <1>1, <1>2, <1>3, <1>4, <1>5, <1>6, <1>7, <1>8, <1>9,
             <1>10, <1>11

(* A prune has a resource.                                                    *)
LEMMA PruneTargetStep ==
  ASSUME TypeOK, pc = "prune" => result.prune # "none", [Next]_vars
  PROVE  pc' = "prune" => result'.prune # "none"
  <1> SUFFICES ASSUME pc' = "prune" PROVE result'.prune # "none"
    OBVIOUS
  <1>1. CASE BexioNext
    BY <1>1, BexioEffect
  <1>2. CASE ItemStep
    BY <1>2, ItemEffect
  <1>3. CASE FinishActive \/ FinishArchived \/ FinishProject
               \/ FinishInvoiceList \/ FinishMissed
    BY <1>3, FinishSteps, ResIsResource DEF Resource
  <1>4. CASE HandleOk \/ HandleError \/ HandleReconnect \/ HandleReconnectFails
               \/ RebuildFails
    BY <1>4, HandleSteps
  <1>5. CASE \/ CallSync \/ CallSyncNoConn \/ FetchPage \/ FetchFails \/ Checkpoint
             \/ CheckpointFails \/ Crash \/ StartFails
             \/ (\E g \in Ids : \/ MissedGetFails(g) \/ MissedItemFails(g)
                               \/ PruneFails(g) \/ PruneAnswerLost(g))
             \/ PruneDone \/ Start
    BY <1>5 DEF CallSync, CallSyncNoConn, FetchPage, FetchFails, Checkpoint,
                CheckpointFails, Crash, StartFails, MissedGetFails, MissedItemFails,
                PruneFails, PruneAnswerLost, PruneDone, Start, FailResource
  <1>6. CASE UNCHANGED vars
    BY <1>6 DEF vars
  <1>7. ASSUME NEW g \in Ids, MissedGet(g) \/ PruneDelete(g)
        PROVE  result'.prune # "none"
    BY <1>7 DEF MissedGet, PruneDelete
  <1> QED BY NextCases, <1>1, <1>2, <1>3, <1>4, <1>5, <1>6, <1>7

(* The missed pass belongs to its phase.                                      *)
LEMMA MissedPhaseStep ==
  ASSUME TypeOK, pc = "missed" => cursor.phase = "invoice-missed", [Next]_vars
  PROVE  pc' = "missed" => cursor'.phase = "invoice-missed"
  <1> SUFFICES ASSUME pc' = "missed" PROVE cursor'.phase = "invoice-missed"
    OBVIOUS
  <1>1. CASE BexioNext
    BY <1>1, BexioEffect
  <1>2. CASE ItemStep
    BY <1>2, ItemEffect
  <1>3. CASE FinishActive \/ FinishArchived \/ FinishProject
               \/ FinishInvoiceList \/ FinishMissed
    BY <1>3, FinishSteps
  <1>4. CASE HandleOk \/ HandleError \/ HandleReconnect \/ HandleReconnectFails
               \/ RebuildFails
    BY <1>4, HandleSteps
  <1>5. CASE \/ CallSync \/ CallSyncNoConn \/ FetchPage \/ FetchFails \/ Checkpoint
             \/ CheckpointFails \/ Crash \/ StartFails
             \/ (\E g \in Ids : \/ MissedGetFails(g) \/ MissedItemFails(g)
                               \/ PruneFails(g) \/ PruneAnswerLost(g))
             \/ PruneDone \/ Start
    BY <1>5 DEF CallSync, CallSyncNoConn, FetchPage, FetchFails, Checkpoint,
                CheckpointFails, Crash, StartFails, MissedGetFails, MissedItemFails,
                PruneFails, PruneAnswerLost, PruneDone, Start, FailResource
  <1>6. CASE UNCHANGED vars
    BY <1>6 DEF vars
  <1>7. ASSUME NEW g \in Ids, MissedGet(g) \/ PruneDelete(g)
        PROVE  cursor'.phase = "invoice-missed"
    BY <1>7 DEF MissedGet, PruneDelete
  <1> QED BY NextCases, <1>1, <1>2, <1>3, <1>4, <1>5, <1>6, <1>7

LEMMA TypeStep ==
  ASSUME TypeOK, pc = "prune" => result.prune # "none", [Next]_vars
  PROVE  TypeOK'
  <1>1. CASE UNCHANGED vars
    BY <1>1 DEF vars, bexio, history, flags, cache, link, TypeOK
  <1>2. CASE BexioNext
    BY <1>2, BexioType
  <1>3. CASE ThreadNext
    BY <1>3, SyncType, LoopType DEF ThreadNext, ItemStep
  <1>4. CASE FaultNext
    BY <1>4, SyncType, LoopType DEF FaultNext, ItemStep
  <1> QED BY <1>1, <1>2, <1>3, <1>4 DEF Next

-----------------------------------------------------------------------------
(* The inductive invariant.                                                   *)

LEMMA IndInvInit == Init => IndInv
  <1> SUFFICES ASSUME Init PROVE IndInv
    OBVIOUS
  <1>1. TypeOK
    BY InitType
  <1>2. KnownIds
    <2> SUFFICES ASSUME NEW r \in Resource, NEW id \in Ids
                 PROVE  /\ id \notin Members(r) => remote[r][id] = "unborn"
                        /\ remote[r][id] # "archived"
                        /\ id \notin table[r] /\ seen[r][id] = NotCached
      BY DEF KnownIds
    <2>1. remote[r][id] \in {"unborn", "live"}
      BY DEF Init
    <2>2. id \notin Members(r) => remote[r][id] # "live"
      BY DEF Init
    <2>3. id \notin table[r] /\ seen[r][id] = NotCached
      BY DEF Init
    <2> QED BY <2>1, <2>2, <2>3
  <1>3. PageKnown /\ PassedAreGone /\ UnseenAreGone /\ ListedAreSeen
    BY DEF Init, PageKnown, PassedAreGone, UnseenAreGone, ListedAreSeen
  <1>4. ParentCachedHasRow
    BY DEF Init, ParentCachedHasRow, CachedHasRow, Resource, NotCached
  <1>5. pc = "down"
    BY DEF Init
  <1> QED BY <1>1, <1>2, <1>3, <1>4, <1>5 DEF IndInv

LEMMA IndInvStep == IndInv /\ [Next]_vars => IndInv'
  <1> SUFFICES ASSUME IndInv, [Next]_vars PROVE IndInv'
    OBVIOUS
  <1> USE DEF IndInv
  <1>1. TypeOK'
    BY TypeStep
  <1>2. KnownIds' /\ PageKnown' /\ ParentCachedHasRow'
    BY KnownIdsStep, PageStep, ParentStep
  <1>3. PassedAreGone' /\ UnseenAreGone' /\ ListedAreSeen'
    BY <1>1, PassedStep, UnseenStep, ListedStep
  <1>4. /\ (pc = "prune" => result.prune # "none")'
        /\ (pc = "missed" => cursor.phase = "invoice-missed")'
    BY PruneTargetStep, MissedPhaseStep
  <1> QED BY <1>1, <1>2, <1>3, <1>4

(* Whatever the pages, failures, crashes and changes in Bexio, in every       *)
(* reachable state the unseen invoices behind the missed pass are deleted     *)
(* ones, a listed project is marked, and what a parent cache holds has a row. *)
THEOREM IndInvariant == Spec => []IndInv
  BY IndInvInit, IndInvStep, PTL DEF Spec

(* Every variable of the chain keeps its type: versions stay below the end of *)
(* their range, the error counter within its limit, the cursor well formed.   *)
THEOREM TypeCorrect == Spec => []TypeOK
  <1>1. IndInv => TypeOK
    BY DEF IndInv
  <1> QED BY IndInvariant, <1>1, PTL

(* What the contact and project caches hold has a row: the cache_check_item   *)
(* test with which contact.c and project.c skip an unchanged item is right.   *)
THEOREM ParentCoherence == Spec => []ParentCachedHasRow
  <1>1. IndInv => ParentCachedHasRow
    BY DEF IndInv
  <1> QED BY IndInvariant, <1>1, PTL

-----------------------------------------------------------------------------
(* What a prune deletes.                                                      *)

(* The only step that removes a row of the resource being pruned is a DELETE  *)
(* of an id the cache has not seen for Drift versions.                        *)
LEMMA PrunedIsPrunable ==
  ASSUME IndInv, [Next]_vars, NEW r \in Resource, NEW id \in Ids, Pruned(r, id)
  PROVE  /\ version[r] > Drift /\ seen[r][id] > 0
         /\ seen[r][id] <= version[r] - Drift
  <1>0. /\ TypeOK /\ pc = "prune" /\ result.prune = r
        /\ id \in table[r] /\ id \notin table'[r]
    BY DEF IndInv, Pruned
  <1>1. ASSUME NEW g \in Ids, PruneDelete(g) \/ PruneAnswerLost(g)
        PROVE  g = id /\ NextPrunable(r, Drift, id)
    BY <1>0, <1>1 DEF PruneDelete, PruneAnswerLost, Delete
  <1>2. CASE BexioNext
    BY <1>0, <1>2, BexioEffect
  <1>3. CASE ItemStep
    BY <1>0, <1>3, ItemEffect
  <1>4. CASE FinishActive \/ FinishArchived \/ FinishProject
               \/ FinishInvoiceList \/ FinishMissed
    BY <1>0, <1>4, FinishSteps
  <1>5. CASE HandleOk \/ HandleError \/ HandleReconnect \/ HandleReconnectFails
               \/ RebuildFails
    BY <1>0, <1>5, HandleSteps
  <1>6. CASE \/ CallSync \/ CallSyncNoConn \/ FetchPage \/ FetchFails \/ Checkpoint
             \/ CheckpointFails \/ Crash \/ StartFails
             \/ (\E g \in Ids : MissedGetFails(g) \/ PruneFails(g))
             \/ UNCHANGED vars
    BY <1>0, <1>6, QuietSteps
  <1>7. CASE PruneDone \/ Start \/ \E g \in Ids : MissedGet(g) \/ MissedItemFails(g)
    BY <1>0, <1>7 DEF PruneDone, Start, MissedGet, MissedItemFails
  <1> QED BY NextCases, <1>1, <1>2, <1>3, <1>4, <1>5, <1>6, <1>7
          DEF NextPrunable, Prunable

(* bx_prune_items never deletes an invoice that Bexio still has, for every    *)
(* page size, drift and number of ids, through every failure and restart.     *)
THEOREM InvoicePruneSafety == Spec => InvoicePruneSafe
  <1>1. IndInv /\ [Next]_vars =>
          [\A id \in Ids : Pruned("invoice", id) => remote["invoice"][id] = "gone"]_vars
    <2> SUFFICES ASSUME IndInv, [Next]_vars, NEW id \in Ids, Pruned("invoice", id)
                 PROVE  remote["invoice"][id] = "gone"
      OBVIOUS
    <2>1. /\ version["invoice"] > Drift /\ seen["invoice"][id] > 0
          /\ seen["invoice"][id] <= version["invoice"] - Drift
      BY PrunedIsPrunable DEF Resource
    <2>2. version["invoice"] \in Nat /\ seen["invoice"][id] \in Int
      BY BoundsAssumption DEF IndInv, TypeOK, Resource
    <2>3. id \in Prunable("invoice", 1)
      BY <2>1, <2>2, BoundsAssumption DEF Prunable
    <2> QED BY <2>3 DEF IndInv, UnseenAreGone, Pruned
  <1> QED BY IndInvariant, <1>1, PTL DEF Spec, InvoicePruneSafe

(* bx_prune_items never deletes a project the finished walk has listed, since *)
(* a walk is pruned only when one call, hence one version, made all of it.    *)
THEOREM ProjectPruneSafety == Spec => ProjectPruneSparesListed
  <1>1. IndInv /\ [Next]_vars =>
          [\A id \in Ids : Pruned("project", id) => id \notin listed["project"]]_vars
    <2> SUFFICES ASSUME IndInv, [Next]_vars, NEW id \in Ids, Pruned("project", id)
                 PROVE  id \notin listed["project"]
      OBVIOUS
    <2>1. /\ version["project"] > Drift /\ seen["project"][id] > 0
          /\ seen["project"][id] <= version["project"] - Drift
      BY PrunedIsPrunable DEF Resource
    <2>2. version["project"] \in Nat /\ seen["project"][id] \in Int
      BY BoundsAssumption DEF IndInv, TypeOK, Resource
    <2>3. seen["project"][id] # version["project"]
      BY <2>1, <2>2, BoundsAssumption
    <2> QED BY <2>1, <2>3 DEF IndInv, ListedAreSeen, Pruned
  <1> QED BY IndInvariant, <1>1, PTL DEF Spec, ProjectPruneSparesListed

-----------------------------------------------------------------------------
(* The invoices of the chain implement Mirror.                                *)

LEMMA MirrorInit == Init => InvoiceMirror!Init
  <1> SUFFICES ASSUME Init PROVE InvoiceMirror!Init
    OBVIOUS
  <1>1. "invoice" \in Resource /\ Invoices \subseteq Ids
    BY DEF Resource, Ids
  <1>2. [id \in Invoices |-> remote["invoice"][id]] \in [Invoices -> {"unborn", "live"}]
    BY <1>1 DEF Init
  <1>3. table["invoice"] = {} /\ table["project"] = {} /\ page = {}
    BY DEF Init, Resource
  <1> QED BY <1>2, <1>3 DEF InvoiceMirror!Init

(* The answer to a list request is an Answer, an invoice of it a Store, a     *)
(* project a StoreParents, a pruned invoice a Drop, a pruned project a        *)
(* LoseParent, what Bexio does to an invoice an Appear or a Vanish; a crash   *)
(* stores nothing more of an answer, and any other step is a stutter.         *)
LEMMA MirrorStep ==
  ASSUME IndInv, [Next]_vars
  PROVE  [InvoiceMirror!Next]_<<[id \in Invoices |-> remote["invoice"][id]],
                                table["invoice"], table["project"],
                                IF Res = "invoice" THEN page ELSE {}>>
  <1> DEFINE st == [id \in Invoices |-> remote["invoice"][id]]
             sh == IF Res = "invoice" THEN page ELSE {}
             mirror == <<st, table["invoice"], table["project"], sh>>
  <1>0. /\ TypeOK /\ KnownIds /\ PageKnown /\ UnseenAreGone
        /\ "invoice" \in Resource /\ "project" \in Resource
        /\ Members("invoice") = Invoices /\ Members("project") = Projects
        /\ Invoices \subseteq Ids
    BY DEF IndInv, Members, Resource, Ids
  <1>1. ASSUME UNCHANGED <<remote, table>>, page = {}, page' = {}
        PROVE  UNCHANGED mirror
    BY <1>1
  <1>2. CASE BexioNext
    <2>0. PICK r \in Resource : \E id \in Members(r) :
            Create(r, id) \/ \E status \in Status : Remove(r, id, status)
      BY <1>2 DEF BexioNext
    <2>1. PICK id \in Members(r) :
            Create(r, id) \/ \E status \in Status : Remove(r, id, status)
      BY <2>0
    <2>2. UNCHANGED <<table, sh>>
      BY <2>1 DEF Create, Remove, BexioUnchanged, Res
    <2>3. CASE r = "invoice"
      <3>1. id \in Invoices /\ id \in Ids
        BY <1>0, <2>3
      <3>2. CASE Create(r, id)
        <4>1. remote' = [remote EXCEPT !["invoice"][id] = "live"]
              /\ remote["invoice"][id] = "unborn"
          BY <2>3, <3>2 DEF Create, SetStatus
        <4>2. st' = [st EXCEPT ![id] = "live"] /\ st[id] = "unborn"
          BY <1>0, <3>1, <4>1 DEF TypeOK
        <4> QED BY <2>2, <3>1, <4>2 DEF InvoiceMirror!Next, InvoiceMirror!Appear
      <3>3. CASE \E status \in Status : Remove(r, id, status)
        <4>1. remote["invoice"][id] # "archived"
          BY <1>0, <3>1 DEF KnownIds
        <4>2. remote' = [remote EXCEPT !["invoice"][id] = "gone"]
              /\ remote["invoice"][id] = "live"
          BY <2>3, <3>3, <4>1 DEF Remove, SetStatus
        <4>3. st' = [st EXCEPT ![id] = "gone"] /\ st[id] = "live"
          BY <1>0, <3>1, <4>2 DEF TypeOK
        <4> QED BY <2>2, <3>1, <4>3 DEF InvoiceMirror!Next, InvoiceMirror!Vanish
      <3> QED BY <2>1, <3>2, <3>3
    <2>4. CASE r # "invoice"
      <3>1. \E status : remote' = [remote EXCEPT ![r][id] = status]
        BY <2>1 DEF Create, Remove, SetStatus
      <3>2. remote'["invoice"] = remote["invoice"]
        BY <1>0, <2>4, <3>1 DEF TypeOK
      <3> QED BY <2>2, <3>2
    <2> QED BY <2>3, <2>4
  <1>3. CASE ItemStep
    <2>1. PICK ids, kept, torn :
            /\ SyncItems(Res, ids, kept, torn)
            /\ kept \subseteq Members(Res) /\ torn \subseteq Members(Res)
            /\ kept \subseteq page
            /\ torn \subseteq page
            /\ \A id \in kept \cup torn : RefsPresent(Res, id)
            /\ UNCHANGED <<remote, cursor>> /\ page' \subseteq page
      BY <1>0, <1>3, ItemEffect
    <2>a. Res' = Res
      BY <2>1 DEF Res
    <2>2. CASE Res = "invoice"
      <3> DEFINE S == kept \cup torn
      <3>1. S \in SUBSET Invoices /\ UNCHANGED st
        BY <1>0, <2>1, <2>2
      <3>2. /\ table'["invoice"] = table["invoice"] \cup S
            /\ table'["project"] = table["project"]
        BY <1>0, <2>1, <2>2 DEF SyncItems, TypeOK
      <3>3. S \subseteq sh /\ sh' \in SUBSET sh
        BY <2>1, <2>2, <2>a
      <3>4. \A id \in S : InvoiceProject[id] \in table["project"] \cup {0}
        BY <2>1, <2>2 DEF RefsPresent
      <3> QED BY <3>1, <3>2, <3>3, <3>4 DEF InvoiceMirror!Next, InvoiceMirror!Store
    <2>3. CASE Res = "project"
      <3>1. kept \cup torn \in SUBSET Projects /\ UNCHANGED <<st, sh>>
        BY <1>0, <2>1, <2>3, <2>a
      <3>2. /\ table'["project"] = table["project"] \cup (kept \cup torn)
            /\ table'["invoice"] = table["invoice"]
        BY <1>0, <2>1, <2>3 DEF SyncItems, TypeOK
      <3> QED BY <3>1, <3>2 DEF InvoiceMirror!Next, InvoiceMirror!StoreParents
    <2>4. CASE Res \notin {"invoice", "project"}
      <3>1. /\ table'["invoice"] = table["invoice"]
            /\ table'["project"] = table["project"]
        BY <1>0, <2>1, <2>4 DEF SyncItems, TypeOK
      <3> QED BY <2>1, <2>4, <2>a, <3>1
    <2> QED BY <2>2, <2>3, <2>4
  <1>4. CASE FinishActive \/ FinishArchived \/ FinishProject
               \/ FinishInvoiceList \/ FinishMissed
    BY <1>0, <1>1, <1>4, FinishSteps, NoPageAtHand
  <1>5. CASE HandleOk \/ HandleError \/ HandleReconnect \/ HandleReconnectFails
               \/ RebuildFails
    BY <1>0, <1>1, <1>5, HandleSteps, NoPageAtHand
  <1>6. CASE \/ CallSync \/ CallSyncNoConn \/ FetchFails \/ Checkpoint
             \/ CheckpointFails \/ StartFails
             \/ (\E g \in Ids : MissedGetFails(g) \/ PruneFails(g))
    BY <1>0, <1>1, <1>6, QuietSteps, NoPageAtHand
  <1>7. CASE PruneDone \/ Start
    BY <1>0, <1>1, <1>7, NoPageAtHand DEF PruneDone, Start, bexio
  <1>a. CASE FetchPage
    <2>1. /\ UNCHANGED <<remote, table, cursor>> /\ page' = NextPage /\ pc = "walk"
      BY <1>a DEF FetchPage, bexio
    <2>2. page = {} /\ Res' = Res
      BY <1>0, <2>1 DEF PageKnown, Res
    <2>3. CASE Res = "invoice"
      <3>1. NextPage \subseteq List(cursor.phase)
        BY PageInList DEF NextPage
      <3>2. \A id \in NextPage : id \in Ids /\ remote["invoice"][id] = "live"
        BY <2>3, <3>1 DEF List, Res, ResourceOf
      <3>3. NextPage \subseteq Invoices
        BY <1>0, <3>2 DEF KnownIds
      <3>4. \A id \in NextPage : st[id] = "live"
        BY <3>2, <3>3
      <3>5. sh' = NextPage /\ UNCHANGED <<st, table["invoice"], table["project"]>>
        BY <2>1, <2>2, <2>3
      <3> QED BY <3>3, <3>4, <3>5 DEF InvoiceMirror!Next, InvoiceMirror!Answer
    <2>4. CASE Res # "invoice"
      BY <2>1, <2>2, <2>4
    <2> QED BY <2>3, <2>4
  <1>b. CASE Crash
    <2>1. UNCHANGED <<remote, table, cursor>> /\ page' = {}
      BY <1>b DEF Crash, bexio
    <2>2. UNCHANGED <<st, table["invoice"], table["project"]>> /\ sh' = {}
      BY <2>1
    <2>3. {} \in SUBSET Invoices /\ table["invoice"] = table["invoice"] \cup {}
      OBVIOUS
    <2> QED BY <2>2, <2>3 DEF InvoiceMirror!Next, InvoiceMirror!Store
  <1>c. CASE UNCHANGED vars
    BY <1>c DEF vars, bexio, Res
  <1>8. ASSUME NEW g \in Ids, MissedGet(g) \/ MissedItemFails(g)
        PROVE  UNCHANGED mirror
    <2>1. UNCHANGED remote
      BY <1>8 DEF MissedGet, MissedItemFails, bexio
    <2>2. /\ table'["invoice"] = table["invoice"]
          /\ table'["project"] = table["project"]
      BY <1>0, <1>8 DEF MissedGet, MissedItemFails, SyncItems, TypeOK
    <2>3. page = {} /\ page' = {}
      BY <1>0, <1>8, NoPageAtHand
    <2> QED BY <2>1, <2>2, <2>3
  <1>9. ASSUME NEW g \in Ids, PruneDelete(g) \/ PruneAnswerLost(g)
        PROVE  InvoiceMirror!Next \/ UNCHANGED mirror
    <2>0. page = {} /\ page' = {}
      BY <1>0, <1>9, NoPageAtHand
    <2>1. /\ UNCHANGED <<st, sh>> /\ Delete(result.prune, g)
          /\ pc = "prune" /\ NextPrunable(result.prune, Drift, g)
      BY <1>9, <2>0 DEF PruneDelete, PruneAnswerLost, bexio
    <2>2. CASE result.prune = "invoice"
      <3>1. /\ version["invoice"] > Drift /\ seen["invoice"][g] > 0
            /\ seen["invoice"][g] <= version["invoice"] - Drift
        BY <2>1, <2>2 DEF NextPrunable, Prunable
      <3>2. version["invoice"] \in Nat /\ seen["invoice"][g] \in Int
        BY <1>0, BoundsAssumption DEF TypeOK
      <3>3. g \in Prunable("invoice", 1)
        BY <3>1, <3>2, BoundsAssumption DEF Prunable
      <3>4. remote["invoice"][g] = "gone"
        BY <1>0, <2>1, <2>2, <3>3 DEF UnseenAreGone
      <3>5. g \in Invoices
        BY <1>0, <3>4 DEF KnownIds
      <3>6. /\ table'["invoice"] = table["invoice"] \ {g}
            /\ table'["project"] = table["project"]
        BY <1>0, <2>1, <2>2 DEF Delete
      <3> QED BY <2>1, <3>4, <3>5, <3>6 DEF InvoiceMirror!Next, InvoiceMirror!Drop
    <2>3. CASE result.prune = "project"
      <3>1. /\ table'["invoice"] = {i \in table["invoice"] : InvoiceProject[i] # g}
            /\ table'["project"] = table["project"] \ {g}
        BY <1>0, <2>1, <2>3 DEF Delete
      <3>2. seen["project"][g] > 0
        BY <2>1, <2>3 DEF NextPrunable, Prunable
      <3>3. g \in Projects
        BY <1>0, <3>2 DEF KnownIds, NotCached
      <3> QED BY <2>1, <3>1, <3>3 DEF InvoiceMirror!Next, InvoiceMirror!LoseParent
    <2>4. CASE result.prune \notin {"invoice", "project"}
      <3>1. /\ table'["invoice"] = table["invoice"]
            /\ table'["project"] = table["project"]
        BY <1>0, <2>1, <2>4 DEF Delete
      <3> QED BY <2>1, <3>1
    <2> QED BY <2>2, <2>3, <2>4
  <1> QED BY NextCases, <1>2, <1>3, <1>4, <1>5, <1>6, <1>7, <1>8, <1>9, <1>a,
             <1>b, <1>c

(* The chain with its phases, pages, caches, failures and restarts implements *)
(* Mirror: an invoice row appears only for an id of the answer at hand, which *)
(* Bexio had when it answered, and after its project, and disappears only     *)
(* once Bexio deleted the id or with that project.                            *)
THEOREM Refinement == Spec => ImplementsMirror
  <1>1. IndInv /\ [Next]_vars =>
          [InvoiceMirror!Next]_<<[id \in Invoices |-> remote["invoice"][id]],
                                 table["invoice"], table["project"],
                                 IF Res = "invoice" THEN page ELSE {}>>
    BY MirrorStep
  <1> QED BY MirrorInit, IndInvariant, <1>1, PTL
          DEF Spec, ImplementsMirror, InvoiceMirror!Spec
=============================================================================
