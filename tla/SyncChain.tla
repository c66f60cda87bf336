----------------------------- MODULE SyncChain -----------------------------
(***************************************************************************)
(* The sync chain: the one thread of bx-sync that copies contacts,         *)
(* projects and invoices from Bexio into MySQL, page by page, and deletes  *)
(* the rows of ids that Bexio no longer has (bx_chain.c, bx_walk.c,        *)
(* bx_prune.c, bx_ids_cache.c, and chain_thread of main.c).                *)
(*                                                                         *)
(* Between two loop iterations the thread keeps a cursor (phase, offset),  *)
(* two "started at offset 0" flags and, per resource, a cache of ids with  *)
(* the version in which each was last seen.  The database keeps the rows   *)
(* and one copy of the cursor, which is all that survives a crash.  Bexio  *)
(* changes at any time.                                                    *)
(*                                                                         *)
(* Names follow the code.  The content of a row, its checksum and its      *)
(* sub-objects are left out: an id has a row or it has none.               *)
(***************************************************************************)
EXTENDS Integers, FiniteSets

CONSTANTS
  Contacts, Projects, Invoices,  \* ids Bexio may hand out, per resource
  ProjectContact,  \* contact_id of a project, 0 for none
  InvoiceContact,  \* contact_id of an invoice, 0 for none
  InvoiceProject,  \* project_id of an invoice, 0 for none
  PageSize,        \* BXILL_LIST_LIMIT
  Drift,           \* prune-drift, BXILL_DEFAULT_DRIFT when it is 0
  ExitMax,         \* BXILL_THREAD_EXIT_MAX_COUNT
  IntMax,          \* INT_MAX, the largest offset the cursor can hold
  VersionMax,      \* UINT64_MAX, where a cache version starts over
  MaxFaults,       \* bound on failures, crashes and skipped rows
  MaxCreates,      \* bound on ids Bexio creates after the start
  MaxRemovals,     \* bound on ids Bexio deletes, archives or restores
  MaxChanges       \* bound on both together

Ids == Contacts \cup Projects \cup Invoices
Resource == {"contact", "project", "invoice"}
Members(r) == CASE r = "contact" -> Contacts
                [] r = "project" -> Projects
                [] r = "invoice" -> Invoices

ASSUME IdsAssumption ==
  /\ Ids \subseteq Nat \ {0}
  /\ ProjectContact \in [Projects -> Contacts \cup {0}]
  /\ InvoiceContact \in [Invoices -> Contacts \cup {0}]
  /\ InvoiceProject \in [Invoices -> Projects \cup {0}]

ASSUME BoundsAssumption ==
  /\ PageSize \in Nat \ {0} /\ Drift \in Nat \ {0}
  /\ ExitMax \in Nat /\ IntMax \in Nat /\ VersionMax \in Nat
  /\ VersionMax > 2
  /\ MaxFaults \in Nat /\ MaxCreates \in Nat /\ MaxRemovals \in Nat
  /\ MaxChanges \in Nat

Phase == {"contact-active", "contact-archived", "project",
          "invoice-list", "invoice-missed"}
ResourceOf(phase) ==
  CASE phase \in {"contact-active", "contact-archived"} -> "contact"
    [] phase = "project" -> "project"
    [] phase \in {"invoice-list", "invoice-missed"} -> "invoice"
Cursor == [phase : Phase, offset : Nat]
Error == {"None", "Generic", "Reconnect"}
Status == {"unborn", "live", "archived", "gone"}

VARIABLES
  remote,   \* what Bexio holds: per resource, the status of each id
  table,    \* per resource, the ids that have a row in MySQL
  stored,   \* the sync-chain row of _configuration
  cursor, contact_from_zero, invoice_from_zero,  \* statics of bx_chain.c
  from_zero,   \* local of bx_chain_sync: this walk started at offset 0
  version,  \* per resource, Cache.version
  seen,     \* per resource, last_seen of each id; 0 is a tombstone,
            \* NotCached an id the cache does not hold
  iter,     \* last id a cache iterator returned
  page,     \* ids of the answer at hand that are still to be worked through
  pc,       \* where the thread is
  result,   \* what bx_chain_sync returned: error, bump and prune
  conn,     \* the thread's MYSQL handle
  stmt,     \* whether the prune statements belong to that handle
  error_counter,
  faults, creates, removals,  \* use of the bounds
  listed,   \* history: per resource, ids this walk worked through
  covered,  \* history: per phase, ids worked through or created since the
            \* phase last began with nothing of it saved
  doubtful  \* history: resources whose version started over, or for which the
            \* answer to a DELETE was lost, in this process

bexio == <<remote, creates, removals>>
flags == <<contact_from_zero, invoice_from_zero, from_zero>>
cache == <<version, seen, doubtful>>
link == <<conn, stmt, error_counter>>
history == <<listed, covered>>
vars == <<bexio, table, stored, cursor, flags, cache, iter, page, pc, result,
          link, faults, history>>

NotCached == -1

-----------------------------------------------------------------------------
(* Bexio *)

(* One list endpoint: what a phase walks. *)
List(phase) ==
  {id \in Ids : remote[ResourceOf(phase)][id] =
                  IF phase = "contact-archived" THEN "archived" ELSE "live"}

(* The page a list request returns: PageSize ids from an offset, by id. *)
Rank(S, id) == Cardinality({other \in S : other <= id})
Page(S, offset) ==
  {id \in S : offset < Rank(S, id) /\ Rank(S, id) <= offset + PageSize}

SetStatus(r, id, status) ==
  remote' = [remote EXCEPT ![r][id] = status]

BexioUnchanged == UNCHANGED <<table, stored, cursor, flags, cache, iter, page,
                              pc, result, link, faults, listed>>

Changes == creates + removals < MaxChanges

(* Ids are handed out in increasing order and never twice. *)
Create(r, id) ==
  /\ creates < MaxCreates /\ creates' = creates + 1 /\ Changes
  /\ remote[r][id] = "unborn"
  /\ \A other \in Members(r) : other > id => remote[r][other] = "unborn"
  /\ SetStatus(r, id, "live")
  /\ covered' = [phase \in Phase |->
       covered[phase] \cup IF ResourceOf(phase) = r THEN {id} ELSE {}]
  /\ BexioUnchanged /\ UNCHANGED removals

Remove(r, id, status) ==
  /\ removals < MaxRemovals /\ removals' = removals + 1 /\ Changes
  /\ \/ remote[r][id] \in {"live", "archived"} /\ status = "gone"
     \/ r = "contact" /\ remote[r][id] = "live" /\ status = "archived"
     \/ r = "contact" /\ remote[r][id] = "archived" /\ status = "live"
  /\ SetStatus(r, id, status)
  /\ BexioUnchanged /\ UNCHANGED <<creates, covered>>

-----------------------------------------------------------------------------
(* The id cache *)

Prunable(r, drift) ==
  {id \in Ids : /\ version[r] > drift
                /\ seen[r][id] > 0
                /\ seen[r][id] <= version[r] - drift}

(* cache_iter_next_prunable_id *)
NextPrunable(r, drift, id) ==
  /\ id \in Prunable(r, drift) /\ id > iter
  /\ \A other \in Prunable(r, drift) : other > iter => id <= other

NoPrunable(r, drift) == \A id \in Prunable(r, drift) : id <= iter

Wraps(r) == version[r] + 1 = VersionMax

(* Mutant of cache_next_version: the version never starts over. *)
NextVersionNeverWraps(bump) ==
  /\ version' = [r \in Resource |->
       IF r \in bump THEN version[r] + 1 ELSE version[r]]
  /\ UNCHANGED <<seen, doubtful>>

(* cache_next_version: at the end of the range every held id starts over. *)
cache_next_version(bump) ==
  /\ version' = [r \in Resource |->
       IF r \notin bump THEN version[r]
       ELSE IF Wraps(r) THEN 1 ELSE version[r] + 1]
  /\ seen' = [r \in Resource |->
       IF r \in bump /\ Wraps(r)
       THEN [id \in Ids |-> IF seen[r][id] = NotCached THEN NotCached ELSE 1]
       ELSE seen[r]]
  /\ doubtful' = doubtful \cup {r \in bump : Wraps(r)}

-----------------------------------------------------------------------------
(* Rows *)

(* The foreign keys the code checks before it writes a row. *)
RefsPresent(r, id) ==
  CASE r = "contact" -> TRUE
    [] r = "project" -> ProjectContact[id] \in table["contact"] \cup {0}
    [] r = "invoice" -> /\ InvoiceContact[id] \in table["contact"] \cup {0}
                        /\ InvoiceProject[id] \in table["project"] \cup {0}

(* Ids of a page the cache does not know and an INSERT IGNORE can store: a  *)
(* row that is already there makes the insert warn, and is not cached.      *)
Fresh(r, ids) ==
  {id \in ids \cap Members(r) : /\ seen[r][id] <= 0
                                /\ id \notin table[r]
                                /\ RefsPresent(r, id)}

(* Mutant of SyncItems: an item is cached before its references are checked. *)
SyncItemsCachesFirst(r, ids, kept, torn) ==
  /\ table' = [table EXCEPT ![r] = @ \cup kept \cup torn]
  /\ seen' = [seen EXCEPT ![r] = [id \in Ids |->
       IF id \in kept \cup ids THEN version[r] ELSE seen[r][id]]]
  /\ UNCHANGED <<version, doubtful>>

(* The items of `ids` went through *_sync_item: `kept` were inserted and    *)
(* cached, `torn` inserted only.  A held id is seen, whatever else happens. *)
SyncItems(r, ids, kept, torn) ==
  /\ table' = [table EXCEPT ![r] = @ \cup kept \cup torn]
  /\ seen' = [seen EXCEPT ![r] = [id \in Ids |->
       IF id \in kept \/ (id \in ids /\ seen[r][id] > 0)
       THEN version[r] ELSE seen[r][id]]]
  /\ UNCHANGED <<version, doubtful>>

(* ON DELETE RESTRICT from pr_project and invoice to contact. *)
Restricted(r, id) ==
  /\ r = "contact"
  /\ \/ \E p \in table["project"] : ProjectContact[p] = id
     \/ \E i \in table["invoice"] : InvoiceContact[i] = id

(* DELETE FROM ... WHERE id; ON DELETE CASCADE from invoice to pr_project. *)
Delete(r, id) ==
  table' = [s \in Resource |->
    IF s = r THEN table[s] \ {id}
    ELSE IF r = "project" /\ s = "invoice"
         THEN {i \in table[s] : InvoiceProject[i] # id}
         ELSE table[s]]

-----------------------------------------------------------------------------
(* bx_chain_sync *)

Fault == faults < MaxFaults /\ faults' = faults + 1

(* fail_resource: the phase stays, the version moves, the answer is freed. *)
FailResource(error, bump) ==
  /\ result' = [error |-> error, bump |-> bump, prune |-> "none"]
  /\ pc' = "handle" /\ page' = {}

(* The resource of the current phase. *)
Res == ResourceOf(cursor.phase)

(* Top of the loop of chain_thread, and the start of bx_chain_sync. *)
CallSync ==
  /\ pc = "top" /\ conn = "up"
  /\ pc' = IF cursor.phase = "invoice-missed" THEN "missed" ELSE "walk"
  /\ from_zero' = (cursor.offset = 0)
  /\ contact_from_zero' =
       (contact_from_zero /\ cursor.phase # "contact-active")
  /\ invoice_from_zero' = (invoice_from_zero /\ cursor.phase # "invoice-list")
  /\ iter' = 0
  /\ listed' = IF cursor.offset = 0
                   /\ cursor.phase \in {"contact-active", "project",
                                        "invoice-list"}
               THEN [listed EXCEPT ![Res] = {}] ELSE listed
  /\ covered' = IF cursor.offset = 0
                   /\ (stored.phase = cursor.phase => stored.offset = 0)
                THEN [covered EXCEPT ![cursor.phase] = {}] ELSE covered
  /\ UNCHANGED <<bexio, table, stored, cursor, cache, page, result, link, faults>>

(* The handle was lost and never came back. *)
CallSyncNoConn ==
  /\ pc = "top" /\ conn = "null"
  /\ FailResource("Generic", {})
  /\ UNCHANGED <<bexio, table, stored, cursor, flags, cache, iter, link,
                 faults, history>>

(* What a list request from the cursor's offset returns. *)
NextPage == Page(List(cursor.phase), cursor.offset)

(* bx_walk_pages_from: the answer is at hand; Bexio may change behind it. *)
FetchPage ==
  /\ pc = "walk" /\ NextPage # {}
  /\ page' = NextPage /\ pc' = "items"
  /\ UNCHANGED <<bexio, table, stored, cursor, flags, cache, iter, result, link,
                 faults, history>>

(* No answer, or one that is no JSON array. *)
FetchFails ==
  /\ pc = "walk" /\ Fault
  /\ FailResource("Generic", {Res})
  /\ UNCHANGED <<bexio, table, stored, cursor, flags, cache, iter, link, history>>

AtItem(id) == pc = "items" /\ id \in page /\ \A other \in page : id <= other

(* The sync callback let the page go on: the next item, or the checkpoint. *)
ItemPassed(id) ==
  /\ page' = page \ {id}
  /\ pc' = IF page = {id} THEN "checkpoint" ELSE "items"
  /\ listed' = [listed EXCEPT ![Res] = @ \cup {id}]
  /\ covered' = [covered EXCEPT ![cursor.phase] = @ \cup {id}]
  /\ UNCHANGED <<bexio, stored, cursor, flags, iter, result, link>>

(* The row is stored, or skipped for a missing reference.  An invoice that    *)
(* was deleted since the answer is stored all the same, unless the GET of its *)
(* full form is what tells: then an error body is decoded in its place.       *)
ItemSynced(id) ==
  /\ AtItem(id) /\ ItemPassed(id) /\ UNCHANGED faults
  /\ \/ SyncItems(Res, {id}, Fresh(Res, {id}), {})
     \/ /\ Res = "invoice" /\ remote["invoice"][id] = "gone"
        /\ SyncItems(Res, {id}, {}, {})

(* A row is not stored although it could be (persist failure, user missing) *)
(* or, for an invoice, stored without its positions; the page still counts. *)
ItemSkipped(id) ==
  /\ AtItem(id) /\ ItemPassed(id) /\ Fault
  /\ \E torn \in SUBSET Fresh(Res, {id}) :
       /\ Fresh(Res, {id}) # {} /\ (Res # "invoice" => torn = {})
       /\ SyncItems(Res, {id}, {}, torn)

(* Mutant of ItemFails: the page is saved as done before its items are.      *)
ItemFailsAfterSave(id) ==
  /\ AtItem(id) /\ Fault
  /\ cursor' = [cursor EXCEPT !.offset = @ + PageSize]
  /\ stored' = cursor'
  /\ FailResource("Reconnect", {Res})
  /\ UNCHANGED <<bexio, table, flags, cache, iter, link, history>>

(* An item stops the page.  Contacts only let ErrorSQLReconnect through.     *)
(* The item itself was "done" (stored, or only seen), or "torn" (its row was  *)
(* inserted but the answer was lost, or the positions failed), or neither.    *)
ItemFails(id) ==
  /\ AtItem(id) /\ Fault
  /\ \E error \in {"Generic", "Reconnect"}, item \in {"none", "torn", "done"} :
       /\ error = "Generic" =>
            /\ Res # "contact" /\ item # "torn"
            /\ item = "done" => Fresh(Res, {id}) = {}
       /\ SyncItems(Res, IF item = "done" THEN {id} ELSE {},
                    IF item = "done" THEN Fresh(Res, {id}) ELSE {},
                    IF item = "torn" THEN Fresh(Res, {id}) ELSE {})
       /\ FailResource(error, {Res})
  /\ UNCHANGED <<bexio, stored, cursor, flags, iter, link, history>>

(* on_validated_page, checkpoint: first the row, then the cursor. *)
Checkpoint ==
  LET next == [cursor EXCEPT !.offset = @ + PageSize]
  IN  /\ pc = "checkpoint" /\ next.offset <= IntMax
      /\ stored' = next /\ cursor' = next
      /\ pc' = "walk"
      /\ UNCHANGED <<bexio, table, flags, cache, iter, page, result, link,
                     faults, history>>

(* The offset is out of range, or the save fails; the row may be written all *)
(* the same.                                                                 *)
CheckpointFails ==
  LET next == [cursor EXCEPT !.offset = @ + PageSize]
  IN  /\ pc = "checkpoint"
      /\ IF next.offset > IntMax THEN UNCHANGED <<stored, faults>>
         ELSE stored' \in {stored, next} /\ Fault
      /\ FailResource("Generic", {Res})
      /\ UNCHANGED <<bexio, table, cursor, flags, cache, iter, link, history>>

(* The page after the last one is empty: the walk is over. *)
WalkOver(phase) ==
  /\ pc = "walk" /\ cursor.phase = phase
  /\ NextPage = {}

(* advance_phase and finish_resource: first the cursor, then the row.  *)
(* `bump` are the versions to move, `prune` whether ids may be pruned. *)
Finish(next, bump, prune) ==
  \E saved \in BOOLEAN :
    /\ cursor' = [phase |-> next, offset |-> 0]
    /\ IF saved THEN stored' = cursor' /\ UNCHANGED faults
                ELSE stored' \in {stored, cursor'} /\ Fault
    /\ result' = [error |-> IF saved THEN "None" ELSE "Generic",
                  bump |-> IF saved THEN bump ELSE {Res},
                  prune |-> IF saved /\ prune THEN Res ELSE "none"]
    /\ pc' = IF saved /\ prune THEN "prune" ELSE "handle"
    /\ iter' = 0
    /\ UNCHANGED <<bexio, table, from_zero, cache, page, link, history>>

FinishActive ==
  /\ WalkOver("contact-active")
  /\ contact_from_zero' = from_zero /\ UNCHANGED invoice_from_zero
  /\ Finish("contact-archived", {}, FALSE)

FinishArchived ==
  /\ WalkOver("contact-archived")
  /\ contact_from_zero' = FALSE /\ UNCHANGED invoice_from_zero
  /\ Finish("project", {"contact"}, contact_from_zero)

(* Mutant of FinishProject: a resumed walk is pruned too. *)
FinishProjectAlwaysPrunes ==
  /\ WalkOver("project")
  /\ UNCHANGED <<contact_from_zero, invoice_from_zero>>
  /\ Finish("invoice-list", {"project"}, TRUE)

FinishProject ==
  /\ WalkOver("project")
  /\ UNCHANGED <<contact_from_zero, invoice_from_zero>>
  /\ Finish("invoice-list", {"project"}, from_zero)

FinishInvoiceList ==
  /\ WalkOver("invoice-list")
  /\ invoice_from_zero' = from_zero /\ UNCHANGED contact_from_zero
  /\ IF from_zero THEN Finish("invoice-missed", {}, FALSE)
                  ELSE Finish("contact-active", {"invoice"}, FALSE)

(* Mutant of MissedGet: a 200 does not mark the invoice seen. *)
MissedGetForgets(id) ==
  /\ pc = "missed" /\ NextPrunable("invoice", 1, id)
  /\ iter' = id
  /\ UNCHANGED <<bexio, table, stored, cursor, flags, cache, page, pc, result,
                 link, faults, history>>

(* invoice_fetch_missed: GET every held invoice the list did not show.  404 *)
(* leaves it unseen, 200 marks it seen.                                     *)
MissedGet(id) ==
  /\ pc = "missed" /\ NextPrunable("invoice", 1, id)
  /\ IF remote["invoice"][id] = "live"
     THEN SyncItems("invoice", {id}, {}, {})
     ELSE UNCHANGED <<table, cache>>
  /\ iter' = id
  /\ UNCHANGED <<bexio, stored, cursor, flags, page, pc, result, link, faults,
                 history>>

(* Mutant of MissedGetFails: a GET that fails is taken for a 404. *)
MissedGetFailsAs404(id) ==
  /\ pc = "missed" /\ NextPrunable("invoice", 1, id)
  /\ Fault /\ iter' = id
  /\ UNCHANGED <<bexio, table, stored, cursor, flags, cache, page, pc, result,
                 link, history>>

(* No answer, or neither 200 nor 404. *)
MissedGetFails(id) ==
  /\ pc = "missed" /\ NextPrunable("invoice", 1, id)
  /\ Fault
  /\ FailResource("Generic", {"invoice"})
  /\ UNCHANGED <<bexio, table, stored, cursor, flags, cache, iter, link, history>>

(* 200, but a query fails once the invoice is marked seen. *)
MissedItemFails(id) ==
  /\ pc = "missed" /\ NextPrunable("invoice", 1, id)
  /\ remote["invoice"][id] = "live" /\ Fault
  /\ SyncItems("invoice", {id}, {}, {})
  /\ \E error \in {"Generic", "Reconnect"} : FailResource(error, {"invoice"})
  /\ UNCHANGED <<bexio, stored, cursor, flags, iter, link, history>>

(* Mutant of FinishMissed: the phase does not go on to the contacts. *)
FinishMissedStays ==
  /\ pc = "missed" /\ NoPrunable("invoice", 1)
  /\ invoice_from_zero' = FALSE /\ UNCHANGED contact_from_zero
  /\ Finish("invoice-missed", {"invoice"}, invoice_from_zero)

FinishMissed ==
  /\ pc = "missed" /\ NoPrunable("invoice", 1)
  /\ invoice_from_zero' = FALSE /\ UNCHANGED contact_from_zero
  /\ Finish("contact-active", {"invoice"}, invoice_from_zero)

-----------------------------------------------------------------------------
(* bx_prune_items *)

PruneDelete(id) ==
  /\ pc = "prune" /\ NextPrunable(result.prune, Drift, id)
  /\ stmt = "bound" /\ ~Restricted(result.prune, id)
  /\ Delete(result.prune, id)
  /\ seen' = [seen EXCEPT ![result.prune][id] = 0]
  /\ iter' = id
  /\ UNCHANGED <<bexio, stored, cursor, flags, version, doubtful, page, pc,
                 result, link, faults, history>>

(* The first DELETE that fails ends the pass: a statement of a closed       *)
(* handle always, a row others refer to, or any error of the server.        *)
PruneFails(id) ==
  /\ pc = "prune" /\ NextPrunable(result.prune, Drift, id)
  /\ \E error \in {"Generic", "Reconnect"} :
       /\ IF stmt = "stale" THEN error = "Reconnect" /\ UNCHANGED faults
          ELSE IF Restricted(result.prune, id)
               THEN error = "Generic" /\ UNCHANGED faults
               ELSE Fault
       /\ result' = [result EXCEPT !.error = error]
  /\ pc' = "handle"
  /\ UNCHANGED <<bexio, table, stored, cursor, flags, cache, iter, page, link,
                 history>>

(* The row is deleted, the answer is lost: the cache still holds the id. *)
PruneAnswerLost(id) ==
  /\ pc = "prune" /\ NextPrunable(result.prune, Drift, id)
  /\ stmt = "bound" /\ ~Restricted(result.prune, id) /\ Fault
  /\ Delete(result.prune, id)
  /\ doubtful' = doubtful \cup {result.prune}
  /\ result' = [result EXCEPT !.error = "Reconnect"]
  /\ pc' = "handle"
  /\ UNCHANGED <<bexio, stored, cursor, flags, version, seen, iter, page, link,
                 history>>

(* cache_prune: tombstones leave the cache. *)
PruneDone ==
  /\ pc = "prune" /\ NoPrunable(result.prune, Drift)
  /\ seen' = [seen EXCEPT ![result.prune] = [id \in Ids |->
       IF seen[result.prune][id] = 0 THEN NotCached ELSE seen[result.prune][id]]]
  /\ pc' = "handle"
  /\ UNCHANGED <<bexio, table, stored, cursor, flags, version, doubtful, iter,
                 page, result, link, faults, history>>

-----------------------------------------------------------------------------
(* The rest of the loop body: thread_handle_error, then the versions *)

(* Mutant of Bumped: the versions stand still. *)
NotBumped == UNCHANGED cache /\ pc' = "top"

Bumped == cache_next_version(result.bump) /\ pc' = "top"

HandleUnchanged == UNCHANGED <<bexio, table, stored, cursor, flags, iter, page,
                               result, history>>

HandleOk ==
  /\ pc = "handle" /\ result.error = "None"
  /\ error_counter' = 0 /\ UNCHANGED <<conn, stmt, faults>>
  /\ Bumped
  /\ HandleUnchanged

CountError ==
  IF error_counter > ExitMax
  THEN pc' = "exited" /\ UNCHANGED <<cache, error_counter>>
  ELSE error_counter' = error_counter + 1 /\ Bumped

(* The ping answers, or there is no handle to ping. *)
HandleError ==
  /\ pc = "handle" /\ result.error = "Generic"
  /\ CountError
  /\ UNCHANGED <<conn, stmt, faults>>
  /\ HandleUnchanged

(* thread_reconnect, for ErrorSQLReconnect or when the ping finds the       *)
(* connection gone.  The new handle may get the address of the freed one,   *)
(* at every reconnection: then `conn != prev_conn` is false and the old      *)
(* statements stay.                                                          *)
HandleReconnect ==
  /\ pc = "handle" /\ result.error # "None" /\ conn = "up"
  /\ IF result.error = "Reconnect" THEN UNCHANGED faults ELSE Fault
  /\ \E same_address \in BOOLEAN :
       stmt' = IF same_address THEN "stale" ELSE "bound"
  /\ error_counter' = 0 /\ UNCHANGED conn
  /\ Bumped
  /\ HandleUnchanged

(* The reconnection fails: thread_reconnect returned NULL. *)
HandleReconnectFails ==
  /\ pc = "handle" /\ result.error # "None" /\ conn = "up"
  /\ Fault
  /\ conn' = "null" /\ UNCHANGED stmt
  /\ CountError
  /\ HandleUnchanged

(* rebuild_prune_query fails after a reconnection: the thread ends. *)
RebuildFails ==
  /\ pc = "handle" /\ result.error # "None" /\ conn = "up"
  /\ Fault
  /\ error_counter' = 0 /\ stmt' = "stale" /\ pc' = "exited"
  /\ UNCHANGED <<conn, cache>>
  /\ HandleUnchanged

-----------------------------------------------------------------------------
(* The process *)

(* The process stops and memory is lost: a crash, or a stop of a process    *)
(* whose chain thread has ended.                                            *)
Crash ==
  /\ pc # "down"
  /\ IF pc = "exited" THEN UNCHANGED faults ELSE Fault
  /\ pc' = "down" /\ page' = {}
  /\ UNCHANGED <<bexio, table, stored, cursor, flags, cache, iter, result, link,
                 history>>

(* bx_chain_init, then the setup of chain_thread.  When _configuration cannot *)
(* be read main keeps the values of the file, which has no cursor.  A SELECT  *)
(* that fails leaves that cache empty and is not tried again (hydrate_cache). *)
Start ==
  /\ pc = "down"
  /\ cursor' \in {stored, [phase |-> "contact-active", offset |-> 0]}
  /\ contact_from_zero' = FALSE /\ invoice_from_zero' = FALSE
  /\ from_zero' = FALSE
  /\ version' = [r \in Resource |-> 1] /\ doubtful' = {}
  /\ \E failed \in {{}} \cup {{r} : r \in Resource} :
       /\ IF failed = {} /\ cursor' = stored THEN UNCHANGED faults ELSE Fault
       /\ seen' = [r \in Resource |-> [id \in Ids |->
            IF id \in table[r] /\ r \notin failed THEN 1 ELSE NotCached]]
  /\ iter' = 0
  /\ conn' = "up" /\ stmt' = "bound" /\ error_counter' = 0
  /\ result' = [error |-> "None", bump |-> {}, prune |-> "none"]
  /\ pc' = "top"
  /\ UNCHANGED <<bexio, table, stored, page, history>>

(* thread_setup_mysql fails: the thread ends before its first call. *)
StartFails ==
  /\ pc = "down" /\ Fault
  /\ pc' = "exited"
  /\ UNCHANGED <<bexio, table, stored, cursor, flags, cache, iter, page, result,
                 link, history>>

Init ==
  /\ remote \in [Resource -> [Ids -> {"unborn", "live"}]]
  /\ \A r \in Resource : \A id \in Ids :
       remote[r][id] = "live" =>
         id \in Members(r) /\ \A other \in Members(r) :
                                 other < id => remote[r][other] = "live"
  /\ table = [r \in Resource |-> {}]
  /\ stored = [phase |-> "contact-active", offset |-> 0]
  /\ cursor = stored
  /\ contact_from_zero = FALSE /\ invoice_from_zero = FALSE
  /\ from_zero = FALSE
  /\ version = [r \in Resource |-> 1]
  /\ seen = [r \in Resource |-> [id \in Ids |-> NotCached]]
  /\ iter = 0 /\ page = {}
  /\ pc = "down"
  /\ result = [error |-> "None", bump |-> {}, prune |-> "none"]
  /\ conn = "null" /\ stmt = "bound" /\ error_counter = 0
  /\ faults = 0 /\ creates = 0 /\ removals = 0
  /\ listed = [r \in Resource |-> {}] /\ covered = [phase \in Phase |-> {}]
  /\ doubtful = {}

(* What Bexio does. *)
BexioNext ==
  \E r \in Resource : \E id \in Members(r) :
    Create(r, id) \/ \E status \in Status : Remove(r, id, status)

(* What the thread does when nothing goes wrong under it. *)
ThreadNext ==
  \/ CallSync \/ CallSyncNoConn \/ FetchPage
  \/ (\E id \in Ids : ItemSynced(id)) \/ Checkpoint
  \/ FinishActive \/ FinishArchived \/ FinishProject \/ FinishInvoiceList
  \/ (\E id \in Ids : MissedGet(id)) \/ FinishMissed
  \/ (\E id \in Ids : PruneDelete(id) \/ PruneFails(id)) \/ PruneDone
  \/ HandleOk \/ HandleError \/ HandleReconnect
  \/ Start

FaultNext ==
  \/ FetchFails \/ (\E id \in Ids : ItemSkipped(id) \/ ItemFails(id))
  \/ CheckpointFails
  \/ (\E id \in Ids : \/ MissedGetFails(id) \/ MissedItemFails(id)
                     \/ PruneAnswerLost(id))
  \/ HandleReconnectFails \/ RebuildFails \/ Crash \/ StartFails

Next == BexioNext \/ ThreadNext \/ FaultNext

Spec == Init /\ [][Next]_vars

(* The thread is always runnable; the process is started again when it is   *)
(* down (systemd).  Nothing is assumed of Bexio or of the failures.         *)
FairSpec == Spec /\ WF_vars(ThreadNext)

-----------------------------------------------------------------------------
(* Properties *)

(* Every variable holds a value the code can produce. *)
TypeOK ==
  /\ remote \in [Resource -> [Ids -> Status]]
  /\ table \in [Resource -> SUBSET Ids]
  /\ stored \in Cursor /\ cursor \in Cursor
  /\ contact_from_zero \in BOOLEAN /\ invoice_from_zero \in BOOLEAN
  /\ from_zero \in BOOLEAN
  /\ version \in [Resource -> 1 .. VersionMax - 1]
  /\ seen \in [Resource -> [Ids -> -1 .. VersionMax - 1]]
  /\ iter \in Ids \cup {0} /\ page \in SUBSET Ids
  /\ pc \in {"down", "top", "walk", "items", "checkpoint", "missed", "prune",
             "handle", "exited"}
  /\ result \in [error : Error, bump : SUBSET Resource,
                 prune : Resource \cup {"none"}]
  /\ conn \in {"up", "null"} /\ stmt \in {"bound", "stale"}
  /\ error_counter \in 0 .. ExitMax + 1
  /\ faults \in 0 .. MaxFaults /\ creates \in 0 .. MaxCreates
  /\ removals \in 0 .. MaxRemovals
  /\ listed \in [Resource -> SUBSET Ids] /\ covered \in [Phase -> SUBSET Ids]

(* A step of bx_prune_items that removes the row of an id of r. *)
Pruned(r, id) == /\ pc = "prune" /\ result.prune = r
                 /\ id \in table[r] /\ id \notin table'[r]

(* Prune never deletes an invoice Bexio still has: whatever pages shifted,  *)
(* failed or were cut short, each id it reaches answered 404 in the missed  *)
(* pass of the same version (invoice_fetch_missed, bx_prune_items).         *)
InvoicePruneSafe ==
  [][\A id \in Ids : Pruned("invoice", id) => remote["invoice"][id] = "gone"]_vars

(* Prune never deletes a project that the walk just finished has listed:    *)
(* from_zero is only true for a walk made in one call, hence one version.   *)
ProjectPruneSparesListed ==
  [][\A id \in Ids : Pruned("project", id) => id \notin listed["project"]]_vars

(* The same for contacts, whose walk is two phases and two calls, when the    *)
(* archived phase was resumed (README.md: "A phase resumed in the middle is   *)
(* not pruned", since prune would delete rows of pages synced before).        *)
ResumedContactsSpared ==
  [][\A id \in Ids : Pruned("contact", id) /\ ~from_zero
                     => id \notin listed["contact"]]_vars

(* What the cache of r holds has a row, so an unchanged item may be skipped  *)
(* (invoice.c: "0 means in database with same hash").                         *)
CachedHasRow(r) ==
  r \notin doubtful => \A id \in Ids : seen[r][id] > 0 => id \in table[r]

(* It is so for contacts and projects, through inserts that fail or whose     *)
(* answer is lost, prunes that stop half-way and restarts.                    *)
ParentCachedHasRow == CachedHasRow("contact") /\ CachedHasRow("project")

(* And for invoices, whose rows a pruned project takes along.                 *)
InvoiceCachedHasRow == CachedHasRow("invoice")

(* While Bexio only adds ids, a phase ends only when every id its list had at *)
(* the start was on a page that was worked through to its end: no failed page, *)
(* failed save, crash or restart makes the cursor step over one (checkpoint,   *)
(* advance_phase).  An id created meanwhile may wait for the next walk, when   *)
(* the offset has already moved a whole page past a short one.                 *)
PhaseCoversList ==
  [][removals = 0 /\ pc = "walk" /\ cursor'.phase # cursor.phase =>
       List(cursor.phase) \subseteq covered[cursor.phase]]_vars

(* When Bexio rests for long enough, no held row of a project or invoice that  *)
(* it deleted is left, unless the thread gave up, or works with the statements *)
(* of a closed handle, which may go on for ever: each reconnection may find    *)
(* the freed address again.  Other failures, restarts and resumed phases only  *)
(* delay the prune.                                                            *)
GoneRowsPruned ==
  []<>(\/ pc = "exited" \/ stmt = "stale"
       \/ \A r \in {"project", "invoice"} : \A id \in table[r] :
            remote[r][id] = "gone" => seen[r][id] <= 0)

(* When Bexio rests for long enough, every id it has has a row, unless the     *)
(* thread gave up, a row the id refers to is missing, or the cache takes the   *)
(* id for stored: its row went with a pruned project, or in a DELETE whose     *)
(* answer was lost (CachedHasRow).                                             *)
LiveIdsStored ==
  []<>(\/ pc = "exited"
       \/ \A r \in Resource : \A id \in Members(r) \ table[r] :
            \/ remote[r][id] # "live" \/ ~RefsPresent(r, id)
            \/ seen[r][id] > 0)

(* The invoices the chain keeps are a Mirror of Bexio's: a row is stored only *)
(* for an id of the answer at hand, which Bexio had when it answered, and     *)
(* after its project, and disappears only once Bexio deleted the id or in the *)
(* step that prunes its project.                                              *)
InvoiceMirror == INSTANCE Mirror
  WITH Items <- Invoices, Parents <- Projects, Parent <- InvoiceProject,
       status <- [id \in Invoices |-> remote["invoice"][id]],
       rows <- table["invoice"], parents <- table["project"],
       shown <- IF Res = "invoice" THEN page ELSE {}
ImplementsMirror == InvoiceMirror!Spec

-----------------------------------------------------------------------------
(* The parts of the inductive invariant from which the theorems follow *)

(* Only ids of the resource exist, only contacts are archived, and what has a *)
(* row or is held by a cache was once created.                                *)
KnownIds ==
  \A r \in Resource : \A id \in Ids :
    /\ id \notin Members(r) => remote[r][id] = "unborn"
    /\ r # "contact" => remote[r][id] # "archived"
    /\ id \in table[r] \/ seen[r][id] # NotCached => remote[r][id] # "unborn"

(* An answer is at hand while its items are worked through, and only then: it *)
(* holds ids of the list that were there when Bexio answered.                 *)
PageKnown ==
  /\ pc # "items" => page = {}
  /\ \A id \in page : id \in Members(Res) /\ remote[Res][id] # "unborn"

(* In the missed pass, the unseen invoices already passed are deleted ones.   *)
PassedAreGone ==
  pc = "missed" => \A id \in Prunable("invoice", 1) :
                     id <= iter => remote["invoice"][id] = "gone"

(* When prune runs on invoices, all unseen ones are.                          *)
UnseenAreGone ==
  pc = "prune" /\ result.prune = "invoice" =>
    \A id \in Prunable("invoice", 1) : remote["invoice"][id] = "gone"

(* In a project walk from offset 0, and in the prune after it, a project that *)
(* was listed and is held was seen in the current version.                    *)
ListedAreSeen ==
  \/ /\ pc \in {"walk", "items", "checkpoint"}
     /\ cursor.phase = "project" /\ from_zero
  \/ pc = "prune" /\ result.prune = "project"
  => \A id \in listed["project"] :
       seen["project"][id] > 0 => seen["project"][id] = version["project"]

(* The strengthening under which the safety properties are inductive.         *)
IndInv ==
  /\ TypeOK /\ KnownIds /\ PageKnown /\ PassedAreGone /\ UnseenAreGone
  /\ ListedAreSeen /\ ParentCachedHasRow
  /\ pc = "prune" => result.prune # "none"
  /\ pc = "missed" => cursor.phase = "invoice-missed"
=============================================================================
