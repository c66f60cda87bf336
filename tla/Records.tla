------------------------------ MODULE Records ------------------------------
(* What main and the data threads copy list by list: the lookups main loads   *)
(* before the threads start, the rounds of random_item_thread, and the        *)
(* contacts, projects and invoices of chain_thread with the rows that hang on *)
(* them (positions, lines, addresses, payments, comments).                    *)
(*                                                                            *)
(* The content of a row is a version number; a checksum tells versions apart. *)
(* A list is walked one item a page.  SyncChain has the cursor, the caches'   *)
(* versions and the prune of chain_thread; here its phases are three lists.   *)
(* One thread runs: "records" or "chain".  They write the same table only for *)
(* comments, and the comments of an instance have different ids.              *)
EXTENDS Integers, Sequences, FiniteSets, Functions

CONSTANTS
  Keys,        \* rows Bexio may have: [list, id, part, n]; part "row" is the item
  Absent,      \* those Bexio does not have at first
  Edited,      \* those that appear or change
  UnitOf,      \* per key, the id of the unit its foreign key names, or 0
  MaxVersion, MaxEdits, MaxRecFaults, MaxRestarts, RecExitMax

VARIABLES
  remote,      \* what Bexio holds: per key, its version, or 0
  rows,        \* what MySQL holds: per key, the version stored, or 0
  cache,       \* per item of chain_thread, the version cached, or 0
  thread,      \* the data thread that runs once main has started it
  role,        \* who runs: "main" or the thread
  pc,          \* "walk", "item", "round" or "exited"
  at,          \* index of the list being walked
  item,        \* id of the last item of that list, or 0
  plan,        \* parts of the item still to come
  todo,        \* keys of the current part still to store
  doc,         \* versions of the item's keys in the answer at hand
  item_error,  \* e of kb_doc_one
  short,       \* the GET of the document failed: its list form is at hand
  conn,        \* whether the MYSQL handle is there
  round_error, error_counter,
  walked,      \* history: lists walked in this round
  behind,      \* history: invoices taken for complete without their positions
  recFaults, edits, restarts

bexioVars == <<remote, edits, restarts>>
itemVars == <<plan, todo, doc, item_error, short>>
walkVars == <<role, pc, at, item, conn, round_error, error_counter, walked>>
recVars == <<bexioVars, rows, cache, behind, thread, walkVars, itemVars, recFaults>>

-----------------------------------------------------------------------------
(* Which lists are walked, in which order *)

NamedLookups ==
  {"communication_kind", "pr_project_state", "pr_project_type",
   "timesheet_status", "todo_status", "todo_priority", "stock", "stock_place"}
JsonLookups ==
  {"country", "account_group", "client_service", "bank_account",
   "company_profile", "calendar_year", "business_year", "vat_period"}
LookupsMore ==
  <<"country", "account_group", "communication_kind", "pr_project_state",
    "pr_project_type", "timesheet_status", "todo_status", "todo_priority",
    "stock", "stock_place", "client_service", "bank_account",
    "company_profile", "calendar_year", "business_year", "vat_period">>
UserLists == <<"users", "fictional_users">>
StartupLists ==
  <<"unit", "account", "salutation", "title", "payment_type", "currency",
    "contact_group", "language">> \o LookupsMore \o UserLists

Taxes == <<"taxes active", "taxes inactive">>
JsonRecords ==
  {"contact_relation", "article", "note", "task", "timesheet",
   "purchase_order", "purchase_bill", "expense"}
RecordsMore ==
  <<"contact_relation", "article", "note", "task", "timesheet",
    "purchase_order", "purchase_bill", "expense", "manual_entry">>
Sales == <<"kb_quote", "kb_order", "kb_delivery">>

Programs ==
  [main |-> StartupLists,
   records |-> Taxes \o RecordsMore \o Sales,
   chain |-> <<"contact", "project", "invoice">>]
Program == Programs[role]

(* Lists walked by one function: an error it does not swallow ends them all.  *)
Groups == {Range(g) : g \in {LookupsMore, UserLists, Taxes, RecordsMore, Sales}}
Group(list) == {list} \cup UNION {g \in Groups : list \in g}
GroupEnds(i, j) ==
  /\ j <= Len(Program) => Program[j] \notin Group(Program[i])
  /\ \A m \in i + 1 .. j - 1 : Program[m] \in Group(Program[i])

ChainLists == {"contact", "project", "invoice"}

(* Mutant of Plan: the invoice is cached before its positions are stored. *)
PlanCachesEarly(list) ==
  CASE list = "contact" -> <<"check", "row", "cache", "unlink", "cg2c", "additional_address">>
    [] list = "project" -> <<"check", "row", "cache", "project_milestone", "project_package">>
    [] list = "invoice" -> <<"check", "get", "row", "cache", "position">>
    [] list \in {"kb_quote", "kb_order"} -> <<"get", "row", "position", "kb_comment">>
    [] OTHER -> <<"row">>

(* The parts of an item, in the order they are worked on.                     *)
Plan(list) ==
  CASE list = "contact" -> <<"check", "row", "cache", "unlink", "cg2c", "additional_address">>
    [] list = "project" ->
         <<"check", "row", "cache", "project_milestone", "project_package">>
    [] list = "invoice" ->
         <<"check", "get", "row", "position", "cache", "invoice_payment",
           "invoice_reminder", "kb_comment">>
    [] list \in {"kb_quote", "kb_order"} -> <<"get", "row", "position", "kb_comment">>
    [] list = "kb_delivery" -> <<"get", "row", "kb_comment">>
    [] list = "manual_entry" -> <<"row", "line">>
    [] OTHER -> <<"row">>

(* Parts that are asked for with a request of their own.                      *)
SubLists ==
  {"additional_address", "project_milestone", "project_package",
   "invoice_payment", "invoice_reminder", "kb_comment"}

-----------------------------------------------------------------------------
List == Program[at]
RowKey(list, id) == [list |-> list, id |-> id, part |-> "row", n |-> 0]
Here == RowKey(List, item)
PartKeys(part) ==
  {k \in Keys : k.list = List /\ k.id = item /\ k.part = part}
Ids(list) == {k.id : k \in {k \in Keys : k.part = "row" /\ k.list = list}}
InBexio(list) == {id \in Ids(list) : remote[RowKey(list, id)] # 0}
NoDoc == [k \in {} |-> 0]

(* An instance: what hangs on an item has that item, and what is in an item's *)
(* own document is not there before the item.                                 *)
ASSUME RecordsAssumption ==
  /\ Keys \subseteq [list : STRING, id : Nat \ {0},
                     part : {"row", "position", "line", "cg2c"} \cup SubLists, n : Nat]
  /\ Absent \subseteq Keys /\ Edited \subseteq Keys
  /\ \A k \in Keys :
       LET row == RowKey(k.list, k.id) IN
       /\ row \in Keys /\ (k.part = "row" => k = row)
       /\ row \in Absent /\ k.part \notin SubLists => k \in Absent
  /\ MaxVersion \in Nat \ {0}
  /\ {MaxEdits, MaxRecFaults, MaxRestarts, RecExitMax} \subseteq Nat

RecInit(which) ==
  /\ remote = [k \in Keys |-> IF k \in Absent THEN 0 ELSE 1] /\ rows = [k \in Keys |-> 0]
  /\ cache = [k \in {k \in Keys : k.part = "row" /\ k.list \in ChainLists} |-> 0]
  /\ thread = which /\ role = "main"
  /\ pc = "walk" /\ at = 1 /\ item = 0
  /\ plan = <<>> /\ todo = {} /\ doc = NoDoc /\ item_error = "NoError" /\ short = FALSE
  /\ conn = TRUE /\ round_error = "NoError" /\ error_counter = 0
  /\ walked = {} /\ behind = {} /\ recFaults = 0 /\ edits = 0 /\ restarts = 0

RecFault == recFaults < MaxRecFaults /\ recFaults' = recFaults + 1

(* The unit a row refers to is in t (invoice_position.unit_id). *)
UnitKnown(t, k) == UnitOf[k] # 0 => t[RowKey("unit", UnitOf[k])] # 0

(* Bexio: a part changes.  A change of an item or of what its own document    *)
(* holds (positions, lines) is a new version of the item.                     *)
Edit(k) ==
  /\ edits < MaxEdits /\ edits' = edits + 1
  /\ remote[k] < MaxVersion /\ UnitKnown(remote, k)
  /\ k.part \in SubLists => remote[RowKey(k.list, k.id)] # 0
  /\ remote' = [j \in Keys |->
       IF j = k \/ (j = RowKey(k.list, k.id) /\ k.part \notin SubLists)
       THEN remote[j] + 1 ELSE remote[j]]
  /\ UNCHANGED <<restarts, rows, cache, behind, thread, walkVars, itemVars, recFaults>>

-----------------------------------------------------------------------------
(* Walking the lists *)

(* The walk of the list is over, and the list at index i is next. *)
GoTo(i) ==
  /\ item' = 0 /\ at' = i
  /\ pc' = IF i <= Len(Program) THEN "walk" ELSE "round"
  /\ walked' = walked \cup {List}
  /\ UNCHANGED <<role, error_counter>>

PassGroup == \E j \in at + 1 .. Len(Program) + 1 : GroupEnds(at, j) /\ GoTo(j)

(* lookup_step: a lost connection is made anew, or the rest is left out.      *)
LookupReconnects ==
  \/ conn' = TRUE /\ PassGroup
  \/ conn' = FALSE /\ GoTo(Len(Program) + 1)

(* Mutant of EndList: keep_going passes every error on. *)
EndListPassesOn(e) ==
  IF e = "NoError"
  THEN GoTo(at + 1) /\ UNCHANGED <<conn, round_error>>
  ELSE PassGroup /\ round_error' = e /\ UNCHANGED conn

(* The walk returned e.  keep_going swallows all but a lost connection; main  *)
(* goes on whatever happens; the taxes and the phases of the chain return any *)
(* error.                                                                     *)
EndList(e) ==
  \/ /\ e = "Reconnect" /\ role = "main"
     /\ LookupReconnects /\ UNCHANGED round_error
  \/ /\ (e = "Reconnect" /\ role # "main") \/ (e = "Generic" /\ role = "chain")
     /\ GoTo(Len(Program) + 1) /\ round_error' = e /\ UNCHANGED conn
  \/ /\ e = "Generic" /\ role # "chain" /\ List \in Range(Taxes)
     /\ PassGroup /\ round_error' = e /\ UNCHANGED conn
  \/ /\ e = "NoError" \/ (e = "Generic" /\ role # "chain" /\ List \notin Range(Taxes))
     /\ GoTo(at + 1) /\ UNCHANGED <<conn, round_error>>

LeaveItem ==
  plan' = <<>> /\ todo' = {} /\ doc' = NoDoc /\ item_error' = "NoError" /\ short' = FALSE

(* bx_walk_pages: the next page, of one item.  A list of documents leaves out *)
(* their positions.                                                           *)
FetchPage ==
  /\ pc = "walk" /\ conn
  /\ \E id \in InBexio(List) :
       /\ id > item /\ \A other \in InBexio(List) : other > item => id <= other
       /\ item' = id
       /\ doc' = [k \in {k \in Keys : k.list = List /\ k.id = id} |->
                    IF k.part \in SubLists \cup {"position"} THEN 0 ELSE remote[k]]
  /\ plan' = Plan(List) /\ todo' = {} /\ item_error' = "NoError" /\ short' = FALSE
  /\ pc' = "item"
  /\ UNCHANGED <<bexioVars, rows, cache, behind, thread, role, at, conn,
                 round_error, error_counter, walked, recFaults>>

(* A page without items ends the walk. *)
FetchLast ==
  /\ pc = "walk" /\ conn /\ \A id \in InBexio(List) : id <= item
  /\ EndList("NoError")
  /\ UNCHANGED <<bexioVars, rows, cache, behind, thread, itemVars, recFaults>>

(* No answer, or one that is not a list; without a connection the walk        *)
(* returns before it asks.                                                    *)
FetchFails ==
  /\ pc = "walk" /\ IF conn THEN RecFault ELSE UNCHANGED recFaults
  /\ EndList("Generic")
  /\ UNCHANGED <<bexioVars, rows, cache, behind, thread, itemVars>>

-----------------------------------------------------------------------------
(* One item *)

AtPart(part) == pc = "item" /\ todo = {} /\ plan # <<>> /\ Head(plan) = part
ItemUnchanged == UNCHANGED <<bexioVars, thread, walkVars>>

(* Mutant of Check: an item the cache holds is done, whatever its checksum. *)
CheckKnown ==
  /\ AtPart("check")
  /\ IF cache[Here] # 0 THEN LeaveItem /\ pc' = "walk"
     ELSE plan' = Tail(plan) /\ UNCHANGED <<pc, todo, doc, item_error, short>>
  /\ UNCHANGED <<bexioVars, rows, cache, behind, thread, role, at, item, conn,
                 round_error, error_counter, walked, recFaults>>

(* cache_check_item: an item the cache holds with the same checksum is done.  *)
Check ==
  /\ AtPart("check")
  /\ IF cache[Here] = doc[Here] THEN LeaveItem /\ pc' = "walk"
     ELSE plan' = Tail(plan) /\ UNCHANGED <<pc, todo, doc, item_error, short>>
  /\ UNCHANGED <<bexioVars, rows, cache, behind, thread, role, at, item, conn,
                 round_error, error_counter, walked, recFaults>>

(* The document by its id, with its positions. *)
GetFull ==
  /\ AtPart("get")
  /\ doc' = [k \in DOMAIN doc |-> IF k.part \in SubLists THEN 0 ELSE remote[k]]
  /\ plan' = Tail(plan)
  /\ ItemUnchanged /\ UNCHANGED <<rows, cache, behind, todo, item_error, short, recFaults>>

(* Without an answer the list's form of the document is stored.  An error     *)
(* body is taken for an invoice without an id: no row is written under the    *)
(* invoice's own id, and the walk goes on.                                    *)
GetFails ==
  /\ AtPart("get") /\ RecFault
  /\ \/ /\ short' = TRUE /\ plan' = Tail(plan)
        /\ UNCHANGED <<pc, todo, doc, item_error>>
     \/ List = "invoice" /\ LeaveItem /\ pc' = "walk"
  /\ UNCHANGED <<bexioVars, rows, cache, behind, thread, role, at, item, conn,
                 round_error, error_counter, walked>>

(* The rows of a part of the document. *)
OpenPart ==
  /\ \E part \in {"row", "position", "line", "cg2c"} :
       AtPart(part) /\ todo' = {k \in PartKeys(part) : doc[k] # 0}
  /\ plan' = Tail(plan)
  /\ ItemUnchanged /\ UNCHANGED <<rows, cache, behind, doc, item_error, short, recFaults>>

(* A list that hangs on the item, asked for on its own. *)
LoadPart ==
  /\ \E part \in SubLists :
       /\ AtPart(part)
       /\ todo' = {k \in PartKeys(part) : remote[k] # 0}
       /\ doc' = [k \in DOMAIN doc |-> IF k.part = part THEN remote[k] ELSE doc[k]]
  /\ plan' = Tail(plan)
  /\ ItemUnchanged /\ UNCHANGED <<rows, cache, behind, item_error, short, recFaults>>

LoadPartFails ==
  /\ \E part \in SubLists : AtPart(part) /\ RecFault
  /\ plan' = Tail(plan)
  /\ ItemUnchanged /\ UNCHANGED <<rows, cache, behind, todo, doc, item_error, short>>

(* bx_contact_group_link drops the links before it writes them. *)
Unlink ==
  /\ AtPart("unlink")
  /\ rows' = [k \in Keys |-> IF k \in PartKeys("cg2c") THEN 0 ELSE rows[k]]
  /\ plan' = Tail(plan)
  /\ ItemUnchanged /\ UNCHANGED <<cache, behind, todo, doc, item_error, short, recFaults>>

UnlinkFails ==
  /\ AtPart("unlink") /\ RecFault
  /\ plan' = Tail(Tail(plan))
  /\ ItemUnchanged /\ UNCHANGED <<rows, cache, behind, todo, doc, item_error, short>>

(* cache_set_item *)
SetCache ==
  /\ AtPart("cache")
  /\ cache' = [cache EXCEPT ![Here] = doc[Here]]
  /\ behind' = IF short THEN behind \cup {Here} ELSE behind \ {Here}
  /\ plan' = Tail(plan)
  /\ ItemUnchanged /\ UNCHANGED <<rows, todo, doc, item_error, short, recFaults>>

(* Nothing is left of the item. *)
ItemDone ==
  /\ pc = "item" /\ todo = {} /\ plan = <<>>
  /\ LeaveItem
  /\ IF item_error = "NoError"
     THEN pc' = "walk" /\ UNCHANGED <<role, at, item, conn, round_error,
                                      error_counter, walked>>
     ELSE EndList(item_error)
  /\ UNCHANGED <<bexioVars, rows, cache, behind, thread, recFaults>>

-----------------------------------------------------------------------------
(* One row: SELECT its checksum, then INSERT, UPDATE or nothing *)

NextKeys == {k \in todo : \A other \in todo : k.n <= other.n}

(* The chain inserts a row its cache does not know with INSERT IGNORE: one    *)
(* that is there already stays as it is, and the item is passed over.         *)
Ignored(k) ==
  k.part = "row" /\ k.list \in ChainLists /\ cache[k] = 0 /\ rows[k] # 0

(* bx_json_upsert: the parent's id and every field feed the checksum; a row   *)
(* with another checksum, or none, is written whole.                          *)
Upserted(k) == [rows EXCEPT ![k] = doc[k]]

(* Mutant of Store: the loop over the rows of a part ends after the first. *)
StoreFirst ==
  /\ pc = "item"
  /\ \E k \in NextKeys :
     /\ ~Ignored(k) /\ (rows[k] = doc[k] \/ UnitKnown(rows, k))
     /\ rows' = Upserted(k) /\ todo' = {}
  /\ item_error' = "NoError"
  /\ ItemUnchanged /\ UNCHANGED <<cache, behind, plan, doc, short, recFaults>>

Store ==
  /\ pc = "item"
  /\ \E k \in NextKeys :
     /\ ~Ignored(k) /\ (rows[k] = doc[k] \/ UnitKnown(rows, k))
     /\ rows' = Upserted(k) /\ todo' = todo \ {k}
  /\ item_error' = "NoError"
  /\ ItemUnchanged /\ UNCHANGED <<cache, behind, plan, doc, short, recFaults>>

(* The functions that store a row.  Each reads the row's checksum, leaves a   *)
(* row with the same one alone, and writes any other.  They differ in what    *)
(* follows a statement that fails (the walk stops, or goes on after the item, *)
(* after the part, or with the next row; "last": the item ends with the error *)
(* of its last row), and an INSERT IGNORE that stored nothing: {} where the   *)
(* INSERT is a plain one.                                                     *)
Persist(failed, ignored) == [failed |-> failed, ignored |-> ignored]

upsert_named == Persist({"stop"}, {})
account_persist == Persist({"stop"}, {})
currency_persist == Persist({"stop"}, {})
bx_json_upsert == Persist({"stop"}, {})
sync_tax == Persist({"stop"}, {"item"})
(* Its errors are logged; the walk goes on. *)
persist_user == Persist({"item"}, {"item"})
(* A SELECT that fails ends the load, a write is logged. *)
bx_language_load == Persist({"stop", "item"}, {"item"})
(* A user that cannot be had skips the contact. *)
contact_sync_item == Persist({"stop", "item"}, {"item"})
(* The look for the contact ends the walk, a write skips the project. *)
project_sync_item == Persist({"stop", "item"}, {"item"})
invoice_sync_item == Persist({"stop"}, {"item"})
(* The rows of one document, in their order, up to the first that fails. *)
persist_position(list) == Persist(IF list = "invoice" THEN {"item"} ELSE {"stop"}, {})
manual_one == Persist({"stop"}, {})
bx_contact_group_link == Persist({"part"}, {"row"})
bx_contact_extra_sync == Persist({"part"}, {})
bx_project_extra_sync == Persist({"row"}, {})
bx_invoice_extra_sync == Persist({"row"}, {})
kb_doc_comments == Persist({"last"}, {})

StoresRow(list) ==
  CASE list \in JsonLookups \cup JsonRecords \cup Range(Sales) \cup {"manual_entry"} ->
         bx_json_upsert
    [] list = "account" -> account_persist
    [] list = "currency" -> currency_persist
    [] list = "language" -> bx_language_load
    [] list \in Range(Taxes) -> sync_tax
    [] list \in Range(UserLists) -> persist_user
    [] list = "contact" -> contact_sync_item
    [] list = "project" -> project_sync_item
    [] list = "invoice" -> invoice_sync_item
    [] OTHER -> upsert_named
Stores(k) ==
  CASE k.part = "row" -> StoresRow(k.list)
    [] k.part = "position" -> persist_position(k.list)
    [] k.part = "line" -> manual_one
    [] k.part = "cg2c" -> bx_contact_group_link
    [] k.part = "additional_address" -> bx_contact_extra_sync
    [] k.part \in {"project_milestone", "project_package"} -> bx_project_extra_sync
    [] k.part \in {"invoice_payment", "invoice_reminder"} -> bx_invoice_extra_sync
    [] k.part = "kb_comment" ->
         IF k.list = "invoice" THEN bx_invoice_extra_sync ELSE kb_doc_comments

GoesOn(k, next) ==
  /\ todo' = IF next \in {"item", "part"} THEN {} ELSE todo \ {k}
  /\ plan' = IF next = "item" THEN <<>> ELSE plan
  /\ item_error' = IF next = "last" THEN "Generic" ELSE item_error
  /\ UNCHANGED <<doc, short, walkVars>>

(* The statement fails, or its foreign key names a unit that has no row. *)
StoreFails ==
  /\ pc = "item"
  /\ \E k \in NextKeys :
     /\ IF rows[k] # doc[k] /\ ~UnitKnown(rows, k) THEN UNCHANGED recFaults ELSE RecFault
     /\ \E next \in Stores(k).failed :
          IF next = "stop" THEN LeaveItem /\ EndList("Generic") ELSE GoesOn(k, next)
  /\ UNCHANGED <<bexioVars, rows, cache, behind, thread>>

(* INSERT IGNORE that stores nothing: the row is there already, or a foreign  *)
(* key refuses it.  persist_ok sees the warning; taxes, language and cg2c do  *)
(* not ask, and go on all the same.                                           *)
StoreIgnored ==
  /\ pc = "item"
  /\ \E k \in NextKeys :
     /\ IF Ignored(k) THEN UNCHANGED recFaults ELSE rows[k] = 0 /\ RecFault
     /\ \E next \in Stores(k).ignored : GoesOn(k, next)
  /\ UNCHANGED <<bexioVars, rows, cache, behind, thread>>

(* The connection is lost, before or after the server executed the statement. *)
StoreLosesConn ==
  /\ pc = "item" /\ RecFault
  /\ \E k \in NextKeys :
     \/ UNCHANGED rows
     \/ ~Ignored(k) /\ UnitKnown(rows, k) /\ rows' = Upserted(k)
  /\ LeaveItem /\ EndList("Reconnect")
  /\ UNCHANGED <<bexioVars, cache, behind, thread>>

-----------------------------------------------------------------------------
(* Rounds *)

NextRound ==
  at' = 1 /\ item' = 0 /\ walked' = {} /\ round_error' = "NoError"

(* main starts the thread, which connects and hydrates its caches.  A cache   *)
(* whose SELECT fails stays empty (hydrate_cache).                            *)
StartThread ==
  /\ pc = "round" /\ role = "main"
  /\ role' = thread /\ conn' = TRUE /\ pc' = "walk" /\ NextRound
  /\ \E failed \in SUBSET (IF thread = "chain" THEN ChainLists ELSE {}) :
       /\ IF failed = {} THEN UNCHANGED recFaults ELSE RecFault
       /\ cache' = [k \in DOMAIN cache |->
            IF thread = "chain" /\ k.list \notin failed THEN rows[k] ELSE 0]
  /\ UNCHANGED <<bexioVars, rows, behind, thread, error_counter, itemVars>>

StartThreadFails ==
  /\ pc = "round" /\ role = "main" /\ RecFault
  /\ conn' = FALSE /\ pc' = "exited" /\ NextRound
  /\ UNCHANGED <<bexioVars, rows, cache, behind, thread, role, error_counter, itemVars>>

CountError ==
  /\ error_counter' = error_counter + 1
  /\ pc' = IF error_counter > RecExitMax THEN "exited" ELSE "walk"

(* thread_handle_error, and the count of rounds that failed. *)
Round ==
  /\ pc = "round" /\ role # "main" /\ round_error = "NoError"
  /\ error_counter' = 0 /\ pc' = "walk" /\ NextRound
  /\ UNCHANGED <<bexioVars, rows, cache, behind, thread, role, conn, itemVars, recFaults>>

RoundReconnects ==
  /\ pc = "round" /\ role # "main"
  /\ \/ round_error = "Reconnect" /\ UNCHANGED recFaults
     \/ round_error = "Generic" /\ conn /\ RecFault
  /\ NextRound
  /\ \/ conn' = TRUE /\ error_counter' = 0 /\ pc' = "walk"
     \/ conn' = FALSE /\ CountError
  /\ UNCHANGED <<bexioVars, rows, cache, behind, thread, role, itemVars>>

RoundFails ==
  /\ pc = "round" /\ role # "main" /\ round_error = "Generic"
  /\ NextRound /\ CountError
  /\ UNCHANGED <<bexioVars, rows, cache, behind, thread, role, conn, itemVars, recFaults>>

(* The process dies and is started again.  The cache takes an invoice whose   *)
(* row is there for complete.                                                 *)
Restart ==
  /\ restarts < MaxRestarts /\ restarts' = restarts + 1
  /\ role' = "main" /\ pc' = "walk" /\ NextRound
  /\ conn' = TRUE /\ error_counter' = 0 /\ LeaveItem
  /\ cache' = [k \in DOMAIN cache |-> 0]
  /\ behind' = behind \cup (IF role = "chain"
                            THEN {k \in DOMAIN cache : rows[k] # cache[k]} ELSE {})
  /\ UNCHANGED <<remote, edits, rows, thread, recFaults>>

(* main asserts that the list of country codes was read. *)
CountriesMissing ==
  /\ role = "main" /\ pc = "walk" /\ at = 1 /\ item = 0 /\ walked = {} /\ RecFault
  /\ pc' = "exited"
  /\ UNCHANGED <<bexioVars, rows, cache, behind, thread, role, at, item, conn,
                 round_error, error_counter, walked, itemVars>>

RecStep ==
  \/ FetchPage \/ FetchLast \/ FetchFails
  \/ Check \/ GetFull \/ GetFails \/ OpenPart \/ LoadPart \/ LoadPartFails
  \/ Unlink \/ UnlinkFails \/ SetCache \/ ItemDone
  \/ Store \/ StoreFails \/ StoreIgnored \/ StoreLosesConn
  \/ StartThread \/ StartThreadFails \/ Round \/ RoundReconnects \/ RoundFails

RecNext == RecStep \/ Restart \/ CountriesMissing \/ \E k \in Edited : Edit(k)
RecSpec == (\E t \in {"records", "chain"} : RecInit(t)) /\ [][RecNext]_recVars

-----------------------------------------------------------------------------
(* Properties *)

(* Types; a data thread leaves before its errors pass the limit (main.c). *)
RecTypeOK ==
  /\ {remote, rows} \subseteq [Keys -> 0 .. MaxVersion + MaxEdits]
  /\ DOMAIN cache \subseteq Keys /\ \A k \in DOMAIN cache : cache[k] \in 0 .. rows[k]
  /\ role \in {"main", thread} /\ pc \in {"walk", "item", "round", "exited"}
  /\ at \in 1 .. Len(Program) + 1 /\ (pc \in {"walk", "item"} => at <= Len(Program))
  /\ todo \subseteq DOMAIN doc /\ \A k \in todo : doc[k] # 0
  /\ round_error \in {"NoError", "Generic", "Reconnect"}
  /\ error_counter \in 0 .. RecExitMax + 2

(* A round of random_item_thread that keeps its connection walks every list,  *)
(* whatever lists or items failed: keep_going (sync_more.c) does not let one  *)
(* resource hide the others, and a tax list that fails hides only taxes.      *)
RoundVisitsAll ==
  pc = "round" /\ role = "records" /\ round_error # "Reconnect"
  => {Program[i] : i \in DOMAIN Program} \ walked
       \subseteq (IF round_error = "Generic" THEN Range(Taxes) ELSE {})

(* The rows of random_item_thread have no cache: a round reads everything     *)
(* again, so every record, line, position and comment is stored in the end,   *)
(* whatever failed before, unless the thread gave up.                         *)
RecordsStored ==
  []<>(\/ pc = "exited" \/ thread # "records"
       \/ \A k \in Keys : k.list \in Range(Taxes \o RecordsMore \o Sales)
                         => rows[k] = remote[k])

Positions == {k \in Keys : k.list = "invoice" /\ k.part = "position"}

(* An invoice whose checksum the cache holds is left alone from then on: its  *)
(* positions are in the database.  bx_invoice_sync_item caches it after the   *)
(* positions, except when the full document could not be read; a restart      *)
(* caches whatever row is there (behind).                                     *)
CachedComplete ==
  \A k \in Positions :
    cache[RowKey("invoice", k.id)] = remote[RowKey("invoice", k.id)]
    => rows[k] = remote[k] \/ RowKey("invoice", k.id) \in behind

(* The positions of a changed invoice are tried again until they are stored,  *)
(* since the cache keeps the old checksum.  Not so those of a new invoice     *)
(* whose row is there and not cached: INSERT IGNORE passes it over.           *)
InvoicePositionsStored ==
  []<>(\/ pc = "exited" \/ thread # "chain"
       \/ \A k \in Positions :
            LET h == RowKey("invoice", k.id)
            IN  rows[k] = remote[k] \/ h \in behind \/ (rows[h] # 0 /\ cache[h] = 0))

-----------------------------------------------------------------------------
(* What the proofs add: an invariant that every step preserves *)

ChainRows == {k \in Keys : k.part = "row" /\ k.list \in ChainLists}

(* Rows never run ahead of Bexio, nor caches ahead of rows; what a document   *)
(* holds is not there before the document.                                    *)
Versions ==
  /\ edits \in 0 .. MaxEdits
  /\ remote \in [Keys -> Nat] /\ rows \in [Keys -> Nat] /\ cache \in [ChainRows -> Nat]
  /\ \A k \in Keys : rows[k] <= remote[k] /\ remote[k] <= 1 + edits
  /\ \A k \in ChainRows : cache[k] <= rows[k]
  /\ \A k \in Keys : k.part \notin SubLists /\ remote[k] # 0 => remote[RowKey(k.list, k.id)] # 0

Control ==
  /\ thread \in {"records", "chain"} /\ role \in {"main", thread}
  /\ pc \in {"walk", "item", "round", "exited"}
  /\ at \in 1 .. Len(Program) + 1 /\ (pc = "round" => at = Len(Program) + 1)
  /\ pc \in {"walk", "item"} => at <= Len(Program) /\ round_error # "Reconnect"
  /\ round_error \in {"NoError", "Generic", "Reconnect"} /\ item_error \in {"NoError", "Generic"}
  /\ error_counter \in 0 .. RecExitMax + 2
  /\ pc # "exited" => error_counter <= RecExitMax + 1

(* The document at hand is not newer than Bexio and not older than the rows. *)
Document ==
  IF pc = "item"
  THEN /\ Here \in Keys /\ DOMAIN doc = {k \in Keys : k.list = List /\ k.id = item}
       /\ \A k \in DOMAIN doc :
            doc[k] \in Nat /\ doc[k] <= remote[k] /\ (doc[k] = 0 \/ rows[k] <= doc[k])
       /\ doc[Here] # 0 /\ todo \subseteq {k \in DOMAIN doc : doc[k] # 0}
  ELSE todo = {}

(* The plan is what is left of Plan; the rows to store are of the part begun last. *)
Parts == {"check", "get", "row", "cache", "position", "line", "unlink", "cg2c"} \cup SubLists
Begun == Len(Plan(List)) - Len(plan)
Stage ==
  pc = "item" =>
    /\ plan \in Seq(Parts) /\ Begun >= 0
    /\ \A i \in 1 .. Len(plan) : plan[i] = Plan(List)[Begun + i]
    /\ todo # {} => Begun >= 1 /\ todo \subseteq PartKeys(Plan(List)[Begun])

(* Before an item is cached its row is stored, and then an invoice's          *)
(* positions, in the version of the document.                                 *)
Ahead(part) == \E i \in 1 .. Len(plan) : plan[i] = part
StoredBeforeCached ==
  pc = "item" /\ Ahead("cache") =>
    /\ ~Ahead("row") => Here \in todo \/ rows[Here] = doc[Here]
    /\ List = "invoice" =>
         /\ ~Ahead("get") /\ ~short /\ doc[Here] = remote[Here] =>
              \A k \in PartKeys("position") : doc[k] = remote[k]
         /\ ~Ahead("position") =>
              \A k \in PartKeys("position") : doc[k] = 0 \/ k \in todo \/ rows[k] = doc[k]

(* While the chain does not run its caches are empty, and what it will load   *)
(* from an up-to-date row of an invoice is complete.                          *)
LoadsComplete ==
  role # "chain" =>
    /\ \A k \in ChainRows : cache[k] = 0
    /\ \A k \in Positions :
         rows[RowKey("invoice", k.id)] = remote[RowKey("invoice", k.id)]
         => rows[k] = remote[k] \/ RowKey("invoice", k.id) \in behind

(* The lists before this one were walked, or a tax list failed. *)
WalkedSoFar ==
  role = "records" /\ round_error # "Reconnect" =>
    \A i \in 1 .. at - 1 :
      Program[i] \in walked \/ (round_error = "Generic" /\ Program[i] \in Range(Taxes))

(* The invariant of the proofs: whatever main, random_item_thread and         *)
(* chain_thread have done, failed to do or left when they died, versions only *)
(* flow from Bexio to the document at hand to the rows to the caches.         *)
RecInv ==
  /\ Versions /\ Control /\ Document /\ Stage /\ StoredBeforeCached
  /\ LoadsComplete /\ CachedComplete /\ WalkedSoFar

=============================================================================
