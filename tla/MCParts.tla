--------------------------- MODULE MCParts --------------------------------
(* One part at a time: the data threads, the chain among them, which share no *)
(* state but the database and the request queue (RequestQueue has that); the  *)
(* settings a process starts from; an id cache; the worker's pace.            *)
EXTENDS Records, Files, Sectors, Settings, IdsCache, Pacing

VARIABLE which    \* the part this behaviour is about

Row(list) == [list |-> list, id |-> 1, part |-> "row", n |-> 0]
Sub(list, part, n) == [list |-> list, id |-> 1, part |-> part, n |-> n]

SomeKeys ==
  {Row("unit"), Row("users"), Row("taxes active"), Row("article"),
   Row("kb_quote"), Sub("kb_quote", "position", 1), Sub("kb_quote", "position", 2),
   Sub("kb_quote", "kb_comment", 1), Row("manual_entry"), Sub("manual_entry", "line", 1),
   Row("contact"), Sub("contact", "cg2c", 1),
   Row("project"), Sub("project", "project_milestone", 1),
   Row("invoice"), Sub("invoice", "position", 1), Sub("invoice", "position", 2),
   Sub("invoice", "invoice_payment", 1)}
SomeAbsent == {Row("unit"), Sub("kb_quote", "position", 2)}
SomeEdited == {Row("unit"), Sub("kb_quote", "position", 2), Sub("invoice", "position", 2)}
SomeUnit == [k \in SomeKeys |-> IF k = Sub("invoice", "position", 2) THEN 1 ELSE 0]

SomeFile == [n \in {"mysql-host", "prune-drift"} |->
              IF n = "mysql-host" THEN [json |-> "string", val |-> <<"db">>]
              ELSE [json |-> "integer", val |-> 2]]
SomeRows ==
  {<<"mysql-host", Text(<<"other">>)>>, <<"prune-drift", Number(1)>>,
   <<"prune-drift", [NoRow EXCEPT !.type = "int"]>>,
   <<"sync-chain", Text(<<"project">>)>>, <<"sync-chain", Text(<<"project", IntMax + 1>>)>>,
   <<"sync-chain", Number(1)>>}

Init ==
  /\ which \in {"records", "chain", "file", "sector", "settings", "cache", "pace"}
  /\ RecInit(IF which = "chain" THEN "chain" ELSE "records") /\ FileInit /\ SecInit
  /\ CacheInit /\ PaceInit
  /\ SetInit /\ (which # "settings" => lastStored = FirstCursor /\ table = NoRows)
Next ==
  /\ UNCHANGED which
  /\ \/ /\ which \in {"records", "chain"} /\ RecNext
        /\ UNCHANGED <<fileVars, secVars, setVars, idsVars, paceVars>>
     \/ /\ which = "file" /\ FileNext
        /\ UNCHANGED <<recVars, secVars, setVars, idsVars, paceVars>>
     \/ /\ which = "sector" /\ SecNext
        /\ UNCHANGED <<recVars, fileVars, setVars, idsVars, paceVars>>
     \/ /\ which = "settings" /\ SetNext
        /\ UNCHANGED <<recVars, fileVars, secVars, idsVars, paceVars>>
     \/ /\ which = "cache" /\ CacheNext
        /\ UNCHANGED <<recVars, fileVars, secVars, setVars, paceVars>>
     \/ /\ which = "pace" /\ PaceNext
        /\ UNCHANGED <<recVars, fileVars, secVars, setVars, idsVars>>

(* A thread that can take a step takes one in the end. *)
Fairness ==
  /\ WF_recVars(which \in {"records", "chain"} /\ RecStep)
  /\ WF_fileVars(which = "file" /\ FileStep)
  /\ WF_secVars(which = "sector" /\ SecStep)
  /\ WF_paceVars(which = "pace" /\ (FetchDone \/ Pace))
Spec ==
  /\ Init /\ Fairness
  /\ [][Next]_<<which, recVars, fileVars, secVars, setVars, idsVars, paceVars>>

(* random_item_thread stores every record, line, position and comment of its  *)
(* lists in the end (RecordsStored).                                          *)
RecordsFollow == which = "records" => RecordsStored

(* chain_thread stores the positions of an invoice in the end, but for those  *)
(* InvoicePositionsStored excepts (invoice.c).                                *)
PositionsFollow == which = "chain" => InvoicePositionsStored

(* file_thread brings rows and blobs in line with Bexio (FilesFollow).        *)
FilesDo == which = "file" => FilesFollow

(* contact_sector_thread brings its rows in line with Bexio (SectorsFollow).  *)
SectorsDo == which = "sector" => SectorsFollow

=============================================================================
