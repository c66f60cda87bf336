------------------------------ MODULE Settings ------------------------------
(* What a process starts from: the JSON file, the rows of _configuration over *)
(* it (bx_conf.c), and the cursor of the sync chain read from one text row or *)
(* from the three rows of the previous version (bx_chain.c, bx_chain_db.c).   *)
(* The chain moves its cursor and saves it.  A cursor's text "phase:offset"   *)
(* is <<phase, offset>>, a text without a colon is <<text>>, NULL is <<>>.  A *)
(* process that cannot read its file ends at once and is left out.            *)
EXTENDS Integers, Sequences

CONSTANTS FileValues,     \* the file: name -> [json, val]
          IntMax,         \* INT_MAX
          AdminRows,      \* rows an administrator may write: <<name, row>>
          MaxAdmin, MaxSettingFaults, MaxSettingRestarts

VARIABLES
  table,      \* _configuration: name -> [type, ival, cval], or NoRow
  conf,       \* BXConf: name -> [type, i, s] (i_value, s_value), or Unset
  chainCursor,
  up,         \* the process runs, its rows read or not: "down", "rows", "file"
  lastStored, \* the cursor the rows stand for, NoCursor after an edit of them
  lastTold,   \* the prune-drift the administrator last wrote, or Null
  adminEdits, settingFaults, settingRestarts

setVars == <<table, conf, chainCursor, up, lastStored, lastTold, adminEdits,
             settingFaults, settingRestarts>>

Null == <<>>
NoRow == [type |-> "", ival |-> Null, cval |-> Null]
Unset == [type |-> "", i |-> 0, s |-> Null]
ChainNames == {"sync-chain", "sync-chain-step", "sync-chain-offset", "sync-chain-cycle"}
MysqlNames == {"mysql-host"}
Names == ChainNames \cup MysqlNames \cup {"prune-drift"}
Ints == -IntMax - 1 .. IntMax

(* A column of a row: a value of S or NULL. *)
IsColumn(v, S) == v \in Seq(S) /\ Len(v) <= 1

(* The file names the database and gives prune-drift, and does not set the    *)
(* chain's cursor; who writes prune-drift writes an integer.  Both give it a  *)
(* value an int holds.                                                        *)
ASSUME SettingsAssumption ==
  /\ IntMax \in Nat \ {0} /\ {MaxAdmin, MaxSettingFaults, MaxSettingRestarts} \subseteq Nat
  /\ {"mysql-host", "prune-drift"} \subseteq DOMAIN FileValues
  /\ DOMAIN FileValues \cap ChainNames = {}
  /\ FileValues["mysql-host"].json = "string"
  /\ FileValues["prune-drift"].json = "integer" /\ FileValues["prune-drift"].val \in Ints
  /\ \A w \in AdminRows :
       /\ w[1] \in Names /\ IsColumn(w[2].ival, Int)
       /\ w[1] = "prune-drift" =>
            w[2].type \in {"integer", "int"} /\ IsColumn(w[2].ival, Ints)

PhaseOrder == <<"contact-active", "contact-archived", "project", "invoice-list",
                "invoice-missed">>
Phases == {PhaseOrder[i] : i \in DOMAIN PhaseOrder}
At(p, o) == [phase |-> p, offset |-> o]
FirstCursor == At("contact-active", 0)
NoCursor == At("", 0)

-----------------------------------------------------------------------------
(* Values in memory *)

(* (int) of a wider integer. *)
ToInt(v) == ((v + IntMax + 1) % (2 * (IntMax + 1))) - (IntMax + 1)

(* bx_conf_set: clear_value and fill_value replace value and type. *)
OfString(t) == [Unset EXCEPT !.type = "String", !.s = t]
OfInt(v) == [Unset EXCEPT !.type = "Integer", !.i = ToInt(v)]
OfBool(b) == [Unset EXCEPT !.type = "Bool", !.i = IF b THEN 1 ELSE 0]
bx_conf_set(c, name, value) == [c EXCEPT ![name] = value]

bx_conf_get_string(c, name) == IF c[name].type = "String" THEN c[name].s ELSE Null
bx_conf_get_int(c, name) == IF c[name].type \in {"Integer", "Bool"} THEN c[name].i ELSE 0

(* One value of the file; a list, an object or null is passed over (and no    *)
(* setting is a real).                                                        *)
OfJson(v) ==
  CASE v.json = "string"  -> OfString(v.val)
    [] v.json = "integer" -> OfInt(v.val)
    [] v.json = "boolean" -> OfBool(v.val)
    [] OTHER              -> Unset

bx_conf_loadfile ==
  [n \in Names |-> IF n \in DOMAIN FileValues THEN OfJson(FileValues[n]) ELSE Unset]

(* A row over what the file says.  A row of the way to the database, without  *)
(* a value in the column of its type or with an unknown type changes nothing  *)
(* (floats and blobs, which no setting of the program is, are left out).      *)
apply_database_row(c, name, row) ==
  LET Over(value) == bx_conf_set(c, name, value)
      Type(names) == name \notin MysqlNames /\ row.type \in names
  IN  CASE Type({"string", "text", "char", "varchar"}) /\ row.cval # Null -> Over(OfString(row.cval))
        [] Type({"integer", "int"}) /\ row.ival # Null -> Over(OfInt(row.ival[1]))
        [] Type({"bool", "boolean"}) /\ row.ival # Null -> Over(OfBool(row.ival[1] # 0))
        [] OTHER -> c

(* Names are unique, so the order of the rows does not matter. *)
bx_conf_load_database(c) == [n \in Names |-> apply_database_row(c, n, table[n])[n]]

-----------------------------------------------------------------------------
(* The cursor's text *)

normalize(c) == At(c.phase, IF c.phase = "invoice-missed" \/ c.offset < 0 THEN 0 ELSE c.offset)

(* A text that is not "phase:number" with a number an int holds is no cursor. *)
parse_stored(text) ==
  IF Len(text) = 2 /\ text[1] \in Phases /\ text[2] \in 0 .. IntMax
  THEN normalize(At(text[1], text[2])) ELSE NoCursor

parse_legacy(step, offset, pass) ==
  LET o == IF offset < 0 THEN 0 ELSE offset IN
  CASE step = <<"contact">> ->
         At(IF pass = 1 THEN "contact-archived" ELSE "contact-active", o)
    [] step = <<"project">> -> At("project", o)
    [] step = <<"invoice">> ->
         IF pass = 1 THEN At("invoice-missed", 0) ELSE At("invoice-list", o)
    [] OTHER -> NoCursor

(* Mutant of bx_chain_decode: rows of the previous version win. *)
DecodeLegacyFirst(text, step, offset, pass) ==
  IF parse_legacy(step, offset, pass) # NoCursor THEN parse_legacy(step, offset, pass)
  ELSE IF parse_stored(text) # NoCursor THEN parse_stored(text) ELSE FirstCursor

bx_chain_decode(text, step, offset, pass) ==
  IF parse_stored(text) # NoCursor THEN parse_stored(text)
  ELSE IF parse_legacy(step, offset, pass) # NoCursor
       THEN normalize(parse_legacy(step, offset, pass)) ELSE FirstCursor

bx_chain_load(c) ==
  bx_chain_decode(bx_conf_get_string(c, "sync-chain"),
                  bx_conf_get_string(c, "sync-chain-step"),
                  bx_conf_get_int(c, "sync-chain-offset"),
                  bx_conf_get_int(c, "sync-chain-cycle"))

(* snprintf "%s:%d" of bx_chain_save. *)
TextOf(c) == <<c.phase, c.offset>>

-----------------------------------------------------------------------------
(* The rows the previous version left for a cursor. *)
Text(t) == [NoRow EXCEPT !.type = "string", !.cval = t]
Number(i) == [NoRow EXCEPT !.type = "integer", !.ival = <<i>>]
OldRows(c) ==
  [n \in Names |->
    CASE n = "sync-chain-step" ->
           Text(IF c.phase \in {"contact-active", "contact-archived"} THEN <<"contact">>
                ELSE IF c.phase = "project" THEN <<"project">> ELSE <<"invoice">>)
      [] n = "sync-chain-offset" -> Number(c.offset)
      [] n = "sync-chain-cycle" ->
           Number(IF c.phase \in {"contact-archived", "invoice-missed"} THEN 1 ELSE 0)
      [] OTHER -> NoRow]

NoRows == [n \in Names |-> NoRow]

(* A new installation, or the database of the previous version. *)
SetInit ==
  /\ \/ table = NoRows /\ lastStored = FirstCursor
     \/ \E c \in [phase : Phases, offset : 0 .. IntMax] :
          table = OldRows(c) /\ lastStored = normalize(c)
  /\ conf = [n \in Names |-> Unset] /\ chainCursor = FirstCursor /\ up = "down"
  /\ lastTold = Null /\ adminEdits = 0 /\ settingFaults = 0 /\ settingRestarts = 0

SettingFault == settingFaults < MaxSettingFaults /\ settingFaults' = settingFaults + 1

(* main: the file, the rows over it, and bx_chain_init. *)
StartRead ==
  /\ up = "down" /\ up' = "rows"
  /\ conf' = bx_conf_load_database(bx_conf_loadfile)
  /\ chainCursor' = normalize(bx_chain_load(conf'))
  /\ UNCHANGED <<table, lastStored, lastTold, adminEdits, settingFaults, settingRestarts>>

(* The rows could not be read: "keeping the file values". *)
StartUnread ==
  /\ up = "down" /\ up' = "file" /\ SettingFault
  /\ conf' = bx_conf_loadfile
  /\ chainCursor' = normalize(bx_chain_load(conf'))
  /\ UNCHANGED <<table, lastStored, lastTold, adminEdits, settingRestarts>>

SettingsCrash ==
  /\ up # "down" /\ up' = "down"
  /\ settingRestarts < MaxSettingRestarts /\ settingRestarts' = settingRestarts + 1
  /\ conf' = [n \in Names |-> Unset] /\ chainCursor' = FirstCursor
  /\ UNCHANGED <<table, lastStored, lastTold, adminEdits, settingFaults>>

NextPhase(p) ==
  CASE p = "contact-active" -> {"contact-archived"}
    [] p = "contact-archived" -> {"project"}
    [] p = "project" -> {"invoice-list"}
    [] p = "invoice-list" -> {"invoice-missed", "contact-active"}
    [] p = "invoice-missed" -> {"contact-active"}

(* Mutant of PutRow: a row that is there keeps its type. *)
PutRowKeepsType(c) ==
  /\ table' = [table EXCEPT !["sync-chain"] =
                 IF @ = NoRow THEN Text(TextOf(c)) ELSE [@ EXCEPT !.cval = TextOf(c)]]
  /\ lastStored' = c

(* INSERT ... ON DUPLICATE KEY UPDATE: type and both columns are replaced. *)
PutRow(c) == table' = [table EXCEPT !["sync-chain"] = Text(TextOf(c))] /\ lastStored' = c

(* bx_conf_put_database_conn: the row is written and kept in memory; or       *)
(* nothing is; or the row is written and the answer lost; or there is no      *)
(* memory for the text, and the value that was there is already cleared.      *)
SaveOk(c) ==
  PutRow(c) /\ conf' = bx_conf_set(conf, "sync-chain", OfString(TextOf(c)))
            /\ UNCHANGED settingFaults
SaveFails(c) ==
  /\ SettingFault
  /\ \/ UNCHANGED <<table, lastStored, conf>>
     \/ PutRow(c) /\ UNCHANGED conf
     \/ PutRow(c) /\ conf' = [conf EXCEPT !["sync-chain"] =
                                IF @.type = "" THEN @ ELSE OfString(Null)]

(* checkpoint: the cursor in memory follows the row. *)
CheckpointPage ==
  /\ up # "down" /\ chainCursor.phase # "invoice-missed"
  /\ \E o \in 0 .. IntMax :
       LET c == normalize(At(chainCursor.phase, o)) IN
       /\ o > chainCursor.offset
       /\ \/ SaveOk(c) /\ chainCursor' = c
          \/ SaveFails(c) /\ UNCHANGED chainCursor
  /\ UNCHANGED <<up, lastTold, adminEdits, settingRestarts>>

(* advance_phase: the cursor in memory moves whether the row does or not. *)
AdvancePhase ==
  /\ up # "down"
  /\ \E p \in NextPhase(chainCursor.phase) :
       LET c == normalize(At(p, 0)) IN chainCursor' = c /\ (SaveOk(c) \/ SaveFails(c))
  /\ UNCHANGED <<up, lastTold, adminEdits, settingRestarts>>

(* An administrator writes a row while the process is down or up. *)
AdminWrites ==
  /\ adminEdits < MaxAdmin /\ adminEdits' = adminEdits + 1
  /\ \E w \in AdminRows :
       /\ table' = [table EXCEPT ![w[1]] = w[2]]
       /\ lastStored' = IF w[1] \in ChainNames THEN NoCursor ELSE lastStored
       /\ lastTold' = IF w[1] = "prune-drift" THEN w[2].ival ELSE lastTold
  /\ UNCHANGED <<conf, chainCursor, up, settingFaults, settingRestarts>>

SetNext ==
  \/ StartRead \/ StartUnread \/ SettingsCrash
  \/ CheckpointPage \/ AdvancePhase \/ AdminWrites

SetSpec == SetInit /\ [][SetNext]_setVars

-----------------------------------------------------------------------------
(* A start that reads the rows resumes at the cursor last written, whatever   *)
(* failed in between, with the rows of the previous version left in the table *)
(* or not; takes the administrator's last usable value for a setting, the     *)
(* file's otherwise; and keeps the file's way to the database (README:        *)
(* "Resume", "Configuration"; bx_conf_load_database, bx_chain_decode).        *)
RestartResumes ==
  [][(up = "down" /\ up' = "rows") =>
       /\ lastStored # NoCursor => chainCursor' = lastStored
       /\ bx_conf_get_int(conf', "prune-drift") =
            IF lastTold # Null THEN lastTold[1] ELSE FileValues["prune-drift"].val
       /\ bx_conf_get_string(conf', "mysql-host") = FileValues["mysql-host"].val]_setVars

-----------------------------------------------------------------------------
(* What the proofs add *)

(* A cursor as the chain has it in memory. *)
Cursors == {c \in [phase : Phases, offset : 0 .. IntMax] : c = normalize(c)}

SetTypeOK ==
  /\ DOMAIN table = Names
  /\ \A n \in Names : IsColumn(table[n].ival, Int)
  /\ chainCursor \in Cursors /\ up \in {"down", "rows", "file"}

(* The rows of the table the previous version left. *)
LeftRows(c) == \A n \in ChainNames : table[n] = OldRows(c)[n]

(* The rows a start reads stand for the cursor last written: the one of this  *)
(* version, or those of the previous one, or none at all.                     *)
RowsStand ==
  lastStored # NoCursor =>
    \/ lastStored \in Cursors /\ table["sync-chain"] = Text(TextOf(lastStored))
    \/ lastStored = FirstCursor /\ \A n \in ChainNames : table[n] = NoRow
    \/ \E c \in [phase : Phases, offset : 0 .. IntMax] :
         lastStored = normalize(c) /\ LeftRows(c)

(* The row of prune-drift is what the administrator wrote. *)
DriftStands ==
  LET row == table["prune-drift"] IN
  /\ row.ival = lastTold /\ IsColumn(lastTold, Ints)
  /\ row.type \in {"integer", "int"} \/ row = NoRow

(* What makes RestartResumes inductive: what the table says at any time, were *)
(* the process to die then.                                                   *)
SetInv == SetTypeOK /\ RowsStand /\ DriftStands

=============================================================================
