--------------------------- MODULE SettingsProofs ---------------------------
(* Proofs about Settings: what a start reads is what was last written, for    *)
(* every width of int, file and administrator that SettingsAssumption allows. *)
EXTENDS Settings, TLAPS

-----------------------------------------------------------------------------
(* Integers *)

LEMMA ModSame ==
  ASSUME NEW x \in Int, NEW y \in Int, 0 <= x, x < y
  PROVE  x % y = x
  BY SMT

LEMMA ModIn ==
  ASSUME NEW x \in Int, NEW y \in Int, y > 0
  PROVE  x % y \in 0 .. y - 1
  BY SMT

(* (int) of any integer is one an int holds, and of one an int holds it is    *)
(* that one.                                                                  *)
LEMMA ToIntFacts ==
  ASSUME NEW v \in Int
  PROVE  ToInt(v) \in Ints /\ (v \in Ints => ToInt(v) = v)
  <1> DEFINE x == v + IntMax + 1
             y == 2 * (IntMax + 1)
  <1>1. x \in Int /\ y \in Int /\ y > 0 /\ IntMax \in Nat  BY SettingsAssumption
  <1>2. ToInt(v) = (x % y) - (IntMax + 1)  BY DEF ToInt
  <1>3. x % y \in 0 .. y - 1  BY <1>1, ModIn
  <1>4. ASSUME v \in Ints PROVE x % y = x
    <2>1. 0 <= x /\ x < y  BY <1>1, <1>4 DEF Ints
    <2>2. QED  BY <1>1, <2>1, ModSame
  <1> HIDE DEF x
  <1>5. ToInt(v) \in Ints  BY <1>1, <1>2, <1>3 DEF Ints
  <1>6. v \in Ints => ToInt(v) = v  BY <1>1, <1>2, <1>4 DEF x
  <1>7. QED  BY <1>5, <1>6

-----------------------------------------------------------------------------
(* Cursors *)

LEMMA PhaseSet ==
  Phases = {"contact-active", "contact-archived", "project", "invoice-list", "invoice-missed"}
  BY DEF Phases, PhaseOrder

(* normalize makes a cursor the chain may have of a phase and any int. *)
LEMMA NormalizeFacts ==
  ASSUME NEW p \in Phases, NEW o \in Ints
  PROVE  /\ normalize(At(p, o)) \in Cursors
         /\ At(p, o) # NoCursor /\ normalize(At(p, o)) # NoCursor
  <1>1. IntMax \in Nat  BY SettingsAssumption
  <1>2. normalize(At(p, o)).offset \in 0 .. IntMax  BY <1>1 DEF normalize, At, Ints
  <1>3. p # ""  BY PhaseSet
  <1>4. QED  BY <1>1, <1>2, <1>3 DEF normalize, At, Cursors, NoCursor

LEMMA CursorFacts ==
  ASSUME NEW c \in Cursors
  PROVE  c = At(c.phase, c.offset) /\ c.phase \in Phases /\ c.offset \in 0 .. IntMax
         /\ normalize(c) = c /\ c # NoCursor
  <1>1. c \in [phase : Phases, offset : 0 .. IntMax] /\ normalize(c) = c  BY DEF Cursors
  <1>2. c = At(c.phase, c.offset)  BY <1>1 DEF At
  <1>3. c.phase # "" /\ NoCursor.phase = ""  BY <1>1, PhaseSet DEF NoCursor, At
  <1>4. QED  BY <1>1, <1>2, <1>3

LEMMA FirstFacts == FirstCursor \in Cursors
  <1>1. 0 \in 0 .. IntMax  BY SettingsAssumption
  <1>2. QED  BY <1>1, PhaseSet DEF FirstCursor, Cursors, At, normalize

LEMMA NatsAreInts == 0 .. IntMax \subseteq Ints /\ {0, 1} \subseteq 0 .. IntMax
  BY SettingsAssumption DEF Ints

(* Whatever the settings say, bx_chain_decode gives a cursor. *)
LEMMA DecodeType ==
  ASSUME NEW text, NEW step, NEW offset \in Ints, NEW pass
  PROVE  normalize(bx_chain_decode(text, step, offset, pass)) \in Cursors
  <1>1. parse_stored(text) = NoCursor \/ parse_stored(text) \in Cursors
    <2>1. CASE Len(text) = 2 /\ text[1] \in Phases /\ text[2] \in 0 .. IntMax
      BY <2>1, NormalizeFacts, NatsAreInts DEF parse_stored
    <2>2. QED  BY <2>1 DEF parse_stored
  <1>2. parse_legacy(step, offset, pass) = NoCursor
        \/ normalize(parse_legacy(step, offset, pass)) \in Cursors
    <2> DEFINE o == IF offset < 0 THEN 0 ELSE offset
    <2>1. o \in Ints  BY NatsAreInts
    <2> HIDE DEF o
    <2>2. \/ parse_legacy(step, offset, pass) = NoCursor
          \/ \E p \in Phases, q \in {o, 0} : parse_legacy(step, offset, pass) = At(p, q)
      BY PhaseSet DEF parse_legacy, o
    <2>3. QED  BY <2>1, <2>2, NormalizeFacts, NatsAreInts
  <1>3. bx_chain_decode(text, step, offset, pass) \in Cursors
    BY <1>1, <1>2, FirstFacts DEF bx_chain_decode
  <1>4. QED  BY <1>3, CursorFacts

-----------------------------------------------------------------------------
(* What a start reads *)

(* What apply_database_row makes of a row, by its type. *)
LEMMA Applied ==
  ASSUME NEW c, NEW n, NEW row
  PROVE  /\ (n \in MysqlNames \/ row = NoRow) => apply_database_row(c, n, row) = c
         /\ (n \notin MysqlNames /\ row.type = "string" /\ row.cval # Null)
              => apply_database_row(c, n, row) = bx_conf_set(c, n, OfString(row.cval))
         /\ (n \notin MysqlNames /\ row.type \in {"integer", "int"} /\ row.ival # Null)
              => apply_database_row(c, n, row) = bx_conf_set(c, n, OfInt(row.ival[1]))
         /\ (row.type \in {"integer", "int"} /\ row.ival = Null)
              => apply_database_row(c, n, row) = c
         /\ \/ apply_database_row(c, n, row) = c
            \/ apply_database_row(c, n, row) = bx_conf_set(c, n, OfString(row.cval))
            \/ row.ival # Null /\ apply_database_row(c, n, row) = bx_conf_set(c, n, OfInt(row.ival[1]))
            \/ \E b \in BOOLEAN : apply_database_row(c, n, row) = bx_conf_set(c, n, OfBool(b))
  <1> DEFINE T(names) == n \notin MysqlNames /\ row.type \in names
             s == T({"string", "text", "char", "varchar"}) /\ row.cval # Null
             i == T({"integer", "int"}) /\ row.ival # Null
             b == T({"bool", "boolean"}) /\ row.ival # Null
  <1>1. apply_database_row(c, n, row) =
          CASE s -> bx_conf_set(c, n, OfString(row.cval))
            [] i -> bx_conf_set(c, n, OfInt(row.ival[1]))
            [] b -> bx_conf_set(c, n, OfBool(row.ival[1] # 0))
            [] OTHER -> c
    BY Zenon DEF apply_database_row
  <1>2. ~(s /\ i) /\ ~(s /\ b) /\ ~(i /\ b)  OBVIOUS
  <1>3. row = NoRow => ~s /\ ~i /\ ~b
    <2>1. NoRow.type = ""  BY DEF NoRow
    <2>2. row = NoRow => row.type = ""  BY <2>1
    <2>3. QED  BY <2>2
  <1>4. n \in MysqlNames => ~s /\ ~i /\ ~b  OBVIOUS
  <1>5. (row.type \in {"integer", "int"} /\ row.ival = Null) => ~s /\ ~i /\ ~b  OBVIOUS
  <1>6. (n \notin MysqlNames /\ row.type = "string" /\ row.cval # Null) => s  OBVIOUS
  <1>7. (n \notin MysqlNames /\ row.type \in {"integer", "int"} /\ row.ival # Null) <=> i  OBVIOUS
  <1> HIDE DEF s, i, b
  <1>8. s => apply_database_row(c, n, row) = bx_conf_set(c, n, OfString(row.cval))
    BY <1>1, <1>2, Zenon
  <1>9. i => apply_database_row(c, n, row) = bx_conf_set(c, n, OfInt(row.ival[1]))
    BY <1>1, <1>2, Zenon
  <1>10. b => apply_database_row(c, n, row) = bx_conf_set(c, n, OfBool(row.ival[1] # 0))
    BY <1>1, <1>2, Zenon
  <1>11. ~s /\ ~i /\ ~b => apply_database_row(c, n, row) = c  BY <1>1, Zenon
  <1>12. (row.ival[1] # 0) \in BOOLEAN  OBVIOUS
  <1>13. QED
    BY <1>3, <1>4, <1>5, <1>6, <1>7, <1>8, <1>9, <1>10, <1>11, <1>12, Zenon

(* The setting a start has under the name n, once the rows are read. *)
LEMMA ReadRow ==
  ASSUME NEW n \in Names
  PROVE  LET row == table[n]
             got == bx_conf_load_database(bx_conf_loadfile)[n]
         IN  /\ (n \in MysqlNames \/ row = NoRow) => got = bx_conf_loadfile[n]
             /\ (n \notin MysqlNames /\ row.type = "string" /\ row.cval # Null)
                  => got = OfString(row.cval)
             /\ (n \notin MysqlNames /\ row.type \in {"integer", "int"} /\ row.ival # Null)
                  => got = OfInt(row.ival[1])
             /\ (row.type \in {"integer", "int"} /\ row.ival = Null) => got = bx_conf_loadfile[n]
             /\ \/ got = bx_conf_loadfile[n] \/ got = OfString(row.cval)
                \/ row.ival # Null /\ got = OfInt(row.ival[1])
                \/ \E b \in BOOLEAN : got = OfBool(b)
  <1> DEFINE c == bx_conf_loadfile
             got == bx_conf_load_database(c)[n]
  <1>1. got = apply_database_row(c, n, table[n])[n]  BY DEF bx_conf_load_database
  <1>2. \A v : bx_conf_set(c, n, v)[n] = v  BY DEF bx_conf_set, bx_conf_loadfile
  <1> HIDE DEF c
  <1>3. QED  BY <1>1, <1>2, Applied DEF c

(* The file sets nothing under the names of the chain. *)
LEMMA ChainNotInFile ==
  ASSUME NEW n \in ChainNames
  PROVE  n \in Names /\ n \notin MysqlNames /\ bx_conf_loadfile[n] = Unset
  <1>1. n \in Names /\ n \notin MysqlNames /\ n \notin DOMAIN FileValues
    BY SettingsAssumption DEF ChainNames, Names, MysqlNames
  <1>2. QED  BY <1>1 DEF bx_conf_loadfile

(* The legacy offset is one an int holds, whatever the row says. *)
LEMMA OffsetRead ==
  ASSUME SetTypeOK
  PROVE  /\ bx_conf_get_int(bx_conf_load_database(bx_conf_loadfile), "sync-chain-offset") \in Ints
         /\ bx_conf_get_int(bx_conf_loadfile, "sync-chain-offset") \in Ints
  <1> DEFINE n == "sync-chain-offset"
             got == bx_conf_load_database(bx_conf_loadfile)[n]
  <1>1. n \in Names /\ bx_conf_loadfile[n] = Unset  BY ChainNotInFile DEF ChainNames
  <1>2. Unset.i \in Ints /\ 0 \in Ints  BY NatsAreInts DEF Unset
  <1>3. got.i \in Ints
    <2>1. \A t : OfString(t).i = 0  BY DEF OfString, Unset
    <2>2. \A b \in BOOLEAN : OfBool(b).i \in Ints  BY NatsAreInts DEF OfBool, Unset
    <2>3. ASSUME table[n].ival # Null PROVE OfInt(table[n].ival[1]).i \in Ints
      <3>1. table[n].ival[1] \in Int  BY <1>1, <2>3 DEF SetTypeOK, IsColumn, Null
      <3>2. QED  BY <3>1, ToIntFacts DEF OfInt, Unset
    <2> HIDE DEF n
    <2>4. QED  BY <1>1, <1>2, <2>1, <2>2, <2>3, ReadRow
  <1>4. QED  BY <1>1, <1>2, <1>3 DEF bx_conf_get_int

(* Texts of one word differ from one another and from NULL. *)
LEMMA Words ==
  /\ <<"contact">> # <<"project">> /\ <<"contact">> # <<"invoice">> /\ <<"project">> # <<"invoice">>
  /\ Null # <<"contact">> /\ Null # <<"project">> /\ Null # <<"invoice">>
  BY DEF Null

(* No row, no cursor. *)
LEMMA ParseNull == parse_stored(Null) = NoCursor
  BY DEF parse_stored, Null

LEMMA LegacyNull ==
  ASSUME NEW offset, NEW pass
  PROVE  parse_legacy(Null, offset, pass) = NoCursor
  BY Words, Zenon DEF parse_legacy

(* The text bx_chain_save wrote is the cursor it was given. *)
LEMMA ParseText ==
  ASSUME NEW c \in Cursors
  PROVE  parse_stored(TextOf(c)) = c /\ TextOf(c) # Null
  <1>1. /\ Len(TextOf(c)) = 2 /\ TextOf(c)[1] = c.phase /\ TextOf(c)[2] = c.offset
        /\ TextOf(c) # Null
    BY DEF TextOf, Null
  <1>2. QED  BY <1>1, CursorFacts DEF parse_stored

StepOf(c) == OldRows(c)["sync-chain-step"].cval
PassOf(c) == OldRows(c)["sync-chain-cycle"].ival[1]

(* The rows the previous version wrote, one by one. *)
LEMMA OldRowsAre ==
  ASSUME NEW c
  PROVE  /\ OldRows(c)["sync-chain"] = NoRow
         /\ OldRows(c)["sync-chain-step"] =
              Text(IF c.phase \in {"contact-active", "contact-archived"} THEN <<"contact">>
                   ELSE IF c.phase = "project" THEN <<"project">> ELSE <<"invoice">>)
         /\ OldRows(c)["sync-chain-offset"] = Number(c.offset)
         /\ OldRows(c)["sync-chain-cycle"] =
              Number(IF c.phase \in {"contact-archived", "invoice-missed"} THEN 1 ELSE 0)
  <1>1. ChainNames \subseteq Names  BY DEF Names
  <1>2. /\ "sync-chain" \in Names /\ "sync-chain-step" \in Names
        /\ "sync-chain-offset" \in Names /\ "sync-chain-cycle" \in Names
    BY DEF Names, ChainNames
  <1>3. QED  BY <1>2, Zenon DEF OldRows

(* They stand for that cursor. *)
LEMMA ParseOldRows ==
  ASSUME NEW p \in Phases, NEW o \in 0 .. IntMax
  PROVE  LET c == At(p, o) IN
         /\ parse_legacy(StepOf(c), o, PassOf(c)) # NoCursor
         /\ normalize(parse_legacy(StepOf(c), o, PassOf(c))) = normalize(c)
  <1> DEFINE c == At(p, o)
  <1>0. c.phase = p /\ c.offset = o /\ ~(o < 0)  BY SettingsAssumption DEF At
  <1>1. \A t : Text(t).cval = t  BY DEF Text, NoRow
  <1>2. \A i : Number(i).ival[1] = i  BY DEF Number, NoRow
  <1>3. StepOf(c) = IF p \in {"contact-active", "contact-archived"} THEN <<"contact">>
                    ELSE IF p = "project" THEN <<"project">> ELSE <<"invoice">>
    BY <1>0, <1>1, OldRowsAre DEF StepOf
  <1>4. PassOf(c) = IF p \in {"contact-archived", "invoice-missed"} THEN 1 ELSE 0
    BY <1>0, <1>2, OldRowsAre DEF PassOf
  <1> HIDE DEF c
  <1>5. CASE p \in {"contact-active", "contact-archived"}
    <2>1. parse_legacy(<<"contact">>, o, PassOf(c)) =
            At(IF PassOf(c) = 1 THEN "contact-archived" ELSE "contact-active", o)
      BY <1>0, Words, Zenon DEF parse_legacy
    <2>2. parse_legacy(StepOf(c), o, PassOf(c)) = At(p, o)  BY <1>3, <1>4, <1>5, <2>1
    <2>3. QED  BY <2>2, NormalizeFacts, NatsAreInts DEF c
  <1>6. CASE p = "project"
    <2>1. parse_legacy(<<"project">>, o, PassOf(c)) = At("project", o)
      BY <1>0, Words, Zenon DEF parse_legacy
    <2>2. parse_legacy(StepOf(c), o, PassOf(c)) = At(p, o)  BY <1>3, <1>6, <2>1
    <2>3. QED  BY <2>2, NormalizeFacts, NatsAreInts DEF c
  <1>7. CASE p \in {"invoice-list", "invoice-missed"}
    <2>1. parse_legacy(<<"invoice">>, o, PassOf(c)) =
            IF PassOf(c) = 1 THEN At("invoice-missed", 0) ELSE At("invoice-list", o)
      BY <1>0, Words, Zenon DEF parse_legacy
    <2>2. parse_legacy(StepOf(c), o, PassOf(c)) = At(p, IF p = "invoice-missed" THEN 0 ELSE o)
      BY <1>3, <1>4, <1>7, <2>1
    <2>3. normalize(At(p, IF p = "invoice-missed" THEN 0 ELSE o)) = normalize(At(p, o))
      BY DEF normalize, At
    <2>4. QED  BY <2>2, <2>3, NormalizeFacts, NatsAreInts DEF c
  <1>8. QED  BY <1>5, <1>6, <1>7, PhaseSet DEF c

-----------------------------------------------------------------------------
(* A start *)

LEMMA RowShapes ==
  /\ \A t : Text(t).type = "string" /\ Text(t).cval = t /\ Text(t).ival = Null
  /\ \A i : Number(i).type = "integer" /\ Number(i).ival = <<i>>
  /\ NoRow.ival = Null
  BY DEF Text, Number, NoRow, Null

(* The rows of a cursor read back. *)
LEMMA CursorRead ==
  ASSUME SetInv, lastStored # NoCursor
  PROVE  normalize(bx_chain_load(bx_conf_load_database(bx_conf_loadfile))) = lastStored
  <1> DEFINE c == bx_conf_load_database(bx_conf_loadfile)
             off == bx_conf_get_int(c, "sync-chain-offset")
             pass == bx_conf_get_int(c, "sync-chain-cycle")
  <1>0. bx_chain_load(c) = bx_chain_decode(bx_conf_get_string(c, "sync-chain"),
                             bx_conf_get_string(c, "sync-chain-step"), off, pass)
    BY DEF bx_chain_load
  <1>1. /\ "sync-chain" \in ChainNames /\ "sync-chain-step" \in ChainNames
        /\ "sync-chain-offset" \in ChainNames /\ "sync-chain-cycle" \in ChainNames
    BY DEF ChainNames
  <1>2. ASSUME NEW n \in ChainNames, table[n] = NoRow
        PROVE  bx_conf_get_string(c, n) = Null
    <2>1. c[n] = Unset  BY <1>2, ReadRow, ChainNotInFile
    <2>2. Unset.type = ""  BY DEF Unset
    <2>3. QED  BY <2>1, <2>2 DEF bx_conf_get_string
  <1>3. ASSUME NEW n \in ChainNames, NEW t, table[n] = Text(t), t # Null
        PROVE  bx_conf_get_string(c, n) = t
    <2>1. c[n] = OfString(t)  BY <1>3, ReadRow, ChainNotInFile, RowShapes
    <2>2. OfString(t).type = "String" /\ OfString(t).s = t  BY DEF OfString, Unset
    <2>3. QED  BY <2>1, <2>2 DEF bx_conf_get_string
  <1>4. ASSUME NEW n \in ChainNames, NEW i \in 0 .. IntMax, table[n] = Number(i)
        PROVE  bx_conf_get_int(c, n) = i
    <2>0. i \in Ints /\ i \in Int /\ ToInt(i) = i  BY NatsAreInts, ToIntFacts
    <2>1. table[n].type = "integer" /\ table[n].ival = <<i>> /\ <<i>> # Null
      BY <1>4, RowShapes DEF Null
    <2>2. c[n] = OfInt(<<i>>[1])  BY <2>1, ReadRow, ChainNotInFile
    <2>3. c[n] = OfInt(i)  BY <2>2
    <2>4. OfInt(i).type = "Integer" /\ OfInt(i).i = i  BY <2>0 DEF OfInt, Unset
    <2>5. QED  BY <2>3, <2>4 DEF bx_conf_get_int
  <1> HIDE DEF c, off, pass
  <1>5. CASE lastStored \in Cursors /\ table["sync-chain"] = Text(TextOf(lastStored))
    <2>1. bx_conf_get_string(c, "sync-chain") = TextOf(lastStored)
      BY <1>1, <1>3, <1>5, ParseText
    <2>2. bx_chain_load(c) = lastStored
      BY <1>0, <1>5, <2>1, ParseText, CursorFacts DEF bx_chain_decode
    <2>3. QED  BY <2>2, <1>5, CursorFacts DEF c
  <1>6. CASE lastStored = FirstCursor /\ \A n \in ChainNames : table[n] = NoRow
    <2>1. /\ bx_conf_get_string(c, "sync-chain") = Null
          /\ bx_conf_get_string(c, "sync-chain-step") = Null
      BY <1>1, <1>2, <1>6
    <2>2. bx_chain_load(c) = FirstCursor
      BY <1>0, <2>1, ParseNull, LegacyNull DEF bx_chain_decode
    <2>3. QED  BY <2>2, <1>6, FirstFacts, CursorFacts DEF c
  <1>7. ASSUME NEW d \in [phase : Phases, offset : 0 .. IntMax],
               lastStored = normalize(d), LeftRows(d)
        PROVE  normalize(bx_chain_load(c)) = lastStored
    <2>0. d = At(d.phase, d.offset) /\ d.phase \in Phases /\ d.offset \in 0 .. IntMax
      BY DEF At
    <2>1. bx_conf_get_string(c, "sync-chain") = Null
      BY <1>1, <1>2, <1>7, OldRowsAre DEF LeftRows
    <2>2. bx_conf_get_string(c, "sync-chain-step") = StepOf(d)
      <3> DEFINE t == IF d.phase \in {"contact-active", "contact-archived"} THEN <<"contact">>
                      ELSE IF d.phase = "project" THEN <<"project">> ELSE <<"invoice">>
      <3>1. table["sync-chain-step"] = Text(t) /\ StepOf(d) = Text(t).cval
        BY <1>1, <1>7, OldRowsAre DEF LeftRows, StepOf
      <3>2. t # Null  BY Words
      <3> HIDE DEF t
      <3>3. QED  BY <3>1, <3>2, <1>1, <1>3, RowShapes
    <2>3. off = d.offset
      BY <1>1, <1>4, <1>7, <2>0, OldRowsAre DEF LeftRows, off
    <2>4. pass = PassOf(d)
      <3> DEFINE i == IF d.phase \in {"contact-archived", "invoice-missed"} THEN 1 ELSE 0
      <3>1. i \in 0 .. IntMax  BY NatsAreInts
      <3>2. table["sync-chain-cycle"] = Number(i) /\ PassOf(d) = Number(i).ival[1]
        BY <1>1, <1>7, OldRowsAre DEF LeftRows, PassOf
      <3> HIDE DEF i
      <3>3. PassOf(d) = i  BY <3>2, RowShapes
      <3>4. QED  BY <3>1, <3>2, <3>3, <1>1, <1>4 DEF pass
    <2>5. /\ parse_legacy(StepOf(d), d.offset, PassOf(d)) # NoCursor
          /\ normalize(parse_legacy(StepOf(d), d.offset, PassOf(d))) = normalize(d)
      BY <2>0, ParseOldRows
    <2>6. bx_chain_load(c) = normalize(d)
      BY <1>0, <2>1, <2>2, <2>3, <2>4, <2>5, ParseNull DEF bx_chain_decode
    <2>7. normalize(d) \in Cursors  BY <2>0, NormalizeFacts, NatsAreInts
    <2>8. QED  BY <2>6, <2>7, <1>7, CursorFacts
  <1>8. QED  BY <1>5, <1>6, <1>7 DEF SetInv, RowsStand, c

(* prune-drift: the administrator's value, or the file's. *)
LEMMA DriftRead ==
  ASSUME SetInv
  PROVE  bx_conf_get_int(bx_conf_load_database(bx_conf_loadfile), "prune-drift") =
           IF lastTold # Null THEN lastTold[1] ELSE FileValues["prune-drift"].val
  <1> DEFINE n == "prune-drift"
             got == bx_conf_load_database(bx_conf_loadfile)[n]
             file == FileValues[n].val
  <1>0. n \in Names /\ n \notin MysqlNames  BY DEF Names, MysqlNames
  <1>1. \A v \in Ints : v \in Int /\ OfInt(v).type = "Integer" /\ OfInt(v).i = v
    BY ToIntFacts, SettingsAssumption DEF OfInt, Unset, Ints
  <1>2. bx_conf_loadfile[n] = OfInt(file) /\ file \in Ints
    <2>1. n \in DOMAIN FileValues /\ FileValues[n].json = "integer" /\ file \in Ints
      BY SettingsAssumption
    <2>2. OfJson(FileValues[n]) = OfInt(file)  BY <2>1, Zenon DEF OfJson
    <2>3. QED  BY <1>0, <2>1, <2>2 DEF bx_conf_loadfile
  <1>3. /\ table[n].ival = lastTold /\ IsColumn(lastTold, Ints)
        /\ table[n].type \in {"integer", "int"} \/ table[n] = NoRow
    BY DEF SetInv, DriftStands
  <1> HIDE DEF n, file
  <1>4. CASE lastTold # Null
    <2>1. lastTold[1] \in Ints  BY <1>3, <1>4 DEF IsColumn, Null
    <2>2. table[n] # NoRow  BY <1>3, <1>4, RowShapes
    <2>3. got = OfInt(lastTold[1])  BY <1>0, <1>3, <1>4, <2>2, ReadRow
    <2>4. QED  BY <1>1, <1>4, <2>1, <2>3 DEF bx_conf_get_int, n
  <1>5. CASE lastTold = Null
    <2>1. got = OfInt(file)  BY <1>0, <1>2, <1>3, <1>5, ReadRow
    <2>2. QED  BY <1>1, <1>2, <1>5, <2>1 DEF bx_conf_get_int, n, file
  <1>6. QED  BY <1>4, <1>5

(* The way to the database: the file's, whatever the rows say. *)
LEMMA HostRead ==
  bx_conf_get_string(bx_conf_load_database(bx_conf_loadfile), "mysql-host") =
    FileValues["mysql-host"].val
  <1> DEFINE n == "mysql-host"
             file == FileValues[n].val
  <1>0. n \in Names /\ n \in MysqlNames  BY DEF Names, MysqlNames
  <1>1. bx_conf_loadfile[n] = OfString(file)
    <2>1. n \in DOMAIN FileValues /\ FileValues[n].json = "string"  BY SettingsAssumption
    <2>2. OfJson(FileValues[n]) = OfString(file)  BY <2>1, Zenon DEF OfJson
    <2>3. QED  BY <1>0, <2>1, <2>2 DEF bx_conf_loadfile
  <1>2. OfString(file).type = "String" /\ OfString(file).s = file  BY DEF OfString, Unset
  <1> HIDE DEF n, file
  <1>3. bx_conf_load_database(bx_conf_loadfile)[n] = OfString(file)  BY <1>0, <1>1, ReadRow
  <1>4. QED  BY <1>2, <1>3 DEF bx_conf_get_string, n, file

-----------------------------------------------------------------------------
(* Steps *)

LEMMA ChainAmongNames == "sync-chain" \in Names /\ "prune-drift" \in Names
  BY DEF Names, ChainNames

(* A row of the chain's cursor, answered or not, keeps the table in order. *)
LEMMA PutRowKeeps ==
  ASSUME SetInv, NEW c \in Cursors, PutRow(c), lastTold' = lastTold
  PROVE  /\ RowsStand' /\ DriftStands' /\ DOMAIN table' = Names
         /\ \A n \in Names : IsColumn(table'[n].ival, Int)
  <1> USE DEF SetInv, SetTypeOK
  <1>1. table' = [table EXCEPT !["sync-chain"] = Text(TextOf(c))] /\ lastStored' = c
    BY DEF PutRow
  <1>2. DOMAIN table' = Names  BY <1>1
  <1>3. table'["sync-chain"] = Text(TextOf(c))  BY <1>1, ChainAmongNames
  <1>4. ASSUME NEW n \in Names, n # "sync-chain" PROVE table'[n] = table[n]
    BY <1>1, <1>4
  <1>5. RowsStand'  BY <1>1, <1>3 DEF RowsStand
  <1>6. DriftStands'  BY <1>4, ChainAmongNames DEF DriftStands
  <1>7. ASSUME NEW n \in Names PROVE IsColumn(table'[n].ival, Int)
    <2>1. CASE n = "sync-chain"
      <3>1. table'[n].ival = Null  BY <2>1, <1>3, RowShapes
      <3>2. IsColumn(Null, Int)  BY DEF IsColumn, Null
      <3>3. QED  BY <3>1, <3>2
    <2>2. CASE n # "sync-chain"  BY <1>4, <2>2
    <2>3. QED  BY <2>1, <2>2
  <1>8. QED  BY <1>2, <1>5, <1>6, <1>7

(* A save of a cursor leaves the table as it was, or has put the row. *)
LEMMA SaveKeeps ==
  ASSUME SetInv, NEW c \in Cursors, SaveOk(c) \/ SaveFails(c), lastTold' = lastTold,
         chainCursor' \in Cursors, up' = up
  PROVE  SetInv'
  <1>1. CASE PutRow(c)  BY <1>1, PutRowKeeps DEF SetInv, SetTypeOK
  <1>2. CASE UNCHANGED <<table, lastStored>>
    BY <1>2 DEF SetInv, SetTypeOK, RowsStand, DriftStands, LeftRows
  <1>3. QED  BY <1>1, <1>2 DEF SaveOk, SaveFails

LEMMA NextPhases ==
  ASSUME NEW p \in Phases
  PROVE  NextPhase(p) \subseteq Phases
  <1>1. p = "contact-active" => NextPhase(p) = {"contact-archived"}  BY Zenon DEF NextPhase
  <1>2. p = "contact-archived" => NextPhase(p) = {"project"}  BY Zenon DEF NextPhase
  <1>3. p = "project" => NextPhase(p) = {"invoice-list"}  BY Zenon DEF NextPhase
  <1>4. p = "invoice-list" => NextPhase(p) = {"invoice-missed", "contact-active"}
    BY Zenon DEF NextPhase
  <1>5. p = "invoice-missed" => NextPhase(p) = {"contact-active"}  BY Zenon DEF NextPhase
  <1>6. QED  BY <1>1, <1>2, <1>3, <1>4, <1>5, PhaseSet

(* An administrator's row of the chain ends what is known of the cursor; any  *)
(* other leaves the rows of the chain alone.                                  *)
LEMMA AdminKeeps ==
  ASSUME SetInv, AdminWrites
  PROVE  SetInv'
  <1>1. PICK w \in AdminRows :
          /\ table' = [table EXCEPT ![w[1]] = w[2]]
          /\ lastStored' = IF w[1] \in ChainNames THEN NoCursor ELSE lastStored
          /\ lastTold' = IF w[1] = "prune-drift" THEN w[2].ival ELSE lastTold
    BY DEF AdminWrites
  <1>2. /\ w[1] \in Names /\ IsColumn(w[2].ival, Int)
        /\ w[1] = "prune-drift" =>
             w[2].type \in {"integer", "int"} /\ IsColumn(w[2].ival, Ints)
    BY SettingsAssumption
  <1>3. DOMAIN table = Names /\ chainCursor' = chainCursor /\ up' = up
    BY DEF SetInv, SetTypeOK, AdminWrites
  <1>4. DOMAIN table' = Names /\ table'[w[1]] = w[2]  BY <1>1, <1>2, <1>3
  <1>5. ASSUME NEW n \in Names, n # w[1] PROVE table'[n] = table[n]
    BY <1>1, <1>3, <1>5
  <1>6. SetTypeOK'
    <2>1. ASSUME NEW n \in Names PROVE IsColumn(table'[n].ival, Int)
      BY <1>2, <1>4, <1>5 DEF SetInv, SetTypeOK
    <2>2. QED  BY <1>3, <1>4, <2>1 DEF SetInv, SetTypeOK
  <1>7. DriftStands'
    <2>1. CASE w[1] = "prune-drift"  BY <1>1, <1>2, <1>4, <2>1 DEF DriftStands
    <2>2. CASE w[1] # "prune-drift"
      <3>1. table'["prune-drift"] = table["prune-drift"] /\ lastTold' = lastTold
        BY <1>1, <1>5, <2>2, ChainAmongNames
      <3>2. QED  BY <3>1 DEF SetInv, DriftStands
    <2>3. QED  BY <2>1, <2>2
  <1>8. RowsStand'
    <2>1. CASE w[1] \in ChainNames  BY <1>1, <2>1 DEF RowsStand
    <2>2. CASE w[1] \notin ChainNames
      <3>1. lastStored' = lastStored /\ \A n \in ChainNames : table'[n] = table[n]
        BY <1>1, <1>5, <2>2 DEF Names
      <3>2. "sync-chain" \in ChainNames  BY DEF ChainNames
      <3>3. QED  BY <3>1, <3>2 DEF SetInv, RowsStand, LeftRows
    <2>3. QED  BY <2>1, <2>2
  <1>9. QED  BY <1>6, <1>7, <1>8 DEF SetInv

(* A start and a death leave the rows alone. *)
LEMMA RowsLeftAlone ==
  ASSUME SetInv, UNCHANGED <<table, lastStored, lastTold>>,
         chainCursor' \in Cursors, up' \in {"down", "rows", "file"}
  PROVE  SetInv'
  BY DEF SetInv, SetTypeOK, RowsStand, DriftStands, LeftRows

LEMMA SetStep ==
  ASSUME SetInv, [SetNext]_setVars
  PROVE  SetInv'
  <1>0. chainCursor \in Cursors /\ SetTypeOK  BY DEF SetInv, SetTypeOK
  <1>1. CASE StartRead
    <2>1. chainCursor' \in Cursors
      BY <1>0, <1>1, OffsetRead, DecodeType DEF StartRead, bx_chain_load
    <2>2. QED  BY <1>1, <2>1, RowsLeftAlone DEF StartRead
  <1>2. CASE StartUnread
    <2>1. chainCursor' \in Cursors
      BY <1>0, <1>2, OffsetRead, DecodeType DEF StartUnread, bx_chain_load
    <2>2. QED  BY <1>2, <2>1, RowsLeftAlone DEF StartUnread
  <1>3. CASE SettingsCrash  BY <1>3, RowsLeftAlone, FirstFacts DEF SettingsCrash
  <1>4. CASE CheckpointPage
    <2>1. PICK o \in 0 .. IntMax :
            LET c == normalize(At(chainCursor.phase, o)) IN
            \/ SaveOk(c) /\ chainCursor' = c
            \/ SaveFails(c) /\ UNCHANGED chainCursor
      BY <1>4 DEF CheckpointPage
    <2>2. normalize(At(chainCursor.phase, o)) \in Cursors
      BY <1>0, CursorFacts, NormalizeFacts, NatsAreInts
    <2>3. lastTold' = lastTold /\ up' = up  BY <1>4 DEF CheckpointPage
    <2>4. QED  BY <1>0, <2>1, <2>2, <2>3, SaveKeeps
  <1>5. CASE AdvancePhase
    <2>1. PICK p \in NextPhase(chainCursor.phase) :
            LET c == normalize(At(p, 0)) IN chainCursor' = c /\ (SaveOk(c) \/ SaveFails(c))
      BY <1>5 DEF AdvancePhase
    <2>2. p \in Phases  BY <1>0, CursorFacts, NextPhases
    <2>3. normalize(At(p, 0)) \in Cursors  BY <2>2, NormalizeFacts, NatsAreInts
    <2>4. lastTold' = lastTold /\ up' = up  BY <1>5 DEF AdvancePhase
    <2>5. QED  BY <2>1, <2>3, <2>4, SaveKeeps
  <1>6. CASE AdminWrites  BY <1>6, AdminKeeps
  <1>7. CASE UNCHANGED setVars  BY <1>0, <1>7, RowsLeftAlone DEF setVars, SetTypeOK
  <1>8. QED  BY <1>1, <1>2, <1>3, <1>4, <1>5, <1>6, <1>7 DEF SetNext

LEMMA SetStart == SetInit => SetInv
  <1> SUFFICES ASSUME SetInit PROVE SetInv  OBVIOUS
  <1>1. chainCursor \in Cursors /\ up = "down" /\ lastTold = Null
    BY FirstFacts DEF SetInit
  <1>2. IsColumn(Null, Int) /\ IsColumn(Null, Ints)  BY DEF IsColumn, Null
  <1>3. CASE table = NoRows /\ lastStored = FirstCursor
    <2>1. DOMAIN table = Names /\ \A n \in Names : table[n] = NoRow  BY <1>3 DEF NoRows
    <2>2. SetTypeOK  BY <1>1, <1>2, <2>1, RowShapes DEF SetTypeOK
    <2>3. RowsStand  BY <1>3, <2>1 DEF RowsStand, Names
    <2>4. DriftStands  BY <1>1, <1>2, <2>1, RowShapes, ChainAmongNames DEF DriftStands
    <2>5. QED  BY <2>2, <2>3, <2>4 DEF SetInv
  <1>4. ASSUME NEW c \in [phase : Phases, offset : 0 .. IntMax],
               table = OldRows(c), lastStored = normalize(c)
        PROVE  SetInv
    <2>1. DOMAIN table = Names  BY <1>4 DEF OldRows
    <2>2. ASSUME NEW n \in Names \ ChainNames PROVE table[n] = NoRow
      BY <1>4, <2>2, Zenon DEF OldRows, ChainNames
    <2>3. ASSUME NEW n \in Names PROVE IsColumn(table[n].ival, Int)
      <3>1. c.offset \in Int  BY SettingsAssumption
      <3>2. \A i \in Int : IsColumn(Number(i).ival, Int)
        <4>1. \A i \in Int : IsColumn(<<i>>, Int)  BY DEF IsColumn
        <4>2. QED  BY <4>1, RowShapes
      <3>3. \A t : IsColumn(Text(t).ival, Int)  BY <1>2, RowShapes
      <3>4. IsColumn(NoRow.ival, Int)  BY <1>2, RowShapes
      <3>5. CASE n \in Names \ ChainNames  BY <2>2, <3>4, <3>5
      <3>6. CASE n = "sync-chain"  BY <1>4, <3>4, <3>6, OldRowsAre
      <3>7. CASE n = "sync-chain-step"  BY <1>4, <3>3, <3>7, OldRowsAre
      <3>8. CASE n = "sync-chain-offset"  BY <1>4, <3>1, <3>2, <3>8, OldRowsAre
      <3>9. CASE n = "sync-chain-cycle"  BY <1>4, <3>2, <3>9, OldRowsAre
      <3>10. QED  BY <3>5, <3>6, <3>7, <3>8, <3>9 DEF ChainNames
    <2>4. SetTypeOK  BY <1>1, <2>1, <2>3 DEF SetTypeOK
    <2>5. RowsStand  BY <1>4 DEF RowsStand, LeftRows
    <2>6. table["prune-drift"] = NoRow  BY <2>2 DEF Names, ChainNames
    <2>7. DriftStands  BY <1>1, <1>2, <2>6, RowShapes DEF DriftStands
    <2>8. QED  BY <2>4, <2>5, <2>7 DEF SetInv
  <1>5. QED  BY <1>3, <1>4 DEF SetInit

-----------------------------------------------------------------------------
(* Theorems *)

(* The rows of _configuration stand for the cursor and the drift last         *)
(* written, whenever the process dies and whichever save failed or was not    *)
(* answered (bx_conf_put_database_conn).                                      *)
THEOREM SettingsInvariant == SetSpec => []SetInv
  BY SetStart, SetStep, PTL DEF SetSpec

(* A start that reads the rows resumes the chain where it was last saved, by  *)
(* this version or the previous one, takes the administrator's prune-drift or *)
(* else the file's, and the file's way to the database (bx_chain_decode,      *)
(* apply_database_row).                                                       *)
THEOREM StartResumes == SetSpec => RestartResumes
  <1>1. SetInv /\ [SetNext]_setVars
          => [(up = "down" /\ up' = "rows") =>
               /\ lastStored # NoCursor => chainCursor' = lastStored
               /\ bx_conf_get_int(conf', "prune-drift") =
                    IF lastTold # Null THEN lastTold[1] ELSE FileValues["prune-drift"].val
               /\ bx_conf_get_string(conf', "mysql-host") = FileValues["mysql-host"].val]_setVars
    <2> SUFFICES ASSUME SetInv, SetNext, up = "down", up' = "rows"
                 PROVE  /\ lastStored # NoCursor => chainCursor' = lastStored
                        /\ bx_conf_get_int(conf', "prune-drift") =
                             IF lastTold # Null THEN lastTold[1] ELSE FileValues["prune-drift"].val
                        /\ bx_conf_get_string(conf', "mysql-host") = FileValues["mysql-host"].val
      OBVIOUS
    <2>1. StartRead
      BY DEF SetNext, StartUnread, SettingsCrash, CheckpointPage, AdvancePhase, AdminWrites
    <2>2. /\ conf' = bx_conf_load_database(bx_conf_loadfile)
          /\ chainCursor' = normalize(bx_chain_load(conf'))
      BY <2>1 DEF StartRead
    <2>3. QED  BY <2>2, CursorRead, DriftRead, HostRead
  <1>2. QED  BY <1>1, SettingsInvariant, PTL DEF SetSpec, RestartResumes

=============================================================================
