--------------------------- MODULE RecordsProofs ---------------------------
(* Proofs about Records: what the rounds of random_item_thread and the items  *)
(* of chain_thread keep to, whatever fails, is lost or dies, for every set of *)
(* records and every bound.                                                   *)
EXTENDS Records, TLAPS

-----------------------------------------------------------------------------
(* The programs and the plans *)

FirstLookups ==
  {"unit", "account", "salutation", "title", "payment_type", "currency",
   "contact_group", "language"}
TaxLists == {"taxes active", "taxes inactive"}
SalesLists == {"kb_quote", "kb_order", "kb_delivery"}
(* The lists that are not the chain's. *)
OtherLists ==
  FirstLookups \cup NamedLookups \cup JsonLookups \cup {"users", "fictional_users"}
  \cup TaxLists \cup JsonRecords \cup {"manual_entry"} \cup SalesLists

(* A sequence over a set is one over any larger set. *)
LEMMA SeqOfSubset ==
  ASSUME NEW S, NEW T, S \subseteq T, NEW s \in Seq(S)
  PROVE  s \in Seq(T)
  OBVIOUS

(* Three sequences in a row, the first of which is not empty. *)
LEMMA ThreeInARow ==
  ASSUME NEW S, NEW s \in Seq(S), NEW t \in Seq(S), NEW u \in Seq(S), Len(s) # 0
  PROVE  s \o t \o u \in Seq(S) /\ Len(s \o t \o u) \in Nat \ {0}
  OBVIOUS

(* The range of a sequence over a set. *)
LEMMA RangeOfSeq ==
  ASSUME NEW S, NEW s \in Seq(S)
  PROVE  Range(s) \subseteq S
  BY DEF Range

(* What each of the lists of lists holds. *)
LEMMA ListsOfLists ==
  /\ LookupsMore \in Seq(NamedLookups \cup JsonLookups)
  /\ UserLists \in Seq({"users", "fictional_users"})
  /\ Taxes \in Seq(TaxLists) /\ Len(Taxes) = 2 /\ Range(Taxes) = TaxLists
  /\ RecordsMore \in Seq(JsonRecords \cup {"manual_entry"})
  /\ Sales \in Seq(SalesLists)
  <1>1. LookupsMore \in Seq(NamedLookups \cup JsonLookups)
    BY DEF LookupsMore, NamedLookups, JsonLookups
  <1>2. UserLists \in Seq({"users", "fictional_users"})  BY DEF UserLists
  <1>3. Taxes \in Seq(TaxLists) /\ Len(Taxes) = 2  BY DEF Taxes, TaxLists
  <1>4. Range(Taxes) = TaxLists
    <2>1. Range(Taxes) \subseteq TaxLists  BY <1>3, RangeOfSeq
    <2>2. Taxes[1] = "taxes active" /\ Taxes[2] = "taxes inactive"  BY DEF Taxes
    <2>3. 1 \in DOMAIN Taxes /\ 2 \in DOMAIN Taxes  BY <1>3
    <2>4. QED  BY <2>1, <2>2, <2>3 DEF Range, TaxLists
  <1>5. RecordsMore \in Seq(JsonRecords \cup {"manual_entry"})  BY DEF RecordsMore, JsonRecords
  <1>6. Sales \in Seq(SalesLists)  BY DEF Sales, SalesLists
  <1>7. QED  BY <1>1, <1>2, <1>3, <1>4, <1>5, <1>6

(* The chain's lists are nobody else's. *)
LEMMA OthersAreNotChains == OtherLists \cap ChainLists = {}
  BY DEF OtherLists, FirstLookups, NamedLookups, JsonLookups, TaxLists, JsonRecords,
         SalesLists, ChainLists

(* The program of each role. *)
LEMMA ProgramsAre ==
  /\ Programs["main"] = StartupLists
  /\ Programs["records"] = Taxes \o RecordsMore \o Sales
  /\ Programs["chain"] = <<"contact", "project", "invoice">>
  BY DEF Programs

(* main walks lists that the chain does not have. *)
LEMMA StartupListsAre ==
  StartupLists \in Seq(OtherLists) /\ Len(StartupLists) \in Nat \ {0}
  <1> DEFINE first == <<"unit", "account", "salutation", "title", "payment_type",
                        "currency", "contact_group", "language">>
  <1>1. first \in Seq(FirstLookups) /\ Len(first) = 8  BY DEF FirstLookups
  <1>2. StartupLists = first \o LookupsMore \o UserLists  BY DEF StartupLists
  <1> HIDE DEF first
  <1>3. /\ first \in Seq(OtherLists) /\ LookupsMore \in Seq(OtherLists)
        /\ UserLists \in Seq(OtherLists)
    BY <1>1, ListsOfLists, SeqOfSubset DEF OtherLists
  <1>4. QED  BY <1>1, <1>2, <1>3

(* So does random_item_thread. *)
LEMMA RecordListsAre ==
  /\ Taxes \o RecordsMore \o Sales \in Seq(OtherLists)
  /\ Len(Taxes \o RecordsMore \o Sales) \in Nat \ {0}
  <1>1. Taxes \in Seq(OtherLists) /\ RecordsMore \in Seq(OtherLists) /\ Sales \in Seq(OtherLists)
    BY ListsOfLists, SeqOfSubset DEF OtherLists
  <1>2. Len(Taxes) = 2  BY ListsOfLists
  <1>3. QED  BY <1>1, <1>2, ThreeInARow

(* A program has lists, and only the chain's has the chain's. *)
LEMMA ProgramFacts ==
  ASSUME NEW who \in {"main", "records", "chain"}
  PROVE  /\ Programs[who] \in Seq(OtherLists \cup ChainLists) /\ Len(Programs[who]) \in Nat \ {0}
         /\ who # "chain" => \A i \in 1 .. Len(Programs[who]) : Programs[who][i] \notin ChainLists
  <1>1. CASE who = "main"
    <2>1. Programs[who] = StartupLists  BY <1>1, ProgramsAre
    <2>2. QED  BY <2>1, StartupListsAre, SeqOfSubset, OthersAreNotChains
  <1>2. CASE who = "records"
    <2>1. Programs[who] = Taxes \o RecordsMore \o Sales  BY <1>2, ProgramsAre
    <2>2. QED  BY <2>1, RecordListsAre, SeqOfSubset, OthersAreNotChains
  <1>3. CASE who = "chain"
    <2> DEFINE lists == <<"contact", "project", "invoice">>
    <2>1. lists \in Seq(ChainLists) /\ Len(lists) = 3  BY DEF ChainLists
    <2>2. Programs[who] = lists  BY <1>3, ProgramsAre
    <2>3. QED  BY <1>3, <2>1, <2>2, SeqOfSubset
  <1>4. QED  BY <1>1, <1>2, <1>3

(* A tax list is in a group with the other one only. *)
LEMMA TaxGroup ==
  ASSUME NEW list \in TaxLists
  PROVE  Group(list) \subseteq TaxLists
  <1>1. /\ list \notin Range(LookupsMore) /\ list \notin Range(UserLists)
        /\ list \notin Range(RecordsMore) /\ list \notin Range(Sales)
    <2>1. /\ Range(LookupsMore) \subseteq NamedLookups \cup JsonLookups
          /\ Range(UserLists) \subseteq {"users", "fictional_users"}
          /\ Range(RecordsMore) \subseteq JsonRecords \cup {"manual_entry"}
          /\ Range(Sales) \subseteq SalesLists
      BY ListsOfLists, RangeOfSeq
    <2>2. QED  BY <2>1 DEF TaxLists, NamedLookups, JsonLookups, JsonRecords, SalesLists
  <1>2. \A g \in Groups : list \in g => g = TaxLists
    BY <1>1, ListsOfLists DEF Groups
  <1>3. QED  BY <1>2 DEF Group

(* What is done with an item of the chain. *)
LEMMA ChainPlans ==
  /\ Plan("contact") = <<"check", "row", "cache", "unlink", "cg2c", "additional_address">>
  /\ Plan("project") = <<"check", "row", "cache", "project_milestone", "project_package">>
  /\ Plan("invoice") = <<"check", "get", "row", "position", "cache", "invoice_payment",
                         "invoice_reminder", "kb_comment">>
  BY Zenon DEF Plan

(* What is done with an item of the other lists. *)
LEMMA OtherPlans ==
  ASSUME NEW list, list \notin ChainLists
  PROVE  Plan(list) \in {<<"get", "row", "position", "kb_comment">>,
                         <<"get", "row", "kb_comment">>, <<"row", "line">>, <<"row">>}
  BY Zenon DEF Plan, ChainLists

(* A plan is a sequence of parts. *)
LEMMA PlanType ==
  ASSUME NEW list
  PROVE  Plan(list) \in Seq(Parts) /\ Len(Plan(list)) \in Nat
  <1>1. CASE list = "contact"
    <2> DEFINE p == <<"check", "row", "cache", "unlink", "cg2c", "additional_address">>
    <2>1. p \in Seq(Parts)  BY DEF Parts, SubLists
    <2>2. Plan(list) = p  BY <1>1, ChainPlans
    <2> QED  BY <2>1, <2>2
  <1>2. CASE list = "project"
    <2> DEFINE p == <<"check", "row", "cache", "project_milestone", "project_package">>
    <2>1. p \in Seq(Parts)  BY DEF Parts, SubLists
    <2>2. Plan(list) = p  BY <1>2, ChainPlans
    <2> QED  BY <2>1, <2>2
  <1>3. CASE list = "invoice"
    <2> DEFINE p == <<"check", "get", "row", "position", "cache", "invoice_payment",
                      "invoice_reminder", "kb_comment">>
    <2>1. p \in Seq(Parts)  BY DEF Parts, SubLists
    <2>2. Plan(list) = p  BY <1>3, ChainPlans
    <2> QED  BY <2>1, <2>2
  <1>4. CASE list \notin ChainLists
    <2> DEFINE p == <<"get", "row", "position", "kb_comment">>
               q == <<"get", "row", "kb_comment">>
               r == <<"row", "line">>
               o == <<"row">>
    <2>1. p \in Seq(Parts) /\ q \in Seq(Parts) /\ r \in Seq(Parts) /\ o \in Seq(Parts)
      BY DEF Parts, SubLists
    <2>2. Plan(list) \in {p, q, r, o}  BY <1>4, OtherPlans
    <2> HIDE DEF p, q, r, o
    <2> QED  BY <2>1, <2>2
  <1>5. QED  BY <1>1, <1>2, <1>3, <1>4 DEF ChainLists

(* Which part comes when. *)
LEMMA PlanIndex ==
  ASSUME NEW list, NEW i \in 1 .. Len(Plan(list))
  PROVE  /\ list = "invoice" =>
              /\ Len(Plan(list)) = 8
              /\ (i = 1 => Plan(list)[i] = "check") /\ (i = 2 => Plan(list)[i] = "get")
              /\ (i = 3 => Plan(list)[i] = "row") /\ (i = 4 => Plan(list)[i] = "position")
              /\ (i = 5 => Plan(list)[i] = "cache") /\ (i > 5 => Plan(list)[i] \in SubLists)
         /\ list \in {"contact", "project"} =>
              /\ (i = 1 => Plan(list)[i] = "check") /\ (i = 2 => Plan(list)[i] = "row")
              /\ (i = 3 => Plan(list)[i] = "cache")
              /\ (i > 3 => Plan(list)[i] \in SubLists \cup {"unlink", "cg2c"})
              /\ (Plan(list)[i] = "unlink" => i + 1 <= Len(Plan(list)))
         /\ list \notin ChainLists => Plan(list)[i] \notin {"check", "cache", "unlink"}
  <1> USE DEF SubLists
  <1>1. CASE list = "invoice"
    <2>1. /\ Len(Plan(list)) = 8 /\ Plan(list)[1] = "check" /\ Plan(list)[2] = "get"
          /\ Plan(list)[3] = "row" /\ Plan(list)[4] = "position" /\ Plan(list)[5] = "cache"
          /\ Plan(list)[6] = "invoice_payment" /\ Plan(list)[7] = "invoice_reminder"
          /\ Plan(list)[8] = "kb_comment"
      BY <1>1, ChainPlans
    <2>2. i > 5 => i = 6 \/ i = 7 \/ i = 8  BY <2>1
    <2>3. QED  BY <1>1, <2>1, <2>2 DEF ChainLists
  <1>2. CASE list = "contact"
    <2>1. /\ Len(Plan(list)) = 6 /\ Plan(list)[1] = "check" /\ Plan(list)[2] = "row"
          /\ Plan(list)[3] = "cache" /\ Plan(list)[4] = "unlink" /\ Plan(list)[5] = "cg2c"
          /\ Plan(list)[6] = "additional_address"
      BY <1>2, ChainPlans
    <2>2. i = 1 \/ i = 2 \/ i = 3 \/ i = 4 \/ i = 5 \/ i = 6  BY <2>1
    <2>3. QED  BY <1>2, <2>1, <2>2 DEF ChainLists
  <1>3. CASE list = "project"
    <2>1. /\ Len(Plan(list)) = 5 /\ Plan(list)[1] = "check" /\ Plan(list)[2] = "row"
          /\ Plan(list)[3] = "cache" /\ Plan(list)[4] = "project_milestone"
          /\ Plan(list)[5] = "project_package"
      BY <1>3, ChainPlans
    <2>2. i = 1 \/ i = 2 \/ i = 3 \/ i = 4 \/ i = 5  BY <2>1
    <2>3. QED  BY <1>3, <2>1, <2>2 DEF ChainLists
  <1>4. CASE list \notin ChainLists
    <2>1. CASE Plan(list) = <<"get", "row", "position", "kb_comment">>
      BY <1>4, <2>1 DEF ChainLists
    <2>2. CASE Plan(list) = <<"get", "row", "kb_comment">>  BY <1>4, <2>2 DEF ChainLists
    <2>3. CASE Plan(list) = <<"row", "line">>  BY <1>4, <2>3 DEF ChainLists
    <2>4. CASE Plan(list) = <<"row">>  BY <1>4, <2>4 DEF ChainLists
    <2>5. QED  BY <1>4, <2>1, <2>2, <2>3, <2>4, OtherPlans, Zenon
  <1>5. QED  BY <1>1, <1>2, <1>3, <1>4 DEF ChainLists

(* Which parts are ahead in what is left of a plan, by how many were begun. *)
LEMMA LeftOfPlan ==
  ASSUME NEW list, NEW p \in Seq(Parts), NEW begun \in Nat,
         Len(p) + begun = Len(Plan(list)),
         \A i \in 1 .. Len(p) : p[i] = Plan(list)[begun + i]
  PROVE  /\ list = "invoice" =>
              /\ (\E i \in 1 .. Len(p) : p[i] = "get") <=> begun < 2
              /\ (\E i \in 1 .. Len(p) : p[i] = "row") <=> begun < 3
              /\ (\E i \in 1 .. Len(p) : p[i] = "position") <=> begun < 4
              /\ (\E i \in 1 .. Len(p) : p[i] = "cache") <=> begun < 5
         /\ list \in {"contact", "project"} =>
              /\ (\E i \in 1 .. Len(p) : p[i] = "row") <=> begun < 2
              /\ (\E i \in 1 .. Len(p) : p[i] = "cache") <=> begun < 3
         /\ list \notin ChainLists => ~ \E i \in 1 .. Len(p) : p[i] = "cache"
  <1>0. Len(Plan(list)) \in Nat  BY PlanType
  <1>1. ASSUME NEW n \in 1 .. Len(Plan(list)), NEW part, Plan(list)[n] = part,
               \A i \in 1 .. Len(Plan(list)) : Plan(list)[i] = part => i = n
        PROVE  (\E i \in 1 .. Len(p) : p[i] = part) <=> begun < n
    <2>1. ASSUME NEW i \in 1 .. Len(p), p[i] = part  PROVE begun < n
      <3>1. begun + i \in 1 .. Len(Plan(list)) /\ Plan(list)[begun + i] = part  BY <1>0, <2>1
      <3>2. begun + i = n  BY <1>1, <3>1
      <3>3. QED  BY <3>2
    <2>2. ASSUME begun < n  PROVE \E i \in 1 .. Len(p) : p[i] = part
      <3>1. n - begun \in 1 .. Len(p) /\ begun + (n - begun) = n  BY <1>0, <2>2
      <3>2. p[n - begun] = Plan(list)[begun + (n - begun)]  BY <3>1
      <3>3. QED  BY <1>1, <3>1, <3>2
    <2>3. QED  BY <2>1, <2>2
  <1>2. CASE list = "invoice"
    <2>1. /\ Len(Plan(list)) = 8 /\ Plan(list)[2] = "get" /\ Plan(list)[3] = "row"
          /\ Plan(list)[4] = "position" /\ Plan(list)[5] = "cache"
      BY <1>2, ChainPlans
    <2>2. \A i \in 1 .. Len(Plan(list)) :
            /\ Plan(list)[i] = "get" => i = 2
            /\ Plan(list)[i] = "row" => i = 3
            /\ Plan(list)[i] = "position" => i = 4
            /\ Plan(list)[i] = "cache" => i = 5
      BY <1>2, <2>1, PlanIndex DEF SubLists
    <2>3. (\E i \in 1 .. Len(p) : p[i] = "get") <=> begun < 2  BY <1>1, <2>1, <2>2
    <2>4. (\E i \in 1 .. Len(p) : p[i] = "row") <=> begun < 3  BY <1>1, <2>1, <2>2
    <2>5. (\E i \in 1 .. Len(p) : p[i] = "position") <=> begun < 4  BY <1>1, <2>1, <2>2
    <2>6. (\E i \in 1 .. Len(p) : p[i] = "cache") <=> begun < 5  BY <1>1, <2>1, <2>2
    <2>7. QED  BY <1>2, <2>3, <2>4, <2>5, <2>6 DEF ChainLists
  <1>3. CASE list \in {"contact", "project"}
    <2>1. Len(Plan(list)) \in 5 .. 6 /\ Plan(list)[2] = "row" /\ Plan(list)[3] = "cache"
      <3>1. CASE list = "contact"  BY <3>1, ChainPlans
      <3>2. CASE list = "project"  BY <3>2, ChainPlans
      <3>3. QED  BY <1>3, <3>1, <3>2
    <2>2. \A i \in 1 .. Len(Plan(list)) :
            /\ Plan(list)[i] = "row" => i = 2
            /\ Plan(list)[i] = "cache" => i = 3
      BY <1>3, <1>0, <2>1, PlanIndex DEF SubLists
    <2>3. 2 \in 1 .. Len(Plan(list)) /\ 3 \in 1 .. Len(Plan(list))  BY <2>1
    <2>4. (\E i \in 1 .. Len(p) : p[i] = "row") <=> begun < 2  BY <1>1, <2>1, <2>2, <2>3
    <2>5. (\E i \in 1 .. Len(p) : p[i] = "cache") <=> begun < 3  BY <1>1, <2>1, <2>2, <2>3
    <2>6. QED  BY <1>3, <2>4, <2>5 DEF ChainLists
  <1>4. CASE list \notin ChainLists
    <2>1. ASSUME NEW i \in 1 .. Len(p), p[i] = "cache"  PROVE FALSE
      <3>1. begun + i \in 1 .. Len(Plan(list)) /\ Plan(list)[begun + i] = "cache"  BY <1>0, <2>1
      <3>2. QED  BY <1>4, <3>1, PlanIndex
    <2>2. QED  BY <1>4, <2>1 DEF ChainLists
  <1>5. QED  BY <1>2, <1>3, <1>4 DEF ChainLists

-----------------------------------------------------------------------------
(* The walk *)

(* The end of a list's walk. *)
LEMMA EndListEffect ==
  ASSUME Control, pc \in {"walk", "item"}, NEW e \in {"NoError", "Generic", "Reconnect"},
         EndList(e)
  PROVE  /\ item' = 0 /\ role' = role /\ error_counter' = error_counter
         /\ at' \in at + 1 .. Len(Program) + 1
         /\ pc' = IF at' <= Len(Program) THEN "walk" ELSE "round"
         /\ round_error' \in {"NoError", "Generic", "Reconnect"}
         /\ WalkedSoFar => WalkedSoFar'
  <1>1. role \in {"main", "records", "chain"}  BY DEF Control
  <1>2. Len(Program) \in Nat \ {0} /\ at \in 1 .. Len(Program)
    BY <1>1, ProgramFacts DEF Control, Program
  <1>3. PICK j \in at + 1 .. Len(Program) + 1 :
          /\ GoTo(j)
          /\ \/ round_error' = "Reconnect" /\ e = "Reconnect"
             \/ role # "records" /\ round_error' \in {round_error, e}
             \/ j = at + 1 /\ round_error' = round_error
             \/ List \in Range(Taxes) /\ GroupEnds(at, j) /\ round_error' = "Generic"
    <2>1. at + 1 \in at + 1 .. Len(Program) + 1 /\ Len(Program) + 1 \in at + 1 .. Len(Program) + 1
      BY <1>2
    <2>2. QED  BY <2>1, <1>1 DEF EndList, LookupReconnects, PassGroup
  <1>4. item' = 0 /\ at' = j /\ role' = role /\ error_counter' = error_counter /\ walked' = walked \cup {List}
    BY <1>3 DEF GoTo
  <1>5. pc' = IF at' <= Len(Program) THEN "walk" ELSE "round"  BY <1>3 DEF GoTo
  <1>6. round_error' \in {"NoError", "Generic", "Reconnect"}  BY <1>3 DEF Control
  <1>7. ASSUME WalkedSoFar, role' = "records", round_error' # "Reconnect", NEW i \in 1 .. j - 1
        PROVE  Program[i] \in walked' \/ (round_error' = "Generic" /\ Program[i] \in Range(Taxes))
    <2>1. role = "records"  BY <1>4, <1>7
    <2>2. CASE i = at  BY <2>2, <1>4 DEF List
    <2>3. CASE i < at
      <3>1. i \in 1 .. at - 1  BY <2>3, <1>2
      <3>2. round_error # "Reconnect"  BY DEF Control
      <3>3. QED  BY <3>1, <3>2, <2>1, <1>3, <1>4, <1>7 DEF WalkedSoFar
    <2>4. CASE i > at
      <3>1. List \in Range(Taxes) /\ GroupEnds(at, j) /\ round_error' = "Generic"
        BY <2>4, <2>1, <1>2, <1>3, <1>7
      <3>2. i \in at + 1 .. j - 1  BY <2>4, <1>2
      <3>3. Program[i] \in Group(List)  BY <3>1, <3>2 DEF GroupEnds, List
      <3>4. QED  BY <3>1, <3>3, TaxGroup, ListsOfLists
    <2>5. QED  BY <2>2, <2>3, <2>4, <1>2
  <1>8. WalkedSoFar => WalkedSoFar'
    <2>1. Program' = Program  BY <1>4 DEF Program
    <2>2. QED  BY <1>4, <1>7, <2>1 DEF WalkedSoFar
  <1>9. QED  BY <1>3, <1>4, <1>5, <1>6, <1>8

(* Every step keeps the thread on its program. *)
LEMMA ControlStep ==
  ASSUME Control, [RecNext]_recVars
  PROVE  Control'
  <1>0. /\ role \in {"main", "records", "chain"} /\ Len(Program) \in Nat \ {0}
        /\ RecExitMax \in Nat
    BY ProgramFacts, RecordsAssumption DEF Control, Program
  <1>1. ASSUME UNCHANGED <<thread, role, at, round_error, error_counter>>, pc # "exited",
               pc' \in {"walk", "item"}, pc \in {"walk", "item"},
               item_error' \in {"NoError", "Generic"}
        PROVE  Control'
    <2>1. Program' = Program  BY <1>1 DEF Program
    <2>2. QED  BY <1>1, <2>1 DEF Control
  <1>2. ASSUME NEW e \in {"NoError", "Generic", "Reconnect"}, EndList(e),
               pc \in {"walk", "item"}, thread' = thread, item_error' \in {"NoError", "Generic"}
        PROVE  Control'
    <2>1. /\ role' = role /\ error_counter' = error_counter
          /\ at' \in at + 1 .. Len(Program) + 1
          /\ pc' = IF at' <= Len(Program) THEN "walk" ELSE "round"
          /\ round_error' \in {"NoError", "Generic", "Reconnect"}
      BY <1>2, EndListEffect
    <2>2. Program' = Program  BY <2>1 DEF Program
    <2>3. pc' = "walk" => round_error' # "Reconnect"
      <3>1. at \in 1 .. Len(Program) /\ round_error # "Reconnect"  BY <1>2 DEF Control
      <3>2. CASE round_error' = "Reconnect"
        <4>1. GoTo(Len(Program) + 1)  BY <1>2, <3>1, <3>2 DEF EndList
        <4>2. QED  BY <4>1, <1>0 DEF GoTo
      <3>3. QED  BY <3>2
    <2>4. at' \in 1 .. Len(Program) + 1 /\ (pc' = "round" => at' = Len(Program) + 1)
      BY <1>0, <2>1 DEF Control
    <2>5. QED  BY <1>2, <2>1, <2>2, <2>3, <2>4 DEF Control
  <1>3. ASSUME NextRound, thread' = thread, role' \in {"main", thread},
               pc' \in {"walk", "exited"}, error_counter' \in 0 .. RecExitMax + 2,
               pc' = "walk" => error_counter' <= RecExitMax + 1,
               item_error' \in {"NoError", "Generic"}
        PROVE  Control'
    <2>1. role' \in {"main", "records", "chain"}  BY <1>3 DEF Control
    <2>2. Len(Program') \in Nat \ {0}  BY <2>1, ProgramFacts DEF Program
    <2>3. 1 \in 1 .. Len(Program') + 1 /\ 1 <= Len(Program')  BY <2>2
    <2>4. QED  BY <1>3, <2>3 DEF Control, NextRound
  <1> USE DEF walkVars, itemVars, bexioVars
  <1>4. CASE FetchPage  BY <1>4, <1>1 DEF FetchPage, Control
  <1>5. CASE FetchLast  BY <1>5, <1>2 DEF FetchLast, Control
  <1>6. CASE FetchFails  BY <1>6, <1>2 DEF FetchFails, Control
  <1>7. CASE Check  BY <1>7, <1>1 DEF Check, AtPart, LeaveItem, Control
  <1>8. CASE GetFull  BY <1>8, <1>1 DEF GetFull, AtPart, ItemUnchanged, Control
  <1>9. CASE GetFails  BY <1>9, <1>1 DEF GetFails, AtPart, LeaveItem, Control
  <1>10. CASE OpenPart  BY <1>10, <1>1 DEF OpenPart, AtPart, ItemUnchanged, Control
  <1>11. CASE LoadPart  BY <1>11, <1>1 DEF LoadPart, AtPart, ItemUnchanged, Control
  <1>12. CASE LoadPartFails  BY <1>12, <1>1 DEF LoadPartFails, AtPart, ItemUnchanged, Control
  <1>13. CASE Unlink  BY <1>13, <1>1 DEF Unlink, AtPart, ItemUnchanged, Control
  <1>14. CASE UnlinkFails  BY <1>14, <1>1 DEF UnlinkFails, AtPart, ItemUnchanged, Control
  <1>15. CASE SetCache  BY <1>15, <1>1 DEF SetCache, AtPart, ItemUnchanged, Control
  <1>16. CASE ItemDone
    <2>1. CASE item_error = "NoError"  BY <1>16, <2>1, <1>1 DEF ItemDone, LeaveItem, Control
    <2>2. CASE item_error = "Generic"  BY <1>16, <2>2, <1>2 DEF ItemDone, LeaveItem
    <2>3. QED  BY <2>1, <2>2 DEF Control
  <1>17. CASE Store  BY <1>17, <1>1 DEF Store, ItemUnchanged, Control
  <1>18. CASE StoreFails
    <2>1. PICK k \in NextKeys : \E next \in Stores(k).failed :
            IF next = "stop" THEN LeaveItem /\ EndList("Generic") ELSE GoesOn(k, next)
      BY <1>18 DEF StoreFails
    <2>2. PICK next \in Stores(k).failed :
            IF next = "stop" THEN LeaveItem /\ EndList("Generic") ELSE GoesOn(k, next)
      BY <2>1
    <2>3. pc = "item" /\ thread' = thread  BY <1>18 DEF StoreFails
    <2>4. CASE next = "stop"  BY <2>2, <2>3, <2>4, <1>2 DEF LeaveItem
    <2>5. CASE next # "stop"  BY <2>2, <2>3, <2>5, <1>1 DEF GoesOn, Control
    <2>6. QED  BY <2>4, <2>5
  <1>19. CASE StoreIgnored  BY <1>19, <1>1 DEF StoreIgnored, GoesOn, Control
  <1>20. CASE StoreLosesConn  BY <1>20, <1>2 DEF StoreLosesConn, LeaveItem
  <1>21. CASE StartThread  BY <1>21, <1>3, <1>0 DEF StartThread, Control
  <1>22. CASE StartThreadFails  BY <1>22, <1>3, <1>0 DEF StartThreadFails, Control
  <1>23. CASE Round  BY <1>23, <1>3, <1>0 DEF Round, Control
  <1>24. CASE RoundReconnects  BY <1>24, <1>3, <1>0 DEF RoundReconnects, CountError, Control
  <1>25. CASE RoundFails  BY <1>25, <1>3, <1>0 DEF RoundFails, CountError, Control
  <1>26. CASE Restart  BY <1>26, <1>3, <1>0 DEF Restart, LeaveItem, Control
  <1>27. CASE CountriesMissing
    <2>1. Program' = Program  BY <1>27 DEF CountriesMissing, Program
    <2>2. QED  BY <1>27, <2>1, <1>0 DEF CountriesMissing, Control
  <1>28. CASE (\E k \in Edited : Edit(k)) \/ UNCHANGED recVars
    <2>1. UNCHANGED <<thread, walkVars, itemVars>>  BY <1>28 DEF Edit, recVars
    <2>2. Program' = Program  BY <2>1 DEF Program
    <2>3. QED  BY <2>1, <2>2 DEF Control
  <1>29. QED
    BY <1>4, <1>5, <1>6, <1>7, <1>8, <1>9, <1>10, <1>11, <1>12, <1>13, <1>14, <1>15, <1>16,
       <1>17, <1>18, <1>19, <1>20, <1>21, <1>22, <1>23, <1>24, <1>25, <1>26, <1>27, <1>28
    DEF RecNext, RecStep

(* What a step does to the walk of the lists. *)
LEMMA WalkEffect ==
  ASSUME Control, [RecNext]_recVars
  PROVE  \/ UNCHANGED <<role, at, round_error, walked>>
         \/ pc \in {"walk", "item"} /\ \E e \in {"NoError", "Generic", "Reconnect"} : EndList(e)
         \/ NextRound
  <1> USE DEF walkVars
  <1>1. CASE FetchPage \/ Check \/ GetFull \/ GetFails \/ OpenPart \/ LoadPart \/ LoadPartFails
    BY <1>1 DEF FetchPage, Check, GetFull, GetFails, OpenPart, LoadPart, LoadPartFails, ItemUnchanged
  <1>2. CASE Unlink \/ UnlinkFails \/ SetCache \/ Store \/ StoreIgnored \/ CountriesMissing
    BY <1>2 DEF Unlink, UnlinkFails, SetCache, Store, StoreIgnored, CountriesMissing, GoesOn,
                ItemUnchanged
  <1>3. CASE FetchLast \/ FetchFails \/ StoreLosesConn
    BY <1>3 DEF FetchLast, FetchFails, StoreLosesConn
  <1>4. CASE ItemDone  BY <1>4 DEF ItemDone, Control
  <1>5. CASE StoreFails  BY <1>5 DEF StoreFails, GoesOn
  <1>6. CASE StartThread \/ StartThreadFails \/ Round \/ RoundReconnects \/ RoundFails \/ Restart
    BY <1>6 DEF StartThread, StartThreadFails, Round, RoundReconnects, RoundFails, Restart
  <1>7. CASE (\E k \in Edited : Edit(k)) \/ UNCHANGED recVars  BY <1>7 DEF Edit, recVars
  <1>8. QED  BY <1>1, <1>2, <1>3, <1>4, <1>5, <1>6, <1>7 DEF RecNext, RecStep

(* Every step keeps count of the lists walked. *)
LEMMA WalkedStep ==
  ASSUME Control, WalkedSoFar, [RecNext]_recVars
  PROVE  WalkedSoFar'
  <1>1. CASE UNCHANGED <<role, at, round_error, walked>>  BY <1>1 DEF WalkedSoFar, Program
  <1>2. ASSUME pc \in {"walk", "item"}, NEW e \in {"NoError", "Generic", "Reconnect"}, EndList(e)
        PROVE  WalkedSoFar'
    BY <1>2, EndListEffect
  <1>3. CASE NextRound  BY <1>3 DEF NextRound, WalkedSoFar
  <1>4. QED  BY <1>1, <1>2, <1>3, WalkEffect

-----------------------------------------------------------------------------
(* Versions *)

(* What a step does to Bexio, the rows and the caches. *)
LEMMA DataEffect ==
  ASSUME [RecNext]_recVars
  PROVE  \/ UNCHANGED <<remote, edits, rows, cache, behind, role>>
         \/ \E k \in Edited : Edit(k)
         \/ /\ pc = "item" /\ UNCHANGED <<remote, edits, cache, behind, role>>
            /\ \E k \in todo : rows' = Upserted(k)
         \/ Unlink \/ SetCache \/ StartThread \/ Restart
  <1> USE DEF bexioVars, walkVars
  <1>1. CASE FetchPage \/ Check \/ GetFull \/ GetFails \/ OpenPart \/ LoadPart \/ LoadPartFails
    BY <1>1 DEF FetchPage, Check, GetFull, GetFails, OpenPart, LoadPart, LoadPartFails, ItemUnchanged
  <1>2. CASE UnlinkFails \/ Store \/ StoreIgnored \/ CountriesMissing
    BY <1>2 DEF UnlinkFails, Store, StoreIgnored, CountriesMissing, GoesOn, ItemUnchanged, NextKeys
  <1>3. ASSUME NEW e, EndList(e)  PROVE role' = role
    BY <1>3 DEF EndList, LookupReconnects, PassGroup, GoTo
  <1>4. CASE FetchLast \/ FetchFails  BY <1>4, <1>3 DEF FetchLast, FetchFails
  <1>5. CASE ItemDone \/ StoreFails  BY <1>5, <1>3 DEF ItemDone, StoreFails, GoesOn
  <1>6. CASE StoreLosesConn  BY <1>6, <1>3 DEF StoreLosesConn, NextKeys
  <1>7. CASE StartThreadFails \/ Round \/ RoundReconnects \/ RoundFails
    BY <1>7 DEF StartThreadFails, Round, RoundReconnects, RoundFails
  <1>8. CASE UNCHANGED recVars  BY <1>8 DEF recVars
  <1>9. QED  BY <1>1, <1>2, <1>4, <1>5, <1>6, <1>7, <1>8 DEF RecNext, RecStep

(* A key has the key of its item. *)
LEMMA KeyFacts ==
  ASSUME NEW k \in Keys
  PROVE  /\ RowKey(k.list, k.id) \in Keys /\ (k.part = "row" => k = RowKey(k.list, k.id))
         /\ k.part \in {"row", "position", "line", "cg2c"} \cup SubLists
         /\ k \in Absent \/ k.part \in SubLists \/ RowKey(k.list, k.id) \notin Absent
  BY RecordsAssumption

(* The key of an item's own row. *)
LEMMA RowKeyFields ==
  ASSUME NEW list, NEW id
  PROVE  /\ RowKey(list, id).list = list /\ RowKey(list, id).id = id
         /\ RowKey(list, id).part = "row" /\ "row" \notin SubLists /\ "position" \notin SubLists
  BY DEF RowKey, SubLists

(* A position is not its invoice, which the chain caches. *)
LEMMA PositionFacts ==
  ASSUME NEW k \in Positions
  PROVE  /\ k \in Keys /\ RowKey("invoice", k.id) \in ChainRows /\ k.part \notin SubLists
         /\ k.list = "invoice" /\ k.part = "position" /\ RowKey(k.list, k.id) = RowKey("invoice", k.id)
  BY KeyFacts, RowKeyFields DEF Positions, ChainRows, ChainLists

(* What an edit does to the versions: one goes up by one, an item's with it. *)
LEMMA EditEffect ==
  ASSUME Versions, NEW k \in Edited, Edit(k)
  PROVE  /\ remote' \in [Keys -> Nat] /\ edits' = edits + 1 /\ edits < MaxEdits
         /\ \A j \in Keys : remote'[j] \in {remote[j], remote[j] + 1}
         /\ \A j \in Keys : j.part \notin SubLists /\ remote'[j] # remote[j]
              => remote'[RowKey(j.list, j.id)] = remote[RowKey(j.list, j.id)] + 1
         /\ UNCHANGED <<rows, cache, behind, thread, walkVars, itemVars>>
  <1>1. k \in Keys  BY RecordsAssumption
  <1>2. remote' = [j \in Keys |->
          IF j = k \/ (j = RowKey(k.list, k.id) /\ k.part \notin SubLists)
          THEN remote[j] + 1 ELSE remote[j]]
    BY DEF Edit
  <1>3. ASSUME NEW j \in Keys, j.part \notin SubLists, remote'[j] # remote[j]
        PROVE  remote'[RowKey(j.list, j.id)] = remote[RowKey(j.list, j.id)] + 1
    <2>1. j = k \/ (j = RowKey(k.list, k.id) /\ k.part \notin SubLists)  BY <1>2, <1>3
    <2>2. j.list = k.list /\ j.id = k.id /\ k.part \notin SubLists  BY <2>1, <1>3, RowKeyFields
    <2>3. RowKey(j.list, j.id) \in Keys  BY KeyFacts
    <2>4. QED  BY <1>2, <2>2, <2>3
  <1>4. QED  BY <1>2, <1>3 DEF Edit, Versions

(* A row stored from the document at hand is not older than it was. *)
LEMMA UpsertEffect ==
  ASSUME Versions, Document, pc = "item", NEW k \in todo, rows' = Upserted(k)
  PROVE  /\ k \in Keys /\ k \in DOMAIN doc /\ k.list = List /\ k.id = item
         /\ rows' = [rows EXCEPT ![k] = doc[k]] /\ rows' \in [Keys -> Nat] /\ doc[k] <= remote[k]
         /\ \A j \in Keys : rows[j] <= rows'[j] /\ rows'[j] <= remote[j]
  <1>1. k \in Keys /\ k \in DOMAIN doc /\ doc[k] \in Nat /\ doc[k] # 0 /\ doc[k] <= remote[k]
        /\ rows[k] <= doc[k] /\ k.list = List /\ k.id = item
    BY DEF Document
  <1>2. QED  BY <1>1 DEF Versions, Upserted

-----------------------------------------------------------------------------
(* The item at hand *)

(* Within an item. *)
LEMMA InItem ==
  ASSUME Control, Document, pc = "item"
  PROVE  /\ Here \in Keys /\ Here.list = List /\ Here.id = item /\ Here.part = "row"
         /\ Here \in DOMAIN doc /\ Here \in PartKeys("row")
         /\ List \in ChainLists => role = "chain" /\ Here \in ChainRows
  <1>1. Here \in Keys /\ Here.list = List /\ Here.id = item /\ Here.part = "row"
    BY RowKeyFields DEF Document, Here
  <1>2. Here \in DOMAIN doc /\ Here \in PartKeys("row")  BY <1>1 DEF Document, PartKeys
  <1>3. List \in ChainLists => role = "chain"
    <2>1. role \in {"main", "records", "chain"} /\ at \in 1 .. Len(Program)
      BY ProgramFacts DEF Control, Program
    <2>2. QED  BY <2>1, ProgramFacts DEF List, Program
  <1>4. QED  BY <1>1, <1>2, <1>3 DEF ChainRows

(* Parts begun and parts left make up the plan. *)
LEMMA BegunType ==
  ASSUME Stage, pc = "item"
  PROVE  Begun \in Nat /\ Len(plan) + Begun = Len(Plan(List)) /\ Len(plan) \in Nat
  BY PlanType DEF Stage, Begun

(* The part that comes next. *)
LEMMA AtPartIs ==
  ASSUME Stage, NEW part, AtPart(part)
  PROVE  /\ pc = "item" /\ todo = {} /\ plan # <<>> /\ Len(plan) >= 1 /\ Head(plan) = part
         /\ Begun + 1 \in 1 .. Len(Plan(List)) /\ Plan(List)[Begun + 1] = part
  <1>1. pc = "item" /\ todo = {} /\ plan # <<>> /\ Head(plan) = part  BY DEF AtPart
  <1>2. plan \in Seq(Parts)  BY <1>1 DEF Stage
  <1>3. Len(plan) >= 1 /\ plan[1] = part  BY <1>1, <1>2
  <1>4. Begun + 1 \in 1 .. Len(Plan(List))  BY <1>1, <1>3, BegunType
  <1>5. Plan(List)[Begun + 1] = part  BY <1>1, <1>3 DEF Stage
  <1>6. QED  BY <1>1, <1>3, <1>4, <1>5

(* What is ahead, by the number of parts begun. *)
LEMMA AheadIs ==
  ASSUME Stage, pc = "item"
  PROVE  /\ List = "invoice" =>
              /\ Ahead("get") <=> Begun < 2
              /\ Ahead("row") <=> Begun < 3
              /\ Ahead("position") <=> Begun < 4
              /\ Ahead("cache") <=> Begun < 5
         /\ List \in {"contact", "project"} =>
              /\ Ahead("row") <=> Begun < 2
              /\ Ahead("cache") <=> Begun < 3
         /\ List \notin ChainLists => ~Ahead("cache")
  <1>1. plan \in Seq(Parts) /\ \A i \in 1 .. Len(plan) : plan[i] = Plan(List)[Begun + i]
    BY DEF Stage
  <1>2. Begun \in Nat /\ Len(plan) + Begun = Len(Plan(List))  BY BegunType
  <1> HIDE DEF Begun
  <1>3. QED  BY <1>1, <1>2, LeftOfPlan DEF Ahead

(* The same after a step. *)
LEMMA AheadIsNext ==
  ASSUME Stage', pc' = "item"
  PROVE  /\ List' = "invoice" =>
              /\ Ahead("get")' <=> Begun' < 2
              /\ Ahead("row")' <=> Begun' < 3
              /\ Ahead("position")' <=> Begun' < 4
              /\ Ahead("cache")' <=> Begun' < 5
         /\ List' \in {"contact", "project"} =>
              /\ Ahead("row")' <=> Begun' < 2
              /\ Ahead("cache")' <=> Begun' < 3
         /\ List' \notin ChainLists => ~Ahead("cache")'
  <1>1. plan' \in Seq(Parts) /\ \A i \in 1 .. Len(plan') : plan'[i] = Plan(List')[Begun' + i]
    BY DEF Stage
  <1>2. Begun' \in Nat /\ Len(plan') + Begun' = Len(Plan(List'))
    BY PlanType DEF Stage, Begun
  <1> HIDE DEF Begun
  <1>3. QED  BY <1>1, <1>2, LeftOfPlan DEF Ahead

(* A row or a position that cannot be stored ends the item, before it is cached. *)
LEMMA ChainStores ==
  ASSUME NEW k, (k.part = "row" /\ k.list \in ChainLists) \/ (k.part = "position" /\ k.list = "invoice")
  PROVE  Stores(k).failed \subseteq {"stop", "item"} /\ Stores(k).ignored \subseteq {"item"}
  <1>1. CASE k.part = "position" /\ k.list = "invoice"
    <2>1. Stores(k) = persist_position("invoice")  BY <1>1, Zenon DEF Stores
    <2>2. QED  BY <2>1 DEF persist_position, Persist
  <1>2. CASE k.part = "row" /\ k.list \in ChainLists
    <2>1. Stores(k) = StoresRow(k.list)  BY <1>2, Zenon DEF Stores
    <2>2. StoresRow(k.list) \in {contact_sync_item, project_sync_item, invoice_sync_item}
      <3>1. /\ k.list \notin JsonLookups \cup JsonRecords \cup Range(Sales) \cup {"manual_entry"}
            /\ k.list \notin {"account", "currency", "language"}
            /\ k.list \notin Range(Taxes) /\ k.list \notin Range(UserLists)
        <4>1. /\ Range(Sales) \subseteq SalesLists /\ Range(Taxes) \subseteq TaxLists
              /\ Range(UserLists) \subseteq {"users", "fictional_users"}
          BY ListsOfLists, RangeOfSeq
        <4>2. QED  BY <1>2, <4>1 DEF ChainLists, JsonLookups, JsonRecords, SalesLists, TaxLists
      <3>2. k.list = "contact" \/ k.list = "project" \/ k.list = "invoice"  BY <1>2 DEF ChainLists
      <3>3. QED  BY <3>1, <3>2, Zenon DEF StoresRow
    <2>3. QED
      BY <2>1, <2>2 DEF contact_sync_item, project_sync_item, invoice_sync_item, Persist
  <1>3. QED  BY <1>1, <1>2

(* A step within an item; a row of it that is passed over. *)
Stays == pc = "item" /\ pc' = "item" /\ UNCHANGED <<role, at, item>>
PassesOver(k) ==
  /\ \E next \in (Stores(k).failed \ {"stop"}) \cup Stores(k).ignored : GoesOn(k, next)
  /\ UNCHANGED <<remote, rows, cache, behind>>

(* What a step does to the item. *)
LEMMA ItemEffect ==
  ASSUME Control, Document, [RecNext]_recVars
  PROVE  \/ pc' # "item" /\ todo' = {}
         \/ FetchPage
         \/ Stays /\ (Check \/ GetFull \/ GetFails \/ OpenPart \/ LoadPart \/ LoadPartFails)
         \/ Stays /\ (Unlink \/ UnlinkFails \/ SetCache \/ Store)
         \/ Stays /\ \E k \in todo : PassesOver(k)
         \/ Stays /\ UNCHANGED itemVars /\ \E k \in Edited : Edit(k)
         \/ Stays /\ UNCHANGED <<itemVars, remote, rows, cache, behind>>
  <1> USE DEF Stays, walkVars, bexioVars
  <1>1. CASE Check \/ GetFull \/ GetFails \/ OpenPart \/ LoadPart \/ LoadPartFails
    BY <1>1 DEF Check, GetFull, GetFails, OpenPart, LoadPart, LoadPartFails, AtPart, LeaveItem,
                ItemUnchanged
  <1>2. CASE Unlink \/ UnlinkFails \/ SetCache \/ Store
    BY <1>2 DEF Unlink, UnlinkFails, SetCache, Store, AtPart, ItemUnchanged
  <1>3. ASSUME NEW e \in {"NoError", "Generic", "Reconnect"}, EndList(e), pc \in {"walk", "item"}
        PROVE  pc' # "item"
    BY <1>3, EndListEffect
  <1>4. CASE FetchLast \/ FetchFails
    BY <1>4, <1>3 DEF FetchLast, FetchFails, Document, itemVars
  <1>5. CASE ItemDone  BY <1>5, <1>3 DEF ItemDone, LeaveItem, Control
  <1>6. CASE StoreFails
    <2>1. PICK k \in NextKeys : \E next \in Stores(k).failed :
            IF next = "stop" THEN LeaveItem /\ EndList("Generic") ELSE GoesOn(k, next)
      BY <1>6 DEF StoreFails
    <2>2. PICK next \in Stores(k).failed :
            IF next = "stop" THEN LeaveItem /\ EndList("Generic") ELSE GoesOn(k, next)
      BY <2>1
    <2>3. pc = "item" /\ UNCHANGED <<remote, rows, cache, behind>> /\ k \in todo
      BY <1>6, <2>1 DEF StoreFails, NextKeys
    <2>4. CASE next = "stop"  BY <2>2, <2>3, <2>4, <1>3 DEF LeaveItem
    <2>5. CASE next # "stop"
      <3>1. Stays  BY <2>2, <2>3, <2>5 DEF GoesOn
      <3>2. PassesOver(k)  BY <2>2, <2>3, <2>5 DEF PassesOver
      <3>3. QED  BY <3>1, <3>2, <2>3
    <2>6. QED  BY <2>4, <2>5
  <1>7. CASE StoreIgnored
    <2>1. PICK k \in NextKeys : \E next \in Stores(k).ignored : GoesOn(k, next)
      BY <1>7 DEF StoreIgnored
    <2>2. PICK next \in Stores(k).ignored : GoesOn(k, next)  BY <2>1
    <2>3. pc = "item" /\ UNCHANGED <<remote, rows, cache, behind>> /\ k \in todo
      BY <1>7, <2>1 DEF StoreIgnored, NextKeys
    <2>4. QED  BY <2>2, <2>3 DEF PassesOver, GoesOn
  <1>8. CASE StoreLosesConn  BY <1>8, <1>3 DEF StoreLosesConn, LeaveItem
  <1>9. CASE StartThread \/ StartThreadFails \/ Round \/ RoundReconnects \/ RoundFails
    BY <1>9 DEF StartThread, StartThreadFails, Round, RoundReconnects, RoundFails, CountError,
                Document, itemVars
  <1>10. CASE Restart  BY <1>10 DEF Restart, LeaveItem
  <1>11. CASE CountriesMissing  BY <1>11 DEF CountriesMissing, Document, itemVars
  <1>12. CASE (\E k \in Edited : Edit(k)) \/ UNCHANGED recVars
    BY <1>12 DEF Edit, recVars, Document, itemVars
  <1>13. QED
    BY <1>1, <1>2, <1>4, <1>5, <1>6, <1>7, <1>8, <1>9, <1>10, <1>11, <1>12 DEF RecNext, RecStep

(* A step within an item stays with it. *)
LEMMA StaysHere ==
  ASSUME Stays
  PROVE  /\ List' = List /\ Here' = Here /\ Program' = Program
         /\ \A part : PartKeys(part)' = PartKeys(part)
  BY DEF Stays, List, Here, Program, PartKeys

(* A sequence without its first two elements. *)
LEMMA TailTwice ==
  ASSUME NEW S, NEW s \in Seq(S), Len(s) >= 2
  PROVE  /\ Tail(Tail(s)) \in Seq(S) /\ Len(Tail(Tail(s))) = Len(s) - 2
         /\ \A i \in 1 .. Len(Tail(Tail(s))) : Tail(Tail(s))[i] = s[i + 2]
  <1> DEFINE t == Tail(s)
  <1>1. t \in Seq(S) /\ Len(t) = Len(s) - 1 /\ \A i \in 1 .. Len(t) : t[i] = s[i + 1]
    OBVIOUS
  <1> HIDE DEF t
  <1>2. Tail(t) \in Seq(S) /\ Len(Tail(t)) = Len(t) - 1 /\ \A i \in 1 .. Len(Tail(t)) : Tail(t)[i] = t[i + 1]
    BY <1>1
  <1>3. \A i \in 1 .. Len(Tail(t)) : i + 1 \in 1 .. Len(t) /\ (i + 1) + 1 = i + 2  BY <1>1, <1>2
  <1>4. QED  BY <1>1, <1>2, <1>3 DEF t

(* One part further. *)
LEMMA TailStage ==
  ASSUME Stage, Stays, NEW part, AtPart(part), plan' = Tail(plan), todo' \subseteq PartKeys(part)
  PROVE  Stage' /\ Begun' = Begun + 1
  <1>1. plan \in Seq(Parts) /\ Len(plan) >= 1 /\ Begun \in Nat /\ Begun + 1 \in 1 .. Len(Plan(List))
        /\ Plan(List)[Begun + 1] = part
    BY AtPartIs, BegunType DEF Stage, Stays
  <1>2. /\ plan' \in Seq(Parts) /\ Len(plan') = Len(plan) - 1
        /\ \A i \in 1 .. Len(plan') : plan'[i] = plan[i + 1]
    BY <1>1
  <1>3. List' = List /\ PartKeys(part)' = PartKeys(part)  BY StaysHere
  <1>4. Begun' = Begun + 1  BY <1>1, <1>2, <1>3, PlanType DEF Begun
  <1>5. ASSUME NEW i \in 1 .. Len(plan')
        PROVE  plan'[i] = Plan(List)[(Begun + 1) + i]
    <2>1. i + 1 \in 1 .. Len(plan) /\ Begun + (i + 1) = (Begun + 1) + i  BY <1>1, <1>2
    <2>2. plan[i + 1] = Plan(List)[Begun + (i + 1)]  BY <2>1 DEF Stage, Stays
    <2>3. QED  BY <1>2, <2>1, <2>2
  <1>6. QED  BY <1>1, <1>2, <1>3, <1>4, <1>5, StaysHere DEF Stage

(* No part further, fewer rows to store. *)
LEMMA SameStage ==
  ASSUME Stage, Stays, plan' = plan, todo' \subseteq todo
  PROVE  Stage' /\ Begun' = Begun
  <1>1. List' = List /\ \A part : PartKeys(part)' = PartKeys(part)  BY StaysHere
  <1>2. Begun' = Begun  BY <1>1 DEF Begun
  <1>3. QED  BY <1>1, <1>2 DEF Stage, Stays

(* Nothing left. *)
LEMMA LastStage ==
  ASSUME Stays, plan' = <<>>, todo' = {}
  PROVE  Stage' /\ Begun' = Len(Plan(List))
  <1>1. Begun' = Len(Plan(List))  BY StaysHere, PlanType DEF Begun
  <1>2. QED  BY <1>1, PlanType DEF Stage

(* Every step keeps the plan a rest of Plan. *)
LEMMA StageStep ==
  ASSUME Control, Document, Stage, [RecNext]_recVars
  PROVE  Stage'
  <1>1. CASE pc' # "item"  BY <1>1 DEF Stage
  <1>2. CASE FetchPage
    <2>1. List' = List  BY <1>2 DEF FetchPage, List, Program
    <2>2. plan' = Plan(List') /\ todo' = {}  BY <1>2, <2>1 DEF FetchPage
    <2>3. Begun' = 0 /\ plan' \in Seq(Parts)  BY <2>2, PlanType DEF Begun
    <2>4. \A i \in 1 .. Len(plan') : plan'[i] = Plan(List')[Begun' + i]  BY <2>2, <2>3
    <2>5. QED  BY <2>2, <2>3, <2>4 DEF Stage
  <1>3. CASE Stays /\ (Check \/ GetFull \/ GetFails \/ LoadPartFails \/ Unlink \/ SetCache)
    <2>1. PICK part : AtPart(part) /\ plan' = Tail(plan) /\ todo' = {}
      BY <1>3 DEF Check, GetFull, GetFails, LoadPartFails, Unlink, SetCache, Stays, AtPart
    <2>2. QED  BY <1>3, <2>1, TailStage
  <1>4. CASE Stays /\ (OpenPart \/ LoadPart)
    <2>1. PICK part : AtPart(part) /\ plan' = Tail(plan) /\ todo' \subseteq PartKeys(part)
      BY <1>4 DEF OpenPart, LoadPart
    <2>2. QED  BY <1>4, <2>1, TailStage
  <1>5. CASE Stays /\ UnlinkFails
    <2>1. AtPart("unlink") /\ plan' = Tail(Tail(plan)) /\ todo' = {}
      BY <1>5 DEF UnlinkFails, AtPart
    <2>2. plan \in Seq(Parts) /\ Begun \in Nat /\ Len(plan) + Begun = Len(Plan(List))
      BY <1>5, BegunType DEF Stage, Stays
    <2>3. Begun + 1 \in 1 .. Len(Plan(List)) /\ Plan(List)[Begun + 1] = "unlink"
      BY <2>1, AtPartIs
    <2>4. Begun + 2 <= Len(Plan(List))
      <3> HIDE DEF Begun
      <3>1. CASE List = "invoice"  BY <2>2, <2>3, <3>1, PlanIndex DEF SubLists
      <3>2. CASE List # "invoice"  BY <2>2, <2>3, <3>2, PlanIndex DEF ChainLists
      <3>3. QED  BY <3>1, <3>2
    <2>5. Len(plan) >= 2  BY <2>2, <2>4, PlanType
    <2>6. /\ plan' \in Seq(Parts) /\ Len(plan') = Len(plan) - 2
          /\ \A i \in 1 .. Len(plan') : plan'[i] = plan[i + 2]
      BY <2>1, <2>2, <2>5, TailTwice
    <2>7. List' = List  BY <1>5, StaysHere
    <2>8. Begun' = Begun + 2  BY <2>2, <2>6, <2>7, PlanType DEF Begun
    <2>9. ASSUME NEW i \in 1 .. Len(plan')
          PROVE  plan'[i] = Plan(List)[(Begun + 2) + i]
      <3>1. i + 2 \in 1 .. Len(plan) /\ Begun + (i + 2) = (Begun + 2) + i  BY <2>2, <2>5, <2>6
      <3>2. plan[i + 2] = Plan(List)[Begun + (i + 2)]  BY <1>5, <3>1 DEF Stage, Stays
      <3>3. QED  BY <2>6, <3>1, <3>2
    <2>10. Begun' >= 0 /\ \A i \in 1 .. Len(plan') : plan'[i] = Plan(List')[Begun' + i]
      BY <2>2, <2>7, <2>8, <2>9
    <2>11. QED  BY <2>1, <2>6, <2>10 DEF Stage
  <1>6. CASE Stays /\ Store
    <2>1. plan' = plan /\ todo' \subseteq todo  BY <1>6 DEF Store
    <2>2. QED  BY <1>6, <2>1, SameStage
  <1>7. ASSUME Stays, NEW k \in todo, PassesOver(k)
        PROVE  Stage'
    <2>1. PICK next : GoesOn(k, next)  BY <1>7 DEF PassesOver
    <2>2. CASE next = "item"  BY <1>7, <2>1, <2>2, LastStage DEF GoesOn
    <2>3. CASE next # "item"
      <3>1. plan' = plan /\ todo' \subseteq todo  BY <2>1, <2>3 DEF GoesOn
      <3>2. QED  BY <1>7, <3>1, SameStage
    <2>4. QED  BY <2>2, <2>3
  <1>8. CASE Stays /\ UNCHANGED itemVars
    <2>1. plan' = plan /\ todo' \subseteq todo  BY <1>8 DEF itemVars
    <2>2. QED  BY <1>8, <2>1, SameStage
  <1>9. QED  BY <1>1, <1>2, <1>3, <1>4, <1>5, <1>6, <1>7, <1>8, ItemEffect

(* The same document, rows that it may have been stored to, and Bexio further. *)
LEMMA SameDocument ==
  ASSUME Versions, Document, Stays, doc' = doc,
         todo' \subseteq {k \in DOMAIN doc : doc[k] # 0},
         \A k \in Keys : remote'[k] \in Nat /\ remote[k] <= remote'[k],
         \A k \in DOMAIN doc : rows'[k] \in {rows[k], 0, doc[k]}
  PROVE  Document'
  <1>1. List' = List /\ Here' = Here  BY StaysHere
  <1>2. /\ Here \in Keys /\ DOMAIN doc = {k \in Keys : k.list = List /\ k.id = item}
        /\ doc[Here] # 0 /\ item' = item /\ pc' = "item"
    BY DEF Document, Stays
  <1>3. ASSUME NEW k \in DOMAIN doc
        PROVE  doc[k] \in Nat /\ doc[k] <= remote'[k] /\ (doc[k] = 0 \/ rows'[k] <= doc[k])
    <2>1. k \in Keys /\ doc[k] \in Nat /\ doc[k] <= remote[k] /\ (doc[k] = 0 \/ rows[k] <= doc[k])
      BY <1>2 DEF Document, Stays
    <2>2. remote[k] \in Nat /\ rows[k] \in Nat  BY <2>1 DEF Versions
    <2>3. QED  BY <2>1, <2>2
  <1>4. QED  BY <1>1, <1>2, <1>3 DEF Document

(* A page's item. *)
LEMMA FetchDocument ==
  ASSUME Versions, FetchPage
  PROVE  Document'
  <1>1. PICK id \in InBexio(List) :
          /\ item' = id
          /\ doc' = [k \in {k \in Keys : k.list = List /\ k.id = id} |->
                       IF k.part \in SubLists \cup {"position"} THEN 0 ELSE remote[k]]
    BY DEF FetchPage
  <1>2. /\ pc' = "item" /\ todo' = {} /\ List' = List /\ Here' = RowKey(List, id)
        /\ UNCHANGED <<remote, rows>>
    BY <1>1 DEF FetchPage, List, Here, Program, bexioVars
  <1>3. RowKey(List, id) \in Keys /\ remote[RowKey(List, id)] # 0
    <2>1. PICK k \in Keys : k.part = "row" /\ k.list = List /\ k.id = id  BY DEF InBexio, Ids
    <2>2. QED  BY <2>1, KeyFacts DEF InBexio
  <1>4. DOMAIN doc' = {k \in Keys : k.list = List /\ k.id = id}  BY <1>1
  <1>5. RowKey(List, id) \in DOMAIN doc' /\ doc'[RowKey(List, id)] # 0
    BY <1>1, <1>3, RowKeyFields
  <1>6. \A k \in DOMAIN doc' : doc'[k] \in Nat /\ doc'[k] <= remote[k] /\ (doc'[k] = 0 \/ rows[k] <= doc'[k])
    BY <1>1, <1>4 DEF Versions
  <1>7. QED  BY <1>1, <1>2, <1>3, <1>4, <1>5, <1>6 DEF Document

(* Every step keeps the document between the rows and Bexio. *)
LEMMA DocumentStep ==
  ASSUME Versions, Control, Document, Stage, [RecNext]_recVars
  PROVE  Document'
  <1>0. \A k \in Keys : remote[k] \in Nat /\ rows[k] \in Nat /\ remote[k] <= remote[k]
    BY DEF Versions
  <1>1. CASE pc' # "item" /\ todo' = {}  BY <1>1 DEF Document
  <1>2. CASE FetchPage  BY <1>2, FetchDocument
  <1>3. ASSUME Stays
        PROVE  /\ DOMAIN doc = {k \in Keys : k.list = List /\ k.id = item}
               /\ todo \subseteq {k \in DOMAIN doc : doc[k] # 0}
               /\ \A k \in DOMAIN doc : k \in Keys
    BY <1>3 DEF Document, Stays
  <1>4. CASE Stays /\ (Check \/ GetFails \/ LoadPartFails \/ UnlinkFails \/ SetCache)
    <2>1. doc' = doc /\ todo' = todo /\ UNCHANGED <<remote, rows>>
      BY <1>4 DEF Check, GetFails, LoadPartFails, UnlinkFails, SetCache, Stays, ItemUnchanged, bexioVars
    <2>2. QED  BY <1>0, <1>3, <1>4, <2>1, SameDocument
  <1>5. CASE Stays /\ OpenPart
    <2>1. PICK part : todo' = {k \in PartKeys(part) : doc[k] # 0}  BY <1>5 DEF OpenPart
    <2>2. doc' = doc /\ UNCHANGED <<remote, rows>>  BY <1>5 DEF OpenPart, ItemUnchanged, bexioVars
    <2>3. todo' \subseteq {k \in DOMAIN doc : doc[k] # 0}  BY <1>3, <1>5, <2>1 DEF PartKeys
    <2>4. QED  BY <1>0, <1>3, <1>5, <2>2, <2>3, SameDocument
  <1>6. CASE Stays /\ Unlink
    <2>1. doc' = doc /\ todo' = todo /\ remote' = remote  BY <1>6 DEF Unlink, ItemUnchanged, bexioVars
    <2>2. \A k \in Keys : rows'[k] \in {rows[k], 0}  BY <1>6 DEF Unlink
    <2>3. QED  BY <1>0, <1>3, <1>6, <2>1, <2>2, SameDocument
  <1>7. CASE Stays /\ Store
    <2>1. PICK k \in todo : rows' = Upserted(k) /\ todo' = todo \ {k}  BY <1>7 DEF Store, NextKeys
    <2>2. doc' = doc /\ remote' = remote  BY <1>7 DEF Store, ItemUnchanged, bexioVars
    <2>3. \A j \in DOMAIN doc : rows'[j] \in {rows[j], doc[j]}
      BY <1>3, <1>7, <2>1 DEF Upserted, Versions
    <2>4. QED  BY <1>0, <1>3, <1>7, <2>1, <2>2, <2>3, SameDocument
  <1>8. ASSUME Stays, NEW k \in todo, PassesOver(k)
        PROVE  Document'
    <2>1. doc' = doc /\ todo' \subseteq todo /\ UNCHANGED <<remote, rows>>
      BY <1>8 DEF PassesOver, GoesOn
    <2>2. QED  BY <1>0, <1>3, <1>8, <2>1, SameDocument
  <1>9. ASSUME Stays, UNCHANGED itemVars, NEW k \in Edited, Edit(k)
        PROVE  Document'
    <2>1. /\ rows' = rows /\ remote' \in [Keys -> Nat]
          /\ \A j \in Keys : remote'[j] \in {remote[j], remote[j] + 1}
      BY <1>9, EditEffect
    <2>2. doc' = doc /\ todo' = todo  BY <1>9 DEF itemVars
    <2>3. \A j \in Keys : remote'[j] \in Nat /\ remote[j] <= remote'[j]  BY <1>0, <2>1
    <2>4. QED  BY <1>3, <1>9, <2>1, <2>2, <2>3, SameDocument
  <1>10. CASE Stays /\ UNCHANGED <<itemVars, remote, rows, cache, behind>>
    <2>1. doc' = doc /\ todo' = todo /\ UNCHANGED <<remote, rows>>  BY <1>10 DEF itemVars
    <2>2. QED  BY <1>0, <1>3, <1>10, <2>1, SameDocument
  <1>11. CASE Stays /\ (GetFull \/ LoadPart)
    <2>1. List' = List /\ Here' = Here /\ item' = item /\ pc = "item" /\ pc' = "item"
      BY <1>11, StaysHere DEF Stays
    <2>2. UNCHANGED <<remote, rows>>  BY <1>11 DEF GetFull, LoadPart, ItemUnchanged, bexioVars
    <2>3. Here \in Keys /\ Here \in DOMAIN doc /\ Here.part = "row" /\ doc[Here] # 0
      BY <2>1, InItem DEF Document
    <2>4. remote[Here] # 0  BY <2>1, <2>3, <1>0 DEF Document
    <2>5. DOMAIN doc' = DOMAIN doc /\ \A k \in DOMAIN doc : doc'[k] \in {0, remote[k], doc[k]}
      BY <1>11 DEF GetFull, LoadPart
    <2>6. \A k \in DOMAIN doc : doc'[k] \in Nat /\ doc'[k] <= remote[k] /\ (doc'[k] = 0 \/ rows[k] <= doc'[k])
      BY <1>0, <1>3, <1>11, <2>1, <2>5 DEF Document, Versions
    <2>7. doc'[Here] # 0 /\ todo' \subseteq {k \in DOMAIN doc : doc'[k] # 0}
      <3>1. CASE GetFull
        <4>1. todo' = {}  BY <3>1 DEF GetFull, AtPart
        <4>2. doc'[Here] = remote[Here]  BY <3>1, <2>3, RowKeyFields DEF GetFull
        <4>3. QED  BY <4>1, <4>2, <2>4
      <3>2. CASE LoadPart
        <4>1. PICK part \in SubLists :
                /\ todo' = {k \in PartKeys(part) : remote[k] # 0}
                /\ doc' = [k \in DOMAIN doc |-> IF k.part = part THEN remote[k] ELSE doc[k]]
          BY <3>2 DEF LoadPart
        <4>2. doc'[Here] = doc[Here]  BY <4>1, <2>3, RowKeyFields
        <4>3. \A k \in PartKeys(part) : k \in DOMAIN doc /\ k.part = part
          BY <1>3, <1>11 DEF PartKeys
        <4>4. QED  BY <4>1, <4>2, <4>3, <2>3
      <3>3. QED  BY <1>11, <3>1, <3>2
    <2>8. QED  BY <1>3, <1>11, <2>1, <2>2, <2>3, <2>5, <2>6, <2>7 DEF Document
  <1>12. QED
    BY <1>1, <1>2, <1>4, <1>5, <1>6, <1>7, <1>8, <1>9, <1>10, <1>11, ItemEffect

(* When an item is about to be cached. *)
LEMMA AtCache ==
  ASSUME Control, Document, Stage, StoredBeforeCached, AtPart("cache")
  PROVE  /\ pc = "item" /\ todo = {} /\ role = "chain" /\ Here \in ChainRows
         /\ rows[Here] = doc[Here] /\ List \in ChainLists
         /\ List = "invoice" /\ ~short /\ doc[Here] = remote[Here] =>
              \A k \in PartKeys("position") : doc[k] = remote[k]
         /\ List = "invoice" => \A k \in PartKeys("position") : doc[k] = 0 \/ rows[k] = doc[k]
  <1>1. /\ pc = "item" /\ todo = {} /\ Begun + 1 \in 1 .. Len(Plan(List))
        /\ Plan(List)[Begun + 1] = "cache"
    BY AtPartIs
  <1>2. Begun \in Nat  BY <1>1, BegunType
  <1> HIDE DEF Begun
  <1>3. List \in ChainLists  BY <1>1, PlanIndex
  <1>4. List = "invoice" => Begun = 4  BY <1>1, <1>2, PlanIndex DEF SubLists
  <1>5. List # "invoice" => List \in {"contact", "project"} /\ Begun = 2
    BY <1>1, <1>2, <1>3, PlanIndex DEF SubLists, ChainLists
  <1>6. Ahead("cache") /\ ~Ahead("row") /\ (List = "invoice" => ~Ahead("get") /\ ~Ahead("position"))
    BY <1>1, <1>4, <1>5, AheadIs
  <1>7. role = "chain" /\ Here \in ChainRows  BY <1>1, <1>3, InItem
  <1>8. QED  BY <1>1, <1>3, <1>6, <1>7 DEF StoredBeforeCached

(* Every step keeps versions from running ahead. *)
LEMMA VersionsStep ==
  ASSUME Versions, Control, Document, Stage, StoredBeforeCached, [RecNext]_recVars
  PROVE  Versions'
  <1>0. ChainRows \subseteq Keys  BY DEF ChainRows
  <1>1. CASE UNCHANGED <<remote, edits, rows, cache, behind, role>>  BY <1>1 DEF Versions
  <1>2. ASSUME NEW k \in Edited, Edit(k)
        PROVE  Versions'
    <2>1. /\ remote' \in [Keys -> Nat] /\ edits' = edits + 1 /\ edits < MaxEdits
          /\ \A j \in Keys : remote'[j] \in {remote[j], remote[j] + 1}
          /\ \A j \in Keys : j.part \notin SubLists /\ remote'[j] # remote[j]
               => remote'[RowKey(j.list, j.id)] = remote[RowKey(j.list, j.id)] + 1
          /\ UNCHANGED <<rows, cache>>
      BY <1>2, EditEffect
    <2>2. edits' \in 0 .. MaxEdits  BY <2>1, RecordsAssumption DEF Versions
    <2>3. \A j \in Keys : rows[j] <= remote'[j] /\ remote'[j] <= 1 + edits'
      BY <2>1 DEF Versions
    <2>4. ASSUME NEW j \in Keys, j.part \notin SubLists, remote'[j] # 0
          PROVE  remote'[RowKey(j.list, j.id)] # 0
      <3>1. RowKey(j.list, j.id) \in Keys  BY KeyFacts
      <3>2. CASE remote'[j] = remote[j]
        <4>1. remote[RowKey(j.list, j.id)] # 0  BY <2>4, <3>2 DEF Versions
        <4>2. QED  BY <2>1, <3>1, <4>1 DEF Versions
      <3>3. CASE remote'[j] # remote[j]  BY <2>1, <2>4, <3>1, <3>3 DEF Versions
      <3>4. QED  BY <3>2, <3>3
    <2>5. QED  BY <2>1, <2>2, <2>3, <2>4 DEF Versions
  <1>3. ASSUME pc = "item", UNCHANGED <<remote, edits, cache>>, NEW k \in todo, rows' = Upserted(k)
        PROVE  Versions'
    <2>1. rows' \in [Keys -> Nat] /\ \A j \in Keys : rows[j] <= rows'[j] /\ rows'[j] <= remote[j]
      BY <1>3, UpsertEffect
    <2>2. QED  BY <1>0, <1>3, <2>1 DEF Versions
  <1>4. CASE Unlink
    <2>1. UNCHANGED <<remote, edits, cache>>  BY <1>4 DEF Unlink, ItemUnchanged, bexioVars
    <2>2. rows' = [k \in Keys |-> IF k \in PartKeys("cg2c") THEN 0 ELSE rows[k]]  BY <1>4 DEF Unlink
    <2>3. \A k \in ChainRows : rows'[k] = rows[k]  BY <1>0, <2>2 DEF ChainRows, PartKeys
    <2>4. rows' \in [Keys -> Nat] /\ \A k \in Keys : rows'[k] <= remote[k]  BY <2>2 DEF Versions
    <2>5. QED  BY <1>0, <2>1, <2>3, <2>4 DEF Versions
  <1>5. CASE SetCache
    <2>1. UNCHANGED <<remote, edits, rows>> /\ cache' = [cache EXCEPT ![Here] = doc[Here]]
      BY <1>5 DEF SetCache, ItemUnchanged, bexioVars
    <2>2. Here \in ChainRows /\ rows[Here] = doc[Here]  BY <1>5, AtCache DEF SetCache
    <2>3. QED  BY <1>0, <2>1, <2>2 DEF Versions
  <1>6. CASE StartThread \/ Restart
    <2>1. UNCHANGED <<remote, edits, rows>> /\ DOMAIN cache = ChainRows
      BY <1>6 DEF StartThread, Restart, bexioVars, Versions
    <2>2. cache' \in [ChainRows -> Nat] /\ \A k \in ChainRows : cache'[k] \in {0, rows[k]}
      BY <1>0, <1>6, <2>1 DEF StartThread, Restart, Versions
    <2>3. QED  BY <1>0, <2>1, <2>2 DEF Versions
  <1>7. QED  BY <1>1, <1>2, <1>3, <1>4, <1>5, <1>6, DataEffect

(* Every step keeps the order of storing and caching. *)
LEMMA StoredStep ==
  ASSUME Versions, Control, Document, Stage, StoredBeforeCached, [RecNext]_recVars
  PROVE  StoredBeforeCached'
  <1>0. Stage'  BY StageStep
  <1>1. CASE pc' # "item"  BY <1>1 DEF StoredBeforeCached
  <1>2. CASE FetchPage
    <2>1. List' = List /\ pc' = "item" /\ plan' = Plan(List')
      BY <1>2 DEF FetchPage, List, Program
    <2>2. Begun' = 0  BY <2>1, PlanType DEF Begun
    <2>3. Ahead("cache")' => Ahead("row")' /\ (List' = "invoice" => Ahead("get")' /\ Ahead("position")')
      BY <1>0, <2>1, <2>2, AheadIsNext DEF ChainLists
    <2>4. QED  BY <2>1, <2>3 DEF StoredBeforeCached
  <1>3. ASSUME Stays, StoredBeforeCached
        PROVE  /\ pc = "item" /\ pc' = "item" /\ List' = List /\ Here' = Here
               /\ \A part : PartKeys(part)' = PartKeys(part)
               /\ Here \in Keys /\ Here \in DOMAIN doc /\ Begun \in Nat
               /\ \A part : PartKeys(part) \subseteq DOMAIN doc /\ PartKeys(part) \subseteq Keys
    <2>1. pc = "item" /\ pc' = "item"  BY <1>3 DEF Stays
    <2>2. DOMAIN doc = {k \in Keys : k.list = List /\ k.id = item}  BY <2>1 DEF Document
    <2>3. QED  BY <1>3, <2>1, <2>2, StaysHere, InItem, BegunType DEF PartKeys
  <1>4. CASE Stays /\ Check
    <2>1. AtPart("check") /\ plan' = Tail(plan) /\ todo' = {}  BY <1>4 DEF Check, Stays, AtPart
    <2>2. Begun + 1 \in 1 .. Len(Plan(List)) /\ Plan(List)[Begun + 1] = "check" /\ Begun' = Begun + 1
      BY <1>4, <2>1, AtPartIs, TailStage
    <2>3. Begun' = 1 /\ List \in ChainLists
      <3>1. Begun \in Nat  BY <1>3, <1>4
      <3> HIDE DEF Begun
      <3>2. List \in ChainLists  BY <2>2, PlanIndex
      <3>3. Begun = 0
        <4>1. CASE List = "invoice"  BY <2>2, <3>1, <4>1, PlanIndex DEF SubLists
        <4>2. CASE List \in {"contact", "project"}  BY <2>2, <3>1, <4>2, PlanIndex DEF SubLists
        <4>3. QED  BY <3>2, <4>1, <4>2 DEF ChainLists
      <3>4. QED  BY <2>2, <3>2, <3>3
    <2>4. Ahead("row")' /\ (List' = "invoice" => Ahead("get")' /\ Ahead("position")')
      BY <1>0, <1>3, <1>4, <2>3, AheadIsNext DEF ChainLists
    <2>5. QED  BY <2>4 DEF StoredBeforeCached
  <1>5. CASE Stays /\ (GetFull \/ GetFails)
    <2>1. AtPart("get") /\ plan' = Tail(plan) /\ todo' = {} /\ UNCHANGED <<remote, rows>>
      BY <1>5 DEF GetFull, GetFails, Stays, AtPart, ItemUnchanged, bexioVars
    <2>2. Begun + 1 \in 1 .. Len(Plan(List)) /\ Plan(List)[Begun + 1] = "get" /\ Begun' = Begun + 1
      BY <1>5, <2>1, AtPartIs, TailStage
    <2>3. Ahead("cache")' => List = "invoice" /\ Begun' = 2
      <3>1. Begun \in Nat  BY <1>3, <1>5
      <3>2. Ahead("cache")' => List \in ChainLists  BY <1>0, <1>3, <1>5, AheadIsNext
      <3> HIDE DEF Begun
      <3>3. CASE List = "invoice"  BY <2>2, <3>1, <3>3, PlanIndex DEF SubLists
      <3>4. CASE List \in {"contact", "project"}  BY <2>2, <3>1, <3>4, PlanIndex DEF SubLists
      <3>5. QED  BY <3>2, <3>3, <3>4 DEF ChainLists
    <2>4. Ahead("cache")' => Ahead("row")' /\ Ahead("position")'
      BY <1>0, <1>3, <1>5, <2>3, AheadIsNext
    <2>5. short' \/ \A k \in PartKeys("position") : doc'[k] = remote[k]
      <3>1. CASE GetFails  BY <1>5, <3>1 DEF GetFails, Stays
      <3>2. CASE GetFull
        BY <1>3, <1>5, <3>2, RowKeyFields DEF GetFull, PartKeys
      <3>3. QED  BY <1>5, <3>1, <3>2
    <2>6. QED  BY <1>3, <1>5, <2>1, <2>4, <2>5 DEF StoredBeforeCached
  <1>6. CASE Stays /\ OpenPart
    <2>1. PICK part \in {"row", "position", "line", "cg2c"} :
            AtPart(part) /\ todo' = {k \in PartKeys(part) : doc[k] # 0}
      BY <1>6 DEF OpenPart
    <2>2. plan' = Tail(plan) /\ UNCHANGED <<remote, rows, doc, short>>
      BY <1>6 DEF OpenPart, ItemUnchanged, bexioVars
    <2>3. todo = {} /\ Begun + 1 \in 1 .. Len(Plan(List)) /\ Plan(List)[Begun + 1] = part
      BY <2>1, AtPartIs
    <2>4. Begun' = Begun + 1  BY <1>6, <2>1, <2>2, TailStage
    <2>5. Begun \in Nat /\ pc = "item" /\ pc' = "item" /\ List' = List /\ Here' = Here
      BY <1>3, <1>6
    <2>6. ASSUME Ahead("cache")'
          PROVE  Ahead("cache") /\ (part = "row" \/ (part = "position" /\ List = "invoice" /\ ~Ahead("row")))
      <3>1. List \in ChainLists  BY <1>0, <2>5, <2>6, AheadIsNext
      <3> HIDE DEF Begun
      <3>2. CASE List = "invoice"
        <4>1. Begun + 1 < 5  BY <1>0, <2>4, <2>5, <2>6, <3>2, AheadIsNext
        <4>2. part \in {"row", "position"} /\ (part = "position" => Begun = 3)
          BY <2>3, <2>5, <3>2, <4>1, PlanIndex
        <4>3. QED  BY <2>5, <3>2, <4>1, <4>2, AheadIs
      <3>3. CASE List \in {"contact", "project"}
        <4>1. Begun + 1 < 3  BY <1>0, <2>4, <2>5, <2>6, <3>3, AheadIsNext
        <4>2. part = "row"  BY <2>3, <2>5, <3>3, <4>1, PlanIndex
        <4>3. QED  BY <2>5, <3>3, <4>1, <4>2, AheadIs
      <3>4. QED  BY <3>1, <3>2, <3>3 DEF ChainLists
    <2>7. CASE part = "row"
      <3>1. Here \in todo'  BY <2>1, <2>5, <2>7, InItem DEF Document
      <3>2. ASSUME Ahead("cache")', List = "invoice"
            PROVE  /\ Ahead("cache") /\ Ahead("position")'
                   /\ ~Ahead("get")
        <4> HIDE DEF Begun
        <4>1. Begun = 2  BY <2>3, <2>5, <2>7, <3>2, PlanIndex DEF SubLists
        <4>2. Ahead("position")'  BY <1>0, <2>4, <2>5, <3>2, <4>1, AheadIsNext
        <4>3. QED  BY <2>5, <2>6, <3>2, <4>1, <4>2, AheadIs
      <3>3. QED  BY <1>3, <1>6, <2>2, <3>1, <3>2 DEF StoredBeforeCached
    <2>8. CASE part = "position" /\ List = "invoice"
      <3>1. Ahead("cache")' => Ahead("cache") /\ ~Ahead("row") /\ ~Ahead("get")
        <4> HIDE DEF Begun
        <4>1. Begun = 3  BY <2>3, <2>5, <2>8, PlanIndex DEF SubLists
        <4>2. QED  BY <2>5, <2>8, <4>1, AheadIs
      <3>2. QED  BY <1>3, <1>6, <2>1, <2>2, <2>3, <2>8, <3>1 DEF StoredBeforeCached
    <2>9. QED  BY <2>6, <2>7, <2>8 DEF StoredBeforeCached
  <1>7. CASE Stays /\ (LoadPart \/ LoadPartFails \/ Unlink \/ UnlinkFails \/ SetCache)
    <2>1. PICK part \in SubLists \cup {"unlink", "cache"} :
            AtPart(part) /\ (plan' = Tail(plan) \/ (part = "unlink" /\ plan' = Tail(Tail(plan))))
      BY <1>7 DEF LoadPart, LoadPartFails, Unlink, UnlinkFails, SetCache
    <2>2. Begun + 1 \in 1 .. Len(Plan(List)) /\ Plan(List)[Begun + 1] = part /\ todo = {}
      BY <2>1, AtPartIs
    <2>3. Begun \in Nat /\ pc = "item" /\ pc' = "item" /\ List' = List  BY <1>3, <1>7
    <2>4. List \in ChainLists => Begun >= (IF List = "invoice" THEN 4 ELSE 2)
      <3> HIDE DEF Begun
      <3>1. CASE List = "invoice"  BY <2>2, <2>3, <3>1, PlanIndex DEF SubLists
      <3>2. CASE List \in {"contact", "project"}  BY <2>2, <2>3, <3>2, PlanIndex DEF SubLists
      <3>3. QED  BY <3>1, <3>2 DEF ChainLists
    <2>5. Begun' > Begun
      <3>1. plan \in Seq(Parts) /\ Len(plan) >= 1 /\ plan' \in Seq(Parts)
        BY <1>0, <2>1, <2>3, AtPartIs DEF Stage
      <3>2. Len(plan') < Len(plan)
        <4>1. CASE plan' = Tail(plan)  BY <3>1, <4>1
        <4>2. CASE part = "unlink" /\ plan' = Tail(Tail(plan))
          <5>1. Len(plan) >= 2
            <6>1. List \in {"contact", "project"}
              <7> HIDE DEF Begun
              <7>1. CASE List = "invoice"  BY <2>2, <2>3, <4>2, <7>1, PlanIndex DEF SubLists
              <7>2. QED  BY <2>2, <4>2, <7>1, PlanIndex DEF ChainLists
            <6>2. Begun + 2 <= Len(Plan(List))
              <7> HIDE DEF Begun
              <7>1. QED  BY <2>2, <2>3, <4>2, <6>1, PlanIndex
            <6>3. QED  BY <2>3, <6>2, BegunType, PlanType
          <5>2. QED  BY <3>1, <4>2, <5>1, TailTwice
        <4>3. QED  BY <2>1, <4>1, <4>2
      <3>3. QED  BY <2>3, <3>1, <3>2, PlanType DEF Begun
    <2>6. Begun' \in Int  BY <1>0, <2>3, PlanType DEF Stage, Begun
    <2>7. ~Ahead("cache")'
      <3> HIDE DEF Begun
      <3>1. CASE List = "invoice"
        <4>1. ~(Begun' < 5)  BY <2>3, <2>4, <2>5, <2>6, <3>1 DEF ChainLists
        <4>2. QED  BY <1>0, <2>3, <3>1, <4>1, AheadIsNext
      <3>2. CASE List \in {"contact", "project"}
        <4>1. ~(Begun' < 3)  BY <2>3, <2>4, <2>5, <2>6, <3>2 DEF ChainLists
        <4>2. QED  BY <1>0, <2>3, <3>2, <4>1, AheadIsNext
      <3>3. CASE List \notin ChainLists  BY <1>0, <2>3, <3>3, AheadIsNext
      <3>4. QED  BY <3>1, <3>2, <3>3 DEF ChainLists
    <2>8. QED  BY <2>7 DEF StoredBeforeCached
  <1>8. CASE Stays /\ Store
    <2>1. PICK k \in todo : rows' = Upserted(k) /\ todo' = todo \ {k}  BY <1>8 DEF Store, NextKeys
    <2>2. UNCHANGED <<remote, doc, short, plan>>  BY <1>8 DEF Store, ItemUnchanged, bexioVars
    <2>3. \A j \in Keys : rows'[j] = IF j = k THEN doc[j] ELSE rows[j]
      BY <2>1 DEF Upserted, Versions
    <2>4. \A part : Ahead(part)' = Ahead(part)  BY <2>2 DEF Ahead
    <2>5. QED  BY <1>3, <1>8, <2>1, <2>2, <2>3, <2>4 DEF StoredBeforeCached
  <1>9. ASSUME Stays, NEW k \in todo, PassesOver(k)
        PROVE  StoredBeforeCached'
    <2>1. PICK next \in (Stores(k).failed \ {"stop"}) \cup Stores(k).ignored : GoesOn(k, next)
      BY <1>9 DEF PassesOver
    <2>2. CASE next = "item"
      <3>1. Len(plan') = 0  BY <2>1, <2>2 DEF GoesOn
      <3>2. ~Ahead("cache")'  BY <3>1 DEF Ahead
      <3>3. QED  BY <3>2 DEF StoredBeforeCached
    <2>3. CASE next # "item"
      <3>1. plan' = plan  BY <2>1, <2>3 DEF GoesOn
      <3>2. /\ Begun \in Nat /\ Begun >= 1 /\ k \in PartKeys(Plan(List)[Begun]) /\ pc = "item"
            /\ Begun \in 1 .. Len(Plan(List))
        BY <1>3, <1>9, BegunType DEF Stage
      <3>3. ASSUME Ahead("cache")  PROVE FALSE
        <4>1. k \in Keys /\ k.list = List /\ k.part = Plan(List)[Begun]  BY <3>2 DEF PartKeys
        <4>2. k.part \notin {"check", "get"}  BY <4>1, KeyFacts DEF SubLists
        <4>3. (k.part = "row" /\ k.list \in ChainLists) \/ (k.part = "position" /\ k.list = "invoice")
          <5> HIDE DEF Begun
          <5>1. List \in ChainLists  BY <3>2, <3>3, AheadIs
          <5>2. CASE List = "invoice"
            <6>1. Begun < 5  BY <3>2, <3>3, <5>2, AheadIs
            <6>2. k.part \in {"row", "position"}  BY <3>2, <4>1, <4>2, <5>2, <6>1, PlanIndex
            <6>3. QED  BY <4>1, <5>1, <5>2, <6>2
          <5>3. CASE List \in {"contact", "project"}
            <6>1. Begun < 3  BY <3>2, <3>3, <5>3, AheadIs
            <6>2. k.part = "row"  BY <3>2, <4>1, <4>2, <5>3, <6>1, PlanIndex
            <6>3. QED  BY <4>1, <5>1, <6>2
          <5>4. QED  BY <5>1, <5>2, <5>3 DEF ChainLists
        <4>4. Stores(k).failed \subseteq {"stop", "item"} /\ Stores(k).ignored \subseteq {"item"}
          BY <4>3, ChainStores
        <4>5. QED  BY <2>1, <2>3, <4>4
      <3>4. ~Ahead("cache")'  BY <3>1, <3>3 DEF Ahead
      <3>5. QED  BY <3>4 DEF StoredBeforeCached
    <2>4. QED  BY <2>2, <2>3
  <1>10. ASSUME Stays, UNCHANGED itemVars, NEW e \in Edited, Edit(e)
         PROVE  StoredBeforeCached'
    <2>1. /\ rows' = rows /\ \A j \in Keys : remote'[j] \in {remote[j], remote[j] + 1}
          /\ \A j \in Keys : j.part \notin SubLists /\ remote'[j] # remote[j]
               => remote'[RowKey(j.list, j.id)] = remote[RowKey(j.list, j.id)] + 1
      BY <1>10, EditEffect
    <2>2. UNCHANGED <<plan, todo, doc, short>>  BY <1>10 DEF itemVars
    <2>3. \A part : Ahead(part)' = Ahead(part)  BY <2>2 DEF Ahead
    <2>4. doc[Here] \in Nat /\ doc[Here] <= remote[Here] /\ remote[Here] \in Nat
      BY <1>3, <1>10 DEF Document, Versions
    <2>5. ASSUME doc[Here] = remote'[Here], NEW k \in PartKeys("position")
          PROVE  remote'[k] = remote[k] /\ doc[Here] = remote[Here]
      <3>1. k \in Keys /\ k.part \notin SubLists /\ RowKey(k.list, k.id) = Here
        BY RowKeyFields DEF PartKeys, Here
      <3>2. remote'[Here] # remote[Here] + 1  BY <2>4, <2>5
      <3>3. QED  BY <1>3, <1>10, <2>1, <2>4, <2>5, <3>1, <3>2
    <2>6. QED  BY <1>3, <1>10, <2>1, <2>2, <2>3, <2>5 DEF StoredBeforeCached
  <1>11. CASE Stays /\ UNCHANGED <<itemVars, remote, rows, cache, behind>>
    <2>1. UNCHANGED <<plan, todo, doc, short, remote, rows>>  BY <1>11 DEF itemVars
    <2>2. \A part : Ahead(part)' = Ahead(part)  BY <2>1 DEF Ahead
    <2>3. QED  BY <1>3, <1>11, <2>1, <2>2 DEF StoredBeforeCached
  <1>12. QED
    BY <1>1, <1>2, <1>4, <1>5, <1>6, <1>7, <1>8, <1>9, <1>10, <1>11, ItemEffect

-----------------------------------------------------------------------------
(* What the caches hold *)

(* Every step keeps the chain's caches empty while it does not run, and what  *)
(* it will load complete.                                                     *)
LEMMA LoadsStep ==
  ASSUME Versions, Control, Document, Stage, StoredBeforeCached, LoadsComplete, CachedComplete,
         [RecNext]_recVars
  PROVE  LoadsComplete'
  <1> DEFINE Inv(k) == RowKey("invoice", k.id)
  <1>0. \A k \in Positions : k \in Keys /\ Inv(k) \in Keys /\ Inv(k) \in ChainRows
    BY PositionFacts DEF ChainRows
  <1>1. CASE UNCHANGED <<remote, edits, rows, cache, behind, role>>  BY <1>1 DEF LoadsComplete
  <1>2. ASSUME NEW e \in Edited, Edit(e)
        PROVE  LoadsComplete'
    <2>1. /\ \A j \in Keys : remote'[j] \in {remote[j], remote[j] + 1}
          /\ \A j \in Keys : j.part \notin SubLists /\ remote'[j] # remote[j]
               => remote'[RowKey(j.list, j.id)] = remote[RowKey(j.list, j.id)] + 1
          /\ UNCHANGED <<rows, cache, behind, role>>
      BY <1>2, EditEffect DEF walkVars
    <2>2. ASSUME NEW k \in Positions, rows[Inv(k)] = remote'[Inv(k)]
          PROVE  remote'[k] = remote[k] /\ rows[Inv(k)] = remote[Inv(k)]
      <3>1. rows[Inv(k)] <= remote[Inv(k)] /\ remote[Inv(k)] \in Nat /\ rows[Inv(k)] \in Nat
        BY <1>0 DEF Versions
      <3>2. remote'[Inv(k)] # remote[Inv(k)] + 1  BY <2>2, <3>1
      <3>3. QED  BY <1>0, <2>1, <2>2, <3>1, <3>2, PositionFacts
    <2>3. QED  BY <2>1, <2>2 DEF LoadsComplete
  <1>3. ASSUME pc = "item", UNCHANGED <<remote, edits, cache, behind, role>>,
               NEW k \in todo, rows' = Upserted(k)
        PROVE  LoadsComplete'
    <2>1. k \in Keys /\ k.list = List /\ rows' = [rows EXCEPT ![k] = doc[k]]
      BY <1>3, UpsertEffect
    <2>2. role # "chain" => List \notin ChainLists  BY <1>3, InItem
    <2>3. ASSUME role # "chain", NEW j \in Positions
          PROVE  rows'[j] = rows[j] /\ rows'[Inv(j)] = rows[Inv(j)]
      <3>1. j.list = "invoice" /\ Inv(j).list = "invoice"  BY PositionFacts, RowKeyFields
      <3>2. k # j /\ k # Inv(j)  BY <2>1, <2>2, <2>3, <3>1 DEF ChainLists
      <3>3. QED  BY <1>0, <2>1, <3>2 DEF Versions
    <2>4. QED  BY <1>3, <2>3 DEF LoadsComplete
  <1>4. CASE Unlink
    <2>1. UNCHANGED <<remote, cache, behind, role>>
      BY <1>4 DEF Unlink, ItemUnchanged, bexioVars, walkVars
    <2>2. ASSUME NEW j \in Positions
          PROVE  rows'[j] = rows[j] /\ rows'[Inv(j)] = rows[Inv(j)]
      BY <1>0, <1>4, PositionFacts, RowKeyFields DEF Unlink, PartKeys
    <2>3. QED  BY <2>1, <2>2 DEF LoadsComplete
  <1>5. CASE SetCache
    <2>1. role = "chain" /\ role' = role
      BY <1>5, AtCache DEF SetCache, ItemUnchanged, walkVars
    <2>2. QED  BY <2>1 DEF LoadsComplete
  <1>6. CASE StartThread
    <2>1. role = "main" /\ role' = thread /\ UNCHANGED <<remote, rows, behind>>
      BY <1>6 DEF StartThread, bexioVars
    <2>2. role' # "chain" => \A k \in ChainRows : cache'[k] = 0
      BY <1>6, <2>1 DEF StartThread, Versions
    <2>3. QED  BY <2>1, <2>2 DEF LoadsComplete
  <1>7. CASE Restart
    <2>1. UNCHANGED <<remote, rows>> /\ role' = "main"  BY <1>7 DEF Restart
    <2>2. \A k \in ChainRows : cache'[k] = 0  BY <1>7 DEF Restart, Versions
    <2>3. ASSUME NEW k \in Positions, rows[Inv(k)] = remote[Inv(k)], Inv(k) \notin behind'
          PROVE  rows[k] = remote[k]
      <3>1. CASE role = "chain"
        <4>1. Inv(k) \notin behind /\ rows[Inv(k)] = cache[Inv(k)]
          BY <1>0, <1>7, <2>3, <3>1 DEF Restart, Versions
        <4>2. QED  BY <2>3, <4>1 DEF CachedComplete
      <3>2. CASE role # "chain"
        <4>1. Inv(k) \notin behind  BY <1>7, <2>3 DEF Restart
        <4>2. QED  BY <2>3, <3>2, <4>1 DEF LoadsComplete
      <3>3. QED  BY <3>1, <3>2
    <2>4. QED  BY <2>1, <2>2, <2>3 DEF LoadsComplete
  <1>8. QED  BY <1>1, <1>2, <1>3, <1>4, <1>5, <1>6, <1>7, DataEffect

(* An invoice Bexio does not have has no positions, here or there. *)
LEMMA NoInvoiceNoPositions ==
  ASSUME Versions, NEW k \in Positions, remote[RowKey("invoice", k.id)] = 0
  PROVE  rows[k] = remote[k]
  <1>1. k \in Keys /\ k.part \notin SubLists /\ RowKey(k.list, k.id) = RowKey("invoice", k.id)
    BY PositionFacts
  <1>2. remote[k] = 0  BY <1>1 DEF Versions
  <1>3. QED  BY <1>1, <1>2 DEF Versions

(* Every step keeps what the cache holds complete. *)
LEMMA CachedStep ==
  ASSUME Versions, Control, Document, Stage, StoredBeforeCached, LoadsComplete, CachedComplete,
         [RecNext]_recVars
  PROVE  CachedComplete'
  <1> DEFINE Inv(k) == RowKey("invoice", k.id)
  <1>0. \A k \in Positions : k \in Keys /\ Inv(k) \in Keys /\ Inv(k) \in ChainRows
    BY PositionFacts DEF ChainRows
  <1>1. CASE UNCHANGED <<remote, edits, rows, cache, behind, role>>  BY <1>1 DEF CachedComplete
  <1>2. ASSUME NEW e \in Edited, Edit(e)
        PROVE  CachedComplete'
    <2>1. /\ \A j \in Keys : remote'[j] \in {remote[j], remote[j] + 1}
          /\ \A j \in Keys : j.part \notin SubLists /\ remote'[j] # remote[j]
               => remote'[RowKey(j.list, j.id)] = remote[RowKey(j.list, j.id)] + 1
          /\ UNCHANGED <<rows, cache, behind>>
      BY <1>2, EditEffect
    <2>2. ASSUME NEW k \in Positions, cache[Inv(k)] = remote'[Inv(k)]
          PROVE  remote'[k] = remote[k] /\ cache[Inv(k)] = remote[Inv(k)]
      <3>1. /\ cache[Inv(k)] <= rows[Inv(k)] /\ rows[Inv(k)] <= remote[Inv(k)]
            /\ remote[Inv(k)] \in Nat /\ rows[Inv(k)] \in Nat /\ cache[Inv(k)] \in Nat
        BY <1>0 DEF Versions
      <3>2. remote'[Inv(k)] # remote[Inv(k)] + 1  BY <2>2, <3>1
      <3>3. QED  BY <1>0, <2>1, <2>2, <3>1, <3>2, PositionFacts
    <2>3. QED  BY <2>1, <2>2 DEF CachedComplete
  <1>3. ASSUME pc = "item", UNCHANGED <<remote, edits, cache, behind, role>>,
               NEW k \in todo, rows' = Upserted(k)
        PROVE  CachedComplete'
    <2>1. rows' \in [Keys -> Nat] /\ \A j \in Keys : rows[j] <= rows'[j] /\ rows'[j] <= remote[j]
      BY <1>3, UpsertEffect
    <2>2. \A j \in Positions : rows[j] = remote[j] => rows'[j] = remote[j]
      BY <1>0, <2>1 DEF Versions
    <2>3. QED  BY <1>3, <2>2 DEF CachedComplete
  <1>4. CASE Unlink
    <2>1. UNCHANGED <<remote, cache, behind>>  BY <1>4 DEF Unlink, ItemUnchanged, bexioVars
    <2>2. \A j \in Positions : rows'[j] = rows[j]
      BY <1>0, <1>4, PositionFacts DEF Unlink, PartKeys
    <2>3. QED  BY <2>1, <2>2 DEF CachedComplete
  <1>5. CASE SetCache
    <2>1. /\ pc = "item" /\ Here \in ChainRows /\ List \in ChainLists
          /\ List = "invoice" /\ ~short /\ doc[Here] = remote[Here] =>
               \A k \in PartKeys("position") : doc[k] = remote[k]
          /\ List = "invoice" => \A k \in PartKeys("position") : doc[k] = 0 \/ rows[k] = doc[k]
      BY <1>5, AtCache DEF SetCache
    <2>2. UNCHANGED <<remote, rows>> /\ cache' = [cache EXCEPT ![Here] = doc[Here]]
      BY <1>5 DEF SetCache, ItemUnchanged, bexioVars
    <2>3. behind' = IF short THEN behind \cup {Here} ELSE behind \ {Here}  BY <1>5 DEF SetCache
    <2>4. ASSUME NEW k \in Positions, cache'[Inv(k)] = remote[Inv(k)], Inv(k) \notin behind'
          PROVE  rows[k] = remote[k]
      <3>1. CASE Inv(k) = Here
        <4>1. List = "invoice" /\ k \in PartKeys("position")
          <5>1. List = "invoice" /\ item = k.id  BY <2>1, <3>1, InItem, RowKeyFields
          <5>2. QED  BY <5>1, <1>0, PositionFacts DEF PartKeys
        <4>2. ~short /\ doc[Here] = remote[Here]  BY <2>1, <2>2, <2>3, <2>4, <3>1 DEF Versions
        <4>3. doc[k] = remote[k] /\ (doc[k] = 0 \/ rows[k] = doc[k])  BY <2>1, <4>1, <4>2
        <4>4. QED  BY <1>0, <4>3 DEF Versions
      <3>2. CASE Inv(k) # Here
        <4>1. cache'[Inv(k)] = cache[Inv(k)] /\ Inv(k) \notin behind
          BY <1>0, <2>2, <2>3, <2>4, <3>2 DEF Versions
        <4>2. QED  BY <2>4, <4>1 DEF CachedComplete
      <3>3. QED  BY <3>1, <3>2
    <2>5. QED  BY <2>2, <2>4 DEF CachedComplete
  <1>6. CASE StartThread
    <2>1. role = "main" /\ UNCHANGED <<remote, rows, behind>>  BY <1>6 DEF StartThread, bexioVars
    <2>2. \A k \in ChainRows : cache'[k] \in {0, rows[k]}  BY <1>6 DEF StartThread, Versions
    <2>3. ASSUME NEW k \in Positions, cache'[Inv(k)] = remote[Inv(k)]
          PROVE  rows[k] = remote[k] \/ Inv(k) \in behind
      <3>1. CASE remote[Inv(k)] = 0  BY <3>1, NoInvoiceNoPositions
      <3>2. CASE remote[Inv(k)] # 0
        <4>1. rows[Inv(k)] = remote[Inv(k)]  BY <1>0, <2>2, <2>3, <3>2
        <4>2. QED  BY <2>1, <4>1 DEF LoadsComplete
      <3>3. QED  BY <3>1, <3>2
    <2>4. QED  BY <2>1, <2>3 DEF CachedComplete
  <1>7. CASE Restart
    <2>1. UNCHANGED <<remote, rows>>  BY <1>7 DEF Restart
    <2>2. \A k \in ChainRows : cache'[k] = 0  BY <1>7 DEF Restart, Versions
    <2>3. ASSUME NEW k \in Positions, cache'[Inv(k)] = remote[Inv(k)]
          PROVE  rows[k] = remote[k]
      BY <1>0, <2>2, <2>3, NoInvoiceNoPositions
    <2>4. QED  BY <2>1, <2>3 DEF CachedComplete
  <1>8. QED  BY <1>1, <1>2, <1>3, <1>4, <1>5, <1>6, <1>7, DataEffect

-----------------------------------------------------------------------------
(* The theorems *)

(* main starts with nothing stored and nothing cached. *)
LEMMA RecInitInv ==
  ASSUME NEW t \in {"records", "chain"}, RecInit(t)
  PROVE  RecInv
  <1>1. Versions
    <2>1. remote = [k \in Keys |-> IF k \in Absent THEN 0 ELSE 1] /\ rows = [k \in Keys |-> 0]
          /\ cache = [k \in ChainRows |-> 0] /\ edits = 0
      BY DEF RecInit, ChainRows
    <2>2. ASSUME NEW k \in Keys, k.part \notin SubLists, remote[k] # 0
          PROVE  remote[RowKey(k.list, k.id)] # 0
      BY <2>1, <2>2, KeyFacts
    <2>3. edits \in 0 .. MaxEdits  BY <2>1, RecordsAssumption
    <2>4. \A k \in Keys : rows[k] <= remote[k] /\ remote[k] <= 1 + edits  BY <2>1
    <2>5. \A k \in ChainRows : cache[k] <= rows[k]  BY <2>1 DEF ChainRows
    <2>6. QED  BY <2>1, <2>2, <2>3, <2>4, <2>5 DEF Versions
  <1>2. Control
    <2>1. Len(Programs["main"]) \in Nat \ {0}  BY ProgramFacts
    <2>2. QED  BY <2>1, RecordsAssumption DEF RecInit, Control, Program
  <1>3. Document /\ Stage /\ StoredBeforeCached
    BY DEF RecInit, Document, Stage, StoredBeforeCached
  <1>4. LoadsComplete
    <2>1. \A k \in ChainRows : cache[k] = 0  BY DEF RecInit, ChainRows
    <2>2. ASSUME NEW k \in Positions, rows[RowKey("invoice", k.id)] = remote[RowKey("invoice", k.id)]
          PROVE  rows[k] = remote[k]
      <3>1. RowKey("invoice", k.id) \in Keys  BY PositionFacts DEF ChainRows
      <3>2. remote[RowKey("invoice", k.id)] = 0  BY <2>2, <3>1 DEF RecInit
      <3>3. QED  BY <1>1, <3>2, NoInvoiceNoPositions
    <2>3. QED  BY <2>1, <2>2 DEF LoadsComplete
  <1>5. CachedComplete
    <2>1. ASSUME NEW k \in Positions, cache[RowKey("invoice", k.id)] = remote[RowKey("invoice", k.id)]
          PROVE  rows[k] = remote[k]
      <3>1. RowKey("invoice", k.id) \in ChainRows  BY PositionFacts
      <3>2. remote[RowKey("invoice", k.id)] = 0  BY <2>1, <3>1 DEF RecInit, ChainRows
      <3>3. QED  BY <1>1, <3>2, NoInvoiceNoPositions
    <2>2. QED  BY <2>1 DEF CachedComplete
  <1>6. WalkedSoFar  BY DEF RecInit, WalkedSoFar
  <1>7. QED  BY <1>1, <1>2, <1>3, <1>4, <1>5, <1>6 DEF RecInv

(* Whatever main and the data threads do, fail to do or leave when they die,  *)
(* versions only flow from Bexio to the document at hand, to the rows and to  *)
(* the caches (RecInv).                                                       *)
THEOREM RecordsInvariant == RecSpec => []RecInv
  <1>1. (\E t \in {"records", "chain"} : RecInit(t)) => RecInv  BY RecInitInv
  <1>2. RecInv /\ [RecNext]_recVars => RecInv'
    <2> SUFFICES ASSUME RecInv, [RecNext]_recVars  PROVE RecInv'
      OBVIOUS
    <2> USE DEF RecInv
    <2>1. Versions'  BY VersionsStep
    <2>2. Control'  BY ControlStep
    <2>3. Document'  BY DocumentStep
    <2>4. Stage'  BY StageStep
    <2>5. StoredBeforeCached'  BY StoredStep
    <2>6. LoadsComplete'  BY LoadsStep
    <2>7. CachedComplete'  BY CachedStep
    <2>8. WalkedSoFar'  BY WalkedStep
    <2>9. QED  BY <2>1, <2>2, <2>3, <2>4, <2>5, <2>6, <2>7, <2>8
  <1>3. QED  BY <1>1, <1>2, PTL DEF RecSpec

(* Types; a data thread leaves before its errors pass the limit (main.c). *)
THEOREM RecordsTypeCorrect == RecSpec => []RecTypeOK
  <1>1. RecInv => RecTypeOK
    <2> SUFFICES ASSUME RecInv  PROVE RecTypeOK
      OBVIOUS
    <2> USE DEF RecInv
    <2>1. MaxVersion \in Nat \ {0} /\ MaxEdits \in Nat  BY RecordsAssumption
    <2>2. remote \in [Keys -> 0 .. MaxVersion + MaxEdits]
      <3>1. \A k \in Keys : remote[k] \in 0 .. MaxVersion + MaxEdits  BY <2>1 DEF Versions
      <3>2. QED  BY <3>1 DEF Versions
    <2>3. rows \in [Keys -> 0 .. MaxVersion + MaxEdits]
      <3>1. \A k \in Keys : rows[k] \in 0 .. MaxVersion + MaxEdits  BY <2>1 DEF Versions
      <3>2. QED  BY <3>1 DEF Versions
    <2>4. DOMAIN cache \subseteq Keys /\ \A k \in DOMAIN cache : cache[k] \in 0 .. rows[k]
      BY DEF Versions, ChainRows
    <2>5. todo \subseteq DOMAIN doc /\ \A k \in todo : doc[k] # 0  BY DEF Document
    <2>6. QED  BY <2>2, <2>3, <2>4, <2>5 DEF Control, RecTypeOK
  <1>2. QED  BY <1>1, RecordsInvariant, PTL

(* A round of random_item_thread that keeps its connection walks every list,  *)
(* whatever lists or items failed: keep_going (sync_more.c) does not let one  *)
(* resource hide the others.                                                  *)
THEOREM EveryListIsWalked == RecSpec => []RoundVisitsAll
  <1>1. RecInv => RoundVisitsAll
    <2> SUFFICES ASSUME RecInv, pc = "round", role = "records", round_error # "Reconnect",
                        NEW i \in DOMAIN Program, Program[i] \notin walked
                 PROVE  round_error = "Generic" /\ Program[i] \in Range(Taxes)
      BY DEF RoundVisitsAll
    <2>1. Program \in Seq(OtherLists \cup ChainLists) /\ at = Len(Program) + 1
      BY ProgramFacts DEF RecInv, Control, Program
    <2>2. i \in 1 .. at - 1  BY <2>1
    <2>3. QED  BY <2>2 DEF RecInv, WalkedSoFar
  <1>2. QED  BY <1>1, RecordsInvariant, PTL

(* An invoice whose checksum the cache holds has its positions in the         *)
(* database, but for those whose document could not be read or that a restart *)
(* took for complete (invoice.c).                                             *)
THEOREM CachedInvoicesComplete == RecSpec => []CachedComplete
  <1>1. RecInv => CachedComplete  BY DEF RecInv
  <1>2. QED  BY <1>1, RecordsInvariant, PTL

=============================================================================
