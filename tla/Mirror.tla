------------------------------- MODULE Mirror -------------------------------
(***************************************************************************)
(* What the copy of one resource promises, without phases, pages, caches   *)
(* or restarts: a row appears only for an id that Bexio had when it gave   *)
(* the answer at hand (it may have deleted the id since), once the row it  *)
(* refers to is there, and disappears only when Bexio has deleted its id,  *)
(* or in the step that removes the row it refers to (ON DELETE CASCADE in  *)
(* database/database.sql).                                                 *)
(***************************************************************************)
EXTENDS Integers

CONSTANTS Items,    \* ids of the resource
          Parents,  \* ids of the rows they may refer to
          Parent    \* per id, the row it refers to, 0 for none

VARIABLES status,   \* per id: "unborn", "live" or "gone" in Bexio
          rows,     \* ids that have a row
          parents,  \* ids of Parents that have one
          shown     \* ids of the answer at hand that may still be stored

Init == /\ status \in [Items -> {"unborn", "live"}]
        /\ rows = {} /\ parents = {} /\ shown = {}

Appear(id) == /\ status[id] = "unborn"
              /\ status' = [status EXCEPT ![id] = "live"]
              /\ UNCHANGED <<rows, parents, shown>>

Vanish(id) == /\ status[id] = "live"
              /\ status' = [status EXCEPT ![id] = "gone"]
              /\ UNCHANGED <<rows, parents, shown>>

(* Bexio answers with a part of what it has. *)
Answer(S) == /\ \A id \in S : status[id] = "live"
             /\ shown' = S
             /\ UNCHANGED <<status, rows, parents>>

(* Some of the answer is stored, and as much of it or more is done with. *)
Store(S) == /\ \A id \in S : Parent[id] \in parents \cup {0}
            /\ S \subseteq shown
            /\ rows' = rows \cup S
            /\ shown' \in SUBSET shown
            /\ UNCHANGED <<status, parents>>

(* The row of a deleted id is pruned. *)
Drop(id) == /\ status[id] = "gone"
            /\ rows' = rows \ {id}
            /\ UNCHANGED <<status, parents, shown>>

StoreParents(S) == parents' = parents \cup S /\ UNCHANGED <<status, rows, shown>>

(* The row others refer to is pruned, and takes them along. *)
LoseParent(p) == /\ parents' = parents \ {p}
                 /\ rows' = {id \in rows : Parent[id] # p}
                 /\ UNCHANGED <<status, shown>>

Next == \/ \E id \in Items : Appear(id) \/ Vanish(id) \/ Drop(id)
        \/ \E S \in SUBSET Items : Answer(S) \/ Store(S)
        \/ \E S \in SUBSET Parents : StoreParents(S)
        \/ \E p \in Parents : LoseParent(p)

Spec == Init /\ [][Next]_<<status, rows, parents, shown>>
=============================================================================
