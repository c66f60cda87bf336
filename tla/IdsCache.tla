------------------------------ MODULE IdsCache ------------------------------
(* The id cache of bx_ids_cache.c: an array sorted by id, searched by halves, *)
(* grown by chunks, iterated by index while ids are set, checked and buried.  *)
(* Ids are set and checked by a walk; the missed pass of the invoices checks  *)
(* and sets what an iteration of drift 1 gave it, or the id 0 of a body that  *)
(* is no invoice; a prune buries what its iteration gave it.                  *)
EXTENDS Integers, Sequences

CONSTANTS CacheIds, Sums, VersionMax, Chunk, Drift

VARIABLES items, size, version,   \* struct Cache; count is Len(items)
          iter,                   \* CacheIter and what it is for, or "none"
          due,                    \* ids stale since the iteration began
          reply                  \* what the last call returned

idsVars == <<items, size, version, iter, due, reply>>

Yes == <<"true", 0>>
No == <<"false", 0>>
NoId == -1
NoIter == [for |-> "none", current |-> 0, version |-> 0, id |-> NoId]

CacheInit ==
  /\ items = <<>> /\ size = 0 /\ version = 1 /\ iter = NoIter
  /\ due = {} /\ reply = Yes

(* Mutant of _lower_bound: ends one short of the upper half. *)
LowerBoundShort(id) ==
  LET Search[l \in 0 .. Len(items), r \in 0 .. Len(items)] ==
        IF l >= r THEN l
        ELSE LET m == l + (r - l) \div 2
             IN  IF items[m + 1].id < id THEN Search[m + 1, r]
                 ELSE Search[l, IF m = 0 THEN 0 ELSE m - 1]
  IN  Search[0, Len(items)]

(* First index, from 0, with an id that is not smaller. *)
_lower_bound(id) ==
  LET Search[l \in 0 .. Len(items), r \in 0 .. Len(items)] ==
        IF l >= r THEN l
        ELSE LET m == l + (r - l) \div 2
             IN  IF items[m + 1].id < id THEN Search[m + 1, r] ELSE Search[l, m]
  IN  Search[0, Len(items)]

(* The place of an id in the sequence, 0 when it is not there. *)
_find_item(id) ==
  LET i == _lower_bound(id) IN
  IF i < Len(items) /\ items[i + 1].id = id THEN i + 1 ELSE 0

(* The ids a call may be about, given the iteration under way. *)
Callable == IF iter.for = "none" THEN CacheIds \ {0}
            ELSE IF iter.for = "missed" /\ iter.id # NoId THEN {0, iter.id} ELSE {}

cache_set_item == \E id \in Callable, s \in Sums :
  LET i == _lower_bound(id)
      new == [id |-> id, sum |-> s, seen |-> version]
  IN  /\ IF _find_item(id) # 0
         THEN items' = [items EXCEPT ![i + 1] = new] /\ reply' = Yes /\ UNCHANGED size
         ELSE \/ /\ items' = SubSeq(items, 1, i) \o <<new>> \o SubSeq(items, i + 1, Len(items))
                 /\ size' = IF Len(items) >= size THEN size + Chunk ELSE size
                 /\ reply' = Yes
              \/ /\ Len(items) >= size   \* _grow_cache fails
                 /\ reply' = No /\ UNCHANGED <<items, size>>
      /\ due' = due \ {id} /\ UNCHANGED <<version, iter>>

cache_check_item == \E id \in Callable, s \in Sums :
  LET k == _find_item(id) IN
  /\ IF k = 0 \/ items[IF k = 0 THEN 1 ELSE k].seen = 0
     THEN reply' = <<"CacheNotSet", 0>> /\ UNCHANGED items
     ELSE /\ items' = [items EXCEPT ![k].seen = version]
          /\ reply' = <<IF items[k].sum # s THEN "CacheNotSync" ELSE "CacheOk", 0>>
  /\ due' = due \ {id} /\ UNCHANGED <<size, version, iter>>

cache_tombstone ==
  LET k == _find_item(iter.id) IN
  /\ iter.for = "prune" /\ iter.id # NoId
  /\ items' = IF k = 0 THEN items ELSE [items EXCEPT ![k].seen = 0]
  /\ iter' = [iter EXCEPT !.id = NoId]
  /\ due' = due \ {iter.id} /\ UNCHANGED <<size, version, reply>>

(* _cache_reset_version when the counter is at its end. *)
cache_next_version ==
  /\ iter.for = "none"
  /\ IF version + 1 = VersionMax
     THEN version' = 1 /\ items' = [k \in DOMAIN items |-> [items[k] EXCEPT !.seen = 1]]
     ELSE version' = version + 1 /\ UNCHANGED items
  /\ UNCHANGED <<size, iter, due, reply>>

Prunable(k, v, drift) == v > drift /\ items[k].seen > 0 /\ items[k].seen <= v - drift
DriftOf(for) == IF for = "missed" THEN 1 ELSE Drift

cache_iter_init ==
  /\ iter.for = "none"
  /\ \E for \in {"missed", "prune"} :
       /\ iter' = [for |-> for, current |-> 0, version |-> version, id |-> NoId]
       /\ due' = {items[k].id : k \in {j \in DOMAIN items : Prunable(j, version, DriftOf(for))}}
  /\ UNCHANGED <<items, size, version, reply>>

(* The next prunable index from `current` on. *)
IterNext ==
  /\ \/ iter.for = "missed"
     \/ iter.for = "prune" /\ iter.id = NoId
  /\ \E k \in DOMAIN items :
       /\ k > iter.current /\ Prunable(k, iter.version, DriftOf(iter.for))
       /\ \A j \in iter.current + 1 .. k - 1 : ~Prunable(j, iter.version, DriftOf(iter.for))
       /\ iter' = [iter EXCEPT !.current = k, !.id = items[k].id]
       /\ reply' = <<"id", items[k].id>> /\ due' = due \ {items[k].id}
  /\ UNCHANGED <<items, size, version>>

NoNext == \A k \in iter.current + 1 .. Len(items) : ~Prunable(k, iter.version, DriftOf(iter.for))
Alive == SelectSeq(items, LAMBDA e : e.seen # 0)

(* The iteration is over: the caller of the missed pass returns. *)
IterEnd ==
  /\ iter.for = "missed" /\ NoNext /\ iter' = NoIter /\ reply' = No
  /\ UNCHANGED <<items, size, version, due>>

(* A prune that is over goes on to cache_prune. *)
PruneEnd ==
  /\ iter.for = "prune" /\ iter.id = NoId /\ NoNext /\ reply' = No
  /\ iter' = [iter EXCEPT !.for = "compact"]
  /\ UNCHANGED <<items, size, version, due>>
cache_prune ==
  /\ iter.for = "compact" /\ iter' = NoIter /\ items' = Alive
  /\ UNCHANGED <<size, version, due, reply>>

(* A GET or a DELETE fails, and the caller leaves in the middle. *)
IterDropped ==
  /\ iter.for \in {"missed", "prune"} /\ iter.id # NoId
  /\ iter' = NoIter /\ due' = {} /\ UNCHANGED <<items, size, version, reply>>

CacheNext ==
  \/ cache_set_item \/ cache_check_item \/ cache_tombstone \/ cache_next_version
  \/ cache_iter_init \/ IterNext \/ IterEnd \/ IterDropped \/ PruneEnd
  \/ cache_prune

CacheSpec == CacheInit /\ [][CacheNext]_idsVars

-----------------------------------------------------------------------------
IdsHeld == {items[k].id : k \in DOMAIN items}
Entry(id) == LET k == CHOOSE j \in DOMAIN items : items[j].id = id
             IN  [sum |-> items[k].sum, seen |-> items[k].seen]
Bound == IF iter.for \in {"missed", "prune"} /\ iter.version > DriftOf(iter.for)
         THEN iter.version - DriftOf(iter.for) ELSE 0
Map == INSTANCE IdMap WITH map <- [id \in IdsHeld |-> Entry(id)], bound <- Bound

(* The array is the map its callers take it for, call by call: no id is held  *)
(* twice or lost by a search, an insertion or a compaction, and an iteration  *)
(* gives every id that stays stale, though ids are inserted under it.         *)
ArrayIsMap == Map!MapSpec

=============================================================================
