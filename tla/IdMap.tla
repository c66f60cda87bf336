------------------------------- MODULE IdMap -------------------------------
(* What the id cache promises its users: a map from ids to checksums that     *)
(* knows in which version each id was last seen, and iterations that give     *)
(* back every id not seen for `drift` versions.                               *)
EXTENDS Integers

CONSTANTS CacheIds, Sums, VersionMax

VARIABLES map,      \* ids held -> [sum, seen]; seen 0 is a tombstone
          version,  \* the current version
          bound,    \* the iteration under way is for ids last seen up to here
          due,      \* ids it still owes
          reply    \* what the last call returned, with an id when it gave one

mapVars == <<map, version, bound, due, reply>>

Held == DOMAIN map
With(id, e) == [i \in Held \cup {id} |-> IF i = id THEN e ELSE map[i]]
Yes == <<"true", 0>>
No == <<"false", 0>>

MapInit ==
  /\ map = [i \in {} |-> 0] /\ version = 1 /\ bound = 0 /\ due = {} /\ reply = Yes

(* An id is set; only a new one may be refused. *)
Set == \E id \in CacheIds, s \in Sums :
  /\ \/ map' = With(id, [sum |-> s, seen |-> version]) /\ reply' = Yes
     \/ id \notin Held /\ UNCHANGED map /\ reply' = No
  /\ due' = due \ {id} /\ UNCHANGED <<version, bound>>

(* Checked: a held id counts as seen whatever its checksum. *)
Check == \E id \in CacheIds, s \in Sums :
  /\ IF id \notin {i \in Held : map[i].seen # 0}
     THEN reply' = <<"CacheNotSet", 0>> /\ UNCHANGED map
     ELSE /\ reply' = <<IF map[id].sum = s THEN "CacheOk" ELSE "CacheNotSync", 0>>
          /\ map' = [map EXCEPT ![id].seen = version]
  /\ due' = due \ {id} /\ UNCHANGED <<version, bound>>

Tombstone == \E id \in CacheIds :
  /\ map' = IF id \in Held THEN [map EXCEPT ![id].seen = 0] ELSE map
  /\ due' = due \ {id} /\ UNCHANGED <<version, bound, reply>>

Forget ==
  /\ map' = [i \in {j \in Held : map[j].seen # 0} |-> map[i]]
  /\ UNCHANGED <<version, bound, due, reply>>

(* At the end of their range versions start over, and all counts as seen. *)
NewVersion ==
  /\ IF version + 1 = VersionMax
     THEN version' = 1 /\ map' = [i \in Held |-> [map[i] EXCEPT !.seen = 1]]
     ELSE version' = version + 1 /\ UNCHANGED map
  /\ UNCHANGED <<bound, due, reply>>

(* An iteration starts for ids not seen for some versions, gives one, ends    *)
(* when it owes none, or is dropped by its caller.                            *)
Begin == \E last \in 0 .. version - 1 :
  /\ bound' = last /\ due' = {i \in Held : map[i].seen \in 1 .. last}
  /\ UNCHANGED <<map, version, reply>>
Give == \E id \in Held :
  /\ map[id].seen \in 1 .. bound
  /\ reply' = <<"id", id>> /\ due' = due \ {id} /\ UNCHANGED <<map, version, bound>>
End == due = {} /\ reply' = No /\ bound' = 0 /\ UNCHANGED <<map, version, due>>
Drop == due' = {} /\ bound' = 0 /\ UNCHANGED <<map, version, reply>>

MapNext == Set \/ Check \/ Tombstone \/ Forget \/ NewVersion \/ Begin \/ Give \/ End \/ Drop
MapSpec == MapInit /\ [][MapNext]_mapVars

=============================================================================
