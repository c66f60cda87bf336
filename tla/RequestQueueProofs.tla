------------------------- MODULE RequestQueueProofs -------------------------
(* Safety of the request queue for every set of threads and every bound.     *)
EXTENDS RequestQueue, SequenceTheorems, TLAPS

(* What bx_net_request_list_add does to the list: the ids on it, and its     *)
(* order when the new id is larger than all of them.                         *)
LEMMA PushFacts ==
  ASSUME NEW s \in Seq(Ids), NEW id \in Ids
  PROVE  /\ <<id>> \o s \in Seq(Ids)
         /\ Places(<<id>> \o s) = Places(s) \cup {id}
         /\ Descending(s) /\ (\A other \in Places(s) : other < id)
              => Descending(<<id>> \o s)
  <1> DEFINE t == <<id>> \o s
  <1>1. /\ <<id>> \in Seq(Ids) /\ Len(<<id>>) = 1 /\ <<id>>[1] = id
    OBVIOUS
  <1>2. /\ t \in Seq(Ids) /\ Len(t) = Len(s) + 1
        /\ \A i \in 1 .. Len(s) + 1 : t[i] = IF i <= 1 THEN id ELSE s[i - 1]
    <2>1. /\ t \in Seq(Ids) /\ Len(t) = 1 + Len(s)
          /\ \A i \in 1 .. 1 + Len(s) :
               t[i] = IF i <= 1 THEN <<id>>[i] ELSE s[i - 1]
      BY <1>1, ConcatProperties
    <2> QED BY <1>1, <2>1
  <1>3. /\ DOMAIN s = 1 .. Len(s) /\ Len(s) \in Nat /\ DOMAIN t = 1 .. Len(s) + 1
    BY <1>2, LenProperties
  <1>4. Places(t) = Places(s) \cup {id}
    <2>1. ASSUME NEW x \in Places(t) PROVE x \in Places(s) \cup {id}
      <3>1. PICK i \in 1 .. Len(s) + 1 : x = t[i]
        BY <1>3 DEF Places
      <3>2. CASE i <= 1
        BY <3>1, <3>2, <1>2
      <3>3. CASE i > 1
        <4>1. i - 1 \in DOMAIN s /\ x = s[i - 1]
          BY <3>1, <3>3, <1>2, <1>3
        <4> QED BY <4>1 DEF Places
      <3> QED BY <3>2, <3>3, <1>3
    <2>2. ASSUME NEW x \in Places(s) PROVE x \in Places(t)
      <3>1. PICK i \in 1 .. Len(s) : x = s[i]
        BY <1>3 DEF Places
      <3>2. i + 1 \in DOMAIN t /\ t[i + 1] = x
        BY <3>1, <1>2, <1>3
      <3> QED BY <3>2 DEF Places
    <2>3. id \in Places(t)
      <3>1. 1 \in DOMAIN t /\ t[1] = id
        BY <1>2, <1>3
      <3> QED BY <3>1 DEF Places
    <2> QED BY <2>1, <2>2, <2>3
  <1>5. ASSUME Descending(s), \A other \in Places(s) : other < id
        PROVE  Descending(t)
    <2> SUFFICES ASSUME NEW i \in 1 .. Len(s) + 1, NEW j \in 1 .. Len(s) + 1, i < j
                 PROVE  t[i] > t[j]
      BY <1>3 DEF Descending
    <2>1. t[j] = s[j - 1] /\ j - 1 \in DOMAIN s
      BY <1>2, <1>3
    <2>2. CASE i = 1
      <3>1. s[j - 1] \in Places(s) /\ s[j - 1] \in Ids
        BY <2>1, <1>3, ElementOfSeq DEF Places
      <3> QED BY <2>1, <2>2, <3>1, <1>2, <1>5 DEF Ids
    <2>3. CASE i > 1
      BY <2>1, <2>3, <1>2, <1>3, <1>5 DEF Descending
    <2> QED BY <2>2, <2>3
  <1> QED BY <1>2, <1>4, <1>5

LEMMA PlacesInIds == ASSUME NEW s \in Seq(Ids) PROVE Places(s) \subseteq Ids
  BY LenProperties, ElementOfSeq DEF Places

(* What TypeOK says in terms of numbers.                                      *)
LEMMA TypeFacts ==
  ASSUME TypeOK
  PROVE  /\ next_id \in Nat /\ request \in Nat
         /\ Places(in) \cup out \cup returned \cup {request} \subseteq Nat
  <1>1. next_id \in 0 .. MaxRequests /\ request \in 0 .. MaxRequests
    BY DEF TypeOK
  <1>2. Places(in) \subseteq Ids /\ out \subseteq Ids /\ returned \subseteq Ids
    BY PlacesInIds DEF TypeOK
  <1>3. Ids \subseteq Nat
    BY DEF Ids
  <1>4. next_id \in Nat /\ request \in Nat
    BY <1>1, QueueAssumption
  <1> QED BY <1>2, <1>3, <1>4

LEMMA EmptyList == <<>> \in Seq(Ids) /\ Places(<<>>) = {} /\ Descending(<<>>)
  BY DEF Places, Descending

(* What Take leaves: the oldest request goes, it was the smallest id, and    *)
(* the others stay in order.                                                 *)
LEMMA TakeFacts ==
  ASSUME NEW s \in Seq(Ids), s # <<>>, Descending(s)
  PROVE  LET t == SubSeq(s, 1, Len(s) - 1)
             last == s[Len(s)]
         IN  /\ t \in Seq(Ids) /\ Descending(t)
             /\ last \in Ids /\ last \in Places(s) /\ last \notin Places(t)
             /\ Places(t) = Places(s) \ {last}
             /\ \A id \in Places(s) : last <= id
  <1> DEFINE n == Len(s)
             t == SubSeq(s, 1, n - 1)
             last == s[n]
  <1>1. n \in Nat \ {0} /\ DOMAIN s = 1 .. n /\ \A i \in 1 .. n : s[i] \in Ids
    BY LenProperties, EmptySeq, ElementOfSeq
  <1>2. /\ t \in Seq(Ids) /\ Len(t) = n - 1 /\ DOMAIN t = 1 .. n - 1
        /\ \A i \in 1 .. n - 1 : t[i] = s[i]
    <2>1. /\ t \in Seq(Ids) /\ Len(t) = IF 1 <= n - 1 THEN n - 1 - 1 + 1 ELSE 0
          /\ \A i \in 1 .. n - 1 - 1 + 1 : t[i] = s[1 + i - 1]
      <3>1. 1 \in Int /\ n - 1 \in Int /\ \A i \in 1 .. n - 1 : s[i] \in Ids
        BY <1>1
      <3> HIDE DEF n
      <3> QED BY <3>1, SubSeqProperties
    <2>2. DOMAIN t = 1 .. Len(t)
      BY <2>1, LenProperties
    <2> QED BY <2>1, <2>2, <1>1
  <1>3. \A i \in 1 .. n - 1 : s[i] > last
    BY <1>1 DEF Descending
  <1>4. Descending(t)
    BY <1>1, <1>2 DEF Descending
  <1>5. last \in Ids /\ last \in Places(s)
    BY <1>1 DEF Places
  <1>6. Places(t) = {s[i] : i \in 1 .. n - 1}
    BY <1>2 DEF Places
  <1>7. Places(s) = {s[i] : i \in 1 .. n - 1} \cup {last}
    BY <1>1 DEF Places
  <1>8. \A id \in {s[i] : i \in 1 .. n - 1} : id > last /\ id \in Int
    BY <1>1, <1>3 DEF Ids
  <1>9. last \in Int
    BY <1>5 DEF Ids
  <1>10. last \notin Places(t)
    BY <1>6, <1>8, <1>9
  <1>11. Places(t) = Places(s) \ {last}
    BY <1>6, <1>7, <1>10
  <1>12. \A id \in Places(s) : last <= id
    BY <1>7, <1>8, <1>9
  <1> QED BY <1>2, <1>4, <1>5, <1>10, <1>11, <1>12


LEMMA InitQueueInv == Init => QueueInv
  <1> SUFFICES ASSUME Init PROVE QueueInv
    OBVIOUS
  <1>1. TypeOK
    <2>1. 0 \in 0 .. MaxRequests /\ 0 \in 0 .. ExitMax + 1
      BY QueueAssumption
    <2> QED BY <2>1, EmptyList DEF Init, TypeOK
  <1>2. Places(in) = {} /\ Descending(in)
    BY DEF Init, Places, Descending
  <1> QED BY <1>1, <1>2
          DEF Init, QueueInv, OwnedOnce, StandbyCoupled, GivenOut, WorkerHolds,
              LeavesAfterStop

LEMMA DescendingDistinct ==
  ASSUME NEW s \in Seq(Ids), Descending(s), NEW i \in DOMAIN s, NEW j \in DOMAIN s,
         s[i] = s[j]
  PROVE  i = j
  <1>1. DOMAIN s = 1 .. Len(s) /\ Len(s) \in Nat /\ s[i] \in Int
    <2>1. s[i] \in Ids /\ DOMAIN s = 1 .. Len(s) /\ Len(s) \in Nat
      BY LenProperties, ElementOfSeq
    <2> QED BY <2>1 DEF Ids
  <1> QED BY <1>1 DEF Descending

(* The part of the invariant that is about where requests are.               *)
Located == OwnedOnce /\ Descending(in) /\ GivenOut /\ WorkerHolds

(* A step that moves no request keeps them where they are.                   *)
LEMMA NothingMoves ==
  ASSUME Located, UNCHANGED <<next_id, in, out, returned, request>>,
         request # 0 <=> worker' \in {"fetch", "put"}
  PROVE  Located'
  BY DEF Located, OwnedOnce, InOnePlace, Descending, GivenOut, WorkerHolds, Places

LEMMA AddType ==
  ASSUME TypeOK, NEW t \in Threads, Add(t)
  PROVE  TypeOK'
  <1>1. next_id + 1 \in Ids /\ next_id + 1 \in 0 .. MaxRequests
    <2>1. next_id \in 0 .. MaxRequests /\ next_id < MaxRequests
      BY DEF TypeOK, Add
    <2> QED BY <2>1, QueueAssumption DEF Ids
  <1>2. in' \in Seq(Ids)
    BY <1>1, PushFacts DEF TypeOK, Add
  <1> QED BY <1>1, <1>2 DEF TypeOK, Add, SignalIn, Goto

LEMMA ThreadType ==
  ASSUME TypeOK, NEW t \in Threads, ThreadStep(t) \/ SpuriousWake(t)
  PROVE  TypeOK'
  <1>1. CASE Loop(t)
    BY <1>1 DEF TypeOK, Loop, Goto, list
  <1>2. CASE LeaveStandby(t)
    BY <1>2 DEF TypeOK, LeaveStandby, Goto, list
  <1>3. CASE Add(t)
    BY <1>3, AddType
  <1>4. CASE GetFinished(t)
    BY <1>4 DEF TypeOK, GetFinished, Return, Goto
  <1>5. CASE GetNothing(t)
    BY <1>5 DEF TypeOK, GetNothing, Return, Goto, list
  <1>6. CASE WaitOut(t)
    BY <1>6 DEF TypeOK, WaitOut, Goto, list
  <1>7. CASE EndRound(t)
    <2>1. error_counter' \in [Threads -> 0 .. ExitMax + 1]
      <3>1. error_counter \in [Threads -> 0 .. ExitMax + 1]
        BY DEF TypeOK
      <3>2. 0 \in 0 .. ExitMax + 1
            /\ (error_counter[t] <= ExitMax => error_counter[t] + 1 \in 0 .. ExitMax + 1)
        BY <3>1, QueueAssumption
      <3> QED BY <1>7, <3>1, <3>2 DEF EndRound
    <2> QED BY <1>7, <2>1 DEF TypeOK, EndRound, Goto, list
  <1>8. CASE SpuriousWake(t)
    BY <1>8 DEF TypeOK, SpuriousWake, Goto, list
  <1> QED BY <1>1, <1>2, <1>3, <1>4, <1>5, <1>6, <1>7, <1>8 DEF ThreadStep

LEMMA BroadcastType ==
  ASSUME TypeOK, BroadcastOut(pc)
  PROVE  /\ pc' \in [Threads -> {"top", "standby", "call", "scan", "wait", "end", "done"}]
         /\ \A t \in Threads : pc'[t] # "wait"
  BY DEF TypeOK, BroadcastOut

LEMMA WorkerType ==
  ASSUME TypeOK, Descending(in), WorkerHolds, WorkerStep
  PROVE  TypeOK'
  <1>1. ASSUME in # <<>>, Take
        PROVE  /\ in' \in Seq(Ids) /\ request' \in 0 .. MaxRequests
               /\ worker' = "fetch"
    <2>1. in \in Seq(Ids)
      BY DEF TypeOK
    <2>2. in' \in Seq(Ids) /\ request' \in Ids /\ worker' = "fetch"
      BY <1>1, <2>1, TakeFacts DEF Take
    <2> QED BY <2>2, QueueAssumption DEF Ids
  <1>2. CASE Dequeue
    BY <1>1, <1>2 DEF TypeOK, Dequeue, thread
  <1>3. CASE WakeUp
    BY <1>1, <1>3 DEF TypeOK, WakeUp, thread
  <1>4. CASE Fetch
    BY <1>4 DEF TypeOK, Fetch, thread, list
  <1>5. CASE PutBack
    <2>1. request \in Ids
      <3>1. request \in 0 .. MaxRequests /\ request # 0
        BY <1>5 DEF TypeOK, PutBack, WorkerHolds
      <3> QED BY <3>1, QueueAssumption DEF Ids
    <2>2. request' \in 0 .. MaxRequests
      BY <1>5, QueueAssumption DEF PutBack
    <2> QED BY <1>5, <2>1, <2>2, BroadcastType DEF TypeOK, PutBack
  <1>6. CASE Quit
    BY <1>6 DEF TypeOK, Quit, thread, list
  <1>7. CASE Cancel
    <2>1. Places(in) \subseteq Ids
      BY PlacesInIds DEF TypeOK
    <2>2. in' \in Seq(Ids)
      BY <1>7, EmptyList DEF Cancel
    <2> QED BY <1>7, <2>1, <2>2, BroadcastType DEF TypeOK, Cancel
  <1>8. CASE WorkerEnds
    BY <1>8 DEF TypeOK, WorkerEnds, thread
  <1> QED BY <1>2, <1>3, <1>4, <1>5, <1>6, <1>7, <1>8 DEF WorkerStep

LEMMA MainType ==
  ASSUME TypeOK, MainStep \/ Kill
  PROVE  TypeOK'
  <1>1. CASE Kill
    BY <1>1 DEF TypeOK, Kill, thread, list
  <1>2. CASE SignalWorker
    BY <1>2 DEF TypeOK, SignalWorker, SignalIn, thread, list
  <1>3. CASE JoinWorker
    BY <1>3, BroadcastType DEF TypeOK, JoinWorker, list
  <1>4. CASE Destroy
    <2>1. Places(in) \subseteq Ids
      BY PlacesInIds DEF TypeOK
    <2>2. in' \in Seq(Ids)
      BY <1>4, EmptyList DEF Destroy
    <2> QED BY <1>4, <2>1, <2>2 DEF TypeOK, Destroy, thread
  <1> QED BY <1>1, <1>2, <1>3, <1>4 DEF MainStep

-----------------------------------------------------------------------------
(* Where requests are, action by action *)

LEMMA AddLocated ==
  ASSUME TypeOK, Located, NEW t \in Threads, Add(t)
  PROVE  Located'
  <1> DEFINE id == next_id + 1
  <1>1. next_id \in Nat /\ id \in Ids
    <2>1. next_id \in 0 .. MaxRequests /\ next_id < MaxRequests
      BY DEF TypeOK, Add
    <2> QED BY <2>1, QueueAssumption DEF Ids
  <1>2. /\ in \in Seq(Ids)
        /\ Places(in) \cup out \cup returned \cup {request} \subseteq Nat
    BY TypeFacts DEF TypeOK
  <1>3. \A other \in Places(in) \cup out \cup returned \cup {request} :
          other <= next_id
    BY DEF Located, GivenOut
  <1>4. /\ in' = <<id>> \o in /\ next_id' = id
        /\ UNCHANGED <<out, returned, request>>
        /\ worker' \in {"fetch", "put"} <=> worker \in {"fetch", "put"}
    BY DEF Add, SignalIn
  <1>5. \A other \in Places(in) \cup out \cup returned \cup {request} : other < id
    BY <1>1, <1>2, <1>3
  <1>6. Places(in') = Places(in) \cup {id} /\ Descending(in')
    BY <1>1, <1>2, <1>4, <1>5, PushFacts DEF Located
  <1>7. GivenOut'
    <2>1. \A other \in Places(in) \cup out \cup returned \cup {request} \cup {id} :
            other <= id
      BY <1>1, <1>2, <1>5
    <2> QED BY <1>4, <1>6, <2>1 DEF GivenOut
  <1>8. OwnedOnce'
    <2>1. \A i, j \in DOMAIN in' : in'[i] = in'[j] => i = j
      BY <1>1, <1>2, <1>4, <1>6, PushFacts, DescendingDistinct
    <2>2. id \notin Places(in) \cup out \cup returned \cup {request}
      BY <1>5, <1>1
    <2>3. \A other \in 1 .. id : other = id \/ other \in 1 .. next_id
      BY <1>1
    <2>4. ASSUME NEW other \in 1 .. id PROVE InOnePlace(other)'
      <3>1. CASE other = id
        BY <1>4, <1>6, <2>2, <3>1 DEF InOnePlace
      <3>2. CASE other # id
        BY <1>4, <1>6, <2>3, <3>2 DEF InOnePlace, Located, OwnedOnce
      <3> QED BY <3>1, <3>2
    <2> QED BY <1>4, <2>1, <2>4 DEF OwnedOnce, InOnePlace
  <1>9. WorkerHolds'
    BY <1>4 DEF WorkerHolds, Located
  <1> QED BY <1>6, <1>7, <1>8, <1>9 DEF Located

LEMMA TakeLocated ==
  ASSUME TypeOK, Located, worker \notin {"fetch", "put"}, in # <<>>, Take,
         UNCHANGED <<next_id, out, returned>>
  PROVE  Located'
  <1> DEFINE last == in[Len(in)]
  <1>1. in \in Seq(Ids) /\ Descending(in)
    BY DEF TypeOK, Located
  <1>2. /\ request' = last /\ worker' = "fetch"
        /\ in' \in Seq(Ids) /\ Descending(in') /\ last \in Ids
        /\ last \in Places(in) /\ Places(in') = Places(in) \ {last}
    BY <1>1, TakeFacts DEF Take
  <1>3. request = 0
    BY DEF Located, WorkerHolds
  <1>4. OwnedOnce'
    <2>1. \A i, j \in DOMAIN in' : in'[i] = in'[j] => i = j
      BY <1>2, DescendingDistinct
    <2>2. ASSUME NEW id \in 1 .. next_id PROVE InOnePlace(id)'
      <3>1. id # request
        BY <1>3
      <3>2. InOnePlace(id)
        BY DEF Located, OwnedOnce, InOnePlace
      <3> QED BY <1>2, <3>1, <3>2 DEF InOnePlace
    <2> QED BY <2>1, <2>2 DEF OwnedOnce, InOnePlace
  <1>5. GivenOut'
    BY <1>2 DEF GivenOut, Located
  <1>6. WorkerHolds'
    <2>1. request' # 0
      BY <1>2 DEF Ids
    <2> QED BY <1>2, <2>1 DEF WorkerHolds
  <1> QED BY <1>2, <1>4, <1>5, <1>6 DEF Located

LEMMA PutBackLocated ==
  ASSUME TypeOK, Located, PutBack
  PROVE  Located'
  <1>1. /\ in' = in /\ next_id' = next_id /\ returned' = returned
        /\ out' = out \cup {request} /\ request' = 0 /\ worker' = "top"
    BY DEF PutBack
  <1>2. Places(in') = Places(in)
    BY <1>1
  <1>3. \A id \in 1 .. next_id : id # 0
    OBVIOUS
  <1>4. ASSUME NEW id \in 1 .. next_id PROVE InOnePlace(id)'
    <2>1. InOnePlace(id)
      BY DEF Located, OwnedOnce, InOnePlace
    <2> QED BY <1>1, <1>3, <2>1 DEF InOnePlace
  <1>5. OwnedOnce'
    BY <1>1, <1>4 DEF Located, OwnedOnce, InOnePlace
  <1>6. GivenOut'
    <2>1. 0 <= next_id
      BY TypeFacts
    <2> QED BY <1>1, <2>1 DEF Located, GivenOut
  <1> QED BY <1>1, <1>5, <1>6 DEF Located, WorkerHolds, Descending

LEMMA GetFinishedLocated ==
  ASSUME TypeOK, Located, NEW t \in Threads, GetFinished(t)
  PROVE  Located'
  <1>1. /\ wants[t] \in out /\ out' = out \ {wants[t]}
        /\ returned' = returned \cup {wants[t]}
        /\ UNCHANGED <<in, next_id, request, worker>>
    BY DEF GetFinished
  <1>2. ASSUME NEW id \in 1 .. next_id PROVE InOnePlace(id)'
    <2>1. InOnePlace(id)
      BY DEF Located, OwnedOnce, InOnePlace
    <2> QED BY <1>1, <2>1 DEF InOnePlace
  <1>3. OwnedOnce'
    BY <1>1, <1>2 DEF Located, OwnedOnce, InOnePlace
  <1>4. GivenOut'
    BY <1>1 DEF Located, GivenOut
  <1> QED BY <1>1, <1>3, <1>4 DEF Located, WorkerHolds, Descending

LEMMA CancelLocated ==
  ASSUME TypeOK, Located, Cancel
  PROVE  Located'
  <1>1. /\ in' = <<>> /\ out' = out \cup Places(in) /\ worker' = "cancelled"
        /\ worker = "quit" /\ UNCHANGED <<next_id, request, returned>>
    BY DEF Cancel
  <1>2. Places(in') = {} /\ Descending(in')
    BY <1>1, EmptyList
  <1>3. ASSUME NEW id \in 1 .. next_id PROVE InOnePlace(id)'
    <2>1. InOnePlace(id)
      BY DEF Located, OwnedOnce, InOnePlace
    <2> QED BY <1>1, <1>2, <2>1 DEF InOnePlace
  <1>4. OwnedOnce'
    BY <1>1, <1>3 DEF OwnedOnce, InOnePlace
  <1>5. GivenOut'
    BY <1>1, <1>2 DEF Located, GivenOut
  <1> QED BY <1>1, <1>2, <1>4, <1>5 DEF Located, WorkerHolds

LEMMA DestroyLocated ==
  ASSUME TypeOK, Located, Destroy
  PROVE  Located'
  <1>1. /\ in' = <<>> /\ out' = {} /\ returned' = returned \cup out \cup Places(in)
        /\ UNCHANGED <<next_id, request, worker>>
    BY DEF Destroy
  <1>2. Places(in') = {} /\ Descending(in')
    BY <1>1, EmptyList
  <1>3. ASSUME NEW id \in 1 .. next_id PROVE InOnePlace(id)'
    <2>1. InOnePlace(id)
      BY DEF Located, OwnedOnce, InOnePlace
    <2> QED BY <1>1, <1>2, <2>1 DEF InOnePlace
  <1>4. OwnedOnce'
    BY <1>1, <1>3 DEF OwnedOnce, InOnePlace
  <1>5. GivenOut'
    BY <1>1, <1>2 DEF Located, GivenOut
  <1> QED BY <1>1, <1>2, <1>4, <1>5 DEF Located, WorkerHolds

-----------------------------------------------------------------------------
(* The invariant *)

LEMMA ThreadInv ==
  ASSUME QueueInv, NEW t \in Threads, ThreadStep(t) \/ SpuriousWake(t)
  PROVE  QueueInv'
  <1> USE DEF QueueInv
  <1>1. TypeOK'
    BY ThreadType
  <1>2. Located
    BY DEF Located
  <1>3. StandbyCoupled'
    BY DEF StandbyCoupled, ThreadStep, Loop, LeaveStandby, Add, GetFinished,
           GetNothing, WaitOut, EndRound, SpuriousWake
  <1>4. LeavesAfterStop'
    <2>1. /\ run' = run
          /\ worker' \in {"quit", "cancelled", "done"} => worker' = worker
          /\ \A u \in Threads : pc'[u] = "wait" => pc[u] = "wait" \/ run
      <3>1. CASE Add(t)
        BY <3>1 DEF TypeOK, Add, SignalIn, Goto
      <3>2. CASE WaitOut(t)
        BY <3>2 DEF TypeOK, WaitOut, Goto
      <3>3. CASE GetFinished(t) \/ GetNothing(t)
        BY <3>3 DEF TypeOK, GetFinished, GetNothing, Return, Goto
      <3>4. CASE Loop(t) \/ LeaveStandby(t) \/ EndRound(t) \/ SpuriousWake(t)
        BY <3>4 DEF TypeOK, Loop, LeaveStandby, EndRound, SpuriousWake, Goto
      <3> QED BY <3>1, <3>2, <3>3, <3>4 DEF ThreadStep
    <2> QED BY <2>1 DEF LeavesAfterStop
  <1>5. Located'
    <2>1. CASE Add(t)
      BY <1>2, <2>1, AddLocated
    <2>2. CASE GetFinished(t)
      BY <1>2, <2>2, GetFinishedLocated
    <2>3. CASE \/ Loop(t) \/ LeaveStandby(t) \/ GetNothing(t) \/ WaitOut(t)
               \/ EndRound(t) \/ SpuriousWake(t)
      <3>1. UNCHANGED <<next_id, in, out, returned, request, worker>>
        BY <2>3 DEF Loop, LeaveStandby, GetNothing, WaitOut, EndRound,
                    SpuriousWake, list
      <3> QED BY <1>2, <3>1, NothingMoves DEF WorkerHolds
    <2> QED BY <2>1, <2>2, <2>3 DEF ThreadStep
  <1> QED BY <1>1, <1>3, <1>4, <1>5 DEF Located

LEMMA WorkerInv ==
  ASSUME QueueInv, WorkerStep
  PROVE  QueueInv'
  <1> USE DEF QueueInv
  <1>1. TypeOK'
    BY WorkerType
  <1>2. Located
    BY DEF Located
  <1>3. StandbyCoupled'
    <2>1. CASE Fetch
      BY <2>1 DEF StandbyCoupled, Fetch, TypeOK
    <2>2. CASE ~Fetch
      BY <2>2 DEF StandbyCoupled, WorkerStep, Dequeue, WakeUp, PutBack, Quit,
                  Cancel, WorkerEnds
    <2> QED BY <2>1, <2>2
  <1>4. LeavesAfterStop'
    <2>1. CASE PutBack \/ Cancel
      BY <2>1, BroadcastType DEF LeavesAfterStop, PutBack, Cancel
    <2>2. CASE Dequeue \/ WakeUp
      BY <2>2 DEF LeavesAfterStop, Dequeue, WakeUp, Take, thread
    <2>3. CASE Fetch \/ Quit \/ WorkerEnds
      BY <2>3 DEF LeavesAfterStop, Fetch, Quit, WorkerEnds, thread
    <2> QED BY <2>1, <2>2, <2>3 DEF WorkerStep
  <1>5. Located'
    <2>1. CASE in # <<>> /\ Take /\ (Dequeue \/ WakeUp)
      <3>1. worker \notin {"fetch", "put"} /\ UNCHANGED <<next_id, out, returned>>
        BY <2>1 DEF Dequeue, WakeUp
      <3> QED BY <1>2, <2>1, <3>1, TakeLocated
    <2>2. CASE ~(in # <<>> /\ Take) /\ (Dequeue \/ WakeUp)
      <3>1. /\ UNCHANGED <<next_id, in, out, returned, request>>
            /\ worker \notin {"fetch", "put"} /\ worker' \notin {"fetch", "put"}
        BY <2>2 DEF Dequeue, WakeUp
      <3> QED BY <1>2, <3>1, NothingMoves DEF WorkerHolds
    <2>3. CASE PutBack
      BY <1>2, <2>3, PutBackLocated
    <2>4. CASE Cancel
      BY <1>2, <2>4, CancelLocated
    <2>5. CASE Fetch \/ Quit \/ WorkerEnds
      <3>1. /\ UNCHANGED <<next_id, in, out, returned, request>>
            /\ worker' \in {"fetch", "put"} <=> worker \in {"fetch", "put"}
        BY <2>5 DEF Fetch, Quit, WorkerEnds, list
      <3> QED BY <1>2, <3>1, NothingMoves DEF WorkerHolds
    <2> QED BY <2>1, <2>2, <2>3, <2>4, <2>5 DEF WorkerStep
  <1> QED BY <1>1, <1>3, <1>4, <1>5 DEF Located

LEMMA MainInv ==
  ASSUME QueueInv, MainStep \/ Kill
  PROVE  QueueInv'
  <1> USE DEF QueueInv
  <1>1. TypeOK'
    BY MainType
  <1>2. Located
    BY DEF Located
  <1>3. StandbyCoupled'
    BY DEF StandbyCoupled, MainStep, SignalWorker, JoinWorker, Destroy, Kill
  <1>4. LeavesAfterStop'
    <2>1. CASE JoinWorker
      BY <2>1, BroadcastType DEF LeavesAfterStop, JoinWorker
    <2>2. CASE SignalWorker
      BY <2>2 DEF LeavesAfterStop, SignalWorker, SignalIn, thread
    <2>3. CASE Destroy
      BY <2>3 DEF LeavesAfterStop, Destroy, thread
    <2>4. CASE Kill
      BY <2>4 DEF LeavesAfterStop, Kill, thread
    <2> QED BY <2>1, <2>2, <2>3, <2>4 DEF MainStep
  <1>5. Located'
    <2>1. CASE Destroy
      BY <1>2, <2>1, DestroyLocated
    <2>2. CASE SignalWorker \/ JoinWorker \/ Kill
      <3>1. /\ UNCHANGED <<next_id, in, out, returned, request>>
            /\ worker' \in {"fetch", "put"} <=> worker \in {"fetch", "put"}
        BY <2>2 DEF SignalWorker, SignalIn, JoinWorker, Kill, list
      <3> QED BY <1>2, <3>1, NothingMoves DEF WorkerHolds
    <2> QED BY <2>1, <2>2 DEF MainStep
  <1> QED BY <1>1, <1>3, <1>4, <1>5 DEF Located

LEMMA StutterInv == ASSUME QueueInv, UNCHANGED vars PROVE QueueInv'
  <1>1. TypeOK'
    BY DEF QueueInv, TypeOK, vars, list, thread
  <1>2. StandbyCoupled' /\ LeavesAfterStop'
    BY DEF QueueInv, StandbyCoupled, LeavesAfterStop, vars, thread
  <1>3. Located'
    BY NothingMoves DEF QueueInv, Located, WorkerHolds, vars, list
  <1> QED BY <1>1, <1>2, <1>3 DEF QueueInv, Located

(* The invariant of the queue holds in every state, whatever the threads, the *)
(* worker, the main thread and Bexio do (bx_net.c, main.c).                   *)
THEOREM QueueInvariant == Spec => []QueueInv
  <1>1. QueueInv /\ [Next]_vars => QueueInv'
    BY ThreadInv, WorkerInv, MainInv, StutterInv DEF Next
  <1> QED BY <1>1, InitQueueInv, PTL DEF Spec

(* Every variable of the queue keeps its type; error counters stop one past   *)
(* the limit (thread_handle_error).                                           *)
THEOREM QueueTypeCorrect == Spec => []TypeOK
  <1>1. QueueInv => TypeOK
    BY DEF QueueInv
  <1> QED BY <1>1, QueueInvariant, PTL

(* No request is lost, held twice or freed twice, in whatever order threads,  *)
(* worker and bx_net_request_list_destroy come.                               *)
THEOREM RequestsOwnedOnce == Spec => []OwnedOnce
  <1>1. QueueInv => OwnedOnce
    BY DEF QueueInv
  <1> QED BY <1>1, QueueInvariant, PTL

(* The threads' standby flag is never set without the worker's own.           *)
THEOREM StandbyFlagsCoupled == Spec => []StandbyCoupled
  <1>1. QueueInv => StandbyCoupled
    BY DEF QueueInv
  <1> QED BY <1>1, QueueInvariant, PTL

(* No thread sleeps on out_cond once the worker is gone.                      *)
THEOREM NobodySleepsAfterWorker == Spec => []NoSleeperLeft
  <1>1. QueueInv => NoSleeperLeft
    BY DEF QueueInv, LeavesAfterStop, NoSleeperLeft
  <1> QED BY <1>1, QueueInvariant, PTL

(* The worker takes the oldest request of the list.                           *)
THEOREM OldestFirst == Spec => TakenInOrder
  <1>1. ASSUME QueueInv, Next, worker' = "fetch", worker # "fetch"
        PROVE  \A id \in Places(in) : request' <= id
    <2>1. Take /\ in # <<>>
      BY <1>1 DEF Next, ThreadStep, WorkerStep, MainStep, Loop, LeaveStandby, Add,
                  SignalIn, GetFinished, GetNothing, WaitOut, EndRound,
                  SpuriousWake, Dequeue, WakeUp, Fetch, PutBack, Quit, Cancel,
                  WorkerEnds, SignalWorker, JoinWorker, Destroy, Kill
    <2>2. in \in Seq(Ids) /\ Descending(in)
      BY <1>1 DEF QueueInv, TypeOK
    <2> QED BY <2>1, <2>2, TakeFacts DEF Take
  <1>2. QueueInv /\ [Next]_vars =>
          [worker' = "fetch" /\ worker # "fetch" =>
             \A id \in Places(in) : request' <= id]_vars
    BY <1>1
  <1> QED BY <1>2, QueueInvariant, PTL DEF Spec, TakenInOrder
=============================================================================
