---------------------------- MODULE RequestQueue ----------------------------
(***************************************************************************)
(* The request queue of bx_net.c: data threads put a request on the `in`   *)
(* list and sleep on out_cond, the one worker takes the oldest request,    *)
(* asks Bexio, and puts the request on the `out` list, where its thread    *)
(* finds it by id.  `standby` keeps data threads from starting a round     *)
(* while Bexio is overloaded.  `run` is cleared when the process is told   *)
(* to stop (main.c).                                                       *)
(*                                                                         *)
(* A step that takes a mutex and releases it is one action; in_mutex is a  *)
(* variable because the worker leaves with it held.  What a request asks   *)
(* and what its answer holds are left out, and so is why a round fails: an *)
(* answer, a query or a lost connection (thread_handle_error).             *)
(***************************************************************************)
EXTENDS Integers, Sequences

CONSTANTS Threads,      \* the data threads
          ExitMax,      \* BXILL_THREAD_EXIT_MAX_COUNT
          MaxRequests   \* bound on the requests the threads make

ASSUME QueueAssumption == ExitMax \in Nat /\ MaxRequests \in Nat

VARIABLES
  run, standby, next_id, in, out, in_mutex,  \* BXNetRequestList
  worker,         \* where the worker is
  request,        \* the id it holds, 0 for none
  local_standby,  \* its own standby flag
  pc,             \* per thread, where it is
  wants,          \* per thread, the id it waits for
  error_counter,  \* per thread
  main,           \* where the main thread is
  returned        \* ids given back to their thread, or freed at the end

list == <<next_id, in, out, in_mutex>>
thread == <<pc, wants, error_counter>>
vars == <<run, standby, list, worker, request, local_standby, thread, main,
          returned>>

Ids == 1 .. MaxRequests
Places(s) == {s[i] : i \in DOMAIN s}

Init ==
  /\ run = TRUE /\ standby = FALSE
  /\ next_id = 0 /\ in = <<>> /\ out = {} /\ in_mutex = "free"
  /\ worker = "top" /\ request = 0 /\ local_standby = FALSE
  /\ pc = [t \in Threads |-> "top"] /\ wants = [t \in Threads |-> 0]
  /\ error_counter = [t \in Threads |-> 0]
  /\ main = "pause" /\ returned = {}

(* pthread_cond_signal(in_cond): only the worker waits for it. *)
SignalIn == worker' = IF worker = "wait" THEN "woken" ELSE worker

(* Mutant of BroadcastOut: one sleeper is woken instead of all. *)
SignalOut(from) ==
  IF \E t \in Threads : from[t] = "wait"
  THEN \E t \in Threads : from[t] = "wait" /\ pc' = [from EXCEPT ![t] = "scan"]
  ELSE pc' = from

(* pthread_cond_broadcast(out_cond): every sleeping thread looks again. *)
BroadcastOut(from) ==
  pc' = [t \in Threads |-> IF from[t] = "wait" THEN "scan" ELSE from[t]]

-----------------------------------------------------------------------------
(* A data thread *)

Goto(t, where) == pc' = [pc EXCEPT ![t] = where]

(* The loop condition, then the inner loop that sleeps through a standby. *)
Loop(t) ==
  /\ pc[t] = "top"
  /\ Goto(t, IF run THEN "standby" ELSE "done")
  /\ UNCHANGED <<run, standby, list, worker, request, local_standby, wants,
                 error_counter, main, returned>>

LeaveStandby(t) ==
  /\ pc[t] = "standby" /\ ~standby
  /\ Goto(t, "call")
  /\ UNCHANGED <<run, standby, list, worker, request, local_standby, wants,
                 error_counter, main, returned>>

(* bx_net_request_list_add: the newest request is the first of the list. *)
Add(t) ==
  /\ pc[t] = "call" /\ next_id < MaxRequests /\ in_mutex = "free"
  /\ next_id' = next_id + 1
  /\ in' = <<next_id + 1>> \o in
  /\ wants' = [wants EXCEPT ![t] = next_id + 1]
  /\ SignalIn
  /\ Goto(t, "scan")
  /\ UNCHANGED <<run, standby, out, in_mutex, request, local_standby,
                 error_counter, main, returned>>

(* The call is over: another request of the round, or the end of it. *)
Return(t) == \E where \in {"call", "end"} : Goto(t, where)

(* Mutant of GetFinished: the request stays on the list. *)
GetFinishedKeeps(t) ==
  /\ pc[t] = "scan" /\ wants[t] \in out
  /\ returned' = returned \cup {wants[t]}
  /\ Return(t)
  /\ UNCHANGED <<run, standby, list, worker, request, local_standby, wants,
                 error_counter, main>>

(* bx_net_request_list_get_finished finds the request and unlinks it;        *)
(* bx_do_request frees it when it was cancelled, its caller otherwise.       *)
GetFinished(t) ==
  /\ pc[t] = "scan" /\ wants[t] \in out
  /\ out' = out \ {wants[t]} /\ returned' = returned \cup {wants[t]}
  /\ Return(t)
  /\ UNCHANGED <<run, standby, next_id, in, in_mutex, worker, request,
                 local_standby, wants, error_counter, main>>

(* The process stops: no answer. *)
GetNothing(t) ==
  /\ pc[t] = "scan" /\ wants[t] \notin out /\ ~run
  /\ Return(t)
  /\ UNCHANGED <<run, standby, list, worker, request, local_standby, wants,
                 error_counter, main, returned>>

(* pthread_cond_wait on out_cond, which may also wake for no reason. *)
WaitOut(t) ==
  /\ pc[t] = "scan" /\ wants[t] \notin out /\ run
  /\ Goto(t, "wait")
  /\ UNCHANGED <<run, standby, list, worker, request, local_standby, wants,
                 error_counter, main, returned>>

SpuriousWake(t) ==
  /\ pc[t] = "wait" /\ Goto(t, "scan")
  /\ UNCHANGED <<run, standby, list, worker, request, local_standby, wants,
                 error_counter, main, returned>>

(* Mutant of EndRound: errors are counted without end. *)
EndRoundNeverExits(t) ==
  /\ pc[t] = "end"
  /\ \E ok \in BOOLEAN :
       error_counter' = [error_counter EXCEPT ![t] = IF ok THEN 0 ELSE @ + 1]
  /\ Goto(t, "top")
  /\ UNCHANGED <<run, standby, list, worker, request, local_standby, wants,
                 main, returned>>

(* thread_handle_error at the end of a round: nothing failed or the lost      *)
(* connection is back, or the error is counted, or it is one too many.        *)
EndRound(t) ==
  /\ pc[t] = "end"
  /\ \/ /\ error_counter' = [error_counter EXCEPT ![t] = 0]
        /\ Goto(t, "top")
     \/ /\ error_counter[t] <= ExitMax
        /\ error_counter' = [error_counter EXCEPT ![t] = @ + 1]
        /\ Goto(t, "top")
     \/ /\ error_counter[t] > ExitMax
        /\ Goto(t, "done") /\ UNCHANGED error_counter
  /\ UNCHANGED <<run, standby, list, worker, request, local_standby, wants,
                 main, returned>>

-----------------------------------------------------------------------------
(* The worker *)

(* Mutant of Take: the newest request is served first. *)
TakeNewest ==
  /\ request' = Head(in) /\ in' = Tail(in)
  /\ worker' = "fetch"

(* The walk to the last element of `in`. *)
Take ==
  /\ request' = in[Len(in)] /\ in' = SubSeq(in, 1, Len(in) - 1)
  /\ worker' = "fetch"

(* The loop condition, then the list under in_mutex.  Between the two no      *)
(* stop is noticed; main sleeps 5 s after clearing run and before it signals. *)
Dequeue ==
  /\ worker = "top" /\ run /\ in_mutex = "free"
  /\ IF in # <<>> THEN Take ELSE worker' = "wait" /\ UNCHANGED <<request,
                                                                 in>>
  /\ UNCHANGED <<run, standby, next_id, out, in_mutex, local_standby, thread,
                 main, returned>>

(* pthread_cond_wait returns with in_mutex held, also when run is cleared. *)
WakeUp ==
  /\ worker = "woken" /\ in_mutex = "free"
  /\ IF ~run THEN worker' = "quit" /\ in_mutex' = "worker" /\ UNCHANGED <<
                                                                          request,
                                                                          in>>
     ELSE /\ UNCHANGED in_mutex
          /\ IF in # <<>> THEN Take
             ELSE worker' = "wait" /\ UNCHANGED <<request, in>>
  /\ UNCHANGED <<run, standby, next_id, out, local_standby, thread, main,
                 returned>>

(* Mutant of Fetch: a good answer ends the standby of the worker alone. *)
FetchForgetsThreads ==
  /\ worker = "fetch"
  /\ \E got \in {"ok", "busy", "lost"} :
       /\ local_standby' = (got # "ok")
       /\ standby' = (standby \/ (got = "busy" /\ ~local_standby))
  /\ worker' = "put"
  /\ UNCHANGED <<run, list, request, thread, main, returned>>

(* bx_fetch, and what its answer makes of the two standby flags: "busy" is    *)
(* 429, 500 or 503, "lost" no answer at all.                                  *)
Fetch ==
  /\ worker = "fetch"
  /\ \E got \in {"ok", "busy", "lost"} :
       /\ local_standby' = (got # "ok")
       /\ standby' = CASE got = "lost" -> standby
                       [] got = "busy" -> standby \/ ~local_standby
                       [] got = "ok" -> standby /\ ~local_standby
  /\ worker' = "put"
  /\ UNCHANGED <<run, list, request, thread, main, returned>>

(* put_back_into_list, then the sleep of the rate limit or of the standby. *)
PutBack ==
  /\ worker = "put"
  /\ out' = out \cup {request} /\ request' = 0
  /\ BroadcastOut(pc)
  /\ worker' = "top"
  /\ UNCHANGED <<run, standby, next_id, in, in_mutex, local_standby, wants,
                 error_counter, main, returned>>

Quit ==
  /\ worker = "top" /\ ~run
  /\ worker' = "quit"
  /\ UNCHANGED <<run, standby, list, request, local_standby, thread, main,
                 returned>>

(* Mutant of Cancel: nobody is told. *)
CancelSilently ==
  /\ worker = "quit" /\ in_mutex = "free"
  /\ in_mutex' = "worker"
  /\ in' = <<>> /\ out' = out \cup Places(in)
  /\ worker' = "cancelled"
  /\ UNCHANGED <<run, standby, next_id, request, local_standby, thread, main,
                 returned>>

(* bx_net_request_list_cancel takes in_mutex, and does not release it. *)
Cancel ==
  /\ worker = "quit" /\ in_mutex = "free"
  /\ in_mutex' = "worker"
  /\ in' = <<>> /\ out' = out \cup Places(in)
  /\ BroadcastOut(pc)
  /\ worker' = "cancelled"
  /\ UNCHANGED <<run, standby, next_id, request, local_standby, wants,
                 error_counter, main, returned>>

WorkerEnds ==
  /\ worker = "cancelled"
  /\ in_mutex' = "free" /\ worker' = "done"
  /\ UNCHANGED <<run, standby, next_id, in, out, request, local_standby,
                 thread, main, returned>>

-----------------------------------------------------------------------------
(* The main thread, once SIGTERM or SIGINT ended its pause *)

Kill ==
  /\ main = "pause"
  /\ run' = FALSE /\ main' = "sleep"
  /\ UNCHANGED <<standby, list, worker, request, local_standby, thread,
                 returned>>

SignalWorker ==
  /\ main = "sleep"
  /\ SignalIn /\ main' = "join"
  /\ UNCHANGED <<run, standby, list, request, local_standby, thread,
                 returned>>

JoinWorker ==
  /\ main = "join" /\ worker = "done"
  /\ BroadcastOut(pc) /\ main' = "join threads"
  /\ UNCHANGED <<run, standby, list, worker, request, local_standby, wants,
                 error_counter, returned>>

(* bx_net_request_list_destroy frees what is left on both lists. *)
Destroy ==
  /\ main = "join threads" /\ \A t \in Threads : pc[t] = "done"
  /\ returned' = returned \cup out \cup Places(in)
  /\ in' = <<>> /\ out' = {} /\ main' = "end"
  /\ UNCHANGED <<run, standby, next_id, in_mutex, worker, request,
                 local_standby, thread>>

-----------------------------------------------------------------------------
ThreadStep(t) ==
  \/ Loop(t) \/ LeaveStandby(t) \/ Add(t) \/ GetFinished(t) \/ GetNothing(t)
  \/ WaitOut(t) \/ EndRound(t)

WorkerStep ==
  Dequeue \/ WakeUp \/ Fetch \/ PutBack \/ Quit \/ Cancel \/ WorkerEnds

MainStep == SignalWorker \/ JoinWorker \/ Destroy

Next ==
  \/ \E t \in Threads : ThreadStep(t) \/ SpuriousWake(t)
  \/ WorkerStep \/ MainStep \/ Kill

Spec == Init /\ [][Next]_vars

(* Every thread is scheduled.  Nothing is assumed of signals sent to the      *)
(* process, of Bexio's answers or of spurious wake-ups.                       *)
FairSpec ==
  /\ Spec /\ WF_vars(WorkerStep) /\ WF_vars(MainStep)
  /\ \A t \in Threads : WF_vars(ThreadStep(t))

-----------------------------------------------------------------------------
(* Properties *)

TypeOK ==
  /\ run \in BOOLEAN /\ standby \in BOOLEAN /\ local_standby \in BOOLEAN
  /\ next_id \in 0 .. MaxRequests
  /\ in \in Seq(Ids) /\ out \subseteq Ids /\ returned \subseteq Ids
  /\ in_mutex \in {"free", "worker"}
  /\ worker \in {"top", "wait", "woken", "fetch", "put", "quit", "cancelled", "done"}
  /\ request \in 0 .. MaxRequests
  /\ pc \in [Threads -> {"top", "standby", "call", "scan", "wait", "end", "done"}]
  /\ wants \in [Threads -> 0 .. MaxRequests]
  /\ error_counter \in [Threads -> 0 .. ExitMax + 1]
  /\ main \in {"pause", "sleep", "join", "join threads", "end"}

(* An id is on `in`, with the worker, on `out` or given back, and only there. *)
InOnePlace(id) ==
  \/ id \in Places(in) /\ id # request /\ id \notin out \cup returned
  \/ id \notin Places(in) /\ id = request /\ id \notin out \cup returned
  \/ id \notin Places(in) /\ id # request /\ (id \in out) # (id \in returned)

(* Every request is in one place: on `in`, with the worker, on `out`, or      *)
(* given back.  So none is lost, and none is freed twice by its thread and by *)
(* bx_net_request_list_destroy, also when the process stops in between.       *)
OwnedOnce ==
  /\ \A i, j \in DOMAIN in : in[i] = in[j] => i = j
  /\ \A id \in 1 .. next_id : InOnePlace(id)

(* Requests are taken in the order they came, whatever the interleaving of    *)
(* threads: a thread waits for as many requests as were there before.         *)
TakenInOrder ==
  [][worker' = "fetch" /\ worker # "fetch" =>
       \A id \in Places(in) : request' <= id]_vars

(* The flag the threads see is never set without the worker's own, so that    *)
(* the next good answer ends a standby.                                       *)
StandbyCoupled == standby => local_standby

(* When the worker is gone no thread sleeps on out_cond: nobody is left       *)
(* whose request can never come (bx_net_request_list_cancel).                 *)
NoSleeperLeft == worker = "done" => \A t \in Threads : pc[t] # "wait"

(* A thread that asked gets its answer, unless the process stops: no          *)
(* broadcast is missed between the look at `out` and the sleep.               *)
CallReturns ==
  \A t \in Threads :
    pc[t] \in {"scan", "wait"} ~> pc[t] \notin {"scan", "wait"} \/ ~run

(* bx_net.c on the way out of the worker: "list_cancel keeps in mutex locked",*)
(* and is unlocked after it.  Once run is cleared the worker ends.            *)
WorkerQuits == ~run ~> worker = "done"

(* bxill.h on BXILL_STANDBY_SECONDS: "10 min standby".  A standby ends, as    *)
(* long as the bound on requests is not reached and a thread is left.         *)
StandbyEnds ==
  standby ~> \/ ~standby \/ next_id = MaxRequests \/ ~run
             \/ \A t \in Threads : pc[t] = "done"

-----------------------------------------------------------------------------
(* What the proofs add *)

(* A list with the newest id first. *)
Descending(s) == \A i, j \in DOMAIN s : i < j => s[i] > s[j]

(* No id is anywhere before bx_net_request_list_add has given it out. *)
GivenOut ==
  \A id \in Places(in) \cup out \cup returned \cup {request} : id <= next_id

(* The worker holds a request from Take to PutBack. *)
WorkerHolds == request # 0 <=> worker \in {"fetch", "put"}

(* The worker leaves only once run is cleared, and after Cancel nobody goes   *)
(* to sleep on out_cond any more.                                             *)
LeavesAfterStop ==
  /\ worker \in {"quit", "cancelled", "done"} => ~run
  /\ worker \in {"cancelled", "done"} => \A t \in Threads : pc[t] # "wait"

(* The inductive invariant: where requests are, in which order, and what      *)
(* holds once the worker has left its loop (bx_net.c).                        *)
QueueInv ==
  /\ TypeOK /\ OwnedOnce /\ StandbyCoupled
  /\ Descending(in) /\ GivenOut /\ WorkerHolds /\ LeavesAfterStop
=============================================================================
