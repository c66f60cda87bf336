------------------------------- MODULE Pacing -------------------------------
(* How long the worker of bx_net.c sleeps between requests.  Bexio's answers  *)
(* carry the limit, what remains of it and when it is reset; the worker       *)
(* averages the pace they allow over all its requests.  Times are in units of *)
(* the model; float is taken for exact, and truncated where the code casts.   *)
EXTENDS Integers

CONSTANTS DefaultSleep,   \* BX_NET_DEFAULT_MS_SLEEP
          Remaining, Reset, \* the figures of Bexio's headers
          MaxCount        \* request_count is counted up to here

VARIABLES
  limits,          \* BXNetRatelimit
  request_count,   \* of BXNet
  us_sleep,        \* of the worker
  atPace           \* the worker has an answer, or none, and is about to sleep

paceVars == <<limits, request_count, us_sleep, atPace>>

PaceInit ==
  /\ limits = [max |-> 0, remaining |-> 0, reset |-> 0] /\ request_count = 0
  /\ us_sleep = DefaultSleep /\ atPace = FALSE

(* A header of an answer; a figure of 0 is passed over.  Of the limit itself  *)
(* only counts that it is known.                                              *)
bx_header_callback ==
  /\ ~atPace
  /\ \/ limits' = [limits EXCEPT !.max = 1]
     \/ \E v \in Remaining : limits' = IF v = 0 THEN limits ELSE [limits EXCEPT !.remaining = v]
     \/ \E v \in Reset : limits' = IF v = 0 THEN limits ELSE [limits EXCEPT !.reset = v]
  /\ UNCHANGED <<request_count, us_sleep, atPace>>

(* bx_fetch: no answer at all, one, or the second after a 401. *)
FetchDone ==
  /\ ~atPace /\ atPace' = TRUE
  /\ \E n \in 0 .. 2 :
       request_count' = IF request_count + n > MaxCount THEN MaxCount ELSE request_count + n
  /\ UNCHANGED <<limits, us_sleep>>

(* The pace the limits allow is the fraction reset / remaining. *)
Told == limits.max # 0 /\ limits.remaining # 0
Allowed == IF limits.max = 0 THEN [time |-> DefaultSleep, share |-> 1]
           ELSE [time |-> limits.reset, share |-> limits.remaining]

(* Mutant of Average: rounded up. *)
AverageUp ==
  (Allowed.time + Allowed.share * us_sleep * (request_count - 1)
     + Allowed.share * request_count - 1) \div (Allowed.share * request_count)

(* The cumulative average, cut to an int. *)
Average ==
  (Allowed.time + Allowed.share * us_sleep * (request_count - 1))
    \div (Allowed.share * request_count)

(* A division by a remaining_request or a request_count of 0 gives infinity   *)
(* or no number, and the cast a value outside the bounds on each target of    *)
(* the build; what is outside the bounds becomes the default.                 *)
Pace ==
  /\ atPace /\ atPace' = FALSE
  /\ us_sleep' = IF Allowed.share # 0 /\ request_count # 0 /\ Average \in 1 .. DefaultSleep
                 THEN Average ELSE DefaultSleep
  /\ UNCHANGED <<limits, request_count>>

PaceNext == bx_header_callback \/ FetchDone \/ Pace

(* The data threads keep asking, so the worker goes round. *)
PaceSpec == PaceInit /\ [][PaceNext]_paceVars /\ WF_paceVars(FetchDone \/ Pace)

(* "and go back up when bandwith is available" (bx_net.c:898): the worker     *)
(* that had an answer does not for ever sleep longer than the limits allow.   *)
RateGoesUp ==
  []<>(Told /\ limits.reset # 0 /\ request_count # 0
         => us_sleep * limits.remaining <= limits.reset)

(* "So if it's already in heavy use, the request rate will drop"              *)
(* (bx_net.c:897): the worker does not for ever sleep less than half of what  *)
(* the limits, or the longest sleep, ask for.                                 *)
RateDrops ==
  []<>(Told /\ limits.reset <= DefaultSleep * limits.remaining
         => 2 * us_sleep * limits.remaining >= limits.reset)

=============================================================================
