---------------------------- MODULE OAuthRefresh ----------------------------
(***************************************************************************)
(* The OAuth tokens of bx_oauth.c.  bx-sync and bx-proxy run the same code *)
(* and share three rows of _configuration (access token, refresh token,    *)
(* expiry); `bxsync --login` writes them too.  Bexio's refresh tokens work *)
(* once, so two processes must not post the same one: a refresh takes a    *)
(* named lock of MariaDB, which belongs to a connection and is gone with   *)
(* it.                                                                     *)
(*                                                                         *)
(* The tokens Bexio issues are numbered in order; 0 is no token.  The      *)
(* expiry is a property of the access token: those up to `expired` are     *)
(* past it (access_usable, with its 60 seconds of skew).  A transaction is *)
(* one step.                                                               *)
(***************************************************************************)
EXTENDS Integers, FiniteSets

CONSTANTS Daemons,    \* the processes that refresh: bx-sync and bx-proxy
          Proxies,    \* those that reload before each call: bx-proxy
          MaxGrants,  \* bound on the answers Bexio gives
          MaxFaults   \* bound on failures and crashes

Login == "login"    \* a run of bxsync --login
Process == Daemons \cup {Login}
Token == 0 .. MaxGrants

ASSUME OAuthAssumption ==
  /\ {Login, "free"} \cap Daemons = {} /\ Proxies \subseteq Daemons
  /\ MaxGrants \in Nat /\ MaxFaults \in Nat

VARIABLES
  rows,      \* the rows of _configuration: access and refresh token
  lock,      \* who holds bx-oauth-refresh, or "free"
  issued,    \* Bexio: number of answers with tokens
  valid,     \* Bexio: refresh tokens it accepts
  expired,   \* access tokens up to this one are past their expiry
  mem,       \* per process, access_token and refresh_token of BXOAuth
  dirty,     \* per process, tokens_dirty
  conn,      \* per process, lock_conn: "none", "up", "lost"
  pc, force, rejected,  \* per process, where bx_oauth_ensure is
  faults,
  spent,     \* history: refresh tokens Bexio has exchanged
  strayed    \* history: tokens were issued that no process surely saved, or a
             \* holder of the lock lost it

server == <<issued, valid, spent>>
process == <<mem, dirty, conn, pc, force, rejected>>
vars == <<rows, lock, server, expired, process, faults, strayed>>

None == [access |-> 0, refresh |-> 0]
Pair == {None} \cup [access : Token \ {0}, refresh : Token \ {0}]

(* Nobody has logged in yet, or somebody has. *)
Init ==
  /\ issued \in {0, 1} \cap Token
  /\ rows = [access |-> issued, refresh |-> issued] /\ lock = "free"
  /\ valid = {issued} \ {0} /\ spent = {} /\ expired = 0
  /\ mem = [p \in Process |-> None]
  /\ dirty = [p \in Process |-> FALSE] /\ conn = [p \in Process |-> "none"]
  /\ pc = [p \in Process |-> "down"]
  /\ force = [p \in Process |-> FALSE] /\ rejected = [p \in Process |-> 0]
  /\ faults = 0 /\ strayed = FALSE

Fault == faults < MaxFaults /\ faults' = faults + 1

-----------------------------------------------------------------------------
(* Time and Bexio *)

access_usable(access) == access > expired

Expire ==
  /\ expired < issued /\ expired' = expired + 1
  /\ UNCHANGED <<rows, lock, server, process, faults, strayed>>

(* Bexio ends a session: its refresh token is rejected from now on. *)
Revoke(refresh) ==
  /\ refresh \in valid /\ Fault
  /\ valid' = valid \ {refresh}
  /\ UNCHANGED <<rows, lock, issued, spent, expired, process, strayed>>

-----------------------------------------------------------------------------
(* A process starts and stops *)

(* main, bx_oauth_startup and load_tokens: without a refresh token the        *)
(* process ends.  bx_oauth_ensure follows.                                    *)
Start(p) ==
  /\ pc[p] = "down" /\ p \in Daemons /\ rows.refresh # 0
  /\ mem' = [mem EXCEPT ![p] = rows]
  /\ pc' = [pc EXCEPT ![p] = "idle"]
  /\ UNCHANGED <<rows, lock, server, expired, dirty, conn, force, rejected,
                 faults, strayed>>

Release(p) == lock' = IF lock = p THEN "free" ELSE lock

Crash(p) ==
  /\ pc[p] # "down" /\ Fault
  /\ pc' = [pc EXCEPT ![p] = "down"]
  /\ mem' = [mem EXCEPT ![p] = None]
  /\ strayed' = (strayed \/ pc[p] = "write")
  /\ dirty' = [dirty EXCEPT ![p] = FALSE]
  /\ force' = [force EXCEPT ![p] = FALSE]
  /\ rejected' = [rejected EXCEPT ![p] = 0]
  /\ Release(p) /\ conn' = [conn EXCEPT ![p] = "none"]
  /\ UNCHANGED <<rows, server, expired>>

(* bx_oauth_reload, which bx-proxy calls before each bx_oauth_ensure. *)
Reload(p) ==
  /\ pc[p] = "idle" /\ p \in Proxies /\ ~dirty[p]
  /\ mem' = [mem EXCEPT ![p] = rows]
  /\ UNCHANGED <<rows, lock, server, expired, dirty, conn, pc, force, rejected,
                 faults, strayed>>

-----------------------------------------------------------------------------
(* bx_oauth_ensure *)

(* Mutant of Ensure: a usable token is enough, saved or not. *)
EnsureSkipsSave(p, forced) ==
  /\ pc[p] = "idle"
  /\ forced \/ ~access_usable(mem[p].access)
  /\ force' = [force EXCEPT ![p] = forced]
  /\ rejected' = [rejected EXCEPT ![p] = mem[p].access]
  /\ pc' = [pc EXCEPT ![p] = "lock"]
  /\ UNCHANGED <<rows, lock, server, expired, mem, dirty, conn, faults, strayed>>

(* Mutant of Ensure: the fast path takes an access token that has expired. *)
EnsureIgnoresExpiry(p, forced) ==
  /\ pc[p] = "idle"
  /\ dirty[p] \/ forced \/ mem[p].access = 0
  /\ force' = [force EXCEPT ![p] = forced]
  /\ rejected' = [rejected EXCEPT ![p] = mem[p].access]
  /\ pc' = [pc EXCEPT ![p] = "lock"]
  /\ UNCHANGED <<rows, lock, server, expired, mem, dirty, conn, faults, strayed>>

(* Not the fast path.  bx_fetch forces after a 401 of Bexio. *)
Ensure(p, forced) ==
  /\ pc[p] = "idle"
  /\ dirty[p] \/ forced \/ ~access_usable(mem[p].access)
  /\ force' = [force EXCEPT ![p] = forced]
  /\ rejected' = [rejected EXCEPT ![p] = mem[p].access]
  /\ pc' = [pc EXCEPT ![p] = "lock"]
  /\ UNCHANGED <<rows, lock, server, expired, mem, dirty, conn, faults, strayed>>

(* Mutant of Lock: whoever asks gets the lock. *)
LockAlways(p) ==
  /\ pc[p] = "lock"
  /\ lock' = p
  /\ conn' = [conn EXCEPT ![p] = "up"]
  /\ pc' = [pc EXCEPT ![p] = IF p = Login THEN "post" ELSE "locked"]
  /\ UNCHANGED <<rows, server, expired, mem, dirty, force, rejected, faults,
                 strayed>>

(* oauth_lock: a connection of its own, and GET_LOCK. *)
Lock(p) ==
  /\ pc[p] = "lock" /\ lock = "free"
  /\ lock' = p
  /\ conn' = [conn EXCEPT ![p] = "up"]
  /\ pc' = [pc EXCEPT ![p] = IF p = Login THEN "post" ELSE "locked"]
  /\ UNCHANGED <<rows, server, expired, mem, dirty, force, rejected, faults,
                 strayed>>

(* bx_oauth_ensure returns, or the login process ends. *)
Return(p) ==
  /\ pc' = [pc EXCEPT ![p] = IF p = Login THEN "down" ELSE "idle"]
  /\ force' = [force EXCEPT ![p] = FALSE]
  /\ rejected' = [rejected EXCEPT ![p] = 0]

(* oauth_unlock, and return. *)
Unlock(p) ==
  /\ Release(p) /\ conn' = [conn EXCEPT ![p] = "none"]
  /\ Return(p)

(* No connection, or the lock was held for 20 seconds. *)
LockFails(p) ==
  /\ pc[p] = "lock" /\ Fault
  /\ Return(p)
  /\ UNCHANGED <<rows, lock, server, expired, mem, dirty, conn,
                 strayed>>

(* The connection goes, and the lock with it; the process does not know yet. *)
LoseConn(p) ==
  /\ conn[p] = "up" /\ Fault
  /\ conn' = [conn EXCEPT ![p] = "lost"] /\ Release(p)
  /\ strayed' = TRUE
  /\ UNCHANGED <<rows, server, expired, mem, dirty, pc, force, rejected>>

(* Tokens wait to be saved: save them, or refresh with the token in memory,   *)
(* without a look at the rows.  There is one: dirty tokens came from Bexio.   *)
LockedDirty(p) ==
  /\ pc[p] = "locked" /\ dirty[p]
  /\ pc' = [pc EXCEPT ![p] =
       IF ~force[p] /\ access_usable(mem[p].access) THEN "write" ELSE "post"]
  /\ UNCHANGED <<rows, lock, server, expired, mem, dirty, conn, force, rejected,
                 faults, strayed>>

(* Mutant of bx_oauth_decide: a forced call always refreshes. *)
DecideForced(forced, old, t) ==
  IF ~forced /\ access_usable(t.access) THEN "use"
  ELSE IF t.refresh = 0 THEN "need login" ELSE "refresh"

bx_oauth_decide(forced, old, t) ==
  IF access_usable(t.access) /\ (forced => old # t.access) THEN "use"
  ELSE IF t.refresh = 0 THEN "need login" ELSE "refresh"

(* Otherwise oauth_read_tokens, then bx_oauth_decide. *)
LockedRead(p) ==
  /\ pc[p] = "locked" /\ ~dirty[p] /\ conn[p] = "up"
  /\ mem' = [mem EXCEPT ![p] = rows]
  /\ IF bx_oauth_decide(force[p], rejected[p], rows) = "refresh"
     THEN /\ pc' = [pc EXCEPT ![p] = "post"]
          /\ UNCHANGED <<lock, conn, force, rejected>>
     ELSE Unlock(p)
  /\ UNCHANGED <<rows, server, expired, dirty, faults, strayed>>

LockedReadFails(p) ==
  /\ pc[p] = "locked" /\ ~dirty[p]
  /\ IF conn[p] = "up" THEN Fault ELSE UNCHANGED faults
  /\ Unlock(p)
  /\ UNCHANGED <<rows, server, expired, mem, dirty, strayed>>

-----------------------------------------------------------------------------
(* post_token *)

(* What Bexio accepts: a refresh token it knows, or the code of a login. *)
Accepted(p) == p = Login \/ mem[p].refresh \in valid

(* Bexio issues tokens.  It may leave the refresh token as it is. *)
Issue(p, rotate) ==
  /\ Accepted(p) /\ issued < MaxGrants
  /\ issued' = issued + 1
  /\ IF rotate
     THEN /\ valid' = (valid \ {mem[p].refresh}) \cup {issued + 1}
          /\ spent' = spent \cup ({mem[p].refresh} \ {0})
     ELSE UNCHANGED <<valid, spent>>

(* Mutant of PostOk: no refresh token in the answer is no refresh token. *)
PostOkDropsRefresh(p) ==
  /\ pc[p] = "post"
  /\ \E rotate \in BOOLEAN :
       /\ p = Login => rotate
       /\ Issue(p, rotate)
       /\ mem' = [mem EXCEPT ![p] =
            [access |-> issued + 1, refresh |-> IF rotate THEN issued + 1 ELSE 0]]
  /\ pc' = [pc EXCEPT ![p] = "write"]
  /\ UNCHANGED <<rows, lock, expired, dirty, conn, force, rejected, faults,
                 strayed>>

(* The answer holds tokens: they are in memory, and not yet saved.  A login   *)
(* fails without a refresh token.                                             *)
PostOk(p) ==
  /\ pc[p] = "post"
  /\ \E rotate \in BOOLEAN :
       /\ p = Login => rotate
       /\ Issue(p, rotate)
       /\ mem' = [mem EXCEPT ![p] =
            [access |-> issued + 1,
             refresh |-> IF rotate THEN issued + 1 ELSE mem[p].refresh]]
  /\ pc' = [pc EXCEPT ![p] = "write"]
  /\ UNCHANGED <<rows, lock, expired, dirty, conn, force, rejected, faults,
                 strayed>>

(* invalid_grant: what is in memory is worth nothing, saved or not. *)
PostRejected(p) ==
  /\ pc[p] = "post" /\ ~Accepted(p)
  /\ dirty' = [dirty EXCEPT ![p] = FALSE]
  /\ Unlock(p)
  /\ UNCHANGED <<rows, server, expired, mem, faults, strayed>>

(* No answer: the request never arrived, or its answer is lost.  Beyond the   *)
(* bound on grants Bexio does not answer.                                     *)
PostFails(p) ==
  /\ pc[p] = "post"
  /\ IF issued < MaxGrants THEN Fault ELSE UNCHANGED faults
  /\ \/ UNCHANGED <<server, strayed>>
     \/ Issue(p, TRUE) /\ strayed' = TRUE
  /\ Unlock(p)
  /\ UNCHANGED <<rows, expired, mem, dirty>>

-----------------------------------------------------------------------------
(* oauth_write_tokens *)

Write(p) ==
  /\ pc[p] = "write" /\ conn[p] = "up"
  /\ rows' = mem[p] /\ dirty' = [dirty EXCEPT ![p] = FALSE]
  /\ Unlock(p)
  /\ UNCHANGED <<server, expired, mem, faults, strayed>>

(* Three attempts fail; the answer to a COMMIT that was made may be lost.     *)
(* A login forgets the tokens.                                                *)
WriteFails(p) ==
  /\ pc[p] = "write"
  /\ \/ conn[p] = "up" /\ Fault /\ rows' \in {rows, mem[p]}
     \/ conn[p] = "lost" /\ UNCHANGED <<rows, faults>>
  /\ dirty' = [dirty EXCEPT ![p] = p # Login]
  /\ strayed' = TRUE
  /\ Unlock(p)
  /\ UNCHANGED <<server, expired, mem>>

-----------------------------------------------------------------------------
(* bx_oauth_login: the operator has the code; exchange_code takes the lock. *)
StartLogin ==
  /\ pc[Login] = "down"
  /\ mem' = [mem EXCEPT ![Login] = None]
  /\ pc' = [pc EXCEPT ![Login] = "lock"]
  /\ UNCHANGED <<rows, lock, server, expired, dirty, conn, force, rejected,
                 faults, strayed>>

-----------------------------------------------------------------------------
(* A step of bx_oauth_ensure or exchange_code. *)
Step(p) ==
  \/ LockedDirty(p) \/ LockedRead(p) \/ LockedReadFails(p)
  \/ PostOk(p) \/ PostRejected(p) \/ PostFails(p) \/ Write(p) \/ WriteFails(p)

Next ==
  \/ Expire \/ StartLogin
  \/ \E refresh \in Token : Revoke(refresh)
  \/ \E p \in Daemons : \/ Start(p) \/ Reload(p)
                       \/ \E forced \in BOOLEAN : Ensure(p, forced)
  \/ \E p \in Process : \/ Lock(p) \/ LockFails(p) \/ LoseConn(p) \/ Crash(p)
                       \/ Step(p)

Spec == Init /\ [][Next]_vars

(* A daemon calls Bexio again and again, and its steps are taken; GET_LOCK    *)
(* waits for the lock to be released.  Nothing is assumed of time, of the     *)
(* operator or of failures.                                                   *)
FairSpec ==
  /\ Spec
  /\ \A p \in Daemons : WF_vars(Ensure(p, FALSE)) /\ SF_vars(Lock(p))
  /\ \A p \in Process : WF_vars(Step(p))

-----------------------------------------------------------------------------
(* Properties *)

(* Every variable has its type; the rows hold both tokens or none. *)
TypeOK ==
  /\ rows \in Pair
  /\ lock \in Process \cup {"free"}
  /\ issued \in Token /\ expired \in Token
  /\ valid \subseteq Token \ {0} /\ spent \subseteq Token \ {0}
  /\ mem \in [Process -> Pair]
  /\ dirty \in [Process -> BOOLEAN]
  /\ conn \in [Process -> {"none", "up", "lost"}]
  /\ pc \in [Process -> {"down", "idle", "lock", "locked", "post", "write"}]
  /\ force \in [Process -> BOOLEAN] /\ rejected \in [Process -> Token]
  /\ faults \in 0 .. MaxFaults /\ strayed \in BOOLEAN

(* No refresh token is posted twice: not by two processes whose tokens expire *)
(* together, nor after a crash or a failed read or post, unless a holder lost *)
(* the lock or tokens went unsaved (oauth_lock, oauth_read_tokens).           *)
PostsUnspent ==
  \A p \in Daemons : pc[p] = "post" /\ ~strayed => mem[p].refresh \notin spent

(* A process posts only when the stored access token still needs replacing:   *)
(* what another process or a login stored while it waited for the lock is     *)
(* used instead (bx_oauth_decide on the rows read under the lock).            *)
PostsWhenNeeded ==
  \A p \in Daemons : pc[p] = "post" /\ ~strayed =>
    \/ ~access_usable(rows.access)
    \/ force[p] /\ rows.access = rejected[p]

(* Tokens that could not be saved are saved in the end, or Bexio has rejected *)
(* them (tokens_dirty closes the fast path of bx_oauth_ensure).               *)
UnsavedSaved ==
  \A p \in Daemons : dirty[p] ~> ~dirty[p] \/ issued = MaxGrants

(* A daemon whose access token expired gets another, whatever it holds in     *)
(* memory, as long as the stored refresh token is good: also after a          *)
(* rejection and a login meanwhile (post_token clears tokens_dirty).          *)
Refreshed ==
  \A p \in Daemons :
    pc[p] # "down" /\ ~access_usable(mem[p].access) ~>
      \/ access_usable(mem[p].access) \/ pc[p] = "down"
      \/ rows.refresh \notin valid \/ issued = MaxGrants

(* The rows never go back to older tokens: what a login or another process    *)
(* stored is loaded by a process that gets the lock, not overwritten (the     *)
(* design: "When it acquires the lock it re-reads and uses the login tokens   *)
(* when they are usable").                                                    *)
RowsNeverGoBack == [][rows'.access >= rows.access]_vars

(* As long as no holder lost the lock and no tokens went unsaved, newer       *)
(* tokens are never overwritten by older ones, whoever refreshes or logs in   *)
(* meanwhile (oauth_lock around post_token and oauth_write_tokens).           *)
RowsGoForward == [][~strayed => rows'.access >= rows.access]_vars

-----------------------------------------------------------------------------
(* What the proofs add *)

Critical == {"locked", "post", "write"}

(* Who has a connection for the lock holds the lock; who is past oauth_lock   *)
(* has one, or lost it.                                                       *)
Exclusive ==
  \A p \in Process :
    /\ conn[p] = "up" => lock = p
    /\ conn[p] = "lost" => strayed
    /\ pc[p] \in Critical => conn[p] # "none"

(* A login holds no tokens before its code is exchanged. *)
LoginFresh ==
  /\ pc[Login] \notin {"idle", "locked"}
  /\ pc[Login] # "write" => mem[Login] = None \/ pc[Login] = "down"

(* The tokens issued last are in the rows, or with the process that is about  *)
(* to write them; their refresh token is not spent.                           *)
NewestKept ==
  /\ \A p \in Process : pc[p] = "write" =>
       mem[p].access = issued /\ mem[p].refresh \notin spent
  /\ (\A p \in Process : pc[p] # "write") =>
       rows.access = issued /\ rows.refresh \notin spent

(* A daemon that posts has the tokens of the rows, and needs others. *)
PostsRows ==
  \A p \in Daemons : pc[p] = "post" =>
    /\ mem[p] = rows
    /\ ~access_usable(rows.access) \/ (force[p] /\ rows.access = rejected[p])

(* Nobody has tokens Bexio has not issued. *)
Known(m) == m.access <= issued /\ m.refresh <= issued
AllKnown ==
  /\ Known(rows) /\ \A p \in Process : Known(mem[p])
  /\ spent \subseteq 1 .. issued

(* As long as nothing strayed, the newest tokens are known to whoever holds   *)
(* the lock.                                                                  *)
Clean ==
  ~strayed => /\ \A p \in Process : ~dirty[p]
              /\ NewestKept /\ PostsRows

(* The inductive invariant: the lock excludes, and no tokens are known to a   *)
(* process or spent but those Bexio issued (bx_oauth.c).                      *)
OAuthInv == TypeOK /\ Exclusive /\ LoginFresh /\ AllKnown /\ Clean
=============================================================================
