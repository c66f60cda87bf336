------------------------- MODULE OAuthRefreshProofs -------------------------
(* Safety of the refresh of tokens for every set of daemons and every bound.  *)
EXTENDS OAuthRefresh, TLAPS

(* Both tokens of a pair are numbers of tokens.                               *)
LEMMA PairFacts ==
  ASSUME NEW m \in Pair
  PROVE  m.access \in Token /\ m.refresh \in Token
  BY OAuthAssumption DEF Pair, None, Token

LEMMA NoneIsPair == None \in Pair
  BY DEF Pair

LEMMA LoginFacts == Login \in Process /\ Login \notin Daemons /\ Login # "free"
  BY OAuthAssumption DEF Process, Login

LEMMA NotFree == "free" \notin Process
  BY OAuthAssumption DEF Process, Login

LEMMA FaultType == ASSUME TypeOK, Fault PROVE faults' \in 0 .. MaxFaults
  <1>1. faults \in 0 .. MaxFaults
    BY DEF TypeOK
  <1> QED BY <1>1, OAuthAssumption DEF Fault

LEMMA ReleaseType ==
  ASSUME TypeOK, NEW p, Release(p) PROVE lock' \in Process \cup {"free"}
  BY DEF TypeOK, Release

LEMMA ReturnType ==
  ASSUME TypeOK, NEW p \in Process, Return(p)
  PROVE  /\ pc' \in [Process -> {"down", "idle", "lock", "locked", "post", "write"}]
         /\ force' \in [Process -> BOOLEAN] /\ rejected' \in [Process -> Token]
  <1>1. 0 \in Token
    BY OAuthAssumption DEF Token
  <1> QED BY <1>1 DEF TypeOK, Return

LEMMA UnlockType ==
  ASSUME TypeOK, NEW p \in Process, Unlock(p)
  PROVE  /\ pc' \in [Process -> {"down", "idle", "lock", "locked", "post", "write"}]
         /\ force' \in [Process -> BOOLEAN] /\ rejected' \in [Process -> Token]
         /\ conn' \in [Process -> {"none", "up", "lost"}]
         /\ lock' \in Process \cup {"free"}
  <1>1. Release(p) /\ Return(p) /\ conn' = [conn EXCEPT ![p] = "none"]
    BY DEF Unlock
  <1> QED BY <1>1, ReleaseType, ReturnType DEF TypeOK

LEMMA IssueType ==
  ASSUME TypeOK, NEW p \in Process, NEW rotate \in BOOLEAN, Issue(p, rotate)
  PROVE  /\ issued' \in Token \ {0} /\ issued' = issued + 1
         /\ valid' \subseteq Token \ {0} /\ spent' \subseteq Token \ {0}
         /\ p # Login => mem[p].refresh \in Token \ {0}
  <1>1. issued + 1 \in Token \ {0}
    BY OAuthAssumption DEF TypeOK, Issue, Token
  <1>2. mem[p].refresh \in Token
    BY PairFacts DEF TypeOK
  <1> QED BY <1>1, <1>2 DEF TypeOK, Issue, Accepted

LEMMA InitType == Init => TypeOK
  <1> SUFFICES ASSUME Init PROVE TypeOK
    OBVIOUS
  <1>1. 0 \in Token /\ 0 \in 0 .. MaxFaults
    BY OAuthAssumption DEF Token
  <1>2. issued \in Token /\ issued \in {0, 1} /\ rows = [access |-> issued, refresh |-> issued]
    BY DEF Init
  <1>3. rows \in Pair
    <2>1. CASE issued = 0
      BY <1>2, <2>1 DEF Pair, None
    <2>2. CASE issued # 0
      BY <1>2, <2>2 DEF Pair
    <2> QED BY <2>1, <2>2
  <1> QED BY <1>1, <1>2, <1>3, NoneIsPair DEF Init, TypeOK

LEMMA WorldType ==
  ASSUME TypeOK, Expire \/ StartLogin \/ \E refresh \in Token : Revoke(refresh)
  PROVE  TypeOK'
  <1>1. CASE Expire
    <2>1. expired + 1 \in Token
      BY <1>1, OAuthAssumption DEF TypeOK, Expire, Token
    <2> QED BY <1>1, <2>1 DEF TypeOK, Expire, server, process
  <1>2. CASE StartLogin
    BY <1>2, LoginFacts, NoneIsPair DEF TypeOK, StartLogin, server
  <1>3. CASE \E refresh \in Token : Revoke(refresh)
    BY <1>3, FaultType DEF TypeOK, Revoke, process
  <1> QED BY <1>1, <1>2, <1>3

LEMMA DaemonType ==
  ASSUME TypeOK, NEW p \in Daemons,
         Start(p) \/ Reload(p) \/ \E forced \in BOOLEAN : Ensure(p, forced)
  PROVE  TypeOK'
  <1>1. p \in Process
    BY DEF Process
  <1>2. CASE Start(p)
    BY <1>1, <1>2 DEF TypeOK, Start, server
  <1>3. CASE Reload(p)
    BY <1>1, <1>3 DEF TypeOK, Reload, server
  <1>4. CASE \E forced \in BOOLEAN : Ensure(p, forced)
    <2>1. mem[p].access \in Token
      BY <1>1, PairFacts DEF TypeOK
    <2> QED BY <1>1, <1>4, <2>1 DEF TypeOK, Ensure, server
  <1> QED BY <1>2, <1>3, <1>4

LEMMA ProcessType ==
  ASSUME TypeOK, NEW p \in Process,
         Lock(p) \/ LockFails(p) \/ LoseConn(p) \/ Crash(p)
  PROVE  TypeOK'
  <1>1. CASE Lock(p)
    BY <1>1 DEF TypeOK, Lock, server
  <1>2. CASE LockFails(p)
    BY <1>2, FaultType, ReturnType DEF TypeOK, LockFails, server
  <1>3. CASE LoseConn(p)
    BY <1>3, FaultType, ReleaseType DEF TypeOK, LoseConn, server
  <1>4. CASE Crash(p)
    <2>1. 0 \in Token
      BY OAuthAssumption DEF Token
    <2> QED BY <1>4, <2>1, FaultType, ReleaseType, NoneIsPair DEF TypeOK, Crash, server
  <1> QED BY <1>1, <1>2, <1>3, <1>4

LEMMA StepType ==
  ASSUME TypeOK, NEW p \in Process, Step(p)
  PROVE  TypeOK'
  <1>1. CASE LockedDirty(p)
    BY <1>1 DEF TypeOK, LockedDirty, server
  <1>2. CASE LockedRead(p)
    BY <1>2, UnlockType DEF TypeOK, LockedRead, server
  <1>3. CASE LockedReadFails(p)
    BY <1>3, UnlockType, FaultType DEF TypeOK, LockedReadFails, server
  <1>4. CASE PostOk(p)
    <2>1. PICK rotate \in BOOLEAN :
            /\ p = Login => rotate
            /\ Issue(p, rotate)
            /\ mem' = [mem EXCEPT ![p] =
                 [access |-> issued + 1,
                  refresh |-> IF rotate THEN issued + 1 ELSE mem[p].refresh]]
      BY <1>4 DEF PostOk
    <2>2. [access |-> issued + 1,
           refresh |-> IF rotate THEN issued + 1 ELSE mem[p].refresh] \in Pair
      BY <2>1, IssueType DEF Pair
    <2>3. mem' \in [Process -> Pair]
      BY <2>1, <2>2 DEF TypeOK
    <2> QED BY <1>4, <2>1, <2>3, IssueType DEF TypeOK, PostOk
  <1>5. CASE PostRejected(p)
    BY <1>5, UnlockType DEF TypeOK, PostRejected, server
  <1>6. CASE PostFails(p)
    <2>1. /\ issued' \in Token /\ valid' \subseteq Token \ {0}
          /\ spent' \subseteq Token \ {0} /\ strayed' \in BOOLEAN
      BY <1>6, IssueType DEF TypeOK, PostFails, server
    <2>2. faults' \in 0 .. MaxFaults
      BY <1>6, FaultType DEF TypeOK, PostFails
    <2> QED BY <1>6, <2>1, <2>2, UnlockType DEF TypeOK, PostFails
  <1>7. CASE Write(p)
    BY <1>7, UnlockType DEF TypeOK, Write, server
  <1>8. CASE WriteFails(p)
    <2>1. rows' \in Pair /\ faults' \in 0 .. MaxFaults
      BY <1>8, FaultType DEF TypeOK, WriteFails
    <2> QED BY <1>8, <2>1, UnlockType DEF TypeOK, WriteFails, server
  <1> QED BY <1>1, <1>2, <1>3, <1>4, <1>5, <1>6, <1>7, <1>8 DEF Step

LEMMA NextType == ASSUME TypeOK, [Next]_vars PROVE TypeOK'
  <1>1. CASE UNCHANGED vars
    BY <1>1 DEF TypeOK, vars, server, process
  <1> QED BY <1>1, WorldType, DaemonType, ProcessType, StepType DEF Next

(* Every variable of the token refresh keeps its type; the rows and the       *)
(* memory of a process hold both tokens or none (bx_oauth.c).                 *)
THEOREM OAuthTypeCorrect == Spec => []TypeOK
  BY InitType, NextType, PTL DEF Spec

-----------------------------------------------------------------------------
(* The lock *)

LEMMA ExclusiveStep ==
  ASSUME TypeOK, Exclusive, [Next]_vars
  PROVE  Exclusive'
  <1>1. CASE UNCHANGED vars
    BY <1>1 DEF Exclusive, vars, process
  <1>2. CASE Expire \/ \E refresh \in Token : Revoke(refresh)
    BY <1>2 DEF Exclusive, Expire, Revoke, process
  <1>3. CASE StartLogin
    BY <1>3, LoginFacts DEF TypeOK, Exclusive, StartLogin, Critical
  <1>4. ASSUME NEW p \in Daemons,
               Start(p) \/ Reload(p) \/ \E forced \in BOOLEAN : Ensure(p, forced)
        PROVE  Exclusive'
    <2>1. p \in Process
      BY DEF Process
    <2> QED BY <1>4, <2>1 DEF TypeOK, Exclusive, Start, Reload, Ensure, Critical
  <1>5. ASSUME NEW p \in Process, Lock(p)
        PROVE  Exclusive'
    <2>1. \A q \in Process : conn[q] # "up"
      BY <1>5, NotFree DEF Exclusive, Lock
    <2> QED BY <1>5, <2>1 DEF TypeOK, Exclusive, Lock, Critical
  <1>6. ASSUME NEW p \in Process, LockFails(p)
        PROVE  Exclusive'
    BY <1>6 DEF TypeOK, Exclusive, LockFails, Return, Critical
  <1>7. ASSUME NEW p \in Process, LoseConn(p)
        PROVE  Exclusive'
    BY <1>7 DEF TypeOK, Exclusive, LoseConn, Release, Critical
  <1>8. ASSUME NEW p \in Process, Crash(p)
        PROVE  Exclusive'
    BY <1>8 DEF TypeOK, Exclusive, Crash, Release, Critical
  <1>9. ASSUME NEW p \in Process, Unlock(p), strayed => strayed'
        PROVE  Exclusive'
    BY <1>9 DEF TypeOK, Exclusive, Unlock, Release, Return, Critical
  <1>10. ASSUME NEW p \in Process, Step(p)
         PROVE  Exclusive'
    <2>1. CASE \/ LockedReadFails(p) \/ PostRejected(p) \/ PostFails(p)
               \/ Write(p) \/ WriteFails(p)
      <3>1. Unlock(p)
        BY <2>1 DEF LockedReadFails, PostRejected, PostFails, Write, WriteFails
      <3>2. strayed' = strayed \/ strayed' = TRUE
        BY <2>1 DEF LockedReadFails, PostRejected, PostFails, Write, WriteFails
      <3> QED BY <3>1, <3>2, <1>9
    <2>2. CASE LockedRead(p)
      <3>1. CASE Unlock(p)
        BY <2>2, <3>1, <1>9 DEF LockedRead
      <3>2. CASE ~Unlock(p)
        BY <2>2, <3>2 DEF TypeOK, Exclusive, LockedRead, Critical
      <3> QED BY <3>1, <3>2
    <2>3. CASE LockedDirty(p) \/ PostOk(p)
      BY <2>3 DEF TypeOK, Exclusive, LockedDirty, PostOk, Critical
    <2> QED BY <1>10, <2>1, <2>2, <2>3 DEF Step
  <1> QED BY <1>1, <1>2, <1>3, <1>4, <1>5, <1>6, <1>7, <1>8, <1>10 DEF Next

(* Unless something strayed, one process at most is past oauth_lock.          *)
LEMMA OneCritical ==
  ASSUME TypeOK, Exclusive, ~strayed, NEW p \in Process, NEW q \in Process,
         pc[p] \in Critical, pc[q] \in Critical
  PROVE  p = q
  BY DEF TypeOK, Exclusive

-----------------------------------------------------------------------------
(* Logins, and which tokens are known *)

LEMMA LoginFreshStep ==
  ASSUME TypeOK, LoginFresh, [Next]_vars
  PROVE  LoginFresh'
  <1>1. CASE UNCHANGED vars
    BY <1>1 DEF LoginFresh, vars, process
  <1>2. CASE Expire \/ \E refresh \in Token : Revoke(refresh)
    BY <1>2 DEF LoginFresh, Expire, Revoke, process
  <1>3. CASE StartLogin
    BY <1>3, LoginFacts DEF TypeOK, LoginFresh, StartLogin
  <1>4. ASSUME NEW p \in Daemons,
               Start(p) \/ Reload(p) \/ \E forced \in BOOLEAN : Ensure(p, forced)
        PROVE  LoginFresh'
    <2>1. p # Login
      BY LoginFacts
    <2> QED BY <1>4, <2>1, LoginFacts DEF TypeOK, LoginFresh, Start, Reload, Ensure
  <1>5. ASSUME NEW p \in Process,
               Lock(p) \/ LockFails(p) \/ LoseConn(p) \/ Crash(p)
        PROVE  LoginFresh'
    BY <1>5, LoginFacts
    DEF TypeOK, LoginFresh, Lock, LockFails, LoseConn, Crash, Return
  <1>6. ASSUME NEW p \in Process, LockedDirty(p) \/ LockedRead(p) \/ LockedReadFails(p)
        PROVE  LoginFresh'
    <2>1. p # Login
      BY <1>6 DEF LoginFresh, LockedDirty, LockedRead, LockedReadFails
    <2> QED BY <1>6, <2>1, LoginFacts
            DEF TypeOK, LoginFresh, LockedDirty, LockedRead, LockedReadFails,
                Unlock, Return
  <1>7. ASSUME NEW p \in Process, PostOk(p)
        PROVE  LoginFresh'
    BY <1>7, LoginFacts DEF TypeOK, LoginFresh, PostOk
  <1>8. ASSUME NEW p \in Process,
               PostRejected(p) \/ PostFails(p) \/ Write(p) \/ WriteFails(p)
        PROVE  LoginFresh'
    <2>1. Return(p) /\ mem' = mem
      BY <1>8 DEF PostRejected, PostFails, Write, WriteFails, Unlock
    <2> QED BY <2>1, LoginFacts DEF TypeOK, LoginFresh, Return
  <1> QED BY <1>1, <1>2, <1>3, <1>4, <1>5, <1>6, <1>7, <1>8 DEF Next, Step

LEMMA NumberFacts ==
  ASSUME TypeOK
  PROVE  /\ issued \in Nat /\ expired \in Nat
         /\ rows.access \in Nat /\ rows.refresh \in Nat
         /\ \A p \in Process : mem[p].access \in Nat /\ mem[p].refresh \in Nat
  <1>1. Token \subseteq Nat
    BY OAuthAssumption DEF Token
  <1> QED BY <1>1, PairFacts DEF TypeOK

(* Tokens that were known stay known, and so do those of a None.              *)
LEMMA KnownGrows ==
  ASSUME TypeOK, AllKnown, issued' \in {issued, issued + 1},
         rows' \in {rows} \cup {mem[p] : p \in Process},
         \A p \in Process : mem'[p] \in {mem[p], rows, None},
         spent' \subseteq spent \cup ({mem[p].refresh : p \in Process} \ {0})
  PROVE  AllKnown'
  <1>1. \A m \in {rows, None} \cup {mem[p] : p \in Process} :
          m.access <= issued /\ m.refresh <= issued
    BY NumberFacts DEF AllKnown, Known, None
  <1>2. \A m \in {rows, None} \cup {mem[p] : p \in Process} :
          m.access <= issued' /\ m.refresh <= issued'
    BY <1>1, NumberFacts DEF None
  <1>3. Known(rows)' /\ \A p \in Process : Known(mem[p])'
    BY <1>2 DEF Known
  <1>4. spent' \subseteq 1 .. issued'
    <2>1. ASSUME NEW t \in spent' PROVE t \in 1 .. issued'
      <3>1. CASE t \in spent
        BY <3>1, NumberFacts DEF AllKnown
      <3>2. CASE t \notin spent
        <4>1. PICK p \in Process : t = mem[p].refresh /\ t # 0
          BY <2>1, <3>2
        <4> QED BY <4>1, <1>2, NumberFacts
      <3> QED BY <3>1, <3>2
    <2> QED BY <2>1
  <1> QED BY <1>3, <1>4 DEF AllKnown

LEMMA AllKnownStep ==
  ASSUME TypeOK, AllKnown, [Next]_vars
  PROVE  AllKnown'
  <1>1. CASE UNCHANGED vars
    BY <1>1, KnownGrows DEF vars, server, process
  <1>2. CASE Expire \/ \E refresh \in Token : Revoke(refresh)
    BY <1>2, KnownGrows DEF Expire, Revoke, server, process
  <1>3. CASE StartLogin
    BY <1>3, KnownGrows DEF TypeOK, StartLogin, server
  <1>4. ASSUME NEW p \in Daemons,
               Start(p) \/ Reload(p) \/ \E forced \in BOOLEAN : Ensure(p, forced)
        PROVE  AllKnown'
    BY <1>4, KnownGrows DEF TypeOK, Start, Reload, Ensure, server
  <1>5. ASSUME NEW p \in Process,
               Lock(p) \/ LockFails(p) \/ LoseConn(p) \/ Crash(p)
        PROVE  AllKnown'
    BY <1>5, KnownGrows DEF TypeOK, Lock, LockFails, LoseConn, Crash, server
  <1>6. ASSUME NEW p \in Process,
               LockedDirty(p) \/ LockedRead(p) \/ LockedReadFails(p) \/ PostRejected(p)
        PROVE  AllKnown'
    BY <1>6, KnownGrows
    DEF TypeOK, LockedDirty, LockedRead, LockedReadFails, PostRejected, server
  <1>7. ASSUME NEW p \in Process, Write(p) \/ WriteFails(p)
        PROVE  AllKnown'
    BY <1>7, KnownGrows DEF Write, WriteFails, server
  <1>8. ASSUME NEW p \in Process, PostFails(p)
        PROVE  AllKnown'
    BY <1>8, KnownGrows DEF PostFails, Issue, server
  <1>9. ASSUME NEW p \in Process, PostOk(p)
        PROVE  AllKnown'
    <2>1. PICK rotate \in BOOLEAN :
            /\ Issue(p, rotate)
            /\ mem' = [mem EXCEPT ![p] =
                 [access |-> issued + 1,
                  refresh |-> IF rotate THEN issued + 1 ELSE mem[p].refresh]]
      BY <1>9 DEF PostOk
    <2>2. rows' = rows /\ issued' = issued + 1
          /\ spent' \subseteq spent \cup ({mem[p].refresh} \ {0})
      BY <1>9, <2>1 DEF PostOk, Issue
    <2>3. Known(rows)' /\ spent' \subseteq 1 .. issued'
      BY <2>2, NumberFacts DEF AllKnown, Known
    <2>4. ASSUME NEW q \in Process PROVE Known(mem[q])'
      <3>1. mem[q].access <= issued + 1 /\ mem[q].refresh <= issued + 1
        BY NumberFacts DEF AllKnown, Known
      <3>2. CASE q = p
        BY <2>1, <2>2, <3>1, <3>2, NumberFacts DEF TypeOK, Known
      <3>3. CASE q # p
        BY <2>1, <2>2, <3>1, <3>3 DEF TypeOK, Known
      <3> QED BY <3>2, <3>3
    <2> QED BY <2>3, <2>4 DEF AllKnown
  <1> QED BY <1>1, <1>2, <1>3, <1>4, <1>5, <1>6, <1>7, <1>8, <1>9 DEF Next, Step

-----------------------------------------------------------------------------
(* As long as nothing strayed *)

(* Nothing that Clean speaks of changes, but for a process that neither posts *)
(* nor writes, before and after.                                              *)
LEMMA CleanFrame ==
  ASSUME Clean, strayed' = strayed, UNCHANGED <<rows, issued, spent, expired>>,
         NEW p \in Process,
         pc[p] # "write", pc'[p] \notin {"post", "write"} \/ (p = Login /\ pc'[p] = "post"),
         ~dirty[p] => ~dirty'[p],
         \A q \in Process \ {p} :
           /\ pc'[q] = pc[q] /\ mem'[q] = mem[q] /\ dirty'[q] = dirty[q]
           /\ force'[q] = force[q] /\ rejected'[q] = rejected[q]
  PROVE  Clean'
  <1> SUFFICES ASSUME ~strayed'
               PROVE  /\ \A q \in Process : ~dirty'[q]
                      /\ NewestKept' /\ PostsRows'
    BY DEF Clean
  <1>1. (\A q \in Process : ~dirty[q]) /\ NewestKept /\ PostsRows
    BY DEF Clean
  <1>2. \A q \in Process : ~dirty'[q]
    BY <1>1
  <1>3. NewestKept'
    BY <1>1 DEF NewestKept
  <1>4. PostsRows'
    <2>1. ASSUME NEW q \in Daemons, pc'[q] = "post"
          PROVE  q # p /\ q \in Process
      BY <2>1, LoginFacts DEF Process
    <2> QED BY <1>1, <2>1 DEF PostsRows, access_usable
  <1> QED BY <1>2, <1>3, <1>4

LEMMA CleanWorld ==
  ASSUME OAuthInv, Expire \/ StartLogin \/ \E refresh \in Token : Revoke(refresh)
  PROVE  Clean'
  <1> USE DEF OAuthInv
  <1>1. CASE Expire
    <2>1. \A n \in Nat : n > expired' => n > expired
      BY <1>1, NumberFacts DEF Expire
    <2>2. \A n \in Nat : access_usable(n)' => access_usable(n)
      BY <2>1 DEF access_usable
    <2> QED BY <1>1, <2>2, NumberFacts
            DEF Clean, NewestKept, PostsRows, Expire, server, process, access_usable
  <1>2. CASE StartLogin
    <2>1. ~strayed => pc[Login] # "write"
      BY <1>2 DEF StartLogin
    <2> QED BY <1>2, <2>1, LoginFacts, CleanFrame DEF TypeOK, StartLogin, server
  <1>3. CASE \E refresh \in Token : Revoke(refresh)
    BY <1>3 DEF Clean, NewestKept, PostsRows, Revoke, process, access_usable
  <1> QED BY <1>1, <1>2, <1>3

LEMMA CleanDaemon ==
  ASSUME OAuthInv, NEW p \in Daemons,
         Start(p) \/ Reload(p) \/ \E forced \in BOOLEAN : Ensure(p, forced)
  PROVE  Clean'
  <1>1. p \in Process
    BY DEF Process
  <1>2. CASE Start(p)
    BY <1>1, <1>2, CleanFrame DEF OAuthInv, TypeOK, Start, server
  <1>3. CASE Reload(p)
    BY <1>1, <1>3, CleanFrame DEF OAuthInv, TypeOK, Reload, server
  <1>4. CASE \E forced \in BOOLEAN : Ensure(p, forced)
    BY <1>1, <1>4, CleanFrame DEF OAuthInv, TypeOK, Ensure, server
  <1> QED BY <1>2, <1>3, <1>4

LEMMA CleanProcess ==
  ASSUME OAuthInv, NEW p \in Process,
         Lock(p) \/ LockFails(p) \/ LoseConn(p) \/ Crash(p)
  PROVE  Clean'
  <1> USE DEF OAuthInv
  <1>1. CASE Lock(p)
    BY <1>1, CleanFrame DEF TypeOK, Lock, server
  <1>2. CASE LockFails(p)
    BY <1>2, CleanFrame DEF TypeOK, LockFails, Return, server
  <1>3. CASE LoseConn(p)
    BY <1>3 DEF LoseConn, Clean
  <1>4. CASE Crash(p)
    <2>1. CASE pc[p] = "write"
      BY <1>4, <2>1 DEF Crash, Clean
    <2>2. CASE pc[p] # "write"
      <3>1. strayed' = strayed
        BY <1>4, <2>2 DEF Crash, TypeOK
      <3> QED BY <1>4, <2>2, <3>1, CleanFrame DEF TypeOK, Crash, server
    <2> QED BY <2>1, <2>2
  <1> QED BY <1>1, <1>2, <1>3, <1>4

(* The rows hold the newest tokens when a process posts.                      *)
LEMMA RowsNewest ==
  ASSUME OAuthInv, ~strayed, NEW p \in Process, pc[p] \in {"locked", "post"}
  PROVE  /\ rows.access = issued /\ rows.refresh \notin spent
         /\ \A q \in Process : pc[q] \in Critical => q = p
  <1>1. \A q \in Process : pc[q] \in Critical => q = p
    BY OneCritical DEF OAuthInv, Critical
  <1>2. \A q \in Process : pc[q] # "write"
    BY <1>1 DEF Critical
  <1> QED BY <1>1, <1>2 DEF OAuthInv, Clean, NewestKept

LEMMA CleanLocked ==
  ASSUME OAuthInv, NEW p \in Process,
         LockedDirty(p) \/ LockedRead(p) \/ LockedReadFails(p)
  PROVE  Clean'
  <1> USE DEF OAuthInv
  <1>0. strayed' = strayed
    BY DEF LockedDirty, LockedRead, LockedReadFails
  <1>1. CASE LockedDirty(p)
    BY <1>0, <1>1 DEF LockedDirty, Clean
  <1>2. CASE LockedReadFails(p)
    BY <1>2, CleanFrame DEF TypeOK, LockedReadFails, Unlock, Return, server
  <1>3. CASE LockedRead(p) /\ Unlock(p)
    BY <1>3, CleanFrame DEF TypeOK, LockedRead, Unlock, Return, server
  <1>4. CASE LockedRead(p) /\ ~Unlock(p)
    <2> SUFFICES ASSUME ~strayed PROVE Clean'
      BY <1>0 DEF Clean
    <2>1. /\ bx_oauth_decide(force[p], rejected[p], rows) = "refresh"
          /\ pc[p] = "locked" /\ pc' = [pc EXCEPT ![p] = "post"]
          /\ mem' = [mem EXCEPT ![p] = rows]
          /\ UNCHANGED <<rows, force, rejected, dirty, expired, issued, spent>>
      BY <1>4 DEF LockedRead, server
    <2>2. ~access_usable(rows.access) \/ (force[p] /\ rows.access = rejected[p])
      BY <2>1 DEF bx_oauth_decide
    <2>3. /\ rows.access = issued /\ rows.refresh \notin spent
          /\ \A q \in Process : pc[q] \in Critical => q = p
      BY <2>1, RowsNewest
    <2>4. \A q \in Process : pc'[q] # "write" /\ (pc'[q] = "post" => q = p)
      BY <2>1, <2>3 DEF TypeOK, Critical
    <2>5. NewestKept'
      BY <2>1, <2>3, <2>4 DEF NewestKept
    <2>6. PostsRows'
      <3>1. \A q \in Daemons : pc'[q] = "post" => q = p
        BY <2>4 DEF Process
      <3>2. mem'[p] = rows
        BY <2>1 DEF TypeOK
      <3>3. ~access_usable(rows.access)' \/ (force'[p] /\ rows'.access = rejected'[p])
        BY <2>1, <2>2 DEF access_usable
      <3> QED BY <2>1, <3>1, <3>2, <3>3 DEF PostsRows
    <2> QED BY <2>1, <2>5, <2>6 DEF Clean
  <1> QED BY <1>1, <1>2, <1>3, <1>4

LEMMA CleanPost ==
  ASSUME OAuthInv, NEW p \in Process, PostOk(p) \/ PostRejected(p) \/ PostFails(p)
  PROVE  Clean'
  <1> USE DEF OAuthInv
  <1>1. CASE PostRejected(p)
    BY <1>1, CleanFrame DEF TypeOK, PostRejected, Unlock, Return, server
  <1>2. CASE PostFails(p)
    <2>1. CASE strayed' = TRUE
      BY <2>1 DEF Clean
    <2>2. CASE strayed' # TRUE
      <3>1. UNCHANGED <<server, strayed>>
        BY <1>2, <2>2 DEF PostFails
      <3> QED BY <1>2, <3>1, CleanFrame DEF TypeOK, PostFails, Unlock, Return, server
    <2> QED BY <2>1, <2>2
  <1>3. CASE PostOk(p)
    <2> SUFFICES ASSUME ~strayed PROVE Clean'
      BY <1>3 DEF Clean, PostOk
    <2>1. PICK rotate \in BOOLEAN :
            /\ p = Login => rotate
            /\ Issue(p, rotate)
            /\ mem' = [mem EXCEPT ![p] =
                 [access |-> issued + 1,
                  refresh |-> IF rotate THEN issued + 1 ELSE mem[p].refresh]]
      BY <1>3 DEF PostOk
    <2>2. /\ issued' = issued + 1 /\ dirty' = dirty
          /\ pc[p] = "post" /\ pc' = [pc EXCEPT ![p] = "write"]
          /\ spent' \subseteq spent \cup {mem[p].refresh}
          /\ ~rotate => spent' = spent
      BY <1>3, <2>1 DEF PostOk, Issue
    <2>3. /\ rows.refresh \notin spent
          /\ \A q \in Process : pc[q] \in Critical => q = p
      BY <2>2, RowsNewest
    <2>4. /\ mem'[p].access = issued'
          /\ mem'[p].refresh = IF rotate THEN issued + 1 ELSE mem[p].refresh
      BY <2>1, <2>2 DEF TypeOK
    <2>5. mem'[p].refresh \notin spent'
      <3>1. CASE rotate
        <4>1. issued + 1 # mem[p].refresh /\ issued + 1 \notin spent
          BY NumberFacts DEF AllKnown, Known
        <4> QED BY <2>2, <2>4, <3>1, <4>1
      <3>2. CASE ~rotate
        <4>1. p \in Daemons
          BY <2>1, <3>2 DEF Process
        <4>2. mem[p] = rows
          BY <2>2, <4>1 DEF Clean, PostsRows
        <4> QED BY <2>2, <2>3, <2>4, <3>2, <4>2
      <3> QED BY <3>1, <3>2
    <2>6. \A q \in Process : pc'[q] # "post" /\ (pc'[q] = "write" <=> q = p)
      BY <2>2, <2>3 DEF TypeOK, Critical
    <2>7. NewestKept'
      BY <2>4, <2>5, <2>6 DEF NewestKept
    <2>8. PostsRows'
      BY <2>6 DEF PostsRows, Process
    <2> QED BY <2>2, <2>7, <2>8 DEF Clean
  <1> QED BY <1>1, <1>2, <1>3

LEMMA CleanWrite ==
  ASSUME OAuthInv, NEW p \in Process, Write(p) \/ WriteFails(p)
  PROVE  Clean'
  <1> USE DEF OAuthInv
  <1>1. CASE WriteFails(p)
    BY <1>1 DEF WriteFails, Clean
  <1>2. CASE Write(p)
    <2> SUFFICES ASSUME ~strayed PROVE Clean'
      BY <1>2 DEF Clean, Write
    <2>1. /\ rows' = mem[p] /\ dirty' = [dirty EXCEPT ![p] = FALSE] /\ pc[p] = "write"
          /\ UNCHANGED <<issued, spent, mem>>
          /\ pc' = [pc EXCEPT ![p] = IF p = Login THEN "down" ELSE "idle"]
      BY <1>2 DEF Write, Unlock, Return, server
    <2>2. \A q \in Process : pc[q] \in Critical => q = p
      BY <2>1, OneCritical DEF Critical
    <2>3. \A q \in Process : pc'[q] \notin {"post", "write"}
      BY <2>1, <2>2 DEF TypeOK, Critical
    <2>4. rows'.access = issued' /\ rows'.refresh \notin spent'
      BY <2>1 DEF Clean, NewestKept
    <2>5. NewestKept' /\ PostsRows'
      BY <2>3, <2>4 DEF NewestKept, PostsRows, Process
    <2>6. \A q \in Process : ~dirty'[q]
      BY <2>1 DEF Clean, TypeOK
    <2> QED BY <2>5, <2>6 DEF Clean
  <1> QED BY <1>1, <1>2

-----------------------------------------------------------------------------
LEMMA InitOAuthInv == Init => OAuthInv
  <1> SUFFICES ASSUME Init PROVE OAuthInv
    OBVIOUS
  <1>1. TypeOK
    BY InitType
  <1>2. Exclusive /\ LoginFresh
    BY LoginFacts DEF Init, Exclusive, LoginFresh, Critical
  <1>3. AllKnown
    BY <1>1, NumberFacts DEF Init, AllKnown, Known, None
  <1>4. Clean
    BY LoginFacts DEF Init, Clean, NewestKept, PostsRows, Process
  <1> QED BY <1>1, <1>2, <1>3, <1>4 DEF OAuthInv

LEMMA NextOAuthInv == ASSUME OAuthInv, [Next]_vars PROVE OAuthInv'
  <1>1. TypeOK' /\ Exclusive' /\ LoginFresh' /\ AllKnown'
    BY NextType, ExclusiveStep, LoginFreshStep, AllKnownStep DEF OAuthInv
  <1>2. Clean'
    <2>1. CASE UNCHANGED vars
      BY <2>1 DEF OAuthInv, Clean, NewestKept, PostsRows, access_usable, vars,
                  server, process
    <2>2. CASE Next
      BY <2>2, CleanWorld, CleanDaemon, CleanProcess, CleanLocked, CleanPost,
         CleanWrite DEF Next, Step
    <2> QED BY <2>1, <2>2
  <1> QED BY <1>1, <1>2 DEF OAuthInv

(* The invariant of the token refresh holds in every state, for any number of *)
(* processes that share the rows (bx_oauth.c).                                *)
THEOREM OAuthInvariant == Spec => []OAuthInv
  BY InitOAuthInv, NextOAuthInv, PTL DEF Spec

(* No refresh token is posted twice, unless a holder lost the lock or tokens  *)
(* went unsaved (oauth_lock, oauth_read_tokens).                              *)
THEOREM NoTokenPostedTwice == Spec => []PostsUnspent
  <1>1. OAuthInv => PostsUnspent
    <2> SUFFICES ASSUME OAuthInv, NEW p \in Daemons, pc[p] = "post", ~strayed
                 PROVE  mem[p].refresh \notin spent
      BY DEF PostsUnspent
    <2>1. p \in Process /\ mem[p] = rows
      BY DEF Process, OAuthInv, Clean, PostsRows
    <2> QED BY <2>1, RowsNewest
  <1> QED BY <1>1, OAuthInvariant, PTL

(* A process posts only when the tokens in the rows need replacing            *)
(* (bx_oauth_decide on the rows read under the lock).                         *)
THEOREM NoNeedlessPost == Spec => []PostsWhenNeeded
  <1>1. OAuthInv => PostsWhenNeeded
    BY DEF OAuthInv, Clean, PostsRows, PostsWhenNeeded
  <1> QED BY <1>1, OAuthInvariant, PTL

(* Newer tokens are not overwritten by older ones, unless a holder lost the   *)
(* lock or tokens went unsaved (oauth_write_tokens under the lock).           *)
THEOREM NewerTokensStay == Spec => RowsGoForward
  <1>1. ASSUME OAuthInv, Next, ~strayed
        PROVE  rows'.access >= rows.access
    <2>1. CASE rows' = rows
      BY <1>1, <2>1, NumberFacts DEF OAuthInv
    <2>2. CASE rows' # rows
      <3>1. PICK p \in Process : Write(p) \/ WriteFails(p)
        BY <1>1, <2>2
        DEF Next, Step, Expire, StartLogin, Revoke, Start, Reload, Ensure, Lock,
            LockFails, LoseConn, Crash, LockedDirty, LockedRead, LockedReadFails,
            PostOk, PostRejected, PostFails
      <3>2. pc[p] = "write" /\ rows' = mem[p]
        BY <2>2, <3>1 DEF Write, WriteFails
      <3>3. mem[p].access = issued
        BY <1>1, <3>2 DEF OAuthInv, Clean, NewestKept
      <3> QED BY <1>1, <3>2, <3>3, NumberFacts DEF OAuthInv, AllKnown, Known
    <2> QED BY <2>1, <2>2
  <1>2. OAuthInv /\ [Next]_vars => [~strayed => rows'.access >= rows.access]_vars
    BY <1>1
  <1> QED BY <1>2, OAuthInvariant, PTL DEF Spec, RowsGoForward
=============================================================================
