---------------------------- MODULE ApplicationProofs ----------------------------
(* Proofs about Application, for every number of streams, calls, goroutines and  *)
(* outages and every size of the pool.                                           *)
EXTENDS Application, FiniteSetTheorems, TLAPS

\* The steps that use a connection, and those that use a second one.
Using == {"check", "wait", "create", "insert", "own", "return"}
Twice == {"insert", "own"}

\* Each user holds the connections its step needs.
Exact ==
    \A u \in Users :
        /\ <<u, 1>> \in conns <=> step[u] \in Using
        /\ <<u, 2>> \in conns <=> step[u] \in Twice

\* AppTypeOK without the size of the pool.
ShellTypeOK ==
    /\ server \in {"starting", "serving", "stopping", "closing", "ended"}
    /\ ctxDone \in BOOLEAN
    /\ open \subseteq Streams
    /\ step \in [Users -> Steps]
    /\ conns \subseteq Users \X {1, 2}
    /\ stored \subseteq Requests
    /\ database \in {"up", "down"}
    /\ outages \in 0..MaxOutages
    /\ status \in {"UNKNOWN", "SERVING", "NOT_SERVING"}

\* The health check never asks for a second connection, and there was an outage
\* if there is one.
Simple ==
    /\ step[Health] \in {"none", "begin", "check", "answered"}
    /\ database = "down" => outages > 0

AppInv ==
    /\ ShellTypeOK /\ Exact /\ Simple /\ AnsweredIsStored
    /\ Cardinality(conns) <= PoolSize

-----------------------------------------------------------------------------
(* The invariant of the pool.                                              *)

\* A set of connections with one more, taken while one was free, or with some less,
\* still fits the pool.
LEMMA PoolFits ==
  ASSUME ShellTypeOK, Cardinality(conns) <= PoolSize,
         NEW new,
         \/ new \subseteq conns
         \/ Free /\ \E c : new = conns \cup {c}
  PROVE  Cardinality(new) <= PoolSize
<1>1. IsFiniteSet(Users \X {1, 2})
  <2>1. IsFiniteSet(Users)
    BY ApplicationAssumption, FS_AddElement, FS_Union DEF Users, Nested
  <2>2. IsFiniteSet({1, 2})
    <3>1. IsFiniteSet({1}) /\ {1, 2} = {1} \cup {2}
      BY FS_Singleton
    <3> QED BY <3>1, FS_AddElement
  <2> QED BY <2>1, <2>2, FS_Product
<1>2. IsFiniteSet(conns) /\ Cardinality(conns) \in Nat
  BY <1>1, FS_Subset, FS_CardinalityType DEF ShellTypeOK
<1>3. CASE new \subseteq conns
  <2>1. Cardinality(new) <= Cardinality(conns) /\ Cardinality(new) \in Nat
    BY <1>2, <1>3, FS_Subset, FS_CardinalityType
  <2> QED BY <1>2, <2>1, ApplicationAssumption
<1>4. ASSUME Free, NEW c, new = conns \cup {c} PROVE Cardinality(new) <= PoolSize
  <2>1. Cardinality(new) \in {Cardinality(conns), Cardinality(conns) + 1}
    BY <1>2, <1>4, FS_AddElement
  <2> QED BY <1>2, <1>4, <2>1, ApplicationAssumption DEF Free
<1> QED BY <1>3, <1>4

\* A user that takes connection n at the step that needs it leaves the others alone.
LEMMA TakeStep ==
  ASSUME ShellTypeOK, Exact, NEW u \in Users, NEW n \in {1, 2}, NEW next, Begin(u, n, next),
         n = 1 => step[u] \notin Using /\ next \in Using \ Twice,
         n = 2 => step[u] \in Using \ Twice /\ next \in Twice
  PROVE  Exact'
<1>1. \A v \in Users : \A m \in {1, 2} :
         <<v, m>> \in conns \cup {<<u, n>>} <=> <<v, m>> \in conns \/ (v = u /\ m = n)
  OBVIOUS
<1>2. \A v \in Users : \A m \in {1, 2} :
         <<v, m>> \in conns' <=> <<v, m>> \in conns \/ (v = u /\ m = n)
  BY <1>1 DEF Begin
<1>3. step' = [step EXCEPT ![u] = next]
  BY DEF Begin, Goto
<1>4. ASSUME NEW v \in Users
      PROVE  /\ <<v, 1>> \in conns' <=> step'[v] \in Using
             /\ <<v, 2>> \in conns' <=> step'[v] \in Twice
  <2>1. CASE v = u /\ n = 1
    BY <1>2, <1>3, <2>1 DEF ShellTypeOK, Exact, Using, Twice
  <2>2. CASE v = u /\ n = 2
    BY <1>2, <1>3, <2>2 DEF ShellTypeOK, Exact, Using, Twice
  <2>3. CASE v # u
    BY <1>2, <1>3, <2>3 DEF ShellTypeOK, Exact
  <2> QED BY <2>1, <2>2, <2>3
<1> QED BY <1>4 DEF Exact

\* A step of one user, which takes a connection it needs or gives back some of its
\* own, and leaves the others alone.
LEMMA UserStep ==
  ASSUME AppInv, NEW u \in Users, Advance(u)
  PROVE  AppInv'
<1> USE ApplicationAssumption
<1> USE DEF Users, Nested, Goto, BeginFails, Released, Steps, shell, outer
<1>1. UNCHANGED <<shell, outer>>
  BY DEF Advance, BeginFirst, Begin, Check, BeginSecond, Return, Refuse, InsertFails,
         CommitCreate, Finish, Expire, OwnLockEnds, RowFree, Tick, BeginPing, Ping
<1>2. CASE u \in Nested /\ BeginFirst(u)
  <2>1. ShellTypeOK'
    BY <1>2 DEF BeginFirst, Begin, AppInv, ShellTypeOK
  <2>2. Exact'
    <3>1. CASE Begin(u, 1, "check")
      BY <1>2, <3>1, TakeStep DEF BeginFirst, AppInv, Using, Twice
    <3>2. CASE ~Begin(u, 1, "check")
      BY <1>2, <3>2 DEF BeginFirst, AppInv, ShellTypeOK, Exact, Using, Twice
    <3> QED BY <3>1, <3>2
  <2>3. Simple' /\ AnsweredIsStored'
    BY <1>1, <1>2 DEF BeginFirst, Begin, AppInv, ShellTypeOK, Simple, AnsweredIsStored
  <2>4. Cardinality(conns') <= PoolSize
    BY <1>2, PoolFits DEF BeginFirst, Begin, AppInv
  <2> QED BY <2>1, <2>2, <2>3, <2>4 DEF AppInv
<1>3. CASE u \in Nested /\ Check(u)
  <2>1. ShellTypeOK' /\ Exact' /\ Simple' /\ AnsweredIsStored'
    BY <1>1, <1>3 DEF Check, AppInv, ShellTypeOK, Exact, Using, Twice, Simple, AnsweredIsStored
  <2> QED BY <1>3, <2>1 DEF Check, AppInv
<1>4. CASE u \in Nested /\ BeginSecond(u)
  <2>1. ShellTypeOK'
    BY <1>4 DEF BeginSecond, Begin, AppInv, ShellTypeOK
  <2>2. Exact'
    <3>1. CASE Begin(u, 2, "insert") \/ Begin(u, 2, "own")
      BY <1>4, <3>1, TakeStep DEF BeginSecond, AppInv, Using, Twice
    <3>2. CASE ~(Begin(u, 2, "insert") \/ Begin(u, 2, "own"))
      <4>1. step[u] = "create"
        BY <1>4 DEF BeginSecond
      <4>2. CASE u \in Requests
        <5>1. /\ step' = [step EXCEPT ![u] = "refused"]
              /\ conns' = conns \ {<<u, 1>>}
          BY <1>4, <3>2, <4>2 DEF BeginSecond
        <5> QED BY <4>1, <5>1 DEF AppInv, ShellTypeOK, Exact, Using, Twice
      <4>3. CASE u \notin Requests
        <5>1. /\ step' = [step EXCEPT ![u] = "return"]
              /\ conns' = conns
          BY <1>4, <3>2, <4>3 DEF BeginSecond
        <5> QED BY <4>1, <5>1 DEF AppInv, ShellTypeOK, Exact, Using, Twice
      <4> QED BY <4>2, <4>3
    <3> QED BY <3>1, <3>2
  <2>3. Simple' /\ AnsweredIsStored'
    BY <1>1, <1>4 DEF BeginSecond, Begin, AppInv, ShellTypeOK, Simple, AnsweredIsStored
  <2>4. Cardinality(conns') <= PoolSize
    BY <1>4, PoolFits DEF BeginSecond, Begin, AppInv
  <2> QED BY <2>1, <2>2, <2>3, <2>4 DEF AppInv
<1>5. CASE u \in Nested /\ Return(u)
  <2>1. ShellTypeOK' /\ Exact' /\ Simple' /\ AnsweredIsStored'
    BY <1>1, <1>5 DEF Return, AppInv, ShellTypeOK, Exact, Using, Twice, Simple, AnsweredIsStored
  <2>2. Cardinality(conns') <= PoolSize
    BY <1>5, PoolFits DEF Return, AppInv
  <2> QED BY <2>1, <2>2 DEF AppInv
<1>6. CASE u \in Requests /\ (Refuse(u) \/ InsertFails(u))
  <2>1. ShellTypeOK' /\ Exact' /\ Simple' /\ AnsweredIsStored'
    BY <1>1, <1>6
       DEF Refuse, InsertFails, AppInv, ShellTypeOK, Exact, Using, Twice, Simple, AnsweredIsStored
  <2>2. Cardinality(conns') <= PoolSize
    BY <1>6, PoolFits DEF Refuse, InsertFails, AppInv
  <2> QED BY <2>1, <2>2 DEF AppInv
<1>7. CASE u \in Requests /\ CommitCreate(u)
  <2>1. ShellTypeOK' /\ Exact' /\ Simple' /\ AnsweredIsStored'
    BY <1>1, <1>7
       DEF CommitCreate, Stored, AppInv, ShellTypeOK, Exact, Using, Twice, Simple, AnsweredIsStored
  <2>2. Cardinality(conns') <= PoolSize
    BY <1>7, PoolFits DEF CommitCreate, AppInv
  <2> QED BY <2>1, <2>2 DEF AppInv
<1>8. CASE u \in Tasks /\ (Finish(u) \/ Expire(u) \/ OwnLockEnds(u) \/ RowFree(u))
  <2>1. ShellTypeOK' /\ Exact' /\ Simple' /\ AnsweredIsStored'
    BY <1>1, <1>8 
       DEF Finish, Expire, OwnLockEnds, RowFree, AppInv, ShellTypeOK, Exact, Using, Twice, Simple, AnsweredIsStored
  <2>2. Cardinality(conns') <= PoolSize
    BY <1>8, PoolFits DEF Finish, Expire, OwnLockEnds, RowFree, AppInv
  <2> QED BY <2>1, <2>2 DEF AppInv
<1>9. CASE u = Health /\ Tick
  <2>1. ShellTypeOK' /\ Exact' /\ Simple' /\ AnsweredIsStored'
    BY <1>1, <1>9 DEF Tick, AppInv, ShellTypeOK, Exact, Using, Twice, Simple, AnsweredIsStored
  <2> QED BY <1>9, <2>1 DEF Tick, AppInv
<1>10. CASE u = Health /\ (BeginPing \/ Ping)
  <2>1. ShellTypeOK'
    BY <1>10 DEF BeginPing, Begin, Ping, PingResult, AppInv, ShellTypeOK
  <2>2. Exact'
    <3>1. CASE BeginPing /\ Begin(u, 1, "check")
      BY <1>10, <3>1, TakeStep DEF BeginPing, AppInv, Using, Twice
    <3>2. CASE BeginPing /\ ~Begin(Health, 1, "check")
      BY <1>10, <3>2 DEF BeginPing, AppInv, ShellTypeOK, Exact, Using, Twice
    <3>3. CASE Ping
      BY <1>10, <3>3 DEF Ping, AppInv, ShellTypeOK, Exact, Using, Twice
    <3> QED BY <1>10, <3>1, <3>2, <3>3
  <2>3. Simple' /\ AnsweredIsStored'
    BY <1>1, <1>10 DEF BeginPing, Begin, Ping, AppInv, ShellTypeOK, Simple, AnsweredIsStored
  <2>4. Cardinality(conns') <= PoolSize
    BY <1>10, PoolFits DEF BeginPing, Begin, Ping, AppInv
  <2> QED BY <2>1, <2>2, <2>3, <2>4 DEF AppInv
<1> QED BY <1>2, <1>3, <1>4, <1>5, <1>6, <1>7, <1>8, <1>9, <1>10 DEF Advance

\* Every step keeps AppInv.
LEMMA AppInvStep ==
  ASSUME AppInv, [AppNext]_appVars
  PROVE  AppInv'
<1> USE ApplicationAssumption
<1> USE DEF shell, outer
<1>1. ASSUME NEW u \in Users, Advance(u) PROVE AppInv'
  BY <1>1, UserStep
<1>2. ASSUME NEW r \in Requests, Call(r) PROVE AppInv'
  BY <1>2
     DEF Call, Goto, Users, Nested, Steps, Using, Twice, AppInv, ShellTypeOK, Exact, Simple,
         AnsweredIsStored
<1>3. ASSUME NEW t \in Tasks, Spawn(t) \/ MeetRow(t) PROVE AppInv'
  BY <1>3
     DEF Spawn, MeetRow, Goto, Users, Nested, Steps, Using, Twice, AppInv, ShellTypeOK,
         Exact, Simple, AnsweredIsStored
<1>4. ASSUME NEW r \in Requests, ClientLeaves(r) PROVE AppInv'
  <2> USE DEF ClientLeaves, Goto, Released, Users, Nested, Steps
  <2>1. ShellTypeOK'
    BY <1>4 DEF AppInv, ShellTypeOK
  <2>2. Exact'
    BY <1>4 DEF AppInv, ShellTypeOK, Exact, Using, Twice
  <2>3. Simple' /\ AnsweredIsStored'
    BY <1>4 DEF AppInv, ShellTypeOK, Simple, AnsweredIsStored
  <2>4. Cardinality(conns') <= PoolSize
    BY <1>4, PoolFits DEF AppInv
  <2> QED BY <2>1, <2>2, <2>3, <2>4 DEF AppInv
<1>5. ASSUME \/ StartServer \/ ServeFails \/ Interrupt \/ Stop
             \/ DatabaseFails \/ DatabaseRecovers
             \/ \E s \in Streams : OpenStream(s) \/ StreamEnds(s)
      PROVE  AppInv'
  <2>1. UNCHANGED <<step, conns, stored, status>> /\ (ctxDone => ctxDone')
    BY <1>5
       DEF StartServer, ServeFails, Interrupt, Stop, GracefulStop, GracefulStopReturns,
           PoolCloses, DatabaseFails, DatabaseRecovers, OpenStream, StreamEnds
  <2>2. /\ server' \in {"starting", "serving", "stopping", "closing", "ended"}
        /\ ctxDone' \in BOOLEAN /\ open' \subseteq Streams
        /\ database' \in {"up", "down"} /\ outages' \in 0..MaxOutages
        /\ (outages > 0 => outages' > 0) /\ (database' = "down" => outages' > 0)
    <3> USE DEF AppInv, ShellTypeOK, Simple
    <3>1. CASE DatabaseFails
      BY <3>1 DEF DatabaseFails
    <3>2. CASE DatabaseRecovers
      BY <3>2 DEF DatabaseRecovers
    <3>3. CASE \/ StartServer \/ ServeFails \/ Interrupt \/ Stop
               \/ \E s \in Streams : OpenStream(s) \/ StreamEnds(s)
      BY <3>3
         DEF StartServer, ServeFails, Interrupt, Stop, GracefulStop, GracefulStopReturns,
             PoolCloses, OpenStream, StreamEnds
    <3> QED BY <1>5, <3>1, <3>2, <3>3
  <2> QED BY <2>1, <2>2 DEF AppInv, ShellTypeOK, Exact, Simple, AnsweredIsStored
<1>6. CASE UNCHANGED appVars
  BY <1>6 DEF appVars, AppInv, ShellTypeOK, Exact, Simple, AnsweredIsStored
<1> QED BY <1>1, <1>2, <1>3, <1>4, <1>5, <1>6 DEF AppNext

\* AppInv holds in every state.
LEMMA AppInvariant == AppSpec => []AppInv
<1>1. ASSUME AppInit PROVE AppInv
  <2>1. ShellTypeOK
    <3>1. step \in [Users -> Steps]
      BY <1>1 DEF AppInit, Steps
    <3>2. outages \in 0..MaxOutages
      BY <1>1, ApplicationAssumption DEF AppInit
    <3> QED BY <1>1, <3>1, <3>2 DEF AppInit, ShellTypeOK
  <2>2. Exact /\ Simple /\ AnsweredIsStored
    BY <1>1, ApplicationAssumption
       DEF AppInit, Exact, Using, Twice, Simple, AnsweredIsStored, Users, Nested
  <2>3. Cardinality(conns) <= PoolSize
    BY <1>1, ApplicationAssumption, FS_EmptySet DEF AppInit
  <2> QED BY <2>1, <2>2, <2>3 DEF AppInv
<1>2. AppInv /\ [AppNext]_appVars => AppInv'
  BY AppInvStep
<1> QED BY <1>1, <1>2, PTL DEF AppSpec

-----------------------------------------------------------------------------
(* Theorems.                                                               *)

\* The variables keep their types.
THEOREM AppTypeCorrect == AppSpec => []AppTypeOK
<1>1. AppInv => AppTypeOK
  BY DEF AppInv, ShellTypeOK, AppTypeOK
<1> QED BY <1>1, AppInvariant, PTL

\* No connection is lost and none is made up, whatever fails, is cancelled or refused.
THEOREM ConnectionsAreReturned == AppSpec => []NoLeak
<1>1. ASSUME AppInv PROVE NoLeak
  <2> DEFINE first  == {<<u, 1>> : u \in {v \in Users : step[v] \in
                            {"check", "wait", "create", "insert", "own", "return"}}}
  <2> DEFINE second == {<<u, 2>> : u \in {v \in Users : step[v] \in {"insert", "own"}}}
  <2>1. ASSUME NEW c \in conns PROVE c \in first \cup second
    <3>1. PICK u \in Users, n \in {1, 2} : c = <<u, n>>
      BY <1>1 DEF AppInv, ShellTypeOK
    <3> QED BY <1>1, <3>1 DEF AppInv, Exact, Using, Twice
  <2>2. ASSUME NEW c \in first \cup second PROVE c \in conns
    BY <1>1, <2>2 DEF AppInv, Exact, Using, Twice
  <2> QED BY <2>1, <2>2 DEF NoLeak
<1> QED BY <1>1, AppInvariant, PTL

\* An answered CreateInvoice has its invoice in the database, unless the database
\* failed or the service was told to stop.
THEOREM AnsweredAreStored == AppSpec => []AnsweredIsStored
<1>1. AppInv => AnsweredIsStored
  BY DEF AppInv
<1> QED BY <1>1, AppInvariant, PTL
=============================================================================
