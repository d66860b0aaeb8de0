------------------------------- MODULE Application -------------------------------
(***************************************************************************)
(* The service as internal/app/app.go runs it: the pool of database        *)
(* connections that the handlers of internal/handler/v1, the goroutines of *)
(* the processors and the health check share, the start, and the stop:     *)
(* App.Start cancels the context of the processors, waits in GracefulStop  *)
(* for every call, and closes the pool.  What a call of                    *)
(* InvoiceStatusStream receives is in InvoiceStream: no step of it, and no *)
(* goroutine of broadcastUpdatedInvoice, uses a connection.                *)
(*                                                                         *)
(* CreateInvoice keeps a connection while createInvoice acquires another,  *)
(* and so does confirmCONFIRMED for expireInvoice; the handlers of         *)
(* UserService hold one, as a CreateInvoice does that is refused.  A       *)
(* connection is numbered by its holder: the first or the second it has.   *)
(* A worker whose confirmPENDING_MEMPOOL has just updated the invoice      *)
(* holds the lock of its row in the first transaction while expireInvoice  *)
(* updates the same row in the second, and waits for itself.               *)
(***************************************************************************)
EXTENDS Integers, FiniteSets

CONSTANTS
    Streams,    \* calls of InvoiceStatusStream
    Requests,   \* calls of CreateInvoice
    Tasks,      \* goroutines of the processors that use the database
    Health,     \* the goroutine of the health check
    PoolSize,   \* MaxConns of the pool
    MaxOutages  \* bound on the number of times the database is down

ASSUME ApplicationAssumption ==
    /\ IsFiniteSet(Requests) /\ IsFiniteSet(Tasks)
    /\ Requests \cap Tasks = {}
    /\ Health \notin Requests \cup Tasks
    /\ PoolSize \in Nat \ {0}
    /\ MaxOutages \in Nat

VARIABLES
    server,     \* where App.Start is
    ctxDone,    \* the context of App.Start and of the processors is cancelled
    open,       \* the calls of InvoiceStatusStream that have not returned
    step,       \* the next step of a user of the pool
    conns,      \* the connections in use: holder and number
    stored,     \* the requests whose invoice is committed
    database,   \* whether PostgreSQL answers
    outages,    \* how often it has gone down
    status      \* what the health service says

shell   == <<server, ctxDone, open>>
outer   == <<database, outages>>
appVars == <<shell, step, conns, stored, outer, status>>

Nested == Requests \cup Tasks
Users  == Nested \cup {Health}

AppInit ==
    /\ server = "starting"
    /\ ctxDone = FALSE
    /\ open = {}
    /\ step = [u \in Users |-> "none"]
    /\ conns = {}
    /\ stored = {}
    /\ database = "up"
    /\ outages = 0
    /\ status = "UNKNOWN"

Goto(u, next) == step' = [step EXCEPT ![u] = next]

Ended(u) == step[u] \in {"answered", "refused"}

-----------------------------------------------------------------------------
(* pgxpool: Begin waits for a connection to be free or for its context.    *)

PoolOpen == server \in {"starting", "serving", "stopping"}

\* Slip: one too many.
AlmostFree == Cardinality(conns) <= PoolSize

Free == Cardinality(conns) < PoolSize

\* The context of the processors is cancelled; that of a call is not.
Cancelled(u) == ctxDone /\ (u \notin Requests \/ step[u] # "begin")

\* InitDbQueriesWithTx takes connection n.
Begin(u, n, next) ==
    /\ Free /\ PoolOpen /\ database = "up" /\ ~Cancelled(u)
    /\ conns' = conns \cup {<<u, n>>}
    /\ Goto(u, next)

\* It returns an error.
BeginFails(u) ==
    \/ Free /\ (~PoolOpen \/ database = "down")
    \/ Cancelled(u)

\* Slip: the connections of a failed call are not rolled back.
NotReleased(u, ns) == conns

\* The deferred Rollback, or Commit, gives the connections ns back.
Released(u, ns) == conns \ {<<u, n>> : n \in ns}

-----------------------------------------------------------------------------
(* CreateInvoice and the goroutines                                        *)

\* Calls are accepted until GracefulStop, and also after Serve has failed.
Accepting == server = "serving" \/ (server = "closing" /\ ~ctxDone)

Call(r) ==
    /\ step[r] = "none"
    /\ Accepting
    /\ Goto(r, "begin")
    /\ UNCHANGED <<shell, conns, stored, outer, status>>

\* A block, a pool transaction, a timer or persist_cache_timeout.
Spawn(t) ==
    /\ step[t] = "none"
    /\ ~ctxDone
    /\ Goto(t, "begin")
    /\ UNCHANGED <<shell, conns, stored, outer, status>>

BeginFirst(u) ==
    /\ step[u] = "begin"
    /\ \/ Begin(u, 1, "check")
       \/ /\ BeginFails(u)
          /\ Goto(u, IF u \in Requests THEN "refused" ELSE "answered")
          /\ UNCHANGED conns
    /\ UNCHANGED <<shell, stored, outer, status>>

\* The client cancels its call while CreateInvoice waits or queries on its context.
ClientLeaves(r) ==
    /\ step[r] \in {"begin", "check"}
    /\ Goto(r, "refused")
    /\ conns' = Released(r, {1})
    /\ UNCHANGED <<shell, stored, outer, status>>

\* checkIfUserExists and the dispatch succeed; or a worker has a rejected
\* transaction to expire the invoice for.
Check(u) ==
    /\ step[u] = "check"
    /\ database = "up"
    /\ u \in Tasks => ~ctxDone
    /\ Goto(u, "create")
    /\ UNCHANGED <<shell, conns, stored, outer, status>>

\* A negative amount, no such user, an unsupported coin, a failed query.
Refuse(r) ==
    /\ step[r] = "check"
    /\ Goto(r, "refused")
    /\ conns' = Released(r, {1})
    /\ UNCHANGED <<shell, stored, outer, status>>

\* A task that is done with one connection.
Finish(t) ==
    /\ step[t] = "check"
    /\ Goto(t, "answered")
    /\ conns' = Released(t, {1})
    /\ UNCHANGED <<shell, stored, outer, status>>

\* Slip: createInvoice waits on the context of the call.
BeginSecondOfCall(u) ==
    /\ step[u] = "create"
    /\ Begin(u, 2, "insert")
    /\ UNCHANGED <<shell, stored, outer, status>>

\* createInvoice and expireInvoice begin a transaction of their own; that of
\* expireInvoice may then wait for the row that its own caller has locked.
BeginSecond(u) ==
    /\ step[u] = "create"
    /\ \/ Begin(u, 2, "insert")
       \/ u \in Tasks /\ Begin(u, 2, "own")
       \/ /\ BeginFails(u)
          /\ IF u \in Requests
             THEN Goto(u, "refused") /\ conns' = Released(u, {1})
             ELSE Goto(u, "return") /\ UNCHANGED conns
    /\ UNCHANGED <<shell, stored, outer, status>>

\* The address or the row: a query of createInvoice fails.
InsertFails(r) ==
    /\ step[r] = "insert"
    /\ Goto(r, "refused")
    /\ conns' = Released(r, {1, 2})
    /\ UNCHANGED <<shell, stored, outer, status>>

\* Slip: no Commit.
NothingStored(r) == stored

\* The error of Commit is dropped.
Stored(r) == IF database = "up" /\ ~ctxDone THEN stored \cup {r} ELSE stored

\* The queries have succeeded: Commit, and the invoice is returned to CreateInvoice.
CommitCreate(r) ==
    /\ step[r] = "insert"
    /\ stored' = Stored(r)
    /\ conns' = Released(r, {2})
    /\ Goto(r, "return")
    /\ UNCHANGED <<shell, outer, status>>

\* expireInvoice returns to the worker.
Expire(t) ==
    /\ step[t] = "insert"
    /\ conns' = Released(t, {2})
    /\ Goto(t, "return")
    /\ UNCHANGED <<shell, stored, outer, status>>

\* The ExpireInvoiceById that waits for its own caller ends with its context or its
\* connection, and by nothing else.
OwnLockEnds(t) ==
    /\ step[t] = "own"
    /\ ctxDone \/ database = "down"
    /\ conns' = Released(t, {2})
    /\ Goto(t, "return")
    /\ UNCHANGED <<shell, stored, outer, status>>

\* Some other worker has an uncommitted update of an invoice.
RowHeld(t) == \E v \in Tasks \ {t} : step[v] \in {"create", "own"}

\* The update of a worker meets the row, or the tx_id, of another one.
MeetRow(t) ==
    /\ step[t] = "check"
    /\ database = "up" /\ ~ctxDone
    /\ RowHeld(t)
    /\ Goto(t, "wait")
    /\ UNCHANGED <<shell, conns, stored, outer, status>>

\* The other one has ended; or the update fails, and with it the worker.
RowFree(t) ==
    /\ step[t] = "wait"
    /\ \/ ~RowHeld(t) /\ Goto(t, "check")
       \/ (ctxDone \/ database = "down") /\ Goto(t, "return")
    /\ UNCHANGED <<shell, conns, stored, outer, status>>

\* The Commit of the first transaction, in which nothing depends on its outcome.
Return(u) ==
    /\ step[u] = "return"
    /\ conns' = Released(u, {1})
    /\ Goto(u, "answered")
    /\ UNCHANGED <<shell, stored, outer, status>>

-----------------------------------------------------------------------------
(* The health check                                                        *)

Tick ==
    /\ step[Health] = "none"
    /\ server \in {"serving", "stopping", "closing"}
    /\ Goto(Health, IF ctxDone THEN "answered" ELSE "begin")
    /\ UNCHANGED <<shell, conns, stored, outer, status>>

\* Slip: only a failure is told.
OnlyFailure == IF database = "up" THEN status ELSE "NOT_SERVING"

PingResult == IF database = "up" /\ ~ctxDone THEN "SERVING" ELSE "NOT_SERVING"

\* Ping takes a connection, without a deadline.
BeginPing ==
    /\ step[Health] = "begin"
    /\ \/ /\ Begin(Health, 1, "check")
          /\ UNCHANGED status
       \/ /\ BeginFails(Health)
          /\ Goto(Health, "none")
          /\ status' = "NOT_SERVING"
          /\ UNCHANGED conns
    /\ UNCHANGED <<shell, stored, outer>>

Ping ==
    /\ step[Health] = "check"
    /\ status' = PingResult
    /\ conns' = Released(Health, {1})
    /\ Goto(Health, "none")
    /\ UNCHANGED <<shell, stored, outer>>

-----------------------------------------------------------------------------
(* App.Start                                                               *)

\* Ping, Listen and Serve.
StartServer ==
    /\ server = "starting"
    /\ \/ Free /\ database = "up" /\ server' = "serving"
       \/ Free /\ database = "up" /\ server' = "closing"     \* Listen fails
       \/ Free /\ database = "down" /\ server' = "ended"     \* Ping fails
    /\ UNCHANGED <<ctxDone, open, step, conns, stored, outer, status>>

\* Serve returns an error: the context of the processors is not cancelled.
ServeFails ==
    /\ server = "serving"
    /\ ~ctxDone
    /\ server' = "closing"
    /\ UNCHANGED <<ctxDone, open, step, conns, stored, outer, status>>

\* An interrupt: a.ctxCancel().
Interrupt ==
    /\ server = "serving"
    /\ ~ctxDone
    /\ ctxDone' = TRUE
    /\ UNCHANGED <<server, open, step, conns, stored, outer, status>>

GracefulStop ==
    /\ server = "serving"
    /\ ctxDone
    /\ server' = "stopping"
    /\ UNCHANGED <<ctxDone, open, step, conns, stored, outer, status>>

CallsEnded == open = {} /\ \A r \in Requests : step[r] = "none" \/ Ended(r)

GracefulStopReturns ==
    /\ server = "stopping"
    /\ CallsEnded
    /\ server' = "closing"
    /\ UNCHANGED <<ctxDone, open, step, conns, stored, outer, status>>

\* The deferred Close waits for the connections in use.
PoolCloses ==
    /\ server = "closing"
    /\ conns = {}
    /\ server' = "ended"
    /\ UNCHANGED <<ctxDone, open, step, conns, stored, outer, status>>

DatabaseFails ==
    /\ database = "up"
    /\ outages < MaxOutages
    /\ database' = "down"
    /\ outages' = outages + 1
    /\ UNCHANGED <<shell, step, conns, stored, status>>

DatabaseRecovers ==
    /\ database = "down"
    /\ database' = "up"
    /\ UNCHANGED <<shell, step, conns, stored, outages, status>>

-----------------------------------------------------------------------------
(* InvoiceStatusStream                                                     *)

OpenStream(s) ==
    /\ Accepting
    /\ s \notin open
    /\ open' = open \cup {s}
    /\ UNCHANGED <<server, ctxDone, step, conns, stored, outer, status>>

\* Send fails or the client has closed the stream.
StreamEnds(s) ==
    /\ s \in open
    /\ open' = open \ {s}
    /\ UNCHANGED <<server, ctxDone, step, conns, stored, outer, status>>

-----------------------------------------------------------------------------

\* Each step a user takes without waiting for a client.
Advance(u) ==
    \/ u \in Nested /\ (BeginFirst(u) \/ Check(u) \/ BeginSecond(u) \/ Return(u))
    \/ u \in Requests /\ (Refuse(u) \/ InsertFails(u) \/ CommitCreate(u))
    \/ u \in Tasks /\ (Finish(u) \/ Expire(u) \/ OwnLockEnds(u) \/ RowFree(u))
    \/ u = Health /\ (Tick \/ BeginPing \/ Ping)

Stop == GracefulStop \/ GracefulStopReturns \/ PoolCloses

AppNext ==
    /\ server # "ended"
    /\ \/ \E r \in Requests : Call(r) \/ ClientLeaves(r)
       \/ \E t \in Tasks : Spawn(t) \/ MeetRow(t)
       \/ \E u \in Users : Advance(u)
       \/ StartServer \/ ServeFails \/ Interrupt \/ Stop
       \/ DatabaseFails \/ DatabaseRecovers
       \/ \E s \in Streams : OpenStream(s) \/ StreamEnds(s)

AppSpec == AppInit /\ [][AppNext]_appVars

While(A) == server # "ended" /\ A

\* The pool serves its waiters in their order, so that none waits for ever for
\* connections that are given back again and again.
AppFairness ==
    /\ \A u \in Nested : SF_appVars(While(Advance(u)))
    /\ WF_appVars(While(Advance(Health)))
    /\ WF_appVars(While(StartServer)) /\ WF_appVars(While(Stop))

FairAppSpec == AppSpec /\ AppFairness

-----------------------------------------------------------------------------
(* Properties                                                              *)

Steps == {"none", "begin", "check", "wait", "create", "insert", "own", "return",
          "answered", "refused"}

\* The type of every variable; there are no more connections than the pool has.
AppTypeOK ==
    /\ server \in {"starting", "serving", "stopping", "closing", "ended"}
    /\ ctxDone \in BOOLEAN
    /\ open \subseteq Streams
    /\ step \in [Users -> Steps]
    /\ conns \subseteq Users \X {1, 2}
    /\ Cardinality(conns) <= PoolSize
    /\ stored \subseteq Requests
    /\ database \in {"up", "down"}
    /\ outages \in 0..MaxOutages
    /\ status \in {"UNKNOWN", "SERVING", "NOT_SERVING"}

\* Every connection in use is one that its holder's next step needs: whatever
\* fails, is cancelled or is refused in between, none is lost to the pool.
NoLeak ==
    conns = {<<u, 1>> : u \in {v \in Users : step[v] \in
                 {"check", "wait", "create", "insert", "own", "return"}}}
            \cup {<<u, 2>> : u \in {v \in Users : step[v] \in {"insert", "own"}}}

\* Every connection is held by one that waits for a second connection, for a row
\* that it has itself locked, or for the row of such a one.
Standoff ==
    /\ Cardinality(conns) >= PoolSize
    /\ \A c \in conns : step[c[1]] \in {"create", "own", "wait"}

\* Some worker waits for a row that it has itself locked.
OwnLock == \E t \in Tasks : step[t] = "own"

\* The client of an answered CreateInvoice has an invoice that the database has,
\* unless it was down or the service was told to stop.
AnsweredIsStored ==
    \A r \in Requests :
        step[r] \in {"return", "answered"} => r \in stored \/ outages > 0 \/ ctxDone

\* Every call of CreateInvoice ends, unless the pool stands still for ever: as many
\* connections as it has are held by calls and workers that wait for a second one,
\* or by workers that wait in expireInvoice for their own caller.
RequestsEnd ==
    \/ <>[]Standoff
    \/ \A r \in Requests : step[r] = "begin" ~> Ended(r) \/ server = "ended"

\* App.Start returns after an interrupt, unless a client keeps its stream open: the
\* cancelled context ends even a standoff and a worker that waits for itself.  After
\* a failure of Serve, which cancels nothing, both keep the pool from closing.
ShutdownEnds ==
    \/ <>[](open # {})
    \/ <>[]((Standoff \/ OwnLock) /\ ~ctxDone)
    \/ ctxDone \/ server = "closing" ~> server = "ended"

\* The health service follows the database, unless the pool stands still for ever:
\* Ping has no deadline, and the old status stays.
HealthTold ==
    \/ <>[]Standoff
    \/ server = "serving" ~>
           \/ status = IF database = "up" THEN "SERVING" ELSE "NOT_SERVING"
           \/ ctxDone \/ server # "serving"
=============================================================================
