------------------------------- MODULE Server -------------------------------
(***************************************************************************)
(* The process: main from start-up to exit, the router, and the requests   *)
(* in flight, all on one connection pool.  What a request does between its *)
(* calls is RequestFlow's; what a migration does to the tables is          *)
(* Migrations'; here a call is asking for a connection, holding it, and    *)
(* giving it back.                                                         *)
(*                                                                         *)
(* A caller is a goroutine of a request, main, or the transaction main     *)
(* keeps open while it applies a migration: that transaction holds a       *)
(* connection over several statements.                                     *)
(***************************************************************************)
EXTENDS ConnectionPool

CONSTANTS
  Handlers,     \* the connections of clients, each with its goroutine
  Main, Tx,     \* main and its transaction, as callers of the pool
  Files,        \* how many migrations are embedded
  Deployments   \* the environments the process may be started in

ASSUME ServerAssumption ==
  /\ Main # Tx
  /\ {Main, Tx} \cap Handlers = {}
  /\ Files \in Nat \ {0}
  /\ Deployments \subseteq Environments

VARIABLES
  main,         \* where main is
  left,         \* how many migrations it has still to look at
  signalled,    \* SIGINT or SIGTERM was received
  pc,           \* where each goroutine is
  gone          \* its client has gone away: the context is cancelled

vars == <<env, poolVars, main, left, signalled, pc, gone>>

Flow == INSTANCE RequestFlow

Callers == Handlers \cup {Main, Tx}

Starting == {"open", "ensure", "check", "begin", "apply", "record", "commit"}

MainLocations == Starting \cup {"exited", "serving", "draining", "closing"}

\* NewRouter: the webhook and, without a call of the database, everything else.
Routes == {"received", "healthz", "metrics", "not_found"}

Locations == {"idle", "accepted", "insert", "get", "record", "upsert",
              "processed", "duplicate", "internal_error"} \cup Routes

Init ==
  /\ env \in Deployments
  /\ NoConnections
  /\ main = "exited"
  /\ left = 0
  /\ signalled = FALSE
  /\ pc = [h \in Handlers |-> "idle"]
  /\ gone = [h \in Handlers |-> FALSE]

\* The process ends, its goroutines and connections with it.
Exit ==
  /\ main' = "exited"
  /\ left' = 0
  /\ signalled' = FALSE
  /\ pc' = [h \in Handlers |-> "idle"]
  /\ gone' = [h \in Handlers |-> FALSE]
  /\ CloseAll
  /\ UNCHANGED env

-----------------------------------------------------------------------------
(* Callers of the pool                                                      *)

\* Seeded bug: healthzHandler pings the database.
HandlerCallsWithHealthz == Flow!Calls \cup {"healthz"}

HandlerCalls == Flow!Calls

\* Seeded bug: the row of schema_migrations is inserted through db, not through tx.
MainCallsWithRecord == {"open", "ensure", "check", "record"}

\* The calls of main on the pool; the others are on its transaction.
MainCalls == {"open", "ensure", "check"}

TxCalls == {"begin", "apply", "record", "commit"}

IsCalling(u) ==
  \/ u \in Handlers /\ pc[u] \in HandlerCalls
  \/ u = Main /\ main \in MainCalls /\ HasDatabaseURL(Load(env))
  \/ u = Tx /\ main \in TxCalls

\* DB.conn looks at the context first.
Ask(u) ==
  /\ IsCalling(u)
  /\ u \in Handlers => ~gone[u]
  /\ Acquire(u)
  /\ UNCHANGED <<env, main, left, signalled, pc, gone>>

-----------------------------------------------------------------------------
(* main                                                                     *)

MainGoto(location) ==
  /\ main' = location
  /\ UNCHANGED <<env, left, signalled, pc, gone>>

Start ==
  /\ main = "exited"
  /\ main' = "open"
  /\ left' = Files
  /\ UNCHANGED <<env, poolVars, signalled, pc, gone>>

\* A migration is done with: the next one is looked at, or the server is started.
NextFile ==
  /\ main' = IF left > 1 THEN "check" ELSE "serving"
  /\ left' = left - 1
  /\ UNCHANGED <<env, signalled, pc, gone>>

\* Where main goes after an answer; whether a migration is recorded is for the
\* database to say.
MainGoesOn ==
  \/ main = "open"   /\ MainGoto("ensure")
  \/ main = "ensure" /\ MainGoto("check")
  \/ main = "check"  /\ (MainGoto("begin") \/ NextFile)
  \/ main = "begin"  /\ MainGoto("apply")
  \/ main = "apply"  /\ MainGoto("record")
  \/ main = "record" /\ MainGoto("commit")
  \/ main = "commit" /\ NextFile

\* Ping, CREATE TABLE IF NOT EXISTS, migrationApplied.
MainReply ==
  /\ main \in MainCalls
  /\ Main \in inUse
  /\ Release(Main)
  /\ MainGoesOn

\* BeginTx and the two statements of applyMigration; Commit ends the transaction.
TxReply ==
  /\ main \in TxCalls \ MainCalls
  /\ Tx \in inUse
  /\ IF main = "commit" THEN Release(Tx) ELSE UNCHANGED poolVars
  /\ MainGoesOn

\* No DATABASE_URL, an error, startupTimeout, or a signal, which kills as long as
\* there is no NotifyContext.
StartFails ==
  /\ main \in Starting
  /\ Exit

Signal ==
  /\ main = "serving"
  /\ signalled' = TRUE
  /\ UNCHANGED <<env, poolVars, main, left, pc, gone>>

\* The listener is closed; further signals are swallowed.
Shutdown ==
  /\ main = "serving"
  /\ signalled
  /\ MainGoto("draining")
  /\ UNCHANGED poolVars

\* Seeded bug: Shutdown is waited for as long as no request is new.
IsDrainedWhenNoneIsNew == \A h \in Handlers : pc[h] \notin {"accepted", "received"}

IsDrained == \A h \in Handlers : pc[h] = "idle"

Drained ==
  /\ main = "draining"
  /\ IsDrained
  /\ MainGoto("closing")
  /\ UNCHANGED poolVars

\* Seeded bug: after shutdownTimeout main goes on waiting.
TimeOutWaits == UNCHANGED vars

\* os.Exit(1) runs no deferred function: the database is not closed.
TimeOut == Exit

DrainTimesOut ==
  /\ main = "draining"
  /\ TimeOut

\* The deferred Close of the metrics and of the database.
Close ==
  /\ main = "closing"
  /\ Exit

\* ListenAndServe returns an error and main exits at once, or the process is killed.
Die ==
  /\ main \notin Starting \cup {"exited"}
  /\ Exit

-----------------------------------------------------------------------------
(* Requests                                                                 *)

\* A goroutine that ends forgets its context.
Goto(h, location) ==
  /\ pc' = [pc EXCEPT ![h] = location]
  /\ gone' = IF location = "idle" THEN [gone EXCEPT ![h] = FALSE] ELSE gone
  /\ UNCHANGED <<env, main, left, signalled>>

Connect(h) ==
  /\ main = "serving"
  /\ pc[h] = "idle"
  /\ Goto(h, "accepted")
  /\ UNCHANGED poolVars

\* No request comes: the client leaves, or Shutdown closes the connection.
HangUp(h) ==
  /\ pc[h] = "accepted"
  /\ Goto(h, "idle")
  /\ UNCHANGED poolVars

Route(h) ==
  /\ pc[h] = "accepted"
  /\ \E route \in Routes : Goto(h, route)
  /\ UNCHANGED poolVars

\* What a goroutine does without the database, the answer included.
Step(h) ==
  /\ pc[h] \notin HandlerCalls \cup {"idle", "accepted"}
  /\ \E location \in Flow!Follows(pc[h]) : Goto(h, location)
  /\ UNCHANGED poolVars

\* The database answers, with a result or with an error.
Reply(h) ==
  /\ pc[h] \in HandlerCalls
  /\ h \in inUse
  /\ Release(h)
  /\ \E location \in Flow!Follows(pc[h]) : Goto(h, location)

\* Seeded bug: the rows of a query that is cancelled are not closed.
AbandonCallLeaks(h) == GiveUp(h)

\* The caller's context is done: a connection it holds goes back to the pool.
AbandonCall(h) == IF h \in inUse THEN Release(h) ELSE GiveUp(h)

CallIsCancelled(h) ==
  /\ pc[h] \in HandlerCalls
  /\ gone[h]
  /\ AbandonCall(h)
  /\ Goto(h, Flow!AfterError(pc[h]))

Disconnect(h) ==
  /\ pc[h] \notin {"idle", "accepted"}
  /\ gone' = [gone EXCEPT ![h] = TRUE]
  /\ UNCHANGED <<env, poolVars, main, left, signalled, pc>>

-----------------------------------------------------------------------------

MainStep == Start \/ MainReply \/ TxReply \/ Shutdown \/ Drained \/ Close

MainEnds == StartFails \/ DrainTimesOut \/ Die

RequestStep(h) ==
  Connect(h) \/ HangUp(h) \/ Route(h) \/ Step(h) \/ Reply(h) \/ CallIsCancelled(h)

Next ==
  \/ MainStep
  \/ MainEnds
  \/ Signal
  \/ \E u \in Callers : Ask(u)
  \/ \E h \in Handlers : RequestStep(h) \/ Disconnect(h)
  \/ Expire /\ UNCHANGED <<env, main, left, signalled, pc, gone>>

Spec == Init /\ [][Next]_vars

\* A handler of the webhook waits for the body, which its client sends.
WaitsForBody(h) == pc[h] = "received"

\* The scheduler and the timers: what happens whatever the clients and the
\* database do.
Fairness ==
  /\ WF_vars(Shutdown) /\ WF_vars(Drained) /\ WF_vars(Close) /\ WF_vars(DrainTimesOut)
  /\ \A u \in Callers : WF_vars(Ask(u))
  /\ \A h \in Handlers : WF_vars(~WaitsForBody(h) /\ Step(h)) /\ WF_vars(CallIsCancelled(h))

HangingSpec == Spec /\ Fairness

\* What a property about the end of a request assumes of the clients, main.go
\* having no ReadTimeout: a body is sent to its end, or its client goes away.
BodiesArrive == \A h \in Handlers : WF_vars(WaitsForBody(h) /\ Step(h))

\* What the properties that need the database assume: every call is answered,
\* and database/sql picks any of the callers that wait, so that none is passed
\* over for ever.
Served(w) ==
  /\ w \in waiting
  /\ \E h \in inUse \cap Handlers : Reply(h) \/ CallIsCancelled(h)
  /\ w \in inUse'

DatabaseFairness ==
  /\ WF_vars(MainReply) /\ WF_vars(TxReply)
  /\ \A h \in Handlers : WF_vars(Reply(h))
  /\ \A w \in Handlers : SF_vars(Served(w))

-----------------------------------------------------------------------------
(* Properties                                                               *)

\* Every variable has its type.
TypeOK ==
  /\ PoolTypeOK(Callers)
  /\ main \in MainLocations
  /\ left \in 0 .. Files
  /\ signalled \in BOOLEAN
  /\ pc \in [Handlers -> Locations]
  /\ gone \in [Handlers -> BOOLEAN]

\* Whatever is in the environment, the process never opens more connections than
\* DB_MAX_OPEN_CONNS allows, or than the default if that is no usable number;
\* only an explicit 0 lifts the limit.
PoolIsBounded ==
  LET asked == Atoi[env.DB_MAX_OPEN_CONNS] IN
  asked # 0 => Stats.OpenConnections <= IF asked \in Nat THEN asked ELSE DefaultMaxOpenConns

\* A connection is held or waited for only during a call: no path through a
\* request, an error, a cancelled context or an exit leaves one behind.
HeldOnlyInCalls == \A u \in inUse \cup waiting : IsCalling(u)

\* While callers wait, someone who holds a connection can go on without another
\* one: the pool never waits for itself, however small it is.
WaitersCanBeServed ==
  waiting # {} => \E u \in inUse : ~(u = Tx /\ Main \in waiting)

\* The database is closed, and the process exits with status 0, only when no
\* request is in flight.
DatabaseOutlivesRequests == main = "closing" => \A h \in Handlers : pc[h] = "idle"

\* After a signal the process exits, also if the database never answers again.
ProcessStops == signalled ~> main = "exited"

\* /healthz answers whatever state the database and the pool are in.
HealthzAnswers == \A h \in Handlers : pc[h] = "healthz" ~> pc[h] = "idle"

\* A request ends, however many others compete for the connections, if its body
\* arrives and the database answers.
EveryRequestEnds ==
  BodiesArrive /\ DatabaseFairness =>
    \A h \in Handlers : pc[h] \notin {"idle", "accepted"} ~> pc[h] = "idle"

\* Start-up comes to an end by itself, without its deadline.
StartUpEnds == DatabaseFairness => (main = "open" ~> main \in {"serving", "exited"})
=============================================================================
