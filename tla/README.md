# Verification of the payment webhook processor

This directory holds TLA+ models of the service in `src/`, TLC runs that check
them on small instances, and TLAPS proofs that hold for every instance.

The service is one HTTP endpoint. A payment provider posts signed events to it;
the service checks the signature, stores the event, turns away duplicates,
brings the payment's row up to date or records why it did not, and answers.
All of that happens inside the request, over three PostgreSQL tables that are
shared by every request in flight.

## 1. The system

| part (source) | state it keeps | operations |
|---|---|---|
| Event and signature (`internal/webhook`) | none | `ParseEvent`, `ValidateSignature` |
| HTTP handler (`internal/http/webhook_handler.go`) | the request's locals | `ServeHTTP`: 405, 400, 401, 400, then 200 or 500 |
| Idempotency service (`internal/service/idempotency.go`) | none | `Process`: insert the event, stop at a duplicate, else update |
| Payment processor (`internal/service/payment_processor.go`, `anomaly.go`) | none | `Process`: read the row, record anomalies, ignore or upsert |
| Repositories (`internal/repository`) | tables `webhook_events`, `payments`, `anomalies` | `Insert`, `GetByPaymentID`, `Upsert`, `Record` |
| Metrics (`internal/metrics`) | counters and histograms of the process | `Inc...`, the timers, the pool gauges |
| Migrations (`internal/db/migrations.go`) | `schema_migrations`, the schema | `RunMigrations` at start-up |
| Pool (`internal/db/db.go`, `database/sql`) | connections in use and idle, callers that wait | `Open`, `ApplyPoolConfig`; every call takes a connection and gives it back |
| Configuration (`internal/config`) | none | `Load` with its defaults |
| Server (`cmd/server/main.go`) | the process | start-up order, signals, `Shutdown` with a deadline, the deferred `Close` |
| Router (`internal/http/router.go`) | none | webhook, `/healthz`, `/metrics`, nothing else |
| Request ids, logging | none | headers, formatting |

**How they interact.** `net/http` runs `ServeHTTP` in a goroutine per request.
The handler calls `IdempotencyService.Process`, which calls the `Insert`
repository and then, through a function value, `PaymentProcessor.Process`,
which calls `GetByPaymentID`, `Record` and `Upsert`. Each repository call is one
SQL statement and therefore one transaction; **no transaction spans two calls**,
and no lock is held between them. All calls use the request's context, which is
cancelled when the client goes away. Every call takes a connection from one pool
for as long as it runs; `main` runs its migrations on the same pool, and the
transaction of a migration keeps its connection over several statements.

**What is hard.**

- Two goroutines work on the same event (a retry while the first attempt is
  still running) or on the same payment (concurrent events). The processor's
  read, its decision and its write are separate statements.
- A failure between the insert and the update: the event is stored and its
  retry is a duplicate. It takes no fault: `payments` indexes an id that
  `webhook_events` only stores, so an id too long for an index is refused late.
- A call that returned an error may have reached the server. Its statement can
  commit later, after the answer and after other goroutines' writes.
- The process dies at any point, also by `os.Exit` when `Shutdown` times out.
- Several instances start at once on one database: nothing but PostgreSQL's
  locks orders their migrations.
- Calls have no deadline of their own: a request waits for a connection, or for
  an answer, until its client gives up. A connection that one path forgets is
  gone; a goroutine that needs two at once can wait for itself.
- A signal comes with requests in flight: they should finish before the database
  is closed, but not hold the process up for ever.
- Timestamps have nanoseconds in memory and microseconds in the tables.
- The error of `Record` is dropped; the counters must still add up on every path.

**What makes each part correct.**

- Endpoint: only authentic, well-formed events get in; each request is counted
  once on the way in and once on the way out, and ends if its body arrives and its
  calls return.
- Idempotency: however often an event is delivered, it is applied at most once;
  a 200 is given only for what is stored.
- Processor: a write follows from the row that was read; an event is written,
  ignored with a true reason, or reported as failed; anomalies are accurate.
- Migrations: each is applied once, in order, completely or not at all, and
  before any instance serves; a lost race costs a restart and nothing else.
- Pool and process: the limit holds whatever is in the environment, nothing is
  held outside of a call, nobody waits for himself, the database is closed after
  the last request, and neither shutdown nor `/healthz` depends on the database.
- Tables: a payment's row is always a whole copy of one event; the foreign keys
  never reject an anomaly.

`PROJECT.json` lists the hazards one by one with the line where each bites.

## 2. The modules

| module | models | how it corresponds to the code |
|---|---|---|
| `WebhookEvent` | `internal/webhook` | Pure operators. A string is an element of `Text`; `TrimSpace` and `ParseRFC3339` are given functions on it. A signature is the pair of the body and the secret it was made with (HMAC taken as collision free). |
| `PaymentRules` | `isTransitionAllowed`, `DetectAnomalies`, the ignore reasons | Pure operators over an event and the row that was read. |
| `WebhookStore` | the three tables and the statements on them | One variable per table; `Commit` runs one statement if the schema `Admits` it. `orphans` holds the statements whose caller no longer waits for them. `applied` is a history variable: the versions the payment rows went through, each with the event that wrote it and the version its writer had read. |
| `WebhookService` | `ServeHTTP`, both `Process` functions, the counters, failures, crashes, the provider | One action per database call and per answer; `pc[h]` says before which call goroutine `h` stands. Between two database calls a goroutine touches only its own locals and atomic counters, so nothing is lost by taking such a stretch as one step. |
| `RequestFlow` | the order of a request's database calls | What remains of `WebhookService` without data: one `pc` per goroutine. `WebhookService` implements it (`ImplementsFlow`); `Server` uses its `Follows` and `AfterError`. |
| `PaymentLedger` | what the processor promises | An abstract specification with two variables: events taken in and versions written. `Spec` lets a write follow any version of the payment that existed; `SerialSpec` only the latest. |
| `WebhookLedger` | the refinement | `Ledger == INSTANCE PaymentLedger WITH ...`: events come from the `webhook_events` rows (by parsing `raw_payload` again), versions from `applied`. |
| `MCWebhookService` | the instances | Texts, requests and symmetry for TLC. |
| `Migrations` | the start of several instances, `RunMigrations`, `migrationApplied`, `applyMigration` | One action per statement; `pc[i]` is the statement instance `i` sends next, `next[i]` the loop index, `tx[i]` what its transaction has done. `abandoned` holds the transactions whose process is gone. |
| `MCMigrations` | the instances | The slice `migrations` and what each version creates. |
| `Config` | `Load` and `ApplyPoolConfig` | Pure operators from the four variables the database depends on to the pool's limits. `Atoi` and `ParseDuration` are given functions on texts. |
| `ConnectionPool` | the pool of `database/sql` | Who holds a connection, who waits, how many are idle. External code, modelled from how the repositories and `main` use it. |
| `Server` | `main`, `NewRouter`, the requests in flight, on one pool | `main` is the statement `main()` stands at, `left` how many migrations it has still to look at, `pc[h]` where the goroutine of client `h` is. |
| `MCServer` | the instances | The environments of `Deployments`, and symmetry, for TLC. |
| `WebhookTypeProofs`, `AtMostOnceProofs`, `ProvenanceProofs`, `LedgerProofs`, `WebhookFlowProofs`, `MetricsProofs`, `MigrationsProofs`, `ServerProofs` | theorems | See section 4. |

`Server` composes `ConnectionPool` (by `EXTENDS`) with `RequestFlow` (by
`INSTANCE`). `WebhookService` says what a request does to the tables, `Server`
what it does to the pool, and the refinement of `RequestFlow` ties the two: the
order of calls `Server` assumes is the one `WebhookService` has.

The operators marked "Seeded bug" are the mutated forms of the definition that
follows them. They take part in no specification; `PROJECT.json` names the
property each must break when it takes the definition's place.

### State and actions of `WebhookService`

| action | code |
|---|---|
| `Receive` | `net/http` starts the goroutine; `IncWebhookRequest` |
| `RejectMethod`, `RejectBody`, `RejectSignature`, `RejectPayload` | the early returns of `ServeHTTP` (405, 400, 401, 400), each with its counters; `RejectBody`: the client is gone, or the body is malformed (a fault) |
| `Accept` | the rest of `ServeHTTP` before `Process` (with the rejections: `BodyEnds`) |
| `InsertEvent`, `InsertDuplicate`, `InsertRejected` | the outcomes of `Insert`: stored, `ErrDuplicateProviderEventID`, refused by the server at every attempt |
| `GetPaymentToCreate`, `GetPaymentToUpdate`, `GetPaymentWithAnomaly`, `GetPaymentEqual` | the outcomes of `GetByPaymentID` and the decisions up to the next statement |
| `RecordAnomaly`, `RecordFails` | `Record`, whose error `recordAnomalies` drops, and the return with `ignored` |
| `UpsertState`, `UpsertRejected` | `Upsert`, and the return with `created` or `updated`; or the key of `payments` refuses the id, at every attempt |
| `CallFails` | an error of `Insert`, `GetByPaymentID` or `Upsert`; the statement may have been sent (`Abandon`) |
| `RespondOK`, `RespondError` | the end of `ServeHTTP`; the provider sees the answer only if it is still there |
| `Disconnect` | the client goes away, the context is cancelled: from now on any call may fail |
| `Crash` | the process ends at any point and starts again with empty counters |
| `Late` | an abandoned statement commits late, or never |

### State and actions of `Migrations`

| action | code |
|---|---|
| `Start`, `Open` | `main` up to `db.Open`, and the ping in it |
| `LookForLedger`, `CreateLedger`, `LedgerConflict` | `CREATE TABLE IF NOT EXISTS schema_migrations`: the server looks, then creates; if another transaction created the table in between, the statement fails on the catalogue's unique index and `main` exits |
| `Check` | the loop and `migrationApplied`, outside of any transaction |
| `LookForTables`, `CreateTables`, `TablesConflict` | `BeginTx` and the SQL of the migration |
| `Record`, `RecordConflict` | the `INSERT` into `schema_migrations`, which waits for another transaction's row and fails if that commits |
| `Commit` | `tx.Commit` |
| `Serve`, `Stop` | the rest of `main` |
| `Die` | a call that fails (the deadline `startupTimeout`, a lost connection) or the end of the process; the transaction stays with the server |
| `RollBack`, `CommitLate` | what the server does with a transaction whose client is gone |

The slice `migrations` has one entry today; it is checked with a second, made-up
entry so that the loop takes more than one turn. The constraints of the schema are in `WebhookStore`.

### State and actions of `Server`

| action | code |
|---|---|
| `Start` | `config.Load`, `sql.Open`, `ApplyPoolConfig`; without a `DATABASE_URL` only `StartFails` can follow |
| `Ask` | `DB.conn`: an idle connection, a new one, or a place among the callers that wait |
| `MainReply` | the ping, `CREATE TABLE IF NOT EXISTS` and `migrationApplied`: one connection each |
| `TxReply` | `BeginTx`, the two statements and `Commit` of `applyMigration`: one connection for all four |
| `StartFails` | an error, `startupTimeout` or a signal before `NotifyContext`: `os.Exit(1)` or death |
| `Connect`, `HangUp` | a client's connection, and its end without a request |
| `Route` | `NewRouter`: the webhook, `/healthz`, `/metrics` or 404 |
| `Step`, `Reply` | what a request does without the database, and an answer of the database |
| `CallIsCancelled`, `Disconnect` | the client goes away; the running call, or the wait for a connection, ends |
| `Signal`, `Shutdown`, `Drained`, `DrainTimesOut`, `Close` | `NotifyContext`, `server.Shutdown` with `shutdownTimeout`, the exit without deferred functions, the deferred `Close` |
| `Die` | `ListenAndServe` returns an error, or the process is killed |
| `Expire` | an idle connection reaches `ConnMaxLifetime` |

### Abstractions

- Ids of `webhook_events` are positions in a sequence. The gaps that a
  `BIGSERIAL` leaves for rejected inserts are left out; nothing compares ids.
- `processing_status` is always `pending` in the code and left out; so are
  `created_at`, `updated_at` and `applied_at`.
- The stored payload is the one that was delivered. `::jsonb` drops all but the
  last of equal keys and reorders the rest; since Go matches keys regardless of
  case, a payload with two spellings of one key could be read differently
  afterwards. Nothing in the code reads `raw_payload` again; the properties do, to
  say which event a row came from.
- `UnstorableBodies` are the bodies `ParseEvent` accepts and the column types do
  not (an escaped NUL character); `UnindexableIDs` the ids longer than an entry of
  an index may be. As a `provider_event_id` such an id fails the insert
  (`IsStorable`), as a `payment_id` only the upsert (`IsPayable`).
- A timestamp is a natural number of ticks; `Resolution` is the number of ticks
  the column type cuts to one (the code: 1000 nanoseconds).
- A counter series keeps the labels some property reads; of a histogram only the
  count is kept, durations and buckets are left out.
- In `WebhookService` waiting for a connection is not taking the step yet; the
  connections themselves are in `Server`.
- In the pool, a connection that comes back broken or expired while others wait
  is replaced by a new one for a caller that waits: one step (`HandOver`). With
  nobody waiting it is dropped: the connection count may stay or go down
  (`PutBack`). The wait counters of `DB.Stats` are left out.
- The server sets no `ReadTimeout` (`main.go:66-69`) and calls have no deadline: a
  client may stay `accepted` for ever, so no liveness property speaks of that
  location, and that a body ends (`BodiesArrive`) or a call returns (`CallsReturn`,
  `DatabaseFairness`) is a premise of a property, never part of a specification.
- In `Server` a statement has no effect but its answer. Which answers are
  possible is a free choice there; the tables are in `WebhookService` and
  `Migrations`.

## 3. The runs

Three kinds of bounds appear: `MaxDeliveries` (deliveries of one request),
`MaxFaults` (failed calls, lost clients and crashes together), `MaxOrphans`
(abandoned statements at a time). `CHECK_DEADLOCK FALSE` is set in the
configurations of the webhook service because that system really may stop: the
provider need not send anything any more, and with the bounds it runs out of
deliveries. `migrations`, `pool` and `progress` check for deadlock: instances
wait for each other's transactions, callers for each other's connections, and
someone must always be able to go on. The runs of `Server` need no bound on
faults or deliveries: a request that ends leaves nothing behind, so their state
spaces are finite as they are. The defaults of `Config` are scaled down there
(2 open, 1 idle) so that the limits are reached.

| run | instance | shows |
|---|---|---|
| `faults` | 2 goroutines, 2 events of one payment, 2 deliveries each, 2 faults, 2 orphans | `TypeOK`, `AppliedAtMostOnce`, `AckedIsStored`, `PaymentProvenance`, `ProcessedIsSettled`, `AnomaliesAccurate`, `AnomalyIsAdmitted`, `OnlyFailuresForget`, `ImplementsFlow`, `ImplementsLedger` |
| `race` | 3 goroutines, 3 events, 2 deliveries each, `Resolution` 2, no fault | `WritesRespectTheirRead`, `StoredIsNotLost`, `ImplementsLedger` |
| `endpoint` | 1 goroutine, 10 requests (one per answer, among them a correctly signed `GET`, and one for each table that refuses its row), 1 fault, counters on | `StoredIsAuthentic`, `MetricsBalance` |
| `metrics` | 2 goroutines, 5 requests with an equal timestamp, anomalies, two events under one provider event id and an event whose payment can have no row, 1 fault, counters on | `MetricsBalance`, `MetricsMatchTables`, `PaymentProvenance` |
| `serial` | 2 goroutines, 3 events, 2 deliveries, 1 fault, 1 orphan, in every behaviour that keeps `Apart` (the `CONSTRAINT` of the configuration) | `PaymentNeverRegresses`, `ImplementsSerialLedger` |
| `retry` | 2 goroutines, 2 events, 3 deliveries, 1 fault, `FairSpec` | `EveryEventIsAcked` under `BodiesArrive`, `CallsReturn`, `ProviderRetries` |
| `migrations` | 3 instances, 2 migrations, 2 deaths, `FairSpec` | `TypeOK`, `AppliedInOrder`, `RecordedIsComplete`, `ServingIsMigrated`, `WaitsLeadForward`, `EveryInstanceServes`, no deadlock |
| `pool` | 3 clients, 2 migrations, 11 environments | `TypeOK`, `PoolIsBounded`, `HeldOnlyInCalls`, `WaitersCanBeServed`, `DatabaseOutlivesRequests`, no deadlock |
| `progress` | 2 clients, 1 migration, one connection, `HangingSpec` | `ProcessStops`, `HealthzAnswers` without any assumption on the database; `StartUpEnds` under `DatabaseFairness`, `EveryRequestEnds` under `DatabaseFairness` and `BodiesArrive`; no deadlock |

Three runs must find a violation, each of something the repository says:

| run | property | what happens |
|---|---|---|
| `duplicate_reply` | `AckedIsNotLost` | The insert commits, a later call fails, the answer is 500. The retry is answered 200 `duplicate`, and the payment is never updated. |
| `lost_update` | `RegressionIsReported` | Two goroutines read before either writes; the older event overwrites the newer one, both are answered `processed`, and no anomaly is recorded. |
| `same_timestamp` | `EqualTimestampSkipsUpsert` | The second of two events with the same nanosecond timestamp looks newer than the truncated stored one and is written. |

**Why these bounds are enough to be interesting.** Two goroutines on one event
need two deliveries; a lost update needs two goroutines and two events; three
goroutines and three events add a write between another goroutine's read and
its write, and a read that is two versions old. `LifeRequests` are three events
that may follow each other pairwise only in some orders, so stale events,
invalid transitions, creations and updates all occur. Two faults allow a crash
after a failed call, and two orphans an abandoned insert and an abandoned
upsert at once. A statement abandoned by a first attempt can commit after a
second attempt has been answered. Timestamps 1 to 3 with `Resolution` 2 put
events on, before and after a boundary of the stored resolution. Three instances
allow one to lose a race while a third starts on what the winner left; two
deaths allow the winner to die with its `COMMIT` on its way, and its successor
again. In `metrics` one
of `Genuine` and `Reused`, which comes second, is turned away whatever the other
is doing; they belong to different payments, so a row made of the wrong one
would show.

In `pool`, three clients and `main` against limits of 1, 2 and 3 give callers
that wait, connections handed over, idle ones dropped and reused; the
environments are those without a URL, with each kind of `DB_MAX_OPEN_CONNS`
(missing, 0, 1, negative, no number), and with idle limits and lifetimes of 0
and the default. The code embeds one migration; `pool` has two, so that `main`
comes back to the pool between two transactions. One connection is the setting
in which a second one at a time would be missed (`progress`). Liveness is checked
with two clients, of every kind and in every order, which compete with each other
for that connection; three make the liveness graph too large for a run.

**Fairness** (`retry`). `Fairness` is `WF(Respond(h))`: Go's scheduler runs a
goroutine that waits for nobody. What the program does not see to is stated as
the premise of `EveryEventIsAcked`: `BodiesArrive` (a client sends its body or goes
away), `CallsReturn` (a call returns, with a result or an error) and
`ProviderRetries` (the provider delivers again while it has seen no 200 and the
bound on deliveries allows it; the bound of three exceeds the attempts one fault
can spoil). No fairness is assumed for faults, crashes or abandoned statements.
A database that hangs is outside of this property; run `progress` is about it.
`EveryEventIsAcked` is about events `webhook_events` can hold: the others get
their 500 at every attempt.

**Fairness** (`migrations`). `WF(Step(i))`: an instance runs, its statements return
when the lock they wait for is free, and whoever operates the service starts an
exited instance again. Nothing in the repository does that: the code exits with
status 1 and never retries, and `docker-compose.yml` sets no restart policy, so
`EveryInstanceServes` rests on that operator. `WF(End)`: PostgreSQL ends the transactions of clients it has
lost, one way or the other. No fairness is assumed for deaths, and weak
fairness is enough: while an instance waits, the transaction it waits for can end.

**Fairness** (`progress`). `HangingSpec` assumes nothing of the database: an
answer may never come. The scheduler runs `main` and the handlers between calls
(`Shutdown`, `Drained`, `Close`, `Step`, `Ask`), a cancelled context ends a call
(`CallIsCancelled`), and the timer of `shutdownTimeout` goes off
(`DrainTimesOut`). The step that waits for a request's body is not among them
(`WaitsForBody`): that it comes about is `BodiesArrive`, a premise of
`EveryRequestEnds`. `EveryRequestEnds` and `StartUpEnds` also have
`DatabaseFairness` as their premise: every call is answered, and a caller that
waits is not passed over for ever (`SF(Served(w))`). `database/sql` hands a
connection to a waiter it picks at random, so over infinitely many hand-overs
each one is picked; weak fairness would say nothing, since a hand-over is enabled
only when a connection comes back. With two clients the one that waits is always
next; the strong form is what more clients need. `main` has no competition before
it serves.

## 4. The proofs

All proofs are for any sets of goroutines, clients, instances, requests and
texts, any resolution, any limits and any bounds. They use the named assumptions
of the modules (`TextAssumption`, `StoreAssumption`, `ServiceAssumption`,
`MigrationsAssumption`, `ConfigAssumption`, `ServerAssumption`), which TLC
evaluates in every run. `ServerProofs` also assumes nothing about the number of
clients: that the connections in use are finitely many is part of its invariant.

### The webhook service

- **`TypeCorrect`: `Spec => []TypeOK`.** The inductive invariant is `TypeInv`.
  `TypeOK` alone is not inductive: a goroutine's next step applies to what it
  holds, so `LocalsOK` says that it has a request, an event or a row where the
  step uses one, and `LatestExists` says that the versions of a payment have a
  latest one (the version a read returns), which is argued along the growth of
  `applied` rather than by induction over a finite set.
- **`AtMostOnce`: `Spec => []AppliedAtMostOnce`.** The right to write for an
  event is a token, the id of its row. `OnceInv` says: ids are unique per
  provider event id (`RowsUnique`); a goroutine past the idempotency check holds
  a token nobody else holds and that is not spent (`HeldByGoroutine`); so does
  an abandoned upsert (`HeldByOrphan`); each token is spent once (`Spent`).
  Without `HeldByOrphan` the invariant is not inductive: a goroutine whose
  upsert failed hands its token to the statement it left behind. Three lemmas
  carry the argument: a step that writes no table may only hand a token on
  (`QuietOnce`), an insert creates one (`InsertOnce`), a write spends one
  (`SpendOnce`). Every action falls under one of them.
- **`ProvenanceProofs`: six safety properties from one invariant**, relative to
  `TypeInv` and `OnceInv`: `StoredIsAuthentic`, `AckedIsStored`,
  `ProcessedIsSettled`, `PaymentProvenance`, `WritesRespectTheirRead`,
  `AnomalyIsAdmitted`. `ProvInv` says where each thing comes from: what a
  goroutine holds at each location (`Good`), what the rows, versions and
  abandoned statements are made of (`TablesGood`), what every acknowledgement
  rests on (`AcksGood`). Its parts speak of rows and versions by position; they
  survive because the tables only grow (`Grows`), which every action satisfies.
- **`FlowRefinement`: `Spec => ImplementsFlow`.** Step by step, from `TypeInv`.
- **`LedgerRefinement`: `Spec => ImplementsLedger`.** The invariant is
  `LedgerInv`, which is `TypeInv /\ OnceInv /\ ProvInv`. A committed insert is the
  ledger's intake, a committed upsert its write, over the version that
  `WritesRespectTheirRead` names and once only by `AppliedAtMostOnce`; every other
  step stutters. Late commits fall under the same two cases: an abandoned
  statement is as good as the goroutine's own.
- **`AnomaliesAreAccurate`: `Spec => []AnomaliesAccurate`.** Recording an anomaly
  spends the token of `OnceInv` as an upsert does. `ReportInv`, relative to
  `LedgerInv`, says so of the rows (`RowsAccurate`), of the abandoned records
  (`PendingAccurate`) and of the goroutines (`HeldUnreported`): what is reported is
  neither written nor on its way, and the other way round. Without
  `PendingAccurate` it is not inductive: the record that commits late could meet a
  write for the same event.
- **`OnlyFailures`: `Spec => OnlyFailuresForget`** and **`NothingIsLost`: `Spec =>
  []StoredIsNotLost`.** An event is kept while it is written, superseded
  (some version of its payment, from whatever time, is one it may not follow), held
  by a goroutine or carried by an abandoned upsert. `HolderStep` says how a goroutine
  may leave the processor: with "processed", and then `ProvInv` in the next state
  says that the event is settled, or through a failed call. `NewRowIsHeld` says the
  same of rows that are new, and what is settled stays so, because the tables only
  grow. `NothingIsLost` follows: until a first fault there is no failed call, no crash
  and no abandoned statement (`NothingAstray`), for any `MaxFaults`; what remains
  is `UpsertRejected`, the exception `StoredIsNotLost` names.
- **`SerialRefinement`: `Spec /\ []Apart => ImplementsSerialLedger`** and
  **`NeverRegresses`: `Spec /\ []Apart => []PaymentNeverRegresses`**, for any number
  of goroutines, orphans and faults. `Apart` says that no two upserts of one payment
  are under way at once, where an upsert is under way from the read it follows
  until it is committed or lost, also when its caller is gone. It is the weakest
  condition of this kind: in `lost_update` two are. `SerialInv` says that every upsert
  under way still has the latest version in hand. A commit keeps it since no other
  upsert of that payment is under way, and an upsert that comes under way has just
  read. The step from "newer than the row" to "the row's timestamp does not go
  back" crosses the truncation of the stored timestamps and rests on
  `StoredMonotone`, for every `Resolution`. The code does nothing to meet the
  condition: these theorems say what would be enough.

### The counters

`MetricsProofs` proves **`MetricsAlwaysBalance`: `Spec => []MetricsBalance`** and
**`MetricsTellTheTables`: `Spec => []MetricsMatchTables`**, assuming
`MetricsEnabled`: `main` always creates the metrics, a nil `*Metrics` occurs in
tests only. The equations (`Balances`, `Tallies`) are linear in the counters, in
the number of goroutines at each location (`At`) and in the length of the tables.
So a step keeps them if what it adds on both sides is the same: `BalanceAdds` and
`TalliesAdd` say this once, for any increments, `StepCounts` says that a step
moves one goroutine and adds one to each series it counts, and each action has a
lemma that does its sum (`ReceiveBalances` to `ErrorBalances`). Two things
strengthen the equations to an invariant. `CountedOK`: finitely many goroutines
are busy, without which a cardinality says nothing, and one about to record an
anomaly has detected one. `NothingAstray`: before the first fault no client is
gone and no statement is left behind, so that every write of a table is counted by
the goroutine that made it; `MetricsMatchTables` speaks of the time before a fault.
An event whose payment is refused (`UpsertRejected`) is stored and failed at once:
hence the count of `failed` outcomes in the third equation of `Tallies`.

### Migrations

- **`MigrationsComplete`: `Spec => []RecordedIsComplete`** (`Migrations`), from
  `MigrationsAssumption`. `CompleteInv` adds that every transaction, open or left
  behind, records only what has its tables when it commits (`IsSound`), and what
  an instance has already created at each statement of `applyMigration`
  (`CreatedBefore`). The step that needs it is `CommitLate`: the commit of a
  process that is gone, onto tables that others may have changed since.
  `LocalStep` covers the actions of one instance that record nothing,
  `InstallComplete` the two that do.
- **`MigrationsTypeCorrect`**, from the same invariant.
- **`MigrationsInOrder`: `Spec => []AppliedInOrder`** and
  **`MigratedBeforeServing`: `Spec => []ServingIsMigrated`.** `OrderInv` says:
  what is recorded is the beginning of the slice (`Ordered`); at most one open or
  abandoned transaction holds a row (`OnlyOneRecords`, the primary key at work)
  and it is the row that comes next (`IsNext`); whatever index an instance has
  reached, everything before it is recorded (`OrderedBefore`). The last one gives
  `ServingIsMigrated` when the index has passed the end.
- **`StartUpHasNoDeadlock`: `Spec => []WaitsLeadForward`.** `CreatedBefore` says
  that a transaction holds tables from "record" on and a row at "commit" only, so
  whoever waits for a table or a row waits for an instance in a later stage, and no
  circle can close. Transactions left behind are no part of one: the server ends
  them.

### The process and its pool

`ServerProofs` proves `TypeOK`, `PoolIsBounded`, `HeldOnlyInCalls`,
`WaitersCanBeServed` and `DatabaseOutlivesRequests` from one invariant,
`ServerInv`: the types and the limit (`PoolOK`, with the finiteness that
counting connections needs, and that whoever waits waits for somebody),
where `main` and the goroutines may be together (`ControlOK`), and the two
properties that are inductive with these. The pool's operations have one lemma
each, free of what the server does (`AcquireOK`, `ReleaseOK`, ...). That the pool
never waits for itself follows from `HeldOnlyInCalls`: a caller that holds a
connection is in a call, `main` and its transaction are never in one at once, and
a pool with a waiter has a holder.

### What is only model-checked

- Liveness (`EveryEventIsAcked`, `EveryInstanceServes`,
  `ProcessStops`, `HealthzAnswers`, `EveryRequestEnds`, `StartUpEnds`): fairness
  and `ENABLED` are out of the prover's reach.

Two of the proved properties have a condition the service does not meet in
general, and the runs `lost_update` and `duplicate_reply` show what happens
without it: `PaymentNeverRegresses` needs `Apart`, and `StoredIsNotLost` speaks of
the time before a first fault and of payments that can have a row.

The missing row of a failed `Record` is forbidden by no property: the code drops
that error on purpose (`_ =`), and `AnomalyIsAdmitted` says only that it is never a
foreign key's.

## 5. Not modelled

- Request ids, logging and tracing: nothing reads them but log lines.
- `PORT`, `APP_ENV` and `ENV`: they reach the listener's address and a log line.
  The signing secret is a constant of `WebhookService`.
- Durations, histogram buckets, the wait counters of the pool, and the exporter:
  measurement.
- Bodies of answers other than their status; the `Content-Type` header.
- Load tests, dashboards and deployment files.

## 6. Plan

Done, in this order: events and rules; tables; service with its runs; ledger
and refinement; type correctness; at most once; migrations; the flow of a
request; configuration, pool and process; the proofs about provenance, the
ledger, the anomalies, the order of migrations and the process; the counters, and
`PaymentNeverRegresses` for any number of goroutines.

What is left:

- Theorems about `PaymentLedger` itself (each event is written once, `SerialSpec`
  takes no payment back), from which the service's own follow by refinement.
- The requests of `Server` as an implementation of `RequestFlow`, as those of
  `WebhookService` are.
