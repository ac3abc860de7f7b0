--------------------------- MODULE WebhookService ---------------------------
(***************************************************************************)
(* The webhook endpoint: every request runs WebhookHandler.ServeHTTP,      *)
(* IdempotencyService.Process and PaymentProcessor.Process in a goroutine  *)
(* of its own, over the tables of WebhookStore.  A goroutine takes one     *)
(* step per database call, which is where others interleave; between two   *)
(* calls it touches only its own variables and the metrics.                *)
(*                                                                         *)
(* The provider delivers a request any number of times (it retries what it *)
(* got no 200 for, and redelivers), may go away while the request is       *)
(* served, a database call may fail, and the process may die.              *)
(***************************************************************************)
EXTENDS WebhookStore

CONSTANTS
  Handlers,        \* the goroutines
  Requests,        \* the requests that may be posted
  SigningSecret,   \* WEBHOOK_SIGNING_SECRET
  NoRequest, NoEvent,
  MetricsEnabled,  \* FALSE: a nil *Metrics, every Inc is a no-op
  MaxDeliveries,   \* bound: deliveries of one request
  MaxFaults,       \* bound: failed calls, lost clients and crashes together
  MaxOrphans       \* bound: statements in orphans at a time

ASSUME ServiceAssumption ==
  /\ Requests \subseteq [method : {"POST", "GET"}, body : Bodies, signature : Signatures]
  /\ NoRequest \notin Requests
  /\ NoEvent \notin PaymentEvents
  /\ MetricsEnabled \in BOOLEAN
  /\ {MaxDeliveries, MaxFaults, MaxOrphans} \subseteq Nat

VARIABLES
  pc,              \* where each goroutine is
  request,         \* the request it serves
  update,          \* its PaymentUpdate; WebhookEventID 0 before the insert
  current,         \* the payments row it read, or NoPayment
  over,            \* history: the version that row was, 0 for no row
  gone,            \* its client has gone away: the context is or will be cancelled
  metrics,         \* the counters of the process
  deliveries,      \* how often each request was delivered
  acks,            \* the 200 responses that reached the provider
  faults           \* how many faults have happened

localVars == <<pc, request, update, current, over, gone>>
worldVars == <<deliveries, acks, faults>>
vars == <<storeVars, localVars, metrics, worldVars>>

Locations == {"idle", "received", "insert", "get", "record", "upsert",
              "processed", "duplicate", "internal_error"}

\* The goroutines inside PaymentProcessor.Process.
Processing == {"get", "record", "upsert"}

Updates == [Event : PaymentEvents \cup {NoEvent}, WebhookEventID : Nat]

NoUpdate == [Event |-> NoEvent, WebhookEventID |-> 0]

ServedStatuses == {"processed", "duplicate"}
ErrorResults == {"method_not_allowed", "invalid_payload", "unauthorized", "internal_error"}
ProcessingStatuses == {"created", "updated", "ignored", "failed"}
WriteOperations == {"insert_webhook_event", "upsert_payment", "insert_anomaly"}

\* The counters and the counts of the histograms, each with one label value;
\* labels no property reads are left out, and a counter without one has "no_label".
Series ==
       ({"requests_total", "signature_failures_total", "duplicates_total",
         "provider_events_total"} \X {"no_label"})
  \cup ({"success_total"} \X ServedStatuses)
  \cup ({"errors_total"} \X ErrorResults)
  \cup ({"payment_processing_total", "processing_duration"} \X ProcessingStatuses)
  \cup ({"payment_ignored_total"} \X IgnoreReasons)
  \cup ({"anomalies_total"} \X AnomalyTypes)
  \cup ({"response_duration"} \X (ServedStatuses \cup ErrorResults))
  \cup ({"database_write_duration"} \X WriteOperations)

ZeroMetrics == [s \in Series |-> 0]

Inc(counted) ==
  metrics' = IF MetricsEnabled
             THEN [s \in Series |-> IF s \in counted THEN metrics[s] + 1 ELSE metrics[s]]
             ELSE metrics

\* The timer of a request reads resultLabel, and the timer of
\* PaymentProcessor.Process resultStatus, when the function returns.
Succeeded(result) == {"success_total", "response_duration"} \X {result}
Erred(result) == {"errors_total", "response_duration"} \X {result}
Outcome(status) == {"payment_processing_total", "processing_duration"} \X {status}

Init ==
  /\ StoreInit
  /\ pc = [h \in Handlers |-> "idle"]
  /\ request = [h \in Handlers |-> NoRequest]
  /\ update = [h \in Handlers |-> NoUpdate]
  /\ current = [h \in Handlers |-> NoPayment]
  /\ over = [h \in Handlers |-> 0]
  /\ gone = [h \in Handlers |-> FALSE]
  /\ metrics = ZeroMetrics
  /\ deliveries = [r \in Requests |-> 0]
  /\ acks = {}
  /\ faults = 0

Goto(h, location) == pc' = [pc EXCEPT ![h] = location]

\* The goroutine ends and its locals are gone.
Finish(h) ==
  /\ Goto(h, "idle")
  /\ request' = [request EXCEPT ![h] = NoRequest]
  /\ update' = [update EXCEPT ![h] = NoUpdate]
  /\ current' = [current EXCEPT ![h] = NoPayment]
  /\ over' = [over EXCEPT ![h] = 0]
  /\ gone' = [gone EXCEPT ![h] = FALSE]

-----------------------------------------------------------------------------
(* WebhookHandler.ServeHTTP up to the call of Process                       *)

Receive(h, r) ==
  /\ pc[h] = "idle"
  /\ deliveries[r] < MaxDeliveries
  /\ deliveries' = [deliveries EXCEPT ![r] = @ + 1]
  /\ request' = [request EXCEPT ![h] = r]
  /\ Goto(h, "received")
  /\ Inc({<<"requests_total", "no_label">>})
  /\ UNCHANGED <<storeVars, update, current, over, gone, acks, faults>>

\* A read or a call fails because the client is gone, or through a fault.
MayFail(h) ==
  IF gone[h] THEN UNCHANGED faults
  ELSE faults < MaxFaults /\ faults' = faults + 1

RejectWith(h, counted) ==
  /\ Finish(h)
  /\ Inc(counted)
  /\ UNCHANGED <<storeVars, deliveries, acks>>

RejectMethod(h) ==
  /\ pc[h] = "received"
  /\ request[h].method # "POST"
  /\ RejectWith(h, Erred("method_not_allowed"))
  /\ UNCHANGED faults

\* io.ReadAll fails when the client goes away before the body is complete, or
\* when what arrives is not the body it announced.
RejectBody(h) ==
  /\ pc[h] = "received"
  /\ request[h].method = "POST"
  /\ MayFail(h)
  /\ RejectWith(h, Erred("invalid_payload"))

IsSigned(r) == ValidateSignature(r.body, r.signature, SigningSecret)

\* Seeded bug: the failure is counted as a signature failure only.
SignatureFailureCountedOnce == {<<"signature_failures_total", "no_label">>}

SignatureFailure == {<<"signature_failures_total", "no_label">>} \cup Erred("unauthorized")

RejectSignature(h) ==
  /\ pc[h] = "received"
  /\ request[h].method = "POST"
  /\ ~IsSigned(request[h])
  /\ RejectWith(h, SignatureFailure)
  /\ UNCHANGED faults

RejectPayload(h) ==
  /\ pc[h] = "received"
  /\ request[h].method = "POST"
  /\ IsSigned(request[h])
  /\ ~IsEvent(request[h].body)
  /\ RejectWith(h, Erred("invalid_payload"))
  /\ UNCHANGED faults

\* The requests that reach IdempotencyService.Process.
IsAcceptable(r) == r.method = "POST" /\ IsSigned(r) /\ IsEvent(r.body)

Accept(h) ==
  /\ pc[h] = "received"
  /\ IsAcceptable(request[h])
  /\ update' = [update EXCEPT ![h].Event = ParseEvent(request[h].body)]
  /\ Goto(h, "insert")
  /\ Inc({<<"provider_events_total", "no_label">>})
  /\ UNCHANGED <<storeVars, request, current, over, gone, worldVars>>

-----------------------------------------------------------------------------
(* IdempotencyService.Process                                               *)

\* The write a goroutine at "insert", "record" or "upsert" is about to send.
WritesOf(h) ==
  CASE pc[h] = "insert" ->
         {[op |-> "insert_webhook_event", event |-> update[h].Event]}
    [] pc[h] = "record" ->
         {[op |-> "insert_anomaly", anomaly |-> a] :
            a \in DetectAnomalies(current[h], update[h].Event, update[h].WebhookEventID)}
    [] pc[h] = "upsert" ->
         {[op |-> "upsert_payment", payment |-> paymentFromEvent(update[h].Event),
           by |-> update[h].WebhookEventID, over |-> over[h]]}
    [] OTHER -> {}

\* A repository's write timer is deferred: it counts the calls that fail, too.
Timed(h) == {"database_write_duration"} \X {statement.op : statement \in WritesOf(h)}

\* Seeded bug: the id handed on is the next one of the sequence.
ReturnedIdNext == Len(webhookEvents') + 1

\* INSERT ... RETURNING id
ReturnedId == Len(webhookEvents')

InsertEvent(h) ==
  /\ pc[h] = "insert"
  /\ \E statement \in WritesOf(h) : Commit(statement)
  /\ update' = [update EXCEPT ![h].WebhookEventID = ReturnedId]
  /\ Goto(h, "get")
  /\ Inc(Timed(h))
  /\ UNCHANGED <<orphans, request, current, over, gone, worldVars>>

\* Seeded bugs: the duplicate is an error like any other; it is not counted; the
\* processing goes on with the row that is there.
AnswerDuplicateAsError(h) == Goto(h, "internal_error") /\ Inc(Timed(h)) /\ UNCHANGED update

AnswerDuplicateUncounted(h) == Goto(h, "duplicate") /\ Inc(Timed(h)) /\ UNCHANGED update

AnswerDuplicateGoesOn(h) ==
  /\ Goto(h, "get")
  /\ \E id \in DOMAIN webhookEvents :
       /\ webhookEvents[id].ProviderEventID = update[h].Event.ProviderEventID
       /\ update' = [update EXCEPT ![h].WebhookEventID = id]
  /\ Inc(Timed(h))

\* ErrDuplicateProviderEventID: the event is taken to be dealt with.
AnswerDuplicate(h) ==
  /\ Goto(h, "duplicate")
  /\ Inc({<<"duplicates_total", "no_label">>} \cup Timed(h))
  /\ UNCHANGED update

InsertDuplicate(h) ==
  /\ pc[h] = "insert"
  /\ IsStorable(update[h].Event)
  /\ IsDuplicate(update[h].Event)
  /\ AnswerDuplicate(h)
  /\ UNCHANGED <<storeVars, request, current, over, gone, worldVars>>

\* jsonb refuses the payload, or the index the id: an error like any other, at
\* every attempt.
InsertRejected(h) ==
  /\ pc[h] = "insert"
  /\ ~IsStorable(update[h].Event)
  /\ Goto(h, "internal_error")
  /\ Inc(Timed(h))
  /\ UNCHANGED <<storeVars, request, update, current, over, gone, worldVars>>

-----------------------------------------------------------------------------
(* PaymentProcessor.Process                                                 *)

ReadPayment(h) ==
  /\ pc[h] = "get"
  /\ current' = [current EXCEPT ![h] = PaymentOf(update[h].Event.PaymentID)]
  /\ over' = [over EXCEPT ![h] = VersionOf(update[h].Event.PaymentID)]
  /\ UNCHANGED <<storeVars, request, update, gone, worldVars>>

GetPaymentToCreate(h) ==
  /\ ReadPayment(h)
  /\ current'[h] = NoPayment
  /\ Goto(h, "upsert")
  /\ UNCHANGED metrics

\* Seeded bugs: the timestamps are not compared; the transition is not checked.
IsWrittenAnyTime(h, payment) ==
  isTransitionAllowed(payment.Status, update[h].Event.PaymentStatus)

IsWrittenAnyStatus(h, payment) == After(update[h].Event, payment)

\* The event passes both checks of Process.
IsWritten(h, payment) == Advances(update[h].Event, payment)

GetPaymentToUpdate(h) ==
  /\ ReadPayment(h)
  /\ current'[h] # NoPayment
  /\ IsWritten(h, current'[h])
  /\ Goto(h, "upsert")
  /\ UNCHANGED metrics

GetPaymentWithAnomaly(h) ==
  /\ ReadPayment(h)
  /\ current'[h] # NoPayment
  /\ LET types == DetectedTypes(current'[h], update[h].Event) IN
     /\ types # {}
     /\ Inc({"anomalies_total"} \X types)
  /\ Goto(h, "record")

\* Process counts the event as ignored, with the reason it has for this row.
Ignored(h, payment) ==
  {<<"payment_ignored_total", IgnoreReason(update[h].Event, payment)>>}
    \cup Outcome("ignored") \cup Timed(h)

\* Seeded bug: an event that is counted as ignored is written all the same.
IgnoreWrites(h, payment) == Goto(h, "upsert") /\ Inc(Ignored(h, payment))

Ignore(h, payment) == Goto(h, "processed") /\ Inc(Ignored(h, payment))

GetPaymentEqual(h) ==
  /\ ReadPayment(h)
  /\ current'[h] # NoPayment
  /\ ~IsWritten(h, current'[h])
  /\ DetectedTypes(current'[h], update[h].Event) = {}
  /\ Ignore(h, current'[h])

\* What follows Record, whose error recordAnomalies drops.
AfterRecord(h) ==
  /\ Ignore(h, current[h])
  /\ UNCHANGED <<request, update, current, over, gone, deliveries, acks>>

RecordAnomaly(h) ==
  /\ pc[h] = "record"
  /\ \E statement \in WritesOf(h) : Commit(statement)
  /\ AfterRecord(h)
  /\ UNCHANGED <<orphans, faults>>

UpsertState(h) ==
  /\ pc[h] = "upsert"
  /\ \E statement \in WritesOf(h) : Commit(statement)
  /\ Goto(h, "processed")
  /\ Inc(Outcome(IF current[h] = NoPayment THEN "created" ELSE "updated") \cup Timed(h))
  /\ UNCHANGED <<orphans, request, update, current, over, gone, worldVars>>

-----------------------------------------------------------------------------
(* Failures                                                                 *)

\* Some of these writes are still on their way to the server.
Abandon(statements) ==
  /\ \E sent \in SUBSET statements : orphans' = orphans \cup sent
  /\ Cardinality(orphans') <= MaxOrphans
  /\ UNCHANGED <<webhookEvents, payments, anomalies, applied>>

\* Seeded bugs: the error of Insert, or of updatePayment, is dropped.
AfterErrorInsertDropped(h) == IF pc[h] = "insert" THEN "processed" ELSE "internal_error"

AfterErrorUpdateDropped(h) == IF pc[h] \in Processing THEN "processed" ELSE "internal_error"

\* Every error is handed up to ServeHTTP.
AfterError(h) == "internal_error"

\* The key of payments refuses an id that Insert has stored, at every attempt.
UpsertRejected(h) ==
  /\ pc[h] = "upsert"
  /\ ~IsPayable(update[h].Event.PaymentID)
  /\ Goto(h, AfterError(h))
  /\ Inc(Timed(h) \cup Outcome("failed"))
  /\ UNCHANGED <<storeVars, request, update, current, over, gone, worldVars>>

\* Insert, GetByPaymentID or Upsert returns an error: the request ends with 500.
CallFails(h) ==
  /\ pc[h] \in {"insert", "get", "upsert"}
  /\ MayFail(h)
  /\ Abandon(WritesOf(h))
  /\ Goto(h, AfterError(h))
  /\ Inc(Timed(h) \cup IF pc[h] \in Processing THEN Outcome("failed") ELSE {})
  /\ UNCHANGED <<request, update, current, over, gone, deliveries, acks>>

RecordFails(h) ==
  /\ pc[h] = "record"
  /\ MayFail(h)
  /\ Abandon(WritesOf(h))
  /\ AfterRecord(h)

\* The provider hangs up: it may have timed out, or lost the connection.
Disconnect(h) ==
  /\ pc[h] # "idle"
  /\ ~gone[h]
  /\ faults < MaxFaults
  /\ gone' = [gone EXCEPT ![h] = TRUE]
  /\ faults' = faults + 1
  /\ UNCHANGED <<storeVars, pc, request, update, current, over, metrics, deliveries, acks>>

\* The process dies or exits (also when Shutdown times out) and starts again.
Crash ==
  /\ faults < MaxFaults
  /\ faults' = faults + 1
  /\ Abandon(UNION {WritesOf(h) : h \in Handlers})
  /\ pc' = [h \in Handlers |-> "idle"]
  /\ request' = [h \in Handlers |-> NoRequest]
  /\ update' = [h \in Handlers |-> NoUpdate]
  /\ current' = [h \in Handlers |-> NoPayment]
  /\ over' = [h \in Handlers |-> 0]
  /\ gone' = [h \in Handlers |-> FALSE]
  /\ metrics' = ZeroMetrics
  /\ UNCHANGED <<deliveries, acks>>

-----------------------------------------------------------------------------
(* The response                                                             *)

\* Seeded bug: every result is answered with a 200.
IsServedAlways(h) == pc[h] \in ServedStatuses \cup {"internal_error"}

IsServed(h) == pc[h] \in ServedStatuses

RespondOK(h) ==
  /\ IsServed(h)
  /\ acks' = IF gone[h] THEN acks
             ELSE acks \cup {[id |-> update[h].Event.ProviderEventID, status |-> pc[h]]}
  /\ Inc(Succeeded(pc[h]))
  /\ Finish(h)
  /\ UNCHANGED <<storeVars, deliveries, faults>>

RespondError(h) ==
  /\ pc[h] = "internal_error"
  /\ Inc(Erred("internal_error"))
  /\ Finish(h)
  /\ UNCHANGED <<storeVars, worldVars>>

-----------------------------------------------------------------------------

Reject(h) == RejectMethod(h) \/ RejectBody(h) \/ RejectSignature(h) \/ RejectPayload(h)

GetPayment(h) ==
  \/ GetPaymentToCreate(h)
  \/ GetPaymentToUpdate(h)
  \/ GetPaymentWithAnomaly(h)
  \/ GetPaymentEqual(h)

\* A goroutine waits for the request's body, or for the database, or for nobody.
BodyEnds(h) == Reject(h) \/ Accept(h)

CallReturns(h) ==
  \/ InsertEvent(h)
  \/ InsertDuplicate(h)
  \/ InsertRejected(h)
  \/ GetPayment(h)
  \/ RecordAnomaly(h)
  \/ UpsertState(h)
  \/ UpsertRejected(h)
  \/ CallFails(h)
  \/ RecordFails(h)

Respond(h) == RespondOK(h) \/ RespondError(h)

\* A step of the goroutine itself.
Advance(h) == BodyEnds(h) \/ CallReturns(h) \/ Respond(h)

Late ==
  /\ \E statement \in orphans : OrphanCommits(statement) \/ OrphanDropped(statement)
  /\ UNCHANGED <<localVars, metrics, worldVars>>

Next ==
  \/ \E h \in Handlers, r \in Requests : Receive(h, r)
  \/ \E h \in Handlers : Advance(h)
  \/ \E h \in Handlers : Disconnect(h)
  \/ Crash
  \/ Late

Spec == Init /\ [][Next]_vars

Acked(id) == \E ack \in acks : ack.id = id

Retry(r) ==
  /\ IsAcceptable(r)
  /\ ~Acked(ParseEvent(r.body).ProviderEventID)
  /\ \E h \in Handlers : Receive(h, r)

\* The scheduler runs a goroutine that waits for nobody.
Fairness == \A h \in Handlers : WF_vars(Respond(h))

FairSpec == Spec /\ Fairness

\* What the program does not see to, main.go having no ReadTimeout and the calls
\* no deadline, and what a property about the end of a request must assume:
\* clients send their bodies or go away, calls return, with a result or an error.
BodiesArrive == \A h \in Handlers : WF_vars(BodyEnds(h))

CallsReturn == \A h \in Handlers : WF_vars(CallReturns(h))

\* The provider delivers a request again until it sees a 200 for its event.
ProviderRetries == \A r \in Requests : WF_vars(Retry(r))

-----------------------------------------------------------------------------
(* Properties                                                               *)

\* The event a row of webhook_events was stored from.
EventOf(id) == ParseEvent(webhookEvents[id].RawPayload)

IdsOf(providerEventID) ==
  {id \in DOMAIN webhookEvents : webhookEvents[id].ProviderEventID = providerEventID}

IsApplied(id) == \E n \in DOMAIN applied : applied[n].by = id

\* Some version of the payment, there from the start or written since, is one that
\* the processor ignores the event for.
IsSuperseded(id) ==
  \E n \in VersionsOf(EventOf(id).PaymentID) : ~Advances(EventOf(id), applied[n].payment)

InProcess(id) ==
  \/ \E h \in Handlers : pc[h] \in Processing /\ update[h].WebhookEventID = id
  \/ \E s \in orphans : s.op = "upsert_payment" /\ s.by = id

\* The event of this row is written, or there is a version that may not be
\* followed by it, or somebody still has it.
IsKept(id) == IsApplied(id) \/ IsSuperseded(id) \/ InProcess(id)

\* Every variable has its type.
TypeOK ==
  /\ StoreTypeOK
  /\ pc \in [Handlers -> Locations]
  /\ request \in [Handlers -> Requests \cup {NoRequest}]
  /\ update \in [Handlers -> Updates]
  /\ current \in [Handlers -> Payments \cup {NoPayment}]
  /\ over \in [Handlers -> Nat]
  /\ gone \in [Handlers -> BOOLEAN]
  /\ metrics \in [Series -> Nat]
  /\ deliveries \in [Requests -> Nat]
  /\ acks \subseteq [id : Identifiers, status : ServedStatuses]
  /\ faults \in Nat

\* However often and however concurrently an event is delivered, and whatever
\* fails, its provider event id is stored once, one goroutine at most is past
\* the idempotency check with it, and it writes the payments row once at most.
AppliedAtMostOnce ==
  /\ \A i, j \in DOMAIN webhookEvents :
       webhookEvents[i].ProviderEventID = webhookEvents[j].ProviderEventID => i = j
  /\ \A g, h \in Handlers :
       /\ pc[g] \in Processing /\ pc[h] \in Processing
       /\ update[g].WebhookEventID = update[h].WebhookEventID
       => g = h
  /\ \A h \in Handlers : pc[h] \in Processing => ~IsApplied(update[h].WebhookEventID)
  /\ \A m, n \in DOMAIN applied : applied[m].by = applied[n].by => m = n

\* A 200, processed or duplicate, is sent only for an event that is stored.
AckedIsStored == \A ack \in acks : IdsOf(ack.id) # {}

\* Only what a delivered POST, signed and well-formed, carried is stored, and its
\* row holds what ParseEvent read in that request's body.
StoredIsAuthentic ==
  \A id \in DOMAIN webhookEvents : \E r \in Requests :
    /\ r.method = "POST" /\ IsEvent(r.body)
    /\ r.signature = computeSignature(r.body, SigningSecret)
    /\ deliveries[r] > 0
    /\ webhookEvents[id] = WebhookEventRow(ParseEvent(r.body))

\* A payments row holds the status and the timestamp of one stored event of
\* that payment, the last one that was written: never a mixture.
PaymentProvenance ==
  \A paymentID \in DOMAIN payments :
    LET n == VersionOf(paymentID) IN
    /\ applied[n].by \in DOMAIN webhookEvents
    /\ payments[paymentID] = PaymentRow(paymentFromEvent(EventOf(applied[n].by)))
    /\ payments[paymentID].PaymentID = paymentID

\* An event answered "processed" has been written to its payment, or is ignored
\* for a version of the payment that really existed.
ProcessedIsSettled ==
  \A ack \in acks : ack.status = "processed" =>
    \E id \in IdsOf(ack.id) : IsApplied(id) \/ IsSuperseded(id)

\* A write over a version the processor read comes from an event that is newer
\* than it and may follow it, also when other writes came in between.
WritesRespectTheirRead ==
  \A n \in DOMAIN applied :
    LET read == applied[n].over IN
    /\ read < n
    /\ read # 0 =>
         /\ read \in VersionsOf(applied[n].payment.PaymentID)
         /\ Advances(EventOf(applied[n].by), applied[read].payment)

\* An anomaly names a stored event that was never written to the payment and a
\* version of that payment it really conflicts with; each event has one at most.
AnomaliesAccurate ==
  /\ \A i \in DOMAIN anomalies :
       LET id == anomalies[i].WebhookEventID IN
       /\ id \in DOMAIN webhookEvents
       /\ anomalies[i] \in DetectAnomalies(anomalies[i].Current, EventOf(id), id)
       /\ \E n \in DOMAIN applied : applied[n].payment = anomalies[i].Current
       /\ ~IsApplied(id)
  /\ \A i, j \in DOMAIN anomalies :
       anomalies[i].WebhookEventID = anomalies[j].WebhookEventID => i = j

\* Recording an anomaly never trips over the foreign keys of the anomalies
\* table, so the error recordAnomalies drops is always a failed call.
AnomalyIsAdmitted ==
  \A h \in Handlers : pc[h] = "record" => \A s \in WritesOf(h) : Admits(s)

\* Until a first fault, a stored event is never forgotten: a goroutine is still
\* processing it, it was written to its payment, or its payment has a version it
\* may not follow.  Only an event whose payment cannot have a row is.
StoredIsNotLost ==
  faults = 0 =>
    \A id \in DOMAIN webhookEvents : IsKept(id) \/ ~IsPayable(EventOf(id).PaymentID)

\* The goroutine that has this event gives it up, with an error for its provider.
FailsWith(id) ==
  \E h \in Handlers :
    pc[h] \in Processing /\ update[h].WebhookEventID = id /\ pc'[h] = "internal_error"

\* The write that carried this event, or that stored it, outlived its caller.
EndsLate(id) ==
  \E s \in orphans \ orphans' :
    \/ s.op = "upsert_payment" /\ s.by = id
    \/ /\ s.op = "insert_webhook_event"
       /\ s.event.ProviderEventID = webhookEvents'[id].ProviderEventID

\* Every event that is stored, or was kept so far, is kept by the step.
KeepsEvents ==
  \A id \in DOMAIN webhookEvents' :
    (id \in DOMAIN webhookEvents => IsKept(id))
    => IsKept(id)' \/ Crash \/ FailsWith(id) \/ EndsLate(id)

\* A stored event is forgotten only where it shows: its goroutine answers 500, the
\* process dies, or its statement was left behind.  No other step, of this or of
\* another request, takes an event from those who have it.
OnlyFailuresForget == [][KeepsEvents]_vars

\* How many goroutines are at each location of a request being served.
At == [place \in Locations \ {"idle"} |-> Cardinality({h \in Handlers : pc[h] = place})]

\* The value of a series among the counters m.
Value(m, name, label) == m[<<name, label>>]

\* The goroutines that have counted the request, and the event, they serve.
Accepted(at) ==
  at["insert"] + at["get"] + at["record"] + at["upsert"]
    + at["processed"] + at["duplicate"] + at["internal_error"]

Busy(at) == at["received"] + Accepted(at)

\* Sums over the label values of a counter.
Successes(m) == Value(m, "success_total", "processed") + Value(m, "success_total", "duplicate")

Errors(m) ==
  Value(m, "errors_total", "method_not_allowed") + Value(m, "errors_total", "invalid_payload")
    + Value(m, "errors_total", "unauthorized") + Value(m, "errors_total", "internal_error")

Upserted(m) ==
  Value(m, "payment_processing_total", "created") + Value(m, "payment_processing_total", "updated")

Conflicting(m) ==
  Value(m, "payment_ignored_total", "older_timestamp")
    + Value(m, "payment_ignored_total", "invalid_terminal_transition")

Detected(m) ==
  Value(m, "anomalies_total", "stale_event")
    + Value(m, "anomalies_total", "invalid_terminal_transition")

\* The counters m agree with each other when at[l] goroutines are at l.
Balances(m, at) ==
  /\ Value(m, "requests_total", "no_label") = Successes(m) + Errors(m) + Busy(at)
  /\ Value(m, "provider_events_total", "no_label") =
       Successes(m) + Value(m, "errors_total", "internal_error") + Accepted(at)
  /\ Value(m, "signature_failures_total", "no_label") = Value(m, "errors_total", "unauthorized")
  /\ Value(m, "duplicates_total", "no_label") =
       Value(m, "success_total", "duplicate") + at["duplicate"]
  /\ Upserted(m) + Value(m, "payment_processing_total", "ignored") =
       Value(m, "success_total", "processed") + at["processed"]
  /\ Value(m, "payment_processing_total", "ignored") =
       Conflicting(m) + Value(m, "payment_ignored_total", "equal_timestamp")
  /\ Detected(m) = Conflicting(m) + at["record"]
  /\ \A result \in ServedStatuses :
       Value(m, "response_duration", result) = Value(m, "success_total", result)
  /\ \A result \in ErrorResults :
       Value(m, "response_duration", result) = Value(m, "errors_total", result)
  /\ \A status \in ProcessingStatuses :
       Value(m, "processing_duration", status) = Value(m, "payment_processing_total", status)
  /\ Value(m, "database_write_duration", "insert_webhook_event") =
       Value(m, "provider_events_total", "no_label") - at["insert"]
  /\ Value(m, "database_write_duration", "insert_anomaly") = Conflicting(m)
  /\ Value(m, "database_write_duration", "upsert_payment") >= Upserted(m)
  /\ Value(m, "database_write_duration", "upsert_payment") <=
       Upserted(m) + Value(m, "payment_processing_total", "failed")

\* Every counter and histogram agrees with the others: each request is counted
\* once when it comes in and once when it is answered, and timed under the result
\* it is counted under, whatever happens to its client; a write is timed also when
\* it fails; only goroutines still at work make up the difference.
MetricsBalance == Balances(metrics, At)

\* The counters m tell how many writes, anomalies and events the tables hold, up
\* to the work in progress.
Tallies(m, at, writes, records, stored) ==
  /\ Upserted(m) = writes
  /\ Conflicting(m) = records
  /\ Value(m, "provider_events_total", "no_label") - Value(m, "duplicates_total", "no_label")
       + Value(m, "payment_processing_total", "failed") =
       stored + at["insert"] + at["internal_error"] + Value(m, "errors_total", "internal_error")

\* Until a first fault the counters tell what the tables hold: created and
\* updated outcomes are writes that took effect, counted anomalies are rows, and
\* the events that are not duplicates are stored or failed before the processor
\* (one that failed in it is both), up to the work in progress.
MetricsMatchTables ==
  faults = 0 => Tallies(metrics, At, Len(applied), Len(anomalies), Len(webhookEvents))

\* The writes of payments that are decided and not yet carried out.
WritesUnderWay ==
  {s \in orphans \cup UNION {WritesOf(h) : h \in Handlers} : s.op = "upsert_payment"}

\* No two writes of one payment are under way at once: what the code does not see to.
Apart ==
  \A s, t \in WritesUnderWay : s.payment.PaymentID = t.payment.PaymentID => s = t

\* The payment's timestamp never goes back from one version to the next.
PaymentNeverRegresses ==
  \A m, n \in DOMAIN applied :
    /\ m < n
    /\ VersionsOf(applied[m].payment.PaymentID) \cap m .. n = {m, n}
    => applied[m].payment.StatusTimestamp <= applied[n].payment.StatusTimestamp

\* When a write takes a payment's timestamp back, an anomaly is recorded for its
\* event by the time the event is no longer in process.
RegressionIsReported ==
  \A m, n \in DOMAIN applied :
    LET id == applied[n].by IN
    /\ m < n
    /\ applied[m].payment.PaymentID = applied[n].payment.PaymentID
    /\ applied[m].payment.StatusTimestamp > applied[n].payment.StatusTimestamp
    => InProcess(id) \/ \E i \in DOMAIN anomalies : anomalies[i].WebhookEventID = id

\* An event answered with a 200 has been written or ignored, or is being
\* processed: it is not forgotten.
AckedIsNotLost == \A ack \in acks : \E id \in IdsOf(ack.id) : IsKept(id)

\* An event as old as the event the payment was read to be from is not written.
EqualTimestampSkipsUpsert ==
  \A n \in DOMAIN applied :
    LET read == applied[n].over IN
    read # 0 => EventOf(applied[n].by).EventTimestamp # EventOf(applied[read].by).EventTimestamp

\* If the provider keeps retrying, bodies arrive and calls return, an event the
\* tables can hold gets its 200 in the end: no failure turns it away for good.
EveryEventIsAcked ==
  BodiesArrive /\ CallsReturn /\ ProviderRetries =>
    \A r \in Requests :
      IsAcceptable(r) /\ IsStorable(ParseEvent(r.body))
        => <>Acked(ParseEvent(r.body).ProviderEventID)
=============================================================================
