------------------------- MODULE WebhookTypeProofs -------------------------
(***************************************************************************)
(* Type correctness of WebhookService.  TypeOK alone is not inductive: a   *)
(* goroutine must be known to hold a request, an event and a row where its *)
(* next step uses them, and a payment's versions must have a latest one.   *)
(* First come the facts about the operators of WebhookEvent, PaymentRules  *)
(* and WebhookStore: what they return, and that a statement that commits   *)
(* keeps the tables well typed.                                            *)
(***************************************************************************)
EXTENDS WebhookService, TLAPS

\* ParseEvent returns a well-formed event for every body it accepts
\* (webhook.ParseEvent).
LEMMA ParseEventType ==
  ASSUME NEW body \in Bodies, IsEvent(body)
  PROVE  ParseEvent(body) \in PaymentEvents
<1>1. body \in Payloads
  BY DEF Bodies, IsEvent
<1>2. StatusOf(TrimSpace[body.event_type]) \in Statuses
  BY DEF IsEvent, EventTypes, StatusOf, Statuses
<1>3. /\ TrimSpace[body.provider_event_id] \in Identifiers
      /\ TrimSpace[body.payment_id] \in Identifiers
      /\ TrimSpace[body.event_timestamp] \in Text
  BY <1>1, TextAssumption DEF IsEvent, Identifiers, Payloads
<1>4. ParseRFC3339[TrimSpace[body.event_timestamp]] \in Nat
  BY <1>3, TextAssumption DEF IsEvent
<1> QED
  BY <1>2, <1>3, <1>4 DEF ParseEvent, PaymentEvents, IsEvent

\* The microsecond a tick falls in is not later than the tick (pgx truncates).
LEMMA StoredType ==
  ASSUME NEW tick \in Nat
  PROVE  Stored(tick) \in Nat /\ Stored(tick) <= tick
<1> DEFINE R == Resolution
<1>1. R \in Nat /\ R > 0
  BY StoreAssumption
<1> HIDE DEF R
<1>2. tick % R \in 0 .. (R - 1) /\ tick = R * (tick \div R) + (tick % R)
  BY <1>1, Z3
<1>3. tick \div R \in Int
  BY <1>1, Z3
<1>4. tick \div R >= 0
  BY <1>1, <1>2, <1>3, Z3
<1>5. R * (tick \div R) >= 0
  BY <1>1, <1>3, <1>4, Z3
<1>6. tick % R \in Nat /\ tick % R <= tick
  <2> DEFINE q == R * (tick \div R)  m == tick % R
  <2>1. q \in Int /\ q >= 0 /\ tick = q + m /\ m \in 0 .. (R - 1)
    BY <1>1, <1>2, <1>3, <1>5
  <2> HIDE DEF q, m
  <2>2. m \in Nat /\ m <= tick
    BY <2>1, <1>1
  <2> QED
    BY <2>2 DEF m
<1>7. Stored(tick) = tick - (tick % R)
  BY DEF Stored, R
<1> QED
  BY <1>6, <1>7

\* What is written to a table is as well formed as what was to be written.
LEMMA RowTypes ==
  /\ \A event \in PaymentEvents :
       /\ WebhookEventRow(event) \in PaymentEvents
       /\ WebhookEventRow(event).ProviderEventID = event.ProviderEventID
       /\ WebhookEventRow(event).RawPayload = event.RawPayload
  /\ \A payment \in Payments :
       PaymentRow(payment) \in Payments /\ PaymentRow(payment).PaymentID = payment.PaymentID
<1>1. ASSUME NEW event \in PaymentEvents
      PROVE  /\ WebhookEventRow(event) \in PaymentEvents
             /\ WebhookEventRow(event).ProviderEventID = event.ProviderEventID
             /\ WebhookEventRow(event).RawPayload = event.RawPayload
  <2>1. Stored(event.EventTimestamp) \in Nat
    BY StoredType DEF PaymentEvents
  <2> QED
    BY <2>1 DEF WebhookEventRow, PaymentEvents
<1>2. ASSUME NEW payment \in Payments
      PROVE  PaymentRow(payment) \in Payments /\ PaymentRow(payment).PaymentID = payment.PaymentID
  <2>1. Stored(payment.StatusTimestamp) \in Nat
    BY StoredType DEF Payments
  <2> QED
    BY <2>1 DEF PaymentRow, Payments
<1> QED
  BY <1>1, <1>2

\* paymentFromEvent builds a well-formed payment of the event's payment id.
LEMMA PaymentFromEventType ==
  ASSUME NEW event \in PaymentEvents
  PROVE  paymentFromEvent(event) \in Payments
BY DEF paymentFromEvent, Payments, PaymentEvents

\* DetectAnomalies returns well-formed anomalies of the event it is given.
LEMMA DetectAnomaliesType ==
  ASSUME NEW row \in Payments, NEW event \in PaymentEvents, NEW id \in Nat
  PROVE  DetectAnomalies(row, event, id) \subseteq Anomalies
<1>1. DetectedTypes(row, event) \subseteq AnomalyTypes
  BY DEF DetectedTypes, AnomalyTypes
<1> QED
  BY <1>1 DEF DetectAnomalies, Anomalies, PaymentEvents, Payments

\* A statement that commits keeps the tables well typed: Insert, Upsert and
\* Record write rows of the declared columns only.
LEMMA CommitType ==
  ASSUME StoreTypeOK, NEW statement \in Statements, Commit(statement),
         orphans' \subseteq Statements
  PROVE  StoreTypeOK'
<1>1. CASE statement.op = "insert_webhook_event"
  <2>1. statement.event \in PaymentEvents
    BY <1>1 DEF Statements
  <2>2. /\ webhookEvents' = Append(webhookEvents, WebhookEventRow(statement.event))
        /\ UNCHANGED <<payments, anomalies, applied>>
    BY <1>1 DEF Commit, InsertWebhookEvent
  <2>3. webhookEvents' \in Seq(PaymentEvents)
    BY <2>1, <2>2, RowTypes DEF StoreTypeOK
  <2> QED
    BY <2>2, <2>3 DEF StoreTypeOK
<1>2. CASE statement.op = "upsert_payment"
  <2> DEFINE row == PaymentRow(statement.payment)
             id == row.PaymentID
             new == IF id \in DOMAIN payments THEN OnConflict(payments[id], row) ELSE row
  <2>1. statement.payment \in Payments /\ statement.by \in Nat /\ statement.over \in Nat
    BY <1>2 DEF Statements
  <2>2. row \in Payments /\ id \in Identifiers
    BY <2>1, RowTypes DEF Payments
  <2>3. /\ payments' = [i \in DOMAIN payments \cup {id} |-> IF i = id THEN new ELSE payments[i]]
        /\ applied' = Append(applied, [payment |-> row, by |-> statement.by,
                                       over |-> statement.over])
        /\ UNCHANGED <<webhookEvents, anomalies>>
    BY <1>2 DEF Commit, UpsertPayment
  <2>4. new \in Payments
    BY <2>2 DEF OnConflict, Payments, StoreTypeOK
  <2> HIDE DEF row, id, new
  <2>5. applied' \in Seq(Versions)
    BY <2>1, <2>2, <2>3 DEF StoreTypeOK, Versions
  <2>6. DOMAIN payments' \subseteq Identifiers /\ payments' \in [DOMAIN payments' -> Payments]
    BY <2>2, <2>3, <2>4 DEF StoreTypeOK
  <2> QED
    BY <2>3, <2>5, <2>6 DEF StoreTypeOK
<1>3. CASE statement.op = "insert_anomaly"
  <2>1. statement.anomaly \in Anomalies
    BY <1>3 DEF Statements
  <2>2. /\ anomalies' = Append(anomalies, statement.anomaly)
        /\ UNCHANGED <<webhookEvents, payments, applied>>
    BY <1>3 DEF Commit, InsertAnomaly
  <2>3. anomalies' \in Seq(Anomalies)
    BY <2>1, <2>2 DEF StoreTypeOK
  <2> QED
    BY <2>2, <2>3 DEF StoreTypeOK
<1> QED
  BY <1>1, <1>2, <1>3 DEF Statements

-----------------------------------------------------------------------------

\* What a goroutine holds at the places that use it.
LocalsOK ==
  \A h \in Handlers :
    /\ pc[h] = "received" => request[h] \in Requests
    /\ pc[h] \notin {"idle", "received"} => update[h].Event \in PaymentEvents
    /\ pc[h] = "record" => current[h] \in Payments

LatestExists ==
  \A id \in Identifiers :
    \E m \in {0} \cup VersionsOf(id) : \A n \in {0} \cup VersionsOf(id) : m >= n

TypeInv == TypeOK /\ LocalsOK /\ LatestExists

-----------------------------------------------------------------------------

\* Counting keeps the counters natural numbers (metrics.Inc...).
LEMMA IncType ==
  ASSUME metrics \in [Series -> Nat], NEW counted, Inc(counted)
  PROVE  metrics' \in [Series -> Nat]
BY DEF Inc

\* A goroutine that ends leaves well-typed locals behind (ServeHTTP returns).
LEMMA FinishType ==
  ASSUME TypeInv, NEW h \in Handlers, Finish(h)
  PROVE  /\ pc' \in [Handlers -> Locations]
         /\ request' \in [Handlers -> Requests \cup {NoRequest}]
         /\ update' \in [Handlers -> Updates]
         /\ current' \in [Handlers -> Payments \cup {NoPayment}]
         /\ over' \in [Handlers -> Nat]
         /\ gone' \in [Handlers -> BOOLEAN]
         /\ LocalsOK'
<1>1. "idle" \in Locations /\ NoUpdate \in Updates
  BY DEF Locations, NoUpdate, Updates
<1>2. /\ pc' \in [Handlers -> Locations]
      /\ request' \in [Handlers -> Requests \cup {NoRequest}]
      /\ update' \in [Handlers -> Updates]
      /\ current' \in [Handlers -> Payments \cup {NoPayment}]
      /\ over' \in [Handlers -> Nat]
      /\ gone' \in [Handlers -> BOOLEAN]
  BY <1>1 DEF Finish, Goto, TypeInv, TypeOK
<1>3. ASSUME NEW g \in Handlers
      PROVE  /\ pc'[g] = "received" => request'[g] \in Requests
             /\ pc'[g] \notin {"idle", "received"} => update'[g].Event \in PaymentEvents
             /\ pc'[g] = "record" => current'[g] \in Payments
  BY DEF Finish, Goto, TypeInv, TypeOK, LocalsOK
<1> QED
  BY <1>2, <1>3 DEF LocalsOK

\* The statements a goroutine sends are well typed.
LEMMA WritesType ==
  ASSUME TypeInv, NEW h \in Handlers
  PROVE  WritesOf(h) \subseteq Statements
<1>1. update[h].WebhookEventID \in Nat /\ over[h] \in Nat
  BY DEF TypeInv, TypeOK, Updates
<1>2. CASE pc[h] = "insert"
  <2>1. update[h].Event \in PaymentEvents
    BY <1>2 DEF TypeInv, LocalsOK
  <2> QED
    BY <1>2, <2>1 DEF WritesOf, Statements
<1>3. CASE pc[h] = "record"
  <2>1. update[h].Event \in PaymentEvents /\ current[h] \in Payments
    BY <1>3 DEF TypeInv, LocalsOK
  <2>2. DetectAnomalies(current[h], update[h].Event, update[h].WebhookEventID) \subseteq Anomalies
    BY <1>1, <2>1, DetectAnomaliesType
  <2> QED
    BY <1>3, <2>2 DEF WritesOf, Statements
<1>4. CASE pc[h] = "upsert"
  <2>1. update[h].Event \in PaymentEvents
    BY <1>4 DEF TypeInv, LocalsOK
  <2>2. paymentFromEvent(update[h].Event) \in Payments
    BY <2>1, PaymentFromEventType
  <2> QED
    BY <1>1, <1>4, <2>2 DEF WritesOf, Statements
<1>5. CASE pc[h] \notin {"insert", "record", "upsert"}
  BY <1>5 DEF WritesOf
<1> QED
  BY <1>2, <1>3, <1>4, <1>5

\* The version a read returns is 0 or a version there is (GetByPaymentID).
LEMMA VersionOfType ==
  ASSUME LatestExists, applied \in Seq(Versions), NEW id \in Identifiers
  PROVE  /\ VersionOf(id) \in {0} \cup VersionsOf(id)
         /\ \A n \in VersionsOf(id) : n <= VersionOf(id)
         /\ VersionOf(id) \in Nat
<1>1. VersionsOf(id) \subseteq Nat
  BY DEF VersionsOf
<1>2. PICK m \in {0} \cup VersionsOf(id) : \A n \in {0} \cup VersionsOf(id) : m >= n
  BY DEF LatestExists
<1>3. /\ VersionOf(id) \in {0} \cup VersionsOf(id)
      /\ \A n \in {0} \cup VersionsOf(id) : VersionOf(id) >= n
  BY <1>2 DEF VersionOf, Max
<1> QED
  BY <1>1, <1>3

\* A write makes itself the latest version of its payment and leaves the others.
LEMMA CommitLatest ==
  ASSUME StoreTypeOK, LatestExists, NEW statement \in Statements, Commit(statement)
  PROVE  LatestExists'
<1>1. CASE UNCHANGED applied
  BY <1>1 DEF LatestExists, VersionsOf
<1>2. CASE statement.op = "upsert_payment"
  <2>1. PICK v \in Versions : applied' = Append(applied, v)
    <3>1. /\ PaymentRow(statement.payment) \in Payments
          /\ statement.by \in Nat /\ statement.over \in Nat
      BY <1>2, RowTypes DEF Statements
    <3> QED
      BY <1>2, <3>1 DEF Commit, UpsertPayment, Versions
  <2> DEFINE k == Len(applied) + 1
  <2>2. /\ DOMAIN applied = 1 .. Len(applied) /\ Len(applied) \in Nat
        /\ DOMAIN applied' = 1 .. k
        /\ applied'[k] = v
        /\ \A n \in DOMAIN applied : applied'[n] = applied[n]
    BY <2>1 DEF StoreTypeOK
  <2>3. ASSUME NEW id \in Identifiers
        PROVE  \E m \in {0} \cup VersionsOf(id)' :
                 \A n \in {0} \cup VersionsOf(id)' : m >= n
    <3>1. CASE v.payment.PaymentID = id
      <4>1. k \in VersionsOf(id)' /\ VersionsOf(id)' \subseteq 1 .. k
        BY <2>2, <3>1 DEF VersionsOf
      <4> QED
        BY <4>1, <2>2
    <3>2. CASE v.payment.PaymentID # id
      <4>1. VersionsOf(id)' = VersionsOf(id)
        BY <2>2, <3>2 DEF VersionsOf
      <4> QED
        BY <4>1 DEF LatestExists
    <3> QED
      BY <3>1, <3>2
  <2> QED
    BY <2>3 DEF LatestExists
<1> QED
  BY <1>1, <1>2 DEF Statements, Commit, InsertWebhookEvent, InsertAnomaly

\* Abandoning a well-typed statement keeps the tables as they are.
LEMMA AbandonType ==
  ASSUME TypeInv, NEW statements \in SUBSET Statements, Abandon(statements)
  PROVE  StoreTypeOK' /\ LatestExists'
<1>1. orphans' \subseteq Statements
  BY DEF Abandon, TypeInv, TypeOK, StoreTypeOK
<1>2. UNCHANGED <<webhookEvents, payments, anomalies, applied>>
  BY DEF Abandon
<1> QED
  BY <1>1, <1>2 DEF TypeInv, TypeOK, StoreTypeOK, LatestExists, VersionsOf

\* So does every step that leaves the tables alone.
LEMMA StoreUnchangedType ==
  ASSUME TypeInv, UNCHANGED storeVars
  PROVE  StoreTypeOK' /\ LatestExists'
BY DEF TypeInv, TypeOK, StoreTypeOK, LatestExists, VersionsOf, storeVars

\* A goroutine's statement that commits leaves the tables well typed.
LEMMA CommitWritesType ==
  ASSUME TypeInv, NEW h \in Handlers, NEW statement \in WritesOf(h), Commit(statement),
         UNCHANGED orphans
  PROVE  StoreTypeOK' /\ LatestExists'
<1>1. statement \in Statements
  BY WritesType
<1>2. StoreTypeOK /\ LatestExists /\ orphans' \subseteq Statements
  BY DEF TypeInv, TypeOK, StoreTypeOK
<1> QED
  BY <1>1, <1>2, CommitType, CommitLatest

\* A step of the goroutine that only moves it on.
LEMMA MoveType ==
  ASSUME TypeInv, NEW h \in Handlers, pc[h] \notin {"idle", "received"},
         NEW location \in Locations \ {"idle", "received", "record"}, Goto(h, location),
         UNCHANGED <<request, update, current, over, gone>>
  PROVE  /\ pc' \in [Handlers -> Locations]
         /\ request' \in [Handlers -> Requests \cup {NoRequest}]
         /\ update' \in [Handlers -> Updates]
         /\ current' \in [Handlers -> Payments \cup {NoPayment}]
         /\ over' \in [Handlers -> Nat]
         /\ gone' \in [Handlers -> BOOLEAN]
         /\ LocalsOK'
BY DEF TypeInv, TypeOK, LocalsOK, Goto

\* Reading the payments row leaves a well-typed row and version behind.
LEMMA ReadPaymentType ==
  ASSUME TypeInv, NEW h \in Handlers, ReadPayment(h)
  PROVE  /\ current' \in [Handlers -> Payments \cup {NoPayment}]
         /\ over' \in [Handlers -> Nat]
         /\ current'[h] \in Payments \cup {NoPayment}
<1>1. update[h].Event.PaymentID \in Identifiers
  BY DEF ReadPayment, TypeInv, LocalsOK, PaymentEvents
<1>2. PaymentOf(update[h].Event.PaymentID) \in Payments \cup {NoPayment}
  BY DEF PaymentOf, TypeInv, TypeOK, StoreTypeOK
<1>3. VersionOf(update[h].Event.PaymentID) \in Nat
  BY <1>1, VersionOfType DEF TypeInv, TypeOK, StoreTypeOK
<1> QED
  BY <1>2, <1>3 DEF ReadPayment, TypeInv, TypeOK

-----------------------------------------------------------------------------

\* Nothing is stored and nobody is at work in the initial state.
LEMMA InitType == Init => TypeInv
<1> SUFFICES ASSUME Init PROVE TypeInv
  OBVIOUS
<1>1. StoreTypeOK /\ LatestExists
  BY DEF Init, StoreInit, StoreTypeOK, LatestExists, VersionsOf
<1>2. "idle" \in Locations /\ NoUpdate \in Updates
  BY DEF Locations, NoUpdate, Updates
<1>3. TypeOK
  BY <1>1, <1>2 DEF Init, TypeOK, ZeroMetrics
<1>4. LocalsOK
  BY DEF Init, LocalsOK
<1> QED
  BY <1>1, <1>3, <1>4 DEF TypeInv

\* One step per action: each keeps the type invariant.
LEMMA NextType == TypeInv /\ [Next]_vars => TypeInv'
<1> SUFFICES ASSUME TypeInv, [Next]_vars PROVE TypeInv'
  OBVIOUS
<1> USE DEF worldVars
<1>1. ASSUME NEW h \in Handlers, NEW r \in Requests, Receive(h, r) PROVE TypeInv'
  <2>1. StoreTypeOK' /\ LatestExists'
    BY <1>1, StoreUnchangedType DEF Receive
  <2>2. metrics' \in [Series -> Nat]
    BY <1>1, IncType DEF Receive, TypeInv, TypeOK
  <2>3. deliveries' \in [Requests -> Nat]
    <3>1. deliveries' = [deliveries EXCEPT ![r] = deliveries[r] + 1]
      BY <1>1 DEF Receive
    <3>2. deliveries \in [Requests -> Nat]
      BY DEF TypeInv, TypeOK
    <3> QED
      BY <3>1, <3>2
  <2>4. pc' \in [Handlers -> Locations] /\ request' \in [Handlers -> Requests \cup {NoRequest}]
    BY <1>1 DEF Receive, Goto, Locations, TypeInv, TypeOK
  <2>5. TypeOK'
    BY <1>1, <2>1, <2>2, <2>3, <2>4 DEF Receive, TypeInv, TypeOK
  <2>6. LocalsOK'
    BY <1>1 DEF Receive, Goto, TypeInv, TypeOK, LocalsOK
  <2> QED
    BY <2>1, <2>5, <2>6 DEF TypeInv
<1>2. ASSUME NEW h \in Handlers, Reject(h) PROVE TypeInv'
  <2>1. PICK counted : RejectWith(h, counted)
    BY <1>2 DEF Reject, RejectMethod, RejectBody, RejectSignature, RejectPayload
  <2>2. StoreTypeOK' /\ LatestExists'
    BY <2>1, StoreUnchangedType DEF RejectWith
  <2>3. metrics' \in [Series -> Nat]
    BY <2>1, IncType DEF RejectWith, TypeInv, TypeOK
  <2>4. faults' \in Nat
    BY <1>2 DEF Reject, RejectMethod, RejectBody, RejectSignature, RejectPayload, MayFail,
                TypeInv, TypeOK
  <2> QED
    BY <2>1, <2>2, <2>3, <2>4, FinishType DEF RejectWith, TypeInv, TypeOK
<1>3. ASSUME NEW h \in Handlers, Accept(h) PROVE TypeInv'
  <2>1. StoreTypeOK' /\ LatestExists'
    BY <1>3, StoreUnchangedType DEF Accept
  <2>2. metrics' \in [Series -> Nat]
    BY <1>3, IncType DEF Accept, TypeInv, TypeOK
  <2>3. ParseEvent(request[h].body) \in PaymentEvents
    <3>1. request[h].body \in Bodies
      BY <1>3, ServiceAssumption DEF Accept, TypeInv, LocalsOK
    <3> QED
      BY <1>3, <3>1, ParseEventType DEF Accept, IsAcceptable
  <2>4. update' \in [Handlers -> Updates]
    BY <1>3, <2>3 DEF Accept, TypeInv, TypeOK, Updates
  <2>5. TypeOK'
    BY <1>3, <2>1, <2>2, <2>4 DEF Accept, Goto, Locations, TypeInv, TypeOK
  <2>6. LocalsOK'
    BY <1>3, <2>3 DEF Accept, Goto, TypeInv, TypeOK, LocalsOK, Updates
  <2> QED
    BY <2>1, <2>5, <2>6 DEF TypeInv
<1>4. ASSUME NEW h \in Handlers, InsertEvent(h) PROVE TypeInv'
  <2>1. PICK statement \in WritesOf(h) : Commit(statement)
    BY <1>4 DEF InsertEvent
  <2>2. StoreTypeOK' /\ LatestExists'
    BY <1>4, <2>1, CommitWritesType DEF InsertEvent
  <2>3. Len(webhookEvents') \in Nat
    BY <2>2 DEF StoreTypeOK
  <2>4. update' \in [Handlers -> Updates]
    BY <1>4, <2>3 DEF InsertEvent, ReturnedId, TypeInv, TypeOK, Updates
  <2>5. metrics' \in [Series -> Nat]
    BY <1>4, IncType DEF InsertEvent, TypeInv, TypeOK
  <2>6. TypeOK'
    BY <1>4, <2>2, <2>4, <2>5 DEF InsertEvent, Goto, Locations, TypeInv, TypeOK
  <2>7. LocalsOK'
    BY <1>4 DEF InsertEvent, Goto, TypeInv, TypeOK, LocalsOK, Updates
  <2> QED
    BY <2>2, <2>6, <2>7 DEF TypeInv
<1>5. ASSUME NEW h \in Handlers,
             InsertDuplicate(h) \/ InsertRejected(h) \/ UpsertRejected(h)
      PROVE  TypeInv'
  <2>1. StoreTypeOK' /\ LatestExists'
    BY <1>5, StoreUnchangedType
    DEF InsertDuplicate, AnswerDuplicate, InsertRejected, UpsertRejected, AfterError
  <2>2. metrics' \in [Series -> Nat]
    BY <1>5, IncType DEF InsertDuplicate, AnswerDuplicate, InsertRejected, UpsertRejected,
                         AfterError, TypeInv, TypeOK
  <2>3. \E location \in {"duplicate", "internal_error"} : Goto(h, location)
    BY <1>5 DEF InsertDuplicate, AnswerDuplicate, InsertRejected, UpsertRejected, AfterError
  <2>4. pc[h] \notin {"idle", "received"}
    BY <1>5 DEF InsertDuplicate, AnswerDuplicate, InsertRejected, UpsertRejected, AfterError
  <2> QED
    BY <1>5, <2>1, <2>2, <2>3, <2>4, MoveType
    DEF InsertDuplicate, AnswerDuplicate, InsertRejected, UpsertRejected, AfterError, TypeInv,
        TypeOK, Locations
<1>6. ASSUME NEW h \in Handlers, GetPayment(h) PROVE TypeInv'
  <2>1. ReadPayment(h) /\ pc[h] = "get"
    BY <1>6 DEF GetPayment, GetPaymentToCreate, GetPaymentToUpdate, GetPaymentWithAnomaly,
                GetPaymentEqual, Ignore, ReadPayment
  <2>2. StoreTypeOK' /\ LatestExists'
    BY <2>1, StoreUnchangedType DEF ReadPayment
  <2>3. metrics' \in [Series -> Nat]
    <3>1. UNCHANGED metrics \/ \E counted : Inc(counted)
      BY <1>6 DEF GetPayment, GetPaymentToCreate, GetPaymentToUpdate, GetPaymentWithAnomaly,
                  GetPaymentEqual, Ignore
    <3> QED
      BY <3>1, IncType DEF TypeInv, TypeOK
  <2>4. /\ \E location \in {"upsert", "record", "processed"} : Goto(h, location)
        /\ Goto(h, "record") => current'[h] # NoPayment
    BY <1>6 DEF GetPayment, GetPaymentToCreate, GetPaymentToUpdate, GetPaymentWithAnomaly,
                GetPaymentEqual, Ignore, Goto, TypeInv, TypeOK
  <2>5. /\ current' \in [Handlers -> Payments \cup {NoPayment}]
        /\ over' \in [Handlers -> Nat]
        /\ current'[h] \in Payments \cup {NoPayment}
    BY <2>1, ReadPaymentType
  <2>6. TypeOK'
    BY <2>1, <2>2, <2>3, <2>4, <2>5 DEF ReadPayment, Goto, Locations, TypeInv, TypeOK
  <2>7. LocalsOK'
    BY <2>1, <2>4, <2>5 DEF ReadPayment, Goto, TypeInv, TypeOK, LocalsOK
  <2> QED
    BY <2>2, <2>6, <2>7 DEF TypeInv
<1>7. ASSUME NEW h \in Handlers, RecordAnomaly(h) PROVE TypeInv'
  <2>1. StoreTypeOK' /\ LatestExists'
    BY <1>7, CommitWritesType DEF RecordAnomaly
  <2>2. metrics' \in [Series -> Nat]
    BY <1>7, IncType DEF RecordAnomaly, AfterRecord, Ignore, TypeInv, TypeOK
  <2> QED
    BY <1>7, <2>1, <2>2, MoveType DEF RecordAnomaly, AfterRecord, Ignore, TypeInv, TypeOK, Locations
<1>8. ASSUME NEW h \in Handlers, UpsertState(h) PROVE TypeInv'
  <2>1. StoreTypeOK' /\ LatestExists'
    BY <1>8, CommitWritesType DEF UpsertState
  <2>2. metrics' \in [Series -> Nat]
    BY <1>8, IncType DEF UpsertState, TypeInv, TypeOK
  <2> QED
    BY <1>8, <2>1, <2>2, MoveType DEF UpsertState, TypeInv, TypeOK, Locations
<1>9. ASSUME NEW h \in Handlers, CallFails(h) \/ RecordFails(h) PROVE TypeInv'
  <2>1. StoreTypeOK' /\ LatestExists'
    BY <1>9, WritesType, AbandonType DEF CallFails, RecordFails
  <2>2. metrics' \in [Series -> Nat]
    BY <1>9, IncType DEF CallFails, AfterError, RecordFails, AfterRecord, Ignore, TypeInv, TypeOK
  <2>3. faults' \in Nat
    BY <1>9 DEF CallFails, RecordFails, MayFail, TypeInv, TypeOK
  <2>4. \E location \in {"internal_error", "processed"} : Goto(h, location)
    BY <1>9 DEF CallFails, AfterError, RecordFails, AfterRecord, Ignore
  <2>5. pc[h] \notin {"idle", "received"}
    BY <1>9 DEF CallFails, RecordFails
  <2> QED
    BY <1>9, <2>1, <2>2, <2>3, <2>4, <2>5, MoveType
    DEF CallFails, AfterError, RecordFails, AfterRecord, Ignore, TypeInv, TypeOK, Locations
<1>10. ASSUME NEW h \in Handlers, RespondOK(h) \/ RespondError(h) PROVE TypeInv'
  <2>1. StoreTypeOK' /\ LatestExists'
    BY <1>10, StoreUnchangedType DEF RespondOK, IsServed, RespondError
  <2>2. metrics' \in [Series -> Nat]
    BY <1>10, IncType DEF RespondOK, IsServed, RespondError, TypeInv, TypeOK
  <2>3. acks' \subseteq [id : Identifiers, status : ServedStatuses]
    <3>1. CASE RespondOK(h)
      <4>1. update[h].Event.ProviderEventID \in Identifiers /\ pc[h] \in ServedStatuses
        BY <3>1 DEF RespondOK, IsServed, ServedStatuses, TypeInv, LocalsOK, PaymentEvents
      <4> QED
        BY <3>1, <4>1 DEF RespondOK, TypeInv, TypeOK
    <3>2. CASE RespondError(h)
      BY <3>2 DEF RespondError, TypeInv, TypeOK
    <3> QED
      BY <1>10, <3>1, <3>2
  <2> QED
    BY <1>10, <2>1, <2>2, <2>3, FinishType DEF RespondOK, IsServed, RespondError, TypeInv, TypeOK
<1>11. ASSUME NEW h \in Handlers, Disconnect(h) PROVE TypeInv'
  <2>1. StoreTypeOK' /\ LatestExists'
    BY <1>11, StoreUnchangedType DEF Disconnect
  <2> QED
    BY <1>11, <2>1 DEF Disconnect, TypeInv, TypeOK, LocalsOK
<1>12. ASSUME Crash PROVE TypeInv'
  <2>1. StoreTypeOK' /\ LatestExists'
    BY <1>12, WritesType, AbandonType DEF Crash
  <2>2. "idle" \in Locations /\ NoUpdate \in Updates
    BY DEF Locations, NoUpdate, Updates
  <2>3. TypeOK'
    BY <1>12, <2>1, <2>2 DEF Crash, TypeInv, TypeOK, ZeroMetrics
  <2>4. LocalsOK'
    BY <1>12 DEF Crash, LocalsOK
  <2> QED
    BY <2>1, <2>3, <2>4 DEF TypeInv
<1>13. ASSUME Late PROVE TypeInv'
  <2>1. PICK statement \in orphans : OrphanCommits(statement) \/ OrphanDropped(statement)
    BY <1>13 DEF Late
  <2>2. StoreTypeOK' /\ LatestExists'
    <3>1. statement \in Statements /\ orphans' \subseteq Statements
      BY <2>1 DEF OrphanCommits, OrphanDropped, TypeInv, TypeOK, StoreTypeOK
    <3>2. CASE OrphanCommits(statement)
      BY <3>1, <3>2, CommitType, CommitLatest DEF OrphanCommits, TypeInv, TypeOK
    <3>3. CASE OrphanDropped(statement)
      BY <3>1, <3>3 DEF OrphanDropped, TypeInv, TypeOK, StoreTypeOK, LatestExists, VersionsOf
    <3> QED
      BY <2>1, <3>2, <3>3
  <2> QED
    BY <1>13, <2>2 DEF Late, localVars, TypeInv, TypeOK, LocalsOK
<1>14. CASE UNCHANGED vars
  <2>1. StoreTypeOK' /\ LatestExists'
    BY <1>14, StoreUnchangedType DEF vars
  <2> QED
    BY <1>14, <2>1 DEF vars, localVars, TypeInv, TypeOK, LocalsOK
<1> QED
  BY <1>1, <1>2, <1>3, <1>4, <1>5, <1>6, <1>7, <1>8, <1>9, <1>10, <1>11, <1>12, <1>13, <1>14
  DEF Next, Advance, BodyEnds, CallReturns, Respond

\* Every variable of the service keeps its type, for every number of goroutines,
\* every set of requests and every bound (types of internal/service and
\* internal/repository).
THEOREM TypeCorrect == Spec => []TypeOK
<1>1. TypeInv => TypeOK
  BY DEF TypeInv
<1> QED
  BY InitType, NextType, <1>1, PTL DEF Spec

-----------------------------------------------------------------------------

\* Until a first fault no client is gone and no statement is left behind.
NothingAstray == faults = 0 => orphans = {} /\ \A h \in Handlers : ~gone[h]

\* Faults are counted and never forgotten.
LEMMA FaultsAreCounted ==
  ASSUME TypeInv, [Next]_vars
  PROVE  faults' = faults \/ faults' = faults + 1
<1> USE DEF worldVars
<1>1. ASSUME NEW h \in Handlers, CallFails(h) \/ RecordFails(h)
      PROVE  faults' = faults \/ faults' = faults + 1
  BY <1>1 DEF CallFails, RecordFails, MayFail
<1>2. ASSUME NEW h \in Handlers, Disconnect(h) PROVE faults' = faults + 1
  BY <1>2 DEF Disconnect
<1>3. ASSUME Crash PROVE faults' = faults + 1
  BY <1>3 DEF Crash
<1>4. ASSUME NEW h \in Handlers, NEW r \in Requests, Receive(h, r) PROVE faults' = faults
  BY <1>4 DEF Receive
<1>5. ASSUME NEW h \in Handlers, Reject(h) \/ RespondOK(h) \/ RespondError(h)
      PROVE  faults' = faults \/ faults' = faults + 1
  BY <1>5 DEF MayFail, Reject, RejectMethod, RejectBody, RejectSignature, RejectPayload, RejectWith,
              RespondOK, RespondError
<1>6. ASSUME NEW h \in Handlers,
             \/ Accept(h) \/ InsertEvent(h) \/ InsertDuplicate(h)
             \/ InsertRejected(h) \/ UpsertRejected(h)
             \/ GetPayment(h) \/ RecordAnomaly(h) \/ UpsertState(h)
      PROVE  faults' = faults
  BY <1>6 DEF Accept, InsertEvent, InsertDuplicate, InsertRejected, UpsertRejected, AfterError,
              GetPayment, GetPaymentToCreate,
              GetPaymentToUpdate, GetPaymentWithAnomaly, GetPaymentEqual, ReadPayment,
              RecordAnomaly, AfterRecord, UpsertState
<1>7. CASE Late \/ UNCHANGED vars
  BY <1>7 DEF Late, vars
<1> QED
  BY <1>1, <1>2, <1>3, <1>4, <1>5, <1>6, <1>7 DEF Next, Advance, BodyEnds, CallReturns, Respond

\* What goes astray is a fault's doing.
LEMMA NextAstray == TypeInv /\ NothingAstray /\ [Next]_vars => NothingAstray'
<1> SUFFICES ASSUME TypeInv, NothingAstray, [Next]_vars, faults' = 0
             PROVE  orphans' = {} /\ \A h \in Handlers : ~gone'[h]
  BY DEF NothingAstray
<1> USE DEF worldVars, storeVars
<1>1. faults \in Nat
  BY DEF TypeInv, TypeOK
<1>2. ASSUME NEW h \in Handlers, NEW r \in Requests, Receive(h, r)
      PROVE  UNCHANGED <<orphans, gone, faults>>
  BY <1>2 DEF Receive
<1>3. ASSUME NEW h \in Handlers, Reject(h) \/ RespondOK(h) \/ RespondError(h)
      PROVE  UNCHANGED <<orphans, faults>> /\ gone' = [gone EXCEPT ![h] = FALSE]
  BY <1>1, <1>3 DEF MayFail, Reject, RejectMethod, RejectBody, RejectSignature, RejectPayload,
                    RejectWith,
              RespondOK, RespondError, Finish
<1>4. ASSUME NEW h \in Handlers,
             \/ Accept(h) \/ InsertEvent(h) \/ InsertDuplicate(h)
             \/ InsertRejected(h) \/ UpsertRejected(h)
             \/ GetPayment(h) \/ RecordAnomaly(h) \/ UpsertState(h)
      PROVE  UNCHANGED <<orphans, gone, faults>>
  BY <1>4 DEF Accept, InsertEvent, InsertDuplicate, InsertRejected, UpsertRejected, AfterError,
              GetPayment, GetPaymentToCreate,
              GetPaymentToUpdate, GetPaymentWithAnomaly, GetPaymentEqual, ReadPayment,
              RecordAnomaly, AfterRecord, UpsertState
<1>5. ASSUME NEW h \in Handlers, CallFails(h) \/ RecordFails(h) PROVE FALSE
  <2>1. MayFail(h)
    BY <1>5 DEF CallFails, RecordFails
  <2> QED
    BY <1>1, <2>1 DEF MayFail, NothingAstray
<1>6. ASSUME NEW h \in Handlers, Disconnect(h) PROVE FALSE
  BY <1>1, <1>6 DEF Disconnect
<1>7. ASSUME Crash PROVE FALSE
  BY <1>1, <1>7 DEF Crash
<1>8. ASSUME Late PROVE FALSE
  BY <1>8 DEF Late, NothingAstray
<1> QED
  BY <1>2, <1>3, <1>4, <1>5, <1>6, <1>7, <1>8
  DEF Next, Advance, BodyEnds, CallReturns, Respond, vars, localVars, NothingAstray,
                                                  TypeInv, TypeOK

\* It holds in every state.
LEMMA InitAstray == Init => NothingAstray
BY DEF Init, StoreInit, NothingAstray
=============================================================================
