-------------------------- MODULE ProvenanceProofs --------------------------
(***************************************************************************)
(* Where the tables' contents come from: every row of webhook_events from  *)
(* a signed request, every version of a payment from such a row and from   *)
(* the version its writer had read, every 200 from a row that is dealt     *)
(* with.                                                                   *)
(*                                                                         *)
(* The tables only grow (Grows), so what was true of a row stays true      *)
(* while a goroutine carries the row's id from call to call, and while a   *)
(* statement is on its way after its caller has gone.  ProvInv says what   *)
(* each goroutine and each such statement may rely on.                     *)
(***************************************************************************)
EXTENDS WebhookTypeProofs

IsAuthentic(event) ==
  \E r \in Requests : IsAcceptable(r) /\ deliveries[r] > 0 /\ event = ParseEvent(r.body)

IsRowOf(id, event) ==
  /\ id \in DOMAIN webhookEvents
  /\ EventOf(id) = event
  /\ webhookEvents[id].ProviderEventID = event.ProviderEventID

\* The event may follow the version its processor read, if there was one.
Respects(event, version) ==
  version # 0 =>
    version \in VersionsOf(event.PaymentID) /\ Advances(event, applied[version].payment)

IsSettled(id) == IsApplied(id) \/ IsSuperseded(id)

\* What a goroutine relies on where it is.
Good(h) ==
  /\ pc[h] = "received" => deliveries[request[h]] > 0
  /\ pc[h] \notin {"idle", "received"} => IsAuthentic(update[h].Event)
  /\ pc[h] \in Processing \cup {"processed"} =>
       IsRowOf(update[h].WebhookEventID, update[h].Event)
  /\ pc[h] = "upsert" => Respects(update[h].Event, over[h])
  /\ pc[h] = "record" => update[h].Event.PaymentID \in DOMAIN payments
  /\ pc[h] \in {"record", "processed"} => IsSettled(update[h].WebhookEventID)
  /\ pc[h] = "duplicate" => IdsOf(update[h].Event.ProviderEventID) # {}

\* What a statement says, whenever it commits.
GoodStatement(s) ==
  /\ s.op = "insert_webhook_event" => IsAuthentic(s.event)
  /\ s.op = "upsert_payment" =>
       /\ s.by \in DOMAIN webhookEvents
       /\ s.payment = paymentFromEvent(EventOf(s.by))
       /\ Respects(EventOf(s.by), s.over)

GoodVersion(n) ==
  /\ applied[n].by \in DOMAIN webhookEvents
  /\ applied[n].payment = PaymentRow(paymentFromEvent(EventOf(applied[n].by)))
  /\ applied[n].payment.PaymentID \in DOMAIN payments
  /\ applied[n].over < n
  /\ Respects(EventOf(applied[n].by), applied[n].over)

\* A payments row is its latest version.
LatestRow ==
  \A id \in DOMAIN payments :
    /\ payments[id].PaymentID = id
    /\ VersionOf(id) \in VersionsOf(id)
    /\ payments[id] = applied[VersionOf(id)].payment

TablesGood ==
  /\ \A s \in orphans : GoodStatement(s)
  /\ \A n \in DOMAIN applied : GoodVersion(n)
  /\ LatestRow
  /\ StoredIsAuthentic

AcksGood == AckedIsStored /\ ProcessedIsSettled

ProvInv == (\A h \in Handlers : Good(h)) /\ TablesGood /\ AcksGood

\* No row and no version is ever changed or removed; a delivery is not undone.
Grows ==
  /\ DOMAIN webhookEvents \subseteq DOMAIN webhookEvents'
  /\ \A id \in DOMAIN webhookEvents : webhookEvents'[id] = webhookEvents[id]
  /\ DOMAIN applied \subseteq DOMAIN applied'
  /\ \A n \in DOMAIN applied : applied'[n] = applied[n]
  /\ DOMAIN payments \subseteq DOMAIN payments'
  /\ \A r \in Requests : deliveries[r] > 0 => deliveries'[r] > 0

-----------------------------------------------------------------------------

\* What is known of rows, versions and statements stays known.
LEMMA StaysKnown ==
  ASSUME Grows
  PROVE  /\ \A event : IsAuthentic(event) => IsAuthentic(event)'
         /\ \A id \in DOMAIN webhookEvents : EventOf(id)' = EventOf(id)
         /\ \A id, event : IsRowOf(id, event) => IsRowOf(id, event)'
         /\ \A id : IdsOf(id) \subseteq IdsOf(id)'
         /\ \A id \in DOMAIN webhookEvents : IsSettled(id) => IsSettled(id)'
         /\ \A event, version : Respects(event, version) => Respects(event, version)'
         /\ \A s : GoodStatement(s) => GoodStatement(s)'
         /\ \A n \in DOMAIN applied : GoodVersion(n) => GoodVersion(n)'
<1>1. ASSUME NEW event, IsAuthentic(event) PROVE IsAuthentic(event)'
  BY <1>1 DEF IsAuthentic, Grows
<1>2. ASSUME NEW id \in DOMAIN webhookEvents PROVE EventOf(id)' = EventOf(id)
  BY DEF EventOf, Grows
<1>3. ASSUME NEW id, NEW event, IsRowOf(id, event) PROVE IsRowOf(id, event)'
  BY <1>2, <1>3 DEF IsRowOf, Grows
<1>4. ASSUME NEW id PROVE IdsOf(id) \subseteq IdsOf(id)'
  BY DEF IdsOf, Grows
<1>5. ASSUME NEW id PROVE VersionsOf(id) \subseteq VersionsOf(id)'
  BY DEF VersionsOf, Grows
<1>6. ASSUME NEW id \in DOMAIN webhookEvents, IsSettled(id) PROVE IsSettled(id)'
  <2>1. CASE IsApplied(id)
    BY <2>1 DEF IsSettled, IsApplied, Grows
  <2>2. CASE IsSuperseded(id)
    <3>1. PICK n \in VersionsOf(EventOf(id).PaymentID) : ~Advances(EventOf(id), applied[n].payment)
      BY <2>2 DEF IsSuperseded
    <3>2. n \in VersionsOf(EventOf(id).PaymentID)' /\ applied'[n] = applied[n]
      BY <1>2, <1>5, <3>1 DEF VersionsOf, Grows
    <3> QED
      BY <1>2, <3>1, <3>2 DEF IsSettled, IsSuperseded
  <2> QED
    BY <1>6, <2>1, <2>2 DEF IsSettled
<1>7. ASSUME NEW event, NEW version, Respects(event, version) PROVE Respects(event, version)'
  BY <1>5, <1>7 DEF Respects, VersionsOf, Grows
<1>8. ASSUME NEW s, GoodStatement(s) PROVE GoodStatement(s)'
  BY <1>1, <1>2, <1>7, <1>8 DEF GoodStatement, Grows
<1>9. ASSUME NEW n \in DOMAIN applied, GoodVersion(n) PROVE GoodVersion(n)'
  <2>1. applied'[n] = applied[n] /\ EventOf(applied[n].by)' = EventOf(applied[n].by)
    BY <1>2, <1>9 DEF GoodVersion, Grows, EventOf
  <2>2. EventOf(applied[n].by) = ParseEvent(webhookEvents'[applied'[n].by].RawPayload)
    BY <2>1 DEF EventOf
  <2> QED
    BY <1>7, <1>9, <2>1, <2>2 DEF GoodVersion, EventOf, Grows
<1> QED
  BY <1>1, <1>2, <1>3, <1>4, <1>6, <1>7, <1>8, <1>9

\* A goroutine that does not move keeps what it relies on.
LEMMA StaysGood ==
  ASSUME Grows, NEW h \in Handlers, Good(h), TypeInv,
         pc'[h] = pc[h], request'[h] = request[h], update'[h] = update[h], over'[h] = over[h]
  PROVE  Good(h)'
<1>1. pc[h] = "received" => request[h] \in Requests
  BY DEF TypeInv, LocalsOK
<1>2. pc[h] \in {"record", "processed"} => update[h].WebhookEventID \in DOMAIN webhookEvents
  BY DEF Good, IsRowOf, Processing
<1> QED
  BY <1>1, <1>2, StaysKnown DEF Good, Grows

\* The rows that answered a request are still there and still dealt with.
LEMMA StaysAcked ==
  ASSUME Grows, AcksGood,
         \A ack \in acks' :
           \/ ack \in acks
           \/ /\ IdsOf(ack.id) # {}
              /\ ack.status = "processed" => \E id \in IdsOf(ack.id) : IsSettled(id)
  PROVE  AcksGood'
<1>1. ASSUME NEW ack \in acks'
      PROVE  /\ IdsOf(ack.id) # {}
             /\ ack.status = "processed" => \E id \in IdsOf(ack.id) : IsSettled(id)
  BY DEF AcksGood, AckedIsStored, ProcessedIsSettled, IsSettled
<1>2. ASSUME NEW ack \in acks'
      PROVE  /\ IdsOf(ack.id)' # {}
             /\ ack.status = "processed" => \E id \in IdsOf(ack.id)' : IsSettled(id)'
  <2>1. IdsOf(ack.id) \subseteq DOMAIN webhookEvents
    BY DEF IdsOf
  <2> QED
    BY <1>1, <2>1, StaysKnown
<1> QED
  BY <1>2 DEF AcksGood, AckedIsStored, ProcessedIsSettled, IsSettled

\* An authentic event is the one its row gives back: the body is stored as it
\* came, and parsing it again gives the same event.
LEMMA RowRoundTrip ==
  ASSUME NEW event \in PaymentEvents, IsAuthentic(event)
  PROVE  ParseEvent(WebhookEventRow(event).RawPayload) = event
<1>1. WebhookEventRow(event).RawPayload = event.RawPayload
  BY RowTypes
<1>2. PICK r \in Requests : event = ParseEvent(r.body)
  BY DEF IsAuthentic
<1>3. event.RawPayload = r.body
  BY <1>2 DEF ParseEvent
<1> QED
  BY <1>1, <1>2, <1>3

\* The payment an event is turned into is a payment of the event's payment id.
LEMMA PaymentOfEvent ==
  ASSUME NEW event \in PaymentEvents
  PROVE  PaymentRow(paymentFromEvent(event)).PaymentID = event.PaymentID
BY PaymentFromEventType, RowTypes DEF paymentFromEvent

\* A step that leaves the tables alone, and whose new statements are good, keeps
\* the tables good.
LEMMA QuietTables ==
  ASSUME TablesGood, Grows, UNCHANGED <<webhookEvents, payments, applied>>,
         \A s \in orphans' : s \in orphans \/ GoodStatement(s)
  PROVE  TablesGood'
<1>1. \A s \in orphans' : GoodStatement(s)'
  BY StaysKnown DEF TablesGood
<1>2. \A n \in DOMAIN applied' : GoodVersion(n)'
  BY StaysKnown DEF TablesGood
<1>3. LatestRow'
  BY DEF TablesGood, LatestRow, VersionOf, VersionsOf
<1>4. StoredIsAuthentic'
  BY DEF TablesGood, StoredIsAuthentic, Grows
<1> QED
  BY <1>1, <1>2, <1>3, <1>4 DEF TablesGood

\* Insert: the new row is authentic, and nothing else changes.
LEMMA InsertTables ==
  ASSUME TypeInv, TablesGood, NEW s \in Statements, GoodStatement(s),
         s.op = "insert_webhook_event", Commit(s), orphans' \subseteq orphans,
         UNCHANGED deliveries
  PROVE  /\ Grows /\ TablesGood'
         /\ \E id : id = Len(webhookEvents') /\ IsRowOf(id, s.event)'
<1>0. PICK k : k = Len(webhookEvents')
  OBVIOUS
<1>1. /\ s.event \in PaymentEvents /\ IsAuthentic(s.event)
      /\ webhookEvents' = Append(webhookEvents, WebhookEventRow(s.event))
      /\ UNCHANGED <<payments, anomalies, applied>>
  BY DEF Statements, GoodStatement, Commit, InsertWebhookEvent
<1>2. /\ DOMAIN webhookEvents' = DOMAIN webhookEvents \cup {k} /\ k \notin DOMAIN webhookEvents
      /\ \A id \in DOMAIN webhookEvents : webhookEvents'[id] = webhookEvents[id]
      /\ webhookEvents'[k] = WebhookEventRow(s.event)
  BY <1>0, <1>1, RowTypes DEF TypeInv, TypeOK, StoreTypeOK
<1>3. webhookEvents'[k].RawPayload = s.event.RawPayload
      /\ webhookEvents'[k].ProviderEventID = s.event.ProviderEventID
  BY <1>1, <1>2, RowTypes
<1>4. Grows
  BY <1>1, <1>2 DEF Grows
<1>5. IsRowOf(k, s.event)'
  <2>1. ParseEvent(webhookEvents'[k].RawPayload) = s.event
    BY <1>1, <1>2, RowRoundTrip
  <2> QED
    BY <1>2, <1>3, <2>1 DEF IsRowOf, EventOf
<1>6. \A t \in orphans' : GoodStatement(t)'
  BY <1>4, StaysKnown DEF TablesGood
<1>7. \A n \in DOMAIN applied' : GoodVersion(n)'
  BY <1>1, <1>4, StaysKnown DEF TablesGood
<1>8. LatestRow'
  BY <1>1 DEF TablesGood, LatestRow, VersionOf, VersionsOf
<1>9. StoredIsAuthentic'
  <2>1. PICK r \in Requests :
          /\ r.method = "POST" /\ IsEvent(r.body)
          /\ r.signature = computeSignature(r.body, SigningSecret)
          /\ deliveries[r] > 0
          /\ s.event = ParseEvent(r.body)
    BY <1>1 DEF IsAuthentic, IsAcceptable, IsSigned, ValidateSignature
  <2> QED
    BY <1>1, <1>2, <2>1 DEF TablesGood, StoredIsAuthentic
<1> QED
  BY <1>0, <1>4, <1>5, <1>6, <1>7, <1>8, <1>9 DEF TablesGood

\* Upsert: the row of the payment becomes the new version, whole.
LEMMA UpsertTables ==
  ASSUME TypeInv, TablesGood, NEW s \in Statements, GoodStatement(s),
         s.op = "upsert_payment", Commit(s), orphans' \subseteq orphans,
         UNCHANGED deliveries
  PROVE  Grows /\ TablesGood' /\ IsApplied(s.by)'
<1> DEFINE row == PaymentRow(s.payment)
<1>0. PICK k, event : k = Len(applied') /\ event = EventOf(s.by)
  OBVIOUS
<1>1. /\ s.payment \in Payments /\ s.by \in Nat /\ s.over \in Nat
      /\ s.by \in DOMAIN webhookEvents /\ s.payment = paymentFromEvent(event)
      /\ Respects(event, s.over)
  BY <1>0 DEF Statements, GoodStatement
<1>2. row \in Payments /\ row.PaymentID \in Identifiers
  BY <1>1, RowTypes DEF Payments
<1>3. row.PaymentID = event.PaymentID
  BY <1>1, RowTypes DEF paymentFromEvent
<1>4. /\ applied' = Append(applied, [payment |-> row, by |-> s.by, over |-> s.over])
      /\ UNCHANGED <<webhookEvents, anomalies>>
      /\ DOMAIN payments' = DOMAIN payments \cup {row.PaymentID}
      /\ \A i \in DOMAIN payments : i # row.PaymentID => payments'[i] = payments[i]
      /\ payments'[row.PaymentID] = IF row.PaymentID \in DOMAIN payments
                                    THEN OnConflict(payments[row.PaymentID], row) ELSE row
  BY DEF Commit, UpsertPayment
<1>5. payments'[row.PaymentID] = row
  <2>1. CASE row.PaymentID \in DOMAIN payments
    <3> DEFINE old == payments[row.PaymentID]
    <3>1. old \in Payments /\ old.PaymentID = row.PaymentID
      BY <2>1 DEF TypeInv, TypeOK, StoreTypeOK, TablesGood, LatestRow
    <3>2. payments'[row.PaymentID] = OnConflict(old, row)
      BY <1>4, <2>1
    <3> HIDE DEF old, row
    <3>3. OnConflict(old, row) = row
      BY <1>2, <3>1 DEF OnConflict, Payments
    <3> QED
      BY <3>2, <3>3
  <2>2. CASE row.PaymentID \notin DOMAIN payments
    BY <1>4, <2>2
  <2> QED
    BY <2>1, <2>2
<1>6. /\ DOMAIN applied' = DOMAIN applied \cup {k} /\ k \notin DOMAIN applied
      /\ \A n \in DOMAIN applied : applied'[n] = applied[n] /\ n < k
      /\ k \in Nat /\ k > 0
      /\ applied'[k] = [payment |-> row, by |-> s.by, over |-> s.over]
      /\ DOMAIN applied \subseteq Nat
  <2> DEFINE v == [payment |-> row, by |-> s.by, over |-> s.over]
  <2>1. v \in Versions /\ applied \in Seq(Versions) /\ applied' = Append(applied, v)
    BY <1>1, <1>2, <1>4 DEF TypeInv, TypeOK, StoreTypeOK, Versions
  <2> HIDE DEF v
  <2>2. /\ DOMAIN applied' = DOMAIN applied \cup {k} /\ k \notin DOMAIN applied
        /\ \A n \in DOMAIN applied : applied'[n] = applied[n] /\ n < k
        /\ k \in Nat /\ k > 0
        /\ applied'[k] = v
        /\ DOMAIN applied \subseteq Nat
    BY <1>0, <2>1
  <2> QED
    BY <2>2 DEF v
<1> HIDE DEF row
<1>7. Grows
  BY <1>4, <1>6 DEF Grows
<1>8. \A t \in orphans' : GoodStatement(t)'
  BY <1>7, StaysKnown DEF TablesGood
<1>9. EventOf(s.by)' = event
  BY <1>0, <1>1, <1>7, StaysKnown
<1>10. \A n \in DOMAIN applied' : GoodVersion(n)'
  <2>1. \A n \in DOMAIN applied : GoodVersion(n)'
    BY <1>7, StaysKnown DEF TablesGood
  <2>2. GoodVersion(k)'
    <3>1. applied'[k].by = s.by /\ applied'[k].over = s.over /\ applied'[k].payment = row
      BY <1>6
    <3>2. s.over < k
      BY <1>1, <1>6 DEF Respects, VersionsOf
    <3>3. Respects(event, s.over)'
      BY <1>1, <1>7, StaysKnown
    <3>4. EventOf(applied[k].by)' = event
      BY <1>9, <3>1 DEF EventOf
    <3>5. row = PaymentRow(paymentFromEvent(event))
      BY <1>1 DEF row
    <3> QED
      BY <1>1, <1>4, <3>1, <3>2, <3>3, <3>4, <3>5, <1>3 DEF GoodVersion, Respects
  <2> QED
    BY <1>6, <2>1, <2>2
<1>11. LatestRow'
  <2> SUFFICES ASSUME NEW id \in DOMAIN payments'
               PROVE  /\ payments'[id].PaymentID = id
                      /\ VersionOf(id)' \in VersionsOf(id)'
                      /\ payments'[id] = applied'[VersionOf(id)'].payment
    BY DEF LatestRow
  <2>1. CASE id = row.PaymentID
    <3>1. /\ k \in VersionsOf(id)' /\ VersionsOf(id)' \subseteq Nat
          /\ \A n \in VersionsOf(id)' : n <= k
      BY <1>6, <2>1 DEF VersionsOf
    <3>2. VersionOf(id)' = k
      <4>1. /\ k \in {0} \cup VersionsOf(id)'
            /\ \A n \in {0} \cup VersionsOf(id)' : k >= n /\ n \in Nat
        BY <1>6, <3>1
      <4>2. /\ VersionOf(id)' \in {0} \cup VersionsOf(id)'
            /\ \A n \in {0} \cup VersionsOf(id)' : VersionOf(id)' >= n
        BY <4>1 DEF VersionOf, Max
      <4>3. PICK m : m = VersionOf(id)'
        OBVIOUS
      <4>4. m \in Nat /\ m <= k /\ m >= k
        BY <4>1, <4>2, <4>3
      <4> QED
        BY <1>6, <4>3, <4>4
    <3> QED
      BY <1>5, <1>6, <2>1, <3>1, <3>2
  <2>2. CASE id # row.PaymentID
    <3>1. VersionsOf(id)' = VersionsOf(id)
      BY <1>6, <2>2 DEF VersionsOf
    <3>2. VersionOf(id)' = VersionOf(id)
      BY <3>1 DEF VersionOf
    <3>3. id \in DOMAIN payments /\ payments'[id] = payments[id]
      BY <1>4, <2>2
    <3>4. VersionOf(id) \in DOMAIN applied
      BY <3>3 DEF TablesGood, LatestRow, VersionsOf
    <3> QED
      BY <1>6, <3>1, <3>2, <3>3, <3>4 DEF TablesGood, LatestRow
  <2> QED
    BY <2>1, <2>2
<1>12. StoredIsAuthentic'
  BY <1>4 DEF TablesGood, StoredIsAuthentic
<1>13. IsApplied(s.by)'
  BY <1>6 DEF IsApplied
<1> QED
  BY <1>7, <1>8, <1>10, <1>11, <1>12, <1>13 DEF TablesGood

-----------------------------------------------------------------------------

\* What a goroutine sends is good (Insert, Record and Upsert are called with the
\* event and the id they are about).
LEMMA WritesGood ==
  ASSUME NEW h \in Handlers, Good(h), NEW s \in WritesOf(h)
  PROVE  GoodStatement(s)
<1>1. CASE pc[h] = "insert"
  BY <1>1 DEF WritesOf, Good, GoodStatement
<1>2. CASE pc[h] = "record"
  BY <1>2 DEF WritesOf, GoodStatement
<1>3. CASE pc[h] = "upsert"
  <2>1. s = [op |-> "upsert_payment", payment |-> paymentFromEvent(update[h].Event),
             by |-> update[h].WebhookEventID, over |-> over[h]]
    BY <1>3 DEF WritesOf
  <2>2. /\ IsRowOf(update[h].WebhookEventID, update[h].Event)
        /\ Respects(update[h].Event, over[h])
    BY <1>3 DEF Good, Processing
  <2> QED
    BY <2>1, <2>2 DEF GoodStatement, IsRowOf
<1>4. CASE pc[h] \notin {"insert", "record", "upsert"}
  BY <1>4 DEF WritesOf
<1> QED
  BY <1>1, <1>2, <1>3, <1>4

\* GetByPaymentID returns the latest version, or none when there is none.
LEMMA ReadsLatest ==
  ASSUME TypeInv, TablesGood, NEW id \in Identifiers
  PROVE  /\ PaymentOf(id) = NoPayment => VersionOf(id) = 0
         /\ PaymentOf(id) # NoPayment =>
              /\ id \in DOMAIN payments
              /\ VersionOf(id) \in VersionsOf(id)
              /\ PaymentOf(id) = applied[VersionOf(id)].payment
<1>1. CASE id \in DOMAIN payments
  <2>1. PaymentOf(id) = payments[id] /\ payments[id] \in Payments
    BY <1>1 DEF PaymentOf, TypeInv, TypeOK, StoreTypeOK
  <2>2. PaymentOf(id) # NoPayment
    BY <2>1, StoreAssumption
  <2> QED
    BY <1>1, <2>1, <2>2 DEF TablesGood, LatestRow
<1>2. CASE id \notin DOMAIN payments
  <2>1. PaymentOf(id) = NoPayment
    BY <1>2 DEF PaymentOf
  <2>2. VersionsOf(id) = {}
    BY <1>2 DEF VersionsOf, TablesGood, GoodVersion
  <2>3. VersionOf(id) \in {0} \cup VersionsOf(id)
    BY VersionOfType DEF TypeInv, TypeOK, StoreTypeOK
  <2> QED
    BY <2>1, <2>2, <2>3
<1> QED
  BY <1>1, <1>2

\* A step that writes no row keeps ProvInv, if every goroutine stays good.
LEMMA QuietInv ==
  ASSUME TypeInv, ProvInv, Grows, UNCHANGED <<webhookEvents, payments, applied>>,
         \A h \in Handlers : Good(h)',
         \A s \in orphans' : s \in orphans \/ \E h \in Handlers : s \in WritesOf(h),
         acks' = acks
  PROVE  ProvInv'
<1>1. \A s \in orphans' : s \in orphans \/ GoodStatement(s)
  BY WritesGood DEF ProvInv
<1>2. TablesGood'
  BY <1>1, QuietTables DEF ProvInv
<1>3. AcksGood'
  BY StaysAcked DEF ProvInv
<1> QED
  BY <1>2, <1>3 DEF ProvInv

\* Only one goroutine moves.
Alone(h) ==
  \A g \in Handlers \ {h} :
    pc'[g] = pc[g] /\ request'[g] = request[g] /\ update'[g] = update[g] /\ over'[g] = over[g]

\* The others stay good when one goroutine moves.
LEMMA AloneGood ==
  ASSUME TypeInv, ProvInv, Grows, NEW h \in Handlers, Alone(h), Good(h)'
  PROVE  \A g \in Handlers : Good(g)'
BY StaysGood DEF Alone, ProvInv

\* A goroutine that ends, or that ends with an error, relies on nothing new.
LEMMA EndsGood ==
  ASSUME NEW h \in Handlers, Grows,
         \/ pc'[h] = "idle"
         \/ pc'[h] = "internal_error" /\ IsAuthentic(update[h].Event) /\ update'[h] = update[h]
  PROVE  Good(h)'
BY StaysKnown DEF Good, Processing

\* Nothing is stored and nobody is at work in the initial state.
LEMMA InitProv == Init => ProvInv
BY DEF Init, StoreInit, ProvInv, Good, Processing, TablesGood, LatestRow, StoredIsAuthentic,
       AcksGood, AckedIsStored, ProcessedIsSettled

\* ServeHTTP up to Process: the event of a signed request enters the program.
LEMMA EndpointProv ==
  ASSUME TypeInv, ProvInv, NEW h \in Handlers,
         Reject(h) \/ Accept(h) \/ \E r \in Requests : Receive(h, r)
  PROVE  ProvInv'
<1> USE DEF storeVars, worldVars
<1>0. /\ pc \in [Handlers -> Locations] /\ update \in [Handlers -> Updates]
      /\ request \in [Handlers -> Requests \cup {NoRequest}] /\ over \in [Handlers -> Nat]
      /\ deliveries \in [Requests -> Nat]
  BY DEF TypeInv, TypeOK
<1>1. CASE \E r \in Requests : Receive(h, r)
  <2>1. PICK r \in Requests : Receive(h, r)
    BY <1>1
  <2>2. deliveries' = [deliveries EXCEPT ![r] = deliveries[r] + 1]
    BY <2>1 DEF Receive
  <2>3. Grows /\ deliveries'[r] > 0
    <3>1. /\ deliveries'[r] = deliveries[r] + 1 /\ deliveries[r] \in Nat
          /\ \A q \in Requests : q # r => deliveries'[q] = deliveries[q]
      BY <1>0, <2>2
    <3>2. deliveries'[r] > 0
      BY <3>1
    <3>3. \A q \in Requests : deliveries[q] > 0 => deliveries'[q] > 0
      BY <3>1, <3>2
    <3> QED
      BY <2>1, <3>2, <3>3 DEF Receive, Grows
  <2>4. Alone(h) /\ pc'[h] = "received" /\ request'[h] = r
    BY <1>0, <2>1 DEF Receive, Goto, Alone
  <2>5. Good(h)'
    BY <2>3, <2>4 DEF Good, Processing
  <2> QED
    BY <2>1, <2>3, <2>4, <2>5, AloneGood, QuietInv DEF Receive
<1>2. CASE Reject(h)
  <2>1. PICK counted : RejectWith(h, counted)
    BY <1>2 DEF Reject, RejectMethod, RejectBody, RejectSignature, RejectPayload
  <2>2. Grows /\ Alone(h) /\ pc'[h] = "idle"
    BY <1>0, <2>1 DEF RejectWith, Finish, Goto, Grows, Alone
  <2> QED
    BY <2>1, <2>2, EndsGood, AloneGood, QuietInv DEF RejectWith
<1>3. CASE Accept(h)
  <2>1. Grows /\ Alone(h) /\ pc'[h] = "insert"
    BY <1>0, <1>3 DEF Accept, Goto, Grows, Alone
  <2>2. update'[h].Event = ParseEvent(request[h].body)
    BY <1>0, <1>3 DEF Accept, Updates
  <2>3. IsAuthentic(update[h].Event)'
    <3>1. request[h] \in Requests /\ deliveries[request[h]] > 0 /\ UNCHANGED deliveries
      BY <1>3 DEF Accept, TypeInv, LocalsOK, ProvInv, Good
    <3>2. IsAcceptable(request[h])
      BY <1>3 DEF Accept
    <3> QED
      BY <2>2, <3>1, <3>2 DEF IsAuthentic
  <2>4. Good(h)'
    BY <2>1, <2>3 DEF Good, Processing
  <2> QED
    BY <1>3, <2>1, <2>4, AloneGood, QuietInv DEF Accept
<1> QED
  BY <1>1, <1>2, <1>3

\* IdempotencyService.Process: the goroutine goes on with the row of its event,
\* or stops because there is one already.
LEMMA InsertProv ==
  ASSUME TypeInv, ProvInv, NEW h \in Handlers,
         InsertEvent(h) \/ InsertDuplicate(h) \/ InsertRejected(h)
  PROVE  ProvInv'
<1> USE DEF storeVars, worldVars
<1>0. pc \in [Handlers -> Locations] /\ update \in [Handlers -> Updates]
  BY DEF TypeInv, TypeOK
<1>1. Good(h) /\ IsAuthentic(update[h].Event) /\ update[h].Event \in PaymentEvents
  BY DEF InsertEvent, InsertDuplicate, InsertRejected, ProvInv, Good, TypeInv, LocalsOK
<1>2. CASE InsertEvent(h)
  <2>1. PICK s \in WritesOf(h) : Commit(s)
    BY <1>2 DEF InsertEvent
  <2>2. /\ s \in Statements /\ s.op = "insert_webhook_event" /\ s.event = update[h].Event
        /\ GoodStatement(s)
    BY <1>1, <1>2, <2>1, WritesType, WritesGood DEF InsertEvent, WritesOf
  <2>3. PICK id : id = Len(webhookEvents') /\ Grows /\ TablesGood' /\ IsRowOf(id, s.event)'
    BY <1>2, <2>1, <2>2, InsertTables DEF InsertEvent, ProvInv
  <2>4. Alone(h) /\ pc'[h] = "get" /\ update'[h].Event = update[h].Event
    BY <1>0, <1>2 DEF InsertEvent, Goto, Alone, Updates
  <2>5. update'[h].WebhookEventID = id
    BY <1>0, <1>2, <2>3 DEF InsertEvent, ReturnedId, Updates
  <2>6. Good(h)'
    <3>1. IsAuthentic(s.event)'
      BY <1>1, <2>2, <2>3, StaysKnown
    <3> QED
      BY <2>2, <2>3, <2>4, <2>5, <3>1 DEF Good, Processing, IsAuthentic, IsRowOf
  <2>7. AcksGood'
    BY <1>2, <2>3, StaysAcked DEF InsertEvent, ProvInv
  <2> QED
    BY <2>3, <2>4, <2>6, <2>7, AloneGood DEF ProvInv
<1>3. CASE InsertDuplicate(h)
  <2>1. Grows /\ Alone(h) /\ pc'[h] = "duplicate" /\ update'[h] = update[h]
    BY <1>0, <1>3 DEF InsertDuplicate, AnswerDuplicate, Goto, Grows, Alone
  <2>2. IdsOf(update[h].Event.ProviderEventID) # {}
    BY <1>3 DEF InsertDuplicate, IsDuplicate, IdsOf
  <2>3. Good(h)'
    BY <1>1, <2>1, <2>2, StaysKnown DEF Good, Processing
  <2> QED
    BY <1>3, <2>1, <2>3, AloneGood, QuietInv DEF InsertDuplicate
<1>4. CASE InsertRejected(h)
  <2>1. Grows /\ Alone(h) /\ pc'[h] = "internal_error" /\ update'[h] = update[h]
    BY <1>0, <1>4 DEF InsertRejected, Goto, Grows, Alone
  <2> QED
    BY <1>1, <1>4, <2>1, EndsGood, AloneGood, QuietInv DEF InsertRejected
<1> QED
  BY <1>2, <1>3, <1>4

\* PaymentProcessor.Process decides on the latest version there is.
LEMMA ReadProv ==
  ASSUME TypeInv, ProvInv, NEW h \in Handlers, GetPayment(h)
  PROVE  ProvInv'
<1> USE DEF storeVars, worldVars
<1> DEFINE event == update[h].Event
           held == update[h].WebhookEventID
           row == PaymentOf(event.PaymentID)
           version == VersionOf(event.PaymentID)
<1>0. /\ pc \in [Handlers -> Locations] /\ over \in [Handlers -> Nat]
      /\ current \in [Handlers -> Payments \cup {NoPayment}]
  BY DEF TypeInv, TypeOK
<1>1. ReadPayment(h) /\ pc[h] = "get"
  BY DEF GetPayment, GetPaymentToCreate, GetPaymentToUpdate, GetPaymentWithAnomaly,
         GetPaymentEqual, ReadPayment
<1>2. /\ IsAuthentic(event) /\ event \in PaymentEvents /\ event.PaymentID \in Identifiers
      /\ IsRowOf(held, event)
  BY <1>1 DEF ProvInv, Good, Processing, TypeInv, LocalsOK, PaymentEvents
<1>3. /\ row = NoPayment => version = 0
      /\ row # NoPayment => /\ event.PaymentID \in DOMAIN payments
                            /\ version \in VersionsOf(event.PaymentID)
                            /\ row = applied[version].payment
  BY <1>2, ReadsLatest DEF ProvInv
<1>4. Grows /\ current'[h] = row /\ over'[h] = version /\ UNCHANGED <<update, request>>
  BY <1>0, <1>1 DEF ReadPayment, Grows
<1>5. Alone(h)
  BY <1>0, <1>1 DEF GetPayment, GetPaymentToCreate, GetPaymentToUpdate, GetPaymentWithAnomaly,
         GetPaymentEqual, ReadPayment, Ignore, Goto, Alone
<1>6. /\ IsAuthentic(event)' /\ IsRowOf(held, event)'
  BY <1>2, <1>4, StaysKnown DEF IsAuthentic, IsRowOf
<1>7. row # NoPayment /\ ~Advances(event, row) => IsSettled(held)
  BY <1>2, <1>3 DEF IsSettled, IsSuperseded, IsRowOf
<1>8. Good(h)'
  <2>1. CASE GetPaymentToCreate(h) \/ GetPaymentToUpdate(h)
    <3>1. pc'[h] = "upsert"
      BY <1>0, <2>1 DEF GetPaymentToCreate, GetPaymentToUpdate, Goto
    <3>2. Respects(event, version)
      BY <1>3, <1>4, <2>1 DEF GetPaymentToCreate, GetPaymentToUpdate, IsWritten, Respects
    <3>3. Respects(event, over[h])'
      BY <1>4, <1>1, <3>2 DEF Respects, VersionsOf, ReadPayment
    <3> QED
      BY <1>4, <1>6, <3>1, <3>3 DEF Good, Processing
  <2>2. CASE GetPaymentWithAnomaly(h)
    <3>1. pc'[h] = "record" /\ row # NoPayment /\ DetectedTypes(row, event) # {}
      BY <1>0, <1>4, <2>2 DEF GetPaymentWithAnomaly, Goto
    <3>2. ~Advances(event, row)
      <4>1. row \in Payments
        BY <1>0, <1>3, <3>1 DEF PaymentOf, TypeInv, TypeOK, StoreTypeOK
      <4> QED
        BY <1>2, <3>1, <4>1
        DEF DetectedTypes, Advances, Before, After, Payments, PaymentEvents
    <3>3. IsSettled(held)' /\ event.PaymentID \in DOMAIN payments'
      BY <1>1, <1>2, <1>3, <1>4, <1>7, <3>1, <3>2, StaysKnown DEF IsRowOf, ReadPayment
    <3> QED
      BY <1>4, <1>6, <3>1, <3>3 DEF Good, Processing
  <2>3. CASE GetPaymentEqual(h)
    <3>1. pc'[h] = "processed" /\ row # NoPayment /\ ~Advances(event, row)
      BY <1>0, <1>4, <2>3 DEF GetPaymentEqual, Ignore, IsWritten, Goto
    <3>2. IsSettled(held)'
      BY <1>2, <1>4, <1>7, <3>1, StaysKnown DEF IsRowOf
    <3> QED
      BY <1>4, <1>6, <3>1, <3>2 DEF Good, Processing
  <2> QED
    BY <2>1, <2>2, <2>3 DEF GetPayment
<1> QED
  BY <1>1, <1>4, <1>5, <1>8, AloneGood, QuietInv DEF ReadPayment

\* Record and Upsert: an ignored event is settled already, a written one is now.
LEMMA WriteProv ==
  ASSUME TypeInv, ProvInv, NEW h \in Handlers, RecordAnomaly(h) \/ UpsertState(h)
  PROVE  ProvInv'
<1> USE DEF storeVars, worldVars
<1>0. pc \in [Handlers -> Locations]
  BY DEF TypeInv, TypeOK
<1>1. PICK s \in WritesOf(h) : Commit(s)
  BY DEF RecordAnomaly, UpsertState
<1>2. s \in Statements /\ GoodStatement(s)
  BY WritesType, WritesGood DEF ProvInv
<1>3. /\ Alone(h) /\ pc'[h] = "processed" /\ update'[h] = update[h]
      /\ UNCHANGED <<orphans, deliveries, acks>>
  BY <1>0 DEF RecordAnomaly, AfterRecord, Ignore, UpsertState, Goto, Alone
<1>4. /\ IsAuthentic(update[h].Event)
      /\ IsRowOf(update[h].WebhookEventID, update[h].Event)
  BY DEF RecordAnomaly, UpsertState, ProvInv, Good, Processing
<1>5. CASE RecordAnomaly(h)
  <2>1. UNCHANGED <<webhookEvents, payments, applied>>
    <3>1. s.op = "insert_anomaly"
      BY <1>1, <1>5 DEF RecordAnomaly, WritesOf
    <3> QED
      BY <1>1, <3>1 DEF Commit, InsertAnomaly
  <2>2. Grows
    BY <1>3, <2>1 DEF Grows
  <2>3. IsSettled(update[h].WebhookEventID)
    BY <1>5 DEF RecordAnomaly, ProvInv, Good
  <2>4. /\ IsAuthentic(update[h].Event)' /\ IsSettled(update[h].WebhookEventID)'
        /\ IsRowOf(update[h].WebhookEventID, update[h].Event)'
    BY <1>3, <1>4, <2>1, <2>3
    DEF IsAuthentic, IsSettled, IsApplied, IsSuperseded, VersionsOf, IsRowOf, EventOf
  <2>5. Good(h)'
    BY <1>3, <2>4 DEF Good, Processing
  <2> QED
    BY <1>3, <2>1, <2>2, <2>5, AloneGood, QuietInv
<1>6. CASE UpsertState(h)
  <2>1. s.op = "upsert_payment" /\ s.by = update[h].WebhookEventID
    BY <1>1, <1>6 DEF UpsertState, WritesOf
  <2>2. Grows /\ TablesGood' /\ IsApplied(s.by)' /\ UNCHANGED webhookEvents
    <3>1. UNCHANGED webhookEvents
      BY <1>1, <2>1 DEF Commit, UpsertPayment
    <3> QED
      BY <1>1, <1>2, <1>3, <2>1, <3>1, UpsertTables DEF ProvInv
  <2>3. /\ IsAuthentic(update[h].Event)' /\ IsSettled(update[h].WebhookEventID)'
        /\ IsRowOf(update[h].WebhookEventID, update[h].Event)'
    BY <1>3, <1>4, <2>1, <2>2 DEF IsAuthentic, IsSettled, IsApplied, IsRowOf, EventOf
  <2>4. Good(h)'
    BY <1>3, <2>3 DEF Good, Processing
  <2>5. AcksGood'
    BY <1>3, <2>2, StaysAcked DEF ProvInv
  <2> QED
    BY <1>3, <2>2, <2>4, <2>5, AloneGood DEF ProvInv
<1> QED
  BY <1>5, <1>6

\* A failed call leaves a good statement behind; the error of Record is dropped
\* only for an event that is settled.
LEMMA FailProv ==
  ASSUME TypeInv, ProvInv, NEW h \in Handlers,
         CallFails(h) \/ RecordFails(h) \/ UpsertRejected(h)
  PROVE  ProvInv'
<1> USE DEF storeVars, worldVars
<1>0. pc \in [Handlers -> Locations]
  BY DEF TypeInv, TypeOK
<1>1. /\ UNCHANGED <<webhookEvents, payments, applied, deliveries, acks, update>>
      /\ orphans' \subseteq orphans \cup WritesOf(h)
  BY DEF CallFails, RecordFails, AfterRecord, Abandon, UpsertRejected
<1>2. Grows /\ Alone(h)
  BY <1>0, <1>1
  DEF Grows, CallFails, RecordFails, AfterRecord, Ignore, UpsertRejected, Goto, Alone
<1>3. Good(h)'
  <2>1. IsAuthentic(update[h].Event)
    BY DEF CallFails, RecordFails, UpsertRejected, ProvInv, Good
  <2>2. CASE CallFails(h) \/ UpsertRejected(h)
    <3>1. pc'[h] = "internal_error"
      BY <1>0, <2>2 DEF CallFails, UpsertRejected, AfterError, Goto
    <3> QED
      BY <1>1, <1>2, <2>1, <3>1, EndsGood
  <2>3. CASE RecordFails(h)
    <3>1. pc'[h] = "processed"
      BY <1>0, <2>3 DEF RecordFails, AfterRecord, Ignore, Goto
    <3>2. /\ IsRowOf(update[h].WebhookEventID, update[h].Event)
          /\ IsSettled(update[h].WebhookEventID)
      BY <2>3 DEF RecordFails, ProvInv, Good, Processing
    <3>3. /\ IsAuthentic(update[h].Event)' /\ IsSettled(update[h].WebhookEventID)'
          /\ IsRowOf(update[h].WebhookEventID, update[h].Event)'
      BY <1>1, <2>1, <3>2
      DEF IsAuthentic, IsSettled, IsApplied, IsSuperseded, VersionsOf, IsRowOf, EventOf
    <3> QED
      BY <3>1, <3>3 DEF Good, Processing
  <2> QED
    BY <2>2, <2>3
<1> QED
  BY <1>1, <1>2, <1>3, AloneGood, QuietInv

\* A 200 is written for a row that is there and dealt with.
LEMMA RespondProv ==
  ASSUME TypeInv, ProvInv, NEW h \in Handlers, RespondOK(h) \/ RespondError(h)
  PROVE  ProvInv'
<1> USE DEF storeVars, worldVars
<1>0. pc \in [Handlers -> Locations]
  BY DEF TypeInv, TypeOK
<1>1. /\ UNCHANGED <<webhookEvents, payments, applied, orphans, deliveries>>
      /\ Grows /\ Alone(h) /\ pc'[h] = "idle"
  <2>1. UNCHANGED <<webhookEvents, payments, applied, orphans, deliveries>> /\ Finish(h)
    BY DEF RespondOK, RespondError
  <2>2. Alone(h) /\ pc'[h] = "idle"
    BY <1>0, <2>1 DEF Finish, Goto, Alone
  <2>3. Grows
    BY <2>1 DEF Grows
  <2> QED
    BY <2>1, <2>2, <2>3
<1>2. \A g \in Handlers : Good(g)'
  BY <1>1, EndsGood, AloneGood
<1>3. TablesGood'
  BY <1>1, QuietTables DEF ProvInv
<1>4. ASSUME NEW ack \in acks'
      PROVE  \/ ack \in acks
             \/ /\ IdsOf(ack.id) # {}
                /\ ack.status = "processed" => \E id \in IdsOf(ack.id) : IsSettled(id)
  <2>1. CASE ack \notin acks
    <3>1. /\ ack.id = update[h].Event.ProviderEventID /\ ack.status = pc[h]
          /\ pc[h] \in {"processed", "duplicate"}
      BY <2>1 DEF RespondOK, RespondError, IsServed, ServedStatuses
    <3>2. CASE pc[h] = "duplicate"
      BY <3>1, <3>2 DEF ProvInv, Good
    <3>3. CASE pc[h] = "processed"
      <4>1. /\ IsRowOf(update[h].WebhookEventID, update[h].Event)
            /\ IsSettled(update[h].WebhookEventID)
        BY <3>3 DEF ProvInv, Good
      <4>2. update[h].WebhookEventID \in IdsOf(ack.id)
        BY <3>1, <4>1 DEF IdsOf, IsRowOf
      <4> QED
        BY <4>1, <4>2
    <3> QED
      BY <3>1, <3>2, <3>3
  <2> QED
    BY <2>1
<1>5. AcksGood'
  BY <1>1, <1>4, StaysAcked DEF ProvInv
<1> QED
  BY <1>2, <1>3, <1>5 DEF ProvInv

\* Clients go away, the process dies, and statements commit late or never.
LEMMA FaultProv ==
  ASSUME TypeInv, ProvInv,
         (\E h \in Handlers : Disconnect(h)) \/ Crash \/ Late \/ UNCHANGED vars
  PROVE  ProvInv'
<1> USE DEF storeVars, worldVars
<1>1. CASE (\E h \in Handlers : Disconnect(h)) \/ UNCHANGED vars
  <2>1. /\ UNCHANGED <<webhookEvents, payments, applied, orphans, deliveries, acks>>
        /\ UNCHANGED <<pc, request, update, over>> /\ Grows
    BY <1>1 DEF Disconnect, vars, localVars, Grows
  <2>2. \A h \in Handlers : Good(h)'
    BY <2>1, StaysGood DEF ProvInv
  <2> QED
    BY <2>1, <2>2, QuietInv
<1>2. CASE Crash
  <2>1. /\ UNCHANGED <<webhookEvents, payments, applied, deliveries, acks>> /\ Grows
        /\ \A s \in orphans' : s \in orphans \/ \E h \in Handlers : s \in WritesOf(h)
        /\ \A h \in Handlers : pc'[h] = "idle"
    BY <1>2 DEF Crash, Abandon, Grows
  <2>2. \A h \in Handlers : Good(h)'
    BY <2>1, EndsGood
  <2> QED
    BY <2>1, <2>2, QuietInv
<1>3. CASE Late
  <2>1. PICK s \in orphans : OrphanCommits(s) \/ OrphanDropped(s)
    BY <1>3 DEF Late
  <2>2. /\ s \in Statements /\ GoodStatement(s) /\ orphans' = orphans \ {s}
        /\ UNCHANGED <<pc, request, update, over, deliveries, acks>>
    BY <1>3, <2>1 DEF Late, localVars, OrphanCommits, OrphanDropped, TypeInv, TypeOK, StoreTypeOK,
                      ProvInv, TablesGood
  <2>3. Grows /\ TablesGood'
    <3>1. CASE UNCHANGED <<webhookEvents, payments, applied>>
      <4>1. Grows
        BY <2>2, <3>1 DEF Grows
      <4> QED
        BY <2>2, <3>1, <4>1, QuietTables DEF ProvInv
    <3>2. CASE Commit(s) /\ s.op = "insert_webhook_event"
      BY <2>2, <3>2, InsertTables DEF ProvInv
    <3>3. CASE Commit(s) /\ s.op = "upsert_payment"
      BY <2>2, <3>3, UpsertTables DEF ProvInv
    <3>4. \/ UNCHANGED <<webhookEvents, payments, applied>>
          \/ Commit(s) /\ s.op \in {"insert_webhook_event", "upsert_payment"}
      BY <2>1, <2>2 DEF OrphanCommits, OrphanDropped, Statements, Commit, InsertAnomaly
    <3> QED
      BY <3>1, <3>2, <3>3, <3>4
  <2>4. \A h \in Handlers : Good(h)'
    BY <2>2, <2>3, StaysGood DEF ProvInv
  <2>5. AcksGood'
    BY <2>2, <2>3, StaysAcked DEF ProvInv
  <2> QED
    BY <2>3, <2>4, <2>5 DEF ProvInv
<1> QED
  BY <1>1, <1>2, <1>3

\* ProvInv is inductive, given TypeInv.
LEMMA NextProv == TypeInv /\ ProvInv /\ [Next]_vars => ProvInv'
<1> SUFFICES ASSUME TypeInv, ProvInv, [Next]_vars PROVE ProvInv'
  OBVIOUS
<1>1. CASE \E h \in Handlers, r \in Requests : Receive(h, r)
  BY <1>1, EndpointProv
<1>2. CASE \E h \in Handlers : Advance(h)
  BY <1>2, EndpointProv, InsertProv, ReadProv, WriteProv, FailProv, RespondProv
  DEF Advance, BodyEnds, CallReturns, Respond
<1>3. CASE (\E h \in Handlers : Disconnect(h)) \/ Crash \/ Late \/ UNCHANGED vars
  BY <1>3, FaultProv
<1> QED
  BY <1>1, <1>2, <1>3 DEF Next

\* TypeInv and ProvInv hold in every state of the service.
LEMMA ProvAlways == Spec => [](TypeInv /\ ProvInv)
BY InitType, NextType, InitProv, NextProv, PTL DEF Spec

-----------------------------------------------------------------------------

\* Only what a delivered, signed and well-formed request carried is stored
\* (ServeHTTP validates before it parses, and parses before it stores).
THEOREM Authentic == Spec => []StoredIsAuthentic
<1>1. ProvInv => StoredIsAuthentic
  BY DEF ProvInv, TablesGood
<1> QED
  BY <1>1, ProvAlways, PTL

\* No acknowledgement without a row: whatever fails, a provider that saw a 200
\* need not send the event again for it to be stored.
THEOREM AcksAreFounded == Spec => []AckedIsStored
<1>1. ProvInv => AckedIsStored
  BY DEF ProvInv, AcksGood
<1> QED
  BY <1>1, ProvAlways, PTL

\* A 200 with "processed" is sent only for an event that was written to its
\* payment or is ignored for a version that existed (PaymentProcessor.Process).
THEOREM ProcessedMeansSettled == Spec => []ProcessedIsSettled
<1>1. ProvInv => ProcessedIsSettled
  BY DEF ProvInv, AcksGood
<1> QED
  BY <1>1, ProvAlways, PTL

\* A payments row is one stored event of its payment, whole: the upsert sets
\* every column the event determines.
THEOREM Provenance == Spec => []PaymentProvenance
<1>1. ProvInv => PaymentProvenance
  <2> SUFFICES ASSUME ProvInv, NEW id \in DOMAIN payments
               PROVE  /\ applied[VersionOf(id)].by \in DOMAIN webhookEvents
                      /\ payments[id] = PaymentRow(paymentFromEvent(EventOf(applied[VersionOf(id)].by)))
                      /\ payments[id].PaymentID = id
    BY DEF PaymentProvenance
  <2>1. /\ payments[id].PaymentID = id /\ VersionOf(id) \in DOMAIN applied
        /\ payments[id] = applied[VersionOf(id)].payment
    BY DEF ProvInv, TablesGood, LatestRow, VersionsOf
  <2>2. GoodVersion(VersionOf(id))
    BY <2>1 DEF ProvInv, TablesGood
  <2> QED
    BY <2>1, <2>2 DEF GoodVersion
<1> QED
  BY <1>1, ProvAlways, PTL

\* Every write over a version the processor read comes from an event that is
\* newer than that version and may follow it, also when the write came late.
THEOREM WritesRespectReads == Spec => []WritesRespectTheirRead
<1>1. TypeInv /\ ProvInv => WritesRespectTheirRead
  <2> SUFFICES ASSUME TypeInv, ProvInv, NEW n \in DOMAIN applied
               PROVE  /\ applied[n].over < n
                      /\ applied[n].over # 0 =>
                           /\ applied[n].over \in VersionsOf(applied[n].payment.PaymentID)
                           /\ Advances(EventOf(applied[n].by), applied[applied[n].over].payment)
    BY DEF WritesRespectTheirRead
  <2>1. GoodVersion(n)
    BY DEF ProvInv, TablesGood
  <2>2. EventOf(applied[n].by) \in PaymentEvents
    <3>1. PICK r \in Requests : /\ IsEvent(r.body)
                                /\ webhookEvents[applied[n].by] = WebhookEventRow(ParseEvent(r.body))
      BY <2>1 DEF GoodVersion, ProvInv, TablesGood, StoredIsAuthentic
    <3>2. r.body \in Bodies
      BY ServiceAssumption
    <3>3. ParseEvent(r.body) \in PaymentEvents
      BY <3>1, <3>2, ParseEventType
    <3>4. webhookEvents[applied[n].by].RawPayload = r.body
      BY <3>1, <3>3, RowTypes DEF ParseEvent
    <3> QED
      BY <3>3, <3>4 DEF EventOf
  <2>3. applied[n].payment.PaymentID = EventOf(applied[n].by).PaymentID
    BY <2>1, <2>2, PaymentOfEvent DEF GoodVersion
  <2> QED
    BY <2>1, <2>3 DEF GoodVersion, Respects
<1> QED
  BY <1>1, ProvAlways, PTL

\* Record never trips over a foreign key, so the error that recordAnomalies drops
\* is always a failed call.
THEOREM AnomaliesAdmitted == Spec => []AnomalyIsAdmitted
<1>1. ProvInv => AnomalyIsAdmitted
  <2> SUFFICES ASSUME ProvInv, NEW h \in Handlers, pc[h] = "record", NEW s \in WritesOf(h)
               PROVE  Admits(s)
    BY DEF AnomalyIsAdmitted
  <2>1. /\ update[h].WebhookEventID \in DOMAIN webhookEvents
        /\ update[h].Event.PaymentID \in DOMAIN payments
    BY DEF ProvInv, Good, Processing, IsRowOf
  <2>2. /\ s.op = "insert_anomaly"
        /\ s.anomaly.WebhookEventID = update[h].WebhookEventID
        /\ s.anomaly.PaymentID = update[h].Event.PaymentID
    BY DEF WritesOf, DetectAnomalies
  <2> QED
    BY <2>1, <2>2 DEF Admits
<1> QED
  BY <1>1, ProvAlways, PTL
=============================================================================
