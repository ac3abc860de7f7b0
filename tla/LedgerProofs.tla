---------------------------- MODULE LedgerProofs ----------------------------
(***************************************************************************)
(* The webhook service implements the payment ledger.  What a step does to *)
(* the ledger's variables is done by the one statement it commits: an      *)
(* insert takes an event in, an upsert writes a version, an anomaly is     *)
(* nothing to the ledger.  That the ledger allows it follows from what     *)
(* the statement relies on (ProvInv) and from the token it spends          *)
(* (OnceInv).  Recording an anomaly spends the same token (ReportInv), so  *)
(* an event is written or reported, never both.                            *)
(***************************************************************************)
EXTENDS AtMostOnceProofs, ProvenanceProofs, WebhookLedger

LedgerInv == TypeInv /\ OnceInv /\ ProvInv

\* LedgerInv holds in every state.
LEMMA LedgerAlways == Spec => []LedgerInv
BY InitType, NextType, InitOnce, NextOnce, InitProv, NextProv, PTL DEF Spec, LedgerInv

\* Only a committed statement changes the rows and versions of the ledger.
Commits(s) ==
  /\ Commit(s)
  /\ s \in orphans \/ \E h \in Handlers : s \in WritesOf(h)

-----------------------------------------------------------------------------

\* The ledger's rules are the processor's.
LEMMA SameRules ==
  /\ \A event : Ledger!paymentFromEvent(event) = paymentFromEvent(event)
  /\ \A event, payment : Ledger!Advances(event, payment) <=> Advances(event, payment)
BY DEF Ledger!paymentFromEvent, paymentFromEvent, Ledger!Advances, Advances,
       Ledger!After, After, Ledger!isTransitionAllowed, isTransitionAllowed,
       Ledger!NextStatuses, NextStatuses

\* Every step leaves rows and versions alone or commits one statement.
LEMMA StepCommits ==
  ASSUME [Next]_vars
  PROVE  UNCHANGED <<webhookEvents, payments, applied>> \/ \E s : Commits(s)
<1> USE DEF storeVars, worldVars
<1>1. CASE \E h \in Handlers : InsertEvent(h) \/ RecordAnomaly(h) \/ UpsertState(h)
  BY <1>1 DEF InsertEvent, RecordAnomaly, UpsertState, Commits
<1>2. CASE Late
  BY <1>2 DEF Late, OrphanCommits, OrphanDropped, Commits
<1>3. CASE \E h \in Handlers, r \in Requests : Receive(h, r)
  BY <1>3 DEF Receive
<1>4. CASE \E h \in Handlers : Reject(h) \/ Accept(h) \/ RespondOK(h) \/ RespondError(h)
  BY <1>4 DEF Reject, RejectMethod, RejectBody, RejectSignature, RejectPayload, RejectWith,
              Accept, RespondOK, RespondError
<1>5. CASE \E h \in Handlers : InsertDuplicate(h) \/ InsertRejected(h) \/ UpsertRejected(h) \/ GetPayment(h)
  BY <1>5 DEF InsertDuplicate, InsertRejected, UpsertRejected, AfterError, GetPayment,
              GetPaymentToCreate,
              GetPaymentToUpdate, GetPaymentWithAnomaly, GetPaymentEqual, ReadPayment
<1>6. CASE (\E h \in Handlers : CallFails(h) \/ RecordFails(h)) \/ Crash
  BY <1>6 DEF CallFails, RecordFails, Crash, Abandon
<1>7. CASE (\E h \in Handlers : Disconnect(h)) \/ UNCHANGED vars
  BY <1>7 DEF Disconnect, vars
<1> QED
  BY <1>1, <1>2, <1>3, <1>4, <1>5, <1>6, <1>7 DEF Next, Advance, BodyEnds, CallReturns, Respond

\* The event of a row: an offered one, and the row carries its id.
LEMMA RowEvent ==
  ASSUME LedgerInv, NEW id \in DOMAIN webhookEvents
  PROVE  /\ EventOf(id) \in PaymentEvents
         /\ webhookEvents[id].ProviderEventID = EventOf(id).ProviderEventID
<1>1. PICK r \in Requests :
        IsEvent(r.body) /\ webhookEvents[id] = WebhookEventRow(ParseEvent(r.body))
  BY DEF LedgerInv, ProvInv, TablesGood, StoredIsAuthentic
<1>2. ParseEvent(r.body) \in PaymentEvents
  BY <1>1, ParseEventType, ServiceAssumption
<1>3. /\ webhookEvents[id].RawPayload = ParseEvent(r.body).RawPayload
      /\ webhookEvents[id].ProviderEventID = ParseEvent(r.body).ProviderEventID
  BY <1>1, <1>2, RowTypes
<1>4. ParseEvent(r.body).RawPayload = r.body
  BY DEF ParseEvent
<1>5. EventOf(id) = ParseEvent(r.body)
  BY <1>3, <1>4 DEF EventOf
<1> QED
  BY <1>2, <1>3, <1>5

\* An authentic event is one of those the provider signs.
LEMMA AuthenticIsSigned ==
  ASSUME NEW event, IsAuthentic(event)
  PROVE  event \in SignedEvents
BY DEF IsAuthentic, SignedEvents

-----------------------------------------------------------------------------

\* Insert takes the event in (WebhookEventRepository.Insert).
LEMMA InsertTakesIn ==
  ASSUME LedgerInv, NEW s \in Statements, Commits(s), GoodStatement(s),
         s.op = "insert_webhook_event"
  PROVE  Ledger!TakeIn(s.event) /\ s.event \in SignedEvents
<1>1. /\ s.event \in PaymentEvents /\ IsAuthentic(s.event) /\ ~IsDuplicate(s.event)
      /\ webhookEvents' = Append(webhookEvents, WebhookEventRow(s.event))
      /\ UNCHANGED applied
  BY DEF Statements, GoodStatement, Commits, Commit, Admits, InsertWebhookEvent
<1>2. PICK k : k = Len(webhookEvents')
  OBVIOUS
<1>3. /\ DOMAIN webhookEvents' = DOMAIN webhookEvents \cup {k}
      /\ \A id \in DOMAIN webhookEvents : webhookEvents'[id] = webhookEvents[id]
      /\ webhookEvents'[k] = WebhookEventRow(s.event)
  BY <1>1, <1>2, RowTypes DEF LedgerInv, TypeInv, TypeOK, StoreTypeOK
<1>4. \A id \in DOMAIN webhookEvents : EventOf(id)' = EventOf(id)
  BY <1>3 DEF EventOf
<1>5. EventOf(k)' = s.event
  BY <1>1, <1>3, RowRoundTrip DEF EventOf
<1>6. LedgerEvents' = LedgerEvents \cup {s.event}
  BY <1>3, <1>4, <1>5 DEF LedgerEvents
<1>7. LedgerVersions' = LedgerVersions
  <2>1. \A n \in DOMAIN applied : applied[n].by \in DOMAIN webhookEvents
    BY DEF LedgerInv, OnceInv, Spent
  <2>2. \A n \in DOMAIN applied : EventOf(applied[n].by)' = EventOf(applied[n].by)
    BY <1>1, <1>4, <2>1 DEF EventOf
  <2> QED
    BY <1>1, <2>2 DEF LedgerVersions
<1>8. \A e \in LedgerEvents : e.ProviderEventID # s.event.ProviderEventID
  BY <1>1, RowEvent DEF LedgerEvents, IsDuplicate
<1> QED
  BY <1>1, <1>6, <1>7, <1>8, AuthenticIsSigned DEF Ledger!TakeIn

\* The token an upsert spends has not been spent.
LEMMA UpsertToken ==
  ASSUME LedgerInv, NEW s, Commits(s), s.op = "upsert_payment"
  PROVE  s.by \in DOMAIN webhookEvents /\ ~IsApplied(s.by)
<1>1. CASE s \in orphans
  BY <1>1 DEF LedgerInv, OnceInv, HeldByOrphan, Upserts
<1>2. CASE \E h \in Handlers : s \in WritesOf(h)
  <2>1. PICK h \in Handlers : s \in WritesOf(h)
    BY <1>2
  <2>2. pc[h] = "upsert" /\ s.by = Held(h)
    BY <2>1, UpsertOfHolder DEF Upserts
  <2> QED
    BY <2>2 DEF LedgerInv, OnceInv, HeldByGoroutine, Processing
<1> QED
  BY <1>1, <1>2 DEF Commits

\* A version of the ledger, as it is read back, is the payments row it stands for.
LEMMA LedgerVersion ==
  ASSUME LedgerInv, NEW n \in DOMAIN applied
  PROVE  /\ Ledger!Version(n) = applied[n].payment
         /\ LedgerVersions[n].event.PaymentID = applied[n].payment.PaymentID
<1>1. /\ applied[n].by \in DOMAIN webhookEvents
      /\ applied[n].payment = PaymentRow(paymentFromEvent(EventOf(applied[n].by)))
  BY DEF LedgerInv, ProvInv, TablesGood, GoodVersion
<1>2. LedgerVersions[n].event = EventOf(applied[n].by)
  BY DEF LedgerVersions
<1>3. Ledger!Version(n) = applied[n].payment
  BY <1>1, <1>2, SameRules DEF Ledger!Version, PaymentRow, Stored
<1>4. applied[n].payment.PaymentID = EventOf(applied[n].by).PaymentID
  BY <1>1, RowEvent, PaymentOfEvent
<1> QED
  BY <1>2, <1>3, <1>4

\* Upsert writes a version that may follow the one its processor read
\* (PaymentProcessor.Process, PaymentRepository.Upsert).
LEMMA UpsertWrites ==
  ASSUME LedgerInv, NEW s \in Statements, Commits(s), GoodStatement(s),
         s.op = "upsert_payment"
  PROVE  /\ Ledger!Write(EventOf(s.by), s.over)
         /\ EventOf(s.by) \in LedgerEvents /\ s.over \in 0 .. Len(LedgerVersions)
<1> DEFINE event == EventOf(s.by)
           v == [payment |-> PaymentRow(s.payment), by |-> s.by, over |-> s.over]
<1>1. /\ s.by \in DOMAIN webhookEvents /\ ~IsApplied(s.by)
      /\ Respects(event, s.over) /\ s.over \in Nat
      /\ webhookEvents' = webhookEvents /\ applied' = Append(applied, v)
  BY UpsertToken DEF GoodStatement, Statements, Commits, Commit, UpsertPayment
<1>2. applied \in Seq(Versions) /\ Len(applied) \in Nat /\ DOMAIN applied = 1 .. Len(applied)
  BY DEF LedgerInv, TypeInv, TypeOK, StoreTypeOK
<1>3. event \in LedgerEvents /\ LedgerEvents' = LedgerEvents
  BY <1>1 DEF LedgerEvents, EventOf
<1>4. \A m \in DOMAIN applied : EventOf(applied[m].by) # event
  <2> SUFFICES ASSUME NEW m \in DOMAIN applied, EventOf(applied[m].by) = event
               PROVE  FALSE
    OBVIOUS
  <2>1. applied[m].by \in DOMAIN webhookEvents /\ applied[m].by # s.by
    BY <1>1 DEF LedgerInv, OnceInv, Spent, IsApplied
  <2>2. webhookEvents[applied[m].by].ProviderEventID = webhookEvents[s.by].ProviderEventID
    BY <1>1, <2>1, RowEvent
  <2> QED
    BY <1>1, <2>1, <2>2 DEF LedgerInv, OnceInv, RowsUnique
<1>5. Len(LedgerVersions) = Len(applied) /\ DOMAIN LedgerVersions = DOMAIN applied
  BY <1>2 DEF LedgerVersions
<1>6. Ledger!MayFollow(event, s.over) /\ s.over \in 0 .. Len(applied)
  <2>1. CASE s.over = 0
    BY <1>2, <2>1 DEF Ledger!MayFollow
  <2>2. CASE s.over # 0
    <3>1. /\ s.over \in DOMAIN applied /\ applied[s.over].payment.PaymentID = event.PaymentID
          /\ Advances(event, applied[s.over].payment)
      BY <1>1, <2>2 DEF Respects, VersionsOf
    <3>2. s.over \in Ledger!VersionsOf(event.PaymentID)
      BY <1>5, <3>1, LedgerVersion DEF Ledger!VersionsOf
    <3> QED
      BY <1>2, <3>1, <3>2, LedgerVersion, SameRules DEF Ledger!MayFollow
  <2> QED
    BY <2>1, <2>2
<1>7. LedgerVersions' = Append(LedgerVersions, [event |-> event, follows |-> s.over])
  <2>1. /\ DOMAIN applied' = 1 .. Len(applied) + 1
        /\ \A n \in DOMAIN applied : applied'[n] = applied[n]
        /\ applied'[Len(applied) + 1] = v
    BY <1>1, <1>2
  <2>2. LedgerVersions' = [n \in 1 .. Len(applied) + 1 |->
          [event |-> EventOf(applied'[n].by), follows |-> applied'[n].over]]
    BY <1>1, <2>1 DEF LedgerVersions, EventOf
  <2>3. LedgerVersions = [n \in 1 .. Len(applied) |->
          [event |-> EventOf(applied[n].by), follows |-> applied[n].over]]
    BY <1>2 DEF LedgerVersions
  <2> DEFINE entry == [event |-> event, follows |-> s.over]
  <2>4. Append(LedgerVersions, entry) =
          [n \in 1 .. Len(applied) + 1 |-> IF n \in 1 .. Len(applied) THEN LedgerVersions[n] ELSE entry]
    BY <1>2, <1>5, <2>3
  <2> QED
    BY <1>2, <2>1, <2>2, <2>3, <2>4
<1> QED
  BY <1>3, <1>4, <1>5, <1>6, <1>7 DEF Ledger!Write, LedgerVersions

\* A statement that commits is well typed and says what its goroutine found,
\* whoever it is still waited for by.
LEMMA CommittedIsGood ==
  ASSUME LedgerInv, NEW s, Commits(s)
  PROVE  s \in Statements /\ GoodStatement(s)
<1>1. CASE s \in orphans
  BY <1>1 DEF LedgerInv, TypeInv, TypeOK, StoreTypeOK, ProvInv, TablesGood
<1>2. CASE \E h \in Handlers : s \in WritesOf(h)
  BY <1>2, WritesType, WritesGood DEF LedgerInv, ProvInv
<1> QED
  BY <1>1, <1>2 DEF Commits

\* Every step of the service is a step of the ledger or leaves it alone.
LEMMA StepImplements ==
  ASSUME LedgerInv, [Next]_vars
  PROVE  Ledger!Next \/ UNCHANGED <<LedgerEvents, LedgerVersions>>
<1>1. CASE UNCHANGED <<webhookEvents, applied>>
  BY <1>1 DEF LedgerEvents, LedgerVersions, EventOf
<1>2. CASE \E s : Commits(s)
  <2>1. PICK s : Commits(s)
    BY <1>2
  <2>2. s \in Statements /\ GoodStatement(s)
    BY <2>1, CommittedIsGood
  <2>3. CASE s.op = "insert_webhook_event"
    BY <2>1, <2>2, <2>3, InsertTakesIn DEF Ledger!Next
  <2>4. CASE s.op = "upsert_payment"
    BY <2>1, <2>2, <2>4, UpsertWrites DEF Ledger!Next
  <2>5. CASE s.op = "insert_anomaly"
    BY <2>1, <2>5 DEF Commits, Commit, InsertAnomaly, LedgerEvents, LedgerVersions, EventOf
  <2> QED
    BY <2>2, <2>3, <2>4, <2>5 DEF Statements
<1> QED
  BY <1>1, <1>2, StepCommits

\* Whatever the interleaving, the failures and the crashes, the tables change only
\* as the abstract ledger allows (IdempotencyService, PaymentProcessor).
THEOREM LedgerRefinement == Spec => ImplementsLedger
<1>1. Init => Ledger!Init
  BY DEF Init, StoreInit, Ledger!Init, LedgerEvents, LedgerVersions
<1>2. LedgerInv /\ [Next]_vars => [Ledger!Next]_(Ledger!ledgerVars)
  BY StepImplements DEF Ledger!ledgerVars
<1> QED
  BY <1>1, <1>2, LedgerAlways, PTL DEF Spec, ImplementsLedger, Ledger!Spec

-----------------------------------------------------------------------------
(* The anomalies table.  A report of an anomaly and an upsert spend the    *)
(* same token: what was reported is not written and is not on its way to   *)
(* being written, and the other way round.  ReportInv says so of the rows, *)
(* of the reports left behind by a failed call and of the goroutines.      *)

Reports(statements) == {s \in statements : s.op = "insert_anomaly"}

\* The anomaly is the one its event has with a version that existed.
Accurate(a) ==
  /\ a.WebhookEventID \in DOMAIN webhookEvents
  /\ a \in DetectAnomalies(a.Current, EventOf(a.WebhookEventID), a.WebhookEventID)
  /\ \E n \in DOMAIN applied : applied[n].payment = a.Current

Unwritten(id) == ~IsApplied(id) /\ \A s \in Upserts(orphans) : s.by # id

Unreported(id) ==
  /\ \A i \in DOMAIN anomalies : anomalies[i].WebhookEventID # id
  /\ \A s \in Reports(orphans) : s.anomaly.WebhookEventID # id

RowsAccurate ==
  \A i \in DOMAIN anomalies :
    /\ Accurate(anomalies[i])
    /\ Unwritten(anomalies[i].WebhookEventID)
    /\ \A s \in Reports(orphans) : s.anomaly.WebhookEventID # anomalies[i].WebhookEventID
    /\ \A j \in DOMAIN anomalies :
         anomalies[i].WebhookEventID = anomalies[j].WebhookEventID => i = j

PendingAccurate ==
  \A s \in Reports(orphans) :
    /\ Accurate(s.anomaly)
    /\ Unwritten(s.anomaly.WebhookEventID)
    /\ \A t \in Reports(orphans) :
         s.anomaly.WebhookEventID = t.anomaly.WebhookEventID => s = t

HeldUnreported ==
  \A h \in Handlers :
    /\ pc[h] \in Processing => Unreported(Held(h))
    /\ pc[h] = "record" => \E n \in DOMAIN applied : applied[n].payment = current[h]

ReportInv == RowsAccurate /\ PendingAccurate /\ HeldUnreported

\* A goroutine at "record" after the step compared its event with a version.
ReadsAVersion ==
  \A h \in Handlers : pc'[h] = "record" =>
    \/ pc[h] = "record" /\ current'[h] = current[h]
    \/ \E n \in DOMAIN applied : applied[n].payment = current'[h]

\* A step that writes no table, and may leave the writes of goroutines behind.
Quiet ==
  /\ UNCHANGED <<webhookEvents, anomalies, applied>>
  /\ NoNewHolder /\ ReadsAVersion
  /\ \A s \in orphans' :
       s \in orphans \/ \E h \in Handlers : pc'[h] \notin Processing /\ s \in WritesOf(h)

\* What an anomaly says stays true while the tables grow.
LEMMA StaysAccurate ==
  ASSUME DOMAIN webhookEvents \subseteq DOMAIN webhookEvents',
         \A id \in DOMAIN webhookEvents : webhookEvents'[id] = webhookEvents[id],
         DOMAIN applied \subseteq DOMAIN applied',
         \A n \in DOMAIN applied : applied'[n] = applied[n]
  PROVE  \A a : Accurate(a) => Accurate(a)'
<1> SUFFICES ASSUME NEW a, Accurate(a) PROVE Accurate(a)'
  OBVIOUS
<1>1. EventOf(a.WebhookEventID)' = EventOf(a.WebhookEventID)
  BY DEF Accurate, EventOf
<1>2. \E n \in DOMAIN applied' : applied'[n].payment = a.Current
  BY DEF Accurate
<1> QED
  BY <1>1, <1>2 DEF Accurate

\* The only anomaly a goroutine reports is its event's, with the row it read
\* (AnomalyRepository.Record, of the one anomaly DetectAnomalies finds).
LEMMA ReportOfHolder ==
  ASSUME LedgerInv, ReportInv, NEW h \in Handlers, NEW s \in Reports(WritesOf(h))
  PROVE  /\ pc[h] = "record" /\ s.anomaly.WebhookEventID = Held(h)
         /\ Accurate(s.anomaly)
         /\ \A t \in Reports(WritesOf(h)) : t = s
<1> DEFINE found == DetectAnomalies(current[h], update[h].Event, Held(h))
<1>1. pc[h] = "record"
  BY DEF Reports, WritesOf
<1>2. \A t \in Reports(WritesOf(h)) : \E a \in found : t = [op |-> "insert_anomaly", anomaly |-> a]
  BY <1>1 DEF Reports, WritesOf, Held
<1>3. \A a, b \in found : a = b
  BY DEF DetectAnomalies, DetectedTypes
<1>4. PICK a \in found : s = [op |-> "insert_anomaly", anomaly |-> a]
  BY <1>2
<1>5. s.anomaly = a
  BY <1>4
<1>6. a.WebhookEventID = Held(h) /\ a.Current = current[h]
  BY <1>4 DEF DetectAnomalies
<1>7. Held(h) \in DOMAIN webhookEvents /\ EventOf(Held(h)) = update[h].Event
  BY <1>1 DEF LedgerInv, ProvInv, Good, IsRowOf, Held, Processing
<1>8. Accurate(a)
  BY <1>1, <1>4, <1>6, <1>7 DEF Accurate, ReportInv, HeldUnreported
<1> QED
  BY <1>1, <1>2, <1>3, <1>4, <1>5, <1>6, <1>8

\* Nothing is reported in the initial state.
LEMMA InitReports == Init => ReportInv
BY DEF Init, StoreInit, ReportInv, RowsAccurate, PendingAccurate, HeldUnreported, Reports,
       Processing

\* The write a goroutine leaves behind is for the event it alone held.
LEMMA QuietReports ==
  ASSUME LedgerInv, ReportInv, Quiet
  PROVE  ReportInv'
<1>1. /\ \A id : IsApplied(id)' <=> IsApplied(id)
      /\ \A a : Accurate(a) => Accurate(a)'
  BY StaysAccurate DEF Quiet, IsApplied
<1>2. ASSUME NEW s \in Upserts(orphans)'
      PROVE  s \in Upserts(orphans)
               \/ \E g \in Handlers : pc[g] = "upsert" /\ pc'[g] \notin Processing /\ s.by = Held(g)
  BY UpsertOfHolder DEF Quiet, Upserts
<1>3. ASSUME NEW s \in Reports(orphans)'
      PROVE  s \in Reports(orphans)
               \/ \E g \in Handlers : pc'[g] \notin Processing /\ s \in Reports(WritesOf(g))
  BY DEF Quiet, Reports
<1>4. \A g \in Handlers : pc[g] \in Processing =>
        /\ Unreported(Held(g)) /\ Unwritten(Held(g))
        /\ \A h \in Handlers : pc[h] \in Processing /\ Held(h) = Held(g) => h = g
  BY DEF ReportInv, HeldUnreported, LedgerInv, OnceInv, HeldByGoroutine, Unwritten
<1>5. RowsAccurate'
  <2> SUFFICES ASSUME NEW i \in DOMAIN anomalies, NEW a, a = anomalies[i],
                      NEW id, id = a.WebhookEventID
               PROVE  /\ Accurate(a)'
                      /\ Unwritten(id)'
                      /\ \A s \in Reports(orphans)' : s.anomaly.WebhookEventID # id
                      /\ \A j \in DOMAIN anomalies : id = anomalies[j].WebhookEventID => i = j
    BY DEF RowsAccurate, Quiet, Accurate, Unwritten, IsApplied
  <2>1. \A g \in Handlers : pc[g] \in Processing => Held(g) # id
    BY <1>4 DEF Unreported
  <2>2. Unwritten(id)'
    BY <1>1, <1>2, <2>1 DEF Unwritten, ReportInv, RowsAccurate, Processing
  <2>3. \A s \in Reports(orphans)' : s.anomaly.WebhookEventID # id
    BY <1>3, <2>1, ReportOfHolder DEF ReportInv, RowsAccurate, Processing
  <2> QED
    BY <1>1, <2>2, <2>3 DEF ReportInv, RowsAccurate
<1>6. PendingAccurate'
  <2> SUFFICES ASSUME NEW s \in Reports(orphans)'
               PROVE  /\ Accurate(s.anomaly)'
                      /\ Unwritten(s.anomaly.WebhookEventID)'
                      /\ \A t \in Reports(orphans)' :
                           s.anomaly.WebhookEventID = t.anomaly.WebhookEventID => s = t
    BY DEF PendingAccurate, Reports
  <2> DEFINE id == s.anomaly.WebhookEventID
  <2>1. CASE s \in Reports(orphans)
    <3>1. \A g \in Handlers : pc[g] \in Processing => Held(g) # id
      BY <1>4, <2>1 DEF Unreported
    <3>2. Unwritten(id)'
      BY <1>1, <1>2, <2>1, <3>1 DEF Unwritten, ReportInv, PendingAccurate, Processing
    <3>3. \A t \in Reports(orphans)' : id = t.anomaly.WebhookEventID => s = t
      BY <1>3, <2>1, <3>1, ReportOfHolder DEF ReportInv, PendingAccurate, Processing
    <3> QED
      BY <1>1, <2>1, <3>2, <3>3 DEF ReportInv, PendingAccurate
  <2>2. CASE \E g \in Handlers : pc'[g] \notin Processing /\ s \in Reports(WritesOf(g))
    <3>1. PICK g \in Handlers : s \in Reports(WritesOf(g))
      BY <2>2
    <3>2. /\ pc[g] = "record" /\ id = Held(g) /\ Accurate(s.anomaly)
          /\ \A t \in Reports(WritesOf(g)) : t = s
      BY <3>1, ReportOfHolder
    <3>3. /\ Unreported(id) /\ Unwritten(id)
          /\ \A h \in Handlers : pc[h] \in Processing /\ Held(h) = id => h = g
      BY <1>4, <3>2 DEF Processing
    <3>4. Unwritten(id)'
      <4>1. \A t \in Upserts(orphans)' : t.by # id
        BY <1>2, <3>2, <3>3 DEF Unwritten, Processing
      <4> QED
        BY <1>1, <3>3, <4>1 DEF Unwritten
    <3>5. ASSUME NEW t \in Reports(orphans)', id = t.anomaly.WebhookEventID PROVE s = t
      <4>1. t \notin Reports(orphans)
        BY <3>3, <3>5 DEF Unreported
      <4>2. PICK h \in Handlers : t \in Reports(WritesOf(h))
        BY <1>3, <4>1
      <4>3. h = g
        BY <3>3, <3>5, <4>2, ReportOfHolder DEF Processing
      <4> QED
        BY <3>2, <4>2, <4>3
    <3> QED
      BY <1>1, <3>2, <3>4, <3>5
  <2> QED
    BY <1>3, <2>1, <2>2
<1>7. HeldUnreported'
  <2>1. ASSUME NEW h \in Handlers, pc'[h] \in Processing PROVE Unreported(Held(h))'
    <3>1. /\ pc[h] \in Processing /\ Held(h)' = Held(h) /\ Unreported(Held(h))
          /\ \A g \in Handlers : pc[g] \in Processing /\ Held(g) = Held(h) => g = h
      BY <1>4, <2>1 DEF Quiet, NoNewHolder
    <3>2. \A s \in Reports(orphans)' : s.anomaly.WebhookEventID # Held(h)
      BY <1>3, <2>1, <3>1, ReportOfHolder DEF Unreported, Processing
    <3> QED
      BY <3>1, <3>2 DEF Unreported, Quiet
  <2>2. ASSUME NEW h \in Handlers, pc'[h] = "record"
        PROVE  \E n \in DOMAIN applied' : applied'[n].payment = current'[h]
    BY <2>2 DEF Quiet, ReadsAVersion, ReportInv, HeldUnreported
  <2> QED
    BY <2>1, <2>2 DEF HeldUnreported
<1> QED
  BY <1>5, <1>6, <1>7 DEF ReportInv

\* The id of a new row is in no report.
LEMMA InsertReports ==
  ASSUME LedgerInv, ReportInv, UNCHANGED <<anomalies, applied>>, orphans' \subseteq orphans,
         NEW event \in PaymentEvents,
         webhookEvents' = Append(webhookEvents, WebhookEventRow(event)),
         \A h \in Handlers : pc'[h] \in Processing =>
           (pc[h] \in Processing /\ Held(h)' = Held(h)) \/ Held(h)' = Len(webhookEvents'),
         ReadsAVersion
  PROVE  ReportInv'
<1>1. PICK k : k = Len(webhookEvents')
  OBVIOUS
<1>2. /\ DOMAIN webhookEvents \subseteq DOMAIN webhookEvents' /\ k \notin DOMAIN webhookEvents
      /\ \A id \in DOMAIN webhookEvents : webhookEvents'[id] = webhookEvents[id]
  BY <1>1, RowTypes DEF LedgerInv, TypeInv, TypeOK, StoreTypeOK
<1>3. \A a : Accurate(a) => Accurate(a)' /\ a.WebhookEventID # k
  BY <1>2, StaysAccurate DEF Accurate
<1>4. /\ \A id : Unwritten(id) => Unwritten(id)'
      /\ \A id : Unreported(id) => Unreported(id)'
      /\ Reports(orphans)' \subseteq Reports(orphans)
  BY DEF Unwritten, Unreported, IsApplied, Upserts, Reports
<1>5. RowsAccurate'
  BY <1>3, <1>4 DEF ReportInv, RowsAccurate, Accurate, Unwritten
<1>6. PendingAccurate'
  BY <1>3, <1>4 DEF ReportInv, PendingAccurate
<1>7. Unreported(k)
  BY <1>3 DEF Unreported, ReportInv, RowsAccurate, PendingAccurate
<1>8. HeldUnreported'
  <2>1. ASSUME NEW h \in Handlers, pc'[h] \in Processing PROVE Unreported(Held(h))'
    <3>1. Unreported(Held(h)')
      BY <1>1, <1>7, <2>1 DEF ReportInv, HeldUnreported
    <3> QED
      BY <3>1 DEF Unreported, Reports
  <2> QED
    BY <2>1 DEF HeldUnreported, ReadsAVersion, ReportInv
<1> QED
  BY <1>5, <1>6, <1>8 DEF ReportInv

\* A version is written for an event that is in no report.
LEMMA UpsertReports ==
  ASSUME LedgerInv, ReportInv, UNCHANGED <<webhookEvents, anomalies>>,
         orphans' \subseteq orphans, NoNewHolder, ReadsAVersion,
         NEW v \in Versions, applied' = Append(applied, v), Unreported(v.by)
  PROVE  ReportInv'
<1>1. PICK k : k = Len(applied')
  OBVIOUS
<1>2. /\ DOMAIN applied' = DOMAIN applied \cup {k}
      /\ \A n \in DOMAIN applied : applied'[n] = applied[n]
      /\ applied'[k] = v
  BY <1>1 DEF LedgerInv, TypeInv, TypeOK, StoreTypeOK
<1>3. \A a : Accurate(a) => Accurate(a)'
  BY <1>2, StaysAccurate
<1>4. /\ \A id : Unwritten(id) /\ id # v.by => Unwritten(id)'
      /\ \A id : Unreported(id) => Unreported(id)'
      /\ Reports(orphans)' \subseteq Reports(orphans)
  BY <1>2 DEF Unwritten, Unreported, IsApplied, Upserts, Reports
<1>5. RowsAccurate'
  BY <1>3, <1>4 DEF ReportInv, RowsAccurate, Unreported, Accurate, Unwritten
<1>6. PendingAccurate'
  BY <1>3, <1>4 DEF ReportInv, PendingAccurate, Unreported
<1>7. HeldUnreported'
  <2>1. ASSUME NEW h \in Handlers, pc'[h] \in Processing PROVE Unreported(Held(h))'
    <3>1. Unreported(Held(h)')
      BY <2>1 DEF NoNewHolder, ReportInv, HeldUnreported
    <3> QED
      BY <3>1 DEF Unreported, Reports
  <2> QED
    BY <1>2, <2>1 DEF HeldUnreported, ReadsAVersion, ReportInv
<1> QED
  BY <1>5, <1>6, <1>7 DEF ReportInv

\* An anomaly is inserted for an event that is not written and in no other report.
LEMMA AnomalyReports ==
  ASSUME LedgerInv, ReportInv, UNCHANGED <<webhookEvents, applied>>,
         orphans' \subseteq orphans, NoNewHolder, ReadsAVersion,
         NEW a \in Anomalies, anomalies' = Append(anomalies, a), NEW id, id = a.WebhookEventID,
         Accurate(a), Unwritten(id),
         \A i \in DOMAIN anomalies : anomalies[i].WebhookEventID # id,
         \A s \in Reports(orphans)' : s.anomaly.WebhookEventID # id,
         \A h \in Handlers : pc'[h] \in Processing => Held(h) # id
  PROVE  ReportInv'
<1>1. PICK k : k = Len(anomalies')
  OBVIOUS
<1>2. /\ DOMAIN anomalies' = DOMAIN anomalies \cup {k} /\ k \notin DOMAIN anomalies
      /\ \A i \in DOMAIN anomalies : anomalies'[i] = anomalies[i]
      /\ anomalies'[k] = a
  BY <1>1 DEF LedgerInv, TypeInv, TypeOK, StoreTypeOK
<1>3. /\ \A b : Accurate(b) => Accurate(b)'
      /\ \A i : Unwritten(i) => Unwritten(i)'
      /\ Reports(orphans)' \subseteq Reports(orphans)
  BY StaysAccurate DEF Unwritten, IsApplied, Upserts, Reports
<1>4. RowsAccurate'
  <2> SUFFICES ASSUME NEW i \in DOMAIN anomalies', NEW b, b = anomalies'[i]
               PROVE  /\ Accurate(b)' /\ Unwritten(b.WebhookEventID)'
                      /\ \A s \in Reports(orphans)' : s.anomaly.WebhookEventID # b.WebhookEventID
                      /\ \A j \in DOMAIN anomalies' :
                           b.WebhookEventID = anomalies'[j].WebhookEventID => i = j
    BY DEF RowsAccurate, Accurate, Unwritten, IsApplied
  <2>1. CASE i = k
    BY <1>2, <1>3, <2>1
  <2>2. CASE i \in DOMAIN anomalies
    BY <1>2, <1>3, <2>2 DEF ReportInv, RowsAccurate
  <2> QED
    BY <1>2, <2>1, <2>2
<1>5. PendingAccurate'
  BY <1>3 DEF ReportInv, PendingAccurate
<1>6. HeldUnreported'
  <2>1. ASSUME NEW h \in Handlers, pc'[h] \in Processing PROVE Unreported(Held(h))'
    <3>1. Unreported(Held(h)) /\ Held(h)' = Held(h) /\ Held(h) # id
      BY <2>1 DEF NoNewHolder, ReportInv, HeldUnreported
    <3> QED
      BY <1>2, <1>3, <3>1 DEF Unreported
  <2> QED
    BY <2>1 DEF HeldUnreported, ReadsAVersion, ReportInv
<1> QED
  BY <1>4, <1>5, <1>6 DEF ReportInv

-----------------------------------------------------------------------------

\* Record and Upsert spend the token of the event their goroutine held.
LEMMA WriteKeepsReports ==
  ASSUME LedgerInv, ReportInv, NEW h \in Handlers, RecordAnomaly(h) \/ UpsertState(h)
  PROVE  ReportInv'
<1>1. PICK s \in WritesOf(h) : Commit(s)
  BY DEF RecordAnomaly, UpsertState
<1>2. pc \in [Handlers -> Locations] /\ s \in Statements
  BY WritesType DEF LedgerInv, TypeInv, TypeOK
<1>3. /\ pc[h] \in Processing /\ pc'[h] \notin Processing
      /\ NoNewHolder /\ ReadsAVersion /\ UNCHANGED orphans
  BY <1>2 DEF RecordAnomaly, AfterRecord, Ignore, UpsertState, Goto, NoNewHolder, ReadsAVersion,
         Processing, Held
<1>4. Unreported(Held(h))
  BY <1>3 DEF ReportInv, HeldUnreported
<1>5. CASE UpsertState(h)
  <2>1. s.op = "upsert_payment" /\ s.by = Held(h)
    BY <1>1, <1>5 DEF UpsertState, WritesOf, Held
  <2>2. PICK v : v = [payment |-> PaymentRow(s.payment), by |-> s.by, over |-> s.over]
    OBVIOUS
  <2>3. v \in Versions /\ v.by = s.by
    BY <1>2, <2>1, <2>2, RowTypes DEF Statements, Versions
  <2>4. applied' = Append(applied, v) /\ UNCHANGED <<webhookEvents, anomalies>>
    BY <1>1, <2>1, <2>2 DEF Commit, UpsertPayment
  <2> QED
    BY <1>3, <1>4, <2>1, <2>3, <2>4, UpsertReports
<1>6. CASE RecordAnomaly(h)
  <2>1. s \in Reports(WritesOf(h)) /\ s.op = "insert_anomaly"
    BY <1>1, <1>6 DEF RecordAnomaly, WritesOf, Reports
  <2>2. s.anomaly.WebhookEventID = Held(h) /\ Accurate(s.anomaly)
    BY <2>1, ReportOfHolder
  <2>3. s.anomaly \in Anomalies
    BY <1>2, <2>1 DEF Statements
  <2>4. /\ anomalies' = Append(anomalies, s.anomaly)
        /\ UNCHANGED <<webhookEvents, applied>>
    BY <1>1, <2>1 DEF Commit, InsertAnomaly
  <2>5. /\ Unwritten(Held(h))
        /\ \A g \in Handlers : pc'[g] \in Processing => Held(g) # Held(h)
    BY <1>3 DEF LedgerInv, OnceInv, HeldByGoroutine, Unwritten, NoNewHolder
  <2>6. PICK id : id = Held(h)
    OBVIOUS
  <2>7. \A t \in Reports(orphans)' : t.anomaly.WebhookEventID # id
    BY <1>3, <1>4, <2>6 DEF Unreported, Reports
  <2> QED
    BY <1>3, <1>4, <2>2, <2>3, <2>4, <2>5, <2>6, <2>7, AnomalyReports DEF Unreported
<1> QED
  BY <1>5, <1>6

\* A statement that commits late spends the token it was left with.
LEMMA LateKeepsReports ==
  ASSUME LedgerInv, ReportInv, Late
  PROVE  ReportInv'
<1>1. PICK s \in orphans : OrphanCommits(s) \/ OrphanDropped(s)
  BY DEF Late
<1>2. s \in Statements /\ orphans' = orphans \ {s} /\ UNCHANGED <<pc, update, current>>
  BY <1>1 DEF Late, localVars, OrphanCommits, OrphanDropped, LedgerInv, TypeInv, TypeOK, StoreTypeOK
<1>3. NoNewHolder /\ ReadsAVersion
  BY <1>2 DEF NoNewHolder, ReadsAVersion, Held
<1>4. CASE OrphanDropped(s)
  BY <1>2, <1>3, <1>4, QuietReports DEF OrphanDropped, Quiet
<1>5. CASE Commit(s) /\ s.op = "insert_webhook_event"
  <2>1. /\ s.event \in PaymentEvents
        /\ webhookEvents' = Append(webhookEvents, WebhookEventRow(s.event))
        /\ UNCHANGED <<anomalies, applied>>
    BY <1>2, <1>5 DEF Statements, Commit, InsertWebhookEvent
  <2> QED
    BY <1>2, <1>3, <2>1, InsertReports DEF NoNewHolder
<1>6. CASE Commit(s) /\ s.op = "upsert_payment"
  <2>1. PICK v : v = [payment |-> PaymentRow(s.payment), by |-> s.by, over |-> s.over]
    OBVIOUS
  <2>2. v \in Versions /\ v.by = s.by
    BY <1>2, <1>6, <2>1, RowTypes DEF Statements, Versions
  <2>3. applied' = Append(applied, v) /\ UNCHANGED <<webhookEvents, anomalies>>
    BY <1>6, <2>1 DEF Commit, UpsertPayment
  <2>4. s \in Upserts(orphans)
    BY <1>6 DEF Upserts
  <2>5. Unreported(s.by)
    BY <2>4 DEF ReportInv, RowsAccurate, PendingAccurate, Unwritten, Unreported
  <2> QED
    BY <1>2, <1>3, <2>2, <2>3, <2>5, UpsertReports
<1>7. CASE Commit(s) /\ s.op = "insert_anomaly"
  <2>1. s.anomaly \in Anomalies
    BY <1>2, <1>7 DEF Statements
  <2>2. anomalies' = Append(anomalies, s.anomaly) /\ UNCHANGED <<webhookEvents, applied>>
    BY <1>7 DEF Commit, InsertAnomaly
  <2>3. s \in Reports(orphans)
    BY <1>7 DEF Reports
  <2>4. PICK id : id = s.anomaly.WebhookEventID
    OBVIOUS
  <2>5. /\ Accurate(s.anomaly) /\ Unwritten(id)
        /\ \A t \in Reports(orphans)' : t.anomaly.WebhookEventID # id
    BY <1>2, <2>3, <2>4 DEF ReportInv, PendingAccurate, Reports
  <2>6. \A i \in DOMAIN anomalies : anomalies[i].WebhookEventID # id
    BY <2>3, <2>4 DEF ReportInv, RowsAccurate
  <2>7. \A h \in Handlers : pc'[h] \in Processing => Held(h) # id
    BY <1>2, <2>3, <2>4 DEF ReportInv, HeldUnreported, Unreported
  <2> QED
    BY <1>2, <1>3, <2>1, <2>2, <2>4, <2>5, <2>6, <2>7, AnomalyReports
<1> QED
  BY <1>1, <1>2, <1>4, <1>5, <1>6, <1>7 DEF OrphanCommits, Statements

\* Insert gives its goroutine an id that is in no report.
LEMMA InsertKeepsReports ==
  ASSUME LedgerInv, ReportInv, NEW h \in Handlers, InsertEvent(h)
  PROVE  ReportInv'
<1>1. PICK s \in WritesOf(h) : Commit(s)
  BY DEF InsertEvent
<1>2. /\ pc \in [Handlers -> Locations] /\ update \in [Handlers -> Updates]
      /\ update[h].Event \in PaymentEvents
  BY DEF InsertEvent, LedgerInv, TypeInv, TypeOK, LocalsOK
<1>3. s.op = "insert_webhook_event" /\ s.event = update[h].Event
  BY <1>1 DEF InsertEvent, WritesOf
<1>4. /\ webhookEvents' = Append(webhookEvents, WebhookEventRow(update[h].Event))
      /\ UNCHANGED <<anomalies, applied>>
  BY <1>1, <1>3 DEF Commit, InsertWebhookEvent
<1>5. \A g \in Handlers : pc'[g] \in Processing =>
        (pc[g] \in Processing /\ Held(g)' = Held(g)) \/ Held(g)' = Len(webhookEvents')
  BY <1>2 DEF InsertEvent, Goto, Held, ReturnedId, Updates
<1>6. ReadsAVersion /\ UNCHANGED orphans
  BY <1>2 DEF InsertEvent, Goto, ReadsAVersion
<1> QED
  BY <1>2, <1>4, <1>5, <1>6, InsertReports

\* A goroutine is at "record" only with the row it has just read.
LEMMA ReadIsQuiet ==
  ASSUME LedgerInv, NEW h \in Handlers, GetPayment(h)
  PROVE  Quiet
<1>1. /\ ReadPayment(h) /\ \E location \in Locations : Goto(h, location)
      /\ pc'[h] = "record" => current'[h] # NoPayment
  BY DEF GetPayment, GetPaymentToCreate, GetPaymentToUpdate, GetPaymentWithAnomaly,
         GetPaymentEqual, Ignore, Goto, Locations, LedgerInv, TypeInv, TypeOK
<1>2. /\ pc \in [Handlers -> Locations] /\ current \in [Handlers -> Payments \cup {NoPayment}]
      /\ update[h].Event.PaymentID \in Identifiers
  BY <1>1 DEF ReadPayment, LedgerInv, TypeInv, TypeOK, LocalsOK, PaymentEvents
<1>3. NoNewHolder
  BY <1>1, <1>2 DEF ReadPayment, Goto, NoNewHolder, Processing, Held
<1>4. current'[h] = NoPayment \/ \E n \in DOMAIN applied : applied[n].payment = current'[h]
  BY <1>1, <1>2, ReadsLatest DEF ReadPayment, VersionsOf, LedgerInv, ProvInv
<1>5. ReadsAVersion
  BY <1>1, <1>2, <1>4 DEF ReadPayment, Goto, ReadsAVersion
<1> QED
  BY <1>1, <1>3, <1>5 DEF Quiet, ReadPayment, storeVars

\* The remaining steps write no table and let nobody past the idempotency check.
LEMMA OthersAreQuiet ==
  ASSUME LedgerInv,
         \/ \E h \in Handlers, r \in Requests : Receive(h, r)
         \/ \E h \in Handlers : Reject(h) \/ Accept(h) \/ RespondOK(h) \/ RespondError(h)
         \/ \E h \in Handlers : InsertDuplicate(h) \/ InsertRejected(h) \/ UpsertRejected(h)
         \/ \E h \in Handlers : CallFails(h) \/ RecordFails(h)
         \/ (\E h \in Handlers : Disconnect(h)) \/ Crash \/ UNCHANGED vars
  PROVE  Quiet
<1> USE DEF Quiet, NoNewHolder, ReadsAVersion, Processing, Held, storeVars, worldVars
<1>0. pc \in [Handlers -> Locations] /\ update \in [Handlers -> Updates]
  BY DEF LedgerInv, TypeInv, TypeOK
<1>1. CASE \E h \in Handlers, r \in Requests : Receive(h, r)
  BY <1>0, <1>1 DEF Receive, Goto
<1>2. CASE \E h \in Handlers : Reject(h) \/ RespondOK(h) \/ RespondError(h)
  <2>1. PICK h \in Handlers : Finish(h) /\ UNCHANGED storeVars
    BY <1>2 DEF Reject, RejectMethod, RejectBody, RejectSignature, RejectPayload, RejectWith,
                RespondOK, RespondError
  <2>2. \A g \in Handlers : pc'[g] \in Processing =>
          pc'[g] = pc[g] /\ update'[g] = update[g] /\ current'[g] = current[g]
    BY <1>0, <2>1 DEF Finish, Goto
  <2> QED
    BY <2>1, <2>2
<1>3. CASE \E h \in Handlers : Accept(h) \/ InsertDuplicate(h) \/ InsertRejected(h) \/ UpsertRejected(h)
  BY <1>0, <1>3 DEF Accept, InsertDuplicate, AnswerDuplicate, InsertRejected, UpsertRejected,
                    AfterError, Goto
<1>4. CASE \E h \in Handlers : CallFails(h) \/ RecordFails(h)
  <2>1. PICK h \in Handlers : CallFails(h) \/ RecordFails(h)
    BY <1>4
  <2>2. /\ Abandon(WritesOf(h)) /\ UNCHANGED <<update, current>>
        /\ Goto(h, "internal_error") \/ Goto(h, "processed")
    BY <2>1 DEF CallFails, AfterError, RecordFails, AfterRecord, Ignore
  <2> QED
    BY <1>0, <2>2 DEF Abandon, Goto
<1>5. CASE \E h \in Handlers : Disconnect(h)
  BY <1>5 DEF Disconnect
<1>6. CASE Crash
  BY <1>6 DEF Crash, Abandon
<1>7. CASE UNCHANGED vars
  BY <1>7 DEF vars, localVars
<1> QED
  BY <1>1, <1>2, <1>3, <1>4, <1>5, <1>6, <1>7

\* ReportInv is inductive, given LedgerInv.
LEMMA NextReports == LedgerInv /\ ReportInv /\ [Next]_vars => ReportInv'
<1> SUFFICES ASSUME LedgerInv, ReportInv, [Next]_vars PROVE ReportInv'
  OBVIOUS
<1>1. CASE \E h \in Handlers : InsertEvent(h)
  BY <1>1, InsertKeepsReports
<1>2. CASE \E h \in Handlers : RecordAnomaly(h) \/ UpsertState(h)
  BY <1>2, WriteKeepsReports
<1>3. CASE Late
  BY <1>3, LateKeepsReports
<1>4. CASE \E h \in Handlers : GetPayment(h)
  BY <1>4, ReadIsQuiet, QuietReports
<1>5. CASE \/ \E h \in Handlers, r \in Requests : Receive(h, r)
           \/ \E h \in Handlers : Reject(h) \/ Accept(h) \/ RespondOK(h) \/ RespondError(h)
           \/ \E h \in Handlers : InsertDuplicate(h) \/ InsertRejected(h) \/ UpsertRejected(h)
           \/ \E h \in Handlers : CallFails(h) \/ RecordFails(h)
           \/ (\E h \in Handlers : Disconnect(h)) \/ Crash \/ UNCHANGED vars
  BY <1>5, OthersAreQuiet, QuietReports
<1> QED
  BY <1>1, <1>2, <1>3, <1>4, <1>5 DEF Next, Advance, BodyEnds, CallReturns, Respond

\* An anomaly is recorded once, with a version it really conflicts with, and
\* never for an event that was or will be written, also when the insert of the
\* anomaly or the write came late (PaymentProcessor.Process, AnomalyRepository.Record).
THEOREM AnomaliesAreAccurate == Spec => []AnomaliesAccurate
<1>1. ReportInv => AnomaliesAccurate
  BY DEF ReportInv, RowsAccurate, Accurate, Unwritten, AnomaliesAccurate
<1> QED
  BY <1>1, InitReports, NextReports, LedgerAlways, PTL DEF Spec

-----------------------------------------------------------------------------
(* What becomes of a stored event: it is written, ignored or in process,   *)
(* and only a failure makes the service forget it.                         *)

\* No step changes or removes a row or a version.
LEMMA StepGrows ==
  ASSUME LedgerInv, [Next]_vars
  PROVE  Grows
<1>1. \A r \in Requests : deliveries[r] > 0 => deliveries'[r] > 0
  <2> USE DEF worldVars
  <2>1. deliveries \in [Requests -> Nat]
    BY DEF LedgerInv, TypeInv, TypeOK
  <2>2. CASE \E h \in Handlers, r \in Requests : Receive(h, r)
    <3>1. PICK r \in Requests : deliveries' = [deliveries EXCEPT ![r] = @ + 1]
      BY <2>2 DEF Receive
    <3> QED
      BY <2>1, <3>1
  <2>3. CASE UNCHANGED deliveries
    BY <2>3
  <2>4. \/ \E h \in Handlers, r \in Requests : Receive(h, r)
        \/ UNCHANGED deliveries
    BY DEF Next, Advance, BodyEnds, CallReturns, Respond, Reject, RejectMethod, RejectBody,
           RejectSignature, RejectPayload,
       RejectWith, Accept, InsertEvent, InsertDuplicate, InsertRejected, UpsertRejected,
       AfterError, GetPayment,
       GetPaymentToCreate, GetPaymentToUpdate, GetPaymentWithAnomaly, GetPaymentEqual, ReadPayment,
       RecordAnomaly, AfterRecord, UpsertState, CallFails, RecordFails, RespondOK, RespondError,
       Disconnect, Crash, Late, vars
  <2> QED
    BY <2>2, <2>3, <2>4
<1>2. CASE UNCHANGED <<webhookEvents, payments, applied>>
  BY <1>1, <1>2 DEF Grows
<1>3. CASE \E s : Commits(s)
  <2>1. PICK s : Commits(s)
    BY <1>3
  <2>2. s \in Statements
    BY <2>1, WritesType DEF Commits, LedgerInv, TypeInv, TypeOK, StoreTypeOK
  <2>3. CASE s.op = "insert_webhook_event"
    <3>1. /\ webhookEvents' = Append(webhookEvents, WebhookEventRow(s.event))
          /\ UNCHANGED <<payments, applied>> /\ WebhookEventRow(s.event) \in PaymentEvents
      BY <2>1, <2>2, <2>3, RowTypes DEF Commits, Commit, InsertWebhookEvent, Statements
    <3> QED
      BY <1>1, <3>1 DEF Grows, LedgerInv, TypeInv, TypeOK, StoreTypeOK
  <2>4. CASE s.op = "upsert_payment"
    <3>1. PICK v : v = [payment |-> PaymentRow(s.payment), by |-> s.by, over |-> s.over]
      OBVIOUS
    <3>2. v \in Versions
      BY <2>2, <2>4, <3>1, RowTypes DEF Statements, Versions
    <3>3. /\ applied' = Append(applied, v) /\ UNCHANGED webhookEvents
          /\ DOMAIN payments \subseteq DOMAIN payments'
      BY <2>1, <2>4, <3>1 DEF Commits, Commit, UpsertPayment
    <3> QED
      BY <1>1, <3>2, <3>3 DEF Grows, LedgerInv, TypeInv, TypeOK, StoreTypeOK
  <2>5. CASE s.op = "insert_anomaly"
    BY <1>1, <2>1, <2>5 DEF Commits, Commit, InsertAnomaly, Grows
  <2> QED
    BY <2>2, <2>3, <2>4, <2>5 DEF Statements
<1> QED
  BY <1>2, <1>3, StepCommits

\* A goroutine past the idempotency check goes on with its event or is done with
\* it, unless a call fails or payments refuses the payment's id.
LEMMA HolderStep ==
  ASSUME LedgerInv, [Next]_vars, ~Crash, NEW h \in Handlers, pc[h] \in Processing
  PROVE  /\ Held(h)' = Held(h)
         /\ \/ pc'[h] \in Processing \cup {"processed"}
            \/ (CallFails(h) \/ UpsertRejected(h)) /\ pc'[h] = "internal_error"
<1> USE DEF Processing, Held, storeVars, worldVars
<1>0. pc \in [Handlers -> Locations] /\ update \in [Handlers -> Updates]
  BY DEF LedgerInv, TypeInv, TypeOK
<1>1. CASE \E g \in Handlers : GetPayment(g)
  <2>1. PICK g \in Handlers : GetPayment(g)
    BY <1>1
  <2>2. update' = update /\ \E location \in {"upsert", "record", "processed"} : Goto(g, location)
    BY <2>1 DEF GetPayment, GetPaymentToCreate, GetPaymentToUpdate, GetPaymentWithAnomaly,
                GetPaymentEqual, Ignore, ReadPayment
  <2> QED
    BY <1>0, <2>2 DEF Goto
<1>2. CASE \E g \in Handlers : RecordAnomaly(g) \/ UpsertState(g) \/ RecordFails(g)
  <2>1. PICK g \in Handlers : update' = update /\ Goto(g, "processed")
    BY <1>2 DEF RecordAnomaly, RecordFails, AfterRecord, Ignore, UpsertState
  <2> QED
    BY <1>0, <2>1 DEF Goto
<1>3. CASE \E g \in Handlers : CallFails(g) \/ UpsertRejected(g)
  <2>1. PICK g \in Handlers : CallFails(g) \/ UpsertRejected(g)
    BY <1>3
  <2>2. update' = update /\ Goto(g, "internal_error")
    BY <2>1 DEF CallFails, UpsertRejected, AfterError
  <2> QED
    BY <1>0, <2>1, <2>2 DEF Goto
<1>4. CASE \E g \in Handlers, r \in Requests : Receive(g, r)
  BY <1>0, <1>4 DEF Receive, Goto
<1>5. CASE \E g \in Handlers : Reject(g) \/ RespondOK(g) \/ RespondError(g)
  <2>1. PICK g \in Handlers : Finish(g) /\ pc[g] \notin Processing
    BY <1>5 DEF Reject, RejectMethod, RejectBody, RejectSignature, RejectPayload, RejectWith,
                RespondOK, IsServed, ServedStatuses, RespondError
  <2> QED
    BY <1>0, <2>1 DEF Finish, Goto
<1>6. CASE \E g \in Handlers : Accept(g) \/ InsertEvent(g) \/ InsertDuplicate(g) \/ InsertRejected(g)
  BY <1>0, <1>6 DEF Accept, InsertEvent, InsertDuplicate, AnswerDuplicate, InsertRejected, Goto
<1>7. CASE (\E g \in Handlers : Disconnect(g)) \/ Late \/ UNCHANGED vars
  BY <1>7 DEF Disconnect, Late, vars, localVars
<1> QED
  BY <1>1, <1>2, <1>3, <1>4, <1>5, <1>6, <1>7 DEF Next, Advance, BodyEnds, CallReturns, Respond

\* The row of a committed insert is the last one.
LEMMA InsertedRow ==
  ASSUME LedgerInv, NEW s, Commits(s), s.op = "insert_webhook_event",
         NEW id \in DOMAIN webhookEvents', id \notin DOMAIN webhookEvents
  PROVE  /\ id = Len(webhookEvents')
         /\ webhookEvents'[id].ProviderEventID = s.event.ProviderEventID
<1>1. webhookEvents \in Seq(PaymentEvents) /\ s \in Statements
  BY WritesType DEF Commits, LedgerInv, TypeInv, TypeOK, StoreTypeOK
<1>2. WebhookEventRow(s.event) \in PaymentEvents
  BY <1>1, RowTypes DEF Statements
<1>3. webhookEvents' = Append(webhookEvents, WebhookEventRow(s.event))
  BY DEF Commits, Commit, InsertWebhookEvent
<1>4. id = Len(webhookEvents') /\ webhookEvents'[id] = WebhookEventRow(s.event)
  BY <1>1, <1>2, <1>3
<1> QED
  BY <1>4 DEF WebhookEventRow

\* A new row belongs to the goroutine that it was stored for, or comes late.
LEMMA NewRowIsHeld ==
  ASSUME LedgerInv, [Next]_vars,
         NEW id \in DOMAIN webhookEvents', id \notin DOMAIN webhookEvents
  PROVE  (\E h \in Handlers : pc'[h] \in Processing /\ Held(h)' = id) \/ EndsLate(id)
<1> USE DEF storeVars, worldVars
<1>0. pc \in [Handlers -> Locations] /\ update \in [Handlers -> Updates]
  BY DEF LedgerInv, TypeInv, TypeOK
<1>1. CASE \E h \in Handlers : InsertEvent(h)
  <2>1. PICK h \in Handlers : InsertEvent(h)
    BY <1>1
  <2>2. PICK s \in WritesOf(h) : Commit(s)
    BY <2>1 DEF InsertEvent
  <2>3. Commits(s) /\ s.op = "insert_webhook_event"
    BY <2>1, <2>2 DEF InsertEvent, WritesOf, Commits
  <2>4. id = Len(webhookEvents')
    BY <2>3, InsertedRow
  <2>5. pc'[h] = "get" /\ Held(h)' = Len(webhookEvents')
    BY <1>0, <2>1 DEF InsertEvent, Goto, ReturnedId, Updates, Held
  <2> QED
    BY <2>4, <2>5 DEF Processing
<1>2. CASE Late
  <2>1. PICK s \in orphans : OrphanCommits(s)
    BY <1>2 DEF Late, OrphanDropped
  <2>2. Commits(s) /\ s \in orphans \ orphans'
    BY <2>1 DEF OrphanCommits, Commits
  <2>3. s.op = "insert_webhook_event"
    <3>1. s \in Statements
      BY <2>1 DEF LedgerInv, TypeInv, TypeOK, StoreTypeOK
    <3> QED
      BY <2>2, <3>1 DEF Commits, Commit, UpsertPayment, InsertAnomaly, Statements
  <2> QED
    BY <2>2, <2>3, InsertedRow DEF EndsLate
<1>3. CASE \E h \in Handlers : RecordAnomaly(h) \/ UpsertState(h)
  <2>1. PICK h \in Handlers : RecordAnomaly(h) \/ UpsertState(h)
    BY <1>3
  <2>2. PICK s \in WritesOf(h) : Commit(s)
    BY <2>1 DEF RecordAnomaly, UpsertState
  <2>3. s.op \in {"insert_anomaly", "upsert_payment"}
    BY <2>1, <2>2 DEF RecordAnomaly, UpsertState, WritesOf
  <2>4. UNCHANGED webhookEvents
    BY <2>2, <2>3 DEF Commit, UpsertPayment, InsertAnomaly
  <2> QED
    BY <2>4
<1>4. UNCHANGED webhookEvents \/ Late \/ \E h \in Handlers : InsertEvent(h) \/ RecordAnomaly(h) \/ UpsertState(h)
  BY DEF Next, Advance, BodyEnds, CallReturns, Respond, Receive, Reject, RejectMethod,
         RejectBody, RejectSignature, RejectPayload,
     RejectWith, Accept, InsertDuplicate, InsertRejected, UpsertRejected, AfterError, GetPayment,
     GetPaymentToCreate, GetPaymentToUpdate, GetPaymentWithAnomaly, GetPaymentEqual, ReadPayment,
     CallFails, RecordFails, Abandon, RespondOK, RespondError, Disconnect, Crash, vars
<1> QED
  BY <1>1, <1>2, <1>3, <1>4

\* A goroutine that is done with an event has settled it (ProvInv), an upsert that
\* is still under way carries it, and what is settled stays settled.
LEMMA NextKeeps ==
  ASSUME LedgerInv, LedgerInv', [Next]_vars
  PROVE  KeepsEvents
<1> SUFFICES ASSUME NEW id \in DOMAIN webhookEvents', id \in DOMAIN webhookEvents => IsKept(id),
                    ~Crash, ~EndsLate(id)
             PROVE  IsKept(id)' \/ FailsWith(id)
  BY DEF KeepsEvents
<1>1. (\E h \in Handlers : pc'[h] \in Processing /\ Held(h)' = id) => IsKept(id)'
  BY DEF IsKept, InProcess, Held
<1>2. CASE id \notin DOMAIN webhookEvents
  BY <1>1, <1>2, NewRowIsHeld
<1>3. CASE id \in DOMAIN webhookEvents /\ IsSettled(id)
  BY <1>3, StepGrows, StaysKnown DEF IsSettled, IsKept
<1>4. ASSUME NEW h \in Handlers, pc[h] \in Processing, Held(h) = id
      PROVE  IsKept(id)' \/ FailsWith(id)
  <2>1. Held(h)' = id
    BY <1>4, HolderStep
  <2>2. CASE pc'[h] \in Processing
    BY <1>1, <2>1, <2>2
  <2>3. CASE pc'[h] = "processed"
    <3>1. IsSettled(update[h].WebhookEventID)' /\ update'[h].WebhookEventID = id
      BY <2>1, <2>3 DEF LedgerInv, ProvInv, Good, Held
    <3> QED
      BY <3>1 DEF IsKept, IsSettled, IsApplied, IsSuperseded, EventOf, VersionsOf
  <2>4. CASE pc'[h] = "internal_error"
    BY <1>4, <2>4 DEF FailsWith, Held
  <2> QED
    BY <1>4, <2>2, <2>3, <2>4, HolderStep
<1>5. ASSUME NEW s \in orphans, s.op = "upsert_payment", s.by = id PROVE IsKept(id)'
  BY <1>5 DEF EndsLate, IsKept, InProcess
<1> QED
  BY <1>2, <1>3, <1>4, <1>5 DEF IsKept, IsSettled, InProcess, Held

\* An event that is stored is forgotten only with an error for its provider, with
\* the process, or with a statement that outlived its caller
\* (IdempotencyService.Process, PaymentProcessor.Process).
THEOREM OnlyFailures == Spec => OnlyFailuresForget
<1>1. LedgerInv /\ LedgerInv' /\ [Next]_vars => [KeepsEvents]_vars
  BY NextKeeps
<1> QED
  BY <1>1, LedgerAlways, PTL DEF Spec, OnlyFailuresForget

\* Until a first fault there is no such failure, except for an event whose payment
\* cannot have a row.
LEMMA NextLosesNothing ==
  ASSUME LedgerInv, LedgerInv', NothingAstray, StoredIsNotLost, [Next]_vars
  PROVE  StoredIsNotLost'
<1> SUFFICES ASSUME faults' = 0, NEW id \in DOMAIN webhookEvents'
             PROVE  IsKept(id)' \/ ~IsPayable(EventOf(id)'.PaymentID)
  BY DEF StoredIsNotLost
<1>1. faults \in Nat
  BY DEF LedgerInv, TypeInv, TypeOK
<1>2. faults = 0 /\ orphans = {} /\ \A h \in Handlers : ~gone[h]
  BY <1>1, FaultsAreCounted DEF NothingAstray, LedgerInv
<1>3. ~Crash
  BY <1>1, <1>2 DEF Crash
<1>4. ~EndsLate(id)
  BY <1>2 DEF EndsLate
<1>5. id \in DOMAIN webhookEvents => EventOf(id)' = EventOf(id)
  BY StepGrows DEF Grows, EventOf
<1>6. CASE id \in DOMAIN webhookEvents /\ ~IsKept(id)
  BY <1>2, <1>5, <1>6 DEF StoredIsNotLost
<1>7. CASE (id \in DOMAIN webhookEvents => IsKept(id)) /\ ~FailsWith(id)
  BY <1>3, <1>4, <1>7, NextKeeps DEF KeepsEvents
<1>8. CASE FailsWith(id)
  <2>1. PICK h \in Handlers :
          pc[h] \in Processing /\ update[h].WebhookEventID = id /\ pc'[h] = "internal_error"
    BY <1>8 DEF FailsWith
  <2>2. ~CallFails(h)
    BY <1>1, <1>2 DEF CallFails, MayFail
  <2>3. UpsertRejected(h)
    BY <1>3, <2>1, <2>2, HolderStep DEF Processing
  <2>4. IsRowOf(id, update[h].Event)
    BY <2>1 DEF LedgerInv, ProvInv, Good
  <2> QED
    BY <1>5, <2>3, <2>4 DEF UpsertRejected, IsRowOf
<1> QED
  BY <1>6, <1>7, <1>8

\* Until a first fault every stored event is written, being processed or one that
\* may not follow some version of its payment, unless that payment cannot have a
\* row, for any number of goroutines (IdempotencyService.Process hands the event it
\* stored to the processor).
THEOREM NothingIsLost == Spec => []StoredIsNotLost
<1>1. Init => StoredIsNotLost
  BY DEF Init, StoreInit, StoredIsNotLost
<1>2. LedgerInv /\ LedgerInv' /\ NothingAstray /\ StoredIsNotLost /\ [Next]_vars
        => StoredIsNotLost'
  BY NextLosesNothing
<1>3. LedgerInv /\ NothingAstray /\ [Next]_vars => NothingAstray'
  BY NextAstray DEF LedgerInv
<1> QED
  BY <1>1, <1>2, <1>3, InitAstray, LedgerAlways, PTL DEF Spec

-----------------------------------------------------------------------------

\* A write that is under way follows the latest version of its payment.
SerialInv == \A s \in WritesUnderWay : s.over = VersionOf(s.payment.PaymentID)

\* What UpsertOfHolder says, of the state after a step.
LEMMA NextUpsertOfHolder ==
  ASSUME NEW h \in Handlers, NEW s \in WritesOf(h)', s.op = "upsert_payment"
  PROVE  /\ pc'[h] = "upsert"
         /\ s = [op |-> "upsert_payment", payment |-> paymentFromEvent(update'[h].Event),
                 by |-> Held(h)', over |-> over'[h]]
<1>1. CASE pc'[h] = "insert"
  BY <1>1 DEF WritesOf
<1>2. CASE pc'[h] = "record"
  BY <1>2 DEF WritesOf
<1>3. CASE pc'[h] = "upsert"
  BY <1>3 DEF WritesOf, Held
<1>4. CASE pc'[h] \notin {"insert", "record", "upsert"}
  BY <1>4 DEF WritesOf
<1> QED
  BY <1>1, <1>2, <1>3, <1>4

\* The goroutine is about to send what it was about to send before the step.
Still(g) == pc[g] = "upsert" /\ update'[g] = update[g] /\ over'[g] = over[g]

\* It has just read its payment.
HasJustRead(g) ==
  /\ UNCHANGED <<applied, update>>
  /\ over'[g] = VersionOf(update[g].Event.PaymentID)

\* After a step a goroutine is about to send a write only if it was so before, or
\* has just read the payment.
LEMMA WritersStep ==
  ASSUME TypeInv, [Next]_vars, NEW g \in Handlers, pc'[g] = "upsert"
  PROVE  Still(g) \/ HasJustRead(g)
<1> USE DEF storeVars, worldVars, Still, HasJustRead
<1>0. /\ pc \in [Handlers -> Locations] /\ over \in [Handlers -> Nat]
      /\ update \in [Handlers -> Updates]
  BY DEF TypeInv, TypeOK
<1>1. CASE \E h \in Handlers : GetPayment(h)
  <2>1. PICK h \in Handlers : GetPayment(h)
    BY <1>1
  <2>2. ReadPayment(h) /\ \E location \in Locations : Goto(h, location)
    BY <2>1 DEF GetPayment, GetPaymentToCreate, GetPaymentToUpdate, GetPaymentWithAnomaly,
                GetPaymentEqual, Ignore, Locations
  <2> QED
    BY <1>0, <2>2 DEF ReadPayment, Goto
<1>2. CASE (\E h \in Handlers : Disconnect(h)) \/ Late \/ UNCHANGED vars
  BY <1>2 DEF Disconnect, Late, vars, localVars
<1>3. CASE Crash
  BY <1>3 DEF Crash
<1>4. ASSUME NEW h \in Handlers, NEW location \in Locations \ {"upsert"}, Goto(h, location),
             \A i \in Handlers \ {h} : update'[i] = update[i] /\ over'[i] = over[i]
      PROVE  Still(g)
  BY <1>0, <1>4 DEF Goto
<1>5. ASSUME NEW h \in Handlers, Reject(h) \/ RespondOK(h) \/ RespondError(h) PROVE Still(g)
  <2>1. Finish(h)
    BY <1>5 DEF Reject, RejectMethod, RejectBody, RejectSignature, RejectPayload, RejectWith,
                RespondOK, RespondError
  <2> QED
    BY <1>0, <1>4, <2>1 DEF Finish, Locations
<1>6. ASSUME NEW h \in Handlers,
             \/ Accept(h) \/ InsertEvent(h) \/ InsertDuplicate(h)
             \/ InsertRejected(h) \/ UpsertRejected(h)
             \/ RecordAnomaly(h) \/ UpsertState(h) \/ CallFails(h) \/ RecordFails(h)
             \/ \E r \in Requests : Receive(h, r)
      PROVE  Still(g)
  <2>1. \E location \in Locations \ {"upsert"} : Goto(h, location)
    BY <1>6 DEF Accept, InsertEvent, InsertDuplicate, AnswerDuplicate, InsertRejected,
                UpsertRejected, AfterError,
                RecordAnomaly, AfterRecord, Ignore, UpsertState, CallFails, RecordFails,
                Receive, Locations
  <2>2. \A i \in Handlers \ {h} : update'[i] = update[i] /\ over'[i] = over[i]
    BY <1>0, <1>6 DEF Accept, InsertEvent, InsertDuplicate, AnswerDuplicate, InsertRejected,
                      UpsertRejected, AfterError,
                RecordAnomaly, AfterRecord, Ignore, UpsertState, CallFails, RecordFails, Receive
  <2> QED
    BY <1>4, <2>1, <2>2
<1> QED
  BY <1>1, <1>2, <1>3, <1>5, <1>6 DEF Next, Advance, BodyEnds, CallReturns, Respond

\* Only a call that fails or a crash leaves statements behind, and only a late
\* commit or a lost statement takes one away.
LEMMA OrphansUnchanged ==
  ASSUME [Next]_vars, ~((\E h \in Handlers : CallFails(h) \/ RecordFails(h)) \/ Crash)
  PROVE  orphans' \subseteq orphans
<1> USE DEF storeVars, worldVars
<1>2. CASE Late
  BY <1>2 DEF Late, OrphanCommits, OrphanDropped
<1>3. CASE \E h \in Handlers, r \in Requests : Receive(h, r)
  BY <1>3 DEF Receive
<1>4. CASE \E h \in Handlers : Reject(h) \/ Accept(h) \/ RespondOK(h) \/ RespondError(h)
  BY <1>4 DEF Reject, RejectMethod, RejectBody, RejectSignature, RejectPayload, RejectWith,
              Accept, RespondOK, RespondError
<1>5. CASE \E h \in Handlers : InsertDuplicate(h) \/ InsertRejected(h) \/ UpsertRejected(h) \/ GetPayment(h)
  BY <1>5 DEF InsertDuplicate, InsertRejected, UpsertRejected, AfterError, GetPayment,
              GetPaymentToCreate,
              GetPaymentToUpdate, GetPaymentWithAnomaly, GetPaymentEqual, ReadPayment
<1>6. CASE \E h \in Handlers : InsertEvent(h) \/ RecordAnomaly(h) \/ UpsertState(h) \/ Disconnect(h)
  BY <1>6 DEF InsertEvent, RecordAnomaly, UpsertState, Disconnect
<1>7. CASE UNCHANGED vars
  BY <1>7 DEF vars
<1> QED
  BY <1>2, <1>3, <1>4, <1>5, <1>6, <1>7 DEF Next, Advance, BodyEnds, CallReturns, Respond

\* A step leaves behind only what goroutines were about to send.
LEMMA OrphansStep ==
  ASSUME [Next]_vars, NEW s \in orphans'
  PROVE  s \in orphans \/ \E h \in Handlers : s \in WritesOf(h)
<1>1. CASE (\E h \in Handlers : CallFails(h) \/ RecordFails(h)) \/ Crash
  BY <1>1 DEF CallFails, RecordFails, Crash, Abandon
<1>2. CASE ~((\E h \in Handlers : CallFails(h) \/ RecordFails(h)) \/ Crash)
  BY <1>2, OrphansUnchanged
<1> QED
  BY <1>1, <1>2

\* A write under way after a step was so before, or is that of a goroutine that has
\* just read the latest version.
LEMMA UnderWayStep ==
  ASSUME TypeInv, [Next]_vars, NEW s \in WritesUnderWay'
  PROVE  \/ s \in WritesUnderWay
         \/ UNCHANGED applied /\ s.over = VersionOf(s.payment.PaymentID)
<1>1. CASE s \in orphans'
  BY <1>1, OrphansStep DEF WritesUnderWay
<1>2. CASE \E g \in Handlers : s \in WritesOf(g)'
  <2>1. PICK g \in Handlers : s \in WritesOf(g)'
    BY <1>2
  <2>2. /\ pc'[g] = "upsert"
        /\ s = [op |-> "upsert_payment", payment |-> paymentFromEvent(update'[g].Event),
                by |-> update'[g].WebhookEventID, over |-> over'[g]]
    BY <2>1, NextUpsertOfHolder DEF WritesUnderWay, Held
  <2>3. CASE Still(g)
    <3>1. s \in WritesOf(g)
      BY <2>2, <2>3 DEF Still, WritesOf
    <3> QED
      BY <3>1 DEF WritesUnderWay
  <2>4. CASE HasJustRead(g)
    BY <2>2, <2>4 DEF HasJustRead, paymentFromEvent
  <2> QED
    BY <2>2, <2>3, <2>4, WritersStep
<1> QED
  BY <1>1, <1>2 DEF WritesUnderWay

\* The token of a write under way is not spent, also after a step.
LEMMA UnderWayIsUnspent ==
  ASSUME LedgerInv', NEW s \in WritesUnderWay'
  PROVE  ~IsApplied(s.by)'
<1>1. CASE s \in orphans'
  BY <1>1 DEF LedgerInv, OnceInv, HeldByOrphan, Upserts, WritesUnderWay
<1>2. CASE \E g \in Handlers : s \in WritesOf(g)'
  <2>1. PICK g \in Handlers : s \in WritesOf(g)'
    BY <1>2
  <2>2. pc'[g] = "upsert" /\ s.by = Held(g)'
    BY <2>1, NextUpsertOfHolder DEF WritesUnderWay
  <2>3. ~IsApplied(Held(g))'
    BY <2>2 DEF LedgerInv, OnceInv, HeldByGoroutine, Processing
  <2> QED
    BY <2>2, <2>3 DEF IsApplied
<1> QED
  BY <1>1, <1>2 DEF WritesUnderWay

\* A step leaves the versions alone or commits an upsert.
LEMMA WrittenOrNot ==
  ASSUME LedgerInv, [Next]_vars
  PROVE  UNCHANGED applied \/ \E s : Commits(s) /\ s.op = "upsert_payment"
<1>1. ASSUME NEW s, Commits(s) PROVE UNCHANGED applied \/ s.op = "upsert_payment"
  <2>1. s \in Statements
    BY <1>1, CommittedIsGood
  <2> QED
    BY <1>1, <2>1 DEF Commits, Commit, Statements, InsertWebhookEvent, InsertAnomaly
<1> QED
  BY <1>1, StepCommits

\* While writes are apart, a write under way stays over the latest version: nobody
\* else writes its payment before it.
LEMMA NextSerial ==
  ASSUME LedgerInv, LedgerInv', Apart, SerialInv, [Next]_vars
  PROVE  SerialInv'
<1>1. TypeInv
  BY DEF LedgerInv
<1>2. CASE UNCHANGED applied
  <2>1. \A id : VersionOf(id)' = VersionOf(id)
    BY <1>2 DEF VersionOf, VersionsOf
  <2> QED
    BY <1>1, <2>1, UnderWayStep DEF SerialInv
<1>3. CASE \E c : Commits(c) /\ c.op = "upsert_payment"
  <2>1. PICK c : Commits(c) /\ c.op = "upsert_payment"
    BY <1>3
  <2> DEFINE row == PaymentRow(c.payment)
             v == [payment |-> row, by |-> c.by, over |-> c.over]
  <2>2. c \in Statements /\ c \in WritesUnderWay
    BY <2>1, CommittedIsGood DEF Commits, WritesUnderWay
  <2>3. /\ applied' = Append(applied, v)
        /\ v \in Versions /\ row.PaymentID = c.payment.PaymentID
    BY <2>1, <2>2, RowTypes DEF Commits, Commit, UpsertPayment, Statements, Versions
  <2>4. applied \in Seq(Versions) /\ Len(applied) \in Nat
    BY DEF LedgerInv, TypeInv, TypeOK, StoreTypeOK
  <2>5. /\ DOMAIN applied' = DOMAIN applied \cup {Len(applied) + 1}
        /\ \A n \in DOMAIN applied : applied'[n] = applied[n]
        /\ applied'[Len(applied) + 1] = v
        /\ Len(applied) + 1 \notin DOMAIN applied
    BY <2>3, <2>4
  <2>6. IsApplied(c.by)' /\ applied' # applied
    BY <2>5 DEF IsApplied
  <2>7. ASSUME NEW s \in WritesUnderWay'
        PROVE  s.over = VersionOf(s.payment.PaymentID)'
    <3>1. s \in WritesUnderWay
      BY <1>1, <2>6, UnderWayStep
    <3>2. s # c
      BY <2>6, UnderWayIsUnspent
    <3>3. s.payment.PaymentID # row.PaymentID
      BY <2>2, <2>3, <3>1, <3>2 DEF Apart
    <3>4. VersionsOf(s.payment.PaymentID)' = VersionsOf(s.payment.PaymentID)
      BY <2>5, <3>3 DEF VersionsOf
    <3> QED
      BY <3>1, <3>4 DEF SerialInv, VersionOf
  <2> QED
    BY <2>7 DEF SerialInv
<1>4. UNCHANGED applied \/ \E c : Commits(c) /\ c.op = "upsert_payment"
  BY WrittenOrNot
<1> QED
  BY <1>2, <1>3, <1>4

\* While writes are apart, an upsert follows the latest version of its payment.
LEMMA SerialUpsert ==
  ASSUME LedgerInv, SerialInv, NEW s, Commits(s), s.op = "upsert_payment"
  PROVE  /\ s.over = VersionOf(EventOf(s.by).PaymentID)
         /\ EventOf(s.by).PaymentID \in Identifiers
<1>1. s \in WritesUnderWay /\ s.by \in DOMAIN webhookEvents
  BY UpsertToken DEF Commits, WritesUnderWay
<1>2. s.payment = paymentFromEvent(EventOf(s.by)) /\ EventOf(s.by) \in PaymentEvents
  BY <1>1, CommittedIsGood, RowEvent DEF GoodStatement
<1> QED
  BY <1>1, <1>2 DEF SerialInv, paymentFromEvent, PaymentEvents

\* While writes are apart, every step is a step of the serial ledger or leaves it alone.
LEMMA StepImplementsSerial ==
  ASSUME LedgerInv, SerialInv, [Next]_vars
  PROVE  Ledger!SerialNext \/ UNCHANGED <<LedgerEvents, LedgerVersions>>
<1>1. CASE UNCHANGED <<webhookEvents, payments, applied>>
  BY <1>1 DEF LedgerEvents, LedgerVersions, EventOf
<1>2. CASE \E s : Commits(s)
  <2>1. PICK s : Commits(s)
    BY <1>2
  <2>2. s \in Statements /\ GoodStatement(s)
    BY <2>1, CommittedIsGood
  <2>3. CASE s.op = "insert_webhook_event"
    BY <2>1, <2>2, <2>3, InsertTakesIn DEF Ledger!SerialNext
  <2>4. CASE s.op = "upsert_payment"
    <3>1. PICK id : id = EventOf(s.by).PaymentID
      OBVIOUS
    <3>2. Ledger!VersionsOf(id) = VersionsOf(id)
      <4>1. DOMAIN LedgerVersions = DOMAIN applied
        BY DEF LedgerVersions
      <4> QED
        BY <4>1, LedgerVersion DEF Ledger!VersionsOf, VersionsOf
    <3>3. Ledger!LatestOf(id) = VersionOf(id)
      BY <3>2 DEF Ledger!LatestOf, VersionOf, Ledger!Max, Max
    <3>4. Ledger!Write(EventOf(s.by), s.over) /\ EventOf(s.by) \in LedgerEvents
      BY <2>1, <2>2, <2>4, UpsertWrites
    <3> QED
      BY <2>1, <2>4, <3>1, <3>3, <3>4, SerialUpsert DEF Ledger!SerialNext
  <2>5. CASE s.op = "insert_anomaly"
    BY <2>1, <2>5 DEF Commits, Commit, InsertAnomaly, LedgerEvents, LedgerVersions, EventOf
  <2> QED
    BY <2>2, <2>3, <2>4, <2>5 DEF Statements
<1> QED
  BY <1>1, <1>2, StepCommits

\* A time after a stored one is not stored before it.
LEMMA StoredMonotone ==
  ASSUME NEW a \in Nat, NEW b \in Nat, Stored(a) < b
  PROVE  Stored(a) <= Stored(b)
<1> DEFINE R == Resolution
<1>1. R \in Nat /\ R > 0
  BY StoreAssumption
<1>2. Stored(a) = a - (a % R) /\ Stored(b) = b - (b % R)
  BY DEF Stored
<1> HIDE DEF R
<1>3. /\ a % R \in 0 .. (R - 1) /\ a = R * (a \div R) + (a % R) /\ a \div R \in Int
      /\ b % R \in 0 .. (R - 1) /\ b = R * (b \div R) + (b % R) /\ b \div R \in Int
  BY <1>1, Z3
<1>4. PICK x \in Int, y \in Int, r \in 0 .. (R - 1) :
        a - (a % R) = R * x /\ b = R * y + r /\ b - (b % R) = R * y
  <2> DEFINE x == a \div R  y == b \div R  m == a % R  r == b % R
  <2>1. /\ x \in Int /\ y \in Int /\ R * x \in Int /\ R * y \in Int
        /\ m \in 0 .. (R - 1) /\ r \in 0 .. (R - 1)
        /\ a = R * x + m /\ b = R * y + r
    BY <1>1, <1>3
  <2> HIDE DEF x, y, m, r
  <2>2. a - m = R * x /\ b - r = R * y
    BY <1>1, <2>1
  <2> QED
    BY <2>1, <2>2 DEF m, r
<1>5. R * x < R * y + R
  <2>1. R * x \in Int /\ R * y \in Int
    BY <1>1
  <2> QED
    BY <1>1, <1>2, <1>4, <2>1
<1>6. x < y + 1
  <2> SUFFICES ASSUME x >= y + 1 PROVE FALSE
    OBVIOUS
  <2>1. R * x >= R * (y + 1) /\ R * (y + 1) = R * y + R
    BY <1>1, Z3
  <2> QED
    BY <1>1, <1>5, <2>1, Z3
<1>7. R * x <= R * y
  <2>1. x <= y
    BY <1>6
  <2> QED
    BY <1>1, <2>1, Z3
<1> QED
  BY <1>2, <1>4, <1>7

\* A version over the latest one of its payment does not take the payment back.
LEMMA NextNoRegress ==
  ASSUME LedgerInv, SerialInv, PaymentNeverRegresses, [Next]_vars
  PROVE  PaymentNeverRegresses'
<1>1. CASE UNCHANGED applied
  BY <1>1 DEF PaymentNeverRegresses, VersionsOf
<1>2. CASE \E s : Commits(s) /\ s.op = "upsert_payment"
  <2>1. PICK s : Commits(s) /\ s.op = "upsert_payment"
    BY <1>2
  <2>2. s \in Statements /\ GoodStatement(s)
    BY <2>1, CommittedIsGood
  <2>3. PICK event, id, row, v :
          /\ event = EventOf(s.by) /\ id = event.PaymentID /\ row = PaymentRow(s.payment)
          /\ v = [payment |-> row, by |-> s.by, over |-> s.over]
    OBVIOUS
  <2>4. /\ event \in PaymentEvents /\ s.payment = paymentFromEvent(event)
        /\ Respects(event, s.over)
        /\ s.over = VersionOf(id) /\ id \in Identifiers
    BY <2>1, <2>2, <2>3, SerialUpsert, RowEvent DEF GoodStatement
  <2>5. /\ row \in Payments /\ row.PaymentID = id
        /\ row.StatusTimestamp = Stored(event.EventTimestamp)
    BY <2>3, <2>4, PaymentFromEventType, RowTypes, PaymentOfEvent
    DEF PaymentRow, paymentFromEvent, Payments
  <2>6. v \in Versions
    BY <2>1, <2>2, <2>3, <2>5 DEF Statements, Versions
  <2>7. PICK k : k = Len(applied')
    OBVIOUS
  <2>8. applied' = Append(applied, v)
    BY <2>1, <2>3 DEF Commits, Commit, UpsertPayment
  <2>9. /\ DOMAIN applied' = DOMAIN applied \cup {k} /\ k \in Nat
        /\ \A n \in DOMAIN applied : n \in Nat /\ n < k /\ applied'[n] = applied[n]
        /\ applied'[k] = v
    <3>1. applied \in Seq(Versions) /\ Len(applied) \in Nat
      BY DEF LedgerInv, TypeInv, TypeOK, StoreTypeOK
    <3>2. /\ k = Len(applied) + 1 /\ DOMAIN applied' = 1 .. k /\ applied'[k] = v
          /\ \A n \in 1 .. Len(applied) : applied'[n] = applied[n]
      BY <2>6, <2>7, <2>8, <3>1
    <3> QED
      BY <3>1, <3>2
  <2>10. ASSUME NEW m \in DOMAIN applied', NEW n \in DOMAIN applied', m < n,
                VersionsOf(applied[m].payment.PaymentID)' \cap m .. n = {m, n}
         PROVE  applied'[m].payment.StatusTimestamp <= applied'[n].payment.StatusTimestamp
    <3>1. m \in DOMAIN applied /\ m \in Nat /\ applied'[m] = applied[m]
      BY <2>9, <2>10
    <3>2. CASE n # k
      <4>1. n \in DOMAIN applied /\ applied'[n] = applied[n]
        BY <2>9, <3>2
      <4>2. VersionsOf(applied[m].payment.PaymentID) \cap m .. n = {m, n}
        BY <2>9, <2>10, <3>1, <4>1 DEF VersionsOf
      <4> QED
        BY <2>10, <3>1, <4>1, <4>2 DEF PaymentNeverRegresses
    <3>3. CASE n = k
      <4>1. applied[m].payment.PaymentID = id
        <5>1. k \in VersionsOf(applied[m].payment.PaymentID)'
          BY <2>10, <3>3
        <5> QED
          BY <2>3, <2>5, <2>9, <3>1, <5>1 DEF VersionsOf
      <4>2. m \in VersionsOf(id)
        BY <3>1, <4>1 DEF VersionsOf
      <4>3. /\ VersionOf(id) \in VersionsOf(id) /\ m <= VersionOf(id)
            /\ VersionOf(id) \in DOMAIN applied
        <5>1. /\ VersionOf(id) \in {0} \cup VersionsOf(id)
              /\ m <= VersionOf(id)
          BY <2>4, <4>2, VersionOfType DEF LedgerInv, TypeInv, TypeOK, StoreTypeOK
        <5>2. m # 0
          BY <3>1 DEF LedgerInv, TypeInv, TypeOK, StoreTypeOK
        <5> QED
          BY <3>1, <5>1, <5>2 DEF VersionsOf
      <4>4. VersionOf(id) = m
        <5>1. VersionOf(id) \in VersionsOf(applied[m].payment.PaymentID)' \cap m .. n
          BY <2>9, <3>1, <3>3, <4>1, <4>3 DEF VersionsOf
        <5> QED
          BY <2>9, <2>10, <3>3, <4>3, <5>1
      <4>5. Advances(event, applied[m].payment)
        <5>1. s.over # 0
          BY <2>4, <3>1, <4>4 DEF LedgerInv, TypeInv, TypeOK, StoreTypeOK
        <5> QED
          BY <2>4, <4>4, <5>1 DEF Respects
      <4>6. PICK old \in PaymentEvents : applied[m].payment = PaymentRow(paymentFromEvent(old))
        BY <3>1, RowEvent DEF LedgerInv, ProvInv, TablesGood, GoodVersion
      <4>7. applied[m].payment.StatusTimestamp = Stored(old.EventTimestamp)
        BY <4>6, PaymentFromEventType DEF PaymentRow, paymentFromEvent, Payments
      <4>8. Stored(old.EventTimestamp) < event.EventTimestamp
        BY <4>5, <4>7, StoredType, <2>4 DEF Advances, After, PaymentEvents
      <4>9. Stored(old.EventTimestamp) <= Stored(event.EventTimestamp)
        BY <2>4, <4>8, StoredMonotone DEF PaymentEvents
      <4> QED
        BY <2>3, <2>5, <2>9, <3>1, <3>3, <4>7, <4>9
    <3> QED
      BY <3>2, <3>3
  <2> QED
    BY <2>10 DEF PaymentNeverRegresses
<1>3. UNCHANGED applied \/ \E s : Commits(s) /\ s.op = "upsert_payment"
  BY WrittenOrNot
<1> QED
  BY <1>1, <1>2, <1>3

\* SerialInv holds in every state while writes are apart.
LEMMA SerialAlways == Spec /\ []Apart => []SerialInv
<1>1. Init => SerialInv
  BY DEF Init, StoreInit, SerialInv, WritesUnderWay, WritesOf
<1>2. LedgerInv /\ LedgerInv' /\ Apart /\ SerialInv /\ [Next]_vars => SerialInv'
  BY NextSerial
<1> QED
  BY <1>1, <1>2, LedgerAlways, PTL DEF Spec

\* While no two writes of one payment are under way at once, every write follows the
\* latest version, whatever fails and however late it is carried out
\* (PaymentProcessor.Process reads the row it is about to overwrite).
THEOREM SerialRefinement == Spec /\ []Apart => ImplementsSerialLedger
<1>1. Init => Ledger!Init
  BY DEF Init, StoreInit, Ledger!Init, LedgerEvents, LedgerVersions
<1>2. LedgerInv /\ SerialInv /\ [Next]_vars => [Ledger!SerialNext]_(Ledger!ledgerVars)
  BY StepImplementsSerial DEF Ledger!ledgerVars
<1> QED
  BY <1>1, <1>2, LedgerAlways, SerialAlways, PTL
  DEF Spec, ImplementsSerialLedger, Ledger!SerialSpec

\* Under the same condition no payment's timestamp goes back, for any events, any
\* resolution of the stored timestamps and any number of goroutines and failures.
THEOREM NeverRegresses == Spec /\ []Apart => []PaymentNeverRegresses
<1>1. Init => PaymentNeverRegresses
  BY DEF Init, StoreInit, PaymentNeverRegresses
<1>2. LedgerInv /\ SerialInv /\ PaymentNeverRegresses /\ [Next]_vars => PaymentNeverRegresses'
  BY NextNoRegress
<1> QED
  BY <1>1, <1>2, LedgerAlways, SerialAlways, PTL DEF Spec

=============================================================================
