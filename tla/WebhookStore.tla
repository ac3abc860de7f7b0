---------------------------- MODULE WebhookStore ----------------------------
(***************************************************************************)
(* The three PostgreSQL tables behind internal/repository and the SQL      *)
(* statements the repositories send.  One statement is one transaction, so *)
(* a statement commits as a whole (Commit) and only if the schema admits   *)
(* it (Admits).                                                            *)
(*                                                                         *)
(* A caller whose call failed or whose process died does not know whether  *)
(* its statement took effect: the server may still be executing it.  Such  *)
(* a statement is in orphans until it commits or is dropped.               *)
(*                                                                         *)
(* applied is a history variable: the versions the payments rows went      *)
(* through, in commit order, each with the event that wrote it and with    *)
(* the version its writer had read (over, 0 when it had found no row).     *)
(* Nothing of the program reads it except to fill over in.                 *)
(***************************************************************************)
EXTENDS PaymentRules, Sequences, FiniteSets, FiniteSetsExt

CONSTANTS
  Resolution,      \* ticks per microsecond, the resolution of TIMESTAMPTZ
  UnstorableBodies,\* bodies ParseEvent accepts and jsonb does not
  UnindexableIDs,  \* ids longer than an entry of an index may be
  NoPayment        \* what GetByPaymentID returns with ErrPaymentNotFound

ASSUME StoreAssumption ==
  /\ Resolution \in Nat \ {0}
  /\ UnstorableBodies \subseteq Payloads
  /\ UnindexableIDs \subseteq Identifiers
  /\ NoPayment \notin Payments

VARIABLES
  webhookEvents,   \* the rows of webhook_events; a row's position is its id
  payments,        \* the rows of payments, by payment_id
  anomalies,       \* the rows of anomalies
  orphans,         \* statements sent by a caller that no longer waits for them
  applied          \* history: the versions of the payments rows

storeVars == <<webhookEvents, payments, anomalies, orphans, applied>>

\* A timestamp is written with the microsecond it falls in.
Stored(tick) == tick - (tick % Resolution)

\* processing_status is always "pending" (no statement updates it): left out.
WebhookEventRow(event) == [event EXCEPT !.EventTimestamp = Stored(@)]

PaymentRow(payment) == [payment EXCEPT !.StatusTimestamp = Stored(@)]

Versions == [payment : Payments, by : Nat, over : Nat]

Statements ==
       [op : {"insert_webhook_event"}, event : PaymentEvents]
  \cup [op : {"upsert_payment"}, payment : Payments, by : Nat, over : Nat]
  \cup [op : {"insert_anomaly"}, anomaly : Anomalies]

StoreInit ==
  /\ webhookEvents = << >>
  /\ payments = [id \in {} |-> NoPayment]
  /\ anomalies = << >>
  /\ orphans = {}
  /\ applied = << >>

-----------------------------------------------------------------------------

\* Seeded bug: the schema lost the UNIQUE constraint.
IsDuplicateWithoutConstraint(event) == FALSE

\* webhook_events_provider_event_id_key rejects a second row for the id.
IsDuplicate(event) ==
  \E id \in DOMAIN webhookEvents :
    webhookEvents[id].ProviderEventID = event.ProviderEventID

\* The casts of the parameters precede the check of the constraint; an id that the
\* index refuses is never stored, so it is no duplicate either.
IsStorable(event) ==
  event.RawPayload \notin UnstorableBodies /\ event.ProviderEventID \notin UnindexableIDs

\* payment_id is the key of payments; webhook_events has no index on it.
IsPayable(paymentID) == paymentID \notin UnindexableIDs

Admits(statement) ==
  CASE statement.op = "insert_webhook_event" ->
         IsStorable(statement.event) /\ ~IsDuplicate(statement.event)
    [] statement.op = "upsert_payment" -> IsPayable(statement.payment.PaymentID)
    [] statement.op = "insert_anomaly" ->
         /\ statement.anomaly.WebhookEventID \in {0} \cup DOMAIN webhookEvents
         /\ statement.anomaly.PaymentID \in DOMAIN payments

InsertWebhookEvent(event) ==
  /\ webhookEvents' = Append(webhookEvents, WebhookEventRow(event))
  /\ UNCHANGED <<payments, anomalies, applied>>

\* Seeded bug: ON CONFLICT sets the status and leaves status_timestamp alone.
OnConflictStatusOnly(old, row) == [old EXCEPT !.Status = row.Status]

\* ON CONFLICT (payment_id) DO UPDATE SET
OnConflict(old, row) ==
  [old EXCEPT !.Status = row.Status, !.StatusTimestamp = row.StatusTimestamp]

UpsertPayment(payment, by, over) ==
  LET row == PaymentRow(payment)
      id == row.PaymentID
      new == IF id \in DOMAIN payments THEN OnConflict(payments[id], row) ELSE row IN
  /\ payments' = [i \in DOMAIN payments \cup {id} |-> IF i = id THEN new ELSE payments[i]]
  /\ applied' = Append(applied, [payment |-> row, by |-> by, over |-> over])
  /\ UNCHANGED <<webhookEvents, anomalies>>

InsertAnomaly(anomaly) ==
  /\ anomalies' = Append(anomalies, anomaly)
  /\ UNCHANGED <<webhookEvents, payments, applied>>

Commit(statement) ==
  /\ Admits(statement)
  /\ CASE statement.op = "insert_webhook_event" -> InsertWebhookEvent(statement.event)
       [] statement.op = "upsert_payment" ->
            UpsertPayment(statement.payment, statement.by, statement.over)
       [] statement.op = "insert_anomaly" -> InsertAnomaly(statement.anomaly)

\* GetByPaymentID
PaymentOf(paymentID) ==
  IF paymentID \in DOMAIN payments THEN payments[paymentID] ELSE NoPayment

\* The version of the row such a read returns: its position in applied.
VersionsOf(paymentID) == {n \in DOMAIN applied : applied[n].payment.PaymentID = paymentID}

VersionOf(paymentID) == Max({0} \cup VersionsOf(paymentID))

-----------------------------------------------------------------------------
(* An orphan commits late, or never.                                        *)

OrphanCommits(statement) ==
  /\ statement \in orphans
  /\ Commit(statement)
  /\ orphans' = orphans \ {statement}

OrphanDropped(statement) ==
  /\ statement \in orphans
  /\ orphans' = orphans \ {statement}
  /\ UNCHANGED <<webhookEvents, payments, anomalies, applied>>

StoreTypeOK ==
  /\ webhookEvents \in Seq(PaymentEvents)
  /\ DOMAIN payments \subseteq Identifiers
  /\ payments \in [DOMAIN payments -> Payments]
  /\ anomalies \in Seq(Anomalies)
  /\ orphans \subseteq Statements
  /\ applied \in Seq(Versions)
=============================================================================
