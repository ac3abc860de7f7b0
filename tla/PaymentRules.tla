---------------------------- MODULE PaymentRules ----------------------------
(***************************************************************************)
(* The rules of internal/service that decide what an event does to a       *)
(* payment: which transitions are allowed, which events are ignored and    *)
(* why, and which anomalies are reported.  All of them compare the event   *)
(* in memory with the payments row the processor read.                     *)
(***************************************************************************)
EXTENDS WebhookEvent

\* repository.Payment
Payments == [PaymentID : Identifiers, Status : Statuses, StatusTimestamp : Nat]

paymentFromEvent(event) ==
  [PaymentID       |-> event.PaymentID,
   Status          |-> event.PaymentStatus,
   StatusTimestamp |-> event.EventTimestamp]

\* The statuses isTransitionAllowed lets a payment move to.
NextStatuses(status) ==
  CASE status = "pending"    -> {"authorized", "paid", "failed", "expired", "cancelled"}
    [] status = "authorized" -> {"paid", "failed", "expired", "cancelled"}
    [] status = "paid"       -> {"partially_refunded", "refunded", "disputed"}
    [] status = "partially_refunded" -> {"partially_refunded", "refunded", "disputed"}
    [] status = "disputed"   -> {"paid", "chargeback"}
    [] OTHER                 -> {}

isTransitionAllowed(current, next) == next \in NextStatuses(current)

Before(event, payment) == event.EventTimestamp < payment.StatusTimestamp
After(event, payment)  == event.EventTimestamp > payment.StatusTimestamp

\* PaymentProcessor.Process updates an existing payment exactly then.
Advances(event, current) ==
  /\ After(event, current)
  /\ isTransitionAllowed(current.Status, event.PaymentStatus)

IgnoreReasons == {"older_timestamp", "equal_timestamp", "invalid_terminal_transition"}

\* The reason PaymentProcessor.Process gives when the event does not advance.
IgnoreReason(event, current) ==
  IF After(event, current) THEN "invalid_terminal_transition"
  ELSE IF Before(event, current) THEN "older_timestamp"
  ELSE "equal_timestamp"

AnomalyTypes == {"stale_event", "invalid_terminal_transition"}

\* repository.Anomaly with its AnomalyDetails; 0 is the absent event id.
Anomalies == [WebhookEventID : Nat, PaymentID : Identifiers,
              AnomalyType : AnomalyTypes, ProviderEventID : Identifiers,
              Current : Payments, IncomingStatus : Statuses,
              IncomingTimestamp : Nat]

DetectedTypes(current, event) ==
  IF Before(event, current) THEN {"stale_event"}
  ELSE IF After(event, current) /\ ~isTransitionAllowed(current.Status, event.PaymentStatus)
    THEN {"invalid_terminal_transition"}
  ELSE {}

DetectAnomalies(current, event, webhookEventID) ==
  {[WebhookEventID    |-> webhookEventID,
    PaymentID         |-> event.PaymentID,
    AnomalyType       |-> type,
    ProviderEventID   |-> event.ProviderEventID,
    Current           |-> current,
    IncomingStatus    |-> event.PaymentStatus,
    IncomingTimestamp |-> event.EventTimestamp] : type \in DetectedTypes(current, event)}
=============================================================================
