---------------------------- MODULE WebhookLedger ----------------------------
(***************************************************************************)
(* The webhook service implements the payment ledger.  The events taken in *)
(* are those of the webhook_events rows, each recovered by parsing the     *)
(* row's raw_payload again; the versions are the writes that committed.    *)
(* And the goroutines follow RequestFlow, which Server takes them for.     *)
(***************************************************************************)
EXTENDS WebhookService

SignedEvents == {ParseEvent(r.body) : r \in {r \in Requests : IsAcceptable(r)}}

LedgerEvents == {EventOf(id) : id \in DOMAIN webhookEvents}

LedgerVersions ==
  [n \in DOMAIN applied |-> [event |-> EventOf(applied[n].by), follows |-> applied[n].over]]

Ledger == INSTANCE PaymentLedger
            WITH Offered <- SignedEvents, events <- LedgerEvents, versions <- LedgerVersions

\* Under any interleaving of deliveries, failed calls, abandoned statements and
\* crashes, the tables change only as the ledger allows.
ImplementsLedger == Ledger!Spec

\* While no two writes of one payment are under way at once, every write follows
\* the latest version of its payment.
ImplementsSerialLedger == Ledger!SerialSpec

Flow == INSTANCE RequestFlow

\* Whatever the tables hold and whatever fails, a request makes its calls in the
\* one order: nothing is read before the event is stored, nothing written to the
\* payment after an anomaly, and each call is made once.
ImplementsFlow == Flow!Spec
==============================================================================
