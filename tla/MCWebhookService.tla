-------------------------- MODULE MCWebhookService --------------------------
(* Instances of WebhookService for TLC.                                     *)
EXTENDS WebhookLedger, TLC

CONSTANTS h1, h2, h3, OurSecret, OtherSecret

MCText ==
  {"", " ", "evt_1", " evt_1", "evt_2", "evt_3", "evt_4", "evt_5", "pay_1", "pay_2", "pay_long",
   "payment.pending", "payment.paid", "payment.disputed", "payment.unknown", "1", "2", "3", " 3", "4", "noon"}

MCTrimSpace ==
  (" " :> "" @@ " evt_1" :> "evt_1" @@ " 3" :> "3") @@ [t \in MCText |-> t]

MCParseRFC3339 ==
  ("1" :> 1 @@ "2" :> 2 @@ "3" :> 3 @@ "4" :> 4) @@ [t \in MCText |-> NotATime]

Body(id, payment, type, time) ==
  [provider_event_id |-> id, payment_id |-> payment,
   event_type |-> type, event_timestamp |-> time]

Post(body, secret) ==
  [method |-> "POST", body |-> body, signature |-> computeSignature(body, secret)]

Signed(id, payment, type, time) == Post(Body(id, payment, type, time), OurSecret)

Pending1 == Signed("evt_1", "pay_1", "payment.pending", "1")
Paid2 == Signed("evt_2", "pay_1", "payment.paid", "2")
Disputed3 == Signed("evt_3", "pay_1", "payment.disputed", "3")

\* Three events of one payment.  Each may follow the one before it; pending may
\* not be followed by disputed; paid and disputed may follow each other.
LifeRequests == {Pending1, Paid2, Disputed3}
PairRequests == {Paid2, Disputed3}

\* Two events of the same instant, which is not on a microsecond.
SameInstant == {Signed("evt_1", "pay_1", "payment.pending", "3"),
                Signed("evt_2", "pay_1", "payment.paid", " 3")}

\* One request for every way the endpoint can answer.
Genuine == Signed(" evt_1", "pay_1", "payment.pending", "1")
SameTime == Signed("evt_2", "pay_1", "payment.paid", "1")
Unstorable == Body("evt_4", "pay_2", "payment.paid", "2")

Refused ==
  {[Signed("evt_3", "pay_1", "payment.paid", "4") EXCEPT !.method = "GET"],
   Post(Body("evt_2", "pay_1", "payment.paid", "4"), OtherSecret),
   [method |-> "POST", body |-> Body("evt_2", "pay_1", "payment.paid", "4"),
    signature |-> NotHex],
   Post(NotJSON, OurSecret),
   Signed("evt_2", "pay_1", "payment.unknown", "4"),
   Signed("evt_2", " ", "payment.paid", "4"),
   Signed("evt_2", "pay_1", "payment.paid", "noon")}

\* An event that webhook_events takes and payments does not.
Unpayable == Signed("evt_5", "pay_long", "payment.paid", "2")

EndpointRequests == {Genuine, Unpayable, Post(Unstorable, OurSecret)} \cup Refused

\* Another event, of another payment, under the provider event id of Genuine.
Reused == Signed("evt_1", "pay_2", "payment.pending", "3")

\* One of Genuine and Reused is a duplicate; SameTime is as old as Genuine.
MetricsRequests == {Genuine, Reused, SameTime, Disputed3, Unpayable}

UnstorableEndpoint == {Unstorable}

TooLong == {"pay_long"}

Symmetry == Permutations(Handlers)
=============================================================================
