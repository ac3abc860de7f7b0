---------------------------- MODULE MetricsProofs ----------------------------
(***************************************************************************)
(* The counters of the process agree with each other and, until a first    *)
(* fault, with the tables.  Both properties count goroutines by location,  *)
(* so the invariant keeps the busy ones finitely many (CountedOK) and the  *)
(* argument is one of arithmetic: a step moves one goroutine and bumps     *)
(* some series, and what it adds on the two sides of each equation is the  *)
(* same.                                                                   *)
(***************************************************************************)
EXTENDS WebhookTypeProofs, FiniteSetTheorems

Bit(condition) == IF condition THEN 1 ELSE 0

\* Finitely many goroutines serve a request, and one that records an anomaly
\* has found one.
CountedOK ==
  /\ IsFiniteSet({h \in Handlers : pc[h] # "idle"})
  /\ \A h \in Handlers : pc[h] = "record" => DetectedTypes(current[h], update[h].Event) # {}

MetricsInv == CountedOK /\ NothingAstray /\ MetricsBalance /\ MetricsMatchTables

-----------------------------------------------------------------------------

Places == Locations \ {"idle"}

\* A goroutine that moves is counted where it arrives and no longer where it was.
LEMMA MoveCounts ==
  ASSUME TypeInv, CountedOK, NEW h \in Handlers, NEW to \in Locations, Goto(h, to),
         NEW l \in Places
  PROVE  /\ At[l] \in Nat
         /\ At'[l] = At[l] + Bit(to = l) - Bit(pc[h] = l)
<1> DEFINE S == {g \in Handlers : pc[g] = l}
           T == {g \in Handlers : pc'[g] = l}
<1>1. pc' = [pc EXCEPT ![h] = to] /\ pc \in [Handlers -> Locations]
  BY DEF Goto, TypeInv, TypeOK
<1>2. IsFiniteSet(S)
  BY FS_Subset DEF CountedOK, Places
<1>3. At[l] = Cardinality(S) /\ At'[l] = Cardinality(T)
  BY DEF At, Places
<1>4. h \in S <=> pc[h] = l
  OBVIOUS
<1>5. T = IF to = l THEN S \cup {h} ELSE S \ {h}
  BY <1>1
<1> HIDE DEF S, T
<1>6. Cardinality(S) \in Nat
  BY <1>2, FS_CardinalityType
<1>7. Cardinality(S \cup {h}) = IF h \in S THEN Cardinality(S) ELSE Cardinality(S) + 1
  BY <1>2, FS_AddElement
<1>8. Cardinality(S \ {h}) = IF h \in S THEN Cardinality(S) - 1 ELSE Cardinality(S)
  BY <1>2, FS_RemoveElement
<1>9. Cardinality(T) = Cardinality(S) + Bit(to = l) - Bit(h \in S)
  BY <1>5, <1>6, <1>7, <1>8 DEF Bit
<1> QED
  BY <1>3, <1>4, <1>6, <1>9

\* Counting adds one to each series counted (metrics.Inc...).
LEMMA IncCounts ==
  ASSUME metrics \in [Series -> Nat], MetricsEnabled, NEW counted, Inc(counted),
         NEW s \in Series
  PROVE  metrics'[s] = metrics[s] + Bit(s \in counted) /\ metrics[s] \in Nat /\ metrics'[s] \in Nat
BY DEF Inc, Bit

IsSeries(name, label) == <<name, label>> \in Series

\* The series the properties read.
LEMMA SeriesNamed ==
  /\ IsSeries("requests_total", "no_label") /\ IsSeries("signature_failures_total", "no_label")
  /\ IsSeries("duplicates_total", "no_label") /\ IsSeries("provider_events_total", "no_label")
  /\ \A s \in ServedStatuses :
       IsSeries("success_total", s) /\ IsSeries("response_duration", s)
  /\ \A e \in ErrorResults :
       IsSeries("errors_total", e) /\ IsSeries("response_duration", e)
  /\ \A s \in ProcessingStatuses :
       /\ IsSeries("payment_processing_total", s)
       /\ IsSeries("processing_duration", s)
  /\ \A r \in IgnoreReasons : IsSeries("payment_ignored_total", r)
  /\ \A t \in AnomalyTypes : IsSeries("anomalies_total", t)
  /\ \A w \in WriteOperations : IsSeries("database_write_duration", w)
<1>1. {"requests_total", "signature_failures_total", "duplicates_total",
       "provider_events_total"} \X {"no_label"} \subseteq Series
  BY DEF Series
<1>2. /\ {"success_total"} \X ServedStatuses \subseteq Series
      /\ {"errors_total"} \X ErrorResults \subseteq Series
      /\ {"payment_processing_total", "processing_duration"} \X ProcessingStatuses \subseteq Series
      /\ {"payment_ignored_total"} \X IgnoreReasons \subseteq Series
      /\ {"anomalies_total"} \X AnomalyTypes \subseteq Series
      /\ {"response_duration"} \X (ServedStatuses \cup ErrorResults) \subseteq Series
      /\ {"database_write_duration"} \X WriteOperations \subseteq Series
  BY DEF Series
<1> QED
  BY <1>1, <1>2 DEF IsSeries

\* The series that are summed.
LEMMA SeriesSummed ==
  /\ IsSeries("success_total", "processed") /\ IsSeries("success_total", "duplicate")
  /\ IsSeries("errors_total", "method_not_allowed")
  /\ IsSeries("errors_total", "invalid_payload")
  /\ IsSeries("errors_total", "unauthorized")
  /\ IsSeries("errors_total", "internal_error")
  /\ IsSeries("payment_processing_total", "created")
  /\ IsSeries("payment_processing_total", "updated")
  /\ IsSeries("payment_processing_total", "ignored")
  /\ IsSeries("payment_processing_total", "failed")
  /\ IsSeries("payment_ignored_total", "older_timestamp")
  /\ IsSeries("payment_ignored_total", "invalid_terminal_transition")
  /\ IsSeries("payment_ignored_total", "equal_timestamp")
  /\ IsSeries("anomalies_total", "stale_event")
  /\ IsSeries("anomalies_total", "invalid_terminal_transition")
  /\ IsSeries("database_write_duration", "insert_webhook_event")
  /\ IsSeries("database_write_duration", "insert_anomaly")
  /\ IsSeries("database_write_duration", "upsert_payment")
BY SeriesNamed DEF ServedStatuses, ErrorResults, ProcessingStatuses, IgnoreReasons, AnomalyTypes,
                   WriteOperations

-----------------------------------------------------------------------------

\* What a step adds to each series and to the goroutines at each location.
Added(counted) == [s \in Series |-> Bit(s \in counted)]

Moved(from, to) == [l \in Places |-> Bit(to = l) - Bit(from = l)]

\* The equations are linear: what balances still balances when something that
\* balances is added.
LEMMA BalanceAdds ==
  ASSUME NEW m, NEW n, NEW p, NEW at, NEW more, NEW all,
         \A name, label : IsSeries(name, label) =>
           /\ Value(p, name, label) = Value(m, name, label) + Value(n, name, label)
           /\ Value(m, name, label) \in Int /\ Value(n, name, label) \in Int,
         \A l \in Places : all[l] = at[l] + more[l] /\ at[l] \in Int /\ more[l] \in Int,
         Balances(m, at), Balances(n, more)
  PROVE  Balances(p, all)
<1>1. \A name, label : IsSeries(name, label) =>
        /\ Value(p, name, label) = Value(m, name, label) + Value(n, name, label)
        /\ Value(m, name, label) \in Int /\ Value(n, name, label) \in Int
        /\ Value(p, name, label) \in Int
  OBVIOUS
<1>2. \A l \in Places : all[l] = at[l] + more[l] /\ at[l] \in Int /\ more[l] \in Int
  OBVIOUS
<1>3. /\ Successes(p) = Successes(m) + Successes(n) /\ Successes(m) \in Int /\ Successes(n) \in Int
      /\ Errors(p) = Errors(m) + Errors(n) /\ Errors(m) \in Int /\ Errors(n) \in Int
      /\ Upserted(p) = Upserted(m) + Upserted(n) /\ Upserted(m) \in Int /\ Upserted(n) \in Int
      /\ Conflicting(p) = Conflicting(m) + Conflicting(n)
      /\ Conflicting(m) \in Int /\ Conflicting(n) \in Int
      /\ Detected(p) = Detected(m) + Detected(n) /\ Detected(m) \in Int /\ Detected(n) \in Int
  BY <1>1, SeriesSummed DEF Successes, Errors, Upserted, Conflicting, Detected
<1>4. /\ \A l \in {"insert", "record", "processed", "duplicate"} :
           all[l] = at[l] + more[l] /\ at[l] \in Int /\ more[l] \in Int
      /\ Accepted(all) = Accepted(at) + Accepted(more)
      /\ Accepted(at) \in Int /\ Accepted(more) \in Int
      /\ Busy(all) = Busy(at) + Busy(more) /\ Busy(at) \in Int /\ Busy(more) \in Int
  BY <1>2 DEF Places, Locations, Accepted, Busy
<1>6. /\ \A result \in ServedStatuses :
           Value(p, "response_duration", result) = Value(p, "success_total", result)
      /\ \A result \in ErrorResults :
           Value(p, "response_duration", result) = Value(p, "errors_total", result)
      /\ \A status \in ProcessingStatuses :
           Value(p, "processing_duration", status) = Value(p, "payment_processing_total", status)
  BY <1>1, SeriesNamed DEF Balances
<1>7. Value(p, "requests_total", "no_label") = Successes(p) + Errors(p) + Busy(all)
  <2>1. Value(p, "requests_total", "no_label") = Value(m, "requests_total", "no_label") + Value(n, "requests_total", "no_label")
    BY <1>1, SeriesNamed
  <2> QED
    BY <1>3, <1>4, <2>1 DEF Balances
<1>8. Value(p, "provider_events_total", "no_label") =
        Successes(p) + Value(p, "errors_total", "internal_error") + Accepted(all)
  BY <1>1, <1>3, <1>4, SeriesNamed, SeriesSummed DEF Balances
<1>9. /\ Value(p, "signature_failures_total", "no_label") = Value(p, "errors_total", "unauthorized")
      /\ Value(p, "duplicates_total", "no_label") = Value(p, "success_total", "duplicate") + all["duplicate"]
  BY <1>1, <1>4, SeriesNamed, SeriesSummed DEF Balances
<1>10. Upserted(p) + Value(p, "payment_processing_total", "ignored") =
         Value(p, "success_total", "processed") + all["processed"]
  <2>1. /\ Value(p, "payment_processing_total", "ignored") =
             Value(m, "payment_processing_total", "ignored")
               + Value(n, "payment_processing_total", "ignored")
        /\ Value(m, "payment_processing_total", "ignored") \in Int
        /\ Value(n, "payment_processing_total", "ignored") \in Int
    BY <1>1, SeriesSummed
  <2>2. /\ Value(p, "success_total", "processed") =
             Value(m, "success_total", "processed") + Value(n, "success_total", "processed")
        /\ Value(m, "success_total", "processed") \in Int
        /\ Value(n, "success_total", "processed") \in Int
    BY <1>1, SeriesSummed
  <2>3. /\ Upserted(m) + Value(m, "payment_processing_total", "ignored") =
             Value(m, "success_total", "processed") + at["processed"]
        /\ Upserted(n) + Value(n, "payment_processing_total", "ignored") =
             Value(n, "success_total", "processed") + more["processed"]
    BY DEF Balances
  <2> QED
    BY <1>3, <1>4, <2>1, <2>2, <2>3
<1>11. /\ Value(p, "payment_processing_total", "ignored") =
            Conflicting(p) + Value(p, "payment_ignored_total", "equal_timestamp")
       /\ Detected(p) = Conflicting(p) + all["record"]
  BY <1>1, <1>3, <1>4, SeriesSummed DEF Balances
<1>12. /\ Value(p, "database_write_duration", "insert_webhook_event") =
            Value(p, "provider_events_total", "no_label") - all["insert"]
       /\ Value(p, "database_write_duration", "insert_anomaly") = Conflicting(p)
  BY <1>1, <1>3, <1>4, SeriesNamed, SeriesSummed DEF Balances
<1>13. /\ Value(p, "database_write_duration", "upsert_payment") >= Upserted(p)
       /\ Value(p, "database_write_duration", "upsert_payment") <=
            Upserted(p) + Value(p, "payment_processing_total", "failed")
  BY <1>1, <1>3, SeriesSummed DEF Balances
<1> QED
  BY <1>6, <1>7, <1>8, <1>9, <1>10, <1>11, <1>12, <1>13 DEF Balances

\* So are the tallies.
LEMMA TalliesAdd ==
  ASSUME NEW m, NEW n, NEW p, NEW at, NEW more, NEW all,
         \A name, label : IsSeries(name, label) =>
           /\ Value(p, name, label) = Value(m, name, label) + Value(n, name, label)
           /\ Value(m, name, label) \in Int /\ Value(n, name, label) \in Int,
         \A l \in Places : all[l] = at[l] + more[l] /\ at[l] \in Int /\ more[l] \in Int,
         NEW w \in Int, NEW r \in Int, NEW s \in Int, NEW u \in Int, NEW v \in Int, NEW x \in Int,
         Tallies(m, at, w, r, s), Tallies(n, more, u, v, x)
  PROVE  Tallies(p, all, w + u, r + v, s + x)
<1>1. /\ all["insert"] = at["insert"] + more["insert"]
      /\ all["internal_error"] = at["internal_error"] + more["internal_error"]
      /\ at["insert"] \in Int /\ more["insert"] \in Int
      /\ at["internal_error"] \in Int /\ more["internal_error"] \in Int
  BY DEF Places, Locations
<1>2. \A name, label : IsSeries(name, label) =>
        /\ Value(p, name, label) = Value(m, name, label) + Value(n, name, label)
        /\ Value(m, name, label) \in Int /\ Value(n, name, label) \in Int
  OBVIOUS
<1>3. /\ Upserted(p) = Upserted(m) + Upserted(n)
      /\ Conflicting(p) = Conflicting(m) + Conflicting(n)
  BY <1>2, SeriesSummed DEF Upserted, Conflicting
<1>4. Upserted(p) = w + u /\ Conflicting(p) = r + v
  BY <1>3 DEF Tallies
<1>5. Value(p, "provider_events_total", "no_label") - Value(p, "duplicates_total", "no_label")
        + Value(p, "payment_processing_total", "failed") =
        (s + x) + all["insert"] + all["internal_error"] + Value(p, "errors_total", "internal_error")
  <2>1. /\ Value(m, "provider_events_total", "no_label") - Value(m, "duplicates_total", "no_label")
             + Value(m, "payment_processing_total", "failed") =
             s + at["insert"] + at["internal_error"] + Value(m, "errors_total", "internal_error")
        /\ Value(n, "provider_events_total", "no_label") - Value(n, "duplicates_total", "no_label")
             + Value(n, "payment_processing_total", "failed") =
             x + more["insert"] + more["internal_error"]
               + Value(n, "errors_total", "internal_error")
    BY DEF Tallies
  <2>2. /\ Value(p, "provider_events_total", "no_label") =
             Value(m, "provider_events_total", "no_label")
               + Value(n, "provider_events_total", "no_label")
        /\ Value(m, "provider_events_total", "no_label") \in Int
        /\ Value(n, "provider_events_total", "no_label") \in Int
    BY <1>2, SeriesNamed
  <2>3. /\ Value(p, "duplicates_total", "no_label") =
             Value(m, "duplicates_total", "no_label") + Value(n, "duplicates_total", "no_label")
        /\ Value(m, "duplicates_total", "no_label") \in Int
        /\ Value(n, "duplicates_total", "no_label") \in Int
    BY <1>2, SeriesNamed
  <2>4. /\ Value(p, "errors_total", "internal_error") =
             Value(m, "errors_total", "internal_error") + Value(n, "errors_total", "internal_error")
        /\ Value(m, "errors_total", "internal_error") \in Int
        /\ Value(n, "errors_total", "internal_error") \in Int
    BY <1>2, SeriesSummed
  <2>5. /\ Value(p, "payment_processing_total", "failed") =
             Value(m, "payment_processing_total", "failed")
               + Value(n, "payment_processing_total", "failed")
        /\ Value(m, "payment_processing_total", "failed") \in Int
        /\ Value(n, "payment_processing_total", "failed") \in Int
    BY <1>2, SeriesSummed
  <2> QED
    BY <1>1, <2>1, <2>2, <2>3, <2>4, <2>5
<1> QED
  BY <1>4, <1>5 DEF Tallies

\* What a step does to the series and to the goroutines at each location.
LEMMA StepCounts ==
  ASSUME TypeInv, CountedOK, MetricsEnabled,
         NEW h \in Handlers, NEW to \in Locations, Goto(h, to), NEW counted, Inc(counted)
  PROVE  /\ \A name, label : IsSeries(name, label) =>
              /\ Value(metrics', name, label) =
                   Value(metrics, name, label) + Value(Added(counted), name, label)
              /\ Value(metrics, name, label) \in Int
              /\ Value(Added(counted), name, label) \in Int
         /\ \A l \in Places :
              /\ At'[l] = At[l] + Moved(pc[h], to)[l]
              /\ At[l] \in Int /\ Moved(pc[h], to)[l] \in Int
<1>1. ASSUME NEW name, NEW label, IsSeries(name, label)
      PROVE  /\ Value(metrics', name, label) =
                  Value(metrics, name, label) + Value(Added(counted), name, label)
             /\ Value(metrics, name, label) \in Int /\ Value(Added(counted), name, label) \in Int
  <2> DEFINE s == <<name, label>>
  <2>1. s \in Series
    BY <1>1 DEF IsSeries
  <2> HIDE DEF s
  <2>2. metrics'[s] = metrics[s] + Added(counted)[s]
        /\ metrics[s] \in Int /\ Added(counted)[s] \in Int
    BY <2>1, IncCounts DEF TypeInv, TypeOK, Added, Bit
  <2> QED
    BY <2>2 DEF Value, s
<1>2. ASSUME NEW l \in Places
      PROVE  /\ At'[l] = At[l] + Moved(pc[h], to)[l]
             /\ At[l] \in Int /\ Moved(pc[h], to)[l] \in Int
  <2>1. At[l] \in Nat /\ At'[l] = At[l] + Bit(to = l) - Bit(pc[h] = l)
    BY MoveCounts
  <2> QED
    BY <2>1 DEF Moved, Bit
<1> QED
  BY <1>1, <1>2

\* A step that adds what balances keeps the balance.
LEMMA BalanceStep ==
  ASSUME TypeInv, CountedOK, MetricsBalance, MetricsEnabled,
         NEW h \in Handlers, NEW to \in Locations, Goto(h, to),
         NEW counted, Inc(counted), Balances(Added(counted), Moved(pc[h], to))
  PROVE  MetricsBalance'
<1>1. Balances(metrics', At')
  BY StepCounts, BalanceAdds DEF MetricsBalance
<1> QED
  BY <1>1 DEF MetricsBalance

Counts(counted, name, label) == <<name, label>> \in counted

\* What a step adds to a series is 1 or 0.
LEMMA AddedValue ==
  ASSUME NEW counted, NEW name, NEW label, IsSeries(name, label)
  PROVE  Value(Added(counted), name, label) = Bit(Counts(counted, name, label))
BY DEF Value, Added, IsSeries, Counts

-----------------------------------------------------------------------------

\* One lemma for what each kind of step counts: it balances and, but for the calls
\* that fail, tallies with the writes, anomalies and events it adds to the tables.
Adds(counted, from, to, writes, records, stored) ==
  /\ Balances(Added(counted), Moved(from, to))
  /\ Tallies(Added(counted), Moved(from, to), writes, records, stored)

\* A request that comes in is counted (IncWebhookRequest).
LEMMA ReceiveBalances ==
  Adds({<<"requests_total", "no_label">>}, "idle", "received", 0, 0, 0)
<1> DEFINE c == {<<"requests_total", "no_label">>}
           n == Added(c)
           at == Moved("idle", "received")
<1>1. \A name, label : Counts(c, name, label) <=>
          name = "requests_total" /\ label = "no_label"
  BY DEF Counts
<1> HIDE DEF c
<1>2. \A name, label : IsSeries(name, label) => Value(n, name, label) =
        IF name = "requests_total" /\ label = "no_label" THEN 1 ELSE 0
  BY <1>1, AddedValue DEF Bit
<1>3. \A l \in Places : at[l] = IF l = "received" THEN 1 ELSE 0
  BY DEF Moved, Bit, Places, Locations
<1> HIDE DEF n, at
<1>4. Balances(n, at)
  BY <1>2, <1>3, SeriesNamed, SeriesSummed
  DEF Balances, Successes, Errors, Upserted, Conflicting, Detected, Busy, Accepted,
      Places, Locations, ServedStatuses, AnomalyTypes
<1>5. Tallies(n, at, 0, 0, 0)
  BY <1>2, <1>3, SeriesSummed, SeriesNamed
  DEF Tallies, Upserted, Conflicting, Places, Locations, Bit
<1> QED
  BY <1>4, <1>5 DEF Adds, c, n, at

\* A request turned away is counted and timed under its reason.
LEMMA RefusalBalances ==
  ASSUME NEW result \in {"method_not_allowed", "invalid_payload"}
  PROVE  Adds(Erred(result), "received", "idle", 0, 0, 0)
<1> DEFINE c == Erred(result)
           n == Added(c)
           at == Moved("received", "idle")
<1>1. \A name, label : Counts(c, name, label) <=>
          (name = "errors_total" \/ name = "response_duration") /\ label = result
  BY DEF Counts, Erred
<1> HIDE DEF c
<1>2. \A name, label : IsSeries(name, label) => Value(n, name, label) =
        IF (name = "errors_total" \/ name = "response_duration") /\ label = result
          THEN 1 ELSE 0
  BY <1>1, AddedValue DEF Bit
<1>3. \A l \in Places : at[l] = IF l = "received" THEN -1 ELSE 0
  BY DEF Moved, Bit, Places, Locations
<1> HIDE DEF n, at
<1>4. Balances(n, at)
  BY <1>2, <1>3, SeriesNamed, SeriesSummed
  DEF Balances, Successes, Errors, Upserted, Conflicting, Detected, Busy, Accepted,
      Places, Locations, ServedStatuses, AnomalyTypes
<1>5. Tallies(n, at, 0, 0, 0)
  BY <1>2, <1>3, SeriesSummed, SeriesNamed
  DEF Tallies, Upserted, Conflicting, Places, Locations, Bit
<1> QED
  BY <1>4, <1>5 DEF Adds, c, n, at

\* A bad signature is counted as an error and as a signature failure.
LEMMA SignatureBalances ==
  Adds(SignatureFailure, "received", "idle", 0, 0, 0)
<1> DEFINE c == SignatureFailure
           n == Added(c)
           at == Moved("received", "idle")
<1>1. \A name, label : Counts(c, name, label) <=>
          \/ name = "signature_failures_total" /\ label = "no_label"
          \/ (name = "errors_total" \/ name = "response_duration") /\ label = "unauthorized"
  BY DEF Counts, SignatureFailure, Erred
<1> HIDE DEF c
<1>2. \A name, label : IsSeries(name, label) => Value(n, name, label) =
        IF \/ name = "signature_failures_total" /\ label = "no_label"
           \/ (name = "errors_total" \/ name = "response_duration") /\ label = "unauthorized"
          THEN 1 ELSE 0
  BY <1>1, AddedValue DEF Bit
<1>3. \A l \in Places : at[l] = IF l = "received" THEN -1 ELSE 0
  BY DEF Moved, Bit, Places, Locations
<1> HIDE DEF n, at
<1>4. Balances(n, at)
  BY <1>2, <1>3, SeriesNamed, SeriesSummed
  DEF Balances, Successes, Errors, Upserted, Conflicting, Detected, Busy, Accepted,
      Places, Locations, ServedStatuses, AnomalyTypes
<1>5. Tallies(n, at, 0, 0, 0)
  BY <1>2, <1>3, SeriesSummed, SeriesNamed
  DEF Tallies, Upserted, Conflicting, Places, Locations, Bit
<1> QED
  BY <1>4, <1>5 DEF Adds, c, n, at

\* An event that reaches IdempotencyService.Process is counted.
LEMMA AcceptBalances ==
  Adds({<<"provider_events_total", "no_label">>}, "received", "insert", 0, 0, 0)
<1> DEFINE c == {<<"provider_events_total", "no_label">>}
           n == Added(c)
           at == Moved("received", "insert")
<1>1. \A name, label : Counts(c, name, label) <=>
          name = "provider_events_total" /\ label = "no_label"
  BY DEF Counts
<1> HIDE DEF c
<1>2. \A name, label : IsSeries(name, label) => Value(n, name, label) =
        IF name = "provider_events_total" /\ label = "no_label" THEN 1 ELSE 0
  BY <1>1, AddedValue DEF Bit
<1>3. \A l \in Places : at[l] = IF l = "received" THEN -1 ELSE IF l = "insert" THEN 1 ELSE 0
  BY DEF Moved, Bit, Places, Locations
<1> HIDE DEF n, at
<1>4. Balances(n, at)
  BY <1>2, <1>3, SeriesNamed, SeriesSummed
  DEF Balances, Successes, Errors, Upserted, Conflicting, Detected, Busy, Accepted,
      Places, Locations, ServedStatuses, AnomalyTypes
<1>5. Tallies(n, at, 0, 0, 0)
  BY <1>2, <1>3, SeriesSummed, SeriesNamed
  DEF Tallies, Upserted, Conflicting, Places, Locations, Bit
<1> QED
  BY <1>4, <1>5 DEF Adds, c, n, at

\* The insert is timed, whether it succeeds, is refused or fails.
LEMMA InsertBalances ==
  ASSUME NEW to \in {"get", "internal_error"}
  PROVE  Adds({<<"database_write_duration", "insert_webhook_event">>},
              "insert", to, 0, 0, Bit(to = "get"))
<1> DEFINE c == {<<"database_write_duration", "insert_webhook_event">>}
           n == Added(c)
           at == Moved("insert", to)
<1>1. \A name, label : Counts(c, name, label) <=>
          name = "database_write_duration" /\ label = "insert_webhook_event"
  BY DEF Counts
<1> HIDE DEF c
<1>2. \A name, label : IsSeries(name, label) => Value(n, name, label) =
        IF name = "database_write_duration" /\ label = "insert_webhook_event" THEN 1 ELSE 0
  BY <1>1, AddedValue DEF Bit
<1>3. \A l \in Places : at[l] = IF l = "insert" THEN -1 ELSE IF l = to THEN 1 ELSE 0
  BY DEF Moved, Bit, Places, Locations
<1> HIDE DEF n, at
<1>4. Balances(n, at)
  BY <1>2, <1>3, SeriesNamed, SeriesSummed
  DEF Balances, Successes, Errors, Upserted, Conflicting, Detected, Busy, Accepted,
      Places, Locations, ServedStatuses, AnomalyTypes
<1>5. Tallies(n, at, 0, 0, Bit(to = "get"))
  BY <1>2, <1>3, SeriesSummed, SeriesNamed
  DEF Tallies, Upserted, Conflicting, Places, Locations, Bit
<1> QED
  BY <1>4, <1>5 DEF Adds, c, n, at

\* A duplicate is counted, and its insert timed.
LEMMA DuplicateBalances ==
  Adds({<<"duplicates_total", "no_label">>, <<"database_write_duration", "insert_webhook_event">>},
       "insert", "duplicate", 0, 0, 0)
<1> DEFINE c == {<<"duplicates_total", "no_label">>,
                 <<"database_write_duration", "insert_webhook_event">>}
           n == Added(c)
           at == Moved("insert", "duplicate")
<1>1. \A name, label : Counts(c, name, label) <=>
          \/ name = "duplicates_total" /\ label = "no_label"
          \/ name = "database_write_duration" /\ label = "insert_webhook_event"
  BY DEF Counts
<1> HIDE DEF c
<1>2. \A name, label : IsSeries(name, label) => Value(n, name, label) =
        IF \/ name = "duplicates_total" /\ label = "no_label"
           \/ name = "database_write_duration" /\ label = "insert_webhook_event"
          THEN 1 ELSE 0
  BY <1>1, AddedValue DEF Bit
<1>3. \A l \in Places : at[l] = IF l = "insert" THEN -1 ELSE IF l = "duplicate" THEN 1 ELSE 0
  BY DEF Moved, Bit, Places, Locations
<1> HIDE DEF n, at
<1>4. Balances(n, at)
  BY <1>2, <1>3, SeriesNamed, SeriesSummed
  DEF Balances, Successes, Errors, Upserted, Conflicting, Detected, Busy, Accepted,
      Places, Locations, ServedStatuses, AnomalyTypes
<1>5. Tallies(n, at, 0, 0, 0)
  BY <1>2, <1>3, SeriesSummed, SeriesNamed
  DEF Tallies, Upserted, Conflicting, Places, Locations, Bit
<1> QED
  BY <1>4, <1>5 DEF Adds, c, n, at

\* A read that leads to a write counts nothing.
LEMMA WriteBalances ==
  Adds({}, "get", "upsert", 0, 0, 0)
<1> DEFINE c == {}
           n == Added(c)
           at == Moved("get", "upsert")
<1>1. \A name, label : Counts(c, name, label) <=>
          FALSE
  BY DEF Counts
<1> HIDE DEF c
<1>2. \A name, label : IsSeries(name, label) => Value(n, name, label) =
        IF FALSE THEN 1 ELSE 0
  BY <1>1, AddedValue DEF Bit
<1>3. \A l \in Places : at[l] = IF l = "get" THEN -1 ELSE IF l = "upsert" THEN 1 ELSE 0
  BY DEF Moved, Bit, Places, Locations
<1> HIDE DEF n, at
<1>4. Balances(n, at)
  BY <1>2, <1>3, SeriesNamed, SeriesSummed
  DEF Balances, Successes, Errors, Upserted, Conflicting, Detected, Busy, Accepted,
      Places, Locations, ServedStatuses, AnomalyTypes
<1>5. Tallies(n, at, 0, 0, 0)
  BY <1>2, <1>3, SeriesSummed, SeriesNamed
  DEF Tallies, Upserted, Conflicting, Places, Locations, Bit
<1> QED
  BY <1>4, <1>5 DEF Adds, c, n, at

\* A detected anomaly is counted before it is recorded.
LEMMA AnomalyBalances ==
  ASSUME NEW type \in AnomalyTypes
  PROVE  Adds({<<"anomalies_total", type>>}, "get", "record", 0, 0, 0)
<1> DEFINE c == {<<"anomalies_total", type>>}
           n == Added(c)
           at == Moved("get", "record")
<1>1. \A name, label : Counts(c, name, label) <=>
          name = "anomalies_total" /\ label = type
  BY DEF Counts
<1> HIDE DEF c
<1>2. \A name, label : IsSeries(name, label) => Value(n, name, label) =
        IF name = "anomalies_total" /\ label = type THEN 1 ELSE 0
  BY <1>1, AddedValue DEF Bit
<1>3. \A l \in Places : at[l] = IF l = "get" THEN -1 ELSE IF l = "record" THEN 1 ELSE 0
  BY DEF Moved, Bit, Places, Locations
<1> HIDE DEF n, at
<1>4. Balances(n, at)
  BY <1>2, <1>3, SeriesNamed, SeriesSummed
  DEF Balances, Successes, Errors, Upserted, Conflicting, Detected, Busy, Accepted,
      Places, Locations, ServedStatuses, AnomalyTypes
<1>5. Tallies(n, at, 0, 0, 0)
  BY <1>2, <1>3, SeriesSummed, SeriesNamed
  DEF Tallies, Upserted, Conflicting, Places, Locations, Bit
<1> QED
  BY <1>4, <1>5 DEF Adds, c, n, at

\* An event as old as the row is ignored for that reason.
LEMMA EqualBalances ==
  Adds({<<"payment_ignored_total", "equal_timestamp">>} \cup Outcome("ignored"),
       "get", "processed", 0, 0, 0)
<1> DEFINE c == {<<"payment_ignored_total", "equal_timestamp">>} \cup Outcome("ignored")
           n == Added(c)
           at == Moved("get", "processed")
<1>1. \A name, label : Counts(c, name, label) <=>
          \/ name = "payment_ignored_total" /\ label = "equal_timestamp"
          \/ (name = "payment_processing_total" \/ name = "processing_duration") /\ label = "ignored"
  BY DEF Counts, Outcome
<1> HIDE DEF c
<1>2. \A name, label : IsSeries(name, label) => Value(n, name, label) =
        IF \/ name = "payment_ignored_total" /\ label = "equal_timestamp"
           \/ (name = "payment_processing_total" \/ name = "processing_duration") /\ label = "ignored"
          THEN 1 ELSE 0
  BY <1>1, AddedValue DEF Bit
<1>3. \A l \in Places : at[l] = IF l = "get" THEN -1 ELSE IF l = "processed" THEN 1 ELSE 0
  BY DEF Moved, Bit, Places, Locations
<1> HIDE DEF n, at
<1>4. Balances(n, at)
  BY <1>2, <1>3, SeriesNamed, SeriesSummed
  DEF Balances, Successes, Errors, Upserted, Conflicting, Detected, Busy, Accepted,
      Places, Locations, ServedStatuses, AnomalyTypes
<1>5. Tallies(n, at, 0, 0, 0)
  BY <1>2, <1>3, SeriesSummed, SeriesNamed
  DEF Tallies, Upserted, Conflicting, Places, Locations, Bit
<1> QED
  BY <1>4, <1>5 DEF Adds, c, n, at

\* An event with an anomaly is ignored after its record, which is timed.
LEMMA RecordBalances ==
  ASSUME NEW reason \in {"older_timestamp", "invalid_terminal_transition"}
  PROVE  Adds({<<"payment_ignored_total", reason>>, <<"database_write_duration", "insert_anomaly">>}
                \cup Outcome("ignored"),
              "record", "processed", 0, 1, 0)
<1> DEFINE c == {<<"payment_ignored_total", reason>>,
                 <<"database_write_duration", "insert_anomaly">>}
                  \cup Outcome("ignored")
           n == Added(c)
           at == Moved("record", "processed")
<1>1. \A name, label : Counts(c, name, label) <=>
          \/ name = "payment_ignored_total" /\ label = reason
          \/ name = "database_write_duration" /\ label = "insert_anomaly"
          \/ (name = "payment_processing_total" \/ name = "processing_duration") /\ label = "ignored"
  BY DEF Counts, Outcome
<1> HIDE DEF c
<1>2. \A name, label : IsSeries(name, label) => Value(n, name, label) =
        IF \/ name = "payment_ignored_total" /\ label = reason
           \/ name = "database_write_duration" /\ label = "insert_anomaly"
           \/ (name = "payment_processing_total" \/ name = "processing_duration") /\ label = "ignored"
          THEN 1 ELSE 0
  BY <1>1, AddedValue DEF Bit
<1>3. \A l \in Places : at[l] = IF l = "record" THEN -1 ELSE IF l = "processed" THEN 1 ELSE 0
  BY DEF Moved, Bit, Places, Locations
<1> HIDE DEF n, at
<1>4. Balances(n, at)
  BY <1>2, <1>3, SeriesNamed, SeriesSummed
  DEF Balances, Successes, Errors, Upserted, Conflicting, Detected, Busy, Accepted,
      Places, Locations, ServedStatuses, AnomalyTypes
<1>5. Tallies(n, at, 0, 1, 0)
  BY <1>2, <1>3, SeriesSummed, SeriesNamed
  DEF Tallies, Upserted, Conflicting, Places, Locations, Bit
<1> QED
  BY <1>4, <1>5 DEF Adds, c, n, at

\* A write is counted as created or updated, and timed.
LEMMA UpsertBalances ==
  ASSUME NEW status \in {"created", "updated"}
  PROVE  Adds({<<"database_write_duration", "upsert_payment">>} \cup Outcome(status),
              "upsert", "processed", 1, 0, 0)
<1> DEFINE c == {<<"database_write_duration", "upsert_payment">>} \cup Outcome(status)
           n == Added(c)
           at == Moved("upsert", "processed")
<1>1. \A name, label : Counts(c, name, label) <=>
          \/ name = "database_write_duration" /\ label = "upsert_payment"
          \/ (name = "payment_processing_total" \/ name = "processing_duration") /\ label = status
  BY DEF Counts, Outcome
<1> HIDE DEF c
<1>2. \A name, label : IsSeries(name, label) => Value(n, name, label) =
        IF \/ name = "database_write_duration" /\ label = "upsert_payment"
           \/ (name = "payment_processing_total" \/ name = "processing_duration") /\ label = status
          THEN 1 ELSE 0
  BY <1>1, AddedValue DEF Bit
<1>3. \A l \in Places : at[l] = IF l = "upsert" THEN -1 ELSE IF l = "processed" THEN 1 ELSE 0
  BY DEF Moved, Bit, Places, Locations
<1> HIDE DEF n, at
<1>4. Balances(n, at)
  BY <1>2, <1>3, SeriesNamed, SeriesSummed
  DEF Balances, Successes, Errors, Upserted, Conflicting, Detected, Busy, Accepted,
      Places, Locations, ServedStatuses, AnomalyTypes
<1>5. Tallies(n, at, 1, 0, 0)
  BY <1>2, <1>3, SeriesSummed, SeriesNamed
  DEF Tallies, Upserted, Conflicting, Places, Locations, Bit
<1> QED
  BY <1>4, <1>5 DEF Adds, c, n, at

\* A read that fails makes the outcome failed.
LEMMA GetFailureBalances ==
  Balances(Added(Outcome("failed")), Moved("get", "internal_error"))
<1> DEFINE c == Outcome("failed")
           n == Added(c)
           at == Moved("get", "internal_error")
<1>1. \A name, label : Counts(c, name, label) <=>
          (name = "payment_processing_total" \/ name = "processing_duration") /\ label = "failed"
  BY DEF Counts, Outcome
<1> HIDE DEF c
<1>2. \A name, label : IsSeries(name, label) => Value(n, name, label) =
        IF (name = "payment_processing_total" \/ name = "processing_duration") /\ label = "failed"
          THEN 1 ELSE 0
  BY <1>1, AddedValue DEF Bit
<1>3. \A l \in Places : at[l] = IF l = "get" THEN -1 ELSE IF l = "internal_error" THEN 1 ELSE 0
  BY DEF Moved, Bit, Places, Locations
<1> HIDE DEF n, at
<1>4. Balances(n, at)
  BY <1>2, <1>3, SeriesNamed, SeriesSummed
  DEF Balances, Successes, Errors, Upserted, Conflicting, Detected, Busy, Accepted,
      Places, Locations, ServedStatuses, AnomalyTypes
<1> QED
  BY <1>4 DEF c, n, at

\* So does a write that fails, or is refused, which is timed all the same.
LEMMA UpsertFailureBalances ==
  Adds({<<"database_write_duration", "upsert_payment">>} \cup Outcome("failed"),
       "upsert", "internal_error", 0, 0, 0)
<1> DEFINE c == {<<"database_write_duration", "upsert_payment">>} \cup Outcome("failed")
           n == Added(c)
           at == Moved("upsert", "internal_error")
<1>1. \A name, label : Counts(c, name, label) <=>
          \/ name = "database_write_duration" /\ label = "upsert_payment"
          \/ (name = "payment_processing_total" \/ name = "processing_duration") /\ label = "failed"
  BY DEF Counts, Outcome
<1> HIDE DEF c
<1>2. \A name, label : IsSeries(name, label) => Value(n, name, label) =
        IF \/ name = "database_write_duration" /\ label = "upsert_payment"
           \/ (name = "payment_processing_total" \/ name = "processing_duration") /\ label = "failed"
          THEN 1 ELSE 0
  BY <1>1, AddedValue DEF Bit
<1>3. \A l \in Places : at[l] = IF l = "upsert" THEN -1 ELSE IF l = "internal_error" THEN 1 ELSE 0
  BY DEF Moved, Bit, Places, Locations
<1> HIDE DEF n, at
<1>4. Balances(n, at)
  BY <1>2, <1>3, SeriesNamed, SeriesSummed
  DEF Balances, Successes, Errors, Upserted, Conflicting, Detected, Busy, Accepted,
      Places, Locations, ServedStatuses, AnomalyTypes
<1>5. Tallies(n, at, 0, 0, 0)
  BY <1>2, <1>3, SeriesSummed, SeriesNamed
  DEF Tallies, Upserted, Conflicting, Places, Locations, Bit
<1> QED
  BY <1>4, <1>5 DEF Adds, c, n, at

\* A request that is served is counted and timed under its result.
LEMMA ServedBalances ==
  ASSUME NEW result \in ServedStatuses
  PROVE  Adds(Succeeded(result), result, "idle", 0, 0, 0)
<1> DEFINE c == Succeeded(result)
           n == Added(c)
           at == Moved(result, "idle")
<1>1. \A name, label : Counts(c, name, label) <=>
          (name = "success_total" \/ name = "response_duration") /\ label = result
  BY DEF Counts, Succeeded
<1> HIDE DEF c
<1>2. \A name, label : IsSeries(name, label) => Value(n, name, label) =
        IF (name = "success_total" \/ name = "response_duration") /\ label = result
          THEN 1 ELSE 0
  BY <1>1, AddedValue DEF Bit
<1>3. \A l \in Places : at[l] = IF l = result THEN -1 ELSE 0
  BY DEF Moved, Bit, Places, Locations, ServedStatuses
<1> HIDE DEF n, at
<1>4. Balances(n, at)
  BY <1>2, <1>3, SeriesNamed, SeriesSummed
  DEF Balances, Successes, Errors, Upserted, Conflicting, Detected, Busy, Accepted,
      Places, Locations, ServedStatuses, ErrorResults, AnomalyTypes
<1>5. Tallies(n, at, 0, 0, 0)
  BY <1>2, <1>3, SeriesSummed, SeriesNamed
  DEF Tallies, Upserted, Conflicting, Places, Locations, Bit, ServedStatuses
<1> QED
  BY <1>4, <1>5 DEF Adds, c, n, at

\* An error from the service is counted and timed under its name.
LEMMA ErrorBalances ==
  Adds(Erred("internal_error"), "internal_error", "idle", 0, 0, 0)
<1> DEFINE c == Erred("internal_error")
           n == Added(c)
           at == Moved("internal_error", "idle")
<1>1. \A name, label : Counts(c, name, label) <=>
          (name = "errors_total" \/ name = "response_duration") /\ label = "internal_error"
  BY DEF Counts, Erred
<1> HIDE DEF c
<1>2. \A name, label : IsSeries(name, label) => Value(n, name, label) =
        IF (name = "errors_total" \/ name = "response_duration") /\ label = "internal_error"
          THEN 1 ELSE 0
  BY <1>1, AddedValue DEF Bit
<1>3. \A l \in Places : at[l] = IF l = "internal_error" THEN -1 ELSE 0
  BY DEF Moved, Bit, Places, Locations
<1> HIDE DEF n, at
<1>4. Balances(n, at)
  BY <1>2, <1>3, SeriesNamed, SeriesSummed
  DEF Balances, Successes, Errors, Upserted, Conflicting, Detected, Busy, Accepted,
      Places, Locations, ServedStatuses, AnomalyTypes
<1>5. Tallies(n, at, 0, 0, 0)
  BY <1>2, <1>3, SeriesSummed, SeriesNamed
  DEF Tallies, Upserted, Conflicting, Places, Locations, Bit
<1> QED
  BY <1>4, <1>5 DEF Adds, c, n, at

-----------------------------------------------------------------------------

\* A step that counts what it does to the tables, and its goroutine's move.
Counted(h, to, counted, writes, records, stored) ==
  /\ Goto(h, to)
  /\ Inc(counted)
  /\ Adds(counted, pc[h], to, writes, records, stored)
  /\ Len(applied') = Len(applied) + writes
  /\ Len(anomalies') = Len(anomalies) + records
  /\ Len(webhookEvents') = Len(webhookEvents) + stored

\* Such a step keeps both properties.
LEMMA CountedKeeps ==
  ASSUME TypeInv, CountedOK, MetricsBalance, MetricsMatchTables, MetricsEnabled,
         NEW h \in Handlers, NEW to \in Locations, NEW counted,
         NEW w \in Nat, NEW r \in Nat, NEW s \in Nat,
         Counted(h, to, counted, w, r, s), UNCHANGED faults
  PROVE  MetricsBalance' /\ MetricsMatchTables'
<1>1. MetricsBalance'
  BY BalanceStep DEF Counted, Adds
<1>2. ASSUME faults = 0
      PROVE  Tallies(metrics', At', Len(applied'), Len(anomalies'), Len(webhookEvents'))
  <2>1. Len(applied) \in Int /\ Len(anomalies) \in Int /\ Len(webhookEvents) \in Int
    BY DEF TypeInv, TypeOK, StoreTypeOK
  <2>2. /\ Tallies(metrics, At, Len(applied), Len(anomalies), Len(webhookEvents))
        /\ Tallies(Added(counted), Moved(pc[h], to), w, r, s)
    BY <1>2 DEF MetricsMatchTables, Counted, Adds
  <2>3. Tallies(metrics', At', Len(applied) + w, Len(anomalies) + r, Len(webhookEvents) + s)
    BY <2>1, <2>2, StepCounts, TalliesAdd DEF Counted
  <2> QED
    BY <2>3 DEF Counted
<1> QED
  BY <1>1, <1>2 DEF MetricsMatchTables

\* The timer of a write observes the one write the goroutine is at.
LEMMA TimedIs ==
  ASSUME TypeInv, CountedOK, NEW h \in Handlers
  PROVE  /\ pc[h] = "insert" => Timed(h) = {<<"database_write_duration", "insert_webhook_event">>}
         /\ pc[h] = "record" => Timed(h) = {<<"database_write_duration", "insert_anomaly">>}
         /\ pc[h] = "upsert" => Timed(h) = {<<"database_write_duration", "upsert_payment">>}
         /\ pc[h] = "get" => Timed(h) = {}
<1>1. CASE pc[h] = "insert"
  <2>1. {statement.op : statement \in WritesOf(h)} = {"insert_webhook_event"}
    BY <1>1 DEF WritesOf
  <2> QED
    BY <1>1, <2>1 DEF Timed
<1>2. CASE pc[h] = "record"
  <2>1. DetectedTypes(current[h], update[h].Event) # {}
    BY <1>2 DEF CountedOK
  <2>2. {statement.op : statement \in WritesOf(h)} = {"insert_anomaly"}
    <3> DEFINE D == DetectAnomalies(current[h], update[h].Event, update[h].WebhookEventID)
    <3>1. D # {}
      BY <2>1 DEF DetectAnomalies
    <3>2. WritesOf(h) = {[op |-> "insert_anomaly", anomaly |-> a] : a \in D}
      BY <1>2 DEF WritesOf
    <3> HIDE DEF D
    <3>3. \A statement \in WritesOf(h) : statement.op = "insert_anomaly"
      BY <3>2
    <3>4. WritesOf(h) # {}
      BY <3>1, <3>2
    <3> QED
      BY <3>3, <3>4
  <2> QED
    BY <1>2, <2>2 DEF Timed
<1>3. CASE pc[h] = "upsert"
  <2>1. {statement.op : statement \in WritesOf(h)} = {"upsert_payment"}
    BY <1>3 DEF WritesOf
  <2> QED
    BY <1>3, <2>1 DEF Timed
<1>4. CASE pc[h] = "get"
  <2>1. {statement.op : statement \in WritesOf(h)} = {}
    BY <1>4 DEF WritesOf
  <2> QED
    BY <1>4, <2>1 DEF Timed
<1> QED
  BY <1>1, <1>2, <1>3, <1>4

\* The reason an event is ignored for and the anomaly detected go together.
LEMMA ReasonAndAnomaly ==
  ASSUME NEW row \in Payments, NEW event \in PaymentEvents
  PROVE  /\ DetectedTypes(row, event) # {} =>
              /\ IgnoreReason(event, row) \in {"older_timestamp", "invalid_terminal_transition"}
              /\ \E type \in AnomalyTypes : DetectedTypes(row, event) = {type}
         /\ DetectedTypes(row, event) = {} /\ ~Advances(event, row) =>
              IgnoreReason(event, row) = "equal_timestamp"
<1>1. event.EventTimestamp \in Nat /\ row.StatusTimestamp \in Nat
  BY DEF PaymentEvents, Payments
<1> QED
  BY <1>1 DEF DetectedTypes, IgnoreReason, Advances, Before, After, AnomalyTypes

\* A statement that commits adds one row where it writes.
LEMMA CommitLens ==
  ASSUME StoreTypeOK, NEW statement \in Statements, Commit(statement)
  PROVE  /\ Len(applied') = Len(applied) + Bit(statement.op = "upsert_payment")
         /\ Len(anomalies') = Len(anomalies) + Bit(statement.op = "insert_anomaly")
         /\ Len(webhookEvents') = Len(webhookEvents) + Bit(statement.op = "insert_webhook_event")
<1>1. applied \in Seq(Versions) /\ anomalies \in Seq(Anomalies) /\ webhookEvents \in Seq(PaymentEvents)
  BY DEF StoreTypeOK
<1>2. CASE statement.op = "insert_webhook_event"
  <2>1. /\ webhookEvents' = Append(webhookEvents, WebhookEventRow(statement.event))
        /\ UNCHANGED <<anomalies, applied>>
    BY <1>2 DEF Commit, InsertWebhookEvent
  <2>2. WebhookEventRow(statement.event) \in PaymentEvents
    BY <1>2, RowTypes DEF Statements
  <2> QED
    BY <1>1, <1>2, <2>1, <2>2 DEF Bit
<1>3. CASE statement.op = "upsert_payment"
  <2>1. /\ UNCHANGED <<webhookEvents, anomalies>>
        /\ applied' = Append(applied, [payment |-> PaymentRow(statement.payment),
                                       by |-> statement.by, over |-> statement.over])
    BY <1>3 DEF Commit, UpsertPayment
  <2>2. PaymentRow(statement.payment) \in Payments /\ statement.by \in Nat /\ statement.over \in Nat
    BY <1>3, RowTypes DEF Statements
  <2>3. [payment |-> PaymentRow(statement.payment), by |-> statement.by, over |-> statement.over]
          \in Versions
    BY <2>2 DEF Versions
  <2> QED
    BY <1>1, <1>3, <2>1, <2>3 DEF Bit
<1>4. CASE statement.op = "insert_anomaly"
  <2>1. anomalies' = Append(anomalies, statement.anomaly) /\ UNCHANGED <<webhookEvents, applied>>
    BY <1>4 DEF Commit, InsertAnomaly
  <2>2. statement.anomaly \in Anomalies
    BY <1>4 DEF Statements
  <2> QED
    BY <1>1, <1>4, <2>1, <2>2 DEF Bit
<1> QED
  BY <1>2, <1>3, <1>4 DEF Statements

-----------------------------------------------------------------------------

\* A goroutine that moves leaves the others what they had, and comes to "record"
\* with an anomaly only.
LEMMA CountedMove ==
  ASSUME TypeInv, CountedOK, NEW h \in Handlers, NEW to \in Locations, Goto(h, to),
         \A g \in Handlers \ {h} : current'[g] = current[g] /\ update'[g] = update[g],
         to = "record" => DetectedTypes(current'[h], update'[h].Event) # {}
  PROVE  CountedOK'
<1> DEFINE S == {g \in Handlers : pc[g] # "idle"}
           T == {g \in Handlers : pc'[g] # "idle"}
<1>1. pc' = [pc EXCEPT ![h] = to] /\ pc \in [Handlers -> Locations]
  BY DEF Goto, TypeInv, TypeOK
<1>2. IsFiniteSet(S \cup {h})
  BY FS_AddElement DEF CountedOK
<1>3. T \subseteq S \cup {h}
  BY <1>1
<1>4. IsFiniteSet(T)
  BY <1>2, <1>3, FS_Subset
<1>5. ASSUME NEW g \in Handlers, pc'[g] = "record"
      PROVE  DetectedTypes(current'[g], update'[g].Event) # {}
  BY <1>1, <1>5 DEF CountedOK
<1> QED
  BY <1>4, <1>5 DEF CountedOK

\* Nobody is counted at a place he is not, and none is recorded without a cause.
LEMMA NextCounted == TypeInv /\ CountedOK /\ [Next]_vars => CountedOK'
<1> SUFFICES ASSUME TypeInv, CountedOK, [Next]_vars PROVE CountedOK'
  OBVIOUS
<1>1. ASSUME NEW h \in Handlers, NEW r \in Requests, Receive(h, r) PROVE CountedOK'
  BY <1>1, CountedMove DEF Receive, Locations
<1>2. ASSUME NEW h \in Handlers, Finish(h) PROVE CountedOK'
  BY <1>2, CountedMove DEF Finish, Locations, TypeInv, TypeOK
<1>3. ASSUME NEW h \in Handlers,
             NEW to \in {"insert", "get", "duplicate", "internal_error", "processed"}, Goto(h, to),
             \A g \in Handlers \ {h} : current'[g] = current[g] /\ update'[g] = update[g]
      PROVE  CountedOK'
  BY <1>3, CountedMove DEF Locations
<1>4. ASSUME NEW h \in Handlers, Reject(h) \/ RespondOK(h) \/ RespondError(h) PROVE CountedOK'
  BY <1>2, <1>4 DEF Reject, RejectMethod, RejectBody, RejectSignature, RejectPayload, RejectWith,
                    RespondOK, RespondError
<1>5. ASSUME NEW h \in Handlers,
             Accept(h) \/ InsertEvent(h) \/ InsertDuplicate(h) \/ InsertRejected(h) \/ UpsertRejected(h)
      PROVE  CountedOK'
  BY <1>3, <1>5 DEF Accept, InsertEvent, InsertDuplicate, AnswerDuplicate, InsertRejected,
                    UpsertRejected, AfterError,
                    TypeInv, TypeOK
<1>6. ASSUME NEW h \in Handlers, GetPayment(h) PROVE CountedOK'
  <2>1. \A g \in Handlers \ {h} : current'[g] = current[g] /\ update'[g] = update[g]
    BY <1>6 DEF GetPayment, GetPaymentToCreate, GetPaymentToUpdate, GetPaymentWithAnomaly,
                GetPaymentEqual, ReadPayment, TypeInv, TypeOK
  <2>2. CASE GetPaymentWithAnomaly(h)
    <3>1. update' = update /\ DetectedTypes(current'[h], update[h].Event) # {} /\ Goto(h, "record")
      BY <2>2 DEF GetPaymentWithAnomaly, ReadPayment
    <3> QED
      BY <2>1, <3>1, CountedMove DEF Locations
  <2>3. CASE GetPaymentToCreate(h) \/ GetPaymentToUpdate(h) \/ GetPaymentEqual(h)
    BY <2>1, <2>3, CountedMove
    DEF GetPaymentToCreate, GetPaymentToUpdate, GetPaymentEqual, Ignore, Locations
  <2> QED
    BY <1>6, <2>2, <2>3 DEF GetPayment
<1>7. ASSUME NEW h \in Handlers,
             RecordAnomaly(h) \/ UpsertState(h) \/ CallFails(h) \/ RecordFails(h)
      PROVE  CountedOK'
  BY <1>3, <1>7 DEF RecordAnomaly, AfterRecord, Ignore, UpsertState, CallFails, AfterError,
                    RecordFails
<1>8. ASSUME NEW h \in Handlers, Disconnect(h) PROVE CountedOK'
  BY <1>8 DEF Disconnect, CountedOK
<1>9. ASSUME Crash PROVE CountedOK'
  <2>1. {h \in Handlers : pc'[h] # "idle"} = {}
    BY <1>9 DEF Crash
  <2>2. \A h \in Handlers : pc'[h] # "record"
    BY <1>9 DEF Crash
  <2> QED
    BY <2>1, <2>2, FS_EmptySet DEF CountedOK
<1>10. ASSUME Late PROVE CountedOK'
  BY <1>10 DEF Late, localVars, CountedOK
<1>11. CASE UNCHANGED vars
  BY <1>11 DEF vars, localVars, CountedOK
<1> QED
  BY <1>1, <1>4, <1>5, <1>6, <1>7, <1>8, <1>9, <1>10, <1>11
  DEF Next, Advance, BodyEnds, CallReturns, Respond

-----------------------------------------------------------------------------

\* A step that leaves the tables alone leaves their lengths alone.
LEMMA SameLens ==
  ASSUME TypeInv, UNCHANGED <<webhookEvents, anomalies, applied>>
  PROVE  /\ Len(applied') = Len(applied) + 0
         /\ Len(anomalies') = Len(anomalies) + 0
         /\ Len(webhookEvents') = Len(webhookEvents) + 0
<1>1. Len(applied) \in Nat /\ Len(anomalies) \in Nat /\ Len(webhookEvents) \in Nat
  BY DEF TypeInv, TypeOK, StoreTypeOK
<1> QED
  BY <1>1

\* Counting nothing leaves the counters alone.
LEMMA NothingCounted ==
  ASSUME TypeInv, UNCHANGED metrics
  PROVE  Inc({})
BY DEF Inc, TypeInv, TypeOK

\* The steps of ServeHTTP that touch no table (Receive, Reject, Accept, Respond).
LEMMA HandlerCounts ==
  ASSUME TypeInv, CountedOK, MetricsBalance, MetricsMatchTables, MetricsEnabled,
         NEW h \in Handlers,
         \/ \E r \in Requests : Receive(h, r)
         \/ Reject(h) \/ Accept(h) \/ RespondOK(h) \/ RespondError(h)
  PROVE  MetricsBalance' /\ MetricsMatchTables'
<1> USE DEF worldVars, storeVars, Locations
<1> DEFINE Keeps(to, counted) ==
      /\ Goto(h, to) /\ Inc(counted) /\ Adds(counted, pc[h], to, 0, 0, 0)
      /\ UNCHANGED <<webhookEvents, anomalies, applied, faults>>
<1>1. ASSUME NEW to \in Locations, NEW counted, Keeps(to, counted)
      PROVE  MetricsBalance' /\ MetricsMatchTables'
  <2>1. Counted(h, to, counted, 0, 0, 0)
    BY <1>1, SameLens DEF Counted
  <2> QED
    BY <1>1, <2>1, CountedKeeps
<1>2. CASE \E r \in Requests : Receive(h, r)
  <2>1. Keeps("received", {<<"requests_total", "no_label">>})
    BY <1>2, ReceiveBalances DEF Receive
  <2> QED
    BY <1>1, <2>1
<1>3. ASSUME NEW result \in {"method_not_allowed", "invalid_payload"},
             pc[h] = "received", RejectWith(h, Erred(result)), UNCHANGED faults
      PROVE  MetricsBalance' /\ MetricsMatchTables'
  <2>1. Keeps("idle", Erred(result))
    BY <1>3, RefusalBalances DEF RejectWith, Finish
  <2> QED
    BY <1>1, <2>1
<1>4. CASE RejectSignature(h)
  <2>1. Keeps("idle", SignatureFailure)
    BY <1>4, SignatureBalances DEF RejectSignature, RejectWith, Finish
  <2> QED
    BY <1>1, <2>1
<1>5. CASE Reject(h)
  <2>1. CASE RejectMethod(h) \/ RejectPayload(h)
    BY <1>3, <2>1 DEF RejectMethod, RejectPayload
  <2>2. CASE RejectBody(h)
    <3>1. pc[h] = "received" /\ RejectWith(h, Erred("invalid_payload")) /\ MayFail(h)
      BY <2>2 DEF RejectBody
    <3>2. CASE UNCHANGED faults
      BY <1>3, <3>1, <3>2
    <3>3. CASE faults' = faults + 1
      <4>1. Goto(h, "idle") /\ Inc(Erred("invalid_payload"))
        BY <3>1 DEF RejectWith, Finish
      <4>2. MetricsBalance'
        BY <3>1, <4>1, RefusalBalances, BalanceStep DEF Adds
      <4>3. faults' # 0
        BY <3>3 DEF TypeInv, TypeOK
      <4> QED
        BY <4>2, <4>3 DEF MetricsMatchTables
    <3> QED
      BY <3>1, <3>2, <3>3 DEF MayFail
  <2> QED
    BY <1>4, <1>5, <2>1, <2>2 DEF Reject
<1>6. CASE Accept(h)
  <2>1. Keeps("insert", {<<"provider_events_total", "no_label">>})
    BY <1>6, AcceptBalances DEF Accept
  <2> QED
    BY <1>1, <2>1
<1>7. CASE RespondOK(h)
  <2>1. Keeps("idle", Succeeded(pc[h]))
    BY <1>7, ServedBalances DEF RespondOK, IsServed, Finish
  <2> QED
    BY <1>1, <2>1
<1>8. CASE RespondError(h)
  <2>1. Keeps("idle", Erred("internal_error"))
    BY <1>8, ErrorBalances DEF RespondError, Finish
  <2> QED
    BY <1>1, <2>1
<1> QED
  BY <1>2, <1>5, <1>6, <1>7, <1>8

\* The insert, whatever it comes to (IdempotencyService.Process).
LEMMA InsertCounts ==
  ASSUME TypeInv, CountedOK, MetricsBalance, MetricsMatchTables, MetricsEnabled,
         NEW h \in Handlers, InsertEvent(h) \/ InsertDuplicate(h) \/ InsertRejected(h)
  PROVE  MetricsBalance' /\ MetricsMatchTables'
<1> USE DEF worldVars, storeVars, Locations
<1>1. pc[h] = "insert" /\ Timed(h) = {<<"database_write_duration", "insert_webhook_event">>}
  BY TimedIs DEF InsertEvent, InsertDuplicate, InsertRejected
<1>2. CASE InsertEvent(h)
  <2>1. PICK statement \in WritesOf(h) : Commit(statement)
    BY <1>2 DEF InsertEvent
  <2>2. statement \in Statements /\ statement.op = "insert_webhook_event"
    BY <1>1, <2>1, WritesType DEF WritesOf
  <2>3. /\ Len(applied') = Len(applied) + 0
        /\ Len(anomalies') = Len(anomalies) + 0
        /\ Len(webhookEvents') = Len(webhookEvents) + 1
    BY <2>1, <2>2, CommitLens DEF TypeInv, TypeOK, Bit
  <2>4. Adds(Timed(h), pc[h], "get", 0, 0, 1)
    BY <1>1, InsertBalances DEF Bit
  <2>5. Counted(h, "get", Timed(h), 0, 0, 1)
    BY <1>2, <2>3, <2>4 DEF InsertEvent, Counted
  <2> QED
    BY <1>2, <2>5, CountedKeeps DEF InsertEvent
<1>3. CASE InsertDuplicate(h)
  <2>1. {<<"duplicates_total", "no_label">>} \cup Timed(h) =
          {<<"duplicates_total", "no_label">>, <<"database_write_duration", "insert_webhook_event">>}
    BY <1>1
  <2>2. Adds({<<"duplicates_total", "no_label">>} \cup Timed(h), pc[h], "duplicate", 0, 0, 0)
    BY <1>1, <2>1, DuplicateBalances
  <2>3. Counted(h, "duplicate", {<<"duplicates_total", "no_label">>} \cup Timed(h), 0, 0, 0)
    BY <1>3, <2>2, SameLens DEF InsertDuplicate, AnswerDuplicate, Counted
  <2> QED
    BY <1>3, <2>3, CountedKeeps DEF InsertDuplicate
<1>4. CASE InsertRejected(h)
  <2>1. Adds(Timed(h), pc[h], "internal_error", 0, 0, 0)
    BY <1>1, InsertBalances DEF Bit
  <2>2. Counted(h, "internal_error", Timed(h), 0, 0, 0)
    BY <1>4, <2>1, SameLens DEF InsertRejected, Counted
  <2> QED
    BY <1>4, <2>2, CountedKeeps DEF InsertRejected
<1> QED
  BY <1>2, <1>3, <1>4

\* The read of the payment and what is counted for it (PaymentProcessor.Process).
LEMMA GetCounts ==
  ASSUME TypeInv, CountedOK, MetricsBalance, MetricsMatchTables, MetricsEnabled,
         NEW h \in Handlers, GetPayment(h)
  PROVE  MetricsBalance' /\ MetricsMatchTables'
<1> USE DEF worldVars, storeVars, Locations
<1>1. ReadPayment(h) /\ pc[h] = "get"
  BY DEF GetPayment, GetPaymentToCreate, GetPaymentToUpdate, GetPaymentWithAnomaly,
         GetPaymentEqual, Ignore, ReadPayment
<1>2. UNCHANGED <<webhookEvents, anomalies, applied, faults>>
  BY <1>1 DEF ReadPayment
<1>3. ASSUME NEW to \in Locations, NEW counted, Goto(h, to), Inc(counted),
             Adds(counted, "get", to, 0, 0, 0)
      PROVE  MetricsBalance' /\ MetricsMatchTables'
  <2>1. Counted(h, to, counted, 0, 0, 0)
    BY <1>1, <1>2, <1>3, SameLens DEF Counted
  <2> QED
    BY <1>2, <2>1, CountedKeeps
<1>4. update[h].Event \in PaymentEvents
  BY <1>1 DEF TypeInv, LocalsOK
<1>5. current'[h] # NoPayment => current'[h] \in Payments
  BY <1>1, ReadPaymentType
<1>6. CASE GetPaymentToCreate(h) \/ GetPaymentToUpdate(h)
  <2>1. Goto(h, "upsert") /\ Inc({})
    BY <1>6, NothingCounted DEF GetPaymentToCreate, GetPaymentToUpdate
  <2> QED
    BY <1>3, <2>1, WriteBalances
<1>7. CASE GetPaymentWithAnomaly(h)
  <2> DEFINE types == DetectedTypes(current'[h], update[h].Event)
  <2>1. current'[h] # NoPayment /\ types # {} /\ Inc({"anomalies_total"} \X types)
        /\ Goto(h, "record")
    BY <1>7 DEF GetPaymentWithAnomaly
  <2>2. PICK type \in AnomalyTypes : types = {type}
    BY <1>4, <1>5, <2>1, ReasonAndAnomaly
  <2>3. {"anomalies_total"} \X types = {<<"anomalies_total", type>>}
    BY <2>2
  <2> QED
    BY <1>3, <2>1, <2>3, AnomalyBalances
<1>8. CASE GetPaymentEqual(h)
  <2>1. /\ current'[h] # NoPayment
        /\ ~Advances(update[h].Event, current'[h])
        /\ DetectedTypes(current'[h], update[h].Event) = {}
        /\ Goto(h, "processed") /\ Inc(Ignored(h, current'[h]))
    BY <1>8 DEF GetPaymentEqual, IsWritten, Ignore
  <2>2. IgnoreReason(update[h].Event, current'[h]) = "equal_timestamp"
    BY <1>4, <1>5, <2>1, ReasonAndAnomaly
  <2>3. Ignored(h, current'[h]) =
          {<<"payment_ignored_total", "equal_timestamp">>} \cup Outcome("ignored")
    BY <1>1, <2>2, TimedIs DEF Ignored
  <2> QED
    BY <1>3, <2>1, <2>3, EqualBalances
<1> QED
  BY <1>6, <1>7, <1>8 DEF GetPayment

\* What an event with an anomaly is counted as after Record.
LEMMA IgnoredIs ==
  ASSUME TypeInv, CountedOK, NEW h \in Handlers, pc[h] = "record"
  PROVE  \E reason \in {"older_timestamp", "invalid_terminal_transition"} :
           Ignored(h, current[h]) =
             {<<"payment_ignored_total", reason>>, <<"database_write_duration", "insert_anomaly">>}
               \cup Outcome("ignored")
<1> DEFINE reason == IgnoreReason(update[h].Event, current[h])
<1>1. reason \in {"older_timestamp", "invalid_terminal_transition"}
  BY ReasonAndAnomaly DEF CountedOK, TypeInv, LocalsOK
<1>2. Timed(h) = {<<"database_write_duration", "insert_anomaly">>}
  BY TimedIs
<1>3. Ignored(h, current[h]) = {<<"payment_ignored_total", reason>>} \cup Outcome("ignored") \cup Timed(h)
  BY DEF Ignored
<1> HIDE DEF reason
<1>4. Ignored(h, current[h]) =
        {<<"payment_ignored_total", reason>>, <<"database_write_duration", "insert_anomaly">>}
          \cup Outcome("ignored")
  BY <1>2, <1>3
<1> QED
  BY <1>1, <1>4

\* A row is recorded, or a payment written (Record, Upsert).
LEMMA WriteCounts ==
  ASSUME TypeInv, CountedOK, MetricsBalance, MetricsMatchTables, MetricsEnabled,
         NEW h \in Handlers, RecordAnomaly(h) \/ UpsertState(h)
  PROVE  MetricsBalance' /\ MetricsMatchTables'
<1> USE DEF worldVars, Locations
<1>1. PICK statement \in WritesOf(h) : Commit(statement)
  BY DEF RecordAnomaly, UpsertState
<1>2. statement \in Statements
  BY WritesType
<1>3. CASE RecordAnomaly(h)
  <2>1. pc[h] = "record" /\ Goto(h, "processed") /\ Inc(Ignored(h, current[h])) /\ UNCHANGED faults
    BY <1>3 DEF RecordAnomaly, AfterRecord, Ignore
  <2>2. statement.op = "insert_anomaly"
    BY <1>1, <2>1 DEF WritesOf
  <2>3. /\ Len(applied') = Len(applied) + 0
        /\ Len(anomalies') = Len(anomalies) + 1
        /\ Len(webhookEvents') = Len(webhookEvents) + 0
    BY <1>1, <1>2, <2>2, CommitLens DEF TypeInv, TypeOK, Bit
  <2>4. Adds(Ignored(h, current[h]), pc[h], "processed", 0, 1, 0)
    BY <2>1, IgnoredIs, RecordBalances
  <2>5. Counted(h, "processed", Ignored(h, current[h]), 0, 1, 0)
    BY <2>1, <2>3, <2>4 DEF Counted
  <2> QED
    BY <2>1, <2>5, CountedKeeps
<1>4. CASE UpsertState(h)
  <2>1. PICK status \in {"created", "updated"} :
          pc[h] = "upsert" /\ Goto(h, "processed") /\ Inc(Outcome(status) \cup Timed(h))
          /\ UNCHANGED faults
    BY <1>4 DEF UpsertState
  <2>2. statement.op = "upsert_payment"
    BY <1>1, <2>1 DEF WritesOf
  <2>3. /\ Len(applied') = Len(applied) + 1
        /\ Len(anomalies') = Len(anomalies) + 0
        /\ Len(webhookEvents') = Len(webhookEvents) + 0
    BY <1>1, <1>2, <2>2, CommitLens DEF TypeInv, TypeOK, Bit
  <2>4. Outcome(status) \cup Timed(h) =
          {<<"database_write_duration", "upsert_payment">>} \cup Outcome(status)
    BY <2>1, TimedIs
  <2>5. Adds(Outcome(status) \cup Timed(h), pc[h], "processed", 1, 0, 0)
    BY <2>1, <2>4, UpsertBalances
  <2>6. Counted(h, "processed", Outcome(status) \cup Timed(h), 1, 0, 0)
    BY <2>1, <2>3, <2>5 DEF Counted
  <2> QED
    BY <2>1, <2>6, CountedKeeps
<1> QED
  BY <1>3, <1>4

\* A payment that its table refuses is counted as failed (Upsert's error).
LEMMA RefusedWriteCounts ==
  ASSUME TypeInv, CountedOK, MetricsBalance, MetricsMatchTables, MetricsEnabled,
         NEW h \in Handlers, UpsertRejected(h)
  PROVE  MetricsBalance' /\ MetricsMatchTables'
<1> USE DEF worldVars, storeVars, Locations
<1>1. /\ pc[h] = "upsert" /\ Goto(h, "internal_error") /\ Inc(Timed(h) \cup Outcome("failed"))
      /\ UNCHANGED <<webhookEvents, anomalies, applied, faults>>
  BY DEF UpsertRejected, AfterError
<1>2. Timed(h) \cup Outcome("failed") =
        {<<"database_write_duration", "upsert_payment">>} \cup Outcome("failed")
  BY <1>1, TimedIs
<1>3. Adds(Timed(h) \cup Outcome("failed"), pc[h], "internal_error", 0, 0, 0)
  BY <1>1, <1>2, UpsertFailureBalances
<1>4. Counted(h, "internal_error", Timed(h) \cup Outcome("failed"), 0, 0, 0)
  BY <1>1, <1>3, SameLens DEF Counted
<1> QED
  BY <1>1, <1>4, CountedKeeps

\* A call that fails is counted too (the deferred timers and the 500's outcome).
LEMMA FailureCounts ==
  ASSUME TypeInv, CountedOK, MetricsBalance, MetricsEnabled,
         NEW h \in Handlers, CallFails(h) \/ RecordFails(h)
  PROVE  MetricsBalance'
<1> USE DEF Locations
<1>1. CASE RecordFails(h)
  <2>1. pc[h] = "record" /\ Goto(h, "processed") /\ Inc(Ignored(h, current[h]))
    BY <1>1 DEF RecordFails, AfterRecord, Ignore
  <2>2. Adds(Ignored(h, current[h]), pc[h], "processed", 0, 1, 0)
    BY <2>1, IgnoredIs, RecordBalances
  <2> QED
    BY <2>1, <2>2, BalanceStep DEF Adds
<1>2. CASE CallFails(h)
  <2> DEFINE counted == Timed(h) \cup IF pc[h] \in Processing THEN Outcome("failed") ELSE {}
  <2>1. pc[h] \in {"insert", "get", "upsert"} /\ Goto(h, "internal_error") /\ Inc(counted)
    BY <1>2 DEF CallFails, AfterError
  <2>2. CASE pc[h] = "insert"
    <3>1. counted = {<<"database_write_duration", "insert_webhook_event">>}
      BY <2>2, TimedIs DEF Processing
    <3> QED
      BY <2>1, <2>2, <3>1, InsertBalances, BalanceStep DEF Adds, Bit
  <2>3. CASE pc[h] = "get"
    <3>1. counted = Outcome("failed")
      BY <2>3, TimedIs DEF Processing
    <3> QED
      BY <2>1, <2>3, <3>1, GetFailureBalances, BalanceStep
  <2>4. CASE pc[h] = "upsert"
    <3>1. counted = {<<"database_write_duration", "upsert_payment">>} \cup Outcome("failed")
      BY <2>4, TimedIs DEF Processing
    <3> QED
      BY <2>1, <2>4, <3>1, UpsertFailureBalances, BalanceStep DEF Adds
  <2> QED
    BY <2>1, <2>2, <2>3, <2>4
<1> QED
  BY <1>1, <1>2

\* What is nought everywhere balances.
LEMMA NothingBalances ==
  ASSUME NEW m, NEW at, \A name, label : IsSeries(name, label) => Value(m, name, label) = 0,
         \A l \in Places : at[l] = 0
  PROVE  Balances(m, at) /\ Tallies(m, at, 0, 0, 0)
<1>1. Balances(m, at)
  BY SeriesNamed, SeriesSummed
  DEF Balances, Successes, Errors, Upserted, Conflicting, Detected, Busy, Accepted,
      Places, Locations
<1>2. Tallies(m, at, 0, 0, 0)
  BY SeriesNamed, SeriesSummed DEF Tallies, Upserted, Conflicting, Places, Locations
<1> QED
  BY <1>1, <1>2

\* A process that starts has counted nothing.
LEMMA ZeroCounts ==
  \A name, label : IsSeries(name, label) => Value(ZeroMetrics, name, label) = 0
BY DEF ZeroMetrics, Value, IsSeries

LEMMA InitMetrics == Init => MetricsInv
<1> SUFFICES ASSUME Init PROVE MetricsInv
  OBVIOUS
<1>1. {h \in Handlers : pc[h] # "idle"} = {} /\ \A h \in Handlers : pc[h] = "idle"
  BY DEF Init
<1>2. CountedOK
  BY <1>1, FS_EmptySet DEF CountedOK
<1>3. NothingAstray
  BY DEF Init, StoreInit, NothingAstray
<1>4. Len(applied) = 0 /\ Len(anomalies) = 0 /\ Len(webhookEvents) = 0
  BY DEF Init, StoreInit
<1>5. metrics = ZeroMetrics
  BY DEF Init
<1>6. \A l \in Places : At[l] = 0
  <2>1. ASSUME NEW l \in Places PROVE {h \in Handlers : pc[h] = l} = {}
    BY <1>1 DEF Places
  <2> QED
    BY <2>1, FS_EmptySet DEF At, Places
<1>7. Balances(metrics, At) /\ Tallies(metrics, At, 0, 0, 0)
  BY <1>5, <1>6, ZeroCounts, NothingBalances
<1> QED
  BY <1>2, <1>3, <1>4, <1>7 DEF MetricsInv, MetricsBalance, MetricsMatchTables

\* A step that moves nobody, counts nothing and writes nothing.
LEMMA SameMetrics ==
  ASSUME UNCHANGED <<pc, metrics>>
  PROVE  /\ At' = At
         /\ MetricsBalance => MetricsBalance'
<1>1. At' = At
  BY DEF At
<1> QED
  BY <1>1 DEF MetricsBalance

\* Every step keeps the two properties.
LEMMA NextMetrics ==
  ASSUME MetricsEnabled
  PROVE  TypeInv /\ MetricsInv /\ [Next]_vars => MetricsInv'
<1> SUFFICES ASSUME TypeInv, MetricsInv, [Next]_vars PROVE MetricsInv'
  OBVIOUS
<1> USE DEF worldVars
<1>1. TypeInv /\ CountedOK /\ NothingAstray /\ MetricsBalance /\ MetricsMatchTables
  BY DEF MetricsInv
<1>2. CountedOK' /\ NothingAstray'
  BY <1>1, NextCounted, NextAstray
<1>3. ASSUME NEW h \in Handlers, (\E r \in Requests : Receive(h, r)) \/ Advance(h)
      PROVE  MetricsBalance' /\ MetricsMatchTables'
  <2>1. CASE CallFails(h) \/ RecordFails(h)
    <3>1. MetricsBalance'
      BY <1>1, <2>1, FailureCounts
    <3>2. faults' # 0
      <4>1. MayFail(h)
        BY <2>1 DEF CallFails, RecordFails
      <4>2. faults \in Nat
        BY <1>1 DEF TypeInv, TypeOK
      <4> QED
        BY <1>1, <4>1, <4>2 DEF MayFail, NothingAstray
    <3> QED
      BY <3>1, <3>2 DEF MetricsMatchTables
  <2> QED
    BY <1>1, <1>3, <2>1, HandlerCounts, InsertCounts, GetCounts, WriteCounts, RefusedWriteCounts
    DEF Advance, BodyEnds, CallReturns, Respond
<1>4. ASSUME NEW h \in Handlers, Disconnect(h) PROVE MetricsBalance' /\ MetricsMatchTables'
  <2>1. MetricsBalance' /\ faults' # 0
    BY <1>1, <1>4, SameMetrics DEF Disconnect, TypeInv, TypeOK
  <2> QED
    BY <2>1 DEF MetricsMatchTables
<1>5. ASSUME Crash PROVE MetricsBalance' /\ MetricsMatchTables'
  <2>1. faults' # 0 /\ metrics' = ZeroMetrics /\ \A h \in Handlers : pc'[h] = "idle"
    BY <1>1, <1>5 DEF Crash, TypeInv, TypeOK
  <2>2. \A l \in Places : At'[l] = 0
    <3>1. ASSUME NEW l \in Places PROVE {h \in Handlers : pc'[h] = l} = {}
      BY <2>1 DEF Places
    <3> QED
      BY <3>1, FS_EmptySet DEF At, Places
  <2>3. Balances(metrics', At')
    BY <2>1, <2>2, ZeroCounts, NothingBalances
  <2> QED
    BY <2>1, <2>3 DEF MetricsBalance, MetricsMatchTables
<1>6. ASSUME Late PROVE MetricsBalance' /\ MetricsMatchTables'
  <2>1. UNCHANGED <<pc, metrics, faults>> /\ faults # 0
    BY <1>1, <1>6 DEF Late, localVars, NothingAstray
  <2> QED
    BY <1>1, <2>1, SameMetrics DEF MetricsMatchTables
<1>7. CASE UNCHANGED vars
  <2>1. UNCHANGED <<pc, metrics, faults, applied, anomalies, webhookEvents>>
    BY <1>7 DEF vars, localVars, storeVars
  <2>2. MetricsBalance' /\ At' = At
    BY <1>1, <2>1, SameMetrics
  <2>3. MetricsMatchTables'
    BY <1>1, <2>1, <2>2 DEF MetricsMatchTables
  <2> QED
    BY <1>2, <2>2, <2>3 DEF MetricsInv
<1> QED
  BY <1>2, <1>3, <1>4, <1>5, <1>6, <1>7 DEF Next, MetricsInv

\* The counters of a process that has any (main always creates them) agree with
\* each other in every reachable state, whatever fails and whoever hangs up.
THEOREM MetricsAlwaysBalance == ASSUME MetricsEnabled PROVE Spec => []MetricsBalance
<1>1. Init => TypeInv /\ MetricsInv
  BY InitType, InitMetrics
<1>2. (TypeInv /\ MetricsInv) /\ [Next]_vars => (TypeInv /\ MetricsInv)'
  BY NextType, NextMetrics
<1>3. MetricsInv => MetricsBalance
  BY DEF MetricsInv
<1> QED
  BY <1>1, <1>2, <1>3, PTL DEF Spec

\* Until a first fault they tell what the tables hold.
THEOREM MetricsTellTheTables == ASSUME MetricsEnabled PROVE Spec => []MetricsMatchTables
<1>1. Init => TypeInv /\ MetricsInv
  BY InitType, InitMetrics
<1>2. (TypeInv /\ MetricsInv) /\ [Next]_vars => (TypeInv /\ MetricsInv)'
  BY NextType, NextMetrics
<1>3. MetricsInv => MetricsMatchTables
  BY DEF MetricsInv
<1> QED
  BY <1>1, <1>2, <1>3, PTL DEF Spec
=============================================================================
