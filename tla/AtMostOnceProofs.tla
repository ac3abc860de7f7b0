-------------------------- MODULE AtMostOnceProofs --------------------------
(***************************************************************************)
(* A provider event is written to its payment at most once, whatever the   *)
(* deliveries, the interleaving, the failures and the crashes.             *)
(*                                                                         *)
(* The right to write for an event is a token: the id its row got.  The    *)
(* UNIQUE constraint gives the token to one goroutine.  It is then held by *)
(* that goroutine, or by the upsert the goroutine left behind when its     *)
(* call failed or its process died, or it is spent in applied: never by    *)
(* two of them.  OnceInv says so, and it is inductive.                     *)
(***************************************************************************)
EXTENDS WebhookTypeProofs

Held(h) == update[h].WebhookEventID

Upserts(statements) == {s \in statements : s.op = "upsert_payment"}

RowsUnique ==
  \A i, j \in DOMAIN webhookEvents :
    webhookEvents[i].ProviderEventID = webhookEvents[j].ProviderEventID => i = j

HeldByGoroutine ==
  \A h \in Handlers : pc[h] \in Processing =>
    /\ Held(h) \in DOMAIN webhookEvents
    /\ ~IsApplied(Held(h))
    /\ \A s \in Upserts(orphans) : s.by # Held(h)
    /\ \A g \in Handlers : pc[g] \in Processing /\ Held(g) = Held(h) => g = h

HeldByOrphan ==
  \A s \in Upserts(orphans) :
    /\ s.by \in DOMAIN webhookEvents
    /\ ~IsApplied(s.by)
    /\ \A t \in Upserts(orphans) : s.by = t.by => s = t

Spent ==
  \A n \in DOMAIN applied :
    /\ applied[n].by \in DOMAIN webhookEvents
    /\ \A m \in DOMAIN applied : applied[m].by = applied[n].by => m = n

OnceInv == RowsUnique /\ HeldByGoroutine /\ HeldByOrphan /\ Spent

\* The goroutines that are past the idempotency check after the step were so
\* before it, for the same event.
NoNewHolder ==
  \A h \in Handlers : pc'[h] \in Processing => pc[h] \in Processing /\ Held(h)' = Held(h)

-----------------------------------------------------------------------------

\* The only upsert a goroutine sends is for the event it holds
\* (PaymentProcessor.Process calls Upsert with update.Event).
LEMMA UpsertOfHolder ==
  ASSUME NEW h \in Handlers, NEW s \in Upserts(WritesOf(h))
  PROVE  /\ pc[h] = "upsert"
         /\ s = [op |-> "upsert_payment", payment |-> paymentFromEvent(update[h].Event),
                 by |-> Held(h), over |-> over[h]]
<1>1. CASE pc[h] = "insert"
  BY <1>1 DEF Upserts, WritesOf
<1>2. CASE pc[h] = "record"
  BY <1>2 DEF Upserts, WritesOf
<1>3. CASE pc[h] = "upsert"
  BY <1>3 DEF Upserts, WritesOf, Held
<1>4. CASE pc[h] \notin {"insert", "record", "upsert"}
  BY <1>4 DEF Upserts, WritesOf
<1> QED
  BY <1>1, <1>2, <1>3, <1>4

\* A step that writes no table may hand a goroutine's event to the upsert it
\* leaves behind, if the goroutine lets go of it.
LEMMA QuietOnce ==
  ASSUME TypeInv, OnceInv, UNCHANGED <<webhookEvents, applied>>, NoNewHolder,
         \A s \in Upserts(orphans)' :
           \/ s \in orphans
           \/ \E h \in Handlers : pc'[h] \notin Processing /\ s \in WritesOf(h)
  PROVE  OnceInv'
<1>1. \A id : IsApplied(id)' = IsApplied(id)
  BY DEF IsApplied
<1>2. RowsUnique' /\ Spent'
  BY DEF OnceInv, RowsUnique, Spent
<1>3. \A s \in Upserts(orphans)' :
        \/ s \in Upserts(orphans)
        \/ \E h \in Handlers :
             /\ pc[h] \in Processing /\ pc'[h] \notin Processing
             /\ s \in Upserts(WritesOf(h)) /\ s.by = Held(h)
  BY UpsertOfHolder DEF Upserts, Processing
<1>4. HeldByGoroutine'
  <2> SUFFICES ASSUME NEW h \in Handlers, pc'[h] \in Processing
               PROVE  /\ Held(h)' \in DOMAIN webhookEvents'
                      /\ ~IsApplied(Held(h))'
                      /\ \A s \in Upserts(orphans)' : s.by # Held(h)'
                      /\ \A g \in Handlers : pc'[g] \in Processing /\ Held(g)' = Held(h)' => g = h
    BY DEF HeldByGoroutine
  <2>1. pc[h] \in Processing /\ Held(h)' = Held(h)
    BY DEF NoNewHolder
  <2>2. Held(h) \in DOMAIN webhookEvents /\ ~IsApplied(Held(h))
    BY <2>1 DEF OnceInv, HeldByGoroutine
  <2>3. ~IsApplied(Held(h))'
    BY <2>1, <2>2 DEF IsApplied
  <2>4. ASSUME NEW s \in Upserts(orphans)' PROVE s.by # Held(h)'
    BY <1>3, <2>1 DEF OnceInv, HeldByGoroutine
  <2>5. ASSUME NEW g \in Handlers, pc'[g] \in Processing, Held(g)' = Held(h)' PROVE g = h
    BY <2>1, <2>5 DEF NoNewHolder, OnceInv, HeldByGoroutine
  <2> QED
    BY <2>1, <2>2, <2>3, <2>4, <2>5
<1>5. HeldByOrphan'
  <2> SUFFICES ASSUME NEW s \in Upserts(orphans)'
               PROVE  /\ s.by \in DOMAIN webhookEvents'
                      /\ ~IsApplied(s.by)'
                      /\ \A t \in Upserts(orphans)' : s.by = t.by => s = t
    BY DEF HeldByOrphan
  <2>1. s.by \in DOMAIN webhookEvents /\ ~IsApplied(s.by)
    BY <1>3 DEF OnceInv, HeldByOrphan, HeldByGoroutine
  <2>2. ASSUME NEW t \in Upserts(orphans)', s.by = t.by PROVE s = t
    BY <1>3, <2>2, UpsertOfHolder DEF OnceInv, HeldByOrphan, HeldByGoroutine
  <2> QED
    BY <2>1, <2>2 DEF IsApplied
<1> QED
  BY <1>2, <1>4, <1>5 DEF OnceInv

\* A row that is new under its provider event id gives out a token nobody has
\* seen, to one goroutine or to none.
LEMMA InsertOnce ==
  ASSUME TypeInv, OnceInv, UNCHANGED applied, orphans' \subseteq orphans,
         NEW event \in PaymentEvents, ~IsDuplicate(event),
         webhookEvents' = Append(webhookEvents, WebhookEventRow(event)),
         \A h \in Handlers : pc'[h] \in Processing =>
           \/ pc[h] \in Processing /\ Held(h)' = Held(h)
           \/ Held(h)' = Len(webhookEvents')
                /\ \A g \in Handlers \ {h} :
                     pc'[g] \in Processing => pc[g] \in Processing /\ Held(g)' = Held(g)
  PROVE  OnceInv'
<1> DEFINE k == Len(webhookEvents')
<1>1. /\ DOMAIN webhookEvents \subseteq DOMAIN webhookEvents'
      /\ k \in DOMAIN webhookEvents' /\ k \notin DOMAIN webhookEvents
      /\ DOMAIN webhookEvents' = DOMAIN webhookEvents \cup {k}
      /\ \A id \in DOMAIN webhookEvents : webhookEvents'[id] = webhookEvents[id]
      /\ webhookEvents'[k] = WebhookEventRow(event)
  BY RowTypes DEF TypeInv, TypeOK, StoreTypeOK
<1>2. \A h \in Handlers : pc'[h] \in Processing =>
        \/ pc[h] \in Processing /\ Held(h)' = Held(h)
        \/ Held(h)' = k
             /\ \A g \in Handlers \ {h} :
                  pc'[g] \in Processing => pc[g] \in Processing /\ Held(g)' = Held(g)
  OBVIOUS
<1> HIDE DEF k
<1>3. webhookEvents'[k].ProviderEventID = event.ProviderEventID
  BY <1>1, RowTypes
<1>4. RowsUnique'
  BY <1>1, <1>3 DEF OnceInv, RowsUnique, IsDuplicate
<1>5. Spent'
  BY <1>1 DEF OnceInv, Spent
<1>6. HeldByOrphan'
  <2>1. Upserts(orphans)' \subseteq Upserts(orphans)
    BY DEF Upserts
  <2>2. \A id : IsApplied(id)' <=> IsApplied(id)
    BY DEF IsApplied
  <2>3. \A s \in Upserts(orphans)' :
          /\ s.by \in DOMAIN webhookEvents' /\ ~IsApplied(s.by)'
          /\ \A t \in Upserts(orphans)' : s.by = t.by => s = t
    BY <1>1, <2>1, <2>2 DEF OnceInv, HeldByOrphan
  <2> QED
    BY <2>3 DEF HeldByOrphan
<1>7. \A n \in DOMAIN applied' : applied'[n].by # k
  BY <1>1 DEF OnceInv, Spent
<1>8. \A s \in Upserts(orphans)' : s.by # k
  BY <1>1 DEF OnceInv, HeldByOrphan, Upserts
<1>9. HeldByGoroutine'
  <2> SUFFICES ASSUME NEW h \in Handlers, pc'[h] \in Processing
               PROVE  /\ Held(h)' \in DOMAIN webhookEvents'
                      /\ ~IsApplied(Held(h))'
                      /\ \A s \in Upserts(orphans)' : s.by # Held(h)'
                      /\ \A g \in Handlers : pc'[g] \in Processing /\ Held(g)' = Held(h)' => g = h
    BY DEF HeldByGoroutine
  <2>1. \A g \in Handlers : pc[g] \in Processing => Held(g) # k
    BY <1>1 DEF OnceInv, HeldByGoroutine
  <2>2. CASE pc[h] \in Processing /\ Held(h)' = Held(h)
    <3>1. /\ Held(h) \in DOMAIN webhookEvents
          /\ ~IsApplied(Held(h))
          /\ \A s \in Upserts(orphans) : s.by # Held(h)
          /\ \A g \in Handlers : pc[g] \in Processing /\ Held(g) = Held(h) => g = h
      BY <2>2 DEF OnceInv, HeldByGoroutine
    <3>2. ~IsApplied(Held(h))' /\ \A s \in Upserts(orphans)' : s.by # Held(h)'
      BY <2>2, <3>1 DEF IsApplied, Upserts
    <3>3. ASSUME NEW g \in Handlers, pc'[g] \in Processing, Held(g)' = Held(h)', g # h
          PROVE  FALSE
      <4>1. Held(g)' # k
        BY <1>1, <2>2, <3>1, <3>3
      <4>2. pc[g] \in Processing /\ Held(g)' = Held(g)
        BY <1>2, <3>3, <4>1
      <4> QED
        BY <2>2, <3>1, <3>3, <4>2
    <3> QED
      BY <1>1, <2>2, <3>1, <3>2, <3>3
  <2>3. CASE /\ Held(h)' = k
             /\ \A g \in Handlers \ {h} :
                  pc'[g] \in Processing => pc[g] \in Processing /\ Held(g)' = Held(g)
    BY <1>1, <1>7, <1>8, <2>1, <2>3 DEF IsApplied
  <2> QED
    BY <1>2, <2>2, <2>3
<1> QED
  BY <1>4, <1>5, <1>6, <1>9 DEF OnceInv

\* A write spends the token of its event, if nobody holds it after the step.
LEMMA SpendOnce ==
  ASSUME TypeInv, OnceInv, UNCHANGED webhookEvents, orphans' \subseteq orphans, NoNewHolder,
         NEW v \in Versions, applied' = Append(applied, v),
         v.by \in DOMAIN webhookEvents, ~IsApplied(v.by),
         \A h \in Handlers : pc'[h] \in Processing => Held(h) # v.by,
         \A s \in Upserts(orphans)' : s.by # v.by
  PROVE  OnceInv'
<1> DEFINE k == Len(applied')
<1>1. /\ DOMAIN applied' = DOMAIN applied \cup {k} /\ k \notin DOMAIN applied
      /\ \A n \in DOMAIN applied : applied'[n] = applied[n]
      /\ applied'[k] = v
  BY DEF TypeInv, TypeOK, StoreTypeOK
<1> HIDE DEF k
<1>2. \A id : IsApplied(id)' <=> (IsApplied(id) \/ id = v.by)
  BY <1>1 DEF IsApplied
<1>3. RowsUnique'
  BY DEF OnceInv, RowsUnique
<1>4. Spent'
  BY <1>1 DEF OnceInv, Spent, IsApplied
<1>5. HeldByOrphan'
  BY <1>2 DEF OnceInv, HeldByOrphan, Upserts
<1>6. HeldByGoroutine'
  BY <1>2 DEF OnceInv, HeldByGoroutine, Upserts, NoNewHolder
<1> QED
  BY <1>3, <1>4, <1>5, <1>6 DEF OnceInv

-----------------------------------------------------------------------------

\* Nothing is stored, written or held in the initial state.
LEMMA InitOnce == Init => OnceInv
BY DEF Init, StoreInit, OnceInv, RowsUnique, HeldByGoroutine, HeldByOrphan, Spent, Upserts,
       Processing

\* The upsert of a goroutine, sent now or late, is for a token it alone held.
LEMMA UpsertOnce ==
  ASSUME TypeInv, OnceInv, NEW s \in Statements, s.op = "upsert_payment", Commit(s),
         orphans' \subseteq orphans, NoNewHolder,
         s.by \in DOMAIN webhookEvents, ~IsApplied(s.by),
         \A h \in Handlers : pc'[h] \in Processing => Held(h) # s.by,
         \A t \in Upserts(orphans)' : t.by # s.by
  PROVE  OnceInv'
<1> DEFINE v == [payment |-> PaymentRow(s.payment), by |-> s.by, over |-> s.over]
<1>1. v \in Versions /\ v.by = s.by
  BY RowTypes DEF Statements, Versions
<1>2. applied' = Append(applied, v) /\ UNCHANGED webhookEvents
  BY DEF Commit, UpsertPayment
<1> HIDE DEF v
<1> QED
  BY <1>1, <1>2, SpendOnce

\* One step per action: each keeps the token unique.
LEMMA NextOnce == TypeInv /\ OnceInv /\ [Next]_vars => OnceInv'
<1> SUFFICES ASSUME TypeInv, OnceInv, [Next]_vars PROVE OnceInv'
  OBVIOUS
<1> USE DEF worldVars, storeVars
<1>0. pc \in [Handlers -> Locations] /\ update \in [Handlers -> Updates]
  BY DEF TypeInv, TypeOK
<1>1. ASSUME NEW h \in Handlers, NEW r \in Requests, Receive(h, r) PROVE OnceInv'
  <2>1. NoNewHolder
    BY <1>0, <1>1 DEF Receive, Goto, NoNewHolder, Processing, Held
  <2> QED
    BY <1>1, <2>1, QuietOnce DEF Receive, Upserts
<1>2. ASSUME NEW h \in Handlers, Reject(h) PROVE OnceInv'
  <2>1. PICK counted : RejectWith(h, counted)
    BY <1>2 DEF Reject, RejectMethod, RejectBody, RejectSignature, RejectPayload
  <2>2. NoNewHolder
    BY <1>0, <2>1 DEF RejectWith, Finish, Goto, NoNewHolder, Processing, Held
  <2> QED
    BY <2>1, <2>2, QuietOnce DEF RejectWith, Upserts
<1>3. ASSUME NEW h \in Handlers, Accept(h) PROVE OnceInv'
  <2>1. NoNewHolder
    BY <1>0, <1>3 DEF Accept, Goto, NoNewHolder, Processing, Held
  <2> QED
    BY <1>3, <2>1, QuietOnce DEF Accept, Upserts
<1>4. ASSUME NEW h \in Handlers, InsertEvent(h) PROVE OnceInv'
  <2>1. update[h].Event \in PaymentEvents
    BY <1>4 DEF InsertEvent, TypeInv, LocalsOK
  <2>2. /\ ~IsDuplicate(update[h].Event)
        /\ webhookEvents' = Append(webhookEvents, WebhookEventRow(update[h].Event))
        /\ UNCHANGED applied
    <3>1. PICK s \in WritesOf(h) : Commit(s)
      BY <1>4 DEF InsertEvent
    <3>2. s.op = "insert_webhook_event" /\ s.event = update[h].Event
      BY <1>4, <3>1 DEF InsertEvent, WritesOf
    <3> QED
      BY <3>1, <3>2 DEF Commit, Admits, InsertWebhookEvent
  <2>3. Held(h)' = Len(webhookEvents')
    BY <1>0, <1>4 DEF InsertEvent, ReturnedId, Held, Updates
  <2>4. \A g \in Handlers \ {h} :
          pc'[g] \in Processing => pc[g] \in Processing /\ Held(g)' = Held(g)
    BY <1>0, <1>4 DEF InsertEvent, Goto, Held
  <2>5. \A g \in Handlers : pc'[g] \in Processing =>
          \/ pc[g] \in Processing /\ Held(g)' = Held(g)
          \/ Held(g)' = Len(webhookEvents')
               /\ \A i \in Handlers \ {g} :
                    pc'[i] \in Processing => pc[i] \in Processing /\ Held(i)' = Held(i)
    BY <2>3, <2>4
  <2> QED
    BY <1>4, <2>1, <2>2, <2>5, InsertOnce DEF InsertEvent
<1>5. ASSUME NEW h \in Handlers,
             InsertDuplicate(h) \/ InsertRejected(h) \/ UpsertRejected(h)
      PROVE  OnceInv'
  <2>1. NoNewHolder
    BY <1>0, <1>5 DEF InsertDuplicate, AnswerDuplicate, InsertRejected, UpsertRejected,
                      AfterError, Goto, NoNewHolder, Processing, Held
  <2> QED
    BY <1>5, <2>1, QuietOnce
    DEF InsertDuplicate, AnswerDuplicate, InsertRejected, UpsertRejected, AfterError, Upserts
<1>6. ASSUME NEW h \in Handlers, GetPayment(h) PROVE OnceInv'
  <2>1. ReadPayment(h) /\ \E location \in Locations : Goto(h, location)
    BY <1>6 DEF GetPayment, GetPaymentToCreate, GetPaymentToUpdate, GetPaymentWithAnomaly,
                GetPaymentEqual, Ignore, Locations
  <2>2. NoNewHolder
    BY <1>0, <2>1 DEF ReadPayment, Goto, NoNewHolder, Processing, Held
  <2> QED
    BY <2>1, <2>2, QuietOnce DEF ReadPayment, Upserts
<1>7. ASSUME NEW h \in Handlers, RecordAnomaly(h) PROVE OnceInv'
  <2>1. UNCHANGED <<webhookEvents, applied>>
    <3>1. PICK s \in WritesOf(h) : Commit(s)
      BY <1>7 DEF RecordAnomaly
    <3>2. s.op = "insert_anomaly"
      BY <1>7, <3>1 DEF RecordAnomaly, WritesOf
    <3> QED
      BY <3>1, <3>2 DEF Commit, InsertAnomaly
  <2>2. NoNewHolder
    BY <1>0, <1>7 DEF RecordAnomaly, AfterRecord, Ignore, Goto, NoNewHolder, Processing, Held
  <2> QED
    BY <1>7, <2>1, <2>2, QuietOnce DEF RecordAnomaly, Upserts
<1>8. ASSUME NEW h \in Handlers, UpsertState(h) PROVE OnceInv'
  <2>1. PICK s \in WritesOf(h) : Commit(s)
    BY <1>8 DEF UpsertState
  <2>2. s.op = "upsert_payment" /\ s.by = Held(h) /\ s \in Statements
    BY <1>8, <2>1, WritesType DEF UpsertState, WritesOf, Held
  <2>3. pc[h] \in Processing
    BY <1>8 DEF UpsertState, Processing
  <2>4. NoNewHolder /\ pc'[h] \notin Processing
    BY <1>0, <1>8 DEF UpsertState, Goto, NoNewHolder, Processing, Held
  <2>5. \A g \in Handlers : pc'[g] \in Processing => Held(g) # s.by
    BY <2>2, <2>3, <2>4 DEF NoNewHolder, OnceInv, HeldByGoroutine
  <2>6. /\ s.by \in DOMAIN webhookEvents /\ ~IsApplied(s.by)
        /\ \A t \in Upserts(orphans)' : t.by # s.by
    BY <1>8, <2>2, <2>3 DEF UpsertState, OnceInv, HeldByGoroutine, Upserts
  <2> QED
    BY <1>8, <2>1, <2>2, <2>4, <2>5, <2>6, UpsertOnce DEF UpsertState
<1>9. ASSUME NEW h \in Handlers, CallFails(h) \/ RecordFails(h) PROVE OnceInv'
  <2>1. UNCHANGED <<webhookEvents, applied>> /\ orphans' \subseteq orphans \cup WritesOf(h)
    BY <1>9 DEF CallFails, RecordFails, Abandon
  <2>2. NoNewHolder /\ pc'[h] \notin Processing
    BY <1>0, <1>9 DEF CallFails, AfterError, RecordFails, AfterRecord, Ignore, Goto, NoNewHolder,
                      Processing, Held
  <2>3. \A s \in Upserts(orphans)' :
          \/ s \in orphans
          \/ \E g \in Handlers : pc'[g] \notin Processing /\ s \in WritesOf(g)
    BY <2>1, <2>2 DEF Upserts
  <2> QED
    BY <2>1, <2>2, <2>3, QuietOnce
<1>10. ASSUME NEW h \in Handlers, RespondOK(h) \/ RespondError(h) PROVE OnceInv'
  <2>1. NoNewHolder
    BY <1>0, <1>10 DEF RespondOK, IsServed, RespondError, Finish, Goto, NoNewHolder, Processing,
                       Held
  <2> QED
    BY <1>10, <2>1, QuietOnce DEF RespondOK, IsServed, RespondError, Upserts
<1>11. ASSUME NEW h \in Handlers, Disconnect(h) PROVE OnceInv'
  <2>1. NoNewHolder
    BY <1>11 DEF Disconnect, NoNewHolder, Held
  <2> QED
    BY <1>11, <2>1, QuietOnce DEF Disconnect, Upserts
<1>12. ASSUME Crash PROVE OnceInv'
  <2>1. /\ UNCHANGED <<webhookEvents, applied>>
        /\ orphans' \subseteq orphans \cup UNION {WritesOf(h) : h \in Handlers}
    BY <1>12 DEF Crash, Abandon
  <2>2. NoNewHolder /\ \A h \in Handlers : pc'[h] \notin Processing
    BY <1>12 DEF Crash, NoNewHolder, Processing
  <2>3. \A s \in Upserts(orphans)' :
          \/ s \in orphans
          \/ \E g \in Handlers : pc'[g] \notin Processing /\ s \in WritesOf(g)
    BY <2>1, <2>2 DEF Upserts
  <2> QED
    BY <2>1, <2>2, <2>3, QuietOnce
<1>13. ASSUME Late PROVE OnceInv'
  <2>1. PICK s \in orphans : OrphanCommits(s) \/ OrphanDropped(s)
    BY <1>13 DEF Late
  <2>2. s \in Statements /\ orphans' = orphans \ {s}
    BY <2>1 DEF OrphanCommits, OrphanDropped, TypeInv, TypeOK, StoreTypeOK
  <2>3. NoNewHolder /\ UNCHANGED <<pc, update>>
    BY <1>13 DEF Late, localVars, NoNewHolder, Held
  <2>4. CASE UNCHANGED <<webhookEvents, applied>>
    BY <2>2, <2>3, <2>4, QuietOnce DEF Upserts
  <2>5. CASE Commit(s) /\ s.op = "insert_webhook_event"
    <3>1. /\ s.event \in PaymentEvents /\ ~IsDuplicate(s.event)
          /\ webhookEvents' = Append(webhookEvents, WebhookEventRow(s.event))
          /\ UNCHANGED applied
      BY <2>2, <2>5 DEF Statements, Commit, Admits, InsertWebhookEvent
    <3> QED
      BY <2>2, <2>3, <3>1, InsertOnce DEF NoNewHolder
  <2>6. CASE Commit(s) /\ s.op = "upsert_payment"
    <3>1. s \in Upserts(orphans)
      BY <2>1, <2>6 DEF Upserts
    <3>2. /\ s.by \in DOMAIN webhookEvents /\ ~IsApplied(s.by)
          /\ \A t \in Upserts(orphans) : s.by = t.by => s = t
      BY <3>1 DEF OnceInv, HeldByOrphan
    <3>3. \A h \in Handlers : pc'[h] \in Processing => Held(h) # s.by
      BY <2>3, <3>1 DEF OnceInv, HeldByGoroutine
    <3>4. \A t \in Upserts(orphans)' : t.by # s.by
      BY <2>2, <3>2 DEF Upserts
    <3> QED
      BY <2>2, <2>3, <2>6, <3>2, <3>3, <3>4, UpsertOnce
  <2>7. \/ UNCHANGED <<webhookEvents, applied>>
        \/ Commit(s) /\ s.op \in {"insert_webhook_event", "upsert_payment"}
    BY <2>1, <2>2 DEF OrphanCommits, OrphanDropped, Statements, Commit, InsertAnomaly
  <2> QED
    BY <2>4, <2>5, <2>6, <2>7
<1>14. CASE UNCHANGED vars
  <2>1. NoNewHolder
    BY <1>14 DEF vars, localVars, NoNewHolder, Held
  <2> QED
    BY <1>14, <2>1, QuietOnce DEF vars, Upserts
<1> QED
  BY <1>1, <1>2, <1>3, <1>4, <1>5, <1>6, <1>7, <1>8, <1>9, <1>10, <1>11, <1>12, <1>13, <1>14
  DEF Next, Advance, BodyEnds, CallReturns, Respond

\* However many goroutines, deliveries, lost calls and crashes there are, an
\* event is stored once, is past the idempotency check in one goroutine at most
\* and is written to its payment once at most (IdempotencyService.Process).
THEOREM AtMostOnce == Spec => []AppliedAtMostOnce
<1>1. OnceInv => AppliedAtMostOnce
  BY DEF OnceInv, RowsUnique, HeldByGoroutine, Spent, Held, AppliedAtMostOnce
<1> QED
  BY InitType, NextType, InitOnce, NextOnce, <1>1, PTL DEF Spec
=============================================================================
