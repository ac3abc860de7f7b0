-------------------------- MODULE WebhookFlowProofs --------------------------
(***************************************************************************)
(* A webhook request makes its database calls in the order of RequestFlow, *)
(* whatever the tables hold and whatever fails.  The order is read off the *)
(* actions one by one: no invariant is needed.                             *)
(***************************************************************************)
EXTENDS WebhookLedger, TLAPS

FlowNext == Flow!Cut \/ \E h \in Handlers : Flow!Move(h)

\* ServeHTTP: every answer ends the goroutine, and the only way on is the insert.
LEMMA EndpointFollows ==
  ASSUME NEW h \in Handlers, Reject(h) \/ Accept(h) \/ RespondOK(h) \/ RespondError(h)
  PROVE  Flow!Move(h)
<1>1. CASE Reject(h)
  BY <1>1 DEF Reject, RejectMethod, RejectBody, RejectSignature, RejectPayload,
              RejectWith, Finish, Goto, Flow!Move, Flow!Follows
<1>2. CASE Accept(h)
  BY <1>2 DEF Accept, Goto, Flow!Move, Flow!Follows
<1>3. CASE RespondOK(h)
  BY <1>3 DEF RespondOK, IsServed, ServedStatuses, Finish, Goto, Flow!Move, Flow!Follows
<1>4. CASE RespondError(h)
  BY <1>4 DEF RespondError, Finish, Goto, Flow!Move, Flow!Follows
<1> QED
  BY <1>1, <1>2, <1>3, <1>4

\* IdempotencyService.Process: the payment is read only after the event is stored.
LEMMA InsertFollows ==
  ASSUME NEW h \in Handlers, InsertEvent(h) \/ InsertDuplicate(h) \/ InsertRejected(h)
  PROVE  Flow!Move(h)
<1>1. CASE InsertEvent(h)
  BY <1>1 DEF InsertEvent, Goto, Flow!Move, Flow!Follows
<1>2. CASE InsertDuplicate(h)
  BY <1>2 DEF InsertDuplicate, AnswerDuplicate, Goto, Flow!Move, Flow!Follows
<1>3. CASE InsertRejected(h)
  BY <1>3 DEF InsertRejected, Goto, Flow!Move, Flow!Follows
<1> QED
  BY <1>1, <1>2, <1>3

\* PaymentProcessor.Process: the read is followed by one write at most.
LEMMA ProcessFollows ==
  ASSUME NEW h \in Handlers, GetPayment(h) \/ RecordAnomaly(h) \/ UpsertState(h)
  PROVE  Flow!Move(h)
<1>1. CASE GetPayment(h)
  BY <1>1 DEF GetPayment, GetPaymentToCreate, GetPaymentToUpdate, GetPaymentWithAnomaly,
              GetPaymentEqual, ReadPayment, Ignore, Goto, Flow!Move, Flow!Follows
<1>2. CASE RecordAnomaly(h)
  BY <1>2 DEF RecordAnomaly, AfterRecord, Ignore, Goto, Flow!Move, Flow!Follows
<1>3. CASE UpsertState(h)
  BY <1>3 DEF UpsertState, Goto, Flow!Move, Flow!Follows
<1> QED
  BY <1>1, <1>2, <1>3

\* A failed call ends the request, except that Record's error is dropped.
LEMMA FailureFollows ==
  ASSUME NEW h \in Handlers, CallFails(h) \/ RecordFails(h) \/ UpsertRejected(h)
  PROVE  Flow!Move(h)
<1>1. CASE CallFails(h)
  BY <1>1 DEF CallFails, AfterError, Goto, Flow!Move, Flow!Follows
<1>2. CASE RecordFails(h)
  BY <1>2 DEF RecordFails, AfterRecord, Ignore, Goto, Flow!Move, Flow!Follows
<1>3. CASE UpsertRejected(h)
  BY <1>3 DEF UpsertRejected, AfterError, Goto, Flow!Move, Flow!Follows
<1> QED
  BY <1>1, <1>2, <1>3

\* Every step of the service is a step of the flow or leaves it alone.
LEMMA StepFollows == [Next]_vars => [FlowNext]_pc
<1> SUFFICES ASSUME [Next]_vars
             PROVE  FlowNext \/ UNCHANGED pc
  OBVIOUS
<1>1. CASE \E h \in Handlers, r \in Requests : Receive(h, r)
  BY <1>1 DEF Receive, Goto, FlowNext, Flow!Move, Flow!Follows
<1>2. CASE \E h \in Handlers : Advance(h)
  BY <1>2, EndpointFollows, InsertFollows, ProcessFollows, FailureFollows
     DEF Advance, BodyEnds, CallReturns, Respond, FlowNext
<1>3. CASE \E h \in Handlers : Disconnect(h)
  BY <1>3 DEF Disconnect
<1>4. CASE Crash
  BY <1>4 DEF Crash, FlowNext, Flow!Cut
<1>5. CASE Late
  BY <1>5 DEF Late, localVars
<1>6. CASE UNCHANGED vars
  BY <1>6 DEF vars, localVars
<1> QED
  BY <1>1, <1>2, <1>3, <1>4, <1>5, <1>6 DEF Next

\* The webhook service implements RequestFlow, for any number of goroutines,
\* requests and faults: this is what entitles Server to put the flow, without
\* its data, on the connection pool.
THEOREM FlowRefinement == Spec => ImplementsFlow
<1>1. Init => Flow!Init
  BY DEF Init, Flow!Init
<1>2. [Next]_vars => [Flow!Cut \/ \E h \in Handlers : Flow!Move(h)]_pc
  BY StepFollows DEF FlowNext
<1> QED
  BY <1>1, <1>2, PTL DEF Spec, ImplementsFlow, Flow!Spec
=============================================================================
