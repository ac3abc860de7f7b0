---------------------------- MODULE PaymentLedger ----------------------------
(***************************************************************************)
(* What the processor promises about payments, free of goroutines, calls,  *)
(* failures and retries.  A provider event is taken in once.  It is        *)
(* written to its payment at most once, and only over a version of the     *)
(* payment that it may follow.                                             *)
(*                                                                         *)
(* Spec lets the writer look at any version there has been: that is all a  *)
(* read followed by an unconditional write can promise.  SerialSpec makes  *)
(* it look at the latest one: the promise kept while the writes of a       *)
(* payment are under way one at a time.                                    *)
(***************************************************************************)
EXTENDS PaymentRules, Sequences, FiniteSetsExt

CONSTANTS
  Offered,     \* the events the provider signs
  Resolution   \* ticks per unit of the stored timestamps

VARIABLES
  events,    \* the events taken in
  versions   \* the events written, oldest first, with the version each follows

ledgerVars == <<events, versions>>

Init == events = {} /\ versions = << >>

TakeIn(event) ==
  /\ \A e \in events : e.ProviderEventID # event.ProviderEventID
  /\ events' = events \cup {event}
  /\ UNCHANGED versions

\* A version of a payment as it is read back.
Version(n) ==
  LET payment == paymentFromEvent(versions[n].event) IN
  [payment EXCEPT !.StatusTimestamp = @ - (@ % Resolution)]

VersionsOf(paymentID) == {n \in DOMAIN versions : versions[n].event.PaymentID = paymentID}

\* 0: the payment has no version yet.
MayFollow(event, n) ==
  \/ n = 0
  \/ n \in VersionsOf(event.PaymentID) /\ Advances(event, Version(n))

Write(event, n) ==
  /\ event \in events
  /\ \A m \in DOMAIN versions : versions[m].event # event
  /\ MayFollow(event, n)
  /\ versions' = Append(versions, [event |-> event, follows |-> n])
  /\ UNCHANGED events

Next ==
  \/ \E event \in Offered : TakeIn(event)
  \/ \E event \in events, n \in 0 .. Len(versions) : Write(event, n)

Spec == Init /\ [][Next]_ledgerVars

LatestOf(paymentID) == Max({0} \cup VersionsOf(paymentID))

SerialNext ==
  \/ \E event \in Offered : TakeIn(event)
  \/ \E event \in events : Write(event, LatestOf(event.PaymentID))

SerialSpec == Init /\ [][SerialNext]_ledgerVars
==============================================================================
