---------------------------- MODULE WebhookEvent ----------------------------
(***************************************************************************)
(* Package internal/webhook: the event a provider posts, how its body is   *)
(* parsed and how the signature header is checked.                         *)
(*                                                                         *)
(* A string is an element of Text.  What the code asks of a string is      *)
(* given by two functions: TrimSpace (strings.TrimSpace) and ParseRFC3339  *)
(* (time.Parse, counted in the smallest tick a timestamp can carry, a      *)
(* nanosecond).  HMAC-SHA256 is taken as collision free: a MAC is the pair *)
(* of the body and the secret it was computed from.                        *)
(***************************************************************************)
EXTENDS Integers

CONSTANTS
  Text,            \* the strings that occur in bodies
  Blank,           \* the empty string
  TrimSpace,       \* strings.TrimSpace, a function on Text
  ParseRFC3339,    \* time.Parse(time.RFC3339, _): a tick, or NotATime
  NotATime,        \* the parse error of a timestamp
  NotJSON,         \* a body json.Unmarshal rejects
  NoSignature,     \* a signature header that is missing or blank
  NotHex,          \* a signature header hex.DecodeString rejects
  Secrets          \* the HMAC keys anyone may sign with

ASSUME TextAssumption ==
  /\ Blank \in Text
  /\ TrimSpace \in [Text -> Text]
  /\ TrimSpace[Blank] = Blank
  /\ \A t \in Text : TrimSpace[TrimSpace[t]] = TrimSpace[t]
  /\ ParseRFC3339 \in [Text -> Nat \cup {NotATime}]
  /\ NotATime \notin Nat

Statuses == {"pending", "authorized", "paid", "failed", "expired", "cancelled",
             "partially_refunded", "refunded", "disputed", "chargeback"}

EventTypes == {"payment.pending", "payment.authorized", "payment.paid",
               "payment.failed", "payment.expired", "payment.cancelled",
               "payment.partially_refunded", "payment.refunded",
               "payment.disputed", "payment.chargeback"}

\* mapEventTypeToStatus, on the types it knows.
StatusOf(eventType) ==
  CASE eventType = "payment.pending"            -> "pending"
    [] eventType = "payment.authorized"         -> "authorized"
    [] eventType = "payment.paid"               -> "paid"
    [] eventType = "payment.failed"             -> "failed"
    [] eventType = "payment.expired"            -> "expired"
    [] eventType = "payment.cancelled"          -> "cancelled"
    [] eventType = "payment.partially_refunded" -> "partially_refunded"
    [] eventType = "payment.refunded"           -> "refunded"
    [] eventType = "payment.disputed"           -> "disputed"
    [] eventType = "payment.chargeback"         -> "chargeback"

-----------------------------------------------------------------------------
(* Bodies.  A field the JSON object lacks decodes as Blank.                 *)

Payloads == [provider_event_id : Text, payment_id : Text,
             event_type : Text, event_timestamp : Text]

Bodies == Payloads \cup {NotJSON}

Identifiers == Text \ {Blank}

PaymentEvents == [ProviderEventID : Identifiers, PaymentID : Identifiers,
                  EventType : EventTypes, PaymentStatus : Statuses,
                  EventTimestamp : Nat, RawPayload : Bodies]

\* ParseEvent returns an event for exactly these bodies, an error for the rest.
IsEvent(body) ==
  /\ body # NotJSON
  /\ TrimSpace[body.provider_event_id] # Blank
  /\ TrimSpace[body.payment_id] # Blank
  /\ TrimSpace[body.event_type] \in EventTypes
  /\ TrimSpace[body.event_timestamp] # Blank
  /\ ParseRFC3339[TrimSpace[body.event_timestamp]] # NotATime

ParseEvent(body) ==
  [ProviderEventID |-> TrimSpace[body.provider_event_id],
   PaymentID       |-> TrimSpace[body.payment_id],
   EventType       |-> TrimSpace[body.event_type],
   PaymentStatus   |-> StatusOf(TrimSpace[body.event_type]),
   EventTimestamp  |-> ParseRFC3339[TrimSpace[body.event_timestamp]],
   RawPayload      |-> body]

-----------------------------------------------------------------------------
(* Signatures.  A header stands for the bytes it decodes to.                *)

Signatures == [body : Bodies, secret : Secrets] \cup {NoSignature, NotHex}

computeSignature(rawBody, secret) == [body |-> rawBody, secret |-> secret]

\* Seeded bug: a signature that decodes is not compared.
ValidateSignatureFormat(rawBody, signature, secret) ==
  signature \notin {NoSignature, NotHex}

ValidateSignature(rawBody, signature, secret) ==
  /\ signature \notin {NoSignature, NotHex}
  /\ signature = computeSignature(rawBody, secret)
=============================================================================
