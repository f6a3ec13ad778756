------------------------------ MODULE Webhook -------------------------------
(***************************************************************************)
(* The edge of the HTTP API (app/api.py): what normalize_webhook makes of  *)
(* a provider's body, and the status the webhook route gives a request     *)
(* before the engine sees it.  A body is the record of the fields that are *)
(* read; Missing is a field the payload does not carry.                    *)
(***************************************************************************)
EXTENDS CaseModel, Sequences, FiniteSets

CONSTANTS
    Missing,
    Junk,            \* a value that is neither absent nor usable
    MaxAmountPaise   \* MAX_AMOUNT_PAISE

ASSUME WebhookAssumption == MaxAmountPaise \in Nat \ {0} /\ Missing # Junk

\* The first field of the list that is present ("a or b or c").
FirstOf(fields) ==
    Head(Append(SelectSeq(fields, LAMBDA field : field # Missing), Missing))

\* Mutant: the link's own id before the invoice it refers to.
BadLogicalKey(b) ==
    FirstOf(<< b.invoice, b.subscription, b.order, b.payment_order, b.link,
               b.link_reference, b.dispute_order, b.refund_order >>)

LogicalKey(b) ==
    FirstOf(<< b.invoice, b.subscription, b.order, b.payment_order,
               b.link_reference, b.link, b.dispute_order, b.refund_order >>)

\* _issuer_of
IssuerOfBody(b) ==
    LET issuer == FirstOf(<< b.bank, b.card_issuer, b.wallet >>)
    IN IF issuer = Missing THEN "unknown" ELSE issuer

\* A negative, unusable or excessive amount never reaches the engine.
AmountPaise(b) ==
    LET raw == FirstOf(<< b.amount, b.link_amount, b.reversal_amount >>)
    IN IF raw \in { Missing, Junk } \/ raw < 0 THEN 0
       ELSE IF raw > MaxAmountPaise THEN MaxAmountPaise
       ELSE raw

\* _occurred_at: a timestamp that is absent or out of range means now.
OccurredAt(b, now) ==
    IF b.created_at \in { Missing, Junk } \/ b.created_at <= 0 THEN now
    ELSE b.created_at

Supported(b) == b.event \in EventTypes

\* normalize_webhook, for a body it accepts.  The engine asks of the amount
\* only whether it is positive.
Normalized(b, now) ==
    [ type |-> b.event, key |-> LogicalKey(b), at |-> OccurredAt(b, now),
      code |-> IF b.code = Missing THEN "none" ELSE b.code,
      amount |-> AmountPaise(b) > 0, captured |-> b.captured,
      link |-> IF b.link = Missing THEN NoLink ELSE 1,
      issuer |-> IssuerOfBody(b) ]

-----------------------------------------------------------------------------
(* razorpay_webhook, up to the call of ingest().  flaws says what is wrong  *)
(* with the request itself.                                                 *)

Flaws == { "too_large", "bad_signature", "no_event_id", "not_json",
           "not_object" }

\* _verify_signature fails closed: without a secret there is no traffic,
\* unless unsigned webhooks were allowed by name.
SignatureStatus(flaws, secret, unsigned) ==
    CASE ~secret /\ ~unsigned -> 503
      [] secret /\ "bad_signature" \in flaws -> 401
      [] OTHER -> 200

\* Mutant: a body that cannot be normalised is a server fault.
BadRouteStatus(b, flaws, secret, unsigned) ==
    LET signature == SignatureStatus(flaws, secret, unsigned)
    IN CASE "too_large" \in flaws -> 413
         [] "too_large" \notin flaws /\ signature # 200 -> signature
         [] flaws \cap (Flaws \ { "too_large", "bad_signature" }) # {} -> 400
         [] ~Supported(b) \/ LogicalKey(b) = Missing -> 500
         [] OTHER -> 200

\* 200: the event is handed to the engine.
RouteStatus(b, flaws, secret, unsigned) ==
    LET signature == SignatureStatus(flaws, secret, unsigned)
    IN IF "too_large" \in flaws THEN 413
       ELSE IF signature # 200 THEN signature
       ELSE IF flaws \cap { "no_event_id", "not_json", "not_object" } # {} THEN 400
       ELSE IF ~Supported(b) \/ LogicalKey(b) = Missing THEN 400
       ELSE 200

=============================================================================
