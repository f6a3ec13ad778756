------------------------------- MODULE MCApi --------------------------------
(* An instance of Api for TLC: the webhooks of one invoice, each in the     *)
(* shape its event has, and some the route must turn away.                  *)
EXTENDS Api

CONSTANTS r1, r2

Body(event) ==
    [ event |-> event, invoice |-> Missing, subscription |-> Missing,
      order |-> Missing, payment_order |-> Missing, link_reference |-> Missing,
      link |-> Missing, dispute_order |-> Missing, refund_order |-> Missing,
      bank |-> Missing, card_issuer |-> Missing, wallet |-> Missing,
      amount |-> Missing, link_amount |-> Missing, reversal_amount |-> Missing,
      created_at |-> Missing, code |-> Missing, captured |-> FALSE ]

Request(body, flaws) == [ invoice |-> "order_1", body |-> body, flaws |-> flaws ]

Declined(code, amount) ==
    [ Body("payment.failed") EXCEPT !.payment_order = "order_1",
        !.card_issuer = "hdfc", !.amount = amount, !.code = code ]

\* A decline, a second one under a code nobody knows, the capture, the
\* expiry of the link, a dispute; an event without a handler, and a request
\* that is too large.
MCHook ==
    [ w \in 1 .. 7 |->
    CASE w = 1 -> Request(Declined("CARD_EXPIRED", 499), {})
      [] w = 2 -> Request(Declined("UNLISTED", Junk), {})
      [] w = 3 ->
           Request([ Body("order.paid") EXCEPT !.order = "order_1",
                       !.created_at = Junk, !.captured = TRUE ], {})
      [] w = 4 ->
           Request([ Body("payment_link.expired") EXCEPT
                       !.link_reference = "order_1", !.link = "plink_1",
                       !.link_amount = 499 ], {})
      [] w = 5 ->
           Request([ Body("payment.dispute.created") EXCEPT
                       !.dispute_order = "order_1", !.reversal_amount = 10 ], {})
      [] w = 6 -> Request(Body("invoice.expired"), {})
      [] w = 7 ->
           Request(Declined("CARD_EXPIRED", 499), { "too_large", "bad_signature" }) ]

=============================================================================
