---------------------------- MODULE MCRecovery ------------------------------
(* Instances of Recovery for TLC.                                           *)
EXTENDS RecoveryProps, TLC

CONSTANTS c1, c2, c3, alice, w1, w2

\* One customer behind every invoice.
OneCustomer == [ k \in Cases |-> alice ]

\* Invoices of one customer are interchangeable.
InvoiceSymmetry == Permutations(Cases)

\* Webhook types of the runs.
LifecycleKinds ==
    { "payment.failed", "payment.authorized", "payment.captured",
      "payment_link.paid", "payment_link.partially_paid",
      "payment_link.cancelled", "payment_link.expired",
      "payment.dispute.created" }

CrashKinds ==
    { "payment.failed", "payment.captured", "payment_link.cancelled" }

DisputeKinds == { "payment.failed", "payment.dispute.created" }

=============================================================================
