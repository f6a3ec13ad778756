--------------------------- MODULE CreateContract ---------------------------
(***************************************************************************)
(* What the orchestrator relies on when it calls a PaymentGateway          *)
(* (app/gateway.py): one call at a time per invoice, at most one link per  *)
(* invoice however often the client retries, an answer that tells the      *)
(* truth about the link, and errors that tell nothing about it.            *)
(***************************************************************************)
CONSTANT Invoices

VARIABLES
    link,     \* the invoice's payment link at the provider
    call,     \* the operation the orchestrator is waiting for
    answer,   \* what the last call returned
    asked     \* operations ever requested

vars == << link, call, answer, asked >>

Operations == { "create", "cancel" }
Errors == { "transient", "permanent" }

\* Answers to a cancel: the status of a link that is no longer payable.
ClosedStatuses == { "cancelled", "paid" }

Init ==
    /\ link = [ i \in Invoices |-> "none" ]
    /\ call = [ i \in Invoices |-> "idle" ]
    /\ answer = [ i \in Invoices |-> "none" ]
    /\ asked = [ i \in Invoices |-> {} ]

\* A link is asked for once; only a link the caller was told of is cancelled.
Ask(i, o) ==
    /\ call[i] = "idle"
    /\ IF o = "create" THEN asked[i] = {} ELSE link[i] # "none"
    /\ call' = [ call EXCEPT ![i] = o ]
    /\ asked' = [ asked EXCEPT ![i] = @ \cup { o } ]
    /\ UNCHANGED << link, answer >>

\* The provider acts on a request, possibly long after the call returned.
Make(i) ==
    /\ "create" \in asked[i] /\ link[i] = "none"
    /\ link' = [ link EXCEPT ![i] = "issued" ]
    /\ UNCHANGED << call, answer, asked >>

Revoke(i) ==
    /\ "cancel" \in asked[i] /\ link[i] = "issued"
    /\ link' = [ link EXCEPT ![i] = "cancelled" ]
    /\ UNCHANGED << call, answer, asked >>

Pay(i) ==
    /\ link[i] = "issued"
    /\ link' = [ link EXCEPT ![i] = "paid" ]
    /\ UNCHANGED << call, answer, asked >>

Return(i) ==
    /\ call[i] # "idle"
    /\ \E a \in Errors \cup { "link" } \cup ClosedStatuses :
          /\ a = "link" => call[i] = "create" /\ link[i] # "none"
          /\ a \in ClosedStatuses => call[i] = "cancel" /\ link[i] = a
          /\ answer' = [ answer EXCEPT ![i] = a ]
    /\ call' = [ call EXCEPT ![i] = "idle" ]
    /\ UNCHANGED << link, asked >>

Next == \E i \in Invoices :
    \/ \E o \in Operations : Ask(i, o)
    \/ Make(i) \/ Revoke(i) \/ Pay(i) \/ Return(i)

Spec == Init /\ [][Next]_vars

=============================================================================
