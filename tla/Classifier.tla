----------------------------- MODULE Classifier -----------------------------
(***************************************************************************)
(* RootCauseClassifier (app/classifier.py): a code of the closed           *)
(* vocabulary passes, anything else is shown to a model whose answer is    *)
(* taken, discarded or lost.  What a model answers is up to the model.     *)
(***************************************************************************)
EXTENDS Integers

CanonicalCodes ==
    { "INSUFFICIENT_FUNDS", "ISSUER_UNAVAILABLE", "GATEWAY_ERROR",
      "CARD_EXPIRED", "ACCOUNT_CLOSED", "INVALID_VPA", "MANDATE_CANCELLED",
      "DO_NOT_HONOUR", "SUSPECTED_FRAUD", "CHARGEBACK_OPEN" }

\* What provider.classify() may come to: a label of the enum, sure of it or
\* not; an answer outside the schema; no answer.  The keyword table always
\* answers inside it.
Answers(provider, labels) ==
    [ kind : { "confident", "unsure" }, label : labels ]
    \cup (IF provider = "keyword" THEN {}
          ELSE [ kind : { "invalid", "unreachable" }, label : { "none" } ])

\* Mutant: an answer that was discarded is asked for again.
BadVerdict(answer) == answer.kind = "confident"

\* A transport failure is not a verdict; everything else is, and is kept.
Verdict(answer) == answer.kind # "unreachable"

\* Below the confidence floor the label is thrown away.
Label(answer) == IF answer.kind = "confident" THEN answer.label ELSE "none"

\* normalise(), with the answer a model would give: cache holds the verdicts
\* as << code, message, label >>, calls counts what the model was asked for.
Normalise(provider, cache, code, message, answer) ==
    LET known == { v \in cache : v[1] = code /\ v[2] = message }
    IN CASE code \in CanonicalCodes ->
              [ label |-> code, cache |-> cache, calls |-> 0, errors |-> 0 ]
         [] code \notin CanonicalCodes /\ provider = "none" ->
              [ label |-> "none", cache |-> cache, calls |-> 0, errors |-> 0 ]
         [] code \notin CanonicalCodes /\ provider # "none" /\ known # {} ->
              [ label |-> (CHOOSE v \in known : TRUE)[3], cache |-> cache,
                calls |-> 0, errors |-> 0 ]
         [] OTHER ->
              [ label |-> Label(answer),
                cache |-> IF Verdict(answer)
                          THEN cache \cup { << code, message, Label(answer) >> }
                          ELSE cache,
                calls |-> 1,
                errors |-> IF answer.kind = "unreachable" THEN 1 ELSE 0 ]

=============================================================================
