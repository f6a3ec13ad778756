------------------------------ MODULE Copilot -------------------------------
(***************************************************************************)
(* OutreachCopilot (app/ai_copilot.py): a provider proposes a draft, the   *)
(* policy decides whether a merchant may see it as approved.  A draft is   *)
(* the set of things the validator's patterns find in its body (language   *)
(* and tone are never looked at); what a model answers is up to the model. *)
(***************************************************************************)
EXTENDS Integers

\* What the validator's three patterns look for in a body.
Findings == { "model_supplied_url", "unapproved_offer_or_discount",
              "coercive_dunning_language" }

Drafts == SUBSET Findings

TemplateDraft == {}

NonCompliantDraft == Findings

\* What provider.draft() may do.  "invalid": the answer is not of the schema
\* (LLMDraftProvider validates too, so it raises the same ValidationError);
\* "raised": time-out, rate limit, no answer.
Outcome(kind, draft) == [ kind |-> kind, draft |-> draft ]

ProviderOutcomes(provider) ==
    CASE provider = "template" -> { Outcome("draft", TemplateDraft) }
      [] provider = "non_compliant_demo" -> { Outcome("draft", NonCompliantDraft) }
      [] OTHER -> { Outcome("draft", d) : d \in Drafts }
                  \cup { Outcome("invalid", {}), Outcome("raised", {}) }

-----------------------------------------------------------------------------
(* OutreachPolicyValidator and generate_preview *)

\* Mutant: nobody looks for threats.
BadValidate(draft, canonical) ==
    (draft \ { "coercive_dunning_language" })
    \cup (IF canonical THEN {} ELSE { "invalid_canonical_payment_link" })

\* canonical: the link is https, on rzp.io, with a path.
Validate(draft, canonical) ==
    draft \cup (IF canonical THEN {} ELSE { "invalid_canonical_payment_link" })

\* appended: there is a final message, with the link the code put there.
Approve(draft, canonical, by) ==
    LET blocked == Validate(draft, canonical)
    IN [ approved |-> blocked = {}, body |-> draft, blocked |-> blocked,
         appended |-> blocked = {}, drafted_by |-> by ]

InvalidDraft(by) ==
    [ approved |-> FALSE, body |-> {}, blocked |-> { "invalid_structured_draft" },
      appended |-> FALSE, drafted_by |-> by ]

GeneratePreview(provider, outcome, canonical) ==
    CASE outcome.kind = "invalid" -> InvalidDraft(provider)
      [] outcome.kind = "raised" ->
           Approve(TemplateDraft, canonical, "template_after_provider_error")
      [] OTHER -> Approve(outcome.draft, canonical, provider)

=============================================================================
