--------------------------- MODULE MCProxyRequest ---------------------------
(***************************************************************************)
(* The proxy with one request that is followed among others, two providers *)
(* and three models.                                                       *)
(***************************************************************************)
EXTENDS RoutePreview, TLC

CONSTANTS p1, p2, text, mapped, image

Plain == [m \in Models |-> NoModel]
Open(w) == [weight |-> w, override |-> NoModel, mapping |-> Plain,
            supported |-> Models, disabled |-> {}]

\* One that maps, before one that serves fewer models and that a rule prefers for one of
\* them; and two of the same weight, the first with an override, without the account.
MCConfigurations ==
  LET order == <<p1, p2>>
      noRules == [m \in Models |-> NoRule]
  IN { [mode |-> "account_first", order |-> order,
        rules |-> [noRules EXCEPT ![text] = <<p2>>],
        policy |-> (p1 :> [Open(2) EXCEPT !.disabled = {mapped}, !.mapping[text] = image]
                    @@ p2 :> [Open(1) EXCEPT !.supported = {text, mapped}])],
       [mode |-> "custom_only", order |-> order, rules |-> noRules,
        policy |-> (p1 :> [Open(2) EXCEPT !.override = mapped] @@ p2 :> Open(2))] }

Request(operation, model) ==
  [operation |-> operation, format |-> "json", method |-> TRUE, headers |-> TRUE,
   model |-> model, large |-> FALSE, readable |-> model # NoModel, early |-> FALSE]

MCKinds ==
  { Request("responses", text), Request("models", NoModel),
    Request("images/edits", image),
    [Request("responses", text) EXCEPT !.large = TRUE, !.early = TRUE],
    [Request("images/edits", image) EXCEPT !.large = TRUE],
    [Request("images/edits", image) EXCEPT !.format = "unsupported"] }

MCAccounts ==
  { [authMode |-> "chatgpt", quotaStatus |-> "available", blockedUntil |-> 0, updatedAt |-> 1],
    [authMode |-> "chatgpt", quotaStatus |-> "exhausted", blockedUntil |-> 0, updatedAt |-> 1] }

MCQuotaHeaders ==
  { {}, {[used |-> "some", reset |-> 1]}, {[used |-> "full", reset |-> 2]} }

MCRetryAfters == {NoRetryAfter, 0}
=============================================================================
