--------------------------- MODULE AccountRouting ---------------------------
(***************************************************************************)
(* The choice between the ChatGPT account and the custom providers, of     *)
(* routing/account-routing.mjs: which requests the account may serve, and  *)
(* until when it is left alone.                                            *)
(***************************************************************************)
EXTENDS Integers, Sequences, FiniteSets

CONSTANTS
  ImageModels,        \* the models of the Image API, among the models
  AccountCooldown,    \* ACCOUNT_429_FALLBACK_COOLDOWN_MS, in ticks of the clock
  AccountStateMaxAge  \* ACCOUNT_STATE_MAX_AGE_MS

ASSUME AccountAssumption == AccountCooldown \in Nat /\ AccountStateMaxAge \in Nat

Operations == {"responses", "chat/completions", "images/generations", "images/edits",
               "models", "other"}
Formats == {"json", "multipart", "unsupported"}
AuthModes == {"chatgpt", "apikey", "unknown"}
QuotaStatuses == {"available", "exhausted", "unknown"}

\* isValidAccountRoutingState, times in ticks and 0 for null.
AccountStates ==
  [authMode : AuthModes, quotaStatus : QuotaStatuses, blockedUntil : Nat, updatedAt : Nat]

AccountSupportsOperation(op) ==
  op \in {"responses", "images/generations", "images/edits", "models"}

\* allowUnknown: the model was not looked at yet; null is known when it is missing.
AccountSupportsModel(op, model, null, allowUnknown) ==
  \/ op = "models"
  \/ model = null /\ allowUnknown
  \/ model # null /\ (model \in ImageModels <=> op \in {"images/generations", "images/edits"})

AccountSupportsRequestFormat(op, format) ==
  op = "images/edits" => format \in {"json", "multipart"}

\* The reasons to leave the account, in the order they are looked for.
Objections(mode, k, account, model, null, known, localUntil, time) ==
  << <<"custom_only", mode = "custom_only">>,
     <<"unsupported_path", k.operation = "other">>,
     <<"unsupported_method", ~k.method>>,
     <<"unsupported_operation", ~AccountSupportsOperation(k.operation)>>,
     <<"unsupported_request_format", ~AccountSupportsRequestFormat(k.operation, k.format)>>,
     <<"account_headers_missing", ~k.headers>>,
     <<"not_chatgpt_auth", account.authMode = "apikey">>,
     <<"account_cooldown", localUntil > time>>,
     <<"account_quota_exhausted",
       \/ account.blockedUntil > time
       \/ /\ account.updatedAt > 0 /\ time <= account.updatedAt + AccountStateMaxAge
          /\ account.quotaStatus = "exhausted">>,
     <<"unsupported_account_model",
       ~AccountSupportsModel(k.operation, model, null, ~known)>> >>

\* decideUpstreamRoute
DecideUpstreamRoute(mode, k, account, model, null, known, localUntil, time) ==
  LET objections == Objections(mode, k, account, model, null, known, localUntil, time)
      held == {i \in DOMAIN objections : objections[i][2]}
  IN IF held = {} THEN [route |-> "account", reason |-> "account_eligible"]
     ELSE [route |-> "custom",
           reason |-> objections[CHOOSE i \in held : \A j \in held : i <= j][1]]

------------------------
(* The quota headers of an answer: what each window says, if it is there.    *)

NoReset == 0 - 1
Windows == [used : {"unknown", "some", "full"}, reset : {NoReset} \union Nat]

Latest(S) == CHOOSE n \in S : \A i \in S : i <= n

\* parseCodexQuotaHeaders: null is the empty set of windows.
QuotaStatus(windows) ==
  IF windows = {} THEN "absent"
  ELSE IF \E w \in windows : w.used = "full" THEN "exhausted" ELSE "available"

Resets(windows) == {w.reset : w \in windows} \ {NoReset}

QuotaBlockedUntil(windows, time) ==
  LET resets == Resets({w \in windows : w.used = "full"})
  IN IF resets = {} THEN 0 ELSE time + Latest(resets)

\* account429Cooldown
Account429Until(windows, time) ==
  IF QuotaBlockedUntil(windows, time) # 0 THEN QuotaBlockedUntil(windows, time)
  ELSE IF Resets(windows) # {} THEN time + Latest(Resets(windows))
  ELSE time + AccountCooldown

\* onUpstreamResponse: the account's block after an answer of the account.
BlockAfter(until, status, windows, time) ==
  IF status = 429 THEN Account429Until(windows, time)
  ELSE IF QuotaBlockedUntil(windows, time) # 0 THEN QuotaBlockedUntil(windows, time)
  ELSE IF status \in 200..299 /\ QuotaStatus(windows) = "available" THEN 0
  ELSE until
=============================================================================
