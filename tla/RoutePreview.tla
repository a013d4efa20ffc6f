---------------------------- MODULE RoutePreview ----------------------------
(***************************************************************************)
(* The route preview of routing/route-preview.mjs: what the Overview page  *)
(* says a request for a model would meet.  It decides on its own, over the *)
(* Worker's settings, account state, cooldowns and block.                  *)
(***************************************************************************)
EXTENDS ProxyRequest

RouteOperations == {"responses", "chat/completions", "images/generations", "images/edits"}

\* Mutant of Preview: the format is looked at before the mode.
MutantPreview(operation, format, model) ==
  LET plan == Plan(settings, model)
  IN IF ~AccountSupportsRequestFormat(operation, format) THEN NoProvider
     ELSE IF plan = <<>> THEN NoProvider ELSE plan[1]

\* buildRoutePreview: the outlet, the account, a provider or NoProvider for unavailable.
Preview(operation, format, model) ==
  LET plan == Plan(settings, model)
      k == [operation |-> operation, format |-> format, method |-> TRUE, headers |-> TRUE]
      decision == DecideUpstreamRoute(settings.mode, k, account, model, NoModel, TRUE,
                                      blockedUntil, now)
  IN IF decision.reason = "unsupported_request_format" THEN NoProvider
     ELSE IF decision.route = "account" THEN "account"
     ELSE IF plan = <<>> THEN NoProvider ELSE plan[1]

\* Where a request that came now would be sent.
Outlet(k) ==
  LET head == Headed(k)
      sent == IF Terminal(head) THEN {}
              ELSE {q \in IF head.how = "preflight" THEN Inspected(head)
                          ELSE PreparedAndCreated(head) : ~Terminal(q)}
  IN IF sent = {} THEN NoProvider ELSE Target(CHOOSE q \in sent : TRUE)

\* route-preview.mjs:149, README.md:63: the preview names the outlet the same request
\* would take now, in every state of the cooldowns, the account and its block.
PreviewTellsTruth ==
  Quiet => \A operation \in RouteOperations, format \in Formats, model \in Models :
    (operation = "images/edits" \/ format = "json")
    => Preview(operation, format, model) =
         Outlet([operation |-> operation, format |-> format, method |-> TRUE,
                 headers |-> TRUE, model |-> model, large |-> FALSE,
                 readable |-> TRUE, early |-> TRUE])
=============================================================================
