---------------------------- MODULE ProxyRequest ----------------------------
(***************************************************************************)
(* The proxy server of server.mjs: requests of Codex, each sent to the     *)
(* ChatGPT account or to a custom provider, and sent once more only where  *)
(* that cannot deliver it twice.                                           *)
(*                                                                         *)
(* A request is a record of "requests": the closure createServer makes for *)
(* it.  An action is one callback of Node for one request: the head of the *)
(* request, a chunk of its body, its end, a socket, an answer, a timer, an *)
(* error, a disconnect.  The settings, the account state, the account's    *)
(* block and the providers' cooldowns are shared; the first two are read   *)
(* once per request.  Requests that are not followed show in what their    *)
(* answers and errors do to the shared state: OtherResponds, OtherErrors.  *)
(***************************************************************************)
EXTENDS ProviderScheduler, AccountRouting

CONSTANTS
  Requests,           \* bound: the requests, each made once
  Kinds,              \* bound: what a request can be, see KindType
  Configurations,     \* bound: the snapshots the Worker may be given
  InitialAccounts,    \* bound: the account states the Worker may be told of
  Statuses,           \* bound: statuses of answers
  RetryAfters,        \* bound: Retry-After of a 429
  QuotaHeaders,       \* bound: sets of quota windows of an answer of the account
  MaxOthers,          \* bound: answers to requests that are not followed
  MaxNow              \* bound: the clock

ASSUME AccountsAssumption == InitialAccounts \subseteq AccountStates
ASSUME ConfigurationsAssumption ==
  \A cfg \in Configurations :
    /\ cfg.order \in Seq(Providers)
    /\ cfg.rules \in [Models -> Seq(Providers)]
    /\ cfg.policy \in [Configured(cfg) -> Policies]
ASSUME StatusesAssumption == Statuses \subseteq 200..599
ASSUME RetryAftersAssumption == RetryAfters \subseteq Nat \union {NoRetryAfter}
ASSUME QuotasAssumption ==
  \A windows \in QuotaHeaders : windows \subseteq Windows /\ IsFiniteSet(windows)
ASSUME ModelsAssumption == ImageModels \subseteq Models
ASSUME NamesAssumption == "account" \notin Providers \union {NoProvider}

\* A request: method is the one its operation asks for, headers has both account
\* headers, large is a body over the replay limit, readable one whose model can be
\* read (it is NoModel otherwise), early one whose model comes before that limit.
KindType ==
  [operation : Operations, format : Formats, method : BOOLEAN, headers : BOOLEAN,
   model : Models \union {NoModel}, large : BOOLEAN, readable : BOOLEAN, early : BOOLEAN]

ASSUME KindsAssumption ==
  Kinds \subseteq {k \in KindType : ~k.readable => k.model = NoModel}

VARIABLES
  settings,      \* what settingsSource.current() gives
  account,       \* what accountStateSource.current() gives
  blockedUntil,  \* routingState.accountBlockedUntilMs, 0 for null
  requests,      \* the requests
  others         \* bound: answers and errors of other requests so far

vars == <<now, pool, settings, account, blockedUntil, requests, others>>

------------------------
(* The state of a request.  how: the body is collected before it is sent     *)
(* ("preflight", "transform") or piped ("stream").  provider is              *)
(* currentCustomProvider, candidates customCandidates, context what the      *)
(* capture context says of the provider, attempt the upstream request.       *)

NoResponse == [status |-> 0, seen |-> "none", ended |-> FALSE]
NoRecord == [to |-> "none", result |-> "none"]

Idle == [stage |-> "idle"]

\* A provider, the account, or nobody.
Targets == Providers \union {NoProvider, "account"}

Target(q) == IF q.route = "account" THEN "account" ELSE q.provider

\* Mutant of ModelSent: the body is prepared once, for the first candidate.
MutantModelSent(q) ==
  LET policy == q.cfg.policy[q.candidates[1]]
  IN IF q.route = "account" \/ q.kind.operation = "models" THEN q.kind.model
     ELSE IF policy.override # NoModel THEN policy.override
     ELSE TargetModel(policy, q.kind.model)

\* The model the current provider is asked for; the account gets what the client sent.
ModelSent(q) ==
  LET policy == q.cfg.policy[q.provider]
  IN IF q.route = "account" \/ q.kind.operation = "models" THEN q.kind.model
     ELSE IF policy.override # NoModel THEN policy.override
     ELSE TargetModel(policy, q.kind.model)

\* modelTransformRequired
Transforms(q) ==
  /\ q.provider # NoProvider /\ q.kind.operation # "models"
  /\ LET policy == q.cfg.policy[q.provider]
     IN policy.override # NoModel \/ \E m \in Models : policy.mapping[m] # NoModel

\* modelAwareRouting
ModelAware(cfg) ==
  \/ \E m \in Models : cfg.rules[m] # NoRule
  \/ \E p \in Configured(cfg) :
       cfg.policy[p].supported # Models \/ cfg.policy[p].disabled # {}

\* customModelTransformationConfigured
AnyTransforms(cfg) ==
  \E p \in Configured(cfg) :
    \/ cfg.policy[p].override # NoModel
    \/ \E m \in Models : cfg.policy[p].mapping[m] # NoModel

EditsPreflight(q) ==
  /\ q.cfg.mode = "account_first" /\ q.kind.operation = "images/edits"
  /\ q.kind.method /\ q.kind.format # "unsupported"

\* decideRouteForModel: the block and the clock are read again, the account is not.
Decide(q, model, known) ==
  DecideUpstreamRoute(q.cfg.mode, q.kind, q.account, model, NoModel, known,
                      blockedUntil, now)

------------------------
(* Endings.  finalizeCapture and finalizeMetric count in captured, metered;  *)
(* a custom request that has no provider has no metric.                      *)

\* What is left of a request that is over: the facts the properties speak of.
Ended(q) ==
  [stage |-> "done", kind |-> q.kind, cfg |-> q.cfg, delivered |-> q.delivered,
   captured |-> q.captured, metered |-> q.metered, got |-> q.got]

Finalized(q, result, error) ==
  [Ended(q) EXCEPT
     !.captured = Append(@, [to |-> IF q.context = "none" THEN Target(q) ELSE q.context,
                             result |-> error]),
     !.metered = IF q.route = "custom" /\ q.provider = NoProvider THEN @
                 ELSE Append(@, [to |-> Target(q), result |-> result])]

Terminal(q) == q.stage = "done"

\* finishProxyFailure: the client gets "code", or a cut connection.
ProxyFailure(q, code, result) ==
  IF Terminal(q) THEN q
  ELSE [Finalized(q, result, "error") EXCEPT !.got = IF q.headersSent THEN "cut" ELSE code]

\* metricResultForStatus, and inspectCompletedResponse for a responses request.
StatusResult(status) ==
  IF status \in 200..299 THEN "success"
  ELSE IF status \in 400..499 THEN "upstreamRejected" ELSE "upstreamError"

ResponseResult(q) ==
  IF /\ StatusResult(q.response.status) = "success"
     /\ q.kind.operation = "responses" /\ q.response.seen # "success"
  THEN "upstreamError" ELSE StatusResult(q.response.status)

FailureResult(q) == IF q.timedOut THEN "timeout" ELSE "networkError"
FailureCode(q) == IF q.timedOut THEN "504" ELSE "502"

------------------------
(* Sending. *)

\* Mutant of OnCustom: the capture context still names the one that failed.
MutantOnCustom(q, i) ==
  [q EXCEPT !.route = "custom", !.provider = q.candidates[i], !.index = i,
     !.connected = FALSE, !.timedOut = FALSE, !.response = NoResponse]

\* switchToCustomRoute
OnCustom(q, i) ==
  [q EXCEPT !.route = "custom", !.provider = q.candidates[i], !.index = i,
     !.connected = FALSE, !.timedOut = FALSE, !.response = NoResponse,
     !.context = IF @ = "none" THEN @ ELSE q.candidates[i]]

NoCustom(q) ==
  [q EXCEPT !.route = "custom", !.provider = NoProvider, !.candidates = <<>>, !.index = 0,
     !.context = IF @ = "none" THEN @ ELSE NoProvider]

\* selectCustomCandidatesForModel, failUnsupportedCustomModel
SelectCustom(q, m) ==
  LET plan == Plan(q.cfg, m)
  IN IF plan = <<>> THEN ProxyFailure(NoCustom(q), "503", "upstreamError")
     ELSE OnCustom([q EXCEPT !.candidates = plan], 1)

\* The results of prepareCustomModelBody: TRUE with a body, FALSE with an answer of its own.
Prepares(q) ==
  IF ~Transforms(q) \/ q.kind.readable THEN {TRUE}
  ELSE IF q.cfg.policy[q.provider].override # NoModel THEN {FALSE} ELSE {TRUE, FALSE}

\* The results of createUpstreamRequest: a request, or what transport.request throws,
\* which has none of the codes that are sent again.
Created(q) ==
  IF Terminal(q) THEN {q}
  ELSE {[q EXCEPT !.attempt = "connecting", !.connected = FALSE,
           !.context = IF @ = "none" THEN Target(q) ELSE @],
        ProxyFailure(q, "502", "networkError")}

PreparedAndCreated(q) ==
  IF Terminal(q) THEN {q}
  ELSE UNION {IF ok THEN Created(q) ELSE {ProxyFailure(q, "400", "upstreamError")} :
                ok \in Prepares(q)}

------------------------
(* The head of a request. *)

NewRequest(k, cfg) ==
  [stage |-> "reading", kind |-> k, cfg |-> cfg, account |-> account,
   how |-> "stream", streaming |-> FALSE, ended |-> FALSE, replay |-> FALSE,
   route |-> "custom", provider |-> NoProvider, candidates |-> <<>>, index |-> 0,
   initialAccount |-> FALSE, attempt |-> "none", connected |-> FALSE,
   timedOut |-> FALSE, response |-> NoResponse, headersSent |-> FALSE,
   context |-> "none", captured |-> <<>>, metered |-> <<>>, got |-> "nothing",
   delivered |-> <<>>]

\* The request as the head leaves it.
Headed(k) ==
  LET q == NewRequest(k, settings)
      plan == Plan(settings, NoModel)
      decision == Decide(q, NoModel, FALSE)
      onAccount == decision.route = "account"
      first == IF plan = <<>> THEN NoProvider ELSE plan[1]
      r == [q EXCEPT !.route = decision.route, !.initialAccount = onAccount,
                     !.provider = first, !.candidates = plan,
                     !.index = IF plan = <<>> THEN 0 ELSE 1]
  IN IF decision.reason = "unsupported_request_format"
     THEN ProxyFailure(NoCustom(r), "415", "upstreamError")
     ELSE IF ~onAccount /\ first = NoProvider /\ ~EditsPreflight(r)
     THEN [Ended(r) EXCEPT !.got = "503"]
     ELSE [r EXCEPT !.how =
             IF \/ onAccount \/ EditsPreflight(r) \/ ModelAware(settings)
                \/ k.operation = "responses" /\ Len(plan) > 1 THEN "preflight"
             ELSE IF Transforms(r) THEN "transform" ELSE "stream"]

Accept(r, k) ==
  /\ requests[r] = Idle
  /\ requests' = [requests EXCEPT ![r] = Headed(k)]
  /\ UNCHANGED <<now, pool, settings, account, blockedUntil, others>>

\* requestAccessAuthorization refuses the request, or the Worker has no settings yet:
\* it is answered before anything is recorded of it.
Refuse(r, k) ==
  /\ requests[r] = Idle
  /\ requests' = [requests EXCEPT ![r] =
       [Ended(NewRequest(k, settings)) EXCEPT !.got = "refused"]]
  /\ UNCHANGED <<now, pool, settings, account, blockedUntil, others>>

------------------------
(* The body of a request. *)

Step(r, outcomes) ==
  /\ \E q \in outcomes : requests' = [requests EXCEPT ![r] = q]
  /\ UNCHANGED <<now, pool, settings, account, blockedUntil, others>>

Reading(r) == requests[r].stage = "reading" /\ ~requests[r].ended

\* createTopLevelJsonInspector: the model, when it stood in the part that came so far.
EarlyModel(k) == IF k.early THEN k.model ELSE NoModel

\* The model, if what came so far was inspected as it came and has it.
SeenEarly(q) ==
  IF ~EditsPreflight(q) /\ (q.initialAccount \/ ~Transforms(q))
  THEN EarlyModel(q.kind) ELSE NoModel

Streaming(q) == IF Terminal(q) THEN q ELSE [q EXCEPT !.streaming = TRUE]

\* A preflight body outgrows the replay buffer: from here on it is streamed to a custom
\* provider, unless its model decides where it must go or has to be rewritten.
Overflowed(q) ==
  LET seen == SeenEarly(q)
      unrouted == IF q.initialAccount \/ EditsPreflight(q) THEN NoCustom(q) ELSE q
      s == Streaming(SelectCustom(unrouted, seen))
  IN IF \/ EditsPreflight(q) /\ (ModelAware(q.cfg) \/ AnyTransforms(q.cfg))
        \/ ModelAware(q.cfg) /\ seen = NoModel
     THEN {ProxyFailure(unrouted, "413", "upstreamError")}
     ELSE IF Terminal(s) THEN {s}
     ELSE IF Transforms(s) THEN {ProxyFailure(s, "413", "upstreamError")}
     ELSE Created(s)

BodyOverflows(r) ==
  LET q == requests[r]
  IN /\ Reading(r) /\ q.kind.large /\ q.how = "preflight" /\ ~q.streaming
     /\ Step(r, Overflowed(q))

\* modelTransformCollector is truncated.
TransformOverflows(r) ==
  /\ Reading(r) /\ requests[r].kind.large /\ requests[r].how = "transform"
  /\ Step(r, {ProxyFailure(requests[r], "413", "upstreamError")})

\* The first chunk of a body that is piped creates the upstream request.
FirstChunk(r) ==
  /\ Reading(r) /\ requests[r].how = "stream" /\ requests[r].attempt = "none"
  /\ Step(r, Created(requests[r]))

\* A preflight body is there as a whole: its model is known, or known to be missing.
Inspected(q) ==
  LET whole == [q EXCEPT !.ended = TRUE, !.replay = TRUE]
      custom == ~q.initialAccount \/ Decide(q, q.kind.model, TRUE).route = "custom"
  IN IF EditsPreflight(q) /\ q.kind.model = NoModel
     THEN {ProxyFailure(NoCustom(whole), "400", "upstreamError")}
     ELSE IF custom THEN PreparedAndCreated(SelectCustom(whole, q.kind.model))
     ELSE Created(whole)

\* Mutant of BodyEnds: the route chosen at the head is kept.
MutantBodyEnds(r) ==
  LET q == requests[r]
      whole == [q EXCEPT !.ended = TRUE]
  IN /\ Reading(r)
     /\ \/ /\ q.how = "preflight" /\ ~q.streaming /\ ~q.kind.large
           /\ Step(r, IF q.initialAccount THEN Created([whole EXCEPT !.replay = TRUE])
                      ELSE Inspected(q))
        \/ q.how = "transform" /\ ~q.kind.large /\ Step(r, PreparedAndCreated(whole))
        \/ q.attempt # "none" /\ Step(r, {whole})
        \/ q.how = "stream" /\ q.attempt = "none" /\ ~q.kind.large /\ Step(r, Created(whole))

BodyEnds(r) ==
  LET q == requests[r]
      whole == [q EXCEPT !.ended = TRUE]
  IN /\ Reading(r)
     /\ \/ /\ q.how = "preflight" /\ ~q.streaming /\ ~q.kind.large
           /\ Step(r, Inspected(q))
        \/ q.how = "transform" /\ ~q.kind.large /\ Step(r, PreparedAndCreated(whole))
        \/ q.attempt # "none" /\ Step(r, {whole})
        \/ q.how = "stream" /\ q.attempt = "none" /\ ~q.kind.large /\ Step(r, Created(whole))

------------------------
(* The upstream request.  A given-up one is destroyed and its callbacks look *)
(* at upstreamRequest first: only the current one has actions.               *)

Sent(q, status) ==
  Append(q.delivered, [to |-> Target(q), model |-> ModelSent(q), status |-> status])

\* The socket is established: from now on bytes of the body may be with the upstream.
Connects(r) ==
  /\ requests[r].attempt = "connecting"
  /\ Step(r, {[requests[r] EXCEPT !.attempt = "connected", !.connected = TRUE,
                                  !.delivered = Sent(requests[r], 0)]})

\* Mutant of Timeout: the timer is for the connection and the head of the answer only.
MutantTimeout(r) ==
  /\ requests[r].attempt \in {"connecting", "connected"}
  /\ Step(r, {[requests[r] EXCEPT !.timedOut = TRUE, !.attempt = "destroyed"]})

\* The timer of setTimeout destroys the upstream request.
Timeout(r) ==
  /\ requests[r].attempt \in {"connecting", "connected", "answered"}
  /\ ~requests[r].response.ended
  /\ Step(r, {[requests[r] EXCEPT !.timedOut = TRUE,
                !.attempt = IF @ = "answered" THEN "broken" ELSE "destroyed"]})

\* Mutant of MayRetry: a connection that broke after the body was sent is tried again.
MutantMayRetry(q, retryable) ==
  /\ retryable /\ q.kind.operation = "responses" /\ q.replay
  /\ q.index < Len(q.candidates)

MayRetry(q, retryable) ==
  /\ retryable /\ q.kind.operation = "responses" /\ ~q.connected /\ q.replay
  /\ q.index < Len(q.candidates)

\* The upstream request emits an error: "retryable" is one of the transport codes.
UpstreamErrors(r, retryable) ==
  LET q == requests[r]
  IN /\ q.attempt \in {"connecting", "connected", "destroyed"}
     /\ q.attempt = "destroyed" => retryable
     /\ pool' = IF q.route = "custom" /\ retryable
                THEN MarkedTransportFailure(q.provider) ELSE pool
     /\ \E s \in IF q.route = "custom" /\ MayRetry(q, retryable)
                 THEN PreparedAndCreated(OnCustom(q, q.index + 1))
                 ELSE {ProxyFailure(q, FailureCode(q), FailureResult(q))} :
          requests' = [requests EXCEPT ![r] = s]
     /\ UNCHANGED <<now, settings, account, blockedUntil, others>>

WithStatus(q, status) ==
  [q EXCEPT !.delivered[Len(q.delivered)].status = status]

Responding(q, status) ==
  [WithStatus(q, status) EXCEPT !.attempt = "answered",
     !.response = [NoResponse EXCEPT !.status = status]]

\* onUpstreamResponse for the account: its block, and the way back from a 429.
AccountResponds(r, status, windows) ==
  LET q == requests[r]
  IN /\ q.attempt = "connected" /\ q.route = "account"
     /\ blockedUntil' = BlockAfter(blockedUntil, status, windows, now)
     /\ \E s \in IF status = 429 /\ q.kind.operation # "images/edits" /\ q.replay
                 THEN PreparedAndCreated(SelectCustom(WithStatus(q, 429), q.kind.model))
                 ELSE {Responding(q, status)} :
          requests' = [requests EXCEPT ![r] = s]
     /\ UNCHANGED <<now, pool, settings, account, others>>

ProviderResponds(r, status, retryAfter) ==
  LET q == requests[r]
  IN /\ q.attempt = "connected" /\ q.route = "custom"
     /\ pool' = MarkedResponse(q.provider, status, retryAfter)
     /\ requests' = [requests EXCEPT ![r] = Responding(q, status)]
     /\ UNCHANGED <<now, settings, account, blockedUntil, others>>

------------------------
(* The answer. *)

Answering(q) == q.attempt = "answered" /\ ~q.response.ended

\* createSseInspector: what the events so far say of the response; a failure stays one.
SeenAfter(seen) ==
  IF seen = "failure" THEN {"failure"} ELSE {seen, "success", "failure"}

\* Data passes to the client; a terminal event may be among it.
ResponseData(r, seen) ==
  /\ Answering(requests[r]) /\ seen \in SeenAfter(requests[r].response.seen)
  /\ requests[r].headersSent => seen # requests[r].response.seen
  /\ Step(r, {[requests[r] EXCEPT !.headersSent = TRUE, !.response.seen = seen]})

ResponseEnds(r) ==
  /\ Answering(requests[r])
  /\ Step(r, {[requests[r] EXCEPT !.headersSent = TRUE, !.response.ended = TRUE]})

\* The client has the whole answer: maybeCompleteResponse.
DownstreamFinishes(r) ==
  LET q == requests[r]
  IN /\ q.attempt = "answered" /\ q.response.ended
     /\ Step(r, {[Finalized(q, ResponseResult(q), "none") EXCEPT !.got = "answer"]})

\* aborted, error or close of an answer that had not ended.
ResponseBreaks(r) ==
  LET q == requests[r]
  IN /\ Answering(q) \/ q.attempt = "broken"
     /\ Step(r, {ProxyFailure(q, FailureCode(q), FailureResult(q))})

\* The timer's error comes from the request before the answer notices.
BrokenErrors(r) ==
  LET q == requests[r]
  IN /\ q.attempt = "broken"
     /\ pool' = IF q.route = "custom" THEN MarkedTransportFailure(q.provider) ELSE pool
     /\ requests' = [requests EXCEPT ![r] = ProxyFailure(q, "504", "timeout")]
     /\ UNCHANGED <<now, settings, account, blockedUntil, others>>

\* handleClientAbort: a response whose completion was seen is a success all the same.
ClientAborts(r) ==
  LET q == requests[r]
  IN /\ q.stage = "reading"
     /\ Step(r, {[IF q.response.status # 0 /\ q.response.seen = "success"
                  THEN Finalized(q, "success", "none")
                  ELSE Finalized(q, "clientAbort", "error") EXCEPT !.got = "gone"]})

------------------------
(* Other requests, the Worker's messages and the clock. *)

Other ==
  /\ others < MaxOthers
  /\ others' = others + 1
  /\ UNCHANGED <<now, settings, account, requests>>

OtherResponds ==
  /\ Other
  /\ \E status \in Statuses :
       \/ /\ \E p \in Providers, a \in RetryAfters : pool' = MarkedResponse(p, status, a)
          /\ UNCHANGED blockedUntil
       \/ /\ \E w \in QuotaHeaders : blockedUntil' = BlockAfter(blockedUntil, status, w, now)
          /\ UNCHANGED pool

OtherErrors ==
  /\ Other
  /\ \E p \in Providers : pool' = MarkedTransportFailure(p)
  /\ UNCHANGED blockedUntil

Configure(cfg) ==
  /\ cfg # settings
  /\ settings' = cfg
  /\ UNCHANGED <<now, pool, account, blockedUntil, requests, others>>

ApplyAccountState(a) ==
  /\ a # account
  /\ account' = a
  /\ UNCHANGED <<now, pool, settings, blockedUntil, requests, others>>

Tick ==
  /\ now < MaxNow
  /\ now' = now + 1
  /\ UNCHANGED <<pool, settings, account, blockedUntil, requests, others>>

Init ==
  /\ now = 1 /\ SchedulerInit
  /\ settings \in Configurations /\ account \in InitialAccounts
  /\ blockedUntil = 0 /\ others = 0
  /\ requests = [r \in Requests |-> Idle]

Live(r) == requests[r].stage = "reading"

RequestStep(r) ==
  \/ \E k \in Kinds : Accept(r, k)
  \/ \E k \in Kinds : Refuse(r, k)
  \/ /\ Live(r)
     /\ \/ BodyOverflows(r)
        \/ TransformOverflows(r)
        \/ FirstChunk(r)
        \/ BodyEnds(r)
        \/ Connects(r)
        \/ Timeout(r)
        \/ \E retryable \in BOOLEAN : UpstreamErrors(r, retryable)
        \/ \E status \in Statuses, w \in QuotaHeaders : AccountResponds(r, status, w)
        \/ \E status \in Statuses, a \in RetryAfters : ProviderResponds(r, status, a)
        \/ \E seen \in {"none", "success", "failure"} : ResponseData(r, seen)
        \/ ResponseEnds(r)
        \/ DownstreamFinishes(r)
        \/ ResponseBreaks(r)
        \/ BrokenErrors(r)
        \/ ClientAborts(r)

Next ==
  \/ \E r \in Requests : RequestStep(r)
  \/ \E cfg \in Configurations : Configure(cfg)
  \/ \E a \in InitialAccounts : ApplyAccountState(a)
  \/ OtherResponds
  \/ OtherErrors
  \/ Tick

Spec == Init /\ [][Next]_vars

\* Fairness is of a client, who sends the rest of its body and takes the rest of its
\* answer or goes (Node's requestTimeout, the end of the process), of the timer, and of the
\* event that follows when a socket is destroyed.  No upstream has to answer.
FairSpec ==
  /\ Spec
  /\ \A r \in Requests :
       /\ WF_vars(/\ Live(r) /\ requests[r].attempt = "none"
                  /\ BodyOverflows(r) \/ TransformOverflows(r) \/ BodyEnds(r)
                     \/ ClientAborts(r))
       /\ WF_vars(/\ Live(r) /\ requests[r].response.ended
                  /\ DownstreamFinishes(r) \/ ClientAborts(r))
       /\ WF_vars(Live(r) /\ Timeout(r))
       /\ WF_vars(/\ Live(r) /\ requests[r].attempt = "destroyed"
                  /\ UpstreamErrors(r, TRUE))
       /\ WF_vars(/\ Live(r) /\ requests[r].attempt = "broken"
                  /\ ResponseBreaks(r) \/ BrokenErrors(r))

------------------------
(* Properties *)

\* The state of a request holds together: who it is sent to is a candidate, what it
\* waits for exists, and the shared state stays in its bounds.
TypeOK ==
  /\ now \in 1..MaxNow /\ settings \in Configurations /\ account \in InitialAccounts
  /\ blockedUntil \in Nat
  /\ \A p \in Providers : pool[p].failures \in 0..MaxFailures
                          /\ pool[p].until <= now + MaxCooldown
  /\ \A r \in Requests : Live(r) =>
       LET q == requests[r]
       IN /\ q.provider \in Configured(q.cfg) \union {NoProvider}
          /\ q.provider # NoProvider /\ q.index > 0 => q.candidates[q.index] = q.provider
          /\ q.attempt # "none" => Target(q) # NoProvider
          /\ q.attempt = "answered" => q.response.status # 0

\* server.mjs:2633, README.md:47: the body of a request is never with two upstreams,
\* but for the one that the account turned away with a 429, which is no image edit.
DeliveredOnce ==
  \A r \in Requests : Live(r) \/ requests[r].stage = "done" =>
    LET q == requests[r]
    IN \A i \in 1..Len(q.delivered) - 1 :
         /\ q.delivered[i].to = "account" /\ q.delivered[i].status = 429
         /\ q.kind.operation # "images/edits"

\* server.mjs:2391: however end, finish, abort, timer and errors race, a request that
\* was sent has one capture record and one metric when it is over, and none before;
\* both name the upstream it was sent to last, and agree on how it ended.
OneTrueRecord ==
  \A r \in Requests :
    LET q == requests[r]
    IN /\ Live(r) => q.captured = <<>> /\ q.metered = <<>>
       /\ q.stage = "done" =>
            /\ Len(q.captured) <= 1 /\ Len(q.metered) <= Len(q.captured)
            /\ q.delivered # <<>> /\ q.got # "503" /\ q.got # "400" =>
                 /\ Len(q.metered) = 1
                 /\ q.captured[1].to = q.metered[1].to
                 /\ q.got = "answer" => q.captured[1].to = q.delivered[Len(q.delivered)].to
                 /\ q.metered[1].result \in {"clientAbort", "timeout", "networkError"}
                      => q.captured[1].result = "error"

\* server.mjs:1957, 2110: the request keeps the snapshot it started with; each provider it
\* is sent to serves its model, under the name that provider's own policy gives it,
\* also after a failover, and the account gets only what it supports, unchanged.
SentAsConfigured ==
  \A r \in Requests : Live(r) \/ requests[r].stage = "done" =>
    LET q == requests[r]
    IN \A i \in DOMAIN q.delivered :
         LET d == q.delivered[i]
         IN IF d.to = "account"
            THEN /\ q.kind.headers /\ d.model = q.kind.model
                 /\ AccountSupportsModel(q.kind.operation, d.model, NoModel, FALSE)
            ELSE /\ d.to \in Configured(q.cfg)
                 /\ q.kind.operation # "models" /\ q.kind.model # NoModel =>
                      d.model = TargetModel(q.cfg.policy[d.to], q.kind.model)
                 /\ d.model # NoModel /\ q.kind.model # NoModel
                      /\ q.kind.operation # "models" => Supports(q.cfg.policy[d.to], q.kind.model)

\* server.mjs:2456: no request is sent to the account while a 429 or a spent quota that
\* any request has learnt of blocks it, though the request was accepted before.
AccountLeftAlone ==
  [][\A r \in Requests :
       /\ requests'[r].stage = "reading" /\ requests'[r].attempt = "connecting"
       /\ requests[r].stage = "reading" => requests[r].attempt = "none"
       /\ requests'[r].route = "account"
       => blockedUntil <= now]_vars

\* No request is in progress.  Any request can be aborted, so that what holds of the
\* shared state whenever it is quiet holds of it always.
Quiet == \A r \in Requests : ~Live(r)

\* provider-scheduler.mjs:158: a model that somebody serves has somebody to serve it,
\* whatever is cooling; a provider is left out only while it is cooling, and behind
\* one that is not, or that is free no later.
NobodyLeftOut ==
  Quiet => \A m \in Models \union {NoModel} :
    LET plan == Plan(settings, m)
        planned == {plan[i] : i \in DOMAIN plan}
    IN /\ planned \subseteq Eligible(settings, m)
       /\ Eligible(settings, m) # {} => planned # {}
       /\ \A p \in Eligible(settings, m) \ planned :
            Cooling(p) /\ \E q \in planned : pool[q].until <= pool[p].until

\* server.mjs:2622: every request ends, whatever its upstreams do.
RequestEnds ==
  \A r \in Requests : Live(r) ~> requests[r].stage = "done"
=============================================================================
