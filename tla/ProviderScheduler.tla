-------------------------- MODULE ProviderScheduler --------------------------
(***************************************************************************)
(* The ProviderScheduler of routing/provider-scheduler.mjs: which custom   *)
(* providers may serve a model, in which order, and how long one is left   *)
(* alone after a failure.  Its state is kept across snapshots: a provider  *)
(* keeps its cooldown whatever the settings in force say of it.            *)
(***************************************************************************)
EXTENDS Integers, Sequences, FiniteSets

CONSTANTS
  Providers, NoProvider,  \* provider ids, null
  Models, NoModel,        \* model names, null
  NetworkCooldown,        \* DEFAULT_NETWORK_COOLDOWN_MS, in ticks of the clock
  ResponseCooldown,       \* DEFAULT_RESPONSE_COOLDOWN_MS
  RateCooldown,           \* 60 s, for a 429 without Retry-After
  MaxCooldown,            \* MAX_COOLDOWN_MS
  MaxFailures             \* 8, from which on the cooldown doubles no more

\* 2 ** (failures - 1)
Doublings == <<1, 2, 4, 8, 16, 32, 64, 128>>

ASSUME ProvidersAssumption == IsFiniteSet(Providers)
ASSUME NullsAssumption == NoProvider \notin Providers /\ NoModel \notin Models
ASSUME CooldownsAssumption ==
  /\ {NetworkCooldown, ResponseCooldown, RateCooldown, MaxCooldown} \subseteq Nat
  /\ MaxFailures \in DOMAIN Doublings

\* What a snapshot says of a provider.  supported is all of Models for null.
Policies ==
  [weight : Nat, override : Models \union {NoModel},
   mapping : [Models -> Models \union {NoModel}],
   supported : SUBSET Models, disabled : SUBSET Models]

VARIABLES
  now,   \* the clock
  pool   \* #states: failures in a row and until when they block, 0 and 0 for none

Healthy == [failures |-> 0, until |-> 0]

SchedulerInit == pool = [p \in Providers |-> Healthy]

------------------------
(* The order of the providers.  "cfg" is a snapshot: order, its providers in *)
(* a sequence, policy, what it says of each, and rules, its priority rules.  *)

NoRule == <<>>

\* describeProviderModel: the model a provider is asked for when m is requested.
TargetModel(policy, m) ==
  IF m = NoModel THEN NoModel
  ELSE IF policy.override # NoModel THEN policy.override
  ELSE IF policy.mapping[m] # NoModel THEN policy.mapping[m] ELSE m

\* supportsTargetModel, and describeRequestedModel for a request without a model.
Supports(policy, m) ==
  m = NoModel \/ TargetModel(policy, m) \in policy.supported \ policy.disabled

Configured(cfg) == {cfg.order[i] : i \in DOMAIN cfg.order}
IndexOf(cfg, p) == CHOOSE i \in DOMAIN cfg.order : cfg.order[i] = p

\* priorityRanks: the place of p in the rule of model m, behind all others if in none.
Rank(cfg, m, p) ==
  LET rule == IF m = NoModel THEN NoRule ELSE cfg.rules[m]
      places == {i \in DOMAIN rule : rule[i] = p}
  IN IF places = {} THEN Cardinality(Providers) + 1 ELSE CHOOSE i \in places : TRUE

Cooling(p) == pool[p].until > now

Before(cfg, m, p, q) ==
  \/ Rank(cfg, m, p) < Rank(cfg, m, q)
  \/ /\ Rank(cfg, m, p) = Rank(cfg, m, q)
     /\ \/ cfg.policy[p].weight > cfg.policy[q].weight
        \/ /\ cfg.policy[p].weight = cfg.policy[q].weight
           /\ IndexOf(cfg, p) < IndexOf(cfg, q)

Eligible(cfg, m) == {p \in Configured(cfg) : Supports(cfg.policy[p], m)}

\* Mutant of Candidates: when all are cooling, the first one is tried.
MutantCandidatesFirst(cfg, m) ==
  LET healthy == {p \in Eligible(cfg, m) : ~Cooling(p)}
  IN IF healthy # {} THEN healthy
     ELSE {p \in Eligible(cfg, m) :
             \A q \in Eligible(cfg, m) : IndexOf(cfg, p) <= IndexOf(cfg, q)}

\* The healthy ones, or the one that is blocked for the shortest time.
Candidates(cfg, m) ==
  LET healthy == {p \in Eligible(cfg, m) : ~Cooling(p)}
      sooner(p, q) == \/ pool[p].until < pool[q].until
                      \/ pool[p].until = pool[q].until /\ IndexOf(cfg, p) < IndexOf(cfg, q)
  IN IF healthy # {} THEN healthy
     ELSE {p \in Eligible(cfg, m) : \A q \in Eligible(cfg, m) \ {p} : sooner(p, q)}

Plan(cfg, m) ==
  LET C == Candidates(cfg, m)
  IN CHOOSE s \in [1..Cardinality(C) -> C] :
       \A i, j \in 1..Cardinality(C) : i < j => Before(cfg, m, s[i], s[j])

------------------------
(* Failures and successes, as the pool they leave. *)

Least(a, b) == IF a <= b THEN a ELSE b

Failed(p, base) ==
  LET failures == Least(pool[p].failures + 1, MaxFailures)
  IN [pool EXCEPT ![p] =
        [failures |-> failures,
         until |-> now + Least(MaxCooldown, base * Doublings[failures])]]

RetryableStatuses == {429, 500, 502, 503, 504}
NoRetryAfter == 0 - 1

\* retryAfterMs, a header in ticks of the clock.
RetryAfter(header) ==
  IF header = NoRetryAfter THEN RateCooldown ELSE Least(MaxCooldown, header)

MarkedResponse(p, status, retryAfter) ==
  IF status = 429 THEN Failed(p, RetryAfter(retryAfter))
  ELSE IF status \in RetryableStatuses THEN Failed(p, ResponseCooldown)
  ELSE IF status \in 200..499 THEN [pool EXCEPT ![p] = Healthy]
  ELSE pool

MarkedTransportFailure(p) == Failed(p, NetworkCooldown)
=============================================================================
