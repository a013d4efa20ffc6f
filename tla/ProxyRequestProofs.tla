------------------------- MODULE ProxyRequestProofs -------------------------
(***************************************************************************)
(* Proofs about ProxyRequest and RoutePreview, for any number of requests, *)
(* providers, models and snapshots.                                        *)
(*                                                                         *)
(* The scheduler: the plan is what sorting the candidates gives, which     *)
(* exists because Before orders them strictly (SortingExists), so that     *)
(* each candidate is in it (PlanIsWhole).                                  *)
(*                                                                         *)
(* The requests: each is untouched, Going or Settled.  A request that goes *)
(* is Aimed at somebody who may have it as soon as it has an attempt, the  *)
(* capture context names that target, and until a socket of the current    *)
(* attempt is established nobody has the body but accounts that turned it  *)
(* away (Free).  One lemma for each function of server.mjs says that it    *)
(* leads from there to a Going or a Settled request (CreatedIsSound,       *)
(* SelectedIsReady, OverflowedIsSound, ...), StepIsSound puts them         *)
(* together, and the properties are what Going and Settled say.            *)
(*                                                                         *)
(* The preview: both sides are computed, DecisionForm says when a decision *)
(* is for the account, HeadedForm what the head of a request leaves, and   *)
(* SamePlan that the plan for no model is the plan for any where the       *)
(* model decides nothing.                                                  *)
(***************************************************************************)
EXTENDS RoutePreview, FiniteSetTheorems, TLAPS

------------------------
(* Orders of finite sets. *)

StrictOrder(R, C) ==
  /\ \A p \in C : <<p, p>> \notin R
  /\ \A p, q, r \in C : <<p, q>> \in R /\ <<q, r>> \in R => <<p, r>> \in R
  /\ \A p, q \in C : p = q \/ <<p, q>> \in R \/ <<q, p>> \in R

Sorted(s, R, C) ==
  /\ s \in [1..Cardinality(C) -> C]
  /\ \A i, j \in 1..Cardinality(C) : i < j => <<s[i], s[j]>> \in R

\* Whoever has fewer before it comes first.
LEMMA SortingExists ==
  ASSUME NEW C, IsFiniteSet(C), NEW R, StrictOrder(R, C)
  PROVE  \E s : Sorted(s, R, C)
<1> DEFINE n == Cardinality(C)
           below(p) == {q \in C : <<q, p>> \in R}
           rank == [p \in C |-> Cardinality(below(p)) + 1]
<1>1. n \in Nat /\ IsFiniteSet(1..n) /\ Cardinality(1..n) = n
  BY FS_CardinalityType, FS_Interval, SMT
<1>2. ASSUME NEW p \in C
      PROVE  /\ IsFiniteSet(below(p)) /\ Cardinality(below(p)) \in Nat
             /\ rank[p] \in 1..n
  <2>1. below(p) \in SUBSET (C \ {p})
    BY DEF StrictOrder
  <2>2. IsFiniteSet(C \ {p}) /\ Cardinality(C \ {p}) = n - 1
    BY FS_RemoveElement
  <2> HIDE DEF below, n
  <2>3. IsFiniteSet(below(p)) /\ Cardinality(below(p)) <= n - 1
    BY <2>1, <2>2, FS_Subset
  <2>4. Cardinality(below(p)) \in Nat
    BY <2>3, FS_CardinalityType
  <2> QED BY <1>1, <2>3, <2>4, SMT
<1>3. ASSUME NEW p \in C, NEW q \in C, <<p, q>> \in R
      PROVE  rank[p] < rank[q]
  <2>1. below(p) \in SUBSET (below(q) \ {p})
    BY <1>3, SMT DEF StrictOrder
  <2>2. p \in below(q)
    BY <1>3
  <2>3. IsFiniteSet(below(q) \ {p}) /\ Cardinality(below(q) \ {p}) = Cardinality(below(q)) - 1
    BY <1>2, <2>2, FS_RemoveElement
  <2> HIDE DEF below
  <2>4. Cardinality(below(p)) <= Cardinality(below(q)) - 1
    BY <2>1, <2>3, FS_Subset
  <2> QED BY <1>2, <2>4, SMT
<1> HIDE DEF rank, n, below
<1>4. rank \in [C -> 1..n]
  <2>1. rank = [p \in C |-> rank[p]]
    BY DEF rank
  <2> QED BY <1>2, <2>1
<1>5. rank \in Injection(C, 1..n)
  <2> SUFFICES ASSUME NEW p \in C, NEW q \in C, p # q
               PROVE  rank[p] # rank[q]
    BY <1>4 DEF Injection, IsInjective
  <2>1. rank[p] < rank[q] \/ rank[q] < rank[p]
    BY <1>3 DEF StrictOrder
  <2> QED BY <1>2, <2>1, <1>1, SMT
<1>6. rank \in Surjection(C, 1..n)
  BY <1>1, <1>5, FS_Injection DEF n
<1> DEFINE s == [i \in 1..n |-> CHOOSE p \in C : rank[p] = i]
<1>7. \A i \in 1..n : s[i] \in C /\ rank[s[i]] = i
  BY <1>6 DEF Surjection
<1>8. ASSUME NEW i \in 1..n, NEW j \in 1..n, i < j
      PROVE  <<s[i], s[j]>> \in R
  <2>1. s[i] # s[j]
    BY <1>7, <1>8, <1>1, SMT
  <2>2. CASE <<s[j], s[i]>> \in R
    <3>1. rank[s[j]] < rank[s[i]]
      BY <1>3, <1>7, <2>2
    <3> QED BY <1>1, <1>7, <1>8, <3>1, SMT
  <2> QED BY <1>7, <2>1, <2>2 DEF StrictOrder
<1>9. s \in [1..n -> C]
  BY <1>7
<1> QED BY <1>8, <1>9 DEF Sorted, n

\* A sorting leaves nobody out.
LEMMA SortingIsWhole ==
  ASSUME NEW C, IsFiniteSet(C), NEW R, StrictOrder(R, C), NEW s, Sorted(s, R, C)
  PROVE  {s[i] : i \in 1..Cardinality(C)} = C
<1> DEFINE n == Cardinality(C)
<1>1. n \in Nat /\ IsFiniteSet(1..n) /\ Cardinality(1..n) = n
  BY FS_CardinalityType, FS_Interval, SMT
<1>2. s \in Injection(1..n, C)
  <2> SUFFICES ASSUME NEW i \in 1..n, NEW j \in 1..n, i # j
               PROVE  s[i] # s[j]
    BY DEF Injection, IsInjective, Sorted
  <2>1. s[i] \in C /\ s[j] \in C
    BY DEF Sorted
  <2>2. i < j \/ j < i
    BY <1>1, SMT
  <2> QED BY <2>1, <2>2 DEF Sorted, StrictOrder
<1>3. s \in Surjection(1..n, C)
  BY <1>1, <1>2, FS_Injection
<1> QED BY <1>3 DEF Surjection

------------------------
(* The plan of the scheduler. *)

PoolStates == [failures : 0..MaxFailures, until : Nat]
PoolShape ==
  now \in Nat /\ pool \in [Providers -> PoolStates]

ModelOrNone == Models \union {NoModel}

LEMMA IndexIsPlace ==
  ASSUME NEW cfg \in Configurations, NEW p \in Configured(cfg)
  PROVE  /\ p \in Providers
         /\ IndexOf(cfg, p) \in Nat /\ cfg.order[IndexOf(cfg, p)] = p
         /\ cfg.policy[p] \in Policies /\ cfg.policy[p].weight \in Nat
<1>1. cfg.order \in Seq(Providers) /\ cfg.policy \in [Configured(cfg) -> Policies]
  BY ConfigurationsAssumption
<1>2. \E i \in DOMAIN cfg.order : cfg.order[i] = p
  BY DEF Configured
<1>3. IndexOf(cfg, p) \in DOMAIN cfg.order /\ cfg.order[IndexOf(cfg, p)] = p
  BY <1>2 DEF IndexOf
<1>4. p \in Providers /\ IndexOf(cfg, p) \in Nat
  BY <1>1, <1>3, SMT
<1>5. cfg.policy[p] \in Policies
  BY <1>1
<1>6. cfg.policy[p].weight \in Nat
  BY <1>5 DEF Policies
<1> QED BY <1>3, <1>4, <1>5, <1>6

LEMMA RankIsNat ==
  ASSUME NEW cfg \in Configurations, NEW m \in ModelOrNone, NEW p
  PROVE  Rank(cfg, m, p) \in Nat
<1> DEFINE rule == IF m = NoModel THEN NoRule ELSE cfg.rules[m]
           places == {i \in DOMAIN rule : rule[i] = p}
<1>1. rule \in Seq(Providers)
  BY ConfigurationsAssumption, SMT DEF ModelOrNone, NoRule
<1>2. DOMAIN rule \subseteq Nat
  BY <1>1, SMT
<1>3. places # {} => (CHOOSE i \in places : TRUE) \in Nat
  BY <1>2
<1>4. Cardinality(Providers) + 1 \in Nat
  BY ProvidersAssumption, FS_CardinalityType, SMT
<1> QED BY <1>3, <1>4 DEF Rank

LEMMA BeforeIsStrict ==
  ASSUME NEW cfg \in Configurations, NEW m \in ModelOrNone, NEW C \in SUBSET Configured(cfg)
  PROVE  StrictOrder({x \in C \X C : Before(cfg, m, x[1], x[2])}, C)
<1> DEFINE R == {x \in C \X C : Before(cfg, m, x[1], x[2])}
<1>1. \A p, q \in C : <<p, q>> \in R <=> Before(cfg, m, p, q)
  BY SMT
<1>2. \A p \in C : /\ Rank(cfg, m, p) \in Nat /\ IndexOf(cfg, p) \in Nat
                   /\ cfg.policy[p].weight \in Nat
  BY RankIsNat, IndexIsPlace
<1>3. \A p, q \in C : IndexOf(cfg, p) = IndexOf(cfg, q) => p = q
  BY IndexIsPlace
<1> HIDE DEF R
<1>4. \A p \in C : <<p, p>> \notin R
  BY <1>1, <1>2, SMT DEF Before
<1>5. \A p, q, r \in C : <<p, q>> \in R /\ <<q, r>> \in R => <<p, r>> \in R
  BY <1>1, <1>2, SMT DEF Before
<1>6. \A p, q \in C : p = q \/ <<p, q>> \in R \/ <<q, p>> \in R
  <2> SUFFICES ASSUME NEW p \in C, NEW q \in C, p # q
               PROVE  Before(cfg, m, p, q) \/ Before(cfg, m, q, p)
    BY <1>1
  <2> DEFINE a == Rank(cfg, m, p)
             b == Rank(cfg, m, q)
             v == cfg.policy[p].weight
             w == cfg.policy[q].weight
             i == IndexOf(cfg, p)
             j == IndexOf(cfg, q)
  <2>1. {a, b, v, w, i, j} \subseteq Nat /\ i # j
    BY <1>2, <1>3
  <2>2. /\ Before(cfg, m, p, q) <=> a < b \/ (a = b /\ (v > w \/ (v = w /\ i < j)))
        /\ Before(cfg, m, q, p) <=> b < a \/ (b = a /\ (w > v \/ (w = v /\ j < i)))
    BY DEF Before
  <2> HIDE DEF a, b, v, w, i, j
  <2> QED BY <2>1, <2>2, SMT
<1> QED BY <1>4, <1>5, <1>6 DEF StrictOrder, R

LEMMA CandidatesAreEligible ==
  ASSUME NEW cfg \in Configurations, NEW m
  PROVE  /\ Candidates(cfg, m) \subseteq Eligible(cfg, m)
         /\ Eligible(cfg, m) \subseteq Configured(cfg) /\ Configured(cfg) \subseteq Providers
         /\ IsFiniteSet(Candidates(cfg, m)) /\ IsFiniteSet(Eligible(cfg, m))
<1>1. Candidates(cfg, m) \subseteq Eligible(cfg, m)
  BY DEF Candidates
<1>2. Eligible(cfg, m) \subseteq Configured(cfg)
  BY DEF Eligible
<1>3. Configured(cfg) \subseteq Providers
  BY IndexIsPlace
<1>4. Candidates(cfg, m) \in SUBSET Providers /\ Eligible(cfg, m) \in SUBSET Providers
  BY <1>1, <1>2, <1>3
<1> QED BY <1>1, <1>2, <1>3, <1>4, ProvidersAssumption, FS_Subset

\* #plan: the candidates, each of them once, in their order.
LEMMA PlanIsWhole ==
  ASSUME NEW cfg \in Configurations, NEW m \in ModelOrNone
  PROVE  LET C == Candidates(cfg, m)
             plan == Plan(cfg, m)
         IN /\ plan \in [1..Cardinality(C) -> C] /\ Cardinality(C) \in Nat
            /\ {plan[i] : i \in DOMAIN plan} = C
            /\ \A i, j \in DOMAIN plan : i < j => Before(cfg, m, plan[i], plan[j])
<1> DEFINE C == Candidates(cfg, m)
           plan == Plan(cfg, m)
           R == {x \in C \X C : Before(cfg, m, x[1], x[2])}
<1>1. IsFiniteSet(C) /\ C \in SUBSET Configured(cfg)
  BY CandidatesAreEligible
<1>2. StrictOrder(R, C)
  BY <1>1, BeforeIsStrict
<1>3. PICK s : Sorted(s, R, C)
  BY <1>1, <1>2, SortingExists
<1>4. /\ s \in [1..Cardinality(C) -> C]
      /\ \A i, j \in 1..Cardinality(C) : i < j => Before(cfg, m, s[i], s[j])
  <2> HIDE DEF C
  <2>1. \A p, q : <<p, q>> \in R => Before(cfg, m, p, q)
    BY SMT
  <2> QED BY <1>3, <2>1 DEF Sorted
<1>5. /\ plan \in [1..Cardinality(C) -> C]
      /\ \A i, j \in 1..Cardinality(C) : i < j => Before(cfg, m, plan[i], plan[j])
  BY <1>4 DEF Plan
<1>6. Sorted(plan, R, C)
  <2> HIDE DEF plan, C
  <2>1. \A i, j \in 1..Cardinality(C) : i < j => <<plan[i], plan[j]>> \in R
    BY <1>5, SMT
  <2> QED BY <1>5, <2>1 DEF Sorted
<1>7. {plan[i] : i \in 1..Cardinality(C)} = C
  BY <1>1, <1>2, <1>6, SortingIsWhole
<1>8. DOMAIN plan = 1..Cardinality(C) /\ Cardinality(C) \in Nat
  BY <1>1, <1>5, FS_CardinalityType
<1> QED BY <1>5, <1>7, <1>8

\* One of those who cool is free first.
LEMMA SomebodyServes ==
  ASSUME PoolShape, NEW cfg \in Configurations, NEW m \in ModelOrNone,
         Eligible(cfg, m) # {}
  PROVE  Candidates(cfg, m) # {}
<1> DEFINE E == Eligible(cfg, m)
           healthy == {p \in E : ~Cooling(p)}
           sooner(p, q) == \/ pool[p].until < pool[q].until
                           \/ pool[p].until = pool[q].until /\ IndexOf(cfg, p) < IndexOf(cfg, q)
           R == {x \in E \X E : sooner(x[1], x[2])}
<1>1. Candidates(cfg, m) = IF healthy # {} THEN healthy
                           ELSE {p \in E : \A q \in E \ {p} : sooner(p, q)}
  BY DEF Candidates
<1>2. E \subseteq Configured(cfg) /\ E \subseteq Providers /\ IsFiniteSet(E)
  BY CandidatesAreEligible
<1>3. \A p \in E : pool[p].until \in Nat /\ IndexOf(cfg, p) \in Nat
  BY <1>2, IndexIsPlace, SMT DEF PoolShape, PoolStates
<1>4. \A p, q \in E : IndexOf(cfg, p) = IndexOf(cfg, q) => p = q
  BY <1>2, IndexIsPlace
<1>5. \A p, q : <<p, q>> \in R <=> p \in E /\ q \in E /\ sooner(p, q)
  BY SMT
<1>6. StrictOrder(R, E)
  <2> HIDE DEF R, E
  <2>1. \A p \in E : ~sooner(p, p)
    BY <1>3, SMT
  <2>2. \A p, q, r \in E : sooner(p, q) /\ sooner(q, r) => sooner(p, r)
    BY <1>3, SMT
  <2>3. \A p, q \in E : p = q \/ sooner(p, q) \/ sooner(q, p)
    <3> SUFFICES ASSUME NEW p \in E, NEW q \in E, p # q
                 PROVE  sooner(p, q) \/ sooner(q, p)
      OBVIOUS
    <3> DEFINE v == pool[p].until
               w == pool[q].until
               i == IndexOf(cfg, p)
               j == IndexOf(cfg, q)
    <3>1. {v, w, i, j} \subseteq Nat /\ i # j
      BY <1>3, <1>4
    <3>2. /\ sooner(p, q) <=> v < w \/ (v = w /\ i < j)
          /\ sooner(q, p) <=> w < v \/ (w = v /\ j < i)
      OBVIOUS
    <3> HIDE DEF v, w, i, j, sooner
    <3> QED BY <3>1, <3>2, SMT
  <2> HIDE DEF sooner
  <2> QED BY <1>5, <2>1, <2>2, <2>3 DEF StrictOrder
<1>7. PICK s : Sorted(s, R, E)
  BY <1>2, <1>6, SortingExists
<1>8. {s[i] : i \in 1..Cardinality(E)} = E
  BY <1>2, <1>6, <1>7, SortingIsWhole
<1>9. Cardinality(E) \in Nat /\ Cardinality(E) # 0
  BY <1>2, FS_CardinalityType, FS_EmptySet
<1>10. 1 \in 1..Cardinality(E) /\ s[1] \in E
  BY <1>8, <1>9, SMT
<1>11. ASSUME NEW q \in E \ {s[1]} PROVE sooner(s[1], q)
  <2>1. PICK j \in 1..Cardinality(E) : q = s[j]
    BY <1>8
  <2>2. 1 < j
    BY <1>9, <1>11, <2>1, SMT
  <2>3. <<s[1], s[j]>> \in R
    BY <1>7, <1>10, <2>2 DEF Sorted
  <2> QED BY <1>5, <2>1, <2>3
<1> QED BY <1>1, <1>10, <1>11

LEMMA LeftOutCools ==
  ASSUME PoolShape, NEW cfg \in Configurations, NEW m \in ModelOrNone,
         NEW p \in Eligible(cfg, m) \ Candidates(cfg, m)
  PROVE  Cooling(p) /\ \E q \in Candidates(cfg, m) : pool[q].until <= pool[p].until
<1> DEFINE E == Eligible(cfg, m)
           healthy == {q \in E : ~Cooling(q)}
<1>1. /\ healthy # {} => Candidates(cfg, m) = healthy
      /\ healthy = {} => \A q \in Candidates(cfg, m) :
           \A r \in E \ {q} : pool[q].until < pool[r].until \/ pool[q].until = pool[r].until
  BY DEF Candidates
<1>2. Cooling(p)
  BY <1>1
<1>3. PICK q \in Candidates(cfg, m) : TRUE
  BY SomebodyServes
<1>4. q \in E /\ p \in E /\ p # q /\ E \subseteq Providers
  BY CandidatesAreEligible
<1>5. pool[q].until \in Nat /\ pool[p].until \in Nat /\ now \in Nat
  BY <1>4, SMT DEF PoolShape, PoolStates
<1> HIDE DEF E
<1>6. CASE healthy # {}
  <2>1. ~Cooling(q)
    BY <1>1, <1>6
  <2> QED BY <1>2, <1>5, <2>1, SMT DEF Cooling
<1>7. CASE healthy = {}
  <2>1. pool[q].until < pool[p].until \/ pool[q].until = pool[p].until
    BY <1>1, <1>4, <1>7
  <2> QED BY <1>2, <1>5, <2>1, SMT
<1> QED BY <1>6, <1>7

------------------------
(* The cooldowns. *)

LEMMA LeastIsNat ==
  ASSUME NEW a \in Nat, NEW b \in Nat
  PROVE  Least(a, b) \in Nat /\ Least(a, b) <= a /\ Least(a, b) <= b
BY SMT DEF Least

LEMMA UpdateShape ==
  ASSUME NEW S, NEW T, NEW f \in [S -> T], NEW p, NEW x, p \in S => x \in T
  PROVE  [f EXCEPT ![p] = x] \in [S -> T]
<1>1. CASE p \in S
  BY <1>1
<1>2. CASE p \notin S
  BY <1>2
<1> QED BY <1>1, <1>2

LEMMA FailedShape ==
  ASSUME PoolShape, NEW p, NEW base \in Nat
  PROVE  Failed(p, base) \in [Providers -> PoolStates]
<1> DEFINE failures == Least(pool[p].failures + 1, MaxFailures)
           state == [failures |-> failures,
                     until |-> now + Least(MaxCooldown, base * Doublings[failures])]
<1>1. Failed(p, base) = [pool EXCEPT ![p] = state]
  BY DEF Failed
<1>2. p \in Providers => state \in PoolStates
  <2> SUFFICES ASSUME p \in Providers
               PROVE  state \in PoolStates
    OBVIOUS
  <2>1. MaxFailures \in 1..8 /\ MaxCooldown \in Nat
    BY CooldownsAssumption, SMT DEF Doublings
  <2>2. pool[p].failures + 1 \in Nat \ {0} /\ now \in Nat
    BY SMT DEF PoolShape, PoolStates
  <2>3. failures \in 1..MaxFailures
    BY <2>1, <2>2, SMT DEF Least
  <2> HIDE DEF failures
  <2>4. Doublings[failures] \in Nat
    BY <2>1, <2>3, SMT DEF Doublings
  <2>5. base * Doublings[failures] \in Nat
    BY <2>4, SMT
  <2>6. Least(MaxCooldown, base * Doublings[failures]) \in Nat
    BY <2>1, <2>5, LeastIsNat
  <2> QED BY <2>1, <2>2, <2>3, <2>6, SMT DEF PoolStates
<1> HIDE DEF state
<1> QED BY <1>1, <1>2, UpdateShape DEF PoolShape

LEMMA MarkedShape ==
  ASSUME PoolShape, NEW p
  PROVE  /\ MarkedTransportFailure(p) \in [Providers -> PoolStates]
         /\ \A status, a \in Nat \union {NoRetryAfter} :
              MarkedResponse(p, status, a)
                \in [Providers -> PoolStates]
<1>1. NetworkCooldown \in Nat /\ ResponseCooldown \in Nat /\ RateCooldown \in Nat
      /\ MaxCooldown \in Nat /\ MaxFailures \in Nat
  BY CooldownsAssumption, SMT DEF Doublings
<1>2. \A a \in Nat \union {NoRetryAfter} : RetryAfter(a) \in Nat
  BY <1>1, LeastIsNat DEF RetryAfter
<1>3. MarkedTransportFailure(p) \in [Providers -> PoolStates]
  BY <1>1, FailedShape DEF MarkedTransportFailure
<1>4. [pool EXCEPT ![p] = Healthy] \in [Providers -> PoolStates]
  <2>1. Healthy \in PoolStates
    BY <1>1, SMT DEF Healthy, PoolStates
  <2> QED BY <2>1, UpdateShape DEF PoolShape
<1>5. \A status, a \in Nat \union {NoRetryAfter} :
        MarkedResponse(p, status, a) \in [Providers -> PoolStates]
  BY <1>1, <1>2, <1>4, FailedShape DEF MarkedResponse, PoolShape
<1> QED BY <1>3, <1>5

PoolInv == PoolShape /\ settings \in Configurations

LEMMA PoolStep == PoolInv /\ [Next]_vars => PoolInv'
<1> SUFFICES ASSUME PoolInv, [Next]_vars PROVE PoolInv'
  OBVIOUS
<1> DEFINE Pools == [Providers -> PoolStates]
<1>1. /\ pool \in Pools /\ now \in Nat /\ settings \in Configurations
      /\ \A p : /\ MarkedTransportFailure(p) \in Pools
                /\ \A status \in Statuses, a \in RetryAfters :
                     MarkedResponse(p, status, a) \in Pools
  <2>1. Statuses \subseteq Nat \union {NoRetryAfter}
    BY StatusesAssumption, SMT
  <2> QED BY <2>1, MarkedShape, RetryAftersAssumption DEF PoolInv, PoolShape
<1> HIDE DEF Pools
<1>2. ASSUME NEW r \in Requests, RequestStep(r)
      PROVE  pool' \in Pools /\ now' = now /\ settings' = settings
  <2>1. CASE \E retryable \in BOOLEAN : UpstreamErrors(r, retryable)
    BY <1>1, <2>1 DEF UpstreamErrors
  <2>2. CASE \E status \in Statuses, a \in RetryAfters : ProviderResponds(r, status, a)
    BY <1>1, <2>2 DEF ProviderResponds
  <2>3. CASE BrokenErrors(r)
    BY <1>1, <2>3 DEF BrokenErrors
  <2>4. CASE \E status \in Statuses, w \in QuotaHeaders : AccountResponds(r, status, w)
    BY <1>1, <2>4 DEF AccountResponds
  <2>5. CASE UNCHANGED <<now, pool, settings>>
    BY <1>1, <2>5
  <2> QED BY <1>2, <2>1, <2>2, <2>3, <2>4, <2>5
          DEF RequestStep, Accept, Refuse, Step, BodyOverflows, TransformOverflows, FirstChunk,
              BodyEnds, Connects, Timeout, ResponseData, ResponseEnds, DownstreamFinishes,
              ResponseBreaks, ClientAborts
<1>3. CASE OtherResponds \/ OtherErrors
  <2>1. UNCHANGED <<now, settings>>
    BY <1>3 DEF OtherResponds, OtherErrors, Other
  <2>2. pool' \in Pools
    BY <1>1, <1>3 DEF OtherResponds, OtherErrors
  <2> QED BY <1>1, <2>1, <2>2 DEF PoolInv, PoolShape, Pools
<1>4. ASSUME NEW cfg \in Configurations, Configure(cfg) PROVE PoolInv'
  BY <1>1, <1>4 DEF Configure, PoolInv, PoolShape, Pools
<1>5. ASSUME NEW a \in InitialAccounts, ApplyAccountState(a) PROVE PoolInv'
  BY <1>1, <1>5 DEF ApplyAccountState, PoolInv, PoolShape, Pools
<1>6. CASE Tick
  BY <1>1, <1>6, SMT DEF Tick, PoolInv, PoolShape, Pools
<1>7. CASE UNCHANGED vars
  BY <1>1, <1>7 DEF vars, PoolInv, PoolShape, Pools
<1> QED BY <1>1, <1>2, <1>3, <1>4, <1>5, <1>6, <1>7 DEF Next, PoolInv, PoolShape, Pools

LEMMA PoolInit == Init => PoolInv
BY CooldownsAssumption, SMT
DEF Init, SchedulerInit, PoolInv, PoolShape, PoolStates, Healthy, Doublings

LEMMA NobodyLeft == PoolInv => NobodyLeftOut
<1> SUFFICES ASSUME PoolInv, NEW m \in Models \union {NoModel}
             PROVE  LET plan == Plan(settings, m)
                        planned == {plan[i] : i \in DOMAIN plan}
                    IN /\ planned \subseteq Eligible(settings, m)
                       /\ Eligible(settings, m) # {} => planned # {}
                       /\ \A p \in Eligible(settings, m) \ planned :
                            Cooling(p) /\ \E q \in planned : pool[q].until <= pool[p].until
  BY DEF NobodyLeftOut
<1>1. LET plan == Plan(settings, m)
      IN {plan[i] : i \in DOMAIN plan} = Candidates(settings, m)
  BY PlanIsWhole DEF PoolInv, ModelOrNone
<1>2. /\ Candidates(settings, m) \subseteq Eligible(settings, m)
      /\ Eligible(settings, m) # {} => Candidates(settings, m) # {}
      /\ \A p \in Eligible(settings, m) \ Candidates(settings, m) :
           Cooling(p) /\ \E q \in Candidates(settings, m) : pool[q].until <= pool[p].until
  BY CandidatesAreEligible, SomebodyServes, LeftOutCools DEF PoolInv, ModelOrNone
<1> QED BY <1>1, <1>2

\* provider-scheduler.mjs:158: whatever the providers, their weights, models and priority
\* rules, and whichever of them are cooling: a model that one of them serves is planned,
\* and nobody is left out of the plan but for a cooldown.
THEOREM PlanLeavesNobodyOut == Spec => []NobodyLeftOut
BY PoolInit, PoolStep, NobodyLeft, PTL DEF Spec


------------------------
(* A request in progress. *)

RequestFields ==
  {"stage", "kind", "cfg", "account", "how", "streaming", "ended", "replay", "route", "provider",
   "candidates", "index", "initialAccount", "attempt", "connected", "timedOut", "response",
   "headersSent", "context", "captured", "metered", "got", "delivered"}
Sendings == [to : Targets, model : ModelOrNone, status : Nat]
Attempts == {"none", "connecting", "connected", "destroyed", "answered", "broken"}

TurnedAway(q, d) ==
  d.to = "account" /\ d.status = 429 /\ q.kind.operation # "images/edits"

AsConfigured(q, d) ==
  IF d.to = "account"
  THEN /\ q.kind.headers /\ d.model = q.kind.model
       /\ AccountSupportsModel(q.kind.operation, d.model, NoModel, FALSE)
  ELSE /\ d.to \in Configured(q.cfg)
       /\ q.kind.operation # "models" /\ q.kind.model # NoModel =>
            d.model = TargetModel(q.cfg.policy[d.to], q.kind.model)
       /\ d.model # NoModel /\ q.kind.model # NoModel
            /\ q.kind.operation # "models" => Supports(q.cfg.policy[d.to], q.kind.model)

\* The current provider is a candidate, and each candidate serves the request's model.
Serving(q) ==
  /\ q.candidates \in Seq(Providers) /\ q.index \in DOMAIN q.candidates
  /\ q.provider = q.candidates[q.index]
  /\ \A i \in DOMAIN q.candidates :
       /\ q.candidates[i] \in Configured(q.cfg)
       /\ Supports(q.cfg.policy[q.candidates[i]], q.kind.model)

\* The account, or the current provider, may be sent the request.
Aimed(q) ==
  /\ q.route = "custom" => Serving(q)
  /\ q.route = "account" =>
       q.kind.headers /\ AccountSupportsModel(q.kind.operation, q.kind.model, NoModel, FALSE)

\* Nobody but an account that turned it away has the request: it may be sent.
Free(q) ==
  \A i \in 1..Len(q.delivered) :
    TurnedAway(q, q.delivered[i]) /\ AsConfigured(q, q.delivered[i])

Shaped(q) ==
  /\ DOMAIN q = RequestFields /\ q.stage = "reading"
  /\ q.kind \in Kinds /\ q.cfg \in Configurations
  /\ q.how \in {"preflight", "transform", "stream"}
  /\ q.route \in {"account", "custom"} /\ q.attempt \in Attempts
  /\ q.delivered \in Seq(Sendings)
  /\ q.captured = <<>> /\ q.metered = <<>>

Deliveries(q) ==
  /\ \A i \in 1..Len(q.delivered) : AsConfigured(q, q.delivered[i])
  /\ \A i \in 1..Len(q.delivered) - 1 : TurnedAway(q, q.delivered[i])
  /\ ~q.connected => Free(q)
  /\ q.attempt \in {"connected", "answered", "broken"} =>
       /\ q.connected /\ q.delivered # <<>>
       /\ q.delivered[Len(q.delivered)].to = Target(q)
  /\ q.attempt = "connecting" => ~q.connected

Progress(q) ==
  /\ q.attempt = "none" =>
       /\ q.delivered = <<>> /\ q.context = "none" /\ ~q.connected
       /\ q.initialAccount => q.route = "account"
  /\ q.attempt # "none" => Aimed(q) /\ q.context = Target(q)
  /\ q.how # "preflight" => q.route = "custom" /\ Serving(q)
  /\ q.how = "preflight" /\ q.attempt # "none" => q.streaming \/ q.ended
  /\ q.how = "transform" /\ q.attempt # "none" => q.ended
  /\ q.attempt \in {"none", "connecting", "connected", "destroyed"} => ~q.headersSent

\* A request that is over.
Recorded(q) ==
  /\ Len(q.captured) <= 1 /\ Len(q.metered) <= Len(q.captured)
  /\ q.delivered # <<>> /\ q.got # "503" /\ q.got # "400" =>
       /\ Len(q.metered) = 1
       /\ q.captured[1].to = q.metered[1].to
       /\ q.got = "answer" => q.captured[1].to = q.delivered[Len(q.delivered)].to
       /\ q.metered[1].result \in {"clientAbort", "timeout", "networkError"}
            => q.captured[1].result = "error"

Settled(q) ==
  /\ q.stage = "done"
  /\ \A i \in 1..Len(q.delivered) : AsConfigured(q, q.delivered[i])
  /\ \A i \in 1..Len(q.delivered) - 1 : TurnedAway(q, q.delivered[i])
  /\ q.delivered \in Seq(Sendings)
  /\ Recorded(q)

Going(q) == Shaped(q) /\ Deliveries(q) /\ Progress(q)

Sound(q) == q = Idle \/ Going(q) \/ Settled(q)

------------------------
(* What the conditions of a request depend on. *)

LEMMA KindIsTyped ==
  ASSUME NEW k \in Kinds
  PROVE  k \in KindType /\ k.model \in ModelOrNone
BY KindsAssumption, SMT DEF KindType, ModelOrNone

LEMMA PolicyIsTyped ==
  ASSUME NEW cfg \in Configurations, NEW p \in Configured(cfg), NEW m \in ModelOrNone
  PROVE  /\ cfg.policy[p].override \in ModelOrNone
         /\ m \in Models => cfg.policy[p].mapping[m] \in ModelOrNone
         /\ TargetModel(cfg.policy[p], m) \in ModelOrNone
         /\ m # NoModel => TargetModel(cfg.policy[p], m) \in Models
<1>1. cfg.policy[p] \in Policies
  BY IndexIsPlace
<1>2. cfg.policy[p].override \in ModelOrNone
      /\ (m \in Models => cfg.policy[p].mapping[m] \in ModelOrNone)
  BY <1>1, SMT DEF Policies, ModelOrNone
<1> QED BY <1>2, SMT DEF TargetModel, ModelOrNone

\* modelAwareRouting: where the model decides nothing, everybody serves it.
LEMMA UnawareServesAll ==
  ASSUME NEW cfg \in Configurations, ~ModelAware(cfg), NEW p \in Configured(cfg),
         NEW m \in ModelOrNone
  PROVE  Supports(cfg.policy[p], m)
<1>1. cfg.policy[p].supported = Models /\ cfg.policy[p].disabled = {}
  BY DEF ModelAware
<1> QED BY <1>1, PolicyIsTyped DEF Supports

LEMMA AccountChosen ==
  ASSUME NEW q, NEW m, Decide(q, m, TRUE).route # "custom"
  PROVE  q.kind.headers /\ AccountSupportsModel(q.kind.operation, m, NoModel, FALSE)
<1> DEFINE objections == Objections(q.cfg.mode, q.kind, q.account, m, NoModel, TRUE,
                                    blockedUntil, now)
           held == {i \in DOMAIN objections : objections[i][2]}
<1>1. held = {}
  BY DEF Decide, DecideUpstreamRoute
<1>2. /\ 6 \in DOMAIN objections /\ 10 \in DOMAIN objections
      /\ objections[6][2] = ~q.kind.headers
      /\ objections[10][2] = ~AccountSupportsModel(q.kind.operation, m, NoModel, ~TRUE)
  BY SMT DEF Objections
<1>3. ~objections[6][2] /\ ~objections[10][2]
  BY <1>1, <1>2
<1>4. AccountSupportsModel(q.kind.operation, m, NoModel, ~TRUE)
        = AccountSupportsModel(q.kind.operation, m, NoModel, FALSE)
  BY DEF AccountSupportsModel
<1> QED BY <1>2, <1>3, <1>4

LEMMA DecisionIsRoute ==
  ASSUME NEW q, NEW m, NEW known
  PROVE  Decide(q, m, known).route \in {"account", "custom"}
BY DEF Decide, DecideUpstreamRoute

\* What is asked of a delivery depends on what the request is and its snapshot.
LEMMA SameRequest ==
  ASSUME NEW q, NEW c, c.kind = q.kind, c.cfg = q.cfg
  PROVE  \A d : /\ TurnedAway(c, d) <=> TurnedAway(q, d)
                /\ AsConfigured(c, d) <=> AsConfigured(q, d)
BY DEF TurnedAway, AsConfigured

LEMMA FreeStays ==
  ASSUME NEW q, NEW c, c.kind = q.kind, c.cfg = q.cfg, c.delivered = q.delivered, Free(q)
  PROVE  Free(c)
BY SameRequest, Zenon DEF Free

------------------------
(* Endings. *)

\* What is known of a request that may be finalized.
Finishable(q) ==
  /\ Shaped(q)
  /\ \A i \in 1..Len(q.delivered) : AsConfigured(q, q.delivered[i])
  /\ \A i \in 1..Len(q.delivered) - 1 : TurnedAway(q, q.delivered[i])

\* Somebody has the request, and the records name it.
Named(q) ==
  /\ q.context \in {"none", Target(q)}
  /\ q.route = "custom" => q.provider # NoProvider

LEMMA FinalizedIsDone ==
  ASSUME NEW q, Finishable(q), NEW result, NEW error, NEW got
  PROVE  LET e == [Finalized(q, result, error) EXCEPT !.got = got]
         IN /\ e.stage = "done" /\ e.kind = q.kind /\ e.cfg = q.cfg
            /\ e.delivered = q.delivered /\ e.got = got
            /\ Len(e.captured) = 1 /\ Len(e.metered) <= 1 /\ Len(e.metered) \in Nat
            /\ e.captured[1].result = error
            /\ Named(q) => /\ Len(e.metered) = 1 /\ e.captured[1].to = Target(q)
                           /\ e.metered[1] = [to |-> Target(q), result |-> result]
<1> DEFINE e == [Finalized(q, result, error) EXCEPT !.got = got]
           c == [to |-> IF q.context = "none" THEN Target(q) ELSE q.context,
                 result |-> error]
           m == [to |-> Target(q), result |-> result]
<1>1. q.captured = <<>> /\ q.metered = <<>>
  BY DEF Finishable, Shaped
<1>2. /\ e.stage = "done" /\ e.kind = q.kind /\ e.cfg = q.cfg
      /\ e.delivered = q.delivered /\ e.got = got
      /\ e.captured = Append(q.captured, c)
      /\ e.metered = IF q.route = "custom" /\ q.provider = NoProvider THEN q.metered
                     ELSE Append(q.metered, m)
  BY DEF Finalized, Ended
<1>3. Named(q) => c.to = Target(q)
  BY DEF Named
<1>4. c.result = error /\ m = [to |-> Target(q), result |-> result]
  OBVIOUS
<1> HIDE DEF e, c, m
<1>5. Append(<<>>, c) = <<c>> /\ Append(<<>>, m) = <<m>>
  BY SMT
<1>6. e.captured = <<c>> /\ (e.metered = <<>> \/ e.metered = <<m>>)
      /\ (Named(q) => e.metered = <<m>>)
  BY <1>1, <1>2, <1>5 DEF Named
<1>7. Len(<<c>>) = 1 /\ <<c>>[1] = c /\ Len(<<m>>) = 1 /\ <<m>>[1] = m /\ Len(<<>>) = 0
  BY SMT
<1>8. /\ Len(e.captured) = 1 /\ Len(e.metered) <= 1 /\ Len(e.metered) \in Nat
      /\ e.captured[1].result = error
      /\ Named(q) => /\ Len(e.metered) = 1 /\ e.captured[1].to = Target(q)
                     /\ e.metered[1] = [to |-> Target(q), result |-> result]
  <2>1. Len(e.captured) = 1 /\ e.captured[1] = c
    BY <1>6, <1>7
  <2>2. Len(e.metered) = 0 \/ Len(e.metered) = 1
    BY <1>6, <1>7
  <2>3. Named(q) => Len(e.metered) = 1 /\ e.metered[1] = m
    BY <1>6, <1>7
  <2>4. Len(e.metered) <= 1 /\ Len(e.metered) \in Nat
    <3>1. \A n : n = 0 \/ n = 1 => n <= 1 /\ n \in Nat
      BY SMT
    <3> QED BY <2>2, <3>1, Zenon
  <2> QED BY <1>3, <1>4, <2>1, <2>3, <2>4
<1> QED BY <1>2, <1>8 DEF e

\* A finalized request is settled, if its records name who has it, or nobody has.
LEMMA FinalizedIsSettled ==
  ASSUME NEW q, Finishable(q), NEW result, NEW error, NEW got,
         q.delivered # <<>> /\ got \notin {"503", "400"} => Named(q),
         result \in {"clientAbort", "timeout", "networkError"} => error = "error",
         got = "answer" => q.delivered # <<>> /\ q.delivered[Len(q.delivered)].to = Target(q)
  PROVE  Settled([Finalized(q, result, error) EXCEPT !.got = got])
<1> DEFINE e == [Finalized(q, result, error) EXCEPT !.got = got]
<1>1. /\ e.stage = "done" /\ e.kind = q.kind /\ e.cfg = q.cfg
      /\ e.delivered = q.delivered /\ e.got = got
      /\ Len(e.captured) = 1 /\ Len(e.metered) <= 1 /\ Len(e.metered) \in Nat
      /\ e.captured[1].result = error
      /\ Named(q) => /\ Len(e.metered) = 1 /\ e.captured[1].to = Target(q)
                     /\ e.metered[1] = [to |-> Target(q), result |-> result]
  BY FinalizedIsDone
<1> HIDE DEF e
<1>2. Recorded(e)
  BY <1>1, SMT DEF Recorded
<1>3. /\ \A d : TurnedAway(q, d) <=> TurnedAway(e, d)
      /\ \A d : AsConfigured(q, d) <=> AsConfigured(e, d)
  BY <1>1, SameRequest
<1> QED BY <1>1, <1>2, <1>3 DEF Settled, Finishable, Shaped, e

LEMMA FailureIsSettled ==
  ASSUME NEW q, Finishable(q), NEW code, NEW result,
         q.delivered # <<>> /\ (code \notin {"503", "400"} \/ q.headersSent) => Named(q),
         code # "answer"
  PROVE  Settled(ProxyFailure(q, code, result))
<1> DEFINE got == IF q.headersSent THEN "cut" ELSE code
<1>1. ~Terminal(q)
  BY DEF Terminal, Finishable, Shaped
<1>2. ProxyFailure(q, code, result) = [Finalized(q, result, "error") EXCEPT !.got = got]
  BY <1>1 DEF ProxyFailure
<1>3. got # "answer" /\ (q.delivered # <<>> /\ got \notin {"503", "400"} => Named(q))
  OBVIOUS
<1> HIDE DEF got
<1>4. Settled([Finalized(q, result, "error") EXCEPT !.got = got])
  BY <1>3, FinalizedIsSettled
<1> QED BY <1>2, <1>4

------------------------
(* Sending. *)

\* Nobody has the request but accounts that turned it away, and nothing of an answer is
\* with the client.
Steady(q) == Shaped(q) /\ Free(q) /\ ~q.headersSent

\* The body is where it has to be for an upstream request.
Placed(q) ==
  /\ q.how = "preflight" => q.streaming \/ q.ended
  /\ q.how = "transform" => q.ended

Ready(q) ==
  /\ Steady(q) /\ Aimed(q) /\ q.context \in {"none", Target(q)}
  /\ q.how # "preflight" => q.route = "custom"

LEMMA SteadyMayFinish ==
  ASSUME NEW q, Steady(q)
  PROVE  Finishable(q)
<1>1. q.delivered \in Seq(Sendings)
  BY DEF Steady, Shaped
<1>2. \A i \in 1..Len(q.delivered) - 1 : i \in 1..Len(q.delivered)
  BY <1>1, SMT
<1> QED BY <1>2 DEF Steady, Free, Finishable

LEMMA AimedIsNamed ==
  ASSUME NEW q, Aimed(q), q.context \in {"none", Target(q)}
  PROVE  Named(q)
<1>1. q.route = "custom" => q.provider \in Providers
  BY SMT DEF Aimed, Serving
<1> QED BY <1>1, NullsAssumption DEF Named

\* createUpstreamRequest, for whom it may be called.
LEMMA CreatedIsSound ==
  ASSUME NEW q, Ready(q), Placed(q), NEW s \in Created(q)
  PROVE  Going(s) \/ Settled(s)
<1> DEFINE c == [q EXCEPT !.attempt = "connecting", !.connected = FALSE,
                          !.context = IF @ = "none" THEN Target(q) ELSE @]
<1>1. Shaped(q) /\ Free(q) /\ ~q.headersSent /\ Aimed(q)
  BY DEF Ready, Steady
<1>2. s = c \/ s = ProxyFailure(q, "502", "networkError")
  BY <1>1 DEF Created, Terminal, Shaped
<1>3. CASE s = ProxyFailure(q, "502", "networkError")
  <2>1. Finishable(q) /\ Named(q)
    BY SteadyMayFinish, AimedIsNamed DEF Ready
  <2> QED BY <1>3, <2>1, FailureIsSettled
<1>4. CASE s = c
  <2>1. DOMAIN q = RequestFields
    BY <1>1 DEF Shaped
  <2>2. /\ DOMAIN c = RequestFields /\ c.stage = q.stage /\ c.kind = q.kind /\ c.cfg = q.cfg
        /\ c.how = q.how /\ c.route = q.route /\ c.attempt = "connecting"
        /\ c.delivered = q.delivered /\ c.captured = q.captured /\ c.metered = q.metered
        /\ c.connected = FALSE /\ c.streaming = q.streaming /\ c.ended = q.ended
        /\ c.candidates = q.candidates /\ c.index = q.index /\ c.provider = q.provider
        /\ c.headersSent = q.headersSent
        /\ c.context = IF q.context = "none" THEN Target(q) ELSE q.context
    BY <2>1 DEF RequestFields
  <2> HIDE DEF c
  <2>3. Shaped(c)
    BY <1>1, <2>2 DEF Shaped, Attempts
  <2>4. Target(c) = Target(q) /\ c.context = Target(c)
    BY <2>2 DEF Target, Ready
  <2>5. Aimed(c)
    BY <1>1, <2>2 DEF Aimed, Serving
  <2>6. Free(c)
    BY <1>1, <2>2, FreeStays
  <2>7. Deliveries(c)
    <3>1. \A i \in 1..Len(c.delivered) - 1 : i \in 1..Len(c.delivered)
      <4>1. c.delivered \in Seq(Sendings)
        BY <2>3 DEF Shaped
      <4> QED BY <4>1, SMT
    <3> QED BY <2>2, <2>6, <3>1 DEF Deliveries, Free
  <2>8. Progress(c)
    BY <1>1, <2>2, <2>4, <2>5 DEF Progress, Ready, Placed, Aimed
  <2> QED BY <1>4, <2>3, <2>7, <2>8 DEF Going
<1> QED BY <1>2, <1>3, <1>4

LEMMA PreparedIsSound ==
  ASSUME NEW q, Ready(q), Placed(q), NEW s \in PreparedAndCreated(q)
  PROVE  Going(s) \/ Settled(s)
<1>1. ~Terminal(q)
  BY DEF Terminal, Ready, Steady, Shaped
<1>2. s \in Created(q) \/ s = ProxyFailure(q, "400", "upstreamError")
  BY <1>1 DEF PreparedAndCreated
<1>3. Finishable(q) /\ Named(q)
  BY SteadyMayFinish, AimedIsNamed DEF Ready
<1> QED BY <1>2, <1>3, CreatedIsSound, FailureIsSettled

\* Each of the candidates of q serves its model.
Served(q) ==
  /\ q.candidates \in Seq(Providers)
  /\ \A i \in DOMAIN q.candidates :
       /\ q.candidates[i] \in Configured(q.cfg)
       /\ Supports(q.cfg.policy[q.candidates[i]], q.kind.model)

\* c is q but for where it is sent.
Redirected(q, c) ==
  /\ c.how = q.how /\ c.streaming = q.streaming /\ c.ended = q.ended
  /\ c.kind = q.kind /\ c.cfg = q.cfg /\ c.delivered = q.delivered
  /\ c.attempt = q.attempt /\ c.headersSent = q.headersSent

LEMMA OnCustomIsReady ==
  ASSUME NEW q, Steady(q), Served(q), NEW i \in DOMAIN q.candidates
  PROVE  Ready(OnCustom(q, i)) /\ Redirected(q, OnCustom(q, i))
<1> DEFINE c == OnCustom(q, i)
<1>1. DOMAIN q = RequestFields
  BY DEF Steady, Shaped
<1>2. /\ DOMAIN c = RequestFields /\ c.stage = q.stage /\ c.kind = q.kind /\ c.cfg = q.cfg
      /\ c.how = q.how /\ c.route = "custom" /\ c.attempt = q.attempt
      /\ c.delivered = q.delivered /\ c.captured = q.captured /\ c.metered = q.metered
      /\ c.streaming = q.streaming /\ c.ended = q.ended /\ c.headersSent = q.headersSent
      /\ c.candidates = q.candidates /\ c.index = i /\ c.provider = q.candidates[i]
      /\ c.context = IF q.context = "none" THEN "none" ELSE q.candidates[i]
  BY <1>1 DEF RequestFields, OnCustom
<1> HIDE DEF c
<1>3. Steady(c)
  BY <1>2, FreeStays DEF Steady, Shaped
<1>4. Aimed(c)
  BY <1>2 DEF Aimed, Serving, Served
<1>5. c.context \in {"none", Target(c)}
  BY <1>2 DEF Target
<1>6. Redirected(q, c)
  BY <1>2 DEF Redirected
<1> QED BY <1>2, <1>3, <1>4, <1>5, <1>6 DEF Ready, c

LEMMA NoCustomIsSteady ==
  ASSUME NEW q, Shaped(q)
  PROVE  /\ Shaped(NoCustom(q)) /\ Redirected(q, NoCustom(q))
         /\ Steady(q) => Steady(NoCustom(q))
<1> DEFINE c == NoCustom(q)
<1>1. DOMAIN q = RequestFields
  BY DEF Shaped
<1>2. /\ DOMAIN c = RequestFields /\ c.stage = q.stage /\ c.kind = q.kind /\ c.cfg = q.cfg
      /\ c.how = q.how /\ c.route = "custom" /\ c.attempt = q.attempt
      /\ c.delivered = q.delivered /\ c.captured = q.captured /\ c.metered = q.metered
      /\ c.streaming = q.streaming /\ c.ended = q.ended /\ c.headersSent = q.headersSent
  BY <1>1 DEF RequestFields, NoCustom
<1> HIDE DEF c
<1>3. Shaped(c) /\ Redirected(q, c)
  BY <1>2 DEF Shaped, Redirected
<1>4. Steady(q) => Steady(c)
  BY <1>2, <1>3, FreeStays DEF Steady
<1> QED BY <1>3, <1>4 DEF c

\* The plan for a model, and the plan without one where the model decides nothing.
LEMMA PlanServes ==
  ASSUME NEW cfg \in Configurations, NEW m \in ModelOrNone, NEW wanted \in ModelOrNone,
         m = wanted \/ ~ModelAware(cfg)
  PROVE  /\ Plan(cfg, m) \in Seq(Providers)
         /\ \A i \in DOMAIN Plan(cfg, m) :
              /\ Plan(cfg, m)[i] \in Configured(cfg)
              /\ Supports(cfg.policy[Plan(cfg, m)[i]], wanted)
         /\ Plan(cfg, m) # <<>> => 1 \in DOMAIN Plan(cfg, m)
<1> DEFINE plan == Plan(cfg, m)
           C == Candidates(cfg, m)
           n == Cardinality(C)
<1>1. plan \in [1..n -> C] /\ n \in Nat
  BY PlanIsWhole
<1>2. C \subseteq Eligible(cfg, m) /\ C \subseteq Configured(cfg) /\ C \subseteq Providers
  BY CandidatesAreEligible
<1>3. \A p \in C : Supports(cfg.policy[p], wanted)
  BY <1>2, UnawareServesAll DEF Eligible
<1> HIDE DEF plan, C, n
<1>4. plan \in Seq(Providers)
  BY <1>1, <1>2, SMT
<1>5. \A i \in DOMAIN plan : plan[i] \in C
  BY <1>1
<1>6. plan # <<>> => 1 \in DOMAIN plan
  BY <1>1, SMT
<1> QED BY <1>2, <1>3, <1>4, <1>5, <1>6 DEF plan

LEMMA SelectedIsReady ==
  ASSUME NEW q, Steady(q), NEW m \in ModelOrNone, m = q.kind.model \/ ~ModelAware(q.cfg)
  PROVE  LET s == SelectCustom(q, m)
         IN Settled(s) \/ (Ready(s) /\ Redirected(q, s))
<1> DEFINE plan == Plan(q.cfg, m)
           c == [q EXCEPT !.candidates = plan]
<1>1. Shaped(q) /\ q.cfg \in Configurations /\ q.kind.model \in ModelOrNone
  BY KindIsTyped DEF Steady, Shaped
<1>2. CASE plan = <<>>
  <2>1. SelectCustom(q, m) = ProxyFailure(NoCustom(q), "503", "upstreamError")
    BY <1>2 DEF SelectCustom
  <2>2. Steady(NoCustom(q)) /\ ~NoCustom(q).headersSent
    BY <1>1, NoCustomIsSteady DEF Steady
  <2>3. Finishable(NoCustom(q))
    BY <2>2, SteadyMayFinish
  <2>4. Settled(ProxyFailure(NoCustom(q), "503", "upstreamError"))
    BY <2>2, <2>3, FailureIsSettled
  <2> QED BY <2>1, <2>4
<1>3. CASE plan # <<>>
  <2>1. SelectCustom(q, m) = OnCustom(c, 1)
    BY <1>3 DEF SelectCustom
  <2>2. DOMAIN q = RequestFields
    BY <1>1 DEF Shaped
  <2>3. /\ DOMAIN c = RequestFields /\ c.stage = q.stage /\ c.kind = q.kind /\ c.cfg = q.cfg
        /\ c.how = q.how /\ c.route = q.route /\ c.attempt = q.attempt
        /\ c.delivered = q.delivered /\ c.captured = q.captured /\ c.metered = q.metered
        /\ c.streaming = q.streaming /\ c.ended = q.ended /\ c.headersSent = q.headersSent
        /\ c.candidates = plan
    BY <2>2 DEF RequestFields
  <2>4. /\ plan \in Seq(Providers) /\ 1 \in DOMAIN plan
        /\ \A i \in DOMAIN plan : /\ plan[i] \in Configured(q.cfg)
                                  /\ Supports(q.cfg.policy[plan[i]], q.kind.model)
    BY <1>1, <1>3, PlanServes
  <2> HIDE DEF plan, c
  <2>5. Steady(c)
    BY <2>3, FreeStays DEF Steady, Shaped
  <2>6. Served(c) /\ 1 \in DOMAIN c.candidates
    BY <2>3, <2>4 DEF Served
  <2>7. Ready(OnCustom(c, 1)) /\ Redirected(c, OnCustom(c, 1))
    BY <2>5, <2>6, OnCustomIsReady
  <2>8. Redirected(q, OnCustom(c, 1))
    BY <2>3, <2>7 DEF Redirected
  <2> QED BY <2>1, <2>7, <2>8
<1> QED BY <1>2, <1>3

------------------------
(* The head and the body of a request. *)

\* A request that was not sent yet.
LEMMA UnsentIsSteady ==
  ASSUME NEW q, Going(q), q.attempt = "none"
  PROVE  /\ Steady(q) /\ q.delivered = <<>> /\ q.context = "none"
         /\ q.initialAccount => q.route = "account"
         /\ q.how # "preflight" => Ready(q)
<1>1. /\ Shaped(q) /\ ~q.headersSent /\ q.delivered = <<>> /\ q.context = "none"
      /\ q.initialAccount => q.route = "account"
      /\ q.how # "preflight" => q.route = "custom" /\ Serving(q)
  BY DEF Going, Progress
<1>2. Free(q)
  BY DEF Going, Deliveries, Progress
<1> QED BY <1>1, <1>2 DEF Steady, Ready, Aimed

\* The end of its body, or a whole replay buffer, changes nothing of where it is sent.
LEMMA EndedIsSteady ==
  ASSUME NEW q, Steady(q), NEW c, c = [q EXCEPT !.ended = TRUE, !.replay = TRUE]
                                 \/ c = [q EXCEPT !.ended = TRUE]
                                 \/ c = [q EXCEPT !.streaming = TRUE]
  PROVE  /\ Steady(c) /\ c.how = q.how /\ c.kind = q.kind /\ c.cfg = q.cfg
         /\ c.delivered = q.delivered /\ c.context = q.context /\ c.route = q.route
         /\ c.initialAccount = q.initialAccount /\ c.account = q.account
         /\ c.ended \/ c.streaming
         /\ Ready(q) => Ready(c)
<1>1. DOMAIN q = RequestFields
  BY DEF Steady, Shaped
<1>2. /\ DOMAIN c = RequestFields /\ c.stage = q.stage /\ c.kind = q.kind /\ c.cfg = q.cfg
      /\ c.how = q.how /\ c.route = q.route /\ c.attempt = q.attempt
      /\ c.delivered = q.delivered /\ c.captured = q.captured /\ c.metered = q.metered
      /\ c.candidates = q.candidates /\ c.index = q.index /\ c.provider = q.provider
      /\ c.headersSent = q.headersSent /\ c.context = q.context
      /\ c.initialAccount = q.initialAccount /\ c.account = q.account
      /\ c.ended \/ c.streaming
  BY <1>1 DEF RequestFields
<1>3. Steady(c)
  BY <1>2, FreeStays DEF Steady, Shaped
<1>4. ASSUME Ready(q) PROVE Ready(c)
  <2>1. Aimed(c)
    BY <1>2, <1>4 DEF Ready, Aimed, Serving
  <2>2. Target(c) = Target(q)
    BY <1>2 DEF Target
  <2> QED BY <1>2, <1>3, <1>4, <2>1, <2>2 DEF Ready
<1> QED BY <1>2, <1>3, <1>4

LEMMA OverflowedIsSound ==
  ASSUME NEW q, Going(q), q.attempt = "none", q.how = "preflight", NEW s \in Overflowed(q)
  PROVE  Going(s) \/ Settled(s)
<1> DEFINE seen == SeenEarly(q)
           unrouted == IF q.initialAccount \/ EditsPreflight(q) THEN NoCustom(q) ELSE q
           chosen == SelectCustom(unrouted, seen)
           t == Streaming(chosen)
           refused == \/ EditsPreflight(q) /\ (ModelAware(q.cfg) \/ AnyTransforms(q.cfg))
                      \/ ModelAware(q.cfg) /\ seen = NoModel
<1>1. Steady(q) /\ q.delivered = <<>> /\ q.kind.model \in ModelOrNone
  BY UnsentIsSteady, KindIsTyped DEF Steady, Shaped
<1>2. Steady(unrouted) /\ Redirected(q, unrouted)
  BY <1>1, NoCustomIsSteady DEF Redirected, Steady
<1>3. /\ unrouted.delivered = <<>> /\ unrouted.kind = q.kind /\ unrouted.cfg = q.cfg
      /\ unrouted.how = "preflight"
  BY <1>1, <1>2 DEF Redirected
<1>4. seen \in ModelOrNone /\ (seen = q.kind.model \/ seen = NoModel)
  BY <1>1 DEF SeenEarly, EarlyModel, ModelOrNone
<1> HIDE DEF unrouted, seen
<1>5. s = ProxyFailure(unrouted, "413", "upstreamError")
      \/ (~refused /\ s \in IF Terminal(t) THEN {t}
                            ELSE IF Transforms(t) THEN {ProxyFailure(t, "413", "upstreamError")}
                            ELSE Created(t))
  BY DEF Overflowed, unrouted, seen
<1>6. CASE s = ProxyFailure(unrouted, "413", "upstreamError")
  <2>1. Finishable(unrouted)
    BY <1>2, SteadyMayFinish
  <2> QED BY <1>3, <1>6, <2>1, FailureIsSettled
<1>7. CASE /\ ~refused
           /\ s \in IF Terminal(t) THEN {t}
                     ELSE IF Transforms(t) THEN {ProxyFailure(t, "413", "upstreamError")}
                     ELSE Created(t)
  <2>1. seen = unrouted.kind.model \/ ~ModelAware(unrouted.cfg)
    BY <1>3, <1>4, <1>7
  <2>2. Settled(chosen) \/ (Ready(chosen) /\ Redirected(unrouted, chosen))
    BY <1>2, <1>4, <2>1, SelectedIsReady
  <2> HIDE DEF chosen, refused
  <2>3. CASE Settled(chosen)
    BY <1>7, <2>3 DEF Streaming, Terminal, Settled
  <2>4. CASE Ready(chosen) /\ Redirected(unrouted, chosen)
    <3>1. Steady(chosen) /\ chosen.how = "preflight" /\ chosen.stage = "reading"
      BY <1>3, <2>4 DEF Ready, Redirected, Steady, Shaped
    <3>2. t = [chosen EXCEPT !.streaming = TRUE]
      BY <3>1 DEF Streaming, Terminal
    <3>3. Ready(t) /\ t.how = "preflight" /\ (t.ended \/ t.streaming)
      BY <2>4, <3>1, <3>2, EndedIsSteady
    <3> HIDE DEF t
    <3>4. Placed(t) /\ ~Terminal(t)
      BY <3>3 DEF Placed, Terminal, Ready, Steady, Shaped
    <3>5. Finishable(t) /\ Named(t)
      BY <3>3, SteadyMayFinish, AimedIsNamed DEF Ready
    <3> QED BY <1>7, <3>3, <3>4, <3>5, CreatedIsSound, FailureIsSettled
  <2> QED BY <2>2, <2>3, <2>4
<1> QED BY <1>5, <1>6, <1>7

LEMMA InspectedIsSound ==
  ASSUME NEW q, Going(q), q.attempt = "none", q.how = "preflight", NEW s \in Inspected(q)
  PROVE  Going(s) \/ Settled(s)
<1> DEFINE whole == [q EXCEPT !.ended = TRUE, !.replay = TRUE]
           chosen == SelectCustom(whole, q.kind.model)
           custom == ~q.initialAccount \/ Decide(q, q.kind.model, TRUE).route = "custom"
<1>1. /\ Steady(q) /\ q.delivered = <<>> /\ q.kind.model \in ModelOrNone
      /\ q.context = "none" /\ (q.initialAccount => q.route = "account")
  BY UnsentIsSteady, KindIsTyped DEF Steady, Shaped
<1>2. /\ Steady(whole) /\ whole.how = "preflight" /\ whole.kind = q.kind
      /\ whole.cfg = q.cfg /\ whole.delivered = <<>> /\ whole.context = "none"
      /\ whole.route = q.route
  BY <1>1, EndedIsSteady
<1>3. whole.ended
  BY <1>1 DEF Steady, Shaped, RequestFields
<1>4. \/ s = ProxyFailure(NoCustom(whole), "400", "upstreamError")
      \/ custom /\ s \in PreparedAndCreated(chosen)
      \/ ~custom /\ s \in Created(whole)
  BY DEF Inspected
<1> HIDE DEF whole
<1>5. CASE s = ProxyFailure(NoCustom(whole), "400", "upstreamError")
  <2>1. Steady(NoCustom(whole)) /\ NoCustom(whole).delivered = <<>>
    BY <1>2, NoCustomIsSteady DEF Steady, Redirected
  <2>2. Finishable(NoCustom(whole))
    BY <2>1, SteadyMayFinish
  <2> QED BY <1>5, <2>1, <2>2, FailureIsSettled
<1>6. CASE s \in PreparedAndCreated(chosen)
  <2>1. Settled(chosen) \/ (Ready(chosen) /\ Redirected(whole, chosen))
    BY <1>1, <1>2, SelectedIsReady
  <2> HIDE DEF chosen
  <2>2. CASE Settled(chosen)
    BY <1>6, <2>2 DEF PreparedAndCreated, Terminal, Settled
  <2>3. CASE Ready(chosen) /\ Redirected(whole, chosen)
    <3>1. Placed(chosen)
      BY <1>3, <2>3 DEF Placed, Redirected
    <3> QED BY <1>6, <2>3, <3>1, PreparedIsSound
  <2> QED BY <2>1, <2>2, <2>3
<1>7. CASE ~custom /\ s \in Created(whole)
  <2>1. /\ whole.route = "account"
        /\ whole.kind.headers
        /\ AccountSupportsModel(whole.kind.operation, whole.kind.model, NoModel, FALSE)
    BY <1>1, <1>2, <1>7, AccountChosen
  <2>2. Ready(whole) /\ Placed(whole)
    BY <1>2, <1>3, <2>1 DEF Ready, Aimed, Placed
  <2> QED BY <1>7, <2>2, CreatedIsSound
<1> QED BY <1>4, <1>5, <1>6, <1>7

LEMMA HeadedIsSound ==
  ASSUME NEW k \in Kinds, settings \in Configurations
  PROVE  Going(Headed(k)) \/ Settled(Headed(k))
<1> DEFINE q == NewRequest(k, settings)
           plan == Plan(settings, NoModel)
           decision == Decide(q, NoModel, FALSE)
           onAccount == decision.route = "account"
           first == IF plan = <<>> THEN NoProvider ELSE plan[1]
           r == [q EXCEPT !.route = decision.route, !.initialAccount = onAccount,
                          !.provider = first, !.candidates = plan,
                          !.index = IF plan = <<>> THEN 0 ELSE 1]
           early == \/ onAccount \/ EditsPreflight(r) \/ ModelAware(settings)
                    \/ k.operation = "responses" /\ Len(plan) > 1
           how == IF early THEN "preflight"
                  ELSE IF Transforms(r) THEN "transform" ELSE "stream"
           t == [r EXCEPT !.how = how]
<1>1. Headed(k) = IF decision.reason = "unsupported_request_format"
                  THEN ProxyFailure(NoCustom(r), "415", "upstreamError")
                  ELSE IF ~onAccount /\ first = NoProvider /\ ~EditsPreflight(r)
                  THEN [Ended(r) EXCEPT !.got = "503"]
                  ELSE t
  BY DEF Headed
<1>2. decision.route \in {"account", "custom"}
  BY DecisionIsRoute
<1>3. /\ DOMAIN r = RequestFields /\ r.stage = "reading" /\ r.kind = k /\ r.cfg = settings
      /\ r.how = "stream" /\ r.route = decision.route /\ r.attempt = "none"
      /\ r.delivered = <<>> /\ r.captured = <<>> /\ r.metered = <<>>
      /\ r.connected = FALSE /\ r.headersSent = FALSE /\ r.context = "none"
      /\ r.initialAccount = onAccount /\ r.provider = first /\ r.candidates = plan
      /\ r.index = IF plan = <<>> THEN 0 ELSE 1
  <2> HIDE DEF plan, decision, onAccount, first
  <2> QED BY DEF NewRequest, RequestFields
<1>4. <<>> \in Seq(Sendings) /\ Len(<<>>) = 0 /\ 1..0 = {}
  BY SMT
<1> HIDE DEF r, q, decision
<1>5. Shaped(r) /\ Free(r)
  <2>1. Shaped(r)
    BY <1>2, <1>3, <1>4 DEF Shaped, Attempts
  <2> QED BY <1>3, <1>4, <2>1 DEF Free
<1>6. CASE Headed(k) = ProxyFailure(NoCustom(r), "415", "upstreamError")
  <2>1. Steady(NoCustom(r)) /\ NoCustom(r).delivered = <<>>
    BY <1>3, <1>5, NoCustomIsSteady DEF Steady, Redirected
  <2>2. Finishable(NoCustom(r))
    BY <2>1, SteadyMayFinish
  <2> QED BY <1>6, <2>1, <2>2, FailureIsSettled
<1>7. CASE Headed(k) = [Ended(r) EXCEPT !.got = "503"]
  <2> DEFINE e == [Ended(r) EXCEPT !.got = "503"]
  <2>1. /\ e.stage = "done" /\ e.delivered = <<>> /\ e.captured = <<>> /\ e.metered = <<>>
    BY <1>3 DEF Ended
  <2> HIDE DEF e
  <2>2. Recorded(e)
    BY <1>4, <2>1, SMT DEF Recorded
  <2>3. Settled(e)
    <3>1. 1..Len(e.delivered) = {} /\ 1..Len(e.delivered) - 1 = {}
      BY <1>4, <2>1, SMT
    <3> QED BY <1>4, <2>1, <2>2, <3>1 DEF Settled
  <2> QED BY <1>7, <2>3 DEF e
<1>8. CASE /\ Headed(k) = t
           /\ ~(~onAccount /\ first = NoProvider /\ ~EditsPreflight(r))
  <2>1. how \in {"preflight", "transform", "stream"}
    OBVIOUS
  <2>2. how # "preflight" =>
          decision.route = "custom" /\ ~ModelAware(settings) /\ first # NoProvider
    BY <1>2, <1>8
  <2>3. /\ DOMAIN t = RequestFields /\ t.stage = "reading" /\ t.kind = k /\ t.cfg = settings
        /\ t.how = how /\ t.route = decision.route /\ t.attempt = "none"
        /\ t.delivered = <<>> /\ t.captured = <<>> /\ t.metered = <<>>
        /\ t.connected = FALSE /\ t.headersSent = FALSE /\ t.context = "none"
        /\ t.initialAccount = onAccount /\ t.provider = first /\ t.candidates = plan
        /\ t.index = IF plan = <<>> THEN 0 ELSE 1
    <3> HIDE DEF how, plan, onAccount, first
    <3> QED BY <1>3 DEF RequestFields
  <2> HIDE DEF how, t
  <2>4. Shaped(t)
    BY <1>2, <1>4, <2>1, <2>3 DEF Shaped, Attempts
  <2>5. Deliveries(t)
    <3>1. 1..Len(t.delivered) = {} /\ 1..Len(t.delivered) - 1 = {}
      BY <1>4, <2>3, SMT
    <3> QED BY <2>3, <3>1 DEF Deliveries, Free
  <2>6. t.how # "preflight" => t.route = "custom" /\ Serving(t)
    <3> SUFFICES ASSUME t.how # "preflight" PROVE t.route = "custom" /\ Serving(t)
      OBVIOUS
    <3>1. decision.route = "custom" /\ ~ModelAware(settings) /\ plan # <<>>
      BY <2>2, <2>3
    <3>2. NoModel \in ModelOrNone /\ k.model \in ModelOrNone
      BY KindIsTyped DEF ModelOrNone
    <3>3. /\ plan \in Seq(Providers) /\ 1 \in DOMAIN plan
          /\ \A i \in DOMAIN plan : /\ plan[i] \in Configured(settings)
                                    /\ Supports(settings.policy[plan[i]], k.model)
      BY <3>1, <3>2, PlanServes
    <3>4. first = plan[1]
      BY <3>1
    <3> HIDE DEF plan, first
    <3> QED BY <2>3, <3>1, <3>3, <3>4 DEF Serving
  <2>7. Progress(t)
    BY <2>3, <2>6 DEF Progress
  <2> QED BY <1>8, <2>4, <2>5, <2>7 DEF Going
<1> QED BY <1>1, <1>6, <1>7, <1>8

------------------------
(* What was delivered. *)

\* ModelSent is the name of the model for whom the request goes to.
LEMMA SendingIsConfigured ==
  ASSUME NEW q, Shaped(q), Aimed(q)
  PROVE  /\ Target(q) \in Targets /\ ModelSent(q) \in ModelOrNone
         /\ \A status : AsConfigured(q, [to |-> Target(q), model |-> ModelSent(q),
                                         status |-> status])
<1> DEFINE d(status) == [to |-> Target(q), model |-> ModelSent(q), status |-> status]
<1>1. q.kind.model \in ModelOrNone /\ q.cfg \in Configurations
  BY KindIsTyped DEF Shaped
<1>2. CASE q.route = "account"
  <2>1. Target(q) = "account" /\ ModelSent(q) = q.kind.model
    BY <1>2 DEF Target, ModelSent
  <2> QED BY <1>1, <1>2, <2>1 DEF Aimed, AsConfigured, Targets
<1>3. CASE q.route = "custom"
  <2> DEFINE p == q.provider
             policy == q.cfg.policy[p]
  <2>1. p \in Configured(q.cfg) /\ Supports(policy, q.kind.model)
    BY <1>3 DEF Aimed, Serving
  <2>2. p \in Providers /\ p # "account" /\ Target(q) = p
    BY <1>1, <1>3, <2>1, IndexIsPlace, NamesAssumption DEF Target
  <2>3. /\ TargetModel(policy, q.kind.model) \in ModelOrNone
        /\ policy.override \in ModelOrNone
    BY <1>1, <2>1, PolicyIsTyped
  <2>4. ModelSent(q) = IF q.kind.operation = "models" THEN q.kind.model
                       ELSE IF policy.override # NoModel THEN policy.override
                       ELSE TargetModel(policy, q.kind.model)
    BY <1>3 DEF ModelSent
  <2>5. ModelSent(q) \in ModelOrNone
    BY <1>1, <2>3, <2>4
  <2>6. q.kind.operation # "models" /\ q.kind.model # NoModel =>
          ModelSent(q) = TargetModel(policy, q.kind.model)
    BY <2>4 DEF TargetModel
  <2> HIDE DEF p, policy
  <2>7. ASSUME NEW status PROVE AsConfigured(q, d(status))
    <3>1. d(status).to = p /\ d(status).model = ModelSent(q)
      BY <2>2
    <3> HIDE DEF d
    <3> QED BY <2>1, <2>2, <2>6, <3>1 DEF AsConfigured, policy
  <2> QED BY <2>2, <2>5, <2>7 DEF Targets
<1> QED BY <1>2, <1>3 DEF Shaped

LEMMA OneMore ==
  ASSUME NEW d \in Seq(Sendings), NEW x \in Sendings
  PROVE  LET e == Append(d, x)
         IN /\ e \in Seq(Sendings) /\ e # <<>> /\ e[Len(e)] = x
            /\ \A i \in 1..Len(e) - 1 : i \in 1..Len(d) /\ e[i] = d[i]
            /\ \A i \in 1..Len(e) : i \in 1..Len(e) - 1 \/ i = Len(e)
BY SMT

LEMMA LastAnswered ==
  ASSUME NEW d \in Seq(Sendings), d # <<>>, NEW status \in Nat
  PROVE  LET e == [d EXCEPT ![Len(d)].status = status]
         IN /\ e \in Seq(Sendings) /\ e # <<>> /\ Len(e) = Len(d)
            /\ \A i \in 1..Len(d) - 1 : i \in 1..Len(d) /\ e[i] = d[i]
            /\ \A i \in 1..Len(d) : i \in 1..Len(d) - 1 \/ i = Len(d)
            /\ e[Len(d)].to = d[Len(d)].to /\ e[Len(d)].model = d[Len(d)].model
            /\ e[Len(d)].status = status
<1> DEFINE n == Len(d)
           x == [d[n] EXCEPT !.status = status]
           e == [d EXCEPT ![n] = x]
<1>1. n \in Nat \ {0} /\ n \in DOMAIN d /\ DOMAIN d = 1..n /\ d[n] \in Sendings
  BY SMT
<1>2. /\ x \in Sendings /\ x.to = d[n].to /\ x.model = d[n].model /\ x.status = status
  BY <1>1, SMT DEF Sendings
<1>3. e = [d EXCEPT ![Len(d)].status = status]
  OBVIOUS
<1> HIDE DEF x, n
<1>4. d \in [1..n -> Sendings]
  BY <1>1, SMT
<1>5. e \in [1..n -> Sendings] /\ e[n] = x /\ \A i \in 1..n - 1 : e[i] = d[i]
  BY <1>1, <1>2, <1>4, SMT
<1> HIDE DEF e
<1>6. e \in Seq(Sendings) /\ Len(e) = n /\ e # <<>>
  BY <1>1, <1>5, SMT
<1>7. /\ \A i \in 1..n - 1 : i \in 1..n
      /\ \A i \in 1..n : i \in 1..n - 1 \/ i = n
  BY <1>1, SMT
<1> QED BY <1>2, <1>3, <1>5, <1>6, <1>7 DEF n

------------------------
(* The steps of a request that was sent. *)

Kept(q, c) ==
  /\ DOMAIN c = RequestFields /\ c.stage = q.stage /\ c.kind = q.kind /\ c.cfg = q.cfg
  /\ c.how = q.how /\ c.streaming = q.streaming /\ (q.ended => c.ended)
  /\ c.route = q.route /\ c.provider = q.provider
  /\ c.candidates = q.candidates /\ c.index = q.index
  /\ c.context = q.context /\ c.captured = q.captured /\ c.metered = q.metered

LEMMA KeptIsGoing ==
  ASSUME NEW q, Going(q), q.attempt # "none", NEW c, Kept(q, c),
         c.attempt \in Attempts \ {"none"}, c.delivered \in Seq(Sendings), Deliveries(c),
         c.attempt \in {"connecting", "connected", "destroyed"} => ~c.headersSent
  PROVE  Going(c)
<1>1. Shaped(q) /\ Aimed(q) /\ q.context = Target(q)
  BY DEF Going, Progress
<1>2. Shaped(c)
  BY <1>1 DEF Shaped, Kept
<1>3. Aimed(c) /\ c.context = Target(c)
  BY <1>1 DEF Kept, Aimed, Serving, Target
<1>4. c.how # "preflight" => c.route = "custom" /\ Serving(c)
  BY <1>3 DEF Going, Progress, Kept, Aimed
<1>5. Progress(c)
  BY <1>3, <1>4 DEF Going, Progress, Kept, Attempts
<1> QED BY <1>2, <1>5 DEF Going

\* Where nothing is delivered, what was is as it should be.
LEMMA SameIsGoing ==
  ASSUME NEW q, Going(q), q.attempt # "none", NEW c, Kept(q, c),
         c.attempt \in Attempts \ {"none"},
         c.delivered = q.delivered, c.connected = q.connected,
         c.attempt = "connecting" => q.attempt = "connecting",
         c.attempt \in {"connected", "answered", "broken"} =>
           q.attempt \in {"connected", "answered", "broken"},
         c.attempt \in {"connecting", "connected", "destroyed"} => ~c.headersSent
  PROVE  Going(c)
<1>1. c.kind = q.kind /\ c.cfg = q.cfg /\ Target(c) = Target(q)
  BY DEF Kept, Target
<1>2. \A d : (TurnedAway(c, d) <=> TurnedAway(q, d)) /\ (AsConfigured(c, d) <=> AsConfigured(q, d))
  BY <1>1, SameRequest
<1>3. Deliveries(q) /\ q.delivered \in Seq(Sendings)
  BY DEF Going, Shaped
<1>4. Free(q) => Free(c)
  BY <1>1, FreeStays
<1>5. Deliveries(c)
  BY <1>1, <1>2, <1>3, <1>4 DEF Deliveries
<1> QED BY <1>3, <1>5, KeptIsGoing

\* A failure of a request that was sent.
LEMMA SentFailsSettled ==
  ASSUME NEW q, Going(q), q.attempt # "none", NEW code, NEW result, code # "answer"
  PROVE  Settled(ProxyFailure(q, code, result))
<1>1. Finishable(q) /\ Named(q)
  BY AimedIsNamed DEF Going, Finishable, Deliveries, Progress
<1> QED BY <1>1, FailureIsSettled

LEMMA ConnectsIsSound ==
  ASSUME NEW q, Going(q), q.attempt = "connecting"
  PROVE  Going([q EXCEPT !.attempt = "connected", !.connected = TRUE,
                         !.delivered = Sent(q, 0)])
<1> DEFINE c == [q EXCEPT !.attempt = "connected", !.connected = TRUE, !.delivered = Sent(q, 0)]
           x == [to |-> Target(q), model |-> ModelSent(q), status |-> 0]
           e == Append(q.delivered, x)
<1>1. /\ Shaped(q) /\ Aimed(q) /\ Free(q) /\ q.delivered \in Seq(Sendings)
      /\ DOMAIN q = RequestFields
  BY DEF Going, Progress, Deliveries, Shaped
<1>2. Kept(q, c) /\ c.attempt = "connected" /\ c.connected = TRUE /\ c.delivered = e
      /\ c.headersSent = q.headersSent
  BY <1>1 DEF Kept, RequestFields, Sent
<1>3. x \in Sendings /\ AsConfigured(q, x) /\ x.to = Target(q)
  BY <1>1, SendingIsConfigured DEF Sendings
<1> HIDE DEF c, x, e
<1>4. /\ e \in Seq(Sendings) /\ e # <<>> /\ e[Len(e)] = x
      /\ \A i \in 1..Len(e) - 1 : i \in 1..Len(q.delivered) /\ e[i] = q.delivered[i]
      /\ \A i \in 1..Len(e) : i \in 1..Len(e) - 1 \/ i = Len(e)
  BY <1>1, <1>3, OneMore DEF e
<1>5. c.kind = q.kind /\ c.cfg = q.cfg /\ Target(c) = Target(q)
  BY <1>2 DEF Kept, Target
<1>6. \A d : (TurnedAway(c, d) <=> TurnedAway(q, d)) /\ (AsConfigured(c, d) <=> AsConfigured(q, d))
  BY <1>5, SameRequest
<1>7. \A i \in 1..Len(e) - 1 : TurnedAway(c, e[i]) /\ AsConfigured(c, e[i])
  BY <1>1, <1>4, <1>6 DEF Free
<1>8. \A i \in 1..Len(e) : AsConfigured(c, e[i])
  BY <1>3, <1>4, <1>6, <1>7
<1>9. Deliveries(c)
  BY <1>2, <1>3, <1>4, <1>5, <1>7, <1>8 DEF Deliveries
<1>10. ~q.headersSent
  BY DEF Going, Progress
<1> QED BY <1>2, <1>4, <1>9, <1>10, KeptIsGoing DEF Attempts, c

\* An answer's status is that of the last delivery.
LEMMA AnsweredDeliveries ==
  ASSUME NEW q, Going(q), q.attempt = "connected", NEW status \in Nat,
         NEW c, c.kind = q.kind, c.cfg = q.cfg, c.delivered = WithStatus(q, status).delivered
  PROVE  /\ c.delivered \in Seq(Sendings) /\ c.delivered # <<>>
         /\ Len(c.delivered) = Len(q.delivered)
         /\ \A i \in 1..Len(c.delivered) : AsConfigured(c, c.delivered[i])
         /\ \A i \in 1..Len(c.delivered) - 1 : TurnedAway(c, c.delivered[i])
         /\ c.delivered[Len(c.delivered)].to = Target(q)
         /\ c.delivered[Len(c.delivered)].status = status
         /\ \A i \in 1..Len(c.delivered) : i \in 1..Len(c.delivered) - 1 \/ i = Len(c.delivered)
<1> DEFINE d == q.delivered
           e == [d EXCEPT ![Len(d)].status = status]
<1>1. /\ Deliveries(q) /\ d \in Seq(Sendings) /\ d # <<>> /\ DOMAIN q = RequestFields
      /\ d[Len(d)].to = Target(q)
  BY DEF Going, Deliveries, Shaped
<1>2. c.delivered = e
  BY <1>1 DEF WithStatus, RequestFields
<1>3. /\ e \in Seq(Sendings) /\ e # <<>> /\ Len(e) = Len(d)
      /\ \A i \in 1..Len(d) - 1 : i \in 1..Len(d) /\ e[i] = d[i]
      /\ \A i \in 1..Len(d) : i \in 1..Len(d) - 1 \/ i = Len(d)
      /\ e[Len(d)].to = d[Len(d)].to /\ e[Len(d)].model = d[Len(d)].model
      /\ e[Len(d)].status = status
  BY <1>1, LastAnswered
<1>4. Len(d) \in 1..Len(d)
  BY <1>1, SMT
<1> HIDE DEF d, e
<1>5. \A x : (TurnedAway(c, x) <=> TurnedAway(q, x)) /\ (AsConfigured(c, x) <=> AsConfigured(q, x))
  BY SameRequest
<1>6. /\ \A i \in 1..Len(d) : AsConfigured(c, d[i])
      /\ \A i \in 1..Len(d) - 1 : TurnedAway(c, d[i])
  BY <1>1, <1>5 DEF Deliveries, d
<1>7. AsConfigured(c, d[Len(d)]) => AsConfigured(c, e[Len(d)])
  BY <1>3 DEF AsConfigured
<1>8. \A i \in 1..Len(d) : AsConfigured(c, e[i])
  BY <1>3, <1>4, <1>6, <1>7
<1>9. \A i \in 1..Len(d) - 1 : TurnedAway(c, e[i])
  BY <1>3, <1>6
<1> QED BY <1>1, <1>2, <1>3, <1>8, <1>9 DEF d

LEMMA RespondingIsSound ==
  ASSUME NEW q, Going(q), q.attempt = "connected", NEW status \in Nat
  PROVE  Going(Responding(q, status))
<1> DEFINE c == Responding(q, status)
<1>1. Shaped(q) /\ DOMAIN q = RequestFields /\ q.connected
  BY DEF Going, Deliveries, Shaped
<1>2. /\ Kept(q, c) /\ c.attempt = "answered" /\ c.connected = q.connected
      /\ c.delivered = WithStatus(q, status).delivered
  BY <1>1 DEF Kept, RequestFields, Responding, WithStatus
<1> HIDE DEF c
<1>3. c.kind = q.kind /\ c.cfg = q.cfg /\ Target(c) = Target(q)
  BY <1>2 DEF Kept, Target
<1>4. /\ c.delivered \in Seq(Sendings) /\ c.delivered # <<>>
      /\ \A i \in 1..Len(c.delivered) : AsConfigured(c, c.delivered[i])
      /\ \A i \in 1..Len(c.delivered) - 1 : TurnedAway(c, c.delivered[i])
      /\ c.delivered[Len(c.delivered)].to = Target(c)
  BY <1>2, <1>3, AnsweredDeliveries
<1>5. Deliveries(c)
  BY <1>1, <1>2, <1>4 DEF Deliveries
<1> QED BY <1>2, <1>4, <1>5, KeptIsGoing DEF Attempts, c

\* onUpstreamResponse: the account's 429, before the request goes to a provider.
LEMMA TurnedAwayIsSteady ==
  ASSUME NEW q, Going(q), q.attempt = "connected", q.route = "account",
         q.kind.operation # "images/edits"
  PROVE  LET c == WithStatus(q, 429)
         IN Steady(c) /\ Placed(c) /\ c.kind = q.kind
<1> DEFINE c == WithStatus(q, 429)
<1>1. /\ Shaped(q) /\ DOMAIN q = RequestFields /\ ~q.headersSent
      /\ q.how = "preflight" => q.streaming \/ q.ended
      /\ q.how = "transform" => q.ended
  BY DEF Going, Progress, Shaped
<1>2. Kept(q, c) /\ c.attempt = q.attempt /\ c.headersSent = q.headersSent /\ c.ended = q.ended
  BY <1>1 DEF Kept, RequestFields, WithStatus
<1>3. c.kind = q.kind /\ c.cfg = q.cfg /\ 429 \in Nat /\ Target(q) = "account"
  BY <1>2, SMT DEF Kept, Target
<1>4. /\ c.delivered \in Seq(Sendings) /\ c.delivered # <<>>
      /\ \A i \in 1..Len(c.delivered) : AsConfigured(c, c.delivered[i])
      /\ \A i \in 1..Len(c.delivered) - 1 : TurnedAway(c, c.delivered[i])
      /\ c.delivered[Len(c.delivered)].to = Target(q)
      /\ c.delivered[Len(c.delivered)].status = 429
      /\ \A i \in 1..Len(c.delivered) :
           i \in 1..Len(c.delivered) - 1 \/ i = Len(c.delivered)
  BY <1>3, AnsweredDeliveries
<1> HIDE DEF c
<1>5. TurnedAway(c, c.delivered[Len(c.delivered)])
  BY <1>3, <1>4 DEF TurnedAway
<1>6. Free(c)
  BY <1>4, <1>5 DEF Free
<1>7. Shaped(c)
  BY <1>1, <1>2, <1>4 DEF Shaped, Kept
<1>8. Placed(c)
  BY <1>1, <1>2 DEF Placed, Kept
<1> QED BY <1>1, <1>2, <1>3, <1>6, <1>7, <1>8 DEF Steady, c

LEMMA RetryIsSound ==
  ASSUME NEW q, Going(q), q.attempt \in {"connecting", "connected", "destroyed"},
         q.route = "custom", NEW retryable, MayRetry(q, retryable),
         NEW s \in PreparedAndCreated(OnCustom(q, q.index + 1))
  PROVE  Going(s) \/ Settled(s)
<1>1. /\ Shaped(q) /\ Aimed(q) /\ ~q.headersSent /\ Free(q)
      /\ q.how = "preflight" => q.streaming \/ q.ended
      /\ q.how = "transform" => q.ended
  BY DEF Going, Progress, Deliveries, MayRetry
<1>2. Steady(q) /\ Served(q)
  BY <1>1 DEF Steady, Served, Aimed, Serving
<1>3. q.index + 1 \in DOMAIN q.candidates
  <2>1. /\ q.candidates \in Seq(Providers) /\ q.index \in DOMAIN q.candidates
        /\ q.index < Len(q.candidates)
    BY <1>1 DEF Aimed, Serving, MayRetry
  <2> QED BY <2>1, SMT
<1> DEFINE c == OnCustom(q, q.index + 1)
<1>4. Ready(c) /\ Redirected(q, c)
  BY <1>2, <1>3, OnCustomIsReady
<1> HIDE DEF c
<1>5. Placed(c)
  BY <1>1, <1>4 DEF Placed, Redirected
<1> QED BY <1>4, <1>5, PreparedIsSound DEF c

LEMMA FinishesSettled ==
  ASSUME NEW q, Going(q), q.attempt = "answered"
  PROVE  Settled([Finalized(q, ResponseResult(q), "none") EXCEPT !.got = "answer"])
<1>1. Finishable(q) /\ Named(q)
  BY AimedIsNamed DEF Going, Finishable, Deliveries, Progress
<1>2. q.delivered # <<>> /\ q.delivered[Len(q.delivered)].to = Target(q)
  BY DEF Going, Deliveries
<1>3. ResponseResult(q) \notin {"clientAbort", "timeout", "networkError"}
  BY DEF ResponseResult, StatusResult
<1> QED BY <1>1, <1>2, <1>3, FinalizedIsSettled

LEMMA AbortSettled ==
  ASSUME NEW q, Going(q)
  PROVE  /\ Settled([Finalized(q, "success", "none") EXCEPT !.got = "gone"])
         /\ Settled([Finalized(q, "clientAbort", "error") EXCEPT !.got = "gone"])
<1>1. Finishable(q)
  BY DEF Going, Finishable, Deliveries
<1>2. q.delivered # <<>> => Named(q)
  BY AimedIsNamed DEF Going, Progress
<1> QED BY <1>1, <1>2, FinalizedIsSettled

LEMMA RefusedIsSettled ==
  ASSUME NEW k \in Kinds
  PROVE  Settled([Ended(NewRequest(k, settings)) EXCEPT !.got = "refused"])
<1> DEFINE e == [Ended(NewRequest(k, settings)) EXCEPT !.got = "refused"]
<1>1. /\ e.stage = "done" /\ e.delivered = <<>> /\ e.captured = <<>> /\ e.metered = <<>>
  BY DEF Ended, NewRequest
<1>2. /\ <<>> \in Seq(Sendings) /\ Len(<<>>) = 0 /\ 1..0 = {}
      /\ 1..Len(<<>>) = {} /\ 1..Len(<<>>) - 1 = {} /\ 0 <= 1 /\ 0 <= 0
  BY SMT
<1> HIDE DEF e
<1>3. Recorded(e)
  BY <1>1, <1>2, Zenon DEF Recorded
<1>4. Settled(e)
  BY <1>1, <1>2, <1>3 DEF Settled
<1> QED BY <1>4 DEF e

LEMMA StepIsSound ==
  ASSUME NEW r \in Requests, settings \in Configurations, Sound(requests[r]), RequestStep(r)
  PROVE  \E s : requests' = [requests EXCEPT ![r] = s] /\ Sound(s)
<1> DEFINE q == requests[r]
           Becomes(s) == requests' = [requests EXCEPT ![r] = s]
           NextSound == \E s : Becomes(s) /\ (Going(s) \/ Settled(s))
<1> SUFFICES NextSound
  BY DEF Sound
<1>1. ASSUME NEW k \in Kinds, Accept(r, k)
      PROVE  NextSound
  <2>1. Becomes(Headed(k))
    BY <1>1 DEF Accept
  <2>2. Going(Headed(k)) \/ Settled(Headed(k))
    BY HeadedIsSound
  <2> QED BY <2>1, <2>2
<1>2. ASSUME NEW k \in Kinds, Refuse(r, k)
      PROVE  NextSound
  <2>1. Becomes([Ended(NewRequest(k, settings)) EXCEPT !.got = "refused"])
    BY <1>2 DEF Refuse
  <2>2. Settled([Ended(NewRequest(k, settings)) EXCEPT !.got = "refused"])
    BY RefusedIsSettled
  <2> QED BY <2>1, <2>2
<1>3. ASSUME Live(r)
      PROVE  /\ Going(q) /\ DOMAIN q = RequestFields
             /\ q.how \in {"preflight", "transform", "stream"}
             /\ q.attempt \in Attempts
             /\ q.attempt # "none" => (q.how = "preflight" => q.streaming \/ q.ended)
                                      /\ (q.how = "transform" => q.ended)
             /\ q.attempt = "none" => Steady(q) /\ (q.how # "preflight" => Ready(q))
  <2>1. q # Idle /\ ~Settled(q)
    BY <1>3 DEF Live, Idle, Settled
  <2>2. Going(q)
    BY <2>1 DEF Sound
  <2> HIDE DEF q
  <2> QED BY <2>2, UnsentIsSteady DEF Going, Shaped, Progress
<1>4. CASE Live(r) /\ BodyOverflows(r)
  <2>1. PICK s \in Overflowed(q) : Becomes(s)
    BY <1>4 DEF BodyOverflows, Step
  <2>2. q.attempt = "none" /\ q.how = "preflight"
    BY <1>3, <1>4 DEF BodyOverflows, Reading
  <2> QED BY <1>3, <1>4, <2>1, <2>2, OverflowedIsSound
<1>5. CASE Live(r) /\ TransformOverflows(r)
  <2>1. Becomes(ProxyFailure(q, "413", "upstreamError"))
    BY <1>5 DEF TransformOverflows, Step
  <2>2. q.attempt = "none" /\ q.how = "transform"
    BY <1>3, <1>5 DEF TransformOverflows, Reading
  <2>3. Finishable(q) /\ Named(q)
    BY <1>3, <1>5, <2>2, SteadyMayFinish, AimedIsNamed DEF Ready
  <2> HIDE DEF q
  <2> QED BY <2>1, <2>3, FailureIsSettled
<1>6. CASE Live(r) /\ FirstChunk(r)
  <2>1. PICK s \in Created(q) : Becomes(s)
    BY <1>6 DEF FirstChunk, Step
  <2>2. Ready(q) /\ Placed(q)
    BY <1>3, <1>6 DEF FirstChunk, Placed
  <2> QED BY <2>1, <2>2, CreatedIsSound
<1>7. CASE Live(r) /\ BodyEnds(r)
  <2> DEFINE whole == [q EXCEPT !.ended = TRUE]
  <2>1. \/ q.how = "preflight" /\ ~q.streaming /\ Step(r, Inspected(q))
        \/ q.how = "transform" /\ Step(r, PreparedAndCreated(whole))
        \/ q.attempt # "none" /\ Step(r, {whole})
        \/ q.how = "stream" /\ q.attempt = "none" /\ Step(r, Created(whole))
    BY <1>7 DEF BodyEnds
  <2>2. Going(q) /\ DOMAIN q = RequestFields /\ ~q.ended
    BY <1>3, <1>7 DEF BodyEnds, Reading
  <2>3. CASE q.how = "preflight" /\ ~q.streaming /\ Step(r, Inspected(q))
    <3>1. PICK s \in Inspected(q) : Becomes(s)
      BY <2>3 DEF Step
    <3>2. q.attempt = "none"
      BY <1>3, <1>7, <2>2, <2>3
    <3> QED BY <2>2, <2>3, <3>1, <3>2, InspectedIsSound
  <2>4. CASE q.how = "transform" /\ Step(r, PreparedAndCreated(whole))
    <3>1. PICK s \in PreparedAndCreated(whole) : Becomes(s)
      BY <2>4 DEF Step
    <3>2. Ready(q)
      BY <1>3, <1>7, <2>2, <2>4
    <3>3. Ready(whole) /\ whole.how = q.how
      <4>1. Steady(q)
        BY <3>2 DEF Ready
      <4> HIDE DEF q
      <4> QED BY <3>2, <4>1, EndedIsSteady
    <3>4. Placed(whole)
      BY <2>2, <2>4, <3>3 DEF Placed, RequestFields
    <3> HIDE DEF whole
    <3> QED BY <3>1, <3>3, <3>4, PreparedIsSound
  <2>5. CASE q.attempt # "none" /\ Step(r, {whole})
    <3>1. Becomes(whole)
      BY <2>5 DEF Step
    <3>2. /\ Kept(q, whole) /\ whole.attempt = q.attempt /\ whole.delivered = q.delivered
          /\ whole.connected = q.connected /\ whole.headersSent = q.headersSent
      BY <2>2 DEF Kept, RequestFields
    <3>3. /\ q.attempt \in Attempts
          /\ q.attempt \in {"connecting", "connected", "destroyed"} => ~q.headersSent
      BY <2>2 DEF Going, Shaped, Progress
    <3> HIDE DEF whole, q
    <3> QED BY <2>2, <2>5, <3>1, <3>2, <3>3, SameIsGoing
  <2>6. CASE q.how = "stream" /\ q.attempt = "none" /\ Step(r, Created(whole))
    <3>1. PICK s \in Created(whole) : Becomes(s)
      BY <2>6 DEF Step
    <3>2. Ready(q)
      BY <1>3, <1>7, <2>6
    <3>3. Ready(whole) /\ whole.how = q.how
      <4>1. Steady(q)
        BY <3>2 DEF Ready
      <4> HIDE DEF q
      <4> QED BY <3>2, <4>1, EndedIsSteady
    <3>4. Placed(whole)
      BY <2>6, <3>3 DEF Placed
    <3> HIDE DEF whole
    <3> QED BY <3>1, <3>3, <3>4, CreatedIsSound
  <2> QED BY <2>1, <2>3, <2>4, <2>5, <2>6
<1>8. CASE Live(r) /\ Connects(r)
  <2>1. /\ q.attempt = "connecting"
        /\ Becomes([q EXCEPT !.attempt = "connected", !.connected = TRUE,
                             !.delivered = Sent(q, 0)])
    BY <1>8 DEF Connects, Step
  <2> HIDE DEF q
  <2> QED BY <1>3, <1>8, <2>1, ConnectsIsSound
<1>9. CASE Live(r) /\ Timeout(r)
  <2> DEFINE c == [q EXCEPT !.timedOut = TRUE,
                    !.attempt = IF q.attempt = "answered" THEN "broken" ELSE "destroyed"]
  <2>1. q.attempt \in {"connecting", "connected", "answered"} /\ Becomes(c)
    BY <1>9 DEF Timeout, Step
  <2>2. Going(q) /\ DOMAIN q = RequestFields
    BY <1>3, <1>9
  <2>3. /\ Kept(q, c) /\ c.delivered = q.delivered
        /\ c.attempt = IF q.attempt = "answered" THEN "broken" ELSE "destroyed"
        /\ c.connected = q.connected /\ c.headersSent = q.headersSent
    BY <2>2 DEF Kept, RequestFields
  <2>4. q.attempt # "answered" => ~q.headersSent
    BY <2>1, <2>2 DEF Going, Progress
  <2> HIDE DEF q, c
  <2>5. /\ c.attempt \in Attempts \ {"none"} /\ q.attempt # "none"
        /\ c.attempt = "connecting" => q.attempt = "connecting"
        /\ c.attempt \in {"connected", "answered", "broken"} =>
             q.attempt \in {"connected", "answered", "broken"}
        /\ c.attempt \in {"connecting", "connected", "destroyed"} => ~c.headersSent
    BY <2>1, <2>3, <2>4 DEF Attempts
  <2> QED BY <2>1, <2>2, <2>3, <2>5, SameIsGoing
<1>10. ASSUME Live(r), NEW retryable \in BOOLEAN, UpstreamErrors(r, retryable)
       PROVE  NextSound
  <2>1. PICK s \in IF q.route = "custom" /\ MayRetry(q, retryable)
                   THEN PreparedAndCreated(OnCustom(q, q.index + 1))
                   ELSE {ProxyFailure(q, FailureCode(q), FailureResult(q))} : Becomes(s)
    BY <1>10 DEF UpstreamErrors
  <2>2. q.attempt \in {"connecting", "connected", "destroyed"} /\ Going(q)
    BY <1>3, <1>10 DEF UpstreamErrors
  <2>3. CASE q.route = "custom" /\ MayRetry(q, retryable)
    <3>1. s \in PreparedAndCreated(OnCustom(q, q.index + 1))
      BY <2>1, <2>3
    <3> HIDE DEF q
    <3> QED BY <2>1, <2>2, <2>3, <3>1, RetryIsSound
  <2>4. CASE ~(q.route = "custom" /\ MayRetry(q, retryable))
    <3>1. s = ProxyFailure(q, FailureCode(q), FailureResult(q))
      BY <2>1, <2>4
    <3>2. FailureCode(q) # "answer"
      BY DEF FailureCode
    <3> HIDE DEF q
    <3> QED BY <2>1, <2>2, <3>1, <3>2, SentFailsSettled
  <2> QED BY <2>3, <2>4
<1>11. ASSUME Live(r), NEW status \in Statuses, NEW w \in QuotaHeaders,
              AccountResponds(r, status, w)
       PROVE  NextSound
  <2> DEFINE c == WithStatus(q, 429)
             chosen == SelectCustom(c, q.kind.model)
             back == status = 429 /\ q.kind.operation # "images/edits" /\ q.replay
  <2>1. PICK s \in IF back THEN PreparedAndCreated(chosen) ELSE {Responding(q, status)} :
          Becomes(s)
    BY <1>11 DEF AccountResponds
  <2>2. q.attempt = "connected" /\ q.route = "account" /\ Going(q) /\ status \in Nat
    BY <1>3, <1>11, StatusesAssumption, SMT DEF AccountResponds
  <2>3. CASE ~back
    <3>1. s = Responding(q, status)
      BY <2>1, <2>3
    <3> HIDE DEF q
    <3> QED BY <2>1, <2>2, <3>1, RespondingIsSound
  <2>4. CASE back
    <3>1. s \in PreparedAndCreated(chosen)
      BY <2>1, <2>4
    <3>2. Steady(c) /\ Placed(c) /\ c.kind = q.kind
      BY <2>2, <2>4, TurnedAwayIsSteady
    <3>3. q.kind.model \in ModelOrNone
      BY <3>2, KindIsTyped DEF Steady, Shaped
    <3> HIDE DEF c
    <3>4. Settled(chosen) \/ (Ready(chosen) /\ Redirected(c, chosen))
      BY <3>2, <3>3, SelectedIsReady
    <3> HIDE DEF chosen
    <3>5. CASE Settled(chosen)
      BY <2>1, <3>1, <3>5 DEF PreparedAndCreated, Terminal, Settled
    <3>6. CASE Ready(chosen) /\ Redirected(c, chosen)
      <4>1. Placed(chosen)
        BY <3>2, <3>6 DEF Placed, Redirected
      <4> QED BY <2>1, <3>1, <3>6, <4>1, PreparedIsSound
    <3> QED BY <3>4, <3>5, <3>6
  <2> QED BY <2>3, <2>4
<1>12. ASSUME Live(r), NEW status \in Statuses, NEW a \in RetryAfters,
              ProviderResponds(r, status, a)
       PROVE  NextSound
  <2>1. q.attempt = "connected" /\ Becomes(Responding(q, status)) /\ status \in Nat
    BY <1>12, StatusesAssumption, SMT DEF ProviderResponds
  <2> HIDE DEF q
  <2> QED BY <1>3, <1>12, <2>1, RespondingIsSound
<1>13. ASSUME Live(r), NEW seen, ResponseData(r, seen) PROVE NextSound
  <2> DEFINE c == [q EXCEPT !.headersSent = TRUE, !.response.seen = seen]
  <2>1. q.attempt = "answered" /\ Becomes(c)
    BY <1>13 DEF ResponseData, Answering, Step
  <2>2. Going(q) /\ DOMAIN q = RequestFields
    BY <1>3, <1>13
  <2>3. /\ Kept(q, c) /\ c.delivered = q.delivered /\ c.attempt = q.attempt
        /\ c.connected = q.connected
    BY <2>2 DEF Kept, RequestFields
  <2> HIDE DEF q, c
  <2> QED BY <2>1, <2>2, <2>3, SameIsGoing DEF Attempts
<1>14. CASE Live(r) /\ ResponseEnds(r)
  <2> DEFINE c == [q EXCEPT !.headersSent = TRUE, !.response.ended = TRUE]
  <2>1. q.attempt = "answered" /\ Becomes(c)
    BY <1>14 DEF ResponseEnds, Answering, Step
  <2>2. Going(q) /\ DOMAIN q = RequestFields
    BY <1>3, <1>14
  <2>3. /\ Kept(q, c) /\ c.delivered = q.delivered /\ c.attempt = q.attempt
        /\ c.connected = q.connected
    BY <2>2 DEF Kept, RequestFields
  <2> HIDE DEF q, c
  <2> QED BY <2>1, <2>2, <2>3, SameIsGoing DEF Attempts
<1>15. CASE Live(r) /\ DownstreamFinishes(r)
  <2>1. /\ q.attempt = "answered"
        /\ Becomes([Finalized(q, ResponseResult(q), "none") EXCEPT !.got = "answer"])
    BY <1>15 DEF DownstreamFinishes, Step
  <2> HIDE DEF q
  <2> QED BY <1>3, <1>15, <2>1, FinishesSettled
<1>16. CASE Live(r) /\ ResponseBreaks(r)
  <2>1. /\ q.attempt # "none" /\ FailureCode(q) # "answer"
        /\ Becomes(ProxyFailure(q, FailureCode(q), FailureResult(q)))
    BY <1>16 DEF ResponseBreaks, Answering, Step, FailureCode
  <2> HIDE DEF q
  <2> QED BY <1>3, <1>16, <2>1, SentFailsSettled
<1>17. CASE Live(r) /\ BrokenErrors(r)
  <2>1. q.attempt # "none" /\ Becomes(ProxyFailure(q, "504", "timeout"))
    BY <1>17 DEF BrokenErrors
  <2> HIDE DEF q
  <2> QED BY <1>3, <1>17, <2>1, SentFailsSettled
<1>18. CASE Live(r) /\ ClientAborts(r)
  <2>1. \/ Becomes([Finalized(q, "success", "none") EXCEPT !.got = "gone"])
        \/ Becomes([Finalized(q, "clientAbort", "error") EXCEPT !.got = "gone"])
    BY <1>18 DEF ClientAborts, Step
  <2> HIDE DEF q
  <2> QED BY <1>3, <1>18, <2>1, AbortSettled
<1> HIDE DEF NextSound, q
<1> QED BY <1>1, <1>2, <1>4, <1>5, <1>6, <1>7, <1>8, <1>9, <1>10, <1>11, <1>12, <1>13, <1>14,
           <1>15, <1>16, <1>17, <1>18 DEF RequestStep

------------------------
(* The requests together. *)

RequestsSound ==
  /\ requests = [r \in Requests |-> requests[r]]
  /\ \A r \in Requests : Sound(requests[r])

LEMMA RequestsInit == Init => RequestsSound
BY DEF Init, RequestsSound, Sound

LEMMA RequestsStep == PoolInv /\ RequestsSound /\ [Next]_vars => RequestsSound'
<1> SUFFICES ASSUME PoolInv, RequestsSound, [Next]_vars PROVE RequestsSound'
  OBVIOUS
<1>1. CASE UNCHANGED requests
  BY <1>1 DEF RequestsSound, Sound, Going, Settled, Shaped, Deliveries, Progress
<1>2. ASSUME NEW r \in Requests, RequestStep(r) PROVE RequestsSound'
  <2>1. PICK s : requests' = [requests EXCEPT ![r] = s] /\ Sound(s)
    BY <1>2, StepIsSound DEF PoolInv, RequestsSound
  <2>2. requests' = [x \in Requests |-> requests'[x]]
    BY <2>1 DEF RequestsSound
  <2>3. \A x \in Requests : requests'[x] = IF x = r THEN s ELSE requests[x]
    BY <2>1 DEF RequestsSound
  <2>4. \A x \in Requests : Sound(requests'[x])
    BY <2>1, <2>3, Zenon DEF RequestsSound
  <2> QED BY <2>2, <2>4 DEF RequestsSound
<1>3. ASSUME ~(\E r \in Requests : RequestStep(r)) PROVE UNCHANGED requests
  BY <1>3 DEF Next, vars, Configure, ApplyAccountState, OtherResponds, OtherErrors, Other, Tick
<1> QED BY <1>1, <1>2, <1>3

LEMMA RequestsAlwaysSound == Spec => []RequestsSound
BY PoolInit, PoolStep, RequestsInit, RequestsStep, PTL DEF Spec

LEMMA DeliveriesOnce == RequestsSound => DeliveredOnce
<1> SUFFICES ASSUME RequestsSound, NEW r \in Requests,
                    Live(r) \/ requests[r].stage = "done",
                    NEW i \in 1..Len(requests[r].delivered) - 1
             PROVE  TurnedAway(requests[r], requests[r].delivered[i])
  BY DEF DeliveredOnce, TurnedAway
<1>1. Going(requests[r]) \/ Settled(requests[r])
  BY DEF RequestsSound, Sound, Live, Idle
<1> QED BY <1>1 DEF Going, Deliveries, Settled

LEMMA RecordsTrue == RequestsSound => OneTrueRecord
<1> SUFFICES ASSUME RequestsSound, NEW r \in Requests
             PROVE  LET q == requests[r]
                    IN /\ Live(r) => q.captured = <<>> /\ q.metered = <<>>
                       /\ q.stage = "done" => Recorded(q)
  BY DEF OneTrueRecord, Recorded
<1>1. CASE requests[r] = Idle
  BY <1>1 DEF Live, Idle
<1>2. CASE Going(requests[r])
  BY <1>2 DEF Going, Shaped
<1>3. CASE Settled(requests[r])
  BY <1>3 DEF Settled, Live
<1> QED BY <1>1, <1>2, <1>3 DEF RequestsSound, Sound

LEMMA SendingsConfigured == RequestsSound => SentAsConfigured
<1> SUFFICES ASSUME RequestsSound, NEW r \in Requests,
                    Live(r) \/ requests[r].stage = "done",
                    NEW i \in DOMAIN requests[r].delivered
             PROVE  AsConfigured(requests[r], requests[r].delivered[i])
  BY DEF SentAsConfigured, AsConfigured
<1>1. Going(requests[r]) \/ Settled(requests[r])
  BY DEF RequestsSound, Sound, Live, Idle
<1>2. requests[r].delivered \in Seq(Sendings)
  BY <1>1 DEF Going, Shaped, Settled
<1>3. i \in 1..Len(requests[r].delivered)
  BY <1>2, SMT
<1> QED BY <1>1, <1>3 DEF Going, Deliveries, Settled

\* server.mjs:2633: however failures, answers, timers and retries interleave, nobody has
\* the body of a request that another has, but for the account that turned it away.
THEOREM BodiesDeliveredOnce == Spec => []DeliveredOnce
BY RequestsAlwaysSound, DeliveriesOnce, PTL

\* server.mjs:2391: every ending leaves one record of each kind, and they name the
\* upstream the request was sent to last.
THEOREM RecordsAreTrue == Spec => []OneTrueRecord
BY RequestsAlwaysSound, RecordsTrue, PTL

\* server.mjs:1957, 2110: whatever the providers' models, policies and rules, whoever a
\* request is sent to serves its model, under the name its snapshot gives it.
THEOREM AlwaysSentAsConfigured == Spec => []SentAsConfigured
BY RequestsAlwaysSound, SendingsConfigured, PTL

------------------------
(* The account's block. *)

LEMMA LatestIsMember ==
  ASSUME NEW S \in SUBSET Int, IsFiniteSet(S), S # {}
  PROVE  Latest(S) \in S
<1> DEFINE R == {x \in S \X S : x[1] > x[2]}
<1>1. \A a, b : <<a, b>> \in R <=> a \in S /\ b \in S /\ a > b
  BY SMT
<1> HIDE DEF R
<1>2. StrictOrder(R, S)
  BY <1>1, SMT DEF StrictOrder
<1>3. PICK s : Sorted(s, R, S)
  BY <1>2, SortingExists
<1>4. {s[i] : i \in 1..Cardinality(S)} = S
  BY <1>2, <1>3, SortingIsWhole
<1>5. Cardinality(S) \in Nat /\ Cardinality(S) # 0
  BY FS_CardinalityType, FS_EmptySet
<1>6. 1 \in 1..Cardinality(S) /\ s[1] \in S
  BY <1>4, <1>5, SMT
<1>7. ASSUME NEW b \in S PROVE b <= s[1]
  <2>1. PICK j \in 1..Cardinality(S) : b = s[j]
    BY <1>4
  <2>2. j = 1 \/ 1 < j
    BY <1>5, <2>1, SMT
  <2>3. 1 < j => <<s[1], s[j]>> \in R
    BY <1>3, <1>6, <2>1 DEF Sorted
  <2>4. b \in Int /\ s[1] \in Int
    BY <1>6
  <2>5. b = s[1] \/ s[1] > b
    BY <1>1, <2>1, <2>2, <2>3
  <2> QED BY <2>4, <2>5, SMT
<1> QED BY <1>6, <1>7 DEF Latest

LEMMA ResetsAreFinite ==
  ASSUME NEW windows \in SUBSET Windows, IsFiniteSet(windows)
  PROVE  Resets(windows) \in SUBSET Nat /\ IsFiniteSet(Resets(windows))
<1> DEFINE T == {w.reset : w \in windows}
           f == [w \in windows |-> w.reset]
<1>1. f \in Surjection(windows, T)
  BY DEF Surjection
<1>2. IsFiniteSet(T)
  BY <1>1, FS_Surjection
<1>3. Resets(windows) \in SUBSET T
  BY DEF Resets
<1>4. Resets(windows) \subseteq Nat
  <2>1. \A w \in windows : w.reset \in {NoReset} \union Nat
    BY SMT DEF Windows
  <2> QED BY <2>1 DEF Resets
<1> HIDE DEF T
<1> QED BY <1>2, <1>3, <1>4, FS_Subset

LEMMA BlockIsNat ==
  ASSUME NEW until \in Nat, NEW status, NEW windows \in QuotaHeaders, NEW time \in Nat
  PROVE  BlockAfter(until, status, windows, time) \in Nat
<1> DEFINE full == {w \in windows : w.used = "full"}
<1>1. windows \in SUBSET Windows /\ IsFiniteSet(windows)
  BY QuotasAssumption
<1>2. full \in SUBSET Windows /\ full \in SUBSET windows
  BY <1>1
<1>3. IsFiniteSet(full)
  BY <1>1, <1>2, FS_Subset
<1>4. QuotaBlockedUntil(windows, time) =
        IF Resets(full) = {} THEN 0 ELSE time + Latest(Resets(full))
  BY DEF QuotaBlockedUntil
<1> HIDE DEF full
<1>5. ASSUME NEW w \in {windows, full}, Resets(w) # {}
      PROVE  time + Latest(Resets(w)) \in Nat
  <2>1. Resets(w) \in SUBSET Nat /\ IsFiniteSet(Resets(w))
    BY <1>1, <1>2, <1>3, ResetsAreFinite
  <2>2. Resets(w) \in SUBSET Int
    BY <2>1, SMT
  <2>3. Latest(Resets(w)) \in Nat
    BY <1>5, <2>1, <2>2, LatestIsMember
  <2> QED BY <2>3, SMT
<1>6. QuotaBlockedUntil(windows, time) \in Nat
  BY <1>4, <1>5
<1>7. time + AccountCooldown \in Nat
  BY AccountAssumption, SMT
<1> QED BY <1>5, <1>6, <1>7 DEF BlockAfter, Account429Until

BlockInv == blockedUntil \in Nat

LEMMA BlockInit == Init => BlockInv
BY SMT DEF Init, BlockInv

LEMMA BlockStep == PoolInv /\ BlockInv /\ [Next]_vars => BlockInv'
<1> SUFFICES ASSUME PoolInv, BlockInv, [Next]_vars PROVE BlockInv'
  OBVIOUS
<1>1. now \in Nat
  BY DEF PoolInv, PoolShape
<1>2. ASSUME NEW r \in Requests, NEW status \in Statuses, NEW w \in QuotaHeaders,
             AccountResponds(r, status, w)
      PROVE  BlockInv'
  BY <1>1, <1>2, BlockIsNat DEF AccountResponds, BlockInv
<1>3. CASE OtherResponds
  BY <1>1, <1>3, BlockIsNat DEF OtherResponds, BlockInv
<1>4. CASE UNCHANGED blockedUntil
  BY <1>4 DEF BlockInv
<1> QED BY <1>2, <1>3, <1>4
    DEF Next, vars, RequestStep, Accept, Refuse, Step, BodyOverflows, TransformOverflows,
        FirstChunk, BodyEnds, Connects, Timeout, UpstreamErrors, ProviderResponds,
        ResponseData, ResponseEnds, DownstreamFinishes, ResponseBreaks, BrokenErrors,
        ClientAborts, OtherErrors, Configure, ApplyAccountState, Tick

\* Sent to the account by this step.
ToAccount(q, s) ==
  /\ s.stage = "reading" /\ s.attempt = "connecting" /\ s.route = "account"
  /\ q.stage = "reading" => q.attempt = "none"

LEMMA FailureIsDone ==
  ASSUME NEW q, NEW code, NEW result
  PROVE  ProxyFailure(q, code, result).stage = "done"
BY DEF ProxyFailure, Finalized, Ended, Terminal

LEMMA CreatedRoute ==
  ASSUME NEW q, DOMAIN q = RequestFields, q.route = "custom" \/ q.stage = "done"
  PROVE  /\ \A s \in Created(q) : s.route = "custom" \/ s.stage = "done"
         /\ \A s \in PreparedAndCreated(q) : s.route = "custom" \/ s.stage = "done"
<1>1. \A s \in Created(q) : s.route = "custom" \/ s.stage = "done"
  BY FailureIsDone DEF Created, RequestFields, Terminal
<1> QED BY <1>1, FailureIsDone DEF PreparedAndCreated, Terminal

LEMMA SelectedRoute ==
  ASSUME NEW q, DOMAIN q = RequestFields, NEW m
  PROVE  LET s == SelectCustom(q, m)
         IN s.stage = "done" \/ (DOMAIN s = RequestFields /\ s.route = "custom")
<1> DEFINE plan == Plan(q.cfg, m)
           c == [q EXCEPT !.candidates = plan]
           s == OnCustom(c, 1)
<1>1. DOMAIN c = RequestFields
  OBVIOUS
<1> HIDE DEF c
<1>2. DOMAIN s = RequestFields /\ s.route = "custom"
  BY <1>1 DEF OnCustom, RequestFields
<1>3. SelectCustom(q, m) = IF plan = <<>> THEN ProxyFailure(NoCustom(q), "503", "upstreamError")
                           ELSE s
  BY DEF SelectCustom, c
<1> HIDE DEF s
<1> QED BY <1>2, <1>3, FailureIsDone

LEMMA OverflowedRoute ==
  ASSUME NEW q, DOMAIN q = RequestFields, NEW s \in Overflowed(q)
  PROVE  s.stage = "done" \/ s.route = "custom"
<1> DEFINE seen == SeenEarly(q)
           unrouted == IF q.initialAccount \/ EditsPreflight(q) THEN NoCustom(q) ELSE q
           chosen == SelectCustom(unrouted, seen)
           t == Streaming(chosen)
<1>1. DOMAIN unrouted = RequestFields
  BY DEF NoCustom
<1> HIDE DEF unrouted, seen
<1>2. chosen.stage = "done" \/ (DOMAIN chosen = RequestFields /\ chosen.route = "custom")
  BY <1>1, SelectedRoute
<1>3. \/ s = ProxyFailure(unrouted, "413", "upstreamError")
      \/ Terminal(t) /\ s = t
      \/ s = ProxyFailure(t, "413", "upstreamError")
      \/ ~Terminal(t) /\ s \in Created(t)
  BY DEF Overflowed, unrouted, seen
<1> HIDE DEF chosen
<1>4. t.stage = "done" \/ (DOMAIN t = RequestFields /\ t.route = "custom")
  BY <1>2 DEF Streaming, Terminal, RequestFields
<1> HIDE DEF t
<1> QED BY <1>3, <1>4, FailureIsDone, CreatedRoute DEF Terminal

LEMMA InspectedRoute ==
  ASSUME NEW q, DOMAIN q = RequestFields, NEW s \in Inspected(q)
  PROVE  \/ s.stage = "done" \/ s.route = "custom"
         \/ Decide(q, q.kind.model, TRUE).route # "custom"
<1> DEFINE whole == [q EXCEPT !.ended = TRUE, !.replay = TRUE]
           chosen == SelectCustom(whole, q.kind.model)
<1>1. DOMAIN whole = RequestFields
  OBVIOUS
<1>2. \/ s = ProxyFailure(NoCustom(whole), "400", "upstreamError")
      \/ s \in PreparedAndCreated(chosen)
      \/ Decide(q, q.kind.model, TRUE).route # "custom"
  BY DEF Inspected
<1> HIDE DEF whole
<1>3. chosen.stage = "done" \/ (DOMAIN chosen = RequestFields /\ chosen.route = "custom")
  BY <1>1, SelectedRoute
<1> HIDE DEF chosen
<1>4. CASE s \in PreparedAndCreated(chosen)
  <2>1. CASE chosen.stage = "done"
    BY <1>4, <2>1 DEF PreparedAndCreated, Terminal
  <2>2. CASE DOMAIN chosen = RequestFields /\ chosen.route = "custom"
    BY <1>4, <2>2, CreatedRoute
  <2> QED BY <1>3, <2>1, <2>2
<1> QED BY <1>2, <1>4, FailureIsDone

LEMMA HeadedRoute ==
  ASSUME NEW k
  PROVE  Headed(k).stage = "done" \/ Headed(k).attempt = "none"
<1> DEFINE q == NewRequest(k, settings)
           plan == Plan(settings, NoModel)
           decision == Decide(q, NoModel, FALSE)
           onAccount == decision.route = "account"
           first == IF plan = <<>> THEN NoProvider ELSE plan[1]
           r == [q EXCEPT !.route = decision.route, !.initialAccount = onAccount,
                          !.provider = first, !.candidates = plan,
                          !.index = IF plan = <<>> THEN 0 ELSE 1]
           how == IF \/ onAccount \/ EditsPreflight(r) \/ ModelAware(settings)
                     \/ k.operation = "responses" /\ Len(plan) > 1 THEN "preflight"
                  ELSE IF Transforms(r) THEN "transform" ELSE "stream"
<1>1. Headed(k) \in {ProxyFailure(NoCustom(r), "415", "upstreamError"),
                     [Ended(r) EXCEPT !.got = "503"], [r EXCEPT !.how = how]}
  BY DEF Headed
<1>2. q.attempt = "none"
  BY DEF NewRequest
<1> HIDE DEF q, how, plan, decision, onAccount, first
<1>3. [r EXCEPT !.how = how].attempt = "none"
  BY <1>2
<1>4. [Ended(r) EXCEPT !.got = "503"].stage = "done"
  BY DEF Ended
<1>5. ProxyFailure(NoCustom(r), "415", "upstreamError").stage = "done"
  BY FailureIsDone
<1> HIDE DEF r
<1> QED BY <1>1, <1>3, <1>4, <1>5, Zenon

\* account_cooldown is one of the reasons to leave the account.
LEMMA AccountFree ==
  ASSUME PoolInv, BlockInv, NEW q, NEW m, Decide(q, m, TRUE).route # "custom"
  PROVE  blockedUntil <= now
<1> DEFINE objections == Objections(q.cfg.mode, q.kind, q.account, m, NoModel, TRUE,
                                    blockedUntil, now)
           held == {i \in DOMAIN objections : objections[i][2]}
<1>1. held = {}
  BY DEF Decide, DecideUpstreamRoute
<1>2. 8 \in DOMAIN objections /\ objections[8][2] = (blockedUntil > now)
  BY SMT DEF Objections
<1>3. ~(blockedUntil > now)
  BY <1>1, <1>2
<1> QED BY <1>3, SMT DEF PoolInv, PoolShape, BlockInv

LEMMA AccountStep ==
  PoolInv /\ BlockInv /\ RequestsSound /\ [Next]_vars =>
    \A r \in Requests : ToAccount(requests[r], requests'[r]) => blockedUntil <= now
<1> SUFFICES ASSUME PoolInv, BlockInv, RequestsSound, [Next]_vars,
                    NEW r \in Requests, ToAccount(requests[r], requests'[r])
             PROVE  blockedUntil <= now
  OBVIOUS
<1> DEFINE q == requests[r]
           s == requests'[r]
<1>1. /\ s.stage = "reading" /\ s.attempt = "connecting" /\ s.route = "account"
      /\ q.stage = "reading" => q.attempt = "none"
  BY DEF ToAccount
<1>2. /\ q = Idle \/ Going(q) \/ Settled(q)
      /\ DOMAIN requests = Requests
  BY DEF RequestsSound, Sound
<1>3. /\ Going(q) => /\ q.stage = "reading" /\ q.attempt = "none" /\ DOMAIN q = RequestFields
                     /\ q.how \in {"preflight", "transform", "stream"}
                     /\ q.how # "preflight" => q.route = "custom"
      /\ q = Idle \/ Settled(q) => q.stage # "reading"
  BY <1>1 DEF Going, Shaped, Progress, Idle, Settled
<1>4. s # q
  BY <1>1, <1>2, <1>3
<1>5. PICK x \in Requests : RequestStep(x)
  BY <1>4 DEF Next, vars, Configure, ApplyAccountState, OtherResponds, OtherErrors, Other, Tick
<1>6. PICK t : requests' = [requests EXCEPT ![x] = t]
  BY <1>5, StepIsSound DEF PoolInv, RequestsSound
<1>7. x = r
  BY <1>2, <1>4, <1>6
<1>8. RequestStep(r)
  BY <1>5, <1>7
<1>9. ASSUME NEW outcomes, Step(r, outcomes) PROVE s \in outcomes
  BY <1>2, <1>9 DEF Step
<1>10. ASSUME NEW k \in Kinds, Accept(r, k) PROVE FALSE
  <2>1. s = Headed(k) /\ settings \in Configurations
    BY <1>2, <1>10 DEF Accept, PoolInv
  <2>2. Headed(k).stage = "done" \/ Headed(k).attempt = "none"
    BY HeadedRoute
  <2> HIDE DEF s
  <2> QED BY <1>1, <2>1, <2>2
<1>11. ASSUME NEW k \in Kinds, Refuse(r, k) PROVE FALSE
  <2>1. s = [Ended(NewRequest(k, settings)) EXCEPT !.got = "refused"]
    BY <1>2, <1>11 DEF Refuse
  <2> HIDE DEF s
  <2> QED BY <1>1, <2>1 DEF Ended
<1>12. CASE Live(r)
  <2>1. /\ q.stage = "reading" /\ q.attempt = "none" /\ DOMAIN q = RequestFields
        /\ q.how \in {"preflight", "transform", "stream"}
        /\ q.how # "preflight" => q.route = "custom"
    BY <1>2, <1>3, <1>12 DEF Live
  <2>2. ASSUME BodyOverflows(r) PROVE FALSE
    <3>1. s \in Overflowed(q)
      BY <1>9, <2>2 DEF BodyOverflows
    <3> HIDE DEF q, s
    <3> QED BY <1>1, <2>1, <3>1, OverflowedRoute
  <2>3. ASSUME TransformOverflows(r) PROVE FALSE
    <3>1. s = ProxyFailure(q, "413", "upstreamError")
      BY <1>9, <2>3 DEF TransformOverflows
    <3> HIDE DEF q, s
    <3> QED BY <1>1, <3>1, FailureIsDone
  <2>4. ASSUME FirstChunk(r) PROVE FALSE
    <3>1. s \in Created(q) /\ q.how = "stream"
      BY <1>9, <2>4 DEF FirstChunk
    <3> HIDE DEF q, s
    <3> QED BY <1>1, <2>1, <3>1, CreatedRoute
  <2>5. CASE BodyEnds(r)
    <3> DEFINE whole == [q EXCEPT !.ended = TRUE]
    <3>1. \/ s \in Inspected(q)
          \/ q.how = "transform" /\ s \in PreparedAndCreated(whole)
          \/ q.how = "stream" /\ s \in Created(whole)
      BY <1>9, <2>1, <2>5 DEF BodyEnds
    <3>2. DOMAIN whole = RequestFields /\ whole.route = q.route
      BY <2>1 DEF RequestFields
    <3> HIDE DEF q, s, whole
    <3>3. s \in Inspected(q)
      BY <1>1, <2>1, <3>1, <3>2, CreatedRoute
    <3>4. Decide(q, q.kind.model, TRUE).route # "custom"
      BY <1>1, <2>1, <3>3, InspectedRoute
    <3> QED BY <3>4, AccountFree
  <2>6. ASSUME ClientAborts(r) PROVE FALSE
    <3>1. s.stage = "done"
      BY <1>9, <2>6 DEF ClientAborts, Finalized, Ended
    <3> HIDE DEF s
    <3> QED BY <1>1, <3>1
  <2>7. CASE ~(BodyOverflows(r) \/ TransformOverflows(r) \/ FirstChunk(r) \/ BodyEnds(r)
               \/ ClientAborts(r))
    <3>1. /\ ~Connects(r) /\ ~Timeout(r) /\ ~ResponseEnds(r) /\ ~DownstreamFinishes(r)
          /\ ~ResponseBreaks(r) /\ ~BrokenErrors(r)
          /\ \A seen : ~ResponseData(r, seen)
          /\ \A retryable : ~UpstreamErrors(r, retryable)
          /\ \A status, w : ~AccountResponds(r, status, w)
          /\ \A status, a : ~ProviderResponds(r, status, a)
      BY <2>1 DEF Connects, Timeout, ResponseEnds, DownstreamFinishes, ResponseBreaks,
         BrokenErrors, ResponseData, UpstreamErrors, AccountResponds, ProviderResponds, Answering
    <3> QED BY <1>8, <1>10, <1>11, <2>7, <3>1 DEF RequestStep
  <2> QED BY <2>2, <2>3, <2>4, <2>5, <2>6, <2>7
<1> QED BY <1>8, <1>10, <1>11, <1>12 DEF RequestStep

\* server.mjs:2456: whatever learns of a 429 or a spent quota between the head of a request
\* and the end of its body, the request is not sent to the account before that is over.
THEOREM AccountIsLeftAlone == Spec => AccountLeftAlone
<1>1. PoolInv /\ BlockInv /\ RequestsSound /\ [Next]_vars =>
        [\A r \in Requests :
          /\ requests'[r].stage = "reading" /\ requests'[r].attempt = "connecting"
          /\ requests[r].stage = "reading" => requests[r].attempt = "none"
          /\ requests'[r].route = "account"
          => blockedUntil <= now]_vars
  BY AccountStep DEF ToAccount
<1> QED BY <1>1, PoolInit, PoolStep, BlockInit, BlockStep, RequestsInit, RequestsStep, PTL
    DEF Spec, AccountLeftAlone


------------------------
(* The preview. *)

\* Where the model decides nothing, the plan is the same for each.
LEMMA SamePlan ==
  ASSUME NEW cfg \in Configurations, ~ModelAware(cfg), NEW m \in Models
  PROVE  Plan(cfg, m) = Plan(cfg, NoModel)
<1>1. m # NoModel /\ m \in ModelOrNone /\ NoModel \in ModelOrNone
  BY NullsAssumption DEF ModelOrNone
<1>2. cfg.rules[m] = NoRule
  BY DEF ModelAware
<1>3. \A p : Rank(cfg, m, p) = Rank(cfg, NoModel, p)
  BY <1>2 DEF Rank
<1>4. \A p, q : Before(cfg, m, p, q) <=> Before(cfg, NoModel, p, q)
  BY <1>3 DEF Before
<1>5. Eligible(cfg, m) = Eligible(cfg, NoModel)
  <2>1. \A p \in Configured(cfg) : Supports(cfg.policy[p], m) /\ Supports(cfg.policy[p], NoModel)
    BY <1>1, UnawareServesAll
  <2> QED BY <2>1 DEF Eligible
<1>6. Candidates(cfg, m) = Candidates(cfg, NoModel)
  BY <1>5 DEF Candidates
<1> DEFINE C == Candidates(cfg, NoModel)
           sorted(model) == CHOOSE s \in [1..Cardinality(C) -> C] :
             \A i, j \in 1..Cardinality(C) : i < j => Before(cfg, model, s[i], s[j])
<1> HIDE DEF C
<1>7. Plan(cfg, m) = sorted(m) /\ Plan(cfg, NoModel) = sorted(NoModel)
  BY <1>6 DEF Plan, C
<1>8. sorted(m) = sorted(NoModel)
  BY <1>4, Zenon
<1> QED BY <1>7, <1>8, Zenon

\* A set of places has a first one.
LEMMA FirstExists ==
  ASSUME NEW n \in Nat, NEW S \in SUBSET (1..n), S # {}
  PROVE  \E i \in S : \A j \in S : i <= j
<1> DEFINE R == {x \in S \X S : x[1] < x[2]}
<1>1. \A a, b : <<a, b>> \in R <=> a \in S /\ b \in S /\ a < b
  BY SMT
<1> HIDE DEF R
<1>2. IsFiniteSet(S)
  <2>1. 1 \in Int /\ n \in Int
    BY SMT
  <2>2. IsFiniteSet(1..n)
    BY <2>1, FS_Interval
  <2> QED BY <2>2, FS_Subset
<1>3. \A i \in S : i \in Int
  BY SMT
<1>4. StrictOrder(R, S)
  BY <1>1, <1>3, SMT DEF StrictOrder
<1>5. PICK s : Sorted(s, R, S)
  BY <1>2, <1>4, SortingExists
<1>6. {s[i] : i \in 1..Cardinality(S)} = S
  BY <1>2, <1>4, <1>5, SortingIsWhole
<1>7. Cardinality(S) \in Nat /\ Cardinality(S) # 0
  BY <1>2, FS_CardinalityType, FS_EmptySet
<1>8. 1 \in 1..Cardinality(S) /\ s[1] \in S
  BY <1>6, <1>7, SMT
<1>9. ASSUME NEW b \in S PROVE s[1] <= b
  <2>1. PICK j \in 1..Cardinality(S) : b = s[j]
    BY <1>6
  <2>2. j = 1 \/ 1 < j
    BY <1>7, <2>1, SMT
  <2>3. 1 < j => <<s[1], s[j]>> \in R
    BY <1>5, <1>8, <2>1 DEF Sorted
  <2>4. b = s[1] \/ s[1] < b
    BY <1>1, <2>1, <2>2, <2>3
  <2>5. b \in Int /\ s[1] \in Int
    BY <1>3, <1>8
  <2> HIDE DEF R
  <2> QED BY <2>4, <2>5, SMT
<1> QED BY <1>8, <1>9

\* What else than the model keeps a request from the account.
Refused(mode, k, a, until, time) ==
  \/ mode = "custom_only" \/ k.operation = "other" \/ ~k.method
  \/ ~AccountSupportsOperation(k.operation)
  \/ ~AccountSupportsRequestFormat(k.operation, k.format)
  \/ ~k.headers \/ a.authMode = "apikey" \/ until > time
  \/ a.blockedUntil > time
  \/ /\ a.updatedAt > 0 /\ time <= a.updatedAt + AccountStateMaxAge
     /\ a.quotaStatus = "exhausted"

LEMMA DecisionForm ==
  ASSUME NEW mode, NEW k, NEW a, NEW m, NEW known, NEW until, NEW time
  PROVE  LET d == DecideUpstreamRoute(mode, k, a, m, NoModel, known, until, time)
         IN /\ d.route = "account" <=>
                 /\ ~Refused(mode, k, a, until, time)
                 /\ AccountSupportsModel(k.operation, m, NoModel, ~known)
            /\ d.route \in {"account", "custom"}
            /\ d.reason = "unsupported_request_format" <=>
                 /\ ~(mode = "custom_only" \/ k.operation = "other" \/ ~k.method)
                 /\ AccountSupportsOperation(k.operation)
                 /\ ~AccountSupportsRequestFormat(k.operation, k.format)
<1> DEFINE objections == Objections(mode, k, a, m, NoModel, known, until, time)
           held == {i \in DOMAIN objections : objections[i][2]}
           first == CHOOSE i \in held : \A j \in held : i <= j
           d == DecideUpstreamRoute(mode, k, a, m, NoModel, known, until, time)
           C1 == mode = "custom_only"
           C2 == k.operation = "other"
           C3 == ~k.method
           C4 == ~AccountSupportsOperation(k.operation)
           C5 == ~AccountSupportsRequestFormat(k.operation, k.format)
           C6 == ~k.headers
           C7 == a.authMode = "apikey"
           C8 == until > time
           C9 == \/ a.blockedUntil > time
                 \/ /\ a.updatedAt > 0 /\ time <= a.updatedAt + AccountStateMaxAge
                    /\ a.quotaStatus = "exhausted"
           C10 == ~AccountSupportsModel(k.operation, m, NoModel, ~known)
<1>1. objections = << <<"custom_only", C1>>,
                      <<"unsupported_path", C2>>,
                      <<"unsupported_method", C3>>,
                      <<"unsupported_operation", C4>>,
                      <<"unsupported_request_format", C5>>,
                      <<"account_headers_missing", C6>>,
                      <<"not_chatgpt_auth", C7>>,
                      <<"account_cooldown", C8>>,
                      <<"account_quota_exhausted", C9>>,
                      <<"unsupported_account_model", C10>> >>
  BY DEF Objections
<1>2. d = IF held = {} THEN [route |-> "account", reason |-> "account_eligible"]
          ELSE [route |-> "custom", reason |-> objections[first][1]]
  BY DEF DecideUpstreamRoute
<1>3. /\ C1 \in BOOLEAN /\ C2 \in BOOLEAN /\ C3 \in BOOLEAN /\ C4 \in BOOLEAN /\ C5 \in BOOLEAN
      /\ C6 \in BOOLEAN /\ C7 \in BOOLEAN /\ C8 \in BOOLEAN /\ C9 \in BOOLEAN /\ C10 \in BOOLEAN
  BY DEF AccountSupportsOperation, AccountSupportsRequestFormat, AccountSupportsModel
<1> HIDE DEF objections, d, C1, C2, C3, C4, C5, C6, C7, C8, C9, C10
<1>4. DOMAIN objections = 1..10
  BY <1>1, SMT
<1>5. /\ \A i \in 1..10 : i \in held <=> objections[i][2]
      /\ \A i \in held : i \in 1..10
  BY <1>4
<1> HIDE DEF held
<1>6. /\ 1 \in held <=> C1
      /\ 2 \in held <=> C2
      /\ 3 \in held <=> C3
      /\ 4 \in held <=> C4
      /\ 5 \in held <=> C5
      /\ 6 \in held <=> C6
      /\ 7 \in held <=> C7
      /\ 8 \in held <=> C8
      /\ 9 \in held <=> C9
      /\ 10 \in held <=> C10
  <2>1. 1 \in held <=> C1
    BY <1>1, <1>3, <1>5, SMT
  <2>2. 2 \in held <=> C2
    BY <1>1, <1>3, <1>5, SMT
  <2>3. 3 \in held <=> C3
    BY <1>1, <1>3, <1>5, SMT
  <2>4. 4 \in held <=> C4
    BY <1>1, <1>3, <1>5, SMT
  <2>5. 5 \in held <=> C5
    BY <1>1, <1>3, <1>5, SMT
  <2>6. 6 \in held <=> C6
    BY <1>1, <1>3, <1>5, SMT
  <2>7. 7 \in held <=> C7
    BY <1>1, <1>3, <1>5, SMT
  <2>8. 8 \in held <=> C8
    BY <1>1, <1>3, <1>5, SMT
  <2>9. 9 \in held <=> C9
    BY <1>1, <1>3, <1>5, SMT
  <2>10. 10 \in held <=> C10
    BY <1>1, <1>3, <1>5, SMT
  <2> QED BY <2>1, <2>2, <2>3, <2>4, <2>5, <2>6, <2>7, <2>8, <2>9, <2>10
<1>7. held = {} <=> \A i \in 1..10 : i \notin held
  BY <1>5
<1>8. \A i : i \in 1..10 <=> i \in {1, 2, 3, 4, 5, 6, 7, 8, 9, 10}
  BY SMT
<1>9. held = {} <=> ~(\E i \in {1, 2, 3, 4, 5, 6, 7, 8, 9, 10} : i \in held)
  BY <1>7, <1>8
<1>10. held = {} <=> /\ ~Refused(mode, k, a, until, time)
                     /\ AccountSupportsModel(k.operation, m, NoModel, ~known)
  BY <1>6, <1>9, Zenon 
  DEF Refused, C1, C2, C3, C4, C5, C6, C7, C8, C9, C10
<1>11. held # {} => first \in held /\ \A j \in held : first <= j
  <2>1. held \in SUBSET (1..10)
    BY <1>5
  <2>2. held # {} => \E i \in held : \A j \in held : i <= j
    <3>1. 10 \in Nat
      BY SMT
    <3> QED BY <2>1, <3>1, FirstExists
  <2> QED BY <2>2
<1> HIDE DEF first
<1>12. ASSUME held # {}
       PROVE  objections[first][1] = "unsupported_request_format" <=> first = 5
  <2>1. first \in {1, 2, 3, 4, 5, 6, 7, 8, 9, 10}
    BY <1>5, <1>8, <1>11, <1>12
  <2> QED BY <1>1, <2>1, SMT
<1>13. ASSUME held # {}
       PROVE  first = 5 <=> 5 \in held /\ 1 \notin held /\ 2 \notin held /\ 3 \notin held
                            /\ 4 \notin held
  <2>1. first \in 1..10 /\ first \in held /\ \A j \in held : first <= j
    BY <1>5, <1>11, <1>13
  <2> QED BY <2>1, SMT
<1>14. d.reason = "unsupported_request_format" <=>
         5 \in held /\ 1 \notin held /\ 2 \notin held /\ 3 \notin held /\ 4 \notin held
  BY <1>2, <1>6, <1>12, <1>13
<1>15. (d.route = "account" <=> held = {}) /\ d.route \in {"account", "custom"}
  BY <1>2
<1> QED BY <1>6, <1>10, <1>14, <1>15 
       DEF d, C1, C2, C3, C4, C5

LEMMA CreatedTarget ==
  ASSUME NEW q, DOMAIN q = RequestFields, q.stage = "reading"
  PROVE  /\ \E s \in Created(q) : ~Terminal(s)
         /\ \A s \in Created(q) : ~Terminal(s) => Target(s) = Target(q)
<1> DEFINE c == [q EXCEPT !.attempt = "connecting", !.connected = FALSE,
                          !.context = IF @ = "none" THEN Target(q) ELSE @]
<1>1. ~Terminal(q)
  BY DEF Terminal
<1>2. \A s : s \in Created(q) <=> s = c \/ s = ProxyFailure(q, "502", "networkError")
  BY <1>1 DEF Created
<1>3. c.stage = "reading" /\ c.route = q.route /\ c.provider = q.provider
  BY DEF RequestFields
<1> HIDE DEF c
<1>4. ~Terminal(c) /\ Target(c) = Target(q)
  BY <1>3 DEF Terminal, Target
<1> QED BY <1>2, <1>4, FailureIsDone DEF Terminal

\* A body whose model can be read is always prepared.
LEMMA ReadableIsPrepared ==
  ASSUME NEW q, q.kind.readable, q.stage = "reading"
  PROVE  \A s : s \in PreparedAndCreated(q) <=> s \in Created(q)
<1>1. Prepares(q) = {TRUE}
  BY DEF Prepares
<1> QED BY <1>1, Zenon DEF PreparedAndCreated, Terminal

LEMMA SelectedTarget ==
  ASSUME NEW q, DOMAIN q = RequestFields, q.stage = "reading", NEW m
  PROVE  LET s == SelectCustom(q, m)
             plan == Plan(q.cfg, m)
         IN /\ plan = <<>> => s.stage = "done"
            /\ plan # <<>> => /\ DOMAIN s = RequestFields /\ s.stage = "reading"
                             /\ s.kind = q.kind /\ Target(s) = plan[1]
<1> DEFINE plan == Plan(q.cfg, m)
           c == [q EXCEPT !.candidates = plan]
           s == OnCustom(c, 1)
<1>1. DOMAIN c = RequestFields /\ c.stage = "reading" /\ c.kind = q.kind /\ c.candidates = plan
  BY DEF RequestFields
<1> HIDE DEF c, plan
<1>2. /\ DOMAIN s = RequestFields /\ s.stage = "reading" /\ s.kind = q.kind
      /\ s.route = "custom" /\ s.provider = plan[1]
  BY <1>1 DEF OnCustom, RequestFields
<1>3. SelectCustom(q, m) = IF plan = <<>> THEN ProxyFailure(NoCustom(q), "503", "upstreamError")
                           ELSE s
  BY DEF SelectCustom, c, plan
<1> HIDE DEF s
<1>4. Target(s) = plan[1]
  BY <1>2 DEF Target
<1> QED BY <1>2, <1>3, <1>4, FailureIsDone DEF plan

\* decideRouteForModel for a request that was accepted in this state.
DecisionNow(k, m, known) ==
  DecideUpstreamRoute(settings.mode, k, account, m, NoModel, known, blockedUntil, now)

LEMMA HeadedForm ==
  ASSUME NEW k
  PROVE  LET h == Headed(k)
             plan == Plan(settings, NoModel)
             d == DecisionNow(k, NoModel, FALSE)
             first == IF plan = <<>> THEN NoProvider ELSE plan[1]
         IN \/ /\ h.stage = "done"
               /\ \/ d.reason = "unsupported_request_format"
                  \/ d.route # "account" /\ first = NoProvider
            \/ /\ DOMAIN h = RequestFields /\ h.stage = "reading" /\ h.kind = k
               /\ h.cfg = settings /\ h.account = account
               /\ h.initialAccount = (d.route = "account") /\ h.route = d.route
               /\ h.provider = first /\ d.reason # "unsupported_request_format"
               /\ h.how # "preflight" =>
                    d.route # "account" /\ ~ModelAware(settings) /\ plan # <<>>
<1> DEFINE q == NewRequest(k, settings)
           plan == Plan(settings, NoModel)
           d == Decide(q, NoModel, FALSE)
           onAccount == d.route = "account"
           first == IF plan = <<>> THEN NoProvider ELSE plan[1]
           r == [q EXCEPT !.route = d.route, !.initialAccount = onAccount,
                          !.provider = first, !.candidates = plan,
                          !.index = IF plan = <<>> THEN 0 ELSE 1]
           early == \/ onAccount \/ EditsPreflight(r) \/ ModelAware(settings)
                    \/ k.operation = "responses" /\ Len(plan) > 1
           how == IF early THEN "preflight"
                  ELSE IF Transforms(r) THEN "transform" ELSE "stream"
           t == [r EXCEPT !.how = how]
           unsent == ~onAccount /\ first = NoProvider /\ ~EditsPreflight(r)
<1>1. Headed(k) = IF d.reason = "unsupported_request_format"
                  THEN ProxyFailure(NoCustom(r), "415", "upstreamError")
                  ELSE IF unsent THEN [Ended(r) EXCEPT !.got = "503"] ELSE t
  BY DEF Headed
<1>2. d = DecisionNow(k, NoModel, FALSE)
  <2>1. q.cfg = settings /\ q.kind = k /\ q.account = account
    BY DEF NewRequest
  <2> HIDE DEF q
  <2> QED BY <2>1 DEF Decide, DecisionNow
<1>3. ~unsent /\ how # "preflight" => ~onAccount /\ ~ModelAware(settings) /\ plan # <<>>
  OBVIOUS
<1>4. /\ DOMAIN q = RequestFields /\ q.stage = "reading" /\ q.kind = k /\ q.cfg = settings
      /\ q.account = account
  BY DEF NewRequest, RequestFields
<1> HIDE DEF q, d, plan, onAccount, first, how
<1>5. /\ DOMAIN t = RequestFields /\ t.stage = "reading" /\ t.kind = k /\ t.cfg = settings
      /\ t.account = account /\ t.initialAccount = onAccount /\ t.route = d.route
      /\ t.provider = first /\ t.how = how
  BY <1>4 DEF RequestFields
<1>6. [Ended(r) EXCEPT !.got = "503"].stage = "done"
  BY DEF Ended
<1>7. ProxyFailure(NoCustom(r), "415", "upstreamError").stage = "done"
  BY FailureIsDone
<1> HIDE DEF t, r
<1>8. CASE d.reason = "unsupported_request_format"
  BY <1>1, <1>2, <1>7, <1>8 DEF plan, first
<1>9. CASE d.reason # "unsupported_request_format" /\ unsent
  <2>1. Headed(k).stage = "done" /\ ~onAccount /\ first = NoProvider
    BY <1>1, <1>6, <1>9, Zenon
  <2> QED BY <1>2, <2>1 DEF plan, first, onAccount
<1>10. CASE d.reason # "unsupported_request_format" /\ ~unsent
  <2>1. Headed(k) = t
    BY <1>1, <1>10, Zenon
  <2> QED BY <1>2, <1>3, <1>5, <1>10, <2>1 DEF plan, first, onAccount
<1> QED BY <1>8, <1>9, <1>10

\* Nobody is planned for a model only if nobody serves it.
LEMMA NobodyPlanned ==
  ASSUME PoolInv, NEW m \in Models
  PROVE  /\ Plan(settings, NoModel) # <<>> => Plan(settings, NoModel)[1] # NoProvider
         /\ Plan(settings, NoModel) = <<>> => Plan(settings, m) = <<>>
<1>1. settings \in Configurations /\ m \in ModelOrNone /\ NoModel \in ModelOrNone
  BY DEF PoolInv, ModelOrNone
<1>2. ASSUME Plan(settings, NoModel) # <<>> PROVE Plan(settings, NoModel)[1] # NoProvider
  <2>1. /\ Plan(settings, NoModel) \in Seq(Providers)
        /\ 1 \in DOMAIN Plan(settings, NoModel)
    BY <1>1, <1>2, PlanServes
  <2>2. Plan(settings, NoModel)[1] \in Providers
    BY <2>1, SMT
  <2> QED BY <2>2, NullsAssumption
<1>3. ASSUME Plan(settings, NoModel) = <<>> PROVE Plan(settings, m) = <<>>
  <2>1. \A i \in DOMAIN <<>> : FALSE
    BY SMT
  <2>2. Candidates(settings, NoModel) = {}
    BY <1>1, <1>3, <2>1, PlanIsWhole
  <2>3. Eligible(settings, NoModel) = {}
    BY <1>1, <2>2, SomebodyServes DEF PoolInv
  <2>4. Configured(settings) = {}
    BY <2>3 DEF Eligible, Supports
  <2>5. Candidates(settings, m) = {}
    BY <2>4 DEF Candidates, Eligible
  <2>6. Plan(settings, m) \in [1..Cardinality({}) -> {}]
    BY <1>1, <2>5, PlanIsWhole
  <2>7. Cardinality({}) = 0
    BY FS_EmptySet
  <2> QED BY <2>6, <2>7, SMT
<1> QED BY <1>2, <1>3

\* What the preview asks for, as a request.
Previewed(operation, format, model) ==
  [operation |-> operation, format |-> format, method |-> TRUE, headers |-> TRUE,
   model |-> model, large |-> FALSE, readable |-> TRUE, early |-> TRUE]

LEMMA OutletIs ==
  ASSUME NEW k, NEW x,
         LET h == Headed(k)
             outcomes == IF h.how = "preflight" THEN Inspected(h) ELSE PreparedAndCreated(h)
         IN IF x = NoProvider THEN h.stage = "done" \/ \A s \in outcomes : s.stage = "done"
            ELSE /\ h.stage = "reading"
                 /\ \E s \in outcomes : ~Terminal(s)
                 /\ \A s \in outcomes : ~Terminal(s) => Target(s) = x
  PROVE  Outlet(k) = x
<1> DEFINE h == Headed(k)
           outcomes == IF h.how = "preflight" THEN Inspected(h) ELSE PreparedAndCreated(h)
           sent == IF Terminal(h) THEN {} ELSE {s \in outcomes : ~Terminal(s)}
<1>1. Outlet(k) = IF sent = {} THEN NoProvider ELSE Target(CHOOSE s \in sent : TRUE)
  BY DEF Outlet
<1>2. CASE x = NoProvider
  <2>1. h.stage = "done" \/ \A s \in outcomes : s.stage = "done"
    BY <1>2
  <2> HIDE DEF h, outcomes
  <2>2. sent = {}
    BY <2>1 DEF Terminal
  <2> QED BY <1>1, <1>2, <2>2
<1>3. CASE x # NoProvider
  <2>1. /\ h.stage = "reading" /\ \E s \in outcomes : ~Terminal(s)
        /\ \A s \in outcomes : ~Terminal(s) => Target(s) = x
    BY <1>3
  <2> HIDE DEF h, outcomes
  <2>2. sent # {} /\ \A s \in sent : Target(s) = x
    BY <2>1 DEF Terminal
  <2> HIDE DEF sent
  <2>3. (CHOOSE s \in sent : TRUE) \in sent
    BY <2>2
  <2> QED BY <1>1, <2>2, <2>3
<1> QED BY <1>2, <1>3

LEMMA PreviewIsOutlet ==
  ASSUME PoolInv, NEW operation \in RouteOperations, NEW format \in Formats, NEW m \in Models
  PROVE  Preview(operation, format, m) = Outlet(Previewed(operation, format, m))
<1> DEFINE k == Previewed(operation, format, m)
           short == [operation |-> operation, format |-> format, method |-> TRUE, headers |-> TRUE]
           h == Headed(k)
           plan == Plan(settings, m)
           plan0 == Plan(settings, NoModel)
           first == IF plan0 = <<>> THEN NoProvider ELSE plan0[1]
           d == DecideUpstreamRoute(settings.mode, short, account, m, NoModel, TRUE,
                                    blockedUntil, now)
           d0 == DecisionNow(k, NoModel, FALSE)
           d2 == DecisionNow(k, m, TRUE)
           refused == Refused(settings.mode, k, account, blockedUntil, now)
           mayServe == AccountSupportsModel(operation, m, NoModel, FALSE)
<1>1. /\ k.operation = operation /\ k.format = format /\ k.method = TRUE /\ k.headers = TRUE
      /\ k.model = m /\ k.readable = TRUE
      /\ short.operation = operation /\ short.format = format /\ short.method = TRUE
      /\ short.headers = TRUE
  BY DEF Previewed
<1> HIDE DEF k, short
<1>2. Refused(settings.mode, short, account, blockedUntil, now) <=> refused
  BY <1>1 DEF Refused
<1>3. /\ AccountSupportsModel(operation, NoModel, NoModel, ~FALSE)
      /\ AccountSupportsModel(operation, m, NoModel, ~TRUE) <=> mayServe
  BY DEF AccountSupportsModel
<1>4. /\ d.route = "account" <=> ~refused /\ mayServe
      /\ d.route \in {"account", "custom"}
      /\ d2.route = "account" <=> ~refused /\ mayServe
      /\ d2.route \in {"account", "custom"}
      /\ d0.route = "account" <=> ~refused
      /\ d0.route \in {"account", "custom"}
      /\ d0.reason = "unsupported_request_format" <=> d.reason = "unsupported_request_format"
      /\ d.reason = "unsupported_request_format" => refused
  <2> DEFINE unsupported == /\ ~(settings.mode = "custom_only" \/ operation = "other")
                            /\ AccountSupportsOperation(operation)
                            /\ ~AccountSupportsRequestFormat(operation, format)
  <2>1. /\ d.route = "account" <=>
             /\ ~Refused(settings.mode, short, account, blockedUntil, now)
             /\ AccountSupportsModel(short.operation, m, NoModel, ~TRUE)
        /\ d.route \in {"account", "custom"}
        /\ d.reason = "unsupported_request_format" <=>
             /\ ~(settings.mode = "custom_only" \/ short.operation = "other" \/ ~short.method)
             /\ AccountSupportsOperation(short.operation)
             /\ ~AccountSupportsRequestFormat(short.operation, short.format)
    BY DecisionForm
  <2>2. /\ d2.route = "account" <=>
             /\ ~Refused(settings.mode, k, account, blockedUntil, now)
             /\ AccountSupportsModel(k.operation, m, NoModel, ~TRUE)
        /\ d2.route \in {"account", "custom"}
        /\ d2.reason = "unsupported_request_format" <=>
             /\ ~(settings.mode = "custom_only" \/ k.operation = "other" \/ ~k.method)
             /\ AccountSupportsOperation(k.operation)
             /\ ~AccountSupportsRequestFormat(k.operation, k.format)
    BY DecisionForm DEF DecisionNow
  <2>3. /\ d0.route = "account" <=>
             /\ ~Refused(settings.mode, k, account, blockedUntil, now)
             /\ AccountSupportsModel(k.operation, NoModel, NoModel, ~FALSE)
        /\ d0.route \in {"account", "custom"}
        /\ d0.reason = "unsupported_request_format" <=>
             /\ ~(settings.mode = "custom_only" \/ k.operation = "other" \/ ~k.method)
             /\ AccountSupportsOperation(k.operation)
             /\ ~AccountSupportsRequestFormat(k.operation, k.format)
    BY DecisionForm DEF DecisionNow
  <2> HIDE DEF d, d0, d2
  <2>4. /\ d.route = "account" <=> ~refused /\ mayServe
        /\ d2.route = "account" <=> ~refused /\ mayServe
        /\ d0.route = "account" <=> ~refused
    BY <1>1, <1>2, <1>3, <2>1, <2>2, <2>3
  <2>5. /\ d.reason = "unsupported_request_format" <=> unsupported
        /\ d0.reason = "unsupported_request_format" <=> unsupported
    BY <1>1, <2>1, <2>3
  <2>6. unsupported => refused
    BY <1>1 DEF Refused
  <2> HIDE DEF refused, unsupported, mayServe
  <2> QED BY <2>1, <2>2, <2>3, <2>4, <2>5, <2>6
<1>5. Preview(operation, format, m) =
        IF d.reason = "unsupported_request_format" THEN NoProvider
        ELSE IF d.route = "account" THEN "account"
        ELSE IF plan = <<>> THEN NoProvider ELSE plan[1]
  BY DEF Preview, short
<1>6. \/ /\ h.stage = "done"
         /\ \/ d0.reason = "unsupported_request_format"
            \/ d0.route # "account" /\ first = NoProvider
      \/ /\ DOMAIN h = RequestFields /\ h.stage = "reading" /\ h.kind = k
         /\ h.cfg = settings /\ h.account = account
         /\ h.initialAccount = (d0.route = "account") /\ h.route = d0.route
         /\ h.provider = first /\ d0.reason # "unsupported_request_format"
         /\ h.how # "preflight" => d0.route # "account" /\ ~ModelAware(settings) /\ plan0 # <<>>
  BY HeadedForm
<1>7. /\ plan0 # <<>> => plan0[1] # NoProvider
      /\ plan0 = <<>> => plan = <<>>
  BY NobodyPlanned
<1>8. plan # <<>> => plan[1] \in Providers
  <2>1. m \in ModelOrNone /\ settings \in Configurations
    BY DEF ModelOrNone, PoolInv
  <2>2. plan \in Seq(Providers) /\ (plan # <<>> => 1 \in DOMAIN plan)
    BY <2>1, PlanServes
  <2> HIDE DEF plan
  <2> QED BY <2>2, SMT
<1> HIDE DEF h, plan, plan0, d, d0, d2, refused, mayServe
<1>9. CASE h.stage = "done"
  <2>1. Outlet(k) = NoProvider
    BY <1>9, OutletIs DEF h
  <2>2. Preview(operation, format, m) = NoProvider
    <3>1. CASE d.reason = "unsupported_request_format"
      BY <1>5, <3>1
    <3>2. CASE d.reason # "unsupported_request_format"
      <4>1. d0.route # "account" /\ first = NoProvider
        BY <1>4, <1>6, <1>9, <3>2
      <4>2. plan = <<>> /\ d.route # "account"
        BY <1>4, <1>7, <4>1
      <4> QED BY <1>5, <4>2
    <3> QED BY <3>1, <3>2
  <2> QED BY <2>1, <2>2 DEF k
<1>10. CASE h.stage # "done" /\ h.how # "preflight"
  <2>1. /\ DOMAIN h = RequestFields /\ h.stage = "reading" /\ h.kind = k
        /\ h.route = "custom" /\ h.provider = plan0[1] /\ ~ModelAware(settings)
        /\ plan0 # <<>> /\ d0.route = "custom" /\ d.reason # "unsupported_request_format"
    BY <1>4, <1>6, <1>10
  <2>2. plan = plan0
    BY <2>1, SamePlan DEF plan, plan0, PoolInv
  <2>3. /\ \E s \in PreparedAndCreated(h) : ~Terminal(s)
        /\ \A s \in PreparedAndCreated(h) : ~Terminal(s) => Target(s) = plan[1]
    <3>1. Target(h) = plan[1]
      BY <2>1, <2>2 DEF Target
    <3>2. \A s : s \in PreparedAndCreated(h) <=> s \in Created(h)
      BY <1>1, <2>1, ReadableIsPrepared
    <3> QED BY <2>1, <3>1, <3>2, CreatedTarget
  <2>4. plan[1] # NoProvider
    BY <1>7, <2>1, <2>2
  <2>5. Outlet(k) = plan[1]
    BY <1>10, <2>1, <2>3, <2>4, OutletIs DEF h
  <2>6. Preview(operation, format, m) = plan[1]
    BY <1>4, <1>5, <2>1, <2>2
  <2> QED BY <2>5, <2>6 DEF k
<1>11. CASE h.stage # "done" /\ h.how = "preflight"
  <2> DEFINE whole == [h EXCEPT !.ended = TRUE, !.replay = TRUE]
             chosen == SelectCustom(whole, m)
  <2>1. /\ DOMAIN h = RequestFields /\ h.stage = "reading" /\ h.kind = k /\ h.cfg = settings
        /\ h.account = account /\ h.initialAccount = (d0.route = "account")
        /\ h.route = d0.route /\ d.reason # "unsupported_request_format"
    BY <1>4, <1>6, <1>11
  <2>2. Decide(h, m, TRUE) = d2
    BY <2>1 DEF Decide, DecisionNow, d2
  <2>3. m # NoModel
    BY NullsAssumption
  <2>4. Inspected(h) = IF ~h.initialAccount \/ d2.route = "custom"
                       THEN PreparedAndCreated(chosen) ELSE Created(whole)
    BY <1>1, <2>1, <2>2, <2>3 DEF Inspected
  <2>5. /\ DOMAIN whole = RequestFields /\ whole.stage = "reading" /\ whole.kind = k
        /\ whole.cfg = settings /\ whole.route = d0.route
    BY <2>1 DEF RequestFields
  <2> HIDE DEF whole
  <2>6. CASE d.route = "account"
    <3>1. Inspected(h) = Created(whole) /\ whole.route = "account"
      BY <1>4, <2>1, <2>4, <2>5, <2>6
    <3>2. Target(whole) = "account"
      BY <3>1 DEF Target
    <3>3. /\ \E s \in Inspected(h) : ~Terminal(s)
          /\ \A s \in Inspected(h) : ~Terminal(s) => Target(s) = "account"
      BY <2>5, <3>1, <3>2, CreatedTarget
    <3>4. "account" # NoProvider
      BY NamesAssumption
    <3>5. Outlet(k) = "account"
      BY <1>11, <2>1, <3>3, <3>4, OutletIs DEF h
    <3> QED BY <1>5, <2>1, <2>6, <3>5 DEF k
  <2>7. CASE d.route # "account"
    <3>1. Inspected(h) = PreparedAndCreated(chosen)
      BY <1>4, <2>1, <2>4, <2>7
    <3>2. /\ plan = <<>> => chosen.stage = "done"
          /\ plan # <<>> => /\ DOMAIN chosen = RequestFields /\ chosen.stage = "reading"
                           /\ chosen.kind = k /\ Target(chosen) = plan[1]
      BY <2>5, SelectedTarget DEF plan
    <3> HIDE DEF chosen
    <3>3. CASE plan = <<>>
      <4>1. \A s \in Inspected(h) : s.stage = "done"
        BY <3>1, <3>2, <3>3 DEF PreparedAndCreated, Terminal
      <4>2. Outlet(k) = NoProvider
        BY <1>11, <4>1, OutletIs DEF h
      <4> QED BY <1>5, <2>1, <2>7, <3>3, <4>2 DEF k
    <3>4. CASE plan # <<>>
      <4>1. \A s : s \in PreparedAndCreated(chosen) <=> s \in Created(chosen)
        BY <1>1, <3>2, <3>4, ReadableIsPrepared
      <4>2. /\ \E s \in Inspected(h) : ~Terminal(s)
            /\ \A s \in Inspected(h) : ~Terminal(s) => Target(s) = plan[1]
        BY <3>1, <3>2, <3>4, <4>1, CreatedTarget
      <4>3. plan[1] # NoProvider
        BY <1>8, <3>4, NullsAssumption
      <4>4. Outlet(k) = plan[1]
        BY <1>11, <2>1, <4>2, <4>3, OutletIs DEF h
      <4> QED BY <1>5, <2>1, <2>7, <3>4, <4>4 DEF k
    <3> QED BY <3>3, <3>4
  <2> QED BY <2>6, <2>7
<1> QED BY <1>9, <1>10, <1>11

LEMMA PreviewsTrue == PoolInv => PreviewTellsTruth
BY PreviewIsOutlet DEF PreviewTellsTruth, Previewed

\* route-preview.mjs:149: the preview decides on its own, and says of every model what the
\* proxy would do with a request for it now, for any providers, policies and rules.
THEOREM PreviewIsTrue == Spec => []PreviewTellsTruth
BY PoolInit, PoolStep, PreviewsTrue, PTL DEF Spec
=============================================================================
