CONSTANTS
  p1 = p1
  p2 = p2
  text = text
  mapped = mapped
  image = image
  Providers = {p1, p2}
  NoProvider = NoProvider
  Models = {text, mapped, image}
  NoModel = NoModel
  ImageModels = {image}
  NetworkCooldown = 1
  ResponseCooldown = 1
  RateCooldown = 2
  MaxCooldown = 2
  MaxFailures = 2
  AccountCooldown = 1
  AccountStateMaxAge = 1
  Requests = {r1}
  Kinds <- MCKinds
  Configurations <- MCConfigurations
  InitialAccounts <- MCAccounts
  Statuses = {200, 429, 503}
  RetryAfters <- MCRetryAfters
  QuotaHeaders <- MCQuotaHeaders
  MaxOthers = 1
  MaxNow = 2
SPECIFICATION FairSpec
INVARIANTS DeliveredOnce OneTrueRecord SentAsConfigured NobodyLeftOut PreviewTellsTruth
PROPERTIES AccountLeftAlone RequestEnds
CHECK_DEADLOCK FALSE
