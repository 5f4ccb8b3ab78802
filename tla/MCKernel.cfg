CONSTANTS
  d1 = d1  d2 = d2  d3 = d3
  Id = "chain"
  Data = {"created", "paid"}
  MaxLength = 4
  MaxDamage = 2
  Ids <- MCIds
  Categories = {"books", "toys"}
  Merchants = {"shop", "stall"}
  Grants <- MCGrants
  Amounts = {1}
  Instants = {0, 1, 2}
  Statuses = {"active", "revoked"}
  None = None
  Offers <- MCOffers
  Lists <- MCLists
  Constraints <- MCConstraints
  MAX_ROUNDS = 2
  MaxOffers = 3
  Absent = Absent
  RatedMerchants = {"shop"}
  MaxCount = 2
  Asks <- MCAsks
  Unasked = Unasked
  Raised = Raised
  Inputs <- MCInputs
  Overrides <- MCOverrides
  Emails = {"a", "b"}
  UserIds <- MCIds
  Lifetime = 2
  MaxSessionTime = 4
  ProductIds <- MCIds
  Listed <- MCListed
  Filters <- MCFilters
  PageLimits = {1, 2}
  MaxWrites = 1
  Unset = Unset
  SentCapabilities <- MCSent
  ProviderOrders = {"order_1", "order_2"}
  ProviderPayments = {"pay_1", "pay_2"}
  WebhookSecret = "webhook"
  KeySecret = "key"
  MaxSigned = 2
  Nothing = Nothing
  CartLines <- MCLines
  CartShops = {"shop"}
  CartCharges <- MCCharges
  MaxLines = 2
  ConsentAmounts = {1}
  ConsentTerms <- MCTerms
  NoExpiry = NoExpiry
  MaxCartTime = 1
  Recorded <- MCRecorded
  MaxRecords = 3
  MaxTampering = 2
  Calls <- MCCalls
  FreshId = "fresh"
SPECIFICATION MCSpec
INVARIANTS
  NoTrap
  VerifyIsExact
  NeverEscalates
  BestIsOptimal
  DiscountIsExact
  TotalIsExact
  PlainReplayIsFaithful
  DiffExplains
  OneAccountPerEmail
  ForgottenRunsOut
  RecheckOnlyNarrowsAttributes
  WalkIsComplete
  PageIsFaithful
  ListingAgrees
  ConfirmedWasAnnounced
  CheckoutWasCompleted
  ConsentBindsCart
  ReorderingKeepsConsent
  GateDecisionsPass
  AuditAccusesDamage
  RepliesAreTraceable
  AnswersAreSecured
PROPERTIES
  PaidIsKept
  AppendKeepsVerdict
  ScoreIsMonotone
CHECK_DEADLOCK FALSE
