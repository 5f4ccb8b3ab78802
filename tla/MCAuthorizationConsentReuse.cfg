CONSTANTS
  u1 = u1  u2 = u2
  m1 = m1  m2 = m2  c1 = c1
  h1 = h1  h2 = h2  n1 = n1  n2 = n2  k1 = k1  k2 = k2
  Users <- MCOneUser
  MandateIds <- MCMandateIds
  ConsentIds <- MCConsentIds
  CartHashes <- MCCartHashes
  Categories = {"books", "toys"}
  Merchants = {"shop", "stall"}
  Nonces <- MCNonces
  Keys <- MCKeys
  MandateTerms <- MCTerms
  Requests <- MCRequests
  MaxTime = 1
  MaxDecisions = 2
  NoBound = NoBound
  Naive = Naive
SPECIFICATION Spec
INVARIANTS
  ConsentSingleUse
