CONSTANTS
  Ids = {t1, t2}
  Attempts = {a1, a2, a3, a4}
  Payloads = {p1}
  Ranks = {1, 2}
  MaxRetries = {1}
  Admins = {d1}
  Horizon = 1
  BatchLimit = 1
  MaxSequence = 3
  None = None
  MantissaBits = 8
  PriorityWeight = 28
  MaxPriority = 60
  MaxCreatedAt = 4
  Now = 5
  MaxOptions = 2
SPECIFICATION StoreSpec
SYMMETRY Symmetry
INVARIANTS StoreTypeOK IndexesMatchState NoPartialHash ClaimResolvedOnce OwnerHoldsMessage RankOrders SendsWhatWasAsked
PROPERTIES ClaimsInOrder CompletedIsFinal ImplementsContract
