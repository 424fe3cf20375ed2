SPECIFICATION OldSiteSpec
CONSTANTS
  site = site
  rack = rack
  address = address
  old = old
  new = new
  first = first
  second = second
  alice = alice
  bob = bob
  w1 = w1
  w2 = w2
  Objects = {site, rack}
  Values = {old, new}
  Kinds = {"site", "other", "kind"}
  Kind <- OneKind
  Unconstrained = {}
  Runs = {first, second}
  Observed <- ClearAndUnclear
  Operators = {alice, bob}
  NoOperator = NoOperator
  SeparateOperators = TRUE
  Workers = {w1}
  NoAttempt = NoAttempt
  Comparisons = {1}
  NoComparison = NoComparison
  NoView = NoView
  MaxSaves = 1
INVARIANTS TypeOK AppliedWasApproved
PROPERTY FinalReviewStands
