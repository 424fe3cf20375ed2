SPECIFICATION OldSiteSpec
CONSTANTS
  site = site
  rack = rack
  address = address
  old = old
  new = new
  first = first
  second = second
  alice = alice
  bob = bob
  w1 = w1
  w2 = w2
  Objects = {site, address}
  Values = {old, new}
  Kinds = {"site", "other", "kind"}
  Kind <- KindPerObject
  Unconstrained = {address}
  Runs = {first, second}
  Observed <- TwoCollections
  Operators = {alice}
  NoOperator = NoOperator
  SeparateOperators = FALSE
  Workers = {w1, w2}
  NoAttempt = NoAttempt
  Comparisons = {1, 2}
  NoComparison = NoComparison
  NoView = NoView
  MaxSaves = 1
SYMMETRY WorkerSymmetry
CONSTRAINT QuietReview
PROPERTIES AppliesWhatWasPreviewed KeepsPromise
