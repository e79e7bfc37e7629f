\* The loop and one request; two clouds; a price that changes and one that does not.
CONSTANTS
  Keys = {"m5", "ecs"}
  Source <- TwoKeys
  Currency <- InDollars
  Prices <- TwoAndOne
  Requests = {"api"}
  RuleKey <- Machine
  LineKey <- BothClouds
  Quantity <- OneEach
  Offers <- OfferFiles
  TTL = 1
  MaxPages = 0
SPECIFICATION LiveSpec
INVARIANTS
  EstimateMatchesLines
  IInv
PROPERTIES
  NotStaleIsRecent
  KnownPriceQuoted
  JobsEnd
  PriceCatchesUp
