SPECIFICATION BillingFairSpec
CONSTANTS
  pro = pro
  slug = slug
  Products = {pro}
  TierOf <- Tiers
  Default = default
  Nil = Nil
  MaxHooks = 2
  MaxPublished = 3
  MaxMishaps = 1
INVARIANTS AsIfOneByOne TierIsOwed
PROPERTIES TierHeals
CHECK_DEADLOCK FALSE
