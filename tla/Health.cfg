SPECIFICATION FairSpec
CONSTANTS
  p1 = p1
  p2 = p2
  Players = {p1, p2}
  Saved <- OneInDebt
  MaxHp = 2
  MaxMp = 1
  Dose = 2
  MaxDamage = 1
  Costs <- TwoCosts
  MaxBuff = 1
  MaxEvents = 5
INVARIANTS CopiesAgree DeathIsTold
PROPERTIES CostsAreCovered DeathReachesClient
CHECK_DEADLOCK FALSE
