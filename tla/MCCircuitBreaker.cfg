SPECIFICATION FairSpec
CONSTANTS
  Callers = {c1, c2, c3}
  ThresholdArg <- MCThreshold
  Cooldown <- MCCooldown
  CounterMax <- MCCounterMax
INVARIANTS StateCoherent OneYoungProbe
PROPERTIES NeverWedged Recovers
