SPECIFICATION DialFairSpec
CONSTANTS
  a1 = a1
  a2 = a2
  a3 = a3
  a4 = a4
  Addrs = {a1, a2, a3, a4}
  V4 = {a1}
  Answers <- MCAnswers
  Seed = Seed
  Unset = Unset
  Invalid = Invalid
  Pool <- MCPool
  Buffer <- MCBuffer
  DEFAULT_MAX_POOL <- MCPool
  RetriesRaw <- MCRetriesRaw
  RefreshRaw <- MCRefreshRaw
  PoolRaw <- MCPoolRaw
  InitialBackoff <- MCInitialBackoff
  MaxBackoff <- MCMaxBackoff
  U32Max <- MCU32Max
INVARIANTS QueuedIsKnown HandedOutUsable
PROPERTIES NeverEmptied Converges DialEnds BackoffGrows
