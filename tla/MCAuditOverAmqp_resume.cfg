SPECIFICATION FairSpec
CONSTANTS
  Workers = {w1}
  Conns = {n1, n2}
  NoConn = NoConn
  Nobody = Nobody
  MaxRetries <- MCMaxRetries
  Msgs = {m1, m2}
  NoMsg = NoMsg
  BufferSize <- MCBufferSize
  Threshold <- MCThreshold
  Cooldown <- MCCooldown
PROPERTIES ResumesAfterBreak
