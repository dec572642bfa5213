SPECIFICATION FairSpec
CONSTANTS
  Workers = {w1, w2}
  Conns = {n1, n2, n3}
  NoConn = NoConn
  Nobody = Nobody
  MaxRetries <- MCMaxRetries
  Msgs = {m1, m2}
  NoMsg = NoMsg
  BufferSize <- MCBufferSize
  Threshold <- MCThreshold
  Cooldown <- MCCooldown
INVARIANTS Accounting PublishedOnce
PROPERTIES AcceptedSettles StopReturns Resumes
