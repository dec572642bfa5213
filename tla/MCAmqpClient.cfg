SPECIFICATION FairSpec
CONSTANTS
  p1 = p1
  p2 = p2
  Procs = {p1, p2}
  Calls <- MCCalls
  Conns = {n1, n2, n3, n4}
  NoConn = NoConn
  Nobody = Nobody
  MaxRetries <- MCMaxRetries
INVARIANTS ReconnectExclusive DeliveryBounds AnswerIsMine
PROPERTIES CallsReturn StableDelivers
