SPECIFICATION Spec
CONSTANTS
  Callers = {c1, c2, c3}
  Keys = {k1, k2}
  Ids = {i1, i2, i3}
  NoFlight = NoFlight
INVARIANTS WaitersExact OneExecution NotACache
