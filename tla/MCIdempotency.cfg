SPECIFICATION FairSpec
CONSTANTS
  Reqs = {r1, r2, r3}
  Keys = {k1}
  Headers <- MCHeaders
  MinSession <- MCMinSession
  DefaultSession <- MCDefaultSession
  MaxTtl <- MCMaxTtl
INVARIANTS NoSequentialDuplicate
PROPERTIES KeysExpire
