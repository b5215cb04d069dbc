SPECIFICATION FairSpec
CONSTANTS
  Conns = {c1, c2}
  DataBases = {d1, d2}
  Sockets = {s1, s2, s3}
  NULL = null
  Pooled = {d1}
  Limit = 2
  IdleCheck = 1
  IdleRelease = 2
  MaxBack = 1
  ClockMod = 16
INVARIANTS TypeOK OneOwner CountsOpenSockets
PROPERTIES SweepClosesIdle IdleLeaves ImplementsLeases
