SPECIFICATION FairSpec
CONSTANTS
  Conns = {c1, c2}
  NULL = null
  Word = 8
INVARIANTS TypeOK ShowsTheChange CurrentUntilReset
PROPERTY BakComesBack
