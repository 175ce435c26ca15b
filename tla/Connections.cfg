CONSTANTS
  NoError = "none"
  Conns = {c1, c2}
SPECIFICATION FairSpec
INVARIANT NothingLost
PROPERTIES FreedSafely Reaped Destroyed
