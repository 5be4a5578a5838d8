SPECIFICATION FairSpec
CONSTANTS
  Song <- MCSong
  Client = {c1, c2}
  Mbid <- MCMbid
  Lookup <- MCLookup
  Selections = {{"s1"}, {"x"}}
  MaxEdits = 2
  MaxMishaps = 1
PROPERTY LocalWins Converges
CHECK_DEADLOCK FALSE
