SPECIFICATION FairSpec
CONSTANTS
  User = {"u", "v"}
  Listen <- MCListen
  Request = {r1, r2}
  UserOf <- MCUserOf
  Played <- MCPlayed
  Submissions <- MCSubmissions
  Batch = 2
  MaxMishaps = 1
INVARIANTS TypeOK SentMeansReceived ReceivedOnce
PROPERTY OwedIsSubmitted
CHECK_DEADLOCK FALSE
