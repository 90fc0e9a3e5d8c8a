SPECIFICATION TwoWeathers
CONSTANTS
  p1 = p1
  p2 = p2
  s1 = s1
  s2 = s2
  s3 = s3
  c1 = c1
  Profiles = {p1, p2}
  Sockets = {s1, s2, s3}
  Conversations = {c1}
  ProfileOf <- ProfilesOfSockets
  Doubtful = {s3}
  Ends <- BothEnds
  Existing = {}
  MaxTasks = 2
  MaxVersion = 2
CHECK_DEADLOCK FALSE
INVARIANTS
  TypeOK
  IndexesAgree
  ViewsSettle
