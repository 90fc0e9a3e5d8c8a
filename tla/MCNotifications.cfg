SPECIFICATION Instances
CONSTANTS
  u1 = u1
  u2 = u2
  i1 = i1
  i2 = i2
  r1 = r1
  r2 = r2
  r3 = r3
  r4 = r4
  r5 = r5
  n1 = n1
  n2 = n2
  s1 = s1
  s2 = s2
  ex1 = ex1
  ex2 = ex2
  ex3 = ex3
  aa = aa
  AA = AA
  bb = bb
  NoUser = NoUser
  NoInstallation = NoInstallation
  NoNote = NoNote
  NoSocket = NoSocket
  Users = {u1, u2}
  Tokens = {ex1, ex2, ex3, aa, AA, bb}
  Installations = {i1, i2}
  Sessions = {r1, r2, r3, r4, r5}
  Asked <- Registrations
  LowerCase <- Small
  Hex = {aa, AA, bb}
  Notes = {n1, n2}
  Sockets = {s1, s2}
  RecipientOf <- Recipients
  UserOf <- UsersOfSockets
  Channels <- BothChannels
  Contents <- AllContents
  Malformed <- Malforms
  MaxTasks = 2
  PayloadLimit = 9
  FixedBytes = 4
  FallbackBytes = 1
CHECK_DEADLOCK FALSE
INVARIANTS
  TypeOK
  UnreadSettles
  LedgerTellsAnswers
  InstallationsHoldOneToken
  PayloadsFit
