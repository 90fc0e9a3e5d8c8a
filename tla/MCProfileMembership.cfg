SPECIFICATION Spec
CONSTANTS
  Profiles = {p1, p2}
  Users = {1, 2}
  Transactions = {t1, t2}
  Kinds = {"add", "role", "remove", "create", "retype", "delete"}
  Free = Free
SYMMETRY Interchangeable
INVARIANTS
  TypeOK
  OneActiveProfile
  OwnerRetained
