SPECIFICATION Spec
CONSTANTS
  Workers = {w1, w2}
  Clients = {c1}
  Ips = {i1}
  Tokens = {k1, k2}
  Secrets = {s1, s2}
  Budget = 1
  Window = 2
  MaxBack = 1
  MaxRestarts = 1
  Life = 3
  None = None
INVARIANTS
  BurstBounded
  RefusalEarned
  KeysEarned
  IdentityKept
PROPERTY Readmitted
