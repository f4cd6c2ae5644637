SPECIFICATION Spec
CONSTANTS
  Browser = {b1, b2}
  Email = {e1, e2}
  Name = {alice}
  Code = {c1}
  Subject = {s1, s2}
  Null = Null
  NoRow = NoRow
  Random = Random
  MaxRegs = 2
  MaxTokens = 1
INVARIANTS
  TypeOK
  AccountIsOneRegistration
  LastRegistrationStands
PROPERTY AccountsStand
CHECK_DEADLOCK FALSE
