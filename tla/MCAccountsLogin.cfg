SPECIFICATION Spec
CONSTANTS
  Browser = {b1, b2}
  Email = {e1}
  Name = {alice}
  Code = {c1}
  Subject = {}
  Null = Null
  NoRow = NoRow
  Random = Random
  MaxRegs = 1
  MaxTokens = 1
INVARIANT RightPasswordLogsIn
CHECK_DEADLOCK FALSE
