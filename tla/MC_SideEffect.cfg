CONSTANTS
  s1 = s1
  a1 = a1
  a2 = a2
  t1 = t1
  args1 = args1
  out1 = out1
  None = None
  Sfx = {s1}
  Accounts = {a1, a2}
  Targets = {t1}
  Args = {args1}
  Outputs = {out1}
  ActionEncodings <- MCActionEncodings
  MaxBalance = 1
  MaxHeight = 1
SPECIFICATION Spec
INVARIANTS SuccessNeverRecordedAsFailure
CHECK_DEADLOCK FALSE
