SPECIFICATION Spec
CONSTANTS
  p1 = p1
  p2 = p2
  run1 = run1
  run2 = run2
  iron = iron
  other = other
  None = None
  Unset = Unset
  Processes = {p1, p2}
  Runs = {run1, run2}
  Participants = {iron, other}
  DefaultParticipant = iron
  Env <- MCEnv
  Changes <- MCChanges
INVARIANTS
  TypeOK
  TokenFitsItsRun
  RefusedRequestsExplained
PROPERTY
  UntouchedSettingsStay
