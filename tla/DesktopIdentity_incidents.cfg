SPECIFICATION IdentitySpec
CONSTANTS
  None = None
  Callers = {call1, call2}
  MaxInstallations = 2
  MaxSessions = 2
  MaxIncidents = 2
SYMMETRY CallerSymmetry
CHECK_DEADLOCK FALSE
INVARIANTS IdentityTypeOK NoCircularWait MemoryIsTrue ReportedByChoice
PROPERTIES KeepsWorkingCredential
