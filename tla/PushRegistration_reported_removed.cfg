SPECIFICATION OneAfterAnother
CONSTANTS
  None = None
  Corrupt = Corrupt
  MaxEndpoints = 1
  MaxFlows = 4
  MaxDisturbances = 0
CHECK_DEADLOCK FALSE
PROPERTY CompleteMeansServerRemoved
