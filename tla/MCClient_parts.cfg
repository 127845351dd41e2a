SPECIFICATION ClientSpec
CONSTANTS
  None = None
  Null = Null
  Unread = Unread
  Asked = Asked
  NoToken = NoToken
  NoWorker = NoWorker
  NoCohort = NoCohort
  NoStatus = NoStatus
  Corrupt = Corrupt
  Callers = {1, 2}
  MaxTokens = 2
  MaxResets = 1
  MaxPages = 2
  MaxSelections = 1
  MaxEvents = 2
  RefreshLimit = 1
  Prereleases = {}
  MaxRelease = 2
  MaxStarts = 2
  MaxAttempts = 1
  MaxEndpoints = 2
  MaxFlows = 2
  MaxDisturbances = 1
  Workers = {1, 2, 3}
  MaxReloads = 2
  Fresh = 1
  MaxTime = 4
  MaxNotices = 2
  MaxRemovals = 1
  MaxTicks = 3
  Life = 3
  MaxDelay = 2
  WaitLimit = 2
  MaxRetries = 1
  Natives <- NativeWires
  MaxVersion = 1
  MaxSaves = 2
CHECK_DEADLOCK FALSE
INVARIANTS
  ClientTypeOK
  SessionEndCloses GateAgreesAndLeadsOn
  ReloadIsPrepared
  MealInputIsKept
  CheckerGoesOn
  AutoInstallsBounded UpdateGateOffersAWay
  RegisteredIsOnServer
  PagesTellTheTruth
PROPERTIES
  DeliveredForThisIdentity NoNeedlessBootstrap
  NeverOlder
  ShownByThisPage
  MandatoryStaysShut
  RecordGivenUpAfterRemoval DisconnectReportIsTrue AnswerIsForTheLastTest
