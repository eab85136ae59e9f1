SPECIFICATION Spec
CONSTANTS
  NRequests = 2
  Configurations <- MCConfigurations
  Asks <- MCAsks
  NSessions = 2
  Anonymous = {1}
  q1 = q1
  q2 = q2
  Questions <- MCQuestions
  Alike <- MCAlike
  SummaryThreshold = 1
  KeepRecent = 1
  MaxTurns = 2
  MaxStore = 1
  BucketSize = 1
  MaxFaults = 1
  NoText = NoText
INVARIANTS AnswersFollowQuestions
PROPERTIES ImplementsAnswers EveryRequestEnds
CHECK_DEADLOCK FALSE
