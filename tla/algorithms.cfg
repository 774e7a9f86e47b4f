SPECIFICATION Spec
CONSTANTS
  EchoLines = 3
  MaxLines = 3
  LastDay <- CycleDays
  Moments <- Boundaries
  MaxAge = 1
  Bytes = {"V", "%", " "}
  Blank = " "
  Prompt <- ShortPrompt
  Kept = 4
  MaxStream = 6
  MaxLog = 8
  Words <- CommandWords
  Numbers = {"5"}
  Objects = {"health"}
  Probes = {"health", "logs"}
  Tools = {"xsct", "dtc"}
  MaxWords = 4
INVARIANTS
  OutputIsWhatIsShown
  ErrorsAreComplete
  FailureIsReported
  EchoIsTaken
  TimesAreExact
  PromptIsExact
  FollowMissesNothing
  LineMeansOneThing
CHECK_DEADLOCK FALSE
