SPECIFICATION MCSpec
CONSTANTS
  Connects = {c1, c2}
  pub = pub
  priv = priv
  Answers <- MCAnswers
  Private <- MCPrivate
  Reloads = {TRUE}
  Limit = 1
  MaxRace = 1
  Threshold = 2
  Window = 0
  Block = 2
  PositiveTtl = 1
  NegativeTtl = 1
  FallbackTtl = 1
  None = None
INVARIANTS InflightIsExact BlockIsEarned RaceIsRunning AnswersAreTaken
PROPERTIES StaleAnswersDie
