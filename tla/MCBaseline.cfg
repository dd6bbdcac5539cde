SPECIFICATION Spec
CONSTANTS
  t1 = t1
  Tuples = {t1}
  Interpreters = {}
  Grades <- MCGrades
  HoursPerDay = 1
  LastHour = 1
  LearningDays = 2
  LearnMinDays = 2
  NoisyPerDay = 1
  RedemoteAt = 2
  MaxWindow = 2
  MaxProposals = 2
  MaxBlocks = 2
  MaxCrashes = 1
  MaxCommands = 2
CHECK_DEADLOCK FALSE
INVARIANTS TypeOK DemotionEarned
PROPERTIES GraveNeverLearned RefusalStands
