SPECIFICATION FairSpec
CONSTANTS
  Messages = {m1, m2}
  MaxResumes = 1
INVARIANTS
  LostOnlyWhenOvertaken
PROPERTIES
  EveryMessageIsRead
CHECK_DEADLOCK FALSE
