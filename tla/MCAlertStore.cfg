\* Four rotations, a chain over three alerts, room to carry two, crashes.
SPECIFICATION Spec
CONSTANTS
  LastAlert = 3
  Kinds <- MCKinds
  MaxLines = 3
  CarryMax = 2
  LastWrite = 6
  MaxMarks = 2
CHECK_DEADLOCK FALSE
INVARIANTS CacheIsDisk MembersHoldTheStory RotationIsUnseen CarriedIsWhole WantedFirst
