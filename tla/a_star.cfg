SPECIFICATION Spec
CONSTANTS
  Width = 3
  Height = 3
INVARIANTS StepsPossible NoCircle NothingMissed WayBack
PROPERTY Ends
CHECK_DEADLOCK FALSE
