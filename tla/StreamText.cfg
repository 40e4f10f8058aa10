SPECIFICATION Spec
CONSTANTS
  Text <- MCText
  MaxPhrases = 3
  MaxHeld = 4
INVARIANTS
  ThinkingApart
  CallsFound
CHECK_DEADLOCK FALSE
