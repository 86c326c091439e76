CONSTANTS
  Prompts <- ThreePrompts
  View = 2
  Threshold = 1
  Band = 2
  Older = 2
  MaxBelow = 4
  Opened <- TwoChats
SPECIFICATION OpeningSpec
CHECK_DEADLOCK FALSE
INVARIANTS OpensAtTheEnd
