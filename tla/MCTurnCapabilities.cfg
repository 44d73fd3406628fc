SPECIFICATION FairSpec
CONSTANTS
  f1 = f1
  w1 = w1
  w2 = w2
  w3 = w3
  fixer = fixer
  search = search
  NoTurn = NoTurn
  Turns = {k1, k2}
  Calls <- MCCalls
  Fixers <- MCFixers
  Caps <- MCCaps
  CapOf <- MCCapOf
  Limit <- MCLimit
INVARIANTS
  TurnBudget
PROPERTIES
  CallsAreLimited
  DetachedIsSettled
CHECK_DEADLOCK FALSE
