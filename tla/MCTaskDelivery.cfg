SPECIFICATION FairSpec
CONSTANTS
  s1 = s1
  s2 = s2
  a1 = a1
  NoTask = NoTask
  Tasks <- MCTasks
  Agents <- MCAgents
INVARIANTS
  QueuedIsDrained
PROPERTIES
  ResultsAreSettledOnce
  SuppressedIsSkipped
  TerminalIsDecided
