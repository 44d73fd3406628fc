SPECIFICATION Spec
CONSTANTS
  a1 = a1
  a2 = a2
  s1 = s1
  NoTask = NoTask
  Tasks <- MCTasks
  Agents <- MCAgents
INVARIANT ChildEndWakesParent
