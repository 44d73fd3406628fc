SPECIFICATION Spec
CONSTANTS
  Keys = {k1, k2}
  Workers = {w1, w2, w3}
  MaxWorkers = 2
  NoWorker = NoWorker
SYMMETRY Symmetry
INVARIANTS
  SlotsAccounted
  ExclusiveUnlessTaken
  OthersAreSpared
