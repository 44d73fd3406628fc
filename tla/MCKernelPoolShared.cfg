SPECIFICATION Spec
CONSTANTS
  Keys = {k1, k2, k3}
  Workers = {w1, w2}
  MaxWorkers = 2
  NoWorker = NoWorker
SYMMETRY Symmetry
INVARIANT
  NamespaceIsOwn
