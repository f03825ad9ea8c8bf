SPECIFICATION Spec
CONSTANTS
  N = 6
  Top = 1
  Ks = {1, 2}
  Threads = {1, 2, 4}
  ColLimits = {2, 3}
INVARIANTS HeapHoldsBest HostIsExact FullVocabularyScores PrefixesAreBest
