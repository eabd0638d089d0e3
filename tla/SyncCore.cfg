\* Lost, late and repeated messages, two workers, a restart.
SPECIFICATION LiveSpec
CONSTANTS
  Uids = {pod}
  Workers = {w1, w2}
  Syncs = {periodic}
  MaxRetries = 2
  PartialLists = FALSE
  MaxChanges = 2
INVARIANTS TypeOK OnlyGhostsMarked GraphCatchesUp
PROPERTIES LiveVertexStays GhostsDisappear
