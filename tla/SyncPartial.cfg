\* Two kinds of resources, one of which cannot be listed.
SPECIFICATION Spec
CONSTANTS
  Uids = {pod, deployment}
  Workers = {w1}
  Syncs = {periodic}
  MaxRetries = 1
  PartialLists = TRUE
  MaxChanges = 1
INVARIANTS OnlyGhostsMarked
SYMMETRY AnyUid
