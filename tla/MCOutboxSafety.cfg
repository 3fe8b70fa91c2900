\* Two instances, a healthy and a poisoned event of which a batch holds one, the
\* older if they differ in age.
SPECIFICATION Spec
CONSTANTS
  Event = {e1, e2}
  Attempt = {a1}
  Worker = {w1, w2}
  Poison = {e2}
  Stamp = {0, 1}
  BatchLimit = 1
  MaxFaults = 2
  MaxRetry = 3
SYMMETRY WorkerSymmetry
INVARIANTS
  TypeOK
  NoEventLost
  RetryCountSound
  DuplicatesBounded
PROPERTIES
  PublishedForGood
  RefusedRowsBlock
  ImplementsDelivery
