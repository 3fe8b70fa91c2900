\* Two workers hold the same row and fail it.
SPECIFICATION Spec
CONSTANTS
  Event = {e1}
  Attempt = {a1}
  Worker = {w1, w2}
  Poison = {e1}
  Stamp = {0}
  BatchLimit = 1
  MaxFaults = 0
  MaxRetry = 3
INVARIANT EveryFailureCounted
