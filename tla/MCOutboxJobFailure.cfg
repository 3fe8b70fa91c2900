\* The integration test's scenario: one worker, one send that fails.
SPECIFICATION Spec
CONSTANTS
  Event = {e1, e2}
  Attempt = {a1}
  Worker = {w1}
  Poison = {}
  Stamp = {0}
  BatchLimit = 2
  MaxFaults = 1
  MaxRetry = 2
INVARIANT FailedEventFailsJob
