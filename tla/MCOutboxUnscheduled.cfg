\* One stored event, one worker, nothing that fails.
SPECIFICATION FairSpec
CONSTANTS
  Event = {e1}
  Attempt = {a1}
  Worker = {w1}
  Poison = {}
  Stamp = {0}
  BatchLimit = 1
  MaxFaults = 0
  MaxRetry = 1
PROPERTY StoredEventsAreSent
