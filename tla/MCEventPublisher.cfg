\* One aggregate with a healthy and a poisoned event and two calls that may
\* overlap; one processor with batches of two over up to four rows of one age,
\* any two of which a batch may hold.
SPECIFICATION PFairSpec
CONSTANTS
  Event = {e1, e2}
  Attempt = {1, 2}
  Worker = {w1}
  Poison = {e2}
  Stamp = {0}
  BatchLimit = 2
  MaxFaults = 1
  MaxRetry = 1
  Aggregate = {g1}
  Nobody = Nobody
INVARIANTS
  PTypeOK
  LostOnlyIfAddedMeanwhile
  SecondRowHasAReason
PROPERTIES
  EveryJobSettles
  HealthyEventsPublished
