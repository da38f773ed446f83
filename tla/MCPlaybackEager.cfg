SPECIFICATION LiveSpec
CONSTANTS
  Gens = 3
  Producers <- EagerProducers
  Ring = 1
  Prebuffer = 1
  Minimums = {0}
  MaxEpoch = 1
  Conditions = {"ended"}
  Requests = {1, 2}
  MaxRequests = 2
  MaxWaits = 1
PROPERTIES AdvanceCompletes
CHECK_DEADLOCK FALSE
