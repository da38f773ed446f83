SPECIFICATION LiveSpec
CONSTANTS
  Gens = 3
  Producers <- MCProducers
  Ring = 1
  Prebuffer = 1
  Minimums = {0, 2}
  MaxEpoch = 1
  Conditions = {"ended"}
  Requests = {1, 2}
  MaxRequests = 2
  MaxWaits = 1
INVARIANTS CutSeparates EndedIsSilent
PROPERTIES AdvanceCompletes WaitersReleased
CHECK_DEADLOCK FALSE
