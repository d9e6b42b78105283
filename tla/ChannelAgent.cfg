SPECIFICATION FairSpec
CONSTANT MaxRequests = 3
INVARIANTS PromiseSetOnce
PROPERTIES RequestReturns ImplementsService
CHECK_DEADLOCK FALSE
