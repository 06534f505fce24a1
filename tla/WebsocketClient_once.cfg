\* Responses, timeouts and the close race; callbacks send requests.
SPECIFICATION FairSpec
CONSTANTS
  MaxJobs = 4
  MaxTimeout = 2
  Chained = TRUE
INVARIANTS TypeOK WaitingIsHandled
PROPERTIES ResolvedOnce AllResolved
\* The client is closed and forgotten at last.
CHECK_DEADLOCK FALSE
