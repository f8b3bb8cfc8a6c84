CONSTANTS
  MaxEvents <- MCMaxEvents
  TCount <- MCTCount
  EventLimit <- MCEventLimit

SPECIFICATION FairSpec

INVARIANTS TypeOK FulfilledInOrder
PROPERTY EveryEventFulfilled

\* The loop ends when wait() fails.
CHECK_DEADLOCK FALSE
