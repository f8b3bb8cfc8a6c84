CONSTANTS
  Byte = {a, b}
  MaxUnconsumed = 5

SPECIFICATION Spec

INVARIANTS TypeOK BoundedFootprint
PROPERTY ImplementsByteQueue
