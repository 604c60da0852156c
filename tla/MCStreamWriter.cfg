SPECIFICATION Spec
CONSTANTS
    t1 = t1
    t2 = t2
    Writers <- MCWriters
    MaxWrites = 2
INVARIANTS
    OneWriteInFlight
    NoWriteAfterFailure
PROPERTIES
    DeliversInOrder
    QueueIsDrained
