SPECIFICATION MCSpec
CONSTANTS
  MaxEvents = 4
  MaxAttempts = 3
INVARIANT OneRowPerTurn
INVARIANT CompleteRowIsComplete
INVARIANT AbortedRowIsPrefix
INVARIANT CheckedOnce
INVARIANT UnsafeOnce
INVARIANT OneBody
INVARIANT AllClosed
PROPERTY TurnEnds
