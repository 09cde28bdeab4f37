SPECIFICATION Spec
CONSTANTS
  Kinds <- AllKinds
  Known <- KnownPairs
  Unbounded <- UnboundedAttrs
  Uncompared <- UncomparedBits
  Values = {0, 1}
  MaxSets = 2
INVARIANTS RoundTrip NothingInvented OwnMessagesValid
PROPERTIES SettersIndependent DiffExact
CHECK_DEADLOCK FALSE
