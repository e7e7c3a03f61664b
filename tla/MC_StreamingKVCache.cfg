\* two sinks and six recent tokens; a turn needs at most six
SPECIFICATION Spec
CONSTANTS
  StartSize = 2
  RecentSize = 6
  MaxPrompt = 3
  MaxGenLen = 3
  MaxSeen = 24
INVARIANT SinksAndRecent
INVARIANT SpaceReserved
INVARIANT EvalKeepsAll
INVARIANT PortAgrees
INVARIANT QueriesAtTheirKeys
PROPERTY EvictsOnlyForSpace
CHECK_DEADLOCK FALSE
