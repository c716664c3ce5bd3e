\* Two invocations with every kind of request, one of which may be killed.
SPECIFICATION FairSpec
CONSTANTS
  Procs = {p1, p2}
  Requests <- MixedRequests
  Killable = {p1}
INVARIANTS
  TypeOK
  CommandsExclude
  StatusTruthful
  AlarmHasHandler
PROPERTIES
  ImplementsService
  TimedSleepEnds
  EveryoneEnds
\* Every invocation ends, and then nothing is left to do.
CHECK_DEADLOCK FALSE
