SPECIFICATION FairSpec
CONSTANTS
  CorpusJob <- MCOneCorpusJob
  EvalJob <- MCEvalJob
  NoJob = NoJob
  Search = {s1, s2}
  MaxQueued = 1
  CorpusKind <- MCTwoCorpusKinds
  ClockStepsBack = FALSE
  MaxTime = 0
INVARIANTS
  OneJobExecutes
  WritersExcludeSearches
  BarrierMatchesTurn
  AdmissionFits
  KindsMatchTickets
  NoLostWakeup
  NoDuplicateQuick
PROPERTIES
  CancelledStaysCancelled
  EveryJobSettles
