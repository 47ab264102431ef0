SPECIFICATION Spec
CONSTANTS
  m = m  repo = repo  d1 = d1  d2 = d2
  k1 = k1  k2 = k2  k3 = k3
  NoMatch = NoMatch
  NoSubject = NoSubject
  EventId <- OneToThree
  Key = {k1, k2}
  Subject = {m, repo}
  Partition = {1, 2}
  KeyOf <- MixedKeyOf
  SubjectOf <- MixedSubjectOf
  PartitionOf <- MixedPartitionOf
  InfoOf <- MixedInfoOf
  DemoSubject = {}
  BatchSize = 2
  MaxEvents = 2
  MaxFaults = 3
  MaxPasses = 1
INVARIANTS
  IInv
  TypeOK
  NoLostEvent
  ShownAtMostOnce
  TimelineIsProcessed
  RetiredWereShown
PROPERTY ImplementsTimeline
CHECK_DEADLOCK FALSE
