SPECIFICATION Spec
CONSTANTS
  m = m  repo = repo  d1 = d1  d2 = d2
  k1 = k1  k2 = k2  k3 = k3
  NoMatch = NoMatch
  NoSubject = NoSubject
  EventId <- OneToThree
  Key = {k1, k2, k3}
  Subject = {m}
  Partition = {1}
  KeyOf <- LiveKeyOf
  SubjectOf <- LiveSubjectOf
  PartitionOf <- LivePartitionOf
  InfoOf <- LiveInfoOf
  DemoSubject = {}
  BatchSize = 2
  MaxEvents = 2
  MaxFaults = 1
  MaxPasses = 0
INVARIANT ScoreAgreesWithHistory
CHECK_DEADLOCK FALSE
