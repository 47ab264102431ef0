SPECIFICATION Spec
CONSTANTS
  m = m  repo = repo  d1 = d1  d2 = d2
  k1 = k1  k2 = k2  k3 = k3
  NoMatch = NoMatch
  NoSubject = NoSubject
  EventId <- OneToThree
  Key = {k1, k2}
  Subject = {m}
  Partition = {1}
  KeyOf <- FinalKeyOf
  SubjectOf <- FinalSubjectOf
  PartitionOf <- LivePartitionOf
  InfoOf <- FinalInfoOf
  DemoSubject = {}
  BatchSize = 2
  MaxEvents = 2
  MaxFaults = 3
  MaxPasses = 2
INVARIANT ProjectionCoversHistory
CHECK_DEADLOCK FALSE
