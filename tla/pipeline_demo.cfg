SPECIFICATION FairSpec
CONSTANTS
  m = m  repo = repo  d1 = d1  d2 = d2
  k1 = k1  k2 = k2  k3 = k3
  NoMatch = NoMatch
  NoSubject = NoSubject
  EventId <- OneToThree
  Key = {k1, k2, k3}
  Subject = {d1, d2}
  Partition = {1}
  KeyOf <- DemoKeyOf
  SubjectOf <- DemoSubjectOf
  PartitionOf <- DemoPartitionOf
  InfoOf <- DemoInfoOf
  DemoSubject = {d1, d2}
  BatchSize = 2
  MaxEvents = 2
  MaxFaults = 2
  MaxPasses = 0

  
PROPERTY ImplementsFairTimeline
CHECK_DEADLOCK FALSE
