------------------------ MODULE EventPipeline_proofs ------------------------
(***************************************************************************)
(* Proofs about EventPipeline, for every value of its constants: its        *)
(* invariants, and the refinement of DurableTimeline.                       *)
(***************************************************************************)
EXTENDS EventPipeline, MatchReducer_proofs

\* Appending to a sequence, entry by entry.
LEMMA AppendType ==
    ASSUME NEW T, NEW q \in Seq(T), NEW x \in T
    PROVE  /\ Append(q, x) \in Seq(T)
           /\ Len(Append(q, x)) = Len(q) + 1
           /\ DOMAIN q = 1 .. Len(q)
           /\ DOMAIN Append(q, x) = 1 .. (Len(q) + 1)
           /\ Len(q) \in Nat
           /\ \A i \in DOMAIN q : Append(q, x)[i] = q[i]
           /\ Append(q, x)[Len(q) + 1] = x
  OBVIOUS

-----------------------------------------------------------------------------
(* Type correctness                                                         *)

\* Every step keeps the variables in their types.
LEMMA TypeStep == TypeOK /\ [Next]_vars => TypeOK'
<1> SUFFICES ASSUME TypeOK, [Next]_vars PROVE TypeOK'
  OBVIOUS
<1> USE ConstantsAssumption
<1> USE DEF TypeOK, eventVars, publisherVars, consumerVars, projectionVars,
            demoVars, ageVars, OutboxStates
<1>0. Fault => faults' \in 0 .. MaxFaults
  BY DEF Fault
<1>1. ASSUME NEW e \in EventId, PersistEventAndOutbox(e) PROVE TypeOK'
  BY <1>1 DEF PersistEventAndOutbox, MayObserve, ScenarioAfter
<1>2. ASSUME NEW e \in EventId, SuppressDuplicate(e) PROVE TypeOK'
  BY <1>2 DEF SuppressDuplicate, MayObserve, ScenarioAfter
<1>3. ASSUME NEW e \in EventId, IngestRollback(e) PROVE TypeOK'
  BY <1>3, <1>0 DEF IngestRollback, MayObserve
<1>4. ASSUME Claim PROVE TypeOK'
  BY <1>4 DEF Claim, Claimable, IsOldest
<1>5. ASSUME PublisherRestart PROVE TypeOK'
  BY <1>5, <1>0 DEF PublisherRestart
<1>6. ASSUME NEW e \in EventId, SendAcknowledged(e) PROVE TypeOK'
  <2>1. log' \in [Partition -> Seq(EventId)]
    BY <1>6, AppendType DEF SendAcknowledged, Home
  <2> QED BY <1>6, <2>1 DEF SendAcknowledged
<1>7. ASSUME NEW e \in EventId, SendUnacknowledged(e) PROVE TypeOK'
  <2>1. log' \in [Partition -> Seq(EventId)]
    BY <1>7, AppendType, ZenonT(60) DEF SendUnacknowledged, Home
  <2> QED BY <1>7, <1>0, <2>1 DEF SendUnacknowledged
<1>8. ASSUME NEW e \in EventId, SendFailed(e) PROVE TypeOK'
  BY <1>8, <1>0 DEF SendFailed
<1>9. ASSUME NEW e \in EventId, MarkPublished(e) PROVE TypeOK'
  BY <1>9 DEF MarkPublished, NextClaim
<1>10. ASSUME NEW e \in EventId, RecordFailure(e) PROVE TypeOK'
  BY <1>10 DEF RecordFailure, NextClaim
<1>11. ASSUME NEW e \in EventId, ClaimLapses(e) PROVE TypeOK'
  BY <1>11 DEF ClaimLapses
<1>12. ASSUME CommitOffsets PROVE TypeOK'
  BY <1>12 DEF CommitOffsets
<1>13. ASSUME ProjectorRestart PROVE TypeOK'
  BY <1>13, <1>0 DEF ProjectorRestart
<1>14. ASSUME NEW p \in Partition, Fetch(p) PROVE TypeOK'
  <2>1. position' \in [Partition -> Nat]
    BY <1>14 DEF Fetch
  <2> QED BY <1>14, <2>1 DEF Fetch
<1>15. ASSUME NEW p \in Partition, SkipRecord(p) PROVE TypeOK'
  <2>1. done' \in [Partition -> Nat]
    BY <1>15, SMTT(30) DEF SkipRecord
  <2> QED BY <1>15, <2>1 DEF SkipRecord
<1>16. ASSUME NEW p \in Partition, ProjectRecord(p) PROVE TypeOK'
  <2> DEFINE e == Record(p)
             s == SubjectOf[e]
  <2>1. e \in canonical /\ e \in EventId /\ s \in Subject
    BY <1>16 DEF ProjectRecord
  <2>2. match' \in [Subject -> MatchRow \cup {NoMatch}]
    <3>1. InfoOf[e] \in EventInfo /\ match[s] \in MatchRow \cup {NoMatch}
      BY <2>1
    <3>2. reduce_match_state(match[s], e, InfoOf[e]) \in MatchRow
      BY <2>1, <3>1, ReducerType
    <3> QED BY <1>16, <2>1, <3>2 DEF ProjectRecord
  <2>3. /\ history' \in Seq(EventId)
        /\ timeline' \subseteq DOMAIN history'
    <3>1. history' = Append(history, e) /\ timeline' = timeline \cup {Len(history) + 1}
      BY <1>16 DEF ProjectRecord
    <3>2. history \in Seq(EventId) /\ timeline \subseteq DOMAIN history
      OBVIOUS
    <3> HIDE DEF TypeOK, e
    <3> QED BY <2>1, <3>1, <3>2, AppendType
  <2>4. done' \in [Partition -> Nat]
    BY <1>16, SMTT(30) DEF ProjectRecord
  <2>5. /\ processed' \subseteq canonical'
        /\ oldMatch' \subseteq Subject
    BY <1>16, <2>1 DEF ProjectRecord
  <2>6. UNCHANGED <<up, eventVars, outbox, publisherVars, log, committed,
                    position, demoVars, old, faults, passes>>
    BY <1>16 DEF ProjectRecord
  <2> HIDE DEF e, s
  <2> QED BY <2>2, <2>3, <2>4, <2>5, <2>6
<1>17. ASSUME BackendStop PROVE TypeOK'
  BY <1>17, <1>0 DEF BackendStop
<1>18. ASSUME BackendStart PROVE TypeOK'
  BY <1>18 DEF BackendStart
<1>19. ASSUME ResetDemo PROVE TypeOK'
  BY <1>19 DEF ResetDemo, DeleteCanonical
<1>20. ASSUME NEW s \in DemoSubject, StartDemo(s) PROVE TypeOK'
  BY <1>20 DEF StartDemo
<1>21. ASSUME ApplyRetention PROVE TypeOK'
  <2>1. passes' \in 0 .. MaxPasses
    BY <1>21, SMTT(30) DEF ApplyRetention
  <2>2. PICK S \in SUBSET Retirable :
            /\ retired' = retired \cup {KeyOf[e] : e \in S}
            /\ DeleteCanonical(S)
            /\ match' = [s \in Subject |->
                            IF s \in InactiveWith(S) THEN NoMatch ELSE match[s]]
            /\ oldMatch' = oldMatch \ InactiveWith(S)
    BY <1>21 DEF ApplyRetention
  <2>3. S \subseteq EventId
    BY <2>2 DEF Retirable
  <2>4. UNCHANGED <<up, seen, publisherVars, log, consumerVars, history,
                    demoVars, old, faults>>
    BY <1>21 DEF ApplyRetention
  <2>5. /\ canonical' \subseteq seen' /\ processed' \subseteq canonical'
        /\ timeline' \subseteq DOMAIN history'
        /\ outbox' \in [EventId -> OutboxStates]
    BY <2>2, <2>4 DEF DeleteCanonical
  <2>6. /\ retired' \subseteq Key
        /\ match' \in [Subject -> MatchRow \cup {NoMatch}]
        /\ oldMatch' \subseteq Subject
    BY <2>2, <2>3, SMTT(30)
  <2> QED BY <2>1, <2>4, <2>5, <2>6
<1>22. ASSUME NEW e \in EventId, EventAges(e) PROVE TypeOK'
  BY <1>22 DEF EventAges
<1>23. ASSUME NEW s \in Subject, MatchAges(s) PROVE TypeOK'
  BY <1>23 DEF MatchAges
<1>24. CASE UNCHANGED vars
  BY <1>24 DEF vars
<1> QED
  BY <1>1, <1>2, <1>3, <1>4, <1>5, <1>6, <1>7, <1>8, <1>9, <1>10, <1>11,
     <1>12, <1>13, <1>14, <1>15, <1>16, <1>17, <1>18, <1>19, <1>20, <1>21,
     <1>22, <1>23, <1>24
     DEF Next, Ingest, Publisher, Projector, Backend, Demo, Retention

\* The variables always have their types: in particular no table holds a row
\* whose parent row in canonical_events is gone.
THEOREM TypeCorrect == Spec => []TypeOK
<1>1. Init => TypeOK
  BY ConstantsAssumption DEF Init, TypeOK, OutboxStates
<1> QED BY <1>1, TypeStep, PTL DEF Spec

-----------------------------------------------------------------------------
(* The inductive invariant                                                  *)

\* What a record appended for e does to the logs: the old records keep their
\* places, and the only new one is e's.
LEMMA LogGrows ==
    ASSUME TypeOK, NEW e \in EventId,
           log' = [log EXCEPT ![Home(e)] = Append(@, e)]
    PROVE  /\ \A p \in Partition :
                 /\ Len(log[p]) \in Nat /\ Len(log'[p]) \in Nat
                 /\ Len(log[p]) <= Len(log'[p])
                 /\ DOMAIN log[p] = 1 .. Len(log[p])
                 /\ DOMAIN log'[p] = 1 .. Len(log'[p])
                 /\ \A i \in DOMAIN log[p] : log'[p][i] = log[p][i]
                 /\ \A i \in DOMAIN log'[p] : i \in DOMAIN log[p] \/ log'[p][i] = e
           /\ Sent(e)'
           /\ \A f \in EventId : Sent(f) => Sent(f)'
<1> DEFINE h == Home(e)
<1>1. h \in Partition
  BY ConstantsAssumption DEF Home
<1>2. \A p \in Partition : log[p] \in Seq(EventId)
  BY DEF TypeOK
<1>3. log'[h] = Append(log[h], e) /\ \A p \in Partition : p # h => log'[p] = log[p]
  BY <1>1 DEF TypeOK
<1>4. \A p \in Partition :
         /\ Len(log[p]) \in Nat /\ Len(log'[p]) \in Nat
         /\ Len(log[p]) <= Len(log'[p])
         /\ DOMAIN log[p] = 1 .. Len(log[p])
         /\ DOMAIN log'[p] = 1 .. Len(log'[p])
         /\ \A i \in DOMAIN log[p] : log'[p][i] = log[p][i]
         /\ \A i \in DOMAIN log'[p] : i \in DOMAIN log[p] \/ log'[p][i] = e
  <2> TAKE p \in Partition
  <2> HIDE DEF h
  <2>1. CASE p = h
    BY <2>1, <1>2, <1>3, AppendType
  <2>2. CASE p # h
    BY <2>2, <1>2, <1>3
  <2> QED BY <2>1, <2>2
<1>5. Sent(e)'
  BY <1>1, <1>2, <1>3, AppendType DEF Sent, Home
<1>6. \A f \in EventId : Sent(f) => Sent(f)'
  <2> TAKE f \in EventId
  <2>1. Home(f) \in Partition
    BY ConstantsAssumption DEF Home
  <2> QED BY <1>4, <2>1 DEF Sent, Home
<1> QED BY <1>4, <1>5, <1>6

\* At most one row of the batch is the current one.
LEMMA CurrentUnique ==
    ASSUME TypeOK, NEW e \in EventId, NEW f \in EventId, IsCurrent(e), IsCurrent(f)
    PROVE  e = f
  BY ConstantsAssumption DEF IsCurrent, TypeOK

\* Deleting canonical rows with their cascade keeps the invariant, as long as
\* the deleted keys cannot be accepted again.
LEMMA DeleteKeeps ==
    ASSUME IInv, TypeOK', NEW S \in SUBSET canonical, DeleteCanonical(S),
           UNCHANGED <<seen, publisherVars, log, consumerVars, history>>,
           retired \subseteq retired',
           \A e \in S : IsDemo(e) \/ KeyOf[e] \in retired',
           \A e \in canonical \ S : KeyOf[e] \notin retired'
    PROVE  IInv'
<1> USE DEF publisherVars, consumerVars
<1>0. /\ canonical' = canonical \ S /\ processed' = processed \ S
      /\ outbox' = [e \in EventId |-> IF e \in S THEN "none" ELSE outbox[e]]
      /\ timeline' = {c \in timeline : history[c] \notin S}
  BY DEF DeleteCanonical
<1>1. KeysUnique'
  BY <1>0 DEF IInv, KeysUnique
<1>2. OutboxMatches'
  BY <1>0 DEF IInv, OutboxMatches
<1>3. OffsetsOrdered' /\ OnlySeen' /\ ShownAtMostOnce'
  BY DEF IInv, OffsetsOrdered, OnlySeen, ShownAtMostOnce
<1>4. Handled'
  BY <1>0 DEF IInv, Handled
<1>5. PublishedSent'
  BY <1>0 DEF IInv, PublishedSent, IsCurrent, Sent
<1>6. ShownIsRemembered'
  <2> SUFFICES ASSUME NEW c \in DOMAIN history
               PROVE  \/ history[c] \in processed'
                      \/ /\ history[c] \notin canonical'
                         /\ KeyOf[history[c]] \in retired' \/ IsDemo(history[c])
    BY DEF ShownIsRemembered
  <2>1. \/ history[c] \in processed
        \/ /\ history[c] \notin canonical
           /\ KeyOf[history[c]] \in retired \/ IsDemo(history[c])
    BY DEF IInv, ShownIsRemembered
  <2> QED BY <2>1, <1>0
<1>7. TimelineIsProcessed'
  BY <1>0 DEF IInv, TimelineIsProcessed
<1> QED BY <1>1, <1>2, <1>3, <1>4, <1>5, <1>6, <1>7 DEF IInv

\* A new observation: its id has left no trace, and its key is free.
LEMMA PersistKeeps ==
    ASSUME IInv, TypeOK', NEW e \in EventId, PersistEventAndOutbox(e)
    PROVE  IInv'
<1> USE DEF publisherVars, consumerVars, projectionVars
<1>0. /\ e \notin seen /\ seen' = seen \cup {e}
      /\ canonical' = canonical \cup {e}
      /\ outbox' = [outbox EXCEPT ![e] = "pending"]
      /\ UNCHANGED <<retired, pubPc, batch, log, committed, position, done,
                     processed, history, timeline>>
      /\ KeyOf[e] \notin retired /\ \A f \in canonical : KeyOf[f] # KeyOf[e]
  BY DEF PersistEventAndOutbox, MayObserve, IsDuplicate
<1>1. KeysUnique'
  BY <1>0 DEF IInv, KeysUnique
<1>2. OutboxMatches'
  BY <1>0 DEF IInv, OutboxMatches, TypeOK
<1>3. OffsetsOrdered' /\ OnlySeen' /\ ShownAtMostOnce' /\ TimelineIsProcessed'
  BY <1>0 DEF IInv, OffsetsOrdered, OnlySeen, ShownAtMostOnce, TimelineIsProcessed
<1>4. Handled'
  BY <1>0 DEF IInv, Handled, OnlySeen
<1>5. PublishedSent'
  BY <1>0 DEF IInv, PublishedSent, IsCurrent, Sent, TypeOK
<1>6. ShownIsRemembered'
  BY <1>0 DEF IInv, ShownIsRemembered, OnlySeen
<1> QED BY <1>1, <1>2, <1>3, <1>4, <1>5, <1>6 DEF IInv

\* A record reaches the broker while e is the current row, acknowledged or not.
LEMMA AppendKeeps ==
    ASSUME IInv, TypeOK', NEW e \in EventId, IsCurrent(e),
           log' = [log EXCEPT ![Home(e)] = Append(@, e)],
           UNCHANGED <<seen, canonical, retired, outbox, batch, committed,
                       position, done, processed, history, timeline>>
    PROVE  IInv'
<1>0. TypeOK /\ e \in seen
  BY DEF IInv, OnlySeen, IsCurrent
<1>1. KeysUnique' /\ OutboxMatches' /\ ShownIsRemembered' /\ TimelineIsProcessed'
         /\ ShownAtMostOnce'
  BY DEF IInv, KeysUnique, OutboxMatches, ShownIsRemembered,
         TimelineIsProcessed, ShownAtMostOnce
<1>2. OffsetsOrdered'
  BY <1>0, LogGrows DEF IInv, OffsetsOrdered, TypeOK
<1>3. OnlySeen'
  BY <1>0, LogGrows DEF IInv, OnlySeen
<1>4. Handled'
  <2> SUFFICES ASSUME NEW p \in Partition, NEW i \in DOMAIN log'[p],
                      i <= done[p], log'[p][i] \in canonical
               PROVE  log'[p][i] \in processed
    BY DEF Handled
  <2>1. i \in DOMAIN log[p]
    BY <1>0, LogGrows DEF IInv, OffsetsOrdered, TypeOK
  <2> QED BY <2>1, <1>0, LogGrows DEF IInv, Handled
<1>5. PublishedSent'
  <2> SUFFICES ASSUME NEW f \in EventId, outbox[f] = "published" \/ IsCurrent(f)
               PROVE  Sent(f)'
    BY DEF PublishedSent, IsCurrent
  <2>1. CASE outbox[f] = "published"
    BY <2>1, <1>0, LogGrows DEF IInv, PublishedSent
  <2>2. CASE IsCurrent(f)
    BY <2>2, <1>0, LogGrows, CurrentUnique
  <2> QED BY <2>1, <2>2
<1> QED BY <1>1, <1>2, <1>3, <1>4, <1>5 DEF IInv

\* The projection of the next record of p: its key was never shown before.
LEMMA ProjectKeeps ==
    ASSUME IInv, TypeOK', NEW p \in Partition, ProjectRecord(p)
    PROVE  IInv'
<1> DEFINE e == Record(p)
<1> USE DEF eventVars, publisherVars
<1>0. /\ e \in canonical \ processed /\ e \in EventId
      /\ done[p] < position[p]
      /\ done' = [done EXCEPT ![p] = @ + 1]
      /\ processed' = processed \cup {e}
      /\ history' = Append(history, e)
      /\ timeline' = timeline \cup {Len(history) + 1}
      /\ UNCHANGED <<seen, canonical, retired, outbox, pubPc, batch, log,
                     committed, position>>
  BY DEF ProjectRecord, IInv, TypeOK
<1>t. TypeOK /\ history \in Seq(EventId) /\ timeline \subseteq DOMAIN history
  BY DEF IInv, TypeOK
<1>h. /\ Len(history) \in Nat
      /\ DOMAIN history = 1 .. Len(history)
      /\ DOMAIN history' = 1 .. (Len(history) + 1)
      /\ \A c \in DOMAIN history : history'[c] = history[c]
      /\ history'[Len(history) + 1] = e
  <2> HIDE DEF e
  <2> QED BY <1>0, <1>t, AppendType
<1>1. KeysUnique' /\ OutboxMatches'
  BY <1>0 DEF IInv, KeysUnique, OutboxMatches
<1>2. OffsetsOrdered'
  <2>1. done'[p] = done[p] + 1 /\ done[p] \in Nat /\ position[p] \in Nat
           /\ committed[p] \in Nat
    BY <1>0, <1>t DEF TypeOK
  <2>2. \A q \in Partition : q # p => done'[q] = done[q]
    BY <1>0, <1>t DEF TypeOK
  <2> QED BY <1>0, <2>1, <2>2 DEF IInv, OffsetsOrdered
<1>3. OnlySeen'
  <2>1. e \in seen
    BY <1>0, <1>t DEF TypeOK
  <2> HIDE DEF e
  <2> QED BY <1>0, <1>h, <2>1 DEF IInv, OnlySeen
<1>4. Handled'
  <2> SUFFICES ASSUME NEW q \in Partition, NEW i \in DOMAIN log[q],
                      i <= done'[q], log[q][i] \in canonical
               PROVE  log[q][i] \in processed'
    BY <1>0 DEF Handled
  <2>1. CASE i <= done[q]
    BY <2>1, <1>0 DEF IInv, Handled
  <2>2. CASE ~(i <= done[q])
    <3>0. done[q] \in Nat /\ log[q] \in Seq(EventId)
      BY <1>t DEF TypeOK
    <3>1. i \in Nat
      BY <3>0
    <3>2. q = p /\ i = done[p] + 1
      BY <2>2, <3>0, <3>1, <1>0, <1>t DEF TypeOK
    <3> QED BY <3>2, <1>0 DEF Record
  <2> QED BY <2>1, <2>2
<1>5. PublishedSent'
  BY <1>0 DEF IInv, PublishedSent, IsCurrent, Sent
<1>6. ShownIsRemembered'
  <2> HIDE DEF e
  <2> QED BY <1>0, <1>h DEF IInv, ShownIsRemembered
<1>7. TimelineIsProcessed'
  <2>1. {history[c] : c \in timeline} = processed
    BY DEF IInv, TimelineIsProcessed
  <2> HIDE DEF e
  <2> QED BY <1>0, <1>h, <1>t, <2>1 DEF TimelineIsProcessed
<1>8. ShownAtMostOnce'
  <2>1. \A c \in DOMAIN history : KeyOf[history[c]] # KeyOf[e]
    <3> SUFFICES ASSUME NEW c \in DOMAIN history, KeyOf[history[c]] = KeyOf[e]
                 PROVE  FALSE
      OBVIOUS
    <3>1. history[c] \in EventId
      BY <1>t
    <3>2. CASE history[c] \in processed
      <4>1. history[c] \in canonical /\ e \in canonical /\ e \notin processed
        BY <3>2, <1>0, <1>t DEF TypeOK
      <4>2. \A f, g \in canonical : KeyOf[f] = KeyOf[g] => f = g
        BY DEF IInv, KeysUnique
      <4> HIDE DEF e
      <4> QED BY <3>2, <4>1, <4>2
    <3>3. CASE /\ history[c] \notin canonical
               /\ KeyOf[history[c]] \in retired \/ IsDemo(history[c])
      BY <3>1, <3>3, <1>0, ConstantsAssumption DEF IInv, KeysUnique, IsDemo
    <3> QED BY <3>2, <3>3 DEF IInv, ShownIsRemembered
  <2> HIDE DEF e
  <2> QED BY <2>1, <1>0, <1>h DEF IInv, ShownAtMostOnce
<1> QED BY <1>1, <1>2, <1>3, <1>4, <1>5, <1>6, <1>7, <1>8 DEF IInv

\* The invariant is inductive.
LEMMA InvariantStep == IInv /\ [Next]_vars => IInv'
<1> SUFFICES ASSUME IInv, [Next]_vars PROVE IInv'
  OBVIOUS
<1> USE DEF eventVars, publisherVars, consumerVars, projectionVars
<1>t. TypeOK /\ TypeOK'
  BY TypeStep DEF IInv
<1>q. \A p \in Partition : /\ log[p] \in Seq(EventId)
                           /\ committed[p] \in Nat
                           /\ done[p] \in Nat
                           /\ position[p] \in Nat
  BY <1>t DEF TypeOK
<1>1. ASSUME NEW e \in EventId, PersistEventAndOutbox(e) PROVE IInv'
  BY <1>1, <1>t, PersistKeeps
<1>2. ASSUME seen \subseteq seen',
             UNCHANGED <<canonical, retired, outbox, publisherVars, log,
                         consumerVars, processed, history, timeline>>
      PROVE  IInv'
  BY <1>2, <1>t
     DEF IInv, KeysUnique, OutboxMatches, OffsetsOrdered, OnlySeen, Handled,
         PublishedSent, IsCurrent, Sent, ShownIsRemembered,
         TimelineIsProcessed, ShownAtMostOnce
<1>3. ASSUME UNCHANGED <<eventVars, log, consumerVars, processed, history,
                         timeline>>,
             \A f \in EventId : outbox'[f] # "none" <=> outbox[f] # "none",
             \A f \in EventId : outbox'[f] = "published" => Sent(f),
             batch' \subseteq seen,
             pubPc' # "acked"
      PROVE  IInv'
  BY <1>3, <1>t
     DEF IInv, KeysUnique, OutboxMatches, OffsetsOrdered, OnlySeen, Handled,
         PublishedSent, Sent, ShownIsRemembered, TimelineIsProcessed,
         ShownAtMostOnce
<1>4. ASSUME UNCHANGED <<eventVars, outbox, publisherVars, log, processed,
                         history, timeline>>,
             OffsetsOrdered', Handled'
      PROVE  IInv'
  BY <1>4, <1>t
     DEF IInv, KeysUnique, OutboxMatches, OnlySeen, PublishedSent, IsCurrent,
         Sent, ShownIsRemembered, TimelineIsProcessed, ShownAtMostOnce
<1>5. ASSUME NEW e \in EventId, SuppressDuplicate(e) \/ IngestRollback(e)
      PROVE  IInv'
  BY <1>5, <1>2 DEF SuppressDuplicate, IngestRollback
<1>6. ASSUME Claim PROVE IInv'
  <2>1. PICK S \in SUBSET Claimable :
            /\ batch' = S
            /\ outbox' = [e \in EventId |-> IF e \in S THEN "claimed" ELSE outbox[e]]
    BY <1>6 DEF Claim
  <2>2. S \subseteq seen /\ \A f \in S : outbox[f] # "none"
    BY <1>t, <2>1 DEF Claimable, IInv, OutboxMatches, TypeOK
  <2>3. \A f \in EventId : /\ outbox'[f] # "none" <=> outbox[f] # "none"
                           /\ outbox'[f] = "published" => Sent(f)
    BY <2>1, <2>2 DEF IInv, PublishedSent
  <2>4. UNCHANGED <<eventVars, log, consumerVars, processed, history, timeline>>
           /\ pubPc' # "acked"
    BY <1>6 DEF Claim
  <2> QED BY <1>3, <2>1, <2>2, <2>3, <2>4
<1>7. ASSUME PublisherRestart PROVE IInv'
  BY <1>7, <1>3 DEF PublisherRestart, IInv, PublishedSent
<1>8. ASSUME NEW e \in EventId, SendAcknowledged(e) \/ SendUnacknowledged(e)
      PROVE  IInv'
  BY <1>8, <1>t, AppendKeeps DEF SendAcknowledged, SendUnacknowledged
<1>9. ASSUME NEW e \in EventId, SendFailed(e) PROVE IInv'
  BY <1>9, <1>3 DEF SendFailed, IInv, PublishedSent, OnlySeen
<1>10. ASSUME NEW e \in EventId, MarkPublished(e) PROVE IInv'
  <2>1. Sent(e)
    BY <1>10 DEF MarkPublished, IInv, PublishedSent
  <2>2. \A f \in EventId : /\ outbox'[f] # "none" <=> outbox[f] # "none"
                           /\ outbox'[f] = "published" => Sent(f)
    BY <1>10, <1>t, <2>1 DEF MarkPublished, IInv, PublishedSent, TypeOK
  <2>3. batch' \subseteq seen /\ pubPc' # "acked"
    BY <1>10 DEF MarkPublished, NextClaim, IInv, OnlySeen
  <2> QED BY <1>10, <1>3, <2>2, <2>3 DEF MarkPublished
<1>11. ASSUME NEW e \in EventId, RecordFailure(e) PROVE IInv'
  <2>1. \A f \in EventId : /\ outbox'[f] # "none" <=> outbox[f] # "none"
                           /\ outbox'[f] = "published" => Sent(f)
    BY <1>11, <1>t DEF RecordFailure, IInv, PublishedSent, TypeOK
  <2>2. batch' \subseteq seen /\ pubPc' # "acked"
    BY <1>11 DEF RecordFailure, NextClaim, IInv, OnlySeen
  <2> QED BY <1>11, <1>3, <2>1, <2>2 DEF RecordFailure
<1>12. ASSUME NEW e \in EventId, ClaimLapses(e) PROVE IInv'
  <2>0. /\ outbox[e] = "claimed"
        /\ outbox' = [outbox EXCEPT ![e] = "lapsed"]
        /\ outbox \in [EventId -> OutboxStates]
        /\ UNCHANGED <<eventVars, publisherVars, log, consumerVars, processed,
                       history, timeline>>
    BY <1>12, <1>t DEF ClaimLapses, TypeOK
  <2>1. OutboxMatches'
    BY <2>0 DEF IInv, OutboxMatches
  <2>2. PublishedSent'
    BY <2>0 DEF IInv, PublishedSent, IsCurrent, Sent
  <2> QED
    BY <2>0, <2>1, <2>2, <1>t
       DEF IInv, KeysUnique, OffsetsOrdered, OnlySeen, Handled,
           ShownIsRemembered, TimelineIsProcessed, ShownAtMostOnce
<1>13. ASSUME NEW p \in Partition, Fetch(p) PROVE IInv'
  <2>1. PICK n \in (position[p] + 1) .. Len(log[p]) :
           position' = [position EXCEPT ![p] = n]
    BY <1>13 DEF Fetch
  <2>2. OffsetsOrdered'
    BY <1>13, <1>q, <1>t, <2>1 DEF Fetch, IInv, OffsetsOrdered, TypeOK
  <2>3. Handled'
    BY <1>13 DEF Fetch, IInv, Handled
  <2> QED BY <1>13, <1>4, <2>2, <2>3 DEF Fetch
<1>14. ASSUME NEW p \in Partition, SkipRecord(p) PROVE IInv'
  <2>1. /\ done'[p] = done[p] + 1
        /\ \A q \in Partition : q # p => done'[q] = done[q]
    BY <1>14, <1>t DEF SkipRecord, TypeOK
  <2>2. OffsetsOrdered'
    BY <1>14, <1>q, <2>1 DEF SkipRecord, IInv, OffsetsOrdered
  <2>3. Handled'
    <3> SUFFICES ASSUME NEW q \in Partition, NEW i \in DOMAIN log[q],
                        i <= done'[q], log[q][i] \in canonical
                 PROVE  log[q][i] \in processed
      BY <1>14 DEF Handled, SkipRecord
    <3>1. CASE i <= done[q]
      BY <3>1 DEF IInv, Handled
    <3>2. CASE ~(i <= done[q])
      <4>1. q = p /\ i = done[p] + 1
        BY <3>2, <2>1, <1>q
      <4> QED BY <4>1, <1>14 DEF SkipRecord, Record
    <3> QED BY <3>1, <3>2
  <2> QED BY <1>14, <1>4, <2>2, <2>3 DEF SkipRecord
<1>15. ASSUME NEW p \in Partition, ProjectRecord(p) PROVE IInv'
  BY <1>15, <1>t, ProjectKeeps
<1>16. ASSUME CommitOffsets PROVE IInv'
  <2>1. OffsetsOrdered'
    BY <1>16, <1>q DEF CommitOffsets, IInv, OffsetsOrdered
  <2>2. Handled'
    BY <1>16 DEF CommitOffsets, IInv, Handled
  <2> QED BY <1>16, <1>4, <2>1, <2>2 DEF CommitOffsets
\* A restart goes back to the committed offsets, which are not beyond done.
<1>17. ASSUME position' = committed, done' = committed,
              UNCHANGED <<log, canonical, processed, committed>>
       PROVE  OffsetsOrdered' /\ Handled'
  <2>1. OffsetsOrdered'
    BY <1>17, <1>q DEF IInv, OffsetsOrdered
  <2>2. \A p \in Partition : \A i \in DOMAIN log[p] :
           i <= committed[p] => i <= done[p]
    BY <1>q DEF IInv, OffsetsOrdered
  <2>3. Handled'
    BY <1>17, <2>2 DEF IInv, Handled
  <2> QED BY <2>1, <2>3
<1>18. ASSUME ProjectorRestart PROVE IInv'
  BY <1>18, <1>17, <1>4 DEF ProjectorRestart
<1>19. ASSUME BackendStop PROVE IInv'
  <2>1. OffsetsOrdered' /\ Handled'
    BY <1>19, <1>17 DEF BackendStop
  <2> QED
    BY <1>19, <1>t, <2>1
       DEF BackendStop, IInv, KeysUnique, OutboxMatches, OnlySeen,
           PublishedSent, Sent, ShownIsRemembered, TimelineIsProcessed,
           ShownAtMostOnce
<1>20. ASSUME \/ BackendStart
              \/ \E s \in DemoSubject : StartDemo(s)
              \/ \E e \in EventId : EventAges(e)
              \/ \E s \in Subject : MatchAges(s)
       PROVE  IInv'
  BY <1>20, <1>2 DEF BackendStart, StartDemo, EventAges, MatchAges
<1>21. ASSUME ResetDemo PROVE IInv'
  BY <1>21, <1>t, DeleteKeeps DEF ResetDemo, IInv, KeysUnique
<1>22. ASSUME ApplyRetention PROVE IInv'
  <2>1. PICK S \in SUBSET Retirable :
           /\ retired' = retired \cup {KeyOf[e] : e \in S}
           /\ DeleteCanonical(S)
    BY <1>22 DEF ApplyRetention
  <2>2. S \subseteq canonical
    BY <2>1 DEF Retirable
  <2>3. \A e \in canonical \ S : KeyOf[e] \notin retired'
    BY <2>1, <2>2 DEF IInv, KeysUnique
  <2> QED BY <1>22, <1>t, <2>1, <2>2, <2>3, DeleteKeeps DEF ApplyRetention
<1>23. CASE UNCHANGED vars
  BY <1>23, <1>2 DEF vars
<1> QED
  BY <1>1, <1>5, <1>6, <1>7, <1>8, <1>9, <1>10, <1>11, <1>12, <1>13, <1>14,
     <1>15, <1>16, <1>18, <1>19, <1>20, <1>21, <1>22, <1>23
     DEF Next, Ingest, Publisher, Projector, Backend, Demo, Retention

\* The tables are empty when the system is installed.
LEMMA InvariantInit == Init => IInv
<1> SUFFICES ASSUME Init PROVE IInv
  OBVIOUS
<1>1. TypeOK
  BY ConstantsAssumption DEF Init, TypeOK, OutboxStates
<1>2. KeysUnique /\ OutboxMatches /\ OffsetsOrdered /\ OnlySeen /\ Handled
  BY DEF Init, KeysUnique, OutboxMatches, OffsetsOrdered, OnlySeen, Handled
<1>3. PublishedSent /\ ShownIsRemembered /\ TimelineIsProcessed /\ ShownAtMostOnce
  BY DEF Init, PublishedSent, ShownIsRemembered, TimelineIsProcessed,
         ShownAtMostOnce
<1> QED BY <1>1, <1>2, <1>3 DEF IInv

-----------------------------------------------------------------------------
(* The safety theorems                                                      *)

\* The inductive invariant holds in every reachable state.
THEOREM Invariant == Spec => []IInv
  BY InvariantInit, InvariantStep, PTL DEF Spec

\* No committed event disappears, whatever the publisher, the projector, the
\* broker and the backend process go through: it is due for publication, or a
\* copy of it is in the log beyond the committed offset.
THEOREM EventsAreNotLost == Spec => []NoLostEvent
<1>1. IInv => NoLostEvent
  <2> SUFFICES ASSUME IInv, NEW e \in canonical \ processed,
                      outbox[e] \notin {"pending", "claimed", "lapsed"}
               PROVE  \E i \in DOMAIN log[Home(e)] :
                         i > committed[Home(e)] /\ log[Home(e)][i] = e
    BY DEF NoLostEvent
  <2> DEFINE p == Home(e)
  <2>1. e \in EventId /\ p \in Partition
    BY ConstantsAssumption DEF IInv, TypeOK, Home
  <2>2. outbox[e] = "published"
    BY <2>1 DEF IInv, OutboxMatches, TypeOK, OutboxStates
  <2>3. PICK i \in DOMAIN log[p] : log[p][i] = e
    BY <2>1, <2>2 DEF IInv, PublishedSent, Sent
  <2>4. ~(i <= done[p])
    BY <2>1, <2>3 DEF IInv, Handled
  <2>5. log[p] \in Seq(EventId) /\ done[p] \in Nat /\ committed[p] \in Nat
           /\ committed[p] <= done[p]
    BY <2>1 DEF IInv, TypeOK, OffsetsOrdered
  <2>6. i \in Nat
    BY <2>5
  <2> QED BY <2>3, <2>4, <2>5, <2>6
<1> QED BY <1>1, Invariant, PTL

\* A fact is shown at most once, through redelivery, re-observation, resets and
\* retention.
THEOREM FactsAreShownOnce == Spec => []ShownAtMostOnce
<1>1. IInv => ShownAtMostOnce
  BY DEF IInv
<1> QED BY <1>1, Invariant, PTL

\* The timeline and the idempotency rows agree in every reachable state.
THEOREM TimelineAgrees == Spec => []TimelineIsProcessed
<1>1. IInv => TimelineIsProcessed
  BY DEF IInv
<1> QED BY <1>1, Invariant, PTL

\* Retention never tombstones a fact that was not shown.
THEOREM RetentionKeepsPendingWork == Spec => []RetiredWereShown
<1>1. Init => RetiredWereShown
  BY DEF Init, RetiredWereShown
<1>2. RetiredWereShown /\ IInv /\ [Next]_vars => RetiredWereShown'
  <2> SUFFICES ASSUME RetiredWereShown, IInv, [Next]_vars
               PROVE  RetiredWereShown'
    OBVIOUS
  <2> USE DEF eventVars, projectionVars
  <2>1. ASSUME UNCHANGED <<retired, history>> PROVE RetiredWereShown'
    BY <2>1 DEF RetiredWereShown
  <2>2. ASSUME NEW p \in Partition, ProjectRecord(p) PROVE RetiredWereShown'
    <3> DEFINE e == Record(p)
    <3>1. e \in EventId /\ history' = Append(history, e) /\ retired' = retired
      BY <2>2 DEF ProjectRecord, IInv, TypeOK
    <3>2. history \in Seq(EventId)
      BY DEF IInv, TypeOK
    <3> HIDE DEF e
    <3>3. \A c \in DOMAIN history : c \in DOMAIN history' /\ history'[c] = history[c]
      BY <3>1, <3>2, AppendType
    <3> QED BY <3>1, <3>3 DEF RetiredWereShown
  <2>3. ASSUME ApplyRetention PROVE RetiredWereShown'
    <3>1. PICK S \in SUBSET Retirable :
             retired' = retired \cup {KeyOf[e] : e \in S}
      BY <2>3 DEF ApplyRetention
    <3>2. \A e \in S : \E c \in DOMAIN history : history[c] = e
      BY <3>1 DEF Retirable, IInv, TimelineIsProcessed, TypeOK
    <3>3. history' = history
      BY <2>3 DEF ApplyRetention
    <3> QED BY <3>1, <3>2, <3>3 DEF RetiredWereShown
  <2>4. \/ UNCHANGED <<retired, history>>
        \/ \E p \in Partition : ProjectRecord(p)
        \/ ApplyRetention
    BY DEF vars, Next, Ingest, Publisher, Projector, Backend, Demo, Retention,
           PersistEventAndOutbox, SuppressDuplicate, IngestRollback, Claim,
           PublisherRestart, SendAcknowledged, SendUnacknowledged, SendFailed,
           MarkPublished, RecordFailure, ClaimLapses, CommitOffsets,
           ProjectorRestart, Fetch, SkipRecord, BackendStop, BackendStart,
           ResetDemo, StartDemo, EventAges, MatchAges
  <2> QED BY <2>1, <2>2, <2>3, <2>4
<1> QED BY <1>1, <1>2, Invariant, PTL DEF Spec

-----------------------------------------------------------------------------
(* The match projection: what the reducer preserves, and that a match row    *)
(* covers the history projected for it.                                      *)

\* The row is as new as version v, or final.
Covers(row, v) ==
    /\ row # NoMatch
    /\ row.version >= v \/ row.status = "fulltime"

\* The reducer never takes a row back behind a version that it covered, and
\* covers the event it was given.
LEMMA ReducerCovers ==
    ASSUME NEW cur \in MatchRow \cup {NoMatch}, NEW e \in EventId,
           NEW info \in EventInfo
    PROVE  /\ Covers(reduce_match_state(cur, e, info), info.version)
           /\ \A v \in Nat : Covers(cur, v)
                 => Covers(reduce_match_state(cur, e, info), v)
<1>1. info.version \in Nat /\ (cur # NoMatch => cur.version \in Nat)
  BY DEF EventInfo, MatchRow
<1>2. CASE Advances(cur, info)
  <2>1. Reduced(cur, e, info) \in MatchRow
    BY <1>2, ReducerType DEF reduce_match_state
  <2>2. Reduced(cur, e, info) # NoMatch
    BY <2>1, NoMatchAssumption
  <2>3. cur = NoMatch \/ info.version > cur.version
    BY <1>2 DEF Advances
  <2> QED BY <1>1, <1>2, <2>2, <2>3, ReducedRow DEF Covers, reduce_match_state
<1>3. CASE ~Advances(cur, info)
  BY <1>1, <1>3 DEF Covers, reduce_match_state, Advances
<1> QED BY <1>2, <1>3

\* One step keeps every match row as new as the history projected for it.
LEMMA CoverageStep ==
    ProjectionCoversHistory /\ IInv /\ [Next]_vars => ProjectionCoversHistory'
<1> SUFFICES ASSUME ProjectionCoversHistory, IInv, [Next]_vars
             PROVE  ProjectionCoversHistory'
  OBVIOUS
<1> USE DEF eventVars, projectionVars
<1>t. /\ processed \subseteq EventId /\ processed \subseteq canonical
      /\ match \in [Subject -> MatchRow \cup {NoMatch}]
      /\ SubjectOf \in [EventId -> Subject] /\ InfoOf \in [EventId -> EventInfo]
  BY ConstantsAssumption DEF IInv, TypeOK
<1>1. ASSUME UNCHANGED <<processed, match>> PROVE ProjectionCoversHistory'
  BY <1>1 DEF ProjectionCoversHistory
<1>2. ASSUME NEW p \in Partition, ProjectRecord(p) PROVE ProjectionCoversHistory'
  <2> DEFINE e == Record(p)
             s == SubjectOf[e]
             new == reduce_match_state(match[s], e, InfoOf[e])
  <2>1. /\ e \in EventId /\ processed' = processed \cup {e}
        /\ IsFootball(e) => match' = [match EXCEPT ![s] = new]
        /\ ~IsFootball(e) => match' = match
    BY <1>2 DEF ProjectRecord, IInv, TypeOK
  <2>2. /\ s \in Subject /\ match[s] \in MatchRow \cup {NoMatch}
        /\ InfoOf[e] \in EventInfo
    BY <1>t, <2>1
  <2>3. /\ Covers(new, InfoOf[e].version)
        /\ \A v \in Nat : Covers(match[s], v) => Covers(new, v)
    BY <2>1, <2>2, ReducerCovers
  <2> SUFFICES ASSUME NEW f \in processed', IsFootball(f)
               PROVE  Covers(match'[SubjectOf[f]], InfoOf[f].version)
    BY DEF ProjectionCoversHistory, Covers
  <2> HIDE DEF e, new, s
  <2>4. f \in EventId /\ InfoOf[f].version \in Nat /\ SubjectOf[f] \in Subject
    BY <1>t, <2>1 DEF EventInfo
  <2>5. f # e => Covers(match[SubjectOf[f]], InfoOf[f].version)
    BY <2>1 DEF ProjectionCoversHistory, Covers
  <2>6. CASE ~IsFootball(e)
    BY <2>1, <2>5, <2>6
  <2>7. CASE IsFootball(e) /\ SubjectOf[f] = s
    BY <1>t, <2>1, <2>2, <2>3, <2>4, <2>5, <2>7
  <2>8. CASE IsFootball(e) /\ SubjectOf[f] # s
    <3>1. f # e
      BY <2>8 DEF s
    <3> QED BY <1>t, <2>1, <2>2, <2>4, <2>5, <2>8, <3>1
  <2> QED BY <2>6, <2>7, <2>8
<1>3. ASSUME ResetDemo PROVE ProjectionCoversHistory'
  <2> DEFINE demo  == {e \in canonical : IsDemo(e)}
             drops == {SubjectOf[e] : e \in demo}
  <2>1. /\ processed' = processed \ demo
        /\ match' = [s \in Subject |-> IF s \in drops THEN NoMatch ELSE match[s]]
    BY <1>3 DEF ResetDemo, DeleteCanonical
  <2>2. \A e \in processed' : SubjectOf[e] \notin drops
    BY <1>t, <2>1 DEF IsDemo
  <2> HIDE DEF demo, drops
  <2> QED BY <1>t, <2>1, <2>2 DEF ProjectionCoversHistory
<1>4. ASSUME ApplyRetention PROVE ProjectionCoversHistory'
  <2>1. PICK S \in SUBSET Retirable :
           /\ processed' = processed \ S
           /\ match' = [s \in Subject |->
                           IF s \in InactiveWith(S) THEN NoMatch ELSE match[s]]
    BY <1>4 DEF ApplyRetention, DeleteCanonical
  <2>2. \A e \in processed' : IsFootball(e) => SubjectOf[e] \notin InactiveWith(S)
    BY <1>t, <2>1 DEF InactiveWith
  <2> QED BY <1>t, <2>1, <2>2 DEF ProjectionCoversHistory
<1>5. \/ UNCHANGED <<processed, match>>
      \/ \E p \in Partition : ProjectRecord(p)
      \/ ResetDemo
      \/ ApplyRetention
  BY DEF vars, Next, Ingest, Publisher, Projector, Backend, Demo, Retention,
         PersistEventAndOutbox, SuppressDuplicate, IngestRollback, Claim,
         PublisherRestart, SendAcknowledged, SendUnacknowledged, SendFailed,
         MarkPublished, RecordFailure, ClaimLapses, CommitOffsets,
         ProjectorRestart, Fetch, SkipRecord, BackendStop, BackendStart,
         StartDemo, EventAges, MatchAges
<1> QED BY <1>1, <1>2, <1>3, <1>4, <1>5

\* A match that has projected history has a row, and the row is at least as new
\* as every event of that history unless the match is over: neither reordering,
\* redelivery, a reset nor retention takes the projection behind its history.
THEOREM ProjectionIsCurrent == Spec => []ProjectionCoversHistory
<1>1. Init => ProjectionCoversHistory
  BY DEF Init, ProjectionCoversHistory
<1> QED BY <1>1, CoverageStep, Invariant, PTL DEF Spec

-----------------------------------------------------------------------------
(* The rows of match_state and the events behind them.                       *)

\* A match has a row only while an event of it is stored, or once retention has
\* tombstoned one.
RowsAreBacked ==
    \A s \in Matches :
        \E e \in EventId : SubjectOf[e] = s /\ (e \in canonical \/ KeyOf[e] \in retired)

LEMMA BackedStep == RowsAreBacked /\ IInv /\ [Next]_vars => RowsAreBacked'
<1> SUFFICES ASSUME RowsAreBacked, IInv, [Next]_vars, NEW s \in Subject, match'[s] # NoMatch
             PROVE  \E e \in EventId : SubjectOf[e] = s /\ (e \in canonical' \/ KeyOf[e] \in retired')
  BY DEF RowsAreBacked, Matches
<1> USE DEF eventVars, projectionVars
<1> DEFINE Backed(e) == SubjectOf[e] = s /\ (e \in canonical \/ KeyOf[e] \in retired)
<1>t. /\ canonical \subseteq EventId /\ match \in [Subject -> MatchRow \cup {NoMatch}]
      /\ SubjectOf \in [EventId -> Subject]
      /\ match[s] # NoMatch => \E e \in EventId : Backed(e)
  BY ConstantsAssumption DEF IInv, TypeOK, RowsAreBacked, Matches
<1>1. CASE match' = match /\ canonical \subseteq canonical' /\ retired' = retired
  BY <1>1, <1>t
<1>2. ASSUME NEW p \in Partition, ProjectRecord(p)
      PROVE  \E e \in EventId : SubjectOf[e] = s /\ (e \in canonical' \/ KeyOf[e] \in retired')
  <2> DEFINE e == Record(p)
             t == SubjectOf[e]
  <2>1. /\ e \in canonical /\ canonical' = canonical /\ retired' = retired
        /\ match' = IF IsFootball(e)
                    THEN [match EXCEPT ![t] = reduce_match_state(match[t], e, InfoOf[e])]
                    ELSE match
    BY <1>2 DEF ProjectRecord
  <2> HIDE DEF e
  <2>2. CASE s = t
    BY <1>t, <2>1, <2>2
  <2>3. CASE s # t
    <3>1. match'[s] = match[s]
      BY <1>t, <2>1, <2>3
    <3> QED BY <1>t, <2>1, <3>1
  <2> QED BY <2>2, <2>3
\* A reset deletes the row of every match of which it deletes an event.
<1>3. CASE ResetDemo
  <2> DEFINE demo  == {e \in canonical : IsDemo(e)}
             drops == {SubjectOf[e] : e \in demo}
  <2>1. /\ canonical' = canonical \ demo /\ retired' = retired
        /\ match' = [q \in Subject |-> IF q \in drops THEN NoMatch ELSE match[q]]
    BY <1>3 DEF ResetDemo, DeleteCanonical
  <2>2. s \notin drops /\ match[s] # NoMatch
    <3> HIDE DEF drops
    <3> QED BY <2>1
  <2>3. PICK e \in EventId : Backed(e)
    BY <1>t, <2>2
  <2>4. e \notin demo
    BY <2>2, <2>3
  <2> HIDE DEF demo, drops
  <2> QED BY <2>1, <2>3, <2>4
\* Retention tombstones the keys of what it deletes.
<1>4. CASE ApplyRetention
  <2>1. PICK S \in SUBSET Retirable :
           /\ retired' = retired \cup {KeyOf[e] : e \in S}
           /\ canonical' = canonical \ S
           /\ match' = [q \in Subject |-> IF q \in InactiveWith(S) THEN NoMatch ELSE match[q]]
    BY <1>4 DEF ApplyRetention, DeleteCanonical
  <2>2. match[s] # NoMatch
    BY <2>1
  <2> QED BY <1>t, <2>1, <2>2
<1>5. \/ match' = match /\ canonical \subseteq canonical' /\ retired' = retired
      \/ \E p \in Partition : ProjectRecord(p)
      \/ ResetDemo
      \/ ApplyRetention
  BY DEF vars, Next, Ingest, Publisher, Projector, Backend, Demo, Retention,
         PersistEventAndOutbox, SuppressDuplicate, IngestRollback, Claim,
         PublisherRestart, SendAcknowledged, SendUnacknowledged, SendFailed,
         MarkPublished, RecordFailure, ClaimLapses, CommitOffsets,
         ProjectorRestart, Fetch, SkipRecord, BackendStop, BackendStart,
         StartDemo, EventAges, MatchAges
<1> QED BY <1>1, <1>2, <1>3, <1>4, <1>5

\* No match row outlives its events, unless retention has tombstoned some of them:
\* copies of deleted events that are still in the broker never bring a row back.
THEOREM NoRowWithoutEvents == Spec => []RowsAreBacked
<1>1. Init => RowsAreBacked
  BY DEF Init, RowsAreBacked, Matches
<1> QED BY <1>1, BackedStep, Invariant, PTL DEF Spec

\* Where retention does not run, a reset leaves no ghost of a simulator match.  (With
\* it, the row of a match whose last event did not change it can stay behind: apply_retention
\* deletes a row only with the event that wrote it.)
THEOREM ResetLeavesNoGhost ==
    ASSUME MaxPasses = 0
    PROVE  Spec => []NoGhostDemoMatch
<1> DEFINE NothingRetired == retired = {}
<1>1. Init => NothingRetired
  BY DEF Init
<1>2. NothingRetired /\ IInv /\ [Next]_vars => NothingRetired'
  <2> SUFFICES ASSUME NothingRetired, IInv, [Next]_vars PROVE retired' = retired
    OBVIOUS
  <2>1. ~ApplyRetention
    <3>1. passes \in 0 .. 0
      BY DEF IInv, TypeOK
    <3> QED BY <3>1 DEF ApplyRetention
  <2> QED BY <2>1
       DEF eventVars, vars, Next, Ingest, Publisher, Projector, Backend, Demo, Retention,
           PersistEventAndOutbox, SuppressDuplicate, IngestRollback, Claim,
           PublisherRestart, SendAcknowledged, SendUnacknowledged, SendFailed,
           MarkPublished, RecordFailure, ClaimLapses, CommitOffsets,
           ProjectorRestart, Fetch, SkipRecord, ProjectRecord, BackendStop, BackendStart,
           ResetDemo, StartDemo, EventAges, MatchAges
<1>3. RowsAreBacked /\ NothingRetired => NoGhostDemoMatch
  BY DEF RowsAreBacked, NoGhostDemoMatch
<1> HIDE DEF NothingRetired
<1>4. Spec => []NothingRetired
  BY <1>1, <1>2, Invariant, PTL DEF Spec
<1> QED BY <1>3, <1>4, NoRowWithoutEvents, PTL

-----------------------------------------------------------------------------
(* EventPipeline implements DurableTimeline: initial states map to initial  *)
(* states, and every step maps to a step of the abstract timeline or to a   *)
(* stuttering step.                                                         *)

Fact == [k \in Key |-> FactOf(k)]
Feed == [c \in DOMAIN history |-> KeyOf[history[c]]]

\* A fact whose key no changed row carries keeps its state.
LEMMA FactUnchanged ==
    ASSUME NEW k \in Key,
           k \in retired' <=> k \in retired,
           \A e \in EventId : KeyOf[e] = k =>
              /\ e \in processed' <=> e \in processed
              /\ e \in canonical' <=> e \in canonical
              /\ e \in seen' <=> e \in seen,
           TypeOK, TypeOK'
    PROVE  FactOf(k)' = FactOf(k)
<1>1. processed \subseteq EventId /\ canonical \subseteq EventId /\ seen \subseteq EventId
  BY DEF TypeOK
<1>2. processed' \subseteq EventId /\ canonical' \subseteq EventId /\ seen' \subseteq EventId
  BY DEF TypeOK
<1>3. /\ (\E e \in processed' : KeyOf[e] = k) <=> (\E e \in processed : KeyOf[e] = k)
      /\ (\E e \in canonical' : KeyOf[e] = k) <=> (\E e \in canonical : KeyOf[e] = k)
      /\ (\E e \in seen' : KeyOf[e] = k /\ IsDemo(e))
            <=> (\E e \in seen : KeyOf[e] = k /\ IsDemo(e))
  BY <1>1, <1>2
<1> QED BY <1>3 DEF FactOf, IsDemo

\* Steps that touch no table of facts and no cursor.
LEMMA StutterStep ==
    ASSUME TypeOK, TypeOK', UNCHANGED <<retired, processed, canonical, seen, history>>
    PROVE  UNCHANGED <<Fact, Feed>>
<1>1. \A k \in Key : FactOf(k)' = FactOf(k)
  BY FactUnchanged
<1> QED BY <1>1 DEF Fact, Feed

\* The first storage of a fact.
LEMMA PersistRefines ==
    ASSUME IInv, IInv', NEW e \in EventId, PersistEventAndOutbox(e)
    PROVE  DT!Accept(KeyOf[e])
<1> DEFINE k0 == KeyOf[e]
<1>0. /\ e \notin seen /\ seen' = seen \cup {e} /\ canonical' = canonical \cup {e}
      /\ k0 \notin retired /\ \A f \in canonical : KeyOf[f] # k0
      /\ UNCHANGED <<retired, processed, history>>
  BY DEF PersistEventAndOutbox, MayObserve, IsDuplicate, projectionVars
<1>t. TypeOK /\ TypeOK' /\ k0 \in Key /\ processed \subseteq canonical
        /\ seen \subseteq EventId
  BY ConstantsAssumption DEF IInv, TypeOK
<1>1. ~ \E f \in seen : KeyOf[f] = k0 /\ IsDemo(f)
  BY <1>0, <1>t, ConstantsAssumption DEF IsDemo
<1>2. FactOf(k0) = "unseen"
  BY <1>0, <1>1, <1>t DEF FactOf
<1>3. FactOf(k0)' = "accepted"
  <2>1. ~ \E f \in processed' : KeyOf[f] = k0
    BY <1>0, <1>t
  <2> QED BY <1>0, <2>1 DEF FactOf
<1>4. ASSUME NEW k \in Key, k # k0 PROVE FactOf(k)' = FactOf(k)
  BY <1>0, <1>4, <1>t, FactUnchanged
<1> QED BY <1>0, <1>2, <1>3, <1>4, <1>t DEF DT!Accept, DT!Become

\* The projection of a fact.
LEMMA ProjectRefines ==
    ASSUME IInv, IInv', NEW p \in Partition, ProjectRecord(p)
    PROVE  \E k \in Key : DT!Show(k)
<1>e. /\ Record(p) \in canonical \ processed
      /\ processed' = processed \cup {Record(p)}
      /\ history' = Append(history, Record(p))
      /\ UNCHANGED <<seen, canonical, retired>>
  BY DEF ProjectRecord, eventVars
<1>p. PICK e \in EventId : e = Record(p)
  BY <1>e DEF IInv, TypeOK
<1> DEFINE k0 == KeyOf[e]
<1>0. /\ e \in canonical \ processed
      /\ processed' = processed \cup {e}
      /\ history' = Append(history, e)
      /\ UNCHANGED <<seen, canonical, retired>>
  BY <1>e, <1>p
<1>t. TypeOK /\ TypeOK' /\ k0 \in Key /\ processed \subseteq canonical
        /\ history \in Seq(EventId) /\ KeyOf \in [EventId -> Key]
  BY <1>0, ConstantsAssumption DEF IInv, TypeOK
<1>k. k0 \notin retired /\ \A f \in canonical : KeyOf[f] = k0 => f = e
  BY <1>0 DEF IInv, KeysUnique
<1>1. FactOf(k0) = "accepted"
  BY <1>0, <1>k, <1>t DEF FactOf
<1>2. FactOf(k0)' = "shown"
  <2>1. e \in processed' /\ k0 \notin retired'
    BY <1>0, <1>k
  <2> QED BY <2>1 DEF FactOf
<1>3. ASSUME NEW k \in Key, k # k0 PROVE FactOf(k)' = FactOf(k)
  BY <1>0, <1>3, <1>t, FactUnchanged
<1>4. Feed' = Append(Feed, k0)
  <2>1. /\ Len(history) \in Nat /\ DOMAIN history = 1 .. Len(history)
        /\ DOMAIN history' = 1 .. (Len(history) + 1)
        /\ \A c \in DOMAIN history : history'[c] = history[c]
        /\ history'[Len(history) + 1] = e
    BY <1>0, <1>t, AppendType
  <2>2. Feed \in Seq(Key) /\ Len(Feed) = Len(history) /\ DOMAIN Feed = DOMAIN history
    BY <1>t, <2>1 DEF Feed
  <2>3. \A c \in DOMAIN Feed : Append(Feed, k0)[c] = KeyOf[history[c]]
    BY <1>t, <2>2, AppendType DEF Feed
  <2>4. /\ Append(Feed, k0) \in Seq(Key)
        /\ DOMAIN Append(Feed, k0) = 1 .. (Len(history) + 1)
        /\ Append(Feed, k0)[Len(history) + 1] = k0
    BY <1>t, <2>2, AppendType
  <2>5. Feed' = [c \in 1 .. (Len(history) + 1) |-> KeyOf[history'[c]]]
    BY <2>1 DEF Feed
  <2>6. \A c \in 1 .. (Len(history) + 1) : Append(Feed, k0)[c] = KeyOf[history'[c]]
    BY <2>1, <2>2, <2>3, <2>4
  <2>7. Append(Feed, k0) = [c \in 1 .. (Len(history) + 1) |-> Append(Feed, k0)[c]]
    BY <2>4
  <2> QED BY <2>5, <2>6, <2>7
<1>5. [k \in Key |-> FactOf(k)]' =
         [k \in Key |-> IF k \in {k0} THEN "shown" ELSE [j \in Key |-> FactOf(j)][k]]
  BY <1>2, <1>3
<1>6. [j \in Key |-> FactOf(j)][k0] = "accepted"
  BY <1>1, <1>t
<1>7. DT!Show(k0)
  BY <1>4, <1>5, <1>6 DEF DT!Show, DT!Become, Feed
<1> QED BY <1>7, <1>t

\* An observation that stores nothing: a duplicate changes no fact, a rollback
\* ends the life of a demo fact and leaves a provider's fact to be seen again.
LEMMA DroppedRefines ==
    ASSUME IInv, IInv', NEW e \in EventId, e \notin seen, seen' = seen \cup {e},
           UNCHANGED <<canonical, retired, processed, history>>
    PROVE  \/ UNCHANGED <<Fact, Feed>>
           \/ \E K \in SUBSET {KeyOf[f] : f \in {g \in EventId : IsDemo(g)}} : DT!Discard(K)
<1> DEFINE k0 == KeyOf[e]
<1>t. TypeOK /\ TypeOK' /\ k0 \in Key /\ processed \subseteq canonical
        /\ seen \subseteq EventId /\ canonical \subseteq seen
  BY ConstantsAssumption DEF IInv, TypeOK
<1>1. ASSUME NEW k \in Key, k # k0 PROVE FactOf(k)' = FactOf(k)
  BY <1>1, <1>t, FactUnchanged
<1>2. CASE FactOf(k0)' = FactOf(k0)
  BY <1>1, <1>2 DEF Fact, Feed
<1>3. CASE FactOf(k0)' # FactOf(k0)
  <2>1. IsDemo(e) /\ k0 \notin retired /\ ~ \E f \in canonical : KeyOf[f] = k0
    BY <1>3, <1>t DEF FactOf, IsDemo
  <2>2. ~ \E f \in seen : KeyOf[f] = k0 /\ IsDemo(f)
    BY <2>1, <1>t, ConstantsAssumption DEF IsDemo
  <2>3. FactOf(k0) = "unseen"
    BY <2>1, <2>2, <1>t DEF FactOf
  <2>4. FactOf(k0)' = "discarded"
    <3>1. e \in seen' /\ KeyOf[e] = k0 /\ IsDemo(e)'
      BY <2>1 DEF IsDemo
    <3> QED BY <2>1, <3>1, <1>t DEF FactOf
  <2>5. DT!Discard({k0})
    BY <1>1, <2>3, <2>4, <1>t DEF DT!Discard, DT!Become
  <2> QED BY <2>1, <2>5
<1> QED BY <1>2, <1>3

\* The deletion of shown facts that leaves their tombstones.
LEMMA RetireRefines ==
    ASSUME IInv, IInv', ApplyRetention
    PROVE  \E K \in SUBSET Key : DT!Retire(K)
<1>1. PICK S \in SUBSET Retirable :
        /\ retired' = retired \cup {KeyOf[e] : e \in S}
        /\ DeleteCanonical(S)
  BY DEF ApplyRetention
<1>2. PICK T \in SUBSET EventId : T = S
  BY <1>1 DEF Retirable, IInv, TypeOK
<1> DEFINE K == {KeyOf[e] : e \in T}
<1>3. /\ T \subseteq processed
      /\ retired' = retired \cup K
      /\ canonical' = canonical \ T /\ processed' = processed \ T
      /\ UNCHANGED <<seen, history>>
  BY <1>1, <1>2 DEF ApplyRetention, Retirable, DeleteCanonical
<1>t. TypeOK /\ TypeOK' /\ processed \subseteq canonical
  BY DEF IInv, TypeOK
<1>k. K \in SUBSET Key
  BY ConstantsAssumption
<1>4. ASSUME NEW k \in K PROVE FactOf(k) = "shown" /\ FactOf(k)' = "retired"
  <2>1. k \notin retired /\ \E e \in processed : KeyOf[e] = k
    BY <1>3, <1>t DEF IInv, KeysUnique
  <2>2. k \in retired'
    BY <1>3
  <2> QED BY <2>1, <2>2 DEF FactOf
<1>5. ASSUME NEW k \in Key, k \notin K PROVE FactOf(k)' = FactOf(k)
  BY <1>3, <1>5, <1>t, FactUnchanged
<1>6. DT!Retire(K)
  BY <1>3, <1>4, <1>5, <1>k DEF DT!Retire, DT!Become
<1> QED BY <1>6, <1>k

\* The deletion of the simulator's facts.
LEMMA ResetRefines ==
    ASSUME IInv, IInv', ResetDemo
    PROVE  \E K \in SUBSET {KeyOf[f] : f \in {g \in EventId : IsDemo(g)}} : DT!Discard(K)
<1>1. PICK T \in SUBSET EventId : T = {e \in canonical : IsDemo(e)}
  BY DEF IInv, TypeOK
<1> DEFINE K == {KeyOf[e] : e \in T}
<1>3. /\ canonical' = canonical \ T /\ processed' = processed \ T
      /\ UNCHANGED <<seen, history, retired>>
  BY <1>1 DEF ResetDemo, DeleteCanonical
<1>t. TypeOK /\ TypeOK' /\ processed \subseteq canonical /\ canonical \subseteq seen
  BY DEF IInv, TypeOK
<1>k. K \subseteq Key
  BY ConstantsAssumption
<1>4. ASSUME NEW k \in K PROVE FactOf(k) \in {"accepted", "shown"} /\ FactOf(k)' = "discarded"
  <2>1. PICK e \in T : KeyOf[e] = k
    OBVIOUS
  <2>2. e \in canonical /\ IsDemo(e) /\ k \notin retired
    BY <1>1, <2>1 DEF IInv, KeysUnique
  <2>3. \A f \in canonical : KeyOf[f] = k => f = e
    BY <2>1, <2>2 DEF IInv, KeysUnique
  <2>4. /\ ~ \E f \in canonical' : KeyOf[f] = k
        /\ ~ \E f \in processed' : KeyOf[f] = k
        /\ k \notin retired'
        /\ e \in seen' /\ KeyOf[e] = k /\ IsDemo(e)'
    BY <1>3, <1>t, <2>1, <2>2, <2>3 DEF IsDemo
  <2>5. FactOf(k) \in {"accepted", "shown"}
    BY <2>1, <2>2 DEF FactOf
  <2>6. FactOf(k)' = "discarded"
    BY <2>4 DEF FactOf
  <2> QED BY <2>5, <2>6
<1>5. ASSUME NEW k \in Key, k \notin K PROVE FactOf(k)' = FactOf(k)
  BY <1>3, <1>5, <1>t, FactUnchanged
<1>6. K \in SUBSET {KeyOf[f] : f \in {g \in EventId : IsDemo(g)}}
  BY <1>1
<1>7. DT!Discard(K)
  BY <1>3, <1>4, <1>5, <1>k DEF DT!Discard, DT!Become
<1> QED BY <1>6, <1>7

\* Every step is a step of the abstract timeline, or changes nothing there.
LEMMA RefinementStep ==
    ASSUME IInv, IInv', [Next]_vars
    PROVE  [DT!Next]_(DT!factVars)
<1>t. TypeOK /\ TypeOK'
  BY DEF IInv
<1>s. ASSUME UNCHANGED <<Fact, Feed>> PROVE [DT!Next]_(DT!factVars)
  BY <1>s DEF DT!factVars, Fact, Feed
<1>d. ASSUME NEW K \in SUBSET {KeyOf[f] : f \in {g \in EventId : IsDemo(g)}}, DT!Discard(K)
      PROVE  [DT!Next]_(DT!factVars)
  BY <1>d DEF DT!Next
<1> USE DEF eventVars, projectionVars
<1>1. ASSUME NEW e \in EventId, PersistEventAndOutbox(e)
      PROVE  [DT!Next]_(DT!factVars)
  <2>1. DT!Accept(KeyOf[e])
    BY <1>1, PersistRefines
  <2>2. KeyOf[e] \in Key
    BY ConstantsAssumption
  <2> QED BY <2>1, <2>2 DEF DT!Next
<1>2. ASSUME NEW e \in EventId, SuppressDuplicate(e) \/ IngestRollback(e)
      PROVE  [DT!Next]_(DT!factVars)
  <2>1. /\ e \notin seen /\ seen' = seen \cup {e}
        /\ UNCHANGED <<canonical, retired, processed, history>>
    BY <1>2 DEF SuppressDuplicate, IngestRollback, MayObserve
  <2>2. \/ UNCHANGED <<Fact, Feed>>
        \/ \E K \in SUBSET {KeyOf[f] : f \in {g \in EventId : IsDemo(g)}} : DT!Discard(K)
    BY <2>1, DroppedRefines
  <2> QED BY <2>2, <1>s, <1>d
<1>3. ASSUME NEW p \in Partition, ProjectRecord(p)
      PROVE  [DT!Next]_(DT!factVars)
  <2>1. \E k \in Key : DT!Show(k)
    BY <1>3, ProjectRefines
  <2> QED BY <2>1 DEF DT!Next
<1>4. ASSUME ResetDemo PROVE [DT!Next]_(DT!factVars)
  <2>1. \E K \in SUBSET {KeyOf[f] : f \in {g \in EventId : IsDemo(g)}} : DT!Discard(K)
    BY <1>4, ResetRefines
  <2> QED BY <2>1, <1>d
<1>5. ASSUME ApplyRetention PROVE [DT!Next]_(DT!factVars)
  <2>1. \E K \in SUBSET Key : DT!Retire(K)
    BY <1>5, RetireRefines
  <2> QED BY <2>1 DEF DT!Next
<1>6. ASSUME UNCHANGED <<retired, processed, canonical, seen, history>>
      PROVE  [DT!Next]_(DT!factVars)
  <2>1. UNCHANGED <<Fact, Feed>>
    BY <1>6, <1>t, StutterStep
  <2> QED BY <2>1, <1>s
<1>7. \/ \E e \in EventId : \/ PersistEventAndOutbox(e)
                            \/ SuppressDuplicate(e) \/ IngestRollback(e)
      \/ \E p \in Partition : ProjectRecord(p)
      \/ ResetDemo
      \/ ApplyRetention
      \/ UNCHANGED <<retired, processed, canonical, seen, history>>
  BY DEF vars, Next, Ingest, Publisher, Projector, Backend, Demo, Retention,
         Claim, PublisherRestart, SendAcknowledged, SendUnacknowledged, SendFailed,
         MarkPublished, RecordFailure, ClaimLapses, CommitOffsets,
         ProjectorRestart, Fetch, SkipRecord, BackendStop, BackendStart,
         StartDemo, EventAges, MatchAges
<1> QED BY <1>1, <1>2, <1>3, <1>4, <1>5, <1>6, <1>7

\* Before the first observation every fact is unseen and the timeline is empty.
LEMMA RefinementInit == Init => DT!Init
<1> SUFFICES ASSUME Init PROVE DT!Init
  OBVIOUS
<1>1. \A k \in Key : FactOf(k) = "unseen"
  BY DEF Init, FactOf
<1>2. [c \in DOMAIN history |-> KeyOf[history[c]]] = <<>>
  BY DEF Init
<1> QED BY <1>1, <1>2 DEF DT!Init

\* The event path implements the abstract timeline: for every set of events,
\* partitions and bounds, each fact is accepted, shown, and retired or
\* discarded, once and in this order, whatever fails.
THEOREM PipelineImplementsTimeline == Spec => ImplementsTimeline
<1>1. IInv /\ IInv' /\ [Next]_vars => [DT!Next]_(DT!factVars)
  BY RefinementStep
<1> QED BY <1>1, RefinementInit, Invariant, PTL
        DEF Spec, ImplementsTimeline, DT!Spec
=============================================================================
