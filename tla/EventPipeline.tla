---------------------------- MODULE EventPipeline ---------------------------
(***************************************************************************)
(* The durable event path of LivePulse, from a provider's observation to    *)
(* the Pulse Timeline and the match projection:                             *)
(*                                                                         *)
(*   observation -> canonical_events + outbox_messages  (one transaction)   *)
(*     -> outbox publisher -> Redpanda partition log                        *)
(*     -> projector -> consumer_processed_events + pulse_timeline           *)
(*                     + match_state            (one transaction)           *)
(*                                                                         *)
(* beside the two jobs that delete from the same tables: the demo reset and *)
(* retention, a command that the operator runs with the backend stopped.    *)
(*                                                                         *)
(* One step is one database transaction or one broker call.  The publisher, *)
(* the projector, the ingestion of each source and the simulator are tasks  *)
(* of one backend process, interleaved between their steps.                 *)
(*                                                                         *)
(* Event ids are numbers: a row's id in the outbox and its UUIDv7 both grow *)
(* with the order of creation.                                              *)
(***************************************************************************)
EXTENDS MatchReducer, Sequences, FiniteSets

CONSTANTS
    Key,            \* dedupe keys
    Subject,        \* subjects (matches, repositories, mailboxes...)
    Partition,      \* partitions of the canonical topic
    KeyOf,          \* [EventId -> Key]
    SubjectOf,      \* [EventId -> Subject], the partition key of a record
    PartitionOf,    \* [Subject -> Partition], the broker's key hash
    InfoOf,         \* [EventId -> EventInfo], what the projector reads
    DemoSubject,    \* the subjects of simulator runs
    NoSubject,      \* no active demo match, no running scenario
    BatchSize,      \* rows claimed at once (50 in the code)
    MaxEvents,      \* events retired by one retention pass (1000 in the code)
    MaxFaults,      \* bound: errors, lost acknowledgements, stops and crashes
    MaxPasses       \* bound: retention passes

\* The simulator's events carry the run id in their dedupe key, so no other
\* observation shares it.
ASSUME ConstantsAssumption ==
    /\ EventId \subseteq Nat
    /\ KeyOf \in [EventId -> Key]
    /\ SubjectOf \in [EventId -> Subject]
    /\ PartitionOf \in [Subject -> Partition]
    /\ InfoOf \in [EventId -> EventInfo]
    /\ DemoSubject \subseteq Subject
    /\ NoSubject \notin Subject
    /\ BatchSize \in Nat \ {0}
    /\ MaxEvents \in Nat \ {0}
    /\ MaxFaults \in Nat
    /\ MaxPasses \in Nat
    /\ \A e, f \in EventId :
          SubjectOf[e] \in DemoSubject /\ KeyOf[e] = KeyOf[f] => e = f

VARIABLES
    seen,       \* ids of observations made so far
    up,         \* the backend process runs
    canonical,  \* canonical_events
    retired,    \* retired_events: the dedupe hashes of the tombstones
    outbox,     \* outbox_messages, by event
    pubPc,      \* where publish_pending_once is
    batch,      \* the rows it claimed and has not finished with
    log,        \* the records of each partition
    committed,  \* the consumer group's committed offsets
    position,   \* end of the batch that getmany returned
    done,       \* records of it that were processed
    processed,  \* consumer_processed_events
    history,    \* the event each timeline cursor was allocated to
    timeline,   \* the cursors present in pulse_timeline
    match,      \* match_state
    active,     \* demo_control.active_match_id
    scenario,   \* the match of the running simulator task
    old,        \* events whose ingested_at is before the cutoff
    oldMatch,   \* rows of match_state whose updated_at is before the cutoff
    faults, passes  \* how much of the bounds is used

eventVars      == <<seen, canonical, retired>>
publisherVars  == <<pubPc, batch>>
consumerVars   == <<committed, position, done>>
projectionVars == <<processed, history, timeline, match>>
demoVars       == <<active, scenario>>
ageVars        == <<old, oldMatch>>

vars == <<up, eventVars, outbox, publisherVars, log, consumerVars,
          projectionVars, demoVars, ageVars, faults, passes>>

-----------------------------------------------------------------------------
\* "none": no row; "lapsed": claimed_at is more than 30 seconds ago.
OutboxStates == {"none", "pending", "claimed", "lapsed", "published"}

IsFootball(e) == InfoOf[e].type # "other"
IsDemo(e)     == SubjectOf[e] \in DemoSubject
Home(e)       == PartitionOf[SubjectOf[e]]

\* The rows of a match_state that exist.
Matches == {s \in Subject : match[s] # NoMatch}

Fault == faults < MaxFaults /\ faults' = faults + 1

Init ==
    /\ up = TRUE
    /\ seen = {} /\ canonical = {} /\ retired = {}
    /\ outbox = [e \in EventId |-> "none"]
    /\ pubPc = "idle" /\ batch = {}
    /\ log = [p \in Partition |-> <<>>]
    /\ committed = [p \in Partition |-> 0]
    /\ position = [p \in Partition |-> 0]
    /\ done = [p \in Partition |-> 0]
    /\ processed = {} /\ history = <<>> /\ timeline = {}
    /\ match = [s \in Subject |-> NoMatch]
    /\ active = NoSubject /\ scenario = NoSubject
    /\ old = {} /\ oldMatch = {}
    /\ faults = 0 /\ passes = 0

-----------------------------------------------------------------------------
(* Ingestion: persist_event_and_outbox                                      *)

\* One source produces the events of a subject, one after the other (the poll
\* scheduler holds the source's lock, the simulator is one task); the simulator
\* goes on only while its match is the active one.
MayObserve(e) ==
    /\ up
    /\ e \notin seen
    /\ \A f \in EventId : SubjectOf[f] = SubjectOf[e] /\ f < e => f \in seen
    /\ IsDemo(e) => scenario = SubjectOf[e] /\ active = SubjectOf[e]

\* The simulator task ends with the last event of its scenario.
ScenarioAfter(seenNow) ==
    IF \A e \in EventId : SubjectOf[e] = scenario => e \in seenNow
    THEN NoSubject ELSE scenario

\* Mutant: the tombstones are not consulted.
IsDuplicate_StoredOnly(e) == \E f \in canonical : KeyOf[f] = KeyOf[e]

\* A tombstone has the dedupe hash, or the unique index on dedupe_key rejects
\* the row.
IsDuplicate(e) ==
    \/ KeyOf[e] \in retired
    \/ \E f \in canonical : KeyOf[f] = KeyOf[e]

\* The canonical row and its outbox row commit together.
PersistEventAndOutbox(e) ==
    /\ MayObserve(e)
    /\ ~IsDuplicate(e)
    /\ seen' = seen \cup {e}
    /\ canonical' = canonical \cup {e}
    /\ outbox' = [outbox EXCEPT ![e] = "pending"]
    /\ scenario' = ScenarioAfter(seen')
    /\ UNCHANGED <<up, retired, publisherVars, log, consumerVars,
                   projectionVars, active, ageVars, faults, passes>>

\* The observation is dropped; the caller's transaction goes on.
SuppressDuplicate(e) ==
    /\ MayObserve(e)
    /\ IsDuplicate(e)
    /\ seen' = seen \cup {e}
    /\ scenario' = ScenarioAfter(seen')
    /\ UNCHANGED <<up, canonical, retired, outbox, publisherVars, log,
                   consumerVars, projectionVars, active, ageVars, faults, passes>>

\* The caller's transaction rolls back.  A provider will report the same fact
\* again, under a new event id; the simulator task ends with the exception.
IngestRollback(e) ==
    /\ MayObserve(e)
    /\ Fault
    /\ seen' = seen \cup {e}
    /\ scenario' = IF IsDemo(e) THEN NoSubject ELSE scenario
    /\ UNCHANGED <<up, canonical, retired, outbox, publisherVars, log,
                   consumerVars, projectionVars, active, ageVars, passes>>

-----------------------------------------------------------------------------
(* The outbox publisher: publish_pending_once and run_publisher             *)

\* Mutant: a claim is never taken again.
Claimable_PendingOnly == {e \in EventId : outbox[e] = "pending"}

\* Rows that are not published and not held by a live claim.
Claimable == {e \in EventId : outbox[e] \in {"pending", "lapsed"}}

\* The oldest n of a set of events: ORDER BY id LIMIT n.
IsOldest(S, n, T) ==
    /\ S \subseteq T
    /\ Cardinality(S) <= n
    /\ S # T => Cardinality(S) = n
    /\ \A e \in S, f \in T \ S : e < f

Claim ==
    /\ up /\ pubPc = "idle"
    /\ \E S \in SUBSET Claimable :
          /\ S # {}
          /\ IsOldest(S, BatchSize, Claimable)
          /\ batch' = S
          /\ outbox' = [e \in EventId |-> IF e \in S THEN "claimed" ELSE outbox[e]]
    /\ pubPc' = "sending"
    /\ UNCHANGED <<up, eventVars, log, consumerVars,
                   projectionVars, demoVars, ageVars, faults, passes>>

\* The claims are worked off in the order of their ids.
IsCurrent(e) == e \in batch /\ \A f \in batch : e <= f

\* The broker appends the record and send_and_wait returns.
SendAcknowledged(e) ==
    /\ pubPc = "sending" /\ IsCurrent(e)
    /\ log' = [log EXCEPT ![Home(e)] = Append(@, e)]
    /\ pubPc' = "acked"
    /\ UNCHANGED <<up, eventVars, outbox, batch, consumerVars,
                   projectionVars, demoVars, ageVars, faults, passes>>

\* The broker appends the record and the acknowledgement is lost: the producer
\* sends again by itself, or gives up and send_and_wait raises.
SendUnacknowledged(e) ==
    /\ pubPc = "sending" /\ IsCurrent(e)
    /\ Fault
    /\ log' = [log EXCEPT ![Home(e)] = Append(@, e)]
    /\ pubPc' \in {"sending", "failed"}
    /\ UNCHANGED <<up, eventVars, outbox, batch, consumerVars,
                   projectionVars, demoVars, ageVars, passes>>

\* Nothing reaches the broker, or the acknowledged row cannot be marked: both
\* exceptions end in the except branch of the loop.
SendFailed(e) ==
    /\ pubPc \in {"sending", "acked"} /\ IsCurrent(e)
    /\ Fault
    /\ pubPc' = "failed"
    /\ UNCHANGED <<up, eventVars, outbox, batch, log,
                   consumerVars, projectionVars, demoVars, ageVars,
                   passes>>

\* The loop goes on with the next claim, after a failure as well.
NextClaim(e) ==
    /\ batch' = batch \ {e}
    /\ pubPc' = IF batch' = {} THEN "idle" ELSE "sending"

\* Mutant: the row is marked without waiting for the broker.
MarkPublished_Unacknowledged(e) ==
    /\ pubPc \in {"sending", "acked"} /\ IsCurrent(e)
    /\ outbox' = IF outbox[e] = "none" THEN outbox
                 ELSE [outbox EXCEPT ![e] = "published"]
    /\ NextClaim(e)
    /\ UNCHANGED <<up, eventVars, log, consumerVars,
                   projectionVars, demoVars, ageVars, faults, passes>>

\* The transaction after the acknowledgement; the row may be gone.
MarkPublished(e) ==
    /\ pubPc = "acked" /\ IsCurrent(e)
    /\ outbox' = IF outbox[e] = "none" THEN outbox
                 ELSE [outbox EXCEPT ![e] = "published"]
    /\ NextClaim(e)
    /\ UNCHANGED <<up, eventVars, log, consumerVars,
                   projectionVars, demoVars, ageVars, faults, passes>>

\* The except branch: the claim is given up and the row waits for a retry.
RecordFailure(e) ==
    /\ pubPc = "failed" /\ IsCurrent(e)
    /\ outbox' = IF outbox[e] \in {"none", "published"} THEN outbox
                 ELSE [outbox EXCEPT ![e] = "pending"]
    /\ NextClaim(e)
    /\ UNCHANGED <<up, eventVars, log, consumerVars,
                   projectionVars, demoVars, ageVars, faults, passes>>

\* publish_pending_once itself raises (the database is away): the loop starts
\* again and the claims stay.
PublisherRestart ==
    /\ pubPc # "idle"
    /\ Fault
    /\ pubPc' = "idle" /\ batch' = {}
    /\ UNCHANGED <<up, eventVars, outbox, log, consumerVars,
                   projectionVars, demoVars, ageVars, passes>>

\* Thirty seconds later a claim that nobody holds can be taken again.
ClaimLapses(e) ==
    /\ outbox[e] = "claimed" /\ e \notin batch
    /\ outbox' = [outbox EXCEPT ![e] = "lapsed"]
    /\ UNCHANGED <<up, eventVars, publisherVars, log,
                   consumerVars, projectionVars, demoVars, ageVars,
                   faults, passes>>

-----------------------------------------------------------------------------
(* The projector: run_projector and process_canonical_event                 *)

\* getmany returns records of some partitions, before any of them is processed.
Fetch(p) ==
    /\ up /\ done = committed
    /\ \E n \in (position[p] + 1) .. Len(log[p]) :
          position' = [position EXCEPT ![p] = n]
    /\ UNCHANGED <<up, eventVars, outbox, publisherVars, log,
                   committed, done, projectionVars, demoVars, ageVars,
                   faults, passes>>

\* The record that is processed next.
Record(p) == log[p][done[p] + 1]

\* Its canonical row is gone, or it was processed before: no effect.
SkipRecord(p) ==
    /\ done[p] < position[p]
    /\ \/ Record(p) \notin canonical
       \/ Record(p) \in processed
    /\ done' = [done EXCEPT ![p] = @ + 1]
    /\ UNCHANGED <<up, eventVars, outbox, publisherVars, log,
                   committed, position, projectionVars, demoVars, ageVars, faults, passes>>

\* Mutant: the canonical row is not looked up.
ProjectRecord_Unchecked(p) ==
    LET e   == Record(p)
        s   == SubjectOf[e]
        cur == match[s]
    IN  /\ done[p] < position[p]
        /\ e \notin processed
        /\ IsFootball(e) => ~Raises(cur, InfoOf[e])
        /\ done' = [done EXCEPT ![p] = @ + 1]
        /\ processed' = processed \cup {e}
        /\ history' = Append(history, e)
        /\ timeline' = timeline \cup {Len(history) + 1}
        /\ match' = IF IsFootball(e)
                    THEN [match EXCEPT ![s] = reduce_match_state(cur, e, InfoOf[e])]
                    ELSE match
        /\ oldMatch' = IF match' = match THEN oldMatch ELSE oldMatch \ {s}
        /\ UNCHANGED <<up, eventVars, outbox, publisherVars,
                       log, committed, position, demoVars, old,
                       faults, passes>>

\* The projection transaction: idempotency row, match row and timeline row.
\* Only an event that advances the row rewrites it.
ProjectRecord(p) ==
    LET e   == Record(p)
        s   == SubjectOf[e]
        cur == match[s]
    IN  /\ done[p] < position[p]
        /\ e \in canonical \ processed
        /\ IsFootball(e) => ~Raises(cur, InfoOf[e])
        /\ done' = [done EXCEPT ![p] = @ + 1]
        /\ processed' = processed \cup {e}
        /\ history' = Append(history, e)
        /\ timeline' = timeline \cup {Len(history) + 1}
        /\ match' = IF IsFootball(e)
                    THEN [match EXCEPT ![s] = reduce_match_state(cur, e, InfoOf[e])]
                    ELSE match
        /\ oldMatch' = IF match' = match THEN oldMatch ELSE oldMatch \ {s}
        /\ UNCHANGED <<up, eventVars, outbox, publisherVars,
                       log, committed, position, demoVars, old,
                       faults, passes>>

\* Mutant: the offsets are committed when the batch is fetched.
CommitOffsets_Early ==
    /\ position # committed
    /\ committed' = position
    /\ UNCHANGED <<up, eventVars, outbox, publisherVars, log,
                   position, done, projectionVars, demoVars, ageVars,
                   faults, passes>>

\* The offsets are committed once the whole batch is processed.
CommitOffsets ==
    /\ done = position
    /\ position # committed
    /\ committed' = position
    /\ UNCHANGED <<up, eventVars, outbox, publisherVars, log,
                   position, done, projectionVars, demoVars, ageVars,
                   faults, passes>>

\* A record raises, the commit fails or the broker is away: the consumer starts
\* again from the committed offsets.
ProjectorRestart ==
    /\ position # committed
    /\ Fault
    /\ position' = committed /\ done' = committed
    /\ UNCHANGED <<up, eventVars, outbox, publisherVars, log,
                   committed, projectionVars, demoVars, ageVars,
                   passes>>

-----------------------------------------------------------------------------
(* The backend process: lifespan                                            *)

\* The process dies or is stopped: open transactions roll back, and the
\* publisher, the projector and the simulator, its tasks, are gone.
BackendStop ==
    /\ up
    /\ Fault
    /\ up' = FALSE
    /\ pubPc' = "idle" /\ batch' = {}
    /\ position' = committed /\ done' = committed
    /\ scenario' = NoSubject
    /\ UNCHANGED <<eventVars, outbox, log, committed, projectionVars, active,
                   ageVars, passes>>

BackendStart ==
    /\ ~up
    /\ up' = TRUE
    /\ UNCHANGED <<eventVars, outbox, publisherVars, log, consumerVars,
                   projectionVars, demoVars, ageVars, faults, passes>>

-----------------------------------------------------------------------------
(* Deletion: clear_demo_data and apply_retention                            *)

\* Mutants: the processed events, or the timeline rows, have no foreign key.
DeleteCanonical_KeepsProcessed(S) ==
    /\ canonical' = canonical \ S
    /\ outbox' = [e \in EventId |-> IF e \in S THEN "none" ELSE outbox[e]]
    /\ processed' = processed
    /\ timeline' = {c \in timeline : history[c] \notin S}

DeleteCanonical_KeepsTimeline(S) ==
    /\ canonical' = canonical \ S
    /\ outbox' = [e \in EventId |-> IF e \in S THEN "none" ELSE outbox[e]]
    /\ processed' = processed \ S
    /\ timeline' = timeline

\* The foreign keys cascade from canonical_events to the outbox, the processed
\* events and the timeline.
DeleteCanonical(S) ==
    /\ canonical' = canonical \ S
    /\ outbox' = [e \in EventId |-> IF e \in S THEN "none" ELSE outbox[e]]
    /\ processed' = processed \ S
    /\ timeline' = {c \in timeline : history[c] \notin S}

\* POST /demo/scenarios/comeback/start: a new match id becomes the active one.
StartDemo(s) ==
    /\ up /\ scenario = NoSubject
    /\ \A e \in EventId : SubjectOf[e] = s => e \notin seen
    /\ active' = s /\ scenario' = s
    /\ UNCHANGED <<up, eventVars, outbox, publisherVars, log, consumerVars,
                   projectionVars, ageVars, faults, passes>>

\* POST /demo/reset: the simulator task is cancelled, then the match rows and
\* the canonical rows of the simulator go.  Nothing is tombstoned.
ResetDemo ==
    LET demo  == {e \in canonical : IsDemo(e)}
        drops == {SubjectOf[e] : e \in demo}
    IN  /\ up
        /\ active # NoSubject \/ demo # {}
        /\ DeleteCanonical(demo)
        /\ match' = [s \in Subject |-> IF s \in drops THEN NoMatch ELSE match[s]]
        /\ oldMatch' = oldMatch \ drops
        /\ active' = NoSubject /\ scenario' = NoSubject
        /\ UNCHANGED <<up, seen, retired, publisherVars, log, consumerVars,
                       history, old, faults, passes>>

\* Time passes the cutoff: events age in the order of their creation, a match
\* row not before the event that wrote it.
EventAges(e) ==
    /\ passes < MaxPasses
    /\ e \in canonical \ old
    /\ \A f \in canonical : f < e => f \in old
    /\ old' = old \cup {e}
    /\ UNCHANGED <<up, eventVars, outbox, publisherVars, log, consumerVars,
                   projectionVars, demoVars, oldMatch, faults, passes>>

MatchAges(s) ==
    /\ passes < MaxPasses
    /\ s \in Matches \ oldMatch
    /\ match[s].last \in old
    /\ oldMatch' = oldMatch \cup {s}
    /\ UNCHANGED <<up, eventVars, outbox, publisherVars, log, consumerVars,
                   projectionVars, demoVars, old, faults, passes>>

Protected == {s \in Matches : match[s].status \in {"live", "halftime"}}
             \cup ({active} \ {NoSubject})

LastStateEvents ==
    {match[s].last : s \in {t \in Matches : t \notin oldMatch \/ t \in Protected}}

\* Mutant: events that were never projected are eligible.
Retirable_Unprocessed ==
    {e \in canonical \cap old :
        /\ e \notin LastStateEvents
        /\ ~(IsFootball(e) /\ SubjectOf[e] \in Protected)}

\* What one pass may delete: old, published, projected and not protected.
Retirable ==
    {e \in canonical \cap old :
        /\ outbox[e] = "published"
        /\ e \in processed
        /\ e \notin LastStateEvents
        /\ ~(IsFootball(e) /\ SubjectOf[e] \in Protected)}

\* Mutant: the other events of the match are not looked at.
InactiveWith_LastOnly(S) ==
    {s \in (Matches \cap oldMatch) \ Protected : match[s].last \in S}

\* The match rows that go with the events S: stale, and without any other event.
InactiveWith(S) ==
    {s \in (Matches \cap oldMatch) \ Protected :
        /\ match[s].last \in S
        /\ \A e \in canonical : IsFootball(e) /\ SubjectOf[e] = s => e \in S}

\* One applied pass of the retention command, the backend being stopped.
ApplyRetention ==
    /\ ~up
    /\ passes < MaxPasses /\ passes' = passes + 1
    /\ \E S \in SUBSET Retirable :
          /\ S # {}
          /\ IsOldest(S, MaxEvents, Retirable)
          /\ retired' = retired \cup {KeyOf[e] : e \in S}
          /\ DeleteCanonical(S)
          /\ match' = [s \in Subject |->
                          IF s \in InactiveWith(S) THEN NoMatch ELSE match[s]]
          /\ oldMatch' = oldMatch \ InactiveWith(S)
    /\ UNCHANGED <<up, seen, publisherVars, log, consumerVars, history,
                   demoVars, old, faults>>

-----------------------------------------------------------------------------
Ingest ==
    \E e \in EventId :
        \/ PersistEventAndOutbox(e)
        \/ SuppressDuplicate(e)
        \/ IngestRollback(e)

Publisher ==
    \/ Claim
    \/ PublisherRestart
    \/ \E e \in EventId :
          \/ SendAcknowledged(e)
          \/ SendUnacknowledged(e)
          \/ SendFailed(e)
          \/ MarkPublished(e)
          \/ RecordFailure(e)
          \/ ClaimLapses(e)

Projector ==
    \/ CommitOffsets
    \/ ProjectorRestart
    \/ \E p \in Partition :
          \/ Fetch(p)
          \/ SkipRecord(p)
          \/ ProjectRecord(p)

Backend == BackendStop \/ BackendStart

Demo == ResetDemo \/ \E s \in DemoSubject : StartDemo(s)

Retention ==
    \/ ApplyRetention
    \/ \E e \in EventId : EventAges(e)
    \/ \E s \in Subject : MatchAges(s)

Next ==
    \/ Ingest
    \/ Publisher
    \/ Projector
    \/ Backend
    \/ Demo
    \/ Retention

Spec == Init /\ [][Next]_vars

\* Faults are finite in number.  The event loop keeps running the publisher and
\* the projector, a stopped backend is started again, and a claim grows old.
Fairness ==
    /\ WF_vars(BackendStart)
    /\ WF_vars(Claim)
    /\ WF_vars(\E e \in EventId : SendAcknowledged(e))
    /\ WF_vars(\E e \in EventId : MarkPublished(e) \/ RecordFailure(e))
    /\ \A e \in EventId : WF_vars(ClaimLapses(e))
    /\ \A p \in Partition : WF_vars(Fetch(p))
    /\ \A p \in Partition : WF_vars(SkipRecord(p) \/ ProjectRecord(p))
    /\ WF_vars(CommitOffsets)

FairSpec == Spec /\ Fairness

-----------------------------------------------------------------------------
(* Properties                                                               *)

\* The type invariant of the tables, the broker and the tasks.
TypeOK ==
    /\ up \in BOOLEAN
    /\ seen \subseteq EventId
    /\ canonical \subseteq seen
    /\ retired \subseteq Key
    /\ outbox \in [EventId -> OutboxStates]
    /\ pubPc \in {"idle", "sending", "acked", "failed"}
    /\ batch \subseteq EventId
    /\ log \in [Partition -> Seq(EventId)]
    /\ committed \in [Partition -> Nat]
    /\ position \in [Partition -> Nat]
    /\ done \in [Partition -> Nat]
    /\ processed \subseteq canonical
    /\ history \in Seq(EventId)
    /\ timeline \subseteq DOMAIN history
    /\ match \in [Subject -> MatchRow \cup {NoMatch}]
    /\ active \in DemoSubject \cup {NoSubject}
    /\ scenario \in DemoSubject \cup {NoSubject}
    /\ old \subseteq EventId
    /\ oldMatch \subseteq Subject
    /\ faults \in 0 .. MaxFaults
    /\ passes \in 0 .. MaxPasses

Sent(e) == \E i \in DOMAIN log[Home(e)] : log[Home(e)][i] = e

\* No committed event disappears: until it is projected (or deleted with its
\* whole history) it is due for publication, or a copy of it lies in its
\* partition beyond the committed offset, where the projector will read it
\* again after any restart (publish_pending_once marks after the broker's
\* acknowledgement, run_projector commits after the projection).
NoLostEvent ==
    \A e \in canonical \ processed :
        \/ outbox[e] \in {"pending", "claimed", "lapsed"}
        \/ \E i \in DOMAIN log[Home(e)] :
              i > committed[Home(e)] /\ log[Home(e)][i] = e

\* A fact gets at most one cursor of the timeline, ever: neither a second broker
\* copy, nor a re-observation, nor a copy read after retention or a reset
\* deleted the rows that made the projector idempotent, shows it again.
ShownAtMostOnce ==
    \A c, d \in DOMAIN history : KeyOf[history[c]] = KeyOf[history[d]] => c = d

\* The timeline and the idempotency rows agree through every cascade, so the
\* check that suppresses a second projection is about the row that is shown.
TimelineIsProcessed ==
    {history[c] : c \in timeline} = processed

\* Retention keeps pending work: only a fact that had been shown is tombstoned.
RetiredWereShown ==
    \A k \in retired : \E c \in DOMAIN history : KeyOf[history[c]] = k

\* Football state is pruned only with all of its history, and the row is as new
\* as the newest event projected for its match, full-time matches excepted.
ProjectionCoversHistory ==
    \A e \in processed :
        IsFootball(e) =>
            LET row == match[SubjectOf[e]]
            IN  /\ row # NoMatch
                /\ row.version >= InfoOf[e].version \/ row.status = "fulltime"

\* A reset leaves no ghost: a simulator match has a row only while events of it
\* are stored, whatever copies of deleted events are still in the broker.
NoGhostDemoMatch ==
    \A s \in DemoSubject \cap Matches :
        \E e \in canonical : SubjectOf[e] = s

\* When every event of a match is projected, its score is the number of its
\* goals (matches without corrections that did not reach full time).
GoalsOf(s, side) ==
    {e \in canonical : /\ SubjectOf[e] = s
                       /\ InfoOf[e].type = "goal" /\ InfoOf[e].side = side}

ScoreAgreesWithHistory ==
    \A s \in Matches :
        (/\ match[s].status # "fulltime"
         /\ \A e \in canonical : SubjectOf[e] = s =>
               e \in processed /\ InfoOf[e].type # "score_corrected")
        => /\ match[s].home = Cardinality(GoalsOf(s, "home"))
           /\ match[s].away = Cardinality(GoalsOf(s, "away"))

-----------------------------------------------------------------------------
(* The inductive invariant behind the safety properties                     *)

\* dedupe_key is unique among stored events and distinct from the tombstones.
KeysUnique ==
    /\ \A e, f \in canonical : KeyOf[e] = KeyOf[f] => e = f
    /\ \A e \in canonical : KeyOf[e] \notin retired

\* An event and its outbox row come and go together.
OutboxMatches ==
    \A e \in EventId : outbox[e] # "none" <=> e \in canonical

OffsetsOrdered ==
    \A p \in Partition :
        /\ committed[p] <= done[p]
        /\ done[p] <= position[p]
        /\ position[p] <= Len(log[p])

\* Only ids that were observed are claimed, sent and shown: a new observation
\* has left no trace yet.
OnlySeen ==
    /\ batch \subseteq seen
    /\ \A p \in Partition : \A i \in DOMAIN log[p] : log[p][i] \in seen
    /\ \A c \in DOMAIN history : history[c] \in seen

\* The projector has finished with every record it has passed.
Handled ==
    \A p \in Partition : \A i \in DOMAIN log[p] :
        i <= done[p] /\ log[p][i] \in canonical => log[p][i] \in processed

\* The broker has what the publisher takes for published.
PublishedSent ==
    \A e \in EventId :
        outbox[e] = "published" \/ (pubPc = "acked" /\ IsCurrent(e)) => Sent(e)

\* A shown event is still recorded as processed, or it was deleted in a way
\* that rules out a second acceptance of its key.
ShownIsRemembered ==
    \A c \in DOMAIN history :
        \/ history[c] \in processed
        \/ /\ history[c] \notin canonical
           /\ KeyOf[history[c]] \in retired \/ IsDemo(history[c])

\* The inductive invariant: the tables, the publisher's claims, the log and the
\* consumer's offsets agree after every step of publish_pending_once,
\* process_canonical_event and the two jobs that delete.
IInv ==
    /\ TypeOK
    /\ KeysUnique
    /\ OutboxMatches
    /\ OffsetsOrdered
    /\ OnlySeen
    /\ Handled
    /\ PublishedSent
    /\ ShownIsRemembered
    /\ TimelineIsProcessed
    /\ ShownAtMostOnce

-----------------------------------------------------------------------------
(* Refinement                                                               *)

\* How far a fact has come, read off the tables.
FactOf(k) ==
    IF k \in retired THEN "retired"
    ELSE IF \E e \in processed : KeyOf[e] = k THEN "shown"
    ELSE IF \E e \in canonical : KeyOf[e] = k THEN "accepted"
    ELSE IF \E e \in seen : KeyOf[e] = k /\ IsDemo(e) THEN "discarded"
    ELSE "unseen"

DT == INSTANCE DurableTimeline WITH
          fact <- [k \in Key |-> FactOf(k)],
          feed <- [c \in DOMAIN history |-> KeyOf[history[c]]],
          Discardable <- {KeyOf[e] : e \in {f \in EventId : IsDemo(f)}}

\* The event path, with its retries, crashes, resets and retention, does only
\* what the abstract timeline does: each fact is accepted, shown and retired
\* once and in this order.
ImplementsTimeline == DT!Spec

\* Under fairness it also shows every accepted fact, or discards it.
ImplementsFairTimeline == DT!FairSpec
=============================================================================
