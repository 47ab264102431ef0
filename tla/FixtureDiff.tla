----------------------------- MODULE FixtureDiff -----------------------------
(***************************************************************************)
(* One fixture between API-Football and the match row: diff_fixture of      *)
(* football/ingestion.py compares an observation with the checkpoint, the   *)
(* store commits the events and the new checkpoint together                 *)
(* (football/store.py), and the reducer turns the events into the row.      *)
(*                                                                          *)
(* The API is external: it shows the match, or a copy that is behind, with  *)
(* or without the list of events, under a precise or a coarse status code.  *)
(* Events of the store reach the reducer in their order here; what else the *)
(* broker can do is the subject of EventPipeline.                           *)
(***************************************************************************)
EXTENDS MatchReducer, Sequences, SequencesExt

CONSTANTS Kickoff,        \* kick-off times
          Scorer,         \* the sides that score
          MaxScoreChanges,\* bound: goals and cancelled goals of the match
          MaxFacts,       \* bound: events of the match
          NoFixture, NoScore

ASSUME FixtureAssumption ==
    /\ Kickoff # {}
    /\ Scorer \subseteq {"home", "away"}
    /\ MaxScoreChanges \in Nat
    /\ MaxFacts \in Nat
    /\ NoScore \notin Nat
    /\ 1 .. MaxFacts \subseteq EventId

Sides == {"home", "away"}
ScheduledCodes == {"NS"}
LiveCodes == {"1H", "HT", "2H", "ET", "P", "LIVE"}
FulltimeCodes == {"FT", "AET", "PEN"}
PhaseNames == {"halftime", "second_half", "extra_time", "penalties"}
StatusCodes == ScheduledCodes \cup LiveCodes \cup FulltimeCodes \cup {"CANC"}

\* STATUS_RANK; the coarse code LIVE has none and counts as 0.
StatusRank(code) ==
    CASE code \in {"NS", "LIVE"} -> 0
      [] code = "1H" -> 1
      [] code = "HT" -> 2
      [] code = "2H" -> 3
      [] code \in {"ET", "P"} -> 4
      [] OTHER -> 5

MinuteOf(code) ==
    CASE code = "NS" -> 0
      [] code = "1H" -> 30
      [] code = "HT" -> 45
      [] code = "2H" -> 60
      [] code \in {"FT", "CANC"} -> 90
      [] code = "ET" -> 100
      [] OTHER -> 120

NoGoals == [s \in Sides |-> 0]

VARIABLES api,      \* the match as API-Football has it
          behind,   \* its state before the last change, which a request may still get
          cp,       \* the checkpoint fixture:<id>
          baseline, \* the checkpoint fixture-baseline:v1 exists
          keys,     \* dedupe keys of the stored events
          mrow,     \* the match row that the stored events amount to
          lateMove  \* the kick-off time changed after the kick-off was reported

fixtureVars == <<api, behind, cp, baseline, keys, mrow, lateMove>>

\* evs lists the goals that stand; n counts all changes and gives each an id.
ApiInit == [status |-> "NS", kick |-> CHOOSE k \in Kickoff : TRUE,
            score |-> NoGoals, evs |-> <<>>, n |-> 0]

FixtureInit ==
    /\ api = ApiInit
    /\ behind = ApiInit
    /\ cp = NoFixture
    /\ baseline \in BOOLEAN
    /\ keys = {}
    /\ mrow = NoMatch
    /\ lateMove = FALSE

-----------------------------------------------------------------------------
(* The API.                                                                 *)

Follows(code) ==
    CASE code = "NS" -> {"1H", "CANC"}
      [] code = "1H" -> {"HT"}
      [] code = "HT" -> {"2H"}
      [] code = "2H" -> {"FT", "ET"}
      [] code = "ET" -> {"AET", "P"}
      [] code = "P" -> {"PEN"}
      [] OTHER -> {}

ApiChanges ==
    /\ \/ \E code \in Follows(api.status) : api' = [api EXCEPT !.status = code]
       \/ /\ api.status \in ScheduledCodes
          /\ \E k \in Kickoff \ {api.kick} : api' = [api EXCEPT !.kick = k]
       \/ /\ api.n < MaxScoreChanges
          /\ api.status \in LiveCodes \cup FulltimeCodes
          /\ \E s \in Scorer :
                api' = [api EXCEPT !.n = @ + 1, !.score[s] = @ + 1,
                           !.evs = Append(@, [id |-> api.n, side |-> s,
                                              minute |-> MinuteOf(api.status)])]
       \/ /\ api.n < MaxScoreChanges
          /\ api.evs # <<>>
          /\ api' = [api EXCEPT !.n = @ + 1, !.score[Last(api.evs).side] = @ - 1,
                                !.evs = Front(@)]
    /\ behind' = api
    /\ UNCHANGED <<cp, baseline, keys, mrow, lateMove>>

\* normalize_fixture: what one request shows.
ObservationsOf(a) ==
    [status : {a.status} \cup (IF a.status \in {"1H", "2H"} THEN {"LIVE"} ELSE {}),
     minute : {MinuteOf(a.status)},
     kick   : {a.kick},
     score  : {a.score} \cup (IF a.status \in ScheduledCodes THEN {[s \in Sides |-> NoScore]}
                              ELSE {}),
     evs    : {a.evs, <<>>},
     final  : IF cp # NoFixture /\ cp.pending THEN BOOLEAN ELSE {FALSE}]

-----------------------------------------------------------------------------
(* diff_fixture                                                             *)

BlankCheckpoint ==
    [status |-> "NS", minute |-> 0, kick |-> "unknown", score |-> NoGoals, ids |-> {},
     kickoff |-> FALSE, phases |-> {}, fulltime |-> FALSE, pending |-> FALSE, version |-> 0]

Checkpoints ==
    [status : StatusCodes, minute : Nat, kick : Kickoff, score : [Sides -> Nat],
     ids : SUBSET Nat, kickoff : BOOLEAN, phases : SUBSET PhaseNames, fulltime : BOOLEAN,
     pending : BOOLEAN, version : Nat]

ASSUME NoFixtureAssumption == NoFixture \notin Checkpoints

Prior == IF cp = NoFixture THEN BlankCheckpoint ELSE cp

IsStale(o) ==
    /\ cp # NoFixture
    /\ o.minute < Prior.minute \/ StatusRank(o.status) < StatusRank(Prior.status)

\* Mutant of StatusAfter: an older status replaces a newer one.
StatusAfterMutant(o) == o.status
\* lifecycle_status: a status never goes back.
StatusAfter(o) ==
    IF StatusRank(o.status) < StatusRank(Prior.status) THEN Prior.status ELSE o.status

\* The phases that a status presupposes.
PhasesOwed(code) ==
    {ph \in PhaseNames :
        code \in CASE ph = "halftime" -> {"HT", "2H", "ET", "P"} \cup FulltimeCodes
                   [] ph = "second_half" -> {"2H", "ET", "P"} \cup FulltimeCodes
                   [] ph = "extra_time" -> {"ET", "P", "AET", "PEN"}
                   [] ph = "penalties" -> {"P", "PEN"}}

PhaseReached(phase, minute) ==
    CASE phase = "halftime" -> minute >= 45
      [] phase = "second_half" -> minute > 45
      [] phase = "extra_time" -> minute >= 90
      [] OTHER -> minute >= 120

Fact(type, key, side, score) == [type |-> type, key |-> key, side |-> side, score |-> score]
Plain(type, key) == Fact(type, key, "none", NoGoals)

\* ensure_halftime, ensure_second_half, ensure_extra_time and ensure_penalties, each of
\* which calls the one before.
Ensure(phases, ph) == IF ph \in phases THEN <<Plain(ph, <<ph>>)>> ELSE <<>>
PhaseFacts(phases) ==
    Ensure(phases, "halftime") \o Ensure(phases, "second_half")
      \o Ensure(phases, "extra_time") \o Ensure(phases, "penalties")

\* One entry of the event list: first the phases it presupposes, then the goal unless
\* it is known.  Cards and substitutions take the same way and score nothing.
AddEntry(acc, e) ==
    LET due == {ph \in acc.owed : PhaseReached(ph, e.minute)}
        known == e.id \in acc.ids
    IN [owed |-> acc.owed \ due,
        facts |-> acc.facts \o PhaseFacts(due)
                    \o (IF known THEN <<>>
                        ELSE <<Fact("goal", <<"event", e.id>>, e.side, NoGoals)>>),
        ids |-> acc.ids \cup {e.id},
        goals |-> IF known THEN acc.goals ELSE [acc.goals EXCEPT ![e.side] = @ + 1]]

Opening(o, emitScheduled) ==
    (IF emitScheduled /\ o.kick # Prior.kick
     THEN <<Plain("scheduled", <<"scheduled", Prior.version, o.kick>>)>> ELSE <<>>)
    \o (IF StatusAfter(o) \in LiveCodes \cup FulltimeCodes /\ ~ Prior.kickoff
        THEN <<Plain("kickoff", <<"kickoff">>)>> ELSE <<>>)

NoEntry(o) == [owed |-> PhasesOwed(StatusAfter(o)) \ Prior.phases,
               facts |-> <<>>, ids |-> Prior.ids, goals |-> NoGoals]

EntriesOf(o) ==
    LET after[i \in 0 .. Len(o.evs)] ==
            IF i = 0 THEN NoEntry(o) ELSE AddEntry(after[i - 1], o.evs[i])
    IN  after[Len(o.evs)]

Reported(o) ==
    [s \in Sides |-> IF IsStale(o) \/ o.score[s] = NoScore THEN Prior.score[s] ELSE o.score[s]]

\* Mutant of GoalKey: the key does not name the version it was derived from.
GoalKeyMutant(side, number, minute) == <<"score-goal", side, number, minute>>
\* The identity of a goal that only the score shows.
GoalKey(side, number, minute) == <<"score-goal", Prior.version, side, number, minute>>

\* Goals that the score has and the event list has not.
MissingGoals(side, from, to, minute) ==
    [i \in 1 .. (IF to > from THEN to - from ELSE 0) |->
        Fact("goal", GoalKey(side, from + i, minute), side, NoGoals)]

\* The score after the known goals is brought to the reported one: upwards by
\* goals, downwards by a correction.
ScoreFacts(o, goals) ==
    LET minute == Later(Prior.minute, o.minute)
        expected == [s \in Sides |-> Prior.score[s] + goals[s]]
        aligned == [s \in Sides |-> Later(expected[s], Reported(o)[s])]
    IN MissingGoals("home", expected["home"], Reported(o)["home"], minute)
       \o MissingGoals("away", expected["away"], Reported(o)["away"], minute)
       \o (IF Reported(o) # aligned
           THEN <<Fact("score_corrected",
                       <<"score-corrected", Prior.version, aligned, Reported(o)>>,
                       "none", Reported(o))>>
           ELSE <<>>)

Closing(o) ==
    IF StatusAfter(o) \in FulltimeCodes /\ ~ Prior.fulltime
    THEN <<Plain("fulltime", <<"fulltime">>)>> ELSE <<>>

FactsOf(o, emitScheduled) ==
    LET entries == EntriesOf(o)
    IN Opening(o, emitScheduled) \o entries.facts \o PhaseFacts(entries.owed)
         \o ScoreFacts(o, entries.goals) \o Closing(o)

CheckpointAfter(o, facts) ==
    LET code == StatusAfter(o)
        atFulltime == code \in FulltimeCodes
    IN [status |-> code,
        minute |-> Later(Prior.minute, o.minute),
        kick |-> o.kick,
        score |-> Reported(o),
        ids |-> EntriesOf(o).ids,
        kickoff |-> Prior.kickoff \/ code \in LiveCodes \cup FulltimeCodes,
        phases |-> Prior.phases \cup PhasesOwed(code),
        fulltime |-> Prior.fulltime \/ atFulltime,
        pending |-> ~ o.final /\ (Prior.pending \/ (atFulltime /\ ~ Prior.fulltime)),
        version |-> Prior.version + Len(facts)]

-----------------------------------------------------------------------------
(* FootballCheckpointStore.ingest: events, checkpoint and baseline marker in  *)
(* one transaction.  Facts with a key that is stored already are duplicates. *)

\* The row after one fact that was stored as the event of that version.
RowAfterFact(r, version, fact, o) ==
    IF fact.key \in keys THEN r
    ELSE reduce_match_state(r, version,
            [type |-> fact.type, version |-> version, minute |-> o.minute,
             side |-> fact.side, home |-> fact.score["home"], away |-> fact.score["away"]])

\* The row after the stored facts; the version of a fact is its place.
RowAfter(facts, o) ==
    LET after[i \in 0 .. Len(facts)] ==
            IF i = 0 THEN mrow ELSE RowAfterFact(after[i - 1], Prior.version + i, facts[i], o)
    IN  after[Len(facts)]

IngestFixture(o) ==
    LET facts == FactsOf(o, baseline \/ cp # NoFixture)
    IN /\ Prior.version + Len(facts) <= MaxFacts
       /\ cp' = CheckpointAfter(o, facts)
       /\ keys' = keys \cup {f.key : f \in ToSet(facts)}
       /\ mrow' = RowAfter(facts, o)
       /\ baseline' = TRUE
       /\ lateMove' = (lateMove \/ (Prior.kickoff /\ o.kick # Prior.kick))
       /\ UNCHANGED <<api, behind>>

\* A successful synchronisation that finds no fixture.
EstablishEmptyBaseline ==
    /\ ~ baseline
    /\ baseline' = TRUE
    /\ UNCHANGED <<api, behind, cp, keys, mrow, lateMove>>

FixtureNext ==
    \/ ApiChanges \/ EstablishEmptyBaseline
    \/ \E o \in ObservationsOf(api) \cup ObservationsOf(behind) : IngestFixture(o)

FixtureSpec == FixtureInit /\ [][FixtureNext]_fixtureVars

-----------------------------------------------------------------------------
FixtureTypeOK ==
    /\ api.status \in StatusCodes \ {"LIVE"}
    /\ behind.status \in StatusCodes \ {"LIVE"}
    /\ cp \in Checkpoints \cup {NoFixture}
    /\ baseline \in BOOLEAN
    /\ mrow \in MatchRow \cup {NoMatch}
    /\ lateMove \in BOOLEAN

\* Goals that are listed, missing from the list, cancelled, counted again or seen in a
\* stale observation: the events of diff_fixture always add up to the score of the
\* checkpoint, until the row is closed by full time.
ScoreFollowsCheckpoint ==
    cp # NoFixture =>
        \/ mrow = NoMatch /\ cp.score = NoGoals
        \/ mrow # NoMatch /\ mrow.status = "fulltime"
        \/ mrow # NoMatch /\ cp.score = [s \in Sides |-> IF s = "home" THEN mrow.home ELSE mrow.away]

\* The row is live, at half-time or over exactly when the newest status that was
\* observed says so, although phases are skipped, repeated and observed late.  (LIVE
\* has no rank, so a stale NS may follow it; the row stays live.)
LifecycleFollowsCheckpoint ==
    cp # NoFixture /\ ~ lateMove =>
        CASE cp.status \in ScheduledCodes ->
               mrow = NoMatch \/ mrow.status = (IF cp.kickoff THEN "live" ELSE "scheduled")
          [] cp.status \in LiveCodes \ {"HT"} -> mrow # NoMatch /\ mrow.status = "live"
          [] cp.status = "HT" -> mrow # NoMatch /\ mrow.status = "halftime"
          [] cp.status \in FulltimeCodes -> mrow # NoMatch /\ mrow.status = "fulltime"
          [] OTHER -> TRUE
=============================================================================
