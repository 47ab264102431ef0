------------------------ MODULE MatchReducer_proofs -------------------------
(***************************************************************************)
(* Lemmas about the football reducer, for every row and every event.        *)
(***************************************************************************)
EXTENDS MatchReducer, TLAPS

\* The reducer turns a row (or no row) and an event into a row.
LEMMA ReducerType ==
    ASSUME NEW cur \in MatchRow \cup {NoMatch}, NEW e \in EventId,
           NEW info \in EventInfo
    PROVE  reduce_match_state(cur, e, info) \in MatchRow
<1> DEFINE row == Carried(cur, e, info)
<1>1. row \in MatchRow
  BY NoMatchAssumption
     DEF Carried, MatchRow, EventInfo, Later, Statuses, Phases
<1>2. ASSUME NEW r \in MatchRow
      PROVE  Resumed(r) \in MatchRow /\ AfterGoal(r) \in MatchRow
  BY ZenonT(60) DEF Resumed, AfterGoal, MatchRow, Statuses, Phases
<1>3. Scored(row, info.side) \in MatchRow
  BY <1>1 DEF Scored, MatchRow
<1>4. ASSUME NEW st \in Statuses, NEW ph \in Phases, NEW n \in Nat
      PROVE  Moved(row, st, ph, n) \in MatchRow
  BY <1>1 DEF Moved, MatchRow, Later
<1>5. Reduced(cur, e, info) \in MatchRow
  <2> HIDE DEF row
  <2>1. CASE info.type = "goal"
    BY <2>1, <1>2, <1>3 DEF Reduced, row
  <2>2. CASE info.type \in {"card", "substitution"}
    BY <2>2, <1>1, <1>2 DEF Reduced, row
  <2>3. CASE info.type \in {"halftime", "second_half", "extra_time", "penalties"}
    <3>1. {"halftime", "live"} \subseteq Statuses
      BY DEF Statuses
    <3>2. {"halftime", "second_half", "extra_time", "penalties"} \subseteq Phases
      BY DEF Phases
    <3> QED BY <2>3, <1>4, <3>1, <3>2 DEF Reduced, row
  <2>4. CASE info.type \in {"scheduled", "kickoff", "score_corrected", "fulltime", "other"}
    BY <2>4, <1>1, ZenonT(60) DEF Reduced, row, MatchRow, EventInfo, Statuses, Phases
  <2> QED BY <2>1, <2>2, <2>3, <2>4 DEF EventInfo, EventTypes
<1> QED BY <1>5, NoMatchAssumption DEF reduce_match_state, Advances

\* An event that advances the row gives it its version, and leaves a final
\* row final.
LEMMA ReducedRow ==
    ASSUME NEW cur \in MatchRow \cup {NoMatch}, NEW e \in EventId,
           NEW info \in EventInfo, Advances(cur, info)
    PROVE  /\ Reduced(cur, e, info).version = info.version
           /\ cur # NoMatch /\ cur.status = "fulltime"
                 => Reduced(cur, e, info).status = "fulltime"
<1> DEFINE row == Carried(cur, e, info)
<1>1. /\ row \in MatchRow /\ row.version = info.version
      /\ cur # NoMatch => row.status = cur.status
  BY NoMatchAssumption
     DEF Carried, MatchRow, EventInfo, Later, Statuses, Phases
<1>2. ASSUME NEW r \in MatchRow
      PROVE  Resumed(r).version = r.version /\ AfterGoal(r).version = r.version
  BY DEF Resumed, AfterGoal, MatchRow
<1>3. Scored(row, info.side) \in MatchRow /\ Scored(row, info.side).version = row.version
  BY <1>1 DEF Scored, MatchRow
<1>4. \A st, ph, n : Moved(row, st, ph, n).version = row.version
  BY <1>1 DEF Moved, MatchRow
<1>5. Reduced(cur, e, info).version = info.version
  <2> HIDE DEF row
  <2>1. CASE info.type = "goal"
    BY <2>1, <1>1, <1>2, <1>3 DEF Reduced, row
  <2>2. CASE info.type \in {"card", "substitution"}
    BY <2>2, <1>1, <1>2 DEF Reduced, row
  <2>3. CASE info.type \in {"halftime", "second_half", "extra_time", "penalties"}
    BY <2>3, <1>1, <1>4 DEF Reduced, row
  <2>4. CASE info.type \in {"scheduled", "kickoff", "score_corrected", "fulltime", "other"}
    BY <2>4, <1>1 DEF Reduced, row, MatchRow
  <2> QED BY <2>1, <2>2, <2>3, <2>4 DEF EventInfo, EventTypes
<1>6. ASSUME cur # NoMatch, cur.status = "fulltime"
      PROVE  Reduced(cur, e, info).status = "fulltime"
  <2>1. info.type = "score_corrected"
    BY <1>6 DEF Advances
  <2> QED BY <1>1, <1>6, <2>1 DEF Reduced, MatchRow
<1> QED BY <1>5, <1>6

-----------------------------------------------------------------------------
\* Status and phase of a row tell the same story.
Consistent(r) ==
    /\ r.status = "scheduled" <=> r.phase = "pre_match"
    /\ r.status = "halftime" <=> r.phase = "halftime"
    /\ r.status = "fulltime" <=> r.phase = "fulltime"

\* The reducer keeps status and phase consistent.
LEMMA ReducerConsistent ==
    ASSUME NEW cur \in MatchRow \cup {NoMatch}, NEW e \in EventId,
           NEW info \in EventInfo, cur # NoMatch => Consistent(cur)
    PROVE  Consistent(reduce_match_state(cur, e, info))
<1> DEFINE row == Carried(cur, e, info)
<1>1. row \in MatchRow /\ Consistent(row)
  BY NoMatchAssumption
     DEF Carried, MatchRow, EventInfo, Later, Statuses, Phases, Consistent
<1>2. ASSUME NEW r \in MatchRow, Consistent(r)
      PROVE  Consistent(Resumed(r)) /\ Consistent(AfterGoal(r))
  BY <1>2 DEF Resumed, AfterGoal, MatchRow, Statuses, Phases, Consistent
<1>3. Scored(row, info.side) \in MatchRow /\ Consistent(Scored(row, info.side))
  BY <1>1 DEF Scored, MatchRow, Consistent
<1>4. /\ Consistent(Moved(row, "halftime", "halftime", 0))
      /\ Consistent(Moved(row, "live", "second_half", 0))
      /\ Consistent(Moved(row, "live", "extra_time", 90))
      /\ Consistent(Moved(row, "live", "penalties", 120))
  BY <1>1 DEF Moved, MatchRow, Consistent
<1>5. Consistent(Reduced(cur, e, info))
  <2> HIDE DEF row
  <2>1. CASE info.type = "goal"
    BY <2>1, <1>2, <1>3 DEF Reduced, row
  <2>2. CASE info.type \in {"card", "substitution"}
    BY <2>2, <1>1, <1>2 DEF Reduced, row
  <2>3. CASE info.type \in {"halftime", "second_half", "extra_time", "penalties"}
    BY <2>3, <1>4 DEF Reduced, row
  <2>4. CASE info.type \in {"scheduled", "kickoff", "score_corrected", "fulltime", "other"}
    BY <2>4, <1>1 DEF Reduced, row, MatchRow, Consistent
  <2> QED BY <2>1, <2>2, <2>3, <2>4 DEF EventInfo, EventTypes
<1> QED BY <1>5, NoMatchAssumption DEF reduce_match_state, Advances

\* An event that advances a row never turns its clock back.
LEMMA ReducerMinute ==
    ASSUME NEW cur \in MatchRow, NEW e \in EventId,
           NEW info \in EventInfo, Advances(cur, info)
    PROVE  Reduced(cur, e, info).minute >= cur.minute
<1> DEFINE row == Carried(cur, e, info)
<1>1. row \in MatchRow /\ row.minute >= cur.minute
  <2>1. cur # NoMatch
    BY NoMatchAssumption
  <2>2. row = [cur EXCEPT !.minute = Later(cur.minute, info.minute),
                          !.version = info.version, !.last = e]
    BY <2>1 DEF Carried
  <2>3. /\ Later(cur.minute, info.minute) \in Nat
        /\ Later(cur.minute, info.minute) >= cur.minute
        /\ info.version \in Nat
    BY DEF MatchRow, EventInfo, Later
  <2> HIDE DEF row
  <2>4. row \in MatchRow
    BY <2>2, <2>3 DEF MatchRow
  <2>5. row.minute = Later(cur.minute, info.minute)
    BY <2>2 DEF MatchRow
  <2> QED BY <2>3, <2>4, <2>5
<1>2. ASSUME NEW r \in MatchRow
      PROVE  Resumed(r).minute = r.minute /\ AfterGoal(r).minute = r.minute
  BY DEF Resumed, AfterGoal, MatchRow
<1>3. Scored(row, info.side) \in MatchRow /\ Scored(row, info.side).minute = row.minute
  BY <1>1 DEF Scored, MatchRow
<1>4. ASSUME NEW st, NEW ph, NEW n \in Nat
      PROVE  Moved(row, st, ph, n).minute \in Nat /\ Moved(row, st, ph, n).minute >= row.minute
  BY <1>1 DEF Moved, MatchRow, Later
<1>5. cur.minute \in Nat /\ row.minute \in Nat
  BY <1>1 DEF MatchRow
<1> HIDE DEF row
<1>6. CASE info.type = "goal"
  BY <1>6, <1>1, <1>2, <1>3 DEF Reduced, row
<1>7. CASE info.type \in {"card", "substitution"}
  BY <1>7, <1>1, <1>2 DEF Reduced, row
<1>8. CASE info.type \in {"halftime", "second_half", "extra_time", "penalties"}
  <2>1. \/ Reduced(cur, e, info) = Moved(row, "halftime", "halftime", 0)
        \/ Reduced(cur, e, info) = Moved(row, "live", "second_half", 0)
        \/ Reduced(cur, e, info) = Moved(row, "live", "extra_time", 90)
        \/ Reduced(cur, e, info) = Moved(row, "live", "penalties", 120)
    BY <1>8 DEF Reduced, row
  <2> QED BY <2>1, <1>1, <1>4, <1>5
<1>9. CASE info.type \in {"scheduled", "kickoff", "score_corrected", "fulltime", "other"}
  BY <1>9, <1>1 DEF Reduced, row, MatchRow
<1> QED BY <1>6, <1>7, <1>8, <1>9 DEF EventInfo, EventTypes
=============================================================================
