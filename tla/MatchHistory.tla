---------------------------- MODULE MatchHistory ----------------------------
(***************************************************************************)
(* The reducer on its own: the events of one match reach it in any order,   *)
(* repeated, late or without the ones before them, as the broker delivers   *)
(* what the provider observed.                                              *)
(***************************************************************************)
EXTENDS MatchReducer

CONSTANT Observations  \* the events that may arrive, as [info, id] pairs

ASSUME ObservationsAssumption ==
    Observations \subseteq [info : EventInfo, id : EventId]

VARIABLE row  \* the match_state row, or NoMatch

HistoryInit == row = NoMatch

\* The football branch of process_canonical_event; an event that raises leaves
\* the row alone.
Apply(o) ==
    /\ ~Raises(row, o.info)
    /\ row' = reduce_match_state(row, o.id, o.info)

HistoryNext == \E o \in Observations : Apply(o)

HistorySpec == HistoryInit /\ [][HistoryNext]_row

-----------------------------------------------------------------------------
\* The row is a row.
RowTypeOK == row \in MatchRow \cup {NoMatch}

\* Status and phase tell the same story whatever events are missing: a match
\* that the screens treat as live has a phase of play (the goal, card and
\* substitution branches of reduce_match_state derive it from the minute).
StatusMatchesPhase ==
    row # NoMatch =>
        /\ row.status = "scheduled" <=> row.phase = "pre_match"
        /\ row.status = "halftime" <=> row.phase = "halftime"
        /\ row.status = "fulltime" <=> row.phase = "fulltime"

\* "Older/equal event versions cannot regress state": every change of the row
\* raises its version, the minute never falls, and full time is final but for
\* corrections of the score.
NoRegression ==
    [][row # NoMatch =>
          /\ row' # NoMatch
          /\ row'.version > row.version
          /\ row'.minute >= row.minute
          /\ row.status = "fulltime" =>
                row'.status = "fulltime" /\ row'.phase = "fulltime"]_row
=============================================================================
