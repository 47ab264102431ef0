---------------------------- MODULE MatchReducer ----------------------------
(***************************************************************************)
(* The pure football reducer of backend/app/projections/reducer.py: what    *)
(* one canonical event does to the current-state row of its match.          *)
(*                                                                         *)
(* A row keeps the fields that the code compares or shows: status, phase,   *)
(* minute, the two scores, the version and the id of the last event that    *)
(* changed it.  Team and competition names and the wall-clock updated_at    *)
(* are copied by the code without being looked at, and are left out.        *)
(***************************************************************************)
EXTENDS Integers

CONSTANTS EventId,   \* the canonical event ids (UUIDv7 in the code)
          NoMatch    \* a match without a row in match_state

Statuses == {"scheduled", "live", "halftime", "fulltime"}

Phases == {"pre_match", "first_half", "halftime", "second_half",
           "extra_time", "penalties", "fulltime"}

\* The suffixes the reducer tells apart ("other": every other canonical event,
\* which never reaches the reducer).
EventTypes == {"scheduled", "kickoff", "goal", "score_corrected", "card",
               "substitution", "halftime", "second_half", "extra_time",
               "penalties", "fulltime", "other"}

\* The part of an event's envelope and payload that the projector reads.  side
\* is "none" when the payload names neither team; home and away are the
\* absolute score a correction carries.
EventInfo == [type : EventTypes, version : Nat, minute : Nat,
              side : {"home", "away", "none"}, home : Nat, away : Nat]

MatchRow == [status : Statuses, phase : Phases, minute : Nat,
             home : Nat, away : Nat, version : Nat, last : EventId]

ASSUME NoMatchAssumption == NoMatch \notin MatchRow

-----------------------------------------------------------------------------
Later(m, n) == IF m >= n THEN m ELSE n

\* Mutant: full time is not final.
Advances_AfterFullTime(cur, info) ==
    \/ cur = NoMatch
    \/ info.version > cur.version

\* The version guard and the full-time guard: an event that fails them leaves
\* the row as it is.
Advances(cur, info) ==
    \/ cur = NoMatch
    \/ /\ info.version > cur.version
       /\ \/ cur.status # "fulltime"
          \/ info.type = "score_corrected"

\* A goal without a side raises ValueError; the projector re-raises it and the
\* transaction rolls back.
Raises(cur, info) ==
    /\ Advances(cur, info)
    /\ info.type = "goal"
    /\ info.side = "none"

\* The row before the branch on the event type: carried over, or fresh.
Carried(cur, e, info) ==
    IF cur = NoMatch
    THEN [status |-> "scheduled", phase |-> "pre_match", minute |-> info.minute,
          home |-> 0, away |-> 0, version |-> info.version, last |-> e]
    ELSE [cur EXCEPT !.minute = Later(cur.minute, info.minute),
                     !.version = info.version, !.last = e]

\* Mutant: the phase of a match that had not begun is left alone.
Resumed_StatusOnly(row) ==
    IF row.status \in {"fulltime", "halftime"} THEN row
    ELSE [row EXCEPT !.status = "live"]

\* What a card or a substitution says about play: the match is live, unless it
\* is at half-time or over, and a match not yet begun is in the half that its
\* minute says.
Resumed(row) ==
    IF row.status \in {"fulltime", "halftime"} THEN row
    ELSE [row EXCEPT !.status = "live",
                     !.phase = IF @ # "pre_match" THEN @
                               ELSE IF row.minute >= 45 THEN "second_half"
                               ELSE "first_half"]

\* A goal resumes play in the same way, and also ends a first half that has
\* run past its 45 minutes.
AfterGoal(row) ==
    LET r == Resumed(row)
    IN  IF /\ row.status \notin {"fulltime", "halftime"}
           /\ r.phase = "first_half"
           /\ r.minute >= 45
        THEN [r EXCEPT !.phase = "second_half"]
        ELSE r

Scored(row, side) ==
    IF side = "home" THEN [row EXCEPT !.home = @ + 1]
                     ELSE [row EXCEPT !.away = @ + 1]

\* A phase event moves status and phase, with the minute at least atLeast, but
\* never out of full time.
Moved(row, status, phase, atLeast) ==
    IF row.status = "fulltime" THEN row
    ELSE [row EXCEPT !.status = status, !.phase = phase,
                     !.minute = Later(@, atLeast)]

\* reduce_match_state for an event that advances the row and does not raise.
Reduced(cur, e, info) ==
    LET row == Carried(cur, e, info)
    IN  IF info.type = "scheduled" THEN
            [row EXCEPT !.status = "scheduled", !.phase = "pre_match"]
        ELSE IF info.type = "kickoff" THEN
            [row EXCEPT !.status = "live", !.phase = "first_half"]
        ELSE IF info.type = "goal" THEN AfterGoal(Scored(row, info.side))
        ELSE IF info.type = "score_corrected" THEN
            [row EXCEPT !.home = info.home, !.away = info.away]
        ELSE IF info.type \in {"card", "substitution"} THEN Resumed(row)
        ELSE IF info.type = "halftime" THEN Moved(row, "halftime", "halftime", 0)
        ELSE IF info.type = "second_half" THEN Moved(row, "live", "second_half", 0)
        ELSE IF info.type = "extra_time" THEN Moved(row, "live", "extra_time", 90)
        ELSE IF info.type = "penalties" THEN Moved(row, "live", "penalties", 120)
        ELSE IF info.type = "fulltime" THEN
            [row EXCEPT !.status = "fulltime", !.phase = "fulltime"]
        ELSE row

reduce_match_state(cur, e, info) ==
    IF Advances(cur, info) THEN Reduced(cur, e, info) ELSE cur
=============================================================================
