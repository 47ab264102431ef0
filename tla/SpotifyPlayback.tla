--------------------------- MODULE SpotifyPlayback ---------------------------
(***************************************************************************)
(* Change detection of the Spotify poll (spotify/playback.py): the source   *)
(* remembers the last playback it saw, reports the differences as events,   *)
(* and the sink persists them under keys made of the type, Spotify's        *)
(* timestamp and the payload.                                               *)
(*                                                                          *)
(* The playback itself is external.  It gets a new timestamp when it starts,*)
(* stops or changes its item; the device and the context may change under   *)
(* the old one.  Names, artwork and progress are left out: they are no part *)
(* of any comparison.  `_previous` and `_current` always hold the same      *)
(* snapshot, so that they are one variable.                                 *)
(***************************************************************************)
EXTENDS Naturals

CONSTANTS Item, Device, Context,
          Nothing,             \* no playback
          MaxStamp,            \* bound: timestamps
          MaxMoves             \* bound: changes of device or context alone

ASSUME PlaybackAssumption ==
    /\ Nothing \notin Item \cup Device \cup Context
    /\ MaxStamp \in Nat
    /\ MaxMoves \in Nat

Snapshot == [playing : BOOLEAN, item : Item, device : Device, context : Context,
             stamp : 1 .. MaxStamp]
EventKinds == {"started", "paused", "resumed", "track", "device", "context"}

VARIABLES actual,      \* what Spotify would answer
          stamps,      \* the last timestamp given out
          moves,       \* changes of device or context so far
          seen,        \* _previous and _current
          handing,     \* event types of the observation being handed over
          persisted,   \* dedupe keys of the events stored so far
          heard,       \* what the stored events say of the playback
          missed       \* the handler failed since `seen` was last forgotten

playbackVars == <<actual, stamps, moves, seen, handing, persisted, heard, missed>>

PlaybackView == [playing : BOOLEAN, item : Item \cup {Nothing}, device : Device \cup {Nothing},
         context : Context \cup {Nothing}]

PlaybackTypeOK ==
    /\ actual \in Snapshot \cup {Nothing}
    /\ stamps \in 0 .. MaxStamp
    /\ moves \in 0 .. MaxMoves
    /\ seen \in Snapshot \cup {Nothing}
    /\ handing \in SUBSET EventKinds
    /\ heard \in PlaybackView
    /\ missed \in BOOLEAN

PlaybackInit ==
    /\ actual = Nothing
    /\ stamps = 0
    /\ moves = 0
    /\ seen = Nothing
    /\ handing = {}
    /\ persisted = {}
    /\ heard = [playing |-> FALSE, item |-> Nothing, device |-> Nothing, context |-> Nothing]
    /\ missed = FALSE

-----------------------------------------------------------------------------
\* Mutant of spotify_event_changes: a start is reported only after a pause.
spotify_event_changes_mutant(previous, current) ==
    {e \in EventKinds :
        CASE e \in {"started", "resumed"} ->
               /\ current.playing
               /\ previous # Nothing
               /\ ~ previous.playing
               /\ (e = "resumed") = (previous.item = current.item)
          [] e = "paused" -> previous # Nothing /\ previous.playing /\ ~ current.playing
          [] e = "track" -> previous = Nothing \/ previous.item # current.item
          [] e = "device" -> previous # Nothing /\ previous.device # current.device
          [] e = "context" -> previous # Nothing /\ previous.context # current.context}
spotify_event_changes(previous, current) ==
    {e \in EventKinds :
        CASE e \in {"started", "resumed"} ->
               /\ current.playing
               /\ previous = Nothing \/ ~ previous.playing
               /\ (e = "resumed") = (previous # Nothing /\ previous.item = current.item)
          [] e = "paused" -> previous # Nothing /\ previous.playing /\ ~ current.playing
          [] e = "track" -> previous = Nothing \/ previous.item # current.item
          [] e = "device" -> previous # Nothing /\ previous.device # current.device
          [] e = "context" -> previous # Nothing /\ previous.context # current.context}

\* _event_payload: what an event of each type tells.
Payload(e, s) ==
    CASE e \in {"started", "paused", "resumed"} -> <<s.playing, s.item, s.device, s.context>>
      [] e = "track" -> <<s.item>>
      [] e = "device" -> <<s.device>>
      [] e = "context" -> <<s.context>>

DedupeKey(e, s) == <<e, s.stamp, Payload(e, s)>>

\* The view of a reader of the timeline after the events `es` about snapshot s.
Told(v, es, s) ==
    LET whole == es \cap {"started", "paused", "resumed"} # {}
    IN [playing |-> IF whole THEN s.playing ELSE v.playing,
        item    |-> IF whole \/ "track" \in es THEN s.item ELSE v.item,
        device  |-> IF whole \/ "device" \in es THEN s.device ELSE v.device,
        context |-> IF whole \/ "context" \in es THEN s.context ELSE v.context]

-----------------------------------------------------------------------------
\* Play, pause, skip: a new timestamp.
PlaybackChanges ==
    /\ stamps < MaxStamp
    /\ stamps' = stamps + 1
    /\ \E s \in Snapshot :
          /\ s.stamp = stamps + 1
          /\ actual # Nothing => <<s.playing, s.item>> # <<actual.playing, actual.item>>
          /\ actual' = s
    /\ UNCHANGED <<moves, seen, handing, persisted, heard, missed>>

\* Another device or context under the same timestamp, or no active device at all.
PlaybackMoves ==
    /\ actual # Nothing
    /\ moves < MaxMoves
    /\ moves' = moves + 1
    /\ \/ actual' = Nothing
       \/ \E d \in Device, c \in Context :
             /\ <<d, c>> # <<actual.device, actual.context>>
             /\ actual' = [actual EXCEPT !.device = d, !.context = c]
    /\ UNCHANGED <<stamps, seen, handing, persisted, heard, missed>>

\* SpotifyPollSource.observe: the answer replaces what is known before anybody has
\* stored the difference.
ObservePlayback ==
    /\ handing = {}
    /\ seen' = actual
    /\ handing' = IF actual = Nothing THEN {} ELSE spotify_event_changes(seen, actual)
    /\ missed' = (missed /\ actual # Nothing)
    /\ UNCHANGED <<actual, stamps, moves, persisted, heard>>

\* SpotifyEventSink.handle: the events of an observation in one transaction; those
\* whose key is known are suppressed.
HandlePlayback ==
    /\ handing # {}
    /\ seen # Nothing
    /\ LET new == {e \in handing : DedupeKey(e, seen) \notin persisted}
       IN /\ heard' = Told(heard, new, seen)
          /\ persisted' = persisted \cup {DedupeKey(e, seen) : e \in new}
    /\ handing' = {}
    /\ UNCHANGED <<actual, stamps, moves, seen, missed>>

\* The transaction fails or the scheduler's timeout comes first: nothing is stored and
\* the next poll compares with the playback that was not reported.
HandlingFails ==
    /\ handing # {}
    /\ handing' = {}
    /\ missed' = TRUE
    /\ UNCHANGED <<actual, stamps, moves, seen, persisted, heard>>

\* The process starts again, or the user disconnects while no poll is under way.
ForgetPlayback ==
    /\ seen # Nothing
    /\ seen' = Nothing
    /\ handing' = {}
    /\ missed' = FALSE
    /\ UNCHANGED <<actual, stamps, moves, persisted, heard>>

PlaybackNext ==
    \/ PlaybackChanges \/ PlaybackMoves
    \/ ObservePlayback \/ HandlePlayback \/ HandlingFails \/ ForgetPlayback

PlaybackSpec == PlaybackInit /\ [][PlaybackNext]_playbackVars

-----------------------------------------------------------------------------
\* Whatever was started, skipped, moved or forgotten before: once a poll that saw a
\* playing item was handed over, the stored events say that this item plays.  A key
\* that suppresses an event never hides a change of it, and only a failed hand-over
\* (which replaces `_previous` all the same) breaks this.
PlayingIsShown ==
    seen # Nothing /\ handing = {} /\ ~ missed
        => /\ seen.playing => heard.playing
           /\ heard.item = seen.item
=============================================================================
