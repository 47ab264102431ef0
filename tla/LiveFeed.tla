------------------------------- MODULE LiveFeed ------------------------------
(***************************************************************************)
(* How one browser follows the Pulse Timeline and the live match state:     *)
(*                                                                         *)
(*   projector -> RealtimeManager queue -> /ws handler -> socket -> hook    *)
(*   REST /live-state and /timeline     -> useLivePulse (refresh)           *)
(*                                                                         *)
(* Notifications may be dropped (a full queue, a cut link, a restart); the  *)
(* REST snapshots repair what they miss.  Snapshots in flight carry the     *)
(* generation of their start and are discarded when a later one began or a  *)
(* notification arrived meanwhile.                                          *)
(*                                                                         *)
(* Data: a timeline row is its cursor; the live state is the match it shows *)
(* and the version of its row, version 0 being "no match".                  *)
(***************************************************************************)
EXTENDS Integers, Sequences, FiniteSets

CONSTANTS
    QueueSize,     \* maxsize of a client's queue (100 in the code)
    Page,          \* rows of one timeline page (40 in the code)
    MaxRows,       \* bound: timeline rows
    MaxResets,     \* bound: demo resets
    MaxFaults,     \* bound: failed fetches, cut links, restarts
    MaxRefreshes,  \* bound: refreshes by a timer or the user
    MaxOlder,      \* bound: pages of older rows asked for
    Unread,        \* a part of a fetch that the server has not answered
    None           \* no message, no state, no fetch

ASSUME FeedAssumption ==
    /\ {QueueSize, Page, MaxRows} \subseteq Nat \ {0}
    /\ {MaxResets, MaxFaults, MaxRefreshes, MaxOlder} \subseteq Nat

VARIABLES
    head,       \* the last cursor allocated
    rows,       \* pulse_timeline
    demo,       \* its rows that belong to the simulator
    state,      \* what /live-state answers
    unsent,     \* the notification of a committed projection, not yet published
    resetting,  \* a reset has committed and not yet announced itself
    resets,
    link,       \* "none", "up", "cut": the socket as the network sees it
    handler,    \* "none", "accepted", "live": websocket_endpoint
    asked,      \* its last_cursor parameter
    queue,      \* the client's queue
    wire,       \* sent and not yet received
    lost,       \* rows whose notification an overflow dropped, not announced yet
    pc,         \* connect: "sync", "opening", "open", "waiting"
    connection, \* the state that the header shows
    cursor, timeline, live,
    fresh,      \* the fetch of the current generation
    stale,      \* the number of superseded fetches, by kind
    hasOlder,
    older,      \* the page of older rows in flight
    faults, refreshes, olders

serverVars == <<head, rows, demo, state, unsent, resetting, resets>>
socketVars == <<link, handler, asked, queue, wire, lost>>
fetchVars  == <<fresh, stale>>
viewVars   == <<cursor, timeline, live, hasOlder>>
boundVars  == <<faults, refreshes, olders>>
vars == <<serverVars, socketVars, pc, connection, fetchVars, viewVars, older,
          boundVars>>

-----------------------------------------------------------------------------
LiveStates  == [match : 0 .. MaxResets, version : 0 .. MaxRows]
Gap         == [type |-> "resync_required"]
Item(c, st) == [type |-> "timeline.item", cursor |-> c, state |-> st]
Messages    == {Gap} \cup {Item(c, st) : c \in 1 .. MaxRows, st \in LiveStates \cup {None}}

ASSUME NoneAssumption == None \notin Messages

\* What follows a fetch: connect opens the socket, a gap's refresh declares the
\* feed live, a plain one does nothing, the user's does not even report failure.
Kinds == {"connect", "gap", "plain", "user"}

Larger(a, b) == IF a > b THEN a ELSE b
MaxOf(S)     == IF S = {} THEN 0 ELSE CHOOSE c \in S : \A d \in S : d <= c
MinOf(S)     == CHOOSE c \in S : \A d \in S : c <= d
Newest(S, n) == {c \in S : Cardinality({d \in S : d > c}) < n}
InOrder(S)   == {f \in [1 .. Cardinality(S) -> S] : \A i, j \in DOMAIN f : i < j => f[i] < f[j]}

Fault == faults < MaxFaults /\ faults' = faults + 1

NewFetch(kind, full) ==
    [kind |-> kind, full |-> full, dead |-> FALSE,
     state |-> Unread, mark |-> Unread, page |-> Unread]

Init ==
    /\ head = 0 /\ rows = {} /\ demo = {}
    /\ state = [match |-> 0, version |-> 0]
    /\ unsent = None /\ resetting = FALSE /\ resets = 0
    /\ link = "none" /\ handler = "none" /\ asked = 0
    /\ queue = <<>> /\ wire = <<>> /\ lost = {}
    /\ pc = "sync" /\ connection = "CONNECTING"
    /\ cursor = 0 /\ timeline = {} /\ live = [match |-> 0, version |-> 0]
    /\ fresh = NewFetch("connect", TRUE) /\ stale = [k \in Kinds |-> 0]
    /\ hasOlder = FALSE /\ older = None
    /\ faults = 0 /\ refreshes = 0 /\ olders = 0

-----------------------------------------------------------------------------
(* The server: projector, reset, RealtimeManager.publish                    *)

\* The projection transaction of a simulator event, which moves the match, or
\* of an event of another domain.
Project(football) ==
    /\ unsent = None /\ head < MaxRows
    /\ head' = head + 1
    /\ rows' = rows \cup {head'}
    /\ demo' = IF football THEN demo \cup {head'} ELSE demo
    /\ state' = IF football THEN [match |-> resets, version |-> head'] ELSE state
    /\ unsent' = Item(head', IF football THEN state' ELSE None)
    /\ UNCHANGED <<resetting, resets, socketVars, pc, connection, fetchVars,
                   viewVars, older, boundVars>>

CursorsOf(ms) == {m.cursor : m \in {x \in ms : x # Gap}}

\* Mutants: an overflow makes room in silence; it makes no room.
Publish_Silent(m) ==
    IF handler = "none" THEN UNCHANGED <<queue, lost>>
    ELSE IF Len(queue) >= QueueSize
    THEN /\ queue' = Append(Tail(queue), m)
         /\ lost' = lost \cup CursorsOf({Head(queue)})
    ELSE queue' = Append(queue, m) /\ UNCHANGED lost

Publish_Unbounded(m) ==
    IF handler = "none" THEN UNCHANGED <<queue, lost>>
    ELSE IF Len(queue) >= QueueSize
    THEN /\ queue' = Append(queue, Gap)
         /\ lost' = lost \cup CursorsOf({m})
    ELSE queue' = Append(queue, m) /\ UNCHANGED lost

\* A full queue loses its oldest message and the new one, and gets a request to
\* resynchronise in their place.
Publish(m) ==
    IF handler = "none" THEN UNCHANGED <<queue, lost>>
    ELSE IF Len(queue) >= QueueSize
    THEN /\ queue' = Append(Tail(queue), Gap)
         /\ lost' = lost \cup CursorsOf({Head(queue), m})
    ELSE queue' = Append(queue, m) /\ UNCHANGED lost

PublishItem ==
    /\ unsent # None
    /\ Publish(unsent)
    /\ unsent' = None
    /\ UNCHANGED <<head, rows, demo, state, resetting, resets, link, handler,
                   asked, wire, pc, connection, fetchVars, viewVars, older,
                   boundVars>>

\* POST /demo/reset: the rows go first, then the clients are told.
ResetDemo ==
    /\ ~resetting /\ resets < MaxResets
    /\ rows' = rows \ demo /\ demo' = {}
    /\ resets' = resets + 1
    /\ state' = [match |-> resets', version |-> 0]
    /\ resetting' = TRUE
    /\ UNCHANGED <<head, unsent, socketVars, pc, connection, fetchVars,
                   viewVars, older, boundVars>>

PublishReset ==
    /\ resetting
    /\ Publish(Gap)
    /\ resetting' = FALSE
    /\ UNCHANGED <<head, rows, demo, state, unsent, resets, link, handler,
                   asked, wire, pc, connection, fetchVars, viewVars, older,
                   boundVars>>

-----------------------------------------------------------------------------
(* The server: websocket_endpoint                                           *)

\* The handler subscribes as soon as the socket is accepted, before it reads.
Accept ==
    /\ pc = "opening" /\ link = "none"
    /\ link' = "up" /\ handler' = "accepted"
    /\ queue' = <<>> /\ wire' = <<>> /\ lost' = {}
    /\ UNCHANGED <<serverVars, asked, pc, connection, fetchVars, viewVars,
                   older, boundVars>>

\* Mutant: the first row after last_cursor is left out.
Replay_OffByOne ==
    /\ handler = "accepted"
    /\ IF asked > MaxOf(rows) THEN wire' = Append(wire, Gap)
       ELSE \E due \in InOrder({c \in rows : c > asked + 1}) :
               wire' = wire \o [i \in DOMAIN due |-> Item(due[i], None)]
    /\ handler' = "live"
    /\ UNCHANGED <<serverVars, link, asked, queue, lost, pc, connection,
                   fetchVars, viewVars, older, boundVars>>

\* The rows after last_cursor in cursor order, or a request to resynchronise if
\* the client is ahead.  Replayed rows carry no match state.
Replay ==
    /\ handler = "accepted"
    /\ IF asked > MaxOf(rows) THEN wire' = Append(wire, Gap)
       ELSE \E due \in InOrder({c \in rows : c > asked}) :
               wire' = wire \o [i \in DOMAIN due |-> Item(due[i], None)]
    /\ handler' = "live"
    /\ UNCHANGED <<serverVars, link, asked, queue, lost, pc, connection,
                   fetchVars, viewVars, older, boundVars>>

\* The handler's loop: one message from the queue to the socket.
Forward ==
    /\ handler = "live" /\ queue # <<>>
    /\ wire' = Append(wire, Head(queue)) /\ queue' = Tail(queue)
    /\ UNCHANGED <<serverVars, link, handler, asked, lost, pc, connection,
                   fetchVars, viewVars, older, boundVars>>

\* The queue goes with its handler.
Unsubscribed ==
    /\ link' = IF link = "up" THEN "cut" ELSE link
    /\ handler' = "none" /\ queue' = <<>> /\ lost' = {}

CutLink ==
    /\ link = "up"
    /\ Fault
    /\ Unsubscribed
    /\ UNCHANGED <<serverVars, asked, wire, pc, connection, fetchVars,
                   viewVars, older, refreshes, olders>>

\* Pending notifications die with the process, and so do unanswered fetches.
BackendRestart ==
    /\ Fault
    /\ unsent' = None /\ resetting' = FALSE
    /\ Unsubscribed
    /\ fresh' = IF fresh = None THEN None ELSE [fresh EXCEPT !.dead = TRUE]
    /\ UNCHANGED <<head, rows, demo, state, resets, asked, wire, pc, connection,
                   stale, viewVars, older, refreshes, olders>>

-----------------------------------------------------------------------------
(* The server: the REST reads of a fetch in flight                          *)

ReadState ==
    /\ fresh # None /\ ~fresh.dead /\ fresh.state = Unread
    /\ fresh' = [fresh EXCEPT !.state = state]
    /\ UNCHANGED <<serverVars, socketVars, pc, connection, stale, viewVars,
                   older, boundVars>>

\* Mutant: the page is read before the watermark.
ReadTimeline_PageFirst ==
    /\ fresh # None /\ ~fresh.dead /\ fresh.full
    /\ \/ /\ fresh.page = Unread
          /\ fresh' = [fresh EXCEPT !.page = Newest(rows, Page)]
       \/ /\ fresh.page # Unread /\ fresh.mark = Unread
          /\ fresh' = [fresh EXCEPT !.mark = MaxOf(rows)]
    /\ UNCHANGED <<serverVars, socketVars, pc, connection, stale, viewVars,
                   older, boundVars>>

\* GET /timeline reads the watermark first and the page afterwards.
ReadTimeline ==
    /\ fresh # None /\ ~fresh.dead /\ fresh.full
    /\ \/ /\ fresh.mark = Unread
          /\ fresh' = [fresh EXCEPT !.mark = MaxOf(rows)]
       \/ /\ fresh.mark # Unread /\ fresh.page = Unread
          /\ fresh' = [fresh EXCEPT !.page = Newest(rows, Page)]
    /\ UNCHANGED <<serverVars, socketVars, pc, connection, stale, viewVars,
                   older, boundVars>>

-----------------------------------------------------------------------------
(* The browser: fetches                                                     *)

mergeLiveState(current, next) ==
    IF /\ current.match = next.match
       /\ current.version > 0 /\ next.version > 0
       /\ next.version < current.version
    THEN current ELSE next

\* Mutant: the match of the notification is not compared.
mergeRealtimeState_AnyMatch(current, next) ==
    IF next.version < current.version THEN current ELSE next

mergeRealtimeState(current, next) ==
    IF \/ current.version = 0
       \/ current.match # next.match
       \/ next.version < current.version
    THEN current ELSE next

\* A new generation: the fetch in flight is superseded.
StartFetch(kind, full) ==
    /\ fresh' = NewFetch(kind, full)
    /\ stale' = IF fresh = None THEN stale
                ELSE [stale EXCEPT ![fresh.kind] = @ + 1]

\* What the caller of a fetch does next.
Continue(kind, ok) ==
    /\ connection' = IF ~ok /\ kind # "user" THEN "DEGRADED"
                     ELSE IF kind = "gap" /\ pc = "open" THEN "LIVE"
                     ELSE connection
    /\ pc' = IF kind = "connect" THEN "opening" ELSE pc
    /\ asked' = IF kind = "connect" THEN cursor' ELSE asked

\* The snapshot is applied.
FetchEnds ==
    /\ fresh # None
    /\ fresh.state # Unread
    /\ fresh.full => fresh.mark # Unread /\ fresh.page # Unread
    /\ live' = mergeLiveState(live, fresh.state)
    /\ IF fresh.full
       THEN /\ timeline' = fresh.page
            /\ hasOlder' = (Cardinality(fresh.page) >= Page)
            /\ cursor' = Larger(cursor, Larger(fresh.mark, MaxOf(fresh.page)))
       ELSE UNCHANGED <<timeline, hasOlder, cursor>>
    /\ Continue(fresh.kind, TRUE)
    /\ fresh' = None
    /\ UNCHANGED <<serverVars, link, handler, queue, wire, lost, stale, older,
                   boundVars>>

FetchFails ==
    /\ fresh # None
    /\ IF fresh.dead THEN UNCHANGED faults ELSE Fault
    /\ UNCHANGED viewVars
    /\ Continue(fresh.kind, FALSE)
    /\ fresh' = None
    /\ UNCHANGED <<serverVars, link, handler, queue, wire, lost, stale, older,
                   refreshes, olders>>

\* A superseded fetch returns, or fails (a restart fails any number of them at
\* once): its snapshot is discarded, its caller goes on.
SupersededEnds(kind, ok) ==
    /\ stale[kind] > 0
    /\ stale' = [stale EXCEPT ![kind] = @ - 1]
    /\ IF ok \/ faults > 0 THEN UNCHANGED faults ELSE Fault
    /\ UNCHANGED viewVars
    /\ Continue(kind, ok)
    /\ UNCHANGED <<serverVars, link, handler, queue, wire, lost, fresh, older,
                   refreshes, olders>>

\* The focus expires (refreshState), or the user presses refresh.
Refresh(kind) ==
    /\ refreshes < MaxRefreshes /\ refreshes' = refreshes + 1
    /\ StartFetch(kind, kind = "user")
    /\ UNCHANGED <<serverVars, socketVars, pc, connection, viewVars, older, faults, olders>>

\* loadOlder, which knows no generations.
LoadOlder ==
    /\ older = None /\ hasOlder /\ timeline # {}
    /\ olders < MaxOlder /\ olders' = olders + 1
    /\ older' = [before |-> MinOf(timeline), page |-> Unread]
    /\ UNCHANGED <<serverVars, socketVars, pc, connection, fetchVars, viewVars, faults, refreshes>>

ReadOlder ==
    /\ older # None /\ older.page = Unread
    /\ older' = [older EXCEPT !.page =
                    Newest({c \in rows : c < older.before}, Page)]
    /\ UNCHANGED <<serverVars, socketVars, pc, connection, fetchVars, viewVars,
                   boundVars>>

OlderEnds ==
    /\ older # None /\ older.page # Unread
    /\ timeline' = timeline \cup older.page
    /\ hasOlder' = (Cardinality(older.page) >= Page)
    /\ older' = None
    /\ UNCHANGED <<serverVars, socketVars, pc, connection, fetchVars, cursor,
                   live, boundVars>>

OlderFails ==
    /\ older # None
    /\ Fault
    /\ older' = None
    /\ UNCHANGED <<serverVars, socketVars, pc, connection, fetchVars, viewVars, refreshes, olders>>

-----------------------------------------------------------------------------
(* The browser: the socket                                                  *)

\* onopen
OnOpen ==
    /\ pc = "opening" /\ link = "up"
    /\ pc' = "open" /\ connection' = "LIVE"
    /\ StartFetch("plain", TRUE)
    /\ UNCHANGED <<serverVars, socketVars, viewVars, older, boundVars>>

\* onmessage: resync_required
OnResync ==
    /\ pc = "open" /\ wire # <<>> /\ Head(wire) = Gap
    /\ wire' = Tail(wire) /\ lost' = {}
    /\ connection' = "RESYNCING"
    /\ StartFetch("gap", TRUE)
    /\ UNCHANGED <<serverVars, link, handler, asked, queue, pc, viewVars, older,
                   boundVars>>

\* Mutant: the snapshot in flight is not superseded.
OnItem_SameGeneration ==
    /\ pc = "open" /\ wire # <<>> /\ Head(wire) # Gap
    /\ Head(wire).cursor > cursor
    /\ LET m == Head(wire)
       IN  /\ cursor' = m.cursor
           /\ timeline' = timeline \cup {m.cursor}
           /\ live' = IF m.state = None THEN live
                      ELSE mergeRealtimeState(live, m.state)
    /\ wire' = Tail(wire)
    /\ UNCHANGED <<serverVars, link, handler, asked, queue, lost, pc, connection,
                   fetchVars, hasOlder, older, boundVars>>

\* onmessage: timeline.item, beyond the cursor
OnItem ==
    /\ pc = "open" /\ wire # <<>> /\ Head(wire) # Gap
    /\ Head(wire).cursor > cursor
    /\ LET m == Head(wire)
       IN  /\ cursor' = m.cursor
           /\ timeline' = timeline \cup {m.cursor}
           /\ live' = IF m.state = None THEN live
                      ELSE mergeRealtimeState(live, m.state)
    /\ StartFetch("plain", FALSE)
    /\ wire' = Tail(wire)
    /\ UNCHANGED <<serverVars, link, handler, asked, queue, lost, pc, connection,
                   hasOlder, older, boundVars>>

\* onmessage: a row that the client has already
OnDuplicate ==
    /\ pc = "open" /\ wire # <<>> /\ Head(wire) # Gap
    /\ Head(wire).cursor <= cursor
    /\ wire' = Tail(wire)
    /\ UNCHANGED <<serverVars, link, handler, asked, queue, lost, pc, connection,
                   fetchVars, viewVars, older, boundVars>>

\* onclose, at any moment after the link was cut: what was still on the wire is
\* gone.
OnClose ==
    /\ pc \in {"opening", "open"} /\ link = "cut"
    /\ link' = "none" /\ wire' = <<>>
    /\ pc' = "waiting" /\ connection' = "RECONNECTING"
    /\ UNCHANGED <<serverVars, handler, asked, queue, lost, fetchVars, viewVars,
                   older, boundVars>>

\* The socket cannot be opened.
OpenFails ==
    /\ pc = "opening" /\ link = "none"
    /\ Fault
    /\ pc' = "waiting" /\ connection' = "RECONNECTING"
    /\ UNCHANGED <<serverVars, socketVars, fetchVars, viewVars, older,
                   refreshes, olders>>

\* The timer fires.  The callbacks of the old socket lose their effect.
Reconnect ==
    /\ pc = "waiting"
    /\ pc' = "sync" /\ connection' = "RESYNCING"
    /\ fresh' = NewFetch("connect", TRUE)
    /\ LET muted == stale["gap"]
                    + (IF fresh # None /\ fresh.kind \in {"gap", "plain"} THEN 1 ELSE 0)
       IN  stale' = [stale EXCEPT !["gap"] = 0, !["plain"] = @ + muted,
                        !["user"] = @ + (IF fresh # None /\ fresh.kind = "user"
                                         THEN 1 ELSE 0)]
    /\ UNCHANGED <<serverVars, socketVars, viewVars, older, boundVars>>

-----------------------------------------------------------------------------
Server ==
    \/ \E football \in BOOLEAN : Project(football)
    \/ PublishItem \/ ResetDemo \/ PublishReset
    \/ Accept \/ Replay \/ Forward \/ CutLink \/ BackendRestart
    \/ ReadState \/ ReadTimeline \/ ReadOlder

Browser ==
    \/ FetchEnds \/ FetchFails
    \/ \E kind \in Kinds, ok \in BOOLEAN : SupersededEnds(kind, ok)
    \/ \E kind \in {"plain", "user"} : Refresh(kind)
    \/ LoadOlder \/ OlderEnds \/ OlderFails
    \/ OnOpen \/ OnResync \/ OnItem \/ OnDuplicate \/ OnClose \/ OpenFails
    \/ Reconnect

Next == Server \/ Browser

Spec == Init /\ [][Next]_vars

\* The event loops of the server and of the browser run, the reconnect timer
\* fires and a fetch ends one way or the other; faults are finite in number.
Fairness ==
    /\ WF_vars(PublishItem) /\ WF_vars(PublishReset)
    /\ WF_vars(Accept) /\ WF_vars(Replay) /\ WF_vars(Forward)
    /\ WF_vars(ReadState) /\ WF_vars(ReadTimeline)
    /\ WF_vars(FetchEnds) /\ WF_vars(FetchFails)
    /\ \A kind \in Kinds : WF_vars(\E ok \in BOOLEAN : SupersededEnds(kind, ok))
    /\ WF_vars(OnOpen) /\ WF_vars(OnResync \/ OnItem \/ OnDuplicate)
    /\ WF_vars(OnClose) /\ WF_vars(Reconnect)

FairSpec == Spec /\ Fairness

-----------------------------------------------------------------------------
(* Properties                                                               *)

\* The type invariant, with the queue bound that RealtimeManager promises.
TypeOK ==
    /\ head \in 0 .. MaxRows
    /\ rows \subseteq 1 .. head /\ demo \subseteq rows
    /\ state \in LiveStates /\ live \in LiveStates
    /\ unsent \in Messages \cup {None}
    /\ resetting \in BOOLEAN /\ resets \in 0 .. MaxResets
    /\ link \in {"none", "up", "cut"}
    /\ handler \in {"none", "accepted", "live"}
    /\ asked \in 0 .. MaxRows
    /\ queue \in Seq(Messages) /\ Len(queue) <= QueueSize
    /\ wire \in Seq(Messages)
    /\ lost \subseteq 1 .. MaxRows
    /\ pc \in {"sync", "opening", "open", "waiting"}
    /\ connection \in {"CONNECTING", "LIVE", "RECONNECTING", "RESYNCING", "DEGRADED"}
    /\ cursor \in 0 .. head
    /\ timeline \subseteq 1 .. head
    /\ fresh = None \/ fresh.kind \in Kinds
    /\ stale \in [Kinds -> Nat]
    /\ hasOlder \in BOOLEAN

\* An overflow is never silent: as long as a client has not been told of a
\* dropped notification, a resync_required is on its way to it, whatever the
\* later overflows threw out of the queue.
GapIsAnnounced ==
    lost # {} => \E i \in DOMAIN (queue \o wire) : (queue \o wire)[i] = Gap

\* Nothing is on its way any more, in either direction.
Quiet ==
    /\ pc = "open" /\ link = "up" /\ handler = "live"
    /\ unsent = None /\ ~resetting
    /\ queue = <<>> /\ wire = <<>>
    /\ fresh = None /\ \A k \in Kinds : stale[k] = 0

\* A client at rest that says LIVE has no hole in its timeline: it lacks only
\* rows older than all it shows (replay from last_cursor and the snapshots of
\* useLivePulse leave none out).
TimelineIsComplete ==
    Quiet /\ connection = "LIVE" =>
        /\ \A c \in rows \ timeline, d \in timeline : c < d
        /\ rows # {} => timeline # {}

\* A snapshot never erases a row that the client had already shown, and that
\* still exists, from the newest page: a page read before a notification
\* arrived is discarded.
NoRowErased ==
    [][\A c \in timeline \ timeline' :
          c \in rows' => timeline' # {} /\ \A d \in timeline' : c < d]_vars

\* The live state never goes back: not to an older version of its match, and not
\* to a match that a reset has ended, whatever notification or snapshot of it is
\* still under way.
LiveNeverGoesBack ==
    [][/\ live'.match >= live.match
       /\ live'.match = live.match => live'.version >= live.version]_vars

\* Without overflow every row that process_canonical_event commits reaches the
\* screen, through cut links, restarts, replay and discarded snapshots, and the
\* client comes to rest.
CatchesUp == <>[](Quiet /\ rows \subseteq timeline)
=============================================================================
