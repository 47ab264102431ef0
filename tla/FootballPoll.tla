----------------------------- MODULE FootballPoll -----------------------------
(***************************************************************************)
(* The polls of API-Football (football/source.py) and their times            *)
(* (football/cadence.py): which fixtures a poll asks for, what it keeps in  *)
(* memory and in the checkpoints, and when the next poll is due.            *)
(*                                                                          *)
(* Time is counted in units of 30 seconds, and the status that the API       *)
(* shows of a match is a function of it.  A poll is short against the time  *)
(* between polls and is one step; it may fail at each of its stages.  The   *)
(* differences between observations are the subject of FixtureDiff, the     *)
(* counting of requests over midnight that of RequestBudget.  The jitter of *)
(* the scheduler is left out.  The locked competitions are one here, and    *)
(* the catalog of leagues is taken as loaded.                               *)
(***************************************************************************)
EXTENDS Naturals, FiniteSets, FiniteSetsExt

CONSTANTS Match,
          KickoffAt,      \* the scheduled kick-off of each match
          Lateness,       \* how long after it the API may still show NS
          QuotaLimit,     \* requests that the API grants for a day (100)
          EventsInFeed,   \* the live feed carries the events of a match
          MaxPollFaults,  \* bound: polls that fail and restarts
          SeasonEnd       \* bound: polls go on until then

QuotaReserve == 5

ASSUME FootballPollAssumption ==
    /\ KickoffAt \in [Match -> Nat]
    /\ Lateness \subseteq Nat
    /\ QuotaLimit \in Nat
    /\ QuotaLimit > QuotaReserve
    /\ EventsInFeed \in BOOLEAN
    /\ MaxPollFaults \in Nat
    /\ SeasonEnd \in Nat

InMinutes(n) == 2 * n
InHours(n) == 120 * n
DayOf(t) == t \div InHours(24)
NextMidnight(t) == InHours(24) * (DayOf(t) + 1)
CalendarTTL == InHours(20)
LiveLookahead == InHours(6)
HorizonDays == 7

PollCodes == {"NS", "1H", "HT", "2H", "FT"}
InPlay == {"1H", "HT", "2H"}

VARIABLES late,        \* how late each match is; never changes
          clock,       \* the time of the last poll
          due,         \* the time of the next
          known,       \* _fixtures: the code of each match, or absent
          finals,      \* _pending_final_ids
          calendar,    \* the checkpoint calendar-window of the newest window
          finished,    \* fixture checkpoints with fulltime_emitted
          pending,     \* the checkpoint pending-final
          quota,       \* the requests of the day
          cost,        \* _last_live_request_cost
          failed,      \* polls that failed in a row
          pollFaults

pollVars == <<late, clock, due, known, finals, calendar, finished, pending, quota, cost,
              failed, pollFaults>>

NoFixtures == [m \in Match |-> "absent"]

FootballPollTypeOK ==
    /\ late \in [Match -> Lateness]
    /\ clock <= due
    /\ known \in [Match -> PollCodes \cup {"absent"}]
    /\ finals \subseteq Match
    /\ calendar.items \in [Match -> PollCodes \cup {"absent"}]
    /\ finished \subseteq Match
    /\ pending \subseteq Match
    /\ quota.used \in 0 .. QuotaLimit - QuotaReserve
    /\ cost \in 1 .. 3

FootballPollInit ==
    /\ late \in [Match -> Lateness]
    /\ clock = 0
    /\ due = 0
    /\ known = NoFixtures
    /\ finals = {}
    /\ calendar = [day |-> 0, at |-> 0, items |-> NoFixtures, there |-> FALSE]
    /\ finished = {}
    /\ pending = {}
    /\ quota = [day |-> 0, used |-> 0]
    /\ cost = 1
    /\ failed = 0
    /\ pollFaults = 0

-----------------------------------------------------------------------------
(* The API.                                                                 *)

Begins(m) == KickoffAt[m] + late[m]

StatusAt(m, t) ==
    CASE t < Begins(m) -> "NS"
      [] t >= Begins(m) /\ t < Begins(m) + InMinutes(45) -> "1H"
      [] t >= Begins(m) + InMinutes(45) /\ t < Begins(m) + InMinutes(60) -> "HT"
      [] t >= Begins(m) + InMinutes(60) /\ t < Begins(m) + InMinutes(105) -> "2H"
      [] OTHER -> "FT"

-----------------------------------------------------------------------------
(* _observe at time t                                                       *)

CalendarIsFresh(t) ==
    calendar.there /\ calendar.day = DayOf(t) /\ t < calendar.at + CalendarTTL

\* _calendar_window: the stored window of the day, or one request.
Listed(t) ==
    IF CalendarIsFresh(t) THEN calendar.items
    ELSE [m \in Match |-> IF DayOf(KickoffAt[m]) \in DayOf(t) .. DayOf(t) + HorizonDays - 1
                          THEN StatusAt(m, t) ELSE "absent"]

AroundKickoff(m, t, ahead) == t <= KickoffAt[m] + InHours(4) /\ KickoffAt[m] <= t + ahead

\* _should_poll_live
ShouldPollLive(items, t) ==
    \E m \in Match : \/ items[m] \in InPlay
                     \/ items[m] = "NS" /\ AroundKickoff(m, t, LiveLookahead)

InFeed(t) == {m \in Match : StatusAt(m, t) \in InPlay}

\* details_ids: matches of the calendar that should be in the feed and are not, and
\* those that it shows without events.
DetailIds(items, t) ==
    (IF EventsInFeed THEN {} ELSE InFeed(t))
    \cup {m \in Match \ InFeed(t) : \/ items[m] \in InPlay
                                    \/ items[m] = "NS" /\ AroundKickoff(m, t, 0)}

\* pending_final_ids
FinalIds == pending \cup finals

\* by_id
StatusesSeen(t) ==
    LET items == Listed(t)
        asked == (IF ShouldPollLive(items, t) THEN InFeed(t) \cup DetailIds(items, t) ELSE {})
                   \cup FinalIds
    IN [m \in Match |-> IF m \in asked THEN StatusAt(m, t) ELSE items[m]]

LiveCost(t) ==
    LET items == Listed(t)
    IN IF ShouldPollLive(items, t) THEN 1 + (IF DetailIds(items, t) # {} THEN 1 ELSE 0) ELSE 0

CalendarCost(t) == IF CalendarIsFresh(t) THEN 0 ELSE 1
FinalCost == IF FinalIds # {} THEN 1 ELSE 0
PollCost(t) == CalendarCost(t) + LiveCost(t) + FinalCost

-----------------------------------------------------------------------------
(* adaptive_cadence_decision and cadence                                    *)

Longer(a, b) == IF a > b THEN a ELSE b
Shorter(a, b) == IF a < b THEN a ELSE b

\* By the time to the next kick-off.
UpcomingInterval(until) ==
    CASE until <= InMinutes(5) -> 5
      [] until > InMinutes(5) /\ until <= InMinutes(30) -> InMinutes(5)
      [] until > InMinutes(30) /\ until <= InHours(3) -> InMinutes(30)
      [] until > InHours(3) /\ until <= InHours(6) -> InHours(1)
      [] OTHER -> Shorter(InHours(12), Longer(InHours(3), until - InHours(6)))

BaseInterval(items, ids, t, c) ==
    LET upcoming == {KickoffAt[m] : m \in {n \in Match : items[n] = "NS" /\ KickoffAt[n] > t}}
    IN CASE \E m \in ids : items[m] # "absent" -> InMinutes(2)
         [] (\A m \in ids : items[m] = "absent")
               /\ (\E m \in Match : items[m] \in {"1H", "2H"}) -> 5 * c
         [] (\A m \in ids : items[m] = "absent")
               /\ (\A m \in Match : items[m] \notin {"1H", "2H"})
               /\ (\E m \in Match : items[m] = "HT") -> InMinutes(5) * c
         [] OTHER -> IF upcoming = {} THEN InHours(12) ELSE UpcomingInterval(Min(upcoming) - t)

\* The floor that the rest of the quota sets.  (The limit per minute only asks for at
\* least a minute, which every interval is.)
QuotaFloor(items, left, c) ==
    LET unit == IF \E m \in Match : items[m] \in InPlay THEN c ELSE 1
    IN CASE left <= 15 -> InMinutes(10) * unit
         [] left > 15 /\ left <= 30 -> InMinutes(5) * unit
         [] left > 30 /\ left <= 50 ->
              IF \E m \in Match : items[m] \in InPlay THEN InMinutes(3) * unit ELSE 0
         [] OTHER -> 0

Cadence(items, ids, t, left, c) ==
    IF left <= QuotaReserve THEN Longer(1, NextMidnight(t) - t)
    ELSE Longer(BaseInterval(items, ids, t, c), QuotaFloor(items, left, c))

\* next_poll_delay: failures double the interval, at most to max_backoff.
MaxBackoff == InHours(12)
Delay(interval, n) ==
    LET doubled[i \in 0 .. n] ==
            IF i = 0 THEN interval ELSE Shorter(MaxBackoff, 2 * doubled[i - 1])
    IN  IF n = 0 THEN interval ELSE Shorter(MaxBackoff, doubled[n - 1])

-----------------------------------------------------------------------------
(* A poll                                                                   *)

UsedOn(t) == IF quota.day = DayOf(t) THEN quota.used ELSE 0
Allowed(t) == (QuotaLimit - QuotaReserve) - UsedOn(t)

Stored(t, items) == [day |-> DayOf(t), at |-> t, items |-> items, there |-> TRUE]

\* Mutant of PendingAfter: the verifying observation is taken like any other.
PendingAfterMutant(items) ==
    {m \in Match : m \in pending \/ (items[m] = "FT" /\ m \notin finished)}
\* store.ingest: fixture checkpoints and the pending ids in one transaction.
PendingAfter(items) ==
    {m \in Match : IF items[m] = "absent" THEN m \in pending
                   ELSE m \notin FinalIds /\ (m \in pending \/ (items[m] = "FT" /\ m \notin finished))}

\* The calendar after a poll that got through its requests.
CalendarAfter(t) ==
    IF \/ FinalIds # {}
       \/ ShouldPollLive(Listed(t), t) /\ InFeed(t) \cup DetailIds(Listed(t), t) # {}
    THEN Stored(t, StatusesSeen(t))
    ELSE IF CalendarIsFresh(t) THEN calendar ELSE Stored(t, Listed(t))

\* The next poll after one at `due`; refused says that the budget ended it.
Reschedule(refused) ==
    LET left == QuotaLimit - quota'.used
        delay == Delay(Cadence(known', finals', due, left, cost'), failed')
    IN /\ clock' = due
       /\ due' = due + (IF refused THEN Longer(delay, NextMidnight(due) - due) ELSE delay)

CountRequests(n) == quota' = [day |-> DayOf(due), used |-> UsedOn(due) + Shorter(n, Allowed(due))]

InSeason == due < SeasonEnd

PollSucceeds ==
    /\ InSeason
    /\ PollCost(due) <= Allowed(due)
    /\ CountRequests(PollCost(due))
    /\ known' = StatusesSeen(due)
    /\ calendar' = CalendarAfter(due)
    /\ finished' = finished \cup {m \in Match : known'[m] = "FT"}
    /\ pending' = PendingAfter(known')
    /\ finals' = pending'
    /\ cost' = IF LiveCost(due) = 0 THEN cost ELSE LiveCost(due)
    /\ failed' = 0
    /\ Reschedule(FALSE)
    /\ UNCHANGED <<late, pollFaults>>

\* The observations are not stored: memory and calendar are ahead of the checkpoints.
IngestFails ==
    /\ InSeason
    /\ PollCost(due) <= Allowed(due)
    /\ pollFaults < MaxPollFaults
    /\ pollFaults' = pollFaults + 1
    /\ CountRequests(PollCost(due))
    /\ known' = StatusesSeen(due)
    /\ calendar' = CalendarAfter(due)
    /\ finals' = FinalIds
    /\ cost' = IF LiveCost(due) = 0 THEN cost ELSE LiveCost(due)
    /\ failed' = failed + 1
    /\ Reschedule(FALSE)
    /\ UNCHANGED <<late, finished, pending>>

\* A request for live matches, details or final results fails, or the budget refuses it:
\* only the calendar is stored.
LiveRequestFails ==
    /\ InSeason
    /\ CalendarCost(due) <= Allowed(due)
    /\ LET refused == PollCost(due) > Allowed(due)
       IN /\ refused \/ (LiveCost(due) + FinalCost > 0 /\ pollFaults < MaxPollFaults)
          /\ pollFaults' = IF refused THEN pollFaults ELSE pollFaults + 1
          /\ CountRequests(CalendarCost(due) + 1)
          /\ calendar' = IF CalendarIsFresh(due) THEN calendar ELSE Stored(due, Listed(due))
          /\ finals' = FinalIds
          /\ failed' = failed + 1
          /\ UNCHANGED <<late, known, finished, pending, cost>>
          /\ Reschedule(refused)

\* The request of the calendar fails, or the budget refuses it.
CalendarRequestFails ==
    /\ InSeason
    /\ CalendarCost(due) > 0
    /\ LET refused == CalendarCost(due) > Allowed(due)
       IN /\ refused \/ pollFaults < MaxPollFaults
          /\ pollFaults' = IF refused THEN pollFaults ELSE pollFaults + 1
          /\ CountRequests(CalendarCost(due))
          /\ failed' = failed + 1
          /\ UNCHANGED <<late, known, finals, calendar, finished, pending, cost>>
          /\ Reschedule(refused)

\* The process ends after a poll; the next one polls at once.
FootballRestart ==
    /\ InSeason
    /\ pollFaults < MaxPollFaults
    /\ pollFaults' = pollFaults + 1
    /\ clock < due
    /\ due' = clock + 1
    /\ known' = NoFixtures
    /\ finals' = {}
    /\ cost' = 1
    /\ failed' = 0
    /\ UNCHANGED <<late, clock, calendar, finished, pending, quota>>

FootballPollStep ==
    PollSucceeds \/ IngestFails \/ LiveRequestFails \/ CalendarRequestFails

FootballPollNext == FootballPollStep \/ FootballRestart

FootballPollSpec == FootballPollInit /\ [][FootballPollNext]_pollVars

-----------------------------------------------------------------------------
\* Every match that reaches full time gets its final verification, although polls fail,
\* the budget refuses requests, the day (and with it the calendar) changes and the
\* process restarts before it (_pending_final_verification_ids, store.ingest).
VerificationFollows == \A m \in Match : m \in pending ~> m \notin pending

\* "A relevant live match refreshes every 150 seconds while more than 50 calls remain",
\* five minutes at half-time, in proportion to the cost of a poll: after a poll that
\* succeeded, no match it knows is played for longer than that before the next one.
LiveMatchIsFollowed ==
    \A m \in Match :
        known[m] # "absent" /\ failed = 0 /\ QuotaLimit - quota.used > 50 =>
            Shorter(due, Begins(m) + InMinutes(105)) <= Longer(clock, Begins(m)) + InMinutes(5) * cost
=============================================================================
