--------------------------- MODULE Providers_proofs ---------------------------
(***************************************************************************)
(* Proofs about the polls of the football API (FootballPoll) and about the   *)
(* composition of the providers (MCProviders).                              *)
(***************************************************************************)
EXTENDS MCProviders, ProviderAccount_proofs, Intake_proofs, Football_proofs

-----------------------------------------------------------------------------
(* FootballPoll                                                             *)

\* A match's code, or that it is not listed.
Codes == PollCodes \cup {"absent"}

\* A day ends after each of its times.
LEMMA MidnightIsAhead ==
    ASSUME NEW t \in Nat
    PROVE  DayOf(t) \in Nat /\ NextMidnight(t) \in Nat /\ NextMidnight(t) > t
  BY DEF DayOf, NextMidnight, InHours

\* What the API shows of a match is one of the codes.
LEMMA StatusIsCode ==
    ASSUME NEW m \in Match, NEW t \in Nat, late \in [Match -> Lateness]
    PROVE  StatusAt(m, t) \in PollCodes
<1>1. Begins(m) \in Nat
  <2>1. late[m] \in Nat
    BY FootballPollAssumption
  <2>2. KickoffAt[m] \in Nat
    BY FootballPollAssumption
  <2> QED BY <2>1, <2>2 DEF Begins
<1> QED BY <1>1 DEF StatusAt, PollCodes, InMinutes

\* The doubling of the interval stays between the interval, or its limit, and the larger of
\* the two: induction over the failures.
LEMMA DelayIsBounded ==
    ASSUME NEW p \in Nat, NEW n \in Nat
    PROVE  Delay(p, n) \in Nat /\ (Delay(p, n) >= p \/ Delay(p, n) >= MaxBackoff)
<1> DEFINE step == [w \in Nat \X (1 .. n) |-> Shorter(MaxBackoff, 2 * w[1])]
           F(f) == [i \in 0 .. n |-> IF i = 0 THEN p ELSE Shorter(MaxBackoff, 2 * f[i - 1])]
           h == CHOOSE f : f = F(f)
<1>0. MaxBackoff \in Nat
  BY DEF MaxBackoff, InHours
<1>1. step \in [Nat \X (1 .. n) -> Nat]
  BY <1>0 DEF Shorter
<1>2. PICK f \in [0 .. n -> Nat] : Course(f, p, step, n)
  <2> HIDE DEF step
  <2> QED BY <1>1, CourseExists
<1>3. f[0] = p /\ \A i \in 1 .. n : f[i] = Shorter(MaxBackoff, 2 * f[i - 1])
  <2>1. \A i \in 1 .. n : i - 1 \in 0 .. n
    OBVIOUS
  <2>2. \A i \in 1 .. n : f[i] = step[<<f[i - 1], i>>]
    BY <1>2 DEF Course
  <2> QED BY <1>2, <2>1, <2>2 DEF Course
<1>4. f = F(f)
  <2>1. \A i \in 0 .. n : i # 0 => i \in 1 .. n
    OBVIOUS
  <2> QED BY <1>3, <2>1
<1>5. h = F(h)
  <2> HIDE DEF F
  <2> QED BY <1>4
<1>6. Delay(p, n) = IF n = 0 THEN p ELSE Shorter(MaxBackoff, h[n - 1])
  BY DEF Delay
<1>7. h = [i \in 0 .. n |-> IF i = 0 THEN p ELSE Shorter(MaxBackoff, 2 * h[i - 1])]
  BY <1>5
<1> HIDE DEF h
<1>8. h[0] = p /\ \A i \in 1 .. n : h[i] = Shorter(MaxBackoff, 2 * h[i - 1])
  <2>1. \A i \in 1 .. n : i \in 0 .. n /\ i # 0
    OBVIOUS
  <2> QED BY <1>7, <2>1
<1> DEFINE S == {i \in 0 .. n : h[i] \in Nat /\ (h[i] >= p \/ h[i] >= MaxBackoff)}
<1>9. \A i \in 0 .. n : i \in S
  <2>1. 0 \in S
    BY <1>8
  <2>2. ASSUME NEW i \in 1 .. n, i - 1 \in S PROVE i \in S
    <3>1. h[i - 1] \in Nat /\ (h[i - 1] >= p \/ h[i - 1] >= MaxBackoff) /\ i \in 0 .. n
      BY <2>2
    <3>2. h[i] = Shorter(MaxBackoff, 2 * h[i - 1])
      BY <1>8
    <3>3. h[i] \in Nat /\ (h[i] >= p \/ h[i] >= MaxBackoff)
      BY <1>0, <3>1, <3>2 DEF Shorter
    <3> QED BY <3>1, <3>3
  <2> HIDE DEF S
  <2> QED BY <2>1, <2>2, UpTo
<1>10. CASE n = 0
  BY <1>6, <1>10
<1>11. CASE n # 0
  <2>1. n - 1 \in 0 .. n
    BY <1>11
  <2>2. h[n - 1] \in Nat /\ (h[n - 1] >= p \/ h[n - 1] >= MaxBackoff)
    BY <1>9, <2>1
  <2> QED BY <1>0, <1>6, <1>11, <2>2 DEF Shorter
<1> QED BY <1>10, <1>11

\* Every interval of adaptive_cadence_decision is two minutes or more.
LEMMA BaseIsLong ==
    ASSUME NEW v \in [Match -> Codes], NEW ids \in SUBSET Match, NEW t \in Nat, NEW c \in 1 .. 3
    PROVE  BaseInterval(v, ids, t, c) \in Nat /\ BaseInterval(v, ids, t, c) >= InMinutes(2)
<1> DEFINE U == {KickoffAt[m] : m \in {n \in Match : v[n] = "NS" /\ KickoffAt[n] > t}}
<1>1. U \in SUBSET Nat
  BY FootballPollAssumption
<1>2. ASSUME NEW d \in Int
      PROVE  UpcomingInterval(d) \in Nat /\ UpcomingInterval(d) >= InMinutes(2)
  BY DEF UpcomingInterval, InMinutes, InHours, Shorter, Longer
<1>3. ASSUME U # {}
      PROVE /\ UpcomingInterval(Min(U) - t) \in Nat
            /\ UpcomingInterval(Min(U) - t) >= InMinutes(2)
  <2> HIDE DEF U
  <2>1. Min(U) \in Nat
    BY <1>1, <1>3, MinIsLeast
  <2> QED BY <1>2, <2>1
<1> DEFINE B == IF U = {} THEN InHours(12) ELSE UpcomingInterval(Min(U) - t)
<1>4. B \in Nat /\ B >= InMinutes(2)
  BY <1>3 DEF InHours, InMinutes
<1>5. BaseInterval(v, ids, t, c) \in {InMinutes(2), 5 * c, InMinutes(5) * c, B}
  BY DEF BaseInterval
<1> HIDE DEF B
<1> QED BY <1>4, <1>5 DEF InMinutes

\* The cadence is two minutes or more, or waits for midnight.
LEMMA CadenceIsLong ==
    ASSUME NEW v \in [Match -> Codes], NEW ids \in SUBSET Match, NEW t \in Nat, NEW c \in 1 .. 3,
           NEW left \in Nat
    PROVE  /\ Cadence(v, ids, t, left, c) \in Nat
           /\ \/ Cadence(v, ids, t, left, c) >= InMinutes(2)
              \/ Cadence(v, ids, t, left, c) >= NextMidnight(t) - t
<1>1. QuotaFloor(v, left, c) \in Nat
  BY DEF QuotaFloor, InMinutes
<1>2. BaseInterval(v, ids, t, c) \in Nat /\ BaseInterval(v, ids, t, c) >= InMinutes(2)
  BY BaseIsLong
<1>3. InMinutes(2) \in Nat
  BY DEF InMinutes
<1> QED BY <1>1, <1>2, <1>3, MidnightIsAhead DEF Cadence, Longer

\* The ids of _pending_final_ids are in the checkpoint pending-final too, and full time has
\* been emitted for each of them: a poll that fails after its requests, or a restart, never
\* leaves a verification that only memory knows of, or one of a match that goes on.
PendingSurvives == finals \subseteq pending /\ pending \subseteq finished

\* The types of FootballPoll.
PollTypes ==
    /\ late \in [Match -> Lateness]
    /\ clock \in Nat
    /\ due \in Nat
    /\ clock <= due
    /\ known \in [Match -> Codes]
    /\ calendar \in [day : Nat, at : Nat, items : [Match -> Codes], there : BOOLEAN]
    /\ quota \in [day : Nat, used : 0 .. QuotaLimit - QuotaReserve]
    /\ cost \in 1 .. 3
    /\ failed \in Nat

\* The invariant of the polls.
PollInv == PollTypes /\ PendingSurvives /\ finished \subseteq Match

\* The calendar window, the statuses of a poll and the calendar it stores hold codes.
LEMMA ListedType ==
    ASSUME PollInv, NEW t \in Nat
    PROVE  Listed(t) \in [Match -> Codes]
<1>1. \A m \in Match : StatusAt(m, t) \in Codes
  BY StatusIsCode DEF PollInv, PollTypes, Codes
<1> QED BY <1>1 DEF Listed, PollInv, PollTypes, Codes

LEMMA SeenType ==
    ASSUME PollInv, NEW t \in Nat
    PROVE  StatusesSeen(t) \in [Match -> Codes]
<1>1. \A m \in Match : StatusAt(m, t) \in Codes
  BY StatusIsCode DEF PollInv, PollTypes, Codes
<1>2. Listed(t) \in [Match -> Codes]
  BY ListedType
<1> HIDE DEF Codes
<1> QED BY <1>1, <1>2 DEF StatusesSeen

LEMMA CalendarAfterType ==
    ASSUME PollInv, NEW t \in Nat
    PROVE  /\ CalendarAfter(t) \in [day : Nat, at : Nat, items : [Match -> Codes], there : BOOLEAN]
           /\ Stored(t, Listed(t))
                 \in [day : Nat, at : Nat, items : [Match -> Codes], there : BOOLEAN]
<1> DEFINE C == [day : Nat, at : Nat, items : [Match -> Codes], there : BOOLEAN]
<1>1. ASSUME NEW v \in [Match -> Codes] PROVE Stored(t, v) \in C
  BY MidnightIsAhead DEF Stored
<1>2. calendar \in C
  BY DEF PollInv, PollTypes
<1> HIDE DEF C
<1>3. Stored(t, StatusesSeen(t)) \in C /\ Stored(t, Listed(t)) \in C
  BY <1>1, ListedType, SeenType
<1> QED BY <1>2, <1>3 DEF CalendarAfter, C

\* What the stages of a poll cost.
LEMMA CostTypes ==
    ASSUME NEW t
    PROVE  LiveCost(t) \in 0 .. 2 /\ PollCost(t) \in Nat /\ CalendarCost(t) \in 0 .. 1
  BY DEF LiveCost, PollCost, CalendarCost, FinalCost

\* Requests are counted up to what the day allows.
LEMMA CountKeepsBudget ==
    ASSUME PollInv, NEW n \in Nat, CountRequests(n)
    PROVE  /\ quota' \in [day : Nat, used : 0 .. QuotaLimit - QuotaReserve]
           /\ QuotaLimit - quota'.used \in Nat
<1>1. QuotaLimit \in Nat /\ QuotaReserve = 5 /\ QuotaLimit > QuotaReserve
  BY FootballPollAssumption DEF QuotaReserve
<1>2. UsedOn(due) \in 0 .. QuotaLimit - QuotaReserve
  BY <1>1 DEF UsedOn, PollInv, PollTypes
<1>3. UsedOn(due) + Shorter(n, Allowed(due)) \in 0 .. QuotaLimit - QuotaReserve
  BY <1>1, <1>2 DEF Allowed, Shorter
<1>4. DayOf(due) \in Nat
  BY MidnightIsAhead DEF PollInv, PollTypes
<1>5. quota'.used \in 0 .. QuotaLimit - QuotaReserve
  BY <1>3 DEF CountRequests
<1>6. QuotaLimit - quota'.used \in Nat
  BY <1>1, <1>5
<1> QED BY <1>3, <1>4, <1>6 DEF CountRequests

\* The next poll is two minutes away or more, or after midnight.
LEMMA RescheduleIsLater ==
    ASSUME PollInv, NEW refused \in BOOLEAN, Reschedule(refused), known' \in [Match -> Codes],
           finals' \subseteq Match, cost' \in 1 .. 3, failed' \in Nat,
           QuotaLimit - quota'.used \in Nat
    PROVE  /\ clock' \in Nat /\ due' \in Nat /\ clock' <= due'
           /\ due' >= due + InMinutes(2) \/ due' >= NextMidnight(due)
<1> DEFINE left == QuotaLimit - quota'.used
           p == Cadence(known', finals', due, left, cost')
           d == Delay(p, failed')
           e == IF refused THEN Longer(d, NextMidnight(due) - due) ELSE d
<1>1. due \in Nat /\ NextMidnight(due) \in Nat /\ NextMidnight(due) > due
  BY MidnightIsAhead DEF PollInv, PollTypes
<1>2. p \in Nat /\ (p >= InMinutes(2) \/ p >= NextMidnight(due) - due)
  <2> HIDE DEF left
  <2>1. left \in Nat
    BY DEF left
  <2> QED BY <1>1, <2>1, CadenceIsLong
<1>3. clock' = due /\ due' = due + e
  BY DEF Reschedule
<1> HIDE DEF p
<1>4. d \in Nat /\ (d >= p \/ d >= MaxBackoff)
  BY <1>2, DelayIsBounded
<1> HIDE DEF d
<1>5. MaxBackoff >= InMinutes(2) /\ MaxBackoff \in Nat /\ InMinutes(2) \in Nat
  BY DEF MaxBackoff, InHours, InMinutes
<1>6. e \in Nat /\ e >= d
  BY <1>1, <1>4 DEF Longer
<1> HIDE DEF e
<1> QED BY <1>1, <1>2, <1>3, <1>4, <1>5, <1>6

\* A poll keeps the invariant and its distance from the next.
LEMMA PollKeepsInv ==
    ASSUME PollInv, FootballPollStep
    PROVE  PollInv' /\ (due' >= due + InMinutes(2) \/ due' >= NextMidnight(due))
<1> DEFINE C == [day : Nat, at : Nat, items : [Match -> Codes], there : BOOLEAN]
<1>1. /\ late \in [Match -> Lateness] /\ due \in Nat /\ known \in [Match -> Codes]
      /\ calendar \in C /\ cost \in 1 .. 3 /\ failed \in Nat
      /\ finals \subseteq pending /\ pending \subseteq finished /\ finished \subseteq Match
  BY DEF PollInv, PollTypes, PendingSurvives
<1>2. /\ StatusesSeen(due) \in [Match -> Codes]
      /\ CalendarAfter(due) \in C /\ Stored(due, Listed(due)) \in C
  BY <1>1, SeenType, CalendarAfterType
<1>3. LiveCost(due) \in 0 .. 2 /\ PollCost(due) \in Nat /\ CalendarCost(due) \in 0 .. 1
  BY CostTypes
<1> HIDE DEF C
<1>4. /\ late' \in [Match -> Lateness] /\ known' \in [Match -> Codes] /\ calendar' \in C
      /\ failed' \in Nat /\ cost' \in 1 .. 3
      /\ \E n \in Nat : CountRequests(n)
      /\ \E refused \in BOOLEAN : Reschedule(refused)
  <2>1. CASE PollSucceeds \/ IngestFails
    <3>1. late' = late /\ known' = StatusesSeen(due) /\ calendar' = CalendarAfter(due)
      BY <2>1 DEF PollSucceeds, IngestFails
    <3>2. cost' = cost \/ (cost' = LiveCost(due) /\ LiveCost(due) # 0)
      BY <2>1 DEF PollSucceeds, IngestFails
    <3>3. failed' = 0 \/ failed' = failed + 1
      BY <2>1 DEF PollSucceeds, IngestFails
    <3>4. CountRequests(PollCost(due)) /\ Reschedule(FALSE)
      BY <2>1 DEF PollSucceeds, IngestFails
    <3>5. cost' \in 1 .. 3
      BY <1>1, <1>3, <3>2
    <3>6. failed' \in Nat
      BY <1>1, <3>3
    <3> QED BY <1>1, <1>2, <1>3, <3>1, <3>4, <3>5, <3>6
  <2>2. CASE LiveRequestFails \/ CalendarRequestFails
    <3>1. late' = late /\ known' = known /\ cost' = cost /\ failed' = failed + 1
      BY <2>2 DEF LiveRequestFails, CalendarRequestFails
    <3>2. calendar' = calendar \/ calendar' = Stored(due, Listed(due))
      BY <2>2 DEF LiveRequestFails, CalendarRequestFails
    <3>3. CountRequests(CalendarCost(due) + 1) \/ CountRequests(CalendarCost(due))
      BY <2>2 DEF LiveRequestFails, CalendarRequestFails
    <3>4. CalendarCost(due) \in Nat /\ CalendarCost(due) + 1 \in Nat
      BY <1>3
    <3>5. \E n \in Nat : CountRequests(n)
      BY <3>3, <3>4
    <3>6. Reschedule(TRUE) \/ Reschedule(FALSE)
      BY <2>2 DEF LiveRequestFails, CalendarRequestFails, Reschedule
    <3>7. \E refused \in BOOLEAN : Reschedule(refused)
      BY <3>6
    <3> QED BY <1>1, <1>2, <3>1, <3>2, <3>5, <3>7
  <2> QED BY <2>1, <2>2 DEF FootballPollStep
<1>6. finals' \subseteq pending' /\ pending' \subseteq finished' /\ finished' \subseteq Match
  <2>1. CASE PollSucceeds
    BY <1>1, <2>1 DEF PollSucceeds, PendingAfter
  <2>2. CASE IngestFails \/ LiveRequestFails \/ CalendarRequestFails
    BY <1>1, <2>2 DEF IngestFails, LiveRequestFails, CalendarRequestFails, FinalIds
  <2> QED BY <2>1, <2>2 DEF FootballPollStep
<1>8. /\ quota' \in [day : Nat, used : 0 .. QuotaLimit - QuotaReserve]
      /\ QuotaLimit - quota'.used \in Nat
  BY <1>4, CountKeepsBudget
<1>10. finals' \subseteq Match
  BY <1>6
<1>11. /\ clock' \in Nat /\ due' \in Nat /\ clock' <= due'
       /\ due' >= due + InMinutes(2) \/ due' >= NextMidnight(due)
  BY <1>4, <1>8, <1>10, RescheduleIsLater
<1>12. PollTypes'
  BY <1>4, <1>8, <1>11 DEF PollTypes, C
<1>13. PendingSurvives' /\ (finished \subseteq Match)'
  BY <1>6 DEF PendingSurvives
<1> QED BY <1>11, <1>12, <1>13 DEF PollInv

\* PollInv is inductive.
LEMMA PollInvariant == FootballPollSpec => []PollInv
<1>1. FootballPollInit => PollInv
  BY FootballPollAssumption DEF FootballPollInit, PollInv, PollTypes, PendingSurvives, Codes,
     NoFixtures, QuotaReserve
<1>2. ASSUME PollInv, [FootballPollNext]_pollVars PROVE PollInv'
  <2>1. CASE FootballPollStep
    BY <1>2, <2>1, PollKeepsInv
  <2>2. CASE FootballRestart
    BY <1>2, <2>2 DEF FootballRestart, PollInv, PollTypes, PendingSurvives, Codes, NoFixtures
  <2>3. CASE UNCHANGED pollVars
    BY <1>2, <2>3 DEF pollVars, PollInv, PollTypes, PendingSurvives
  <2> QED BY <1>2, <2>1, <2>2, <2>3 DEF FootballPollNext
<1> QED BY <1>1, <1>2, PTL DEF FootballPollSpec

\* Memory, checkpoints and the counter of requests have their types: no day's requests
\* exceed what the reserve leaves, and the next poll is never in the past.
THEOREM FootballPollTypeCorrect == FootballPollSpec => []FootballPollTypeOK
<1>1. PollInv => FootballPollTypeOK
  BY DEF PollInv, PollTypes, PendingSurvives, FootballPollTypeOK, Codes
<1> QED BY <1>1, PollInvariant, PTL

\* Two polls of a process are at least two minutes apart unless midnight, and with it a new
\* budget, is between them: the intervals of adaptive_cadence_decision, the floors of the
\* quota and the backoff of next_poll_delay never ask for less (before the jitter), whatever
\* the API shows and whichever requests fail.
PollsAreApart ==
    [][clock' = due => \/ due' >= due + InMinutes(2)
                       \/ due' >= NextMidnight(due)]_pollVars

\* A restart, the only step that does not poll, leaves the time of the last poll, which is
\* before the next; so a step to the time that was due is a poll.  Polls keep their distance
\* for every quota, list of fixtures and number of failures.
THEOREM PollDistance == FootballPollSpec => PollsAreApart
<1>1. ASSUME PollInv, [FootballPollNext]_pollVars
      PROVE  [clock' = due => \/ due' >= due + InMinutes(2)
                              \/ due' >= NextMidnight(due)]_pollVars
  <2>1. CASE FootballPollStep
    BY <1>1, <2>1, PollKeepsInv
  <2>2. CASE FootballRestart
    <3>1. clock' = clock /\ clock < due /\ clock \in Nat /\ due \in Nat
      BY <1>1, <2>2 DEF FootballRestart, PollInv, PollTypes
    <3>2. clock' # due
      BY <3>1
    <3> QED BY <3>2
  <2>3. CASE UNCHANGED pollVars
    BY <2>3
  <2> QED BY <1>1, <2>1, <2>2, <2>3 DEF FootballPollNext
<1> QED BY <1>1, PollInvariant, PTL DEF FootballPollSpec, PollsAreApart

\* Verifications are never only in memory, for every number of matches and faults.
THEOREM VerificationsAreKept == FootballPollSpec => []PendingSurvives
<1>1. PollInv => PendingSurvives
  BY DEF PollInv
<1> QED BY <1>1, PollInvariant, PTL

-----------------------------------------------------------------------------
(* The composition                                                          *)

\* The providers together behave, each, as the module of the part alone says: a step of one
\* part leaves the state of every other as it is.
THEOREM PartsKeepApart ==
    ProvidersSpec => /\ AccountSpec /\ PlaybackSpec /\ GmailSpec /\ FixtureSpec /\ HistorySpec
                     /\ BudgetSpec /\ FootballPollSpec /\ GithubSpec /\ WeatherSpec
<1>1. ProvidersInit => /\ AccountInit /\ PlaybackInit /\ GmailInit /\ FixtureInit /\ HistoryInit
                       /\ BudgetInit /\ FootballPollInit /\ GithubInit /\ WeatherInit
  BY DEF ProvidersInit
<1>2. [ProvidersNext]_providerVars => [AccountNext]_accountVars
  BY DEF ProvidersNext, providerVars, AccountPart, PlaybackPart, MailPart, FixturePart,
     HistoryPart, BudgetPart, FootballPart, GithubPart, WeatherPart, BesideMail,
     BesideFootball, BesideGithub
<1>3. [ProvidersNext]_providerVars => [PlaybackNext]_playbackVars
  BY DEF ProvidersNext, providerVars, AccountPart, PlaybackPart, MailPart, FixturePart,
     HistoryPart, BudgetPart, FootballPart, GithubPart, WeatherPart, BesideMail,
     BesideFootball, BesideGithub
<1>4. [ProvidersNext]_providerVars => [GmailNext]_mailVars
  BY DEF ProvidersNext, providerVars, AccountPart, PlaybackPart, MailPart, FixturePart,
     HistoryPart, BudgetPart, FootballPart, GithubPart, WeatherPart, BesideMail,
     BesideFootball, BesideGithub
<1>5. [ProvidersNext]_providerVars => [FixtureNext]_fixtureVars
  BY DEF ProvidersNext, providerVars, AccountPart, PlaybackPart, MailPart, FixturePart,
     HistoryPart, BudgetPart, FootballPart, GithubPart, WeatherPart, BesideMail,
     BesideFootball, BesideGithub
<1>6. [ProvidersNext]_providerVars => [HistoryNext]_row
  BY DEF ProvidersNext, providerVars, AccountPart, PlaybackPart, MailPart, FixturePart,
     HistoryPart, BudgetPart, FootballPart, GithubPart, WeatherPart, BesideMail,
     BesideFootball, BesideGithub
<1>7. [ProvidersNext]_providerVars => [BudgetNext]_budgetVars
  BY DEF ProvidersNext, providerVars, AccountPart, PlaybackPart, MailPart, FixturePart,
     HistoryPart, BudgetPart, FootballPart, GithubPart, WeatherPart, BesideMail,
     BesideFootball, BesideGithub
<1>8. [ProvidersNext]_providerVars => [FootballPollNext]_pollVars
  BY DEF ProvidersNext, providerVars, AccountPart, PlaybackPart, MailPart, FixturePart,
     HistoryPart, BudgetPart, FootballPart, GithubPart, WeatherPart, BesideMail,
     BesideFootball, BesideGithub
<1>9. [ProvidersNext]_providerVars => [GithubNext]_githubVars
  BY DEF ProvidersNext, providerVars, AccountPart, PlaybackPart, MailPart, FixturePart,
     HistoryPart, BudgetPart, FootballPart, GithubPart, WeatherPart, BesideMail,
     BesideFootball, BesideGithub
<1>10. [ProvidersNext]_providerVars => [WeatherNext]_weatherVars
  BY DEF ProvidersNext, providerVars, AccountPart, PlaybackPart, MailPart, FixturePart,
     HistoryPart, BudgetPart, FootballPart, GithubPart, WeatherPart, BesideMail,
     BesideFootball, BesideGithub
<1> QED BY <1>1, <1>2, <1>3, <1>4, <1>5, <1>6, <1>7, <1>8, <1>9, <1>10, PTL
           DEF ProvidersSpec, AccountSpec, PlaybackSpec, GmailSpec, FixtureSpec, HistorySpec,
               BudgetSpec, FootballPollSpec, GithubSpec, WeatherSpec

\* Every provider keeps its rows, checkpoints, limits and program counters in their types.
THEOREM ProvidersTypeCorrect == ProvidersSpec => []ProvidersTypeOK
<1>1. /\ AccountTypeOK /\ PlaybackTypeOK /\ GmailTypeOK /\ FixtureTypeOK /\ RowTypeOK
      /\ BudgetTypeOK /\ FootballPollTypeOK /\ GithubTypeOK /\ WeatherTypeOK
      => ProvidersTypeOK
  BY DEF ProvidersTypeOK
<1> QED BY <1>1, PartsKeepApart, AccountTypeCorrect, PlaybackTypeCorrect,
           GmailTypeCorrect, FixtureTypeCorrect, HistoryInvariant, BudgetTypeCorrect,
           FootballPollTypeCorrect, GithubTypeCorrect, WeatherTypeCorrect, PTL
===============================================================================
