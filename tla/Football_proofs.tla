--------------------------- MODULE Football_proofs ---------------------------
(***************************************************************************)
(* Proofs about the football provider.  RequestBudget: the daily quota is   *)
(* kept for every limit, reserve and length of polls that its assumptions   *)
(* allow.  MatchHistory: the reducer's promises hold for every order,       *)
(* repetition and loss of the events of a match.  FixtureDiff: the events   *)
(* that diff_fixture derives and the checkpoint it writes agree, for every  *)
(* number of goals, cancellations and stale observations.                   *)
(***************************************************************************)
EXTENDS RequestBudget, MatchHistory, FixtureDiff, MatchReducer_proofs, SequenceTheorems,
        FiniteSetTheorems, WellFoundedInduction

-----------------------------------------------------------------------------
(* RequestBudget                                                            *)

InFlight == IF request.pc = "sent" THEN 1 ELSE 0
KnowsToday(b) == b.day = today /\ b.header # NoHeader

\* A counter with the API's count of today is behind by the lost answers at most; one
\* without is behind by what a poll over midnight sent on the new day, and those.
Bounded(b) ==
    /\ KnowsToday(b) => sent[today] <= (DailyLimit - b.header) + answers + InFlight
    /\ ~ KnowsToday(b) => sent[today] <= MaxPollRequests + answers + InFlight

\* A poll over midnight has sent no more than its own requests on the new day.
Crossing ==
    request.pc # "idle" /\ request.sched # today =>
        /\ sent[today] <= request.n
        /\ request.pc = "reserved" => sent[today] + 1 <= request.n

\* A request that was reserved can be afforded, and an answer is exact.
Afforded ==
    /\ request.pc = "reserved" => sent[today] < DailyLimit /\ request.n >= 1
    /\ request.pc = "sent" => request.header # NoHeader
    /\ request.pc = "sent" /\ request.now = today => request.header = DailyLimit - sent[today]

\* Nothing is from the future.
Past ==
    /\ budget.day <= today
    /\ stored.day <= today
    /\ request.now <= today
    /\ request.sched <= today
    /\ request.pc \in {"reserved", "sent"} => request.sched <= request.now
    /\ \A d \in Days : d > today => sent[d] = 0

BudgetInv ==
    /\ BudgetTypeOK
    /\ BudgetHolds
    /\ Bounded(budget)
    /\ Bounded(stored)
    /\ Crossing
    /\ Afforded
    /\ Past

-----------------------------------------------------------------------------
\* Min of two numbers.
LEMMA MinOfTwo ==
    ASSUME NEW a \in Nat, NEW b \in Nat
    PROVE  Min({a, b}) <= a /\ Min({a, b}) <= b
<1>1. \E x \in {a, b} : \A y \in {a, b} : x <= y
  <2>1. CASE a <= b
    BY <2>1
  <2>2. CASE ~ (a <= b)
    BY <2>2
  <2> QED BY <2>1, <2>2
<1>2. \A y \in {a, b} : Min({a, b}) <= y
  BY <1>1 DEF Min
<1> QED BY <1>2

\* A counter that may request has more than the reserve, by either count.
LEMMA Affordable ==
    ASSUME NEW b \in Counters, CanRequest(b)
    PROVE  /\ b.used + SafetyReserve < DailyLimit
           /\ b.header # NoHeader => b.header > SafetyReserve
<1>1. /\ b.used \in Nat /\ b.used <= DailyLimit /\ LocalRemaining(b) \in Nat
      /\ LocalRemaining(b) = DailyLimit - b.used
  BY BudgetAssumption DEF Counters, LocalRemaining
<1>2. CASE b.header = NoHeader
  BY <1>1, <1>2, BudgetAssumption DEF CanRequest, Remaining
<1>3. CASE b.header # NoHeader
  <2>1. b.header \in Nat
    BY <1>3, BudgetAssumption DEF Counters, Headers
  <2>2. /\ Min({LocalRemaining(b), b.header}) <= LocalRemaining(b)
        /\ Min({LocalRemaining(b), b.header}) <= b.header
    BY <1>1, <2>1, MinOfTwo
  <2>3. Min({LocalRemaining(b), b.header}) > SafetyReserve
    BY <1>3 DEF CanRequest, Remaining
  <2>4. Min({LocalRemaining(b), b.header}) \in {LocalRemaining(b), b.header}
    <3>1. \E x \in {LocalRemaining(b), b.header} :
             \A y \in {LocalRemaining(b), b.header} : x <= y
      <4>1. CASE LocalRemaining(b) <= b.header
        BY <4>1, <1>1, <2>1
      <4>2. CASE ~ (LocalRemaining(b) <= b.header)
        BY <4>2, <1>1, <2>1
      <4> QED BY <4>1, <4>2
    <3> QED BY <3>1 DEF Min
  <2> QED BY <1>1, <2>1, <2>2, <2>3, <2>4, BudgetAssumption
<1> QED BY <1>2, <1>3

\* Starting the day of a counter anew, or not, for a day up to today.
LEMMA Ensured ==
    ASSUME BudgetTypeOK, NEW b \in Counters, Bounded(b), NEW d \in 0 .. LastDay
    PROVE  /\ EnsureDay(b, d) \in Counters
           /\ EnsureDay(b, d).day = d
           /\ d = today => Bounded(EnsureDay(b, d))
<1>1. /\ Fresh(d) \in Counters /\ Fresh(d).day = d /\ Fresh(d).header = NoHeader
  BY BudgetAssumption DEF Fresh, Counters, Headers
<1>2. CASE b.day = d
  BY <1>2 DEF EnsureDay
<1>3. CASE b.day # d
  BY <1>1, <1>3 DEF EnsureDay, Bounded, KnowsToday
<1> QED BY <1>2, <1>3

LEMMA BudgetBegins == BudgetInit => BudgetInv
<1> SUFFICES ASSUME BudgetInit PROVE BudgetInv
  OBVIOUS
<1> USE BudgetAssumption DEF BudgetInit
<1>1. today \in Days /\ sent \in [Days -> Nat] /\ sent[today] = 0
  BY DEF Days
<1>2. Fresh(0) \in Counters /\ Fresh(0).header = NoHeader /\ Fresh(0).day = 0
  BY DEF Fresh, Counters, Headers
<1>3. request.pc = "idle" /\ request.now = 0 /\ request.sched = 0
  BY DEF NoRequest
<1>4. BudgetTypeOK
  BY <1>1, <1>2 DEF BudgetTypeOK, NoRequest, Headers
<1>5. Bounded(budget) /\ Bounded(stored)
  BY <1>1, <1>2, <1>3 DEF Bounded, KnowsToday, InFlight
<1>6. BudgetHolds /\ Crossing /\ Afforded /\ Past
  BY <1>1, <1>2, <1>3 DEF BudgetHolds, Crossing, Afforded, Past
<1> QED BY <1>4, <1>5, <1>6 DEF BudgetInv

\* The numbers of a state.
LEMMA Numbers ==
    ASSUME BudgetTypeOK
    PROVE  /\ today \in Nat /\ today >= 1 /\ today <= LastDay
           /\ sent[today] \in Nat /\ answers \in Nat /\ answers <= MaxLost
           /\ request.n \in Nat /\ request.n <= MaxPollRequests
           /\ request.sched \in Nat /\ request.now \in Nat
           /\ budget.header # NoHeader => budget.header \in 0 .. DailyLimit
           /\ stored.header # NoHeader => stored.header \in 0 .. DailyLimit
           /\ request.header # NoHeader => request.header \in 0 .. DailyLimit
  BY BudgetAssumption DEF BudgetTypeOK, Days, Counters, Headers

\* A poll begins.
LEMMA PollStartsStep == BudgetInv /\ PollStarts => BudgetInv'
<1> SUFFICES ASSUME BudgetInv, PollStarts PROVE BudgetInv'
  OBVIOUS
<1> USE BudgetAssumption DEF BudgetInv
<1>1. /\ request.pc = "idle"
      /\ UNCHANGED <<today, budget, stored, sent, answers>>
  BY DEF PollStarts
<1>2. /\ request'.pc = "ready" /\ request'.sched = today /\ request'.now = 0
      /\ request' = [pc |-> "ready", sched |-> today, now |-> 0, n |-> 0, header |-> NoHeader]
  BY DEF PollStarts, NoRequest
<1>3. BudgetTypeOK'
  BY <1>1, <1>2 DEF BudgetTypeOK, Days, Headers
<1>4. Bounded(budget)' /\ Bounded(stored)'
  BY <1>1, <1>2 DEF Bounded, KnowsToday, InFlight
<1>5. BudgetHolds' /\ Crossing' /\ Afforded' /\ Past'
  BY <1>1, <1>2, Numbers DEF BudgetHolds, Crossing, Afforded, Past
<1> QED BY <1>3, <1>4, <1>5

\* A request is refused.
LEMMA RefuseRequestStep == BudgetInv /\ RefuseRequest => BudgetInv'
<1> SUFFICES ASSUME BudgetInv, RefuseRequest PROVE BudgetInv'
  OBVIOUS
<1> USE BudgetAssumption DEF BudgetInv
<1>1. /\ request.pc = "ready"
      /\ budget' = EnsureDay(budget, today)
      /\ UNCHANGED <<today, stored, sent, answers>>
  BY DEF RefuseRequest
<1>2. /\ request' \in [pc : {"idle", "ready", "reserved", "sent", "ended"},
                       sched : 0 .. LastDay, now : 0 .. LastDay,
                       n : 0 .. MaxPollRequests, header : Headers]
      /\ request'.pc = "ended" /\ request'.sched = request.sched
      /\ request'.now = request.now /\ request'.n = request.n
  BY DEF RefuseRequest, BudgetTypeOK
<1>3. budget' \in Counters /\ budget'.day = today /\ Bounded(budget')
  BY <1>1, Numbers, Ensured DEF BudgetTypeOK
<1>4. BudgetTypeOK'
  BY <1>1, <1>2, <1>3 DEF BudgetTypeOK
<1>5. Bounded(budget)' /\ Bounded(stored)'
  BY <1>1, <1>2, <1>3 DEF Bounded, KnowsToday, InFlight
<1>6. BudgetHolds' /\ Crossing' /\ Afforded' /\ Past'
  BY <1>1, <1>2, <1>3, Numbers DEF BudgetHolds, Crossing, Afforded, Past
<1> QED BY <1>4, <1>5, <1>6

\* A request is counted: it can be afforded whatever the counter does not know.
LEMMA ReserveRequestStep == BudgetInv /\ ReserveRequest => BudgetInv'
<1> SUFFICES ASSUME BudgetInv, ReserveRequest PROVE BudgetInv'
  OBVIOUS
<1> USE BudgetAssumption DEF BudgetInv
<1> DEFINE b == EnsureDay(budget, today)
<1>1. /\ request.pc = "ready" /\ request.n < MaxPollRequests
      /\ CanRequest(b)
      /\ budget' = [b EXCEPT !.used = @ + 1]
      /\ UNCHANGED <<today, sent, answers>>
  BY DEF ReserveRequest
<1>2. b \in Counters /\ b.day = today /\ Bounded(b)
  BY Numbers, Ensured DEF BudgetTypeOK
<1>3. b.used + SafetyReserve < DailyLimit /\ (b.header # NoHeader => b.header > SafetyReserve)
  BY <1>1, <1>2, Affordable
<1> HIDE DEF b
<1>4. /\ budget' \in Counters /\ budget'.day = today /\ budget'.header = b.header
  BY <1>1, <1>2, <1>3 DEF Counters
<1>5. sent[today] < DailyLimit
  <2>1. CASE b.header = NoHeader
    BY <1>1, <1>2, <2>1, Numbers DEF Bounded, KnowsToday, InFlight
  <2>2. CASE b.header # NoHeader
    <3>1. b.header \in Nat
      BY <1>2, <2>2 DEF Counters, Headers
    <3>2. sent[today] <= (DailyLimit - b.header) + answers
      BY <1>1, <1>2, <2>2, Numbers, <3>1 DEF Bounded, KnowsToday, InFlight
    <3> QED BY <1>3, <2>2, <3>1, <3>2, Numbers
  <2> QED BY <2>1, <2>2
<1>6. /\ request' \in [pc : {"idle", "ready", "reserved", "sent", "ended"},
                       sched : 0 .. LastDay, now : 0 .. LastDay,
                       n : 0 .. MaxPollRequests, header : Headers]
      /\ request'.sched = request.sched
      /\ \/ request'.pc = "reserved" /\ request'.n = request.n + 1 /\ request'.now = today
            /\ stored' = budget'
         \/ request'.pc = "ended" /\ request'.n = request.n /\ request'.now = request.now
            /\ stored' = stored
  <2>1. CASE /\ stored' = budget'
             /\ request' = [request EXCEPT !.pc = "reserved", !.now = today, !.n = @ + 1]
    <3>1. today \in 0 .. LastDay /\ request.n + 1 \in 0 .. MaxPollRequests
      BY <1>1, Numbers
    <3> QED BY <2>1, <3>1 DEF BudgetTypeOK
  <2>2. CASE request' = [request EXCEPT !.pc = "ended"] /\ UNCHANGED stored
    BY <2>2 DEF BudgetTypeOK
  <2> QED BY <2>1, <2>2 DEF ReserveRequest
<1>7. BudgetTypeOK'
  BY <1>1, <1>4, <1>6 DEF BudgetTypeOK
<1>8. Bounded(budget)'
  <2>1. InFlight = 0 /\ InFlight' = 0
    BY <1>1, <1>6 DEF InFlight
  <2>2. KnowsToday(budget)' <=> KnowsToday(b)
    BY <1>1, <1>2, <1>4 DEF KnowsToday
  <2> QED BY <1>1, <1>2, <1>4, <2>1, <2>2 DEF Bounded
<1>9. Bounded(stored)'
  <2>1. CASE stored' = budget'
    BY <1>8, <2>1 DEF Bounded, KnowsToday
  <2>2. CASE stored' = stored
    BY <1>1, <1>6, <2>2 DEF Bounded, KnowsToday, InFlight
  <2> QED BY <1>6, <2>1, <2>2
<1>10. BudgetHolds' /\ Past'
  <2>1. budget'.day <= today /\ stored'.day <= today
    BY <1>4, <1>6, Numbers DEF Past
  <2>2. request'.now <= today /\ request'.sched <= today
    BY <1>6, Numbers DEF Past
  <2>3. request'.pc \in {"reserved", "sent"} => request'.sched <= request'.now
    BY <1>6, Numbers DEF Past
  <2> QED BY <1>1, <2>1, <2>2, <2>3 DEF BudgetHolds, Past
<1>11. Crossing' /\ Afforded'
  BY <1>1, <1>5, <1>6, Numbers DEF Crossing, Afforded
<1> QED BY <1>7, <1>8, <1>9, <1>10, <1>11

\* A request is sent.
LEMMA SendRequestStep == BudgetInv /\ SendRequest => BudgetInv'
<1> SUFFICES ASSUME BudgetInv, SendRequest PROVE BudgetInv'
  OBVIOUS
<1> USE BudgetAssumption DEF BudgetInv
<1>1. /\ request.pc = "reserved"
      /\ sent' = [sent EXCEPT ![today] = @ + 1]
      /\ UNCHANGED <<today, budget, stored, answers>>
  BY DEF SendRequest
<1>2. /\ sent[today] < DailyLimit
      /\ sent'[today] = sent[today] + 1
      /\ \A d \in Days : d # today => sent'[d] = sent[d]
      /\ sent' \in [Days -> Nat]
  BY <1>1, Numbers DEF Afforded, BudgetTypeOK
<1>3. /\ request' \in [pc : {"idle", "ready", "reserved", "sent", "ended"},
                       sched : 0 .. LastDay, now : 0 .. LastDay,
                       n : 0 .. MaxPollRequests, header : Headers]
      /\ request'.pc = "sent" /\ request'.sched = request.sched
      /\ request'.now = request.now /\ request'.n = request.n
      /\ request'.header = DailyLimit - sent'[today] /\ request'.header # NoHeader
  <2>1. (IF sent'[today] < DailyLimit THEN DailyLimit - sent'[today] ELSE 0)
           = DailyLimit - sent'[today]
    BY <1>2, Numbers
  <2>2. DailyLimit - sent'[today] \in 0 .. DailyLimit
    BY <1>2, Numbers
  <2>3. request' = [request EXCEPT !.pc = "sent", !.header = DailyLimit - sent'[today]]
    BY <2>1 DEF SendRequest
  <2>4. DailyLimit - sent'[today] \in Headers /\ DailyLimit - sent'[today] # NoHeader
    BY <2>2 DEF Headers
  <2> QED BY <2>3, <2>4 DEF BudgetTypeOK
<1>4. BudgetTypeOK'
  BY <1>1, <1>2, <1>3 DEF BudgetTypeOK
<1>5. Bounded(budget)' /\ Bounded(stored)'
  BY <1>1, <1>2, <1>3, Numbers DEF Bounded, KnowsToday, InFlight
<1>6. BudgetHolds'
  BY <1>1, <1>2, Numbers DEF BudgetHolds
<1>7. Crossing' /\ Afforded'
  BY <1>1, <1>2, <1>3, Numbers DEF Crossing, Afforded
<1>8. Past'
  BY <1>1, <1>2, <1>3, Numbers DEF Past, Days
<1> QED BY <1>4, <1>5, <1>6, <1>7, <1>8

\* An answer brings the exact count of its day, or none.
LEMMA AnswerArrivesStep == BudgetInv /\ AnswerArrives => BudgetInv'
<1> SUFFICES ASSUME BudgetInv, AnswerArrives PROVE BudgetInv'
  OBVIOUS
<1> USE BudgetAssumption DEF BudgetInv
<1> DEFINE b == EnsureDay(budget, request.now)
<1>1. /\ request.pc = "sent"
      /\ budget' = [b EXCEPT !.header = request.header]
      /\ UNCHANGED <<today, sent>>
  BY DEF AnswerArrives
<1>2. b \in Counters /\ b.day = request.now
  BY Numbers, Ensured DEF BudgetTypeOK
<1>3. request.header \in 0 .. DailyLimit /\ request.header # NoHeader
  BY <1>1, Numbers DEF Afforded
<1> HIDE DEF b
<1>4. budget' \in Counters /\ budget'.day = request.now /\ budget'.header = request.header
  BY <1>1, <1>2, <1>3 DEF Counters, Headers
<1>5. /\ request' \in [pc : {"idle", "ready", "reserved", "sent", "ended"},
                       sched : 0 .. LastDay, now : 0 .. LastDay,
                       n : 0 .. MaxPollRequests, header : Headers]
      /\ request'.pc \in {"ready", "ended"} /\ request'.sched = request.sched
      /\ request'.now = request.now /\ request'.n = request.n
      /\ \/ stored' = budget' /\ answers' = answers
         \/ stored' = stored /\ answers' = answers + 1 /\ answers < MaxLost
  BY DEF AnswerArrives, BudgetTypeOK
<1>6. answers' \in 0 .. MaxLost /\ answers' >= answers
  BY <1>5, Numbers
<1>7. BudgetTypeOK'
  BY <1>1, <1>4, <1>5, <1>6 DEF BudgetTypeOK
<1>8. InFlight = 1 /\ InFlight' = 0
  BY <1>1, <1>5 DEF InFlight
<1>9. Bounded(budget)'
  <2>1. CASE request.now = today
    <3>1. request.header = DailyLimit - sent[today]
      BY <1>1, <2>1 DEF Afforded
    <3>2. KnowsToday(budget)'
      BY <1>1, <1>3, <1>4, <2>1 DEF KnowsToday
    <3> QED BY <1>1, <1>4, <1>6, <1>8, <3>1, <3>2, Numbers DEF Bounded
  <2>2. CASE request.now # today
    <3>1. ~ KnowsToday(budget)'
      BY <1>1, <1>4, <2>2 DEF KnowsToday
    <3>2. request.sched # today => sent[today] <= MaxPollRequests
      BY <1>1, Numbers DEF Crossing
    <3>3. request.sched # today
      BY <1>1, <2>2, Numbers DEF Past
    <3> QED BY <1>1, <1>6, <1>8, <3>1, <3>2, <3>3, Numbers DEF Bounded
  <2> QED BY <2>1, <2>2
<1>10. Bounded(stored)'
  <2>1. CASE stored' = budget'
    BY <1>9, <2>1 DEF Bounded, KnowsToday
  <2>2. CASE stored' = stored /\ answers' = answers + 1
    <3>1. KnowsToday(stored)' <=> KnowsToday(stored)
      BY <1>1, <2>2 DEF KnowsToday
    <3> QED BY <1>1, <1>8, <2>2, <3>1, Numbers DEF Bounded, KnowsToday
  <2> QED BY <1>5, <2>1, <2>2
<1>11. BudgetHolds' /\ Crossing' /\ Afforded' /\ Past'
  BY <1>1, <1>4, <1>5, Numbers DEF BudgetHolds, Crossing, Afforded, Past
<1> QED BY <1>7, <1>9, <1>10, <1>11

\* A poll ends without an answer.
LEMMA EndsStep == BudgetInv /\ (AnswerLost \/ PollEnds) => BudgetInv'
<1> SUFFICES ASSUME BudgetInv, AnswerLost \/ PollEnds PROVE BudgetInv'
  OBVIOUS
<1> USE BudgetAssumption DEF BudgetInv
<1>1. /\ UNCHANGED <<today, budget, stored, sent>>
      /\ request' = [request EXCEPT !.pc = "ended"]
      /\ request.pc # "idle"
      /\ \/ request.pc = "sent" /\ answers' = answers + 1 /\ answers < MaxLost
         \/ request.pc # "sent" /\ answers' = answers
  BY DEF AnswerLost, PollEnds
<1>2. /\ request' \in [pc : {"idle", "ready", "reserved", "sent", "ended"},
                       sched : 0 .. LastDay, now : 0 .. LastDay,
                       n : 0 .. MaxPollRequests, header : Headers]
      /\ request'.pc = "ended" /\ request'.sched = request.sched
      /\ request'.now = request.now /\ request'.n = request.n
  BY <1>1 DEF BudgetTypeOK
<1>3. answers' \in 0 .. MaxLost
  BY <1>1, Numbers
<1>4. BudgetTypeOK'
  BY <1>1, <1>2, <1>3 DEF BudgetTypeOK
<1>5. answers' + InFlight' = answers + InFlight /\ InFlight' = 0 /\ InFlight \in {0, 1}
  BY <1>1, <1>2, Numbers DEF InFlight
<1>6. Bounded(budget)' /\ Bounded(stored)'
  <2>1. \A x \in Int : x + answers + InFlight = x + answers' + InFlight'
    BY <1>3, <1>5, Numbers
  <2>2. /\ KnowsToday(budget)' <=> KnowsToday(budget)
        /\ KnowsToday(stored)' <=> KnowsToday(stored)
    BY <1>1 DEF KnowsToday
  <2>3. /\ KnowsToday(budget) => DailyLimit - budget.header \in Int
        /\ KnowsToday(stored) => DailyLimit - stored.header \in Int
    BY Numbers DEF KnowsToday
  <2> QED BY <1>1, <2>1, <2>2, <2>3 DEF Bounded
<1>7. BudgetHolds' /\ Crossing' /\ Afforded' /\ Past'
  BY <1>1, <1>2, Numbers DEF BudgetHolds, Crossing, Afforded, Past
<1> QED BY <1>4, <1>6, <1>7

\* After a poll over midnight the counter is put back to the day before.
LEMMA AskCadenceStep == BudgetInv /\ AskCadence => BudgetInv'
<1> SUFFICES ASSUME BudgetInv, AskCadence PROVE BudgetInv'
  OBVIOUS
<1> USE BudgetAssumption DEF BudgetInv
<1>1. /\ request.pc = "ended"
      /\ budget' = EnsureDay(budget, request.sched)
      /\ request' = NoRequest
      /\ UNCHANGED <<today, stored, sent, answers>>
  BY DEF AskCadence
<1>3. /\ budget' \in Counters /\ budget'.day = request.sched
      /\ request.sched = today => Bounded(budget')
  BY <1>1, Numbers, Ensured DEF BudgetTypeOK
<1>4. request'.pc = "idle" /\ request'.now = 0 /\ request'.sched = 0
  BY <1>1 DEF NoRequest
<1>5. request' \in [pc : {"idle", "ready", "reserved", "sent", "ended"},
                    sched : 0 .. LastDay, now : 0 .. LastDay,
                    n : 0 .. MaxPollRequests, header : Headers]
  BY <1>1 DEF NoRequest, Headers
<1>6. BudgetTypeOK'
  BY <1>1, <1>3, <1>5 DEF BudgetTypeOK
<1>7. InFlight = 0 /\ InFlight' = 0
  BY <1>1, <1>4 DEF InFlight
<1>8. Bounded(budget)'
  <2>1. CASE request.sched = today
    BY <1>1, <1>3, <1>7, <2>1 DEF Bounded, KnowsToday
  <2>2. CASE request.sched # today
    <3>1. sent[today] <= MaxPollRequests
      BY <1>1, <2>2, Numbers DEF Crossing
    <3>2. ~ KnowsToday(budget)'
      BY <1>1, <1>3, <2>2 DEF KnowsToday
    <3> QED BY <1>1, <1>7, <3>1, <3>2, Numbers DEF Bounded
  <2> QED BY <2>1, <2>2
<1>9. Bounded(stored)'
  BY <1>1, <1>7 DEF Bounded, KnowsToday
<1>10. BudgetHolds' /\ Crossing' /\ Afforded' /\ Past'
  BY <1>1, <1>3, <1>4, Numbers DEF BudgetHolds, Crossing, Afforded, Past
<1> QED BY <1>6, <1>8, <1>9, <1>10

\* A new day: nothing was sent on it, and no counter knows it.
LEMMA MidnightStep == BudgetInv /\ Midnight => BudgetInv'
<1> SUFFICES ASSUME BudgetInv, Midnight PROVE BudgetInv'
  OBVIOUS
<1> USE BudgetAssumption DEF BudgetInv
<1>1. /\ today < LastDay /\ today' = today + 1 /\ answers' = 0
      /\ UNCHANGED <<budget, stored, sent, request>>
  BY DEF Midnight
<1>2. today' \in Days /\ today' > today /\ sent'[today'] = 0
  BY <1>1, Numbers DEF Days, Past
<1>3. BudgetTypeOK'
  BY <1>1, <1>2 DEF BudgetTypeOK
<1>5. Bounded(budget)' /\ Bounded(stored)'
  <2>1. budget.day \in Nat /\ stored.day \in Nat
    BY DEF BudgetTypeOK, Counters
  <2>2. ~ KnowsToday(budget)' /\ ~ KnowsToday(stored)'
    BY <1>1, <1>2, <2>1, Numbers DEF KnowsToday, Past
  <2>3. 0 <= MaxPollRequests + answers' + InFlight'
    BY <1>1 DEF InFlight
  <2> QED BY <1>2, <2>2, <2>3 DEF Bounded
<1>6. BudgetHolds' /\ Past'
  BY <1>1, <1>2, Numbers, SMTT(30) DEF BudgetHolds, Past, Days, BudgetTypeOK, Counters
<1>7. Crossing' /\ Afforded'
  BY <1>1, <1>2, Numbers DEF Crossing, Afforded, Past
<1> QED BY <1>3, <1>5, <1>6, <1>7

\* A new process takes up the stored counter.
LEMMA BudgetRestartStep == BudgetInv /\ BudgetRestart => BudgetInv'
<1> SUFFICES ASSUME BudgetInv, BudgetRestart PROVE BudgetInv'
  OBVIOUS
<1> USE BudgetAssumption DEF BudgetInv
<1>1. /\ request.pc = "sent" => answers < MaxLost /\ answers' = answers + 1
      /\ request.pc # "sent" => answers' = answers
      /\ budget' = EnsureDay(stored, today)
      /\ request' = NoRequest
      /\ UNCHANGED <<today, stored, sent>>
  BY DEF BudgetRestart
<1>2. request'.pc = "idle" /\ request'.now = 0 /\ request'.sched = 0
  BY <1>1 DEF NoRequest
<1>3. request' \in [pc : {"idle", "ready", "reserved", "sent", "ended"},
                    sched : 0 .. LastDay, now : 0 .. LastDay,
                    n : 0 .. MaxPollRequests, header : Headers]
  BY <1>1 DEF NoRequest, Headers
<1>4. answers' \in 0 .. MaxLost
  BY <1>1, Numbers
<1>5. budget' \in Counters /\ budget'.day = today /\ Bounded(budget')
  BY <1>1, Numbers, Ensured DEF BudgetTypeOK
<1>6. BudgetTypeOK'
  BY <1>1, <1>3, <1>4, <1>5 DEF BudgetTypeOK
<1>7. answers' + InFlight' = answers + InFlight /\ InFlight' = 0 /\ InFlight \in {0, 1}
  BY <1>1, <1>2, Numbers DEF InFlight
<1>8. Bounded(budget)' /\ Bounded(stored)'
  <2>1. \A x \in Int : x + answers + InFlight = x + answers' + InFlight'
    BY <1>4, <1>7, Numbers
  <2>2. /\ KnowsToday(budget)' <=> KnowsToday(budget')
        /\ KnowsToday(stored)' <=> KnowsToday(stored)
    BY <1>1 DEF KnowsToday
  <2>3. /\ KnowsToday(budget') => DailyLimit - budget'.header \in Int
        /\ KnowsToday(stored) => DailyLimit - stored.header \in Int
    BY <1>5, Numbers DEF KnowsToday, Counters, Headers
  <2>4. sent[today] \in Nat /\ sent'[today'] = sent[today]
    BY <1>1, Numbers
  <2> QED BY <1>1, <1>5, <2>1, <2>2, <2>3, <2>4 DEF Bounded
<1>9. BudgetHolds' /\ Crossing' /\ Afforded' /\ Past'
  BY <1>1, <1>2, <1>5, Numbers DEF BudgetHolds, Crossing, Afforded, Past
<1> QED BY <1>6, <1>8, <1>9

LEMMA BudgetStep == BudgetInv /\ [BudgetNext]_budgetVars => BudgetInv'
<1>1. ASSUME BudgetInv, UNCHANGED budgetVars PROVE BudgetInv'
  <2> USE <1>1 DEF budgetVars, BudgetInv
  <2>1. BudgetTypeOK'
    BY DEF BudgetTypeOK
  <2>2. Bounded(budget)' /\ Bounded(stored)'
    BY DEF Bounded, KnowsToday, InFlight
  <2>3. BudgetHolds' /\ Crossing' /\ Afforded' /\ Past'
    BY DEF BudgetHolds, Crossing, Afforded, Past
  <2> QED BY <2>1, <2>2, <2>3
<1>2. BudgetInv /\ BudgetNext => BudgetInv'
  BY PollStartsStep, RefuseRequestStep, ReserveRequestStep, SendRequestStep,
     AnswerArrivesStep, EndsStep, AskCadenceStep, MidnightStep, BudgetRestartStep
     DEF BudgetNext
<1> QED BY <1>1, <1>2

LEMMA BudgetInvariant == BudgetSpec => []BudgetInv
  BY BudgetBegins, BudgetStep, PTL DEF BudgetSpec

-----------------------------------------------------------------------------
\* Type correctness of the counters and the request.
THEOREM BudgetTypeCorrect == BudgetSpec => []BudgetTypeOK
<1>1. BudgetInv => BudgetTypeOK
  BY DEF BudgetInv
<1> QED BY <1>1, BudgetInvariant, PTL

\* The quota of a day is never exceeded, over midnights, restarts and lost answers, for
\* every limit, reserve and length of polls that BudgetAssumption allows.
THEOREM QuotaIsKept == BudgetSpec => []BudgetHolds
<1>1. BudgetInv => BudgetHolds
  BY DEF BudgetInv
<1> QED BY <1>1, BudgetInvariant, PTL

-----------------------------------------------------------------------------
(* MatchHistory                                                             *)

\* One event keeps the row a consistent row.
LEMMA HistoryStep ==
    ASSUME RowTypeOK, StatusMatchesPhase, [HistoryNext]_row
    PROVE  RowTypeOK' /\ StatusMatchesPhase'
<1>1. CASE UNCHANGED row
  BY <1>1 DEF RowTypeOK, StatusMatchesPhase
<1>2. CASE HistoryNext
  <2>1. PICK o \in Observations : Apply(o)
    BY <1>2 DEF HistoryNext
  <2>2. o.info \in EventInfo /\ o.id \in EventId
    BY ObservationsAssumption
  <2>3. row' = reduce_match_state(row, o.id, o.info)
    BY <2>1 DEF Apply
  <2>4. row \in MatchRow \cup {NoMatch} /\ (row # NoMatch => Consistent(row))
    BY DEF RowTypeOK, StatusMatchesPhase, Consistent
  <2>5. row' \in MatchRow
    BY <2>2, <2>3, <2>4, ReducerType
  <2>6. Consistent(reduce_match_state(row, o.id, o.info))
    BY <2>2, <2>4, ReducerConsistent
  <2>7. StatusMatchesPhase'
    BY <2>3, <2>6 DEF Consistent, StatusMatchesPhase
  <2> QED BY <2>5, <2>7 DEF RowTypeOK
<1> QED BY <1>1, <1>2

\* The row is a consistent row after every history of events.
LEMMA HistoryInvariant == HistorySpec => [](RowTypeOK /\ StatusMatchesPhase)
<1>1. HistoryInit => RowTypeOK /\ StatusMatchesPhase
  BY DEF HistoryInit, RowTypeOK, StatusMatchesPhase
<1>2. (RowTypeOK /\ StatusMatchesPhase) /\ [HistoryNext]_row
         => (RowTypeOK /\ StatusMatchesPhase)'
  BY HistoryStep
<1> QED BY <1>1, <1>2, PTL DEF HistorySpec

\* Status and phase agree after any history: no late, lost or repeated event
\* leaves a match that is live without a phase of play, or the reverse.
THEOREM PhaseFollowsStatus == HistorySpec => []StatusMatchesPhase
  BY HistoryInvariant, PTL

\* No event, however late, takes the row back to an older version or minute or
\* out of full time.
THEOREM RowNeverRegresses == HistorySpec => NoRegression
<1> DEFINE Forward ==
        row # NoMatch =>
          /\ row' # NoMatch
          /\ row'.version > row.version
          /\ row'.minute >= row.minute
          /\ row.status = "fulltime" =>
                row'.status = "fulltime" /\ row'.phase = "fulltime"
<1>1. RowTypeOK /\ RowTypeOK' /\ StatusMatchesPhase' /\ [HistoryNext]_row => [Forward]_row
  <2> SUFFICES ASSUME RowTypeOK, StatusMatchesPhase', [HistoryNext]_row,
                      row' # row, row # NoMatch
               PROVE  Forward
    OBVIOUS
  <2>1. PICK o \in Observations : Apply(o)
    BY DEF HistoryNext
  <2>2. o.info \in EventInfo /\ o.id \in EventId /\ row \in MatchRow
    BY ObservationsAssumption DEF RowTypeOK
  <2>3. row' = reduce_match_state(row, o.id, o.info)
    BY <2>1 DEF Apply
  <2>4. Advances(row, o.info) /\ row' = Reduced(row, o.id, o.info)
    BY <2>3 DEF reduce_match_state
  <2>5. row' # NoMatch
    BY <2>2, <2>3, ReducerType, NoMatchAssumption
  <2>6. row'.version > row.version
    BY <2>2, <2>4, ReducedRow DEF Advances
  <2>7. row'.minute >= row.minute
    BY <2>2, <2>4, ReducerMinute
  <2>8. row.status = "fulltime" => row'.status = "fulltime"
    BY <2>2, <2>4, ReducedRow
  <2> QED BY <2>5, <2>6, <2>7, <2>8 DEF StatusMatchesPhase
<1> HIDE DEF Forward
<1>2. HistorySpec => [][Forward]_row
  BY <1>1, HistoryInvariant, PTL DEF HistorySpec
<1> QED BY <1>2 DEF NoRegression, Forward

-----------------------------------------------------------------------------
(* FixtureDiff: recursive functions and sequences                           *)

\* A set of naturals that is not empty has a least element.
LEMMA LeastNumber ==
    ASSUME NEW S \in SUBSET Nat, S # {}
    PROVE  \E x \in S : \A y \in S : x <= y
<1> DEFINE R == OpToRel(<, Nat)
<1>1. \A x, y \in Nat : <<y, x>> \in R <=> y < x
  BY DEF OpToRel
<1>2. IsWellFoundedOn(R, Nat)
  BY NatLessThanWellFounded
<1> HIDE DEF R
<1>3. PICK x \in S : \A y \in S : ~(<<y, x>> \in R)
  BY <1>2, WFMin
<1>4. ASSUME NEW y \in S PROVE x <= y
  <2>1. x \in Nat /\ y \in Nat
    OBVIOUS
  <2>2. ~(y < x)
    BY <1>1, <1>3, <2>1
  <2> QED BY <2>1, <2>2
<1> QED BY <1>4

\* A set that holds 0 and the successors of its members up to n holds 0 .. n.
LEMMA UpTo ==
    ASSUME NEW n \in Nat, NEW S, 0 \in S, \A i \in 1 .. n : i - 1 \in S => i \in S
    PROVE  \A i \in 0 .. n : i \in S
<1> SUFFICES ASSUME {i \in 0 .. n : i \notin S} # {} PROVE FALSE
  OBVIOUS
<1>1. PICK k \in {i \in 0 .. n : i \notin S} : \A j \in {i \in 0 .. n : i \notin S} : k <= j
  <2>1. {i \in 0 .. n : i \notin S} \in SUBSET Nat
    OBVIOUS
  <2> QED BY <2>1, LeastNumber
<1>2. k # 0 /\ k \in 1 .. n /\ k - 1 \in 0 .. n
  OBVIOUS
<1>3. k - 1 \in S
  BY <1>1, <1>2
<1> QED BY <1>2, <1>3

\* f is the course of n steps from x.
Course(f, x, step, n) == f[0] = x /\ \A i \in 1 .. n : f[i] = step[<<f[i - 1], i>>]

\* A step that stays in Y can be repeated.
LEMMA CourseExists ==
    ASSUME NEW Y, NEW n \in Nat, NEW x \in Y, NEW step \in [Y \X (1 .. n) -> Y]
    PROVE  \E f \in [0 .. n -> Y] : Course(f, x, step, n)
<1> DEFINE Good(k) == \E f \in [0 .. k -> Y] : Course(f, x, step, k)
           S == {k \in 0 .. n : Good(k)}
<1>1. 0 \in S
  <2> DEFINE f == [i \in 0 .. 0 |-> x]
  <2>1. f \in [0 .. 0 -> Y] /\ Course(f, x, step, 0)
    BY DEF Course
  <2> QED BY <2>1
<1>2. ASSUME NEW k \in 1 .. n, k - 1 \in S PROVE k \in S
  <2>1. PICK f \in [0 .. k - 1 -> Y] : Course(f, x, step, k - 1)
    BY <1>2
  <2>2. f[k - 1] \in Y
    OBVIOUS
  <2> DEFINE g == [i \in 0 .. k |-> IF i = k THEN step[<<f[k - 1], k>>] ELSE f[i]]
  <2>3. g \in [0 .. k -> Y]
    <3>1. step[<<f[k - 1], k>>] \in Y
      BY <2>2
    <3>2. \A i \in 0 .. k : i # k => i \in 0 .. k - 1
      OBVIOUS
    <3> QED BY <3>1, <3>2
  <2>4. g[0] = x
    BY <2>1 DEF Course
  <2>5. ASSUME NEW i \in 1 .. k PROVE g[i] = step[<<g[i - 1], i>>]
    <3>1. i \in 0 .. k /\ i - 1 \in 0 .. k /\ i - 1 # k
      OBVIOUS
    <3>2. g[i - 1] = f[i - 1]
      BY <3>1
    <3>3. CASE i = k
      BY <3>1, <3>2, <3>3
    <3>4. CASE i # k
      <4>1. i \in 1 .. k - 1
        BY <3>4
      <4> QED BY <2>1, <3>1, <3>2, <3>4, <4>1 DEF Course
    <3> QED BY <3>3, <3>4
  <2> HIDE DEF g
  <2>6. Course(g, x, step, k)
    BY <2>4, <2>5 DEF Course
  <2> QED BY <2>3, <2>6
<1> HIDE DEF S
<1>3. n \in S
  <2>1. n \in 0 .. n
    OBVIOUS
  <2> QED BY <1>1, <1>2, <2>1, UpTo
<1> QED BY <1>3 DEF S

-----------------------------------------------------------------------------
(* FixtureDiff: facts, keys and what one fact does to the row                *)

Rows == MatchRow \cup {NoMatch}
Entries == [id : Nat, side : Sides, minute : Nat]

\* What a request may show: a match that has not begun has no goals.
Views ==
    {o \in [status : StatusCodes, minute : Nat, kick : Kickoff,
            score : [Sides -> Nat \cup {NoScore}], evs : Seq(Entries), final : BOOLEAN] :
        o.status = "NS" => o.evs = <<>> /\ \A s \in Sides : o.score[s] \in {0, NoScore}}

FactKeys ==
    {<<a>> : a \in PhaseNames \cup {"kickoff", "fulltime"}}
    \cup {<<"event", i>> : i \in Nat}
    \cup {<<"scheduled", v, k>> : v \in Nat, k \in Kickoff}
    \cup {<<"score-goal", v, s, n, m>> : v \in Nat, s \in Sides, n \in Nat, m \in Nat}
    \cup {<<"score-corrected", v, a, b>> : v \in Nat, a \in [Sides -> Nat], b \in [Sides -> Nat]}

VersionedKeys == {"scheduled", "score-goal", "score-corrected"}

\* The stored keys are accounted for by the checkpoint c.
KeysCovered(K, c) ==
    \A k \in K :
        /\ k[1] = "event" => k[2] \in c.ids
        /\ k[1] \in VersionedKeys => k[2] \in Nat /\ k[2] < c.version
        /\ k[1] = "kickoff" => c.kickoff
        /\ k[1] = "fulltime" => c.fulltime
        /\ k[1] \in PhaseNames => k[1] \in c.phases

\* The keys that diff_fixture may derive from the observation: none is stored.
NewKeys(o) ==
    {k \in FactKeys :
        /\ k[1] = "event" => k[2] \notin Prior.ids /\ \E i \in DOMAIN o.evs : k[2] = o.evs[i].id
        /\ k[1] \in VersionedKeys => k[2] = Prior.version
        /\ k[1] = "kickoff" => ~ Prior.kickoff /\ StatusAfter(o) \in LiveCodes \cup FulltimeCodes
        /\ k[1] = "fulltime" => ~ Prior.fulltime /\ StatusAfter(o) \in FulltimeCodes
        /\ k[1] \in PhaseNames => k[1] \in PhasesOwed(StatusAfter(o)) \ Prior.phases}

NewFacts(o) ==
    {f \in [type : EventTypes, key : NewKeys(o), side : Sides \cup {"none"},
            score : [Sides -> Nat]] : f.type = "goal" => f.side \in Sides}

Score(r) == [s \in Sides |-> IF r = NoMatch THEN 0 ELSE IF s = "home" THEN r.home ELSE r.away]
Status(r) == IF r = NoMatch THEN "none" ELSE r.status
Version(r) == IF r = NoMatch THEN 0 ELSE r.version

\* The status and the score that a fact gives to a row that is not over.
StatusBy(f, r) ==
    CASE f.type \in {"scheduled", "halftime", "fulltime"} -> f.type
      [] f.type \in {"kickoff", "second_half", "extra_time", "penalties"} -> "live"
      [] f.type \in {"goal", "card", "substitution"} ->
            IF Status(r) = "halftime" THEN "halftime" ELSE "live"
      [] OTHER -> IF r = NoMatch THEN "scheduled" ELSE r.status

ScoreBy(f, r) ==
    CASE f.type = "goal" -> [Score(r) EXCEPT ![f.side] = @ + 1]
      [] f.type = "score_corrected" -> f.score
      [] OTHER -> Score(r)

\* Every key begins with the name of a phase, of an event or of a versioned fact.
LEMMA KeyHead ==
    ASSUME NEW k \in FactKeys
    PROVE  k[1] \in PhaseNames \cup {"kickoff", "fulltime", "event"} \cup VersionedKeys
BY DEF FactKeys, VersionedKeys

\* A key that the diff may derive is in the store of no earlier ingestion.
LEMMA NewKeysAreNew ==
    ASSUME NEW o, KeysCovered(keys, Prior), Prior.version \in Nat, NEW k \in NewKeys(o)
    PROVE  k \notin keys
<1>1. k[1] \in PhaseNames \cup {"kickoff", "fulltime", "event"} \cup VersionedKeys
  BY KeyHead DEF NewKeys
<1> QED BY <1>1 DEF NewKeys, KeysCovered

\* What one fact does to a row that is not over.
LEMMA FactStep ==
    ASSUME NEW o \in Views, KeysCovered(keys, Prior), Prior.version \in Nat,
           NEW f \in NewFacts(o), NEW r \in Rows, NEW v \in Nat, v \in EventId,
           Version(r) < v, Status(r) # "fulltime"
    PROVE  /\ RowAfterFact(r, v, f, o) \in MatchRow
           /\ RowAfterFact(r, v, f, o).version = v
           /\ Status(RowAfterFact(r, v, f, o)) = StatusBy(f, r)
           /\ Score(RowAfterFact(r, v, f, o)) = ScoreBy(f, r)
<1> DEFINE info == [type |-> f.type, version |-> v, minute |-> o.minute,
                    side |-> f.side, home |-> f.score["home"], away |-> f.score["away"]]
           q == RowAfterFact(r, v, f, o)
           base == Carried(r, v, info)
<1>1. info \in EventInfo
  BY DEF NewFacts, Views, EventInfo, Sides
<1>2. q = reduce_match_state(r, v, info)
  <2>1. f.key \in NewKeys(o)
    BY DEF NewFacts
  <2>2. f.key \notin keys
    BY <2>1, NewKeysAreNew
  <2> QED BY <2>2 DEF RowAfterFact
<1>3. q \in MatchRow
  BY <1>1, <1>2, ReducerType DEF Rows
<1>4. Advances(r, info)
  BY DEF Advances, Status, Version, Rows
<1>5. q = Reduced(r, v, info)
  BY <1>2, <1>4 DEF reduce_match_state
<1>6. /\ base \in MatchRow
      /\ base.version = v
      /\ base.status = IF r = NoMatch THEN "scheduled" ELSE r.status
      /\ base.home = IF r = NoMatch THEN 0 ELSE r.home
      /\ base.away = IF r = NoMatch THEN 0 ELSE r.away
  <2>1. info.minute \in Nat
    BY DEF Views
  <2>2. CASE r = NoMatch
    BY <2>1, <2>2 DEF Carried, MatchRow, Statuses, Phases
  <2>3. CASE r # NoMatch
    BY <2>1, <2>3 DEF Carried, MatchRow, Later, Rows
  <2> QED BY <2>2, <2>3
<1>7. base.status # "fulltime"
  BY <1>6 DEF Status
<1>8. q # NoMatch
  BY <1>3, NoMatchAssumption
<1> HIDE DEF base, q
<1>9. /\ info.type = f.type /\ info.side = f.side
      /\ info.home = f.score["home"] /\ info.away = f.score["away"]
  OBVIOUS
<1>10. f.type \in EventTypes
  BY DEF NewFacts
<1>11. /\ f.type = "scheduled" => q = [base EXCEPT !.status = "scheduled", !.phase = "pre_match"]
       /\ f.type = "kickoff" => q = [base EXCEPT !.status = "live", !.phase = "first_half"]
       /\ f.type = "goal" => q = AfterGoal(Scored(base, f.side))
       /\ f.type = "score_corrected" =>
             q = [base EXCEPT !.home = f.score["home"], !.away = f.score["away"]]
       /\ f.type \in {"card", "substitution"} => q = Resumed(base)
       /\ f.type = "halftime" => q = Moved(base, "halftime", "halftime", 0)
       /\ f.type = "second_half" => q = Moved(base, "live", "second_half", 0)
       /\ f.type = "extra_time" => q = Moved(base, "live", "extra_time", 90)
       /\ f.type = "penalties" => q = Moved(base, "live", "penalties", 120)
       /\ f.type = "fulltime" => q = [base EXCEPT !.status = "fulltime", !.phase = "fulltime"]
       /\ f.type = "other" => q = base
  <2> HIDE DEF info
  <2> QED BY <1>5, <1>9 DEF Reduced, base
<1> HIDE DEF info
<1>12. base \in [status : Statuses, phase : Phases, minute : Nat,
             home : Nat, away : Nat, version : Nat, last : EventId]
  BY <1>6 DEF MatchRow
<1>13. /\ q.version = v
       /\ q.status =
                CASE f.type \in {"scheduled", "halftime", "fulltime"} -> f.type
                  [] f.type \in {"kickoff", "second_half", "extra_time", "penalties"} -> "live"
                  [] f.type \in {"goal", "card", "substitution"} ->
                        IF base.status = "halftime" THEN "halftime" ELSE "live"
                  [] OTHER -> base.status
       /\ q.home = IF f.type = "goal" /\ f.side = "home" THEN base.home + 1
                   ELSE IF f.type = "score_corrected" THEN f.score["home"] ELSE base.home
       /\ q.away = IF f.type = "goal" /\ f.side = "away" THEN base.away + 1
                   ELSE IF f.type = "score_corrected" THEN f.score["away"] ELSE base.away
  <2>1. CASE f.type \in {"scheduled", "kickoff", "fulltime", "score_corrected", "other"}
    BY <1>11, <1>12, <1>6, <2>1, ZenonT(60)
  <2>2. CASE f.type = "goal"
    <3>1. q = AfterGoal(Scored(base, f.side))
      BY <1>11, <2>2
    <3>2. f.side = "home" \/ f.side = "away"
      BY <2>2 DEF Sides, NewFacts
    <3>3. CASE f.side = "home"
      BY <1>12, <1>6, <1>7, <2>2, <3>1, <3>3 DEF AfterGoal, Scored, Resumed
    <3>4. CASE f.side = "away"
      BY <1>12, <1>6, <1>7, <2>2, <3>1, <3>4 DEF AfterGoal, Scored, Resumed
    <3> QED BY <3>2, <3>3, <3>4
  <2>3. CASE f.type \in {"card", "substitution"}
    BY <1>11, <1>12, <1>6, <1>7, <2>3, ZenonT(60) DEF Resumed
  <2>4. CASE f.type \in PhaseNames
    BY <1>11, <1>12, <1>6, <1>7, <2>4, ZenonT(60) DEF Moved, PhaseNames
  <2> QED BY <1>10, <2>1, <2>2, <2>3, <2>4 DEF EventTypes, PhaseNames
<1>14. Status(q) = q.status /\ Score(q) = [s \in Sides |-> IF s = "home" THEN q.home ELSE q.away]
  BY <1>8 DEF Status, Score
<1>15. Score(r) = [s \in Sides |-> IF s = "home" THEN base.home ELSE base.away]
  BY <1>6 DEF Score
<1>16. Status(r) = "halftime" <=> base.status = "halftime"
  BY <1>6 DEF Status
<1>17. f.score = [s \in Sides |-> f.score[s]]
  BY DEF NewFacts
<1>18. Score(q) = ScoreBy(f, r)
  <2>1. CASE f.type = "goal"
    <3>1. f.side \in Sides
      BY <2>1 DEF NewFacts
    <3> QED BY <1>13, <1>14, <1>15, <2>1, <3>1 DEF Sides, ScoreBy
  <2>2. CASE f.type = "score_corrected"
    BY <1>13, <1>14, <1>17, <2>2 DEF Sides, ScoreBy
  <2>3. CASE f.type \notin {"goal", "score_corrected"}
    BY <1>13, <1>14, <1>15, <2>3 DEF ScoreBy
  <2> QED BY <2>1, <2>2, <2>3
<1>19. Status(q) = StatusBy(f, r)
  BY <1>13, <1>14, <1>16, <1>6, <1>10 DEF EventTypes, StatusBy
<1> QED BY <1>3, <1>13, <1>18, <1>19 DEF q

\* A row that is over stays over.
LEMMA OverStep ==
    ASSUME NEW o \in Views, NEW f \in NewFacts(o), NEW r \in Rows, NEW v \in Nat, v \in EventId,
           Status(r) = "fulltime"
    PROVE  /\ RowAfterFact(r, v, f, o) \in MatchRow
           /\ Status(RowAfterFact(r, v, f, o)) = "fulltime"
           /\ Version(r) <= v => Version(RowAfterFact(r, v, f, o)) <= v
<1> DEFINE info == [type |-> f.type, version |-> v, minute |-> o.minute,
                    side |-> f.side, home |-> f.score["home"], away |-> f.score["away"]]
           q == RowAfterFact(r, v, f, o)
<1>0. r # NoMatch /\ r \in MatchRow /\ r.status = "fulltime"
  BY DEF Status, Rows
<1>1. info \in EventInfo
  BY DEF NewFacts, Views, EventInfo, Sides
<1>2. q = r \/ q = reduce_match_state(r, v, info)
  BY DEF RowAfterFact
<1>3. q \in MatchRow
  BY <1>0, <1>1, <1>2, ReducerType DEF Rows
<1>4. q = r \/ (q = Reduced(r, v, info) /\ info.type = "score_corrected")
  BY <1>0, <1>2 DEF reduce_match_state, Advances
<1>5. CASE q = r
  BY <1>0, <1>5
<1>6. CASE q = Reduced(r, v, info) /\ info.type = "score_corrected"
  <2>1. q = [Carried(r, v, info) EXCEPT !.home = info.home, !.away = info.away]
    BY <1>6 DEF Reduced
  <2>2. Carried(r, v, info) = [r EXCEPT !.minute = Later(r.minute, info.minute),
                     !.version = info.version, !.last = v]
    BY <1>0 DEF Carried
  <2>3. q.status = r.status /\ q.version = v
    BY <1>0, <2>1, <2>2 DEF MatchRow
  <2>4. q # NoMatch
    BY <1>3, NoMatchAssumption
  <2> HIDE DEF q
  <2>5. Status(q) = "fulltime" /\ Version(q) = v
    BY <1>0, <2>3, <2>4 DEF Status, Version
  <2> QED BY <1>3, <2>5 DEF q
<1> QED BY <1>4, <1>5, <1>6

-----------------------------------------------------------------------------
(* FixtureDiff: from the row before a sequence of facts to the row after it  *)

\* The facts, as the events after version b, lead from the row r to the row q.
Leads(r, b, facts, q, o) ==
    \E h \in [0 .. Len(facts) -> Rows] :
        /\ h[0] = r
        /\ h[Len(facts)] = q
        /\ \A i \in 1 .. Len(facts) : h[i] = RowAfterFact(h[i - 1], b + i, facts[i], o)

\* One fact leaves a row a row, whatever was stored before.
LEMMA FactType ==
    ASSUME NEW o \in Views, NEW f \in NewFacts(o), NEW r \in Rows, NEW v \in Nat, v \in EventId
    PROVE  RowAfterFact(r, v, f, o) \in Rows
<1> DEFINE info == [type |-> f.type, version |-> v, minute |-> o.minute,
                    side |-> f.side, home |-> f.score["home"], away |-> f.score["away"]]
<1>1. info \in EventInfo
  BY DEF NewFacts, Views, EventInfo, Sides
<1>2. RowAfterFact(r, v, f, o) = r \/ RowAfterFact(r, v, f, o) = reduce_match_state(r, v, info)
  BY DEF RowAfterFact
<1>3. reduce_match_state(r, v, info) \in MatchRow
  BY <1>1, ReducerType DEF Rows
<1> QED BY <1>2, <1>3 DEF Rows

\* RowAfter is where the facts lead.
LEMMA RowLeads ==
    ASSUME NEW o \in Views, NEW facts \in Seq(NewFacts(o)), mrow \in Rows,
           Prior.version \in Nat, Prior.version + Len(facts) <= MaxFacts
    PROVE  Leads(mrow, Prior.version, facts, RowAfter(facts, o), o)
<1> DEFINE n == Len(facts)
           b == Prior.version
           step == [p \in Rows \X (1 .. n) |-> RowAfterFact(p[1], b + p[2], facts[p[2]], o)]
           F(f) == [i \in 0 .. n |-> IF i = 0 THEN mrow
                                     ELSE RowAfterFact(f[i - 1], b + i, facts[i], o)]
           h == CHOOSE f : f = F(f)
<1>1. n \in Nat /\ \A i \in 1 .. n : b + i \in Nat /\ b + i \in EventId /\ facts[i] \in NewFacts(o)
  BY FixtureAssumption
<1>2. ASSUME NEW r \in Rows, NEW i \in 1 .. n
      PROVE  RowAfterFact(r, b + i, facts[i], o) \in Rows
  BY <1>1, FactType
<1>3. step \in [Rows \X (1 .. n) -> Rows]
  <2> HIDE DEF n, b
  <2> QED BY <1>2
<1>4. PICK f \in [0 .. n -> Rows] : Course(f, mrow, step, n)
  <2> HIDE DEF step, n, b
  <2> QED BY <1>1, <1>3, CourseExists
<1>5. f[0] = mrow /\ \A i \in 1 .. n : f[i] = RowAfterFact(f[i - 1], b + i, facts[i], o)
  <2>1. \A i \in 1 .. n : i - 1 \in 0 .. n
    BY <1>1
  <2>2. \A i \in 1 .. n : f[i] = step[<<f[i - 1], i>>]
    BY <1>4 DEF Course
  <2> HIDE DEF n, b
  <2> QED BY <1>4, <2>1, <2>2 DEF Course
<1>6. f = F(f)
  <2>1. \A i \in 0 .. n : i # 0 => i \in 1 .. n
    BY <1>1
  <2> HIDE DEF n, b
  <2> QED BY <1>5, <2>1
<1>7. h = F(h)
  <2> HIDE DEF F
  <2> QED BY <1>6
<1>8. RowAfter(facts, o) = h[n]
  BY DEF RowAfter
<1>9. h = [i \in 0 .. n |-> IF i = 0 THEN mrow ELSE RowAfterFact(h[i - 1], b + i, facts[i], o)]
  BY <1>7
<1> HIDE DEF h, b
<1>10. h[0] = mrow /\ \A i \in 1 .. n : h[i] = RowAfterFact(h[i - 1], b + i, facts[i], o)
  <2>1. \A i \in 1 .. n : i \in 0 .. n /\ i # 0
    BY <1>1
  <2>2. 0 \in 0 .. n
    BY <1>1
  <2> HIDE DEF n
  <2> QED BY <1>9, <2>1, <2>2
<1> DEFINE S == {i \in 0 .. n : h[i] \in Rows}
<1>11. \A i \in 0 .. n : i \in S
  <2>1. 0 \in S
    BY <1>1, <1>10
  <2>2. ASSUME NEW i \in 1 .. n, i - 1 \in S PROVE i \in S
    <3>1. h[i - 1] \in Rows /\ i \in 0 .. n
      BY <2>2
    <3> QED BY <1>2, <1>10, <3>1
  <2> HIDE DEF S, n
  <2> QED BY <1>1, <2>1, <2>2, UpTo
<1>12. h \in [0 .. n -> Rows]
  <2>1. \A i \in 0 .. n : h[i] \in Rows
    BY <1>11
  <2> HIDE DEF n
  <2> QED BY <1>9, <2>1
<1> QED BY <1>8, <1>10, <1>12 DEF Leads, b

\* No facts leave the row as it is.
LEMMA LeadsNowhere ==
    ASSUME NEW o, NEW r, NEW b \in Nat, NEW q, Leads(r, b, <<>>, q, o)
    PROVE  q = r
BY DEF Leads

\* A sequence of one fact is one step of the reducer.
LEMMA LeadsByOne ==
    ASSUME NEW o, NEW r, NEW b \in Nat, NEW f, NEW q, Leads(r, b, <<f>>, q, o)
    PROVE  q = RowAfterFact(r, b + 1, f, o)
<1>1. Len(<<f>>) = 1 /\ <<f>>[1] = f
  OBVIOUS
<1>2. PICK h \in [0 .. 1 -> Rows] :
        h[0] = r /\ h[1] = q /\ \A i \in 1 .. 1 : h[i] = RowAfterFact(h[i - 1], b + i, <<f>>[i], o)
  BY <1>1 DEF Leads
<1>3. 1 \in 1 .. 1 /\ 1 - 1 = 0
  OBVIOUS
<1>4. h[1] = RowAfterFact(h[1 - 1], b + 1, <<f>>[1], o)
  BY <1>2, <1>3
<1> QED BY <1>1, <1>2, <1>3, <1>4

\* A sequence of facts can be followed in two parts.
LEMMA LeadsInParts ==
    ASSUME NEW o, NEW T, NEW x \in Seq(T), NEW y \in Seq(T), NEW r, NEW b \in Nat, NEW q,
           Leads(r, b, x \o y, q, o)
    PROVE  \E p \in Rows : Leads(r, b, x, p, o) /\ Leads(p, b + Len(x), y, q, o)
<1> DEFINE m == Len(x)
           n == Len(y)
           z == x \o y
<1>1. m \in Nat /\ n \in Nat /\ Len(z) = m + n
  OBVIOUS
<1>2. /\ \A i \in 1 .. m : z[i] = x[i]
      /\ \A i \in 1 .. n : z[m + i] = y[i]
  OBVIOUS
<1>3. PICK h \in [0 .. m + n -> Rows] :
         /\ h[0] = r
         /\ h[m + n] = q
         /\ \A i \in 1 .. m + n : h[i] = RowAfterFact(h[i - 1], b + i, z[i], o)
  BY <1>1 DEF Leads
<1> HIDE DEF z
<1> DEFINE g == [i \in 0 .. m |-> h[i]]
           k == [i \in 0 .. n |-> h[m + i]]
<1>4. g \in [0 .. m -> Rows] /\ k \in [0 .. n -> Rows] /\ h[m] \in Rows
  BY <1>1
<1>5. g[0] = r /\ g[m] = h[m] /\ k[0] = h[m] /\ k[n] = q
  BY <1>1, <1>3
<1>6. ASSUME NEW i \in 1 .. m PROVE g[i] = RowAfterFact(g[i - 1], b + i, x[i], o)
  <2>1. g[i] = h[i] /\ g[i - 1] = h[i - 1] /\ i \in 1 .. m + n
    BY <1>1
  <2> QED BY <1>2, <1>3, <2>1
<1>7. ASSUME NEW i \in 1 .. n PROVE k[i] = RowAfterFact(k[i - 1], (b + m) + i, y[i], o)
  <2>1. k[i] = h[m + i] /\ k[i - 1] = h[m + (i - 1)] /\ m + i \in 1 .. m + n
    BY <1>1
  <2>2. m + (i - 1) = (m + i) - 1 /\ (b + m) + i = b + (m + i)
    BY <1>1
  <2>3. h[m + i] = RowAfterFact(h[(m + i) - 1], b + (m + i), z[m + i], o)
    BY <1>3, <2>1
  <2> QED BY <1>2, <2>1, <2>2, <2>3
<1> HIDE DEF g, k
<1>8. Leads(r, b, x, h[m], o)
  BY <1>4, <1>5, <1>6 DEF Leads
<1>9. Leads(h[m], b + m, y, q, o)
  BY <1>4, <1>5, <1>7 DEF Leads
<1> QED BY <1>4, <1>8, <1>9

\* No facts make the row newer than they are, or open a row that is over.
LEMMA LeadsOn ==
    ASSUME NEW o \in Views, KeysCovered(keys, Prior), Prior.version \in Nat,
           NEW facts \in Seq(NewFacts(o)), NEW b \in Nat, b + Len(facts) <= MaxFacts,
           NEW r \in Rows, Version(r) <= b, NEW q, Leads(r, b, facts, q, o)
    PROVE  /\ q \in Rows
           /\ Version(q) <= b + Len(facts)
           /\ Status(r) = "fulltime" => Status(q) = "fulltime"
<1> DEFINE n == Len(facts)
<1>1. n \in Nat /\ \A i \in 1 .. n : b + i \in Nat /\ b + i \in EventId /\ facts[i] \in NewFacts(o)
  BY FixtureAssumption
<1>2. PICK h \in [0 .. n -> Rows] :
         /\ h[0] = r
         /\ h[n] = q
         /\ \A i \in 1 .. n : h[i] = RowAfterFact(h[i - 1], b + i, facts[i], o)
  BY DEF Leads
<1> DEFINE Good(i) == /\ Version(h[i]) <= b + i
                      /\ Status(r) = "fulltime" => Status(h[i]) = "fulltime"
           S == {i \in 0 .. n : Good(i)}
<1>3. 0 \in S
  BY <1>1, <1>2
<1>4. ASSUME NEW i \in 1 .. n, i - 1 \in S PROVE i \in S
  <2>0. i - 1 \in 0 .. n /\ i \in 0 .. n
    <3> HIDE DEF n
    <3> QED BY <1>1
  <2>1. h[i - 1] \in Rows /\ h[i] \in Rows /\ i \in 0 .. n
    <3> HIDE DEF n
    <3> QED BY <2>0
  <2>2. /\ Version(h[i - 1]) <= b + (i - 1)
        /\ (Status(r) = "fulltime" => Status(h[i - 1]) = "fulltime")
    BY <1>4
  <2>3. h[i] = RowAfterFact(h[i - 1], b + i, facts[i], o)
    BY <1>2
  <2>4. Version(h[i - 1]) \in Nat
    BY <2>1 DEF Version, Rows, MatchRow
  <2>5. Version(h[i - 1]) < b + i
    BY <2>2, <2>4
  <2>6. CASE Status(h[i - 1]) = "fulltime"
    <3>1. Status(h[i]) = "fulltime" /\ Version(h[i]) <= b + i
      BY <1>1, <2>1, <2>3, <2>4, <2>5, <2>6, OverStep
    <3> QED BY <2>1, <3>1
  <2>7. CASE Status(h[i - 1]) # "fulltime"
    <3>1. h[i] \in MatchRow /\ h[i].version = b + i
      BY <1>1, <2>1, <2>3, <2>5, <2>7, FactStep
    <3>2. Version(h[i]) <= b + i
      BY <1>1, <3>1 DEF Version
    <3> QED BY <2>1, <2>2, <2>7, <3>2
  <2> QED BY <2>6, <2>7
<1>5. n \in S
  <2>1. n \in 0 .. n
    BY <1>1
  <2> HIDE DEF S, n
  <2> QED BY <1>1, <1>3, <1>4, <2>1, UpTo
<1> QED BY <1>1, <1>2, <1>5

-----------------------------------------------------------------------------
(* FixtureDiff: the facts of diff_fixture are new                            *)

\* A checkpoint, or the blank one that stands for none.
Bases ==
    [status : StatusCodes, minute : Nat, kick : Kickoff \cup {"unknown"},
     score : [Sides -> Nat], ids : SUBSET Nat, kickoff : BOOLEAN, phases : SUBSET PhaseNames,
     fulltime : BOOLEAN, pending : BOOLEAN, version : Nat]

\* The base of a diff is the checkpoint, or the empty one of a fixture never seen.
LEMMA PriorType ==
    ASSUME cp \in Checkpoints \cup {NoFixture}
    PROVE  Prior \in Bases
<1>1. CASE cp = NoFixture
  <2>1. BlankCheckpoint \in Bases
    BY DEF BlankCheckpoint, Bases, NoGoals, StatusCodes, ScheduledCodes
  <2> QED BY <1>1, <2>1 DEF Prior
<1>2. CASE cp # NoFixture
  BY <1>2 DEF Prior, Checkpoints, Bases
<1> QED BY <1>1, <1>2

\* The status after an observation is one of the codes of the API.
LEMMA CodeType ==
    ASSUME Prior \in Bases, NEW o \in Views
    PROVE  StatusAfter(o) \in StatusCodes
BY DEF StatusAfter, Bases, Views

\* A fact that is no goal is new when its key is.
LEMMA PlainType ==
    ASSUME NEW o, NEW type \in EventTypes \ {"goal"}, NEW k \in NewKeys(o)
    PROVE  <<Plain(type, k)>> \in Seq(NewFacts(o))
<1>1. NoGoals \in [Sides -> Nat]
  BY DEF NoGoals
<1>2. Plain(type, k) \in NewFacts(o)
  <2> HIDE DEF EventTypes, NoGoals
  <2> QED BY <1>1 DEF Plain, Fact, NewFacts
<1> HIDE DEF Plain, NewFacts
<1> QED BY <1>2

\* A goal is new when its key is.
LEMMA GoalType ==
    ASSUME NEW o, NEW k \in NewKeys(o), NEW side \in Sides
    PROVE  Fact("goal", k, side, NoGoals) \in NewFacts(o)
<1>1. NoGoals \in [Sides -> Nat]
  BY DEF NoGoals
<1>2. "goal" \in EventTypes
  BY DEF EventTypes
<1> QED BY <1>1, <1>2 DEF Fact, NewFacts

\* The keys of kickoff, full time and the phases are new when the checkpoint lacks them.
LEMMA SingleKeys ==
    ASSUME NEW o, NEW a \in PhaseNames \cup {"kickoff", "fulltime"},
           a = "kickoff" => ~ Prior.kickoff /\ StatusAfter(o) \in LiveCodes \cup FulltimeCodes,
           a = "fulltime" => ~ Prior.fulltime /\ StatusAfter(o) \in FulltimeCodes,
           a \in PhaseNames => a \in PhasesOwed(StatusAfter(o)) \ Prior.phases
    PROVE  <<a>> \in NewKeys(o)
<1>1. <<a>> \in FactKeys
  BY DEF FactKeys
<1>2. <<a>>[1] = a
  OBVIOUS
<1>3. a # "event" /\ a \notin VersionedKeys
  BY DEF PhaseNames, VersionedKeys
<1> QED BY <1>1, <1>2, <1>3 DEF NewKeys

\* The key of a listed goal is new when the checkpoint has not seen its id.
LEMMA EventKeys ==
    ASSUME NEW o, NEW i \in Nat, i \notin Prior.ids, \E j \in DOMAIN o.evs : i = o.evs[j].id
    PROVE  <<"event", i>> \in NewKeys(o)
<1>1. <<"event", i>> \in FactKeys
  BY DEF FactKeys
<1>2. <<"event", i>>[1] = "event" /\ <<"event", i>>[2] = i
  OBVIOUS
<1> QED BY <1>1, <1>2 DEF NewKeys, VersionedKeys, PhaseNames

\* The key of a new kickoff time has the version of this observation.
LEMMA ScheduledKeys ==
    ASSUME NEW o, Prior \in Bases, NEW k \in Kickoff
    PROVE  <<"scheduled", Prior.version, k>> \in NewKeys(o)
<1>0. Prior.version \in Nat
  BY DEF Bases
<1>1. <<"scheduled", Prior.version, k>> \in FactKeys
  BY <1>0 DEF FactKeys
<1>2. /\ <<"scheduled", Prior.version, k>>[1] = "scheduled"
      /\ <<"scheduled", Prior.version, k>>[2] = Prior.version
  OBVIOUS
<1> QED BY <1>1, <1>2 DEF NewKeys, VersionedKeys, PhaseNames

\* The key of a goal missing from the list has the version of this observation.
LEMMA GoalKeys ==
    ASSUME NEW o, Prior \in Bases, NEW side \in Sides, NEW n \in Nat, NEW m \in Nat
    PROVE  GoalKey(side, n, m) \in NewKeys(o)
<1>0. Prior.version \in Nat
  BY DEF Bases
<1> DEFINE k == <<"score-goal", Prior.version, side, n, m>>
<1>1. k \in FactKeys
  BY <1>0 DEF FactKeys
<1>2. k[1] = "score-goal" /\ k[2] = Prior.version
  OBVIOUS
<1>3. k = GoalKey(side, n, m)
  BY DEF GoalKey
<1> HIDE DEF k
<1>4. k \in NewKeys(o)
  BY <1>1, <1>2 DEF NewKeys, VersionedKeys, PhaseNames
<1> QED BY <1>3, <1>4

\* The key of a correction has the version of this observation.
LEMMA CorrectionKeys ==
    ASSUME NEW o, Prior \in Bases, NEW a \in [Sides -> Nat], NEW b \in [Sides -> Nat]
    PROVE  <<"score-corrected", Prior.version, a, b>> \in NewKeys(o)
<1>0. Prior.version \in Nat
  BY DEF Bases
<1> DEFINE k == <<"score-corrected", Prior.version, a, b>>
<1>1. k \in FactKeys
  BY <1>0 DEF FactKeys
<1>2. k[1] = "score-corrected" /\ k[2] = Prior.version
  OBVIOUS
<1> HIDE DEF k
<1>4. k \in NewKeys(o)
  BY <1>1, <1>2 DEF NewKeys, VersionedKeys, PhaseNames
<1> QED BY <1>4 DEF k

\* The phases that are due.
Owed(o) == PhasesOwed(StatusAfter(o)) \ Prior.phases

\* The fact of a phase that is due is new.
LEMMA EnsureType ==
    ASSUME NEW o, NEW due \in SUBSET Owed(o), NEW ph \in PhaseNames
    PROVE  Ensure(due, ph) \in Seq(NewFacts(o))
<1>1. CASE ph \in due
  <2>1. ph # "kickoff" /\ ph # "fulltime" /\ ph \in Owed(o)
    BY <1>1 DEF PhaseNames
  <2>2. <<ph>> \in NewKeys(o)
    BY <2>1, SingleKeys DEF Owed
  <2>3. ph \in EventTypes \ {"goal"}
    BY DEF PhaseNames, EventTypes
  <2>4. <<Plain(ph, <<ph>>)>> \in Seq(NewFacts(o))
    BY <2>2, <2>3, PlainType
  <2> QED BY <1>1, <2>4 DEF Ensure
<1>2. CASE ph \notin due
  BY <1>2 DEF Ensure
<1> QED BY <1>1, <1>2

\* The facts of all phases that are due are new.
LEMMA PhaseFactsType ==
    ASSUME NEW o, NEW due \in SUBSET Owed(o)
    PROVE  PhaseFacts(due) \in Seq(NewFacts(o))
<1>1. \A ph \in PhaseNames : Ensure(due, ph) \in Seq(NewFacts(o))
  BY EnsureType
<1> DEFINE A == Ensure(due, "halftime")
           B == Ensure(due, "second_half")
           C == Ensure(due, "extra_time")
           D == Ensure(due, "penalties")
<1>2. /\ A \in Seq(NewFacts(o))
      /\ B \in Seq(NewFacts(o))
      /\ C \in Seq(NewFacts(o))
      /\ D \in Seq(NewFacts(o))
  BY <1>1 DEF PhaseNames
<1>3. PhaseFacts(due) = A \o B \o C \o D
  BY DEF PhaseFacts
<1> HIDE DEF A, B, C, D, NewFacts
<1> QED BY <1>2, <1>3

\* What is known after some entries of the event list.
Accounts(o) ==
    {a \in [owed : SUBSET Owed(o), facts : Seq(NewFacts(o)), ids : SUBSET Nat,
            goals : [Sides -> Nat]] : Prior.ids \subseteq a.ids}

Due(owed, e) == {ph \in owed : PhaseReached(ph, e.minute)}
GoalOf(ids, e) ==
    IF e.id \in ids THEN <<>> ELSE <<Fact("goal", <<"event", e.id>>, e.side, NoGoals)>>

\* The fact of a listed goal is new.
LEMMA GoalOfType ==
    ASSUME NEW o \in Views, NEW i \in DOMAIN o.evs, NEW ids, Prior.ids \subseteq ids
    PROVE  GoalOf(ids, o.evs[i]) \in Seq(NewFacts(o))
<1> DEFINE e == o.evs[i]
<1>1. e \in Entries
  BY DEF Views
<1>2. CASE e.id \in ids
  BY <1>2 DEF GoalOf
<1>3. CASE e.id \notin ids
  <2>1. e.id \in Nat /\ e.side \in Sides
    BY <1>1 DEF Entries
  <2>2. <<"event", e.id>> \in NewKeys(o)
    BY <1>3, <2>1, EventKeys
  <2> DEFINE f == Fact("goal", <<"event", e.id>>, e.side, NoGoals)
  <2>3. f \in NewFacts(o)
    BY <2>1, <2>2, GoalType
  <2>4. GoalOf(ids, e) = <<f>>
    BY <1>3 DEF GoalOf
  <2> HIDE DEF f, NewFacts
  <2> QED BY <2>3, <2>4
<1> QED BY <1>2, <1>3

\* The parts of AddEntry.
LEMMA AddEntryIs ==
    ASSUME NEW a, NEW e
    PROVE  /\ AddEntry(a, e).owed = a.owed \ Due(a.owed, e)
           /\ AddEntry(a, e).facts = a.facts \o PhaseFacts(Due(a.owed, e)) \o GoalOf(a.ids, e)
           /\ AddEntry(a, e).ids = a.ids \cup {e.id}
           /\ AddEntry(a, e).goals = IF e.id \in a.ids THEN a.goals
                                     ELSE [a.goals EXCEPT ![e.side] = @ + 1]
           /\ AddEntry(a, e) = [owed |-> AddEntry(a, e).owed, facts |-> AddEntry(a, e).facts,
                                ids |-> AddEntry(a, e).ids, goals |-> AddEntry(a, e).goals]
BY DEF AddEntry, Due, GoalOf

\* One listed goal keeps the account of the list well typed.
LEMMA AddEntryType ==
    ASSUME NEW o \in Views, NEW i \in DOMAIN o.evs, NEW a \in Accounts(o)
    PROVE  AddEntry(a, o.evs[i]) \in Accounts(o)
<1> DEFINE e == o.evs[i]
           n == AddEntry(a, e)
<1>1. e \in Entries
  BY DEF Views
<1>2. e.id \in Nat /\ e.side \in Sides
  BY <1>1 DEF Entries
<1>3. /\ a.owed \in SUBSET Owed(o) /\ a.facts \in Seq(NewFacts(o)) /\ a.ids \in SUBSET Nat
      /\ a.goals \in [Sides -> Nat] /\ Prior.ids \subseteq a.ids
  BY DEF Accounts
<1>4. n.owed \in SUBSET Owed(o)
  <2>1. n.owed = a.owed \ Due(a.owed, e)
    BY AddEntryIs
  <2> HIDE DEF n
  <2> QED BY <1>3, <2>1
<1>5. n.facts \in Seq(NewFacts(o))
  <2>1. Due(a.owed, e) \in SUBSET Owed(o)
    BY <1>3 DEF Due
  <2>2. PhaseFacts(Due(a.owed, e)) \in Seq(NewFacts(o))
    BY <2>1, PhaseFactsType
  <2>3. GoalOf(a.ids, e) \in Seq(NewFacts(o))
    BY <1>3, GoalOfType
  <2>4. n.facts = a.facts \o PhaseFacts(Due(a.owed, e)) \o GoalOf(a.ids, e)
    BY AddEntryIs
  <2> HIDE DEF n, NewFacts
  <2> QED BY <1>3, <2>2, <2>3, <2>4
<1>6. n.ids \in SUBSET Nat /\ Prior.ids \subseteq n.ids
  <2>1. n.ids = a.ids \cup {e.id}
    BY AddEntryIs
  <2> HIDE DEF n
  <2> QED BY <1>2, <1>3, <2>1
<1>7. n.goals \in [Sides -> Nat]
  <2>1. n.goals = IF e.id \in a.ids THEN a.goals ELSE [a.goals EXCEPT ![e.side] = @ + 1]
    BY AddEntryIs, ZenonT(60)
  <2> HIDE DEF n
  <2> QED BY <1>2, <1>3, <2>1
<1>8. n = [owed |-> n.owed, facts |-> n.facts, ids |-> n.ids, goals |-> n.goals]
  BY AddEntryIs
<1> HIDE DEF n
<1>9. n \in Accounts(o)
  BY <1>4, <1>5, <1>6, <1>7, <1>8 DEF Accounts
<1> QED BY <1>9 DEF n

\* The account before the first listed goal is well typed.
LEMMA NoEntryType ==
    ASSUME NEW o, Prior \in Bases
    PROVE  NoEntry(o) \in Accounts(o)
<1>1. NoGoals \in [Sides -> Nat] /\ Prior.ids \in SUBSET Nat
  BY DEF NoGoals, Bases
<1>2. <<>> \in Seq(NewFacts(o))
  OBVIOUS
<1> QED BY <1>1, <1>2 DEF NoEntry, Accounts, Owed

\* EntriesOf goes through the entries one by one.
LEMMA EntriesCourse ==
    ASSUME NEW o \in Views, Prior \in Bases
    PROVE  \E h \in [0 .. Len(o.evs) -> Accounts(o)] :
              /\ h[0] = NoEntry(o)
              /\ h[Len(o.evs)] = EntriesOf(o)
              /\ \A i \in 1 .. Len(o.evs) : h[i] = AddEntry(h[i - 1], o.evs[i])
<1> DEFINE n == Len(o.evs)
           x == NoEntry(o)
           step == [p \in Accounts(o) \X (1 .. n) |-> AddEntry(p[1], o.evs[p[2]])]
           F(f) == [i \in 0 .. n |-> IF i = 0 THEN x ELSE AddEntry(f[i - 1], o.evs[i])]
           h == CHOOSE f : f = F(f)
<1>1. n \in Nat /\ DOMAIN o.evs = 1 .. n
  BY DEF Views
<1>2. ASSUME NEW a \in Accounts(o), NEW i \in 1 .. n
      PROVE  AddEntry(a, o.evs[i]) \in Accounts(o)
  BY <1>1, AddEntryType
<1>3. step \in [Accounts(o) \X (1 .. n) -> Accounts(o)]
  <2> HIDE DEF n
  <2> QED BY <1>2
<1>0. x \in Accounts(o)
  BY NoEntryType
<1>4. PICK f \in [0 .. n -> Accounts(o)] : Course(f, x, step, n)
  <2> HIDE DEF step, n, x
  <2> QED BY <1>0, <1>1, <1>3, CourseExists
<1>5. f[0] = x /\ \A i \in 1 .. n : f[i] = AddEntry(f[i - 1], o.evs[i])
  <2>1. \A i \in 1 .. n : i - 1 \in 0 .. n
    BY <1>1
  <2>2. \A i \in 1 .. n : f[i] = step[<<f[i - 1], i>>]
    BY <1>4 DEF Course
  <2> HIDE DEF n, x
  <2> QED BY <1>4, <2>1, <2>2 DEF Course
<1>6. f = F(f)
  <2>1. \A i \in 0 .. n : i # 0 => i \in 1 .. n
    BY <1>1
  <2> HIDE DEF n, x
  <2> QED BY <1>5, <2>1
<1>7. h = F(h)
  <2> HIDE DEF F
  <2> QED BY <1>6
<1>8. EntriesOf(o) = h[n]
  BY DEF EntriesOf
<1>9. h = [i \in 0 .. n |-> IF i = 0 THEN x ELSE AddEntry(h[i - 1], o.evs[i])]
  BY <1>7
<1> HIDE DEF h, x
<1>10. h[0] = x /\ \A i \in 1 .. n : h[i] = AddEntry(h[i - 1], o.evs[i])
  <2>1. \A i \in 1 .. n : i \in 0 .. n /\ i # 0
    BY <1>1
  <2>2. 0 \in 0 .. n
    BY <1>1
  <2> HIDE DEF n
  <2> QED BY <1>9, <2>1, <2>2
<1> DEFINE S == {i \in 0 .. n : h[i] \in Accounts(o)}
<1>11. \A i \in 0 .. n : i \in S
  <2>1. 0 \in S
    BY <1>0, <1>1, <1>10
  <2>2. ASSUME NEW i \in 1 .. n, i - 1 \in S PROVE i \in S
    <3>1. h[i - 1] \in Accounts(o) /\ i \in 0 .. n
      BY <1>1, <2>2
    <3> QED BY <1>2, <1>10, <3>1
  <2> HIDE DEF S, n
  <2> QED BY <1>1, <2>1, <2>2, UpTo
<1>12. h \in [0 .. n -> Accounts(o)]
  <2>1. \A i \in 0 .. n : h[i] \in Accounts(o)
    BY <1>11
  <2> HIDE DEF n
  <2> QED BY <1>9, <2>1
<1> QED BY <1>8, <1>10, <1>12 DEF x

\* The account of the whole list is well typed: induction over its length.
LEMMA EntriesType ==
    ASSUME NEW o \in Views, Prior \in Bases
    PROVE  EntriesOf(o) \in Accounts(o)
<1>1. PICK h \in [0 .. Len(o.evs) -> Accounts(o)] : h[Len(o.evs)] = EntriesOf(o)
  BY EntriesCourse
<1>2. Len(o.evs) \in 0 .. Len(o.evs)
  BY DEF Views
<1> QED BY <1>1, <1>2

\* The score that an observation reports is a score, absent sides included.
LEMMA ReportedType ==
    ASSUME NEW o \in Views, Prior \in Bases
    PROVE  Reported(o) \in [Sides -> Nat]
<1>1. \A s \in Sides : Prior.score[s] \in Nat /\ o.score[s] \in Nat \cup {NoScore}
  BY DEF Bases, Views
<1> HIDE DEF Bases, Views
<1> QED BY <1>1 DEF Reported

\* One goal is made up for every count between the expected and the reported score.
LEMMA MissingGoalsType ==
    ASSUME NEW o, Prior \in Bases, NEW side \in Sides, NEW from \in Nat, NEW to \in Nat,
           NEW minute \in Nat
    PROVE  /\ MissingGoals(side, from, to, minute) \in Seq(NewFacts(o))
           /\ Len(MissingGoals(side, from, to, minute)) = (IF to > from THEN to - from ELSE 0)
           /\ \A i \in 1 .. Len(MissingGoals(side, from, to, minute)) :
                MissingGoals(side, from, to, minute)[i] =
                    Fact("goal", GoalKey(side, from + i, minute), side, NoGoals)
<1> DEFINE n == IF to > from THEN to - from ELSE 0
           G(i) == Fact("goal", GoalKey(side, from + i, minute), side, NoGoals)
           s == [i \in 1 .. n |-> G(i)]
<1>1. n \in Nat
  OBVIOUS
<1>2. ASSUME NEW i \in 1 .. n PROVE G(i) \in NewFacts(o)
  <2>1. from + i \in Nat
    BY <1>1
  <2>2. GoalKey(side, from + i, minute) \in NewKeys(o)
    BY <2>1, GoalKeys
  <2> QED BY <2>2, GoalType
<1>3. MissingGoals(side, from, to, minute) = s
  BY DEF MissingGoals
<1> HIDE DEF n, G
<1>4. s \in [1 .. n -> NewFacts(o)]
  BY <1>2
<1>5. s \in Seq(NewFacts(o)) /\ Len(s) = n
  <2> HIDE DEF s
  <2> QED BY <1>1, <1>4
<1>6. \A i \in 1 .. n : s[i] = G(i)
  OBVIOUS
<1> HIDE DEF s
<1> QED BY <1>3, <1>5, <1>6 DEF n, G

\* The two halves of Opening.
Rescheduled(o, emitScheduled) ==
    IF emitScheduled /\ o.kick # Prior.kick
    THEN <<Plain("scheduled", <<"scheduled", Prior.version, o.kick>>)>> ELSE <<>>
KickedOff(o) ==
    IF StatusAfter(o) \in LiveCodes \cup FulltimeCodes /\ ~ Prior.kickoff
    THEN <<Plain("kickoff", <<"kickoff">>)>> ELSE <<>>

\* The facts that open a diff are a new schedule and a kickoff.
LEMMA OpeningType ==
    ASSUME NEW o \in Views, Prior \in Bases, NEW emitScheduled
    PROVE  /\ Rescheduled(o, emitScheduled) \in Seq(NewFacts(o))
           /\ KickedOff(o) \in Seq(NewFacts(o))
           /\ Opening(o, emitScheduled) = Rescheduled(o, emitScheduled) \o KickedOff(o)
           /\ Opening(o, emitScheduled) \in Seq(NewFacts(o))
<1>1. Rescheduled(o, emitScheduled) \in Seq(NewFacts(o))
  <2>1. o.kick \in Kickoff
    BY DEF Views
  <2>2. <<"scheduled", Prior.version, o.kick>> \in NewKeys(o)
    BY <2>1, ScheduledKeys
  <2>3. "scheduled" \in EventTypes \ {"goal"}
    BY DEF EventTypes
  <2>4. <<Plain("scheduled", <<"scheduled", Prior.version, o.kick>>)>> \in Seq(NewFacts(o))
    BY <2>2, <2>3, PlainType
  <2> QED BY <2>4 DEF Rescheduled
<1>2. KickedOff(o) \in Seq(NewFacts(o))
  <2>1. CASE StatusAfter(o) \in LiveCodes \cup FulltimeCodes /\ ~ Prior.kickoff
    <3>1. "kickoff" \notin PhaseNames
      BY DEF PhaseNames
    <3>2. <<"kickoff">> \in NewKeys(o)
      BY <2>1, <3>1, SingleKeys
    <3>3. "kickoff" \in EventTypes \ {"goal"}
      BY DEF EventTypes
    <3>4. <<Plain("kickoff", <<"kickoff">>)>> \in Seq(NewFacts(o))
      BY <3>2, <3>3, PlainType
    <3> QED BY <3>4 DEF KickedOff
  <2>2. CASE ~ (StatusAfter(o) \in LiveCodes \cup FulltimeCodes /\ ~ Prior.kickoff)
    BY <2>2 DEF KickedOff
  <2> QED BY <2>1, <2>2
<1>3. Opening(o, emitScheduled) = Rescheduled(o, emitScheduled) \o KickedOff(o)
  BY DEF Opening, Rescheduled, KickedOff
<1> QED BY <1>1, <1>2, <1>3

\* The facts that close a diff are new.
LEMMA ClosingType ==
    ASSUME NEW o \in Views, Prior \in Bases
    PROVE  Closing(o) \in Seq(NewFacts(o))
<1>1. CASE StatusAfter(o) \in FulltimeCodes /\ ~ Prior.fulltime
  <2>1. "fulltime" \notin PhaseNames
    BY DEF PhaseNames
  <2>2. <<"fulltime">> \in NewKeys(o)
    BY <1>1, <2>1, SingleKeys
  <2>3. "fulltime" \in EventTypes \ {"goal"}
    BY DEF EventTypes
  <2>4. <<Plain("fulltime", <<"fulltime">>)>> \in Seq(NewFacts(o))
    BY <2>2, <2>3, PlainType
  <2> QED BY <1>1, <2>4 DEF Closing
<1>2. CASE ~ (StatusAfter(o) \in FulltimeCodes /\ ~ Prior.fulltime)
  BY <1>2 DEF Closing
<1> QED BY <1>1, <1>2

\* The parts of ScoreFacts.
MinuteAfter(o) == Later(Prior.minute, o.minute)
Expected(goals) == [s \in Sides |-> Prior.score[s] + goals[s]]
Missing(o, goals, side) ==
    MissingGoals(side, Expected(goals)[side], Reported(o)[side], MinuteAfter(o))
Aligned(o, goals) == [s \in Sides |-> Later(Expected(goals)[s], Reported(o)[s])]
Correction(o, goals) ==
    IF Reported(o) # Aligned(o, goals)
    THEN <<Fact("score_corrected",
                <<"score-corrected", Prior.version, Aligned(o, goals), Reported(o)>>,
                "none", Reported(o))>>
    ELSE <<>>

\* The score's facts in their order: home goals, away goals, correction.
LEMMA ScoreFactsIs ==
    ASSUME NEW o, NEW goals
    PROVE  ScoreFacts(o, goals) =
             Missing(o, goals, "home") \o Missing(o, goals, "away") \o Correction(o, goals)
BY DEF ScoreFacts, MinuteAfter, Expected, Missing, Aligned, Correction

\* The facts that bring the score to the reported one are new.
LEMMA ScoreFactsType ==
    ASSUME NEW o \in Views, Prior \in Bases, NEW goals \in [Sides -> Nat]
    PROVE  /\ Expected(goals) \in [Sides -> Nat]
           /\ Aligned(o, goals) \in [Sides -> Nat]
           /\ MinuteAfter(o) \in Nat
           /\ \A side \in Sides : Missing(o, goals, side) \in Seq(NewFacts(o))
           /\ Correction(o, goals) \in Seq(NewFacts(o))
           /\ ScoreFacts(o, goals) \in Seq(NewFacts(o))
<1>1. Expected(goals) \in [Sides -> Nat]
  BY DEF Expected, Bases
<1>2. Reported(o) \in [Sides -> Nat]
  BY ReportedType
<1>3. MinuteAfter(o) \in Nat
  BY DEF MinuteAfter, Later, Bases, Views
<1>4. Aligned(o, goals) \in [Sides -> Nat]
  BY <1>1, <1>2 DEF Aligned, Later
<1>5. ASSUME NEW side \in Sides PROVE Missing(o, goals, side) \in Seq(NewFacts(o))
  <2>1. Expected(goals)[side] \in Nat /\ Reported(o)[side] \in Nat
    BY <1>1, <1>2
  <2> QED BY <1>3, <2>1, MissingGoalsType DEF Missing
<1>6. Correction(o, goals) \in Seq(NewFacts(o))
  <2> DEFINE k == <<"score-corrected", Prior.version, Aligned(o, goals), Reported(o)>>
             f == Fact("score_corrected", k, "none", Reported(o))
  <2>1. k \in NewKeys(o)
    BY <1>2, <1>4, CorrectionKeys
  <2>2. "score_corrected" \in EventTypes \ {"goal"}
    BY DEF EventTypes
  <2>3. f \in NewFacts(o)
    <3> HIDE DEF k
    <3> QED BY <1>2, <2>1, <2>2 DEF Fact, NewFacts
  <2>4. Correction(o, goals) = <<f>> \/ Correction(o, goals) = <<>>
    BY DEF Correction
  <2> HIDE DEF f, NewFacts
  <2>5. <<f>> \in Seq(NewFacts(o)) /\ <<>> \in Seq(NewFacts(o))
    BY <2>3
  <2> QED BY <2>4, <2>5
<1>7. ScoreFacts(o, goals) \in Seq(NewFacts(o))
  <2>1. /\ Missing(o, goals, "home") \in Seq(NewFacts(o))
        /\ Missing(o, goals, "away") \in Seq(NewFacts(o))
    BY <1>5 DEF Sides
  <2> DEFINE A == Missing(o, goals, "home")
             B == Missing(o, goals, "away")
             C == Correction(o, goals)
  <2>2. ScoreFacts(o, goals) = A \o B \o C
    BY ScoreFactsIs
  <2>3. A \in Seq(NewFacts(o)) /\ B \in Seq(NewFacts(o)) /\ C \in Seq(NewFacts(o))
    BY <1>6, <2>1
  <2> HIDE DEF A, B, C, NewFacts
  <2> QED BY <2>2, <2>3
<1> QED BY <1>1, <1>3, <1>4, <1>5, <1>6, <1>7

\* Every fact of diff_fixture is new.
LEMMA FactsAreNew ==
    ASSUME NEW o \in Views, Prior \in Bases, NEW emitScheduled
    PROVE  FactsOf(o, emitScheduled) \in Seq(NewFacts(o))
<1> DEFINE a == EntriesOf(o)
<1>1. a \in Accounts(o)
  BY EntriesType
<1>2. a.facts \in Seq(NewFacts(o)) /\ a.owed \in SUBSET Owed(o) /\ a.goals \in [Sides -> Nat]
  BY <1>1 DEF Accounts
<1>3. PhaseFacts(a.owed) \in Seq(NewFacts(o))
  BY <1>2, PhaseFactsType
<1>4. ScoreFacts(o, a.goals) \in Seq(NewFacts(o))
  BY <1>2, ScoreFactsType
<1>5. Opening(o, emitScheduled) \in Seq(NewFacts(o)) /\ Closing(o) \in Seq(NewFacts(o))
  BY OpeningType, ClosingType
<1>6. FactsOf(o, emitScheduled) = Opening(o, emitScheduled) \o a.facts \o PhaseFacts(a.owed)
         \o ScoreFacts(o, a.goals) \o Closing(o)
  BY DEF FactsOf
<1> HIDE DEF a, NewFacts
<1> QED BY <1>2, <1>3, <1>4, <1>5, <1>6

-----------------------------------------------------------------------------
(* FixtureDiff: what each part of the facts does to the row                  *)

Ingests(o) == o \in Views /\ Prior \in Bases /\ KeysCovered(keys, Prior)

\* A row that the events after version b still change.
Open(r, b) == r \in Rows /\ Version(r) <= b /\ Status(r) # "fulltime"

\* A single new fact moves an open row by the reducer.
LEMMA OneFact ==
    ASSUME NEW o, Ingests(o), NEW b \in Nat, b + 1 <= MaxFacts, NEW r, Open(r, b),
           NEW f \in NewFacts(o), NEW q, Leads(r, b, <<f>>, q, o)
    PROVE  /\ q \in Rows /\ q # NoMatch /\ Version(q) <= b + 1
           /\ Status(q) = StatusBy(f, r)
           /\ Score(q) = ScoreBy(f, r)
<1>1. q = RowAfterFact(r, b + 1, f, o)
  BY LeadsByOne
<1>2. b + 1 \in Nat /\ b + 1 \in EventId
  BY FixtureAssumption
<1>3. Prior.version \in Nat
  BY DEF Ingests, Bases
<1>4. Version(r) < b + 1
  <2>1. Version(r) \in Nat
    BY DEF Open, Version, Rows, MatchRow
  <2> QED BY <2>1 DEF Open
<1>5. o \in Views /\ KeysCovered(keys, Prior) /\ r \in Rows /\ Status(r) # "fulltime"
  BY DEF Ingests, Open
<1>6. q \in MatchRow /\ q.version = b + 1
  BY <1>1, <1>2, <1>3, <1>4, <1>5, FactStep
<1>7. q # NoMatch /\ Version(q) <= b + 1
  BY <1>6, NoMatchAssumption DEF Version
<1>8. Status(q) = StatusBy(f, r)
  BY <1>1, <1>2, <1>3, <1>4, <1>5, FactStep
<1>9. Score(q) = ScoreBy(f, r)
  BY <1>1, <1>2, <1>3, <1>4, <1>5, FactStep
<1> QED BY <1>6, <1>7, <1>8, <1>9 DEF Rows

\* A phase that is due sets the state of play and leaves the score.
LEMMA EnsureSegment ==
    ASSUME NEW o, Ingests(o), NEW due \in SUBSET Owed(o), NEW ph \in PhaseNames,
           NEW b \in Nat, b + Len(Ensure(due, ph)) <= MaxFacts, NEW r, Open(r, b),
           NEW q, Leads(r, b, Ensure(due, ph), q, o)
    PROVE  /\ Open(q, b + Len(Ensure(due, ph)))
           /\ Score(q) = Score(r)
           /\ Status(q) = IF ph \notin due THEN Status(r)
                          ELSE IF ph = "halftime" THEN "halftime" ELSE "live"
<1>1. CASE ph \in due
  <2> DEFINE f == Plain(ph, <<ph>>)
  <2>1. Ensure(due, ph) = <<f>>
    BY <1>1 DEF Ensure
  <2>2. f.type = ph
    BY DEF Plain, Fact
  <2>3. f \in NewFacts(o)
    <3>1. <<f>> \in Seq(NewFacts(o))
      BY <2>1, EnsureType
    <3> HIDE DEF f, NewFacts
    <3>2. Len(<<f>>) = 1 /\ <<f>>[1] = f
      OBVIOUS
    <3> QED BY <3>1, <3>2, ElementOfSeq
  <2>4. Len(Ensure(due, ph)) = 1
    BY <2>1
  <2>5. Leads(r, b, <<f>>, q, o) /\ b + 1 <= MaxFacts
    BY <2>1, <2>4
  <2> HIDE DEF f
  <2>6. /\ q \in Rows /\ q # NoMatch /\ Version(q) <= b + 1
        /\ Status(q) = IF ph = "halftime" THEN "halftime" ELSE "live"
        /\ Score(q) = Score(r)
    BY <2>2, <2>3, <2>5, OneFact DEF PhaseNames, StatusBy, ScoreBy
  <2> QED BY <1>1, <2>4, <2>6 DEF Open
<1>2. CASE ph \notin due
  <2>1. Ensure(due, ph) = <<>>
    BY <1>2 DEF Ensure
  <2>2. q = r
    BY <2>1, LeadsNowhere
  <2>3. Len(Ensure(due, ph)) = 0
    BY <2>1
  <2> QED BY <1>2, <2>2, <2>3 DEF Open
<1> QED BY <1>1, <1>2

Restarted(due) == "second_half" \in due \/ "extra_time" \in due \/ "penalties" \in due

\* The last of the phases that are due decides the state of play.
LEMMA PhaseSegment ==
    ASSUME NEW o, Ingests(o), NEW due \in SUBSET Owed(o),
           NEW b \in Nat, b + Len(PhaseFacts(due)) <= MaxFacts, NEW r, Open(r, b),
           NEW q, Leads(r, b, PhaseFacts(due), q, o)
    PROVE  /\ Open(q, b + Len(PhaseFacts(due)))
           /\ Score(q) = Score(r)
           /\ Status(q) = IF Restarted(due) THEN "live"
                          ELSE IF "halftime" \in due THEN "halftime" ELSE Status(r)
<1> DEFINE A == Ensure(due, "halftime")
           B == Ensure(due, "second_half")
           C == Ensure(due, "extra_time")
           D == Ensure(due, "penalties")
           T == NewFacts(o)
<1>1. A \in Seq(T) /\ B \in Seq(T) /\ C \in Seq(T) /\ D \in Seq(T)
  BY EnsureType DEF PhaseNames
<1>2. PhaseFacts(due) = ((A \o B) \o C) \o D
  BY DEF PhaseFacts
<1> HIDE DEF A, B, C, D, T
<1>3. A \o B \in Seq(T) /\ (A \o B) \o C \in Seq(T)
  BY <1>1
<1>4. /\ Len(A) \in Nat /\ Len(B) \in Nat /\ Len(C) \in Nat /\ Len(D) \in Nat
      /\ Len(A \o B) = Len(A) + Len(B)
      /\ Len((A \o B) \o C) = Len(A) + Len(B) + Len(C)
      /\ Len(PhaseFacts(due)) = Len(A) + Len(B) + Len(C) + Len(D)
  BY <1>1, <1>2, <1>3
<1>5. PICK r3 \in Rows : /\ Leads(r, b, (A \o B) \o C, r3, o)
                          /\ Leads(r3, b + Len((A \o B) \o C), D, q, o)
  BY <1>1, <1>2, <1>3, LeadsInParts
<1>6. PICK r2 \in Rows : Leads(r, b, A \o B, r2, o) /\ Leads(r2, b + Len(A \o B), C, r3, o)
  BY <1>1, <1>3, <1>5, LeadsInParts
<1>7. PICK r1 \in Rows : Leads(r, b, A, r1, o) /\ Leads(r1, b + Len(A), B, r2, o)
  BY <1>1, <1>6, LeadsInParts
<1> DEFINE b1 == b + Len(A)
           b2 == b + (Len(A) + Len(B))
           b3 == b + (Len(A) + Len(B) + Len(C))
           b4 == b + (Len(A) + Len(B) + Len(C) + Len(D))
<1>8. /\ b1 \in Nat /\ b2 \in Nat /\ b3 \in Nat /\ b4 \in Nat
      /\ b2 = b1 + Len(B) /\ b3 = b2 + Len(C) /\ b4 = b3 + Len(D)
      /\ b1 <= MaxFacts /\ b2 <= MaxFacts /\ b3 <= MaxFacts /\ b4 <= MaxFacts
  BY <1>4, FixtureAssumption
<1>9. /\ Leads(r, b, A, r1, o) /\ Leads(r1, b1, B, r2, o) /\ Leads(r2, b2, C, r3, o)
      /\ Leads(r3, b3, D, q, o) /\ b4 = b + Len(PhaseFacts(due))
  BY <1>4, <1>5, <1>6, <1>7
<1> HIDE DEF b2, b3, b4
<1>10. Open(r1, b1) /\ Score(r1) = Score(r)
       /\ Status(r1) = IF "halftime" \notin due THEN Status(r) ELSE "halftime"
  <2>1. "halftime" \in PhaseNames
    BY DEF PhaseNames
  <2>2. b + Len(Ensure(due, "halftime")) <= MaxFacts /\ Leads(r, b, Ensure(due, "halftime"), r1, o)
    BY <1>8, <1>9 DEF A
  <2> QED BY <2>1, <2>2, EnsureSegment DEF A
<1> HIDE DEF b1
<1>11. Open(r2, b2) /\ Score(r2) = Score(r1)
       /\ Status(r2) = IF "second_half" \notin due THEN Status(r1) ELSE "live"
  BY <1>8, <1>9, <1>10, EnsureSegment DEF B, PhaseNames
<1>12. Open(r3, b3) /\ Score(r3) = Score(r2)
       /\ Status(r3) = IF "extra_time" \notin due THEN Status(r2) ELSE "live"
  BY <1>8, <1>9, <1>11, EnsureSegment, SMTT(30) DEF C, PhaseNames
<1>13. Open(q, b4) /\ Score(q) = Score(r3)
       /\ Status(q) = IF "penalties" \notin due THEN Status(r3) ELSE "live"
  BY <1>8, <1>9, <1>12, EnsureSegment DEF D, PhaseNames
<1>14. Status(q) = IF Restarted(due) THEN "live"
                          ELSE IF "halftime" \in due THEN "halftime" ELSE Status(r)
  BY <1>10, <1>11, <1>12, <1>13 DEF Restarted
<1> QED BY <1>9, <1>10, <1>11, <1>12, <1>13, <1>14

\* One goal.
LEMMA GoalSegment ==
    ASSUME NEW o, Ingests(o), NEW b \in Nat, b + 1 <= MaxFacts, NEW r, Open(r, b),
           NEW k \in NewKeys(o), NEW side \in Sides,
           NEW q, Leads(r, b, <<Fact("goal", k, side, NoGoals)>>, q, o)
    PROVE  /\ Open(q, b + 1)
           /\ Score(q) = [Score(r) EXCEPT ![side] = @ + 1]
           /\ Status(q) = IF Status(r) = "halftime" THEN "halftime" ELSE "live"
<1> DEFINE f == Fact("goal", k, side, NoGoals)
<1>1. f \in NewFacts(o)
  BY GoalType
<1>2. f.type = "goal" /\ f.side = side
  BY DEF Fact
<1> HIDE DEF f
<1>3. Leads(r, b, <<f>>, q, o)
  BY DEF f
<1>4. /\ q \in Rows /\ Version(q) <= b + 1
      /\ Status(q) = IF Status(r) = "halftime" THEN "halftime" ELSE "live"
      /\ Score(q) = [Score(r) EXCEPT ![side] = @ + 1]
  BY <1>1, <1>2, <1>3, OneFact DEF StatusBy, ScoreBy
<1> QED BY <1>4 DEF Open

\* The score of a row is a score.
LEMMA ScoreType ==
    ASSUME NEW r \in Rows
    PROVE  Score(r) \in [Sides -> Nat]
BY DEF Score, Rows, MatchRow

\* The goals by which one number exceeds another.
Gained(from, to) == IF to > from THEN to - from ELSE 0

\* The goals that only the score shows.
LEMMA MissingSegment ==
    ASSUME NEW o, Ingests(o), NEW side \in Sides, NEW from \in Nat, NEW to \in Nat,
           NEW minute \in Nat, NEW b \in Nat,
           b + Len(MissingGoals(side, from, to, minute)) <= MaxFacts, NEW r, Open(r, b),
           NEW q, Leads(r, b, MissingGoals(side, from, to, minute), q, o)
    PROVE  /\ Open(q, b + Len(MissingGoals(side, from, to, minute)))
           /\ Score(q) = [Score(r) EXCEPT ![side] = @ + Gained(from, to)]
           /\ Status(r) \in {"live", "halftime"} => Status(q) = Status(r)
           /\ to <= from => q = r
<1> DEFINE facts == MissingGoals(side, from, to, minute)
           n == Len(facts)
<1>0. Prior \in Bases /\ o \in Views /\ KeysCovered(keys, Prior) /\ Prior.version \in Nat
  BY DEF Ingests, Bases
<1>1. /\ n = (IF to > from THEN to - from ELSE 0)
      /\ \A i \in 1 .. n : facts[i] = Fact("goal", GoalKey(side, from + i, minute), side, NoGoals)
  BY <1>0, MissingGoalsType, ZenonT(60)
<1>2. n \in Nat
  BY <1>1
<1>3. PICK h \in [0 .. n -> Rows] :
         /\ h[0] = r
         /\ h[n] = q
         /\ \A i \in 1 .. n : h[i] = RowAfterFact(h[i - 1], b + i, facts[i], o)
  BY DEF Leads
<1> HIDE DEF facts, n
<1>4. Score(r) \in [Sides -> Nat]
  BY ScoreType DEF Open
<1> DEFINE Good(i) == /\ Open(h[i], b + i)
                      /\ Score(h[i]) = [Score(r) EXCEPT ![side] = @ + i]
                      /\ Status(r) \in {"live", "halftime"} => Status(h[i]) = Status(r)
           S == {i \in 0 .. n : Good(i)}
<1>5. 0 \in S
  <2>1. Open(h[0], b + 0)
    BY <1>3
  <2>2. Score(h[0]) = [Score(r) EXCEPT ![side] = @ + 0]
    BY <1>3, <1>4
  <2>3. Good(0)
    BY <1>3, <2>1, <2>2
  <2> QED BY <1>2, <2>3
<1>6. ASSUME NEW i \in 1 .. n, i - 1 \in S PROVE i \in S
  <2>1. i \in 0 .. n /\ i - 1 \in 0 .. n /\ i \in Nat /\ i - 1 \in Nat
    BY <1>2
  <2>2. Good(i - 1)
    BY <1>6
  <2>3. h[i - 1] \in Rows /\ h[i] \in Rows
    BY <2>1
  <2> DEFINE c == b + (i - 1)
             k == GoalKey(side, from + i, minute)
             f == Fact("goal", k, side, NoGoals)
  <2>4. c \in Nat /\ c + 1 = b + i /\ c + 1 <= MaxFacts
    BY <1>2, <2>1, FixtureAssumption DEF facts, n
  <2>5. k \in NewKeys(o)
    <3>1. from + i \in Nat
      BY <2>1
    <3> QED BY <1>0, <3>1, GoalKeys
  <2>6. f \in NewFacts(o) /\ f.type = "goal" /\ f.side = side
    BY <2>5, GoalType DEF Fact
  <2>7. facts[i] = f
    BY <1>1
  <2> HIDE DEF f
  <2>8. h[i] = RowAfterFact(h[i - 1], c + 1, f, o)
    BY <1>3, <2>4, <2>7
  <2>9. Version(h[i - 1]) < c + 1 /\ Status(h[i - 1]) # "fulltime"
    <3>1. Version(h[i - 1]) \in Nat
      BY <2>3 DEF Version, Rows, MatchRow
    <3> QED BY <2>2, <2>4, <3>1 DEF Open
  <2>10. c + 1 \in Nat /\ c + 1 \in EventId
    BY <2>4, FixtureAssumption
  <2>11. /\ h[i] \in MatchRow
         /\ h[i].version = c + 1
         /\ Status(h[i]) = IF Status(h[i - 1]) = "halftime" THEN "halftime" ELSE "live"
         /\ Score(h[i]) = [Score(h[i - 1]) EXCEPT ![side] = @ + 1]
    <3> HIDE DEF c
    <3> QED BY <1>0, <2>3, <2>6, <2>8, <2>9, <2>10, FactStep DEF StatusBy, ScoreBy
  <2>12. Open(h[i], b + i)
    <3>1. Version(h[i]) <= b + i
      BY <2>4, <2>11 DEF Version
    <3> QED BY <2>3, <2>11, <3>1 DEF Open
  <2>13. Score(h[i]) = [Score(r) EXCEPT ![side] = @ + i]
    <3>1. Score(h[i - 1]) = [Score(r) EXCEPT ![side] = @ + (i - 1)]
      BY <2>2
    <3> QED BY <1>4, <2>1, <2>11, <3>1
  <2>14. Status(r) \in {"live", "halftime"} => Status(h[i]) = Status(r)
    BY <2>2, <2>11
  <2> QED BY <2>1, <2>12, <2>13, <2>14
<1> HIDE DEF S
<1>7. n \in S
  <2>1. n \in 0 .. n
    BY <1>2
  <2> QED BY <1>2, <1>5, <1>6, <2>1, UpTo
<1>8. Good(n)
  BY <1>7 DEF S
<1>9. to <= from => q = r
  BY <1>1, <1>3
<1> QED BY <1>1, <1>3, <1>8, <1>9 DEF facts, n, Gained

\* The goals missing on one side raise that side to the reported score.
LEMMA SideSegment ==
    ASSUME NEW o, Ingests(o), NEW goals \in [Sides -> Nat], NEW side \in Sides, NEW b \in Nat,
           b + Len(Missing(o, goals, side)) <= MaxFacts, NEW r, Open(r, b),
           NEW q, Leads(r, b, Missing(o, goals, side), q, o)
    PROVE  /\ Open(q, b + Len(Missing(o, goals, side)))
           /\ \A s \in Sides : Score(q)[s] =
                 IF s = side THEN Score(r)[s] + Gained(Expected(goals)[s], Reported(o)[s])
                 ELSE Score(r)[s]
           /\ Status(r) \in {"live", "halftime"} => Status(q) = Status(r)
           /\ Reported(o)[side] <= Expected(goals)[side] => q = r
<1> DEFINE x == Expected(goals)[side]
           y == Reported(o)[side]
           m == MinuteAfter(o)
           M == MissingGoals(side, x, y, m)
<1>0. Prior \in Bases /\ o \in Views
  BY DEF Ingests
<1>1. Expected(goals) \in [Sides -> Nat] /\ Reported(o) \in [Sides -> Nat] /\ m \in Nat
  BY <1>0, ScoreFactsType, ReportedType
<1>2. x \in Nat /\ y \in Nat
  BY <1>1
<1>3. M = Missing(o, goals, side)
  BY DEF Missing
<1>4. Leads(r, b, M, q, o) /\ b + Len(M) <= MaxFacts
  BY <1>3
<1> HIDE DEF x, y, m
<1>5. /\ Open(q, b + Len(M))
      /\ Score(q) = [Score(r) EXCEPT ![side] = @ + Gained(x, y)]
      /\ Status(r) \in {"live", "halftime"} => Status(q) = Status(r)
      /\ y <= x => q = r
  BY <1>1, <1>2, <1>4, MissingSegment, SMTT(30)
<1>6. Score(r) \in [Sides -> Nat]
  BY ScoreType DEF Open
<1> HIDE DEF M
<1>7. \A s \in Sides : Score(q)[s] = IF s = side THEN Score(r)[s] + Gained(x, y) ELSE Score(r)[s]
  BY <1>5, <1>6
<1> QED BY <1>3, <1>5, <1>7 DEF x, y

\* After a correction the row has the reported score.
LEMMA CorrectionSegment ==
    ASSUME NEW o, Ingests(o), NEW goals \in [Sides -> Nat], NEW b \in Nat,
           b + Len(Correction(o, goals)) <= MaxFacts, NEW r, Open(r, b),
           NEW q, Leads(r, b, Correction(o, goals), q, o), Score(r) = Aligned(o, goals)
    PROVE  /\ Open(q, b + Len(Correction(o, goals)))
           /\ Score(q) = Reported(o)
           /\ r # NoMatch => Status(q) = Status(r)
           /\ r = NoMatch => Status(q) \in {"none", "scheduled"}
<1>0. Prior \in Bases /\ o \in Views
  BY DEF Ingests
<1>1. CASE Reported(o) # Aligned(o, goals)
  <2> DEFINE f == Fact("score_corrected",
                <<"score-corrected", Prior.version, Aligned(o, goals), Reported(o)>>,
                "none", Reported(o))
  <2>1. Correction(o, goals) = <<f>>
    BY <1>1 DEF Correction
  <2>2. f.type = "score_corrected" /\ f.score = Reported(o)
    BY DEF Fact
  <2> HIDE DEF f
  <2>3. f \in NewFacts(o)
    <3>1. <<f>> \in Seq(NewFacts(o))
      BY <1>0, <2>1, ScoreFactsType
    <3> HIDE DEF NewFacts
    <3>2. Len(<<f>>) = 1 /\ <<f>>[1] = f
      OBVIOUS
    <3> QED BY <3>1, <3>2, ElementOfSeq
  <2>4. Len(Correction(o, goals)) = 1 /\ Leads(r, b, <<f>>, q, o) /\ b + 1 <= MaxFacts
    BY <2>1
  <2>5. /\ q \in Rows /\ q # NoMatch /\ Version(q) <= b + 1
        /\ Status(q) = IF r = NoMatch THEN "scheduled" ELSE r.status
        /\ Score(q) = f.score
    BY <2>2, <2>3, <2>4, OneFact DEF StatusBy, ScoreBy
  <2> QED BY <2>2, <2>4, <2>5 DEF Open, Status
<1>2. CASE Reported(o) = Aligned(o, goals)
  <2>1. Correction(o, goals) = <<>>
    BY <1>2 DEF Correction
  <2>2. q = r /\ Len(Correction(o, goals)) = 0
    BY <2>1, LeadsNowhere
  <2> QED BY <1>2, <2>2 DEF Open, Status
<1> QED BY <1>1, <1>2

\* The status of a row after the opening facts.
StatusOpened(o, emitScheduled, r) ==
    IF StatusAfter(o) \in LiveCodes \cup FulltimeCodes /\ ~ Prior.kickoff THEN "live"
    ELSE IF emitScheduled /\ o.kick # Prior.kick THEN "scheduled"
    ELSE Status(r)

\* A reschedule, and then the kick-off.
LEMMA OpeningSegment ==
    ASSUME NEW o, Ingests(o), NEW emitScheduled, NEW b \in Nat,
           b + Len(Opening(o, emitScheduled)) <= MaxFacts, NEW r, Open(r, b),
           NEW q, Leads(r, b, Opening(o, emitScheduled), q, o)
    PROVE  /\ Open(q, b + Len(Opening(o, emitScheduled)))
           /\ Score(q) = Score(r)
           /\ Status(q) = StatusOpened(o, emitScheduled, r)
<1> DEFINE A == Rescheduled(o, emitScheduled)
           B == KickedOff(o)
           T == NewFacts(o)
<1>0. Prior \in Bases /\ o \in Views
  BY DEF Ingests
<1>1. A \in Seq(T) /\ B \in Seq(T) /\ Opening(o, emitScheduled) = A \o B
  BY <1>0, OpeningType
<1> HIDE DEF A, B, T
<1>2. Len(A) \in Nat /\ Len(B) \in Nat /\ Len(Opening(o, emitScheduled)) = Len(A) + Len(B)
  BY <1>1
<1>3. PICK p \in Rows : Leads(r, b, A, p, o) /\ Leads(p, b + Len(A), B, q, o)
  BY <1>1, LeadsInParts
<1>4. /\ Open(p, b + Len(A))
      /\ Score(p) = Score(r)
      /\ Status(p) = IF emitScheduled /\ o.kick # Prior.kick THEN "scheduled" ELSE Status(r)
  <2>1. CASE emitScheduled /\ o.kick # Prior.kick
    <3> DEFINE f == Plain("scheduled", <<"scheduled", Prior.version, o.kick>>)
    <3>1. A = <<f>>
      BY <2>1 DEF A, Rescheduled
    <3>2. f.type = "scheduled"
      BY DEF Plain, Fact
    <3> HIDE DEF f
    <3>3. f \in T
      <4>1. Len(<<f>>) = 1 /\ <<f>>[1] = f
        OBVIOUS
      <4> QED BY <1>1, <3>1, <4>1, ElementOfSeq
    <3>4. Len(A) = 1 /\ b + 1 <= MaxFacts
      BY <1>2, <3>1, FixtureAssumption
    <3>5. p \in Rows /\ Version(p) <= b + 1 /\ Status(p) = "scheduled" /\ Score(p) = Score(r)
      BY <1>3, <3>1, <3>2, <3>3, <3>4, OneFact DEF T, StatusBy, ScoreBy
    <3> QED BY <2>1, <3>4, <3>5 DEF Open
  <2>2. CASE ~ (emitScheduled /\ o.kick # Prior.kick)
    <3>1. A = <<>>
      BY <2>2 DEF A, Rescheduled
    <3>2. p = r /\ Len(A) = 0
      BY <1>3, <3>1, LeadsNowhere
    <3> QED BY <2>2, <3>2 DEF Open
  <2> QED BY <2>1, <2>2
<1> DEFINE c == b + Len(A)
<1>5. c \in Nat /\ c + Len(B) <= MaxFacts /\ c + Len(B) = b + Len(Opening(o, emitScheduled))
  BY <1>2, FixtureAssumption
<1>6. Leads(p, c, B, q, o) /\ Open(p, c)
  BY <1>3, <1>4
<1> HIDE DEF c
<1>7. CASE StatusAfter(o) \in LiveCodes \cup FulltimeCodes /\ ~ Prior.kickoff
  <2> DEFINE f == Plain("kickoff", <<"kickoff">>)
  <2>1. B = <<f>>
    BY <1>7 DEF B, KickedOff
  <2>2. f.type = "kickoff"
    BY DEF Plain, Fact
  <2> HIDE DEF f
  <2>3. f \in T
    <3>1. Len(<<f>>) = 1 /\ <<f>>[1] = f
      OBVIOUS
    <3> QED BY <1>1, <2>1, <3>1, ElementOfSeq
  <2>4. Len(B) = 1
    BY <2>1
  <2>5. q \in Rows /\ Version(q) <= c + 1 /\ Status(q) = "live" /\ Score(q) = Score(p)
    BY <1>5, <1>6, <2>1, <2>2, <2>3, <2>4, OneFact DEF T, StatusBy, ScoreBy
  <2> QED BY <1>4, <1>5, <1>7, <2>4, <2>5 DEF Open, StatusOpened
<1>8. CASE ~ (StatusAfter(o) \in LiveCodes \cup FulltimeCodes /\ ~ Prior.kickoff)
  <2>1. B = <<>>
    BY <1>8 DEF B, KickedOff
  <2>2. q = p /\ Len(B) = 0
    BY <1>5, <1>6, <2>1, LeadsNowhere
  <2> QED BY <1>4, <1>5, <1>8, <2>2 DEF Open, c, StatusOpened
<1> QED BY <1>7, <1>8

\* The row is where the status wants it, or the phase that brings it there is still owed.
Fits(code, owed, r) ==
    /\ Status(r) \in {"live", "halftime"}
    /\ IF code = "HT" THEN /\ owed \subseteq {"halftime"}
                           /\ "halftime" \in owed \/ Status(r) = "halftime"
       ELSE /\ "halftime" \in owed => "second_half" \in owed
            /\ "second_half" \in owed \/ Status(r) = "live"

\* Phases that are announced in order keep the row fitting.
LEMMA PhasesFit ==
    ASSUME NEW code, NEW owed, NEW due \in SUBSET owed, NEW r, NEW q, Fits(code, owed, r),
           "second_half" \in due /\ "halftime" \in owed => "halftime" \in due,
           Status(q) = IF Restarted(due) THEN "live"
                       ELSE IF "halftime" \in due THEN "halftime" ELSE Status(r)
    PROVE  Fits(code, owed \ due, q)
<1>1. CASE code = "HT"
  <2>1. ~ Restarted(due)
    BY <1>1 DEF Fits, Restarted
  <2> QED BY <1>1, <2>1 DEF Fits
<1>2. CASE code # "HT"
  BY <1>2 DEF Fits, Restarted
<1> QED BY <1>1, <1>2

\* One entry of the event list.
LEMMA EntrySegment ==
    ASSUME NEW o, Ingests(o), NEW i \in DOMAIN o.evs, NEW a \in Accounts(o), NEW b \in Nat,
           b + Len(AddEntry(a, o.evs[i]).facts) <= MaxFacts, NEW r, NEW q,
           Leads(r, b, AddEntry(a, o.evs[i]).facts, q, o)
    PROVE  \E p \in Rows :
              /\ Leads(r, b, a.facts, p, o)
              /\ b + Len(a.facts) <= MaxFacts
              /\ Open(p, b + Len(a.facts)) =>
                    /\ Open(q, b + Len(AddEntry(a, o.evs[i]).facts))
                    /\ Score(q) = IF o.evs[i].id \in a.ids THEN Score(p)
                                  ELSE [Score(p) EXCEPT ![o.evs[i].side] = @ + 1]
                    /\ Fits(StatusAfter(o), a.owed, p) =>
                          Fits(StatusAfter(o), AddEntry(a, o.evs[i]).owed, q)
<1> DEFINE e == o.evs[i]
           due == Due(a.owed, e)
           A == a.facts
           B == PhaseFacts(due)
           C == GoalOf(a.ids, e)
           N == AddEntry(a, e).facts
           T == NewFacts(o)
           code == StatusAfter(o)
<1>0. Prior \in Bases /\ o \in Views /\ KeysCovered(keys, Prior)
  BY DEF Ingests
<1>1. e \in Entries
  BY <1>0 DEF Views
<1>2. e.id \in Nat /\ e.side \in Sides /\ e.minute \in Nat
  BY <1>1 DEF Entries
<1>3. A \in Seq(T) /\ a.owed \in SUBSET Owed(o) /\ Prior.ids \subseteq a.ids
  BY DEF Accounts
<1>4. due \in SUBSET Owed(o) /\ due \in SUBSET a.owed
  BY <1>3 DEF Due
<1>5. B \in Seq(T)
  BY <1>4, PhaseFactsType
<1>6. C \in Seq(T)
  BY <1>0, <1>3, GoalOfType
<1>7. N = (A \o B) \o C
  BY AddEntryIs
<1>8. AddEntry(a, e).owed = a.owed \ due
  BY AddEntryIs
<1>9. Leads(r, b, N, q, o) /\ b + Len(N) <= MaxFacts
  OBVIOUS
<1>10. e.id \notin a.ids => C = <<Fact("goal", <<"event", e.id>>, e.side, NoGoals)>>
  BY DEF GoalOf
<1>11. e.id \in a.ids => C = <<>>
  BY DEF GoalOf
<1>12. e.id \notin a.ids => <<"event", e.id>> \in NewKeys(o)
  BY <1>2, <1>3, EventKeys
<1>13. "second_half" \in due /\ "halftime" \in a.owed => "halftime" \in due
  <2>1. PhaseReached("second_half", e.minute) => PhaseReached("halftime", e.minute)
    BY <1>2 DEF PhaseReached
  <2> QED BY <2>1 DEF Due
<1> HIDE DEF A, B, C, N, T, due
<1>14. /\ Len(A) \in Nat /\ Len(B) \in Nat /\ Len(C) \in Nat /\ A \o B \in Seq(T)
       /\ Len(A \o B) = Len(A) + Len(B) /\ Len(N) = Len(A) + Len(B) + Len(C)
  BY <1>3, <1>5, <1>6, <1>7
<1>15. PICK p2 \in Rows : Leads(r, b, A \o B, p2, o) /\ Leads(p2, b + Len(A \o B), C, q, o)
  BY <1>6, <1>7, <1>9, <1>14, LeadsInParts
<1>16. PICK p \in Rows : Leads(r, b, A, p, o) /\ Leads(p, b + Len(A), B, p2, o)
  BY <1>3, <1>5, <1>15, LeadsInParts
<1> DEFINE b1 == b + Len(A)
           b2 == b1 + Len(B)
<1>17. /\ b1 \in Nat /\ b2 \in Nat /\ b1 <= MaxFacts /\ b1 + Len(B) <= MaxFacts
       /\ b2 + Len(C) <= MaxFacts /\ b2 + Len(C) = b + Len(N) /\ b2 = b + Len(A \o B)
  BY <1>9, <1>14, FixtureAssumption
<1>18. Leads(p, b1, B, p2, o) /\ Leads(p2, b2, C, q, o)
  BY <1>15, <1>16, <1>17
<1>19. ASSUME Open(p, b1)
       PROVE  /\ Open(q, b2 + Len(C))
              /\ Score(q) = IF e.id \in a.ids THEN Score(p) ELSE [Score(p) EXCEPT ![e.side] = @ + 1]
              /\ Fits(code, a.owed, p) => Fits(code, a.owed \ due, q)
  <2>1. /\ Open(p2, b2)
        /\ Score(p2) = Score(p)
        /\ Status(p2) = IF Restarted(due) THEN "live"
                        ELSE IF "halftime" \in due THEN "halftime" ELSE Status(p)
    <3>1. /\ b1 \in Nat /\ b1 + Len(PhaseFacts(due)) <= MaxFacts
          /\ Leads(p, b1, PhaseFacts(due), p2, o) /\ Open(p, b1)
      BY <1>17, <1>18, <1>19 DEF B
    <3>2. b2 = b1 + Len(PhaseFacts(due))
      BY DEF B
    <3> HIDE DEF b1, b2
    <3> QED BY <1>4, <3>1, <3>2, PhaseSegment
  <2>2. Fits(code, a.owed, p) => Fits(code, a.owed \ due, p2)
    BY <1>4, <1>13, <2>1, PhasesFit
  <2> HIDE DEF b2
  <2>3. CASE e.id \in a.ids
    <3>1. C = <<>>
      BY <1>11, <2>3
    <3>2. q = p2 /\ Len(C) = 0
      BY <1>17, <1>18, <3>1, LeadsNowhere
    <3>3. b2 + Len(C) = b2
      BY <1>17, <3>2
    <3> QED BY <2>1, <2>2, <2>3, <3>2, <3>3
  <2>4. CASE e.id \notin a.ids
    <3>1. C = <<Fact("goal", <<"event", e.id>>, e.side, NoGoals)>>
      BY <1>10, <2>4
    <3>2. Len(C) = 1
      BY <3>1
    <3>3. /\ Open(q, b2 + 1)
          /\ Score(q) = [Score(p2) EXCEPT ![e.side] = @ + 1]
          /\ Status(q) = IF Status(p2) = "halftime" THEN "halftime" ELSE "live"
      <4>1. Leads(p2, b2, <<Fact("goal", <<"event", e.id>>, e.side, NoGoals)>>, q, o)
        BY <1>18, <3>1
      <4>2. b2 + 1 <= MaxFacts
        BY <1>17, <3>2
      <4>3. <<"event", e.id>> \in NewKeys(o)
        BY <1>12, <2>4
      <4> HIDE DEF e
      <4> QED BY <1>2, <1>17, <2>1, <4>1, <4>2, <4>3, GoalSegment
    <3>4. Fits(code, a.owed \ due, p2) => Fits(code, a.owed \ due, q)
      BY <3>3 DEF Fits
    <3> QED BY <2>1, <2>2, <2>4, <3>2, <3>3, <3>4
  <2> QED BY <2>3, <2>4
<1> QED BY <1>8, <1>16, <1>17, <1>19 DEF A, N

\* The event list adds its new goals, and announces the phases in their order.
LEMMA EntriesSegment ==
    ASSUME NEW o, Ingests(o), NEW b \in Nat, b + Len(EntriesOf(o).facts) <= MaxFacts,
           NEW r, Open(r, b), NEW q, Leads(r, b, EntriesOf(o).facts, q, o)
    PROVE  /\ Open(q, b + Len(EntriesOf(o).facts))
           /\ Score(q) = [s \in Sides |-> Score(r)[s] + EntriesOf(o).goals[s]]
           /\ Fits(StatusAfter(o), Owed(o), r) => Fits(StatusAfter(o), EntriesOf(o).owed, q)
<1> DEFINE n == Len(o.evs)
           code == StatusAfter(o)
<1>0. Prior \in Bases /\ o \in Views /\ KeysCovered(keys, Prior)
  BY DEF Ingests
<1>1. n \in Nat /\ DOMAIN o.evs = 1 .. n /\ \A i \in 1 .. n : o.evs[i].side \in Sides
  <2>1. o.evs \in Seq(Entries)
    BY <1>0 DEF Views
  <2>2. \A i \in 1 .. n : o.evs[i] \in Entries
    BY <2>1
  <2> QED BY <2>1, <2>2 DEF Entries
<1>2. PICK h \in [0 .. n -> Accounts(o)] :
              /\ h[0] = NoEntry(o)
              /\ h[n] = EntriesOf(o)
              /\ \A i \in 1 .. n : h[i] = AddEntry(h[i - 1], o.evs[i])
  BY <1>0, EntriesCourse
<1>3. Score(r) \in [Sides -> Nat]
  BY ScoreType DEF Open
<1> HIDE DEF n
<1> DEFINE Good(i) ==
             \A x : b + Len(h[i].facts) <= MaxFacts /\ Leads(r, b, h[i].facts, x, o) =>
                /\ Open(x, b + Len(h[i].facts))
                /\ Score(x) = [s \in Sides |-> Score(r)[s] + h[i].goals[s]]
                /\ Fits(code, Owed(o), r) => Fits(code, h[i].owed, x)
           S == {i \in 0 .. n : Good(i)}
<1>4. 0 \in S
  <2>1. h[0].facts = <<>> /\ h[0].goals = NoGoals /\ h[0].owed = Owed(o)
    BY <1>2 DEF NoEntry, Owed
  <2>2. ASSUME NEW x, Leads(r, b, h[0].facts, x, o)
        PROVE  /\ Open(x, b + Len(h[0].facts))
               /\ Score(x) = [s \in Sides |-> Score(r)[s] + h[0].goals[s]]
               /\ Fits(code, Owed(o), r) => Fits(code, h[0].owed, x)
    <3>1. x = r
      BY <2>1, <2>2, LeadsNowhere
    <3>2. Len(h[0].facts) = 0
      BY <2>1
    <3>3. Score(r) = [s \in Sides |-> Score(r)[s] + h[0].goals[s]]
      BY <1>3, <2>1 DEF NoGoals
    <3> QED BY <2>1, <3>1, <3>2, <3>3
  <2> QED BY <1>1, <2>2
<1>5. ASSUME NEW i \in 1 .. n, i - 1 \in S PROVE i \in S
  <2>1. i \in 0 .. n /\ i - 1 \in 0 .. n
    BY <1>1
  <2> DEFINE a == h[i - 1]
             e == o.evs[i]
  <2>2. a \in Accounts(o) /\ h[i] = AddEntry(a, e)
    BY <1>2, <2>1
  <2>3. Good(i - 1)
    BY <1>5
  <2>4. a.goals \in [Sides -> Nat] /\ e.side \in Sides
    BY <1>1, <2>2 DEF Accounts
  <2>5. h[i].goals = IF e.id \in a.ids THEN a.goals ELSE [a.goals EXCEPT ![e.side] = @ + 1]
    <3>1. AddEntry(a, e).goals = IF e.id \in a.ids THEN a.goals
                                 ELSE [a.goals EXCEPT ![e.side] = @ + 1]
      BY AddEntryIs, ZenonT(60)
    <3> HIDE DEF a, e
    <3> QED BY <2>2, <3>1
  <2>6. ASSUME NEW x, b + Len(h[i].facts) <= MaxFacts, Leads(r, b, h[i].facts, x, o)
        PROVE  /\ Open(x, b + Len(h[i].facts))
               /\ Score(x) = [s \in Sides |-> Score(r)[s] + h[i].goals[s]]
               /\ Fits(code, Owed(o), r) => Fits(code, h[i].owed, x)
    <3>1. PICK p \in Rows :
              /\ Leads(r, b, a.facts, p, o)
              /\ b + Len(a.facts) <= MaxFacts
              /\ Open(p, b + Len(a.facts)) =>
                    /\ Open(x, b + Len(h[i].facts))
                    /\ Score(x) = IF e.id \in a.ids THEN Score(p)
                                  ELSE [Score(p) EXCEPT ![e.side] = @ + 1]
                    /\ Fits(code, a.owed, p) => Fits(code, h[i].owed, x)
      <4>1. i \in DOMAIN o.evs
        BY <1>1
      <4>2. b + Len(AddEntry(a, o.evs[i]).facts) <= MaxFacts
            /\ Leads(r, b, AddEntry(a, o.evs[i]).facts, x, o)
        BY <2>2, <2>6
      <4> HIDE DEF a
      <4>3. \E p \in Rows :
              /\ Leads(r, b, a.facts, p, o)
              /\ b + Len(a.facts) <= MaxFacts
              /\ Open(p, b + Len(a.facts)) =>
                    /\ Open(x, b + Len(AddEntry(a, o.evs[i]).facts))
                    /\ Score(x) = IF o.evs[i].id \in a.ids THEN Score(p)
                                  ELSE [Score(p) EXCEPT ![o.evs[i].side] = @ + 1]
                    /\ Fits(StatusAfter(o), a.owed, p) =>
                          Fits(StatusAfter(o), AddEntry(a, o.evs[i]).owed, x)
        BY <2>2, <4>1, <4>2, EntrySegment
      <4> QED BY <2>2, <4>3
    <3>2. /\ Open(p, b + Len(a.facts))
          /\ Score(p) = [s \in Sides |-> Score(r)[s] + a.goals[s]]
          /\ Fits(code, Owed(o), r) => Fits(code, a.owed, p)
      BY <2>3, <3>1
    <3> HIDE DEF a, e
    <3>3. Score(x) = [s \in Sides |-> Score(r)[s] + h[i].goals[s]]
      <4>1. CASE e.id \in a.ids
        BY <2>5, <3>1, <3>2, <4>1
      <4>2. CASE e.id \notin a.ids
        <5>1. Score(x) = [Score(p) EXCEPT ![e.side] = @ + 1]
          BY <3>1, <3>2, <4>2
        <5>2. h[i].goals = [a.goals EXCEPT ![e.side] = @ + 1]
          BY <2>5, <4>2
        <5> DEFINE before == Score(r)
                   now == Score(p)
                   more == Score(x)
                   goals == h[i].goals
        <5>3. /\ before \in [Sides -> Nat]
              /\ a.goals \in [Sides -> Nat] /\ e.side \in Sides
              /\ now = [s \in Sides |-> before[s] + a.goals[s]]
              /\ more = [now EXCEPT ![e.side] = @ + 1]
              /\ goals = [a.goals EXCEPT ![e.side] = @ + 1]
          BY <1>3, <2>4, <3>2, <5>1, <5>2
        <5>4. more = [s \in Sides |-> before[s] + goals[s]]
          <6> HIDE DEF before, now, more, goals
          <6>1. \A s \in Sides : before[s] \in Nat /\ a.goals[s] \in Nat
            BY <5>3
          <6>2. ASSUME NEW s \in Sides PROVE more[s] = before[s] + goals[s]
            <7>1. now[s] = before[s] + a.goals[s]
              BY <5>3
            <7>2. DOMAIN now = Sides /\ DOMAIN a.goals = Sides
              BY <5>3
            <7>3. CASE s = e.side
              <8>1. more[s] = now[s] + 1 /\ goals[s] = a.goals[s] + 1
                BY <5>3, <7>2, <7>3
              <8> QED BY <6>1, <7>1, <8>1
            <7>4. CASE s # e.side
              <8>1. more[s] = now[s] /\ goals[s] = a.goals[s]
                BY <5>3, <7>2, <7>4
              <8> QED BY <7>1, <8>1
            <7> QED BY <7>3, <7>4
          <6>3. DOMAIN more = Sides /\ more = [s \in Sides |-> more[s]]
            BY <5>3
          <6> QED BY <6>2, <6>3
        <5> QED BY <5>4
      <4> QED BY <4>1, <4>2
    <3> QED BY <3>1, <3>2, <3>3
  <2> QED BY <2>1, <2>6
<1> HIDE DEF S
<1>6. n \in S
  <2>1. n \in 0 .. n
    BY <1>1
  <2> QED BY <1>1, <1>4, <1>5, <2>1, UpTo
<1>7. Good(n)
  BY <1>6 DEF S
<1> QED BY <1>2, <1>7

\* The ids of the event list are in the checkpoint.
LEMMA EntryIds ==
    ASSUME NEW o \in Views, Prior \in Bases
    PROVE  /\ Prior.ids \subseteq EntriesOf(o).ids
           /\ \A j \in DOMAIN o.evs : o.evs[j].id \in EntriesOf(o).ids
<1> DEFINE n == Len(o.evs)
<1>1. n \in Nat /\ DOMAIN o.evs = 1 .. n
  BY DEF Views
<1>2. PICK h \in [0 .. n -> Accounts(o)] :
              /\ h[0] = NoEntry(o)
              /\ h[n] = EntriesOf(o)
              /\ \A i \in 1 .. n : h[i] = AddEntry(h[i - 1], o.evs[i])
  BY EntriesCourse
<1> HIDE DEF n
<1> DEFINE S == {i \in 0 .. n : \A j \in 1 .. i : o.evs[j].id \in h[i].ids}
<1>3. 0 \in S
  BY <1>1
<1>4. ASSUME NEW i \in 1 .. n, i - 1 \in S PROVE i \in S
  <2>1. i \in 0 .. n /\ i - 1 \in 0 .. n
    BY <1>1
  <2>2. h[i].ids = h[i - 1].ids \cup {o.evs[i].id}
    <3>1. AddEntry(h[i - 1], o.evs[i]).ids = h[i - 1].ids \cup {o.evs[i].id}
      BY AddEntryIs
    <3> QED BY <1>2, <3>1
  <2>3. ASSUME NEW j \in 1 .. i PROVE o.evs[j].id \in h[i].ids
    <3>1. j = i \/ j \in 1 .. (i - 1)
      BY <1>1
    <3>2. j \in 1 .. (i - 1) => o.evs[j].id \in h[i - 1].ids
      BY <1>4
    <3> QED BY <2>2, <3>1, <3>2
  <2> QED BY <2>1, <2>3
<1> HIDE DEF S
<1>5. n \in S
  <2>1. n \in 0 .. n
    BY <1>1
  <2> QED BY <1>1, <1>3, <1>4, <2>1, UpTo
<1>6. EntriesOf(o) \in Accounts(o)
  BY EntriesType
<1> QED BY <1>1, <1>2, <1>5, <1>6 DEF S, Accounts

\* The score is brought to the reported one, and the state of play is left alone.
LEMMA ScoreSegment ==
    ASSUME NEW o, Ingests(o), NEW goals \in [Sides -> Nat], NEW b \in Nat,
           b + Len(ScoreFacts(o, goals)) <= MaxFacts, NEW r, Open(r, b),
           NEW q, Leads(r, b, ScoreFacts(o, goals), q, o), Score(r) = Expected(goals)
    PROVE  /\ Open(q, b + Len(ScoreFacts(o, goals)))
           /\ Score(q) = Reported(o)
           /\ Status(r) \in {"live", "halftime"} => Status(q) = Status(r)
           /\ (\A s \in Sides : Reported(o)[s] <= Expected(goals)[s]) =>
                 Status(q) = Status(r) \/ (r = NoMatch /\ Status(q) = "scheduled")
<1> DEFINE A == Missing(o, goals, "home")
           B == Missing(o, goals, "away")
           C == Correction(o, goals)
           N == ScoreFacts(o, goals)
           T == NewFacts(o)
           X == Expected(goals)
           R == Reported(o)
           m == MinuteAfter(o)
<1>0. Prior \in Bases /\ o \in Views
  BY DEF Ingests
<1>1. X \in [Sides -> Nat] /\ R \in [Sides -> Nat] /\ m \in Nat
  BY <1>0, ScoreFactsType, ReportedType
<1>2. A \in Seq(T) /\ B \in Seq(T) /\ C \in Seq(T)
  BY <1>0, ScoreFactsType DEF Sides
<1>3. N = (A \o B) \o C
  BY ScoreFactsIs
<1>4. Leads(r, b, N, q, o) /\ b + Len(N) <= MaxFacts
  OBVIOUS
<1>5. /\ A = MissingGoals("home", X["home"], R["home"], m)
      /\ B = MissingGoals("away", X["away"], R["away"], m)
  BY DEF Missing
<1>6. Aligned(o, goals) = [s \in Sides |-> IF X[s] >= R[s] THEN X[s] ELSE R[s]]
  BY DEF Aligned, Later
<1>7. X["home"] \in Nat /\ X["away"] \in Nat /\ R["home"] \in Nat /\ R["away"] \in Nat
      /\ "home" \in Sides /\ "away" \in Sides
  BY <1>1 DEF Sides
<1> HIDE DEF A, B, C, N, T, X, R, m
<1>8. /\ Len(A) \in Nat /\ Len(B) \in Nat /\ Len(C) \in Nat /\ A \o B \in Seq(T)
      /\ Len(A \o B) = Len(A) + Len(B) /\ Len(N) = Len(A) + Len(B) + Len(C)
  BY <1>2, <1>3
<1>9. PICK r2 \in Rows : Leads(r, b, A \o B, r2, o) /\ Leads(r2, b + Len(A \o B), C, q, o)
  BY <1>2, <1>3, <1>4, <1>8, LeadsInParts
<1>10. PICK r1 \in Rows : Leads(r, b, A, r1, o) /\ Leads(r1, b + Len(A), B, r2, o)
  BY <1>2, <1>9, LeadsInParts
<1> DEFINE b1 == b + Len(A)
           b2 == b1 + Len(B)
<1>11. /\ b1 \in Nat /\ b2 \in Nat /\ b + Len(A) <= MaxFacts /\ b1 + Len(B) <= MaxFacts
       /\ b2 + Len(C) <= MaxFacts /\ b2 + Len(C) = b + Len(N) /\ b2 = b + Len(A \o B)
  BY <1>4, <1>8, FixtureAssumption
<1>12. Leads(r1, b1, B, r2, o) /\ Leads(r2, b2, C, q, o)
  BY <1>9, <1>10, <1>11
<1>13. /\ Open(r1, b1)
       /\ \A s \in Sides : Score(r1)[s] = IF s = "home" THEN Score(r)[s] + Gained(X[s], R[s])
                                          ELSE Score(r)[s]
       /\ Status(r) \in {"live", "halftime"} => Status(r1) = Status(r)
       /\ R["home"] <= X["home"] => r1 = r
  BY <1>7, <1>10, <1>11, SideSegment DEF A, X, R
<1> HIDE DEF b1
<1>14. /\ Open(r2, b1 + Len(B))
       /\ \A s \in Sides : Score(r2)[s] = IF s = "away" THEN Score(r1)[s] + Gained(X[s], R[s])
                                          ELSE Score(r1)[s]
       /\ Status(r1) \in {"live", "halftime"} => Status(r2) = Status(r1)
       /\ R["away"] <= X["away"] => r2 = r1
  BY <1>7, <1>11, <1>12, <1>13, SideSegment DEF B, X, R
<1>15. Score(r2) = Aligned(o, goals)
  <2>1. Score(r) = X
    BY DEF X
  <2>2. Score(r2) \in [Sides -> Nat]
    BY ScoreType
  <2>3. \A s \in Sides : X[s] \in Nat /\ R[s] \in Nat
    BY <1>1
  <2>4. \A s \in Sides : Score(r2)[s] = X[s] + Gained(X[s], R[s])
    <3>1. \A s \in Sides : s = "home" \/ s = "away"
      BY DEF Sides
    <3> QED BY <1>13, <1>14, <2>1, <3>1
  <2>5. \A s \in Sides : Score(r2)[s] = IF X[s] >= R[s] THEN X[s] ELSE R[s]
    BY <2>3, <2>4 DEF Gained
  <2> QED BY <1>6, <2>2, <2>5
<1>16. Open(r2, b2)
  BY <1>14
<1> HIDE DEF b2
<1>17. /\ Open(q, b2 + Len(C))
       /\ Score(q) = R
       /\ r2 # NoMatch => Status(q) = Status(r2)
       /\ r2 = NoMatch => Status(q) \in {"none", "scheduled"}
  <2>1. b2 + Len(Correction(o, goals)) <= MaxFacts /\ Leads(r2, b2, Correction(o, goals), q, o)
    BY <1>11, <1>12 DEF C
  <2>2. /\ Open(q, b2 + Len(Correction(o, goals)))
        /\ Score(q) = Reported(o)
        /\ r2 # NoMatch => Status(q) = Status(r2)
        /\ r2 = NoMatch => Status(q) \in {"none", "scheduled"}
    BY <1>11, <1>15, <1>16, <2>1, CorrectionSegment
  <2> QED BY <2>2 DEF C, R
<1>18. Status(r) \in {"live", "halftime"} => Status(q) = Status(r)
  BY <1>13, <1>14, <1>17 DEF Status
<1>19. ASSUME \A s \in Sides : R[s] <= X[s]
       PROVE  Status(q) = Status(r) \/ (r = NoMatch /\ Status(q) = "scheduled")
  <2>1. r2 = r
    BY <1>7, <1>13, <1>14, <1>19
  <2> QED BY <1>17, <2>1 DEF Status
<1> QED BY <1>11, <1>17, <1>18, <1>19 DEF N, R, X

\* The phases that are still owed after the entries.
LEMMA RestSegment ==
    ASSUME NEW o, Ingests(o), NEW owed \in SUBSET Owed(o), NEW b \in Nat,
           b + Len(PhaseFacts(owed)) <= MaxFacts, NEW r, Open(r, b),
           NEW q, Leads(r, b, PhaseFacts(owed), q, o)
    PROVE  /\ Open(q, b + Len(PhaseFacts(owed)))
           /\ Score(q) = Score(r)
           /\ Fits(StatusAfter(o), owed, r) =>
                 Status(q) = IF StatusAfter(o) = "HT" THEN "halftime" ELSE "live"
           /\ owed = {} => Status(q) = Status(r)
<1>1. /\ Open(q, b + Len(PhaseFacts(owed)))
      /\ Score(q) = Score(r)
      /\ Status(q) = IF Restarted(owed) THEN "live"
                     ELSE IF "halftime" \in owed THEN "halftime" ELSE Status(r)
  BY PhaseSegment
<1>2. ASSUME Fits(StatusAfter(o), owed, r)
      PROVE  Status(q) = IF StatusAfter(o) = "HT" THEN "halftime" ELSE "live"
  <2>1. Fits(StatusAfter(o), owed \ owed, q)
    BY <1>1, <1>2, PhasesFit
  <2> QED BY <2>1 DEF Fits
<1>3. owed = {} => Status(q) = Status(r)
  BY <1>1 DEF Restarted
<1> QED BY <1>1, <1>2, <1>3

\* Full time comes last.
LEMMA ClosingSegment ==
    ASSUME NEW o, Ingests(o), NEW b \in Nat, b + Len(Closing(o)) <= MaxFacts,
           NEW r, Open(r, b), NEW q, Leads(r, b, Closing(o), q, o)
    PROVE  IF StatusAfter(o) \in FulltimeCodes /\ ~ Prior.fulltime THEN Status(q) = "fulltime"
           ELSE q = r
<1>0. Prior \in Bases /\ o \in Views
  BY DEF Ingests
<1>1. CASE StatusAfter(o) \in FulltimeCodes /\ ~ Prior.fulltime
  <2> DEFINE f == Plain("fulltime", <<"fulltime">>)
  <2>1. Closing(o) = <<f>>
    BY <1>1 DEF Closing
  <2>2. f.type = "fulltime"
    BY DEF Plain, Fact
  <2> HIDE DEF f
  <2>3. f \in NewFacts(o)
    <3>1. <<f>> \in Seq(NewFacts(o))
      BY <1>0, <2>1, ClosingType
    <3> HIDE DEF NewFacts
    <3>2. Len(<<f>>) = 1 /\ <<f>>[1] = f
      OBVIOUS
    <3> QED BY <3>1, <3>2, ElementOfSeq
  <2>4. Len(Closing(o)) = 1
    BY <2>1
  <2>5. Status(q) = "fulltime"
    BY <2>1, <2>2, <2>3, <2>4, OneFact DEF StatusBy
  <2> QED BY <1>1, <2>5
<1>2. CASE ~ (StatusAfter(o) \in FulltimeCodes /\ ~ Prior.fulltime)
  <2>1. Closing(o) = <<>>
    BY <1>2 DEF Closing
  <2> QED BY <1>2, <2>1, LeadsNowhere
<1> QED BY <1>1, <1>2

\* The whole of an ingest, for a row that is not over.
LEMMA IngestRow ==
    ASSUME NEW o, Ingests(o), NEW emitScheduled, NEW facts, facts = FactsOf(o, emitScheduled),
           Prior.version + Len(facts) <= MaxFacts, Open(mrow, Prior.version),
           Score(mrow) = Prior.score
    PROVE  \E r1 \in Rows, q \in Rows :
              /\ Status(r1) = StatusOpened(o, emitScheduled, mrow)
              /\ Score(q) = Reported(o)
              /\ Status(q) # "fulltime"
              /\ Fits(StatusAfter(o), Owed(o), r1) =>
                    Status(q) = IF StatusAfter(o) = "HT" THEN "halftime" ELSE "live"
              /\ /\ o.evs = <<>>
                 /\ Owed(o) = {}
                 /\ \A s \in Sides : Reported(o)[s] <= Prior.score[s]
                 => Status(q) = Status(r1) \/ (r1 = NoMatch /\ Status(q) = "scheduled")
              /\ IF StatusAfter(o) \in FulltimeCodes /\ ~ Prior.fulltime
                 THEN Status(RowAfter(facts, o)) = "fulltime"
                 ELSE RowAfter(facts, o) = q
<1> DEFINE a == EntriesOf(o)
           A == Opening(o, emitScheduled)
           B == a.facts
           C == PhaseFacts(a.owed)
           D == ScoreFacts(o, a.goals)
           E == Closing(o)
           T == NewFacts(o)
           b == Prior.version
           z == RowAfter(facts, o)
<1>0. Prior \in Bases /\ o \in Views /\ KeysCovered(keys, Prior) /\ b \in Nat
  BY DEF Ingests, Bases
<1>1. a \in Accounts(o)
  BY <1>0, EntriesType
<1>2. B \in Seq(T) /\ a.owed \in SUBSET Owed(o) /\ a.goals \in [Sides -> Nat]
  BY <1>1 DEF Accounts
<1>3. A \in Seq(T) /\ C \in Seq(T) /\ D \in Seq(T) /\ E \in Seq(T)
  BY <1>0, <1>2, OpeningType, PhaseFactsType, ScoreFactsType, ClosingType
<1>4. facts = (((A \o B) \o C) \o D) \o E
  BY DEF FactsOf
<1>5. Leads(mrow, b, facts, z, o)
  <2>1. facts \in Seq(NewFacts(o))
    BY <1>0, FactsAreNew
  <2> QED BY <1>0, <2>1, RowLeads DEF Open
<1>6. /\ o.evs = <<>> => a.owed = Owed(o) /\ a.goals = NoGoals /\ B = <<>>
  <2>1. ASSUME o.evs = <<>> PROVE a = NoEntry(o)
    <3>1. PICK h \in [0 .. Len(o.evs) -> Accounts(o)] : h[0] = NoEntry(o) /\ h[Len(o.evs)] = a
      BY <1>0, EntriesCourse
    <3>2. Len(o.evs) = 0
      BY <2>1
    <3> QED BY <3>1, <3>2
  <2> QED BY <2>1 DEF NoEntry, Owed
<1>60. b \in Nat /\ b + Len(facts) <= MaxFacts /\ MaxFacts \in Nat /\ Open(mrow, b)
  BY <1>0, FixtureAssumption
<1> HIDE DEF a, A, B, C, D, E, T, z, b
<1>7. /\ A \o B \in Seq(T) /\ (A \o B) \o C \in Seq(T) /\ ((A \o B) \o C) \o D \in Seq(T)
  BY <1>2, <1>3
<1>8. /\ Len(A) \in Nat /\ Len(B) \in Nat /\ Len(C) \in Nat /\ Len(D) \in Nat /\ Len(E) \in Nat
      /\ Len(A \o B) = Len(A) + Len(B)
      /\ Len((A \o B) \o C) = Len(A) + Len(B) + Len(C)
      /\ Len(((A \o B) \o C) \o D) = Len(A) + Len(B) + Len(C) + Len(D)
      /\ Len(facts) = Len(A) + Len(B) + Len(C) + Len(D) + Len(E)
  BY <1>2, <1>3, <1>4, <1>7
<1>9. PICK r4 \in Rows : /\ Leads(mrow, b, ((A \o B) \o C) \o D, r4, o)
                         /\ Leads(r4, b + Len(((A \o B) \o C) \o D), E, z, o)
  BY <1>60, <1>3, <1>4, <1>5, <1>7, LeadsInParts
<1>10. PICK r3 \in Rows : /\ Leads(mrow, b, (A \o B) \o C, r3, o)
                          /\ Leads(r3, b + Len((A \o B) \o C), D, r4, o)
  BY <1>60, <1>3, <1>7, <1>9, LeadsInParts
<1>11. PICK r2 \in Rows : /\ Leads(mrow, b, A \o B, r2, o)
                          /\ Leads(r2, b + Len(A \o B), C, r3, o)
  BY <1>60, <1>3, <1>7, <1>10, LeadsInParts
<1>12. PICK r1 \in Rows : /\ Leads(mrow, b, A, r1, o)
                          /\ Leads(r1, b + Len(A), B, r2, o)
  BY <1>60, <1>2, <1>3, <1>11, LeadsInParts
<1> DEFINE b1 == b + Len(A)
           b2 == b1 + Len(B)
           b3 == b2 + Len(C)
           b4 == b3 + Len(D)
<1>13. /\ b1 \in Nat /\ b2 \in Nat /\ b3 \in Nat /\ b4 \in Nat
       /\ b + Len(A) <= MaxFacts /\ b1 + Len(B) <= MaxFacts /\ b2 + Len(C) <= MaxFacts
       /\ b3 + Len(D) <= MaxFacts /\ b4 + Len(E) <= MaxFacts
       /\ b + Len(A \o B) = b2 /\ b + Len((A \o B) \o C) = b3
       /\ b + Len(((A \o B) \o C) \o D) = b4
  <2> DEFINE la == Len(A) lb == Len(B) lc == Len(C) ld == Len(D) le == Len(E)
  <2>1. b + Len(facts) <= MaxFacts /\ MaxFacts \in Nat
    BY <1>60
  <2>2. b + (la + lb + lc + ld + le) <= MaxFacts
    BY <1>8, <2>1
  <2>3. la \in Nat /\ lb \in Nat /\ lc \in Nat /\ ld \in Nat /\ le \in Nat
    BY <1>8
  <2>4. b1 = b + la /\ b2 = b + la + lb /\ b3 = b + la + lb + lc /\ b4 = b + la + lb + lc + ld
    OBVIOUS
  <2>5. /\ b + Len(A \o B) = b + (la + lb) /\ b + Len((A \o B) \o C) = b + (la + lb + lc)
        /\ b + Len(((A \o B) \o C) \o D) = b + (la + lb + lc + ld)
    BY <1>8
  <2> HIDE DEF la, lb, lc, ld, le, b1, b2, b3, b4
  <2>6. /\ b1 \in Nat /\ b2 \in Nat /\ b3 \in Nat /\ b4 \in Nat
        /\ b + la <= MaxFacts /\ b1 + lb <= MaxFacts /\ b2 + lc <= MaxFacts
        /\ b3 + ld <= MaxFacts /\ b4 + le <= MaxFacts
    BY <1>60, <2>2, <2>3, <2>4
  <2>7. /\ b + Len(A \o B) = b2 /\ b + Len((A \o B) \o C) = b3
        /\ b + Len(((A \o B) \o C) \o D) = b4
    BY <1>60, <2>3, <2>4, <2>5
  <2> QED BY <2>6, <2>7 DEF la, lb, lc, ld, le
<1>14. /\ Leads(r1, b1, B, r2, o) /\ Leads(r2, b2, C, r3, o) /\ Leads(r3, b3, D, r4, o)
       /\ Leads(r4, b4, E, z, o)
  BY <1>9, <1>10, <1>11, <1>12, <1>13
<1>15. /\ Open(r1, b1)
       /\ Score(r1) = Score(mrow)
       /\ Status(r1) = StatusOpened(o, emitScheduled, mrow)
  <2>1. /\ b + Len(Opening(o, emitScheduled)) <= MaxFacts
        /\ Leads(mrow, b, Opening(o, emitScheduled), r1, o)
    BY <1>12, <1>13 DEF A
  <2>2. Open(mrow, b) /\ b \in Nat
    BY <1>60
  <2>3. /\ Open(r1, b + Len(Opening(o, emitScheduled)))
        /\ Score(r1) = Score(mrow)
        /\ Status(r1) = StatusOpened(o, emitScheduled, mrow)
    BY <1>0, <2>1, <2>2, OpeningSegment
  <2> QED BY <2>3 DEF A
<1> HIDE DEF b1
<1>16. /\ Open(r2, b1 + Len(B))
       /\ Score(r2) = [s \in Sides |-> Score(r1)[s] + a.goals[s]]
       /\ Fits(StatusAfter(o), Owed(o), r1) => Fits(StatusAfter(o), a.owed, r2)
  BY <1>13, <1>14, <1>15, EntriesSegment DEF B, a
<1>160. Open(r2, b2)
  BY <1>16
<1> HIDE DEF b2
<1>17. /\ Open(r3, b2 + Len(C))
       /\ Score(r3) = Score(r2)
       /\ Fits(StatusAfter(o), a.owed, r2) =>
                 Status(r3) = IF StatusAfter(o) = "HT" THEN "halftime" ELSE "live"
       /\ a.owed = {} => Status(r3) = Status(r2)
  <2>1. b2 + Len(PhaseFacts(a.owed)) <= MaxFacts /\ Leads(r2, b2, PhaseFacts(a.owed), r3, o)
    BY <1>13, <1>14 DEF C
  <2> DEFINE w == a.owed
  <2>2. w \in SUBSET Owed(o)
    BY <1>2
  <2> HIDE DEF w
  <2>3. b2 + Len(PhaseFacts(w)) <= MaxFacts /\ Leads(r2, b2, PhaseFacts(w), r3, o)
    BY <2>1 DEF w
  <2>4. /\ Open(r3, b2 + Len(PhaseFacts(w)))
        /\ Score(r3) = Score(r2)
        /\ Fits(StatusAfter(o), w, r2) =>
                 Status(r3) = IF StatusAfter(o) = "HT" THEN "halftime" ELSE "live"
        /\ w = {} => Status(r3) = Status(r2)
    BY <1>13, <1>160, <2>2, <2>3, RestSegment
  <2> QED BY <2>4 DEF C, w
<1>170. Open(r3, b3)
  BY <1>17
<1> HIDE DEF b3
<1>18. Score(r3) = Expected(a.goals)
  BY <1>15, <1>16, <1>17 DEF Expected
<1>19. /\ Open(r4, b3 + Len(D))
       /\ Score(r4) = Reported(o)
       /\ Status(r3) \in {"live", "halftime"} => Status(r4) = Status(r3)
       /\ (\A s \in Sides : Reported(o)[s] <= Expected(a.goals)[s]) =>
                 Status(r4) = Status(r3) \/ (r3 = NoMatch /\ Status(r4) = "scheduled")
  BY <1>2, <1>13, <1>14, <1>170, <1>18, ScoreSegment, SMTT(30) DEF D
<1>190. Open(r4, b4)
  BY <1>19
<1> HIDE DEF b4
<1>20. IF StatusAfter(o) \in FulltimeCodes /\ ~ Prior.fulltime
       THEN Status(z) = "fulltime" ELSE z = r4
  BY <1>13, <1>14, <1>190, ClosingSegment DEF E
<1>21. Fits(StatusAfter(o), Owed(o), r1) =>
          Status(r4) = IF StatusAfter(o) = "HT" THEN "halftime" ELSE "live"
  BY <1>16, <1>17, <1>19
<1>22. ASSUME o.evs = <<>>, Owed(o) = {}, \A s \in Sides : Reported(o)[s] <= Prior.score[s]
       PROVE  Status(r4) = Status(r1) \/ (r1 = NoMatch /\ Status(r4) = "scheduled")
  <2>1. a.owed = {} /\ a.goals = NoGoals /\ B = <<>>
    BY <1>6, <1>22
  <2>2. r2 = r1
    BY <1>13, <1>14, <2>1, LeadsNowhere
  <2>3. Prior.score \in [Sides -> Nat]
    BY <1>0 DEF Bases
  <2>4. \A s \in Sides : Expected(a.goals)[s] = Prior.score[s]
    BY <2>1, <2>3 DEF Expected, NoGoals
  <2>5. C = <<>>
    BY <2>1 DEF C, PhaseFacts, Ensure
  <2>6. r3 = r2
    BY <1>13, <1>14, <2>5, LeadsNowhere
  <2> QED BY <1>19, <1>22, <2>2, <2>4, <2>6
<1>23. Status(r4) # "fulltime"
  BY <1>19 DEF Open
<1> QED BY <1>15, <1>19, <1>20, <1>21, <1>22, <1>23 DEF z

-----------------------------------------------------------------------------
(* FixtureDiff: the match as the API has it                                  *)

GoalsOf(evs, s) == {i \in DOMAIN evs : evs[i].side = s}

ApiOK(a) ==
    /\ a \in [status : StatusCodes \ {"LIVE"}, kick : Kickoff, score : [Sides -> Nat],
              evs : Seq(Entries), n : Nat]
    /\ \A s \in Sides : a.score[s] = Cardinality(GoalsOf(a.evs, s))
    /\ a.status = "NS" => a.evs = <<>>

\* The goals of a side can be counted.
LEMMA GoalsOfType ==
    ASSUME NEW evs \in Seq(Entries), NEW s
    PROVE  IsFiniteSet(GoalsOf(evs, s)) /\ Cardinality(GoalsOf(evs, s)) \in Nat
<1>1. IsFiniteSet(1 .. Len(evs))
  BY FS_Interval
<1>2. GoalsOf(evs, s) \subseteq 1 .. Len(evs)
  BY DEF GoalsOf
<1> QED BY <1>1, <1>2, FS_Subset, FS_CardinalityType

\* One more goal in the list counts for its own side.
LEMMA GoalsOfMore ==
    ASSUME NEW evs \in Seq(Entries), NEW e \in Entries, NEW s
    PROVE  Cardinality(GoalsOf(Append(evs, e), s)) =
              Cardinality(GoalsOf(evs, s)) + (IF e.side = s THEN 1 ELSE 0)
<1> DEFINE n == Len(evs)
           x == Append(evs, e)
           A == GoalsOf(evs, s)
<1>1. n \in Nat /\ DOMAIN evs = 1 .. n /\ DOMAIN x = 1 .. n + 1
  OBVIOUS
<1>2. (\A i \in 1 .. n : x[i] = evs[i]) /\ x[n + 1] = e
  OBVIOUS
<1> HIDE DEF x
<1>3. GoalsOf(x, s) = IF e.side = s THEN A \cup {n + 1} ELSE A
  <2>1. \A i : i \in 1 .. n + 1 <=> i \in 1 .. n \/ i = n + 1
    BY <1>1
  <2> QED BY <1>1, <1>2, <2>1 DEF GoalsOf
<1>4. IsFiniteSet(A) /\ n + 1 \notin A /\ Cardinality(A) \in Nat
  <2>1. IsFiniteSet(A) /\ Cardinality(A) \in Nat
    BY GoalsOfType
  <2>2. n + 1 \notin A
    BY <1>1 DEF GoalsOf
  <2> QED BY <2>1, <2>2
<1> HIDE DEF A
<1>5. Cardinality(A \cup {n + 1}) = Cardinality(A) + 1
  BY <1>4, FS_AddElement
<1> QED BY <1>3, <1>4, <1>5 DEF x, A

\* A list of goals is its front and its last goal.
LEMMA LastGoal ==
    ASSUME NEW evs \in Seq(Entries), evs # <<>>
    PROVE  /\ Front(evs) \in Seq(Entries)
           /\ Last(evs) \in Entries
           /\ evs = Append(Front(evs), Last(evs))
<1>1. Len(evs) \in Nat /\ Len(evs) >= 1
  OBVIOUS
<1>2. Front(evs) = SubSeq(evs, 1, Len(evs) - 1) /\ Last(evs) = evs[Len(evs)]
  BY DEF Front, Last
<1> DEFINE x == SubSeq(evs, 1, Len(evs) - 1)
           e == evs[Len(evs)]
<1>3. x \in Seq(Entries) /\ Len(x) = Len(evs) - 1 /\ \A i \in 1 .. Len(evs) - 1 : x[i] = evs[i]
  <2> DEFINE m == Len(evs) - 1
  <2>1. m \in Nat /\ 1 \in Int /\ m \in Int /\ \A i \in 1 .. m : evs[i] \in Entries
    BY <1>1
  <2>2. /\ SubSeq(evs, 1, m) \in Seq(Entries)
        /\ Len(SubSeq(evs, 1, m)) = IF 1 <= m THEN m - 1 + 1 ELSE 0
        /\ \A i \in 1 .. m - 1 + 1 : SubSeq(evs, 1, m)[i] = evs[1 + i - 1]
    <3> HIDE DEF m
    <3> QED BY <2>1, SubSeqProperties
  <2> HIDE DEF m
  <2>3. m - 1 + 1 = m /\ \A i \in 1 .. m : 1 + i - 1 = i
    BY <2>1
  <2>4. Len(SubSeq(evs, 1, m)) = m /\ \A i \in 1 .. m : SubSeq(evs, 1, m)[i] = evs[i]
    BY <2>1, <2>2, <2>3
  <2> QED BY <2>2, <2>4 DEF m, x
<1>4. e \in Entries
  BY <1>1
<1> HIDE DEF x, e
<1>5. /\ Append(x, e) \in Seq(Entries) /\ Len(Append(x, e)) = Len(evs)
      /\ \A i \in 1 .. Len(evs) : Append(x, e)[i] = evs[i]
  BY <1>1, <1>3, <1>4 DEF e
<1>6. evs = Append(x, e)
  BY <1>5, SeqEqual
<1> QED BY <1>2, <1>3, <1>4, <1>6 DEF x, e

\* Every status has a minute.
LEMMA MinuteType == \A code : MinuteOf(code) \in Nat
BY DEF MinuteOf

\* A match that has not begun has no goals.
LEMMA ApiBegins == ApiOK(ApiInit)
<1>1. (CHOOSE k \in Kickoff : TRUE) \in Kickoff
  BY FixtureAssumption
<1>2. \A s \in Sides : NoGoals[s] = 0
  BY DEF NoGoals
<1>3. \A s \in Sides : GoalsOf(<<>>, s) = {}
  BY DEF GoalsOf
<1>4. Cardinality({}) = 0
  BY FS_EmptySet
<1>5. NoGoals \in [Sides -> Nat] /\ <<>> \in Seq(Entries)
  BY DEF NoGoals
<1>6. "NS" \in StatusCodes \ {"LIVE"}
  BY DEF StatusCodes, ScheduledCodes
<1>7. \A s \in Sides : NoGoals[s] = Cardinality(GoalsOf(<<>>, s))
  BY <1>2, <1>3, <1>4
<1> QED BY <1>1, <1>5, <1>6, <1>7 DEF ApiOK, ApiInit

\* The score of the API stays the count of its goals, a cancelled one taken back included.
LEMMA ApiStep ==
    ASSUME ApiOK(api), ApiChanges
    PROVE  ApiOK(api')
<1>0. /\ api \in [status : StatusCodes \ {"LIVE"}, kick : Kickoff, score : [Sides -> Nat],
              evs : Seq(Entries), n : Nat]
      /\ \A s \in Sides : api.score[s] = Cardinality(GoalsOf(api.evs, s))
      /\ api.status = "NS" => api.evs = <<>>
  BY DEF ApiOK
<1>1. ASSUME NEW code \in Follows(api.status), api' = [api EXCEPT !.status = code]
      PROVE  ApiOK(api')
  <2>1. code \in StatusCodes \ {"LIVE"} /\ code # "NS"
    BY <1>0, <1>1 DEF Follows, StatusCodes, ScheduledCodes, LiveCodes, FulltimeCodes
  <2> QED BY <1>0, <1>1, <2>1 DEF ApiOK
<1>2. ASSUME NEW k \in Kickoff \ {api.kick}, api' = [api EXCEPT !.kick = k]
      PROVE  ApiOK(api')
  BY <1>0, <1>2 DEF ApiOK
<1>3. ASSUME api.status \in LiveCodes \cup FulltimeCodes, NEW s \in Scorer,
             api' = [api EXCEPT !.n = @ + 1, !.score[s] = @ + 1,
                           !.evs = Append(@, [id |-> api.n, side |-> s,
                                              minute |-> MinuteOf(api.status)])]
      PROVE  ApiOK(api')
  <2> DEFINE e == [id |-> api.n, side |-> s, minute |-> MinuteOf(api.status)]
  <2>1. s \in Sides /\ e \in Entries /\ e.side = s
    BY <1>0, MinuteType, FixtureAssumption DEF Entries, Sides
  <2> HIDE DEF e
  <2>2. /\ api'.status = api.status /\ api'.kick = api.kick /\ api'.n = api.n + 1
        /\ api'.score = [api.score EXCEPT ![s] = @ + 1]
        /\ api'.evs = Append(api.evs, e)
        /\ api' = [status |-> api'.status, kick |-> api'.kick, score |-> api'.score,
                   evs |-> api'.evs, n |-> api'.n]
    BY <1>0, <1>3 DEF e
  <2>3. api'.score \in [Sides -> Nat] /\ api'.evs \in Seq(Entries) /\ api'.n \in Nat
    BY <1>0, <2>1, <2>2
  <2>4. ASSUME NEW t \in Sides PROVE api'.score[t] = Cardinality(GoalsOf(api'.evs, t))
    <3>1. Cardinality(GoalsOf(api'.evs, t)) =
            Cardinality(GoalsOf(api.evs, t)) + (IF e.side = t THEN 1 ELSE 0)
      BY <1>0, <2>1, <2>2, GoalsOfMore
    <3>2. Cardinality(GoalsOf(api.evs, t)) = api.score[t] /\ api.score[t] \in Nat
      BY <1>0
    <3> QED BY <1>0, <2>1, <2>2, <3>1, <3>2
  <2>5. api'.status # "NS"
    BY <1>3, <2>2 DEF LiveCodes, FulltimeCodes
  <2>6. api' \in [status : StatusCodes \ {"LIVE"}, kick : Kickoff, score : [Sides -> Nat],
              evs : Seq(Entries), n : Nat]
    BY <1>0, <2>2, <2>3
  <2> QED BY <2>4, <2>5, <2>6 DEF ApiOK
<1>4. ASSUME api.evs # <<>>,
             api' = [api EXCEPT !.n = @ + 1, !.score[Last(api.evs).side] = @ - 1,
                                !.evs = Front(@)]
      PROVE  ApiOK(api')
  <2> DEFINE e == Last(api.evs)
             x == Front(api.evs)
  <2>1. e \in Entries /\ x \in Seq(Entries) /\ api.evs = Append(x, e)
    BY <1>0, <1>4, LastGoal
  <2> HIDE DEF e, x
  <2>2. e.side \in Sides
    BY <2>1 DEF Entries
  <2>3. /\ api'.status = api.status /\ api'.kick = api.kick /\ api'.n = api.n + 1
        /\ api'.score = [api.score EXCEPT ![e.side] = @ - 1]
        /\ api'.evs = x
        /\ api' = [status |-> api'.status, kick |-> api'.kick, score |-> api'.score,
                   evs |-> api'.evs, n |-> api'.n]
    BY <1>0, <1>4 DEF e, x
  <2>4. ASSUME NEW t \in Sides
        PROVE  /\ api.score[t] = Cardinality(GoalsOf(x, t)) + (IF e.side = t THEN 1 ELSE 0)
               /\ Cardinality(GoalsOf(x, t)) \in Nat
    <3>1. Cardinality(GoalsOf(Append(x, e), t)) =
            Cardinality(GoalsOf(x, t)) + (IF e.side = t THEN 1 ELSE 0)
      BY <2>1, GoalsOfMore
    <3>2. Cardinality(GoalsOf(x, t)) \in Nat
      BY <2>1, GoalsOfType
    <3>3. api.score[t] = Cardinality(GoalsOf(Append(x, e), t))
      BY <1>0, <2>1
    <3> QED BY <3>1, <3>2, <3>3
  <2>5. ASSUME NEW t \in Sides
        PROVE  api'.score[t] = Cardinality(GoalsOf(x, t)) /\ api'.score[t] \in Nat
    BY <1>0, <2>2, <2>3, <2>4
  <2>6. api'.score \in [Sides -> Nat]
    BY <1>0, <2>3, <2>5
  <2>7. api'.status # "NS"
    BY <1>0, <1>4, <2>3
  <2>8. api' \in [status : StatusCodes \ {"LIVE"}, kick : Kickoff, score : [Sides -> Nat],
              evs : Seq(Entries), n : Nat]
    BY <1>0, <2>1, <2>3, <2>6
  <2> QED BY <2>3, <2>5, <2>7, <2>8 DEF ApiOK
<1> QED BY <1>1, <1>2, <1>3, <1>4 DEF ApiChanges

\* Everything that a request may show is an observation the diff is made for.
LEMMA ViewsOf ==
    ASSUME NEW a, ApiOK(a), NEW o \in ObservationsOf(a)
    PROVE  o \in Views
<1>0. /\ a.status \in StatusCodes \ {"LIVE"} /\ a.kick \in Kickoff /\ a.score \in [Sides -> Nat]
      /\ a.evs \in Seq(Entries)
      /\ \A s \in Sides : a.score[s] = Cardinality(GoalsOf(a.evs, s))
      /\ a.status = "NS" => a.evs = <<>>
  BY DEF ApiOK
<1>1. /\ o = [status |-> o.status, minute |-> o.minute, kick |-> o.kick, score |-> o.score,
              evs |-> o.evs, final |-> o.final]
      /\ o.status = a.status \/ (a.status \in {"1H", "2H"} /\ o.status = "LIVE")
      /\ o.minute = MinuteOf(a.status)
      /\ o.kick = a.kick
      /\ o.score = a.score \/ o.score = [s \in Sides |-> NoScore]
      /\ o.evs = a.evs \/ o.evs = <<>>
      /\ o.final \in BOOLEAN
  BY DEF ObservationsOf
<1>2. o.status \in StatusCodes
  BY <1>0, <1>1 DEF StatusCodes, LiveCodes
<1>3. o.score \in [Sides -> Nat \cup {NoScore}]
  BY <1>0, <1>1
<1>4. o.evs \in Seq(Entries)
  <2>1. <<>> \in Seq(Entries)
    BY EmptySeq
  <2>2. a.evs \in Seq(Entries)
    BY <1>0
  <2>3. o.evs = a.evs \/ o.evs = <<>>
    BY <1>1
  <2> QED BY <2>1, <2>2, <2>3
<1>5. ASSUME o.status = "NS"
      PROVE  o.evs = <<>> /\ \A s \in Sides : o.score[s] \in {0, NoScore}
  <2>1. a.status = "NS" /\ a.evs = <<>>
    BY <1>0, <1>1, <1>5
  <2>2. \A s \in Sides : GoalsOf(<<>>, s) = {}
    BY DEF GoalsOf
  <2>3. \A s \in Sides : a.score[s] = 0
    BY <1>0, <2>1, <2>2, FS_EmptySet
  <2> QED BY <1>1, <2>1, <2>3
<1>6. o.minute \in Nat /\ o.kick \in Kickoff
  BY <1>0, <1>1, MinuteType
<1> QED BY <1>1, <1>2, <1>3, <1>4, <1>5, <1>6 DEF Views

-----------------------------------------------------------------------------
(* FixtureDiff: the inductive invariant                                      *)

\* The row adds up to the checkpoint c, and its version is not ahead of it.
ScoreAgrees(c, r) ==
    /\ Version(r) <= c.version
    /\ Status(r) # "fulltime" => Score(r) = c.score

\* The state of play of the row is the one of the checkpoint, and the flags of the
\* checkpoint are those that its status calls for.
PlayAgrees(c, r, late) ==
    /\ c.fulltime <=> Status(r) = "fulltime"
    /\ c.fulltime => StatusRank(c.status) = 5
    /\ c.status \in FulltimeCodes => c.fulltime
    /\ "halftime" \in c.phases => StatusRank(c.status) >= 2
    /\ "second_half" \in c.phases => StatusRank(c.status) >= 3 /\ "halftime" \in c.phases
    /\ ~ c.kickoff => c.status \in {"NS", "CANC"}
    /\ ~ c.kickoff /\ c.status = "NS" => Status(r) \in {"none", "scheduled"}
    /\ c.kickoff /\ ~ c.fulltime /\ ~ late /\ c.status # "CANC" =>
          Status(r) = IF c.status = "HT" THEN "halftime" ELSE "live"

FixtureInv ==
    /\ FixtureTypeOK
    /\ ApiOK(api)
    /\ ApiOK(behind)
    /\ KeysCovered(keys, Prior)
    /\ ScoreAgrees(Prior, mrow)
    /\ PlayAgrees(Prior, mrow, lateMove)

\* A store without the fixture satisfies the invariant.
LEMMA FixtureBegins == FixtureInit => FixtureInv
<1> SUFFICES ASSUME FixtureInit PROVE FixtureInv
  OBVIOUS
<1>1. ApiOK(api) /\ ApiOK(behind)
  BY ApiBegins DEF FixtureInit
<1>2. Prior = BlankCheckpoint /\ mrow = NoMatch /\ keys = {}
  BY DEF FixtureInit, Prior
<1>3. FixtureTypeOK
  BY <1>1 DEF FixtureTypeOK, FixtureInit, ApiOK
<1>4. KeysCovered(keys, Prior)
  BY <1>2 DEF KeysCovered
<1>5. Status(mrow) = "none" /\ Version(mrow) = 0 /\ Score(mrow) = NoGoals
  BY <1>2 DEF Status, Version, Score, NoGoals
<1>6. ScoreAgrees(Prior, mrow)
  BY <1>2, <1>5 DEF ScoreAgrees, BlankCheckpoint
<1>7. PlayAgrees(Prior, mrow, lateMove)
  BY <1>2, <1>5 DEF PlayAgrees, BlankCheckpoint, FulltimeCodes
<1> QED BY <1>1, <1>3, <1>4, <1>6, <1>7 DEF FixtureInv

\* A status never goes back in rank.
LEMMA RankGrows ==
    ASSUME Prior \in Bases, NEW o \in Views
    PROVE  /\ StatusAfter(o) \in StatusCodes /\ Prior.status \in StatusCodes
           /\ StatusRank(StatusAfter(o)) \in 0 .. 5 /\ StatusRank(Prior.status) \in 0 .. 5
           /\ StatusRank(Prior.status) <= StatusRank(StatusAfter(o))
           /\ StatusAfter(o) = "NS" => o.status = "NS"
<1>1. o.status \in StatusCodes /\ Prior.status \in StatusCodes
  BY DEF Views, Bases
<1>2. \A code \in StatusCodes : StatusRank(code) \in 0 .. 5
  BY DEF StatusRank
<1>3. StatusRank("NS") = 0
  BY DEF StatusRank
<1> QED BY <1>1, <1>2, <1>3 DEF StatusAfter

\* The facts of each status code.
LEMMA CodeFacts ==
    ASSUME NEW code \in StatusCodes
    PROVE  /\ "halftime" \in PhasesOwed(code) => StatusRank(code) >= 2
           /\ "second_half" \in PhasesOwed(code) =>
                 StatusRank(code) >= 3 /\ "halftime" \in PhasesOwed(code)
           /\ code \in {"NS", "1H", "LIVE"} => PhasesOwed(code) = {} /\ StatusRank(code) <= 1
           /\ code = "HT" => PhasesOwed(code) = {"halftime"}
           /\ code \in {"2H", "ET", "P"} =>
                 "halftime" \in PhasesOwed(code) /\ "second_half" \in PhasesOwed(code)
           /\ code \in FulltimeCodes \cup {"CANC"} <=> StatusRank(code) = 5
           /\ code = "HT" <=> StatusRank(code) = 2
           /\ StatusRank(code) \in 0 .. 5
           /\ code \notin LiveCodes \cup FulltimeCodes <=> code \in {"NS", "CANC"}
BY DEF PhasesOwed, PhaseNames, StatusRank, StatusCodes, ScheduledCodes, LiveCodes, FulltimeCodes

\* The next checkpoint.
LEMMA CheckpointType ==
    ASSUME NEW o \in Views, Prior \in Bases, NEW facts \in Seq(NewFacts(o))
    PROVE  CheckpointAfter(o, facts) \in Checkpoints
<1> DEFINE c == CheckpointAfter(o, facts)
           code == StatusAfter(o)
<1>1. code \in StatusCodes
  BY CodeType
<1>2. Later(Prior.minute, o.minute) \in Nat /\ o.kick \in Kickoff
  BY DEF Later, Bases, Views
<1>3. Reported(o) \in [Sides -> Nat]
  BY ReportedType
<1>4. EntriesOf(o).ids \in SUBSET Nat
  BY EntriesType DEF Accounts
<1>5. Prior.phases \cup PhasesOwed(code) \in SUBSET PhaseNames
  BY DEF PhasesOwed, Bases
<1>6. Prior.version + Len(facts) \in Nat
  <2>1. Prior.version \in Nat /\ Len(facts) \in Nat
    BY DEF Bases
  <2> QED BY <2>1
<1>7. /\ (Prior.kickoff \/ code \in LiveCodes \cup FulltimeCodes) \in BOOLEAN
      /\ (Prior.fulltime \/ code \in FulltimeCodes) \in BOOLEAN
      /\ (~ o.final /\ (Prior.pending \/ (code \in FulltimeCodes /\ ~ Prior.fulltime))) \in BOOLEAN
  OBVIOUS
<1> QED BY <1>1, <1>2, <1>3, <1>4, <1>5, <1>6, <1>7 DEF CheckpointAfter, Checkpoints

\* The keys that an ingest stores are accounted for by the checkpoint that it stores.
LEMMA IngestKeys ==
    ASSUME NEW o, Ingests(o), NEW facts \in Seq(NewFacts(o))
    PROVE  KeysCovered(keys \cup {f.key : f \in ToSet(facts)}, CheckpointAfter(o, facts))
<1> DEFINE c == CheckpointAfter(o, facts)
           code == StatusAfter(o)
           n == Len(facts)
<1>0. Prior \in Bases /\ o \in Views /\ KeysCovered(keys, Prior)
  BY DEF Ingests
<1>1. Prior.version \in Nat /\ n \in Nat
  BY <1>0 DEF Bases
<1>2. /\ c.ids = EntriesOf(o).ids
      /\ c.version = Prior.version + n
      /\ c.kickoff = (Prior.kickoff \/ code \in LiveCodes \cup FulltimeCodes)
      /\ c.fulltime = (Prior.fulltime \/ code \in FulltimeCodes)
      /\ c.phases = Prior.phases \cup PhasesOwed(code)
  BY DEF CheckpointAfter
<1>3. /\ Prior.ids \subseteq EntriesOf(o).ids
      /\ \A j \in DOMAIN o.evs : o.evs[j].id \in EntriesOf(o).ids
  BY <1>0, EntryIds
<1> HIDE DEF c
<1> DEFINE Cov(k) == /\ k[1] = "event" => k[2] \in c.ids
                     /\ k[1] \in VersionedKeys => k[2] \in Nat /\ k[2] < c.version
                     /\ k[1] = "kickoff" => c.kickoff
                     /\ k[1] = "fulltime" => c.fulltime
                     /\ k[1] \in PhaseNames => k[1] \in c.phases
<1>4. ASSUME NEW k \in keys PROVE Cov(k)
  <2>1. k[1] \in VersionedKeys => k[2] \in Nat /\ k[2] < c.version
    <3>1. k[1] \in VersionedKeys => k[2] \in Nat /\ k[2] < Prior.version
      BY <1>0 DEF KeysCovered
    <3> QED BY <1>1, <1>2, <3>1
  <2> QED BY <1>0, <1>2, <1>3, <2>1 DEF KeysCovered
<1>5. ASSUME NEW f \in ToSet(facts) PROVE Cov(f.key)
  <2>1. PICK i \in 1 .. n : f = facts[i]
    BY DEF ToSet
  <2>2. f \in NewFacts(o) /\ n >= 1
    BY <1>1, <2>1
  <2>3. f.key \in NewKeys(o)
    BY <2>2 DEF NewFacts
  <2> DEFINE k == f.key
  <2>4. /\ k[1] = "event" => k[2] \notin Prior.ids /\ \E j \in DOMAIN o.evs : k[2] = o.evs[j].id
        /\ k[1] \in VersionedKeys => k[2] = Prior.version
        /\ k[1] = "kickoff" => ~ Prior.kickoff /\ code \in LiveCodes \cup FulltimeCodes
        /\ k[1] = "fulltime" => ~ Prior.fulltime /\ code \in FulltimeCodes
        /\ k[1] \in PhaseNames => k[1] \in PhasesOwed(code) \ Prior.phases
    BY <2>3 DEF NewKeys
  <2> HIDE DEF k, code
  <2>5. Prior.version < c.version
    BY <1>1, <1>2, <2>2
  <2>6. Cov(k)
    BY <1>1, <1>2, <1>3, <2>4, <2>5
  <2> QED BY <2>6 DEF k
<1> HIDE DEF Cov
<1>6. \A k \in keys \cup {f.key : f \in ToSet(facts)} : Cov(k)
  BY <1>4, <1>5
<1> QED BY <1>6 DEF KeysCovered, Cov, c

\* A row that is to be live or at half-time fits after the opening facts.
LEMMA OpenedFits ==
    ASSUME NEW o \in Views, Prior \in Bases, PlayAgrees(Prior, mrow, lateMove),
           Status(mrow) # "fulltime", StatusAfter(o) \in LiveCodes,
           ~ lateMove, Prior.kickoff => o.kick = Prior.kick,
           NEW emitScheduled, NEW r, Status(r) = StatusOpened(o, emitScheduled, mrow)
    PROVE  Fits(StatusAfter(o), Owed(o), r)
<1> DEFINE code == StatusAfter(o)
           was == Prior.status
<1>1. /\ code \in StatusCodes /\ was \in StatusCodes
      /\ StatusRank(code) \in 0 .. 5 /\ StatusRank(was) \in 0 .. 5
      /\ StatusRank(was) <= StatusRank(code)
  BY RankGrows
<1>2. StatusRank(code) <= 4 /\ StatusRank(was) <= 4 /\ was # "CANC"
  <2>1. code \notin FulltimeCodes \cup {"CANC"}
    BY DEF LiveCodes, FulltimeCodes
  <2>2. StatusRank(code) # 5
    BY <1>1, <2>1, CodeFacts
  <2>3. StatusRank("CANC") = 5
    BY DEF StatusRank
  <2> QED BY <1>1, <2>2, <2>3
<1>3. ~ Prior.fulltime
  BY DEF PlayAgrees
<1>4. /\ "halftime" \in Prior.phases => StatusRank(was) >= 2
      /\ "second_half" \in Prior.phases => StatusRank(was) >= 3 /\ "halftime" \in Prior.phases
      /\ ~ Prior.kickoff => was = "NS"
      /\ Prior.kickoff => Status(mrow) = IF was = "HT" THEN "halftime" ELSE "live"
  BY <1>2, <1>3 DEF PlayAgrees
<1>5. Status(r) = IF Prior.kickoff /\ was = "HT" THEN "halftime" ELSE "live"
  BY <1>4 DEF StatusOpened
<1>6. StatusRank("NS") = 0
  BY DEF StatusRank
<1>7. code = "HT" \/ code \in {"1H", "LIVE"} \/ code \in {"2H", "ET", "P"}
  BY DEF LiveCodes
<1>8. code = "HT" => StatusRank(code) = 2
  BY <1>1, CodeFacts
<1>9. StatusRank(was) = 2 => was = "HT"
  BY <1>1, CodeFacts
<1>10. was = "HT" => StatusRank(was) = 2
  BY <1>1, CodeFacts
<1>11. Owed(o) = PhasesOwed(code) \ Prior.phases
  BY DEF Owed
<1>12. CASE code = "HT"
  <2>1. PhasesOwed(code) = {"halftime"}
    BY <1>1, <1>12, CodeFacts
  <2>2. "halftime" \in Prior.phases => was = "HT" /\ Prior.kickoff
    BY <1>1, <1>4, <1>6, <1>8, <1>9, <1>12
  <2> HIDE DEF code
  <2>3. Fits(code, Owed(o), r)
    BY <1>5, <1>11, <1>12, <2>1, <2>2 DEF Fits
  <2> QED BY <2>3 DEF code
<1>13. CASE code \in {"1H", "LIVE"}
  <2>1. PhasesOwed(code) = {} /\ StatusRank(code) <= 1
    BY <1>1, <1>13, CodeFacts
  <2>2. was # "HT"
    BY <1>1, <1>10, <2>1
  <2> HIDE DEF code
  <2>3. Fits(code, Owed(o), r)
    BY <1>5, <1>11, <1>13, <2>1, <2>2 DEF Fits
  <2> QED BY <2>3 DEF code
<1>14. CASE code \in {"2H", "ET", "P"}
  <2>1. "halftime" \in PhasesOwed(code) /\ "second_half" \in PhasesOwed(code)
    BY <1>1, <1>14, CodeFacts
  <2>2. "second_half" \in Prior.phases => was # "HT" /\ "halftime" \in Prior.phases
    BY <1>1, <1>4, <1>10
  <2> HIDE DEF code
  <2>3. Fits(code, Owed(o), r)
    BY <1>5, <1>11, <1>14, <2>1, <2>2 DEF Fits
  <2> QED BY <2>3 DEF code
<1> QED BY <1>7, <1>12, <1>13, <1>14

\* The flags of the next checkpoint, whatever becomes of the row.
LEMMA FlagsAgree ==
    ASSUME NEW o \in Views, Prior \in Bases, PlayAgrees(Prior, mrow, lateMove), NEW facts,
           NEW c, c = CheckpointAfter(o, facts)
    PROVE  /\ c.status = StatusAfter(o)
           /\ c.kickoff <=> Prior.kickoff \/ StatusAfter(o) \in LiveCodes \cup FulltimeCodes
           /\ c.fulltime <=> Prior.fulltime \/ StatusAfter(o) \in FulltimeCodes
           /\ c.fulltime => StatusRank(c.status) = 5
           /\ c.status \in FulltimeCodes => c.fulltime
           /\ "halftime" \in c.phases => StatusRank(c.status) >= 2
           /\ "second_half" \in c.phases => StatusRank(c.status) >= 3 /\ "halftime" \in c.phases
           /\ ~ c.kickoff => c.status \in {"NS", "CANC"}
<1> DEFINE code == StatusAfter(o)
           was == Prior.status
<1>1. /\ code \in StatusCodes /\ was \in StatusCodes
      /\ StatusRank(code) \in 0 .. 5 /\ StatusRank(was) \in 0 .. 5
      /\ StatusRank(was) <= StatusRank(code)
  BY RankGrows
<1>2. /\ c.status = code
      /\ c.kickoff = (Prior.kickoff \/ code \in LiveCodes \cup FulltimeCodes)
      /\ c.fulltime = (Prior.fulltime \/ code \in FulltimeCodes)
      /\ c.phases = Prior.phases \cup PhasesOwed(code)
  BY DEF CheckpointAfter
<1>3. /\ Prior.fulltime => StatusRank(was) = 5
      /\ "halftime" \in Prior.phases => StatusRank(was) >= 2
      /\ "second_half" \in Prior.phases => StatusRank(was) >= 3 /\ "halftime" \in Prior.phases
  BY DEF PlayAgrees
<1>4. /\ "halftime" \in PhasesOwed(code) => StatusRank(code) >= 2
      /\ "second_half" \in PhasesOwed(code) =>
            StatusRank(code) >= 3 /\ "halftime" \in PhasesOwed(code)
      /\ code \in FulltimeCodes => StatusRank(code) = 5
      /\ code \notin LiveCodes \cup FulltimeCodes => code \in {"NS", "CANC"}
  BY <1>1, CodeFacts
<1> HIDE DEF code, was
<1>5. c.fulltime => StatusRank(code) = 5
  <2>1. c.fulltime => StatusRank(was) = 5 \/ StatusRank(code) = 5
    BY <1>2, <1>3, <1>4, Zenon
  <2> QED BY <1>1, <2>1
<1>6. "halftime" \in c.phases => StatusRank(code) >= 2
  BY <1>1, <1>2, <1>3, <1>4
<1>7. "second_half" \in c.phases => StatusRank(code) >= 3 /\ "halftime" \in c.phases
  BY <1>1, <1>2, <1>3, <1>4
<1> QED BY <1>2, <1>4, <1>5, <1>6, <1>7 DEF code

\* An ingest into a row that is over.
LEMMA IngestOver ==
    ASSUME NEW o, Ingests(o), NEW emitScheduled, NEW facts, facts = FactsOf(o, emitScheduled),
           Prior.version + Len(facts) <= MaxFacts, mrow \in Rows, Status(mrow) = "fulltime",
           ScoreAgrees(Prior, mrow), PlayAgrees(Prior, mrow, lateMove), NEW late
    PROVE  /\ RowAfter(facts, o) \in Rows
           /\ ScoreAgrees(CheckpointAfter(o, facts), RowAfter(facts, o))
           /\ PlayAgrees(CheckpointAfter(o, facts), RowAfter(facts, o), late)
<1> DEFINE q == RowAfter(facts, o)
           c == CheckpointAfter(o, facts)
           b == Prior.version
<1>0. Prior \in Bases /\ o \in Views /\ KeysCovered(keys, Prior) /\ b \in Nat
  BY DEF Ingests, Bases
<1>1. facts \in Seq(NewFacts(o))
  BY <1>0, FactsAreNew
<1>2. Leads(mrow, b, facts, q, o)
  BY <1>0, <1>1, RowLeads
<1>3. Version(mrow) <= b
  BY DEF ScoreAgrees
<1> HIDE DEF q
<1>4. q \in Rows /\ Version(q) <= b + Len(facts) /\ Status(q) = "fulltime"
  <2> HIDE DEF b
  <2>1. b + Len(facts) <= MaxFacts /\ Prior.version \in Nat
    BY <1>0 DEF b
  <2> QED BY <1>0, <1>1, <1>2, <1>3, <2>1, LeadsOn
<1>5. c.version = b + Len(facts)
  BY DEF CheckpointAfter
<1>6. Prior.fulltime
  BY DEF PlayAgrees
<1>7. /\ c.fulltime <=> Prior.fulltime \/ StatusAfter(o) \in FulltimeCodes
      /\ c.fulltime => StatusRank(c.status) = 5
      /\ c.status \in FulltimeCodes => c.fulltime
      /\ "halftime" \in c.phases => StatusRank(c.status) >= 2
      /\ "second_half" \in c.phases => StatusRank(c.status) >= 3 /\ "halftime" \in c.phases
      /\ ~ c.kickoff => c.status \in {"NS", "CANC"}
  BY <1>0, FlagsAgree
<1>8. c.status # "NS"
  <2>1. StatusRank("NS") = 0
    BY DEF StatusRank
  <2> HIDE DEF c
  <2> QED BY <1>6, <1>7, <2>1
<1> HIDE DEF c
<1>9. ScoreAgrees(c, q)
  BY <1>4, <1>5 DEF ScoreAgrees
<1>10. PlayAgrees(c, q, late)
  BY <1>4, <1>6, <1>7, <1>8 DEF PlayAgrees
<1> QED BY <1>4, <1>9, <1>10 DEF q, c

\* An ingest into a row that is not over.
LEMMA IngestOpen ==
    ASSUME NEW o, Ingests(o), NEW emitScheduled, NEW facts, facts = FactsOf(o, emitScheduled),
           Prior.version + Len(facts) <= MaxFacts, mrow \in Rows, Status(mrow) # "fulltime",
           ScoreAgrees(Prior, mrow), PlayAgrees(Prior, mrow, lateMove),
           NEW late, late <=> lateMove \/ (Prior.kickoff /\ o.kick # Prior.kick)
    PROVE  /\ RowAfter(facts, o) \in Rows
           /\ ScoreAgrees(CheckpointAfter(o, facts), RowAfter(facts, o))
           /\ PlayAgrees(CheckpointAfter(o, facts), RowAfter(facts, o), late)
<1> DEFINE z == RowAfter(facts, o)
           c == CheckpointAfter(o, facts)
           b == Prior.version
           code == StatusAfter(o)
<1>0. Prior \in Bases /\ o \in Views /\ KeysCovered(keys, Prior) /\ b \in Nat
  BY DEF Ingests, Bases
<1>1. facts \in Seq(NewFacts(o))
  BY <1>0, FactsAreNew
<1>2. Leads(mrow, b, facts, z, o)
  BY <1>0, <1>1, RowLeads
<1>3. Version(mrow) <= b /\ Score(mrow) = Prior.score
  BY DEF ScoreAgrees
<1>4. z \in Rows /\ Version(z) <= b + Len(facts)
  <2> HIDE DEF b, z
  <2>1. b + Len(facts) <= MaxFacts /\ Prior.version \in Nat
    BY <1>0 DEF b
  <2> QED BY <1>0, <1>1, <1>2, <1>3, <2>1, LeadsOn
<1>5. c.version = b + Len(facts) /\ c.score = Reported(o)
  BY DEF CheckpointAfter
<1>6. ~ Prior.fulltime
  BY DEF PlayAgrees
<1>7. /\ c.status = code
      /\ c.kickoff <=> Prior.kickoff \/ code \in LiveCodes \cup FulltimeCodes
      /\ c.fulltime <=> Prior.fulltime \/ code \in FulltimeCodes
      /\ c.fulltime => StatusRank(c.status) = 5
      /\ c.status \in FulltimeCodes => c.fulltime
      /\ "halftime" \in c.phases => StatusRank(c.status) >= 2
      /\ "second_half" \in c.phases => StatusRank(c.status) >= 3 /\ "halftime" \in c.phases
      /\ ~ c.kickoff => c.status \in {"NS", "CANC"}
  BY <1>0, FlagsAgree
<1>8. Open(mrow, b)
  BY <1>3 DEF Open
<1>9. PICK r1 \in Rows, q \in Rows :
              /\ Status(r1) = StatusOpened(o, emitScheduled, mrow)
              /\ Score(q) = Reported(o)
              /\ Status(q) # "fulltime"
              /\ Fits(code, Owed(o), r1) => Status(q) = IF code = "HT" THEN "halftime" ELSE "live"
              /\ /\ o.evs = <<>>
                 /\ Owed(o) = {}
                 /\ \A s \in Sides : Reported(o)[s] <= Prior.score[s]
                 => Status(q) = Status(r1) \/ (r1 = NoMatch /\ Status(q) = "scheduled")
              /\ IF code \in FulltimeCodes /\ ~ Prior.fulltime
                 THEN Status(z) = "fulltime" ELSE z = q
  BY <1>3, <1>8, IngestRow
<1> HIDE DEF z, c
<1>10. code \in StatusCodes /\ StatusRank(code) \in 0 .. 5 /\ StatusRank(Prior.status) \in 0 .. 5
       /\ StatusRank(Prior.status) <= StatusRank(code) /\ Prior.status \in StatusCodes
       /\ (code = "NS" => o.status = "NS")
  BY <1>0, RankGrows
<1>11. StatusRank("NS") = 0 /\ StatusRank("CANC") = 5 /\ StatusRank("HT") = 2
  BY DEF StatusRank
<1>12. CASE code \in FulltimeCodes
  <2>1. Status(z) = "fulltime" /\ c.fulltime /\ c.status # "NS"
    BY <1>6, <1>7, <1>9, <1>11, <1>12
  <2>2. ScoreAgrees(c, z)
    BY <1>4, <1>5, <2>1 DEF ScoreAgrees
  <2>3. PlayAgrees(c, z, late)
    BY <1>7, <2>1 DEF PlayAgrees
  <2> QED BY <1>4, <2>2, <2>3 DEF c, z
<1>13. CASE code \notin FulltimeCodes
  <2>1. z = q /\ ~ c.fulltime /\ Status(z) # "fulltime" /\ Score(z) = Reported(o)
    BY <1>6, <1>7, <1>9, <1>13
  <2>2. ScoreAgrees(c, z)
    BY <1>4, <1>5, <2>1 DEF ScoreAgrees
  <2>3. ASSUME code = "NS"
        PROVE  Status(q) = Status(r1) \/ (r1 = NoMatch /\ Status(q) = "scheduled")
    <3>1. o.evs = <<>> /\ \A s \in Sides : o.score[s] \in {0, NoScore}
      BY <1>0, <1>10, <2>3 DEF Views
    <3>2. Owed(o) = {}
      <4>1. PhasesOwed(code) = {}
        BY <1>10, <2>3, CodeFacts
      <4> QED BY <4>1 DEF Owed
    <3>3. \A s \in Sides : Reported(o)[s] <= Prior.score[s]
      <4>1. \A s \in Sides : Prior.score[s] \in Nat
        BY <1>0 DEF Bases
      <4>2. \A s \in Sides : Reported(o)[s] = Prior.score[s] \/ Reported(o)[s] = 0
        BY <3>1 DEF Reported
      <4> QED BY <4>1, <4>2
    <3> QED BY <1>9, <3>1, <3>2, <3>3
  <2>4. ASSUME ~ c.kickoff, c.status = "NS" PROVE Status(z) \in {"none", "scheduled"}
    <3>1. code = "NS" /\ ~ Prior.kickoff /\ code \notin LiveCodes \cup FulltimeCodes
      BY <1>7, <2>4
    <3>2. Prior.status = "NS"
      BY <1>10, <1>11, <3>1 DEF PlayAgrees
    <3>3. Status(mrow) \in {"none", "scheduled"}
      BY <3>1, <3>2 DEF PlayAgrees
    <3>4. Status(r1) \in {"none", "scheduled"}
      BY <1>9, <3>1, <3>3 DEF StatusOpened
    <3> QED BY <2>1, <2>3, <3>1, <3>4
  <2>5. ASSUME c.kickoff, ~ late, c.status # "CANC"
        PROVE  Status(z) = IF c.status = "HT" THEN "halftime" ELSE "live"
    <3>1. ~ lateMove /\ (Prior.kickoff => o.kick = Prior.kick)
      BY <2>5
    <3>2. code = "NS" \/ code \in LiveCodes
      BY <1>7, <1>10, <1>13, <2>5 DEF StatusCodes, ScheduledCodes
    <3>3. CASE code = "NS"
      <4>1. Prior.kickoff
        BY <1>7, <2>5, <3>3 DEF LiveCodes, FulltimeCodes
      <4>2. Prior.status # "CANC" /\ Prior.status # "HT"
        BY <1>10, <1>11, <3>3
      <4>3. Status(mrow) = "live"
        BY <1>6, <3>1, <4>1, <4>2 DEF PlayAgrees
      <4>4. Status(r1) = "live"
        BY <1>9, <3>1, <4>1, <4>3 DEF StatusOpened
      <4>5. r1 # NoMatch
        BY <4>4 DEF Status
      <4> QED BY <1>7, <2>1, <2>3, <3>3, <4>4, <4>5
    <3>4. CASE code \in LiveCodes
      <4>1. Fits(code, Owed(o), r1)
        BY <1>0, <1>9, <3>1, <3>4, OpenedFits
      <4> QED BY <1>7, <1>9, <2>1, <4>1
    <3> QED BY <3>2, <3>3, <3>4
  <2>6. PlayAgrees(c, z, late)
    BY <1>7, <2>1, <2>4, <2>5 DEF PlayAgrees
  <2> QED BY <1>4, <2>2, <2>6 DEF c, z
<1> QED BY <1>12, <1>13

\* Ingesting an observation keeps the invariant.
LEMMA IngestStep ==
    ASSUME FixtureInv, NEW o \in Views, IngestFixture(o)
    PROVE  FixtureInv'
<1> DEFINE emit == baseline \/ cp # NoFixture
           facts == FactsOf(o, emit)
           c == CheckpointAfter(o, facts)
<1>1. /\ Prior.version + Len(facts) <= MaxFacts
      /\ cp' = c
      /\ keys' = keys \cup {f.key : f \in ToSet(facts)}
      /\ mrow' = RowAfter(facts, o)
      /\ baseline' = TRUE
      /\ lateMove' = (lateMove \/ (Prior.kickoff /\ o.kick # Prior.kick))
      /\ api' = api /\ behind' = behind
  BY DEF IngestFixture
<1>2. Prior \in Bases /\ KeysCovered(keys, Prior) /\ mrow \in Rows
  BY PriorType DEF FixtureInv, FixtureTypeOK, Rows
<1>3. Ingests(o)
  BY <1>2 DEF Ingests
<1>4. facts \in Seq(NewFacts(o))
  BY <1>2, FactsAreNew
<1>5. c \in Checkpoints
  BY <1>2, <1>4, CheckpointType
<1>6. KeysCovered(keys', c)
  BY <1>1, <1>3, <1>4, IngestKeys
<1>7. ScoreAgrees(Prior, mrow) /\ PlayAgrees(Prior, mrow, lateMove)
  BY DEF FixtureInv
<1>8. mrow' \in Rows /\ ScoreAgrees(c, mrow') /\ PlayAgrees(c, mrow', lateMove')
  <2> DEFINE late == lateMove'
  <2>0. late <=> lateMove \/ (Prior.kickoff /\ o.kick # Prior.kick)
    BY <1>1
  <2> HIDE DEF facts, late
  <2>1. CASE Status(mrow) = "fulltime"
    BY <1>1, <1>2, <1>3, <1>7, <2>1, IngestOver DEF facts, late
  <2>2. CASE Status(mrow) # "fulltime"
    BY <1>1, <1>2, <1>3, <1>7, <2>0, <2>2, IngestOpen DEF facts, late
  <2> QED BY <2>1, <2>2
<1> HIDE DEF c
<1>9. cp' \in Checkpoints /\ cp' # NoFixture
  BY <1>1, <1>5, NoFixtureAssumption
<1>10. Prior' = c
  BY <1>1, <1>9 DEF Prior
<1>11. FixtureTypeOK'
  BY <1>1, <1>8, <1>9 DEF FixtureInv, FixtureTypeOK, Rows
<1>12. (ApiOK(api) /\ ApiOK(behind))'
  BY <1>1 DEF FixtureInv
<1>13. (KeysCovered(keys, Prior))'
  BY <1>6, <1>10
<1>14. (ScoreAgrees(Prior, mrow))' /\ (PlayAgrees(Prior, mrow, lateMove))'
  BY <1>8, <1>10
<1> QED BY <1>11, <1>12, <1>13, <1>14 DEF FixtureInv

\* Every step of the fixture keeps the invariant.
LEMMA FixtureStep == FixtureInv /\ [FixtureNext]_fixtureVars => FixtureInv'
<1> SUFFICES ASSUME FixtureInv, [FixtureNext]_fixtureVars PROVE FixtureInv'
  OBVIOUS
<1>1. CASE ApiChanges
  <2>1. ApiOK(api')
    BY <1>1, ApiStep DEF FixtureInv
  <2>2. behind' = api /\ UNCHANGED <<cp, baseline, keys, mrow, lateMove>>
    BY <1>1 DEF ApiChanges
  <2>3. Prior' = Prior
    BY <2>2 DEF Prior
  <2>4. FixtureTypeOK'
    BY <2>1, <2>2 DEF FixtureInv, FixtureTypeOK, ApiOK
  <2>5. (ApiOK(api))' /\ (ApiOK(behind))'
    BY <2>1, <2>2 DEF FixtureInv
  <2>6. (KeysCovered(keys, Prior))' /\ (ScoreAgrees(Prior, mrow))'
        /\ (PlayAgrees(Prior, mrow, lateMove))'
    BY <2>2, <2>3 DEF FixtureInv
  <2> QED BY <2>4, <2>5, <2>6 DEF FixtureInv
<1>2. CASE EstablishEmptyBaseline \/ UNCHANGED fixtureVars
  <2>1. /\ api' = api /\ behind' = behind /\ cp' = cp /\ keys' = keys /\ mrow' = mrow
        /\ lateMove' = lateMove
        /\ baseline' \in BOOLEAN
    BY <1>2 DEF EstablishEmptyBaseline, fixtureVars, FixtureInv, FixtureTypeOK
  <2>2. Prior' = Prior
    BY <2>1 DEF Prior
  <2>3. FixtureTypeOK'
    BY <2>1 DEF FixtureInv, FixtureTypeOK
  <2>4. (ApiOK(api))' /\ (ApiOK(behind))' /\ (KeysCovered(keys, Prior))'
        /\ (ScoreAgrees(Prior, mrow))' /\ (PlayAgrees(Prior, mrow, lateMove))'
    BY <2>1, <2>2 DEF FixtureInv
  <2> QED BY <2>3, <2>4 DEF FixtureInv
<1>3. ASSUME NEW o \in ObservationsOf(api) \cup ObservationsOf(behind), IngestFixture(o)
      PROVE  FixtureInv'
  <2>1. o \in Views
    BY <1>3, ViewsOf DEF FixtureInv
  <2> QED BY <1>3, <2>1, IngestStep
<1> QED BY <1>1, <1>2, <1>3 DEF FixtureNext

\* The invariant holds in every reachable state.
LEMMA FixtureInvariant == FixtureSpec => []FixtureInv
BY FixtureBegins, FixtureStep, PTL DEF FixtureSpec

\* The checkpoint that diff_fixture writes, and the row that its events amount to, have
\* their types for every length of the match, although goals are cancelled.
THEOREM FixtureTypeCorrect == FixtureSpec => []FixtureTypeOK
<1>1. FixtureInv => FixtureTypeOK
  BY DEF FixtureInv
<1> QED BY <1>1, FixtureInvariant, PTL

\* diff_fixture and the reducer agree on the score: whatever goals are listed, missing
\* from the list, cancelled, counted again or seen in a stale observation, the stored
\* events add up to the score of the checkpoint until full time closes the row.
THEOREM ScoreIsFollowed == FixtureSpec => []ScoreFollowsCheckpoint
<1>1. FixtureInv => ScoreFollowsCheckpoint
  <2> SUFFICES ASSUME FixtureInv, cp # NoFixture
               PROVE  \/ mrow = NoMatch /\ cp.score = NoGoals
                      \/ mrow # NoMatch /\ mrow.status = "fulltime"
                      \/ /\ mrow # NoMatch
                         /\ cp.score = [s \in Sides |-> IF s = "home" THEN mrow.home ELSE mrow.away]
    BY DEF ScoreFollowsCheckpoint
  <2>1. Status(mrow) # "fulltime" => Score(mrow) = cp.score
    BY DEF FixtureInv, ScoreAgrees, Prior
  <2> QED BY <2>1 DEF Score, Status, NoGoals
<1> QED BY <1>1, FixtureInvariant, PTL

\* diff_fixture and the reducer agree on the state of play: the row is live, at half-time
\* or over exactly when the newest status that was observed says so, for every order of
\* skipped, repeated and late observations.
THEOREM LifecycleIsFollowed == FixtureSpec => []LifecycleFollowsCheckpoint
<1>1. FixtureInv => LifecycleFollowsCheckpoint
  <2> SUFFICES ASSUME FixtureInv, cp # NoFixture, ~ lateMove PROVE LifecycleFollowsCheckpoint
    BY DEF LifecycleFollowsCheckpoint
  <2>1. PlayAgrees(cp, mrow, lateMove) /\ cp.status \in StatusCodes
    BY DEF FixtureInv, FixtureTypeOK, Prior, Checkpoints
  <2>2. StatusRank(cp.status) # 5 => ~ cp.fulltime
    BY <2>1 DEF PlayAgrees
  <2>3. CASE cp.status = "NS"
    <3>1. ~ cp.fulltime
      BY <2>2, <2>3 DEF StatusRank
    <3>2. mrow = NoMatch \/ mrow.status = (IF cp.kickoff THEN "live" ELSE "scheduled")
      <4>1. mrow # NoMatch => mrow.status # "none"
        BY DEF FixtureInv, FixtureTypeOK, MatchRow, Statuses
      <4>2. CASE cp.kickoff
        BY <2>1, <2>3, <3>1, <4>2 DEF PlayAgrees, Status
      <4>3. CASE ~ cp.kickoff
        BY <2>1, <2>3, <4>1, <4>3 DEF PlayAgrees, Status
      <4> QED BY <4>2, <4>3
    <3> QED BY <2>3, <3>2 DEF LifecycleFollowsCheckpoint, ScheduledCodes, LiveCodes, FulltimeCodes
  <2>4. CASE cp.status \in LiveCodes
    <3>1. ~ cp.fulltime /\ cp.kickoff /\ cp.status # "CANC"
      BY <2>1, <2>2, <2>4 DEF StatusRank, LiveCodes, PlayAgrees
    <3>2. Status(mrow) = IF cp.status = "HT" THEN "halftime" ELSE "live"
      BY <2>1, <3>1 DEF PlayAgrees
    <3>3. mrow # NoMatch /\ mrow.status = IF cp.status = "HT" THEN "halftime" ELSE "live"
      BY <3>2 DEF Status
    <3> QED BY <2>4, <3>3 DEF LifecycleFollowsCheckpoint, ScheduledCodes, LiveCodes, FulltimeCodes
  <2>5. CASE cp.status \in FulltimeCodes
    <3>1. Status(mrow) = "fulltime"
      BY <2>1, <2>5 DEF PlayAgrees
    <3>2. mrow # NoMatch /\ mrow.status = "fulltime"
      BY <3>1 DEF Status
    <3> QED BY <2>5, <3>2 DEF LifecycleFollowsCheckpoint, ScheduledCodes, LiveCodes, FulltimeCodes
  <2>6. CASE cp.status = "CANC"
    BY <2>6 DEF LifecycleFollowsCheckpoint, ScheduledCodes, LiveCodes, FulltimeCodes
  <2> QED BY <2>1, <2>3, <2>4, <2>5, <2>6 DEF StatusCodes, ScheduledCodes
<1> QED BY <1>1, FixtureInvariant, PTL
\* Every event that diff_fixture derives is stored: its dedupe key is none of those in
\* the store, so that no goal, phase or correction is dropped as a duplicate of another.
NothingIsDropped ==
    [][\A o \in ObservationsOf(api) \cup ObservationsOf(behind) :
          IngestFixture(o) =>
              \A f \in ToSet(FactsOf(o, baseline \/ cp # NoFixture)) : f.key \notin keys
      ]_fixtureVars

\* In every step of the fixture, the events of diff_fixture are new to the store.
THEOREM EveryFactIsStored == FixtureSpec => NothingIsDropped
<1>1. ASSUME FixtureInv, NEW o \in ObservationsOf(api) \cup ObservationsOf(behind),
             NEW f \in ToSet(FactsOf(o, baseline \/ cp # NoFixture))
      PROVE  f.key \notin keys
  <2> DEFINE facts == FactsOf(o, baseline \/ cp # NoFixture)
  <2>1. o \in Views
    BY <1>1, ViewsOf DEF FixtureInv
  <2>2. Prior \in Bases /\ KeysCovered(keys, Prior)
    BY <1>1, PriorType DEF FixtureInv, FixtureTypeOK
  <2>3. facts \in Seq(NewFacts(o))
    BY <2>1, <2>2, FactsAreNew
  <2> HIDE DEF facts
  <2>4. PICK i \in 1 .. Len(facts) : f = facts[i]
    BY <1>1, <2>3 DEF ToSet, facts
  <2>5. f \in NewFacts(o)
    BY <2>3, <2>4
  <2>6. f.key \in NewKeys(o)
    BY <2>5 DEF NewFacts
  <2>7. Prior.version \in Nat
    BY <2>2 DEF Bases
  <2> QED BY <2>2, <2>6, <2>7, NewKeysAreNew
<1>2. FixtureInv =>
        \A o \in ObservationsOf(api) \cup ObservationsOf(behind) :
          IngestFixture(o) =>
              \A f \in ToSet(FactsOf(o, baseline \/ cp # NoFixture)) : f.key \notin keys
  BY <1>1
<1> QED BY <1>2, FixtureInvariant, PTL DEF NothingIsDropped

=============================================================================
