---------------------------- MODULE RequestBudget ----------------------------
(***************************************************************************)
(* The daily quota of API-Football (DailyRequestBudget and _request of       *)
(* football/api.py): every request is counted and the counter stored before *)
(* it is sent, an answer brings the API's own count, and the counter starts *)
(* again with a new UTC day.                                                *)
(*                                                                          *)
(* A step of the budget uses the time its caller passes: the time of the    *)
(* request, or, after the poll, the time the poll was scheduled (cadence of *)
(* football/source.py).  A poll that runs over midnight therefore sees two  *)
(* days.  The API is external and counts what it receives.  The limit per   *)
(* minute only spaces requests and is left out.                             *)
(***************************************************************************)
EXTENDS Naturals, FiniteSetsExt

CONSTANTS DailyLimit,       \* requests that the API allows in a day (100)
          SafetyReserve,    \* requests that are never used on purpose (5)
          MaxPollRequests,  \* bound: requests of one poll
          MaxLost,          \* bound: requests of a day whose answer is lost or not stored
          LastDay,          \* bound: days
          NoHeader

ASSUME BudgetAssumption ==
    /\ DailyLimit \in Nat
    /\ SafetyReserve \in Nat
    /\ MaxPollRequests \in Nat
    /\ MaxLost \in Nat
    /\ MaxPollRequests + MaxLost < DailyLimit
    /\ MaxLost <= SafetyReserve
    /\ LastDay \in Nat \ {0}
    /\ NoHeader \notin Nat

Days == 1 .. LastDay

VARIABLES today,    \* the UTC day
          budget,   \* the counter in memory, and the day it is for
          stored,   \* the checkpoint quota:daily
          sent,     \* requests that the API received, per day
          answers,  \* answers of today that were lost, or could not be stored
          request   \* the poll and its request

budgetVars == <<today, budget, stored, sent, answers, request>>

NoRequest == [pc |-> "idle", sched |-> 0, now |-> 0, n |-> 0, header |-> NoHeader]
Fresh(day) == [day |-> day, used |-> 0, header |-> NoHeader]

Headers == {NoHeader} \cup 0 .. DailyLimit
Counters == [day : 0 .. LastDay, used : 0 .. DailyLimit, header : Headers]

BudgetTypeOK ==
    /\ today \in Days
    /\ budget \in Counters
    /\ stored \in Counters
    /\ sent \in [Days -> Nat]
    /\ answers \in 0 .. MaxLost
    /\ request \in [pc : {"idle", "ready", "reserved", "sent", "ended"},
                   sched : 0 .. LastDay, now : 0 .. LastDay,
                   n : 0 .. MaxPollRequests, header : Headers]

BudgetInit ==
    /\ today = 1
    /\ budget = Fresh(0)
    /\ stored = Fresh(0)
    /\ sent = [d \in Days |-> 0]
    /\ answers = 0
    /\ request = NoRequest

-----------------------------------------------------------------------------
(* DailyRequestBudget                                                       *)

\* _ensure_day: another day than the counter's starts it again.
EnsureDay(b, day) == IF b.day = day THEN b ELSE Fresh(day)

LocalRemaining(b) == IF b.used < DailyLimit THEN DailyLimit - b.used ELSE 0

\* Mutant of Remaining: the API's own count is ignored.
RemainingMutant(b) == LocalRemaining(b)
Remaining(b) ==
    IF b.header = NoHeader THEN LocalRemaining(b) ELSE Min({LocalRemaining(b), b.header})

CanRequest(b) == Remaining(b) > SafetyReserve

-----------------------------------------------------------------------------
(* A poll and its requests                                                  *)

PollStarts ==
    /\ request.pc = "idle"
    /\ request' = [NoRequest EXCEPT !.pc = "ready", !.sched = today]
    /\ UNCHANGED <<today, budget, stored, sent, answers>>

\* _request: the budget refuses and the poll ends.
RefuseRequest ==
    /\ request.pc = "ready"
    /\ budget' = EnsureDay(budget, today)
    /\ ~ CanRequest(budget')
    /\ request' = [request EXCEPT !.pc = "ended"]
    /\ UNCHANGED <<today, stored, sent, answers>>

\* reserve: counted, then stored; a failing store ends the poll unsent.
ReserveRequest ==
    LET b == EnsureDay(budget, today)
    IN /\ request.pc = "ready"
       /\ request.n < MaxPollRequests
       /\ CanRequest(b)
       /\ budget' = [b EXCEPT !.used = @ + 1]
       /\ \/ /\ stored' = budget'
             /\ request' = [request EXCEPT !.pc = "reserved", !.now = today, !.n = @ + 1]
          \/ /\ request' = [request EXCEPT !.pc = "ended"]
             /\ UNCHANGED stored
       /\ UNCHANGED <<today, sent, answers>>

\* The API receives the request and says what is left of its day.
SendRequest ==
    /\ request.pc = "reserved"
    /\ sent' = [sent EXCEPT ![today] = @ + 1]
    /\ request' = [request EXCEPT !.pc = "sent",
                      !.header = IF sent'[today] < DailyLimit THEN DailyLimit - sent'[today] ELSE 0]
    /\ UNCHANGED <<today, budget, stored, answers>>

\* update_headers, with the time of the request; a result goes on with the poll, an
\* error status or a failing store ends it.
AnswerArrives ==
    /\ request.pc = "sent"
    /\ budget' = [EnsureDay(budget, request.now) EXCEPT !.header = request.header]
    /\ \/ /\ stored' = budget'
          /\ \E pc \in {"ready", "ended"} : request' = [request EXCEPT !.pc = pc]
          /\ UNCHANGED answers
       \/ /\ answers < MaxLost
          /\ answers' = answers + 1
          /\ request' = [request EXCEPT !.pc = "ended"]
          /\ UNCHANGED stored
    /\ UNCHANGED <<today, sent>>

\* A timeout or a transport error.
AnswerLost ==
    /\ request.pc = "sent"
    /\ answers < MaxLost
    /\ answers' = answers + 1
    /\ request' = [request EXCEPT !.pc = "ended"]
    /\ UNCHANGED <<today, budget, stored, sent>>

\* The poll has what it needs, or is cut off before it sends.
PollEnds ==
    /\ request.pc \in {"ready", "reserved"}
    /\ request' = [request EXCEPT !.pc = "ended"]
    /\ UNCHANGED <<today, budget, stored, sent, answers>>

\* cadence: snapshot at the time the poll was scheduled.
AskCadence ==
    /\ request.pc = "ended"
    /\ budget' = EnsureDay(budget, request.sched)
    /\ request' = NoRequest
    /\ UNCHANGED <<today, stored, sent, answers>>

\* A poll takes at most four minutes and meets at most one midnight.
Midnight ==
    /\ today < LastDay
    /\ request.pc # "idle" => request.sched = today
    /\ today' = today + 1
    /\ answers' = 0
    /\ UNCHANGED <<budget, stored, sent, request>>

\* The process ends; the next one restores the stored counter of its day.  A request
\* that was under way is unanswered.
BudgetRestart ==
    /\ request.pc = "sent" => answers < MaxLost
    /\ answers' = IF request.pc = "sent" THEN answers + 1 ELSE answers
    /\ budget' = EnsureDay(stored, today)
    /\ request' = NoRequest
    /\ UNCHANGED <<today, stored, sent>>

BudgetNext ==
    \/ PollStarts \/ RefuseRequest \/ ReserveRequest \/ SendRequest \/ AnswerArrives
    \/ AnswerLost \/ PollEnds \/ AskCadence \/ Midnight \/ BudgetRestart

BudgetSpec == BudgetInit /\ [][BudgetNext]_budgetVars

-----------------------------------------------------------------------------
\* The API never receives more requests in a day than it allows, although a poll that
\* runs over midnight makes the budget forget what it sent on the new day, the process
\* restarts, and answers (and the counts they carry) are lost, as long as no more
\* answers of one day are lost than the reserve covers (DailyRequestBudget).
BudgetHolds == \A d \in Days : sent[d] <= DailyLimit
=============================================================================
