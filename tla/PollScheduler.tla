---------------------------- MODULE PollScheduler ----------------------------
(***************************************************************************)
(* The provider scheduler: one endless task per source, and requests that   *)
(* poll a source at once (poll_now), share a semaphore; the polls of one    *)
(* source take turns behind its lock.  Every poll has a timeout, which      *)
(* covers the wait for the lock, and ends in the health registry.           *)
(*                                                                         *)
(* Time is left out but for two orders: of two polls of one source the one  *)
(* that got its permit first times out first (their timeouts are equal),    *)
(* and a task that was told to wait sleeps until that moment.               *)
(***************************************************************************)
EXTENDS Integers, Sequences, SequencesExt, FiniteSets

CONSTANTS
    Source,            \* poll sources, each with its own task
    Request,           \* callers of poll_now
    TargetOf,          \* [Request -> Source]
    MaxConcurrency,    \* permits (2 in the code)
    UnavailableAfter,  \* consecutive failures (3 in the code)
    Nobody             \* the owner of a free lock

ASSUME SchedulerAssumption ==
    /\ IsFiniteSet(Source) /\ IsFiniteSet(Request)
    /\ Source \cap Request = {}
    /\ TargetOf \in [Request -> Source]
    /\ {MaxConcurrency, UnavailableAfter} \subseteq Nat \ {0}
    /\ Nobody \notin Source \cup Request

VARIABLES
    phase,     \* "running", "stopping", "stopped"
    pc,        \* where each task is
    permits,   \* the semaphore's value
    queue,     \* those who wait for a permit, first come first served
    line,      \* by source: those in _observe_and_handle, in order of arrival
    owner,     \* by source: the holder of its lock
    failing,   \* sources whose task is backing off (its failure count is not 0)
    limited,   \* those whose last poll got a Retry-After that is not over yet
    health     \* the registry: status and consecutive failures, by source

lockVars == <<permits, queue, line, owner>>
vars == <<phase, pc, lockVars, failing, limited, health>>

-----------------------------------------------------------------------------
Worker    == Source \cup Request
Target(w) == IF w \in Source THEN w ELSE TargetOf[w]

\* Failures beyond those that make a provider unavailable are not told apart.
Plus1(n)  == IF n < UnavailableAfter THEN n + 1 ELSE n

Statuses == {"unknown", "connecting", "healthy", "disconnected", "rate_limited",
             "auth_failure", "provider_failure", "unavailable"}
Health   == [status : Statuses, failures : 0 .. UnavailableAfter]

\* How a poll may end.
Successes == {"success", "unconfigured"}
Results   == Successes \cup {"retry_after", "timeout", "auth", "permanent", "error"}

\* ProviderHealthRegistry.success, rate_limited and failure
Reported(h, result) ==
    LET n == Plus1(h.failures)
    IN  CASE result = "success"      -> [status |-> "healthy", failures |-> 0]
          [] result = "unconfigured" -> [status |-> "disconnected", failures |-> 0]
          [] result = "retry_after"  -> [status |-> "rate_limited", failures |-> n]
          [] result = "auth"         -> [status |-> "auth_failure", failures |-> n]
          [] OTHER -> [status |-> IF result = "permanent" \/ n >= UnavailableAfter
                                  THEN "unavailable" ELSE "provider_failure",
                       failures |-> n]

Polling(w) == pc[w] \in {"observe", "handle"}
Holders    == {w \in Worker : pc[w] \in {"lock", "observe", "handle"}}
Without(q, w) == RemoveFirst(q, w)

Init ==
    /\ phase = "running"
    /\ pc = [w \in Worker |-> IF w \in Source THEN "ready" ELSE "idle"]
    /\ permits = MaxConcurrency
    /\ queue = <<>>
    /\ line = [s \in Source |-> <<>>]
    /\ owner = [s \in Source |-> Nobody]
    /\ failing = {}
    /\ limited = {}
    /\ health = [s \in Source |-> [status |-> "unknown", failures |-> 0]]

-----------------------------------------------------------------------------
(* The way in: semaphore and lock                                           *)

\* Mutant: a task does not wait for the end of a Retry-After.
Begin_NoFloor(s) ==
    /\ phase = "running"
    /\ pc[s] \in {"ready", "sleep"}
    /\ pc' = [pc EXCEPT ![s] = "permit"]
    /\ queue' = Append(queue, s)
    /\ UNCHANGED <<phase, permits, line, owner, failing, limited, health>>

\* A source's task starts a round: it is new, or its delay is over.
Begin(s) ==
    /\ phase = "running"
    /\ \/ pc[s] = "ready"
       \/ pc[s] = "sleep" /\ s \notin limited
    /\ pc' = [pc EXCEPT ![s] = "permit"]
    /\ queue' = Append(queue, s)
    /\ UNCHANGED <<phase, permits, line, owner, failing, limited, health>>

\* The route that selects a weather location reports the change and polls.
Ask(q) ==
    /\ phase = "running"
    /\ pc[q] = "idle"
    /\ health' = [health EXCEPT ![Target(q)] = [status |-> "connecting", failures |-> 0]]
    /\ pc' = [pc EXCEPT ![q] = "permit"]
    /\ queue' = Append(queue, q)
    /\ UNCHANGED <<phase, permits, line, owner, failing, limited>>

\* Mutant: a permit goes to any of those who wait.
Acquire_AnyOrder(w) ==
    /\ pc[w] = "permit" /\ permits > 0
    /\ permits' = permits - 1
    /\ queue' = Without(queue, w)
    /\ line' = [line EXCEPT ![Target(w)] = Append(@, w)]
    /\ pc' = [pc EXCEPT ![w] = "lock"]
    /\ UNCHANGED <<phase, owner, failing, limited, health>>

\* The first in the queue gets a permit; its timeout starts.
Acquire(w) ==
    /\ pc[w] = "permit" /\ queue # <<>> /\ w = Head(queue)
    /\ permits > 0
    /\ permits' = permits - 1
    /\ queue' = Tail(queue)
    /\ line' = [line EXCEPT ![Target(w)] = Append(@, w)]
    /\ pc' = [pc EXCEPT ![w] = "lock"]
    /\ UNCHANGED <<phase, owner, failing, limited, health>>

\* Mutant: the lock of the source is not waited for.
TakeLock_Unlocked(w) ==
    /\ pc[w] = "lock"
    /\ owner' = [owner EXCEPT ![Target(w)] = w]
    /\ pc' = [pc EXCEPT ![w] = "observe"]
    /\ UNCHANGED <<phase, permits, queue, line, failing, limited, health>>

TakeLock(w) ==
    /\ pc[w] = "lock"
    /\ w = Head(line[Target(w)])
    /\ owner[Target(w)] = Nobody
    /\ owner' = [owner EXCEPT ![Target(w)] = w]
    /\ pc' = [pc EXCEPT ![w] = "observe"]
    /\ UNCHANGED <<phase, permits, queue, line, failing, limited, health>>

-----------------------------------------------------------------------------
(* The way out                                                              *)

\* Mutant: a poll that is cut off keeps its permit.
Leave_KeepsPermit(w) ==
    /\ permits' = IF pc[w] = "observe" THEN permits + 1 ELSE permits
    /\ line' = [line EXCEPT ![Target(w)] = Without(@, w)]
    /\ owner' = IF owner[Target(w)] = w
                THEN [owner EXCEPT ![Target(w)] = Nobody] ELSE owner

\* Lock and permit are given back, however the poll ends.
Leave(w) ==
    /\ permits' = permits + 1
    /\ line' = [line EXCEPT ![Target(w)] = Without(@, w)]
    /\ owner' = IF owner[Target(w)] = w
                THEN [owner EXCEPT ![Target(w)] = Nobody] ELSE owner

\* Mutant: a timeout does not count as a failure.
Settle_ForgivesTimeout(w, result, cadenceOk) ==
    LET s == Target(w)
        h == Reported(health[s], result)
    IN  IF w \in Source
        THEN /\ pc' = [pc EXCEPT ![w] = "sleep"]
             /\ health' = [health EXCEPT ![s] = IF result = "timeout" THEN @
                                                ELSE IF cadenceOk THEN h
                                                ELSE Reported(h, "error")]
             /\ failing' = IF result \in Successes THEN failing \ {s}
                           ELSE failing \cup {s}
        ELSE /\ pc' = [pc EXCEPT ![w] = "idle"]
             /\ health' = [health EXCEPT ![s] = h]
             /\ UNCHANGED failing

\* What the caller does with the result: a source's task reports it, counts,
\* asks the source for its cadence (a failure of which is reported too) and
\* sleeps; poll_now reports it and returns or raises.
Settle(w, result, cadenceOk) ==
    LET s == Target(w)
        h == Reported(health[s], result)
    IN  IF w \in Source
        THEN /\ pc' = [pc EXCEPT ![w] = "sleep"]
             /\ health' = [health EXCEPT ![s] = IF cadenceOk THEN h
                                                ELSE Reported(h, "error")]
             /\ failing' = IF result \in Successes THEN failing \ {s}
                           ELSE failing \cup {s}
        ELSE /\ pc' = [pc EXCEPT ![w] = "idle"]
             /\ health' = [health EXCEPT ![s] = h]
             /\ UNCHANGED failing

\* observe returned something, which goes to the observation handler.
Found(w) ==
    /\ pc[w] = "observe"
    /\ pc' = [pc EXCEPT ![w] = "handle"]
    /\ UNCHANGED <<phase, lockVars, failing, limited, health>>

\* observe returned nothing or raised, or the handler returned or raised.
PollEnds(w, result, cadenceOk) ==
    /\ \/ pc[w] = "observe" /\ result \in Results \ {"timeout"}
       \/ pc[w] = "handle" /\ result \in {"success", "error"}
    /\ Leave(w)
    /\ Settle(w, result, cadenceOk)
    /\ limited' = IF result = "retry_after" THEN limited \cup {w} ELSE limited \ {w}
    /\ UNCHANGED <<phase, queue>>

\* wait_for cancels the poll, wherever it is.
TimesOut(w, cadenceOk) ==
    /\ pc[w] \in {"lock", "observe", "handle"}
    /\ w = Head(line[Target(w)])
    /\ Leave(w)
    /\ Settle(w, "timeout", cadenceOk)
    /\ UNCHANGED <<phase, queue, limited>>

\* The moment that a Retry-After named is past.
LimitElapses(w) ==
    /\ w \in limited
    /\ limited' = limited \ {w}
    /\ UNCHANGED <<phase, pc, lockVars, failing, health>>

-----------------------------------------------------------------------------
(* stop                                                                     *)

Stop ==
    /\ phase = "running"
    /\ phase' = "stopping"
    /\ UNCHANGED <<pc, lockVars, failing, limited, health>>

\* Mutants: a task that does not hold a permit gives one back; a task that
\* sleeps is not woken.
Cancelled_Releases(s) ==
    /\ phase = "stopping"
    /\ pc[s] # "stopped"
    /\ pc' = [pc EXCEPT ![s] = "stopped"]
    /\ Leave(s)
    /\ queue' = Without(queue, s)
    /\ UNCHANGED <<phase, failing, limited, health>>

Cancelled_Awake(s) ==
    /\ phase = "stopping"
    /\ pc[s] \notin {"stopped", "sleep"}
    /\ pc' = [pc EXCEPT ![s] = "stopped"]
    /\ IF s \in Holders THEN Leave(s) ELSE UNCHANGED <<permits, line, owner>>
    /\ queue' = Without(queue, s)
    /\ UNCHANGED <<phase, failing, limited, health>>

\* A source's task ends at its next await.
Cancelled(s) ==
    /\ phase = "stopping"
    /\ pc[s] # "stopped"
    /\ pc' = [pc EXCEPT ![s] = "stopped"]
    /\ IF s \in Holders THEN Leave(s) ELSE UNCHANGED <<permits, line, owner>>
    /\ queue' = Without(queue, s)
    /\ UNCHANGED <<phase, failing, limited, health>>

StopReturns ==
    /\ phase = "stopping"
    /\ \A s \in Source : pc[s] = "stopped"
    /\ phase' = "stopped"
    /\ UNCHANGED <<pc, lockVars, failing, limited, health>>

-----------------------------------------------------------------------------
Progress(w) ==
    \/ Found(w)
    \/ \E cadenceOk \in BOOLEAN :
          \/ \E result \in Results : PollEnds(w, result, cadenceOk)
          \/ TimesOut(w, cadenceOk)

Next ==
    \/ \E w \in Worker : Acquire(w) \/ TakeLock(w) \/ Progress(w) \/ LimitElapses(w)
    \/ \E s \in Source : Begin(s) \/ Cancelled(s)
    \/ \E q \in Request : Ask(q)
    \/ Stop \/ StopReturns

Spec == Init /\ [][Next]_vars

\* The event loop runs every task that can go on, a poll ends or is cut off,
\* and delays end.  A poll that is the next to get the lock may be cut off just
\* then (the one before it used up almost the same timeout), but not each time.
\* Nobody is obliged to ask or to stop.
Fairness ==
    /\ WF_vars(\E w \in Worker : Acquire(w))
    /\ \A w \in Worker :
          SF_vars(TakeLock(w)) /\ WF_vars(Progress(w)) /\ WF_vars(LimitElapses(w))
    /\ \A s \in Source : WF_vars(Begin(s)) /\ WF_vars(Cancelled(s))
    /\ WF_vars(StopReturns)

FairSpec == Spec /\ Fairness

-----------------------------------------------------------------------------
(* Properties                                                               *)

\* The type invariant.
TypeOK ==
    /\ phase \in {"running", "stopping", "stopped"}
    /\ pc \in [Worker -> {"ready", "idle", "permit", "lock", "observe", "handle",
                          "sleep", "stopped"}]
    /\ permits \in 0 .. MaxConcurrency
    /\ queue \in Seq(Worker)
    /\ line \in [Source -> Seq(Worker)]
    /\ owner \in [Source -> Worker \cup {Nobody}]
    /\ failing \subseteq Source
    /\ limited \subseteq Worker
    /\ health \in [Source -> Health]

\* The observations of a source are read and handed over by one poll at a time,
\* through timeouts, cancellation and poll_now, so that the sources need no
\* protection for what they remember between polls.
OnePollPerSource ==
    \A v, w \in Worker :
        Polling(v) /\ Polling(w) /\ Target(v) = Target(w) => v = w

\* No way out of a poll loses a permit or gives one back twice.
PermitsConserved == permits + Cardinality(Holders) = MaxConcurrency

\* A source that nobody else polls is not reported healthy while its task is
\* backing off.
BackoffIsVisible ==
    \A s \in failing \ {TargetOf[q] : q \in Request} : health[s].status # "healthy"

\* A task that was told to wait does not even ask for a permit until then, nor
\* does it return to its provider.
TaskHonorsRetryAfter ==
    \A s \in Source \cap limited : pc[s] \in {"sleep", "stopped"}

\* "failures remain visible and retry rather than silently stopping"
\* (docs/adr/0007): every source is polled again and again, however many
\* requests compete with it for the permits.
PollsForever ==
    \A s \in Source : []<>(pc[s] = "observe" \/ phase # "running")

\* stop returns.
StopEnds == phase = "stopping" ~> phase = "stopped"
=============================================================================
