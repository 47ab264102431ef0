------------------------- MODULE PollScheduler_proofs ------------------------
(***************************************************************************)
(* Type correctness, mutual exclusion of the polls of a source, conservation *)
(* of the scheduler's permits, and what a task that failed or was told to    *)
(* wait does, for any number of sources, requests and permits.               *)
(***************************************************************************)
EXTENDS PollScheduler, FiniteSetTheorems, WellFoundedInduction, TLAPS

States == {"ready", "idle", "permit", "lock", "observe", "handle", "sleep", "stopped"}

\* The lock of a source belongs to the worker that polls it.
LockInv ==
    /\ pc \in [Worker -> States]
    /\ owner \in [Source -> Worker \cup {Nobody}]
    /\ \A w \in Worker : Polling(w) => owner[Target(w)] = w

LEMMA TargetType == \A w \in Worker : Target(w) \in Source
  BY SchedulerAssumption DEF Target, Worker

LEMMA NobodyIsNoWorker == Nobody \notin Worker
  BY SchedulerAssumption DEF Worker

\* A worker that gives back what it holds and polls no more keeps the invariant.
LEMMA LeaveKeepsLock ==
    ASSUME LockInv, NEW w \in Worker, Leave(w),
           NEW x \in States \ {"observe", "handle"}, pc' = [pc EXCEPT ![w] = x]
    PROVE  LockInv'
<1>1. Target(w) \in Source BY TargetType
<1>2. owner' \in [Source -> Worker \cup {Nobody}]
  BY <1>1 DEF LockInv, Leave
<1>3. pc' \in [Worker -> States]
  BY DEF LockInv
<1>4. ASSUME NEW v \in Worker, pc'[v] \in {"observe", "handle"}
      PROVE  owner'[Target(v)] = v
  <2>1. v # w /\ pc[v] = pc'[v]
    BY <1>4 DEF LockInv
  <2>2. owner[Target(v)] = v
    BY <2>1, <1>4 DEF LockInv, Polling
  <2>3. Target(v) \in Source BY TargetType
  <2> QED BY <2>1, <2>2, <2>3, <1>1 DEF Leave, LockInv
<1> QED BY <1>2, <1>3, <1>4 DEF LockInv, Polling

LEMMA SettleMoves ==
    ASSUME NEW w \in Worker, NEW result, NEW ok, Settle(w, result, ok)
    PROVE  \E x \in States \ {"observe", "handle"} : pc' = [pc EXCEPT ![w] = x]
  BY DEF Settle, States

LEMMA LockStep == LockInv /\ [Next]_vars => LockInv'
<1> SUFFICES ASSUME LockInv, [Next]_vars PROVE LockInv'
  OBVIOUS
<1> USE DEF lockVars
<1>1. ASSUME NEW w \in Worker, Acquire(w) PROVE LockInv'
  BY <1>1 DEF Acquire, LockInv, Polling, States, Target
<1>2. ASSUME NEW w \in Worker, TakeLock(w) PROVE LockInv'
  <2>1. Target(w) \in Source BY TargetType
  <2>2. owner' \in [Source -> Worker \cup {Nobody}] /\ pc' \in [Worker -> States]
    BY <1>2, <2>1 DEF TakeLock, LockInv, States
  <2>3. ASSUME NEW v \in Worker, pc'[v] \in {"observe", "handle"}
        PROVE  owner'[Target(v)] = v
    <3>1. CASE v = w
      BY <3>1, <1>2, <2>1 DEF TakeLock, LockInv
    <3>2. CASE v # w
      <4>1. owner[Target(v)] = v
        BY <3>2, <2>3, <1>2 DEF TakeLock, LockInv, Polling
      <4>2. Target(v) # Target(w)
        BY <4>1, <1>2, NobodyIsNoWorker DEF TakeLock
      <4> QED BY <4>1, <4>2, <1>2, <2>1, TargetType DEF TakeLock, LockInv
    <3> QED BY <3>1, <3>2
  <2> QED BY <2>2, <2>3 DEF LockInv, Polling
<1>3. ASSUME NEW w \in Worker, Progress(w) PROVE LockInv'
  <2>1. CASE Found(w)
    BY <2>1 DEF Found, LockInv, Polling, States, Target
  <2>2. ASSUME NEW ok \in BOOLEAN, NEW result \in Results, PollEnds(w, result, ok)
        PROVE  LockInv'
    BY <2>2, SettleMoves, LeaveKeepsLock DEF PollEnds
  <2>3. ASSUME NEW ok \in BOOLEAN, TimesOut(w, ok) PROVE LockInv'
    BY <2>3, SettleMoves, LeaveKeepsLock DEF TimesOut
  <2> QED BY <1>3, <2>1, <2>2, <2>3 DEF Progress
<1>4. ASSUME NEW w \in Worker, LimitElapses(w) PROVE LockInv'
  BY <1>4 DEF LimitElapses, LockInv, Polling, Target
<1>5. ASSUME NEW s \in Source, Begin(s) PROVE LockInv'
  BY <1>5 DEF Begin, LockInv, Polling, States, Target, Worker
<1>6. ASSUME NEW s \in Source, Cancelled(s) PROVE LockInv'
  <2>1. s \in Worker /\ "stopped" \in States \ {"observe", "handle"}
    BY DEF Worker, States
  <2>2. CASE s \in Holders
    BY <1>6, <2>1, <2>2, LeaveKeepsLock DEF Cancelled
  <2>3. CASE s \notin Holders
    BY <1>6, <2>1, <2>3 DEF Cancelled, LockInv, Polling, Target, States
  <2> QED BY <2>2, <2>3
<1>7. ASSUME NEW q \in Request, Ask(q) PROVE LockInv'
  BY <1>7 DEF Ask, LockInv, Polling, States, Target, Worker
<1>8. CASE Stop \/ StopReturns \/ UNCHANGED vars
  BY <1>8 DEF Stop, StopReturns, vars, LockInv, Polling, Target
<1> QED BY <1>1, <1>2, <1>3, <1>4, <1>5, <1>6, <1>7, <1>8 DEF Next

LEMMA LockInit == Init => LockInv
  BY DEF Init, LockInv, Polling, States

LEMMA LockHeld == Spec => []LockInv
  BY LockInit, LockStep, PTL DEF Spec

\* The polls of one source exclude each other (the lock of _observe_and_handle),
\* whatever ends them: an answer, an exception, the timeout or stop.
THEOREM PollsExclude == Spec => []OnePollPerSource
<1>1. LockInv => OnePollPerSource
  BY DEF LockInv, OnePollPerSource
<1> QED BY <1>1, LockHeld, PTL

-----------------------------------------------------------------------------
\* The semaphore's value and the workers behind it make up all permits.
PermitInv == permits \in Nat /\ PermitsConserved

LEMMA HoldersFinite == IsFiniteSet(Holders) /\ Cardinality(Holders) \in Nat
<1>1. IsFiniteSet(Worker)
  BY SchedulerAssumption, FS_Union DEF Worker
<1>2. Holders \subseteq Worker
  BY DEF Holders
<1> QED BY <1>1, <1>2, FS_Subset, FS_CardinalityType

LEMMA LeaveKeepsPermits ==
    ASSUME LockInv, PermitInv, NEW w \in Holders, Leave(w),
           NEW x \in States \ {"lock", "observe", "handle"}, pc' = [pc EXCEPT ![w] = x]
    PROVE  PermitInv'
<1>1. w \in Worker
  BY DEF Holders
<1>2. Holders' = Holders \ {w}
  BY <1>1 DEF Holders, LockInv
<1>3. Cardinality(Holders') = Cardinality(Holders) - 1
  BY <1>2, HoldersFinite, FS_RemoveElement
<1> QED BY <1>3, HoldersFinite DEF PermitInv, PermitsConserved, Leave

LEMMA SettleLeaves ==
    ASSUME NEW w \in Worker, NEW result, NEW ok, Settle(w, result, ok)
    PROVE  \E x \in States \ {"lock", "observe", "handle"} : pc' = [pc EXCEPT ![w] = x]
  BY DEF Settle, States

LEMMA PermitStep == LockInv /\ PermitInv /\ [Next]_vars => PermitInv'
<1> SUFFICES ASSUME LockInv, PermitInv, [Next]_vars PROVE PermitInv'
  OBVIOUS
<1> USE DEF lockVars
<1>h. Holders' = Holders /\ permits' = permits => PermitInv'
  BY DEF PermitInv, PermitsConserved
<1>1. ASSUME NEW w \in Worker, Acquire(w) PROVE PermitInv'
  <2>1. Holders' = Holders \cup {w} /\ w \notin Holders
    BY <1>1 DEF Acquire, Holders, LockInv
  <2>2. Cardinality(Holders') = Cardinality(Holders) + 1
    BY <2>1, HoldersFinite, FS_AddElement
  <2>3. permits' = permits - 1 /\ permits > 0
    BY <1>1 DEF Acquire
  <2> QED BY <2>2, <2>3, HoldersFinite, SchedulerAssumption DEF PermitInv, PermitsConserved
<1>2. ASSUME NEW w \in Worker, TakeLock(w) \/ Found(w) PROVE PermitInv'
  <2>1. Holders' = Holders /\ permits' = permits
    BY <1>2 DEF TakeLock, Found, Holders, LockInv
  <2> QED BY <2>1, <1>h
<1>3. ASSUME NEW w \in Worker, NEW ok \in BOOLEAN, NEW result \in Results,
             PollEnds(w, result, ok) \/ TimesOut(w, ok)
      PROVE  PermitInv'
  <2>1. w \in Holders
    BY <1>3 DEF PollEnds, TimesOut, Holders
  <2>2. Leave(w) /\ \E r \in Results : Settle(w, r, ok)
    BY <1>3 DEF PollEnds, TimesOut, Results
  <2> QED BY <2>1, <2>2, SettleLeaves, LeaveKeepsPermits
<1>4. ASSUME NEW w \in Worker, LimitElapses(w) PROVE PermitInv'
  <2>1. Holders' = Holders /\ permits' = permits
    BY <1>4 DEF LimitElapses, Holders
  <2> QED BY <2>1, <1>h
<1>5. ASSUME NEW s \in Source, Begin(s) PROVE PermitInv'
  <2>1. Holders' = Holders /\ permits' = permits
    BY <1>5 DEF Begin, Holders, LockInv, Worker
  <2> QED BY <2>1, <1>h
<1>6. ASSUME NEW s \in Source, Cancelled(s) PROVE PermitInv'
  <2>1. CASE s \in Holders
    <3>1. "stopped" \in States \ {"lock", "observe", "handle"}
      BY DEF States
    <3> QED BY <2>1, <3>1, <1>6, LeaveKeepsPermits DEF Cancelled
  <2>2. CASE s \notin Holders
    <3>1. Holders' = Holders /\ permits' = permits
      BY <2>2, <1>6 DEF Cancelled, Holders, LockInv, Worker
    <3> QED BY <3>1, <1>h
  <2> QED BY <2>1, <2>2
<1>7. ASSUME NEW q \in Request, Ask(q) PROVE PermitInv'
  <2>1. Holders' = Holders /\ permits' = permits
    BY <1>7 DEF Ask, Holders, LockInv, Worker
  <2> QED BY <2>1, <1>h
<1>8. CASE Stop \/ StopReturns \/ UNCHANGED vars
  <2>1. Holders' = Holders /\ permits' = permits
    BY <1>8 DEF Stop, StopReturns, vars, Holders
  <2> QED BY <2>1, <1>h
<1>9. ASSUME NEW w \in Worker, Progress(w) PROVE PermitInv'
  <2>1. "timeout" \in Results
    BY DEF Results
  <2> QED BY <1>9, <1>2, <1>3, <2>1 DEF Progress
<1> QED BY <1>1, <1>2, <1>4, <1>5, <1>6, <1>7, <1>8, <1>9 DEF Next

LEMMA PermitInit == Init => PermitInv
<1> SUFFICES ASSUME Init PROVE PermitInv
  OBVIOUS
<1>1. Holders = {}
  BY DEF Init, Holders
<1>2. Cardinality(Holders) = 0
  BY <1>1, FS_EmptySet
<1> QED BY <1>2, SchedulerAssumption DEF Init, PermitInv, PermitsConserved

\* Every poll that takes a permit gives back exactly one, however it ends; at
\* most MaxConcurrency polls run at a time.
THEOREM PermitsAreKept == Spec => []PermitsConserved
<1>1. PermitInv => PermitsConserved
  BY DEF PermitInv
<1> QED BY <1>1, LockHeld, PermitInit, PermitStep, PTL DEF Spec

-----------------------------------------------------------------------------
(* Type correctness                                                         *)

\* A set of naturals that is not empty has a least element.
LEMMA LeastNatural ==
    ASSUME NEW S \in SUBSET Nat, S # {}
    PROVE  \E x \in S : \A y \in S : x <= y
<1> DEFINE R == OpToRel(<, Nat)
<1>1. \A x, y \in Nat : <<y, x>> \in R <=> y < x
  BY DEF OpToRel
<1>2. IsWellFoundedOn(R, Nat)
  BY NatLessThanWellFounded
<1> HIDE DEF R
<1>3. PICK x \in S : \A y \in S : ~(<<y, x>> \in R)
  BY <1>2, WFMin
<1>4. ASSUME NEW y \in S PROVE x <= y
  <2>1. x \in Nat /\ y \in Nat
    OBVIOUS
  <2>2. ~(y < x)
    BY <1>1, <1>3, <2>1
  <2> QED BY <2>1, <2>2
<1> QED BY <1>4

\* A waiter that leaves a queue leaves a queue.
LEMMA WithoutType ==
    ASSUME NEW T, NEW q \in Seq(T), NEW w
    PROVE  Without(q, w) \in Seq(T)
<1>1. CASE \E i \in 1 .. Len(q) : q[i] = w
  <2> DEFINE I == {i \in 1 .. Len(q) : q[i] = w}
             k == Min(I)
  <2>1. I \in SUBSET Nat /\ I # {}
    BY <1>1
  <2>2. k \in I
    <3> HIDE DEF I
    <3> QED BY <2>1, LeastNatural DEF Min
  <2>3. Without(q, w) = SubSeq(q, 1, k - 1) \o SubSeq(q, k + 1, Len(q))
    BY <1>1 DEF Without, RemoveFirst, RemoveAt, SelectInSeq
  <2>4. k \in 1 .. Len(q)
    BY <2>2
  <2> HIDE DEF k
  <2>5. SubSeq(q, 1, k - 1) \in Seq(T)
    BY <2>4
  <2>6. SubSeq(q, k + 1, Len(q)) \in Seq(T)
    BY <2>4
  <2> QED BY <2>3, <2>5, <2>6
<1>2. CASE ~ \E i \in 1 .. Len(q) : q[i] = w
  BY <1>2 DEF Without, RemoveFirst
<1> QED BY <1>1, <1>2

\* A result leaves a health record a health record.
LEMMA ReportedType ==
    ASSUME NEW h \in Health, NEW result
    PROVE  /\ Reported(h, result) \in Health
           /\ result \notin Successes => Reported(h, result).status # "healthy"
<1>1. Plus1(h.failures) \in 0 .. UnavailableAfter /\ 0 \in 0 .. UnavailableAfter
  BY SchedulerAssumption DEF Health, Plus1
<1> QED BY <1>1 DEF Reported, Health, Statuses, Successes

\* The parts of the type invariant that are not in LockInv and PermitInv, and what a
\* task remembers of its last poll.
TaskInv ==
    /\ phase \in {"running", "stopping", "stopped"}
    /\ queue \in Seq(Worker)
    /\ line \in [Source -> Seq(Worker)]
    /\ failing \subseteq Source
    /\ limited \subseteq Worker
    /\ health \in [Source -> Health]
    /\ BackoffIsVisible
    /\ TaskHonorsRetryAfter

LEMMA LeaveType ==
    ASSUME TaskInv, NEW w \in Worker, Leave(w)
    PROVE  line' \in [Source -> Seq(Worker)]
<1>1. Target(w) \in Source BY TargetType
<1>2. Without(line[Target(w)], w) \in Seq(Worker)
  BY <1>1, WithoutType DEF TaskInv
<1> QED BY <1>1, <1>2 DEF Leave, TaskInv

\* The end of a poll: health and failure count change together.
LEMMA SettleKeeps ==
    ASSUME TaskInv, LockInv, NEW w \in Worker, NEW result \in Results, NEW ok \in BOOLEAN,
           Settle(w, result, ok)
    PROVE  /\ failing' \subseteq Source
           /\ health' \in [Source -> Health]
           /\ BackoffIsVisible'
           /\ \A v \in Worker : v # w => pc'[v] = pc[v]
           /\ w \in Source => pc'[w] = "sleep"
<1> DEFINE s == Target(w)
           h == Reported(health[s], result)
           g == IF w \notin Source \/ ok THEN h ELSE Reported(h, "error")
<1>1. s \in Source /\ health[s] \in Health
  BY TargetType DEF TaskInv
<1>2. h \in Health /\ (result \notin Successes => h.status # "healthy")
  BY <1>1, ReportedType
<1>3. g \in Health /\ (result \notin Successes => g.status # "healthy")
  <2>1. Reported(h, "error") \in Health /\ Reported(h, "error").status # "healthy"
    <3>1. "error" \notin Successes
      BY DEF Successes
    <3> HIDE DEF h
    <3> QED BY <1>2, <3>1, ReportedType
  <2> QED BY <1>2, <2>1
<1>4. health' = [health EXCEPT ![s] = g]
  BY DEF Settle
<1>5. w \in Source => s = w
  BY DEF Target
<1>6. w \notin Source => w \in Request /\ s = TargetOf[w] /\ failing' = failing
  BY DEF Worker, Settle, Target
<1>7. w \in Source => failing' = IF result \in Successes THEN failing \ {w} ELSE failing \cup {w}
  BY <1>5 DEF Settle
<1>8. failing' \subseteq Source
  BY <1>6, <1>7 DEF TaskInv
<1>9. health' \in [Source -> Health]
  BY <1>1, <1>3, <1>4 DEF TaskInv
<1>10. BackoffIsVisible'
  <2> SUFFICES ASSUME NEW t \in failing' \ {TargetOf[q] : q \in Request}
               PROVE  health'[t].status # "healthy"
    BY DEF BackoffIsVisible
  <2> HIDE DEF s, g, h
  <2>1. t \in Source
    BY <1>8
  <2>2. CASE t = s
    <3>1. w \in Source /\ t = w
      BY <1>5, <1>6, <2>2
    <3>2. result \notin Successes
      BY <1>7, <3>1
    <3> QED BY <1>1, <1>3, <1>4, <2>1, <2>2, <3>2 DEF TaskInv
  <2>3. CASE t # s
    <3>1. t \in failing
      BY <1>5, <1>6, <1>7, <2>3
    <3>2. health'[t] = health[t]
      BY <1>4, <2>1, <2>3 DEF TaskInv
    <3> QED BY <3>1, <3>2 DEF TaskInv, BackoffIsVisible
  <2> QED BY <2>2, <2>3
<1>11. \A v \in Worker : v # w => pc'[v] = pc[v]
  BY DEF Settle, LockInv
<1>12. w \in Source => pc'[w] = "sleep"
  BY DEF Settle, LockInv
<1> QED BY <1>8, <1>9, <1>10, <1>11, <1>12

\* Steps that neither end a poll nor touch what the tasks remember.
LEMMA TaskUnmoved ==
    ASSUME TaskInv, UNCHANGED <<failing, limited, health>>,
           phase' \in {"running", "stopping", "stopped"},
           queue' \in Seq(Worker), line' \in [Source -> Seq(Worker)],
           \A s \in Source \cap limited : pc'[s] = pc[s] \/ pc'[s] \in {"sleep", "stopped"}
    PROVE  TaskInv'
  BY DEF TaskInv, BackoffIsVisible, TaskHonorsRetryAfter

LEMMA TaskStep == LockInv /\ TaskInv /\ [Next]_vars => TaskInv'
<1> SUFFICES ASSUME LockInv, TaskInv, [Next]_vars PROVE TaskInv'
  OBVIOUS
<1> USE DEF lockVars
<1>t. /\ phase \in {"running", "stopping", "stopped"}
      /\ queue \in Seq(Worker) /\ line \in [Source -> Seq(Worker)]
      /\ pc \in [Worker -> States] /\ Source \subseteq Worker
      /\ \A s \in Source \cap limited : pc[s] \in {"sleep", "stopped"}
  BY DEF TaskInv, LockInv, Worker, TaskHonorsRetryAfter
<1>1. ASSUME NEW w \in Worker, Acquire(w) PROVE TaskInv'
  <2>1. Target(w) \in Source BY TargetType
  <2>2. queue' \in Seq(Worker)
    BY <1>1, <1>t DEF Acquire
  <2>3. line' \in [Source -> Seq(Worker)]
    BY <1>1, <1>t, <2>1 DEF Acquire
  <2>4. \A s \in Source \cap limited : pc'[s] = pc[s]
    BY <1>1, <1>t DEF Acquire
  <2> QED BY <1>1, <1>t, <2>2, <2>3, <2>4, TaskUnmoved DEF Acquire
<1>2. ASSUME NEW w \in Worker, TakeLock(w) \/ Found(w) PROVE TaskInv'
  <2>1. \A s \in Source \cap limited : pc'[s] = pc[s]
    BY <1>2, <1>t DEF TakeLock, Found
  <2> QED BY <1>2, <1>t, <2>1, TaskUnmoved DEF TakeLock, Found
<1>3. ASSUME NEW w \in Worker, NEW ok \in BOOLEAN, NEW result \in Results,
             Leave(w), Settle(w, result, ok), UNCHANGED <<phase, queue>>,
             \/ limited' = limited \cup {w}
             \/ limited' = limited \ {w}
             \/ limited' = limited /\ w \notin limited \cap Source
      PROVE  TaskInv'
  <2>1. line' \in [Source -> Seq(Worker)]
    BY <1>3, LeaveType
  <2>2. /\ failing' \subseteq Source
        /\ health' \in [Source -> Health]
        /\ BackoffIsVisible'
        /\ \A v \in Worker : v # w => pc'[v] = pc[v]
        /\ w \in Source => pc'[w] = "sleep"
    BY <1>3, SettleKeeps
  <2>3. limited' \subseteq Worker
    BY <1>3 DEF TaskInv
  <2>4. TaskHonorsRetryAfter'
    BY <1>3, <1>t, <2>2 DEF TaskHonorsRetryAfter
  <2> QED BY <1>3, <1>t, <2>1, <2>2, <2>3, <2>4 DEF TaskInv
<1>4. ASSUME NEW w \in Worker, NEW ok \in BOOLEAN, NEW result \in Results,
             PollEnds(w, result, ok)
      PROVE  TaskInv'
  BY <1>3, <1>4 DEF PollEnds
<1>5. ASSUME NEW w \in Worker, NEW ok \in BOOLEAN, TimesOut(w, ok) PROVE TaskInv'
  <2>1. "timeout" \in Results
    BY DEF Results
  <2>2. w \notin limited \cap Source
    BY <1>5, <1>t DEF TimesOut
  <2> QED BY <1>3, <1>5, <2>1, <2>2 DEF TimesOut
<1>6. ASSUME NEW w \in Worker, LimitElapses(w) PROVE TaskInv'
  BY <1>6 DEF LimitElapses, TaskInv, BackoffIsVisible, TaskHonorsRetryAfter
<1>7. ASSUME NEW s \in Source, Begin(s) PROVE TaskInv'
  <2>1. s \notin limited
    BY <1>7, <1>t DEF Begin
  <2>2. \A v \in Source \cap limited : pc'[v] = pc[v]
    BY <1>7, <1>t, <2>1 DEF Begin
  <2>3. queue' \in Seq(Worker)
    BY <1>7, <1>t DEF Begin
  <2> QED BY <1>7, <1>t, <2>2, <2>3, TaskUnmoved DEF Begin
<1>8. ASSUME NEW s \in Source, Cancelled(s) PROVE TaskInv'
  <2>1. s \in Worker
    BY <1>t
  <2>2. queue' \in Seq(Worker)
    BY <1>8, <1>t, WithoutType DEF Cancelled
  <2>3. line' \in [Source -> Seq(Worker)]
    BY <1>8, <1>t, <2>1, LeaveType DEF Cancelled
  <2>4. \A v \in Source \cap limited : pc'[v] = pc[v] \/ pc'[v] = "stopped"
    BY <1>8, <1>t DEF Cancelled
  <2> QED BY <1>8, <1>t, <2>2, <2>3, <2>4, TaskUnmoved DEF Cancelled
<1>9. ASSUME NEW q \in Request, Ask(q) PROVE TaskInv'
  <2>1. Target(q) = TargetOf[q] /\ Target(q) \in Source /\ q \in Worker /\ q \notin Source
    BY SchedulerAssumption DEF Target, Worker
  <2>2. queue' \in Seq(Worker)
    BY <1>9, <1>t, <2>1 DEF Ask
  <2>3. [status |-> "connecting", failures |-> 0] \in Health
    BY SchedulerAssumption DEF Health, Statuses
  <2>4. health' \in [Source -> Health]
    BY <1>9, <2>1, <2>3 DEF Ask, TaskInv
  <2>5. BackoffIsVisible'
    BY <1>9, <2>1 DEF Ask, TaskInv, BackoffIsVisible
  <2>6. TaskHonorsRetryAfter'
    BY <1>9, <1>t, <2>1 DEF Ask, TaskHonorsRetryAfter
  <2> QED BY <1>9, <1>t, <2>2, <2>4, <2>5, <2>6 DEF Ask, TaskInv
<1>10. CASE Stop \/ StopReturns \/ UNCHANGED vars
  <2>1. phase' \in {"running", "stopping", "stopped"} /\ UNCHANGED <<pc, queue, line, failing, limited, health>>
    BY <1>10, <1>t DEF Stop, StopReturns, vars
  <2> QED BY <1>t, <2>1, TaskUnmoved
<1>11. ASSUME NEW w \in Worker, Progress(w) PROVE TaskInv'
  BY <1>11, <1>2, <1>4, <1>5 DEF Progress
<1> QED BY <1>1, <1>2, <1>6, <1>7, <1>8, <1>9, <1>10, <1>11 DEF Next

LEMMA TaskInit == Init => TaskInv
<1> SUFFICES ASSUME Init PROVE TaskInv
  OBVIOUS
<1>1. [status |-> "unknown", failures |-> 0] \in Health
  BY SchedulerAssumption DEF Health, Statuses
<1> QED BY <1>1 DEF Init, TaskInv, BackoffIsVisible, TaskHonorsRetryAfter

LEMMA TaskInvariant == Spec => []TaskInv
  BY LockHeld, TaskInit, TaskStep, PTL DEF Spec

LEMMA PermitInvariant == Spec => []PermitInv
  BY LockHeld, PermitInit, PermitStep, PTL DEF Spec

\* The scheduler's state has its types; the semaphore is never above its initial value.
THEOREM SchedulerTypeCorrect == Spec => []TypeOK
<1>1. LockInv /\ TaskInv /\ PermitInv => TypeOK
  <2> SUFFICES ASSUME LockInv, TaskInv, PermitInv PROVE TypeOK
    OBVIOUS
  <2>1. permits \in 0 .. MaxConcurrency
    BY HoldersFinite, SchedulerAssumption DEF PermitInv, PermitsConserved
  <2> QED BY <2>1 DEF LockInv, TaskInv, TypeOK, States
<1> QED BY <1>1, LockHeld, TaskInvariant, PermitInvariant, PTL

\* A source that only its task polls is never reported healthy while the task backs off
\* (ProviderHealthRegistry.failure and _run count the same failures).
THEOREM FailuresAreVisible == Spec => []BackoffIsVisible
<1>1. TaskInv => BackoffIsVisible
  BY DEF TaskInv
<1> QED BY <1>1, TaskInvariant, PTL

\* Until a Retry-After is over the task that got it sleeps: no timeout of another poll,
\* no request and no semaphore wakes it early.
THEOREM RetryAfterIsHonored == Spec => []TaskHonorsRetryAfter
<1>1. TaskInv => TaskHonorsRetryAfter
  BY DEF TaskInv
<1> QED BY <1>1, TaskInvariant, PTL
=============================================================================
