--------------------------- MODULE LiveFeed_proofs ---------------------------
(***************************************************************************)
(* Proofs about LiveFeed: the types, the announcement of overflows, the two *)
(* promises of the screen (the live state never goes back, and no snapshot  *)
(* erases a row from the newest page), and the completeness of the timeline *)
(* as long as no queue overflows and no older page is loaded.               *)
(***************************************************************************)
EXTENDS LiveFeed, SequenceTheorems, FiniteSetTheorems, WellFoundedInduction, TLAPS

-----------------------------------------------------------------------------
(* Numbers and sets of rows                                                 *)

\* A set of naturals that is not empty has a least element.
LEMMA LeastNatural ==
    ASSUME NEW S \in SUBSET Nat, S # {}
    PROVE  \E x \in S : \A y \in S : x <= y
<1> DEFINE R == OpToRel(<, Nat)
<1>1. \A x, y \in Nat : <<y, x>> \in R <=> y < x
  BY DEF OpToRel
<1>2. IsWellFoundedOn(R, Nat)
  BY NatLessThanWellFounded
<1> HIDE DEF R
<1>3. PICK x \in S : \A y \in S : ~(<<y, x>> \in R)
  BY <1>2, WFMin
<1>4. ASSUME NEW y \in S PROVE x <= y
  <2>1. x \in Nat /\ y \in Nat
    OBVIOUS
  <2>2. ~(y < x)
    BY <1>1, <1>3, <2>1
  <2> QED BY <2>1, <2>2
<1> QED BY <1>4

\* ... and, if it is bounded, a greatest one.
LEMMA GreatestNatural ==
    ASSUME NEW S \in SUBSET Nat, S # {}, NEW h \in Nat, \A x \in S : x <= h
    PROVE  \E x \in S : \A y \in S : y <= x
<1> DEFINE U == {u \in Nat : \A x \in S : x <= u}
<1>1. U \in SUBSET Nat /\ h \in U
  OBVIOUS
<1>2. PICK u \in U : \A v \in U : u <= v
  <2> HIDE DEF U
  <2> QED BY <1>1, LeastNatural
<1>3. u \in S
  <2> SUFFICES ASSUME u \notin S PROVE FALSE
    OBVIOUS
  <2>1. PICK x \in S : TRUE
    OBVIOUS
  <2>2. x \in Nat /\ x < u /\ u \in Nat
    BY <1>2, <2>1
  <2>3. u - 1 \in U
    BY <1>2, <2>2
  <2> QED BY <1>2, <2>2, <2>3
<1> QED BY <1>2, <1>3

LEMMA MaxOfIsGreatest ==
    ASSUME NEW h \in Nat, NEW S \in SUBSET (1 .. h)
    PROVE  /\ MaxOf(S) \in 0 .. h
           /\ S # {} => MaxOf(S) \in S /\ \A d \in S : d <= MaxOf(S)
<1>1. CASE S = {}
  BY <1>1 DEF MaxOf
<1>2. CASE S # {}
  <2>1. S \in SUBSET Nat /\ \A x \in S : x <= h
    OBVIOUS
  <2>2. \E c \in S : \A d \in S : d <= c
    BY <1>2, <2>1, GreatestNatural
  <2>3. MaxOf(S) \in S /\ \A d \in S : d <= MaxOf(S)
    BY <1>2, <2>2 DEF MaxOf
  <2>4. MaxOf(S) \in 1 .. h
    BY <2>3
  <2>5. MaxOf(S) \in 0 .. h
    BY <2>4
  <2> QED BY <2>3, <2>5
<1> QED BY <1>1, <1>2

LEMMA MinOfIsLeast ==
    ASSUME NEW h \in Nat, NEW S \in SUBSET (1 .. h), S # {}
    PROVE  MinOf(S) \in S /\ \A d \in S : MinOf(S) <= d
<1>1. \E c \in S : \A d \in S : c <= d
  BY LeastNatural
<1> QED BY <1>1 DEF MinOf

\* A page shows a row, or shows later rows only.
Shows(page, c) == c \in page \/ (page # {} /\ \A d \in page : c < d)

\* The newest page leaves out older rows only, and is empty only if there are none.
LEMMA NewestShows ==
    ASSUME NEW h \in Nat, NEW S \in SUBSET (1 .. h), NEW n \in Nat \ {0}, NEW c \in S
    PROVE  Shows(Newest(S, n), c)
<1> DEFINE Above(x) == {d \in S : d > x}
           top == MaxOf(S)
<1>0. \A x \in S : x \in Nat
  OBVIOUS
<1>1. IsFiniteSet(S)
  <2>1. IsFiniteSet(1 .. h)
    BY FS_Interval
  <2> QED BY <2>1, FS_Subset
<1>2. \A x : Above(x) \in SUBSET S /\ IsFiniteSet(Above(x)) /\ Cardinality(Above(x)) \in Nat
  BY <1>1, FS_Subset, FS_CardinalityType
<1>3. \A x \in S : x \in Newest(S, n) <=> Cardinality(Above(x)) < n
  BY DEF Newest
<1>4. top \in S /\ \A d \in S : d <= top
  BY MaxOfIsGreatest
<1>5. top \in Newest(S, n)
  <2>1. Above(top) = {}
    <3>1. ASSUME NEW d \in S PROVE ~(d > top)
      <4>1. top \in Nat /\ d \in Nat /\ d <= top
        BY <1>0, <1>4
      <4> HIDE DEF top
      <4> QED BY <4>1
    <3> HIDE DEF top
    <3> QED BY <3>1
  <2>2. Cardinality(Above(top)) = 0
    BY <2>1, FS_EmptySet
  <2> HIDE DEF Above, top
  <2> QED BY <1>3, <1>4, <2>2
<1>6. ASSUME c \notin Newest(S, n), NEW d \in Newest(S, n) PROVE c < d
  <2> SUFFICES ASSUME ~(c < d) PROVE FALSE
    OBVIOUS
  <2>1. d \in S /\ d < c
    BY <1>6 DEF Newest
  <2>2. Above(c) \in SUBSET Above(d)
    <3> SUFFICES ASSUME NEW e \in S, e > c PROVE e > d
      OBVIOUS
    <3>1. e \in Nat /\ c \in Nat /\ d \in Nat
      BY <1>0, <2>1
    <3> QED BY <2>1, <3>1
  <2>3. Cardinality(Above(c)) <= Cardinality(Above(d))
    <3> HIDE DEF Above
    <3> QED BY <1>2, <2>2, FS_Subset
  <2> HIDE DEF Above
  <2> QED BY <1>2, <1>3, <1>6, <2>1, <2>3
<1> QED BY <1>5, <1>6 DEF Shows

-----------------------------------------------------------------------------
(* The inductive invariant                                                  *)

\* Live state a is not newer than b.
Below(a, b) == a.match < b.match \/ (a.match = b.match /\ a.version <= b.version)

\* The messages that a server in state st with h rows can have sent.
Known(h, st) ==
    {Gap} \cup {m \in [type : {"timeline.item"}, cursor : 1 .. h, state : LiveStates \cup {None}] :
                  m.state # None => Below(m.state, st)}

Fetches(h) == [kind : Kinds, full : BOOLEAN, dead : BOOLEAN, state : LiveStates \cup {Unread},
               mark : (0 .. h) \cup {Unread}, page : (SUBSET (1 .. h)) \cup {Unread}]
Olders(h)  == [before : 1 .. h, page : (SUBSET (1 .. h)) \cup {Unread}]

Announced(q) == \E i \in 1 .. Len(q) : q[i] = Gap

ServerInv ==
    /\ head \in 0 .. MaxRows
    /\ rows \subseteq 1 .. head /\ demo \subseteq rows
    /\ state \in LiveStates /\ state.match <= resets /\ state.version <= head
    /\ resetting \in BOOLEAN /\ resets \in 0 .. MaxResets
    /\ unsent \in Known(head, state) \cup {None}

\* Without a handler there is no queue, and nothing is owed to the client.
SocketInv ==
    /\ link \in {"none", "up", "cut"} /\ handler \in {"none", "accepted", "live"}
    /\ queue \in Seq(Known(head, state)) /\ Len(queue) <= QueueSize
    /\ wire \in Seq(Known(head, state))
    /\ lost \subseteq 1 .. head
    /\ handler = "none" => queue = <<>> /\ lost = {}
    /\ link # "up" => handler = "none"
    /\ lost # {} => Announced(queue) \/ Announced(wire)

ViewInv ==
    /\ pc \in {"sync", "opening", "open", "waiting"}
    /\ connection \in {"CONNECTING", "LIVE", "RECONNECTING", "RESYNCING", "DEGRADED"}
    /\ asked \in 0 .. head /\ cursor \in 0 .. head /\ timeline \subseteq 1 .. head
    /\ live \in LiveStates /\ Below(live, state)
    /\ hasOlder \in BOOLEAN /\ stale \in [Kinds -> Nat]
    /\ older \in Olders(head) \cup {None}
    /\ older # None /\ older.page # Unread => \A c \in older.page : c < older.before

\* A snapshot that will be applied is newer than what it replaces: its state is not below
\* the one on the screen, and its page shows the rows, if they still exist, up to the last
\* one on the screen and those that a page of older rows can bring.
FetchInv ==
    /\ fresh \in Fetches(head) \cup {None}
    /\ fresh # None /\ fresh.state # Unread
          => Below(live, fresh.state) /\ Below(fresh.state, state)
    /\ fresh # None /\ fresh.page # Unread =>
          \A c \in rows :
              (\E b \in timeline : c <= b) \/ (older # None /\ c < older.before)
                  => Shows(fresh.page, c)

FeedInv == ServerInv /\ SocketInv /\ ViewInv /\ FetchInv

LEMMA BelowOrders ==
    /\ \A a \in LiveStates : Below(a, a)
    /\ \A a, b, c \in LiveStates : Below(a, b) /\ Below(b, c) => Below(a, c)
<1>1. \A a \in LiveStates : a.match \in Int /\ a.version \in Int
  BY FeedAssumption DEF LiveStates
<1> QED BY <1>1 DEF Below

\* What was known stays known.
LEMMA KnownGrows ==
    ASSUME NEW h \in Nat, NEW g \in Nat, h <= g,
           NEW a \in LiveStates, NEW b \in LiveStates, Below(a, b)
    PROVE  /\ Known(h, a) \subseteq Known(g, b)
           /\ Seq(Known(h, a)) \subseteq Seq(Known(g, b))
           /\ Fetches(h) \subseteq Fetches(g) /\ Olders(h) \subseteq Olders(g)
<1>0. 1 .. h \subseteq 1 .. g /\ 0 .. h \subseteq 0 .. g
  OBVIOUS
<1>1. Known(h, a) \subseteq Known(g, b)
  <2> SUFFICES ASSUME NEW m \in Known(h, a), m # Gap PROVE m \in Known(g, b)
    BY DEF Known
  <2>1. /\ m \in [type : {"timeline.item"}, cursor : 1 .. h, state : LiveStates \cup {None}]
        /\ m.state # None => Below(m.state, a)
    BY DEF Known
  <2>2. m \in [type : {"timeline.item"}, cursor : 1 .. g, state : LiveStates \cup {None}]
    BY <1>0, <2>1
  <2>3. m.state # None => Below(m.state, b)
    BY <2>1, BelowOrders
  <2> QED BY <2>2, <2>3 DEF Known
<1>2. Seq(Known(h, a)) \subseteq Seq(Known(g, b))
  <2> HIDE DEF Known
  <2> SUFFICES ASSUME NEW q \in Seq(Known(h, a)) PROVE q \in Seq(Known(g, b))
    OBVIOUS
  <2>1. \A i \in 1 .. Len(q) : q[i] \in Known(g, b)
    BY <1>1
  <2> QED BY <2>1
<1>3. SUBSET (1 .. h) \subseteq SUBSET (1 .. g)
  BY <1>0
<1>4. Fetches(h) \subseteq Fetches(g)
  BY <1>0, <1>3 DEF Fetches
<1>5. Olders(h) \subseteq Olders(g)
  BY <1>0, <1>3 DEF Olders
<1> QED BY <1>1, <1>2, <1>4, <1>5

LEMMA KnownMessages ==
    ASSUME NEW h \in Nat, NEW st
    PROVE  /\ Gap \in Known(h, st)
           /\ \A m \in Known(h, st) : m # Gap =>
                 /\ m.cursor \in 1 .. h /\ m.state \in LiveStates \cup {None}
                 /\ m.state # None => Below(m.state, st)
           /\ \A c \in 1 .. h : Item(c, None) \in Known(h, st) /\ Item(c, None) # Gap
<1>1. Gap \in Known(h, st)
  BY DEF Known
<1>2. \A m \in Known(h, st) : m # Gap =>
                 /\ m.cursor \in 1 .. h /\ m.state \in LiveStates \cup {None}
                 /\ m.state # None => Below(m.state, st)
  BY DEF Known
<1>3. ASSUME NEW c \in 1 .. h PROVE Item(c, None) \in Known(h, st) /\ Item(c, None) # Gap
  <2>1. Item(c, None) \in [type : {"timeline.item"}, cursor : 1 .. h, state : LiveStates \cup {None}]
        /\ Item(c, None).state = None
    BY DEF Item
  <2>2. Item(c, None).type = "timeline.item" /\ Gap.type = "resync_required"
    BY DEF Item, Gap
  <2> QED BY <2>1, <2>2 DEF Known
<1> QED BY <1>1, <1>2, <1>3

-----------------------------------------------------------------------------
(* The server                                                               *)

\* The log grows, the state moves on, and a row that is gone does not come back.
Forth ==
    /\ head \in Nat /\ head' \in Nat /\ head <= head' /\ Below(state, state')
    /\ \A c \in rows' : c \in rows \/ c > head

LEMMA ServerStep ==
    ASSUME FeedInv, [Next]_vars
    PROVE  ServerInv' /\ Forth
<1>t. ServerInv
  BY DEF FeedInv
<1>n. /\ head \in Nat /\ MaxRows \in Nat /\ resets \in Nat /\ MaxResets \in Nat
      /\ \A a \in LiveStates : a.match \in 0 .. MaxResets /\ a.version \in 0 .. MaxRows
  BY <1>t, FeedAssumption DEF ServerInv, LiveStates
<1>1. CASE UNCHANGED <<head, rows, demo, state, resetting, resets>> /\ unsent' \in {unsent, None}
  BY <1>1, <1>n, <1>t, BelowOrders DEF ServerInv, Forth, Known, Below
<1>2. ASSUME NEW football \in BOOLEAN, Project(football)
      PROVE  ServerInv' /\ Forth
  <2>1. /\ head < MaxRows /\ head' = head + 1 /\ rows' = rows \cup {head + 1}
        /\ demo' = IF football THEN demo \cup {head + 1} ELSE demo
        /\ state' = IF football THEN [match |-> resets, version |-> head + 1] ELSE state
        /\ unsent' = Item(head + 1, IF football THEN state' ELSE None)
        /\ UNCHANGED <<resetting, resets>>
    BY <1>2 DEF Project
  <2>2. state' \in LiveStates /\ state'.match <= resets /\ state'.version <= head + 1
    BY <1>n, <1>t, <2>1 DEF ServerInv, LiveStates
  <2>3. Below(state, state')
    <3>1. CASE football
      BY <1>n, <1>t, <2>1, <3>1 DEF ServerInv, Below
    <3>2. CASE ~football
      BY <1>t, <2>1, <3>2, BelowOrders DEF ServerInv
    <3> QED BY <3>1, <3>2
  <2>4. unsent' \in Known(head + 1, state')
    <3> DEFINE st == IF football THEN state' ELSE None
    <3>1. st \in LiveStates \cup {None} /\ (st # None => Below(st, state'))
      BY <2>2, BelowOrders
    <3>2. head + 1 \in 1 .. head + 1
      BY <1>n
    <3> HIDE DEF st
    <3>3. Item(head + 1, st) \in [type : {"timeline.item"}, cursor : 1 .. head + 1,
                                  state : LiveStates \cup {None}] /\ Item(head + 1, st).state = st
      BY <3>1, <3>2 DEF Item
    <3>4. unsent' = Item(head + 1, st)
      BY <2>1 DEF st
    <3> QED BY <3>1, <3>3, <3>4 DEF Known
  <2>5. head' \in 0 .. MaxRows /\ rows' \subseteq 1 .. head' /\ demo' \subseteq rows'
    BY <1>n, <1>t, <2>1 DEF ServerInv
  <2>6. Forth
    BY <1>n, <2>1, <2>3 DEF Forth
  <2> QED BY <1>t, <2>1, <2>2, <2>4, <2>5, <2>6 DEF ServerInv
<1>3. CASE ResetDemo
  <2>1. /\ resets < MaxResets /\ rows' = rows \ demo /\ demo' = {} /\ resets' = resets + 1
        /\ state' = [match |-> resets + 1, version |-> 0] /\ resetting' = TRUE
        /\ head' = head /\ unsent' = unsent
    BY <1>3 DEF ResetDemo
  <2>2. state' \in LiveStates /\ state'.match <= resets' /\ state'.version <= head
    BY <1>n, <2>1 DEF LiveStates
  <2>3. Below(state, state')
    BY <1>n, <1>t, <2>1 DEF ServerInv, Below
  <2>4. unsent' \in Known(head', state') \cup {None}
    BY <1>n, <1>t, <2>1, <2>2, <2>3, KnownGrows DEF ServerInv
  <2>5. Forth
    BY <1>n, <2>1, <2>3 DEF Forth
  <2> QED BY <1>n, <1>t, <2>1, <2>2, <2>4, <2>5 DEF ServerInv
<1>4. CASE PublishReset \/ BackendRestart
  <2>1. UNCHANGED <<head, rows, demo, state, resets>> /\ resetting' = FALSE /\ unsent' \in {unsent, None}
    BY <1>4 DEF PublishReset, BackendRestart
  <2>2. Forth
    BY <1>n, <1>t, <2>1, BelowOrders DEF ServerInv, Forth
  <2>3. Known(head, state)' = Known(head, state)
    BY <2>1 DEF Known, Below
  <2> QED BY <1>t, <2>1, <2>2, <2>3 DEF ServerInv
<1>5. CASE PublishItem \/ Accept \/ Replay \/ Forward \/ CutLink \/ ReadState \/ ReadTimeline
              \/ ReadOlder \/ UNCHANGED vars
  <2>1. UNCHANGED <<head, rows, demo, state, resetting, resets>> /\ unsent' \in {unsent, None}
    BY <1>5 DEF PublishItem, Accept, Replay, Forward, CutLink, ReadState, ReadTimeline,
                ReadOlder, vars, serverVars
  <2> QED BY <1>1, <2>1
<1>6. CASE Browser
  <2>1. UNCHANGED serverVars
    BY <1>6 DEF Browser, FetchEnds, FetchFails, SupersededEnds, Refresh, LoadOlder, OlderEnds,
                OlderFails, OnOpen, OnResync, OnItem, OnDuplicate, OnClose, OpenFails, Reconnect
  <2> QED BY <1>1, <2>1 DEF serverVars
<1> QED BY <1>2, <1>3, <1>4, <1>5, <1>6 DEF Next, Server

-----------------------------------------------------------------------------
(* The socket                                                               *)

LEMMA AnnouncedByAppend ==
    ASSUME NEW T, NEW q \in Seq(T), NEW m \in T
    PROVE  /\ Announced(q) => Announced(Append(q, m))
           /\ m = Gap => Announced(Append(q, m))
<1>1. /\ Len(Append(q, m)) = Len(q) + 1
      /\ \A i \in 1 .. Len(q) : Append(q, m)[i] = q[i]
      /\ Append(q, m)[Len(q) + 1] = m
  BY AppendProperties
<1>2. Len(q) \in Nat /\ 1 .. Len(q) \subseteq 1 .. Len(q) + 1 /\ Len(q) + 1 \in 1 .. Len(q) + 1
  OBVIOUS
<1> QED BY <1>1, <1>2 DEF Announced

LEMMA AnnouncedByTail ==
    ASSUME NEW T, NEW q \in Seq(T), q # <<>>
    PROVE  /\ Head(q) \in T /\ Tail(q) \in Seq(T) /\ Len(Tail(q)) = Len(q) - 1
           /\ Announced(q) /\ Head(q) # Gap => Announced(Tail(q))
<1>1. Head(q) \in T /\ Head(q) = q[1] /\ Tail(q) \in Seq(T) /\ Len(Tail(q)) = Len(q) - 1
  BY HeadTailProperties
<1>2. \A i \in 1 .. Len(q) - 1 : Tail(q)[i] = q[i + 1]
  BY HeadTailProperties
<1>3. ASSUME NEW i \in 1 .. Len(q), q[i] = Gap, Head(q) # Gap
      PROVE  Announced(Tail(q))
  <2>1. i # 1 /\ i - 1 \in 1 .. Len(q) - 1
    BY <1>1, <1>3
  <2>2. Tail(q)[i - 1] = Gap
    BY <1>2, <1>3, <2>1
  <2> QED BY <1>1, <2>1, <2>2 DEF Announced
<1> QED BY <1>1, <1>3 DEF Announced

LEMMA AnnouncedByConcat ==
    ASSUME NEW T, NEW q \in Seq(T), NEW p \in Seq(T)
    PROVE  /\ q \o p \in Seq(T)
           /\ Announced(q) \/ Announced(p) => Announced(q \o p)
<1>1. /\ q \o p \in Seq(T) /\ Len(q \o p) = Len(q) + Len(p)
      /\ \A i \in 1 .. Len(q) + Len(p) :
            (q \o p)[i] = IF i <= Len(q) THEN q[i] ELSE p[i - Len(q)]
  BY ConcatProperties
<1>2. ASSUME NEW i \in 1 .. Len(q), q[i] = Gap PROVE Announced(q \o p)
  <2>1. i \in 1 .. Len(q) + Len(p) /\ i <= Len(q)
    OBVIOUS
  <2> QED BY <1>1, <1>2, <2>1 DEF Announced
<1>3. ASSUME NEW i \in 1 .. Len(p), p[i] = Gap PROVE Announced(q \o p)
  <2>1. Len(q) + i \in 1 .. Len(q) + Len(p) /\ ~(Len(q) + i <= Len(q)) /\ Len(q) + i - Len(q) = i
    OBVIOUS
  <2> QED BY <1>1, <1>3, <2>1 DEF Announced
<1> QED BY <1>1, <1>2, <1>3 DEF Announced

\* An overflow that throws a request to resynchronise out of the queue puts another in.
LEMMA PublishStep ==
    ASSUME ServerInv, SocketInv, NEW m \in Known(head, state), Publish(m),
           UNCHANGED <<link, handler, wire, head, state>>
    PROVE  SocketInv'
<1> DEFINE K == Known(head, state)
<1>0. K' = K
  BY DEF Known, Below
<1>1. /\ queue \in Seq(K) /\ wire \in Seq(K) /\ Len(queue) <= QueueSize /\ lost \subseteq 1 .. head
      /\ head \in Nat /\ QueueSize \in Nat \ {0} /\ m \in K /\ Gap \in K
  BY FeedAssumption, KnownMessages DEF ServerInv, SocketInv
<1> HIDE DEF K
<1>2. CASE handler = "none"
  BY <1>0, <1>1, <1>2 DEF SocketInv, Publish, K
<1>3. CASE handler # "none" /\ Len(queue) >= QueueSize
  <2>1. queue' = Append(Tail(queue), Gap) /\ lost' = lost \cup CursorsOf({Head(queue), m})
    BY <1>3 DEF Publish
  <2>2. queue # <<>>
    BY <1>1, <1>3
  <2>3. Head(queue) \in K /\ Tail(queue) \in Seq(K) /\ Len(Tail(queue)) = Len(queue) - 1
    BY <1>1, <2>2, AnnouncedByTail
  <2>4. queue' \in Seq(K) /\ Len(queue') = Len(queue) /\ Announced(queue')
    <3>1. Announced(Append(Tail(queue), Gap))
      BY <1>1, <2>3, AnnouncedByAppend
    <3> QED BY <1>1, <2>1, <2>3, <3>1, AppendProperties
  <2>5. lost' \subseteq 1 .. head
    <3>1. \A x \in K : x # Gap => x.cursor \in 1 .. head
      BY <1>1, KnownMessages DEF K
    <3> QED BY <1>1, <2>1, <2>3, <3>1 DEF CursorsOf
  <2> QED BY <1>0, <1>1, <1>3, <2>4, <2>5 DEF SocketInv, Publish, K
<1>4. CASE handler # "none" /\ ~(Len(queue) >= QueueSize)
  <2>1. queue' = Append(queue, m) /\ lost' = lost
    BY <1>4 DEF Publish
  <2>2. queue' \in Seq(K) /\ Len(queue') = Len(queue) + 1
    BY <1>1, <2>1, AppendProperties
  <2>3. Announced(queue) => Announced(queue')
    BY <1>1, <2>1, AnnouncedByAppend
  <2>4. Len(queue') <= QueueSize
    BY <1>1, <1>4, <2>2
  <2>5. lost' # {} => Announced(queue') \/ Announced(wire)
    BY <2>1, <2>3 DEF SocketInv
  <2> QED BY <1>0, <1>1, <1>4, <2>1, <2>2, <2>4, <2>5 DEF SocketInv, K, Announced
<1> QED BY <1>2, <1>3, <1>4

LEMMA SocketStep ==
    ASSUME FeedInv, [Next]_vars
    PROVE  SocketInv'
<1>t. ServerInv /\ SocketInv /\ ServerInv' /\ Forth
  BY ServerStep DEF FeedInv
<1> DEFINE K == Known(head, state)
           K2 == Known(head', state')
<1>0. /\ K \subseteq K2 /\ Seq(K) \subseteq Seq(K2) /\ Gap \in K2 /\ 1 .. head \subseteq 1 .. head'
      /\ K' = K2 /\ head \in Nat
  <2>1. head \in Nat /\ head' \in Nat /\ head <= head' /\ state \in LiveStates /\ state' \in LiveStates
        /\ Below(state, state')
    BY <1>t DEF ServerInv, Forth
  <2>2. K' = K2
    OBVIOUS
  <2>3. 1 .. head \subseteq 1 .. head'
    BY <2>1
  <2> QED BY <2>1, <2>2, <2>3, KnownGrows, KnownMessages
<1>1. /\ queue \in Seq(K) /\ wire \in Seq(K) /\ Len(queue) <= QueueSize /\ lost \subseteq 1 .. head
      /\ lost # {} => Announced(queue) \/ Announced(wire)
  BY <1>t DEF SocketInv
<1>e. <<>> \in Seq(K2) /\ <<>> \in Seq(K) /\ Len(<<>>) <= QueueSize
  BY FeedAssumption
<1> HIDE DEF K, K2
\* The socket is left alone.
<1>2. CASE UNCHANGED <<link, handler, queue, wire, lost>>
  BY <1>0, <1>1, <1>2, <1>t DEF SocketInv, Announced, K, K2
<1>3. CASE PublishItem
  <2>1. unsent \in Known(head, state) /\ Publish(unsent) /\ UNCHANGED <<link, handler, wire, head, state>>
    BY <1>3, <1>t DEF PublishItem, ServerInv
  <2> QED BY <1>t, <2>1, PublishStep
<1>4. CASE PublishReset
  <2>1. Gap \in Known(head, state) /\ Publish(Gap) /\ UNCHANGED <<link, handler, wire, head, state>>
    BY <1>0, <1>4, KnownMessages DEF PublishReset
  <2> QED BY <1>t, <2>1, PublishStep
<1>5. CASE Accept
  <2>1. link' = "up" /\ handler' = "accepted" /\ queue' = <<>> /\ wire' = <<>> /\ lost' = {}
    BY <1>5 DEF Accept
  <2> QED BY <1>0, <1>e, <2>1 DEF SocketInv, K, K2
<1>6. CASE Replay
  <2> DEFINE S == {c \in rows : c > asked}
  <2>0. handler = "accepted" /\ handler' = "live" /\ UNCHANGED <<link, queue, lost, head, state>>
    BY <1>6 DEF Replay, serverVars
  <2>1. ASSUME wire' \in Seq(K), Announced(wire) => Announced(wire')
        PROVE  SocketInv'
    <3>1. lost' # {} => Announced(queue)' \/ Announced(wire)'
      BY <1>1, <2>0, <2>1 DEF Announced
    <3> QED BY <1>0, <1>1, <1>t, <2>0, <2>1, <3>1 DEF SocketInv, K, K2
  <2>2. CASE wire' = Append(wire, Gap)
    <3>1. Gap \in K
      BY <1>0, KnownMessages DEF K
    <3>2. wire' \in Seq(K)
      BY <1>1, <2>2, <3>1, AppendProperties
    <3>3. Announced(wire) => Announced(wire')
      BY <1>1, <2>2, <3>1, AnnouncedByAppend
    <3> QED BY <2>1, <3>2, <3>3
  <2>3. ASSUME NEW due \in InOrder(S), wire' = wire \o [i \in DOMAIN due |-> Item(due[i], None)]
        PROVE  SocketInv'
    <3> DEFINE sent == [i \in DOMAIN due |-> Item(due[i], None)]
    <3>1. S \in SUBSET (1 .. head)
      BY <1>t DEF ServerInv
    <3>2. Cardinality(S) \in Nat
      <4> HIDE DEF S
      <4>1. IsFiniteSet(1 .. head)
        BY <1>0, FS_Interval
      <4> QED BY <3>1, <4>1, FS_Subset, FS_CardinalityType
    <3>3. due \in [1 .. Cardinality(S) -> S]
      BY DEF InOrder
    <3>4. \A i \in DOMAIN due : Item(due[i], None) \in K
      BY <1>0, <3>1, <3>3, KnownMessages DEF K
    <3>5. sent \in Seq(K)
      <4> HIDE DEF S
      <4>1. sent \in [1 .. Cardinality(S) -> K]
        BY <3>3, <3>4
      <4> QED BY <3>2, <4>1
    <3> HIDE DEF sent
    <3>6. wire' = wire \o sent
      BY <2>3 DEF sent
    <3>7. wire' \in Seq(K) /\ (Announced(wire) => Announced(wire'))
      BY <1>1, <3>5, <3>6, AnnouncedByConcat
    <3> QED BY <2>1, <3>7
  <2> QED BY <1>6, <2>2, <2>3 DEF Replay
<1>7. CASE Forward
  <2>1. /\ handler = "live" /\ queue # <<>> /\ wire' = Append(wire, Head(queue)) /\ queue' = Tail(queue)
        /\ UNCHANGED <<link, handler, lost, head, state>>
    BY <1>7 DEF Forward, serverVars
  <2>2. /\ Head(queue) \in K /\ Tail(queue) \in Seq(K) /\ Len(Tail(queue)) = Len(queue) - 1
        /\ Announced(queue) /\ Head(queue) # Gap => Announced(Tail(queue))
    BY <1>1, <2>1, AnnouncedByTail
  <2>3. /\ wire' \in Seq(K)
        /\ Announced(wire) => Announced(wire')
        /\ Head(queue) = Gap => Announced(wire')
    BY <1>1, <2>1, <2>2, AppendProperties, AnnouncedByAppend
  <2>4. lost' # {} => Announced(queue') \/ Announced(wire')
    BY <1>1, <2>1, <2>2, <2>3
  <2>5. Len(queue') <= QueueSize
    BY <1>1, <2>1, <2>2, FeedAssumption
  <2> QED BY <1>0, <1>1, <1>t, <2>1, <2>2, <2>3, <2>4, <2>5 DEF SocketInv, Announced, K, K2
<1>8. CASE CutLink \/ BackendRestart
  <2>1. Unsubscribed /\ wire' = wire /\ UNCHANGED <<head, state>>
    BY <1>8 DEF CutLink, BackendRestart, serverVars
  <2>2. handler' = "none" /\ queue' = <<>> /\ lost' = {} /\ link' = IF link = "up" THEN "cut" ELSE link
    BY <2>1 DEF Unsubscribed
  <2> QED BY <1>0, <1>1, <1>e, <1>t, <2>1, <2>2 DEF SocketInv, K, K2
<1>9. CASE OnResync
  <2>1. wire # <<>> /\ wire' = Tail(wire) /\ lost' = {} /\ UNCHANGED <<link, handler, queue, head, state>>
    BY <1>9 DEF OnResync, serverVars
  <2>2. Tail(wire) \in Seq(K)
    BY <1>1, <2>1, AnnouncedByTail
  <2> QED BY <1>0, <1>1, <1>t, <2>1, <2>2 DEF SocketInv, K, K2
<1>10. CASE OnItem \/ OnDuplicate
  <2>1. /\ wire # <<>> /\ Head(wire) # Gap /\ wire' = Tail(wire)
        /\ UNCHANGED <<link, handler, queue, lost, head, state>>
    BY <1>10 DEF OnItem, OnDuplicate, serverVars
  <2>2. Tail(wire) \in Seq(K) /\ (Announced(wire) => Announced(Tail(wire)))
    BY <1>1, <2>1, AnnouncedByTail
  <2>3. lost' # {} => Announced(queue)' \/ Announced(wire)'
    BY <1>1, <2>1, <2>2 DEF Announced
  <2> QED BY <1>0, <1>1, <1>t, <2>1, <2>2, <2>3 DEF SocketInv, K, K2
<1>11. CASE OnClose
  <2>1. /\ link = "cut" /\ link' = "none" /\ wire' = <<>>
        /\ UNCHANGED <<handler, queue, lost, head, state>>
    BY <1>11 DEF OnClose, serverVars
  <2>2. handler = "none" /\ lost = {}
    BY <1>t, <2>1 DEF SocketInv
  <2> QED BY <1>0, <1>1, <1>e, <1>t, <2>1, <2>2 DEF SocketInv, K, K2
<1>12. CASE (\E football \in BOOLEAN : Project(football)) \/ ResetDemo \/ ReadState \/ ReadTimeline
               \/ ReadOlder \/ UNCHANGED vars
  <2>1. UNCHANGED <<link, handler, queue, wire, lost>>
    BY <1>12 DEF Project, ResetDemo, ReadState, ReadTimeline, ReadOlder, vars, socketVars
  <2> QED BY <1>2, <2>1
<1>13. CASE FetchEnds \/ FetchFails \/ (\E kind \in Kinds, ok \in BOOLEAN : SupersededEnds(kind, ok))
               \/ (\E kind \in {"plain", "user"} : Refresh(kind)) \/ LoadOlder \/ OlderEnds
               \/ OlderFails \/ OnOpen \/ OpenFails \/ Reconnect
  <2>1. UNCHANGED <<link, handler, queue, wire, lost>>
    BY <1>13 DEF FetchEnds, FetchFails, SupersededEnds, Refresh, LoadOlder, OlderEnds, OlderFails,
                 OnOpen, OpenFails, Reconnect, socketVars
  <2> QED BY <1>2, <2>1
<1> QED BY <1>3, <1>4, <1>5, <1>6, <1>7, <1>8, <1>9, <1>10, <1>11, <1>12, <1>13
        DEF Next, Server, Browser

-----------------------------------------------------------------------------
(* The browser                                                              *)

\* What the screen says of the match afterwards.
LEMMA MergesGoForth ==
    ASSUME NEW a \in LiveStates, NEW b \in LiveStates
    PROVE  /\ mergeLiveState(a, b) \in {a, b} /\ mergeRealtimeState(a, b) \in {a, b}
           /\ Below(a, b) => Below(a, mergeLiveState(a, b))
           /\ Below(a, mergeRealtimeState(a, b))
<1>1. a.match \in Int /\ a.version \in Int /\ b.match \in Int /\ b.version \in Int
  BY FeedAssumption DEF LiveStates
<1> QED BY <1>1 DEF Below, mergeLiveState, mergeRealtimeState

LEMMA FetchFields ==
    ASSUME NEW h \in Nat
    PROVE  /\ \A f \in Fetches(h) :
                 /\ f.kind \in Kinds /\ f.full \in BOOLEAN /\ f.state \in LiveStates \cup {Unread}
                 /\ f.mark \in (0 .. h) \cup {Unread} /\ f.page \in (SUBSET (1 .. h)) \cup {Unread}
           /\ \A k \in Kinds, full \in BOOLEAN :
                 /\ NewFetch(k, full) \in Fetches(h)
                 /\ NewFetch(k, full).state = Unread /\ NewFetch(k, full).page = Unread
  BY DEF Fetches, NewFetch

\* A snapshot or a notification replaces the live state by one that is not older.
LiveStep == live' \in LiveStates /\ Below(live, live') /\ Below(live', state')

LEMMA LiveAlone ==
    ASSUME FeedInv, [Next]_vars, live' = live
    PROVE  LiveStep
  BY ServerStep, BelowOrders DEF FeedInv, ServerInv, ViewInv, Forth, LiveStep

LEMMA FetchEndsLive ==
    ASSUME FeedInv, FetchEnds
    PROVE  LiveStep
<1>1. /\ fresh \in Fetches(head) /\ head \in Nat /\ live \in LiveStates /\ state \in LiveStates
      /\ Below(live, state) /\ fresh.state # Unread /\ live' = mergeLiveState(live, fresh.state)
      /\ state' = state /\ Below(live, fresh.state) /\ Below(fresh.state, state)
  BY FeedAssumption DEF FeedInv, ServerInv, ViewInv, FetchInv, FetchEnds, serverVars
<1>2. fresh.state \in LiveStates
  BY <1>1, FetchFields
<1> QED BY <1>1, <1>2, MergesGoForth DEF LiveStep

LEMMA OnItemLive ==
    ASSUME FeedInv, OnItem
    PROVE  LiveStep /\ Head(wire).cursor \in 1 .. head
<1>1. /\ wire # <<>> /\ wire \in Seq(Known(head, state)) /\ Head(wire) # Gap
      /\ head \in Nat /\ live \in LiveStates /\ state \in LiveStates /\ Below(live, state)
      /\ state' = state
      /\ live' = IF Head(wire).state = None THEN live ELSE mergeRealtimeState(live, Head(wire).state)
  BY FeedAssumption DEF FeedInv, ServerInv, SocketInv, ViewInv, OnItem, serverVars
<1>2. Head(wire) \in Known(head, state)
  BY <1>1, HeadTailProperties
<1> DEFINE m == Head(wire)
<1> HIDE DEF m
<1>3. /\ m.cursor \in 1 .. head /\ m.state \in LiveStates \cup {None}
      /\ m.state # None => Below(m.state, state)
  BY <1>1, <1>2, KnownMessages DEF m
<1>4. LiveStep
  BY <1>1, <1>3, MergesGoForth, BelowOrders DEF LiveStep, m
<1> QED BY <1>3, <1>4 DEF m

LEMMA ViewStep ==
    ASSUME FeedInv, [Next]_vars
    PROVE  ViewInv' /\ LiveStep
<1>t. ServerInv /\ SocketInv /\ ViewInv /\ FetchInv /\ ServerInv' /\ Forth
  BY ServerStep DEF FeedInv
<1>0. /\ head \in Nat /\ 0 .. head \subseteq 0 .. head' /\ 1 .. head \subseteq 1 .. head'
      /\ Olders(head) \subseteq Olders(head')
  <2>1. head \in Nat /\ head' \in Nat /\ head <= head' /\ state \in LiveStates /\ state' \in LiveStates
        /\ Below(state, state')
    BY <1>t DEF ServerInv, Forth
  <2> QED BY <2>1, KnownGrows
\* The parts of the view; those that a step leaves alone stay good.
<1> DEFINE Control == /\ pc \in {"sync", "opening", "open", "waiting"}
                      /\ connection \in {"CONNECTING", "LIVE", "RECONNECTING", "RESYNCING", "DEGRADED"}
                      /\ stale \in [Kinds -> Nat]
           Screen == /\ cursor \in 0 .. head /\ timeline \subseteq 1 .. head /\ hasOlder \in BOOLEAN
           OlderPage == /\ older \in Olders(head) \cup {None}
                        /\ older # None /\ older.page # Unread
                              => \A c \in older.page : c < older.before
<1>1. Control /\ Screen /\ OlderPage /\ asked \in 0 .. head
  BY <1>t DEF ViewInv
<1>2. UNCHANGED <<pc, connection, stale>> => Control'
  BY <1>1
<1>3. UNCHANGED <<cursor, timeline, hasOlder>> => Screen'
  BY <1>0, <1>1
<1>4. UNCHANGED older => OlderPage'
  BY <1>0, <1>1
<1>5. asked' \in {asked} \cup (0 .. head) => asked' \in 0 .. head'
  BY <1>0, <1>1
<1>6. LiveStep /\ Control' /\ Screen' /\ OlderPage' /\ asked' \in 0 .. head' => ViewInv' /\ LiveStep
  BY DEF ViewInv, LiveStep
<1>f. fresh # None => fresh.kind \in Kinds /\ stale[fresh.kind] + 1 \in Nat
  BY <1>0, <1>1, <1>t, FetchFields DEF FetchInv
<1>s. \A kind, full : StartFetch(kind, full) => stale' \in [Kinds -> Nat]
  BY <1>1, <1>f DEF StartFetch
\* Continue
<1>c. ASSUME NEW kind, NEW ok, Continue(kind, ok), cursor' \in 0 .. head', stale' \in [Kinds -> Nat],
             head' = head
      PROVE  Control' /\ asked' \in 0 .. head'
  BY <1>1, <1>c DEF Continue
<1> HIDE DEF Control, Screen, OlderPage
<1>7. CASE UNCHANGED <<pc, connection, stale, cursor, timeline, live, hasOlder, older, asked>>
  BY <1>2, <1>3, <1>4, <1>5, <1>6, <1>7, LiveAlone
<1>8. CASE FetchEnds
  <2>1. /\ Continue(fresh.kind, TRUE) /\ UNCHANGED <<stale, older, head>> /\ fresh \in Fetches(head)
        /\ fresh.full => fresh.mark # Unread /\ fresh.page # Unread
        /\ IF fresh.full
           THEN /\ timeline' = fresh.page
                /\ hasOlder' = (Cardinality(fresh.page) >= Page)
                /\ cursor' = Larger(cursor, Larger(fresh.mark, MaxOf(fresh.page)))
           ELSE UNCHANGED <<timeline, hasOlder, cursor>>
    BY <1>8, <1>t DEF FetchEnds, FetchInv, serverVars
  <2>2. Screen'
    <3>1. CASE ~fresh.full
      BY <1>3, <2>1, <3>1
    <3>2. CASE fresh.full
      <4>1. fresh.mark \in 0 .. head /\ fresh.page \in SUBSET (1 .. head)
        BY <1>0, <2>1, <3>2, FetchFields
      <4>2. MaxOf(fresh.page) \in 0 .. head
        BY <1>0, <4>1, MaxOfIsGreatest
      <4>3. cursor' \in 0 .. head
        BY <1>0, <1>1, <2>1, <3>2, <4>1, <4>2 DEF Larger, Screen
      <4> QED BY <2>1, <3>2, <4>1, <4>3 DEF Screen
    <3> QED BY <2>1, <3>1, <3>2
  <2>3. Control' /\ asked' \in 0 .. head'
    BY <1>1, <1>c, <2>1, <2>2 DEF Screen, Control
  <2> QED BY <1>4, <1>6, <1>8, <2>1, <2>2, <2>3, FetchEndsLive
<1>9. CASE FetchFails \/ \E kind \in Kinds, ok \in BOOLEAN : SupersededEnds(kind, ok)
  <2>1. PICK kind, ok : Continue(kind, ok)
    BY <1>9 DEF FetchFails, SupersededEnds
  <2>2. UNCHANGED <<cursor, timeline, live, hasOlder, older, head>>
    BY <1>9 DEF FetchFails, SupersededEnds, viewVars, serverVars
  <2>3. stale' \in [Kinds -> Nat]
    <3>1. CASE FetchFails
      BY <1>1, <3>1 DEF FetchFails, Control
    <3>2. ASSUME NEW k \in Kinds, NEW o \in BOOLEAN, SupersededEnds(k, o)
          PROVE  stale' \in [Kinds -> Nat]
      <4>1. stale[k] \in Nat /\ stale[k] > 0 /\ stale' = [stale EXCEPT ![k] = stale[k] - 1]
            /\ stale \in [Kinds -> Nat]
        BY <1>1, <3>2 DEF SupersededEnds, Control
      <4>2. stale[k] - 1 \in Nat
        BY <4>1
      <4> QED BY <4>1, <4>2
    <3> QED BY <1>9, <3>1, <3>2
  <2>4. Screen' /\ OlderPage' /\ LiveStep
    BY <1>3, <1>4, <2>2, LiveAlone
  <2>5. Control' /\ asked' \in 0 .. head'
    BY <1>c, <2>1, <2>2, <2>3, <2>4 DEF Screen
  <2> QED BY <1>6, <2>4, <2>5
<1>10. CASE \E kind \in {"plain", "user"} : Refresh(kind)
  <2>1. stale' \in [Kinds -> Nat] /\ UNCHANGED <<pc, connection, cursor, timeline, live, hasOlder, older, asked>>
    BY <1>10, <1>s DEF Refresh, viewVars, socketVars
  <2>2. Control'
    BY <1>1, <2>1 DEF Control
  <2> QED BY <1>3, <1>4, <1>5, <1>6, <2>1, <2>2, LiveAlone
<1>11. CASE LoadOlder
  <2>1. /\ timeline # {} /\ older' = [before |-> MinOf(timeline), page |-> Unread]
        /\ UNCHANGED <<pc, connection, stale, cursor, timeline, live, hasOlder, asked, head>>
    BY <1>11 DEF LoadOlder, viewVars, socketVars, fetchVars, serverVars
  <2>2. MinOf(timeline) \in 1 .. head
    BY <1>0, <1>1, <2>1, MinOfIsLeast DEF Screen
  <2>3. OlderPage'
    BY <2>1, <2>2 DEF OlderPage, Olders
  <2> QED BY <1>2, <1>3, <1>5, <1>6, <2>1, <2>3, LiveAlone
<1>12. CASE ReadOlder
  <2>1. /\ older # None
        /\ older' = [older EXCEPT !.page = Newest({c \in rows : c < older.before}, Page)]
        /\ UNCHANGED <<pc, connection, stale, cursor, timeline, live, hasOlder, asked, head>>
    BY <1>12 DEF ReadOlder, viewVars, socketVars, fetchVars, serverVars
  <2>2. older \in Olders(head)
    BY <1>1, <2>1 DEF OlderPage
  <2> DEFINE p == Newest({c \in rows : c < older.before}, Page)
  <2>3. p \subseteq 1 .. head /\ \A c \in p : c < older.before
    BY <1>t DEF Newest, ServerInv
  <2> HIDE DEF p
  <2>4. older' \in Olders(head) /\ older'.before = older.before /\ older'.page = p
    BY <2>1, <2>2, <2>3 DEF Olders, p
  <2>5. OlderPage'
    BY <2>1, <2>3, <2>4 DEF OlderPage
  <2> QED BY <1>2, <1>3, <1>5, <1>6, <2>1, <2>5, LiveAlone
<1>13. CASE OlderEnds \/ OlderFails
  <2>1. /\ older # None /\ older' = None
        /\ \/ UNCHANGED <<timeline, hasOlder>>
           \/ /\ timeline' = timeline \cup older.page /\ older.page # Unread
              /\ hasOlder' = (Cardinality(older.page) >= Page)
        /\ UNCHANGED <<pc, connection, stale, cursor, live, asked, head>>
    BY <1>13 DEF OlderEnds, OlderFails, viewVars, socketVars, fetchVars, serverVars
  <2>2. older.page # Unread => older.page \subseteq 1 .. head
    BY <1>1, <2>1 DEF OlderPage, Olders
  <2>3. hasOlder' \in BOOLEAN /\ timeline' \subseteq 1 .. head
    <3>1. hasOlder \in BOOLEAN /\ timeline \subseteq 1 .. head
      BY <1>1 DEF Screen
    <3>2. hasOlder' \in BOOLEAN
      <4>1. (Cardinality(older.page) >= Page) \in BOOLEAN
        OBVIOUS
      <4> QED BY <2>1, <3>1, <4>1, Zenon
    <3>3. timeline' \subseteq 1 .. head
      BY <2>1, <2>2, <3>1, Zenon
    <3> QED BY <3>2, <3>3
  <2>4. Screen' /\ OlderPage'
    BY <1>1, <2>1, <2>3 DEF Screen, OlderPage
  <2> QED BY <1>2, <1>5, <1>6, <2>1, <2>4, LiveAlone
<1>14. CASE OnOpen \/ OnResync
  <2>1. /\ stale' \in [Kinds -> Nat] /\ pc' \in {pc, "open"} /\ connection' \in {"LIVE", "RESYNCING"}
        /\ UNCHANGED <<cursor, timeline, live, hasOlder, older, asked>>
    BY <1>14, <1>s DEF OnOpen, OnResync, viewVars, socketVars
  <2>2. Control'
    BY <1>1, <2>1 DEF Control
  <2> QED BY <1>3, <1>4, <1>5, <1>6, <2>1, <2>2, LiveAlone
<1>15. CASE OnItem
  <2>1. /\ stale' \in [Kinds -> Nat] /\ cursor' = Head(wire).cursor
        /\ timeline' = timeline \cup {Head(wire).cursor}
        /\ UNCHANGED <<pc, connection, hasOlder, older, asked, head>>
    BY <1>15, <1>s DEF OnItem, serverVars
  <2>2. LiveStep /\ Head(wire).cursor \in 1 .. head
    BY <1>15, OnItemLive
  <2>3. cursor' \in 0 .. head /\ timeline' \subseteq 1 .. head
    <3>1. timeline \subseteq 1 .. head
      BY <1>1 DEF Screen
    <3>2. timeline' \subseteq 1 .. head
      BY <2>1, <2>2, <3>1, Zenon
    <3>3. cursor' \in 0 .. head
      BY <1>0, <2>1, <2>2
    <3> QED BY <3>2, <3>3
  <2>4. Screen' /\ Control'
    BY <1>1, <2>1, <2>3 DEF Screen, Control
  <2> QED BY <1>4, <1>5, <1>6, <2>1, <2>2, <2>4
<1>16. CASE OnClose \/ OpenFails
  <2>1. /\ pc' = "waiting" /\ connection' = "RECONNECTING" /\ stale' = stale
        /\ UNCHANGED <<cursor, timeline, live, hasOlder, older, asked>>
    BY <1>16 DEF OnClose, OpenFails, viewVars, socketVars, fetchVars
  <2>2. Control'
    BY <1>1, <2>1 DEF Control
  <2> QED BY <1>3, <1>4, <1>5, <1>6, <2>1, <2>2, LiveAlone
<1>17. CASE Reconnect
  <2>1. /\ pc' = "sync" /\ connection' = "RESYNCING"
        /\ UNCHANGED <<cursor, timeline, live, hasOlder, older, asked>>
    BY <1>17 DEF Reconnect, viewVars, socketVars
  <2>2. stale' \in [Kinds -> Nat]
    BY <1>1, <1>17 DEF Reconnect, Control, Kinds
  <2>3. Control'
    BY <2>1, <2>2 DEF Control
  <2> QED BY <1>3, <1>4, <1>5, <1>6, <2>1, <2>3, LiveAlone
<1>18. CASE (\E football \in BOOLEAN : Project(football)) \/ PublishItem \/ ResetDemo \/ PublishReset
               \/ Accept \/ Replay \/ Forward \/ CutLink \/ BackendRestart
               \/ ReadState \/ ReadTimeline \/ OnDuplicate \/ UNCHANGED vars
  <2>1. UNCHANGED <<pc, connection, stale, cursor, timeline, live, hasOlder, older, asked>>
    BY <1>18 DEF Project, PublishItem, ResetDemo, PublishReset, Accept, Replay, Forward, CutLink,
                 BackendRestart, ReadState, ReadTimeline, OnDuplicate, vars, viewVars, socketVars,
                 fetchVars
  <2> QED BY <1>7, <2>1
<1> QED BY <1>8, <1>9, <1>10, <1>11, <1>12, <1>13, <1>14, <1>15, <1>16, <1>17, <1>18
        DEF Next, Server, Browser

\* A snapshot in flight stays newer than the screen, which only notifications (they start
\* a new one) and older rows change.
LEMMA FetchStep ==
    ASSUME FeedInv, [Next]_vars
    PROVE  FetchInv'
<1>t. ServerInv /\ SocketInv /\ ViewInv /\ FetchInv /\ ServerInv' /\ Forth /\ ViewInv' /\ LiveStep
  BY ServerStep, ViewStep DEF FeedInv
<1>0. /\ head \in Nat /\ head' \in Nat /\ head <= head' /\ Fetches(head) \subseteq Fetches(head')
      /\ state \in LiveStates /\ state' \in LiveStates /\ Below(state, state')
      /\ live \in LiveStates /\ rows \in SUBSET (1 .. head) /\ Page \in Nat \ {0}
  <2>1. /\ head \in Nat /\ head' \in Nat /\ head <= head' /\ state \in LiveStates /\ state' \in LiveStates
        /\ Below(state, state')
    BY <1>t DEF ServerInv, Forth
  <2> QED BY <1>t, <2>1, KnownGrows, FeedAssumption DEF ServerInv, ViewInv
<1> DEFINE Reach(c) == (\E b \in timeline : c <= b) \/ (older # None /\ c < older.before)
           StateIsNewer(f) == f.state # Unread => Below(live, f.state) /\ Below(f.state, state)
           PageIsNewer(f) == f.page # Unread => \A c \in rows : Reach(c) => Shows(f.page, c)
<1>1. fresh # None => fresh \in Fetches(head) /\ StateIsNewer(fresh) /\ PageIsNewer(fresh)
  BY <1>t DEF FetchInv
<1>2. fresh' = None \/ (fresh' \in Fetches(head') /\ StateIsNewer(fresh)' /\ PageIsNewer(fresh)')
        => FetchInv'
  BY DEF FetchInv
\* No step brings a row into reach that was not: a new one is behind the screen.
<1>3. (\E k \in Kinds, full \in BOOLEAN : fresh' = NewFetch(k, full)) => FetchInv'
  BY <1>0, <1>2, FetchFields
<1>4. fresh' = None => FetchInv'
  BY <1>2
<1>5. ASSUME fresh # None, UNCHANGED <<live>>, fresh'.state = fresh.state
      PROVE  StateIsNewer(fresh)'
  <2>1. fresh.state # Unread => fresh.state \in LiveStates
    BY <1>0, <1>1, <1>5, FetchFields
  <2> QED BY <1>0, <1>1, <1>5, <2>1, BelowOrders
<1>6. ASSUME fresh # None, fresh'.page = fresh.page,
             \A c \in rows' : Reach(c)' => c \in rows /\ Reach(c)
      PROVE  PageIsNewer(fresh)'
  BY <1>1, <1>6
<1>7. ASSUME UNCHANGED <<timeline, older>>, NEW c \in rows', Reach(c)'
      PROVE  c \in rows /\ Reach(c)
  <2>1. Reach(c)
    BY <1>7
  <2>2. c <= head
    <3>1. c \in Nat /\ c \in 1 .. head'
      BY <1>t DEF ServerInv
    <3>2. \A b \in timeline : b \in Nat /\ b <= head
      BY <1>0, <1>t DEF ViewInv
    <3>3. older # None => older.before \in Nat /\ older.before <= head
      BY <1>0, <1>t DEF ViewInv, Olders
    <3> QED BY <1>0, <2>1, <3>1, <3>2, <3>3
  <2>3. c \in Nat
    BY <1>t DEF ServerInv
  <2> QED BY <1>0, <1>t, <2>1, <2>2, <2>3 DEF Forth
<1> HIDE DEF StateIsNewer, PageIsNewer, Reach
<1>8. CASE UNCHANGED <<timeline, older, live, fresh>>
  <2>1. fresh # None => StateIsNewer(fresh)' /\ PageIsNewer(fresh)'
    BY <1>5, <1>6, <1>7, <1>8
  <2> QED BY <1>0, <1>1, <1>2, <1>8, <2>1
<1>9. CASE BackendRestart
  <2>1. /\ fresh' = IF fresh = None THEN None ELSE [fresh EXCEPT !.dead = TRUE]
        /\ UNCHANGED <<timeline, older, live>>
    BY <1>9 DEF BackendRestart, viewVars
  <2>2. fresh # None => /\ fresh' \in Fetches(head) /\ fresh'.state = fresh.state
                        /\ fresh'.page = fresh.page
    BY <1>1, <2>1 DEF Fetches
  <2>3. fresh # None => StateIsNewer(fresh)' /\ PageIsNewer(fresh)'
    BY <1>5, <1>6, <1>7, <2>1, <2>2
  <2> QED BY <1>0, <1>2, <2>1, <2>2, <2>3
<1>10. CASE ReadState
  <2>1. /\ fresh # None /\ fresh' = [fresh EXCEPT !.state = state]
        /\ UNCHANGED <<timeline, older, live, state>>
    BY <1>10 DEF ReadState, viewVars, serverVars
  <2>2. fresh' \in Fetches(head) /\ fresh'.state = state /\ fresh'.page = fresh.page
    BY <1>0, <1>1, <2>1 DEF Fetches
  <2>3. PageIsNewer(fresh)'
    BY <1>6, <1>7, <2>1, <2>2
  <2>4. StateIsNewer(fresh)'
    BY <1>0, <1>t, <2>1, <2>2, BelowOrders DEF StateIsNewer, ViewInv
  <2> QED BY <1>0, <1>2, <2>2, <2>3, <2>4
<1>11. CASE ReadTimeline
  <2>1. fresh # None /\ UNCHANGED <<timeline, older, live, state, rows, head>>
    BY <1>11 DEF ReadTimeline, viewVars, serverVars
  <2>2. CASE fresh' = [fresh EXCEPT !.mark = MaxOf(rows)]
    <3>1. MaxOf(rows) \in 0 .. head
      BY <1>0, MaxOfIsGreatest
    <3>2. fresh' \in Fetches(head) /\ fresh'.state = fresh.state /\ fresh'.page = fresh.page
      BY <1>1, <2>1, <2>2, <3>1 DEF Fetches
    <3>3. StateIsNewer(fresh)' /\ PageIsNewer(fresh)'
      BY <1>5, <1>6, <1>7, <2>1, <3>2
    <3> QED BY <1>0, <1>2, <3>2, <3>3
  <2>3. CASE fresh' = [fresh EXCEPT !.page = Newest(rows, Page)]
    <3>1. Newest(rows, Page) \in SUBSET (1 .. head)
      BY <1>0 DEF Newest
    <3>2. fresh' \in Fetches(head) /\ fresh'.state = fresh.state /\ fresh'.page = Newest(rows, Page)
      BY <1>1, <2>1, <2>3, <3>1 DEF Fetches
    <3>3. StateIsNewer(fresh)'
      BY <1>5, <2>1, <3>2
    <3>4. \A c \in rows : Shows(Newest(rows, Page), c)
      BY <1>0, NewestShows
    <3>5. PageIsNewer(fresh)'
      BY <2>1, <3>2, <3>4 DEF PageIsNewer
    <3> QED BY <1>0, <1>2, <3>2, <3>3, <3>5
  <2> QED BY <1>11, <2>2, <2>3 DEF ReadTimeline
\* The rows before the oldest one are in reach already, and so is every older page.
<1>12. CASE LoadOlder \/ ReadOlder \/ OlderEnds \/ OlderFails
  <2>1. UNCHANGED <<fresh, live, state, rows, head>>
    BY <1>12 DEF LoadOlder, ReadOlder, OlderEnds, OlderFails, viewVars, fetchVars, serverVars
  <2>n. \A c \in rows : c \in Nat
    BY <1>0
  <2>2. ASSUME NEW c \in rows, Reach(c)' PROVE Reach(c)
    <3>1. CASE LoadOlder
      <4>1. /\ timeline # {} /\ timeline' = timeline
            /\ older' = [before |-> MinOf(timeline), page |-> Unread]
        BY <3>1 DEF LoadOlder, viewVars
      <4>t. timeline \in SUBSET (1 .. head)
        BY <1>t DEF ViewInv
      <4>2. MinOf(timeline) \in timeline /\ MinOf(timeline) \in Nat
        <5>1. MinOf(timeline) \in timeline
          BY <1>0, <4>1, <4>t, MinOfIsLeast
        <5>2. \A d \in timeline : d \in Nat
          BY <4>t
        <5> QED BY <5>1, <5>2
      <4>3. older'.before = MinOf(timeline)
        BY <4>1
      <4>4. c < older'.before => c <= MinOf(timeline)
        BY <2>n, <4>2, <4>3
      <4> QED BY <2>2, <4>1, <4>2, <4>4 DEF Reach
    <3>2. CASE ReadOlder
      <4>1. /\ older # None /\ timeline' = timeline
            /\ older' = [older EXCEPT !.page = Newest({d \in rows : d < older.before}, Page)]
        BY <3>2 DEF ReadOlder, viewVars
      <4>2. older'.before = older.before
        BY <1>t, <4>1 DEF ViewInv, Olders
      <4> QED BY <2>2, <4>1, <4>2 DEF Reach
    <3>3. CASE OlderEnds
      <4>1. older # None /\ older.page # Unread /\ timeline' = timeline \cup older.page /\ older' = None
        BY <3>3 DEF OlderEnds
      <4>2. PICK b \in timeline \cup older.page : c <= b
        BY <2>2, <4>1 DEF Reach
      <4>3. CASE b \in timeline
        BY <4>2, <4>3 DEF Reach
      <4>4. CASE b \in older.page
        <5>1. b < older.before /\ b \in Nat /\ older.before \in Nat
          BY <1>0, <1>t, <4>1, <4>4 DEF ViewInv, Olders
        <5>2. c < older.before
          BY <2>n, <4>2, <5>1
        <5> QED BY <4>1, <5>2 DEF Reach
      <4> QED BY <4>3, <4>4
    <3>4. CASE OlderFails
      BY <2>2, <3>4 DEF OlderFails, viewVars, Reach
    <3> QED BY <1>12, <3>1, <3>2, <3>3, <3>4
  <2>3. fresh # None => StateIsNewer(fresh)' /\ PageIsNewer(fresh)'
    BY <1>5, <1>6, <2>1, <2>2
  <2> QED BY <1>0, <1>1, <1>2, <2>1, <2>3
<1>13. CASE \/ OnOpen \/ OnResync \/ OnItem \/ Reconnect
            \/ \E kind \in {"plain", "user"} : Refresh(kind)
  <2>1. \E k \in Kinds, full \in BOOLEAN : fresh' = NewFetch(k, full)
    BY <1>13 DEF OnOpen, OnResync, OnItem, Reconnect, Refresh, StartFetch, Kinds
  <2> QED BY <1>3, <2>1
<1>14. CASE FetchEnds \/ FetchFails
  BY <1>4, <1>14 DEF FetchEnds, FetchFails
<1>15. CASE (\E football \in BOOLEAN : Project(football)) \/ PublishItem \/ ResetDemo \/ PublishReset
               \/ Accept \/ Replay \/ Forward \/ CutLink \/ UNCHANGED vars
  <2>1. UNCHANGED <<timeline, older, live, fresh>>
    BY <1>15 DEF Project, PublishItem, ResetDemo, PublishReset, Accept, Replay, Forward, CutLink,
                 vars, viewVars, fetchVars
  <2> QED BY <1>8, <2>1
<1>16. CASE OnDuplicate \/ OnClose \/ OpenFails
               \/ \E kind \in Kinds, ok \in BOOLEAN : SupersededEnds(kind, ok)
  <2>1. UNCHANGED <<timeline, older, live, fresh>>
    BY <1>16 DEF OnDuplicate, OnClose, OpenFails, SupersededEnds, viewVars, fetchVars
  <2> QED BY <1>8, <2>1
<1> QED BY <1>9, <1>10, <1>11, <1>12, <1>13, <1>14, <1>15, <1>16 DEF Next, Server, Browser

-----------------------------------------------------------------------------
LEMMA FeedBegins == Init => FeedInv
<1> SUFFICES ASSUME Init PROVE FeedInv
  OBVIOUS
<1>1. state \in LiveStates /\ live = state /\ state.match = 0 /\ state.version = 0
  BY FeedAssumption DEF Init, LiveStates
<1>2. ServerInv
  <2>1. head \in 0 .. MaxRows /\ resets \in 0 .. MaxResets /\ head = 0 /\ resets = 0
    BY FeedAssumption DEF Init
  <2>2. rows = {} /\ demo = {} /\ resetting = FALSE /\ unsent = None
    BY DEF Init
  <2>3. rows \subseteq 1 .. head /\ demo \subseteq rows
    BY <2>2
  <2>4. state.match <= resets /\ state.version <= head
    BY <1>1, <2>1
  <2> QED BY <1>1, <2>1, <2>2, <2>3, <2>4 DEF ServerInv
<1>3. SocketInv
  BY FeedAssumption DEF Init, SocketInv
<1>4. ViewInv
  <2>1. /\ pc = "sync" /\ connection = "CONNECTING" /\ asked = 0 /\ cursor = 0 /\ head = 0
        /\ timeline = {} /\ hasOlder = FALSE /\ older = None
    BY DEF Init
  <2>2. stale \in [Kinds -> Nat]
    BY DEF Init
  <2>3. live \in LiveStates /\ Below(live, state)
    BY <1>1, BelowOrders
  <2>4. timeline \subseteq 1 .. head
    BY <2>1
  <2>5. asked \in 0 .. head /\ cursor \in 0 .. head
    BY <2>1
  <2> QED BY <2>1, <2>2, <2>3, <2>4, <2>5, Zenon DEF ViewInv
<1>5. "connect" \in Kinds /\ head \in Nat
  BY DEF Init, Kinds
<1>6. FetchInv
  BY <1>5, FetchFields DEF Init, FetchInv
<1> QED BY <1>2, <1>3, <1>4, <1>6 DEF FeedInv

LEMMA FeedInvariant == Spec => []FeedInv
<1>1. FeedInv /\ [Next]_vars => FeedInv'
  BY ServerStep, SocketStep, ViewStep, FetchStep DEF FeedInv
<1> QED BY <1>1, FeedBegins, PTL DEF Spec

\* The state of the feed is well typed, and no client's queue outgrows its bound
\* (RealtimeManager).
THEOREM FeedTypeCorrect == Spec => []TypeOK
<1>1. ASSUME FeedInv PROVE TypeOK
  <2>t. ServerInv /\ SocketInv /\ ViewInv /\ FetchInv
    BY <1>1 DEF FeedInv
  <2>1. head \in Nat /\ MaxRows \in Nat /\ head <= MaxRows
    BY <2>t, FeedAssumption DEF ServerInv
  <2>2. 1 .. head \subseteq 1 .. MaxRows /\ 0 .. head \subseteq 0 .. MaxRows
    BY <2>1
  <2>3. Known(head, state) \subseteq Messages
    <3> SUFFICES ASSUME NEW m \in Known(head, state), m # Gap PROVE m \in Messages
      BY DEF Messages
    <3>1. m = Item(m.cursor, m.state) /\ m.cursor \in 1 .. head /\ m.state \in LiveStates \cup {None}
      BY DEF Known, Item
    <3> QED BY <2>2, <3>1 DEF Messages
  <2>4. Seq(Known(head, state)) \subseteq Seq(Messages)
    <3> SUFFICES ASSUME NEW q \in Seq(Known(head, state)) PROVE q \in Seq(Messages)
      OBVIOUS
    <3>1. \A i \in 1 .. Len(q) : q[i] \in Messages
      BY <2>3
    <3> QED BY <3>1
  <2>5. fresh = None \/ fresh.kind \in Kinds
    BY <2>1, <2>t, FetchFields DEF FetchInv
  <2>6. lost \subseteq 1 .. MaxRows /\ asked \in 0 .. MaxRows
    BY <2>2, <2>t DEF SocketInv, ViewInv
  <2> QED BY <2>3, <2>4, <2>5, <2>6, <2>t DEF TypeOK, ServerInv, SocketInv, ViewInv
<1> QED BY <1>1, FeedInvariant, PTL

\* An overflow is never silent, whatever later overflows throw out of the queue.
THEOREM OverflowIsAnnounced == Spec => []GapIsAnnounced
<1>1. ASSUME FeedInv PROVE GapIsAnnounced
  <2>1. queue \in Seq(Known(head, state)) /\ wire \in Seq(Known(head, state))
        /\ (lost # {} => Announced(queue) \/ Announced(wire))
    BY <1>1 DEF FeedInv, SocketInv
  <2>2. /\ queue \o wire \in Seq(Known(head, state))
        /\ Announced(queue) \/ Announced(wire) => Announced(queue \o wire)
    BY <2>1, AnnouncedByConcat
  <2>3. DOMAIN (queue \o wire) = 1 .. Len(queue \o wire)
    BY <2>2
  <2> QED BY <2>1, <2>2, <2>3 DEF GapIsAnnounced, Announced
<1> QED BY <1>1, FeedInvariant, PTL

\* No snapshot and no notification takes the live state back to an older version, or to a
\* match that a reset has ended.
THEOREM LiveStateGoesForth == Spec => LiveNeverGoesBack
<1>1. ASSUME FeedInv, [Next]_vars
      PROVE  /\ live'.match >= live.match
             /\ live'.match = live.match => live'.version >= live.version
  <2>1. live \in LiveStates /\ live' \in LiveStates /\ Below(live, live')
    BY <1>1, ViewStep DEF FeedInv, ViewInv, LiveStep
  <2>2. /\ live.match \in Int /\ live.version \in Int
        /\ live'.match \in Int /\ live'.version \in Int
    BY <2>1, FeedAssumption DEF LiveStates
  <2> QED BY <2>1, <2>2 DEF Below
<1> QED BY <1>1, FeedInvariant, PTL DEF Spec, LiveNeverGoesBack

\* No snapshot erases a row that is still there from the newest page, and a page of older
\* rows that comes late brings none that the snapshot would have to show.
THEOREM ShownRowsStay == Spec => NoRowErased
<1>1. ASSUME FeedInv, [Next]_vars, NEW c \in timeline \ timeline', c \in rows'
      PROVE  timeline' # {} /\ \A d \in timeline' : c < d
  <2>1. CASE FetchEnds
    <3>1. /\ fresh # None /\ fresh.full /\ fresh.page # Unread /\ timeline' = fresh.page
          /\ rows' = rows
      BY <1>1, <2>1 DEF FetchEnds, serverVars
    <3>2. c \in Nat
      BY <1>1 DEF FeedInv, ViewInv
    <3>3. c \in rows /\ \E b \in timeline : c <= b
      BY <1>1, <3>1, <3>2
    <3>4. Shows(fresh.page, c)
      BY <1>1, <3>1, <3>3 DEF FeedInv, FetchInv
    <3> QED BY <1>1, <3>1, <3>4 DEF Shows
  <2>2. CASE ~FetchEnds
    <3>1. CASE Server \/ UNCHANGED vars
      <4>1. timeline' = timeline
        BY <3>1 DEF Server, Project, PublishItem, ResetDemo, PublishReset, Accept, Replay, Forward,
                    CutLink, BackendRestart, ReadState, ReadTimeline, ReadOlder, vars, viewVars
      <4> QED BY <1>1, <4>1
    <3>2. CASE Browser
      <4>1. timeline \subseteq timeline'
        BY <2>2, <3>2
           DEF Browser, FetchFails, SupersededEnds, Refresh, LoadOlder, OlderEnds, OlderFails,
               OnOpen, OnResync, OnItem, OnDuplicate, OnClose, OpenFails, Reconnect, viewVars
      <4> QED BY <1>1, <4>1
    <3> QED BY <1>1, <3>1, <3>2 DEF Next
  <2> QED BY <2>1, <2>2
<1> DEFINE Stays == \A c \in timeline \ timeline' :
                        c \in rows' => timeline' # {} /\ \A d \in timeline' : c < d
<1>2. FeedInv /\ [Next]_vars => Stays
  BY <1>1
<1> QED BY <1>2, FeedInvariant, PTL DEF Spec, NoRowErased

-----------------------------------------------------------------------------
(* A feed that drops nothing leaves no hole                                 *)

\* The rows whose notifications a queue or the wire carries.
Carried(q) == CursorsOf({q[i] : i \in 1 .. Len(q)})

\* Before a notification come those of the earlier rows of S, unless D has them.
Gapless(q, S, D) ==
    \A i \in 1 .. Len(q) : q[i] # Gap =>
        \A c \in S : c < q[i].cursor =>
            c \in D \/ \E j \in 1 .. i - 1 : q[j] # Gap /\ q[j].cursor = c

LEMMA CarriedByIndex ==
    ASSUME NEW q, NEW c
    PROVE  c \in Carried(q) <=> \E i \in 1 .. Len(q) : q[i] # Gap /\ q[i].cursor = c
  BY DEF Carried, CursorsOf

\* The rows that are due become fewer, or later; those that are there become more.
LEMMA GaplessWeakens ==
    ASSUME NEW q, NEW S, NEW D, NEW R, NEW E, Gapless(q, S, D),
           \A c \in R : c \in S \/ \A b \in Carried(q) : ~(c < b),
           \A c \in R : c \in D => c \in E
    PROVE  Gapless(q, R, E)
<1> SUFFICES ASSUME NEW i \in 1 .. Len(q), q[i] # Gap, NEW c \in R, c < q[i].cursor
             PROVE  c \in E \/ \E j \in 1 .. i - 1 : q[j] # Gap /\ q[j].cursor = c
  BY DEF Gapless
<1>1. q[i].cursor \in Carried(q)
  BY CarriedByIndex
<1>2. c \in S
  BY <1>1
<1> QED BY <1>2 DEF Gapless

LEMMA GaplessAppend ==
    ASSUME NEW T, NEW q \in Seq(T), NEW m \in T, NEW S, NEW D, Gapless(q, S, D),
           m # Gap => \A c \in S : c < m.cursor => c \in D \/ c \in Carried(q)
    PROVE  Gapless(Append(q, m), S, D)
<1> DEFINE p == Append(q, m)
<1>1. /\ Len(p) = Len(q) + 1 /\ Len(q) \in Nat
      /\ \A i \in 1 .. Len(q) : p[i] = q[i]
      /\ p[Len(q) + 1] = m
  BY AppendProperties
<1> HIDE DEF p
<1> SUFFICES ASSUME NEW i \in 1 .. Len(p), p[i] # Gap, NEW c \in S, c < p[i].cursor, c \notin D
             PROVE  \E j \in 1 .. i - 1 : p[j] # Gap /\ p[j].cursor = c
  BY DEF Gapless, p
<1>2. CASE i \in 1 .. Len(q)
  <2>1. PICK j \in 1 .. i - 1 : q[j] # Gap /\ q[j].cursor = c
    BY <1>1, <1>2 DEF Gapless
  <2>2. j \in 1 .. Len(q)
    BY <1>1, <1>2
  <2>3. p[j] = q[j]
    BY <1>1, <2>2
  <2> QED BY <2>1, <2>3
<1>3. CASE i = Len(q) + 1
  <2>1. c \in Carried(q)
    BY <1>1, <1>3
  <2>2. PICK j \in 1 .. Len(q) : q[j] # Gap /\ q[j].cursor = c
    BY <2>1, CarriedByIndex
  <2>3. p[j] = q[j] /\ j \in 1 .. i - 1
    BY <1>1, <1>3
  <2> QED BY <2>2, <2>3
<1> QED BY <1>1, <1>2, <1>3

LEMMA CarriedAppend ==
    ASSUME NEW T, NEW q \in Seq(T), NEW m \in T
    PROVE  Carried(Append(q, m)) = Carried(q) \cup CursorsOf({m})
<1> DEFINE p == Append(q, m)
<1>1. /\ Len(p) = Len(q) + 1 /\ Len(q) \in Nat
      /\ \A i \in 1 .. Len(q) : p[i] = q[i]
      /\ p[Len(q) + 1] = m
  BY AppendProperties
<1>2. 1 .. Len(q) + 1 = (1 .. Len(q)) \cup {Len(q) + 1}
  BY <1>1
<1> HIDE DEF p
<1>3. \A c : c \in CursorsOf({m}) <=> m # Gap /\ m.cursor = c
  BY DEF CursorsOf
<1>4. ASSUME NEW c \in Carried(p) PROVE c \in Carried(q) \cup CursorsOf({m})
  <2>1. PICK i \in 1 .. Len(p) : p[i] # Gap /\ p[i].cursor = c
    BY CarriedByIndex
  <2>2. CASE i \in 1 .. Len(q)
    BY <1>1, <2>1, <2>2, CarriedByIndex
  <2>3. CASE i = Len(q) + 1
    BY <1>1, <1>3, <2>1, <2>3
  <2> QED BY <1>1, <1>2, <2>2, <2>3
<1>5. ASSUME NEW c \in Carried(q) PROVE c \in Carried(p)
  <2>1. PICK i \in 1 .. Len(q) : q[i] # Gap /\ q[i].cursor = c
    BY CarriedByIndex
  <2>2. i \in 1 .. Len(p) /\ p[i] = q[i]
    BY <1>1
  <2> QED BY <2>1, <2>2, CarriedByIndex
<1>6. ASSUME NEW c \in CursorsOf({m}) PROVE c \in Carried(p)
  <2>1. Len(q) + 1 \in 1 .. Len(p)
    BY <1>1
  <2> QED BY <1>1, <1>3, <2>1, CarriedByIndex
<1> QED BY <1>4, <1>5, <1>6 DEF p

\* The first notification leaves: no row of S was to come before it, and those behind it
\* count on it.
LEMMA GaplessTail ==
    ASSUME NEW T, NEW q \in Seq(T), q # <<>>, NEW S, NEW D, Gapless(q, S, D)
    PROVE  /\ Gapless(Tail(q), S, D \cup CursorsOf({Head(q)}))
           /\ Head(q) # Gap => \A c \in S : c < Head(q).cursor => c \in D
<1> DEFINE p == Tail(q)
<1>1. /\ Len(p) = Len(q) - 1 /\ Len(q) \in Nat \ {0} /\ Head(q) = q[1]
      /\ \A i \in 1 .. Len(q) - 1 : p[i] = q[i + 1]
  BY HeadTailProperties
<1> HIDE DEF p
<1>2. Head(q) # Gap => \A c \in S : c < Head(q).cursor => c \in D
  <2>1. 1 \in 1 .. Len(q) /\ 1 .. 1 - 1 = {}
    BY <1>1
  <2> QED BY <1>1, <2>1 DEF Gapless
<1>3. ASSUME NEW i \in 1 .. Len(p), p[i] # Gap, NEW c \in S, c < p[i].cursor,
             c \notin D \cup CursorsOf({Head(q)})
      PROVE  \E j \in 1 .. i - 1 : p[j] # Gap /\ p[j].cursor = c
  <2>1. p[i] = q[i + 1] /\ i + 1 \in 1 .. Len(q)
    BY <1>1
  <2>2. PICK k \in 1 .. (i + 1) - 1 : q[k] # Gap /\ q[k].cursor = c
    BY <1>3, <2>1 DEF Gapless
  <2>3. k # 1
    BY <1>1, <1>3, <2>2 DEF CursorsOf
  <2>4. k - 1 \in 1 .. i - 1 /\ k - 1 \in 1 .. Len(q) - 1 /\ (k - 1) + 1 = k
    BY <1>1, <2>1, <2>2, <2>3
  <2>5. p[k - 1] = q[k]
    BY <1>1, <2>4
  <2> QED BY <2>2, <2>4, <2>5
<1> QED BY <1>2, <1>3 DEF Gapless, p

LEMMA CarriedTail ==
    ASSUME NEW T, NEW q \in Seq(T), q # <<>>
    PROVE  Carried(q) = Carried(Tail(q)) \cup CursorsOf({Head(q)})
<1> DEFINE p == Tail(q)
<1>1. /\ Len(p) = Len(q) - 1 /\ Len(q) \in Nat \ {0} /\ Head(q) = q[1]
      /\ \A i \in 1 .. Len(q) - 1 : p[i] = q[i + 1]
  BY HeadTailProperties
<1> HIDE DEF p
<1>2. \A c : c \in CursorsOf({Head(q)}) <=> q[1] # Gap /\ q[1].cursor = c
  BY <1>1 DEF CursorsOf
<1>3. ASSUME NEW c \in Carried(q), c \notin CursorsOf({Head(q)}) PROVE c \in Carried(p)
  <2>1. PICK i \in 1 .. Len(q) : q[i] # Gap /\ q[i].cursor = c
    BY CarriedByIndex
  <2>2. i # 1
    BY <1>2, <1>3, <2>1
  <2>3. i - 1 \in 1 .. Len(q) - 1 /\ (i - 1) + 1 = i
    BY <1>1, <2>2
  <2>4. p[i - 1] = q[i]
    BY <1>1, <2>3
  <2> QED BY <1>1, <2>1, <2>3, <2>4, CarriedByIndex
<1>4. ASSUME NEW c \in Carried(p) PROVE c \in Carried(q)
  <2>1. PICK i \in 1 .. Len(p) : p[i] # Gap /\ p[i].cursor = c
    BY CarriedByIndex
  <2>2. p[i] = q[i + 1] /\ i + 1 \in 1 .. Len(q)
    BY <1>1
  <2> QED BY <2>1, <2>2, CarriedByIndex
<1>5. ASSUME NEW c \in CursorsOf({Head(q)}) PROVE c \in Carried(q)
  <2>1. 1 \in 1 .. Len(q)
    BY <1>1
  <2> QED BY <1>2, <2>1, CarriedByIndex
<1> QED BY <1>3, <1>4, <1>5 DEF p

LEMMA CarriedNothing == Carried(<<>>) = {} /\ \A S, D : Gapless(<<>>, S, D)
<1>1. 1 .. Len(<<>>) = {}
  OBVIOUS
<1> QED BY <1>1 DEF Carried, CursorsOf, Gapless

LEMMA CursorsOfMessages ==
    /\ CursorsOf({Gap}) = {}
    /\ \A m : m # Gap => CursorsOf({m}) = {m.cursor}
    /\ \A m, n : CursorsOf({m, n}) = CursorsOf({m}) \cup CursorsOf({n})
  BY DEF CursorsOf

\* The replayed rows are all there are, in order.
LEMMA ReplayIsGapless ==
    ASSUME NEW h \in Nat, NEW S \in SUBSET (1 .. h), NEW due \in InOrder(S), NEW sent,
           sent = [i \in DOMAIN due |-> Item(due[i], None)]
    PROVE  Carried(sent) = S /\ Gapless(sent, S, {})
<1> DEFINE n == Cardinality(S)
<1>1. IsFiniteSet(S) /\ n \in Nat
  <2>1. IsFiniteSet(1 .. h)
    BY FS_Interval
  <2> QED BY <2>1, FS_Subset, FS_CardinalityType
<1>2. due \in [1 .. n -> S] /\ \A i, j \in 1 .. n : i < j => due[i] < due[j]
  BY DEF InOrder
<1> HIDE DEF n
<1>s. \A c \in S : c \in Nat
  OBVIOUS
<1>n. \A i \in 1 .. n : due[i] \in Nat
  BY <1>2, <1>s
<1>3. due \in Injection(1 .. n, S)
  <2>1. ASSUME NEW i \in 1 .. n, NEW j \in 1 .. n, due[i] = due[j] PROVE i = j
    <3>1. ~(i < j) /\ ~(j < i)
      BY <1>2, <1>n, <2>1
    <3> QED BY <3>1
  <2> QED BY <1>2, <2>1 DEF Injection, IsInjective
<1>4. \A c \in S : \E i \in 1 .. n : due[i] = c
  <2>1. Cardinality(1 .. n) = n
    BY <1>1, FS_Interval
  <2>2. due \in Surjection(1 .. n, S)
    BY <1>1, <1>3, <2>1, FS_Injection DEF n
  <2> QED BY <2>2 DEF Surjection
<1>5. /\ Len(sent) = n
      /\ \A i \in 1 .. n : sent[i] # Gap /\ sent[i].cursor = due[i]
  <2>1. sent \in [1 .. n -> {Item(c, None) : c \in S}]
    BY <1>2
  <2>2. Len(sent) = n
    BY <1>1, <2>1
  <2>3. ASSUME NEW i \in 1 .. n PROVE sent[i] # Gap /\ sent[i].cursor = due[i]
    <3>1. sent[i] = Item(due[i], None)
      BY <1>2
    <3>2. Item(due[i], None).cursor = due[i]
      BY DEF Item
    <3>3. due[i] \in 1 .. h
      BY <1>2
    <3>4. Item(due[i], None) # Gap
      BY <3>3, KnownMessages
    <3> QED BY <3>1, <3>2, <3>4
  <2> QED BY <2>2, <2>3
<1>6. \A c : c \in Carried(sent) <=> \E i \in 1 .. n : due[i] = c
  BY <1>5, CarriedByIndex
<1>7. Carried(sent) = S
  BY <1>2, <1>4, <1>6
<1>8. ASSUME NEW i \in 1 .. n, NEW c \in S, c < sent[i].cursor
      PROVE  \E j \in 1 .. i - 1 : sent[j] # Gap /\ sent[j].cursor = c
  <2>1. PICK j \in 1 .. n : due[j] = c
    BY <1>4
  <2>2. due[j] < due[i] /\ due[i] \in Nat /\ due[j] \in Nat
    BY <1>5, <1>8, <1>n, <2>1
  <2>3. j < i
    BY <1>2, <2>2
  <2>4. j \in 1 .. i - 1
    BY <2>3
  <2> QED BY <1>5, <2>1, <2>4
<1>9. Gapless(sent, S, {})
  BY <1>5, <1>8 DEF Gapless
<1> QED BY <1>7, <1>9

-----------------------------------------------------------------------------
(* The invariant of such a feed                                             *)

\* No overflow has dropped a notification, and no older page is under way.
NothingDropped == lost = {} /\ older = None

\* The rows beyond the cursor, and the row whose notification waits to be published.
Due     == {c \in rows : c > cursor}
Pending == IF unsent = None THEN {} ELSE CursorsOf({unsent})

\* A row that the client lacks is on its way, and none overtakes it.
DeliveryInv ==
    /\ Gapless(wire, Due, {})
    /\ handler = "accepted" => wire = <<>>
    /\ handler = "live" =>
          /\ Due \subseteq Carried(wire) \cup Carried(queue) \cup Pending
          /\ Gapless(queue, Due, Carried(wire))

\* The screen shows the rows up to its cursor, and a page in flight those up to the cursor
\* that it will set.
ScreenInv ==
    /\ asked <= cursor
    /\ \A c \in rows : c <= cursor => Shows(timeline, c)
    /\ fresh # None /\ fresh.page # Unread =>
          /\ fresh.mark # Unread
          /\ \A c \in rows : c <= cursor \/ c <= fresh.mark \/ (\E d \in fresh.page : c <= d)
                                => Shows(fresh.page, c)

\* A publication that drops no row puts the message behind the others.
LEMMA PublishDelivers ==
    ASSUME ServerInv, SocketInv, handler = "live", NEW S,
           Gapless(queue, S, Carried(wire)), lost = {}, lost' = {},
           NEW m \in Known(head, state), Publish(m),
           m # Gap => \A c \in S : c < m.cursor => c \in Carried(wire) \/ c \in Carried(queue)
    PROVE  /\ Carried(queue') = Carried(queue) \cup CursorsOf({m})
           /\ Gapless(queue', S, Carried(wire))
<1> DEFINE K == Known(head, state)
           D == Carried(wire)
<1>1. queue \in Seq(K) /\ m \in K /\ Gap \in K /\ QueueSize \in Nat \ {0}
  BY FeedAssumption, KnownMessages DEF ServerInv, SocketInv
<1>2. Gapless(queue, S, D) /\ (m # Gap => \A c \in S : c < m.cursor => c \in D \/ c \in Carried(queue))
  OBVIOUS
<1> HIDE DEF K, D
<1>3. CASE ~(Len(queue) >= QueueSize)
  <2>1. queue' = Append(queue, m)
    BY <1>3 DEF Publish
  <2>2. Gapless(Append(queue, m), S, D)
    BY <1>1, <1>2, GaplessAppend
  <2> QED BY <1>1, <2>1, <2>2, CarriedAppend, ZenonT(60) DEF D
\* A full queue: only a request to resynchronise may leave it, for another one.
<1>4. CASE Len(queue) >= QueueSize
  <2>1. queue' = Append(Tail(queue), Gap) /\ lost' = lost \cup CursorsOf({Head(queue), m})
    BY <1>4 DEF Publish
  <2>2. queue # <<>>
    BY <1>1, <1>4
  <2>3. CursorsOf({Head(queue)}) = {} /\ CursorsOf({m}) = {}
    <3>1. CursorsOf({Head(queue), m}) = CursorsOf({Head(queue)}) \cup CursorsOf({m})
      BY CursorsOfMessages, Zenon
    <3> QED BY <2>1, <3>1
  <2>4. Tail(queue) \in Seq(K)
    BY <1>1, <2>2, HeadTailProperties
  <2>5. Gapless(Tail(queue), S, D \cup CursorsOf({Head(queue)}))
    BY <1>1, <1>2, <2>2, GaplessTail
  <2>6. Gapless(Tail(queue), S, D)
    BY <2>3, <2>5
  <2>7. Gapless(queue', S, D)
    BY <1>1, <2>1, <2>4, <2>6, GaplessAppend
  <2>8. Carried(queue) = Carried(Tail(queue))
    BY <1>1, <2>2, <2>3, CarriedTail
  <2>9. Carried(queue') = Carried(Tail(queue))
    <3>1. Carried(queue') = Carried(Tail(queue)) \cup CursorsOf({Gap})
      BY <1>1, <2>1, <2>4, CarriedAppend, ZenonT(60)
    <3> QED BY <3>1, CursorsOfMessages, Zenon
  <2> QED BY <2>3, <2>7, <2>8, <2>9 DEF D
<1> QED BY <1>3, <1>4

\* A message has been received: no row that is due came with it, and none was to come
\* before it.
LEMMA ReceiptDelivers ==
    ASSUME SocketInv, DeliveryInv, wire # <<>>, wire' = Tail(wire),
           UNCHANGED <<handler, queue, unsent>>,
           \A c \in Due' : c \in Due /\ c \notin CursorsOf({Head(wire)})
    PROVE  DeliveryInv'
<1> DEFINE K == Known(head, state)
           h == CursorsOf({Head(wire)})
           d == Due
           e == Due'
<1>1. wire \in Seq(K) /\ handler # "accepted"
  BY DEF SocketInv, DeliveryInv
<1>2. \A c \in e : c \in d /\ c \notin h
  OBVIOUS
<1>3. Pending' = Pending
  BY DEF Pending
<1> HIDE DEF K, h, d, e
<1>w. Gapless(Tail(wire), e, {})
  <2>1. Gapless(wire, d, {})
    BY DEF DeliveryInv, d
  <2>2. Gapless(Tail(wire), d, {} \cup h)
    BY <1>1, <2>1, GaplessTail DEF h
  <2> QED BY <1>2, <2>2, GaplessWeakens
<1>4. CASE handler # "live"
  BY <1>1, <1>4, <1>w DEF DeliveryInv, e
<1>5. CASE handler = "live"
  <2>1. /\ d \subseteq Carried(wire) \cup Carried(queue) \cup Pending
        /\ Gapless(queue, d, Carried(wire))
    BY <1>5 DEF DeliveryInv, d
  <2>2. Carried(wire) = Carried(Tail(wire)) \cup h
    BY <1>1, CarriedTail DEF h
  <2>5. Gapless(queue, e, Carried(Tail(wire)))
    BY <1>2, <2>1, <2>2, GaplessWeakens
  <2>6. e \subseteq Carried(Tail(wire)) \cup Carried(queue) \cup Pending
    BY <1>2, <2>1, <2>2
  <2>7. wire' = Tail(wire) /\ queue' = queue /\ Due' = e /\ handler' = "live"
    BY <1>5 DEF e
  <2> QED BY <1>3, <1>w, <2>5, <2>6, <2>7 DEF DeliveryInv
<1> QED BY <1>4, <1>5

\* Every row that the client lacks stays on its way.
LEMMA DeliveryStep ==
    ASSUME FeedInv, DeliveryInv, ScreenInv, [Next]_vars, NothingDropped, NothingDropped'
    PROVE  DeliveryInv'
<1>t. ServerInv /\ SocketInv /\ ViewInv /\ FetchInv /\ lost = {} /\ lost' = {} /\ older = None
      /\ older' = None
  BY DEF FeedInv, NothingDropped
<1> DEFINE K == Known(head, state)
<1>0. /\ queue \in Seq(K) /\ wire \in Seq(K) /\ head \in Nat /\ rows \in SUBSET (1 .. head)
      /\ cursor \in Nat /\ asked \in Nat /\ asked <= cursor /\ Gap \in K
      /\ \A c \in rows : c \in Nat
  <2>1. head \in Nat /\ rows \in SUBSET (1 .. head)
    BY <1>t DEF ServerInv
  <2>2. \A c \in rows : c \in Nat
    BY <2>1
  <2>3. cursor \in Nat /\ asked \in Nat
    BY <1>t, <2>1 DEF ViewInv
  <2> QED BY <1>t, <2>1, <2>2, <2>3, KnownMessages DEF SocketInv, ScreenInv
<1>k. \A x \in K : x # Gap => x.cursor \in 1 .. head
  BY <1>0, KnownMessages
<1>q. Carried(queue) \subseteq 1 .. head /\ Carried(wire) \subseteq 1 .. head
  <2>1. ASSUME NEW q \in Seq(K) PROVE Carried(q) \subseteq 1 .. head
    <3> SUFFICES ASSUME NEW c \in Carried(q) PROVE c \in 1 .. head
      OBVIOUS
    <3>1. PICK i \in 1 .. Len(q) : q[i] # Gap /\ q[i].cursor = c
      BY CarriedByIndex
    <3>2. q[i] \in K
      OBVIOUS
    <3> HIDE DEF K
    <3> QED BY <1>k, <3>1, <3>2
  <2> QED BY <1>0, <2>1
<1> HIDE DEF K
<1>i. handler = "live" => /\ Due \subseteq Carried(wire) \cup Carried(queue) \cup Pending
                          /\ Gapless(queue, Due, Carried(wire))
  BY DEF DeliveryInv
<1>w. Gapless(wire, Due, {})
  BY DEF DeliveryInv
\* Fewer rows are due.
<1>1. CASE UNCHANGED <<handler, wire, queue, unsent>> /\ Due' \subseteq Due
  <2>1. Pending' = Pending
    BY <1>1 DEF Pending
  <2> DEFINE d == Due
             e == Due'
  <2>2. e \subseteq d
    BY <1>1
  <2>3. /\ Gapless(wire, d, {})
        /\ handler = "live" => /\ d \subseteq Carried(wire) \cup Carried(queue) \cup Pending
                               /\ Gapless(queue, d, Carried(wire))
    BY <1>i, <1>w
  <2> HIDE DEF d, e
  <2>4. Gapless(wire, e, {}) /\ (handler = "live" => Gapless(queue, e, Carried(wire)))
    BY <2>2, <2>3, GaplessWeakens
  <2>5. wire' = wire /\ queue' = queue /\ handler' = handler /\ Due' = e
    BY <1>1 DEF e
  <2>6. handler = "accepted" => wire = <<>>
    BY DEF DeliveryInv
  <2> QED BY <2>1, <2>2, <2>3, <2>4, <2>5, <2>6 DEF DeliveryInv
<1>2. ASSUME NEW football \in BOOLEAN, Project(football)
      PROVE  DeliveryInv'
  <2>1. /\ unsent = None /\ head' = head + 1 /\ rows' = rows \cup {head + 1}
        /\ unsent' = Item(head + 1, IF football THEN state' ELSE None) /\ head < MaxRows
        /\ UNCHANGED <<handler, wire, queue, cursor>>
    BY <1>2 DEF Project, socketVars, viewVars
  <2>2. Due' \subseteq Due \cup {head + 1}
    BY <2>1 DEF Due
  <2>3. unsent' # Gap /\ unsent'.cursor = head + 1 /\ unsent' # None
    <3>1. unsent'.type = "timeline.item" /\ Gap.type = "resync_required"
      BY <2>1 DEF Item, Gap
    <3>2. head + 1 \in 1 .. MaxRows /\ state' \in LiveStates
      BY <1>0, <2>1, ServerStep, FeedAssumption DEF ServerInv
    <3>3. unsent'.cursor = head + 1
      BY <2>1 DEF Item
    <3>4. unsent' # None
      BY <2>1, <3>2, NoneAssumption DEF Messages
    <3> QED BY <3>1, <3>3, <3>4
  <2>4. Pending = {} /\ Pending' = {head + 1}
    BY <2>1, <2>3, CursorsOfMessages DEF Pending
  <2> DEFINE d == Due
             e == Due'
  <2>5. e \subseteq d \cup {head + 1}
    BY <2>2
  <2>6. /\ Gapless(wire, d, {})
        /\ handler = "live" => /\ d \subseteq Carried(wire) \cup Carried(queue)
                               /\ Gapless(queue, d, Carried(wire))
    BY <1>i, <1>w, <2>4
  <2> HIDE DEF d, e
  <2>7. \A c \in e : c \in d \/ c = head + 1
    BY <2>5
  <2>8. \A b \in Carried(wire) \cup Carried(queue) : ~(head + 1 < b)
    BY <1>0, <1>q
  <2>9. Gapless(wire, e, {}) /\ (handler = "live" => Gapless(queue, e, Carried(wire)))
    BY <2>6, <2>7, <2>8, GaplessWeakens
  <2>10. handler = "live" => e \subseteq Carried(wire) \cup Carried(queue) \cup {head + 1}
    BY <2>5, <2>6
  <2>11. wire' = wire /\ queue' = queue /\ handler' = handler /\ Due' = e
    BY <2>1 DEF e
  <2>12. handler = "accepted" => wire = <<>>
    BY DEF DeliveryInv
  <2> QED BY <2>4, <2>9, <2>10, <2>11, <2>12 DEF DeliveryInv
<1>3. CASE PublishItem \/ PublishReset
  <2>1. PICK m \in K : /\ Publish(m)
                       /\ (m = unsent /\ unsent # None /\ unsent' = None) \/ (m = Gap /\ unsent' = unsent)
    <3>1. CASE PublishItem
      BY <1>t, <3>1 DEF PublishItem, ServerInv, K
    <3>2. CASE PublishReset
      BY <1>0, <3>2 DEF PublishReset
    <3> QED BY <1>3, <3>1, <3>2
  <2>2. UNCHANGED <<handler, wire, rows, cursor>>
    BY <1>3 DEF PublishItem, PublishReset, viewVars
  <2>3. Due' = Due
    BY <2>2 DEF Due
  <2>4. Pending = Pending' \cup CursorsOf({m})
    <3>1. CASE m = unsent /\ unsent # None /\ unsent' = None
      BY <3>1 DEF Pending
    <3>2. CASE m = Gap /\ unsent' = unsent
      BY <3>2, CursorsOfMessages DEF Pending
    <3> QED BY <2>1, <3>1, <3>2
  <2>5. CASE handler # "live"
    <3>1. handler = "accepted" => wire = <<>>
      BY DEF DeliveryInv
    <3> QED BY <1>w, <2>2, <2>3, <2>5, <3>1 DEF DeliveryInv
  <2>6. CASE handler = "live"
    <3> DEFINE d == Due
    <3>1. /\ d \subseteq Carried(wire) \cup Carried(queue) \cup Pending
          /\ Gapless(wire, d, {}) /\ Gapless(queue, d, Carried(wire))
      BY <1>i, <1>w, <2>6
    <3>2. m # Gap => \A c \in d : c < m.cursor => c \in Carried(wire) \/ c \in Carried(queue)
      <4> SUFFICES ASSUME m # Gap, NEW c \in d, c < m.cursor
                   PROVE  c \in Carried(wire) \cup Carried(queue)
        OBVIOUS
      <4>1. m = unsent /\ unsent # None
        BY <2>1
      <4>2. Pending = {m.cursor}
        BY <4>1, CursorsOfMessages DEF Pending
      <4>3. m.cursor \in Nat /\ c \in Nat
        <5>1. m.cursor \in 1 .. head
          BY <1>k
        <5>2. c \in Nat
          BY <1>0 DEF Due
        <5> QED BY <5>1, <5>2
      <4>4. c # m.cursor
        BY <4>3
      <4> QED BY <3>1, <4>2, <4>4
    <3> HIDE DEF d
    <3>3. /\ Carried(queue') = Carried(queue) \cup CursorsOf({m})
          /\ Gapless(queue', d, Carried(wire))
      BY <1>t, <2>1, <2>6, <3>1, <3>2, PublishDelivers DEF K
    <3>4. d \subseteq Carried(wire) \cup Carried(queue') \cup Pending'
      BY <2>4, <3>1, <3>3
    <3>5. Due' = d /\ wire' = wire /\ handler' = "live"
      BY <2>2, <2>3, <2>6 DEF d
    <3> QED BY <3>1, <3>3, <3>4, <3>5 DEF DeliveryInv
  <2> QED BY <2>5, <2>6
<1>4. CASE Accept
  <2>1. handler' = "accepted" /\ wire' = <<>>
    BY <1>4 DEF Accept
  <2> QED BY <2>1, CarriedNothing DEF DeliveryInv
<1>5. CASE Replay
  <2>1. /\ handler = "accepted" /\ handler' = "live" /\ wire = <<>>
        /\ UNCHANGED <<rows, cursor, queue, unsent>>
    BY <1>5 DEF Replay, serverVars, viewVars, DeliveryInv
  <2>2. Due' = Due
    BY <2>1 DEF Due
  <2>3. ASSUME Due \subseteq Carried(wire'), Gapless(wire', Due, {})
        PROVE  DeliveryInv'
    <3> DEFINE d == Due
               D == Carried(wire')
    <3>1. d \subseteq D
      BY <2>3
    <3>2. queue' = queue /\ Due' = d /\ handler' = "live"
      BY <2>1, <2>2
    <3> HIDE DEF d
    <3>3. Gapless(queue, d, D)
      <4> HIDE DEF D
      <4> QED BY <3>1 DEF Gapless
    <3>4. Gapless(wire', d, {})
      BY <2>3 DEF d
    <3> QED BY <3>1, <3>2, <3>3, <3>4 DEF DeliveryInv
  <2>4. CASE asked > MaxOf(rows)
    <3>1. MaxOf(rows) \in Nat /\ \A c \in rows : c <= MaxOf(rows)
      <4>1. MaxOf(rows) \in 0 .. head /\ (rows # {} => \A c \in rows : c <= MaxOf(rows))
        BY <1>0, MaxOfIsGreatest
      <4> QED BY <1>0, <4>1
    <3>2. ASSUME NEW c \in Due PROVE FALSE
      <4>1. c \in rows /\ c \in Nat /\ c > cursor
        BY <1>0 DEF Due
      <4>2. c <= MaxOf(rows)
        BY <3>1, <4>1
      <4> QED BY <1>0, <2>4, <3>1, <4>1, <4>2
    <3>3. Due = {}
      BY <3>2
    <3> QED BY <2>3, <3>3 DEF Gapless
  <2>5. CASE ~(asked > MaxOf(rows))
    <3> DEFINE S == {c \in rows : c > asked}
    <3>1. PICK due \in InOrder(S) : wire' = wire \o [i \in DOMAIN due |-> Item(due[i], None)]
      BY <1>5, <2>5 DEF Replay
    <3> DEFINE sent == [i \in DOMAIN due |-> Item(due[i], None)]
    <3>2. S \in SUBSET (1 .. head)
      BY <1>0
    <3>3. Due \subseteq S
      <4> SUFFICES ASSUME NEW c \in rows, c > cursor PROVE c > asked
        BY DEF Due
      <4>1. c \in Nat
        BY <1>0
      <4> QED BY <1>0, <4>1
    <3> HIDE DEF S
    <3>4. Carried(sent) = S /\ Gapless(sent, S, {})
      BY <1>0, <3>2, ReplayIsGapless
    <3>5. sent \in Seq({Item(c, None) : c \in S})
      <4>1. IsFiniteSet(1 .. head)
        BY <1>0, FS_Interval
      <4>2. Cardinality(S) \in Nat
        BY <3>2, <4>1, FS_Subset, FS_CardinalityType
      <4>3. due \in [1 .. Cardinality(S) -> S]
        BY DEF InOrder
      <4>4. sent \in [1 .. Cardinality(S) -> {Item(c, None) : c \in S}]
        BY <4>3
      <4> QED BY <4>2, <4>4
    <3> HIDE DEF sent
    <3>6. wire' = sent
      <4>1. wire' = <<>> \o sent
        BY <2>1, <3>1 DEF sent
      <4> QED BY <3>5, <4>1, ConcatEmptySeq
    <3>7. Gapless(wire', Due, {})
      BY <3>3, <3>4, <3>6, GaplessWeakens
    <3> QED BY <2>3, <3>3, <3>4, <3>6, <3>7
  <2> QED BY <2>4, <2>5
<1>6. CASE Forward
  <2>1. /\ handler = "live" /\ queue # <<>> /\ wire' = Append(wire, Head(queue)) /\ queue' = Tail(queue)
        /\ UNCHANGED <<handler, rows, cursor, unsent>>
    BY <1>6 DEF Forward, serverVars, viewVars
  <2> DEFINE d == Due
             m == Head(queue)
  <2>2. /\ d \subseteq Carried(wire) \cup Carried(queue) \cup Pending
        /\ Gapless(wire, d, {}) /\ Gapless(queue, d, Carried(wire))
    BY <1>i, <1>w, <2>1
  <2>3. Due' = d /\ Pending' = Pending /\ handler' = "live"
    BY <2>1 DEF Due, Pending
  <2> HIDE DEF d
  <2>4. /\ Gapless(Tail(queue), d, Carried(wire) \cup CursorsOf({m}))
        /\ m # Gap => \A c \in d : c < m.cursor => c \in Carried(wire)
    BY <1>0, <2>1, <2>2, GaplessTail
  <2>5. Carried(queue) = Carried(Tail(queue)) \cup CursorsOf({m})
    BY <1>0, <2>1, CarriedTail
  <2>6. m \in K
    BY <1>0, <2>1, HeadTailProperties
  <2> HIDE DEF m
  <2>7. Gapless(Append(wire, m), d, {})
    BY <1>0, <2>2, <2>4, <2>6, GaplessAppend
  <2>8. Carried(Append(wire, m)) = Carried(wire) \cup CursorsOf({m})
    BY <1>0, <2>6, CarriedAppend
  <2>9. wire' = Append(wire, m) /\ queue' = Tail(queue)
    BY <2>1 DEF m
  <2> QED BY <2>2, <2>3, <2>4, <2>5, <2>7, <2>8, <2>9 DEF DeliveryInv
<1>7. CASE CutLink \/ BackendRestart
  <2>1. handler' = "none" /\ UNCHANGED <<wire, rows, cursor>>
    BY <1>7 DEF CutLink, BackendRestart, Unsubscribed, serverVars, viewVars
  <2>2. Due' = Due
    BY <2>1 DEF Due
  <2> QED BY <1>w, <2>1, <2>2 DEF DeliveryInv
<1>8. CASE OnResync \/ OnItem \/ OnDuplicate
  <2>1. /\ wire # <<>> /\ wire' = Tail(wire) /\ UNCHANGED <<handler, queue, unsent, rows>>
    BY <1>8 DEF OnResync, OnItem, OnDuplicate, serverVars
  <2>2. Head(wire) \in K
    BY <1>0, <2>1, HeadTailProperties
  <2>3. ASSUME NEW c \in Due' PROVE c \in Due /\ c \notin CursorsOf({Head(wire)})
    <3>1. c \in rows /\ c > cursor' /\ c \in Nat
      BY <1>0, <2>1 DEF Due
    <3>2. CASE OnResync
      <4>1. Head(wire) = Gap /\ cursor' = cursor
        BY <3>2 DEF OnResync, viewVars
      <4> QED BY <3>1, <4>1, CursorsOfMessages DEF Due
    <3>3. CASE OnItem \/ OnDuplicate
      <4> DEFINE m == Head(wire)
      <4>1. m # Gap /\ ((m.cursor > cursor /\ cursor' = m.cursor) \/ (m.cursor <= cursor /\ cursor' = cursor))
        BY <3>3 DEF OnItem, OnDuplicate, viewVars
      <4> HIDE DEF m
      <4>2. m.cursor \in Nat /\ CursorsOf({m}) = {m.cursor}
        <5>1. m.cursor \in 1 .. head
          BY <1>k, <2>2, <4>1 DEF m
        <5> QED BY <4>1, <5>1, CursorsOfMessages
      <4>3. c > cursor /\ c # m.cursor
        BY <1>0, <3>1, <4>1, <4>2
      <4> QED BY <3>1, <4>2, <4>3 DEF Due, m
    <3> QED BY <1>8, <3>2, <3>3
  <2> QED BY <1>t, <2>1, <2>3, ReceiptDelivers
<1>9. CASE OnClose
  <2>1. link = "cut" /\ handler' = handler /\ wire' = <<>>
    BY <1>9 DEF OnClose
  <2>2. handler' = "none"
    BY <1>t, <2>1 DEF SocketInv
  <2> QED BY <2>1, <2>2, CarriedNothing DEF DeliveryInv
<1>10. CASE ResetDemo \/ ReadState \/ ReadTimeline \/ ReadOlder \/ UNCHANGED vars
  <2>1. UNCHANGED <<handler, wire, queue, unsent, cursor>> /\ rows' \subseteq rows
    BY <1>10 DEF ResetDemo, ReadState, ReadTimeline, ReadOlder, vars, serverVars, socketVars, viewVars
  <2>2. Due' \subseteq Due
    BY <2>1 DEF Due
  <2> QED BY <1>1, <2>1, <2>2
<1>11. CASE FetchEnds
  <2>1. UNCHANGED <<handler, wire, queue, unsent, rows>> /\ cursor' \in Nat /\ cursor <= cursor'
    <3>1. /\ UNCHANGED <<handler, wire, queue, unsent, rows>>
          /\ fresh # None /\ (fresh.full => fresh.mark # Unread /\ fresh.page # Unread)
          /\ \/ fresh.full /\ cursor' = Larger(cursor, Larger(fresh.mark, MaxOf(fresh.page)))
             \/ cursor' = cursor
      BY <1>11 DEF FetchEnds, serverVars
    <3>2. CASE cursor' = cursor
      BY <1>0, <3>1, <3>2
    <3>3. CASE fresh.full /\ cursor' = Larger(cursor, Larger(fresh.mark, MaxOf(fresh.page)))
      <4>1. fresh \in Fetches(head)
        BY <1>t, <3>1 DEF FetchInv
      <4>2. fresh.mark \in 0 .. head /\ fresh.page \in SUBSET (1 .. head)
        BY <1>0, <3>1, <3>3, <4>1, FetchFields
      <4>3. fresh.mark \in Nat /\ MaxOf(fresh.page) \in Nat
        <5>1. MaxOf(fresh.page) \in 0 .. head
          BY <1>0, <4>2, MaxOfIsGreatest
        <5> QED BY <1>0, <4>2, <5>1
      <4> QED BY <1>0, <3>1, <3>3, <4>3 DEF Larger
    <3> QED BY <3>1, <3>2, <3>3
  <2>2. Due' \subseteq Due
    <3> SUFFICES ASSUME NEW c \in rows, c > cursor' PROVE c > cursor
      BY <2>1 DEF Due
    <3>1. c \in Nat
      BY <1>0
    <3> QED BY <1>0, <2>1, <3>1
  <2> QED BY <1>1, <2>1, <2>2
<1>12. CASE FetchFails \/ (\E kind \in Kinds, ok \in BOOLEAN : SupersededEnds(kind, ok))
               \/ (\E kind \in {"plain", "user"} : Refresh(kind)) \/ LoadOlder \/ OlderEnds
               \/ OlderFails \/ OnOpen \/ OpenFails \/ Reconnect
  <2>1. UNCHANGED <<handler, wire, queue, unsent, cursor, rows>>
    BY <1>12 DEF FetchFails, SupersededEnds, Refresh, LoadOlder, OlderEnds, OlderFails,
                 OnOpen, OpenFails, Reconnect, serverVars, socketVars, viewVars
  <2>2. Due' = Due
    BY <2>1 DEF Due
  <2> QED BY <1>1, <2>1, <2>2
<1> QED BY <1>2, <1>3, <1>4, <1>5, <1>6, <1>7, <1>8, <1>9, <1>10, <1>11, <1>12
        DEF Next, Server, Browser

\* The screen goes on to show the rows up to its cursor.
LEMMA ScreenStep ==
    ASSUME FeedInv, DeliveryInv, ScreenInv, [Next]_vars, NothingDropped, NothingDropped'
    PROVE  ScreenInv'
<1>t. ServerInv /\ SocketInv /\ ViewInv /\ FetchInv /\ ServerInv' /\ Forth /\ older = None /\ older' = None
  BY ServerStep DEF FeedInv, NothingDropped
<1>0. /\ head \in Nat /\ rows \in SUBSET (1 .. head) /\ cursor \in Nat /\ cursor <= head
      /\ asked \in Nat /\ asked <= cursor /\ Page \in Nat \ {0}
      /\ \A c \in rows : c \in Nat
      /\ \A c \in rows' : c \in Nat /\ (c \in rows \/ c > head)
      /\ \A d \in timeline : d \in Nat
  <2>1. head \in Nat /\ rows \in SUBSET (1 .. head) /\ head' \in Nat /\ rows' \in SUBSET (1 .. head')
    BY <1>t DEF ServerInv
  <2>2. (\A c \in rows : c \in Nat) /\ \A c \in rows' : c \in Nat
    BY <2>1
  <2>3. cursor \in Nat /\ cursor <= head /\ asked \in Nat
    BY <1>t, <2>1 DEF ViewInv
  <2>4. timeline \in SUBSET (1 .. head)
    BY <1>t DEF ViewInv
  <2>5. \A d \in timeline : d \in Nat
    BY <2>4
  <2> QED BY <1>t, <2>1, <2>2, <2>3, <2>5, FeedAssumption DEF ScreenInv, Forth
<1> DEFINE Up(f, c) == c <= cursor \/ c <= f.mark \/ (\E d \in f.page : c <= d)
           PageShows(f) == f.page # Unread =>
                              f.mark # Unread /\ \A c \in rows : Up(f, c) => Shows(f.page, c)
<1>i. /\ \A c \in rows : c <= cursor => Shows(timeline, c)
      /\ fresh # None => PageShows(fresh)
  BY DEF ScreenInv
<1>g. ASSUME asked' <= cursor', \A c \in rows' : c <= cursor' => Shows(timeline', c),
             fresh' # None => PageShows(fresh)'
      PROVE  ScreenInv'
  BY <1>g DEF ScreenInv
<1>n. (\E k \in Kinds, full \in BOOLEAN : fresh' = NewFetch(k, full)) => PageShows(fresh)'
  <2>1. \A k, full : NewFetch(k, full).page = Unread
    BY DEF NewFetch
  <2> QED BY <2>1
\* The page of a snapshot stays what it is: a new row is beyond all that it shows.
<1>p. ASSUME fresh # None, UNCHANGED cursor, fresh'.page = fresh.page, fresh'.mark = fresh.mark \/ fresh.page = Unread
      PROVE  PageShows(fresh)'
  <2> SUFFICES ASSUME fresh.page # Unread
               PROVE  fresh.mark # Unread /\ \A c \in rows' : Up(fresh, c)' => Shows(fresh.page, c)
    BY <1>p
  <2>1. fresh \in Fetches(head) /\ PageShows(fresh) /\ fresh.mark # Unread /\ fresh'.mark = fresh.mark
    BY <1>i, <1>p, <1>t DEF FetchInv
  <2>2. fresh.mark \in 0 .. head /\ fresh.page \in SUBSET (1 .. head)
    BY <1>0, <2>1, FetchFields
  <2>3. \A d \in fresh.page : d \in Nat /\ d <= head
    BY <1>0, <2>2
  <2>4. fresh.mark \in Nat /\ fresh.mark <= head
    BY <1>0, <2>2
  <2>5. ASSUME NEW c \in rows', Up(fresh, c)' PROVE Shows(fresh.page, c)
    <3>1. Up(fresh, c)
      BY <1>p, <2>1, <2>5
    <3>2. c <= head
      BY <1>0, <2>3, <2>4, <3>1
    <3>3. c \in rows
      BY <1>0, <3>2
    <3> QED BY <2>1, <3>1, <3>3
  <2> QED BY <2>1, <2>5
<1>r. ASSUME UNCHANGED <<cursor, timeline>> PROVE \A c \in rows' : c <= cursor' => Shows(timeline', c)
  <2> SUFFICES ASSUME NEW c \in rows', c <= cursor PROVE Shows(timeline, c)
    BY <1>r
  <2>1. c \in rows
    BY <1>0
  <2> QED BY <1>i, <2>1
<1> HIDE DEF PageShows, Up
<1>1. CASE UNCHANGED <<cursor, timeline, asked, fresh>>
  BY <1>0, <1>1, <1>g, <1>p, <1>r
<1>2. CASE BackendRestart
  <2>1. /\ UNCHANGED <<cursor, timeline, asked>>
        /\ fresh' = IF fresh = None THEN None ELSE [fresh EXCEPT !.dead = TRUE]
    BY <1>2 DEF BackendRestart, viewVars
  <2>2. fresh # None => fresh'.page = fresh.page /\ fresh'.mark = fresh.mark
    BY <1>t, <2>1 DEF FetchInv, Fetches
  <2>3. fresh' # None => PageShows(fresh)'
    BY <1>p, <2>1, <2>2
  <2> QED BY <1>0, <1>g, <1>r, <2>1, <2>3
<1>3. CASE ReadState
  <2>1. /\ UNCHANGED <<cursor, timeline, asked>> /\ fresh # None
        /\ fresh' = [fresh EXCEPT !.state = state]
    BY <1>3 DEF ReadState, viewVars, socketVars
  <2>2. fresh'.page = fresh.page /\ fresh'.mark = fresh.mark
    BY <1>t, <2>1 DEF FetchInv, Fetches
  <2>3. PageShows(fresh)'
    BY <1>p, <2>1, <2>2
  <2> QED BY <1>0, <1>g, <1>r, <2>1, <2>3
<1>4. CASE ReadTimeline
  <2>1. UNCHANGED <<cursor, timeline, asked, rows>> /\ fresh # None /\ fresh \in Fetches(head)
    BY <1>4, <1>t DEF ReadTimeline, viewVars, socketVars, serverVars, FetchInv
  <2>2. CASE fresh.mark = Unread /\ fresh' = [fresh EXCEPT !.mark = MaxOf(rows)]
    <3>1. fresh.page = Unread
      BY <1>i, <2>1, <2>2 DEF PageShows
    <3>2. fresh'.page = fresh.page
      BY <2>1, <2>2 DEF Fetches
    <3>3. PageShows(fresh)'
      BY <1>p, <2>1, <3>1, <3>2
    <3> QED BY <1>0, <1>g, <1>r, <2>1, <3>3
  <2>3. CASE fresh.mark # Unread /\ fresh' = [fresh EXCEPT !.page = Newest(rows, Page)]
    <3>1. fresh'.page = Newest(rows, Page) /\ fresh'.mark = fresh.mark
      BY <2>1, <2>3 DEF Fetches
    <3>2. \A c \in rows : Shows(Newest(rows, Page), c)
      BY <1>0, NewestShows
    <3>3. PageShows(fresh)'
      BY <2>1, <2>3, <3>1, <3>2 DEF PageShows
    <3> QED BY <1>0, <1>g, <1>r, <2>1, <3>3
  <2> QED BY <1>4, <2>2, <2>3 DEF ReadTimeline
<1>c. ASSUME NEW kind, NEW ok, Continue(kind, ok), cursor <= cursor', cursor' \in Nat
      PROVE  asked' <= cursor'
  <2>1. asked' = cursor' \/ asked' = asked
    BY <1>c DEF Continue
  <2> QED BY <1>0, <1>c, <2>1
\* The snapshot becomes the screen.
<1>5. CASE FetchEnds
  <2>1. /\ rows' = rows /\ fresh' = None /\ fresh # None /\ fresh \in Fetches(head)
        /\ \E kind : Continue(kind, TRUE)
    BY <1>5, <1>t DEF FetchEnds, serverVars, FetchInv
  <2>2. CASE ~fresh.full
    <3>1. UNCHANGED <<cursor, timeline>>
      BY <1>5, <2>2 DEF FetchEnds
    <3>2. cursor <= cursor' /\ cursor' \in Nat
      BY <1>0, <3>1
    <3>3. asked' <= cursor'
      BY <1>c, <2>1, <3>2
    <3> QED BY <1>g, <1>r, <2>1, <3>1, <3>3
  <2>3. CASE fresh.full
    <3>1. /\ fresh.mark # Unread /\ fresh.page # Unread /\ timeline' = fresh.page
          /\ cursor' = Larger(cursor, Larger(fresh.mark, MaxOf(fresh.page)))
      BY <1>5, <2>3 DEF FetchEnds
    <3>2. fresh.mark \in 0 .. head /\ fresh.page \in SUBSET (1 .. head)
      BY <1>0, <2>1, <3>1, FetchFields
    <3>3. /\ fresh.mark \in Nat /\ MaxOf(fresh.page) \in Nat
          /\ MaxOf(fresh.page) \in fresh.page \/ MaxOf(fresh.page) = 0
      <4>1. /\ MaxOf(fresh.page) \in 0 .. head
            /\ fresh.page # {} => MaxOf(fresh.page) \in fresh.page
        BY <1>0, <3>2, MaxOfIsGreatest
      <4>2. fresh.page = {} => MaxOf(fresh.page) = 0
        BY DEF MaxOf
      <4> QED BY <1>0, <3>2, <4>1, <4>2
    <3>4. cursor' \in Nat /\ cursor <= cursor' /\ cursor' \in {cursor, fresh.mark, MaxOf(fresh.page)}
      BY <1>0, <3>1, <3>3 DEF Larger
    <3>5. ASSUME NEW c \in rows, c <= cursor' PROVE Shows(fresh.page, c)
      <4>1. c \in Nat /\ c \in 1 .. head
        BY <1>0
      <4>2. Up(fresh, c)
        <5>1. CASE cursor' = cursor
          BY <3>5, <5>1 DEF Up
        <5>2. CASE cursor' = fresh.mark
          BY <3>5, <5>2 DEF Up
        <5>3. CASE cursor' = MaxOf(fresh.page)
          <6>1. MaxOf(fresh.page) # 0
            BY <3>5, <4>1, <5>3
          <6> QED BY <3>3, <3>5, <5>3, <6>1 DEF Up
        <5> QED BY <3>4, <5>1, <5>2, <5>3
      <4> QED BY <1>i, <2>1, <3>1, <4>2 DEF PageShows
    <3>6. asked' <= cursor'
      BY <1>c, <2>1, <3>4
    <3> QED BY <1>g, <2>1, <3>1, <3>5, <3>6
  <2> QED BY <2>2, <2>3 DEF Fetches
<1>6. CASE FetchFails
  <2>1. UNCHANGED <<cursor, timeline>> /\ fresh' = None /\ \E kind : Continue(kind, FALSE)
    BY <1>6 DEF FetchFails, viewVars
  <2>2. cursor <= cursor' /\ cursor' \in Nat
    BY <1>0, <2>1
  <2>3. asked' <= cursor'
    BY <1>c, <2>1, <2>2
  <2> QED BY <1>g, <1>r, <2>1, <2>3
<1>7. CASE \E kind \in Kinds, ok \in BOOLEAN : SupersededEnds(kind, ok)
  <2>1. UNCHANGED <<cursor, timeline, fresh>> /\ \E kind, ok : Continue(kind, ok)
    BY <1>7 DEF SupersededEnds, viewVars
  <2>2. fresh' # None => PageShows(fresh)'
    BY <1>p, <2>1
  <2>3. cursor <= cursor' /\ cursor' \in Nat
    BY <1>0, <2>1
  <2>4. asked' <= cursor'
    BY <1>c, <2>1, <2>3
  <2> QED BY <1>g, <1>r, <2>1, <2>2, <2>4
<1>8. CASE OnOpen \/ OnResync \/ Reconnect \/ \E kind \in {"plain", "user"} : Refresh(kind)
  <2>1. /\ UNCHANGED <<cursor, timeline, asked>>
        /\ \E k \in Kinds, full \in BOOLEAN : fresh' = NewFetch(k, full)
    BY <1>8 DEF OnOpen, OnResync, Reconnect, Refresh, StartFetch, Kinds, viewVars, socketVars
  <2> QED BY <1>0, <1>g, <1>n, <1>r, <2>1
\* A notification is the next row.
<1>9. CASE OnItem
  <2> DEFINE m == Head(wire)
  <2>1. /\ wire # <<>> /\ m # Gap /\ m.cursor > cursor /\ cursor' = m.cursor
        /\ timeline' = timeline \cup {m.cursor} /\ rows' = rows /\ asked' = asked
        /\ \E k \in Kinds, full \in BOOLEAN : fresh' = NewFetch(k, full)
    BY <1>9 DEF OnItem, StartFetch, Kinds, serverVars
  <2>2. m \in Known(head, state) /\ wire \in Seq(Known(head, state))
    BY <1>t, <2>1, HeadTailProperties DEF SocketInv
  <2>3. m.cursor \in 1 .. head
    BY <1>0, <2>1, <2>2, KnownMessages
  <2>4. ASSUME NEW c \in rows, c > cursor, c < m.cursor PROVE FALSE
    <3> DEFINE d == Due
               none == {}
               K == Known(head, state)
    <3>1. c \in d /\ Gapless(wire, d, none) /\ wire \in Seq(K)
      BY <2>2, <2>4 DEF Due, DeliveryInv
    <3> HIDE DEF d, none, K
    <3>2. m # Gap => \A b \in d : b < m.cursor => b \in none
      BY <2>1, <3>1, GaplessTail
    <3> QED BY <2>1, <2>4, <3>1, <3>2 DEF none
  <2> HIDE DEF m
  <2>6. ASSUME NEW c \in rows, c <= m.cursor PROVE Shows(timeline \cup {m.cursor}, c)
    <3>1. c \in Nat /\ m.cursor \in Nat
      BY <1>0, <2>3
    <3>2. CASE c = m.cursor
      BY <3>2 DEF Shows
    <3>3. CASE c <= cursor
      <4>1. Shows(timeline, c) /\ c < m.cursor
        BY <1>0, <1>i, <2>1, <3>1, <3>3
      <4> QED BY <4>1 DEF Shows
    <3> QED BY <1>0, <2>4, <2>6, <3>1, <3>2, <3>3
  <2>7. asked' <= cursor'
    <3>1. m.cursor \in Nat
      BY <2>3
    <3> QED BY <1>0, <2>1, <3>1
  <2>8. \A c \in rows' : c <= cursor' => Shows(timeline', c)
    BY <2>1, <2>6
  <2> QED BY <1>g, <1>n, <2>1, <2>7, <2>8
<1>10. CASE OlderEnds \/ LoadOlder \/ OlderFails \/ ReadOlder
  <2>1. UNCHANGED <<cursor, asked, fresh>> /\ (OlderEnds \/ timeline' = timeline)
    BY <1>10 DEF OlderEnds, LoadOlder, OlderFails, ReadOlder, viewVars, socketVars, fetchVars
  <2>2. ~OlderEnds
    BY <1>t DEF OlderEnds
  <2> QED BY <1>1, <2>1, <2>2
<1>11. CASE (\E football \in BOOLEAN : Project(football)) \/ PublishItem \/ ResetDemo \/ PublishReset
               \/ Accept \/ Replay \/ Forward \/ CutLink \/ UNCHANGED vars
  <2>1. UNCHANGED <<cursor, timeline, asked, fresh>>
    BY <1>11 DEF Project, PublishItem, ResetDemo, PublishReset, Accept, Replay, Forward, CutLink,
                 vars, viewVars, socketVars, fetchVars
  <2> QED BY <1>1, <2>1
<1>12. CASE OnDuplicate \/ OnClose \/ OpenFails
  <2>1. UNCHANGED <<cursor, timeline, asked, fresh>>
    BY <1>12 DEF OnDuplicate, OnClose, OpenFails, viewVars, socketVars, fetchVars
  <2> QED BY <1>1, <2>1
<1> QED BY <1>2, <1>3, <1>4, <1>5, <1>6, <1>7, <1>8, <1>9, <1>10, <1>11, <1>12
        DEF Next, Server, Browser

\* A browser that follows a feed without overflow, and asks for no older page, has no hole
\* in its timeline when it comes to rest, through resets, cut links, restarts, replays and
\* snapshots that race the notifications (useLivePulse, websocket_endpoint).
THEOREM CompleteUnlessDropped ==
    Spec /\ []NothingDropped => []TimelineIsComplete
<1>1. Init => DeliveryInv /\ ScreenInv
  <2> SUFFICES ASSUME Init PROVE DeliveryInv /\ ScreenInv
    OBVIOUS
  <2>1. /\ handler = "none" /\ rows = {} /\ asked = 0 /\ cursor = 0 /\ fresh = NewFetch("connect", TRUE)
    BY DEF Init
  <2>2. fresh.page = Unread
    BY <2>1 DEF NewFetch
  <2>3. wire = <<>>
    BY DEF Init
  <2>4. DeliveryInv
    BY <2>1, <2>3, CarriedNothing DEF DeliveryInv
  <2>5. asked <= cursor
    BY <2>1
  <2>6. ScreenInv
    BY <2>1, <2>2, <2>5, Zenon DEF ScreenInv
  <2> QED BY <2>4, <2>6
<1>2. /\ FeedInv /\ DeliveryInv /\ ScreenInv /\ [Next]_vars /\ NothingDropped /\ NothingDropped'
      => (DeliveryInv /\ ScreenInv)'
  BY DeliveryStep, ScreenStep
<1>3. ASSUME FeedInv, DeliveryInv, ScreenInv PROVE TimelineIsComplete
  <2> SUFFICES ASSUME Quiet PROVE (\A c \in rows \ timeline, d \in timeline : c < d)
                                  /\ (rows # {} => timeline # {})
    BY DEF TimelineIsComplete
  <2>1. handler = "live" /\ unsent = None /\ queue = <<>> /\ wire = <<>>
    BY DEF Quiet
  <2>2. Due = {}
    BY <1>3, <2>1, CarriedNothing DEF DeliveryInv, Pending
  <2>3. cursor \in Nat /\ \A c \in rows : c \in Nat
    BY <1>3 DEF FeedInv, ServerInv, ViewInv
  <2>4. \A c \in rows : c <= cursor
    BY <2>2, <2>3 DEF Due
  <2>5. \A c \in rows : Shows(timeline, c)
    BY <1>3, <2>4 DEF ScreenInv
  <2> QED BY <2>5 DEF Shows
<1> QED BY <1>1, <1>2, <1>3, FeedInvariant, PTL DEF Spec

\* A queue as long as there are notifications never overflows: what waits in it, or for it,
\* is no more than what was ever announced.
RoomInv ==
    /\ NothingDropped /\ olders = 0
    /\ Len(queue) + (IF unsent = None THEN 0 ELSE 1) + (IF resetting THEN 1 ELSE 0) <= head + resets

LEMMA RoomStep ==
    ASSUME MaxOlder = 0, MaxRows + MaxResets <= QueueSize, FeedInv, RoomInv, [Next]_vars
    PROVE  RoomInv'
<1> DEFINE u == IF unsent = None THEN 0 ELSE 1
           r == IF resetting THEN 1 ELSE 0
           v == IF unsent' = None THEN 0 ELSE 1
           s == IF resetting' THEN 1 ELSE 0
<1>0. /\ head \in Nat /\ resets \in Nat /\ head <= MaxRows /\ resets <= MaxResets
      /\ Len(queue) \in Nat /\ u \in Nat /\ r \in Nat /\ v \in Nat /\ s \in Nat
      /\ v <= 1 /\ s <= 1
      /\ MaxRows \in Nat /\ MaxResets \in Nat /\ QueueSize \in Nat
  BY FeedAssumption DEF FeedInv, ServerInv, SocketInv
<1>1. lost = {} /\ older = None /\ olders = 0 /\ Len(queue) + u + r <= head + resets
  BY DEF RoomInv, NothingDropped
<1>g. lost' = {} /\ older' = None /\ olders' = 0 /\ Len(queue') + v + s <= head' + resets'
        => RoomInv'
  BY DEF RoomInv, NothingDropped
<1>2. CASE UNCHANGED <<queue, lost, unsent, resetting, head, resets, older, olders>>
  BY <1>1, <1>2, <1>g
<1>3. ASSUME NEW m \in Known(head, state), Publish(m), UNCHANGED <<head, resets, older, olders>>,
             \/ unsent # None /\ unsent' = None /\ resetting' = resetting
             \/ resetting /\ ~resetting' /\ unsent' = unsent
      PROVE  RoomInv'
  <2>1. v + s + 1 = u + r
    BY <1>3
  <2> HIDE DEF u, r, v, s
  <2>2. Len(queue) < QueueSize
    <3>1. u + r >= 1 /\ MaxRows + MaxResets <= QueueSize
      BY <1>0, <2>1
    <3> QED BY <1>0, <1>1, <3>1
  <2>3. queue' \in {queue, Append(queue, m)} /\ lost' = lost
    BY <1>0, <1>3, <2>2 DEF Publish
  <2>4. queue \in Seq(Known(head, state))
    BY DEF FeedInv, SocketInv
  <2>5. Len(queue') \in Nat /\ Len(queue') <= Len(queue) + 1
    BY <1>0, <1>3, <2>3, <2>4, AppendProperties
  <2>6. Len(queue') + v + s <= head + resets
    BY <1>0, <1>1, <2>1, <2>5
  <2> QED BY <1>1, <1>3, <1>g, <2>3, <2>6
<1>4. CASE PublishItem
  <2>1. /\ Publish(unsent) /\ unsent # None /\ unsent' = None
        /\ UNCHANGED <<head, resets, older, olders, resetting>>
    BY <1>4 DEF PublishItem, boundVars
  <2>2. unsent \in Known(head, state)
    BY <2>1 DEF FeedInv, ServerInv
  <2> QED BY <1>3, <2>1, <2>2
<1>5. CASE PublishReset
  <2>1. Publish(Gap) /\ resetting /\ ~resetting' /\ UNCHANGED <<head, resets, older, olders, unsent>>
    BY <1>5 DEF PublishReset, boundVars
  <2>2. Gap \in Known(head, state)
    BY <1>0, KnownMessages
  <2> QED BY <1>3, <2>1, <2>2
<1>6. ASSUME NEW football \in BOOLEAN, Project(football)
      PROVE  RoomInv'
  <2>1. /\ unsent = None /\ head' = head + 1
        /\ UNCHANGED <<resetting, resets, queue, lost, older, olders>>
    BY <1>6 DEF Project, socketVars, boundVars
  <2>2. u = 0 /\ s = r
    BY <2>1
  <2> HIDE DEF u, r, v, s
  <2> QED BY <1>0, <1>1, <1>g, <2>1, <2>2
<1>7. CASE ResetDemo
  <2>1. /\ ~resetting /\ resets' = resets + 1
        /\ UNCHANGED <<unsent, head, queue, lost, older, olders>>
    BY <1>7 DEF ResetDemo, socketVars, boundVars
  <2>2. r = 0 /\ v = u
    BY <2>1
  <2> HIDE DEF u, r, v, s
  <2> QED BY <1>0, <1>1, <1>g, <2>1, <2>2
<1>8. CASE Accept \/ CutLink \/ BackendRestart
  <2>1. /\ queue' = <<>> /\ lost' = {} /\ UNCHANGED <<head, resets, older, olders>>
        /\ unsent' \in {unsent, None} /\ (resetting' = resetting \/ ~resetting')
    BY <1>8 DEF Accept, CutLink, BackendRestart, Unsubscribed, serverVars, boundVars
  <2>2. v <= u /\ s <= r
    <3>1. v = u \/ v = 0
      BY <2>1
    <3>2. s = r \/ s = 0
      BY <2>1
    <3> HIDE DEF u, r, v, s
    <3> QED BY <1>0, <3>1, <3>2
  <2>3. Len(queue') = 0
    BY <2>1
  <2> HIDE DEF u, r, v, s
  <2>4. Len(queue') + v + s <= head + resets
    BY <1>0, <1>1, <2>2, <2>3
  <2> QED BY <1>1, <1>g, <2>1, <2>4
<1>9. CASE Forward
  <2>1. queue # <<>> /\ queue' = Tail(queue)
        /\ UNCHANGED <<lost, unsent, resetting, head, resets, older, olders>>
    BY <1>9 DEF Forward, serverVars, boundVars
  <2>2. Len(queue') = Len(queue) - 1
    BY <2>1, HeadTailProperties DEF FeedInv, SocketInv
  <2>3. v = u /\ s = r
    BY <2>1
  <2> HIDE DEF u, r, v, s
  <2> QED BY <1>0, <1>1, <1>g, <2>1, <2>2, <2>3
<1>10. CASE Replay \/ ReadState \/ ReadTimeline \/ ReadOlder \/ UNCHANGED vars
  <2>1. ~ReadOlder
    BY <1>1 DEF ReadOlder
  <2>2. UNCHANGED <<queue, lost, unsent, resetting, head, resets, older, olders>>
    BY <1>10, <2>1 DEF Replay, ReadState, ReadTimeline, vars, serverVars, socketVars, boundVars
  <2> QED BY <1>2, <2>2
<1>11. CASE Browser /\ ~OnResync
  <2>1. ~LoadOlder /\ ~OlderEnds /\ ~OlderFails
    BY <1>1 DEF LoadOlder, OlderEnds, OlderFails
  <2>2. UNCHANGED <<queue, lost, unsent, resetting, head, resets, older, olders>>
    BY <1>11, <2>1 DEF Browser, FetchEnds, FetchFails, SupersededEnds, Refresh, OnOpen, OnItem,
                       OnDuplicate, OnClose, OpenFails, Reconnect, serverVars, socketVars, boundVars
  <2> QED BY <1>2, <2>2
<1>12. CASE OnResync
  <2>1. lost' = {} /\ UNCHANGED <<queue, unsent, resetting, head, resets, older, olders>>
    BY <1>12 DEF OnResync, serverVars, boundVars
  <2> QED BY <1>1, <1>g, <2>1
<1> QED BY <1>4, <1>5, <1>6, <1>7, <1>8, <1>9, <1>10, <1>11, <1>12 DEF Next, Server

\* With a queue that holds every notification there can be, and no older pages, the
\* timeline at rest is complete, whatever faults, resets and refreshes come between.
THEOREM CompleteWithRoom ==
    ASSUME MaxOlder = 0, MaxRows + MaxResets <= QueueSize
    PROVE  Spec => []TimelineIsComplete
<1>1. Init => RoomInv
  <2> SUFFICES ASSUME Init PROVE RoomInv
    OBVIOUS
  <2>1. /\ lost = {} /\ older = None /\ olders = 0 /\ queue = <<>> /\ unsent = None
        /\ resetting = FALSE /\ head = 0 /\ resets = 0
    BY DEF Init
  <2>2. Len(queue) = 0
    BY <2>1
  <2> QED BY <2>1, <2>2 DEF RoomInv, NothingDropped
<1>2. FeedInv /\ RoomInv /\ [Next]_vars => RoomInv'
  BY RoomStep
<1>3. RoomInv => NothingDropped
  BY DEF RoomInv
<1> QED BY <1>1, <1>2, <1>3, FeedInvariant, CompleteUnlessDropped, PTL DEF Spec
=============================================================================
