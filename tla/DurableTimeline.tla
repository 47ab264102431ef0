--------------------------- MODULE DurableTimeline --------------------------
(***************************************************************************)
(* What the event path promises, without its machinery: a fact, named by    *)
(* its dedupe key, is accepted once, shown once and, after that, retired;   *)
(* facts of the simulator may also be discarded at any time.  There is no   *)
(* step back, so nothing is lost, repeated or resurrected.                  *)
(***************************************************************************)
EXTENDS Integers, Sequences

CONSTANTS Key,          \* facts
          Discardable   \* the facts a demo reset may remove

VARIABLES fact,  \* how far each fact has come
          feed   \* the facts in the order of their timeline cursors

factVars == <<fact, feed>>

FactStates == {"unseen", "accepted", "shown", "retired", "discarded"}

Init ==
    /\ fact = [k \in Key |-> "unseen"]
    /\ feed = <<>>

Become(K, state) == [k \in Key |-> IF k \in K THEN state ELSE fact[k]]

\* A source reports a fact for the first time.
Accept(k) ==
    /\ fact[k] = "unseen"
    /\ fact' = Become({k}, "accepted")
    /\ UNCHANGED feed

\* The fact gets its place in the timeline.
Show(k) ==
    /\ fact[k] = "accepted"
    /\ fact' = Become({k}, "shown")
    /\ feed' = Append(feed, k)

\* Retention removes facts that have been shown.
Retire(K) ==
    /\ \A k \in K : fact[k] = "shown"
    /\ fact' = Become(K, "retired")
    /\ UNCHANGED feed

\* A reset (or a failed simulator run) ends the life of demo facts.
Discard(K) ==
    /\ \A k \in K : fact[k] \in {"unseen", "accepted", "shown"}
    /\ fact' = Become(K, "discarded")
    /\ UNCHANGED feed

Next ==
    \/ \E k \in Key : Accept(k) \/ Show(k)
    \/ \E K \in SUBSET Key : Retire(K)
    \/ \E K \in SUBSET Discardable : Discard(K)

Spec == Init /\ [][Next]_factVars

\* An accepted fact does not wait for ever.
FairSpec == Spec /\ \A k \in Key : WF_factVars(Show(k))
=============================================================================
