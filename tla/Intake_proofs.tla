---------------------------- MODULE Intake_proofs ----------------------------
(***************************************************************************)
(* Proofs about the providers' intakes: GitHub, weather, Spotify, Gmail.    *)
(***************************************************************************)
EXTENDS GithubIntake, WeatherIntake, SpotifyPlayback, GmailSync,
        SequenceTheorems, FiniteSetTheorems, WellFoundedInduction, TLAPS

-----------------------------------------------------------------------------
(* Numbers and sequences                                                    *)

\* A set of naturals that is not empty has a least element.
LEMMA LeastNatural ==
    ASSUME NEW S \in SUBSET Nat, S # {}
    PROVE  \E x \in S : \A y \in S : x <= y
<1> DEFINE R == OpToRel(<, Nat)
<1>1. \A x, y \in Nat : <<y, x>> \in R <=> y < x
  BY DEF OpToRel
<1>2. IsWellFoundedOn(R, Nat)
  BY NatLessThanWellFounded
<1> HIDE DEF R
<1>3. PICK x \in S : \A y \in S : ~(<<y, x>> \in R)
  BY <1>2, WFMin
<1>4. ASSUME NEW y \in S PROVE x <= y
  <2>1. x \in Nat /\ y \in Nat
    OBVIOUS
  <2>2. ~(y < x)
    BY <1>1, <1>3, <2>1
  <2> QED BY <2>1, <2>2
<1> QED BY <1>4

LEMMA MinIsLeast ==
    ASSUME NEW S \in SUBSET Nat, S # {}
    PROVE  Min(S) \in S /\ \A y \in S : Min(S) <= y
  BY LeastNatural DEF Min

\* A list without one of its entries has no other entries than before.
LEMMA RemoveFirstKeeps ==
    ASSUME NEW T, NEW q \in Seq(T), NEW w
    PROVE  /\ RemoveFirst(q, w) \in Seq(T)
           /\ \A i \in 1 .. Len(RemoveFirst(q, w)) :
                 \E j \in 1 .. Len(q) : RemoveFirst(q, w)[i] = q[j]
<1>1. CASE \E i \in 1 .. Len(q) : q[i] = w
  <2> DEFINE I == {i \in 1 .. Len(q) : q[i] = w}
             k == Min(I)
             left == SubSeq(q, 1, k - 1)
             right == SubSeq(q, k + 1, Len(q))
  <2>1. I \in SUBSET Nat /\ I # {}
    BY <1>1
  <2>2. k \in I
    <3> HIDE DEF I
    <3> QED BY <2>1, MinIsLeast
  <2>3. RemoveFirst(q, w) = left \o right
    BY <1>1 DEF RemoveFirst, RemoveAt, SelectInSeq
  <2>4. k \in 1 .. Len(q)
    BY <2>2
  <2> HIDE DEF k
  <2>5. /\ left \in Seq(T) /\ Len(left) = k - 1
        /\ \A i \in 1 .. Len(left) : left[i] = q[i]
    BY <2>4
  <2>6. /\ right \in Seq(T) /\ Len(right) = Len(q) - k
        /\ \A i \in 1 .. Len(right) : right[i] = q[k + i]
    BY <2>4
  <2> HIDE DEF left, right
  <2>7. left \o right \in Seq(T)
    BY <2>5, <2>6
  <2>8. ASSUME NEW i \in 1 .. Len(left \o right)
        PROVE  \E j \in 1 .. Len(q) : (left \o right)[i] = q[j]
    <3>a. /\ Len(left \o right) = Len(left) + Len(right)
          /\ \A j \in 1 .. Len(left) + Len(right) :
                (left \o right)[j] = IF j <= Len(left) THEN left[j] ELSE right[j - Len(left)]
      BY <2>5, <2>6, ConcatProperties, Zenon
    <3>0. /\ Len(left \o right) = Len(left) + Len(right)
          /\ (left \o right)[i] = IF i <= Len(left) THEN left[i] ELSE right[i - Len(left)]
      BY <3>a, Zenon
    <3>1. CASE i <= Len(left)
      BY <2>4, <2>5, <3>0, <3>1
    <3>2. CASE i > Len(left)
      <4>1. (left \o right)[i] = right[i - Len(left)] /\ i - Len(left) \in 1 .. Len(right)
        BY <2>5, <2>6, <3>0, <3>2
      <4>2. right[i - Len(left)] = q[k + (i - Len(left))] /\ k + (i - Len(left)) \in 1 .. Len(q)
        BY <2>4, <2>5, <2>6, <4>1
      <4> QED BY <4>1, <4>2
    <3> QED BY <3>1, <3>2, <2>5, <2>6
  <2> QED BY <2>3, <2>7, <2>8
<1>2. CASE ~ \E i \in 1 .. Len(q) : q[i] = w
  BY <1>2 DEF RemoveFirst
<1> QED BY <1>1, <1>2

-----------------------------------------------------------------------------
(* GithubIntake                                                             *)

RunStates == [attempt : Nat, status : {"queued", "in_progress", "completed"},
              conclusion : Conclusion \cup {"none"}]

\* Every change that can happen to a resource.
Changes ==
    {PullOpened(p) : p \in Pull} \cup {PullMerged(p) : p \in Pull}
    \cup {RunStarted(r, n) : r \in Run, n \in Nat}
    \cup {RunOutcome(r, n, c) : r \in Run, n \in Nat, c \in Conclusion \cup {"none"}}
    \cup {Deployed(d, st, n) : d \in Deployment, st \in DeployState, n \in Nat}

\* One of the deliveries is for the change.
Sent(ds, c) == \E i \in 1 .. Len(ds) : c \in ds[i]

GithubTypes ==
    /\ pulls \in [Pull -> {"none", "open", "merged"}]
    /\ recent \in Seq(Pull)
    /\ runs \in [Run -> RunStates]
    /\ deploys \in [Deployment -> Seq(DeployState)]
    /\ deliveries \in Seq(SUBSET Changes)
    /\ claims \subseteq 1 .. Len(deliveries)
    /\ recon.pc \in {"idle", "runs", "deployments", "filter", "store"}

\* What GitHub would list was delivered, under the same keys.
PullsAreSent ==
    /\ \A i \in 1 .. Len(recent) : pulls[recent[i]] # "none"
    /\ \A p \in Pull : /\ pulls[p] # "none" => Sent(deliveries, PullOpened(p))
                       /\ pulls[p] = "merged" => Sent(deliveries, PullMerged(p))
RunsAreSent ==
    \A r \in Run :
        /\ runs[r].status # "queued" => Sent(deliveries, RunStarted(r, runs[r].attempt))
        /\ runs[r].status = "completed" /\ runs[r].conclusion \notin Unreported
              => Sent(deliveries, RunOutcome(r, runs[r].attempt, runs[r].conclusion))
DeploymentsAreSent ==
    \A d \in Deployment :
        deploys[d] # <<>> /\ Last(deploys[d]) \notin Unreported
            => Sent(deliveries, Deployed(d, Last(deploys[d]), Len(deploys[d])))

GithubInv ==
    /\ GithubTypes
    /\ PullsAreSent /\ RunsAreSent /\ DeploymentsAreSent
    /\ \A c \in recon.found \cup facts : Sent(deliveries, c)
    /\ DeliveriesAreStored

\* A new delivery keeps the old ones.
LEMMA DeliverKeeps ==
    ASSUME GithubTypes, NEW changes \in SUBSET Changes, Deliver(changes)
    PROVE  /\ deliveries' \in Seq(SUBSET Changes)
           /\ Len(deliveries') = Len(deliveries) + 1
           /\ \A i \in 1 .. Len(deliveries) : deliveries'[i] = deliveries[i]
           /\ \A c \in changes : Sent(deliveries', c)
           /\ \A c : Sent(deliveries, c) => Sent(deliveries', c)
<1>1. /\ deliveries' \in Seq(SUBSET Changes)
      /\ Len(deliveries') = Len(deliveries) + 1
      /\ \A i \in 1 .. Len(deliveries) : deliveries'[i] = deliveries[i]
      /\ deliveries'[Len(deliveries) + 1] = changes
  BY AppendProperties DEF Deliver, GithubTypes
<1>2. Len(deliveries) \in Nat
  BY DEF GithubTypes
<1>3. \A c \in changes : Sent(deliveries', c)
  BY <1>1, <1>2 DEF Sent
<1>4. \A c : Sent(deliveries, c) => Sent(deliveries', c)
  BY <1>1, <1>2 DEF Sent
<1> QED BY <1>1, <1>3, <1>4

\* What a delivery leaves to prove about the resources.
LEMMA DeliverStep ==
    ASSUME GithubInv, NEW changes \in SUBSET Changes, Deliver(changes),
           pulls' \in [Pull -> {"none", "open", "merged"}], recent' \in Seq(Pull),
           runs' \in [Run -> RunStates], deploys' \in [Deployment -> Seq(DeployState)],
           PullsAreSent', RunsAreSent', DeploymentsAreSent'
    PROVE  GithubInv'
<1>1. UNCHANGED <<claims, facts, recon>>
  BY DEF Deliver
<1>2. /\ deliveries' \in Seq(SUBSET Changes)
      /\ Len(deliveries') = Len(deliveries) + 1
      /\ \A i \in 1 .. Len(deliveries) : deliveries'[i] = deliveries[i]
      /\ \A c : Sent(deliveries, c) => Sent(deliveries', c)
  BY DeliverKeeps DEF GithubInv
<1>3. Len(deliveries) \in Nat
  BY DEF GithubInv, GithubTypes
<1>4. GithubTypes'
  BY <1>1, <1>2, <1>3 DEF GithubInv, GithubTypes
<1>5. \A c \in recon'.found \cup facts' : Sent(deliveries', c)
  BY <1>1, <1>2 DEF GithubInv
<1>6. DeliveriesAreStored'
  BY <1>1, <1>2 DEF GithubInv, GithubTypes, DeliveriesAreStored
<1> QED BY <1>4, <1>5, <1>6 DEF GithubInv

LEMMA PullStep == GithubInv /\ PullChanges => GithubInv'
<1> SUFFICES ASSUME GithubInv, PullChanges PROVE GithubInv'
  OBVIOUS
<1>t. GithubTypes /\ PullsAreSent /\ RunsAreSent /\ DeploymentsAreSent
  BY DEF GithubInv
<1>1. PICK p \in Pull :
         \/ /\ pulls[p] = "none"
            /\ pulls' = [pulls EXCEPT ![p] = "open"]
            /\ recent' = <<p>> \o recent
            /\ Deliver({PullOpened(p)})
         \/ /\ pulls[p] = "open"
            /\ pulls' = [pulls EXCEPT ![p] = "merged"]
            /\ recent' = <<p>> \o RemoveFirst(recent, p)
            /\ Deliver({PullMerged(p)})
  BY DEF PullChanges
<1>2. UNCHANGED <<runs, deploys>>
  BY DEF PullChanges
<1>3. PICK changes \in SUBSET Changes : Deliver(changes) /\
         \/ changes = {PullOpened(p)} /\ pulls[p] = "none" /\ pulls' = [pulls EXCEPT ![p] = "open"]
         \/ changes = {PullMerged(p)} /\ pulls[p] = "open" /\ pulls' = [pulls EXCEPT ![p] = "merged"]
  <2>1. {PullOpened(p)} \in SUBSET Changes /\ {PullMerged(p)} \in SUBSET Changes
    BY DEF Changes
  <2> QED BY <1>1, <2>1
<1>4. (\A c \in changes : Sent(deliveries', c)) /\ (\A c : Sent(deliveries, c) => Sent(deliveries', c))
  BY <1>3, <1>t, DeliverKeeps
<1>5. pulls' \in [Pull -> {"none", "open", "merged"}]
  BY <1>3, <1>t DEF GithubTypes
<1>6. PICK rest \in Seq(Pull) :
         /\ recent' = <<p>> \o rest
         /\ \A i \in 1 .. Len(rest) : \E j \in 1 .. Len(recent) : rest[i] = recent[j]
  <2>1. RemoveFirst(recent, p) \in Seq(Pull) /\ recent \in Seq(Pull)
    BY <1>t, RemoveFirstKeeps DEF GithubTypes
  <2>2. \A i \in 1 .. Len(RemoveFirst(recent, p)) :
            \E j \in 1 .. Len(recent) : RemoveFirst(recent, p)[i] = recent[j]
    BY <1>t, RemoveFirstKeeps DEF GithubTypes
  <2> QED BY <1>1, <2>1, <2>2
<1>7. recent' \in Seq(Pull)
  BY <1>6
<1>8. \A i \in 1 .. Len(recent') : pulls'[recent'[i]] # "none"
  <2> SUFFICES ASSUME NEW i \in 1 .. Len(recent') PROVE pulls'[recent'[i]] # "none"
    OBVIOUS
  <2>1. Len(recent') = Len(rest) + 1 /\ (i = 1 => recent'[i] = p) /\ (i # 1 => recent'[i] = rest[i - 1])
    BY <1>6
  <2>2. recent'[i] = p \/ \E j \in 1 .. Len(recent) : recent'[i] = recent[j]
    BY <1>6, <2>1
  <2> QED BY <1>3, <1>t, <2>2 DEF PullsAreSent, GithubTypes
<1>9. PullsAreSent'
  BY <1>3, <1>4, <1>8, <1>t DEF PullsAreSent, GithubTypes
<1>10. RunsAreSent'
  BY <1>2, <1>4, <1>t DEF RunsAreSent
<1>11. DeploymentsAreSent'
  BY <1>2, <1>4, <1>t DEF DeploymentsAreSent
<1> QED BY <1>2, <1>3, <1>5, <1>7, <1>9, <1>10, <1>11, <1>t, DeliverStep DEF GithubTypes

LEMMA RunStep == GithubInv /\ RunChanges => GithubInv'
<1> SUFFICES ASSUME GithubInv, RunChanges PROVE GithubInv'
  OBVIOUS
<1>t. GithubTypes /\ PullsAreSent /\ RunsAreSent /\ DeploymentsAreSent
  BY DEF GithubInv
<1>1. UNCHANGED <<pulls, recent, deploys>>
  BY DEF RunChanges
<1> DEFINE Moves(r, changes, new) ==
             /\ Deliver(changes)
             /\ runs' = [runs EXCEPT ![r] = new]
             /\ new.status # "queued"
             /\ \/ RunStarted(r, new.attempt) \in changes
                \/ runs[r].status # "queued" /\ new.attempt = runs[r].attempt
             /\ new.status = "completed" /\ new.conclusion \notin Unreported
                   => RunOutcome(r, new.attempt, new.conclusion) \in changes
<1>2. PICK r \in Run, changes \in SUBSET Changes, new \in RunStates : Moves(r, changes, new)
  <2>1. PICK r \in Run :
           \/ /\ runs[r].status = "queued"
              /\ runs' = [runs EXCEPT ![r].status = "in_progress"]
              /\ Deliver({RunStarted(r, runs[r].attempt)})
           \/ /\ runs[r].status = "in_progress"
              /\ \E c \in Conclusion :
                    /\ runs' = [runs EXCEPT ![r].status = "completed", ![r].conclusion = c]
                    /\ Deliver(IF c \in Unreported THEN {}
                               ELSE {RunStarted(r, runs[r].attempt)}
                                      \cup Outcomes(r, runs[r].attempt, c))
           \/ /\ runs[r].status = "completed"
              /\ \E again \in {runs[r].attempt, runs[r].attempt + 1} :
                    /\ runs' = [runs EXCEPT ![r] = [attempt |-> again, status |-> "in_progress",
                                                    conclusion |-> "none"]]
                    /\ Deliver({RunStarted(r, again)})
    BY DEF RunChanges
  <2>2. runs[r] \in RunStates /\ runs[r].attempt \in Nat
    BY <1>t DEF GithubTypes, RunStates
  <2>3. ASSUME runs[r].status = "queued",
               runs' = [runs EXCEPT ![r].status = "in_progress"],
               Deliver({RunStarted(r, runs[r].attempt)})
        PROVE  \E changes \in SUBSET Changes, new \in RunStates : Moves(r, changes, new)
    <3> DEFINE new == [runs[r] EXCEPT !.status = "in_progress"]
               changes == {RunStarted(r, runs[r].attempt)}
    <3>1. new \in RunStates /\ new.status = "in_progress" /\ new.attempt = runs[r].attempt
      BY <2>2 DEF RunStates
    <3>2. changes \in SUBSET Changes
      BY <2>2 DEF Changes
    <3>3. runs' = [runs EXCEPT ![r] = new]
      BY <2>3
    <3>4. RunStarted(r, new.attempt) \in changes
      BY <3>1
    <3>5. Deliver(changes)
      BY <2>3
    <3> HIDE DEF new, changes
    <3> QED BY <3>1, <3>2, <3>3, <3>4, <3>5
  <2>4. ASSUME NEW c \in Conclusion,
               runs[r].status = "in_progress",
               runs' = [runs EXCEPT ![r].status = "completed", ![r].conclusion = c],
               Deliver(IF c \in Unreported THEN {}
                       ELSE {RunStarted(r, runs[r].attempt)}
                              \cup Outcomes(r, runs[r].attempt, c))
        PROVE  \E changes \in SUBSET Changes, new \in RunStates : Moves(r, changes, new)
    <3> DEFINE new == [runs[r] EXCEPT !.status = "completed", !.conclusion = c]
               changes == IF c \in Unreported THEN {}
                          ELSE {RunStarted(r, runs[r].attempt)}
                                 \cup Outcomes(r, runs[r].attempt, c)
    <3>1. /\ new \in RunStates /\ new.status = "completed"
          /\ new.attempt = runs[r].attempt /\ new.conclusion = c
      BY <2>2 DEF RunStates
    <3>2. changes \in SUBSET Changes
      BY <2>2 DEF Changes, Outcomes
    <3>3. runs' = [runs EXCEPT ![r] = new]
      BY <2>4
    <3>4. new.conclusion \notin Unreported
             => RunOutcome(r, new.attempt, new.conclusion) \in changes
      BY <3>1 DEF Outcomes
    <3>5. Deliver(changes)
      BY <2>4
    <3> HIDE DEF new, changes
    <3> QED BY <2>4, <3>1, <3>2, <3>3, <3>4, <3>5
  <2>5. ASSUME NEW again \in Nat,
               runs' = [runs EXCEPT ![r] = [attempt |-> again, status |-> "in_progress",
                                            conclusion |-> "none"]],
               Deliver({RunStarted(r, again)})
        PROVE  \E changes \in SUBSET Changes, new \in RunStates : Moves(r, changes, new)
    <3>1. [attempt |-> again, status |-> "in_progress", conclusion |-> "none"] \in RunStates
      BY DEF RunStates
    <3>2. {RunStarted(r, again)} \in SUBSET Changes
      BY DEF Changes
    <3> QED BY <2>5, <3>1, <3>2
  <2>6. {runs[r].attempt, runs[r].attempt + 1} \subseteq Nat
    BY <2>2
  <2> HIDE DEF Moves
  <2>7. \E changes \in SUBSET Changes, new \in RunStates : Moves(r, changes, new)
    BY <2>1, <2>3, <2>4, <2>5, <2>6
  <2> QED BY <2>7
<1>3. (\A c \in changes : Sent(deliveries', c)) /\ (\A c : Sent(deliveries, c) => Sent(deliveries', c))
  BY <1>2, <1>t, DeliverKeeps
<1>4. runs' \in [Run -> RunStates]
  BY <1>2, <1>t DEF GithubTypes
<1>5. RunsAreSent'
  <2> SUFFICES ASSUME NEW q \in Run
               PROVE  /\ runs'[q].status # "queued" => Sent(deliveries', RunStarted(q, runs'[q].attempt))
                      /\ runs'[q].status = "completed" /\ runs'[q].conclusion \notin Unreported
                            => Sent(deliveries', RunOutcome(q, runs'[q].attempt, runs'[q].conclusion))
    BY DEF RunsAreSent
  <2>1. CASE q = r
    <3>1. runs'[q] = new
      BY <1>2, <1>t, <2>1 DEF GithubTypes
    <3>2. Sent(deliveries', RunStarted(r, new.attempt))
      BY <1>2, <1>3, <1>t DEF RunsAreSent
    <3> QED BY <1>2, <1>3, <2>1, <3>1, <3>2
  <2>2. CASE q # r
    <3>1. runs'[q] = runs[q]
      BY <1>2, <1>t, <2>2 DEF GithubTypes
    <3> QED BY <1>3, <1>t, <3>1 DEF RunsAreSent
  <2> QED BY <2>1, <2>2
<1>6. PullsAreSent'
  BY <1>1, <1>3, <1>t DEF PullsAreSent
<1>7. DeploymentsAreSent'
  BY <1>1, <1>3, <1>t DEF DeploymentsAreSent
<1> QED BY <1>1, <1>2, <1>4, <1>5, <1>6, <1>7, <1>t, DeliverStep DEF GithubTypes

LEMMA DeploymentStep == GithubInv /\ DeploymentChanges => GithubInv'
<1> SUFFICES ASSUME GithubInv, DeploymentChanges PROVE GithubInv'
  OBVIOUS
<1>t. GithubTypes /\ PullsAreSent /\ RunsAreSent /\ DeploymentsAreSent
  BY DEF GithubInv
<1>1. UNCHANGED <<pulls, recent, runs>>
  BY DEF DeploymentChanges
<1>2. PICK d \in Deployment, st \in DeployState :
         /\ deploys' = [deploys EXCEPT ![d] = Append(@, st)]
         /\ Deliver(IF st \in Unreported THEN {} ELSE {Deployed(d, st, Len(deploys[d]) + 1)})
  BY DEF DeploymentChanges
<1>3. /\ deploys[d] \in Seq(DeployState) /\ Len(deploys[d]) + 1 \in Nat
      /\ Append(deploys[d], st) \in Seq(DeployState)
      /\ Len(Append(deploys[d], st)) = Len(deploys[d]) + 1
      /\ Last(Append(deploys[d], st)) = st
  BY <1>t, AppendProperties DEF GithubTypes, Last
<1> DEFINE changes == IF st \in Unreported THEN {} ELSE {Deployed(d, st, Len(deploys[d]) + 1)}
<1>4. changes \in SUBSET Changes
  BY <1>3 DEF Changes
<1>5. Deliver(changes)
  BY <1>2
<1>6. (\A c \in changes : Sent(deliveries', c)) /\ (\A c : Sent(deliveries, c) => Sent(deliveries', c))
  <2> HIDE DEF changes
  <2> QED BY <1>4, <1>5, <1>t, DeliverKeeps
<1>7. deploys' \in [Deployment -> Seq(DeployState)]
  BY <1>2, <1>3, <1>t DEF GithubTypes
<1>8. DeploymentsAreSent'
  <2> SUFFICES ASSUME NEW e \in Deployment, Last(deploys'[e]) \notin Unreported, deploys'[e] # <<>>
               PROVE  Sent(deliveries', Deployed(e, Last(deploys'[e]), Len(deploys'[e])))
    BY DEF DeploymentsAreSent
  <2>1. CASE e = d
    <3>1. deploys'[e] = Append(deploys[d], st)
      BY <1>2, <1>t, <2>1 DEF GithubTypes
    <3> QED BY <1>3, <1>6, <2>1, <3>1
  <2>2. CASE e # d
    <3>1. deploys'[e] = deploys[e]
      BY <1>2, <1>t, <2>2 DEF GithubTypes
    <3> QED BY <1>6, <1>t, <3>1 DEF DeploymentsAreSent
  <2> QED BY <2>1, <2>2
<1> HIDE DEF changes
<1>9. PullsAreSent'
  BY <1>1, <1>6, <1>t DEF PullsAreSent
<1>10. RunsAreSent'
  BY <1>1, <1>6, <1>t DEF RunsAreSent
<1> QED BY <1>1, <1>4, <1>5, <1>7, <1>8, <1>9, <1>10, <1>t, DeliverStep DEF GithubTypes

\* Whatever the reconciliation lists was delivered before.
LEMMA ListedIsSent ==
    ASSUME GithubInv
    PROVE  \A c \in ListedPulls \cup ListedRuns \cup ListedDeployments : Sent(deliveries, c)
<1>t. GithubTypes /\ PullsAreSent /\ RunsAreSent /\ DeploymentsAreSent
  BY DEF GithubInv
<1>1. ASSUME NEW c \in ListedPulls PROVE Sent(deliveries, c)
  <2> DEFINE n == IF Len(recent) < PullPage THEN Len(recent) ELSE PullPage
  <2>1. n \in Nat /\ n <= Len(recent)
    BY <1>t, GithubAssumption DEF GithubTypes
  <2>2. PICK p \in ToSet(SubSeq(recent, 1, n)) :
           c \in (IF pulls[p] = "merged" THEN {PullOpened(p), PullMerged(p)} ELSE {PullOpened(p)})
    BY <1>1 DEF ListedPulls
  <2> HIDE DEF n
  <2>3. PICK i \in 1 .. Len(recent) : p = recent[i]
    BY <2>1, <2>2, <1>t DEF ToSet, GithubTypes
  <2>4. p \in Pull /\ pulls[p] # "none"
    BY <2>3, <1>t DEF PullsAreSent, GithubTypes
  <2> QED BY <2>2, <2>4, <1>t DEF PullsAreSent
<1>2. ASSUME NEW c \in ListedRuns PROVE Sent(deliveries, c)
  <2>1. PICK r \in Run :
           \/ runs[r].status \in {"in_progress", "completed"} /\ c = RunStarted(r, runs[r].attempt)
           \/ /\ runs[r].status = "completed"
              /\ c \in Outcomes(r, runs[r].attempt, runs[r].conclusion)
    BY <1>2 DEF ListedRuns
  <2> QED BY <2>1, <1>t DEF RunsAreSent, Outcomes
<1>3. ASSUME NEW c \in ListedDeployments PROVE Sent(deliveries, c)
  BY <1>3, <1>t DEF ListedDeployments, DeploymentsAreSent
<1> QED BY <1>1, <1>2, <1>3

LEMMA GithubStep == GithubInv /\ [GithubNext]_githubVars => GithubInv'
<1> SUFFICES ASSUME GithubInv, [GithubNext]_githubVars PROVE GithubInv'
  OBVIOUS
<1>1. CASE PullChanges \/ RunChanges \/ DeploymentChanges
  BY <1>1, PullStep, RunStep, DeploymentStep
<1>r. ASSUME UNCHANGED resourceVars,
             claims' \subseteq 1 .. Len(deliveries),
             recon'.pc \in {"idle", "runs", "deployments", "filter", "store"},
             \A c \in recon'.found \cup facts' : Sent(deliveries, c),
             \A i \in claims' : deliveries[i] \subseteq facts'
      PROVE  GithubInv'
  BY <1>r DEF resourceVars, GithubInv, GithubTypes, PullsAreSent, RunsAreSent,
              DeploymentsAreSent, DeliveriesAreStored
<1>t. /\ claims \subseteq 1 .. Len(deliveries)
      /\ recon.pc \in {"idle", "runs", "deployments", "filter", "store"}
      /\ \A c \in recon.found \cup facts : Sent(deliveries, c)
      /\ \A i \in claims : deliveries[i] \subseteq facts
      /\ DOMAIN deliveries = 1 .. Len(deliveries)
  BY DEF GithubInv, GithubTypes, DeliveriesAreStored
<1>2. ASSUME NEW i \in DOMAIN deliveries, ReceiveDelivery(i) PROVE GithubInv'
  <2>1. \A c \in deliveries[i] : Sent(deliveries, c)
    BY <1>t DEF Sent
  <2> QED BY <1>2, <1>r, <1>t, <2>1 DEF ReceiveDelivery, Store
<1>3. CASE ListResources
  <2>1. recon'.pc \in {"runs", "deployments", "filter"}
    BY <1>3 DEF ListResources, ReconSteps
  <2>2. recon'.found \subseteq recon.found \cup ListedPulls \cup ListedRuns \cup ListedDeployments
    BY <1>3 DEF ListResources
  <2> QED BY <1>3, <1>r, <1>t, <2>1, <2>2, ListedIsSent DEF ListResources
<1>4. CASE FilterChanges
  BY <1>4, <1>r, <1>t DEF FilterChanges
<1>5. CASE StoreChanges
  BY <1>5, <1>r, <1>t DEF StoreChanges, Store, NoRecon
<1>6. CASE ReconciliationFails
  BY <1>6, <1>r, <1>t DEF ReconciliationFails, NoRecon
<1>7. CASE UNCHANGED githubVars
  BY <1>7, <1>r, <1>t DEF githubVars, resourceVars
<1> QED BY <1>1, <1>2, <1>3, <1>4, <1>5, <1>6, <1>7 DEF GithubNext, Reconcile

LEMMA GithubBegins == GithubInit => GithubInv
<1> SUFFICES ASSUME GithubInit PROVE GithubInv
  OBVIOUS
<1>1. [attempt |-> 1, status |-> "queued", conclusion |-> "none"] \in RunStates
  BY DEF RunStates
<1>2. GithubTypes
  BY <1>1 DEF GithubInit, GithubTypes, NoRecon
<1> QED BY <1>2 DEF GithubInit, GithubInv, PullsAreSent, RunsAreSent, DeploymentsAreSent,
                    DeliveriesAreStored, NoRecon

LEMMA GithubInvariant == GithubSpec => []GithubInv
  BY GithubBegins, GithubStep, PTL DEF GithubSpec

\* Every change of a delivery that was claimed is stored, whatever the reconciliation
\* stored or marked before it (persist_webhook_delivery).
THEOREM DeliveriesAreKept == GithubSpec => []DeliveriesAreStored
<1>1. GithubInv => DeliveriesAreStored
  BY DEF GithubInv
<1> QED BY <1>1, GithubInvariant, PTL

\* Both ways in give a change the same key: whatever the reconciliation lists or stores
\* is a change that a delivery stands for, so that it is stored once, whichever of the
\* two comes first (normalize_webhook, _repository_changes).
OneKeyPerChange == \A c \in recon.found \cup facts : \E i \in DOMAIN deliveries : c \in deliveries[i]

\* The reconciliation stores nothing that GitHub does not also deliver under that key.
THEOREM ReconciliationInventsNothing == GithubSpec => []OneKeyPerChange
<1>1. GithubInv => OneKeyPerChange
  BY DEF GithubInv, GithubTypes, OneKeyPerChange, Sent
<1> QED BY <1>1, GithubInvariant, PTL

-----------------------------------------------------------------------------
(* WeatherIntake                                                            *)

Readings == [value : Reading, at : Nat \ {0}]
MaybeReading == Readings \cup {NoReading}

WeatherTypes ==
    /\ forecast \in [Location -> Readings]
    /\ selection \in Location \cup {NoLocation}
    /\ baselines \in [Location -> MaybeReading]
    /\ currents \in [Location -> MaybeReading]
    /\ shown \in [Location -> MaybeReading]
    /\ observed \in BOOLEAN
    /\ sample \in [pc : {"idle", "fetch", "compare", "check", "commit"},
                   loc : Location \cup {NoLocation}, now : MaybeReading,
                   base : MaybeReading, event : BOOLEAN]
    /\ sample.pc # "idle" => sample.loc \in Location
    /\ sample.pc \in {"compare", "check", "commit"} => sample.now \in Readings

\* Reading a is not after reading b of the same location, and is b if it is of its time.
NotAfter(a, b) == a # NoReading => a.at <= b.at /\ (a.at = b.at => a = b)

\* The baselines come from earlier forecasts than the one of the poll.
InTime ==
    /\ \A l \in Location : NotAfter(baselines[l], forecast[l])
    /\ sample.pc \in {"compare", "check", "commit"} =>
          /\ NotAfter(sample.now, forecast[sample.loc])
          /\ NotAfter(baselines[sample.loc], sample.now)

\* The comparison of the poll is still good when it is committed.
ComparisonHolds ==
    sample.pc \in {"check", "commit"} =>
        /\ sample.base = baselines[sample.loc]
        /\ sample.event => Meaningful(sample.base, sample.now)
        /\ sample.base # NoReading /\ ~ sample.event => ~ Meaningful(sample.base, sample.now)

\* A key that was used names a baseline that is past.
KeysArePast ==
    \A l \in Location, n \in Nat, v \in Reading :
        <<l, n, v>> \in weatherKeys => baselines[l] # NoReading /\ n < baselines[l].at

\* The current conditions are within the threshold of the baseline.
NearBaseline ==
    \A l \in Location : currents[l] # NoReading =>
        baselines[l] # NoReading /\ ~ Meaningful(baselines[l], currents[l])

WeatherInv ==
    /\ WeatherTypes /\ InTime /\ ComparisonHolds /\ KeysArePast /\ NearBaseline
    /\ shown = baselines

LEMMA ReadingNumbers ==
    /\ NoReading \notin Readings
    /\ \A a \in Readings : a.value \in Nat /\ a.at \in Nat /\ a.at # 0
    /\ Threshold \in Nat /\ Threshold # 0
    /\ \A a \in Readings : ~ Meaningful(a, a)
<1>1. NoReading \notin Readings
  BY WeatherAssumption DEF Readings
<1>2. \A a \in Readings : a.value \in Nat /\ a.at \in Nat /\ a.at # 0
  BY WeatherAssumption DEF Readings
<1>3. Threshold \in Nat /\ Threshold # 0
  BY WeatherAssumption
<1> QED BY <1>1, <1>2, <1>3 DEF Meaningful

\* A later forecast is after everything that is known.
LEMMA ForecastStep == WeatherInv /\ ForecastChanges => WeatherInv'
<1> SUFFICES ASSUME WeatherInv, ForecastChanges PROVE WeatherInv'
  OBVIOUS
<1>1. PICK l \in Location, v \in Reading :
         forecast' = [forecast EXCEPT ![l] = [value |-> v, at |-> @.at + 1]]
  BY DEF ForecastChanges
<1>2. UNCHANGED <<selection, baselines, currents, observed, weatherKeys, shown, sample>>
  BY DEF ForecastChanges
<1>3. forecast[l] \in Readings /\ forecast[l].at + 1 \in Nat \ {0} /\ forecast[l].at \in Nat
  BY ReadingNumbers DEF WeatherInv, WeatherTypes
<1>4. forecast' \in [Location -> Readings]
  BY <1>1, <1>3 DEF WeatherInv, WeatherTypes, Readings
<1>5. ASSUME NEW k \in Location, NEW a \in MaybeReading, NotAfter(a, forecast[k])
      PROVE  NotAfter(a, forecast'[k])
  <2>1. CASE k = l
    <3>1. forecast'[k] = [value |-> v, at |-> forecast[l].at + 1]
      BY <1>1, <2>1 DEF WeatherInv, WeatherTypes
    <3>2. a # NoReading => a.at \in Nat
      BY ReadingNumbers DEF MaybeReading
    <3> QED BY <1>3, <1>5, <2>1, <3>1, <3>2 DEF NotAfter
  <2>2. CASE k # l
    BY <1>1, <1>5, <2>2 DEF WeatherInv, WeatherTypes
  <2> QED BY <2>1, <2>2
<1>6. WeatherTypes'
  BY <1>2, <1>4 DEF WeatherInv, WeatherTypes
<1>7. InTime'
  <2>1. \A k \in Location : NotAfter(baselines[k], forecast'[k])
    BY <1>5 DEF WeatherInv, WeatherTypes, InTime
  <2>2. sample.pc \in {"compare", "check", "commit"} => NotAfter(sample.now, forecast'[sample.loc])
    BY <1>5 DEF WeatherInv, WeatherTypes, InTime, MaybeReading
  <2> QED BY <1>2, <2>1, <2>2 DEF WeatherInv, InTime
<1> QED BY <1>2, <1>6, <1>7 DEF WeatherInv, ComparisonHolds, KeysArePast, NearBaseline, Meaningful

\* Nothing but a commit touches the checkpoints.
LEMMA SampleStep ==
    ASSUME WeatherInv,
           UNCHANGED <<forecast, baselines, currents, observed, weatherKeys, shown>>,
           selection' \in Location \cup {NoLocation},
           WeatherTypes', InTime', ComparisonHolds'
    PROVE  WeatherInv'
  BY DEF WeatherInv, KeysArePast, NearBaseline, Meaningful

LEMMA CommitStep == WeatherInv /\ CommitReading => WeatherInv'
<1> SUFFICES ASSUME WeatherInv, CommitReading PROVE WeatherInv'
  OBVIOUS
<1> DEFINE l == sample.loc
           now == sample.now
           after == BaselineAfter(sample)
<1>t. WeatherTypes /\ InTime /\ ComparisonHolds /\ KeysArePast /\ NearBaseline /\ shown = baselines
  BY DEF WeatherInv
<1>1. /\ sample.pc = "commit"
      /\ baselines' = [baselines EXCEPT ![l] = after]
      /\ currents' = [currents EXCEPT ![l] = now]
      /\ weatherKeys' = IF sample.event THEN weatherKeys \cup {KeyOf(sample)} ELSE weatherKeys
      /\ shown' = IF (~ sample.event /\ baselines[l] = NoReading)
                       \/ (sample.event /\ KeyOf(sample) \notin weatherKeys)
                  THEN [shown EXCEPT ![l] = now] ELSE shown
      /\ observed' = TRUE /\ sample' = NoSample
      /\ UNCHANGED <<forecast, selection>>
  BY DEF CommitReading
<1>2. /\ l \in Location /\ now \in Readings /\ baselines[l] \in MaybeReading
      /\ sample.base = baselines[l] /\ sample.event \in BOOLEAN
      /\ sample.event => Meaningful(baselines[l], now)
      /\ baselines[l] # NoReading /\ ~ sample.event => ~ Meaningful(baselines[l], now)
      /\ NotAfter(baselines[l], now) /\ NotAfter(now, forecast[l])
  BY <1>1, <1>t DEF WeatherTypes, InTime, ComparisonHolds
<1>3. after = IF sample.event \/ baselines[l] = NoReading THEN now ELSE baselines[l]
  BY DEF BaselineAfter
<1>4. now # NoReading /\ now.at \in Nat /\ now.value \in Reading /\ now.value \in Nat
  BY <1>2, ReadingNumbers DEF Readings
<1>5. baselines[l] # NoReading => baselines[l] \in Readings /\ baselines[l].at \in Nat
  BY <1>2, ReadingNumbers DEF MaybeReading
\* An event moves the baseline to a later time.
<1>6. sample.event /\ baselines[l] # NoReading => baselines[l].at < now.at
  <2>1. baselines[l] # now \/ ~ sample.event
    BY <1>2, ReadingNumbers
  <2> QED BY <1>2, <1>4, <1>5, <2>1 DEF NotAfter
<1> DEFINE n == IF baselines[l] = NoReading THEN 0 ELSE baselines[l].at
<1>7. KeyOf(sample) = <<l, n, now.value>> /\ n \in Nat
  BY <1>2, <1>5 DEF KeyOf
<1>8. sample.event => KeyOf(sample) \notin weatherKeys
  <2>1. ~ (baselines[l] # NoReading /\ n < baselines[l].at)
    BY <1>5
  <2>2. <<l, n, now.value>> \notin weatherKeys
    BY <1>2, <1>4, <1>7, <1>t, <2>1 DEF KeysArePast
  <2> QED BY <1>7, <2>2
<1> HIDE DEF l, now, after, n
<1>9. after \in Readings
  BY <1>2, <1>3, <1>5
<1>10. shown' = baselines'
  <2>1. CASE sample.event \/ baselines[l] = NoReading
    BY <1>1, <1>3, <1>8, <1>t, <2>1
  <2>2. CASE ~ sample.event /\ baselines[l] # NoReading
    BY <1>1, <1>2, <1>3, <1>t, <2>2 DEF WeatherTypes
  <2> QED BY <2>1, <2>2
<1>11. /\ baselines' \in [Location -> MaybeReading]
       /\ currents' \in [Location -> MaybeReading]
  BY <1>1, <1>2, <1>9, <1>t DEF WeatherTypes, MaybeReading
<1>12. WeatherTypes'
  <2>1. sample' \in [pc : {"idle", "fetch", "compare", "check", "commit"},
                   loc : Location \cup {NoLocation}, now : MaybeReading,
                   base : MaybeReading, event : BOOLEAN] /\ sample'.pc = "idle"
    BY <1>1 DEF NoSample, MaybeReading
  <2> QED BY <1>1, <1>10, <1>11, <1>t, <2>1 DEF WeatherTypes
<1>13. ASSUME NEW k \in Location
       PROVE  baselines'[k] = (IF k = l THEN after ELSE baselines[k])
              /\ currents'[k] = (IF k = l THEN now ELSE currents[k])
  BY <1>1, <1>t DEF WeatherTypes
<1>14. InTime'
  <2>1. NotAfter(after, forecast[l])
    BY <1>2, <1>3, <1>t DEF InTime
  <2>2. \A k \in Location : NotAfter(baselines'[k], forecast'[k])
    BY <1>1, <1>13, <1>t, <2>1 DEF InTime
  <2> QED BY <1>1, <2>2 DEF InTime, NoSample
<1>15. ComparisonHolds'
  BY <1>1 DEF ComparisonHolds, NoSample
<1>16. KeysArePast'
  <2> SUFFICES ASSUME NEW k \in Location, NEW m \in Nat, NEW v \in Reading,
                      <<k, m, v>> \in weatherKeys'
               PROVE  baselines'[k] # NoReading /\ m < baselines'[k].at
    BY DEF KeysArePast
  <2>1. CASE <<k, m, v>> \in weatherKeys
    <3>1. baselines[k] # NoReading /\ m < baselines[k].at
      BY <1>t, <2>1 DEF KeysArePast
    <3>2. CASE k # l
      BY <1>13, <3>1, <3>2
    <3>3. CASE k = l
      <4>1. baselines'[k] = after /\ after # NoReading
        BY <1>13, <1>9, <3>3, ReadingNumbers
      <4>2. baselines[l].at <= after.at
        BY <1>2, <1>3, <1>4, <1>5, <3>1, <3>3 DEF NotAfter
      <4>3. after.at \in Nat /\ baselines[l].at \in Nat
        BY <1>5, <1>9, <3>1, <3>3, ReadingNumbers
      <4> QED BY <3>1, <3>3, <4>1, <4>2, <4>3
    <3> QED BY <3>2, <3>3
  <2>2. CASE <<k, m, v>> \notin weatherKeys
    <3>1. sample.event /\ <<k, m, v>> = <<l, n, now.value>>
      BY <1>1, <1>7, <2>2
    <3>2. k = l /\ m = n
      BY <3>1
    <3>3. after = now /\ baselines'[k] = now
      BY <1>3, <1>13, <3>1, <3>2
    <3>4. n < now.at
      <4>1. now.at # 0
        BY <1>2, ReadingNumbers
      <4> QED BY <1>4, <1>6, <3>1, <4>1 DEF n
    <3> QED BY <1>4, <3>2, <3>3, <3>4
  <2> QED BY <2>1, <2>2
<1>17. NearBaseline'
  <2> SUFFICES ASSUME NEW k \in Location, currents'[k] # NoReading
               PROVE  baselines'[k] # NoReading /\ ~ Meaningful(baselines'[k], currents'[k])
    BY DEF NearBaseline
  <2>1. CASE k # l
    BY <1>13, <1>t, <2>1 DEF NearBaseline
  <2>2. CASE k = l
    <3>1. baselines'[k] = after /\ currents'[k] = now /\ after # NoReading
      BY <1>13, <1>9, <2>2, ReadingNumbers
    <3>2. ~ Meaningful(after, now)
      BY <1>2, <1>3, ReadingNumbers
    <3> QED BY <3>1, <3>2
  <2> QED BY <2>1, <2>2
<1> QED BY <1>10, <1>12, <1>14, <1>15, <1>16, <1>17 DEF WeatherInv

LEMMA WeatherBegins == WeatherInit => WeatherInv
<1> SUFFICES ASSUME WeatherInit PROVE WeatherInv
  OBVIOUS
<1>1. [value : Reading, at : {1}] \subseteq Readings
  BY DEF Readings
<1>2. WeatherTypes
  BY <1>1 DEF WeatherInit, WeatherTypes, NoSample, MaybeReading
<1> QED BY <1>2 DEF WeatherInit, WeatherInv, InTime, NotAfter, ComparisonHolds, KeysArePast,
                    NearBaseline, NoSample

\* The steps of the poll up to its commit, and the selections that overtake it.
LEMMA PollStep ==
    ASSUME WeatherInv,
           UserSelects \/ BootstrapBegins \/ BootstrapEnds \/ ReadLocation \/ FetchForecast
              \/ CompareReading \/ CheckSelection \/ PollIsLost \/ UNCHANGED weatherVars
    PROVE  WeatherInv'
<1>t. WeatherTypes /\ InTime /\ ComparisonHolds
  BY DEF WeatherInv
<1>1. UNCHANGED <<forecast, baselines, currents, observed, weatherKeys, shown>>
  BY DEF UserSelects, BootstrapBegins, BootstrapEnds, ReadLocation, FetchForecast,
         CompareReading, CheckSelection, PollIsLost, weatherVars
<1>2. selection' \in Location \cup {NoLocation}
  BY <1>t, WeatherAssumption
     DEF UserSelects, BootstrapBegins, BootstrapEnds, ReadLocation, FetchForecast,
         CompareReading, CheckSelection, PollIsLost, weatherVars, Select, WeatherTypes
<1>3. SUFFICES WeatherTypes' /\ InTime' /\ ComparisonHolds'
  BY <1>1, <1>2, SampleStep
<1>4. CASE UNCHANGED sample
  BY <1>1, <1>2, <1>4, <1>t DEF WeatherTypes, InTime, ComparisonHolds, Meaningful
<1>5. CASE sample' = NoSample
  <2>1. WeatherTypes'
    BY <1>1, <1>2, <1>5, <1>t DEF WeatherTypes, NoSample, MaybeReading
  <2> QED BY <1>1, <1>5, <1>t, <2>1 DEF InTime, ComparisonHolds, NoSample
<1>6. CASE ReadLocation
  <2>1. sample' = [NoSample EXCEPT !.pc = "fetch", !.loc = selection] /\ selection \in Location
    BY <1>6, <1>t DEF ReadLocation, WeatherTypes
  <2>2. sample' = [pc |-> "fetch", loc |-> selection, now |-> NoReading, base |-> NoReading,
                   event |-> FALSE]
    BY <2>1 DEF NoSample
  <2>3. WeatherTypes'
    <3>1. sample' \in [pc : {"idle", "fetch", "compare", "check", "commit"},
                       loc : Location \cup {NoLocation}, now : MaybeReading,
                       base : MaybeReading, event : BOOLEAN]
      <4>1. NoReading \in MaybeReading /\ selection \in Location \cup {NoLocation}
        BY <2>1 DEF MaybeReading
      <4> HIDE DEF MaybeReading
      <4> QED BY <2>2, <4>1
    <3> QED BY <1>1, <1>2, <1>t, <2>1, <2>2, <3>1 DEF WeatherTypes
  <2> QED BY <1>1, <1>t, <2>2, <2>3 DEF InTime, ComparisonHolds
<1>7. CASE FetchForecast
  <2>1. /\ sample.pc = "fetch" /\ sample.loc \in Location
        /\ sample' = [sample EXCEPT !.pc = "compare", !.now = forecast[sample.loc]]
        /\ forecast[sample.loc] \in Readings
    BY <1>7, <1>t DEF FetchForecast, WeatherTypes
  <2>2. /\ sample'.pc = "compare" /\ sample'.loc = sample.loc
        /\ sample'.now = forecast[sample.loc]
    BY <1>t, <2>1 DEF WeatherTypes
  <2>3. WeatherTypes'
    BY <1>1, <1>2, <1>t, <2>1, <2>2 DEF WeatherTypes, MaybeReading
  <2>4. forecast[sample.loc].at \in Nat
    BY <2>1, ReadingNumbers
  <2>5. InTime'
    BY <1>1, <1>t, <2>1, <2>2, <2>4 DEF InTime, NotAfter
  <2> QED BY <2>2, <2>3, <2>5 DEF ComparisonHolds
<1>8. CASE CompareReading
  <2> DEFINE base == baselines[sample.loc]
             event == Meaningful(base, sample.now) /\ ~ (base = NoReading /\ observed)
  <2>1. /\ sample.pc = "compare" /\ sample.loc \in Location /\ base \in MaybeReading
        /\ sample' = [sample EXCEPT !.pc = "check", !.base = base, !.event = event]
    BY <1>8, <1>t DEF CompareReading, WeatherTypes
  <2>2. event \in BOOLEAN
    BY DEF Meaningful
  <2> HIDE DEF base, event
  <2>3. /\ sample'.pc = "check" /\ sample'.loc = sample.loc /\ sample'.now = sample.now
        /\ sample'.base = base /\ sample'.event = event
    BY <1>t, <2>1 DEF WeatherTypes
  <2>4. WeatherTypes'
    BY <1>1, <1>2, <1>t, <2>1, <2>2, <2>3 DEF WeatherTypes
  <2>5. InTime'
    BY <1>1, <1>t, <2>1, <2>3 DEF InTime
  <2>6. ComparisonHolds'
    BY <1>1, <2>3 DEF ComparisonHolds, base, event, Meaningful
  <2> QED BY <2>4, <2>5, <2>6
<1>9. CASE sample.pc = "check" /\ sample' = [sample EXCEPT !.pc = "commit"]
  <2>1. /\ sample'.pc = "commit" /\ sample'.loc = sample.loc /\ sample'.now = sample.now
        /\ sample'.base = sample.base /\ sample'.event = sample.event
    BY <1>9, <1>t DEF WeatherTypes
  <2>2. WeatherTypes'
    BY <1>1, <1>2, <1>9, <1>t, <2>1 DEF WeatherTypes
  <2> QED BY <1>1, <1>9, <1>t, <2>1, <2>2 DEF InTime, ComparisonHolds, Meaningful
<1> QED BY <1>4, <1>5, <1>6, <1>7, <1>8, <1>9
        DEF UserSelects, BootstrapBegins, BootstrapEnds, CheckSelection, PollIsLost, weatherVars

LEMMA WeatherInvariant == WeatherSpec => []WeatherInv
<1>1. WeatherInv /\ [WeatherNext]_weatherVars => WeatherInv'
  BY ForecastStep, CommitStep, PollStep DEF WeatherNext
<1> QED BY <1>1, WeatherBegins, PTL DEF WeatherSpec

\* The conditions that are stored never differ meaningfully from what the timeline last
\* showed of the location: the dedupe key of a change names the time of its baseline, so
\* no change is taken for one that was stored before.
THEOREM WeatherChangesAreShown == WeatherSpec => []ChangesAreShown
<1>1. WeatherInv => ChangesAreShown
  BY DEF WeatherInv, NearBaseline, ChangesAreShown
<1> QED BY <1>1, WeatherInvariant, PTL

-----------------------------------------------------------------------------
(* SpotifyPlayback                                                          *)

Whole == {"started", "paused", "resumed"}

\* What an event of kind e about snapshot s says is also true of t.
SaysOf(e, s, playing, item) ==
    /\ e \in Whole => playing = s.playing /\ item = s.item
    /\ e = "track" => item = s.item

\* The timestamps of stored events go up to that of the playback last seen.
Top == IF seen = Nothing THEN stamps ELSE seen.stamp

StampsAreOrdered ==
    /\ actual # Nothing => actual.stamp = stamps
    /\ seen # Nothing => seen.stamp <= stamps
    /\ seen # Nothing /\ actual # Nothing /\ seen.stamp = actual.stamp
          => seen.playing = actual.playing /\ seen.item = actual.item
    /\ handing # {} => seen # Nothing

\* A key of the newest timestamp tells what the timeline tells, and what is played under
\* that timestamp.
KeysTellTheTruth ==
    \A e \in EventKinds, s \in Snapshot : DedupeKey(e, s) \in persisted =>
        /\ s.stamp <= Top
        /\ s.stamp = Top => SaysOf(e, s, heard.playing, heard.item)
        /\ seen # Nothing /\ seen.stamp = s.stamp => SaysOf(e, s, seen.playing, seen.item)
        /\ actual # Nothing /\ actual.stamp = s.stamp
              => SaysOf(e, s, actual.playing, actual.item)

\* What the events being handed over do not tell, the timeline tells already.
HandingTellsTheRest ==
    seen # Nothing /\ ~ missed =>
        /\ seen.playing /\ handing \cap {"started", "resumed"} = {} => heard.playing
        /\ handing \cap (Whole \cup {"track"}) = {} => heard.item = seen.item

PlaybackInv ==
    /\ PlaybackTypeOK /\ StampsAreOrdered /\ KeysTellTheTruth /\ HandingTellsTheRest

\* Two events with one key tell the same.
LEMMA KeysAreInjective ==
    ASSUME NEW e \in EventKinds, NEW f \in EventKinds, NEW s, NEW t,
           DedupeKey(e, s) = DedupeKey(f, t)
    PROVE  e = f /\ s.stamp = t.stamp /\ SaysOf(e, s, t.playing, t.item)
<1>1. e = f /\ s.stamp = t.stamp /\ Payload(e, s) = Payload(e, t)
  BY DEF DedupeKey
<1>2. CASE e \in Whole
  <2>1. <<s.playing, s.item, s.device, s.context>> = <<t.playing, t.item, t.device, t.context>>
    BY <1>1, <1>2 DEF Payload, Whole
  <2>2. s.playing = t.playing /\ s.item = t.item
    BY <2>1
  <2>3. e # "track"
    BY <1>2 DEF Whole
  <2> QED BY <1>1, <2>2, <2>3 DEF SaysOf
<1>3. CASE e = "track"
  <2>1. <<s.item>> = <<t.item>>
    BY <1>1, <1>3 DEF Payload
  <2>2. s.item = t.item
    BY <2>1
  <2> QED BY <1>1, <1>3, <2>2 DEF SaysOf, Whole
<1> QED BY <1>1, <1>2, <1>3 DEF SaysOf

LEMMA SnapshotFields ==
    \A s \in Snapshot : s.stamp \in Nat /\ s.playing \in BOOLEAN /\ s.item \in Item
                        /\ s.device \in Device /\ s.context \in Context
                        /\ s.stamp \in 1 .. MaxStamp
  BY PlaybackAssumption DEF Snapshot

LEMMA PlaybackBegins == PlaybackInit => PlaybackInv
<1> SUFFICES ASSUME PlaybackInit PROVE PlaybackInv
  OBVIOUS
<1>1. heard \in PlaybackView
  BY DEF PlaybackInit, PlaybackView
<1>2. PlaybackTypeOK
  <2>1. stamps \in 0 .. MaxStamp /\ moves \in 0 .. MaxMoves
    BY PlaybackAssumption DEF PlaybackInit
  <2>2. actual = Nothing /\ seen = Nothing /\ handing = {} /\ missed = FALSE
    BY DEF PlaybackInit
  <2> QED BY <1>1, <2>1, <2>2 DEF PlaybackTypeOK
<1> QED BY <1>2 DEF PlaybackInit, PlaybackInv, StampsAreOrdered, KeysTellTheTruth,
                    HandingTellsTheRest

\* The player: the stamps of what was seen and stored stay behind.
LEMMA PlayerStep ==
    ASSUME PlaybackInv, PlaybackChanges \/ PlaybackMoves
    PROVE  PlaybackInv'
<1>t. PlaybackTypeOK /\ StampsAreOrdered /\ KeysTellTheTruth /\ HandingTellsTheRest
  BY DEF PlaybackInv
<1>0. UNCHANGED <<seen, handing, persisted, heard, missed>>
  BY DEF PlaybackChanges, PlaybackMoves
<1>1. HandingTellsTheRest'
  BY <1>0, <1>t DEF HandingTellsTheRest
<1>n. stamps \in Nat /\ MaxStamp \in Nat /\ MaxMoves \in Nat /\ moves \in Nat
      /\ (seen # Nothing => seen.stamp \in Nat)
  BY <1>t, PlaybackAssumption, SnapshotFields DEF PlaybackTypeOK
<1>2. CASE PlaybackChanges
  <2>1. PICK s \in Snapshot : actual' = s /\ s.stamp = stamps + 1
    BY <1>2 DEF PlaybackChanges
  <2>2. stamps' = stamps + 1 /\ stamps < MaxStamp /\ moves' = moves
    BY <1>2 DEF PlaybackChanges
  <2>3. PlaybackTypeOK'
    BY <1>0, <1>n, <1>t, <2>1, <2>2 DEF PlaybackTypeOK
  <2>4. StampsAreOrdered'
    BY <1>0, <1>n, <1>t, <2>1, <2>2 DEF StampsAreOrdered
  <2>5. KeysTellTheTruth'
    <3> SUFFICES ASSUME NEW e \in EventKinds, NEW q \in Snapshot, DedupeKey(e, q) \in persisted
                 PROVE  /\ q.stamp <= Top'
                        /\ q.stamp = Top' => SaysOf(e, q, heard.playing, heard.item)
                        /\ seen # Nothing /\ seen.stamp = q.stamp
                              => SaysOf(e, q, seen.playing, seen.item)
                        /\ q.stamp # s.stamp
      BY <1>0, <2>1 DEF KeysTellTheTruth
    <3>1. q.stamp \in Nat /\ q.stamp <= Top
      BY <1>t, SnapshotFields DEF KeysTellTheTruth
    <3>2. Top <= stamps
      BY <1>n, <1>t DEF Top, StampsAreOrdered
    <3>3. Top' = IF seen = Nothing THEN stamps + 1 ELSE Top
      BY <1>0, <2>2 DEF Top
    <3>4. Top \in Nat
      BY <1>n DEF Top
    <3> QED BY <1>n, <1>t, <2>1, <3>1, <3>2, <3>3, <3>4 DEF KeysTellTheTruth
  <2> QED BY <1>1, <2>3, <2>4, <2>5 DEF PlaybackInv
<1>3. CASE PlaybackMoves
  <2>1. stamps' = stamps /\ moves' = moves + 1 /\ moves < MaxMoves /\ Top' = Top
    BY <1>0, <1>3 DEF PlaybackMoves, Top
  <2>2. actual' # Nothing => /\ actual' \in Snapshot /\ actual # Nothing
                             /\ actual'.stamp = actual.stamp
                             /\ actual'.playing = actual.playing /\ actual'.item = actual.item
    BY <1>3, <1>t DEF PlaybackMoves, PlaybackTypeOK, Snapshot
  <2>3. PlaybackTypeOK'
    BY <1>0, <1>n, <1>t, <2>1, <2>2 DEF PlaybackTypeOK
  <2>4. StampsAreOrdered' /\ KeysTellTheTruth'
    BY <1>0, <1>t, <2>1, <2>2 DEF StampsAreOrdered, KeysTellTheTruth
  <2> QED BY <1>1, <2>3, <2>4 DEF PlaybackInv
<1> QED BY <1>2, <1>3

\* A poll: what it does not report is as it was.
LEMMA ObserveStep ==
    ASSUME PlaybackInv, ObservePlayback
    PROVE  PlaybackInv'
<1>t. PlaybackTypeOK /\ StampsAreOrdered /\ KeysTellTheTruth /\ HandingTellsTheRest
  BY DEF PlaybackInv
<1>1. /\ handing = {} /\ seen' = actual
      /\ handing' = IF actual = Nothing THEN {} ELSE spotify_event_changes(seen, actual)
      /\ missed' = (missed /\ actual # Nothing)
      /\ UNCHANGED <<actual, stamps, moves, persisted, heard>>
  BY DEF ObservePlayback
<1>2. spotify_event_changes(seen, actual) \subseteq EventKinds
  BY DEF spotify_event_changes
<1>3. PlaybackTypeOK'
  BY <1>1, <1>2, <1>t DEF PlaybackTypeOK
<1>n. stamps \in Nat /\ (seen # Nothing => seen.stamp \in Nat)
      /\ (actual # Nothing => actual \in Snapshot)
  BY <1>t, PlaybackAssumption, SnapshotFields DEF PlaybackTypeOK
<1>4. StampsAreOrdered'
  BY <1>1, <1>n, <1>t DEF StampsAreOrdered
<1>5. KeysTellTheTruth'
  <2>1. Top' = stamps /\ Top <= stamps /\ Top \in Nat
    BY <1>1, <1>n, <1>t DEF Top, StampsAreOrdered
  <2> SUFFICES ASSUME NEW e \in EventKinds, NEW q \in Snapshot, DedupeKey(e, q) \in persisted
               PROVE  /\ q.stamp <= stamps
                      /\ q.stamp = stamps => SaysOf(e, q, heard.playing, heard.item)
                      /\ actual # Nothing /\ actual.stamp = q.stamp
                            => SaysOf(e, q, actual.playing, actual.item)
    BY <1>1, <2>1 DEF KeysTellTheTruth
  <2>2. q.stamp \in Nat
    BY SnapshotFields
  <2> QED BY <1>n, <1>t, <2>1, <2>2 DEF KeysTellTheTruth
<1>6. HandingTellsTheRest'
  <2> SUFFICES ASSUME actual # Nothing, ~ missed
               PROVE  /\ actual.playing /\ handing' \cap {"started", "resumed"} = {}
                            => heard.playing
                      /\ handing' \cap (Whole \cup {"track"}) = {} => heard.item = actual.item
    BY <1>1 DEF HandingTellsTheRest
  <2>1. \A e \in EventKinds : e \in handing' <=>
           CASE e \in {"started", "resumed"} ->
                  /\ actual.playing
                  /\ seen = Nothing \/ ~ seen.playing
                  /\ (e = "resumed") = (seen # Nothing /\ seen.item = actual.item)
             [] e = "paused" -> seen # Nothing /\ seen.playing /\ ~ actual.playing
             [] e = "track" -> seen = Nothing \/ seen.item # actual.item
             [] e = "device" -> seen # Nothing /\ seen.device # actual.device
             [] e = "context" -> seen # Nothing /\ seen.context # actual.context
    BY <1>1 DEF spotify_event_changes
  <2>2. actual.playing /\ (seen = Nothing \/ ~ seen.playing)
           => "started" \in handing' \/ "resumed" \in handing'
    <3>1. "started" \in EventKinds /\ "resumed" \in EventKinds
      BY DEF EventKinds
    <3> QED BY <2>1, <3>1
  <2>3. seen = Nothing \/ seen.item # actual.item => "track" \in handing'
    <3>1. "track" \in EventKinds
      BY DEF EventKinds
    <3> QED BY <2>1, <3>1
  <2> QED BY <1>1, <1>t, <2>2, <2>3 DEF HandingTellsTheRest
<1> QED BY <1>3, <1>4, <1>5, <1>6 DEF PlaybackInv

\* A hand-over: an event that is suppressed tells nothing that is not known.
LEMMA HandleStep ==
    ASSUME PlaybackInv, HandlePlayback
    PROVE  PlaybackInv'
<1>t. PlaybackTypeOK /\ StampsAreOrdered /\ KeysTellTheTruth /\ HandingTellsTheRest
  BY DEF PlaybackInv
<1> DEFINE new == {e \in handing : DedupeKey(e, seen) \notin persisted}
           whole == new \cap Whole # {}
<1>1. /\ handing # {} /\ seen # Nothing
      /\ heard' = Told(heard, new, seen)
      /\ persisted' = persisted \cup {DedupeKey(e, seen) : e \in new}
      /\ handing' = {}
      /\ UNCHANGED <<actual, stamps, moves, seen, missed>>
  BY DEF HandlePlayback
<1>2. seen \in Snapshot /\ handing \subseteq EventKinds /\ heard \in PlaybackView
  BY <1>1, <1>t DEF PlaybackTypeOK
<1>3. new \subseteq handing
  OBVIOUS
<1>4. \A e \in handing : e \in new \/ DedupeKey(e, seen) \in persisted
  OBVIOUS
<1>5. heard' = [playing |-> IF whole THEN seen.playing ELSE heard.playing,
                item    |-> IF whole \/ "track" \in new THEN seen.item ELSE heard.item,
                device  |-> IF whole \/ "device" \in new THEN seen.device ELSE heard.device,
                context |-> IF whole \/ "context" \in new THEN seen.context ELSE heard.context]
  BY <1>1 DEF Told, Whole
<1> HIDE DEF new
<1>6. /\ heard'.playing = IF whole THEN seen.playing ELSE heard.playing
      /\ heard'.item = IF whole \/ "track" \in new THEN seen.item ELSE heard.item
  BY <1>5
<1>7. PlaybackTypeOK'
  <2>1. heard' \in PlaybackView
    <3>1. /\ seen.playing \in BOOLEAN /\ heard.playing \in BOOLEAN
          /\ seen.item \in Item \cup {Nothing} /\ heard.item \in Item \cup {Nothing}
          /\ seen.device \in Device \cup {Nothing} /\ heard.device \in Device \cup {Nothing}
          /\ seen.context \in Context \cup {Nothing} /\ heard.context \in Context \cup {Nothing}
      BY <1>2, SnapshotFields DEF PlaybackView
    <3> HIDE DEF whole
    <3> QED BY <1>5, <3>1 DEF PlaybackView
  <2> QED BY <1>1, <1>t, <2>1 DEF PlaybackTypeOK
<1>8. StampsAreOrdered'
  BY <1>1, <1>t DEF StampsAreOrdered
<1>9. Top' = seen.stamp /\ Top = seen.stamp /\ seen.stamp \in Nat
  BY <1>1, <1>2, SnapshotFields DEF Top
<1>10. KeysTellTheTruth'
  <2> SUFFICES ASSUME NEW e \in EventKinds, NEW s \in Snapshot, DedupeKey(e, s) \in persisted'
               PROVE  /\ s.stamp <= seen.stamp
                      /\ s.stamp = seen.stamp => SaysOf(e, s, heard'.playing, heard'.item)
                      /\ seen.stamp = s.stamp => SaysOf(e, s, seen.playing, seen.item)
                      /\ actual # Nothing /\ actual.stamp = s.stamp
                            => SaysOf(e, s, actual.playing, actual.item)
    BY <1>1, <1>9 DEF KeysTellTheTruth
  <2>1. CASE DedupeKey(e, s) \in persisted
    <3>1. /\ s.stamp <= seen.stamp
          /\ s.stamp = seen.stamp => SaysOf(e, s, heard.playing, heard.item)
          /\ seen.stamp = s.stamp => SaysOf(e, s, seen.playing, seen.item)
          /\ actual # Nothing /\ actual.stamp = s.stamp
                => SaysOf(e, s, actual.playing, actual.item)
      BY <1>1, <1>9, <1>t, <2>1 DEF KeysTellTheTruth
    <3>2. s.stamp = seen.stamp => SaysOf(e, s, heard'.playing, heard'.item)
      BY <1>6, <3>1 DEF SaysOf
    <3> QED BY <3>1, <3>2
  <2>2. CASE DedupeKey(e, s) \notin persisted
    <3>1. PICK f \in new : DedupeKey(e, s) = DedupeKey(f, seen)
      BY <1>1, <2>2
    <3>2. e = f /\ s.stamp = seen.stamp /\ SaysOf(e, s, seen.playing, seen.item)
      BY <1>2, <1>3, <3>1, KeysAreInjective
    <3>3. SaysOf(e, s, heard'.playing, heard'.item)
      BY <1>6, <3>1, <3>2 DEF SaysOf, Whole
    <3>4. actual # Nothing /\ actual.stamp = s.stamp => SaysOf(e, s, actual.playing, actual.item)
      BY <1>1, <1>t, <3>2 DEF StampsAreOrdered, SaysOf
    <3> QED BY <1>9, <3>2, <3>3, <3>4
  <2> QED BY <2>1, <2>2
\* Every event of the hand-over is told now.
<1>11. ASSUME NEW e \in handing
       PROVE  SaysOf(e, seen, heard'.playing, heard'.item)
  <2>1. CASE e \in new
    BY <1>6, <2>1 DEF SaysOf, Whole
  <2>2. CASE DedupeKey(e, seen) \in persisted
    <3>1. SaysOf(e, seen, heard.playing, heard.item)
      BY <1>2, <1>9, <1>t, <2>2 DEF KeysTellTheTruth
    <3> QED BY <1>6, <3>1 DEF SaysOf
  <2> QED BY <1>4, <2>1, <2>2
<1>12. HandingTellsTheRest'
  <2> SUFFICES ASSUME ~ missed
               PROVE  /\ seen.playing => heard'.playing
                      /\ heard'.item = seen.item
    BY <1>1 DEF HandingTellsTheRest
  <2>1. CASE handing \cap {"started", "resumed"} # {}
    BY <1>11, <2>1 DEF SaysOf, Whole
  <2>2. CASE handing \cap {"started", "resumed"} = {}
    <3>1. seen.playing => heard'.playing
      BY <1>1, <1>6, <1>t, <2>2 DEF HandingTellsTheRest
    <3>2. CASE handing \cap (Whole \cup {"track"}) = {}
      BY <1>1, <1>6, <1>t, <3>1, <3>2 DEF HandingTellsTheRest
    <3>3. CASE handing \cap (Whole \cup {"track"}) # {}
      BY <1>11, <3>1, <3>3 DEF SaysOf
    <3> QED BY <3>2, <3>3
  <2> QED BY <2>1, <2>2
<1> QED BY <1>7, <1>8, <1>10, <1>12 DEF PlaybackInv

LEMMA PlaybackInvariant == PlaybackSpec => []PlaybackInv
<1>1. ASSUME PlaybackInv, [PlaybackNext]_playbackVars PROVE PlaybackInv'
  <2>t. PlaybackTypeOK /\ StampsAreOrdered /\ KeysTellTheTruth /\ HandingTellsTheRest
    BY <1>1 DEF PlaybackInv
  <2>1. CASE PlaybackChanges \/ PlaybackMoves
    BY <1>1, <2>1, PlayerStep
  <2>2. CASE ObservePlayback
    BY <1>1, <2>2, ObserveStep
  <2>3. CASE HandlePlayback
    BY <1>1, <2>3, HandleStep
  <2>4. CASE HandlingFails
    <3>1. handing' = {} /\ missed' = TRUE /\ UNCHANGED <<actual, stamps, moves, seen, persisted, heard>>
      BY <2>4 DEF HandlingFails
    <3>2. PlaybackTypeOK' /\ Top' = Top
      BY <2>t, <3>1 DEF PlaybackTypeOK, Top
    <3> QED BY <2>t, <3>1, <3>2
            DEF PlaybackInv, StampsAreOrdered, KeysTellTheTruth, HandingTellsTheRest
  <2>5. CASE ForgetPlayback
    <3>1. /\ seen # Nothing /\ seen' = Nothing /\ handing' = {} /\ missed' = FALSE
          /\ UNCHANGED <<actual, stamps, moves, persisted, heard>>
      BY <2>5 DEF ForgetPlayback
    <3>2. PlaybackTypeOK'
      BY <2>t, <3>1 DEF PlaybackTypeOK
    <3>3. Top' = stamps /\ Top = seen.stamp /\ Top <= stamps /\ stamps \in Nat /\ Top \in Nat
      BY <2>t, <3>1, SnapshotFields, PlaybackAssumption DEF PlaybackTypeOK, StampsAreOrdered, Top
    <3>4. KeysTellTheTruth'
      <4> SUFFICES ASSUME NEW e \in EventKinds, NEW s \in Snapshot, DedupeKey(e, s) \in persisted
                   PROVE  /\ s.stamp <= stamps
                          /\ s.stamp = stamps => SaysOf(e, s, heard.playing, heard.item)
                          /\ actual # Nothing /\ actual.stamp = s.stamp
                                => SaysOf(e, s, actual.playing, actual.item)
        BY <3>1, <3>3 DEF KeysTellTheTruth
      <4>1. s.stamp \in Nat
        BY SnapshotFields
      <4> QED BY <2>t, <3>3, <4>1 DEF KeysTellTheTruth
    <3> QED BY <2>t, <3>1, <3>2, <3>4 DEF PlaybackInv, StampsAreOrdered, HandingTellsTheRest
  <2>6. CASE UNCHANGED playbackVars
    <3>1. PlaybackTypeOK' /\ Top' = Top
      BY <2>6, <2>t DEF playbackVars, PlaybackTypeOK, Top
    <3> QED BY <2>6, <2>t, <3>1
            DEF playbackVars, PlaybackInv, StampsAreOrdered, KeysTellTheTruth, HandingTellsTheRest
  <2> QED BY <1>1, <2>1, <2>2, <2>3, <2>4, <2>5, <2>6 DEF PlaybackNext
<1> QED BY <1>1, PlaybackBegins, PTL DEF PlaybackSpec

\* Once a poll that saw a playing item was handed over, the stored events say that this
\* item plays, unless a hand-over failed: an event that its key suppresses was stored
\* under the same Spotify timestamp, since which nothing else was started.
THEOREM PlayingItemIsShown == PlaybackSpec => []PlayingIsShown
<1>1. PlaybackInv => PlayingIsShown
  BY DEF PlaybackInv, HandingTellsTheRest, PlayingIsShown
<1> QED BY <1>1, PlaybackInvariant, PTL

-----------------------------------------------------------------------------
(* GmailSync                                                                *)

Records == [what : {"added", "deleted", "labels"}, msg : Message]
MailChanges == {"none", "initial", "added", "labels", "removed"} \X (Flags \cup {"none"})
Polls == [pc : {"idle", "page", "scan", "list", "fetch", "fetchAll", "hand"}, start : Nat,
          pos : Nat, recs : Seq(Records), next : Nat, full : BOOLEAN, ids : SUBSET Message,
          change : [Message -> MailChanges]]

MailTypes ==
    /\ hist \in Seq(Records)
    /\ box \in [Message -> Flags \cup {"absent", "deleted"}]
    /\ checkpoint \in 0 .. Len(hist) \/ checkpoint = NoCheckpoint
    /\ flags \in [Message -> Flags \cup {"none"}]
    /\ received \subseteq Message /\ removed \subseteq Message /\ excused \subseteq Message
    /\ poll \in Polls /\ poll.start <= Len(hist) /\ poll.next <= Len(hist)

\* History h has a record of message m, of that kind, after position a and up to b.
Between(h, a, b, m, what) == \E i \in a + 1 .. b : h[i].msg = m /\ h[i].what = what
Mentioned(h, a, b, m) == \E i \in a + 1 .. b : h[i].msg = m

\* The history and the messages agree; a deletion is final.
HistoryAgrees ==
    \A m \in Message :
        /\ Mentioned(hist, 0, Len(hist), m) => box[m] # "absent"
        /\ Between(hist, 0, Len(hist), m, "deleted") => box[m] = "deleted"
        /\ Exists(m) => Mentioned(hist, 0, Len(hist), m)

\* Everything up to position n is dealt with: the two invariants, of any position.
AccountedTo(n) ==
    \A m \in Message \ excused :
        /\ Between(hist, 0, n, m, "added") => m \in received \/ box[m] = "deleted"
        /\ Between(hist, 0, n, m, "deleted") /\ m \in received => m \in removed
CurrentTo(n) ==
    \A m \in Message \ excused :
        flags[m] # "none" /\ Exists(m) /\ flags[m] # box[m] => Mentioned(hist, n, Len(hist), m)

Incremental == poll.pc \in {"page", "fetch"} \/ (poll.pc = "hand" /\ ~ poll.full)

PositionsHold ==
    /\ checkpoint # NoCheckpoint => AccountedTo(checkpoint) /\ CurrentTo(checkpoint)
    /\ Incremental => AccountedTo(poll.start) /\ CurrentTo(poll.start)

\* How far the poll is.
PollProgress ==
    /\ poll.pc = "page" => poll.recs = <<>> /\ poll.pos = poll.start /\ ~ poll.full
    /\ poll.pc = "fetch" =>
          /\ ~ poll.full
          /\ Len(poll.recs) = poll.next - poll.start
          /\ \A i \in 1 .. Len(poll.recs) : poll.recs[i] = hist[poll.start + i]
    /\ poll.pc \in {"list", "fetchAll"} => poll.full
    /\ Incremental /\ poll.pc # "page" => poll.start <= poll.next
    /\ poll.pc = "fetchAll" \/ (poll.pc = "hand" /\ poll.full) =>
          \A m \in poll.ids : ~ Between(hist, 0, poll.next, m, "deleted") /\ box[m] # "absent"

\* What the batch says of m was true of a moment after the position it goes up to.
FetchedAfter(m) ==
    poll.change[m][1] \in {"initial", "added", "labels"} =>
        /\ ~ Between(hist, 0, poll.next, m, "deleted")
        /\ Exists(m) /\ poll.change[m][2] # box[m] => Mentioned(hist, poll.next, Len(hist), m)

ScanIsWhole(m) ==
    /\ poll.change[m][1] \in {"none", "initial"}
    /\ m \in poll.ids => poll.change[m][1] = "initial" \/ box[m] = "deleted"

ChangesAreWhole(m) ==
    /\ poll.change[m][1] # "initial"
    /\ Between(hist, poll.start, poll.next, m, "added")
          => poll.change[m][1] = "added" \/ box[m] = "deleted"
    /\ Between(hist, poll.start, poll.next, m, "deleted") /\ m \in received
          => poll.change[m][1] = "removed"
    /\ Mentioned(hist, poll.start, poll.next, m) /\ poll.change[m][1] = "none" => box[m] = "deleted"

BatchIsWhole ==
    poll.pc = "hand" => \A m \in Message :
        FetchedAfter(m) /\ IF poll.full THEN ScanIsWhole(m) ELSE ChangesAreWhole(m)

MailInv == MailTypes /\ HistoryAgrees /\ PositionsHold /\ PollProgress /\ BatchIsWhole

LEMMA HistoryGrows ==
    ASSUME NEW h \in Seq(Records), NEW r \in Records, NEW g, g = Append(h, r), NEW m
    PROVE  /\ g \in Seq(Records) /\ Len(g) = Len(h) + 1 /\ Len(h) \in Nat
           /\ \A w : \A a, b \in Nat : b <= Len(h) =>
                 /\ Between(g, a, b, m, w) <=> Between(h, a, b, m, w)
                 /\ Mentioned(g, a, b, m) <=> Mentioned(h, a, b, m)
           /\ \A a \in Nat : Mentioned(h, a, Len(h), m) => Mentioned(g, a, Len(g), m)
           /\ \A a \in Nat : a <= Len(h) => Mentioned(g, a, Len(g), r.msg)
           /\ \A w : \A a \in Nat : Between(g, a, Len(g), m, w)
                 => Between(h, a, Len(h), m, w) \/ (m = r.msg /\ w = r.what)
           /\ Mentioned(g, 0, Len(g), m) => Mentioned(h, 0, Len(h), m) \/ m = r.msg
<1>1. /\ g \in Seq(Records) /\ Len(g) = Len(h) + 1 /\ Len(h) \in Nat
      /\ \A i \in 1 .. Len(h) : g[i] = h[i]
      /\ g[Len(h) + 1] = r
  BY AppendProperties
<1>2. ASSUME NEW a \in Nat, NEW b \in Nat, b <= Len(h)
      PROVE  \A i \in a + 1 .. b : g[i] = h[i]
  BY <1>1, <1>2
<1>3. \A w : \A a, b \in Nat : b <= Len(h) =>
                 /\ Between(g, a, b, m, w) <=> Between(h, a, b, m, w)
                 /\ Mentioned(g, a, b, m) <=> Mentioned(h, a, b, m)
  BY <1>2 DEF Between, Mentioned
<1>4. \A a \in Nat : Mentioned(h, a, Len(h), m) => Mentioned(g, a, Len(g), m)
  <2> SUFFICES ASSUME NEW a \in Nat, NEW i \in a + 1 .. Len(h), h[i].msg = m
               PROVE  Mentioned(g, a, Len(g), m)
    BY DEF Mentioned
  <2>1. i \in a + 1 .. Len(g) /\ g[i] = h[i]
    BY <1>1
  <2> QED BY <2>1 DEF Mentioned
<1>5. \A a \in Nat : a <= Len(h) => Mentioned(g, a, Len(g), r.msg)
  <2> SUFFICES ASSUME NEW a \in Nat, a <= Len(h)
               PROVE  Mentioned(g, a, Len(g), r.msg)
    OBVIOUS
  <2>1. Len(h) + 1 \in a + 1 .. Len(g)
    BY <1>1
  <2> QED BY <1>1, <2>1 DEF Mentioned
<1>6. ASSUME NEW a \in Nat, NEW i \in a + 1 .. Len(g)
      PROVE  (i \in a + 1 .. Len(h) /\ g[i] = h[i]) \/ g[i] = r
  <2>1. CASE i <= Len(h)
    BY <1>1, <2>1
  <2>2. CASE i = Len(h) + 1
    BY <1>1, <2>2
  <2> QED BY <1>1, <2>1, <2>2
<1>7. \A w : \A a \in Nat : Between(g, a, Len(g), m, w)
                 => Between(h, a, Len(h), m, w) \/ (m = r.msg /\ w = r.what)
  BY <1>6 DEF Between
<1>8. Mentioned(g, 0, Len(g), m) => Mentioned(h, 0, Len(h), m) \/ m = r.msg
  BY <1>6 DEF Mentioned
<1> QED BY <1>1, <1>3, <1>4, <1>5, <1>7, <1>8

LEMMA MailBegins == GmailInit => MailInv
<1> SUFFICES ASSUME GmailInit PROVE MailInv
  OBVIOUS
<1>1. hist = <<>> /\ Len(hist) = 0 /\ hist \in Seq(Records)
  BY DEF GmailInit
<1>2. poll \in Polls /\ poll.pc = "idle" /\ poll.start = 0 /\ poll.next = 0
  <2>1. NoChange \in MailChanges /\ <<>> \in Seq(Records)
    BY DEF NoChange, MailChanges
  <2> QED BY <2>1 DEF GmailInit, NoPoll, Polls
<1>3. MailTypes
  <2>1. box \in [Message -> Flags \cup {"absent", "deleted"}] /\ flags \in [Message -> Flags \cup {"none"}]
    BY DEF GmailInit
  <2> QED BY <1>1, <1>2, <2>1 DEF GmailInit, MailTypes
<1>4. HistoryAgrees
  BY <1>1 DEF GmailInit, HistoryAgrees, Mentioned, Between, Exists, Flags
<1> QED BY <1>2, <1>3, <1>4 DEF GmailInit, MailInv, PositionsHold, Incremental, PollProgress, BatchIsWhole

\* The mailbox moves on: nothing up to an earlier position changes, a deletion stays, and
\* the message that changed is mentioned after every earlier position.
LEMMA MailboxMoves ==
    ASSUME MailInv, MailboxChanges
    PROVE  /\ MailTypes' /\ HistoryAgrees'
           /\ hist' \in Seq(Records) /\ Len(hist') = Len(hist) + 1 /\ Len(hist) \in Nat
           /\ \A i \in 1 .. Len(hist) : hist'[i] = hist[i]
           /\ \A x \in Message : \A w : \A a, b \in Nat : b <= Len(hist) =>
                 /\ Between(hist', a, b, x, w) <=> Between(hist, a, b, x, w)
                 /\ Mentioned(hist', a, b, x) <=> Mentioned(hist, a, b, x)
           /\ \A x \in Message : \A n \in Nat : n <= Len(hist) =>
                 \/ Mentioned(hist', n, Len(hist'), x)
                 \/ box'[x] = box[x] /\ ~ Mentioned(hist, n, Len(hist), x)
           /\ \A x \in Message : box[x] = "deleted" => box'[x] = "deleted"
           /\ \A x \in Message : box[x] # "absent" => box'[x] # "absent"
<1>1. PICK m \in Message, r \in Records, f \in Flags \cup {"deleted"} :
        /\ hist' = Append(hist, r) /\ r.msg = m
        /\ box' = [box EXCEPT ![m] = f]
        /\ box[m] # "deleted"
        /\ r.what = "deleted" => f = "deleted"
  <2>1. PICK m \in Message :
          \/ /\ box[m] = "absent"
             /\ box' = [box EXCEPT ![m] = "unread"]
             /\ hist' = Append(hist, [what |-> "added", msg |-> m])
          \/ /\ Exists(m)
             /\ box' = [box EXCEPT ![m] = IF box[m] = "read" THEN "unread" ELSE "read"]
             /\ hist' = Append(hist, [what |-> "labels", msg |-> m])
          \/ /\ Exists(m)
             /\ box' = [box EXCEPT ![m] = "deleted"]
             /\ hist' = Append(hist, [what |-> "deleted", msg |-> m])
    BY DEF MailboxChanges
  <2>2. \A w \in {"added", "deleted", "labels"} :
          [what |-> w, msg |-> m] \in Records /\ [what |-> w, msg |-> m].msg = m
            /\ [what |-> w, msg |-> m].what = w
    BY DEF Records
  <2>3. Exists(m) => box[m] # "deleted"
    BY DEF Exists, Flags
  <2>4. CASE /\ box[m] = "absent"
             /\ box' = [box EXCEPT ![m] = "unread"]
             /\ hist' = Append(hist, [what |-> "added", msg |-> m])
    <3> [what |-> "added", msg |-> m] \in Records /\ "unread" \in Flags \cup {"deleted"}
      BY <2>2 DEF Flags
    <3> WITNESS m \in Message, [what |-> "added", msg |-> m] \in Records,
                "unread" \in Flags \cup {"deleted"}
    <3> QED BY <2>2, <2>4
  <2>5. CASE /\ Exists(m)
             /\ box' = [box EXCEPT ![m] = IF box[m] = "read" THEN "unread" ELSE "read"]
             /\ hist' = Append(hist, [what |-> "labels", msg |-> m])
    <3> DEFINE f == IF box[m] = "read" THEN "unread" ELSE "read"
    <3>1. f \in Flags \cup {"deleted"} /\ box' = [box EXCEPT ![m] = f]
      BY <2>5 DEF Flags
    <3> HIDE DEF f
    <3> [what |-> "labels", msg |-> m] \in Records /\ f \in Flags \cup {"deleted"}
      BY <2>2, <3>1
    <3> WITNESS m \in Message, [what |-> "labels", msg |-> m] \in Records,
                f \in Flags \cup {"deleted"}
    <3> QED BY <2>2, <2>3, <2>5, <3>1
  <2>6. CASE /\ Exists(m)
             /\ box' = [box EXCEPT ![m] = "deleted"]
             /\ hist' = Append(hist, [what |-> "deleted", msg |-> m])
    <3> [what |-> "deleted", msg |-> m] \in Records
      BY <2>2
    <3> WITNESS m \in Message, [what |-> "deleted", msg |-> m] \in Records,
                "deleted" \in Flags \cup {"deleted"}
    <3> QED BY <2>2, <2>3, <2>6
  <2> QED BY <2>1, <2>4, <2>5, <2>6
<1>2. hist \in Seq(Records) /\ box \in [Message -> Flags \cup {"absent", "deleted"}]
  BY DEF MailInv, MailTypes
<1>3. ASSUME NEW x \in Message
      PROVE  /\ hist' \in Seq(Records) /\ Len(hist') = Len(hist) + 1 /\ Len(hist) \in Nat
             /\ \A w : \A a, b \in Nat : b <= Len(hist) =>
                   /\ Between(hist', a, b, x, w) <=> Between(hist, a, b, x, w)
                   /\ Mentioned(hist', a, b, x) <=> Mentioned(hist, a, b, x)
             /\ \A a \in Nat : Mentioned(hist, a, Len(hist), x) => Mentioned(hist', a, Len(hist'), x)
             /\ \A a \in Nat : a <= Len(hist) => Mentioned(hist', a, Len(hist'), m)
             /\ \A w : \A a \in Nat : Between(hist', a, Len(hist'), x, w)
                   => Between(hist, a, Len(hist), x, w) \/ (x = m /\ w = r.what)
             /\ Mentioned(hist', 0, Len(hist'), x) => Mentioned(hist, 0, Len(hist), x) \/ x = m
  <2>1. hist' = Append(hist, r) /\ r.msg = m
    BY <1>1
  <2>2. /\ hist' \in Seq(Records) /\ Len(hist') = Len(hist) + 1 /\ Len(hist) \in Nat
        /\ \A w : \A a, b \in Nat : b <= Len(hist) =>
              /\ Between(hist', a, b, x, w) <=> Between(hist, a, b, x, w)
              /\ Mentioned(hist', a, b, x) <=> Mentioned(hist, a, b, x)
        /\ \A a \in Nat : Mentioned(hist, a, Len(hist), x) => Mentioned(hist', a, Len(hist'), x)
        /\ \A a \in Nat : a <= Len(hist) => Mentioned(hist', a, Len(hist'), r.msg)
        /\ \A w : \A a \in Nat : Between(hist', a, Len(hist'), x, w)
              => Between(hist, a, Len(hist), x, w) \/ (x = r.msg /\ w = r.what)
        /\ Mentioned(hist', 0, Len(hist'), x) => Mentioned(hist, 0, Len(hist), x) \/ x = r.msg
    BY <1>2, <2>1, HistoryGrows, ZenonT(60)
  <2> QED BY <2>1, <2>2
<1>4. \A i \in 1 .. Len(hist) : hist'[i] = hist[i]
  BY <1>1, <1>2, AppendProperties
<1>5. /\ box'[m] = f
      /\ \A x \in Message : x # m => box'[x] = box[x]
      /\ box' \in [Message -> Flags \cup {"absent", "deleted"}]
      /\ f # "absent"
  BY <1>1, <1>2 DEF Flags
<1>6. MailTypes'
  <2>1. UNCHANGED <<floor, checkpoint, flags, received, removed, poll, excused, mailFaults>>
    BY DEF MailboxChanges
  <2>2. hist' \in Seq(Records) /\ Len(hist') = Len(hist) + 1 /\ Len(hist) \in Nat
    BY <1>3
  <2>3. /\ checkpoint \in 0 .. Len(hist) \/ checkpoint = NoCheckpoint
        /\ flags \in [Message -> Flags \cup {"none"}]
        /\ received \subseteq Message /\ removed \subseteq Message /\ excused \subseteq Message
        /\ poll \in Polls /\ poll.start <= Len(hist) /\ poll.next <= Len(hist)
    BY DEF MailInv, MailTypes
  <2>4. poll.start \in Nat /\ poll.next \in Nat
    BY <2>3 DEF Polls
  <2>5. poll.start <= Len(hist') /\ poll.next <= Len(hist')
    BY <2>2, <2>3, <2>4
  <2>6. checkpoint \in 0 .. Len(hist') \/ checkpoint = NoCheckpoint
    BY <2>2, <2>3
  <2> QED BY <1>5, <2>1, <2>2, <2>3, <2>5, <2>6 DEF MailTypes
<1>7. HistoryAgrees'
  <2>1. \A x \in Message : /\ Mentioned(hist, 0, Len(hist), x) => box[x] # "absent"
                           /\ Between(hist, 0, Len(hist), x, "deleted") => box[x] = "deleted"
                           /\ box[x] \in Flags => Mentioned(hist, 0, Len(hist), x)
    BY DEF MailInv, HistoryAgrees, Exists
  <2>2. ASSUME NEW x \in Message
        PROVE  /\ Mentioned(hist', 0, Len(hist'), x) => box'[x] # "absent"
               /\ Between(hist', 0, Len(hist'), x, "deleted") => box'[x] = "deleted"
               /\ box'[x] \in Flags => Mentioned(hist', 0, Len(hist'), x)
    BY <1>1, <1>3, <1>5, <2>1
  <2> QED BY <2>2 DEF HistoryAgrees, Exists
<1>8. \A x \in Message : \A n \in Nat : n <= Len(hist) =>
                 \/ Mentioned(hist', n, Len(hist'), x)
                 \/ box'[x] = box[x] /\ ~ Mentioned(hist, n, Len(hist), x)
  BY <1>3, <1>5
<1>9. /\ \A x \in Message : box[x] = "deleted" => box'[x] = "deleted"
      /\ \A x \in Message : box[x] # "absent" => box'[x] # "absent"
  BY <1>1, <1>5
<1>10. hist' \in Seq(Records) /\ Len(hist') = Len(hist) + 1 /\ Len(hist) \in Nat
  BY <1>3
<1> QED BY <1>3, <1>4, <1>6, <1>7, <1>8, <1>9, <1>10

LEMMA MailboxStep == ASSUME MailInv, MailboxChanges PROVE MailInv'
<1>1. UNCHANGED <<floor, checkpoint, flags, received, removed, poll, excused, mailFaults>>
  BY DEF MailboxChanges
<1>2. /\ checkpoint \in 0 .. Len(hist) \/ checkpoint = NoCheckpoint
      /\ poll \in Polls /\ poll.start <= Len(hist) /\ poll.next <= Len(hist)
  BY DEF MailInv, MailTypes
<1>3. poll.start \in Nat /\ poll.next \in Nat /\ poll.ids \subseteq Message
  BY <1>2 DEF Polls
<1>4. ASSUME NEW n \in Nat, n <= Len(hist), AccountedTo(n), CurrentTo(n)
      PROVE  AccountedTo(n)' /\ CurrentTo(n)'
  <2>1. ASSUME NEW x \in Message \ excused
        PROVE  /\ Between(hist', 0, n, x, "added") => x \in received \/ box'[x] = "deleted"
               /\ Between(hist', 0, n, x, "deleted") /\ x \in received => x \in removed
    BY <1>4, MailboxMoves DEF AccountedTo
  <2>2. ASSUME NEW x \in Message \ excused, flags[x] # "none", box'[x] \in Flags, flags[x] # box'[x]
        PROVE  Mentioned(hist', n, Len(hist'), x)
    BY <1>4, <2>2, MailboxMoves DEF CurrentTo, Exists
  <2> QED BY <1>1, <2>1, <2>2 DEF AccountedTo, CurrentTo, Exists
<1>5. PositionsHold'
  <2>1. checkpoint # NoCheckpoint => AccountedTo(checkpoint)' /\ CurrentTo(checkpoint)'
    <3>1. checkpoint # NoCheckpoint => checkpoint \in Nat /\ checkpoint <= Len(hist)
      BY <1>2, MailboxMoves
    <3>2. checkpoint # NoCheckpoint => AccountedTo(checkpoint) /\ CurrentTo(checkpoint)
      BY DEF MailInv, PositionsHold
    <3>3. ASSUME NEW n \in Nat, n = checkpoint, n <= Len(hist), AccountedTo(n), CurrentTo(n)
          PROVE  AccountedTo(checkpoint)' /\ CurrentTo(checkpoint)'
      BY <1>1, <1>4, <3>3 DEF AccountedTo, CurrentTo
    <3> QED BY <3>1, <3>2, <3>3
  <2>2. Incremental => AccountedTo(poll.start)' /\ CurrentTo(poll.start)'
    <3>1. Incremental => AccountedTo(poll.start) /\ CurrentTo(poll.start)
      BY DEF MailInv, PositionsHold
    <3>3. ASSUME NEW n \in Nat, n = poll.start, n <= Len(hist), AccountedTo(n), CurrentTo(n)
          PROVE  AccountedTo(poll.start)' /\ CurrentTo(poll.start)'
      BY <1>1, <1>4, <3>3 DEF AccountedTo, CurrentTo
    <3> QED BY <1>2, <1>3, <3>1, <3>3
  <2> QED BY <1>1, <2>1, <2>2 DEF PositionsHold, Incremental
<1>6. PollProgress'
  <2>1. ASSUME poll.pc = "fetch", NEW i \in 1 .. Len(poll.recs)
        PROVE  poll.recs[i] = hist'[poll.start + i]
    <3>1. /\ Len(poll.recs) = poll.next - poll.start
          /\ poll.recs[i] = hist[poll.start + i]
      BY <2>1 DEF MailInv, PollProgress
    <3>2. poll.start + i \in 1 .. Len(hist)
      BY <1>2, <1>3, <3>1, MailboxMoves
    <3> QED BY <3>1, <3>2, MailboxMoves
  <2>2. ASSUME poll.pc = "fetchAll" \/ (poll.pc = "hand" /\ poll.full), NEW x \in poll.ids
        PROVE  ~ Between(hist', 0, poll.next, x, "deleted") /\ box'[x] # "absent"
    <3>1. ~ Between(hist, 0, poll.next, x, "deleted") /\ box[x] # "absent"
      BY <2>2 DEF MailInv, PollProgress
    <3>2. x \in Message /\ 0 \in Nat
      BY <1>3
    <3> QED BY <1>2, <1>3, <3>1, <3>2, MailboxMoves
  <2> QED BY <1>1, <2>1, <2>2 DEF MailInv, PollProgress, Incremental
<1>7. BatchIsWhole'
  <2>1. ASSUME poll.pc = "hand", NEW x \in Message
        PROVE  FetchedAfter(x)'
    <3>1. FetchedAfter(x)
      BY <2>1 DEF MailInv, BatchIsWhole
    <3>2. ~ Between(hist, 0, poll.next, x, "deleted") => ~ Between(hist', 0, poll.next, x, "deleted")
      <4>1. 0 \in Nat
        OBVIOUS
      <4> QED BY <1>2, <1>3, <4>1, MailboxMoves
    <3>3. Mentioned(hist', poll.next, Len(hist'), x) \/ (box'[x] = box[x] /\ ~ Mentioned(hist, poll.next, Len(hist), x))
      BY <1>2, <1>3, MailboxMoves
    <3> QED BY <1>1, <3>1, <3>2, <3>3 DEF FetchedAfter, Exists
  <2>2. ASSUME poll.pc = "hand", poll.full, NEW x \in Message
        PROVE  ScanIsWhole(x)'
    <3>1. ScanIsWhole(x)
      BY <2>2 DEF MailInv, BatchIsWhole
    <3> QED BY <1>1, <3>1, MailboxMoves DEF ScanIsWhole
  <2>3. ASSUME poll.pc = "hand", ~ poll.full, NEW x \in Message
        PROVE  ChangesAreWhole(x)'
    <3>1. ChangesAreWhole(x)
      BY <2>3 DEF MailInv, BatchIsWhole
    <3>2. /\ \A w : Between(hist', poll.start, poll.next, x, w) <=> Between(hist, poll.start, poll.next, x, w)
          /\ Mentioned(hist', poll.start, poll.next, x) <=> Mentioned(hist, poll.start, poll.next, x)
      BY <1>2, <1>3, MailboxMoves
    <3>3. box[x] = "deleted" => box'[x] = "deleted"
      BY MailboxMoves
    <3> QED BY <1>1, <3>1, <3>2, <3>3 DEF ChangesAreWhole
  <2> QED BY <1>1, <2>1, <2>2, <2>3 DEF BatchIsWhole
<1> QED BY <1>5, <1>6, <1>7, MailboxMoves DEF MailInv

\* A step of a poll that leaves the mailbox and the stored state alone.
LEMMA PollMoves ==
    ASSUME MailInv, UNCHANGED <<hist, box, checkpoint, flags, received, removed, excused>>,
           poll' \in Polls, poll'.start <= Len(hist), poll'.next <= Len(hist),
           Incremental' => AccountedTo(poll'.start) /\ CurrentTo(poll'.start),
           PollProgress', BatchIsWhole'
    PROVE  MailInv'
<1>1. MailTypes'
  BY DEF MailInv, MailTypes
<1>2. HistoryAgrees'
  BY DEF MailInv, HistoryAgrees, Exists
<1>3. PositionsHold'
  <2>1. checkpoint # NoCheckpoint => AccountedTo(checkpoint)' /\ CurrentTo(checkpoint)'
    BY DEF MailInv, PositionsHold, AccountedTo, CurrentTo, Exists
  <2>2. Incremental' => AccountedTo(poll.start)' /\ CurrentTo(poll.start)'
    BY DEF AccountedTo, CurrentTo, Exists
  <2> QED BY <2>1, <2>2 DEF PositionsHold
<1> QED BY <1>1, <1>2, <1>3 DEF MailInv

LEMMA NoPollIsFine ==
    /\ NoPoll \in Polls /\ NoPoll.pc = "idle" /\ NoPoll.start = 0 /\ NoPoll.next = 0
    /\ NoPoll.recs = <<>> /\ NoPoll.full = FALSE /\ NoPoll.pos = 0
<1>1. NoChange \in MailChanges /\ <<>> \in Seq(Records)
  BY DEF NoChange, MailChanges
<1> QED BY <1>1 DEF NoPoll, Polls

\* The beginning and the end of a poll, and the steps of a scan.
LEMMA PollBounds ==
    ASSUME MailInv, PollBegins \/ CheckpointRejected \/ ReadBaseline \/ PollFails PROVE MailInv'
<1>1. UNCHANGED <<hist, box, checkpoint, flags, received, removed, excused>>
  BY DEF PollBegins, CheckpointRejected, ReadBaseline, PollFails
<1>2. /\ hist \in Seq(Records) /\ Len(hist) \in Nat
      /\ checkpoint \in 0 .. Len(hist) \/ checkpoint = NoCheckpoint
      /\ poll \in Polls /\ poll.start <= Len(hist) /\ poll.next <= Len(hist)
  BY DEF MailInv, MailTypes
<1>3. CASE PollBegins /\ checkpoint # NoCheckpoint
  <2>1. poll' = [NoPoll EXCEPT !.pc = "page", !.start = checkpoint, !.pos = checkpoint]
    BY <1>3 DEF PollBegins
  <2>2. checkpoint \in Nat /\ checkpoint <= Len(hist)
    BY <1>2, <1>3
  <2>3. /\ poll' \in Polls /\ poll'.pc = "page" /\ poll'.start = checkpoint /\ poll'.pos = checkpoint
        /\ poll'.next = 0 /\ poll'.recs = <<>> /\ poll'.full = FALSE
    BY <2>1, <2>2, NoPollIsFine DEF Polls
  <2>4. AccountedTo(checkpoint) /\ CurrentTo(checkpoint)
    BY <1>3 DEF MailInv, PositionsHold
  <2>5. PollProgress' /\ BatchIsWhole'
    BY <2>3 DEF PollProgress, BatchIsWhole, Incremental
  <2> QED BY <1>1, <1>2, <2>2, <2>3, <2>4, <2>5, PollMoves
<1>4. CASE CheckpointRejected \/ (PollBegins /\ checkpoint = NoCheckpoint)
  <2>1. poll' = [NoPoll EXCEPT !.pc = "scan"]
    BY <1>4 DEF PollBegins, CheckpointRejected
  <2>3. poll' \in Polls /\ poll'.pc = "scan" /\ poll'.start = 0 /\ poll'.next = 0
    BY <2>1, NoPollIsFine DEF Polls
  <2>5. PollProgress' /\ BatchIsWhole' /\ ~ Incremental'
    BY <2>3 DEF PollProgress, BatchIsWhole, Incremental
  <2> QED BY <1>1, <1>2, <2>3, <2>5, PollMoves
<1>5. CASE ReadBaseline
  <2>1. poll' = [poll EXCEPT !.pc = "list", !.next = Len(hist), !.full = TRUE]
    BY <1>5 DEF ReadBaseline
  <2>3. /\ poll' \in Polls /\ poll'.pc = "list" /\ poll'.start = poll.start
        /\ poll'.next = Len(hist) /\ poll'.full = TRUE
    BY <1>2, <2>1 DEF Polls
  <2>5. PollProgress' /\ BatchIsWhole' /\ ~ Incremental'
    BY <2>3 DEF PollProgress, BatchIsWhole, Incremental
  <2> QED BY <1>1, <1>2, <2>3, <2>5, PollMoves
<1>6. CASE PollFails
  <2>1. poll' = NoPoll
    BY <1>6 DEF PollFails
  <2>5. PollProgress' /\ BatchIsWhole' /\ ~ Incremental'
    BY <2>1, NoPollIsFine DEF PollProgress, BatchIsWhole, Incremental
  <2> QED BY <1>1, <1>2, <2>1, <2>5, NoPollIsFine, PollMoves
<1> QED BY <1>3, <1>4, <1>5, <1>6

\* What a longer part of the history says.
LEMMA LongerStretch ==
    ASSUME NEW h, NEW a \in Nat, NEW b \in Nat, NEW c \in Nat, NEW d \in Nat, c <= a, b <= d,
           NEW m, NEW w
    PROVE  /\ Between(h, a, b, m, w) => Between(h, c, d, m, w)
           /\ Mentioned(h, a, b, m) => Mentioned(h, c, d, m)
           /\ Between(h, a, b, m, w) => Mentioned(h, a, b, m)
<1>1. \A i \in a + 1 .. b : i \in c + 1 .. d
  OBVIOUS
<1> QED BY <1>1 DEF Between, Mentioned

\* A message that is there has no deletion in the history, one that has records is there
\* or deleted.
LEMMA BoxTells ==
    ASSUME MailInv, NEW m \in Message, NEW a \in Nat, NEW b \in Nat, b <= Len(hist)
    PROVE  /\ Between(hist, a, b, m, "deleted") => box[m] = "deleted"
           /\ Mentioned(hist, a, b, m) => Exists(m) \/ box[m] = "deleted"
<1>1. hist \in Seq(Records) /\ Len(hist) \in Nat /\ box[m] \in Flags \cup {"absent", "deleted"}
  BY DEF MailInv, MailTypes
<1>2. /\ Between(hist, a, b, m, "deleted") => Between(hist, 0, Len(hist), m, "deleted")
      /\ Mentioned(hist, a, b, m) => Mentioned(hist, 0, Len(hist), m)
  <2>1. 0 \in Nat /\ 0 <= a
    OBVIOUS
  <2> QED BY <1>1, <2>1, LongerStretch
<1> QED BY <1>1, <1>2 DEF MailInv, HistoryAgrees, Exists

LEMMA ScanSteps == ASSUME MailInv, ListMessages \/ FetchScan PROVE MailInv'
<1>1. UNCHANGED <<hist, box, checkpoint, flags, received, removed, excused>>
  BY DEF ListMessages, FetchScan
<1>2. /\ hist \in Seq(Records) /\ Len(hist) \in Nat
      /\ box \in [Message -> Flags \cup {"absent", "deleted"}]
      /\ poll \in Polls /\ poll.start <= Len(hist) /\ poll.next <= Len(hist)
  BY DEF MailInv, MailTypes
<1>3. poll.next \in Nat /\ poll.start \in Nat /\ 0 \in Nat
  BY <1>2 DEF Polls
<1>4. CASE ListMessages
  <2>1. PICK ids \in SUBSET {m \in Message : Exists(m)} :
          poll' = [poll EXCEPT !.pc = "fetchAll", !.ids = ids]
    BY <1>4 DEF ListMessages
  <2>2. /\ poll' \in Polls /\ poll'.pc = "fetchAll" /\ poll'.start = poll.start
        /\ poll'.next = poll.next /\ poll'.full = poll.full /\ poll'.ids = ids
    BY <1>2, <2>1 DEF Polls
  <2>3. poll.full
    BY <1>4 DEF MailInv, PollProgress, ListMessages
  <2>4. ASSUME NEW m \in ids
        PROVE  ~ Between(hist, 0, poll.next, m, "deleted") /\ box[m] # "absent"
    <3>1. m \in Message /\ box[m] \in Flags
      BY DEF Exists
    <3>2. box[m] # "absent" /\ box[m] # "deleted"
      BY <3>1 DEF Flags
    <3> QED BY <1>2, <1>3, <3>1, <3>2, BoxTells
  <2>5. PollProgress' /\ BatchIsWhole' /\ ~ Incremental'
    BY <1>1, <2>2, <2>3, <2>4 DEF PollProgress, BatchIsWhole, Incremental
  <2> QED BY <1>1, <1>2, <2>2, <2>5, PollMoves
<1>5. CASE FetchScan
  <2> DEFINE change == [m \in Message |-> IF m \in poll.ids /\ Exists(m) THEN <<"initial", box[m]>>
                                         ELSE NoChange]
  <2>1. poll' = [poll EXCEPT !.pc = "hand", !.change = change]
    BY <1>5 DEF FetchScan
  <2>2. change \in [Message -> MailChanges]
    <3>1. ASSUME NEW m \in Message PROVE change[m] \in MailChanges
      BY DEF MailChanges, NoChange, Exists
    <3> QED BY <3>1
  <2>3. /\ \A m \in Message : m \in poll.ids /\ Exists(m) =>
              change[m][1] = "initial" /\ change[m][2] = box[m]
        /\ \A m \in Message : ~(m \in poll.ids /\ Exists(m)) => change[m][1] = "none"
    BY DEF NoChange
  <2> HIDE DEF change
  <2>4. /\ poll' \in Polls /\ poll'.pc = "hand" /\ poll'.start = poll.start
        /\ poll'.next = poll.next /\ poll'.full = poll.full /\ poll'.ids = poll.ids
        /\ poll'.change = change
    BY <1>2, <2>1, <2>2 DEF Polls
  <2>5. /\ poll.full
        /\ \A m \in poll.ids : ~ Between(hist, 0, poll.next, m, "deleted") /\ box[m] # "absent"
    BY <1>5 DEF MailInv, PollProgress, FetchScan
  <2>6. ASSUME NEW m \in Message PROVE FetchedAfter(m)' /\ ScanIsWhole(m)'
    <3>1. CASE m \in poll.ids /\ Exists(m)
      <4>1. change[m][1] = "initial" /\ change[m][2] = box[m]
        BY <2>3, <3>1
      <4> QED BY <1>1, <2>4, <2>5, <3>1, <4>1 DEF FetchedAfter, ScanIsWhole
    <3>2. CASE ~(m \in poll.ids /\ Exists(m))
      <4>1. change[m][1] = "none"
        BY <2>3, <3>2
      <4>2. m \in poll.ids => box[m] = "deleted"
        BY <1>2, <2>5, <3>2 DEF Exists
      <4> QED BY <1>1, <2>4, <4>1, <4>2 DEF FetchedAfter, ScanIsWhole
    <3> QED BY <3>1, <3>2
  <2>7. PollProgress' /\ BatchIsWhole' /\ ~ Incremental'
    BY <1>1, <2>4, <2>5, <2>6 DEF PollProgress, BatchIsWhole, Incremental
  <2> QED BY <1>1, <1>2, <2>4, <2>7, PollMoves
<1> QED BY <1>4, <1>5

\* The n entries of a list after its first a.
LEMMA NextRecords ==
    ASSUME NEW T, NEW h \in Seq(T), NEW a \in Nat, NEW n \in Nat, a + n <= Len(h)
    PROVE  /\ SubSeq(h, a + 1, a + n) \in Seq(T)
           /\ Len(SubSeq(h, a + 1, a + n)) = n
           /\ \A i \in 1 .. n : SubSeq(h, a + 1, a + n)[i] = h[a + i]
<1>1. \A i \in a + 1 .. a + n : h[i] \in T
  OBVIOUS
<1>2. ASSUME NEW l \in Int, NEW k \in Int, l = a + 1, k = a + n
      PROVE  /\ SubSeq(h, l, k) \in Seq(T)
             /\ Len(SubSeq(h, l, k)) = IF l <= k THEN k - l + 1 ELSE 0
             /\ \A i \in 1 .. k - l + 1 : SubSeq(h, l, k)[i] = h[l + i - 1]
  <2>1. \A i \in l .. k : h[i] \in T
    BY <1>1, <1>2
  <2> QED BY <2>1, SubSeqProperties
<1>3. ASSUME NEW l \in Int, NEW k \in Int, l = a + 1, k = a + n
      PROVE  /\ SubSeq(h, l, k) \in Seq(T)
             /\ Len(SubSeq(h, l, k)) = n
             /\ \A i \in 1 .. n : SubSeq(h, l, k)[i] = h[a + i]
  <2>1. k - l + 1 = n /\ \A i \in 1 .. n : l + i - 1 = a + i
    BY <1>3
  <2>2. (IF l <= k THEN k - l + 1 ELSE 0) = n
    BY <1>3
  <2> QED BY <1>2, <1>3, <2>1, <2>2
<1> QED BY <1>3

\* A page that is read to its end, or to the bound of a poll: the records that follow
\* the start, and the position of the last one.
LEMMA PageStep == ASSUME ~ ShortPages, MailInv, ReadPage PROVE MailInv'
<1>1. UNCHANGED <<hist, box, checkpoint, flags, received, removed, excused>>
  BY DEF ReadPage
<1>2. /\ hist \in Seq(Records) /\ Len(hist) \in Nat
      /\ poll \in Polls /\ poll.start <= Len(hist) /\ poll.next <= Len(hist)
  BY DEF MailInv, MailTypes
<1>3. /\ poll.pc = "page" /\ poll.recs = <<>> /\ poll.pos = poll.start /\ poll.full = FALSE
      /\ poll.start \in Nat /\ Len(poll.recs) = 0
  BY <1>2 DEF ReadPage, MailInv, PollProgress, Polls
<1> DEFINE n == Min({RecordLimit, Len(hist) - poll.pos})
           recs == SubSeq(hist, poll.start + 1, poll.start + n)
<1>4. /\ n \in Nat /\ n <= RecordLimit /\ poll.start + n <= Len(hist)
      /\ n = RecordLimit \/ poll.start + n = Len(hist)
  <2>1. {RecordLimit, Len(hist) - poll.pos} \in SUBSET Nat
    BY <1>2, <1>3, GmailAssumption
  <2>2. n \in {RecordLimit, Len(hist) - poll.pos} /\ \A y \in {RecordLimit, Len(hist) - poll.pos} : n <= y
    BY <2>1, MinIsLeast
  <2> HIDE DEF n
  <2> QED BY <1>2, <1>3, <2>1, <2>2
<1>5. poll' = AfterPage(n)
  BY DEF ReadPage
<1> HIDE DEF n
<1>6. RecordLimit \in Nat /\ RecordLimit > 0
  BY GmailAssumption
<1>7. Min({n, RecordLimit - Len(poll.recs)}) = n
  <2>1. {n, RecordLimit - Len(poll.recs)} \in SUBSET Nat
    BY <1>3, <1>4, <1>6
  <2>2. /\ Min({n, RecordLimit - Len(poll.recs)}) \in {n, RecordLimit - Len(poll.recs)}
        /\ \A y \in {n, RecordLimit - Len(poll.recs)} : Min({n, RecordLimit - Len(poll.recs)}) <= y
    BY <2>1, MinIsLeast
  <2> QED BY <1>3, <1>4, <1>6, <2>1, <2>2
<1>8. /\ recs \in Seq(Records) /\ Len(recs) = n
      /\ \A i \in 1 .. n : recs[i] = hist[poll.start + i]
  <2>1. hist \in Seq(Records) /\ poll.start \in Nat /\ n \in Nat /\ poll.start + n <= Len(hist)
    BY <1>2, <1>3, <1>4
  <2> QED BY <2>1, NextRecords, ZenonT(60)
<1>9. poll.recs \o SubSeq(SubSeq(hist, poll.pos + 1, poll.pos + n), 1, n) = recs
  <2>1. SubSeq(hist, poll.pos + 1, poll.pos + n) = recs
    BY <1>3
  <2> HIDE DEF recs
  <2>2. SubSeq(recs, 1, n) = recs
    BY <1>8, <1>4
  <2>3. <<>> \o recs = recs
    BY <1>8
  <2> QED BY <1>3, <2>1, <2>2, <2>3
<1> HIDE DEF recs
<1>10. poll' = [poll EXCEPT !.recs = recs, !.pos = poll.pos + n, !.next = poll.start + n, !.pc = "fetch"]
  <2>1. (IF poll.pos + n = Len(hist) THEN Len(hist) ELSE poll.start + Len(recs)) = poll.start + n
    BY <1>3, <1>8
  <2>2. (IF poll.pos + n = Len(hist) \/ Len(recs) >= RecordLimit THEN "fetch" ELSE "page") = "fetch"
    BY <1>3, <1>4, <1>6, <1>8
  <2> QED BY <1>5, <1>7, <1>9, <2>1, <2>2 DEF AfterPage
<1>11. /\ poll' \in Polls /\ poll'.pc = "fetch" /\ poll'.start = poll.start
       /\ poll'.next = poll.start + n /\ poll'.full = FALSE /\ poll'.recs = recs
  <2>1. poll.pos + n \in Nat /\ poll.start + n \in Nat
    BY <1>3, <1>4
  <2> QED BY <1>2, <1>3, <1>8, <1>10, <2>1 DEF Polls
<1>12. PollProgress'
  <2>1. Len(recs) = (poll.start + n) - poll.start /\ poll.start <= poll.start + n
    BY <1>3, <1>4, <1>8
  <2>2. \A i \in 1 .. Len(recs) : recs[i] = hist[poll.start + i]
    BY <1>8
  <2> QED BY <1>1, <1>11, <2>1, <2>2 DEF PollProgress
<1>13. AccountedTo(poll.start) /\ CurrentTo(poll.start)
  BY <1>3 DEF MailInv, PositionsHold, Incremental
<1>14. BatchIsWhole'
  BY <1>11 DEF BatchIsWhole
<1> QED BY <1>1, <1>2, <1>4, <1>11, <1>12, <1>13, <1>14, PollMoves

\* The records of a poll name exactly the messages of its part of the history.
LEMMA NamedAreBetween ==
    ASSUME MailInv, poll.pc = "fetch", NEW m, NEW w
    PROVE  m \in Named(w) <=> Between(hist, poll.start, poll.next, m, w)
<1>1. /\ poll.start \in Nat /\ poll.next \in Nat /\ poll.start <= poll.next
      /\ Len(poll.recs) = poll.next - poll.start
      /\ \A i \in 1 .. Len(poll.recs) : poll.recs[i] = hist[poll.start + i]
  BY DEF MailInv, MailTypes, Polls, PollProgress, Incremental
<1>2. ASSUME m \in Named(w) PROVE Between(hist, poll.start, poll.next, m, w)
  <2>1. PICK i \in 1 .. Len(poll.recs) : poll.recs[i].what = w /\ poll.recs[i].msg = m
    BY <1>2 DEF Named
  <2>2. poll.start + i \in poll.start + 1 .. poll.next /\ poll.recs[i] = hist[poll.start + i]
    BY <1>1
  <2> QED BY <2>1, <2>2 DEF Between
<1>3. ASSUME Between(hist, poll.start, poll.next, m, w) PROVE m \in Named(w)
  <2>1. PICK i \in poll.start + 1 .. poll.next : hist[i].msg = m /\ hist[i].what = w
    BY <1>3 DEF Between
  <2>2. i - poll.start \in 1 .. Len(poll.recs) /\ poll.start + (i - poll.start) = i
    BY <1>1
  <2>3. poll.recs[i - poll.start] = hist[i]
    BY <1>1, <2>2
  <2> QED BY <2>1, <2>2, <2>3 DEF Named
<1> QED BY <1>2, <1>3

LEMMA ChangesStep == ASSUME MailInv, FetchChanges PROVE MailInv'
<1>1. UNCHANGED <<hist, box, checkpoint, flags, received, removed, excused>>
  BY DEF FetchChanges
<1>2. /\ hist \in Seq(Records) /\ Len(hist) \in Nat
      /\ box \in [Message -> Flags \cup {"absent", "deleted"}]
      /\ poll \in Polls /\ poll.start <= Len(hist) /\ poll.next <= Len(hist)
      /\ poll.start \in Nat /\ poll.next \in Nat /\ poll.pc = "fetch"
  BY DEF MailInv, MailTypes, Polls, FetchChanges
<1> DEFINE B(m, w) == Between(hist, poll.start, poll.next, m, w)
           change == [m \in Message |->
                    CASE m \in Named("deleted") ->
                           IF m \in received THEN <<"removed", "none">> ELSE NoChange
                      [] m \notin Named("deleted") /\ m \in Named("added") /\ Exists(m) ->
                           <<"added", box[m]>>
                      [] m \notin Named("deleted") \cup Named("added")
                            /\ m \in Named("labels") /\ Exists(m) -> <<"labels", box[m]>>
                      [] OTHER -> NoChange]
<1>3. poll' = [poll EXCEPT !.pc = "hand", !.change = change]
  BY DEF FetchChanges
<1>4. ASSUME NEW m \in Message
      PROVE  \/ B(m, "deleted") /\ m \in received /\ change[m] = <<"removed", "none">>
             \/ B(m, "deleted") /\ m \notin received /\ change[m] = NoChange
             \/ ~ B(m, "deleted") /\ B(m, "added") /\ Exists(m) /\ change[m] = <<"added", box[m]>>
             \/ /\ ~ B(m, "deleted") /\ ~ B(m, "added") /\ B(m, "labels") /\ Exists(m)
                /\ change[m] = <<"labels", box[m]>>
             \/ /\ ~ B(m, "deleted") /\ ~ (B(m, "added") /\ Exists(m))
                /\ ~ (B(m, "labels") /\ Exists(m))
                /\ change[m] = NoChange
  <2>1. \A w \in {"added", "deleted", "labels"} : m \in Named(w) <=> B(m, w)
    BY <1>2, NamedAreBetween
  <2> HIDE DEF B
  <2> QED BY <2>1
<1> HIDE DEF change
<1>5. change \in [Message -> MailChanges]
  <2>1. \A m \in Message : change[m] \in MailChanges
    BY <1>4 DEF MailChanges, NoChange, Exists
  <2>2. change = [m \in Message |-> change[m]]
    BY DEF change
  <2> QED BY <2>1, <2>2
<1>6. /\ poll' \in Polls /\ poll'.pc = "hand" /\ poll'.start = poll.start
      /\ poll'.next = poll.next /\ poll'.full = poll.full /\ poll'.change = change
  BY <1>2, <1>3, <1>5 DEF Polls
<1>7. /\ ~ poll.full /\ poll.start <= poll.next
      /\ AccountedTo(poll.start) /\ CurrentTo(poll.start)
  BY <1>2 DEF MailInv, PollProgress, PositionsHold, Incremental
<1>8. ASSUME NEW m \in Message PROVE FetchedAfter(m)' /\ ChangesAreWhole(m)'
  <2>1. /\ \A a \in Nat : Between(hist, a, poll.next, m, "deleted") => box[m] = "deleted"
        /\ Mentioned(hist, poll.start, poll.next, m) => Exists(m) \/ box[m] = "deleted"
        /\ 0 \in Nat
    BY <1>2, BoxTells
  <2>2. /\ Mentioned(hist, poll.start, poll.next, m) => B(m, "added") \/ B(m, "deleted") \/ B(m, "labels")
        /\ \A w : B(m, w) => Mentioned(hist, poll.start, poll.next, m)
    <3>1. \A i \in poll.start + 1 .. poll.next : hist[i].what \in {"added", "deleted", "labels"}
      <4>1. \A i \in poll.start + 1 .. poll.next : i \in 1 .. Len(hist)
        BY <1>2
      <4>2. \A i \in 1 .. Len(hist) : hist[i] \in Records
        BY <1>2
      <4> QED BY <4>1, <4>2 DEF Records
    <3> QED BY <3>1 DEF Between, Mentioned
  <2>3. Exists(m) => box[m] # "deleted"
    BY DEF Exists, Flags
  <2>4. /\ B(m, "deleted") => box[m] = "deleted"
        /\ Exists(m) => ~ Between(hist, 0, poll.next, m, "deleted")
    BY <1>2, <2>1, <2>3
  <2> HIDE DEF B
  <2>5. /\ change[m][1] # "initial"
        /\ change[m][1] \in {"added", "labels"} => Exists(m) /\ change[m][2] = box[m]
        /\ B(m, "added") => change[m][1] = "added" \/ box[m] = "deleted"
        /\ B(m, "deleted") /\ m \in received => change[m][1] = "removed"
        /\ Mentioned(hist, poll.start, poll.next, m) /\ change[m][1] = "none" => box[m] = "deleted"
    BY <1>4, <2>1, <2>2, <2>3, <2>4 DEF NoChange
  <2> USE DEF B
  <2>6. FetchedAfter(m)'
    BY <1>1, <1>6, <2>4, <2>5 DEF FetchedAfter
  <2>7. ChangesAreWhole(m)'
    BY <1>1, <1>6, <2>5 DEF ChangesAreWhole
  <2> QED BY <2>6, <2>7
<1>9. PollProgress' /\ BatchIsWhole'
  BY <1>1, <1>6, <1>7, <1>8 DEF PollProgress, BatchIsWhole, Incremental
<1> QED BY <1>1, <1>2, <1>6, <1>7, <1>9, PollMoves

\* What is said of a stretch of history is said of its first or of its second part.
LEMMA TwoStretches ==
    ASSUME NEW h, NEW a \in Nat, NEW b \in Nat, NEW c \in Nat, NEW m, NEW w
    PROVE  /\ Between(h, a, c, m, w) => Between(h, a, b, m, w) \/ Between(h, b, c, m, w)
           /\ Mentioned(h, a, c, m) => Mentioned(h, a, b, m) \/ Mentioned(h, b, c, m)
<1>1. \A i \in a + 1 .. c : i \in a + 1 .. b \/ i \in b + 1 .. c
  OBVIOUS
<1> QED BY <1>1 DEF Between, Mentioned

\* One transaction stores the batch and moves the checkpoint to where the batch ends.
LEMMA IngestMailStep == ASSUME MailInv, IngestMail PROVE MailInv'
<1>1. /\ UNCHANGED <<hist, box>> /\ checkpoint' = poll.next /\ poll' = NoPoll
      /\ received' = received \cup Changed("initial") \cup Changed("added")
      /\ removed' = removed \cup Changed("removed")
      /\ excused' = IF poll.full
                    THEN excused \cup ({hist[i].msg : i \in 1 .. poll.next} \ poll.ids)
                    ELSE excused
      /\ poll.pc = "hand"
  BY DEF IngestMail
<1>2. PICK kept \in SUBSET Message :
        flags' = [m \in Message |-> IF m \in kept THEN NewFlags[m] ELSE "none"]
  BY DEF IngestMail
<1>3. /\ hist \in Seq(Records) /\ Len(hist) \in Nat
      /\ box \in [Message -> Flags \cup {"absent", "deleted"}]
      /\ flags \in [Message -> Flags \cup {"none"}]
      /\ received \subseteq Message /\ removed \subseteq Message /\ excused \subseteq Message
      /\ poll \in Polls /\ poll.start <= Len(hist) /\ poll.next <= Len(hist)
      /\ poll.start \in Nat /\ poll.next \in Nat /\ 0 \in Nat
      /\ poll.change \in [Message -> MailChanges]
  BY DEF MailInv, MailTypes, Polls
<1>4. /\ \A w : \A m \in Message : m \in Changed(w) <=> poll.change[m][1] = w
      /\ \A w : Changed(w) \subseteq Message
      /\ \A m \in Message : poll.change[m][1] \in {"none", "initial", "added", "labels", "removed"}
                               /\ poll.change[m][2] \in Flags \cup {"none"}
  <2>1. \A m \in Message : poll.change[m] \in MailChanges
    BY <1>3
  <2> QED BY <2>1 DEF Changed, MailChanges
<1>5. /\ \A m \in Message : poll.change[m][1] = "removed" => NewFlags[m] = "none"
      /\ \A m \in Message : poll.change[m][1] \in {"initial", "added", "labels"}
            => NewFlags[m] = poll.change[m][2]
      /\ \A m \in Message : poll.change[m][1] = "none" => NewFlags[m] = flags[m]
  BY <1>4 DEF NewFlags
<1>6. /\ flags' \in [Message -> Flags \cup {"none"}]
      /\ \A m \in Message : flags'[m] # "none" => flags'[m] = NewFlags[m]
  <2>1. \A m \in Message : NewFlags[m] \in Flags \cup {"none"}
    BY <1>3, <1>4, <1>5
  <2> QED BY <1>2, <2>1
<1>7. received' \subseteq Message /\ removed' \subseteq Message /\ excused' \subseteq Message
  <2>1. {hist[i].msg : i \in 1 .. poll.next} \subseteq Message
    <3>1. \A i \in 1 .. poll.next : i \in 1 .. Len(hist)
      BY <1>3
    <3>2. \A i \in 1 .. Len(hist) : hist[i] \in Records
      BY <1>3
    <3> QED BY <3>1, <3>2 DEF Records
  <2> QED BY <1>1, <1>3, <1>4, <2>1
<1>8. MailTypes'
  <2>1. checkpoint' \in 0 .. Len(hist')
    BY <1>1, <1>3
  <2> QED BY <1>1, <1>3, <1>6, <1>7, <2>1, NoPollIsFine DEF MailTypes
<1>9. HistoryAgrees'
  BY <1>1 DEF MailInv, HistoryAgrees, Exists
<1>10. \A m \in Message : FetchedAfter(m) /\ IF poll.full THEN ScanIsWhole(m) ELSE ChangesAreWhole(m)
  BY <1>1 DEF MailInv, BatchIsWhole
<1>11. CASE poll.full
  <2>1. ASSUME NEW m \in Message \ excused', Mentioned(hist, 0, poll.next, m)
        PROVE  /\ m \in poll.ids /\ ~ Between(hist, 0, poll.next, m, "deleted")
               /\ poll.change[m][1] = "initial" \/ box[m] = "deleted"
    <3>1. PICK i \in 1 .. poll.next : hist[i].msg = m
      BY <2>1 DEF Mentioned
    <3>2. m \in poll.ids
      BY <1>1, <1>11, <3>1
    <3>3. ~ Between(hist, 0, poll.next, m, "deleted")
      BY <1>1, <1>11, <3>2 DEF MailInv, PollProgress
    <3> QED BY <1>10, <1>11, <3>2, <3>3 DEF ScanIsWhole
  <2>2. ASSUME NEW m \in Message \ excused'
        PROVE  /\ Between(hist, 0, poll.next, m, "added") => m \in received' \/ box[m] = "deleted"
               /\ Between(hist, 0, poll.next, m, "deleted") /\ m \in received' => m \in removed'
    <3>1. \A w : Between(hist, 0, poll.next, m, w) => Mentioned(hist, 0, poll.next, m)
      BY DEF Between, Mentioned
    <3> QED BY <1>1, <1>4, <2>1, <3>1
  <2>3. ASSUME NEW m \in Message \ excused', flags'[m] # "none", Exists(m), flags'[m] # box[m]
        PROVE  Mentioned(hist, poll.next, Len(hist), m)
    <3>1. CASE Mentioned(hist, 0, poll.next, m)
      <4>1. poll.change[m][1] = "initial"
        BY <2>1, <2>3, <3>1 DEF Exists, Flags
      <4>2. poll.change[m][2] # box[m]
        BY <1>5, <1>6, <2>3, <4>1
      <4> QED BY <1>10, <2>3, <4>1, <4>2 DEF FetchedAfter
    <3>2. CASE ~ Mentioned(hist, 0, poll.next, m)
      <4>1. Mentioned(hist, 0, Len(hist), m)
        BY <2>3 DEF MailInv, HistoryAgrees
      <4> QED BY <1>3, <3>2, <4>1, TwoStretches
    <3> QED BY <3>1, <3>2
  <2> QED BY <1>1, <1>8, <1>9, <2>2, <2>3, NoPollIsFine
          DEF MailInv, PositionsHold, AccountedTo, CurrentTo, Exists, Incremental, PollProgress, BatchIsWhole
<1>12. CASE ~ poll.full
  <2>1. AccountedTo(poll.start) /\ CurrentTo(poll.start) /\ excused' = excused
    BY <1>1, <1>12 DEF MailInv, PositionsHold, Incremental
  <2>2. ASSUME NEW m \in Message \ excused, Between(hist, 0, poll.next, m, "added")
        PROVE  m \in received' \/ box[m] = "deleted"
    <3>1. Between(hist, 0, poll.start, m, "added") \/ Between(hist, poll.start, poll.next, m, "added")
      BY <1>3, <2>2, TwoStretches
    <3>2. ChangesAreWhole(m)
      BY <1>10, <1>12
    <3> QED BY <1>1, <1>4, <2>1, <3>1, <3>2 DEF AccountedTo, ChangesAreWhole
  <2>3. ASSUME NEW m \in Message \ excused, Between(hist, 0, poll.next, m, "deleted"), m \in received'
        PROVE  m \in removed'
    <3>1. Between(hist, 0, poll.start, m, "deleted") \/ Between(hist, poll.start, poll.next, m, "deleted")
      BY <1>3, <2>3, TwoStretches
    <3>2. ChangesAreWhole(m) /\ FetchedAfter(m)
      BY <1>10, <1>12
    <3>3. m \in received
      BY <1>1, <1>4, <2>3, <3>2 DEF FetchedAfter
    <3> QED BY <1>1, <1>4, <2>1, <3>1, <3>2, <3>3 DEF AccountedTo, ChangesAreWhole
  <2>4. ASSUME NEW m \in Message \ excused, flags'[m] # "none", Exists(m), flags'[m] # box[m]
        PROVE  Mentioned(hist, poll.next, Len(hist), m)
    <3>1. ChangesAreWhole(m) /\ FetchedAfter(m)
      BY <1>10, <1>12
    <3>2. CASE poll.change[m][1] = "none"
      <4>1. Mentioned(hist, poll.start, Len(hist), m)
        BY <1>5, <1>6, <2>1, <2>4, <3>2 DEF CurrentTo
      <4>2. ~ Mentioned(hist, poll.start, poll.next, m)
        BY <2>4, <3>1, <3>2 DEF ChangesAreWhole, Exists, Flags
      <4> QED BY <1>3, <4>1, <4>2, TwoStretches
    <3>3. CASE poll.change[m][1] \in {"initial", "added", "labels"}
      <4>1. poll.change[m][2] # box[m]
        BY <1>5, <1>6, <2>4, <3>3
      <4> QED BY <2>4, <3>1, <3>3, <4>1 DEF FetchedAfter
    <3>4. poll.change[m][1] # "removed"
      BY <1>5, <1>6, <2>4
    <3> QED BY <1>4, <3>2, <3>3, <3>4
  <2> QED BY <1>1, <1>8, <1>9, <2>1, <2>2, <2>3, <2>4, NoPollIsFine
          DEF MailInv, PositionsHold, AccountedTo, CurrentTo, Exists, Incremental, PollProgress, BatchIsWhole
<1> QED BY <1>11, <1>12

LEMMA ForgetStep == ASSUME MailInv, ForgetCheckpoints PROVE MailInv'
<1>1. /\ UNCHANGED <<hist, box, received, removed, poll, excused>>
      /\ checkpoint' = NoCheckpoint /\ flags' = [m \in Message |-> "none"]
  BY DEF ForgetCheckpoints
<1>2. MailTypes' /\ HistoryAgrees'
  BY <1>1 DEF MailInv, MailTypes, HistoryAgrees, Exists
<1>3. PositionsHold'
  BY <1>1 DEF MailInv, PositionsHold, Incremental, AccountedTo, CurrentTo
<1>4. PollProgress'
  BY <1>1 DEF MailInv, PollProgress, Incremental
<1>5. BatchIsWhole'
  BY <1>1 DEF MailInv, BatchIsWhole, FetchedAfter, ScanIsWhole, ChangesAreWhole, Exists
<1> QED BY <1>2, <1>3, <1>4, <1>5 DEF MailInv

LEMMA MailInvariant == ASSUME ~ ShortPages PROVE GmailSpec => []MailInv
<1>1. ASSUME MailInv, [GmailNext]_mailVars PROVE MailInv'
  <2>1. CASE UNCHANGED mailVars \/ HistoryExpires
    <3>1. UNCHANGED <<hist, box, checkpoint, flags, received, removed, poll, excused>>
      BY <2>1 DEF mailVars, HistoryExpires
    <3> QED BY <1>1, <3>1 DEF MailInv, MailTypes, HistoryAgrees, PositionsHold, PollProgress, BatchIsWhole,
              Incremental, AccountedTo, CurrentTo, FetchedAfter, ScanIsWhole, ChangesAreWhole, Exists
  <2>2. CASE MailboxChanges
    BY <1>1, <2>2, MailboxStep
  <2>3. CASE PollBegins \/ CheckpointRejected \/ ReadBaseline \/ PollFails
    BY <1>1, <2>3, PollBounds
  <2>4. CASE ListMessages \/ FetchScan
    BY <1>1, <2>4, ScanSteps
  <2>5. CASE ReadPage
    BY <1>1, <2>5, PageStep
  <2>6. CASE FetchChanges
    BY <1>1, <2>6, ChangesStep
  <2>7. CASE IngestMail
    BY <1>1, <2>7, IngestMailStep
  <2>8. CASE ForgetCheckpoints
    BY <1>1, <2>8, ForgetStep
  <2> QED BY <1>1, <2>1, <2>2, <2>3, <2>4, <2>5, <2>6, <2>7, <2>8 DEF GmailNext, SyncStep
<1> QED BY <1>1, MailBegins, PTL DEF GmailSpec

\* As long as Gmail fills its pages, the history id of the checkpoint never passes a change
\* that was not ingested: whatever the mailbox does between the calls of a poll, whichever
\* polls fail, whatever Gmail forgets and however often the account is disconnected, every
\* message added up to it was received, is gone or was passed over by a bounded scan, and
\* every received message that was deleted was reported (history, _incremental_sync,
\* _bounded_full_sync, ingest_gmail_batch).
THEOREM MailIsIngested == ASSUME ~ ShortPages PROVE GmailSpec => []MailIsAccountedFor
<1>1. ASSUME MailInv PROVE MailIsAccountedFor
  <2>1. ASSUME NEW m, NEW w, Covered(w, m) PROVE checkpoint # NoCheckpoint /\ Between(hist, 0, checkpoint, m, w)
    BY <2>1 DEF Covered, Between
  <2> QED BY <1>1, <2>1 DEF MailInv, PositionsHold, AccountedTo, MailIsAccountedFor
<1> QED BY <1>1, MailInvariant, PTL

\* Under the same condition a remembered flag that differs from the message's has its
\* change still ahead of the checkpoint: an update is never taken for seen
\* (ingest_gmail_batch, _trim_message_states).
THEOREM FlagsStayCurrent == ASSUME ~ ShortPages PROVE GmailSpec => []FlagsAreCurrent
<1>1. MailInv => FlagsAreCurrent
  BY DEF MailInv, PositionsHold, CurrentTo, Mentioned, FlagsAreCurrent
<1> QED BY <1>1, MailInvariant, PTL

-----------------------------------------------------------------------------
(* The types of the four intakes                                            *)

\* The types of GithubIntake that GithubInv does not have: the list of recent pull requests
\* holds every one that there is.
RecentIsWhole ==
    /\ \A p \in Pull : pulls[p] # "none" => \E i \in 1 .. Len(recent) : recent[i] = p
    /\ githubFaults \in 0 .. MaxGithubFaults

\* A list without the first w has every other entry still.
LEMMA RemoveFirstLeaves ==
    ASSUME NEW T, NEW q \in Seq(T), NEW w, NEW j \in 1 .. Len(q), q[j] # w
    PROVE  \E i \in 1 .. Len(RemoveFirst(q, w)) : RemoveFirst(q, w)[i] = q[j]
<1>1. CASE \E i \in 1 .. Len(q) : q[i] = w
  <2> DEFINE I == {i \in 1 .. Len(q) : q[i] = w}
             k == Min(I)
             left == SubSeq(q, 1, k - 1)
             right == SubSeq(q, k + 1, Len(q))
  <2>1. I \in SUBSET Nat /\ I # {}
    BY <1>1
  <2>2. k \in I
    <3> HIDE DEF I
    <3> QED BY <2>1, MinIsLeast
  <2>3. RemoveFirst(q, w) = left \o right
    BY <1>1 DEF RemoveFirst, RemoveAt, SelectInSeq
  <2>4. k \in 1 .. Len(q) /\ j # k /\ Len(q) \in Nat
    BY <2>2
  <2> HIDE DEF k
  <2>5. /\ left \in Seq(T) /\ Len(left) = k - 1
        /\ \A i \in 1 .. Len(left) : left[i] = q[i]
    BY <2>4
  <2>6. /\ right \in Seq(T) /\ Len(right) = Len(q) - k
        /\ \A i \in 1 .. Len(right) : right[i] = q[k + i]
    BY <2>4
  <2> HIDE DEF left, right
  <2>7. /\ Len(left \o right) = Len(left) + Len(right)
        /\ \A i \in 1 .. Len(left) + Len(right) :
              (left \o right)[i] = IF i <= Len(left) THEN left[i] ELSE right[i - Len(left)]
    BY <2>5, <2>6, ConcatProperties, Zenon
  <2>8. CASE j < k
    <3>1. j \in 1 .. Len(left) + Len(right) /\ j <= Len(left)
      BY <2>4, <2>5, <2>6, <2>8
    <3>2. (left \o right)[j] = q[j]
      BY <2>5, <2>7, <3>1
    <3> QED BY <2>3, <2>7, <3>1, <3>2
  <2>9. CASE j > k
    <3>1. /\ j - 1 \in 1 .. Len(left) + Len(right) /\ ~(j - 1 <= Len(left))
          /\ j - 1 - Len(left) \in 1 .. Len(right) /\ k + (j - 1 - Len(left)) = j
      BY <2>4, <2>5, <2>6, <2>9
    <3>2. (left \o right)[j - 1] = q[j]
      BY <2>6, <2>7, <3>1
    <3> QED BY <2>3, <2>7, <3>1, <3>2
  <2> QED BY <2>4, <2>8, <2>9
<1>2. CASE ~ \E i \in 1 .. Len(q) : q[i] = w
  BY <1>2 DEF RemoveFirst
<1> QED BY <1>1, <1>2

\* A pull request that is put in front of the list joins those that were in it.
LEMMA FrontIsWhole ==
    ASSUME NEW p \in Pull, NEW rest \in Seq(Pull), recent \in Seq(Pull),
           \A j \in 1 .. Len(recent) : recent[j] # p => \E i \in 1 .. Len(rest) : rest[i] = recent[j],
           recent' = <<p>> \o rest, RecentIsWhole,
           \A o \in Pull \ {p} : pulls'[o] = pulls[o], githubFaults' = githubFaults
    PROVE  RecentIsWhole'
<1>1. /\ Len(recent') = Len(rest) + 1 /\ recent'[1] = p
      /\ \A i \in 1 .. Len(rest) : recent'[i + 1] = rest[i] /\ i + 1 \in 1 .. Len(recent')
      /\ 1 \in 1 .. Len(recent')
  OBVIOUS
<1>2. ASSUME NEW o \in Pull, pulls'[o] # "none" PROVE \E i \in 1 .. Len(recent') : recent'[i] = o
  <2>1. CASE o = p
    BY <1>1, <2>1
  <2>2. CASE o # p
    <3>1. PICK j \in 1 .. Len(recent) : recent[j] = o
      BY <1>2, <2>2 DEF RecentIsWhole
    <3>2. PICK i \in 1 .. Len(rest) : rest[i] = o
      BY <2>2, <3>1
    <3> QED BY <1>1, <3>2
  <2> QED BY <2>1, <2>2
<1> QED BY <1>2 DEF RecentIsWhole

\* Resources, deliveries, claims and the reconciliation have their types, and the list of
\* recent pull requests has exactly those that there are.
THEOREM GithubTypeCorrect == GithubSpec => []GithubTypeOK
<1>1. GithubInit => RecentIsWhole
  BY GithubAssumption DEF GithubInit, RecentIsWhole
<1>2. ASSUME GithubInv, RecentIsWhole, [GithubNext]_githubVars PROVE RecentIsWhole'
  <2>0. pulls \in [Pull -> {"none", "open", "merged"}] /\ recent \in Seq(Pull)
    BY <1>2 DEF GithubInv, GithubTypes
  <2>1. CASE PullChanges
    <3>1. PICK p \in Pull :
             \/ /\ pulls' = [pulls EXCEPT ![p] = "open"]
                /\ recent' = <<p>> \o recent
                /\ githubFaults' = githubFaults
             \/ /\ pulls' = [pulls EXCEPT ![p] = "merged"]
                /\ recent' = <<p>> \o RemoveFirst(recent, p)
                /\ githubFaults' = githubFaults
      BY <2>1 DEF PullChanges, Deliver
    <3>2. \A o \in Pull \ {p} : pulls'[o] = pulls[o]
      BY <2>0, <3>1
    <3>3. CASE recent' = <<p>> \o recent
      BY <1>2, <2>0, <3>1, <3>2, <3>3, FrontIsWhole
    <3>4. CASE recent' = <<p>> \o RemoveFirst(recent, p)
      <4>1. RemoveFirst(recent, p) \in Seq(Pull)
        BY <2>0, RemoveFirstKeeps
      <4>2. \A j \in 1 .. Len(recent) : recent[j] # p =>
              \E i \in 1 .. Len(RemoveFirst(recent, p)) : RemoveFirst(recent, p)[i] = recent[j]
        BY <2>0, RemoveFirstLeaves
      <4> QED BY <1>2, <2>0, <3>1, <3>2, <3>4, <4>1, <4>2, FrontIsWhole
    <3> QED BY <3>1, <3>3, <3>4
  <2>2. CASE ReconciliationFails
    BY <1>2, <2>2, GithubAssumption DEF ReconciliationFails, resourceVars, RecentIsWhole
  <2>3. ASSUME UNCHANGED <<pulls, recent, githubFaults>> PROVE RecentIsWhole'
    BY <1>2, <2>3 DEF RecentIsWhole
  <2> QED BY <1>2, <2>1, <2>2, <2>3 DEF GithubNext, Reconcile, RunChanges, DeploymentChanges,
             Deliver, ReceiveDelivery, ListResources, FilterChanges, StoreChanges, resourceVars,
             githubVars
<1>3. ASSUME GithubInv, RecentIsWhole PROVE GithubTypeOK
  <2>0. /\ pulls \in [Pull -> {"none", "open", "merged"}] /\ recent \in Seq(Pull)
        /\ runs \in [Run -> RunStates]
        /\ claims \subseteq DOMAIN deliveries
        /\ recon.pc \in {"idle", "runs", "deployments", "filter", "store"}
    BY <1>3 DEF GithubInv, GithubTypes
  <2>1. ToSet(recent) = {p \in Pull : pulls[p] # "none"}
    <3>1. ToSet(recent) = {recent[i] : i \in 1 .. Len(recent)}
      BY <2>0 DEF ToSet
    <3>2. \A i \in 1 .. Len(recent) : recent[i] \in Pull /\ pulls[recent[i]] # "none"
      BY <1>3, <2>0 DEF GithubInv, PullsAreSent
    <3> QED BY <1>3, <3>1, <3>2 DEF RecentIsWhole
  <2>2. \A r \in Run : runs[r].conclusion \in Conclusion \cup {"none"}
    BY <2>0 DEF RunStates
  <2> QED BY <1>3, <2>0, <2>1, <2>2 DEF GithubTypeOK, RecentIsWhole
<1>4. GithubSpec => []RecentIsWhole
  BY <1>1, <1>2, GithubInvariant, PTL DEF GithubSpec
<1> QED BY <1>3, <1>4, GithubInvariant, PTL

\* The types of WeatherIntake that WeatherInv does not have: the selected location is the
\* newest of the recent ones, which are never more than the limit.
PlacesAreRecent ==
    /\ places \in Seq(Location)
    /\ Len(places) <= RecentLimit
    /\ selection # NoLocation => places # <<>> /\ Head(places) = selection

\* Selecting a location puts it in front and cuts the list.
LEMMA SelectIsRecent ==
    ASSUME PlacesAreRecent, NEW l \in Location, Select(l)
    PROVE  PlacesAreRecent'
<1> DEFINE rest == RemoveFirst(places, l)
           all == <<l>> \o rest
           n == IF Len(all) < RecentLimit THEN Len(all) ELSE RecentLimit
<1>1. rest \in Seq(Location)
  BY RemoveFirstKeeps DEF PlacesAreRecent
<1>2. selection' = l /\ places' = SubSeq(all, 1, n)
  BY DEF Select
<1> HIDE DEF rest
<1>3. all \in Seq(Location) /\ Len(all) = Len(rest) + 1 /\ all[1] = l /\ Len(rest) \in Nat
  BY <1>1
<1> HIDE DEF all
<1>4. n \in 1 .. Len(all) /\ n <= RecentLimit
  BY <1>3, WeatherAssumption
<1> HIDE DEF n
<1>5. places' \in Seq(Location) /\ Len(places') = n /\ places'[1] = l
  <2>1. \A i \in 1 .. n : all[i] \in Location
    BY <1>3, <1>4
  <2>2. SubSeq(all, 1, n) = [i \in 1 .. n |-> all[i]]
    BY <1>3, <1>4
  <2> QED BY <1>2, <1>3, <1>4, <2>1, <2>2
<1>6. places' # <<>> /\ Head(places') = l
  BY <1>4, <1>5
<1> QED BY <1>2, <1>4, <1>5, <1>6 DEF PlacesAreRecent

\* The selected location heads the list of recent ones, which keeps to its limit, whoever
\* selects (select_weather_location, bootstrap_configured_location).
THEOREM WeatherTypeCorrect == WeatherSpec => []WeatherTypeOK
<1>1. WeatherInit => PlacesAreRecent
  BY WeatherAssumption DEF WeatherInit, PlacesAreRecent
<1>2. ASSUME PlacesAreRecent, [WeatherNext]_weatherVars PROVE PlacesAreRecent'
  <2>1. CASE UserSelects
    BY <1>2, <2>1, SelectIsRecent DEF UserSelects
  <2>2. CASE BootstrapEnds
    <3>1. CASE Select(Configured)
      BY <1>2, <3>1, SelectIsRecent, WeatherAssumption
    <3>2. CASE UNCHANGED <<selection, places>>
      BY <1>2, <3>2 DEF PlacesAreRecent
    <3> QED BY <2>2, <3>1, <3>2 DEF BootstrapEnds
  <2>3. ASSUME UNCHANGED <<selection, places>> PROVE PlacesAreRecent'
    BY <1>2, <2>3 DEF PlacesAreRecent
  <2> QED BY <1>2, <2>1, <2>2, <2>3 DEF WeatherNext, ForecastChanges, BootstrapBegins,
             ReadLocation, FetchForecast, CompareReading, CheckSelection, CommitReading,
             PollIsLost, weatherVars
<1>3. WeatherInv /\ PlacesAreRecent => WeatherTypeOK
  BY DEF WeatherInv, WeatherTypes, PlacesAreRecent, WeatherTypeOK
<1>4. WeatherSpec => []PlacesAreRecent
  BY <1>1, <1>2, PTL DEF WeatherSpec
<1> QED BY <1>3, <1>4, WeatherInvariant, PTL

\* The playback last seen, the snapshots and the stored keys have their types.
THEOREM PlaybackTypeCorrect == PlaybackSpec => []PlaybackTypeOK
<1>1. PlaybackInv => PlaybackTypeOK
  BY DEF PlaybackInv
<1> QED BY <1>1, PlaybackInvariant, PTL

\* The types of GmailSync with their bounds, for pages of any length: a poll has no more
\* records than it has passed.
PageBounds ==
    /\ Len(hist) <= MaxHistory
    /\ floor \in 0 .. Len(hist)
    /\ mailFaults \in 0 .. MaxMailFaults
    /\ poll.pc = "page" => /\ poll.start + Len(poll.recs) <= poll.pos
                           /\ poll.pos <= Len(hist)
                           /\ Len(poll.recs) <= RecordLimit

GmailTypes == MailTypes /\ PageBounds

\* The next n records of the history, in the first k of which a poll is interested.
LEMMA PageIsRecords ==
    ASSUME hist \in Seq(Records), NEW a \in Nat, NEW n \in Nat, a + n <= Len(hist),
           NEW k \in 0 .. n
    PROVE  /\ SubSeq(SubSeq(hist, a + 1, a + n), 1, k) \in Seq(Records)
           /\ Len(SubSeq(SubSeq(hist, a + 1, a + n), 1, k)) = k
<1> DEFINE page == SubSeq(hist, a + 1, a + n)
<1>1. page \in Seq(Records) /\ Len(page) = n
  BY NextRecords, ZenonT(60)
<1> HIDE DEF page
<1>2. SubSeq(page, 1, k) \in Seq(Records) /\ Len(SubSeq(page, 1, k)) = k
  BY <1>1
<1> QED BY <1>2 DEF page

\* Where a poll is after a page of n records of which it takes k.
LEMMA PageNumbers ==
    ASSUME NEW s \in Nat, NEW p \in Nat, NEW n \in Nat, NEW k \in Nat, NEW r \in Nat,
           NEW l \in Nat, NEW h \in Nat, s + r <= p, p + n <= h, k <= n, l = r + k
    PROVE  s + l <= p + n /\ s + l <= h /\ p + n \in Nat /\ s + l \in Nat
OBVIOUS

\* A page, cut to what is left of the bound, keeps the poll within the history.
LEMMA PageKeepsTypes == ASSUME GmailTypes, ReadPage PROVE GmailTypes'
<1>1. UNCHANGED <<hist, box, floor, checkpoint, flags, received, removed, excused, mailFaults>>
  BY DEF ReadPage
<1>2. /\ hist \in Seq(Records) /\ Len(hist) \in Nat /\ RecordLimit \in Nat \ {0}
      /\ poll \in Polls /\ poll.start <= Len(hist) /\ poll.next <= Len(hist)
  BY GmailAssumption DEF GmailTypes, MailTypes
<1>3. /\ poll.start \in Nat /\ poll.pos \in Nat /\ poll.recs \in Seq(Records)
      /\ Len(poll.recs) \in Nat
  BY <1>2 DEF Polls
<1>4. /\ poll.start + Len(poll.recs) <= poll.pos /\ poll.pos <= Len(hist)
      /\ Len(poll.recs) <= RecordLimit
  BY DEF GmailTypes, PageBounds, ReadPage
<1>5. PICK n \in Nat : poll.pos + n <= Len(hist) /\ poll' = AfterPage(n)
  <2> DEFINE full == Min({RecordLimit, Len(hist) - poll.pos})
  <2>1. {RecordLimit, Len(hist) - poll.pos} \in SUBSET Nat
    BY <1>2, <1>3, <1>4
  <2>2. full \in Nat /\ full <= Len(hist) - poll.pos
    BY <2>1, MinIsLeast
  <2>3. PICK n \in (IF ShortPages /\ full > 0 THEN 1 .. full ELSE {full}) : poll' = AfterPage(n)
    BY DEF ReadPage
  <2> HIDE DEF full
  <2>4. n \in Nat /\ n <= full
    BY <2>2, <2>3
  <2> QED BY <1>2, <1>3, <1>4, <2>2, <2>3, <2>4
<1> DEFINE k == Min({n, RecordLimit - Len(poll.recs)})
           more == SubSeq(SubSeq(hist, poll.pos + 1, poll.pos + n), 1, k)
           recs == poll.recs \o more
           last == poll.pos + n = Len(hist)
<1>6. k \in 0 .. n /\ k <= RecordLimit - Len(poll.recs)
  <2>1. {n, RecordLimit - Len(poll.recs)} \in SUBSET Nat
    BY <1>2, <1>3, <1>4
  <2>2. k \in {n, RecordLimit - Len(poll.recs)} /\ \A y \in {n, RecordLimit - Len(poll.recs)} : k <= y
    BY <2>1, MinIsLeast
  <2> HIDE DEF k
  <2> QED BY <1>2, <1>3, <2>1, <2>2
<1> HIDE DEF k
<1>7. more \in Seq(Records) /\ Len(more) = k
  BY <1>2, <1>3, <1>5, <1>6, PageIsRecords
<1>8. poll' = [poll EXCEPT !.recs = recs, !.pos = poll.pos + n,
                           !.next = IF last THEN Len(hist) ELSE poll.start + Len(recs),
                           !.pc = IF last \/ Len(recs) >= RecordLimit THEN "fetch" ELSE "page"]
  BY <1>5 DEF AfterPage, k
<1> HIDE DEF more
<1>9. /\ recs \in Seq(Records) /\ Len(recs) = Len(poll.recs) + k /\ Len(recs) \in Nat
      /\ Len(recs) <= RecordLimit
  <2>1. recs \in Seq(Records) /\ Len(recs) = Len(poll.recs) + Len(more)
    BY <1>3, <1>7, ConcatProperties, Zenon
  <2>2. Len(recs) \in Nat
    BY <2>1, LenProperties
  <2> HIDE DEF recs
  <2>3. Len(recs) = Len(poll.recs) + k
    BY <1>7, <2>1
  <2>4. Len(poll.recs) + k <= RecordLimit
    BY <1>2, <1>3, <1>6
  <2> QED BY <2>1, <2>2, <2>3, <2>4
<1> HIDE DEF recs
<1>10. /\ poll.start + Len(recs) <= poll.pos + n /\ poll.pos + n \in Nat
       /\ poll.start + Len(recs) \in Nat /\ poll.start + Len(recs) <= Len(hist)
  <2>1. k \in Nat /\ k <= n
    BY <1>5, <1>6
  <2> DEFINE s == poll.start
             p == poll.pos
             r == Len(poll.recs)
             l == Len(recs)
             h == Len(hist)
  <2>2. /\ s \in Nat /\ p \in Nat /\ n \in Nat /\ k \in Nat /\ r \in Nat /\ l \in Nat /\ h \in Nat
        /\ s + r <= p /\ p + n <= h /\ k <= n /\ l = r + k
    BY <1>2, <1>3, <1>4, <1>5, <1>9, <2>1
  <2> HIDE DEF s, p, r, l, h
  <2>3. s + l <= p + n /\ s + l <= h /\ p + n \in Nat /\ s + l \in Nat
    BY <2>2, PageNumbers
  <2> QED BY <2>3 DEF s, p, l, h
<1>11. /\ poll' \in Polls /\ poll'.start = poll.start /\ poll'.next <= Len(hist)
       /\ poll'.recs = recs /\ poll'.pos = poll.pos + n
  <2> DEFINE next == IF last THEN Len(hist) ELSE poll.start + Len(recs)
             pc == IF last \/ Len(recs) >= RecordLimit THEN "fetch" ELSE "page"
             pos == poll.pos + n
  <2>1. next \in Nat /\ next <= Len(hist) /\ pc \in {"fetch", "page"} /\ pos \in Nat
    BY <1>2, <1>10
  <2>2. poll' = [poll EXCEPT !.recs = recs, !.pos = pos, !.next = next, !.pc = pc]
    BY <1>8
  <2> HIDE DEF next, pc, pos
  <2>3. /\ poll' \in Polls /\ poll'.start = poll.start /\ poll'.next = next
        /\ poll'.recs = recs /\ poll'.pos = pos
    BY <1>2, <1>9, <2>1, <2>2 DEF Polls
  <2> QED BY <2>1, <2>3 DEF pos
<1>12. MailTypes'
  BY <1>1, <1>2, <1>11 DEF GmailTypes, MailTypes
<1>13. PageBounds'
  BY <1>1, <1>5, <1>9, <1>10, <1>11 DEF GmailTypes, PageBounds
<1> QED BY <1>12, <1>13 DEF GmailTypes

\* A step that only moves the poll, outside the reading of pages.
LEMMA PollKeepsTypes ==
    ASSUME GmailTypes, UNCHANGED <<hist, box, floor, checkpoint, flags, received, removed, excused>>,
           mailFaults' \in 0 .. MaxMailFaults, poll' \in Polls, poll'.start <= Len(hist),
           poll'.next <= Len(hist), poll'.pc # "page"
    PROVE  GmailTypes'
BY DEF GmailTypes, MailTypes, PageBounds

\* What a poll that asks for the changes since its checkpoint goes on with has its types.
LEMMA FetchKeepsTypes ==
    ASSUME GmailTypes, FetchScan \/ FetchChanges
    PROVE  GmailTypes'
<1>1. /\ UNCHANGED <<hist, box, floor, checkpoint, flags, received, removed, excused, mailFaults>>
      /\ poll \in Polls /\ poll.start <= Len(hist) /\ poll.next <= Len(hist)
      /\ mailFaults \in 0 .. MaxMailFaults
  BY DEF GmailTypes, MailTypes, PageBounds, FetchScan, FetchChanges
<1>2. NoChange \in MailChanges /\ <<"removed", "none">> \in MailChanges
  BY DEF MailChanges, NoChange
<1>3. \A m \in Message : Exists(m) =>
         <<"initial", box[m]>> \in MailChanges /\ <<"added", box[m]>> \in MailChanges
           /\ <<"labels", box[m]>> \in MailChanges
  BY DEF Exists, MailChanges
<1>4. PICK change \in [Message -> MailChanges] :
         poll' = [poll EXCEPT !.pc = "hand", !.change = change]
  <2>1. CASE FetchScan
    <3> DEFINE change == [m \in Message |-> IF m \in poll.ids /\ Exists(m) THEN <<"initial", box[m]>>
                                            ELSE NoChange]
    <3>1. change \in [Message -> MailChanges]
      BY <1>2, <1>3
    <3>2. poll' = [poll EXCEPT !.pc = "hand", !.change = change]
      BY <2>1 DEF FetchScan
    <3> HIDE DEF change
    <3> QED BY <3>1, <3>2
  <2>2. CASE FetchChanges
    <3> DEFINE change == [m \in Message |->
                    CASE m \in Named("deleted") ->
                           IF m \in received THEN <<"removed", "none">> ELSE NoChange
                      [] m \notin Named("deleted") /\ m \in Named("added") /\ Exists(m) ->
                           <<"added", box[m]>>
                      [] m \notin Named("deleted") \cup Named("added")
                            /\ m \in Named("labels") /\ Exists(m) -> <<"labels", box[m]>>
                      [] OTHER -> NoChange]
    <3>1. \A m \in Message : change[m] \in MailChanges
      BY <1>2, <1>3
    <3>2. poll' = [poll EXCEPT !.pc = "hand", !.change = change]
      BY <2>2 DEF FetchChanges
    <3>3. change \in [Message -> MailChanges]
      BY <3>1
    <3> HIDE DEF change
    <3> QED BY <3>2, <3>3
  <2> QED BY <2>1, <2>2
<1>5. poll' \in Polls /\ poll'.start = poll.start /\ poll'.next = poll.next /\ poll'.pc = "hand"
  BY <1>1, <1>4 DEF Polls
<1> QED BY <1>1, <1>5, PollKeepsTypes

\* So does a scan of the mailbox.
LEMMA ScanKeepsTypes ==
    ASSUME GmailTypes,
           PollBegins \/ CheckpointRejected \/ ReadBaseline \/ ListMessages \/ PollFails
    PROVE  GmailTypes'
<1>1. UNCHANGED <<hist, box, floor, checkpoint, flags, received, removed, excused>>
  BY DEF PollBegins, CheckpointRejected, ReadBaseline, ListMessages, PollFails
<1>2. /\ hist \in Seq(Records) /\ Len(hist) \in Nat
      /\ checkpoint \in 0 .. Len(hist) \/ checkpoint = NoCheckpoint
      /\ poll \in Polls /\ poll.start <= Len(hist) /\ poll.next <= Len(hist)
  BY DEF GmailTypes, MailTypes
<1>3. mailFaults' \in 0 .. MaxMailFaults
  <2>1. mailFaults \in 0 .. MaxMailFaults /\ MaxMailFaults \in Nat
    BY GmailAssumption DEF GmailTypes, PageBounds
  <2>2. mailFaults' = mailFaults \/ (mailFaults < MaxMailFaults /\ mailFaults' = mailFaults + 1)
    BY DEF PollBegins, CheckpointRejected, ReadBaseline, ListMessages, PollFails
  <2> QED BY <2>1, <2>2
<1>4. CASE PollBegins /\ checkpoint # NoCheckpoint
  <2>1. poll' = [NoPoll EXCEPT !.pc = "page", !.start = checkpoint, !.pos = checkpoint]
    BY <1>4 DEF PollBegins
  <2>2. checkpoint \in Nat /\ checkpoint <= Len(hist)
    BY <1>2, <1>4
  <2>3. /\ poll' \in Polls /\ poll'.start = checkpoint /\ poll'.pos = checkpoint
        /\ poll'.next = 0 /\ poll'.recs = <<>>
    BY <2>1, <2>2, NoPollIsFine DEF Polls
  <2>4. MailTypes'
    BY <1>1, <1>2, <2>2, <2>3 DEF GmailTypes, MailTypes
  <2>5. Len(poll'.recs) = 0 /\ RecordLimit \in Nat
    BY <2>3, GmailAssumption
  <2>6. PageBounds'
    BY <1>1, <1>3, <2>2, <2>3, <2>5 DEF GmailTypes, PageBounds
  <2> QED BY <2>4, <2>6 DEF GmailTypes
<1>5. CASE CheckpointRejected \/ (PollBegins /\ checkpoint = NoCheckpoint)
  <2>1. poll' = [NoPoll EXCEPT !.pc = "scan"]
    BY <1>5 DEF PollBegins, CheckpointRejected
  <2>2. poll' \in Polls /\ poll'.pc = "scan" /\ poll'.start = 0 /\ poll'.next = 0
    BY <2>1, NoPollIsFine DEF Polls
  <2> QED BY <1>1, <1>2, <1>3, <2>2, PollKeepsTypes
<1>6. CASE ReadBaseline
  <2>1. poll' = [poll EXCEPT !.pc = "list", !.next = Len(hist), !.full = TRUE]
    BY <1>6 DEF ReadBaseline
  <2>2. poll' \in Polls /\ poll'.pc = "list" /\ poll'.start = poll.start /\ poll'.next = Len(hist)
    BY <1>2, <2>1 DEF Polls
  <2> QED BY <1>1, <1>2, <1>3, <2>2, PollKeepsTypes
<1>7. CASE ListMessages
  <2>1. PICK ids \in SUBSET Message : poll' = [poll EXCEPT !.pc = "fetchAll", !.ids = ids]
    BY <1>7 DEF ListMessages
  <2>2. /\ poll' \in Polls /\ poll'.pc = "fetchAll" /\ poll'.start = poll.start
        /\ poll'.next = poll.next
    BY <1>2, <2>1 DEF Polls
  <2> QED BY <1>1, <1>2, <1>3, <2>2, PollKeepsTypes
<1>8. CASE PollFails
  <2>1. poll' = NoPoll
    BY <1>8 DEF PollFails
  <2> QED BY <1>1, <1>2, <1>3, <2>1, NoPollIsFine, PollKeepsTypes
<1> QED BY <1>4, <1>5, <1>6, <1>7, <1>8

\* Storing what a poll found keeps the types and moves the checkpoint to a position.
LEMMA IngestKeepsTypes == ASSUME GmailTypes, IngestMail PROVE GmailTypes'
<1>1. /\ UNCHANGED <<hist, box, floor, mailFaults>> /\ checkpoint' = poll.next /\ poll' = NoPoll
      /\ received' = received \cup Changed("initial") \cup Changed("added")
      /\ removed' = removed \cup Changed("removed")
      /\ excused' \subseteq excused \cup {hist[i].msg : i \in 1 .. poll.next}
  BY DEF IngestMail
<1>2. PICK kept \in SUBSET Message :
        flags' = [m \in Message |-> IF m \in kept THEN NewFlags[m] ELSE "none"]
  BY DEF IngestMail
<1>3. /\ hist \in Seq(Records) /\ Len(hist) \in Nat
      /\ flags \in [Message -> Flags \cup {"none"}]
      /\ received \subseteq Message /\ removed \subseteq Message /\ excused \subseteq Message
      /\ poll \in Polls /\ poll.next <= Len(hist) /\ poll.next \in Nat
      /\ poll.change \in [Message -> MailChanges]
  BY DEF GmailTypes, MailTypes, Polls
<1>4. \A w : Changed(w) \subseteq Message
  BY DEF Changed
<1>5. \A m \in Message : poll.change[m][2] \in Flags \cup {"none"}
  <2>1. \A m \in Message : poll.change[m] \in MailChanges
    BY <1>3
  <2> QED BY <2>1 DEF MailChanges
<1>6. \A m \in Message : NewFlags[m] \in Flags \cup {"none"}
  BY <1>3, <1>5 DEF NewFlags
<1>7. flags' \in [Message -> Flags \cup {"none"}]
  BY <1>2, <1>6
<1>8. \A i \in 1 .. poll.next : hist[i].msg \in Message
  <2>1. \A i \in 1 .. poll.next : hist[i] \in Records
    BY <1>3
  <2> QED BY <2>1 DEF Records
<1>9. excused' \subseteq Message
  BY <1>1, <1>3, <1>8
<1>10. MailTypes'
  BY <1>1, <1>3, <1>4, <1>7, <1>9, NoPollIsFine DEF GmailTypes, MailTypes
<1>11. PageBounds'
  BY <1>1, NoPollIsFine DEF GmailTypes, PageBounds
<1> QED BY <1>10, <1>11 DEF GmailTypes

\* The mailbox changes within the bound of the history.
LEMMA MailboxKeepsTypes == ASSUME GmailTypes, MailboxChanges PROVE GmailTypes'
<1>1. UNCHANGED <<floor, checkpoint, flags, received, removed, poll, excused, mailFaults>>
  BY DEF MailboxChanges
<1>2. PICK m \in Message, w \in {"added", "labels", "deleted"}, f \in Flags \cup {"deleted"} :
         hist' = Append(hist, [what |-> w, msg |-> m]) /\ box' = [box EXCEPT ![m] = f]
  BY DEF MailboxChanges, Flags
<1>3. hist \in Seq(Records) /\ [what |-> w, msg |-> m] \in Records /\ Len(hist) \in Nat
  BY DEF GmailTypes, MailTypes, Records
<1>4. hist' \in Seq(Records) /\ Len(hist') = Len(hist) + 1
  BY <1>2, <1>3
<1>5. Len(hist') <= MaxHistory
  BY <1>3, <1>4, GmailAssumption DEF MailboxChanges
<1>6. poll \in Polls /\ poll.start \in Nat /\ poll.next \in Nat /\ poll.pos \in Nat
  BY DEF GmailTypes, MailTypes, Polls
<1>7. MailTypes'
  BY <1>1, <1>2, <1>3, <1>4, <1>6 DEF GmailTypes, MailTypes
<1>8. PageBounds'
  BY <1>1, <1>3, <1>4, <1>5, <1>6 DEF GmailTypes, PageBounds
<1> QED BY <1>7, <1>8 DEF GmailTypes

\* The mailbox, the checkpoints and the poll have their types, and the checkpoint is a
\* position of the history, although Gmail ends its pages where it likes.
THEOREM GmailTypeCorrect == GmailSpec => []GmailTypeOK
<1>1. GmailInit => GmailTypes
  <2> SUFFICES ASSUME GmailInit PROVE GmailTypes
    OBVIOUS
  <2>1. MailTypes
    BY MailBegins DEF MailInv
  <2>2. PageBounds
    BY NoPollIsFine, GmailAssumption DEF GmailInit, PageBounds
  <2> QED BY <2>1, <2>2 DEF GmailTypes
<1>2. ASSUME GmailTypes, [GmailNext]_mailVars PROVE GmailTypes'
  <2>1. CASE UNCHANGED mailVars
    BY <1>2, <2>1 DEF mailVars, GmailTypes, MailTypes, PageBounds
  <2>2. CASE HistoryExpires
    <3>1. UNCHANGED <<hist, box, checkpoint, flags, received, removed, poll, excused>>
      BY <2>2 DEF HistoryExpires
    <3>2. floor' = Len(hist) /\ Len(hist) \in Nat /\ mailFaults' \in 0 .. MaxMailFaults
      BY <1>2, <2>2, GmailAssumption DEF HistoryExpires, GmailTypes, MailTypes, PageBounds
    <3> QED BY <1>2, <3>1, <3>2 DEF GmailTypes, MailTypes, PageBounds
  <2>3. CASE ForgetCheckpoints
    <3>1. /\ UNCHANGED <<hist, box, floor, received, removed, poll, excused>>
          /\ checkpoint' = NoCheckpoint /\ flags' = [m \in Message |-> "none"]
      BY <2>3 DEF ForgetCheckpoints
    <3>2. mailFaults' \in 0 .. MaxMailFaults
      BY <1>2, <2>3, GmailAssumption DEF ForgetCheckpoints, GmailTypes, PageBounds
    <3> QED BY <1>2, <3>1, <3>2 DEF GmailTypes, MailTypes, PageBounds
  <2> QED BY <1>2, <2>1, <2>2, <2>3, PageKeepsTypes, FetchKeepsTypes, ScanKeepsTypes,
             IngestKeepsTypes, MailboxKeepsTypes DEF GmailNext, SyncStep
<1>3. ASSUME GmailTypes PROVE GmailTypeOK
  <2>1. hist \in Seq(Records) /\ Len(hist) \in Nat /\ Len(hist) <= MaxHistory /\ MaxHistory \in Nat
    BY <1>3, GmailAssumption DEF GmailTypes, MailTypes, PageBounds
  <2>2. \A i \in 1 .. Len(hist) : hist[i] \in Records
    BY <2>1
  <2>3. poll.pc \in {"idle", "page", "scan", "list", "fetch", "fetchAll", "hand"}
    BY <1>3 DEF GmailTypes, MailTypes, Polls
  <2>4. floor \in HistoryIds /\ checkpoint \in HistoryIds \cup {NoCheckpoint}
    BY <1>3, <2>1 DEF GmailTypes, MailTypes, PageBounds, HistoryIds
  <2> QED BY <1>3, <2>1, <2>2, <2>3, <2>4
          DEF GmailTypes, MailTypes, PageBounds, Records, GmailTypeOK
<1> QED BY <1>1, <1>2, <1>3, PTL DEF GmailSpec
=============================================================================
