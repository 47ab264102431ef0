----------------------------- MODULE GithubIntake -----------------------------
(***************************************************************************)
(* The two ways in which GitHub activity becomes events: webhook deliveries *)
(* (github/webhook.py, normalize_webhook of github/events.py), which may be *)
(* lost, late, out of order or repeated, and the reconciliation that lists  *)
(* pull requests, workflow runs and deployments (github/reconcile.py).      *)
(* Both give a change the same dedupe key and the same checkpoint key, and  *)
(* store event and checkpoint together (github/storage.py).                 *)
(*                                                                          *)
(* GitHub is external.  Requests that fail verification or concern another  *)
(* repository change nothing and are left out, and so are pull requests     *)
(* that are closed without a merge and other transitions without an event.  *)
(***************************************************************************)
EXTENDS Naturals, Sequences, SequencesExt, FiniteSets

CONSTANTS Pull, Run, Deployment,
          Conclusion,       \* the conclusions of a run (success, failure, skipped, ...)
          DeployState,      \* the states of a deployment (in_progress, success, ...)
          PullPage,         \* pull requests of one listing (10)
          MaxGithubChanges, \* bound: transitions of the resources
          MaxGithubFaults   \* bound: reconciliations that fail

ASSUME GithubAssumption ==
    /\ PullPage \in Nat
    /\ MaxGithubChanges \in Nat
    /\ MaxGithubFaults \in Nat

Unreported == {"skipped", "in_progress"}

VARIABLES pulls,       \* pull requests: none, open or merged
          recent,      \* the open and merged ones, last updated first
          runs,        \* workflow runs: attempt, status and conclusion
          deploys,     \* deployments: their statuses
          deliveries,  \* deliveries GitHub has sent: the changes each stands for
          claims,      \* the checkpoints delivery:<id>
          marks,       \* the other checkpoints of the provider
          facts,       \* the stored changes
          recon,       \* the reconciliation under way
          githubFaults

githubVars == <<pulls, recent, runs, deploys, deliveries, claims, marks, facts, recon, githubFaults>>
resourceVars == <<pulls, recent, runs, deploys, deliveries>>

NoRecon == [pc |-> "idle", found |-> {}]

GithubInit ==
    /\ pulls = [p \in Pull |-> "none"]
    /\ recent = <<>>
    /\ runs = [r \in Run |-> [attempt |-> 1, status |-> "queued", conclusion |-> "none"]]
    /\ deploys = [d \in Deployment |-> <<>>]
    /\ deliveries = <<>>
    /\ claims = {}
    /\ marks = {}
    /\ facts = {}
    /\ recon = NoRecon
    /\ githubFaults = 0

-----------------------------------------------------------------------------
(* The changes: dedupe key and checkpoint key.                              *)

Change(key, mark) == [key |-> key, mark |-> mark]

PullOpened(p) == Change(<<"pull", p, "opened">>, <<"pull", p, "opened">>)
PullMerged(p) == Change(<<"pull", p, "merged">>, <<"pull", p, "merged">>)
RunStarted(r, n) == Change(<<"run", r, n, "started">>, <<"run", r, n, "started">>)

\* The checkpoint of an outcome does not name the conclusion.
RunOutcome(r, n, c) == Change(<<"run", r, n, c>>, <<"run", r, n, "completed">>)
Outcomes(r, n, c) == IF c \in Unreported THEN {} ELSE {RunOutcome(r, n, c)}

\* The checkpoint of a deployment does not name the status it was in.
Deployed(d, state, n) == Change(<<"deployment", d, state, n>>, <<"deployment", d, state>>)

-----------------------------------------------------------------------------
(* GitHub: a transition, and its delivery.                                  *)

Deliver(changes) ==
    /\ Len(deliveries) < MaxGithubChanges
    /\ deliveries' = Append(deliveries, changes)
    /\ UNCHANGED <<claims, marks, facts, recon, githubFaults>>

\* normalize_webhook of pull_request
PullChanges ==
    /\ \E p \in Pull :
          \/ /\ pulls[p] = "none"
             /\ pulls' = [pulls EXCEPT ![p] = "open"]
             /\ recent' = <<p>> \o recent
             /\ Deliver({PullOpened(p)})
          \/ /\ pulls[p] = "open"
             /\ pulls' = [pulls EXCEPT ![p] = "merged"]
             /\ recent' = <<p>> \o RemoveFirst(recent, p)
             /\ Deliver({PullMerged(p)})
    /\ UNCHANGED <<runs, deploys>>

\* normalize_webhook of workflow_run: a completed run is also reported as started.  A run
\* is repeated as a new attempt; one that waited for an approval goes on in the same.
RunChanges ==
    /\ \E r \in Run :
          LET n == runs[r].attempt
          IN \/ /\ runs[r].status = "queued"
                /\ runs' = [runs EXCEPT ![r].status = "in_progress"]
                /\ Deliver({RunStarted(r, n)})
             \/ /\ runs[r].status = "in_progress"
                /\ \E c \in Conclusion :
                      /\ runs' = [runs EXCEPT ![r].status = "completed", ![r].conclusion = c]
                      /\ Deliver(IF c \in Unreported THEN {}
                                 ELSE {RunStarted(r, n)} \cup Outcomes(r, n, c))
             \/ /\ runs[r].status = "completed"
                /\ LET again == IF runs[r].conclusion = "action_required" THEN n ELSE n + 1
                   IN /\ runs' = [runs EXCEPT ![r] = [attempt |-> again, status |-> "in_progress",
                                                      conclusion |-> "none"]]
                      /\ Deliver({RunStarted(r, again)})
    /\ UNCHANGED <<pulls, recent, deploys>>

\* normalize_webhook of deployment_status
DeploymentChanges ==
    /\ \E d \in Deployment, state \in DeployState :
          /\ deploys' = [deploys EXCEPT ![d] = Append(@, state)]
          /\ Deliver(IF state \in Unreported THEN {}
                     ELSE {Deployed(d, state, Len(deploys[d]) + 1)})
    /\ UNCHANGED <<pulls, recent, runs>>

-----------------------------------------------------------------------------
(* persist_observations_in_session                                          *)

\* Mutant of Store: a checkpoint is written for the resource, not for the change.
StoreMutant(changes) ==
    /\ facts' = facts \cup changes
    /\ marks' = marks \cup {c.mark : c \in changes}
                      \cup {<<"pull", p, "merged">> :
                               p \in {q \in Pull : PullOpened(q) \in changes}}
\* Events with a dedupe key that is stored already are ignored; every change sets its
\* checkpoint.
Store(changes) ==
    /\ facts' = facts \cup changes
    /\ marks' = marks \cup {c.mark : c \in changes}

\* Mutant of ReceiveDelivery: the changes of a delivery are checked against the
\* checkpoints as those of a reconciliation are.
ReceiveDeliveryMutant(i) ==
    /\ i \notin claims
    /\ claims' = claims \cup {i}
    /\ Store({c \in deliveries[i] : c.mark \notin marks})
    /\ UNCHANGED <<recon, githubFaults>>
    /\ UNCHANGED resourceVars
\* persist_webhook_delivery: the claim and the changes in one transaction.  A delivery
\* that is claimed is a duplicate and changes nothing.
ReceiveDelivery(i) ==
    /\ i \notin claims
    /\ claims' = claims \cup {i}
    /\ Store(deliveries[i])
    /\ UNCHANGED <<recon, githubFaults>>
    /\ UNCHANGED resourceVars

-----------------------------------------------------------------------------
(* GithubReconciliationSource                                               *)

ListedPulls ==
    UNION {IF pulls[p] = "merged" THEN {PullOpened(p), PullMerged(p)} ELSE {PullOpened(p)} :
             p \in ToSet(SubSeq(recent, 1, IF Len(recent) < PullPage THEN Len(recent) ELSE PullPage))}

ListedRuns ==
    UNION {LET n == runs[r].attempt
           IN (IF runs[r].status \in {"in_progress", "completed"} THEN {RunStarted(r, n)} ELSE {})
                \cup (IF runs[r].status = "completed" THEN Outcomes(r, n, runs[r].conclusion)
                      ELSE {}) : r \in Run}

ListedDeployments ==
    {Deployed(d, Last(deploys[d]), Len(deploys[d])) :
        d \in {e \in Deployment : deploys[e] # <<>> /\ Last(deploys[e]) \notin Unreported}}

\* One step of _repository_changes after the other, each a request.
ReconSteps == [idle |-> "runs", runs |-> "deployments", deployments |-> "filter"]

ListResources ==
    /\ recon.pc \in DOMAIN ReconSteps
    /\ recon' = [pc |-> ReconSteps[recon.pc],
                 found |-> recon.found \cup (CASE recon.pc = "idle" -> ListedPulls
                                               [] recon.pc = "runs" -> ListedRuns
                                               [] OTHER -> ListedDeployments)]
    /\ UNCHANGED <<claims, marks, facts, githubFaults>>
    /\ UNCHANGED resourceVars

\* observe: changes with a checkpoint are left out.
FilterChanges ==
    /\ recon.pc = "filter"
    /\ recon' = [pc |-> "store", found |-> {c \in recon.found : c.mark \notin marks}]
    /\ UNCHANGED <<claims, marks, facts, githubFaults>>
    /\ UNCHANGED resourceVars

\* persist_observations
StoreChanges ==
    /\ recon.pc = "store"
    /\ Store(recon.found)
    /\ recon' = NoRecon
    /\ UNCHANGED <<claims, githubFaults>>
    /\ UNCHANGED resourceVars

\* A request fails, the poll times out, or the transaction is rolled back.
ReconciliationFails ==
    /\ recon.pc # "idle"
    /\ githubFaults < MaxGithubFaults
    /\ githubFaults' = githubFaults + 1
    /\ recon' = NoRecon
    /\ UNCHANGED <<claims, marks, facts>>
    /\ UNCHANGED resourceVars

Reconcile == ListResources \/ FilterChanges \/ StoreChanges

GithubNext ==
    \/ PullChanges \/ RunChanges \/ DeploymentChanges
    \/ \E i \in DOMAIN deliveries : ReceiveDelivery(i)
    \/ Reconcile \/ ReconciliationFails

GithubSpec == GithubInit /\ [][GithubNext]_githubVars

-----------------------------------------------------------------------------
GithubTypeOK ==
    /\ pulls \in [Pull -> {"none", "open", "merged"}]
    /\ ToSet(recent) = {p \in Pull : pulls[p] # "none"}
    /\ \A r \in Run : runs[r].conclusion \in Conclusion \cup {"none"}
    /\ claims \subseteq DOMAIN deliveries
    /\ recon.pc \in {"idle", "runs", "deployments", "filter", "store"}
    /\ githubFaults \in 0 .. MaxGithubFaults

\* A verified delivery is never suppressed by what the reconciliation found before:
\* each outcome that a delivery reports is stored, even when its checkpoint is set by an
\* earlier conclusion of the same attempt (persist_webhook_delivery).
DeliveriesAreStored == \A i \in claims : deliveries[i] \subseteq facts

\* Whatever deliveries are lost, and whatever reconciliations fail or overlap with
\* deliveries: in the end every change that GitHub lists is stored, or another one
\* with the same checkpoint is (GithubReconciliationSource.observe).
MissedDeliveriesAreFound ==
    <>[](\A c \in ListedPulls \cup ListedRuns \cup ListedDeployments :
            \E f \in facts : f.mark = c.mark)
=============================================================================
