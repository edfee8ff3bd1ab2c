-------------------------- MODULE ReleaseLifecycle --------------------------
(***************************************************************************)
(* The life of one release in the release service: its creation and tag,   *)
(* the readiness check, approval and deployment.  Every request reads the  *)
(* release, decides, and applies keyed compare-and-set transitions one     *)
(* transaction at a time; requests of any number of processes interleave,  *)
(* fail at every call and are repeated.                                    *)
(***************************************************************************)
EXTENDS Naturals

CONSTANTS
    Requests,   \* requests under way at one time
    Keys,       \* the operation keys of clients
    MaxFaults   \* bound on crashes and failing calls

ASSUME ReleaseAssumption == MaxFaults \in Nat

ReportStates == {"ready", "warnings", "blocked"}

\* The keys of transitions: a client's own, and those derivedOperationKey makes
\* from a client's key or from the release.
OperationKeys == ({"client", "healthy"} \X Keys) \cup ({"readiness"} \X (ReportStates \cup {"verifying"}))

NoKey == <<"none", "none">>

VARIABLES
    status,     \* releases.status, "none" before the release is created
    result,     \* result[k]: the status a completed operation has answered, or "none"
    tagged,     \* the tag of the release exists
    deployed,   \* the client keys whose deployment workflow was started
    job,        \* job[q]: what the request is for
    key,        \* key[q]: its operation key
    pc,         \* pc[q]: where it is
    seen,       \* seen[q]: the status of the release it works with
    report,     \* report[q]: the state of its readiness report
    opKey,      \* opKey[q]: the key of the transition under way
    from,       \* from[q]: the status the transition was checked against
    to,         \* to[q]: where the transition leads
    approved,   \* history: the release has been approved
    cleared,    \* history: a deployment request found the approved release not blocked
    faults

record == <<status, result, tagged, deployed>>
request == <<job, key, pc, seen, report, opKey, from, to>>
vars == <<record, request, approved, cleared, faults>>

\* The record as its abstract specification sees it.
AppliedKeys == {k \in OperationKeys : result[k] # "none"}

Record == INSTANCE ReleaseStatus WITH status <- status, applied <- AppliedKeys,
                                      OperationKeys <- OperationKeys

Fault == faults < MaxFaults /\ faults' = faults + 1

Goes(q, where) == pc' = [pc EXCEPT ![q] = where]

-----------------------------------------------------------------------------

\* A client sends a request; a request with the same key may be sent again.
Begin(q, what, k) ==
    /\ pc[q] = "idle"
    /\ job' = [job EXCEPT ![q] = what]
    /\ key' = [key EXCEPT ![q] = k]
    /\ Goes(q, IF what = "create" THEN "create" ELSE "get")
    /\ UNCHANGED <<record, seen, report, opKey, from, to, approved, cleared, faults>>

\* The request is over.
Forgotten(q) ==
    /\ Goes(q, "idle")
    /\ job' = [job EXCEPT ![q] = "none"]
    /\ key' = [key EXCEPT ![q] = "none"]
    /\ seen' = [seen EXCEPT ![q] = "none"]
    /\ report' = [report EXCEPT ![q] = "none"]
    /\ opKey' = [opKey EXCEPT ![q] = NoKey]
    /\ from' = [from EXCEPT ![q] = "none"]
    /\ to' = [to EXCEPT ![q] = "none"]

\* Mutant: the replay of a creation leaves the tag to the first request.
CreateOnce(q) ==
    /\ pc[q] = "create"
    /\ \/ status = "none" /\ status' = "candidate" /\ Goes(q, "tag") /\ UNCHANGED job
       \/ /\ status # "none"
          /\ Goes(q, "idle")
          /\ job' = [job EXCEPT ![q] = "none"]
          /\ UNCHANGED status
    /\ UNCHANGED <<result, tagged, deployed, key, seen, report, opKey, from, to,
                   approved, cleared, faults>>
\* createCandidate: the row is inserted, or the completed operation replayed.
Create(q) ==
    /\ pc[q] = "create"
    /\ status' = IF status = "none" THEN "candidate" ELSE status
    /\ Goes(q, "tag")
    /\ UNCHANGED <<result, tagged, deployed, job, key, seen, report, opKey, from, to,
                   approved, cleared, faults>>

Tag(q) ==
    /\ pc[q] = "tag"
    /\ tagged' = TRUE
    /\ Forgotten(q)
    /\ UNCHANGED <<status, result, deployed, approved, cleared, faults>>

-----------------------------------------------------------------------------
(* transitionStatusWithAudit: three calls of the store.                    *)

\* The request goes on to the transition to s under key k.
Asks(q, s, k) ==
    /\ Goes(q, "replay")
    /\ to' = [to EXCEPT ![q] = s]
    /\ opKey' = [opKey EXCEPT ![q] = k]
    /\ from' = [from EXCEPT ![q] = "none"]

\* What follows a transition that was applied, or replayed, with its release.
Answered(q) ==
    \/ /\ job[q] = "readiness" /\ to[q] = "verifying"
       /\ Asks(q, report[q], <<"readiness", report[q]>>)
       /\ UNCHANGED <<job, key, seen, report>>
    \/ /\ job[q] = "deploy" /\ to[q] = "deploying"
       /\ Goes(q, "start")
       /\ seen' = [seen EXCEPT ![q] = "deploying"]
       /\ UNCHANGED <<job, key, report, opKey, from, to>>
    \/ /\ ~(job[q] = "readiness" /\ to[q] = "verifying")
       /\ ~(job[q] = "deploy" /\ to[q] = "deploying")
       /\ Forgotten(q)

\* claimOperation and completedOperation: a completed key replays its result
\* for the same transition and refuses any other.
Replays(q) == result[opKey[q]] = to[q]
Refuses(q) == result[opKey[q]] \notin {"none", to[q]}

getTransitionReplay(q) ==
    /\ pc[q] = "replay"
    /\ \/ Replays(q) /\ Answered(q)
       \/ Refuses(q) /\ Forgotten(q)
       \/ /\ result[opKey[q]] = "none"
          /\ Goes(q, "current")
          /\ UNCHANGED <<job, key, seen, report, opKey, from, to>>
    /\ UNCHANGED <<record, approved, cleared, faults>>

Allowed(s, t) == s \in Record!Statuses /\ t \in Record!ALLOWED_TRANSITIONS[s]

ReadCurrent(q) ==
    /\ pc[q] = "current"
    /\ \/ /\ Allowed(status, to[q])
          /\ from' = [from EXCEPT ![q] = status]
          /\ Goes(q, "apply")
          /\ UNCHANGED <<job, key, seen, report, opKey, to>>
       \/ ~Allowed(status, to[q]) /\ Forgotten(q)
    /\ UNCHANGED <<record, approved, cleared, faults>>

\* Mutant: the row is updated whatever its status is now.
FreshBlind(q) == result[opKey[q]] = "none"
\* The status of the row is still the one the transition was checked against.
Fresh(q) == result[opKey[q]] = "none" /\ status = from[q]

\* store.transition: one transaction claims the key, compares the status with
\* the one checked, writes the new one and completes the key.
transition(q) ==
    /\ pc[q] = "apply"
    /\ \/ /\ Replays(q) /\ Answered(q)
          /\ UNCHANGED <<status, result, approved>>
       \/ /\ Fresh(q)
          /\ status' = to[q]
          /\ result' = [result EXCEPT ![opKey[q]] = to[q]]
          /\ approved' = (approved \/ to[q] = "approved")
          /\ Answered(q)
       \/ /\ ~Replays(q) /\ ~Fresh(q)
          /\ Forgotten(q)
          /\ UNCHANGED <<status, result, approved>>
    /\ UNCHANGED <<tagged, deployed, cleared, faults>>

-----------------------------------------------------------------------------
(* The routes.                                                             *)

\* getReadiness: only a release read as a candidate is moved by its report.
Readiness(q) ==
    /\ pc[q] = "get" /\ job[q] = "readiness"
    /\ \E s \in ReportStates :
          \/ /\ status = "candidate"
             /\ report' = [report EXCEPT ![q] = s]
             /\ seen' = [seen EXCEPT ![q] = status]
             /\ Asks(q, "verifying", <<"readiness", "verifying">>)
             /\ UNCHANGED <<job, key>>
          \/ status # "candidate" /\ Forgotten(q)
    /\ UNCHANGED <<record, approved, cleared, faults>>

Approve(q) ==
    /\ pc[q] = "get" /\ job[q] = "approve"
    /\ \/ /\ status # "none"
          /\ Asks(q, "approved", <<"client", key[q]>>)
          /\ UNCHANGED <<job, key, seen, report>>
       \/ status = "none" /\ Forgotten(q)
    /\ UNCHANGED <<record, approved, cleared, faults>>

\* Mutant: the status of the release is not asked for.
MayDeployAny(s) == TRUE
\* The statuses from which deploy goes on.
MayDeploy(s) == s \in {"approved", "deploying", "healthy"}

\* deploy: the readiness of an approved release is evaluated once more and the
\* release begins its deployment; otherwise the request resumes one.
Deploy(q) ==
    /\ pc[q] = "get" /\ job[q] = "deploy"
    /\ seen' = [seen EXCEPT ![q] = status]
    /\ \/ /\ MayDeploy(status) /\ status # "approved"
          /\ Goes(q, "start")
          /\ UNCHANGED <<job, key, report, opKey, from, to, cleared>>
       \/ /\ status = "approved"
          /\ \E s \in ReportStates \ {"blocked"} : report' = [report EXCEPT ![q] = s]
          /\ cleared' = TRUE
          /\ Asks(q, "deploying", <<"client", key[q]>>)
          /\ UNCHANGED <<job, key>>
    /\ UNCHANGED <<record, approved, faults>>

\* The release is not in a status to deploy, or no longer ready.
DeployRefused(q) ==
    /\ pc[q] = "get" /\ job[q] = "deploy"
    /\ ~MayDeploy(status) \/ status = "approved"
    /\ Forgotten(q)
    /\ UNCHANGED <<record, approved, cleared, faults>>

\* Mutant: only the request that began the deployment ends it.
EndsOwn(q) == seen[q] = "deploying" /\ to[q] = "deploying"
\* release.status is the one the request works with.
EndsDeployment(q) == seen[q] = "deploying"

\* deployments.deploy: the workflow of the key is started, or joined, and its
\* health, annotations and synthetic checks pass.
StartWorkflow(q) ==
    /\ pc[q] = "start"
    /\ deployed' = deployed \cup {key[q]}
    /\ \/ /\ EndsDeployment(q)
          /\ Asks(q, "healthy", <<"healthy", key[q]>>)
          /\ UNCHANGED <<job, key, seen, report>>
       \/ ~EndsDeployment(q) /\ Forgotten(q)
    /\ UNCHANGED <<status, result, tagged, approved, cleared, faults>>

\* The workflow is started, and the request fails before the release is healthy.
WorkflowFails(q) ==
    /\ pc[q] = "start"
    /\ Fault
    /\ deployed' = deployed \cup {key[q]}
    /\ Forgotten(q)
    /\ UNCHANGED <<status, result, tagged, approved, cleared>>

\* A call fails, or the process ends: the request is over where it stands.
Fails(q) ==
    /\ pc[q] # "idle"
    /\ Fault
    /\ Forgotten(q)
    /\ UNCHANGED <<record, approved, cleared>>

-----------------------------------------------------------------------------

Init ==
    /\ status = "none"
    /\ result = [k \in OperationKeys |-> "none"]
    /\ tagged = FALSE
    /\ deployed = {}
    /\ job = [q \in Requests |-> "none"]
    /\ key = [q \in Requests |-> "none"]
    /\ pc = [q \in Requests |-> "idle"]
    /\ seen = [q \in Requests |-> "none"]
    /\ report = [q \in Requests |-> "none"]
    /\ opKey = [q \in Requests |-> NoKey]
    /\ from = [q \in Requests |-> "none"]
    /\ to = [q \in Requests |-> "none"]
    /\ approved = FALSE
    /\ cleared = FALSE
    /\ faults = 0

Step(q) ==
    \/ Create(q) \/ Tag(q)
    \/ Readiness(q) \/ Approve(q) \/ Deploy(q) \/ DeployRefused(q) \/ StartWorkflow(q)
    \/ getTransitionReplay(q) \/ ReadCurrent(q) \/ transition(q)

Sends(q) ==
    \/ \E what \in {"create", "readiness"} : Begin(q, what, "none")
    \/ \E what \in {"approve", "deploy"}, k \in Keys : Begin(q, what, k)

Next == \E q \in Requests : Sends(q) \/ Step(q) \/ WorkflowFails(q) \/ Fails(q)

Spec == Init /\ [][Next]_vars

\* Requests under way go on; clients repeat the creation, the readiness check
\* and the deployment, so that a slot which becomes free again and again is
\* taken by each of them.
Fairness ==
    \A q \in Requests :
        /\ WF_vars(Step(q))
        /\ \A what \in {"create", "readiness"} : SF_vars(Begin(q, what, "none"))
        /\ SF_vars(\E k \in Keys : Begin(q, "deploy", k))

FairSpec == Spec /\ Fairness

-----------------------------------------------------------------------------

\* Every variable has its type.
ReleaseTypeOK ==
    /\ status \in Record!Statuses \cup {"none"}
    /\ result \in [OperationKeys -> Record!Statuses \cup {"none"}]
    /\ tagged \in BOOLEAN
    /\ deployed \in SUBSET Keys
    /\ job \in [Requests -> {"none", "create", "readiness", "approve", "deploy"}]
    /\ key \in [Requests -> Keys \cup {"none"}]
    /\ pc \in [Requests -> {"idle", "create", "tag", "get", "replay", "current", "apply", "start"}]
    /\ seen \in [Requests -> Record!Statuses \cup {"none"}]
    /\ report \in [Requests -> ReportStates \cup {"none"}]
    /\ opKey \in [Requests -> OperationKeys \cup {NoKey}]
    /\ from \in [Requests -> Record!Statuses \cup {"none"}]
    /\ to \in [Requests -> Record!Statuses \cup {"none"}]
    /\ approved \in BOOLEAN
    /\ cleared \in BOOLEAN
    /\ faults \in Nat

\* The requests, with the reads they decide on gone stale between their calls,
\* move the record only as its abstract specification allows: created once,
\* along the allowed transitions, once for each operation key.
RecordImplemented == Record!Spec

\* A deployment workflow runs only for a release that was approved, that a
\* deployment request found not blocked after its approval, and that has begun
\* its deployment; a release never leaves these statuses afterwards.
DeployedWasCleared ==
    deployed # {} => approved /\ cleared /\ status \in {"deploying", "healthy"}

\* A release that has begun its deployment becomes healthy when the client
\* repeats its request, whichever step of an earlier one failed.
DeploymentEnds == (status = "deploying") ~> (status = "healthy")

\* A created release is tagged when the creation is repeated.
CreatedIsTagged == (status # "none") ~> tagged

\* A release whose verification has begun gets its report's status.
VerificationEnds == (status = "verifying") ~> (status \in ReportStates)
=============================================================================
