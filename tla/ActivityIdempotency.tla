------------------------ MODULE ActivityIdempotency ------------------------
(***************************************************************************)
(* The activity interceptor of the orchestrator worker over its Postgres   *)
(* claim store, for one idempotency key.  An attempt is one Temporal task  *)
(* token; its token is the owner id of its claim, and the result of its    *)
(* work is named by the attempt itself.                                    *)
(***************************************************************************)
EXTENDS Naturals

CONSTANTS
    ActivityAttempts,   \* activity attempts that use the key
    Inputs,             \* canonical input hashes
    InputOf,            \* InputOf[a]: the input of attempt a
    None,               \* SQL null
    Ended,              \* the token of an attempt that has ended
    LeaseLen,           \* leaseMs, in ticks of the clock
    MaxActivityFaults   \* bound on crashes, stalls and errors

ASSUME ActivityAssumption ==
    /\ None \notin ActivityAttempts /\ Ended \notin ActivityAttempts
    /\ None \notin Inputs
    /\ InputOf \in [ActivityAttempts -> Inputs]
    /\ LeaseLen \in Nat \ {0}
    /\ MaxActivityFaults \in Nat

VARIABLES
    status,         \* activity_idempotency.status, "none" when there is no row
    input,          \* inputHash
    owner,          \* ownerId
    leaseLeft,      \* leaseExpiresAt, as the ticks until then
    result,         \* resultJson
    claimant,       \* the attempt that was last told "acquired"
    attemptPc,      \* where each attempt is
    lost,           \* lost[a]: renewalFailure of attempt a is set
    attemptAnswer,  \* what each attempt has answered to the workflow
    activityFaults  \* faults so far

record == <<status, input, owner, leaseLeft, result>>

activityVars == <<status, input, owner, leaseLeft, result, claimant, attemptPc, lost,
                  attemptAnswer, activityFaults>>

ActivityFault == activityFaults < MaxActivityFaults /\ activityFaults' = activityFaults + 1

Goto(a, step) == attemptPc' = [attemptPc EXCEPT ![a] = step]

Owns(a) == status = "running" /\ owner = a

(* The attempt still drives its claim: its timer renews, its next store call is due. *)
Busy(a) == attemptPc[a] \in {"execute", "settled", "release"}

(***************************************************************************)
(* claim: one transaction, the row locked by the insert or for update.     *)
(***************************************************************************)
Acquire(a) ==
    /\ status' = "running"
    /\ input' = InputOf[a]
    /\ owner' = a
    /\ leaseLeft' = LeaseLen
    /\ claimant' = a
    /\ Goto(a, "execute")
    /\ lost' = [lost EXCEPT ![a] = FALSE]
    /\ UNCHANGED <<result, attemptAnswer, activityFaults>>

ClaimInsert(a) ==
    /\ attemptPc[a] = "idle"
    /\ status = "none"
    /\ Acquire(a)

(* Mutant: an expired claim is never taken over. *)
ExpiredNever == FALSE

Expired == leaseLeft = 0

ClaimTakeover(a) ==
    /\ attemptPc[a] = "idle"
    /\ status = "running"
    /\ input = InputOf[a]
    /\ Expired
    /\ Acquire(a)

ClaimInProgress(a) ==
    /\ attemptPc[a] = "idle"
    /\ status = "running"
    /\ input = InputOf[a]
    /\ ~Expired
    /\ Goto(a, "thrown")
    /\ UNCHANGED <<record, claimant, lost, attemptAnswer, activityFaults>>

(* Mutant: a completed key answers whatever the input was. *)
ClaimReplayAny(a) ==
    /\ attemptPc[a] = "idle"
    /\ status = "completed"
    /\ attemptAnswer' = [attemptAnswer EXCEPT ![a] = result]
    /\ Goto(a, "answered")
    /\ UNCHANGED <<record, claimant, lost, activityFaults>>

ClaimReplay(a) ==
    /\ attemptPc[a] = "idle"
    /\ status = "completed"
    /\ input = InputOf[a]
    /\ attemptAnswer' = [attemptAnswer EXCEPT ![a] = result]
    /\ Goto(a, "answered")
    /\ UNCHANGED <<record, claimant, lost, activityFaults>>

ClaimConflict(a) ==
    /\ attemptPc[a] = "idle"
    /\ status # "none"
    /\ input # InputOf[a]
    /\ Goto(a, "rejected")
    /\ UNCHANGED <<record, claimant, lost, attemptAnswer, activityFaults>>

(***************************************************************************)
(* The renewal timer, from the claim to the end of the work.               *)
(***************************************************************************)
Renew(a) ==
    /\ attemptPc[a] = "execute"
    /\ IF Owns(a) /\ ~Expired
       THEN leaseLeft' = LeaseLen /\ UNCHANGED lost
       ELSE lost' = [lost EXCEPT ![a] = TRUE] /\ UNCHANGED leaseLeft
    /\ UNCHANGED <<status, input, owner, result, claimant, attemptPc, attemptAnswer, activityFaults>>

RenewFails(a) ==
    /\ attemptPc[a] = "execute"
    /\ ActivityFault
    /\ lost' = [lost EXCEPT ![a] = TRUE]
    /\ UNCHANGED <<record, claimant, attemptPc, attemptAnswer>>

(***************************************************************************)
(* The work, then complete or release.                                     *)
(***************************************************************************)
Finish(a) ==
    /\ attemptPc[a] = "execute"
    /\ Goto(a, "settled")
    /\ UNCHANGED <<record, claimant, lost, attemptAnswer, activityFaults>>

WorkFails(a) ==
    /\ attemptPc[a] = "execute"
    /\ ActivityFault
    /\ Goto(a, "release")
    /\ UNCHANGED <<record, claimant, lost, attemptAnswer>>

(* Mutant: complete without the owner fence. *)
CompletesUnfenced(a) == status = "running" /\ ~Expired

Completes(a) == Owns(a) /\ ~Expired

SetCompleted(a) ==
    /\ status' = "completed"
    /\ owner' = None
    /\ leaseLeft' = 0
    /\ result' = a
    /\ UNCHANGED input

Complete(a) ==
    /\ attemptPc[a] = "settled"
    /\ ~lost[a]
    /\ Completes(a)
    /\ SetCompleted(a)
    /\ attemptAnswer' = [attemptAnswer EXCEPT ![a] = a]
    /\ Goto(a, "answered")
    /\ UNCHANGED <<claimant, lost, activityFaults>>

LeaseLost(a) ==
    /\ attemptPc[a] = "settled"
    /\ lost[a] \/ ~Completes(a)
    /\ Goto(a, "release")
    /\ UNCHANGED <<record, claimant, lost, attemptAnswer, activityFaults>>

(* complete throws, before or after its update took effect. *)
CompleteFails(a) ==
    /\ attemptPc[a] = "settled"
    /\ ~lost[a]
    /\ ActivityFault
    /\ \/ Completes(a) /\ SetCompleted(a)
       \/ UNCHANGED record
    /\ Goto(a, "release")
    /\ UNCHANGED <<claimant, lost, attemptAnswer>>

Release(a) ==
    /\ attemptPc[a] = "release"
    /\ IF Owns(a)
       THEN /\ status' = "none"
            /\ input' = None
            /\ owner' = None
            /\ leaseLeft' = 0
            /\ UNCHANGED result
       ELSE UNCHANGED record
    /\ Goto(a, "thrown")
    /\ UNCHANGED <<claimant, lost, attemptAnswer, activityFaults>>

ReleaseFails(a) ==
    /\ attemptPc[a] = "release"
    /\ ActivityFault
    /\ Goto(a, "thrown")
    /\ UNCHANGED <<record, claimant, lost, attemptAnswer>>

(***************************************************************************)
(* The environment: a worker dies, Temporal retries a failed attempt with  *)
(* a new token, which no row holds, and time passes.  A lease whose owner  *)
(* is alive runs out only when the owner stalls.                           *)
(***************************************************************************)
WorkerCrash(a) ==
    /\ Busy(a)
    /\ ActivityFault
    /\ Goto(a, "thrown")
    /\ UNCHANGED <<record, claimant, lost, attemptAnswer>>

Retry(a) ==
    /\ attemptPc[a] = "thrown"
    /\ Goto(a, "idle")
    /\ owner' = IF Owns(a) THEN Ended ELSE owner
    /\ UNCHANGED <<status, input, leaseLeft, result, claimant, lost, attemptAnswer, activityFaults>>

Tick ==
    /\ status = "running"
    /\ leaseLeft > 0
    /\ leaseLeft' = leaseLeft - 1
    /\ IF leaseLeft = 1 /\ \E a \in ActivityAttempts : Owns(a) /\ Busy(a)
       THEN ActivityFault
       ELSE UNCHANGED activityFaults
    /\ UNCHANGED <<status, input, owner, result, claimant, attemptPc, lost, attemptAnswer>>

Step(a) ==
    \/ ClaimInsert(a) \/ ClaimTakeover(a) \/ ClaimInProgress(a) \/ ClaimReplay(a)
    \/ ClaimConflict(a) \/ Renew(a) \/ Finish(a) \/ Complete(a) \/ LeaseLost(a)
    \/ Release(a)

Failure(a) ==
    \/ RenewFails(a) \/ WorkFails(a) \/ CompleteFails(a) \/ ReleaseFails(a) \/ WorkerCrash(a)

ActivityInit ==
    /\ status = "none"
    /\ input = None
    /\ owner = None
    /\ leaseLeft = 0
    /\ result = None
    /\ claimant = None
    /\ attemptPc = [a \in ActivityAttempts |-> "idle"]
    /\ lost = [a \in ActivityAttempts |-> FALSE]
    /\ attemptAnswer = [a \in ActivityAttempts |-> None]
    /\ activityFaults = 0

ActivityNext ==
    \/ \E a \in ActivityAttempts : Step(a) \/ Failure(a) \/ Retry(a)
    \/ Tick

ActivitySpec == ActivityInit /\ [][ActivityNext]_activityVars

(* A worker runs its attempts, Temporal retries the ones that threw, the   *)
(* clock advances, and work that is not made to fail ends.                 *)
ActivityFairness ==
    /\ \A a \in ActivityAttempts :
          /\ WF_activityVars(ClaimInsert(a) \/ ClaimTakeover(a) \/ ClaimReplay(a) \/ ClaimConflict(a))
          /\ WF_activityVars(Finish(a))
          /\ WF_activityVars(Complete(a) \/ LeaseLost(a) \/ Release(a))
          /\ WF_activityVars(ClaimInProgress(a) \/ Retry(a))
    /\ WF_activityVars(Tick)

ActivityFairSpec == ActivitySpec /\ ActivityFairness

----------------------------------------------------------------------------
Steps == {"idle", "execute", "settled", "release", "thrown", "answered", "rejected"}

(* The row and the attempts have their types, and a row's columns are set  *)
(* and cleared together: no row has no input, only a running row an owner. *)
ActivityTypeOK ==
    /\ status \in {"none", "running", "completed"}
    /\ input \in IF status = "none" THEN {None} ELSE Inputs
    /\ owner \in IF status = "running" THEN ActivityAttempts \cup {Ended} ELSE {None}
    /\ leaseLeft \in 0..LeaseLen
    /\ result \in IF status = "completed" THEN ActivityAttempts ELSE {None}
    /\ claimant \in ActivityAttempts \cup {None}
    /\ attemptPc \in [ActivityAttempts -> Steps]
    /\ lost \in [ActivityAttempts -> BOOLEAN]
    /\ attemptAnswer \in [ActivityAttempts -> ActivityAttempts \cup {None}]
    /\ activityFaults \in 0..MaxActivityFaults

(* All attempts that answer answer the one stored result, and only to the  *)
(* input that produced it, however claims, expiries and errors interleave. *)
AnswersAgree ==
    \A a \in ActivityAttempts : attemptAnswer[a] # None =>
        status = "completed" /\ attemptAnswer[a] = result /\ input = InputOf[a]

(* The stored result is the work of the attempt that acquired last: one    *)
(* whose lease was taken over cannot complete over its successor.          *)
ResultOfLastClaim == status = "completed" => result = claimant

(* While nothing has stalled or failed, no two attempts do the work of the *)
(* key at the same time.                                                   *)
WorkNotOverlapped ==
    activityFaults = 0 =>
        \A a, b \in ActivityAttempts : attemptPc[a] = "execute" /\ attemptPc[b] = "execute" => a = b

(* A completed row never changes again: release deletes running rows only. *)
CompletedStands == [][status = "completed" => UNCHANGED record]_activityVars

(* With finitely many faults the key completes: a claim whose owner died   *)
(* expires and is taken over by a retry.                                   *)
EventuallyCompleted == <>(status = "completed")
=============================================================================
