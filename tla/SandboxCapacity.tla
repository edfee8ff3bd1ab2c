-------------------------- MODULE SandboxCapacity --------------------------
(***************************************************************************)
(* The sandbox_capacity_admissions table and the repository that owns it   *)
(* (services/sandbox-service/src/state/capacity.ts), with the admission    *)
(* path of the governor that calls it (lifecycle/governor.ts).             *)
(*                                                                         *)
(* A claim is one PostgreSQL transaction of several statements.  The       *)
(* transaction holds the advisory lock, but release, completeExpired and   *)
(* the other single-statement operations do not take that lock, so they    *)
(* run between its statements.  This module is the open repository: any    *)
(* caller may invoke any operation, with any token, at any time.           *)
(*                                                                         *)
(* Time is relative.  deadlineIn and leaseLeft hold the distance to        *)
(* deadline_at and lease_expires_at and Tick lowers them, so time is not   *)
(* bounded.  "column <= now" in the code is "distance = 0" here.           *)
(***************************************************************************)
EXTENDS Integers, FiniteSets

CONSTANTS
  Workspaces,         \* workspace ids, the primary key of the table
  NoWorkspace,        \* stands for no workspace
  Orgs, OrgOf,        \* organizations and the owner of each workspace
  RunOf,              \* the run each workspace was requested for
  Purposes, PurposeOf,\* what each workspace was requested for
  Interactive,        \* the purposes with the interactive budget
  InteractiveBudget,  \* INTERACTIVE_RUN_BUDGET_MS in clock units
  AutonomousBudget,   \* AUTONOMOUS_RUN_BUDGET_MS in clock units
  OpKeys, NoKey,      \* operation keys, and the NULL of that column
  Requests,           \* the <<workspace, operation key>> pairs of create calls
  Callers, NoCaller,  \* create handlers that may be inside admit
  Tokens, NoToken,    \* expiry lease tokens, and the NULL of that column
  GlobalLimit,        \* the deployment's cap on active sandboxes
  PlanLimits,         \* values concurrentSandboxes takes over the plans
  LeaseLen            \* leaseMs in clock units

ASSUME CapacityAssumption ==
  /\ IsFiniteSet(Workspaces)
  /\ OrgOf \in [Workspaces -> Orgs]
  /\ PurposeOf \in [Workspaces -> Purposes]
  /\ InteractiveBudget \in Nat \ {0} /\ AutonomousBudget \in Nat \ {0}
  /\ NoWorkspace \notin Workspaces
  /\ Requests \subseteq Workspaces \X OpKeys
  /\ NoKey \notin OpKeys /\ NoCaller \notin Callers /\ NoToken \notin Tokens
  /\ GlobalLimit \in Nat \ {0}
  /\ PlanLimits \subseteq Nat \ {0}
  /\ LeaseLen \in Nat \ {0}

VARIABLES
  plan,          \* organizations.plan, as the sandbox limit it grants
  lockHolder,    \* the caller whose transaction holds the advisory lock
  tx,            \* the admit call of each caller
  decision,      \* decision column, "none" where there is no row
  opKey,         \* operation_key column
  queuePosition, \* queue_position column, 0 for NULL
  active,        \* the workspaces whose row has active = true
  deadlineIn,    \* distance to deadline_at
  lease,         \* lease_token column
  leaseLeft      \* distance to lease_expires_at

admissionVars == <<plan, lockHolder, tx>>
rowVars == <<decision, opKey, queuePosition>>
leaseVars == <<lease, leaseLeft>>
capacityVars == <<admissionVars, rowVars, active, deadlineIn, leaseVars>>

Members(o) == {w \in Workspaces : OrgOf[w] = o}

BudgetForPurpose(p) == IF p \in Interactive THEN InteractiveBudget ELSE AutonomousBudget

(* What admit answers is the caller's; the call itself leaves nothing.     *)
NoCall ==
  [pc |-> "idle", ws |-> NoWorkspace, key |-> NoKey, limit |-> 0,
   budgetLeft |-> 0, seenGlobal |-> 0, seenOrg |-> 0]

InTransaction == {"locked", "counted", "decide"}

CapacityInit ==
  /\ plan \in [Orgs -> PlanLimits]
  /\ lockHolder = NoCaller
  /\ tx = [c \in Callers |-> NoCall]
  /\ decision = [w \in Workspaces |-> "none"]
  /\ opKey = [w \in Workspaces |-> NoKey]
  /\ queuePosition = [w \in Workspaces |-> 0]
  /\ active = {}
  /\ deadlineIn = [w \in Workspaces |-> 0]
  /\ lease = [w \in Workspaces |-> NoToken]
  /\ leaseLeft = [w \in Workspaces |-> 0]

-----------------------------------------------------------------------------
(* governor.admit and capacity.claim                                       *)

(* admit reads the plan's limit, then awaits the claim: the limit it will  *)
(* compare with is fixed here, and so is requestedAt.                      *)
AdmitReadLimits(c, w, k) ==
  /\ tx[c].pc = "idle"
  /\ <<w, k>> \in Requests
  /\ tx' = [tx EXCEPT ![c] =
       [pc |-> "limits", ws |-> w, key |-> k,
        limit |-> plan[OrgOf[w]], budgetLeft |-> BudgetForPurpose(PurposeOf[w]),
        seenGlobal |-> 0, seenOrg |-> 0]]
  /\ UNCHANGED <<plan, lockHolder, rowVars, active, deadlineIn, leaseVars>>

RowsWithKey(k) == {w \in Workspaces : decision[w] # "none" /\ opKey[w] = k}

(* Mutant: the advisory lock is left out.                                  *)
ClaimLockUnlocked(c) ==
  /\ tx[c].pc = "limits"
  /\ RowsWithKey(tx[c].key) = {}
  /\ lockHolder' = c
  /\ tx' = [tx EXCEPT ![c].pc = "locked"]
  /\ UNCHANGED <<plan, rowVars, active, deadlineIn, leaseVars>>

(* pg_advisory_xact_lock is granted and the key is unknown.  The lock of   *)
(* the organization is taken inside the global one and adds nothing to it. *)
ClaimLock(c) ==
  /\ tx[c].pc = "limits"
  /\ lockHolder = NoCaller
  /\ RowsWithKey(tx[c].key) = {}
  /\ lockHolder' = c
  /\ tx' = [tx EXCEPT ![c].pc = "locked"]
  /\ UNCHANGED <<plan, rowVars, active, deadlineIn, leaseVars>>

(* The key has a row: a replay or a queued answer, or an error when the    *)
(* identities differ; nothing is written.  Rows are only inserted under    *)
(* the lock, so taking it and giving it back is one step.                  *)
ClaimExisting(c) ==
  /\ tx[c].pc = "limits"
  /\ lockHolder = NoCaller
  /\ RowsWithKey(tx[c].key) # {}
  /\ tx' = [tx EXCEPT ![c] = NoCall]
  /\ UNCHANGED <<plan, lockHolder, rowVars, active, deadlineIn, leaseVars>>

ClaimCountGlobal(c) ==
  /\ tx[c].pc = "locked"
  /\ tx' = [tx EXCEPT ![c] =
              [@ EXCEPT !.pc = "counted", !.seenGlobal = Cardinality(active)]]
  /\ UNCHANGED <<plan, lockHolder, rowVars, active, deadlineIn, leaseVars>>

ClaimCountOrganization(c) ==
  /\ tx[c].pc = "counted"
  /\ tx' = [tx EXCEPT ![c] =
              [@ EXCEPT !.pc = "decide",
                        !.seenOrg = Cardinality(active \cap Members(OrgOf[tx[c].ws]))]]
  /\ UNCHANGED <<plan, lockHolder, rowVars, active, deadlineIn, leaseVars>>

LimitReached(call) == call.seenGlobal >= GlobalLimit \/ call.seenOrg >= call.limit

(* Commit, which also gives the advisory lock back.                        *)
EndClaim(c) ==
  /\ tx' = [tx EXCEPT ![c] = NoCall]
  /\ lockHolder' = NoCaller

ClaimInsertQueued(c) ==
  LET w == tx[c].ws IN
  /\ tx[c].pc = "decide"
  /\ LimitReached(tx[c])
  /\ decision[w] = "none"
  /\ decision' = [decision EXCEPT ![w] = "queued"]
  /\ opKey' = [opKey EXCEPT ![w] = tx[c].key]
  /\ queuePosition' = [queuePosition EXCEPT ![w] = tx[c].seenOrg + 1]
  /\ EndClaim(c)
  /\ UNCHANGED <<plan, active, deadlineIn, leaseVars>>

(* Mutant: the insert is an upsert on the workspace id.                    *)
ClaimUpsertAdmitted(c) ==
  LET w == tx[c].ws IN
  /\ tx[c].pc = "decide"
  /\ ~LimitReached(tx[c])
  /\ decision' = [decision EXCEPT ![w] = "admitted"]
  /\ opKey' = [opKey EXCEPT ![w] = tx[c].key]
  /\ deadlineIn' = [deadlineIn EXCEPT ![w] = tx[c].budgetLeft]
  /\ active' = active \cup {w}
  /\ EndClaim(c)
  /\ UNCHANGED <<plan, queuePosition, leaseVars>>

ClaimInsertAdmitted(c) ==
  LET w == tx[c].ws IN
  /\ tx[c].pc = "decide"
  /\ ~LimitReached(tx[c])
  /\ decision[w] = "none"
  /\ decision' = [decision EXCEPT ![w] = "admitted"]
  /\ opKey' = [opKey EXCEPT ![w] = tx[c].key]
  /\ deadlineIn' = [deadlineIn EXCEPT ![w] = tx[c].budgetLeft]
  /\ active' = active \cup {w}
  /\ EndClaim(c)
  /\ UNCHANGED <<plan, queuePosition, leaseVars>>

(* The workspace id already has a row under another key: the insert breaks *)
(* the primary key and the transaction rolls back.                         *)
ClaimInsertConflict(c) ==
  /\ tx[c].pc = "decide"
  /\ decision[tx[c].ws] # "none"
  /\ EndClaim(c)
  /\ UNCHANGED <<plan, rowVars, active, deadlineIn, leaseVars>>

(* A statement fails or the connection drops: PostgreSQL rolls back.       *)
ClaimAbort(c) ==
  /\ tx[c].pc \in InTransaction
  /\ EndClaim(c)
  /\ UNCHANGED <<plan, rowVars, active, deadlineIn, leaseVars>>

ClaimStep(c) ==
  \/ \E w \in Workspaces, k \in OpKeys : AdmitReadLimits(c, w, k)
  \/ ClaimLock(c)
  \/ ClaimExisting(c)
  \/ ClaimCountGlobal(c)
  \/ ClaimCountOrganization(c)
  \/ ClaimInsertQueued(c)
  \/ ClaimInsertAdmitted(c)
  \/ ClaimInsertConflict(c)
  \/ ClaimAbort(c)

-----------------------------------------------------------------------------
(* The single-statement operations of the repository                       *)

(* active = false, and the lease columns are cleared with it.              *)
Deactivate(w) ==
  /\ active' = active \ {w}
  /\ lease' = [lease EXCEPT ![w] = NoToken]
  /\ leaseLeft' = [leaseLeft EXCEPT ![w] = 0]

(* release asks for no token.  Without an active row it updates nothing.   *)
Release(w) ==
  /\ IF w \in active THEN Deactivate(w) ELSE UNCHANGED <<active, leaseVars>>
  /\ UNCHANGED <<admissionVars, rowVars, deadlineIn>>

(* Mutants: the running lease is not looked at, or only a row without any  *)
(* lease is taken.                                                         *)
ClaimableLeased(w) == w \in active /\ deadlineIn[w] = 0
ClaimableNeverLeased(w) == w \in active /\ deadlineIn[w] = 0 /\ lease[w] = NoToken

Claimable(w) == w \in active /\ deadlineIn[w] = 0 /\ leaseLeft[w] = 0

(* The row of w is leased with a token no row carries.                     *)
ClaimExpired(w, t) ==
  /\ Claimable(w)
  /\ \A v \in Workspaces : lease[v] # t
  /\ lease' = [lease EXCEPT ![w] = t]
  /\ leaseLeft' = [leaseLeft EXCEPT ![w] = LeaseLen]
  /\ UNCHANGED <<admissionVars, rowVars, active, deadlineIn>>

HoldsFence(w, t) == w \in active /\ lease[w] = t

(* renewExpired does not ask whether the lease has run out meanwhile.      *)
RenewExpired(w, t) ==
  /\ HoldsFence(w, t)
  /\ leaseLeft' = [leaseLeft EXCEPT ![w] = LeaseLen]
  /\ UNCHANGED <<admissionVars, rowVars, active, deadlineIn, lease>>

CompleteExpired(w, t) ==
  /\ HoldsFence(w, t)
  /\ Deactivate(w)
  /\ UNCHANGED <<admissionVars, rowVars, deadlineIn>>

ReleaseExpired(w, t) ==
  /\ HoldsFence(w, t)
  /\ lease' = [lease EXCEPT ![w] = NoToken]
  /\ leaseLeft' = [leaseLeft EXCEPT ![w] = 0]
  /\ UNCHANGED <<admissionVars, rowVars, active, deadlineIn>>

LeaseStep(w, t) ==
  \/ ClaimExpired(w, t)
  \/ RenewExpired(w, t)
  \/ CompleteExpired(w, t)
  \/ ReleaseExpired(w, t)

-----------------------------------------------------------------------------
(* The environment                                                         *)

(* Billing changes organizations.plan while admits are in flight.          *)
ChangePlan(o, limit) ==
  /\ plan' = [plan EXCEPT ![o] = limit]
  /\ UNCHANGED <<lockHolder, tx, rowVars, active, deadlineIn, leaseVars>>

Down(n) == IF n = 0 THEN 0 ELSE n - 1

Tick ==
  /\ deadlineIn' = [w \in Workspaces |-> Down(deadlineIn[w])]
  /\ leaseLeft' = [w \in Workspaces |-> Down(leaseLeft[w])]
  /\ tx' = [c \in Callers |-> [tx[c] EXCEPT !.budgetLeft = Down(@)]]
  /\ UNCHANGED <<plan, lockHolder, rowVars, active, lease>>

CapacityNext ==
  \/ \E c \in Callers : ClaimStep(c)
  \/ \E w \in Workspaces : Release(w)
  \/ \E w \in Workspaces, t \in Tokens : LeaseStep(w, t)
  \/ \E o \in Orgs, limit \in PlanLimits : ChangePlan(o, limit)
  \/ Tick

CapacitySpec == CapacityInit /\ [][CapacityNext]_capacityVars

-----------------------------------------------------------------------------
(* Properties                                                              *)

Calls ==
  [pc : {"idle", "limits"} \cup InTransaction,
   ws : Workspaces \cup {NoWorkspace}, key : OpKeys \cup {NoKey}, limit : Nat,
   budgetLeft : Nat, seenGlobal : Nat, seenOrg : Nat]

(* Every column and every call stays in its domain.                        *)
CapacityTypeOK ==
  /\ plan \in [Orgs -> PlanLimits]
  /\ lockHolder \in Callers \cup {NoCaller}
  /\ tx \in [Callers -> Calls]
  /\ decision \in [Workspaces -> {"none", "admitted", "queued"}]
  /\ opKey \in [Workspaces -> OpKeys \cup {NoKey}]
  /\ queuePosition \in [Workspaces -> Nat]
  /\ active \subseteq Workspaces
  /\ deadlineIn \in [Workspaces -> Nat]
  /\ lease \in [Workspaces -> Tokens \cup {NoToken}]
  /\ leaseLeft \in [Workspaces -> Nat]

(* However claims, releases and plan changes interleave with the counts of *)
(* a claim, the active sandboxes never exceed the deployment's limit, nor  *)
(* those of one organization the largest limit a plan grants.              *)
CapacityLimits ==
  /\ Cardinality(active) <= GlobalLimit
  /\ \A o \in Orgs : \E limit \in PlanLimits :
       Cardinality(active \cap Members(o)) <= limit

(* The CHECK constraints of sandbox_capacity_admissions hold after every   *)
(* operation, so no operation of the repository is rejected by them: only  *)
(* an admitted row is active, a queued row has a position and never had a  *)
(* deadline, and only an active row is leased.                             *)
RowShape ==
  \A w \in Workspaces :
    /\ w \in active => decision[w] = "admitted"
    /\ (queuePosition[w] > 0) <=> (decision[w] = "queued")
    /\ decision[w] # "admitted" => deadlineIn[w] = 0
    /\ (decision[w] = "none") <=> (opKey[w] = NoKey)
    /\ lease[w] # NoToken => w \in active
    /\ leaseLeft[w] > 0 => lease[w] # NoToken

(* An operation key names at most one row, although the lookup by key and  *)
(* the insert are different statements: the unique index is never what     *)
(* stops a claim.                                                          *)
KeyNamesOneRow ==
  \A v, w \in Workspaces : (opKey[v] = opKey[w] /\ opKey[v] # NoKey) => v = w

(* An expiry lease is only ever on an overdue sandbox, and its token is on *)
(* no other row: what completeExpired and releaseExpired compare with      *)
(* identifies one claim.                                                   *)
LeaseIsFence ==
  \A w \in Workspaces : lease[w] # NoToken =>
    /\ deadlineIn[w] = 0
    /\ \A v \in Workspaces : lease[v] = lease[w] => v = w

(* What a claim admits stays within the limit its admit read from the plan *)
(* and within the global limit at the moment of the insert, although both  *)
(* counts were taken by earlier statements.                                *)
AdmissionWithinLimits ==
  [][\A c \in Callers : (tx[c].pc = "decide" /\ ~(active' \subseteq active)) =>
       /\ Cardinality(active') <= GlobalLimit
       /\ Cardinality(active' \cap Members(OrgOf[tx[c].ws])) <= tx[c].limit
    ]_capacityVars

(* A decision is recorded once: its columns never change afterwards, and a *)
(* slot that was given back is never taken again by the same row.          *)
DecisionStands ==
  [][\A w \in Workspaces :
       /\ decision[w] # "none" =>
            /\ decision'[w] = decision[w]
            /\ opKey'[w] = opKey[w]
            /\ queuePosition'[w] = queuePosition[w]
       /\ (w \in active' /\ w \notin active) => decision[w] = "none"
    ]_capacityVars

(* A lease that has not run out is never taken over: its token stays or is *)
(* cleared, whoever else calls claimExpired.                               *)
LiveLeaseNotStolen ==
  [][\A w \in Workspaces : leaseLeft[w] > 0 => lease'[w] \in {lease[w], NoToken}
    ]_capacityVars

(* All the sandboxes of one run share one deadline (governor.ts:115).      *)
OneDeadlinePerRun ==
  \A v, w \in active : (OrgOf[v] = OrgOf[w] /\ RunOf[v] = RunOf[w]) =>
    deadlineIn[v] = deadlineIn[w]
=============================================================================
