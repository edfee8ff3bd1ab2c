-------------------------- MODULE SandboxGovernor --------------------------
(***************************************************************************)
(* The runaway-compute governor on several service replicas                *)
(* (services/sandbox-service/src/lifecycle/governor.ts), over the capacity *)
(* table of SandboxCapacity and with the actions that runtime.ts gives it. *)
(*                                                                         *)
(* Each replica runs at most one sweep: claim one overdue row, terminate   *)
(* the sandbox while a timer renews the lease, renew once more, complete.  *)
(* The terminate-all switch of support and the terminate route release     *)
(* slots without a lease.  A sandbox counts as running from its admission; *)
(* the window in which it is being created is left to WorkspaceLifecycle.  *)
(***************************************************************************)
EXTENDS SandboxCapacity, Sequences

CONSTANTS
  Replicas,     \* sandbox-service processes
  Stubborn,     \* workspaces whose termination the provider never confirms
  MaxFaults     \* bound on crashes, stops, stalls, failed calls and
                \* terminate-all requests together

ASSUME GovernorAssumption ==
  /\ Workspaces \subseteq Nat
  /\ MaxFaults \in Nat
  /\ Stubborn \subseteq Workspaces

VARIABLES
  running,   \* workspaces whose provider sandbox is alive
  byDeadline,\* admitted workspaces in the order of (deadline_at, workspace_id)
  proc,      \* "up", "stopping" or "down" for each replica
  sweep,     \* the sweep of each replica: where it is, its claim, its lost flag
  killing,   \* the terminate-all request of each organization
  faults     \* faults so far

sweepVars == <<proc, sweep, faults>>
governorVars == <<capacityVars, running, byDeadline, sweepVars, killing>>

NoSweep == [pc |-> "idle", ws |-> NoWorkspace, token |-> NoToken, lost |-> FALSE]
NoKill == [pc |-> "idle", todo |-> {}, cur |-> NoWorkspace]

GovernorInit ==
  /\ CapacityInit
  /\ running = {}
  /\ byDeadline = <<>>
  /\ proc = [r \in Replicas |-> "up"]
  /\ sweep = [r \in Replicas |-> NoSweep]
  /\ killing = [o \in Orgs |-> NoKill]
  /\ faults = 0

Fault == faults < MaxFaults /\ faults' = faults + 1

-----------------------------------------------------------------------------
(* Admission                                                               *)

(* ORDER BY deadline_at, workspace_id: the row of w goes before the rows   *)
(* with a later deadline.  The order of two deadlines never changes.       *)
Earlier(v, w, left) == deadlineIn[v] < left \/ (deadlineIn[v] = left /\ v < w)

InsertByDeadline(w, left) ==
  SelectSeq(byDeadline, LAMBDA v : Earlier(v, w, left)) \o <<w>>
    \o SelectSeq(byDeadline, LAMBDA v : ~Earlier(v, w, left))

Admit(c) ==
  /\ ClaimStep(c)
  /\ IF active' \subseteq active
       THEN UNCHANGED <<running, byDeadline>>
       ELSE /\ running' = running \cup {tx[c].ws}
            /\ byDeadline' = InsertByDeadline(tx[c].ws, tx[c].budgetLeft)
  /\ UNCHANGED <<sweepVars, killing>>

-----------------------------------------------------------------------------
(* sweepExpired                                                            *)

Set(r, s) == sweep' = [sweep EXCEPT ![r] = s]
Goto(r, pc) == sweep' = [sweep EXCEPT ![r].pc = pc]

(* randomUUID: a token that no row and no sweep remembers.                 *)
FreshTokens ==
  Tokens \ ({lease[w] : w \in Workspaces} \cup {sweep[r].token : r \in Replicas})

(* LIMIT 1 of the rows in the order of claimExpired.                       *)
NextExpired == LET due == SelectSeq(byDeadline, Claimable) IN Head(due)

SweepClaim(r) ==
  /\ proc[r] = "up" /\ sweep[r].pc = "idle"
  /\ \E w \in Workspaces : Claimable(w)
  /\ FreshTokens # {}
  /\ LET w == NextExpired
         t == CHOOSE t \in FreshTokens : TRUE
     IN /\ ClaimExpired(w, t)
        /\ Set(r, [pc |-> "claimed", ws |-> w, token |-> t, lost |-> FALSE])
  /\ UNCHANGED <<running, byDeadline, proc, faults, killing>>

SweepBegin(r) ==
  /\ sweep[r].pc = "claimed" /\ proc[r] = "up"
  /\ Goto(r, "acting")
  /\ UNCHANGED <<capacityVars, running, byDeadline, proc, faults, killing>>

(* releaseExpired of the claim in hand; a fence that no longer matches     *)
(* makes it throw, which ends the sweep all the same.                      *)
GiveBackLease(r) ==
  /\ IF HoldsFence(sweep[r].ws, sweep[r].token)
       THEN ReleaseExpired(sweep[r].ws, sweep[r].token)
       ELSE UNCHANGED capacityVars
  /\ Set(r, NoSweep)

(* stop() was called while claimExpired was under way.                     *)
SweepAbandon(r) ==
  /\ sweep[r].pc = "claimed" /\ proc[r] = "stopping"
  /\ GiveBackLease(r)
  /\ UNCHANGED <<running, byDeadline, proc, faults, killing>>

(* Mutant: the action marks the admission inactive itself.                 *)
SweepTerminateInactive(r) ==
  /\ sweep[r].pc = "acting"
  /\ sweep[r].ws \notin Stubborn
  /\ running' = running \ {sweep[r].ws}
  /\ active' = active \ {sweep[r].ws}
  /\ Goto(r, "acted")
  /\ UNCHANGED <<admissionVars, rowVars, deadlineIn, leaseVars>>
  /\ UNCHANGED <<byDeadline, proc, faults, killing>>

(* checkpointAndTerminate is terminateCandidate of runtime.ts: it looks at *)
(* neither the lease token nor the abort signal.                           *)
SweepTerminate(r) ==
  /\ sweep[r].pc = "acting"
  /\ sweep[r].ws \notin Stubborn
  /\ running' = running \ {sweep[r].ws}
  /\ Goto(r, "acted")
  /\ UNCHANGED <<capacityVars, byDeadline, proc, faults, killing>>

SweepTerminateFails(r) ==
  /\ sweep[r].pc = "acting"
  /\ IF sweep[r].ws \in Stubborn THEN UNCHANGED faults ELSE Fault
  /\ Goto(r, "failed")
  /\ UNCHANGED <<capacityVars, running, byDeadline, proc, killing>>

(* The interval timer, cleared by stop().                                  *)
RenewTimer(r) ==
  /\ sweep[r].pc = "acting" /\ proc[r] = "up" /\ ~sweep[r].lost
  /\ IF HoldsFence(sweep[r].ws, sweep[r].token)
       THEN RenewExpired(sweep[r].ws, sweep[r].token) /\ UNCHANGED sweep
       ELSE UNCHANGED capacityVars /\ sweep' = [sweep EXCEPT ![r].lost = TRUE]
  /\ UNCHANGED <<running, byDeadline, proc, faults, killing>>

(* renewExpired throws inside the timer: the lease counts as lost though   *)
(* the row still carries it.                                               *)
RenewTimerFails(r) ==
  /\ sweep[r].pc = "acting" /\ proc[r] = "up" /\ ~sweep[r].lost
  /\ Fault
  /\ sweep' = [sweep EXCEPT ![r].lost = TRUE]
  /\ UNCHANGED <<capacityVars, running, byDeadline, proc, killing>>

(* The renewal after the action.                                           *)
SweepRenew(r) ==
  /\ sweep[r].pc = "acted"
  /\ IF ~sweep[r].lost /\ HoldsFence(sweep[r].ws, sweep[r].token)
       THEN RenewExpired(sweep[r].ws, sweep[r].token) /\ Goto(r, "renewed")
       ELSE /\ UNCHANGED capacityVars
            /\ Set(r, [sweep[r] EXCEPT !.pc = "failed", !.lost = TRUE])
  /\ UNCHANGED <<running, byDeadline, proc, faults, killing>>

SweepComplete(r) ==
  /\ sweep[r].pc = "renewed"
  /\ IF HoldsFence(sweep[r].ws, sweep[r].token)
       THEN CompleteExpired(sweep[r].ws, sweep[r].token) /\ Set(r, NoSweep)
       ELSE UNCHANGED capacityVars /\ Goto(r, "failed")
  /\ UNCHANGED <<running, byDeadline, proc, faults, killing>>

(* A database error in the last renewal or in completeExpired.             *)
SweepDatabaseFails(r) ==
  /\ sweep[r].pc \in {"acted", "renewed"}
  /\ Fault
  /\ Goto(r, "failed")
  /\ UNCHANGED <<capacityVars, running, byDeadline, proc, killing>>

(* The catch block: only a lease that was not lost is given back.          *)
SweepCatch(r) ==
  /\ sweep[r].pc = "failed"
  /\ IF sweep[r].lost THEN UNCHANGED capacityVars /\ Set(r, NoSweep) ELSE GiveBackLease(r)
  /\ UNCHANGED <<running, byDeadline, proc, faults, killing>>

-----------------------------------------------------------------------------
(* Processes                                                               *)

Stop(r) ==
  /\ proc[r] = "up"
  /\ Fault
  /\ proc' = [proc EXCEPT ![r] = "stopping"]
  /\ UNCHANGED <<capacityVars, running, byDeadline, sweep, killing>>

(* stop() awaits the active sweep before the process exits.                *)
Exit(r) ==
  /\ proc[r] = "stopping" /\ sweep[r].pc = "idle"
  /\ proc' = [proc EXCEPT ![r] = "down"]
  /\ UNCHANGED <<capacityVars, running, byDeadline, sweep, faults, killing>>

Crash(r) ==
  /\ proc[r] # "down"
  /\ Fault
  /\ proc' = [proc EXCEPT ![r] = "down"]
  /\ Set(r, NoSweep)
  /\ UNCHANGED <<capacityVars, running, byDeadline, killing>>

Restart(r) ==
  /\ proc[r] = "down"
  /\ proc' = [proc EXCEPT ![r] = "up"]
  /\ UNCHANGED <<capacityVars, running, byDeadline, sweep, faults, killing>>

-----------------------------------------------------------------------------
(* terminateAll and the terminate route                                    *)

(* The audit record is written, then the active rows are listed.           *)
KillAudit(o) ==
  /\ killing[o].pc = "idle"
  /\ Fault
  /\ killing' = [killing EXCEPT ![o].pc = "audited"]
  /\ UNCHANGED <<capacityVars, running, byDeadline, proc, sweep>>

KillList(o) ==
  /\ killing[o].pc = "audited"
  /\ killing' = [killing EXCEPT ![o] =
       [pc |-> "walking", todo |-> active \cap Members(o), cur |-> NoWorkspace]]
  /\ UNCHANGED <<capacityVars, running, byDeadline, sweepVars>>

(* Mutant: the termination is not awaited before the release.              *)
KillTerminateUnawaited(o) ==
  /\ killing[o].pc = "walking"
  /\ \E w \in killing[o].todo \ Stubborn :
       killing' = [killing EXCEPT ![o] =
         [pc |-> "release", todo |-> killing[o].todo \ {w}, cur |-> w]]
  /\ UNCHANGED <<capacityVars, running, byDeadline, sweepVars>>

KillTerminate(o) ==
  /\ killing[o].pc = "walking"
  /\ \E w \in killing[o].todo \ Stubborn :
       /\ running' = running \ {w}
       /\ killing' = [killing EXCEPT ![o] =
            [pc |-> "release", todo |-> killing[o].todo \ {w}, cur |-> w]]
  /\ UNCHANGED <<capacityVars, byDeadline, sweepVars>>

KillRelease(o) ==
  /\ killing[o].pc = "release"
  /\ Release(killing[o].cur)
  /\ killing' = [killing EXCEPT ![o] =
       [pc |-> "walking", todo |-> killing[o].todo, cur |-> NoWorkspace]]
  /\ UNCHANGED <<running, byDeadline, sweepVars>>

(* The list is done, or a call throws or the process dies and the rest of  *)
(* the list is not reached.                                                *)
KillEnd(o) ==
  /\ killing[o].pc # "idle"
  /\ killing' = [killing EXCEPT ![o] = NoKill]
  /\ UNCHANGED <<capacityVars, running, byDeadline, sweepVars>>

(* The terminate route stops the sandbox, and releases the slot after.     *)
RouteTerminate(w) ==
  /\ w \in running \ Stubborn
  /\ running' = running \ {w}
  /\ UNCHANGED <<capacityVars, byDeadline, sweepVars, killing>>

RouteRelease(w) ==
  /\ w \in active \ running
  /\ Release(w)
  /\ UNCHANGED <<running, byDeadline, sweepVars, killing>>

-----------------------------------------------------------------------------
(* The renewal timer of an acting sweep runs every half lease, so a lease  *)
(* only runs out under a live sweep when its process stalls.               *)
RenewalDue ==
  \E r \in Replicas :
    /\ proc[r] = "up" /\ sweep[r].pc # "idle" /\ ~sweep[r].lost
    /\ HoldsFence(sweep[r].ws, sweep[r].token)
    /\ leaseLeft[sweep[r].ws] = 1

Pass ==
  /\ Tick
  /\ IF RenewalDue THEN Fault ELSE UNCHANGED faults
  /\ UNCHANGED <<running, byDeadline, proc, sweep, killing>>

PlanChanges ==
  /\ \E o \in Orgs, limit \in PlanLimits : ChangePlan(o, limit)
  /\ UNCHANGED <<running, byDeadline, sweepVars, killing>>

SweepStep(r) ==
  \/ SweepClaim(r) \/ SweepBegin(r) \/ SweepAbandon(r)
  \/ SweepTerminate(r) \/ SweepTerminateFails(r)
  \/ RenewTimer(r) \/ RenewTimerFails(r)
  \/ SweepRenew(r) \/ SweepComplete(r) \/ SweepDatabaseFails(r) \/ SweepCatch(r)
  \/ Stop(r) \/ Exit(r) \/ Crash(r) \/ Restart(r)

KillStep(o) ==
  KillAudit(o) \/ KillList(o) \/ KillTerminate(o) \/ KillRelease(o) \/ KillEnd(o)

GovernorNext ==
  \/ \E c \in Callers : Admit(c)
  \/ \E r \in Replicas : SweepStep(r)
  \/ \E o \in Orgs : KillStep(o)
  \/ \E w \in Workspaces : RouteTerminate(w) \/ RouteRelease(w)
  \/ PlanChanges
  \/ Pass

GovernorSpec == GovernorInit /\ [][GovernorNext]_governorVars

(* A running process takes the next step of its sweep, its timers fire, a  *)
(* stopped process is started again, and time passes however often a due   *)
(* renewal comes first.                                                    *)
GovernorFairness ==
  /\ SF_governorVars(Pass)
  /\ \A r \in Replicas :
       /\ WF_governorVars(SweepClaim(r)) /\ WF_governorVars(SweepBegin(r))
       /\ WF_governorVars(SweepAbandon(r))
       /\ WF_governorVars(SweepTerminate(r) \/ SweepTerminateFails(r))
       /\ WF_governorVars(SweepRenew(r)) /\ WF_governorVars(SweepComplete(r))
       /\ WF_governorVars(SweepCatch(r))
       /\ WF_governorVars(Exit(r)) /\ WF_governorVars(Restart(r))

FairGovernorSpec == GovernorSpec /\ GovernorFairness

-----------------------------------------------------------------------------
(* Properties                                                              *)

(* Sweeps, processes and kill requests stay in their domains.              *)
GovernorTypeOK ==
  /\ running \subseteq Workspaces
  /\ byDeadline \in Seq(Workspaces)
  /\ \A i, j \in DOMAIN byDeadline : byDeadline[i] = byDeadline[j] => i = j
  /\ proc \in [Replicas -> {"up", "stopping", "down"}]
  /\ sweep \in [Replicas ->
       [pc : {"idle", "claimed", "acting", "acted", "renewed", "failed"},
        ws : Workspaces \cup {NoWorkspace}, token : Tokens \cup {NoToken}, lost : BOOLEAN]]
  /\ killing \in [Orgs ->
       [pc : {"idle", "audited", "walking", "release"},
        todo : SUBSET Workspaces, cur : Workspaces \cup {NoWorkspace}]]
  /\ faults \in 0..MaxFaults

(* Whoever frees a slot (a sweep, terminate-all or the terminate route,    *)
(* with leases lost and processes dying at any point) has stopped the      *)
(* sandbox first: every running sandbox is counted against the limits.     *)
SlotCoversSandbox == running \subseteq active

(* As long as no process stalls, stops or crashes and no call fails, the   *)
(* renewed lease keeps every other replica away from a sandbox that is     *)
(* being terminated.                                                       *)
LeaseExcludes ==
  faults = 0 =>
    \A r, s \in Replicas :
      (r # s /\ sweep[r].pc # "idle" /\ sweep[s].pc # "idle") => sweep[r].ws # sweep[s].ws

(* The active rows that claimExpired returns before the row of w.          *)
AheadOf(w) ==
  {byDeadline[i] : i \in {i \in DOMAIN byDeadline :
     \E j \in DOMAIN byDeadline : i < j /\ byDeadline[j] = w}} \cap active

(* A sandbox past its deadline is eventually given up, whichever replica   *)
(* dies or loses its lease meanwhile, unless the provider cannot stop it   *)
(* or one with an earlier deadline: a sweep claims the row it has just     *)
(* failed to terminate again and never reaches the rows behind it.         *)
OverdueReleased ==
  \A w \in Workspaces \ Stubborn :
    (w \in active /\ deadlineIn[w] = 0 /\ AheadOf(w) \cap Stubborn = {}) ~> (w \notin active)
=============================================================================
