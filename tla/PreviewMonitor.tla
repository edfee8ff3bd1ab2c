--------------------------- MODULE PreviewMonitor ---------------------------
(***************************************************************************)
(* Observation of the development server of one workspace.  The replica    *)
(* that holds the lease of the workspace row polls the server; when it has *)
(* failed for good it sends one event, which the control plane stores only *)
(* for the token of the live lease, ending the observation in the same     *)
(* transaction.  Restarts of the server, takeovers, late requests, closing *)
(* and crashing replicas and the termination of the workspace interleave.  *)
(***************************************************************************)
EXTENDS Integers

CONSTANTS
    Replicas,   \* processes of the sandbox service
    MaxCalls,   \* bound on the calls that start, restart or terminate
    MaxFaults   \* bound on crashes, closings, failing calls and slow owners

ASSUME MonitorAssumption == MaxCalls \in Nat /\ MaxFaults \in Nat

MaxTokens == MaxCalls + MaxFaults + 1   \* no behaviour claims more often
Tokens == 1 .. MaxTokens
NoToken == 0
Claimants == {"route", "standby"}   \* the two callers of monitorTerminalPreviewFailure

VARIABLES
    gen,        \* the servers started so far; the current one is the last
    server,     \* "none", "running", "failed" or, with its sandbox, "gone"
    row,        \* the status of the row: "ready" or "terminated"
    enabled,    \* previewMonitorEnabled
    owner,      \* previewMonitorOwnerId
    lease,      \* previewMonitorLeaseExpiresAt: "none", "live" or "expired"
    issued,     \* the number of lease tokens made
    monitors,   \* monitors[r]: the token of failureMonitors
    claims,     \* claims[r]: failureMonitorClaims has the workspace
    closing,    \* closing[r]: lifecycle.closing
    call,       \* call[r][k]: where monitorTerminalPreviewFailure is
    old,        \* old[r]: the token of the monitor the route replaces
    started,    \* started[r]: the server the route of r has started
    place,      \* place[t]: the replica of the loop of token t
    pc,         \* pc[t]: where the loop is
    page,       \* page[t]: the failed server the loop has read of, or 0
    aborted,    \* aborted[t]: its controller has been aborted
    requests,   \* the events on their way to the control plane
    stopping,   \* where the termination route is
    reports,    \* the failures stored, with what was known when they were
    fence,      \* history: the server at the last claim
    activated,  \* history: the server at the last activation not revoked since
    settled,    \* history: the last server whose starting call has finished
    calls,
    faults

dbRow == <<row, enabled, owner, lease>>
claiming == <<issued, monitors, claims, closing, call, old, started>>
looping == <<place, pc, page, aborted>>
history == <<reports, fence, activated, settled>>
world == <<gen, server, requests, stopping>>
vars == <<world, dbRow, claiming, looping, history, calls, faults>>

Fault == faults < MaxFaults /\ faults' = faults + 1 /\ UNCHANGED calls

Called == calls < MaxCalls /\ calls' = calls + 1 /\ UNCHANGED faults

Later(a, b) == IF a < b THEN b ELSE a

-----------------------------------------------------------------------------
(* The coordinator: each operation is one conditional UPDATE of the row.   *)

NoLease == owner' = NoToken /\ lease' = "none"

\* The row takes the token a call of replica r has made; its loop is still
\* to come, or is lost with the answer.
TakeLease(r, answer) ==
    /\ issued < MaxTokens
    /\ issued' = issued + 1
    /\ owner' = issued + 1
    /\ lease' = "live"
    /\ place' = [place EXCEPT ![issued + 1] = r]
    /\ pc' = [pc EXCEPT ![issued + 1] = answer]
    /\ fence' = gen

CanActivate == row = "ready" /\ (~enabled \/ owner = NoToken \/ lease = "expired")

\* Mutant: only a released lease can be claimed.
CanClaimReleased == row = "ready" /\ enabled /\ owner = NoToken
CanClaim == row = "ready" /\ enabled /\ (owner = NoToken \/ lease = "expired")

activateAndClaim(r, answer) ==
    /\ CanActivate
    /\ TakeLease(r, answer)
    /\ enabled' = TRUE
    /\ activated' = gen
    /\ UNCHANGED row

claim(r, answer) ==
    /\ CanClaim
    /\ TakeLease(r, answer)
    /\ UNCHANGED <<row, enabled, activated>>

Acquire(r, k, answer) ==
    \/ k = "route" /\ activateAndClaim(r, answer)
    \/ k = "standby" /\ claim(r, answer)

CanAcquire(k) == IF k = "route" THEN CanActivate ELSE CanClaim

\* The condition of renew and complete.
Holds(t) == row = "ready" /\ enabled /\ owner = t /\ lease = "live"

\* Mutant: a loop goes on whatever renew answers.
renewIgnored(t) == TRUE
\* A renewal leaves a live lease live.
renew(t) == Holds(t)

\* Mutant: complete disables the monitor of whoever owns it.
completeAny(t) ==
    /\ enabled' = FALSE
    /\ NoLease
    /\ UNCHANGED row
complete(t) ==
    \/ Holds(t) /\ enabled' = FALSE /\ NoLease /\ UNCHANGED row
    \/ ~Holds(t) /\ UNCHANGED dbRow

revoke == enabled' = FALSE /\ NoLease /\ activated' = 0 /\ UNCHANGED row

release(t) ==
    \/ owner = t /\ NoLease /\ UNCHANGED <<row, enabled>>
    \/ owner # t /\ UNCHANGED dbRow

transition == row' = "terminated" /\ enabled' = FALSE /\ NoLease /\ activated' = 0

-----------------------------------------------------------------------------
(* monitorTerminalPreviewFailure, up to the start of its loop.             *)

At(r, k, where) == call' = [call EXCEPT ![r][k] = where]

\* The call of claimant k returns; that of a route settles the server it started.
Returns(r, k) ==
    /\ At(r, k, "idle")
    /\ \/ k = "standby" /\ UNCHANGED <<settled, started>>
       \/ /\ k = "route"
          /\ settled' = Later(settled, started[r])
          /\ started' = [started EXCEPT ![r] = 0]

\* Without another claim under way in the process the claim is sent.
GoesClaiming(r, k) ==
    IF closing[r] \/ claims[r]
    THEN Returns(r, k) /\ UNCHANGED claims
    ELSE /\ At(r, k, "claiming")
         /\ claims' = [claims EXCEPT ![r] = TRUE]
         /\ UNCHANGED <<settled, started>>

\* The provider has answered a start or a restart: the monitor of the
\* process is replaced.
Enter(r) ==
    /\ call[r]["route"] = "entered"
    /\ \/ /\ monitors[r] # NoToken
          /\ At(r, "route", "releasing")
          /\ old' = [old EXCEPT ![r] = monitors[r]]
          /\ aborted' = [aborted EXCEPT ![monitors[r]] = TRUE]
          /\ monitors' = [monitors EXCEPT ![r] = NoToken]
          /\ UNCHANGED <<claims, settled, started>>
       \/ /\ monitors[r] = NoToken
          /\ GoesClaiming(r, "route")
          /\ UNCHANGED <<old, aborted, monitors>>
    /\ UNCHANGED <<world, dbRow, issued, closing, place, pc, page,
                   reports, fence, activated, calls, faults>>

ReleaseOld(r) ==
    /\ call[r]["route"] = "releasing"
    /\ release(old[r])
    /\ GoesClaiming(r, "route")
    /\ old' = [old EXCEPT ![r] = NoToken]
    /\ UNCHANGED <<world, issued, monitors, closing, looping,
                   reports, fence, activated, calls, faults>>

\* The release fails: the error ends the route with the old loop aborted and
\* its lease left to run out.
ReleaseOldFails(r) ==
    /\ call[r]["route"] = "releasing"
    /\ Fault
    /\ At(r, "route", "idle")
    /\ old' = [old EXCEPT ![r] = NoToken]
    /\ started' = [started EXCEPT ![r] = 0]
    /\ UNCHANGED <<world, dbRow, issued, monitors, claims, closing, looping, history>>

\* acquireEnabledFailureMonitors, at the pace of the standby loop.
Standby(r) ==
    /\ call[r]["standby"] = "idle"
    /\ row = "ready"
    /\ monitors[r] = NoToken
    /\ ~closing[r] /\ ~claims[r]
    /\ GoesClaiming(r, "standby")
    /\ UNCHANGED <<world, dbRow, issued, monitors, closing, old, looping,
                   reports, fence, activated, calls, faults>>

\* The claim, and what its answer leads to: a loop starts unless the process
\* is closing.  In between only this process would see a difference.
Claim(r, k) ==
    /\ call[r][k] = "claiming"
    /\ Returns(r, k)
    /\ claims' = [claims EXCEPT ![r] = FALSE]
    /\ \/ /\ ~closing[r]
          /\ Acquire(r, k, "waiting")
          /\ monitors' = [monitors EXCEPT ![r] = issued + 1]
       \/ /\ closing[r]
          /\ Acquire(r, k, "releasing")
          /\ UNCHANGED monitors
       \/ /\ ~CanAcquire(k)
          /\ UNCHANGED <<dbRow, issued, monitors, place, pc, fence, activated>>
    /\ UNCHANGED <<world, closing, old, page, aborted, reports, calls, faults>>

\* The claim fails, with or without its effect: the error ends the call.
ClaimFails(r, k) ==
    /\ call[r][k] = "claiming"
    /\ Fault
    /\ claims' = [claims EXCEPT ![r] = FALSE]
    /\ At(r, k, "idle")
    /\ started' = [started EXCEPT ![r] = IF k = "route" THEN 0 ELSE @]
    /\ \/ Acquire(r, k, "done")
       \/ UNCHANGED <<dbRow, issued, place, pc, fence, activated>>
    /\ UNCHANGED <<world, monitors, closing, old, page, aborted, reports, settled>>

-----------------------------------------------------------------------------
(* The loop of a token.                                                    *)

\* The loop returns; its finally block releases the lease when the loop is
\* still the monitor of its process.
Ends(t) ==
    /\ page' = [page EXCEPT ![t] = 0]
    /\ aborted' = [aborted EXCEPT ![t] = FALSE]
    /\ \/ /\ monitors[place[t]] = t
          /\ monitors' = [monitors EXCEPT ![place[t]] = NoToken]
          /\ pc' = [pc EXCEPT ![t] = "releasing"]
       \/ /\ monitors[place[t]] # t
          /\ pc' = [pc EXCEPT ![t] = "done"]
          /\ UNCHANGED monitors

\* The loop goes on, having read of the failed server g, or of none.
Goes(t, where, g) ==
    /\ pc' = [pc EXCEPT ![t] = where]
    /\ page' = [page EXCEPT ![t] = g]
    /\ UNCHANGED <<monitors, aborted>>

LoopFrame == UNCHANGED <<gen, server, stopping, issued, claims, closing, call, old, started,
                         place, fence, settled>>

\* The wait ends, the lease is renewed and readDevServerLogs is asked.  A
\* change between the two shows in the next renewal; a page without failure,
\* or none, leads to that renewal and back to the wait.
Poll(t) ==
    /\ pc[t] = "waiting"
    /\ \/ (aborted[t] \/ ~renew(t)) /\ Ends(t)
       \/ ~aborted[t] /\ renew(t) /\ server # "failed" /\ Goes(t, "waiting", 0)
       \/ ~aborted[t] /\ renew(t) /\ server = "failed" /\ Goes(t, "renewing", gen)
    /\ LoopFrame
    /\ UNCHANGED <<dbRow, requests, reports, activated, calls, faults>>

\* The second renewal after a page of a failed server, and the event.
Report(t) ==
    /\ pc[t] = "renewing"
    /\ \/ ~renew(t) /\ Ends(t) /\ UNCHANGED requests
       \/ /\ renew(t)
          /\ Goes(t, "sent", 0)
          /\ requests' = requests \cup {[token |-> t, gen |-> page[t], awaited |-> TRUE]}
    /\ LoopFrame
    /\ UNCHANGED <<dbRow, reports, activated, calls, faults>>

\* Mutant: the control plane stores the failure for any token while the
\* monitor is enabled.
storesAny(t) == enabled /\ lease = "live"
\* The condition under which the control plane stores the terminal failure.
stores(t) == enabled /\ owner = t /\ lease = "live"

\* The answer reaches the loop that still waits for it.
Answered(q, where) ==
    \/ q.awaited /\ Goes(q.token, where, 0)
    \/ ~q.awaited /\ UNCHANGED <<pc, page, monitors, aborted>>

\* events.ingest: the event is stored and the monitor disabled, or neither.
Ingest(q) ==
    /\ q \in requests
    /\ requests' = requests \ {q}
    /\ \/ /\ stores(q.token)
          /\ reports' = reports \cup {[gen |-> q.gen, fence |-> fence, settled |-> settled]}
          /\ enabled' = FALSE /\ NoLease /\ UNCHANGED row
          /\ Answered(q, "completing")
       \/ /\ ~stores(q.token)
          /\ Answered(q, "waiting")
          /\ UNCHANGED <<dbRow, reports>>
    /\ LoopFrame
    /\ UNCHANGED <<activated, calls, faults>>

Complete(t) ==
    /\ pc[t] = "completing"
    /\ complete(t)
    /\ Ends(t)
    /\ LoopFrame
    /\ UNCHANGED <<requests, reports, activated, calls, faults>>

\* A call of the loop fails, or times out with its request still on its way;
\* the loop tries again.
LoopFails(t) ==
    /\ Fault
    /\ pc[t] \in {"renewing", "sent", "completing"}
    /\ Goes(t, "waiting", 0)
    /\ \E kept \in SUBSET {[q EXCEPT !.awaited = FALSE] : q \in {p \in requests : p.token = t}} :
          requests' = {q \in requests : q.token # t} \cup kept
    /\ LoopFrame
    /\ UNCHANGED <<dbRow, reports, activated>>

ReleaseLease(t) ==
    /\ pc[t] = "releasing"
    /\ release(t)
    /\ Goes(t, "done", 0)
    /\ LoopFrame
    /\ UNCHANGED <<requests, reports, activated, calls, faults>>

-----------------------------------------------------------------------------
(* The server and the routes of the workspace.                             *)

\* A call of the dev-server route reaches the provider: a start of a running
\* server changes nothing, any other call begins a new server.
DevServer(r) ==
    /\ call[r]["route"] = "idle" /\ ~closing[r]
    /\ row = "ready" /\ server # "gone"
    /\ \/ server = "running" /\ UNCHANGED <<gen, server>>
       \/ gen' = gen + 1 /\ server' = "running"
    /\ \/ /\ Called
          /\ started' = [started EXCEPT ![r] = gen']
          /\ At(r, "route", "entered")
       \/ Fault /\ UNCHANGED <<started, call>>   \* the answer is an error
    /\ UNCHANGED <<requests, stopping, dbRow, issued, monitors, claims, closing, old,
                   looping, history>>

\* The server has used up its restarts.
ServerFails ==
    /\ server = "running"
    /\ server' = "failed"
    /\ UNCHANGED <<gen, requests, stopping, dbRow, claiming, looping, history, calls, faults>>

stopFailureMonitor(r) ==
    /\ aborted' = [t \in Tokens |-> aborted[t] \/ monitors[r] = t]
    /\ monitors' = [monitors EXCEPT ![r] = NoToken]

RouteFrame == UNCHANGED <<gen, requests, issued, claims, closing, call, old, started,
                          place, pc, page, reports, fence, settled>>

\* The termination route, once the provider has ended the sandbox.
Terminate ==
    /\ stopping = "idle" /\ stopping' = "revoke"
    /\ row = "ready" /\ gen > 0
    /\ server' = "gone"
    /\ Called
    /\ RouteFrame
    /\ UNCHANGED <<dbRow, monitors, aborted, activated>>

Revoke(r) ==
    /\ stopping = "revoke" /\ stopping' = "transition"
    /\ revoke
    /\ stopFailureMonitor(r)
    /\ RouteFrame
    /\ UNCHANGED <<server, calls, faults>>

Transition ==
    /\ stopping = "transition" /\ stopping' = "idle"
    /\ transition
    /\ RouteFrame
    /\ UNCHANGED <<server, monitors, aborted, calls, faults>>

TerminateFails ==
    /\ stopping # "idle" /\ stopping' = "idle"
    /\ Fault
    /\ RouteFrame
    /\ UNCHANGED <<server, dbRow, monitors, aborted, activated>>

\* The route on a row that is already terminated.
TerminateAgain(r) ==
    /\ row = "terminated"
    /\ revoke
    /\ stopFailureMonitor(r)
    /\ RouteFrame
    /\ UNCHANGED <<server, stopping, calls, faults>>

-----------------------------------------------------------------------------
(* Processes and time.                                                     *)

Runs(r, t) == pc[t] # "idle" /\ place[t] = r

\* A process ends; what it has sent stays on its way.
Crash(r) ==
    /\ Fault
    /\ monitors' = [monitors EXCEPT ![r] = NoToken]
    /\ claims' = [claims EXCEPT ![r] = FALSE]
    /\ closing' = [closing EXCEPT ![r] = FALSE]
    /\ call' = [call EXCEPT ![r] = [k \in Claimants |-> "idle"]]
    /\ old' = [old EXCEPT ![r] = NoToken]
    /\ started' = [started EXCEPT ![r] = 0]
    /\ pc' = [t \in Tokens |-> IF Runs(r, t) THEN "done" ELSE pc[t]]
    /\ page' = [t \in Tokens |-> IF Runs(r, t) THEN 0 ELSE page[t]]
    /\ aborted' = [t \in Tokens |-> ~Runs(r, t) /\ aborted[t]]
    /\ requests' = {IF place[q.token] = r THEN [q EXCEPT !.awaited = FALSE] ELSE q : q \in requests}
    /\ UNCHANGED <<gen, server, stopping, dbRow, issued, place, history>>

\* onClose: no further claims, then the release of the lease.
Close(r) ==
    /\ Fault
    /\ ~closing[r]
    /\ closing' = [closing EXCEPT ![r] = TRUE]
    /\ UNCHANGED <<world, dbRow, issued, monitors, claims, call, old, started, looping,
                   history>>

\* The standby loop and the requests of the process have ended.  A new
\* process takes its place.
Closed(r) ==
    /\ closing[r]
    /\ \A k \in Claimants : call[r][k] = "idle"
    /\ release(monitors[r])
    /\ stopFailureMonitor(r)
    /\ closing' = [closing EXCEPT ![r] = FALSE]
    /\ UNCHANGED <<world, issued, claims, call, old, started, place, pc, page,
                   history, calls, faults>>

\* The lease runs out: at once when its loop has ended, and while the loop
\* runs only when a step of it has been slower than the lease.
Expire ==
    /\ lease = "live"
    /\ lease' = "expired"
    /\ \/ pc[owner] = "done" /\ UNCHANGED <<calls, faults>>
       \/ pc[owner] # "done" /\ Fault
    /\ UNCHANGED <<world, row, enabled, owner, claiming, looping, history>>

-----------------------------------------------------------------------------

Init ==
    /\ gen = 0 /\ server = "none" /\ row = "ready"
    /\ enabled = FALSE /\ owner = NoToken /\ lease = "none"
    /\ issued = 0
    /\ monitors = [r \in Replicas |-> NoToken]
    /\ claims = [r \in Replicas |-> FALSE]
    /\ closing = [r \in Replicas |-> FALSE]
    /\ call = [r \in Replicas |-> [k \in Claimants |-> "idle"]]
    /\ old = [r \in Replicas |-> NoToken]
    /\ started = [r \in Replicas |-> 0]
    /\ place = [t \in Tokens |-> CHOOSE r \in Replicas : TRUE]
    /\ pc = [t \in Tokens |-> "idle"]
    /\ page = [t \in Tokens |-> 0]
    /\ aborted = [t \in Tokens |-> FALSE]
    /\ requests = {}
    /\ stopping = "idle"
    /\ reports = {} /\ fence = 0 /\ activated = 0 /\ settled = 0
    /\ calls = 0 /\ faults = 0

ReplicaStep(r) ==
    \/ Enter(r) \/ ReleaseOld(r)
    \/ \E k \in Claimants : Claim(r, k)
    \/ Standby(r) \/ Closed(r)

LoopStep(t) == Poll(t) \/ Report(t) \/ Complete(t) \/ ReleaseLease(t)

Next ==
    \/ \E r \in Replicas : ReplicaStep(r) \/ DevServer(r) \/ Revoke(r) \/ TerminateAgain(r)
                           \/ ReleaseOldFails(r) \/ Crash(r) \/ Close(r)
    \/ \E r \in Replicas, k \in Claimants : ClaimFails(r, k)
    \/ \E t \in Tokens : LoopStep(t) \/ LoopFails(t)
    \/ \E q \in requests : Ingest(q)
    \/ Terminate \/ Transition \/ TerminateFails
    \/ ServerFails
    \/ Expire

Spec == Init /\ [][Next]_vars

\* Timers fire, calls are answered, a lease nobody renews runs out.  Nothing
\* is assumed of callers, of the server, or of faults.
Fairness ==
    /\ \A r \in Replicas : WF_vars(ReplicaStep(r))
    /\ \A r \in Replicas : WF_vars(\E t \in Tokens : Runs(r, t) /\ LoopStep(t))
    /\ WF_vars(\E q \in requests : Ingest(q))
    /\ WF_vars(Expire /\ pc[owner] = "done")

FairSpec == Spec /\ Fairness

-----------------------------------------------------------------------------

LoopStates == {"idle", "waiting", "renewing", "sent", "completing", "releasing", "done"}

\* Every variable has its type.
MonitorTypeOK ==
    /\ gen \in Nat /\ calls \in Nat /\ faults \in Nat
    /\ server \in {"none", "running", "failed", "gone"}
    /\ row \in {"ready", "terminated"}
    /\ enabled \in BOOLEAN
    /\ owner \in Tokens \cup {NoToken}
    /\ lease \in {"none", "live", "expired"}
    /\ issued \in 0 .. MaxTokens
    /\ monitors \in [Replicas -> Tokens \cup {NoToken}]
    /\ claims \in [Replicas -> BOOLEAN]
    /\ closing \in [Replicas -> BOOLEAN]
    /\ call \in [Replicas -> [Claimants -> {"idle", "entered", "releasing", "claiming"}]]
    /\ old \in [Replicas -> Tokens \cup {NoToken}]
    /\ started \in [Replicas -> Nat]
    /\ place \in [Tokens -> Replicas]
    /\ pc \in [Tokens -> LoopStates]
    /\ page \in [Tokens -> Nat]
    /\ aborted \in [Tokens -> BOOLEAN]
    /\ requests \in SUBSET [token : Tokens, gen : Nat, awaited : BOOLEAN]
    /\ stopping \in {"idle", "revoke", "transition"}
    /\ reports \in SUBSET [gen : Nat, fence : Nat, settled : Nat]
    /\ fence \in Nat /\ activated \in Nat /\ settled \in Nat

\* A stored failure is not of a server older than the last claim of the
\* lease: whatever a former owner still has on its way is refused
\* (the condition of the update in events.ingest, tenant/db.ts).
FencedReports == \A p \in reports : p.gen >= p.fence

\* A monitor that was activated for a server stays enabled until a failure of
\* that server or a later one is stored, or the workspace is terminated: no
\* late complete, release or takeover ends the observation.
ObservationKept ==
    (activated > 0 /\ ~enabled) => \E p \in reports : p.gen >= activated

\* A terminated workspace is not observed, whatever calls ran beside its
\* termination: nothing owns the monitor and nothing can enable it.
TerminatedUnobserved == row = "terminated" => ~enabled /\ owner = NoToken /\ ~CanActivate

\* While the monitor is enabled, a server that has failed for good has a
\* failure stored, is replaced or is terminated with its workspace, across
\* takeovers, crashes and lost calls.
FailureReported == (enabled /\ server = "failed") ~> (~enabled \/ server # "failed")

\* After the termination of the workspace every loop of every replica ends.
PollingStops == (row = "terminated") ~> (\A t \in Tokens : pc[t] \in {"idle", "done"})

\* A stored failure is not of a server older than one whose restart has
\* already been answered.
NoStaleReport == \A p \in reports : p.gen >= p.settled
=============================================================================
