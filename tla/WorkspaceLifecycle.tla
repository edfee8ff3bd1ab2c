------------------------ MODULE WorkspaceLifecycle ------------------------
(***************************************************************************)
(* One workspace of the sandbox service as its HTTP handlers, the governor *)
(* and the attachment loop see it: the durable workspaces row, the capacity *)
(* slot, and the provider's sandboxes.  Every await of a handler is a step, *)
(* so that handlers of different requests and replicas interleave between  *)
(* the reads and the writes of one another.                                *)
(*                                                                         *)
(* The slot is the workspace's row of SandboxCapacity, which decides once  *)
(* and never reactivates a row (DecisionStands there).                     *)
(***************************************************************************)
EXTENDS Naturals

CONSTANTS
    Creates,        \* requests to POST /internal/workspaces for this workspace
    NoSandbox,      \* providerWorkspaceId = null
    Attaches,       \* requests to .../attach
    Terminations,   \* requests to .../terminate and project deletions
    Governors,      \* governor passes: deadline sweep or organization terminate-all
    Loops,          \* attachment background work, one per replica
    Overlap,        \* FALSE: callers name the workspace only while no create runs
    MaxFaults       \* bound on crashes, database and provider errors

ASSUME LifecycleAssumption ==
    /\ NoSandbox \notin Creates
    /\ Creates \cap (Attaches \cup Terminations \cup Governors \cup Loops) = {}
    /\ Loops \cap (Attaches \cup Terminations \cup Governors) = {}
    /\ Overlap \in BOOLEAN
    /\ MaxFaults \in Nat

VARIABLES
    row,        \* the workspaces row
    slot,       \* the workspace's sandbox_capacity_admissions row
    sandbox,    \* the provider's sandbox of each create request
    handler,    \* where each request or loop is, and what it has read
    faults      \* faults so far

vars == <<row, slot, sandbox, handler, faults>>

Handlers == Creates \cup Attaches \cup Terminations \cup Governors \cup Loops

Statuses == {"requested", "provisioning", "started", "ready", "terminated"}

(* attachment: the run, task, purpose, environment and image columns, all  *)
(* null in the row the control API inserts.                                *)
Rows == [status : Statuses \cup {"absent"},
         attachment : BOOLEAN,
         provider : Creates \cup {NoSandbox},
         terminatedAt : BOOLEAN]

Slots == {"none", "queued", "held", "freed"}

(* "late": allocated after createWorkspace gave up waiting for it. *)
SandboxStates == {"none", "late", "up", "ready", "gone"}

Live(c) == sandbox[c] \in {"late", "up", "ready"}

Steps == {"idle", "poll", "admit", "refuse", "provision", "allocate", "bind", "boot",
          "undo", "fail", "start", "confirm", "finish", "attach", "advance",
          "candidate", "status", "kill", "killOnly", "mark", "release"}

(* What a handler keeps of the row it has read. *)
Views == [status : Statuses \cup {"absent"}, provider : Creates \cup {NoSandbox}]

HandlerStates == [pc : Steps, created : BOOLEAN, saw : Views]

NoRow == [status |-> "absent", attachment |-> FALSE, provider |-> NoSandbox, terminatedAt |-> FALSE]

NoView == [status |-> "absent", provider |-> NoSandbox]

View == [status |-> row.status, provider |-> row.provider]

Idle == [pc |-> "idle", created |-> FALSE, saw |-> NoView]

Fault == faults < MaxFaults /\ faults' = faults + 1

At(h, step) == handler[h].pc = step

Goto(h, step) ==
    handler' = [handler EXCEPT ![h] =
        [@ EXCEPT !.pc = step, !.saw = IF step = "release" THEN NoView ELSE handler[h].saw]]

(* The handler answers its caller (or throws) and is done. *)
Answer(h) == handler' = [handler EXCEPT ![h] = Idle]

Read(h, step) == handler' = [handler EXCEPT ![h] = [@ EXCEPT !.pc = step, !.saw = View]]

CreateInFlight == \E c \in Creates : handler[c].created

OthersInFlight == \E h \in Handlers \ (Creates \cup Loops) : ~At(h, "idle")

MayStart == Overlap \/ ~CreateInFlight

(***************************************************************************)
(* state/postgres.ts: the writes of the workspaces row.                    *)
(***************************************************************************)
transition(status, provider, expected) ==
    row' = IF row.status \in expected
           THEN [row EXCEPT !.status = status,
                            !.provider = IF provider = NoSandbox THEN @ ELSE provider,
                            !.terminatedAt = @ \/ status = "terminated"]
           ELSE row

bindProviderWorkspaceId(c) ==
    row' = IF row.status = "provisioning" /\ row.provider \in {NoSandbox, c}
           THEN [row EXCEPT !.provider = c]
           ELSE row

release == slot' = IF slot = "held" THEN "freed" ELSE slot

(***************************************************************************)
(* The tail the handlers share: terminate the provider's sandbox and       *)
(* confirm its absence, mark the row, free the slot.  A provider error     *)
(* leaves the handler with an error and the slot as it was.                *)
(***************************************************************************)
Kill(h, step, next) ==
    /\ At(h, step)
    /\ sandbox' = [sandbox EXCEPT ![handler[h].saw.provider] = "gone"]
    /\ IF next = "idle" THEN Answer(h) ELSE Goto(h, next)
    /\ UNCHANGED <<row, slot, faults>>

KillFails(h) ==
    /\ \/ At(h, "kill")
       \/ At(h, "killOnly")
    /\ Fault
    /\ Answer(h)
    /\ UNCHANGED <<row, slot, sandbox>>

Mark(h, provider, expected) ==
    /\ At(h, "mark")
    /\ transition("terminated", provider, expected)
    /\ Goto(h, "release")
    /\ UNCHANGED <<slot, sandbox, faults>>

(* An error of the row's update: only a create frees the slot regardless. *)
MarkFails(h) ==
    /\ At(h, "mark")
    /\ Fault
    /\ IF h \in Creates THEN Goto(h, "release") ELSE Answer(h)
    /\ UNCHANGED <<row, slot, sandbox>>

Release(h) ==
    /\ At(h, "release")
    /\ \/ release /\ UNCHANGED faults
       \/ Fault /\ UNCHANGED slot
    /\ Answer(h)
    /\ UNCHANGED <<row, sandbox>>

(***************************************************************************)
(* POST /internal/workspaces.                                              *)
(***************************************************************************)
(* Mutant: the where clause without the attachment columns. *)
UnclaimedRequested == row.status = "requested"

Unclaimed == row.status = "requested" /\ row.provider = NoSandbox /\ ~row.attachment

(* claimCreate: one request inserts the row or fills its attachment. *)
CreateClaim(c) ==
    /\ At(c, "idle")
    /\ Overlap \/ ~OthersInFlight
    /\ IF row.status = "absent" \/ Unclaimed
       THEN /\ row' = [row EXCEPT !.status = "requested", !.attachment = TRUE]
            /\ handler' = [handler EXCEPT ![c] =
                   [pc |-> "admit", created |-> TRUE, saw |-> NoView]]
       ELSE /\ Goto(c, "poll")
            /\ UNCHANGED row
    /\ UNCHANGED <<slot, sandbox, faults>>

(* A duplicate waits for the first create to end, at most 30 s. *)
CreatePoll(c) ==
    /\ At(c, "poll")
    /\ \/ row.attachment /\ row.status \in {"ready", "terminated"} /\ Read(c, "admit")
       \/ Answer(c)
    /\ UNCHANGED <<row, slot, sandbox, faults>>

(* governor.admit answers or throws; after an error of the database the    *)
(* decision may or may not have been stored.                               *)
Decide == slot' \in IF slot = "none" THEN {"held", "queued"} ELSE {slot}

CreateAdmit(c) ==
    /\ At(c, "admit")
    /\ Decide
    /\ slot' # "queued"
    /\ CASE handler[c].created -> Goto(c, "provision")
         [] ~handler[c].created /\ handler[c].saw.status = "ready"
                /\ handler[c].saw.provider # NoSandbox -> Answer(c)
         [] OTHER -> Goto(c, "release")
    /\ UNCHANGED <<row, sandbox, faults>>

CreateAdmitThrows(c) ==
    /\ At(c, "admit")
    /\ \/ Decide /\ slot' = "queued" /\ UNCHANGED faults
       \/ Fault /\ (Decide \/ UNCHANGED slot)
    /\ IF handler[c].created THEN Goto(c, "refuse") ELSE Answer(c)
    /\ UNCHANGED <<row, sandbox>>

CreateRefuse(c) ==
    /\ At(c, "refuse")
    /\ transition("terminated", NoSandbox, Statuses)
    /\ Answer(c)
    /\ UNCHANGED <<slot, sandbox, faults>>

CreateProvision(c) ==
    /\ At(c, "provision")
    /\ \/ transition("provisioning", NoSandbox, Statuses) /\ Goto(c, "allocate") /\ UNCHANGED faults
       \/ Fault /\ Goto(c, "release") /\ UNCHANGED row
    /\ UNCHANGED <<slot, sandbox>>

(* provider.createWorkspace up to the allocation: a sandbox, a refusal, or *)
(* a creation that outlives its deadline.                                  *)
CreateAllocate(c) ==
    /\ At(c, "allocate")
    /\ \/ sandbox' = [sandbox EXCEPT ![c] = "up"] /\ Goto(c, "bind") /\ UNCHANGED faults
       \/ Goto(c, "fail") /\ UNCHANGED <<sandbox, faults>>
       \/ Fault /\ sandbox' = [sandbox EXCEPT ![c] = "late"] /\ Goto(c, "fail")
    /\ UNCHANGED <<row, slot>>

LateTerminate(c) ==
    /\ sandbox[c] = "late"
    /\ sandbox' = [sandbox EXCEPT ![c] = "gone"]
    /\ UNCHANGED <<row, slot, handler, faults>>

(* onAllocated: bind, then the network policy; either may fail. *)
CreateBind(c) ==
    /\ At(c, "bind")
    /\ \/ bindProviderWorkspaceId(c) /\ Goto(c, "boot") /\ UNCHANGED faults
       \/ Fault /\ (bindProviderWorkspaceId(c) \/ UNCHANGED row) /\ Goto(c, "undo")
    /\ UNCHANGED <<slot, sandbox>>

(* Mutant: createWorkspace without its catch block. *)
CreateBootAbandoned(c) ==
    /\ At(c, "boot")
    /\ \/ sandbox[c] = "ready" /\ Goto(c, "start")
       \/ Goto(c, "fail")
    /\ UNCHANGED <<row, slot, sandbox, faults>>

(* The readiness probes: the agent answers, or the deadline passes. *)
CreateBoot(c) ==
    /\ At(c, "boot")
    /\ \/ sandbox[c] = "ready" /\ Goto(c, "start")
       \/ Goto(c, "undo")
    /\ UNCHANGED <<row, slot, sandbox, faults>>

(* Mutant: a catch block that does not terminate. *)
CreateUndoNothing(c) ==
    /\ At(c, "undo")
    /\ Goto(c, "fail")
    /\ UNCHANGED <<row, slot, sandbox, faults>>

(* createWorkspace's catch: an error of terminate() is swallowed. *)
CreateUndo(c) ==
    /\ At(c, "undo")
    /\ Goto(c, "fail")
    /\ \/ sandbox' = [sandbox EXCEPT ![c] = "gone"] /\ UNCHANGED faults
       \/ Fault /\ UNCHANGED sandbox
    /\ UNCHANGED <<row, slot>>

CreateFail(c) ==
    /\ At(c, "fail")
    /\ \/ transition("terminated", NoSandbox, {"provisioning"}) /\ UNCHANGED faults
       \/ Fault /\ UNCHANGED row
    /\ Goto(c, "release")
    /\ UNCHANGED <<slot, sandbox>>

(* Mutant: trusting that onAllocated has bound the provider id. *)
CreateStartUnbound(c) ==
    /\ At(c, "start")
    /\ transition("started", NoSandbox, Statuses)
    /\ Goto(c, "confirm")
    /\ UNCHANGED <<slot, sandbox, faults>>

CreateStart(c) ==
    /\ At(c, "start")
    /\ \/ transition("started", c, Statuses) /\ Goto(c, "confirm") /\ UNCHANGED faults
       \/ Fault /\ Goto(c, "kill") /\ UNCHANGED row
    /\ UNCHANGED <<slot, sandbox>>

(* getStatus, then the Git bootstrap inside the sandbox. *)
CreateConfirm(c) ==
    /\ At(c, "confirm")
    /\ \/ sandbox[c] = "ready" /\ Goto(c, "finish")
       \/ Goto(c, "kill")
    /\ UNCHANGED <<row, slot, sandbox, faults>>

(* The ready row, then the cost recording; a failure is compensated. *)
CreateFinish(c) ==
    /\ At(c, "finish")
    /\ \/ transition("ready", NoSandbox, Statuses) /\ Answer(c) /\ UNCHANGED faults
       \/ /\ Fault
          /\ transition("ready", NoSandbox, Statuses) \/ UNCHANGED row
          /\ Goto(c, "kill")
    /\ UNCHANGED <<slot, sandbox>>

(* Mutant: a compensation that does not mark the row. *)
CreateCompensateUnmarked(c) ==
    /\ At(c, "kill")
    /\ sandbox' = [sandbox EXCEPT ![c] = "gone"]
    /\ Goto(c, "release")
    /\ UNCHANGED <<row, slot, faults>>

CreateCompensate(c) ==
    /\ At(c, "kill")
    /\ sandbox' = [sandbox EXCEPT ![c] = "gone"]
    /\ Goto(c, "mark")
    /\ UNCHANGED <<row, slot, faults>>

CreateStep(c) ==
    \/ CreateClaim(c) \/ CreatePoll(c) \/ CreateAdmit(c) \/ CreateAdmitThrows(c)
    \/ CreateRefuse(c) \/ CreateProvision(c) \/ CreateAllocate(c) \/ CreateBind(c) \/ CreateBoot(c)
    \/ CreateUndo(c) \/ CreateFail(c) \/ CreateStart(c) \/ CreateConfirm(c)
    \/ CreateFinish(c) \/ CreateCompensate(c) \/ KillFails(c)
    \/ Mark(c, c, Statuses) \/ MarkFails(c) \/ Release(c)

(***************************************************************************)
(* POST /internal/workspaces/:workspaceId/attach.                          *)
(***************************************************************************)
AttachRead(a) ==
    /\ At(a, "idle")
    /\ MayStart
    /\ row.attachment
    /\ Read(a, CASE row.provider = NoSandbox -> "mark"
                 [] row.provider # NoSandbox /\ row.status = "terminated" -> "killOnly"
                 [] OTHER -> "attach")
    /\ UNCHANGED <<row, slot, sandbox, faults>>

(* attachWorkspace and getStatus: ready, absent, not ready in time, or (a  *)
(* provider error) with the tags of another workspace.                     *)
AttachProvider(a) ==
    LET state == sandbox[handler[a].saw.provider] IN
    /\ At(a, "attach")
    /\ \/ state = "ready" /\ Goto(a, "advance") /\ UNCHANGED faults
       \/ state = "gone" /\ Goto(a, "mark") /\ UNCHANGED faults
       \/ state # "gone" /\ Goto(a, "kill") /\ UNCHANGED faults
       \/ state # "gone" /\ Fault /\ Goto(a, "mark")
       \/ Fault /\ Answer(a)
    /\ UNCHANGED <<row, slot, sandbox>>

progression == [requested |-> "provisioning", provisioning |-> "started", started |-> "ready"]

(* One turn of the loop: a compare-and-set whose result is the new row. *)
AttachAdvance(a) ==
    LET seen == handler[a].saw.status IN
    /\ At(a, "advance")
    /\ IF seen \in DOMAIN progression
       THEN /\ transition(progression[seen], NoSandbox, {seen})
            /\ handler' = [handler EXCEPT ![a].saw = View']
       ELSE /\ Answer(a)
            /\ UNCHANGED row
    /\ UNCHANGED <<slot, sandbox, faults>>

AttachStep(a) ==
    \/ AttachRead(a) \/ AttachProvider(a) \/ AttachAdvance(a)
    \/ Kill(a, "killOnly", "idle") \/ Kill(a, "kill", "mark") \/ KillFails(a)
    \/ Mark(a, NoSandbox, Statuses) \/ MarkFails(a) \/ Release(a)

(***************************************************************************)
(* POST /internal/workspaces/:workspaceId/terminate, and the termination   *)
(* of a deleted project's workspaces, which also stops the sandbox of a    *)
(* row that is already terminated.                                         *)
(***************************************************************************)
TerminateRead(t) ==
    /\ At(t, "idle")
    /\ MayStart
    /\ row.status # "absent"
    /\ Read(t, CASE row.status = "terminated" -> "release"
                 [] row.status # "terminated" /\ row.provider = NoSandbox -> "mark"
                 [] OTHER -> "kill")
    /\ UNCHANGED <<row, slot, sandbox, faults>>

terminateProjectWorkspace(t) ==
    /\ At(t, "idle")
    /\ MayStart
    /\ row.status = "terminated"
    /\ row.provider # NoSandbox
    /\ Read(t, "kill")
    /\ UNCHANGED <<row, slot, sandbox, faults>>

TerminateStep(t) ==
    \/ TerminateRead(t) \/ terminateProjectWorkspace(t)
    \/ handler[t].saw.status # "terminated" /\ Kill(t, "kill", "mark")
    \/ handler[t].saw.status = "terminated" /\ Kill(t, "kill", "release")
    \/ KillFails(t) \/ Mark(t, NoSandbox, Statuses) \/ MarkFails(t) \/ Release(t)

(***************************************************************************)
(* The governor: a pass that found the slot held (its deadline over, or    *)
(* its organization killed) runs terminateCandidate, then frees the slot.  *)
(***************************************************************************)
(* Mutant: the slot is freed before the candidate is terminated. *)
GovernorPickReleases(g) ==
    /\ At(g, "idle")
    /\ MayStart
    /\ slot = "held"
    /\ release
    /\ Goto(g, "candidate")
    /\ UNCHANGED <<row, sandbox, faults>>

GovernorPick(g) ==
    /\ At(g, "idle")
    /\ MayStart
    /\ slot = "held"
    /\ Goto(g, "candidate")
    /\ UNCHANGED <<row, slot, sandbox, faults>>

(* Mutant: nothing to terminate ends the pass without freeing the slot. *)
terminateCandidateSkips(g) ==
    /\ At(g, "candidate")
    /\ IF row.provider = NoSandbox \/ row.status = "terminated"
       THEN Answer(g)
       ELSE Read(g, "kill")
    /\ UNCHANGED <<row, slot, sandbox, faults>>

terminateCandidate(g) ==
    /\ At(g, "candidate")
    /\ Read(g, IF row.provider = NoSandbox \/ row.status = "terminated"
               THEN "release"
               ELSE "kill")
    /\ UNCHANGED <<row, slot, sandbox, faults>>

GovernorStep(g) ==
    \/ GovernorPick(g) \/ terminateCandidate(g) \/ Kill(g, "kill", "mark") \/ KillFails(g)
    \/ Mark(g, NoSandbox, {handler[g].saw.status}) \/ MarkFails(g) \/ Release(g)

(***************************************************************************)
(* The attachment loop: a listed row whose sandbox is gone is terminated.  *)
(***************************************************************************)
Listed == row.status = "ready" /\ ~row.terminatedAt /\ row.provider # NoSandbox

LoopList(l) ==
    /\ At(l, "idle")
    /\ Listed
    /\ Read(l, "status")
    /\ UNCHANGED <<row, slot, sandbox, faults>>

LoopStatus(l) ==
    /\ At(l, "status")
    /\ IF sandbox[handler[l].saw.provider] = "gone" THEN Goto(l, "mark") ELSE Answer(l)
    /\ UNCHANGED <<row, slot, sandbox, faults>>

(* Mutant: the compare-and-set expects the wrong status. *)
LoopMarkMisses(l) ==
    /\ At(l, "mark")
    /\ transition("terminated", NoSandbox, {"started"})
    /\ Answer(l)
    /\ UNCHANGED <<slot, sandbox, faults>>

LoopMark(l) ==
    /\ At(l, "mark")
    /\ \/ transition("terminated", NoSandbox, {handler[l].saw.status}) /\ UNCHANGED faults
       \/ Fault /\ UNCHANGED row
    /\ Answer(l)
    /\ UNCHANGED <<slot, sandbox>>

LoopStep(l) == LoopList(l) \/ LoopStatus(l) \/ LoopMark(l)

(***************************************************************************)
(* The environment: a sandbox's agent answers, a sandbox ends by itself,   *)
(* the process of a handler dies.                                          *)
(***************************************************************************)
SandboxReady(c) ==
    /\ sandbox[c] = "up"
    /\ sandbox' = [sandbox EXCEPT ![c] = "ready"]
    /\ UNCHANGED <<row, slot, handler, faults>>

SandboxEnds(c) ==
    /\ sandbox[c] \in {"up", "ready"}
    /\ sandbox' = [sandbox EXCEPT ![c] = "gone"]
    /\ UNCHANGED <<row, slot, handler, faults>>

Crash(h) ==
    /\ ~At(h, "idle")
    /\ Fault
    /\ Answer(h)
    /\ UNCHANGED <<row, slot, sandbox>>

Init ==
    /\ row \in {NoRow, [NoRow EXCEPT !.status = "requested"]}
    /\ slot = "none"
    /\ sandbox = [c \in Creates |-> "none"]
    /\ handler = [h \in Handlers |-> Idle]
    /\ faults = 0

Next ==
    \/ \E c \in Creates : CreateStep(c) \/ LateTerminate(c) \/ SandboxReady(c) \/ SandboxEnds(c)
    \/ \E a \in Attaches : AttachStep(a)
    \/ \E t \in Terminations : TerminateStep(t)
    \/ \E g \in Governors : GovernorStep(g)
    \/ \E l \in Loops : LoopStep(l)
    \/ \E h \in Handlers : Crash(h)

Spec == Init /\ [][Next]_vars

(* A create that has claimed the row is carried on by the event loop;      *)
(* passes of the governor and of the attachment loop are begun by their    *)
(* timers and carried on.  No other request has to go on, and no sandbox   *)
(* has to become ready.                                                    *)
Fairness ==
    /\ \A c \in Creates : WF_vars(handler[c].created /\ CreateStep(c))
    /\ \A g \in Governors : WF_vars(GovernorStep(g))
    /\ \A l \in Loops : WF_vars(LoopStep(l))

FairSpec == Spec /\ Fairness

----------------------------------------------------------------------------
(* The row, the slot, the sandboxes and the handlers stay in their types:  *)
(* in particular no handler walks the row to a status these routes do not  *)
(* know.                                                                   *)
LifecycleTypeOK ==
    /\ row \in Rows
    /\ slot \in Slots
    /\ sandbox \in [Creates -> SandboxStates]
    /\ handler \in [Handlers -> HandlerStates]
    /\ faults \in 0..MaxFaults

(* Repeated create requests never allocate a second sandbox: claimCreate   *)
(* lets one of them through, whatever becomes of it.                       *)
OneSandbox ==
    \A c, d \in Creates : sandbox[c] # "none" /\ sandbox[d] # "none" => c = d

(* A started or ready row names its sandbox, although bindProviderWorkspaceId *)
(* silently does nothing when another handler has moved the row on.        *)
StartedIsBound == row.status \in {"started", "ready"} => row.provider # NoSandbox

(* The id a row names is never replaced by another, although start and the *)
(* compensation of a create write theirs whatever the row says.            *)
ProviderIsKept == [][row.provider # NoSandbox => row'.provider = row.provider]_vars

(* Without a crash or an error no create ends with a sandbox that runs and *)
(* that the row does not name, so that a later request still finds it.     *)
OrphansNeedAFault ==
    \A c \in Creates : Live(c) /\ ~handler[c].created /\ faults = 0 => row.provider = c

(* While nothing has failed, a sandbox that runs is counted: its slot is   *)
(* freed only after the provider has confirmed its absence.                *)
SandboxHasSlot == faults = 0 => \A c \in Creates : Live(c) => slot = "held"

(* While nothing has failed, a terminated row has no sandbox running.      *)
TerminatedIsAbsent ==
    faults = 0 /\ row.status = "terminated" => \A c \in Creates : ~Live(c)

(* When a create that failed gives its slot back, the row is not ready: it *)
(* takes two errors (the cost recording after the ready row, and then the  *)
(* update that marks the row terminated) to leave it so.                   *)
FailedCreateNeverReady ==
    faults <= 1 =>
        \A c \in Creates : handler[c].created /\ At(c, "release") => row.status # "ready"

(* A ready row whose sandbox has ended is eventually marked terminated:    *)
(* the attachment loop lists it and sees that the sandbox is gone.         *)
GoneRowNoticed ==
    (row.status = "ready" /\ sandbox[row.provider] = "gone") ~> row.status = "terminated"

(* Every slot that was taken is eventually freed, by a handler or, after   *)
(* crashes and errors, by the governor at the deadline.                    *)
SlotReturned == slot = "held" ~> slot = "freed"
=============================================================================
