---------------------------- MODULE CostRecorder ----------------------------
(***************************************************************************)
(* Metering of one workspace by the sandbox service.  Every replica keeps  *)
(* a recording of it: an interval samples the sandbox and adds what passed *)
(* since the previous sample to one durable state; the termination route   *)
(* finalizes the state, delivers one ledger row per category and only then *)
(* ends the sandbox.  Replicas, routes, the governor, failing calls and    *)
(* crashes interleave.                                                     *)
(***************************************************************************)
EXTENDS Integers

CONSTANTS
    Replicas,       \* processes of the sandbox service
    CpuRequested,   \* CPU requested by the profile, per unit of time
    MemRequested,   \* memory requested by the profile
    Rss,            \* memory an answered sample reports
    Burst,          \* CPU a busy sandbox uses per unit of time
    NoRow,          \* the ledger has no row of the category
    MaxTime,        \* bound on the clock
    MaxFaults       \* bound on crashes and failing calls

ASSUME CostAssumption ==
    /\ CpuRequested \in Nat
    /\ MemRequested \in Nat
    /\ Rss \in Nat
    /\ Burst \in Nat
    /\ NoRow \notin Nat
    /\ MaxTime \in Nat
    /\ MaxFaults \in Nat

Categories == {"cpu", "mem"}

VARIABLES
    clock,      \* the time the replicas read
    used,       \* the CPU counter of the sandbox
    sandbox,    \* "running" or "gone"
    row,        \* "ready", "ended" by a route, "killed" by the governor
    phase,      \* the durable recording state: "absent", "open" or "final"
    last,       \* lastSampleAtMs
    lastCpu,    \* lastCpuMicros
    total,      \* total[c]: cpuSeconds and memoryGibSeconds
    done,       \* the categories marked delivered
    ledger,     \* ledger[c]: the quantity of the row of the control plane
    recording,  \* recording[r]: the recording in the map of the replica
    job,        \* job[r]: the sampling under way
    step,       \* step[r]: where it is
    seen,       \* seen[r]: the metrics it works with
    at,         \* at[r]: the time it has taken
    delivery,   \* delivery[r]: where deliverFinalized is
    item,       \* item[r]: the category it is at
    rows,       \* rows[r]: the ledger rows it has made
    route,      \* route[r]: where the termination is
    began,      \* history: the earliest time sampled
    firstCpu,   \* history: the counter of the first sample
    disorder,   \* history: a sample older than the state, or an empty one, was applied
    faults

usage == <<phase, last, lastCpu, total, began, firstCpu, disorder>>
sampling == <<job, step, seen, at>>
delivering == <<delivery, item, rows>>
world == <<clock, used, sandbox>>
vars == <<world, row, usage, done, ledger, recording, sampling, delivering, route, faults>>

Fault == faults < MaxFaults /\ faults' = faults + 1

Greater(a, b) == IF a > b THEN a ELSE b

Lesser(a, b) == IF a < b THEN a ELSE b

Zero == [c \in Categories |-> 0]

Empty == [cpu |-> 0, rss |-> 0]

(***************************************************************************)
(* The durable state: mutate runs its transform under the lock of the row. *)
(***************************************************************************)
Elapsed(r) == Greater(0, at[r] - last)

Create(r, finalize) ==
    /\ phase = "absent"
    /\ phase' = IF finalize THEN "final" ELSE "open"
    /\ last' = at[r]
    /\ lastCpu' = seen[r].cpu
    /\ total' = Zero
    /\ began' = at[r]
    /\ firstCpu' = seen[r].cpu
    /\ UNCHANGED disorder

(* Mutant: only what was observed is added. *)
AccumulateObserved(r, finalize) ==
    /\ phase = "open"
    /\ phase' = IF finalize THEN "final" ELSE "open"
    /\ last' = at[r]
    /\ lastCpu' = seen[r].cpu
    /\ total' = [total EXCEPT !["cpu"] = @ + Greater(0, seen[r].cpu - lastCpu),
                              !["mem"] = @ + Rss * Elapsed(r)]
    /\ disorder' = (disorder \/ at[r] < last \/ seen[r].cpu < lastCpu)
    /\ began' = Lesser(began, at[r])
    /\ UNCHANGED firstCpu

(* Mutant: the counter is added, not its increase. *)
AccumulateCounter(r, finalize) ==
    /\ phase = "open"
    /\ phase' = IF finalize THEN "final" ELSE "open"
    /\ last' = at[r]
    /\ lastCpu' = seen[r].cpu
    /\ total' = [total EXCEPT !["cpu"] = @ + Greater(CpuRequested * Elapsed(r), seen[r].cpu),
                              !["mem"] = @ + Greater(MemRequested, seen[r].rss) * Elapsed(r)]
    /\ disorder' = (disorder \/ at[r] < last \/ seen[r].cpu < lastCpu)
    /\ began' = Lesser(began, at[r])
    /\ UNCHANGED firstCpu

(* The greater of what was requested and what was observed is added.       *)
Accumulate(r, finalize) ==
    /\ phase = "open"
    /\ phase' = IF finalize THEN "final" ELSE "open"
    /\ last' = at[r]
    /\ lastCpu' = seen[r].cpu
    /\ total' = [total EXCEPT !["cpu"] = @ + Greater(CpuRequested * Elapsed(r),
                                                     Greater(0, seen[r].cpu - lastCpu)),
                              !["mem"] = @ + Greater(MemRequested, seen[r].rss) * Elapsed(r)]
    /\ disorder' = (disorder \/ at[r] < last \/ seen[r].cpu < lastCpu)
    /\ began' = Lesser(began, at[r])
    /\ UNCHANGED firstCpu

advanceState(r, finalize) ==
    \/ Create(r, finalize)
    \/ Accumulate(r, finalize)
    \/ phase = "final" /\ UNCHANGED usage

finalizeWithRequestedUsage(r) ==
    \/ /\ phase = "open"
       /\ phase' = "final"
       /\ last' = at[r]
       /\ total' = [total EXCEPT !["cpu"] = @ + CpuRequested * Elapsed(r),
                                 !["mem"] = @ + MemRequested * Elapsed(r)]
       /\ disorder' = (disorder \/ at[r] < last)
       /\ began' = Lesser(began, at[r])
       /\ UNCHANGED <<lastCpu, firstCpu>>
    \/ phase = "final" /\ UNCHANGED usage

(***************************************************************************)
(* One sampling of a replica: for start(), for the interval or for the     *)
(* last sample of terminate().  The time is taken when the metrics arrive; *)
(* the mutation then waits for a connection and for the lock of the row.   *)
(***************************************************************************)
JobOver(r) ==
    /\ job' = [job EXCEPT ![r] = "none"]
    /\ step' = [step EXCEPT ![r] = "idle"]
    /\ seen' = [seen EXCEPT ![r] = Empty]
    /\ at' = [at EXCEPT ![r] = 0]

JobBegins(r, kind, first) ==
    /\ step[r] = "idle"
    /\ job' = [job EXCEPT ![r] = kind]
    /\ step' = [step EXCEPT ![r] = first]
    /\ UNCHANGED <<seen, at>>

(* The recording of start() enters the map; a termination that waits for   *)
(* it clears its interval at once.                                         *)
Started(r) ==
    /\ recording' = [recording EXCEPT ![r] = IF route[r] = "ensure" THEN "stopped" ELSE "active"]
    /\ route' = [route EXCEPT ![r] = IF @ = "ensure" THEN "drain" ELSE @]

(* deliverFinalized joins the attempt in flight or begins one. *)
Deliver(r) ==
    /\ delivery' = [delivery EXCEPT ![r] = IF @ = "no" THEN "read" ELSE @]
    /\ UNCHANGED <<item, rows>>

(* ensureCostRecording for a ready row: by the recovery loop, by a route   *)
(* or by a termination that finds no recording.                            *)
Start(r) ==
    /\ recording[r] = "none"
    /\ row = "ready" \/ route[r] = "ensure"
    /\ step[r] = "idle"
    /\ IF phase = "final"
       THEN Started(r) /\ Deliver(r) /\ UNCHANGED sampling
       ELSE JobBegins(r, "start", "sample") /\ UNCHANGED <<recording, route, delivering>>
    /\ UNCHANGED <<world, row, usage, done, ledger, faults>>

(* The interval.  It awaits a delivery it makes.                           *)
Interval(r) ==
    /\ recording[r] = "active"
    /\ JobBegins(r, "interval", IF phase = "final" THEN "deliver" ELSE "sample")
    /\ IF phase = "final" THEN Deliver(r) ELSE UNCHANGED delivering
    /\ UNCHANGED <<world, row, usage, done, ledger, recording, route, faults>>

Sample(r) ==
    /\ step[r] = "sample"
    /\ sandbox = "running"
    /\ seen' = [seen EXCEPT ![r] = [cpu |-> used, rss |-> Rss]]
    /\ at' = [at EXCEPT ![r] = clock]
    /\ step' = [step EXCEPT ![r] = "mutate"]
    /\ UNCHANGED <<world, row, usage, done, ledger, recording, job, delivering, route, faults>>

(* No answer: start() goes on with empty metrics, the interval skips this  *)
(* sample and terminate() finalizes with the requested usage.              *)
NoSample(r) ==
    IF job[r] = "interval"
    THEN JobOver(r)
    ELSE /\ job' = [job EXCEPT ![r] = IF @ = "last" THEN "requested" ELSE @]
         /\ at' = [at EXCEPT ![r] = clock]
         /\ step' = [step EXCEPT ![r] = "mutate"]
         /\ UNCHANGED seen

SampleFails(r) ==
    /\ step[r] = "sample"
    /\ \/ sandbox = "gone" /\ UNCHANGED faults
       \/ sandbox = "running" /\ Fault
    /\ NoSample(r)
    /\ UNCHANGED <<world, row, usage, done, ledger, recording, delivering, route>>

Mutate(r) ==
    \/ job[r] \in {"start", "interval"} /\ advanceState(r, FALSE)
    \/ job[r] = "last" /\ advanceState(r, TRUE)
    \/ job[r] = "requested" /\ finalizeWithRequestedUsage(r)

Mutated(r) ==
    /\ step[r] = "mutate"
    /\ Mutate(r)
    /\ JobOver(r)
    /\ IF job[r] = "start"
       THEN Started(r)
       ELSE /\ route' = [route EXCEPT ![r] = IF @ = "finalize" THEN "deliver" ELSE @]
            /\ UNCHANGED recording
    /\ IF route[r] = "finalize" \/ (job[r] = "start" /\ phase' = "final")
       THEN Deliver(r)
       ELSE UNCHANGED delivering
    /\ UNCHANGED <<world, row, done, ledger, faults>>

(* An error of the database, possibly after the commit: start() and        *)
(* terminate() throw, and so does a route that waits for start().          *)
MutationFails(r) ==
    /\ step[r] = "mutate"
    /\ Fault
    /\ UNCHANGED usage \/ Mutate(r)
    /\ JobOver(r)
    /\ route' = [route EXCEPT ![r] = IF @ \in {"ensure", "finalize"} THEN "idle" ELSE @]
    /\ UNCHANGED <<world, row, done, ledger, recording, delivering>>

(***************************************************************************)
(* deliverFinalized: one row per category, marked after it is accepted.    *)
(***************************************************************************)
(* Mutant: terminate() ignores a delivery that failed. *)
DeliveryEndsSwallowed(r, ok) ==
    /\ delivery' = [delivery EXCEPT ![r] = "no"]
    /\ item' = [item EXCEPT ![r] = "cpu"]
    /\ rows' = [rows EXCEPT ![r] = Zero]
    /\ IF step[r] = "deliver" THEN JobOver(r) ELSE UNCHANGED sampling
    /\ route' = [route EXCEPT ![r] = IF @ = "deliver" THEN "end" ELSE @]
    /\ recording' = [recording EXCEPT ![r] = IF route[r] = "deliver" THEN "none" ELSE @]

(* The attempt is over; terminate() returns or throws. *)
DeliveryEnds(r, ok) ==
    /\ delivery' = [delivery EXCEPT ![r] = "no"]
    /\ item' = [item EXCEPT ![r] = "cpu"]
    /\ rows' = [rows EXCEPT ![r] = Zero]
    /\ IF step[r] = "deliver" THEN JobOver(r) ELSE UNCHANGED sampling
    /\ route' = [route EXCEPT ![r] = CASE @ = "deliver" /\ ok -> "end"
                                       [] @ = "deliver" /\ ~ok -> "idle"
                                       [] OTHER -> @]
    /\ recording' = [recording EXCEPT ![r] = IF route[r] = "deliver" /\ ok THEN "none" ELSE @]

Remaining(marked) == {c \in Categories : c \notin marked}

(* The next category, CPU before memory, or the end. *)
NextItem(r, marked, made) ==
    IF Remaining(marked) = {}
    THEN DeliveryEnds(r, TRUE)
    ELSE /\ delivery' = [delivery EXCEPT ![r] = "append"]
         /\ item' = [item EXCEPT ![r] = IF "cpu" \in Remaining(marked) THEN "cpu" ELSE "mem"]
         /\ rows' = [rows EXCEPT ![r] = made]
         /\ UNCHANGED <<sampling, route, recording>>

(* Mutant: a recording delivered in part is not taken up again. *)
DeliverReadOnce(r) ==
    /\ delivery[r] = "read"
    /\ phase = "final"
    /\ done \in {{}, Categories}
    /\ NextItem(r, done, total)
    /\ UNCHANGED <<world, row, usage, done, ledger, faults>>

DeliverRead(r) ==
    /\ delivery[r] = "read"
    /\ phase = "final"
    /\ NextItem(r, done, total)
    /\ UNCHANGED <<world, row, usage, done, ledger, faults>>

appendIfAbsent(r) ==
    ledger' = [ledger EXCEPT ![item[r]] = IF @ = NoRow THEN rows[r][item[r]] ELSE @]

(* Mutant: a refused row is logged and treated as accepted. *)
AppendSwallowed(r) ==
    /\ delivery[r] = "append"
    /\ UNCHANGED ledger \/ appendIfAbsent(r)
    /\ delivery' = [delivery EXCEPT ![r] = "mark"]
    /\ UNCHANGED <<world, row, usage, done, recording, sampling, item, rows, route, faults>>

Append(r) ==
    /\ delivery[r] = "append"
    /\ appendIfAbsent(r)
    /\ delivery' = [delivery EXCEPT ![r] = "mark"]
    /\ UNCHANGED <<world, row, usage, done, recording, sampling, item, rows, route, faults>>

markCategoryDelivered(r) == done' = done \cup {item[r]}

Mark(r) ==
    /\ delivery[r] = "mark"
    /\ markCategoryDelivered(r)
    /\ NextItem(r, done \cup {item[r]}, rows[r])
    /\ UNCHANGED <<world, row, usage, ledger, faults>>

(* An error of the store or of the control plane, possibly after the effect. *)
DeliverFails(r) ==
    /\ delivery[r] # "no"
    /\ Fault
    /\ UNCHANGED ledger \/ (delivery[r] = "append" /\ appendIfAbsent(r))
    /\ UNCHANGED done \/ (delivery[r] = "mark" /\ markCategoryDelivered(r))
    /\ DeliveryEnds(r, FALSE)
    /\ UNCHANGED <<world, row, usage>>

(***************************************************************************)
(* The termination routes: the recording first, then the sandbox, then the *)
(* row.                                                                    *)
(***************************************************************************)
(* terminate() of the recording in the map: its interval is cleared. *)
BeginTermination(r) ==
    /\ recording' = [recording EXCEPT ![r] = IF @ = "none" THEN "none" ELSE "stopped"]
    /\ route' = [route EXCEPT ![r] = IF recording[r] = "none" THEN "ensure" ELSE "drain"]

Terminate(r) ==
    /\ route[r] = "idle"
    /\ row = "ready"
    /\ BeginTermination(r)
    /\ UNCHANGED <<world, row, usage, done, ledger, sampling, delivering, faults>>

(* terminateProjectWorkspace also ends the recording a replica still keeps *)
(* of a terminated row.  (For a ready row without one it begins a          *)
(* recording under its own operation key, which the durable state refuses.) *)
TerminateProject(r) ==
    /\ route[r] = "idle"
    /\ recording[r] # "none"
    /\ BeginTermination(r)
    /\ UNCHANGED <<world, row, usage, done, ledger, sampling, delivering, faults>>

(* A sample under way is awaited, then the state is read. *)
Finalize(r) ==
    /\ route[r] = "drain"
    /\ step[r] = "idle"
    /\ IF phase = "final"
       THEN /\ route' = [route EXCEPT ![r] = "deliver"]
            /\ Deliver(r)
            /\ UNCHANGED sampling
       ELSE /\ route' = [route EXCEPT ![r] = "finalize"]
            /\ JobBegins(r, "last", "sample")
            /\ UNCHANGED delivering
    /\ UNCHANGED <<world, row, usage, done, ledger, recording, faults>>

(* The provider confirms that the sandbox is gone, then the row ends. *)
End(r) ==
    /\ route[r] = "end"
    /\ sandbox' = "gone"
    /\ row' = IF row = "ready" THEN "ended" ELSE row
    /\ route' = [route EXCEPT ![r] = "idle"]
    /\ UNCHANGED <<clock, used, usage, done, ledger, recording, sampling, delivering, faults>>

(* A read, the provider or the row update fails; the sandbox may be gone. *)
RouteFails(r) ==
    /\ route[r] \in {"drain", "end"}
    /\ Fault
    /\ sandbox' \in {sandbox} \cup (IF route[r] = "end" THEN {"gone"} ELSE {})
    /\ route' = [route EXCEPT ![r] = "idle"]
    /\ UNCHANGED <<clock, used, row, usage, done, ledger, recording, sampling, delivering>>

(***************************************************************************)
(* The process and its surroundings.                                       *)
(***************************************************************************)
(* A crash or a restart.  A failing read of the interval is one too: the   *)
(* callback rejects, nobody handles it and the process ends.               *)
Crash(r) ==
    /\ Fault
    /\ recording' = [recording EXCEPT ![r] = "none"]
    /\ JobOver(r)
    /\ delivery' = [delivery EXCEPT ![r] = "no"]
    /\ item' = [item EXCEPT ![r] = "cpu"]
    /\ rows' = [rows EXCEPT ![r] = Zero]
    /\ route' = [route EXCEPT ![r] = "idle"]
    /\ UNCHANGED <<world, row, usage, done, ledger>>

(* The governor or the provider ends the sandbox, and the governor its row. *)
SandboxEnds ==
    /\ sandbox = "running"
    /\ sandbox' = "gone"
    /\ UNCHANGED <<clock, used, row, usage, done, ledger, recording, sampling, delivering, route, faults>>

GovernorEnds ==
    /\ row = "ready"
    /\ sandbox = "gone"
    /\ row' = "killed"
    /\ UNCHANGED <<world, usage, done, ledger, recording, sampling, delivering, route, faults>>

Tick ==
    /\ clock < MaxTime
    /\ clock' = clock + 1
    /\ used' \in {used, used + Burst}
    /\ sandbox = "running" \/ used' = used
    /\ UNCHANGED <<sandbox, row, usage, done, ledger, recording, sampling, delivering, route, faults>>

ReplicaStep(r) ==
    \/ Start(r) \/ Sample(r) \/ Mutated(r)
    \/ DeliverRead(r) \/ Append(r) \/ Mark(r)
    \/ Finalize(r) \/ End(r)

Init ==
    /\ clock = 0 /\ used = 0 /\ sandbox = "running" /\ row = "ready"
    /\ phase = "absent" /\ last = 0 /\ lastCpu = 0 /\ total = Zero /\ done = {}
    /\ ledger = [c \in Categories |-> NoRow]
    /\ recording = [r \in Replicas |-> "none"]
    /\ job = [r \in Replicas |-> "none"]
    /\ step = [r \in Replicas |-> "idle"]
    /\ seen = [r \in Replicas |-> Empty]
    /\ at = [r \in Replicas |-> 0]
    /\ delivery = [r \in Replicas |-> "no"]
    /\ item = [r \in Replicas |-> "cpu"]
    /\ rows = [r \in Replicas |-> Zero]
    /\ route = [r \in Replicas |-> "idle"]
    /\ began = 0 /\ firstCpu = 0 /\ disorder = FALSE
    /\ faults = 0

Next ==
    \/ \E r \in Replicas :
          \/ ReplicaStep(r) \/ Interval(r) \/ Terminate(r) \/ TerminateProject(r)
          \/ SampleFails(r) \/ MutationFails(r) \/ DeliverFails(r) \/ RouteFails(r) \/ Crash(r)
    \/ SandboxEnds \/ GovernorEnds \/ Tick

Spec == Init /\ [][Next]_vars

(* A replica goes on with what it has begun, and the caller of the         *)
(* termination repeats it until the row is terminated.                     *)
Fairness ==
    /\ \A r \in Replicas : WF_vars(ReplicaStep(r)) /\ WF_vars(SampleFails(r) /\ sandbox = "gone")
    /\ WF_vars(\E r \in Replicas : Terminate(r))

FairSpec == Spec /\ Fairness

----------------------------------------------------------------------------
(* The clock, the durable state, the ledger and the replicas have their    *)
(* types.                                                                  *)
CostTypeOK ==
    /\ clock \in Nat /\ used \in Nat
    /\ sandbox \in {"running", "gone"}
    /\ row \in {"ready", "ended", "killed"}
    /\ phase \in {"absent", "open", "final"}
    /\ last \in Nat /\ lastCpu \in Nat /\ began \in Nat /\ firstCpu \in Nat
    /\ total \in [Categories -> Nat]
    /\ done \in SUBSET Categories
    /\ ledger \in [Categories -> Nat \cup {NoRow}]
    /\ recording \in [Replicas -> {"none", "active", "stopped"}]
    /\ job \in [Replicas -> {"none", "start", "interval", "last", "requested"}]
    /\ step \in [Replicas -> {"idle", "sample", "mutate", "deliver"}]
    /\ seen \in [Replicas -> [cpu : Nat, rss : Nat]]
    /\ at \in [Replicas -> Nat]
    /\ delivery \in [Replicas -> {"no", "read", "append", "mark"}]
    /\ item \in [Replicas -> Categories]
    /\ rows \in [Replicas -> [Categories -> Nat]]
    /\ route \in [Replicas -> {"idle", "ensure", "drain", "finalize", "deliver", "end"}]
    /\ disorder \in BOOLEAN
    /\ faults \in Nat

(* No time goes uncharged: whatever samples failed, overtook each other or *)
(* were lost in a crash, the totals contain the requested usage of all the *)
(* time up to the last sample and every unit of CPU observed by then.      *)
NoGap ==
    phase # "absent" =>
        /\ total["cpu"] >= CpuRequested * (last - began)
        /\ total["mem"] >= MemRequested * (last - began)
        /\ total["cpu"] >= lastCpu - firstCpu

(* Nothing is charged twice while samples are applied in the order they    *)
(* were taken: two replicas that sample the same window add it up once.    *)
ChargedOnce ==
    phase # "absent" /\ ~disorder =>
        /\ total["cpu"] <= CpuRequested * (clock - began) + (used - firstCpu)
        /\ total["mem"] <= Greater(MemRequested, Rss) * (clock - began)

(* A ledger row exists for a finalized recording only and has its total,   *)
(* however many replicas and retries deliver it; a category marked         *)
(* delivered has its row.                                                  *)
LedgerAgrees ==
    /\ \A c \in Categories : ledger[c] # NoRow => phase = "final" /\ ledger[c] = total[c]
    /\ \A c \in done : ledger[c] # NoRow

(* A workspace a route has terminated is charged: no failing delivery,     *)
(* retry or crash ends the row without both ledger rows.                   *)
EndedIsCharged == row = "ended" => \A c \in Categories : ledger[c] # NoRow

(* A finalized recording is charged in the end, unless the governor ends   *)
(* the workspace first.                                                    *)
FinalizedIsCharged ==
    phase = "final" ~> (row = "killed" \/ \A c \in Categories : ledger[c] # NoRow)

(* Two replicas that sample the same window never add it up twice.         *)
NeverDoubleCharged ==
    phase # "absent" => total["mem"] <= Greater(MemRequested, Rss) * (clock - began)
=============================================================================
