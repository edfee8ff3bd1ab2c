---------------------------- MODULE UsageOutbox ----------------------------
(***************************************************************************)
(* Usage metering of the control API: ledger rows enter a transactional    *)
(* outbox, publishers count them in Redis and send them to SQS, consumers  *)
(* hand them to Flexprice and mark them delivered.  Publishers of several  *)
(* replicas, redelivered messages and rolled-back transactions interleave. *)
(***************************************************************************)
EXTENDS Naturals, FiniteSets

CONSTANTS
    Rows,           \* usage rows, by operation key
    Publishers,     \* one outbox poller per replica
    Consumers,      \* one queue poller per replica
    NoOne,          \* no publisher holds the row lock
    NoMessage,      \* the consumer has no message
    BatchSize,      \* rows of one publishOnce
    MaxFaults       \* bound on crashes, restarts and errors

ASSUME OutboxAssumption ==
    /\ NoOne \notin Publishers
    /\ NoMessage \notin Rows \X Nat
    /\ BatchSize \in Nat \ {0}
    /\ MaxFaults \in Nat

(* A row is sent once and once more for each fault at most. *)
Messages == Rows \X (0..MaxFaults)

VARIABLES
    outbox,     \* committed usage_outbox.status of each row, "none" before it
    lockedBy,   \* the publisher whose transaction holds the row
    life,       \* the lifecycle of each publisher's process
    call,       \* the publishOnce in flight: "flush" is start()'s, "poll" the timer's
    todo,       \* rows selected by the publisher's transaction and not handled yet
    sent,       \* rows the transaction has set to published, not committed
    counting,   \* counting[p]: rows counted and not yet sent (one at most)
    marker,     \* marker[r]: the Redis key of the row's count exists
    counter,    \* counter[r]: what the row has added to its run's counter
    queue,      \* the state of each message in SQS
    step,       \* where each consumer is
    held,       \* the message each consumer works on
    ingested,   \* rows Flexprice has accepted
    faults

publishing == <<lockedBy, life, call, todo, sent, counting>>
counts == <<marker, counter>>
consuming == <<step, held>>
vars == <<outbox, publishing, counts, queue, consuming, ingested, faults>>

Fault == faults < MaxFaults /\ faults' = faults + 1

Calling(p) == call[p] # "no"

MessagesOf(r) == {r} \X (0..MaxFaults)

(***************************************************************************)
(* recordUsage: the ledger row and its outbox row in one transaction; a    *)
(* repeated operation key finds both.                                      *)
(***************************************************************************)
recordUsage(r) ==
    /\ outbox[r] = "none"
    /\ outbox' = [outbox EXCEPT ![r] = "pending"]
    /\ UNCHANGED <<publishing, counts, queue, consuming, ingested, faults>>

(***************************************************************************)
(* publishOnce.  Rows in backoff are the ones a selection leaves out.      *)
(***************************************************************************)
Selectable == {r \in Rows : outbox[r] = "pending" /\ lockedBy[r] = NoOne}

Begin(p, kind, batch) ==
    /\ call[p] = "no"
    /\ Cardinality(batch) <= BatchSize
    /\ call' = [call EXCEPT ![p] = kind]
    /\ todo' = [todo EXCEPT ![p] = batch]
    /\ lockedBy' = [r \in Rows |-> IF r \in batch THEN p ELSE lockedBy[r]]
    /\ UNCHANGED <<outbox, sent, counting, counts, queue, consuming, ingested, faults>>

Start(p) ==
    /\ life[p] = "down"
    /\ life' = [life EXCEPT ![p] = "starting"]
    /\ \E batch \in SUBSET Selectable : Begin(p, "flush", batch)

Poll(p, batch) ==
    /\ life[p] = "running"
    /\ batch # {}
    /\ Begin(p, "poll", batch)
    /\ UNCHANGED life

(* Mutant: the marker alone, as when the script fails after its first command. *)
ApplyMarkerOnly(r) ==
    /\ marker' = [marker EXCEPT ![r] = TRUE]
    /\ UNCHANGED counter

(* The Lua script of the counter: the marker and the sum in one step. *)
ApplyCounter(r) ==
    /\ marker' = [marker EXCEPT ![r] = TRUE]
    /\ counter' = [counter EXCEPT ![r] = IF marker[r] THEN @ ELSE @ + 1]

PublishCount(p, r) ==
    /\ Calling(p)
    /\ counting[p] = {}
    /\ r \in todo[p]
    /\ ApplyCounter(r)
    /\ counting' = [counting EXCEPT ![p] = {r}]
    /\ UNCHANGED <<outbox, lockedBy, life, call, todo, sent, queue, consuming, ingested, faults>>

Send(r) ==
    \E m \in MessagesOf(r) : queue[m] = "none" /\ queue' = [queue EXCEPT ![m] = "visible"]

PublishSend(p, r) ==
    /\ Calling(p)
    /\ r \in counting[p]
    /\ Send(r)
    /\ sent' = [sent EXCEPT ![p] = @ \cup {r}]
    /\ todo' = [todo EXCEPT ![p] = @ \ {r}]
    /\ counting' = [counting EXCEPT ![p] = {}]
    /\ UNCHANGED <<outbox, lockedBy, life, call, counts, consuming, ingested, faults>>

(* An error of Redis or of the queue, which may still have the message:    *)
(* the row stays pending, with its backoff.                                *)
PublishRowFails(p, r) ==
    /\ Calling(p)
    /\ r \in todo[p]
    /\ counting[p] \subseteq {r}
    /\ Fault
    /\ UNCHANGED queue \/ (r \in counting[p] /\ Send(r))
    /\ todo' = [todo EXCEPT ![p] = @ \ {r}]
    /\ counting' = [counting EXCEPT ![p] = {}]
    /\ UNCHANGED <<outbox, lockedBy, life, call, sent, counts, consuming, ingested>>

Unlock(p) == lockedBy' = [r \in Rows |-> IF lockedBy[r] = p THEN NoOne ELSE lockedBy[r]]

(* The call returns or throws: its transaction is over. *)
EndCall(p) ==
    /\ Unlock(p)
    /\ call' = [call EXCEPT ![p] = "no"]
    /\ todo' = [todo EXCEPT ![p] = {}]
    /\ sent' = [sent EXCEPT ![p] = {}]
    /\ counting' = [counting EXCEPT ![p] = {}]

PublishCommit(p) ==
    /\ Calling(p)
    /\ todo[p] = {}
    /\ outbox' = [r \in Rows |-> IF r \in sent[p] THEN "published" ELSE outbox[r]]
    /\ EndCall(p)
    /\ life' = [life EXCEPT ![p] = IF @ = "starting" THEN "running" ELSE @]
    /\ UNCHANGED <<counts, queue, consuming, ingested, faults>>

(* An error of the database rolls back every row of the batch; start()     *)
(* lets it through and the process does not come up.                       *)
PublishAbort(p) ==
    /\ Calling(p)
    /\ Fault
    /\ EndCall(p)
    /\ life' = [life EXCEPT ![p] = IF @ = "starting" THEN "down" ELSE @]
    /\ UNCHANGED <<outbox, counts, queue, consuming, ingested>>

(* close() waits for the poll in flight, then the process exits; a flush   *)
(* of start() is not waited for, and its transaction ends with the process. *)
Close(p) ==
    /\ life[p] \in {"starting", "running"}
    /\ Fault
    /\ life' = [life EXCEPT ![p] = "closing"]
    /\ UNCHANGED <<outbox, lockedBy, call, todo, sent, counting, counts, queue, consuming, ingested>>

Drained(p) == call[p] # "poll"

Exit(p) ==
    /\ life[p] = "closing"
    /\ Drained(p)
    /\ life' = [life EXCEPT ![p] = "down"]
    /\ EndCall(p)
    /\ UNCHANGED <<outbox, counts, queue, consuming, ingested, faults>>

Crash(p) ==
    /\ life[p] # "down"
    /\ Fault
    /\ life' = [life EXCEPT ![p] = "down"]
    /\ EndCall(p)
    /\ UNCHANGED <<outbox, counts, queue, consuming, ingested>>

(***************************************************************************)
(* The queue consumer: receive, ingest, mark delivered, delete.            *)
(***************************************************************************)
Stop(c) ==
    /\ step' = [step EXCEPT ![c] = "idle"]
    /\ held' = [held EXCEPT ![c] = NoMessage]

Continue(c, next) ==
    /\ step' = [step EXCEPT ![c] = next]
    /\ UNCHANGED held

Receive(c, m) ==
    /\ step[c] = "idle"
    /\ queue[m] = "visible"
    /\ queue' = [queue EXCEPT ![m] = "hidden"]
    /\ step' = [step EXCEPT ![c] = "ingest"]
    /\ held' = [held EXCEPT ![c] = m]
    /\ UNCHANGED <<outbox, publishing, counts, ingested, faults>>

Ingest(c) ==
    /\ step[c] = "ingest"
    /\ ingested' = ingested \cup {held[c][1]}
    /\ Continue(c, "mark")
    /\ UNCHANGED <<outbox, publishing, counts, queue, faults>>

(* Flexprice refuses or cannot be reached; it may still have the event. *)
IngestFails(c) ==
    /\ step[c] = "ingest"
    /\ Fault
    /\ ingested' \in {ingested, ingested \cup {held[c][1]}}
    /\ Stop(c)
    /\ UNCHANGED <<outbox, publishing, counts, queue>>

(* Mutant: a row that is not published yet is skipped without an error. *)
markDeliveredLenient(c) ==
    LET r == held[c][1] IN
    /\ step[c] = "mark"
    /\ outbox' = [outbox EXCEPT ![r] = IF @ = "published" THEN "delivered" ELSE @]
    /\ Continue(c, "delete")
    /\ UNCHANGED <<publishing, counts, queue, ingested, faults>>

(* markDelivered throws for a row whose publication is not committed. *)
markDelivered(c) ==
    LET r == held[c][1] IN
    /\ step[c] = "mark"
    /\ IF outbox[r] \in {"published", "delivered"}
       THEN /\ outbox' = [outbox EXCEPT ![r] = "delivered"]
            /\ Continue(c, "delete")
       ELSE /\ Stop(c)
            /\ UNCHANGED outbox
    /\ UNCHANGED <<publishing, counts, queue, ingested, faults>>

Delete(c) ==
    /\ step[c] = "delete"
    /\ queue' = [queue EXCEPT ![held[c]] = "deleted"]
    /\ Stop(c)
    /\ UNCHANGED <<outbox, publishing, counts, ingested, faults>>

(* An error or a crash at any point: the message is left in the queue. *)
ConsumerFails(c) ==
    /\ step[c] # "idle"
    /\ Fault
    /\ Stop(c)
    /\ UNCHANGED <<outbox, publishing, counts, queue, ingested>>

(* SQS shows a message again when its visibility timeout is over, be it    *)
(* that its consumer gave up or that it is slow.                           *)
Reappear(m) ==
    /\ queue[m] = "hidden"
    /\ queue' = [queue EXCEPT ![m] = "visible"]
    /\ UNCHANGED <<outbox, publishing, counts, step, held, ingested, faults>>

PublisherStep(p) ==
    \/ \E r \in Rows : PublishCount(p, r) \/ PublishSend(p, r)
    \/ PublishCommit(p)
    \/ Exit(p)

ConsumerStep(c) == Ingest(c) \/ markDelivered(c) \/ Delete(c)

Init ==
    /\ outbox = [r \in Rows |-> "none"]
    /\ lockedBy = [r \in Rows |-> NoOne]
    /\ life = [p \in Publishers |-> "down"]
    /\ call = [p \in Publishers |-> "no"]
    /\ todo = [p \in Publishers |-> {}]
    /\ sent = [p \in Publishers |-> {}]
    /\ counting = [p \in Publishers |-> {}]
    /\ marker = [r \in Rows |-> FALSE]
    /\ counter = [r \in Rows |-> 0]
    /\ queue = [m \in Messages |-> "none"]
    /\ step = [c \in Consumers |-> "idle"]
    /\ held = [c \in Consumers |-> NoMessage]
    /\ ingested = {}
    /\ faults = 0

Next ==
    \/ \E r \in Rows : recordUsage(r)
    \/ \E p \in Publishers :
          \/ PublisherStep(p) \/ Start(p) \/ PublishAbort(p) \/ Close(p) \/ Crash(p)
          \/ \E batch \in SUBSET Selectable : Poll(p, batch)
          \/ \E r \in Rows : PublishRowFails(p, r)
    \/ \E c \in Consumers :
          \/ ConsumerStep(c) \/ IngestFails(c) \/ ConsumerFails(c)
          \/ \E m \in Messages : Receive(c, m)
    \/ \E m \in Messages : Reappear(m)

Spec == Init /\ [][Next]_vars

(* Processes are started, their timers fire and their calls go on.  A row  *)
(* is due again and again (its backoff is 32 s at most, and the oldest due *)
(* rows come first), and so is a message that stays in the queue.          *)
Fairness ==
    /\ \A p \in Publishers : WF_vars(Start(p)) /\ WF_vars(PublisherStep(p))
    /\ \A r \in Rows :
          SF_vars(\E p \in Publishers, batch \in SUBSET Selectable : r \in batch /\ Poll(p, batch))
    /\ \A c \in Consumers : WF_vars(ConsumerStep(c))
    /\ \A m \in Messages : WF_vars(Reappear(m)) /\ SF_vars(\E c \in Consumers : Receive(c, m))

FairSpec == Spec /\ Fairness

----------------------------------------------------------------------------
(* The rows, the transactions, the queue and the pollers have their types; *)
(* in particular a row adds to its counter once at most.                   *)
OutboxTypeOK ==
    /\ outbox \in [Rows -> {"none", "pending", "published", "delivered"}]
    /\ lockedBy \in [Rows -> Publishers \cup {NoOne}]
    /\ life \in [Publishers -> {"down", "starting", "running", "closing"}]
    /\ call \in [Publishers -> {"no", "flush", "poll"}]
    /\ todo \in [Publishers -> SUBSET Rows]
    /\ sent \in [Publishers -> SUBSET Rows]
    /\ counting \in [Publishers -> SUBSET Rows]
    /\ marker \in [Rows -> BOOLEAN]
    /\ counter \in [Rows -> 0..1]
    /\ queue \in [Messages -> {"none", "visible", "hidden", "deleted"}]
    /\ step \in [Consumers -> {"idle", "ingest", "mark", "delete"}]
    /\ held \in [Consumers -> Messages \cup {NoMessage}]
    /\ ingested \in SUBSET Rows
    /\ faults \in 0..MaxFaults

(* A published row has a message in the queue until it is delivered: no    *)
(* order of sends, rollbacks, redeliveries and deletes loses the event.    *)
PublishedNotLost ==
    \A r \in Rows : outbox[r] = "published" =>
        \E m \in MessagesOf(r) : queue[m] \in {"visible", "hidden"}

(* A row is marked delivered only after Flexprice has accepted its event.  *)
DeliveredWasIngested == \A r \in Rows : outbox[r] = "delivered" => r \in ingested

(* Whatever Flexprice has, the run's counter contains exactly once.        *)
IngestedCountedOnce == \A r \in ingested : counter[r] = 1

(* An outbox row never goes back: a rolled-back or repeated publication    *)
(* does not reopen a row that was published or delivered.                  *)
OutboxForward ==
    [][\A r \in Rows :
          /\ outbox[r] = "delivered" => outbox'[r] = "delivered"
          /\ outbox[r] = "published" => outbox'[r] # "pending"]_vars

(* Every recorded usage row is eventually delivered.                       *)
EventuallyDelivered == \A r \in Rows : outbox[r] = "pending" ~> outbox[r] = "delivered"

(* A process that closes cleanly exits only when no publication of its own *)
(* is in flight.                                                           *)
DrainedOnExit ==
    [][\A p \in Publishers : life[p] = "closing" /\ life'[p] = "down" => call[p] = "no" \/ faults' # faults]_vars
=============================================================================
