------------------------- MODULE UsageOutboxProofs -------------------------
(***************************************************************************)
(* The safety of the usage outbox for every set of rows and replicas,      *)
(* every batch size and every number of faults.                            *)
(***************************************************************************)
EXTENDS UsageOutbox, TLAPS

InQueue(r) == \E m \in MessagesOf(r) : queue[m] \in {"visible", "hidden"}

(* A transaction's rows are locked by it and pending, the row between its  *)
(* count and its send is one of them, and what it has sent is in the queue. *)
TransactionInv ==
    \A p \in Publishers :
        /\ \A r \in Rows : r \in todo[p] \cup sent[p] => lockedBy[r] = p
        /\ \A r \in Rows : lockedBy[r] = p => outbox[r] = "pending"
        /\ \A r \in Rows : r \in counting[p] => r \in todo[p] /\ marker[r]
        /\ \A r \in Rows : r \in sent[p] => InQueue(r)
        /\ call[p] = "no" => counting[p] = {}

(* The counter has counted the marked rows, and only marked rows travel.   *)
CountInv ==
    /\ \A r \in Rows : counter[r] = IF marker[r] THEN 1 ELSE 0
    /\ \A m \in Messages : queue[m] # "none" => marker[m[1]]
    /\ \A r \in ingested : marker[r]

(* Messages are deleted after delivery, and a consumer past a step of its  *)
(* message has had that step's effect.                                     *)
ConsumerInv ==
    /\ \A m \in Messages : queue[m] = "deleted" => outbox[m[1]] = "delivered"
    /\ \A c \in Consumers :
          /\ step[c] # "idle" => held[c] \in Messages /\ queue[held[c]] # "none"
          /\ step[c] = "mark" => held[c][1] \in ingested
          /\ step[c] = "delete" => outbox[held[c][1]] = "delivered"

OutboxInv ==
    /\ OutboxTypeOK /\ TransactionInv /\ CountInv /\ ConsumerInv
    /\ PublishedNotLost /\ DeliveredWasIngested

USE OutboxAssumption

(* A message names its row. *)
LEMMA MessageRow ==
  /\ \A m \in Messages : m[1] \in Rows
  /\ \A r \in Rows : \A m \in MessagesOf(r) : m \in Messages /\ m[1] = r
  BY Zenon DEF Messages, MessagesOf

(* A step that leaves the transactions and their rows alone, and loses no  *)
(* message, keeps what is known of the transactions.                       *)
LEMMA SameTransactions ==
  ASSUME TransactionInv,
         UNCHANGED <<outbox, lockedBy, todo, sent, counting, call, marker>>,
         \A r \in Rows : InQueue(r) => InQueue(r)'
  PROVE  TransactionInv'
<1> SUFFICES ASSUME NEW p \in Publishers
             PROVE  /\ \A r \in Rows : r \in todo'[p] \cup sent'[p] => lockedBy'[r] = p
                    /\ \A r \in Rows : lockedBy'[r] = p => outbox'[r] = "pending"
                    /\ \A r \in Rows : r \in counting'[p] => r \in todo'[p] /\ marker'[r]
                    /\ \A r \in Rows : r \in sent'[p] => InQueue(r)'
                    /\ call'[p] = "no" => counting'[p] = {}
  BY Zenon DEF TransactionInv
<1>1. /\ outbox' = outbox /\ lockedBy' = lockedBy /\ todo' = todo /\ sent' = sent
      /\ counting' = counting /\ call' = call /\ marker' = marker
  BY Zenon
<1>2. /\ \A r \in Rows : r \in todo[p] \cup sent[p] => lockedBy[r] = p
      /\ \A r \in Rows : lockedBy[r] = p => outbox[r] = "pending"
      /\ \A r \in Rows : r \in counting[p] => r \in todo[p] /\ marker[r]
      /\ \A r \in Rows : r \in sent[p] => InQueue(r)
      /\ call[p] = "no" => counting[p] = {}
  BY Zenon DEF TransactionInv
<1> QED
  BY Zenon, <1>1, <1>2

(* The empty outbox satisfies the invariant. *)
LEMMA OutboxInitInv == Init => OutboxInv
<1> SUFFICES ASSUME Init PROVE OutboxInv
  BY Zenon
<1> USE DEF Init
<1>1. OutboxTypeOK
  BY DEF OutboxTypeOK
<1>2. TransactionInv
  BY Zenon DEF TransactionInv
<1>3. CountInv /\ ConsumerInv
  BY Zenon DEF CountInv, ConsumerInv
<1>4. PublishedNotLost /\ DeliveredWasIngested
  BY Zenon DEF PublishedNotLost, DeliveredWasIngested
<1> QED BY Zenon, <1>1, <1>2, <1>3, <1>4 DEF OutboxInv

(* recordUsage adds a pending row that no transaction holds. *)
LEMMA RecordInv ==
  ASSUME OutboxInv, NEW r \in Rows, recordUsage(r)
  PROVE  OutboxInv'
<1> USE DEF recordUsage, publishing, counts, consuming
<1>1. OutboxTypeOK'
  BY Zenon DEF OutboxInv, OutboxTypeOK
<1>2. TransactionInv'
  BY DEF OutboxInv, OutboxTypeOK, TransactionInv, InQueue
<1>3. CountInv'
  BY Zenon DEF OutboxInv, CountInv
<1>4. ConsumerInv'
  BY MessageRow DEF OutboxInv, OutboxTypeOK, ConsumerInv
<1>5. PublishedNotLost' /\ DeliveredWasIngested'
  BY Zenon DEF OutboxInv, OutboxTypeOK, PublishedNotLost, DeliveredWasIngested
<1> QED BY Zenon, <1>1, <1>2, <1>3, <1>4, <1>5 DEF OutboxInv

(* A selection locks pending rows that no other transaction holds. *)
LEMMA BeginInv ==
  ASSUME OutboxInv, NEW p \in Publishers, NEW batch \in SUBSET Selectable,
         NEW kind \in {"flush", "poll"}, Begin(p, kind, batch),
         life' \in [Publishers -> {"down", "starting", "running", "closing"}]
  PROVE  OutboxInv'
<1> USE DEF Begin, counts, consuming
<1>0. \A r \in batch : r \in Rows /\ outbox[r] = "pending" /\ lockedBy[r] = NoOne
  BY Zenon DEF Selectable
<1>1. OutboxTypeOK'
  BY Zenon, <1>0 DEF OutboxInv, OutboxTypeOK
<1>2. TransactionInv'
  BY <1>0 DEF OutboxInv, OutboxTypeOK, TransactionInv, InQueue
<1>3. CountInv' /\ ConsumerInv'
  BY Zenon DEF OutboxInv, CountInv, ConsumerInv
<1>4. PublishedNotLost' /\ DeliveredWasIngested'
  BY Zenon DEF OutboxInv, PublishedNotLost, DeliveredWasIngested
<1> QED BY Zenon, <1>1, <1>2, <1>3, <1>4 DEF OutboxInv

(* The counter's script marks the row and adds it if it was not marked. *)
LEMMA CountStepInv ==
  ASSUME OutboxInv, NEW p \in Publishers, NEW r \in Rows, PublishCount(p, r)
  PROVE  OutboxInv'
<1> USE DEF PublishCount, ApplyCounter, consuming
<1>1. OutboxTypeOK'
  <2>1. counter' \in [Rows -> 0..1]
    BY DEF OutboxInv, OutboxTypeOK, CountInv
  <2> QED BY Zenon, <2>1 DEF OutboxInv, OutboxTypeOK
<1>2. TransactionInv'
  BY DEF OutboxInv, OutboxTypeOK, TransactionInv, InQueue, Calling
<1>3. CountInv'
  BY MessageRow DEF OutboxInv, OutboxTypeOK, CountInv
<1>4. ConsumerInv' /\ PublishedNotLost' /\ DeliveredWasIngested'
  BY Zenon DEF OutboxInv, ConsumerInv, PublishedNotLost, DeliveredWasIngested
<1> QED BY Zenon, <1>1, <1>2, <1>3, <1>4 DEF OutboxInv

(* A send adds one message of a counted row and takes none away. *)
LEMMA SendFacts ==
  ASSUME OutboxInv, NEW r \in Rows, marker[r], Send(r)
  PROVE  /\ queue' \in [Messages -> {"none", "visible", "hidden", "deleted"}]
         /\ \A m \in Messages : queue[m] # "none" => queue'[m] = queue[m]
         /\ \A m \in Messages : queue'[m] = "deleted" => queue[m] = "deleted"
         /\ \A m \in Messages : queue'[m] # "none" => marker[m[1]]
         /\ \E m \in MessagesOf(r) : queue'[m] = "visible"
<1> PICK m \in MessagesOf(r) : queue[m] = "none" /\ queue' = [queue EXCEPT ![m] = "visible"]
  BY Zenon DEF Send
<1>1. m \in Messages /\ m[1] = r
  BY Zenon, MessageRow
<1> QED BY <1>1 DEF OutboxInv, OutboxTypeOK, CountInv

(* The send of a counted row, whether or not the publisher hears of it. *)
LEMMA SendInv ==
  ASSUME OutboxInv, NEW p \in Publishers, NEW r \in Rows,
         PublishSend(p, r) \/ (PublishRowFails(p, r) /\ r \in counting[p] /\ Send(r))
  PROVE  OutboxInv'
<1>0. /\ r \in counting[p] /\ Send(r) /\ Calling(p)
      /\ sent' \in {sent, [sent EXCEPT ![p] = @ \cup {r}]}
      /\ todo' = [todo EXCEPT ![p] = @ \ {r}]
      /\ counting' = [counting EXCEPT ![p] = {}]
      /\ faults' \in 0..MaxFaults
      /\ UNCHANGED <<outbox, lockedBy, life, call, counts, consuming, ingested>>
  BY DEF PublishSend, PublishRowFails, Fault, OutboxInv, OutboxTypeOK
<1>1. marker[r] /\ r \in todo[p]
  BY Zenon, <1>0 DEF OutboxInv, TransactionInv
<1>2. /\ queue' \in [Messages -> {"none", "visible", "hidden", "deleted"}]
      /\ \A m \in Messages : queue[m] # "none" => queue'[m] = queue[m]
      /\ \A m \in Messages : queue'[m] = "deleted" => queue[m] = "deleted"
      /\ \A m \in Messages : queue'[m] # "none" => marker[m[1]]
      /\ \E m \in MessagesOf(r) : queue'[m] = "visible"
  BY Zenon, <1>0, <1>1, SendFacts
<1>3. InQueue(r)' /\ \A q \in Rows : InQueue(q) => InQueue(q)'
  BY Zenon, <1>2, MessageRow DEF InQueue
<1>4. OutboxTypeOK'
  BY <1>0, <1>2 DEF OutboxInv, OutboxTypeOK, counts, consuming
<1>5. TransactionInv'
  BY <1>0, <1>1, <1>3 DEF OutboxInv, OutboxTypeOK, TransactionInv, counts
<1>6. CountInv'
  BY Zenon, <1>0, <1>2 DEF OutboxInv, CountInv, counts
<1>7. ConsumerInv'
  BY <1>0, <1>2 DEF OutboxInv, ConsumerInv, consuming
<1>8. PublishedNotLost' /\ DeliveredWasIngested'
  BY Zenon, <1>0, <1>3 DEF OutboxInv, PublishedNotLost, DeliveredWasIngested, InQueue
<1> QED BY Zenon, <1>4, <1>5, <1>6, <1>7, <1>8 DEF OutboxInv

(* A row whose count or send failed stays pending and locked. *)
LEMMA RowFailsInv ==
  ASSUME OutboxInv, NEW p \in Publishers, NEW r \in Rows,
         PublishRowFails(p, r), UNCHANGED queue
  PROVE  OutboxInv'
<1> USE DEF PublishRowFails, Fault, counts, consuming
<1>1. OutboxTypeOK'
  BY DEF OutboxInv, OutboxTypeOK
<1>2. TransactionInv'
  BY DEF OutboxInv, OutboxTypeOK, TransactionInv, InQueue
<1>3. CountInv' /\ ConsumerInv'
  BY Zenon DEF OutboxInv, CountInv, ConsumerInv
<1>4. PublishedNotLost' /\ DeliveredWasIngested'
  BY Zenon DEF OutboxInv, PublishedNotLost, DeliveredWasIngested
<1> QED BY Zenon, <1>1, <1>2, <1>3, <1>4 DEF OutboxInv

(* A commit publishes exactly the rows whose message is in the queue. *)
LEMMA CommitInv ==
  ASSUME OutboxInv, NEW p \in Publishers, PublishCommit(p)
  PROVE  OutboxInv'
<1> USE DEF PublishCommit, EndCall, Unlock, counts, consuming
<1>0. \A r \in Rows : r \in sent[p] => lockedBy[r] = p /\ outbox[r] = "pending" /\ InQueue(r)
  BY Zenon DEF OutboxInv, TransactionInv
<1>1. OutboxTypeOK'
  BY Zenon DEF OutboxInv, OutboxTypeOK
<1>2. TransactionInv'
  BY <1>0 DEF OutboxInv, OutboxTypeOK, TransactionInv, InQueue
<1>3. CountInv'
  BY Zenon DEF OutboxInv, CountInv
<1>4. ConsumerInv'
  BY Zenon, <1>0, MessageRow DEF OutboxInv, OutboxTypeOK, ConsumerInv
<1>5. PublishedNotLost'
  BY Zenon, <1>0 DEF OutboxInv, PublishedNotLost, InQueue
<1>6. DeliveredWasIngested'
  BY Zenon DEF OutboxInv, DeliveredWasIngested
<1> QED BY Zenon, <1>1, <1>2, <1>3, <1>4, <1>5, <1>6 DEF OutboxInv

(* A rollback, an exit or a crash drops the transaction and nothing else. *)
LEMMA RollbackInv ==
  ASSUME OutboxInv, NEW p \in Publishers, EndCall(p),
         life' \in [Publishers -> {"down", "starting", "running", "closing"}],
         faults' \in 0..MaxFaults,
         UNCHANGED <<outbox, counts, queue, consuming, ingested>>
  PROVE  OutboxInv'
<1> USE DEF EndCall, Unlock, counts, consuming
<1>1. OutboxTypeOK'
  BY Zenon DEF OutboxInv, OutboxTypeOK
<1>2. TransactionInv'
  BY DEF OutboxInv, OutboxTypeOK, TransactionInv, InQueue
<1>3. CountInv' /\ ConsumerInv'
  BY Zenon DEF OutboxInv, CountInv, ConsumerInv
<1>4. PublishedNotLost' /\ DeliveredWasIngested'
  BY Zenon DEF OutboxInv, PublishedNotLost, DeliveredWasIngested
<1> QED BY Zenon, <1>1, <1>2, <1>3, <1>4 DEF OutboxInv

(* Closing only changes the lifecycle. *)
LEMMA CloseInv ==
  ASSUME OutboxInv, NEW p \in Publishers, Close(p)
  PROVE  OutboxInv'
<1> USE DEF Close, Fault, counts, consuming
<1>1. OutboxTypeOK'
  BY DEF OutboxInv, OutboxTypeOK
<1>2. TransactionInv' /\ CountInv' /\ ConsumerInv'
  BY DEF OutboxInv, TransactionInv, InQueue, CountInv, ConsumerInv
<1>3. PublishedNotLost' /\ DeliveredWasIngested'
  BY Zenon DEF OutboxInv, PublishedNotLost, DeliveredWasIngested
<1> QED BY Zenon, <1>1, <1>2, <1>3 DEF OutboxInv

(* A receive hides a message and a timeout shows it: neither loses it. *)
LEMMA VisibilityInv ==
  ASSUME OutboxInv, NEW m \in Messages,
         (\E c \in Consumers : Receive(c, m)) \/ Reappear(m)
  PROVE  OutboxInv'
<1>0. /\ queue[m] \in {"visible", "hidden"}
      /\ \E s \in {"visible", "hidden"} : queue' = [queue EXCEPT ![m] = s]
      /\ UNCHANGED <<outbox, publishing, counts, ingested, faults>>
      /\ \/ UNCHANGED consuming
         \/ \E c \in Consumers : /\ step' = [step EXCEPT ![c] = "ingest"]
                                 /\ held' = [held EXCEPT ![c] = m]
  BY Zenon DEF Receive, Reappear, consuming
<1>1. \A r \in Rows : InQueue(r) => InQueue(r)'
  BY <1>0, MessageRow DEF OutboxInv, OutboxTypeOK, InQueue
<1>2. OutboxTypeOK'
  BY <1>0 DEF OutboxInv, OutboxTypeOK, publishing, counts, consuming
<1>3. TransactionInv'
  BY Zenon, <1>0, <1>1, SameTransactions DEF OutboxInv, publishing, counts
<1>4. CountInv'
  BY Zenon, <1>0 DEF OutboxInv, OutboxTypeOK, CountInv, counts
<1>5. ConsumerInv'
  BY <1>0 DEF OutboxInv, OutboxTypeOK, ConsumerInv, consuming
<1>6. PublishedNotLost' /\ DeliveredWasIngested'
  BY Zenon, <1>0, <1>1 DEF OutboxInv, PublishedNotLost, DeliveredWasIngested, InQueue
<1> QED BY Zenon, <1>2, <1>3, <1>4, <1>5, <1>6 DEF OutboxInv

(* The event of a held message is accepted, refused, or left behind. *)
LEMMA IngestInv ==
  ASSUME OutboxInv, NEW c \in Consumers, Ingest(c) \/ IngestFails(c) \/ ConsumerFails(c)
  PROVE  OutboxInv'
<1> DEFINE r == held[c][1]
<1>0. /\ step[c] # "idle"
      /\ faults' \in 0..MaxFaults
      /\ \/ Stop(c) /\ ingested' \in {ingested, ingested \cup {r}}
         \/ Continue(c, "mark") /\ ingested' = ingested \cup {r}
      /\ UNCHANGED <<outbox, publishing, counts, queue>>
  BY DEF Ingest, IngestFails, ConsumerFails, Fault, OutboxInv, OutboxTypeOK
<1>1. r \in Rows /\ marker[r]
  BY Zenon, <1>0, MessageRow DEF OutboxInv, ConsumerInv, CountInv
<1> HIDE DEF r
<1>2. OutboxTypeOK'
  BY <1>0, <1>1 DEF OutboxInv, OutboxTypeOK, Stop, Continue, publishing, counts
<1>3. TransactionInv'
  <2>1. \A q \in Rows : InQueue(q) => InQueue(q)'
    BY Zenon, <1>0 DEF InQueue
  <2> QED BY Zenon, <1>0, <2>1, SameTransactions DEF OutboxInv, publishing, counts
<1>4. CountInv'
  BY Zenon, <1>0, <1>1 DEF OutboxInv, CountInv, counts
<1>5. ConsumerInv'
  BY <1>0, <1>1 DEF OutboxInv, OutboxTypeOK, ConsumerInv, Stop, Continue, r
<1>6. PublishedNotLost' /\ DeliveredWasIngested'
  BY Zenon, <1>0 DEF OutboxInv, PublishedNotLost, DeliveredWasIngested
<1> QED BY Zenon, <1>2, <1>3, <1>4, <1>5, <1>6 DEF OutboxInv

(* Only a published row becomes delivered, after its event was accepted. *)
LEMMA MarkInv ==
  ASSUME OutboxInv, NEW c \in Consumers, markDelivered(c)
  PROVE  OutboxInv'
<1> DEFINE r == held[c][1]
<1>0. /\ step[c] = "mark"
      /\ \/ /\ outbox[r] \in {"published", "delivered"}
            /\ outbox' = [outbox EXCEPT ![r] = "delivered"]
            /\ Continue(c, "delete")
         \/ Stop(c) /\ UNCHANGED outbox
      /\ UNCHANGED <<publishing, counts, queue, ingested, faults>>
  BY Zenon DEF markDelivered
<1>1. r \in Rows /\ r \in ingested
  BY Zenon, <1>0, MessageRow DEF OutboxInv, ConsumerInv
<1> HIDE DEF r
<1>2. OutboxTypeOK'
  BY <1>0, <1>1 DEF OutboxInv, OutboxTypeOK, Stop, Continue, publishing, counts
<1>3. TransactionInv'
  BY <1>0, <1>1 DEF OutboxInv, OutboxTypeOK, TransactionInv, InQueue, publishing, counts
<1>4. CountInv'
  BY Zenon, <1>0 DEF OutboxInv, CountInv, counts
<1>5. ConsumerInv'
  BY SMTT(20), <1>0, <1>1, MessageRow DEF OutboxInv, OutboxTypeOK, ConsumerInv, Stop, Continue, r
<1>6. PublishedNotLost' /\ DeliveredWasIngested'
  BY <1>0, <1>1 DEF OutboxInv, OutboxTypeOK, PublishedNotLost, DeliveredWasIngested
<1> QED BY Zenon, <1>2, <1>3, <1>4, <1>5, <1>6 DEF OutboxInv

(* A message is deleted when its row is delivered: no published row needs it. *)
LEMMA DeleteInv ==
  ASSUME OutboxInv, NEW c \in Consumers, Delete(c)
  PROVE  OutboxInv'
<1> USE DEF Delete, Stop, publishing, counts
<1>0. held[c] \in Messages /\ outbox[held[c][1]] = "delivered" /\ queue[held[c]] # "none"
  BY Zenon DEF OutboxInv, ConsumerInv
<1>1. \A q \in Rows : InQueue(q) /\ outbox[q] # "delivered" => InQueue(q)'
  BY SMTT(20), <1>0, MessageRow DEF OutboxInv, OutboxTypeOK, InQueue
<1>2. OutboxTypeOK'
  BY Zenon, <1>0 DEF OutboxInv, OutboxTypeOK
<1>3. TransactionInv'
  <2>1. \A p \in Publishers : \A q \in Rows : q \in sent[p] => InQueue(q)'
    BY Zenon, <1>1 DEF OutboxInv, TransactionInv
  <2> QED BY SMTT(20), <2>1 DEF OutboxInv, TransactionInv
<1>4. CountInv'
  BY SMTT(20), <1>0 DEF OutboxInv, OutboxTypeOK, CountInv
<1>5. ConsumerInv'
  BY SMTT(20), <1>0 DEF OutboxInv, OutboxTypeOK, ConsumerInv
<1>6. PublishedNotLost' /\ DeliveredWasIngested'
  BY Zenon, <1>1 DEF OutboxInv, PublishedNotLost, DeliveredWasIngested, InQueue
<1> QED BY Zenon, <1>2, <1>3, <1>4, <1>5, <1>6 DEF OutboxInv

(* Every step of a publisher keeps the invariant. *)
LEMMA PublisherInv ==
  ASSUME OutboxInv, NEW p \in Publishers,
         \/ PublisherStep(p) \/ Start(p) \/ PublishAbort(p) \/ Close(p) \/ Crash(p)
         \/ \E batch \in SUBSET Selectable : Poll(p, batch)
         \/ \E r \in Rows : PublishRowFails(p, r)
  PROVE  OutboxInv'
<1>1. CASE \E r \in Rows : PublishCount(p, r) \/ PublishSend(p, r)
  BY Zenon, <1>1, CountStepInv, SendInv
<1>2. CASE PublishCommit(p)
  BY Zenon, <1>2, CommitInv
<1>3. CASE Exit(p) \/ Crash(p) \/ PublishAbort(p)
  <2>1. EndCall(p) /\ UNCHANGED <<outbox, counts, queue, consuming, ingested>>
    BY Zenon, <1>3 DEF Exit, Crash, PublishAbort
  <2>2. life' \in [Publishers -> {"down", "starting", "running", "closing"}]
    BY SMTT(20), <1>3 DEF Exit, Crash, PublishAbort, OutboxInv, OutboxTypeOK
  <2>3. faults' \in 0..MaxFaults
    BY SMTT(20), <1>3 DEF Exit, Crash, PublishAbort, Fault, OutboxInv, OutboxTypeOK
  <2> QED BY Zenon, <2>1, <2>2, <2>3, RollbackInv
<1>4. CASE Start(p)
  <2>1. PICK batch \in SUBSET Selectable : Begin(p, "flush", batch)
    BY Zenon, <1>4 DEF Start
  <2>2. life' \in [Publishers -> {"down", "starting", "running", "closing"}]
    BY Zenon, <1>4 DEF Start, OutboxInv, OutboxTypeOK
  <2> QED BY Zenon, <2>1, <2>2, BeginInv
<1>5. CASE \E batch \in SUBSET Selectable : Poll(p, batch)
  <2>1. PICK batch \in SUBSET Selectable : Poll(p, batch)
    BY Zenon, <1>5
  <2>2. life' \in [Publishers -> {"down", "starting", "running", "closing"}]
    BY Zenon, <2>1 DEF Poll, OutboxInv, OutboxTypeOK
  <2>3. Begin(p, "poll", batch)
    BY Zenon, <2>1 DEF Poll
  <2> QED BY Zenon, <2>2, <2>3, BeginInv
<1>6. CASE Close(p)
  BY Zenon, <1>6, CloseInv
<1>7. CASE \E r \in Rows : PublishRowFails(p, r)
  <2>1. PICK r \in Rows : PublishRowFails(p, r)
    BY Zenon, <1>7
  <2>2. UNCHANGED queue \/ (r \in counting[p] /\ Send(r))
    BY Zenon, <2>1 DEF PublishRowFails
  <2> QED BY Zenon, <2>1, <2>2, RowFailsInv, SendInv
<1> QED BY Zenon, <1>1, <1>2, <1>3, <1>4, <1>5, <1>6, <1>7 DEF PublisherStep

(* Every step keeps the invariant. *)
LEMMA OutboxStepInv == OutboxInv /\ [Next]_vars => OutboxInv'
<1> SUFFICES ASSUME OutboxInv, [Next]_vars PROVE OutboxInv'
  BY Zenon
<1>1. CASE \E r \in Rows : recordUsage(r)
  BY Zenon, <1>1, RecordInv
<1>2. CASE \E p \in Publishers :
             \/ PublisherStep(p) \/ Start(p) \/ PublishAbort(p) \/ Close(p) \/ Crash(p)
             \/ \E batch \in SUBSET Selectable : Poll(p, batch)
             \/ \E r \in Rows : PublishRowFails(p, r)
  BY Zenon, <1>2, PublisherInv
<1>3. CASE \E c \in Consumers : ConsumerStep(c) \/ IngestFails(c) \/ ConsumerFails(c)
  BY Zenon, <1>3, IngestInv, MarkInv, DeleteInv DEF ConsumerStep
<1>4. CASE \E m \in Messages : (\E c \in Consumers : Receive(c, m)) \/ Reappear(m)
  BY Zenon, <1>4, VisibilityInv
<1>5. CASE UNCHANGED vars
  <2> USE <1>5 DEF vars, publishing, counts, consuming
  <2>1. OutboxTypeOK'
    BY Zenon DEF OutboxInv, OutboxTypeOK
  <2>2. TransactionInv'
    <3>1. \A r \in Rows : InQueue(r) => InQueue(r)'
      BY Zenon DEF InQueue
    <3> QED BY Zenon, <3>1, SameTransactions DEF OutboxInv
  <2>3. CountInv' /\ ConsumerInv'
    BY Zenon DEF OutboxInv, CountInv, ConsumerInv
  <2>4. PublishedNotLost' /\ DeliveredWasIngested'
    BY Zenon DEF OutboxInv, PublishedNotLost, DeliveredWasIngested
  <2> QED BY Zenon, <2>1, <2>2, <2>3, <2>4 DEF OutboxInv
<1> QED BY Zenon, <1>1, <1>2, <1>3, <1>4, <1>5 DEF Next

(* The invariant holds throughout. *)
THEOREM OutboxInvariant == Spec => []OutboxInv
  BY OutboxInitInv, OutboxStepInv, PTL DEF Spec

(* publishOnce, markDelivered and the Redis script keep the rows, the      *)
(* transactions and the queue in their types, the counters at one.         *)
THEOREM OutboxTyped == Spec => []OutboxTypeOK
<1>1. OutboxInv => OutboxTypeOK
  BY Zenon DEF OutboxInv
<1> QED BY <1>1, OutboxInvariant, PTL

(* No published row is without a message before it is delivered: the send  *)
(* precedes the commit, and the delete follows markDelivered.              *)
THEOREM PublishedNeverLost == Spec => []PublishedNotLost
<1>1. OutboxInv => PublishedNotLost
  BY Zenon DEF OutboxInv
<1> QED BY <1>1, OutboxInvariant, PTL

(* A delivered row was accepted by Flexprice. *)
THEOREM DeliveredAlwaysIngested == Spec => []DeliveredWasIngested
<1>1. OutboxInv => DeliveredWasIngested
  BY Zenon DEF OutboxInv
<1> QED BY <1>1, OutboxInvariant, PTL

(* What Flexprice has accepted, the run's counter has counted once. *)
THEOREM IngestedAlwaysCounted == Spec => []IngestedCountedOnce
<1>1. OutboxInv => IngestedCountedOnce
  BY Zenon DEF OutboxInv, OutboxTypeOK, CountInv, IngestedCountedOnce
<1> QED BY <1>1, OutboxInvariant, PTL

(* No step reopens a row that is published or delivered. *)
THEOREM OutboxNeverReopens == Spec => OutboxForward
<1> DEFINE A == \A r \in Rows :
                   /\ outbox[r] = "delivered" => outbox'[r] = "delivered"
                   /\ outbox[r] = "published" => outbox'[r] # "pending"
<1>1. OutboxInv /\ [Next]_vars => [A]_vars
  <2> SUFFICES ASSUME OutboxInv, Next PROVE A
    BY Zenon
  <2>1. CASE UNCHANGED outbox
    BY Zenon, <2>1
  <2>2. CASE \E r \in Rows : recordUsage(r)
    BY Zenon, <2>2 DEF recordUsage, OutboxInv, OutboxTypeOK
  <2>3. CASE \E p \in Publishers : PublishCommit(p)
    BY SMTT(20), <2>3 DEF PublishCommit, OutboxInv, TransactionInv
  <2>4. CASE \E c \in Consumers : markDelivered(c)
    BY SMTT(20), <2>4 DEF markDelivered, OutboxInv, OutboxTypeOK
  <2>5. \/ UNCHANGED outbox \/ \E r \in Rows : recordUsage(r)
        \/ \E p \in Publishers : PublishCommit(p)
        \/ \E c \in Consumers : markDelivered(c)
    BY ZenonT(30) DEF Next, PublisherStep, ConsumerStep, Start, Poll, Begin, PublishCount, PublishSend,
           PublishRowFails, PublishAbort, Close, Exit, Crash, Receive, Ingest, IngestFails,
           Delete, ConsumerFails, Reappear
  <2> QED BY Zenon, <2>1, <2>2, <2>3, <2>4, <2>5
<1> QED BY <1>1, OutboxInvariant, PTL DEF Spec, OutboxForward
=============================================================================
