------------------------- MODULE IdempotencyProofs -------------------------
(***************************************************************************)
(* Proofs about the two stores that make repeated work happen once: the    *)
(* records of the HTTP idempotency plugin, and the claims of the activity  *)
(* interceptor.  They hold for every set of attempts, every lease length   *)
(* and every number of faults.                                             *)
(***************************************************************************)
EXTENDS HttpIdempotency, ActivityIdempotency, TLAPS

-----------------------------------------------------------------------------
(* The HTTP idempotency plugin: a success is the result of an execution of *)
(* its own request, a stored success stays, and a second execution takes   *)
(* something the plugin says it cannot absorb.                             *)

\* Execution b has run the request with fingerprint p.
Ran(b, p) == b \in 1 .. Len(executed) /\ executed[b] = p

Working(a) == pc[a] \in {"running", "sending"}

\* The response an attempt holds, and the one the client has, are the result of
\* its own request.
OwnResult(a) ==
    /\ answer[a] = "success" => Ran(body[a], PrintOf[a])
    /\ pc[a] = "refreshing" => Ran(body[a], PrintOf[a])
    /\ pc[a] = "sending" => \/ outcome[a] = "failed"
                            \/ outcome[a] \in {"stored", "oversized"} /\ Ran(body[a], PrintOf[a])

\* A completed record holds the result of the request it was made for.
RecordOwn == entry.state = "completed" => Ran(entry.body, entry.print)

\* Whoever works under the reservation is alone while nothing has happened that
\* the plugin cannot absorb, and what was executed is stored or being stored.
Exclusive ==
    /\ \A a, b \in Attempts : Working(a) /\ Working(b) => a = b
    /\ \A a \in Attempts : Working(a) => a \in holder /\ entry.state = "pending"
    /\ \A a \in Attempts : pc[a] = "sending" => outcome[a] # "oversized"
    /\ \A a \in Attempts : pc[a] = "sending" /\ outcome[a] = "failed" => executed = <<>>
    /\ \A a \in Attempts : pc[a] = "sending" /\ body[a] = 0 => outcome[a] = "failed"
    /\ \A a \in Attempts : pc[a] = "running" => executed = <<>>
    /\ entry.state = "none" => executed = <<>>
    /\ entry.state = "pending" /\ executed # <<>> => \E a \in Attempts : Working(a)
    /\ Len(executed) <= 1

\* The inductive invariant.
IdempotencyInv ==
    /\ IdempotencyTypeOK
    /\ RecordOwn
    /\ \A a \in Attempts : OwnResult(a)
    /\ SuccessSticks
    /\ ~excused => Exclusive

\* Executions are only added.
Grows == executed' = executed \/ \E p \in Prints : executed' = Append(executed, p)

\* A step of attempt a leaves the others where they are.
Alone(a) ==
    \A b \in Attempts \ {a} :
        pc'[b] = pc[b] /\ outcome'[b] = outcome[b] /\ body'[b] = body[b] /\ answer'[b] = answer[b]

-----------------------------------------------------------------------------

LEMMA RanKept ==
    ASSUME IdempotencyTypeOK, Grows, NEW b, NEW p, Ran(b, p)
    PROVE  Ran(b, p)'
  <1>1. CASE executed' = executed
    BY Zenon, <1>1 DEF Ran
  <1>2. ASSUME NEW r \in Prints, executed' = Append(executed, r)
        PROVE  Ran(b, p)'
    <2>1. executed \in Seq(Prints)
      BY Zenon DEF IdempotencyTypeOK
    <2>2. Len(executed') = Len(executed) + 1 /\ Len(executed) \in Nat
      BY <1>2, <2>1
    <2>3. \A i \in 1 .. Len(executed) : executed'[i] = executed[i]
      BY <1>2, <2>1
    <2>. QED  BY <2>2, <2>3 DEF Ran
  <1>. QED  BY Zenon, <1>1, <1>2 DEF Grows

\* The results of attempts that do not move are still their own.
LEMMA OwnKept ==
    ASSUME IdempotencyTypeOK, Grows, NEW b \in Attempts, OwnResult(b),
           pc'[b] = pc[b], outcome'[b] = outcome[b], body'[b] = body[b], answer'[b] = answer[b]
    PROVE  OwnResult(b)'
  <1>1. PICK n : n = body[b]
    BY Zenon
  <1>2. Ran(n, PrintOf[b]) => Ran(n, PrintOf[b])'
    BY Zenon, RanKept
  <1>3. Ran(body[b], PrintOf[b]) => Ran(n, PrintOf[b])'
    BY Zenon, <1>1, <1>2
  <1>4. Ran(body[b], PrintOf[b])' = Ran(n, PrintOf[b])'
    BY Zenon, <1>1 DEF Ran
  <1>. QED  BY Zenon, <1>3, <1>4 DEF OwnResult

LEMMA OthersOwn ==
    ASSUME IdempotencyTypeOK, Grows, NEW a \in Attempts, Alone(a),
           \A b \in Attempts : OwnResult(b), OwnResult(a)'
    PROVE  \A b \in Attempts : OwnResult(b)'
  <1>. TAKE b \in Attempts
  <1>1. CASE b = a
    BY Zenon, <1>1
  <1>2. CASE b # a
    BY Zenon, <1>2, OwnKept DEF Alone
  <1>. QED  BY Zenon, <1>1, <1>2

\* A record that stays holds its own result.
LEMMA RecordKept ==
    ASSUME IdempotencyTypeOK, Grows, RecordOwn, entry' = entry
    PROVE  RecordOwn'
  <1>1. PICK n, p : n = entry.body /\ p = entry.print
    BY Zenon
  <1>2. Ran(n, p) => Ran(n, p)'
    BY Zenon, RanKept
  <1>3. Ran(entry.body, entry.print)' = Ran(n, p)'
    BY Zenon, <1>1 DEF Ran
  <1>. QED  BY Zenon, <1>1, <1>2, <1>3 DEF RecordOwn

-----------------------------------------------------------------------------
(* One lemma for each action.                                              *)

LEMMA SendStep ==
    ASSUME IdempotencyInv, NEW a \in Attempts, Send(a)
    PROVE  IdempotencyInv'
  <1>0. IdempotencyTypeOK /\ Grows /\ RecordOwn /\ entry' = entry
    BY Zenon DEF IdempotencyInv, Send, Grows
  <1>1. IdempotencyTypeOK'
    BY Zenon, <1>0 DEF IdempotencyTypeOK, Send
  <1>2. Alone(a)
    BY Zenon, <1>0 DEF IdempotencyTypeOK, Send, Alone
  <1>3. pc'[a] = "arrived" /\ answer'[a] = "none" /\ pc[a] \in {"idle", "answered"}
    BY Zenon, <1>0 DEF IdempotencyTypeOK, Send
  <1>4. OwnResult(a)'
    BY Zenon, <1>3 DEF OwnResult
  <1>5. \A b \in Attempts : OwnResult(b)'
    BY Zenon, <1>0, <1>2, <1>4, OthersOwn DEF IdempotencyInv
  <1>6. RecordOwn'
    BY Zenon, <1>0, RecordKept
  <1>7. SuccessSticks'
    BY Zenon DEF IdempotencyInv, SuccessSticks, Send
  <1>8. ASSUME Exclusive PROVE Exclusive'
    <2>1. UNCHANGED <<entry, holder, executed>>
      BY Zenon DEF Send
    <2>. QED  BY <1>2, <1>3, <1>8, <2>1 DEF Exclusive, Working, Alone
  <1>. QED  BY Zenon, <1>1, <1>5, <1>6, <1>7, <1>8 DEF IdempotencyInv, Send

\* Attempt a is answered from outside the handler.
LEMMA AnswerStep ==
    ASSUME IdempotencyInv, NEW a \in Attempts, ~Working(a),
           NEW what \in {"success", "conflict", "inProgress", "unavailable", "failed", "lost"},
           NEW n \in Nat,
           Answer(a, what, n), what = "success" => Ran(n, PrintOf[a]),
           UNCHANGED <<entry, holder, outcome, executed, stored, excused>>, faults' \in Nat
    PROVE  IdempotencyInv'
  <1>0. IdempotencyTypeOK /\ Grows /\ RecordOwn /\ entry' = entry
    BY Zenon DEF IdempotencyInv, Grows
  <1>1. IdempotencyTypeOK'
    BY Zenon, <1>0 DEF IdempotencyTypeOK, Answer
  <1>2. Alone(a)
    BY Zenon, <1>0 DEF IdempotencyTypeOK, Answer, Alone
  <1>3. pc'[a] = "answered" /\ answer'[a] = what /\ body'[a] = n
    BY Zenon, <1>0 DEF IdempotencyTypeOK, Answer
  <1>4. OwnResult(a)'
    BY Zenon, <1>3 DEF OwnResult, Ran
  <1>5. \A b \in Attempts : OwnResult(b)'
    BY Zenon, <1>0, <1>2, <1>4, OthersOwn DEF IdempotencyInv
  <1>6. RecordOwn'
    BY Zenon, <1>0, RecordKept
  <1>7. SuccessSticks'
    BY Zenon DEF IdempotencyInv, SuccessSticks
  <1>8. ASSUME Exclusive PROVE Exclusive'
    BY Zenon, <1>2, <1>3, <1>8 DEF Exclusive, Working, Alone
  <1>. QED  BY Zenon, <1>1, <1>5, <1>6, <1>7, <1>8 DEF IdempotencyInv

\* The key is free: the attempt goes on to its handler.
LEMMA ReserveNewStep ==
    ASSUME IdempotencyInv, NEW a \in Attempts, pc[a] = "arrived", entry.state = "none",
           entry' = Pending(PrintOf[a]), holder' = holder \cup {a},
           pc' = [pc EXCEPT ![a] = "running"],
           UNCHANGED <<outcome, body, answer, executed, stored, excused, faults>>
    PROVE  IdempotencyInv'
  <1>0. IdempotencyTypeOK /\ Grows /\ entry'.state = "pending"
    BY Zenon DEF IdempotencyInv, Grows, Pending
  <1>1. IdempotencyTypeOK'
    BY Zenon, <1>0, IdempotencyAssumption DEF IdempotencyTypeOK, Pending
  <1>2. Alone(a)
    BY Zenon, <1>0 DEF IdempotencyTypeOK, Alone
  <1>3. pc'[a] = "running"
    BY Zenon, <1>0 DEF IdempotencyTypeOK
  <1>4. OwnResult(a)'
    BY Zenon, <1>3 DEF OwnResult, IdempotencyInv, Ran
  <1>5. \A b \in Attempts : OwnResult(b)'
    BY Zenon, <1>0, <1>2, <1>4, OthersOwn DEF IdempotencyInv
  <1>6. RecordOwn' /\ SuccessSticks'
    BY Zenon, <1>0 DEF RecordOwn, SuccessSticks, IdempotencyInv
  <1>7. ASSUME Exclusive PROVE Exclusive'
    BY <1>0, <1>2, <1>3, <1>7 DEF Exclusive, Working, Alone
  <1>. QED  BY Zenon, <1>1, <1>5, <1>6, <1>7 DEF IdempotencyInv

\* The key holds a completed 'refresh-response' request.
LEMMA ReserveRefreshStep ==
    ASSUME IdempotencyInv, NEW a \in Attempts, pc[a] = "arrived",
           entry.state = "completed", entry.print = PrintOf[a],
           pc' = [pc EXCEPT ![a] = "refreshing"], body' = [body EXCEPT ![a] = entry.body],
           UNCHANGED <<entry, holder, outcome, answer, executed, stored, excused, faults>>
    PROVE  IdempotencyInv'
  <1>0. IdempotencyTypeOK /\ Grows /\ RecordOwn
    BY Zenon DEF IdempotencyInv, Grows
  <1>1. IdempotencyTypeOK'
    BY Zenon, <1>0 DEF IdempotencyTypeOK
  <1>2. Alone(a)
    BY Zenon, <1>0 DEF IdempotencyTypeOK, Alone
  <1>3. pc'[a] = "refreshing" /\ body'[a] = entry.body
    BY Zenon, <1>0 DEF IdempotencyTypeOK
  <1>4. OwnResult(a)'
    BY Zenon, <1>0, <1>3 DEF OwnResult, RecordOwn, Ran
  <1>5. \A b \in Attempts : OwnResult(b)'
    BY Zenon, <1>0, <1>2, <1>4, OthersOwn DEF IdempotencyInv
  <1>6. RecordOwn' /\ SuccessSticks'
    BY Zenon, <1>0, RecordKept DEF SuccessSticks, IdempotencyInv
  <1>7. ASSUME Exclusive PROVE Exclusive'
    BY <1>2, <1>3, <1>7 DEF Exclusive, Working, Alone
  <1>. QED  BY Zenon, <1>1, <1>5, <1>6, <1>7 DEF IdempotencyInv

LEMMA ReserveStep ==
    ASSUME IdempotencyInv, NEW a \in Attempts, Reserve(a)
    PROVE  IdempotencyInv'
  <1>0. /\ pc[a] = "arrived" /\ ~Working(a)
        /\ UNCHANGED <<outcome, executed, stored, excused, faults>>
        /\ faults' \in Nat /\ entry.body \in Nat /\ RecordOwn
    BY Zenon DEF Reserve, Working, IdempotencyInv, IdempotencyTypeOK
  <1>1. CASE RESERVE(a) /\ entry' = Pending(PrintOf[a]) /\ holder' = holder \cup {a}
             /\ pc' = [pc EXCEPT ![a] = "running"] /\ UNCHANGED <<answer, body>>
    BY Zenon, <1>0, <1>1, ReserveNewStep DEF RESERVE
  <1>2. CASE UNCHANGED <<entry, holder>> /\ Answer(a, "conflict", 0)
    BY Zenon, <1>0, <1>2, AnswerStep
  <1>3. CASE UNCHANGED <<entry, holder>> /\ Answer(a, "inProgress", 0)
    BY Zenon, <1>0, <1>3, AnswerStep
  <1>4. CASE /\ UNCHANGED <<entry, holder>> /\ entry.state = "completed"
             /\ entry.print = PrintOf[a] /\ Answer(a, "success", entry.body)
    <2>1. PICK n \in Nat : n = entry.body
      BY Zenon, <1>0
    <2>2. Answer(a, "success", n) /\ Ran(n, PrintOf[a])
      BY Zenon, <1>0, <1>4, <2>1 DEF RecordOwn
    <2>. QED  BY Zenon, <1>0, <1>4, <2>2, AnswerStep
  <1>5. CASE /\ UNCHANGED <<entry, holder, answer>> /\ entry.state = "completed"
             /\ entry.print = PrintOf[a]
             /\ pc' = [pc EXCEPT ![a] = "refreshing"] /\ body' = [body EXCEPT ![a] = entry.body]
    BY Zenon, <1>0, <1>5, ReserveRefreshStep
  <1>. QED  BY Zenon, <1>1, <1>2, <1>3, <1>4, <1>5 DEF Reserve

LEMMA ReserveFailsStep ==
    ASSUME IdempotencyInv, NEW a \in Attempts, ReserveFails(a)
    PROVE  IdempotencyInv'
  <1>0. /\ IdempotencyTypeOK /\ ~Working(a) /\ faults' \in Nat
        /\ Answer(a, "unavailable", 0)
        /\ UNCHANGED <<holder, outcome, executed, stored, excused>>
    BY DEF ReserveFails, Working, Fault, IdempotencyInv, IdempotencyTypeOK
  <1>1. CASE UNCHANGED entry
    BY Zenon, <1>0, <1>1, AnswerStep
  <1>2. CASE entry.state = "none" /\ entry' = Pending(PrintOf[a])
    <2>0. Grows /\ entry'.state = "pending"
      BY Zenon, <1>0, <1>2 DEF Grows, Pending
    <2>1. IdempotencyTypeOK'
      BY Zenon, <1>0, <1>2, IdempotencyAssumption DEF IdempotencyTypeOK, Pending, Answer
    <2>2. Alone(a)
      BY Zenon, <1>0 DEF IdempotencyTypeOK, Answer, Alone
    <2>3. pc'[a] = "answered" /\ answer'[a] = "unavailable"
      BY Zenon, <1>0 DEF IdempotencyTypeOK, Answer
    <2>4. OwnResult(a)'
      BY Zenon, <2>3 DEF OwnResult
    <2>5. \A b \in Attempts : OwnResult(b)'
      BY Zenon, <1>0, <2>0, <2>2, <2>4, OthersOwn DEF IdempotencyInv
    <2>6. RecordOwn' /\ SuccessSticks'
      BY Zenon, <1>0, <1>2, <2>0 DEF RecordOwn, SuccessSticks, IdempotencyInv
    <2>7. ASSUME Exclusive PROVE Exclusive'
      BY Zenon, <1>0, <1>2, <2>0, <2>2, <2>3, <2>7 DEF Exclusive, Working, Alone
    <2>. QED  BY Zenon, <1>0, <2>1, <2>5, <2>6, <2>7 DEF IdempotencyInv
  <1>. QED  BY Zenon, <1>1, <1>2 DEF ReserveFails

LEMMA HandleStep ==
    ASSUME IdempotencyInv, NEW a \in Attempts, Handle(a)
    PROVE  IdempotencyInv'
  <1>0. /\ IdempotencyTypeOK /\ pc[a] = "running" /\ executed \in Seq(Prints)
        /\ executed' = Append(executed, PrintOf[a]) /\ PrintOf[a] \in Prints
        /\ body' = [body EXCEPT ![a] = Len(executed) + 1]
        /\ UNCHANGED <<entry, holder, answer, stored>>
    BY Zenon, IdempotencyAssumption DEF Handle, IdempotencyInv, IdempotencyTypeOK
  <1>g. /\ Grows /\ Len(executed) \in Nat /\ Len(executed') = Len(executed) + 1
        /\ executed' \in Seq(Prints) /\ executed'[Len(executed) + 1] = PrintOf[a]
    BY <1>0 DEF Grows
  <1>p. PICK o \in {"stored", "oversized"} :
           /\ outcome' = [outcome EXCEPT ![a] = o]
           /\ o = "oversized" => excused' = TRUE
           /\ excused' \in BOOLEAN /\ faults' \in Nat /\ (excused => excused')
    <2>1. excused \in BOOLEAN /\ faults \in Nat
      BY Zenon, <1>0 DEF IdempotencyTypeOK
    <2>2. CASE outcome' = [outcome EXCEPT ![a] = "stored"] /\ UNCHANGED <<excused, faults>>
      BY Zenon, <2>1, <2>2
    <2>3. CASE outcome' = [outcome EXCEPT ![a] = "oversized"] /\ excused' = TRUE /\ Fault
      <3>1. faults' \in Nat
        BY <2>1, <2>3 DEF Fault
      <3>. QED  BY Zenon, <2>3, <3>1
    <2>. QED  BY Zenon, <2>2, <2>3 DEF Handle
  <1>1. IdempotencyTypeOK'
    BY <1>0, <1>g, <1>p DEF IdempotencyTypeOK, Handle
  <1>2. Alone(a)
    BY Zenon, <1>0, <1>p DEF IdempotencyTypeOK, Handle, Alone
  <1>3. pc'[a] = "sending" /\ outcome'[a] = o /\ body'[a] = Len(executed) + 1
    BY Zenon, <1>0, <1>p DEF IdempotencyTypeOK, Handle
  <1>r. Ran(body[a], PrintOf[a])'
    BY <1>3, <1>g DEF Ran
  <1>4. OwnResult(a)'
    BY Zenon, <1>3, <1>r DEF OwnResult
  <1>5. \A b \in Attempts : OwnResult(b)'
    BY Zenon, <1>0, <1>g, <1>2, <1>4, OthersOwn DEF IdempotencyInv
  <1>6. RecordOwn' /\ SuccessSticks'
    BY Zenon, <1>0, <1>g, RecordKept DEF SuccessSticks, IdempotencyInv
  <1>7. ASSUME ~excused' PROVE Exclusive'
    <2>1. Exclusive /\ o = "stored"
      BY Zenon, <1>7, <1>p DEF IdempotencyInv
    <2>2. executed = <<>> /\ Working(a) /\ entry.state = "pending" /\ a \in holder
      BY Zenon, <1>0, <2>1 DEF Exclusive, Working
    <2>3. \A b \in Attempts : Working(b) => b = a
      BY Zenon, <2>1, <2>2 DEF Exclusive
    <2>4. \A b \in Attempts : Working(b)' => b = a
      BY Zenon, <1>2, <2>3 DEF Working, Alone
    <2>5. Len(executed') = 1 /\ body'[a] # 0 /\ Working(a)'
      BY <1>3, <1>g, <2>2 DEF Working
    <2>6. \A b \in Attempts : pc'[b] \in {"running", "sending"} => b = a
      BY Zenon, <2>4 DEF Working
    <2>. QED  BY <1>0, <1>3, <2>1, <2>2, <2>4, <2>5, <2>6 DEF Exclusive
  <1>. QED  BY Zenon, <1>1, <1>5, <1>6, <1>7 DEF IdempotencyInv

LEMMA RefuseStep ==
    ASSUME IdempotencyInv, NEW a \in Attempts, Refuse(a)
    PROVE  IdempotencyInv'
  <1>0. /\ IdempotencyTypeOK /\ pc[a] = "running" /\ Grows /\ RecordOwn /\ faults' \in Nat
        /\ UNCHANGED <<entry, holder, body, answer, executed, stored, excused>>
    BY DEF Refuse, Grows, Fault, IdempotencyInv, IdempotencyTypeOK
  <1>1. IdempotencyTypeOK'
    BY Zenon, <1>0 DEF IdempotencyTypeOK, Refuse
  <1>2. Alone(a)
    BY Zenon, <1>0 DEF IdempotencyTypeOK, Refuse, Alone
  <1>3. pc'[a] = "sending" /\ outcome'[a] = "failed"
    BY Zenon, <1>0 DEF IdempotencyTypeOK, Refuse
  <1>4. OwnResult(a)'
    BY Zenon, <1>0, <1>3 DEF OwnResult, IdempotencyInv, Ran
  <1>5. \A b \in Attempts : OwnResult(b)'
    BY Zenon, <1>0, <1>2, <1>4, OthersOwn DEF IdempotencyInv
  <1>6. RecordOwn' /\ SuccessSticks'
    BY Zenon, <1>0, RecordKept DEF SuccessSticks, IdempotencyInv
  <1>7. ASSUME Exclusive PROVE Exclusive'
    BY Zenon, <1>0, <1>2, <1>3, <1>7 DEF Exclusive, Working, Alone
  <1>. QED  BY Zenon, <1>0, <1>1, <1>5, <1>6, <1>7 DEF IdempotencyInv

\* The hook, whether the store has had its effect, has failed with it or
\* without it.
LEMMA SentStep ==
    ASSUME IdempotencyInv, NEW a \in Attempts, pc[a] = "sending", Sent(a),
           Recorded(a) \/ (UNCHANGED <<entry, stored>> /\ (outcome[a] # "failed" => excused')),
           excused' \in BOOLEAN, excused => excused', faults' \in Nat,
           UNCHANGED <<outcome, executed>>
    PROVE  IdempotencyInv'
  <1>0. IdempotencyTypeOK /\ Grows /\ RecordOwn /\ OwnResult(a) /\ SuccessSticks
    BY Zenon DEF Grows, IdempotencyInv
  <1>n. body[a] \in Nat /\ PrintOf[a] \in Prints
    BY Zenon, <1>0, IdempotencyAssumption DEF IdempotencyTypeOK
  <1>e. \/ outcome[a] = "stored" /\ entry' = Completed(PrintOf[a], body[a]) /\ stored' = TRUE
        \/ outcome[a] # "stored" /\ entry.state = "pending" /\ entry' = NoEntry /\ UNCHANGED stored
        \/ entry' = entry /\ UNCHANGED stored /\ (outcome[a] = "stored" => excused')
           /\ (entry.state = "pending" => (outcome[a] # "failed" => excused'))
    BY Zenon DEF Recorded, COMPLETE, RELEASE
  <1>1. IdempotencyTypeOK'
    <2>1. entry' \in [state : {"none", "pending", "completed"},
                       print : Prints \cup {NoPrint}, body : Nat]
      BY <1>0, <1>n, <1>e DEF IdempotencyTypeOK, Completed, NoEntry
    <2>2. stored' \in BOOLEAN
      BY Zenon, <1>0, <1>e DEF IdempotencyTypeOK
    <2>. QED  BY Zenon, <1>0, <1>n, <2>1, <2>2 DEF IdempotencyTypeOK, Sent, Answer
  <1>2. Alone(a)
    BY Zenon, <1>0 DEF IdempotencyTypeOK, Sent, Answer, Alone
  <1>3. /\ pc'[a] = "answered" /\ body'[a] = body[a]
        /\ answer'[a] = IF outcome[a] = "failed" THEN "failed" ELSE "success"
        /\ holder' = holder \ {a}
    BY Zenon, <1>0 DEF IdempotencyTypeOK, Sent, Answer
  <1>4. OwnResult(a)'
    BY Zenon, <1>0, <1>3 DEF OwnResult, Ran
  <1>5. \A b \in Attempts : OwnResult(b)'
    BY Zenon, <1>0, <1>2, <1>4, OthersOwn DEF IdempotencyInv
  <1>6. RecordOwn'
    <2>1. CASE outcome[a] = "stored" /\ entry' = Completed(PrintOf[a], body[a])
      <3>1. entry'.body = body[a] /\ entry'.print = PrintOf[a]
        BY Zenon, <2>1 DEF Completed
      <3>2. Ran(body[a], PrintOf[a])
        BY Zenon, <1>0, <2>1 DEF OwnResult
      <3>. QED  BY Zenon, <3>1, <3>2 DEF RecordOwn, Ran
    <2>2. CASE entry' = NoEntry
      BY Zenon, <2>2 DEF RecordOwn, NoEntry
    <2>3. CASE entry' = entry
      BY Zenon, <1>0, <2>3, RecordKept
    <2>. QED  BY Zenon, <1>e, <2>1, <2>2, <2>3
  <1>7. SuccessSticks'
    <2>1. CASE entry' = Completed(PrintOf[a], body[a])
      BY Zenon, <2>1 DEF SuccessSticks, Completed
    <2>2. CASE entry.state = "pending" /\ UNCHANGED stored
      BY Zenon, <1>0, <2>2 DEF SuccessSticks
    <2>3. CASE entry' = entry /\ UNCHANGED stored
      BY Zenon, <1>0, <2>3 DEF SuccessSticks
    <2>. QED  BY Zenon, <1>e, <2>1, <2>2, <2>3
  <1>8. ASSUME ~excused' PROVE Exclusive'
    <2>1. Exclusive
      BY Zenon, <1>8 DEF IdempotencyInv
    <2>2. /\ \A b \in Attempts : Working(b) => b = a
          /\ entry.state = "pending"
          /\ outcome[a] # "oversized" /\ (outcome[a] = "failed" => executed = <<>>)
          /\ Len(executed) <= 1
      BY Zenon, <2>1 DEF Exclusive, Working
    <2>3. \A b \in Attempts : pc'[b] \notin {"running", "sending"}
      BY Zenon, <1>2, <1>3, <2>2 DEF Working, Alone
    <2>4. outcome[a] \in {"stored", "failed"}
      BY Zenon, <1>0, <2>2 DEF OwnResult
    <2>5. entry'.state = "completed" \/ executed = <<>>
      BY <1>8, <1>e, <2>2, <2>4 DEF Completed
    <2>6. entry'.state = "completed" \/ executed' = <<>>
      BY Zenon, <2>5
    <2>. QED  BY Zenon, <2>2, <2>3, <2>6 DEF Exclusive, Working
  <1>. QED  BY Zenon, <1>1, <1>5, <1>6, <1>7, <1>8 DEF IdempotencyInv

LEMMA CrashStep ==
    ASSUME IdempotencyInv, NEW a \in Attempts, Crash(a)
    PROVE  IdempotencyInv'
  <1>0. /\ IdempotencyTypeOK /\ Grows /\ RecordOwn /\ Working(a) /\ faults' \in Nat
        /\ Answer(a, "lost", 0) /\ holder' = holder \ {a}
        /\ UNCHANGED <<entry, outcome, executed, stored>>
    BY DEF Crash, Grows, Working, Fault, IdempotencyInv, IdempotencyTypeOK
  <1>x. excused' \in BOOLEAN /\ (~excused' => ~excused /\ body[a] = 0)
    BY Zenon DEF Crash
  <1>1. IdempotencyTypeOK'
    BY Zenon, <1>0, <1>x DEF IdempotencyTypeOK, Answer
  <1>2. Alone(a)
    BY Zenon, <1>0 DEF IdempotencyTypeOK, Answer, Alone
  <1>3. pc'[a] = "answered" /\ answer'[a] = "lost"
    BY Zenon, <1>0 DEF IdempotencyTypeOK, Answer
  <1>4. OwnResult(a)'
    BY Zenon, <1>3 DEF OwnResult
  <1>5. \A b \in Attempts : OwnResult(b)'
    BY Zenon, <1>0, <1>2, <1>4, OthersOwn DEF IdempotencyInv
  <1>6. RecordOwn' /\ SuccessSticks'
    BY Zenon, <1>0, RecordKept DEF SuccessSticks, IdempotencyInv
  <1>7. ASSUME ~excused' PROVE Exclusive'
    <2>1. Exclusive /\ body[a] = 0
      BY Zenon, <1>7, <1>x DEF IdempotencyInv
    <2>2. executed = <<>>
      BY Zenon, <1>0, <2>1 DEF Exclusive, Working
    <2>3. \A b \in Attempts : Working(b) => b = a
      BY Zenon, <1>0, <2>1 DEF Exclusive
    <2>4. \A b \in Attempts : pc'[b] \notin {"running", "sending"}
      BY Zenon, <1>2, <1>3, <2>3 DEF Working, Alone
    <2>5. executed' = <<>> /\ Len(executed') <= 1
      BY <1>0, <2>2
    <2>. QED  BY Zenon, <2>4, <2>5 DEF Exclusive, Working
  <1>. QED  BY Zenon, <1>1, <1>5, <1>6, <1>7 DEF IdempotencyInv

\* Either time to live passes.
LEMMA ExpireStep ==
    ASSUME IdempotencyInv, ReservationExpires \/ RecordExpires
    PROVE  IdempotencyInv'
  <1>0. /\ IdempotencyTypeOK /\ Grows /\ entry' = NoEntry /\ faults' \in Nat
        /\ UNCHANGED <<pc, outcome, body, answer, executed>>
    BY SMTT(20) DEF ReservationExpires, RecordExpires, Grows, Fault, IdempotencyInv, IdempotencyTypeOK
  <1>1. /\ entry'.state = "none" /\ holder' \in SUBSET Attempts
        /\ entry' \in [state : {"none", "pending", "completed"},
                        print : Prints \cup {NoPrint}, body : Nat]
    BY Zenon, <1>0 DEF NoEntry, ReservationExpires, RecordExpires, IdempotencyTypeOK
  <1>2. stored' = FALSE
    <2>1. CASE ReservationExpires
      BY Zenon, <1>0, <2>1 DEF ReservationExpires, IdempotencyInv, SuccessSticks, IdempotencyTypeOK
    <2>2. CASE RecordExpires
      BY Zenon, <2>2 DEF RecordExpires
    <2>. QED  BY Zenon, <2>1, <2>2
  <1>3. excused' \in BOOLEAN
    BY Zenon, <1>0 DEF ReservationExpires, RecordExpires, IdempotencyTypeOK
  <1>4. IdempotencyTypeOK'
    BY Zenon, <1>0, <1>1, <1>2, <1>3 DEF IdempotencyTypeOK
  <1>5. \A b \in Attempts : OwnResult(b)'
    BY Zenon, <1>0, OwnKept DEF IdempotencyInv
  <1>6. RecordOwn' /\ SuccessSticks'
    BY Zenon, <1>1, <1>2 DEF RecordOwn, SuccessSticks
  <1>7. ASSUME ~excused' PROVE Exclusive'
    <2>1. ~excused /\ entry.state = "pending" /\ holder = {}
      BY <1>7 DEF ReservationExpires, RecordExpires
    <2>2. Exclusive
      BY Zenon, <2>1 DEF IdempotencyInv
    <2>3. \A b \in Attempts : pc'[b] \notin {"running", "sending"}
      BY Zenon, <1>0, <2>1, <2>2 DEF Exclusive, Working
    <2>4. executed' = <<>> /\ Len(executed') <= 1
      BY Zenon, <1>0, <2>1, <2>2 DEF Exclusive
    <2>. QED  BY Zenon, <2>3, <2>4 DEF Exclusive, Working
  <1>. QED  BY Zenon, <1>4, <1>5, <1>6, <1>7 DEF IdempotencyInv

-----------------------------------------------------------------------------

LEMMA IdempotencyInitial == Init => IdempotencyInv
  <1>. SUFFICES ASSUME Init PROVE IdempotencyInv
    BY Zenon
  <1>1. IdempotencyTypeOK
    <2>1. executed \in Seq(Prints)
      BY DEF Init
    <2>2. entry \in [state : {"none", "pending", "completed"},
                     print : Prints \cup {NoPrint}, body : Nat]
      BY Zenon DEF Init, NoEntry
    <2>3. stored \in BOOLEAN /\ excused \in BOOLEAN /\ faults \in Nat /\ holder \in SUBSET Attempts
      BY Zenon DEF Init
    <2>4. /\ pc \in [Attempts -> {"idle", "arrived", "running", "refreshing", "sending", "answered"}]
          /\ outcome \in [Attempts -> {"none", "stored", "oversized", "failed"}]
          /\ body \in [Attempts -> Nat]
          /\ answer \in [Attempts -> {"none", "success", "conflict", "inProgress", "unavailable",
                                      "failed", "lost"}]
      BY Zenon DEF Init
    <2>. QED  BY Zenon, <2>1, <2>2, <2>3, <2>4 DEF IdempotencyTypeOK
  <1>2. RecordOwn /\ SuccessSticks
    BY Zenon DEF Init, RecordOwn, SuccessSticks, NoEntry
  <1>3. \A a \in Attempts : OwnResult(a)
    BY Zenon DEF Init, OwnResult
  <1>4. Exclusive
    <2>1. /\ \A a \in Attempts : pc[a] = "idle"
          /\ executed = <<>> /\ Len(executed) <= 1
      BY DEF Init
    <2>. QED  BY Zenon, <2>1 DEF Exclusive, Working
  <1>. QED  BY Zenon, <1>1, <1>2, <1>3, <1>4 DEF IdempotencyInv

LEMMA IdempotencyStep ==
    ASSUME IdempotencyInv, [Next]_vars
    PROVE  IdempotencyInv'
  <1>1. CASE UNCHANGED vars
    <2>1. Grows
      BY Zenon, <1>1 DEF vars, Grows
    <2>2. IdempotencyTypeOK'
      BY Zenon, <1>1 DEF vars, IdempotencyInv, IdempotencyTypeOK
    <2>3. \A b \in Attempts : OwnResult(b)'
      BY Zenon, <1>1, <2>1, OwnKept DEF vars, IdempotencyInv
    <2>4. RecordOwn' /\ SuccessSticks'
      BY Zenon, <1>1, <2>1, RecordKept DEF vars, IdempotencyInv, SuccessSticks
    <2>5. ASSUME Exclusive PROVE Exclusive'
      BY Zenon, <1>1, <2>5 DEF vars, Exclusive, Working
    <2>. QED  BY Zenon, <1>1, <2>2, <2>3, <2>4, <2>5 DEF vars, IdempotencyInv
  <1>2. CASE ReservationExpires \/ RecordExpires
    BY Zenon, <1>2, ExpireStep
  <1>3. ASSUME NEW a \in Attempts,
               Send(a) \/ Served(a) \/ ReserveFails(a) \/ Refuse(a) \/ onSendFails(a) \/ Crash(a)
               \/ LoseAnswer(a)
        PROVE  IdempotencyInv'
    <2>t. /\ IdempotencyTypeOK /\ OwnResult(a) /\ excused \in BOOLEAN /\ faults \in Nat
          /\ body[a] \in Nat
      BY Zenon DEF IdempotencyInv, IdempotencyTypeOK
    <2>1. CASE Send(a)
      BY Zenon, <2>1, SendStep
    <2>2. CASE Reserve(a)
      BY Zenon, <2>2, ReserveStep
    <2>3. CASE Handle(a)
      BY Zenon, <2>3, HandleStep
    <2>4. CASE Refresh(a)
      <3>1. /\ ~Working(a) /\ faults' \in Nat /\ Ran(body[a], PrintOf[a])
            /\ UNCHANGED <<entry, holder, outcome, executed, stored, excused>>
        BY SMTT(20), <2>t, <2>4 DEF Refresh, Working, Fault, OwnResult
      <3>2. PICK n \in Nat : n = body[a]
        BY Zenon, <2>t
      <3>3. Ran(n, PrintOf[a]) /\ (Answer(a, "success", n) \/ Answer(a, "failed", 0))
        BY Zenon, <2>4, <3>1, <3>2 DEF Refresh
      <3>. QED  BY Zenon, <3>1, <3>3, AnswerStep
    <2>5. CASE onSend(a)
      BY Zenon, <2>t, <2>5, SentStep DEF onSend
    <2>6. CASE ReserveFails(a)
      BY Zenon, <2>6, ReserveFailsStep
    <2>7. CASE Refuse(a)
      BY Zenon, <2>7, RefuseStep
    <2>8. CASE onSendFails(a)
      <3>1. excused' \in BOOLEAN /\ (excused => excused') /\ (outcome[a] # "failed" => excused')
        BY Zenon, <2>8 DEF onSendFails
      <3>2. faults' \in Nat
        BY SMTT(20), <2>t, <2>8 DEF onSendFails, Fault
      <3>. QED  BY Zenon, <2>8, <3>1, <3>2, SentStep DEF onSendFails
    <2>9. CASE Crash(a)
      BY Zenon, <2>9, CrashStep
    <2>10. CASE LoseAnswer(a)
      <3>1. ~Working(a) /\ faults' \in Nat
        BY SMTT(20), <2>t, <2>10 DEF LoseAnswer, Working, Fault
      <3>. QED  BY Zenon, <2>10, <3>1, AnswerStep DEF LoseAnswer
    <2>. QED
      BY Zenon, <1>3, <2>1, <2>2, <2>3, <2>4, <2>5, <2>6, <2>7, <2>8, <2>9, <2>10 DEF Served
  <1>. QED  BY Zenon, <1>1, <1>2, <1>3 DEF Next

-----------------------------------------------------------------------------

THEOREM IdempotencyInvariant == Spec => []IdempotencyInv
  BY IdempotencyInitial, IdempotencyStep, PTL DEF Spec

\* A success, fresh or replayed, is the result of an execution of the request
\* it answers.
THEOREM SuccessesAreOwn == Spec => []SuccessIsOwn
  <1>1. IdempotencyInv => SuccessIsOwn
    BY Zenon DEF IdempotencyInv, OwnResult, Ran, SuccessIsOwn
  <1>. QED  BY <1>1, IdempotencyInvariant, PTL

\* A second execution takes something the plugin says it cannot absorb.
THEOREM ExecutionsOnce == Spec => []ExecutedOnce
  <1>1. IdempotencyInv => ExecutedOnce
    BY SMTT(20) DEF IdempotencyInv, IdempotencyTypeOK, Exclusive, ExecutedOnce
  <1>. QED  BY <1>1, IdempotencyInvariant, PTL

\* A stored success stays for as long as its record lives.
THEOREM SuccessesStick == Spec => []SuccessSticks
  <1>1. IdempotencyInv => SuccessSticks
    BY Zenon DEF IdempotencyInv
  <1>. QED  BY <1>1, IdempotencyInvariant, PTL

-----------------------------------------------------------------------------
(* The claims of the activity interceptor.                                 *)

(* A running row is owned by the attempt that acquired it last, and holds  *)
(* that attempt's input, until the attempt's token ends.                   *)
ClaimInv ==
    status = "running" /\ owner # Ended => claimant = owner /\ input = InputOf[owner]

(* While nothing has failed, an attempt at work owns a lease that is live. *)
WorkInv ==
    activityFaults = 0 =>
        \A a \in ActivityAttempts : attemptPc[a] \in {"execute", "settled"} => Owns(a) /\ leaseLeft > 0

ActivityInv ==
    ActivityTypeOK /\ ClaimInv /\ AnswersAgree /\ ResultOfLastClaim /\ WorkInv

USE ActivityAssumption

(* The empty store satisfies the invariant. *)
LEMMA ActivityInitInv == ActivityInit => ActivityInv
  BY DEF ActivityInit, ActivityInv, ActivityTypeOK, ClaimInv, AnswersAgree, ResultOfLastClaim,
         WorkInv, Steps

(* A claim that acquires: the row was absent, or expired and of the same input. *)
LEMMA AcquireInv ==
  ASSUME ActivityInv, NEW a \in ActivityAttempts, ClaimInsert(a) \/ ClaimTakeover(a)
  PROVE  ActivityInv'
<1> USE DEF ActivityInv, ClaimInsert, ClaimTakeover, Acquire, Goto
<1>1. ActivityTypeOK'
  <2>1. result' \in IF status' = "completed" THEN ActivityAttempts ELSE {None}
    BY Zenon DEF ActivityTypeOK
  <2>2. attemptPc' \in [ActivityAttempts -> Steps] /\ lost' \in [ActivityAttempts -> BOOLEAN]
    BY Zenon DEF ActivityTypeOK, Steps
  <2>3. input' \in Inputs /\ leaseLeft' \in 0..LeaseLen /\ status' = "running"
    BY DEF ActivityTypeOK
  <2> QED BY Zenon, <2>1, <2>2, <2>3 DEF ActivityTypeOK
<1>2. ClaimInv'
  BY Zenon DEF ClaimInv
<1>3. AnswersAgree' /\ ResultOfLastClaim'
  BY Zenon DEF AnswersAgree, ResultOfLastClaim
<1>4. WorkInv'
  BY DEF WorkInv, Owns, Expired, ActivityTypeOK
<1> QED BY Zenon, <1>1, <1>2, <1>3, <1>4

(* The other answers of a claim leave the row as it is. *)
LEMMA ClaimAnswerInv ==
  ASSUME ActivityInv, NEW a \in ActivityAttempts,
         ClaimInProgress(a) \/ ClaimReplay(a) \/ ClaimConflict(a)
  PROVE  ActivityInv'
<1> USE DEF ActivityInv, ClaimInProgress, ClaimReplay, ClaimConflict, Goto, record
<1>1. ActivityTypeOK'
  BY DEF ActivityTypeOK, Steps
<1>2. ClaimInv' /\ ResultOfLastClaim'
  BY Zenon DEF ClaimInv, ResultOfLastClaim
<1>3. AnswersAgree'
  BY Zenon DEF AnswersAgree, ActivityTypeOK
<1>4. WorkInv'
  BY Zenon DEF WorkInv, Owns, ActivityTypeOK
<1> QED BY Zenon, <1>1, <1>2, <1>3, <1>4

(* The renewal timer moves the lease of its own claim only. *)
LEMMA RenewInv ==
  ASSUME ActivityInv, NEW a \in ActivityAttempts, Renew(a) \/ RenewFails(a)
  PROVE  ActivityInv'
<1> USE DEF ActivityInv, Renew, RenewFails, ActivityFault, record
<1>1. ActivityTypeOK'
  <2>1. leaseLeft' \in 0..LeaseLen /\ activityFaults' \in 0..MaxActivityFaults
    BY DEF ActivityTypeOK
  <2>2. lost' \in [ActivityAttempts -> BOOLEAN]
    BY Zenon DEF ActivityTypeOK
  <2> QED BY Zenon, <2>1, <2>2 DEF ActivityTypeOK
<1>2. ClaimInv' /\ AnswersAgree' /\ ResultOfLastClaim'
  BY Zenon DEF ClaimInv, AnswersAgree, ResultOfLastClaim
<1>3. WorkInv'
  BY DEF WorkInv, Owns, ActivityTypeOK
<1> QED BY Zenon, <1>1, <1>2, <1>3

(* Steps that move an attempt's program counter and nothing of the row. *)
LEMMA MoveInv ==
  ASSUME ActivityInv, NEW a \in ActivityAttempts,
         Finish(a) \/ WorkFails(a) \/ LeaseLost(a) \/ ReleaseFails(a) \/ WorkerCrash(a)
  PROVE  ActivityInv'
<1> USE DEF ActivityInv, Finish, WorkFails, LeaseLost, ReleaseFails, WorkerCrash, Goto, ActivityFault,
            record
<1>1. ActivityTypeOK'
  BY DEF ActivityTypeOK, Steps
<1>2. ClaimInv' /\ AnswersAgree' /\ ResultOfLastClaim'
  BY Zenon DEF ClaimInv, AnswersAgree, ResultOfLastClaim
<1>3. WorkInv'
  BY DEF WorkInv, Owns, ActivityTypeOK
<1> QED BY Zenon, <1>1, <1>2, <1>3

(* complete stores the result of the attempt that owns the live claim. *)
LEMMA CompleteInv ==
  ASSUME ActivityInv, NEW a \in ActivityAttempts, Complete(a) \/ CompleteFails(a)
  PROVE  ActivityInv'
<1> USE DEF ActivityInv, Complete, CompleteFails, Completes, SetCompleted, Owns, Goto, ActivityFault, record
<1>1. ActivityTypeOK'
  BY DEF ActivityTypeOK, Steps
<1>2. ClaimInv' /\ ResultOfLastClaim'
  BY Zenon DEF ClaimInv, ResultOfLastClaim, ActivityTypeOK
<1>3. AnswersAgree'
  BY Zenon DEF AnswersAgree, ClaimInv, ActivityTypeOK
<1>4. WorkInv'
  BY DEF WorkInv, ActivityTypeOK
<1> QED BY Zenon, <1>1, <1>2, <1>3, <1>4

(* release deletes the attempt's own running claim. *)
LEMMA ReleaseInv ==
  ASSUME ActivityInv, NEW a \in ActivityAttempts, Release(a)
  PROVE  ActivityInv'
<1> USE DEF ActivityInv, Release, Owns, Goto, record
<1>1. ActivityTypeOK'
  BY DEF ActivityTypeOK, Steps
<1>2. ClaimInv' /\ ResultOfLastClaim'
  BY Zenon DEF ClaimInv, ResultOfLastClaim
<1>3. AnswersAgree'
  BY Zenon DEF AnswersAgree
<1>4. WorkInv'
  BY Zenon DEF WorkInv, ActivityTypeOK
<1> QED BY Zenon, <1>1, <1>2, <1>3, <1>4

(* A retry has a new token; time takes the lease of a live owner to its    *)
(* end only in a stall.                                                    *)
LEMMA EnvironmentInv ==
  ASSUME ActivityInv, (\E a \in ActivityAttempts : Retry(a)) \/ Tick
  PROVE  ActivityInv'
<1> USE DEF ActivityInv
<1>1. ASSUME NEW a \in ActivityAttempts, Retry(a) PROVE ActivityInv'
  <2> USE <1>1 DEF Retry, Goto, Owns
  <2>1. ActivityTypeOK'
    BY Zenon DEF ActivityTypeOK, Steps
  <2>2. ClaimInv' /\ AnswersAgree' /\ ResultOfLastClaim'
    BY Zenon DEF ClaimInv, AnswersAgree, ResultOfLastClaim
  <2>3. WorkInv'
    BY Zenon DEF WorkInv, ActivityTypeOK
  <2> QED BY Zenon, <2>1, <2>2, <2>3
<1>2. ASSUME Tick PROVE ActivityInv'
  <2> USE <1>2 DEF Tick, ActivityFault
  <2>1. ActivityTypeOK'
    BY DEF ActivityTypeOK
  <2>2. ClaimInv' /\ AnswersAgree' /\ ResultOfLastClaim'
    BY Zenon DEF ClaimInv, AnswersAgree, ResultOfLastClaim
  <2>3. WorkInv'
    BY DEF WorkInv, Owns, Busy, ActivityTypeOK
  <2> QED BY Zenon, <2>1, <2>2, <2>3
<1> QED BY Zenon, <1>1, <1>2

(* Every step preserves the invariant. *)
LEMMA ActivityNextInv == ActivityInv /\ [ActivityNext]_activityVars => ActivityInv'
<1> SUFFICES ASSUME ActivityInv, [ActivityNext]_activityVars PROVE ActivityInv'
  BY Zenon
<1>1. CASE UNCHANGED activityVars
  BY Zenon, <1>1 DEF activityVars, ActivityInv, ActivityTypeOK, ClaimInv, AnswersAgree, ResultOfLastClaim,
              WorkInv, Owns
<1>2. ASSUME NEW a \in ActivityAttempts, Step(a) PROVE ActivityInv'
  BY Zenon, <1>2, AcquireInv, ClaimAnswerInv, RenewInv, MoveInv, CompleteInv, ReleaseInv DEF Step
<1>3. ASSUME NEW a \in ActivityAttempts, Failure(a) PROVE ActivityInv'
  BY Zenon, <1>3, RenewInv, MoveInv, CompleteInv DEF Failure
<1>4. CASE (\E a \in ActivityAttempts : Retry(a)) \/ Tick
  BY Zenon, <1>4, EnvironmentInv
<1> QED BY Zenon, <1>1, <1>2, <1>3, <1>4 DEF ActivityNext

(* The inductive invariant of the claim store. *)
THEOREM ActivityInvariant == ActivitySpec => []ActivityInv
  BY ActivityInitInv, ActivityNextInv, PTL DEF ActivitySpec

(* The row and the attempts keep their types. *)
THEOREM ActivityTyped == ActivitySpec => []ActivityTypeOK
  BY ActivityInvariant, PTL DEF ActivityInv

(* Every attempt that answers answers the one stored result. *)
THEOREM AnswersAlwaysAgree == ActivitySpec => []AnswersAgree
  BY ActivityInvariant, PTL DEF ActivityInv

(* A result is stored only by the attempt that acquired last. *)
THEOREM StaleWorkNeverStored == ActivitySpec => []ResultOfLastClaim
  BY ActivityInvariant, PTL DEF ActivityInv

(* Without faults the work of a key is never done twice at a time. *)
THEOREM WorkExclusive == ActivitySpec => []WorkNotOverlapped
<1>1. ActivityInv => WorkNotOverlapped
  BY Zenon DEF ActivityInv, WorkInv, WorkNotOverlapped, Owns
<1> QED BY <1>1, ActivityInvariant, PTL

(* A completed row is immutable. *)
THEOREM CompletedForGood == ActivitySpec => CompletedStands
<1>1. ASSUME ActivityInv, [ActivityNext]_activityVars, status = "completed" PROVE UNCHANGED record
  <2>1. CASE UNCHANGED activityVars
    BY Zenon, <2>1 DEF activityVars, record
  <2>2. ASSUME NEW a \in ActivityAttempts, Step(a) \/ Failure(a) \/ Retry(a) PROVE UNCHANGED record
    BY Zenon, <1>1, <2>2 DEF Step, Failure, Retry, ClaimInsert, ClaimTakeover, ClaimInProgress,
       ClaimReplay, ClaimConflict, Renew, RenewFails, Finish, WorkFails, Complete, LeaseLost,
       CompleteFails, Completes, Release, ReleaseFails, WorkerCrash, Owns, record
  <2>3. CASE Tick
    BY Zenon, <1>1, <2>3 DEF Tick
  <2> QED BY Zenon, <1>1, <2>1, <2>2, <2>3 DEF ActivityNext
<1>2. ActivityInv /\ [ActivityNext]_activityVars => [status = "completed" => UNCHANGED record]_activityVars
  BY Zenon, <1>1
<1> QED BY <1>2, ActivityInvariant, PTL DEF ActivitySpec, CompletedStands
=============================================================================
