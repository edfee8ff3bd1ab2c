-------------------------- MODULE HttpIdempotency --------------------------
(***************************************************************************)
(* The Idempotency-Key plugin of the control API, for one scoped key.      *)
(* Attempts with the key reserve it in the shared store before the handler *)
(* runs and store or release it when the response is sent.  Attempts of    *)
(* any number of processes, slow handlers whose reservation runs out,      *)
(* failing store calls, crashes and lost responses interleave.             *)
(***************************************************************************)
EXTENDS Naturals, Sequences, FiniteSets

CONSTANTS
    Attempts,       \* requests that carry the key; each is retried until it is final
    PrintOf,        \* PrintOf[a]: the fingerprint of method, path and body
    RefreshPrints,  \* the fingerprints of routes declared 'refresh-response'
    NoPrint,
    MaxFaults       \* bound on crashes, failing calls, lost responses, slow handlers

Prints == {PrintOf[a] : a \in Attempts}

ASSUME IdempotencyAssumption ==
    /\ PrintOf \in [Attempts -> Prints]
    /\ NoPrint \notin Prints
    /\ MaxFaults \in Nat

VARIABLES
    entry,      \* the record of the key: its state, fingerprint and body
    holder,     \* history: the attempts whose reservation has not run out
    pc,         \* pc[a]: where the attempt is
    outcome,    \* outcome[a]: what its handler has answered
    body,       \* body[a]: the execution its response is the result of
    answer,     \* answer[a]: what the client has been told
    executed,   \* executed: the fingerprints of the executions, in their order
    stored,     \* history: a success was stored and its record has not run out
    excused,    \* history: something happened that the plugin says it cannot absorb
    faults

vars == <<entry, holder, pc, outcome, body, answer, executed, stored, excused, faults>>

Fault == faults < MaxFaults /\ faults' = faults + 1

NoEntry == [state |-> "none", print |-> NoPrint, body |-> 0]
Pending(p) == [state |-> "pending", print |-> p, body |-> 0]
Completed(p, b) == [state |-> "completed", print |-> p, body |-> b]

Final == {"success", "conflict"}

-----------------------------------------------------------------------------
(* The scripts of the store.                                               *)

\* Mutant: a reservation of the same request does not stop a second one.
RESERVEshared(a) == entry.state = "none" \/ entry = Pending(PrintOf[a])
\* RESERVE answers false: the key is now reserved for this request.
RESERVE(a) == entry.state = "none"

\* Mutant: the response is written beside the fingerprint of the reservation.
COMPLETEkeeping(a) == entry' = Completed(IF entry.state = "none" THEN PrintOf[a] ELSE entry.print, body[a])
COMPLETE(a) == entry' = Completed(PrintOf[a], body[a])

\* Mutant: the key is deleted whatever it holds.
RELEASEany == entry' = NoEntry
RELEASE == entry' = IF entry.state = "pending" THEN NoEntry ELSE entry

-----------------------------------------------------------------------------
(* An attempt: the preHandler, the handler and the onSend hook.            *)

\* The client sends the request, or sends it again after an answer that is
\* not final.
Send(a) ==
    /\ pc[a] \in {"idle", "answered"}
    /\ answer[a] \notin Final
    /\ pc' = [pc EXCEPT ![a] = "arrived"]
    /\ answer' = [answer EXCEPT ![a] = "none"]
    /\ outcome' = [outcome EXCEPT ![a] = "none"]
    /\ body' = [body EXCEPT ![a] = 0]
    /\ UNCHANGED <<entry, holder, executed, stored, excused, faults>>

Answer(a, what, b) ==
    /\ pc' = [pc EXCEPT ![a] = "answered"]
    /\ answer' = [answer EXCEPT ![a] = what]
    /\ body' = [body EXCEPT ![a] = b]

\* reserve: what the preHandler does with the reply of the store.
Reserve(a) ==
    /\ pc[a] = "arrived"
    /\ \/ /\ RESERVE(a)
          /\ entry' = Pending(PrintOf[a])
          /\ holder' = holder \cup {a}
          /\ pc' = [pc EXCEPT ![a] = "running"]
          /\ UNCHANGED <<answer, body>>
       \/ /\ ~RESERVE(a)
          /\ UNCHANGED <<entry, holder>>
          /\ \/ entry.print # PrintOf[a] /\ Answer(a, "conflict", 0)
             \/ /\ entry.print = PrintOf[a]
                /\ \/ entry.state = "pending" /\ Answer(a, "inProgress", 0)
                   \/ /\ entry.state = "completed" /\ PrintOf[a] \notin RefreshPrints
                      /\ Answer(a, "success", entry.body)
                   \/ /\ entry.state = "completed" /\ PrintOf[a] \in RefreshPrints
                      /\ pc' = [pc EXCEPT ![a] = "refreshing"]
                      /\ body' = [body EXCEPT ![a] = entry.body]
                      /\ UNCHANGED answer
    /\ UNCHANGED <<outcome, executed, stored, excused, faults>>

\* The store fails, with or without the reservation: 503.
ReserveFails(a) ==
    /\ pc[a] = "arrived"
    /\ Fault
    /\ Answer(a, "unavailable", 0)
    /\ \/ entry.state = "none" /\ entry' = Pending(PrintOf[a])
       \/ UNCHANGED entry
    /\ UNCHANGED <<holder, outcome, executed, stored, excused>>

\* The handler runs: it mutates and answers with a response that can be
\* stored or one that is too large, or it refuses.
Handle(a) ==
    /\ pc[a] = "running"
    /\ pc' = [pc EXCEPT ![a] = "sending"]
    /\ \/ /\ outcome' = [outcome EXCEPT ![a] = "stored"]
          /\ UNCHANGED <<excused, faults>>
       \/ /\ outcome' = [outcome EXCEPT ![a] = "oversized"]
          /\ excused' = TRUE
          /\ Fault
    /\ executed' = Append(executed, PrintOf[a])
    /\ body' = [body EXCEPT ![a] = Len(executed) + 1]
    /\ UNCHANGED <<entry, holder, answer, stored>>

Refuse(a) ==
    /\ pc[a] = "running"
    /\ Fault
    /\ pc' = [pc EXCEPT ![a] = "sending"]
    /\ outcome' = [outcome EXCEPT ![a] = "failed"]
    /\ UNCHANGED <<entry, holder, body, answer, executed, stored, excused>>

\* The handler of a completed 'refresh-response' request: the response is
\* made anew from what the first execution left behind, and nothing is stored.
Refresh(a) ==
    /\ pc[a] = "refreshing"
    /\ \/ Answer(a, "success", body[a]) /\ UNCHANGED faults
       \/ Answer(a, "failed", 0) /\ Fault
    /\ UNCHANGED <<entry, holder, outcome, executed, stored, excused>>

Sent(a) ==
    /\ Answer(a, IF outcome[a] = "failed" THEN "failed" ELSE "success", body[a])
    /\ holder' = holder \ {a}

\* A success is stored, anything else gives the key back.
Recorded(a) ==
    \/ outcome[a] = "stored" /\ COMPLETE(a) /\ stored' = TRUE
    \/ outcome[a] # "stored" /\ RELEASE /\ UNCHANGED stored

onSend(a) ==
    /\ pc[a] = "sending"
    /\ Recorded(a)
    /\ Sent(a)
    /\ UNCHANGED <<outcome, executed, excused, faults>>

\* The store fails in onSend, with or without its effect: the response is
\* sent all the same.
onSendFails(a) ==
    /\ pc[a] = "sending"
    /\ Fault
    /\ Recorded(a) \/ UNCHANGED <<entry, stored>>
    /\ excused' = (excused \/ outcome[a] # "failed")
    /\ Sent(a)
    /\ UNCHANGED <<outcome, executed>>

\* The process ends before the handler has begun to change anything, or
\* between the handler and the hook.
Crash(a) ==
    /\ pc[a] \in {"running", "sending"}
    /\ Fault
    /\ excused' = (excused \/ body[a] # 0)
    /\ Answer(a, "lost", 0)
    /\ holder' = holder \ {a}
    /\ UNCHANGED <<entry, outcome, executed, stored>>

\* The client never sees the response.
LoseAnswer(a) ==
    /\ pc[a] = "answered"
    /\ answer[a] \in {"success", "failed"}
    /\ Fault
    /\ Answer(a, "lost", 0)
    /\ UNCHANGED <<entry, holder, outcome, executed, stored, excused>>

-----------------------------------------------------------------------------

\* Mutant: the reservation is set without a time to live.
ReservationStays == FALSE /\ UNCHANGED vars
\* RESERVATION_TTL_MS passes: at once when no attempt works under the
\* reservation, otherwise because its handler is slower than that.
ReservationExpires ==
    /\ entry.state = "pending"
    /\ entry' = NoEntry
    /\ holder' = {}
    /\ \/ holder = {} /\ UNCHANGED <<excused, faults>>
       \/ holder # {} /\ Fault /\ excused' = TRUE
    /\ UNCHANGED <<pc, outcome, body, answer, executed, stored>>

\* RECORD_TTL_MS passes.
RecordExpires ==
    /\ entry.state = "completed"
    /\ entry' = NoEntry
    /\ Fault
    /\ stored' = FALSE
    /\ excused' = TRUE
    /\ UNCHANGED <<holder, pc, outcome, body, answer, executed>>

-----------------------------------------------------------------------------

Init ==
    /\ entry = NoEntry
    /\ holder = {}
    /\ pc = [a \in Attempts |-> "idle"]
    /\ outcome = [a \in Attempts |-> "none"]
    /\ body = [a \in Attempts |-> 0]
    /\ answer = [a \in Attempts |-> "none"]
    /\ executed = <<>>
    /\ stored = FALSE
    /\ excused = FALSE
    /\ faults = 0

Served(a) == Reserve(a) \/ Handle(a) \/ Refresh(a) \/ onSend(a)

Next ==
    \/ \E a \in Attempts : Send(a) \/ Served(a) \/ ReserveFails(a) \/ Refuse(a)
                           \/ onSendFails(a) \/ Crash(a) \/ LoseAnswer(a)
    \/ ReservationExpires
    \/ RecordExpires

Spec == Init /\ [][Next]_vars

\* Requests are served, a reservation nobody works under runs out, and a
\* client retries until its answer is final.
Fairness ==
    /\ \A a \in Attempts : WF_vars(Served(a)) /\ WF_vars(pc[a] = "answered" /\ Send(a))
    /\ WF_vars(holder = {} /\ ReservationExpires)

FairSpec == Spec /\ Fairness

-----------------------------------------------------------------------------

\* Every variable has its type.
IdempotencyTypeOK ==
    /\ entry \in [state : {"none", "pending", "completed"}, print : Prints \cup {NoPrint}, body : Nat]
    /\ holder \in SUBSET Attempts
    /\ pc \in [Attempts -> {"idle", "arrived", "running", "refreshing", "sending", "answered"}]
    /\ outcome \in [Attempts -> {"none", "stored", "oversized", "failed"}]
    /\ body \in [Attempts -> Nat]
    /\ answer \in [Attempts -> {"none", "success", "conflict", "inProgress", "unavailable",
                                "failed", "lost"}]
    /\ executed \in Seq(Prints)
    /\ stored \in BOOLEAN
    /\ excused \in BOOLEAN
    /\ faults \in Nat

\* A success, fresh or replayed, is the result of an execution of the very
\* request it answers, whatever reservations ran out and whoever wrote the
\* record since.
SuccessIsOwn ==
    \A a \in Attempts : answer[a] = "success" =>
        /\ body[a] \in 1 .. Len(executed)
        /\ executed[body[a]] = PrintOf[a]

\* Retries, concurrent duplicates, refused handlers, lost responses and an
\* unavailable store never execute the request a second time: that takes what
\* the plugin says it cannot absorb, a handler slower than its reservation, a
\* record that could not be written, is too large or has run out, or a crash
\* after the mutation.
ExecutedOnce == Len(executed) > 1 => excused

\* A stored success stays in place for as long as its record lives: no late
\* release of an attempt that lost its reservation takes it away.
SuccessSticks == stored => entry.state = "completed"

\* An attempt that is retried ends with a success or a conflict; no reservation
\* left behind answers 409 for good.
RetriesEnd == \A a \in Attempts : (pc[a] = "arrived") ~> (answer[a] \in Final)

\* No two attempts are both told to proceed under a reservation that has not
\* run out.
ReservedByOne == Cardinality(holder) <= 1
=============================================================================
