----------------------- MODULE ReleaseLifecycleProofs -----------------------
(***************************************************************************)
(* For any number of requests, keys and faults: the requests implement the *)
(* abstract release record, and a workflow runs only for a release that    *)
(* was approved and cleared.  The inductive invariant says what a request  *)
(* under way knows of the release although its reads are stale.            *)
(***************************************************************************)
EXTENDS ReleaseLifecycle, TLAPS

Begun == status \in {"deploying", "healthy"}

\* The types of the variables of requests.
RequestTypes ==
    /\ job \in [Requests -> {"none", "create", "readiness", "approve", "deploy"}]
    /\ key \in [Requests -> Keys \cup {"none"}]
    /\ pc \in [Requests -> {"idle", "create", "tag", "get", "replay", "current", "apply", "start"}]
    /\ seen \in [Requests -> Record!Statuses \cup {"none"}]
    /\ report \in [Requests -> ReportStates \cup {"none"}]
    /\ opKey \in [Requests -> OperationKeys \cup {NoKey}]
    /\ from \in [Requests -> Record!Statuses \cup {"none"}]
    /\ to \in [Requests -> Record!Statuses \cup {"none"}]

\* The types of the other variables.
RecordTypes ==
    /\ status \in Record!Statuses \cup {"none"}
    /\ result \in [OperationKeys -> Record!Statuses \cup {"none"}]
    /\ tagged \in BOOLEAN
    /\ deployed \in SUBSET Keys
    /\ approved \in BOOLEAN
    /\ cleared \in BOOLEAN
    /\ faults \in Nat

\* What a request under way knows whatever the others do.
RequestOK(q) ==
    /\ job[q] \in {"approve", "deploy"} => key[q] \in Keys
    /\ pc[q] \in {"replay", "current", "apply"} =>
          /\ opKey[q] \in OperationKeys
          /\ to[q] \in ReportStates \cup {"verifying", "approved", "deploying", "healthy"}
          /\ to[q] = "deploying" => cleared
          /\ job[q] = "readiness" => report[q] \in ReportStates
    /\ pc[q] = "apply" => Allowed(from[q], to[q])
    /\ pc[q] = "start" => Begun /\ job[q] = "deploy"

\* How far the release has come, and what has led there.
RecordOK ==
    /\ status \in {"approved", "deploying", "healthy"} => approved
    /\ Begun => cleared
    /\ \A k \in OperationKeys : result[k] = "deploying" => Begun
    /\ deployed # {} => Begun

\* The inductive invariant.
ReleaseInv ==
    /\ RequestTypes
    /\ RecordTypes
    /\ RecordOK
    /\ \A q \in Requests : RequestOK(q)

\* A step of q leaves every other request where it is.
Alone(q) ==
    \A p \in Requests \ {q} :
        /\ job'[p] = job[p] /\ key'[p] = key[p] /\ pc'[p] = pc[p]
        /\ report'[p] = report[p] /\ opKey'[p] = opKey[p]
        /\ from'[p] = from[p] /\ to'[p] = to[p]

-----------------------------------------------------------------------------

LEMMA AllowedStatuses ==
    ASSUME NEW s, NEW t, Allowed(s, t)
    PROVE  /\ s \in Record!Statuses /\ t \in Record!Statuses
           /\ t = "approved" => s \in {"ready", "warnings"}
           /\ t = "deploying" => s = "approved"
           /\ t = "healthy" => s = "deploying"
           /\ s = "deploying" => t \in {"healthy", "failed"}
           /\ s = "healthy" => t = "superseded"
  BY Zenon DEF Allowed, Record!Statuses, Record!ALLOWED_TRANSITIONS

LEMMA KeyShapes ==
    /\ \A k \in Keys : <<"client", k>> \in OperationKeys /\ <<"healthy", k>> \in OperationKeys
    /\ \A s \in ReportStates : <<"readiness", s>> \in OperationKeys
    /\ <<"readiness", "verifying">> \in OperationKeys
  BY Zenon DEF OperationKeys, ReportStates

\* The end of a request: nothing is claimed of it.
LEMMA ForgottenKeeps ==
    ASSUME RequestTypes, NEW q \in Requests, Forgotten(q)
    PROVE  RequestTypes' /\ Alone(q) /\ RequestOK(q)'
  <1>1. RequestTypes'
    BY Zenon DEF RequestTypes, Forgotten, Goes
  <1>2. Alone(q)
    BY DEF RequestTypes, Forgotten, Goes, Alone
  <1>3. pc'[q] = "idle" /\ job'[q] = "none"
    BY Zenon DEF RequestTypes, Forgotten, Goes
  <1>4. RequestOK(q)'
    BY Zenon, <1>3 DEF RequestOK
  <1>. QED  BY Zenon, <1>1, <1>2, <1>4

\* A transition asked for with a proper key and aim.
LEMMA AsksKeeps ==
    ASSUME RequestTypes, NEW q \in Requests,
           NEW s \in ReportStates \cup {"verifying", "approved", "deploying", "healthy"},
           NEW k \in OperationKeys,
           Asks(q, s, k),
           s = "deploying" => cleared',
           UNCHANGED <<job, key>>,
           report' \in [Requests -> ReportStates \cup {"none"}],
           \A p \in Requests \ {q} : report'[p] = report[p],
           seen' \in [Requests -> Record!Statuses \cup {"none"}],
           job[q] \in {"approve", "deploy"} => key[q] \in Keys,
           job[q] = "readiness" => report'[q] \in ReportStates
    PROVE  RequestTypes' /\ Alone(q) /\ RequestOK(q)'
  <1>0. s \in Record!Statuses
    BY Zenon DEF ReportStates, Record!Statuses
  <1>1. RequestTypes'
    BY Zenon, <1>0 DEF RequestTypes, Asks, Goes
  <1>2. Alone(q)
    BY DEF RequestTypes, Asks, Goes, Alone
  <1>3. pc'[q] = "replay" /\ opKey'[q] = k /\ to'[q] = s
    BY DEF RequestTypes, Asks, Goes
  <1>4. RequestOK(q)'
    BY Zenon, <1>3 DEF RequestOK
  <1>. QED  BY Zenon, <1>1, <1>2, <1>4

\* The other requests keep what they know when the release does not go back.
LEMMA OthersKeep ==
    ASSUME NEW q \in Requests, \A p \in Requests : RequestOK(p),
           Alone(q), RequestOK(q)',
           Begun => Begun', cleared => cleared'
    PROVE  \A p \in Requests : RequestOK(p)'
  <1>. TAKE p \in Requests
  <1>1. CASE p = q
    BY Zenon, <1>1
  <1>2. CASE p # q
    <2>1. /\ job'[p] = job[p] /\ key'[p] = key[p] /\ pc'[p] = pc[p]
          /\ report'[p] = report[p] /\ opKey'[p] = opKey[p]
          /\ from'[p] = from[p] /\ to'[p] = to[p]
      BY Zenon, <1>2 DEF Alone
    <2>2. RequestOK(p)
      BY Zenon
    <2>. QED  BY Zenon, <2>1, <2>2 DEF RequestOK
  <1>. QED  BY Zenon, <1>1, <1>2

\* A step that leaves the record alone, except that it may clear the release
\* and mark it tagged.
LEMMA RequestStep ==
    ASSUME ReleaseInv, NEW q \in Requests,
           UNCHANGED <<status, result, deployed, approved>>,
           tagged' \in BOOLEAN, faults' \in Nat,
           cleared' \in BOOLEAN, cleared => cleared',
           RequestTypes', Alone(q), RequestOK(q)'
    PROVE  ReleaseInv'
  <1>1. RecordTypes'
    BY Zenon DEF ReleaseInv, RecordTypes
  <1>2. Begun' = Begun
    BY Zenon DEF Begun
  <1>3. RecordOK'
    BY Zenon, <1>2 DEF ReleaseInv, RecordOK
  <1>4. \A p \in Requests : RequestOK(p)'
    BY Zenon, <1>2, OthersKeep DEF ReleaseInv
  <1>. QED  BY Zenon, <1>1, <1>3, <1>4 DEF ReleaseInv

\* What follows an applied or replayed transition.
LEMMA AnsweredKeeps ==
    ASSUME RequestTypes, NEW q \in Requests, RequestOK(q),
           pc[q] \in {"replay", "apply"}, Answered(q),
           to[q] = "deploying" => Begun'
    PROVE  RequestTypes' /\ Alone(q) /\ RequestOK(q)'
  <1>1. CASE /\ job[q] = "readiness" /\ to[q] = "verifying"
             /\ Asks(q, report[q], <<"readiness", report[q]>>)
             /\ UNCHANGED <<job, key, seen, report>>
    <2>1. report[q] \in ReportStates /\ report[q] # "deploying"
      BY Zenon, <1>1 DEF RequestOK, ReportStates
    <2>2. <<"readiness", report[q]>> \in OperationKeys
      BY Zenon, <2>1, KeyShapes
    <2>3. PICK s \in ReportStates : s = report[q]
      BY Zenon, <2>1
    <2>4. PICK k \in OperationKeys : k = <<"readiness", report[q]>>
      BY Zenon, <2>2
    <2>5. Asks(q, s, k) /\ s # "deploying"
      BY Zenon, <1>1, <2>1, <2>3, <2>4
    <2>6. /\ report' \in [Requests -> ReportStates \cup {"none"}]
          /\ \A p \in Requests \ {q} : report'[p] = report[p]
          /\ seen' \in [Requests -> Record!Statuses \cup {"none"}]
          /\ job[q] \in {"approve", "deploy"} => key[q] \in Keys
          /\ report'[q] \in ReportStates
      BY Zenon, <1>1, <2>1 DEF RequestTypes
    <2>. QED  BY Zenon, <1>1, <2>5, <2>6, AsksKeeps
  <1>2. CASE /\ job[q] = "deploy" /\ to[q] = "deploying"
             /\ Goes(q, "start")
             /\ seen' = [seen EXCEPT ![q] = "deploying"]
             /\ UNCHANGED <<job, key, report, opKey, from, to>>
    <2>1. RequestTypes'
      BY Zenon, <1>2 DEF RequestTypes, Goes, Record!Statuses
    <2>2. Alone(q)
      BY Zenon, <1>2 DEF RequestTypes, Goes, Alone
    <2>3. pc'[q] = "start" /\ job'[q] = "deploy" /\ key'[q] = key[q]
      BY Zenon, <1>2 DEF RequestTypes, Goes
    <2>4. RequestOK(q)'
      BY Zenon, <1>2, <2>3 DEF RequestOK
    <2>. QED  BY Zenon, <2>1, <2>2, <2>4
  <1>3. CASE Forgotten(q)
    BY Zenon, <1>3, ForgottenKeeps
  <1>. QED  BY Zenon, <1>1, <1>2, <1>3 DEF Answered

-----------------------------------------------------------------------------
(* One lemma for each action.                                              *)

LEMMA BeginStep ==
    ASSUME ReleaseInv, NEW q \in Requests,
           NEW what \in {"create", "readiness", "approve", "deploy"},
           NEW k \in Keys \cup {"none"},
           what \in {"approve", "deploy"} => k \in Keys,
           Begin(q, what, k)
    PROVE  ReleaseInv'
  <1>0. RequestTypes /\ cleared \in BOOLEAN /\ tagged \in BOOLEAN /\ faults \in Nat
    BY Zenon DEF ReleaseInv, RecordTypes
  <1>1. RequestTypes'
    BY Zenon, <1>0 DEF RequestTypes, Begin, Goes
  <1>2. Alone(q)
    BY Zenon, <1>0 DEF RequestTypes, Begin, Goes, Alone
  <1>3. pc'[q] \in {"create", "get"} /\ job'[q] = what /\ key'[q] = k
    BY Zenon, <1>0 DEF RequestTypes, Begin, Goes
  <1>4. RequestOK(q)'
    BY Zenon, <1>3 DEF RequestOK
  <1>. QED  BY Zenon, <1>0, <1>1, <1>2, <1>4, RequestStep DEF Begin, record

LEMMA CreateStep ==
    ASSUME ReleaseInv, NEW q \in Requests, Create(q)
    PROVE  ReleaseInv' /\ (Record!Create \/ UNCHANGED <<status, AppliedKeys>>)
  <1>0. RequestTypes
    BY Zenon DEF ReleaseInv
  <1>1. RequestTypes'
    BY Zenon, <1>0 DEF RequestTypes, Create, Goes
  <1>2. Alone(q)
    BY Zenon, <1>0 DEF RequestTypes, Create, Goes, Alone
  <1>3. pc'[q] = "tag" /\ job'[q] = job[q] /\ key'[q] = key[q]
    BY Zenon, <1>0 DEF RequestTypes, Create, Goes
  <1>4. RequestOK(q)'
    BY Zenon, <1>3 DEF RequestOK, ReleaseInv
  <1>5. AppliedKeys' = AppliedKeys
    BY Zenon DEF Create, AppliedKeys
  <1>6. CASE status # "none"
    <2>1. UNCHANGED <<status, AppliedKeys>>
      BY Zenon, <1>5, <1>6 DEF Create
    <2>2. ReleaseInv'
      BY Zenon, <1>1, <1>2, <1>4, <1>6, RequestStep DEF Create, ReleaseInv, RecordTypes
    <2>. QED  BY Zenon, <2>1, <2>2
  <1>7. CASE status = "none"
    <2>1. status' = "candidate" /\ UNCHANGED <<result, tagged, deployed, approved, cleared, faults>>
      BY Zenon, <1>7 DEF Create
    <2>2. ~Begun /\ ~Begun'
      BY Zenon, <1>7, <2>1 DEF Begun
    <2>3. RecordTypes'
      BY Zenon, <2>1 DEF ReleaseInv, RecordTypes, Record!Statuses
    <2>4. RecordOK'
      BY Zenon, <2>1, <2>2 DEF ReleaseInv, RecordOK
    <2>5. \A p \in Requests : RequestOK(p)'
      BY Zenon, <1>2, <1>4, <2>1, <2>2, OthersKeep DEF ReleaseInv
    <2>6. Record!Create
      BY Zenon, <1>5, <1>7, <2>1 DEF Record!Create
    <2>. QED  BY Zenon, <1>1, <2>3, <2>4, <2>5, <2>6 DEF ReleaseInv
  <1>. QED  BY Zenon, <1>6, <1>7

\* Every action in which a request only ends.
LEMMA EndStep ==
    ASSUME ReleaseInv, NEW q \in Requests, Forgotten(q),
           UNCHANGED <<status, result, deployed, approved, cleared>>,
           tagged' \in BOOLEAN, faults' \in Nat
    PROVE  ReleaseInv'
  BY Zenon, ForgottenKeeps, RequestStep DEF ReleaseInv, RecordTypes

LEMMA ReplayStep ==
    ASSUME ReleaseInv, NEW q \in Requests, getTransitionReplay(q)
    PROVE  ReleaseInv'
  <1>0. /\ RequestTypes /\ RequestOK(q) /\ pc[q] = "replay"
        /\ UNCHANGED <<status, result, tagged, deployed, approved, cleared, faults>>
        /\ tagged' \in BOOLEAN /\ faults' \in Nat /\ cleared' \in BOOLEAN
    BY Zenon DEF ReleaseInv, RecordTypes, getTransitionReplay, record
  <1>1. CASE Replays(q) /\ Answered(q)
    <2>1. opKey[q] \in OperationKeys
      BY Zenon, <1>0 DEF RequestOK
    <2>2. to[q] = "deploying" => Begun'
      BY Zenon, <1>0, <1>1, <2>1 DEF Replays, ReleaseInv, RecordOK, Begun
    <2>3. RequestTypes' /\ Alone(q) /\ RequestOK(q)'
      BY Zenon, <1>0, <1>1, <2>2, AnsweredKeeps
    <2>. QED  BY Zenon, <1>0, <2>3, RequestStep
  <1>2. CASE Forgotten(q)
    BY Zenon, <1>0, <1>2, EndStep
  <1>3. CASE /\ Goes(q, "current")
             /\ UNCHANGED <<job, key, seen, report, opKey, from, to>>
    <2>1. RequestTypes'
      BY Zenon, <1>0, <1>3 DEF RequestTypes, Goes
    <2>2. Alone(q)
      BY Zenon, <1>0, <1>3 DEF RequestTypes, Goes, Alone
    <2>3. pc'[q] = "current"
      BY Zenon, <1>0, <1>3 DEF RequestTypes, Goes
    <2>4. RequestOK(q)'
      BY Zenon, <1>0, <1>3, <2>3 DEF RequestOK
    <2>. QED  BY Zenon, <1>0, <2>1, <2>2, <2>4, RequestStep
  <1>. QED  BY Zenon, <1>1, <1>2, <1>3 DEF getTransitionReplay

LEMMA ReadStep ==
    ASSUME ReleaseInv, NEW q \in Requests, ReadCurrent(q)
    PROVE  ReleaseInv'
  <1>0. /\ RequestTypes /\ RequestOK(q) /\ pc[q] = "current"
        /\ status \in Record!Statuses \cup {"none"}
        /\ UNCHANGED <<status, result, tagged, deployed, approved, cleared, faults>>
        /\ tagged' \in BOOLEAN /\ faults' \in Nat /\ cleared' \in BOOLEAN
    BY Zenon DEF ReleaseInv, RecordTypes, ReadCurrent, record
  <1>1. CASE /\ Allowed(status, to[q])
             /\ from' = [from EXCEPT ![q] = status]
             /\ Goes(q, "apply")
             /\ UNCHANGED <<job, key, seen, report, opKey, to>>
    <2>1. RequestTypes'
      BY Zenon, <1>0, <1>1 DEF RequestTypes, Goes
    <2>2. Alone(q)
      BY Zenon, <1>0, <1>1 DEF RequestTypes, Goes, Alone
    <2>3. pc'[q] = "apply" /\ from'[q] = status
      BY Zenon, <1>0, <1>1 DEF RequestTypes, Goes
    <2>4. RequestOK(q)'
      BY Zenon, <1>0, <1>1, <2>3 DEF RequestOK
    <2>. QED  BY Zenon, <1>0, <2>1, <2>2, <2>4, RequestStep
  <1>2. CASE Forgotten(q)
    BY Zenon, <1>0, <1>2, EndStep
  <1>. QED  BY Zenon, <1>1, <1>2 DEF ReadCurrent

\* The transaction is a move of the abstract record, or leaves it as it is.
LEMMA TransitionStep ==
    ASSUME ReleaseInv, NEW q \in Requests, transition(q)
    PROVE  /\ ReleaseInv'
           /\ (\E k \in OperationKeys : Record!Move(k)) \/ UNCHANGED <<status, AppliedKeys>>
  <1>0. /\ RequestTypes /\ RecordTypes /\ RecordOK /\ RequestOK(q) /\ pc[q] = "apply"
        /\ UNCHANGED <<tagged, deployed, cleared, faults>>
        /\ tagged' \in BOOLEAN /\ faults' \in Nat /\ cleared' \in BOOLEAN
    BY Zenon DEF ReleaseInv, RecordTypes, transition
  <1>k. /\ opKey[q] \in OperationKeys
        /\ to[q] \in ReportStates \cup {"verifying", "approved", "deploying", "healthy"}
        /\ to[q] = "deploying" => cleared
        /\ Allowed(from[q], to[q])
    BY Zenon, <1>0 DEF RequestOK
  <1>1. CASE Replays(q) /\ Answered(q) /\ UNCHANGED <<status, result, approved>>
    <2>1. to[q] = "deploying" => Begun'
      BY Zenon, <1>0, <1>1, <1>k DEF Replays, RecordOK, Begun
    <2>2. RequestTypes' /\ Alone(q) /\ RequestOK(q)'
      BY Zenon, <1>0, <1>1, <2>1, AnsweredKeeps
    <2>3. UNCHANGED <<status, AppliedKeys>>
      BY Zenon, <1>1 DEF AppliedKeys
    <2>. QED  BY Zenon, <1>0, <1>1, <2>2, <2>3, RequestStep
  <1>2. CASE Forgotten(q) /\ UNCHANGED <<status, result, approved>>
    <2>1. UNCHANGED <<status, AppliedKeys>>
      BY Zenon, <1>2 DEF AppliedKeys
    <2>. QED  BY Zenon, <1>0, <1>2, <2>1, EndStep
  <1>3. CASE /\ Fresh(q)
             /\ status' = to[q]
             /\ result' = [result EXCEPT ![opKey[q]] = to[q]]
             /\ approved' = (approved \/ to[q] = "approved")
             /\ Answered(q)
    <2>1. PICK k \in OperationKeys : k = opKey[q]
      BY Zenon, <1>k
    <2>2. PICK t \in Record!Statuses : t = to[q]
      BY Zenon, <1>k, AllowedStatuses
    <2>3. /\ result[k] = "none" /\ status' = t
          /\ result' = [result EXCEPT ![k] = t]
          /\ approved' = (approved \/ t = "approved")
          /\ Allowed(status, t)
          /\ t \in ReportStates \cup {"verifying", "approved", "deploying", "healthy"}
          /\ t = "deploying" => cleared
      BY Zenon, <1>3, <1>k, <2>1, <2>2 DEF Fresh
    <2>4. /\ status \in Record!Statuses
          /\ t = "approved" => status \in {"ready", "warnings"}
          /\ t = "deploying" => status = "approved"
          /\ t = "healthy" => status = "deploying"
          /\ status = "deploying" => t = "healthy"
          /\ status # "healthy"
      BY Zenon, <2>3, AllowedStatuses DEF ReportStates
    <2>5. Begun => Begun'
      BY Zenon, <2>3, <2>4 DEF Begun
    <2>6. RecordTypes'
      BY Zenon, <1>0, <2>3 DEF RecordTypes
    <2>7. RecordOK'
      <3>1. status' \in {"approved", "deploying", "healthy"} => approved'
        BY Zenon, <1>0, <2>3, <2>4 DEF RecordOK
      <3>2. Begun' => cleared'
        BY Zenon, <1>0, <2>3, <2>4 DEF RecordOK, Begun
      <3>3. \A j \in OperationKeys : result'[j] = "deploying" => Begun'
        BY Zenon, <1>0, <2>3, <2>5 DEF RecordOK, RecordTypes, Begun
      <3>4. deployed' # {} => Begun'
        BY Zenon, <1>0, <2>5 DEF RecordOK
      <3>. QED  BY Zenon, <3>1, <3>2, <3>3, <3>4 DEF RecordOK
    <2>8. to[q] = "deploying" => Begun'
      BY Zenon, <2>2, <2>3 DEF Begun
    <2>9. RequestTypes' /\ Alone(q) /\ RequestOK(q)'
      BY Zenon, <1>0, <1>3, <2>8, AnsweredKeeps
    <2>10. \A p \in Requests : RequestOK(p)'
      BY Zenon, <1>0, <2>5, <2>9, OthersKeep DEF ReleaseInv
    <2>11. AppliedKeys' = AppliedKeys \cup {k} /\ k \notin AppliedKeys
      <3>1. t # "none"
        BY Zenon DEF Record!Statuses
      <3>2. \A j \in OperationKeys : result'[j] = IF j = k THEN t ELSE result[j]
        BY Zenon, <1>0, <2>3 DEF RecordTypes
      <3>. QED  BY Zenon, <2>3, <3>1, <3>2 DEF AppliedKeys
    <2>12. Record!Move(k)
      BY Zenon, <2>3, <2>4, <2>11 DEF Record!Move, Allowed
    <2>. QED  BY Zenon, <2>6, <2>7, <2>9, <2>10, <2>12 DEF ReleaseInv
  <1>. QED  BY Zenon, <1>1, <1>2, <1>3 DEF transition

LEMMA ReadinessStep ==
    ASSUME ReleaseInv, NEW q \in Requests, Readiness(q)
    PROVE  ReleaseInv'
  <1>0. /\ RequestTypes /\ RequestOK(q) /\ job[q] = "readiness"
        /\ status \in Record!Statuses \cup {"none"}
        /\ UNCHANGED <<status, result, tagged, deployed, approved, cleared, faults>>
        /\ tagged' \in BOOLEAN /\ faults' \in Nat /\ cleared' \in BOOLEAN
    BY Zenon DEF ReleaseInv, RecordTypes, Readiness, record
  <1>1. CASE Forgotten(q)
    BY Zenon, <1>0, <1>1, EndStep
  <1>2. CASE \E s \in ReportStates :
                /\ report' = [report EXCEPT ![q] = s]
                /\ seen' = [seen EXCEPT ![q] = status]
                /\ Asks(q, "verifying", <<"readiness", "verifying">>)
                /\ UNCHANGED <<job, key>>
    <2>1. PICK s \in ReportStates :
                /\ report' = [report EXCEPT ![q] = s]
                /\ seen' = [seen EXCEPT ![q] = status]
                /\ Asks(q, "verifying", <<"readiness", "verifying">>)
                /\ UNCHANGED <<job, key>>
      BY Zenon, <1>2
    <2>2. /\ report' \in [Requests -> ReportStates \cup {"none"}]
          /\ \A p \in Requests \ {q} : report'[p] = report[p]
          /\ seen' \in [Requests -> Record!Statuses \cup {"none"}]
          /\ report'[q] \in ReportStates
      BY Zenon, <1>0, <2>1 DEF RequestTypes
    <2>3. PICK k \in OperationKeys : k = <<"readiness", "verifying">>
      BY Zenon, KeyShapes
    <2>4. RequestTypes' /\ Alone(q) /\ RequestOK(q)'
      BY SMTT(20), <1>0, <2>1, <2>2, <2>3, AsksKeeps
    <2>. QED  BY Zenon, <1>0, <2>4, RequestStep
  <1>. QED  BY Zenon, <1>1, <1>2 DEF Readiness

LEMMA ApproveStep ==
    ASSUME ReleaseInv, NEW q \in Requests, Approve(q)
    PROVE  ReleaseInv'
  <1>0. /\ RequestTypes /\ RequestOK(q) /\ job[q] = "approve" /\ key[q] \in Keys
        /\ UNCHANGED <<status, result, tagged, deployed, approved, cleared, faults>>
        /\ tagged' \in BOOLEAN /\ faults' \in Nat /\ cleared' \in BOOLEAN
    BY Zenon DEF ReleaseInv, RecordTypes, Approve, record, RequestOK
  <1>1. CASE Forgotten(q)
    BY Zenon, <1>0, <1>1, EndStep
  <1>2. CASE /\ Asks(q, "approved", <<"client", key[q]>>)
             /\ UNCHANGED <<job, key, seen, report>>
    <2>1. PICK k \in OperationKeys : k = <<"client", key[q]>>
      BY Zenon, <1>0, KeyShapes
    <2>2. /\ report' \in [Requests -> ReportStates \cup {"none"}]
          /\ \A p \in Requests \ {q} : report'[p] = report[p]
          /\ seen' \in [Requests -> Record!Statuses \cup {"none"}]
      BY Zenon, <1>0, <1>2 DEF RequestTypes
    <2>3. Asks(q, "approved", k)
      BY Zenon, <1>2, <2>1
    <2>4. RequestTypes' /\ Alone(q) /\ RequestOK(q)'
      BY Zenon, <1>0, <1>2, <2>2, <2>3, AsksKeeps
    <2>. QED  BY Zenon, <1>0, <2>4, RequestStep
  <1>. QED  BY Zenon, <1>1, <1>2 DEF Approve

LEMMA DeployStep ==
    ASSUME ReleaseInv, NEW q \in Requests, Deploy(q)
    PROVE  ReleaseInv'
  <1>0. /\ RequestTypes /\ RequestOK(q) /\ job[q] = "deploy" /\ key[q] \in Keys
        /\ status \in Record!Statuses \cup {"none"}
        /\ seen' = [seen EXCEPT ![q] = status]
        /\ UNCHANGED <<status, result, tagged, deployed, approved, faults>>
        /\ tagged' \in BOOLEAN /\ faults' \in Nat /\ cleared \in BOOLEAN
    BY Zenon DEF ReleaseInv, RecordTypes, Deploy, record, RequestOK
  <1>1. CASE /\ MayDeploy(status) /\ status # "approved"
             /\ Goes(q, "start")
             /\ UNCHANGED <<job, key, report, opKey, from, to, cleared>>
    <2>1. RequestTypes'
      BY Zenon, <1>0, <1>1 DEF RequestTypes, Goes
    <2>2. Alone(q)
      BY SMTT(20), <1>0, <1>1 DEF RequestTypes, Goes, Alone
    <2>3. pc'[q] = "start" /\ job'[q] = "deploy" /\ key'[q] = key[q] /\ Begun'
      BY Zenon, <1>0, <1>1 DEF RequestTypes, Goes, MayDeploy, Begun
    <2>4. RequestOK(q)'
      BY Zenon, <1>0, <2>3 DEF RequestOK
    <2>. QED  BY Zenon, <1>0, <1>1, <2>1, <2>2, <2>4, RequestStep
  <1>2. CASE /\ \E s \in ReportStates \ {"blocked"} : report' = [report EXCEPT ![q] = s]
             /\ cleared' = TRUE
             /\ Asks(q, "deploying", <<"client", key[q]>>)
             /\ UNCHANGED <<job, key>>
    <2>1. PICK k \in OperationKeys : k = <<"client", key[q]>>
      BY Zenon, <1>0, KeyShapes
    <2>2. /\ report' \in [Requests -> ReportStates \cup {"none"}]
          /\ \A p \in Requests \ {q} : report'[p] = report[p]
      BY SMTT(20), <1>0, <1>2 DEF RequestTypes
    <2>3. seen' \in [Requests -> Record!Statuses \cup {"none"}]
      BY Zenon, <1>0 DEF RequestTypes
    <2>4. Asks(q, "deploying", k)
      BY Zenon, <1>2, <2>1
    <2>5. RequestTypes' /\ Alone(q) /\ RequestOK(q)'
      BY Zenon, <1>0, <1>2, <2>2, <2>3, <2>4, AsksKeeps
    <2>. QED  BY Zenon, <1>0, <1>2, <2>5, RequestStep
  <1>. QED  BY Zenon, <1>1, <1>2 DEF Deploy

\* A workflow is started for a release that has begun its deployment.
LEMMA WorkflowStep ==
    ASSUME ReleaseInv, NEW q \in Requests, pc[q] = "start",
           deployed' = deployed \cup {key[q]},
           UNCHANGED <<status, result, tagged, approved, cleared>>, faults' \in Nat,
           \/ Forgotten(q)
           \/ Asks(q, "healthy", <<"healthy", key[q]>>) /\ UNCHANGED <<job, key, seen, report>>
    PROVE  ReleaseInv'
  <1>0. /\ RequestTypes /\ RecordTypes /\ RecordOK /\ RequestOK(q)
        /\ Begun /\ job[q] = "deploy" /\ key[q] \in Keys
    BY Zenon DEF ReleaseInv, RequestOK
  <1>1. RequestTypes' /\ Alone(q) /\ RequestOK(q)'
    <2>1. CASE Forgotten(q)
      BY Zenon, <1>0, <2>1, ForgottenKeeps
    <2>2. CASE Asks(q, "healthy", <<"healthy", key[q]>>) /\ UNCHANGED <<job, key, seen, report>>
      <3>1. PICK k \in OperationKeys : k = <<"healthy", key[q]>>
        BY Zenon, <1>0, KeyShapes
      <3>2. Asks(q, "healthy", k)
        BY Zenon, <2>2, <3>1
      <3>3. /\ report' \in [Requests -> ReportStates \cup {"none"}]
            /\ seen' \in [Requests -> Record!Statuses \cup {"none"}]
        BY Zenon, <1>0, <2>2 DEF RequestTypes
      <3>. QED  BY Zenon, <1>0, <2>2, <3>2, <3>3, AsksKeeps
    <2>. QED  BY Zenon, <2>1, <2>2
  <1>2. Begun' = Begun
    BY Zenon DEF Begun
  <1>3. RecordTypes'
    BY Zenon, <1>0 DEF RecordTypes
  <1>4. RecordOK'
    BY Zenon, <1>0, <1>2 DEF RecordOK
  <1>5. \A p \in Requests : RequestOK(p)'
    BY Zenon, <1>1, <1>2, OthersKeep DEF ReleaseInv
  <1>. QED  BY Zenon, <1>1, <1>3, <1>4, <1>5 DEF ReleaseInv

-----------------------------------------------------------------------------

LEMMA ReleaseInitial == Init => ReleaseInv /\ Record!Init
  <1>. SUFFICES ASSUME Init PROVE ReleaseInv /\ Record!Init
    BY Zenon
  <1>1. RequestTypes /\ RecordTypes
    BY Zenon DEF Init, RequestTypes, RecordTypes
  <1>2. RecordOK
    BY Zenon DEF Init, RecordOK, Begun
  <1>3. \A q \in Requests : RequestOK(q)
    BY Zenon DEF Init, RequestOK
  <1>4. Record!Init
    BY Zenon DEF Init, AppliedKeys, Record!Init
  <1>. QED  BY Zenon, <1>1, <1>2, <1>3, <1>4 DEF ReleaseInv

\* A step keeps the invariant and is a step of the abstract record.
LEMMA ReleaseStep ==
    ASSUME ReleaseInv, [Next]_vars
    PROVE  ReleaseInv' /\ [Record!Next]_<<status, AppliedKeys>>
  <1>s. ASSUME UNCHANGED <<status, result>>
        PROVE  UNCHANGED <<status, AppliedKeys>>
    BY Zenon, <1>s DEF AppliedKeys
  <1>t. ReleaseInv => tagged \in BOOLEAN /\ faults \in Nat /\ faults + 1 \in Nat
    BY DEF ReleaseInv, RecordTypes
  <1>1. CASE UNCHANGED vars
    <2>1. UNCHANGED record /\ UNCHANGED request /\ UNCHANGED <<approved, cleared, faults>>
      BY Zenon, <1>1 DEF vars
    <2>2. Begun' = Begun
      BY Zenon, <2>1 DEF Begun, record
    <2>3. RequestTypes' /\ RecordTypes'
      BY Zenon, <2>1 DEF record, request, ReleaseInv, RequestTypes, RecordTypes
    <2>4. RecordOK'
      BY Zenon, <2>1, <2>2 DEF record, ReleaseInv, RecordOK
    <2>5. \A q \in Requests : RequestOK(q)'
      BY Zenon, <2>1, <2>2 DEF request, ReleaseInv, RequestOK
    <2>. QED  BY Zenon, <1>s, <2>1, <2>3, <2>4, <2>5 DEF record, ReleaseInv
  <1>2. CASE Next
    <2>1. PICK q \in Requests : Sends(q) \/ Step(q) \/ WorkflowFails(q) \/ Fails(q)
      BY Zenon, <1>2 DEF Next
    <2>2. CASE Sends(q)
      <3>1. PICK what \in {"create", "readiness", "approve", "deploy"}, k \in Keys \cup {"none"} :
               /\ what \in {"approve", "deploy"} => k \in Keys
               /\ Begin(q, what, k)
        BY Zenon, <2>2 DEF Sends
      <3>2. UNCHANGED <<status, result>>
        BY Zenon, <3>1 DEF Begin, record
      <3>. QED  BY Zenon, <1>s, <3>1, <3>2, BeginStep
    <2>3. CASE Create(q)
      BY Zenon, <2>3, CreateStep DEF Record!Next
    <2>4. CASE Tag(q)
      <3>1. ReleaseInv'
        BY Zenon, <1>t, <2>4, EndStep DEF Tag
      <3>. QED  BY Zenon, <1>s, <2>4, <3>1 DEF Tag
    <2>5. CASE Readiness(q)
      BY Zenon, <1>s, <2>5, ReadinessStep DEF Readiness, record
    <2>6. CASE Approve(q)
      BY Zenon, <1>s, <2>6, ApproveStep DEF Approve, record
    <2>7. CASE Deploy(q)
      BY Zenon, <1>s, <2>7, DeployStep DEF Deploy, record
    <2>8. CASE DeployRefused(q)
      <3>1. ReleaseInv'
        BY Zenon, <1>t, <2>8, EndStep DEF DeployRefused, record
      <3>. QED  BY Zenon, <1>s, <2>8, <3>1 DEF DeployRefused, record
    <2>9. CASE StartWorkflow(q)
      <3>1. ReleaseInv'
        BY Zenon, <1>t, <2>9, WorkflowStep DEF StartWorkflow
      <3>. QED  BY Zenon, <1>s, <2>9, <3>1 DEF StartWorkflow
    <2>10. CASE getTransitionReplay(q)
      BY Zenon, <1>s, <2>10, ReplayStep DEF getTransitionReplay, record
    <2>11. CASE ReadCurrent(q)
      BY Zenon, <1>s, <2>11, ReadStep DEF ReadCurrent, record
    <2>12. CASE transition(q)
      BY Zenon, <2>12, TransitionStep DEF Record!Next
    <2>13. CASE WorkflowFails(q)
      <3>1. ReleaseInv'
        BY Zenon, <1>t, <2>13, WorkflowStep DEF WorkflowFails, Fault
      <3>. QED  BY Zenon, <1>s, <2>13, <3>1 DEF WorkflowFails
    <2>14. CASE Fails(q)
      <3>1. ReleaseInv'
        BY Zenon, <1>t, <2>14, EndStep DEF Fails, Fault, record
      <3>. QED  BY Zenon, <1>s, <2>14, <3>1 DEF Fails, record
    <2>. QED
      BY Zenon, <2>1, <2>2, <2>3, <2>4, <2>5, <2>6, <2>7, <2>8, <2>9, <2>10, <2>11, <2>12,
         <2>13, <2>14 DEF Step
  <1>. QED  BY Zenon, <1>1, <1>2

-----------------------------------------------------------------------------

THEOREM ReleaseInvariant == Spec => []ReleaseInv
  BY ReleaseInitial, ReleaseStep, PTL DEF Spec

\* The requests of the release service implement the release record: it is
\* created once, moves along the allowed transitions only, and at most once for
\* each operation key, however the reads of the requests are interleaved.
THEOREM RecordRefined == Spec => RecordImplemented
  <1>1. Init => Record!Init
    BY Zenon, ReleaseInitial
  <1>2. ReleaseInv /\ [Next]_vars => [Record!Next]_<<status, AppliedKeys>>
    BY Zenon, ReleaseStep
  <1>. QED  BY <1>1, <1>2, ReleaseInvariant, PTL DEF Spec, RecordImplemented, Record!Spec

\* A deployment workflow runs only for a release that was approved, found not
\* blocked by a deployment request, and has begun its deployment.
THEOREM DeploymentsCleared == Spec => []DeployedWasCleared
  <1>1. ReleaseInv => DeployedWasCleared
    BY Zenon DEF ReleaseInv, RecordOK, Begun, DeployedWasCleared
  <1>. QED  BY <1>1, ReleaseInvariant, PTL
=============================================================================
