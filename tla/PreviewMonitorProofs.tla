------------------------ MODULE PreviewMonitorProofs ------------------------
(***************************************************************************)
(* For any replicas and bounds: a stored failure is never of a server      *)
(* older than the last claim, an activated observation ends only with a    *)
(* failure stored or with the workspace, and a terminated workspace is not *)
(* observed.  The inductive invariant says that only the newest token can  *)
(* own the row, and what its loop and its requests know.                   *)
(***************************************************************************)
EXTENDS PreviewMonitor, TLAPS

Typed ==
    /\ gen \in Nat /\ fence \in Nat /\ activated \in Nat
    /\ row \in {"ready", "terminated"}
    /\ enabled \in BOOLEAN
    /\ issued \in 0 .. MaxTokens
    /\ owner \in 0 .. MaxTokens
    /\ pc \in [Tokens -> LoopStates]
    /\ page \in [Tokens -> Nat]
    /\ requests \in SUBSET [token : Tokens, gen : Nat, awaited : BOOLEAN]

\* Only the newest token owns the row, and the servers are in their order.
RowOK ==
    /\ activated <= fence /\ fence <= gen
    /\ owner \in {NoToken, issued}
    /\ row = "terminated" => ~enabled /\ owner = NoToken
    /\ ObservationKept
    /\ FencedReports

\* What the loop of a token knows.
LoopOK(t) ==
    /\ pc[t] # "idle" => t <= issued
    /\ pc[t] = "renewing" /\ t = issued => page[t] >= fence
    /\ pc[t] = "completing" => owner # t

\* What an event on its way is about.
RequestOK(q) == q.token <= issued /\ (q.token = issued => q.gen >= fence)

\* The inductive invariant.
MonitorInv ==
    /\ Typed
    /\ RowOK
    /\ \A t \in Tokens : LoopOK(t)
    /\ \A q \in requests : RequestOK(q)

-----------------------------------------------------------------------------
(* What leaves the parts of the invariant as they are.                     *)

LEMMA TokenFacts ==
    /\ MaxTokens \in Nat /\ NoToken = 0 /\ NoToken \notin Tokens /\ NoToken \in 0 .. MaxTokens
    /\ \A t \in Tokens : t \in Nat /\ t \in 0 .. MaxTokens
  BY MonitorAssumption DEF MaxTokens, Tokens, NoToken

\* Loops stay where they are or go on to where nothing is claimed of them.
LEMMA LoopsKept ==
    ASSUME MonitorInv, UNCHANGED <<issued, fence>>, owner' \in {owner, NoToken},
           \A t \in Tokens : \/ pc'[t] = pc[t] /\ page'[t] = page[t]
                             \/ /\ pc[t] # "idle" \/ t <= issued
                                /\ pc'[t] \in {"waiting", "sent", "releasing", "done"}
    PROVE  \A t \in Tokens : LoopOK(t)'
  <1>. TAKE t \in Tokens
  <1>1. LoopOK(t) /\ NoToken # t
    BY Zenon, TokenFacts DEF MonitorInv
  <1>2. CASE pc'[t] = pc[t] /\ page'[t] = page[t]
    BY Zenon, <1>1, <1>2 DEF LoopOK
  <1>3. CASE /\ pc[t] # "idle" \/ t <= issued
             /\ pc'[t] \in {"waiting", "sent", "releasing", "done"}
    BY Zenon, <1>1, <1>3 DEF LoopOK
  <1>. QED  BY Zenon, <1>2, <1>3

\* No event is new.
LEMMA RequestsKept ==
    ASSUME MonitorInv, UNCHANGED <<issued, fence>>,
           \A q \in requests' : \E p \in requests : q.token = p.token /\ q.gen = p.gen
    PROVE  \A q \in requests' : RequestOK(q)'
  <1>. TAKE q \in requests'
  <1>1. PICK p \in requests : q.token = p.token /\ q.gen = p.gen
    BY Zenon
  <1>2. RequestOK(p)
    BY Zenon DEF MonitorInv
  <1>. QED  BY Zenon, <1>1, <1>2 DEF RequestOK

\* The lease may be given up or run out.
LEMMA RowKept ==
    ASSUME MonitorInv, UNCHANGED <<issued, fence, activated, row, enabled, reports>>,
           gen' \in Nat, gen <= gen', owner' \in {owner, NoToken}
    PROVE  RowOK' /\ owner' \in 0 .. MaxTokens
  <1>1. Typed /\ RowOK
    BY Zenon DEF MonitorInv
  <1>2. owner' \in 0 .. MaxTokens
    BY Zenon, <1>1, TokenFacts DEF Typed
  <1>3. fence' <= gen' /\ activated' <= fence'
    BY <1>1 DEF Typed, RowOK
  <1>4. owner' \in {NoToken, issued'} /\ (row' = "terminated" => ~enabled' /\ owner' = NoToken)
    BY Zenon, <1>1 DEF RowOK
  <1>5. ObservationKept' /\ FencedReports'
    BY Zenon, <1>1 DEF RowOK, ObservationKept, FencedReports
  <1>. QED  BY Zenon, <1>2, <1>3, <1>4, <1>5 DEF RowOK

\* A step that leaves the loops and the events alone.
LEMMA OutsideStep ==
    ASSUME MonitorInv, UNCHANGED <<issued, fence, activated, row, enabled, reports, pc, page, requests>>,
           gen' \in Nat, gen <= gen', owner' \in {owner, NoToken}
    PROVE  MonitorInv'
  <1>0. Typed
    BY Zenon DEF MonitorInv
  <1>1. RowOK' /\ owner' \in 0 .. MaxTokens
    BY Zenon, RowKept
  <1>2. Typed'
    BY Zenon, <1>0, <1>1 DEF Typed
  <1>3. \A t \in Tokens : LoopOK(t)'
    BY Zenon, LoopsKept
  <1>4. \A q \in requests' : RequestOK(q)'
    BY Zenon, RequestsKept
  <1>. QED  BY Zenon, <1>1, <1>2, <1>3, <1>4 DEF MonitorInv

\* A loop goes on, its lease may be given up, and no event is new.
LEMMA LoopStepKeeps ==
    ASSUME MonitorInv, NEW t \in Tokens, UNCHANGED <<issued, fence, activated, row, enabled, reports, gen>>,
           owner' \in {owner, NoToken}, requests' \subseteq requests,
           pc[t] # "idle",
           NEW where \in {"waiting", "sent", "releasing", "done"},
           pc' = [pc EXCEPT ![t] = where], page' = [page EXCEPT ![t] = 0]
    PROVE  MonitorInv'
  <1>0. Typed /\ gen \in Nat
    BY Zenon DEF MonitorInv, Typed
  <1>1. RowOK' /\ owner' \in 0 .. MaxTokens
    BY <1>0, RowKept
  <1>2. Typed'
    BY Zenon, <1>0, <1>1 DEF Typed, LoopStates
  <1>3. \A u \in Tokens : \/ pc'[u] = pc[u] /\ page'[u] = page[u]
                          \/ pc[u] # "idle" /\ pc'[u] \in {"waiting", "sent", "releasing", "done"}
    BY Zenon, <1>0 DEF Typed
  <1>4. \A u \in Tokens : LoopOK(u)'
    BY Zenon, <1>3, LoopsKept
  <1>5. \A q \in requests' : RequestOK(q)'
    BY Zenon, RequestsKept
  <1>. QED  BY Zenon, <1>1, <1>2, <1>4, <1>5 DEF MonitorInv

LEMMA EndsGoes ==
    ASSUME NEW t, Ends(t)
    PROVE  /\ page' = [page EXCEPT ![t] = 0]
           /\ \E where \in {"waiting", "sent", "releasing", "done"} : pc' = [pc EXCEPT ![t] = where]
  BY Zenon DEF Ends

LEMMA ReleaseRow ==
    ASSUME NEW t, release(t)
    PROVE  owner' \in {owner, NoToken} /\ UNCHANGED <<row, enabled>>
  BY Zenon DEF release, NoLease, dbRow

-----------------------------------------------------------------------------
(* A claim: the new token is the newest, and nothing is known of it yet.   *)

LEMMA ClaimStep ==
    ASSUME MonitorInv, NEW r, NEW k, NEW answer \in {"waiting", "releasing", "done"},
           Acquire(r, k, answer), UNCHANGED <<gen, page, requests, reports>>
    PROVE  MonitorInv'
  <1>. DEFINE n == issued + 1
  <1>0. /\ Typed /\ RowOK
        /\ \A t \in Tokens : LoopOK(t)
        /\ \A q \in requests : RequestOK(q)
    BY Zenon DEF MonitorInv
  <1>1. /\ issued < MaxTokens /\ issued' = n /\ owner' = n /\ fence' = gen
        /\ pc' = [pc EXCEPT ![n] = answer]
        /\ row = "ready" /\ row' = row
    BY Zenon DEF Acquire, activateAndClaim, claim, TakeLease, CanActivate, CanClaim
  <1>2. n \in Tokens /\ n \in 0 .. MaxTokens /\ issued \in Nat /\ MaxTokens \in Nat
    BY <1>0, <1>1, TokenFacts DEF Typed, Tokens
  <1>3. \/ enabled' = TRUE /\ activated' = gen
        \/ UNCHANGED <<enabled, activated>> /\ enabled
    BY Zenon DEF Acquire, activateAndClaim, claim, CanClaim
  <1>4. Typed'
    <2>1. enabled' \in BOOLEAN /\ activated' \in Nat
      BY Zenon, <1>0, <1>3 DEF Typed
    <2>2. pc' \in [Tokens -> LoopStates]
      BY Zenon, <1>0, <1>1 DEF Typed, LoopStates
    <2>. QED  BY Zenon, <1>0, <1>1, <1>2, <2>1, <2>2 DEF Typed
  <1>5. RowOK'
    <2>1. activated' <= fence' /\ fence' <= gen'
      BY <1>0, <1>1, <1>3 DEF Typed, RowOK
    <2>2. enabled' = TRUE
      BY Zenon, <1>0, <1>3 DEF Typed
    <2>3. ObservationKept' /\ FencedReports'
      BY Zenon, <1>0, <2>2 DEF RowOK, ObservationKept, FencedReports
    <2>. QED  BY Zenon, <1>1, <2>1, <2>3 DEF RowOK
  <1>6. \A t \in Tokens : LoopOK(t)'
    <2>. TAKE t \in Tokens
    <2>1. LoopOK(t) /\ t \in Nat
      BY Zenon, <1>0, TokenFacts
    <2>2. CASE t = n
      <3>1. pc'[t] = answer
        BY Zenon, <1>0, <1>1, <2>2 DEF Typed
      <3>. QED  BY <1>1, <1>2, <2>2, <3>1 DEF LoopOK
    <2>3. CASE t # n
      <3>1. pc'[t] = pc[t] /\ page'[t] = page[t]
        BY Zenon, <1>0, <1>1, <2>3 DEF Typed
      <3>. QED  BY <1>1, <1>2, <2>1, <2>3, <3>1 DEF LoopOK
    <2>. QED  BY Zenon, <2>2, <2>3
  <1>7. \A q \in requests' : RequestOK(q)'
    <2>. TAKE q \in requests'
    <2>1. RequestOK(q) /\ q.token \in Nat
      BY Zenon, <1>0, TokenFacts DEF Typed
    <2>. QED  BY <1>1, <1>2, <2>1 DEF RequestOK
  <1>. QED  BY Zenon, <1>4, <1>5, <1>6, <1>7 DEF MonitorInv

LEMMA ReplicaSteps ==
    ASSUME MonitorInv, NEW r \in Replicas,
           \/ Enter(r) \/ ReleaseOld(r) \/ ReleaseOldFails(r) \/ Standby(r)
           \/ Close(r) \/ Closed(r) \/ DevServer(r)
    PROVE  MonitorInv'
  <1>1. gen \in Nat
    BY Zenon DEF MonitorInv, Typed
  <1>2. CASE Enter(r)
    <2>1. /\ UNCHANGED <<issued, fence, activated, row, enabled, reports, pc, page, requests>>
          /\ gen' = gen /\ owner' = owner
      BY Zenon, <1>2 DEF Enter, world, dbRow
    <2>. QED  BY <1>1, <2>1, OutsideStep
  <1>3. CASE ReleaseOld(r)
    <2>1. owner' \in {owner, NoToken} /\ UNCHANGED <<row, enabled>>
      BY Zenon, <1>3, ReleaseRow DEF ReleaseOld
    <2>2. UNCHANGED <<issued, fence, activated, reports, pc, page, requests, gen>>
      BY Zenon, <1>3 DEF ReleaseOld, world, looping
    <2>. QED  BY <1>1, <2>1, <2>2, OutsideStep
  <1>4. CASE ReleaseOldFails(r)
    <2>1. /\ UNCHANGED <<issued, fence, activated, row, enabled, reports, pc, page, requests>>
          /\ gen' = gen /\ owner' = owner
      BY Zenon, <1>4 DEF ReleaseOldFails, world, dbRow, looping, history
    <2>. QED  BY <1>1, <2>1, OutsideStep
  <1>5. CASE Standby(r)
    <2>1. /\ UNCHANGED <<issued, fence, activated, row, enabled, reports, pc, page, requests>>
          /\ gen' = gen /\ owner' = owner
      BY Zenon, <1>5 DEF Standby, world, dbRow, looping
    <2>. QED  BY <1>1, <2>1, OutsideStep
  <1>6. CASE Close(r)
    <2>1. /\ UNCHANGED <<issued, fence, activated, row, enabled, reports, pc, page, requests>>
          /\ gen' = gen /\ owner' = owner
      BY Zenon, <1>6 DEF Close, world, dbRow, looping, history
    <2>. QED  BY <1>1, <2>1, OutsideStep
  <1>7. CASE Closed(r)
    <2>1. owner' \in {owner, NoToken} /\ UNCHANGED <<row, enabled>>
      BY Zenon, <1>7, ReleaseRow DEF Closed
    <2>2. UNCHANGED <<issued, fence, activated, reports, pc, page, requests, gen>>
      BY Zenon, <1>7 DEF Closed, world, history
    <2>. QED  BY <1>1, <2>1, <2>2, OutsideStep
  <1>8. CASE DevServer(r)
    <2>1. gen' \in Nat /\ gen <= gen'
      BY <1>1, <1>8 DEF DevServer
    <2>2. UNCHANGED <<issued, fence, activated, row, enabled, reports, pc, page, requests, owner>>
      BY Zenon, <1>8 DEF DevServer, dbRow, looping, history
    <2>. QED  BY Zenon, <2>1, <2>2, OutsideStep
  <1>. QED  BY Zenon, <1>2, <1>3, <1>4, <1>5, <1>6, <1>7, <1>8

LEMMA ClaimSteps ==
    ASSUME MonitorInv, NEW r \in Replicas, NEW k \in Claimants, Claim(r, k) \/ ClaimFails(r, k)
    PROVE  MonitorInv'
  <1>1. gen \in Nat
    BY Zenon DEF MonitorInv, Typed
  <1>2. UNCHANGED <<gen, page, requests, reports>>
    BY Zenon DEF Claim, ClaimFails, world
  <1>3. CASE \E answer \in {"waiting", "releasing", "done"} : Acquire(r, k, answer)
    BY Zenon, <1>2, <1>3, ClaimStep
  <1>4. CASE UNCHANGED <<dbRow, issued, place, pc, fence, activated>>
    BY <1>1, <1>2, <1>4, OutsideStep DEF dbRow
  <1>5. \/ \E answer \in {"waiting", "releasing", "done"} : Acquire(r, k, answer)
        \/ UNCHANGED <<dbRow, issued, place, pc, fence, activated>>
    BY Zenon DEF Claim, ClaimFails
  <1>. QED  BY Zenon, <1>3, <1>4, <1>5

-----------------------------------------------------------------------------
(* The loop.                                                               *)

LEMMA PollStep ==
    ASSUME MonitorInv, NEW t \in Tokens, Poll(t)
    PROVE  MonitorInv'
  <1>1. /\ UNCHANGED <<issued, fence, activated, row, enabled, reports, gen, owner, requests>>
        /\ pc[t] = "waiting"
    BY Zenon DEF Poll, LoopFrame, dbRow
  <1>2. CASE Ends(t)
    BY Zenon, <1>1, <1>2, EndsGoes, LoopStepKeeps
  <1>3. CASE Goes(t, "waiting", 0)
    BY Zenon, <1>1, <1>3, LoopStepKeeps DEF Goes
  <1>4. CASE renew(t) /\ Goes(t, "renewing", gen)
    <2>0. Typed /\ RowOK /\ gen \in Nat /\ \A u \in Tokens : LoopOK(u)
      BY Zenon DEF MonitorInv, Typed
    <2>1. RowOK'
      BY <1>1, <2>0, RowKept
    <2>2. pc' = [pc EXCEPT ![t] = "renewing"] /\ page' = [page EXCEPT ![t] = gen]
      BY Zenon, <1>4 DEF Goes
    <2>3. Typed'
      BY Zenon, <1>1, <2>0, <2>2 DEF Typed, LoopStates
    <2>4. \A u \in Tokens : LoopOK(u)'
      <3>. TAKE u \in Tokens
      <3>1. LoopOK(u)
        BY Zenon, <2>0
      <3>2. CASE u # t
        <4>1. pc'[u] = pc[u] /\ page'[u] = page[u]
          BY Zenon, <2>0, <2>2, <3>2 DEF Typed
        <4>. QED  BY Zenon, <1>1, <3>1, <4>1 DEF LoopOK
      <3>3. CASE u = t
        <4>1. pc'[u] = "renewing" /\ page'[u] = gen
          BY Zenon, <2>0, <2>2, <3>3 DEF Typed
        <4>2. gen >= fence
          BY Zenon, <2>0 DEF RowOK, Typed
        <4>3. u <= issued
          BY Zenon, <1>1, <3>1, <3>3 DEF LoopOK
        <4>. QED  BY Zenon, <1>1, <4>1, <4>2, <4>3 DEF LoopOK
      <3>. QED  BY Zenon, <3>2, <3>3
    <2>5. \A q \in requests' : RequestOK(q)'
      BY Zenon, <1>1, RequestsKept
    <2>. QED  BY Zenon, <2>1, <2>3, <2>4, <2>5 DEF MonitorInv
  <1>. QED  BY Zenon, <1>2, <1>3, <1>4 DEF Poll

LEMMA ReportStep ==
    ASSUME MonitorInv, NEW t \in Tokens, Report(t)
    PROVE  MonitorInv'
  <1>1. /\ UNCHANGED <<issued, fence, activated, row, enabled, reports, gen, owner>>
        /\ pc[t] = "renewing"
    BY Zenon DEF Report, LoopFrame, dbRow
  <1>2. CASE Ends(t) /\ UNCHANGED requests
    BY Zenon, <1>1, <1>2, EndsGoes, LoopStepKeeps
  <1>3. CASE /\ renew(t) /\ Goes(t, "sent", 0)
             /\ requests' = requests \cup {[token |-> t, gen |-> page[t], awaited |-> TRUE]}
    <2>0. /\ Typed /\ RowOK /\ gen \in Nat /\ page[t] \in Nat
          /\ \A u \in Tokens : LoopOK(u)
          /\ \A q \in requests : RequestOK(q)
      BY Zenon DEF MonitorInv, Typed
    <2>1. RowOK'
      BY <1>1, <2>0, RowKept
    <2>2. pc' = [pc EXCEPT ![t] = "sent"] /\ page' = [page EXCEPT ![t] = 0]
      BY Zenon, <1>3 DEF Goes
    <2>3. Typed'
      <3>1. [token |-> t, gen |-> page[t], awaited |-> TRUE] \in [token : Tokens, gen : Nat, awaited : BOOLEAN]
        BY Zenon, <2>0
      <3>2. requests' \in SUBSET [token : Tokens, gen : Nat, awaited : BOOLEAN]
        BY Zenon, <1>3, <2>0, <3>1 DEF Typed
      <3>3. pc' \in [Tokens -> LoopStates] /\ page' \in [Tokens -> Nat]
        BY Zenon, <2>0, <2>2 DEF Typed, LoopStates
      <3>. QED  BY Zenon, <1>1, <2>0, <3>2, <3>3 DEF Typed
    <2>4. \A u \in Tokens : \/ pc'[u] = pc[u] /\ page'[u] = page[u]
                            \/ pc[u] # "idle" /\ pc'[u] \in {"waiting", "sent", "releasing", "done"}
      BY Zenon, <1>1, <2>0, <2>2 DEF Typed
    <2>5. \A u \in Tokens : LoopOK(u)'
      BY Zenon, <1>1, <2>4, LoopsKept
    <2>6. \A q \in requests' : RequestOK(q)'
      <3>. TAKE q \in requests'
      <3>1. CASE q \in requests
        BY Zenon, <1>1, <2>0, <3>1 DEF RequestOK
      <3>2. CASE q.token = t /\ q.gen = page[t]
        <4>1. t <= issued /\ (t = issued => page[t] >= fence)
          BY Zenon, <1>1, <2>0 DEF LoopOK
        <4>. QED  BY Zenon, <1>1, <3>2, <4>1 DEF RequestOK
      <3>. QED  BY <1>3, <3>1, <3>2
    <2>. QED  BY Zenon, <2>1, <2>3, <2>5, <2>6 DEF MonitorInv
  <1>. QED  BY Zenon, <1>2, <1>3 DEF Report

LEMMA CompleteStep ==
    ASSUME MonitorInv, NEW t \in Tokens, Complete(t)
    PROVE  MonitorInv'
  <1>1. owner # t
    BY Zenon DEF Complete, MonitorInv, LoopOK
  <1>2. UNCHANGED dbRow
    BY Zenon, <1>1 DEF Complete, complete, Holds
  <1>3. /\ UNCHANGED <<issued, fence, activated, row, enabled, reports, gen, owner, requests>>
        /\ pc[t] = "completing" /\ Ends(t)
    BY Zenon, <1>2 DEF Complete, LoopFrame, dbRow
  <1>. QED  BY Zenon, <1>3, EndsGoes, LoopStepKeeps

LEMMA ReleaseLeaseStep ==
    ASSUME MonitorInv, NEW t \in Tokens, ReleaseLease(t)
    PROVE  MonitorInv'
  <1>1. owner' \in {owner, NoToken} /\ UNCHANGED <<row, enabled>>
    BY Zenon, ReleaseRow DEF ReleaseLease
  <1>2. /\ UNCHANGED <<issued, fence, activated, reports, gen, requests>>
        /\ pc[t] = "releasing"
        /\ pc' = [pc EXCEPT ![t] = "done"] /\ page' = [page EXCEPT ![t] = 0]
    BY Zenon DEF ReleaseLease, LoopFrame, Goes
  <1>. QED  BY Zenon, <1>1, <1>2, LoopStepKeeps

\* A failing call leaves the events of other loops and, of this one's, those
\* it no longer waits for.
LEMMA LoopFailsStep ==
    ASSUME MonitorInv, NEW t \in Tokens, LoopFails(t)
    PROVE  MonitorInv'
  <1>0. Typed /\ gen \in Nat
    BY Zenon DEF MonitorInv, Typed
  <1>1. /\ UNCHANGED <<issued, fence, activated, row, enabled, reports, gen, owner>>
        /\ pc[t] # "idle"
        /\ pc' = [pc EXCEPT ![t] = "waiting"] /\ page' = [page EXCEPT ![t] = 0]
    BY Zenon DEF LoopFails, LoopFrame, dbRow, Goes
  <1>2. \A q \in requests' : \E p \in requests : q = p \/ q = [p EXCEPT !.awaited = FALSE]
    BY Zenon DEF LoopFails
  <1>3. requests' \in SUBSET [token : Tokens, gen : Nat, awaited : BOOLEAN]
    BY ZenonT(30), <1>0, <1>2 DEF Typed
  <1>4. \A q \in requests' : \E p \in requests : q.token = p.token /\ q.gen = p.gen
    <2>. TAKE q \in requests'
    <2>1. PICK p \in requests : q = p \/ q = [p EXCEPT !.awaited = FALSE]
      BY Zenon, <1>2
    <2>2. p \in [token : Tokens, gen : Nat, awaited : BOOLEAN]
      BY Zenon, <1>0 DEF Typed
    <2>. QED  BY Zenon, <2>1, <2>2
  <1>5. RowOK'
    BY <1>0, <1>1, RowKept
  <1>6. \A u \in Tokens : \/ pc'[u] = pc[u] /\ page'[u] = page[u]
                          \/ pc[u] # "idle" /\ pc'[u] \in {"waiting", "sent", "releasing", "done"}
    BY Zenon, <1>0, <1>1 DEF Typed
  <1>7. \A u \in Tokens : LoopOK(u)'
    BY Zenon, <1>1, <1>6, LoopsKept
  <1>8. \A q \in requests' : RequestOK(q)'
    BY Zenon, <1>1, <1>4, RequestsKept
  <1>9. pc' \in [Tokens -> LoopStates] /\ page' \in [Tokens -> Nat]
    BY Zenon, <1>0, <1>1 DEF Typed, LoopStates
  <1>10. Typed'
    BY Zenon, <1>0, <1>1, <1>3, <1>9 DEF Typed
  <1>. QED  BY Zenon, <1>5, <1>7, <1>8, <1>10 DEF MonitorInv

-----------------------------------------------------------------------------
(* The control plane.  The event it stores is the newest token's, so it is *)
(* of a server no older than the last claim and the last activation.       *)

LEMMA StoredStep ==
    ASSUME MonitorInv, NEW q \in requests, Ingest(q), stores(q.token)
    PROVE  MonitorInv'
  <1>0. /\ Typed /\ RowOK /\ gen \in Nat
        /\ \A t \in Tokens : LoopOK(t)
        /\ q \in [token : Tokens, gen : Nat, awaited : BOOLEAN]
    BY Zenon DEF MonitorInv, Typed
  <1>1. /\ UNCHANGED <<issued, fence, activated, row, gen>>
        /\ requests' \subseteq requests
        /\ reports' = reports \cup {[gen |-> q.gen, fence |-> fence, settled |-> settled]}
        /\ enabled' = FALSE /\ owner' = NoToken
        /\ Answered(q, "completing")
    BY Zenon DEF Ingest, LoopFrame, NoLease
  <1>2. q.gen >= fence /\ q.gen >= activated
    <2>1. q.token # NoToken /\ owner = q.token
      BY Zenon, <1>0, TokenFacts DEF stores
    <2>2. q.token = issued /\ RequestOK(q)
      BY Zenon, <1>0, <2>1 DEF RowOK, MonitorInv
    <2>. QED  BY <1>0, <2>2 DEF RequestOK, RowOK, Typed
  <1>3. \/ pc' = [pc EXCEPT ![q.token] = "completing"] /\ page' = [page EXCEPT ![q.token] = 0]
        \/ UNCHANGED <<pc, page>>
    BY Zenon, <1>1 DEF Answered, Goes
  <1>4. Typed'
    <2>1. pc' \in [Tokens -> LoopStates] /\ page' \in [Tokens -> Nat]
      BY <1>0, <1>3 DEF Typed, LoopStates
    <2>2. requests' \in SUBSET [token : Tokens, gen : Nat, awaited : BOOLEAN]
      BY Zenon, <1>0, <1>1 DEF Typed
    <2>3. owner' \in 0 .. MaxTokens /\ enabled' \in BOOLEAN
      BY Zenon, <1>1, TokenFacts
    <2>. QED  BY Zenon, <1>0, <1>1, <2>1, <2>2, <2>3 DEF Typed
  <1>5. RowOK'
    <2>1. FencedReports'
      BY <1>0, <1>1, <1>2 DEF RowOK, FencedReports
    <2>2. ObservationKept'
      <3>. DEFINE new == [gen |-> q.gen, fence |-> fence, settled |-> settled]
      <3>1. new \in reports'
        BY Zenon, <1>1
      <3>2. new.gen >= activated'
        BY Zenon, <1>1, <1>2
      <3>. HIDE DEF new
      <3>. QED  BY Zenon, <3>1, <3>2 DEF ObservationKept
    <2>3. /\ activated' <= fence' /\ fence' <= gen' /\ owner' \in {NoToken, issued'}
          /\ ~enabled' /\ owner' = NoToken
      BY Zenon, <1>0, <1>1 DEF RowOK
    <2>. QED  BY Zenon, <2>1, <2>2, <2>3 DEF RowOK
  <1>6. \A t \in Tokens : LoopOK(t)'
    <2>. TAKE t \in Tokens
    <2>1. LoopOK(t) /\ NoToken # t
      BY Zenon, <1>0, TokenFacts
    <2>2. CASE pc'[t] = pc[t] /\ page'[t] = page[t]
      BY Zenon, <1>1, <2>1, <2>2 DEF LoopOK
    <2>3. CASE t = q.token /\ pc'[t] = "completing"
      <3>1. t <= issued
        BY Zenon, <2>3 DEF MonitorInv, RequestOK
      <3>. QED  BY Zenon, <1>1, <2>1, <2>3, <3>1 DEF LoopOK
    <2>4. \/ pc'[t] = pc[t] /\ page'[t] = page[t]
          \/ t = q.token /\ pc'[t] = "completing"
      BY Zenon, <1>0, <1>3 DEF Typed
    <2>. QED  BY Zenon, <2>2, <2>3, <2>4
  <1>7. \A p \in requests' : RequestOK(p)'
    BY Zenon, <1>1, RequestsKept
  <1>. QED  BY Zenon, <1>4, <1>5, <1>6, <1>7 DEF MonitorInv

LEMMA IngestStep ==
    ASSUME MonitorInv, NEW q \in requests, Ingest(q)
    PROVE  MonitorInv'
  <1>1. CASE stores(q.token)
    BY Zenon, <1>1, StoredStep
  <1>2. CASE ~stores(q.token)
    <2>0. /\ Typed /\ gen \in Nat
          /\ q \in [token : Tokens, gen : Nat, awaited : BOOLEAN] /\ RequestOK(q)
      BY Zenon DEF MonitorInv, Typed
    <2>1. /\ UNCHANGED <<issued, fence, activated, row, enabled, reports, gen, owner>>
          /\ requests' \subseteq requests
          /\ Answered(q, "waiting")
      BY Zenon, <1>2 DEF Ingest, LoopFrame, dbRow
    <2>2. \/ pc' = [pc EXCEPT ![q.token] = "waiting"] /\ page' = [page EXCEPT ![q.token] = 0]
          \/ UNCHANGED <<pc, page>>
      BY Zenon, <2>1 DEF Answered, Goes
    <2>3. pc' \in [Tokens -> LoopStates] /\ page' \in [Tokens -> Nat]
      BY <2>0, <2>2 DEF Typed, LoopStates
    <2>4. Typed'
      BY Zenon, <2>0, <2>1, <2>3 DEF Typed
    <2>5. RowOK'
      BY <2>0, <2>1, RowKept
    <2>6. \A t \in Tokens : \/ pc'[t] = pc[t] /\ page'[t] = page[t]
                            \/ /\ pc[t] # "idle" \/ t <= issued
                               /\ pc'[t] \in {"waiting", "sent", "releasing", "done"}
      BY Zenon, <2>0, <2>2 DEF Typed, RequestOK
    <2>7. \A t \in Tokens : LoopOK(t)'
      BY Zenon, <2>1, <2>6, LoopsKept
    <2>8. \A p \in requests' : RequestOK(p)'
      BY Zenon, <2>1, RequestsKept
    <2>. QED  BY Zenon, <2>4, <2>5, <2>7, <2>8 DEF MonitorInv
  <1>. QED  BY Zenon, <1>1, <1>2

-----------------------------------------------------------------------------
(* The end of the workspace, the end of a process, and time.               *)

\* The row gives up its monitor, for good or not.
LEMMA RevokedRow ==
    ASSUME MonitorInv, enabled' = FALSE, NoLease, activated' = 0, row' \in {"ready", "terminated"},
           UNCHANGED <<gen, issued, fence, reports, pc, page, requests>>
    PROVE  MonitorInv'
  <1>0. Typed /\ RowOK
    BY Zenon DEF MonitorInv
  <1>1. owner' = NoToken
    BY Zenon DEF NoLease
  <1>2. Typed'
    <2>1. owner' \in 0 .. MaxTokens /\ enabled' \in BOOLEAN /\ activated' \in Nat
      BY Zenon, <1>1, TokenFacts
    <2>. QED  BY Zenon, <1>0, <2>1 DEF Typed
  <1>3. RowOK'
    <2>1. ObservationKept' /\ FencedReports'
      BY <1>0 DEF RowOK, ObservationKept, FencedReports
    <2>2. activated' <= fence' /\ fence' <= gen'
      BY SMTT(20), <1>0 DEF RowOK, Typed
    <2>. QED  BY Zenon, <1>1, <2>1, <2>2 DEF RowOK
  <1>4. \A t \in Tokens : LoopOK(t)'
    BY Zenon, <1>1, LoopsKept
  <1>5. \A q \in requests' : RequestOK(q)'
    BY Zenon, RequestsKept
  <1>. QED  BY Zenon, <1>2, <1>3, <1>4, <1>5 DEF MonitorInv

LEMMA RouteSteps ==
    ASSUME MonitorInv,
           \/ Terminate \/ Transition \/ TerminateFails \/ ServerFails \/ Expire
           \/ \E r \in Replicas : Revoke(r) \/ TerminateAgain(r)
    PROVE  MonitorInv'
  <1>0. gen \in Nat /\ row \in {"ready", "terminated"}
    BY Zenon DEF MonitorInv, Typed
  <1>1. CASE Terminate \/ TerminateFails
    <2>1. /\ UNCHANGED <<issued, fence, activated, row, enabled, reports, pc, page, requests>>
          /\ gen' = gen /\ owner' = owner
      BY Zenon, <1>1 DEF Terminate, TerminateFails, RouteFrame, dbRow
    <2>. QED  BY <1>0, <2>1, OutsideStep
  <1>2. CASE ServerFails \/ Expire
    <2>1. /\ UNCHANGED <<issued, fence, activated, row, enabled, reports, pc, page, requests>>
          /\ gen' = gen /\ owner' = owner
      BY Zenon, <1>2 DEF ServerFails, Expire, world, dbRow, claiming, looping, history
    <2>. QED  BY <1>0, <2>1, OutsideStep
  <1>3. CASE Transition
    <2>1. /\ UNCHANGED <<gen, issued, fence, reports, pc, page, requests>>
          /\ enabled' = FALSE /\ NoLease /\ activated' = 0 /\ row' = "terminated"
      BY Zenon, <1>3 DEF Transition, transition, RouteFrame
    <2>. QED  BY Zenon, <2>1, RevokedRow
  <1>4. CASE \E r \in Replicas : Revoke(r) \/ TerminateAgain(r)
    <2>1. /\ UNCHANGED <<gen, issued, fence, reports, pc, page, requests, row>>
          /\ enabled' = FALSE /\ NoLease /\ activated' = 0
      BY Zenon, <1>4 DEF Revoke, TerminateAgain, revoke, RouteFrame
    <2>. QED  BY Zenon, <1>0, <2>1, RevokedRow
  <1>. QED  BY Zenon, <1>1, <1>2, <1>3, <1>4

LEMMA CrashStep ==
    ASSUME MonitorInv, NEW r \in Replicas, Crash(r)
    PROVE  MonitorInv'
  <1>0. Typed /\ gen \in Nat
    BY Zenon DEF MonitorInv, Typed
  <1>1. UNCHANGED <<issued, fence, activated, row, enabled, reports, gen, owner>>
    BY Zenon DEF Crash, dbRow, history
  <1>2. /\ pc' = [t \in Tokens |-> IF Runs(r, t) THEN "done" ELSE pc[t]]
        /\ page' = [t \in Tokens |-> IF Runs(r, t) THEN 0 ELSE page[t]]
    BY Zenon DEF Crash
  <1>3. \A q \in requests' : \E p \in requests : q = p \/ q = [p EXCEPT !.awaited = FALSE]
    BY Zenon DEF Crash
  <1>4. /\ requests' \in SUBSET [token : Tokens, gen : Nat, awaited : BOOLEAN]
        /\ \A q \in requests' : \E p \in requests : q.token = p.token /\ q.gen = p.gen
    <2>1. SUFFICES ASSUME NEW q \in requests'
                   PROVE  /\ q \in [token : Tokens, gen : Nat, awaited : BOOLEAN]
                          /\ \E p \in requests : q.token = p.token /\ q.gen = p.gen
      BY Zenon
    <2>2. PICK p \in requests : q = p \/ q = [p EXCEPT !.awaited = FALSE]
      BY Zenon, <1>3
    <2>3. p \in [token : Tokens, gen : Nat, awaited : BOOLEAN]
      BY Zenon, <1>0 DEF Typed
    <2>. QED  BY Zenon, <2>2, <2>3
  <1>5. RowOK'
    BY SMTT(20), <1>0, <1>1, RowKept
  <1>6. \A t \in Tokens : \/ pc'[t] = pc[t] /\ page'[t] = page[t]
                          \/ pc[t] # "idle" /\ pc'[t] \in {"waiting", "sent", "releasing", "done"}
    BY Zenon, <1>2 DEF Runs
  <1>7. \A t \in Tokens : LoopOK(t)'
    BY Zenon, <1>1, <1>6, LoopsKept
  <1>8. \A q \in requests' : RequestOK(q)'
    BY Zenon, <1>1, <1>4, RequestsKept
  <1>9. pc' \in [Tokens -> LoopStates] /\ page' \in [Tokens -> Nat]
    BY Zenon, <1>0, <1>2 DEF Typed, LoopStates
  <1>10. Typed'
    BY Zenon, <1>0, <1>1, <1>4, <1>9 DEF Typed
  <1>. QED  BY Zenon, <1>5, <1>7, <1>8, <1>10 DEF MonitorInv

-----------------------------------------------------------------------------
(* The theorems.                                                           *)

LEMMA MonitorInit ==
    Init => MonitorInv
  <1>. SUFFICES ASSUME Init PROVE MonitorInv
    BY Zenon
  <1>1. Typed
    BY Zenon, TokenFacts DEF Init, Typed, LoopStates
  <1>2. RowOK
    <2>1. /\ gen = 0 /\ fence = 0 /\ activated = 0 /\ reports = {}
          /\ row = "ready" /\ owner = NoToken
      BY Zenon DEF Init
    <2>2. ObservationKept /\ FencedReports
      BY <2>1 DEF ObservationKept, FencedReports
    <2>. QED  BY <2>1, <2>2 DEF RowOK
  <1>3. \A t \in Tokens : LoopOK(t)
    BY Zenon DEF Init, LoopOK
  <1>4. \A q \in requests : RequestOK(q)
    BY Zenon DEF Init
  <1>. QED  BY Zenon, <1>1, <1>2, <1>3, <1>4 DEF MonitorInv

LEMMA MonitorNext ==
    ASSUME MonitorInv, [Next]_vars
    PROVE  MonitorInv'
  <1>1. ASSUME NEW r \in Replicas, ReplicaStep(r) \/ DevServer(r) \/ ReleaseOldFails(r) \/ Close(r)
        PROVE  MonitorInv'
    BY Zenon, <1>1, ReplicaSteps, ClaimSteps DEF ReplicaStep
  <1>2. ASSUME NEW r \in Replicas, Revoke(r) \/ TerminateAgain(r)
        PROVE  MonitorInv'
    BY Zenon, <1>2, RouteSteps
  <1>3. ASSUME NEW r \in Replicas, Crash(r)
        PROVE  MonitorInv'
    BY Zenon, <1>3, CrashStep
  <1>4. ASSUME NEW r \in Replicas, NEW k \in Claimants, ClaimFails(r, k)
        PROVE  MonitorInv'
    BY Zenon, <1>4, ClaimSteps
  <1>5. ASSUME NEW t \in Tokens, LoopStep(t) \/ LoopFails(t)
        PROVE  MonitorInv'
    BY Zenon, <1>5, PollStep, ReportStep, CompleteStep, ReleaseLeaseStep, LoopFailsStep DEF LoopStep
  <1>6. ASSUME NEW q \in requests, Ingest(q)
        PROVE  MonitorInv'
    BY Zenon, <1>6, IngestStep
  <1>7. CASE Terminate \/ Transition \/ TerminateFails \/ ServerFails \/ Expire
    BY Zenon, <1>7, RouteSteps
  <1>8. CASE UNCHANGED vars
    <2>1. gen \in Nat
      BY Zenon DEF MonitorInv, Typed
    <2>2. /\ UNCHANGED <<issued, fence, activated, row, enabled, reports, pc, page, requests>>
          /\ gen' = gen /\ owner' = owner
      BY Zenon, <1>8 DEF vars, world, dbRow, claiming, looping, history
    <2>. QED  BY <2>1, <2>2, OutsideStep
  <1>. QED  BY Zenon, <1>1, <1>2, <1>3, <1>4, <1>5, <1>6, <1>7, <1>8 DEF Next

\* The invariant holds for any replicas and bounds.
THEOREM MonitorInvariant == Spec => []MonitorInv
  BY MonitorInit, MonitorNext, PTL DEF Spec

\* A failure that events.ingest stores is of a server at least as new as the
\* one at the last claim of the lease.
THEOREM ReportsFenced == Spec => []FencedReports
  <1>1. MonitorInv => FencedReports
    BY Zenon DEF MonitorInv, RowOK
  <1>. QED  BY <1>1, MonitorInvariant, PTL

\* An activated observation is disabled only with a failure of that server or
\* a later one stored, or with the workspace (complete, release, claim,
\* revoke and transition of the coordinator).
THEOREM ObservationsKept == Spec => []ObservationKept
  <1>1. MonitorInv => ObservationKept
    BY Zenon DEF MonitorInv, RowOK
  <1>. QED  BY <1>1, MonitorInvariant, PTL

\* After the transition to terminated nothing owns or enables the monitor.
THEOREM TerminatedNeverObserved == Spec => []TerminatedUnobserved
  <1>1. MonitorInv => TerminatedUnobserved
    BY Zenon DEF MonitorInv, RowOK, TerminatedUnobserved, CanActivate
  <1>. QED  BY <1>1, MonitorInvariant, PTL
=============================================================================
