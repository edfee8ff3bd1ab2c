---------------------------- MODULE SandboxProofs ---------------------------
(***************************************************************************)
(* Proofs about the capacity of sandboxes, for every set of workspaces,    *)
(* organizations, callers, replicas, limits and faults.                    *)
(* The open repository: no organization exceeds its limit, and a live      *)
(* lease is not stolen.                                                    *)
(* The governor: it uses the capacity table only through the repository,   *)
(* never frees the slot of a running sandbox, and no two of its replicas   *)
(* act on the same workspace while their leases last.                      *)
(***************************************************************************)
EXTENDS SandboxGovernor, FiniteSetTheorems, TLAPS

-----------------------------------------------------------------------------
(* The capacity repository.                                                *)

(* The advisory lock is held by exactly the caller inside a claim, and a   *)
(* call that has begun knows what it is about.                             *)
LockInv ==
  \A c \in Callers :
    /\ tx[c].pc \in InTransaction <=> lockHolder = c
    /\ tx[c].pc # "idle" =>
         tx[c].ws \in Workspaces /\ tx[c].key \in OpKeys /\ tx[c].limit \in PlanLimits

(* What a claim has counted can only be too high: nobody but the holder of *)
(* the lock adds to the active rows.                                       *)
CountInv ==
  \A c \in Callers :
    /\ tx[c].pc \in {"counted", "decide"} => Cardinality(active) <= tx[c].seenGlobal
    /\ tx[c].pc = "decide" =>
         Cardinality(active \cap Members(OrgOf[tx[c].ws])) <= tx[c].seenOrg

(* The key that a claim looked up stays without a row until it inserts.    *)
KeyInv == \A c \in Callers : tx[c].pc \in InTransaction => RowsWithKey(tx[c].key) = {}

CapacityInv ==
  /\ CapacityTypeOK
  /\ LockInv
  /\ CountInv
  /\ KeyInv
  /\ CapacityLimits
  /\ RowShape
  /\ KeyNamesOneRow
  /\ LeaseIsFence

-----------------------------------------------------------------------------
(* A set of workspaces that shrinks keeps its cardinality within bounds.   *)
LEMMA SubsetCardinality ==
  ASSUME NEW S \in SUBSET Workspaces, NEW T \in SUBSET S
  PROVE  /\ Cardinality(S) \in Nat /\ Cardinality(T) \in Nat
         /\ Cardinality(T) <= Cardinality(S)
<1>1. IsFiniteSet(S)
  BY Zenon, CapacityAssumption, FS_Subset
<1>2. IsFiniteSet(T) /\ Cardinality(T) <= Cardinality(S)
  BY Zenon, <1>1, FS_Subset
<1> QED
  BY Zenon, <1>1, <1>2, FS_CardinalityType

(* One more workspace raises the cardinality by at most one.               *)
LEMMA AddOneCardinality ==
  ASSUME NEW S \in SUBSET Workspaces, NEW w \in Workspaces
  PROVE  /\ Cardinality(S) \in Nat /\ Cardinality(S \cup {w}) \in Nat
         /\ Cardinality(S \cup {w}) <= Cardinality(S) + 1
<1>1. IsFiniteSet(S)
  BY Zenon, CapacityAssumption, FS_Subset
<1>2. /\ IsFiniteSet(S \cup {w})
      /\ Cardinality(S \cup {w}) = IF w \in S THEN Cardinality(S) ELSE Cardinality(S) + 1
  BY Zenon, <1>1, FS_AddElement
<1> QED
  BY <1>1, <1>2, FS_CardinalityType

-----------------------------------------------------------------------------
(* The initial table is empty and satisfies the invariant.                 *)
LEMMA CapacityInitInv == CapacityInit => CapacityInv
<1> SUFFICES ASSUME CapacityInit PROVE CapacityInv
  BY Zenon
<1> USE CapacityAssumption DEF CapacityInit
<1>1. CapacityTypeOK
  BY Zenon DEF CapacityTypeOK, NoCall, Calls, InTransaction
<1>2. LockInv /\ CountInv /\ KeyInv
  BY Zenon DEF LockInv, CountInv, KeyInv, NoCall, InTransaction
<1>3. CapacityLimits
  <2>1. Cardinality(active) = 0 /\ \A o \in Orgs : Cardinality(active \cap Members(o)) = 0
    BY Zenon, FS_EmptySet
  <2>2. \A o \in Orgs : plan[o] \in PlanLimits /\ plan[o] \in Nat
    BY Zenon
  <2> QED
    BY <2>1, <2>2 DEF CapacityLimits
<1>4. RowShape /\ KeyNamesOneRow /\ LeaseIsFence
  BY DEF RowShape, KeyNamesOneRow, LeaseIsFence
<1> QED
  BY Zenon, <1>1, <1>2, <1>3, <1>4 DEF CapacityInv

(* A call that records a count, or ages, is still a call.                  *)
LEMMA CountedCall ==
  ASSUME NEW call \in Calls, NEW n \in Nat
  PROVE  /\ [call EXCEPT !.pc = "counted", !.seenGlobal = n] \in Calls
         /\ [call EXCEPT !.pc = "decide", !.seenOrg = n] \in Calls
         /\ [call EXCEPT !.budgetLeft = Down(@)] \in Calls
<1>1. /\ [call EXCEPT !.pc = "counted", !.seenGlobal = n] \in Calls
      /\ [call EXCEPT !.pc = "decide", !.seenOrg = n] \in Calls
  BY Zenon DEF Calls, InTransaction
<1>2. Down(call.budgetLeft) \in Nat
  BY DEF Calls, Down
<1>3. [call EXCEPT !.budgetLeft = Down(@)] \in Calls
  BY Zenon, <1>2 DEF Calls
<1> QED
  BY Zenon, <1>1, <1>3

(* Every step keeps the columns and calls in their domains.                *)
LEMMA CapacityTypeStep ==
  ASSUME CapacityTypeOK, LockInv, CapacityNext
  PROVE  CapacityTypeOK'
<1> USE CapacityAssumption DEF CapacityTypeOK
<1>1. ASSUME NEW c \in Callers, NEW w \in Workspaces, NEW k \in OpKeys,
             AdmitReadLimits(c, w, k)
      PROVE  CapacityTypeOK'
  BY Zenon, <1>1 DEF Calls, AdmitReadLimits, BudgetForPurpose, rowVars, leaseVars
<1>2. ASSUME NEW c \in Callers, ClaimLock(c) PROVE CapacityTypeOK'
  <2>1. [tx[c] EXCEPT !.pc = "locked"] \in Calls
    BY DEF Calls, InTransaction
  <2>2. tx' = [tx EXCEPT ![c] = [tx[c] EXCEPT !.pc = "locked"]]
    BY Zenon, <1>2 DEF ClaimLock
  <2> QED
    BY <1>2, <2>1, <2>2 DEF ClaimLock, rowVars, leaseVars
<1>3. ASSUME NEW c \in Callers, ClaimExisting(c) PROVE CapacityTypeOK'
  <2>1. NoCall \in Calls
    BY Zenon DEF NoCall, Calls
  <2> QED
    BY Zenon, <1>3, <2>1 DEF ClaimExisting, rowVars, leaseVars
<1>4. ASSUME NEW c \in Callers, ClaimCountGlobal(c) PROVE CapacityTypeOK'
  <2>1. Cardinality(active) \in Nat
    BY Zenon, SubsetCardinality
  <2>2. [tx[c] EXCEPT !.pc = "counted", !.seenGlobal = Cardinality(active)] \in Calls
    BY Zenon, <2>1, CountedCall
  <2> QED
    BY Zenon, <1>4, <2>2 DEF ClaimCountGlobal, rowVars, leaseVars
<1>5. ASSUME NEW c \in Callers, ClaimCountOrganization(c) PROVE CapacityTypeOK'
  <2>1. Cardinality(active \cap Members(OrgOf[tx[c].ws])) \in Nat
    BY Zenon, SubsetCardinality
  <2>2. [tx[c] EXCEPT !.pc = "decide",
                      !.seenOrg = Cardinality(active \cap Members(OrgOf[tx[c].ws]))] \in Calls
    BY Zenon, <2>1, CountedCall
  <2> QED
    BY Zenon, <1>5, <2>2 DEF ClaimCountOrganization, rowVars, leaseVars
<1>6. ASSUME NEW c \in Callers, ClaimInsertQueued(c) PROVE CapacityTypeOK'
  BY <1>6 DEF Calls, InTransaction, ClaimInsertQueued, EndClaim, NoCall, LockInv, leaseVars
<1>7. ASSUME NEW c \in Callers, ClaimInsertAdmitted(c) PROVE CapacityTypeOK'
  BY Zenon, <1>7 DEF Calls, InTransaction, ClaimInsertAdmitted, EndClaim, NoCall, LockInv, leaseVars
<1>8. ASSUME NEW c \in Callers, ClaimInsertConflict(c) \/ ClaimAbort(c)
      PROVE  CapacityTypeOK'
  <2>1. NoCall \in Calls
    BY Zenon DEF NoCall, Calls
  <2>2. EndClaim(c) /\ UNCHANGED <<plan, rowVars, active, deadlineIn, leaseVars>>
    BY Zenon, <1>8 DEF ClaimInsertConflict, ClaimAbort
  <2> QED
    BY Zenon, <2>1, <2>2 DEF EndClaim, rowVars, leaseVars
<1>9. ASSUME NEW w \in Workspaces, Release(w) PROVE CapacityTypeOK'
  BY <1>9 DEF Release, Deactivate, admissionVars, rowVars, leaseVars
<1>10. ASSUME NEW w \in Workspaces, NEW t \in Tokens, LeaseStep(w, t)
       PROVE  CapacityTypeOK'
  BY <1>10 DEF LeaseStep, ClaimExpired, RenewExpired, CompleteExpired, ReleaseExpired,
               Deactivate, admissionVars, rowVars, leaseVars
<1>11. ASSUME NEW o \in Orgs, NEW limit \in PlanLimits, ChangePlan(o, limit)
       PROVE  CapacityTypeOK'
  BY Zenon, <1>11 DEF ChangePlan, rowVars, leaseVars
<1>12. ASSUME Tick PROVE CapacityTypeOK'
  <2>1. \A c \in Callers : [tx[c] EXCEPT !.budgetLeft = Down(@)] \in Calls
    BY Zenon, CountedCall
  <2>2. tx' \in [Callers -> Calls]
    BY Zenon, <1>12, <2>1 DEF Tick
  <2>3. deadlineIn' \in [Workspaces -> Nat] /\ leaseLeft' \in [Workspaces -> Nat]
    <3>1. \A n \in Nat : Down(n) \in Nat
      BY DEF Down
    <3> QED
      BY Zenon, <1>12, <3>1 DEF Tick
  <2> QED
    BY Zenon, <1>12, <2>2, <2>3 DEF Tick, rowVars
<1> QED
  BY Zenon, <1>1, <1>2, <1>3, <1>4, <1>5, <1>6, <1>7, <1>8, <1>9, <1>10, <1>11, <1>12
     DEF CapacityNext, ClaimStep

(* The lock and the key of a running claim are undisturbed by every step.  *)
LEMMA LockStep ==
  ASSUME CapacityTypeOK, LockInv, CapacityNext
  PROVE  LockInv'
<1> USE CapacityAssumption DEF CapacityTypeOK, LockInv, InTransaction, Calls
<1>1. ASSUME NEW c \in Callers, NEW w \in Workspaces, NEW k \in OpKeys,
             AdmitReadLimits(c, w, k)
      PROVE  LockInv'
  BY Zenon, <1>1 DEF AdmitReadLimits
<1>2. ASSUME NEW c \in Callers, ClaimLock(c) PROVE LockInv'
  BY <1>2 DEF ClaimLock
<1>3. ASSUME NEW c \in Callers, ClaimExisting(c) PROVE LockInv'
  BY Zenon, <1>3 DEF ClaimExisting, NoCall
<1>4. ASSUME NEW c \in Callers, ClaimCountGlobal(c) PROVE LockInv'
  BY <1>4 DEF ClaimCountGlobal
<1>5. ASSUME NEW c \in Callers, ClaimCountOrganization(c) PROVE LockInv'
  BY <1>5 DEF ClaimCountOrganization
<1>6. ASSUME NEW c \in Callers, tx[c].pc \in InTransaction, EndClaim(c) PROVE LockInv'
  BY Zenon, <1>6 DEF EndClaim, NoCall
<1>7. ASSUME NEW c \in Callers,
             \/ ClaimInsertQueued(c) \/ ClaimInsertAdmitted(c)
             \/ ClaimInsertConflict(c) \/ ClaimAbort(c)
      PROVE  LockInv'
  <2>1. tx[c].pc \in InTransaction /\ EndClaim(c)
    BY Zenon, <1>7 DEF ClaimInsertQueued, ClaimInsertAdmitted, ClaimInsertConflict, ClaimAbort
  <2> QED
    BY Zenon, <1>6, <2>1
<1>8. ASSUME UNCHANGED <<lockHolder, tx>> PROVE LockInv'
  BY Zenon, <1>8
<1>9. ASSUME Tick PROVE LockInv'
  <2>1. \A c \in Callers : /\ tx'[c].pc = tx[c].pc /\ tx'[c].ws = tx[c].ws
                           /\ tx'[c].key = tx[c].key /\ tx'[c].limit = tx[c].limit
    BY <1>9 DEF Tick
  <2>2. lockHolder' = lockHolder
    BY Zenon, <1>9 DEF Tick
  <2> QED
    BY Zenon, <2>1, <2>2
<1>10. ASSUME NEW w \in Workspaces, NEW t \in Tokens, LeaseStep(w, t)
       PROVE  UNCHANGED <<lockHolder, tx>>
  BY Zenon, <1>10 DEF LeaseStep, ClaimExpired, RenewExpired, CompleteExpired,
               ReleaseExpired, admissionVars
<1>11. ASSUME NEW w \in Workspaces, Release(w) PROVE UNCHANGED <<lockHolder, tx>>
  BY Zenon, <1>11 DEF Release, admissionVars
<1>12. ASSUME NEW o \in Orgs, NEW limit \in PlanLimits, ChangePlan(o, limit)
       PROVE  UNCHANGED <<lockHolder, tx>>
  BY Zenon, <1>12 DEF ChangePlan
<1> QED
  BY Zenon, <1>1, <1>2, <1>3, <1>4, <1>5, <1>7, <1>8, <1>9, <1>10, <1>11, <1>12
     DEF CapacityNext, ClaimStep

(* Every step either leaves the active rows within what they were, or is   *)
(* the insert of an admitted row by the holder of the lock.                *)
LEMMA ActiveGrowsByInsert ==
  ASSUME CapacityTypeOK, LockInv, CapacityNext
  PROVE  \/ active' \subseteq active
         \/ \E c \in Callers : ClaimInsertAdmitted(c)
<1>1. ASSUME NEW w \in Workspaces, NEW t \in Tokens, LeaseStep(w, t)
      PROVE  active' \subseteq active
  BY Zenon, <1>1 DEF LeaseStep, ClaimExpired, RenewExpired, CompleteExpired,
              ReleaseExpired, Deactivate
<1>2. ASSUME NEW w \in Workspaces, Release(w) PROVE active' \subseteq active
  BY Zenon, <1>2 DEF Release, Deactivate
<1>3. ASSUME NEW c \in Callers, ClaimStep(c), ~ClaimInsertAdmitted(c)
      PROVE  active' \subseteq active
  BY Zenon, <1>3 DEF ClaimStep, AdmitReadLimits, ClaimLock, ClaimExisting, ClaimCountGlobal,
              ClaimCountOrganization, ClaimInsertQueued, ClaimInsertConflict, ClaimAbort
<1> QED
  BY Zenon, <1>1, <1>2, <1>3 DEF CapacityNext, ChangePlan, Tick

(* A claim that starts, counts or ends leaves the counts of others alone;  *)
(* under the lock there are no others.                                     *)
LEMMA CountStep ==
  ASSUME CapacityTypeOK, LockInv, CountInv, CapacityNext
  PROVE  CountInv'
<1> DEFINE Counted(c) == tx[c].pc \in {"counted", "decide"}
           Mine(c) == active \cap Members(OrgOf[tx[c].ws])
<1>1. ASSUME NEW c \in Callers, ClaimInsertAdmitted(c) PROVE CountInv'
  <2>1. \A d \in Callers : tx'[d].pc \notin {"counted", "decide"}
    BY Zenon, <1>1 DEF ClaimInsertAdmitted, EndClaim, NoCall, LockInv, InTransaction, CapacityTypeOK
  <2> QED
    BY Zenon, <2>1 DEF CountInv
<1>2. ASSUME active' \subseteq active
      PROVE  CountInv'
  <2> SUFFICES ASSUME NEW d \in Callers
               PROVE  /\ Counted(d)' => Cardinality(active') <= tx'[d].seenGlobal
                      /\ tx'[d].pc = "decide" => Cardinality(Mine(d)') <= tx'[d].seenOrg
    BY Zenon DEF CountInv
  <2>1. CASE ClaimCountGlobal(d)
    <3>1. tx'[d].pc = "counted" /\ tx'[d].seenGlobal = Cardinality(active) /\ active' = active
      BY Zenon, <2>1 DEF ClaimCountGlobal, CapacityTypeOK, Calls
    <3>2. Cardinality(active) \in Nat
      BY Zenon, SubsetCardinality DEF CapacityTypeOK
    <3> QED
      BY <3>1, <3>2
  <2>2. CASE ClaimCountOrganization(d)
    <3>1. /\ tx[d].pc = "counted" /\ tx'[d].pc = "decide" /\ active' = active
          /\ tx'[d].seenOrg = Cardinality(Mine(d)) /\ tx'[d].ws = tx[d].ws
          /\ tx'[d].seenGlobal = tx[d].seenGlobal
      BY <2>2 DEF ClaimCountOrganization, CapacityTypeOK, Calls
    <3>2. Cardinality(Mine(d)) \in Nat
      BY Zenon, SubsetCardinality DEF CapacityTypeOK
    <3> QED
      BY <3>1, <3>2 DEF CountInv
  <2>3. CASE ~ClaimCountGlobal(d) /\ ~ClaimCountOrganization(d)
    <3>1. \/ tx'[d].pc \notin {"counted", "decide"}
          \/ /\ tx'[d].pc = tx[d].pc /\ tx'[d].ws = tx[d].ws
             /\ tx'[d].seenGlobal = tx[d].seenGlobal /\ tx'[d].seenOrg = tx[d].seenOrg
      <4>1. ASSUME NEW c \in Callers, ClaimStep(c), c # d PROVE tx'[d] = tx[d]
        BY Zenon, <4>1 DEF ClaimStep, AdmitReadLimits, ClaimLock, ClaimExisting, ClaimCountGlobal,
             ClaimCountOrganization, ClaimInsertQueued, ClaimInsertAdmitted,
             ClaimInsertConflict, ClaimAbort, EndClaim, CapacityTypeOK
      <4>2. ASSUME ClaimStep(d) PROVE tx'[d].pc \notin {"counted", "decide"}
        <5>1. ASSUME NEW w \in Workspaces, NEW k \in OpKeys, AdmitReadLimits(d, w, k)
              PROVE  tx'[d].pc = "limits"
          BY Zenon, <5>1 DEF AdmitReadLimits, CapacityTypeOK
        <5>2. ASSUME ClaimLock(d) PROVE tx'[d].pc = "locked"
          BY Zenon, <5>2 DEF ClaimLock, CapacityTypeOK, Calls
        <5>3. CASE ClaimExisting(d) \/ EndClaim(d)
          BY SMTT(20), <5>3 DEF ClaimExisting, EndClaim, NoCall, CapacityTypeOK
        <5> QED
          BY Zenon, <2>3, <4>2, <5>1, <5>2, <5>3
             DEF ClaimStep, ClaimInsertQueued, ClaimInsertAdmitted, ClaimInsertConflict, ClaimAbort
      <4>3. ASSUME NEW w \in Workspaces, NEW t \in Tokens, LeaseStep(w, t) PROVE tx' = tx
        BY Zenon, <4>3 DEF LeaseStep, ClaimExpired, RenewExpired, CompleteExpired, ReleaseExpired,
             admissionVars
      <4>4. ASSUME NEW w \in Workspaces, Release(w) PROVE tx' = tx
        BY Zenon, <4>4 DEF Release, admissionVars
      <4>5. ASSUME Tick
            PROVE  /\ tx'[d].pc = tx[d].pc /\ tx'[d].ws = tx[d].ws
                   /\ tx'[d].seenGlobal = tx[d].seenGlobal /\ tx'[d].seenOrg = tx[d].seenOrg
        BY Zenon, <4>5 DEF Tick, CapacityTypeOK, Calls
      <4> QED
        BY Zenon, <4>1, <4>2, <4>3, <4>4, <4>5 DEF CapacityNext, ChangePlan
    <3>2. ASSUME tx'[d].pc = tx[d].pc, tx'[d].ws = tx[d].ws
          PROVE  /\ Cardinality(active') \in Nat /\ Cardinality(active) \in Nat
                 /\ Cardinality(active') <= Cardinality(active)
                 /\ Cardinality(Mine(d)') \in Nat /\ Cardinality(Mine(d)) \in Nat
                 /\ Cardinality(Mine(d)') <= Cardinality(Mine(d))
      <4>1. /\ Mine(d)' \subseteq Mine(d)
            /\ active \in SUBSET Workspaces /\ active' \in SUBSET active
        BY Zenon, <1>2, <3>2 DEF CapacityTypeOK, Members
      <4>2. /\ Cardinality(active') \in Nat /\ Cardinality(active) \in Nat
            /\ Cardinality(active') <= Cardinality(active)
        BY Zenon, <4>1, SubsetCardinality
      <4>3. Mine(d) \in SUBSET Workspaces /\ Mine(d)' \in SUBSET Mine(d)
        BY Zenon, <4>1
      <4> HIDE DEF Mine
      <4>4. /\ Cardinality(Mine(d)') \in Nat /\ Cardinality(Mine(d)) \in Nat
            /\ Cardinality(Mine(d)') <= Cardinality(Mine(d))
        BY Zenon, <4>3, SubsetCardinality
      <4> QED
        BY Zenon, <4>2, <4>4
    <3>3. tx[d].seenGlobal \in Nat /\ tx[d].seenOrg \in Nat
      BY Zenon DEF CapacityTypeOK, Calls
    <3>4. CASE tx'[d].pc \notin {"counted", "decide"}
      BY Zenon, <3>4
    <3>5. CASE /\ tx'[d].pc = tx[d].pc /\ tx'[d].ws = tx[d].ws
               /\ tx'[d].seenGlobal = tx[d].seenGlobal /\ tx'[d].seenOrg = tx[d].seenOrg
      <4>1. /\ Cardinality(active') \in Nat /\ Cardinality(active) \in Nat
            /\ Cardinality(active') <= Cardinality(active)
            /\ Cardinality(Mine(d)') \in Nat /\ Cardinality(Mine(d)) \in Nat
            /\ Cardinality(Mine(d)') <= Cardinality(Mine(d))
        BY Zenon, <3>2, <3>5
      <4>2. /\ Counted(d) => Cardinality(active) <= tx[d].seenGlobal
            /\ tx[d].pc = "decide" => Cardinality(Mine(d)) <= tx[d].seenOrg
        BY Zenon DEF CountInv
      <4> HIDE DEF Mine
      <4> QED
        BY SMTT(20), <3>3, <3>5, <4>1, <4>2
    <3> QED
      BY Zenon, <3>1, <3>4, <3>5
  <2> QED
    BY Zenon, <2>1, <2>2, <2>3
<1> QED
  BY Zenon, <1>1, <1>2, ActiveGrowsByInsert

(* The decision columns are written by the two inserts and nothing else.   *)
LEMMA RowsWrittenByInsert ==
  ASSUME CapacityNext
  PROVE  \/ UNCHANGED rowVars
         \/ \E c \in Callers : ClaimInsertQueued(c) \/ ClaimInsertAdmitted(c)
<1>1. ASSUME NEW w \in Workspaces, NEW t \in Tokens, LeaseStep(w, t) PROVE UNCHANGED rowVars
  BY Zenon, <1>1 DEF LeaseStep, ClaimExpired, RenewExpired, CompleteExpired, ReleaseExpired
<1>2. ASSUME NEW w \in Workspaces, Release(w) PROVE UNCHANGED rowVars
  BY Zenon, <1>2 DEF Release
<1>3. ASSUME NEW c \in Callers, ClaimStep(c),
             ~ClaimInsertQueued(c), ~ClaimInsertAdmitted(c)
      PROVE  UNCHANGED rowVars
  BY Zenon, <1>3 DEF ClaimStep, AdmitReadLimits, ClaimLock, ClaimExisting, ClaimCountGlobal,
              ClaimCountOrganization, ClaimInsertConflict, ClaimAbort
<1> QED
  BY Zenon, <1>1, <1>2, <1>3 DEF CapacityNext, ChangePlan, Tick

(* The lock keeps the key of a claim free from its lookup to its insert,   *)
(* so that the insert is the first row of that key.                        *)
LEMMA KeyStep ==
  ASSUME CapacityTypeOK, LockInv, KeyInv, KeyNamesOneRow, RowShape, CapacityNext
  PROVE  KeyInv' /\ KeyNamesOneRow'
<1> USE CapacityAssumption DEF CapacityTypeOK
<1>1. ASSUME NEW c \in Callers, ClaimInsertQueued(c) \/ ClaimInsertAdmitted(c)
      PROVE  KeyInv' /\ KeyNamesOneRow'
  <2>1. /\ EndClaim(c) /\ tx[c].pc = "decide" /\ tx[c].ws \in Workspaces
        /\ opKey' = [opKey EXCEPT ![tx[c].ws] = tx[c].key]
    BY Zenon, <1>1 DEF ClaimInsertQueued, ClaimInsertAdmitted, LockInv
  <2>2. \A d \in Callers : tx'[d].pc \notin InTransaction
    BY Zenon, <2>1 DEF EndClaim, NoCall, LockInv, InTransaction
  <2>3. \A v \in Workspaces : opKey[v] # tx[c].key
    <3>1. RowsWithKey(tx[c].key) = {}
      BY Zenon, <2>1 DEF KeyInv, InTransaction
    <3>2. tx[c].key \in OpKeys
      BY Zenon, <2>1 DEF LockInv, Calls
    <3>3. \A v \in Workspaces : opKey[v] \in OpKeys => decision[v] # "none"
      BY Zenon DEF RowShape
    <3> QED
      BY Zenon, <3>1, <3>2, <3>3 DEF RowsWithKey
  <2> QED
    BY Zenon, <2>1, <2>2, <2>3 DEF KeyInv, KeyNamesOneRow
<1>2. ASSUME UNCHANGED rowVars PROVE KeyNamesOneRow'
  BY Zenon, <1>2 DEF rowVars, KeyNamesOneRow
<1>3. ASSUME UNCHANGED rowVars PROVE KeyInv'
  <2> SUFFICES ASSUME NEW d \in Callers, tx'[d].pc \in InTransaction
               PROVE  RowsWithKey(tx'[d].key) = {}
    BY Zenon, <1>3 DEF KeyInv, RowsWithKey, rowVars
  <2>1. CASE ClaimLock(d)
    BY <2>1 DEF ClaimLock, Calls
  <2>2. CASE ~ClaimLock(d)
    <3>1. tx[d].pc \in InTransaction /\ tx'[d].key = tx[d].key
      <4>1. ASSUME NEW c \in Callers, ClaimStep(c), c # d PROVE tx'[d] = tx[d]
        BY ZenonT(30), <4>1 DEF ClaimStep, AdmitReadLimits, ClaimLock, ClaimExisting, ClaimCountGlobal,
             ClaimCountOrganization, ClaimInsertQueued, ClaimInsertAdmitted,
             ClaimInsertConflict, ClaimAbort, EndClaim
      <4>2. CASE ClaimStep(d)
        <5>1. ASSUME NEW w \in Workspaces, NEW k \in OpKeys, AdmitReadLimits(d, w, k)
              PROVE  FALSE
          BY Zenon, <5>1 DEF AdmitReadLimits, InTransaction
        <5>2. CASE ClaimExisting(d) \/ EndClaim(d)
          <6>1. tx' = [tx EXCEPT ![d] = NoCall]
            BY Zenon, <5>2 DEF ClaimExisting, EndClaim
          <6>2. tx'[d].pc = "idle"
            BY Zenon, <6>1 DEF NoCall
          <6> QED
            BY Zenon, <6>2 DEF InTransaction
        <5>3. CASE ClaimCountGlobal(d)
          BY Zenon, <5>3 DEF ClaimCountGlobal, InTransaction, Calls
        <5>4. CASE ClaimCountOrganization(d)
          BY <5>4 DEF ClaimCountOrganization, InTransaction, Calls
        <5> QED
          BY Zenon, <2>2, <4>2, <5>1, <5>2, <5>3, <5>4
             DEF ClaimStep, ClaimInsertQueued, ClaimInsertAdmitted, ClaimInsertConflict, ClaimAbort
      <4>3. ASSUME NEW w \in Workspaces, NEW t \in Tokens, LeaseStep(w, t) PROVE tx' = tx
        BY Zenon, <4>3 DEF LeaseStep, ClaimExpired, RenewExpired, CompleteExpired, ReleaseExpired,
             admissionVars
      <4>4. ASSUME NEW w \in Workspaces, Release(w) PROVE tx' = tx
        BY Zenon, <4>4 DEF Release, admissionVars
      <4>5. ASSUME Tick PROVE tx'[d].pc = tx[d].pc /\ tx'[d].key = tx[d].key
        BY <4>5 DEF Tick, Calls
      <4> QED
        BY Zenon, <4>1, <4>2, <4>3, <4>4, <4>5 DEF CapacityNext, ChangePlan
    <3> QED
      BY Zenon, <3>1 DEF KeyInv
  <2> QED
    BY Zenon, <2>1, <2>2
<1> QED
  BY Zenon, <1>1, <1>2, <1>3, RowsWrittenByInsert

(* The counts of the claim, though old, bound what is active when it       *)
(* inserts, so the insert stays within both limits.                        *)
LEMMA InsertWithinLimits ==
  ASSUME CapacityTypeOK, LockInv, CountInv, NEW c \in Callers, ClaimInsertAdmitted(c)
  PROVE  /\ Cardinality(active') <= GlobalLimit
         /\ Cardinality(active' \cap Members(OrgOf[tx[c].ws])) <= tx[c].limit
<1> DEFINE w == tx[c].ws
           Mine == active \cap Members(OrgOf[w])
<1>1. /\ w \in Workspaces /\ tx[c].pc = "decide" /\ active' = active \cup {w}
      /\ tx[c].seenGlobal < GlobalLimit /\ tx[c].seenOrg < tx[c].limit
      /\ tx[c].seenGlobal \in Nat /\ tx[c].seenOrg \in Nat /\ tx[c].limit \in Nat
  <2>1. tx[c].pc = "decide" /\ active' = active \cup {w} /\ ~LimitReached(tx[c])
    BY Zenon DEF ClaimInsertAdmitted
  <2>2. w \in Workspaces /\ tx[c].limit \in PlanLimits
    BY Zenon, <2>1 DEF LockInv
  <2>3. tx[c] \in Calls
    BY Zenon DEF CapacityTypeOK
  <2>4. tx[c].seenGlobal \in Nat /\ tx[c].seenOrg \in Nat
    BY Zenon, <2>3 DEF Calls
  <2>5. tx[c].limit \in Nat /\ GlobalLimit \in Nat
    BY Zenon, <2>2, CapacityAssumption
  <2> QED
    BY <2>1, <2>2, <2>4, <2>5 DEF LimitReached
<1>2. Cardinality(active) <= tx[c].seenGlobal /\ Cardinality(Mine) <= tx[c].seenOrg
  BY Zenon, <1>1 DEF CountInv
<1>3. active' \cap Members(OrgOf[w]) = Mine \cup {w} /\ Mine \in SUBSET Workspaces
      /\ active \in SUBSET Workspaces
  BY Zenon, <1>1 DEF Members, CapacityTypeOK
<1> HIDE DEF Mine
<1>4. Cardinality(active \cup {w}) \in Nat /\ Cardinality(active) \in Nat
      /\ Cardinality(active \cup {w}) <= Cardinality(active) + 1
  BY Zenon, <1>1, <1>3, AddOneCardinality
<1>5. Cardinality(Mine \cup {w}) \in Nat /\ Cardinality(Mine) \in Nat
      /\ Cardinality(Mine \cup {w}) <= Cardinality(Mine) + 1
  BY Zenon, <1>1, <1>3, AddOneCardinality
<1>6. Cardinality(active') <= GlobalLimit
  <2>1. Cardinality(active') = Cardinality(active \cup {w})
    BY Zenon, <1>1
  <2>2. GlobalLimit \in Nat
    BY Zenon, CapacityAssumption
  <2>3. Cardinality(active \cup {w}) <= GlobalLimit
    BY SMTT(20), <1>1, <1>2, <1>4, <2>2
  <2> QED
    BY Zenon, <2>1, <2>3
<1>7. Cardinality(active' \cap Members(OrgOf[w])) <= tx[c].limit
  <2>1. Cardinality(active' \cap Members(OrgOf[w])) = Cardinality(Mine \cup {w})
    BY Zenon, <1>3
  <2>2. tx[c].seenOrg + 1 <= tx[c].limit
    BY <1>1
  <2>3. Cardinality(Mine \cup {w}) <= tx[c].limit
    BY SMTT(20), <1>1, <1>2, <1>5, <2>2
  <2> QED
    BY Zenon, <2>1, <2>3
<1> QED
  BY Zenon, <1>6, <1>7

(* Releases only lower the counts, and an insert stays within the limits.  *)
LEMMA LimitsStep ==
  ASSUME CapacityTypeOK, LockInv, CountInv, CapacityLimits, CapacityNext
  PROVE  CapacityLimits'
<1>1. ASSUME NEW S \in SUBSET active
      PROVE  /\ Cardinality(S) <= GlobalLimit
             /\ \A o \in Orgs : \E limit \in PlanLimits : Cardinality(S \cap Members(o)) <= limit
  <2>1. /\ active \in SUBSET Workspaces /\ Cardinality(active) \in Nat
        /\ Cardinality(S) \in Nat /\ Cardinality(S) <= Cardinality(active)
    BY Zenon, <1>1, SubsetCardinality DEF CapacityTypeOK
  <2>2. ASSUME NEW o \in Orgs
        PROVE  \E limit \in PlanLimits : Cardinality(S \cap Members(o)) <= limit
    <3>1. PICK limit \in PlanLimits : Cardinality(active \cap Members(o)) <= limit
      BY Zenon DEF CapacityLimits
    <3>2. active \cap Members(o) \in SUBSET Workspaces
          /\ S \cap Members(o) \in SUBSET (active \cap Members(o))
      BY Zenon, <2>1
    <3>3. /\ Cardinality(active \cap Members(o)) \in Nat /\ Cardinality(S \cap Members(o)) \in Nat
          /\ Cardinality(S \cap Members(o)) <= Cardinality(active \cap Members(o))
      BY Zenon, <3>2, SubsetCardinality
    <3>4. limit \in Nat
      BY Zenon, CapacityAssumption
    <3> QED
      BY <3>1, <3>3, <3>4
  <2> QED
    BY <2>1, <2>2, CapacityAssumption DEF CapacityLimits
<1>2. CASE active' \subseteq active
  BY Zenon, <1>1, <1>2 DEF CapacityLimits, Members
<1>3. ASSUME NEW c \in Callers, ClaimInsertAdmitted(c) PROVE CapacityLimits'
  <2>1. /\ tx[c].ws \in Workspaces /\ tx[c].limit \in PlanLimits
        /\ active' = active \cup {tx[c].ws}
    BY Zenon, <1>3 DEF ClaimInsertAdmitted, LockInv
  <2>2. ASSUME NEW o \in Orgs
        PROVE  \E limit \in PlanLimits : Cardinality(active' \cap Members(o)) <= limit
    <3>1. CASE o = OrgOf[tx[c].ws]
      BY Zenon, <1>3, <2>1, <3>1, InsertWithinLimits
    <3>2. CASE o # OrgOf[tx[c].ws]
      <4>1. active' \cap Members(o) = active \cap Members(o)
        BY Zenon, <2>1, <3>2 DEF Members
      <4> QED
        BY Zenon, <4>1 DEF CapacityLimits
    <3> QED
      BY Zenon, <3>1, <3>2
  <2> QED
    BY Zenon, <1>3, <2>2, InsertWithinLimits DEF CapacityLimits, Members
<1> QED
  BY Zenon, <1>2, <1>3, ActiveGrowsByInsert

(* The constraints of one row.                                             *)
RowOK(w) ==
  /\ w \in active => decision[w] = "admitted"
  /\ (queuePosition[w] > 0) <=> (decision[w] = "queued")
  /\ decision[w] # "admitted" => deadlineIn[w] = 0
  /\ (decision[w] = "none") <=> (opKey[w] = NoKey)
  /\ lease[w] # NoToken => w \in active
  /\ leaseLeft[w] > 0 => lease[w] # NoToken

(* A row that keeps its columns keeps its constraints.                     *)
LEMMA SameRow ==
  ASSUME NEW v \in Workspaces, RowOK(v),
         decision'[v] = decision[v], opKey'[v] = opKey[v],
         queuePosition'[v] = queuePosition[v], deadlineIn'[v] = deadlineIn[v],
         lease'[v] = lease[v], leaseLeft'[v] = leaseLeft[v], v \in active' <=> v \in active
  PROVE  RowOK(v)'
  BY Zenon DEF RowOK

(* Constraints of all rows are constraints of each.                        *)
LEMMA ShapeByRow ==
  /\ RowShape => \A w \in Workspaces : RowOK(w)
  /\ (\A w \in Workspaces : RowOK(w)') => RowShape'
  BY Zenon DEF RowShape, RowOK

(* No operation writes a row that the CHECK constraints would reject.      *)
LEMMA ShapeStep ==
  ASSUME CapacityTypeOK, LockInv, RowShape, LeaseIsFence, CapacityNext
  PROVE  RowShape' /\ LeaseIsFence'
<1>0. /\ decision \in [Workspaces -> {"none", "admitted", "queued"}]
      /\ opKey \in [Workspaces -> OpKeys \cup {NoKey}]
      /\ queuePosition \in [Workspaces -> Nat] /\ deadlineIn \in [Workspaces -> Nat]
      /\ lease \in [Workspaces -> Tokens \cup {NoToken}]
      /\ leaseLeft \in [Workspaces -> Nat]
      /\ LeaseLen \in Nat \ {0} /\ NoKey \notin OpKeys /\ NoToken \notin Tokens
      /\ \A w \in Workspaces : RowOK(w)
  BY Zenon, CapacityAssumption, ShapeByRow DEF CapacityTypeOK
<1>1. ASSUME UNCHANGED <<rowVars, active, deadlineIn, leaseVars>>
      PROVE  RowShape' /\ LeaseIsFence'
  BY Zenon, <1>1 DEF RowShape, LeaseIsFence, rowVars, leaseVars
<1>2. ASSUME NEW c \in Callers, ClaimInsertQueued(c)
      PROVE  RowShape' /\ LeaseIsFence'
  <2>0. PICK w \in Workspaces : w = tx[c].ws
    BY Zenon, <1>2 DEF ClaimInsertQueued, LockInv
  <2>1. tx[c].key \in OpKeys /\ tx[c].seenOrg \in Nat
    BY Zenon, <1>2 DEF ClaimInsertQueued, LockInv, CapacityTypeOK, Calls
  <2>2. /\ decision' = [decision EXCEPT ![w] = "queued"]
        /\ opKey' = [opKey EXCEPT ![w] = tx[c].key]
        /\ queuePosition' = [queuePosition EXCEPT ![w] = tx[c].seenOrg + 1]
        /\ decision[w] = "none"
        /\ UNCHANGED <<active, deadlineIn, lease, leaseLeft>>
    BY Zenon, <1>2, <2>0 DEF ClaimInsertQueued, leaseVars
  <2>3. RowOK(w)'
    <3>1. /\ decision'[w] = "queued" /\ opKey'[w] # NoKey
          /\ queuePosition'[w] = tx[c].seenOrg + 1 /\ queuePosition'[w] > 0
      <4>1. decision'[w] = "queued" /\ opKey'[w] = tx[c].key
        BY Zenon, <1>0, <2>2
      <4>2. queuePosition'[w] = tx[c].seenOrg + 1
        BY Zenon, <1>0, <2>2
      <4>3. tx[c].seenOrg + 1 > 0
        BY <2>1
      <4>4. tx[c].key # NoKey
        BY Zenon, <2>1, CapacityAssumption
      <4> QED
        BY Zenon, <4>1, <4>2, <4>3, <4>4
    <3>2. w \notin active /\ deadlineIn[w] = 0 /\ lease[w] = NoToken /\ ~(leaseLeft[w] > 0)
      BY Zenon, <1>0, <2>2 DEF RowOK
    <3> QED
      BY Zenon, <2>2, <3>1, <3>2 DEF RowOK
  <2>4. ASSUME NEW v \in Workspaces, v # w PROVE RowOK(v)'
    BY Zenon, <1>0, <2>2, <2>4, SameRow
  <2>5. LeaseIsFence'
    BY Zenon, <2>2 DEF LeaseIsFence
  <2> QED
    BY Zenon, <2>3, <2>4, <2>5, ShapeByRow
<1>3. ASSUME NEW c \in Callers, ClaimInsertAdmitted(c)
      PROVE  RowShape' /\ LeaseIsFence'
  <2>0. PICK w \in Workspaces : w = tx[c].ws
    BY Zenon, <1>3 DEF ClaimInsertAdmitted, LockInv
  <2>1. tx[c].key \in OpKeys /\ tx[c].budgetLeft \in Nat
    BY Zenon, <1>3 DEF ClaimInsertAdmitted, LockInv, CapacityTypeOK, Calls
  <2>2. /\ decision' = [decision EXCEPT ![w] = "admitted"]
        /\ opKey' = [opKey EXCEPT ![w] = tx[c].key]
        /\ deadlineIn' = [deadlineIn EXCEPT ![w] = tx[c].budgetLeft]
        /\ active' = active \cup {w}
        /\ decision[w] = "none"
        /\ UNCHANGED <<queuePosition, lease, leaseLeft>>
    BY Zenon, <1>3, <2>0 DEF ClaimInsertAdmitted, leaseVars
  <2>3. lease[w] = NoToken
    BY Zenon, <1>0, <2>1, <2>2 DEF RowOK
  <2>4. RowOK(w)'
    BY Zenon, <1>0, <2>1, <2>2 DEF RowOK
  <2>5. ASSUME NEW v \in Workspaces, v # w PROVE RowOK(v)'
    BY Zenon, <1>0, <2>2, <2>5, SameRow
  <2>6. LeaseIsFence'
    BY Zenon, <1>0, <2>2, <2>3 DEF LeaseIsFence
  <2> QED
    BY Zenon, <2>4, <2>5, <2>6, ShapeByRow
<1>4. ASSUME NEW w \in Workspaces, active' \subseteq active, \A v \in active : v # w => v \in active',
             lease' = [lease EXCEPT ![w] = NoToken], leaseLeft' = [leaseLeft EXCEPT ![w] = 0],
             UNCHANGED <<rowVars, deadlineIn>>
      PROVE  RowShape' /\ LeaseIsFence'
  <2>1. RowOK(w)'
    <3>1. lease'[w] = NoToken /\ leaseLeft'[w] = 0 /\ (w \in active' => w \in active)
      BY Zenon, <1>0, <1>4
    <3>2. UNCHANGED <<decision, opKey, queuePosition, deadlineIn>>
      BY Zenon, <1>4 DEF rowVars
    <3>3. RowOK(w)
      BY Zenon, <1>0
    <3> QED
      BY SMTT(20), <3>1, <3>2, <3>3 DEF RowOK
  <2>2. ASSUME NEW v \in Workspaces, v # w PROVE RowOK(v)'
    BY Zenon, <1>0, <1>4, <2>2, SameRow DEF rowVars
  <2>3. LeaseIsFence'
    BY Zenon, <1>0, <1>4 DEF LeaseIsFence
  <2> QED
    BY Zenon, <2>1, <2>2, <2>3, ShapeByRow
<1>5. ASSUME NEW w \in Workspaces, NEW t \in Tokens, LeaseStep(w, t)
      PROVE  RowShape' /\ LeaseIsFence'
  <2>1. CASE ClaimExpired(w, t) \/ RenewExpired(w, t)
    <3>1. /\ w \in active /\ lease' = [lease EXCEPT ![w] = t]
          /\ leaseLeft' = [leaseLeft EXCEPT ![w] = LeaseLen]
          /\ UNCHANGED <<rowVars, active, deadlineIn>>
      BY Zenon, <1>0, <2>1 DEF ClaimExpired, Claimable, RenewExpired, HoldsFence
    <3>2. deadlineIn[w] = 0 /\ \A v \in Workspaces : v # w => lease[v] # t
      BY Zenon, <1>0, <2>1 DEF ClaimExpired, Claimable, RenewExpired, HoldsFence, LeaseIsFence
    <3>3. RowOK(w)'
      BY Zenon, <1>0, <3>1 DEF RowOK, rowVars
    <3>4. ASSUME NEW v \in Workspaces, v # w PROVE RowOK(v)'
      BY Zenon, <1>0, <3>1, <3>4, SameRow DEF rowVars
    <3>5. LeaseIsFence'
      BY Zenon, <1>0, <3>1, <3>2 DEF LeaseIsFence
    <3> QED
      BY Zenon, <3>3, <3>4, <3>5, ShapeByRow
  <2>2. CASE CompleteExpired(w, t)
    BY Zenon, <1>4, <2>2 DEF CompleteExpired, Deactivate
  <2>3. CASE ReleaseExpired(w, t)
    BY Zenon, <1>4, <2>3 DEF ReleaseExpired
  <2> QED
    BY Zenon, <1>5, <2>1, <2>2, <2>3 DEF LeaseStep
<1>6. ASSUME NEW w \in Workspaces, Release(w) PROVE RowShape' /\ LeaseIsFence'
  <2>1. CASE w \in active
    BY Zenon, <1>4, <1>6, <2>1 DEF Release, Deactivate
  <2>2. CASE w \notin active
    BY Zenon, <1>1, <1>6, <2>2 DEF Release
  <2> QED
    BY Zenon, <2>1, <2>2
<1>7. ASSUME Tick PROVE RowShape' /\ LeaseIsFence'
  <2>1. RowShape'
    BY <1>0, <1>7 DEF Tick, Down, RowShape, rowVars
  <2>2. LeaseIsFence'
    BY Zenon, <1>0, <1>7 DEF Tick, Down, LeaseIsFence
  <2> QED
    BY Zenon, <2>1, <2>2
<1>8. ASSUME NEW c \in Callers, ClaimStep(c), ~ClaimInsertQueued(c), ~ClaimInsertAdmitted(c)
      PROVE  UNCHANGED <<rowVars, active, deadlineIn, leaseVars>>
  BY Zenon, <1>8 DEF ClaimStep, AdmitReadLimits, ClaimLock, ClaimExisting, ClaimCountGlobal,
              ClaimCountOrganization, ClaimInsertConflict, ClaimAbort
<1> QED
  BY Zenon, <1>1, <1>2, <1>3, <1>5, <1>6, <1>7, <1>8 DEF CapacityNext, ChangePlan

-----------------------------------------------------------------------------
(* The invariant is inductive.                                             *)
LEMMA CapacityInvStep ==
  ASSUME CapacityInv, CapacityNext \/ UNCHANGED capacityVars
  PROVE  CapacityInv'
<1>1. CASE CapacityNext
  BY Zenon, <1>1, CapacityTypeStep, LockStep, CountStep, KeyStep, LimitsStep, ShapeStep
     DEF CapacityInv
<1>2. CASE UNCHANGED capacityVars
  <2> USE <1>2 DEF CapacityInv, capacityVars, admissionVars, rowVars, leaseVars
  <2>1. CapacityTypeOK'
    BY Zenon DEF CapacityTypeOK
  <2>2. LockInv'
    BY Zenon DEF LockInv
  <2>3. CountInv'
    BY Zenon DEF CountInv
  <2>4. KeyInv' /\ KeyNamesOneRow'
    BY Zenon DEF KeyInv, KeyNamesOneRow, RowsWithKey
  <2>5. CapacityLimits'
    BY Zenon DEF CapacityLimits
  <2>6. RowShape' /\ LeaseIsFence'
    BY Zenon DEF RowShape, LeaseIsFence
  <2> QED
    BY Zenon, <2>1, <2>2, <2>3, <2>4, <2>5, <2>6
<1> QED
  BY Zenon, <1>1, <1>2

(* The inductive invariant: what is counted under the lock can only be too *)
(* high, so every admission is within the limits.                          *)
THEOREM CapacityInvariant == CapacitySpec => []CapacityInv
<1>1. CapacityInit => CapacityInv
  BY Zenon, CapacityInitInv
<1>2. CapacityInv /\ [CapacityNext]_capacityVars => CapacityInv'
  BY Zenon, CapacityInvStep
<1> QED
  BY <1>1, <1>2, PTL DEF CapacitySpec

(* Every column and call stays in its domain.                              *)
THEOREM CapacityTyped == CapacitySpec => []CapacityTypeOK
  BY CapacityInvariant, PTL DEF CapacityInv

(* The active sandboxes never exceed the global limit, nor those of an     *)
(* organization the largest plan, whatever interleaves with a claim.       *)
THEOREM LimitsHold == CapacitySpec => []CapacityLimits
  BY CapacityInvariant, PTL DEF CapacityInv

(* The CHECK constraints are never what rejects an operation of the        *)
(* repository.                                                             *)
THEOREM RowsWellFormed == CapacitySpec => []RowShape
  BY CapacityInvariant, PTL DEF CapacityInv

(* An operation key names one row, so the lookup by key that replays an    *)
(* admission is unambiguous.                                               *)
THEOREM KeysNameOneRow == CapacitySpec => []KeyNamesOneRow
  BY CapacityInvariant, PTL DEF CapacityInv

(* An expiry lease is only on an overdue row and its token on no other.    *)
THEOREM FenceHolds == CapacitySpec => []LeaseIsFence
  BY CapacityInvariant, PTL DEF CapacityInv

(* Each admission is within the plan limit its own call read and within    *)
(* the global limit at the moment of the insert.                           *)
THEOREM AdmissionsWithinLimits == CapacitySpec => AdmissionWithinLimits
<1> DEFINE A == \A c \in Callers : (tx[c].pc = "decide" /\ ~(active' \subseteq active)) =>
                  /\ Cardinality(active') <= GlobalLimit
                  /\ Cardinality(active' \cap Members(OrgOf[tx[c].ws])) <= tx[c].limit
<1>1. ASSUME CapacityInv, CapacityNext PROVE A
  <2> SUFFICES ASSUME NEW c \in Callers, tx[c].pc = "decide", ~(active' \subseteq active)
               PROVE  /\ Cardinality(active') <= GlobalLimit
                      /\ Cardinality(active' \cap Members(OrgOf[tx[c].ws])) <= tx[c].limit
    BY Zenon
  <2>1. PICK d \in Callers : ClaimInsertAdmitted(d)
    BY Zenon, <1>1, ActiveGrowsByInsert DEF CapacityInv
  <2>2. d = c
    BY Zenon, <1>1, <2>1 DEF CapacityInv, LockInv, InTransaction, ClaimInsertAdmitted
  <2> QED
    BY Zenon, <1>1, <2>1, <2>2, InsertWithinLimits DEF CapacityInv
<1>2. CapacityInv /\ [CapacityNext]_capacityVars => [A]_capacityVars
  BY Zenon, <1>1
<1> QED
  BY <1>2, CapacityInvariant, PTL DEF CapacitySpec, AdmissionWithinLimits

(* A step never rewrites a recorded decision or reactivates its row.       *)
LEMMA DecisionStep ==
  ASSUME CapacityInv, CapacityNext, NEW w \in Workspaces
  PROVE  /\ decision[w] # "none" =>
              /\ decision'[w] = decision[w]
              /\ opKey'[w] = opKey[w]
              /\ queuePosition'[w] = queuePosition[w]
         /\ (w \in active' /\ w \notin active) => decision[w] = "none"
<1>1. CASE \E c \in Callers : ClaimInsertQueued(c) \/ ClaimInsertAdmitted(c)
  BY SMTT(20), <1>1 DEF CapacityInv, CapacityTypeOK, ClaimInsertQueued, ClaimInsertAdmitted
<1>2. CASE UNCHANGED rowVars /\ active' \subseteq active
  BY Zenon, <1>2 DEF rowVars
<1> QED
  BY Zenon, <1>1, <1>2, RowsWrittenByInsert, ActiveGrowsByInsert DEF CapacityInv

(* A recorded decision never changes and a slot given back is never taken  *)
(* again by its row.                                                       *)
THEOREM DecisionsStand == CapacitySpec => DecisionStands
<1> DEFINE A == \A w \in Workspaces :
                  /\ decision[w] # "none" =>
                       /\ decision'[w] = decision[w]
                       /\ opKey'[w] = opKey[w]
                       /\ queuePosition'[w] = queuePosition[w]
                  /\ (w \in active' /\ w \notin active) => decision[w] = "none"
<1>1. CapacityInv /\ [CapacityNext]_capacityVars => [A]_capacityVars
  BY Zenon, DecisionStep
<1> QED
  BY <1>1, CapacityInvariant, PTL DEF CapacitySpec, DecisionStands

(* A lease that has not run out is cleared or kept, never taken over.      *)
THEOREM LiveLeasesKept == CapacitySpec => LiveLeaseNotStolen
<1> DEFINE A == \A w \in Workspaces : leaseLeft[w] > 0 => lease'[w] \in {lease[w], NoToken}
<1>1. ASSUME CapacityInv, CapacityNext PROVE A
  <2>1. ASSUME NEW v \in Workspaces, NEW t \in Tokens, LeaseStep(v, t) PROVE A
    <3>1. lease \in [Workspaces -> Tokens \cup {NoToken}] /\ leaseLeft \in [Workspaces -> Nat]
      BY Zenon, <1>1 DEF CapacityInv, CapacityTypeOK
    <3>2. CASE ClaimExpired(v, t)
      BY SMTT(20), <3>1, <3>2 DEF ClaimExpired, Claimable
    <3>3. CASE RenewExpired(v, t)
      BY Zenon, <3>3 DEF RenewExpired
    <3>4. CASE CompleteExpired(v, t) \/ ReleaseExpired(v, t)
      <4>1. lease' = [lease EXCEPT ![v] = NoToken]
        BY Zenon, <3>4 DEF CompleteExpired, ReleaseExpired, Deactivate
      <4> QED
        BY Zenon, <3>1, <4>1
    <3> QED
      BY Zenon, <2>1, <3>2, <3>3, <3>4 DEF LeaseStep
  <2>2. ASSUME NEW v \in Workspaces, Release(v) PROVE A
    BY Zenon, <1>1, <2>2 DEF CapacityInv, CapacityTypeOK, Release, Deactivate, leaseVars
  <2>3. ASSUME NEW c \in Callers, ClaimStep(c) PROVE lease' = lease
    BY Zenon, <2>3 DEF ClaimStep, AdmitReadLimits, ClaimLock, ClaimExisting, ClaimCountGlobal,
         ClaimCountOrganization, ClaimInsertQueued, ClaimInsertAdmitted, ClaimInsertConflict,
         ClaimAbort, leaseVars
  <2> QED
    BY Zenon, <1>1, <2>1, <2>2, <2>3 DEF CapacityNext, ChangePlan, Tick, leaseVars
<1>2. CapacityInv /\ [CapacityNext]_capacityVars => [A]_capacityVars
  BY Zenon, <1>1
<1> QED
  BY <1>2, CapacityInvariant, PTL DEF CapacitySpec, LiveLeaseNotStolen

-----------------------------------------------------------------------------
(* The governor.                                                           *)

(* The sweep of a replica has the shape its code gives it.                 *)
Sweeps ==
  [pc : {"idle", "claimed", "acting", "acted", "renewed", "failed"},
   ws : Workspaces \cup {NoWorkspace}, token : Tokens \cup {NoToken}, lost : BOOLEAN]

Kills ==
  [pc : {"idle", "audited", "walking", "release"},
   todo : SUBSET Workspaces, cur : Workspaces \cup {NoWorkspace}]

(* What a sweep or a kill request works on was admitted once, so it can    *)
(* never be admitted again; and a sweep that has acted, or a kill about to *)
(* release, has stopped the sandbox.                                       *)
WorkInv ==
  /\ sweep \in [Replicas -> Sweeps]
  /\ killing \in [Orgs -> Kills]
  /\ \A r \in Replicas : sweep[r].pc # "idle" =>
       /\ sweep[r].ws \in Workspaces /\ sweep[r].token \in Tokens
       /\ decision[sweep[r].ws] # "none"
       /\ sweep[r].pc \in {"acted", "renewed"} => sweep[r].ws \notin running
  /\ \A o \in Orgs :
       /\ \A w \in killing[o].todo : decision[w] # "none"
       /\ killing[o].pc = "release" =>
            /\ killing[o].cur \in Workspaces
            /\ decision[killing[o].cur] # "none"
            /\ killing[o].cur \notin running

GovernorInv == CapacityInv /\ SlotCoversSandbox /\ WorkInv

-----------------------------------------------------------------------------
(* Every step of the governor is a step of the repository or leaves the    *)
(* table alone.                                                            *)
LEMMA GovernorStepOnTable ==
  ASSUME CapacityTypeOK, WorkInv, GovernorNext
  PROVE  CapacityNext \/ UNCHANGED capacityVars
<1>1. ASSUME NEW c \in Callers, Admit(c) PROVE CapacityNext
  BY Zenon, <1>1 DEF Admit, CapacityNext
<1>2. ASSUME NEW r \in Replicas, SweepClaim(r) PROVE CapacityNext
  <2>1. FreshTokens # {} /\ FreshTokens \subseteq Tokens
    BY Zenon, <1>2 DEF SweepClaim, FreshTokens
  <2>2. (CHOOSE t \in FreshTokens : TRUE) \in Tokens
    BY Zenon, <2>1
  <2>3. ClaimExpired(NextExpired, CHOOSE t \in FreshTokens : TRUE)
    BY Zenon, <1>2 DEF SweepClaim
  <2>4. NextExpired \in Workspaces
    BY Zenon, <2>3 DEF ClaimExpired, Claimable, CapacityTypeOK
  <2> QED
    BY Zenon, <2>2, <2>3, <2>4 DEF CapacityNext, LeaseStep
<1>3. ASSUME NEW r \in Replicas, sweep[r].pc # "idle",
             SweepAbandon(r) \/ RenewTimer(r) \/ SweepRenew(r) \/ SweepComplete(r) \/ SweepCatch(r)
      PROVE  CapacityNext \/ UNCHANGED capacityVars
  <2>1. sweep[r].ws \in Workspaces /\ sweep[r].token \in Tokens
    BY Zenon, <1>3 DEF WorkInv
  <2>2. \/ RenewExpired(sweep[r].ws, sweep[r].token)
        \/ CompleteExpired(sweep[r].ws, sweep[r].token)
        \/ ReleaseExpired(sweep[r].ws, sweep[r].token)
        \/ UNCHANGED capacityVars
    BY Zenon, <1>3 DEF SweepAbandon, RenewTimer, SweepRenew, SweepComplete, SweepCatch, GiveBackLease
  <2> QED
    BY Zenon, <2>1, <2>2 DEF CapacityNext, LeaseStep
<1>4. ASSUME NEW r \in Replicas, SweepStep(r) PROVE CapacityNext \/ UNCHANGED capacityVars
  BY Zenon, <1>2, <1>3, <1>4
     DEF SweepStep, SweepBegin, SweepAbandon, SweepTerminate, SweepTerminateFails, RenewTimer,
         RenewTimerFails, SweepRenew, SweepComplete, SweepDatabaseFails, SweepCatch, Stop, Exit,
         Crash, Restart
<1>5. ASSUME NEW o \in Orgs, KillStep(o) PROVE CapacityNext \/ UNCHANGED capacityVars
  <2>1. CASE KillRelease(o)
    BY Zenon, <2>1 DEF KillRelease, WorkInv, CapacityNext
  <2> QED
    BY Zenon, <1>5, <2>1 DEF KillStep, KillAudit, KillList, KillTerminate, KillEnd
<1>6. ASSUME NEW w \in Workspaces, RouteTerminate(w) \/ RouteRelease(w)
      PROVE  CapacityNext \/ UNCHANGED capacityVars
  BY Zenon, <1>6 DEF RouteTerminate, RouteRelease, CapacityNext
<1> QED
  BY Zenon, <1>1, <1>4, <1>5, <1>6 DEF GovernorNext, PlanChanges, Pass, CapacityNext

(* The governor starts with nothing in hand.                               *)
LEMMA GovernorInitInv == GovernorInit => GovernorInv
<1> SUFFICES ASSUME GovernorInit PROVE GovernorInv
  BY Zenon
<1>1. CapacityInv
  BY Zenon, CapacityInitInv DEF GovernorInit
<1>2. SlotCoversSandbox /\ WorkInv
  BY Zenon DEF GovernorInit, SlotCoversSandbox, WorkInv, Sweeps, Kills, NoSweep, NoKill
<1> QED
  BY Zenon, <1>1, <1>2 DEF GovernorInv

(* A step that admits starts the sandbox it admits, and only that one; all *)
(* other steps leave the running sandboxes or stop some.                   *)
LEMMA RunningGrowsByAdmit ==
  ASSUME CapacityInv, GovernorNext
  PROVE  \/ running' \subseteq running
         \/ \E c \in Callers :
              /\ ClaimInsertAdmitted(c)
              /\ running' = running \cup {tx[c].ws} /\ active' = active \cup {tx[c].ws}
              /\ decision[tx[c].ws] = "none" /\ UNCHANGED <<sweep, killing>>
<1>1. ASSUME NEW c \in Callers, Admit(c), ~(active' \subseteq active)
      PROVE  \E d \in Callers :
              /\ ClaimInsertAdmitted(d)
              /\ running' = running \cup {tx[d].ws} /\ active' = active \cup {tx[d].ws}
              /\ decision[tx[d].ws] = "none" /\ UNCHANGED <<sweep, killing>>
  <2>1. ClaimInsertAdmitted(c)
    BY Zenon, <1>1 DEF Admit, ClaimStep, AdmitReadLimits, ClaimLock, ClaimExisting, ClaimCountGlobal,
         ClaimCountOrganization, ClaimInsertQueued, ClaimInsertConflict, ClaimAbort
  <2> QED
    BY Zenon, <1>1, <2>1 DEF Admit, ClaimInsertAdmitted, sweepVars
<1>2. ASSUME NEW c \in Callers, Admit(c), active' \subseteq active PROVE running' = running
  BY Zenon, <1>2 DEF Admit
<1>3. ASSUME NEW r \in Replicas, SweepStep(r) PROVE running' \subseteq running
  BY Zenon, <1>3
     DEF SweepStep, SweepClaim, SweepBegin, SweepAbandon, SweepTerminate, SweepTerminateFails,
         RenewTimer, RenewTimerFails, SweepRenew, SweepComplete, SweepDatabaseFails, SweepCatch,
         Stop, Exit, Crash, Restart
<1>4. ASSUME NEW o \in Orgs, KillStep(o) PROVE running' \subseteq running
  BY Zenon, <1>4 DEF KillStep, KillAudit, KillList, KillTerminate, KillRelease, KillEnd
<1> QED
  BY Zenon, <1>1, <1>2, <1>3, <1>4
     DEF GovernorNext, RouteTerminate, RouteRelease, PlanChanges, Pass

(* A slot is freed only after its sandbox has stopped.                     *)
LEMMA SlotStep ==
  ASSUME GovernorInv, GovernorNext
  PROVE  SlotCoversSandbox'
<1>1. CASE \E c \in Callers : /\ running' = running \cup {tx[c].ws}
                              /\ active' = active \cup {tx[c].ws}
  BY Zenon, <1>1 DEF GovernorInv, SlotCoversSandbox
<1>2. ASSUME running' \subseteq running, active \subseteq active' PROVE SlotCoversSandbox'
  BY Zenon, <1>2 DEF GovernorInv, SlotCoversSandbox
<1>3. ASSUME NEW w \in Workspaces \ running, active \subseteq active' \cup {w},
             running' \subseteq running
      PROVE  SlotCoversSandbox'
  BY Zenon, <1>3 DEF GovernorInv, SlotCoversSandbox
<1>4. ASSUME NEW r \in Replicas, SweepStep(r), running' \subseteq running
      PROVE  SlotCoversSandbox'
  <2>1. CASE SweepComplete(r)
    <3>1. sweep[r].ws \in Workspaces \ running
      BY Zenon, <2>1 DEF SweepComplete, GovernorInv, WorkInv
    <3>2. active \subseteq active' \cup {sweep[r].ws}
      BY Zenon, <2>1 DEF SweepComplete, CompleteExpired, Deactivate, capacityVars
    <3> QED
      BY Zenon, <1>3, <1>4, <3>1, <3>2
  <2>2. CASE ~SweepComplete(r)
    <3>1. active' = active
      BY Zenon, <1>4, <2>2
         DEF SweepStep, SweepClaim, SweepBegin, SweepAbandon, SweepTerminate, SweepTerminateFails,
             RenewTimer, RenewTimerFails, SweepRenew, SweepDatabaseFails, SweepCatch,
             Stop, Exit, Crash, Restart, GiveBackLease, ClaimExpired, RenewExpired,
             ReleaseExpired, capacityVars
    <3> QED
      BY Zenon, <1>2, <1>4, <3>1
  <2> QED
    BY Zenon, <2>1, <2>2
<1>5. ASSUME NEW o \in Orgs, KillStep(o), running' \subseteq running
      PROVE  SlotCoversSandbox'
  <2>1. CASE KillRelease(o)
    <3>1. killing[o].cur \in Workspaces \ running
      BY Zenon, <2>1 DEF KillRelease, GovernorInv, WorkInv
    <3>2. active \subseteq active' \cup {killing[o].cur}
      BY Zenon, <2>1 DEF KillRelease, Release, Deactivate
    <3> QED
      BY Zenon, <1>3, <1>5, <3>1, <3>2
  <2>2. CASE ~KillRelease(o)
    BY Zenon, <1>2, <1>5, <2>2
       DEF KillStep, KillAudit, KillList, KillTerminate, KillEnd, capacityVars
  <2> QED
    BY Zenon, <2>1, <2>2
<1>6. ASSUME NEW w \in Workspaces, RouteTerminate(w), running' \subseteq running
      PROVE  SlotCoversSandbox'
  BY Zenon, <1>2, <1>6 DEF RouteTerminate, capacityVars
<1>7. ASSUME NEW w \in Workspaces, RouteRelease(w), running' \subseteq running
      PROVE  SlotCoversSandbox'
  <2>1. w \in Workspaces \ running /\ active \subseteq active' \cup {w}
    BY Zenon, <1>7 DEF RouteRelease, Release, Deactivate
  <2> QED
    BY Zenon, <1>3, <1>7, <2>1
<1>8. ASSUME NEW c \in Callers, Admit(c), running' \subseteq running
      PROVE  active \subseteq active'
  BY Zenon, <1>8 DEF Admit, ClaimStep, AdmitReadLimits, ClaimLock, ClaimExisting, ClaimCountGlobal,
       ClaimCountOrganization, ClaimInsertQueued, ClaimInsertAdmitted, ClaimInsertConflict,
       ClaimAbort
<1> QED
  BY Zenon, <1>1, <1>2, <1>4, <1>5, <1>6, <1>7, <1>8, RunningGrowsByAdmit
     DEF GovernorInv, GovernorNext, PlanChanges, ChangePlan, Pass, Tick

(* Decisions stand and stopped sandboxes stay stopped, so what is in hand  *)
(* keeps its meaning while others move.                                    *)
LEMMA WorkKept ==
  ASSUME GovernorInv, GovernorNext, CapacityNext \/ UNCHANGED capacityVars
  PROVE  \A w \in Workspaces : decision[w] # "none" =>
           decision'[w] # "none" /\ (w \notin running => w \notin running')
<1> SUFFICES ASSUME NEW w \in Workspaces, decision[w] # "none"
             PROVE  decision'[w] # "none" /\ (w \notin running => w \notin running')
  BY Zenon
<1>1. decision'[w] # "none"
  BY Zenon, DecisionStep DEF GovernorInv, capacityVars, rowVars
<1>2. w \notin running => w \notin running'
  BY Zenon, RunningGrowsByAdmit DEF GovernorInv
<1> QED
  BY Zenon, <1>1, <1>2

(* Each step of a sweep or of a kill keeps what it works on admitted, and  *)
(* passes on to completion or release only what it has stopped.            *)
LEMMA WorkStep ==
  ASSUME GovernorInv, GovernorNext, CapacityNext \/ UNCHANGED capacityVars
  PROVE  WorkInv'
<1> DEFINE SweepOK(s) ==
             s.pc # "idle" =>
               /\ s.ws \in Workspaces /\ s.token \in Tokens
               /\ decision[s.ws] # "none"
               /\ s.pc \in {"acted", "renewed"} => s.ws \notin running
           KillOK(k) ==
             /\ \A w \in k.todo : decision[w] # "none"
             /\ k.pc = "release" =>
                  /\ k.cur \in Workspaces
                  /\ decision[k.cur] # "none"
                  /\ k.cur \notin running
           SweepNext(s) ==
             s.pc # "idle" =>
               /\ s.ws \in Workspaces /\ s.token \in Tokens
               /\ decision'[s.ws] # "none"
               /\ s.pc \in {"acted", "renewed"} => s.ws \notin running'
           KillNext(k) ==
             /\ \A w \in k.todo : decision'[w] # "none"
             /\ k.pc = "release" =>
                  /\ k.cur \in Workspaces
                  /\ decision'[k.cur] # "none"
                  /\ k.cur \notin running'
<1>1. WorkInv /\ CapacityTypeOK /\ RowShape
  BY Zenon DEF GovernorInv, CapacityInv
<1>2. \A s \in Sweeps : SweepOK(s) => SweepNext(s)
  BY Zenon, WorkKept DEF Sweeps
<1>3. \A k \in Kills : KillOK(k) => KillNext(k)
  BY Zenon, WorkKept DEF Kills
<1>4. /\ \A r \in Replicas : sweep[r] \in Sweeps /\ SweepNext(sweep[r])
      /\ \A o \in Orgs : killing[o] \in Kills /\ KillNext(killing[o])
  BY Zenon, <1>1, <1>2, <1>3 DEF WorkInv
<1>5. ASSUME NEW r \in Replicas, NEW s \in Sweeps, SweepNext(s),
             sweep' = [sweep EXCEPT ![r] = s], UNCHANGED killing
      PROVE  WorkInv'
  BY Zenon, <1>1, <1>4, <1>5 DEF WorkInv
<1>6. ASSUME NEW o \in Orgs, NEW k \in Kills, KillNext(k),
             killing' = [killing EXCEPT ![o] = k], UNCHANGED sweep
      PROVE  WorkInv'
  BY Zenon, <1>1, <1>4, <1>6 DEF WorkInv
<1>7. ASSUME UNCHANGED <<sweep, killing>> PROVE WorkInv'
  BY Zenon, <1>1, <1>4, <1>7 DEF WorkInv
<1>8. NoSweep \in Sweeps /\ SweepNext(NoSweep)
  BY Zenon DEF NoSweep, Sweeps
<1>9. ASSUME NEW r \in Replicas, NEW pc \in {"acting", "renewed", "failed"}, Goto(r, pc),
             sweep[r].pc # "idle", pc = "renewed" => sweep[r].pc = "acted", UNCHANGED killing
      PROVE  WorkInv'
  <2>1. [sweep[r] EXCEPT !.pc = pc] \in Sweeps /\ SweepNext([sweep[r] EXCEPT !.pc = pc])
    BY Zenon, <1>4, <1>9 DEF Sweeps
  <2> QED
    BY Zenon, <1>5, <1>9, <2>1 DEF Goto
<1>10. ASSUME NEW r \in Replicas, SweepStep(r) PROVE WorkInv'
  <2>1. CASE SweepClaim(r)
    <3> DEFINE t == CHOOSE t \in FreshTokens : TRUE
               s == [pc |-> "claimed", ws |-> NextExpired, token |-> t, lost |-> FALSE]
    <3>1. ClaimExpired(NextExpired, t) /\ sweep' = [sweep EXCEPT ![r] = s] /\ UNCHANGED killing
      BY Zenon, <2>1 DEF SweepClaim, Set
    <3>2. t \in Tokens
      BY Zenon, <2>1 DEF SweepClaim, FreshTokens
    <3>3. NextExpired \in Workspaces /\ decision'[NextExpired] # "none"
      BY Zenon, <1>1, <3>1 DEF ClaimExpired, Claimable, CapacityTypeOK, RowShape, rowVars
    <3>4. s \in Sweeps /\ SweepNext(s)
      BY Zenon, <3>2, <3>3 DEF Sweeps
    <3> HIDE DEF s
    <3> QED
      BY Zenon, <1>5, <3>1, <3>4
  <2>2. CASE SweepTerminate(r)
    <3>1. [sweep[r] EXCEPT !.pc = "acted"] \in Sweeps /\ SweepNext([sweep[r] EXCEPT !.pc = "acted"])
      BY Zenon, <1>4, <2>2 DEF Sweeps, SweepTerminate
    <3> QED
      BY Zenon, <1>5, <2>2, <3>1 DEF SweepTerminate, Goto
  <2>3. CASE SweepBegin(r)
    BY Zenon, <1>9, <2>3 DEF SweepBegin
  <2>4. CASE SweepTerminateFails(r)
    BY Zenon, <1>9, <2>4 DEF SweepTerminateFails
  <2>5. CASE SweepDatabaseFails(r)
    BY Zenon, <1>9, <2>5 DEF SweepDatabaseFails
  <2>6. CASE SweepRenew(r)
    <3>1. CASE Goto(r, "renewed")
      BY Zenon, <1>9, <2>6, <3>1 DEF SweepRenew
    <3>2. CASE Set(r, [sweep[r] EXCEPT !.pc = "failed", !.lost = TRUE])
      <4>1. sweep[r] \in Sweeps /\ SweepNext(sweep[r]) /\ sweep[r].pc # "idle"
        BY Zenon, <1>4, <2>6 DEF SweepRenew
      <4>2. \A s \in Sweeps : [s EXCEPT !.pc = "failed", !.lost = TRUE] \in Sweeps
        BY Zenon DEF Sweeps
      <4>3. SweepNext([sweep[r] EXCEPT !.pc = "failed", !.lost = TRUE])
        BY Zenon, <4>1 DEF Sweeps
      <4> QED
        BY Zenon, <1>5, <2>6, <3>2, <4>1, <4>2, <4>3 DEF SweepRenew, Set
    <3> QED
      BY Zenon, <2>6, <3>1, <3>2 DEF SweepRenew
  <2>7. CASE SweepComplete(r)
    <3>1. CASE Goto(r, "failed")
      BY Zenon, <1>9, <2>7, <3>1 DEF SweepComplete
    <3>2. CASE Set(r, NoSweep)
      BY Zenon, <1>5, <1>8, <2>7, <3>2 DEF SweepComplete, Set
    <3> QED
      BY Zenon, <2>7, <3>1, <3>2 DEF SweepComplete
  <2>8. CASE RenewTimer(r) \/ RenewTimerFails(r)
    <3>1. UNCHANGED sweep \/ sweep' = [sweep EXCEPT ![r] = [sweep[r] EXCEPT !.lost = TRUE]]
      BY Zenon, <2>8 DEF RenewTimer, RenewTimerFails
    <3>2. [sweep[r] EXCEPT !.lost = TRUE] \in Sweeps /\ SweepNext([sweep[r] EXCEPT !.lost = TRUE])
      BY Zenon, <1>4 DEF Sweeps
    <3>3. UNCHANGED killing
      BY Zenon, <2>8 DEF RenewTimer, RenewTimerFails
    <3> QED
      BY Zenon, <1>5, <1>7, <3>1, <3>2, <3>3
  <2>9. CASE SweepAbandon(r) \/ SweepCatch(r) \/ Crash(r)
    <3>1. Set(r, NoSweep) /\ UNCHANGED killing
      BY Zenon, <2>9 DEF SweepAbandon, SweepCatch, GiveBackLease, Crash
    <3> QED
      BY Zenon, <1>5, <1>8, <3>1 DEF Set
  <2>10. CASE Stop(r) \/ Exit(r) \/ Restart(r)
    BY Zenon, <1>7, <2>10 DEF Stop, Exit, Restart
  <2> QED
    BY Zenon, <1>10, <2>1, <2>2, <2>3, <2>4, <2>5, <2>6, <2>7, <2>8, <2>9, <2>10 DEF SweepStep
<1>11. ASSUME NEW o \in Orgs, KillStep(o) PROVE WorkInv'
  <2>1. CASE KillAudit(o)
    <3>1. [killing[o] EXCEPT !.pc = "audited"] \in Kills
          /\ KillNext([killing[o] EXCEPT !.pc = "audited"])
      BY Zenon, <1>4 DEF Kills
    <3> QED
      BY Zenon, <1>6, <2>1, <3>1 DEF KillAudit
  <2>2. CASE KillList(o)
    <3> DEFINE k == [pc |-> "walking", todo |-> active \cap Members(o), cur |-> NoWorkspace]
    <3>1. k \in Kills /\ KillNext(k)
      BY Zenon, <1>1, <2>2 DEF KillList, Kills, CapacityTypeOK, RowShape, capacityVars, rowVars
    <3> QED
      BY Zenon, <1>6, <2>2, <3>1 DEF KillList, sweepVars
  <2>3. CASE KillTerminate(o)
    <3>1. PICK w \in killing[o].todo \ Stubborn :
            /\ running' = running \ {w}
            /\ killing' = [killing EXCEPT ![o] =
                 [pc |-> "release", todo |-> killing[o].todo \ {w}, cur |-> w]]
      BY Zenon, <2>3 DEF KillTerminate
    <3> DEFINE k == [pc |-> "release", todo |-> killing[o].todo \ {w}, cur |-> w]
    <3>2. k \in Kills /\ KillNext(k)
      BY Zenon, <1>4, <3>1 DEF Kills
    <3> QED
      BY Zenon, <1>6, <2>3, <3>1, <3>2 DEF KillTerminate, sweepVars
  <2>4. CASE KillRelease(o)
    <3> DEFINE k == [pc |-> "walking", todo |-> killing[o].todo, cur |-> NoWorkspace]
    <3>1. k \in Kills /\ KillNext(k)
      BY Zenon, <1>4 DEF Kills
    <3> QED
      BY Zenon, <1>6, <2>4, <3>1 DEF KillRelease, sweepVars
  <2>5. CASE KillEnd(o)
    <3>1. NoKill \in Kills /\ KillNext(NoKill)
      BY Zenon DEF NoKill, Kills
    <3> QED
      BY Zenon, <1>6, <2>5, <3>1 DEF KillEnd, sweepVars
  <2> QED
    BY Zenon, <1>11, <2>1, <2>2, <2>3, <2>4, <2>5 DEF KillStep
<1> QED
  BY Zenon, <1>7, <1>10, <1>11
     DEF GovernorNext, Admit, RouteTerminate, RouteRelease, PlanChanges, Pass, sweepVars

-----------------------------------------------------------------------------
(* Without a fault every sweep works under its lease: until another frees  *)
(* the slot, the row it claimed carries its token with time left.          *)
LeaseInv ==
  /\ faults \in Nat
  /\ faults = 0 =>
       /\ \A r \in Replicas : proc[r] = "up"
       /\ \A r \in Replicas : (sweep[r].pc # "idle" /\ sweep[r].ws \in active) =>
            /\ ~sweep[r].lost
            /\ lease[sweep[r].ws] = sweep[r].token
            /\ leaseLeft[sweep[r].ws] > 0
  /\ LeaseExcludes

(* A step counts a fault or none; without one a process changes its state  *)
(* only to end a stop or to start again.                                   *)
LEMMA FaultStep ==
  ASSUME GovernorNext
  PROVE  \/ Fault
         \/ UNCHANGED faults /\ (UNCHANGED proc \/ \E r \in Replicas : proc[r] # "up")
<1>1. ASSUME NEW r \in Replicas, SweepStep(r)
      PROVE  Fault \/ (UNCHANGED faults /\ (UNCHANGED proc \/ proc[r] # "up"))
  BY Zenon, <1>1
     DEF SweepStep, SweepClaim, SweepBegin, SweepAbandon, SweepTerminate, SweepTerminateFails,
         RenewTimer, RenewTimerFails, SweepRenew, SweepComplete, SweepDatabaseFails, SweepCatch,
         Stop, Exit, Crash, Restart
<1>2. ASSUME NEW o \in Orgs, KillStep(o) PROVE Fault \/ UNCHANGED <<faults, proc>>
  BY Zenon, <1>2 DEF KillStep, KillAudit, KillList, KillTerminate, KillRelease, KillEnd, sweepVars
<1> QED
  BY Zenon, <1>1, <1>2
     DEF GovernorNext, Admit, RouteTerminate, RouteRelease, PlanChanges, Pass, sweepVars

(* Without a fault no step of another takes the lease from under a sweep,  *)
(* and no sweep claims the row of another.                                 *)
LEMMA LeaseKept ==
  ASSUME GovernorInv, LeaseInv, GovernorNext
  PROVE  LeaseInv'
<1>1. faults' \in Nat /\ (faults' = 0 => faults = 0 /\ ~Fault)
  <2>1. faults \in Nat /\ (faults' = faults \/ faults' = faults + 1)
    BY Zenon, FaultStep DEF LeaseInv, Fault
  <2>2. Fault => faults' = faults + 1
    BY Zenon DEF Fault
  <2> QED
    BY <2>1, <2>2
<1> SUFFICES ASSUME faults' = 0
             PROVE  /\ \A r \in Replicas : proc'[r] = "up"
                    /\ \A r \in Replicas : (sweep'[r].pc # "idle" /\ sweep'[r].ws \in active') =>
                         /\ ~sweep'[r].lost
                         /\ lease'[sweep'[r].ws] = sweep'[r].token
                         /\ leaseLeft'[sweep'[r].ws] > 0
                    /\ LeaseExcludes'
  BY Zenon, <1>1 DEF LeaseInv, LeaseExcludes
<1>2. /\ faults = 0 /\ ~Fault /\ UNCHANGED proc /\ \A r \in Replicas : proc[r] = "up"
      /\ LeaseLen > 0
  BY <1>1, FaultStep, CapacityAssumption DEF LeaseInv
<1> DEFINE Held(s) == (s.pc # "idle" /\ s.ws \in active) =>
                        ~s.lost /\ lease[s.ws] = s.token /\ leaseLeft[s.ws] > 0
           HeldNext(s) == (s.pc # "idle" /\ s.ws \in active') =>
                        ~s.lost /\ lease'[s.ws] = s.token /\ leaseLeft'[s.ws] > 0
           Apart(f) == \A r, s \in Replicas :
                         (r # s /\ f[r].pc # "idle" /\ f[s].pc # "idle") => f[r].ws # f[s].ws
           KeepsAt(w) == w \in active' => /\ w \in active /\ lease'[w] = lease[w]
                                          /\ leaseLeft[w] > 0 => leaseLeft'[w] > 0
<1>3. SUFFICES (\A r \in Replicas : HeldNext(sweep'[r])) /\ Apart(sweep')
  BY Zenon, <1>2 DEF LeaseExcludes
<1>4. /\ CapacityTypeOK /\ RowShape /\ WorkInv
      /\ \A r \in Replicas : sweep[r] \in Sweeps /\ Held(sweep[r])
      /\ Apart(sweep)
  BY Zenon, <1>2 DEF GovernorInv, CapacityInv, WorkInv, LeaseInv, LeaseExcludes
<1>5. \A r \in Replicas : sweep[r].pc # "idle" =>
        sweep[r].ws \in Workspaces /\ sweep[r].token \in Tokens /\ decision[sweep[r].ws] # "none"
  BY Zenon, <1>4 DEF WorkInv
<1> HIDE DEF Apart
<1>6. ASSUME UNCHANGED sweep, \A w \in Workspaces : decision[w] # "none" => KeepsAt(w)
      PROVE  (\A r \in Replicas : HeldNext(sweep'[r])) /\ Apart(sweep')
  BY Zenon, <1>4, <1>5, <1>6
<1>7. ASSUME NEW r \in Replicas, NEW s \in Sweeps, sweep' = [sweep EXCEPT ![r] = s], HeldNext(s),
             sweep[r].pc # "idle", s.pc # "idle" => s.ws = sweep[r].ws,
             \A w \in Workspaces : w # sweep[r].ws => KeepsAt(w)
      PROVE  (\A q \in Replicas : HeldNext(sweep'[q])) /\ Apart(sweep')
  <2>1. sweep'[r] = s /\ \A q \in Replicas \ {r} : sweep'[q] = sweep[q]
    BY Zenon, <1>4, <1>7 DEF WorkInv
  <2>2. Apart(sweep')
    BY <1>4, <1>7, <2>1 DEF Apart
  <2>3. ASSUME NEW q \in Replicas \ {r} PROVE HeldNext(sweep[q])
    <3>1. sweep[q].pc # "idle" => sweep[q].ws # sweep[r].ws
      BY Zenon, <1>4, <1>7, <2>3 DEF Apart
    <3> QED
      BY Zenon, <1>4, <1>5, <1>7, <3>1
  <2> QED
    BY <1>7, <2>1, <2>2, <2>3
<1>8. ASSUME NEW c \in Callers, Admit(c)
      PROVE  UNCHANGED sweep /\ \A w \in Workspaces : decision[w] # "none" => KeepsAt(w)
  <2>1. UNCHANGED sweep /\ ClaimStep(c)
    BY Zenon, <1>8 DEF Admit, sweepVars
  <2>2. UNCHANGED leaseVars
    BY Zenon, <2>1 DEF ClaimStep, AdmitReadLimits, ClaimLock, ClaimExisting, ClaimCountGlobal,
         ClaimCountOrganization, ClaimInsertQueued, ClaimInsertAdmitted, ClaimInsertConflict,
         ClaimAbort
  <2>3. active' = active \/ (active' = active \cup {tx[c].ws} /\ decision[tx[c].ws] = "none")
    BY Zenon, <2>1 DEF ClaimStep, AdmitReadLimits, ClaimLock, ClaimExisting, ClaimCountGlobal,
         ClaimCountOrganization, ClaimInsertQueued, ClaimInsertAdmitted, ClaimInsertConflict,
         ClaimAbort
  <2> QED
    BY Zenon, <2>1, <2>2, <2>3 DEF leaseVars
<1>9. ASSUME NEW w \in Workspaces, Deactivate(w) PROVE \A v \in Workspaces : KeepsAt(v)
  BY Zenon, <1>4, <1>9 DEF Deactivate, CapacityTypeOK
<1>10. ASSUME UNCHANGED capacityVars PROVE \A v \in Workspaces : KeepsAt(v)
  BY Zenon, <1>10 DEF capacityVars, leaseVars
<1>11. ASSUME NEW r \in Replicas, NEW pc \in {"acting", "acted", "failed"}, Goto(r, pc),
              sweep[r].pc # "idle", UNCHANGED capacityVars
       PROVE  (\A q \in Replicas : HeldNext(sweep'[q])) /\ Apart(sweep')
  <2>1. [sweep[r] EXCEPT !.pc = pc] \in Sweeps /\ [sweep[r] EXCEPT !.pc = pc].ws = sweep[r].ws
    BY Zenon, <1>4, <1>11 DEF Sweeps
  <2>2. HeldNext([sweep[r] EXCEPT !.pc = pc])
    BY Zenon, <1>4, <1>11 DEF Sweeps, capacityVars, leaseVars
  <2> QED
    BY Zenon, <1>7, <1>10, <1>11, <2>1, <2>2 DEF Goto
<1>12. ASSUME NEW r \in Replicas, NEW pc \in {sweep[r].pc, "failed"}, sweep[r].pc # "idle",
              sweep[r].lost \/ ~HoldsFence(sweep[r].ws, sweep[r].token),
              sweep' = [sweep EXCEPT ![r] = [sweep[r] EXCEPT !.pc = pc, !.lost = TRUE]],
              UNCHANGED capacityVars
       PROVE  (\A q \in Replicas : HeldNext(sweep'[q])) /\ Apart(sweep')
  <2> DEFINE s == [sweep[r] EXCEPT !.pc = pc, !.lost = TRUE]
  <2>1. s \in Sweeps /\ s.ws = sweep[r].ws
    BY Zenon, <1>4, <1>12 DEF Sweeps
  <2>2. sweep[r].ws \notin active'
    BY Zenon, <1>4, <1>12 DEF HoldsFence, capacityVars
  <2>3. HeldNext(s)
    BY Zenon, <2>1, <2>2
  <2> HIDE DEF s
  <2> QED
    BY Zenon, <1>7, <1>10, <1>12, <2>1, <2>3 DEF s
<1>13. ASSUME NEW r \in Replicas, sweep[r].pc # "idle", Set(r, NoSweep),
              \A v \in Workspaces : v # sweep[r].ws => KeepsAt(v)
       PROVE  (\A q \in Replicas : HeldNext(sweep'[q])) /\ Apart(sweep')
  <2>1. NoSweep \in Sweeps /\ NoSweep.pc = "idle"
    BY Zenon DEF NoSweep, Sweeps
  <2> QED
    BY Zenon, <1>7, <1>13, <2>1 DEF Set
<1>14. ASSUME NEW r \in Replicas, SweepClaim(r)
       PROVE  (\A q \in Replicas : HeldNext(sweep'[q])) /\ Apart(sweep')
  <2> DEFINE w == NextExpired
             t == CHOOSE t \in FreshTokens : TRUE
             s == [pc |-> "claimed", ws |-> w, token |-> t, lost |-> FALSE]
  <2>1. ClaimExpired(w, t) /\ sweep' = [sweep EXCEPT ![r] = s]
    BY Zenon, <1>14 DEF SweepClaim, Set
  <2> HIDE DEF w, t
  <2>2. w \in active /\ w \in Workspaces /\ ~(leaseLeft[w] > 0)
    BY <1>4, <2>1 DEF ClaimExpired, Claimable, CapacityTypeOK
  <2>3. \A q \in Replicas : sweep[q].pc # "idle" => sweep[q].ws # w
    BY Zenon, <1>4, <2>2
  <2>4. sweep'[r] = s /\ \A q \in Replicas \ {r} : sweep'[q] = sweep[q]
    BY Zenon, <1>4, <2>1 DEF WorkInv
  <2>5. \A v \in Workspaces : v # w => KeepsAt(v)
    BY Zenon, <1>4, <2>1 DEF ClaimExpired, CapacityTypeOK
  <2>6. HeldNext(s)
    BY Zenon, <1>2, <1>4, <2>1, <2>2 DEF ClaimExpired, CapacityTypeOK
  <2>7. Apart(sweep')
    BY <1>4, <2>3, <2>4 DEF Apart
  <2>8. ASSUME NEW q \in Replicas \ {r} PROVE HeldNext(sweep[q])
    BY Zenon, <1>4, <1>5, <2>3, <2>5
  <2> QED
    BY Zenon, <2>4, <2>6, <2>7, <2>8
<1>15. ASSUME NEW r \in Replicas, sweep[r].pc # "idle", RenewExpired(sweep[r].ws, sweep[r].token)
       PROVE  \A v \in Workspaces : KeepsAt(v)
  BY Zenon, <1>2, <1>4, <1>15 DEF RenewExpired, CapacityTypeOK
<1>16. ASSUME NEW r \in Replicas, SweepStep(r)
       PROVE  (\A q \in Replicas : HeldNext(sweep'[q])) /\ Apart(sweep')
  <2>1. CASE SweepBegin(r)
    BY Zenon, <1>11, <2>1 DEF SweepBegin
  <2>2. CASE SweepTerminate(r)
    BY Zenon, <1>11, <2>2 DEF SweepTerminate
  <2>3. CASE SweepTerminateFails(r)
    BY Zenon, <1>11, <2>3 DEF SweepTerminateFails
  <2>4. CASE RenewTimer(r)
    <3>1. CASE HoldsFence(sweep[r].ws, sweep[r].token)
      BY Zenon, <1>6, <1>15, <2>4, <3>1 DEF RenewTimer
    <3>2. CASE ~HoldsFence(sweep[r].ws, sweep[r].token)
      <4>1. sweep' = [sweep EXCEPT ![r] = [sweep[r] EXCEPT !.pc = sweep[r].pc, !.lost = TRUE]]
        BY Zenon, <1>4, <2>4, <3>2 DEF RenewTimer, Sweeps
      <4> QED
        BY Zenon, <1>12, <2>4, <3>2, <4>1 DEF RenewTimer
    <3> QED
      BY Zenon, <3>1, <3>2
  <2>5. CASE SweepRenew(r)
    <3>1. CASE ~sweep[r].lost /\ HoldsFence(sweep[r].ws, sweep[r].token)
      <4>1. RenewExpired(sweep[r].ws, sweep[r].token) /\ Goto(r, "renewed") /\ sweep[r].pc # "idle"
        BY Zenon, <2>5, <3>1 DEF SweepRenew
      <4>2. \A v \in Workspaces : KeepsAt(v)
        BY Zenon, <1>15, <4>1
      <4>3. [sweep[r] EXCEPT !.pc = "renewed"] \in Sweeps
            /\ [sweep[r] EXCEPT !.pc = "renewed"].ws = sweep[r].ws
        BY Zenon, <1>4 DEF Sweeps
      <4>4. HeldNext([sweep[r] EXCEPT !.pc = "renewed"])
        BY <1>4, <1>5, <4>1, <4>2 DEF Sweeps
      <4> QED
        BY Zenon, <1>7, <4>1, <4>2, <4>3, <4>4 DEF Goto
    <3>2. CASE ~(~sweep[r].lost /\ HoldsFence(sweep[r].ws, sweep[r].token))
      BY Zenon, <1>12, <2>5, <3>2 DEF SweepRenew, Set
    <3> QED
      BY Zenon, <3>1, <3>2
  <2>6. CASE SweepComplete(r)
    <3>1. CASE HoldsFence(sweep[r].ws, sweep[r].token)
      <4>1. Deactivate(sweep[r].ws) /\ Set(r, NoSweep) /\ sweep[r].pc # "idle"
        BY Zenon, <2>6, <3>1 DEF SweepComplete, CompleteExpired
      <4> QED
        BY Zenon, <1>5, <1>9, <1>13, <4>1
    <3>2. CASE ~HoldsFence(sweep[r].ws, sweep[r].token)
      BY Zenon, <1>11, <2>6, <3>2 DEF SweepComplete
    <3> QED
      BY Zenon, <3>1, <3>2
  <2>7. CASE SweepCatch(r)
    <3>1. Set(r, NoSweep) /\ sweep[r].pc # "idle"
      BY Zenon, <2>7 DEF SweepCatch, GiveBackLease
    <3>2. ReleaseExpired(sweep[r].ws, sweep[r].token) \/ UNCHANGED capacityVars
      BY Zenon, <2>7 DEF SweepCatch, GiveBackLease
    <3>3. \A v \in Workspaces : v # sweep[r].ws => KeepsAt(v)
      BY Zenon, <1>4, <1>10, <3>2 DEF ReleaseExpired, CapacityTypeOK
    <3> QED
      BY Zenon, <1>13, <3>1, <3>3
  <2>8. ~(SweepAbandon(r) \/ Stop(r) \/ Exit(r) \/ Crash(r) \/ Restart(r)
          \/ RenewTimerFails(r) \/ SweepDatabaseFails(r))
    BY Zenon, <1>2 DEF SweepAbandon, Stop, Exit, Crash, Restart, RenewTimerFails, SweepDatabaseFails
  <2> QED
    BY Zenon, <1>14, <1>16, <2>1, <2>2, <2>3, <2>4, <2>5, <2>6, <2>7, <2>8 DEF SweepStep
<1>17. ASSUME NEW w \in Workspaces, Release(w) PROVE \A v \in Workspaces : KeepsAt(v)
  BY Zenon, <1>9, <1>17 DEF Release, leaseVars
<1>18. ASSUME NEW o \in Orgs, KillStep(o)
       PROVE  UNCHANGED sweep /\ \A v \in Workspaces : KeepsAt(v)
  <2>1. CASE KillRelease(o)
    BY Zenon, <1>4, <1>17, <2>1 DEF KillRelease, WorkInv, sweepVars
  <2> QED
    BY Zenon, <1>10, <1>18, <2>1 DEF KillStep, KillAudit, KillList, KillTerminate, KillEnd, sweepVars
<1>19. ASSUME NEW w \in Workspaces, RouteTerminate(w) \/ RouteRelease(w)
       PROVE  UNCHANGED sweep /\ \A v \in Workspaces : KeepsAt(v)
  BY Zenon, <1>10, <1>17, <1>19 DEF RouteTerminate, RouteRelease, sweepVars
<1>20. CASE PlanChanges
  <2>1. UNCHANGED sweep /\ \A v \in Workspaces : KeepsAt(v)
    BY Zenon, <1>20 DEF PlanChanges, ChangePlan, sweepVars, leaseVars
  <2> QED
    BY Zenon, <1>6, <2>1
<1>21. CASE Pass
  <2>1. UNCHANGED <<sweep, active, lease>> /\ ~RenewalDue
    BY Zenon, <1>2, <1>21 DEF Pass, Tick
  <2>2. ASSUME NEW r \in Replicas, sweep[r].pc # "idle", sweep[r].ws \in active
        PROVE  leaseLeft'[sweep[r].ws] > 0
    <3>1. leaseLeft[sweep[r].ws] \in Nat /\ leaseLeft[sweep[r].ws] > 0
      BY Zenon, <1>4, <1>5, <2>2 DEF CapacityTypeOK
    <3>2. leaseLeft[sweep[r].ws] # 1
      BY Zenon, <1>2, <1>4, <2>1, <2>2 DEF RenewalDue, HoldsFence
    <3>3. leaseLeft'[sweep[r].ws] = Down(leaseLeft[sweep[r].ws])
      BY Zenon, <1>5, <1>21, <2>2 DEF Pass, Tick
    <3> QED
      BY <3>1, <3>2, <3>3 DEF Down
  <2> QED
    BY Zenon, <1>4, <2>1, <2>2
<1> QED
  BY Zenon, <1>6, <1>8, <1>16, <1>18, <1>19, <1>20, <1>21 DEF GovernorNext

-----------------------------------------------------------------------------
(* The inductive invariant of the governor over the repository.            *)
THEOREM GovernorInvariant == GovernorSpec => []GovernorInv
<1>1. GovernorInit => GovernorInv
  BY Zenon, GovernorInitInv
<1>2. GovernorInv /\ [GovernorNext]_governorVars => GovernorInv'
  <2>1. ASSUME GovernorInv, GovernorNext PROVE GovernorInv'
    <3>1. CapacityNext \/ UNCHANGED capacityVars
      BY Zenon, <2>1, GovernorStepOnTable DEF GovernorInv, CapacityInv
    <3>2. CapacityInv'
      BY Zenon, <2>1, <3>1, CapacityInvStep DEF GovernorInv
    <3> QED
      BY Zenon, <2>1, <3>1, <3>2, SlotStep, WorkStep DEF GovernorInv
  <2>2. ASSUME GovernorInv, UNCHANGED governorVars PROVE GovernorInv'
    <3>1. CapacityInv'
      BY Zenon, <2>2, CapacityInvStep DEF GovernorInv, governorVars
    <3>2. SlotCoversSandbox' /\ WorkInv'
      BY Zenon, <2>2 DEF GovernorInv, SlotCoversSandbox, WorkInv, governorVars, capacityVars, rowVars,
           sweepVars
    <3> QED
      BY Zenon, <3>1, <3>2 DEF GovernorInv
  <2> QED
    BY Zenon, <2>1, <2>2
<1> QED
  BY <1>1, <1>2, PTL DEF GovernorSpec

(* The composed governor implements the open repository: everything proved *)
(* about the repository holds of the running service.                      *)
THEOREM GovernorImplementsCapacity == GovernorSpec => CapacitySpec
<1>1. GovernorInit => CapacityInit
  BY Zenon DEF GovernorInit
<1>2. GovernorInv /\ [GovernorNext]_governorVars => [CapacityNext]_capacityVars
  BY Zenon, GovernorStepOnTable DEF GovernorInv, CapacityInv, governorVars
<1> QED
  BY <1>1, <1>2, GovernorInvariant, PTL DEF GovernorSpec, CapacitySpec

(* Every running sandbox holds a slot, whoever terminates and releases it, *)
(* and whatever fails in between.                                          *)
THEOREM SandboxesCovered == GovernorSpec => []SlotCoversSandbox
  BY GovernorInvariant, PTL DEF GovernorInv

(* While no process stalls, stops or crashes and no call fails, no two     *)
(* replicas work on one sandbox, for every number of replicas and every    *)
(* lease length.                                                           *)
THEOREM LeasesExclude == GovernorSpec => []LeaseExcludes
<1>1. GovernorInit => LeaseInv
  BY DEF GovernorInit, LeaseInv, LeaseExcludes, NoSweep
<1>2. GovernorInv /\ LeaseInv /\ [GovernorNext]_governorVars => LeaseInv'
  <2>1. ASSUME LeaseInv, UNCHANGED governorVars PROVE LeaseInv'
    BY Zenon, <2>1 DEF LeaseInv, LeaseExcludes, governorVars, sweepVars, capacityVars, leaseVars
  <2> QED
    BY Zenon, <2>1, LeaseKept
<1>3. LeaseInv => LeaseExcludes
  BY Zenon DEF LeaseInv
<1> QED
  BY <1>1, <1>2, <1>3, GovernorInvariant, PTL DEF GovernorSpec
=============================================================================
