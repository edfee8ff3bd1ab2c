------------------------- MODULE CostRecorderProofs -------------------------
(***************************************************************************)
(* For any replicas, prices of time, bounds on the clock and faults: the   *)
(* totals leave no gap and, applied in order, charge nothing twice; the    *)
(* ledger agrees with the finalized totals, and a workspace a route has    *)
(* terminated is charged.                                                  *)
(***************************************************************************)
EXTENDS CostRecorder, TLAPS

UsageTypes ==
    /\ phase \in {"absent", "open", "final"}
    /\ last \in Nat /\ lastCpu \in Nat /\ began \in Nat /\ firstCpu \in Nat
    /\ total \in [Categories -> Nat]
    /\ disorder \in BOOLEAN

SamplingTypes ==
    /\ job \in [Replicas -> {"none", "start", "interval", "last", "requested"}]
    /\ step \in [Replicas -> {"idle", "sample", "mutate", "deliver"}]
    /\ seen \in [Replicas -> [cpu : Nat, rss : Nat]]
    /\ at \in [Replicas -> Nat]

DeliveryTypes ==
    /\ delivery \in [Replicas -> {"no", "read", "append", "mark"}]
    /\ item \in [Replicas -> Categories]
    /\ rows \in [Replicas -> [Categories -> Nat]]
    /\ route \in [Replicas -> {"idle", "ensure", "drain", "finalize", "deliver", "end"}]
    /\ recording \in [Replicas -> {"none", "active", "stopped"}]

WorldTypes ==
    /\ clock \in Nat /\ used \in Nat
    /\ sandbox \in {"running", "gone"}
    /\ row \in {"ready", "ended", "killed"}
    /\ done \in SUBSET Categories
    /\ ledger \in [Categories -> Nat \cup {NoRow}]
    /\ faults \in Nat

Types == UsageTypes /\ SamplingTypes /\ DeliveryTypes /\ WorldTypes

\* What a replica has sampled is not ahead of the clock and the sandbox.
Metered ==
    \A r \in Replicas : at[r] <= clock /\ seen[r].cpu <= used /\ seen[r].rss <= Rss

LEMMA TypesAre == CostTypeOK <=> Types
  BY Zenon DEF CostTypeOK, Types, UsageTypes, SamplingTypes, DeliveryTypes, WorldTypes

-----------------------------------------------------------------------------
(* What the parts of the actions do to the types of the replicas.          *)

LEMMA EmptyTypes ==
    /\ Empty \in [cpu : Nat, rss : Nat] /\ Empty.cpu = 0 /\ Empty.rss = 0
    /\ Zero \in [Categories -> Nat]
    /\ "cpu" \in Categories /\ "mem" \in Categories
  BY Zenon DEF Empty, Zero, Categories

LEMMA JobOverTypes ==
    ASSUME SamplingTypes, WorldTypes, Metered, NEW r \in Replicas, JobOver(r), UNCHANGED <<clock, used>>
    PROVE  SamplingTypes' /\ Metered'
  <1>0. 0 <= clock /\ 0 <= used /\ 0 <= Rss
    BY CostAssumption DEF WorldTypes
  <1>1. SamplingTypes'
    BY Zenon, EmptyTypes DEF SamplingTypes, JobOver
  <1>2. \A p \in Replicas : \/ at'[p] = at[p] /\ seen'[p] = seen[p]
                            \/ at'[p] = 0 /\ seen'[p] = Empty
    BY Zenon DEF SamplingTypes, JobOver
  <1>3. Metered'
    BY Zenon, <1>0, <1>2, EmptyTypes DEF Metered
  <1>. QED  BY Zenon, <1>1, <1>3

LEMMA MeteredKept ==
    ASSUME Metered, SamplingTypes, WorldTypes, WorldTypes', UNCHANGED <<seen, at>>,
           clock <= clock', used <= used'
    PROVE  Metered'
  BY DEF Metered, SamplingTypes, WorldTypes

LEMMA DeliveryEndsTypes ==
    ASSUME SamplingTypes, WorldTypes, DeliveryTypes, Metered, NEW r \in Replicas, NEW ok \in BOOLEAN,
           DeliveryEnds(r, ok), UNCHANGED <<clock, used>>
    PROVE  SamplingTypes' /\ Metered' /\ DeliveryTypes'
  <1>1. DeliveryTypes'
    <2>1. delivery' \in [Replicas -> {"no", "read", "append", "mark"}]
      BY Zenon DEF DeliveryTypes, DeliveryEnds
    <2>2. item' \in [Replicas -> Categories] /\ rows' \in [Replicas -> [Categories -> Nat]]
      BY Zenon, EmptyTypes DEF DeliveryTypes, DeliveryEnds
    <2>3. route' \in [Replicas -> {"idle", "ensure", "drain", "finalize", "deliver", "end"}]
      BY Zenon DEF DeliveryTypes, DeliveryEnds
    <2>4. recording' \in [Replicas -> {"none", "active", "stopped"}]
      BY Zenon DEF DeliveryTypes, DeliveryEnds
    <2>. QED  BY Zenon, <2>1, <2>2, <2>3, <2>4 DEF DeliveryTypes
  <1>2. CASE JobOver(r)
    BY Zenon, <1>1, <1>2, JobOverTypes
  <1>3. CASE UNCHANGED sampling
    BY Zenon, <1>1, <1>3 DEF sampling, SamplingTypes, Metered
  <1>. QED  BY Zenon, <1>2, <1>3 DEF DeliveryEnds

LEMMA NextItemTypes ==
    ASSUME SamplingTypes, WorldTypes, DeliveryTypes, Metered, NEW r \in Replicas,
           NEW marked \in SUBSET Categories, NEW made \in [Categories -> Nat],
           NextItem(r, marked, made), UNCHANGED <<clock, used>>
    PROVE  SamplingTypes' /\ Metered' /\ DeliveryTypes'
  <1>1. CASE DeliveryEnds(r, TRUE)
    BY Zenon, <1>1, DeliveryEndsTypes
  <1>2. CASE /\ delivery' = [delivery EXCEPT ![r] = "append"]
             /\ item' = [item EXCEPT ![r] = IF "cpu" \in Remaining(marked) THEN "cpu" ELSE "mem"]
             /\ rows' = [rows EXCEPT ![r] = made]
             /\ UNCHANGED <<sampling, route, recording>>
    <2>1. DeliveryTypes'
      BY Zenon, <1>2, EmptyTypes DEF DeliveryTypes
    <2>2. SamplingTypes' /\ Metered'
      BY Zenon, <1>2 DEF sampling, SamplingTypes, Metered
    <2>. QED  BY Zenon, <2>1, <2>2
  <1>. QED  BY Zenon, <1>1, <1>2 DEF NextItem

LEMMA StartedTypes ==
    ASSUME DeliveryTypes, NEW r \in Replicas, Started(r)
    PROVE  /\ recording' \in [Replicas -> {"none", "active", "stopped"}]
           /\ route' \in [Replicas -> {"idle", "ensure", "drain", "finalize", "deliver", "end"}]
  BY Zenon DEF DeliveryTypes, Started

LEMMA DeliverTypes ==
    ASSUME DeliveryTypes, NEW r \in Replicas, Deliver(r)
    PROVE  /\ delivery' \in [Replicas -> {"no", "read", "append", "mark"}]
           /\ item' \in [Replicas -> Categories]
           /\ rows' \in [Replicas -> [Categories -> Nat]]
  BY Zenon DEF DeliveryTypes, Deliver

\* A job that begins takes no sample yet.
LEMMA JobBeginsTypes ==
    ASSUME SamplingTypes, Metered, NEW r \in Replicas, NEW kind \in {"start", "interval", "last"},
           NEW first \in {"sample", "deliver"}, JobBegins(r, kind, first), UNCHANGED <<clock, used>>
    PROVE  SamplingTypes' /\ Metered'
  BY Zenon DEF SamplingTypes, Metered, JobBegins

-----------------------------------------------------------------------------
(* The durable state.                                                      *)

\* What the totals contain, up to the last sample.
Charges ==
    phase # "absent" =>
        /\ began <= last /\ last <= clock /\ lastCpu <= used
        /\ total["cpu"] >= CpuRequested * (last - began)
        /\ total["mem"] >= MemRequested * (last - began)
        /\ total["cpu"] >= lastCpu - firstCpu
        /\ ~disorder =>
              /\ total["cpu"] <= CpuRequested * (last - began) + (lastCpu - firstCpu)
              /\ total["mem"] <= Greater(MemRequested, Rss) * (last - began)

LEMMA Products ==
    ASSUME NEW k \in Nat
    PROVE  /\ \A x, y \in Int : k * (x + y) = k * x + k * y
           /\ \A x, y \in Int : x <= y => k * x <= k * y
           /\ \A x \in Int : k * x \in Int
           /\ \A x \in Nat : k * x \in Nat
           /\ k * 0 = 0
  OBVIOUS

LEMMA Factors ==
    ASSUME NEW j \in Nat, NEW k \in Nat, NEW x \in Nat, j <= k
    PROVE  j * x <= k * x
  OBVIOUS

\* What has been charged, at k for a unit of time, from b up to l and then for a
\* sample taken at a, and what the time from b, or from a, up to a costs.
Charged(k, a, l, b) == k * Greater(0, a - l) + k * (l - b)
Due(k, a, b) == k * (a - Lesser(b, a))

\* A sample that is not older than the last one charges just its window.
LEMMA WindowsInOrder ==
    ASSUME NEW k \in Nat, NEW a \in Nat, NEW l \in Nat, NEW b \in Nat, b <= l, l <= a
    PROVE  Charged(k, a, l, b) = Due(k, a, b)
  <1>1. Greater(0, a - l) = a - l /\ Lesser(b, a) = b
    BY DEF Greater, Lesser
  <1>2. k * ((a - l) + (l - b)) = k * (a - l) + k * (l - b)
    BY Products
  <1>3. (a - l) + (l - b) = a - b
    OBVIOUS
  <1>. QED  BY Zenon, <1>1, <1>2, <1>3 DEF Charged, Due

\* No sample leaves a gap.
LEMMA Windows ==
    ASSUME NEW k \in Nat, NEW a \in Nat, NEW l \in Nat, NEW b \in Nat, b <= l
    PROVE  /\ Charged(k, a, l, b) \in Int /\ Due(k, a, b) \in Int
           /\ Charged(k, a, l, b) >= Due(k, a, b)
  <1>0. Greater(0, a - l) \in Nat /\ Lesser(b, a) \in Nat /\ Lesser(b, a) <= a
    BY DEF Greater, Lesser
  <1>1. Charged(k, a, l, b) \in Int /\ Due(k, a, b) \in Int
    BY <1>0, Products DEF Charged, Due
  <1>2. CASE l <= a
    BY <1>1, <1>2, WindowsInOrder
  <1>3. CASE a < l
    <2>1. Greater(0, a - l) = 0
      BY <1>3 DEF Greater
    <2>2. a - Lesser(b, a) <= l - b
      BY <1>3 DEF Lesser
    <2>3. k * (a - Lesser(b, a)) <= k * (l - b)
      BY <1>0, <2>2, Products
    <2>4. k * 0 = 0 /\ k * (l - b) \in Int /\ k * (a - Lesser(b, a)) \in Int
      BY <1>0, Products
    <2>. QED  BY <1>1, <2>1, <2>3, <2>4 DEF Charged, Due
  <1>. QED  BY <1>1, <1>2, <1>3

LEMMA AccumulateCharges ==
    ASSUME UsageTypes, Charges, NEW r \in Replicas, NEW finalize \in BOOLEAN, Accumulate(r, finalize),
           at[r] \in Nat, seen[r].cpu \in Nat, seen[r].rss \in Nat, clock \in Nat, used \in Nat,
           at[r] <= clock, seen[r].cpu <= used, seen[r].rss <= Rss, UNCHANGED <<clock, used>>
    PROVE  UsageTypes' /\ Charges'
  <1>. DEFINE a == at[r]  c == seen[r].cpu  m == seen[r].rss
              E == Greater(0, a - last)  B == Lesser(began, a)
              W == Greater(MemRequested, Rss)
              pc == Greater(CpuRequested * E, Greater(0, c - lastCpu))
              pm == Greater(MemRequested, m) * E
  <1>0. /\ phase = "open" /\ phase' \in {"open", "final"} /\ last' = a /\ lastCpu' = c
        /\ total' = [total EXCEPT !["cpu"] = @ + pc, !["mem"] = @ + pm]
        /\ disorder' = (disorder \/ a < last \/ c < lastCpu)
        /\ began' = B /\ firstCpu' = firstCpu
    <2>1. /\ phase = "open" /\ phase' = IF finalize THEN "final" ELSE "open"
          /\ last' = a /\ lastCpu' = c
          /\ disorder' = (disorder \/ a < last \/ c < lastCpu)
          /\ began' = B /\ firstCpu' = firstCpu
      BY Zenon DEF Accumulate
    <2>2. total' = [total EXCEPT !["cpu"] = @ + pc, !["mem"] = @ + pm]
      BY Zenon DEF Accumulate, Elapsed
    <2>. QED  BY Zenon, <2>1, <2>2
  <1>1. /\ last \in Nat /\ lastCpu \in Nat /\ began \in Nat /\ firstCpu \in Nat
        /\ total \in [Categories -> Nat] /\ disorder \in BOOLEAN
        /\ a \in Nat /\ c \in Nat /\ m \in Nat /\ m <= Rss
        /\ CpuRequested \in Nat /\ MemRequested \in Nat /\ Rss \in Nat
    BY Zenon, CostAssumption DEF UsageTypes
  <1>2. /\ began <= last /\ last <= clock /\ lastCpu <= used
        /\ total["cpu"] >= CpuRequested * (last - began)
        /\ total["mem"] >= MemRequested * (last - began)
        /\ total["cpu"] >= lastCpu - firstCpu
        /\ ~disorder => /\ total["cpu"] <= CpuRequested * (last - began) + (lastCpu - firstCpu)
                        /\ total["mem"] <= W * (last - began)
    BY Zenon, <1>0 DEF Charges
  <1>3. W \in Nat /\ MemRequested <= Greater(MemRequested, m) /\ Greater(MemRequested, m) <= W
        /\ Greater(MemRequested, m) \in Nat
    BY <1>1 DEF Greater
  <1>4. E \in Nat /\ B \in Nat /\ B <= a
    BY <1>1 DEF Greater, Lesser
  <1>5. /\ Charged(CpuRequested, a, last, began) >= Due(CpuRequested, a, began)
        /\ Charged(MemRequested, a, last, began) >= Due(MemRequested, a, began)
    BY Zenon, <1>1, <1>2, Windows
  <1>6. last <= a => /\ Charged(CpuRequested, a, last, began) = Due(CpuRequested, a, began)
                     /\ Charged(W, a, last, began) = Due(W, a, began)
    <2>1. /\ CpuRequested \in Nat /\ W \in Nat /\ a \in Nat /\ last \in Nat /\ began \in Nat
          /\ began <= last
      BY Zenon, <1>1, <1>2, <1>3
    <2>. HIDE DEF a, W
    <2>2. last <= a => Charged(CpuRequested, a, last, began) = Due(CpuRequested, a, began)
      BY <2>1, WindowsInOrder
    <2>3. last <= a => Charged(W, a, last, began) = Due(W, a, began)
      BY <2>1, WindowsInOrder
    <2>. QED  BY Zenon, <2>2, <2>3
  <1>7. MemRequested * E <= pm /\ pm <= W * E /\ pm \in Nat
    BY Zenon, <1>1, <1>3, <1>4, Factors, Products
  <1>8. /\ CpuRequested * E \in Nat /\ MemRequested * E \in Nat /\ W * E \in Nat
        /\ CpuRequested * (last - began) \in Int /\ MemRequested * (last - began) \in Int
        /\ W * (last - began) \in Int
        /\ CpuRequested * (a - B) \in Int /\ MemRequested * (a - B) \in Int /\ W * (a - B) \in Int
    BY <1>1, <1>3, <1>4, Products
  <1>9. /\ pc \in Nat /\ CpuRequested * E <= pc /\ c - lastCpu <= pc
        /\ c >= lastCpu => pc <= CpuRequested * E + (c - lastCpu)
    BY <1>1, <1>8 DEF Greater
  <1>10. total["cpu"] \in Nat /\ total["mem"] \in Nat
    BY Zenon, <1>1, EmptyTypes
  <1>11. /\ total' \in [Categories -> Nat]
         /\ total'["cpu"] = total["cpu"] + pc /\ total'["mem"] = total["mem"] + pm
    <2>. HIDE DEF pc, pm
    <2>. QED  BY <1>0, <1>1, <1>7, <1>9, <1>10 DEF Categories
  <1>12. UsageTypes'
    BY Zenon, <1>0, <1>1, <1>4, <1>11 DEF UsageTypes
  <1>13. /\ total'["cpu"] >= CpuRequested * (a - B)
         /\ total'["mem"] >= MemRequested * (a - B)
         /\ total'["cpu"] >= c - firstCpu
    <2>1. /\ CpuRequested * E + CpuRequested * (last - began) >= CpuRequested * (a - B)
          /\ MemRequested * E + MemRequested * (last - began) >= MemRequested * (a - B)
      BY Zenon, <1>5 DEF Charged, Due
    <2>. HIDE DEF pc, pm, a, c, m, E, B, W
    <2>. QED  BY <1>1, <1>2, <1>7, <1>8, <1>9, <1>10, <1>11, <2>1
  <1>14. ASSUME ~disorder, last <= a, lastCpu <= c
         PROVE  /\ total'["cpu"] <= CpuRequested * (a - B) + (c - firstCpu)
                /\ total'["mem"] <= W * (a - B)
    <2>1. /\ CpuRequested * E + CpuRequested * (last - began) = CpuRequested * (a - B)
          /\ W * E + W * (last - began) = W * (a - B)
      BY Zenon, <1>6, <1>14 DEF Charged, Due
    <2>. HIDE DEF pc, pm, a, c, m, E, B, W
    <2>. QED  BY <1>1, <1>2, <1>7, <1>8, <1>9, <1>10, <1>11, <1>14, <2>1
  <1>15. Charges'
    <2>1. ~disorder' => ~disorder /\ ~(a < last) /\ ~(c < lastCpu)
      BY <1>0, Zenon
    <2>2. (~(a < last) => last <= a) /\ (~(c < lastCpu) => lastCpu <= c)
      BY <1>1
    <2>. QED  BY Zenon, <1>0, <1>4, <1>13, <1>14, <2>1, <2>2 DEF Charges
  <1>. QED  BY Zenon, <1>12, <1>15

LEMMA RequestedCharges ==
    ASSUME UsageTypes, Charges, NEW r \in Replicas, finalizeWithRequestedUsage(r), phase = "open",
           at[r] \in Nat, clock \in Nat, used \in Nat, at[r] <= clock, UNCHANGED <<clock, used>>
    PROVE  UsageTypes' /\ Charges'
  <1>. DEFINE a == at[r]
              E == Greater(0, a - last)  B == Lesser(began, a)
              W == Greater(MemRequested, Rss)
              pc == CpuRequested * E
              pm == MemRequested * E
  <1>0. /\ phase' = "final" /\ last' = a /\ lastCpu' = lastCpu
        /\ disorder' = (disorder \/ a < last)
        /\ began' = B /\ firstCpu' = firstCpu
        /\ total' = [total EXCEPT !["cpu"] = @ + pc, !["mem"] = @ + pm]
    <2>1. /\ phase' = "final" /\ last' = a /\ lastCpu' = lastCpu
          /\ disorder' = (disorder \/ a < last)
          /\ began' = B /\ firstCpu' = firstCpu
      BY Zenon DEF finalizeWithRequestedUsage
    <2>2. phase # "final"
      BY Zenon
    <2>3. total' = [total EXCEPT !["cpu"] = @ + pc, !["mem"] = @ + pm]
      BY <2>2, Zenon DEF finalizeWithRequestedUsage, Elapsed
    <2>. QED  BY Zenon, <2>1, <2>3
  <1>1. /\ last \in Nat /\ lastCpu \in Nat /\ began \in Nat /\ firstCpu \in Nat
        /\ total \in [Categories -> Nat] /\ disorder \in BOOLEAN /\ a \in Nat
        /\ CpuRequested \in Nat /\ MemRequested \in Nat /\ Rss \in Nat
    BY Zenon, CostAssumption DEF UsageTypes
  <1>2. /\ began <= last /\ last <= clock /\ lastCpu <= used
        /\ total["cpu"] >= CpuRequested * (last - began)
        /\ total["mem"] >= MemRequested * (last - began)
        /\ total["cpu"] >= lastCpu - firstCpu
        /\ ~disorder => /\ total["cpu"] <= CpuRequested * (last - began) + (lastCpu - firstCpu)
                        /\ total["mem"] <= W * (last - began)
    BY Zenon DEF Charges
  <1>3. W \in Nat /\ MemRequested <= W
    BY <1>1 DEF Greater
  <1>4. E \in Nat /\ B \in Nat /\ B <= a
    BY <1>1 DEF Greater, Lesser
  <1>5. /\ Charged(CpuRequested, a, last, began) >= Due(CpuRequested, a, began)
        /\ Charged(MemRequested, a, last, began) >= Due(MemRequested, a, began)
    BY Zenon, <1>1, <1>2, Windows
  <1>6. last <= a => /\ Charged(CpuRequested, a, last, began) = Due(CpuRequested, a, began)
                     /\ Charged(W, a, last, began) = Due(W, a, began)
    <2>1. /\ CpuRequested \in Nat /\ W \in Nat /\ a \in Nat /\ last \in Nat /\ began \in Nat
          /\ began <= last
      BY Zenon, <1>1, <1>2, <1>3
    <2>. HIDE DEF a, W
    <2>2. last <= a => Charged(CpuRequested, a, last, began) = Due(CpuRequested, a, began)
      BY <2>1, WindowsInOrder
    <2>3. last <= a => Charged(W, a, last, began) = Due(W, a, began)
      BY <2>1, WindowsInOrder
    <2>. QED  BY Zenon, <2>2, <2>3
  <1>7. pc \in Nat /\ pm \in Nat /\ pm <= W * E
    BY Zenon, <1>1, <1>3, <1>4, Factors, Products
  <1>8. /\ W * E \in Nat
        /\ CpuRequested * (last - began) \in Int /\ MemRequested * (last - began) \in Int
        /\ W * (last - began) \in Int
        /\ CpuRequested * (a - B) \in Int /\ MemRequested * (a - B) \in Int /\ W * (a - B) \in Int
    BY <1>1, <1>3, <1>4, Products
  <1>10. total["cpu"] \in Nat /\ total["mem"] \in Nat
    BY Zenon, <1>1, EmptyTypes
  <1>11. /\ total' \in [Categories -> Nat]
         /\ total'["cpu"] = total["cpu"] + pc /\ total'["mem"] = total["mem"] + pm
    <2>. HIDE DEF pc, pm
    <2>. QED  BY <1>0, <1>1, <1>7, <1>10 DEF Categories
  <1>12. UsageTypes'
    BY Zenon, <1>0, <1>1, <1>4, <1>11 DEF UsageTypes
  <1>13. /\ total'["cpu"] >= CpuRequested * (a - B)
         /\ total'["mem"] >= MemRequested * (a - B)
         /\ total'["cpu"] >= lastCpu - firstCpu
    <2>1. /\ pc + CpuRequested * (last - began) >= CpuRequested * (a - B)
          /\ pm + MemRequested * (last - began) >= MemRequested * (a - B)
      BY Zenon, <1>5 DEF Charged, Due
    <2>. HIDE DEF pc, pm, a, E, B, W
    <2>. QED  BY <1>1, <1>2, <1>7, <1>8, <1>10, <1>11, <2>1
  <1>14. ASSUME ~disorder, last <= a
         PROVE  /\ total'["cpu"] <= CpuRequested * (a - B) + (lastCpu - firstCpu)
                /\ total'["mem"] <= W * (a - B)
    <2>1. /\ pc + CpuRequested * (last - began) = CpuRequested * (a - B)
          /\ W * E + W * (last - began) = W * (a - B)
      BY Zenon, <1>6, <1>14 DEF Charged, Due
    <2>. HIDE DEF pc, pm, a, E, B, W
    <2>. QED  BY <1>1, <1>2, <1>7, <1>8, <1>10, <1>11, <1>14, <2>1
  <1>15. Charges'
    <2>1. ~disorder' => ~disorder /\ ~(a < last)
      BY <1>0, Zenon
    <2>2. ~(a < last) => last <= a
      BY <1>1
    <2>. QED  BY Zenon, <1>0, <1>2, <1>4, <1>13, <1>14, <2>1, <2>2 DEF Charges
  <1>. QED  BY Zenon, <1>12, <1>15

LEMMA CreateCharges ==
    ASSUME UsageTypes, NEW r \in Replicas, NEW finalize \in BOOLEAN, Create(r, finalize),
           at[r] \in Nat, seen[r].cpu \in Nat, clock \in Nat, used \in Nat,
           at[r] <= clock, seen[r].cpu <= used, UNCHANGED <<clock, used>>
    PROVE  UsageTypes' /\ Charges'
  <1>1. /\ phase' \in {"open", "final"} /\ last' = at[r] /\ lastCpu' = seen[r].cpu
        /\ total' = Zero /\ began' = at[r] /\ firstCpu' = seen[r].cpu /\ disorder' = disorder
    BY Zenon DEF Create
  <1>2. UsageTypes'
    BY Zenon, <1>1, EmptyTypes DEF UsageTypes
  <1>3. total'["cpu"] = 0 /\ total'["mem"] = 0
    BY Zenon, <1>1 DEF Zero, Categories
  <1>4. last' - began' = 0 /\ lastCpu' - firstCpu' = 0
    BY <1>1
  <1>5. CpuRequested * 0 = 0 /\ MemRequested * 0 = 0 /\ Greater(MemRequested, Rss) * 0 = 0
    <2>1. Greater(MemRequested, Rss) \in Nat
      BY Zenon, CostAssumption DEF Greater
    <2>. QED  BY Zenon, <2>1, CostAssumption, Products
  <1>6. Charges'
    BY <1>1, <1>3, <1>4, <1>5 DEF Charges
  <1>. QED  BY Zenon, <1>2, <1>6

\* A mutation keeps what the totals contain, and a finalized state as it is.
LEMMA MutateCharges ==
    ASSUME Types, Metered, Charges, NEW r \in Replicas, Mutate(r), UNCHANGED <<clock, used>>
    PROVE  /\ UsageTypes' /\ Charges'
           /\ phase = "final" => UNCHANGED usage
  <1>0. /\ UsageTypes /\ clock \in Nat /\ used \in Nat
        /\ at[r] \in Nat /\ seen[r] \in [cpu : Nat, rss : Nat]
        /\ at[r] <= clock /\ seen[r].cpu <= used /\ seen[r].rss <= Rss
    BY Zenon DEF Types, WorldTypes, SamplingTypes, Metered
  <1>1. seen[r].cpu \in Nat /\ seen[r].rss \in Nat
    BY Zenon, <1>0
  <1>2. ASSUME NEW finalize \in BOOLEAN, Create(r, finalize)
        PROVE  UsageTypes' /\ Charges' /\ phase # "final"
    BY Zenon, <1>0, <1>1, <1>2, CreateCharges DEF Create
  <1>3. ASSUME NEW finalize \in BOOLEAN, Accumulate(r, finalize)
        PROVE  UsageTypes' /\ Charges' /\ phase # "final"
    <2>1. UsageTypes' /\ Charges'
      BY Zenon, <1>0, <1>1, <1>3, AccumulateCharges
    <2>. QED  BY Zenon, <1>3, <2>1 DEF Accumulate
  <1>4. CASE phase = "open" /\ finalizeWithRequestedUsage(r)
    BY Zenon, <1>0, <1>4, RequestedCharges
  <1>5. CASE phase = "final" /\ UNCHANGED usage
    BY Zenon, <1>0, <1>5 DEF usage, UsageTypes, Charges
  <1>6. ASSUME NEW finalize \in BOOLEAN, advanceState(r, finalize)
        PROVE  UsageTypes' /\ Charges' /\ (phase = "final" => UNCHANGED usage)
    BY Zenon, <1>2, <1>3, <1>5, <1>6 DEF advanceState
  <1>7. CASE finalizeWithRequestedUsage(r)
    <2>1. phase = "open" \/ (phase = "final" /\ UNCHANGED usage)
      BY Zenon, <1>7 DEF finalizeWithRequestedUsage
    <2>. QED  BY Zenon, <1>4, <1>5, <1>7, <2>1
  <1>. QED  BY Zenon, <1>6, <1>7 DEF Mutate

LEMMA ChargesKept ==
    ASSUME Types, Charges, UNCHANGED usage, WorldTypes', clock <= clock', used <= used'
    PROVE  UsageTypes' /\ Charges'
  <1>1. UsageTypes'
    BY Zenon DEF usage, Types, UsageTypes
  <1>2. phase # "absent" => last <= clock' /\ lastCpu <= used'
    BY DEF Types, UsageTypes, WorldTypes, Charges
  <1>3. Charges'
    BY Zenon, <1>2 DEF usage, Charges
  <1>. QED  BY Zenon, <1>1, <1>3

-----------------------------------------------------------------------------
(* The delivery.                                                           *)

AllCharged == \A c \in Categories : ledger[c] # NoRow

\* What a replica that delivers, or is past its delivery, can rely on.
Shipment(r) ==
    /\ delivery[r] \in {"append", "mark"} => phase = "final" /\ rows[r] = total
    /\ delivery[r] = "mark" => ledger[item[r]] # NoRow
    /\ route[r] = "end" => AllCharged

Shipping == LedgerAgrees /\ EndedIsCharged /\ \A r \in Replicas : Shipment(r)

\* Rows of the ledger stay.
LedgerGrows == \A c \in Categories : ledger[c] # NoRow => ledger'[c] = ledger[c]

\* The inductive invariant.
CostInv == Types /\ Metered /\ Charges /\ Shipping

LEMMA ShipmentKept ==
    ASSUME NEW p \in Replicas, Shipment(p), item[p] \in Categories, LedgerGrows,
           phase = "final" => UNCHANGED <<phase, total>>,
           delivery'[p] = delivery[p], item'[p] = item[p], rows'[p] = rows[p], route'[p] = route[p]
    PROVE  Shipment(p)'
  <1>1. AllCharged => AllCharged'
    BY Zenon DEF AllCharged, LedgerGrows
  <1>2. ledger[item[p]] # NoRow => ledger'[item'[p]] # NoRow
    BY Zenon DEF LedgerGrows
  <1>. QED  BY Zenon, <1>1, <1>2 DEF Shipment

\* A step of r that keeps the rows of the ledger and adds only finalized ones.
LEMMA ShippingStep ==
    ASSUME CostInv, NEW r \in Replicas, LedgerGrows,
           phase = "final" => UNCHANGED <<phase, total>>,
           \A c \in Categories :
               ledger'[c] # NoRow => ledger[c] # NoRow \/ (phase = "final" /\ ledger'[c] = total[c]),
           \A c \in done' : ledger'[c] # NoRow,
           row' = "ended" => row = "ended" \/ AllCharged,
           \A p \in Replicas \ {r} : /\ delivery'[p] = delivery[p] /\ item'[p] = item[p]
                                      /\ rows'[p] = rows[p] /\ route'[p] = route[p],
           Shipment(r)'
    PROVE  Shipping'
  <1>1. LedgerAgrees'
    <2>1. \A c \in Categories : ledger'[c] # NoRow => phase = "final" /\ ledger'[c] = total[c]
      BY Zenon DEF CostInv, Shipping, LedgerAgrees, LedgerGrows
    <2>. QED  BY Zenon, <2>1 DEF LedgerAgrees
  <1>2. AllCharged => AllCharged'
    BY Zenon DEF AllCharged, LedgerGrows
  <1>3. EndedIsCharged'
    BY Zenon, <1>2 DEF CostInv, Shipping, EndedIsCharged, AllCharged
  <1>4. ASSUME NEW p \in Replicas PROVE Shipment(p)'
    <2>1. CASE p = r
      BY Zenon, <2>1
    <2>2. CASE p # r
      <3>1. item[p] \in Categories /\ Shipment(p)
        BY Zenon DEF CostInv, Types, DeliveryTypes, Shipping
      <3>. QED  BY Zenon, <2>2, <3>1, ShipmentKept
    <2>. QED  BY Zenon, <2>1, <2>2
  <1>. QED  BY Zenon, <1>1, <1>3, <1>4 DEF Shipping

\* The same when the ledger, the marks and the row stay as they are.
LEMMA QuietStep ==
    ASSUME CostInv, NEW r \in Replicas, UNCHANGED <<ledger, done, row>>,
           phase = "final" => UNCHANGED <<phase, total>>,
           \A p \in Replicas \ {r} : /\ delivery'[p] = delivery[p] /\ item'[p] = item[p]
                                      /\ rows'[p] = rows[p] /\ route'[p] = route[p],
           Shipment(r)'
    PROVE  Shipping'
  <1>1. LedgerGrows
    BY Zenon DEF LedgerGrows
  <1>2. \A c \in done' : ledger'[c] # NoRow
    BY Zenon DEF CostInv, Shipping, LedgerAgrees
  <1>. QED  BY Zenon, <1>1, <1>2, ShippingStep

\* What the ends of a delivery leave.
LEMMA DeliveryEndsShips ==
    ASSUME DeliveryTypes, NEW r \in Replicas, NEW ok \in BOOLEAN, DeliveryEnds(r, ok),
           ok => AllCharged', route[r] = "end" => AllCharged'
    PROVE  /\ Shipment(r)'
           /\ \A p \in Replicas \ {r} : /\ delivery'[p] = delivery[p] /\ item'[p] = item[p]
                                         /\ rows'[p] = rows[p] /\ route'[p] = route[p]
  <1>1. \A p \in Replicas \ {r} : /\ delivery'[p] = delivery[p] /\ item'[p] = item[p]
                                  /\ rows'[p] = rows[p] /\ route'[p] = route[p]
    BY Zenon DEF DeliveryTypes, DeliveryEnds
  <1>2. delivery'[r] = "no"
    BY Zenon DEF DeliveryTypes, DeliveryEnds
  <1>3. route'[r] = "end" => ok \/ route[r] = "end"
    BY Zenon DEF DeliveryTypes, DeliveryEnds
  <1>. QED  BY Zenon, <1>1, <1>2, <1>3 DEF Shipment

LEMMA NextItemShips ==
    ASSUME DeliveryTypes, NEW r \in Replicas, NEW marked \in SUBSET Categories,
           NEW made \in [Categories -> Nat],
           NextItem(r, marked, made), phase' = "final", made = total',
           \A c \in marked : ledger'[c] # NoRow, route[r] = "end" => AllCharged'
    PROVE  /\ Shipment(r)'
           /\ \A p \in Replicas \ {r} : /\ delivery'[p] = delivery[p] /\ item'[p] = item[p]
                                         /\ rows'[p] = rows[p] /\ route'[p] = route[p]
  <1>1. CASE Remaining(marked) = {} /\ DeliveryEnds(r, TRUE)
    <2>1. AllCharged'
      BY Zenon, <1>1 DEF Remaining, AllCharged
    <2>. QED  BY Zenon, <1>1, <2>1, DeliveryEndsShips
  <1>2. CASE /\ delivery' = [delivery EXCEPT ![r] = "append"]
             /\ item' = [item EXCEPT ![r] = IF "cpu" \in Remaining(marked) THEN "cpu" ELSE "mem"]
             /\ rows' = [rows EXCEPT ![r] = made]
             /\ UNCHANGED <<sampling, route, recording>>
    <2>1. delivery'[r] = "append" /\ rows'[r] = made /\ route' = route
      BY Zenon, <1>2 DEF DeliveryTypes
    <2>2. \A p \in Replicas \ {r} : /\ delivery'[p] = delivery[p] /\ item'[p] = item[p]
                                    /\ rows'[p] = rows[p] /\ route'[p] = route[p]
      BY Zenon, <1>2 DEF DeliveryTypes
    <2>. QED  BY Zenon, <2>1, <2>2 DEF Shipment
  <1>. QED  BY Zenon, <1>1, <1>2 DEF NextItem

\* A step that at most begins a delivery.
LEMMA CalmStep ==
    ASSUME CostInv, NEW r \in Replicas, UNCHANGED <<ledger, done, row>>,
           phase = "final" => UNCHANGED <<phase, total>>,
           Deliver(r) \/ UNCHANGED delivering,
           route'[r] = "end" => route[r] = "end",
           \A p \in Replicas \ {r} : route'[p] = route[p]
    PROVE  /\ Shipping'
           /\ delivery' \in [Replicas -> {"no", "read", "append", "mark"}]
           /\ item' \in [Replicas -> Categories]
           /\ rows' \in [Replicas -> [Categories -> Nat]]
  <1>0. DeliveryTypes /\ Shipment(r)
    BY Zenon DEF CostInv, Types, Shipping
  <1>1. /\ delivery' \in [Replicas -> {"no", "read", "append", "mark"}]
        /\ item' = item /\ rows' = rows
        /\ item \in [Replicas -> Categories]
        /\ rows \in [Replicas -> [Categories -> Nat]]
        /\ delivery'[r] = delivery[r] \/ delivery'[r] = "read"
        /\ \A p \in Replicas \ {r} : delivery'[p] = delivery[p]
    BY Zenon, <1>0 DEF DeliveryTypes, Deliver, delivering
  <1>2. AllCharged' = AllCharged /\ ledger'[item'[r]] = ledger[item[r]]
    BY Zenon, <1>1 DEF AllCharged
  <1>3. Shipment(r)'
    BY Zenon, <1>0, <1>1, <1>2 DEF Shipment
  <1>4. Shipping'
    BY Zenon, <1>1, <1>3, QuietStep
  <1>. QED  BY Zenon, <1>1, <1>4

LEMMA UsageKept ==
    ASSUME CostInv, UNCHANGED <<clock, used, usage>>, WorldTypes'
    PROVE  UsageTypes' /\ Charges' /\ UNCHANGED <<phase, total>>
  <1>1. clock <= clock' /\ used <= used'
    BY DEF CostInv, Types, WorldTypes
  <1>. QED  BY Zenon, <1>1, ChargesKept DEF CostInv, usage

-----------------------------------------------------------------------------
(* One lemma for each action.                                              *)

LEMMA StartStep ==
    ASSUME CostInv, NEW r \in Replicas, Start(r)
    PROVE  CostInv'
  <1>0. Types /\ Metered /\ Charges /\ DeliveryTypes /\ SamplingTypes /\ WorldTypes
    BY Zenon DEF CostInv, Types
  <1>1. UNCHANGED <<clock, used, sandbox, row, usage, done, ledger, faults>>
    BY Zenon DEF Start, world
  <1>2. WorldTypes' /\ UsageTypes' /\ Charges'
    <2>1. WorldTypes'
      BY Zenon, <1>0, <1>1 DEF WorldTypes
    <2>. QED  BY Zenon, <1>1, <2>1, UsageKept
  <1>3. SamplingTypes' /\ Metered'
    <2>1. CASE UNCHANGED sampling
      BY Zenon, <1>0, <1>1, <2>1 DEF sampling, SamplingTypes, Metered
    <2>2. CASE JobBegins(r, "start", "sample")
      BY Zenon, <1>0, <1>1, <2>2, JobBeginsTypes
    <2>. QED  BY Zenon, <2>1, <2>2 DEF Start
  <1>4. /\ recording' \in [Replicas -> {"none", "active", "stopped"}]
        /\ route' \in [Replicas -> {"idle", "ensure", "drain", "finalize", "deliver", "end"}]
        /\ route'[r] = "end" => route[r] = "end"
        /\ \A p \in Replicas \ {r} : route'[p] = route[p]
    <2>1. CASE UNCHANGED <<recording, route, delivering>>
      BY Zenon, <1>0, <2>1 DEF DeliveryTypes
    <2>2. CASE Started(r)
      BY Zenon, <1>0, <2>2 DEF DeliveryTypes, Started
    <2>. QED  BY Zenon, <2>1, <2>2 DEF Start
  <1>5. Deliver(r) \/ UNCHANGED delivering
    BY Zenon DEF Start
  <1>6. phase = "final" => UNCHANGED <<phase, total>>
    BY Zenon, <1>1 DEF usage
  <1>7. Shipping' /\ DeliveryTypes'
    BY Zenon, <1>1, <1>4, <1>5, <1>6, CalmStep DEF DeliveryTypes
  <1>. QED  BY Zenon, <1>2, <1>3, <1>7 DEF CostInv, Types

LEMMA IntervalStep ==
    ASSUME CostInv, NEW r \in Replicas, Interval(r)
    PROVE  CostInv'
  <1>0. Types /\ Metered /\ Charges /\ DeliveryTypes /\ SamplingTypes /\ WorldTypes
    BY Zenon DEF CostInv, Types
  <1>1. UNCHANGED <<clock, used, sandbox, row, usage, done, ledger, recording, route, faults>>
    BY Zenon DEF Interval, world
  <1>2. WorldTypes' /\ UsageTypes' /\ Charges'
    <2>1. WorldTypes'
      BY Zenon, <1>0, <1>1 DEF WorldTypes
    <2>. QED  BY Zenon, <1>1, <2>1, UsageKept
  <1>3. SamplingTypes' /\ Metered'
    BY Zenon, <1>0, <1>1, JobBeginsTypes DEF Interval
  <1>4. Deliver(r) \/ UNCHANGED delivering
    BY Zenon DEF Interval
  <1>5. phase = "final" => UNCHANGED <<phase, total>>
    BY Zenon, <1>1 DEF usage
  <1>6. Shipping' /\ DeliveryTypes'
    BY Zenon, <1>0, <1>1, <1>4, <1>5, CalmStep DEF DeliveryTypes
  <1>. QED  BY Zenon, <1>2, <1>3, <1>6 DEF CostInv, Types

\* A sample is taken, or the replica goes on without one.
LEMMA SampleStep ==
    ASSUME CostInv, NEW r \in Replicas, Sample(r) \/ SampleFails(r)
    PROVE  CostInv'
  <1>0. Types /\ Metered /\ Charges /\ DeliveryTypes /\ SamplingTypes /\ WorldTypes
    BY Zenon DEF CostInv, Types
  <1>1. /\ UNCHANGED <<clock, used, sandbox, row, usage, done, ledger, recording, delivering, route>>
        /\ faults' \in Nat
    BY SMTT(20), <1>0 DEF Sample, SampleFails, Fault, world, WorldTypes
  <1>2. WorldTypes' /\ UsageTypes' /\ Charges'
    <2>1. WorldTypes'
      BY Zenon, <1>0, <1>1 DEF WorldTypes
    <2>. QED  BY Zenon, <1>1, <2>1, UsageKept
  <1>3. SamplingTypes' /\ Metered'
    <2>1. CASE JobOver(r)
      BY Zenon, <1>0, <1>1, <2>1, JobOverTypes
    <2>2. CASE Sample(r)
      <3>1. [cpu |-> used, rss |-> Rss] \in [cpu : Nat, rss : Nat]
        BY Zenon, <1>0, CostAssumption DEF WorldTypes
      <3>2. SamplingTypes'
        BY Zenon, <1>0, <2>2, <3>1 DEF SamplingTypes, Sample, WorldTypes
      <3>3. \A p \in Replicas : \/ at'[p] = at[p] /\ seen'[p] = seen[p]
                                \/ at'[p] = clock /\ seen'[p] = [cpu |-> used, rss |-> Rss]
        BY Zenon, <1>0, <2>2 DEF SamplingTypes, Sample
      <3>4. clock <= clock /\ used <= used /\ Rss <= Rss
        BY <1>0, CostAssumption DEF WorldTypes
      <3>5. Metered'
        BY SMTT(20), <1>0, <1>1, <3>3, <3>4 DEF Metered
      <3>. QED  BY Zenon, <3>2, <3>5
    <2>3. CASE /\ job' = [job EXCEPT ![r] = IF @ = "last" THEN "requested" ELSE @]
               /\ at' = [at EXCEPT ![r] = clock]
               /\ step' = [step EXCEPT ![r] = "mutate"]
               /\ UNCHANGED seen
      <3>1. SamplingTypes'
        BY Zenon, <1>0, <2>3 DEF SamplingTypes, WorldTypes
      <3>2. \A p \in Replicas : at'[p] = at[p] \/ at'[p] = clock
        BY Zenon, <1>0, <2>3 DEF SamplingTypes
      <3>3. clock <= clock
        BY <1>0 DEF WorldTypes
      <3>4. Metered'
        BY Zenon, <1>0, <1>1, <2>3, <3>2, <3>3 DEF Metered
      <3>. QED  BY Zenon, <3>1, <3>4
    <2>. QED  BY Zenon, <2>1, <2>2, <2>3 DEF SampleFails, NoSample
  <1>4. Shipping' /\ DeliveryTypes'
    BY Zenon, <1>0, <1>1, CalmStep DEF DeliveryTypes, usage
  <1>. QED  BY Zenon, <1>2, <1>3, <1>4 DEF CostInv, Types

\* The mutation is applied, whether its caller learns of it or not.
LEMMA MutationStep ==
    ASSUME CostInv, NEW r \in Replicas, Mutate(r) \/ UNCHANGED usage, JobOver(r),
           UNCHANGED <<clock, used, sandbox, row, done, ledger>>, faults' \in Nat,
           recording' \in [Replicas -> {"none", "active", "stopped"}],
           route' \in [Replicas -> {"idle", "ensure", "drain", "finalize", "deliver", "end"}],
           route'[r] = "end" => route[r] = "end",
           \A p \in Replicas \ {r} : route'[p] = route[p],
           Deliver(r) \/ UNCHANGED delivering
    PROVE  CostInv'
  <1>0. Types /\ Metered /\ Charges /\ DeliveryTypes /\ SamplingTypes /\ WorldTypes
    BY Zenon DEF CostInv, Types
  <1>1. WorldTypes'
    BY Zenon, <1>0 DEF WorldTypes
  <1>2. UsageTypes' /\ Charges' /\ (phase = "final" => UNCHANGED <<phase, total>>)
    <2>1. CASE Mutate(r)
      BY Zenon, <1>0, <2>1, MutateCharges DEF usage
    <2>2. CASE UNCHANGED usage
      BY Zenon, <1>1, <2>2, UsageKept
    <2>. QED  BY Zenon, <2>1, <2>2
  <1>3. SamplingTypes' /\ Metered'
    BY Zenon, <1>0, JobOverTypes
  <1>4. Shipping' /\ DeliveryTypes'
    BY Zenon, <1>2, CalmStep DEF DeliveryTypes
  <1>. QED  BY Zenon, <1>1, <1>2, <1>3, <1>4 DEF CostInv, Types

LEMMA MutatedStep ==
    ASSUME CostInv, NEW r \in Replicas, Mutated(r) \/ MutationFails(r)
    PROVE  CostInv'
  <1>0. DeliveryTypes /\ faults \in Nat
    BY Zenon DEF CostInv, Types, WorldTypes
  <1>1. /\ Mutate(r) \/ UNCHANGED usage
        /\ JobOver(r)
        /\ UNCHANGED <<clock, used, sandbox, row, done, ledger>> /\ faults' \in Nat
        /\ Deliver(r) \/ UNCHANGED delivering
    BY SMTT(20), <1>0 DEF Mutated, MutationFails, Fault, world
  <1>2. /\ recording' \in [Replicas -> {"none", "active", "stopped"}]
        /\ route' \in [Replicas -> {"idle", "ensure", "drain", "finalize", "deliver", "end"}]
        /\ route'[r] = "end" => route[r] = "end"
        /\ \A p \in Replicas \ {r} : route'[p] = route[p]
    <2>1. CASE Started(r)
      BY Zenon, <1>0, <2>1 DEF DeliveryTypes, Started
    <2>2. CASE /\ route' = [route EXCEPT ![r] = IF @ = "finalize" THEN "deliver" ELSE @]
               /\ UNCHANGED recording
      BY Zenon, <1>0, <2>2 DEF DeliveryTypes
    <2>3. CASE MutationFails(r)
      BY Zenon, <1>0, <2>3 DEF DeliveryTypes, MutationFails
    <2>. QED  BY Zenon, <2>1, <2>2, <2>3 DEF Mutated
  <1>. QED  BY Zenon, <1>1, <1>2, MutationStep

LEMMA DeliverReadStep ==
    ASSUME CostInv, NEW r \in Replicas, DeliverRead(r)
    PROVE  CostInv'
  <1>0. /\ Types /\ Metered /\ DeliveryTypes /\ SamplingTypes /\ WorldTypes
        /\ done \in SUBSET Categories /\ total \in [Categories -> Nat]
        /\ Shipment(r) /\ LedgerAgrees
    BY Zenon DEF CostInv, Types, UsageTypes, WorldTypes, Shipping
  <1>1. /\ phase = "final" /\ NextItem(r, done, total)
        /\ UNCHANGED <<clock, used, sandbox, row, usage, done, ledger, faults>>
    BY Zenon DEF DeliverRead, world
  <1>2. WorldTypes'
    BY Zenon, <1>0, <1>1 DEF WorldTypes
  <1>3. UsageTypes' /\ Charges' /\ UNCHANGED <<phase, total>>
    BY Zenon, <1>1, <1>2, UsageKept
  <1>4. PICK marked \in SUBSET Categories, made \in [Categories -> Nat] :
           marked = done /\ made = total
    BY Zenon, <1>0
  <1>5. NextItem(r, marked, made) /\ made = total' /\ phase' = "final"
    BY Zenon, <1>1, <1>3, <1>4
  <1>6. SamplingTypes' /\ Metered' /\ DeliveryTypes'
    BY Zenon, <1>0, <1>1, <1>5, NextItemTypes
  <1>7. \A c \in marked : ledger'[c] # NoRow
    BY Zenon, <1>0, <1>1, <1>4 DEF LedgerAgrees
  <1>8. route[r] = "end" => AllCharged'
    BY Zenon, <1>0, <1>1 DEF Shipment, AllCharged
  <1>9. /\ Shipment(r)'
        /\ \A p \in Replicas \ {r} : /\ delivery'[p] = delivery[p] /\ item'[p] = item[p]
                                      /\ rows'[p] = rows[p] /\ route'[p] = route[p]
    BY Zenon, <1>0, <1>5, <1>7, <1>8, NextItemShips
  <1>10. Shipping'
    BY Zenon, <1>1, <1>3, <1>9, QuietStep
  <1>. QED  BY Zenon, <1>2, <1>3, <1>6, <1>10 DEF CostInv, Types

\* The ledger after a row was offered.
LEMMA AppendIfAbsentAdds ==
    ASSUME CostInv, NEW r \in Replicas, delivery[r] = "append", appendIfAbsent(r)
    PROVE  /\ ledger' \in [Categories -> Nat \cup {NoRow}]
           /\ LedgerGrows
           /\ ledger'[item[r]] # NoRow
           /\ \A c \in Categories :
                 ledger'[c] # NoRow => ledger[c] # NoRow \/ (phase = "final" /\ ledger'[c] = total[c])
  <1>1. /\ ledger \in [Categories -> Nat \cup {NoRow}] /\ item[r] \in Categories
        /\ phase = "final" /\ rows[r] = total /\ total \in [Categories -> Nat]
    BY Zenon DEF CostInv, Types, WorldTypes, DeliveryTypes, UsageTypes, Shipping, Shipment
  <1>2. PICK i \in Categories : i = item[r]
    BY Zenon, <1>1
  <1>3. ledger' = [ledger EXCEPT ![i] = IF @ = NoRow THEN total[i] ELSE @]
    BY Zenon, <1>1, <1>2 DEF appendIfAbsent
  <1>4. total[i] \in Nat /\ total[i] # NoRow
    BY Zenon, <1>1, CostAssumption
  <1>5. ledger' \in [Categories -> Nat \cup {NoRow}]
    BY Zenon, <1>1, <1>3, <1>4
  <1>6. \A c \in Categories : ledger'[c] = IF c = i /\ ledger[c] = NoRow THEN total[c] ELSE ledger[c]
    BY Zenon, <1>1, <1>3
  <1>. QED  BY Zenon, <1>1, <1>2, <1>4, <1>5, <1>6 DEF LedgerGrows

LEMMA AppendStep ==
    ASSUME CostInv, NEW r \in Replicas, Append(r)
    PROVE  CostInv'
  <1>0. /\ Types /\ Metered /\ DeliveryTypes /\ SamplingTypes /\ WorldTypes
        /\ Shipment(r) /\ LedgerAgrees /\ done \in SUBSET Categories
    BY Zenon DEF CostInv, Types, WorldTypes, Shipping
  <1>1. /\ delivery[r] = "append" /\ appendIfAbsent(r)
        /\ delivery' = [delivery EXCEPT ![r] = "mark"]
        /\ UNCHANGED <<clock, used, sandbox, row, usage, done, recording, sampling, item, rows, route, faults>>
    BY Zenon DEF Append, world
  <1>2. /\ ledger' \in [Categories -> Nat \cup {NoRow}]
        /\ LedgerGrows
        /\ ledger'[item[r]] # NoRow
        /\ \A c \in Categories :
              ledger'[c] # NoRow => ledger[c] # NoRow \/ (phase = "final" /\ ledger'[c] = total[c])
    BY Zenon, <1>1, AppendIfAbsentAdds
  <1>3. WorldTypes'
    BY Zenon, <1>0, <1>1, <1>2 DEF WorldTypes
  <1>4. UsageTypes' /\ Charges' /\ UNCHANGED <<phase, total>>
    BY Zenon, <1>1, <1>3, UsageKept
  <1>5. SamplingTypes' /\ Metered'
    BY Zenon, <1>0, <1>1 DEF sampling, SamplingTypes, Metered
  <1>6. DeliveryTypes'
    BY Zenon, <1>0, <1>1 DEF DeliveryTypes
  <1>7. delivery'[r] = "mark" /\ \A p \in Replicas \ {r} : delivery'[p] = delivery[p]
    BY Zenon, <1>0, <1>1 DEF DeliveryTypes
  <1>8. AllCharged => AllCharged'
    BY Zenon, <1>2 DEF AllCharged, LedgerGrows
  <1>9. Shipment(r)'
    BY Zenon, <1>0, <1>1, <1>2, <1>4, <1>7, <1>8 DEF Shipment
  <1>10. \A c \in done' : ledger'[c] # NoRow
    BY Zenon, <1>0, <1>1, <1>2 DEF LedgerAgrees, LedgerGrows
  <1>11. Shipping'
    BY Zenon, <1>1, <1>2, <1>4, <1>7, <1>9, <1>10, ShippingStep
  <1>. QED  BY Zenon, <1>3, <1>4, <1>5, <1>6, <1>11 DEF CostInv, Types

LEMMA MarkStep ==
    ASSUME CostInv, NEW r \in Replicas, Mark(r)
    PROVE  CostInv'
  <1>0. /\ Types /\ Metered /\ DeliveryTypes /\ SamplingTypes /\ WorldTypes
        /\ Shipment(r) /\ LedgerAgrees /\ done \in SUBSET Categories
        /\ item[r] \in Categories /\ rows[r] \in [Categories -> Nat]
    BY Zenon DEF CostInv, Types, WorldTypes, DeliveryTypes, Shipping
  <1>1. /\ delivery[r] = "mark" /\ done' = done \cup {item[r]}
        /\ NextItem(r, done \cup {item[r]}, rows[r])
        /\ UNCHANGED <<clock, used, sandbox, row, usage, ledger, faults>>
    BY Zenon DEF Mark, markCategoryDelivered, world
  <1>2. WorldTypes'
    BY Zenon, <1>0, <1>1 DEF WorldTypes
  <1>3. UsageTypes' /\ Charges' /\ UNCHANGED <<phase, total>>
    BY Zenon, <1>1, <1>2, UsageKept
  <1>4. PICK marked \in SUBSET Categories, made \in [Categories -> Nat] :
           marked = done \cup {item[r]} /\ made = rows[r]
    BY Zenon, <1>0
  <1>5. NextItem(r, marked, made) /\ made = total' /\ phase' = "final"
    BY Zenon, <1>0, <1>1, <1>3, <1>4 DEF Shipment
  <1>6. SamplingTypes' /\ Metered' /\ DeliveryTypes'
    BY Zenon, <1>0, <1>1, <1>5, NextItemTypes
  <1>7. \A c \in marked : ledger'[c] # NoRow
    BY Zenon, <1>0, <1>1, <1>4 DEF LedgerAgrees, Shipment
  <1>8. route[r] = "end" => AllCharged'
    BY Zenon, <1>0, <1>1 DEF Shipment, AllCharged
  <1>9. /\ Shipment(r)'
        /\ \A p \in Replicas \ {r} : /\ delivery'[p] = delivery[p] /\ item'[p] = item[p]
                                      /\ rows'[p] = rows[p] /\ route'[p] = route[p]
    BY Zenon, <1>0, <1>5, <1>7, <1>8, NextItemShips
  <1>10. LedgerGrows /\ \A c \in done' : ledger'[c] # NoRow
    BY Zenon, <1>1, <1>4, <1>7 DEF LedgerGrows
  <1>11. Shipping'
    BY Zenon, <1>1, <1>3, <1>9, <1>10, ShippingStep
  <1>. QED  BY Zenon, <1>2, <1>3, <1>6, <1>11 DEF CostInv, Types

LEMMA DeliverFailsStep ==
    ASSUME CostInv, NEW r \in Replicas, DeliverFails(r)
    PROVE  CostInv'
  <1>0. /\ Types /\ Metered /\ DeliveryTypes /\ SamplingTypes /\ WorldTypes
        /\ Shipment(r) /\ LedgerAgrees /\ done \in SUBSET Categories
        /\ ledger \in [Categories -> Nat \cup {NoRow}]
        /\ item[r] \in Categories /\ faults \in Nat
    BY Zenon DEF CostInv, Types, WorldTypes, DeliveryTypes, Shipping
  <1>1. /\ DeliveryEnds(r, FALSE) /\ faults' \in Nat
        /\ UNCHANGED <<clock, used, sandbox, row, usage>>
    <2>1. faults' \in Nat
      BY SMTT(20), <1>0 DEF DeliverFails, Fault
    <2>2. DeliveryEnds(r, FALSE)
      BY Zenon DEF DeliverFails
    <2>3. UNCHANGED <<clock, used, sandbox, row, usage>>
      BY Zenon DEF DeliverFails, world
    <2>. QED  BY Zenon, <2>1, <2>2, <2>3
  <1>2. /\ ledger' \in [Categories -> Nat \cup {NoRow}]
        /\ LedgerGrows
        /\ \A c \in Categories :
              ledger'[c] # NoRow => ledger[c] # NoRow \/ (phase = "final" /\ ledger'[c] = total[c])
    <2>1. CASE UNCHANGED ledger
      BY Zenon, <1>0, <2>1 DEF LedgerGrows
    <2>2. CASE delivery[r] = "append" /\ appendIfAbsent(r)
      BY Zenon, <2>2, AppendIfAbsentAdds
    <2>. QED  BY Zenon, <2>1, <2>2 DEF DeliverFails
  <1>3. done' \in SUBSET Categories /\ \A c \in done' : ledger'[c] # NoRow
    <2>1. \A c \in done : ledger'[c] # NoRow
      BY Zenon, <1>0, <1>2 DEF LedgerAgrees, LedgerGrows
    <2>2. CASE UNCHANGED done
      BY Zenon, <1>0, <2>1, <2>2
    <2>3. CASE delivery[r] = "mark" /\ markCategoryDelivered(r)
      <3>1. ledger'[item[r]] # NoRow
        BY Zenon, <1>0, <1>2, <2>3 DEF Shipment, LedgerGrows
      <3>. QED  BY Zenon, <1>0, <2>1, <2>3, <3>1 DEF markCategoryDelivered
    <2>. QED  BY Zenon, <2>2, <2>3 DEF DeliverFails
  <1>4. WorldTypes'
    BY Zenon, <1>0, <1>1, <1>2, <1>3 DEF WorldTypes
  <1>5. UsageTypes' /\ Charges' /\ UNCHANGED <<phase, total>>
    BY Zenon, <1>1, <1>4, UsageKept
  <1>6. SamplingTypes' /\ Metered' /\ DeliveryTypes'
    BY Zenon, <1>0, <1>1, DeliveryEndsTypes
  <1>7. route[r] = "end" => AllCharged'
    BY Zenon, <1>0, <1>2 DEF Shipment, AllCharged, LedgerGrows
  <1>8. /\ Shipment(r)'
        /\ \A p \in Replicas \ {r} : /\ delivery'[p] = delivery[p] /\ item'[p] = item[p]
                                      /\ rows'[p] = rows[p] /\ route'[p] = route[p]
    BY Zenon, <1>0, <1>1, <1>7, DeliveryEndsShips
  <1>9. Shipping'
    BY Zenon, <1>1, <1>2, <1>3, <1>5, <1>8, ShippingStep
  <1>. QED  BY Zenon, <1>4, <1>5, <1>6, <1>9 DEF CostInv, Types

\* The steps of the termination routes up to the delivery.
LEMMA RouteStep ==
    ASSUME CostInv, NEW r \in Replicas, Terminate(r) \/ TerminateProject(r) \/ Finalize(r)
    PROVE  CostInv'
  <1>0. Types /\ Metered /\ DeliveryTypes /\ SamplingTypes /\ WorldTypes
    BY Zenon DEF CostInv, Types
  <1>1. /\ UNCHANGED <<clock, used, sandbox, row, usage, done, ledger, faults>>
        /\ Deliver(r) \/ UNCHANGED delivering
    BY Zenon DEF Terminate, TerminateProject, Finalize, world
  <1>2. WorldTypes'
    BY Zenon, <1>0, <1>1 DEF WorldTypes
  <1>3. UsageTypes' /\ Charges' /\ UNCHANGED <<phase, total>>
    BY Zenon, <1>1, <1>2, UsageKept
  <1>4. SamplingTypes' /\ Metered'
    <2>1. CASE UNCHANGED sampling
      BY Zenon, <1>0, <1>1, <2>1 DEF sampling, SamplingTypes, Metered
    <2>2. CASE JobBegins(r, "last", "sample")
      BY Zenon, <1>0, <1>1, <2>2, JobBeginsTypes
    <2>. QED  BY Zenon, <2>1, <2>2 DEF Terminate, TerminateProject, Finalize
  <1>5. /\ recording' \in [Replicas -> {"none", "active", "stopped"}]
        /\ route' \in [Replicas -> {"idle", "ensure", "drain", "finalize", "deliver", "end"}]
        /\ route'[r] = "end" => route[r] = "end"
        /\ \A p \in Replicas \ {r} : route'[p] = route[p]
    <2>1. CASE BeginTermination(r)
      BY Zenon, <1>0, <2>1 DEF DeliveryTypes, BeginTermination
    <2>2. CASE Finalize(r)
      BY Zenon, <1>0, <2>2 DEF DeliveryTypes, Finalize
    <2>. QED  BY Zenon, <2>1, <2>2 DEF Terminate, TerminateProject
  <1>6. Shipping' /\ DeliveryTypes'
    BY Zenon, <1>1, <1>3, <1>5, CalmStep DEF DeliveryTypes
  <1>. QED  BY Zenon, <1>2, <1>3, <1>4, <1>6 DEF CostInv, Types

\* The end of a termination, successful or not.
LEMMA EndStep ==
    ASSUME CostInv, NEW r \in Replicas, End(r) \/ RouteFails(r)
    PROVE  CostInv'
  <1>0. /\ Types /\ Metered /\ DeliveryTypes /\ SamplingTypes /\ WorldTypes
        /\ Shipment(r) /\ LedgerAgrees /\ item[r] \in Categories
    BY Zenon DEF CostInv, Types, DeliveryTypes, Shipping
  <1>1. /\ UNCHANGED <<clock, used, usage, done, ledger, recording, sampling, delivering>>
        /\ route' = [route EXCEPT ![r] = "idle"]
        /\ sandbox' \in {"running", "gone"} /\ row' \in {"ready", "ended", "killed"} /\ faults' \in Nat
        /\ row' = "ended" => row = "ended" \/ route[r] = "end"
    <2>1. sandbox \in {"running", "gone"} /\ row \in {"ready", "ended", "killed"} /\ faults \in Nat
      BY Zenon, <1>0 DEF WorldTypes
    <2>2. CASE End(r)
      BY Zenon, <2>1, <2>2 DEF End
    <2>3. CASE RouteFails(r)
      <3>0. Fault /\ sandbox' \in {sandbox, "gone"}
        BY Zenon, <2>3 DEF RouteFails
      <3>1. faults' \in Nat
        BY <2>1, <3>0 DEF Fault
      <3>2. sandbox' \in {"running", "gone"}
        BY Zenon, <2>1, <3>0
      <3>. QED  BY Zenon, <2>1, <2>3, <3>1, <3>2 DEF RouteFails
    <2>. QED  BY SMTT(20), <2>2, <2>3
  <1>2. WorldTypes'
    BY Zenon, <1>0, <1>1 DEF WorldTypes
  <1>3. UsageTypes' /\ Charges' /\ UNCHANGED <<phase, total>>
    BY Zenon, <1>1, <1>2, UsageKept
  <1>4. SamplingTypes' /\ Metered'
    BY Zenon, <1>0, <1>1 DEF sampling, SamplingTypes, Metered
  <1>5. DeliveryTypes'
    BY Zenon, <1>0, <1>1 DEF delivering, DeliveryTypes
  <1>6. route'[r] = "idle" /\ \A p \in Replicas \ {r} : route'[p] = route[p]
    BY Zenon, <1>0, <1>1 DEF DeliveryTypes
  <1>7. Shipment(r)'
    BY Zenon, <1>0, <1>1, <1>3, <1>6 DEF Shipment, delivering
  <1>8. LedgerGrows /\ \A c \in done' : ledger'[c] # NoRow
    BY Zenon, <1>0, <1>1 DEF LedgerGrows, LedgerAgrees
  <1>9. row' = "ended" => row = "ended" \/ AllCharged
    BY Zenon, <1>0, <1>1 DEF Shipment
  <1>10. Shipping'
    BY Zenon, <1>1, <1>3, <1>6, <1>7, <1>8, <1>9, ShippingStep DEF delivering
  <1>. QED  BY Zenon, <1>2, <1>3, <1>4, <1>5, <1>10 DEF CostInv, Types

LEMMA CrashStep ==
    ASSUME CostInv, NEW r \in Replicas, Crash(r)
    PROVE  CostInv'
  <1>0. /\ Types /\ Metered /\ DeliveryTypes /\ SamplingTypes /\ WorldTypes
    BY Zenon DEF CostInv, Types
  <1>1. UNCHANGED <<clock, used, sandbox, row, usage, done, ledger>> /\ JobOver(r) /\ faults' \in Nat
    BY SMTT(20), <1>0 DEF Crash, Fault, world, WorldTypes
  <1>2. WorldTypes'
    BY Zenon, <1>0, <1>1 DEF WorldTypes
  <1>3. UsageTypes' /\ Charges' /\ UNCHANGED <<phase, total>>
    BY Zenon, <1>1, <1>2, UsageKept
  <1>4. SamplingTypes' /\ Metered'
    BY Zenon, <1>0, <1>1, JobOverTypes
  <1>5. DeliveryTypes'
    BY Zenon, <1>0, EmptyTypes DEF Crash, DeliveryTypes
  <1>6. /\ delivery'[r] = "no" /\ route'[r] = "idle"
        /\ \A p \in Replicas \ {r} : /\ delivery'[p] = delivery[p] /\ item'[p] = item[p]
                                      /\ rows'[p] = rows[p] /\ route'[p] = route[p]
    BY Zenon, <1>0 DEF Crash, DeliveryTypes
  <1>7. Shipment(r)'
    BY Zenon, <1>6 DEF Shipment
  <1>8. Shipping'
    BY Zenon, <1>1, <1>3, <1>6, <1>7, QuietStep
  <1>. QED  BY Zenon, <1>2, <1>3, <1>4, <1>5, <1>8 DEF CostInv, Types

\* The surroundings: the replicas and the records stay as they are.
LEMMA WorldStep ==
    ASSUME CostInv, SandboxEnds \/ GovernorEnds \/ Tick
    PROVE  CostInv'
  <1>0. Types /\ Metered /\ Charges /\ DeliveryTypes /\ SamplingTypes /\ WorldTypes /\ Shipping
    BY Zenon DEF CostInv, Types
  <1>1. /\ UNCHANGED <<usage, done, ledger, recording, sampling, delivering, route, faults>>
        /\ sandbox' \in {"running", "gone"} /\ row' \in {"ready", "ended", "killed"}
        /\ row' = "ended" => row = "ended"
    BY Zenon, <1>0 DEF SandboxEnds, GovernorEnds, Tick, world, WorldTypes
  <1>2. clock' \in Nat /\ used' \in Nat /\ clock <= clock' /\ used <= used'
    <2>1. clock \in Nat /\ used \in Nat /\ Burst \in Nat
      BY Zenon, <1>0, CostAssumption DEF WorldTypes
    <2>2. CASE SandboxEnds \/ GovernorEnds
      <3>1. UNCHANGED <<clock, used>>
        BY Zenon, <2>2 DEF SandboxEnds, GovernorEnds, world
      <3>. QED  BY <2>1, <3>1
    <2>3. CASE Tick
      BY SMTT(20), <2>1, <2>3 DEF Tick
    <2>. QED  BY Zenon, <2>2, <2>3
  <1>3. WorldTypes'
    BY Zenon, <1>0, <1>1, <1>2 DEF WorldTypes
  <1>4. UsageTypes' /\ Charges'
    BY Zenon, <1>0, <1>1, <1>2, <1>3, ChargesKept
  <1>5. SamplingTypes'
    BY Zenon, <1>0, <1>1 DEF sampling, SamplingTypes
  <1>6. Metered'
    BY Zenon, <1>0, <1>1, <1>2, <1>3, MeteredKept DEF sampling
  <1>7. DeliveryTypes'
    BY Zenon, <1>0, <1>1 DEF delivering, DeliveryTypes
  <1>8. Shipping'
    <2>1. AllCharged' = AllCharged
      BY Zenon, <1>1 DEF AllCharged
    <2>2. LedgerAgrees'
      BY Zenon, <1>0, <1>1 DEF usage, Shipping, LedgerAgrees
    <2>3. EndedIsCharged'
      BY Zenon, <1>0, <1>1 DEF Shipping, EndedIsCharged
    <2>4. \A p \in Replicas : Shipment(p)'
      BY Zenon, <1>0, <1>1, <2>1 DEF usage, delivering, Shipping, Shipment
    <2>. QED  BY Zenon, <2>2, <2>3, <2>4 DEF Shipping
  <1>. QED  BY Zenon, <1>3, <1>4, <1>5, <1>6, <1>7, <1>8 DEF CostInv, Types

-----------------------------------------------------------------------------

LEMMA CostInitial == Init => CostInv
  <1>. SUFFICES ASSUME Init PROVE CostInv
    BY Zenon
  <1>1. UsageTypes
    BY Zenon, EmptyTypes DEF Init, UsageTypes
  <1>2. SamplingTypes
    BY Zenon, EmptyTypes DEF Init, SamplingTypes
  <1>3. DeliveryTypes
    BY Zenon, EmptyTypes DEF Init, DeliveryTypes
  <1>4. WorldTypes
    BY Zenon DEF Init, WorldTypes
  <1>5. Metered
    <2>1. clock = 0 /\ used = 0 /\ \A r \in Replicas : at[r] = 0 /\ seen[r] = Empty
      BY Zenon DEF Init
    <2>2. \A r \in Replicas : seen[r].cpu = 0 /\ seen[r].rss = 0
      BY Zenon, <2>1, EmptyTypes
    <2>3. 0 <= Rss
      BY CostAssumption
    <2>4. ASSUME NEW r \in Replicas
          PROVE  at[r] <= clock /\ seen[r].cpu <= used /\ seen[r].rss <= Rss
      <3>1. at[r] = clock /\ clock \in Nat /\ at[r] \in Nat
        BY <2>1
      <3>2. seen[r].cpu = used /\ used \in Nat /\ seen[r].cpu \in Nat
        BY SMTT(20), <2>1, <2>2
      <3>3. seen[r].rss <= Rss
        BY Zenon, <2>2, <2>3
      <3>. QED  BY SMTT(20), <3>1, <3>2, <3>3
    <2>. QED  BY Zenon, <2>4 DEF Metered
  <1>6. Charges
    BY Zenon DEF Init, Charges
  <1>7. LedgerAgrees /\ EndedIsCharged
    BY Zenon DEF Init, LedgerAgrees, EndedIsCharged
  <1>8. \A r \in Replicas : Shipment(r)
    BY Zenon DEF Init, Shipment
  <1>. QED  BY Zenon, <1>1, <1>2, <1>3, <1>4, <1>5, <1>6, <1>7, <1>8 DEF CostInv, Types, Shipping

LEMMA CostStutter ==
    ASSUME CostInv, UNCHANGED vars
    PROVE  CostInv'
  <1>1. /\ UNCHANGED <<clock, used, sandbox, row, usage, done, ledger, faults>>
        /\ UNCHANGED sampling /\ UNCHANGED delivering /\ UNCHANGED <<recording, route>>
    <2>1. UNCHANGED world
      BY Zenon DEF vars
    <2>2. UNCHANGED <<row, usage, done, ledger, faults, sampling, delivering, recording, route>>
      BY Zenon DEF vars
    <2>. QED  BY Zenon, <2>1, <2>2 DEF world
  <1>2. WorldTypes'
    BY Zenon, <1>1 DEF CostInv, Types, WorldTypes
  <1>3. UsageTypes' /\ Charges'
    BY Zenon, <1>1, <1>2, UsageKept
  <1>4. SamplingTypes' /\ Metered'
    BY Zenon, <1>1 DEF sampling, CostInv, Types, SamplingTypes, Metered
  <1>5. DeliveryTypes'
    BY Zenon, <1>1 DEF delivering, CostInv, Types, DeliveryTypes
  <1>6. AllCharged' = AllCharged
    BY Zenon, <1>1 DEF AllCharged
  <1>7. LedgerAgrees' /\ EndedIsCharged'
    BY Zenon, <1>1 DEF usage, CostInv, Shipping, LedgerAgrees, EndedIsCharged
  <1>8. \A p \in Replicas : Shipment(p)'
    BY Zenon, <1>1, <1>6 DEF usage, delivering, CostInv, Shipping, Shipment
  <1>. QED  BY Zenon, <1>2, <1>3, <1>4, <1>5, <1>7, <1>8 DEF CostInv, Types, Shipping

LEMMA CostStep ==
    ASSUME CostInv, [Next]_vars
    PROVE  CostInv'
  <1>1. CASE UNCHANGED vars
    BY Zenon, <1>1, CostStutter
  <1>2. CASE SandboxEnds \/ GovernorEnds \/ Tick
    BY Zenon, <1>2, WorldStep
  <1>3. ASSUME NEW r \in Replicas,
               \/ ReplicaStep(r) \/ Interval(r) \/ Terminate(r) \/ TerminateProject(r)
               \/ SampleFails(r) \/ MutationFails(r) \/ DeliverFails(r) \/ RouteFails(r) \/ Crash(r)
        PROVE  CostInv'
    BY Zenon, <1>3, StartStep, IntervalStep, SampleStep, MutatedStep, DeliverReadStep, AppendStep, MarkStep,
       DeliverFailsStep, RouteStep, EndStep, CrashStep DEF ReplicaStep
  <1>. QED  BY Zenon, <1>1, <1>2, <1>3 DEF Next

-----------------------------------------------------------------------------

THEOREM CostInvariant == Spec => []CostInv
  BY CostInitial, CostStep, PTL DEF Spec

\* The totals contain the requested usage of all the time up to the last
\* sample, and every unit of CPU observed by then.
THEOREM NoGapsEver == Spec => []NoGap
  <1>1. CostInv => NoGap
    BY Zenon DEF CostInv, Charges, NoGap
  <1>. QED  BY <1>1, CostInvariant, PTL

\* Samples applied in the order they were taken charge no window twice.
THEOREM NothingChargedTwice == Spec => []ChargedOnce
  <1>1. CostInv => ChargedOnce
    <2>. SUFFICES ASSUME CostInv, phase # "absent", ~disorder PROVE
             /\ total["cpu"] <= CpuRequested * (clock - began) + (used - firstCpu)
             /\ total["mem"] <= Greater(MemRequested, Rss) * (clock - began)
      BY Zenon DEF ChargedOnce
    <2>. DEFINE W == Greater(MemRequested, Rss)
    <2>1. /\ clock \in Nat /\ used \in Nat /\ last \in Nat /\ lastCpu \in Nat
          /\ began \in Nat /\ firstCpu \in Nat /\ total \in [Categories -> Nat]
      BY Zenon DEF CostInv, Types, UsageTypes, WorldTypes
    <2>2. /\ last <= clock /\ lastCpu <= used
          /\ total["cpu"] <= CpuRequested * (last - began) + (lastCpu - firstCpu)
          /\ total["mem"] <= W * (last - began)
      BY Zenon DEF CostInv, Charges
    <2>3. W \in Nat /\ CpuRequested \in Nat
      BY Zenon, CostAssumption DEF Greater
    <2>4. last - began \in Int /\ clock - began \in Int /\ last - began <= clock - began
      BY SMTT(20), <2>1, <2>2
    <2>5. /\ CpuRequested * (last - began) <= CpuRequested * (clock - began)
          /\ CpuRequested * (last - began) \in Int /\ CpuRequested * (clock - began) \in Int
          /\ W * (last - began) <= W * (clock - began)
          /\ W * (last - began) \in Int /\ W * (clock - began) \in Int
      BY Zenon, <2>3, <2>4, Products
    <2>6. total["cpu"] \in Nat /\ total["mem"] \in Nat
      BY Zenon, <2>1, EmptyTypes
    <2>. HIDE DEF W
    <2>7. total["cpu"] <= CpuRequested * (clock - began) + (used - firstCpu)
      BY SMTT(20), <2>1, <2>2, <2>5, <2>6
    <2>8. total["mem"] <= W * (clock - began)
      BY SMTT(20), <2>2, <2>5, <2>6
    <2>. QED  BY Zenon, <2>7, <2>8 DEF W
  <1>. QED  BY <1>1, CostInvariant, PTL

\* The ledger has rows of finalized recordings only, each with the total of its
\* category.
THEOREM LedgerAlwaysAgrees == Spec => []LedgerAgrees
  <1>1. CostInv => LedgerAgrees
    BY Zenon DEF CostInv, Shipping
  <1>. QED  BY <1>1, CostInvariant, PTL

\* A workspace a route has terminated has both of its ledger rows.
THEOREM EndedAlwaysCharged == Spec => []EndedIsCharged
  <1>1. CostInv => EndedIsCharged
    BY Zenon DEF CostInv, Shipping
  <1>. QED  BY <1>1, CostInvariant, PTL
=============================================================================
