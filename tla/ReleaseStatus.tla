--------------------------- MODULE ReleaseStatus ---------------------------
(***************************************************************************)
(* What the release record promises: a release is created once, its status *)
(* moves only along the allowed transitions, and an operation key moves it *)
(* at most once.                                                           *)
(***************************************************************************)
CONSTANT OperationKeys

VARIABLES
    status,     \* the status of the release, "none" before it is created
    applied     \* the operation keys that have moved it

Statuses == {"candidate", "verifying", "ready", "warnings", "blocked", "approved",
             "deploying", "healthy", "failed", "superseded"}

ALLOWED_TRANSITIONS ==
    [s \in Statuses |->
        CASE s = "candidate" -> {"verifying"}
          [] s = "verifying" -> {"ready", "warnings", "blocked"}
          [] s \in {"ready", "warnings"} -> {"approved"}
          [] s = "approved" -> {"deploying"}
          [] s = "deploying" -> {"healthy", "failed"}
          [] s = "healthy" -> {"superseded"}
          [] OTHER -> {}]

Create ==
    /\ status = "none"
    /\ status' = "candidate"
    /\ UNCHANGED applied

Move(k) ==
    /\ k \notin applied
    /\ applied' = applied \cup {k}
    /\ status \in Statuses
    /\ status' \in ALLOWED_TRANSITIONS[status]

Init == status = "none" /\ applied = {}

Next == Create \/ \E k \in OperationKeys : Move(k)

Spec == Init /\ [][Next]_<<status, applied>>
=============================================================================
