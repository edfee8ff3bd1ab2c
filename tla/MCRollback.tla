----------------------------- MODULE MCRollback -----------------------------
EXTENDS Rollback, TLC

CONSTANTS k1, k2, k3, v0, v1, v2

Targets == k1 :> v1 @@ k2 :> v0 @@ k3 :> v1
Evidence == k1 :> "reversible" @@ k2 :> "compensating" @@ k3 :> "unavailable"
=============================================================================
