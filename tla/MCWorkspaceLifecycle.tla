------------------------ MODULE MCWorkspaceLifecycle ------------------------
(***************************************************************************)
(* Two create requests of one operation, and one request or pass of every  *)
(* other kind, each of which may begin again when it has ended.            *)
(***************************************************************************)
EXTENDS WorkspaceLifecycle, TLC

CONSTANTS c1, c2

CreateSymmetry == Permutations({c1, c2})
=============================================================================
