------------------------- MODULE MCSandboxCapacity -------------------------
(* Three workspaces of two organizations compete for two slots through two *)
(* create handlers.                                                        *)
EXTENDS SandboxCapacity, TLC

CONSTANTS c1, c2, t1, t2

MCWorkspaces == 1..3
MCOrgOf == <<"orgA", "orgA", "orgB">>
MCRunOf == <<"run1", "run1", "run2">>
MCPurposeOf == <<"builder", "builder", "repair">>
(* Each workspace has a key of its own.  Workspace 2 is also requested     *)
(* with the key of workspace 1.                                            *)
MCRequests == {<<1, "k1">>, <<2, "k2">>, <<3, "k3">>, <<2, "k1">>}
MCSymmetry == Permutations(Callers) \cup Permutations(Tokens)
=============================================================================
