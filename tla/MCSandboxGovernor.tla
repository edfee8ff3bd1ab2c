------------------------- MODULE MCSandboxGovernor -------------------------
(* Two workspaces of one organization, swept by two replicas; the second   *)
(* one cannot be stopped.                                                  *)
EXTENDS SandboxGovernor, TLC

CONSTANTS r1, r2

MCWorkspaces == 1..2
MCOrgOf == <<"orgA", "orgA">>
MCRunOf == <<"run1", "run1">>
MCPurposeOf == <<"builder", "repair">>
MCRequests == {<<1, "k1">>, <<2, "k2">>}
=============================================================================
