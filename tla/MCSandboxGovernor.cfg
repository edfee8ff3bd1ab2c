SPECIFICATION FairGovernorSpec
CONSTANTS
  Workspaces <- MCWorkspaces
  NoWorkspace = NoWorkspace
  Orgs = {"orgA"}
  OrgOf <- MCOrgOf
  RunOf <- MCRunOf
  Purposes = {"builder", "preview", "repair"}
  PurposeOf <- MCPurposeOf
  Interactive = {"builder", "preview"}
  InteractiveBudget = 1
  AutonomousBudget = 1
  OpKeys = {"k1", "k2"}
  Requests <- MCRequests
  NoKey = NoKey
  Callers = {"c1"}
  NoCaller = NoCaller
  Tokens = {"t1", "t2", "t3", "t4"}
  NoToken = NoToken
  GlobalLimit = 2
  PlanLimits = {2}
  LeaseLen = 2
  r1 = r1
  r2 = r2
  Replicas = {r1, r2}
  Stubborn = {2}
  MaxFaults = 1
INVARIANTS
  SlotCoversSandbox
  LeaseExcludes
PROPERTIES
  
  OverdueReleased
