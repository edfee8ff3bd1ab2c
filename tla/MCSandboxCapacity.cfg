SPECIFICATION CapacitySpec
CONSTANTS
  Workspaces <- MCWorkspaces
  NoWorkspace = NoWorkspace
  Orgs = {"orgA", "orgB"}
  OrgOf <- MCOrgOf
  RunOf <- MCRunOf
  Purposes = {"builder", "preview", "repair"}
  PurposeOf <- MCPurposeOf
  Interactive = {"builder", "preview"}
  InteractiveBudget = 1
  AutonomousBudget = 1
  OpKeys = {"k1", "k2", "k3"}
  Requests <- MCRequests
  NoKey = NoKey
  c1 = c1
  c2 = c2
  Callers = {c1, c2}
  NoCaller = NoCaller
  t1 = t1
  t2 = t2
  Tokens = {t1, t2}
  NoToken = NoToken
  GlobalLimit = 2
  PlanLimits = {1, 2}
  LeaseLen = 1
SYMMETRY MCSymmetry
INVARIANTS
  CapacityLimits
PROPERTIES
  DecisionStands
