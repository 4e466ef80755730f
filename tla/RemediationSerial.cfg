SPECIFICATION FairSpec
CONSTANTS
  ActionIds = {a1}
  Requests = {r1, r2}
  Approvers = {r1}
  NoAction = NoAction
  NoRequest = NoRequest
  Registered = {"demo_fault_reset", "k8s_scale"}
  RemediationEnabled = TRUE
  WorkspaceAllows = TRUE
  KillSwitchConfig = FALSE
  RequestsDrop = TRUE
  MaxDrift = 0
  MaxCrashes = 1
INVARIANTS
  TypeOK
  ChangeStaysOnRecord
  FinalWordStands
PROPERTIES
  ImplementsLifecycle
  ClaimedActionSettles
