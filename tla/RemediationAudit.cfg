SPECIFICATION Spec
CONSTANTS
  ActionIds = {a1}
  Requests = {r1, r2}
  Approvers = {r1}
  NoAction = NoAction
  NoRequest = NoRequest
  Registered = {"demo_fault_reset"}
  RemediationEnabled = TRUE
  WorkspaceAllows = TRUE
  KillSwitchConfig = FALSE
  RequestsDrop = FALSE
  MaxDrift = 0
  MaxCrashes = 0
INVARIANT StatusChangesAudited
