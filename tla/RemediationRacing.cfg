SPECIFICATION Spec
CONSTANTS
  ActionIds = {a1}
  Requests = {r1, r2}
  Approvers = {r1, r2}
  NoAction = NoAction
  NoRequest = NoRequest
  Registered = {"k8s_scale"}
  RemediationEnabled = TRUE
  WorkspaceAllows = TRUE
  KillSwitchConfig = FALSE
  RequestsDrop = TRUE
  MaxDrift = 1
  MaxCrashes = 1
SYMMETRY Symmetry
INVARIANTS
  K8sAppliedAtMostOnce
  OnlyApprovedChanges
  AuditedOutcomeIsReal
