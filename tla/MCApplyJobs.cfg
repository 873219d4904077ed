SPECIFICATION Spec
CONSTANTS
  Configs <- MCConfigs
  PlanOf <- MCPlanOf
  Keys <- MCKeys
  Actions <- MCActions
  Policies = {"backup", "overwrite"}
  JobIds = {j1, j2}
  Tabs = {t1}
  MaxRetained = 1
  None = None
INVARIANTS TypeOK SingleFlight RunningIsPollable OnlyApproved SuccessIsTrue
SYMMETRY JobSymmetry
