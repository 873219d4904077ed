SPECIFICATION FairSpec
CONSTANTS
  Configs <- LiveConfigs
  PlanOf <- MCPlanOf
  Keys <- MCKeys
  Actions <- MCActions
  Policies = {"backup", "overwrite"}
  JobIds = {j1, j2}
  Tabs = {t1}
  MaxRetained = 1
  None = None
PROPERTIES ApplyEnds ImplementsService
