\* One request in every configuration; scripts run twice stand for the others
\* that use up its units. Requests never wait for each other.
\* The request ends and then nothing is left to do: no deadlock check.
SPECIFICATION Spec
CHECK_DEADLOCK FALSE
CONSTANTS
  Requests = {r1}
  Tenants = {"t"}
  TenantOf <- MCTenantOf
  Limit <- MCLimit
  Configs <- MCAllConfigs
  Resends = 1
PROPERTIES
  EveryRequestAnswered
