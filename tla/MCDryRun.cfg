\* Two requests of one tenant, one unit at every level, no script run twice: a
\* dry run, everything on, and the optional levels off.
\* All requests end and then nothing is left to do: no deadlock check.
SPECIFICATION Spec
CHECK_DEADLOCK FALSE
CONSTANTS
  Requests = {r1, r2}
  Tenants = {"t"}
  TenantOf <- MCTenantOf
  Limit <- MCLimit
  Configs <- MCConfigs
  Resends = 0
INVARIANT DryRunPassesOn
