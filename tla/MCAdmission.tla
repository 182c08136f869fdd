---------------------------- MODULE MCAdmission -----------------------------
\* The middleware chain on a small instance.
EXTENDS Admission, TLC

\* All requests are of one tenant and compete for every key.
MCTenantOf == [r \in Requests |-> CHOOSE t \in Tenants : TRUE]

MCLimit == [l \in Levels |-> 1]

\* A dry run makes the same checks whatever the enabled flags say.
MCConfigs == {[dryRun |-> TRUE, global |-> TRUE, tenant |-> TRUE],
              [dryRun |-> FALSE, global |-> TRUE, tenant |-> TRUE],
              [dryRun |-> FALSE, global |-> FALSE, tenant |-> FALSE]}

\* Every configuration.
MCAllConfigs == {[dryRun |-> TRUE, global |-> TRUE, tenant |-> TRUE]}
                \cup [dryRun : {FALSE}, global : BOOLEAN, tenant : BOOLEAN]

\* Requests are alike: they are of one tenant.
MCSymmetry == Permutations(Requests)
=============================================================================
