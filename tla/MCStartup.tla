------------------------------ MODULE MCStartup ------------------------------
\* Two replicas.  The environments are a complete production one and a bare
\* development one, and those that differ from one of them in one setting.
EXTENDS Startup
CONSTANTS r1, r2

MCReplicas == {r1, r2}

Prod == [dev |-> FALSE, venue |-> "exchange", pairs |-> TRUE, vault |-> TRUE,
         creds |-> "set", brokers |-> "set", bus |-> "set", db |-> TRUE, token |-> TRUE]
Dev == [dev |-> TRUE, venue |-> "dummy", pairs |-> TRUE, vault |-> FALSE,
        creds |-> "unset", brokers |-> "unset", bus |-> "unset", db |-> FALSE,
        token |-> FALSE]

Near(e) == {f \in Env : Cardinality({k \in DOMAIN e : f[k] # e[k]}) <= 1}
MCEnvs == Near(Prod) \cup Near(Dev)
=============================================================================
