----------------------------- MODULE MCConsumer -----------------------------
\* Values for Consumer: an event that is accepted, one the schema rejects and
\* one that is not JSON, or two accepted ones.
EXTENDS Consumer

CONSTANTS default, good, good2, invalid, garbage

MCTenants == {default}
MCHosts == {}
MCHostTenantMap == [h \in {} |-> default]

WellFormed == [shape |-> "message", tenant |-> default, host |-> NoHost,
               severity |-> "error", kvSeverity |-> NoSeverity, typed |-> TRUE]

MCBodyOf == [m \in Msgs |->
    CASE m \in {good, good2} -> WellFormed
      [] m = invalid -> [WellFormed EXCEPT !.severity = "debug"]
      [] m = garbage -> [WellFormed EXCEPT !.shape = "garbage"]]
=============================================================================
