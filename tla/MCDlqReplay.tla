---------------------------- MODULE MCDlqReplay ----------------------------
\* Values for DlqReplay: an event whose null severity a replay repairs, one
\* of a tenant that is not registered, one that is not JSON, one that is JSON
\* but no object, and an object that json.dumps() cannot encode again.
EXTENDS DlqReplay

CONSTANTS default, ghost, repairable, hopeless, garbage, poison, surrogate

MCTenants == {default, ghost}
MCRegistry == {default}
MCHosts == {}
MCHostTenantMap == [h \in {} |-> default]

WellFormed == [shape |-> "message", tenant |-> default, host |-> NoHost,
               severity |-> "error", kvSeverity |-> NoSeverity, typed |-> TRUE]

MCBodyOf == [m \in Msgs |->
    CASE m = repairable -> [WellFormed EXCEPT !.severity = "null"]
      [] m = hopeless   -> [WellFormed EXCEPT !.tenant = ghost]
      [] m = garbage    -> [WellFormed EXCEPT !.shape = "garbage"]
      [] m = poison     -> [WellFormed EXCEPT !.shape = "nondict"]
      [] m = surrogate  -> [WellFormed EXCEPT !.severity = "null"]]

MCUnencodable == Msgs \cap {surrogate}
=============================================================================
