-------------------------- MODULE MCBrokerTopology --------------------------
\* Values for BrokerTopology: a consumer of each dead-lettering mode, one run
\* of the script at a time, and two faults.
EXTENDS BrokerTopology

CONSTANTS auto, manual, script, m1
=============================================================================
