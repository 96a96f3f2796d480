--------------------------- MODULE MCBulkConsumer ---------------------------
\* Values for BulkConsumer: the events differ in nothing.
EXTENDS BulkConsumer, TLC

Symmetry == Permutations(Msgs)
=============================================================================
