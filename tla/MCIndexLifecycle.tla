-------------------------- MODULE MCIndexLifecycle --------------------------
\* Values for IndexLifecycle: two terminals, one event, an alias that rolls
\* over once, and one killed script.
EXTENDS IndexLifecycle

CONSTANTS j1, j2, e1
=============================================================================
