---------------------------- MODULE MCCodexLifecycle ----------------------------
\* CodexLifecycle with each session in an instance of its own, or all in one.
EXTENDS CodexLifecycle, TLC

CONSTANTS i1, i2, t1, t2

OwnInstance == [t \in Tasks |-> IF t = t1 THEN i1 ELSE i2]
OneInstance == [t \in Tasks |-> i1]
=============================================================================
