--------------------------- MODULE MCConcurrencyGate ---------------------------
\* ConcurrencyGate with three workers, two tools and two lock keys.
EXTENDS ConcurrencyGate, TLC

CONSTANTS w1, w2, w3, t1, t2, k1, k2

MCWorkers == {w1, w2, w3}
MCTools == {t1, t2}
MCLocks == {k1, k2}

\* t1 is parallel with and without locks, and its limit changed from 2 to 0
\* between descriptor revisions; t2 shares both locks with t1.  (The controller
\* gives a request one lock key at most, of its own tool; acquire takes any.)
MCRequests ==
    {[tool_id |-> t1, max_parallel |-> 2, locks |-> {}],
     [tool_id |-> t1, max_parallel |-> 0, locks |-> {k1}],
     [tool_id |-> t2, max_parallel |-> 1, locks |-> {k1, k2}],
     [tool_id |-> t2, max_parallel |-> 2, locks |-> {k2}]}

WorkerSymmetry == Permutations(MCWorkers)
=============================================================================
