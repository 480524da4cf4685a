------------------------------ MODULE LeaseTable ------------------------------
(***************************************************************************)
(* What the Operation concurrency gate promises, without saying how it     *)
(* keeps its books: a table of leases.  A lease is granted only if its     *)
(* locks are free and the tool still has room under the limit that the     *)
(* request itself carries, and a lease is given back whole.  The counters  *)
(* and the lock set of apps/star-controller/src/concurrency_gate.rs        *)
(* implement this table (module ConcurrencyGate), and ToolDispatch uses    *)
(* the table for the workers' leases.                                      *)
(***************************************************************************)
EXTENDS Naturals, FiniteSets

CONSTANTS Workers,    \* the tokio tasks that run Operations
          Tools,      \* registered tool ids
          Locks,      \* OperationLockKey values
          Requests,   \* the GateRequests acquire is called with
          NoLease     \* a worker that holds no GateLease

VARIABLE lease        \* the GateLease each worker owns

\* request.max_parallel.max(1): a limit of 0 still admits one worker.
Limit(r) == IF r.max_parallel = 0 THEN 1 ELSE r.max_parallel

Holding(w) == lease[w] # NoLease

\* The workers that own a lease of tool t.
HoldersOf(t) == {w \in Workers : lease[w] # NoLease /\ lease[w].tool_id = t}

\* The locks all the leases hold between them.
LeasedLocks == UNION {lease[w].locks : w \in {v \in Workers : Holding(v)}}

LTInit == lease = [w \in Workers |-> NoLease]

Grantable(r) == /\ r.locks \cap LeasedLocks = {}
                /\ Cardinality(HoldersOf(r.tool_id)) < Limit(r)

Grant(w, r) == /\ ~Holding(w)
               /\ Grantable(r)
               /\ lease' = [lease EXCEPT ![w] = r]

GiveBack(w) == /\ Holding(w)
               /\ lease' = [lease EXCEPT ![w] = NoLease]

LTNext == \E w \in Workers : (\E r \in Requests : Grant(w, r)) \/ GiveBack(w)

LTSpec == LTInit /\ [][LTNext]_lease
=============================================================================
