---------------------------- MODULE ConcurrencyGate ----------------------------
(***************************************************************************)
(* apps/star-controller/src/concurrency_gate.rs: the gate every Operation  *)
(* worker passes before it starts a tool.  Under one mutex it keeps a      *)
(* count of active workers per tool and the set of lock keys in use.       *)
(*                                                                         *)
(* acquire polls: one iteration of its loop tests and takes the counter    *)
(* and all the locks under the mutex (Attempt); if that fails the mutex is *)
(* released and only then the deadline is looked at (CheckDeadline), after *)
(* which the task sleeps 5 ms and tries again.  Other workers run between  *)
(* the two.  Dropping the GateLease undoes the grant (Release).            *)
(***************************************************************************)
EXTENDS Integers, FiniteSets

CONSTANTS Workers,    \* the tokio tasks that run Operations
          Tools,      \* registered tool ids
          Locks,      \* OperationLockKey values
          Requests,   \* the GateRequests acquire is called with
          NoLease     \* a worker that holds no GateLease

\* A GateRequest; max_parallel may be 0.  (It is a u16: the count of a tool
\* stays below a limit when it grows, so it never leaves that range.)
ASSUME RequestsAssumption ==
    \A r \in Requests : /\ r.tool_id \in Tools
                        /\ r.max_parallel \in Nat
                        /\ r.locks \subseteq Locks

ASSUME NoLeaseAssumption == NoLease \notin Requests

ASSUME WorkersAssumption == IsFiniteSet(Workers)

VARIABLES active_by_tool,   \* GateState.active_by_tool, 0 where no entry
          held_locks,       \* GateState.held_locks
          phase,            \* where each worker is in acquire
          request,          \* the GateRequest of a worker past "idle"
          overdue           \* workers whose deadline has passed

vars == <<active_by_tool, held_locks, phase, request, overdue>>

Phases == {"idle", "attempt", "check", "holding", "timed_out"}

\* The GateLease values alive: acquire moves the request into the lease.
lease == [w \in Workers |-> IF phase[w] = "holding" THEN request[w] ELSE NoLease]

Table == INSTANCE LeaseTable WITH lease <- lease

Waiting(w) == phase[w] \in {"attempt", "check"}

Init ==
    /\ active_by_tool = [t \in Tools |-> 0]
    /\ held_locks = {}
    /\ phase = [w \in Workers |-> "idle"]
    /\ request = [w \in Workers |-> NoLease]
    /\ overdue = {}

\* A worker calls acquire(request, timeout).
Arrive(w, r) ==
    /\ phase[w] = "idle"
    /\ phase' = [phase EXCEPT ![w] = "attempt"]
    /\ request' = [request EXCEPT ![w] = r]
    /\ UNCHANGED <<active_by_tool, held_locks, overdue>>

\* Faulty variant of CanEnter: any free lock suffices.
CanEnterAnyLock(r) ==
    /\ active_by_tool[r.tool_id] < Table!Limit(r)
    /\ r.locks # {} => \E k \in r.locks : k \notin held_locks

CanEnter(r) ==
    /\ active_by_tool[r.tool_id] < Table!Limit(r)
    /\ r.locks \cap held_locks = {}

\* The locked block succeeds: count and locks are taken together.
Enter(w) ==
    /\ phase[w] = "attempt"
    /\ CanEnter(request[w])
    /\ active_by_tool' = [active_by_tool EXCEPT ![request[w].tool_id] = @ + 1]
    /\ held_locks' = held_locks \cup request[w].locks
    /\ phase' = [phase EXCEPT ![w] = "holding"]
    /\ UNCHANGED <<request, overdue>>

\* The locked block fails and the mutex is released.
Refuse(w) ==
    /\ phase[w] = "attempt"
    /\ ~CanEnter(request[w])
    /\ phase' = [phase EXCEPT ![w] = "check"]
    /\ UNCHANGED <<active_by_tool, held_locks, request, overdue>>

\* Faulty variants of CheckDeadline: the deadline is never looked at; an
\* overdue worker goes ahead without the gate.
CheckDeadlineNever(w) ==
    /\ phase[w] = "check"
    /\ phase' = [phase EXCEPT ![w] = "attempt"]
    /\ UNCHANGED <<active_by_tool, held_locks, request, overdue>>

CheckDeadlineProceeds(w) ==
    /\ phase[w] = "check"
    /\ phase' = [phase EXCEPT ![w] = IF w \in overdue THEN "holding" ELSE "attempt"]
    /\ UNCHANGED <<active_by_tool, held_locks, request, overdue>>

\* now >= deadline: Err(QueueTimeout); otherwise sleep and try again.
CheckDeadline(w) ==
    /\ phase[w] = "check"
    /\ phase' = [phase EXCEPT ![w] = IF w \in overdue THEN "timed_out" ELSE "attempt"]
    /\ UNCHANGED <<active_by_tool, held_locks, request, overdue>>

\* The clock reaches the deadline of a waiting worker.
DeadlinePasses(w) ==
    /\ Waiting(w)
    /\ w \notin overdue
    /\ overdue' = overdue \cup {w}
    /\ UNCHANGED <<active_by_tool, held_locks, phase, request>>

\* Faulty variants of Release: the count stays; the locks stay.
ReleaseLocksOnly(w) ==
    /\ phase[w] = "holding"
    /\ held_locks' = held_locks \ request[w].locks
    /\ phase' = [phase EXCEPT ![w] = "idle"]
    /\ request' = [request EXCEPT ![w] = NoLease]
    /\ overdue' = overdue \ {w}
    /\ UNCHANGED active_by_tool

ReleaseCountOnly(w) ==
    /\ phase[w] = "holding"
    /\ active_by_tool' = [active_by_tool EXCEPT
                            ![request[w].tool_id] = IF @ = 0 THEN 0 ELSE @ - 1]
    /\ phase' = [phase EXCEPT ![w] = "idle"]
    /\ request' = [request EXCEPT ![w] = NoLease]
    /\ overdue' = overdue \ {w}
    /\ UNCHANGED held_locks

\* Drop for GateLease: locks out, count down (saturating), entry removed at 0.
Release(w) ==
    /\ phase[w] = "holding"
    /\ held_locks' = held_locks \ request[w].locks
    /\ active_by_tool' = [active_by_tool EXCEPT
                            ![request[w].tool_id] = IF @ = 0 THEN 0 ELSE @ - 1]
    /\ phase' = [phase EXCEPT ![w] = "idle"]
    /\ request' = [request EXCEPT ![w] = NoLease]
    /\ overdue' = overdue \ {w}

\* The worker has reported TOOL_QUEUE_TIMEOUT and its slot is free again.
TimedOut(w) ==
    /\ phase[w] = "timed_out"
    /\ phase' = [phase EXCEPT ![w] = "idle"]
    /\ request' = [request EXCEPT ![w] = NoLease]
    /\ overdue' = overdue \ {w}
    /\ UNCHANGED <<active_by_tool, held_locks>>

Poll(w) == Enter(w) \/ Refuse(w) \/ CheckDeadline(w)

Next == \E w \in Workers :
    \/ \E r \in Requests : Arrive(w, r)
    \/ Enter(w)
    \/ Refuse(w)
    \/ CheckDeadline(w)
    \/ DeadlinePasses(w)
    \/ Release(w)
    \/ TimedOut(w)

Spec == Init /\ [][Next]_vars

(***************************************************************************)
(* Fairness: tokio polls every task again after its sleep, the clock       *)
(* advances, and every lease is dropped (a tool run has its own timeout).  *)
(* Nothing makes a request arrive.                                         *)
(***************************************************************************)
Fairness == \A w \in Workers : /\ WF_vars(Poll(w))
                               /\ WF_vars(DeadlinePasses(w))
                               /\ WF_vars(Release(w))
                               /\ WF_vars(TimedOut(w))

FairSpec == Spec /\ Fairness

-----------------------------------------------------------------------------
(* Properties *)

\* Every variable of the gate and of its workers has its type, and a worker
\* carries a request exactly while it is inside acquire or owns a lease.
TypeOK ==
    /\ active_by_tool \in [Tools -> Nat]
    /\ held_locks \subseteq Locks
    /\ phase \in [Workers -> Phases]
    /\ request \in [Workers -> Requests \cup {NoLease}]
    /\ overdue \subseteq Workers
    /\ \A w \in Workers : request[w] = NoLease <=> phase[w] = "idle"

\* Two workers never own the same OperationLockKey, whatever order acquire
\* and drop interleave in.
LockExclusion ==
    \A v, w \in Workers :
        v # w /\ Table!Holding(v) /\ Table!Holding(w) => lease[v].locks \cap lease[w].locks = {}

\* The bookkeeping never drifts from the leases: each counter is the number
\* of leases of that tool and held_locks is exactly what the leases hold, so
\* no interleaving leaks a permit or frees a lock that is in use.
BooksMatchLeases ==
    /\ \A t \in Tools : active_by_tool[t] = Cardinality(Table!HoldersOf(t))
    /\ held_locks = Table!LeasedLocks

\* A tool never has more workers than the largest limit any of its requests
\* carried (the descriptor's max_parallel may change between revisions).
ParallelBound ==
    \A t \in Tools : Table!HoldersOf(t) # {} =>
        \E r \in Requests : r.tool_id = t /\ Cardinality(Table!HoldersOf(t)) <= Table!Limit(r)

\* acquire answers: a waiting worker is granted its lease or times out.
AcquireAnswers ==
    \A w \in Workers : Waiting(w) ~> phase[w] \in {"holding", "timed_out"}

\* All-or-nothing acquisition cannot deadlock: when a worker is about to try
\* the locked block, some worker holds a lease or comes to hold one.  (It need
\* not be the one that tries, and a worker past its last try may time out
\* although the gate has become free.)
SomeoneIsServed ==
    (\E w \in Workers : phase[w] = "attempt") ~> (\E w \in Workers : phase[w] = "holding")

\* The counters and the lock set implement the table of leases.
ImplementsLeaseTable == Table!LTSpec
=============================================================================
