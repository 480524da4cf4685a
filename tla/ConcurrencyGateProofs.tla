------------------------- MODULE ConcurrencyGateProofs -------------------------
(***************************************************************************)
(* Proofs about the concurrency gate, for every finite set of workers and  *)
(* every set of tools, locks and requests.  The invariants are proved      *)
(* together: the counters bound the holders only while they count them,    *)
(* and the lock set excludes only while it is what the leases hold.        *)
(***************************************************************************)
EXTENDS ConcurrencyGate, FiniteSetTheorems, TLAPS

Inv == TypeOK /\ BooksMatchLeases /\ LockExclusion /\ ParallelBound

-----------------------------------------------------------------------------
\* What each step does to the leases.

\* Enter adds exactly the request of the worker that enters.
LEMMA LeaseEnter ==
    ASSUME TypeOK, NEW w \in Workers, Enter(w)
    PROVE  /\ request[w] \in Requests
           /\ lease[w] = NoLease
           /\ lease' = [lease EXCEPT ![w] = request[w]]
    BY DEF TypeOK, Phases, Enter, lease

\* Release removes exactly the lease of the worker that releases.
LEMMA LeaseRelease ==
    ASSUME TypeOK, NEW w \in Workers, Release(w)
    PROVE  /\ request[w] \in Requests
           /\ lease[w] = request[w]
           /\ lease' = [lease EXCEPT ![w] = NoLease]
    BY DEF TypeOK, Phases, Release, lease

\* No other step touches a lease.
LEMMA LeaseSame ==
    ASSUME TypeOK, NEW w \in Workers,
           \/ \E r \in Requests : Arrive(w, r)
           \/ Refuse(w)
           \/ CheckDeadline(w)
           \/ DeadlinePasses(w)
           \/ TimedOut(w)
    PROVE  /\ lease' = lease
           /\ UNCHANGED <<active_by_tool, held_locks>>
    BY DEF TypeOK, Phases, Arrive, Refuse, CheckDeadline, DeadlinePasses, TimedOut, lease

LEMMA LeaseType ==
    ASSUME TypeOK
    PROVE  lease \in [Workers -> Requests \cup {NoLease}]
    BY DEF TypeOK, lease

LEMMA HoldersFinite ==
    ASSUME NEW t
    PROVE  IsFiniteSet(Table!HoldersOf(t)) /\ Cardinality(Table!HoldersOf(t)) \in Nat
    <1>1. Table!HoldersOf(t) \in SUBSET Workers
        BY DEF Table!HoldersOf
    <1>2. IsFiniteSet(Table!HoldersOf(t))
        BY <1>1, WorkersAssumption, FS_Subset
    <1> QED
        BY <1>2, FS_CardinalityType

-----------------------------------------------------------------------------
LEMMA TypeStep ==
    ASSUME TypeOK, [Next]_vars
    PROVE  TypeOK'
    <1> USE DEF TypeOK, Phases
    <1>1. ASSUME NEW w \in Workers, NEW r \in Requests, Arrive(w, r)
          PROVE  TypeOK'
        BY <1>1, NoLeaseAssumption DEF Arrive
    <1>2. ASSUME NEW w \in Workers, Enter(w)
          PROVE  TypeOK'
        <2>1. request[w] \in Requests
            BY <1>2 DEF Enter
        <2>2. request[w].tool_id \in Tools /\ request[w].locks \subseteq Locks
            BY <2>1, RequestsAssumption
        <2>3. active_by_tool' \in [Tools -> Nat]
            BY <1>2, <2>2 DEF Enter
        <2>4. held_locks' \subseteq Locks
            BY <1>2, <2>2 DEF Enter
        <2> QED
            BY <1>2, <2>3, <2>4 DEF Enter
    <1>3. ASSUME NEW w \in Workers, Refuse(w)
          PROVE  TypeOK'
        BY <1>3 DEF Refuse
    <1>4. ASSUME NEW w \in Workers, CheckDeadline(w)
          PROVE  TypeOK'
        BY <1>4 DEF CheckDeadline
    <1>5. ASSUME NEW w \in Workers, DeadlinePasses(w)
          PROVE  TypeOK'
        BY <1>5 DEF DeadlinePasses
    <1>6. ASSUME NEW w \in Workers, Release(w)
          PROVE  TypeOK'
        <2>1. request[w] \in Requests
            BY <1>6 DEF Release
        <2>2. request[w].tool_id \in Tools
            BY <2>1, RequestsAssumption
        <2>3. active_by_tool' \in [Tools -> Nat]
            BY <1>6, <2>2 DEF Release
        <2>4. held_locks' \subseteq Locks
            BY <1>6 DEF Release
        <2> QED
            BY <1>6, <2>3, <2>4 DEF Release
    <1>7. ASSUME NEW w \in Workers, TimedOut(w)
          PROVE  TypeOK'
        BY <1>7 DEF TimedOut
    <1>8. CASE UNCHANGED vars
        BY <1>8 DEF vars
    <1> HIDE DEF TypeOK, Phases
    <1> QED
        BY <1>1, <1>2, <1>3, <1>4, <1>5, <1>6, <1>7, <1>8 DEF Next

\* A granted lease: the counters, the lock set, exclusion and the bound.
LEMMA EnterStep ==
    ASSUME Inv, NEW w \in Workers, Enter(w)
    PROVE  (BooksMatchLeases /\ LockExclusion /\ ParallelBound)'
    <1> DEFINE q == request[w]
    <1>1. /\ q \in Requests
          /\ lease[w] = NoLease
          /\ lease' = [lease EXCEPT ![w] = q]
        BY LeaseEnter DEF Inv
    <1>2. lease \in [Workers -> Requests \cup {NoLease}]
        BY LeaseType DEF Inv
    <1>3. q # NoLease /\ q.tool_id \in Tools /\ q.max_parallel \in Nat
        BY <1>1, RequestsAssumption, NoLeaseAssumption
    <1>4. /\ active_by_tool[q.tool_id] < Table!Limit(q)
          /\ q.locks \cap held_locks = {}
          /\ held_locks' = held_locks \cup q.locks
          /\ active_by_tool' = [active_by_tool EXCEPT ![q.tool_id] = @ + 1]
        BY DEF Enter, CanEnter
    <1>5. Table!LeasedLocks' = Table!LeasedLocks \cup q.locks
        BY <1>1, <1>2, <1>3 DEF Table!LeasedLocks, Table!Holding
    <1>6. ASSUME NEW t \in Tools
          PROVE  Table!HoldersOf(t)' = IF t = q.tool_id THEN Table!HoldersOf(t) \cup {w}
                                                        ELSE Table!HoldersOf(t)
        BY <1>1, <1>2, <1>3 DEF Table!HoldersOf
    <1>7. \A t \in Tools : w \notin Table!HoldersOf(t)
        BY <1>1 DEF Table!HoldersOf
    <1>8. ASSUME NEW t \in Tools
          PROVE  active_by_tool'[t] = Cardinality(Table!HoldersOf(t)')
        <2>1. active_by_tool[t] = Cardinality(Table!HoldersOf(t))
            BY DEF Inv, BooksMatchLeases
        <2>2. CASE t = q.tool_id
            <3>1. Cardinality(Table!HoldersOf(t) \cup {w}) = Cardinality(Table!HoldersOf(t)) + 1
                BY <1>7, HoldersFinite, FS_AddElement
            <3> QED
                BY <1>4, <1>6, <2>1, <2>2, <3>1 DEF Inv, TypeOK
        <2>3. CASE t # q.tool_id
            BY <1>4, <1>6, <2>1, <2>3 DEF Inv, TypeOK
        <2> QED
            BY <2>2, <2>3
    <1>9. BooksMatchLeases'
        BY <1>4, <1>5, <1>8 DEF Inv, BooksMatchLeases
    <1>10. LockExclusion'
        <2>1. \A v \in Workers : Table!Holding(v) => lease[v].locks \subseteq held_locks
            BY DEF Inv, BooksMatchLeases, Table!LeasedLocks
        <2> QED
            BY <1>1, <1>2, <1>4, <2>1 DEF Inv, LockExclusion, Table!Holding
    <1>11. ParallelBound'
        <2> SUFFICES ASSUME NEW t \in Tools, (Table!HoldersOf(t) # {})'
                     PROVE  \E r \in Requests :
                               r.tool_id = t /\ Cardinality(Table!HoldersOf(t)') <= Table!Limit(r)
            BY DEF ParallelBound, Table!Limit
        <2>1. CASE t = q.tool_id
            <3>1. Cardinality(Table!HoldersOf(t)') <= Table!Limit(q)
                BY <1>3, <1>4, <1>8, <2>1 DEF Inv, TypeOK, Table!Limit
            <3> QED
                BY <1>1, <2>1, <3>1
        <2>2. CASE t # q.tool_id
            BY <1>6, <2>2 DEF Inv, ParallelBound
        <2> QED
            BY <2>1, <2>2
    <1> QED
        BY <1>9, <1>10, <1>11

\* A dropped lease: its locks were no one else's, its count is one.
LEMMA ReleaseStep ==
    ASSUME Inv, NEW w \in Workers, Release(w)
    PROVE  (BooksMatchLeases /\ LockExclusion /\ ParallelBound)'
    <1> DEFINE q == request[w]
    <1>1. /\ q \in Requests
          /\ lease[w] = q
          /\ lease' = [lease EXCEPT ![w] = NoLease]
        BY LeaseRelease DEF Inv
    <1>2. lease \in [Workers -> Requests \cup {NoLease}]
        BY LeaseType DEF Inv
    <1>3. q # NoLease /\ q.tool_id \in Tools
        BY <1>1, RequestsAssumption, NoLeaseAssumption
    <1>4. /\ held_locks' = held_locks \ q.locks
          /\ active_by_tool' = [active_by_tool EXCEPT
                                 ![q.tool_id] = IF @ = 0 THEN 0 ELSE @ - 1]
        BY DEF Release
    <1>5. \A v \in Workers : v # w /\ Table!Holding(v) => lease[v].locks \cap q.locks = {}
        BY <1>1, <1>3 DEF Inv, LockExclusion, Table!Holding
    <1>6. Table!LeasedLocks' = Table!LeasedLocks \ q.locks
        BY <1>1, <1>2, <1>3, <1>5 DEF Table!LeasedLocks, Table!Holding
    <1>7. ASSUME NEW t \in Tools
          PROVE  Table!HoldersOf(t)' = IF t = q.tool_id THEN Table!HoldersOf(t) \ {w}
                                                        ELSE Table!HoldersOf(t)
        BY <1>1, <1>2, <1>3 DEF Table!HoldersOf
    <1>8. w \in Table!HoldersOf(q.tool_id)
        BY <1>1, <1>3 DEF Table!HoldersOf
    <1>9. ASSUME NEW t \in Tools
          PROVE  /\ active_by_tool'[t] = Cardinality(Table!HoldersOf(t)')
                 /\ Cardinality(Table!HoldersOf(t)') <= Cardinality(Table!HoldersOf(t))
        <2>1. /\ active_by_tool[t] = Cardinality(Table!HoldersOf(t))
              /\ Cardinality(Table!HoldersOf(t)) \in Nat
            BY HoldersFinite DEF Inv, BooksMatchLeases
        <2>2. CASE t = q.tool_id
            <3>1. Cardinality(Table!HoldersOf(t) \ {w}) = Cardinality(Table!HoldersOf(t)) - 1
                BY <1>8, <2>2, HoldersFinite, FS_RemoveElement
            <3>2. Cardinality(Table!HoldersOf(t)) # 0
                BY <1>8, <2>2, HoldersFinite, FS_EmptySet
            <3> QED
                BY <1>4, <1>7, <2>1, <2>2, <3>1, <3>2 DEF Inv, TypeOK
        <2>3. CASE t # q.tool_id
            BY <1>4, <1>7, <2>1, <2>3 DEF Inv, TypeOK
        <2> QED
            BY <2>2, <2>3
    <1>10. BooksMatchLeases'
        BY <1>4, <1>6, <1>9 DEF Inv, BooksMatchLeases
    <1>11. LockExclusion'
        BY <1>1, <1>2 DEF Inv, LockExclusion, Table!Holding
    <1>12. ParallelBound'
        <2> SUFFICES ASSUME NEW t \in Tools, (Table!HoldersOf(t) # {})'
                     PROVE  \E r \in Requests :
                               r.tool_id = t /\ Cardinality(Table!HoldersOf(t)') <= Table!Limit(r)
            BY DEF ParallelBound, Table!Limit
        <2>1. Table!HoldersOf(t) # {}
            BY <1>7
        <2>2. PICK r \in Requests : r.tool_id = t /\ Cardinality(Table!HoldersOf(t)) <= Table!Limit(r)
            BY <2>1 DEF Inv, ParallelBound
        <2>3. Table!Limit(r) \in Nat
            BY RequestsAssumption DEF Table!Limit
        <2>4. Cardinality(Table!HoldersOf(t)') \in Nat
            BY <1>7, HoldersFinite, FS_RemoveElement, FS_CardinalityType
        <2>5. Cardinality(Table!HoldersOf(t)') <= Table!Limit(r)
            BY <1>9, <2>2, <2>3, <2>4, HoldersFinite
        <2> QED
            BY <2>2, <2>5
    <1> QED
        BY <1>10, <1>11, <1>12

LEMMA InvStep ==
    ASSUME Inv, [Next]_vars
    PROVE  Inv'
    <1>1. TypeOK'
        BY TypeStep DEF Inv
    <1>2. CASE lease' = lease /\ UNCHANGED <<active_by_tool, held_locks>>
        <2>1. \A t : Table!HoldersOf(t)' = Table!HoldersOf(t)
            BY <1>2 DEF Table!HoldersOf
        <2>2. Table!LeasedLocks' = Table!LeasedLocks
            BY <1>2 DEF Table!LeasedLocks, Table!Holding
        <2> QED
            BY <1>1, <1>2, <2>1, <2>2
               DEF Inv, BooksMatchLeases, LockExclusion, ParallelBound, Table!Holding, Table!Limit
    <1>3. CASE UNCHANGED vars
        BY <1>2, <1>3 DEF vars, lease
    <1>4. ASSUME NEW w \in Workers, Enter(w)
          PROVE  Inv'
        BY <1>1, <1>4, EnterStep DEF Inv
    <1>5. ASSUME NEW w \in Workers, Release(w)
          PROVE  Inv'
        BY <1>1, <1>5, ReleaseStep DEF Inv
    <1> QED
        BY <1>2, <1>3, <1>4, <1>5, LeaseSame DEF Next, Inv

LEMMA InvInit ==
    ASSUME Init
    PROVE  Inv
    <1>1. TypeOK
        BY DEF Init, TypeOK, Phases
    <1>2. \A w \in Workers : lease[w] = NoLease
        BY DEF Init, lease
    <1>3. \A t : Table!HoldersOf(t) = {}
        BY <1>2 DEF Table!HoldersOf
    <1>4. Table!LeasedLocks = {}
        BY <1>2 DEF Table!LeasedLocks, Table!Holding
    <1> QED
        BY <1>1, <1>2, <1>3, <1>4, FS_EmptySet
           DEF Inv, BooksMatchLeases, LockExclusion, ParallelBound, Init, Table!Holding

\* The gate's variables keep their types in every reachable state.
THEOREM GateTypeCorrect == Spec => []TypeOK
    <1>1. Init => Inv
        BY InvInit
    <1>2. Inv /\ [Next]_vars => Inv'
        BY InvStep
    <1>3. Inv => TypeOK
        BY DEF Inv
    <1> QED
        BY <1>1, <1>2, <1>3, PTL DEF Spec

\* No two GateLeases alive at once hold the same OperationLockKey: the test
\* in acquire and the removal in Drop for GateLease keep the locks exclusive.
THEOREM GateLocksExclusive == Spec => []LockExclusion
    <1>1. Init => Inv
        BY InvInit
    <1>2. Inv /\ [Next]_vars => Inv'
        BY InvStep
    <1>3. Inv => LockExclusion
        BY DEF Inv
    <1> QED
        BY <1>1, <1>2, <1>3, PTL DEF Spec

\* The counters and the lock set never drift from the leases alive, and no
\* tool exceeds the limits its requests carry.
THEOREM GateBooksExact == Spec => [](BooksMatchLeases /\ ParallelBound)
    <1>1. Init => Inv
        BY InvInit
    <1>2. Inv /\ [Next]_vars => Inv'
        BY InvStep
    <1>3. Inv => BooksMatchLeases /\ ParallelBound
        BY DEF Inv
    <1> QED
        BY <1>1, <1>2, <1>3, PTL DEF Spec

-----------------------------------------------------------------------------
\* The gate implements the table of leases: acquire's locked block is Grant
\* and Drop for GateLease is GiveBack, every other step leaves the table alone.
THEOREM GateImplementsTable == Spec => ImplementsLeaseTable
    <1>1. Init => Inv
        BY InvInit
    <1>2. Inv /\ [Next]_vars => Inv'
        BY InvStep
    <1>3. Init => Table!LTInit
        BY DEF Init, Table!LTInit, lease
    <1>4. ASSUME Inv, [Next]_vars
          PROVE  [Table!LTNext]_lease
        <2>1. ASSUME NEW w \in Workers, Enter(w)
              PROVE  Table!LTNext
            <3>1. /\ request[w] \in Requests
                  /\ lease[w] = NoLease
                  /\ lease' = [lease EXCEPT ![w] = request[w]]
                BY <1>4, <2>1, LeaseEnter DEF Inv
            <3>2. request[w].tool_id \in Tools
                BY <3>1, RequestsAssumption
            <3>3. Table!Grantable(request[w])
                <4>1. /\ active_by_tool[request[w].tool_id] < Table!Limit(request[w])
                      /\ request[w].locks \cap held_locks = {}
                    BY <2>1 DEF Enter, CanEnter
                <4>2. /\ active_by_tool[request[w].tool_id]
                            = Cardinality(Table!HoldersOf(request[w].tool_id))
                      /\ held_locks = Table!LeasedLocks
                    BY <1>4, <3>2 DEF Inv, BooksMatchLeases
                <4> QED
                    BY <4>1, <4>2 DEF Table!Grantable, Cardinality, Table!Cardinality
            <3>4. Table!Grant(w, request[w])
                BY <3>1, <3>3 DEF Table!Grant, Table!Holding
            <3> QED
                BY <2>1, <3>1, <3>4, Zenon DEF Table!LTNext
        <2>2. ASSUME NEW w \in Workers, Release(w)
              PROVE  Table!LTNext
            <3>1. /\ request[w] \in Requests
                  /\ lease[w] = request[w]
                  /\ lease' = [lease EXCEPT ![w] = NoLease]
                BY <1>4, <2>2, LeaseRelease DEF Inv
            <3>2. Table!GiveBack(w)
                BY <3>1, NoLeaseAssumption DEF Table!GiveBack, Table!Holding
            <3> QED
                BY <3>2 DEF Table!LTNext
        <2>3. CASE UNCHANGED vars
            BY <2>3 DEF vars, lease
        <2> QED
            BY <1>4, <2>1, <2>2, <2>3, LeaseSame DEF Next, Inv
    <1> QED
        BY <1>1, <1>2, <1>3, <1>4, PTL DEF Spec, ImplementsLeaseTable, Table!LTSpec
=============================================================================
