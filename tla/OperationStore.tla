----------------------------- MODULE OperationStore -----------------------------
(***************************************************************************)
(* OperationStore of apps/star-controller/src/operation_store.rs under a   *)
(* client that calls its methods in any order: the records in memory, the  *)
(* idempotency table, and the file operations.v1.json they are written to  *)
(* after every change.  A write may fail before the rename (the file keeps *)
(* its old contents) or after it (the DACL call), and the controller may   *)
(* crash between any two calls; what memory holds is then lost and load    *)
(* recovers from the file.                                                 *)
(***************************************************************************)
EXTENDS OperationRecord, Naturals

CONSTANTS Ops,          \* operation ids, never issued twice
          Keys,         \* scoped idempotency keys
          NoKey,        \* an invocation without a key
          None,         \* no record
          MaxFailures,  \* how many writes fail in a behaviour
          MaxLive       \* how many records memory holds at once

ASSUME StoreAssumption ==
    /\ NoKey \notin Keys
    /\ None \notin Snapshots
    /\ None \notin [operation_id : Ops, invocation_hash : Invocations]
    /\ MaxFailures \in Nat /\ MaxLive \in Nat

VARIABLES operations,   \* file.operations in memory
          idempotency,  \* file.idempotency in memory
          disk,         \* the file
          issued,       \* ids OperationId::new has returned
          up,           \* the controller has the store open
          failures      \* writes that have failed so far

vars == <<operations, idempotency, disk, issued, up, failures>>

IdempotencyRecords == [operation_id : Ops, invocation_hash : Invocations]
OperationTables == [Ops -> Snapshots \cup {None}]
KeyTables == [Keys -> IdempotencyRecords \cup {None}]

Live == {o \in Ops : operations[o] # None}

Empty == [operations  |-> [o \in Ops |-> None],
          idempotency |-> [k \in Keys |-> None]]

Init == /\ operations = Empty.operations
        /\ idempotency = Empty.idempotency
        /\ disk = Empty
        /\ issued = {}
        /\ up = TRUE
        /\ failures = 0

\* How a write of the file can end: replaced, not replaced, or replaced but
\* reported as failed.
WriteResults == {"written", "lost", "dacl"}

\* Faulty variant of Persist: the file is truncated before it is rewritten.
PersistInPlace(ops, idem, p) ==
    /\ disk' = IF p = "lost" THEN Empty ELSE [operations |-> ops, idempotency |-> idem]
    /\ failures' = failures + (IF p = "written" THEN 0 ELSE 1)
    /\ failures' <= MaxFailures

\* fn persist: temporary file, sync, rename, DACL.
Persist(ops, idem, p) ==
    /\ disk' = IF p = "lost" THEN disk ELSE [operations |-> ops, idempotency |-> idem]
    /\ failures' = failures + (IF p = "written" THEN 0 ELSE 1)
    /\ failures' <= MaxFailures

\* A method that rewrites one record and persists.
Rewrite(o, snapshot, p) ==
    /\ operations' = [operations EXCEPT ![o] = snapshot]
    /\ Persist(operations', idempotency, p)
    /\ UNCHANGED <<idempotency, issued, up>>

-----------------------------------------------------------------------------
\* Faulty variant of Expired: retention ends when it begins.
ExpiredAtOnce == {o \in Live : operations[o].expires_at # "none"}

\* fn prune_expired
Expired == {o \in Live : operations[o].expires_at = "past"}

\* Faulty variant of KeptKeys: the keys of pruned Operations stay behind.
KeptKeysAll == idempotency

KeptRecords == [o \in Ops |-> IF o \in Expired THEN None ELSE operations[o]]
KeptKeys == [k \in Keys |-> IF /\ idempotency[k] # None
                               /\ idempotency[k].operation_id \in Expired
                            THEN None ELSE idempotency[k]]

\* create with a key that is already bound: the stored snapshot, or
\* IdempotencyConflict when the invocation differs.  Memory is pruned, the
\* file is not written.
CreateReplay(k) ==
    /\ up
    /\ k \in Keys /\ KeptKeys[k] # None
    /\ operations' = KeptRecords
    /\ idempotency' = KeptKeys
    /\ UNCHANGED <<disk, issued, up, failures>>

\* The idempotency table after create has bound key k to Operation o.
Bound(k, o, i) ==
    IF k = NoKey THEN KeptKeys
    ELSE [KeptKeys EXCEPT ![k] = [operation_id |-> o, invocation_hash |-> i]]

\* create without a bound key: a fresh record, bound and written.
CreateFresh(k, i, c, o, p) ==
    /\ up
    /\ o \notin issued
    /\ k # NoKey => KeptKeys[k] = None
    /\ Cardinality(Live \ Expired) < MaxLive
    /\ operations' = [KeptRecords EXCEPT ![o] = NewOperation(i, c)]
    /\ idempotency' = Bound(k, o, i)
    /\ issued' = issued \cup {o}
    /\ Persist(operations', idempotency', p)
    /\ UNCHANGED up

Transition(o, next, p) ==
    /\ up /\ o \in Live
    /\ CanTransition(operations[o], next)
    /\ Rewrite(o, Transitioned(operations[o], next), p)

CompleteOperation(o, r, p) ==
    /\ up /\ o \in Live
    /\ Complete(operations[o], r) # operations[o]
    /\ Rewrite(o, Complete(operations[o], r), p)

RequestCancel(o, p) ==
    /\ up /\ o \in Live
    /\ CancelIntent(operations[o]) # operations[o]
    /\ Rewrite(o, CancelIntent(operations[o]), p)

RecordForcedShutdown(o, p) ==
    /\ up /\ o \in Live
    /\ ~Terminal(operations[o])
    /\ Rewrite(o, ForcedShutdown(operations[o]), p)

\* Only the event list grows, but the whole file is written again.
RecordProgress(o, p) ==
    /\ up /\ o \in Live
    /\ ~Terminal(operations[o])
    /\ Rewrite(o, operations[o], p)

RecordProcessStarted(o, p) ==
    /\ up /\ o \in Live
    /\ CanRecordStart(operations[o])
    /\ Rewrite(o, ProcessStarted(operations[o]), p)

RecordProcessFinished(o, p) ==
    /\ up /\ o \in Live
    /\ ~operations[o].process_ended
    /\ Rewrite(o, ProcessFinished(operations[o]), p)

-----------------------------------------------------------------------------
\* 24 hours pass for a sealed record: the clock is the same in memory and in
\* the file, whose records carry the same expires_at.
Past(table, o) ==
    IF table[o] # None /\ table[o].expires_at = "ahead"
    THEN [table EXCEPT ![o].expires_at = "past"] ELSE table

RetentionPasses(o) ==
    /\ \/ operations[o] # None /\ operations[o].expires_at = "ahead"
       \/ disk.operations[o] # None /\ disk.operations[o].expires_at = "ahead"
    /\ operations' = Past(operations, o)
    /\ disk' = [disk EXCEPT !.operations = Past(@, o)]
    /\ UNCHANGED <<idempotency, issued, up, failures>>

\* The controller stops without warning: memory is gone.
Crash ==
    /\ up
    /\ up' = FALSE
    /\ operations' = Empty.operations
    /\ idempotency' = Empty.idempotency
    /\ UNCHANGED <<disk, issued, failures>>

RecoveredOperations ==
    [o \in Ops |-> IF disk.operations[o] = None THEN None
                   ELSE Recovered(disk.operations[o])]

\* load succeeds: open records are sealed and, if there were any, written.
Load ==
    /\ ~up
    /\ up' = TRUE
    /\ operations' = RecoveredOperations
    /\ idempotency' = disk.idempotency
    /\ disk' = [disk EXCEPT !.operations = RecoveredOperations]
    /\ UNCHANGED <<issued, failures>>

\* load fails because the recovered file cannot be written: not started.
LoadFails(p) ==
    /\ ~up
    /\ p # "written"
    /\ RecoveredOperations # disk.operations
    /\ Persist(RecoveredOperations, disk.idempotency, p)
    /\ UNCHANGED <<operations, idempotency, issued, up>>

Next ==
    \/ \E k \in Keys : CreateReplay(k)
    \/ \E k \in Keys \cup {NoKey}, i \in Invocations, c \in BOOLEAN, o \in Ops,
          p \in WriteResults : CreateFresh(k, i, c, o, p)
    \/ \E o \in Ops, p \in WriteResults :
          \/ \E next \in Statuses : Transition(o, next, p)
          \/ \E r \in Outcomes : CompleteOperation(o, r, p)
          \/ RequestCancel(o, p)
          \/ RecordForcedShutdown(o, p)
          \/ RecordProgress(o, p)
          \/ RecordProcessStarted(o, p)
          \/ RecordProcessFinished(o, p)
    \/ \E o \in Ops : RetentionPasses(o)
    \/ Crash
    \/ Load
    \/ \E p \in WriteResults : LoadFails(p)

Spec == Init /\ [][Next]_vars

-----------------------------------------------------------------------------
(* Properties *)

\* A snapshot carries an expiry exactly when its status is terminal: an open
\* Operation can never be pruned, a sealed one always will be.
WellFormed(s) == s.expires_at # "none" <=> Terminal(s)

\* Every variable has its type, in memory and in the file, and retention runs
\* for sealed records only.
TypeOK ==
    /\ operations \in OperationTables
    /\ idempotency \in KeyTables
    /\ disk \in [operations : OperationTables, idempotency : KeyTables]
    /\ issued \subseteq Ops
    /\ up \in BOOLEAN
    /\ failures \in 0 .. MaxFailures
    /\ \A o \in Ops : /\ operations[o] # None => WellFormed(operations[o])
                     /\ disk.operations[o] # None => WellFormed(disk.operations[o])

\* A record that says "never started" has no start evidence.
ClaimIsTrue(s) == s.error \in NotStartedErrors => ~s.process_id

\* No record, in memory or in the file, says that the Operation ended before
\* its process was started while it carries the evidence of that start: not
\* after a cancel, a forced shutdown, a crash and recovery, or a failed write.
NeverStartedIsTrue ==
    \A o \in Ops : /\ operations[o] # None => ClaimIsTrue(operations[o])
                  /\ disk.operations[o] # None => ClaimIsTrue(disk.operations[o])

\* A key leads to a record of the invocation it was bound with.
KeysResolve(ops, idem) ==
    \A k \in Keys : idem[k] # None =>
        /\ ops[idem[k].operation_id] # None
        /\ ops[idem[k].operation_id].invocation = idem[k].invocation_hash

\* A bound idempotency key always resolves: create never answers Corrupt and
\* never hands out a record of another invocation, before or after a restart.
IdempotencyResolves ==
    KeysResolve(operations, idempotency) /\ KeysResolve(disk.operations, disk.idempotency)

\* What the outside may rely on once an Operation is sealed.
Verdict(s) == <<s.status, s.result, s.error, s.cancel_effective>>

\* A sealed record stays sealed with the same verdict until it is pruned
\* after its retention; late answers, cancels and process exits only add
\* evidence.
TerminalIsFinal ==
    [][up /\ up' => \A o \in Live : Terminal(operations[o]) =>
            \/ operations'[o] = None /\ operations[o].expires_at = "past"
            \/ operations'[o] # None /\ Verdict(operations'[o]) = Verdict(operations[o])]_vars

\* A verdict that reached the file survives every later write, failed write,
\* crash and recovery until its retention is over.
DurableVerdictIsFinal ==
    [][\A o \in Ops : disk.operations[o] # None /\ Terminal(disk.operations[o]) =>
            \/ disk'.operations[o] = None /\ disk.operations[o].expires_at = "past"
            \/ /\ disk'.operations[o] # None
               /\ Verdict(disk'.operations[o]) = Verdict(disk.operations[o])]_vars

\* What memory holds for a record the file holds sealed: the same verdict and
\* retention, or nothing once the retention is over.
Agrees(d, m) ==
    d # None /\ Terminal(d) =>
        \/ m = None /\ d.expires_at = "past"
        \/ m # None /\ Verdict(m) = Verdict(d) /\ m.expires_at = d.expires_at

\* Memory never contradicts a verdict that is in the file, although a failed
\* write leaves the file behind and a replay prunes memory only.
MemoryAgreesWithFile == up => \A o \in Ops : Agrees(disk.operations[o], operations[o])

\* A key stays bound to the Operation it was bound to until that Operation's
\* retention is over, so a replay in between cannot start a second one.
KeyHeldUntilExpiry ==
    [][up /\ up' => \A k \in Keys : idempotency[k] # None /\ idempotency'[k] # idempotency[k] =>
            operations[idempotency[k].operation_id].expires_at = "past"]_vars
=============================================================================
