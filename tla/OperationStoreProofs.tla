-------------------------- MODULE OperationStoreProofs --------------------------
(***************************************************************************)
(* Proofs about OperationStore for any number of Operations, keys and      *)
(* failed writes.  Inv is the inductive invariant: besides the properties  *)
(* it says what each record looks like while it is open, that an id not    *)
(* yet issued has no record anywhere, and that memory agrees with every    *)
(* verdict in the file.                                                    *)
(***************************************************************************)
EXTENDS OperationStore, TLAPS

\* A record is well formed, carries no error while it is open, and has start
\* evidence only if its status says so: what makes "before start" claims true.
RecordOK(s) ==
    /\ s \in Snapshots
    /\ WellFormed(s)
    /\ ClaimIsTrue(s)
    /\ ~Terminal(s) => s.error = "none"
    /\ s.status \in BeforeStart => ~s.process_id

\* What a method may make of record s: verdict, retention and identity stay.
Evolves(s, t) ==
    /\ RecordOK(t)
    /\ t.invocation = s.invocation
    /\ Terminal(s) => Verdict(t) = Verdict(s) /\ t.expires_at = s.expires_at

TableOK(ops) == /\ ops \in OperationTables
                /\ \A o \in Ops : ops[o] # None => RecordOK(ops[o])

Unissued == \A o \in Ops : o \notin issued => operations[o] = None /\ disk.operations[o] = None

\* The inductive invariant.
Inv ==
    /\ TableOK(operations)
    /\ TableOK(disk.operations)
    /\ idempotency \in KeyTables
    /\ disk \in [operations : OperationTables, idempotency : KeyTables]
    /\ issued \subseteq Ops
    /\ up \in BOOLEAN
    /\ failures \in 0 .. MaxFailures
    /\ Unissued
    /\ IdempotencyResolves
    /\ MemoryAgreesWithFile

-----------------------------------------------------------------------------
(* The methods, record by record *)

\* A fresh record is in order.
LEMMA NewRecord ==
    ASSUME NEW i \in Invocations, NEW c \in BOOLEAN
    PROVE  RecordOK(NewOperation(i, c)) /\ NewOperation(i, c).invocation = i
BY DEF RecordOK, NewOperation, Snapshots, WellFormed, ClaimIsTrue, Terminal, Statuses,
       BeforeStart, AfterStart, TerminalStatuses, ErrorCodes, NotStartedErrors

\* A permitted transition of an open record.
LEMMA TransitionEvolves ==
    ASSUME NEW s, RecordOK(s), NEW next \in Statuses, CanTransition(s, next)
    PROVE  Evolves(s, Transitioned(s, next))
<1>1. next \in BeforeStart => s.status \in BeforeStart
  BY DEF CanTransition, ValidTransitions, BeforeStart
<1>2. ~Terminal(s)
  BY DEF CanTransition
<1>3. CASE next \in TerminalStatuses
  BY <1>1, <1>2, <1>3 DEF Evolves, RecordOK, Transitioned, Seal, Snapshots, WellFormed,
     ClaimIsTrue, Terminal, Statuses, BeforeStart, AfterStart, TerminalStatuses, ErrorCodes,
     NotStartedErrors
<1>4. CASE next \notin TerminalStatuses
  BY <1>1, <1>2, <1>4 DEF Evolves, RecordOK, Transitioned, Snapshots, WellFormed,
     ClaimIsTrue, Terminal, Statuses, BeforeStart, AfterStart, TerminalStatuses, ErrorCodes,
     NotStartedErrors
<1> QED BY <1>3, <1>4

\* complete seals an open record or adds evidence to a sealed one.
LEMMA CompleteEvolves ==
    ASSUME NEW s, RecordOK(s), NEW r \in Outcomes
    PROVE  Evolves(s, Complete(s, r))
<1>1. CASE Terminal(s)
  BY <1>1 DEF Evolves, RecordOK, Complete, LateEvidence, Snapshots, WellFormed, ClaimIsTrue,
     Terminal, Verdict, Outcomes
<1>2. CASE ~Terminal(s)
  BY <1>2 DEF Evolves, RecordOK, Complete, Completed, Seal, Snapshots, WellFormed, ClaimIsTrue,
     Terminal, Outcomes, Statuses, BeforeStart, AfterStart, TerminalStatuses, ErrorCodes,
     NotStartedErrors
<1> QED BY <1>1, <1>2

\* request_cancel seals only what has not left the queue.
LEMMA CancelEvolves ==
    ASSUME NEW s, RecordOK(s)
    PROVE  Evolves(s, CancelIntent(s))
<1>1. CASE Terminal(s) \/ s.cancel_requested
  BY <1>1 DEF Evolves, CancelIntent, RecordOK
<1>2. CASE ~Terminal(s) /\ ~s.cancel_requested
  BY <1>2 DEF Evolves, CancelIntent, Cancellation, RecordOK, Seal, Snapshots, WellFormed,
     ClaimIsTrue, Terminal, Statuses, BeforeStart, AfterStart, TerminalStatuses, ErrorCodes,
     NotStartedErrors
<1> QED BY <1>1, <1>2

\* record_forced_shutdown claims "before start" only without start evidence.
LEMMA ForcedShutdownEvolves ==
    ASSUME NEW s, RecordOK(s)
    PROVE  Evolves(s, ForcedShutdown(s))
<1>1. CASE Terminal(s)
  BY <1>1 DEF Evolves, ForcedShutdown, RecordOK
<1>2. CASE ~Terminal(s)
  BY <1>2 DEF Evolves, ForcedShutdown, RecordOK, Seal, Snapshots, WellFormed,
     ClaimIsTrue, Terminal, Statuses, BeforeStart, AfterStart, TerminalStatuses, ErrorCodes,
     NotStartedErrors
<1> QED BY <1>1, <1>2

\* record_process_started touches open records only.
LEMMA StartEvolves ==
    ASSUME NEW s, RecordOK(s), CanRecordStart(s)
    PROVE  Evolves(s, ProcessStarted(s))
BY DEF Evolves, CanRecordStart, ProcessStarted, RecordOK, Snapshots, WellFormed, ClaimIsTrue,
       Terminal, Statuses, BeforeStart, AfterStart, TerminalStatuses, ErrorCodes,
       NotStartedErrors

\* record_process_finished adds evidence.
LEMMA FinishEvolves ==
    ASSUME NEW s, RecordOK(s)
    PROVE  Evolves(s, ProcessFinished(s))
BY DEF Evolves, ProcessFinished, RecordOK, Snapshots, WellFormed, ClaimIsTrue, Terminal, Verdict

\* load seals what was open and keeps the rest.
LEMMA RecoveredEvolves ==
    ASSUME NEW s, RecordOK(s)
    PROVE  Evolves(s, Recovered(s))
<1>1. CASE Terminal(s)
  BY <1>1 DEF Evolves, Recovered, RecordOK
<1>2. CASE ~Terminal(s)
  BY <1>2 DEF Evolves, Recovered, RecordOK, Seal, Snapshots, WellFormed,
     ClaimIsTrue, Terminal, Statuses, BeforeStart, AfterStart, TerminalStatuses, ErrorCodes,
     NotStartedErrors
<1> QED BY <1>1, <1>2

-----------------------------------------------------------------------------
(* The file and memory *)

\* A write leaves the file as it was or makes it equal to memory.
LEMMA PersistCases ==
    ASSUME NEW ops, NEW idem, NEW p \in WriteResults, Inv, Persist(ops, idem, p)
    PROVE  /\ disk' = disk \/ disk' = [operations |-> ops, idempotency |-> idem]
           /\ failures' \in 0 .. MaxFailures
BY StoreAssumption DEF Persist, Inv, WriteResults

\* Replacing one record by what a method makes of it keeps the invariant,
\* whether the write succeeds or not.
LEMMA RewriteKeepsInv ==
    ASSUME Inv, NEW o \in Ops, operations[o] # None, NEW t, Evolves(operations[o], t),
           NEW p \in WriteResults, Rewrite(o, t, p)
    PROVE  Inv'
<1>1. t \in Snapshots /\ t # None /\ RecordOK(t)
  BY StoreAssumption DEF Evolves, RecordOK
<1>2. operations' = [operations EXCEPT ![o] = t] /\ UNCHANGED <<idempotency, issued, up>>
  BY DEF Rewrite
<1>3. operations' \in OperationTables
  BY <1>1, <1>2 DEF Inv, TableOK, OperationTables
<1>4. \A q \in Ops : operations'[q] = IF q = o THEN t ELSE operations[q]
  BY <1>2 DEF Inv, TableOK, OperationTables
<1>5. TableOK(operations')
  BY <1>1, <1>3, <1>4 DEF Inv, TableOK
<1>6. KeysResolve(operations', idempotency')
  <2> SUFFICES ASSUME NEW k \in Keys, idempotency[k] # None
               PROVE  /\ operations'[idempotency[k].operation_id] # None
                      /\ operations'[idempotency[k].operation_id].invocation
                           = idempotency[k].invocation_hash
    BY <1>2 DEF KeysResolve
  <2>1. idempotency[k].operation_id \in Ops
    BY DEF Inv, KeyTables, IdempotencyRecords
  <2>2. /\ operations[idempotency[k].operation_id] # None
        /\ operations[idempotency[k].operation_id].invocation = idempotency[k].invocation_hash
    BY DEF Inv, IdempotencyResolves, KeysResolve
  <2> QED BY <1>1, <1>4, <2>1, <2>2 DEF Evolves
<1>7. \/ disk' = disk
      \/ disk' = [operations |-> operations', idempotency |-> idempotency']
  BY <1>2, PersistCases DEF Rewrite
<1>8. failures' \in 0 .. MaxFailures
  BY PersistCases DEF Rewrite
<1>9. \A q \in Ops : Agrees(operations'[q], operations'[q])
  BY DEF Agrees
<1>10. up => \A q \in Ops : Agrees(disk.operations[q], operations'[q])
  BY <1>1, <1>4 DEF Inv, MemoryAgreesWithFile, Agrees, Evolves, Verdict, Terminal
<1>11. \A q \in Ops : q \notin issued => operations'[q] = None
  BY <1>4 DEF Inv, Unissued
<1>12. CASE disk' = disk
  BY <1>2, <1>5, <1>6, <1>8, <1>10, <1>11, <1>12
     DEF Inv, Unissued, IdempotencyResolves, MemoryAgreesWithFile
<1>13. CASE disk' = [operations |-> operations', idempotency |-> idempotency']
  BY <1>2, <1>3, <1>5, <1>6, <1>8, <1>9, <1>11, <1>13
     DEF Inv, Unissued, IdempotencyResolves, MemoryAgreesWithFile
<1> QED BY <1>7, <1>12, <1>13

\* Pruning memory keeps records and keys in order.
LEMMA PruneKeeps ==
    ASSUME Inv
    PROVE  /\ TableOK(KeptRecords)
           /\ KeptKeys \in KeyTables
           /\ KeysResolve(KeptRecords, KeptKeys)
           /\ up => \A o \in Ops : Agrees(disk.operations[o], KeptRecords[o])
<1>1. \A o \in Ops : KeptRecords[o] = IF o \in Expired THEN None ELSE operations[o]
  BY DEF KeptRecords
<1>2. KeptRecords \in OperationTables
  BY DEF KeptRecords, Inv, TableOK, OperationTables
<1>3. TableOK(KeptRecords)
  BY <1>1, <1>2 DEF TableOK, Inv
<1>4. KeptKeys \in KeyTables
  BY DEF KeptKeys, KeyTables, Inv
<1>5. KeysResolve(KeptRecords, KeptKeys)
  <2> SUFFICES ASSUME NEW k \in Keys, KeptKeys[k] # None
               PROVE  /\ KeptRecords[KeptKeys[k].operation_id] # None
                      /\ KeptRecords[KeptKeys[k].operation_id].invocation
                           = KeptKeys[k].invocation_hash
    BY DEF KeysResolve
  <2>1. KeptKeys[k] = idempotency[k] /\ idempotency[k].operation_id \notin Expired
    BY DEF KeptKeys
  <2>2. idempotency[k].operation_id \in Ops
    BY <2>1 DEF Inv, KeyTables, IdempotencyRecords
  <2> QED BY <1>1, <2>1, <2>2 DEF Inv, IdempotencyResolves, KeysResolve
<1>6. up => \A o \in Ops : Agrees(disk.operations[o], KeptRecords[o])
  BY <1>1 DEF Inv, MemoryAgreesWithFile, Agrees, Expired, Live
<1> QED BY <1>3, <1>4, <1>5, <1>6

-----------------------------------------------------------------------------
(* Every step keeps the invariant *)

\* The empty store satisfies the invariant.
LEMMA InitInv == Init => Inv
<1> SUFFICES ASSUME Init PROVE Inv
  OBVIOUS
<1>1. TableOK(operations) /\ TableOK(disk.operations)
  BY DEF Init, Empty, TableOK, OperationTables
<1>2. idempotency \in KeyTables /\ disk \in [operations : OperationTables, idempotency : KeyTables]
  BY DEF Init, Empty, KeyTables, OperationTables
<1>3. IdempotencyResolves
  BY DEF Init, Empty, IdempotencyResolves, KeysResolve
<1> QED BY <1>1, <1>2, <1>3, StoreAssumption
     DEF Inv, Init, Empty, Unissued, MemoryAgreesWithFile, Agrees

\* A replay prunes memory and leaves the file alone.
LEMMA CreateReplayKeepsInv ==
    ASSUME Inv, NEW k \in Keys, CreateReplay(k)
    PROVE  Inv'
<1>1. /\ operations' = KeptRecords /\ idempotency' = KeptKeys
      /\ UNCHANGED <<disk, issued, up, failures>>
  BY DEF CreateReplay
<1>2. \A o \in Ops : KeptRecords[o] # None => KeptRecords[o] = operations[o]
  BY DEF KeptRecords
<1> QED BY <1>1, <1>2, PruneKeeps
     DEF Inv, Unissued, IdempotencyResolves, MemoryAgreesWithFile

\* A fresh Operation: the id is new, so no key and no file record knows it.
LEMMA CreateFreshKeepsInv ==
    ASSUME Inv, NEW k \in Keys \cup {NoKey}, NEW i \in Invocations, NEW c \in BOOLEAN,
           NEW o \in Ops, NEW p \in WriteResults, CreateFresh(k, i, c, o, p)
    PROVE  Inv'
<1> DEFINE fresh == NewOperation(i, c)
<1>1. /\ operations' = [KeptRecords EXCEPT ![o] = fresh]
      /\ idempotency' = Bound(k, o, i)
      /\ issued' = issued \cup {o}
      /\ up /\ UNCHANGED up
      /\ o \notin issued
  BY DEF CreateFresh
<1>2. RecordOK(fresh) /\ fresh.invocation = i /\ fresh \in Snapshots /\ fresh # None
  BY NewRecord, StoreAssumption DEF RecordOK
<1> HIDE DEF fresh
<1>3. operations' \in OperationTables
  BY <1>1, <1>2, PruneKeeps DEF TableOK, OperationTables
<1>4. \A q \in Ops : operations'[q] = IF q = o THEN fresh ELSE KeptRecords[q]
  BY <1>1, PruneKeeps DEF TableOK, OperationTables
<1>5. TableOK(operations')
  BY <1>2, <1>3, <1>4, PruneKeeps DEF TableOK
<1>6. KeptRecords[o] = None
  BY <1>1 DEF KeptRecords, Inv, Unissued
<1>7. idempotency' \in KeyTables
  <2>1. [operation_id |-> o, invocation_hash |-> i] \in IdempotencyRecords
    BY DEF IdempotencyRecords
  <2> QED BY <1>1, <2>1, PruneKeeps DEF Bound, KeyTables
<1>8. KeysResolve(operations', idempotency')
  <2> SUFFICES ASSUME NEW q \in Keys, idempotency'[q] # None
               PROVE  /\ operations'[idempotency'[q].operation_id] # None
                      /\ operations'[idempotency'[q].operation_id].invocation
                           = idempotency'[q].invocation_hash
    BY DEF KeysResolve
  <2>1. CASE q = k
    <3>1. idempotency'[q] = [operation_id |-> o, invocation_hash |-> i]
      BY <1>1, <2>1, PruneKeeps, StoreAssumption DEF Bound, KeyTables
    <3> QED BY <3>1, <1>2, <1>4
  <2>2. CASE q # k
    <3>1. idempotency'[q] = KeptKeys[q] /\ KeptKeys[q] # None
      BY <1>1, <2>2, PruneKeeps DEF Bound, KeyTables
    <3>2. KeptKeys[q].operation_id \in Ops
      BY <3>1, PruneKeeps DEF KeyTables, IdempotencyRecords
    <3>3. /\ KeptRecords[KeptKeys[q].operation_id] # None
          /\ KeptRecords[KeptKeys[q].operation_id].invocation = KeptKeys[q].invocation_hash
      BY <3>1, PruneKeeps DEF KeysResolve
    <3> QED BY <3>1, <3>2, <3>3, <1>4, <1>6
  <2> QED BY <2>1, <2>2
<1>9. \/ disk' = disk
      \/ disk' = [operations |-> operations', idempotency |-> idempotency']
  BY PersistCases DEF CreateFresh
<1>10. failures' \in 0 .. MaxFailures
  BY PersistCases DEF CreateFresh
<1>11. \A q \in Ops : q \notin issued' => operations'[q] = None /\ disk.operations[q] = None
  <2>1. \A q \in Ops : KeptRecords[q] # None => KeptRecords[q] = operations[q]
    BY DEF KeptRecords
  <2> QED BY <1>1, <1>4, <2>1 DEF Inv, Unissued
<1>12. \A q \in Ops : Agrees(disk.operations[q], operations'[q])
  <2>1. disk.operations[o] = None
    BY <1>1 DEF Inv, Unissued
  <2> QED BY <1>1, <1>4, <2>1, PruneKeeps DEF Agrees
<1>13. \A q \in Ops : Agrees(operations'[q], operations'[q])
  BY DEF Agrees
<1>14. issued' \subseteq Ops
  BY <1>1 DEF Inv
<1>15. CASE disk' = disk
  BY <1>1, <1>5, <1>7, <1>8, <1>10, <1>11, <1>12, <1>14, <1>15
     DEF Inv, Unissued, IdempotencyResolves, MemoryAgreesWithFile
<1>16. CASE disk' = [operations |-> operations', idempotency |-> idempotency']
  BY <1>1, <1>3, <1>5, <1>7, <1>8, <1>10, <1>11, <1>13, <1>14, <1>16
     DEF Inv, Unissued, IdempotencyResolves, MemoryAgreesWithFile
<1> QED BY <1>9, <1>15, <1>16

\* Time passing turns "ahead" into "past" on both sides at once.
LEMMA RetentionKeepsInv ==
    ASSUME Inv, NEW o \in Ops, RetentionPasses(o)
    PROVE  Inv'
<1>1. ASSUME NEW table, TableOK(table)
      PROVE  /\ TableOK(Past(table, o))
             /\ \A q \in Ops : q # o => Past(table, o)[q] = table[q]
             /\ table[o] = None <=> Past(table, o)[o] = None
             /\ table[o] # None =>
                  /\ Past(table, o)[o].invocation = table[o].invocation
                  /\ Verdict(Past(table, o)[o]) = Verdict(table[o])
                  /\ Past(table, o)[o].expires_at =
                       IF table[o].expires_at = "ahead" THEN "past" ELSE table[o].expires_at
  <2>1. CASE table[o] # None /\ table[o].expires_at = "ahead"
    <3> DEFINE t == [table[o] EXCEPT !.expires_at = "past"]
    <3>1. RecordOK(table[o])
      BY <1>1, <2>1 DEF TableOK
    <3>2. /\ RecordOK(t) /\ t.invocation = table[o].invocation
          /\ Verdict(t) = Verdict(table[o]) /\ t.expires_at = "past"
      BY <2>1, <3>1 DEF RecordOK, Snapshots, WellFormed, ClaimIsTrue, Terminal, Verdict
    <3>3. Past(table, o) = [table EXCEPT ![o] = t]
      BY <2>1 DEF Past
    <3>4. t # None /\ t \in Snapshots
      BY <3>2, StoreAssumption DEF RecordOK
    <3> HIDE DEF t
    <3>5. [table EXCEPT ![o] = t] \in OperationTables
      BY <1>1, <3>4 DEF TableOK, OperationTables
    <3>6. \A q \in Ops : [table EXCEPT ![o] = t][q] = IF q = o THEN t ELSE table[q]
      BY <1>1 DEF TableOK, OperationTables
    <3>7. TableOK([table EXCEPT ![o] = t])
      BY <1>1, <3>2, <3>5, <3>6 DEF TableOK
    <3> QED BY <2>1, <3>2, <3>3, <3>4, <3>6, <3>7
  <2>2. CASE ~(table[o] # None /\ table[o].expires_at = "ahead")
    BY <1>1, <2>2 DEF Past
  <2> QED BY <2>1, <2>2
<1>2. TableOK(operations) /\ TableOK(disk.operations)
  BY DEF Inv
<1>3. /\ operations' = Past(operations, o)
      /\ disk' = [disk EXCEPT !.operations = Past(disk.operations, o)]
      /\ UNCHANGED <<idempotency, issued, up, failures>>
  BY DEF RetentionPasses
<1>4. disk'.operations = Past(disk.operations, o) /\ disk'.idempotency = disk.idempotency
  BY <1>3 DEF Inv
<1>5. TableOK(operations') /\ TableOK(disk'.operations)
  BY <1>1, <1>2, <1>3, <1>4
<1>6. disk' \in [operations : OperationTables, idempotency : KeyTables]
  BY <1>3, <1>4, <1>5 DEF Inv, TableOK
<1>7. ASSUME NEW table, TableOK(table), NEW idem, idem \in KeyTables, KeysResolve(table, idem)
      PROVE  KeysResolve(Past(table, o), idem)
  <2> SUFFICES ASSUME NEW k \in Keys, idem[k] # None
               PROVE  /\ Past(table, o)[idem[k].operation_id] # None
                      /\ Past(table, o)[idem[k].operation_id].invocation = idem[k].invocation_hash
    BY DEF KeysResolve
  <2>1. idem[k].operation_id \in Ops
    BY <1>7 DEF KeyTables, IdempotencyRecords
  <2>2. /\ table[idem[k].operation_id] # None
        /\ table[idem[k].operation_id].invocation = idem[k].invocation_hash
    BY <1>7 DEF KeysResolve
  <2> QED BY <1>1, <1>7, <2>1, <2>2
<1>8. KeysResolve(operations', idempotency') /\ KeysResolve(disk'.operations, disk'.idempotency)
  BY <1>2, <1>3, <1>4, <1>7 DEF Inv, IdempotencyResolves
<1>9. \A q \in Ops : q \notin issued => operations'[q] = None /\ disk'.operations[q] = None
  BY <1>1, <1>2, <1>3, <1>4 DEF Inv, Unissued
<1>10. up => \A q \in Ops : Agrees(disk'.operations[q], operations'[q])
  <2> SUFFICES ASSUME up, NEW q \in Ops PROVE Agrees(disk'.operations[q], operations'[q])
    OBVIOUS
  <2>1. Agrees(disk.operations[q], operations[q])
    BY DEF Inv, MemoryAgreesWithFile
  <2>2. CASE q # o
    BY <1>1, <1>2, <1>3, <1>4, <2>1, <2>2
  <2>3. CASE q = o
    BY <1>1, <1>2, <1>3, <1>4, <2>1, <2>3 DEF Agrees, Verdict, Terminal
  <2> QED BY <2>2, <2>3
<1> QED BY <1>3, <1>5, <1>6, <1>8, <1>9, <1>10
     DEF Inv, Unissued, IdempotencyResolves, MemoryAgreesWithFile

\* A crash loses memory; the file and what is issued stay.
LEMMA CrashKeepsInv == Inv /\ Crash => Inv'
<1> SUFFICES ASSUME Inv, Crash PROVE Inv'
  OBVIOUS
<1>1. TableOK(operations') /\ idempotency' \in KeyTables
  BY DEF Crash, Empty, TableOK, OperationTables, KeyTables
<1>2. KeysResolve(operations', idempotency')
  BY DEF Crash, Empty, KeysResolve
<1> QED BY <1>1, <1>2
     DEF Crash, Empty, Inv, Unissued, IdempotencyResolves, MemoryAgreesWithFile

\* What load makes of the records of the file.
LEMMA RecoveredTable ==
    ASSUME Inv
    PROVE  /\ TableOK(RecoveredOperations)
           /\ KeysResolve(RecoveredOperations, disk.idempotency)
           /\ \A o \in Ops : /\ disk.operations[o] = None <=> RecoveredOperations[o] = None
                             /\ disk.operations[o] # None =>
                                  Evolves(disk.operations[o], RecoveredOperations[o])
<1>1. \A o \in Ops : disk.operations[o] # None =>
        /\ RecordOK(disk.operations[o])
        /\ Evolves(disk.operations[o], Recovered(disk.operations[o]))
        /\ Recovered(disk.operations[o]) \in Snapshots
        /\ Recovered(disk.operations[o]) # None
  BY RecoveredEvolves, StoreAssumption DEF Inv, TableOK, Evolves, RecordOK
<1>2. \A o \in Ops : RecoveredOperations[o] = IF disk.operations[o] = None THEN None
                                             ELSE Recovered(disk.operations[o])
  BY DEF RecoveredOperations
<1>3. RecoveredOperations \in OperationTables
  BY <1>1 DEF RecoveredOperations, OperationTables
<1>4. TableOK(RecoveredOperations)
  BY <1>1, <1>2, <1>3 DEF TableOK, Evolves
<1>5. KeysResolve(RecoveredOperations, disk.idempotency)
  <2> SUFFICES ASSUME NEW k \in Keys, disk.idempotency[k] # None
               PROVE  /\ RecoveredOperations[disk.idempotency[k].operation_id] # None
                      /\ RecoveredOperations[disk.idempotency[k].operation_id].invocation
                           = disk.idempotency[k].invocation_hash
    BY DEF KeysResolve
  <2>1. disk.idempotency[k].operation_id \in Ops
    BY DEF Inv, KeyTables, IdempotencyRecords
  <2>2. /\ disk.operations[disk.idempotency[k].operation_id] # None
        /\ disk.operations[disk.idempotency[k].operation_id].invocation
             = disk.idempotency[k].invocation_hash
    BY DEF Inv, IdempotencyResolves, KeysResolve
  <2> QED BY <1>1, <1>2, <2>1, <2>2 DEF Evolves
<1> QED BY <1>1, <1>2, <1>4, <1>5

\* After load, memory and file are the recovered table.
LEMMA LoadKeepsInv == Inv /\ Load => Inv'
<1> SUFFICES ASSUME Inv, Load PROVE Inv'
  OBVIOUS
<1>1. /\ operations' = RecoveredOperations /\ idempotency' = disk.idempotency
      /\ disk' = [disk EXCEPT !.operations = RecoveredOperations]
      /\ up' = TRUE /\ UNCHANGED <<issued, failures>>
  BY DEF Load
<1>2. disk'.operations = RecoveredOperations /\ disk'.idempotency = disk.idempotency
  BY <1>1 DEF Inv
<1>3. disk' \in [operations : OperationTables, idempotency : KeyTables]
      /\ idempotency' \in KeyTables
  BY <1>1, RecoveredTable DEF Inv, TableOK
<1>4. \A o \in Ops : Agrees(disk'.operations[o], operations'[o])
  BY <1>1, <1>2 DEF Agrees
<1>5. Unissued'
  BY <1>1, <1>2, RecoveredTable DEF Inv, Unissued
<1> QED BY <1>1, <1>2, <1>3, <1>4, <1>5, RecoveredTable
     DEF Inv, IdempotencyResolves, MemoryAgreesWithFile

\* A load that cannot write leaves the store closed and the file in order.
LEMMA LoadFailsKeepsInv ==
    ASSUME Inv, NEW p \in WriteResults, LoadFails(p)
    PROVE  Inv'
<1>1. ~up /\ UNCHANGED <<operations, idempotency, issued, up>>
  BY DEF LoadFails
<1>2. /\ \/ disk' = disk
         \/ disk' = [operations |-> RecoveredOperations, idempotency |-> disk.idempotency]
      /\ failures' \in 0 .. MaxFailures
  BY PersistCases DEF LoadFails
<1>3. CASE disk' = disk
  BY <1>1, <1>2, <1>3 DEF Inv, Unissued, IdempotencyResolves, MemoryAgreesWithFile
<1>4. CASE disk' = [operations |-> RecoveredOperations, idempotency |-> disk.idempotency]
  <2>1. disk' \in [operations : OperationTables, idempotency : KeyTables]
    BY <1>4, RecoveredTable DEF Inv, TableOK
  <2>2. Unissued'
    BY <1>1, <1>4, RecoveredTable DEF Inv, Unissued
  <2> QED BY <1>1, <1>2, <1>4, <2>1, <2>2, RecoveredTable
        DEF Inv, IdempotencyResolves, MemoryAgreesWithFile
<1> QED BY <1>2, <1>3, <1>4

\* Every method that rewrites one record makes something it may become.
LEMMA RecordStepEvolves ==
    ASSUME Inv, NEW o \in Ops, NEW p \in WriteResults,
           \/ \E next \in Statuses : Transition(o, next, p)
           \/ \E r \in Outcomes : CompleteOperation(o, r, p)
           \/ RequestCancel(o, p)
           \/ RecordForcedShutdown(o, p)
           \/ RecordProgress(o, p)
           \/ RecordProcessStarted(o, p)
           \/ RecordProcessFinished(o, p)
    PROVE  \E t : operations[o] # None /\ Evolves(operations[o], t) /\ Rewrite(o, t, p)
<1>1. ASSUME o \in Live PROVE operations[o] # None /\ RecordOK(operations[o])
  BY <1>1 DEF Inv, TableOK, Live
<1>2. ASSUME NEW next \in Statuses, Transition(o, next, p)
      PROVE  operations[o] # None /\ Evolves(operations[o], Transitioned(operations[o], next))
             /\ Rewrite(o, Transitioned(operations[o], next), p)
  BY <1>1, <1>2, TransitionEvolves DEF Transition
<1>3. ASSUME NEW r \in Outcomes, CompleteOperation(o, r, p)
      PROVE  operations[o] # None /\ Evolves(operations[o], Complete(operations[o], r))
             /\ Rewrite(o, Complete(operations[o], r), p)
  BY <1>1, <1>3, CompleteEvolves DEF CompleteOperation
<1>4. ASSUME RequestCancel(o, p)
      PROVE  operations[o] # None /\ Evolves(operations[o], CancelIntent(operations[o]))
             /\ Rewrite(o, CancelIntent(operations[o]), p)
  BY <1>1, <1>4, CancelEvolves DEF RequestCancel
<1>5. ASSUME RecordForcedShutdown(o, p)
      PROVE  operations[o] # None /\ Evolves(operations[o], ForcedShutdown(operations[o]))
             /\ Rewrite(o, ForcedShutdown(operations[o]), p)
  BY <1>1, <1>5, ForcedShutdownEvolves DEF RecordForcedShutdown
<1>6. ASSUME RecordProgress(o, p)
      PROVE  operations[o] # None /\ Evolves(operations[o], operations[o])
             /\ Rewrite(o, operations[o], p)
  BY <1>1, <1>6 DEF RecordProgress, Evolves
<1>7. ASSUME RecordProcessStarted(o, p)
      PROVE  operations[o] # None /\ Evolves(operations[o], ProcessStarted(operations[o]))
             /\ Rewrite(o, ProcessStarted(operations[o]), p)
  BY <1>1, <1>7, StartEvolves DEF RecordProcessStarted
<1>8. ASSUME RecordProcessFinished(o, p)
      PROVE  operations[o] # None /\ Evolves(operations[o], ProcessFinished(operations[o]))
             /\ Rewrite(o, ProcessFinished(operations[o]), p)
  BY <1>1, <1>8, FinishEvolves DEF RecordProcessFinished
<1> QED BY <1>2, <1>3, <1>4, <1>5, <1>6, <1>7, <1>8

\* The invariant is inductive.
LEMMA NextKeepsInv == Inv /\ [Next]_vars => Inv'
<1> SUFFICES ASSUME Inv, [Next]_vars PROVE Inv'
  OBVIOUS
<1>1. ASSUME NEW k \in Keys, CreateReplay(k) PROVE Inv'
  BY <1>1, CreateReplayKeepsInv
<1>2. ASSUME NEW k \in Keys \cup {NoKey}, NEW i \in Invocations, NEW c \in BOOLEAN,
             NEW o \in Ops, NEW p \in WriteResults, CreateFresh(k, i, c, o, p)
      PROVE  Inv'
  BY <1>2, CreateFreshKeepsInv
<1>3. ASSUME NEW o \in Ops, NEW p \in WriteResults,
             \/ \E next \in Statuses : Transition(o, next, p)
             \/ \E r \in Outcomes : CompleteOperation(o, r, p)
             \/ RequestCancel(o, p)
             \/ RecordForcedShutdown(o, p)
             \/ RecordProgress(o, p)
             \/ RecordProcessStarted(o, p)
             \/ RecordProcessFinished(o, p)
      PROVE  Inv'
  BY <1>3, RecordStepEvolves, RewriteKeepsInv
<1>4. ASSUME NEW o \in Ops, RetentionPasses(o) PROVE Inv'
  BY <1>4, RetentionKeepsInv
<1>5. CASE Crash
  BY <1>5, CrashKeepsInv
<1>6. CASE Load
  BY <1>6, LoadKeepsInv
<1>7. ASSUME NEW p \in WriteResults, LoadFails(p) PROVE Inv'
  BY <1>7, LoadFailsKeepsInv
<1>8. CASE UNCHANGED vars
  BY <1>8 DEF vars, Inv, TableOK, Unissued, IdempotencyResolves, MemoryAgreesWithFile
<1> QED BY <1>1, <1>2, <1>3, <1>4, <1>5, <1>6, <1>7, <1>8 DEF Next

\* Every reachable state of the store satisfies the invariant.
LEMMA StoreInvariant == Spec => []Inv
BY InitInv, NextKeepsInv, PTL DEF Spec

-----------------------------------------------------------------------------
(* The properties *)

\* The store is always well typed, and retention runs for sealed records only.
THEOREM StoreTypeCorrect == Spec => []TypeOK
<1>1. Inv => TypeOK
  BY DEF Inv, TypeOK, TableOK, RecordOK
<1> QED BY <1>1, StoreInvariant, PTL

\* For any number of Operations, keys, failed writes and crashes, no record
\* that says "before process start" carries start evidence.
THEOREM StoreNeverStartedIsTrue == Spec => []NeverStartedIsTrue
<1>1. Inv => NeverStartedIsTrue
  BY DEF Inv, NeverStartedIsTrue, TableOK, RecordOK
<1> QED BY <1>1, StoreInvariant, PTL

\* create never finds a key without its record.
THEOREM StoreIdempotencyResolves == Spec => []IdempotencyResolves
<1>1. Inv => IdempotencyResolves
  BY DEF Inv
<1> QED BY <1>1, StoreInvariant, PTL

\* Memory never contradicts a verdict in the file.
THEOREM StoreMemoryAgrees == Spec => []MemoryAgreesWithFile
<1>1. Inv => MemoryAgreesWithFile
  BY DEF Inv
<1> QED BY <1>1, StoreInvariant, PTL

\* In memory a verdict is final: late answers, cancels, process exits and
\* forced shutdowns only add evidence.
THEOREM StoreTerminalIsFinal == Spec => TerminalIsFinal
<1> DEFINE Final(o) == \/ operations'[o] = None /\ operations[o].expires_at = "past"
                       \/ operations'[o] # None /\ Verdict(operations'[o]) = Verdict(operations[o])
<1>1. ASSUME Inv, [Next]_vars, up, up', NEW o \in Live, Terminal(operations[o])
      PROVE  Final(o)
  <2>1. o \in Ops /\ operations[o] # None /\ operations \in OperationTables
    BY <1>1 DEF Live, Inv, TableOK
  <2>2. \A q \in Ops : KeptRecords[q] = IF q \in Expired THEN None ELSE operations[q]
    BY DEF KeptRecords
  <2>3. ASSUME NEW k \in Keys, CreateReplay(k) PROVE Final(o)
    BY <2>1, <2>2, <2>3 DEF CreateReplay, Expired
  <2>4. ASSUME NEW k \in Keys \cup {NoKey}, NEW i \in Invocations, NEW c \in BOOLEAN,
               NEW q \in Ops, NEW p \in WriteResults, CreateFresh(k, i, c, q, p)
        PROVE  Final(o)
    <3>1. q # o
      BY <1>1, <2>1, <2>4 DEF CreateFresh, Inv, Unissued
    <3>2. operations'[o] = KeptRecords[o]
      BY <2>1, <2>4, <3>1 DEF CreateFresh, KeptRecords
    <3> QED BY <2>1, <2>2, <3>2 DEF Expired
  <2>5. ASSUME NEW q \in Ops, NEW p \in WriteResults, NEW t, operations[q] # None,
               Evolves(operations[q], t), Rewrite(q, t, p)
        PROVE  Final(o)
    <3>1. operations' = [operations EXCEPT ![q] = t]
      BY <2>5 DEF Rewrite
    <3>2. CASE q = o
      BY <1>1, <2>1, <2>5, <3>1, <3>2, StoreAssumption DEF Evolves, OperationTables, RecordOK
    <3>3. CASE q # o
      BY <2>1, <3>1, <3>3 DEF OperationTables
    <3> QED BY <3>2, <3>3
  <2>6. ASSUME NEW q \in Ops, RetentionPasses(q) PROVE Final(o)
    <3>1. CASE q = o /\ operations[o].expires_at = "ahead"
      <4>1. operations' = [operations EXCEPT ![o].expires_at = "past"]
        BY <2>1, <2>6, <3>1 DEF RetentionPasses, Past
      <4>2. operations'[o] = [operations[o] EXCEPT !.expires_at = "past"]
        BY <2>1, <4>1 DEF OperationTables
      <4>3. operations[o] \in Snapshots
        BY <2>1 DEF OperationTables
      <4>4. operations'[o] \in Snapshots /\ Verdict(operations'[o]) = Verdict(operations[o])
        BY <4>2, <4>3 DEF Snapshots, Verdict
      <4> QED BY <4>4, StoreAssumption
    <3>2. CASE ~(q = o /\ operations[o].expires_at = "ahead")
      BY <2>1, <2>6, <3>2 DEF RetentionPasses, Past, OperationTables
    <3> QED BY <3>1, <3>2
  <2>7. ASSUME Crash \/ Load \/ \E p \in WriteResults : LoadFails(p) PROVE FALSE
    BY <1>1, <2>7 DEF Crash, Load, LoadFails
  <2>8. CASE UNCHANGED vars
    BY <2>1, <2>8 DEF vars
  <2>9. ASSUME NEW q \in Ops, NEW p \in WriteResults,
               \/ \E next \in Statuses : Transition(q, next, p)
               \/ \E r \in Outcomes : CompleteOperation(q, r, p)
               \/ RequestCancel(q, p)
               \/ RecordForcedShutdown(q, p)
               \/ RecordProgress(q, p)
               \/ RecordProcessStarted(q, p)
               \/ RecordProcessFinished(q, p)
        PROVE  Final(o)
    BY <1>1, <2>5, <2>9, RecordStepEvolves
  <2> HIDE DEF Final
  <2> QED BY <1>1, <2>3, <2>4, <2>6, <2>7, <2>8, <2>9 DEF Next
<1>2. Inv /\ [Next]_vars =>
        [up /\ up' => \A o \in Live : Terminal(operations[o]) => Final(o)]_vars
  BY <1>1
<1> QED BY <1>2, StoreInvariant, PTL DEF Spec, TerminalIsFinal

\* A write replaces a sealed record of the file by nothing, once its retention
\* is over, or by one with the same verdict: memory agreed with the file, and
\* a method never changes a verdict.
LEMMA WriteKeepsVerdict ==
    ASSUME Inv, up, NEW o \in Ops, disk.operations[o] # None, Terminal(disk.operations[o]),
           NEW ops, disk' = disk \/ disk'.operations = ops,
           \/ ops[o] = operations[o]
           \/ ops[o] = None /\ operations[o] # None /\ operations[o].expires_at = "past"
           \/ ops[o] # None /\ operations[o] # None /\ Evolves(operations[o], ops[o])
    PROVE  \/ disk'.operations[o] = None /\ disk.operations[o].expires_at = "past"
           \/ disk'.operations[o] # None
              /\ Verdict(disk'.operations[o]) = Verdict(disk.operations[o])
<1>1. Agrees(disk.operations[o], operations[o])
  BY DEF Inv, MemoryAgreesWithFile
<1>2. CASE disk' = disk
  BY <1>2
<1>3. CASE disk'.operations = ops
  BY <1>1, <1>3 DEF Agrees, Evolves, Verdict, Terminal
<1> QED BY <1>2, <1>3

\* In the file, too, a verdict is final: later writes, failed or not, crashes
\* and recoveries keep it until its retention is over.
THEOREM StoreDurableVerdictIsFinal == Spec => DurableVerdictIsFinal
<1> DEFINE Final(o) == \/ disk'.operations[o] = None /\ disk.operations[o].expires_at = "past"
                       \/ /\ disk'.operations[o] # None
                          /\ Verdict(disk'.operations[o]) = Verdict(disk.operations[o])
<1>1. ASSUME Inv, [Next]_vars, NEW o \in Ops, disk.operations[o] # None,
             Terminal(disk.operations[o])
      PROVE  Final(o)
  <2>1. operations \in OperationTables /\ disk.operations \in OperationTables
        /\ disk \in [operations : OperationTables, idempotency : KeyTables]
    BY <1>1 DEF Inv, TableOK
  <2>2. \A q \in Ops : KeptRecords[q] = IF q \in Expired THEN None ELSE operations[q]
    BY DEF KeptRecords
  <2>3. ASSUME NEW k \in Keys, CreateReplay(k) PROVE Final(o)
    BY <1>1, <2>3 DEF CreateReplay
  <2>4. ASSUME NEW k \in Keys \cup {NoKey}, NEW i \in Invocations, NEW c \in BOOLEAN,
               NEW q \in Ops, NEW p \in WriteResults, CreateFresh(k, i, c, q, p)
        PROVE  Final(o)
    <3>1. q # o
      BY <1>1, <2>4 DEF CreateFresh, Inv, Unissued
    <3>2. operations'[o] = KeptRecords[o]
      BY <2>4, <3>1 DEF CreateFresh, KeptRecords
    <3>3. \/ operations'[o] = operations[o]
          \/ operations'[o] = None /\ operations[o] # None /\ operations[o].expires_at = "past"
      BY <2>2, <3>2 DEF Expired, Live
    <3>4. disk' = disk \/ disk'.operations = operations'
      BY <1>1, <2>4, PersistCases DEF CreateFresh
    <3>5. up
      BY <2>4 DEF CreateFresh
    <3> QED BY <1>1, <3>3, <3>4, <3>5, WriteKeepsVerdict
  <2>5. ASSUME NEW q \in Ops, NEW p \in WriteResults, NEW t, operations[q] # None,
               Evolves(operations[q], t), Rewrite(q, t, p), up
        PROVE  Final(o)
    <3>1. operations' = [operations EXCEPT ![q] = t]
      BY <2>5 DEF Rewrite
    <3>2. t # None
      BY <2>5, StoreAssumption DEF Evolves, RecordOK
    <3>3. \/ operations'[o] = operations[o]
          \/ operations'[o] # None /\ operations[o] # None /\ Evolves(operations[o], operations'[o])
      BY <2>1, <2>5, <3>1, <3>2 DEF OperationTables
    <3>4. disk' = disk \/ disk'.operations = operations'
      BY <1>1, <2>5, PersistCases DEF Rewrite
    <3> QED BY <1>1, <2>5, <3>3, <3>4, WriteKeepsVerdict
  <2>6. ASSUME NEW q \in Ops, RetentionPasses(q) PROVE Final(o)
    <3>1. disk'.operations = Past(disk.operations, q)
      BY <2>1, <2>6 DEF RetentionPasses
    <3>2. CASE q = o /\ disk.operations[o].expires_at = "ahead"
      <4>1. disk'.operations[o] = [disk.operations[o] EXCEPT !.expires_at = "past"]
        BY <1>1, <2>1, <3>1, <3>2 DEF Past, OperationTables
      <4>2. disk.operations[o] \in Snapshots
        BY <1>1, <2>1 DEF OperationTables
      <4>3. disk'.operations[o] \in Snapshots
            /\ Verdict(disk'.operations[o]) = Verdict(disk.operations[o])
        BY <4>1, <4>2 DEF Snapshots, Verdict
      <4> QED BY <4>3, StoreAssumption
    <3>3. CASE ~(q = o /\ disk.operations[o].expires_at = "ahead")
      BY <1>1, <2>1, <3>1, <3>3 DEF Past, OperationTables
    <3> QED BY <3>2, <3>3
  <2>7. CASE Crash
    BY <1>1, <2>7 DEF Crash
  <2>8. RecoveredOperations[o] # None /\ Verdict(RecoveredOperations[o]) = Verdict(disk.operations[o])
    BY <1>1, RecoveredTable DEF Evolves
  <2>9. CASE Load
    <3>1. disk'.operations = RecoveredOperations
      BY <2>1, <2>9 DEF Load
    <3> QED BY <2>8, <3>1
  <2>10. ASSUME NEW p \in WriteResults, LoadFails(p) PROVE Final(o)
    <3>1. disk' = disk \/ disk'.operations = RecoveredOperations
      BY <1>1, <2>10, PersistCases DEF LoadFails
    <3> QED BY <1>1, <2>8, <3>1
  <2>11. CASE UNCHANGED vars
    BY <1>1, <2>11 DEF vars
  <2>12. ASSUME NEW q \in Ops, NEW p \in WriteResults,
               \/ \E next \in Statuses : Transition(q, next, p)
               \/ \E r \in Outcomes : CompleteOperation(q, r, p)
               \/ RequestCancel(q, p)
               \/ RecordForcedShutdown(q, p)
               \/ RecordProgress(q, p)
               \/ RecordProcessStarted(q, p)
               \/ RecordProcessFinished(q, p)
        PROVE  Final(o)
    <3>1. up
      BY <2>12 DEF Transition, CompleteOperation, RequestCancel, RecordForcedShutdown,
                   RecordProgress, RecordProcessStarted, RecordProcessFinished
    <3> QED BY <1>1, <2>5, <2>12, <3>1, RecordStepEvolves
  <2> HIDE DEF Final
  <2> QED BY <1>1, <2>3, <2>4, <2>6, <2>7, <2>9, <2>10, <2>11, <2>12 DEF Next
<1>2. Inv /\ [Next]_vars =>
        [\A o \in Ops : disk.operations[o] # None /\ Terminal(disk.operations[o]) => Final(o)]_vars
  BY <1>1
<1> QED BY <1>2, StoreInvariant, PTL DEF Spec, DurableVerdictIsFinal

\* A bound key stays bound until the retention of its Operation is over.
THEOREM StoreKeyHeldUntilExpiry == Spec => KeyHeldUntilExpiry
<1> DEFINE Released(k) == idempotency'[k] # idempotency[k] =>
                            operations[idempotency[k].operation_id].expires_at = "past"
<1>1. ASSUME Inv, [Next]_vars, up, up', NEW k \in Keys, idempotency[k] # None
      PROVE  Released(k)
  <2>1. idempotency \in KeyTables /\ KeptKeys \in KeyTables
    BY <1>1, PruneKeeps DEF Inv
  <2>2. KeptKeys[k] # idempotency[k] => operations[idempotency[k].operation_id].expires_at = "past"
    BY DEF KeptKeys, Expired
  <2>3. ASSUME NEW q \in Keys, CreateReplay(q) PROVE Released(k)
    BY <2>2, <2>3 DEF CreateReplay
  <2>4. ASSUME NEW q \in Keys \cup {NoKey}, NEW i \in Invocations, NEW c \in BOOLEAN,
               NEW o \in Ops, NEW p \in WriteResults, CreateFresh(q, i, c, o, p)
        PROVE  Released(k)
    <3>1. CASE q = k
      <4>1. KeptKeys[k] = None
        BY <2>4, <3>1, StoreAssumption DEF CreateFresh
      <4> QED BY <1>1, <2>2, <4>1
    <3>2. CASE q # k
      <4>1. idempotency'[k] = KeptKeys[k]
        BY <2>1, <2>4, <3>2 DEF CreateFresh, Bound, KeyTables
      <4> QED BY <2>2, <4>1
    <3> QED BY <3>1, <3>2
  <2>5. ASSUME Crash \/ Load \/ \E p \in WriteResults : LoadFails(p) PROVE FALSE
    BY <1>1, <2>5 DEF Crash, Load, LoadFails
  <2>6. ASSUME NEW o \in Ops, NEW p \in WriteResults,
               \/ \E next \in Statuses : Transition(o, next, p)
               \/ \E r \in Outcomes : CompleteOperation(o, r, p)
               \/ RequestCancel(o, p)
               \/ RecordForcedShutdown(o, p)
               \/ RecordProgress(o, p)
               \/ RecordProcessStarted(o, p)
               \/ RecordProcessFinished(o, p)
        PROVE  Released(k)
    BY <2>6 DEF Transition, CompleteOperation, RequestCancel, RecordForcedShutdown,
                RecordProgress, RecordProcessStarted, RecordProcessFinished, Rewrite
  <2>7. ASSUME NEW o \in Ops, RetentionPasses(o) PROVE Released(k)
    BY <2>7 DEF RetentionPasses
  <2>8. CASE UNCHANGED vars
    BY <2>8 DEF vars
  <2> HIDE DEF Released
  <2> QED BY <1>1, <2>3, <2>4, <2>5, <2>6, <2>7, <2>8 DEF Next
<1>2. Inv /\ [Next]_vars =>
        [up /\ up' => \A k \in Keys : idempotency[k] # None /\ idempotency'[k] # idempotency[k] =>
            operations[idempotency[k].operation_id].expires_at = "past"]_vars
  BY <1>1
<1> QED BY <1>2, StoreInvariant, PTL DEF Spec, KeyHeldUntilExpiry
=============================================================================
