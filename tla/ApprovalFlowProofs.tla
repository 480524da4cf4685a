--------------------------- MODULE ApprovalFlowProofs ---------------------------
(***************************************************************************)
(* Proofs about ApprovalFlow for any number of Operations, keys, requests, *)
(* failed writes and crashes.                                              *)
(*                                                                         *)
(* The properties look at one store each; what keeps them is how the two   *)
(* stores and their files go together.  Known says that whatever refers to *)
(* an Operation finds it; Unspawned, that a record that may still be       *)
(* approved or denied has had no worker and that a denial in the file is   *)
(* the one in memory; Synced and Remembered, that without a failed write   *)
(* files and memory agree and an answered decision is in the file, so that *)
(* a crash cannot undo it; Handling, that the decision approval.resolve is *)
(* about to act upon is still the one on record.                           *)
(***************************************************************************)
EXTENDS ApprovalFlow, TLAPS

\* The statuses from which an approval or a denial is still possible.
Pending == {"received", "resolving", "approval_wait"}

\* Workers, keys and the file refer to Operations that memory, or the file, has.
KeysKnown(ops, idem) == \A k \in Keys : idem[k] # None => ops[idem[k].operation_id] # None

Known ==
    /\ \A o \in Ops : task[o] # "none" => up /\ operations[o] # None
    /\ KeysKnown(operations, idempotency)
    /\ KeysKnown(disk.operations, disk.idempotency)
    /\ up => \A o \in Ops : disk.operations[o] # None => operations[o] # None

\* No worker was ever given to a record that is not decided or is denied.
Unspawned ==
    /\ \A o \in Ops : operations[o] # None /\ operations[o].status \in Pending \cup {"denied"}
                         => spawned[o] = 0
    /\ \A o \in Ops : disk.operations[o] # None /\ disk.operations[o].status = "denied"
                         => /\ spawned[o] = 0
                            /\ up => operations[o].status = "denied"
    /\ \A o \in Ops : spawned[o] <= 1

\* Without a failed write the files are what memory holds.
Synced ==
    up /\ failures = 0 =>
        /\ disk.operations = operations /\ disk.idempotency = idempotency
        /\ approvalDisk = approvals

\* Without a failed write an answered decision and the Operation of a request are in
\* the files.
Remembered ==
    failures = 0 =>
        /\ \A a \in Approvals, d \in Decisions : <<a, d>> \in answered =>
              approvalDisk[a] # None /\ approvalDisk[a].decision = d
        /\ \A a \in Approvals : approvalDisk[a] # None =>
              disk.operations[approvalDisk[a].operation_id] # None

\* The handler acts upon the decision that the store holds.
Handling ==
    \A a \in Approvals, d \in Decisions : <<a, d>> \in resolving =>
        up /\ approvals[a] # None /\ approvals[a].decision = d

\* The inductive invariant.
Inv == TypeOK /\ Known /\ Unspawned /\ QueuedHasWorker /\ Synced /\ Remembered /\ Handling

-----------------------------------------------------------------------------
(* The methods of the Operation store, record by record *)

\* What a method other than the resolution may make of record s: it becomes neither
\* undecided nor denied nor queued, and a denial stays.
Follows(s, t) ==
    /\ t \in Snapshots
    /\ t.status \in Pending \cup {"denied"} => s.status \in Pending \cup {"denied"}
    /\ s.status = "denied" => t.status = "denied"
    /\ t.status = "queued" => s.status = "queued"

LEMMA StatusNames ==
    /\ Pending \cup {"denied", "queued"} \subseteq Statuses
    /\ BeforeStart \cap TerminalStatuses = {} /\ AfterStart \cap TerminalStatuses = {}
    /\ BeforeStart = Pending \cup {"queued", "starting"}
    /\ "denied" \in TerminalStatuses
  BY DEF Pending, Statuses, BeforeStart, AfterStart, TerminalStatuses

\* The transitions the handlers try on their way to approval_wait and to the worker.
LEMMA TryFollows ==
    ASSUME NEW s \in Snapshots, NEW next \in {"resolving", "approval_wait", "starting"}
    PROVE  Follows(s, TryTransition(s, next))
<1>1. CASE CanTransition(s, next)
  <2>1. s.status \in Pending \cup {"queued"} /\ next \notin TerminalStatuses /\ next \in Statuses
    BY <1>1 DEF CanTransition, ValidTransitions, Pending, Statuses, BeforeStart, AfterStart,
       TerminalStatuses
  <2>2. next \in Pending => s.status \in Pending
    BY <1>1 DEF CanTransition, ValidTransitions, Pending
  <2>3. TryTransition(s, next) = [s EXCEPT !.status = next]
    BY <1>1, <2>1 DEF TryTransition, Transitioned
  <2>4. [s EXCEPT !.status = next] \in Snapshots /\ [s EXCEPT !.status = next].status = next
    BY <2>1 DEF Snapshots
  <2>5. next \notin {"denied", "queued"} /\ s.status # "denied"
    BY <2>1 DEF Pending
  <2> QED BY <2>2, <2>3, <2>4, <2>5 DEF Follows
<1>2. CASE ~CanTransition(s, next)
  BY <1>2 DEF TryTransition, Follows
<1> QED BY <1>1, <1>2

LEMMA WaitingFollows ==
    ASSUME NEW s \in Snapshots
    PROVE  Follows(s, Waiting(s))
<1>1. Follows(s, TryTransition(s, "resolving"))
  BY TryFollows
<1>2. TryTransition(s, "resolving") \in Snapshots
  BY <1>1 DEF Follows
<1>3. Follows(TryTransition(s, "resolving"), Waiting(s))
  BY <1>2, TryFollows DEF Waiting
<1> QED BY <1>1, <1>3 DEF Follows

\* A record that is moved to approval_wait is undecided before, half-way and after.
LEMMA WaitingMoves ==
    ASSUME NEW s \in Snapshots, Waiting(s) # s
    PROVE  /\ TryTransition(s, "resolving") \in Snapshots
           /\ TryTransition(s, "resolving").status \in Pending
           /\ Waiting(s).status = "approval_wait"
<1> DEFINE half == TryTransition(s, "resolving")
<1>1. half \in Snapshots
  BY TryFollows DEF Follows
<1>2. CASE CanTransition(s, "resolving")
  <2>1. half = [s EXCEPT !.status = "resolving"]
    BY <1>2 DEF TryTransition, Transitioned, TerminalStatuses
  <2>2. half.status = "resolving"
    BY <2>1 DEF Snapshots
  <2>3. CanTransition(half, "approval_wait")
    BY <2>2 DEF CanTransition, ValidTransitions, Terminal, TerminalStatuses
  <2> HIDE DEF half
  <2>4. Waiting(s) = [half EXCEPT !.status = "approval_wait"]
    BY <2>3 DEF Waiting, TryTransition, Transitioned, TerminalStatuses, half
  <2> QED BY <1>1, <2>2, <2>4 DEF Pending, Snapshots, half
<1>3. CASE ~CanTransition(s, "resolving")
  <2>1. half = s
    BY <1>3 DEF TryTransition
  <2>2. CanTransition(s, "approval_wait") /\ Waiting(s) = [s EXCEPT !.status = "approval_wait"]
    BY <2>1 DEF Waiting, TryTransition, Transitioned, TerminalStatuses
  <2>3. s.status \in Pending
    BY <2>2 DEF CanTransition, ValidTransitions, Pending
  <2> QED BY <1>1, <2>1, <2>2, <2>3 DEF Snapshots
<1> QED BY <1>2, <1>3

\* A new record is undecided, and so it is once it waits.
LEMMA NewRecord ==
    ASSUME NEW i \in Invocations, NEW c \in BOOLEAN
    PROVE  /\ NewOperation(i, c) \in Snapshots /\ NewOperation(i, c).status = "received"
           /\ Waiting(NewOperation(i, c)) \in Snapshots
           /\ Waiting(NewOperation(i, c)).status \in Pending
           /\ Waiting(NewOperation(i, c)) # NewOperation(i, c)
<1> DEFINE new == NewOperation(i, c)
<1>1. new \in Snapshots /\ new.status = "received"
  BY DEF NewOperation, Snapshots, Statuses, BeforeStart, ErrorCodes
<1>2. TryTransition(new, "resolving") = [new EXCEPT !.status = "resolving"]
  BY <1>1 DEF TryTransition, CanTransition, Transitioned, Terminal, TerminalStatuses,
     ValidTransitions
<1>3. [new EXCEPT !.status = "resolving"].status = "resolving"
  BY <1>1 DEF Snapshots
<1>4. Waiting(new) = [[new EXCEPT !.status = "resolving"] EXCEPT !.status = "approval_wait"]
  BY <1>2, <1>3 DEF Waiting, TryTransition, CanTransition, Transitioned, Terminal,
     TerminalStatuses, ValidTransitions
<1>5. Waiting(new).status = "approval_wait"
  BY <1>1, <1>4 DEF Snapshots
<1>6. Waiting(new) \in Snapshots
  BY <1>1, WaitingFollows DEF Follows
<1>7. Waiting(new) # new
  BY <1>1, <1>5
<1> QED BY <1>1, <1>5, <1>6, <1>7 DEF Pending

LEMMA CancelFollows ==
    ASSUME NEW s \in Snapshots
    PROVE  Follows(s, CancelIntent(s))
<1>1. CASE Terminal(s) \/ s.cancel_requested
  BY <1>1 DEF CancelIntent, Follows
<1>2. CASE ~Terminal(s) /\ ~s.cancel_requested
  <2> DEFINE asked == [s EXCEPT !.cancel_requested = TRUE]
  <2>1. asked \in Snapshots /\ asked.status = s.status
    BY DEF Snapshots
  <2>2. CASE s.cancellable /\ s.status \in BeforeStart \ {"starting"}
    <3> DEFINE seal == Seal(asked, "cancelled")
    <3>1. seal \in Snapshots /\ seal.status = "cancelled"
      BY <2>1 DEF Seal, Snapshots, Statuses, TerminalStatuses
    <3>2. CancelIntent(s) = [seal EXCEPT !.cancel_effective = TRUE,
                                         !.error = "CANCELLED_BEFORE_START"]
      BY <1>2, <2>1, <2>2 DEF CancelIntent, Cancellation
    <3> HIDE DEF seal
    <3>3. CancelIntent(s) \in Snapshots /\ CancelIntent(s).status = "cancelled"
      BY <3>1, <3>2 DEF Snapshots, ErrorCodes, NotStartedErrors
    <3> QED BY <1>2, <3>3 DEF Follows, Pending, Terminal, TerminalStatuses
  <2>3. CASE s.cancellable /\ s.status \notin BeforeStart \ {"starting"}
    <3>1. CancelIntent(s) = [asked EXCEPT !.status = "cancelling"]
      BY <1>2, <2>1, <2>3 DEF CancelIntent, Cancellation
    <3>2. CancelIntent(s) \in Snapshots /\ CancelIntent(s).status = "cancelling"
      BY <2>1, <3>1 DEF Snapshots, Statuses, AfterStart
    <3> QED BY <1>2, <3>2 DEF Follows, Pending, Terminal, TerminalStatuses
  <2>4. CASE ~s.cancellable
    <3>1. CancelIntent(s) = asked
      BY <1>2, <2>4 DEF CancelIntent
    <3> QED BY <2>1, <3>1 DEF Follows
  <2> QED BY <2>2, <2>3, <2>4
<1> QED BY <1>1, <1>2

LEMMA StartFollows ==
    ASSUME NEW s \in Snapshots, CanRecordStart(s)
    PROVE  Follows(s, ProcessStarted(s))
<1>1. /\ ProcessStarted(s) \in Snapshots
      /\ ProcessStarted(s).status \in {"cancelling", "running"}
  BY DEF ProcessStarted, Snapshots, Statuses, AfterStart
<1> QED BY <1>1 DEF CanRecordStart, Follows, Pending

LEMMA CompleteFollows ==
    ASSUME NEW s \in Snapshots, NEW r \in Outcomes
    PROVE  Follows(s, Complete(s, r))
<1>1. CASE Terminal(s)
  <2>1. LateEvidence(s, r) \in Snapshots /\ LateEvidence(s, r).status = s.status
    BY DEF LateEvidence, Snapshots
  <2> QED BY <1>1, <2>1 DEF Complete, Follows
<1>2. CASE ~Terminal(s)
  <2> DEFINE seal == [s EXCEPT !.status = CASE r = "cancelled" -> "cancelled"
                                          [] r = "ok" -> "succeeded"
                                          [] r = "error" -> "failed",
                               !.expires_at = "ahead"]
  <2>1. seal \in Snapshots /\ seal.status \in {"cancelled", "succeeded", "failed"}
    BY DEF Snapshots, Outcomes, Statuses, TerminalStatuses
  <2>2. Completed(s, r) = [seal EXCEPT !.cancel_effective = (r = "cancelled"),
                                       !.result = (r = "ok"),
                                       !.error = IF r = "ok" THEN @ ELSE "BACKEND"]
    BY DEF Completed, Seal
  <2> HIDE DEF seal
  <2>3. Completed(s, r) \in Snapshots /\ Completed(s, r).status = seal.status
    BY <2>1, <2>2 DEF Snapshots, ErrorCodes
  <2> QED BY <1>2, <2>1, <2>3 DEF Complete, Follows, Pending, Terminal, TerminalStatuses
<1> QED BY <1>1, <1>2

\* load leaves nothing open.
LEMMA RecoveredFollows ==
    ASSUME NEW s \in Snapshots
    PROVE  Follows(s, Recovered(s)) /\ Recovered(s).status \in TerminalStatuses
<1>1. CASE Terminal(s)
  BY <1>1 DEF Recovered, Follows, Terminal
<1>2. CASE ~Terminal(s)
  <2>1. /\ Recovered(s) \in Snapshots
        /\ Recovered(s).status \in {"failed", "outcome_unknown"}
    BY <1>2 DEF Recovered, Seal, Snapshots, Statuses, TerminalStatuses, ErrorCodes,
       NotStartedErrors
  <2> QED BY <1>2, <2>1 DEF Follows, Pending, Terminal, TerminalStatuses
<1> QED BY <1>1, <1>2

\* The effect of a resolution.
LEMMA DecisionTypes ==
    ASSUME NEW s \in Snapshots, NEW next \in {"queued", "denied"}
    PROVE  Transitioned(s, next) \in Snapshots /\ Transitioned(s, next).status = next
  BY DEF Transitioned, Seal, Snapshots, Statuses, BeforeStart, TerminalStatuses

-----------------------------------------------------------------------------
(* The Operation store and its file *)

FileOf(ops, idem) == [operations |-> ops, idempotency |-> idem]

\* The file has record o on its way to approval_wait.
HalfWritten(o, t, idem) ==
    /\ t.status = "approval_wait"
    /\ \E u \in Snapshots : /\ u.status \in Pending
                            /\ disk' = FileOf([operations EXCEPT ![o] = u], idem)

\* Record o becomes t in memory; the file stays or becomes what memory holds, and
\* stays behind only when a write has failed.
StoreStep(o, t, idem) ==
    /\ up /\ up' = up
    /\ operations' = [operations EXCEPT ![o] = t] /\ idempotency' = idem
    /\ \/ disk' \in {disk, FileOf(operations', idem)}
       \/ HalfWritten(o, t, idem)
    /\ failures' \in 0 .. MaxFailures
    /\ failures' = 0 => /\ failures = 0
                        /\ disk'.operations = operations' /\ disk'.idempotency = idempotency'

LEMMA SaveIsStoreStep ==
    ASSUME Inv, up, up' = up, NEW o \in Ops, NEW t, NEW idem, NEW p \in WriteResults,
           SaveOperations([operations EXCEPT ![o] = t], idem, p),
           NEW n \in Nat, n >= Failed(p), CountFailures(n)
    PROVE  StoreStep(o, t, idem)
<1>1. failures \in Nat /\ MaxFailures \in Nat
  BY ApprovalAssumption DEF Inv, TypeOK
<1>2. failures' = failures + n /\ failures' <= MaxFailures
  BY DEF CountFailures
<1>3. failures' = 0 => failures = 0 /\ p = "written"
  BY <1>1, <1>2 DEF Failed
<1> QED BY <1>1, <1>2, <1>3 DEF StoreStep, SaveOperations, WriteResults, FileOf

LEMMA ChangeIsStoreStep ==
    ASSUME Inv, up, up' = up, NEW o \in Ops, NEW t, NEW p \in WriteResults, Change(o, t, p)
    PROVE  StoreStep(o, t, idempotency)
<1>1. Failed(p) \in Nat /\ Failed(p) >= Failed(p) /\ CountFailures(Failed(p))
  BY DEF Failed, Change
<1>2. CASE t = operations[o]
  <2>1. p = "written" /\ UNCHANGED storeVars /\ operations = [operations EXCEPT ![o] = t]
    BY <1>2 DEF Change, Inv, TypeOK, OperationTables
  <2>2. failures' = failures /\ failures \in 0 .. MaxFailures
    BY <1>1, <2>1 DEF CountFailures, Failed, Inv, TypeOK
  <2> QED BY <2>1, <2>2 DEF StoreStep, storeVars, Inv, Synced
<1>3. CASE t # operations[o]
  BY <1>1, <1>3, SaveIsStoreStep DEF Change
<1> QED BY <1>2, <1>3

\* What every change of a record must keep to, given what it does with the workers.
LEMMA StoreStepKeeps ==
    ASSUME Inv, NEW o \in Ops, NEW t \in Snapshots, NEW idem \in KeyTables, StoreStep(o, t, idem),
           spawned' = spawned, task' \in [Ops -> {"none", "queued", "running"}],
           \A q \in Ops : q # o => task'[q] = task[q],
           \/ Unused(o) /\ t.status \in Pending
           \/ operations[o] # None /\ Follows(operations[o], t)
              /\ (t.status = "queued" /\ task[o] # "none" => task'[o] # "none"),
           \A k \in Keys : idem[k] # None => idem[k] = idempotency[k] \/ idem[k].operation_id = o
    PROVE  /\ operations' \in OperationTables /\ idempotency' \in KeyTables
           /\ disk' \in [operations : OperationTables, idempotency : KeyTables]
           /\ operations'[o] # None
           /\ Known' /\ Unspawned' /\ QueuedHasWorker'
           /\ \A q \in Ops : disk.operations[q] # None => disk'.operations[q] # None
<1>0. /\ up /\ up' = up /\ (failures' = 0 => failures = 0)
      /\ operations' = [operations EXCEPT ![o] = t] /\ idempotency' = idem
      /\ disk' = disk \/ disk' = FileOf(operations', idem) \/ HalfWritten(o, t, idem)
  BY DEF StoreStep
<1>1. t # None
  BY NoneAssumption
<1>2. operations \in OperationTables /\ operations' \in OperationTables
  BY <1>0 DEF Inv, TypeOK, OperationTables
<1>3. \A q \in Ops : operations'[q] = IF q = o THEN t ELSE operations[q]
  BY <1>0, <1>2 DEF OperationTables
<1>4. \/ disk' = disk
      \/ \E file \in OperationTables :
            /\ disk' = FileOf(file, idem)
            /\ \A q \in Ops : q # o => file[q] = operations[q]
            /\ file[o] # None
            /\ file[o].status = "denied" => t.status = "denied"
  <2>1. CASE disk' = FileOf(operations', idem)
    BY <1>1, <1>2, <1>3, <2>1
  <2>2. CASE HalfWritten(o, t, idem)
    <3>1. PICK u \in Snapshots : /\ u.status \in Pending
                                /\ disk' = FileOf([operations EXCEPT ![o] = u], idem)
      BY <2>2 DEF HalfWritten
    <3> DEFINE file == [operations EXCEPT ![o] = u]
    <3>2. file \in OperationTables /\ file[o] = u /\ \A q \in Ops : q # o => file[q] = operations[q]
      BY <1>2 DEF OperationTables
    <3>3. u # None /\ u.status # "denied"
      BY <3>1, NoneAssumption DEF Pending
    <3> HIDE DEF file
    <3> QED BY <3>1, <3>2, <3>3 DEF file
  <2> QED BY <1>0, <2>1, <2>2
<1>4a. \/ disk'.operations = disk.operations /\ disk'.idempotency = disk.idempotency
       \/ /\ disk'.operations \in OperationTables /\ disk'.idempotency = idem
          /\ \A q \in Ops : q # o => disk'.operations[q] = operations[q]
          /\ disk'.operations[o] # None
          /\ disk'.operations[o].status = "denied" => t.status = "denied"
  BY <1>4 DEF FileOf
<1>4b. disk' \in [operations : OperationTables, idempotency : KeyTables]
  <2>1. CASE disk' = disk
    BY <2>1 DEF Inv, TypeOK
  <2>2. ASSUME NEW file \in OperationTables, disk' = FileOf(file, idem)
        PROVE  disk' \in [operations : OperationTables, idempotency : KeyTables]
    BY <2>2 DEF FileOf
  <2> QED BY <1>4, <2>1, <2>2
<1>5. \A k \in Keys : idem[k] # None => idem[k].operation_id \in Ops
  BY DEF KeyTables, IdempotencyRecords
<1>6. KeysKnown(operations', idem)
  BY <1>1, <1>3, <1>5 DEF Inv, Known, KeysKnown
<1>7. up /\ \A q \in Ops : disk.operations[q] # None => operations[q] # None /\ operations'[q] # None
  BY <1>0, <1>1, <1>3 DEF Inv, Known
<1>9. Known'
  <2>1. \A q \in Ops : task'[q] # "none" => operations'[q] # None
    BY <1>1, <1>3 DEF Inv, Known
  <2>2. KeysKnown(disk'.operations, disk'.idempotency)
    <3>1. \A k \in Keys : idem[k] # None => operations'[idem[k].operation_id] # None
      BY <1>6 DEF KeysKnown
    <3>2. CASE disk'.operations = disk.operations /\ disk'.idempotency = disk.idempotency
      BY <3>2 DEF Inv, Known, KeysKnown
    <3>3. CASE disk'.operations # disk.operations \/ disk'.idempotency # disk.idempotency
      BY <1>3, <1>4a, <1>5, <3>1, <3>3 DEF KeysKnown
    <3> QED BY <3>2, <3>3
  <2>3. \A q \in Ops : disk'.operations[q] # None => operations'[q] # None
    BY <1>1, <1>3, <1>4a, <1>7
  <2> QED BY <1>0, <1>6, <2>1, <2>2, <2>3 DEF Known
<1>10. \A q \in Ops : operations'[q].status \in Pending \cup {"denied"} /\ operations'[q] # None
                        => spawned[q] = 0
  BY <1>3 DEF Inv, Unspawned, Unused, Follows
<1>11. \A q \in Ops : disk.operations[q] # None /\ disk.operations[q].status = "denied" =>
                        spawned[q] = 0 /\ operations'[q].status = "denied"
  BY <1>3, <1>7 DEF Inv, Unspawned, Unused, Follows
<1>12. Unspawned'
  <2>1. \A q \in Ops : disk'.operations[q] # None /\ disk'.operations[q].status = "denied" =>
                          spawned[q] = 0 /\ operations'[q].status = "denied"
    BY <1>1, <1>3, <1>4a, <1>10, <1>11 DEF Inv, Unspawned
  <2> QED BY <1>0, <1>10, <2>1 DEF Inv, Unspawned
<1>13. QueuedHasWorker'
  BY <1>0, <1>1, <1>3 DEF Inv, QueuedHasWorker, Unused, Follows, Pending
<1>14. \A q \in Ops : disk.operations[q] # None => disk'.operations[q] # None
  BY <1>4a, <1>7
<1> QED BY <1>0, <1>1, <1>2, <1>3, <1>4b, <1>9, <1>12, <1>13, <1>14

-----------------------------------------------------------------------------
(* The approval store and its file *)

\* What the Operation store has to grant the approval store: it loses no Operation
\* of the file, and without a failed write the file is what memory holds.
FilesGrow ==
    /\ up' = up
    /\ failures' \in 0 .. MaxFailures /\ (failures' = 0 => failures = 0)
    /\ \A q \in Ops : disk.operations[q] # None => disk'.operations[q] # None
    /\ up /\ failures' = 0 =>
          disk'.operations = operations' /\ disk'.idempotency = idempotency'

\* No request is touched.
LEMMA ApprovalsUntouched ==
    ASSUME Inv, FilesGrow, UNCHANGED <<approvalVars, answered>>
    PROVE  /\ approvals' \in ApprovalTables /\ approvalDisk' \in ApprovalTables
           /\ Synced' /\ Remembered'
<1>1. \A a \in Approvals : approvalDisk[a] # None => approvalDisk[a].operation_id \in Ops
  BY DEF Inv, TypeOK, ApprovalTables, ApprovalRecords
<1> QED BY <1>1 DEF Inv, TypeOK, FilesGrow, approvalVars, Synced, Remembered

\* A request is filed for an Operation that memory holds.
LEMMA FilingKeeps ==
    ASSUME Inv, FilesGrow, up, NEW a \in Approvals, NEW o \in Ops, NEW rev \in Revisions,
           NEW q \in WriteResults, FileApproval(a, o, rev, q), operations'[o] # None,
           failures' = 0 => q = "written", UNCHANGED answered
    PROVE  /\ approvals' \in ApprovalTables /\ approvalDisk' \in ApprovalTables
           /\ Synced' /\ Remembered'
<1> DEFINE told == q = "written"
           new == [operation_id |-> o, expected_revision |-> rev, decision |-> "none",
                   told |-> told]
<1>0. told \in BOOLEAN
  BY Zenon
<1> HIDE DEF told
<1>1. new \in ApprovalRecords /\ new # None /\ new.operation_id = o
  BY <1>0, NoneAssumption DEF ApprovalRecords
<1> HIDE DEF new
<1>2. /\ approvals[a] = None /\ approvalDisk[a] = None
      /\ approvals' = [approvals EXCEPT ![a] = new]
      /\ approvalDisk' = IF q = "lost" THEN approvalDisk ELSE approvals'
  BY DEF FileApproval, SaveApprovals, new, told
<1>3. approvals' \in ApprovalTables /\ approvalDisk' \in ApprovalTables
  BY <1>1, <1>2 DEF Inv, TypeOK, ApprovalTables
<1>4. \A b \in Approvals : approvals'[b] = IF b = a THEN new ELSE approvals[b]
  BY <1>2 DEF Inv, TypeOK, ApprovalTables
<1>5. Synced'
  BY <1>2 DEF FilesGrow, Synced
<1>6. Remembered'
  <2> SUFFICES ASSUME failures' = 0 PROVE Remembered'
    BY DEF Remembered
  <2>1. failures = 0 /\ approvalDisk' = approvals' /\ approvalDisk = approvals /\ up
    BY <1>2 DEF FilesGrow, Inv, Synced
  <2>2. disk'.operations[o] # None
    BY <2>1 DEF FilesGrow
  <2>3. \A b \in Approvals, d \in Decisions : <<b, d>> \in answered =>
            b # a /\ approvalDisk'[b] # None /\ approvalDisk'[b].decision = d
    BY <1>2, <1>4, <2>1 DEF Inv, Remembered
  <2>4. ASSUME NEW b \in Approvals, approvalDisk'[b] # None
        PROVE  disk'.operations[approvalDisk'[b].operation_id] # None
    <3>1. CASE b = a
      BY <1>1, <1>4, <2>1, <2>2, <3>1
    <3>2. CASE b # a
      <4>1. approvalDisk[b] # None /\ approvalDisk'[b] = approvalDisk[b]
        BY <1>4, <2>1, <2>4, <3>2
      <4>2. approvalDisk[b].operation_id \in Ops
        BY <4>1 DEF Inv, TypeOK, ApprovalTables, ApprovalRecords
      <4> QED BY <2>1, <4>1, <4>2 DEF Inv, Remembered, FilesGrow
    <3> QED BY <3>1, <3>2
  <2> QED BY <2>3, <2>4 DEF Remembered
<1> QED BY <1>3, <1>5, <1>6

\* A decision is recorded, and answered only once it is on record.
LEMMA DecidingKeeps ==
    ASSUME Inv, FilesGrow, up, NEW a \in Approvals, NEW d \in Decisions, approvals[a] # None,
           NEW q \in WriteResults, Resolvable(a, d), RecordDecision(a, d, q),
           failures' = 0 => q = "written",
           answered' = answered \/ answered' = answered \cup {<<a, d>>}
    PROVE  /\ approvals' \in ApprovalTables /\ approvalDisk' \in ApprovalTables
           /\ Synced' /\ Remembered'
           /\ approvals'[a] # None /\ approvals'[a].decision = d
<1> DEFINE new == [approvals[a] EXCEPT !.decision = d]
<1>0. approvals[a] \in ApprovalRecords
  BY DEF Inv, TypeOK, ApprovalTables
<1>1. /\ new \in ApprovalRecords /\ new # None /\ new.decision = d
      /\ new.operation_id = approvals[a].operation_id
  BY <1>0, NoneAssumption DEF ApprovalRecords, Decisions
<1>2. [approvals EXCEPT ![a].decision = d] = [approvals EXCEPT ![a] = new]
  OBVIOUS
<1> HIDE DEF new
<1>3. CASE approvals[a].decision = "none"
  <2>1. /\ approvals' = [approvals EXCEPT ![a] = new]
        /\ approvalDisk' = IF q = "lost" THEN approvalDisk ELSE approvals'
    BY <1>2, <1>3 DEF RecordDecision, SaveApprovals
  <2>2. approvals' \in ApprovalTables /\ approvalDisk' \in ApprovalTables
    BY <1>1, <2>1 DEF Inv, TypeOK, ApprovalTables
  <2>3. \A b \in Approvals : approvals'[b] = IF b = a THEN new ELSE approvals[b]
    BY <2>1 DEF Inv, TypeOK, ApprovalTables
  <2>4. Synced'
    BY <2>1 DEF FilesGrow, Synced
  <2>5. Remembered'
    <3> SUFFICES ASSUME failures' = 0 PROVE Remembered'
      BY DEF Remembered
    <3>1. failures = 0 /\ approvalDisk' = approvals' /\ approvalDisk = approvals
      BY <2>1 DEF FilesGrow, Inv, Synced
    <3>2. ASSUME NEW b \in Approvals, NEW e \in Decisions, <<b, e>> \in answered'
          PROVE  approvalDisk'[b] # None /\ approvalDisk'[b].decision = e
      <4>1. CASE <<b, e>> \in answered
        <5>1. approvals[b] # None /\ approvals[b].decision = e
          BY <3>1, <4>1 DEF Inv, Remembered
        <5>2. b # a
          BY <1>3, <5>1 DEF Decisions
        <5> QED BY <2>3, <3>1, <5>1, <5>2
      <4>2. CASE <<b, e>> = <<a, d>>
        BY <1>1, <2>3, <3>1, <4>2
      <4> QED BY <3>2, <4>1, <4>2
    <3>3. ASSUME NEW b \in Approvals, approvalDisk'[b] # None
          PROVE  disk'.operations[approvalDisk'[b].operation_id] # None
      <4>1. approvalDisk[b] # None /\ approvalDisk'[b].operation_id = approvalDisk[b].operation_id
        BY <1>1, <2>3, <3>1, <3>3
      <4>2. approvalDisk[b].operation_id \in Ops
        BY <4>1 DEF Inv, TypeOK, ApprovalTables, ApprovalRecords
      <4> QED BY <3>1, <4>1, <4>2 DEF Inv, Remembered, FilesGrow
    <3> QED BY <3>2, <3>3 DEF Remembered
  <2> QED BY <1>1, <2>2, <2>3, <2>4, <2>5
<1>4. CASE approvals[a].decision # "none"
  <2>1. approvals[a].decision = d /\ approvals' = approvals /\ approvalDisk' = approvalDisk
    BY <1>4 DEF Resolvable, RecordDecision, approvalVars
  <2>2. Synced'
    BY <2>1 DEF FilesGrow, Inv, Synced
  <2>3. Remembered'
    <3> SUFFICES ASSUME failures' = 0 PROVE Remembered'
      BY DEF Remembered
    <3>1. failures = 0 /\ approvalDisk = approvals
      BY DEF FilesGrow, Inv, Synced
    <3>2. ASSUME NEW b \in Approvals, NEW e \in Decisions, <<b, e>> \in answered'
          PROVE  approvalDisk[b] # None /\ approvalDisk[b].decision = e
      <4>1. CASE <<b, e>> \in answered
        BY <3>1, <4>1 DEF Inv, Remembered
      <4>2. CASE <<b, e>> = <<a, d>>
        BY <2>1, <3>1, <4>2
      <4> QED BY <3>2, <4>1, <4>2
    <3>3. \A b \in Approvals : approvalDisk[b] # None =>
              disk'.operations[approvalDisk[b].operation_id] # None
      BY <3>1 DEF Inv, TypeOK, ApprovalTables, ApprovalRecords, Remembered, FilesGrow
    <3> QED BY <2>1, <3>2, <3>3 DEF Remembered
  <2> QED BY <2>1, <2>2, <2>3 DEF Inv, TypeOK
<1> QED BY <1>3, <1>4

-----------------------------------------------------------------------------
(* Every step keeps the invariant *)

\* A store step with a kept pair of tables lets the approval lemmas apply.
LEMMA StoreStepGrows ==
    ASSUME NEW o, NEW t, NEW idem, StoreStep(o, t, idem),
           \A q \in Ops : disk.operations[q] # None => disk'.operations[q] # None
    PROVE  FilesGrow
  BY DEF StoreStep, FilesGrow

LEMMA InitInv == Init => Inv
<1> SUFFICES ASSUME Init PROVE Inv
  OBVIOUS
<1>1. operations \in OperationTables /\ idempotency \in KeyTables
  BY DEF Init, NoOperations, NoBindings, OperationTables, KeyTables
<1>2. disk = [operations |-> operations, idempotency |-> idempotency]
  BY DEF Init
<1>3. disk \in [operations : OperationTables, idempotency : KeyTables]
  BY <1>1, <1>2
<1>4. {trusted, directory, up} \subseteq BOOLEAN
  BY Zenon DEF Init
<1>5. TypeOK
  BY <1>1, <1>3, <1>4, ApprovalAssumption
     DEF Init, TypeOK, ApprovalTables, NoApprovals, Revisions
<1>6. Known /\ Unspawned /\ QueuedHasWorker
  BY <1>2 DEF Init, Known, KeysKnown, Unspawned, QueuedHasWorker, NoOperations, NoBindings
<1>7. Synced /\ Remembered /\ Handling
  BY <1>2 DEF Init, Synced, Remembered, Handling, NoApprovals
<1> QED BY <1>5, <1>6, <1>7 DEF Inv

\* The key of a new Operation is bound to it; no other binding changes.
LEMMA BindDoes ==
    ASSUME Inv, NEW k \in Keys \cup {NoKey}, NEW o \in Ops, NEW i \in Invocations
    PROVE  /\ Bind(k, o, i) \in KeyTables
           /\ \A j \in Keys : Bind(k, o, i)[j] # None =>
                 Bind(k, o, i)[j] = idempotency[j] \/ Bind(k, o, i)[j].operation_id = o
  BY DEF Bind, Inv, TypeOK, KeyTables, IdempotencyRecords

\* The Operation of the two handlers that ask: recorded, then a request is filed.
LEMMA AskKeeps ==
    ASSUME Inv, LoopIsFree, NEW o \in Ops, NEW s \in Snapshots, NEW idem \in KeyTables,
           NEW a \in Approvals, NEW rev \in Revisions, NEW p \in WriteResults,
           NEW q \in WriteResults, AskFor(o, s, idem, a, rev, p, q),
           \/ Unused(o) /\ Waiting(s) # s
           \/ operations[o] # None /\ operations[o] = s /\ idem = idempotency,
           \A k \in Keys : idem[k] # None => idem[k] = idempotency[k] \/ idem[k].operation_id = o
    PROVE  Inv'
<1> DEFINE t == Waiting(s)
<1>0. /\ operations' = [operations EXCEPT ![o] = t] /\ idempotency' = idem
      /\ UNCHANGED <<scopeVars, workVars, runVars, expired, answered, resolving>>
      /\ up /\ up' = up /\ resolving = {}
  BY DEF AskFor, LoopIsFree, runVars
<1>1. PICK n \in Nat : /\ CountFailures(n) /\ n >= Failed(p)
                       /\ directory => n >= Failed(q)
  BY DEF AskFor, Failed
<1>1a. Follows(s, t) /\ t \in Snapshots
  BY WaitingFollows DEF Follows
<1>1b. /\ failures' \in 0 .. MaxFailures
       /\ failures' = 0 => failures = 0 /\ p = "written"
  BY <1>1, ApprovalAssumption DEF CountFailures, Failed, Inv, TypeOK
<1>2. StoreStep(o, t, idem) /\ (Unused(o) => t.status \in Pending)
  <2>1. CASE t = s
    <3>1. operations' = operations /\ idem = idempotency /\ disk' = disk /\ ~Unused(o)
      BY <1>0, <2>1 DEF AskFor, Unused, Inv, TypeOK, OperationTables
    <3> QED BY <1>0, <1>1b, <3>1 DEF StoreStep, Inv, Synced
  <2>2. CASE t # s
    <3>1. /\ TryTransition(s, "resolving") \in Snapshots
          /\ TryTransition(s, "resolving").status \in Pending
          /\ t.status = "approval_wait"
      BY <2>2, WaitingMoves
    <3>2. CASE p = "lost"
      <4>1. disk' = FileOf([operations EXCEPT ![o] = TryTransition(s, "resolving")], idem)
        BY <2>2, <3>2 DEF AskFor, FileOf
      <4>2. HalfWritten(o, t, idem)
        BY <3>1, <4>1 DEF HalfWritten
      <4> QED BY <1>0, <1>1b, <3>1, <3>2, <4>2 DEF StoreStep, Pending
    <3>3. CASE p # "lost"
      <4>1. disk' = FileOf(operations', idem)
        BY <1>0, <2>2, <3>3 DEF AskFor, FileOf
      <4>2. disk'.operations = operations' /\ disk'.idempotency = idempotency'
        BY <1>0, <4>1 DEF FileOf
      <4> QED BY <1>0, <1>1b, <3>1, <4>1, <4>2 DEF StoreStep, Pending
    <3> QED BY <3>2, <3>3
  <2> QED BY <2>1, <2>2
<1> HIDE DEF t
<1>3. /\ operations' \in OperationTables /\ idempotency' \in KeyTables
      /\ disk' \in [operations : OperationTables, idempotency : KeyTables]
      /\ operations'[o] # None /\ Known' /\ Unspawned' /\ QueuedHasWorker'
      /\ \A r \in Ops : disk.operations[r] # None => disk'.operations[r] # None
  <2>1. task' = task /\ spawned' = spawned /\ task \in [Ops -> {"none", "queued", "running"}]
    BY <1>0 DEF workVars, Inv, TypeOK
  <2> QED BY <1>1a, <1>2, <2>1, StoreStepKeeps
<1>4. FilesGrow
  BY <1>2, <1>3, StoreStepGrows
<1>5. /\ approvals' \in ApprovalTables /\ approvalDisk' \in ApprovalTables
      /\ Synced' /\ Remembered'
  <2>1. CASE directory
    <3>1. failures' = 0 => q = "written"
      BY <1>1, <2>1 DEF CountFailures, Failed, Inv, TypeOK
    <3> QED BY <1>0, <1>3, <1>4, <2>1, <3>1, FilingKeeps DEF AskFor
  <2>2. CASE ~directory
    BY <1>0, <1>4, <2>2, ApprovalsUntouched DEF AskFor
  <2> QED BY <2>1, <2>2
<1>6. TypeOK'
  BY <1>0, <1>3, <1>4, <1>5 DEF Inv, TypeOK, FilesGrow, scopeVars, workVars, runVars
<1> QED BY <1>0, <1>3, <1>5, <1>6 DEF Inv, Handling

LEMMA AskFreshKeeps ==
    ASSUME Inv, NEW i \in Invocations, NEW k \in Keys \cup {NoKey}, NEW o \in Ops,
           NEW a \in Approvals, NEW rev \in Revisions, NEW p \in WriteResults,
           NEW q \in WriteResults, AskFresh(i, k, o, a, rev, p, q)
    PROVE  Inv'
<1>1. Cancellable[i] \in BOOLEAN
  BY ApprovalAssumption
<1>2. /\ NewOperation(i, Cancellable[i]) \in Snapshots
      /\ Waiting(NewOperation(i, Cancellable[i])) # NewOperation(i, Cancellable[i])
  BY <1>1, NewRecord
<1> QED BY <1>2, BindDoes, AskKeeps DEF AskFresh

LEMMA AskReplayKeeps ==
    ASSUME Inv, NEW k \in Keys, NEW a \in Approvals, NEW rev \in Revisions,
           NEW p \in WriteResults, NEW q \in WriteResults, AskReplay(k, a, rev, p, q)
    PROVE  Inv'
<1> DEFINE o == idempotency[k].operation_id
<1>1. o \in Ops
  BY DEF AskReplay, Inv, TypeOK, KeyTables, IdempotencyRecords
<1>2. operations[o] # None /\ operations[o] \in Snapshots
  BY <1>1 DEF AskReplay, Inv, TypeOK, OperationTables, Known, KeysKnown
<1>3. LoopIsFree /\ AskFor(o, operations[o], idempotency, a, rev, p, q)
  BY DEF AskReplay
<1>4. idempotency \in KeyTables
  BY DEF Inv, TypeOK
<1> HIDE DEF o
<1> QED BY <1>1, <1>2, <1>3, <1>4, AskKeeps

\* What the steps that change one record and touch no request have in common.
LEMMA RecordKeeps ==
    ASSUME Inv, NEW o \in Ops, NEW t \in Snapshots, NEW idem \in KeyTables, StoreStep(o, t, idem),
           spawned' = spawned, task' \in [Ops -> {"none", "queued", "running"}],
           \A q \in Ops : q # o => task'[q] = task[q],
           \/ Unused(o) /\ t.status \in Pending
           \/ operations[o] # None /\ Follows(operations[o], t)
              /\ (t.status = "queued" /\ task[o] # "none" => task'[o] # "none"),
           \A k \in Keys : idem[k] # None => idem[k] = idempotency[k] \/ idem[k].operation_id = o,
           UNCHANGED <<approvalVars, scopeVars, runVars, expired, answered, resolving>>
    PROVE  Inv'
<1>1. /\ operations' \in OperationTables /\ idempotency' \in KeyTables
      /\ disk' \in [operations : OperationTables, idempotency : KeyTables]
      /\ Known' /\ Unspawned' /\ QueuedHasWorker'
      /\ \A r \in Ops : disk.operations[r] # None => disk'.operations[r] # None
  BY StoreStepKeeps
<1>2. FilesGrow
  BY <1>1, StoreStepGrows
<1>3. /\ approvals' \in ApprovalTables /\ approvalDisk' \in ApprovalTables
      /\ Synced' /\ Remembered'
  BY <1>2, ApprovalsUntouched
<1>4. TypeOK'
  BY <1>1, <1>2, <1>3 DEF Inv, TypeOK, FilesGrow, scopeVars, runVars
<1>5. Handling'
  BY DEF Inv, Handling, approvalVars, runVars
<1> QED BY <1>1, <1>3, <1>4, <1>5 DEF Inv

LEMMA AskUnrecordedKeeps ==
    ASSUME Inv, NEW i \in Invocations, NEW k \in Keys \cup {NoKey}, NEW o \in Ops,
           NEW p \in WriteResults, AskUnrecorded(i, k, o, p)
    PROVE  Inv'
<1>1. Cancellable[i] \in BOOLEAN
  BY ApprovalAssumption
<1> DEFINE t == NewOperation(i, Cancellable[i])
<1>2. t \in Snapshots /\ t.status \in Pending
  BY <1>1, NewRecord DEF Pending
<1>3. /\ SaveOperations([operations EXCEPT ![o] = t], Bind(k, o, i), p) /\ CountFailures(1)
      /\ up /\ up' = up /\ Unused(o)
      /\ UNCHANGED <<approvalVars, scopeVars, workVars, runVars, expired, answered, resolving>>
  BY DEF AskUnrecorded, LoopIsFree, runVars
<1> HIDE DEF t
<1>4. StoreStep(o, t, Bind(k, o, i))
  BY <1>3, SaveIsStoreStep DEF Failed
<1>5. task' = task /\ spawned' = spawned /\ task \in [Ops -> {"none", "queued", "running"}]
  BY <1>3 DEF workVars, Inv, TypeOK
<1> QED BY <1>2, <1>3, <1>4, <1>5, BindDoes, RecordKeeps

\* operation.cancel and the steps of a worker.
LEMMA ChangeKeeps ==
    ASSUME Inv, up, NEW o \in Ops, NEW t, NEW p \in WriteResults, Change(o, t, p),
           operations[o] # None, Follows(operations[o], t),
           spawned' = spawned, task' \in [Ops -> {"none", "queued", "running"}],
           \A q \in Ops : q # o => task'[q] = task[q],
           t.status = "queued" /\ task[o] # "none" => task'[o] # "none",
           UNCHANGED <<approvalVars, scopeVars, runVars, expired, answered, resolving>>
    PROVE  Inv'
<1>1. StoreStep(o, t, idempotency)
  BY ChangeIsStoreStep DEF runVars
<1>2. t \in Snapshots /\ idempotency \in KeyTables
  BY DEF Follows, Inv, TypeOK
<1> QED BY <1>1, <1>2, RecordKeeps

LEMMA WorkKeeps ==
    ASSUME Inv, NEW o \in Ops, NEW p \in WriteResults,
           \/ Cancel(o, p) \/ WorkerStarts(o, p) \/ WorkerRecordsStart(o, p)
           \/ \E r \in Outcomes : WorkerEnds(o, r, p)
    PROVE  Inv'
<1>0. task \in [Ops -> {"none", "queued", "running"}] /\ operations \in OperationTables
  BY DEF Inv, TypeOK
<1>1. operations[o] # None
  BY DEF Cancel, WorkerStarts, WorkerRecordsStart, WorkerEnds, Inv, Known
<1>2. operations[o] \in Snapshots
  BY <1>0, <1>1 DEF OperationTables
<1>3. CASE Cancel(o, p)
  BY <1>0, <1>1, <1>2, <1>3, CancelFollows, ChangeKeeps DEF Cancel, LoopIsFree, workVars
<1>4. CASE WorkerStarts(o, p)
  BY <1>0, <1>1, <1>2, <1>4, TryFollows, ChangeKeeps DEF WorkerStarts
<1>5. CASE WorkerRecordsStart(o, p)
  BY <1>0, <1>1, <1>2, <1>5, StartFollows, ChangeKeeps DEF WorkerRecordsStart, workVars
<1>6. ASSUME NEW r \in Outcomes, WorkerEnds(o, r, p) PROVE Inv'
  <2>1. Complete(operations[o], r).status # "queued"
    BY <1>2 DEF Complete, Completed, LateEvidence, Seal, Terminal, TerminalStatuses, Outcomes,
       Snapshots
  <2> QED BY <1>0, <1>1, <1>2, <1>6, <2>1, CompleteFollows, ChangeKeeps DEF WorkerEnds
<1> QED BY <1>3, <1>4, <1>5, <1>6

\* A resolution that leaves the Operation as it is.
LEMMA VerdictOnlyKeeps ==
    ASSUME Inv, up, NEW a \in Approvals, NEW d \in Decisions, approvals[a] # None,
           NEW q \in WriteResults, Resolvable(a, d), RecordDecision(a, d, q),
           failures' \in 0 .. MaxFailures, failures' = 0 => failures = 0 /\ q = "written",
           answered' = answered \/ answered' = answered \cup {<<a, d>>},
           resolving' = {} \/ resolving' = {<<a, d>>},
           UNCHANGED <<storeVars, scopeVars, workVars, runVars, expired>>
    PROVE  Inv'
<1>1. FilesGrow
  BY DEF FilesGrow, Inv, Synced, storeVars, runVars
<1>2. /\ approvals' \in ApprovalTables /\ approvalDisk' \in ApprovalTables
      /\ Synced' /\ Remembered'
      /\ approvals'[a] # None /\ approvals'[a].decision = d
  BY <1>1, DecidingKeeps
<1>3. Known' /\ Unspawned' /\ QueuedHasWorker'
  BY DEF Inv, Known, KeysKnown, Unspawned, QueuedHasWorker, storeVars, workVars, runVars
<1>4. <<a, d>> \in Approvals \X Decisions
  OBVIOUS
<1>5. TypeOK'
  BY <1>2, <1>4 DEF Inv, TypeOK, storeVars, scopeVars, workVars, runVars
<1>6. Handling'
  BY <1>2 DEF Handling, runVars
<1> QED BY <1>2, <1>3, <1>5, <1>6 DEF Inv

\* The handler goes on from the decision it has recorded.
LEMMA DecidedIsRecorded ==
    ASSUME Inv, NEW a \in Approvals, NEW d \in Decisions, Decided(a, d), UNCHANGED approvalVars
    PROVE  /\ up /\ approvals[a] # None
           /\ Resolvable(a, d) /\ RecordDecision(a, d, "written")
  BY DEF Inv, Handling, Decided, Decisions, Resolvable, RecordDecision

\* The decision takes effect on an Operation that waits for it: the only step that
\* makes a denial or a worker, and only for a record that has had neither.
LEMMA ResolveKeeps ==
    ASSUME Inv, NEW a \in Approvals, NEW d \in Decisions, NEW p \in WriteResults, Resolve(a, d, p)
    PROVE  Inv'
<1> DEFINE o == approvals[a].operation_id
           t == Transitioned(operations[o], IF d = "approve" THEN "queued" ELSE "denied")
<1>0. approvals[a] # None /\ Resolvable(a, d) /\ RecordDecision(a, d, "written")
  BY DecidedIsRecorded DEF Resolve
<1>1. o \in Ops /\ approvals[a] # None
  BY <1>0 DEF Inv, TypeOK, ApprovalTables, ApprovalRecords
<1>2. /\ operations[o] # None /\ operations[o] \in Snapshots
      /\ operations[o].status = "approval_wait"
  BY <1>1 DEF Resolve, StatusOf, Inv, TypeOK, OperationTables
<1>3. /\ t \in Snapshots /\ t # None
      /\ t.status = IF d = "approve" THEN "queued" ELSE "denied"
  BY <1>2, DecisionTypes, NoneAssumption
<1>4. /\ SaveOperations([operations EXCEPT ![o] = t], idempotency, p)
      /\ CountFailures(Failed(p))
      /\ IF d = "approve" /\ p = "written" THEN Spawn(o) ELSE UNCHANGED workVars
      /\ answered' = answered \/ answered' = answered \cup {<<a, d>>}
      /\ up /\ up' = up /\ UNCHANGED <<scopeVars, runVars, expired>>
      /\ resolving' = {}
  BY DEF Resolve, Decided, TakeEffect, Answered, runVars
<1>5. Resolvable(a, d) /\ RecordDecision(a, d, "written")
  BY <1>0
<1> HIDE DEF o, t
<1>6. Failed(p) \in Nat /\ Failed(p) >= Failed(p)
  BY DEF Failed
<1>7. StoreStep(o, t, idempotency)
  BY <1>1, <1>4, <1>6, SaveIsStoreStep
<1>8. /\ operations' = [operations EXCEPT ![o] = t] /\ idempotency' = idempotency
      /\ disk' = disk \/ disk' = [operations |-> operations', idempotency |-> idempotency']
      /\ failures' \in 0 .. MaxFailures
      /\ failures' = 0 => failures = 0 /\ p = "written"
  BY <1>4, <1>7 DEF StoreStep, SaveOperations, CountFailures, Failed, Inv, TypeOK
<1>9. \A q \in Ops : operations'[q] = IF q = o THEN t ELSE operations[q]
  BY <1>8 DEF Inv, TypeOK, OperationTables
<1>10. operations' \in OperationTables /\ idempotency' \in KeyTables
  BY <1>3, <1>8 DEF Inv, TypeOK, OperationTables
<1>11. disk' \in [operations : OperationTables, idempotency : KeyTables]
  <2>1. CASE disk' = disk
    BY <2>1 DEF Inv, TypeOK
  <2>2. CASE disk' = [operations |-> operations', idempotency |-> idempotency']
    BY <1>10, <2>2
  <2> QED BY <1>8, <2>1, <2>2
<1>12. \/ disk'.operations = disk.operations /\ disk'.idempotency = disk.idempotency
       \/ disk'.operations = operations' /\ disk'.idempotency = idempotency
  <2>1. CASE disk' = disk
    BY <2>1
  <2>2. CASE disk' = [operations |-> operations', idempotency |-> idempotency']
    BY <1>8, <2>2
  <2> QED BY <1>8, <2>1, <2>2
<1>13. /\ task' \in [Ops -> {"none", "queued", "running"}] /\ spawned' \in [Ops -> Nat]
       /\ \A q \in Ops : q # o => task'[q] = task[q] /\ spawned'[q] = spawned[q]
       /\ spawned'[o] = IF d = "approve" /\ p = "written" THEN spawned[o] + 1 ELSE spawned[o]
       /\ d = "approve" /\ p = "written" => task'[o] = "queued"
  BY <1>1, <1>4 DEF Spawn, workVars, Inv, TypeOK
<1>14. spawned[o] = 0
  BY <1>1, <1>2 DEF Inv, Unspawned, Pending
<1>15. \A q \in Ops : disk.operations[q] # None => operations'[q] # None /\ operations[q] # None
  BY <1>3, <1>4, <1>9 DEF Inv, Known
<1>16. KeysKnown(operations', idempotency)
  <2>1. \A k \in Keys : idempotency[k] # None => idempotency[k].operation_id \in Ops
    BY DEF Inv, TypeOK, KeyTables, IdempotencyRecords
  <2> QED BY <1>3, <1>9, <2>1 DEF Inv, Known, KeysKnown
<1>17. Known'
  <2>1. \A q \in Ops : task'[q] # "none" => operations'[q] # None
    BY <1>3, <1>9, <1>13 DEF Inv, Known
  <2>2. KeysKnown(disk'.operations, disk'.idempotency)
    BY <1>12, <1>16 DEF Inv, Known, KeysKnown
  <2>3. \A q \in Ops : disk'.operations[q] # None => operations'[q] # None
    BY <1>12, <1>15
  <2> QED BY <1>4, <1>8, <1>16, <2>1, <2>2, <2>3 DEF Known
<1>18. Unspawned'
  <2>1. \A q \in Ops : operations'[q] # None /\ operations'[q].status \in Pending \cup {"denied"}
                          => spawned'[q] = 0
    <3>1. d = "approve" => t.status \notin Pending \cup {"denied"}
      BY <1>3 DEF Pending
    <3> QED BY <1>9, <1>13, <1>14, <3>1 DEF Inv, Unspawned
  <2>2. \A q \in Ops : disk.operations[q] # None /\ disk.operations[q].status = "denied" =>
            q # o /\ spawned'[q] = 0 /\ operations'[q].status = "denied"
    BY <1>2, <1>4, <1>9, <1>13, <1>15 DEF Inv, Unspawned
  <2>3. \A q \in Ops : spawned'[q] <= 1
    BY <1>13, <1>14 DEF Inv, Unspawned
  <2> QED BY <1>4, <1>12, <2>1, <2>2, <2>3 DEF Unspawned
<1>19. QueuedHasWorker'
  <2>1. ASSUME NEW q \in Ops, failures' = 0, operations'[q] # None,
               operations'[q].status = "queued"
        PROVE  task'[q] # "none"
    <3>1. CASE q = o
      BY <1>3, <1>8, <1>9, <1>13, <2>1, <3>1
    <3>2. CASE q # o
      BY <1>4, <1>8, <1>9, <1>13, <2>1, <3>2 DEF Inv, QueuedHasWorker
    <3> QED BY <3>1, <3>2
  <2> QED BY <2>1 DEF QueuedHasWorker
<1>20. FilesGrow
  BY <1>7, <1>12, <1>15, StoreStepGrows
<1>21. /\ approvals' \in ApprovalTables /\ approvalDisk' \in ApprovalTables
       /\ Synced' /\ Remembered'
  <2>1. "written" \in WriteResults
    BY DEF WriteResults
  <2> QED BY <1>1, <1>4, <1>5, <1>20, <2>1, DecidingKeeps
<1>22. TypeOK'
  <2>1. <<a, d>> \in Approvals \X Decisions
    OBVIOUS
  <2> QED BY <1>4, <1>8, <1>10, <1>11, <1>13, <1>21, <2>1 DEF Inv, TypeOK, scopeVars, runVars
<1> QED BY <1>4, <1>17, <1>18, <1>19, <1>21, <1>22 DEF Inv, Handling

LEMMA ResolutionKeeps ==
    ASSUME Inv, NEW a \in Approvals, NEW d \in Decisions, NEW q \in WriteResults,
           ResolveRefused(a, d, q) \/ Decide(a, d) \/ ResolveExisting(a, d) \/ ResolveStale(a, d)
    PROVE  Inv'
<1>0. "written" \in WriteResults /\ failures \in 0 .. MaxFailures /\ MaxFailures \in Nat
  BY ApprovalAssumption DEF WriteResults, Inv, TypeOK
<1>1. CASE ResolveRefused(a, d, q)
  <2>1. failures' \in 0 .. MaxFailures /\ failures' # 0
    BY <1>0, <1>1 DEF ResolveRefused, CountFailures
  <2> QED BY <1>1, <2>1, VerdictOnlyKeeps DEF ResolveRefused, Resolves, LoopIsFree
<1>2. CASE Decide(a, d)
  BY <1>0, <1>2, VerdictOnlyKeeps DEF Decide, Resolves, LoopIsFree
<1>3. CASE ResolveExisting(a, d)
  <2>1. /\ up /\ approvals[a] # None
        /\ Resolvable(a, d) /\ RecordDecision(a, d, "written")
    BY <1>3, DecidedIsRecorded DEF ResolveExisting
  <2> QED BY <1>0, <1>3, <2>1, VerdictOnlyKeeps DEF ResolveExisting, Answered
<1>4. CASE ResolveStale(a, d)
  <2>1. /\ up /\ approvals[a] # None
        /\ Resolvable(a, d) /\ RecordDecision(a, d, "written")
    BY <1>4, DecidedIsRecorded DEF ResolveStale
  <2> QED BY <1>0, <1>4, <2>1, VerdictOnlyKeeps DEF ResolveStale
<1> QED BY <1>1, <1>2, <1>3, <1>4

\* The steps beside the stores.
LEMMA ScopeKeeps ==
    ASSUME Inv, (\E a \in Approvals : RequestExpires(a)) \/ RegistryMoves \/ ScopeChanges
    PROVE  Inv'
<1>1. /\ UNCHANGED <<storeVars, approvalVars, workVars, runVars, answered, resolving, failures>>
      /\ expired' \subseteq Approvals
      /\ revision' \in Revisions
  BY ApprovalAssumption
     DEF RequestExpires, RegistryMoves, ScopeChanges, scopeVars, Inv, TypeOK, Revisions
<1>2. {trusted', directory', up'} \subseteq BOOLEAN
  <2>1. trusted \in BOOLEAN /\ directory \in BOOLEAN /\ up \in BOOLEAN
    BY DEF Inv, TypeOK
  <2>2. trusted' \in BOOLEAN /\ directory' \in BOOLEAN /\ up' \in BOOLEAN
    BY <1>1, <2>1, Zenon DEF RequestExpires, RegistryMoves, ScopeChanges, scopeVars, runVars
  <2> QED BY <2>2
<1>3. TypeOK'
  BY <1>1, <1>2 DEF Inv, TypeOK, storeVars, approvalVars, workVars, runVars
<1>4. /\ Known' /\ Unspawned' /\ QueuedHasWorker' /\ Synced' /\ Remembered'
      /\ Handling'
  BY <1>1 DEF Inv, Known, KeysKnown, Unspawned, QueuedHasWorker, Synced, Remembered, Handling, storeVars,
     approvalVars, workVars, runVars
<1> QED BY <1>3, <1>4 DEF Inv

\* A crash empties memory; nothing that only the files hold is lost.
LEMMA CrashKeeps ==
    ASSUME Inv, Crash
    PROVE  Inv'
<1>1. /\ operations' = NoOperations /\ idempotency' = NoBindings /\ approvals' = NoApprovals
      /\ task' = [o \in Ops |-> "none"] /\ up' = FALSE /\ crashes' = crashes + 1
      /\ crashes < MaxCrashes /\ resolving' = {}
      /\ UNCHANGED <<disk, approvalDisk, spawned, scopeVars, expired, answered, failures>>
  BY DEF Crash
<1>2. {trusted', directory', up'} \subseteq BOOLEAN
  <2>1. trusted \in BOOLEAN /\ directory \in BOOLEAN
    BY DEF Inv, TypeOK
  <2>2. trusted' \in BOOLEAN /\ directory' \in BOOLEAN /\ up' \in BOOLEAN
    BY <1>1, <2>1, Zenon DEF scopeVars
  <2> QED BY <2>2
<1>3. TypeOK'
  <2>1. crashes' \in 0 .. MaxCrashes
    BY <1>1, ApprovalAssumption DEF Inv, TypeOK
  <2>2. /\ operations' \in OperationTables /\ idempotency' \in KeyTables
        /\ approvals' \in ApprovalTables
        /\ task' \in [Ops -> {"none", "queued", "running"}]
    BY <1>1 DEF NoOperations, NoBindings, NoApprovals, OperationTables, KeyTables, ApprovalTables
  <2> QED BY <1>1, <1>2, <2>1, <2>2 DEF Inv, TypeOK, scopeVars
<1>4. Known' /\ Unspawned' /\ QueuedHasWorker'
  BY <1>1 DEF Inv, Known, KeysKnown, Unspawned, QueuedHasWorker, NoOperations, NoBindings
<1>5. Synced' /\ Remembered' /\ Handling'
  BY <1>1 DEF Inv, Synced, Remembered, Handling
<1> QED BY <1>3, <1>4, <1>5 DEF Inv

\* load seals what the file has open, so that nothing undecided or queued comes back.
LEMMA RestartKeeps ==
    ASSUME Inv, Restart
    PROVE  Inv'
<1>1. /\ ~up /\ up' = TRUE /\ operations' = RecoveredOperations
      /\ idempotency' = disk.idempotency /\ approvals' = approvalDisk
      /\ disk' = [disk EXCEPT !.operations = RecoveredOperations]
      /\ UNCHANGED <<approvalDisk, scopeVars, workVars, crashes, expired, answered, resolving,
                     failures>>
  BY DEF Restart
<1>2. disk.operations \in OperationTables /\ disk.idempotency \in KeyTables
  BY DEF Inv, TypeOK
<1>3. \A o \in Ops :
         /\ disk.operations[o] = None => RecoveredOperations[o] = None
         /\ disk.operations[o] # None =>
              /\ disk.operations[o] \in Snapshots
              /\ RecoveredOperations[o] = Recovered(disk.operations[o])
  BY <1>2 DEF RecoveredOperations, OperationTables
<1>4. \A o \in Ops : disk.operations[o] # None =>
         /\ RecoveredOperations[o] \in Snapshots /\ RecoveredOperations[o] # None
         /\ RecoveredOperations[o].status \in TerminalStatuses
         /\ RecoveredOperations[o].status = "denied" => disk.operations[o].status = "denied"
  <2> SUFFICES ASSUME NEW o \in Ops, disk.operations[o] # None
               PROVE  /\ RecoveredOperations[o] \in Snapshots /\ RecoveredOperations[o] # None
                      /\ RecoveredOperations[o].status \in TerminalStatuses
                      /\ RecoveredOperations[o].status = "denied" =>
                            disk.operations[o].status = "denied"
    OBVIOUS
  <2> DEFINE s == disk.operations[o]
  <2>1. s \in Snapshots /\ RecoveredOperations[o] = Recovered(s)
    BY <1>3
  <2>2. Follows(s, Recovered(s)) /\ Recovered(s).status \in TerminalStatuses
    BY <2>1, RecoveredFollows
  <2>3. Recovered(s).status = "denied" => s.status = "denied"
    BY <2>1 DEF Recovered, Seal, Terminal, Snapshots
  <2> QED BY <2>1, <2>2, <2>3, NoneAssumption DEF Follows
<1>5. RecoveredOperations \in OperationTables
  <2>1. RecoveredOperations = [o \in Ops |-> RecoveredOperations[o]]
    BY DEF RecoveredOperations
  <2>2. \A o \in Ops : RecoveredOperations[o] \in Snapshots \cup {None}
    BY <1>3, <1>4
  <2> QED BY <2>1, <2>2 DEF OperationTables
<1>6. /\ disk'.operations = RecoveredOperations /\ disk'.idempotency = disk.idempotency
      /\ disk' \in [operations : OperationTables, idempotency : KeyTables]
  BY <1>1, <1>2, <1>5 DEF Inv, TypeOK
<1>7. {trusted', directory', up'} \subseteq BOOLEAN
  <2>1. trusted \in BOOLEAN /\ directory \in BOOLEAN
    BY DEF Inv, TypeOK
  <2>2. trusted' \in BOOLEAN /\ directory' \in BOOLEAN /\ up' \in BOOLEAN
    BY <1>1, <2>1, Zenon DEF scopeVars
  <2> QED BY <2>2
<1>8. TypeOK'
  BY <1>1, <1>2, <1>5, <1>6, <1>7 DEF Inv, TypeOK, scopeVars, workVars
<1>9. KeysKnown(RecoveredOperations, disk.idempotency)
  <2>1. \A k \in Keys : disk.idempotency[k] # None => disk.idempotency[k].operation_id \in Ops
    BY <1>2 DEF KeyTables, IdempotencyRecords
  <2> QED BY <1>4, <2>1 DEF Inv, Known, KeysKnown
<1>10. Known'
  <2>1. \A o \in Ops : task[o] = "none"
    BY <1>1 DEF Inv, Known
  <2> QED BY <1>1, <1>6, <1>9, <2>1 DEF Known, workVars, Inv
<1>11. \A o \in Ops : RecoveredOperations[o] # None =>
          /\ RecoveredOperations[o].status \notin Pending \cup {"queued"}
          /\ RecoveredOperations[o].status = "denied" => spawned[o] = 0
  BY <1>3, <1>4 DEF TerminalStatuses, Pending, Inv, Unspawned
<1>12. Unspawned'
  BY <1>1, <1>6, <1>11 DEF Unspawned, workVars, Inv
<1>13. QueuedHasWorker'
  BY <1>1, <1>11 DEF QueuedHasWorker
<1>14. Synced'
  BY <1>1, <1>6 DEF Synced
<1>15. Remembered'
  <2>1. \A a \in Approvals : approvalDisk[a] # None => approvalDisk[a].operation_id \in Ops
    BY DEF Inv, TypeOK, ApprovalTables, ApprovalRecords
  <2> QED BY <1>1, <1>4, <1>6, <2>1 DEF Inv, Remembered
<1>16. Handling'
  BY <1>1 DEF Inv, Handling
<1> QED BY <1>8, <1>10, <1>12, <1>13, <1>14, <1>15, <1>16 DEF Inv

LEMMA Invariant == Spec => []Inv
<1>1. ASSUME Inv, [Next]_vars PROVE Inv'
  <2>1. ASSUME NEW i \in Invocations, NEW k \in Keys \cup {NoKey}, NEW o \in Ops,
               NEW p \in WriteResults, AskUnrecorded(i, k, o, p)
        PROVE  Inv'
    BY <1>1, <2>1, AskUnrecordedKeeps
  <2>2. ASSUME NEW i \in Invocations, NEW k \in Keys \cup {NoKey}, NEW o \in Ops,
               NEW a \in Approvals, NEW rev \in Revisions, NEW p \in WriteResults,
               NEW q \in WriteResults, AskFresh(i, k, o, a, rev, p, q)
        PROVE  Inv'
    BY <1>1, <2>2, AskFreshKeeps
  <2>3. ASSUME NEW k \in Keys, NEW a \in Approvals, NEW rev \in Revisions,
               NEW p \in WriteResults, NEW q \in WriteResults, AskReplay(k, a, rev, p, q)
        PROVE  Inv'
    BY <1>1, <2>3, AskReplayKeeps
  <2>4. ASSUME NEW a \in Approvals, NEW d \in Decisions, NEW p \in WriteResults, Resolve(a, d, p)
        PROVE  Inv'
    BY <1>1, <2>4, ResolveKeeps
  <2>5. ASSUME NEW a \in Approvals, NEW d \in Decisions,
               (\E p \in WriteResults : ResolveRefused(a, d, p))
                 \/ Decide(a, d) \/ ResolveExisting(a, d) \/ ResolveStale(a, d)
        PROVE  Inv'
    <3>1. "written" \in WriteResults
      BY DEF WriteResults
    <3> QED BY <1>1, <2>5, <3>1, ResolutionKeeps
  <2>6. ASSUME NEW o \in Ops, NEW p \in WriteResults,
               \/ Cancel(o, p) \/ WorkerStarts(o, p) \/ WorkerRecordsStart(o, p)
               \/ \E r \in Outcomes : WorkerEnds(o, r, p)
        PROVE  Inv'
    BY <1>1, <2>6, WorkKeeps
  <2>7. CASE (\E a \in Approvals : RequestExpires(a)) \/ RegistryMoves \/ ScopeChanges
    BY <1>1, <2>7, ScopeKeeps
  <2>8. CASE Crash
    BY <1>1, <2>8, CrashKeeps
  <2>9. CASE Restart
    BY <1>1, <2>9, RestartKeeps
  <2>10. CASE UNCHANGED vars
    <3>1. TypeOK'
      BY <1>1, <2>10 DEF vars, storeVars, approvalVars, scopeVars, workVars, runVars, Inv, TypeOK
    <3>2. /\ Known' /\ Unspawned' /\ QueuedHasWorker' /\ Synced' /\ Remembered'
          /\ Handling'
      BY <1>1, <2>10 DEF vars, storeVars, approvalVars, scopeVars, workVars, runVars, Inv,
         Known, KeysKnown, Unspawned, QueuedHasWorker, Synced, Remembered, Handling
    <3> QED BY <3>1, <3>2 DEF Inv
  <2> QED
    BY <1>1, <2>1, <2>2, <2>3, <2>4, <2>5, <2>6, <2>7, <2>8, <2>9, <2>10 DEF Next
<1> QED BY <1>1, InitInv, PTL DEF Spec

-----------------------------------------------------------------------------
\* Both stores, their files, the workers and the scope keep their types, whatever
\* writes fail and whenever the controller crashes.
THEOREM ApprovalTypeCorrect == Spec => []TypeOK
<1>1. Inv => TypeOK
  BY DEF Inv
<1> QED BY <1>1, Invariant, PTL

\* However many requests are filed for an Operation, however often and in whatever
\* order they are resolved, it is given one worker at most, and none once it is denied
\* (approval.resolve acts only on approval_wait).
THEOREM ApprovalWorkersMatchVerdicts == Spec => []WorkersMatchVerdicts
<1>1. ASSUME Inv PROVE WorkersMatchVerdicts
  BY <1>1 DEF Inv, Unspawned, WorkersMatchVerdicts
<1> QED BY <1>1, Invariant, PTL

\* ApprovalStore::resolve never confirms both decisions on one request, across
\* crashes too, as long as no write has failed.
THEOREM ApprovalDecisionIsFinal == Spec => []DecisionIsFinal
<1>1. ASSUME Inv PROVE DecisionIsFinal
  BY <1>1 DEF Inv, Remembered, DecisionIsFinal, AcknowledgedDecisionIsFinal, Decisions
<1> QED BY <1>1, Invariant, PTL

\* An Operation that approval.resolve has queued has a worker until it is started or
\* sealed, as long as no write has failed; a restart leaves none queued for nobody.
THEOREM ApprovalQueuedHasWorker == Spec => []QueuedHasWorker
<1>1. Inv => QueuedHasWorker
  BY DEF Inv
<1> QED BY <1>1, Invariant, PTL
=============================================================================
