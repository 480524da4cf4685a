------------------------------ MODULE ApprovalFlow ------------------------------
(***************************************************************************)
(* Invocations that need an approval: durable_approval_required_response   *)
(* and the approval.resolve handler of apps/star-controller/src/main.rs,   *)
(* the ApprovalStore of approval_store.rs and its file.                    *)
(*                                                                         *)
(* The first call creates an Operation, moves it to approval_wait and      *)
(* files an approval request; the resolution records a decision and, if    *)
(* the scope is still live, seals the Operation as denied or queues it and *)
(* spawns a worker.  The two stores are two files, written one after the   *)
(* other; either write may fail, the controller may crash between them,    *)
(* and workers go on beside the request loop meanwhile.  Requests          *)
(* expire; the registry revision, the trust in the package and the project *)
(* directory may change while a request is open.  What a worker does is in *)
(* module ToolDispatch: here it starts, records its process and completes. *)
(***************************************************************************)
EXTENDS OperationRecord, Naturals

CONSTANTS Ops, Keys, NoKey, None,
          Approvals,     \* ApprovalId values, never issued twice
          Cancellable,   \* Process backend with a cancel mode, per invocation
          MaxRevision,   \* how far registry.revision advances
          MaxFailures,   \* how many writes of the two stores fail
          MaxCrashes     \* how often the controller crashes

ASSUME ApprovalAssumption ==
    /\ Cancellable \in [Invocations -> BOOLEAN]
    /\ NoKey \notin Keys
    /\ {MaxRevision, MaxFailures, MaxCrashes} \subseteq Nat

VARIABLES operations, idempotency,   \* the Operation store in memory
          disk,                      \* operations.v1.json
          approvals,                 \* the approval store in memory
          approvalDisk,              \* approvals.v1.json
          expired,                   \* approval requests past expires_at
          task,                      \* the worker of each Operation
          spawned,                   \* how many workers an Operation was given
          answered,                  \* decisions that were answered with Ok
          resolving,                 \* the decision approval.resolve has recorded and
                                     \* not yet acted upon, if any
          revision, trusted, directory,   \* what approval.resolve validates again
          up, failures, crashes

storeVars == <<operations, idempotency, disk>>
approvalVars == <<approvals, approvalDisk>>
scopeVars == <<revision, trusted, directory>>
workVars == <<task, spawned>>
runVars == <<up, crashes>>
vars == <<storeVars, approvalVars, scopeVars, workVars, runVars, expired, answered, resolving,
          failures>>

Revisions == 0 .. MaxRevision

Decisions == {"approve", "deny"}

\* An ApprovalRecord; told says whether a client ever got its id.
ApprovalRecords == [operation_id : Ops, expected_revision : Revisions,
                    decision : Decisions \cup {"none"}, told : BOOLEAN]

IdempotencyRecords == [operation_id : Ops, invocation_hash : Invocations]
OperationTables == [Ops -> Snapshots \cup {None}]
KeyTables == [Keys -> IdempotencyRecords \cup {None}]
ApprovalTables == [Approvals -> ApprovalRecords \cup {None}]

ASSUME NoneAssumption ==
    None \notin Snapshots /\ None \notin IdempotencyRecords /\ None \notin ApprovalRecords

NoOperations == [o \in Ops |-> None]
NoBindings == [k \in Keys |-> None]
NoApprovals == [a \in Approvals |-> None]

Init ==
    /\ operations = NoOperations
    /\ idempotency = NoBindings
    /\ disk = [operations |-> NoOperations, idempotency |-> NoBindings]
    /\ approvals = NoApprovals
    /\ approvalDisk = NoApprovals
    /\ expired = {}
    /\ task = [o \in Ops |-> "none"]
    /\ spawned = [o \in Ops |-> 0]
    /\ answered = {} /\ resolving = {}
    /\ revision = 0 /\ trusted = TRUE /\ directory = TRUE
    /\ up = TRUE /\ failures = 0 /\ crashes = 0

\* Either store writes its whole file; a failed write leaves the old file or,
\* when only the DACL call failed, the new one.
WriteResults == {"written", "lost", "dacl"}

Failed(p) == IF p = "written" THEN 0 ELSE 1

CountFailures(n) == failures' = failures + n /\ failures' <= MaxFailures

SaveOperations(ops, idem, p) ==
    /\ operations' = ops
    /\ idempotency' = idem
    /\ disk' = IF p = "lost" THEN disk ELSE [operations |-> ops, idempotency |-> idem]

SaveApprovals(records, p) ==
    /\ approvals' = records
    /\ approvalDisk' = IF p = "lost" THEN approvalDisk ELSE records

\* The handlers run one at a time in the request loop.
LoopIsFree == up /\ resolving = {}

-----------------------------------------------------------------------------
(* tool.invoke when the permission decision is Prompt *)

Waiting(s) == TryTransition(TryTransition(s, "resolving"), "approval_wait")

\* ApprovalStore::create: always a new record with a new id.
FileApproval(a, o, rev, p) ==
    /\ approvals[a] = None /\ approvalDisk[a] = None
    /\ SaveApprovals([approvals EXCEPT ![a] =
            [operation_id |-> o, expected_revision |-> rev, decision |-> "none",
             told |-> p = "written"]], p)

\* Operation o, with record s, is moved to approval_wait by two writes.  One that
\* fails is ignored and leaves the record half-way in the file (load seals it in
\* either state); then a request is filed, with the client's expected_revision or
\* the current one.
AskFor(o, s, idem, a, rev, p, q) ==
    LET file(t) == [operations |-> [operations EXCEPT ![o] = t], idempotency |-> idem]
    IN  /\ operations' = [operations EXCEPT ![o] = Waiting(s)]
        /\ idempotency' = idem
        /\ IF Waiting(s) = s THEN p = "written" /\ UNCHANGED disk
           ELSE disk' = file(IF p = "lost" THEN TryTransition(s, "resolving") ELSE Waiting(s))
        /\ IF directory
           THEN FileApproval(a, o, rev, q) /\ CountFailures(Failed(p) + Failed(q))
           ELSE UNCHANGED approvalVars /\ CountFailures(Failed(p)) /\ q = "written"
        /\ UNCHANGED <<scopeVars, workVars, runVars, expired, answered, resolving>>

Unused(o) == operations[o] = None /\ disk.operations[o] = None /\ spawned[o] = 0

Bind(k, o, i) ==
    IF k = NoKey THEN idempotency
    ELSE [idempotency EXCEPT ![k] = [operation_id |-> o, invocation_hash |-> i]]

\* create has written the Operation.
AskFresh(i, k, o, a, rev, p, q) ==
    /\ LoopIsFree /\ trusted
    /\ Unused(o)
    /\ k # NoKey => idempotency[k] = None
    /\ AskFor(o, NewOperation(i, Cancellable[i]), Bind(k, o, i), a, rev, p, q)

\* create cannot write the Operation: an error answer, and memory keeps it.
AskUnrecorded(i, k, o, p) ==
    /\ LoopIsFree /\ trusted
    /\ Unused(o)
    /\ k # NoKey => idempotency[k] = None
    /\ p # "written"
    /\ SaveOperations([operations EXCEPT ![o] = NewOperation(i, Cancellable[i])],
                      Bind(k, o, i), p)
    /\ CountFailures(1)
    /\ UNCHANGED <<approvalVars, scopeVars, workVars, runVars, expired, answered, resolving>>

\* The key is bound to this invocation: the same Operation, a further request.
AskReplay(k, a, rev, p, q) ==
    /\ LoopIsFree /\ trusted
    /\ idempotency[k] # None
    /\ LET o == idempotency[k].operation_id
       IN  AskFor(o, operations[o], idempotency, a, rev, p, q)

-----------------------------------------------------------------------------
(* approval.resolve *)

\* Faulty variant of Resolvable: a later decision replaces the first.
ResolvableAgain(a, d) == approvals[a].decision # "none" \/ a \notin expired

\* ApprovalStore::resolve: an open request that has not expired, or the same
\* decision once more.
Resolvable(a, d) ==
    IF approvals[a].decision = "none" THEN a \notin expired ELSE approvals[a].decision = d

ScopeIsLive(a) == trusted /\ directory /\ approvals[a].expected_revision = revision

\* The first decision is recorded in memory before it is written.
RecordDecision(a, d, q) ==
    IF approvals[a].decision = "none"
    THEN SaveApprovals([approvals EXCEPT ![a].decision = d], q)
    ELSE q = "written" /\ UNCHANGED approvalVars

\* A client resolves a request it was told of.
Resolves(a, d) ==
    /\ LoopIsFree
    /\ approvals[a] # None /\ approvals[a].told
    /\ Resolvable(a, d)

\* The approval store refuses, or cannot write: POLICY_APPROVAL_STALE.
ResolveRefused(a, d, q) ==
    /\ Resolves(a, d) /\ q # "written"
    /\ RecordDecision(a, d, q)
    /\ CountFailures(1)
    /\ UNCHANGED <<storeVars, scopeVars, workVars, runVars, expired, answered, resolving>>

\* The decision is on record; the handler goes on to the Operation.
Decide(a, d) ==
    /\ Resolves(a, d)
    /\ RecordDecision(a, d, "written")
    /\ resolving' = {<<a, d>>}
    /\ UNCHANGED <<storeVars, scopeVars, workVars, runVars, expired, answered, failures>>

Decided(a, d) == up /\ <<a, d>> \in resolving

\* The Operation of request a, in memory: waiting, gone on, or not there (its
\* own write had failed before a crash).
StatusOf(a) == IF operations[approvals[a].operation_id] = None THEN "absent"
               ELSE operations[approvals[a].operation_id].status

Answered(a, d) == answered' = answered \cup {<<a, d>>}

\* The Operation has left approval_wait: Ok, with the Operation as it is.
ResolveExisting(a, d) ==
    /\ Decided(a, d)
    /\ StatusOf(a) \notin {"approval_wait", "absent"}
    /\ Answered(a, d)
    /\ resolving' = {}
    /\ UNCHANGED <<storeVars, approvalVars, scopeVars, workVars, runVars, expired, failures>>

\* The decision stands, but its scope is not live or its Operation is gone:
\* POLICY_APPROVAL_STALE.
ResolveStale(a, d) ==
    /\ Decided(a, d)
    /\ StatusOf(a) = "absent" \/ (StatusOf(a) = "approval_wait" /\ ~ScopeIsLive(a))
    /\ resolving' = {}
    /\ UNCHANGED <<storeVars, approvalVars, scopeVars, workVars, runVars, expired, answered,
                   failures>>

Spawn(o) ==
    /\ task' = [task EXCEPT ![o] = "queued"]
    /\ spawned' = [spawned EXCEPT ![o] = @ + 1]

\* The Operation is denied, or queued and given a worker.  If that cannot be
\* written the answer is POLICY_APPROVAL_STALE and no worker is spawned.
TakeEffect(a, d, p) ==
    LET o == approvals[a].operation_id
        next == IF d = "approve" THEN "queued" ELSE "denied"
    IN  /\ SaveOperations([operations EXCEPT ![o] = Transitioned(@, next)], idempotency, p)
        /\ CountFailures(Failed(p))
        /\ IF d = "approve" /\ p = "written" THEN Spawn(o) ELSE UNCHANGED workVars
        /\ IF p = "written" THEN Answered(a, d) ELSE UNCHANGED answered

\* Faulty variant of Resolve: the state of the Operation is not looked at.
ResolveAnyState(a, d, p) ==
    /\ Decided(a, d)
    /\ StatusOf(a) # "absent" /\ ScopeIsLive(a)
    /\ TakeEffect(a, d, p)
    /\ resolving' = {}
    /\ UNCHANGED <<approvalVars, scopeVars, runVars, expired>>

Resolve(a, d, p) ==
    /\ Decided(a, d)
    /\ StatusOf(a) = "approval_wait" /\ ScopeIsLive(a)
    /\ TakeEffect(a, d, p)
    /\ resolving' = {}
    /\ UNCHANGED <<approvalVars, scopeVars, runVars, expired>>

-----------------------------------------------------------------------------
(* Beside the two handlers *)

Change(o, record, p) ==
    /\ IF record = operations[o]
       THEN p = "written" /\ UNCHANGED storeVars
       ELSE SaveOperations([operations EXCEPT ![o] = record], idempotency, p)
    /\ CountFailures(Failed(p))

\* operation.cancel (the token it also sets is in ToolDispatch).
Cancel(o, p) ==
    /\ LoopIsFree
    /\ operations[o] # None
    /\ Change(o, CancelIntent(operations[o]), p)
    /\ UNCHANGED <<approvalVars, scopeVars, workVars, runVars, expired, answered, resolving>>

\* The worker leaves the queue ...
WorkerStarts(o, p) ==
    /\ up /\ task[o] = "queued"
    /\ task' = [task EXCEPT ![o] = "running"]
    /\ Change(o, TryTransition(operations[o], "starting"), p)
    /\ UNCHANGED <<approvalVars, scopeVars, spawned, runVars, expired, answered, resolving>>

\* ... records the start of its process (if it runs one) ...
WorkerRecordsStart(o, p) ==
    /\ up /\ task[o] = "running"
    /\ CanRecordStart(operations[o])
    /\ Change(o, ProcessStarted(operations[o]), p)
    /\ UNCHANGED <<approvalVars, scopeVars, workVars, runVars, expired, answered, resolving>>

\* ... or gives up in the queue; either way it completes the Operation.
WorkerEnds(o, r, p) ==
    /\ up /\ task[o] # "none"
    /\ task[o] = "queued" => r = "error"
    /\ task' = [task EXCEPT ![o] = "none"]
    /\ Change(o, Complete(operations[o], r), p)
    /\ UNCHANGED <<approvalVars, scopeVars, spawned, runVars, expired, answered, resolving>>

\* approval_ttl_ms passes; nothing in the controller acts on it.
RequestExpires(a) ==
    /\ a \notin expired
    /\ approvals[a] # None \/ approvalDisk[a] # None
    /\ expired' = expired \cup {a}
    /\ UNCHANGED <<storeVars, approvalVars, scopeVars, workVars, runVars, answered, resolving,
                   failures>>

RegistryMoves ==
    /\ resolving = {}
    /\ revision < MaxRevision
    /\ revision' = revision + 1
    /\ UNCHANGED <<storeVars, approvalVars, trusted, directory, workVars, runVars, expired,
                   answered, resolving, failures>>

\* The loop revokes or grants trust; the project directory goes or comes back.
ScopeChanges ==
    /\ \/ resolving = {} /\ trusted' = ~trusted /\ UNCHANGED directory
       \/ directory' = ~directory /\ UNCHANGED trusted
    /\ UNCHANGED <<storeVars, approvalVars, revision, workVars, runVars, expired, answered,
                   resolving, failures>>

Crash ==
    /\ up /\ crashes < MaxCrashes
    /\ up' = FALSE
    /\ crashes' = crashes + 1
    /\ operations' = NoOperations
    /\ idempotency' = NoBindings
    /\ approvals' = NoApprovals
    /\ task' = [o \in Ops |-> "none"]
    /\ resolving' = {}
    /\ UNCHANGED <<disk, approvalDisk, spawned, scopeVars, expired, answered, failures>>

\* Faulty variant of RecoveredOperations: the file is taken as it is.
RecoveredAsWritten == disk.operations

RecoveredOperations ==
    [o \in Ops |-> IF disk.operations[o] = None THEN None ELSE Recovered(disk.operations[o])]

\* Both stores load: open Operations are sealed, requests stay as they are.
Restart ==
    /\ ~up
    /\ up' = TRUE
    /\ operations' = RecoveredOperations
    /\ idempotency' = disk.idempotency
    /\ disk' = [disk EXCEPT !.operations = RecoveredOperations]
    /\ approvals' = approvalDisk
    /\ UNCHANGED <<approvalDisk, scopeVars, workVars, crashes, expired, answered, resolving,
                   failures>>

-----------------------------------------------------------------------------
Next ==
    \/ \E i \in Invocations, k \in Keys \cup {NoKey}, o \in Ops, p \in WriteResults :
          \/ \E a \in Approvals, rev \in Revisions, q \in WriteResults :
                AskFresh(i, k, o, a, rev, p, q)
          \/ AskUnrecorded(i, k, o, p)
    \/ \E k \in Keys, a \in Approvals, rev \in Revisions, p, q \in WriteResults :
          AskReplay(k, a, rev, p, q)
    \/ \E a \in Approvals, d \in Decisions :
          \/ \E p \in WriteResults : ResolveRefused(a, d, p) \/ Resolve(a, d, p)
          \/ Decide(a, d)
          \/ ResolveExisting(a, d)
          \/ ResolveStale(a, d)
    \/ \E o \in Ops, p \in WriteResults :
          \/ Cancel(o, p)
          \/ WorkerStarts(o, p)
          \/ WorkerRecordsStart(o, p)
          \/ \E r \in Outcomes : WorkerEnds(o, r, p)
    \/ \E a \in Approvals : RequestExpires(a)
    \/ RegistryMoves
    \/ ScopeChanges
    \/ Crash
    \/ Restart

Spec == Init /\ [][Next]_vars

(***************************************************************************)
(* Fairness: the clock passes every expires_at and every worker ends.      *)
(* Nobody has to decide, to cancel or to keep the registry as it is.       *)
(***************************************************************************)
Fairness ==
    /\ \A a \in Approvals : WF_vars(RequestExpires(a))
    /\ \A o \in Ops : WF_vars(\E p \in WriteResults :
                        WorkerStarts(o, p) \/ \E r \in Outcomes : WorkerEnds(o, r, p))

FairSpec == Spec /\ Fairness

-----------------------------------------------------------------------------
(* Properties *)

\* Every variable has its type.
TypeOK ==
    /\ operations \in OperationTables
    /\ idempotency \in KeyTables
    /\ disk \in [operations : OperationTables, idempotency : KeyTables]
    /\ approvals \in ApprovalTables
    /\ approvalDisk \in ApprovalTables
    /\ expired \subseteq Approvals
    /\ answered \subseteq Approvals \X Decisions
    /\ resolving \subseteq Approvals \X Decisions
    /\ task \in [Ops -> {"none", "queued", "running"}]
    /\ spawned \in [Ops -> Nat]
    /\ revision \in Revisions /\ {trusted, directory, up} \subseteq BOOLEAN
    /\ failures \in 0 .. MaxFailures /\ crashes \in 0 .. MaxCrashes

\* An Operation gets one worker at most, however many requests were filed for it and
\* however often a decision is repeated; a denied one gets none, in memory or in the
\* file, not after a failed write and not after a restart.
WorkersMatchVerdicts ==
    \A o \in Ops :
       /\ spawned[o] <= 1
       /\ \A s \in {operations[o], disk.operations[o]} :
             s # None /\ s.status = "denied" => spawned[o] = 0

\* Two opposite decisions on one request are never both answered with Ok.
AcknowledgedDecisionIsFinal ==
    \A a \in Approvals : ~({<<a, "approve">>, <<a, "deny">>} \subseteq answered)

\* ... neither before nor after a crash, as long as no write has failed.
DecisionIsFinal == failures = 0 => AcknowledgedDecisionIsFinal

\* An Operation that the approval made runnable has a worker to run it, as
\* long as no write has failed: a crash in between loses both, and the
\* restart seals the Operation instead of leaving it queued for nobody.
QueuedHasWorker ==
    \A o \in Ops : /\ up /\ failures = 0
                   /\ operations[o] # None /\ operations[o].status = "queued"
                   => task[o] # "none"

IsWaiting(o) == operations[o] # None /\ operations[o].status = "approval_wait"

\* Waiting for an approval comes to an end, by a decision or by expiry.
ApprovalWaitEnds == \A o \in Ops : IsWaiting(o) ~> ~IsWaiting(o)
=============================================================================
