------------------------------ MODULE ToolDispatch ------------------------------
(***************************************************************************)
(* How the controller runs a tool: the tool.invoke, operation.cancel and   *)
(* controller.shutdown handlers and the worker task of                     *)
(* apps/star-controller/src/main.rs, the process launcher of               *)
(* process_runtime/win32_launcher.rs, and the restart after a stop.        *)
(*                                                                         *)
(* The handlers run one at a time in the IPC loop; the workers run beside  *)
(* it and beside each other.  They share the Operation store (one mutex,   *)
(* written to disk on every change), the map of cancellation tokens and    *)
(* the concurrency gate.  A process is created suspended inside a Job,     *)
(* recorded durably, and only then resumed.                                *)
(*                                                                         *)
(* A graceful exit leaves the IPC loop and returns from #[tokio::main]:    *)
(* the single-instance mutex, the pipe, the tasks and their leases are     *)
(* dropped, but the runtime waits, for as long as it takes, for the work   *)
(* on its blocking threads: the launcher of a process and the blocking     *)
(* controller commands.  That work goes on, with the Operation store of    *)
(* the controller it belonged to, beside the next controller.  Only a      *)
(* crash closes the Jobs at once.  Approval-gated invocations are in       *)
(* module ApprovalFlow, the retention of sealed records in module          *)
(* OperationStore.                                                         *)
(***************************************************************************)
EXTENDS OperationRecord, Naturals

CONSTANTS Ops, Keys, NoKey, None, Workers, Tools, Locks, NoLease,
          Backend,       \* "process" or "command" for each invocation
          Cancellable,   \* effective_cancel_mode(...) # "none"
          GateRequest,   \* the GateRequest built for each invocation
          MaxFailures,   \* how many writes of the store fail
          MaxStops       \* how often the controller stops or crashes

Requests == {GateRequest[i] : i \in Invocations}

ASSUME DispatchAssumption ==
    /\ Backend \in [Invocations -> {"process", "command"}]
    /\ Cancellable \in [Invocations -> BOOLEAN]
    \* a ControllerCommand has no cancel mode (manifest.rs refuses one)
    /\ \A i \in Invocations : Backend[i] = "command" => ~Cancellable[i]
    /\ GateRequest \in [Invocations -> [tool_id : Tools, max_parallel : Nat, locks : SUBSET Locks]]
    /\ NoLease \notin Requests
    /\ NoKey \notin Keys
    /\ IsFiniteSet(Workers)
    /\ {MaxFailures, MaxStops} \subseteq Nat

IdempotencyRecords == [operation_id : Ops, invocation_hash : Invocations]
OperationTables == [Ops -> Snapshots \cup {None}]
KeyTables == [Keys -> IdempotencyRecords \cup {None}]

ASSUME NoneAssumption ==
    /\ None \notin Snapshots /\ None \notin IdempotencyRecords
    /\ None \notin Ops /\ None \notin Workers

VARIABLES operations,   \* the store in memory
          idempotency,  \* its idempotency table in memory
          disk,         \* the file of the store
          issued,       \* operation ids given out
          worker,       \* each task: where it is, its Operation, its result
          lease,        \* the GateLease each task holds
          tokens,       \* cancellation_tokens: the task whose token is filed
          cancelled,    \* tasks whose RuntimeCancellation is set
          mode,         \* what the controller is doing
          toForce,      \* (operation, task) pairs the shutdown has yet to cancel
          former,       \* what each controller that exited still has under way
          effects,      \* how often an Operation's work was set running
          failures, stops

storeVars == <<operations, idempotency, disk, issued, failures>>
taskVars  == <<worker, lease, tokens, cancelled>>
modeVars  == <<mode, toForce, stops, former>>
vars == <<storeVars, taskVars, modeVars, effects>>

Gate == INSTANCE LeaseTable WITH lease <- lease

Phases == {"free", "queue", "waiting", "granted", "launch", "body", "suspended",
           "recorded", "process", "ended", "unwind", "report"}

Idle == [phase |-> "free", op |-> None, outcome |-> "none"]

Rows == [Workers -> [phase : Phases, op : Ops \cup {None}, outcome : Outcomes \cup {"none"}]]

Record(w) == operations[worker[w].op]

Request(w) == GateRequest[Record(w).invocation]

\* The work of an Operation is under way in task w.
Working(w) == worker[w].phase \in {"body", "process"}

NoOperations == [o \in Ops |-> None]
NoBindings == [k \in Keys |-> None]

\* Controllers are numbered by the stop that ended them.
Controllers == 1 .. MaxStops

\* A process of star-controller that is over, or was never there.
Gone == [operations |-> NoOperations, idempotency |-> NoBindings,
         worker |-> [w \in Workers |-> Idle]]

Init ==
    /\ operations = NoOperations
    /\ idempotency = NoBindings
    /\ disk = [operations |-> NoOperations, idempotency |-> NoBindings]
    /\ issued = {}
    /\ worker = [w \in Workers |-> Idle]
    /\ lease = [w \in Workers |-> NoLease]
    /\ tokens = [o \in Ops |-> None]
    /\ cancelled = {}
    /\ mode = "serving"
    /\ toForce = {}
    /\ former = [c \in Controllers |-> Gone]
    /\ effects = [o \in Ops |-> 0]
    /\ failures = 0
    /\ stops = 0

WriteResults == {"written", "lost", "dacl"}

CountFailure(p) ==
    /\ failures' = failures + (IF p = "written" THEN 0 ELSE 1)
    /\ failures' <= MaxFailures

\* The store rewrites its file (OperationStore!Persist).
Save(ops, idem, p) ==
    /\ operations' = ops
    /\ idempotency' = idem
    /\ disk' = IF p = "lost" THEN disk ELSE [operations |-> ops, idempotency |-> idem]
    /\ CountFailure(p)

\* A method that may leave the record alone writes only if it changed it.
SaveRecord(o, record, p) ==
    /\ IF record = operations[o]
       THEN p = "written" /\ UNCHANGED <<operations, idempotency, disk, failures>>
       ELSE Save([operations EXCEPT ![o] = record], idempotency, p)
    /\ UNCHANGED issued

-----------------------------------------------------------------------------
(* tool.invoke, after its checks have passed *)

Queued(record) == TryTransition(TryTransition(record, "resolving"), "queued")

\* A new task for Operation o: its own token replaces the one filed.
Spawn(o, w) ==
    /\ worker[w] = Idle
    /\ worker' = [worker EXCEPT ![w] = [phase |-> "queue", op |-> o, outcome |-> "none"]]
    /\ tokens' = [tokens EXCEPT ![o] = w]
    /\ cancelled' = cancelled \ {w}
    /\ UNCHANGED lease

Bind(k, o, i) ==
    IF k = NoKey THEN idempotency
    ELSE [idempotency EXCEPT ![k] = [operation_id |-> o, invocation_hash |-> i]]

\* A new Operation is created and written, then moved to queued (a write that
\* fails here is ignored and leaves the created record in the file) and handed
\* to a task.
InvokeFresh(i, k, o, w, p) ==
    LET created == NewOperation(i, Cancellable[i])
    IN  /\ mode = "serving"
        /\ o \notin issued
        /\ k # NoKey => idempotency[k] = None
        /\ issued' = issued \cup {o}
        /\ operations' = [operations EXCEPT ![o] = Queued(created)]
        /\ idempotency' = Bind(k, o, i)
        /\ disk' = [operations  |-> [operations EXCEPT ![o] =
                                       IF p = "lost" THEN created ELSE Queued(created)],
                    idempotency |-> Bind(k, o, i)]
        /\ CountFailure(p)
        /\ Spawn(o, w)
        /\ UNCHANGED <<modeVars, effects>>

\* create cannot write: an error answer and no task, but memory keeps the
\* record and the key.
InvokeUnrecorded(i, k, o, p) ==
    /\ mode = "serving"
    /\ o \notin issued
    /\ k # NoKey => idempotency[k] = None
    /\ p # "written"
    /\ issued' = issued \cup {o}
    /\ Save([operations EXCEPT ![o] = NewOperation(i, Cancellable[i])], Bind(k, o, i), p)
    /\ UNCHANGED <<taskVars, modeVars, effects>>

\* The key is bound to the same invocation: create answers with the existing
\* Operation, and the handler goes on with it exactly as with a new one.
InvokeReplay(k, w, p) ==
    LET o == idempotency[k].operation_id
    IN  /\ mode = "serving"
        /\ idempotency[k] # None
        /\ SaveRecord(o, Queued(operations[o]), p)
        /\ Spawn(o, w)
        /\ UNCHANGED <<modeVars, effects>>

-----------------------------------------------------------------------------
(* The worker task *)

At(w, ph) == worker[w].phase = ph

Move(w, ph) == worker' = [worker EXCEPT ![w].phase = ph]

\* The task goes to phase ph with the answer of its backend.
Answer(w, ph, r) == worker' = [worker EXCEPT ![w].phase = ph, ![w].outcome = r]

\* Faulty variant of EnterGate: the gate looks at the count only.
EnterGateToolOnly(w) ==
    /\ worker[w].phase \in {"queue", "waiting"}
    /\ lease[w] = NoLease
    /\ Cardinality(Gate!HoldersOf(Request(w).tool_id)) < Gate!Limit(Request(w))
    /\ lease' = [lease EXCEPT ![w] = Request(w)]
    /\ Move(w, "granted")
    /\ UNCHANGED <<storeVars, tokens, cancelled, modeVars, effects>>

EnterGate(w) ==
    /\ worker[w].phase \in {"queue", "waiting"}
    /\ Gate!Grant(w, Request(w))
    /\ Move(w, "granted")
    /\ UNCHANGED <<storeVars, tokens, cancelled, modeVars, effects>>

RefusedByGate(w) ==
    /\ At(w, "queue")
    /\ ~Gate!Grantable(Request(w))
    /\ Move(w, "waiting")
    /\ UNCHANGED <<storeVars, lease, tokens, cancelled, modeVars, effects>>

\* complete, and the token filed for the Operation is removed.
Finish(w, r, p) ==
    /\ SaveRecord(worker[w].op, Complete(Record(w), r), p)
    /\ tokens' = [tokens EXCEPT ![worker[w].op] = None]
    /\ worker' = [worker EXCEPT ![w] = Idle]

\* Err(QueueTimeout): TOOL_QUEUE_TIMEOUT ends the Operation.
QueueTimeout(w, p) ==
    /\ At(w, "waiting")
    /\ Finish(w, "error", p)
    /\ UNCHANGED <<lease, cancelled, modeVars, effects>>

\* transition(starting); a refusal is ignored.
Start(w, p) ==
    /\ At(w, "granted")
    /\ SaveRecord(worker[w].op, TryTransition(Record(w), "starting"), p)
    /\ Move(w, "launch")
    /\ UNCHANGED <<lease, tokens, cancelled, modeVars, effects>>

Effect(w) == effects' = [effects EXCEPT ![worker[w].op] = @ + 1]

\* run_authorized_controller_command: no start observer.  Only validation.run
\* is handed the token, which only a shutdown sets, and it answers an error.
RunCommand(w) ==
    /\ At(w, "launch")
    /\ Backend[Record(w).invocation] = "command"
    /\ Move(w, "body")
    /\ Effect(w)
    /\ UNCHANGED <<storeVars, lease, tokens, cancelled, modeVars>>

CommandEnds(w, r) ==
    /\ At(w, "body")
    /\ r \in {"ok", "error"}
    /\ Answer(w, "unwind", r)
    /\ UNCHANGED <<storeVars, lease, tokens, cancelled, modeVars, effects>>

\* Faulty variant of LaunchFails: an early return past the completion of the Operation.
LaunchFailsSilent(w) ==
    /\ At(w, "launch")
    /\ Gate!GiveBack(w)
    /\ worker' = [worker EXCEPT ![w] = Idle]
    /\ UNCHANGED <<storeVars, tokens, cancelled, modeVars, effects>>

\* Preparation fails: arguments, working directory, trust lease, CreateProcess,
\* Job assignment, GetProcessTimes; for a command, no handler or no management
\* service.
LaunchFails(w) ==
    /\ At(w, "launch")
    /\ Answer(w, "unwind", "error")
    /\ UNCHANGED <<storeVars, lease, tokens, cancelled, modeVars, effects>>

\* The launcher only ever sees the token of a cancellable action.
SeesCancel(w) == Cancellable[Record(w).invocation] /\ w \in cancelled

LaunchCancelled(w) ==
    /\ At(w, "launch")
    /\ Backend[Record(w).invocation] = "process"
    /\ SeesCancel(w)
    /\ Answer(w, "unwind", "cancelled")
    /\ UNCHANGED <<storeVars, lease, tokens, cancelled, modeVars, effects>>

\* Faulty variant of CreateSuspended: the process runs before it is recorded.
CreateRunning(w) ==
    /\ At(w, "launch")
    /\ Backend[Record(w).invocation] = "process"
    /\ ~SeesCancel(w)
    /\ Move(w, "process")
    /\ Effect(w)
    /\ UNCHANGED <<storeVars, lease, tokens, cancelled, modeVars>>

\* CreateProcess SUSPENDED, image check, assignment to the Job.
CreateSuspended(w) ==
    /\ At(w, "launch")
    /\ Backend[Record(w).invocation] = "process"
    /\ ~SeesCancel(w)
    /\ Move(w, "suspended")
    /\ UNCHANGED <<storeVars, lease, tokens, cancelled, modeVars, effects>>

\* Faulty variant of RecordStart: the answer of the observer is ignored.
RecordStartUnchecked(w, p) ==
    /\ At(w, "suspended")
    /\ IF CanRecordStart(Record(w))
       THEN Save([operations EXCEPT ![worker[w].op] = ProcessStarted(@)], idempotency, p)
       ELSE p = "written" /\ UNCHANGED <<operations, idempotency, disk, failures>>
    /\ UNCHANGED issued
    /\ Move(w, "recorded")
    /\ UNCHANGED <<lease, tokens, cancelled, modeVars, effects>>

\* The start observer records the process; if it cannot, the process is
\* terminated without ever having been resumed.
RecordStart(w, p) ==
    /\ At(w, "suspended")
    /\ IF CanRecordStart(Record(w))
       THEN Save([operations EXCEPT ![worker[w].op] = ProcessStarted(@)], idempotency, p)
       ELSE p = "written" /\ UNCHANGED <<operations, idempotency, disk, failures>>
    /\ UNCHANGED issued
    /\ IF CanRecordStart(Record(w)) /\ p = "written"
       THEN Move(w, "recorded") ELSE Answer(w, "unwind", "error")
    /\ UNCHANGED <<lease, tokens, cancelled, modeVars, effects>>

Resume(w) ==
    /\ At(w, "recorded")
    /\ Move(w, "process")
    /\ Effect(w)
    /\ UNCHANGED <<storeVars, lease, tokens, cancelled, modeVars>>

ResumeFails(w) ==
    /\ At(w, "recorded")
    /\ Answer(w, "unwind", "error")
    /\ UNCHANGED <<storeVars, lease, tokens, cancelled, modeVars, effects>>

\* The process exits, times out or breaks its protocol or output limit.
ProcessExits(w, r) ==
    /\ At(w, "process")
    /\ r \in {"ok", "error"}
    /\ Answer(w, "ended", r)
    /\ UNCHANGED <<storeVars, lease, tokens, cancelled, modeVars, effects>>

\* The wait loop sees the token: exit within the grace period or Job terminated.
ProcessCancelled(w) ==
    /\ At(w, "process")
    /\ SeesCancel(w)
    /\ Answer(w, "ended", "cancelled")
    /\ UNCHANGED <<storeVars, lease, tokens, cancelled, modeVars, effects>>

\* The Job cannot be terminated: an early return that closes it, and with it
\* the process, but records no end.
TerminateFails(w) ==
    /\ At(w, "process")
    /\ Answer(w, "unwind", "error")
    /\ UNCHANGED <<storeVars, lease, tokens, cancelled, modeVars, effects>>

\* A progress frame: an event for the record, and the whole file written again.
Progress(w, p) ==
    /\ worker[w].phase \in {"process", "ended"}
    /\ ~Terminal(Record(w))
    /\ Save(operations, idempotency, p)
    /\ UNCHANGED <<issued, taskVars, modeVars, effects>>

\* The end observer; if it cannot be recorded the answer becomes a failure.
RecordEnd(w, p) ==
    /\ At(w, "ended")
    /\ SaveRecord(worker[w].op, ProcessFinished(Record(w)), p)
    /\ Answer(w, "unwind", IF p = "written" THEN worker[w].outcome ELSE "error")
    /\ UNCHANGED <<lease, tokens, cancelled, modeVars, effects>>

DropLease(w) ==
    /\ At(w, "unwind")
    /\ Gate!GiveBack(w)
    /\ Move(w, "report")
    /\ UNCHANGED <<storeVars, tokens, cancelled, modeVars, effects>>

Report(w, p) ==
    /\ At(w, "report")
    /\ Finish(w, worker[w].outcome, p)
    /\ UNCHANGED <<lease, cancelled, modeVars, effects>>

-----------------------------------------------------------------------------
(* operation.cancel and request.cancel *)

\* Faulty variant of Cancel: recorded, but the token is not set.
CancelOnRecordOnly(o, p) ==
    /\ mode = "serving"
    /\ operations[o] # None
    /\ SaveRecord(o, CancelIntent(operations[o]), p)
    /\ UNCHANGED <<taskVars, modeVars, effects>>

\* The intent is recorded; if that was written (or there was nothing left to
\* record) and the action is cancellable, the filed token is set.
Cancel(o, p) ==
    LET record == CancelIntent(operations[o])
    IN  /\ mode = "serving"
        /\ operations[o] # None
        /\ SaveRecord(o, record, p)
        /\ cancelled' = IF /\ p = "written"
                           /\ record.cancel_requested /\ record.cancellable
                           /\ tokens[o] # None
                        THEN cancelled \cup {tokens[o]} ELSE cancelled
        /\ UNCHANGED <<worker, lease, tokens, modeVars, effects>>

-----------------------------------------------------------------------------
(* controller.shutdown: graceful_controller_shutdown *)

Filed == {o \in Ops : tokens[o] # None}

BeginShutdown ==
    /\ mode = "serving"
    /\ stops < MaxStops
    /\ mode' = "draining"
    /\ UNCHANGED <<storeVars, taskVars, toForce, stops, former, effects>>

\* Ten seconds have passed and some token is still filed: take the list.
DrainElapsed ==
    /\ mode = "draining"
    /\ Filed # {}
    /\ mode' = "forcing"
    /\ toForce' = {<<o, tokens[o]>> : o \in Filed}
    /\ UNCHANGED <<storeVars, taskVars, stops, former, effects>>

\* One Operation of the list: cancel intent, and its token set with force.
ForceCancel(o, w, p) ==
    /\ mode = "forcing"
    /\ <<o, w>> \in toForce
    /\ toForce' = toForce \ {<<o, w>>}
    /\ SaveRecord(o, CancelIntent(operations[o]), p)
    /\ cancelled' = cancelled \cup {w}
    /\ UNCHANGED <<worker, lease, tokens, mode, stops, former, effects>>

\* Faulty variant of ForcedElapsed: what is left is not recorded.
ForcedElapsedSilent(p) ==
    /\ mode = "forcing"
    /\ toForce = {} /\ Filed # {} /\ p = "written"
    /\ mode' = "closing"
    /\ UNCHANGED <<storeVars, taskVars, toForce, stops, former, effects>>

\* Two more seconds have passed: what is still filed is recorded as it is,
\* under one lock of the store.
ForcedElapsed(p) ==
    /\ mode = "forcing"
    /\ toForce = {}
    /\ Filed # {}
    /\ mode' = "closing"
    /\ Save([o \in Ops |-> IF o \in Filed THEN ForcedShutdown(operations[o])
                                           ELSE operations[o]], idempotency, p)
    /\ UNCHANGED <<issued, taskVars, toForce, stops, former, effects>>

\* The controller no longer serves: its memory, tasks, leases and tokens are dropped.
Vanish ==
    /\ mode' = "down"
    /\ stops' = stops + 1
    /\ operations' = NoOperations
    /\ idempotency' = NoBindings
    /\ worker' = [w \in Workers |-> Idle]
    /\ lease' = [w \in Workers |-> NoLease]
    /\ tokens' = [o \in Ops |-> None]
    /\ cancelled' = {}
    /\ toForce' = {}
    /\ UNCHANGED <<disk, issued, effects, failures>>

\* Faulty variant of ReadyToExit: only once every worker has reported.
ReadyToExitIdle == mode \in {"draining", "forcing"} /\ toForce = {} /\ Filed = {}

\* wait_for_operation_workers saw no token left, or the fail-safe has run.
ReadyToExit ==
    \/ mode \in {"draining", "forcing"} /\ toForce = {} /\ Filed = {}
    \/ mode = "closing"

\* The tasks whose work goes on without the runtime: the launcher of a process
\* that was recorded, and a controller command if it is on a blocking thread
\* (some are async).  A launch that is not that far is dropped or refused: its
\* Operation is sealed, so the start observer answers with an error.
Launched == {w \in Workers : worker[w].phase \in {"recorded", "process", "ended"}}
Commands == {w \in Workers : At(w, "body")}

\* The process of a controller stays until its last blocking thread is done.
Remains(memory, bindings, rows) ==
    IF \A w \in Workers : rows[w] = Idle THEN Gone
    ELSE [operations |-> memory, idempotency |-> bindings, worker |-> rows]

\* What is not on a blocking thread is dropped with the runtime.
Leave(kept) ==
    former' = [former EXCEPT ![stops + 1] = Remains(operations, idempotency,
                 [w \in Workers |-> IF w \in kept THEN worker[w] ELSE Idle])]

\* The loop is left and main returns.
Exit ==
    /\ ReadyToExit
    /\ \E S \in SUBSET Commands : Leave(Launched \cup S)
    /\ Vanish

\* The controller dies, and with its Jobs all its processes.
Crash == mode # "down" /\ stops < MaxStops /\ Vanish /\ UNCHANGED former

RecoveredOperations ==
    [o \in Ops |-> IF disk.operations[o] = None THEN None
                   ELSE Recovered(disk.operations[o])]

Restart ==
    /\ mode = "down"
    /\ mode' = "serving"
    /\ operations' = RecoveredOperations
    /\ idempotency' = disk.idempotency
    /\ disk' = [disk EXCEPT !.operations = RecoveredOperations]
    /\ UNCHANGED <<issued, failures, taskVars, toForce, stops, former, effects>>

-----------------------------------------------------------------------------
(* The blocking threads of a controller that has exited.  Their Operations  *)
(* are sealed in its memory, so that a start or a progress frame is refused *)
(* by the store and only the end of a process is still written.             *)

Row(c, w) == former[c].worker[w]

\* Task w of controller c goes on to phase ph ...
LeftMoves(c, w, ph) == former' = [former EXCEPT ![c].worker[w].phase = ph]

\* ... or is over, its controller's memory being ops.
LeftReturns(c, w, ops) ==
    former' = [former EXCEPT ![c] = Remains(ops, former[c].idempotency,
                                            [former[c].worker EXCEPT ![w] = Idle])]

LeftResumes(c, w) ==
    /\ Row(c, w).phase = "recorded"
    /\ LeftMoves(c, w, "process")
    /\ effects' = [effects EXCEPT ![Row(c, w).op] = @ + 1]
    /\ UNCHANGED <<storeVars, taskVars, mode, toForce, stops>>

\* It exits, or the launcher ends it: at its timeout, or sooner if its action
\* is cancellable.
LeftEnds(c, w) ==
    /\ Row(c, w).phase = "process"
    /\ LeftMoves(c, w, "ended")
    /\ UNCHANGED <<storeVars, taskVars, mode, toForce, stops, effects>>

\* The end observer writes the memory of its own controller over the file.
LeftRecordsEnd(c, w, p) ==
    LET o == Row(c, w).op
        record == former[c].operations[o]
        ops == [former[c].operations EXCEPT ![o] = ProcessFinished(record)]
    IN  /\ Row(c, w).phase = "ended"
        /\ LeftReturns(c, w, ops)
        /\ IF ProcessFinished(record) = record
           THEN p = "written" /\ UNCHANGED <<disk, failures>>
           ELSE /\ disk' = IF p = "lost" THEN disk
                           ELSE [operations |-> ops, idempotency |-> former[c].idempotency]
                /\ CountFailure(p)
        /\ UNCHANGED <<operations, idempotency, issued, taskVars, mode, toForce, stops, effects>>

\* Nothing is written: the process cannot be resumed or terminated, the command
\* returns, or the left-over controller is killed.
LeftStops(c, w) ==
    /\ Row(c, w).phase # "free"
    /\ LeftReturns(c, w, former[c].operations)
    /\ UNCHANGED <<storeVars, taskVars, mode, toForce, stops, effects>>

-----------------------------------------------------------------------------
WorkerStep(w) ==
    \/ EnterGate(w)
    \/ RefusedByGate(w)
    \/ RunCommand(w)
    \/ LaunchFails(w)
    \/ LaunchCancelled(w)
    \/ CreateSuspended(w)
    \/ Resume(w)
    \/ ResumeFails(w)
    \/ ProcessCancelled(w)
    \/ TerminateFails(w)
    \/ DropLease(w)
    \/ \E r \in {"ok", "error"} : CommandEnds(w, r) \/ ProcessExits(w, r)
    \/ \E p \in WriteResults : \/ QueueTimeout(w, p)
                               \/ Start(w, p)
                               \/ RecordStart(w, p)
                               \/ Progress(w, p)
                               \/ RecordEnd(w, p)
                               \/ Report(w, p)

ShutdownStep ==
    \/ DrainElapsed
    \/ Exit
    \/ \E p \in WriteResults :
          ForcedElapsed(p) \/ \E o \in Ops, w \in Workers : ForceCancel(o, w, p)

LeftStep(c) ==
    \E w \in Workers : \/ LeftResumes(c, w)
                       \/ LeftEnds(c, w)
                       \/ LeftStops(c, w)
                       \/ \E p \in WriteResults : LeftRecordsEnd(c, w, p)

Next ==
    \/ \E w \in Workers : WorkerStep(w)
    \/ \E i \in Invocations, k \in Keys \cup {NoKey}, o \in Ops, p \in WriteResults :
          \/ \E w \in Workers : InvokeFresh(i, k, o, w, p)
          \/ InvokeUnrecorded(i, k, o, p)
    \/ \E k \in Keys, w \in Workers, p \in WriteResults : InvokeReplay(k, w, p)
    \/ \E o \in Ops, p \in WriteResults : Cancel(o, p)
    \/ BeginShutdown
    \/ ShutdownStep
    \/ Crash
    \/ Restart
    \/ \E c \in Controllers : LeftStep(c)

Spec == Init /\ [][Next]_vars

(***************************************************************************)
(* Fairness: the shutdown sequence runs on timers.  Where a property needs *)
(* it, every task keeps being polled, every process ends (the launcher     *)
(* enforces spec.timeout) and every controller command returns.  Nothing   *)
(* makes a client call, a crash happen or the controller come back.        *)
(***************************************************************************)
Fairness == WF_vars(ShutdownStep)

FairSpec == Spec /\ Fairness

WorkersRun == \A w \in Workers : WF_vars(WorkerStep(w))

LeftWorkEnds == \A c \in Controllers : WF_vars(LeftStep(c))

-----------------------------------------------------------------------------
(* Properties *)

\* Every variable has its type.
TypeOK ==
    /\ operations \in OperationTables
    /\ idempotency \in KeyTables
    /\ disk \in [operations : OperationTables, idempotency : KeyTables]
    /\ issued \subseteq Ops
    /\ worker \in Rows
    /\ lease \in [Workers -> Requests \cup {NoLease}]
    /\ tokens \in [Ops -> Workers \cup {None}]
    /\ cancelled \subseteq Workers
    /\ mode \in {"serving", "draining", "forcing", "closing", "down"}
    /\ toForce \subseteq Ops \X Workers
    /\ effects \in [Ops -> Nat]
    /\ failures \in 0 .. MaxFailures /\ stops \in 0 .. MaxStops
    /\ former \in [Controllers -> [operations : OperationTables, idempotency : KeyTables,
                                   worker : Rows]]

\* Two requests whose work may go on at the same time.
Admit(r, q) ==
    /\ r.locks \cap q.locks = {}
    /\ r.tool_id = q.tool_id => Gate!Limit(r) > 1 \/ Gate!Limit(q) > 1

LeftWorking(c, w) == Row(c, w).phase \in {"body", "process"}

LeftRecord(c, w) == former[c].operations[Row(c, w).op]

LeftRequest(c, w) == GateRequest[LeftRecord(c, w).invocation]

\* The work of two Operations that share a lock key never overlaps under one
\* controller, and no tool has more work under way than its requests admit,
\* even after that controller has exited and its leases are dropped; work that
\* outlives its controller belongs to an Operation that was sealed before.
WorkIsExclusive ==
    /\ \A v, w \in Workers : v # w /\ Working(v) /\ Working(w) => Admit(Request(v), Request(w))
    /\ \A c \in Controllers : \A v, w \in Workers :
          v # w /\ LeftWorking(c, v) /\ LeftWorking(c, w) => Admit(LeftRequest(c, v), LeftRequest(c, w))
    /\ \A c \in Controllers, w \in Workers : LeftWorking(c, w) => Terminal(LeftRecord(c, w))

\* The same across controllers: a shutdown terminates the Jobs of what does not
\* end by itself, so the work of the controller that serves now does not overlap
\* with work that an earlier one left behind.
ExclusiveAcrossControllers ==
    \A c \in Controllers : \A v, w \in Workers :
        LeftWorking(c, v) /\ Working(w) => Admit(LeftRequest(c, v), Request(w))

\* Memory or the file knows Operation o, as one with a process.
IsProcess(o) == \E s \in {operations[o], disk.operations[o]} :
                  s # None /\ Backend[s.invocation] = "process"

\* The external process of an Operation nobody asked to cancel is set running
\* at most once, however often the same idempotency key is invoked, whatever
\* write fails and whenever the controller crashes and restarts.
ProcessRunsAtMostOnce ==
    \A o \in Ops :
        /\ IsProcess(o)
        /\ \A s \in {operations[o], disk.operations[o]} : s # None => ~s.cancel_requested
        => effects[o] <= 1

\* A record that denies the start of work that was set running.
Denied(o) ==
    /\ effects[o] > 0
    /\ \E s \in {operations[o], disk.operations[o]} : s # None /\ s.error \in NotStartedErrors

\* Once the process of an Operation was resumed, no record ever says that the
\* Operation was cancelled, shut down or recovered before process start: the
\* start is durable before the process is resumed.
ProcessStartNeverDenied == \A o \in Ops : IsProcess(o) => ~Denied(o)

\* The same for every Operation, controller commands included.
StartNeverDenied == \A o \in Ops : ~Denied(o)

\* The work of an Operation is set running at most once, controller commands
\* included: an idempotent replay returns the Operation, it does not run it.
WorkRunsAtMostOnce == \A o \in Ops : effects[o] <= 1

\* While an Operation's process runs its record is open, or says that the
\* outcome is unknown: nobody is told a verdict the process may still change.
RunningMeansOpen ==
    \A w \in Workers : worker[w].phase = "process" =>
        Record(w).status \in {"running", "cancelling", "outcome_unknown"}

\* A recorded cancel reaches the process: while the record says cancelling
\* and the process runs, the token that its wait loop polls is set.
CancelReachesProcess ==
    \A w \in Workers :
        /\ worker[w].phase = "process" /\ Record(w).cancellable
        /\ Record(w).status = "cancelling" /\ mode = "serving" /\ failures = 0
        => w \in cancelled

\* When a graceful shutdown is ready to exit, no Operation is open in the
\* file: the restart has nothing to guess (unless a write failed).
ExitSealsDispatched ==
    ReadyToExit /\ failures = 0 =>
        \A o \in Ops : disk.operations[o] # None => Terminal(disk.operations[o])

\* If no worker hangs, a dispatched Operation is sealed, unless the controller
\* stops first.
DispatchedIsSealed ==
    WorkersRun => \A o \in Ops :
        (operations[o] # None /\ operations[o].status \in {"queued", "starting", "running", "cancelling"})
        ~> (mode = "down" \/ (operations[o] # None /\ Terminal(operations[o])))

\* A shutdown that has begun comes to an end even if every worker hangs: the
\* mutex and the pipe are free for the next controller.  Its process ends too
\* once the work on its blocking threads has ended.
ShutdownEnds ==
    /\ (mode \in {"draining", "forcing", "closing"}) ~> (mode = "down")
    /\ LeftWorkEnds => \A c \in Controllers : (former[c] # Gone) ~> (former[c] = Gone)
=============================================================================
