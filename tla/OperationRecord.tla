---------------------------- MODULE OperationRecord ----------------------------
(***************************************************************************)
(* The durable record of one Operation and what each method of             *)
(* OperationStore (apps/star-controller/src/operation_store.rs) makes of   *)
(* it.  Every operator takes an OperationSnapshot and returns the next one;*)
(* the modules that use it decide when the record is written to disk.      *)
(*                                                                         *)
(* Kept of the snapshot: the status, the cancel flags, whether process     *)
(* start and end evidence is present, the code of the error, whether there *)
(* is a result, how far the 24-hour retention has run, which late evidence *)
(* was noted, and the identity of the invocation.  Timestamps, messages    *)
(* and the event texts are left out.                                       *)
(***************************************************************************)
EXTENDS FiniteSets

CONSTANT Invocations    \* hashes of (tool, descriptor, arguments)

BeforeStart == {"received", "resolving", "approval_wait", "queued", "starting"}
AfterStart  == {"running", "cancelling"}
TerminalStatuses ==
    {"succeeded", "failed", "cancelled", "denied", "expired", "outcome_unknown"}
Statuses == BeforeStart \cup AfterStart \cup TerminalStatuses

Terminal(o) == o.status \in TerminalStatuses

\* The error codes that say no external process was ever started.
NotStartedErrors == {"RECOVERED_BEFORE_START", "CANCELLED_BEFORE_START",
                     "SHUTDOWN_BEFORE_START"}
ErrorCodes == NotStartedErrors \cup {"none", "BACKEND", "OUTCOME_UNKNOWN"}

Snapshots ==
    [invocation       : Invocations,
     status           : Statuses,
     cancellable      : BOOLEAN,
     cancel_requested : BOOLEAN,
     cancel_effective : BOOLEAN,
     process_id       : BOOLEAN,     \* start evidence recorded
     process_ended    : BOOLEAN,     \* process_termination recorded
     result           : BOOLEAN,
     error            : ErrorCodes,
     expires_at       : {"none", "ahead", "past"},
     late             : SUBSET {"success", "failure"}]

\* fn valid_transition
ValidTransitions ==
    ({"received"} \X {"resolving", "approval_wait", "queued"})
    \cup ({"resolving"} \X {"approval_wait", "queued", "failed"})
    \cup ({"approval_wait"} \X {"queued", "denied", "expired"})
    \cup ({"queued"} \X {"starting"})
    \cup ({"starting"} \X {"running", "outcome_unknown"})
    \cup ({"running"} \X {"succeeded", "failed", "cancelling", "outcome_unknown"})
    \cup ({"cancelling"} \X {"cancelled", "succeeded", "failed", "outcome_unknown"})

\* OperationStore::create: a fresh record.
NewOperation(i, c) ==
    [invocation |-> i, status |-> "received", cancellable |-> c,
     cancel_requested |-> FALSE, cancel_effective |-> FALSE,
     process_id |-> FALSE, process_ended |-> FALSE,
     result |-> FALSE, error |-> "none", expires_at |-> "none", late |-> {}]

\* A terminal status always starts the retention period.
Seal(o, s) == [o EXCEPT !.status = s, !.expires_at = "ahead"]

CanTransition(o, next) == ~Terminal(o) /\ <<o.status, next>> \in ValidTransitions

Transitioned(o, next) ==
    IF next \in TerminalStatuses THEN Seal(o, next) ELSE [o EXCEPT !.status = next]

\* The handlers ignore a refused transition: the record stays as it is.
TryTransition(o, next) == IF CanTransition(o, next) THEN Transitioned(o, next) ELSE o

\* The answers a backend gives to complete.
Outcomes == {"ok", "error", "cancelled"}

\* OperationStore::complete on a record that is still open ...
Completed(o, r) ==
    [Seal(o, CASE r = "cancelled" -> "cancelled"
               [] r = "ok"        -> "succeeded"
               [] r = "error"     -> "failed")
        EXCEPT !.cancel_effective = (r = "cancelled"),
               !.result = (r = "ok"),
               !.error = IF r = "ok" THEN @ ELSE "BACKEND"]

\* ... and on a sealed one, where only the evidence is noted, once per kind.
LateEvidence(o, r) ==
    [o EXCEPT !.late = @ \cup {IF r = "ok" THEN "success" ELSE "failure"}]

\* Faulty variant of Complete: a late answer replaces the sealed outcome.
CompleteOverwrites(o, r) == Completed(o, r)

Complete(o, r) == IF Terminal(o) THEN LateEvidence(o, r) ELSE Completed(o, r)

Cancellation(o) ==
    IF o.status \in BeforeStart \ {"starting"}
    THEN [Seal(o, "cancelled") EXCEPT !.cancel_effective = TRUE,
                                      !.error = "CANCELLED_BEFORE_START"]
    ELSE [o EXCEPT !.status = "cancelling"]

\* OperationStore::request_cancel: one intent, effective at once only before
\* the worker has left the queue.
CancelIntent(o) ==
    LET asked == [o EXCEPT !.cancel_requested = TRUE]
    IN  IF Terminal(o) \/ o.cancel_requested THEN o
        ELSE IF o.cancellable THEN Cancellation(asked) ELSE asked

\* OperationStore::record_forced_shutdown: unknown if a process was started.
ForcedShutdown(o) ==
    LET asked == [o EXCEPT !.cancel_requested = TRUE]
    IN  IF Terminal(o) THEN o
        ELSE IF o.process_id
        THEN [Seal(asked, "outcome_unknown") EXCEPT !.error = "OUTCOME_UNKNOWN"]
        ELSE [Seal(asked, "cancelled") EXCEPT !.cancel_effective = TRUE,
                                              !.error = "SHUTDOWN_BEFORE_START"]

\* Faulty variant of CanRecordStart: the status is not looked at.
CanRecordStartAlways(o) == TRUE

\* OperationStore::record_process_started
CanRecordStart(o) == o.status \in {"starting", "cancelling"}

ProcessStarted(o) ==
    [o EXCEPT !.status = IF o.cancel_requested THEN "cancelling" ELSE "running",
              !.process_id = TRUE]

\* OperationStore::record_process_finished: first evidence wins, even when the
\* record is sealed.
ProcessFinished(o) == [o EXCEPT !.process_ended = TRUE]

\* Faulty variant of Recovered: every open record counts as never started.
RecoveredAsFailed(o) ==
    IF Terminal(o) THEN o ELSE [Seal(o, "failed") EXCEPT !.error = "RECOVERED_BEFORE_START"]

\* OperationStore::load, for each record of the file.
Recovered(o) ==
    IF Terminal(o) THEN o
    ELSE IF o.status \in BeforeStart
    THEN [Seal(o, "failed") EXCEPT !.error = "RECOVERED_BEFORE_START"]
    ELSE [Seal(o, "outcome_unknown") EXCEPT !.error = "OUTCOME_UNKNOWN"]
=============================================================================
