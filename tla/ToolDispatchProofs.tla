--------------------------- MODULE ToolDispatchProofs ---------------------------
(***************************************************************************)
(* Proofs about ToolDispatch for any number of Operations, tasks, keys,    *)
(* tools, failed writes and stops.                                         *)
(*                                                                         *)
(* The properties relate what the tasks do to what the store has on        *)
(* record, and none of them is inductive.  Records says what a record      *)
(* looks like and how its copies (in memory, in the file, in the memory of *)
(* controllers that have exited) go together, Tasks what a task at each    *)
(* phase may rely on, GivenUp that a task without a token has a sealed     *)
(* record, LeftOver what goes on after its controller has exited, Apart    *)
(* that the leases admit each other, Started that a process is resumed     *)
(* only when its start is in every copy, OnlyOne that nothing is resumed   *)
(* twice unless a cancel was on record, and Sealed that without a failed   *)
(* write an open Operation has a token filed.                              *)
(***************************************************************************)
EXTENDS ToolDispatch, FiniteSetTheorems, TLAPS

\* A record that a method of the store can have produced: no error while it is open,
\* start evidence only when the status and the error allow it.
RecordOK(s) ==
    /\ s \in Snapshots
    /\ s.cancellable = Cancellable[s.invocation]
    /\ ~Terminal(s) => s.error = "none"
    /\ s.status \in BeforeStart => ~s.process_id
    /\ s.error \in NotStartedErrors => ~s.process_id
    /\ s.status = "cancelling" => s.cancel_requested

KeysKnown(ops, idem) == \A k \in Keys : idem[k] # None => ops[idem[k].operation_id] # None

Up == mode # "down"

\* What is on record of an Operation: in memory, in the file, and in the memory of
\* the controllers that have exited.
Copies(o) == {operations[o], disk.operations[o]} \cup {former[c].operations[o] : c \in Controllers}

\* The copies go together, Operation by Operation.
Records ==
    /\ \A o \in Ops : /\ \A s \in Copies(o) : s # None => RecordOK(s)
                      /\ \A s, t \in Copies(o) : s # None /\ t # None => s.invocation = t.invocation
                      /\ o \notin issued => \A s \in Copies(o) : s = None
                      /\ effects[o] > 0 => o \in issued
    /\ KeysKnown(operations, idempotency)
    /\ KeysKnown(disk.operations, disk.idempotency)
    /\ \A c \in Controllers : KeysKnown(former[c].operations, former[c].idempotency)

\* What a task at its phase may rely on: its Operation, its lease and its backend.
TaskOK(w) ==
    /\ worker[w].phase = "free" => worker[w] = Idle
    /\ worker[w].phase # "free" => worker[w].op \in Ops /\ operations[worker[w].op] # None /\ Up
    /\ lease[w] = IF worker[w].phase \in {"free", "queue", "waiting", "report"}
                  THEN NoLease ELSE Request(w)
    /\ worker[w].phase \in {"suspended", "recorded", "process", "ended"} =>
          Backend[Record(w).invocation] = "process"
    /\ worker[w].phase = "body" => Backend[Record(w).invocation] = "command"
    /\ worker[w].phase \in {"ended", "unwind", "report"} => worker[w].outcome \in Outcomes

\* The same of a filed token and of the list of the shutdown.
Tasks ==
    /\ \A w \in Workers : TaskOK(w)
    /\ \A o \in Ops : tokens[o] # None => operations[o] # None /\ Up
    /\ \A x \in toForce : operations[x[1]] # None /\ Up
    /\ mode \in {"draining", "forcing", "closing"} => stops < MaxStops

\* A task whose token is gone, or that the shutdown has given up, has a sealed record.
GivenUp ==
    \A w \in Workers : worker[w].phase # "free" =>
        /\ tokens[worker[w].op] # None \/ Terminal(Record(w))
        /\ mode = "closing" => Terminal(Record(w))

\* What goes on after its controller has exited is sealed in the memory it writes, was
\* let in by one gate, and is never started again by a later controller.
LeftOver ==
    \A c \in Controllers :
        /\ \A w \in Workers :
              /\ Row(c, w).phase = "free" => Row(c, w) = Idle
              /\ Row(c, w).phase # "free" =>
                    Row(c, w).op \in Ops /\ LeftRecord(c, w) # None /\ Terminal(LeftRecord(c, w))
        /\ \A v, w \in Workers : v # w /\ Row(c, v).phase # "free" /\ Row(c, w).phase # "free" =>
              Admit(LeftRequest(c, v), LeftRequest(c, w))
        /\ \A o \in Ops : former[c].operations[o] # None =>
              /\ operations[o] # None => Terminal(operations[o])
              /\ failures = 0 => Terminal(former[c].operations[o])

\* Any two leases admit each other.
Apart ==
    \A v, w \in Workers : v # w /\ lease[v] # NoLease /\ lease[w] # NoLease => Admit(lease[v], lease[w])

\* The tasks whose process was recorded and is still to be resumed, of the controller
\* that serves and of those that have exited.
RecordedFor(o) == {w \in Workers : worker[w].phase = "recorded" /\ worker[w].op = o}
LeftFor(o) == {x \in Controllers \X Workers : Row(x[1], x[2]).phase = "recorded" /\ Row(x[1], x[2]).op = o}

\* The start of a process is in every copy of its record before it is resumed.
Evidence(s) == s # None /\ Backend[s.invocation] = "process" => s.process_id

Active(o) == effects[o] > 0 \/ RecordedFor(o) # {} \/ LeftFor(o) # {}

Started == \A o \in Ops : Active(o) => \A s \in Copies(o) : Evidence(s)

\* Unless a cancel is in every copy of the record, one start was recorded.
NotCancelled(s) == s # None /\ Backend[s.invocation] = "process" /\ ~s.cancel_requested

OnlyOneFor(o) ==
    (\E s \in Copies(o) : NotCancelled(s)) =>
        /\ effects[o] <= 1
        /\ effects[o] = 1 => RecordedFor(o) = {} /\ LeftFor(o) = {}
        /\ RecordedFor(o) = {} \/ LeftFor(o) = {}
        /\ \A v, w \in RecordedFor(o) : v = w
        /\ \A x, y \in LeftFor(o) : x = y

OnlyOne == \A o \in Ops : OnlyOneFor(o)

\* What is open in the file is what memory holds.
FileFollows(ops, file) == \A o \in Ops : file[o] # None /\ ~Terminal(file[o]) => file[o] = ops[o]

\* Without a failed write the file follows memory, an open Operation has its token
\* filed, and the fail-safe of the shutdown has left none open.
Sealed ==
    Up /\ failures = 0 =>
        /\ FileFollows(operations, disk.operations)
        /\ \A o \in Ops : operations[o] # None /\ ~Terminal(operations[o]) =>
              tokens[o] # None /\ mode # "closing"

\* The inductive invariant.
Inv == TypeOK /\ Records /\ Tasks /\ GivenUp /\ LeftOver /\ Apart /\ Started /\ OnlyOne /\ Sealed

\* As long as no key was replayed, an Operation has one task, its token is the one
\* filed, and a cancel that was recorded has set it.
OneTask ==
    /\ \A v, w \in Workers : /\ worker[v].phase # "free" /\ worker[w].phase # "free"
                             /\ worker[v].op = worker[w].op
                             => v = w
    /\ \A w \in Workers : worker[w].phase # "free" => tokens[worker[w].op] = w
    /\ \A w \in Workers : /\ worker[w].phase # "free" /\ mode = "serving" /\ failures = 0
                          /\ Record(w).cancellable /\ Record(w).cancel_requested
                          => w \in cancelled

-----------------------------------------------------------------------------
(* The methods of the store, record by record *)

\* What a method may make of record s.
Evolves(s, t) ==
    /\ RecordOK(t)
    /\ t.invocation = s.invocation
    /\ s.process_id => t.process_id
    /\ s.cancel_requested => t.cancel_requested
    /\ Terminal(s) => Terminal(t)

LEMMA StatusSets ==
    /\ BeforeStart \subseteq Statuses /\ AfterStart \subseteq Statuses
    /\ TerminalStatuses \subseteq Statuses
    /\ \A x \in BeforeStart \cup AfterStart : x \notin TerminalStatuses
    /\ \A x \in BeforeStart : x # "cancelling" /\ x # "running"
    /\ "cancelling" \in AfterStart /\ "running" \in AfterStart
    /\ "none" \notin NotStartedErrors /\ "BACKEND" \notin NotStartedErrors
    /\ "OUTCOME_UNKNOWN" \notin NotStartedErrors
    /\ NotStartedErrors \subseteq ErrorCodes /\ {"none", "BACKEND", "OUTCOME_UNKNOWN"} \subseteq ErrorCodes
  BY DEF Statuses, BeforeStart, AfterStart, TerminalStatuses, NotStartedErrors, ErrorCodes

LEMMA EvolvesRefl == ASSUME NEW s, RecordOK(s) PROVE Evolves(s, s)
  BY DEF Evolves

LEMMA EvolvesTrans ==
    ASSUME NEW s, NEW t, NEW u, Evolves(s, t), Evolves(t, u)
    PROVE  Evolves(s, u)
  BY DEF Evolves

\* Sealing an open record.
LEMMA SealDoes ==
    ASSUME NEW s \in Snapshots, NEW x \in TerminalStatuses
    PROVE  /\ Seal(s, x) \in Snapshots /\ Terminal(Seal(s, x)) /\ Seal(s, x).status = x
           /\ Seal(s, x).invocation = s.invocation /\ Seal(s, x).cancellable = s.cancellable
           /\ Seal(s, x).error = s.error /\ Seal(s, x).process_id = s.process_id
           /\ Seal(s, x).cancel_requested = s.cancel_requested
  BY DEF Seal, Snapshots, Statuses, Terminal

LEMMA NewRecord ==
    ASSUME NEW i \in Invocations
    PROVE  /\ RecordOK(NewOperation(i, Cancellable[i]))
           /\ NewOperation(i, Cancellable[i]).invocation = i
           /\ ~NewOperation(i, Cancellable[i]).cancel_requested
<1>1. Cancellable[i] \in BOOLEAN
  BY DispatchAssumption
<1> QED BY <1>1 DEF NewOperation, RecordOK, Snapshots, Statuses, BeforeStart, ErrorCodes,
        NotStartedErrors, Terminal, TerminalStatuses

\* The transitions the handler and the task try.
LEMMA TryEvolves ==
    ASSUME NEW s, RecordOK(s), NEW next \in {"resolving", "queued", "starting"}
    PROVE  Evolves(s, TryTransition(s, next)) /\ TryTransition(s, next).cancel_requested = s.cancel_requested
<1>1. CASE CanTransition(s, next)
  <2>1. /\ s.status \in BeforeStart /\ next \notin TerminalStatuses /\ next \in BeforeStart
        /\ ~Terminal(s) /\ next \in Statuses /\ next # "cancelling"
    BY <1>1 DEF CanTransition, ValidTransitions, BeforeStart, Statuses, TerminalStatuses
  <2> DEFINE t == [s EXCEPT !.status = next]
  <2>2. TryTransition(s, next) = t
    BY <1>1, <2>1 DEF TryTransition, Transitioned
  <2>3. /\ t \in Snapshots /\ t.status = next /\ t.invocation = s.invocation
        /\ t.process_id = s.process_id /\ t.cancel_requested = s.cancel_requested
        /\ t.error = s.error /\ t.cancellable = s.cancellable
    BY <2>1 DEF RecordOK, Snapshots
  <2> HIDE DEF t
  <2> QED BY <2>1, <2>2, <2>3, StatusSets DEF Evolves, RecordOK, Terminal
<1>2. CASE ~CanTransition(s, next)
  BY <1>2, EvolvesRefl DEF TryTransition
<1> QED BY <1>1, <1>2

LEMMA QueuedEvolves ==
    ASSUME NEW s, RecordOK(s)
    PROVE  Evolves(s, Queued(s)) /\ Queued(s).cancel_requested = s.cancel_requested
<1> DEFINE t == TryTransition(s, "resolving")
<1>1. Evolves(s, t) /\ t.cancel_requested = s.cancel_requested
  BY TryEvolves
<1>2. Evolves(t, Queued(s)) /\ Queued(s).cancel_requested = t.cancel_requested
  BY <1>1, TryEvolves DEF Queued, Evolves
<1> HIDE DEF t
<1> QED BY <1>1, <1>2, EvolvesTrans

LEMMA CancelEvolves ==
    ASSUME NEW s, RecordOK(s)
    PROVE  Evolves(s, CancelIntent(s)) /\ (Terminal(s) \/ CancelIntent(s).cancel_requested)
<1>1. CASE Terminal(s) \/ s.cancel_requested
  BY <1>1, EvolvesRefl DEF CancelIntent
<1>2. CASE ~Terminal(s) /\ ~s.cancel_requested
  <2> DEFINE asked == [s EXCEPT !.cancel_requested = TRUE]
  <2>1. /\ asked \in Snapshots /\ asked.status = s.status /\ asked.invocation = s.invocation
        /\ asked.process_id = s.process_id /\ asked.cancel_requested
        /\ asked.error = s.error /\ asked.cancellable = s.cancellable
    BY DEF RecordOK, Snapshots
  <2>2. CASE s.cancellable /\ s.status \in BeforeStart \ {"starting"}
    <3> DEFINE seal == Seal(asked, "cancelled")
               t == [seal EXCEPT !.cancel_effective = TRUE, !.error = "CANCELLED_BEFORE_START"]
    <3>1. "cancelled" \in TerminalStatuses /\ "CANCELLED_BEFORE_START" \in ErrorCodes
      BY DEF TerminalStatuses, ErrorCodes, NotStartedErrors
    <3>2. CancelIntent(s) = t
      BY <1>2, <2>1, <2>2 DEF CancelIntent, Cancellation
    <3>3. /\ seal \in Snapshots /\ seal.status = "cancelled" /\ seal.invocation = s.invocation
          /\ seal.process_id = s.process_id /\ seal.cancel_requested
          /\ seal.cancellable = s.cancellable
      BY <2>1, <3>1, SealDoes
    <3> HIDE DEF asked, seal
    <3>4. /\ t \in Snapshots /\ t.status = "cancelled" /\ t.invocation = s.invocation
          /\ t.process_id = s.process_id /\ t.cancel_requested /\ t.cancellable = s.cancellable
      BY <3>1, <3>3 DEF Snapshots
    <3> HIDE DEF t
    <3> QED BY <2>2, <3>1, <3>2, <3>4, StatusSets DEF Evolves, RecordOK, Terminal
  <2>3. CASE s.cancellable /\ s.status \notin BeforeStart \ {"starting"}
    <3> DEFINE t == [asked EXCEPT !.status = "cancelling"]
    <3>1. CancelIntent(s) = t
      BY <1>2, <2>1, <2>3 DEF CancelIntent, Cancellation
    <3> HIDE DEF asked
    <3>2. /\ t \in Snapshots /\ t.status = "cancelling" /\ t.invocation = s.invocation
          /\ t.process_id = s.process_id /\ t.cancel_requested /\ t.cancellable = s.cancellable
          /\ t.error = s.error
      BY <2>1, StatusSets DEF Snapshots
    <3> HIDE DEF t
    <3> QED BY <1>2, <3>1, <3>2, StatusSets DEF Evolves, RecordOK, Terminal
  <2>4. CASE ~s.cancellable
    <3>1. CancelIntent(s) = asked
      BY <1>2, <2>4 DEF CancelIntent
    <3> HIDE DEF asked
    <3> QED BY <1>2, <2>1, <3>1 DEF Evolves, RecordOK, Terminal
  <2> QED BY <2>2, <2>3, <2>4
<1> QED BY <1>1, <1>2

LEMMA ForcedShutdownEvolves ==
    ASSUME NEW s, RecordOK(s)
    PROVE  Evolves(s, ForcedShutdown(s)) /\ Terminal(ForcedShutdown(s))
<1>1. CASE Terminal(s)
  BY <1>1, EvolvesRefl DEF ForcedShutdown
<1>2. CASE ~Terminal(s)
  <2> DEFINE asked == [s EXCEPT !.cancel_requested = TRUE]
  <2>1. /\ asked \in Snapshots /\ asked.status = s.status /\ asked.invocation = s.invocation
        /\ asked.process_id = s.process_id /\ asked.cancel_requested
        /\ asked.error = s.error /\ asked.cancellable = s.cancellable
    BY DEF RecordOK, Snapshots
  <2>2. CASE s.process_id
    <3> DEFINE seal == Seal(asked, "outcome_unknown")
               t == [seal EXCEPT !.error = "OUTCOME_UNKNOWN"]
    <3>1. "outcome_unknown" \in TerminalStatuses
      BY DEF TerminalStatuses
    <3>2. ForcedShutdown(s) = t
      BY <1>2, <2>2 DEF ForcedShutdown
    <3>3. /\ seal \in Snapshots /\ seal.status = "outcome_unknown" /\ seal.invocation = s.invocation
          /\ seal.process_id = s.process_id /\ seal.cancel_requested
          /\ seal.cancellable = s.cancellable
      BY <2>1, <3>1, SealDoes
    <3> HIDE DEF asked, seal
    <3>4. /\ t \in Snapshots /\ t.status = "outcome_unknown" /\ t.invocation = s.invocation
          /\ t.process_id = s.process_id /\ t.cancel_requested /\ t.cancellable = s.cancellable
          /\ t.error = "OUTCOME_UNKNOWN"
      BY <3>3, StatusSets DEF Snapshots
    <3> HIDE DEF t
    <3> QED BY <3>1, <3>2, <3>4, StatusSets DEF Evolves, RecordOK, Terminal
  <2>3. CASE ~s.process_id
    <3> DEFINE seal == Seal(asked, "cancelled")
               t == [seal EXCEPT !.cancel_effective = TRUE, !.error = "SHUTDOWN_BEFORE_START"]
    <3>1. "cancelled" \in TerminalStatuses /\ "SHUTDOWN_BEFORE_START" \in ErrorCodes
      BY DEF TerminalStatuses, ErrorCodes, NotStartedErrors
    <3>2. ForcedShutdown(s) = t
      BY <1>2, <2>3 DEF ForcedShutdown
    <3>3. /\ seal \in Snapshots /\ seal.status = "cancelled" /\ seal.invocation = s.invocation
          /\ seal.process_id = s.process_id /\ seal.cancel_requested
          /\ seal.cancellable = s.cancellable
      BY <2>1, <3>1, SealDoes
    <3> HIDE DEF asked, seal
    <3>4. /\ t \in Snapshots /\ t.status = "cancelled" /\ t.invocation = s.invocation
          /\ t.process_id = s.process_id /\ t.cancel_requested /\ t.cancellable = s.cancellable
      BY <3>1, <3>3 DEF Snapshots
    <3> HIDE DEF t
    <3> QED BY <2>3, <3>1, <3>2, <3>4, StatusSets DEF Evolves, RecordOK, Terminal
  <2> QED BY <2>2, <2>3
<1> QED BY <1>1, <1>2

LEMMA StartEvolves ==
    ASSUME NEW s, RecordOK(s), CanRecordStart(s)
    PROVE  /\ Evolves(s, ProcessStarted(s)) /\ ProcessStarted(s).process_id
           /\ ProcessStarted(s).cancel_requested = s.cancel_requested
<1> DEFINE x == IF s.cancel_requested THEN "cancelling" ELSE "running"
           t == [s EXCEPT !.status = x, !.process_id = TRUE]
<1>1. /\ ProcessStarted(s) = t /\ x \in AfterStart
      /\ x = "cancelling" => s.cancel_requested
  BY StatusSets DEF ProcessStarted
<1> HIDE DEF x
<1>2. /\ t \in Snapshots /\ t.status = x /\ t.invocation = s.invocation
      /\ t.process_id /\ t.cancel_requested = s.cancel_requested
      /\ t.error = s.error /\ t.cancellable = s.cancellable
  BY <1>1, StatusSets DEF RecordOK, Snapshots
<1>3. ~Terminal(s) /\ x \notin BeforeStart
  BY <1>1 DEF CanRecordStart, Terminal, TerminalStatuses, BeforeStart, AfterStart
<1> HIDE DEF t
<1> QED BY <1>1, <1>2, <1>3, StatusSets DEF Evolves, RecordOK, Terminal

LEMMA FinishEvolves ==
    ASSUME NEW s, RecordOK(s)
    PROVE  Evolves(s, ProcessFinished(s)) /\ ProcessFinished(s).cancel_requested = s.cancel_requested
<1> DEFINE t == ProcessFinished(s)
<1>1. /\ t \in Snapshots /\ t.status = s.status /\ t.invocation = s.invocation
      /\ t.process_id = s.process_id /\ t.cancel_requested = s.cancel_requested
      /\ t.error = s.error /\ t.cancellable = s.cancellable
  BY DEF ProcessFinished, RecordOK, Snapshots
<1> HIDE DEF t
<1> QED BY <1>1 DEF t, Evolves, RecordOK, Terminal

LEMMA CompleteEvolves ==
    ASSUME NEW s, RecordOK(s), NEW r \in Outcomes
    PROVE  /\ Evolves(s, Complete(s, r)) /\ Terminal(Complete(s, r))
           /\ Complete(s, r).cancel_requested = s.cancel_requested
<1>1. CASE Terminal(s)
  <2> DEFINE t == LateEvidence(s, r)
  <2>1. /\ t \in Snapshots /\ t.status = s.status /\ t.invocation = s.invocation
        /\ t.process_id = s.process_id /\ t.cancel_requested = s.cancel_requested
        /\ t.error = s.error /\ t.cancellable = s.cancellable
    BY DEF LateEvidence, RecordOK, Snapshots
  <2>2. Complete(s, r) = t
    BY <1>1 DEF Complete
  <2> HIDE DEF t
  <2> QED BY <1>1, <2>1, <2>2 DEF Evolves, RecordOK, Terminal
<1>2. CASE ~Terminal(s)
  <2> DEFINE x == CASE r = "cancelled" -> "cancelled"
                    [] r = "ok" -> "succeeded"
                    [] r = "error" -> "failed"
             seal == Seal(s, x)
             t == [seal EXCEPT !.cancel_effective = (r = "cancelled"), !.result = (r = "ok"),
                               !.error = IF r = "ok" THEN @ ELSE "BACKEND"]
  <2>1. x \in TerminalStatuses
    BY DEF Outcomes, TerminalStatuses
  <2>2. Complete(s, r) = t
    BY <1>2 DEF Complete, Completed
  <2> HIDE DEF x
  <2>3. /\ seal \in Snapshots /\ seal.status = x /\ seal.invocation = s.invocation
        /\ seal.process_id = s.process_id /\ seal.cancel_requested = s.cancel_requested
        /\ seal.cancellable = s.cancellable /\ seal.error = "none"
    BY <1>2, <2>1, SealDoes DEF RecordOK
  <2> HIDE DEF seal
  <2>4. /\ t \in Snapshots /\ t.status = x /\ t.invocation = s.invocation
        /\ t.process_id = s.process_id /\ t.cancel_requested = s.cancel_requested
        /\ t.cancellable = s.cancellable /\ t.error \in {"none", "BACKEND"}
    BY <2>1, <2>3, StatusSets DEF Snapshots
  <2> HIDE DEF t
  <2> QED BY <1>2, <2>1, <2>2, <2>4, StatusSets DEF Evolves, RecordOK, Terminal
<1> QED BY <1>1, <1>2

LEMMA RecoveredEvolves ==
    ASSUME NEW s, RecordOK(s)
    PROVE  /\ Evolves(s, Recovered(s)) /\ Terminal(Recovered(s))
           /\ Recovered(s).cancel_requested = s.cancel_requested
<1>1. CASE Terminal(s)
  BY <1>1, EvolvesRefl DEF Recovered
<1>2. CASE ~Terminal(s)
  <2>0. /\ "failed" \in TerminalStatuses /\ "outcome_unknown" \in TerminalStatuses
        /\ "RECOVERED_BEFORE_START" \in NotStartedErrors
    BY DEF TerminalStatuses, NotStartedErrors
  <2>1. CASE s.status \in BeforeStart
    <3> DEFINE seal == Seal(s, "failed")
               t == [seal EXCEPT !.error = "RECOVERED_BEFORE_START"]
    <3>1. Recovered(s) = t
      BY <1>2, <2>1 DEF Recovered
    <3>2. /\ seal \in Snapshots /\ seal.status = "failed" /\ seal.invocation = s.invocation
          /\ seal.process_id = s.process_id /\ seal.cancel_requested = s.cancel_requested
          /\ seal.cancellable = s.cancellable
      BY <2>0, SealDoes DEF RecordOK
    <3> HIDE DEF seal
    <3>3. /\ t \in Snapshots /\ t.status = "failed" /\ t.invocation = s.invocation
          /\ t.process_id = s.process_id /\ t.cancel_requested = s.cancel_requested
          /\ t.cancellable = s.cancellable
      BY <2>0, <3>2, StatusSets DEF Snapshots
    <3> HIDE DEF t
    <3> QED BY <2>0, <2>1, <3>1, <3>3, StatusSets DEF Evolves, RecordOK, Terminal
  <2>2. CASE s.status \notin BeforeStart
    <3> DEFINE seal == Seal(s, "outcome_unknown")
               t == [seal EXCEPT !.error = "OUTCOME_UNKNOWN"]
    <3>1. Recovered(s) = t
      BY <1>2, <2>2 DEF Recovered
    <3>2. /\ seal \in Snapshots /\ seal.status = "outcome_unknown" /\ seal.invocation = s.invocation
          /\ seal.process_id = s.process_id /\ seal.cancel_requested = s.cancel_requested
          /\ seal.cancellable = s.cancellable
      BY <2>0, SealDoes DEF RecordOK
    <3> HIDE DEF seal
    <3>3. /\ t \in Snapshots /\ t.status = "outcome_unknown" /\ t.invocation = s.invocation
          /\ t.process_id = s.process_id /\ t.cancel_requested = s.cancel_requested
          /\ t.cancellable = s.cancellable /\ t.error = "OUTCOME_UNKNOWN"
      BY <2>0, <3>2, StatusSets DEF Snapshots
    <3> HIDE DEF t
    <3> QED BY <2>0, <3>1, <3>3, StatusSets DEF Evolves, RecordOK, Terminal
  <2> QED BY <2>1, <2>2
<1> QED BY <1>1, <1>2

-----------------------------------------------------------------------------
(* The store and its file *)

\* Memory, the file and the memory of an exited controller are copies.
LEMMA HeldRecords ==
    ASSUME Inv, NEW o \in Ops
    PROVE  /\ operations[o] # None => RecordOK(operations[o]) /\ o \in issued
           /\ disk.operations[o] # None => RecordOK(disk.operations[o]) /\ o \in issued
           /\ \A c \in Controllers : former[c].operations[o] # None =>
                 RecordOK(former[c].operations[o]) /\ o \in issued
<1>1. /\ operations[o] \in Copies(o) /\ disk.operations[o] \in Copies(o)
      /\ \A c \in Controllers : former[c].operations[o] \in Copies(o)
  BY DEF Copies
<1> QED BY <1>1 DEF Inv, Records


\* What any step of a running controller does to the store: every record evolves, a
\* new one belongs to a new id, and the file keeps its record or takes that of memory.
Fresh(o) == o \notin issued /\ o \in issued'

Advance ==
    /\ Up /\ Up'
    /\ operations' \in OperationTables /\ idempotency' \in KeyTables
    /\ disk' \in [operations : OperationTables, idempotency : KeyTables]
    /\ issued \subseteq issued' /\ issued' \subseteq Ops
    /\ \A o \in Ops : operations[o] # None =>
          operations'[o] # None /\ Evolves(operations[o], operations'[o])
    /\ \A o \in Ops : operations[o] = None /\ operations'[o] # None =>
          Fresh(o) /\ RecordOK(operations'[o])
    /\ \A o \in Ops : \/ disk'.operations[o] \in {disk.operations[o], operations'[o]}
                      \/ /\ Fresh(o) /\ RecordOK(disk'.operations[o]) /\ operations'[o] # None
                         /\ disk'.operations[o].invocation = operations'[o].invocation
    /\ KeysKnown(operations', idempotency')
    /\ KeysKnown(disk'.operations, disk'.idempotency)
    /\ failures' \in 0 .. MaxFailures
    /\ failures' = 0 => failures = 0 /\ FileFollows(operations', disk'.operations)

\* Every copy of the record of an Operation comes from one there was ...
Descends(o, s) == s = None \/ \E t \in Copies(o) : t # None /\ Evolves(t, s)

Carried(o) == \A s \in Copies(o)' : Descends(o, s)

\* ... or the Operation is new.
Begun(o) == /\ Fresh(o) /\ operations'[o] # None
            /\ \A s \in Copies(o)' : s # None => RecordOK(s) /\ s.invocation = operations'[o].invocation

LEMMA AdvanceCopies ==
    ASSUME Inv, Advance, former' = former, NEW o \in Ops
    PROVE  Carried(o) \/ Begun(o)
<1>1. \A s \in Copies(o) : Descends(o, s)
  BY EvolvesRefl DEF Inv, Records, Descends
<1>2. ASSUME NEW s \in Copies(o)'
      PROVE  s \in Copies(o) \/ s = operations'[o] \/ s = disk'.operations[o]
  BY DEF Copies
<1>3. CASE Fresh(o)
  <2>1. \A s \in Copies(o) : s = None
    BY <1>3 DEF Fresh, Inv, Records
  <2>2. operations[o] = None /\ disk.operations[o] = None
    BY <2>1 DEF Copies
  <2>3. CASE operations'[o] = None
    <3>1. disk'.operations[o] = None
      BY <2>2, <2>3 DEF Advance
    <3> QED BY <1>2, <2>1, <2>3, <3>1 DEF Carried, Descends
  <2>4. CASE operations'[o] # None
    <3>1. RecordOK(operations'[o])
      BY <2>2, <2>4 DEF Advance
    <3>2. disk'.operations[o] # None =>
             RecordOK(disk'.operations[o]) /\ disk'.operations[o].invocation = operations'[o].invocation
      BY <2>2, <3>1 DEF Advance
    <3> QED BY <1>2, <1>3, <2>1, <2>4, <3>1, <3>2 DEF Begun
  <2> QED BY <2>3, <2>4
<1>4. CASE ~Fresh(o)
  <2>1. operations[o] \in Copies(o)
    BY DEF Copies
  <2>2. Descends(o, operations'[o])
    BY <1>4, <2>1 DEF Advance, Descends
  <2>3. disk.operations[o] \in Copies(o)
    BY DEF Copies
  <2>4. Descends(o, disk'.operations[o])
    BY <1>1, <1>4, <2>2, <2>3 DEF Advance
  <2> QED BY <1>1, <1>2, <2>2, <2>4 DEF Carried
<1> QED BY <1>3, <1>4

\* An id that was not given out is nowhere on record and nothing is active for it.
LEMMA FreshIsIdle ==
    ASSUME Inv, NEW o \in Ops, o \notin issued
    PROVE  /\ effects[o] = 0 /\ RecordedFor(o) = {} /\ LeftFor(o) = {}
           /\ \A s \in Copies(o) : s = None
<1>1. \A s \in Copies(o) : s = None
  BY DEF Inv, Records
<1>2. operations[o] = None /\ \A c \in Controllers : former[c].operations[o] = None
  BY <1>1 DEF Copies
<1>3. effects[o] = 0
  BY DEF Inv, Records, TypeOK
<1>4. RecordedFor(o) = {}
  BY <1>2 DEF Inv, Tasks, TaskOK, RecordedFor
<1>5. LeftFor(o) = {}
  <2> SUFFICES ASSUME NEW x \in LeftFor(o) PROVE FALSE
    OBVIOUS
  <2>1. /\ x[1] \in Controllers /\ x[2] \in Workers
        /\ Row(x[1], x[2]).phase = "recorded" /\ Row(x[1], x[2]).op = o
    BY DEF LeftFor
  <2>2. LeftRecord(x[1], x[2]) # None
    BY <2>1 DEF Inv, LeftOver
  <2> QED BY <1>2, <2>1, <2>2 DEF LeftRecord
<1> QED BY <1>1, <1>3, <1>4, <1>5

\* Such a step keeps the records in order.
LEMMA RecordsFromCopies ==
    ASSUME Inv, \A o \in Ops : Carried(o) \/ Begun(o), issued \subseteq issued',
           \A o \in Ops : effects'[o] > 0 => effects[o] > 0 \/ o \in issued',
           KeysKnown(operations', idempotency'), KeysKnown(disk'.operations, disk'.idempotency),
           \A c \in Controllers : KeysKnown(former'[c].operations, former'[c].idempotency)
    PROVE  Records'
<1>1. ASSUME NEW o \in Ops
      PROVE  /\ \A s \in Copies(o)' : s # None => RecordOK(s)
             /\ \A s, t \in Copies(o)' : s # None /\ t # None => s.invocation = t.invocation
             /\ o \notin issued' => \A s \in Copies(o)' : s = None
  <2>1. CASE Begun(o)
    BY <2>1 DEF Begun, Fresh
  <2>2. CASE Carried(o)
    <3>1. \A s \in Copies(o)' : s # None => RecordOK(s)
      BY <2>2 DEF Carried, Descends, Evolves
    <3>2. \A s, t \in Copies(o) : s # None /\ t # None => s.invocation = t.invocation
      BY DEF Inv, Records
    <3>3. \A s, t \in Copies(o)' : s # None /\ t # None => s.invocation = t.invocation
      BY <2>2, <3>2 DEF Carried, Descends, Evolves
    <3>4. o \notin issued' => \A s \in Copies(o)' : s = None
      BY <2>2, FreshIsIdle DEF Carried, Descends
    <3> QED BY <3>1, <3>3, <3>4
  <2> QED BY <2>1, <2>2
<1>2. \A o \in Ops : effects'[o] > 0 => o \in issued'
  BY DEF Inv, Records
<1> QED BY <1>1, <1>2 DEF Records

LEMMA AdvanceRecords ==
    ASSUME Inv, Advance, former' = former, \A o \in Ops : effects'[o] > 0 => effects[o] > 0 \/ o \in issued'
    PROVE  Records'
<1>1. \A o \in Ops : Carried(o) \/ Begun(o)
  BY AdvanceCopies
<1>2. \A c \in Controllers : KeysKnown(former'[c].operations, former'[c].idempotency)
  BY DEF Inv, Records
<1> QED BY <1>1, <1>2, RecordsFromCopies DEF Advance

\* A step that leaves the store alone.
LEMMA StoreUntouched ==
    ASSUME Inv, Up, Up', UNCHANGED storeVars
    PROVE  Advance
<1>1. \A o \in Ops : operations[o] # None => Evolves(operations[o], operations[o])
  BY EvolvesRefl, HeldRecords
<1> QED BY <1>1 DEF Advance, storeVars, Inv, TypeOK, Records, Sealed, KeysKnown, FileFollows

\* The whole table is rewritten, every record evolving.
LEMMA SaveAdvances ==
    ASSUME Inv, Up, Up', NEW ops \in OperationTables, NEW p \in WriteResults,
           \A o \in Ops : operations[o] = None => ops[o] = None,
           \A o \in Ops : operations[o] # None => Evolves(operations[o], ops[o]),
           Save(ops, idempotency, p), UNCHANGED issued
    PROVE  Advance
<1>1. /\ operations' = ops /\ idempotency' = idempotency
      /\ disk' = disk \/ disk' = [operations |-> ops, idempotency |-> idempotency]
  BY DEF Save
<1>2. \A o \in Ops : operations[o] # None => ops[o] # None
  BY NoneAssumption DEF Evolves, RecordOK
<1>3. idempotency \in KeyTables
  BY DEF Inv, TypeOK
<1>4. /\ disk' \in [operations : OperationTables, idempotency : KeyTables]
      /\ \/ disk'.operations = disk.operations /\ disk'.idempotency = disk.idempotency
         \/ disk'.operations = ops /\ disk'.idempotency = idempotency
  <2>1. CASE disk' = disk
    BY <2>1 DEF Inv, TypeOK
  <2>2. CASE disk' = [operations |-> ops, idempotency |-> idempotency]
    BY <1>3, <2>2
  <2> QED BY <1>1, <2>1, <2>2
<1>5. \A k \in Keys : idempotency[k] # None => idempotency[k].operation_id \in Ops
  BY <1>3 DEF KeyTables, IdempotencyRecords
<1>6. KeysKnown(ops, idempotency)
  BY <1>2, <1>5 DEF Inv, Records, KeysKnown
<1>7. KeysKnown(disk'.operations, disk'.idempotency)
  BY <1>4, <1>6 DEF Inv, Records, KeysKnown
<1>8. /\ failures' \in 0 .. MaxFailures
      /\ failures' = 0 => failures = 0 /\ p = "written"
  BY DispatchAssumption DEF Save, CountFailure, Inv, TypeOK
<1>9. p = "written" => FileFollows(ops, disk'.operations)
  BY DEF Save, FileFollows
<1>10. issued \subseteq Ops
  BY DEF Inv, TypeOK
<1>11. \A o \in Ops : disk'.operations[o] \in {disk.operations[o], ops[o]}
  BY <1>4
<1> QED BY <1>1, <1>2, <1>3, <1>4, <1>6, <1>7, <1>8, <1>9, <1>10, <1>11 DEF Advance

\* One record is rewritten.
LEMMA SaveOneAdvances ==
    ASSUME Inv, Up, Up', NEW o \in Ops, operations[o] # None, NEW t, Evolves(operations[o], t),
           NEW p \in WriteResults, Save([operations EXCEPT ![o] = t], idempotency, p), UNCHANGED issued
    PROVE  /\ Advance /\ operations' = [operations EXCEPT ![o] = t]
           /\ operations'[o] = t
           /\ \A q \in Ops : q # o => operations'[q] = operations[q]
           /\ p # "written" => failures' # 0
           /\ p = "written" => disk'.operations = operations'
<1> DEFINE ops == [operations EXCEPT ![o] = t]
<1>1. ops \in OperationTables /\ \A q \in Ops : ops[q] = IF q = o THEN t ELSE operations[q]
  BY DEF Inv, TypeOK, OperationTables, Evolves, RecordOK
<1>2. \A q \in Ops : operations[q] # None => Evolves(operations[q], ops[q])
  BY <1>1, EvolvesRefl, HeldRecords
<1>3. \A q \in Ops : operations[q] = None => ops[q] = None
  BY <1>1
<1>4. operations' = ops /\ (p = "written" => disk'.operations = ops)
  BY DEF Save
<1> HIDE DEF ops
<1>5. Advance
  BY <1>1, <1>2, <1>3, SaveAdvances DEF ops
<1>6. p # "written" => failures' # 0
  BY DEF Save, CountFailure, Inv, TypeOK
<1> QED BY <1>1, <1>4, <1>5, <1>6 DEF ops

\* One record is changed, or found as it should be.
LEMMA SaveRecordAdvances ==
    ASSUME Inv, Up, Up', NEW o \in Ops, operations[o] # None, NEW t, Evolves(operations[o], t),
           NEW p \in WriteResults, SaveRecord(o, t, p)
    PROVE  /\ Advance /\ operations' = [operations EXCEPT ![o] = t]
           /\ operations'[o] = t
           /\ \A q \in Ops : q # o => operations'[q] = operations[q]
           /\ p # "written" => failures' # 0
<1>1. CASE t = operations[o]
  <2>1. UNCHANGED storeVars /\ p = "written"
    BY <1>1 DEF SaveRecord, storeVars
  <2>2. operations = [operations EXCEPT ![o] = t]
    BY <1>1 DEF OperationTables, Inv, TypeOK
  <2> QED BY <1>1, <2>1, <2>2, StoreUntouched DEF storeVars
<1>2. CASE t # operations[o]
  <2>1. Save([operations EXCEPT ![o] = t], idempotency, p) /\ UNCHANGED issued
    BY <1>2 DEF SaveRecord
  <2> QED BY <2>1, SaveOneAdvances
<1> QED BY <1>1, <1>2

-----------------------------------------------------------------------------
(* The parts of the invariant, whatever step of a running controller it is *)

\* A task that the step leaves alone.
LEMMA TaskKept ==
    ASSUME Inv, Advance, NEW w \in Workers, worker'[w] = worker[w], lease'[w] = lease[w]
    PROVE  TaskOK(w)'
<1>1. TaskOK(w)
  BY DEF Inv, Tasks
<1>2. CASE worker[w].phase = "free"
  BY <1>1, <1>2 DEF TaskOK
<1>3. CASE worker[w].phase # "free"
  <2>1. Record(w)' # None /\ Record(w)'.invocation = Record(w).invocation
    BY <1>1, <1>3 DEF TaskOK, Advance, Evolves, Record
  <2>2. Request(w)' = Request(w)
    BY <2>1 DEF Request
  <2> QED BY <1>1, <1>3, <2>1, <2>2 DEF TaskOK, Advance, Record
<1> QED BY <1>2, <1>3

\* A task that goes on to another phase of the same Operation.
LEMMA TaskMoved ==
    ASSUME Inv, Advance, NEW w \in Workers, NEW ph, NEW r,
           worker[w].phase # "free", ph # "free",
           worker'[w] = [phase |-> ph, op |-> worker[w].op, outcome |-> r],
           lease'[w] = IF ph \in {"queue", "waiting", "report"} THEN NoLease ELSE Request(w),
           ph \in {"suspended", "recorded", "process", "ended"} =>
              Backend[Record(w).invocation] = "process",
           ph = "body" => Backend[Record(w).invocation] = "command",
           ph \in {"ended", "unwind", "report"} => r \in Outcomes
    PROVE  TaskOK(w)'
<1>1. TaskOK(w)
  BY DEF Inv, Tasks
<1>2. Record(w)' # None /\ Record(w)'.invocation = Record(w).invocation
  BY <1>1 DEF TaskOK, Advance, Evolves, Record
<1>3. Request(w)' = Request(w)
  BY <1>2 DEF Request
<1>4. /\ worker'[w].phase = ph /\ worker'[w].op = worker[w].op /\ worker'[w].outcome = r
  OBVIOUS
<1> QED BY <1>1, <1>2, <1>3, <1>4 DEF TaskOK, Advance, Record

\* Filed tokens and the list of the shutdown.
LEMMA TasksFromParts ==
    ASSUME Inv, Advance, \A w \in Workers : TaskOK(w)',
           \A o \in Ops : tokens'[o] # None => tokens[o] # None \/ operations'[o] # None,
           \A x \in toForce' : x \in Ops \X Workers /\ operations[x[1]] # None,
           stops' = stops, mode' = mode \/ stops < MaxStops
    PROVE  Tasks'
  BY DEF Inv, Tasks, Advance

\* A task keeps its token until its record is sealed, and the shutdown gives up only
\* tasks whose records are.
LEMMA GivenUpFromParts ==
    ASSUME Inv, Advance,
           \A w \in Workers : worker'[w].phase # "free" =>
              \/ tokens'[worker'[w].op] # None /\ mode' # "closing"
              \/ /\ worker[w].phase # "free" /\ worker'[w].op = worker[w].op
                 /\ \/ tokens'[worker[w].op] = tokens[worker[w].op] /\ (mode' = "closing" => mode = "closing")
                    \/ Terminal(operations'[worker[w].op])
    PROVE  GivenUp'
<1> SUFFICES ASSUME NEW w \in Workers, worker'[w].phase # "free",
                    worker[w].phase # "free", worker'[w].op = worker[w].op,
                    tokens'[worker[w].op] = tokens[worker[w].op], mode' = "closing" => mode = "closing"
             PROVE  /\ tokens'[worker[w].op] # None \/ Terminal(operations'[worker[w].op])
                    /\ mode' = "closing" => Terminal(operations'[worker[w].op])
  BY DEF GivenUp, Record
<1>1. TaskOK(w)
  BY DEF Inv, Tasks
<1>2. Terminal(operations[worker[w].op]) => Terminal(operations'[worker[w].op])
  BY <1>1 DEF TaskOK, Advance, Evolves
<1> QED BY <1>2 DEF Inv, GivenUp, Record

\* What controllers that have exited left behind is not touched, and no Operation they
\* know is opened again.
LEMMA LeftOverKept ==
    ASSUME Inv, Advance, former' = former
    PROVE  LeftOver'
<1>1. ASSUME NEW c \in Controllers, NEW o \in Ops, former[c].operations[o] # None
      PROVE  /\ operations'[o] # None => Terminal(operations'[o])
             /\ failures' = 0 => Terminal(former[c].operations[o])
  <2>1. former[c].operations[o] \in Copies(o)
    BY DEF Copies
  <2>2. o \in issued
    BY <1>1, <2>1 DEF Inv, Records
  <2>3. operations[o] # None => Terminal(operations[o])
    BY <1>1 DEF Inv, LeftOver
  <2>4. operations'[o] # None => Terminal(operations'[o])
    BY <2>2, <2>3 DEF Advance, Fresh, Evolves
  <2>5. failures' = 0 => failures = 0
    BY DEF Advance
  <2> QED BY <1>1, <2>4, <2>5 DEF Inv, LeftOver
<1>2. \A c \in Controllers, w \in Workers :
         /\ Row(c, w)' = Row(c, w) /\ LeftRecord(c, w)' = LeftRecord(c, w)
         /\ LeftRequest(c, w)' = LeftRequest(c, w)
  BY DEF Row, LeftRecord, LeftRequest
<1>3. \A c \in Controllers :
        /\ \A w \in Workers :
              /\ Row(c, w).phase = "free" => Row(c, w) = Idle
              /\ Row(c, w).phase # "free" =>
                    Row(c, w).op \in Ops /\ LeftRecord(c, w) # None /\ Terminal(LeftRecord(c, w))
        /\ \A v, w \in Workers : v # w /\ Row(c, v).phase # "free" /\ Row(c, w).phase # "free" =>
              Admit(LeftRequest(c, v), LeftRequest(c, w))
  BY DEF Inv, LeftOver
<1> QED BY <1>1, <1>2, <1>3 DEF LeftOver, Admit, Gate!Limit

\* Evidence of a start is never lost.
LEMMA StartedFromCopies ==
    ASSUME Inv, \A o \in Ops : Carried(o) \/ Begun(o),
           \A o \in Ops : (Active(o)' => Active(o)) \/ \A s \in Copies(o)' : Evidence(s)
    PROVE  Started'
<1> SUFFICES ASSUME NEW o \in Ops, Active(o), NEW s \in Copies(o)'
             PROVE  Evidence(s)
  BY DEF Started, Evidence
<1>1. ~Begun(o)
  <2>1. effects[o] \in Nat
    BY DEF Inv, TypeOK
  <2> QED BY <2>1, FreshIsIdle DEF Begun, Fresh, Active
<1>2. \A t \in Copies(o) : Evidence(t)
  BY DEF Inv, Started
<1> QED BY <1>1, <1>2 DEF Carried, Descends, Evidence, Evolves

LEMMA StartedFromParts ==
    ASSUME Inv, Advance, former' = former,
           \A o \in Ops : \/ (effects'[o] > 0 => effects[o] > 0) /\ RecordedFor(o)' \subseteq RecordedFor(o)
                          \/ \A s \in Copies(o)' : Evidence(s)
    PROVE  Started'
<1>1. \A o \in Ops : Carried(o) \/ Begun(o)
  BY AdvanceCopies
<1>2. \A o \in Ops : LeftFor(o)' = LeftFor(o)
  BY DEF LeftFor, Row
<1>3. \A o \in Ops : (Active(o)' => Active(o)) \/ \A s \in Copies(o)' : Evidence(s)
  BY <1>2 DEF Active
<1> QED BY <1>1, <1>3, StartedFromCopies

\* An Operation of which nothing new is recorded or resumed.
LEMMA OnlyOneFromCopies ==
    ASSUME Inv, NEW o \in Ops, Carried(o) \/ Begun(o), effects'[o] = effects[o],
           RecordedFor(o)' \subseteq RecordedFor(o), LeftFor(o)' \subseteq LeftFor(o)
    PROVE  OnlyOneFor(o)'
<1>1. CASE Begun(o)
  <2>1. effects[o] = 0 /\ RecordedFor(o) = {} /\ LeftFor(o) = {}
    BY <1>1, FreshIsIdle DEF Begun, Fresh
  <2> QED BY <2>1 DEF OnlyOneFor
<1>2. CASE Carried(o)
  <2>1. (\E s \in Copies(o)' : NotCancelled(s)) => \E s \in Copies(o) : NotCancelled(s)
    BY <1>2 DEF Carried, Descends, Evolves, NotCancelled
  <2>2. OnlyOneFor(o)
    BY DEF Inv, OnlyOne
  <2> QED BY <2>1, <2>2 DEF OnlyOneFor, NotCancelled
<1> QED BY <1>1, <1>2

LEMMA OnlyOneKept ==
    ASSUME Inv, Advance, former' = former, NEW o \in Ops, effects'[o] = effects[o],
           RecordedFor(o)' \subseteq RecordedFor(o)
    PROVE  OnlyOneFor(o)'
<1>1. LeftFor(o)' = LeftFor(o)
  BY DEF LeftFor, Row
<1> QED BY <1>1, AdvanceCopies, OnlyOneFromCopies

\* Without a failed write, what stays open keeps its token.
LEMMA SealedFromParts ==
    ASSUME Inv, Advance,
           \A o \in Ops :
              \/ tokens'[o] = tokens[o] /\ operations[o] # None
              \/ tokens'[o] # None
              \/ operations'[o] = None \/ Terminal(operations'[o]) \/ failures' # 0,
           mode' = "closing" => \/ failures' # 0
                                \/ mode = "closing" /\ issued' = issued
                                \/ \A o \in Ops : operations'[o] # None => Terminal(operations'[o])
    PROVE  Sealed'
<1> SUFFICES ASSUME failures' = 0, NEW o \in Ops, operations'[o] # None, ~Terminal(operations'[o])
             PROVE  tokens'[o] # None /\ mode' # "closing"
  BY DEF Sealed, Advance
<1>1. operations[o] # None => ~Terminal(operations[o])
  BY DEF Advance, Evolves
<1>2. failures = 0
  BY DEF Advance
<1>3. operations[o] # None => tokens[o] # None /\ mode # "closing"
  BY <1>1, <1>2 DEF Inv, Sealed, Advance
<1>4. tokens'[o] # None
  BY <1>3
<1>5. mode' # "closing"
  BY <1>3 DEF Advance, Fresh
<1> QED BY <1>4, <1>5

\* Leases that are kept or given back.
LEMMA ApartKept ==
    ASSUME Inv, \A w \in Workers : lease'[w] \in {lease[w], NoLease}
    PROVE  Apart'
  BY DEF Inv, Apart, Admit, Gate!Limit

\* Module LeaseTable counts as FiniteSets does.
LEMMA GateCounts == \A S : Gate!Cardinality(S) = Cardinality(S)
  BY DEF Gate!Cardinality, Cardinality

\* A grant: the locks were free, and a tool that had a lease out has room for two.
LEMMA ApartGranted ==
    ASSUME Inv, NEW w \in Workers, NEW r \in Requests, Gate!Grant(w, r)
    PROVE  /\ Apart' /\ lease' \in [Workers -> Requests \cup {NoLease}] /\ lease'[w] = r
           /\ \A v \in Workers : v # w => lease'[v] = lease[v]
<1>0. lease \in [Workers -> Requests \cup {NoLease}]
  BY DEF Inv, TypeOK
<1>1. /\ lease' = [lease EXCEPT ![w] = r] /\ r.locks \cap Gate!LeasedLocks = {}
      /\ Cardinality(Gate!HoldersOf(r.tool_id)) < Gate!Limit(r)
  BY GateCounts DEF Gate!Grant, Gate!Grantable
<1>2. \A v \in Workers : lease'[v] = IF v = w THEN r ELSE lease[v]
  BY <1>0, <1>1
<1>3. ASSUME NEW v \in Workers, v # w, lease[v] # NoLease
      PROVE  /\ lease[v].locks \cap r.locks = {} /\ r.locks \cap lease[v].locks = {}
             /\ lease[v].tool_id = r.tool_id => Gate!Limit(r) > 1
  <2>1. \A x \in lease[v].locks : x \in Gate!LeasedLocks
    BY <1>3 DEF Gate!LeasedLocks, Gate!Holding
  <2>2. ASSUME lease[v].tool_id = r.tool_id PROVE Gate!Limit(r) > 1
    <3> DEFINE H == Gate!HoldersOf(r.tool_id)
    <3>1. v \in H /\ H \subseteq Workers
      BY <1>3, <2>2 DEF Gate!HoldersOf
    <3>2. IsFiniteSet(H)
      BY <3>1, FS_Subset, DispatchAssumption
    <3>3. Cardinality(H) \in Nat /\ Cardinality(H) # 0
      BY <3>1, <3>2, FS_CardinalityType, FS_EmptySet
    <3>4. Gate!Limit(r) \in Nat
      BY DispatchAssumption DEF Gate!Limit, Requests
    <3> QED BY <1>1, <3>3, <3>4
  <2> QED BY <1>1, <2>1, <2>2
<1>4. Apart'
  <2> SUFFICES ASSUME NEW u \in Workers, NEW v \in Workers, u # v,
                      lease'[u] # NoLease, lease'[v] # NoLease
               PROVE  /\ lease'[u].locks \cap lease'[v].locks = {}
                      /\ lease'[u].tool_id = lease'[v].tool_id =>
                            Gate!Limit(lease'[u]) > 1 \/ Gate!Limit(lease'[v]) > 1
    BY DEF Apart, Admit, Gate!Limit
  <2>1. CASE u = w
    BY <1>2, <1>3, <2>1
  <2>2. CASE v = w
    BY <1>2, <1>3, <2>2
  <2>3. CASE u # w /\ v # w
    BY <1>2, <2>3 DEF Inv, Apart, Admit
  <2> QED BY <2>1, <2>2, <2>3
<1> QED BY <1>0, <1>1, <1>2, <1>4

-----------------------------------------------------------------------------
(* The two common shapes of a step *)

Moved(w, ph, r) ==
    worker' = [worker EXCEPT ![w] = [phase |-> ph, op |-> worker[w].op, outcome |-> r]]

LEMMA MoveMoves ==
    ASSUME Inv, NEW w \in Workers, NEW ph
    PROVE  /\ Move(w, ph) => Moved(w, ph, worker[w].outcome)
           /\ \A r : Answer(w, ph, r) => Moved(w, ph, r)
           /\ worker[w].outcome \in Outcomes \cup {"none"}
  BY DEF Move, Answer, Moved, Inv, TypeOK, Rows

LEMMA MovedIs ==
    ASSUME Inv, NEW w \in Workers, NEW ph \in Phases, NEW r \in Outcomes \cup {"none"}, Moved(w, ph, r)
    PROVE  /\ worker'[w] = [phase |-> ph, op |-> worker[w].op, outcome |-> r]
           /\ worker'[w].phase = ph /\ worker'[w].op = worker[w].op
           /\ \A v \in Workers : v # w => worker'[v] = worker[v]
           /\ worker' \in Rows
  BY DEF Moved, Inv, TypeOK, Rows

\* A task goes on, nothing is resumed and no start was recorded.
LEMMA TaskStep ==
    ASSUME Inv, Advance, NEW w \in Workers, worker[w].phase # "free",
           NEW ph \in Phases \ {"free", "recorded"}, NEW r \in Outcomes \cup {"none"}, Moved(w, ph, r),
           ph \in {"suspended", "process", "ended"} => Backend[Record(w).invocation] = "process",
           ph = "body" => Backend[Record(w).invocation] = "command",
           ph \in {"ended", "unwind", "report"} => r \in Outcomes,
           lease' \in [Workers -> Requests \cup {NoLease}], Apart',
           lease'[w] = IF ph \in {"queue", "waiting", "report"} THEN NoLease ELSE Request(w),
           \A v \in Workers : v # w => lease'[v] = lease[v],
           UNCHANGED <<tokens, cancelled, modeVars, effects, issued>>
    PROVE  Inv'
<1>1. /\ worker'[w] = [phase |-> ph, op |-> worker[w].op, outcome |-> r]
      /\ worker'[w].phase = ph /\ worker'[w].op = worker[w].op
      /\ \A v \in Workers : v # w => worker'[v] = worker[v]
      /\ worker' \in Rows
  BY MovedIs
<1>0. former' = former /\ mode' = mode
  BY DEF modeVars
<1>2. TypeOK'
  BY <1>1 DEF Inv, TypeOK, Advance, modeVars
<1>3. Records' /\ LeftOver'
  BY <1>0, AdvanceRecords, LeftOverKept
<1>4. Tasks'
  <2>1. \A v \in Workers : TaskOK(v)'
    BY <1>1, TaskKept, TaskMoved
  <2>2. /\ \A o \in Ops : tokens'[o] # None => tokens[o] # None
        /\ \A x \in toForce' : x \in Ops \X Workers /\ operations[x[1]] # None
    BY DEF modeVars, Inv, TypeOK, Tasks
  <2> QED BY <2>1, <2>2, TasksFromParts DEF modeVars
<1>5. \A o \in Ops : RecordedFor(o)' \subseteq RecordedFor(o)
  BY <1>1 DEF RecordedFor
<1>6. Started' /\ OnlyOne'
  BY <1>0, <1>5, StartedFromParts, OnlyOneKept DEF OnlyOne
<1>7. Sealed'
  <2>1. \A o \in Ops : tokens'[o] = tokens[o] /\ (operations[o] # None \/ operations'[o] = None)
    BY DEF Advance, Fresh
  <2> QED BY <2>1, SealedFromParts DEF modeVars
<1>8. GivenUp'
  BY <1>0, <1>1, GivenUpFromParts
<1> QED BY <1>2, <1>3, <1>4, <1>6, <1>7, <1>8 DEF Inv

\* A handler or the shutdown: the tasks stay where they are.
LEMMA HandlerStep ==
    ASSUME Inv, Advance, UNCHANGED <<worker, lease, tokens, effects, former, stops>>,
           cancelled' \subseteq Workers, mode' = mode \/ stops < MaxStops,
           mode' \in {"serving", "draining", "forcing", "closing", "down"},
           mode' = "closing" => mode = "closing" \/ \A o \in Ops : tokens[o] # None => Terminal(operations'[o]),
           toForce' \subseteq Ops \X Workers, \A x \in toForce' : operations[x[1]] # None,
           \A o \in Ops : operations[o] # None \/ operations'[o] = None \/ failures' # 0,
           mode' = "closing" => \/ failures' # 0
                                \/ mode = "closing" /\ issued' = issued
                                \/ \A o \in Ops : operations'[o] # None => Terminal(operations'[o])
    PROVE  Inv'
<1>1. TypeOK'
  BY DEF Inv, TypeOK, Advance
<1>2. Records' /\ LeftOver'
  BY AdvanceRecords, LeftOverKept
<1>3. Tasks'
  <2>1. \A v \in Workers : TaskOK(v)'
    BY TaskKept
  <2> QED BY <2>1, TasksFromParts
<1>4. Apart'
  BY ApartKept
<1>5. \A o \in Ops : RecordedFor(o)' \subseteq RecordedFor(o)
  BY DEF RecordedFor
<1>6. Started' /\ OnlyOne'
  BY <1>5, StartedFromParts, OnlyOneKept DEF OnlyOne
<1>7. Sealed'
  BY SealedFromParts
<1>8. GivenUp'
  <2> SUFFICES ASSUME NEW w \in Workers, worker[w].phase # "free", mode' = "closing", mode # "closing"
               PROVE  Terminal(operations'[worker[w].op])
    BY GivenUpFromParts
  <2>1. /\ worker[w].op \in Ops /\ operations[worker[w].op] # None
        /\ tokens[worker[w].op] # None \/ Terminal(operations[worker[w].op])
    BY DEF Inv, Tasks, TaskOK, GivenUp, Record
  <2> QED BY <2>1 DEF Advance, Evolves
<1> QED BY <1>1, <1>2, <1>3, <1>4, <1>6, <1>7, <1>8 DEF Inv

-----------------------------------------------------------------------------
(* The task *)

\* What a task at work has: a live record, its lease, a typed row.
LEMMA AtWork ==
    ASSUME Inv, NEW w \in Workers, worker[w].phase # "free"
    PROVE  /\ Up /\ worker[w].op \in Ops /\ Record(w) # None /\ RecordOK(Record(w))
           /\ Request(w) \in Requests /\ Record(w).invocation \in Invocations
           /\ worker[w].outcome \in Outcomes \cup {"none"}
           /\ lease[w] = IF worker[w].phase \in {"free", "queue", "waiting", "report"}
                         THEN NoLease ELSE Request(w)
<1>1. TaskOK(w)
  BY DEF Inv, Tasks
<1>2. RecordOK(Record(w)) /\ worker[w].op \in Ops /\ Record(w) # None /\ Up
  BY <1>1, HeldRecords DEF TaskOK, Record
<1>3. Record(w).invocation \in Invocations
  BY <1>2 DEF RecordOK, Snapshots
<1>4. Request(w) \in Requests
  BY <1>3 DEF Request, Requests
<1> QED BY <1>1, <1>2, <1>3, <1>4 DEF TaskOK, Inv, TypeOK, Rows

LEMMA EnterGateKeeps ==
    ASSUME Inv, NEW w \in Workers, EnterGate(w)
    PROVE  Inv'
<1>1. worker[w].phase # "free" /\ Moved(w, "granted", worker[w].outcome)
  BY MoveMoves DEF EnterGate
<1>2. Request(w) \in Requests /\ Up /\ Up' /\ worker[w].outcome \in Outcomes \cup {"none"}
  BY <1>1, AtWork DEF EnterGate, modeVars, Up
<1>3. Advance
  BY <1>2, StoreUntouched DEF EnterGate
<1>4. /\ Apart' /\ lease' \in [Workers -> Requests \cup {NoLease}] /\ lease'[w] = Request(w)
      /\ \A v \in Workers : v # w => lease'[v] = lease[v]
  BY <1>2, ApartGranted DEF EnterGate
<1>5. UNCHANGED <<tokens, cancelled, modeVars, effects, issued>> /\ "granted" \in Phases
  BY DEF EnterGate, storeVars, Phases
<1> QED BY <1>1, <1>2, <1>3, <1>4, <1>5, TaskStep

\* Steps of a task that touch nothing but its own row.
LEMMA QuietStep ==
    ASSUME Inv, NEW w \in Workers, worker[w].phase # "free",
           NEW ph \in Phases \ {"free", "recorded", "queue", "report"}, NEW r \in Outcomes \cup {"none"},
           Moved(w, ph, r),
           ph = "waiting" <=> worker[w].phase = "queue", worker[w].phase \notin {"waiting", "report"},
           ph \in {"suspended", "process", "ended"} => Backend[Record(w).invocation] = "process",
           ph = "body" => Backend[Record(w).invocation] = "command",
           ph \in {"ended", "unwind"} => r \in Outcomes,
           UNCHANGED <<storeVars, lease, tokens, cancelled, modeVars, effects>>
    PROVE  Inv'
<1>1. Up /\ Up'
  BY AtWork DEF modeVars, Up
<1>2. Advance
  BY <1>1, StoreUntouched
<1>3. Apart' /\ lease' \in [Workers -> Requests \cup {NoLease}]
  BY ApartKept DEF Inv, TypeOK
<1>4. lease'[w] = IF ph \in {"queue", "waiting", "report"} THEN NoLease ELSE Request(w)
  BY AtWork
<1>5. UNCHANGED issued
  BY DEF storeVars
<1> QED BY <1>2, <1>3, <1>4, <1>5, TaskStep

LEMMA QuietStepsKeep ==
    ASSUME Inv, NEW w \in Workers,
           \/ RefusedByGate(w) \/ LaunchFails(w) \/ LaunchCancelled(w) \/ CreateSuspended(w)
           \/ ResumeFails(w) \/ ProcessCancelled(w) \/ TerminateFails(w)
           \/ \E r \in {"ok", "error"} : CommandEnds(w, r) \/ ProcessExits(w, r)
    PROVE  Inv'
<1>0. TaskOK(w) /\ worker[w].outcome \in Outcomes \cup {"none"}
  BY DEF Inv, Tasks, TypeOK, Rows
<1>1. CASE RefusedByGate(w)
  BY <1>0, <1>1, QuietStep, MoveMoves DEF RefusedByGate, At, Phases
<1>2. CASE LaunchFails(w)
  BY <1>0, <1>2, QuietStep, MoveMoves DEF LaunchFails, At, Phases, Outcomes
<1>3. CASE LaunchCancelled(w)
  BY <1>0, <1>3, QuietStep, MoveMoves DEF LaunchCancelled, At, Phases, Outcomes
<1>4. CASE CreateSuspended(w)
  BY <1>0, <1>4, QuietStep, MoveMoves DEF CreateSuspended, At, Phases
<1>5. CASE ResumeFails(w)
  BY <1>0, <1>5, QuietStep, MoveMoves DEF ResumeFails, At, Phases, Outcomes
<1>6. CASE ProcessCancelled(w)
  BY <1>0, <1>6, QuietStep, MoveMoves DEF ProcessCancelled, At, Phases, Outcomes, TaskOK
<1>7. CASE TerminateFails(w)
  BY <1>0, <1>7, QuietStep, MoveMoves DEF TerminateFails, At, Phases, Outcomes
<1>8. ASSUME NEW r \in {"ok", "error"}, CommandEnds(w, r) PROVE Inv'
  BY <1>0, <1>8, QuietStep, MoveMoves DEF CommandEnds, At, Phases, Outcomes
<1>9. ASSUME NEW r \in {"ok", "error"}, ProcessExits(w, r) PROVE Inv'
  BY <1>0, <1>9, QuietStep, MoveMoves DEF ProcessExits, At, Phases, Outcomes, TaskOK
<1> QED BY <1>1, <1>2, <1>3, <1>4, <1>5, <1>6, <1>7, <1>8, <1>9

LEMMA DropLeaseKeeps ==
    ASSUME Inv, NEW w \in Workers, DropLease(w)
    PROVE  Inv'
<1>1. /\ worker[w].phase # "free" /\ Moved(w, "report", worker[w].outcome)
      /\ worker[w].outcome \in Outcomes
  BY MoveMoves DEF DropLease, At, Inv, Tasks, TaskOK
<1>2. Up /\ Up'
  BY <1>1, AtWork DEF DropLease, modeVars, Up
<1>3. Advance
  BY <1>2, StoreUntouched DEF DropLease
<1>4. /\ lease' \in [Workers -> Requests \cup {NoLease}] /\ lease'[w] = NoLease
      /\ \A v \in Workers : v # w => lease'[v] = lease[v]
  BY DEF DropLease, Gate!GiveBack, Inv, TypeOK
<1>5. Apart'
  BY <1>4, ApartKept
<1>6. UNCHANGED <<tokens, cancelled, modeVars, effects, issued>> /\ "report" \in Phases
  BY DEF DropLease, storeVars, Phases
<1> QED BY <1>1, <1>3, <1>4, <1>5, <1>6, TaskStep

\* A task that writes to its record on the way.
LEMMA RecordStep ==
    ASSUME Inv, NEW w \in Workers, worker[w].phase \notin {"free", "queue", "waiting", "report"},
           NEW t, Evolves(Record(w), t), NEW p \in WriteResults, SaveRecord(worker[w].op, t, p),
           NEW ph \in {"launch", "unwind"}, NEW r \in Outcomes \cup {"none"}, Moved(w, ph, r),
           ph = "unwind" => r \in Outcomes,
           UNCHANGED <<lease, tokens, cancelled, modeVars, effects>>
    PROVE  Inv'
<1>1. Up /\ Up' /\ worker[w].op \in Ops /\ Record(w) # None /\ lease[w] = Request(w)
  BY AtWork DEF modeVars, Up
<1>2. Advance
  BY <1>1, SaveRecordAdvances DEF Record
<1>3. Apart' /\ lease' \in [Workers -> Requests \cup {NoLease}]
  BY ApartKept DEF Inv, TypeOK
<1>4. UNCHANGED issued /\ ph \in Phases
  BY DEF SaveRecord, Phases
<1> QED BY <1>1, <1>2, <1>3, <1>4, TaskStep

LEMMA StartKeeps ==
    ASSUME Inv, NEW w \in Workers, NEW p \in WriteResults, Start(w, p)
    PROVE  Inv'
<1>1. worker[w].phase = "granted" /\ Moved(w, "launch", worker[w].outcome)
  BY MoveMoves DEF Start, At
<1>2. worker[w].outcome \in Outcomes \cup {"none"} /\ RecordOK(Record(w))
  BY <1>1, AtWork
<1>3. Evolves(Record(w), TryTransition(Record(w), "starting"))
  BY <1>2, TryEvolves
<1> QED BY <1>1, <1>2, <1>3, RecordStep DEF Start

LEMMA RecordEndKeeps ==
    ASSUME Inv, NEW w \in Workers, NEW p \in WriteResults, RecordEnd(w, p)
    PROVE  Inv'
<1> DEFINE r == IF p = "written" THEN worker[w].outcome ELSE "error"
<1>1. worker[w].phase = "ended" /\ Moved(w, "unwind", r)
  BY MoveMoves DEF RecordEnd, At
<1>2. r \in Outcomes
  BY <1>1 DEF Inv, Tasks, TaskOK, Outcomes
<1>3. Evolves(Record(w), ProcessFinished(Record(w)))
  BY <1>1, AtWork, FinishEvolves
<1> HIDE DEF r
<1> QED BY <1>1, <1>2, <1>3, RecordStep DEF RecordEnd

\* The three steps around the start of the work; what they owe to Started and OnlyOne
\* is theirs to show.
LEMMA StartStep ==
    ASSUME Inv, Advance, NEW w \in Workers, worker[w].phase \in {"launch", "suspended", "recorded"},
           NEW ph \in {"body", "recorded", "process"}, Moved(w, ph, worker[w].outcome),
           Backend[Record(w).invocation] = IF ph = "body" THEN "command" ELSE "process",
           effects' \in [Ops -> Nat], \A o \in Ops : effects'[o] > 0 => effects[o] > 0 \/ o \in issued',
           Started', OnlyOne',
           UNCHANGED <<lease, tokens, cancelled, modeVars, issued>>
    PROVE  Inv'
<1>0. worker[w].outcome \in Outcomes \cup {"none"} /\ ph \in Phases /\ lease[w] = Request(w)
  BY AtWork DEF Phases
<1>1. /\ worker'[w] = [phase |-> ph, op |-> worker[w].op, outcome |-> worker[w].outcome]
      /\ \A v \in Workers : v # w => worker'[v] = worker[v]
      /\ worker' \in Rows
  BY <1>0, MovedIs
<1>7. former' = former /\ mode' = mode
  BY DEF modeVars
<1>2. TypeOK'
  BY <1>1 DEF Inv, TypeOK, Advance, modeVars
<1>3. Records' /\ LeftOver'
  BY <1>7, AdvanceRecords, LeftOverKept
<1>4. Tasks'
  <2>1. \A v \in Workers : TaskOK(v)'
    BY <1>0, <1>1, TaskKept, TaskMoved
  <2>2. /\ \A o \in Ops : tokens'[o] # None => tokens[o] # None
        /\ \A x \in toForce' : x \in Ops \X Workers /\ operations[x[1]] # None
    BY DEF modeVars, Inv, TypeOK, Tasks
  <2> QED BY <2>1, <2>2, TasksFromParts DEF modeVars
<1>5. Apart'
  BY ApartKept
<1>6. Sealed'
  <2>1. \A o \in Ops : tokens'[o] = tokens[o] /\ (operations[o] # None \/ operations'[o] = None)
    BY DEF Advance, Fresh
  <2> QED BY <2>1, SealedFromParts DEF modeVars
<1>8. GivenUp'
  BY <1>1, <1>7, GivenUpFromParts
<1> QED BY <1>2, <1>3, <1>4, <1>5, <1>6, <1>8 DEF Inv

\* The row of task w changes its phase, and only Operation worker[w].op its count.
LEMMA OthersKept ==
    ASSUME Inv, NEW w \in Workers, NEW ph \in Phases, Moved(w, ph, worker[w].outcome)
    PROVE  /\ worker'[w].phase = ph /\ worker'[w].op = worker[w].op
           /\ \A v \in Workers : v # w => worker'[v] = worker[v]
           /\ \A o \in Ops : o # worker[w].op => RecordedFor(o)' = RecordedFor(o)
<1>1. worker[w].outcome \in Outcomes \cup {"none"}
  BY MoveMoves
<1>2. /\ worker'[w].phase = ph /\ worker'[w].op = worker[w].op
      /\ \A v \in Workers : v # w => worker'[v] = worker[v]
  <2> DEFINE r == worker[w].outcome
  <2> HIDE DEF r
  <2>1. r \in Outcomes \cup {"none"} /\ Moved(w, ph, r)
    BY <1>1 DEF r
  <2> QED BY <2>1, MovedIs
<1> QED BY <1>2 DEF RecordedFor

LEMMA EffectDoes ==
    ASSUME Inv, NEW w \in Workers, worker[w].op \in Ops, Effect(w)
    PROVE  /\ effects' \in [Ops -> Nat] /\ effects'[worker[w].op] = effects[worker[w].op] + 1
           /\ \A o \in Ops : o # worker[w].op => effects'[o] = effects[o]
  BY DEF Effect, Inv, TypeOK

LEMMA RunCommandKeeps ==
    ASSUME Inv, NEW w \in Workers, RunCommand(w)
    PROVE  Inv'
<1>0. PICK o \in Ops : o = worker[w].op
  BY AtWork DEF RunCommand, At
<1> USE <1>0
<1>1. /\ worker[w].phase = "launch" /\ Backend[Record(w).invocation] = "command"
      /\ Moved(w, "body", worker[w].outcome) /\ UNCHANGED storeVars
      /\ UNCHANGED <<lease, tokens, cancelled, modeVars, issued>> /\ "body" \in Phases
  BY MoveMoves DEF RunCommand, At, storeVars, Phases
<1>2. Up /\ Up' /\ o \in Ops /\ Record(w) # None
  BY <1>1, AtWork DEF modeVars, Up
<1>3. Advance
  BY <1>1, <1>2, StoreUntouched
<1>4. /\ effects' \in [Ops -> Nat] /\ effects'[o] = effects[o] + 1
      /\ \A q \in Ops : q # o => effects'[q] = effects[q]
  BY <1>2, EffectDoes DEF RunCommand
<1>5. /\ worker'[w].phase = "body" /\ worker'[w].op = o
      /\ \A v \in Workers : v # w => worker'[v] = worker[v]
      /\ \A q \in Ops : q # o => RecordedFor(q)' = RecordedFor(q)
  BY <1>1, OthersKept
<1>6. /\ former' = former
      /\ \A s \in Copies(o)' : s # None => Backend[s.invocation] # "process"
  <2>1. former' = former /\ Copies(o)' = Copies(o)
    BY <1>1 DEF Copies, storeVars, modeVars
  <2>2. operations[o] \in Copies(o) /\ operations[o] = Record(w)
    BY DEF Copies, Record
  <2>3. \A s, t \in Copies(o) : s # None /\ t # None => s.invocation = t.invocation
    BY <1>2 DEF Inv, Records
  <2> QED BY <1>1, <1>2, <2>1, <2>2, <2>3
<1>7. Started'
  <2>1. \A s \in Copies(o)' : Evidence(s)
    BY <1>6 DEF Evidence
  <2> QED BY <1>3, <1>4, <1>5, <1>6, <2>1, StartedFromParts
<1>8. OnlyOne'
  <2>1. OnlyOneFor(o)'
    BY <1>5, <1>6 DEF OnlyOneFor, NotCancelled
  <2> QED BY <1>3, <1>4, <1>5, <1>6, <2>1, OnlyOneKept DEF OnlyOne
<1>9. \A q \in Ops : effects'[q] > 0 => effects[q] > 0 \/ q \in issued'
  BY <1>1, <1>2, <1>4, HeldRecords DEF Record
<1> QED BY <1>1, <1>3, <1>4, <1>7, <1>8, <1>9, StartStep

\* The process was recorded for this task alone, so nothing was resumed before.
LEMMA ResumeKeeps ==
    ASSUME Inv, NEW w \in Workers, Resume(w)
    PROVE  Inv'
<1>0. PICK o \in Ops : o = worker[w].op
  BY AtWork DEF Resume, At
<1> USE <1>0
<1>1. /\ worker[w].phase = "recorded" /\ Moved(w, "process", worker[w].outcome) /\ UNCHANGED storeVars
      /\ UNCHANGED <<lease, tokens, cancelled, modeVars, issued>> /\ "process" \in Phases
  BY MoveMoves DEF Resume, At, storeVars, Phases
<1>2. Up /\ Up' /\ o \in Ops /\ Record(w) # None /\ Backend[Record(w).invocation] = "process"
  BY <1>1, AtWork DEF modeVars, Up, Inv, Tasks, TaskOK
<1>3. Advance
  BY <1>1, <1>2, StoreUntouched
<1>4. /\ effects' \in [Ops -> Nat] /\ effects'[o] = effects[o] + 1
      /\ \A q \in Ops : q # o => effects'[q] = effects[q]
  BY <1>2, EffectDoes DEF Resume
<1>5. /\ worker'[w].phase = "process" /\ worker'[w].op = o
      /\ \A v \in Workers : v # w => worker'[v] = worker[v]
      /\ \A q \in Ops : q # o => RecordedFor(q)' = RecordedFor(q)
  BY <1>1, OthersKept
<1>9. former' = former /\ Copies(o)' = Copies(o) /\ LeftFor(o)' = LeftFor(o) /\ w \in RecordedFor(o)
  BY <1>1 DEF Copies, storeVars, modeVars, LeftFor, Row, RecordedFor
<1>6. Started'
  <2>1. \A s \in Copies(o)' : Evidence(s)
    BY <1>2, <1>9 DEF Inv, Started, Active
  <2> QED BY <1>3, <1>4, <1>5, <1>9, <2>1, StartedFromParts
<1>7. OnlyOne'
  <2>1. OnlyOneFor(o)'
    <3> SUFFICES ASSUME \E s \in Copies(o) : NotCancelled(s)
                 PROVE  effects'[o] <= 1 /\ RecordedFor(o)' = {} /\ LeftFor(o) = {}
      BY <1>9 DEF OnlyOneFor, NotCancelled
    <3>2. /\ effects[o] <= 1 /\ effects[o] # 1 /\ LeftFor(o) = {}
          /\ \A v \in RecordedFor(o) : v = w
      BY <1>2, <1>9 DEF Inv, OnlyOne, OnlyOneFor
    <3>3. effects'[o] <= 1
      BY <1>2, <1>4, <3>2 DEF Inv, TypeOK
    <3>4. RecordedFor(o)' = {}
      BY <1>5, <3>2 DEF RecordedFor
    <3> QED BY <3>2, <3>3, <3>4
  <2> QED BY <1>3, <1>4, <1>5, <1>9, <2>1, OnlyOneKept DEF OnlyOne
<1>8. \A q \in Ops : effects'[q] > 0 => effects[q] > 0 \/ q \in issued'
  BY <1>1, <1>2, <1>4, HeldRecords DEF Record
<1> QED BY <1>1, <1>2, <1>3, <1>4, <1>6, <1>7, <1>8, StartStep

\* The observer: an Operation that is starting has no start on record, and one that is
\* cancelling has a cancel on record.
LEMMA RecordStartKeeps ==
    ASSUME Inv, NEW w \in Workers, NEW p \in WriteResults, RecordStart(w, p)
    PROVE  Inv'
<1>0. PICK o \in Ops : o = worker[w].op
  BY AtWork DEF RecordStart, At
<1> USE <1>0
<1> DEFINE s == Record(w)
<1>1. worker[w].phase = "suspended" /\ UNCHANGED <<lease, tokens, cancelled, modeVars, effects, issued>>
  BY DEF RecordStart, At
<1>2. /\ Up /\ Up' /\ o \in Ops /\ s # None /\ RecordOK(s) /\ s = operations[o]
      /\ Backend[s.invocation] = "process" /\ lease[w] = Request(w)
  BY <1>1, AtWork DEF modeVars, Up, Inv, Tasks, TaskOK, Record
<1>3. CASE ~CanRecordStart(s)
  <2>1. UNCHANGED storeVars /\ Moved(w, "unwind", "error")
    BY <1>3, MoveMoves DEF RecordStart, storeVars
  <2> QED BY <1>1, <2>1, QuietStep DEF Phases, Outcomes
<1>4. CASE CanRecordStart(s)
  <2> DEFINE t == ProcessStarted(s)
  <2>1. Evolves(s, t) /\ t.process_id /\ t # None
    BY <1>2, <1>4, StartEvolves, NoneAssumption DEF Evolves, RecordOK
  <2>2. Save([operations EXCEPT ![o] = t], idempotency, p)
    BY <1>2, <1>4 DEF RecordStart
  <2> HIDE DEF t
  <2>7. /\ Advance /\ operations'[o] = t
        /\ p = "written" => disk'.operations = operations'
    BY <1>1, <1>2, <2>1, <2>2, SaveOneAdvances
  <2>8. CASE p # "written"
    <3>1. Moved(w, "unwind", "error")
      BY <2>8, MoveMoves DEF RecordStart
    <3>2. Apart' /\ lease' \in [Workers -> Requests \cup {NoLease}]
      BY <1>1, ApartKept DEF Inv, TypeOK
    <3> QED BY <1>1, <1>2, <2>7, <3>1, <3>2, TaskStep DEF Phases, Outcomes
  <2>9. CASE p = "written"
    <3>1. Moved(w, "recorded", worker[w].outcome) /\ "recorded" \in Phases
      BY <1>4, <2>9, MoveMoves DEF RecordStart, Phases
    <3>2. /\ worker'[w].phase = "recorded" /\ worker'[w].op = o
          /\ \A v \in Workers : v # w => worker'[v] = worker[v]
          /\ \A q \in Ops : q # o => RecordedFor(q)' = RecordedFor(q)
      BY <3>1, OthersKept
    <3>0. former' = former /\ LeftFor(o)' = LeftFor(o)
      BY <1>1 DEF modeVars, LeftFor, Row
    <3>3. \A x \in Copies(o)' : x = t \/ x = None
      <4>1. operations'[o] = t /\ disk'.operations[o] = t
        BY <2>7, <2>9
      <4>2. ~Terminal(operations[o])
        BY <1>2, <1>4 DEF CanRecordStart, Terminal, TerminalStatuses
      <4>3. \A c \in Controllers : former[c].operations[o] = None
        BY <1>2, <4>2 DEF Inv, LeftOver
      <4> QED BY <3>0, <4>1, <4>3 DEF Copies
    <3>4. Started'
      <4>1. \A x \in Copies(o)' : Evidence(x)
        BY <2>1, <3>3 DEF Evidence
      <4> QED BY <1>1, <2>7, <3>0, <3>2, <4>1, StartedFromParts
    <3>5. OnlyOneFor(o)'
      <4> SUFFICES ASSUME NotCancelled(t)
                   PROVE  effects[o] = 0 /\ LeftFor(o) = {} /\ \A u, v \in RecordedFor(o)' : u = v
        BY <1>1, <3>0, <3>2, <3>3 DEF OnlyOneFor, NotCancelled
      <4>1. ~s.cancel_requested
        BY <2>1 DEF NotCancelled, Evolves
      <4>2. ~s.process_id
        BY <1>2, <1>4, <4>1 DEF CanRecordStart, RecordOK, BeforeStart
      <4>3. ~Evidence(operations[o]) /\ operations[o] \in Copies(o)
        BY <1>2, <4>2 DEF Evidence, Copies
      <4>4. effects[o] = 0 /\ RecordedFor(o) = {} /\ LeftFor(o) = {}
        BY <1>2, <4>3 DEF Inv, TypeOK, Started, Active
      <4>5. \A u \in RecordedFor(o)' : u = w
        BY <3>2, <4>4 DEF RecordedFor
      <4> QED BY <4>4, <4>5
    <3>6. OnlyOne'
      BY <1>1, <2>7, <3>0, <3>2, <3>5, OnlyOneKept DEF OnlyOne
    <3>7. effects' \in [Ops -> Nat]
      BY <1>1 DEF Inv, TypeOK
    <3> QED BY <1>1, <1>2, <2>7, <3>1, <3>4, <3>6, <3>7, StartStep
  <2> QED BY <2>8, <2>9
<1> QED BY <1>3, <1>4

\* The Operation is completed, its token removed and the task over.
LEMMA FinishStep ==
    ASSUME Inv, NEW w \in Workers, worker[w].phase \in {"waiting", "report"}, NEW r \in Outcomes,
           NEW p \in WriteResults, Finish(w, r, p), UNCHANGED <<lease, cancelled, modeVars, effects>>
    PROVE  Inv'
<1> DEFINE o == worker[w].op
           t == Complete(Record(w), r)
<1>1. /\ Up /\ Up' /\ o \in Ops /\ Record(w) # None /\ lease[w] = NoLease
      /\ RecordOK(Record(w)) /\ Record(w) = operations[o]
  BY AtWork DEF modeVars, Up, Record
<1>2. Evolves(operations[o], t) /\ Terminal(t)
  BY <1>1, CompleteEvolves
<1>3. SaveRecord(o, t, p) /\ UNCHANGED issued
  BY DEF Finish, SaveRecord
<1>4. tokens' = [tokens EXCEPT ![o] = None] /\ worker' = [worker EXCEPT ![w] = Idle]
  BY DEF Finish
<1> HIDE DEF t
<1>5. /\ Advance /\ operations'[o] = t
      /\ \A q \in Ops : q # o => operations'[q] = operations[q]
  BY <1>1, <1>2, <1>3, SaveRecordAdvances
<1>6. /\ worker' \in Rows
      /\ worker'[w] = Idle /\ \A v \in Workers : v # w => worker'[v] = worker[v]
  BY <1>4 DEF Inv, TypeOK, Rows, Idle, Phases
<1>7. /\ tokens' \in [Ops -> Workers \cup {None}] /\ tokens'[o] = None
      /\ \A q \in Ops : q # o => tokens'[q] = tokens[q]
  BY <1>1, <1>4 DEF Inv, TypeOK
<1> HIDE DEF o
<1>8. TypeOK'
  BY <1>5, <1>6, <1>7 DEF Inv, TypeOK, Advance, modeVars
<1>15. former' = former /\ mode' = mode
  BY DEF modeVars
<1>9. Records' /\ LeftOver'
  BY <1>5, <1>15, AdvanceRecords, LeftOverKept
<1>10. Tasks'
  <2>1. TaskOK(w)'
    BY <1>1, <1>6 DEF TaskOK, Idle
  <2>2. \A v \in Workers : TaskOK(v)'
    BY <1>5, <1>6, <2>1, TaskKept
  <2>3. \A x \in toForce' : x \in Ops \X Workers /\ operations[x[1]] # None
    BY DEF modeVars, Inv, TypeOK, Tasks
  <2>4. \A q \in Ops : tokens'[q] # None => tokens[q] # None
    BY <1>7
  <2> QED BY <1>5, <2>2, <2>3, <2>4, TasksFromParts DEF modeVars
<1>11. Apart'
  BY ApartKept
<1>12. \A q \in Ops : RecordedFor(q)' \subseteq RecordedFor(q)
  BY <1>6 DEF RecordedFor, Idle
<1>13. Started' /\ OnlyOne'
  BY <1>5, <1>12, <1>15, StartedFromParts, OnlyOneKept DEF OnlyOne
<1>14. Sealed'
  <2>1. \A q \in Ops : \/ tokens'[q] = tokens[q] /\ operations[q] # None
                       \/ operations'[q] = None \/ Terminal(operations'[q])
    BY <1>2, <1>5, <1>7
  <2> QED BY <1>3, <1>5, <2>1, SealedFromParts DEF modeVars
<1>16. GivenUp'
  <2> SUFFICES ASSUME NEW v \in Workers, worker'[v].phase # "free"
               PROVE  /\ worker[v].phase # "free" /\ worker'[v].op = worker[v].op
                      /\ tokens'[worker[v].op] = tokens[worker[v].op] \/ Terminal(operations'[worker[v].op])
    BY <1>5, <1>15, GivenUpFromParts
  <2>1. worker'[v] = worker[v]
    BY <1>6 DEF Idle
  <2>2. worker[v].op \in Ops
    BY <2>1, AtWork
  <2> QED BY <1>2, <1>5, <1>7, <2>1, <2>2
<1> QED BY <1>8, <1>9, <1>10, <1>11, <1>13, <1>14, <1>16 DEF Inv

LEMMA FinishKeeps ==
    ASSUME Inv, NEW w \in Workers, NEW p \in WriteResults, QueueTimeout(w, p) \/ Report(w, p)
    PROVE  Inv'
<1>1. CASE QueueTimeout(w, p)
  BY <1>1, FinishStep DEF QueueTimeout, At, Outcomes
<1>2. CASE Report(w, p)
  <2>1. worker[w].phase = "report" /\ worker[w].outcome \in Outcomes
    BY <1>2 DEF Report, At, Inv, Tasks, TaskOK
  <2> QED BY <1>2, <2>1, FinishStep DEF Report
<1> QED BY <1>1, <1>2

LEMMA ProgressKeeps ==
    ASSUME Inv, NEW w \in Workers, NEW p \in WriteResults, Progress(w, p)
    PROVE  Inv'
<1>1. /\ Save(operations, idempotency, p) /\ UNCHANGED <<issued, taskVars, modeVars, effects>>
      /\ worker[w].phase # "free"
  BY DEF Progress
<1>2. Up /\ Up' /\ operations \in OperationTables
  BY <1>1, AtWork DEF modeVars, Up, Inv, TypeOK
<1>3. \A o \in Ops : operations[o] # None => Evolves(operations[o], operations[o])
  BY EvolvesRefl, HeldRecords
<1>4. Advance /\ operations' = operations
  BY <1>1, <1>2, <1>3, SaveAdvances DEF Save
<1>5. \A x \in toForce' : operations[x[1]] # None
  BY <1>1 DEF modeVars, Inv, Tasks
<1>6. /\ cancelled' \subseteq Workers /\ toForce' \subseteq Ops \X Workers
      /\ mode' \in {"serving", "draining", "forcing", "closing", "down"}
  BY <1>1 DEF Inv, TypeOK, taskVars, modeVars
<1> QED BY <1>1, <1>4, <1>5, <1>6, HandlerStep DEF taskVars, modeVars

-----------------------------------------------------------------------------
(* tool.invoke *)

\* A new Operation: a new id, a key bound to it, and a file that has it or was not written.
LEMMA NewAdvances ==
    ASSUME Inv, Up, Up', NEW i \in Invocations, NEW k \in Keys \cup {NoKey}, NEW o \in Ops, o \notin issued,
           NEW s, RecordOK(s), s.invocation = i, NEW x, RecordOK(x), x.invocation = i,
           issued' = issued \cup {o},
           operations' = [operations EXCEPT ![o] = s], idempotency' = Bind(k, o, i),
           \/ disk' = disk
           \/ disk' = [operations |-> [operations EXCEPT ![o] = x], idempotency |-> Bind(k, o, i)],
           failures' \in 0 .. MaxFailures,
           failures' = 0 => failures = 0 /\ x = s /\ disk' # disk
    PROVE  /\ Advance /\ operations'[o] = s
           /\ \A q \in Ops : q # o => operations'[q] = operations[q]
<1>0. /\ operations \in OperationTables /\ idempotency \in KeyTables /\ issued \subseteq Ops
      /\ disk \in [operations : OperationTables, idempotency : KeyTables]
      /\ operations[o] = None /\ disk.operations[o] = None
      /\ s # None /\ x # None
  BY NoneAssumption, HeldRecords DEF Inv, TypeOK, RecordOK
<1> DEFINE ops == [operations EXCEPT ![o] = x]
           idem == Bind(k, o, i)
<1>1. /\ operations' \in OperationTables
      /\ \A q \in Ops : operations'[q] = IF q = o THEN s ELSE operations[q]
  BY <1>0 DEF OperationTables, RecordOK
<1>2. ops \in OperationTables /\ \A q \in Ops : ops[q] = IF q = o THEN x ELSE operations[q]
  BY <1>0 DEF OperationTables, RecordOK
<1>3. /\ idem \in KeyTables
      /\ \A j \in Keys : idem[j] # idempotency[j] => idem[j].operation_id = o
  <2>1. CASE k = NoKey
    BY <1>0, <2>1 DEF Bind
  <2>2. CASE k # NoKey
    <3>1. [operation_id |-> o, invocation_hash |-> i] \in IdempotencyRecords
      BY DEF IdempotencyRecords
    <3> QED BY <1>0, <2>2, <3>1 DEF Bind, KeyTables
  <2> QED BY <2>1, <2>2
<1>4. \A j \in Keys : idempotency[j] # None => idempotency[j].operation_id \in Ops
  BY <1>0 DEF KeyTables, IdempotencyRecords
<1> HIDE DEF ops, idem
<1>5. KeysKnown(operations', idem) /\ KeysKnown(ops, idem)
  BY <1>0, <1>1, <1>2, <1>3, <1>4 DEF Inv, Records, KeysKnown
<1>6. \/ disk'.operations = disk.operations /\ disk'.idempotency = disk.idempotency /\ disk' = disk
      \/ /\ disk'.operations = ops /\ disk'.idempotency = idem
         /\ disk' = [operations |-> ops, idempotency |-> idem]
  <2>1. disk' = disk \/ disk' = [operations |-> ops, idempotency |-> idem]
    BY DEF ops, idem
  <2>2. CASE disk' = disk
    BY <2>2
  <2>3. CASE disk' = [operations |-> ops, idempotency |-> idem]
    BY <2>3
  <2> QED BY <2>1, <2>2, <2>3
<1>7. /\ disk' \in [operations : OperationTables, idempotency : KeyTables]
      /\ KeysKnown(disk'.operations, disk'.idempotency)
  <2>1. CASE disk' = disk
    BY <1>0, <2>1 DEF Inv, Records, KeysKnown
  <2>2. CASE disk' = [operations |-> ops, idempotency |-> idem]
    BY <1>2, <1>3, <1>5, <2>2
  <2> QED BY <1>6, <2>1, <2>2
<1>8. Fresh(o)
  BY DEF Fresh
<1>9. \A q \in Ops : \/ disk'.operations[q] \in {disk.operations[q], operations'[q]}
                     \/ /\ Fresh(q) /\ RecordOK(disk'.operations[q]) /\ operations'[q] # None
                        /\ disk'.operations[q].invocation = operations'[q].invocation
  BY <1>0, <1>1, <1>2, <1>6, <1>8
<1>10. \A q \in Ops : operations[q] # None =>
          operations'[q] # None /\ Evolves(operations[q], operations'[q])
  BY <1>0, <1>1, EvolvesRefl, HeldRecords
<1>11. \A q \in Ops : operations[q] = None /\ operations'[q] # None => Fresh(q) /\ RecordOK(operations'[q])
  BY <1>1, <1>8
<1>12. failures' = 0 => failures = 0 /\ FileFollows(operations', disk'.operations)
  BY <1>6 DEF ops, FileFollows
<1>13. issued \subseteq issued' /\ issued' \subseteq Ops
  BY <1>0
<1>14. idempotency' = idem
  BY DEF idem
<1>15. Advance
  BY <1>1, <1>3, <1>5, <1>7, <1>9, <1>10, <1>11, <1>12, <1>13, <1>14 DEF Advance
<1> QED BY <1>1, <1>15

LEMMA InvokeUnrecordedKeeps ==
    ASSUME Inv, NEW i \in Invocations, NEW k \in Keys \cup {NoKey}, NEW o \in Ops, NEW p \in WriteResults,
           InvokeUnrecorded(i, k, o, p)
    PROVE  Inv'
<1> DEFINE s == NewOperation(i, Cancellable[i])
<1>1. RecordOK(s) /\ s.invocation = i
  BY NewRecord
<1>2. /\ mode = "serving" /\ o \notin issued /\ p # "written" /\ issued' = issued \cup {o}
      /\ Save([operations EXCEPT ![o] = s], Bind(k, o, i), p)
      /\ UNCHANGED <<taskVars, modeVars, effects>>
  BY DEF InvokeUnrecorded
<1> HIDE DEF s
<1>3. failures' \in 0 .. MaxFailures /\ failures' # 0
  BY <1>2, DispatchAssumption DEF Save, CountFailure, Inv, TypeOK
<1>4. Up /\ Up'
  BY <1>2 DEF Up, modeVars
<1>5. /\ Advance /\ operations'[o] = s
      /\ \A q \in Ops : q # o => operations'[q] = operations[q]
  BY <1>1, <1>2, <1>3, <1>4, NewAdvances DEF Save
<1>6. /\ cancelled' \subseteq Workers /\ toForce' \subseteq Ops \X Workers /\ mode' = "serving"
      /\ \A x \in toForce' : operations[x[1]] # None
  BY <1>2 DEF Inv, TypeOK, Tasks, taskVars, modeVars
<1> QED BY <1>2, <1>3, <1>5, <1>6, HandlerStep DEF taskVars, modeVars

\* The Operation is handed to a task, whose token is filed for it.
LEMMA SpawnStep ==
    ASSUME Inv, Advance, mode = "serving", NEW o \in Ops, NEW w \in Workers, Spawn(o, w),
           operations'[o] # None,
           \A q \in Ops : q # o => operations'[q] = operations[q],
           UNCHANGED <<modeVars, effects>>
    PROVE  Inv'
<1>1. /\ worker[w] = Idle /\ cancelled' = cancelled \ {w} /\ lease' = lease
      /\ worker' = [worker EXCEPT ![w] = [phase |-> "queue", op |-> o, outcome |-> "none"]]
      /\ tokens' = [tokens EXCEPT ![o] = w]
  BY DEF Spawn
<1>2. /\ worker' \in Rows
      /\ worker'[w] = [phase |-> "queue", op |-> o, outcome |-> "none"]
      /\ \A v \in Workers : v # w => worker'[v] = worker[v]
  BY <1>1 DEF Inv, TypeOK, Rows, Phases
<1>3. /\ tokens' \in [Ops -> Workers \cup {None}] /\ tokens'[o] = w /\ w # None
      /\ \A q \in Ops : q # o => tokens'[q] = tokens[q]
  BY <1>1, NoneAssumption DEF Inv, TypeOK
<1>4. /\ toForce' = toForce /\ stops' = stops /\ mode' = "serving" /\ former' = former
      /\ toForce \subseteq Ops \X Workers /\ \A x \in toForce : operations[x[1]] # None
      /\ lease[w] = NoLease
  BY <1>1 DEF modeVars, Inv, TypeOK, Tasks, TaskOK, Idle
<1>5. TypeOK'
  BY <1>1, <1>2, <1>3, <1>4 DEF Inv, TypeOK, Advance
<1>6. Records' /\ LeftOver'
  BY <1>4, AdvanceRecords, LeftOverKept
<1>7. Tasks'
  <2>1. TaskOK(w)'
    BY <1>1, <1>2, <1>4 DEF TaskOK, Advance
  <2>2. \A v \in Workers : TaskOK(v)'
    BY <1>1, <1>2, <2>1, TaskKept
  <2>3. \A q \in Ops : tokens'[q] # None => tokens[q] # None \/ operations'[q] # None
    BY <1>3
  <2> QED BY <1>4, <2>2, <2>3, TasksFromParts
<1>8. Apart'
  BY <1>1, ApartKept
<1>9. \A q \in Ops : RecordedFor(q)' \subseteq RecordedFor(q)
  BY <1>2 DEF RecordedFor
<1>10. Started' /\ OnlyOne'
  BY <1>4, <1>9, StartedFromParts, OnlyOneKept DEF OnlyOne
<1>11. Sealed'
  <2>1. \A q \in Ops : \/ tokens'[q] = tokens[q] /\ operations[q] # None
                       \/ tokens'[q] # None \/ operations'[q] = None
    BY <1>3
  <2> QED BY <1>4, <2>1, SealedFromParts
<1>12. GivenUp'
  <2> SUFFICES ASSUME NEW v \in Workers, v # w, worker[v].phase # "free"
               PROVE  tokens'[worker[v].op] = tokens[worker[v].op] \/ tokens'[worker[v].op] # None
    BY <1>2, <1>3, <1>4, GivenUpFromParts
  <2>1. worker[v].op \in Ops
    BY AtWork
  <2> QED BY <1>3, <2>1
<1> QED BY <1>5, <1>6, <1>7, <1>8, <1>10, <1>11, <1>12 DEF Inv

LEMMA InvokeFreshKeeps ==
    ASSUME Inv, NEW i \in Invocations, NEW k \in Keys \cup {NoKey}, NEW o \in Ops, NEW w \in Workers,
           NEW p \in WriteResults, InvokeFresh(i, k, o, w, p)
    PROVE  Inv'
<1> DEFINE created == NewOperation(i, Cancellable[i])
           s == Queued(created)
           x == IF p = "lost" THEN created ELSE s
<1>1. RecordOK(created) /\ created.invocation = i
  BY NewRecord
<1>2. RecordOK(s) /\ s.invocation = i
  BY <1>1, QueuedEvolves DEF Evolves
<1>3. /\ mode = "serving" /\ o \notin issued /\ issued' = issued \cup {o}
      /\ operations' = [operations EXCEPT ![o] = s] /\ idempotency' = Bind(k, o, i)
      /\ disk' = [operations |-> [operations EXCEPT ![o] = x], idempotency |-> Bind(k, o, i)]
      /\ CountFailure(p) /\ Spawn(o, w) /\ UNCHANGED <<modeVars, effects>>
  BY DEF InvokeFresh
<1>4. /\ RecordOK(x) /\ x.invocation = i /\ s # None /\ x # None
      /\ p = "written" => x = s
  BY <1>1, <1>2, NoneAssumption DEF RecordOK
<1> HIDE DEF created, s, x
<1>5. failures' \in 0 .. MaxFailures /\ (failures' = 0 => failures = 0 /\ p = "written")
  BY <1>3, DispatchAssumption DEF CountFailure, Inv, TypeOK
<1>6. disk' # disk
  <2>1. disk'.operations[o] = x
    BY <1>3 DEF Inv, TypeOK, OperationTables
  <2>2. disk.operations[o] = None
    BY <1>3, HeldRecords
  <2> QED BY <1>4, <2>1, <2>2
<1>7. Up /\ Up'
  BY <1>3 DEF Up, modeVars
<1>8. /\ Advance /\ operations'[o] = s
      /\ \A q \in Ops : q # o => operations'[q] = operations[q]
  BY <1>2, <1>3, <1>4, <1>5, <1>6, <1>7, NewAdvances
<1> QED BY <1>3, <1>4, <1>8, SpawnStep

LEMMA InvokeReplayKeeps ==
    ASSUME Inv, NEW k \in Keys, NEW w \in Workers, NEW p \in WriteResults, InvokeReplay(k, w, p)
    PROVE  Inv'
<1>1. PICK o \in Ops : o = idempotency[k].operation_id /\ operations[o] # None
  BY DEF InvokeReplay, Inv, TypeOK, Records, KeysKnown, KeyTables, IdempotencyRecords
<1>2. /\ mode = "serving" /\ SaveRecord(o, Queued(operations[o]), p) /\ Spawn(o, w)
      /\ UNCHANGED <<modeVars, effects>>
  BY <1>1 DEF InvokeReplay
<1>3. Up /\ Up'
  BY <1>2 DEF Up, modeVars
<1>4. Evolves(operations[o], Queued(operations[o]))
  BY <1>1, QueuedEvolves, HeldRecords
<1>5. /\ Advance /\ operations'[o] = Queued(operations[o])
      /\ \A q \in Ops : q # o => operations'[q] = operations[q]
  BY <1>1, <1>2, <1>3, <1>4, SaveRecordAdvances
<1>6. operations'[o] # None
  BY <1>1, <1>5 DEF Advance
<1> QED BY <1>2, <1>5, <1>6, SpawnStep

-----------------------------------------------------------------------------
(* Cancel, shutdown, stop and restart *)

\* A cancel on record, from a client or from the shutdown.
LEMMA CancelStep ==
    ASSUME Inv, Up, Up', NEW o \in Ops, operations[o] # None, NEW p \in WriteResults,
           SaveRecord(o, CancelIntent(operations[o]), p), cancelled' \subseteq Workers,
           toForce' \subseteq toForce, UNCHANGED <<worker, lease, tokens, mode, stops, former, effects>>
    PROVE  Inv'
<1>1. Evolves(operations[o], CancelIntent(operations[o]))
  BY CancelEvolves, HeldRecords
<1>2. Advance /\ \A q \in Ops : q # o => operations'[q] = operations[q]
  BY <1>1, SaveRecordAdvances
<1>3. UNCHANGED issued
  BY DEF SaveRecord
<1>4. /\ mode' \in {"serving", "draining", "forcing", "closing", "down"}
      /\ toForce' \subseteq Ops \X Workers /\ \A x \in toForce' : operations[x[1]] # None
  BY DEF Inv, TypeOK, Tasks
<1> QED BY <1>2, <1>3, <1>4, HandlerStep

LEMMA CancelKeeps ==
    ASSUME Inv, NEW o \in Ops, NEW p \in WriteResults, Cancel(o, p)
    PROVE  Inv'
<1>1. /\ mode = "serving" /\ operations[o] # None /\ SaveRecord(o, CancelIntent(operations[o]), p)
      /\ UNCHANGED <<worker, lease, tokens, modeVars, effects>>
      /\ cancelled' = cancelled \/ (tokens[o] # None /\ cancelled' = cancelled \cup {tokens[o]})
  BY DEF Cancel
<1>2. cancelled' \subseteq Workers
  BY <1>1 DEF Inv, TypeOK
<1>3. Up /\ Up'
  BY <1>1 DEF Up, modeVars
<1> QED BY <1>1, <1>2, <1>3, CancelStep DEF modeVars

LEMMA ForceCancelKeeps ==
    ASSUME Inv, NEW o \in Ops, NEW w \in Workers, NEW p \in WriteResults, ForceCancel(o, w, p)
    PROVE  Inv'
<1>1. Up /\ Up' /\ cancelled' \subseteq Workers /\ toForce' \subseteq toForce
  BY DEF ForceCancel, Up, Inv, TypeOK
<1>2. operations[o] # None
  BY DEF ForceCancel, Inv, Tasks
<1> QED BY <1>1, <1>2, CancelStep DEF ForceCancel

LEMMA ShutdownTimersKeep ==
    ASSUME Inv, BeginShutdown \/ DrainElapsed
    PROVE  Inv'
<1>1. /\ Up /\ Up' /\ mode' \in {"draining", "forcing"} /\ stops < MaxStops
      /\ UNCHANGED <<storeVars, taskVars, stops, former, effects>>
  BY DEF BeginShutdown, DrainElapsed, Up, Inv, Tasks
<1>2. Advance
  BY <1>1, StoreUntouched
<1>3. /\ toForce' \subseteq Ops \X Workers /\ \A x \in toForce' : operations[x[1]] # None
  <2>1. CASE BeginShutdown
    BY <2>1 DEF BeginShutdown, Inv, TypeOK, Tasks
  <2>2. CASE DrainElapsed
    <3> SUFFICES ASSUME NEW x \in toForce'
                 PROVE  x \in Ops \X Workers /\ operations[x[1]] # None
      OBVIOUS
    <3>1. PICK o \in Filed : x = <<o, tokens[o]>>
      BY <2>2 DEF DrainElapsed
    <3> QED BY <3>1 DEF Filed, Inv, TypeOK, Tasks
  <2> QED BY <2>1, <2>2
<1>4. cancelled' \subseteq Workers /\ UNCHANGED <<worker, lease, tokens, issued, operations>>
  BY <1>1 DEF taskVars, storeVars, Inv, TypeOK
<1> QED BY <1>1, <1>2, <1>3, <1>4, HandlerStep

\* Without a failed write everything open had its token filed, so nothing is left open.
LEMMA ForcedElapsedKeeps ==
    ASSUME Inv, NEW p \in WriteResults, ForcedElapsed(p)
    PROVE  Inv'
<1> DEFINE ops == [o \in Ops |-> IF o \in Filed THEN ForcedShutdown(operations[o]) ELSE operations[o]]
<1>1. /\ mode = "forcing" /\ mode' = "closing" /\ toForce = {} /\ toForce' = {}
      /\ UNCHANGED <<stops, former>> /\ stops < MaxStops
      /\ Save(ops, idempotency, p) /\ UNCHANGED <<issued, taskVars, effects>>
  BY DEF ForcedElapsed, Inv, Tasks
<1>2. ASSUME NEW o \in Filed
      PROVE  /\ o \in Ops /\ operations[o] # None /\ ForcedShutdown(operations[o]) \in Snapshots
             /\ Evolves(operations[o], ForcedShutdown(operations[o]))
             /\ Terminal(ForcedShutdown(operations[o]))
  <2>1. o \in Ops /\ operations[o] # None
    BY DEF Filed, Inv, Tasks
  <2>2. RecordOK(operations[o])
    BY <2>1, HeldRecords
  <2> QED BY <2>1, <2>2, ForcedShutdownEvolves DEF Evolves, RecordOK
<1>3. ops \in OperationTables
  BY <1>2 DEF OperationTables, Inv, TypeOK
<1>4. \A o \in Ops : operations[o] = None => ops[o] = None
  BY <1>2
<1>5. \A o \in Ops : operations[o] # None => Evolves(operations[o], ops[o])
  BY <1>2, EvolvesRefl, HeldRecords
<1>6. \A o \in Filed : Terminal(ops[o])
  BY <1>2
<1>7. \A o \in Ops : o \notin Filed => ops[o] = operations[o]
  OBVIOUS
<1> HIDE DEF ops
<1>8. Up /\ Up'
  BY <1>1 DEF Up
<1>9. Advance /\ operations' = ops
  BY <1>1, <1>3, <1>4, <1>5, <1>8, SaveAdvances DEF Save
<1>10. ASSUME failures' = 0
       PROVE  \A o \in Ops : operations'[o] # None => Terminal(operations'[o])
  <2>1. failures = 0
    BY <1>9, <1>10 DEF Advance
  <2>2. \A o \in Ops : operations[o] # None /\ ~Terminal(operations[o]) => o \in Filed
    BY <1>8, <2>1 DEF Inv, Sealed, Filed
  <2> QED BY <1>6, <1>7, <1>9, <2>2
<1>12. \A o \in Ops : tokens[o] # None => Terminal(operations'[o])
  BY <1>6, <1>9 DEF Filed
<1>11. /\ UNCHANGED <<worker, lease, tokens, effects>> /\ cancelled' \subseteq Workers
       /\ toForce' \subseteq Ops \X Workers
  BY <1>1 DEF taskVars, Inv, TypeOK
<1> QED BY <1>1, <1>4, <1>9, <1>10, <1>11, <1>12, HandlerStep

\* The process of a controller that is over holds nothing.
LEMMA GoneIs ==
    /\ Gone \in [operations : OperationTables, idempotency : KeyTables, worker : Rows]
    /\ \A o \in Ops : Gone.operations[o] = None
    /\ \A k \in Keys : Gone.idempotency[k] = None
    /\ \A w \in Workers : Gone.worker[w] = Idle
    /\ Idle.phase = "free"
  BY DEF Gone, NoOperations, NoBindings, OperationTables, KeyTables, Rows, Idle, Phases

\* The controller no longer serves: what is left is the file, and what is still on the
\* blocking threads of a controller that has exited.
LEMMA VanishKeeps ==
    ASSUME Inv, Vanish, stops < MaxStops, LeftOver', OnlyOne',
           former' \in [Controllers -> [operations : OperationTables, idempotency : KeyTables, worker : Rows]],
           \A c \in Controllers : KeysKnown(former'[c].operations, former'[c].idempotency),
           \A c \in Controllers, o \in Ops :
              former'[c].operations[o] \in {None, operations[o], former[c].operations[o]},
           \A o \in Ops : LeftFor(o)' # {} => LeftFor(o) # {} \/ RecordedFor(o) # {}
    PROVE  Inv'
<1>1. /\ mode' = "down" /\ stops' = stops + 1 /\ operations' = NoOperations /\ idempotency' = NoBindings
      /\ worker' = [w \in Workers |-> Idle] /\ lease' = [w \in Workers |-> NoLease]
      /\ tokens' = [o \in Ops |-> None] /\ cancelled' = {} /\ toForce' = {}
      /\ UNCHANGED <<disk, issued, effects, failures>>
  BY DEF Vanish
<1>2. /\ \A o \in Ops : operations'[o] = None /\ tokens'[o] = None
      /\ \A k \in Keys : idempotency'[k] = None
      /\ \A w \in Workers : worker'[w] = Idle /\ lease'[w] = NoLease /\ worker'[w].phase = "free"
  BY <1>1 DEF NoOperations, NoBindings, Idle
<1>3. Idle \in [phase : Phases, op : Ops \cup {None}, outcome : Outcomes \cup {"none"}]
  BY DEF Idle, Phases
<1>4. TypeOK'
  <2>1. stops' \in 0 .. MaxStops
    BY <1>1, DispatchAssumption DEF Inv, TypeOK
  <2> QED BY <1>1, <1>3, <2>1 DEF Inv, TypeOK, Rows, NoOperations, NoBindings, OperationTables, KeyTables
<1>5. \A o \in Ops : Carried(o)
  <2> SUFFICES ASSUME NEW o \in Ops, NEW s \in Copies(o)' PROVE Descends(o, s)
    BY DEF Carried
  <2>1. s = None \/ s \in Copies(o)
    BY <1>1, <1>2 DEF Copies
  <2> QED BY <2>1, EvolvesRefl DEF Inv, Records, Descends
<1>6. Records'
  <2>1. KeysKnown(operations', idempotency') /\ KeysKnown(disk'.operations, disk'.idempotency)
    BY <1>1, <1>2 DEF KeysKnown, Inv, Records
  <2> QED BY <1>1, <1>5, <2>1, RecordsFromCopies
<1>7. Tasks' /\ GivenUp' /\ Apart'
  BY <1>1, <1>2 DEF Tasks, TaskOK, GivenUp, Apart
<1>8. Started'
  <2>1. \A o \in Ops : RecordedFor(o)' = {}
    BY <1>2 DEF RecordedFor
  <2>2. \A o \in Ops : Active(o)' => Active(o)
    BY <1>1, <2>1 DEF Active
  <2> QED BY <1>5, <2>2, StartedFromCopies
<1>9. Sealed'
  BY <1>1 DEF Sealed, Up
<1> QED BY <1>4, <1>6, <1>7, <1>8, <1>9 DEF Inv

LEMMA CrashKeeps ==
    ASSUME Inv, Crash
    PROVE  Inv'
<1>1. Vanish /\ former' = former /\ stops < MaxStops
  BY DEF Crash
<1>2. /\ \A o \in Ops : operations'[o] = None
      /\ \A w \in Workers : worker'[w].phase = "free"
      /\ UNCHANGED <<disk, issued, effects, failures>>
  BY <1>1 DEF Vanish, NoOperations, Idle
<1>3. \A c \in Controllers, w \in Workers :
         /\ Row(c, w)' = Row(c, w) /\ LeftRecord(c, w)' = LeftRecord(c, w)
         /\ LeftRequest(c, w)' = LeftRequest(c, w)
  BY <1>1 DEF Row, LeftRecord, LeftRequest
<1>4. LeftOver'
  BY <1>1, <1>2, <1>3 DEF Inv, LeftOver, Admit, Gate!Limit
<1>5. \A o \in Ops : LeftFor(o)' = LeftFor(o) /\ RecordedFor(o)' = {}
  BY <1>1, <1>2 DEF LeftFor, Row, RecordedFor
<1>6. ASSUME NEW o \in Ops PROVE OnlyOneFor(o)'
  <2>1. \A s \in Copies(o)' : s = None \/ s \in Copies(o)
    BY <1>1, <1>2 DEF Copies
  <2>2. Carried(o)
    BY <2>1, EvolvesRefl DEF Inv, Records, Descends, Carried
  <2> QED BY <1>2, <1>5, <2>2, OnlyOneFromCopies
<1> QED BY <1>1, <1>4, <1>5, <1>6, VanishKeeps DEF Inv, TypeOK, Records, OnlyOne

\* Everything is sealed when the loop is left, so what goes on is sealed too; it was let
\* in by the leases that are dropped now.
LEMMA ExitKeeps ==
    ASSUME Inv, Exit
    PROVE  Inv'
<1>1. PICK S \in SUBSET Commands : Leave(Launched \cup S)
  BY DEF Exit
<1> DEFINE kept == Launched \cup S
           rows == [w \in Workers |-> IF w \in kept THEN worker[w] ELSE Idle]
           rest == [operations |-> operations, idempotency |-> idempotency, worker |-> rows]
<1>2. /\ Vanish /\ Up /\ stops < MaxStops /\ mode # "down"
      /\ (\A o \in Ops : tokens[o] = None) \/ mode = "closing"
  BY DEF Exit, ReadyToExit, Inv, Tasks, Filed, Up
<1>3. PICK c0 \in Controllers : c0 = stops + 1
  BY <1>2, DispatchAssumption DEF Controllers, Inv, TypeOK
<1>4. /\ former \in [Controllers -> [operations : OperationTables, idempotency : KeyTables, worker : Rows]]
      /\ operations \in OperationTables /\ idempotency \in KeyTables /\ worker \in Rows
  BY DEF Inv, TypeOK
<1>5. \A w \in kept : w \in Workers /\ worker[w].phase \in {"body", "recorded", "process", "ended"}
  BY <1>1 DEF Launched, Commands, At
<1>6. /\ rows \in Rows
      /\ \A w \in Workers : rows[w] = IF w \in kept THEN worker[w] ELSE Idle
  BY <1>4 DEF Rows, Idle, Phases
<1> HIDE DEF kept, rows
<1>7. /\ former'[c0] = Gone \/ former'[c0] = rest
      /\ \A c \in Controllers : c # c0 => former'[c] = former[c]
      /\ former' \in [Controllers -> [operations : OperationTables, idempotency : KeyTables, worker : Rows]]
  <2>1. former' = [former EXCEPT ![c0] = Remains(operations, idempotency, rows)]
    BY <1>1, <1>3 DEF Leave, kept, rows
  <2>2. Remains(operations, idempotency, rows) \in {Gone, rest}
    BY DEF Remains
  <2>3. rest \in [operations : OperationTables, idempotency : KeyTables, worker : Rows]
    BY <1>4, <1>6
  <2> QED BY <1>3, <1>4, <2>1, <2>2, <2>3, GoneIs
<1>8. /\ rest.operations = operations /\ rest.idempotency = idempotency /\ rest.worker = rows
  OBVIOUS
<1> HIDE DEF rest
<1>9. \A c \in Controllers, o \in Ops :
         /\ former'[c].operations[o] \in {None, operations[o], former[c].operations[o]}
         /\ c # c0 => former'[c].operations[o] = former[c].operations[o]
         /\ c = c0 => former'[c].operations[o] \in {None, operations[o]}
  BY <1>7, <1>8, GoneIs
<1>10. \A c \in Controllers : KeysKnown(former'[c].operations, former'[c].idempotency)
  <2>1. KeysKnown(Gone.operations, Gone.idempotency)
    BY GoneIs DEF KeysKnown
  <2> QED BY <1>7, <1>8, <2>1 DEF Inv, Records
<1>11. /\ \A c \in Controllers, w \in Workers : c # c0 => Row(c, w)' = Row(c, w)
       /\ \A w \in Workers : \/ Row(c0, w)' = Idle
                             \/ /\ Row(c0, w)' = worker[w] /\ w \in kept
                                /\ former'[c0].operations = operations
  <2>1. \A c \in Controllers, w \in Workers : Row(c, w)' = former'[c].worker[w]
    BY DEF Row
  <2> QED BY <1>6, <1>7, <1>8, <2>1, GoneIs DEF Row
<1>12. ASSUME NEW w \in kept
       PROVE  /\ w \in Workers /\ worker[w].phase # "free" /\ worker[w].op \in Ops
              /\ operations[worker[w].op] # None /\ Terminal(operations[worker[w].op])
              /\ lease[w] = Request(w) /\ lease[w] # NoLease
              /\ Request(w) = GateRequest[operations[worker[w].op].invocation]
  <2>1. w \in Workers /\ worker[w].phase \in {"body", "recorded", "process", "ended"}
    BY <1>5
  <2>2. /\ worker[w].op \in Ops /\ operations[worker[w].op] # None /\ lease[w] = Request(w)
        /\ Request(w) \in Requests
    BY <2>1, AtWork DEF Record
  <2>3. Terminal(operations[worker[w].op])
    BY <1>2, <2>1, <2>2 DEF Inv, GivenUp, Record
  <2>4. lease[w] # NoLease
    BY <2>2, DispatchAssumption
  <2> QED BY <2>1, <2>2, <2>3, <2>4 DEF Request, Record
<1>13. LeftOver'
  <2>1. ASSUME NEW w \in Workers, Row(c0, w)'.phase # "free"
        PROVE  /\ Row(c0, w)' = worker[w] /\ w \in kept /\ LeftRecord(c0, w)' = operations[worker[w].op]
               /\ LeftRequest(c0, w)' = lease[w]
    <3>1. Row(c0, w)' = worker[w] /\ w \in kept /\ former'[c0].operations = operations
      BY <1>11, <2>1, GoneIs
    <3>2. LeftRecord(c0, w)' = operations[worker[w].op]
      BY <3>1 DEF LeftRecord
    <3> QED BY <1>12, <3>1, <3>2 DEF LeftRequest
  <2>2. ASSUME NEW w \in Workers
        PROVE  /\ Row(c0, w)'.phase = "free" => Row(c0, w)' = Idle
               /\ Row(c0, w)'.phase # "free" =>
                     Row(c0, w)'.op \in Ops /\ LeftRecord(c0, w)' # None /\ Terminal(LeftRecord(c0, w)')
    BY <1>11, <1>12, <2>1
  <2>3. ASSUME NEW v \in Workers, NEW w \in Workers, v # w, Row(c0, v)'.phase # "free", Row(c0, w)'.phase # "free"
        PROVE  Admit(LeftRequest(c0, v)', LeftRequest(c0, w)')
    BY <1>12, <2>1, <2>3 DEF Inv, Apart
  <2>4. ASSUME NEW c \in Controllers, NEW o \in Ops, former'[c].operations[o] # None, failures' = 0
        PROVE  Terminal(former'[c].operations[o])
    <3>1. failures = 0
      BY <1>2, <2>4 DEF Vanish
    <3>2. CASE c # c0
      BY <1>9, <2>4, <3>1, <3>2 DEF Inv, LeftOver
    <3>3. CASE c = c0
      BY <1>2, <1>9, <2>4, <3>1, <3>3 DEF Inv, Sealed
    <3> QED BY <3>2, <3>3
  <2>5. \A o \in Ops : operations'[o] = None
    BY <1>2 DEF Vanish, NoOperations
  <2>6. ASSUME NEW c \in Controllers, c # c0, NEW w \in Workers
        PROVE  /\ Row(c, w)' = Row(c, w) /\ LeftRecord(c, w)' = LeftRecord(c, w)
               /\ LeftRequest(c, w)' = LeftRequest(c, w)
    <3>1. Row(c, w)' = Row(c, w) /\ former'[c] = former[c]
      BY <1>7, <1>11, <2>6
    <3>2. LeftRecord(c, w)' = LeftRecord(c, w)
      BY <3>1 DEF LeftRecord
    <3> QED BY <3>1, <3>2 DEF LeftRequest
  <2>7. ASSUME NEW c \in Controllers
        PROVE  /\ \A w \in Workers :
                     /\ Row(c, w)'.phase = "free" => Row(c, w)' = Idle
                     /\ Row(c, w)'.phase # "free" =>
                           Row(c, w)'.op \in Ops /\ LeftRecord(c, w)' # None /\ Terminal(LeftRecord(c, w)')
               /\ \A v, w \in Workers : v # w /\ Row(c, v)'.phase # "free" /\ Row(c, w)'.phase # "free" =>
                     Admit(LeftRequest(c, v)', LeftRequest(c, w)')
    <3>1. CASE c = c0
      BY <2>2, <2>3, <3>1
    <3>2. CASE c # c0
      BY <2>6, <3>2 DEF Inv, LeftOver
    <3> QED BY <3>1, <3>2
  <2> QED BY <2>4, <2>5, <2>7 DEF LeftOver, Admit, Gate!Limit
<1>14. ASSUME NEW o \in Ops
       PROVE  /\ RecordedFor(o)' = {}
              /\ \A x \in LeftFor(o)' : x \in LeftFor(o) \/ (x[1] = c0 /\ x[2] \in RecordedFor(o) /\ x = <<c0, x[2]>>)
  <2>1. RecordedFor(o)' = {}
    BY <1>2 DEF RecordedFor, Vanish, Idle
  <2>2. ASSUME NEW x \in LeftFor(o)', x \notin LeftFor(o)
        PROVE  x[1] = c0 /\ x[2] \in RecordedFor(o) /\ x = <<c0, x[2]>>
    <3>1. /\ x \in Controllers \X Workers /\ x[1] \in Controllers /\ x[2] \in Workers
          /\ Row(x[1], x[2])'.phase = "recorded" /\ Row(x[1], x[2])'.op = o
      BY <2>2 DEF LeftFor
    <3>2. x[1] = c0
      BY <1>11, <2>2, <3>1 DEF LeftFor
    <3>3. Row(c0, x[2])' = worker[x[2]]
      BY <1>11, <3>1, <3>2, GoneIs
    <3> QED BY <3>1, <3>2, <3>3 DEF RecordedFor
  <2> QED BY <2>1, <2>2
<1>15. ASSUME NEW o \in Ops
       PROVE  OnlyOneFor(o)' /\ (LeftFor(o)' # {} => LeftFor(o) # {} \/ RecordedFor(o) # {})
  <2>1. \A s \in Copies(o)' : s = None \/ s \in Copies(o)
    BY <1>2, <1>9 DEF Copies, Vanish, NoOperations
  <2>2. (\E s \in Copies(o)' : NotCancelled(s)) => \E s \in Copies(o) : NotCancelled(s)
    BY <2>1 DEF NotCancelled
  <2>3. effects' = effects
    BY <1>2 DEF Vanish
  <2>4. OnlyOneFor(o)
    BY DEF Inv, OnlyOne
  <2>5. LeftFor(o)' # {} => LeftFor(o) # {} \/ RecordedFor(o) # {}
    BY <1>14
  <2>6. ASSUME \E s \in Copies(o)' : NotCancelled(s)
        PROVE  /\ effects'[o] <= 1 /\ (effects'[o] = 1 => RecordedFor(o)' = {} /\ LeftFor(o)' = {})
               /\ \A x, y \in LeftFor(o)' : x = y
    BY <1>14, <2>2, <2>3, <2>4, <2>5, <2>6 DEF OnlyOneFor
  <2> QED BY <1>14, <2>5, <2>6 DEF OnlyOneFor, NotCancelled
<1> QED BY <1>2, <1>7, <1>9, <1>10, <1>13, <1>15, VanishKeeps DEF OnlyOne

\* The restart seals every record of the file and starts with no task.
LEMMA RestartKeeps ==
    ASSUME Inv, Restart
    PROVE  Inv'
<1> DEFINE rec == RecoveredOperations
<1>1. /\ mode = "down" /\ mode' = "serving" /\ operations' = rec /\ idempotency' = disk.idempotency
      /\ disk' = [disk EXCEPT !.operations = rec]
      /\ UNCHANGED <<issued, failures, worker, lease, tokens, cancelled, toForce, stops, former, effects>>
  BY DEF Restart, taskVars
<1>2. disk \in [operations : OperationTables, idempotency : KeyTables]
  BY DEF Inv, TypeOK
<1>3. \A o \in Ops : /\ disk.operations[o] = None => rec[o] = None
                     /\ disk.operations[o] # None => /\ rec[o] # None /\ Terminal(rec[o])
                                                     /\ Evolves(disk.operations[o], rec[o])
  <2> SUFFICES ASSUME NEW o \in Ops, disk.operations[o] # None
               PROVE  /\ rec[o] # None /\ Terminal(rec[o]) /\ Evolves(disk.operations[o], rec[o])
    BY DEF RecoveredOperations
  <2>1. rec[o] = Recovered(disk.operations[o])
    BY DEF RecoveredOperations
  <2>2. Evolves(disk.operations[o], rec[o]) /\ Terminal(rec[o])
    BY <2>1, RecoveredEvolves, HeldRecords
  <2> QED BY <2>2, NoneAssumption DEF Evolves, RecordOK
<1>4. rec \in OperationTables
  <2>1. rec = [o \in Ops |-> rec[o]]
    BY DEF RecoveredOperations
  <2> QED BY <1>3, <2>1 DEF OperationTables, Evolves, RecordOK
<1> HIDE DEF rec
<1>5. disk'.operations = rec /\ disk'.idempotency = disk.idempotency
      /\ disk' \in [operations : OperationTables, idempotency : KeyTables]
  BY <1>1, <1>2, <1>4
<1>6. /\ \A w \in Workers : worker[w] = Idle /\ worker[w].phase = "free" /\ lease[w] = NoLease
      /\ \A o \in Ops : tokens[o] = None
      /\ \A x \in toForce : FALSE
  BY <1>1 DEF Inv, Tasks, TaskOK, Up
<1>7. TypeOK'
  BY <1>1, <1>2, <1>4, <1>5 DEF Inv, TypeOK
<1>8. \A o \in Ops : Carried(o)
  <2> SUFFICES ASSUME NEW o \in Ops, NEW s \in Copies(o)' PROVE Descends(o, s)
    BY DEF Carried
  <2>1. s = rec[o] \/ s \in Copies(o)
    BY <1>1, <1>5 DEF Copies
  <2>2. disk.operations[o] \in Copies(o)
    BY DEF Copies
  <2>3. CASE s = rec[o]
    BY <1>3, <2>2, <2>3 DEF Descends
  <2>4. CASE s \in Copies(o)
    BY <2>4, EvolvesRefl DEF Inv, Records, Descends
  <2> QED BY <2>1, <2>3, <2>4
<1>9. Records'
  <2>1. \A k \in Keys : disk.idempotency[k] # None => disk.idempotency[k].operation_id \in Ops
    BY <1>2 DEF KeyTables, IdempotencyRecords
  <2>2. KeysKnown(rec, disk.idempotency)
    BY <1>3, <2>1 DEF Inv, Records, KeysKnown
  <2>3. \A c \in Controllers : KeysKnown(former'[c].operations, former'[c].idempotency)
    BY <1>1 DEF Inv, Records
  <2> QED BY <1>1, <1>5, <1>8, <2>2, <2>3, RecordsFromCopies
<1>10. Tasks' /\ GivenUp' /\ Apart'
  BY <1>1, <1>6 DEF Tasks, TaskOK, GivenUp, Apart
<1>11. LeftOver'
  <2>1. \A c \in Controllers, w \in Workers :
           /\ Row(c, w)' = Row(c, w) /\ LeftRecord(c, w)' = LeftRecord(c, w)
           /\ LeftRequest(c, w)' = LeftRequest(c, w)
    BY <1>1 DEF Row, LeftRecord, LeftRequest
  <2>2. \A o \in Ops : operations'[o] # None => Terminal(operations'[o])
    BY <1>1, <1>3
  <2> QED BY <1>1, <2>1, <2>2 DEF Inv, LeftOver, Admit, Gate!Limit
<1>12. \A o \in Ops : RecordedFor(o)' = {} /\ LeftFor(o)' = LeftFor(o)
  BY <1>1, <1>6 DEF RecordedFor, LeftFor, Row
<1>13. Started'
  <2>1. \A o \in Ops : Active(o)' => Active(o)
    BY <1>1, <1>12 DEF Active
  <2> QED BY <1>8, <2>1, StartedFromCopies
<1>14. OnlyOne'
  BY <1>1, <1>8, <1>12, OnlyOneFromCopies DEF OnlyOne
<1>15. Sealed'
  BY <1>1, <1>3, <1>5 DEF Sealed, FileFollows
<1> QED BY <1>7, <1>9, <1>10, <1>11, <1>13, <1>14, <1>15 DEF Inv

-----------------------------------------------------------------------------
(* What a controller that has exited still does *)

\* The controller that serves, if there is one, sees nothing but its file overwritten.
LEMMA LeftBehind ==
    ASSUME Inv, UNCHANGED <<operations, idempotency, issued, taskVars, mode, toForce, stops>>,
           former' \in [Controllers -> [operations : OperationTables, idempotency : KeyTables, worker : Rows]],
           disk' \in [operations : OperationTables, idempotency : KeyTables],
           effects' \in [Ops -> Nat], failures' \in 0 .. MaxFailures,
           KeysKnown(disk'.operations, disk'.idempotency),
           \A c \in Controllers : KeysKnown(former'[c].operations, former'[c].idempotency),
           \A o \in Ops : Carried(o) /\ (effects'[o] > 0 => Active(o)) /\ LeftFor(o)' \subseteq LeftFor(o),
           LeftOver', OnlyOne',
           failures' = 0 => failures = 0 /\ (Up => FileFollows(operations, disk'.operations))
    PROVE  Inv'
<1>1. UNCHANGED <<worker, lease, tokens, cancelled>>
  BY DEF taskVars
<1>2. TypeOK'
  BY <1>1 DEF Inv, TypeOK
<1>3. Records'
  <2>1. ASSUME NEW o \in Ops, Active(o) PROVE o \in issued
    <3>1. effects[o] \in Nat
      BY DEF Inv, TypeOK
    <3> QED BY <2>1, <3>1, FreshIsIdle DEF Active
  <2>2. KeysKnown(operations', idempotency')
    BY DEF Inv, Records
  <2> QED BY <2>1, <2>2, RecordsFromCopies
<1>4. Tasks'
  BY <1>1 DEF Inv, Tasks, TaskOK, Up, Request, Record
<1>5. GivenUp' /\ Apart'
  BY <1>1, ApartKept DEF Inv, GivenUp, Record
<1>6. Started'
  <2>1. \A o \in Ops : RecordedFor(o)' = RecordedFor(o)
    BY <1>1 DEF RecordedFor
  <2>2. \A o \in Ops : Active(o)' => Active(o)
    BY <2>1 DEF Active
  <2> QED BY <2>2, StartedFromCopies
<1>7. Sealed'
  BY <1>1 DEF Inv, Sealed, Up
<1> QED BY <1>2, <1>3, <1>4, <1>5, <1>6, <1>7 DEF Inv

\* A step that changes the phase of one row.
LEMMA LeftMovesDoes ==
    ASSUME Inv, NEW c \in Controllers, NEW w \in Workers, NEW ph \in Phases \ {"free", "recorded"},
           Row(c, w).phase # "free", LeftMoves(c, w, ph)
    PROVE  /\ former' \in [Controllers -> [operations : OperationTables, idempotency : KeyTables, worker : Rows]]
           /\ \A d \in Controllers : /\ former'[d].operations = former[d].operations
                                     /\ former'[d].idempotency = former[d].idempotency
           /\ \A d \in Controllers, v \in Workers : <<d, v>> # <<c, w>> => Row(d, v)' = Row(d, v)
           /\ Row(c, w)'.phase = ph /\ Row(c, w)'.op = Row(c, w).op
<1> DEFINE T == [operations : OperationTables, idempotency : KeyTables, worker : Rows]
           row == [Row(c, w) EXCEPT !.phase = ph]
           rows == [former[c].worker EXCEPT ![w] = row]
           rest == [former[c] EXCEPT !.worker = rows]
<1>1. former \in [Controllers -> T]
  BY DEF Inv, TypeOK
<1>2. former' = [former EXCEPT ![c] = rest]
  BY DEF LeftMoves, Row
<1>3. /\ former[c].worker \in Rows
      /\ Row(c, w) \in [phase : Phases, op : Ops \cup {None}, outcome : Outcomes \cup {"none"}]
  BY <1>1 DEF Row, Rows
<1>4. /\ row \in [phase : Phases, op : Ops \cup {None}, outcome : Outcomes \cup {"none"}]
      /\ row.phase = ph /\ row.op = Row(c, w).op
  BY <1>3
<1> HIDE DEF row
<1>5. rows \in Rows /\ rows[w] = row /\ \A v \in Workers : v # w => rows[v] = former[c].worker[v]
  BY <1>3, <1>4 DEF Rows
<1> HIDE DEF rows
<1>6. /\ rest \in T /\ rest.operations = former[c].operations /\ rest.idempotency = former[c].idempotency
      /\ rest.worker = rows
  BY <1>1, <1>5
<1> HIDE DEF rest
<1>7. former'[c] = rest /\ \A d \in Controllers : d # c => former'[d] = former[d]
  BY <1>1, <1>2
<1>8. former' \in [Controllers -> T]
  BY <1>1, <1>2, <1>6
<1>9. \A d \in Controllers, v \in Workers : Row(d, v)' = former'[d].worker[v]
  BY DEF Row
<1> QED BY <1>4, <1>5, <1>6, <1>7, <1>8, <1>9 DEF Row

LEMMA LeftMoveKeeps ==
    ASSUME Inv, NEW c \in Controllers, NEW w \in Workers, LeftResumes(c, w) \/ LeftEnds(c, w)
    PROVE  Inv'
<1>0. PICK ph \in {"process", "ended"} : LeftMoves(c, w, ph)
  BY DEF LeftResumes, LeftEnds
<1>1. /\ UNCHANGED <<storeVars, taskVars, mode, toForce, stops>> /\ Row(c, w).phase # "free"
      /\ Row(c, w).phase \in {"recorded", "process"}
  BY DEF LeftResumes, LeftEnds
<1>2. UNCHANGED <<operations, idempotency, disk, issued, failures>>
  BY <1>1 DEF storeVars
<1>3. PICK o \in Ops : o = Row(c, w).op
  BY <1>1 DEF Inv, LeftOver
<1>4. /\ former' \in [Controllers -> [operations : OperationTables, idempotency : KeyTables, worker : Rows]]
      /\ \A d \in Controllers : /\ former'[d].operations = former[d].operations
                                /\ former'[d].idempotency = former[d].idempotency
      /\ \A d \in Controllers, v \in Workers : <<d, v>> # <<c, w>> => Row(d, v)' = Row(d, v)
      /\ Row(c, w)'.phase = ph /\ Row(c, w)'.op = o
  BY <1>0, <1>1, <1>3, LeftMovesDoes DEF Phases
<1>5. \A q \in Ops : Copies(q)' = Copies(q)
  BY <1>2, <1>4 DEF Copies
<1>6. \A q \in Ops : Carried(q)
  BY <1>5, EvolvesRefl DEF Inv, Records, Descends, Carried
<1>7. \A d \in Controllers, v \in Workers : /\ Row(d, v)'.op = Row(d, v).op
                                            /\ Row(d, v)'.phase = "free" <=> Row(d, v).phase = "free"
                                            /\ Row(d, v)'.phase = "recorded" =>
                                                  Row(d, v).phase = "recorded" /\ <<d, v>> # <<c, w>>
  BY <1>1, <1>3, <1>4
<1>8. LeftOver'
  <2>1. ASSUME NEW d \in Controllers, NEW v \in Workers
        PROVE  LeftRecord(d, v)' = LeftRecord(d, v) /\ LeftRequest(d, v)' = LeftRequest(d, v)
    <3>1. LeftRecord(d, v)' = LeftRecord(d, v)
      BY <1>4, <1>7 DEF LeftRecord
    <3> QED BY <3>1 DEF LeftRequest
  <2>2. \A d \in Controllers, v \in Workers : Row(d, v)'.phase = "free" => Row(d, v)' = Idle
    BY <1>1, <1>4, <1>7 DEF Inv, LeftOver
  <2>3. \A d \in Controllers :
           /\ \A v \in Workers : Row(d, v)'.phase # "free" =>
                Row(d, v)'.op \in Ops /\ LeftRecord(d, v)' # None /\ Terminal(LeftRecord(d, v)')
           /\ \A u, v \in Workers : u # v /\ Row(d, u)'.phase # "free" /\ Row(d, v)'.phase # "free" =>
                Admit(LeftRequest(d, u)', LeftRequest(d, v)')
    BY <1>7, <2>1 DEF Inv, LeftOver
  <2>4. \A d \in Controllers, q \in Ops : former'[d].operations[q] # None =>
           /\ operations'[q] # None => Terminal(operations'[q])
           /\ failures' = 0 => Terminal(former'[d].operations[q])
    BY <1>2, <1>4 DEF Inv, LeftOver
  <2> QED BY <2>2, <2>3, <2>4 DEF LeftOver, Admit, Gate!Limit
<1>9. \A q \in Ops : LeftFor(q)' \subseteq LeftFor(q) /\ <<c, w>> \notin LeftFor(q)'
  BY <1>7 DEF LeftFor
<1>10. \A q \in Ops : RecordedFor(q)' = RecordedFor(q)
  BY <1>1 DEF RecordedFor, taskVars
<1>11. /\ effects' \in [Ops -> Nat] /\ \A q \in Ops : q # o => effects'[q] = effects[q]
       /\ \/ effects'[o] = effects[o]
          \/ effects'[o] = effects[o] + 1 /\ <<c, w>> \in LeftFor(o)
  <2>1. CASE LeftEnds(c, w)
    BY <2>1 DEF LeftEnds, Inv, TypeOK
  <2>2. CASE LeftResumes(c, w)
    <3>1. <<c, w>> \in LeftFor(o)
      BY <1>3, <2>2 DEF LeftFor, LeftResumes
    <3>2. effects' = [effects EXCEPT ![o] = effects[o] + 1]
      BY <1>3, <2>2 DEF LeftResumes
    <3> QED BY <3>1, <3>2 DEF Inv, TypeOK
  <2> QED BY <2>1, <2>2
<1>12. OnlyOne'
  <2>1. \A q \in Ops : q # o => OnlyOneFor(q)'
    BY <1>6, <1>9, <1>10, <1>11, OnlyOneFromCopies
  <2>2. OnlyOneFor(o)'
    <3>1. CASE effects'[o] = effects[o]
      BY <1>6, <1>9, <1>10, <3>1, OnlyOneFromCopies
    <3>2. CASE effects'[o] = effects[o] + 1 /\ <<c, w>> \in LeftFor(o)
      <4>1. ASSUME \E s \in Copies(o) : NotCancelled(s)
            PROVE  /\ effects[o] <= 1 /\ effects[o] # 1 /\ RecordedFor(o) = {}
                   /\ \A x \in LeftFor(o) : x = <<c, w>>
        BY <3>2, <4>1 DEF Inv, OnlyOne, OnlyOneFor
      <4>2. ASSUME \E s \in Copies(o) : NotCancelled(s)
            PROVE  effects'[o] <= 1 /\ RecordedFor(o)' = {} /\ LeftFor(o)' = {}
        <5>1. effects[o] \in Nat
          BY DEF Inv, TypeOK
        <5> QED BY <1>9, <1>10, <3>2, <4>1, <4>2, <5>1
      <4> QED BY <1>5, <4>2 DEF OnlyOneFor, NotCancelled
    <3> QED BY <1>11, <3>1, <3>2
  <2> QED BY <2>1, <2>2 DEF OnlyOne
<1>13. \A q \in Ops : effects'[q] > 0 => Active(q)
  BY <1>11 DEF Active
<1>14. /\ KeysKnown(disk'.operations, disk'.idempotency)
       /\ \A d \in Controllers : KeysKnown(former'[d].operations, former'[d].idempotency)
       /\ disk' \in [operations : OperationTables, idempotency : KeyTables] /\ failures' \in 0 .. MaxFailures
  BY <1>2, <1>4 DEF Inv, Records, TypeOK
<1>15. failures' = 0 => failures = 0 /\ (Up => FileFollows(operations, disk'.operations))
  BY <1>2 DEF Inv, Sealed
<1> QED BY <1>1, <1>2, <1>4, <1>6, <1>8, <1>9, <1>11, <1>12, <1>13, <1>14, <1>15, LeftBehind

\* A row is over, the memory of its controller has evolved, and the file is as it was or
\* is overwritten with that memory.
LEMMA LeftReturnKeeps ==
    ASSUME Inv, NEW c \in Controllers, NEW w \in Workers, NEW ops \in OperationTables,
           Row(c, w).phase # "free", LeftReturns(c, w, ops),
           \A q \in Ops : former[c].operations[q] = None => ops[q] = None,
           \A q \in Ops : former[c].operations[q] # None => Evolves(former[c].operations[q], ops[q]),
           UNCHANGED <<operations, idempotency, issued, taskVars, mode, toForce, stops, effects>>,
           disk' = disk \/ disk' = [operations |-> ops, idempotency |-> former[c].idempotency],
           failures' \in 0 .. MaxFailures, failures' = 0 => failures = 0
    PROVE  Inv'
<1> DEFINE T == [operations : OperationTables, idempotency : KeyTables, worker : Rows]
           idem == former[c].idempotency
           rows == [former[c].worker EXCEPT ![w] = Idle]
           rest == [operations |-> ops, idempotency |-> idem, worker |-> rows]
<1>1. former \in [Controllers -> T] /\ former[c].worker \in Rows /\ idem \in KeyTables
  BY DEF Inv, TypeOK
<1>2. rows \in Rows /\ \A v \in Workers : rows[v] \in {Idle, former[c].worker[v]}
  BY <1>1 DEF Rows, Idle, Phases
<1>3. former' = [former EXCEPT ![c] = Remains(ops, idem, rows)]
  BY DEF LeftReturns
<1>4. /\ Remains(ops, idem, rows) = Gone \/ Remains(ops, idem, rows) = rest
      /\ rest \in T /\ rest.operations = ops /\ rest.idempotency = idem /\ rest.worker = rows
  BY <1>1, <1>2 DEF Remains
<1> HIDE DEF rows, rest
<1>5. /\ former' \in [Controllers -> T] /\ (former'[c] = Gone \/ former'[c] = rest)
      /\ \A d \in Controllers : d # c => former'[d] = former[d]
  BY <1>1, <1>3, <1>4, GoneIs
<1>6. \A q \in Ops : /\ former'[c].operations[q] \in {None, ops[q]}
                     /\ ops[q] # None => former[c].operations[q] # None /\ Evolves(former[c].operations[q], ops[q])
                     /\ former[c].operations[q] # None => ops[q] # None
  BY <1>4, <1>5, GoneIs, NoneAssumption DEF Evolves, RecordOK
<1>7. KeysKnown(ops, idem)
  <2>1. \A k \in Keys : idem[k] # None => idem[k].operation_id \in Ops
    BY <1>1 DEF KeyTables, IdempotencyRecords
  <2>2. KeysKnown(former[c].operations, idem)
    BY DEF Inv, Records
  <2> QED BY <1>6, <2>1, <2>2 DEF KeysKnown
<1>8. \A d \in Controllers : KeysKnown(former'[d].operations, former'[d].idempotency)
  <2>1. KeysKnown(Gone.operations, Gone.idempotency)
    BY GoneIs DEF KeysKnown
  <2> QED BY <1>4, <1>5, <1>7, <2>1 DEF Inv, Records
<1>9. /\ disk' \in [operations : OperationTables, idempotency : KeyTables]
      /\ KeysKnown(disk'.operations, disk'.idempotency)
      /\ disk'.operations = disk.operations \/ disk'.operations = ops
  <2>1. CASE disk' = disk
    BY <2>1 DEF Inv, TypeOK, Records
  <2>2. CASE disk' = [operations |-> ops, idempotency |-> idem]
    BY <1>1, <1>7, <2>2
  <2> QED BY <2>1, <2>2
<1>10. ASSUME NEW q \in Ops PROVE Carried(q)
  <2> SUFFICES ASSUME NEW s \in Copies(q)' PROVE Descends(q, s)
    BY DEF Carried
  <2>1. s = None \/ s \in Copies(q) \/ s = ops[q]
    BY <1>5, <1>6, <1>9 DEF Copies
  <2>2. CASE s \in Copies(q)
    BY <2>2, EvolvesRefl DEF Inv, Records, Descends
  <2>3. CASE s = ops[q]
    <3>1. former[c].operations[q] \in Copies(q)
      BY DEF Copies
    <3> QED BY <1>6, <2>3, <3>1 DEF Descends
  <2> QED BY <2>1, <2>2, <2>3 DEF Descends
<1>11. \A d \in Controllers, v \in Workers :
          Row(d, v)' = Idle \/ (Row(d, v)' = Row(d, v) /\ (d = c => former'[c].operations = ops))
  <2>1. \A d \in Controllers, v \in Workers : Row(d, v)' = former'[d].worker[v]
    BY DEF Row
  <2> QED BY <1>2, <1>4, <1>5, <2>1, GoneIs DEF Row
<1>12. LeftOver'
  <2>1. ASSUME NEW d \in Controllers, NEW v \in Workers, Row(d, v)'.phase # "free"
        PROVE  /\ Row(d, v)' = Row(d, v) /\ Row(d, v).phase # "free" /\ Row(d, v).op \in Ops
               /\ LeftRecord(d, v)' # None /\ Terminal(LeftRecord(d, v)')
               /\ LeftRequest(d, v)' = LeftRequest(d, v)
    <3>1. Row(d, v)' = Row(d, v) /\ Row(d, v).phase # "free" /\ (d = c => former'[c].operations = ops)
      BY <1>11, <2>1, GoneIs
    <3>2. Row(d, v).op \in Ops /\ LeftRecord(d, v) # None /\ Terminal(LeftRecord(d, v))
      BY <3>1 DEF Inv, LeftOver
    <3>3. CASE d # c
      <4>1. LeftRecord(d, v)' = LeftRecord(d, v)
        BY <1>5, <3>1, <3>3 DEF LeftRecord
      <4> QED BY <3>1, <3>2, <4>1 DEF LeftRequest
    <3>4. CASE d = c
      <4>1. LeftRecord(d, v)' = ops[Row(d, v).op] /\ LeftRecord(d, v) = former[c].operations[Row(d, v).op]
        BY <3>1, <3>4 DEF LeftRecord
      <4>2. Evolves(LeftRecord(d, v), LeftRecord(d, v)') /\ LeftRecord(d, v)' # None
        BY <1>6, <3>2, <4>1
      <4> QED BY <3>1, <3>2, <4>2 DEF LeftRequest, Evolves
    <3> QED BY <3>3, <3>4
  <2>2. \A d \in Controllers, v \in Workers : Row(d, v)'.phase = "free" => Row(d, v)' = Idle
    BY <1>11 DEF Inv, LeftOver
  <2>3. \A d \in Controllers, u, v \in Workers :
           u # v /\ Row(d, u)'.phase # "free" /\ Row(d, v)'.phase # "free" =>
                Admit(LeftRequest(d, u)', LeftRequest(d, v)')
    BY <2>1 DEF Inv, LeftOver
  <2>4. ASSUME NEW d \in Controllers, NEW q \in Ops, former'[d].operations[q] # None
        PROVE  /\ operations'[q] # None => Terminal(operations'[q])
               /\ failures' = 0 => Terminal(former'[d].operations[q])
    <3>1. CASE d # c
      BY <1>5, <2>4, <3>1 DEF Inv, LeftOver
    <3>2. CASE d = c
      BY <1>6, <2>4, <3>2 DEF Inv, LeftOver, Evolves
    <3> QED BY <3>1, <3>2
  <2> QED BY <2>1, <2>2, <2>3, <2>4 DEF LeftOver, Admit, Gate!Limit
<1>13. \A q \in Ops : LeftFor(q)' \subseteq LeftFor(q)
  BY <1>11, GoneIs DEF LeftFor
<1>14. \A q \in Ops : RecordedFor(q)' = RecordedFor(q)
  BY DEF RecordedFor, taskVars
<1>15. OnlyOne'
  BY <1>10, <1>13, <1>14, OnlyOneFromCopies DEF OnlyOne
<1>16. failures' = 0 => failures = 0 /\ (Up => FileFollows(operations, disk'.operations))
  <2> SUFFICES ASSUME failures = 0, Up PROVE FileFollows(operations, disk'.operations)
    OBVIOUS
  <2>1. CASE disk'.operations = disk.operations
    BY <2>1 DEF Inv, Sealed
  <2>2. CASE disk'.operations = ops
    <3>1. \A q \in Ops : ops[q] # None => Terminal(ops[q])
      BY <1>6 DEF Inv, LeftOver, Evolves
    <3> QED BY <2>2, <3>1 DEF FileFollows
  <2> QED BY <1>9, <2>1, <2>2
<1>17. effects' \in [Ops -> Nat] /\ \A q \in Ops : effects'[q] > 0 => Active(q)
  BY DEF Inv, TypeOK, Active
<1> QED BY <1>5, <1>8, <1>9, <1>10, <1>12, <1>13, <1>15, <1>16, <1>17, LeftBehind

LEMMA LeftStepKeeps ==
    ASSUME Inv, NEW c \in Controllers, LeftStep(c)
    PROVE  Inv'
<1>1. PICK w \in Workers : \/ LeftResumes(c, w) \/ LeftEnds(c, w) \/ LeftStops(c, w)
                           \/ \E p \in WriteResults : LeftRecordsEnd(c, w, p)
  BY DEF LeftStep
<1>2. CASE LeftResumes(c, w) \/ LeftEnds(c, w)
  BY <1>2, LeftMoveKeeps
<1>3. former[c].operations \in OperationTables
  BY DEF Inv, TypeOK
<1>4. \A q \in Ops : former[c].operations[q] # None => Evolves(former[c].operations[q], former[c].operations[q])
  BY EvolvesRefl, HeldRecords
<1>5. CASE LeftStops(c, w)
  <2>1. /\ Row(c, w).phase # "free" /\ LeftReturns(c, w, former[c].operations)
        /\ UNCHANGED <<operations, idempotency, disk, issued, failures, taskVars, mode, toForce, stops, effects>>
    BY <1>5 DEF LeftStops, storeVars
  <2>2. failures' \in 0 .. MaxFailures
    BY <2>1 DEF Inv, TypeOK
  <2> QED BY <1>3, <1>4, <2>1, <2>2, LeftReturnKeeps
<1>6. ASSUME NEW p \in WriteResults, LeftRecordsEnd(c, w, p) PROVE Inv'
  <2>1. PICK o \in Ops : o = Row(c, w).op /\ former[c].operations[o] # None
    BY <1>6 DEF LeftRecordsEnd, Inv, LeftOver, LeftRecord
  <2> DEFINE s == former[c].operations[o]
             ops == [former[c].operations EXCEPT ![o] = ProcessFinished(s)]
  <2>2. /\ Row(c, w).phase # "free" /\ LeftReturns(c, w, ops)
        /\ disk' = disk \/ disk' = [operations |-> ops, idempotency |-> former[c].idempotency]
        /\ failures' = failures \/ CountFailure(p)
        /\ UNCHANGED <<operations, idempotency, issued, taskVars, mode, toForce, stops, effects>>
    BY <1>6, <2>1 DEF LeftRecordsEnd
  <2>3. Evolves(s, ProcessFinished(s))
    BY <2>1, FinishEvolves, HeldRecords
  <2>4. ops \in OperationTables /\ \A q \in Ops : ops[q] = IF q = o THEN ProcessFinished(s) ELSE former[c].operations[q]
    BY <1>3, <2>3 DEF OperationTables, Evolves, RecordOK
  <2>5. /\ \A q \in Ops : former[c].operations[q] = None => ops[q] = None
        /\ \A q \in Ops : former[c].operations[q] # None => Evolves(former[c].operations[q], ops[q])
    BY <1>4, <2>1, <2>3, <2>4
  <2>6. failures' \in 0 .. MaxFailures /\ (failures' = 0 => failures = 0)
    BY <2>2, DispatchAssumption DEF CountFailure, Inv, TypeOK
  <2> HIDE DEF ops
  <2> QED BY <2>2, <2>4, <2>5, <2>6, LeftReturnKeeps
<1> QED BY <1>1, <1>2, <1>5, <1>6

-----------------------------------------------------------------------------
(* The invariant is inductive *)

LEMMA InitInv == Init => Inv
<1> SUFFICES ASSUME Init PROVE Inv
  OBVIOUS
<1>1. /\ \A o \in Ops : operations[o] = None /\ disk.operations[o] = None /\ tokens[o] = None /\ effects[o] = 0
      /\ \A k \in Keys : idempotency[k] = None /\ disk.idempotency[k] = None
      /\ \A w \in Workers : worker[w] = Idle /\ lease[w] = NoLease
      /\ disk.operations = operations /\ disk.idempotency = idempotency
      /\ \A c \in Controllers : former[c] = Gone
  BY DEF Init, NoOperations, NoBindings
<1>2. Idle \in [phase : Phases, op : Ops \cup {None}, outcome : Outcomes \cup {"none"}]
      /\ Idle.phase = "free"
  BY DEF Idle, Phases
<1>3. TypeOK
  BY <1>2, GoneIs, DispatchAssumption
     DEF Init, TypeOK, Rows, NoOperations, NoBindings, OperationTables, KeyTables
<1>4. \A o \in Ops : \A s \in Copies(o) : s = None
  BY <1>1, GoneIs DEF Copies
<1>5. Records
  BY <1>1, <1>4, GoneIs DEF Records, KeysKnown
<1>6. Tasks /\ GivenUp /\ Apart
  BY <1>1, <1>2 DEF Init, Tasks, TaskOK, GivenUp, Apart
<1>7. LeftOver
  BY <1>1, GoneIs DEF LeftOver, Row
<1>8. Started /\ OnlyOne
  BY <1>4 DEF Started, Evidence, OnlyOne, OnlyOneFor, NotCancelled
<1>9. Sealed
  BY <1>1 DEF Sealed, FileFollows
<1> QED BY <1>3, <1>5, <1>6, <1>7, <1>8, <1>9 DEF Inv

LEMMA WorkerStepKeeps ==
    ASSUME Inv, NEW w \in Workers, WorkerStep(w)
    PROVE  Inv'
<1>1. CASE \/ RefusedByGate(w) \/ LaunchFails(w) \/ LaunchCancelled(w) \/ CreateSuspended(w)
           \/ ResumeFails(w) \/ ProcessCancelled(w) \/ TerminateFails(w)
           \/ \E r \in {"ok", "error"} : CommandEnds(w, r) \/ ProcessExits(w, r)
  BY <1>1, QuietStepsKeep
<1>2. CASE EnterGate(w) \/ RunCommand(w) \/ Resume(w) \/ DropLease(w)
  BY <1>2, EnterGateKeeps, RunCommandKeeps, ResumeKeeps, DropLeaseKeeps
<1>3. ASSUME NEW p \in WriteResults,
             \/ QueueTimeout(w, p) \/ Start(w, p) \/ RecordStart(w, p)
             \/ Progress(w, p) \/ RecordEnd(w, p) \/ Report(w, p)
      PROVE  Inv'
  BY <1>3, FinishKeeps, StartKeeps, RecordStartKeeps, ProgressKeeps, RecordEndKeeps
<1> QED BY <1>1, <1>2, <1>3 DEF WorkerStep

LEMMA NextInv == Inv /\ [Next]_vars => Inv'
<1> SUFFICES ASSUME Inv, [Next]_vars PROVE Inv'
  OBVIOUS
<1>1. ASSUME NEW w \in Workers, WorkerStep(w) PROVE Inv'
  BY <1>1, WorkerStepKeeps
<1>2. ASSUME NEW i \in Invocations, NEW k \in Keys \cup {NoKey}, NEW o \in Ops, NEW p \in WriteResults,
             (\E w \in Workers : InvokeFresh(i, k, o, w, p)) \/ InvokeUnrecorded(i, k, o, p)
      PROVE  Inv'
  BY <1>2, InvokeFreshKeeps, InvokeUnrecordedKeeps
<1>3. ASSUME NEW k \in Keys, NEW w \in Workers, NEW p \in WriteResults, InvokeReplay(k, w, p)
      PROVE  Inv'
  BY <1>3, InvokeReplayKeeps
<1>4. ASSUME NEW o \in Ops, NEW p \in WriteResults, Cancel(o, p) PROVE Inv'
  BY <1>4, CancelKeeps
<1>5. CASE BeginShutdown \/ ShutdownStep
  <2>1. CASE BeginShutdown \/ DrainElapsed
    BY <2>1, ShutdownTimersKeep
  <2>2. CASE Exit
    BY <2>2, ExitKeeps
  <2>3. ASSUME NEW p \in WriteResults, ForcedElapsed(p) \/ \E o \in Ops, w \in Workers : ForceCancel(o, w, p)
        PROVE  Inv'
    BY <2>3, ForcedElapsedKeeps, ForceCancelKeeps
  <2> QED BY <1>5, <2>1, <2>2, <2>3 DEF ShutdownStep
<1>6. CASE Crash
  BY <1>6, CrashKeeps
<1>7. CASE Restart
  BY <1>7, RestartKeeps
<1>8. CASE UNCHANGED vars
  <2>1. /\ UNCHANGED <<operations, idempotency, disk, issued, failures, worker, lease, tokens, cancelled>>
        /\ UNCHANGED <<mode, toForce, stops, former, effects>>
    BY <1>8 DEF vars, storeVars, taskVars, modeVars
  <2>2. \A o \in Ops : /\ Copies(o)' = Copies(o) /\ RecordedFor(o)' = RecordedFor(o)
                       /\ LeftFor(o)' = LeftFor(o)
    BY <2>1 DEF Copies, RecordedFor, LeftFor, Row
  <2>3. \A o \in Ops : Carried(o)
    BY <2>2, EvolvesRefl DEF Inv, Records, Descends, Carried
  <2>4. \A c \in Controllers, w \in Workers :
           /\ Row(c, w)' = Row(c, w) /\ LeftRecord(c, w)' = LeftRecord(c, w)
           /\ LeftRequest(c, w)' = LeftRequest(c, w)
    BY <2>1 DEF Row, LeftRecord, LeftRequest
  <2>5. LeftOver'
    BY <2>1, <2>4 DEF Inv, LeftOver, Admit, Gate!Limit
  <2>6. OnlyOne'
    BY <2>1, <2>2, <2>3, OnlyOneFromCopies DEF OnlyOne
  <2>7. UNCHANGED <<taskVars, operations, idempotency, issued, mode, toForce, stops>>
    BY <2>1 DEF taskVars
  <2>8. /\ former' \in [Controllers -> [operations : OperationTables, idempotency : KeyTables, worker : Rows]]
        /\ disk' \in [operations : OperationTables, idempotency : KeyTables]
        /\ effects' \in [Ops -> Nat] /\ failures' \in 0 .. MaxFailures
        /\ KeysKnown(disk'.operations, disk'.idempotency)
        /\ \A c \in Controllers : KeysKnown(former'[c].operations, former'[c].idempotency)
        /\ failures' = 0 => failures = 0 /\ (Up => FileFollows(operations, disk'.operations))
    BY <2>1 DEF Inv, TypeOK, Records, Sealed
  <2>9. \A o \in Ops : effects'[o] > 0 => Active(o)
    BY <2>1 DEF Active
  <2> QED BY <2>2, <2>3, <2>5, <2>6, <2>7, <2>8, <2>9, LeftBehind
<1>9. ASSUME NEW c \in Controllers, LeftStep(c) PROVE Inv'
  BY <1>9, LeftStepKeeps
<1> QED BY <1>1, <1>2, <1>3, <1>4, <1>5, <1>6, <1>7, <1>8, <1>9 DEF Next

LEMMA InvAlways == Spec => []Inv
  BY InitInv, NextInv, PTL DEF Spec

-----------------------------------------------------------------------------
(* The results *)

\* Every variable keeps its type: memory and file hold records and bindings of the
\* declared shape, every task is at a known phase, and the failures stay in their bound.
THEOREM DispatchTypeCorrect == Spec => []TypeOK
<1>1. Inv => TypeOK
  BY DEF Inv
<1> QED BY <1>1, InvAlways, PTL

\* Work that shares a lock never overlaps and no tool has more work under way than its
\* requests admit, under one controller: the lease taken from the gate before the launch
\* is the request of the Operation and is held until the work is over, and what goes on
\* when its controller has exited and dropped the leases was let in by that same gate,
\* nothing is started there any more, and its Operation was sealed before.  It says
\* nothing of work of two different controllers, which can overlap.
THEOREM DispatchWorkIsExclusive == Spec => []WorkIsExclusive
<1>1. Inv => WorkIsExclusive
  <2> SUFFICES ASSUME Inv PROVE WorkIsExclusive
    OBVIOUS
  <2>1. ASSUME NEW v \in Workers, NEW w \in Workers, v # w, Working(v), Working(w)
        PROVE  Admit(Request(v), Request(w))
    <3>1. /\ lease[v] = Request(v) /\ lease[w] = Request(w)
          /\ Request(v) \in Requests /\ Request(w) \in Requests
      BY <2>1, AtWork DEF Working
    <3>2. lease[v] # NoLease /\ lease[w] # NoLease
      BY <3>1, DispatchAssumption
    <3> QED BY <2>1, <3>1, <3>2 DEF Inv, Apart
  <2>2. \A c \in Controllers, w \in Workers : LeftWorking(c, w) =>
           Row(c, w).phase # "free" /\ Terminal(LeftRecord(c, w))
    BY DEF LeftWorking, Inv, LeftOver
  <2>3. \A c \in Controllers : \A v, w \in Workers : v # w /\ LeftWorking(c, v) /\ LeftWorking(c, w) =>
           Admit(LeftRequest(c, v), LeftRequest(c, w))
    BY <2>2 DEF Inv, LeftOver
  <2> QED BY <2>1, <2>2, <2>3 DEF WorkIsExclusive
<1> QED BY <1>1, InvAlways, PTL

\* Once a process was resumed no record, in memory or in the file, says it never
\* started: its start is in both before the launcher resumes it.
THEOREM DispatchProcessStartNeverDenied == Spec => []ProcessStartNeverDenied
<1>1. Inv => ProcessStartNeverDenied
  <2> SUFFICES ASSUME Inv, NEW o \in Ops, IsProcess(o), effects[o] > 0,
                      NEW s \in {operations[o], disk.operations[o]}, s # None
               PROVE  s.error \notin NotStartedErrors
    BY DEF ProcessStartNeverDenied, Denied
  <2>1. Backend[s.invocation] = "process" /\ RecordOK(s)
    <3>1. s \in Copies(o) /\ {operations[o], disk.operations[o]} \subseteq Copies(o)
      BY DEF Copies
    <3> QED BY <3>1 DEF IsProcess, Inv, Records
  <2>2. Evidence(s)
    <3>1. s \in Copies(o)
      BY DEF Copies
    <3> QED BY <3>1 DEF Inv, Started, Active
  <2> QED BY <2>1, <2>2 DEF Evidence, RecordOK
<1> QED BY <1>1, InvAlways, PTL

\* The process of an Operation nobody asked to cancel is resumed at most once, whatever
\* is replayed, whichever write fails and whenever the controller stops.
THEOREM DispatchProcessRunsAtMostOnce == Spec => []ProcessRunsAtMostOnce
<1>1. Inv => ProcessRunsAtMostOnce
  <2> SUFFICES ASSUME Inv, NEW o \in Ops, IsProcess(o),
                      \A s \in {operations[o], disk.operations[o]} : s # None => ~s.cancel_requested
               PROVE  effects[o] <= 1
    BY DEF ProcessRunsAtMostOnce
  <2>1. \E s \in Copies(o) : NotCancelled(s)
    BY DEF IsProcess, NotCancelled, Copies
  <2> QED BY <2>1 DEF Inv, OnlyOne, OnlyOneFor
<1> QED BY <1>1, InvAlways, PTL

\* A graceful shutdown that is ready to exit leaves no open Operation in the file,
\* unless a write failed.
THEOREM DispatchExitSeals == Spec => []ExitSealsDispatched
<1>1. Inv => ExitSealsDispatched
  <2> SUFFICES ASSUME Inv, ReadyToExit, failures = 0, NEW o \in Ops, disk.operations[o] # None
               PROVE  Terminal(disk.operations[o])
    BY DEF ExitSealsDispatched
  <2>1. Up /\ (Filed = {} \/ mode = "closing")
    BY DEF ReadyToExit, Up
  <2>2. Terminal(disk.operations[o]) \/ disk.operations[o] = operations[o]
    BY <2>1 DEF Inv, Sealed, FileFollows
  <2> QED BY <2>1, <2>2 DEF Inv, Sealed, Filed
<1> QED BY <1>1, InvAlways, PTL

-----------------------------------------------------------------------------
(* Cancelling.  A replay files the token of a second task over that of the first, so   *)
(* the statement is about behaviours in which no key is replayed.                       *)

NoReplay == \A k \in Keys, w \in Workers, p \in WriteResults : ~InvokeReplay(k, w, p)

\* A step that starts no task and puts no cancel on record.
LEMMA OneTaskKept ==
    ASSUME Inv, OneTask, Advance, cancelled \subseteq cancelled', mode' = "serving" => mode = "serving",
           \A w \in Workers : worker'[w].phase # "free" =>
              /\ worker[w].phase # "free" /\ worker'[w].op = worker[w].op
              /\ tokens'[worker[w].op] = tokens[worker[w].op]
              /\ \/ Record(w)'.cancel_requested => Record(w).cancel_requested
                 \/ w \in cancelled' \/ failures' # 0 \/ mode' # "serving"
    PROVE  OneTask'
<1>1. ASSUME NEW w \in Workers, worker'[w].phase # "free", mode' = "serving", failures' = 0,
             Record(w)'.cancellable, Record(w)'.cancel_requested
      PROVE  w \in cancelled'
  <2>1. worker[w].phase # "free" /\ worker'[w].op = worker[w].op
    BY <1>1
  <2>2. /\ worker[w].op \in Ops /\ Record(w) # None /\ RecordOK(Record(w))
        /\ Record(w) = operations[worker[w].op] /\ Record(w)' = operations'[worker[w].op]
    BY <2>1, AtWork DEF Record
  <2>3. Evolves(Record(w), Record(w)')
    BY <2>2 DEF Advance
  <2>4. Record(w).cancellable
    BY <1>1, <2>2, <2>3 DEF Evolves, RecordOK
  <2>5. failures = 0
    BY <1>1 DEF Advance
  <2> QED BY <1>1, <2>1, <2>4, <2>5 DEF OneTask
<1>2. \A v, w \in Workers : /\ worker'[v].phase # "free" /\ worker'[w].phase # "free"
                            /\ worker'[v].op = worker'[w].op
                            => v = w
  BY DEF OneTask
<1>3. \A w \in Workers : worker'[w].phase # "free" => tokens'[worker'[w].op] = w
  BY DEF OneTask
<1> QED BY <1>1, <1>2, <1>3 DEF OneTask

\* A step of a running task, cancel flags as they were.
LEMMA OneTaskStep ==
    ASSUME Inv, OneTask, Advance, UNCHANGED <<tokens, cancelled, mode>>,
           \A w \in Workers : worker'[w].phase # "free" =>
              worker[w].phase # "free" /\ worker'[w].op = worker[w].op,
           \A q \in Ops : operations[q] # None =>
              operations'[q].cancel_requested = operations[q].cancel_requested
    PROVE  OneTask'
<1> SUFFICES ASSUME NEW w \in Workers, worker'[w].phase # "free"
             PROVE  Record(w)'.cancel_requested = Record(w).cancel_requested
  BY OneTaskKept
<1>1. worker[w].op \in Ops /\ Record(w) # None
  BY AtWork
<1> QED BY <1>1 DEF Record

\* Steps that leave the store alone.
LEMMA OneTaskQuiet ==
    ASSUME Inv, OneTask, NEW w \in Workers, worker[w].phase # "free", NEW ph,
           \/ Move(w, ph)
           \/ \E r : Answer(w, ph, r),
           UNCHANGED <<storeVars, tokens, cancelled, mode>>
    PROVE  OneTask'
<1>1. Advance
  BY AtWork, StoreUntouched DEF Up
<1>2. \A v \in Workers : worker'[v].phase # "free" =>
         worker[v].phase # "free" /\ worker'[v].op = worker[v].op
  <2>1. PICK r : Moved(w, ph, r)
    BY MoveMoves
  <2> QED BY <2>1 DEF Moved, Inv, TypeOK, Rows
<1> QED BY <1>1, <1>2, OneTaskStep DEF storeVars

\* Steps that rewrite the record of the task, its cancel flag as it was.
LEMMA OneTaskRecord ==
    ASSUME Inv, OneTask, NEW w \in Workers, worker[w].phase # "free", NEW ph,
           \/ Move(w, ph)
           \/ \E r : Answer(w, ph, r),
           NEW t, Evolves(Record(w), t), t.cancel_requested = Record(w).cancel_requested,
           NEW p \in WriteResults,
           \/ SaveRecord(worker[w].op, t, p)
           \/ Save([operations EXCEPT ![worker[w].op] = t], idempotency, p) /\ UNCHANGED issued,
           UNCHANGED <<tokens, cancelled, mode>>
    PROVE  OneTask'
<1>1. Up /\ Up' /\ worker[w].op \in Ops /\ Record(w) # None /\ Record(w) = operations[worker[w].op]
  BY AtWork DEF Up, Record
<1>2. /\ Advance /\ operations'[worker[w].op] = t
      /\ \A q \in Ops : q # worker[w].op => operations'[q] = operations[q]
  BY <1>1, SaveRecordAdvances, SaveOneAdvances
<1>3. \A v \in Workers : worker'[v].phase # "free" =>
         worker[v].phase # "free" /\ worker'[v].op = worker[v].op
  <2>1. PICK r : Moved(w, ph, r)
    BY MoveMoves
  <2> QED BY <2>1 DEF Moved, Inv, TypeOK, Rows
<1> QED BY <1>1, <1>2, <1>3, OneTaskStep

LEMMA OneTaskFinish ==
    ASSUME Inv, OneTask, NEW w \in Workers, worker[w].phase # "free", NEW r \in Outcomes,
           NEW p \in WriteResults, Finish(w, r, p), UNCHANGED <<cancelled, mode>>
    PROVE  OneTask'
<1> DEFINE t == Complete(Record(w), r)
<1>1. /\ Up /\ Up' /\ worker[w].op \in Ops /\ Record(w) # None /\ RecordOK(Record(w))
      /\ Record(w) = operations[worker[w].op]
  BY AtWork DEF Up, Record
<1>2. Evolves(Record(w), t) /\ SaveRecord(worker[w].op, t, p)
  BY <1>1, CompleteEvolves DEF Finish
<1> HIDE DEF t
<1>3. Advance /\ \A q \in Ops : q # worker[w].op => operations'[q] = operations[q]
  BY <1>1, <1>2, SaveRecordAdvances
<1> SUFFICES ASSUME NEW v \in Workers, worker'[v].phase # "free"
             PROVE  /\ worker[v].phase # "free" /\ worker'[v].op = worker[v].op
                    /\ tokens'[worker[v].op] = tokens[worker[v].op]
                    /\ Record(v)'.cancel_requested = Record(v).cancel_requested
  BY <1>3, OneTaskKept
<1>4. v # w /\ worker'[v] = worker[v]
  BY DEF Finish, Inv, TypeOK, Rows, Idle
<1>5. worker[v].op # worker[w].op /\ worker[v].op \in Ops
  BY <1>4, AtWork DEF OneTask
<1> QED BY <1>1, <1>3, <1>4, <1>5 DEF Finish, Record, Inv, TypeOK, Rows

LEMMA OneTaskWorker ==
    ASSUME Inv, OneTask, NEW w \in Workers, WorkerStep(w)
    PROVE  OneTask'
<1>1. CASE \/ EnterGate(w) \/ RefusedByGate(w) \/ RunCommand(w) \/ LaunchFails(w) \/ LaunchCancelled(w)
           \/ CreateSuspended(w) \/ Resume(w) \/ ResumeFails(w) \/ ProcessCancelled(w)
           \/ TerminateFails(w) \/ DropLease(w)
           \/ \E r \in {"ok", "error"} : CommandEnds(w, r) \/ ProcessExits(w, r)
  BY <1>1, OneTaskQuiet
     DEF EnterGate, RefusedByGate, RunCommand, LaunchFails, LaunchCancelled, CreateSuspended, Resume,
         ResumeFails, ProcessCancelled, TerminateFails, DropLease, CommandEnds, ProcessExits, At, modeVars
<1>2. ASSUME NEW p \in WriteResults, QueueTimeout(w, p) \/ Report(w, p) PROVE OneTask'
  <2>1. \A x \in {"error", worker[w].outcome} : worker[w].phase = "report" \/ x = "error" => x \in Outcomes
    BY DEF Inv, Tasks, TaskOK, Outcomes
  <2> QED BY <1>2, <2>1, OneTaskFinish DEF QueueTimeout, Report, At, modeVars, Outcomes
<1>3. ASSUME NEW p \in WriteResults, Start(w, p) PROVE OneTask'
  <2>1. worker[w].phase # "free" /\ RecordOK(Record(w))
    BY <1>3, AtWork DEF Start, At
  <2> QED BY <1>3, <2>1, TryEvolves, OneTaskRecord DEF Start, modeVars
<1>4. ASSUME NEW p \in WriteResults, RecordEnd(w, p) PROVE OneTask'
  <2>1. worker[w].phase # "free" /\ RecordOK(Record(w))
    BY <1>4, AtWork DEF RecordEnd, At
  <2> QED BY <1>4, <2>1, FinishEvolves, OneTaskRecord DEF RecordEnd, modeVars
<1>5. ASSUME NEW p \in WriteResults, RecordStart(w, p) PROVE OneTask'
  <2>1. worker[w].phase # "free" /\ RecordOK(Record(w)) /\ Record(w) = operations[worker[w].op]
    BY <1>5, AtWork DEF RecordStart, At, Record
  <2>2. \E ph : Move(w, ph) \/ \E r : Answer(w, ph, r)
    BY <1>5 DEF RecordStart
  <2>3. UNCHANGED <<tokens, cancelled, mode, issued>>
    BY <1>5 DEF RecordStart, modeVars
  <2>4. CASE CanRecordStart(Record(w))
    <3>1. Save([operations EXCEPT ![worker[w].op] = ProcessStarted(Record(w))], idempotency, p)
      BY <1>5, <2>1, <2>4 DEF RecordStart
    <3> QED BY <2>1, <2>2, <2>3, <2>4, <3>1, StartEvolves, OneTaskRecord
  <2>5. CASE ~CanRecordStart(Record(w))
    <3>1. UNCHANGED storeVars
      BY <1>5, <2>5 DEF RecordStart, storeVars
    <3> QED BY <2>1, <2>2, <2>3, <3>1, OneTaskQuiet
  <2> QED BY <2>4, <2>5
<1>6. ASSUME NEW p \in WriteResults, Progress(w, p) PROVE OneTask'
  <2>1. /\ Save(operations, idempotency, p) /\ UNCHANGED <<issued, worker, tokens, cancelled, mode>>
        /\ worker[w].phase # "free"
    BY <1>6 DEF Progress, taskVars, modeVars
  <2>2. Up /\ Up' /\ operations \in OperationTables
    BY <2>1, AtWork DEF Up, Inv, TypeOK
  <2>3. \A o \in Ops : operations[o] # None => Evolves(operations[o], operations[o])
    BY EvolvesRefl, HeldRecords
  <2>4. Advance /\ operations' = operations
    BY <2>1, <2>2, <2>3, SaveAdvances DEF Save
  <2> QED BY <2>1, <2>4, OneTaskStep
<1> QED BY <1>1, <1>2, <1>3, <1>4, <1>5, <1>6 DEF WorkerStep

\* Steps after which every task at work is as it was, record and token included, or
\* the controller is no longer serving.
LEMMA OneTaskSame ==
    ASSUME Inv, OneTask,
           \A w \in Workers : worker'[w].phase # "free" =>
              /\ worker'[w] = worker[w] /\ tokens'[worker[w].op] = tokens[worker[w].op]
              /\ \/ mode' # "serving"
                 \/ operations'[worker[w].op] = operations[worker[w].op] /\ (w \in cancelled => w \in cancelled'),
           mode' = "serving" /\ failures' = 0 =>
              \/ mode = "serving" /\ failures = 0
              \/ \A w \in Workers : worker'[w].phase = "free"
    PROVE  OneTask'
  BY DEF OneTask, Record

LEMMA OneTaskInvoke ==
    ASSUME Inv, OneTask, NEW i \in Invocations, NEW k \in Keys \cup {NoKey}, NEW o \in Ops, NEW p \in WriteResults,
           (\E w \in Workers : InvokeFresh(i, k, o, w, p)) \/ InvokeUnrecorded(i, k, o, p)
    PROVE  OneTask'
<1>1. ASSUME NEW v \in Workers, worker[v].phase # "free"
      PROVE  worker[v].op \in Ops /\ worker[v].op # o
  <2>1. worker[v].op \in Ops /\ operations[worker[v].op] # None
    BY <1>1, AtWork DEF Record
  <2> QED BY <2>1, HeldRecords DEF InvokeFresh, InvokeUnrecorded
<1>2. operations \in OperationTables /\ failures \in Nat
  BY DispatchAssumption DEF Inv, TypeOK
<1>3. CASE InvokeUnrecorded(i, k, o, p)
  <2>1. failures' # 0
    BY <1>2, <1>3 DEF InvokeUnrecorded, Save, CountFailure
  <2>2. \A q \in Ops : q # o => operations'[q] = operations[q]
    BY <1>2, <1>3 DEF InvokeUnrecorded, Save, OperationTables
  <2> QED BY <1>1, <1>3, <2>1, <2>2, OneTaskSame DEF InvokeUnrecorded, taskVars
<1>4. ASSUME NEW w \in Workers, InvokeFresh(i, k, o, w, p) PROVE OneTask'
  <2> DEFINE t == Queued(NewOperation(i, Cancellable[i]))
  <2>1. ~t.cancel_requested
    BY NewRecord, QueuedEvolves
  <2>2. /\ operations' = [operations EXCEPT ![o] = t] /\ Spawn(o, w) /\ CountFailure(p)
        /\ mode' = mode
    BY <1>4 DEF InvokeFresh, modeVars
  <2> HIDE DEF t
  <2>3. operations'[o] = t /\ \A q \in Ops : q # o => operations'[q] = operations[q]
    BY <1>2, <2>2 DEF OperationTables
  <2>4. /\ worker[w].phase = "free" /\ worker'[w].op = o
        /\ \A v \in Workers : v # w => worker'[v] = worker[v] /\ (v \in cancelled => v \in cancelled')
    BY <2>2 DEF Spawn, Inv, TypeOK, Rows, Idle
  <2>5. tokens'[o] = w /\ \A q \in Ops : q # o => tokens'[q] = tokens[q]
    BY <2>2 DEF Spawn, Inv, TypeOK
  <2>6. failures' = 0 => failures = 0
    BY <1>2, <2>2 DEF CountFailure
  <2>7. \A v, u \in Workers : /\ worker'[v].phase # "free" /\ worker'[u].phase # "free"
                              /\ worker'[v].op = worker'[u].op
                              => v = u
    BY <1>1, <2>4 DEF OneTask
  <2>8. \A v \in Workers : worker'[v].phase # "free" => tokens'[worker'[v].op] = v
    BY <1>1, <2>4, <2>5 DEF OneTask
  <2>9. ASSUME NEW v \in Workers, worker'[v].phase # "free", mode' = "serving", failures' = 0,
               Record(v)'.cancellable, Record(v)'.cancel_requested
        PROVE  v \in cancelled'
    <3>1. v # w
      BY <2>1, <2>3, <2>4, <2>9 DEF Record
    <3>2. Record(v)' = Record(v)
      BY <1>1, <2>3, <2>4, <2>9, <3>1 DEF Record
    <3> QED BY <2>2, <2>4, <2>6, <2>9, <3>1, <3>2 DEF OneTask
  <2> QED BY <2>7, <2>8, <2>9 DEF OneTask
<1> QED BY <1>3, <1>4

\* The token set is that of the only task of the Operation.
LEMMA OneTaskCancel ==
    ASSUME Inv, OneTask, NEW o \in Ops, NEW p \in WriteResults, Cancel(o, p)
    PROVE  OneTask'
<1> DEFINE t == CancelIntent(operations[o])
<1>1. /\ mode = "serving" /\ operations[o] # None /\ SaveRecord(o, t, p)
      /\ UNCHANGED <<worker, tokens, mode>> /\ cancelled \subseteq cancelled'
      /\ p = "written" /\ t.cancel_requested /\ t.cancellable /\ tokens[o] # None => tokens[o] \in cancelled'
  BY DEF Cancel, modeVars
<1>2. Evolves(operations[o], t) /\ RecordOK(t)
  BY <1>1, CancelEvolves, HeldRecords DEF Evolves
<1> HIDE DEF t
<1>3. Up /\ Up'
  BY <1>1 DEF Up
<1>4. /\ Advance /\ operations'[o] = t /\ (p # "written" => failures' # 0)
      /\ \A q \in Ops : q # o => operations'[q] = operations[q]
  BY <1>1, <1>2, <1>3, SaveRecordAdvances
<1>5. /\ \A v, w \in Workers : /\ worker'[v].phase # "free" /\ worker'[w].phase # "free"
                               /\ worker'[v].op = worker'[w].op
                               => v = w
      /\ \A w \in Workers : worker'[w].phase # "free" => tokens'[worker'[w].op] = w
  BY <1>1 DEF OneTask
<1>6. ASSUME NEW w \in Workers, worker'[w].phase # "free", mode' = "serving", failures' = 0,
             Record(w)'.cancellable, Record(w)'.cancel_requested
      PROVE  w \in cancelled'
  <2>1. worker[w].phase # "free" /\ worker[w].op \in Ops /\ tokens[worker[w].op] = w
    BY <1>1, <1>6, AtWork DEF OneTask
  <2>2. CASE worker[w].op = o
    <3>1. tokens[o] # None
      BY <2>1, <2>2, NoneAssumption
    <3> QED BY <1>1, <1>4, <1>6, <2>1, <2>2, <3>1 DEF Record
  <2>3. CASE worker[w].op # o
    <3>1. Record(w)' = Record(w)
      BY <1>1, <1>4, <2>1, <2>3 DEF Record
    <3> QED BY <1>1, <1>4, <1>6, <2>1, <3>1 DEF OneTask, Advance
  <2> QED BY <2>2, <2>3
<1> QED BY <1>5, <1>6 DEF OneTask

LEMMA OneTaskNext == Inv /\ OneTask /\ [Next]_vars /\ [NoReplay]_vars => OneTask'
<1> SUFFICES ASSUME Inv, OneTask, [Next]_vars, [NoReplay]_vars PROVE OneTask'
  OBVIOUS
<1>1. ASSUME NEW w \in Workers, WorkerStep(w) PROVE OneTask'
  BY <1>1, OneTaskWorker
<1>2. ASSUME NEW i \in Invocations, NEW k \in Keys \cup {NoKey}, NEW o \in Ops, NEW p \in WriteResults,
             (\E w \in Workers : InvokeFresh(i, k, o, w, p)) \/ InvokeUnrecorded(i, k, o, p)
      PROVE  OneTask'
  BY <1>2, OneTaskInvoke
<1>3. ASSUME NEW o \in Ops, NEW p \in WriteResults, Cancel(o, p) PROVE OneTask'
  BY <1>3, OneTaskCancel
<1>4. CASE BeginShutdown \/ DrainElapsed
  BY <1>4, OneTaskSame DEF BeginShutdown, DrainElapsed, taskVars, storeVars
<1>5. ASSUME NEW p \in WriteResults, ForcedElapsed(p) \/ \E o \in Ops, w \in Workers : ForceCancel(o, w, p)
      PROVE  OneTask'
  BY <1>5, OneTaskSame DEF ForcedElapsed, ForceCancel, taskVars
<1>6. CASE Exit \/ Crash
  <2>1. \A w \in Workers : worker'[w].phase = "free"
    BY <1>6 DEF Exit, Crash, Vanish, Idle
  <2> QED BY <2>1, OneTaskSame
<1>7. CASE Restart
  <2>1. \A w \in Workers : worker'[w].phase = "free"
    BY <1>7 DEF Restart, taskVars, Inv, Tasks, TaskOK, Up
  <2> QED BY <2>1, OneTaskSame
<1>8. CASE UNCHANGED vars
  BY <1>8, OneTaskSame DEF vars, storeVars, taskVars, modeVars
<1>9. ASSUME NEW k \in Keys, NEW w \in Workers, NEW p \in WriteResults, InvokeReplay(k, w, p)
      PROVE  OneTask'
  BY <1>8, <1>9 DEF NoReplay
<1>10. ASSUME NEW c \in Controllers, LeftStep(c) PROVE OneTask'
  <2>1. UNCHANGED <<operations, taskVars, mode>> /\ (failures' = 0 => failures = 0)
    <3>1. PICK w \in Workers : \/ LeftResumes(c, w) \/ LeftEnds(c, w) \/ LeftStops(c, w)
                               \/ \E p \in WriteResults : LeftRecordsEnd(c, w, p)
      BY <1>10 DEF LeftStep
    <3>2. failures \in Nat
      BY DispatchAssumption DEF Inv, TypeOK
    <3> QED BY <3>1, <3>2 DEF LeftResumes, LeftEnds, LeftStops, LeftRecordsEnd, storeVars, CountFailure
  <2> QED BY <2>1, OneTaskSame DEF taskVars
<1> QED BY <1>1, <1>2, <1>3, <1>4, <1>5, <1>6, <1>7, <1>8, <1>9, <1>10 DEF Next, ShutdownStep

LEMMA OneTaskInit == Init => OneTask
  BY DEF Init, OneTask, Idle

\* A cancel that a client was told is recorded has set the token that the wait loop of
\* the running process polls, as long as no key is replayed and no write has failed.
THEOREM DispatchCancelReachesProcess == Spec /\ [][NoReplay]_vars => []CancelReachesProcess
<1>1. Inv /\ OneTask => CancelReachesProcess
  <2> SUFFICES ASSUME Inv, OneTask, NEW w \in Workers, worker[w].phase = "process", Record(w).cancellable,
                      Record(w).status = "cancelling", mode = "serving", failures = 0
               PROVE  w \in cancelled
    BY DEF CancelReachesProcess
  <2>1. Record(w).cancel_requested
    BY AtWork DEF RecordOK
  <2> QED BY <2>1 DEF OneTask
<1>2. Spec /\ [][NoReplay]_vars => []OneTask
  BY InvAlways, OneTaskInit, OneTaskNext, PTL DEF Spec
<1> QED BY <1>1, <1>2, InvAlways, PTL
=============================================================================
