----------------------------- MODULE CodexLifecycle -----------------------------
(***************************************************************************)
(* How the controller knows that nobody needs it any more: CodexLifecycle  *)
(* of apps/star-controller/src/lifecycle.rs, the lifecycle.observe handler *)
(* and the one-second tick of main.rs.                                     *)
(*                                                                         *)
(* Every Codex hook is a process of its own that reports one event over    *)
(* IPC, so events arrive late, in another order than they happened, or not *)
(* at all; the Codex process may be gone when they arrive.  The controller *)
(* keeps a projection (instance, task), decides after every event and on   *)
(* every tick whether to stay, and starts again when a hook needs it.      *)
(*                                                                         *)
(* External: what Codex really does (running, turn, working, open) and the *)
(* channel.  Time is the age of the two idle_since stamps, in ticks up to  *)
(* Grace.  Left out: the table of MCP connections, which no decision       *)
(* reads, and the unknown state and the Operation counters, which no       *)
(* caller of the controller sets.                                          *)
(***************************************************************************)
EXTENDS Naturals, Sequences

CONSTANTS Instances,    \* Codex processes
          Tasks,        \* Codex sessions
          InstanceOf,   \* the process of each session
          Owned,        \* processes whose owner_pid the hooks can report
          Activities,   \* kinds of activity counters
          None,
          Grace,        \* CONTROLLER_IDLE_GRACE in ticks
          Ordered,      \* events arrive in the order they happened
          LateEvents,   \* events may arrive after their process is gone
          CounterMax,   \* u32::MAX, where an activity counter saturates
          MaxTurns,     \* turns of a session
          MaxOpen,      \* activities of a kind open at once in a session
          MaxInFlight   \* events under way

ASSUME LifecycleAssumption ==
    /\ InstanceOf \in [Tasks -> Instances]
    /\ Owned \subseteq Instances
    /\ {Ordered, LateEvents} \subseteq BOOLEAN
    /\ Grace \in Nat /\ Grace > 0
    /\ {CounterMax, MaxTurns, MaxOpen, MaxInFlight} \subseteq Nat
    /\ CounterMax > 0

VARIABLES instance,   \* known instances: "active" or "exited"
          task,       \* known tasks: their TaskSnapshot
          idle,       \* age of lifecycle.idle_since
          quiet,      \* age of management_runtime.idle_since
          busy,       \* Operation workers or management work active
          up,         \* the controller runs
          running, turn, working, open,   \* what Codex does
          inflight,   \* events on their way
          seen,       \* the turn of a session this controller was told of
          calm        \* ticks since a task was last active

projection == <<instance, task, idle, quiet, up>>
codex == <<running, turn, working, open>>
ghosts == <<seen, calm>>
vars == <<projection, busy, codex, inflight, ghosts>>

Ages == 0 .. Grace
Older(age) == IF age = None \/ age = Grace THEN age ELSE age + 1

NoActivity == [k \in Activities |-> 0]

\* The TaskSnapshot of a task first heard of.
NewTask == [root_stop_observed |-> FALSE, activity |-> NoActivity, work_active |-> FALSE]

Nothing == [i \in Instances |-> None]
Nobody == [t \in Tasks |-> None]

Init ==
    /\ instance = Nothing /\ task = Nobody
    /\ idle = None /\ quiet = None
    /\ busy = TRUE                        \* the management store is opening
    /\ up = TRUE
    /\ running = [i \in Instances |-> TRUE]
    /\ turn = [t \in Tasks |-> 0]
    /\ working = [t \in Tasks |-> FALSE]
    /\ open = [t \in Tasks |-> NoActivity]
    /\ inflight = <<>>
    /\ seen = [t \in Tasks |-> 0]
    /\ calm = Grace

-----------------------------------------------------------------------------
(* Codex and the channel (external) *)

Emit(event, t, k) ==
    /\ Len(inflight) < MaxInFlight
    /\ inflight' = Append(inflight, [event |-> event, task |-> t, activity |-> k,
                                     turn |-> turn'[t]])

Reports(t) == running[InstanceOf[t]]

\* SessionStart, or an MCP gateway initialises: a heartbeat of the instance.
CodexHeartbeat(t, event) ==
    /\ Reports(t)
    /\ event \in {"session_start", "mcp_initialized"}
    /\ UNCHANGED codex
    /\ Emit(event, t, None)
    /\ UNCHANGED <<projection, busy, ghosts>>

CodexPrompt(t) ==
    /\ Reports(t) /\ ~working[t] /\ turn[t] < MaxTurns
    /\ turn' = [turn EXCEPT ![t] = @ + 1]
    /\ working' = [working EXCEPT ![t] = TRUE]
    /\ Emit("user_prompt_submit", t, None)
    /\ UNCHANGED <<projection, busy, running, open, ghosts>>

CodexStarts(t, k) ==
    /\ Reports(t) /\ working[t] /\ open[t][k] < MaxOpen
    /\ open' = [open EXCEPT ![t][k] = @ + 1]
    /\ UNCHANGED <<running, turn, working>>
    /\ Emit("started", t, k)
    /\ UNCHANGED <<projection, busy, ghosts>>

CodexFinishes(t, k) ==
    /\ Reports(t) /\ open[t][k] > 0
    /\ open' = [open EXCEPT ![t][k] = @ - 1]
    /\ UNCHANGED <<running, turn, working>>
    /\ Emit("finished", t, k)
    /\ UNCHANGED <<projection, busy, ghosts>>

\* The Stop hook of the root turn; subagents may still be open.
CodexStop(t) ==
    /\ Reports(t) /\ working[t]
    /\ working' = [working EXCEPT ![t] = FALSE]
    /\ UNCHANGED <<running, turn, open>>
    /\ Emit("root_stop", t, None)
    /\ UNCHANGED <<projection, busy, ghosts>>

CodexExits(i) ==
    /\ running[i]
    /\ LateEvents \/ \A n \in 1 .. Len(inflight) : InstanceOf[inflight[n].task] # i
    /\ running' = [running EXCEPT ![i] = FALSE]
    /\ working' = [t \in Tasks |-> working[t] /\ InstanceOf[t] # i]
    /\ open' = [t \in Tasks |-> IF InstanceOf[t] = i THEN NoActivity ELSE open[t]]
    /\ UNCHANGED <<projection, busy, turn, inflight, ghosts>>

Without(n) == SubSeq(inflight, 1, n - 1) \o SubSeq(inflight, n + 1, Len(inflight))

\* A hook gives up: its host budget ran out or the controller was not reached.
EventLost(n) ==
    /\ ~Ordered
    /\ n \in 1 .. Len(inflight)
    /\ inflight' = Without(n)
    /\ UNCHANGED <<projection, busy, codex, ghosts>>

-----------------------------------------------------------------------------
(* CodexLifecycle *)

\* observe_instance: an exited instance is not revived.
ObserveInstance(i) ==
    IF instance[i] = "exited" THEN instance ELSE [instance EXCEPT ![i] = "active"]

\* session_started_with_owner
SessionStarted(t) == IF task[t] = None THEN NewTask ELSE task[t]

FinishIfQuiet(s) ==
    IF s.root_stop_observed /\ s.activity = NoActivity
    THEN [s EXCEPT !.work_active = FALSE] ELSE s

SaturatingAdd(n) == IF n = CounterMax THEN n ELSE n + 1

\* Faulty variant of AfterEvent: a prompt does not take back the last stop.
AfterEventStopStays(s, e) ==
    CASE e.event = "user_prompt_submit" -> [s EXCEPT !.work_active = TRUE]
      [] e.event = "root_stop" -> FinishIfQuiet([s EXCEPT !.root_stop_observed = TRUE])
      [] e.event = "started" ->
           [s EXCEPT !.activity[e.activity] = SaturatingAdd(@), !.work_active = TRUE]
      [] e.event = "finished" /\ s.activity[e.activity] > 0 ->
           FinishIfQuiet([s EXCEPT !.activity[e.activity] = @ - 1])
      [] OTHER -> s

\* user_prompt_submitted, root_stop, increment and decrement, each after
\* session_started.
AfterEvent(s, e) ==
    CASE e.event = "user_prompt_submit" ->
           [s EXCEPT !.root_stop_observed = FALSE, !.work_active = TRUE]
      [] e.event = "root_stop" -> FinishIfQuiet([s EXCEPT !.root_stop_observed = TRUE])
      [] e.event = "started" ->
           [s EXCEPT !.activity[e.activity] = SaturatingAdd(@), !.work_active = TRUE]
      [] e.event = "finished" /\ s.activity[e.activity] > 0 ->
           FinishIfQuiet([s EXCEPT !.activity[e.activity] = @ - 1])
      [] OTHER -> s

\* decrement refuses to go below zero, and the handler refuses the event.
Accepted(s, e) == e.event = "finished" => s.activity[e.activity] > 0

\* Faulty variant of InstanceExited: the tasks of the instance are forgotten.
InstanceExitedAlone(gone, t) == task[t]

\* instance_exited, for the tasks of the instances that are gone.
InstanceExited(gone, t) ==
    IF task[t] # None /\ InstanceOf[t] \in gone
    THEN [root_stop_observed |-> TRUE, activity |-> NoActivity, work_active |-> FALSE]
    ELSE task[t]

Since(age) == IF age = None THEN 0 ELSE age

Working(tasks) == \E t \in Tasks : tasks[t] # None /\ tasks[t].work_active

AllExited(instances) == \A i \in Instances : instances[i] \in {None, "exited"}

\* Faulty variant of Decide: the lease ends one tick early.
DecideEarly(tasks, instances, age) ==
    IF Working(tasks) THEN [verdict |-> "keep_alive", idle |-> None]
    ELSE IF AllExited(instances) THEN [verdict |-> "shutdown_now", idle |-> None]
    ELSE [verdict |-> IF Since(age) + 1 >= Grace THEN "shutdown_now" ELSE "idle_until",
          idle |-> Since(age)]

\* decision: stay while a task works; go at once when every instance is gone;
\* otherwise start the lease, or go when it is over.
Decide(tasks, instances, age) ==
    IF Working(tasks) THEN [verdict |-> "keep_alive", idle |-> None]
    ELSE IF AllExited(instances) THEN [verdict |-> "shutdown_now", idle |-> None]
    ELSE [verdict |-> IF Since(age) >= Grace THEN "shutdown_now" ELSE "idle_until",
          idle |-> Since(age)]

\* management_idle_shutdown_allowed: a further grace after the last work that
\* was seen; then the controller shuts down (ToolDispatch has the shutdown).
Manage(verdict) ==
    IF busy THEN quiet' = None /\ UNCHANGED up
    ELSE /\ quiet' = Since(quiet)
         /\ up' = ~(verdict = "shutdown_now" /\ Since(quiet) >= Grace)

Calm(tasks) == calm' = IF Working(tasks) THEN 0 ELSE calm

\* lifecycle.observe: the event is applied, then the decision is taken (twice
\* at the same instant, which changes nothing) and, if the event was accepted,
\* shutdown is considered.  An mcp_initialized only observes the instance.
Observe(n) ==
    LET e == inflight[n]
        s == SessionStarted(e.task)
        tasks == IF e.event = "mcp_initialized" THEN task
                 ELSE [task EXCEPT ![e.task] = AfterEvent(s, e)]
        instances == ObserveInstance(InstanceOf[e.task])
        d == Decide(tasks, instances, idle)
    IN  /\ up
        /\ n \in 1 .. Len(inflight)
        /\ Ordered => n = 1
        /\ inflight' = Without(n)
        /\ task' = tasks
        /\ instance' = instances
        /\ idle' = d.idle
        /\ IF Accepted(s, e) THEN Manage(d.verdict) ELSE UNCHANGED <<quiet, up>>
        /\ seen' = IF e.event = "user_prompt_submit"
                   THEN [seen EXCEPT ![e.task] = e.turn] ELSE seen
        /\ Calm(tasks)
        /\ UNCHANGED <<busy, codex>>

\* The tick: owners missing from the process snapshot have exited.  Without a
\* snapshot the tick only decides, and so does an mcp_eof.
LifecycleTick(snapshot) ==
    LET gone == {i \in Owned : snapshot /\ instance[i] = "active" /\ ~running[i]}
        tasks == [t \in Tasks |-> InstanceExited(gone, t)]
        instances == [i \in Instances |-> IF i \in gone THEN "exited" ELSE instance[i]]
        d == Decide(tasks, instances, idle)
    IN  /\ up
        /\ task' = tasks
        /\ instance' = instances
        /\ idle' = d.idle
        /\ Manage(d.verdict)
        /\ Calm(tasks)
        /\ UNCHANGED <<busy, codex, inflight, seen>>

TimePasses ==
    /\ idle' = Older(idle)
    /\ quiet' = Older(quiet)
    /\ calm' = IF Working(task) THEN 0 ELSE Older(calm)
    /\ UNCHANGED <<instance, task, up, busy, codex, inflight, seen>>

\* Operations and management work of other clients come and go.
BusyBegins == up /\ ~busy /\ busy' = TRUE
              /\ UNCHANGED <<projection, codex, inflight, ghosts>>
BusyEnds == up /\ busy /\ busy' = FALSE
            /\ UNCHANGED <<projection, codex, inflight, ghosts>>

\* A hook or gateway that finds no controller starts one.
ControllerStarts ==
    /\ ~up /\ inflight # <<>>
    /\ up' = TRUE
    /\ instance' = Nothing /\ task' = Nobody
    /\ idle' = None /\ quiet' = None
    /\ busy' = TRUE
    /\ seen' = [t \in Tasks |-> 0]
    /\ calm' = Grace
    /\ UNCHANGED <<codex, inflight>>

-----------------------------------------------------------------------------
Next ==
    \/ \E t \in Tasks :
          \/ \E event \in {"session_start", "mcp_initialized"} : CodexHeartbeat(t, event)
          \/ CodexPrompt(t)
          \/ CodexStop(t)
          \/ \E k \in Activities : CodexStarts(t, k) \/ CodexFinishes(t, k)
    \/ \E i \in Instances : CodexExits(i)
    \/ \E n \in 1 .. MaxInFlight : EventLost(n) \/ Observe(n)
    \/ \E snapshot \in BOOLEAN : LifecycleTick(snapshot)
    \/ TimePasses
    \/ BusyBegins
    \/ BusyEnds
    \/ ControllerStarts

Spec == Init /\ [][Next]_vars

(***************************************************************************)
(* Fairness: the interval timer ticks and the process snapshot succeeds    *)
(* again and again, the clock advances, the loop answers hooks that wait,  *)
(* a hook that finds no controller starts one, and work that has begun     *)
(* ends.  Nothing makes Codex do or stop anything.                         *)
(***************************************************************************)
Fairness ==
    /\ WF_vars(LifecycleTick(TRUE))
    /\ WF_vars(TimePasses)
    /\ WF_vars(\E n \in 1 .. MaxInFlight : Observe(n))
    /\ WF_vars(ControllerStarts)
    /\ WF_vars(BusyEnds)

FairSpec == Spec /\ Fairness

-----------------------------------------------------------------------------
(* Properties *)

TaskSnapshots == [root_stop_observed : BOOLEAN, activity : [Activities -> 0 .. CounterMax],
                  work_active : BOOLEAN]

\* Every variable has its type, and a task that is not active has no open
\* activity: an idle controller never counts a tool or subagent as running.
TypeOK ==
    /\ instance \in [Instances -> {"active", "exited", None}]
    /\ task \in [Tasks -> TaskSnapshots \cup {None}]
    /\ {idle, quiet} \subseteq Ages \cup {None}
    /\ {busy, up} \subseteq BOOLEAN
    /\ \A t \in Tasks : task[t] # None /\ ~task[t].work_active => task[t].activity = NoActivity

\* A turn under way that the controller has been told of.
KnownTurn(t) == working[t] /\ seen[t] = turn[t]

\* The controller never shuts down while a turn is under way that it has been
\* told of: not when tools finish, not when the lease of an earlier pause is
\* still running, and not when another instance exits.
TurnKeepsControllerAlive == [][up /\ ~up' => \A t \in Tasks : ~KnownTurn(t)]_vars

\* With a Codex instance still there, shutdown comes only after the full
\* grace without any active task: a pause between turns cannot end it early.
LeaseIsFull ==
    [][up /\ ~up' /\ ~AllExited(instance') => calm >= Grace]_vars

NobodyRuns == \A i \in Instances : ~running[i]

\* When every Codex process is gone and no other client has work, the
\* controller stops: no task left over from a process that was killed holds
\* it alive.
CodexGoneStopsController == <>[]~busy => (NobodyRuns ~> ~up)
=============================================================================
