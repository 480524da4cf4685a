----------------------------- MODULE ProcessRuntime -----------------------------
(***************************************************************************)
(* One call of execute_blocking, the Windows launcher every external tool  *)
(* goes through (apps/star-controller/src/process_runtime): the launching  *)
(* thread, the threads that feed stdin and drain stdout and stderr, the    *)
(* child process and a descendant of it, the operation's Job Object, and   *)
(* the clocks and the cancellation flag the launcher polls.                *)
(*                                                                         *)
(* Time is the set of moments that have passed: the process timeout, the   *)
(* grace after a trigger, the grace after the final frame.  Bytes are left *)
(* out: a stream is open or drained, and it did or did not pass its limit. *)
(***************************************************************************)
EXTENDS Naturals, FiniteSets

CONSTANTS Inherits,   \* a descendant may inherit the pipe ends of the child
          Forks       \* the child may start a descendant

ASSUME RuntimeAssumption == {Inherits, Forks} \subseteq BOOLEAN

VARIABLES mode,       \* the cancel plan of the call and whether it feeds stdin
          pc,         \* where the launching thread is
          tree,       \* the child and its descendant
          job,        \* the processes in the Job Object
          holders,    \* processes that hold the child ends of the pipes
          cancelled,  \* RuntimeCancellation.requested
          passed,     \* moments that have passed
          trigger,    \* cancel_trigger: 0 none, 1 user, 2 deadline
          kind,       \* termination_kind
          stdin,      \* the thread that feeds stdin
          drains,     \* streams whose drain thread still reads
          exceeded,   \* a stream passed its limit
          final,      \* the drain thread saw a result frame
          evidence,   \* what the observers recorded durably
          forced,     \* the launcher terminated the Job
          result      \* what the call returned

world == <<tree, job, holders>>
threads == <<stdin, drains, exceeded, final>>
clock == <<cancelled, passed>>
books == <<trigger, kind, evidence, forced, result>>
vars == <<mode, pc, world, clock, threads, books>>

Procs == {"child", "descendant"}
Streams == {"stdout", "stderr"}
Moments == {"timeout", "grace", "final_grace"}

\* The plans the callers build: no plan; a plain process, with a grace only; a probe,
\* with the grace after the final frame; a JSON-STDIO action, with cancel frames too.
\* `input` says whether stdin has bytes to write.
Modes ==
    [plan : {FALSE}, frames : {FALSE}, final : {FALSE}, input : BOOLEAN]
    \cup [plan : {TRUE}, frames : {FALSE}, final : BOOLEAN, input : BOOLEAN]
    \cup [plan : {TRUE}, frames : {TRUE}, final : {TRUE}, input : {TRUE}]

\* The locations of the launching thread, in the order of the function.
Locations == {"enter", "created", "matched", "assigned", "observed", "ready",
              "wait", "look", "abort", "join", "report", "returned", "crashed"}
Results == {"none", "Ok", "Start", "Cancelled", "Timeout", "ProtocolInvalid", "OutputLimit"}

\* The keys and values of the state.
TypeOK ==
    /\ mode \in Modes /\ pc \in Locations
    /\ tree \in [Procs -> {"none", "suspended", "running", "gone"}]
    /\ job \subseteq Procs /\ holders \subseteq Procs
    /\ cancelled \in BOOLEAN /\ passed \subseteq Moments
    /\ trigger \in 0 .. 2 /\ kind \in 0 .. 3
    /\ stdin \in {"none", "writing", "watching", "framing", "ended", "failed"}
    /\ drains \subseteq Streams
    /\ {exceeded, final, forced} \subseteq BOOLEAN
    /\ evidence \in {"none", "started", "finished"}
    /\ result \in Results

Init ==
    /\ mode \in Modes /\ pc = "enter"
    /\ tree = [p \in Procs |-> "none"] /\ job = {} /\ holders = {}
    /\ cancelled = FALSE /\ passed = {}
    /\ trigger = 0 /\ kind = 0
    /\ stdin = "none" /\ drains = {} /\ exceeded = FALSE /\ final = FALSE
    /\ evidence = "none" /\ forced = FALSE /\ result = "none"

Live(p) == tree[p] \in {"suspended", "running"}

\* TerminateProcess, TerminateJobObject, the close of the last Job handle: the live
\* processes of the set end and give up their pipe ends.
Killed(set) ==
    /\ tree' = [p \in Procs |-> IF p \in set /\ Live(p) THEN "gone" ELSE tree[p]]
    /\ holders' = holders \ set
    /\ UNCHANGED job

\* The call returns; dropping OperationJob closes the Job and kills what is left in it.
Return(answer) ==
    /\ pc' = "returned" /\ result' = answer
    /\ Killed(job)

-----------------------------------------------------------------------------
\* The launching thread.

\* A call that is cancelled before it begins starts nothing.
EnterCancelled ==
    /\ pc = "enter" /\ cancelled
    /\ Return("Cancelled")
    /\ UNCHANGED <<mode, clock, threads, trigger, kind, evidence, forced>>

\* Job, pipes, attribute list and a suspended child; the launcher closes its copies of
\* the child ends.
Create ==
    /\ pc = "enter" /\ ~cancelled
    /\ pc' = "created"
    /\ tree' = [tree EXCEPT !["child"] = "suspended"] /\ holders' = {"child"}
    /\ UNCHANGED <<mode, job, clock, threads, books>>

\* One of the calls before or in CreateProcessW failed, and its handles were closed.
CreateFails ==
    /\ pc = "enter" /\ ~cancelled
    /\ Return("Start")
    /\ UNCHANGED <<mode, clock, threads, trigger, kind, evidence, forced>>

\* The image of the created process is the executable that was asked for, or it ends.
MatchImage ==
    /\ pc = "created"
    /\ \/ /\ pc' = "matched" /\ UNCHANGED <<world, result>>
       \/ pc' = "returned" /\ result' = "Start" /\ Killed({"child"})
    /\ UNCHANGED <<mode, clock, threads, trigger, kind, evidence, forced>>

\* Faulty variant of Assign: a failed assignment is ignored and the launch goes on.
AssignOrGoOn ==
    /\ pc = "matched"
    /\ pc' = "assigned"
    /\ job' \in {job, job \cup {"child"}}
    /\ UNCHANGED <<mode, tree, holders, clock, threads, books>>

\* The suspended child enters the Job, or it ends.
Assign ==
    /\ pc = "matched"
    /\ \/ /\ pc' = "assigned" /\ job' = job \cup {"child"}
          /\ UNCHANGED <<tree, holders, result>>
       \/ pc' = "returned" /\ result' = "Start" /\ Killed({"child"})
    /\ UNCHANGED <<mode, clock, threads, trigger, kind, evidence, forced>>

\* The start observer records the process durably, or the Job is terminated.
ObserveStart ==
    /\ pc = "assigned"
    /\ \/ /\ pc' = "observed" /\ evidence' = "started"
          /\ UNCHANGED <<world, forced, result>>
       \/ /\ Return("Start") /\ forced' = TRUE
          /\ UNCHANGED evidence
    /\ UNCHANGED <<mode, clock, threads, trigger, kind>>

\* The three threads, before the child may run.
SpawnThreads ==
    /\ pc = "observed"
    /\ pc' = "ready" /\ stdin' = "writing" /\ drains' = Streams
    /\ UNCHANGED <<mode, world, clock, exceeded, final, books>>

\* ResumeThread; when it fails the child ends and the threads are joined.
Resume ==
    /\ pc = "ready"
    /\ \/ /\ pc' = "wait" /\ tree' = [tree EXCEPT !["child"] = "running"]
          /\ UNCHANGED <<job, holders>>
       \/ pc' = "abort" /\ Killed({"child"})
    /\ UNCHANGED <<mode, clock, threads, books>>

\* Faulty variant of Wait: an exit after a cancel frame counts as an ordinary exit.
WaitForgetsTrigger ==
    /\ pc = "wait"
    /\ \/ tree["child"] = "gone" /\ pc' = "join" /\ kind' = 0
       \/ tree["child"] = "running" /\ pc' = "look" /\ UNCHANGED kind
    /\ UNCHANGED <<mode, world, clock, threads, trigger, evidence, forced, result>>

\* WaitForSingleObject for 25 ms: the child has ended, or the launcher looks around.
Wait ==
    /\ pc = "wait"
    /\ \/ tree["child"] = "gone" /\ pc' = "join" /\ kind' = trigger
       \/ tree["child"] = "running" /\ pc' = "look" /\ UNCHANGED kind
    /\ UNCHANGED <<mode, world, clock, threads, trigger, evidence, forced, result>>

\* job.terminate and the wait for the child; a terminate that fails returns by `?`.
Terminate(k) ==
    /\ forced' = TRUE
    /\ \/ pc' = "join" /\ kind' = k /\ Killed(job) /\ UNCHANGED result
       \/ Return("Start") /\ UNCHANGED kind

\* With a plan, a result frame was seen and its grace is over.
FinalGraceOver == mode.final /\ final /\ "final_grace" \in passed

\* What the flag and the clock ask for now; the flag goes first.
Asked == IF cancelled THEN 1 ELSE IF "timeout" \in passed THEN 2 ELSE 0

\* Faulty variant of LookWithPlan: the grace of a trigger is never enforced.
LookWithoutForce ==
    /\ pc = "look" /\ mode.plan /\ ~FinalGraceOver
    /\ trigger' = IF trigger = 0 THEN Asked ELSE trigger
    /\ pc' = "wait"
    /\ UNCHANGED <<mode, world, clock, threads, kind, evidence, forced, result>>

\* The loop body with a plan: the first trigger stays, and its grace ends in the Job's
\* termination.
LookWithPlan ==
    /\ pc = "look" /\ mode.plan /\ ~FinalGraceOver
    /\ trigger' = IF trigger = 0 THEN Asked ELSE trigger
    /\ IF trigger # 0 /\ "grace" \in passed
       THEN Terminate(trigger)
       ELSE pc' = "wait" /\ UNCHANGED <<world, kind, forced, result>>
    /\ UNCHANGED <<mode, clock, threads, evidence>>

\* The loop body after the final frame's grace.
LookAfterFinal ==
    /\ pc = "look" /\ mode.plan /\ FinalGraceOver
    /\ Terminate(3)
    /\ UNCHANGED <<mode, clock, threads, trigger, evidence>>

\* The loop body without a plan.
LookWithoutPlan ==
    /\ pc = "look" /\ ~mode.plan
    /\ IF Asked = 0
       THEN pc' = "wait" /\ UNCHANGED <<world, kind, forced, result>>
       ELSE Terminate(Asked)
    /\ UNCHANGED <<mode, clock, threads, trigger, evidence>>

ThreadsEnded == stdin \in {"ended", "failed"} /\ drains = {}

\* process_done is set on entering "join" or "abort"; the three joins have no deadline.
Join ==
    /\ pc = "join" /\ ThreadsEnded
    /\ pc' = "report"
    /\ UNCHANGED <<mode, world, clock, threads, books>>

JoinAborted ==
    /\ pc = "abort" /\ ThreadsEnded
    /\ Return("Start")
    /\ UNCHANGED <<mode, clock, threads, trigger, kind, evidence, forced>>

\* What the call answers once the end is on record.
Verdict ==
    CASE kind = 2 -> "Timeout"
      [] kind = 1 -> "Cancelled"
      [] kind = 3 -> "ProtocolInvalid"
      [] kind = 0 /\ stdin = "failed" -> "Start"
      [] kind = 0 /\ stdin # "failed" /\ exceeded -> "OutputLimit"
      [] kind = 0 /\ stdin # "failed" /\ ~exceeded -> "Ok"

\* The end observer records the end, or its failure is the answer.
Report ==
    /\ pc = "report"
    /\ \/ evidence' = "finished" /\ Return(Verdict)
       \/ UNCHANGED evidence /\ Return("Start")
    /\ UNCHANGED <<mode, clock, threads, trigger, kind, forced>>

Launcher ==
    \/ EnterCancelled \/ Create \/ CreateFails \/ MatchImage \/ Assign \/ ObserveStart
    \/ SpawnThreads \/ Resume \/ Wait \/ LookWithPlan \/ LookAfterFinal
    \/ LookWithoutPlan \/ Join \/ JoinAborted \/ Report

-----------------------------------------------------------------------------
\* The threads.  After "returned" they may still run, detached.

ProcessDone == pc \in {"join", "abort", "report", "returned"}

FeedsRest == UNCHANGED <<mode, pc, world, clock, drains, exceeded, final, books>>

\* write_all of the input, then flush: the child may read, or it is all buffered.
StdinWritten ==
    /\ stdin = "writing"
    /\ mode.input => holders # {}
    /\ stdin' = IF mode.plan THEN "watching" ELSE "ended"
    /\ FeedsRest

\* The reading end of stdin is gone.
StdinBroken ==
    /\ holders = {}
    /\ stdin = "framing" \/ (stdin = "writing" /\ mode.input)
    /\ stdin' = "failed"
    /\ FeedsRest

\* The thread watches the trigger every 5 ms until the process is done; a trigger
\* without a frame ends it.
StdinWatches ==
    /\ stdin = "watching"
    /\ ProcessDone \/ trigger # 0
    /\ stdin' \in (IF ProcessDone THEN {"ended"} ELSE {})
                  \cup (IF trigger # 0 /\ mode.frames THEN {"framing"} ELSE {})
                  \cup (IF trigger # 0 /\ ~mode.frames THEN {"ended"} ELSE {})
    /\ FeedsRest

\* The cancel frame is written.
FrameWritten ==
    /\ stdin = "framing" /\ holders # {}
    /\ stdin' = "ended"
    /\ FeedsRest

\* A drain thread reads the end of its stream: nobody holds the writing end.
DrainEnds(s) ==
    /\ s \in drains /\ holders = {}
    /\ drains' = drains \ {s}
    /\ UNCHANGED <<mode, pc, world, clock, stdin, exceeded, final, books>>

\* A read fails: the thread ends as at the end of the stream, and nobody is told.
DrainFails(s) ==
    /\ s \in drains
    /\ drains' = drains \ {s}
    /\ UNCHANGED <<mode, pc, world, clock, stdin, exceeded, final, books>>

\* A drain thread reads past the limit of its stream, and goes on reading.
DrainExceeds(s) ==
    /\ s \in drains /\ \E p \in holders : tree[p] = "running"
    /\ exceeded' = TRUE
    /\ UNCHANGED <<mode, pc, world, clock, stdin, drains, final, books>>

\* The stdout thread reads a result frame and sends its time.
DrainSeesFinal ==
    /\ "stdout" \in drains /\ mode.final /\ \E p \in holders : tree[p] = "running"
    /\ final' = TRUE
    /\ UNCHANGED <<mode, pc, world, clock, stdin, drains, exceeded, books>>

Threads ==
    \/ StdinWritten \/ StdinBroken \/ StdinWatches \/ FrameWritten
    \/ \E s \in Streams : DrainEnds(s) \/ DrainFails(s) \/ DrainExceeds(s)
    \/ DrainSeesFinal

-----------------------------------------------------------------------------
\* The processes, the caller and the clocks.

\* A descendant starts: inside the Job its parent is in, with or without the pipe ends.
Fork ==
    /\ Forks /\ tree["child"] = "running" /\ tree["descendant"] = "none"
    /\ tree' = [tree EXCEPT !["descendant"] = "running"]
    /\ job' = IF "child" \in job THEN job \cup {"descendant"} ELSE job
    /\ holders' \in {holders} \cup (IF Inherits THEN {holders \cup {"descendant"}} ELSE {})
    /\ UNCHANGED <<mode, pc, clock, threads, books>>

Exit(p) ==
    /\ tree[p] = "running"
    /\ tree' = [tree EXCEPT ![p] = "gone"] /\ holders' = holders \ {p}
    /\ UNCHANGED <<mode, pc, job, clock, threads, books>>

\* RuntimeCancellation::cancel.
Cancel ==
    /\ pc \notin {"returned", "crashed"} /\ ~cancelled
    /\ cancelled' = TRUE
    /\ UNCHANGED <<mode, pc, world, passed, threads, books>>

\* The timeout counts from ResumeThread, a grace from the trigger or the final frame.
Started == pc \in {"wait", "look", "join", "report"}

Passes(m) ==
    /\ m \notin passed /\ Started
    /\ m = "grace" => trigger # 0
    /\ m = "final_grace" => final
    /\ passed' = passed \cup {m}
    /\ UNCHANGED <<mode, pc, world, cancelled, threads, books>>

\* The controller dies: its threads with it, and its Job handle closes.
Crash ==
    /\ pc \notin {"returned", "crashed"}
    /\ pc' = "crashed"
    /\ Killed(job)
    /\ stdin' = "ended" /\ drains' = {}
    /\ UNCHANGED <<mode, clock, exceeded, final, books>>

World ==
    \/ Fork \/ Cancel \/ Crash
    \/ \E p \in Procs : Exit(p)
    \/ \E m \in Moments : Passes(m)

Next == Launcher \/ Threads \/ World

Spec == Init /\ [][Next]_vars

(***************************************************************************)
(* The launching thread and the drain threads run, broken pipes are        *)
(* noticed, the stdin thread watches and time passes.  Nothing makes a     *)
(* process read its input, end, or close its pipes.                        *)
(***************************************************************************)
FairSpec ==
    /\ Spec
    /\ WF_vars(Launcher)
    /\ WF_vars(StdinBroken) /\ WF_vars(StdinWatches)
    /\ WF_vars(StdinWritten /\ ~mode.input)
    /\ \A s \in Streams : WF_vars(DrainEnds(s))
    /\ \A m \in Moments : WF_vars(Passes(m))

-----------------------------------------------------------------------------
(***************************************************************************)
(* No process runs outside the Job, and none runs once the call has        *)
(* returned or the controller has died, whatever failed on the way.  Only  *)
(* a controller that dies between CreateProcessW and AssignProcess-        *)
(* ToJobObject leaves a process behind, and that one never resumes.        *)
(***************************************************************************)
TreeIsContained ==
    /\ \A p \in Procs : tree[p] = "running" => p \in job /\ evidence # "none"
    /\ pc = "returned" => \A p \in Procs : ~Live(p)
    /\ pc = "crashed" => \A p \in Procs : Live(p) => tree[p] = "suspended" /\ p \notin job

(***************************************************************************)
(* A call answers success only when the child ended by itself, no cancel   *)
(* or deadline had been acted upon, both streams were read until they      *)
(* ended or failed, within their limits, and the end is on record; and a   *)
(* timeout or a cancellation it reports did happen.                        *)
(***************************************************************************)
SuccessIsWhole ==
    /\ result = "Ok" =>
          /\ ~forced /\ trigger = 0 /\ ~exceeded /\ drains = {}
          /\ stdin = "ended" /\ evidence = "finished"
    /\ result = "Timeout" => "timeout" \in passed
    /\ result = "Cancelled" => cancelled

(***************************************************************************)
(* A started process does not hold its call for ever: it ends, is          *)
(* cancelled or runs out of time, and the call returns, although the       *)
(* process may neither read its input nor react to a cancel frame.         *)
(***************************************************************************)
Returns == (pc = "wait") ~> (pc \in {"returned", "crashed"})

(***************************************************************************)
(* Cancelling a started call ends its whole process tree.  What the        *)
(* contract of operation_cancel promises; a descendant that holds stdout   *)
(* after the child's exit refutes it.                                      *)
(***************************************************************************)
CancelEndsTree ==
    (Started /\ cancelled) ~> (\A p \in Procs : ~Live(p))
=============================================================================
