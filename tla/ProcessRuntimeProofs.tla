-------------------------- MODULE ProcessRuntimeProofs --------------------------
(***************************************************************************)
(* Proofs about ProcessRuntime: whatever the child, its descendant, the    *)
(* caller, the clocks and the failing calls do, no process runs outside    *)
(* the Job or outlives the call, and the answer of the call is true.       *)
(*                                                                         *)
(* Neither property is inductive.  Containment needs to know what exists   *)
(* at each location of the launching thread (Stages); the truth of the     *)
(* answer needs to know where the launcher's books come from (Reasons)     *)
(* and that the threads are over before the verdict is given (Answers).    *)
(***************************************************************************)
EXTENDS ProcessRuntime, TLAPS

-----------------------------------------------------------------------------
\* The locations before the child is in the Job, with the child or without it.
Outside == {"created", "matched"}
Suspended == {"created", "matched", "assigned", "observed", "ready"}

\* What exists at each location.  A descendant is only ever started by a running
\* child, and the child runs only once it is in the Job and on record.
Stages ==
    /\ pc = "enter" => tree = [p \in Procs |-> "none"] /\ job = {}
    /\ pc \in Suspended => tree["child"] = "suspended" /\ tree["descendant"] = "none"
    /\ pc \in Outside => job = {}
    /\ pc \in {"assigned", "observed", "ready"} => job = {"child"}
    /\ pc \in {"observed", "ready"} => evidence # "none"
    /\ pc \in {"wait", "look", "join", "abort", "report"} =>
          /\ \A p \in Procs : Live(p) => p \in job /\ tree[p] = "running"
          /\ "child" \in job /\ tree["child"] # "none" /\ evidence # "none"
    /\ pc \in {"abort", "join", "report"} => tree["child"] = "gone"
    /\ pc = "abort" => tree["descendant"] = "none"

\* The launcher's books: a trigger or a kind of termination names what happened, and an
\* ordinary exit is one nobody asked for.
Reasons ==
    /\ trigger = 1 => cancelled
    /\ trigger = 2 => "timeout" \in passed
    /\ kind = 1 => cancelled
    /\ kind = 2 => "timeout" \in passed
    /\ forced => pc \in {"join", "report", "returned", "crashed"}
    /\ pc \in {"join", "report"} /\ kind = 0 => ~forced /\ trigger = 0

\* The call has answered only where it has returned, and it reports after its threads.
Answers ==
    /\ result # "none" => pc = "returned"
    /\ pc = "report" => ThreadsEnded

\* The inductive invariant.
Inv == TypeOK /\ TreeIsContained /\ Stages /\ Reasons /\ Answers /\ SuccessIsWhole

-----------------------------------------------------------------------------
LEMMA InitInv == Init => Inv
<1> SUFFICES ASSUME Init PROVE Inv
  OBVIOUS
<1>1. TypeOK
  <2>1. {exceeded, final, forced} \subseteq BOOLEAN
    BY Zenon DEF Init
  <2>2. cancelled \in BOOLEAN
    BY Zenon DEF Init
  <2> QED BY <2>1, <2>2 DEF Init, TypeOK, Locations, Procs, Results
<1>2. TreeIsContained /\ Stages
  BY DEF Init, TreeIsContained, Stages, Suspended, Outside, Procs, Live
<1>3. Reasons /\ Answers /\ SuccessIsWhole
  BY DEF Init, Reasons, Answers, SuccessIsWhole, ThreadsEnded
<1> QED BY <1>1, <1>2, <1>3 DEF Inv

(***************************************************************************)
(* What the shared parts of the steps do.                                  *)
(***************************************************************************)

\* Killing a set of processes ends those of it that live and starts none.
LEMMA KilledDoes ==
    ASSUME TypeOK, NEW set \in SUBSET Procs, Killed(set)
    PROVE  /\ tree' \in [Procs -> {"none", "suspended", "running", "gone"}]
           /\ job' = job /\ holders' \subseteq Procs
           /\ \A p \in Procs : p \in set => ~Live(p)'
           /\ \A p \in Procs : p \notin set => tree'[p] = tree[p]
           /\ \A p \in Procs : tree'[p] \in {tree[p], "gone"}
           /\ \A p \in Procs : p \in set /\ Live(p) => tree'[p] = "gone"
           /\ \A p \in Procs : ~Live(p) => tree'[p] = tree[p]
  BY DEF Killed, TypeOK, Live

\* Every process that lives after the start is in the Job: its end is their end.
LEMMA JobKilled ==
    ASSUME Inv, pc \in {"assigned", "wait", "look", "join", "abort", "report"}, Killed(job)
    PROVE  \A p \in Procs : ~Live(p)' /\ tree'[p] \in {"none", "gone"}
<1>1. TypeOK /\ job \subseteq Procs
  BY DEF Inv, TypeOK
<1>2. \A p \in Procs : tree'[p] \in {tree[p], "gone"} /\ (p \in job => ~Live(p)')
                       /\ (~Live(p) => tree'[p] = tree[p])
  BY <1>1, KilledDoes
<1>3. \A p \in Procs : Live(p) => p \in job
  BY DEF Inv, Stages, Suspended, Procs, Live
<1> QED BY <1>1, <1>2, <1>3 DEF Live, TypeOK

\* The call returns, or its controller dies, with all of its processes gone.
LEMMA EndsContained ==
    ASSUME Inv, \A p \in Procs : ~Live(p)', pc' \in {"returned", "crashed"}
    PROVE  (TreeIsContained /\ Stages)'
  BY DEF TreeIsContained, Stages, Suspended, Outside, Procs, Live

\* The Job is terminated from within the loop: the launcher goes on to its joins, or
\* the call returns.
LEMMA TerminateContains ==
    ASSUME Inv, pc = "look", NEW k, Terminate(k), evidence' = evidence
    PROVE  (TreeIsContained /\ Stages)'
<1>1. Killed(job)
  BY DEF Terminate, Return
<1>2. \A p \in Procs : ~Live(p)' /\ tree'[p] \in {"none", "gone"}
  BY <1>1, JobKilled
<1>3. CASE pc' = "returned"
  BY <1>2, <1>3, EndsContained
<1>4. CASE pc' = "join"
  <2>1. tree["child"] # "none" /\ "child" \in job /\ evidence # "none" /\ job \subseteq Procs
    BY DEF Inv, Stages, TypeOK
  <2>2. tree'["child"] = "gone" /\ job' = job
    BY <1>1, <1>2, <2>1, KilledDoes DEF Inv, Procs
  <2> QED BY <1>2, <1>4, <2>1, <2>2 DEF TreeIsContained, Stages, Suspended, Outside, Procs, Live
<1> QED BY <1>3, <1>4 DEF Terminate, Return

LEMMA TerminateTypes ==
    ASSUME TypeOK, NEW k \in 0 .. 3, Terminate(k)
    PROVE  /\ tree' \in [Procs -> {"none", "suspended", "running", "gone"}]
           /\ job' \subseteq Procs /\ holders' \subseteq Procs
           /\ pc' \in Locations /\ kind' \in 0 .. 3 /\ result' \in Results
<1>1. Killed(job) /\ job \in SUBSET Procs
  BY DEF Terminate, Return, TypeOK
<1>2. /\ tree' \in [Procs -> {"none", "suspended", "running", "gone"}]
      /\ job' \subseteq Procs /\ holders' \subseteq Procs
  BY <1>1, KilledDoes
<1> QED BY <1>2 DEF Terminate, Return, TypeOK, Locations, Results

\* What a verdict says of the books it is read from.
LEMMA VerdictMeans ==
    ASSUME TypeOK
    PROVE  /\ Verdict = "Ok" => kind = 0 /\ stdin # "failed" /\ ~exceeded
           /\ Verdict = "Timeout" => kind = 2
           /\ Verdict = "Cancelled" => kind = 1
           /\ Verdict \in Results \ {"none"}
<1>1. kind \in {0, 1, 2, 3} /\ exceeded \in BOOLEAN
  BY DEF TypeOK
<1>2. CASE kind = 0 /\ stdin = "failed"
  BY <1>2 DEF Verdict, Results
<1>3. CASE kind = 0 /\ stdin # "failed" /\ exceeded
  BY <1>3 DEF Verdict, Results
<1>4. CASE kind = 0 /\ stdin # "failed" /\ ~exceeded
  BY <1>4 DEF Verdict, Results
<1>5. CASE kind = 1
  BY <1>5 DEF Verdict, Results
<1>6. CASE kind = 2
  BY <1>6 DEF Verdict, Results
<1>7. CASE kind = 3
  BY <1>7 DEF Verdict, Results
<1> QED BY <1>1, <1>2, <1>3, <1>4, <1>5, <1>6, <1>7

(***************************************************************************)
(* Every step preserves the parts of the invariant.                        *)
(***************************************************************************)
LEMMA TypeStep == ASSUME Inv, [Next]_vars PROVE TypeOK'
<1> USE DEF world, threads, clock, books, TypeOK, Locations, Procs, Results, Streams
<1>1. CASE EnterCancelled
  BY <1>1, KilledDoes DEF Inv, EnterCancelled, Return
<1>2. CASE Create
  BY <1>2 DEF Inv, Create
<1>3. CASE CreateFails
  BY <1>3, KilledDoes DEF Inv, CreateFails, Return
<1>4. CASE MatchImage
  BY <1>4, KilledDoes DEF Inv, MatchImage
<1>5. CASE Assign
  BY <1>5, KilledDoes DEF Inv, Assign
<1>6. CASE ObserveStart
  BY <1>6, KilledDoes DEF Inv, ObserveStart, Return
<1>7. CASE SpawnThreads
  BY <1>7 DEF Inv, SpawnThreads
<1>8. CASE Resume
  BY <1>8, KilledDoes DEF Inv, Resume
<1>9. CASE Wait
  BY <1>9 DEF Inv, Wait
<1>10. CASE LookWithPlan
  <2>1. {exceeded', final', forced'} \subseteq BOOLEAN
    BY <1>10 DEF Inv, LookWithPlan, Terminate
  <2>2. Asked \in 0 .. 2 /\ trigger \in 0 .. 2 /\ trigger' \in 0 .. 2
    BY <1>10 DEF Inv, Asked, LookWithPlan
  <2>3. CASE trigger # 0 /\ "grace" \in passed
    BY <1>10, <2>1, <2>2, <2>3, TerminateTypes DEF Inv, LookWithPlan
  <2>4. CASE ~(trigger # 0 /\ "grace" \in passed)
    BY <1>10, <2>1, <2>2, <2>4 DEF Inv, LookWithPlan
  <2> QED BY <2>3, <2>4
<1>11. CASE LookAfterFinal
  <2>1. {exceeded', final', forced'} \subseteq BOOLEAN
    BY <1>11 DEF Inv, LookAfterFinal, Terminate
  <2> QED BY <1>11, <2>1, TerminateTypes DEF Inv, LookAfterFinal
<1>12. CASE LookWithoutPlan
  <2>1. {exceeded', final', forced'} \subseteq BOOLEAN
    BY <1>12 DEF Inv, LookWithoutPlan, Terminate
  <2>2. Asked \in 0 .. 2 /\ trigger \in 0 .. 2 /\ trigger' \in 0 .. 2
    BY <1>12 DEF Inv, Asked, LookWithoutPlan
  <2>3. CASE Asked # 0
    BY <1>12, <2>1, <2>2, <2>3, TerminateTypes DEF Inv, LookWithoutPlan
  <2>4. CASE ~(Asked # 0)
    BY <1>12, <2>1, <2>2, <2>4 DEF Inv, LookWithoutPlan
  <2> QED BY <2>3, <2>4
<1>13. CASE Join
  BY <1>13 DEF Inv, Join, ThreadsEnded
<1>14. CASE JoinAborted
  BY <1>14, KilledDoes DEF Inv, JoinAborted, Return, ThreadsEnded
<1>15. CASE Report
  BY <1>15, KilledDoes, VerdictMeans DEF Inv, Report, Return
<1>16. CASE StdinWritten
  BY <1>16 DEF Inv, StdinWritten, FeedsRest
<1>17. CASE StdinBroken
  BY <1>17 DEF Inv, StdinBroken, FeedsRest
<1>18. CASE StdinWatches
  BY <1>18 DEF Inv, StdinWatches, FeedsRest
<1>19. CASE FrameWritten
  BY <1>19 DEF Inv, FrameWritten, FeedsRest
<1>20. ASSUME NEW s \in Streams, DrainEnds(s) \/ DrainFails(s) PROVE TypeOK'
  <2>1. /\ drains' = drains \ {s}
        /\ UNCHANGED <<mode, pc, world, clock, stdin, exceeded, final, books>>
    BY <1>20 DEF DrainEnds, DrainFails
  <2> QED BY <2>1 DEF Inv
<1>21. ASSUME NEW s \in Streams, DrainExceeds(s) PROVE TypeOK'
  BY <1>21 DEF Inv, DrainExceeds
<1>22. CASE DrainSeesFinal
  BY <1>22 DEF Inv, DrainSeesFinal
<1>23. CASE Fork
  BY <1>23 DEF Inv, Fork
<1>24. ASSUME NEW p \in Procs, Exit(p) PROVE TypeOK'
  BY <1>24 DEF Inv, Exit
<1>25. CASE Cancel
  BY <1>25 DEF Inv, Cancel
<1>26. ASSUME NEW m \in Moments, Passes(m) PROVE TypeOK'
  BY <1>26 DEF Inv, Passes
<1>27. CASE Crash
  BY <1>27, KilledDoes DEF Inv, Crash
<1>28. CASE UNCHANGED vars
  BY <1>28 DEF vars, Inv
<1> QED
  BY <1>1, <1>2, <1>3, <1>4, <1>5, <1>6, <1>7, <1>8, <1>9, <1>10, <1>11, <1>12, <1>13, <1>14,
     <1>15, <1>16, <1>17, <1>18, <1>19, <1>20, <1>21, <1>22, <1>23, <1>24, <1>25, <1>26, <1>27, <1>28
  DEF Next, Launcher, Threads, World

\* The processes stay where Stages has them, and contained.
LEMMA TreeStep == ASSUME Inv, [Next]_vars PROVE (TreeIsContained /\ Stages)'
<1> USE DEF world, threads, clock, books, TreeIsContained, Stages, Suspended, Outside, Procs, Live
<1>1. CASE EnterCancelled
  BY <1>1, KilledDoes DEF Inv, EnterCancelled, Return
<1>2. CASE Create
  BY <1>2 DEF Inv, Create
<1>3. CASE CreateFails
  BY <1>3, KilledDoes DEF Inv, CreateFails, Return
<1>4. CASE MatchImage
  BY <1>4, KilledDoes DEF Inv, MatchImage
<1>5. CASE Assign
  BY <1>5, KilledDoes DEF Inv, Assign
<1>6. CASE ObserveStart
  BY <1>6, KilledDoes DEF Inv, ObserveStart, Return
<1>7. CASE SpawnThreads
  BY <1>7 DEF Inv, SpawnThreads
<1>8. CASE Resume
  <2>1. CASE pc' = "wait"
    BY <1>8, <2>1 DEF Inv, Resume, TypeOK
  <2>2. CASE pc' = "abort" /\ Killed({"child"})
    <3>1. {"child"} \in SUBSET Procs
      BY DEF Procs
    <3>2. tree'["child"] = "gone" /\ tree'["descendant"] = "none" /\ job' = job
      BY <1>8, <2>2, <3>1, KilledDoes DEF Inv, Resume
    <3> QED BY <1>8, <2>2, <3>2 DEF Inv, Resume
  <2> QED BY <1>8, <2>1, <2>2 DEF Resume
<1>9. CASE Wait
  BY <1>9 DEF Inv, Wait
<1>10. CASE LookWithPlan
  <2>1. CASE trigger # 0 /\ "grace" \in passed
    BY <1>10, <2>1, TerminateContains DEF LookWithPlan
  <2>2. CASE ~(trigger # 0 /\ "grace" \in passed)
    BY <1>10, <2>2 DEF Inv, LookWithPlan
  <2> QED BY <2>1, <2>2
<1>11. CASE LookAfterFinal
  BY <1>11, TerminateContains DEF LookAfterFinal
<1>12. CASE LookWithoutPlan
  <2>1. CASE Asked # 0
    BY <1>12, <2>1, TerminateContains DEF LookWithoutPlan
  <2>2. CASE ~(Asked # 0)
    BY <1>12, <2>2 DEF Inv, LookWithoutPlan
  <2> QED BY <2>1, <2>2
<1>13. CASE Join
  BY <1>13 DEF Inv, Join, ThreadsEnded
<1>14. CASE JoinAborted
  BY <1>14, JobKilled, EndsContained DEF JoinAborted, Return
<1>15. CASE Report
  BY <1>15, JobKilled, EndsContained DEF Report, Return
<1>16. CASE StdinWritten
  BY <1>16 DEF Inv, StdinWritten, FeedsRest
<1>17. CASE StdinBroken
  BY <1>17 DEF Inv, StdinBroken, FeedsRest
<1>18. CASE StdinWatches
  BY <1>18 DEF Inv, StdinWatches, FeedsRest
<1>19. CASE FrameWritten
  BY <1>19 DEF Inv, FrameWritten, FeedsRest
<1>20. ASSUME NEW s \in Streams, DrainEnds(s) \/ DrainFails(s) PROVE (TreeIsContained /\ Stages)'
  BY <1>20 DEF Inv, DrainEnds, DrainFails
<1>21. ASSUME NEW s \in Streams, DrainExceeds(s) PROVE (TreeIsContained /\ Stages)'
  BY <1>21 DEF Inv, DrainExceeds
<1>22. CASE DrainSeesFinal
  BY <1>22 DEF Inv, DrainSeesFinal
<1>23. CASE Fork
  BY <1>23 DEF Inv, Fork
<1>24. ASSUME NEW p \in Procs, Exit(p) PROVE (TreeIsContained /\ Stages)'
  BY <1>24 DEF Inv, Exit
<1>25. CASE Cancel
  BY <1>25 DEF Inv, Cancel
<1>26. ASSUME NEW m \in Moments, Passes(m) PROVE (TreeIsContained /\ Stages)'
  BY <1>26 DEF Inv, Passes
<1>27. CASE Crash
  <2>1. Killed(job) /\ job \in SUBSET Procs /\ TypeOK /\ evidence' = evidence
    BY <1>27 DEF Inv, Crash, TypeOK
  <2>2. CASE pc \in {"assigned", "wait", "look", "join", "abort", "report"}
    BY <1>27, <2>1, <2>2, JobKilled, EndsContained DEF Crash
  <2>3. CASE pc \in {"observed", "ready", "created", "matched", "enter"}
    <3>1. \A p \in Procs : tree[p] # "running"
      BY <2>3 DEF Inv
    <3>2. \A p \in Procs : tree'[p] # "running" /\ job' = job /\ (p \in job => ~Live(p)')
      BY <2>1, <3>1, KilledDoes
    <3> QED BY <1>27, <2>1, <3>2 DEF Crash
  <2> QED BY <1>27, <2>2, <2>3 DEF Inv, Crash, TypeOK, Locations
<1>28. CASE UNCHANGED vars
  BY <1>28 DEF vars, Inv
<1> QED
  BY <1>1, <1>2, <1>3, <1>4, <1>5, <1>6, <1>7, <1>8, <1>9, <1>10, <1>11, <1>12, <1>13, <1>14,
     <1>15, <1>16, <1>17, <1>18, <1>19, <1>20, <1>21, <1>22, <1>23, <1>24, <1>25, <1>26, <1>27, <1>28
  DEF Next, Launcher, Threads, World

\* What the books and the answer say stays true.
LEMMA TruthStep == ASSUME Inv, [Next]_vars PROVE (Reasons /\ Answers /\ SuccessIsWhole)'
<1> USE DEF world, threads, clock, books, Reasons, Answers, SuccessIsWhole, ThreadsEnded
<1>1. CASE EnterCancelled
  BY <1>1 DEF Inv, EnterCancelled, Return
<1>2. CASE Create
  BY <1>2 DEF Inv, Create
<1>3. CASE CreateFails
  BY <1>3 DEF Inv, CreateFails, Return
<1>4. CASE MatchImage
  BY <1>4 DEF Inv, MatchImage
<1>5. CASE Assign
  BY <1>5 DEF Inv, Assign
<1>6. CASE ObserveStart
  BY <1>6 DEF Inv, ObserveStart, Return
<1>7. CASE SpawnThreads
  BY <1>7 DEF Inv, SpawnThreads
<1>8. CASE Resume
  BY <1>8 DEF Inv, Resume
<1>9. CASE Wait
  BY <1>9 DEF Inv, Wait
<1>10. CASE LookWithPlan
  BY <1>10 DEF Inv, LookWithPlan, Terminate, Return, Asked, FinalGraceOver
<1>11. CASE LookAfterFinal
  BY <1>11 DEF Inv, LookAfterFinal, Terminate, Return, FinalGraceOver
<1>12. CASE LookWithoutPlan
  BY <1>12 DEF Inv, LookWithoutPlan, Terminate, Return, Asked
<1>13. CASE Join
  BY <1>13 DEF Inv, Join, ThreadsEnded
<1>14. CASE JoinAborted
  BY <1>14 DEF Inv, JoinAborted, Return, ThreadsEnded
<1>15. CASE Report
  BY <1>15, VerdictMeans DEF Inv, Report, Return
<1>16. CASE StdinWritten
  BY <1>16 DEF Inv, StdinWritten, FeedsRest
<1>17. CASE StdinBroken
  BY <1>17 DEF Inv, StdinBroken, FeedsRest
<1>18. CASE StdinWatches
  BY <1>18 DEF Inv, StdinWatches, FeedsRest
<1>19. CASE FrameWritten
  BY <1>19 DEF Inv, FrameWritten, FeedsRest
<1>20. ASSUME NEW s \in Streams, DrainEnds(s) \/ DrainFails(s)
      PROVE  (Reasons /\ Answers /\ SuccessIsWhole)'
  BY <1>20 DEF Inv, DrainEnds, DrainFails
<1>21. ASSUME NEW s \in Streams, DrainExceeds(s) PROVE (Reasons /\ Answers /\ SuccessIsWhole)'
  BY <1>21 DEF Inv, DrainExceeds
<1>22. CASE DrainSeesFinal
  BY <1>22 DEF Inv, DrainSeesFinal
<1>23. CASE Fork
  BY <1>23 DEF Inv, Fork
<1>24. ASSUME NEW p \in Procs, Exit(p) PROVE (Reasons /\ Answers /\ SuccessIsWhole)'
  BY <1>24 DEF Inv, Exit
<1>25. CASE Cancel
  BY <1>25 DEF Inv, Cancel
<1>26. ASSUME NEW m \in Moments, Passes(m) PROVE (Reasons /\ Answers /\ SuccessIsWhole)'
  BY <1>26 DEF Inv, Passes
<1>27. CASE Crash
  BY <1>27 DEF Inv, Crash
<1>28. CASE UNCHANGED vars
  BY <1>28 DEF vars, Inv
<1> QED
  BY <1>1, <1>2, <1>3, <1>4, <1>5, <1>6, <1>7, <1>8, <1>9, <1>10, <1>11, <1>12, <1>13, <1>14,
     <1>15, <1>16, <1>17, <1>18, <1>19, <1>20, <1>21, <1>22, <1>23, <1>24, <1>25, <1>26, <1>27, <1>28
  DEF Next, Launcher, Threads, World
LEMMA Invariant == Spec => []Inv
<1>1. Inv /\ [Next]_vars => Inv'
  BY TypeStep, TreeStep, TruthStep DEF Inv
<1> QED BY <1>1, InitInv, PTL DEF Spec

-----------------------------------------------------------------------------
\* The launching thread, its threads and the process tree keep their types, whether
\* descendants are started and inherit the pipes or not.
THEOREM RuntimeTypeCorrect == Spec => []TypeOK
<1>1. Inv => TypeOK
  BY DEF Inv
<1> QED BY <1>1, Invariant, PTL

\* execute_blocking never lets a process run outside the Job or without its durable
\* start evidence, and leaves none behind when it returns, whichever of its calls
\* failed.
THEOREM RuntimeTreeIsContained == Spec => []TreeIsContained
<1>1. Inv => TreeIsContained
  BY DEF Inv
<1> QED BY <1>1, Invariant, PTL

\* An Ok of execute_blocking means an exit nobody forced, both streams read to their
\* end within the limits and the end on record; a timeout or a cancellation it answers
\* did happen.
THEOREM RuntimeSuccessIsWhole == Spec => []SuccessIsWhole
<1>1. Inv => SuccessIsWhole
  BY DEF Inv
<1> QED BY <1>1, Invariant, PTL
=============================================================================
