----------------------------- MODULE MCToolDispatch -----------------------------
\* Invocations of three kinds for ToolDispatch: a cancellable process tool that
\* may run twice but for its lock key, a process tool that is not cancellable
\* and runs alone, and a controller command.  (A lock key contains the tool id,
\* so tools never share one.)
EXTENDS ToolDispatch, TLC

CONSTANTS edit, scan, report, k1

MCTools == {"edit", "scan", "report"}
MCLocks == {k1}

MCBackend == [i \in Invocations |-> IF i = report THEN "command" ELSE "process"]
MCCancellable == [i \in Invocations |-> i = edit]
MCGateRequest ==
    [i \in Invocations |->
        CASE i = edit   -> [tool_id |-> "edit", max_parallel |-> 2, locks |-> {k1}]
          [] i = scan   -> [tool_id |-> "scan", max_parallel |-> 1, locks |-> {}]
          [] i = report -> [tool_id |-> "report", max_parallel |-> 2, locks |-> {}]]

WorkerSymmetry == Permutations(Workers)
TaskSymmetry == Permutations(Workers) \cup Permutations(Ops)
=============================================================================
