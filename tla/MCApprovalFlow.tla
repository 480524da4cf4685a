----------------------------- MODULE MCApprovalFlow -----------------------------
\* ApprovalFlow with one cancellable and one other invocation.
EXTENDS ApprovalFlow, TLC

CONSTANTS push, report

MCCancellable == [i \in Invocations |-> i = push]

ApprovalSymmetry == Permutations(Approvals)
=============================================================================
