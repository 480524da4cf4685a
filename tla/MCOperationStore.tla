---------------------------- MODULE MCOperationStore ----------------------------
\* OperationStore with two operation ids, one key, two invocations.
EXTENDS OperationStore, TLC

OperationSymmetry == Permutations(Ops)
=============================================================================
