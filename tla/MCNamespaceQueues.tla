-------------------------- MODULE MCNamespaceQueues --------------------------
(* Instances of NamespaceQueues for TLC.                                   *)
EXTENDS NamespaceQueues, TLC

Symm == Permutations(Namespaces)
=============================================================================
