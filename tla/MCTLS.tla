------------------------------- MODULE MCTLS -------------------------------
(***************************************************************************)
(* TLS for TLC: the threads are interchangeable.                           *)
(***************************************************************************)
EXTENDS TLS, TLC

Symmetry == Permutations(Threads)

\* Once the free list is damaged, TLC follows the allocator only while no
\* thread has a tree.
FaultsAlone == faults # {} => \A th \in Threads : nodes[th] = {}
=============================================================================
