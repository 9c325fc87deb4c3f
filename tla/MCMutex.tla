------------------------------ MODULE MCMutex ------------------------------
(***************************************************************************)
(* Small instances of Mutex.  The threads call the operations for ever,    *)
(* and the state space is finite: no number grows beyond the seats.        *)
(***************************************************************************)
EXTENDS Mutex, TLC

Symmetry == Permutations(Threads) \cup Permutations(Workers) \cup Permutations(Conds)
=============================================================================
