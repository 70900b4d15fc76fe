------------------------- MODULE MCDispatcherWorker -------------------------
(* Small instances of DispatcherWorker for TLC.                            *)
EXTENDS DispatcherWorker, TLC

Symmetry == Permutations(Process) \cup Permutations(Slot) \cup Permutations(Context)

=============================================================================
