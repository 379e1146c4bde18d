------------------------ MODULE MCSessionCoordinator ------------------------
(* Instances of SessionCoordinator for TLC.                                *)
EXTENDS SessionCoordinator, TLC

Symmetry == Permutations(Clients) \cup Permutations(WorkerConns) \cup Permutations(Tasks)
            \cup Permutations(Sessions)
=============================================================================
