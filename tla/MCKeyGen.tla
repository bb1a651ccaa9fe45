------------------------------ MODULE MCKeyGen ------------------------------
(* Instances of KeyGen for TLC. *)
EXTENDS KeyGenInv, TLC

\* A limited workload that exits, a timed one, a queue worker that exits, none.
Limited == [Zero EXCEPT !.enable = TRUE, !.num = 1, !.exit = TRUE]
Timed == [Zero EXCEPT !.enable = TRUE, !.timed = TRUE, !.exit = TRUE]
Queue == [Zero EXCEPT !.enable = TRUE, !.memq = TRUE, !.exit = TRUE]
Infinite == [Zero EXCEPT !.enable = TRUE]

FewConfigs == {Limited, Timed, Queue, Zero}
FairConfigs == {Limited, Queue}

Symmetry == Permutations(Puts)
=============================================================================
