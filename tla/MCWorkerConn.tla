---------------------------- MODULE MCWorkerConn ----------------------------
(* WorkerConn for TLC: the notifiers of a client are interchangeable.      *)
EXTENDS WorkerConn, TLC

Symmetry == Permutations(Notifiers)

=============================================================================
