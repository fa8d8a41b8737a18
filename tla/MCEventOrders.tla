---------------------------- MODULE MCEventOrders ----------------------------
(* Small instances of EventOrders: two workers that hand the lease over. *)
EXTENDS EventOrders, TLC

CONSTANTS a, b

MCWorker == {a, b}

WorkerSymmetry == Permutations(MCWorker)
=============================================================================
