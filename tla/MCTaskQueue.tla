---------------------------- MODULE MCTaskQueue ----------------------------
(* TLC instances of TaskQueue. *)
EXTENDS TaskQueue, TLC

(* Every worker serves every kind of item. *)
ServesAll == Worker \X Item

(* Workers and request slots are interchangeable when all serve all. *)
Symmetry == Permutations(Worker) \cup Permutations(Conn)

=============================================================================
