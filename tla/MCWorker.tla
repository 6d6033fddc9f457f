------------------------------ MODULE MCWorker ------------------------------
(* Instances of Worker for TLC. *)
EXTENDS Worker, TLC

OnceConfigs ==
    {[scheduleType |-> "once", firstRunAt |-> 1, seconds |-> 1,
      catchUpPolicy |-> "skip_missed"]}

EverySecond ==
    {[scheduleType |-> "recurring", firstRunAt |-> 1, seconds |-> 1,
      catchUpPolicy |-> "catch_up_all"]}

(* Nodes are interchangeable. *)
NodeSymmetry == Permutations(Nodes)
=============================================================================
