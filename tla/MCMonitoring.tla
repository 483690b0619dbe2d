---------------------------- MODULE MCMonitoring ----------------------------
(* One worker process with two threads; its services change twice.         *)
EXTENDS Monitoring, TLC

ThreadSymmetry == Permutations(Threads)
=============================================================================
