-------------------------- MODULE MCDeploymentHealth --------------------------
(* A small instance of DeploymentHealth: one deployment and the one a      *)
(* repair may start, services at the edges of the thresholds.              *)
EXTENDS DeploymentHealth

Measured == {[unreachable |-> FALSE, response_time_ms |-> 2000, cpu_usage_percent |-> 85],
             [unreachable |-> FALSE, response_time_ms |-> 85,   cpu_usage_percent |-> 95],
             [unreachable |-> TRUE,  response_time_ms |-> 0,    cpu_usage_percent |-> 0]}
=============================================================================
