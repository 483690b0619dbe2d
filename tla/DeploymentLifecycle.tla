------------------------- MODULE DeploymentLifecycle -------------------------
(***************************************************************************)
(* What the deployment engine promises of one DeploymentRecord             *)
(* (DeploymentRecord's docstring): the transitions of its status, each     *)
(* operation all or nothing.                                               *)
(*                                                                         *)
(* status is what the operation in progress sees, settled what everybody   *)
(* else sees: an operation moves status along the documented transitions,  *)
(* and either settles there or returns to where it began.                  *)
(***************************************************************************)
CONSTANT Ids
VARIABLES status, settled

Documented ==
  {<<"QUEUED", "PROVISIONING">>, <<"PROVISIONING", "PULLING_IMAGE">>,
   <<"PULLING_IMAGE", "CONFIGURING">>, <<"CONFIGURING", "STARTING">>,
   <<"STARTING", "RUNNING">>,
   <<"RUNNING", "UPGRADING">>, <<"UPGRADING", "RUNNING">>,
   <<"RUNNING", "ROLLBACK">>, <<"ROLLBACK", "RUNNING">>,
   <<"RUNNING", "STOPPING">>, <<"STOPPING", "STOPPED">>,
   <<"STOPPED", "DECOMMISSIONED">>}
Resting == {"QUEUED", "RUNNING", "DECOMMISSIONED"}

Init ==
  /\ status  = [r \in Ids |-> "ABSENT"]
  /\ settled = status

Create(r) ==
  /\ settled[r] = "ABSENT"
  /\ status'  = [status EXCEPT ![r] = "QUEUED"]
  /\ settled' = [settled EXCEPT ![r] = "QUEUED"]

Move(r) ==
  \E edge \in Documented :
    /\ status[r] = edge[1]
    /\ status' = [status EXCEPT ![r] = edge[2]]
    /\ UNCHANGED settled

Settle(r) ==
  /\ status[r] \in Resting
  /\ settled' = [settled EXCEPT ![r] = status[r]]
  /\ UNCHANGED status

Fail(r) ==
  /\ status[r] # "ABSENT"
  /\ status'  = [status EXCEPT ![r] = "FAILED"]
  /\ settled' = [settled EXCEPT ![r] = "FAILED"]

Abort(r) ==
  /\ status' = [status EXCEPT ![r] = settled[r]]
  /\ UNCHANGED settled

Next == \E r \in Ids : Create(r) \/ Move(r) \/ Settle(r) \/ Fail(r) \/ Abort(r)

Spec == Init /\ [][Next]_<<status, settled>>
=============================================================================
