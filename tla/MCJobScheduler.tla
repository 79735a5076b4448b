---------------------------- MODULE MCJobScheduler ----------------------------
(* JobScheduler on a small instance: an isolated and a local job share a     *)
(* lane.                                                                     *)
EXTENDS JobScheduler

CONSTANTS capture, mirror, serial

MCLaneOf == [j \in Jobs |-> serial]
=============================================================================
