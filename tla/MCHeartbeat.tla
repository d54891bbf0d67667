---------------------------- MODULE MCHeartbeat ----------------------------
(***************************************************************************)
(* Two chunkservers, with the ids they should have or both with id 0.      *)
(***************************************************************************)
EXTENDS Heartbeat

MCConfigs == {[s \in Server |-> s], [s \in Server |-> 0]}
=============================================================================
