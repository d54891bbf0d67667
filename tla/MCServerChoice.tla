--------------------------- MODULE MCServerChoice ---------------------------
(***************************************************************************)
(* Chunkservers with the ids they should have, and requests of clients.    *)
(***************************************************************************)
EXTENDS ServerChoice

MCConfigs == {[s \in Server |-> s]}
=============================================================================
