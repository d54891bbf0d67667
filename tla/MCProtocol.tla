----------------------------- MODULE MCProtocol -----------------------------
(***************************************************************************)
(* The protocol of the file system, of which a behaviour takes one part:   *)
(* the commands on files of one client (Dfs), or several clients that      *)
(* connect, change the directory and list it (Sessions).                   *)
(***************************************************************************)
EXTENDS Dfs, Sessions

VARIABLE part

MCCommands == {[op |-> "CD", arg |-> ".."], [op |-> "CD", arg |-> "sub"], [op |-> "LS", arg |-> "."]}

protocol_vars == <<vars, ses_vars, part>>

ProtocolInit == part \in {"files", "sessions"} /\ Init /\ SesInit

ProtocolNext ==
    /\ \/ part = "files" /\ Next /\ UNCHANGED ses_vars
       \/ part = "sessions" /\ SesNext /\ UNCHANGED vars
    /\ UNCHANGED part

\* The fairness of Dfs and of Sessions, each for its part.
ProtocolFairness ==
    /\ WF_vars(part = "files" /\ Shell) /\ WF_vars(part = "files" /\ Master)
    /\ SF_vars(part = "files" /\ ConnectTimeout /\ <<mrx', srx'>> # <<mrx, srx>>)
    /\ SF_vars(part = "files" /\ Master /\ Len(crx') > Len(crx))
    /\ \A s \in Server :
        /\ WF_vars(part = "files" /\ ServerReceive(s)) /\ WF_vars(part = "files" /\ ServerSend(s))
        /\ SF_vars(part = "files" /\ ServerReceive(s) /\ Len(crx') > Len(crx))
    /\ SesFairness

ProtocolSpec == ProtocolInit /\ [][ProtocolNext]_protocol_vars /\ ProtocolFairness

-----------------------------------------------------------------------------

\* The chunk tables of the master: the chunks of a file are in the order of their
\* writes, and no chunk belongs to two files.
ChunksSound == TypeOK /\ ChunksSorted /\ UniqueChunkIds

\* Every command of every client comes back to the prompt, whatever packets are
\* lost.
EveryCommandEnds == CommandsEnd /\ SessionsGoOn
=============================================================================
