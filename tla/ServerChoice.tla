---------------------------- MODULE ServerChoice ----------------------------
(***************************************************************************)
(* Which chunkserver the master names to a client: a server for a new      *)
(* chunk (dfs_master_get_server_for_new_chunk) or the one recorded for an  *)
(* old chunk.  The main loop does this between heartbeat replies, while    *)
(* the heartbeat daemon changes the statuses it reads.                     *)
(***************************************************************************)
EXTENDS Heartbeat

VARIABLES
    wpc,             \* main loop: step of a client's request
    wi, server_id,   \* loop variable and result of the search
    fake_rand,       \* the static of the search
    chunks,          \* servers recorded first in some chunk map
    seen             \* history: servers the search found active

request == <<wpc, wi, server_id, fake_rand, chunks, seen>>
choiceVars == <<vars, request>>

ChoiceInit ==
    /\ Init
    /\ wpc = "idle" /\ wi = 0 /\ server_id = 0 /\ fake_rand = -1
    /\ chunks = {} /\ seen = {}

\* DFS_WR for the next chunk of a file, when some server counts as active.
WriteNewChunk ==
    /\ mpc = "recv" /\ wpc = "idle" /\ num_act_server # 0
    /\ wpc' = "search" /\ wi' = 0 /\ server_id' = 0 /\ seen' = {}
    /\ UNCHANGED <<vars, fake_rand, chunks>>

\* The same when the master counts no active server: STATUS_FAILED.
WriteRefused ==
    /\ mpc = "recv" /\ wpc = "idle" /\ num_act_server = 0
    /\ wpc' = "refused"
    /\ UNCHANGED <<vars, wi, server_id, fake_rand, chunks, seen>>

\* Mutant: the status of the server is not looked at.
SearchAnyStatus ==
    /\ wpc = "search" /\ wi < NumServer
    /\ IF wi = fake_rand
       THEN fake_rand' = -1 /\ UNCHANGED server_id
       ELSE fake_rand' = wi /\ server_id' = wi
    /\ seen' = IF chunkservers[wi].status = "OK" THEN seen \cup {wi} ELSE seen
    /\ wi' = wi + 1
    /\ UNCHANGED <<vars, wpc, chunks>>

\* One turn of the search; the daemon may run between two turns.
Search ==
    /\ wpc = "search" /\ wi < NumServer
    /\ IF chunkservers[wi].status = "OK"
       THEN /\ IF wi = fake_rand
               THEN fake_rand' = -1 /\ UNCHANGED server_id
               ELSE fake_rand' = wi /\ server_id' = wi
            /\ seen' = seen \cup {wi}
       ELSE UNCHANGED <<fake_rand, server_id, seen>>
    /\ wi' = wi + 1
    /\ UNCHANGED <<vars, wpc, chunks>>

\* The server found is recorded in the chunk map and sent to the client.
AdvertiseNew ==
    /\ wpc = "search" /\ wi = NumServer
    /\ chunks' = chunks \cup {server_id}
    /\ wpc' = "reply"
    /\ UNCHANGED <<vars, wi, server_id, fake_rand, seen>>

\* DFS_RD, or DFS_WR inside the file: the first address of the chunk map.
AdvertiseOld ==
    /\ mpc = "recv" /\ wpc = "idle"
    /\ server_id' \in chunks
    /\ wpc' = "reply"
    /\ UNCHANGED <<vars, wi, fake_rand, chunks, seen>>

\* Back to the head of the event loop.
Replied ==
    /\ wpc \in {"reply", "refused"}
    /\ wpc' = "idle" /\ wi' = 0 /\ server_id' = 0 /\ seen' = {}
    /\ UNCHANGED <<vars, fake_rand, chunks>>

Requests == WriteNewChunk \/ WriteRefused \/ Search \/ AdvertiseNew \/ AdvertiseOld \/ Replied

ChoiceNext ==
    \/ Requests
    \/ wpc = "idle" /\ Main /\ UNCHANGED request
    \/ (Daemon \/ Servers) /\ UNCHANGED request

ChoiceSpec == ChoiceInit /\ [][ChoiceNext]_choiceVars

-----------------------------------------------------------------------------
(* Properties. *)

\* When the search meets two active servers it picks one it saw active,
\* whatever fake_rand was left at by the call before and whatever the daemon
\* does meanwhile.
SearchPicksActive ==
    wpc = "search" /\ wi = NumServer /\ (\E s, t \in seen : s # t) => server_id \in seen

\* A search that meets an active server names one it found active.
NewChunkOnActive ==
    wpc = "search" /\ wi = NumServer /\ seen # {} => server_id \in seen

\* A client that reads, or writes again, an old chunk is not sent to a server
\* marked down.
OldChunkOnActive ==
    [][wpc = "idle" /\ wpc' = "reply" => chunkservers[server_id'].status = "OK"]_choiceVars

\* A new chunk is refused only when every server is marked down.
ActiveServersServe ==
    [][wpc # "refused" /\ wpc' = "refused"
           => \A s \in Server : chunkservers[s].status = "DOWN"]_choiceVars
=============================================================================
