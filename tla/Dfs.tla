--------------------------------- MODULE Dfs ---------------------------------
(***************************************************************************)
(* The file protocol: the client shell (dfs/dfs-client-command.c and       *)
(* dfs-client.c), the master's main loop with its chunk maps               *)
(* (dfs-master.c, dfs-master-fat.c) and the chunkservers                   *)
(* (dfs-chunkserver.c, dfs-chunk-fat.c), joined by radio links that lose   *)
(* packets.  The master and the chunkservers handle one packet at a time;  *)
(* a chunkserver sends a chunk, and the client a line, packet by packet.   *)
(* Which server gets a new chunk is left open here (module ServerChoice).  *)
(*                                                                         *)
(* The shell only uses chunk 0 of a file, so a file has no chunk or one.   *)
(***************************************************************************)
EXTENDS Integers, Sequences, TLC

CONSTANTS
    Name,        \* file names
    Server,      \* chunkservers
    NoName,      \* the name of a deleted directory entry
    MaxPkts,     \* packets in the longest line an echo writes
    MaxCmds,     \* bound on the commands typed
    MaxBoots,    \* bound on the starts of the client
    Cap,         \* packets a receive queue holds
    Lossy,       \* packets may be lost
    EarlyRetry,  \* try_connect's 200 ms may pass before the reply arrives
    NoServer     \* the master may count no active server

ASSUME DfsAssumption ==
    /\ NoName \notin Name
    /\ MaxPkts \in Nat \ {0} /\ MaxCmds \in Nat /\ MaxBoots \in Nat \ {0} /\ Cap \in Nat \ {0}
    /\ {Lossy, EarlyRetry, NoServer} \subseteq BOOLEAN

Cluster == 1 .. MaxCmds + 1
ChunkId == 1 .. MaxCmds + 1
Map == [id : ChunkId, srv : Server]
AnyServer == CHOOSE s \in Server : TRUE
Foreign == [w |-> 0, i |-> 0]            \* bytes that are no packet of any write
Packet == [w : 1 .. MaxCmds, i : 1 .. MaxPkts] \cup {Foreign}

VARIABLES
    \* the client
    cpc, file, npkts,      \* step, file and line length of the command
    conn, handle, hname,   \* chunkserver, chunk id and file name of the handle
    sent, got,             \* packets sent by an echo, received by a cat
    crx, cmds, boots,
    req,                   \* history: number of the exchange in progress
    \* the master
    mrx, dir, disk, chunk_id, mup,
    \* the chunkservers
    srx, chunk, reading

client == <<cpc, file, npkts, conn, handle, hname, sent, got, cmds, boots, req>>
master == <<dir, disk, chunk_id, mup>>
server == <<chunk, reading>>
vars == <<client, crx, mrx, srx, master, server>>

Init ==
    /\ cpc = "off" /\ file = NoName /\ npkts = 0
    /\ conn = AnyServer /\ handle = 0 /\ hname = NoName
    /\ sent = 0 /\ got = << >> /\ crx = << >> /\ cmds = 0 /\ boots = 0 /\ req = 0
    /\ mrx = << >> /\ dir = << >> /\ chunk_id = 0 /\ mup = TRUE
    /\ disk = [c \in Cluster |-> [id |-> 1, srv |-> AnyServer]]
    /\ srx = [s \in Server |-> << >>]
    /\ chunk = [s \in Server |-> << >>]
    /\ reading = [s \in Server |-> << >>]

-----------------------------------------------------------------------------
(* The network. *)

\* The queues that may result from sending m to a receiver whose queue is q.
Sent(q, m) ==
    (IF Len(q) < Cap THEN {Append(q, m)} ELSE {q}) \cup (IF Lossy THEN {q} ELSE {})

\* Packets for the client carry all fields; those a reply does not set are not
\* looked at, except the status of an accept, which is what the stack held.
Reply(op, m) ==
    [op |-> op, req |-> m.req, ok |-> TRUE, id |-> 0, srv |-> AnyServer, name |-> NoName, pkt |-> Foreign]

\* No packet is waiting for anybody who will answer it.
Quiet == (mrx = << >> \/ ~mup) /\ crx = << >> /\ \A s \in Server : srx[s] = << >> /\ reading[s] = << >>

-----------------------------------------------------------------------------
(* The master: its directory, as the FAT layer keeps it, and its handlers. *)

Entries(n) == {i \in 1 .. Len(dir) : dir[i].name = n}
Used == {dir[i].clus : i \in {j \in 1 .. Len(dir) : dir[j].name # NoName}}

\* The entry fat32_read reads: the named one, or the first when there is none.
ReadEntry(n) ==
    IF Entries(n) # {} THEN dir[CHOOSE i \in Entries(n) : TRUE]
    ELSE IF dir = << >> THEN [name |-> NoName, clus |-> 0] ELSE dir[1]

\* fs_read: the chunk map in the entry's cluster, if it has one.
FileMaps(n) == LET c == ReadEntry(n).clus IN IF c = 0 THEN << >> ELSE <<disk[c]>>

\* A deleted entry keeps its cluster number: if nobody took the cluster since,
\* its FAT entry is 0 and cluster_to_lba asserts on it.
ReadPanics(n) == ReadEntry(n).clus \notin Used \cup {0}

\* fat32_create: the first deleted entry is used again.
Create(n) ==
    LET free == Entries(NoName) IN
    IF Entries(n) # {} THEN dir
    ELSE IF free = {} THEN Append(dir, [name |-> n, clus |-> 0])
    ELSE [dir EXCEPT ![CHOOSE i \in free : \A j \in free : i <= j] = [name |-> n, clus |-> 0]]

\* fat32_delete: the entry keeps its start cluster, which becomes free.
Delete(n) == [i \in 1 .. Len(dir) |-> IF dir[i].name = n THEN [dir[i] EXCEPT !.name = NoName] ELSE dir[i]]

\* find_free_cluster
FreeCluster == CHOOSE c \in Cluster \ Used : \A d \in Cluster \ Used : c <= d

\* master_fat32_add_chunk_server for the first chunk of n; fs_write does
\* nothing when there is no such file.
AddChunk(n, id, s) ==
    IF Entries(n) = {} THEN UNCHANGED <<dir, disk>>
    ELSE /\ dir' = [dir EXCEPT ![CHOOSE i \in Entries(n) : TRUE].clus = FreeCluster]
         /\ disk' = [disk EXCEPT ![FreeCluster] = [id |-> id, srv |-> s]]

\* DFS_CNCT: numbering of chunks starts again with every connection.
MasterConnect(m) ==
    /\ m.op = "CNCT"
    /\ \E ok \in BOOLEAN : crx' \in Sent(crx, [Reply("ACP", m) EXCEPT !.ok = ok])
    /\ chunk_id' = 1
    /\ UNCHANGED <<dir, disk, mup>>

MasterCreate(m) ==
    /\ m.op = "CR"
    /\ dir' = Create(m.name)
    /\ crx' \in Sent(crx, Reply("CR", m))
    /\ UNCHANGED <<disk, chunk_id, mup>>

MasterRemove(m) ==
    /\ m.op = "RM"
    /\ dir' = Delete(m.name)
    /\ crx' \in Sent(crx, Reply("RM", m))
    /\ UNCHANGED <<disk, chunk_id, mup>>


\* DFS_RD: an empty file is answered with the handle 0.
MasterRead(m) ==
    /\ m.op = "RD" /\ ~ReadPanics(m.name)
    /\ LET maps == FileMaps(m.name) IN
       crx' \in Sent(crx, IF maps = << >> THEN Reply("RD", m)
                          ELSE [Reply("RD", m) EXCEPT !.id = maps[1].id, !.srv = maps[1].srv, !.name = m.name])
    /\ UNCHANGED master

\* DFS_WR inside the file: the handle is the number of chunks of the file.
MasterWriteOld(m) ==
    /\ m.op = "WR" /\ ~ReadPanics(m.name) /\ FileMaps(m.name) # << >>
    /\ crx' \in Sent(crx, [Reply("WR", m) EXCEPT !.id = 1, !.srv = FileMaps(m.name)[1].srv, !.name = m.name])
    /\ UNCHANGED master

\* DFS_WR at the end of the file: a new chunk.
MasterWriteNew(m) ==
    /\ m.op = "WR" /\ ~ReadPanics(m.name) /\ FileMaps(m.name) = << >>
    /\ \E s \in Server :
        /\ crx' \in Sent(crx, [Reply("WR", m) EXCEPT !.id = chunk_id, !.srv = s, !.name = m.name])
        /\ AddChunk(m.name, chunk_id, s)
    /\ chunk_id' = chunk_id + 1
    /\ UNCHANGED mup

MasterWriteRefused(m) ==
    /\ m.op = "WR" /\ ~ReadPanics(m.name) /\ FileMaps(m.name) = << >> /\ NoServer
    /\ crx' \in Sent(crx, [Reply("WR", m) EXCEPT !.ok = FALSE])
    /\ UNCHANGED master

\* The assertion of cluster_to_lba fails and the master stops.
MasterPanic(m) ==
    /\ m.op \in {"RD", "WR"} /\ ReadPanics(m.name)
    /\ mup' = FALSE
    /\ UNCHANGED <<crx, dir, disk, chunk_id>>

Master ==
    /\ mup /\ mrx # << >>
    /\ mrx' = Tail(mrx)
    /\ LET m == Head(mrx) IN
       \/ MasterConnect(m) \/ MasterCreate(m) \/ MasterRemove(m) \/ MasterRead(m)
       \/ MasterWriteOld(m) \/ MasterWriteNew(m) \/ MasterWriteRefused(m) \/ MasterPanic(m)
    /\ UNCHANGED <<client, srx, server>>

-----------------------------------------------------------------------------
(* A chunkserver. *)

ServerConnect(s, m) ==
    /\ m.op = "CNCT"
    /\ \E ok \in BOOLEAN : crx' \in Sent(crx, [Reply("ACP", m) EXCEPT !.ok = ok])
    /\ UNCHANGED server

\* Mutant: a packet is put in front of the chunk.
StorePrepend(s, m) ==
    chunk' = IF m.id \in DOMAIN chunk[s] THEN [chunk EXCEPT ![s][m.id] = <<m.pkt>> \o @]
             ELSE [chunk EXCEPT ![s] = @ @@ (m.id :> <<m.pkt>>)]

\* A packet at offset 0 creates the chunk unless it is there, and every packet
\* is appended, whatever its offset; without a chunk fs_append writes nothing.
Store(s, m) ==
    chunk' = IF m.id \in DOMAIN chunk[s] THEN [chunk EXCEPT ![s][m.id] = Append(@, m.pkt)]
             ELSE IF m.pkt.i = 1 THEN [chunk EXCEPT ![s] = @ @@ (m.id :> <<m.pkt>>)]
             ELSE chunk

ServerWrite(s, m) ==
    /\ m.op = "WR"
    /\ Store(s, m)
    /\ UNCHANGED <<crx, reading>>

\* The reply says SUCCESS whatever was stored.
ServerEndWrite(s, m) ==
    /\ m.op = "END_WR"
    /\ Store(s, m)
    /\ crx' \in Sent(crx, Reply("END_WR", m))
    /\ UNCHANGED reading


\* A chunk that is not there is read as the first file of the card.
ServerRead(s, m) ==
    /\ m.op = "RD"
    /\ LET data == IF m.id \in DOMAIN chunk[s] THEN chunk[s][m.id] ELSE <<Foreign>> IN
       reading' = [reading EXCEPT ![s] =
                     [i \in 1 .. Len(data) |->
                        [Reply(IF i = Len(data) THEN "END_RD" ELSE "RD", m) EXCEPT !.pkt = data[i]]]]
    /\ UNCHANGED <<crx, chunk>>

ServerReceive(s) ==
    /\ srx[s] # << >> /\ reading[s] = << >>
    /\ srx' = [srx EXCEPT ![s] = Tail(@)]
    /\ LET m == Head(srx[s]) IN
       ServerConnect(s, m) \/ ServerWrite(s, m) \/ ServerEndWrite(s, m) \/ ServerRead(s, m)
    /\ UNCHANGED <<client, mrx, master>>

\* One turn of the loop that sends a chunk.
ServerSend(s) ==
    /\ reading[s] # << >>
    /\ crx' \in Sent(crx, Head(reading[s]))
    /\ reading' = [reading EXCEPT ![s] = Tail(@)]
    /\ UNCHANGED <<client, mrx, srx, master, chunk>>

-----------------------------------------------------------------------------
(* The client shell. *)

SendMaster(op, name) == mrx' \in Sent(mrx, [op |-> op, req |-> req', name |-> name])
SendServer(s, m) == \E q \in Sent(srx[s], m) : srx' = [srx EXCEPT ![s] = q]
Connect(s) == SendServer(s, [op |-> "CNCT", req |-> req'])

others == <<master, server>>

\* client_shell_start: a new start finds an empty receive queue.
Start ==
    /\ cpc \in {"off", "panic"} /\ boots < MaxBoots
    /\ boots' = boots + 1 /\ req' = req + 1 /\ crx' = << >>
    /\ cpc' = "cnct"
    /\ SendMaster("CNCT", NoName)
    /\ UNCHANGED <<file, npkts, conn, handle, hname, sent, got, cmds, srx, others>>

\* What try_connect goes on to.
Connected ==
    /\ sent' = 0 /\ got' = << >>
    /\ cpc' = CASE cpc = "cnct" -> "prompt" [] cpc = "cnct_rd" -> "query" [] cpc = "cnct_wr" -> "send"

Connecting == cpc \in {"cnct", "cnct_rd", "cnct_wr"}

ConnectAgain ==
    IF cpc = "cnct" THEN SendMaster("CNCT", NoName) /\ UNCHANGED srx
    ELSE Connect(conn) /\ UNCHANGED mrx

\* try_connect on a packet: after any other packet than an accept it sends the
\* request again, and returns success all the same.
ConnectReply ==
    /\ Connecting /\ crx # << >>
    /\ crx' = Tail(crx) /\ req' = req
    /\ IF Head(crx).op = "ACP" THEN UNCHANGED <<mrx, srx>> ELSE ConnectAgain
    /\ Connected
    /\ UNCHANGED <<file, npkts, conn, handle, hname, cmds, boots, others>>

\* 200 ms without a packet: the request is sent again.
ConnectTimeout ==
    /\ Connecting /\ crx = << >> /\ (EarlyRetry \/ Quiet)
    /\ req' = req
    /\ ConnectAgain
    /\ UNCHANGED <<cpc, file, npkts, conn, handle, hname, sent, got, crx, cmds, boots, others>>

\* client_parse: touch, rm, cat and echo start with a request to the master.
Command(op, n, k) ==
    /\ cpc = "prompt" /\ cmds < MaxCmds
    /\ cmds' = cmds + 1 /\ req' = req + 1
    /\ file' = n /\ npkts' = k
    /\ cpc' = op
    /\ SendMaster(op, n)
    /\ UNCHANGED <<conn, handle, hname, sent, got, crx, boots, srx, others>>

\* The command q ends the shell.
Quit ==
    /\ cpc = "prompt"
    /\ cpc' = "off"
    /\ UNCHANGED <<file, npkts, conn, handle, hname, sent, got, crx, cmds, boots, req, mrx, srx, others>>

\* dfs_client_create and _delete: client_parse ignores what they return.
AnyReply ==
    /\ cpc \in {"CR", "RM"} /\ crx # << >>
    /\ crx' = Tail(crx)
    /\ cpc' = "prompt"
    /\ UNCHANGED <<file, npkts, conn, handle, hname, sent, got, cmds, boots, req, mrx, srx, others>>

\* The reply to read_chunk_meta or write_chunk_meta is of no use.
HandleRefused ==
    /\ cpc \in {"RD", "WR"} /\ crx # << >>
    /\ crx' = Tail(crx)
    /\ Head(crx).op # cpc \/ ~Head(crx).ok \/ (cpc = "RD" /\ Head(crx).id = 0)
    /\ cpc' = IF cpc = "RD" THEN "prompt" ELSE "panic"
    /\ UNCHANGED <<file, npkts, conn, handle, hname, sent, got, cmds, boots, req, mrx, srx, others>>

\* The reply is a handle; the client connects to its chunkserver.
HandleReply ==
    /\ cpc \in {"RD", "WR"} /\ crx # << >>
    /\ LET m == Head(crx) IN
       /\ m.op = cpc /\ m.ok /\ (cpc = "RD" => m.id # 0)
       /\ conn' = m.srv /\ handle' = m.id /\ hname' = m.name
    /\ crx' = Tail(crx)
    /\ req' = req + 1
    /\ cpc' = IF cpc = "RD" THEN "cnct_rd" ELSE "cnct_wr"
    /\ Connect(conn')
    /\ UNCHANGED <<file, npkts, sent, got, cmds, boots, mrx, others>>

\* dfs_client_query_chunk_data
Query ==
    /\ cpc = "query"
    /\ req' = req + 1
    /\ cpc' = "data"
    /\ SendServer(conn, [op |-> "RD", req |-> req', id |-> handle])
    /\ UNCHANGED <<file, npkts, conn, handle, hname, sent, got, crx, cmds, boots, mrx, others>>

\* Every packet with the right code is taken as the next piece of the chunk.
DataReply ==
    /\ cpc = "data" /\ crx # << >>
    /\ LET m == Head(crx) IN
       /\ got' = IF m.ok /\ m.op \in {"RD", "END_RD"} THEN Append(got, m.pkt) ELSE got
       /\ cpc' = IF ~m.ok \/ m.op = "END_RD" THEN "prompt" ELSE "data"
    /\ crx' = Tail(crx)
    /\ UNCHANGED <<file, npkts, conn, handle, hname, sent, cmds, boots, req, mrx, srx, others>>

\* dfs_client_write_chunk_data: one turn of its loop, ...
SendPacket ==
    /\ cpc = "send" /\ sent < npkts
    /\ sent' = sent + 1
    /\ req' = IF sent = 0 THEN req + 1 ELSE req
    /\ SendServer(conn, [op |-> IF sent' = npkts THEN "END_WR" ELSE "WR", req |-> req', id |-> handle,
                         pkt |-> [w |-> cmds, i |-> sent']])
    /\ UNCHANGED <<cpc, file, npkts, conn, handle, hname, got, crx, cmds, boots, mrx, others>>

\* ... its end, ...
AllSent ==
    /\ cpc = "send" /\ sent = npkts
    /\ cpc' = "end"
    /\ UNCHANGED <<file, npkts, conn, handle, hname, sent, got, crx, cmds, boots, req, mrx, srx, others>>

\* ... and the wait for the acknowledgement, which skips other packets.
EndReply ==
    /\ cpc = "end" /\ crx # << >>
    /\ crx' = Tail(crx)
    /\ cpc' = IF Head(crx).op = "END_WR" THEN "prompt" ELSE "end"
    /\ UNCHANGED <<file, npkts, conn, handle, hname, sent, got, cmds, boots, req, mrx, srx, others>>

\* Mutant: the client waits for the data of a chunk without a timeout.
TimeoutNotData ==
    /\ cpc \in {"CR", "RM", "RD", "WR", "end"} /\ Quiet
    /\ cpc' = IF cpc \in {"WR", "end"} THEN "panic" ELSE "prompt"
    /\ UNCHANGED <<file, npkts, conn, handle, hname, sent, got, crx, cmds, boots, req, mrx, srx, others>>

\* Twenty seconds without a packet: only when nobody has one to answer.
Timeout ==
    /\ cpc \in {"CR", "RM", "RD", "data", "WR", "end"} /\ Quiet
    /\ cpc' = IF cpc \in {"WR", "end"} THEN "panic" ELSE "prompt"
    /\ UNCHANGED <<file, npkts, conn, handle, hname, sent, got, crx, cmds, boots, req, mrx, srx, others>>

Shell ==
    \/ ConnectReply \/ ConnectTimeout
    \/ AnyReply \/ HandleRefused \/ HandleReply
    \/ Query \/ DataReply \/ SendPacket \/ AllSent \/ EndReply \/ Timeout

User ==
    \/ Start \/ Quit
    \/ \E op \in {"CR", "RM", "RD"}, n \in Name : Command(op, n, 0)
    \/ \E n \in Name, k \in 0 .. MaxPkts : Command("WR", n, k)

Next ==
    \/ User
    \/ Shell
    \/ Master
    \/ \E s \in Server : ServerReceive(s) \/ ServerSend(s)

Spec == Init /\ [][Next]_vars

\* Every program keeps running, and a connection that is tried again and again
\* gets a packet through: the radio loses packets, but not all of them.
Fairness ==
    /\ WF_vars(Shell) /\ WF_vars(Master)
    /\ SF_vars(ConnectTimeout /\ <<mrx', srx'>> # <<mrx, srx>>)
    /\ SF_vars(Master /\ Len(crx') > Len(crx))
    /\ \A s \in Server :
        /\ WF_vars(ServerReceive(s)) /\ WF_vars(ServerSend(s))
        /\ SF_vars(ServerReceive(s) /\ Len(crx') > Len(crx))

FairSpec == Spec /\ Fairness

-----------------------------------------------------------------------------
(* Properties. *)

\* The types of the state of the three programs.
TypeOK ==
    /\ cpc \in {"off", "cnct", "prompt", "CR", "RM", "RD", "WR", "cnct_rd", "query", "data",
                "cnct_wr", "send", "end", "panic"}
    /\ {file, hname} \subseteq Name \cup {NoName}
    /\ npkts \in 0 .. MaxPkts /\ sent \in 0 .. MaxPkts
    /\ conn \in Server /\ handle \in ChunkId \cup {0} /\ chunk_id \in ChunkId \cup {0}
    /\ got \in Seq(Packet)
    /\ \A i \in 1 .. Len(dir) : dir[i].name \in Name \cup {NoName} /\ dir[i].clus \in Cluster \cup {0}
    /\ disk \in [Cluster -> Map]
    /\ \A s \in Server : \A id \in DOMAIN chunk[s] : id \in ChunkId /\ chunk[s][id] \in Seq(Packet)
    /\ Len(crx) <= Cap /\ Len(mrx) <= Cap


\* Two files never share a chunk (README: chunks have unique chunk IDs).
UniqueChunkIds ==
    \A i, j \in 1 .. Len(dir) :
        (i # j /\ {dir[i].name, dir[j].name} \subseteq Name /\ 0 \notin {dir[i].clus, dir[j].clus})
            => disk[dir[i].clus].id # disk[dir[j].clus].id

Before(p, q) == p.w < q.w \/ (p.w = q.w /\ p.i < q.i)
Sorted(ps) == \A i, j \in 1 .. Len(ps) : i < j => Before(ps[i], ps[j])

\* A chunk holds the packets of the lines written to it in the order in which
\* they were sent, each at most once, although chunkservers ignore offsets.
ChunksSorted == \A s \in Server : \A id \in DOMAIN chunk[s] : Sorted(chunk[s][id])


\* A line the chunkserver acknowledges (DFS_END_WR) is stored completely.
AckedLineStored ==
    (cpc = "end" /\ crx # << >> /\ Head(crx).op = "END_WR") =>
        /\ handle \in DOMAIN chunk[conn]
        /\ \A i \in 1 .. npkts : \E j \in 1 .. Len(chunk[conn][handle]) :
                chunk[conn][handle][j] = [w |-> cmds, i |-> i]

\* The client uses the handle it got for the file of its command; the handle
\* names the file it is for, and the client does not compare the names.
HandleForRequest == cpc \in {"cnct_rd", "query", "data", "cnct_wr", "send", "end"} => hname = file

\* The chunk a line is sent to is the chunk the master has recorded for the file.
HandleIsMapped ==
    (cpc = "send" /\ Entries(file) # {}) => FileMaps(file) = <<[id |-> handle, srv |-> conn]>>

\* The assertion of cluster_to_lba does not fail on the master.
MasterStaysUp == mup

\* Every command ends, at the prompt or with a panic; only quit leaves the shell.
CommandsEnd == []<>(cpc \in {"off", "prompt", "panic"})
=============================================================================
