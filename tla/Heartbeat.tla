----------------------------- MODULE Heartbeat -----------------------------
(***************************************************************************)
(* The heartbeat protocol between the master and the chunkservers          *)
(* (dfs/dfs-master.c and the DFS_HB case of dfs/dfs-chunkserver.c).  The   *)
(* master runs two threads, the heartbeat daemon and the main loop.  Their *)
(* cpsr_int_disable sections still switch threads at every trace message,  *)
(* because printing blocks while the other thread holds stdio, so each     *)
(* action ends at such a point.  The radio loses packets, keeps their      *)
(* order, and a full receive queue drops them.                             *)
(***************************************************************************)
EXTENDS Integers, Sequences

CONSTANTS
    NumServer,        \* master->num_chunkserver
    DFS_HB_MAX_LAG,   \* heartbeats a server may miss
    Word,             \* 2^32
    MaxHb,            \* bound on the heartbeat cycles of a behaviour
    QueueCap,         \* packets a receive queue holds
    Configs           \* possible server ids configured at the servers

Server == 0 .. NumServer - 1

ASSUME HeartbeatAssumption ==
    /\ NumServer \in Nat /\ NumServer > 0
    /\ DFS_HB_MAX_LAG \in Nat
    /\ MaxHb \in Nat /\ Word \in Nat /\ MaxHb < Word
    /\ QueueCap \in Nat
    /\ Configs \subseteq [Server -> Server]

VARIABLES
    chunkservers, num_act_server, cur_hb_id,  \* dfs_master_t
    dpc, di,             \* heartbeat daemon: next step, server it is at
    mpc, pkt,            \* main loop: next step, heartbeat reply being handled
    rxq,                 \* the master's receive queue
    id, inbox, alive,    \* chunkservers: configured id, receive queue, running
    crashedAt            \* history: cur_hb_id when a stopped server stopped

daemon == <<dpc, di>>
main == <<mpc, pkt>>
servers == <<id, inbox, alive, crashedAt>>
vars == <<chunkservers, num_act_server, cur_hb_id, daemon, main, rxq, servers>>

HbReply == [port_id : Server, addr : Server, hb_id : 0 .. MaxHb]
None == [port_id |-> 0, addr |-> 0, hb_id |-> 0]

Init ==
    /\ chunkservers = [s \in Server |-> [status |-> "DOWN", cur_hb_id |-> 0]]
    /\ num_act_server = 0 /\ cur_hb_id = 0
    /\ dpc = "sleep" /\ di = 0
    /\ mpc = "recv" /\ pkt = None
    /\ rxq = << >>
    /\ id \in Configs
    /\ inbox = [s \in Server |-> << >>]
    /\ alive = [s \in Server |-> TRUE]
    /\ crashedAt = [s \in Server |-> 0]

\* Mutant: a packet overtakes those already queued.
EnqueueFront(q, m) == {q} \cup (IF Len(q) < QueueCap THEN {<<m>> \o q} ELSE {})

\* A packet sent without acknowledgement arrives last, or is lost.
Enqueue(q, m) == {q} \cup (IF Len(q) < QueueCap THEN {Append(q, m)} ELSE {})

-----------------------------------------------------------------------------
(* The heartbeat daemon. *)

Tick ==
    /\ dpc = "sleep" /\ cur_hb_id < MaxHb
    /\ cur_hb_id' = cur_hb_id + 1
    /\ dpc' = "check" /\ di' = 0
    /\ UNCHANGED <<chunkservers, num_act_server, main, rxq, servers>>

\* Mutant: one more heartbeat may be missed.
LagsByOneMore(s) == (cur_hb_id - chunkservers[s].cur_hb_id) % Word > DFS_HB_MAX_LAG + 1

Lags(s) == (cur_hb_id - chunkservers[s].cur_hb_id) % Word > DFS_HB_MAX_LAG

\* The test is made before the trace message, the mark after it.
Check ==
    /\ dpc = "check"
    /\ dpc' = CASE Lags(di) -> "mark_down"
                [] ~Lags(di) /\ chunkservers[di].status = "DOWN" -> "mark_up"
                [] OTHER -> "send"
    /\ UNCHANGED <<chunkservers, num_act_server, cur_hb_id, di, main, rxq, servers>>

MarkDown ==
    /\ dpc = "mark_down"
    /\ chunkservers' = [chunkservers EXCEPT ![di].status = "DOWN"]
    /\ num_act_server' = (num_act_server - 1) % Word
    /\ dpc' = "send"
    /\ UNCHANGED <<cur_hb_id, di, main, rxq, servers>>

MarkUp ==
    /\ dpc = "mark_up"
    /\ chunkservers' = [chunkservers EXCEPT ![di].status = "OK"]
    /\ num_act_server' = (num_act_server + 1) % Word
    /\ dpc' = "send"
    /\ UNCHANGED <<cur_hb_id, di, main, rxq, servers>>

\* A server that is not running hears nothing.
Send ==
    /\ dpc = "send"
    /\ \E q \in Enqueue(inbox[di], cur_hb_id) :
           inbox' = IF alive[di] THEN [inbox EXCEPT ![di] = q] ELSE inbox
    /\ IF di + 1 < NumServer
       THEN di' = di + 1 /\ dpc' = "check"
       ELSE di' = 0 /\ dpc' = "sleep"
    /\ UNCHANGED <<chunkservers, num_act_server, cur_hb_id, main, rxq, id, alive, crashedAt>>

-----------------------------------------------------------------------------
(* The master's main loop. *)

\* Mutant: the reply is believed whatever address it comes from.
MistakenAnyway(m) == FALSE

\* The reply carries the id of another server than the one that sent it.
mismatch(m) == m.addr # m.port_id

\* DFS_HB up to the trace message that precedes the update.
ReceiveHB ==
    /\ mpc = "recv" /\ rxq # << >>
    /\ rxq' = Tail(rxq)
    /\ IF mismatch(Head(rxq))
       THEN UNCHANGED <<mpc, pkt>>
       ELSE mpc' = "update" /\ pkt' = Head(rxq)
    /\ UNCHANGED <<chunkservers, num_act_server, cur_hb_id, daemon, servers>>

UpdateHB ==
    /\ mpc = "update"
    /\ chunkservers' = [chunkservers EXCEPT ![pkt.port_id].cur_hb_id = pkt.hb_id]
    /\ mpc' = "recv" /\ pkt' = None
    /\ UNCHANGED <<num_act_server, cur_hb_id, daemon, rxq, servers>>

-----------------------------------------------------------------------------
(* The chunkservers. *)

\* The DFS_HB case echoes the heartbeat id with the server's id and address.
ReplyHB(s) ==
    /\ alive[s] /\ inbox[s] # << >>
    /\ inbox' = [inbox EXCEPT ![s] = Tail(@)]
    /\ rxq' \in Enqueue(rxq, [port_id |-> id[s], addr |-> s, hb_id |-> Head(inbox[s])])
    /\ UNCHANGED <<chunkservers, num_act_server, cur_hb_id, daemon, main, id, alive, crashedAt>>

Crash(s) ==
    /\ alive[s]
    /\ alive' = [alive EXCEPT ![s] = FALSE]
    /\ inbox' = [inbox EXCEPT ![s] = << >>]
    /\ crashedAt' = [crashedAt EXCEPT ![s] = cur_hb_id]
    /\ UNCHANGED <<chunkservers, num_act_server, cur_hb_id, daemon, main, rxq, id>>

Restart(s) ==
    /\ ~alive[s]
    /\ alive' = [alive EXCEPT ![s] = TRUE]
    /\ crashedAt' = [crashedAt EXCEPT ![s] = 0]
    /\ UNCHANGED <<chunkservers, num_act_server, cur_hb_id, daemon, main, rxq, id, inbox>>

Daemon == Tick \/ Check \/ MarkDown \/ MarkUp \/ Send
Main == ReceiveHB \/ UpdateHB
Servers == \E s \in Server : ReplyHB(s) \/ Crash(s) \/ Restart(s)
Next == Daemon \/ Main \/ Servers

Spec == Init /\ [][Next]_vars

-----------------------------------------------------------------------------
(* Properties. *)

\* The state of the master's two threads, the servers and the queues has its
\* type; counters are words.
TypeOK ==
    /\ chunkservers \in [Server -> [status : {"DOWN", "OK"}, cur_hb_id : 0 .. MaxHb]]
    /\ num_act_server \in 0 .. Word - 1 /\ cur_hb_id \in 0 .. MaxHb
    /\ dpc \in {"sleep", "check", "mark_down", "mark_up", "send"} /\ di \in Server
    /\ mpc \in {"recv", "update"} /\ pkt \in HbReply
    /\ rxq \in Seq(HbReply)
    /\ id \in [Server -> Server] /\ inbox \in [Server -> Seq(0 .. MaxHb)]
    /\ alive \in [Server -> BOOLEAN] /\ crashedAt \in [Server -> 0 .. MaxHb]

\* The daemon has dealt with server s in the present cycle.
Visited(s) == dpc = "sleep" \/ s < di \/ (s = di /\ dpc = "send")

\* A server that stopped more than DFS_HB_MAX_LAG heartbeats ago is marked
\* down from the moment the daemon has looked at it, although replies it sent
\* earlier may still wait in the receive queue, other servers may answer in
\* its name, and the daemon and the main loop switch inside their sections.
DeadIsDown ==
    \A s \in Server :
        ~alive[s] /\ cur_hb_id - crashedAt[s] > DFS_HB_MAX_LAG /\ Visited(s)
            => chunkservers[s].status = "DOWN"

\* On the way of a heartbeat to a server and back to the master's record of it
\* the ids only decrease, and none is ahead of the master.
InOrder ==
    /\ \A s \in Server :
        /\ chunkservers[s].cur_hb_id <= cur_hb_id
        /\ \A i \in 1 .. Len(inbox[s]) :
            /\ chunkservers[s].cur_hb_id <= inbox[s][i] /\ inbox[s][i] <= cur_hb_id
            /\ \A j \in 1 .. i : inbox[s][j] <= inbox[s][i]
    /\ \A i \in 1 .. Len(rxq) :
        /\ chunkservers[rxq[i].addr].cur_hb_id <= rxq[i].hb_id /\ rxq[i].hb_id <= cur_hb_id
        /\ \A j \in 1 .. Len(inbox[rxq[i].addr]) : rxq[i].hb_id <= inbox[rxq[i].addr][j]
        /\ \A j \in 1 .. i : rxq[j].addr = rxq[i].addr => rxq[j].hb_id <= rxq[i].hb_id
    /\ mpc = "update" =>
        /\ pkt.port_id = pkt.addr
        /\ chunkservers[pkt.addr].cur_hb_id <= pkt.hb_id /\ pkt.hb_id <= cur_hb_id
        /\ \A j \in 1 .. Len(inbox[pkt.addr]) : pkt.hb_id <= inbox[pkt.addr][j]
        /\ \A i \in 1 .. Len(rxq) : rxq[i].addr = pkt.addr => pkt.hb_id <= rxq[i].hb_id

\* Nothing a stopped server sent is newer than the heartbeat it stopped at.
NothingFromTheDead ==
    \A s \in Server : ~alive[s] =>
        /\ crashedAt[s] <= cur_hb_id /\ inbox[s] = << >>
        /\ chunkservers[s].cur_hb_id <= crashedAt[s]
        /\ \A i \in 1 .. Len(rxq) : rxq[i].addr = s => rxq[i].hb_id <= crashedAt[s]
        /\ mpc = "update" /\ pkt.addr = s => pkt.hb_id <= crashedAt[s]

\* The verdict the daemon is about to record still holds for a stopped server.
VerdictStands ==
    dpc = "mark_up" /\ ~alive[di] => cur_hb_id - crashedAt[di] <= DFS_HB_MAX_LAG

\* The strengthening that makes DeadIsDown inductive.
HeartbeatInv == TypeOK /\ InOrder /\ NothingFromTheDead /\ VerdictStands /\ DeadIsDown

\* At the end of a cycle a server marked active has answered one of the last
\* DFS_HB_MAX_LAG heartbeats (or the master has just started).
ActiveHasAnswered ==
    dpc = "sleep" =>
        \A s \in Server : chunkservers[s].status = "OK"
            => cur_hb_id - chunkservers[s].cur_hb_id <= DFS_HB_MAX_LAG

\* The heartbeat id the master holds for a server never goes back, although
\* the test for outdated replies in the DFS_HB case is commented out.
HeartbeatsInOrder ==
    [][\A s \in Server : chunkservers'[s].cur_hb_id >= chunkservers[s].cur_hb_id]_vars

\* A server is taken out of service only while it lags behind.
OnlyLaggingMarkedDown ==
    [][\A s \in Server :
           chunkservers[s].status = "OK" /\ chunkservers'[s].status = "DOWN" => Lags(s)]_vars
=============================================================================
