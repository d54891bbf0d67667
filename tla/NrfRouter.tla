----------------------------- MODULE NrfRouter ------------------------------
(***************************************************************************)
(* Registration at the router: nrf_rt_open_registration broadcasts OPEN    *)
(* and answers REG packets, nrf_rt_try_register takes part in it at each   *)
(* node.  Sends are those without acknowledgement (nrf_send_ack calls      *)
(* nrf_tx_send_noack); any receiver may miss a packet, which the sender    *)
(* does not see.  Packets are fetched by polling: with USE_RX_INTERRUPT   *)
(* nobody fetches them, because these radios are not registered with the   *)
(* interrupt handler, and every read times out.                            *)
(***************************************************************************)
EXTENDS Naturals, Sequences, FiniteSets

CONSTANTS
    RtNode,       \* nodes that register
    RtAddr,       \* addresses they may choose, not 0
    RtWindow,     \* nrf_rt_open_window
    RtTurns,      \* turns of a node's loop, 100 in the code
    RtFull        \* n_conns at which the slots count as full, 6 in the code

VARIABLES
    node_addr,    \* the address registered for each pipe of prx, or 0
    rt_open,      \* EN_RXADDR of prx
    n_conns,      \* prx->n_conns
    rpc, turn,    \* the router's step and its loop counter
    ptx,          \* packets received by the router, from the nodes
    chosen,       \* the address each node chooses
    npc, nturn,   \* each node's step and its loop counter
    p1,           \* the address each node listens to
    data,         \* the packet buffer of each node
    nrx,          \* packets received by each node
    full_len,     \* sends return the packet's length: a build without USE_TX_INTERRUPT
    served,       \* the pipe each node was told to send to, or 0
    assigned      \* history: addresses ever registered

router == <<node_addr, rt_open, n_conns, rpc, turn, full_len, assigned>>
rt_nodes == <<chosen, npc, nturn, p1, data, served>>
rt_vars == <<router, rt_nodes, ptx, nrx>>

RtSlot == 1 .. 5
node_init_addr == "init"

\* A node chooses an address of its own: not the one for nodes without one.
ASSUME RouterAssumption == 0 \notin RtAddr /\ node_init_addr \notin RtAddr

\* After a restart of the router prx may have any pipes open.
RtInit ==
    /\ node_addr = [i \in RtSlot |-> 0] /\ rt_open \in {{}, {0, 1}} /\ n_conns = 0
    /\ rpc = "open" /\ turn = 0 /\ ptx = <<>> /\ assigned = {}
    /\ full_len \in BOOLEAN
    /\ chosen \in [RtNode -> RtAddr]
    /\ npc = [n \in RtNode |-> "first"] /\ nturn = [n \in RtNode |-> 0]
    /\ p1 = [n \in RtNode |-> node_init_addr]
    /\ data = [n \in RtNode |-> [op |-> "none", pipe |-> 0]]
    /\ nrx = [n \in RtNode |-> <<>>] /\ served = [n \in RtNode |-> 0]

\* A packet to addr reaches some of the nodes that listen there.
Deliver(pkt, addr) ==
    \E got_it \in SUBSET {n \in RtNode : p1[n] = addr} :
        nrx' = [n \in RtNode |-> IF n \in got_it THEN Append(nrx[n], pkt) ELSE nrx[n]]

-----------------------------------------------------------------------------
(* The router. *)

\* The loop goes on while prx->n_conns == 6, too.
BroadcastOpen ==
    /\ rpc = "open" /\ (turn < RtWindow \/ n_conns = RtFull)
    /\ Deliver([op |-> "OPEN", pipe |-> 0], node_init_addr)
    /\ rpc' = "read"
    /\ UNCHANGED <<node_addr, rt_open, n_conns, turn, full_len, assigned, rt_nodes, ptx>>

\* nrf_read_exact_timeout: no packet within a second.
NoReg ==
    /\ rpc = "read" /\ ptx = <<>>
    /\ rpc' = "open" /\ turn' = IF turn < RtWindow THEN turn + 1 ELSE turn
    /\ UNCHANGED <<node_addr, rt_open, n_conns, full_len, assigned, rt_nodes, ptx, nrx>>

\* try_assignment: the slots that hold the address; the first of them is closed.
Taken(addr) == {i \in RtSlot : node_addr[i] = addr}
First(S) == CHOOSE i \in S : \A j \in S : i <= j

\* The slot of a new address: "first_idle" is the first one, idle or not.
first_idle == 1

Reply(op, pipe, addr) == Deliver([op |-> op, pipe |-> pipe], addr)

\* The assignment is taken back when the send does not return the length.
cancel_assignment(i) ==
    /\ rt_open' = rt_open \ {i}
    /\ node_addr' = [node_addr EXCEPT ![i] = 0]
    /\ UNCHANGED n_conns

\* Mutant: the pipe is not opened.
KeepClosed(i, addr) ==
    /\ node_addr' = [node_addr EXCEPT ![i] = addr]
    /\ n_conns' = n_conns + 1
    /\ UNCHANGED rt_open

OpenPipe(i, addr) ==
    /\ rt_open' = rt_open \cup {i}
    /\ node_addr' = [node_addr EXCEPT ![i] = addr]
    /\ n_conns' = n_conns + 1

Assign(addr) ==
    /\ n_conns # RtFull /\ Taken(addr) = {}
    /\ IF full_len THEN OpenPipe(first_idle, addr) ELSE cancel_assignment(first_idle)
    /\ assigned' = assigned \cup {addr}
    /\ Reply("ACP", first_idle, addr)

Refuse(addr) ==
    /\ n_conns = RtFull \/ Taken(addr) # {}
    /\ IF n_conns = RtFull THEN UNCHANGED <<rt_open, node_addr, n_conns>>
       ELSE LET i == First(Taken(addr))
            IN  /\ rt_open' = rt_open \ {i}
                /\ node_addr' = [node_addr EXCEPT ![i] = 0]
                /\ n_conns' = n_conns - 1
    /\ Reply("REJ", 0, addr)
    /\ UNCHANGED assigned

\* A REG packet, the only kind the nodes send.
RouterReads ==
    /\ rpc = "read" /\ ptx # <<>>
    /\ Assign(Head(ptx)) \/ Refuse(Head(ptx))
    /\ ptx' = Tail(ptx)
    /\ rpc' = "open" /\ turn' = IF turn < RtWindow THEN turn + 1 ELSE turn
    /\ UNCHANGED <<full_len, rt_nodes>>

RouterReturns ==
    /\ rpc = "open" /\ turn = RtWindow /\ n_conns # RtFull
    /\ rpc' = "done"
    /\ UNCHANGED <<node_addr, rt_open, n_conns, turn, full_len, assigned, rt_nodes, ptx, nrx>>

Router == BroadcastOpen \/ NoReg \/ RouterReads \/ RouterReturns

-----------------------------------------------------------------------------
(* A node. *)

\* No packet within ten seconds: the registration fails.
NodeGivesUp(n) ==
    /\ npc[n] = "first" /\ nrx[n] = <<>>
    /\ npc' = [npc EXCEPT ![n] = "failed"]
    /\ UNCHANGED <<router, chosen, nturn, p1, data, served, ptx, nrx>>

\* On OPEN the node moves to its address and sends REG, which may be lost.
NodeRegisters(n) ==
    /\ npc[n] = "first" /\ nrx[n] # <<>>
    /\ data' = [data EXCEPT ![n] = Head(nrx[n])]
    /\ nrx' = [nrx EXCEPT ![n] = Tail(@)]
    /\ IF data'[n].op = "OPEN"
       THEN p1' = [p1 EXCEPT ![n] = chosen[n]] /\ ptx' \in {ptx, Append(ptx, chosen[n])}
       ELSE UNCHANGED <<p1, ptx>>
    /\ npc' = [npc EXCEPT ![n] = "wait"]
    /\ UNCHANGED <<router, chosen, nturn, served>>

Accepts(d) == d.op = "ACP"

\* A turn of the loop: the result of the read is not looked at, so after a
\* timeout the last packet is looked at once more.
NodeWaits(n) ==
    /\ npc[n] = "wait" /\ nturn[n] < RtTurns
    /\ IF nrx[n] = <<>> THEN UNCHANGED <<data, nrx>>
       ELSE data' = [data EXCEPT ![n] = Head(nrx[n])] /\ nrx' = [nrx EXCEPT ![n] = Tail(@)]
    /\ nturn' = [nturn EXCEPT ![n] = @ + 1]
    /\ IF Accepts(data'[n])
       THEN npc' = [npc EXCEPT ![n] = "ok"] /\ served' = [served EXCEPT ![n] = data'[n].pipe]
       ELSE /\ npc' = [npc EXCEPT ![n] = IF data'[n].op = "OPEN" THEN "wait" ELSE "failed"]
            /\ UNCHANGED served
    /\ UNCHANGED <<router, chosen, p1, ptx>>

NodeTired(n) ==
    /\ npc[n] = "wait" /\ nturn[n] = RtTurns
    /\ npc' = [npc EXCEPT ![n] = "failed"]
    /\ UNCHANGED <<router, chosen, nturn, p1, data, served, ptx, nrx>>

RtNodeStep(n) == NodeGivesUp(n) \/ NodeRegisters(n) \/ NodeWaits(n) \/ NodeTired(n)

RtNext == Router \/ \E n \in RtNode : RtNodeStep(n)

RtSpec ==
    /\ RtInit /\ [][RtNext]_rt_vars
    /\ WF_rt_vars(Router) /\ \A n \in RtNode : WF_rt_vars(RtNodeStep(n))

-----------------------------------------------------------------------------
(* Properties. *)

DistinctChoice == \A m, n \in RtNode : m # n => chosen[m] # chosen[n]

\* A node whose registration succeeded was registered under its address, and
\* when no two nodes choose the same one the router listens on the pipe that it
\* was told, whatever packets were lost and whatever was open before.  Where the
\* send does not return the length, every assignment has been taken back.
AcceptedIsServed ==
    \A n \in RtNode : npc[n] = "ok" =>
        /\ chosen[n] \in assigned /\ served[n] \in RtSlot
        /\ DistinctChoice => IF full_len THEN served[n] \in rt_open
                             ELSE n_conns = 0 /\ 1 \notin rt_open

\* Registration ends at the router, if fewer than six nodes were accepted in it.
RouterEnds == (RtWindow < RtFull) => (rpc = "read" ~> rpc = "done")

\* Every node has a pipe of its own, as the comment of try_assignment says ("all
\* rx pipes are occupied").  It does not hold: the first slot is always taken.
PipePerNode ==
    \A m, n \in RtNode : m # n /\ DistinctChoice /\ {npc[m], npc[n]} = {"ok"} => served[m] # served[n]
=============================================================================
