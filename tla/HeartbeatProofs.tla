-------------------------- MODULE HeartbeatProofs ---------------------------
(***************************************************************************)
(* For every number of servers, lag, queue size and bound on the cycles:   *)
(* a server that has stopped is marked down in time, and the heartbeat     *)
(* recorded for a server never goes back.  The search for a server for a   *)
(* new chunk, which runs between them, picks one that it saw active.       *)
(***************************************************************************)
EXTENDS ServerChoice, TLAPS

USE SMTT(20), ZenonT(20)

\* The three parts of InOrder: the servers' inboxes, the master's queue and the
\* reply in hand.
InboxOrder ==
    \A s \in Server :
        /\ chunkservers[s].cur_hb_id <= cur_hb_id
        /\ \A i \in 1 .. Len(inbox[s]) :
            /\ chunkservers[s].cur_hb_id <= inbox[s][i] /\ inbox[s][i] <= cur_hb_id
            /\ \A j \in 1 .. i : inbox[s][j] <= inbox[s][i]
RxOrder ==
    \A i \in 1 .. Len(rxq) :
        /\ chunkservers[rxq[i].addr].cur_hb_id <= rxq[i].hb_id /\ rxq[i].hb_id <= cur_hb_id
        /\ \A j \in 1 .. Len(inbox[rxq[i].addr]) : rxq[i].hb_id <= inbox[rxq[i].addr][j]
        /\ \A j \in 1 .. i : rxq[j].addr = rxq[i].addr => rxq[j].hb_id <= rxq[i].hb_id
PktOrder ==
    mpc = "update" =>
        /\ pkt.port_id = pkt.addr
        /\ chunkservers[pkt.addr].cur_hb_id <= pkt.hb_id /\ pkt.hb_id <= cur_hb_id
        /\ \A j \in 1 .. Len(inbox[pkt.addr]) : pkt.hb_id <= inbox[pkt.addr][j]
        /\ \A i \in 1 .. Len(rxq) : rxq[i].addr = pkt.addr => pkt.hb_id <= rxq[i].hb_id

\* InOrder is its three parts.
LEMMA InOrderParts == InOrder <=> InboxOrder /\ RxOrder /\ PktOrder
BY DEF InOrder, InboxOrder, RxOrder, PktOrder

\* The lag that the master computes in words is the difference of the ids.
LEMMA LagIsDifference ==
    ASSUME NEW a \in 0 .. MaxHb, NEW b \in 0 .. MaxHb, b <= a
    PROVE  (a - b) % Word = a - b
<1> DEFINE d == a - b
           q == d \div Word
           r == d % Word
<1>1. Word \in Nat /\ Word > 0 /\ d \in 0 .. Word - 1
  BY HeartbeatAssumption
<1>2. r \in 0 .. Word - 1 /\ q \in Int /\ d = Word * q + r
  BY <1>1
<1> HIDE DEF d, q, r
<1>3. q = 0
  <2>1. q >= 1 => Word * q >= Word
    BY <1>1, <1>2
  <2>2. q <= -1 => Word * q <= -Word
    BY <1>1, <1>2
  <2> QED BY <1>1, <1>2, <2>1, <2>2
<1>4. r = d
  BY <1>1, <1>2, <1>3
<1> QED BY <1>4 DEF d, r

\* What the radio does to a queue: the packet is its last, or it is as it was.
LEMMA EnqueueLast ==
    ASSUME NEW S, NEW q \in Seq(S), NEW m \in S, NEW r \in Enqueue(q, m)
    PROVE  /\ r \in Seq(S)
           /\ \/ r = q
              \/ /\ Len(r) = Len(q) + 1 /\ r[Len(q) + 1] = m
                 /\ \A i \in 1 .. Len(q) : r[i] = q[i]
BY DEF Enqueue

\* What taking the first element leaves of a queue.
LEMMA TailOf ==
    ASSUME NEW S, NEW q \in Seq(S), q # << >>
    PROVE  /\ Tail(q) \in Seq(S) /\ Head(q) \in S /\ Head(q) = q[1]
           /\ Len(q) \in Nat /\ Len(q) >= 1 /\ Len(Tail(q)) = Len(q) - 1
           /\ \A i \in 1 .. Len(q) - 1 : Tail(q)[i] = q[i + 1]
OBVIOUS

-----------------------------------------------------------------------------

\* The daemon's send adds the present id to one inbox, of a running server.
LEMMA SendAdds ==
    ASSUME TypeOK, Send
    PROVE  /\ inbox' \in [Server -> Seq(0 .. MaxHb)]
           /\ \A s \in Server :
                \/ inbox'[s] = inbox[s]
                \/ /\ alive[s]
                   /\ Len(inbox'[s]) = Len(inbox[s]) + 1 /\ inbox'[s][Len(inbox[s]) + 1] = cur_hb_id
                   /\ \A i \in 1 .. Len(inbox[s]) : inbox'[s][i] = inbox[s][i]
<1>1. PICK q : /\ q \in Enqueue(inbox[di], cur_hb_id)
               /\ inbox' = IF alive[di] THEN [inbox EXCEPT ![di] = q] ELSE inbox
  BY DEF Send
<1>2. inbox[di] \in Seq(0 .. MaxHb) /\ cur_hb_id \in 0 .. MaxHb /\ di \in Server
      /\ inbox \in [Server -> Seq(0 .. MaxHb)]
  BY DEF TypeOK
<1>3. /\ q \in Seq(0 .. MaxHb)
      /\ \/ q = inbox[di]
         \/ /\ Len(q) = Len(inbox[di]) + 1 /\ q[Len(inbox[di]) + 1] = cur_hb_id
            /\ \A i \in 1 .. Len(inbox[di]) : q[i] = inbox[di][i]
  <2> DEFINE Hb == 0 .. MaxHb
  <2>1. inbox[di] \in Seq(Hb) /\ cur_hb_id \in Hb
    BY <1>2
  <2> HIDE DEF Hb
  <2>2. /\ q \in Seq(Hb)
        /\ \/ q = inbox[di]
           \/ /\ Len(q) = Len(inbox[di]) + 1 /\ q[Len(inbox[di]) + 1] = cur_hb_id
              /\ \A i \in 1 .. Len(inbox[di]) : q[i] = inbox[di][i]
    BY <1>1, <2>1, EnqueueLast
  <2> QED BY <2>2 DEF Hb
<1>4. inbox' \in [Server -> Seq(0 .. MaxHb)] /\ \A s \in Server \ {di} : inbox'[s] = inbox[s]
  BY <1>1, <1>2, <1>3
<1>5. inbox'[di] = inbox[di] \/ (alive[di] /\ inbox'[di] = q)
  BY <1>1, <1>2
<1> QED BY <1>3, <1>4, <1>5

\* A server's reply takes the first id of its inbox, which goes to the end of
\* the master's queue with the server's address, or is lost.
LEMMA ReplyMoves ==
    ASSUME TypeOK, NEW s \in Server, ReplyHB(s)
    PROVE  /\ inbox' \in [Server -> Seq(0 .. MaxHb)] /\ rxq' \in Seq(HbReply)
           /\ inbox[s][1] \in 0 .. MaxHb
           /\ Len(inbox[s]) \in Nat /\ Len(inbox[s]) >= 1 /\ Len(inbox'[s]) = Len(inbox[s]) - 1
           /\ \A i \in 1 .. Len(inbox[s]) - 1 : inbox'[s][i] = inbox[s][i + 1]
           /\ \A u \in Server \ {s} : inbox'[u] = inbox[u]
           /\ \/ rxq' = rxq
              \/ /\ Len(rxq') = Len(rxq) + 1
                 /\ rxq'[Len(rxq) + 1].addr = s /\ rxq'[Len(rxq) + 1].hb_id = inbox[s][1]
                 /\ \A i \in 1 .. Len(rxq) : rxq'[i] = rxq[i]
<1> DEFINE m == [port_id |-> id[s], addr |-> s, hb_id |-> Head(inbox[s])]
<1>1. inbox[s] \in Seq(0 .. MaxHb) /\ inbox[s] # << >> /\ inbox \in [Server -> Seq(0 .. MaxHb)]
      /\ rxq \in Seq(HbReply) /\ id[s] \in Server
  BY DEF TypeOK, ReplyHB
<1>2. /\ Tail(inbox[s]) \in Seq(0 .. MaxHb) /\ Head(inbox[s]) \in 0 .. MaxHb
      /\ Head(inbox[s]) = inbox[s][1]
      /\ Len(inbox[s]) \in Nat /\ Len(inbox[s]) >= 1 /\ Len(Tail(inbox[s])) = Len(inbox[s]) - 1
      /\ \A i \in 1 .. Len(inbox[s]) - 1 : Tail(inbox[s])[i] = inbox[s][i + 1]
  BY <1>1, TailOf, Zenon
<1>3. m \in HbReply /\ m.addr = s /\ m.hb_id = inbox[s][1]
  BY <1>1, <1>2 DEF HbReply
<1>4. inbox' = [inbox EXCEPT ![s] = Tail(inbox[s])] /\ rxq' \in Enqueue(rxq, m)
  BY <1>1 DEF ReplyHB
<1> HIDE DEF m
<1>5. /\ rxq' \in Seq(HbReply)
      /\ \/ rxq' = rxq
         \/ /\ Len(rxq') = Len(rxq) + 1 /\ rxq'[Len(rxq) + 1] = m
            /\ \A i \in 1 .. Len(rxq) : rxq'[i] = rxq[i]
  BY <1>1, <1>3, <1>4, EnqueueLast, SMTT(30)
<1>6. /\ inbox' \in [Server -> Seq(0 .. MaxHb)] /\ inbox'[s] = Tail(inbox[s])
      /\ \A u \in Server \ {s} : inbox'[u] = inbox[u]
  BY <1>1, <1>2, <1>4
<1> QED BY <1>2, <1>3, <1>5, <1>6

\* The main loop takes the first reply of its queue.
LEMMA ReceiveTakes ==
    ASSUME TypeOK, ReceiveHB
    PROVE  /\ rxq' \in Seq(HbReply) /\ Head(rxq) = rxq[1] /\ rxq[1] \in HbReply
           /\ Len(rxq) \in Nat /\ Len(rxq) >= 1 /\ Len(rxq') = Len(rxq) - 1
           /\ \A i \in 1 .. Len(rxq) - 1 : rxq'[i] = rxq[i + 1]
BY TailOf DEF TypeOK, ReceiveHB

-----------------------------------------------------------------------------

\* The first state satisfies the invariant.
LEMMA HeartbeatInvInit == Init => HeartbeatInv
<1> SUFFICES ASSUME Init PROVE HeartbeatInv
  OBVIOUS
<1> USE HeartbeatAssumption
<1>1. TypeOK
  BY DEF Init, TypeOK, Server, HbReply, None
<1>2. InOrder
  BY DEF Init, InOrder
<1>3. NothingFromTheDead /\ VerdictStands /\ DeadIsDown
  BY DEF Init, NothingFromTheDead, VerdictStands, DeadIsDown
<1> QED BY <1>1, <1>2, <1>3 DEF HeartbeatInv

\* Each step keeps the types.
LEMMA HeartbeatTypes == TypeOK /\ [Next]_vars => TypeOK'
<1> SUFFICES ASSUME TypeOK, [Next]_vars PROVE TypeOK'
  OBVIOUS
<1> USE HeartbeatAssumption
<1>0. Word \in Nat /\ Word > 0
  OBVIOUS
<1>1. CASE Tick
  <2>1. cur_hb_id' \in 0 .. MaxHb /\ di' \in Server
    BY <1>1 DEF Tick, TypeOK, Server
  <2> QED BY <1>1, <2>1 DEF Tick, TypeOK, main, servers
<1>2. CASE Check
  BY <1>2 DEF Check, TypeOK, main, servers
<1>3. CASE MarkDown
  <2>1. (num_act_server - 1) % Word \in 0 .. Word - 1
    BY <1>0 DEF TypeOK
  <2> QED BY <1>3, <2>1, Zenon DEF MarkDown, TypeOK, main, servers
<1>4. CASE MarkUp
  <2>1. (num_act_server + 1) % Word \in 0 .. Word - 1
    BY <1>0 DEF TypeOK
  <2> QED BY <1>4, <2>1, ZenonT(60) DEF MarkUp, TypeOK, main, servers
<1>5. CASE Send
  <2>1. di' \in Server /\ dpc' \in {"sleep", "check"}
    <3>1. di \in 0 .. NumServer - 1
      BY DEF TypeOK, Server
    <3>2. IF di + 1 < NumServer THEN di' = di + 1 /\ dpc' = "check" ELSE di' = 0 /\ dpc' = "sleep"
      BY <1>5 DEF Send
    <3> QED BY <3>1, <3>2 DEF Server
  <2> QED BY <1>5, <2>1, SendAdds, Zenon DEF Send, TypeOK, main
<1>6. CASE ReceiveHB
  BY <1>6, ReceiveTakes DEF ReceiveHB, TypeOK, daemon, servers
<1>7. CASE UpdateHB
  <2>1. pkt' \in HbReply
    BY <1>7 DEF UpdateHB, HbReply, None, Server
  <2>2. chunkservers' \in [Server -> [status : {"DOWN", "OK"}, cur_hb_id : 0 .. MaxHb]]
    <3>1. pkt.port_id \in Server /\ pkt.hb_id \in 0 .. MaxHb
      BY DEF TypeOK, HbReply
    <3>2. chunkservers \in [Server -> [status : {"DOWN", "OK"}, cur_hb_id : 0 .. MaxHb]]
      BY DEF TypeOK
    <3>3. chunkservers' = [chunkservers EXCEPT ![pkt.port_id].cur_hb_id = pkt.hb_id]
      BY <1>7 DEF UpdateHB
    <3> HIDE HeartbeatAssumption
    <3> QED BY <3>1, <3>2, <3>3
  <2> QED BY <1>7, <2>1, <2>2, Zenon DEF UpdateHB, TypeOK, daemon, servers
<1>8. ASSUME NEW s \in Server, ReplyHB(s) PROVE TypeOK'
  BY <1>8, ReplyMoves, Zenon DEF ReplyHB, TypeOK, daemon, main
<1>9. ASSUME NEW s \in Server, Crash(s) PROVE TypeOK'
  BY <1>9 DEF Crash, TypeOK, daemon, main
<1>10. ASSUME NEW s \in Server, Restart(s) PROVE TypeOK'
  BY <1>10 DEF Restart, TypeOK, daemon, main
<1>11. CASE UNCHANGED vars
  BY <1>11 DEF vars, TypeOK, daemon, main, servers
<1> QED BY <1>1, <1>2, <1>3, <1>4, <1>5, <1>6, <1>7, <1>8, <1>9, <1>10, <1>11
           DEF Next, Daemon, Main, Servers

\* What the types say about the elements of the queues.
LEMMA ElementTypes ==
    ASSUME TypeOK
    PROVE  /\ cur_hb_id \in 0 .. MaxHb /\ MaxHb \in Nat
           /\ \A s \in Server :
                /\ chunkservers[s].cur_hb_id \in 0 .. MaxHb /\ crashedAt[s] \in 0 .. MaxHb
                /\ Len(inbox[s]) \in Nat
                /\ \A i \in 1 .. Len(inbox[s]) : inbox[s][i] \in 0 .. MaxHb
           /\ Len(rxq) \in Nat
           /\ \A i \in 1 .. Len(rxq) : rxq[i].addr \in Server /\ rxq[i].hb_id \in 0 .. MaxHb
           /\ pkt.addr \in Server /\ pkt.port_id \in Server /\ pkt.hb_id \in 0 .. MaxHb
<1>1. \A s \in Server : inbox[s] \in Seq(0 .. MaxHb)
  BY DEF TypeOK
<1>2. rxq \in Seq(HbReply)
  BY DEF TypeOK
<1>3. Len(rxq) \in Nat /\ \A i \in 1 .. Len(rxq) : rxq[i] \in HbReply
  BY <1>2
<1>4. \A s \in Server : Len(inbox[s]) \in Nat /\ \A i \in 1 .. Len(inbox[s]) : inbox[s][i] \in 0 .. MaxHb
  <2> DEFINE Hb == 0 .. MaxHb
  <2>1. \A s \in Server : inbox[s] \in Seq(Hb)
    BY <1>1
  <2> HIDE DEF Hb
  <2>2. \A s \in Server : Len(inbox[s]) \in Nat /\ \A i \in 1 .. Len(inbox[s]) : inbox[s][i] \in Hb
    BY <2>1
  <2> QED BY <2>2 DEF Hb
<1>5. \A m \in HbReply : m.addr \in Server /\ m.port_id \in Server /\ m.hb_id \in 0 .. MaxHb
  BY DEF HbReply
<1>6. cur_hb_id \in 0 .. MaxHb /\ pkt \in HbReply /\ \A s \in Server : crashedAt[s] \in 0 .. MaxHb
  BY DEF TypeOK
<1>10. \A s \in Server : chunkservers[s].cur_hb_id \in 0 .. MaxHb
  BY DEF TypeOK
<1>7. \A i \in 1 .. Len(rxq) : rxq[i].addr \in Server /\ rxq[i].hb_id \in 0 .. MaxHb
  BY <1>3, <1>5, Zenon
<1>8. pkt.addr \in Server /\ pkt.port_id \in Server /\ pkt.hb_id \in 0 .. MaxHb
  BY <1>5, <1>6, Zenon
<1>9. MaxHb \in Nat
  BY HeartbeatAssumption
<1> QED BY <1>3, <1>4, <1>6, <1>7, <1>8, <1>9, <1>10, Zenon

\* No step of the master or of a server breaks the order of the ids.
LEMMA InOrderStep ==
    ASSUME TypeOK, TypeOK', InOrder, [Next]_vars
    PROVE  InOrder'
<1>t. /\ cur_hb_id \in 0 .. MaxHb /\ MaxHb \in Nat
      /\ \A s \in Server :
            /\ chunkservers[s].cur_hb_id \in 0 .. MaxHb
            /\ Len(inbox[s]) \in Nat
            /\ \A i \in 1 .. Len(inbox[s]) : inbox[s][i] \in 0 .. MaxHb
      /\ Len(rxq) \in Nat
      /\ \A i \in 1 .. Len(rxq) : rxq[i].addr \in Server /\ rxq[i].hb_id \in 0 .. MaxHb
      /\ pkt.addr \in Server /\ pkt.port_id \in Server /\ pkt.hb_id \in 0 .. MaxHb
  BY ElementTypes
<1>0. InboxOrder /\ RxOrder /\ PktOrder
  BY InOrderParts
<1>1. CASE Tick
  <2>1. cur_hb_id' = cur_hb_id + 1 /\ UNCHANGED <<chunkservers, mpc, pkt, rxq, inbox>>
    BY <1>1 DEF Tick, main, servers
  <2>2. InboxOrder'
    BY <1>t, <1>0, <2>1 DEF InboxOrder
  <2>3. RxOrder'
    <3> SUFFICES ASSUME NEW i \in 1 .. Len(rxq) PROVE rxq[i].hb_id <= cur_hb_id'
      BY <1>0, <2>1 DEF RxOrder
    <3>1. rxq[i].hb_id \in Int /\ cur_hb_id \in Int /\ rxq[i].hb_id <= cur_hb_id
      BY <1>t, <1>0 DEF RxOrder
    <3> QED BY <2>1, <3>1
  <2>4. PktOrder'
    BY <1>t, <1>0, <2>1 DEF PktOrder
  <2> QED BY <2>2, <2>3, <2>4, InOrderParts, PTL
<1>2. CASE Check \/ MarkDown \/ MarkUp
  <2>1. UNCHANGED <<cur_hb_id, mpc, pkt, rxq, inbox>>
    BY <1>2 DEF Check, MarkDown, MarkUp, main, servers
  <2>2. \A s \in Server : chunkservers'[s].cur_hb_id = chunkservers[s].cur_hb_id
    <3>1. \/ chunkservers' = chunkservers
          \/ chunkservers' = [chunkservers EXCEPT ![di].status = "DOWN"]
          \/ chunkservers' = [chunkservers EXCEPT ![di].status = "OK"]
      BY <1>2 DEF Check, MarkDown, MarkUp
    <3>2. chunkservers \in [Server -> [status : {"DOWN", "OK"}, cur_hb_id : 0 .. MaxHb]]
      BY DEF TypeOK
    <3> QED BY <3>1, <3>2
  <2>3. InboxOrder'
    BY <1>t, <1>0, <2>1, <2>2 DEF InboxOrder
  <2>4. RxOrder'
    BY <1>t, <1>0, <2>1, <2>2 DEF RxOrder
  <2>5. PktOrder'
    BY <1>t, <1>0, <2>1, <2>2 DEF PktOrder
  <2> QED BY <2>3, <2>4, <2>5, InOrderParts, PTL
<1>3. CASE Send
  <2>1. UNCHANGED <<chunkservers, cur_hb_id, mpc, pkt, rxq>>
    BY <1>3 DEF Send, main
  <2>2. \A s \in Server :
           \/ inbox'[s] = inbox[s]
           \/ /\ Len(inbox'[s]) = Len(inbox[s]) + 1 /\ inbox'[s][Len(inbox[s]) + 1] = cur_hb_id
              /\ \A i \in 1 .. Len(inbox[s]) : inbox'[s][i] = inbox[s][i]
    BY <1>3, SendAdds
  <2>3. ASSUME NEW s \in Server, NEW i \in 1 .. Len(inbox'[s])
        PROVE  \/ i \in 1 .. Len(inbox[s]) /\ inbox'[s][i] = inbox[s][i]
               \/ i = Len(inbox[s]) + 1 /\ inbox'[s][i] = cur_hb_id
    <3>1. Len(inbox[s]) \in Nat
      BY <1>t
    <3>2. CASE inbox'[s] = inbox[s]
      BY <2>3, <3>2
    <3>3. CASE inbox'[s] # inbox[s]
      <4>1. /\ Len(inbox'[s]) = Len(inbox[s]) + 1 /\ inbox'[s][Len(inbox[s]) + 1] = cur_hb_id
            /\ \A j \in 1 .. Len(inbox[s]) : inbox'[s][j] = inbox[s][j]
        BY <2>2, <3>3
      <4>2. i \in 1 .. Len(inbox[s]) \/ i = Len(inbox[s]) + 1
        BY <2>3, <3>1, <4>1
      <4> QED BY <4>1, <4>2
    <3> QED BY <3>2, <3>3
  <2>4. InboxOrder'
    <3> SUFFICES ASSUME NEW s \in Server, NEW i \in 1 .. Len(inbox'[s])
                 PROVE  /\ chunkservers[s].cur_hb_id <= inbox'[s][i] /\ inbox'[s][i] <= cur_hb_id
                        /\ \A k \in 1 .. i : inbox'[s][k] <= inbox'[s][i]
      BY <1>0, <2>1 DEF InboxOrder
    <3>1. chunkservers[s].cur_hb_id <= cur_hb_id
      BY <1>0 DEF InboxOrder
    <3>2. Len(inbox[s]) \in Nat /\ i \in Nat /\ i <= Len(inbox[s]) + 1
      <4>1. Len(inbox[s]) \in Nat
        BY <1>t
      <4>2. i \in 1 .. Len(inbox[s]) \/ i = Len(inbox[s]) + 1
        BY <2>3
      <4> QED BY <4>1, <4>2
    <3>3. CASE i \in 1 .. Len(inbox[s]) /\ inbox'[s][i] = inbox[s][i]
      <4>1. \A k \in 1 .. i : inbox'[s][k] = inbox[s][k]
        BY <1>t, <2>2, <3>2, <3>3
      <4> QED BY <1>0, <3>3, <4>1 DEF InboxOrder
    <3>4. CASE i = Len(inbox[s]) + 1 /\ inbox'[s][i] = cur_hb_id
      <4>1. \A k \in 1 .. i : inbox'[s][k] <= cur_hb_id
        <5> TAKE k \in 1 .. i
        <5>1. k \in 1 .. Len(inbox'[s])
          BY <1>t, <2>2, <3>2, <3>4
        <5>2. \/ k \in 1 .. Len(inbox[s]) /\ inbox'[s][k] = inbox[s][k]
              \/ inbox'[s][k] = cur_hb_id
          BY <2>3, <5>1
        <5> QED BY <1>t, <1>0, <5>2 DEF InboxOrder
      <4> QED BY <1>t, <3>1, <3>4, <4>1
    <3> QED BY <2>3, <3>3, <3>4
  <2>5. ASSUME NEW s \in Server, NEW h \in 0 .. MaxHb, h <= cur_hb_id,
               \A k \in 1 .. Len(inbox[s]) : h <= inbox[s][k]
        PROVE  \A k \in 1 .. Len(inbox'[s]) : h <= inbox'[s][k]
    <3> TAKE k \in 1 .. Len(inbox'[s])
    <3>1. \/ k \in 1 .. Len(inbox[s]) /\ inbox'[s][k] = inbox[s][k]
          \/ inbox'[s][k] = cur_hb_id
      BY <2>3
    <3> QED BY <2>5, <3>1
  <2>6. RxOrder'
    <3> SUFFICES ASSUME NEW i \in 1 .. Len(rxq)
                 PROVE  \A k \in 1 .. Len(inbox'[rxq[i].addr]) : rxq[i].hb_id <= inbox'[rxq[i].addr][k]
      BY <1>0, <2>1 DEF RxOrder
    <3>1. /\ rxq[i].addr \in Server /\ rxq[i].hb_id \in 0 .. MaxHb /\ rxq[i].hb_id <= cur_hb_id
          /\ \A k \in 1 .. Len(inbox[rxq[i].addr]) : rxq[i].hb_id <= inbox[rxq[i].addr][k]
      BY <1>t, <1>0 DEF RxOrder
    <3> QED BY <2>5, <3>1
  <2>7. PktOrder'
    <3> SUFFICES ASSUME mpc = "update"
                 PROVE  \A k \in 1 .. Len(inbox'[pkt.addr]) : pkt.hb_id <= inbox'[pkt.addr][k]
      BY <1>0, <2>1 DEF PktOrder
    <3>1. /\ pkt.addr \in Server /\ pkt.hb_id \in 0 .. MaxHb /\ pkt.hb_id <= cur_hb_id
          /\ \A k \in 1 .. Len(inbox[pkt.addr]) : pkt.hb_id <= inbox[pkt.addr][k]
      BY <1>t, <1>0 DEF PktOrder
    <3> QED BY <2>5, <3>1
  <2> QED BY <2>4, <2>6, <2>7, InOrderParts, PTL
<1>4. CASE ReceiveHB
  <2>1. UNCHANGED <<chunkservers, cur_hb_id, inbox>>
    BY <1>4 DEF ReceiveHB, servers
  <2>2. /\ Len(rxq) >= 1 /\ Len(rxq') = Len(rxq) - 1
        /\ \A i \in 1 .. Len(rxq) - 1 : rxq'[i] = rxq[i + 1]
    BY <1>4, ReceiveTakes
  <2>3. \A i \in 1 .. Len(rxq') : i + 1 \in 1 .. Len(rxq) /\ rxq'[i] = rxq[i + 1]
    <3>1. Len(rxq) \in Nat
      BY <1>t
    <3> QED BY <2>2, <3>1
  <2>4. InboxOrder'
    BY <1>t, <1>0, <2>1 DEF InboxOrder
  <2>5. RxOrder'
    <3> SUFFICES ASSUME NEW i \in 1 .. Len(rxq')
                 PROVE  /\ chunkservers[rxq'[i].addr].cur_hb_id <= rxq'[i].hb_id
                        /\ rxq'[i].hb_id <= cur_hb_id
                        /\ \A k \in 1 .. Len(inbox[rxq'[i].addr]) : rxq'[i].hb_id <= inbox[rxq'[i].addr][k]
                        /\ \A k \in 1 .. i : rxq'[k].addr = rxq'[i].addr => rxq'[k].hb_id <= rxq'[i].hb_id
      BY <2>1 DEF RxOrder
    <3>1. i + 1 \in 1 .. Len(rxq) /\ rxq'[i] = rxq[i + 1]
      BY <2>3
    <3>2. \A k \in 1 .. i : rxq'[k].addr = rxq'[i].addr => rxq'[k].hb_id <= rxq'[i].hb_id
      <4> TAKE k \in 1 .. i
      <4>1. k + 1 \in 1 .. i + 1 /\ rxq'[k] = rxq[k + 1]
        BY <1>t, <2>2, <2>3
      <4>2. rxq[k + 1].addr = rxq[i + 1].addr => rxq[k + 1].hb_id <= rxq[i + 1].hb_id
        BY <1>0, <3>1, <4>1 DEF RxOrder
      <4> QED BY <3>1, <4>1, <4>2
    <3> QED BY <1>0, <3>1, <3>2 DEF RxOrder
  <2>6. PktOrder'
    <3>1. CASE mismatch(Head(rxq))
      <4>1. mpc' = mpc /\ mpc = "recv"
        BY <1>4, <3>1 DEF ReceiveHB
      <4> QED BY <4>1 DEF PktOrder
    <3>2. CASE ~mismatch(Head(rxq))
      <4>1. pkt' = rxq[1] /\ rxq[1].addr = rxq[1].port_id
        BY <1>4, <3>2, ReceiveTakes DEF ReceiveHB, mismatch
      <4>2. 1 \in 1 .. Len(rxq)
        BY <1>t, <2>2
      <4>3. \A i \in 1 .. Len(rxq') : rxq'[i].addr = rxq[1].addr => rxq[1].hb_id <= rxq'[i].hb_id
        <5> TAKE i \in 1 .. Len(rxq')
        <5>1. 1 \in 1 .. i + 1 /\ i + 1 \in 1 .. Len(rxq) /\ rxq'[i] = rxq[i + 1]
          BY <1>t, <2>2, <2>3
        <5> QED BY <1>0, <5>1 DEF RxOrder
      <4> QED BY <1>0, <2>1, <4>1, <4>2, <4>3 DEF PktOrder, RxOrder
    <3> QED BY <3>1, <3>2
  <2> QED BY <2>4, <2>5, <2>6, InOrderParts, PTL
<1>5. CASE UpdateHB
  <2>1. UNCHANGED <<cur_hb_id, rxq, inbox>> /\ mpc = "update" /\ mpc' = "recv"
    BY <1>5 DEF UpdateHB, servers
  <2>2. /\ pkt.port_id = pkt.addr /\ chunkservers'[pkt.addr].cur_hb_id = pkt.hb_id
        /\ \A s \in Server \ {pkt.addr} : chunkservers'[s] = chunkservers[s]
    <3>1. pkt.port_id = pkt.addr
      BY <1>0, <2>1 DEF PktOrder
    <3>2. /\ chunkservers' = [chunkservers EXCEPT ![pkt.port_id].cur_hb_id = pkt.hb_id]
          /\ chunkservers \in [Server -> [status : {"DOWN", "OK"}, cur_hb_id : 0 .. MaxHb]]
      BY <1>5 DEF UpdateHB, TypeOK
    <3> QED BY <1>t, <3>1, <3>2
  <2>3. InboxOrder'
    BY <1>t, <1>0, <2>1, <2>2 DEF InboxOrder, PktOrder
  <2>4. RxOrder'
    BY <1>t, <1>0, <2>1, <2>2, ZenonT(60) DEF RxOrder, PktOrder
  <2>5. PktOrder'
    BY <2>1 DEF PktOrder
  <2> QED BY <2>3, <2>4, <2>5, InOrderParts, PTL
<1>6. ASSUME NEW s \in Server, ReplyHB(s) PROVE InOrder'
  <2>1. UNCHANGED <<chunkservers, cur_hb_id, mpc, pkt>>
    BY <1>6 DEF ReplyHB, main
  <2>2. /\ Len(inbox[s]) >= 1 /\ Len(inbox'[s]) = Len(inbox[s]) - 1
        /\ \A i \in 1 .. Len(inbox[s]) - 1 : inbox'[s][i] = inbox[s][i + 1]
        /\ \A u \in Server \ {s} : inbox'[u] = inbox[u]
    BY <1>6, ReplyMoves
  <2>3. \/ rxq' = rxq
        \/ /\ Len(rxq') = Len(rxq) + 1
           /\ rxq'[Len(rxq) + 1].addr = s /\ rxq'[Len(rxq) + 1].hb_id = inbox[s][1]
           /\ \A i \in 1 .. Len(rxq) : rxq'[i] = rxq[i]
    BY <1>6, ReplyMoves
  <2>4. \A i \in 1 .. Len(inbox'[s]) : i + 1 \in 1 .. Len(inbox[s]) /\ inbox'[s][i] = inbox[s][i + 1]
    BY <1>t, <2>2
  <2>5. InboxOrder'
    <3> SUFFICES ASSUME NEW u \in Server, NEW i \in 1 .. Len(inbox'[u])
                 PROVE  /\ chunkservers[u].cur_hb_id <= inbox'[u][i] /\ inbox'[u][i] <= cur_hb_id
                        /\ \A k \in 1 .. i : inbox'[u][k] <= inbox'[u][i]
      BY <1>0, <2>1 DEF InboxOrder
    <3>1. CASE u # s
      BY <1>0, <2>2, <3>1 DEF InboxOrder
    <3>2. CASE u = s
      <4>1. i + 1 \in 1 .. Len(inbox[s]) /\ inbox'[s][i] = inbox[s][i + 1]
        BY <2>4, <3>2
      <4>2. \A k \in 1 .. i : inbox'[s][k] <= inbox'[s][i]
        <5> TAKE k \in 1 .. i
        <5>1. k + 1 \in 1 .. i + 1 /\ inbox'[s][k] = inbox[s][k + 1]
          BY <1>t, <2>2, <2>4, <3>2
        <5> QED BY <1>0, <4>1, <5>1 DEF InboxOrder
      <4> QED BY <1>0, <3>2, <4>1, <4>2 DEF InboxOrder
    <3> QED BY <3>1, <3>2
  <2>6. ASSUME NEW u \in Server, NEW h, \A k \in 1 .. Len(inbox[u]) : h <= inbox[u][k]
        PROVE  \A k \in 1 .. Len(inbox'[u]) : h <= inbox'[u][k]
    BY <2>2, <2>4, <2>6
  <2>7. \A k \in 1 .. Len(inbox'[s]) : inbox[s][1] <= inbox'[s][k]
    <3> TAKE k \in 1 .. Len(inbox'[s])
    <3>1. 1 \in 1 .. k + 1 /\ k + 1 \in 1 .. Len(inbox[s]) /\ inbox'[s][k] = inbox[s][k + 1]
      BY <1>t, <2>2, <2>4
    <3> QED BY <1>0, <3>1 DEF InboxOrder
  <2>8. /\ 1 \in 1 .. Len(inbox[s]) /\ inbox[s][1] \in 0 .. MaxHb
        /\ chunkservers[s].cur_hb_id <= inbox[s][1] /\ inbox[s][1] <= cur_hb_id
    BY <1>t, <1>0, <2>2 DEF InboxOrder
  <2>9. RxOrder'
    <3> SUFFICES ASSUME NEW i \in 1 .. Len(rxq')
                 PROVE  /\ chunkservers[rxq'[i].addr].cur_hb_id <= rxq'[i].hb_id
                        /\ rxq'[i].hb_id <= cur_hb_id
                        /\ \A k \in 1 .. Len(inbox'[rxq'[i].addr]) : rxq'[i].hb_id <= inbox'[rxq'[i].addr][k]
                        /\ \A k \in 1 .. i : rxq'[k].addr = rxq'[i].addr => rxq'[k].hb_id <= rxq'[i].hb_id
      BY <2>1 DEF RxOrder
    <3>1. CASE i \in 1 .. Len(rxq)
      <4>1. \A k \in 1 .. i : k \in 1 .. Len(rxq) /\ rxq'[k] = rxq[k]
        <5> TAKE k \in 1 .. i
        <5>1. k \in 1 .. Len(rxq)
          BY <1>t, <3>1
        <5> QED BY <2>3, <5>1
      <4>2. rxq'[i] = rxq[i] /\ rxq[i].addr \in Server
        <5>1. rxq'[i] = rxq[i]
          BY <2>3, <3>1
        <5>2. rxq[i].addr \in Server
          BY <1>t, <3>1
        <5> QED BY <5>1, <5>2
      <4>3. /\ chunkservers[rxq[i].addr].cur_hb_id <= rxq[i].hb_id /\ rxq[i].hb_id <= cur_hb_id
            /\ \A k \in 1 .. Len(inbox[rxq[i].addr]) : rxq[i].hb_id <= inbox[rxq[i].addr][k]
            /\ \A k \in 1 .. i : rxq[k].addr = rxq[i].addr => rxq[k].hb_id <= rxq[i].hb_id
        BY <1>0, <3>1 DEF RxOrder
      <4>4. \A k \in 1 .. Len(inbox'[rxq[i].addr]) : rxq[i].hb_id <= inbox'[rxq[i].addr][k]
        BY <2>6, <4>2, <4>3
      <4> QED BY <4>1, <4>2, <4>3, <4>4
    <3>2. CASE i \notin 1 .. Len(rxq)
      <4>1. /\ i = Len(rxq) + 1 /\ rxq'[i].addr = s /\ rxq'[i].hb_id = inbox[s][1]
            /\ \A k \in 1 .. Len(rxq) : rxq'[k] = rxq[k]
        BY <1>t, <2>3, <3>2
      <4>2. \A k \in 1 .. i : rxq'[k].addr = s => rxq'[k].hb_id <= inbox[s][1]
        <5> TAKE k \in 1 .. i
        <5>1. CASE k \in 1 .. Len(rxq)
          BY <1>0, <2>8, <4>1, <5>1 DEF RxOrder
        <5>2. CASE k = i
          BY <2>8, <4>1, <5>2
        <5> QED BY <1>t, <4>1, <5>1, <5>2
      <4> QED BY <2>7, <2>8, <4>1, <4>2
    <3> QED BY <3>1, <3>2
  <2>10. PktOrder'
    <3> SUFFICES ASSUME mpc = "update"
                 PROVE  /\ \A k \in 1 .. Len(inbox'[pkt.addr]) : pkt.hb_id <= inbox'[pkt.addr][k]
                        /\ \A i \in 1 .. Len(rxq') : rxq'[i].addr = pkt.addr => pkt.hb_id <= rxq'[i].hb_id
      BY <1>0, <2>1 DEF PktOrder
    <3>1. /\ \A k \in 1 .. Len(inbox[pkt.addr]) : pkt.hb_id <= inbox[pkt.addr][k]
          /\ \A i \in 1 .. Len(rxq) : rxq[i].addr = pkt.addr => pkt.hb_id <= rxq[i].hb_id
      BY <1>0 DEF PktOrder
    <3>2. \A k \in 1 .. Len(inbox'[pkt.addr]) : pkt.hb_id <= inbox'[pkt.addr][k]
      BY <1>t, <2>6, <3>1
    <3>3. s = pkt.addr => pkt.hb_id <= inbox[s][1]
      BY <2>8, <3>1
    <3>4. ASSUME NEW i \in 1 .. Len(rxq'), rxq'[i].addr = pkt.addr PROVE pkt.hb_id <= rxq'[i].hb_id
      <4>1. \/ i \in 1 .. Len(rxq) /\ rxq'[i] = rxq[i]
            \/ rxq'[i].addr = s /\ rxq'[i].hb_id = inbox[s][1]
        BY <1>t, <2>3
      <4> QED BY <3>1, <3>3, <3>4, <4>1
    <3> QED BY <3>2, <3>4
  <2> QED BY <2>5, <2>9, <2>10, InOrderParts, PTL
<1>7. ASSUME NEW s \in Server, Crash(s) PROVE InOrder'
  <2>1. UNCHANGED <<chunkservers, cur_hb_id, mpc, pkt, rxq>>
    BY <1>7 DEF Crash, main
  <2>2. inbox' = [inbox EXCEPT ![s] = << >>] /\ inbox \in [Server -> Seq(0 .. MaxHb)]
    BY <1>7 DEF Crash, TypeOK
  <2>3. \A u \in Server : inbox'[u] = inbox[u] \/ Len(inbox'[u]) = 0
    BY <2>2
  <2>4. InboxOrder'
    BY <1>0, <2>1, <2>3 DEF InboxOrder
  <2>5. RxOrder'
    <3> SUFFICES ASSUME NEW i \in 1 .. Len(rxq)
                 PROVE  \A k \in 1 .. Len(inbox'[rxq[i].addr]) : rxq[i].hb_id <= inbox'[rxq[i].addr][k]
      BY <1>0, <2>1 DEF RxOrder
    <3>1. rxq[i].addr \in Server
      BY <1>t
    <3> QED BY <1>0, <2>3, <3>1 DEF RxOrder
  <2>6. PktOrder'
    BY <1>t, <1>0, <2>1, <2>3 DEF PktOrder
  <2> QED BY <2>4, <2>5, <2>6, InOrderParts, PTL
<1>8. CASE (\E s \in Server : Restart(s)) \/ UNCHANGED vars
  BY <1>8, Zenon DEF Restart, vars, main, servers, InOrder
<1> QED BY <1>1, <1>2, <1>3, <1>4, <1>5, <1>6, <1>7, <1>8 DEF Next, Daemon, Main, Servers

\* No step lets a stopped server answer for a heartbeat it did not see.
LEMMA NothingFromTheDeadStep ==
    ASSUME TypeOK, TypeOK', InOrder, NothingFromTheDead, [Next]_vars
    PROVE  NothingFromTheDead'
<1>t. /\ cur_hb_id \in 0 .. MaxHb /\ MaxHb \in Nat
      /\ \A s \in Server : chunkservers[s].cur_hb_id \in 0 .. MaxHb /\ crashedAt[s] \in 0 .. MaxHb
      /\ Len(rxq) \in Nat
      /\ \A i \in 1 .. Len(rxq) : rxq[i].addr \in Server /\ rxq[i].hb_id \in 0 .. MaxHb
      /\ pkt.addr \in Server /\ pkt.port_id \in Server /\ pkt.hb_id \in 0 .. MaxHb
  BY ElementTypes
<1>0. InboxOrder /\ RxOrder /\ PktOrder
  BY InOrderParts
<1>1. CASE Tick
  <2>1. /\ cur_hb_id' = cur_hb_id + 1
        /\ UNCHANGED <<chunkservers, mpc, pkt, rxq, inbox, alive, crashedAt>>
    BY <1>1 DEF Tick, main, servers
  <2> QED BY <1>t, <2>1 DEF NothingFromTheDead
<1>2. CASE Check \/ MarkDown \/ MarkUp
  <2>1. UNCHANGED <<cur_hb_id, mpc, pkt, rxq, inbox, alive, crashedAt>>
    BY <1>2 DEF Check, MarkDown, MarkUp, main, servers
  <2>2. \A s \in Server : chunkservers'[s].cur_hb_id = chunkservers[s].cur_hb_id
    <3>1. \/ chunkservers' = chunkservers
          \/ chunkservers' = [chunkservers EXCEPT ![di].status = "DOWN"]
          \/ chunkservers' = [chunkservers EXCEPT ![di].status = "OK"]
      BY <1>2 DEF Check, MarkDown, MarkUp
    <3>2. chunkservers \in [Server -> [status : {"DOWN", "OK"}, cur_hb_id : 0 .. MaxHb]]
      BY DEF TypeOK
    <3> QED BY <3>1, <3>2
  <2> QED BY <2>1, <2>2 DEF NothingFromTheDead
<1>3. CASE Send
  <2>1. UNCHANGED <<chunkservers, cur_hb_id, mpc, pkt, rxq, alive, crashedAt>>
    BY <1>3 DEF Send, main
  <2>2. \A s \in Server : ~alive[s] => inbox'[s] = inbox[s]
    BY <1>3, SendAdds
  <2> QED BY <2>1, <2>2 DEF NothingFromTheDead
<1>4. CASE ReceiveHB
  <2>1. UNCHANGED <<chunkservers, cur_hb_id, inbox, alive, crashedAt>>
    BY <1>4 DEF ReceiveHB, servers
  <2>2. /\ 1 \in 1 .. Len(rxq)
        /\ \A i \in 1 .. Len(rxq') : i + 1 \in 1 .. Len(rxq) /\ rxq'[i] = rxq[i + 1]
    BY <1>t, <1>4, ReceiveTakes
  <2>3. mpc' = "update" => pkt' = rxq[1]
    BY <1>4, ReceiveTakes DEF ReceiveHB
  <2> QED BY <2>1, <2>2, <2>3 DEF NothingFromTheDead
<1>5. CASE UpdateHB
  <2>1. UNCHANGED <<cur_hb_id, rxq, inbox, alive, crashedAt>> /\ mpc = "update" /\ mpc' = "recv"
    BY <1>5 DEF UpdateHB, servers
  <2>2. pkt.port_id = pkt.addr
    BY <1>0, <2>1 DEF PktOrder
  <2>3. /\ chunkservers' = [chunkservers EXCEPT ![pkt.port_id].cur_hb_id = pkt.hb_id]
        /\ chunkservers \in [Server -> [status : {"DOWN", "OK"}, cur_hb_id : 0 .. MaxHb]]
    BY <1>5 DEF UpdateHB, TypeOK
  <2>4. \A s \in Server : \/ chunkservers'[s].cur_hb_id = chunkservers[s].cur_hb_id
                          \/ s = pkt.addr /\ chunkservers'[s].cur_hb_id = pkt.hb_id
    BY <1>t, <2>2, <2>3
  <2> QED BY <2>1, <2>4 DEF NothingFromTheDead
<1>6. ASSUME NEW s \in Server, ReplyHB(s) PROVE NothingFromTheDead'
  <2>1. UNCHANGED <<chunkservers, cur_hb_id, mpc, pkt, alive, crashedAt>> /\ alive[s]
    BY <1>6 DEF ReplyHB, main
  <2>2. /\ \A u \in Server \ {s} : inbox'[u] = inbox[u]
        /\ \A i \in 1 .. Len(rxq') : \/ i \in 1 .. Len(rxq) /\ rxq'[i] = rxq[i]
                                     \/ rxq'[i].addr = s
    BY <1>t, <1>6, ReplyMoves
  <2> QED BY <2>1, <2>2 DEF NothingFromTheDead
<1>7. ASSUME NEW s \in Server, Crash(s) PROVE NothingFromTheDead'
  <2>1. UNCHANGED <<chunkservers, cur_hb_id, mpc, pkt, rxq>>
    BY <1>7 DEF Crash, main
  <2>2. /\ inbox'[s] = << >> /\ crashedAt'[s] = cur_hb_id
        /\ \A u \in Server \ {s} : /\ inbox'[u] = inbox[u] /\ alive'[u] = alive[u]
                                   /\ crashedAt'[u] = crashedAt[u]
    BY <1>7 DEF Crash, TypeOK
  <2>3. /\ chunkservers[s].cur_hb_id <= cur_hb_id
        /\ \A i \in 1 .. Len(rxq) : rxq[i].hb_id <= cur_hb_id
        /\ mpc = "update" => pkt.hb_id <= cur_hb_id
    BY <1>0 DEF InboxOrder, RxOrder, PktOrder
  <2> QED BY <1>t, <2>1, <2>2, <2>3 DEF NothingFromTheDead
<1>8. ASSUME NEW s \in Server, Restart(s) PROVE NothingFromTheDead'
  <2>1. UNCHANGED <<chunkservers, cur_hb_id, mpc, pkt, rxq, inbox>>
    BY <1>8 DEF Restart, main
  <2>2. /\ alive'[s] = TRUE
        /\ \A u \in Server \ {s} : alive'[u] = alive[u] /\ crashedAt'[u] = crashedAt[u]
    BY <1>8 DEF Restart, TypeOK
  <2> QED BY <2>1, <2>2 DEF NothingFromTheDead
<1>9. CASE UNCHANGED vars
  BY <1>9 DEF vars, main, servers, NothingFromTheDead
<1> QED BY <1>1, <1>2, <1>3, <1>4, <1>5, <1>6, <1>7, <1>8, <1>9 DEF Next, Daemon, Main, Servers

\* A server that does not lag has answered one of the last DFS_HB_MAX_LAG.
LEMMA NotLaggingAnswered ==
    ASSUME TypeOK, InOrder, NEW s \in Server, ~Lags(s)
    PROVE  cur_hb_id - chunkservers[s].cur_hb_id <= DFS_HB_MAX_LAG
<1>1. /\ cur_hb_id \in 0 .. MaxHb /\ MaxHb \in Nat
      /\ chunkservers[s].cur_hb_id \in 0 .. MaxHb
  BY ElementTypes
<1>2. chunkservers[s].cur_hb_id <= cur_hb_id
  BY InOrderParts DEF InboxOrder
<1>3. (cur_hb_id - chunkservers[s].cur_hb_id) % Word = cur_hb_id - chunkservers[s].cur_hb_id
  BY <1>1, <1>2, LagIsDifference, Zenon
<1> QED BY <1>1, <1>3, HeartbeatAssumption DEF Lags

\* A stopped server that does not lag stopped at most DFS_HB_MAX_LAG ago.
LEMMA NotLagging ==
    ASSUME TypeOK, InOrder, NothingFromTheDead, NEW s \in Server, ~alive[s], ~Lags(s)
    PROVE  cur_hb_id - crashedAt[s] <= DFS_HB_MAX_LAG
<1>1. /\ cur_hb_id \in 0 .. MaxHb /\ MaxHb \in Nat
      /\ chunkservers[s].cur_hb_id \in 0 .. MaxHb /\ crashedAt[s] \in 0 .. MaxHb
  BY ElementTypes
<1>2. cur_hb_id - chunkservers[s].cur_hb_id <= DFS_HB_MAX_LAG
  BY NotLaggingAnswered
<1>3. chunkservers[s].cur_hb_id <= crashedAt[s]
  BY DEF NothingFromTheDead
<1> QED BY <1>1, <1>2, <1>3, HeartbeatAssumption

\* No step makes the daemon's verdict on a stopped server wrong.
LEMMA VerdictStandsStep ==
    ASSUME TypeOK, InOrder, NothingFromTheDead, VerdictStands, [Next]_vars
    PROVE  VerdictStands'
<1>t. di \in Server /\ cur_hb_id \in 0 .. MaxHb /\ MaxHb \in Nat
  BY HeartbeatAssumption DEF TypeOK
<1>1. CASE Tick
  BY <1>1 DEF Tick, VerdictStands
<1>2. CASE Check
  <2>1. UNCHANGED <<di, cur_hb_id, alive, crashedAt>> /\ (dpc' = "mark_up" => ~Lags(di))
    BY <1>2 DEF Check, servers
  <2> QED BY <1>t, <2>1, NotLagging DEF VerdictStands
<1>3. CASE MarkDown \/ MarkUp \/ Send
  BY <1>3 DEF MarkDown, MarkUp, Send, VerdictStands
<1>4. CASE ReceiveHB \/ UpdateHB \/ UNCHANGED vars
  BY <1>4 DEF ReceiveHB, UpdateHB, vars, daemon, servers, VerdictStands
<1>5. ASSUME NEW s \in Server, ReplyHB(s) PROVE VerdictStands'
  BY <1>5 DEF ReplyHB, daemon, VerdictStands
<1>6. ASSUME NEW s \in Server, Crash(s) PROVE VerdictStands'
  <2>1. UNCHANGED <<dpc, di, cur_hb_id>>
    BY <1>6 DEF Crash, daemon
  <2>2. /\ crashedAt'[s] = cur_hb_id
        /\ \A u \in Server \ {s} : alive'[u] = alive[u] /\ crashedAt'[u] = crashedAt[u]
    BY <1>6 DEF Crash, TypeOK
  <2>3. cur_hb_id - cur_hb_id <= DFS_HB_MAX_LAG
    BY <1>t, HeartbeatAssumption
  <2> QED BY <1>t, <2>1, <2>2, <2>3 DEF VerdictStands
<1>7. ASSUME NEW s \in Server, Restart(s) PROVE VerdictStands'
  <2>1. UNCHANGED <<dpc, di, cur_hb_id>>
    BY <1>7 DEF Restart, daemon
  <2>2. /\ alive'[s] = TRUE
        /\ \A u \in Server \ {s} : alive'[u] = alive[u] /\ crashedAt'[u] = crashedAt[u]
    BY <1>7 DEF Restart, TypeOK
  <2> QED BY <1>t, <2>1, <2>2 DEF VerdictStands
<1> QED BY <1>1, <1>2, <1>3, <1>4, <1>5, <1>6, <1>7 DEF Next, Daemon, Main, Servers

\* No step leaves a server marked active that stopped too long ago.
LEMMA DeadIsDownStep ==
    ASSUME TypeOK, InOrder, NothingFromTheDead, VerdictStands, DeadIsDown, [Next]_vars
    PROVE  DeadIsDown'
<1>t. /\ di \in Int /\ \A s \in Server : s \in Int /\ 0 <= s /\ s < NumServer
      /\ di \in Server /\ cur_hb_id \in 0 .. MaxHb /\ MaxHb \in Nat
      /\ NumServer \in Nat
  BY HeartbeatAssumption DEF TypeOK, Server
<1>c. chunkservers \in [Server -> [status : {"DOWN", "OK"}, cur_hb_id : 0 .. MaxHb]]
  BY DEF TypeOK
<1>1. CASE Tick
  <2>1. dpc' = "check" /\ di' = 0
    BY <1>1 DEF Tick
  <2> QED BY <1>t, <2>1 DEF DeadIsDown, Visited
<1>2. CASE Check
  <2>1. /\ UNCHANGED <<di, cur_hb_id, alive, crashedAt, chunkservers>> /\ dpc' # "sleep"
        /\ dpc' = "send" => ~Lags(di)
    BY <1>2 DEF Check, servers
  <2>2. ASSUME NEW s \in Server, Visited(s)' PROVE s < di \/ (s = di /\ ~Lags(di))
    BY <2>1, <2>2 DEF Visited
  <2>3. \A s \in Server : s < di => Visited(s)
    BY DEF Visited
  <2>4. ASSUME ~Lags(di), ~alive[di] PROVE cur_hb_id - crashedAt[di] <= DFS_HB_MAX_LAG
    BY <1>t, <2>4, NotLagging
  <2>5. crashedAt[di] \in Int /\ cur_hb_id \in Int /\ DFS_HB_MAX_LAG \in Int
    BY HeartbeatAssumption DEF TypeOK
  <2>6. ASSUME NEW s \in Server, ~alive[s], cur_hb_id - crashedAt[s] > DFS_HB_MAX_LAG, Visited(s)'
        PROVE  chunkservers[s].status = "DOWN"
    <3>1. CASE s < di
      BY <2>3, <2>6, <3>1 DEF DeadIsDown
    <3>2. CASE s = di /\ ~Lags(di)
      BY <2>4, <2>5, <2>6, <3>2
    <3> QED BY <2>2, <2>6, <3>1, <3>2
  <2> QED BY <2>1, <2>6 DEF DeadIsDown
<1>3. CASE MarkDown \/ MarkUp
  <2>1. UNCHANGED <<di, cur_hb_id, alive, crashedAt>> /\ dpc' = "send"
    BY <1>3 DEF MarkDown, MarkUp, servers
  <2>2. \A s \in Server \ {di} : chunkservers'[s].status = chunkservers[s].status
    BY <1>t, <1>c, <1>3 DEF MarkDown, MarkUp
  <2>3. \A s \in Server \ {di} : Visited(s)' => Visited(s)
    BY <1>t, <2>1 DEF Visited
  <2>4. MarkDown => chunkservers'[di].status = "DOWN"
    BY <1>t, <1>c DEF MarkDown
  <2>5. MarkUp /\ ~alive[di] => cur_hb_id - crashedAt[di] <= DFS_HB_MAX_LAG
    BY DEF MarkUp, VerdictStands
  <2>6. crashedAt[di] \in Int /\ cur_hb_id \in Int /\ DFS_HB_MAX_LAG \in Int
    BY HeartbeatAssumption DEF TypeOK
  <2>7. ASSUME NEW s \in Server, ~alive[s], cur_hb_id - crashedAt[s] > DFS_HB_MAX_LAG, Visited(s)'
        PROVE  chunkservers'[s].status = "DOWN"
    <3>1. CASE s # di
      BY <2>2, <2>3, <2>7, <3>1 DEF DeadIsDown
    <3>2. CASE s = di
      BY <1>3, <2>4, <2>5, <2>6, <2>7, <3>2
    <3> QED BY <3>1, <3>2
  <2> QED BY <2>1, <2>7 DEF DeadIsDown
<1>4. CASE Send
  <2>1. UNCHANGED <<chunkservers, cur_hb_id, alive, crashedAt>> /\ dpc = "send"
    BY <1>4 DEF Send
  <2>2. IF di + 1 < NumServer THEN di' = di + 1 /\ dpc' = "check" ELSE di' = 0 /\ dpc' = "sleep"
    BY <1>4 DEF Send
  <2>3. \A s \in Server : Visited(s)' => Visited(s)
    BY <1>t, <2>1, <2>2 DEF Visited
  <2> QED BY <2>1, <2>3 DEF DeadIsDown
<1>5. CASE ReceiveHB \/ UNCHANGED vars
  BY <1>5 DEF ReceiveHB, vars, daemon, servers, DeadIsDown, Visited
<1>6. CASE UpdateHB
  <2>1. UNCHANGED <<dpc, di, cur_hb_id, alive, crashedAt>>
    BY <1>6 DEF UpdateHB, daemon, servers
  <2>2. \A s \in Server : chunkservers'[s].status = chunkservers[s].status
    BY <1>c, <1>6 DEF UpdateHB
  <2> QED BY <2>1, <2>2 DEF DeadIsDown, Visited
<1>7. ASSUME NEW s \in Server, ReplyHB(s) PROVE DeadIsDown'
  BY <1>7 DEF ReplyHB, daemon, DeadIsDown, Visited
<1>8. ASSUME NEW s \in Server, Crash(s) PROVE DeadIsDown'
  <2>1. UNCHANGED <<dpc, di, cur_hb_id, chunkservers>>
    BY <1>8 DEF Crash, daemon
  <2>2. /\ crashedAt'[s] = cur_hb_id
        /\ \A u \in Server \ {s} : alive'[u] = alive[u] /\ crashedAt'[u] = crashedAt[u]
    BY <1>8 DEF Crash, TypeOK
  <2>3. ~(cur_hb_id - cur_hb_id > DFS_HB_MAX_LAG)
    BY <1>t, HeartbeatAssumption
  <2> QED BY <2>1, <2>2, <2>3 DEF DeadIsDown, Visited
<1>9. ASSUME NEW s \in Server, Restart(s) PROVE DeadIsDown'
  <2>1. UNCHANGED <<dpc, di, cur_hb_id, chunkservers>>
    BY <1>9 DEF Restart, daemon
  <2>2. /\ alive'[s] = TRUE
        /\ \A u \in Server \ {s} : alive'[u] = alive[u] /\ crashedAt'[u] = crashedAt[u]
    BY <1>9 DEF Restart, TypeOK
  <2> QED BY <2>1, <2>2 DEF DeadIsDown, Visited
<1> QED BY <1>1, <1>2, <1>3, <1>4, <1>5, <1>6, <1>7, <1>8, <1>9 DEF Next, Daemon, Main, Servers

-----------------------------------------------------------------------------

\* The order of the ids, the limits of what stopped servers sent and the
\* daemon's verdicts hold together in every reachable state.
THEOREM HeartbeatInvHolds == Spec => []HeartbeatInv
<1>1. HeartbeatInv /\ [Next]_vars => HeartbeatInv'
  <2> SUFFICES ASSUME HeartbeatInv, [Next]_vars PROVE HeartbeatInv'
    OBVIOUS
  <2>1. TypeOK /\ InOrder /\ NothingFromTheDead /\ VerdictStands /\ DeadIsDown
    BY DEF HeartbeatInv
  <2>2. TypeOK'
    BY <2>1, HeartbeatTypes
  <2>3. InOrder' /\ NothingFromTheDead'
    BY <2>1, <2>2, InOrderStep, NothingFromTheDeadStep
  <2>4. VerdictStands' /\ DeadIsDown'
    BY <2>1, VerdictStandsStep, DeadIsDownStep
  <2> QED BY <2>2, <2>3, <2>4 DEF HeartbeatInv
<1> QED BY HeartbeatInvInit, <1>1, PTL DEF Spec

\* A chunkserver that stopped more than DFS_HB_MAX_LAG heartbeats ago is marked
\* down once dfs_master_heartbeat_daemon has looked at it.
THEOREM DeadIsDownHolds == Spec => []DeadIsDown
<1>1. HeartbeatInv => DeadIsDown
  BY DEF HeartbeatInv
<1> QED BY <1>1, HeartbeatInvHolds, PTL

\* No reply takes the id recorded for a server back, although the DFS_HB case
\* of the main loop does not compare them.
THEOREM HeartbeatIdsInOrder == Spec => HeartbeatsInOrder
<1> DEFINE Forward == \A s \in Server : chunkservers'[s].cur_hb_id >= chunkservers[s].cur_hb_id
<1>1. HeartbeatInv /\ [Next]_vars => [Forward]_vars
  <2> SUFFICES ASSUME HeartbeatInv, Next PROVE Forward
    OBVIOUS
  <2>1. TypeOK /\ PktOrder
    BY InOrderParts DEF HeartbeatInv
  <2>2. /\ \A s \in Server : chunkservers[s].cur_hb_id \in 0 .. MaxHb
        /\ pkt.addr \in Server /\ pkt.hb_id \in 0 .. MaxHb /\ MaxHb \in Nat
    BY <2>1, ElementTypes
  <2>3. chunkservers \in [Server -> [status : {"DOWN", "OK"}, cur_hb_id : 0 .. MaxHb]]
    BY <2>1 DEF TypeOK
  <2>4. CASE UpdateHB
    <3>1. /\ pkt.port_id = pkt.addr /\ chunkservers[pkt.addr].cur_hb_id <= pkt.hb_id
          /\ chunkservers' = [chunkservers EXCEPT ![pkt.port_id].cur_hb_id = pkt.hb_id]
      BY <2>1, <2>4 DEF UpdateHB, PktOrder
    <3> QED BY <2>2, <2>3, <3>1
  <2>5. CASE ~UpdateHB
    <3>1. \/ chunkservers' = chunkservers
          \/ chunkservers' = [chunkservers EXCEPT ![di].status = "DOWN"]
          \/ chunkservers' = [chunkservers EXCEPT ![di].status = "OK"]
      BY <2>5, Zenon DEF Next, Daemon, Main, Servers, Tick, Check, MarkDown, MarkUp, Send, ReceiveHB,
                  ReplyHB, Crash, Restart
    <3>2. \A s \in Server : chunkservers'[s].cur_hb_id = chunkservers[s].cur_hb_id
      BY <2>3, <3>1
    <3> QED BY <2>2, <3>2
  <2> QED BY <2>4, <2>5
<1> QED BY <1>1, HeartbeatInvHolds, PTL DEF Spec, HeartbeatsInOrder

\* What makes ActiveHasAnswered inductive: it holds for each server from the
\* moment the daemon has looked at it, and for the one it is about to mark.
AnsweredInv ==
    /\ \A s \in Server : Visited(s) /\ chunkservers[s].status = "OK"
            => cur_hb_id - chunkservers[s].cur_hb_id <= DFS_HB_MAX_LAG
    /\ dpc = "mark_up" => cur_hb_id - chunkservers[di].cur_hb_id <= DFS_HB_MAX_LAG

\* At the end of a cycle of dfs_master_heartbeat_daemon a server marked active
\* has answered one of the last DFS_HB_MAX_LAG heartbeats.
THEOREM ActiveHasAnsweredHolds == Spec => []ActiveHasAnswered
<1> DEFINE Forward == \A s \in Server : chunkservers'[s].cur_hb_id >= chunkservers[s].cur_hb_id
<1>1. Init => AnsweredInv
  BY DEF Init, AnsweredInv
<1>2. HeartbeatInv /\ AnsweredInv /\ [Next]_vars /\ [Forward]_vars => AnsweredInv'
  <2> SUFFICES ASSUME HeartbeatInv, AnsweredInv, [Next]_vars, [Forward]_vars PROVE AnsweredInv'
    OBVIOUS
  <2> DEFINE Recent(s) == cur_hb_id - chunkservers[s].cur_hb_id <= DFS_HB_MAX_LAG
  <2>t. /\ di \in Server /\ di \in Int /\ NumServer \in Nat /\ DFS_HB_MAX_LAG \in Nat
        /\ cur_hb_id \in Int /\ \A s \in Server : s \in Int /\ 0 <= s /\ s < NumServer
    BY HeartbeatAssumption DEF HeartbeatInv, TypeOK, Server
  <2>c. /\ chunkservers \in [Server -> [status : {"DOWN", "OK"}, cur_hb_id : 0 .. MaxHb]]
        /\ \A s \in Server : chunkservers[s].cur_hb_id \in Int
    BY ElementTypes DEF HeartbeatInv, TypeOK
  <2>d. /\ chunkservers' \in [Server -> [status : {"DOWN", "OK"}, cur_hb_id : 0 .. MaxHb]]
        /\ \A s \in Server : chunkservers'[s].cur_hb_id \in Int
    <3>1. chunkservers' \in [Server -> [status : {"DOWN", "OK"}, cur_hb_id : 0 .. MaxHb]]
      BY HeartbeatTypes DEF HeartbeatInv, TypeOK
    <3>2. \A s \in Server : chunkservers'[s].cur_hb_id \in 0 .. MaxHb
      BY <3>1
    <3> QED BY <3>1, <3>2
  <2>f. Forward
    BY <2>c DEF vars
  <2>1. CASE Tick
    <3>1. dpc' = "check" /\ di' = 0
      BY <2>1 DEF Tick
    <3>2. \A s \in Server : ~Visited(s)'
      BY <2>t, <3>1 DEF Visited
    <3> QED BY <3>1, <3>2 DEF AnsweredInv
  <2>2. CASE Check
    <3>1. /\ UNCHANGED <<di, cur_hb_id, chunkservers>> /\ dpc' # "sleep"
          /\ dpc' \in {"send", "mark_up"} => ~Lags(di)
      BY <2>2 DEF Check
    <3>2. ~Lags(di) => Recent(di)
      BY <2>t, NotLaggingAnswered DEF HeartbeatInv
    <3>3. \A s \in Server : Visited(s)' => Visited(s) \/ (s = di /\ ~Lags(di))
      BY <2>t, <3>1 DEF Visited
    <3> QED BY <2>t, <3>1, <3>2, <3>3 DEF AnsweredInv
  <2>3. CASE MarkDown \/ MarkUp
    <3>1. UNCHANGED <<di, cur_hb_id>> /\ dpc' = "send"
      BY <2>3 DEF MarkDown, MarkUp
    <3>2. /\ \A s \in Server : chunkservers'[s].cur_hb_id = chunkservers[s].cur_hb_id
          /\ \A s \in Server \ {di} : chunkservers'[s].status = chunkservers[s].status
      BY <2>t, <2>c, <2>3 DEF MarkDown, MarkUp
    <3>3. chunkservers'[di].status = "OK" => Recent(di)
      BY <2>t, <2>c, <2>3 DEF MarkDown, MarkUp, AnsweredInv
    <3>4. \A s \in Server \ {di} : Visited(s)' => Visited(s)
      BY <2>t, <3>1 DEF Visited
    <3> QED BY <2>t, <3>1, <3>2, <3>3, <3>4 DEF AnsweredInv
  <2>4. CASE Send
    <3>1. UNCHANGED <<chunkservers, cur_hb_id>> /\ dpc = "send"
      BY <2>4 DEF Send
    <3>2. IF di + 1 < NumServer THEN di' = di + 1 /\ dpc' = "check" ELSE di' = 0 /\ dpc' = "sleep"
      BY <2>4 DEF Send
    <3>3. \A s \in Server : Visited(s)' => Visited(s)
      BY <2>t, <3>1, <3>2 DEF Visited
    <3> QED BY <3>1, <3>2, <3>3 DEF AnsweredInv
  <2>5. CASE UNCHANGED <<dpc, di, cur_hb_id>> /\ \A s \in Server : chunkservers'[s].status = chunkservers[s].status
    <3>1. \A s \in Server : Recent(s) => cur_hb_id - chunkservers'[s].cur_hb_id <= DFS_HB_MAX_LAG
      BY <2>t, <2>c, <2>d, <2>f
    <3> QED BY <2>t, <2>5, <3>1 DEF AnsweredInv, Visited
  <2>6. Main \/ Servers \/ UNCHANGED vars => UNCHANGED <<dpc, di, cur_hb_id>>
    BY Zenon DEF Main, Servers, ReceiveHB, UpdateHB, ReplyHB, Crash, Restart, vars, daemon
  <2>7. ASSUME Main \/ Servers \/ UNCHANGED vars, NEW s \in Server
        PROVE  chunkservers'[s].status = chunkservers[s].status
    <3>1. \/ chunkservers' = chunkservers
          \/ chunkservers' = [chunkservers EXCEPT ![pkt.port_id].cur_hb_id = pkt.hb_id]
      BY <2>7, Zenon DEF Main, Servers, ReceiveHB, UpdateHB, ReplyHB, Crash, Restart, vars
    <3> QED BY <2>c, <3>1
  <2> QED BY <2>1, <2>2, <2>3, <2>4, <2>5, <2>6, <2>7 DEF Next, Daemon
<1>3. AnsweredInv => ActiveHasAnswered
  BY DEF AnsweredInv, ActiveHasAnswered, Visited
<1> QED BY <1>1, <1>2, <1>3, HeartbeatInvHolds, HeartbeatIdsInOrder, PTL DEF Spec, HeartbeatsInOrder

-----------------------------------------------------------------------------
(* The search for a server (ServerChoice). *)

\* The statuses are changed by the daemon alone: the handling of the clients'
\* requests leaves the heartbeat protocol as it is.
THEOREM RequestsKeepHeartbeats == ChoiceSpec => Spec
<1>1. ChoiceInit => Init
  BY DEF ChoiceInit
<1>2. [ChoiceNext]_choiceVars => [Next]_vars
  <2>1. Requests => UNCHANGED vars
    BY DEF Requests, WriteNewChunk, WriteRefused, Search, AdvertiseNew, AdvertiseOld, Replied
  <2> QED BY <2>1, Zenon DEF ChoiceNext, choiceVars, Next
<1> QED BY <1>1, <1>2, PTL DEF ChoiceSpec, Spec

\* During a search the result is a server seen active, unless none was seen, or
\* one was and it was passed over; fake_rand is then spent.
SearchInv ==
    wpc = "search" =>
        /\ wi \in Nat /\ \A s \in seen : s \in Nat
        /\ \/ server_id \in seen
           \/ seen = {}
           \/ fake_rand = -1 /\ \E s : seen = {s}

\* A search that meets two active servers picks one it saw active, for every
\* number of servers, every fake_rand that the call before it left and whatever
\* the daemon does between two turns: fake_rand passes over one server at most.
THEOREM SearchPicksActiveHolds == ChoiceSpec => []SearchPicksActive
<1>1. ChoiceInit => SearchInv
  BY DEF ChoiceInit, SearchInv
<1>2. SearchInv /\ [ChoiceNext]_choiceVars => SearchInv'
  <2> SUFFICES ASSUME SearchInv, [ChoiceNext]_choiceVars PROVE SearchInv'
    OBVIOUS
  <2>1. CASE UNCHANGED request
    BY <2>1 DEF SearchInv, request
  <2>2. CASE WriteNewChunk
    BY <2>2 DEF WriteNewChunk, SearchInv
  <2>3. CASE WriteRefused \/ AdvertiseNew \/ AdvertiseOld \/ Replied
    BY <2>3 DEF WriteRefused, AdvertiseNew, AdvertiseOld, Replied, SearchInv
  <2>4. CASE Search
    <3>0. wpc = "search"
      BY <2>4 DEF Search
    <3>1. /\ wi \in Nat /\ \A s \in seen : s \in Nat
          /\ server_id \in seen \/ seen = {} \/ (fake_rand = -1 /\ \E s : seen = {s})
      BY <3>0 DEF SearchInv
    <3>5. wi' \in Nat /\ wi # -1
      BY <2>4, <3>1 DEF Search
    <3>2. CASE chunkservers[wi].status = "OK" /\ wi = fake_rand
      <4>1. fake_rand' = -1 /\ server_id' = server_id /\ seen' = seen \cup {wi}
        BY <2>4, <3>2 DEF Search
      <4>2. seen = {} => seen' = {wi}
        BY <4>1
      <4> QED BY <3>1, <3>5, <3>2, <4>1, <4>2 DEF SearchInv
    <3>3. CASE chunkservers[wi].status = "OK" /\ wi # fake_rand
      <4>1. server_id' = wi /\ seen' = seen \cup {wi}
        BY <2>4, <3>3 DEF Search
      <4> QED BY <3>1, <3>5, <4>1 DEF SearchInv
    <3>4. CASE chunkservers[wi].status # "OK"
      <4>1. UNCHANGED <<fake_rand, server_id, seen>>
        BY <2>4, <3>4 DEF Search
      <4> QED BY <3>1, <3>5, <4>1 DEF SearchInv
    <3> QED BY <3>2, <3>3, <3>4
  <2> QED BY <2>1, <2>2, <2>3, <2>4 DEF ChoiceNext, Requests, choiceVars, request
<1>3. SearchInv => SearchPicksActive
  BY DEF SearchInv, SearchPicksActive
<1> QED BY <1>1, <1>2, <1>3, PTL DEF ChoiceSpec
=============================================================================
