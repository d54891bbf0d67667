---------------------------- MODULE SystemProofs ----------------------------
(***************************************************************************)
(* Registration at the router, for any nodes and addresses: a node that    *)
(* was accepted is served.  The card: every volume that the driver's       *)
(* checks accept is laid out soundly, of any size, unless its number of    *)
(* sectors does not fit in a word.  Virtual memory, for any sections,      *)
(* permissions and accesses: the program sees memory as its page table     *)
(* says.                                                                   *)
(***************************************************************************)
EXTENDS NrfRouter, Fat32Volume, Vm, TLAPS

USE SMTT(20), ZenonT(20)

-----------------------------------------------------------------------------
(* Registration (NrfRouter). *)

InQueue(q) == {q[i] : i \in 1 .. Len(q)}

\* The packets in a queue with one more, and in one without its first.
LEMMA InQueueSteps ==
    ASSUME NEW S, NEW q \in Seq(S)
    PROVE  /\ \A x \in S : Append(q, x) \in Seq(S) /\ InQueue(Append(q, x)) \subseteq InQueue(q) \cup {x}
           /\ q # <<>> => /\ Head(q) \in S /\ Head(q) \in InQueue(q)
                          /\ Tail(q) \in Seq(S) /\ InQueue(Tail(q)) \subseteq InQueue(q)
<1>1. ASSUME NEW x \in S PROVE Append(q, x) \in Seq(S) /\ InQueue(Append(q, x)) \subseteq InQueue(q) \cup {x}
  <2> DEFINE a == Append(q, x)
  <2>1. a \in Seq(S) /\ Len(a) = Len(q) + 1 /\ a[Len(q) + 1] = x /\ Len(q) \in Nat
    OBVIOUS
  <2>2. \A i \in 1 .. Len(q) : a[i] = q[i]
    OBVIOUS
  <2> HIDE DEF a
  <2>3. \A i \in 1 .. Len(a) : i \in 1 .. Len(q) \/ i = Len(q) + 1
    BY <2>1
  <2>4. InQueue(a) \subseteq InQueue(q) \cup {x}
    <3> SUFFICES ASSUME NEW y \in InQueue(a) PROVE y \in InQueue(q) \cup {x}
      OBVIOUS
    <3>1. PICK i \in 1 .. Len(a) : y = a[i]
      BY DEF InQueue
    <3> QED BY <2>1, <2>2, <2>3, <3>1 DEF InQueue
  <2> QED BY <2>1, <2>4 DEF a
<1>2. ASSUME q # <<>> PROVE /\ Head(q) \in S /\ Head(q) \in InQueue(q)
                            /\ Tail(q) \in Seq(S) /\ InQueue(Tail(q)) \subseteq InQueue(q)
  <2> DEFINE w == Tail(q)
  <2>1. w \in Seq(S) /\ Len(w) = Len(q) - 1 /\ Len(q) \in Nat \ {0} /\ Head(q) = q[1]
    BY <1>2
  <2>2. \A i \in 1 .. Len(w) : w[i] = q[i + 1]
    BY <1>2
  <2> HIDE DEF w
  <2>3. 1 \in 1 .. Len(q) /\ q[1] \in S
    BY <2>1
  <2>4. \A i \in 1 .. Len(w) : i + 1 \in 1 .. Len(q)
    BY <2>1
  <2>5. InQueue(w) \subseteq InQueue(q)
    BY <2>2, <2>4 DEF InQueue
  <2> QED BY <2>1, <2>3, <2>5 DEF InQueue, w
<1> QED BY <1>1, <1>2

NoPkt == [op |-> "none", pipe |-> 0]
RtPkt == [op : {"OPEN", "ACP", "REJ"}, pipe : Nat]

RtTypeOK ==
    /\ node_addr \in [RtSlot -> RtAddr \cup {0}] /\ assigned \subseteq RtAddr /\ ptx \in Seq(RtAddr)
    /\ full_len \in BOOLEAN /\ chosen \in [RtNode -> RtAddr]
    /\ npc \in [RtNode -> {"first", "wait", "ok", "failed"}]
    /\ p1 \in [RtNode -> RtAddr \cup {node_init_addr}]
    /\ data \in [RtNode -> RtPkt \cup {NoPkt}] /\ nrx \in [RtNode -> Seq(RtPkt)]
    /\ served \in [RtNode -> Nat]

\* An acceptance names the first pipe and goes to a node that was registered.
Acceptance(n, d) == d.op = "ACP" => d.pipe = 1 /\ chosen[n] \in assigned
NodesInv ==
    \A n \in RtNode :
        /\ p1[n] \in {node_init_addr, chosen[n]}
        /\ Acceptance(n, data[n]) /\ \A d \in InQueue(nrx[n]) : Acceptance(n, d)
        /\ npc[n] = "ok" => served[n] = 1 /\ chosen[n] \in assigned

\* When all choose different addresses, an address comes to the router once: it
\* is with its node, on its way or registered.
OnceInv ==
    /\ \A i, j \in 1 .. Len(ptx) : ptx[i] = ptx[j] => i = j
    /\ \A a \in InQueue(ptx) : a \notin assigned
    /\ \A n \in RtNode : npc[n] = "first" => chosen[n] \notin InQueue(ptx) \cup assigned
    /\ \A i \in RtSlot : node_addr[i] \in assigned \cup {0}

\* So the first pipe is open after an assignment, or closed if the assignments
\* are taken back.
PipeInv ==
    /\ full_len /\ assigned # {} => 1 \in rt_open
    /\ ~full_len => n_conns = 0 /\ \A i \in RtSlot : node_addr[i] = 0
    /\ ~full_len /\ assigned # {} => 1 \notin rt_open

RtInv == RtTypeOK /\ NodesInv /\ (DistinctChoice => OnceInv /\ PipeInv)

\* Deliver appends the packet to the queues of nodes that listen to the address.
LEMMA Delivered ==
    ASSUME RtTypeOK, NEW msg \in RtPkt, NEW addr, Deliver(msg, addr)
    PROVE  /\ nrx' \in [RtNode -> Seq(RtPkt)]
           /\ \A n \in RtNode : InQueue(nrx'[n]) \subseteq
                                   InQueue(nrx[n]) \cup (IF p1[n] = addr THEN {msg} ELSE {})
<1>1. PICK got_it \in SUBSET {n \in RtNode : p1[n] = addr} :
          nrx' = [n \in RtNode |-> IF n \in got_it THEN Append(nrx[n], msg) ELSE nrx[n]]
  BY Zenon DEF Deliver
<1>2. \A n \in RtNode : nrx[n] \in Seq(RtPkt)
  BY DEF RtTypeOK
<1>3. \A n \in RtNode : /\ Append(nrx[n], msg) \in Seq(RtPkt)
                        /\ InQueue(Append(nrx[n], msg)) \subseteq InQueue(nrx[n]) \cup {msg}
  BY <1>2, InQueueSteps, Zenon
<1> QED BY <1>1, <1>2, <1>3, Zenon

\* The router sends a packet: the nodes keep what they have, and an acceptance
\* reaches only nodes whose address has been registered.
LEMMA NodesHear ==
    ASSUME RtTypeOK, NodesInv, NEW msg \in RtPkt, NEW addr, Deliver(msg, addr),
           UNCHANGED rt_nodes, assigned \subseteq assigned',
           msg.op = "ACP" => msg.pipe = 1 /\ addr \in assigned' /\ addr \in RtAddr
    PROVE  NodesInv' /\ nrx' \in [RtNode -> Seq(RtPkt)]
<1>1. /\ nrx' \in [RtNode -> Seq(RtPkt)]
      /\ \A n \in RtNode : InQueue(nrx'[n]) \subseteq
                              InQueue(nrx[n]) \cup (IF p1[n] = addr THEN {msg} ELSE {})
  BY Delivered, Zenon
<1>2. UNCHANGED <<chosen, npc, p1, data, served>>
  BY DEF rt_nodes
<1>3. ASSUME NEW n \in RtNode, NEW d, Acceptance(n, d) PROVE Acceptance(n, d)'
  BY <1>2, <1>3 DEF Acceptance
<1>4. ASSUME NEW n \in RtNode, p1[n] = addr PROVE Acceptance(n, msg)'
  <2>1. p1[n] \in {node_init_addr, chosen[n]}
    BY DEF NodesInv
  <2>2. msg.op = "ACP" => addr = chosen[n]
    BY <1>4, <2>1, RouterAssumption
  <2> QED BY <1>2, <2>2 DEF Acceptance
<1>5. ASSUME NEW n \in RtNode, NEW d \in InQueue(nrx'[n]) PROVE Acceptance(n, d)'
  <2>1. d \in InQueue(nrx[n]) \/ (p1[n] = addr /\ d = msg)
    BY <1>1, <1>5
  <2> QED BY <1>3, <1>4, <2>1, Zenon DEF NodesInv
<1>6. \A n \in RtNode : InQueue(nrx[n])' = InQueue(nrx'[n])
  BY DEF InQueue
<1> QED BY <1>1, <1>2, <1>3, <1>5, <1>6, Zenon DEF NodesInv

\* The first of a queue without repetitions does not come again.
LEMMA HeadOnce ==
    ASSUME NEW S, NEW q \in Seq(S), q # <<>>, \A i, j \in 1 .. Len(q) : q[i] = q[j] => i = j
    PROVE  /\ Head(q) \notin InQueue(Tail(q))
           /\ \A i, j \in 1 .. Len(Tail(q)) : Tail(q)[i] = Tail(q)[j] => i = j
<1> DEFINE w == Tail(q)
<1>1. Len(w) = Len(q) - 1 /\ Len(q) \in Nat \ {0} /\ Head(q) = q[1]
  OBVIOUS
<1>2. \A i \in 1 .. Len(w) : w[i] = q[i + 1]
  OBVIOUS
<1> HIDE DEF w
<1>3. 1 \in 1 .. Len(q) /\ \A i \in 1 .. Len(w) : i \in Nat /\ i + 1 \in 1 .. Len(q) /\ i + 1 # 1
  BY <1>1
<1>4. \A i \in 1 .. Len(w) : w[i] # Head(q)
  BY <1>1, <1>2, <1>3
<1>5. ASSUME NEW i \in 1 .. Len(w), NEW j \in 1 .. Len(w), w[i] = w[j] PROVE i = j
  <2>1. i + 1 = j + 1
    BY <1>2, <1>3, <1>5
  <2> QED BY <1>3, <2>1
<1> QED BY <1>4, <1>5 DEF InQueue, w

\* A registration is answered (nrf_rt_open_registration).
LEMMA RouterReadsKeeps == ASSUME RtInv, RouterReads PROVE RtInv'
<1> DEFINE a == Head(ptx)
<1>0. RtTypeOK /\ NodesInv
  BY DEF RtInv
<1>1. /\ ptx # <<>> /\ ptx' = Tail(ptx) /\ UNCHANGED <<full_len, rt_nodes>>
      /\ Assign(a) \/ Refuse(a)
  BY DEF RouterReads
<1>2. UNCHANGED <<chosen, npc, p1, data, served>>
  BY <1>1 DEF rt_nodes
<1>3. /\ a \in RtAddr /\ a \in InQueue(ptx) /\ a # 0
      /\ ptx' \in Seq(RtAddr) /\ InQueue(ptx') \subseteq InQueue(ptx)
  <2>1. ptx \in Seq(RtAddr)
    BY <1>0 DEF RtTypeOK
  <2>2. /\ Head(ptx) \in RtAddr /\ Head(ptx) \in InQueue(ptx)
        /\ Tail(ptx) \in Seq(RtAddr) /\ InQueue(Tail(ptx)) \subseteq InQueue(ptx)
    BY <1>1, <2>1, InQueueSteps, Zenon
  <2> QED BY <1>1, <2>2, RouterAssumption
<1>4. DistinctChoice' <=> DistinctChoice
  BY <1>2 DEF DistinctChoice
<1>5. ASSUME DistinctChoice
      PROVE  /\ OnceInv /\ PipeInv /\ a \notin assigned /\ Taken(a) = {}
             /\ a \notin InQueue(ptx')
             /\ \A i, j \in 1 .. Len(ptx') : ptx'[i] = ptx'[j] => i = j
  <2>1. OnceInv /\ PipeInv
    BY <1>5 DEF RtInv
  <2>2. a \notin assigned
    BY <1>3, <2>1 DEF OnceInv
  <2>3. Taken(a) = {}
    BY <1>3, <2>1, <2>2 DEF OnceInv, Taken
  <2>4. ptx \in Seq(RtAddr) /\ \A i, j \in 1 .. Len(ptx) : ptx[i] = ptx[j] => i = j
    BY <1>0, <2>1 DEF OnceInv, RtTypeOK
  <2>5. /\ a \notin InQueue(Tail(ptx))
        /\ \A i, j \in 1 .. Len(Tail(ptx)) : Tail(ptx)[i] = Tail(ptx)[j] => i = j
    BY <1>1, <2>4, HeadOnce, Zenon
  <2> QED BY <1>1, <2>1, <2>2, <2>3, <2>5, Zenon
<1> HIDE DEF a
<1>6. InQueue(ptx)' = InQueue(ptx')
  BY DEF InQueue
<1>7. CASE Assign(a)
  <2> DEFINE msg == [op |-> "ACP", pipe |-> 1]
  <2>1. /\ Taken(a) = {} /\ assigned' = assigned \cup {a} /\ Deliver(msg, a)
        /\ IF full_len THEN OpenPipe(1, a) ELSE cancel_assignment(1)
    BY <1>7 DEF Assign, Reply, first_idle
  <2>2. msg \in RtPkt /\ msg.op = "ACP" /\ msg.pipe = 1
    BY DEF RtPkt
  <2> HIDE DEF msg
  <2>3. NodesInv' /\ nrx' \in [RtNode -> Seq(RtPkt)]
    BY <1>0, <1>1, <1>3, <2>1, <2>2, NodesHear
  <2>4. /\ node_addr' = [node_addr EXCEPT ![1] = IF full_len THEN a ELSE 0]
        /\ full_len => 1 \in rt_open'
        /\ ~full_len => 1 \notin rt_open' /\ n_conns' = n_conns
    BY <2>1 DEF OpenPipe, cancel_assignment
  <2>5. /\ node_addr' \in [RtSlot -> RtAddr \cup {0}]
        /\ \A i \in RtSlot : node_addr'[i] \in {node_addr[i], IF full_len THEN a ELSE 0}
    BY <1>0, <1>3, <2>4, Zenon DEF RtTypeOK
  <2>6. RtTypeOK'
    BY <1>0, <1>1, <1>2, <1>3, <2>1, <2>3, <2>5 DEF RtTypeOK
  <2>7. ASSUME DistinctChoice PROVE OnceInv'
    <3>1. OnceInv /\ a \notin InQueue(ptx')
      BY <1>5, <2>7
    <3>2. \A i, j \in 1 .. Len(ptx') : ptx'[i] = ptx'[j] => i = j
      BY <1>5, <2>7
    <3>3. \A n \in RtNode : npc[n] = "first" => chosen[n] \notin InQueue(ptx') \cup assigned'
      BY <1>3, <2>1, <3>1 DEF OnceInv
    <3>4. \A b \in InQueue(ptx') : b \notin assigned'
      BY <1>3, <2>1, <3>1 DEF OnceInv
    <3>5. \A i \in RtSlot : node_addr'[i] \in assigned' \cup {0}
      BY <2>1, <2>5, <3>1 DEF OnceInv
    <3> QED BY <1>2, <1>6, <3>2, <3>3, <3>4, <3>5, Zenon DEF OnceInv
  <2>8. ASSUME DistinctChoice PROVE PipeInv'
    <3>1. PipeInv
      BY <1>5, <2>8
    <3>2. ~full_len => n_conns = 0 /\ \A i \in RtSlot : node_addr'[i] = 0
      BY <2>5, <3>1 DEF PipeInv
    <3> QED BY <1>1, <2>4, <3>2 DEF PipeInv
  <2> QED BY <1>4, <2>3, <2>6, <2>7, <2>8 DEF RtInv
<1>8. CASE Refuse(a)
  <2> DEFINE msg == [op |-> "REJ", pipe |-> 0]
             i == First(Taken(a))
  <2>1. assigned' = assigned /\ Deliver(msg, a) /\ (n_conns = RtFull \/ Taken(a) # {})
    BY <1>8 DEF Refuse, Reply
  <2>2. \/ UNCHANGED <<rt_open, node_addr, n_conns>>
        \/ Taken(a) # {} /\ node_addr' = [node_addr EXCEPT ![i] = 0]
    BY <1>8 DEF Refuse
  <2>3. msg \in RtPkt /\ msg.op # "ACP"
    BY DEF RtPkt
  <2> HIDE DEF msg, i
  <2>4. NodesInv' /\ nrx' \in [RtNode -> Seq(RtPkt)]
    BY <1>0, <1>1, <2>1, <2>3, NodesHear
  <2>5. node_addr' \in [RtSlot -> RtAddr \cup {0}]
    BY <1>0, <2>2, Zenon DEF RtTypeOK
  <2>6. RtTypeOK'
    BY <1>0, <1>1, <1>2, <1>3, <2>1, <2>4, <2>5 DEF RtTypeOK
  <2>7. ASSUME DistinctChoice PROVE OnceInv' /\ PipeInv'
    <3>1. OnceInv /\ PipeInv /\ UNCHANGED <<rt_open, node_addr, n_conns>>
      BY <1>5, <2>2, <2>7
    <3>2. \A j, k \in 1 .. Len(ptx') : ptx'[j] = ptx'[k] => j = k
      BY <1>5, <2>7
    <3>3. OnceInv'
      BY <1>2, <1>3, <1>6, <2>1, <3>1, <3>2 DEF OnceInv
    <3>4. PipeInv'
      BY <1>1, <2>1, <3>1 DEF PipeInv
    <3> QED BY <3>3, <3>4
  <2> QED BY <1>4, <2>4, <2>6, <2>7 DEF RtInv
<1> QED BY <1>1, <1>7, <1>8

\* The other steps of the router: OPEN is broadcast, nothing came, the end.
LEMMA RouterKeeps == ASSUME RtInv, BroadcastOpen \/ NoReg \/ RouterReturns PROVE RtInv'
<1>0. RtTypeOK /\ NodesInv
  BY DEF RtInv
<1>1. /\ UNCHANGED <<node_addr, rt_open, n_conns, full_len, assigned, ptx>>
      /\ UNCHANGED rt_nodes
  BY DEF BroadcastOpen, NoReg, RouterReturns
<1>2. UNCHANGED <<chosen, npc, p1, data, served>>
  BY <1>1 DEF rt_nodes
<1>3. NodesInv' /\ nrx' \in [RtNode -> Seq(RtPkt)]
  <2>1. CASE BroadcastOpen
    <3> DEFINE msg == [op |-> "OPEN", pipe |-> 0]
    <3>1. msg \in RtPkt /\ msg.op # "ACP" /\ Deliver(msg, node_init_addr)
      BY <2>1 DEF RtPkt, BroadcastOpen
    <3> HIDE DEF msg
    <3> QED BY <1>0, <1>1, <3>1, NodesHear
  <2>2. CASE NoReg \/ RouterReturns
    <3>1. nrx' = nrx
      BY <2>2 DEF NoReg, RouterReturns
    <3>2. NodesInv' <=> NodesInv
      BY <1>1, <1>2, <3>1 DEF NodesInv, Acceptance, InQueue
    <3> QED BY <1>0, <3>1, <3>2 DEF RtTypeOK
  <2> QED BY <2>1, <2>2
<1>4. RtTypeOK'
  BY <1>0, <1>1, <1>2, <1>3 DEF RtTypeOK
<1>5. (DistinctChoice' <=> DistinctChoice) /\ (OnceInv' <=> OnceInv) /\ (PipeInv' <=> PipeInv)
  BY <1>1, <1>2 DEF DistinctChoice, OnceInv, PipeInv, InQueue
<1> QED BY <1>3, <1>4, <1>5 DEF RtInv

\* A node takes a packet from its queue into its buffer, or has none.
LEMMA NodeTakes ==
    ASSUME RtTypeOK, NodesInv, NEW n \in RtNode,
           \/ UNCHANGED <<data, nrx>>
           \/ /\ nrx[n] # <<>> /\ data' = [data EXCEPT ![n] = Head(nrx[n])]
              /\ nrx' = [nrx EXCEPT ![n] = Tail(@)]
    PROVE  /\ data' \in [RtNode -> RtPkt \cup {NoPkt}] /\ nrx' \in [RtNode -> Seq(RtPkt)]
           /\ \A m \in RtNode : /\ Acceptance(m, data'[m])
                                /\ \A d \in InQueue(nrx'[m]) : Acceptance(m, d)
<1>1. data \in [RtNode -> RtPkt \cup {NoPkt}] /\ nrx \in [RtNode -> Seq(RtPkt)]
  BY DEF RtTypeOK
<1>2. \A m \in RtNode : Acceptance(m, data[m]) /\ \A d \in InQueue(nrx[m]) : Acceptance(m, d)
  BY DEF NodesInv
<1>3. CASE UNCHANGED <<data, nrx>>
  BY <1>1, <1>2, <1>3
<1>4. CASE /\ nrx[n] # <<>> /\ data' = [data EXCEPT ![n] = Head(nrx[n])]
           /\ nrx' = [nrx EXCEPT ![n] = Tail(@)]
  <2>1. nrx[n] \in Seq(RtPkt)
    BY <1>1
  <2>2. /\ Head(nrx[n]) \in RtPkt /\ Head(nrx[n]) \in InQueue(nrx[n])
        /\ Tail(nrx[n]) \in Seq(RtPkt) /\ InQueue(Tail(nrx[n])) \subseteq InQueue(nrx[n])
    BY <1>4, <2>1, InQueueSteps, Zenon
  <2>3. /\ data'[n] = Head(nrx[n]) /\ nrx'[n] = Tail(nrx[n])
        /\ \A m \in RtNode \ {n} : data'[m] = data[m] /\ nrx'[m] = nrx[m]
        /\ data' \in [RtNode -> RtPkt \cup {NoPkt}] /\ nrx' \in [RtNode -> Seq(RtPkt)]
    BY <1>1, <1>4, <2>2
  <2> QED BY <1>2, <2>2, <2>3, Zenon
<1> QED BY <1>3, <1>4

\* What the steps of a node leave of the invariant.
LEMMA NodeFrame ==
    ASSUME RtInv, NEW n \in RtNode, UNCHANGED <<router, chosen>>,
           data' \in [RtNode -> RtPkt \cup {NoPkt}], nrx' \in [RtNode -> Seq(RtPkt)],
           \A m \in RtNode : /\ Acceptance(m, data'[m])
                             /\ \A d \in InQueue(nrx'[m]) : Acceptance(m, d),
           p1' = p1 \/ p1' = [p1 EXCEPT ![n] = chosen[n]],
           NEW st \in {"wait", "ok", "failed"}, npc' = [npc EXCEPT ![n] = st],
           \/ st # "ok" /\ served' = served
           \/ data'[n].op = "ACP" /\ served' = [served EXCEPT ![n] = data'[n].pipe],
           ptx' = ptx \/ (npc[n] = "first" /\ ptx' = Append(ptx, chosen[n]))
    PROVE  RtInv'
<1>0. RtTypeOK /\ NodesInv
  BY DEF RtInv
<1>1. UNCHANGED <<node_addr, rt_open, n_conns, full_len, assigned>>
  BY DEF router
<1>2. /\ chosen \in [RtNode -> RtAddr] /\ ptx \in Seq(RtAddr)
      /\ npc \in [RtNode -> {"first", "wait", "ok", "failed"}]
      /\ p1 \in [RtNode -> RtAddr \cup {node_init_addr}] /\ served \in [RtNode -> Nat]
  BY <1>0 DEF RtTypeOK
<1>3. data'[n].op = "ACP" => data'[n].pipe = 1 /\ chosen[n] \in assigned
  BY DEF Acceptance
<1>4. /\ Append(ptx, chosen[n]) \in Seq(RtAddr)
      /\ InQueue(Append(ptx, chosen[n])) \subseteq InQueue(ptx) \cup {chosen[n]}
  <2>1. chosen[n] \in RtAddr
    BY <1>2
  <2>2. ptx \in Seq(RtAddr)
    BY <1>2
  <2> QED BY <2>1, <2>2, InQueueSteps
<1>5. /\ npc' \in [RtNode -> {"first", "wait", "ok", "failed"}] /\ npc'[n] = st
      /\ \A m \in RtNode \ {n} : npc'[m] = npc[m] /\ served'[m] = served[m]
  BY <1>2
<1>6. served' \in [RtNode -> Nat] /\ (st = "ok" => served'[n] = 1)
  <2>1. (st # "ok" /\ served' = served) \/ served' = [served EXCEPT ![n] = 1]
    BY <1>3
  <2>2. CASE served' = [served EXCEPT ![n] = 1]
    <3>1. 1 \in Nat /\ served \in [RtNode -> Nat]
      BY <1>2
    <3> QED BY <2>2, <3>1, Zenon
  <2>3. CASE st # "ok" /\ served' = served
    BY <1>2, <2>3, Zenon
  <2> QED BY <2>1, <2>2, <2>3
<1>7. p1' \in [RtNode -> RtAddr \cup {node_init_addr}]
      /\ \A m \in RtNode : p1'[m] \in {p1[m], chosen[m]}
  BY <1>2, Zenon
<1>8. RtTypeOK'
  BY <1>0, <1>1, <1>2, <1>4, <1>5, <1>6, <1>7, Zenon DEF RtTypeOK
<1>9. NodesInv'
  <2> SUFFICES ASSUME NEW m \in RtNode
               PROVE  /\ p1'[m] \in {node_init_addr, chosen[m]}
                      /\ Acceptance(m, data'[m]) /\ \A d \in InQueue(nrx'[m]) : Acceptance(m, d)
                      /\ npc'[m] = "ok" => served'[m] = 1 /\ chosen[m] \in assigned
    BY <1>1, Zenon DEF NodesInv, Acceptance, InQueue
  <2>1. p1'[m] \in {node_init_addr, chosen[m]}
    BY <1>0, <1>7 DEF NodesInv
  <2>2. npc'[m] = "ok" => served'[m] = 1 /\ chosen[m] \in assigned
    BY <1>0, <1>3, <1>5, <1>6, ZenonT(60) DEF NodesInv
  <2> QED BY <2>1, <2>2
<1>10. (DistinctChoice' <=> DistinctChoice) /\ (PipeInv' <=> PipeInv)
  BY <1>1 DEF DistinctChoice, PipeInv
<1>11. ASSUME DistinctChoice PROVE OnceInv'
  <2>1. OnceInv
    BY <1>11 DEF RtInv
  <2>2. InQueue(ptx)' = InQueue(ptx')
    BY DEF InQueue
  <2>3. InQueue(ptx') \subseteq InQueue(ptx) \cup (IF npc[n] = "first" THEN {chosen[n]} ELSE {})
    BY <1>4, Zenon
  <2>4. \A b \in InQueue(ptx') : b \notin assigned
    BY <2>1, <2>3 DEF OnceInv
  <2>5. \A m \in RtNode : npc'[m] = "first" => chosen[m] \notin InQueue(ptx') \cup assigned
    <3> SUFFICES ASSUME NEW m \in RtNode, npc'[m] = "first"
                 PROVE  chosen[m] \notin InQueue(ptx') \cup assigned
      OBVIOUS
    <3>1. m # n /\ npc[m] = "first"
      BY <1>5
    <3>2. chosen[m] # chosen[n]
      BY <1>11, <3>1 DEF DistinctChoice
    <3> QED BY <2>1, <2>3, <3>1, <3>2 DEF OnceInv
  <2>6. \A i, j \in 1 .. Len(ptx') : ptx'[i] = ptx'[j] => i = j
    <3>1. CASE ptx' = ptx
      BY <2>1, <3>1 DEF OnceInv
    <3>2. CASE npc[n] = "first" /\ ptx' = Append(ptx, chosen[n])
      <4>1. Len(ptx') = Len(ptx) + 1 /\ ptx'[Len(ptx) + 1] = chosen[n] /\ Len(ptx) \in Nat
        BY <1>2, <3>2
      <4>2. \A i \in 1 .. Len(ptx) : ptx'[i] = ptx[i]
        BY <1>2, <3>2
      <4>3. \A i \in 1 .. Len(ptx') : i \in 1 .. Len(ptx) \/ i = Len(ptx) + 1
        BY <4>1
      <4>4. \A i \in 1 .. Len(ptx) : ptx[i] # chosen[n]
        BY <2>1, <3>2, ZenonT(60) DEF OnceInv, InQueue
      <4> QED BY <2>1, <4>1, <4>2, <4>3, <4>4 DEF OnceInv
    <3> QED BY <3>1, <3>2
  <2> QED BY <1>1, <2>1, <2>2, <2>4, <2>5, <2>6 DEF OnceInv
<1> QED BY <1>8, <1>9, <1>10, <1>11 DEF RtInv

\* nrf_rt_try_register at a node.
LEMMA NodeKeeps == ASSUME RtInv, NEW n \in RtNode, RtNodeStep(n) PROVE RtInv'
<1>0. RtTypeOK /\ NodesInv
  BY DEF RtInv
<1>1. CASE NodeGivesUp(n) \/ NodeTired(n)
  <2>1. /\ UNCHANGED <<router, chosen, p1, data, served, ptx, nrx>>
        /\ npc' = [npc EXCEPT ![n] = "failed"]
    BY <1>1, Zenon DEF NodeGivesUp, NodeTired
  <2>2. /\ data' \in [RtNode -> RtPkt \cup {NoPkt}] /\ nrx' \in [RtNode -> Seq(RtPkt)]
        /\ \A m \in RtNode : /\ Acceptance(m, data'[m])
                             /\ \A d \in InQueue(nrx'[m]) : Acceptance(m, d)
    BY <1>0, <2>1, NodeTakes
  <2> QED BY <2>1, <2>2, NodeFrame, Zenon
<1>2. CASE NodeRegisters(n)
  <2>1. /\ UNCHANGED <<router, chosen, served>> /\ npc[n] = "first" /\ nrx[n] # <<>>
        /\ npc' = [npc EXCEPT ![n] = "wait"]
        /\ data' = [data EXCEPT ![n] = Head(nrx[n])] /\ nrx' = [nrx EXCEPT ![n] = Tail(@)]
        /\ p1' = p1 \/ p1' = [p1 EXCEPT ![n] = chosen[n]]
        /\ ptx' = ptx \/ ptx' = Append(ptx, chosen[n])
    BY <1>2 DEF NodeRegisters
  <2>2. /\ data' \in [RtNode -> RtPkt \cup {NoPkt}] /\ nrx' \in [RtNode -> Seq(RtPkt)]
        /\ \A m \in RtNode : /\ Acceptance(m, data'[m])
                             /\ \A d \in InQueue(nrx'[m]) : Acceptance(m, d)
    BY <1>0, <2>1, NodeTakes, Zenon
  <2> QED BY <2>1, <2>2, NodeFrame, Zenon
<1>3. CASE NodeWaits(n)
  <2>1. /\ UNCHANGED <<router, chosen, p1, ptx>>
        /\ \/ UNCHANGED <<data, nrx>>
           \/ /\ nrx[n] # <<>> /\ data' = [data EXCEPT ![n] = Head(nrx[n])]
              /\ nrx' = [nrx EXCEPT ![n] = Tail(@)]
    BY <1>3 DEF NodeWaits
  <2>2. /\ data' \in [RtNode -> RtPkt \cup {NoPkt}] /\ nrx' \in [RtNode -> Seq(RtPkt)]
        /\ \A m \in RtNode : /\ Acceptance(m, data'[m])
                             /\ \A d \in InQueue(nrx'[m]) : Acceptance(m, d)
    BY <1>0, <2>1, NodeTakes
  <2>3. PICK st \in {"wait", "ok", "failed"} :
            /\ npc' = [npc EXCEPT ![n] = st]
            /\ \/ st # "ok" /\ served' = served
               \/ data'[n].op = "ACP" /\ served' = [served EXCEPT ![n] = data'[n].pipe]
    <3>1. CASE Accepts(data'[n])
      <4>1. /\ npc' = [npc EXCEPT ![n] = "ok"] /\ data'[n].op = "ACP"
            /\ served' = [served EXCEPT ![n] = data'[n].pipe]
        BY <1>3, <3>1 DEF NodeWaits, Accepts
      <4> QED BY <4>1, Zenon
    <3>2. CASE ~Accepts(data'[n])
      <4>1. /\ npc' = [npc EXCEPT ![n] = IF data'[n].op = "OPEN" THEN "wait" ELSE "failed"]
            /\ served' = served
        BY <1>3, <3>2 DEF NodeWaits
      <4> QED BY <4>1, Zenon
    <3> QED BY <3>1, <3>2
  <2> QED BY <2>1, <2>2, <2>3, NodeFrame, Zenon
<1> QED BY <1>1, <1>2, <1>3 DEF RtNodeStep

\* nrf-router.c: for any number of nodes, addresses, turns and windows, and
\* whatever packets are lost, a node whose registration succeeded was registered
\* under its address; when no two nodes choose the same one, the router listens
\* on the pipe it was told, or has taken every assignment back.
THEOREM AcceptedIsServedHolds == RtSpec => []AcceptedIsServed
<1>1. ASSUME RtInit PROVE RtInv
  <2>1. <<>> \in Seq(RtAddr) /\ <<>> \in Seq(RtPkt) /\ InQueue(<<>>) = {} /\ Len(<<>>) = 0
    BY DEF InQueue
  <2>2. RtTypeOK
    <3>1. NoPkt \in RtPkt \cup {NoPkt} /\ 0 \in Nat
      OBVIOUS
    <3> QED BY <1>1, <2>1, <3>1 DEF RtInit, RtTypeOK, NoPkt
  <2>3. NodesInv
    <3>1. \A n \in RtNode : /\ p1[n] = node_init_addr /\ data[n].op # "ACP" /\ nrx[n] = <<>>
                            /\ npc[n] # "ok"
      BY <1>1 DEF RtInit
    <3> QED BY <2>1, <3>1, Zenon DEF NodesInv, Acceptance
  <2>4. ptx = <<>> /\ assigned = {} /\ n_conns = 0 /\ \A i \in RtSlot : node_addr[i] = 0
    BY <1>1 DEF RtInit
  <2>5. OnceInv /\ PipeInv
    BY <2>1, <2>4 DEF OnceInv, PipeInv
  <2> QED BY <2>2, <2>3, <2>5 DEF RtInv
<1>2. RtInv /\ [RtNext]_rt_vars => RtInv'
  <2> SUFFICES ASSUME RtInv, [RtNext]_rt_vars PROVE RtInv'
    OBVIOUS
  <2>1. CASE UNCHANGED rt_vars
    <3>1. (RtTypeOK' <=> RtTypeOK) /\ (NodesInv' <=> NodesInv)
      BY <2>1 DEF rt_vars, router, rt_nodes, RtTypeOK, NodesInv, Acceptance, InQueue
    <3>2. DistinctChoice' <=> DistinctChoice
      BY <2>1 DEF rt_vars, rt_nodes, DistinctChoice
    <3>3. OnceInv => OnceInv'
      <4>1. (InQueue(ptx))' = InQueue(ptx) /\ UNCHANGED <<ptx, assigned, npc, chosen, node_addr>>
        BY <2>1 DEF rt_vars, router, rt_nodes, InQueue
      <4> QED BY <4>1 DEF OnceInv
    <3>4. PipeInv => PipeInv'
      BY <2>1 DEF rt_vars, router, PipeInv
    <3> QED BY <3>1, <3>2, <3>3, <3>4 DEF RtInv
  <2> QED BY <2>1, RouterReadsKeeps, RouterKeeps, NodeKeeps DEF RtNext, Router
<1>3. ASSUME RtInv PROVE AcceptedIsServed
  <2> SUFFICES ASSUME NEW n \in RtNode, npc[n] = "ok"
               PROVE  /\ chosen[n] \in assigned /\ served[n] \in RtSlot
                      /\ DistinctChoice => IF full_len THEN served[n] \in rt_open
                                           ELSE n_conns = 0 /\ 1 \notin rt_open
    BY DEF AcceptedIsServed
  <2>1. served[n] = 1 /\ chosen[n] \in assigned /\ 1 \in RtSlot
    BY <1>3 DEF RtInv, NodesInv, RtSlot
  <2> QED BY <1>3, <2>1 DEF RtInv, PipeInv
<1> QED BY <1>1, <1>2, <1>3, PTL DEF RtSpec

-----------------------------------------------------------------------------
(* The volume on the card (Fat32Volume). *)

\* The fields of the boot sector that the layout depends on are unsigned.
Unsigned(b) ==
    /\ b.bytes_per_sec \in Nat /\ b.sec_per_cluster \in Nat /\ b.reserved_area_nsec \in Nat
    /\ b.nfats \in Nat /\ b.nsec_per_fat \in Nat

\* The sectors of the units before d are at least those up to the end of an
\* earlier unit c.
LEMMA UnitsBefore ==
    ASSUME NEW s \in Nat, NEW c \in Nat, NEW d \in Nat, c < d
    PROVE  c * s + s <= d * s
<1>1. d * s = c * s + (d - c) * s  BY SMT
<1>2. (d - c) * s >= s
  <2>1. PICK k \in Nat : d - c = k + 1  BY SMT
  <2>2. (k + 1) * s = k * s + s  BY SMT
  <2>3. k * s >= 0  BY SMT
  <2>. QED  BY <2>1, <2>2, <2>3, SMT
<1>. QED  BY <1>1, <1>2, SMT

\* A number below the word size is not changed by wrapping.
LEMMA NoWrap == ASSUME NEW x \in Nat, x < Word PROVE Wrap(x) = x
  BY WordAssumption, SMT DEF Wrap

\* The places fat32_mk computes for a volume that fits, without the wrapping.
LEMMA Places ==
    ASSUME NEW lba \in Nat, NEW b, Unsigned(b), fat32_volume_id_check(b), Fits(lba, b)
    PROVE  LET fs == Geometry(lba, b) IN
           /\ fs.fat_begin_lba = lba + b.reserved_area_nsec
           /\ fs.cluster_begin_lba = lba + b.reserved_area_nsec + 2 * b.nsec_per_fat
           /\ fs.sectors_per_cluster = b.sec_per_cluster
           /\ fs.n_entries = b.nsec_per_fat * 128
<1>. DEFINE r == b.reserved_area_nsec
            n == b.nsec_per_fat
            s == b.sec_per_cluster
<1>1. r \in Nat /\ n \in Nat /\ s \in Nat  BY DEF Unsigned
<1>2. b.nfats = 2 /\ b.bytes_per_sec = 512  BY DEF fat32_volume_id_check
<1>3. (n * 128) * s \in Nat  BY <1>1, SMT
<1>4. lba + r + 2 * n + (n * 128) * s < Word /\ n * 512 < Word  BY <1>2 DEF Fits
<1>5. lba + r \in Nat /\ lba + r < Word /\ lba + r + 2 * n \in Nat /\ lba + r + 2 * n < Word
  <2>. HIDE DEF r, n, s
  <2>1. PICK p \in Nat : p = (n * 128) * s  BY <1>3
  <2>2. lba + r + 2 * n + p < Word  BY <2>1, <1>4
  <2>. QED  BY <2>2, <1>1, WordAssumption, SMT
<1>6. n * 512 \in Nat /\ (n * 512) \div 4 = n * 128  BY <1>1, SMT
<1>7. Wrap(lba + r) = lba + r /\ Wrap(lba + r + 2 * n) = lba + r + 2 * n /\ Wrap(n * 512) = n * 512
  BY <1>4, <1>5, <1>6, NoWrap
<1>. QED  BY <1>2, <1>6, <1>7 DEF Geometry

\* fat32_mk and cluster_to_lba: on every accepted volume that fits, clusters
\* are disjoint, lie behind both FATs, and the FAT written back is the first.
THEOREM VolumeLayout ==
    ASSUME NEW lba \in Nat, NEW b, Unsigned(b)
    PROVE  VolumeSound(lba, b)
<1>. DEFINE r == b.reserved_area_nsec
            n == b.nsec_per_fat
            s == b.sec_per_cluster
            begin == lba + r + 2 * n
            fs == Geometry(lba, b)
<1>. SUFFICES ASSUME fat32_volume_id_check(b), Fits(lba, b)
              PROVE  /\ \A c \in 2 .. fs.n_entries - 1 :
                         /\ \A x \in ClusterSectors(fs, c) : x >= (lba + r + n) + n
                         /\ \A d \in 2 .. fs.n_entries - 1 :
                             c # d => ClusterSectors(fs, c) \cap ClusterSectors(fs, d) = {}
                     /\ FatSectors(fs) = lba + r .. (lba + r + n) - 1
  BY DEF VolumeSound
<1>1. r \in Nat /\ n \in Nat /\ s \in Nat  BY DEF Unsigned
<1>2. /\ fs.fat_begin_lba = lba + r /\ fs.cluster_begin_lba = begin
      /\ fs.sectors_per_cluster = s /\ fs.n_entries = n * 128
  BY Places, ZenonT(60)
<1>3. b.nfats = 2  BY DEF fat32_volume_id_check
<1>4. begin + (n * 128) * s < Word  BY <1>3 DEF Fits
<1>. HIDE DEF r, n, s, fs
<1>5. ASSUME NEW c \in 2 .. n * 128 - 1
      PROVE  /\ (c - 2) * s \in Nat
             /\ ClusterSectors(fs, c) = begin + (c - 2) * s .. begin + (c - 2) * s + s - 1
  <2>1. c \in Nat /\ c - 2 \in Nat /\ n * 128 \in Nat /\ c - 2 < n * 128  BY <1>1, SMT
  <2>2. (c - 2) * s \in Nat  BY <2>1, <1>1, SMT
  <2>3. (c - 2) * s + s <= (n * 128) * s  BY <2>1, <1>1, UnitsBefore
  <2>4. PICK p \in Nat : p = (c - 2) * s  BY <2>2
  <2>5. PICK q \in Nat : q = (n * 128) * s  BY <2>1, <1>1, SMT
  <2>6. begin + p \in Nat /\ begin + p < Word
    BY <2>3, <2>4, <2>5, <1>1, <1>4, WordAssumption, SMT
  <2>7. cluster_to_lba(fs, c) = begin + (c - 2) * s
    BY <1>2, <2>4, <2>6, NoWrap DEF cluster_to_lba
  <2>. QED  BY <2>2, <2>7, <1>2 DEF ClusterSectors
<1>6. \A c \in 2 .. fs.n_entries - 1 : \A x \in ClusterSectors(fs, c) : x >= (lba + r + n) + n
  <2>. SUFFICES ASSUME NEW c \in 2 .. n * 128 - 1, NEW x \in ClusterSectors(fs, c)
                PROVE  x >= (lba + r + n) + n
    BY <1>2
  <2>1. PICK p \in Nat : p = (c - 2) * s  BY <1>5
  <2>2. x \in begin + p .. begin + p + s - 1  BY <1>5, <2>1, Zenon
  <2>. QED  BY <2>2, <1>1, SMT
<1>7. ASSUME NEW c \in 2 .. n * 128 - 1, NEW d \in 2 .. n * 128 - 1, c < d
      PROVE  ClusterSectors(fs, c) \cap ClusterSectors(fs, d) = {}
  <2>1. c - 2 \in Nat /\ d - 2 \in Nat /\ c - 2 < d - 2  BY <1>1, <1>7, SMT
  <2>2. (c - 2) * s + s <= (d - 2) * s  BY <2>1, <1>1, UnitsBefore
  <2>3. PICK p \in Nat : p = (c - 2) * s  BY <1>5
  <2>4. PICK q \in Nat : q = (d - 2) * s  BY <1>5
  <2>5. ClusterSectors(fs, c) = begin + p .. begin + p + s - 1  BY <1>5, <2>3
  <2>6. ClusterSectors(fs, d) = begin + q .. begin + q + s - 1  BY <1>5, <2>4
  <2>. QED  BY <2>2, <2>3, <2>4, <2>5, <2>6, <1>1, SMT
<1>8. \A c \in 2 .. fs.n_entries - 1 : \A d \in 2 .. fs.n_entries - 1 :
        c # d => ClusterSectors(fs, c) \cap ClusterSectors(fs, d) = {}
  <2>. SUFFICES ASSUME NEW c \in 2 .. n * 128 - 1, NEW d \in 2 .. n * 128 - 1, c # d
                PROVE  ClusterSectors(fs, c) \cap ClusterSectors(fs, d) = {}
    BY <1>2
  <2>1. CASE c < d  BY <2>1, <1>7
  <2>2. CASE d < c  BY <2>2, <1>7
  <2>. QED  BY <2>1, <2>2, <1>1, SMT
<1>9. FatSectors(fs) = lba + r .. (lba + r + n) - 1
  <2>1. (n * 128) \div 128 = n  BY <1>1, SMT
  <2>2. FatSectors(fs) = lba + r .. lba + r + n - 1  BY <2>1, <1>2, Zenon DEF FatSectors
  <2>3. lba + r + n - 1 = (lba + r + n) - 1  BY <1>1, SMT
  <2>. QED  BY <2>2, <2>3, Zenon
<1>. QED  BY <1>6, <1>8, <1>9

-----------------------------------------------------------------------------
(* Virtual memory (Vm). *)

Descriptor == [tag : {0, 2}, base : Section, AP : 0 .. 3, domain : 0 .. 1]

VmTypeOK ==
    /\ vpt \in [Section -> Descriptor] /\ tlb \in [Section -> Descriptor \cup {None}]
    /\ cp15 \in [on : BOOLEAN, ttbr : BOOLEAN, dac : SUBSET {dom_id}]
    /\ call \in [sec : Nat, n : Nat, perm : 0 .. 3, ret : {"on", "run", "access", "halted"}]
    /\ access \in [a : VmAddr, v : Nat, faults : Nat, denied : BOOLEAN]
    /\ mem \in [VmAddr -> Nat] /\ written \in [VmAddr -> Nat] /\ proc_pt \in BOOLEAN

\* The program goes on.
VmAlive == vpc \notin {"lost", "halted"}

\* The table: the identity on what is mapped, and only the two sections whose
\* permissions the program changes may deny it.
TableInv ==
    vpc \notin {"mmu_init", "ident"} =>
        /\ cp15.dac = {dom_id}
        /\ \A s \in Section : vpt[s].tag = 2 => vpt[s].base = s /\ vpt[s].domain = dom_id
        /\ \A s \in {Code, Heap, Gpio, Stack, IntStack} : vpt[s].tag = 2
        /\ \A s \in Section \ {Below, Stack} : vpt[s].tag = 2 => vpt[s].AP = AP_rw
        /\ ~proc_pt => vpt[Stack].AP = AP_rw

Fresh(s) == tlb[s] = None \/ (tlb[s] = vpt[s] /\ vpt[s].tag = 2)

\* The processor's translations are those of the table except between the first
\* store of mmu_mprotect and its invalidation.
TlbInv ==
    /\ vpc = "ident" => tlb = NoTlb
    /\ VmAlive /\ vpc \notin {"mmu_init", "ident", "ptes", "sync"} => \A s \in Section : Fresh(s)

\* What holds at each step of a routine.
PcInv ==
    /\ vpc \in {"mmu_init", "ident"} => ~cp15.on /\ ~proc_pt /\ call.ret \in {"on", "run"}
    /\ vpc = "return" => ~proc_pt
    /\ vpc \in {"on", "enable"} => ~cp15.on
    /\ vpc \in {"run", "access", "abort", "off", "disable", "ptes", "sync"} => proc_pt
    /\ vpc \in {"off", "disable"} => call.ret \in {"run", "halted"}
    /\ vpc \in {"ptes", "sync"} => call.ret \in {"run", "access"}
    /\ vpc = "ptes" /\ call.ret = "run" =>
           (call.sec = Below /\ call.n \in 1 .. 2) \/ (call.sec = Stack /\ call.n = 1)
    /\ vpc = "ptes" /\ call.ret = "access" =>
           call.n = 1 /\ call.perm = AP_rw /\ call.sec = mmu_sec_num(access.a)
    /\ (vpc \in {"ptes", "sync"} /\ call.ret = "access") \/ vpc = "abort" => cp15.on

\* The faults of the access under way: one if and only if the table denied it
\* when it began, and then the handler has repaired the table.
FaultInv ==
    /\ VmAlive /\ vpc \notin {"access", "abort"} /\ ~(vpc \in {"ptes", "sync"} /\ call.ret = "access") =>
           access.faults = IF access.denied THEN 1 ELSE 0
    /\ vpc = "access" =>
           \/ access.faults = 0 /\ (access.denied <=> Denied(access.a))
           \/ access.faults = 1 /\ access.denied /\ ~Denied(access.a)
    /\ vpc = "abort" => access.faults = 1 /\ access.denied /\ Denied(access.a)
    /\ vpc \in {"ptes", "sync"} /\ call.ret = "access" =>
           /\ access.faults = 1 /\ access.denied /\ vpt[mmu_sec_num(access.a)].tag = 2
           /\ vpc = "sync" => vpt[mmu_sec_num(access.a)].AP = AP_rw

MemInv == mem = written

VmInv == VmTypeOK /\ TableInv /\ TlbInv /\ PcInv /\ FaultInv /\ MemInv /\ NeverLost

\* The number of a section, and the address of its first word.
LEMMA SectionOf ==
    /\ \A a \in VmAddr : /\ mmu_sec_num(a) \in Section /\ mmu_sec_num(a) * OneMB + (a % OneMB) = a
                         /\ mmu_sec_num(a - (a % OneMB)) = mmu_sec_num(a)
                         /\ mod_pow2(a - (a % OneMB))
    /\ \A s \in Section : mmu_sec_num(s * OneMB) = s
  BY SMTT(20) DEF VmAddr, Section, mmu_sec_num, OneMB, mod_pow2

Identity(s) == [tag |-> 2, base |-> s, AP |-> AP_rw, domain |-> dom_id]

\* mmu_map_section writes one descriptor, the identity with all permissions.
LEMMA MapsIdentity ==
    ASSUME NEW pt \in [Section -> Descriptor], NEW s \in Section, NEW va, mmu_sec_num(va) = s
    PROVE  /\ mmu_map_section(pt, va, va, dom_id) = [pt EXCEPT ![s] = Identity(s)]
           /\ Identity(s) \in Descriptor
<1>1. pt[s] \in Descriptor /\ va \div OneMB = s
  BY DEF mmu_sec_num
<1>2. fld_set_base_addr([pt[s] EXCEPT !.tag = 2, !.AP = AP_rw, !.domain = dom_id], va) = Identity(s)
  <2> DEFINE f == pt[s]
             f1 == [f EXCEPT !.tag = 2]
             f2 == [f1 EXCEPT !.AP = AP_rw]
             f3 == [f2 EXCEPT !.domain = dom_id]
  <2>1. f1 = [tag |-> 2, base |-> f.base, AP |-> f.AP, domain |-> f.domain]
    BY <1>1 DEF Descriptor
  <2> HIDE DEF f1
  <2>2. f2 = [tag |-> 2, base |-> f.base, AP |-> AP_rw, domain |-> f.domain]
    BY <2>1
  <2> HIDE DEF f2
  <2>3. f3 = [tag |-> 2, base |-> f.base, AP |-> AP_rw, domain |-> dom_id]
    BY <2>2
  <2> HIDE DEF f3
  <2>4. [f3 EXCEPT !.base = s] = Identity(s)
    BY <2>3 DEF Identity
  <2> QED BY <1>1, <2>4, Zenon DEF fld_set_base_addr, f1, f2, f3
<1>3. mmu_map_section(pt, va, va, dom_id) = [pt EXCEPT ![s] = Identity(s)]
  BY <1>1, <1>2, Zenon DEF mmu_map_section
<1> QED BY <1>3 DEF Identity, Descriptor, AP_rw, dom_id, Section

\* Whenever the translations are fresh, an access does what the table says.
LEMMA EntryIsTable ==
    ASSUME VmTypeOK, TableInv, vpc \notin {"mmu_init", "ident"}, NEW s \in Section, Fresh(s)
    PROVE  /\ Entry(s) = vpt[s] /\ ~DomainFault(s)
           /\ XlateFault(s) <=> cp15.on /\ vpt[s].tag = 0
           /\ PermFault(s) <=> cp15.on /\ vpt[s].tag = 2 /\ vpt[s].AP = AP_no_access
<1>1. Entry(s) = vpt[s]
  BY DEF Fresh, Entry
<1>2. vpt[s].tag \in {0, 2} /\ (vpt[s].tag = 2 => vpt[s].domain \in cp15.dac)
  BY DEF VmTypeOK, TableInv, Descriptor
<1> QED BY <1>1, <1>2 DEF DomainFault, XlateFault, PermFault, fld_check_valid

\* Setting up: mmu_init and vm_ident_mmu_init, up to its return.
LEMMA SetUpKeeps == ASSUME VmInv, mmu_init \/ vm_ident_mmu_init \/ InitReturns PROVE VmInv'
<1>0. VmTypeOK /\ TableInv /\ TlbInv /\ PcInv /\ FaultInv /\ MemInv
  BY DEF VmInv
<1>1. CASE mmu_init
  <2>1. NoTlb \in [Section -> Descriptor \cup {None}]
    BY DEF NoTlb
  <2>2. /\ tlb' = NoTlb /\ vpc = "mmu_init" /\ vpc' = "ident"
        /\ UNCHANGED <<vpt, cp15, mem, written, call, access, proc_pt>>
    BY <1>1 DEF mmu_init, mmu_reset
  <2>3. VmTypeOK' /\ MemInv'
    BY <1>0, <2>1, <2>2 DEF VmTypeOK, MemInv
  <2>4. TableInv' /\ TlbInv' /\ PcInv' /\ NeverLost'
    BY <1>0, <2>2, Zenon DEF TableInv, TlbInv, PcInv, NeverLost
  <2>5. FaultInv'
    BY <1>0, <2>2, Zenon DEF FaultInv, VmAlive
  <2> QED BY <2>3, <2>4, <2>5 DEF VmInv
<1>2. CASE vm_ident_mmu_init
  <2>1. /\ vpt' = IdentityTable /\ cp15' = [cp15 EXCEPT !.dac = {dom_id}] /\ vpc = "ident"
        /\ vpc' \in {"on", "return"}
        /\ UNCHANGED <<tlb, mem, written, call, access, proc_pt>>
    BY <1>2 DEF vm_ident_mmu_init, domain_access_ctrl_set
  <2>2. mmu_pt_init \in [Section -> Descriptor] /\ Unmapped \in Descriptor /\ Unmapped.tag = 0
    BY DEF mmu_pt_init, Unmapped, fld_mk, Descriptor, Section
  <2>3. \A s \in Section : IdentityMap(mmu_pt_init, s)[s] = Identity(s) /\ Identity(s) \in Descriptor
    <3> SUFFICES ASSUME NEW s \in Section
                 PROVE  IdentityMap(mmu_pt_init, s)[s] = Identity(s) /\ Identity(s) \in Descriptor
      OBVIOUS
    <3>1. mmu_sec_num(s * OneMB) = s
      BY SectionOf
    <3>2. IdentityMap(mmu_pt_init, s) = [mmu_pt_init EXCEPT ![s] = Identity(s)] /\ Identity(s) \in Descriptor
      BY <2>2, <3>1, MapsIdentity, Zenon DEF IdentityMap
    <3> QED BY <2>2, <3>2
  <2>4. vpt' \in [Section -> Descriptor]
    BY <2>1, <2>2, <2>3 DEF IdentityTable
  <2>5. \A s \in Section : vpt'[s] = IF s \in {Code, Heap, Gpio, Stack, IntStack} THEN Identity(s) ELSE Unmapped
    BY <2>1, <2>3 DEF IdentityTable
  <2>6. /\ cp15' \in [on : BOOLEAN, ttbr : BOOLEAN, dac : SUBSET {dom_id}] /\ cp15'.dac = {dom_id}
        /\ cp15'.on = cp15.on
    BY <1>0, <2>1 DEF VmTypeOK
  <2>7. VmTypeOK' /\ MemInv' /\ NeverLost'
    BY <1>0, <2>1, <2>4, <2>6 DEF VmTypeOK, MemInv, NeverLost
  <2>8. TableInv'
    BY <2>2, <2>5, <2>6 DEF TableInv, Identity, Section, Code, Heap, Gpio, Stack, IntStack, Below
  <2>9. PcInv' /\ FaultInv'
    BY <1>0, <2>1, <2>6 DEF PcInv, FaultInv, VmAlive
  <2>10. TlbInv'
    BY <1>0, <2>1 DEF TlbInv, NoTlb, Fresh
  <2> QED BY <2>7, <2>8, <2>9, <2>10 DEF VmInv
<1>3. CASE InitReturns
  <2>1. /\ vpc = "return" /\ proc_pt' = TRUE
        /\ vpc' = IF Reach(Code) /\ Reach(Stack) THEN "run" ELSE "lost"
        /\ UNCHANGED <<vpt, tlb, cp15, mem, written, call, access>>
    BY <1>3 DEF InitReturns
  <2>2. ASSUME NEW s \in {Code, Stack} PROVE Reach(s)
    <3>1. s \in Section /\ vpt[s].tag = 2 /\ vpt[s].AP = AP_rw /\ Fresh(s)
      BY <1>0, <2>1 DEF TableInv, TlbInv, VmAlive, PcInv, Code, Stack, Below, Section
    <3>2. ~DomainFault(s) /\ ~XlateFault(s) /\ ~PermFault(s)
      BY <1>0, <2>1, <3>1, EntryIsTable DEF AP_rw, AP_no_access
    <3> QED BY <3>2 DEF Reach
  <2>3. vpc' = "run"
    BY <2>1, <2>2
  <2>4. VmTypeOK' /\ MemInv' /\ NeverLost'
    BY <1>0, <2>1, <2>3 DEF VmTypeOK, MemInv, NeverLost
  <2>5. TableInv' /\ PcInv' /\ FaultInv'
    BY <1>0, <2>1, <2>3, Zenon DEF TableInv, PcInv, FaultInv, VmAlive
  <2>6. TlbInv'
    BY <1>0, <2>1, <2>3 DEF TlbInv, VmAlive, Fresh
  <2> QED BY <2>4, <2>5, <2>6 DEF VmInv
<1> QED BY <1>1, <1>2, <1>3

\* Turning the MMU on and off.
LEMMA SwitchKeeps ==
    ASSUME VmInv,
           \/ set_procid_ttbr0 \/ mmu_enable \/ mmu_disable \/ mmu_disable_set
           \/ vm_ident_mmu_on \/ vm_ident_mmu_off("run") \/ reboot_callout
    PROVE  VmInv'
<1>0. VmTypeOK /\ TableInv /\ TlbInv /\ PcInv /\ FaultInv /\ MemInv
  BY DEF VmInv
<1>1. UNCHANGED <<vpt, mem, written, access, proc_pt>> /\ tlb' \in {tlb, NoTlb}
  BY DEF set_procid_ttbr0, mmu_enable, mmu_disable, mmu_disable_set, vm_ident_mmu_on,
         vm_ident_mmu_off, reboot_callout, VmGoto
<1>2. \/ vpc = "on" /\ vpc' = "enable" /\ cp15' = [cp15 EXCEPT !.ttbr = TRUE] /\ call' = call
      \/ /\ vpc = "enable" /\ cp15' = [cp15 EXCEPT !.on = TRUE] /\ call' = call
         /\ vpc' = IF proc_pt THEN "run" ELSE "return"
      \/ vpc = "off" /\ vpc' = "disable" /\ UNCHANGED <<cp15, call>>
      \/ vpc = "disable" /\ cp15' = [cp15 EXCEPT !.on = FALSE] /\ vpc' = call.ret /\ call' = call
      \/ vpc = "run" /\ ~cp15.on /\ vpc' \in {"on", "halted"} /\ UNCHANGED <<cp15, call>>
      \/ /\ vpc = "run" /\ vpc' = "off" /\ cp15' = cp15
         /\ \E ret \in {"run", "halted"} : call' = [call EXCEPT !.ret = ret]
  BY DEF set_procid_ttbr0, mmu_enable, mmu_disable, mmu_disable_set, vm_ident_mmu_on,
         vm_ident_mmu_off, reboot_callout, VmGoto
<1>3. /\ cp15' \in [on : BOOLEAN, ttbr : BOOLEAN, dac : SUBSET {dom_id}] /\ cp15'.dac = cp15.dac
      /\ (vpc = "on" => cp15'.on = cp15.on)
  BY <1>0, <1>2, ZenonT(60) DEF VmTypeOK
<1>4. /\ call' \in [sec : Nat, n : Nat, perm : 0 .. 3, ret : {"on", "run", "access", "halted"}]
      /\ (vpc' = "off" => call'.ret \in {"run", "halted"}) /\ (vpc # "run" => call' = call)
  <2>1. CASE call' = call
    BY <1>0, <1>2, <2>1 DEF VmTypeOK, PcInv
  <2>2. CASE vpc = "run" /\ vpc' = "off" /\ \E ret \in {"run", "halted"} : call' = [call EXCEPT !.ret = ret]
    BY <1>0, <2>2 DEF VmTypeOK
  <2> QED BY <1>2, <2>1, <2>2
<1>5. NoTlb \in [Section -> Descriptor \cup {None}] /\ \A s \in Section : NoTlb[s] = None
  BY DEF NoTlb
<1>6. VmTypeOK' /\ MemInv'
  BY <1>0, <1>1, <1>3, <1>4, <1>5 DEF VmTypeOK, MemInv
<1>7. vpc \in {"on", "enable", "off", "disable", "run"} /\ vpc' \in {"on", "enable", "off", "disable", "run", "return", "halted"}
  BY <1>0, <1>2 DEF PcInv
<1>8. TableInv' /\ NeverLost'
  BY <1>0, <1>1, <1>3, <1>7 DEF TableInv, NeverLost
<1>9. TlbInv'
  BY <1>0, <1>1, <1>5, <1>7 DEF TlbInv, VmAlive, Fresh
<1>10. FaultInv'
  BY <1>0, <1>1, <1>7 DEF FaultInv, VmAlive
<1>11. PcInv'
  BY <1>0, <1>1, <1>2, <1>3, <1>4, <1>7 DEF PcInv, VmTypeOK
<1> QED BY <1>6, <1>8, <1>9, <1>10, <1>11 DEF VmInv

\* mmu_mprotect begins, called by the program or by the abort handler.
LEMMA ProtectStarts ==
    ASSUME VmInv, NEW va \in VmAddr, NEW nsec \in Nat, NEW perm \in 0 .. 3, NEW ret \in {"run", "access"},
           MProtect(va, nsec, perm, ret),
           \/ vpc = "run" /\ ret = "run" /\ mmu_sec_num(va) = Below /\ nsec \in 1 .. 2
           \/ /\ vpc = "abort" /\ ret = "access" /\ nsec = 1 /\ perm = AP_rw
              /\ mmu_sec_num(va) = mmu_sec_num(access.a) /\ vpt[mmu_sec_num(va)].tag = 2
    PROVE  VmInv'
<1>0. VmTypeOK /\ TableInv /\ TlbInv /\ PcInv /\ FaultInv /\ MemInv
  BY DEF VmInv
<1>1. mmu_sec_num(va - (va % OneMB)) = mmu_sec_num(va) /\ mod_pow2(va - (va % OneMB)) /\ mmu_sec_num(va) \in Section
  BY SectionOf
<1>2. /\ call' = [sec |-> mmu_sec_num(va), n |-> nsec, perm |-> perm, ret |-> ret]
      /\ vpc' = IF vpt[mmu_sec_num(va)].tag = 2 THEN "ptes" ELSE "halted"
      /\ UNCHANGED <<vpt, tlb, cp15, mem, written, access, proc_pt>>
  BY <1>1 DEF MProtect, VmGoto, mmu_lookup_section, fld_check_valid
<1>3. VmTypeOK' /\ MemInv' /\ NeverLost'
  BY <1>0, <1>1, <1>2 DEF VmTypeOK, MemInv, NeverLost, Section
<1>4. TableInv' /\ TlbInv'
  BY <1>0, <1>2, Zenon DEF TableInv, TlbInv, VmAlive
<1>5. call'.sec = mmu_sec_num(va) /\ call'.n = nsec /\ call'.perm = perm /\ call'.ret = ret
  BY <1>2, Zenon
<1>6. PcInv'
  BY <1>0, <1>2, <1>5, Zenon DEF PcInv
<1>7. FaultInv'
  BY <1>0, <1>2, <1>5, Zenon DEF FaultInv, VmAlive
<1> QED BY <1>3, <1>4, <1>6, <1>7 DEF VmInv

\* mmu_mprotect: each store to the table, and the invalidation.
LEMMA ProtectKeeps == ASSUME VmInv, mmu_mprotect \/ mmu_sync_pte_mods PROVE VmInv'
<1>0. VmTypeOK /\ TableInv /\ TlbInv /\ PcInv /\ FaultInv /\ MemInv
  BY DEF VmInv
<1>1. CASE mmu_sync_pte_mods
  <2>1. /\ vpc = "sync" /\ tlb' = NoTlb /\ vpc' = call.ret /\ call.ret \in {"run", "access"}
        /\ UNCHANGED <<vpt, cp15, call, mem, written, access, proc_pt>>
    BY <1>0, <1>1 DEF mmu_sync_pte_mods, VmGoto, PcInv
  <2>2. NoTlb \in [Section -> Descriptor \cup {None}] /\ \A s \in Section : NoTlb[s] = None
    BY DEF NoTlb
  <2>3. VmTypeOK' /\ MemInv' /\ NeverLost' /\ TableInv'
    BY <1>0, <2>1, <2>2 DEF VmTypeOK, MemInv, NeverLost, TableInv
  <2>4. TlbInv' /\ PcInv'
    BY <1>0, <2>1, <2>2 DEF TlbInv, Fresh, PcInv
  <2>5. FaultInv'
    <3>1. CASE call.ret = "run"
      <4>1. access.faults = IF access.denied THEN 1 ELSE 0
        BY <1>0, <2>1, <3>1 DEF FaultInv, VmAlive
      <4> QED BY <2>1, <3>1, <4>1 DEF FaultInv
    <3>2. CASE call.ret = "access"
      <4>1. /\ access.faults = 1 /\ access.denied /\ vpt[mmu_sec_num(access.a)].tag = 2
            /\ vpt[mmu_sec_num(access.a)].AP = AP_rw
        BY <1>0, <2>1, <3>2 DEF FaultInv
      <4>2. ~Denied(access.a)'
        BY <2>1, <4>1 DEF Denied, AP_rw, AP_no_access
      <4> QED BY <2>1, <3>2, <4>1, <4>2 DEF FaultInv
    <3> QED BY <2>1, <3>1, <3>2
  <2> QED BY <2>3, <2>4, <2>5 DEF VmInv
<1>2. CASE mmu_mprotect
  <2> DEFINE c == call.sec
             f == [vpt[c] EXCEPT !.AP = call.perm]
  <2>1. /\ vpc = "ptes" /\ vpt' = [vpt EXCEPT ![c] = f]
        /\ call' = [call EXCEPT !.sec = @ + 1, !.n = @ - 1]
        /\ vpc' = IF call.n > 1 THEN "ptes" ELSE "sync"
        /\ UNCHANGED <<tlb, cp15, mem, written, access, proc_pt>>
    BY <1>2 DEF mmu_mprotect, VmGoto
  <2>2. access.a \in VmAddr /\ mmu_sec_num(access.a) \in Section
    BY <1>0, SectionOf DEF VmTypeOK
  <2>3. /\ c \in Section /\ call.n \in {1, 2} /\ call.perm \in 0 .. 3 /\ call.ret \in {"run", "access"}
        /\ (call.ret = "access" => call.n = 1 /\ call.perm = AP_rw /\ c = mmu_sec_num(access.a))
        /\ (call.ret = "run" => c \in {Below, Stack} /\ (call.n = 2 => c = Below))
    BY <1>0, <2>1, <2>2 DEF VmTypeOK, PcInv, Below, Stack, Section
  <2>4. /\ f \in Descriptor /\ f.tag = vpt[c].tag /\ f.base = vpt[c].base /\ f.domain = vpt[c].domain
        /\ f.AP = call.perm
    <3>1. vpt[c] \in Descriptor
      BY <1>0, <2>3 DEF VmTypeOK
    <3> QED BY <2>3, <3>1 DEF Descriptor
  <2>5. /\ call' \in [sec : Nat, n : Nat, perm : 0 .. 3, ret : {"on", "run", "access", "halted"}]
        /\ call'.sec = c + 1 /\ call'.n = call.n - 1 /\ call'.perm = call.perm /\ call'.ret = call.ret
    <3>1. c + 1 \in Nat /\ call.n - 1 \in Nat
      BY <2>3 DEF Section
    <3>2. call = [sec |-> c, n |-> call.n, perm |-> call.perm, ret |-> call.ret]
      BY <1>0 DEF VmTypeOK
    <3>3. call' = [sec |-> c + 1, n |-> call.n - 1, perm |-> call.perm, ret |-> call.ret]
      BY <2>1, <3>2, Zenon
    <3> QED BY <1>0, <2>3, <3>1, <3>3 DEF VmTypeOK
  <2> HIDE DEF f, c
  <2>6. \A s \in Section : vpt'[s] = IF s = c THEN f ELSE vpt[s]
    BY <1>0, <2>1, <2>3 DEF VmTypeOK
  <2>7. VmTypeOK' /\ MemInv' /\ NeverLost'
    BY <1>0, <2>1, <2>3, <2>4, <2>5 DEF VmTypeOK, MemInv, NeverLost
  <2>8. TableInv'
    <3>1. vpc' \in {"ptes", "sync"} /\ proc_pt
      BY <1>0, <2>1 DEF PcInv
    <3>2. {Code, Heap, Gpio, Stack, IntStack} \subseteq Section
      BY DEF Code, Heap, Gpio, Stack, IntStack, Section
    <3>3. \A s \in Section : vpt'[s].tag = vpt[s].tag /\ vpt'[s].base = vpt[s].base
                             /\ vpt'[s].domain = vpt[s].domain
                             /\ (s \notin {Below, Stack} => vpt'[s].AP \in {AP_rw, vpt[s].AP})
      BY <2>3, <2>4, <2>6
    <3> QED BY <1>0, <2>1, <3>1, <3>2, <3>3 DEF TableInv
  <2>9. TlbInv'
    BY <2>1 DEF TlbInv
  <2>10. PcInv'
    BY <1>0, <2>1, <2>3, <2>5 DEF PcInv, Below, Stack
  <2>11. FaultInv'
    BY <1>0, <2>1, <2>2, <2>3, <2>4, <2>5, <2>6 DEF FaultInv, VmAlive
  <2> QED BY <2>7, <2>8, <2>9, <2>10, <2>11 DEF VmInv
<1> QED BY <1>1, <1>2

\* A store to the table outside of mmu_mprotect: the identity, where the
\* processor holds no other translation.
LEMMA MapKeeps ==
    ASSUME VmTypeOK, TableInv, NEW s \in Section, vpt' = [vpt EXCEPT ![s] = Identity(s)],
           vpc \in {"run", "abort"}, vpc' \in {"run", "access"},
           UNCHANGED <<tlb, cp15, mem, written, access, call, proc_pt>>,
           \A x \in Section : Fresh(x), vpt[s].tag = 0 \/ s \notin {Below, Stack},
           proc_pt, MemInv
    PROVE  VmTypeOK' /\ TableInv' /\ TlbInv' /\ MemInv' /\ NeverLost' /\ vpt'[s] = Identity(s)
<1>1. Identity(s) \in Descriptor
  BY DEF Identity, Descriptor, AP_rw, dom_id, Section
<1>2. \A x \in Section : vpt'[x] = IF x = s THEN Identity(s) ELSE vpt[x]
  BY DEF VmTypeOK
<1>3. VmTypeOK' /\ MemInv' /\ NeverLost'
  BY <1>1 DEF VmTypeOK, MemInv, NeverLost
<1>4. {Code, Heap, Gpio, Stack, IntStack} \subseteq Section
  BY DEF Code, Heap, Gpio, Stack, IntStack, Section
<1>5. TableInv'
  <2>1. Identity(s).tag = 2 /\ Identity(s).base = s /\ Identity(s).AP = AP_rw /\ Identity(s).domain = dom_id
    BY DEF Identity
  <2>2. \A x \in Section : vpt'[x] = vpt[x] \/ (x = s /\ vpt'[x] = Identity(x))
    BY <1>2
  <2>3. cp15'.dac = {dom_id} /\ proc_pt'
    BY DEF TableInv
  <2>4. \A x \in Section : vpt'[x].tag = 2 => vpt'[x].base = x /\ vpt'[x].domain = dom_id
    BY <2>1, <2>2 DEF TableInv
  <2>5. \A x \in {Code, Heap, Gpio, Stack, IntStack} : vpt'[x].tag = 2
    BY <1>4, <2>1, <2>2 DEF TableInv
  <2>6. \A x \in Section \ {Below, Stack} : vpt'[x].tag = 2 => vpt'[x].AP = AP_rw
    BY <2>1, <2>2 DEF TableInv
  <2> QED BY <2>3, <2>4, <2>5, <2>6 DEF TableInv
<1>6. vpt[s].tag = 2 => vpt[s] = Identity(s)
  <2>1. vpt[s] \in Descriptor
    BY DEF VmTypeOK
  <2>2. vpt[s].tag = 2 => vpt[s].base = s /\ vpt[s].domain = dom_id /\ (s \notin {Below, Stack} => vpt[s].AP = AP_rw)
    BY Zenon DEF TableInv
  <2>3. vpt[s] = [tag |-> vpt[s].tag, base |-> vpt[s].base, AP |-> vpt[s].AP, domain |-> vpt[s].domain]
    BY <2>1 DEF Descriptor
  <2> QED BY <2>2, <2>3 DEF Identity
<1>7. TlbInv'
  <2>1. \A x \in Section : Fresh(x)'
    BY <1>2, <1>6 DEF Fresh
  <2> QED BY <2>1 DEF TlbInv
<1> QED BY <1>2, <1>3, <1>5, <1>7

\* mmu_map_section while the MMU is off, and a walk of the processor.
LEMMA WalkAndMapKeep ==
    ASSUME VmInv, (\E s \in {Below, Stack, Free} : Walk(s)) \/ (\E s \in VmMapped : MapSection(s))
    PROVE  VmInv'
<1>0. VmTypeOK /\ TableInv /\ TlbInv /\ PcInv /\ FaultInv /\ MemInv
  BY DEF VmInv
<1>1. ASSUME NEW s \in {Below, Stack, Free}, Walk(s) PROVE VmInv'
  <2>1. /\ vpt[s].tag = 2 /\ tlb' = [tlb EXCEPT ![s] = vpt[s]] /\ VmAlive /\ cp15.on
        /\ UNCHANGED <<vpt, cp15, mem, written, vpc, call, access, proc_pt>>
    BY <1>1 DEF Walk, fld_check_valid, VmAlive
  <2>2. s \in Section /\ vpt[s] \in Descriptor
    BY <1>0 DEF VmTypeOK, Below, Stack, Free, Section
  <2>3. VmTypeOK' /\ MemInv' /\ NeverLost' /\ TableInv'
    BY <1>0, <2>1, <2>2, Zenon DEF VmInv, VmTypeOK, MemInv, NeverLost, TableInv
  <2>4. PcInv' /\ FaultInv'
    BY <1>0, <2>1, ZenonT(60) DEF PcInv, FaultInv, VmAlive, Denied
  <2>5. TlbInv'
    <3>1. \A x \in Section : Fresh(x) => Fresh(x)'
      BY <1>0, <2>1, <2>2 DEF Fresh, VmTypeOK
    <3>2. vpc # "ident"
      BY <1>0, <2>1 DEF PcInv
    <3> QED BY <1>0, <2>1, <3>1, <3>2, Zenon DEF TlbInv, VmAlive
  <2> QED BY <2>3, <2>4, <2>5 DEF VmInv
<1>2. ASSUME NEW s \in VmMapped, MapSection(s) PROVE VmInv'
  <2>1. s \in Section /\ s \notin {Below, Stack}
    BY VmAssumption
  <2>2. mmu_sec_num(s * OneMB) = s /\ vpt \in [Section -> Descriptor]
    BY <1>0, <2>1, SectionOf DEF VmTypeOK
  <2>3. IdentityMap(vpt, s) = [vpt EXCEPT ![s] = Identity(s)]
    BY <2>1, <2>2, MapsIdentity, ZenonT(60) DEF IdentityMap
  <2>4. /\ vpc = "run" /\ vpc' = "run" /\ vpt' = [vpt EXCEPT ![s] = Identity(s)]
        /\ UNCHANGED <<tlb, cp15, mem, written, access, call, proc_pt>>
    BY <1>2, <2>3 DEF MapSection, VmGoto
  <2>5. proc_pt /\ \A x \in Section : Fresh(x)
    BY <1>0, <2>4 DEF PcInv, TlbInv, VmAlive
  <2>6. VmTypeOK' /\ TableInv' /\ TlbInv' /\ MemInv' /\ NeverLost'
    BY <1>0, <2>1, <2>4, <2>5, MapKeeps, Zenon
  <2>7. PcInv' /\ FaultInv'
    BY <1>0, <2>4, Zenon DEF PcInv, FaultInv, VmAlive
  <2> QED BY <2>6, <2>7 DEF VmInv
<1> QED BY <1>1, <1>2

\* An access: its start, the store or the fault, and the abort handler.
LEMMA AccessKeeps ==
    ASSUME VmInv, (\E a \in VmAccess, v \in 0 .. 1 : Access(a, v)) \/ Store \/ data_abort_vector_vm
    PROVE  VmInv'
<1>0. VmTypeOK /\ TableInv /\ TlbInv /\ PcInv /\ FaultInv /\ MemInv
  BY DEF VmInv
<1>1. ASSUME NEW a \in VmAccess, NEW v \in 0 .. 1, Access(a, v) PROVE VmInv'
  <2>1. /\ vpc = "run" /\ vpc' = "access" /\ a \in VmAddr /\ Denied(a) \in BOOLEAN
        /\ access' = [a |-> a, v |-> v, faults |-> 0, denied |-> Denied(a)]
        /\ UNCHANGED <<vpt, tlb, cp15, mem, written, call, proc_pt>>
    BY <1>0, <1>1, VmAssumption, Zenon DEF Access, Denied, VmTypeOK
  <2>2. access'.faults = 0 /\ access'.a = a /\ access'.denied = Denied(a) /\ (Denied(a)' <=> Denied(a))
    BY <2>1, ZenonT(60) DEF Denied
  <2>3. VmTypeOK' /\ MemInv' /\ NeverLost'
    BY <1>0, <2>1 DEF VmTypeOK, MemInv, NeverLost
  <2>4. TableInv' /\ PcInv'
    BY <1>0, <2>1, Zenon DEF TableInv, PcInv
  <2>5. TlbInv'
    BY <1>0, <2>1, Zenon DEF TlbInv, VmAlive, Fresh
  <2>6. FaultInv'
    BY <2>1, <2>2, ZenonT(60) DEF FaultInv, Denied
  <2> QED BY <2>3, <2>4, <2>5, <2>6 DEF VmInv
<1> DEFINE s == mmu_sec_num(access.a)
<1>2. access.a \in VmAddr /\ s \in Section /\ s * OneMB + (access.a % OneMB) = access.a
  BY <1>0, SectionOf DEF VmTypeOK
<1>3. ASSUME vpc \in {"access", "abort"}
      PROVE  /\ \A x \in Section : Fresh(x) /\ Entry(x) = vpt[x] /\ ~DomainFault(x)
                   /\ (XlateFault(x) <=> cp15.on /\ vpt[x].tag = 0)
                   /\ (PermFault(x) <=> cp15.on /\ vpt[x].tag = 2 /\ vpt[x].AP = AP_no_access)
             /\ proc_pt
  BY <1>0, <1>3, EntryIsTable, Zenon DEF TlbInv, VmAlive, PcInv
<1>4. ASSUME vpc \in {"access", "abort"}
      PROVE  (Denied(access.a) <=> XlateFault(s) \/ PermFault(s)) /\ (Reach(s) <=> ~Denied(access.a))
  <2>1. vpt[s].tag \in {0, 2}
    BY <1>0, <1>2 DEF VmTypeOK, Descriptor
  <2>2. Denied(access.a) <=> cp15.on /\ (vpt[s].tag = 0 \/ vpt[s].AP = AP_no_access)
    BY DEF Denied
  <2> HIDE DEF s
  <2>3. ~DomainFault(s) /\ (XlateFault(s) <=> cp15.on /\ vpt[s].tag = 0)
        /\ (PermFault(s) <=> cp15.on /\ vpt[s].tag = 2 /\ vpt[s].AP = AP_no_access)
    BY <1>2, <1>3, <1>4
  <2> QED BY <2>1, <2>2, <2>3, Zenon DEF Reach
<1>5. CASE Store
  <2>1. vpc = "access" /\ UNCHANGED <<vpt, tlb, cp15, call, proc_pt>>
    BY <1>5 DEF Store
  <2>2. CASE Reach(s)
    <3>1. /\ vpc' = "run" /\ access' = access
          /\ mem' = [mem EXCEPT ![Physical(access.a)] = access.v]
          /\ written' = [written EXCEPT ![access.a] = access.v]
      BY <1>5, <2>2 DEF Store
    <3>2. Physical(access.a) = access.a
      <4>1. CASE ~cp15.on
        BY <4>1 DEF Physical
      <4>2. CASE cp15.on
        <5>1. Entry(s) = vpt[s] /\ vpt[s].tag \in {0, 2} /\ ~XlateFault(s) /\ (XlateFault(s) <=> cp15.on /\ vpt[s].tag = 0)
          BY <1>0, <1>2, <1>3, <2>1, <2>2 DEF VmTypeOK, Descriptor, Reach
        <5>2. vpt[s].base = s
          BY <1>0, <1>2, <2>1, <4>2, <5>1 DEF TableInv
        <5> QED BY <1>2, <4>2, <5>1, <5>2 DEF Physical
      <4> QED BY <4>1, <4>2
    <3>3. ~Denied(access.a) /\ access.faults = IF access.denied THEN 1 ELSE 0
      BY <1>0, <1>4, <2>1, <2>2, ZenonT(60) DEF FaultInv
    <3>4. VmTypeOK' /\ MemInv' /\ NeverLost'
      BY <1>0, <2>1, <3>1, <3>2 DEF VmTypeOK, MemInv, NeverLost
    <3>5. TableInv' /\ PcInv' /\ FaultInv'
      BY <1>0, <2>1, <3>1, <3>3, Zenon DEF TableInv, PcInv, FaultInv
    <3>6. TlbInv'
      BY <1>0, <2>1, <3>1, Zenon DEF TlbInv, VmAlive, Fresh
    <3> QED BY <3>4, <3>5, <3>6 DEF VmInv
  <2>3. CASE ~Reach(s)
    <3>1. \A h \in {IntStack, Heap, Gpio} : Reach(h)
      <4> SUFFICES ASSUME NEW h \in {IntStack, Heap, Gpio} PROVE Reach(h)
        OBVIOUS
      <4>1. h \in Section /\ vpt[h].tag = 2 /\ vpt[h].AP = AP_rw
        BY <1>0, <2>1 DEF TableInv, IntStack, Heap, Gpio, Section, Below, Stack
      <4>2. ~DomainFault(h) /\ ~XlateFault(h) /\ ~PermFault(h)
        BY <1>3, <2>1, <4>1 DEF AP_rw, AP_no_access
      <4> QED BY <4>2 DEF Reach
    <3>2. /\ vpc' = "abort" /\ access' = [access EXCEPT !.faults = @ + 1] /\ UNCHANGED <<mem, written>>
      BY <1>3, <1>5, <2>1, <2>3, <3>1 DEF Store
    <3>3. Denied(access.a) /\ access.faults = 0 /\ access.denied /\ cp15.on
      BY <1>0, <1>4, <2>1, <2>3, Zenon DEF FaultInv, Denied
    <3>4. /\ access' \in [a : VmAddr, v : Nat, faults : Nat, denied : BOOLEAN] /\ access'.a = access.a
          /\ access'.faults = 1 /\ access'.denied
      BY <1>0, <3>2, <3>3 DEF VmTypeOK
    <3>5. VmTypeOK' /\ MemInv' /\ NeverLost'
      BY <1>0, <2>1, <3>2, <3>4 DEF VmTypeOK, MemInv, NeverLost
    <3>6. TableInv' /\ PcInv'
      BY <1>0, <1>3, <2>1, <3>2, <3>3 DEF TableInv, PcInv
    <3>7. FaultInv'
      BY <2>1, <3>2, <3>3, <3>4 DEF FaultInv, Denied
    <3>8. TlbInv'
      BY <1>0, <2>1, <3>2 DEF TlbInv, VmAlive, Fresh
    <3> QED BY <3>5, <3>6, <3>7, <3>8 DEF VmInv
  <2> QED BY <2>2, <2>3
<1>6. CASE data_abort_vector_vm
  <2> DEFINE base == access.a - (access.a % OneMB)
  <2>1. vpc = "abort" /\ access.faults = 1 /\ access.denied
    BY <1>0, <1>6, Zenon DEF data_abort_vector_vm, FaultInv
  <2>2. base \in VmAddr /\ mmu_sec_num(base) = s
    <3>1. base \in VmAddr
      BY <1>2 DEF VmAddr, OneMB
    <3> QED BY <1>2, <3>1, SectionOf
  <2>3. CASE XlateFault(s) /\ vpt' = mmu_map_section(vpt, base, base, dom_id) /\ VmGoto("access")
             /\ UNCHANGED <<tlb, cp15, call>>
    <3>1. vpt' = [vpt EXCEPT ![s] = Identity(s)]
      BY <1>0, <1>2, <2>2, <2>3, MapsIdentity, ZenonT(60) DEF VmTypeOK
    <3>2. vpt[s].tag = 0 /\ proc_pt /\ \A x \in Section : Fresh(x)
      BY <1>2, <1>3, <2>1, <2>3
    <3>3. vpc' = "access" /\ UNCHANGED <<tlb, cp15, mem, written, access, call, proc_pt>>
      BY <2>3 DEF VmGoto
    <3>4. VmTypeOK' /\ TableInv' /\ TlbInv' /\ MemInv' /\ NeverLost' /\ vpt'[s] = Identity(s)
      BY <1>0, <1>2, <2>1, <3>1, <3>2, <3>3, MapKeeps, Zenon
    <3>5. PcInv'
      BY <3>2, <3>3, ZenonT(60) DEF PcInv
    <3>6. FaultInv'
      <4>1. vpt'[s].tag = 2 /\ vpt'[s].AP = AP_rw
        BY <3>4 DEF Identity
      <4>2. ~Denied(access.a)'
        BY <3>3, <4>1 DEF Denied, AP_rw, AP_no_access
      <4>3. access.faults = 1 /\ access.denied
        BY <2>1
      <4> QED BY <3>3, <4>2, <4>3 DEF FaultInv
    <3> QED BY <3>4, <3>5, <3>6 DEF VmInv
  <2>4. CASE PermFault(s) /\ MProtect(base, 1, AP_rw, "access")
    <3>1. vpt[s].tag = 2
      BY <1>2, <1>3, <2>1, <2>4
    <3>2. 1 \in Nat /\ AP_rw \in 0 .. 3
      BY DEF AP_rw
    <3> QED BY <2>1, <2>2, <2>4, <3>1, <3>2, ProtectStarts
  <2> QED BY <1>6, <2>3, <2>4 DEF data_abort_vector_vm
<1> QED BY <1>1, <1>5, <1>6

\* vm/mmu.c, vm-ident.c, mmu-except.c: whatever sections the program maps, gives
\* permissions to and accesses, and whenever the processor walks the table, the
\* program sees memory as the page table in force says, and its faults are the
\* table's and are handled.
THEOREM SeesItsTableHolds == VmSpec => []SeesItsTable
<1>1. VmInit => VmInv
  <2> SUFFICES ASSUME VmInit PROVE VmInv
    OBVIOUS
  <2>1. vpt \in [Section -> Descriptor]
    BY DEF VmInit, mmu_pt_init, Unmapped, fld_mk, Descriptor, Section
  <2>2. tlb \in [Section -> Descriptor \cup {None}]
    <3>1. [fld_mk EXCEPT !.base = Free] \in Descriptor
      BY DEF fld_mk, Descriptor, Free, Section
    <3> QED BY <3>1, Zenon DEF VmInit, NoTlb
  <2>3. /\ call \in [sec : Nat, n : Nat, perm : 0 .. 3, ret : {"on", "run", "access", "halted"}]
        /\ call.ret \in {"on", "run"}
    BY DEF VmInit
  <2>4. access \in [a : VmAddr, v : Nat, faults : Nat, denied : BOOLEAN] /\ access.faults = 0 /\ ~access.denied
    BY DEF VmInit, VmAddr, OneMB
  <2>5. cp15 \in [on : BOOLEAN, ttbr : BOOLEAN, dac : SUBSET {dom_id}] /\ ~cp15.on /\ vpc = "mmu_init"
        /\ ~proc_pt /\ proc_pt \in BOOLEAN /\ mem = written /\ mem \in [VmAddr -> Nat]
    BY Zenon DEF VmInit
  <2> QED BY <2>1, <2>2, <2>3, <2>4, <2>5, Zenon
    DEF VmInv, VmTypeOK, TableInv, TlbInv, PcInv, FaultInv, MemInv, NeverLost
<1>2. VmInv /\ [VmNext]_vm_vars => VmInv'
  <2> SUFFICES ASSUME VmInv, [VmNext]_vm_vars PROVE VmInv'
    OBVIOUS
  <2>1. CASE UNCHANGED vm_vars
    <3>1. (VmTypeOK' <=> VmTypeOK) /\ (TableInv' <=> TableInv) /\ (MemInv' <=> MemInv)
      BY <2>1 DEF vm_vars, VmTypeOK, TableInv, MemInv
    <3>2. (TlbInv' <=> TlbInv) /\ (PcInv' <=> PcInv) /\ (NeverLost' <=> NeverLost)
      BY <2>1, Zenon DEF vm_vars, TlbInv, PcInv, NeverLost, VmAlive, Fresh
    <3>3. FaultInv' <=> FaultInv
      BY <2>1, Zenon DEF vm_vars, FaultInv, VmAlive, Denied
    <3> QED BY <3>1, <3>2, <3>3 DEF VmInv
  <2>2. ASSUME NEW n \in 1 .. 2, NEW perm \in VmPerms, UserMProtect(n, perm) PROVE VmInv'
    <3> DEFINE va == Below * OneMB + 1
    <3>1. va \in VmAddr /\ mmu_sec_num(va) = Below
      BY DEF VmAddr, OneMB, Below, mmu_sec_num
    <3>2. n \in Nat /\ perm \in 0 .. 3
      BY VmAssumption
    <3>3. vpc = "run" /\ MProtect(va, n, perm, "run")
      BY <2>2 DEF UserMProtect
    <3> HIDE DEF va
    <3> QED BY <3>1, <3>2, <3>3, ProtectStarts, Zenon
  <2> QED BY <2>1, <2>2, SetUpKeeps, SwitchKeeps, ProtectKeeps, WalkAndMapKeep, AccessKeeps
    DEF VmNext, VmRoutine
<1>3. VmInv => SeesItsTable
  <2> SUFFICES ASSUME VmInv PROVE SeesItsTable
    OBVIOUS
  <2>1. TlbCoherent
    BY DEF VmInv, TlbInv, TlbCoherent, VmAlive, Fresh
  <2>2. ViewKept /\ FaultsAsTable
    BY Zenon DEF VmInv, MemInv, FaultInv, VmAlive, ViewKept, FaultsAsTable
  <2> QED BY <2>1, <2>2 DEF VmInv, SeesItsTable
<1> QED BY <1>1, <1>2, <1>3, PTL DEF VmSpec
=============================================================================
