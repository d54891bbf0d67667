--------------------------- MODULE SessionsProofs ---------------------------
(***************************************************************************)
(* The port table of the master and the way of replies, for any number of  *)
(* clients, of ports, of losses and of repeated requests: ports are        *)
(* counted exactly, and while no client was refused every reply reaches    *)
(* the client that asked for it.                                           *)
(***************************************************************************)
EXTENDS Sessions, FiniteSetTheorems, TLAPS

USE SMTT(20), ZenonT(20)

-----------------------------------------------------------------------------
(* The table of ports. *)

\* Every set of ports that is not empty has a least element, which Least is.
LEMMA LeastIn ==
    ASSUME NEW S, S \subseteq Port, S # {}
    PROVE  Least(S) \in S
<1> DEFINE R == {ss \in Nat \X Nat : ss[1] < ss[2]}
<1>1. IsWellFoundedOn(R, Nat)
  BY NatLessThanWellFounded DEF OpToRel
<1>2. S \subseteq Nat
  BY SessionsAssumption DEF Port
<1>3. PICK x \in S : \A y \in S : <<y, x>> \notin R
  <2> HIDE DEF R
  <2> QED BY <1>1, <1>2, WFMin, Zenon
<1>4. \A y \in S : x <= y
  <2>1. ASSUME NEW y \in S, y < x PROVE <<y, x>> \in R
    BY <1>2, <2>1
  <2>2. \A y \in S : ~(y < x)
    <3> HIDE DEF R
    <3> QED BY <1>3, <2>1, Zenon
  <2> QED BY <1>2, <2>2
<1> QED BY <1>4 DEF Least

\* There are DFS_MAX_CONN ports.
LEMMA PortsFinite == IsFiniteSet(Port) /\ Cardinality(Port) = DFS_MAX_CONN
<1> DEFINE b == DFS_MAX_CONN - 1
<1>1. 0 \in Int /\ b \in Int /\ ~(0 > b) /\ b - 0 + 1 = DFS_MAX_CONN
  BY SessionsAssumption
<1>2. IsFiniteSet(0 .. b) /\ Cardinality(0 .. b) = IF 0 > b THEN 0 ELSE b - 0 + 1
  <2> HIDE DEF b
  <2> QED BY <1>1, FS_Interval
<1> QED BY <1>1, <1>2 DEF Port

\* Any set of ports is finite.
LEMMA SomePorts ==
    ASSUME NEW S, S \subseteq Port
    PROVE  IsFiniteSet(S) /\ Cardinality(S) \in Nat
BY PortsFinite, FS_Subset, FS_CardinalityType

\* try_assign_port keeps the table exact, moves no client to another port and
\* does not fail its assertion; the port that is sent belongs to the client.
LEMMA AssignKeeps ==
    ASSUME SesTypeOK, PortsExact, NEW addr \in Client, try_assign_port(addr)
    PROVE  /\ client_addrs' \in [Port -> Client \cup {0}] /\ n_conns' \in Nat /\ PortsExact'
           /\ \A p \in Port : client_addrs[p] # 0 => client_addrs'[p] = client_addrs[p]
           /\ Assigned(addr) \cup Assigned(0) # {} =>
                PortFor(addr) \in Port /\ client_addrs'[PortFor(addr)] = addr
<1> DEFINE S == {q \in Port : client_addrs'[q] = addr}
<1>0. client_addrs \in [Port -> Client \cup {0}] /\ n_conns \in Nat
  BY DEF SesTypeOK
<1>1. S # {} => PortFor(addr) \in Port /\ client_addrs'[PortFor(addr)] = addr
  <2>1. S # {} => Least(S) \in S
    BY LeastIn
  <2> QED BY <2>1 DEF PortFor
<1>2. CASE Assigned(addr) # {}
  <2>1. UNCHANGED <<client_addrs, n_conns, up>>
    BY <1>2 DEF try_assign_port
  <2>2. S # {}
    BY <1>2, <2>1 DEF Assigned
  <2> QED BY <1>0, <1>1, <2>1, <2>2 DEF PortsExact, Assigned
<1>3. CASE Assigned(addr) = {} /\ Assigned(0) = {}
  <2>1. Port \ Assigned(0) = Port
    BY <1>3
  <2>2. n_conns = DFS_MAX_CONN
    BY <2>1, PortsFinite DEF PortsExact
  <2>3. up' = TRUE /\ UNCHANGED <<client_addrs, n_conns>>
    BY <1>3, <2>2, Zenon DEF try_assign_port
  <2> QED BY <1>0, <1>3, <2>3 DEF PortsExact, Assigned
<1>4. CASE Assigned(addr) = {} /\ Assigned(0) # {}
  <2> DEFINE p == Least(Assigned(0))
  <2>1. p \in Port /\ client_addrs[p] = 0
    <3>1. Assigned(0) \subseteq Port
      BY DEF Assigned
    <3>2. p \in Assigned(0)
      BY <1>4, <3>1, LeastIn
    <3> QED BY <3>2 DEF Assigned
  <2>2. client_addrs' = [client_addrs EXCEPT ![p] = addr] /\ n_conns' = n_conns + 1 /\ up' = up
    BY <1>4 DEF try_assign_port
  <2> HIDE DEF p
  <2>3. client_addrs' \in [Port -> Client \cup {0}] /\ n_conns' \in Nat
    BY <1>0, <2>1, <2>2
  <2>4. \A q \in Port : client_addrs'[q] = IF q = p THEN addr ELSE client_addrs[q]
    BY <1>0, <2>1, <2>2
  <2>5. addr # 0
    BY SessionsAssumption
  <2>6. Port \ Assigned(0)' = (Port \ Assigned(0)) \cup {p} /\ p \notin Port \ Assigned(0)
    BY <2>1, <2>4, <2>5 DEF Assigned
  <2>7. n_conns' = Cardinality(Port \ Assigned(0)')
    <3>1. IsFiniteSet(Port \ Assigned(0))
      BY SomePorts
    <3>2. Cardinality((Port \ Assigned(0)) \cup {p}) = Cardinality(Port \ Assigned(0)) + 1
      BY <2>6, <3>1, FS_AddElement, Zenon
    <3> QED BY <2>2, <2>6, <3>2 DEF PortsExact
  <2>8. ASSUME NEW c \in Client PROVE Cardinality(Assigned(c)') <= 1
    <3>1. CASE c = addr
      <4>1. Assigned(c)' = {p}
        BY <1>4, <2>1, <2>4, <3>1 DEF Assigned
      <4>2. Cardinality({p}) = 1
        BY FS_Singleton
      <4> QED BY <4>1, <4>2
    <3>2. CASE c # addr
      <4>1. Assigned(c)' = Assigned(c)
        BY <2>1, <2>4, <3>2, SessionsAssumption DEF Assigned
      <4> QED BY <4>1 DEF PortsExact
    <3> QED BY <3>1, <3>2
  <2>9. PortsExact'
    BY <2>2, <2>7, <2>8 DEF PortsExact
  <2>10. S # {}
    BY <2>1, <2>4
  <2> QED BY <1>1, <2>1, <2>3, <2>4, <2>9, <2>10
<1> QED BY <1>2, <1>3, <1>4
-----------------------------------------------------------------------------
(* The queues. *)

\* What waits in a queue after a packet was added or taken.
LEMMA QueueSteps ==
    ASSUME NEW T, NEW q \in Seq(T)
    PROVE  /\ \A m \in T : Append(q, m) \in Seq(T) /\ Len(Append(q, m)) = Len(q) + 1
                            /\ Waiting(Append(q, m)) = Waiting(q) \cup {m}
           /\ q # <<>> => /\ Tail(q) \in Seq(T) /\ Len(Tail(q)) = Len(q) - 1
                          /\ Head(q) \in T /\ Head(q) \in Waiting(q)
                          /\ Waiting(Tail(q)) \subseteq Waiting(q)
           /\ Waiting(q) \subseteq T /\ Len(q) \in Nat
<1>1. Len(q) \in Nat /\ Waiting(q) \subseteq T
  BY DEF Waiting
<1>2. ASSUME NEW m \in T
      PROVE  /\ Append(q, m) \in Seq(T) /\ Len(Append(q, m)) = Len(q) + 1
             /\ Waiting(Append(q, m)) = Waiting(q) \cup {m}
  <2>1. Append(q, m) \in Seq(T) /\ Len(Append(q, m)) = Len(q) + 1
    OBVIOUS
  <2>2. \A i \in 1 .. Len(q) + 1 : Append(q, m)[i] = IF i = Len(q) + 1 THEN m ELSE q[i]
    OBVIOUS
  <2>3. ASSUME NEW x \in Waiting(q) PROVE x \in Waiting(Append(q, m))
    <3>1. PICK i \in 1 .. Len(q) : x = q[i]
      BY DEF Waiting
    <3>2. i \in 1 .. Len(q) + 1 /\ Append(q, m)[i] = x
      BY <1>1, <2>2, <3>1
    <3> QED BY <2>1, <3>2 DEF Waiting
  <2>4. m \in Waiting(Append(q, m))
    <3>1. Len(q) + 1 \in 1 .. Len(q) + 1 /\ Append(q, m)[Len(q) + 1] = m
      BY <1>1, <2>2
    <3> QED BY <2>1, <3>1 DEF Waiting
  <2>5. ASSUME NEW x \in Waiting(Append(q, m)) PROVE x \in Waiting(q) \cup {m}
    <3>1. PICK i \in 1 .. Len(q) + 1 : x = Append(q, m)[i]
      BY <2>1 DEF Waiting
    <3>2. i # Len(q) + 1 => i \in 1 .. Len(q)
      BY <1>1
    <3> QED BY <2>2, <3>1, <3>2 DEF Waiting
  <2> QED BY <2>1, <2>3, <2>4, <2>5
<1>3. ASSUME q # <<>>
      PROVE  /\ Tail(q) \in Seq(T) /\ Len(Tail(q)) = Len(q) - 1
             /\ Head(q) \in T /\ Head(q) \in Waiting(q) /\ Waiting(Tail(q)) \subseteq Waiting(q)
  <2>1. /\ Tail(q) \in Seq(T) /\ Len(Tail(q)) = Len(q) - 1 /\ Len(q) >= 1
        /\ Head(q) = q[1] /\ \A i \in 1 .. Len(q) - 1 : Tail(q)[i] = q[i + 1]
    BY <1>3
  <2>2. Head(q) \in Waiting(q)
    BY <1>1, <2>1 DEF Waiting
  <2>3. ASSUME NEW x \in Waiting(Tail(q)) PROVE x \in Waiting(q)
    <3>1. PICK i \in 1 .. Len(q) - 1 : x = Tail(q)[i]
      BY <2>1 DEF Waiting
    <3>2. i + 1 \in 1 .. Len(q) /\ x = q[i + 1]
      BY <1>1, <2>1, <3>1
    <3> QED BY <3>2 DEF Waiting
  <2> QED BY <1>1, <2>1, <2>2, <2>3
<1> QED BY <1>1, <1>2, <1>3

\* A packet sent to the master is queued or lost.
LEMMA ToMaster ==
    ASSUME SesTypeOK, NEW m \in Requests, SendToMaster(m)
    PROVE  /\ mq' \in Seq(Requests) /\ Len(mq') <= SesCap
           /\ Waiting(mq') \subseteq Waiting(mq) \cup {m}
<1>1. mq \in Seq(Requests) /\ Len(mq) <= SesCap
  BY DEF SesTypeOK
<1>2. CASE mq' = mq
  BY <1>1, <1>2
<1>3. CASE Len(mq) < SesCap /\ mq' = Append(mq, m)
  <2>1. Len(mq) + 1 <= SesCap
    BY <1>1, <1>3, QueueSteps, SessionsAssumption
  <2> QED BY <1>1, <1>3, <2>1, QueueSteps
<1> QED BY <1>2, <1>3 DEF SendToMaster

\* A packet sent to an address is queued there or lost.
LEMMA ToClient ==
    ASSUME SesTypeOK, NEW c, NEW m \in Replies, SesReply(c, m)
    PROVE  /\ cq' \in [Client -> Seq(Replies)] /\ \A d \in Client : Len(cq'[d]) <= SesCap
           /\ \A d \in Client : \/ Waiting(cq'[d]) \subseteq Waiting(cq[d])
                                \/ d = c /\ Waiting(cq'[d]) \subseteq Waiting(cq[d]) \cup {m}
<1>1. cq \in [Client -> Seq(Replies)] /\ \A d \in Client : Len(cq[d]) <= SesCap
  BY DEF SesTypeOK
<1>2. CASE cq' = cq
  BY <1>1, <1>2
<1>3. CASE c \in Client /\ Len(cq[c]) < SesCap /\ cq' = [cq EXCEPT ![c] = Append(@, m)]
  <2>1. Len(cq[c]) + 1 <= SesCap /\ cq[c] \in Seq(Replies)
    BY <1>1, <1>3, QueueSteps, SessionsAssumption
  <2>2. /\ Append(cq[c], m) \in Seq(Replies) /\ Len(Append(cq[c], m)) <= SesCap
        /\ Waiting(Append(cq[c], m)) = Waiting(cq[c]) \cup {m}
    BY <2>1, QueueSteps
  <2>3. \A d \in Client : cq'[d] = IF d = c THEN Append(cq[c], m) ELSE cq[d]
    BY <1>1, <1>3
  <2>4. cq' \in [Client -> Seq(Replies)]
    BY <1>1, <1>3, <2>2
  <2> QED BY <1>1, <2>2, <2>3, <2>4, Zenon
<1> QED BY <1>2, <1>3, Zenon DEF SesReply

\* The master takes a request out of its queue.
LEMMA MasterTakes ==
    ASSUME SesTypeOK, mq # <<>>, mq' = Tail(mq)
    PROVE  /\ Head(mq) \in Requests /\ Head(mq) \in Waiting(mq)
           /\ mq' \in Seq(Requests) /\ Len(mq') <= SesCap /\ Waiting(mq') \subseteq Waiting(mq)
<1>1. mq \in Seq(Requests) /\ Len(mq) <= SesCap
  BY DEF SesTypeOK
<1>2. Len(mq) - 1 <= SesCap
  BY <1>1, QueueSteps, SessionsAssumption
<1> QED BY <1>1, <1>2, QueueSteps

\* A client takes a packet out of its queue.
LEMMA ClientTakes ==
    ASSUME SesTypeOK, NEW c \in Client, cq[c] # <<>>, cq' = [cq EXCEPT ![c] = Tail(@)]
    PROVE  /\ Head(cq[c]) \in Replies /\ Head(cq[c]) \in Waiting(cq[c])
           /\ cq' \in [Client -> Seq(Replies)] /\ \A d \in Client : Len(cq'[d]) <= SesCap
           /\ \A d \in Client : Waiting(cq'[d]) \subseteq Waiting(cq[d])
<1>1. cq \in [Client -> Seq(Replies)] /\ \A d \in Client : Len(cq[d]) <= SesCap
  BY DEF SesTypeOK
<1>2. cq[c] \in Seq(Replies)
  BY <1>1
<1>3. /\ Head(cq[c]) \in Replies /\ Head(cq[c]) \in Waiting(cq[c])
      /\ Tail(cq[c]) \in Seq(Replies) /\ Len(Tail(cq[c])) = Len(cq[c]) - 1 /\ Len(cq[c]) \in Nat
      /\ Waiting(Tail(cq[c])) \subseteq Waiting(cq[c])
  BY <1>2, QueueSteps
<1>4. Len(Tail(cq[c])) <= SesCap
  BY <1>1, <1>3, SessionsAssumption
<1>5. \A d \in Client : cq'[d] = IF d = c THEN Tail(cq[c]) ELSE cq[d]
  BY <1>1
<1>6. cq' \in [Client -> Seq(Replies)]
  BY <1>1, <1>3
<1> QED BY <1>1, <1>3, <1>4, <1>5, <1>6

-----------------------------------------------------------------------------
(* The way of replies. *)

\* Requests and replies that carry a port carry one of the table.
LEMMA PortsOfPackets ==
    /\ \A m \in Requests : m.from \in Client /\ (m.op # "CNCT" => m.port \in Port)
    /\ \A m \in Replies : m.asker \in Client /\ (m.op = "ACP" => m.port \in Port)
BY DEF Requests, Replies

\* The ports stay the clients' own, in a step that moves nobody to another port,
\* in which a client enters a session only with its own port, and which adds
\* only replies to their asker and requests with the asker's port.
LEMMA OwnPortsStep ==
    ASSUME SesTypeOK, OwnPorts,
           \A p \in Port : client_addrs[p] # 0 => client_addrs'[p] = client_addrs[p],
           \A c \in Client : InSession(c) => InSession(c)' /\ cl'[c].port = cl[c].port,
           \A c \in Client : InSession(c)' /\ ~InSession(c) => client_addrs'[cl'[c].port] = c,
           \A c \in Client : \A m \in Waiting(cq'[c]) : m \notin Waiting(cq[c]) =>
               /\ m.asker = c /\ m.op # "REJ" /\ (InSession(c) \/ m.op = "ACP")
               /\ m.op = "ACP" => client_addrs'[m.port] = c,
           \A m \in Waiting(mq') : m \notin Waiting(mq) /\ m.op # "CNCT" =>
               m \in Requests /\ client_addrs[m.port] = m.from /\ InSession(m.from),
           \/ listing' = Nobody
           \/ listing # Nobody /\ listing'.to = listing.to /\ listing'.asker = listing.asker
           \/ listing'.asker \in Client /\ listing'.to = listing'.asker /\ InSession(listing'.asker)
    PROVE  OwnPorts'
<1>0. /\ mq \in Seq(Requests) /\ cq \in [Client -> Seq(Replies)] /\ cl \in [Client -> ClientStates]
      /\ listing \in Listings \cup {Nobody} /\ 0 \notin Client
  BY SessionsAssumption DEF SesTypeOK
<1>1. ASSUME NEW p \in Port, NEW c \in Client, client_addrs[p] = c PROVE client_addrs'[p] = c
  BY <1>0, <1>1, Zenon
<1>2. ASSUME NEW c \in Client, InSession(c)' PROVE client_addrs'[cl'[c].port] = c
  <2>1. CASE InSession(c)
    <3>1. client_addrs[cl[c].port] = c
      BY <2>1 DEF OwnPorts
    <3>2. cl[c].port \in Port
      BY <1>0, Zenon DEF ClientStates
    <3> QED BY <1>1, <2>1, <3>1, <3>2
  <2> QED BY <1>2, <2>1
<1>3. ASSUME NEW c \in Client, NEW m \in Waiting(cq'[c])
      PROVE  /\ m.asker = c /\ m.op # "REJ" /\ (~InSession(c)' => m.op = "ACP")
             /\ m.op = "ACP" => client_addrs'[m.port] = c
  <2>1. CASE m \in Waiting(cq[c])
    <3>1. m \in Replies
      BY <1>0, <2>1, QueueSteps
    <3>2. /\ m.asker = c /\ m.op # "REJ" /\ (~InSession(c) => m.op = "ACP")
          /\ m.op = "ACP" => client_addrs[m.port] = c
      BY <2>1 DEF OwnPorts
    <3> QED BY <1>1, <3>1, <3>2, PortsOfPackets
  <2>2. CASE m \notin Waiting(cq[c])
    BY <1>3, <2>2
  <2> QED BY <2>1, <2>2
<1>4. ASSUME NEW m \in Waiting(mq'), m.op # "CNCT"
      PROVE  client_addrs'[m.port] = m.from /\ InSession(m.from)'
  <2>1. m \in Requests /\ client_addrs[m.port] = m.from /\ InSession(m.from)
    <3>1. CASE m \in Waiting(mq)
      BY <1>0, <1>4, <3>1, QueueSteps DEF OwnPorts
    <3> QED BY <1>4, <3>1
  <2> QED BY <1>1, <1>4, <2>1, PortsOfPackets
<1>5. listing' # Nobody => listing'.to = listing'.asker /\ InSession(listing.asker)'
  <2>1. listing # Nobody => listing.asker \in Client /\ listing.to = listing.asker /\ InSession(listing.asker)
    BY <1>0 DEF Listings, OwnPorts
  <2> QED BY <2>1 DEF InSession
<1> QED BY <1>2, <1>3, <1>4, <1>5, Zenon DEF OwnPorts, Nobody

-----------------------------------------------------------------------------
(* The master. *)

\* The chain of directories stays a chain that is not empty.
LEMMA ChainKept ==
    ASSUME path \in Seq(Dirs), path # <<>>, NEW d \in Args
    PROVE  /\ changedir(d) \in Seq(Dirs) /\ changedir(d) # <<>>
           /\ changedir(d)[Len(changedir(d))] \in Dirs /\ Current \in Dirs
<1>1. path[Len(path)] \in Dirs
  OBVIOUS
<1>2. CASE d = "."
  BY <1>1, <1>2 DEF changedir, Current
<1>3. CASE d = ".."
  <2>1. CASE Len(path) > 1
    <3> DEFINE t == SubSeq(path, 1, Len(path) - 1)
    <3>1. t \in Seq(Dirs) /\ Len(t) = Len(path) - 1 /\ Len(path) \in Nat
      BY <2>1
    <3>2. changedir(d) = t
      BY <1>3, <2>1 DEF changedir
    <3> HIDE DEF t
    <3>3. Len(t) \in 1 .. Len(t)
      BY <2>1, <3>1
    <3>4. t # <<>> /\ t[Len(t)] \in Dirs
      BY <3>1, <3>3
    <3> QED BY <1>1, <3>1, <3>2, <3>4 DEF Current
  <2>2. CASE ~(Len(path) > 1)
    BY <1>1, <1>3, <2>2 DEF changedir, Current
  <2> QED BY <2>1, <2>2
<1>4. CASE d \in {"home", "sub"}
  <2>1. d \in Dirs
    BY <1>4 DEF Dirs
  <2>2. /\ Append(path, d) \in Seq(Dirs) /\ Append(path, d) # <<>>
        /\ Append(path, d)[Len(Append(path, d))] = d
    BY <2>1
  <2>3. changedir(d) = Append(path, d)
    BY <1>4 DEF changedir
  <2> QED BY <1>1, <2>1, <2>2, <2>3 DEF Current
<1> QED BY <1>2, <1>3, <1>4 DEF Args

\* A directory is there or not.
LEMMA ExistsIsBoolean ==
    ASSUME path \in Seq(Dirs), NEW d \in Args
    PROVE  Exists(d) \in BOOLEAN
<1>1. CASE d = "."
  <2>1. Exists(".") = TRUE
    BY DEF Exists
  <2> QED BY <1>1, <2>1, Zenon
<1>2. CASE d = ".."
  <2>1. Exists("..") = (Len(path) > 1)
    BY DEF Exists
  <2>2. (Len(path) > 1) \in BOOLEAN
    OBVIOUS
  <2> QED BY <1>2, <2>1, <2>2, Zenon
<1>3. CASE d = "home"
  <2>1. Exists("home") = (Current = "root")
    BY DEF Exists
  <2> QED BY <1>3, <2>1, Zenon
<1>4. CASE d = "sub"
  <2>1. Exists("sub") = (Current = "home")
    BY DEF Exists
  <2> QED BY <1>4, <2>1, Zenon
<1> QED BY <1>1, <1>2, <1>3, <1>4 DEF Args

\* A request for a connection: a new port, the one it has, or a refusal.
LEMMA ConnectKeeps ==
    ASSUME SessionsInv, MasterHandles, MasterConnects(Head(mq))
    PROVE  SessionsInv'
<1> DEFINE m == Head(mq)
           rej == [op |-> "REJ", asker |-> m.from]
           acp == [op |-> "ACP", asker |-> m.from, port |-> PortFor(m.from)]
<1>0. SesTypeOK /\ PortsExact
  BY DEF SessionsInv
<1>1. /\ m \in Requests /\ mq' \in Seq(Requests) /\ Len(mq') <= SesCap
      /\ Waiting(mq') \subseteq Waiting(mq)
  BY <1>0, MasterTakes DEF MasterHandles
<1>2. m.from \in Client /\ try_assign_port(m.from) /\ listing' = listing /\ cl' = cl
  BY <1>1, PortsOfPackets DEF MasterConnects, MasterHandles
<1>3. /\ client_addrs' \in [Port -> Client \cup {0}] /\ n_conns' \in Nat /\ PortsExact'
      /\ \A p \in Port : client_addrs[p] # 0 => client_addrs'[p] = client_addrs[p]
      /\ Assigned(m.from) \cup Assigned(0) # {} =>
            PortFor(m.from) \in Port /\ client_addrs'[PortFor(m.from)] = m.from
  BY <1>0, <1>2, AssignKeeps
<1>4. up'
  BY <1>3 DEF PortsExact
<1>5. path \in Seq(Dirs) /\ path # <<>> /\ refused \subseteq Client
      /\ listing \in Listings \cup {Nobody} /\ cl \in [Client -> ClientStates]
  BY <1>0 DEF SesTypeOK
<1>6. CASE Assigned(m.from) \cup Assigned(0) = {}
  <2>1. SesReply(m.from, rej) /\ refused' = refused \cup {m.from} /\ path' = path
    BY <1>4, <1>6 DEF MasterConnects
  <2>2. rej \in Replies
    BY <1>2 DEF Replies
  <2>3. cq' \in [Client -> Seq(Replies)] /\ \A d \in Client : Len(cq'[d]) <= SesCap
    <3> HIDE DEF rej
    <3> QED BY <1>0, <2>1, <2>2, ToClient
  <2>4. SesTypeOK'
    BY <1>1, <1>2, <1>3, <1>5, <2>1, <2>3, ZenonT(60) DEF SesTypeOK, Nobody, Listings
  <2> QED BY <1>3, <2>1, <2>4 DEF SessionsInv
<1>7. CASE Assigned(m.from) \cup Assigned(0) # {}
  <2>1. SesReply(m.from, acp) /\ refused' = refused /\ path' = Append(path, "home")
    BY <1>4, <1>7 DEF MasterConnects
  <2>2. acp \in Replies /\ acp.asker = m.from /\ acp.op = "ACP" /\ client_addrs'[acp.port] = m.from
    BY <1>2, <1>3, <1>7 DEF Replies
  <2>3. /\ cq' \in [Client -> Seq(Replies)] /\ \A d \in Client : Len(cq'[d]) <= SesCap
        /\ \A d \in Client : \/ Waiting(cq'[d]) \subseteq Waiting(cq[d])
                             \/ d = m.from /\ Waiting(cq'[d]) \subseteq Waiting(cq[d]) \cup {acp}
    <3> HIDE DEF acp
    <3> QED BY <1>0, <2>1, <2>2, ToClient, Zenon
  <2>4. path' \in Seq(Dirs) /\ path' # <<>>
    BY <1>5, <2>1 DEF Dirs
  <2>5. SesTypeOK'
    BY <1>1, <1>2, <1>3, <1>5, <2>1, <2>3, <2>4, Zenon DEF SesTypeOK, Nobody, Listings
  <2>6. ASSUME refused' = {} PROVE OwnPorts'
    <3>1. OwnPorts
      BY <2>1, <2>6 DEF SessionsInv
    <3>2. \A c \in Client : \A x \in Waiting(cq'[c]) : x \notin Waiting(cq[c]) =>
              c = m.from /\ x = acp
      BY <2>3
    <3>3. \A c \in Client : InSession(c)' <=> InSession(c)
      BY <1>2 DEF InSession
    <3>4. \A c \in Client : \A x \in Waiting(cq'[c]) : x \notin Waiting(cq[c]) =>
               /\ x.asker = c /\ x.op # "REJ" /\ (InSession(c) \/ x.op = "ACP")
               /\ x.op = "ACP" => client_addrs'[x.port] = c
      <4> HIDE DEF acp
      <4> QED BY <2>2, <3>2
    <3>5. \A x \in Waiting(mq') : x \in Waiting(mq)
      BY <1>1
    <3>6. listing' = Nobody \/ (listing # Nobody /\ listing'.to = listing.to /\ listing'.asker = listing.asker)
      BY <1>2
    <3> QED BY <1>0, <1>2, <1>3, <3>1, <3>3, <3>4, <3>5, <3>6, OwnPortsStep
  <2> QED BY <1>3, <2>5, <2>6 DEF SessionsInv
<1> QED BY <1>6, <1>7

\* A cd: its reply goes to the owner of the port of the request.
LEMMA CdKeeps ==
    ASSUME SessionsInv, MasterHandles, MasterCd(Head(mq))
    PROVE  SessionsInv'
<1> DEFINE m == Head(mq)
           r == [op |-> "CD", asker |-> m.from, n |-> m.n, ok |-> Exists(m.arg)]
<1>0. SesTypeOK /\ PortsExact
  BY DEF SessionsInv
<1>1. /\ m \in Requests /\ m \in Waiting(mq) /\ mq' \in Seq(Requests) /\ Len(mq') <= SesCap
      /\ Waiting(mq') \subseteq Waiting(mq)
  BY <1>0, MasterTakes DEF MasterHandles
<1>2. m.op = "CD" /\ m.from \in Client /\ m.arg \in Args /\ m.n \in Nat
  BY <1>1 DEF Requests, MasterCd
<1>3. /\ SesReply(client_addrs[m.port], r)
      /\ path' = IF Exists(m.arg) THEN changedir(m.arg) ELSE path
      /\ UNCHANGED <<client_addrs, n_conns, listing, up, refused, cl>>
  BY DEF MasterCd, MasterHandles
<1>4. r \in Replies /\ r.asker = m.from /\ r.op = "CD"
  <2>1. Exists(m.arg) \in BOOLEAN
    BY <1>0, <1>2, ExistsIsBoolean DEF SesTypeOK
  <2> QED BY <1>2, <2>1 DEF Replies
<1>5. /\ cq' \in [Client -> Seq(Replies)] /\ \A d \in Client : Len(cq'[d]) <= SesCap
      /\ \A d \in Client : \/ Waiting(cq'[d]) \subseteq Waiting(cq[d])
                           \/ d = client_addrs[m.port] /\ Waiting(cq'[d]) \subseteq Waiting(cq[d]) \cup {r}
  <2> HIDE DEF r
  <2> QED BY <1>0, <1>3, <1>4, ToClient, ZenonT(60)
<1>6. path' \in Seq(Dirs) /\ path' # <<>>
  <2>1. path \in Seq(Dirs) /\ path # <<>>
    BY <1>0 DEF SesTypeOK
  <2> QED BY <1>2, <1>3, <2>1, ChainKept
<1>7. SesTypeOK'
  BY <1>0, <1>1, <1>3, <1>5, <1>6, Zenon DEF SesTypeOK, Nobody, Listings
<1>8. PortsExact'
  BY <1>0, <1>3 DEF PortsExact, Assigned
<1>9. ASSUME refused' = {} PROVE OwnPorts'
  <2>1. OwnPorts
    BY <1>3, <1>9 DEF SessionsInv
  <2>2. client_addrs[m.port] = m.from /\ InSession(m.from)
    BY <1>1, <1>2, <2>1 DEF OwnPorts
  <2>3. \A c \in Client : InSession(c)' <=> InSession(c)
    BY <1>3 DEF InSession
  <2>4. \A c \in Client : \A x \in Waiting(cq'[c]) : x \notin Waiting(cq[c]) =>
             /\ x.asker = c /\ x.op # "REJ" /\ (InSession(c) \/ x.op = "ACP")
             /\ x.op = "ACP" => client_addrs'[x.port] = c
    <3> HIDE DEF r
    <3> QED BY <1>4, <1>5, <2>2
  <2>5. \A x \in Waiting(mq') : x \in Waiting(mq)
    BY <1>1
  <2>6. listing' = Nobody \/ (listing # Nobody /\ listing'.to = listing.to /\ listing'.asker = listing.asker)
    BY <1>3
  <2> QED BY <1>0, <1>3, <2>1, <2>3, <2>4, <2>5, <2>6, OwnPortsStep
<1> QED BY <1>7, <1>8, <1>9 DEF SessionsInv

\* An ls: the listing is for the owner of the port of the request.
LEMMA LsKeeps ==
    ASSUME SessionsInv, MasterHandles, MasterLs(Head(mq))
    PROVE  SessionsInv'
<1> DEFINE m == Head(mq)
           last == IF Exists(m.arg) THEN changedir(m.arg)[Len(changedir(m.arg))] ELSE Current
<1>0. SesTypeOK /\ PortsExact
  BY DEF SessionsInv
<1>1. /\ m \in Requests /\ m \in Waiting(mq) /\ mq' \in Seq(Requests) /\ Len(mq') <= SesCap
      /\ Waiting(mq') \subseteq Waiting(mq)
  BY <1>0, MasterTakes DEF MasterHandles
<1>2. m.op = "LS" /\ m.from \in Client /\ m.arg \in Args /\ m.n \in Nat /\ m.port \in Port
  BY <1>1 DEF Requests, MasterLs
<1>3. /\ listing' = [to |-> client_addrs[m.port], n |-> m.n, idx |-> 0, res |-> Exists(m.arg),
                     asker |-> m.from, dir |-> last]
      /\ UNCHANGED <<client_addrs, n_conns, path, cq, up, refused, cl>>
  BY DEF MasterLs, MasterHandles
<1>4. last \in Dirs /\ Exists(m.arg) \in BOOLEAN
  <2>1. path \in Seq(Dirs) /\ path # <<>>
    BY <1>0 DEF SesTypeOK
  <2>2. last \in Dirs
    BY <1>2, <2>1, ChainKept
  <2>3. Exists(m.arg) \in BOOLEAN
    BY <1>2, <2>1, ExistsIsBoolean
  <2> QED BY <2>2, <2>3
<1>5. client_addrs[m.port] \in Client \cup {0}
  BY <1>0, <1>2 DEF SesTypeOK
<1>6. listing' \in Listings /\ listing'.to = client_addrs[m.port] /\ listing'.asker = m.from
  <2> HIDE DEF m, last
  <2> QED BY <1>2, <1>3, <1>4, <1>5 DEF Listings
<1>7. SesTypeOK'
  <2> HIDE DEF m, last
  <2> QED BY <1>0, <1>1, <1>3, <1>6, ZenonT(60) DEF SesTypeOK, Nobody, Listings
<1>8. PortsExact'
  BY <1>0, <1>3 DEF PortsExact, Assigned
<1>9. ASSUME refused' = {} PROVE OwnPorts'
  <2>1. OwnPorts
    BY <1>3, <1>9 DEF SessionsInv
  <2>2. client_addrs[m.port] = m.from /\ InSession(m.from)
    BY <1>1, <1>2, <2>1 DEF OwnPorts
  <2>3. \A c \in Client : InSession(c)' <=> InSession(c)
    BY <1>3 DEF InSession
  <2>4. \A x \in Waiting(mq') : x \in Waiting(mq)
    BY <1>1
  <2>5. listing'.asker \in Client /\ listing'.to = listing'.asker /\ InSession(listing'.asker)
    BY <1>2, <1>6, <2>2
  <2> QED BY <1>0, <1>3, <2>1, <2>3, <2>4, <2>5, OwnPortsStep
<1> QED BY <1>7, <1>8, <1>9 DEF SessionsInv

\* A piece of the listing goes to the one it is for.
LEMMA PieceKeeps ==
    ASSUME SessionsInv, SendPiece
    PROVE  SessionsInv'
<1> DEFINE len == ListLen(listing.dir)
           none == len = 0 \/ ~listing.res
           end == none \/ IsEnd(listing.idx, len)
           nbytes == IF end THEN len - listing.idx ELSE 27
           ok == IF none THEN listing.res ELSE nbytes <= 4
           r == [op |-> IF end THEN "END_LS" ELSE "LS", asker |-> listing.asker, n |-> listing.n,
                 at |-> listing.idx, ok |-> ok]
<1>0. SesTypeOK /\ PortsExact
  BY DEF SessionsInv
<1>1. /\ listing # Nobody /\ SesReply(listing.to, r)
      /\ UNCHANGED <<client_addrs, n_conns, path, mq, cl, up, refused>>
      /\ listing' = Nobody \/ listing' = [listing EXCEPT !.idx = @ + 27]
  BY DEF SendPiece
<1>2. listing \in Listings
  BY <1>0, <1>1 DEF SesTypeOK
<1>3. r \in Replies /\ r.asker = listing.asker /\ r.op \in {"LS", "END_LS"}
  <2>1. ok \in BOOLEAN
    <3>1. listing.res \in BOOLEAN
      BY <1>2 DEF Listings
    <3>2. nbytes \in Int
      BY <1>2 DEF Listings, Dirs, ListLen
    <3> HIDE DEF none, nbytes
    <3>3. (nbytes <= 4) \in BOOLEAN
      BY <3>2
    <3> QED BY <3>1, <3>3, Zenon
  <2> HIDE DEF ok, end
  <2> QED BY <1>2, <2>1 DEF Replies, Listings
<1>4. /\ cq' \in [Client -> Seq(Replies)] /\ \A d \in Client : Len(cq'[d]) <= SesCap
      /\ \A d \in Client : \/ Waiting(cq'[d]) \subseteq Waiting(cq[d])
                           \/ d = listing.to /\ Waiting(cq'[d]) \subseteq Waiting(cq[d]) \cup {r}
  <2> HIDE DEF r
  <2> QED BY <1>0, <1>1, <1>3, ToClient, Zenon
<1>5. /\ listing' = Nobody \/ (listing'.to = listing.to /\ listing'.asker = listing.asker)
      /\ listing' \in Listings \cup {Nobody}
  BY <1>1, <1>2 DEF Listings
<1>6. SesTypeOK'
  <2> HIDE DEF r
  <2> QED BY <1>0, <1>1, <1>4, <1>5, Zenon DEF SesTypeOK, Nobody, Listings
<1>7. PortsExact'
  BY <1>0, <1>1 DEF PortsExact, Assigned
<1>8. ASSUME refused' = {} PROVE OwnPorts'
  <2>1. OwnPorts
    BY <1>1, <1>8 DEF SessionsInv
  <2>2. listing.to = listing.asker /\ InSession(listing.asker)
    BY <1>1, <2>1 DEF OwnPorts
  <2>3. \A c \in Client : InSession(c)' <=> InSession(c)
    BY <1>1 DEF InSession
  <2>4. \A c \in Client : \A x \in Waiting(cq'[c]) : x \notin Waiting(cq[c]) =>
             /\ x.asker = c /\ x.op # "REJ" /\ (InSession(c) \/ x.op = "ACP")
             /\ x.op = "ACP" => client_addrs'[x.port] = c
    <3> HIDE DEF r
    <3> QED BY <1>3, <1>4, <2>2
  <2> HIDE DEF r
  <2> QED BY <1>0, <1>1, <1>5, <2>1, <2>3, <2>4, OwnPortsStep
<1> QED BY <1>6, <1>7, <1>8 DEF SessionsInv

-----------------------------------------------------------------------------
(* A client. *)

\* A client step leaves the table alone: it keeps the invariant if it keeps the
\* types, sends the client's own port, and takes only its own port.
LEMMA ClientFrame ==
    ASSUME SessionsInv, UNCHANGED others_ses,
           cl' \in [Client -> ClientStates], mq' \in Seq(Requests), Len(mq') <= SesCap,
           cq' \in [Client -> Seq(Replies)], \A d \in Client : Len(cq'[d]) <= SesCap,
           \A d \in Client : Waiting(cq'[d]) \subseteq Waiting(cq[d]),
           OwnPorts =>
             /\ \A d \in Client : InSession(d) => InSession(d)' /\ cl'[d].port = cl[d].port
             /\ \A d \in Client : InSession(d)' /\ ~InSession(d) => client_addrs[cl'[d].port] = d
             /\ \A m \in Waiting(mq') : m \notin Waiting(mq) /\ m.op # "CNCT" =>
                    m \in Requests /\ client_addrs[m.port] = m.from /\ InSession(m.from)
    PROVE  SessionsInv'
<1>0. SesTypeOK /\ PortsExact
  BY DEF SessionsInv
<1>1. UNCHANGED <<client_addrs, n_conns, path, listing, up, refused>>
  BY DEF others_ses
<1>2. SesTypeOK'
  BY <1>0, <1>1, ZenonT(60) DEF SesTypeOK, Nobody, Listings
<1>3. PortsExact'
  BY <1>0, <1>1 DEF PortsExact, Assigned
<1>4. ASSUME refused' = {} PROVE OwnPorts'
  <2>1. OwnPorts
    BY <1>1, <1>4 DEF SessionsInv
  <2>2. listing' = Nobody \/ (listing # Nobody /\ listing'.to = listing.to /\ listing'.asker = listing.asker)
    BY <1>1
  <2>3. \A d \in Client : InSession(d)' /\ ~InSession(d) => client_addrs'[cl'[d].port] = d
    BY <1>1, <2>1
  <2>4. \A p \in Port : client_addrs[p] # 0 => client_addrs'[p] = client_addrs[p]
    BY <1>1
  <2> QED BY <1>0, <2>1, <2>2, <2>3, <2>4, OwnPortsStep
<1> QED BY <1>2, <1>3, <1>4 DEF SessionsInv

\* Only the state of one client changes.
LEMMA ClientMoves ==
    ASSUME SesTypeOK, NEW c \in Client, NEW st \in ClientStates, cl' = [cl EXCEPT ![c] = st]
    PROVE  /\ cl' \in [Client -> ClientStates]
           /\ \A d \in Client : cl'[d] = IF d = c THEN st ELSE cl[d]
<1>1. cl \in [Client -> ClientStates]
  BY DEF SesTypeOK
<1> QED BY <1>1

\* A client starts and asks for a port.
LEMMA StartKeeps ==
    ASSUME SessionsInv, NEW c \in Client, SesStart(c)
    PROVE  SessionsInv'
<1> DEFINE st == [cl[c] EXCEPT !.pc = "cnct"]
           m == [op |-> "CNCT", from |-> c]
<1>0. SesTypeOK
  BY DEF SessionsInv
<1>1. cl[c] \in ClientStates /\ cl[c].pc = "off"
  BY <1>0 DEF SesTypeOK, SesStart
<1>2. st \in ClientStates /\ st.pc = "cnct" /\ cl' = [cl EXCEPT ![c] = st]
  BY <1>1, ZenonT(60) DEF ClientStates, SesStart
<1>3. m \in Requests /\ m.op = "CNCT"
  BY DEF Requests
<1>4. SendToMaster(m) /\ cq' = cq /\ UNCHANGED others_ses
  BY DEF SesStart
<1> HIDE DEF st, m
<1>5. cl' \in [Client -> ClientStates] /\ \A d \in Client : cl'[d] = IF d = c THEN st ELSE cl[d]
  BY <1>0, <1>2, ClientMoves, ZenonT(60)
<1>6. mq' \in Seq(Requests) /\ Len(mq') <= SesCap /\ Waiting(mq') \subseteq Waiting(mq) \cup {m}
  BY <1>0, <1>3, <1>4, ToMaster
<1>7. /\ cq' \in [Client -> Seq(Replies)] /\ \A d \in Client : Len(cq'[d]) <= SesCap
      /\ \A d \in Client : Waiting(cq'[d]) \subseteq Waiting(cq[d])
  BY <1>0, <1>4 DEF SesTypeOK
<1>8. \A d \in Client : (InSession(d)' <=> InSession(d)) /\ (InSession(d) => cl'[d] = cl[d])
  BY <1>1, <1>2, <1>5 DEF InSession
<1>9. \A x \in Waiting(mq') : x \notin Waiting(mq) => x.op = "CNCT"
  BY <1>3, <1>6
<1> QED BY <1>4, <1>5, <1>6, <1>7, <1>8, <1>9, ClientFrame

\* A client that has waited asks again.
LEMMA AgainKeeps ==
    ASSUME SessionsInv, NEW c \in Client, TryAgain(c)
    PROVE  SessionsInv'
<1> DEFINE m == [op |-> "CNCT", from |-> c]
<1>0. SesTypeOK
  BY DEF SessionsInv
<1>1. m \in Requests /\ m.op = "CNCT"
  BY DEF Requests
<1>2. SendToMaster(m) /\ cq' = cq /\ cl' = cl /\ UNCHANGED others_ses
  BY DEF TryAgain
<1> HIDE DEF m
<1>3. mq' \in Seq(Requests) /\ Len(mq') <= SesCap /\ Waiting(mq') \subseteq Waiting(mq) \cup {m}
  BY <1>0, <1>1, <1>2, ToMaster
<1>4. /\ cq' \in [Client -> Seq(Replies)] /\ \A d \in Client : Len(cq'[d]) <= SesCap
      /\ \A d \in Client : Waiting(cq'[d]) \subseteq Waiting(cq[d])
      /\ cl' \in [Client -> ClientStates]
  BY <1>0, <1>2 DEF SesTypeOK
<1>5. \A d \in Client : (InSession(d)' <=> InSession(d)) /\ cl'[d] = cl[d]
  BY <1>2 DEF InSession
<1>6. \A x \in Waiting(mq') : x \notin Waiting(mq) => x.op = "CNCT"
  BY <1>1, <1>3
<1> QED BY <1>2, <1>3, <1>4, <1>5, <1>6, ClientFrame

\* A client takes the answer to its request for a port.
LEMMA AnswerKeeps ==
    ASSUME SessionsInv, NEW c \in Client, TryConnect(c)
    PROVE  SessionsInv'
<1> DEFINE h == Head(cq[c])
           acc == [cl[c] EXCEPT !.pc = "prompt", !.port = h.port, !.dir = "home"]
           go == [cl[c] EXCEPT !.pc = "prompt"]
           m == [op |-> "CNCT", from |-> c]
<1>0. SesTypeOK
  BY DEF SessionsInv
<1>1. cl[c] \in ClientStates /\ cl[c].pc = "cnct" /\ UNCHANGED others_ses
  BY <1>0 DEF SesTypeOK, TryConnect
<1>2. /\ h \in Replies /\ h \in Waiting(cq[c])
      /\ cq' \in [Client -> Seq(Replies)] /\ \A d \in Client : Len(cq'[d]) <= SesCap
      /\ \A d \in Client : Waiting(cq'[d]) \subseteq Waiting(cq[d])
  BY <1>0, ClientTakes, ZenonT(60) DEF TryConnect
<1>3. OwnPorts => h.op = "ACP" /\ client_addrs[h.port] = c
  BY <1>1, <1>2 DEF OwnPorts, InSession
<1>4. CASE h.op = "ACP"
  <2>1. cl' = [cl EXCEPT ![c] = acc] /\ mq' = mq
    BY <1>4, Zenon DEF TryConnect
  <2>2. acc \in ClientStates /\ acc.pc = "prompt" /\ acc.port = h.port
    BY <1>1, <1>2, <1>4, PortsOfPackets, Zenon DEF ClientStates, Dirs
  <2> HIDE DEF acc, h
  <2>3. cl' \in [Client -> ClientStates] /\ \A d \in Client : cl'[d] = IF d = c THEN acc ELSE cl[d]
    BY <1>0, <2>1, <2>2, ClientMoves, Zenon
  <2>4. mq' \in Seq(Requests) /\ Len(mq') <= SesCap
    BY <1>0, <2>1 DEF SesTypeOK
  <2>5. \A d \in Client : /\ InSession(d) => InSession(d)' /\ cl'[d].port = cl[d].port
                          /\ InSession(d)' /\ ~InSession(d) => d = c /\ cl'[d].port = h.port
    BY <1>1, <2>2, <2>3, Zenon DEF InSession
  <2>6. OwnPorts => \A d \in Client : InSession(d)' /\ ~InSession(d) => client_addrs[cl'[d].port] = d
    BY <1>3, <2>5
  <2>7. \A x \in Waiting(mq') : x \in Waiting(mq)
    BY <2>1
  <2>8. OwnPorts =>
             /\ \A d \in Client : InSession(d) => InSession(d)' /\ cl'[d].port = cl[d].port
             /\ \A d \in Client : InSession(d)' /\ ~InSession(d) => client_addrs[cl'[d].port] = d
             /\ \A x \in Waiting(mq') : x \notin Waiting(mq) /\ x.op # "CNCT" =>
                    x \in Requests /\ client_addrs[x.port] = x.from /\ InSession(x.from)
    <3>1. \A d \in Client : InSession(d) => InSession(d)' /\ cl'[d].port = cl[d].port
      BY <2>5
    <3>2. \A x \in Waiting(mq') : x \notin Waiting(mq) /\ x.op # "CNCT" =>
               x \in Requests /\ client_addrs[x.port] = x.from /\ InSession(x.from)
      BY <2>7
    <3> QED BY <2>6, <3>1, <3>2
  <2> QED BY <1>1, <1>2, <2>3, <2>4, <2>8, ClientFrame, Zenon
<1>5. CASE h.op # "ACP"
  <2>1. cl' = [cl EXCEPT ![c] = go] /\ SendToMaster(m)
    BY <1>5 DEF TryConnect
  <2>2. go \in ClientStates /\ m \in Requests
    BY <1>1, Zenon DEF ClientStates, Requests
  <2> HIDE DEF go, m, h
  <2>3. cl' \in [Client -> ClientStates]
    BY <1>0, <2>1, <2>2, ClientMoves, Zenon
  <2>4. mq' \in Seq(Requests) /\ Len(mq') <= SesCap
    BY <1>0, <2>1, <2>2, ToMaster
  <2>5. ~OwnPorts
    BY <1>3, <1>5
  <2> QED BY <1>1, <1>2, <2>3, <2>4, <2>5, ClientFrame
<1> QED BY <1>4, <1>5

\* A command is sent with the port of the client.
LEMMA CommandKeeps ==
    ASSUME SessionsInv, NEW c \in Client, NEW op \in {"CD", "LS"}, NEW arg \in Args, TypeCommand(c, op, arg)
    PROVE  SessionsInv'
<1> DEFINE st == [cl[c] EXCEPT !.pc = op, !.arg = arg, !.n = cl[c].n + 1, !.out = <<>>]
           m == [op |-> op, from |-> c, port |-> cl[c].port, arg |-> arg, n |-> cl[c].n + 1]
<1>0. SesTypeOK
  BY DEF SessionsInv
<1>1. cl[c] \in ClientStates /\ cl[c].pc = "prompt" /\ cq' = cq /\ UNCHANGED others_ses
  BY <1>0 DEF SesTypeOK, TypeCommand
<1>2. cl' = [cl EXCEPT ![c] = st] /\ SendToMaster(m)
  BY DEF TypeCommand
<1>3. /\ st \in ClientStates /\ st.pc = op /\ st.port = cl[c].port
      /\ m \in Requests /\ m.from = c /\ m.port = cl[c].port
  <2> DEFINE n == cl[c].n + 1
             out == <<>>
  <2>1. n \in Nat /\ cl[c].port \in Port
    <3>1. cl[c].n \in Nat /\ cl[c].port \in Port
      BY <1>1, Zenon DEF ClientStates
    <3> QED BY <3>1
  <2>2. out \in Seq(Replies)
    OBVIOUS
  <2> HIDE DEF n, out
  <2>3. [cl[c] EXCEPT !.pc = op, !.arg = arg, !.n = n, !.out = out] \in ClientStates
    BY <1>1, <2>1, <2>2, Zenon DEF ClientStates
  <2>4. [op |-> op, from |-> c, port |-> cl[c].port, arg |-> arg, n |-> n] \in Requests
    BY <2>1 DEF Requests
  <2>5. st.pc = op /\ st.port = cl[c].port /\ m.from = c /\ m.port = cl[c].port
    BY <1>1, ZenonT(60) DEF ClientStates
  <2> QED BY <2>3, <2>4, <2>5 DEF n, out
<1> HIDE DEF st, m
<1>4. cl' \in [Client -> ClientStates] /\ \A d \in Client : cl'[d] = IF d = c THEN st ELSE cl[d]
  BY <1>0, <1>2, <1>3, ClientMoves, ZenonT(60)
<1>5. mq' \in Seq(Requests) /\ Len(mq') <= SesCap /\ Waiting(mq') \subseteq Waiting(mq) \cup {m}
  BY <1>0, <1>2, <1>3, ToMaster
<1>6. /\ cq' \in [Client -> Seq(Replies)] /\ \A d \in Client : Len(cq'[d]) <= SesCap
      /\ \A d \in Client : Waiting(cq'[d]) \subseteq Waiting(cq[d])
  BY <1>0, <1>1 DEF SesTypeOK
<1>7. InSession(c) /\ \A d \in Client : (InSession(d)' <=> InSession(d)) /\ cl'[d].port = cl[d].port
  BY <1>1, <1>3, <1>4 DEF InSession
<1>8. OwnPorts => client_addrs[m.port] = m.from
  BY <1>3, <1>7 DEF OwnPorts
<1>9. \A x \in Waiting(mq') : x \notin Waiting(mq) => x = m
  BY <1>5
<1> QED BY <1>1, <1>3, <1>4, <1>5, <1>6, <1>7, <1>8, <1>9, ClientFrame, ZenonT(60)

\* A client in a session that reads a packet or gives up stays in the session
\* with its port.
LEMMA InSessionKeeps ==
    ASSUME SessionsInv, NEW c \in Client, InSession(c), UNCHANGED <<others_ses, mq>>,
           cq' = cq \/ (cq[c] # <<>> /\ cq' = [cq EXCEPT ![c] = Tail(@)]),
           NEW st \in ClientStates, cl' = [cl EXCEPT ![c] = st],
           st.pc \notin {"off", "cnct"}, st.port = cl[c].port
    PROVE  SessionsInv'
<1>0. SesTypeOK
  BY DEF SessionsInv
<1>1. cl' \in [Client -> ClientStates] /\ \A d \in Client : cl'[d] = IF d = c THEN st ELSE cl[d]
  BY <1>0, ClientMoves, Zenon
<1>2. mq' \in Seq(Requests) /\ Len(mq') <= SesCap /\ mq' = mq
  BY <1>0 DEF SesTypeOK
<1>3. /\ cq' \in [Client -> Seq(Replies)] /\ \A d \in Client : Len(cq'[d]) <= SesCap
      /\ \A d \in Client : Waiting(cq'[d]) \subseteq Waiting(cq[d])
  <2>1. CASE cq' = cq
    BY <1>0, <2>1 DEF SesTypeOK
  <2>2. CASE cq[c] # <<>> /\ cq' = [cq EXCEPT ![c] = Tail(@)]
    BY <1>0, <2>2, ClientTakes, Zenon
  <2> QED BY <2>1, <2>2, Zenon
<1>4. \A d \in Client : (InSession(d)' <=> InSession(d)) /\ cl'[d].port = cl[d].port
  BY <1>1 DEF InSession
<1> QED BY <1>1, <1>2, <1>3, <1>4, ClientFrame

\* A command ends, with its result or a failure.
LEMMA ReturnKeeps ==
    ASSUME SessionsInv, NEW c \in Client, cl[c].pc \in {"CD", "LS"}, NEW r \in 0 .. 2, Returns(c, r),
           UNCHANGED <<others_ses, mq>>,
           cq' = cq \/ (cq[c] # <<>> /\ cq' = [cq EXCEPT ![c] = Tail(@)])
    PROVE  SessionsInv'
<1> DEFINE dir == IF cl[c].dir # "" /\ cl[c].pc = "CD" /\ r = 1 THEN Gone(cl[c].dir, cl[c].arg) ELSE cl[c].dir
           st == [cl[c] EXCEPT !.pc = "prompt", !.res = r, !.dir = dir]
<1>1. cl[c] \in ClientStates
  BY DEF SessionsInv, SesTypeOK
<1>2. dir \in Dirs \cup {""}
  <2>1. cl[c].dir \in Dirs \cup {""} /\ cl[c].arg \in Args \cup {""}
    BY <1>1, Zenon DEF ClientStates
  <2>2. \A f \in Dirs, d \in Args \cup {""} : Gone(f, d) \in Dirs \cup {""}
    BY Zenon DEF Gone, Dirs, Args
  <2> QED BY <2>1, <2>2, Zenon
<1>3. cl' = [cl EXCEPT ![c] = st]
  BY DEF Returns
<1> HIDE DEF dir
<1>4. st \in ClientStates /\ st.pc = "prompt" /\ st.port = cl[c].port
  BY <1>1, <1>2, Zenon DEF ClientStates
<1> HIDE DEF st
<1>5. InSession(c)
  BY DEF InSession
<1> QED BY <1>3, <1>4, <1>5, InSessionKeeps, Zenon

\* The reply to a cd, or another packet in its place.
LEMMA CdReplyKeeps ==
    ASSUME SessionsInv, NEW c \in Client, dfs_client_change_directory(c)
    PROVE  SessionsInv'
<1> DEFINE r == IF Head(cq[c]).op # "CD" THEN 0 ELSE IF Head(cq[c]).ok THEN 1 ELSE 2
<1>1. /\ cl[c].pc = "CD" /\ cq[c] # <<>> /\ cq' = [cq EXCEPT ![c] = Tail(@)]
      /\ Returns(c, r) /\ UNCHANGED <<others_ses, mq>>
  BY DEF dfs_client_change_directory
<1>2. r \in 0 .. 2
  OBVIOUS
<1> HIDE DEF r
<1> QED BY <1>1, <1>2, ReturnKeeps, Zenon

\* Nothing came.
LEMMA TimeoutKeeps ==
    ASSUME SessionsInv, NEW c \in Client, ClientTimeout(c)
    PROVE  SessionsInv'
<1>1. cl[c].pc \in {"CD", "LS"} /\ Returns(c, 0) /\ UNCHANGED <<others_ses, mq>> /\ cq' = cq
  BY DEF ClientTimeout
<1>2. 0 \in 0 .. 2
  OBVIOUS
<1> QED BY <1>1, <1>2, ReturnKeeps

\* A piece of the listing is printed, or another packet skipped.
LEMMA ListdirKeeps ==
    ASSUME SessionsInv, NEW c \in Client, dfs_client_listdir(c)
    PROVE  SessionsInv'
<1> DEFINE m == Head(cq[c])
           out == Append(cl[c].out, m)
           r == IF m.ok THEN 1 ELSE 2
           more == [cl[c] EXCEPT !.out = out]
           done == [cl[c] EXCEPT !.pc = "prompt", !.out = out, !.res = r]
<1>0. SesTypeOK
  BY DEF SessionsInv
<1>1. /\ cl[c].pc = "LS" /\ cq[c] # <<>> /\ cq' = [cq EXCEPT ![c] = Tail(@)]
      /\ UNCHANGED <<others_ses, mq>>
  BY DEF dfs_client_listdir
<1>2. cl \in [Client -> ClientStates] /\ cl[c] \in ClientStates
  BY <1>0 DEF SesTypeOK
<1>3. out \in Seq(Replies) /\ r \in 0 .. 2
  <2>1. m \in Replies
    BY <1>0, <1>1, ClientTakes, Zenon
  <2>2. cl[c].out \in Seq(Replies)
    BY <1>2, Zenon DEF ClientStates
  <2> HIDE DEF m
  <2> QED BY <2>1, <2>2
<1>4. \/ cl' = [cl EXCEPT ![c] = more]
      \/ cl' = [cl EXCEPT ![c] = done]
      \/ cl' = cl
  BY DEF dfs_client_listdir
<1> HIDE DEF out, r
<1>5. /\ more \in ClientStates /\ more.pc = "LS" /\ more.port = cl[c].port
      /\ done \in ClientStates /\ done.pc = "prompt" /\ done.port = cl[c].port
  BY <1>1, <1>2, <1>3, Zenon DEF ClientStates
<1>6. cl = [cl EXCEPT ![c] = cl[c]]
  BY <1>2
<1>7. InSession(c)
  BY <1>1 DEF InSession
<1> HIDE DEF more, done
<1>8. CASE cl' = [cl EXCEPT ![c] = more]
  BY <1>1, <1>5, <1>7, <1>8, InSessionKeeps, Zenon
<1>9. CASE cl' = [cl EXCEPT ![c] = done]
  BY <1>1, <1>5, <1>7, <1>9, InSessionKeeps, Zenon
<1>10. CASE cl' = cl
  <2>1. cl' = [cl EXCEPT ![c] = cl[c]] /\ cl[c].pc \notin {"off", "cnct"}
    BY <1>1, <1>6, <1>10
  <2> QED BY <1>1, <1>2, <1>7, <2>1, InSessionKeeps, Zenon
<1> QED BY <1>4, <1>8, <1>9, <1>10

-----------------------------------------------------------------------------
(* The invariant. *)

\* An empty table, no packets, no client.
LEMMA SessionsInvInit == SesInit => SessionsInv
<1> SUFFICES ASSUME SesInit PROVE SessionsInv
  OBVIOUS
<1>0. 0 \in Port /\ 0 \in Nat /\ SesCap \in Nat /\ 0 \notin Client
  BY SessionsAssumption DEF Port
<1>1. \A T : <<>> \in Seq(T) /\ Len(<<>>) = 0 /\ Waiting(<<>>) = {}
  BY DEF Waiting
<1>2. cl \in [Client -> ClientStates] /\ \A c \in Client : ~InSession(c)
  <2>1. [pc |-> "off", port |-> 0, arg |-> "", n |-> 0, out |-> <<>>, res |-> 1, dir |-> ""] \in ClientStates
    BY <1>0, <1>1 DEF ClientStates
  <2> QED BY <2>1, Zenon DEF SesInit, InSession
<1>3. path \in Seq(Dirs) /\ path # <<>>
  <2>1. "root" \in Dirs
    BY DEF Dirs
  <2>2. <<"root">> \in Seq(Dirs) /\ <<"root">> # <<>>
    BY <2>1
  <2> QED BY <2>2, Zenon DEF SesInit
<1>4. SesTypeOK
  <2>1. client_addrs \in [Port -> Client \cup {0}] /\ n_conns \in Nat /\ refused \subseteq Client
    BY <1>0, ZenonT(60) DEF SesInit
  <2>2. mq \in Seq(Requests) /\ Len(mq) <= SesCap
    <3>1. <<>> \in Seq(Requests) /\ Len(<<>>) <= SesCap
      BY <1>0
    <3> QED BY <3>1, Zenon DEF SesInit
  <2>3. cq \in [Client -> Seq(Replies)] /\ \A c \in Client : Len(cq[c]) <= SesCap
    <3>1. <<>> \in Seq(Replies) /\ Len(<<>>) <= SesCap
      BY <1>0
    <3> QED BY <3>1, Zenon DEF SesInit
  <2>4. listing \in Listings \cup {Nobody}
    BY Zenon DEF SesInit
  <2> QED BY <1>2, <1>3, <2>1, <2>2, <2>3, <2>4 DEF SesTypeOK
<1>5. PortsExact
  <2>1. Assigned(0) = Port /\ \A c \in Client : Assigned(c) = {}
    BY <1>0, Zenon DEF SesInit, Assigned
  <2>2. Port \ Port = {} /\ Cardinality({}) = 0
    BY FS_EmptySet
  <2>3. up /\ n_conns = 0
    BY Zenon DEF SesInit
  <2>4. Cardinality(Port \ Assigned(0)) = 0 /\ \A c \in Client : Cardinality(Assigned(c)) = 0
    BY <2>1, <2>2
  <2> QED BY <2>3, <2>4 DEF PortsExact
<1>6. OwnPorts
  BY <1>1, <1>2, Zenon DEF SesInit, OwnPorts
<1> QED BY <1>4, <1>5, <1>6 DEF SessionsInv

\* Every step keeps it.
LEMMA SessionsInvStep == SessionsInv /\ [SesNext]_ses_vars => SessionsInv'
<1> SUFFICES ASSUME SessionsInv, [SesNext]_ses_vars PROVE SessionsInv'
  OBVIOUS
<1>1. CASE MasterHandles
  <2>1. MasterConnects(Head(mq)) \/ MasterCd(Head(mq)) \/ MasterLs(Head(mq))
    BY <1>1 DEF MasterHandles
  <2> QED BY <1>1, <2>1, ConnectKeeps, CdKeeps, LsKeeps
<1>2. CASE SendPiece
  BY <1>2, PieceKeeps
<1>3. ASSUME NEW c \in Client, SesStart(c) PROVE SessionsInv'
  BY <1>3, StartKeeps
<1>4. ASSUME NEW c \in Client, ClientStep(c) PROVE SessionsInv'
  BY <1>4, AnswerKeeps, AgainKeeps, CdReplyKeeps, ListdirKeeps, TimeoutKeeps DEF ClientStep
<1>5. ASSUME NEW c \in Client, NEW k \in Commands, TypeCommand(c, k.op, k.arg) PROVE SessionsInv'
  <2>1. k.op \in {"CD", "LS"} /\ k.arg \in Args
    BY SessionsAssumption DEF Args
  <2> QED BY <1>5, <2>1, CommandKeeps
<1>6. CASE UNCHANGED ses_vars
  <2>1. SesTypeOK' <=> SesTypeOK
    BY <1>6 DEF ses_vars, SesTypeOK
  <2>2. PortsExact' <=> PortsExact
    BY <1>6 DEF ses_vars, PortsExact, Assigned
  <2>3. OwnPorts' <=> OwnPorts
    BY <1>6 DEF ses_vars, OwnPorts, InSession
  <2> QED BY <1>6, <2>1, <2>2, <2>3 DEF ses_vars, SessionsInv
<1> QED BY <1>1, <1>2, <1>3, <1>4, <1>5, <1>6 DEF SesNext

\* SessionsInv always holds.
THEOREM SessionsInvHolds == SesSpec => []SessionsInv
BY SessionsInvInit, SessionsInvStep, PTL DEF SesSpec

\* try_assign_port in dfs-master.c: for any number of clients and ports and
\* any repeated, lost or late request, an address has at most one port,
\* n_conns counts the ports taken, and the assertion on a full table holds.
THEOREM PortsExactHolds == SesSpec => []PortsExact
<1>1. SessionsInv => PortsExact
  BY DEF SessionsInv
<1> QED BY <1>1, SessionsInvHolds, PTL

\* The replies of dfs-master.c: as long as no client was refused, everything
\* in a client's receive queue answers what this client asked, for any number
\* of clients and whatever is lost.
THEOREM RepliesToAskerHolds == SesSpec => []RepliesToAsker
<1>1. SessionsInv => RepliesToAsker
  BY DEF SessionsInv, OwnPorts, RepliesToAsker
<1> QED BY <1>1, SessionsInvHolds, PTL

\* The receive queues never hold more than they have room for.
THEOREM SessionTypes == SesSpec => []SesTypeOK
<1>1. SessionsInv => SesTypeOK
  BY DEF SessionsInv
<1> QED BY <1>1, SessionsInvHolds, PTL
=============================================================================
