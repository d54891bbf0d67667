-------------------------- MODULE NrfDriverProofs ---------------------------
(***************************************************************************)
(* The receive interrupt misses no packet, packets keep their order, and   *)
(* the driver's assertions hold on an undisturbed bus, for every number of *)
(* threads, every size of the FIFO and the queue, and one or two radios.   *)
(* A send that waits reports what was transmitted, for any number of sends *)
(* and arrivals.                                                           *)
(***************************************************************************)
EXTENDS NrfDriver, NrfSend, SequenceTheorems, TLAPS

USE SMTT(20), ZenonT(20)

-----------------------------------------------------------------------------
(* The driver (NrfDriver). *)

\* What TornBy computes is again a mark for every thread.
LEMMA TornBoolean ==
    ASSUME torn \in [Thread -> BOOLEAN], NEW users
    PROVE  TornBy(users) \in [Thread -> BOOLEAN]
  BY DEF TornBy

\* A packet that is read or queued is one of those that have arrived.
LEMMA HeadInRange ==
    ASSUME NEW q \in Seq(1 .. MaxPkts), q # <<>>
    PROVE  /\ Head(q) \in 1 .. MaxPkts
           /\ Tail(q) \in Seq(1 .. MaxPkts)
           /\ Len(Tail(q)) = Len(q) - 1
           /\ Len(q) \in Nat \ {0}
  BY EmptySeq, HeadTailProperties, Zenon

\* The types are inductive by themselves: buffers never exceed their sizes,
\* whatever the handler, the threads and the radio do.
THEOREM NrfTypes == Spec => []TypeOK
<1> USE DepthAssumption, RadioAssumption
<1>1. Init => TypeOK
  BY DEF Init, TypeOK
<1>2. TypeOK /\ [Next]_vars => TypeOK'
  <2> SUFFICES ASSUME TypeOK, [Next]_vars PROVE TypeOK'
    OBVIOUS
  <2>1. ASSUME NEW r \in Radio, Arrive(r) PROVE TypeOK'
    <3>1. arrived' \in 1 .. MaxPkts
      BY <2>1 DEF TypeOK, Arrive
    <3>2. CASE Len(fifo[r]) < RxDepth
      <4>1. /\ Append(fifo[r], arrived') \in Seq(1 .. MaxPkts)
            /\ Len(Append(fifo[r], arrived')) <= RxDepth
        BY <3>1, <3>2 DEF TypeOK
      <4>2. fifo' = [fifo EXCEPT ![r] = Append(fifo[r], arrived')]
        BY <2>1, <3>2 DEF Arrive
      <4>3. /\ fifo' \in [Radio -> Seq(1 .. MaxPkts)]
            /\ \A q \in Radio : Len(fifo'[q]) <= RxDepth
        BY <4>1, <4>2 DEF TypeOK
      <4>4. rx_dr' \in [Radio -> BOOLEAN] /\ eds' \in [Radio -> BOOLEAN]
        BY <2>1, <3>2, Zenon DEF TypeOK, Arrive
      <4> QED
        <5>1. /\ UNCHANGED <<tx_ds, config, recvq, cpu, hpc, hn>>
              /\ UNCHANGED <<pc, nic, torn, gpio_on, down, last>>
          BY <2>1 DEF Arrive, handler, threads
        <5>2. arrived' \in 0 .. MaxPkts
          BY <3>1
        <5> QED
          BY <4>3, <4>4, <5>1, <5>2, Zenon DEF TypeOK
    <3>3. CASE ~(Len(fifo[r]) < RxDepth)
      BY <2>1, <3>1, <3>3 DEF TypeOK, Arrive, handler, threads
    <3> QED
      BY <3>2, <3>3
  <2>2. CASE Interrupt
    BY <2>2 DEF TypeOK, Interrupt, device, threads
  <2>3. CASE TestPin
    <3>1. torn' \in [Thread -> BOOLEAN]
      BY <2>3, TornBoolean DEF TypeOK, TestPin
    <3>2. eds' \in [Radio -> BOOLEAN]
      <4>1. eds \in [Radio -> BOOLEAN]
        BY DEF TypeOK
      <4>2. eds' = eds \/ eds' = [eds EXCEPT ![hn] = FALSE]
        BY <2>3 DEF TestPin
      <4> QED
        BY <4>1, <4>2, Zenon
    <3> QED
      BY <2>3, <3>1, <3>2 DEF TypeOK, TestPin, Leave
  <2>4. CASE ReadPayload
    <3> DEFINE q == fifo[hn]
    <3>1. hn \in Radio /\ q \in Seq(1 .. MaxPkts) /\ q # <<>>
      BY <2>4 DEF TypeOK, ReadPayload
    <3>2. /\ fifo' \in [Radio -> Seq(1 .. MaxPkts)]
          /\ \A r \in Radio : Len(fifo'[r]) <= RxDepth
      BY <2>4, <3>1, HeadInRange DEF TypeOK, ReadPayload
    <3>3. /\ recvq' \in [Radio -> Seq(1 .. MaxPkts)]
          /\ \A r \in Radio : Len(recvq'[r]) <= QueueCap
      <4>1. CASE Len(recvq[hn]) < QueueCap
        <5>1. recvq' = [recvq EXCEPT ![hn] = Append(recvq[hn], Head(q))]
          BY <2>4, <4>1 DEF ReadPayload
        <5>2. /\ Append(recvq[hn], Head(q)) \in Seq(1 .. MaxPkts)
              /\ Len(Append(recvq[hn], Head(q))) <= QueueCap
          BY <3>1, <4>1, HeadInRange DEF TypeOK
        <5> QED
          BY <5>1, <5>2, Zenon DEF TypeOK
      <4>2. CASE ~(Len(recvq[hn]) < QueueCap)
        <5>1. recvq' = [recvq EXCEPT ![hn] = recvq[hn]]
          BY <2>4, <4>2 DEF ReadPayload
        <5> QED
          BY <5>1, Zenon DEF TypeOK
      <4> QED
        BY <4>1, <4>2
    <3> QED
      BY <2>4, <3>1, <3>2, <3>3, Zenon DEF TypeOK, ReadPayload, threads
  <2>5. CASE ClearIntr
    BY <2>5 DEF TypeOK, ClearIntr, threads
  <2>6. CASE Drained
    BY <2>6, Zenon DEF TypeOK, Drained, Leave, device, handler, threads
  <2>7. ASSUME NEW t \in Thread, SendStart(t) PROVE TypeOK'
    BY <2>7, TornBoolean, ZenonT(60) DEF TypeOK, SendStart, device, handler
  <2>8. ASSUME NEW t \in Thread, NEW from, NEW to \in {"call", "idle"},
               Asserted(t, from, to)
        PROVE  TypeOK'
    BY <2>8, TornBoolean DEF TypeOK, Asserted, device, handler
  <2>9. ASSUME NEW t \in Thread, SysSend(t) PROVE TypeOK'
    BY <2>9, TornBoolean DEF TypeOK, SysSend, handler
  <2>10. ASSUME NEW t \in Thread, Sent(t) PROVE TypeOK'
    BY <2>10 DEF TypeOK, Sent, handler
  <2>11. ASSUME NEW t \in Thread, SysReturn(t) PROVE TypeOK'
    BY <2>11 DEF TypeOK, SysReturn, handler
  <2>12. ASSUME NEW t \in Thread, ReadStart(t) PROVE TypeOK'
    BY <2>12, ZenonT(60) DEF TypeOK, ReadStart, device, handler
  <2>13. ASSUME NEW t \in Thread, ReadPacket(t) PROVE TypeOK'
    <3>1. nic[t] \in Radio /\ recvq[nic[t]] \in Seq(1 .. MaxPkts) /\ recvq[nic[t]] # <<>>
      BY <2>13, Zenon DEF TypeOK, ReadPacket
    <3>2. /\ recvq' \in [Radio -> Seq(1 .. MaxPkts)]
          /\ \A r \in Radio : Len(recvq'[r]) <= QueueCap
      BY <2>13, <3>1, HeadInRange DEF TypeOK, ReadPacket
    <3>3. last' \in [Radio -> 0 .. MaxPkts]
      BY <2>13, <3>1, HeadInRange DEF TypeOK, ReadPacket
    <3> QED
      BY <2>13, <3>2, <3>3, Zenon DEF TypeOK, ReadPacket, device, handler
  <2>14. ASSUME NEW t \in Thread, ReadTimeout(t) PROVE TypeOK'
    BY <2>14 DEF TypeOK, ReadTimeout, device, handler
  <2>15. CASE UNCHANGED vars
    BY <2>15 DEF TypeOK, vars, device, handler, threads
  <2> QED
    BY <2>1, <2>2, <2>3, <2>4, <2>5, <2>6, <2>7, <2>8, <2>9, <2>10, <2>11, <2>12,
       <2>13, <2>14, <2>15 DEF Next, Handler, Send, Read
<1> QED
  BY <1>1, <1>2, PTL DEF Spec

\* ModeInv is an invariant: the system call and the handler exclude each other
\* and themselves, and the call puts the radio back before it returns.
THEOREM NrfModes == Spec => []ModeInv
<1>1. Init => ModeInv
  <2> SUFFICES ASSUME Init PROVE ModeInv
    OBVIOUS
  <2>1. InCall = {}
    BY DEF Init, InCall
  <2>2. \A r \in Radio : config[r] = "rx" /\ ~tx_ds[r]
    BY Zenon DEF Init
  <2> QED
    BY <2>1, <2>2 DEF Init, ModeInv, AssertsHold
<1>2. TypeOK /\ ModeInv /\ [Next]_vars => ModeInv'
  <2> SUFFICES ASSUME TypeOK, ModeInv, [Next]_vars PROVE ModeInv'
    OBVIOUS
  <2>0. cpu # "sys" => /\ InCall = {}
                       /\ \A r \in Radio : config[r] = "rx" /\ ~tx_ds[r]
    BY DEF ModeInv
  <2>1. ASSUME UNCHANGED <<tx_ds, config, down, pc, nic>>,
               cpu = "sys" <=> cpu' = "sys", cpu' = "irq" <=> hpc' # "idle"
        PROVE  ModeInv'
    BY <2>1 DEF ModeInv, AssertsHold, InCall
  <2>2. ASSUME NEW r \in Radio, Arrive(r) PROVE ModeInv'
    BY <2>1, <2>2 DEF Arrive, ModeInv, handler, threads
  <2>3. CASE Interrupt
    BY <2>1, <2>3 DEF Interrupt, device, threads
  <2>4. CASE TestPin
    BY <2>1, <2>4 DEF TypeOK, TestPin, Leave, ModeInv
  <2>5. CASE ReadPayload
    BY <2>1, <2>5 DEF ReadPayload, ModeInv, threads
  <2>6. CASE ClearIntr
    BY <2>1, <2>6 DEF ClearIntr, ModeInv, threads
  <2>7. CASE Drained
    <3>1. hn \in Radio /\ cpu = "irq" /\ ~tx_ds[hn]
      BY <2>0, <2>7 DEF TypeOK, Drained, ModeInv
    <3> QED
      BY <2>1, <2>7, <3>1 DEF Drained, Leave, ModeInv, device, threads
  <2>8. ASSUME NEW t \in Thread, NEW p \in {"idle", "before", "call", "reading"},
               cpu = "thread", UNCHANGED <<tx_ds, config, cpu, hpc>>,
               pc' = [pc EXCEPT ![t] = p], down' \notin {"config", "tx_intr"}
        PROVE  ModeInv'
    <3>1. InCall' = {}
      BY <2>0, <2>8 DEF TypeOK, InCall
    <3> QED
      BY <2>0, <2>8, <3>1 DEF ModeInv, AssertsHold
  <2>9. ASSUME NEW t \in Thread, SendStart(t) PROVE ModeInv'
    BY <2>8, <2>9, Zenon DEF SendStart, ThreadRuns, device, handler
  <2>10. ASSUME NEW t \in Thread, NEW from \in {"before", "after"},
                NEW to \in {"call", "idle"}, Asserted(t, from, to)
         PROVE  ModeInv'
    <3>1. cpu = "thread" /\ pc[t] = from /\ config[nic[t]] = "rx"
      BY <2>0, <2>10 DEF TypeOK, Asserted, ThreadRuns
    <3>2. down' \in {"no", "spi"} /\ UNCHANGED <<tx_ds, config, cpu, hpc>>
      BY <2>10, <3>1 DEF Asserted, device, handler
    <3>3. InCall' = {}
      BY <2>0, <2>10, <3>1 DEF TypeOK, InCall, Asserted
    <3> QED
      BY <2>0, <3>1, <3>2, <3>3 DEF ModeInv, AssertsHold
  <2>11. ASSUME NEW t \in Thread, SysSend(t) PROVE ModeInv'
    <3>1. InCall = {} /\ hpc = "idle"
      BY <2>0, <2>11 DEF SysSend, ThreadRuns, ModeInv
    <3>2. InCall' = {t}
      BY <2>11, <3>1 DEF TypeOK, InCall, SysSend
    <3>3. \A r \in Radio : r # nic[t] => config'[r] = "rx"
      BY <2>0, <2>11 DEF TypeOK, SysSend, ThreadRuns
    <3>4. \A r \in Radio : ~tx_ds'[r]
      BY <2>0, <2>11 DEF SysSend, ThreadRuns
    <3> QED
      BY <2>11, <3>1, <3>2, <3>3, <3>4, Zenon DEF ModeInv, AssertsHold, SysSend, handler
  <2>12. ASSUME NEW t \in Thread, pc[t] \in {"sending", "sent"}
         PROVE  /\ InCall = {t} /\ cpu = "sys" /\ hpc = "idle"
                /\ \A r \in Radio : r # nic[t] => config[r] = "rx" /\ ~tx_ds[r]
    BY <2>12 DEF ModeInv, InCall
  <2>13. ASSUME NEW t \in Thread, Sent(t) PROVE ModeInv'
    <3>1. InCall' = {t}
      BY <2>12, <2>13 DEF TypeOK, InCall, Sent
    <3>2. \A r \in Radio : r # nic[t] => config'[r] = "rx" /\ ~tx_ds'[r]
      BY <2>12, <2>13 DEF TypeOK, Sent
    <3> QED
      BY <2>12, <2>13, <3>1, <3>2 DEF ModeInv, AssertsHold, Sent, handler
  <2>14. ASSUME NEW t \in Thread, SysReturn(t) PROVE ModeInv'
    <3>1. InCall' = {}
      BY <2>12, <2>14 DEF TypeOK, InCall, SysReturn
    <3>2. \A r \in Radio : config'[r] = "rx" /\ ~tx_ds'[r]
      BY <2>12, <2>14 DEF TypeOK, SysReturn
    <3> QED
      BY <2>12, <2>14, <3>1, <3>2 DEF ModeInv, AssertsHold, SysReturn, handler
  <2>15. ASSUME NEW t \in Thread, Read(t) PROVE ModeInv'
    BY <2>8, <2>15 DEF Read, ReadStart, ReadPacket, ReadTimeout, ThreadRuns, device, handler
  <2>16. CASE UNCHANGED vars
    BY <2>1, <2>16 DEF ModeInv, vars, device, handler, threads
  <2> QED
    BY <2>2, <2>3, <2>4, <2>5, <2>6, <2>7, <2>9, <2>10, <2>11, <2>13, <2>14, <2>15,
       <2>16 DEF Next, Handler, Send
<1> QED
  BY <1>1, <1>2, NrfTypes, PTL DEF Spec

\* The assertions about NRF_CONFIG and TX_DS hold on an undisturbed bus.
THEOREM NrfAssertsHold == Spec => []AssertsHold
<1>1. ModeInv => AssertsHold
  BY DEF ModeInv
<1> QED
  BY <1>1, NrfModes, PTL

\* A step of a thread that sends or reads leaves the receive side of the
\* radios, and the handler, as they are.
LEMMA ThreadsKeepReceiveSide ==
    ASSUME NEW t \in Thread, Send(t) \/ Read(t)
    PROVE  UNCHANGED <<fifo, rx_dr, eds, hpc, hn>>
  BY DEF Send, SendStart, Asserted, SysSend, Sent, SysReturn, Read, ReadStart,
         ReadPacket, ReadTimeout, device, handler

\* AnnounceInv is an invariant: the handler clears RX_DR before it looks at the
\* FIFO again, and nrf_test_pin clears an event only when it goes on to the loop.
THEOREM NrfAnnounce == Spec => []AnnounceInv
<1>1. Init => AnnounceInv
  <2> SUFFICES ASSUME Init, NEW r \in Radio PROVE ~rx_dr[r] /\ fifo[r] = <<>>
    BY Zenon DEF AnnounceInv
  <2> QED
    BY DEF Init
<1>2. TypeOK /\ ModeInv /\ AnnounceInv /\ [Next]_vars => AnnounceInv'
  <2> SUFFICES ASSUME TypeOK, ModeInv, AnnounceInv, [Next]_vars PROVE AnnounceInv'
    OBVIOUS
  <2>1. ASSUME NEW r \in Radio, Arrive(r) PROVE AnnounceInv'
    <3>1. CASE Len(fifo[r]) < RxDepth
      <4>1. fifo'[r] = Append(fifo[r], arrived') /\ fifo'[r] # <<>>
        BY <2>1, <3>1 DEF TypeOK, Arrive
      <4>2. rx_dr'[r] /\ (eds'[r] <=> eds[r] \/ ~rx_dr[r])
        BY <2>1, <3>1, Zenon DEF TypeOK, Arrive
      <4>3. \A q \in Radio \ {r} :
               fifo'[q] = fifo[q] /\ rx_dr'[q] = rx_dr[q] /\ eds'[q] = eds[q]
        BY <2>1, <3>1 DEF TypeOK, Arrive
      <4>4. UNCHANGED <<hpc, hn>>
        BY <2>1 DEF Arrive, handler
      <4> QED
        BY <4>1, <4>2, <4>3, <4>4 DEF AnnounceInv, AtWork
    <3>2. CASE ~(Len(fifo[r]) < RxDepth)
      BY <2>1, <3>2 DEF AnnounceInv, AtWork, Arrive, handler
    <3> QED
      BY <3>1, <3>2
  <2>2. CASE Interrupt
    <3>1. hpc = "idle"
      BY <2>2 DEF ModeInv, Interrupt
    <3> QED
      BY <2>2, <3>1 DEF AnnounceInv, AtWork, Interrupt, device
  <2>3. CASE TestPin
    BY <2>3 DEF TypeOK, AnnounceInv, AtWork, TestPin, Leave
  <2>4. CASE ReadPayload
    BY <2>4 DEF TypeOK, AnnounceInv, AtWork, ReadPayload
  <2>5. CASE ClearIntr
    BY <2>5 DEF TypeOK, AnnounceInv, AtWork, ClearIntr
  <2>6. CASE Drained
    BY <2>6 DEF TypeOK, AnnounceInv, AtWork, Drained, Leave, device, handler
  <2>7. ASSUME NEW t \in Thread, Send(t) \/ Read(t) PROVE AnnounceInv'
    BY <2>7, ThreadsKeepReceiveSide, Zenon DEF AnnounceInv, AtWork
  <2>8. CASE UNCHANGED vars
    BY <2>8, Zenon DEF AnnounceInv, AtWork, vars, device, handler
  <2> QED
    BY <2>1, <2>2, <2>3, <2>4, <2>5, <2>6, <2>7, <2>8 DEF Next, Handler
<1> QED
  BY <1>1, <1>2, NrfTypes, NrfModes, PTL DEF Spec

\* No packet is left in a radio without a pending event or a handler at work.
THEOREM NrfNoStuckPacket == Spec => []NoStuckPacket
<1>1. AnnounceInv => NoStuckPacket
  BY DEF AnnounceInv, NoStuckPacket
<1> QED
  BY <1>1, NrfAnnounce, PTL

-----------------------------------------------------------------------------
(* The order of the packets. *)

Increasing(q) == \A i, j \in 1 .. Len(q) : i < j => q[i] < q[j]
Between(l, q, m) == \A i \in 1 .. Len(q) : l < q[i] /\ q[i] <= m

\* The packet l read last, then the queue q, then the FIFO f, out of m arrivals.
InOrder(l, q, f, m) ==
    /\ l \in Nat /\ m \in Nat /\ l <= m /\ q \in Seq(Nat) /\ f \in Seq(Nat)
    /\ Increasing(q) /\ Increasing(f) /\ Between(l, q, m) /\ Between(l, f, m)
    /\ \A i \in 1 .. Len(q), j \in 1 .. Len(f) : q[i] < f[j]

OrderInv == \A r \in Radio : InOrder(last[r], recvq[r], fifo[r], arrived)

\* A number larger than all of a sequence, put at its end.
LEMMA IncreasingAppend ==
    ASSUME NEW q \in Seq(Nat), Increasing(q), NEW x \in Nat, \A i \in 1 .. Len(q) : q[i] < x
    PROVE  /\ Increasing(Append(q, x)) /\ Append(q, x) \in Seq(Nat)
           /\ Len(Append(q, x)) = Len(q) + 1 /\ Append(q, x)[Len(q) + 1] = x
           /\ \A i \in 1 .. Len(q) : Append(q, x)[i] = q[i]
<1> DEFINE a == Append(q, x)
<1>1. /\ a \in Seq(Nat) /\ Len(a) = Len(q) + 1 /\ a[Len(q) + 1] = x
      /\ \A i \in 1 .. Len(q) : a[i] = q[i]
  BY AppendProperties
<1>2. Len(q) \in Nat
  OBVIOUS
<1> HIDE DEF a
<1>3. Increasing(a)
  <2> SUFFICES ASSUME NEW i \in 1 .. Len(a), NEW j \in 1 .. Len(a), i < j PROVE a[i] < a[j]
    BY DEF Increasing
  <2>1. i \in 1 .. Len(q) /\ a[i] = q[i]
    BY <1>1, <1>2
  <2>2. CASE j = Len(q) + 1
    BY <1>1, <2>1, <2>2
  <2>3. CASE j # Len(q) + 1
    <3>1. j \in 1 .. Len(q)
      BY <1>1, <1>2, <2>3
    <3>2. a[j] = q[j] /\ q[i] < q[j]
      BY <1>1, <2>1, <3>1 DEF Increasing
    <3> QED BY <2>1, <3>2
  <2> QED BY <2>2, <2>3
<1> QED BY <1>1, <1>3 DEF a

\* The first of an increasing sequence is below the rest.
LEMMA IncreasingTail ==
    ASSUME NEW q \in Seq(Nat), Increasing(q), q # << >>
    PROVE  /\ Tail(q) \in Seq(Nat) /\ Increasing(Tail(q)) /\ Head(q) \in Nat /\ Head(q) = q[1]
           /\ 1 \in 1 .. Len(q) /\ Len(Tail(q)) = Len(q) - 1
           /\ \A i \in 1 .. Len(Tail(q)) :
                 i + 1 \in 1 .. Len(q) /\ Tail(q)[i] = q[i + 1] /\ Head(q) < Tail(q)[i]
<1> DEFINE w == Tail(q)
<1>1. /\ w \in Seq(Nat) /\ Len(w) = Len(q) - 1 /\ Len(q) \in Nat \ {0} /\ Head(q) = q[1]
      /\ \A i \in 1 .. Len(w) : w[i] = q[i + 1]
  BY EmptySeq, HeadTailProperties
<1>2. 1 \in 1 .. Len(q) /\ q[1] \in Nat
  BY <1>1
<1> HIDE DEF w
<1>3. \A i \in 1 .. Len(w) : i + 1 \in 1 .. Len(q) /\ 1 < i + 1
  BY <1>1
<1>4. \A i \in 1 .. Len(w) : Head(q) < w[i]
  BY <1>1, <1>2, <1>3, Zenon DEF Increasing
<1>5. Increasing(w)
  <2> SUFFICES ASSUME NEW i \in 1 .. Len(w), NEW j \in 1 .. Len(w), i < j PROVE w[i] < w[j]
    BY DEF Increasing
  <2>1. i + 1 \in 1 .. Len(q) /\ j + 1 \in 1 .. Len(q) /\ i + 1 < j + 1
    BY <1>3
  <2>2. q[i + 1] < q[j + 1]
    BY <2>1 DEF Increasing
  <2> QED BY <1>1, <2>2
<1> QED BY <1>1, <1>2, <1>3, <1>4, <1>5 DEF w

\* A packet arrives, and goes to the FIFO or is lost.
LEMMA InOrderArrive ==
    ASSUME NEW l, NEW q, NEW f, NEW m, InOrder(l, q, f, m)
    PROVE  InOrder(l, q, Append(f, m + 1), m + 1) /\ InOrder(l, q, f, m + 1)
<1>1. /\ l \in Nat /\ m \in Nat /\ l <= m /\ q \in Seq(Nat) /\ f \in Seq(Nat)
      /\ Increasing(q) /\ Increasing(f) /\ Between(l, q, m) /\ Between(l, f, m)
      /\ \A i \in 1 .. Len(q), j \in 1 .. Len(f) : q[i] < f[j]
  BY DEF InOrder
<1>2. (\A i \in 1 .. Len(q) : q[i] \in Nat) /\ (\A i \in 1 .. Len(f) : f[i] \in Nat)
  BY <1>1
<1>3. Between(l, q, m + 1) /\ Between(l, f, m + 1)
  BY <1>1, <1>2 DEF Between
<1>4. InOrder(l, q, f, m + 1)
  BY <1>1, <1>3 DEF InOrder
<1> DEFINE a == Append(f, m + 1)
<1>5. \A i \in 1 .. Len(f) : f[i] < m + 1
  BY <1>1, <1>2 DEF Between
<1>6. /\ a \in Seq(Nat) /\ Increasing(a) /\ Len(a) = Len(f) + 1 /\ a[Len(f) + 1] = m + 1
      /\ \A i \in 1 .. Len(f) : a[i] = f[i]
  <2>1. m + 1 \in Nat
    BY <1>1
  <2> QED BY <1>1, <1>5, <2>1, IncreasingAppend, Zenon
<1> HIDE DEF a
<1>7. Len(f) \in Nat /\ \A j \in 1 .. Len(a) : j \in 1 .. Len(f) \/ j = Len(f) + 1
  <2>1. Len(f) \in Nat
    BY <1>1
  <2> QED BY <1>6, <2>1
<1>8. Between(l, a, m + 1)
  <2> SUFFICES ASSUME NEW i \in 1 .. Len(a) PROVE l < a[i] /\ a[i] <= m + 1
    BY DEF Between
  <2>1. CASE i = Len(f) + 1
    BY <1>1, <1>6, <2>1
  <2>2. CASE i \in 1 .. Len(f)
    BY <1>3, <1>6, <2>2 DEF Between
  <2> QED BY <1>7, <2>1, <2>2
<1>9. ASSUME NEW i \in 1 .. Len(q), NEW j \in 1 .. Len(a) PROVE q[i] < a[j]
  <2>1. q[i] < m + 1
    BY <1>1, <1>2 DEF Between
  <2> QED BY <1>1, <1>6, <1>7, <2>1, Zenon
<1> QED BY <1>1, <1>3, <1>4, <1>6, <1>8, <1>9 DEF InOrder, a

\* The handler takes a packet from the FIFO to the queue, or drops it.
LEMMA InOrderMove ==
    ASSUME NEW l, NEW q, NEW f, NEW m, InOrder(l, q, f, m), f # << >>
    PROVE  InOrder(l, Append(q, Head(f)), Tail(f), m) /\ InOrder(l, q, Tail(f), m)
<1>1. /\ l \in Nat /\ m \in Nat /\ l <= m /\ q \in Seq(Nat) /\ f \in Seq(Nat)
      /\ Increasing(q) /\ Increasing(f) /\ Between(l, q, m) /\ Between(l, f, m)
      /\ \A i \in 1 .. Len(q), j \in 1 .. Len(f) : q[i] < f[j]
  BY DEF InOrder
<1> DEFINE w == Tail(f)
           x == Head(f)
           a == Append(q, x)
<1>2. /\ w \in Seq(Nat) /\ Increasing(w) /\ x \in Nat /\ x = f[1] /\ 1 \in 1 .. Len(f)
      /\ \A i \in 1 .. Len(w) : i + 1 \in 1 .. Len(f) /\ w[i] = f[i + 1] /\ x < w[i]
  BY <1>1, IncreasingTail
<1>3. \A i \in 1 .. Len(q) : q[i] < x
  BY <1>1, <1>2
<1> HIDE DEF w, x
<1>4. /\ a \in Seq(Nat) /\ Increasing(a) /\ Len(a) = Len(q) + 1 /\ a[Len(q) + 1] = x
      /\ \A i \in 1 .. Len(q) : a[i] = q[i]
  BY <1>1, <1>2, <1>3, IncreasingAppend, Zenon
<1> HIDE DEF a
<1>5. Len(q) \in Nat /\ \A j \in 1 .. Len(a) : j \in 1 .. Len(q) \/ j = Len(q) + 1
  BY <1>1, <1>4
<1>6. Between(l, w, m)
  BY <1>1, <1>2, Zenon DEF Between
<1>7. l < x /\ x <= m
  BY <1>1, <1>2 DEF Between
<1>8. Between(l, a, m)
  BY <1>1, <1>4, <1>5, <1>7, Zenon DEF Between
<1>9. \A i \in 1 .. Len(q), j \in 1 .. Len(w) : q[i] < w[j]
  BY <1>1, <1>2
<1>10. \A i \in 1 .. Len(a), j \in 1 .. Len(w) : a[i] < w[j]
  BY <1>2, <1>4, <1>5, <1>9, Zenon
<1> QED BY <1>1, <1>2, <1>4, <1>6, <1>8, <1>9, <1>10 DEF InOrder, w, x, a

\* A reader takes a packet from the queue.
LEMMA InOrderRead ==
    ASSUME NEW l, NEW q, NEW f, NEW m, InOrder(l, q, f, m), q # << >>
    PROVE  InOrder(Head(q), Tail(q), f, m)
<1>1. /\ l \in Nat /\ m \in Nat /\ l <= m /\ q \in Seq(Nat) /\ f \in Seq(Nat)
      /\ Increasing(q) /\ Increasing(f) /\ Between(l, q, m) /\ Between(l, f, m)
      /\ \A i \in 1 .. Len(q), j \in 1 .. Len(f) : q[i] < f[j]
  BY DEF InOrder
<1> DEFINE w == Tail(q)
           x == Head(q)
<1>2. /\ w \in Seq(Nat) /\ Increasing(w) /\ x \in Nat /\ x = q[1] /\ 1 \in 1 .. Len(q)
      /\ \A i \in 1 .. Len(w) : i + 1 \in 1 .. Len(q) /\ w[i] = q[i + 1] /\ x < w[i]
  BY <1>1, IncreasingTail
<1> HIDE DEF w, x
<1>3. x <= m /\ Between(x, w, m)
  BY <1>1, <1>2, Zenon DEF Between
<1>4. Between(x, f, m)
  BY <1>1, <1>2 DEF Between
<1>5. \A i \in 1 .. Len(w), j \in 1 .. Len(f) : w[i] < f[j]
  BY <1>1, <1>2
<1> QED BY <1>1, <1>2, <1>3, <1>4, <1>5 DEF InOrder, w, x

\* Two increasing sequences, one above the other, are increasing together.
LEMMA IncreasingJoin ==
    ASSUME NEW p \in Seq(Nat), NEW q \in Seq(Nat), Increasing(p), Increasing(q),
           \A i \in 1 .. Len(p), j \in 1 .. Len(q) : p[i] < q[j]
    PROVE  Increasing(p \o q) /\ p \o q \in Seq(Nat)
<1> DEFINE a == p \o q
<1>1. /\ a \in Seq(Nat) /\ Len(a) = Len(p) + Len(q)
      /\ \A i \in 1 .. Len(a) : a[i] = IF i <= Len(p) THEN p[i] ELSE q[i - Len(p)]
  BY ConcatProperties
<1>2. Len(p) \in Nat /\ Len(q) \in Nat
  OBVIOUS
<1> HIDE DEF a
<1>3. ASSUME NEW i \in 1 .. Len(a), NEW j \in 1 .. Len(a), i < j PROVE a[i] < a[j]
  <2>1. CASE j <= Len(p)
    <3>1. i \in 1 .. Len(p) /\ j \in 1 .. Len(p)
      BY <1>2, <1>3, <2>1
    <3>2. a[i] = p[i] /\ a[j] = p[j]
      BY <1>1, <1>2, <1>3, <2>1
    <3> QED BY <1>3, <3>1, <3>2 DEF Increasing
  <2>2. CASE i > Len(p)
    <3>1. i - Len(p) \in 1 .. Len(q) /\ j - Len(p) \in 1 .. Len(q) /\ i - Len(p) < j - Len(p)
      BY <1>1, <1>2, <1>3, <2>2
    <3>2. a[i] = q[i - Len(p)] /\ a[j] = q[j - Len(p)]
      BY <1>1, <1>2, <1>3, <2>2
    <3> QED BY <3>1, <3>2, Zenon DEF Increasing
  <2>3. CASE i <= Len(p) /\ j > Len(p)
    <3>1. i \in 1 .. Len(p) /\ j - Len(p) \in 1 .. Len(q)
      BY <1>1, <1>2, <1>3, <2>3
    <3>2. a[i] = p[i] /\ a[j] = q[j - Len(p)]
      BY <1>1, <1>2, <2>3
    <3> QED BY <3>1, <3>2
  <2> QED BY <1>2, <2>1, <2>2, <2>3
<1> QED BY <1>1, <1>3 DEF Increasing, a

\* Packets are read in the order in which they arrived and no packet twice: the
\* handler moves them from the FIFO to the queue from the front to the back, and
\* drops the new one when the queue is full.
THEOREM NrfPacketsInOrder == Spec => []PacketsInOrder
<1>1. Init => OrderInv
  <2>1. << >> \in Seq(Nat) /\ Len(<< >>) = 0
    OBVIOUS
  <2>2. InOrder(0, << >>, << >>, 0)
    BY <2>1 DEF InOrder, Increasing, Between
  <2> QED BY <2>2, ZenonT(60) DEF Init, OrderInv
<1>2. TypeOK /\ OrderInv /\ [Next]_vars => OrderInv'
  <2> SUFFICES ASSUME TypeOK, OrderInv, [Next]_vars PROVE OrderInv'
    OBVIOUS
  <2>1. ASSUME NEW r \in Radio, Arrive(r) PROVE OrderInv'
    <3>1. arrived' = arrived + 1 /\ UNCHANGED <<recvq, last>>
      BY <2>1 DEF Arrive
    <3>2. \A q \in Radio : fifo'[q] \in {fifo[q], Append(fifo[q], arrived + 1)}
      BY <2>1, <3>1 DEF Arrive, TypeOK
    <3>3. ASSUME NEW q \in Radio PROVE InOrder(last[q], recvq[q], fifo'[q], arrived + 1)
      BY <3>2, InOrderArrive, Zenon DEF OrderInv
    <3> QED BY <3>1, <3>3 DEF OrderInv
  <2>2. CASE ReadPayload
    <3>0. hn \in Radio /\ fifo[hn] # << >> /\ UNCHANGED <<last, arrived>>
      BY <2>2 DEF ReadPayload, TypeOK
    <3>1. \A q \in Radio \ {hn} : fifo'[q] = fifo[q] /\ recvq'[q] = recvq[q]
      BY <2>2 DEF ReadPayload, TypeOK
    <3>2. /\ fifo'[hn] = Tail(fifo[hn])
          /\ recvq'[hn] \in {Append(recvq[hn], Head(fifo[hn])), recvq[hn]}
      BY <2>2, <3>0 DEF ReadPayload, TypeOK
    <3>3. InOrder(last[hn], recvq'[hn], fifo'[hn], arrived)
      BY <3>0, <3>2, InOrderMove, Zenon DEF OrderInv
    <3> QED BY <3>0, <3>1, <3>3 DEF OrderInv
  <2>3. ASSUME NEW t \in Thread, ReadPacket(t) PROVE OrderInv'
    <3>0. nic[t] \in Radio /\ recvq[nic[t]] # << >> /\ UNCHANGED <<fifo, arrived>>
      BY <2>3 DEF ReadPacket, TypeOK, device
    <3>1. \A q \in Radio \ {nic[t]} : last'[q] = last[q] /\ recvq'[q] = recvq[q]
      BY <2>3 DEF ReadPacket, TypeOK
    <3>2. recvq'[nic[t]] = Tail(recvq[nic[t]]) /\ last'[nic[t]] = Head(recvq[nic[t]])
      BY <2>3, <3>0 DEF ReadPacket, TypeOK
    <3>3. InOrder(last'[nic[t]], recvq'[nic[t]], fifo[nic[t]], arrived)
      BY <3>0, <3>2, InOrderRead, Zenon DEF OrderInv
    <3> QED BY <3>0, <3>1, <3>3, Zenon DEF OrderInv
  <2>4. ASSUME UNCHANGED <<fifo, recvq, last, arrived>> PROVE OrderInv'
    BY <2>4, Zenon DEF OrderInv
  <2>5. CASE Interrupt \/ TestPin \/ ClearIntr \/ Drained \/ UNCHANGED vars
    BY <2>4, <2>5 DEF Interrupt, TestPin, ClearIntr, Drained, vars, device
  <2>6. ASSUME NEW t \in Thread, Send(t) \/ ReadStart(t) \/ ReadTimeout(t) PROVE OrderInv'
    BY <2>4, <2>6, Zenon DEF Send, SendStart, Asserted, SysSend, Sent, SysReturn, ReadStart,
                      ReadTimeout, device
  <2> QED
    BY <2>1, <2>2, <2>3, <2>5, <2>6 DEF Next, Handler, Read
<1>3. ASSUME OrderInv PROVE PacketsInOrder
  <2> SUFFICES ASSUME NEW r \in Radio
               PROVE  Increasing(<<last[r]>> \o recvq[r] \o fifo[r])
    BY Zenon DEF PacketsInOrder, Increasing
  <2> DEFINE l == last[r]
             q == recvq[r]
             f == fifo[r]
             p == <<l>> \o q
  <2>1. InOrder(l, q, f, arrived)
    BY <1>3 DEF OrderInv
  <2> HIDE DEF l, q, f
  <2>2. /\ l \in Nat /\ q \in Seq(Nat) /\ f \in Seq(Nat) /\ Increasing(q) /\ Increasing(f)
        /\ \A i \in 1 .. Len(q) : l < q[i]
        /\ \A i \in 1 .. Len(f) : l < f[i]
        /\ \A i \in 1 .. Len(q), j \in 1 .. Len(f) : q[i] < f[j]
    BY <2>1 DEF InOrder, Between
  <2>3. /\ <<l>> \in Seq(Nat) /\ Len(<<l>>) = 1 /\ <<l>>[1] = l /\ Increasing(<<l>>)
    BY <2>2 DEF Increasing
  <2>4. /\ \A i \in 1 .. Len(<<l>>) : i = 1
        /\ \A i \in 1 .. Len(<<l>>), j \in 1 .. Len(q) : <<l>>[i] < q[j]
    BY <2>2, <2>3
  <2>5. Increasing(p) /\ p \in Seq(Nat)
    BY <2>2, <2>3, <2>4, IncreasingJoin, Zenon
  <2>6. \A i \in 1 .. Len(p) : p[i] = l \/ \E k \in 1 .. Len(q) : p[i] = q[k]
    <3> SUFFICES ASSUME NEW i \in 1 .. Len(p), i # 1 PROVE \E k \in 1 .. Len(q) : p[i] = q[k]
      BY <2>2
    <3>1. /\ Len(p) = 1 + Len(q) /\ Len(q) \in Nat
          /\ p[i] = q[i - 1]
      BY <2>2
    <3>2. i - 1 \in 1 .. Len(q)
      BY <3>1
    <3> QED BY <3>1, <3>2
  <2>7. \A i \in 1 .. Len(p), j \in 1 .. Len(f) : p[i] < f[j]
    <3> HIDE DEF p
    <3> QED BY <2>2, <2>6
  <2>8. Increasing(p \o f)
    <3> HIDE DEF p
    <3> QED BY <2>2, <2>5, <2>7, IncreasingJoin
  <2> QED BY <2>8 DEF l, q, f
<1> QED BY <1>1, <1>2, <1>3, NrfTypes, PTL DEF Spec

-----------------------------------------------------------------------------
(* Sends that wait (NrfSend). *)

Status == {"RX_DR", "TX_DS", "MAX_RT"}

RadioState == [mode : {"rx", "tx"}, rx : Nat, tx : BOOLEAN, bits : SUBSET Status, event : BOOLEAN]

SendTypeOK ==
    /\ how \in {"poll", "ack", "ack_int", "noack_int"} /\ gpio_irq \in BOOLEAN
    /\ radio \in RadioState
    /\ spc \in {"idle", "fetch", "load", "masked", "poll", "back", "wait"}
    /\ ipc \in {"idle", "rt", "rx", "drain", "tx"}
    /\ peer \in Nat /\ sent \in Nat

\* Before the payload is loaded the radio receives, and nothing of an earlier
\* send is left: no payload, no TX_DS, no count.
Quiet ==
    spc \in {"idle", "fetch", "load", "masked"} =>
        /\ ~radio.tx /\ radio.mode = "rx" /\ "TX_DS" \notin radio.bits /\ tx_sent = 0

\* A send under way is at one of three places: the payload is in the radio, the
\* radio announces TX_DS, or the sender (by its result or by the handler's
\* count) knows.
UnderWay ==
    /\ spc \in {"fetch", "load", "poll"} => ~TxInt /\ res = 0
    /\ spc = "poll" => (radio.tx <=> "TX_DS" \notin radio.bits)
    /\ spc = "back" => ~TxInt /\ res = 1 /\ ~radio.tx /\ "TX_DS" \notin radio.bits
    /\ spc \in {"poll", "back"} => radio.mode = "tx" /\ tx_sent = 0
    /\ spc \in {"masked", "wait"} => TxInt
    /\ spc = "wait" /\ radio.tx => "TX_DS" \notin radio.bits /\ tx_sent = 0
    /\ spc = "wait" /\ "TX_DS" \in radio.bits => tx_sent = 0
    /\ spc = "wait" /\ ~radio.tx /\ "TX_DS" \notin radio.bits => tx_sent = 1 /\ radio.mode = "rx"

\* Where the handler may run: never in the polled build, and with the GPIO
\* interrupt on never between the load and the return of nrf_tx_send_ack.
HandlerOff ==
    how = "poll" \/ (how = "ack" /\ gpio_irq /\ spc \in {"poll", "back"}) =>
        ipc = "idle" /\ ~radio.event

Stops ==
    /\ dead \notin {"config", "tx fifo"}
    /\ dead = "USE_TX_INTERRUPT" => how = "ack" /\ ~gpio_irq

SendInv == SendTypeOK /\ Quiet /\ UnderWay /\ HandlerOff /\ Stops /\ SentOnce

\* The radio after a change of its STATUS bits keeps its mode and its buffers;
\* an event is only announced by an unmasked bit.
LEMMA WithBitsFields ==
    ASSUME SendTypeOK, NEW b \in SUBSET Status
    PROVE  LET r == WithBits(radio, b)
           IN  /\ r \in RadioState
               /\ r.mode = radio.mode /\ r.rx = radio.rx /\ r.tx = radio.tx /\ r.bits = b
               /\ ~radio.event /\ b \cap Unmasked \subseteq radio.bits => ~r.event
<1>1. radio \in RadioState
  BY DEF SendTypeOK
<1>2. PinLow(radio) \in BOOLEAN /\ (b \cap Unmasked # {}) \in BOOLEAN
  BY DEF PinLow
<1>3. b \cap Unmasked \subseteq radio.bits /\ b \cap Unmasked # {} => PinLow(radio)
  BY DEF PinLow
<1> QED BY <1>1, <1>2, <1>3, Zenon DEF WithBits, RadioState


\* What the radio does by itself: packets that arrive, a payload that is sent or
\* given up.
LEMMA RadioKeeps == ASSUME SendInv, PktArrives \/ Transmitted \/ GivesUp PROVE SendInv'
<1>0. SendTypeOK /\ radio.bits \in SUBSET Status /\ radio.rx \in Nat
  BY DEF SendInv, SendTypeOK, RadioState
<1>1. CASE PktArrives
  <2> DEFINE b == radio.bits \cup {"RX_DR"}
             r == WithBits(radio, b)
  <2>1. b \in SUBSET Status /\ ("TX_DS" \in b <=> "TX_DS" \in radio.bits)
    BY <1>0 DEF Status
  <2>2. how = "poll" => b \cap Unmasked \subseteq radio.bits
    BY DEF Unmasked, RxInt, TxInt
  <2>3. /\ r \in RadioState /\ r.mode = radio.mode /\ r.tx = radio.tx /\ r.bits = b
        /\ r.rx = radio.rx /\ (~radio.event /\ b \cap Unmasked \subseteq radio.bits => ~r.event)
    BY <1>0, <2>1, WithBitsFields
  <2> HIDE DEF r, b
  <2>4. radio' = [r EXCEPT !.rx = @ + 1] /\ radio.mode = "rx"
    BY <1>1 DEF PktArrives, r, b
  <2>5. UNCHANGED <<how, gpio_irq, spc, ipc, res, tx_sent, peer, sent, dead>>
    BY <1>1 DEF PktArrives
  <2>6. /\ radio' \in RadioState /\ radio'.mode = radio.mode /\ radio'.tx = radio.tx
        /\ radio'.bits = b /\ radio'.event = r.event
    BY <1>0, <2>3, <2>4 DEF RadioState
  <2> QED BY <2>1, <2>2, <2>3, <2>4, <2>5, <2>6, ZenonT(60)
    DEF SendInv, SendTypeOK, Quiet, UnderWay, HandlerOff, Stops, SentOnce, TxInt
<1>2. CASE Transmitted
  <2> DEFINE b == radio.bits \cup {"TX_DS"}
             r == WithBits(radio, b)
  <2>1. b \in SUBSET Status /\ "TX_DS" \in b
    BY <1>0 DEF Status
  <2>2. ~TxInt => b \cap Unmasked \subseteq radio.bits
    BY DEF Unmasked, RxInt, TxInt
  <2>3. /\ r \in RadioState /\ r.mode = radio.mode /\ r.tx = radio.tx /\ r.bits = b
        /\ r.rx = radio.rx /\ (~radio.event /\ b \cap Unmasked \subseteq radio.bits => ~r.event)
    BY <1>0, <2>1, WithBitsFields
  <2> HIDE DEF r, b
  <2>4. radio' = [r EXCEPT !.tx = FALSE] /\ radio.mode = "tx" /\ radio.tx
    BY <1>2 DEF Transmitted, r, b
  <2>5. peer' = peer + 1 /\ UNCHANGED <<how, gpio_irq, spc, ipc, res, tx_sent, sent, dead>>
    BY <1>2 DEF Transmitted
  <2>6. /\ radio' \in RadioState /\ radio'.mode = radio.mode /\ radio'.tx = FALSE
        /\ radio'.bits = b /\ radio'.event = r.event
    BY <1>0, <2>3, <2>4, Zenon DEF RadioState
  <2>7. /\ spc \in {"poll", "wait"} /\ peer = sent /\ tx_sent = 0 /\ peer \in Nat
        /\ (spc = "poll" => ~TxInt /\ res = 0) /\ (spc = "wait" => TxInt)
    BY <2>4 DEF SendInv, SendTypeOK, Quiet, UnderWay, SentOnce
  <2>8. SendTypeOK' /\ Quiet' /\ SentOnce'
    BY <2>5, <2>6, <2>7 DEF SendInv, SendTypeOK, Quiet, SentOnce
  <2>9. UnderWay' /\ HandlerOff' /\ Stops'
    BY <2>1, <2>2, <2>3, <2>4, <2>5, <2>6, <2>7, Zenon DEF SendInv, UnderWay, HandlerOff, Stops, TxInt
  <2> QED BY <2>8, <2>9 DEF SendInv
<1>3. CASE GivesUp
  <2> DEFINE b == radio.bits \cup {"MAX_RT"}
  <2>1. b \in SUBSET Status /\ ("TX_DS" \in b <=> "TX_DS" \in radio.bits)
    BY <1>0 DEF Status
  <2>2. ~TxInt => b \cap Unmasked \subseteq radio.bits
    BY DEF Unmasked, RxInt, TxInt
  <2>3. radio' = WithBits(radio, b) /\ UNCHANGED <<how, gpio_irq, spc, ipc, res, tx_sent, peer, sent, dead>>
    BY <1>3 DEF GivesUp
  <2> HIDE DEF b
  <2>4. /\ radio' \in RadioState /\ radio'.mode = radio.mode /\ radio'.tx = radio.tx
        /\ radio'.bits = b /\ (~radio.event /\ b \cap Unmasked \subseteq radio.bits => ~radio'.event)
    BY <1>0, <2>1, <2>3, WithBitsFields
  <2> QED BY <2>1, <2>2, <2>3, <2>4, ZenonT(60)
    DEF SendInv, SendTypeOK, Quiet, UnderWay, HandlerOff, Stops, SentOnce, TxInt
<1> QED BY <1>1, <1>2, <1>3

\* nrf_handle_intr: its steps leave what the sender knows alone, except that the
\* count takes the place of TX_DS.
LEMMA HandlerKeeps == ASSUME SendInv, IntrHandler PROVE SendInv'
<1>0. SendTypeOK /\ radio.bits \in SUBSET Status /\ radio.rx \in Nat /\ radio \in RadioState
  BY DEF SendInv, SendTypeOK, RadioState
<1>1. CASE TakeInterrupt
  <2>1. PinLow(radio) \in BOOLEAN
    BY DEF PinLow
  <2>2. /\ radio' = [radio EXCEPT !.event = ~PinLow(radio)] /\ radio.event
        /\ ipc' = IF PinLow(radio) THEN "rt" ELSE "idle"
        /\ UNCHANGED <<how, gpio_irq, spc, res, tx_sent, peer, sent, dead>>
    BY <1>1 DEF TakeInterrupt
  <2>3. /\ radio' \in RadioState /\ radio'.mode = radio.mode /\ radio'.tx = radio.tx
        /\ radio'.bits = radio.bits
    BY <1>0, <2>1, <2>2, Zenon DEF RadioState
  <2> QED BY <2>1, <2>2, <2>3, ZenonT(60)
    DEF SendInv, SendTypeOK, Quiet, UnderWay, HandlerOff, Stops, SentOnce, TxInt
<1>2. CASE HandleMaxRt
  <2> DEFINE b == radio.bits \ {"MAX_RT"}
  <2>1. b \in SUBSET Status /\ ("TX_DS" \in b <=> "TX_DS" \in radio.bits)
    BY <1>0 DEF Status
  <2>2. /\ radio' = WithBits(radio, b) /\ ipc = "rt" /\ ipc' = "rx"
        /\ UNCHANGED <<how, gpio_irq, spc, res, tx_sent, peer, sent, dead>>
    BY <1>2 DEF HandleMaxRt
  <2> HIDE DEF b
  <2>3. /\ radio' \in RadioState /\ radio'.mode = radio.mode /\ radio'.tx = radio.tx
        /\ radio'.bits = b
    BY <1>0, <2>1, <2>2, WithBitsFields
  <2> QED BY <2>1, <2>2, <2>3, Zenon
    DEF SendInv, SendTypeOK, Quiet, UnderWay, HandlerOff, Stops, SentOnce, TxInt
<1>3. CASE TestRx
  <2>1. /\ ipc = "rx" /\ ipc' \in {"drain", "tx"}
        /\ UNCHANGED <<how, gpio_irq, radio, spc, res, tx_sent, peer, sent, dead>>
    BY <1>3 DEF TestRx
  <2> QED BY <2>1, ZenonT(60)
    DEF SendInv, SendTypeOK, Quiet, UnderWay, HandlerOff, Stops, SentOnce, TxInt
<1>4. CASE HandleRx
  <2> DEFINE b == radio.bits \ {"RX_DR"}
             r == WithBits(radio, b)
  <2>1. b \in SUBSET Status /\ ("TX_DS" \in b <=> "TX_DS" \in radio.bits)
    BY <1>0 DEF Status
  <2>2. /\ r \in RadioState /\ r.mode = radio.mode /\ r.tx = radio.tx /\ r.bits = b
        /\ r.rx = radio.rx
    BY <1>0, <2>1, WithBitsFields
  <2> HIDE DEF b, r
  <2>3. /\ ipc = "drain" /\ ipc' \in {"drain", "tx"}
        /\ radio' = radio \/ (radio.rx > 0 /\ radio' = [r EXCEPT !.rx = @ - 1])
        /\ UNCHANGED <<how, gpio_irq, spc, res, tx_sent, peer, sent, dead>>
    BY <1>4 DEF HandleRx, b, r
  <2>4. /\ radio' \in RadioState /\ radio'.mode = radio.mode /\ radio'.tx = radio.tx
        /\ ("TX_DS" \in radio'.bits <=> "TX_DS" \in radio.bits)
    BY <1>0, <2>1, <2>2, <2>3 DEF RadioState
  <2> QED BY <2>3, <2>4, ZenonT(60)
    DEF SendInv, SendTypeOK, Quiet, UnderWay, HandlerOff, Stops, SentOnce, TxInt
<1>5. CASE HandleTx
  <2>1. /\ ipc = "tx" /\ ipc' = "idle"
        /\ UNCHANGED <<how, gpio_irq, spc, res, peer, sent>>
    BY <1>5, Zenon DEF HandleTx
  <2>2. CASE "TX_DS" \notin radio.bits
    <3>1. UNCHANGED <<radio, tx_sent, dead>>
      BY <1>5, <2>2 DEF HandleTx
    <3> QED BY <2>1, <3>1, Zenon
      DEF SendInv, SendTypeOK, Quiet, UnderWay, HandlerOff, Stops, SentOnce, TxInt
  <2>3. CASE "TX_DS" \in radio.bits /\ ~TxInt
    <3>1. UNCHANGED <<radio, tx_sent>> /\ dead' = "USE_TX_INTERRUPT"
      BY <1>5, <2>3 DEF HandleTx
    <3>2. spc = "poll" /\ how = "ack" /\ ~gpio_irq
      BY <2>1, <2>3 DEF SendInv, SendTypeOK, Quiet, UnderWay, HandlerOff, TxInt
    <3> QED BY <2>1, <3>1, <3>2, Zenon
      DEF SendInv, SendTypeOK, Quiet, UnderWay, HandlerOff, Stops, SentOnce, TxInt
  <2>4. CASE "TX_DS" \in radio.bits /\ TxInt
    <3> DEFINE b == radio.bits \ {"TX_DS"}
               r == WithBits(radio, b)
    <3>1. b \in SUBSET Status /\ "TX_DS" \notin b
      BY <1>0 DEF Status
    <3>2. r \in RadioState /\ r.tx = radio.tx /\ r.bits = b
      BY <1>0, <3>1, WithBitsFields
    <3>3. spc = "wait" /\ ~radio.tx /\ tx_sent = 0
      BY <2>4 DEF SendInv, SendTypeOK, Quiet, UnderWay
    <3> HIDE DEF b, r
    <3>4. radio' = [r EXCEPT !.mode = "rx"] /\ tx_sent' = tx_sent + 1 /\ dead' = dead
      BY <1>5, <2>4, <3>3 DEF HandleTx, b, r
    <3>5. /\ radio' \in RadioState /\ radio'.mode = "rx" /\ radio'.tx = radio.tx /\ radio'.bits = b
      BY <3>2, <3>4 DEF RadioState
    <3>6. how' \notin {"poll", "ack"} /\ TxInt'
      BY <2>1, <2>4 DEF TxInt
    <3>7. SendTypeOK' /\ Quiet' /\ SentOnce'
      BY <2>1, <3>3, <3>4, <3>5 DEF SendInv, SendTypeOK, Quiet, SentOnce
    <3>8. spc' = "wait" /\ tx_sent' = 1 /\ ~radio'.tx /\ "TX_DS" \notin radio'.bits
      BY <2>1, <3>1, <3>3, <3>4, <3>5
    <3>9. UnderWay'
      BY <3>5, <3>6, <3>8 DEF UnderWay
    <3>10. HandlerOff' /\ Stops'
      BY <2>1, <3>4, <3>6, Zenon DEF SendInv, HandlerOff, Stops
    <3> QED BY <3>7, <3>9, <3>10 DEF SendInv
  <2> QED BY <2>2, <2>3, <2>4
<1> QED BY <1>1, <1>2, <1>3, <1>4, <1>5 DEF IntrHandler

\* The steps of nrf_tx_send_ack, nrf_tx_send_ack_int and nrf_tx_send_noack_int.
LEMMA SenderKeeps == ASSUME SendInv, Sender PROVE SendInv'
<1>0. radio \in RadioState /\ radio.rx \in Nat /\ radio.bits \in SUBSET Status
  BY DEF SendInv, SendTypeOK, RadioState
<1>1. CASE StartSend
  <2>1. /\ spc = "idle" /\ dead = "no" /\ res' = 0
        /\ spc' = IF how = "poll" THEN "fetch" ELSE IF TxInt THEN "masked" ELSE "load"
        /\ dead' = IF radio.mode = "rx" /\ ~radio.tx THEN "no" ELSE "config"
        /\ UNCHANGED <<how, gpio_irq, radio, ipc, tx_sent, peer, sent>>
    BY <1>1 DEF StartSend, SenderAt
  <2> QED BY <2>1
    DEF SendInv, SendTypeOK, Quiet, UnderWay, HandlerOff, Stops, SentOnce, TxInt
<1>2. CASE nrf_get_pkts
  <2>1. /\ spc = "fetch" /\ spc' \in {"fetch", "load"} /\ ~TxInt
        /\ \/ radio' = radio
           \/ /\ radio.rx > 0
              /\ radio' = [radio EXCEPT !.rx = @ - 1,
                                        !.bits = IF got < SendCap THEN @ \ {"RX_DR"} ELSE @]
        /\ UNCHANGED <<how, gpio_irq, ipc, res, tx_sent, peer, sent, dead>>
    BY <1>2 DEF nrf_get_pkts, SenderAt, SendInv, UnderWay
  <2>2. /\ radio' \in RadioState /\ radio'.mode = radio.mode /\ radio'.tx = radio.tx
        /\ ("TX_DS" \in radio'.bits <=> "TX_DS" \in radio.bits) /\ radio'.event = radio.event
    <3>1. CASE radio' = radio
      BY <1>0, <3>1
    <3>2. CASE radio.rx > 0 /\ radio' # radio
      <4> DEFINE b == IF got < SendCap THEN radio.bits \ {"RX_DR"} ELSE radio.bits
      <4>1. b \in SUBSET Status /\ ("TX_DS" \in b <=> "TX_DS" \in radio.bits)
        BY <1>0
      <4>2. radio' = [radio EXCEPT !.rx = radio.rx - 1, !.bits = b]
        BY <2>1, <3>2
      <4> HIDE DEF b
      <4>3. radio.rx - 1 \in Nat
        BY <1>0, <3>2
      <4>4. radio' = [mode |-> radio.mode, rx |-> radio.rx - 1, tx |-> radio.tx, bits |-> b,
                      event |-> radio.event]
        BY <1>0, <4>2, Zenon DEF RadioState
      <4>5. radio.mode \in {"rx", "tx"} /\ radio.tx \in BOOLEAN /\ radio.event \in BOOLEAN
        BY <1>0 DEF RadioState
      <4> QED BY <4>1, <4>3, <4>4, <4>5 DEF RadioState
    <3> QED BY <2>1, <3>1, <3>2
  <2> QED BY <2>1, <2>2, Zenon
    DEF SendInv, SendTypeOK, Quiet, UnderWay, HandlerOff, Stops, SentOnce, TxInt
<1>3. CASE Load
  <2>1. /\ spc \in {"load", "masked"} /\ ipc = "idle"
        /\ (spc = "load" => ~(radio.event /\ gpio_irq)) /\ (spc = "masked" <=> TxInt)
        /\ spc' = IF TxInt THEN "wait" ELSE "poll"
        /\ radio' = [radio EXCEPT !.mode = "tx", !.tx = TRUE]
        /\ UNCHANGED <<how, gpio_irq, ipc, res, tx_sent, peer, sent, dead>>
    BY <1>3 DEF Load, SenderAt, SendInv, UnderWay
  <2>2. /\ radio' \in RadioState /\ radio'.mode = "tx" /\ radio'.tx
        /\ radio'.bits = radio.bits /\ radio'.event = radio.event
    BY <1>0, <2>1, Zenon DEF RadioState
  <2> QED BY <2>1, <2>2, Zenon
    DEF SendInv, SendTypeOK, Quiet, UnderWay, HandlerOff, Stops, SentOnce, TxInt
<1>4. CASE Poll
  <2>1. /\ spc = "poll" /\ ipc = "idle" /\ dead = "no"
        /\ dead' \in {"no", "max intr", "rx fifo full"}
        /\ spc' = IF radio.tx THEN "poll" ELSE "back"
        /\ UNCHANGED <<how, gpio_irq, ipc, tx_sent, peer, sent>>
    BY <1>4, Zenon DEF Poll, SenderAt
  <2>2. /\ radio.mode = "tx" /\ res = 0 /\ ~TxInt /\ tx_sent = 0
        /\ (radio.tx <=> "TX_DS" \notin radio.bits)
    BY <2>1, Zenon DEF SendInv, UnderWay
  <2>3. CASE radio.tx
    <3>1. UNCHANGED <<res, radio>>
      BY <1>4, <2>2, <2>3, Zenon DEF Poll
    <3> QED BY <2>1, <2>2, <2>3, <3>1, Zenon
      DEF SendInv, SendTypeOK, Quiet, UnderWay, HandlerOff, Stops, SentOnce, TxInt
  <2>4. CASE ~radio.tx
    <3>1. res' = 1 /\ radio' = [radio EXCEPT !.bits = @ \ {"TX_DS"}]
      BY <1>4, <2>2, <2>4 DEF Poll
    <3>2. /\ radio' \in RadioState /\ radio'.mode = radio.mode /\ radio'.tx = radio.tx
          /\ "TX_DS" \notin radio'.bits /\ radio'.event = radio.event
      BY <1>0, <3>1 DEF RadioState
    <3> QED BY <2>1, <2>2, <2>4, <3>1, <3>2, Zenon
      DEF SendInv, SendTypeOK, Quiet, UnderWay, HandlerOff, Stops, SentOnce, TxInt
  <2> QED BY <2>3, <2>4
<1>5. CASE Back
  <2>1. /\ spc = "back" /\ spc' = "idle" /\ sent' = sent + res
        /\ radio' = [radio EXCEPT !.mode = "rx"]
        /\ UNCHANGED <<how, gpio_irq, ipc, res, tx_sent, peer, dead>>
    BY <1>5 DEF Back, SenderAt
  <2>2. /\ radio' \in RadioState /\ radio'.mode = "rx" /\ radio'.tx = radio.tx
        /\ radio'.bits = radio.bits /\ radio'.event = radio.event
    BY <1>0, <2>1 DEF RadioState
  <2>8. SendTypeOK' /\ Quiet' /\ SentOnce'
    BY <2>1, <2>2 DEF SendInv, SendTypeOK, Quiet, UnderWay, SentOnce
  <2>9. UnderWay' /\ HandlerOff' /\ Stops'
    BY <2>1, <2>2, Zenon DEF SendInv, UnderWay, HandlerOff, Stops, TxInt
  <2> QED BY <2>8, <2>9 DEF SendInv
<1>6. CASE WaitSent
  <2>1. /\ spc = "wait" /\ tx_sent = 1 /\ tx_sent' = 0 /\ sent' = sent + 1 /\ spc' = "idle"
        /\ dead' = IF how = "noack_int" /\ (radio.mode # "rx" \/ "TX_DS" \in radio.bits)
                   THEN "config" ELSE "no"
        /\ UNCHANGED <<how, gpio_irq, radio, ipc, res, peer>>
    BY <1>6 DEF WaitSent, SenderAt
  <2>2. ~radio.tx /\ "TX_DS" \notin radio.bits /\ radio.mode = "rx" /\ TxInt
    BY <2>1 DEF SendInv, UnderWay
  <2>8. SendTypeOK' /\ Quiet' /\ SentOnce'
    BY <2>1, <2>2 DEF SendInv, SendTypeOK, Quiet, UnderWay, SentOnce
  <2>9. UnderWay' /\ HandlerOff' /\ Stops'
    BY <2>1, <2>2, Zenon DEF SendInv, UnderWay, HandlerOff, Stops, TxInt
  <2> QED BY <2>8, <2>9 DEF SendInv
<1> QED BY <1>1, <1>2, <1>3, <1>4, <1>5, <1>6 DEF Sender

\* nrf-driver.c: for any number of sends, arrivals, retransmissions and any size
\* of queue and FIFO, a send that returns success was transmitted exactly once,
\* and neither the senders' nor the handler's assertions fail (nrf_tx_send_ack
\* with the GPIO interrupt on, or polled).
THEOREM SendRightHolds == SendSpec => []SendRight
<1>1. SendInit => SendInv
  <2> SUFFICES ASSUME SendInit PROVE SendInv
    OBVIOUS
  <2>1. radio \in RadioState /\ ~radio.tx /\ radio.mode = "rx" /\ radio.bits = {} /\ ~radio.event
    BY DEF SendInit, RadioState
  <2> QED BY <2>1
    DEF SendInit, SendInv, SendTypeOK, Quiet, UnderWay, HandlerOff, Stops, SentOnce
<1>2. SendInv /\ [SendNext]_send_vars => SendInv'
  <2> SUFFICES ASSUME SendInv, [SendNext]_send_vars PROVE SendInv'
    OBVIOUS
  <2>1. CASE UNCHANGED send_vars
    BY <2>1, Zenon DEF send_vars, SendInv, SendTypeOK, Quiet, UnderWay, HandlerOff, Stops, SentOnce, TxInt
  <2> QED BY <2>1, RadioKeeps, HandlerKeeps, SenderKeeps DEF SendNext
<1>3. SendInv => SendRight
  BY Zenon DEF SendInv, Stops, SendRight, SendAsserts
<1> QED BY <1>1, <1>2, <1>3, PTL DEF SendSpec
=============================================================================
