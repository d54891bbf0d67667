--------------------------- MODULE DevicesProofs ----------------------------
(***************************************************************************)
(* Queues of devices.  The circular queue, for every ring size, packet     *)
(* size and word that is a multiple of the ring: the indices stay in       *)
(* range, the count is exact, no packet runs out of the room that it was   *)
(* promised, frames stay whole, and it implements the bounded FIFO.  The   *)
(* UART, for every size of its FIFOs and queues: bytes keep their order.   *)
(* Start-up, in every order: nothing is set up twice.                      *)
(***************************************************************************)
EXTENDS CircularQueue, Uart, Boot, TLAPS

USE SMTT(20), ZenonT(20)

-----------------------------------------------------------------------------
(* The circular queue: modular arithmetic. *)

\* Quotient and remainder, as facts the later steps can use.
LEMMA DivMod ==
    ASSUME NEW n \in Nat, n > 0, NEW x \in Int
    PROVE  /\ x % n \in 0 .. n - 1
           /\ x = n * (x \div n) + (x % n)
           /\ x \div n \in Int
    OBVIOUS

\* A remainder is determined by the number it leaves.
LEMMA ModUnique ==
    ASSUME NEW n \in Nat, n > 0, NEW k \in Int, NEW r \in 0 .. n - 1
    PROVE  (n * k + r) % n = r
<1> DEFINE x == n * k + r
           q == x \div n
           s == x % n
<1>1. x \in Int /\ q \in Int /\ s \in 0 .. n - 1 /\ x = n * q + s
  BY DivMod
<1>2. n * (k - q) = s - r
  BY <1>1
<1>3. k - q = 0
  <2>1. k - q >= 1 => n * (k - q) >= n
    BY <1>1
  <2>2. k - q <= -1 => n * (k - q) <= -n
    BY <1>1
  <2> QED BY <1>1, <1>2, <2>1, <2>2
<1> QED BY <1>1, <1>2, <1>3

\* Moving an index one slot on, as cq_push and cq_pop_nonblock do.
LEMMA NextSlot ==
    ASSUME NEW x \in Slots
    PROVE  (x + 1) % CQ_N = IF x + 1 = CQ_N THEN 0 ELSE x + 1
<1>0. CQ_N \in Nat /\ CQ_N > 1 /\ x \in 0 .. CQ_N - 1
  BY QueueAssumption DEF Slots
<1>1. CASE x + 1 = CQ_N
  <2>1. (CQ_N * 1 + 0) % CQ_N = 0
    BY <1>0, ModUnique
  <2> QED BY <1>0, <1>1, <2>1
<1>2. CASE x + 1 # CQ_N
  <2>1. x + 1 \in 0 .. CQ_N - 1
    BY <1>0, <1>2
  <2>2. (CQ_N * 0 + (x + 1)) % CQ_N = x + 1
    BY <1>0, <2>1, ModUnique
  <2>3. CQ_N * 0 + (x + 1) = x + 1
    BY <1>0
  <2> QED BY <1>2, <2>2, <2>3
<1> QED BY <1>1, <1>2

\* cq_nelem is the distance from tail to head although head - tail wraps
\* around the word when head has wrapped around the ring.
LEMMA NelemIsCount ==
    ASSUME head \in Slots, tail \in Slots
    PROVE  cq_nelem = Count
<1>0. CQ_N \in Nat /\ CQ_N > 1 /\ Word \in Nat /\ Word > 0
  BY QueueAssumption
<1>1. PICK k \in 0 .. Word : Word = CQ_N * k
  BY QueueAssumption
<1>2. k \in Nat /\ k >= 1
  BY <1>0, <1>1
<1>3. Word >= CQ_N
  BY <1>0, <1>1, <1>2
<1>4. CASE head >= tail
  <2>1. head - tail \in 0 .. CQ_N - 1
    BY <1>4, <1>0 DEF Slots
  <2>2. (Word * 0 + (head - tail)) % Word = head - tail
    BY <2>1, <1>0, <1>3, ModUnique
  <2>3. (CQ_N * 0 + (head - tail)) % CQ_N = head - tail
    BY <2>1, <1>0, ModUnique
  <2> QED BY <1>4, <1>0, <2>1, <2>2, <2>3 DEF cq_nelem, Count
<1>5. CASE head < tail
  <2> DEFINE d == head - tail + CQ_N
  <2>1. d \in 0 .. CQ_N - 1 /\ head - tail + Word \in 0 .. Word - 1
    BY <1>5, <1>0, <1>3 DEF Slots
  <2>2. (Word * (-1) + (head - tail + Word)) % Word = head - tail + Word
    BY <2>1, <1>0, ModUnique
  <2>3. (CQ_N * (k - 1) + d) % CQ_N = d
    <3>1. k - 1 \in Int
      BY <1>2
    <3> HIDE DEF d
    <3> QED BY <2>1, <3>1, <1>0, ModUnique
  <2>4. /\ Word * (-1) + (head - tail + Word) = head - tail
        /\ CQ_N * (k - 1) + d = head - tail + Word
    BY <1>0, <1>1, <1>2 DEF Slots
  <2>5. (head - tail) % Word = head - tail + Word
    BY <2>2, <2>4
  <2>6. (head - tail + Word) % CQ_N = d
    BY <2>3, <2>4
  <2>7. Count = d
    BY <1>5 DEF Count, Slots
  <2> QED BY <2>5, <2>6, <2>7 DEF cq_nelem
<1> QED BY <1>4, <1>5 DEF Slots

-----------------------------------------------------------------------------
(* The invariant. *)

\* What the types say, as plain arithmetic.
LEMMA Ranges ==
    ASSUME TypeOK
    PROVE  /\ CQ_N \in Nat /\ CQ_N > 1 /\ PktLen \in Nat /\ PktLen > 0
           /\ head \in 0 .. CQ_N - 1 /\ tail \in 0 .. CQ_N - 1
           /\ Count \in 0 .. CQ_N - 1
           /\ pi \in 0 .. PktLen /\ ci \in 0 .. PktLen
           /\ Len(pushed) \in Nat /\ Len(popped) \in Nat
  BY QueueAssumption DEF TypeOK, Count, Slots

\* The empty queue satisfies the invariant.
LEMMA InitInv == Init => QueueInv
<1> SUFFICES ASSUME Init PROVE QueueInv
  OBVIOUS
<1>1. TypeOK
  BY QueueAssumption DEF Init, TypeOK, Slots, Packet
<1>2. Count = 0 /\ Len(pushed) = 0 /\ Len(popped) = 0
  BY QueueAssumption DEF Init, Count
<1>3. 0 = PktLen * 0 + 0
  BY QueueAssumption
<1>4. Frames
  BY <1>2, <1>3 DEF Init, Frames
<1> QED BY <1>1, <1>2, <1>4 DEF Init, QueueInv, Contents, ProducerInv, ConsumerInv

\* Starting a packet: the room it needs has just been checked.
LEMMA PushStartInv ==
    ASSUME QueueInv, NEW p \in Packet, PushStart(p)
    PROVE  QueueInv'
<1>0. TypeOK /\ Contents /\ ConsumerInv /\ Frames
  BY DEF QueueInv
<1>1. /\ UNCHANGED <<c_buf, head, tail, cpc, ci, ce, pushed, popped>>
      /\ ppc = "idle" /\ ppc' = "write" /\ pkt' = p /\ pi' = 0
  BY DEF PushStart, queue, consumer
<1>2. TypeOK'
  BY <1>0, <1>1, QueueAssumption DEF TypeOK
<1>3. Count' = Count
  BY <1>1 DEF Count
<1>4. Contents' /\ ConsumerInv'
  BY <1>0, <1>1, <1>3 DEF Contents, ConsumerInv, Slot
<1>5. ProducerInv'
  <2>1. cq_nelem = Count
    BY <1>0, NelemIsCount DEF TypeOK
  <2>2. CQ_N - 1 - Count >= PktLen
    BY <2>1, <1>0, Ranges DEF PushStart, push_n_rejects, cq_nspace
  <2> QED BY <1>0, <1>1, <1>3, <2>2, Ranges DEF ProducerInv
<1>6. Frames'
  BY <1>0, <1>1 DEF Frames
<1> QED BY <1>2, <1>4, <1>5, <1>6 DEF QueueInv

\* Filling the slot at head: it is none of the slots in use.
LEMMA PushWriteInv ==
    ASSUME QueueInv, PushWrite
    PROVE  QueueInv'
<1>0. TypeOK /\ Contents /\ ConsumerInv /\ ProducerInv /\ Frames
  BY DEF QueueInv
<1>1. /\ UNCHANGED <<head, tail, pkt, pi, cpc, ci, ce, pushed, popped>>
      /\ ppc = "write" /\ ppc' = "publish"
      /\ c_buf' = [c_buf EXCEPT ![head] = pkt[pi + 1]]
  BY DEF PushWrite, consumer
<1>2. pi + 1 \in 1 .. PktLen
  BY <1>0, <1>1, Ranges DEF ProducerInv
<1>3. TypeOK'
  <2>1. c_buf' \in [Slots -> Byte]
    BY <1>0, <1>1, <1>2 DEF TypeOK, Packet
  <2> QED BY <1>0, <1>1, <2>1 DEF TypeOK
<1>4. Count' = Count /\ \A i : Slot(i)' = Slot(i)
  BY <1>1 DEF Count, Slot
<1>5. \A i \in 0 .. Count - 1 : Slot(i) # head
  <2>1. CQ_N \in Nat /\ head \in 0 .. CQ_N - 1 /\ tail \in 0 .. CQ_N - 1
    BY <1>0, Ranges
  <2> SUFFICES ASSUME NEW i \in 0 .. Count - 1 PROVE Slot(i) # head
    OBVIOUS
  <2>2. CASE head >= tail
    BY <2>1, <2>2 DEF Count, Slot
  <2>3. CASE head < tail
    BY <2>1, <2>3 DEF Count, Slot
  <2> QED BY <2>1, <2>2, <2>3
<1>6. \A s : s # head => c_buf'[s] = c_buf[s]
  BY <1>0, <1>1 DEF TypeOK
<1>7. Contents'
  BY <1>0, <1>1, <1>4, <1>5, <1>6 DEF Contents
<1>8. ConsumerInv'
  <2>1. Count > 0 => tail # head
    BY <1>0, Ranges DEF Count
  <2> QED BY <1>0, <1>1, <1>4, <1>6, <2>1 DEF ConsumerInv
<1>9. ProducerInv'
  BY <1>0, <1>1, <1>4 DEF ProducerInv, TypeOK
<1>10. Frames'
  BY <1>0, <1>1 DEF Frames
<1> QED BY <1>3, <1>7, <1>8, <1>9, <1>10 DEF QueueInv

\* One more byte of a packet keeps a history a number of whole packets and the
\* part under way.
LEMMA FrameStep ==
    ASSUME PktLen \in Nat, PktLen > 0,
           NEW len \in Nat, NEW i \in 0 .. PktLen - 1,
           \E k \in 0 .. len : len = PktLen * k + i
    PROVE  \E k \in 0 .. len + 1 :
               len + 1 = PktLen * k + (IF i + 1 = PktLen THEN 0 ELSE i + 1)
<1>1. PICK k \in 0 .. len : len = PktLen * k + i
  OBVIOUS
<1>2. CASE i + 1 = PktLen
  <2>1. len + 1 = PktLen * k + PktLen
    BY <1>1, <1>2
  <2>2. PktLen * k + PktLen = PktLen * (k + 1) + 0
    BY <1>1
  <2>3. len + 1 = PktLen * (k + 1) + 0
    BY <2>1, <2>2
  <2>4. k + 1 \in 0 .. len + 1
    BY <1>1
  <2> QED BY <1>2, <2>3, <2>4, Zenon
<1>3. CASE i + 1 # PktLen
  <2>1. len + 1 = PktLen * k + (i + 1)
    BY <1>1
  <2>2. k \in 0 .. len + 1
    BY <1>1
  <2> QED BY <1>3, <2>1, <2>2
<1> QED BY <1>2, <1>3

\* Publishing a byte: the slot filled becomes the last one in use.
LEMMA PushPublishInv ==
    ASSUME QueueInv, PushPublish
    PROVE  QueueInv' /\ Len(pushed) - Len(popped) < CQ_N - 1 /\ pkt[pi + 1] \in Byte
<1>0. TypeOK /\ Contents /\ ConsumerInv /\ ProducerInv /\ Frames
  BY DEF QueueInv
<1>1. /\ UNCHANGED <<c_buf, tail, pkt, cpc, ci, ce, popped>>
      /\ ppc = "publish" /\ ppc' = (IF pi + 1 = PktLen THEN "idle" ELSE "write")
      /\ pi' = pi + 1 /\ pushed' = Append(pushed, pkt[pi + 1])
  BY DEF PushPublish, consumer
<1>2. head' = (IF head + 1 = CQ_N THEN 0 ELSE head + 1)
  BY <1>0, NextSlot DEF TypeOK, PushPublish
<1>3. /\ pi + 1 \in 1 .. PktLen /\ pi < PktLen
      /\ CQ_N - 1 - Count >= PktLen - pi /\ Count < CQ_N - 1
      /\ c_buf[head] = pkt[pi + 1]
  BY <1>0, <1>1, Ranges DEF ProducerInv
<1>4. pkt[pi + 1] \in Byte
  BY <1>0, <1>3 DEF TypeOK, Packet
<1>5. TypeOK'
  <2>1. head' \in Slots
    BY <1>0, <1>2, Ranges DEF Slots
  <2>2. pi' \in 0 .. PktLen
    BY <1>1, <1>3
  <2> QED BY <1>0, <1>1, <1>4, <2>1, <2>2 DEF TypeOK
<1>6. Count' = Count + 1 /\ Slot(Count) = head
  <2>1. Slot(Count) = head
    BY <1>0, Ranges DEF Count, Slot
  <2>2. Count' = IF head' >= tail THEN head' - tail ELSE head' - tail + CQ_N
    BY <1>1 DEF Count
  <2>3. Count = (IF head >= tail THEN head - tail ELSE head - tail + CQ_N)
    BY DEF Count
  <2>4. Count < CQ_N - 1 /\ CQ_N \in Nat /\ head \in 0 .. CQ_N - 1 /\ tail \in 0 .. CQ_N - 1
    BY <1>0, <1>3, Ranges
  <2>5. Count' = Count + 1
    <3>1. CASE head + 1 = CQ_N
      BY <1>2, <2>2, <2>3, <2>4, <3>1
    <3>2. CASE head + 1 # CQ_N
      BY <1>2, <2>2, <2>3, <2>4, <3>2
    <3> QED BY <3>1, <3>2
  <2> QED BY <2>1, <2>5
<1>7. \A i : Slot(i)' = Slot(i)
  BY <1>1 DEF Slot
<1>8. /\ Len(pushed') = Len(pushed) + 1
      /\ pushed'[Len(pushed) + 1] = pkt[pi + 1]
      /\ \A i \in 1 .. Len(pushed) : pushed'[i] = pushed[i]
  BY <1>0, <1>1, <1>4 DEF TypeOK
<1>9. Contents'
  <2>1. Count' = Len(pushed') - Len(popped')
    BY <1>0, <1>1, <1>6, <1>8, Ranges DEF Contents
  <2>2. ASSUME NEW i \in 0 .. Count
        PROVE  c_buf[Slot(i)] = pushed'[Len(popped) + 1 + i]
    <3>1. CASE i = Count
      <4>1. Len(popped) + 1 + i = Len(pushed) + 1
        BY <3>1, <1>0, Ranges DEF Contents
      <4> QED BY <4>1, <3>1, <1>3, <1>6, <1>8
    <3>2. CASE i # Count
      <4>1. i \in 0 .. Count - 1 /\ Len(popped) + 1 + i \in 1 .. Len(pushed)
        BY <3>2, <1>0, Ranges DEF Contents
      <4> QED BY <4>1, <1>0, <1>8 DEF Contents
    <3> QED BY <3>1, <3>2
  <2>3. \A i \in 0 .. Count' - 1 : i \in 0 .. Count
    BY <1>0, <1>6, Ranges
  <2> QED BY <1>1, <1>7, <2>1, <2>2, <2>3 DEF Contents
<1>10. ProducerInv'
  <2>1. CQ_N \in Nat /\ PktLen \in Nat /\ Count \in Nat /\ pi \in Nat
    BY <1>0, Ranges
  <2>2. ppc' # "idle" => pi' < PktLen /\ CQ_N - 1 - Count' >= PktLen - pi'
    <3>1. pi + 1 # PktLen => pi + 1 < PktLen
      BY <1>3, <2>1
    <3>2. CQ_N - 1 - (Count + 1) >= PktLen - (pi + 1)
      BY <1>3, <2>1
    <3> QED BY <1>1, <1>6, <3>1, <3>2
  <2>3. ppc' # "publish"
    BY <1>1
  <2> QED BY <2>2, <2>3 DEF ProducerInv
<1>11. ConsumerInv'
  BY <1>0, <1>1, <1>6, Ranges DEF ConsumerInv
<1>12. Frames'
  <2>1. \E k \in 0 .. Len(pushed) : Len(pushed) = PktLen * k + pi
    BY <1>0, <1>1 DEF Frames
  <2>2. pi \in 0 .. PktLen - 1
    BY <1>0, <1>3, Ranges
  <2>3. \E k \in 0 .. Len(pushed) + 1 :
            Len(pushed) + 1 = PktLen * k + (IF pi + 1 = PktLen THEN 0 ELSE pi + 1)
    BY <1>0, <2>1, <2>2, FrameStep, Ranges, Zenon
  <2>4. (IF ppc' = "idle" THEN 0 ELSE pi') = (IF pi + 1 = PktLen THEN 0 ELSE pi + 1)
    BY <1>1
  <2>5. \E k \in 0 .. Len(popped) :
            Len(popped) = PktLen * k + (IF cpc = "idle" THEN 0 ELSE ci)
    BY <1>0 DEF Frames
  <2> QED BY <1>1, <1>8, <2>3, <2>4, <2>5 DEF Frames
<1>13. Len(pushed) - Len(popped) < CQ_N - 1
  BY <1>0, <1>3 DEF Contents
<1> QED
  BY <1>4, <1>5, <1>9, <1>10, <1>11, <1>12, <1>13 DEF QueueInv

\* Starting to read a packet.
LEMMA ReadStartInv ==
    ASSUME QueueInv, ReadStart
    PROVE  QueueInv'
<1>0. TypeOK /\ Contents /\ ProducerInv /\ Frames
  BY DEF QueueInv
<1>1. /\ UNCHANGED <<c_buf, head, tail, ppc, pkt, pi, ce, pushed, popped>>
      /\ cpc = "idle" /\ cpc' = "read" /\ ci' = 0
  BY DEF ReadStart, queue, producer
<1>2. TypeOK'
  BY <1>0, <1>1, QueueAssumption DEF TypeOK
<1>3. Count' = Count
  BY <1>1 DEF Count
<1>4. Contents' /\ ProducerInv'
  BY <1>0, <1>1, <1>3 DEF Contents, ProducerInv, Slot
<1>5. ConsumerInv'
  BY <1>1, QueueAssumption DEF ConsumerInv
<1>6. Frames'
  BY <1>0, <1>1 DEF Frames
<1> QED BY <1>2, <1>4, <1>5, <1>6 DEF QueueInv

\* Reading the slot at tail: the queue is not empty, so the slot is in use.
LEMMA PopReadInv ==
    ASSUME QueueInv, PopRead
    PROVE  QueueInv'
<1>0. TypeOK /\ Contents /\ ProducerInv /\ ConsumerInv /\ Frames
  BY DEF QueueInv
<1>1. /\ UNCHANGED <<c_buf, head, tail, ppc, pkt, pi, ci, pushed, popped>>
      /\ cpc = "read" /\ cpc' = "advance" /\ ce' = c_buf[tail] /\ head # tail
  BY DEF PopRead, queue, producer, cq_empty
<1>2. TypeOK'
  BY <1>0, <1>1 DEF TypeOK
<1>3. Count' = Count /\ Count > 0
  BY <1>0, <1>1, Ranges DEF Count
<1>4. Contents' /\ ProducerInv'
  BY <1>0, <1>1, <1>3 DEF Contents, ProducerInv, Slot
<1>5. ConsumerInv'
  BY <1>0, <1>1, <1>3 DEF ConsumerInv
<1>6. Frames'
  BY <1>0, <1>1 DEF Frames
<1> QED BY <1>2, <1>4, <1>5, <1>6 DEF QueueInv

\* Freeing the slot: the byte read is the oldest one in the queue.
LEMMA PopAdvanceInv ==
    ASSUME QueueInv, PopAdvance
    PROVE  /\ QueueInv'
           /\ Len(popped) < Len(pushed)
           /\ ce = pushed[Len(popped) + 1]
<1>0. TypeOK /\ Contents /\ ConsumerInv /\ ProducerInv /\ Frames
  BY DEF QueueInv
<1>1. /\ UNCHANGED <<c_buf, head, ppc, pkt, pi, ce, pushed>>
      /\ cpc = "advance" /\ cpc' = (IF ci + 1 = PktLen THEN "idle" ELSE "read")
      /\ ci' = ci + 1 /\ popped' = Append(popped, ce)
  BY DEF PopAdvance, producer
<1>2. tail' = (IF tail + 1 = CQ_N THEN 0 ELSE tail + 1)
  BY <1>0, NextSlot DEF TypeOK, PopAdvance
<1>3. Count > 0 /\ ce = c_buf[tail] /\ ci < PktLen
  BY <1>0, <1>1 DEF ConsumerInv
<1>4. Len(popped) < Len(pushed)
  BY <1>0, <1>3, Ranges DEF Contents
<1>5. ce = pushed[Len(popped) + 1]
  <2>1. Slot(0) = tail /\ 0 \in 0 .. Count - 1 /\ Len(popped) + 1 + 0 = Len(popped) + 1
    BY <1>0, <1>3, Ranges DEF Slot
  <2> QED BY <1>0, <1>3, <2>1 DEF Contents
<1>6. TypeOK'
  <2>1. tail' \in Slots
    BY <1>0, <1>2, Ranges DEF Slots
  <2>2. ci' \in 0 .. PktLen
    BY <1>0, <1>1, <1>3, Ranges
  <2> QED BY <1>0, <1>1, <2>1, <2>2 DEF TypeOK
<1>7. Count' = Count - 1
  <2>1. Count' = IF head >= tail' THEN head - tail' ELSE head - tail' + CQ_N
    BY <1>1 DEF Count
  <2>2. Count = (IF head >= tail THEN head - tail ELSE head - tail + CQ_N)
    BY DEF Count
  <2>3. Count > 0 /\ CQ_N \in Nat /\ head \in 0 .. CQ_N - 1 /\ tail \in 0 .. CQ_N - 1
    BY <1>0, <1>3, Ranges
  <2>4. CASE tail + 1 = CQ_N
    BY <1>2, <2>1, <2>2, <2>3, <2>4
  <2>5. CASE tail + 1 # CQ_N
    BY <1>2, <2>1, <2>2, <2>3, <2>5
  <2> QED BY <2>4, <2>5
<1>8. \A i \in 0 .. Count - 2 : Slot(i)' = Slot(i + 1)
  <2> SUFFICES ASSUME NEW i \in 0 .. Count - 2 PROVE Slot(i)' = Slot(i + 1)
    OBVIOUS
  <2>1. Slot(i)' = IF tail' + i < CQ_N THEN tail' + i ELSE tail' + i - CQ_N
    BY DEF Slot
  <2>2. Slot(i + 1) = IF tail + (i + 1) < CQ_N THEN tail + (i + 1) ELSE tail + (i + 1) - CQ_N
    BY DEF Slot
  <2>3. i \in 0 .. CQ_N - 3 /\ CQ_N \in Nat /\ tail \in 0 .. CQ_N - 1
    BY <1>0, Ranges
  <2>4. CASE tail + 1 = CQ_N
    BY <1>2, <2>1, <2>2, <2>3, <2>4
  <2>5. CASE tail + 1 # CQ_N
    BY <1>2, <2>1, <2>2, <2>3, <2>5
  <2> QED BY <2>4, <2>5
<1>9. Len(popped') = Len(popped) + 1
  BY <1>0, <1>1 DEF TypeOK
<1>10. Contents'
  <2>1. Count' = Len(pushed') - Len(popped')
    BY <1>0, <1>1, <1>7, <1>9, Ranges DEF Contents
  <2>2. ASSUME NEW i \in 0 .. Count - 2
        PROVE  c_buf[Slot(i)'] = pushed[Len(popped') + 1 + i]
    <3>1. i + 1 \in 0 .. Count - 1 /\ Len(popped') + 1 + i = Len(popped) + 1 + (i + 1)
      BY <1>0, <1>9, Ranges
    <3>2. c_buf[Slot(i + 1)] = pushed[Len(popped) + 1 + (i + 1)]
      BY <1>0, <3>1 DEF Contents
    <3> QED BY <1>8, <3>1, <3>2
  <2>3. \A i \in 0 .. Count' - 1 : i \in 0 .. Count - 2
    BY <1>0, <1>7, Ranges
  <2> QED BY <1>1, <2>1, <2>2, <2>3 DEF Contents
<1>11. ProducerInv'
  <2>1. CQ_N \in Nat /\ PktLen \in Nat /\ Count \in Nat /\ pi \in Nat
    BY <1>0, Ranges
  <2>2. CQ_N - 1 - Count >= PktLen - pi => CQ_N - 1 - (Count - 1) >= PktLen - pi
    BY <2>1
  <2> QED BY <1>0, <1>1, <1>7, <2>2 DEF ProducerInv
<1>12. ConsumerInv'
  BY <1>0, <1>1, <1>3, Ranges DEF ConsumerInv
<1>13. Frames'
  <2>1. \E k \in 0 .. Len(popped) : Len(popped) = PktLen * k + ci
    BY <1>0, <1>1 DEF Frames
  <2>2. ci \in 0 .. PktLen - 1
    BY <1>0, <1>3, Ranges
  <2>3. \E k \in 0 .. Len(popped) + 1 :
            Len(popped) + 1 = PktLen * k + (IF ci + 1 = PktLen THEN 0 ELSE ci + 1)
    BY <1>0, <2>1, <2>2, FrameStep, Ranges, Zenon
  <2>4. (IF cpc' = "idle" THEN 0 ELSE ci') = (IF ci + 1 = PktLen THEN 0 ELSE ci + 1)
    BY <1>1
  <2>5. \E k \in 0 .. Len(pushed) :
            Len(pushed) = PktLen * k + (IF ppc = "idle" THEN 0 ELSE pi)
    BY <1>0 DEF Frames
  <2> QED BY <1>1, <1>9, <2>3, <2>4, <2>5 DEF Frames
<1> QED
  BY <1>4, <1>5, <1>6, <1>10, <1>11, <1>12, <1>13 DEF QueueInv

\* Every step of either side preserves the invariant.
LEMMA NextInv == QueueInv /\ [Next]_vars => QueueInv'
<1> SUFFICES ASSUME QueueInv, [Next]_vars PROVE QueueInv'
  OBVIOUS
<1>1. CASE UNCHANGED vars
  BY <1>1, Zenon DEF vars, queue, producer, consumer, QueueInv, TypeOK, Contents,
              ProducerInv, ConsumerInv, Frames, Count, Slot
<1>2. CASE PushDrop
  BY <1>1, <1>2 DEF PushDrop
<1>3. CASE \E p \in Packet : PushStart(p)
  BY <1>3, PushStartInv
<1>4. CASE PushWrite
  BY <1>4, PushWriteInv
<1>5. CASE PushPublish
  BY <1>5, PushPublishInv
<1>6. CASE ReadStart
  BY <1>6, ReadStartInv
<1>7. CASE PopRead
  BY <1>7, PopReadInv
<1>8. CASE PopAdvance
  BY <1>8, PopAdvanceInv
<1> QED
  BY <1>1, <1>2, <1>3, <1>4, <1>5, <1>6, <1>7, <1>8 DEF Next, Produce, Consume

-----------------------------------------------------------------------------
(* The theorems. *)

\* The slots in use always hold exactly the bytes waiting, in order, at every
\* point where cq_push and cq_pop_nonblock may interrupt one another.
THEOREM QueueCorrect == Spec => []QueueInv
  BY InitInv, NextInv, PTL DEF Spec

\* head and tail stay in the ring and every local keeps its type.
THEOREM QueueTypes == Spec => []TypeOK
<1>1. QueueInv => TypeOK
  BY DEF QueueInv
<1> QED BY <1>1, QueueCorrect, PTL

\* cq_nelem is exact for every ring size that divides the word.
THEOREM QueueCountExact == Spec => []CountExact
<1>1. QueueInv => CountExact
  BY NelemIsCount DEF QueueInv, Contents, CountExact, TypeOK
<1> QED BY <1>1, QueueCorrect, PTL

\* The panic of cq_push_n cannot be reached for any packet size: the room
\* checked for the whole packet is there for its last byte.
THEOREM QueueNoPanic == Spec => []NoImpossiblePanic
<1>1. QueueInv => NoImpossiblePanic
  <2> SUFFICES ASSUME QueueInv, ppc = "write" PROVE ~cq_full /\ cq_nspace > 0
    BY DEF NoImpossiblePanic
  <2>1. TypeOK /\ ProducerInv
    BY DEF QueueInv
  <2>2. CQ_N - 1 - Count > 0
    BY <2>1, Ranges DEF ProducerInv
  <2>3. cq_nelem = Count
    BY <2>1, NelemIsCount DEF TypeOK
  <2>4. (head + 1) % CQ_N = (IF head + 1 = CQ_N THEN 0 ELSE head + 1)
    BY <2>1, NextSlot DEF TypeOK
  <2>5. (IF head + 1 = CQ_N THEN 0 ELSE head + 1) # tail
    BY <2>1, <2>2, Ranges DEF Count
  <2> QED BY <2>2, <2>3, <2>4, <2>5 DEF cq_full, cq_nspace
<1> QED BY <1>1, QueueCorrect, PTL

\* Only whole packets go in and come out.
THEOREM QueueFramesIntact == Spec => []FramesIntact
<1>1. QueueInv => FramesIntact
  <2> SUFFICES ASSUME QueueInv PROVE FramesIntact
    OBVIOUS
  <2>1. \A k \in Nat : (PktLen * k + 0) % PktLen = 0
    <3>1. PktLen \in Nat /\ PktLen > 0 /\ 0 \in 0 .. PktLen - 1
      BY QueueAssumption
    <3> QED BY <3>1, ModUnique
  <2>2. TypeOK /\ Frames
    BY DEF QueueInv
  <2>3. ASSUME ppc = "idle" PROVE Len(pushed) % PktLen = 0
    <3>1. PICK k \in 0 .. Len(pushed) : Len(pushed) = PktLen * k + 0
      BY <2>2, <2>3 DEF Frames
    <3> QED BY <3>1, <2>1, <2>2, Ranges
  <2>4. ASSUME cpc = "idle" PROVE Len(popped) % PktLen = 0
    <3>1. PICK k \in 0 .. Len(popped) : Len(popped) = PktLen * k + 0
      BY <2>2, <2>4 DEF Frames
    <3> QED BY <3>1, <2>1, <2>2, Ranges
  <2> QED BY <2>3, <2>4 DEF FramesIntact
<1> QED BY <1>1, QueueCorrect, PTL

\* The circular queue implements the bounded FIFO of capacity CQ_N - 1.
THEOREM QueueImplementsFifo == Spec => FifoSpec
<1>1. Init => Fifo!Init
  BY DEF Init, Fifo!Init
<1>2. QueueInv /\ [Next]_vars => [Fifo!Next]_(Fifo!vars)
  <2> SUFFICES ASSUME QueueInv, [Next]_vars
               PROVE  [Fifo!Next]_(Fifo!vars)
    OBVIOUS
  <2>1. CASE PushPublish
    <3>1. Fifo!Push(pkt[pi + 1])
      BY <2>1, PushPublishInv DEF PushPublish, Fifo!Push
    <3> QED BY <2>1, <3>1, PushPublishInv DEF Fifo!Next
  <2>2. CASE PopAdvance
    <3>1. Fifo!Pop
      BY <2>2, PopAdvanceInv DEF PopAdvance, Fifo!Pop
    <3> QED BY <3>1 DEF Fifo!Next
  <2>3. CASE ~PushPublish /\ ~PopAdvance
    <3>1. UNCHANGED <<pushed, popped>>
      BY <2>3 DEF Next, Produce, Consume, PushDrop, PushStart, PushWrite,
                  ReadStart, PopRead, vars
    <3> QED BY <3>1 DEF Fifo!vars
  <2> QED BY <2>1, <2>2, <2>3
<1> QED BY <1>1, <1>2, QueueCorrect, PTL DEF Spec, FifoSpec, Fifo!Spec

-----------------------------------------------------------------------------
(* Bytes that pass through three sequences in a row (Uart). *)

\* The order of two bytes; z is a byte that is passed over.
Before(z, a, b) == a = z \/ b = z \/ a < b
InLine(z, q) == \A i, j \in 1 .. Len(q) : i < j => Before(z, q[i], q[j])
Ahead(z, p, q) == \A i \in 1 .. Len(p), j \in 1 .. Len(q) : Before(z, p[i], q[j])
UpTo(q, m) == \A i \in 1 .. Len(q) : q[i] <= m

\* p is ahead of q and q ahead of f; no number is above m.
Lines(z, p, q, f, m) ==
    /\ p \in Seq(Nat) /\ q \in Seq(Nat) /\ f \in Seq(Nat) /\ m \in Nat
    /\ InLine(z, p) /\ InLine(z, q) /\ InLine(z, f)
    /\ Ahead(z, p, q) /\ Ahead(z, p, f) /\ Ahead(z, q, f)
    /\ UpTo(p, m) /\ UpTo(q, m) /\ UpTo(f, m)

\* The elements of a sequence with one more.
LEMMA SeqAppend ==
    ASSUME NEW q \in Seq(Nat), NEW x \in Nat
    PROVE  /\ Append(q, x) \in Seq(Nat)
           /\ \A i \in 1 .. Len(q) : i \in 1 .. Len(Append(q, x)) /\ Append(q, x)[i] = q[i]
           /\ \A i \in 1 .. Len(Append(q, x)) :
                 \/ i \in 1 .. Len(q) /\ Append(q, x)[i] = q[i]
                 \/ i = Len(q) + 1 /\ Append(q, x)[i] = x
<1> DEFINE a == Append(q, x)
<1>1. a \in Seq(Nat) /\ Len(a) = Len(q) + 1 /\ Len(q) \in Nat /\ a[Len(q) + 1] = x
  OBVIOUS
<1>2. \A i \in 1 .. Len(q) : a[i] = q[i]
  OBVIOUS
<1> HIDE DEF a
<1>3. \A i \in 1 .. Len(q) : i \in 1 .. Len(a)
  BY <1>1
<1>4. \A i \in 1 .. Len(a) : i \in 1 .. Len(q) \/ i = Len(q) + 1
  BY <1>1
<1> QED BY <1>1, <1>2, <1>3, <1>4, Zenon DEF a

\* The elements of a sequence without its first.
LEMMA SeqTail ==
    ASSUME NEW q \in Seq(Nat), q # <<>>
    PROVE  /\ Tail(q) \in Seq(Nat) /\ Head(q) \in Nat /\ Head(q) = q[1] /\ 1 \in 1 .. Len(q)
           /\ \A i \in 1 .. Len(Tail(q)) : i + 1 \in 1 .. Len(q) /\ 1 < i + 1 /\ Tail(q)[i] = q[i + 1]
<1> DEFINE w == Tail(q)
<1>1. w \in Seq(Nat) /\ Len(w) = Len(q) - 1 /\ Len(q) \in Nat \ {0} /\ Head(q) = q[1]
  OBVIOUS
<1>2. \A i \in 1 .. Len(w) : w[i] = q[i + 1]
  OBVIOUS
<1> HIDE DEF w
<1>3. 1 \in 1 .. Len(q) /\ q[1] \in Nat
  BY <1>1
<1>4. \A i \in 1 .. Len(w) : i + 1 \in 1 .. Len(q) /\ 1 < i + 1
  BY <1>1
<1> QED BY <1>1, <1>2, <1>3, <1>4 DEF w

\* A byte behind all others of its sequence.
LEMMA LineAppend ==
    ASSUME NEW z, NEW q \in Seq(Nat), NEW x \in Nat, NEW m, InLine(z, q),
           \A i \in 1 .. Len(q) : Before(z, q[i], x)
    PROVE  InLine(z, Append(q, x)) /\ (UpTo(q, m) /\ x <= m => UpTo(Append(q, x), m))
<1> DEFINE a == Append(q, x)
<1>1. \A i \in 1 .. Len(a) : \/ i \in 1 .. Len(q) /\ a[i] = q[i]
                             \/ i = Len(q) + 1 /\ a[i] = x
  BY SeqAppend, Zenon
<1>2. Len(q) \in Nat
  OBVIOUS
<1> HIDE DEF a
<1>3. ASSUME NEW i \in 1 .. Len(a), NEW j \in 1 .. Len(a), i < j PROVE Before(z, a[i], a[j])
  <2>1. i \in 1 .. Len(q) /\ a[i] = q[i]
    BY <1>1, <1>2, <1>3
  <2>2. CASE j = Len(q) + 1 /\ a[j] = x
    BY <2>1, <2>2
  <2>3. CASE j \in 1 .. Len(q) /\ a[j] = q[j]
    BY <1>3, <2>1, <2>3 DEF InLine
  <2> QED BY <1>1, <2>2, <2>3
<1>4. UpTo(q, m) /\ x <= m => UpTo(a, m)
  BY <1>1 DEF UpTo
<1> QED BY <1>3, <1>4 DEF InLine, a

\* A queue without its first byte is still in order.
LEMMA LineTail ==
    ASSUME NEW z, NEW q \in Seq(Nat), q # <<>>, NEW m, InLine(z, q), UpTo(q, m)
    PROVE  /\ InLine(z, Tail(q)) /\ UpTo(Tail(q), m) /\ Head(q) <= m
           /\ \A i \in 1 .. Len(Tail(q)) : Before(z, Head(q), Tail(q)[i])
<1> DEFINE w == Tail(q)
<1>1. /\ Head(q) = q[1] /\ 1 \in 1 .. Len(q)
      /\ \A i \in 1 .. Len(w) : i + 1 \in 1 .. Len(q) /\ 1 < i + 1 /\ w[i] = q[i + 1]
  BY SeqTail
<1>2. w \in Seq(Nat)
  BY SeqTail
<1> HIDE DEF w
<1>3. Head(q) <= m /\ UpTo(w, m)
  BY <1>1 DEF UpTo
<1>4. \A i \in 1 .. Len(w) : Before(z, Head(q), w[i])
  BY <1>1 DEF InLine
<1>5. ASSUME NEW i \in 1 .. Len(w), NEW j \in 1 .. Len(w), i < j PROVE Before(z, w[i], w[j])
  <2>1. i + 1 < j + 1
    BY <1>2, <1>5
  <2> QED BY <1>1, <2>1 DEF InLine
<1> QED BY <1>3, <1>4, <1>5 DEF InLine, w

\* Longer and shorter sequences behind and ahead of another one.
LEMMA AheadSteps ==
    ASSUME NEW z, NEW p \in Seq(Nat), NEW q \in Seq(Nat), Ahead(z, p, q)
    PROVE  /\ \A x \in Nat : (\A i \in 1 .. Len(p) : Before(z, p[i], x)) => Ahead(z, p, Append(q, x))
           /\ \A x \in Nat : (\A i \in 1 .. Len(q) : Before(z, x, q[i])) => Ahead(z, Append(p, x), q)
           /\ p # <<>> => Ahead(z, Tail(p), q) /\ \A i \in 1 .. Len(q) : Before(z, Head(p), q[i])
           /\ q # <<>> => Ahead(z, p, Tail(q)) /\ \A i \in 1 .. Len(p) : Before(z, p[i], Head(q))
<1>1. ASSUME NEW x \in Nat, \A i \in 1 .. Len(p) : Before(z, p[i], x) PROVE Ahead(z, p, Append(q, x))
  <2>1. \A i \in 1 .. Len(Append(q, x)) : \/ i \in 1 .. Len(q) /\ Append(q, x)[i] = q[i]
                                          \/ Append(q, x)[i] = x
    BY SeqAppend, Zenon
  <2> QED BY <1>1, <2>1, Zenon DEF Ahead
<1>2. ASSUME NEW x \in Nat, \A i \in 1 .. Len(q) : Before(z, x, q[i]) PROVE Ahead(z, Append(p, x), q)
  <2>1. \A i \in 1 .. Len(Append(p, x)) : \/ i \in 1 .. Len(p) /\ Append(p, x)[i] = p[i]
                                          \/ Append(p, x)[i] = x
    BY SeqAppend, Zenon
  <2> QED BY <1>2, <2>1, Zenon DEF Ahead
<1>3. ASSUME p # <<>> PROVE Ahead(z, Tail(p), q) /\ \A i \in 1 .. Len(q) : Before(z, Head(p), q[i])
  BY <1>3, SeqTail, Zenon DEF Ahead
<1>4. ASSUME q # <<>> PROVE Ahead(z, p, Tail(q)) /\ \A i \in 1 .. Len(p) : Before(z, p[i], Head(q))
  BY <1>4, SeqTail, Zenon DEF Ahead
<1> QED BY <1>1, <1>2, <1>3, <1>4

\* What Lines says, for the steps below.
LEMMA LinesParts ==
    ASSUME NEW z, NEW p, NEW q, NEW f, NEW m, Lines(z, p, q, f, m)
    PROVE  /\ p \in Seq(Nat) /\ q \in Seq(Nat) /\ f \in Seq(Nat) /\ m \in Nat
           /\ InLine(z, p) /\ InLine(z, q) /\ InLine(z, f)
           /\ Ahead(z, p, q) /\ Ahead(z, p, f) /\ Ahead(z, q, f)
           /\ UpTo(p, m) /\ UpTo(q, m) /\ UpTo(f, m)
           /\ m + 1 \in Nat
BY DEF Lines

\* A new number is above all others.
LEMMA AboveAll ==
    ASSUME NEW z, NEW q \in Seq(Nat), NEW m \in Nat, UpTo(q, m)
    PROVE  UpTo(q, m + 1) /\ \A i \in 1 .. Len(q) : Before(z, q[i], m + 1)
<1>1. \A i \in 1 .. Len(q) : q[i] \in Nat
  OBVIOUS
<1>2. \A i \in 1 .. Len(q) : q[i] <= m + 1 /\ q[i] < m + 1
  BY <1>1 DEF UpTo
<1> QED BY <1>2 DEF UpTo, Before

\* Numbers are used up; the next one goes to the end or is lost.
LEMMA LinesNext ==
    ASSUME NEW z, NEW p, NEW q, NEW f, NEW m, Lines(z, p, q, f, m)
    PROVE  /\ Lines(z, p, q, f, m + 1) /\ Lines(z, p, q, Append(f, m + 1), m + 1)
           /\ f = <<>> => Lines(z, p, Append(q, m + 1), f, m + 1)
<1>1. /\ p \in Seq(Nat) /\ q \in Seq(Nat) /\ f \in Seq(Nat) /\ m \in Nat
      /\ InLine(z, p) /\ InLine(z, q) /\ InLine(z, f)
      /\ Ahead(z, p, q) /\ Ahead(z, p, f) /\ Ahead(z, q, f)
      /\ UpTo(p, m) /\ UpTo(q, m) /\ UpTo(f, m) /\ m + 1 \in Nat
  BY LinesParts
<1>2. /\ UpTo(p, m + 1) /\ UpTo(q, m + 1) /\ UpTo(f, m + 1)
      /\ \A i \in 1 .. Len(p) : Before(z, p[i], m + 1)
      /\ \A i \in 1 .. Len(q) : Before(z, q[i], m + 1)
      /\ \A i \in 1 .. Len(f) : Before(z, f[i], m + 1)
  BY <1>1, AboveAll, Zenon
<1>3. Lines(z, p, q, f, m + 1)
  BY <1>1, <1>2 DEF Lines
<1>4. m + 1 <= m + 1
  BY <1>1
<1>5. /\ Append(f, m + 1) \in Seq(Nat) /\ InLine(z, Append(f, m + 1)) /\ UpTo(Append(f, m + 1), m + 1)
      /\ Append(q, m + 1) \in Seq(Nat) /\ InLine(z, Append(q, m + 1)) /\ UpTo(Append(q, m + 1), m + 1)
  BY <1>1, <1>2, <1>4, SeqAppend, LineAppend, Zenon
<1>6. Ahead(z, p, Append(f, m + 1)) /\ Ahead(z, q, Append(f, m + 1)) /\ Ahead(z, p, Append(q, m + 1))
  BY <1>1, <1>2, AheadSteps, Zenon
<1>7. f = <<>> => Ahead(z, Append(q, m + 1), f)
  BY DEF Ahead
<1> QED BY <1>1, <1>2, <1>3, <1>5, <1>6, <1>7, Zenon DEF Lines

\* The first of the last sequence is moved on, or lost.
LEMMA LinesMove ==
    ASSUME NEW z, NEW p, NEW q, NEW f, NEW m, Lines(z, p, q, f, m), f # <<>>
    PROVE  Lines(z, p, q, Tail(f), m) /\ Lines(z, p, Append(q, Head(f)), Tail(f), m)
<1>1. /\ p \in Seq(Nat) /\ q \in Seq(Nat) /\ f \in Seq(Nat) /\ m \in Nat
      /\ InLine(z, p) /\ InLine(z, q) /\ InLine(z, f)
      /\ Ahead(z, p, q) /\ Ahead(z, p, f) /\ Ahead(z, q, f)
      /\ UpTo(p, m) /\ UpTo(q, m) /\ UpTo(f, m)
  BY LinesParts
<1> DEFINE w == Tail(f)
           x == Head(f)
<1>2. /\ w \in Seq(Nat) /\ x \in Nat /\ InLine(z, w) /\ UpTo(w, m) /\ x <= m
      /\ \A i \in 1 .. Len(w) : Before(z, x, w[i])
  BY <1>1, SeqTail, LineTail, Zenon
<1>3. /\ Ahead(z, p, w) /\ Ahead(z, q, w)
      /\ \A i \in 1 .. Len(p) : Before(z, p[i], x)
      /\ \A i \in 1 .. Len(q) : Before(z, q[i], x)
  BY <1>1, AheadSteps, Zenon
<1> HIDE DEF w, x
<1>4. Append(q, x) \in Seq(Nat) /\ InLine(z, Append(q, x)) /\ UpTo(Append(q, x), m)
  BY <1>1, <1>2, <1>3, SeqAppend, LineAppend, Zenon
<1>5. Ahead(z, p, Append(q, x)) /\ Ahead(z, Append(q, x), w)
  BY <1>1, <1>2, <1>3, AheadSteps, Zenon
<1> QED BY <1>1, <1>2, <1>3, <1>4, <1>5, Zenon DEF Lines, w, x

\* The first of the middle sequence comes out.
LEMMA LinesOut ==
    ASSUME NEW z, NEW p, NEW q, NEW f, NEW m, Lines(z, p, q, f, m), q # <<>>
    PROVE  Lines(z, Append(p, Head(q)), Tail(q), f, m)
<1>1. /\ p \in Seq(Nat) /\ q \in Seq(Nat) /\ f \in Seq(Nat) /\ m \in Nat
      /\ InLine(z, p) /\ InLine(z, q) /\ InLine(z, f)
      /\ Ahead(z, p, q) /\ Ahead(z, p, f) /\ Ahead(z, q, f)
      /\ UpTo(p, m) /\ UpTo(q, m) /\ UpTo(f, m)
  BY LinesParts
<1> DEFINE w == Tail(q)
           x == Head(q)
<1>2. /\ w \in Seq(Nat) /\ x \in Nat /\ InLine(z, w) /\ UpTo(w, m) /\ x <= m
      /\ \A i \in 1 .. Len(w) : Before(z, x, w[i])
  BY <1>1, SeqTail, LineTail, Zenon
<1>3. /\ Ahead(z, p, w) /\ Ahead(z, w, f)
      /\ \A i \in 1 .. Len(p) : Before(z, p[i], x)
      /\ \A i \in 1 .. Len(f) : Before(z, x, f[i])
  BY <1>1, AheadSteps, Zenon
<1> HIDE DEF w, x
<1>4. Append(p, x) \in Seq(Nat) /\ InLine(z, Append(p, x)) /\ UpTo(Append(p, x), m)
  BY <1>1, <1>2, <1>3, SeqAppend, LineAppend, Zenon
<1>5. Ahead(z, Append(p, x), w) /\ Ahead(z, Append(p, x), f)
  BY <1>1, <1>2, <1>3, AheadSteps, Zenon
<1> QED BY <1>1, <1>2, <1>3, <1>4, <1>5, Zenon DEF Lines, w, x

\* A byte that is passed over may come anywhere, and sequences may be cleared.
LEMMA LinesOther ==
    ASSUME NEW z, NEW p, NEW q, NEW f, NEW m, Lines(z, p, q, f, m)
    PROVE  /\ Lines(z, p, <<>>, <<>>, m) /\ Lines(z, p, q, <<>>, m)
           /\ z = 0 => Lines(z, p, Append(q, 0), f, m)
<1>1. /\ p \in Seq(Nat) /\ q \in Seq(Nat) /\ f \in Seq(Nat) /\ m \in Nat
      /\ InLine(z, p) /\ InLine(z, q) /\ InLine(z, f)
      /\ Ahead(z, p, q) /\ Ahead(z, p, f) /\ Ahead(z, q, f)
      /\ UpTo(p, m) /\ UpTo(q, m) /\ UpTo(f, m)
  BY LinesParts
<1>2. <<>> \in Seq(Nat) /\ InLine(z, <<>>) /\ UpTo(<<>>, m) /\ Ahead(z, p, <<>>) /\ Ahead(z, q, <<>>)
      /\ Ahead(z, <<>>, <<>>)
  <2>1. <<>> \in Seq(Nat) /\ 1 .. Len(<<>>) = {}
    OBVIOUS
  <2> QED BY <2>1, Zenon DEF InLine, UpTo, Ahead
<1>3. Lines(z, p, <<>>, <<>>, m) /\ Lines(z, p, q, <<>>, m)
  BY <1>1, <1>2 DEF Lines
<1>4. ASSUME z = 0 PROVE Lines(z, p, Append(q, 0), f, m)
  <2>1. 0 \in Nat /\ 0 <= m /\ \A a : Before(z, 0, a) /\ Before(z, a, 0)
    BY <1>1, <1>4 DEF Before
  <2>2. Append(q, 0) \in Seq(Nat) /\ InLine(z, Append(q, 0)) /\ UpTo(Append(q, 0), m)
    BY <1>1, <2>1, SeqAppend, LineAppend, Zenon
  <2>3. Ahead(z, p, Append(q, 0)) /\ Ahead(z, Append(q, 0), f)
    BY <1>1, <2>1, AheadSteps, Zenon
  <2> QED BY <1>1, <2>2, <2>3, Zenon DEF Lines
<1> QED BY <1>3, <1>4

\* Two sequences joined.
LEMMA InLineJoin ==
    ASSUME NEW z, NEW p \in Seq(Nat), NEW q \in Seq(Nat), InLine(z, p), InLine(z, q), Ahead(z, p, q)
    PROVE  /\ InLine(z, p \o q) /\ p \o q \in Seq(Nat)
           /\ \A f : Ahead(z, p, f) /\ Ahead(z, q, f) => Ahead(z, p \o q, f)
<1> DEFINE a == p \o q
<1>1. a \in Seq(Nat) /\ Len(a) = Len(p) + Len(q)
  OBVIOUS
<1>2. \A i \in 1 .. Len(a) : a[i] = IF i <= Len(p) THEN p[i] ELSE q[i - Len(p)]
  OBVIOUS
<1>3. Len(p) \in Nat /\ Len(q) \in Nat
  OBVIOUS
<1> HIDE DEF a
<1>4. \A i \in 1 .. Len(a) : IF i <= Len(p) THEN i \in 1 .. Len(p) ELSE i - Len(p) \in 1 .. Len(q)
  BY <1>1, <1>3
<1>5. ASSUME NEW i \in 1 .. Len(a), NEW j \in 1 .. Len(a), i < j PROVE Before(z, a[i], a[j])
  <2>1. CASE j <= Len(p)
    <3>1. i <= Len(p)
      BY <1>3, <1>5, <2>1
    <3> QED BY <1>2, <1>4, <1>5, <2>1, <3>1 DEF InLine
  <2>2. CASE ~(i <= Len(p))
    <3>1. ~(j <= Len(p)) /\ i - Len(p) < j - Len(p)
      BY <1>3, <1>5, <2>2
    <3> QED BY <1>2, <1>4, <2>2, <3>1, Zenon DEF InLine
  <2>3. CASE i <= Len(p) /\ ~(j <= Len(p))
    BY <1>2, <1>4, <2>3, Zenon DEF Ahead
  <2> QED BY <2>1, <2>2, <2>3
<1>6. ASSUME NEW f, Ahead(z, p, f), Ahead(z, q, f) PROVE Ahead(z, a, f)
  BY <1>2, <1>4, <1>6, Zenon DEF Ahead
<1> QED BY <1>1, <1>5, <1>6, Zenon DEF InLine, a

\* The three sequences together.
LEMMA LinesJoined ==
    ASSUME NEW z, NEW p, NEW q, NEW f, NEW m, Lines(z, p, q, f, m)
    PROVE  InLine(z, p \o q \o f) /\ p \o q \o f \in Seq(Nat)
<1>1. /\ p \in Seq(Nat) /\ q \in Seq(Nat) /\ f \in Seq(Nat)
      /\ InLine(z, p) /\ InLine(z, q) /\ InLine(z, f)
      /\ Ahead(z, p, q) /\ Ahead(z, p, f) /\ Ahead(z, q, f)
  BY LinesParts
<1>2. InLine(z, p \o q) /\ p \o q \in Seq(Nat) /\ Ahead(z, p \o q, f)
  BY <1>1, InLineJoin, Zenon
<1> QED BY <1>1, <1>2, InLineJoin, Zenon

-----------------------------------------------------------------------------
(* Both directions of the UART. *)

\* Input: from the receive FIFO through the queue of stdin to the program.
InputInv == Lines(-1, taken, getQ, rxf, typed)

\* The thread has a byte that is not on its way yet.
HasByte == upc \in {"can_put", "put", "put_rd", "put_off", "push"}
Queueing == upc \in {"put_rd", "put_off", "push", "put_on", "put_en", "printing"}

\* Output: from the queue of stdout, or the thread, through the FIFO to the line.
OutputInv ==
    /\ printed \in Nat /\ (HasByte => printed # 0)
    /\ Lines(0, shown, txf, putQ, IF HasByte THEN printed - 1 ELSE printed)
    /\ Queueing => QueuedOutput
    /\ putQ # <<>> => Queueing

\* A byte that entered the transmit FIFO is there, or was sent.
EnteredInv == entered \subseteq Bytes(shown) \cup Bytes(txf)

\* A read of AUX_MU_IO takes the first byte, if there is one.
LEMMA ReadIoKeeps ==
    ASSUME NEW z, NEW p, NEW q, NEW f, NEW m, Lines(z, p, q, f, m)
    PROVE  Lines(z, p, q, ReadIo(f), m)
BY LinesMove, Zenon DEF ReadIo

\* Every step of the driver and of the device keeps the order of the input.
LEMMA InputKeeps == ASSUME InputInv, [UartNext]_uart_vars PROVE InputInv'
<1>1. CASE UNCHANGED <<taken, getQ, rxf, typed>>
  BY <1>1 DEF InputInv
<1>2. ASSUME UNCHANGED <<taken, getQ, typed>>, rxf' = ReadIo(rxf) PROVE InputInv'
  BY <1>2, ReadIoKeeps DEF InputInv
<1>3. CASE Type
  <2>1. UNCHANGED <<taken, getQ>> /\ typed' = typed + 1 /\ rxf' \in {rxf, Append(rxf, typed + 1)}
    BY <1>3 DEF Type, WriteIo
  <2> QED BY <2>1, LinesNext, Zenon DEF InputInv
<1>4. CASE IsrTx
  BY <1>1, <1>2, <1>4 DEF IsrTx, Put, uart_hist
<1>5. CASE IsrRx
  <2>1. CASE uart_has_data /\ Len(getQ) < UQueue
    <3>1. /\ rxf # <<>> /\ UNCHANGED <<taken, typed>>
          /\ getQ' = Append(getQ, Head(rxf)) /\ rxf' = ReadIo(Tail(rxf))
      BY <1>5, <2>1 DEF IsrRx, Get, uart_has_data, uart_hist, ReadIo
    <3>2. Lines(-1, taken, Append(getQ, Head(rxf)), Tail(rxf), typed)
      BY <3>1, LinesMove DEF InputInv
    <3> QED BY <3>1, <3>2, ReadIoKeeps DEF InputInv
  <2>2. CASE ~(uart_has_data /\ Len(getQ) < UQueue)
    BY <1>1, <1>5, <2>2 DEF IsrRx, uart_hist
  <2> QED BY <2>1, <2>2
<1>6. CASE PopIn
  <2>1. CASE getQ = <<>>
    BY <1>1, <1>6, <2>1 DEF PopIn, uart_dev
  <2>2. CASE getQ # <<>>
    <3>1. /\ UNCHANGED <<rxf, typed>>
          /\ getQ' = Tail(getQ) /\ taken' = Append(taken, Head(getQ))
      BY <1>6, <2>2 DEF PopIn, uart_dev
    <3> QED BY <2>2, <3>1, LinesOut DEF InputInv
  <2> QED BY <2>1, <2>2
<1>7. CASE uart_init_int
  <2>1. UNCHANGED <<taken, typed>> /\ getQ' = <<>> /\ rxf' = <<>>
    BY <1>7 DEF uart_init_int, uart_hist
  <2> QED BY <2>1, LinesOther DEF InputInv
<1>8. CASE uart_init
  <2>1. UNCHANGED <<taken, typed, getQ>> /\ rxf' = <<>>
    BY <1>8 DEF uart_init, uart_hist
  <2> QED BY <2>1, LinesOther DEF InputInv
<1>9. CASE uart_put8
  BY <1>2, <1>9 DEF uart_put8, Put, uart_hist
<1>10. CASE \/ Transmit \/ IsrStart \/ Putchar \/ CanPut \/ WaitStdoutDone \/ Scank \/ EndStdinCall
            \/ uart_reset_int_off \/ UNCHANGED uart_vars
  BY <1>1, <1>10, Zenon DEF Transmit, IsrStart, Putchar, CanPut, WaitStdoutDone, Scank, EndStdinCall,
                     uart_reset_int_off, uart_vars, uart_dev, uart_hist
<1>11. ASSUME NEW a, NEW b, NEW i,
              ReadIer(a, b) \/ uart_disable_interrupt(a, i, b) \/ uart_enable_interrupt(a, i, b) \/ PushOut
       PROVE  InputInv'
  BY <1>1, <1>11 DEF ReadIer, uart_disable_interrupt, uart_enable_interrupt, PushOut, uart_dev, uart_hist
<1> QED
  BY <1>3, <1>4, <1>5, <1>6, <1>7, <1>8, <1>9, <1>10, <1>11, Zenon
     DEF UartNext, Isr, UThread, uart_putc_int, uart_getc_int

\* A step that moves no byte to be shown.
LEMMA OutputFrame ==
    ASSUME OutputInv, UNCHANGED <<printed, shown, txf, putQ>>, HasByte' <=> HasByte,
           Queueing' => QueuedOutput', putQ # <<>> => Queueing'
    PROVE  OutputInv'
BY DEF OutputInv

\* A step that moves such bytes and leaves the thread where it is.
LEMMA OutputMoves ==
    ASSUME OutputInv, UNCHANGED <<printed, upc, stage, out_int>>,
           \A m : Lines(0, shown, txf, putQ, m) => Lines(0, shown', txf', putQ', m),
           putQ' # <<>> => putQ # <<>>
    PROVE  OutputInv'
<1>1. (HasByte' <=> HasByte) /\ (Queueing' <=> Queueing) /\ (QueuedOutput' <=> QueuedOutput)
  BY DEF HasByte, Queueing, QueuedOutput
<1>2. Lines(0, shown, txf, putQ, IF HasByte THEN printed - 1 ELSE printed)
  BY DEF OutputInv
<1>3. Lines(0, shown', txf', putQ', IF HasByte THEN printed - 1 ELSE printed)
  BY <1>2, Zenon
<1> QED BY <1>1, <1>3 DEF OutputInv

\* Every step of the driver and of the device keeps the order of the output.
LEMMA OutputKeeps == ASSUME OutputInv, [UartNext]_uart_vars PROVE OutputInv'
<1>0. /\ printed \in Nat /\ (HasByte => printed # 0)
      /\ Lines(0, shown, txf, putQ, IF HasByte THEN printed - 1 ELSE printed)
      /\ (Queueing => QueuedOutput) /\ (putQ # <<>> => Queueing)
  BY DEF OutputInv
<1>1. CASE Transmit
  <2>1. /\ txf # <<>> /\ UNCHANGED <<printed, upc, stage, out_int, putQ>>
        /\ txf' = Tail(txf) /\ shown' = Append(shown, Head(txf))
    BY <1>1 DEF Transmit, uart_hist
  <2>2. \A m : Lines(0, shown, txf, putQ, m) => Lines(0, shown', txf', putQ', m)
    BY <2>1, LinesOut, Zenon
  <2> QED BY <2>1, <2>2, OutputMoves
<1>2. CASE IsrRx
  <2>1. UNCHANGED <<printed, upc, stage, out_int, putQ, shown>> /\ txf' \in {txf, Append(txf, 0)}
    BY <1>2 DEF IsrRx, Get, WriteIo, uart_hist
  <2>2. \A m : Lines(0, shown, txf, putQ, m) => Lines(0, shown', txf', putQ', m)
    BY <2>1, LinesOther, Zenon
  <2> QED BY <2>1, <2>2, OutputMoves
<1>3. CASE IsrTx
  <2>1. UNCHANGED <<printed, upc, stage, out_int, shown>>
    BY <1>3 DEF IsrTx, uart_hist
  <2>2. \/ UNCHANGED <<txf, putQ>>
        \/ putQ # <<>> /\ txf' = Append(txf, Head(putQ)) /\ putQ' = Tail(putQ)
    BY <1>3 DEF IsrTx, Put, WriteIo, uart_can_put8
  <2>3. \A m : Lines(0, shown, txf, putQ, m) => Lines(0, shown', txf', putQ', m)
    BY <2>1, <2>2, LinesMove, Zenon
  <2> QED BY <2>1, <2>2, <2>3, OutputMoves
<1>4. CASE Putchar
  <2>1. /\ upc \in {"idle", "printing"} /\ UNCHANGED <<shown, txf, putQ, stage, out_int>>
        /\ printed' = printed + 1 /\ upc' = IF QueuedOutput THEN "put_rd" ELSE "can_put"
    BY <1>4 DEF Putchar, At, uart_dev
  <2>2. ~HasByte /\ HasByte' /\ (Queueing' <=> QueuedOutput) /\ (QueuedOutput' <=> QueuedOutput)
    BY <2>1 DEF HasByte, Queueing, QueuedOutput
  <2>3. printed' \in Nat /\ printed' # 0 /\ printed' - 1 = printed
    BY <1>0, <2>1
  <2> QED BY <1>0, <2>1, <2>2, <2>3 DEF OutputInv
<1>5. CASE uart_put8
  <2>1. /\ upc = "put" /\ upc' = "idle" /\ UNCHANGED <<printed, shown, putQ, stage, out_int>>
        /\ txf' \in {txf, Append(txf, printed)}
    BY <1>5 DEF uart_put8, At, Put, WriteIo, uart_hist
  <2>2. HasByte /\ ~Queueing /\ ~HasByte' /\ ~Queueing'
    BY <2>1 DEF HasByte, Queueing
  <2>3. putQ = <<>> /\ (printed - 1) + 1 = printed /\ Lines(0, shown, txf, putQ, printed - 1)
    BY <1>0, <2>2
  <2>4. Lines(0, shown, txf', putQ, printed)
    BY <2>1, <2>3, LinesNext, Zenon
  <2> QED BY <1>0, <2>1, <2>2, <2>3, <2>4 DEF OutputInv
<1>6. CASE PushOut
  <2>1. /\ upc = "push" /\ upc' = "put_on" /\ UNCHANGED <<printed, shown, txf, stage, out_int>>
        /\ putQ' \in {putQ, Append(putQ, printed)}
    BY <1>6 DEF PushOut, At, uart_dev, uart_hist
  <2>2. HasByte /\ Queueing /\ ~HasByte' /\ Queueing' /\ (QueuedOutput' <=> QueuedOutput)
    BY <2>1 DEF HasByte, Queueing, QueuedOutput
  <2>3. (printed - 1) + 1 = printed /\ Lines(0, shown, txf, putQ, printed - 1)
    BY <1>0, <2>2
  <2>4. Lines(0, shown, txf, putQ', printed)
    BY <2>1, <2>3, LinesNext, Zenon
  <2> QED BY <1>0, <2>1, <2>2, <2>4 DEF OutputInv
<1>7. CASE uart_init_int
  <2>1. /\ upc = "idle" /\ UNCHANGED <<upc, printed, shown>> /\ txf' = <<>> /\ putQ' = <<>>
    BY <1>7 DEF uart_init_int, uart_hist
  <2>2. ~HasByte /\ ~HasByte' /\ ~Queueing'
    BY <2>1 DEF HasByte, Queueing
  <2>3. Lines(0, shown, <<>>, <<>>, printed)
    BY <1>0, <2>2, LinesOther
  <2> QED BY <1>0, <2>1, <2>2, <2>3 DEF OutputInv
<1>8. CASE uart_init
  <2>1. /\ stage = "reset" /\ txf = <<>> /\ txf' = <<>> /\ UNCHANGED <<upc, printed, shown, putQ>>
    BY <1>8 DEF uart_init, uart_tx_is_empty, uart_hist
  <2>2. ~Queueing /\ ~Queueing' /\ (HasByte' <=> HasByte)
    BY <1>0, <2>1 DEF Queueing, HasByte, QueuedOutput
  <2> QED BY <1>0, <2>1, <2>2, OutputFrame
<1>9. CASE uart_reset_int_off \/ EndStdinCall \/ Scank \/ WaitStdoutDone \/ CanPut
  <2>1. UNCHANGED <<printed, shown, txf, putQ>>
    BY <1>9 DEF uart_reset_int_off, EndStdinCall, Scank, WaitStdoutDone, CanPut, uart_dev, uart_hist
  <2>2. /\ HasByte' <=> HasByte
        /\ ~Queueing'
        /\ Queueing => putQ = <<>>
    BY <1>9 DEF uart_reset_int_off, EndStdinCall, Scank, WaitStdoutDone, CanPut, At, HasByte, Queueing
  <2> QED BY <1>0, <2>1, <2>2, OutputFrame
<1>10. CASE IsrStart \/ UNCHANGED uart_vars
  <2>1. UNCHANGED <<printed, shown, txf, putQ, upc, stage, out_int>>
    BY <1>10 DEF IsrStart, uart_vars, uart_dev, uart_hist
  <2> QED BY <2>1, OutputMoves
<1>11. CASE Type \/ PopIn
  <2>1. UNCHANGED <<printed, shown, txf, putQ, stage, out_int>>
    BY <1>11 DEF Type, PopIn, uart_dev, uart_hist
  <2>2. (HasByte' <=> HasByte) /\ (Queueing' <=> Queueing) /\ (QueuedOutput' <=> QueuedOutput)
    BY <1>11 DEF Type, PopIn, At, HasByte, Queueing, QueuedOutput
  <2> QED BY <1>0, <2>1, <2>2, OutputFrame
<1>12. ASSUME NEW a, NEW b, NEW i,
              ReadIer(a, b) \/ uart_disable_interrupt(a, i, b) \/ uart_enable_interrupt(a, i, b),
              \/ a \in {"get_rd", "get_off", "get_on", "get_en", "got_on", "got_en"}
                 /\ b \in {"get_off", "pop", "get_en", "get_rd", "got_en", "end_stdin"}
              \/ a \in {"put_rd", "put_off"} /\ b \in {"put_off", "push"}
              \/ a \in {"put_on", "put_en"} /\ b \in {"put_en", "printing"}
       PROVE  OutputInv'
  <2>1. UNCHANGED <<printed, shown, txf, putQ, stage, out_int>> /\ upc = a /\ upc' = b
    BY <1>12 DEF ReadIer, uart_disable_interrupt, uart_enable_interrupt, At, uart_dev, uart_hist
  <2>2. (HasByte' <=> HasByte) /\ (Queueing' <=> Queueing) /\ (QueuedOutput' <=> QueuedOutput)
    BY <1>12, <2>1 DEF HasByte, Queueing, QueuedOutput
  <2> QED BY <1>0, <2>1, <2>2, OutputFrame
<1>13. CASE uart_putc_int
  BY <1>6, <1>12, <1>13 DEF uart_putc_int
<1>14. CASE uart_getc_int
  BY <1>11, <1>12, <1>14 DEF uart_getc_int
<1> QED
  BY <1>1, <1>2, <1>3, <1>4, <1>5, <1>7, <1>8, <1>9, <1>10, <1>11, <1>13, <1>14, Zenon
     DEF UartNext, Isr, UThread

\* The bytes of a sequence with one more, and of one without its first.
LEMMA BytesSteps ==
    ASSUME NEW q \in Seq(Nat)
    PROVE  /\ \A x \in Nat : Bytes(Append(q, x)) = Bytes(q) \cup {x}
           /\ q # <<>> => Bytes(q) = {Head(q)} \cup Bytes(Tail(q))
<1>1. ASSUME NEW x \in Nat PROVE Bytes(Append(q, x)) = Bytes(q) \cup {x}
  <2> DEFINE a == Append(q, x)
  <2>1. /\ \A i \in 1 .. Len(q) : i \in 1 .. Len(a) /\ a[i] = q[i]
        /\ \A i \in 1 .. Len(a) : (i \in 1 .. Len(q) /\ a[i] = q[i]) \/ a[i] = x
    BY SeqAppend, Zenon
  <2>2. Len(q) + 1 \in 1 .. Len(a) /\ a[Len(q) + 1] = x
    OBVIOUS
  <2> HIDE DEF a
  <2>3. Bytes(a) = Bytes(q) \cup {x}
    BY <2>1, <2>2 DEF Bytes
  <2> QED BY <2>3 DEF a
<1>2. ASSUME q # <<>> PROVE Bytes(q) = {Head(q)} \cup Bytes(Tail(q))
  <2> DEFINE w == Tail(q)
  <2>1. /\ Head(q) = q[1] /\ 1 \in 1 .. Len(q)
        /\ \A i \in 1 .. Len(w) : i + 1 \in 1 .. Len(q) /\ w[i] = q[i + 1]
    BY <1>2, SeqTail
  <2>2. \A i \in 1 .. Len(q) : i = 1 \/ (i - 1 \in 1 .. Len(w) /\ w[i - 1] = q[i])
    <3>1. Len(w) = Len(q) - 1 /\ Len(q) \in Nat
      BY <1>2
    <3>2. \A i \in 1 .. Len(q) : i = 1 \/ i - 1 \in 1 .. Len(w)
      <4> HIDE DEF w
      <4> QED BY <3>1
    <3> HIDE DEF w
    <3>3. ASSUME NEW i \in 1 .. Len(q), i - 1 \in 1 .. Len(w) PROVE w[i - 1] = q[i]
      <4>1. (i - 1) + 1 = i
        BY <3>1
      <4> QED BY <2>1, <3>3, <4>1
    <3> QED BY <3>2, <3>3
  <2> HIDE DEF w
  <2>3. ASSUME NEW x \in Bytes(q) PROVE x \in {Head(q)} \cup Bytes(w)
    <3>1. PICK i \in 1 .. Len(q) : x = q[i]
      BY DEF Bytes
    <3>2. i = 1 => x = Head(q)
      BY <2>1, <3>1
    <3>3. i # 1 => x \in Bytes(w)
      BY <2>2, <3>1, Zenon DEF Bytes
    <3> QED BY <3>2, <3>3
  <2>4. Head(q) \in Bytes(q) /\ Bytes(w) \subseteq Bytes(q)
    BY <2>1 DEF Bytes
  <2> QED BY <2>3, <2>4 DEF w
<1> QED BY <1>1, <1>2

\* No byte leaves the transmit FIFO but to the line, except before the threads.
LEMMA EnteredKeeps == ASSUME OutputInv, EnteredInv, [UartNext]_uart_vars PROVE EnteredInv'
<1>0. txf \in Seq(Nat) /\ shown \in Seq(Nat) /\ putQ \in Seq(Nat) /\ printed \in Nat
  BY DEF OutputInv, Lines
<1>1. CASE UNCHANGED <<shown, txf, entered>>
  BY <1>1 DEF EnteredInv
<1>2. ASSUME NEW c \in Nat, Put(c), shown' = shown PROVE EnteredInv'
  <2>1. txf' \in {txf, Append(txf, c)} /\ entered' = entered \cup (Bytes(txf') \ {0})
    BY <1>2 DEF Put, WriteIo
  <2>2. Bytes(txf) \subseteq Bytes(txf')
    <3>1. Bytes(Append(txf, c)) = Bytes(txf) \cup {c}
      BY <1>0, <1>2, BytesSteps, Zenon
    <3> QED BY <2>1, <3>1, Zenon
  <2>3. Bytes(txf)' = Bytes(txf') /\ Bytes(shown)' = Bytes(shown)
    BY <1>2 DEF Bytes
  <2> QED BY <2>1, <2>2, <2>3 DEF EnteredInv
<1>3. CASE Transmit
  <2>1. txf # <<>> /\ txf' = Tail(txf) /\ shown' = Append(shown, Head(txf)) /\ entered' = entered
    BY <1>3 DEF Transmit
  <2>2. Head(txf) \in Nat
    BY <1>0, <2>1, SeqTail
  <2>3. Bytes(txf) = {Head(txf)} \cup Bytes(txf') /\ Bytes(shown') = Bytes(shown) \cup {Head(txf)}
    BY <1>0, <2>1, <2>2, BytesSteps
  <2>4. Bytes(txf)' = Bytes(txf') /\ Bytes(shown)' = Bytes(shown')
    BY DEF Bytes
  <2> QED BY <2>1, <2>3, <2>4 DEF EnteredInv
<1>4. CASE IsrRx
  <2>1. txf' \in {txf, Append(txf, 0)} /\ entered' = entered /\ shown' = shown
    BY <1>4 DEF IsrRx, Get, WriteIo
  <2>2. Bytes(txf) \subseteq Bytes(txf')
    <3>1. 0 \in Nat
      OBVIOUS
    <3>2. Bytes(Append(txf, 0)) = Bytes(txf) \cup {0}
      BY <1>0, <3>1, BytesSteps, Zenon
    <3> QED BY <2>1, <3>2, Zenon
  <2>3. Bytes(txf)' = Bytes(txf') /\ Bytes(shown)' = Bytes(shown)
    BY <2>1 DEF Bytes
  <2> QED BY <2>1, <2>2, <2>3 DEF EnteredInv
<1>5. CASE IsrTx
  <2>1. UNCHANGED <<shown, txf, entered>> \/ (putQ # <<>> /\ Put(Head(putQ)) /\ shown' = shown)
    BY <1>5 DEF IsrTx
  <2>2. putQ # <<>> => Head(putQ) \in Nat
    BY <1>0, SeqTail
  <2> QED BY <1>1, <1>2, <2>1, <2>2
<1>6. CASE uart_put8
  BY <1>0, <1>2, <1>6 DEF uart_put8
<1>7. CASE uart_init_int
  BY <1>7 DEF uart_init_int, EnteredInv
<1>8. CASE uart_init
  <2>1. txf = <<>> /\ UNCHANGED <<shown, txf, entered>>
    BY <1>8 DEF uart_init, uart_tx_is_empty
  <2> QED BY <1>1, <2>1
<1>9. CASE \/ Type \/ IsrStart \/ Putchar \/ CanPut \/ WaitStdoutDone \/ Scank \/ EndStdinCall \/ PopIn
           \/ uart_reset_int_off \/ UNCHANGED uart_vars
  BY <1>1, <1>9, ZenonT(60) DEF Type, IsrStart, Putchar, CanPut, WaitStdoutDone, Scank, EndStdinCall, PopIn,
                    uart_reset_int_off, uart_vars, uart_dev
<1>10. ASSUME NEW a, NEW b, NEW i,
              ReadIer(a, b) \/ uart_disable_interrupt(a, i, b) \/ uart_enable_interrupt(a, i, b) \/ PushOut
       PROVE  EnteredInv'
  BY <1>1, <1>10 DEF ReadIer, uart_disable_interrupt, uart_enable_interrupt, PushOut, uart_dev
<1> QED
  BY <1>3, <1>4, <1>5, <1>6, <1>7, <1>8, <1>9, <1>10, Zenon
     DEF UartNext, Isr, UThread, uart_putc_int, uart_getc_int

\* uart.c and uart-interrupt.c: for FIFOs and queues of every size, bytes keep
\* their order from the line to the program and from the program to the line
\* through the interrupt handler, which may come between any two steps of the
\* thread; the change back to polling loses no byte that was in the FIFO.
THEOREM UartRightHolds == UartSpec => []UartRight
<1>1. UartInit => InputInv /\ OutputInv /\ EnteredInv
  <2> SUFFICES ASSUME UartInit PROVE InputInv /\ OutputInv /\ EnteredInv
    OBVIOUS
  <2>1. /\ taken = <<>> /\ getQ = <<>> /\ rxf = <<>> /\ typed = 0
        /\ shown = <<>> /\ txf = <<>> /\ putQ = <<>> /\ printed = 0
        /\ upc = "idle" /\ entered = {}
    BY DEF UartInit
  <2>2. \A z : Lines(z, <<>>, <<>>, <<>>, 0)
    BY DEF Lines, InLine, Ahead, UpTo
  <2>3. ~HasByte /\ ~Queueing
    BY <2>1 DEF HasByte, Queueing
  <2> QED BY <2>1, <2>2, <2>3 DEF InputInv, OutputInv, EnteredInv
<1>2. InputInv /\ OutputInv /\ EnteredInv /\ [UartNext]_uart_vars
        => InputInv' /\ OutputInv' /\ EnteredInv'
  BY InputKeeps, OutputKeeps, EnteredKeeps
<1>3. InputInv => InputInOrder
  <2> SUFFICES ASSUME InputInv PROVE Rising(taken \o getQ \o rxf)
    BY DEF InputInOrder
  <2> DEFINE s == taken \o getQ \o rxf
  <2>1. InLine(-1, s) /\ s \in Seq(Nat)
    BY LinesJoined DEF InputInv
  <2> HIDE DEF s
  <2>2. \A i \in 1 .. Len(s) : s[i] \in Nat /\ s[i] # -1
    BY <2>1
  <2>3. Rising(s)
    BY <2>1, <2>2 DEF InLine, Before, Rising
  <2> QED BY <2>3 DEF s
<1>4. OutputInv => OutputInOrder
  <2> SUFFICES ASSUME OutputInv PROVE OutputInOrder
    OBVIOUS
  <2>1. InLine(0, shown \o txf \o putQ)
    BY LinesJoined DEF OutputInv
  <2> QED BY <2>1 DEF InLine, Before, OutputInOrder
<1>5. EnteredInv => FlushedAtReset
  BY DEF EnteredInv, FlushedAtReset
<1> QED BY <1>1, <1>2, <1>3, <1>4, <1>5, PTL DEF UartSpec, UartRight

-----------------------------------------------------------------------------
(* Start-up (Boot). *)

\* A flag is set exactly when its device was set up, an interrupt that is enabled
\* has a handler, and a radio set up after the vectors keeps its interrupt.
BootInv ==
    /\ done \in [{"mount", "heap", "vector"} -> Nat]
    /\ done["mount"] = IF Unset("fat32") THEN 0 ELSE 1
    /\ done["heap"] = IF Unset("kmalloc") THEN 0 ELSE 1
    /\ done["vector"] = IF Unset("int_vector") THEN 0 ELSE 1
    /\ vector \in BOOLEAN /\ (vector <=> ~Unset("int_vector"))
    /\ masked \in BOOLEAN /\ (~masked => vector)
    /\ irq \subseteq handler_ptr
    /\ late # {} => vector /\ "gpio" \in irq

\* dfs_init_master, dfs_init_chunkserver and dfs_init_client.
LEMMA StartServerKeeps ==
    ASSUME BootInv, NEW s \in Side, NEW has_fs \in BOOLEAN, StartServer(s, has_fs)
    PROVE  BootInv'
<1> DEFINE n == IF Unset("nrf1") THEN 1 ELSE IF Unset("nrf2") THEN 2 ELSE 0
<1>0. UNCHANGED <<vector, masked>>
  BY DEF StartServer
<1>1. PICK flags \in SUBSET {"nrf1", "nrf2"} : fat32_init(has_fs, flags)
  <2>1. fat32_init(has_fs, IF n = 1 THEN {"nrf1"} ELSE {"nrf1", "nrf2"})
    BY Zenon DEF StartServer, InitRadio
  <2>2. (IF n = 1 THEN {"nrf1"} ELSE {"nrf1", "nrf2"}) \in SUBSET {"nrf1", "nrf2"}
    OBVIOUS
  <2> QED BY <2>1, <2>2, Zenon
<1>2. Unset("int_vector")' <=> Unset("int_vector")
  BY <1>1 DEF fat32_init, Unset
<1>3. /\ irq' \subseteq handler_ptr'
      /\ late' # {} => vector /\ "gpio" \in irq'
  BY DEF StartServer, InitRadio, BootInv
<1>4. /\ done' \in [{"mount", "heap", "vector"} -> Nat]
      /\ done'["mount"] = IF Unset("fat32")' THEN 0 ELSE 1
      /\ done'["heap"] = IF Unset("kmalloc")' THEN 0 ELSE 1
      /\ done'["vector"] = done["vector"]
  <2>1. CASE has_fs
    <3>1. /\ done' = [done EXCEPT !["mount"] = IF Unset("fat32") THEN @ + 1 ELSE @,
                                  !["heap"] = IF Unset("kmalloc") THEN @ + 1 ELSE @]
          /\ ~Unset("fat32")' /\ ~Unset("kmalloc")'
      BY <1>1, <2>1 DEF fat32_init, FoundUnset, Unset
    <3>2. done["mount"] \in Nat /\ done["heap"] \in Nat
      BY DEF BootInv
    <3>3. /\ done' \in [{"mount", "heap", "vector"} -> Nat] /\ done'["vector"] = done["vector"]
          /\ done'["mount"] = IF Unset("fat32") THEN done["mount"] + 1 ELSE done["mount"]
          /\ done'["heap"] = IF Unset("kmalloc") THEN done["heap"] + 1 ELSE done["heap"]
      BY <3>1, <3>2 DEF BootInv
    <3> QED BY <3>1, <3>3 DEF BootInv
  <2>2. CASE ~has_fs
    <3>1. done' = done /\ (Unset("fat32")' <=> Unset("fat32")) /\ (Unset("kmalloc")' <=> Unset("kmalloc"))
      BY <1>1, <2>2 DEF fat32_init, Unset
    <3> QED BY <3>1 DEF BootInv
  <2> QED BY <2>1, <2>2
<1> QED BY <1>0, <1>2, <1>3, <1>4 DEF BootInv

\* pre_thread_start: the vectors are written once, with the timer's and the
\* UART's handlers, and a second start leaves the pins' interrupts alone.
LEMMA ThreadStartKeeps == ASSUME BootInv, pre_thread_start PROVE BootInv'
<1>1. /\ vector' = TRUE /\ masked' = FALSE /\ late' = late
      /\ handler_ptr' = handler_ptr \cup {"timer", "uart"}
      /\ ready' = ready \cup {"int_vector", "uart", "kmalloc"}
  BY DEF pre_thread_start, register_handlers
<1>2. irq' \subseteq irq \cup {"timer", "uart"} /\ (~Unset("int_vector") => irq \subseteq irq')
  BY DEF pre_thread_start, int_vec_init
<1>3. done' = [done EXCEPT !["vector"] = @ + IF Unset("int_vector") THEN 1 ELSE 0,
                           !["heap"] = IF Unset("kmalloc") THEN @ + 1 ELSE @]
  BY DEF pre_thread_start, int_vec_init
<1>4. /\ ~Unset("int_vector")' /\ ~Unset("kmalloc")' /\ (Unset("fat32")' <=> Unset("fat32"))
  BY <1>1 DEF Unset
<1>5. /\ done' \in [{"mount", "heap", "vector"} -> Nat]
      /\ done'["mount"] = done["mount"] /\ done'["heap"] = 1 /\ done'["vector"] = 1
  BY <1>3 DEF BootInv
<1> QED BY <1>1, <1>2, <1>4, <1>5, ZenonT(60) DEF BootInv

\* Start-up in global.c, thread.c and the dfs_init_* functions: in every order in
\* which servers and threads are started, and however often, nothing is set up
\* twice, no interrupt is enabled that has no handler, and a radio set up in a
\* thread keeps its interrupt.
THEOREM StartUpSoundHolds == BootSpec => []StartUpSound
<1>1. ASSUME BootInit PROVE BootInv
  <2>1. Unset("fat32") /\ Unset("kmalloc") /\ Unset("int_vector")
    BY <1>1 DEF BootInit, Unset
  <2>2. /\ done \in [{"mount", "heap", "vector"} -> Nat]
        /\ done["mount"] = 0 /\ done["heap"] = 0 /\ done["vector"] = 0
    BY <1>1 DEF BootInit
  <2>3. vector = FALSE /\ masked = TRUE /\ irq = {} /\ late = {}
    BY <1>1 DEF BootInit
  <2> QED BY <2>1, <2>2, <2>3, Zenon DEF BootInv
<1>2. BootInv /\ [BootNext]_boot_vars => BootInv'
  <2> SUFFICES ASSUME BootInv, [BootNext]_boot_vars PROVE BootInv'
    OBVIOUS
  <2>1. CASE ThreadsEnd
    BY <2>1 DEF ThreadsEnd, BootInv, Unset
  <2>2. CASE UNCHANGED boot_vars
    BY <2>2 DEF boot_vars, BootInv, Unset
  <2> QED BY <2>1, <2>2, StartServerKeeps, ThreadStartKeeps DEF BootNext
<1>3. BootInv => StartUpSound
  BY DEF BootInv, StartUpSound, HandlersReady, SetUpOnce, LateRadioHeard
<1> QED BY <1>1, <1>2, <1>3, PTL DEF BootSpec
=============================================================================
