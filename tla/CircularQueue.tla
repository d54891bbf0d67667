--------------------------- MODULE CircularQueue ---------------------------
(***************************************************************************)
(* The lock-free circular queue of libpi/libc/circular.h, as the radio     *)
(* driver uses it: an interrupt handler pushes whole packets of PktLen     *)
(* bytes with cq_push_n and a thread pops whole packets with cq_pop_n once *)
(* cq_nelem says enough bytes are there.  The same code carries the UART   *)
(* queues with the roles of interrupt and thread swapped, so both sides    *)
(* are split at the memory accesses the comments of the code order ("must  *)
(* occur in order"), and either may be interrupted by the other there.     *)
(***************************************************************************)
EXTENDS Integers, Sequences

CONSTANTS
    CQ_N,      \* number of slots
    Word,      \* 2^32: unsigned arithmetic is modulo Word
    Byte,      \* values of a slot
    PktLen,    \* n->config.nbytes, the size of every packet
    MaxBytes   \* bound on the bytes pushed in a behaviour

\* cq_nelem is right only if the word wraps at a multiple of the ring size.
ASSUME QueueAssumption ==
    /\ CQ_N \in Nat /\ CQ_N > 1
    /\ Word \in Nat /\ Word > 0
    /\ \E k \in 0 .. Word : Word = CQ_N * k
    /\ PktLen \in Nat /\ PktLen > 0
    /\ MaxBytes \in Nat
    /\ 0 \in Byte

VARIABLES
    c_buf, head, tail,   \* the cq_t
    ppc, pkt, pi,        \* producer: next step, packet being pushed, bytes of it done
    cpc, ci, ce,         \* consumer: next step, bytes of the packet popped, byte read
    pushed, popped       \* history: bytes published and bytes taken

queue == <<c_buf, head, tail>>
producer == <<ppc, pkt, pi>>
consumer == <<cpc, ci, ce>>
vars == <<queue, producer, consumer, pushed, popped>>

Slots == 0 .. CQ_N - 1
Packet == [1 .. PktLen -> Byte]

cq_empty == head = tail
cq_full == (head + 1) % CQ_N = tail

cq_nelem == ((head - tail) % Word) % CQ_N
cq_nspace == (CQ_N - 1) - cq_nelem

Init ==
    /\ c_buf = [s \in Slots |-> 0] /\ head = 0 /\ tail = 0
    /\ ppc = "idle" /\ pkt = [i \in 1 .. PktLen |-> 0] /\ pi = 0
    /\ cpc = "idle" /\ ci = 0 /\ ce = 0
    /\ pushed = << >> /\ popped = << >>

-----------------------------------------------------------------------------
(* Producer: cq_push_n. *)

\* Mutant: cq_push_n only asks for one free slot.
RejectsOnlyFull == cq_nspace = 0

\* A packet is refused whole when it does not fit; the caller in
\* nrf_handle_intr ignores the result.
push_n_rejects == cq_nspace < PktLen

PushDrop ==
    /\ ppc = "idle" /\ push_n_rejects
    /\ UNCHANGED vars

PushStart(p) ==
    /\ ppc = "idle" /\ ~push_n_rejects
    /\ Len(pushed) + PktLen <= MaxBytes
    /\ ppc' = "write" /\ pkt' = p /\ pi' = 0
    /\ UNCHANGED <<queue, consumer, pushed, popped>>

\* cq_push up to the store into the slot.
PushWrite ==
    /\ ppc = "write" /\ ~cq_full
    /\ c_buf' = [c_buf EXCEPT ![head] = pkt[pi + 1]]
    /\ ppc' = "publish"
    /\ UNCHANGED <<head, tail, pkt, pi, consumer, pushed, popped>>

\* cq_push from the barrier on: moving head publishes the byte.
PushPublish ==
    /\ ppc = "publish"
    /\ head' = (head + 1) % CQ_N
    /\ pushed' = Append(pushed, pkt[pi + 1])
    /\ pi' = pi + 1
    /\ ppc' = IF pi + 1 = PktLen THEN "idle" ELSE "write"
    /\ UNCHANGED <<c_buf, tail, pkt, consumer, popped>>

-----------------------------------------------------------------------------
(* Consumer: nrf_read_exact_noblk and cq_pop_n. *)

\* The guard of nrf_read_exact_noblk; while it fails the caller polls again.
read_has_packet == cq_nelem >= PktLen

ReadStart ==
    /\ cpc = "idle" /\ read_has_packet
    /\ cpc' = "read" /\ ci' = 0
    /\ UNCHANGED <<queue, producer, ce, pushed, popped>>

\* cq_pop_nonblock up to the load from the slot; cq_pop spins while empty.
PopRead ==
    /\ cpc = "read" /\ ~cq_empty
    /\ ce' = c_buf[tail]
    /\ cpc' = "advance"
    /\ UNCHANGED <<queue, producer, ci, pushed, popped>>

\* Mutant: the slot is read after tail has moved.
AdvanceThenRead ==
    /\ cpc = "advance"
    /\ tail' = (tail + 1) % CQ_N
    /\ popped' = Append(popped, c_buf[(tail + 1) % CQ_N])
    /\ ci' = ci + 1
    /\ cpc' = IF ci + 1 = PktLen THEN "idle" ELSE "read"
    /\ UNCHANGED <<c_buf, head, producer, ce, pushed>>

\* cq_pop_nonblock from the barrier on: moving tail frees the slot.
PopAdvance ==
    /\ cpc = "advance"
    /\ tail' = (tail + 1) % CQ_N
    /\ popped' = Append(popped, ce)
    /\ ci' = ci + 1
    /\ cpc' = IF ci + 1 = PktLen THEN "idle" ELSE "read"
    /\ UNCHANGED <<c_buf, head, producer, ce, pushed>>

Produce == PushDrop \/ PushWrite \/ PushPublish \/ \E p \in Packet : PushStart(p)
Consume == ReadStart \/ PopRead \/ PopAdvance
Next == Produce \/ Consume

\* A packet under way is finished (the handler runs to its end) and the
\* reading thread is scheduled again and again (FIFO run queue).
Fairness == WF_vars(PushWrite \/ PushPublish) /\ WF_vars(Consume)

Spec == Init /\ [][Next]_vars
FairSpec == Spec /\ Fairness

-----------------------------------------------------------------------------
(* Properties. *)

\* The fields of the queue and the locals of both sides keep their types:
\* head and tail never leave the ring.
TypeOK ==
    /\ c_buf \in [Slots -> Byte] /\ head \in Slots /\ tail \in Slots
    /\ ppc \in {"idle", "write", "publish"} /\ pkt \in Packet /\ pi \in 0 .. PktLen
    /\ cpc \in {"idle", "read", "advance"} /\ ci \in 0 .. PktLen /\ ce \in Byte
    /\ pushed \in Seq(Byte) /\ popped \in Seq(Byte)

\* cq_nelem, computed with wrapping unsigned arithmetic from two indices that
\* the two sides move independently, is the number of bytes waiting.
CountExact == cq_nelem = Len(pushed) - Len(popped)

\* The panic "impossible: buffer should have space" of cq_push_n and the
\* assertion of cq_push are unreachable: room checked once for the whole
\* packet is still there for its last byte.
NoImpossiblePanic == ppc = "write" => ~cq_full /\ cq_nspace > 0

\* Number of bytes waiting, and the slot of the i-th of them, without modulo.
Count == IF head >= tail THEN head - tail ELSE head - tail + CQ_N
Slot(i) == IF tail + i < CQ_N THEN tail + i ELSE tail + i - CQ_N

\* The slots in use hold, in order, the bytes published and not yet taken.
Contents ==
    /\ Count = Len(pushed) - Len(popped)
    /\ \A i \in 0 .. Count - 1 : c_buf[Slot(i)] = pushed[Len(popped) + 1 + i]

\* The room cq_push_n checked is still free for the rest of the packet, and
\* the slot filled but not yet published keeps its byte.
ProducerInv ==
    /\ ppc # "idle" => pi < PktLen /\ CQ_N - 1 - Count >= PktLen - pi
    /\ ppc = "publish" => c_buf[head] = pkt[pi + 1]

\* The slot read but not yet freed keeps its byte.
ConsumerInv ==
    /\ cpc # "idle" => ci < PktLen
    /\ cpc = "advance" => Count > 0 /\ ce = c_buf[tail]

\* Each history is a number of whole packets and the part under way.
Frames ==
    /\ \E k \in 0 .. Len(pushed) :
           Len(pushed) = PktLen * k + (IF ppc = "idle" THEN 0 ELSE pi)
    /\ \E k \in 0 .. Len(popped) :
           Len(popped) = PktLen * k + (IF cpc = "idle" THEN 0 ELSE ci)

\* The slots from tail to head hold exactly the bytes waiting, whatever the
\* other side is in the middle of: the slot being filled is not one of them
\* and the slot being read still is.
QueueInv == TypeOK /\ Contents /\ ProducerInv /\ ConsumerInv /\ Frames

\* Between two calls only whole packets have gone in and come out: a packet
\* that does not fit is dropped whole and never shifts the frames behind it.
FramesIntact ==
    /\ ppc = "idle" => Len(pushed) % PktLen = 0
    /\ cpc = "idle" => Len(popped) % PktLen = 0

\* The queue implements the bounded FIFO: every byte taken is the oldest one
\* published, although the slot is read before tail moves and written before
\* head moves.
Fifo == INSTANCE BoundedFifo WITH Capacity <- CQ_N - 1
FifoSpec == Fifo!Spec

\* Every byte accepted from the radio is eventually taken by the reader: it
\* catches up with the producer again and again.
AcceptedIsDelivered == []<>(popped = pushed)
=============================================================================
