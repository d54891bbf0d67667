----------------------------- MODULE NrfDriver -----------------------------
(***************************************************************************)
(* The NRF radios of one Pi and the code that shares them: the receive     *)
(* interrupt (int_vector_nrf, nrf_handle_intr), threads that send          *)
(* (nrf_tx_send_noack with its system call) and threads that wait for a    *)
(* packet (nrf_read_exact_timeout).  Interrupts are off in the handler and *)
(* in the system call, but not in the register reads of the assertions     *)
(* around the call.  USE_RX_INTERRUPT is 1 and USE_TX_INTERRUPT 0.         *)
(***************************************************************************)
EXTENDS Naturals, Sequences

CONSTANTS
    Radio,      \* NRF_LEFT = 0 and NRF_RIGHT = 1, those that are registered
    Thread,
    RxDepth,    \* packets the radio's receive FIFO holds
    QueueCap,   \* packets recvq holds
    MaxPkts     \* bound: packets that arrive

ASSUME RadioAssumption == Radio \subseteq {0, 1} /\ Radio # {}
ASSUME DepthAssumption == {RxDepth, QueueCap} \subseteq Nat \ {0} /\ MaxPkts \in Nat

VARIABLES
    fifo,       \* receive FIFO of each radio
    rx_dr,      \* its RX_DR bit: set, it pulls the interrupt pin low
    tx_ds,      \* its TX_DS bit, masked from the pin
    config,     \* its NRF_CONFIG: "rx" or "tx"
    eds,        \* GPIO event of its pin: a falling edge was seen
    recvq,      \* n->recvq, in packets
    cpu,        \* who runs: "thread", "irq" or "sys"
    hpc, hn,    \* handler: its step and the radio it is at
    pc, nic,    \* each thread's step and the radio it uses
    gpio_on,    \* the GPIO interrupt is on: the radio was set up after int_vec_init
    torn,       \* another transfer crossed the thread's register reads
    down,       \* "no", or the assertion that stopped the Pi
    arrived,    \* history: packets numbered in the order of arrival
    last        \* history: the last packet read from each recvq

device == <<fifo, rx_dr, tx_ds, config, eds>>
handler == <<hpc, hn>>
threads == <<pc, nic, torn>>
vars == <<device, recvq, cpu, handler, threads, gpio_on, down, arrived, last>>

Init ==
    /\ fifo = [r \in Radio |-> <<>>] /\ recvq = [r \in Radio |-> <<>>]
    /\ rx_dr = [r \in Radio |-> FALSE] /\ tx_ds = [r \in Radio |-> FALSE]
    /\ config = [r \in Radio |-> "rx"] /\ eds = [r \in Radio |-> FALSE]
    /\ cpu = "thread" /\ hpc = "idle" /\ hn = 0
    /\ pc = [t \in Thread |-> "idle"] /\ nic \in [Thread -> Radio]
    /\ torn = [t \in Thread |-> FALSE] /\ gpio_on \in BOOLEAN
    /\ down = "no" /\ arrived = 0 /\ last = [r \in Radio |-> 0]

\* A pending event interrupts before the thread's next instruction if the GPIO
\* interrupt is on.  A radio set up before pre_thread_start loses it to
\* int_vec_init; its events are then seen by the next timer interrupt.
Pending == \E r \in Radio : eds[r]
ThreadRuns(t, step) == down = "no" /\ cpu = "thread" /\ ~(gpio_on /\ Pending) /\ pc[t] = step

\* Threads interrupted or switched off in the middle of their register reads.
InTransfer == {t \in Thread : pc[t] \in {"before", "after"}}
\* A transfer made by somebody else spoils them.
TornBy(users) == [t \in Thread |-> torn[t] \/ t \in InTransfer \ users]

-----------------------------------------------------------------------------
(* The radio (external): a packet for pipe 1 arrives in receive mode. *)

Arrive(r) ==
    /\ down = "no" /\ config[r] = "rx" /\ arrived < MaxPkts
    /\ arrived' = arrived + 1
    /\ IF Len(fifo[r]) < RxDepth
       THEN /\ fifo' = [fifo EXCEPT ![r] = Append(@, arrived')]
            /\ rx_dr' = [rx_dr EXCEPT ![r] = TRUE]
            /\ eds' = [eds EXCEPT ![r] = @ \/ ~rx_dr[r]]
       ELSE UNCHANGED <<fifo, rx_dr, eds>>
    /\ UNCHANGED <<tx_ds, config, recvq, cpu, handler, threads, down, last, gpio_on>>

-----------------------------------------------------------------------------
(* int_vector_nrf: the left radio, then the right one. *)

Interrupt ==
    /\ down = "no" /\ cpu = "thread" /\ Pending
    /\ cpu' = "irq" /\ hpc' = "test" /\ hn' = 0
    /\ UNCHANGED <<device, recvq, threads, down, arrived, last, gpio_on>>

\* On to the other radio, or back to the thread.
Leave ==
    IF hn = 0 THEN hpc' = "test" /\ hn' = 1 /\ UNCHANGED cpu
              ELSE hpc' = "idle" /\ hn' = 0 /\ cpu' = "thread"

\* nrf_test_pin: the event is cleared only when the pin is low.  The radio
\* that is low has RX_DR set, so nrf_handle_intr goes to its loop.
TestPin ==
    /\ down = "no" /\ hpc = "test"
    /\ IF hn \in Radio /\ eds[hn] /\ rx_dr[hn]
       THEN /\ eds' = [eds EXCEPT ![hn] = FALSE]
            /\ torn' = TornBy({})
            /\ hpc' = "drain" /\ UNCHANGED <<hn, cpu>>
       ELSE Leave /\ UNCHANGED <<eds, torn>>
    /\ UNCHANGED <<fifo, rx_dr, tx_ds, config, recvq, pc, nic, down, arrived, last, gpio_on>>

\* Mutant: a full queue drops its oldest packet, and a packet that waits is
\* overtaken by the new one.
PushFront ==
    /\ down = "no" /\ hpc = "drain" /\ fifo[hn] # <<>>
    /\ fifo' = [fifo EXCEPT ![hn] = Tail(@)]
    /\ recvq' = [recvq EXCEPT ![hn] = <<Head(fifo[hn])>> \o SubSeq(@, 1, IF Len(@) < QueueCap THEN Len(@) ELSE QueueCap - 1)]
    /\ hpc' = "clear"
    /\ UNCHANGED <<rx_dr, tx_ds, config, eds, cpu, hn, threads, down, arrived, last, gpio_on>>

\* One turn of the loop up to the push; cq_push_n drops a packet that does
\* not fit.
ReadPayload ==
    /\ down = "no" /\ hpc = "drain" /\ fifo[hn] # <<>>
    /\ fifo' = [fifo EXCEPT ![hn] = Tail(@)]
    /\ recvq' = [recvq EXCEPT ![hn] = IF Len(@) < QueueCap THEN Append(@, Head(fifo[hn])) ELSE @]
    /\ hpc' = "clear"
    /\ UNCHANGED <<rx_dr, tx_ds, config, eds, cpu, hn, threads, down, arrived, last, gpio_on>>

\* Mutant: after a packet the handler does not look for another one.
ClearAndLeave ==
    /\ down = "no" /\ hpc = "clear"
    /\ rx_dr' = [rx_dr EXCEPT ![hn] = FALSE]
    /\ Leave
    /\ UNCHANGED <<fifo, tx_ds, config, eds, recvq, threads, down, arrived, last, gpio_on>>

\* nrf_rx_intr_clr at the end of a turn, before the FIFO is looked at again.
ClearIntr ==
    /\ down = "no" /\ hpc = "clear"
    /\ rx_dr' = [rx_dr EXCEPT ![hn] = FALSE]
    /\ hpc' = "drain"
    /\ UNCHANGED <<fifo, tx_ds, config, eds, recvq, cpu, hn, threads, down, arrived, last, gpio_on>>

\* The FIFO is empty; TX_DS must not be set, as assert(USE_TX_INTERRUPT) says.
Drained ==
    /\ down = "no" /\ hpc = "drain" /\ fifo[hn] = <<>>
    /\ IF tx_ds[hn] THEN down' = "tx_intr" /\ UNCHANGED <<cpu, handler>>
                    ELSE Leave /\ UNCHANGED down
    /\ UNCHANGED <<device, recvq, threads, arrived, last, gpio_on>>

Handler == Interrupt \/ TestPin \/ ReadPayload \/ ClearIntr \/ Drained

-----------------------------------------------------------------------------
(* nrf_tx_send_noack. *)

\* The registers that the assertions look at are read with interrupts on.
SendStart(t) ==
    /\ ThreadRuns(t, "idle")
    /\ pc' = [pc EXCEPT ![t] = "before"]
    /\ nic' \in {[nic EXCEPT ![t] = r] : r \in Radio}
    /\ torn' = [TornBy({t}) EXCEPT ![t] = FALSE]
    /\ UNCHANGED <<device, recvq, cpu, handler, down, arrived, last, gpio_on>>

\* The assertions before and after the call: NRF_CONFIG is rx_config (what else
\* they look at, pipe 1 and the transmit FIFO, changes only inside the call).
\* A read that another transfer crossed may return anything or panic in the
\* SPI code.
Asserted(t, from, to) ==
    /\ ThreadRuns(t, from)
    /\ down' \in IF torn[t] THEN {"no", "spi"}
                 ELSE IF config[nic[t]] = "rx" THEN {"no"} ELSE {"config"}
    /\ pc' = [pc EXCEPT ![t] = IF down' = "no" THEN to ELSE @]
    /\ torn' = [TornBy({t}) EXCEPT ![t] = FALSE]
    /\ UNCHANGED <<device, recvq, cpu, handler, nic, arrived, last, gpio_on>>

\* spi_transfer_syscall_handler, up to the payload.
SysSend(t) ==
    /\ ThreadRuns(t, "call")
    /\ cpu' = "sys" /\ pc' = [pc EXCEPT ![t] = "sending"]
    /\ config' = [config EXCEPT ![nic[t]] = "tx"]
    /\ torn' = TornBy({t})
    /\ UNCHANGED <<fifo, rx_dr, tx_ds, eds, recvq, handler, nic, down, arrived, last, gpio_on>>

\* The radio has sent the packet: its transmit FIFO is empty.
Sent(t) ==
    /\ down = "no" /\ pc[t] = "sending"
    /\ tx_ds' = [tx_ds EXCEPT ![nic[t]] = TRUE]
    /\ pc' = [pc EXCEPT ![t] = "sent"]
    /\ UNCHANGED <<fifo, rx_dr, config, eds, recvq, cpu, handler, nic, torn, down, arrived, last, gpio_on>>

\* Mutant: TX_DS is left set.
SysReturnKeepsTxDs(t) ==
    /\ down = "no" /\ pc[t] = "sent"
    /\ config' = [config EXCEPT ![nic[t]] = "rx"]
    /\ cpu' = "thread" /\ pc' = [pc EXCEPT ![t] = "after"]
    /\ UNCHANGED <<fifo, rx_dr, tx_ds, eds, recvq, handler, nic, torn, down, arrived, last, gpio_on>>

\* The rest of the system call: TX_DS cleared, power cycle, receive mode.
SysReturn(t) ==
    /\ down = "no" /\ pc[t] = "sent"
    /\ tx_ds' = [tx_ds EXCEPT ![nic[t]] = FALSE]
    /\ config' = [config EXCEPT ![nic[t]] = "rx"]
    /\ cpu' = "thread" /\ pc' = [pc EXCEPT ![t] = "after"]
    /\ UNCHANGED <<fifo, rx_dr, eds, recvq, handler, nic, torn, down, arrived, last, gpio_on>>

Send(t) ==
    \/ SendStart(t) \/ Asserted(t, "before", "call")
    \/ SysSend(t) \/ Sent(t) \/ SysReturn(t) \/ Asserted(t, "after", "idle")

-----------------------------------------------------------------------------
(* nrf_read_exact_timeout; nrf_get_pkts does nothing with interrupts. *)

ReadStart(t) ==
    /\ ThreadRuns(t, "idle")
    /\ pc' = [pc EXCEPT ![t] = "reading"]
    /\ nic' \in {[nic EXCEPT ![t] = r] : r \in Radio}
    /\ UNCHANGED <<device, recvq, cpu, handler, torn, down, arrived, last, gpio_on>>

ReadPacket(t) ==
    /\ ThreadRuns(t, "reading") /\ recvq[nic[t]] # <<>>
    /\ recvq' = [recvq EXCEPT ![nic[t]] = Tail(@)]
    /\ last' = [last EXCEPT ![nic[t]] = Head(recvq[nic[t]])]
    /\ pc' = [pc EXCEPT ![t] = "idle"]
    /\ UNCHANGED <<device, cpu, handler, nic, torn, down, arrived, gpio_on>>

\* Mutant: the read waits for a packet for ever.
ReadForever(t) ==
    /\ ThreadRuns(t, "reading") /\ recvq[nic[t]] = <<>>
    /\ UNCHANGED vars

ReadTimeout(t) ==
    /\ ThreadRuns(t, "reading") /\ recvq[nic[t]] = <<>>
    /\ pc' = [pc EXCEPT ![t] = "idle"]
    /\ UNCHANGED <<device, recvq, cpu, handler, nic, torn, down, arrived, last, gpio_on>>

Read(t) == ReadStart(t) \/ ReadPacket(t) \/ ReadTimeout(t)

Next ==
    \/ Handler
    \/ \E r \in Radio : Arrive(r)
    \/ \E t \in Thread : Send(t) \/ Read(t)

Spec == Init /\ [][Next]_vars

\* Interrupts come again and again, the handler runs to its end, a packet without
\* acknowledgement is always sent, and a thread that may run gets its turn.
FairSpec ==
    /\ Spec /\ SF_vars(Handler)
    /\ \A t \in Thread : /\ WF_vars(Sent(t) \/ SysReturn(t))
                         /\ SF_vars(ReadPacket(t) \/ ReadTimeout(t))

-----------------------------------------------------------------------------
(* Properties. *)

\* Every variable has its type, and the buffers respect their sizes.
TypeOK ==
    /\ fifo \in [Radio -> Seq(1 .. MaxPkts)] /\ recvq \in [Radio -> Seq(1 .. MaxPkts)]
    /\ \A r \in Radio : Len(fifo[r]) <= RxDepth /\ Len(recvq[r]) <= QueueCap
    /\ rx_dr \in [Radio -> BOOLEAN] /\ tx_ds \in [Radio -> BOOLEAN]
    /\ eds \in [Radio -> BOOLEAN] /\ config \in [Radio -> {"rx", "tx"}]
    /\ cpu \in {"thread", "irq", "sys"}
    /\ hpc \in {"idle", "test", "drain", "clear"} /\ hn \in {0, 1}
    /\ hpc \in {"drain", "clear"} => hn \in Radio
    /\ pc \in [Thread -> {"idle", "before", "call", "sending", "sent", "after", "reading"}]
    /\ nic \in [Thread -> Radio] /\ torn \in [Thread -> BOOLEAN] /\ gpio_on \in BOOLEAN
    /\ down \in {"no", "spi", "config", "tx_intr"}
    /\ arrived \in 0 .. MaxPkts /\ last \in [Radio -> 0 .. MaxPkts]

\* The handler is in its loop for the radio.
AtWork(r) == hn = r /\ hpc \in {"drain", "clear"}

\* A packet in the radio is announced: its pin is low and the event pending,
\* or the handler is in the loop that will find it.  The handler clears the
\* bit before it looks at the FIFO again, so no arrival in between is missed
\* (the README's reason for interrupts: "we won't miss incoming packets").
NoStuckPacket ==
    \A r \in Radio : fifo[r] # <<>> =>
        \/ rx_dr[r] /\ eds[r]
        \/ AtWork(r)

\* Why that holds, in inductive form: RX_DR is set only while the radio holds a
\* packet, except between the handler's read and its clear, and a set bit has
\* its event pending or the handler at work.
AnnounceInv ==
    \A r \in Radio :
        /\ rx_dr[r] => fifo[r] # <<>> \/ (hn = r /\ hpc = "clear")
        /\ rx_dr[r] => eds[r] \/ AtWork(r)
        /\ fifo[r] # <<>> => rx_dr[r] \/ AtWork(r)

\* Packets pass through radio, handler and queue in order and once: what a
\* reader got, what is queued and what is in the radio is increasing.
PacketsInOrder ==
    \A r \in Radio :
        LET p == <<last[r]>> \o recvq[r] \o fifo[r]
        IN  \A i, j \in 1 .. Len(p) : i < j => p[i] < p[j]

\* The assertions of the code hold whenever the SPI bus is not disturbed: a
\* radio is in receive mode around every send although two threads share it,
\* and the handler never meets TX_DS.
AssertsHold == down \notin {"config", "tx_intr"}

\* Why they hold, in inductive form: interrupts are off exactly in the handler
\* and in the system call of one thread, and only that thread's radio is out
\* of receive mode or has TX_DS set.
InCall == {t \in Thread : pc[t] \in {"sending", "sent"}}
ModeInv ==
    /\ AssertsHold
    /\ cpu = "irq" <=> hpc # "idle"
    /\ InCall # {} => cpu = "sys"
    /\ \A t, u \in InCall : t = u
    /\ \A r \in Radio : config[r] # "rx" => \E t \in InCall : nic[t] = r
    /\ \A r \in Radio : tx_ds[r] => \E t \in InCall : nic[t] = r

\* The SPI bus is occupied by one thread, or the handler, at one time.
SpiExclusive == \A t \in InTransfer : ~torn[t]

InRadio(p) == \E r \in Radio : \E i \in 1 .. Len(fifo[r]) : fifo[r][i] = p

\* A packet that the radio has accepted leaves it, unless the Pi stops.
RadioEmptied ==
    \A p \in 1 .. MaxPkts :
        InRadio(p) ~> (down # "no" \/ ~InRadio(p))

\* A read returns after its packet or its time, as nrf.h says, when the timer's
\* interrupts look at the events.
ReadReturns ==
    \A t \in Thread : (~gpio_on /\ pc[t] = "reading") ~> (down # "no" \/ pc[t] # "reading")

\* Radios and readers go on: neither a packet nor a reader waits for ever.
RadioGoesOn == RadioEmptied /\ ReadReturns

\* The same with the GPIO interrupt on.  It does not hold: a packet that arrives
\* in the handler's loop leaves an event whose pin is high, and it repeats.
ReadReturnsGpio ==
    \A t \in Thread : (gpio_on /\ pc[t] = "reading") ~> (down # "no" \/ pc[t] # "reading")
=============================================================================
