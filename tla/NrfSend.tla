------------------------------ MODULE NrfSend -------------------------------
(***************************************************************************)
(* The sends of the driver that wait for an acknowledgement or for the     *)
(* transmit interrupt: nrf_tx_send_ack, nrf_tx_send_ack_int and            *)
(* nrf_tx_send_noack_int, with the parts of nrf_handle_intr they need and  *)
(* nrf_get_pkts.  The last two belong to a build with USE_TX_INTERRUPT; in *)
(* the polled build without USE_RX_INTERRUPT packets are fetched by        *)
(* nrf_get_pkts.  One thread sends on one radio while packets arrive.      *)
(***************************************************************************)
EXTENDS Naturals, FiniteSets

CONSTANTS
    SendCap,      \* packets recvq holds
    SendFifo,     \* packets the receive FIFO holds
    SendIn,       \* bound: packets that arrive
    SendOut,      \* bound: packets sent
    SendFails     \* bound: times the radio gives up retransmitting

VARIABLES
    how,          \* "poll" and "ack" (nrf_tx_send_ack), "ack_int" or "noack_int"
    gpio_irq,     \* the GPIO interrupt is on; otherwise the timer's looks at the event
    radio,        \* mode, rx (packets in), tx (payload waiting), bits of STATUS, event
    spc,          \* step of the sender
    ipc,          \* step of the handler
    res,          \* what the send is about to return
    tx_sent,      \* n->tx_sent, in packets
    got,          \* packets in recvq
    peer,         \* history: packets the other side acknowledged or was sent
    sent,         \* history: sends that returned success
    dead,         \* "no", or what stopped the Pi
    room          \* bounds left: arrivals, sends, give-ups

send_vars == <<how, gpio_irq, radio, spc, ipc, res, tx_sent, got, peer, sent, dead, room>>

TxInt == how \in {"ack_int", "noack_int"}
RxInt == how # "poll"

\* Status bits that pull the pin low; the others are masked in NRF_CONFIG.
Unmasked == (IF RxInt THEN {"RX_DR"} ELSE {}) \cup (IF TxInt THEN {"TX_DS", "MAX_RT"} ELSE {})
PinLow(r) == r.bits \cap Unmasked # {}

\* The radio after its STATUS bits became b; a falling edge is an event.
WithBits(r, b) ==
    [r EXCEPT !.bits = b,
              !.event = @ \/ (~PinLow(r) /\ b \cap Unmasked # {})]

SendInit ==
    /\ how \in {"poll", "ack", "ack_int", "noack_int"} /\ gpio_irq \in BOOLEAN
    /\ radio = [mode |-> "rx", rx |-> 0, tx |-> FALSE, bits |-> {}, event |-> FALSE]
    /\ spc = "idle" /\ ipc = "idle" /\ res = 0 /\ tx_sent = 0 /\ got = 0
    /\ peer = 0 /\ sent = 0 /\ dead = "no"
    /\ room = [pkt_in |-> SendIn, out |-> SendOut, fails |-> SendFails]

-----------------------------------------------------------------------------
(* The radio (external). *)

PktArrives ==
    /\ dead = "no" /\ radio.mode = "rx" /\ room.pkt_in > 0 /\ radio.rx < SendFifo
    /\ radio' = [WithBits(radio, radio.bits \cup {"RX_DR"}) EXCEPT !.rx = @ + 1]
    /\ room' = [room EXCEPT !.pkt_in = @ - 1]
    /\ UNCHANGED <<how, gpio_irq, spc, ipc, res, tx_sent, got, peer, sent, dead>>

\* The payload is sent; with acknowledgement this means the peer has it.
Transmitted ==
    /\ dead = "no" /\ radio.mode = "tx" /\ radio.tx /\ "MAX_RT" \notin radio.bits
    /\ radio' = [WithBits(radio, radio.bits \cup {"TX_DS"}) EXCEPT !.tx = FALSE]
    /\ peer' = peer + 1
    /\ UNCHANGED <<how, gpio_irq, spc, ipc, res, tx_sent, got, sent, dead, room>>

\* No acknowledgement after all retransmissions: the payload stays, and nothing
\* is sent before MAX_RT is cleared.
GivesUp ==
    /\ dead = "no" /\ radio.mode = "tx" /\ radio.tx /\ "MAX_RT" \notin radio.bits
    /\ how # "noack_int" /\ room.fails > 0
    /\ radio' = WithBits(radio, radio.bits \cup {"MAX_RT"})
    /\ room' = [room EXCEPT !.fails = @ - 1]
    /\ UNCHANGED <<how, gpio_irq, spc, ipc, res, tx_sent, got, peer, sent, dead>>

-----------------------------------------------------------------------------
(* nrf_handle_intr. *)

\* A pending event interrupts the sender, except in its cpsr_int_disable section.
TakeInterrupt ==
    /\ dead = "no" /\ ipc = "idle" /\ radio.event /\ spc # "masked"
    /\ ipc' = IF PinLow(radio) THEN "rt" ELSE "idle"
    /\ radio' = [radio EXCEPT !.event = ~PinLow(radio)]
    /\ UNCHANGED <<how, gpio_irq, spc, res, tx_sent, got, peer, sent, dead, room>>

HandleMaxRt ==
    /\ dead = "no" /\ ipc = "rt"
    /\ radio' = WithBits(radio, radio.bits \ {"MAX_RT"})
    /\ ipc' = "rx"
    /\ UNCHANGED <<how, gpio_irq, spc, res, tx_sent, got, peer, sent, dead, room>>

TestRx ==
    /\ dead = "no" /\ ipc = "rx"
    /\ ipc' = IF "RX_DR" \in radio.bits THEN "drain" ELSE "tx"
    /\ UNCHANGED <<how, gpio_irq, radio, spc, res, tx_sent, got, peer, sent, dead, room>>

\* A turn of the loop that empties the FIFO, or its end.
HandleRx ==
    /\ dead = "no" /\ ipc = "drain"
    /\ IF radio.rx > 0
       THEN /\ radio' = [WithBits(radio, radio.bits \ {"RX_DR"}) EXCEPT !.rx = @ - 1]
            /\ got' = IF got < SendCap THEN got + 1 ELSE got
            /\ UNCHANGED ipc
       ELSE ipc' = "tx" /\ UNCHANGED <<radio, got>>
    /\ UNCHANGED <<how, gpio_irq, spc, res, tx_sent, peer, sent, dead, room>>

\* assert(USE_TX_INTERRUPT), assert(nrf_tx_fifo_empty(n)) "is this sound?", back
\* to receive mode and the count the sender waits for.
HandleTx ==
    /\ dead = "no" /\ ipc = "tx"
    /\ ipc' = "idle"
    /\ IF "TX_DS" \notin radio.bits THEN UNCHANGED <<radio, tx_sent, dead>>
       ELSE IF ~TxInt THEN dead' = "USE_TX_INTERRUPT" /\ UNCHANGED <<radio, tx_sent>>
       ELSE IF radio.tx THEN dead' = "tx fifo" /\ UNCHANGED <<radio, tx_sent>>
       ELSE /\ radio' = [WithBits(radio, radio.bits \ {"TX_DS"}) EXCEPT !.mode = "rx"]
            /\ tx_sent' = tx_sent + 1 /\ UNCHANGED dead
    /\ UNCHANGED <<how, gpio_irq, spc, res, got, peer, sent, room>>

IntrHandler == TakeInterrupt \/ HandleMaxRt \/ TestRx \/ HandleRx \/ HandleTx

-----------------------------------------------------------------------------
(* The sender.  With the GPIO interrupt on, an event interrupts it at once. *)

SenderAt(step) ==
    /\ dead = "no" /\ ipc = "idle" /\ spc = step
    /\ radio.event /\ gpio_irq => spc = "masked"

\* The assertions before a send; without RX interrupts packets are fetched now.
StartSend ==
    /\ SenderAt("idle") /\ room.out > 0
    /\ room' = [room EXCEPT !.out = @ - 1]
    /\ dead' = IF radio.mode = "rx" /\ ~radio.tx THEN "no" ELSE "config"
    /\ spc' = IF how = "poll" THEN "fetch" ELSE IF TxInt THEN "masked" ELSE "load"
    /\ res' = 0
    /\ UNCHANGED <<how, gpio_irq, radio, ipc, tx_sent, got, peer, sent>>

\* nrf_get_pkts, called until it returns 0: a packet that does not fit into
\* recvq ends one call with -1, and the next call goes on.
nrf_get_pkts ==
    /\ SenderAt("fetch")
    /\ IF radio.rx > 0
       THEN /\ radio' = [radio EXCEPT !.rx = @ - 1, !.bits = IF got < SendCap THEN @ \ {"RX_DR"} ELSE @]
            /\ got' = IF got < SendCap THEN got + 1 ELSE got
            /\ UNCHANGED spc
       ELSE spc' = "load" /\ UNCHANGED <<radio, got>>
    /\ UNCHANGED <<how, gpio_irq, ipc, res, tx_sent, peer, sent, dead, room>>

\* Transmit mode, the addresses and the payload; interrupts are off around it
\* in the versions that wait for the interrupt.
Load ==
    /\ SenderAt("load") \/ SenderAt("masked")
    /\ radio' = [radio EXCEPT !.mode = "tx", !.tx = TRUE]
    /\ spc' = IF TxInt THEN "wait" ELSE "poll"
    /\ UNCHANGED <<how, gpio_irq, ipc, res, tx_sent, got, peer, sent, dead, room>>

\* Mutant: success is reported when the loop ends, whatever the status says.
PollBlind ==
    /\ SenderAt("poll")
    /\ res' = 1 /\ spc' = "back" /\ radio' = [radio EXCEPT !.bits = @ \ {"TX_DS"}, !.tx = FALSE]
    /\ UNCHANGED <<how, gpio_irq, ipc, tx_sent, got, peer, sent, dead, room>>

\* One turn of nrf_tx_send_ack's loop, or the test of TX_DS behind it.
Poll ==
    /\ SenderAt("poll")
    /\ dead' = IF radio.tx /\ "MAX_RT" \in radio.bits THEN "max intr"
               ELSE IF radio.tx /\ radio.rx = SendFifo THEN "rx fifo full" ELSE "no"
    /\ IF "TX_DS" \in radio.bits
       THEN res' = 1 /\ radio' = [radio EXCEPT !.bits = @ \ {"TX_DS"}]
       ELSE UNCHANGED <<res, radio>>
    /\ spc' = IF radio.tx THEN "poll" ELSE "back"
    /\ UNCHANGED <<how, gpio_irq, ipc, tx_sent, got, peer, sent, room>>

\* Receive mode again, and the return.
Back ==
    /\ SenderAt("back")
    /\ radio' = [radio EXCEPT !.mode = "rx"]
    /\ spc' = "idle" /\ sent' = sent + res
    /\ UNCHANGED <<how, gpio_irq, ipc, res, tx_sent, got, peer, dead, room>>

\* The loop on n->tx_sent of the versions with interrupts, and what follows.
WaitSent ==
    /\ SenderAt("wait") /\ tx_sent = 1
    /\ tx_sent' = 0 /\ sent' = sent + 1 /\ spc' = "idle"
    /\ dead' = IF how = "noack_int" /\ (radio.mode # "rx" \/ "TX_DS" \in radio.bits) THEN "config" ELSE "no"
    /\ UNCHANGED <<how, gpio_irq, radio, ipc, res, got, peer, room>>

Sender == StartSend \/ nrf_get_pkts \/ Load \/ Poll \/ Back \/ WaitSent

SendNext == PktArrives \/ Transmitted \/ GivesUp \/ IntrHandler \/ Sender

\* The radio sends or gives up, the handler runs to its end, the sender goes on.
SendSpec ==
    /\ SendInit /\ [][SendNext]_send_vars
    /\ WF_send_vars(Transmitted) /\ WF_send_vars(IntrHandler)
    /\ SF_send_vars(nrf_get_pkts \/ Load \/ Back \/ WaitSent) /\ WF_send_vars(Poll)

-----------------------------------------------------------------------------
(* Properties. *)

\* A send that returns success has been transmitted, with acknowledgement
\* received by the peer, exactly once, although handler and loop share the
\* TX_DS bit: the successes and the send under way account for every packet.
SentOnce == peer = sent + (IF radio.tx \/ spc \in {"idle", "masked", "load", "fetch"} THEN 0
                           ELSE 1)

\* The assertions of the senders and of the handler hold: receive mode before a
\* send, the transmit FIFO empty when TX_DS is handled ("is this sound?").  The
\* polling nrf_tx_send_ack needs the GPIO interrupt for that: a handler that
\* comes late meets its TX_DS.
SendAsserts ==
    how # "ack" \/ gpio_irq => dead \notin {"config", "tx fifo", "USE_TX_INTERRUPT"}

\* Whatever interrupts and arrivals come between the steps of a send, it counts
\* what was transmitted and no assertion of sender or handler fails.
SendRight == SentOnce /\ SendAsserts

\* A send without acknowledgement returns when the timer's interrupts look at
\* the event.  With the GPIO interrupt on, an event whose pin is high again
\* repeats and may keep it from returning.
SendReturns ==
    (how = "noack_int" /\ ~gpio_irq /\ spc = "wait") ~> (dead # "no" \/ spc = "idle")

\* So does one with acknowledgement.  It does not hold: MAX_RT that is set while
\* the handler empties the FIFO keeps the pin low, and no edge announces it.
AckReturns ==
    (how = "ack_int" /\ ~gpio_irq /\ spc = "wait") ~> (dead # "no" \/ spc = "idle")
=============================================================================
