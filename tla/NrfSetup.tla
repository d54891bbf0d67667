------------------------------ MODULE NrfSetup ------------------------------
(***************************************************************************)
(* Setting up one NRF radio: dfs_nrf_init, nrf_init and the three set-ups  *)
(* of the router, one register write, flush or assertion after the other.  *)
(* The radio keeps its registers and FIFOs when only the Pi restarts, and  *)
(* it receives as soon as it is in receive mode.  USE_RX_INTERRUPT is 1    *)
(* and USE_TX_INTERRUPT 0.                                                 *)
(***************************************************************************)
EXTENDS Naturals, Sequences, FiniteSets

CONSTANTS
    SetupDepth,   \* packets the receive FIFO holds
    SetupPkts     \* bound: packets that arrive

VARIABLES
    setup,        \* the set-up that runs
    chip,         \* the radio and the GPIO event of its pin
    at,           \* the next step of the set-up
    phase,        \* "setup", "ready" (known to the interrupt handler) or "panic"
    irq_on,       \* set up in a thread, with the GPIO interrupt on
    heard         \* packets that arrived

setup_vars == <<setup, chip, at, phase, irq_on, heard>>

Pipe == 0 .. 5
Own == "own"       \* the address the set-up is for
Peer == "peer"     \* the address of somebody else, left from a send with acknowledgement

-----------------------------------------------------------------------------
(* Accesses to the radio.  A step writes a register or does a command. *)

nrf_put8(reg, v) == <<[op |-> "put", reg |-> reg, v |-> v]>>
nrf_set_addr(reg, addr) == nrf_put8(reg, addr)
nrf_set_pwrup_off == nrf_put8("PWR_UP", FALSE)
nrf_set_pwrup_on == nrf_put8("PWR_UP", TRUE)
gpio_set_on_ce == nrf_put8("CE", TRUE)
pin_init == nrf_put8("CE", FALSE)
Do(op) == <<[op |-> op]>>
Require(what) == <<[op |-> "assert", what |-> what]>>

\* rx_config: powered up, receiving, only RX_DR drives the pin.
rx_config == Do("rx_config")

\* The packet widths of the pipes 1 to 5; that of pipe 0 is left as it is.
Widths(pipes) == <<[op |-> "widths", pipes |-> pipes]>>

nrf_rx_fifo_empty(c) == c.rx = <<>>
nrf_tx_fifo_empty(c) == c.tx = 0
nrf_rx_intr_clr(c) == [c EXCEPT !.RX_DR = FALSE]
nrf_rx_flush(c) == [c EXCEPT !.rx = <<>>]
nrf_tx_flush(c) == [c EXCEPT !.tx = 0]

\* Falling edges are seen from now on.
nrf_interrupt_init(c) == [c EXCEPT !.FEN = TRUE]

Exec(c, s) ==
    CASE s.op = "put" -> [c EXCEPT ![s.reg] = s.v]
      [] s.op = "rx_config" -> [c EXCEPT !.PWR_UP = TRUE, !.PRIM_RX = TRUE]
      [] s.op = "widths" -> [c EXCEPT !.PW = (@ \cap {0}) \cup s.pipes]
      [] s.op = "flush_rx" -> nrf_rx_flush(c)
      [] s.op = "flush_tx" -> nrf_tx_flush(c)
      [] s.op = "rx_intr_clr" -> nrf_rx_intr_clr(c)
      [] s.op = "interrupt_init" -> nrf_interrupt_init(c)
      [] OTHER -> c

Holds(c, what) ==
    CASE what = "tx empty" -> nrf_tx_fifo_empty(c)
      [] what = "rx empty" -> nrf_rx_fifo_empty(c)
      [] what = "acked" -> {0, 1} \subseteq c.EN_RXADDR \cap c.EN_AA
      [] what = "not acked" -> 0 \notin c.EN_RXADDR /\ 1 \in c.EN_RXADDR \ c.EN_AA
      [] what = "rx_config" -> c.PWR_UP /\ c.PRIM_RX

-----------------------------------------------------------------------------
(* The set-ups.  Writes to registers that no property looks at (channel,    *)
(* address width, retransmission) are left out.                            *)

\* "should be true after setup"
Emptied == Require("tx empty") \o Require("rx empty")

\* Mutant: pipe 0 is opened although its address is never set.
dfs_nrf_init_acked ==
    pin_init \o nrf_set_pwrup_off
    \o nrf_put8("EN_RXADDR", {0, 1}) \o nrf_put8("EN_AA", {})
    \o nrf_set_addr("P1", Own) \o Widths({1})
    \o nrf_set_pwrup_on \o rx_config \o gpio_set_on_ce
    \o Do("flush_rx") \o Do("flush_tx") \o Do("rx_intr_clr")
    \o Do("interrupt_init") \o Emptied

dfs_nrf_init ==
    pin_init \o nrf_set_pwrup_off
    \o nrf_put8("EN_RXADDR", {1}) \o nrf_put8("EN_AA", {})
    \o nrf_set_addr("P1", Own) \o Widths({1})
    \o nrf_set_pwrup_on \o rx_config \o gpio_set_on_ce
    \o Do("flush_rx") \o Do("flush_tx") \o Do("rx_intr_clr")
    \o Do("interrupt_init") \o Emptied

nrf_init(acked_p) ==
    LET pipes == IF acked_p THEN {0, 1} ELSE {1}
    IN  pin_init \o nrf_set_pwrup_off \o nrf_put8("EN_RXADDR", {})
        \o nrf_put8("EN_AA", IF acked_p THEN {0, 1} ELSE {}) \o nrf_put8("EN_RXADDR", pipes)
        \o nrf_set_addr("P1", Own) \o Widths({1})
        \o nrf_set_pwrup_on \o rx_config \o gpio_set_on_ce
        \o Do("flush_rx") \o Do("flush_tx") \o Do("rx_intr_clr") \o Do("interrupt_init")
        \o Require("rx_config") \o Require(IF acked_p THEN "acked" ELSE "not acked")
        \o Emptied

nrf_rt_init_global ==
    Do("flush_rx") \o Do("flush_tx") \o nrf_set_pwrup_on \o rx_config \o gpio_set_on_ce
    \o Emptied

nrf_init_router_ptx ==
    pin_init \o nrf_set_pwrup_off \o nrf_put8("EN_RXADDR", {0, 1}) \o nrf_put8("EN_AA", Pipe)
    \o nrf_set_addr("P1", Own) \o Widths({1}) \o nrf_rt_init_global

\* Every pipe has an address of the router; which are open is left as it is.
nrf_init_router_prx ==
    pin_init \o nrf_set_pwrup_off \o nrf_set_addr("P0", Own) \o nrf_set_addr("P1", Own)
    \o nrf_put8("PW", Pipe) \o nrf_put8("EN_AA", Pipe) \o nrf_rt_init_global

nrf_init_node ==
    pin_init \o nrf_set_pwrup_off \o nrf_put8("EN_RXADDR", {0, 1}) \o nrf_put8("EN_AA", {0, 1})
    \o nrf_set_addr("P1", Own) \o Widths({1}) \o nrf_rt_init_global

Program ==
    CASE setup = "dfs" -> dfs_nrf_init
      [] setup = "acked" -> nrf_init(TRUE)
      [] setup = "noack" -> nrf_init(FALSE)
      [] setup = "ptx" -> nrf_init_router_ptx
      [] setup = "prx" -> nrf_init_router_prx
      [] setup = "node" -> nrf_init_node

\* The set-ups that turn on the interrupt, whose packets the handler fetches.
Interrupting == {"dfs", "acked", "noack"}

-----------------------------------------------------------------------------
(* Behaviour. *)

\* The radio as its last user left it: after power on, or after a restart of
\* the Pi at any moment of its work.
ChipLeft ==
    [PWR_UP : BOOLEAN, PRIM_RX : BOOLEAN, CE : {FALSE},
     EN_RXADDR : {{}, {0, 1}, {1, 2}}, EN_AA : {Pipe}, PW : {{}, {0, 1}},
     P0 : {Peer}, P1 : {Peer},
     rx : {<<>>, <<0, 1>>}, tx : {0, 1}, RX_DR : BOOLEAN, FEN : {FALSE}, EDS : {FALSE}]

SetupInit ==
    /\ setup \in {"dfs", "acked", "noack", "ptx", "prx", "node"} /\ chip \in ChipLeft
    /\ at = 1 /\ phase = "setup" /\ irq_on \in BOOLEAN /\ heard = 0

\* A packet arrives on an open pipe; RX_DR pulls the pin low.
PacketIn(p) ==
    /\ phase # "panic" /\ heard < SetupPkts
    /\ chip.PWR_UP /\ chip.PRIM_RX /\ chip.CE /\ p \in chip.EN_RXADDR \cap chip.PW
    /\ Len(chip.rx) < SetupDepth
    /\ chip' = [chip EXCEPT !.rx = Append(@, p), !.RX_DR = TRUE,
                            !.EDS = @ \/ (chip.FEN /\ ~chip.RX_DR)]
    /\ heard' = heard + 1
    /\ UNCHANGED <<setup, at, phase, irq_on>>

\* int_vector_nrf does not know the radio yet: a pending event is not cleared,
\* the interrupt comes again and the thread does not go on.
Stormed == irq_on /\ chip.EDS

SetupStep ==
    /\ phase = "setup" /\ at <= Len(Program) /\ ~Stormed
    /\ LET s == Program[at]
       IN  /\ phase' = IF s.op = "assert" /\ ~Holds(chip, s.what) THEN "panic" ELSE phase
           /\ chip' = Exec(chip, s)
    /\ at' = at + 1
    /\ UNCHANGED <<setup, irq_on, heard>>

\* set_nrf_left or set_nrf_right, by the caller.
set_nrf_left ==
    /\ phase = "setup" /\ at = Len(Program) + 1 /\ ~Stormed
    /\ phase' = "ready"
    /\ UNCHANGED <<setup, chip, at, irq_on, heard>>

SetupNext == SetupStep \/ set_nrf_left \/ \E p \in Pipe : PacketIn(p)

-----------------------------------------------------------------------------
(* Properties. *)

\* When the handler takes over, a packet that waits in the radio is announced
\* by an event, whatever arrived between the flush, the clearing of RX_DR, the
\* enabling of the edge and the assertions.
SetupAnnounces ==
    phase = "ready" /\ setup \in Interrupting /\ chip.rx # <<>> => chip.RX_DR /\ chip.EDS

\* A radio of the file system receives only what is sent to its own address
\* and only on pipe 1, which nrf_handle_intr asserts, whatever the radio did
\* before the Pi restarted.
SetupOwnOnly ==
    phase = "ready" /\ setup \in {"dfs", "noack"} =>
        /\ \A i \in 1 .. Len(chip.rx) : chip.rx[i] = 1
        /\ chip.EN_RXADDR = {1} /\ chip.P1 = Own

\* A set-up from any state of the radio leaves it listening on pipe 1 with an
\* empty transmit FIFO: nothing of the last user's packets is sent.
SetupListens ==
    phase = "ready" => /\ chip.PWR_UP /\ chip.PRIM_RX /\ chip.CE /\ chip.tx = 0
                       /\ chip.P1 = Own /\ 1 \in chip.PW
                       /\ setup # "prx" => 1 \in chip.EN_RXADDR

\* The radio as the handler takes it over, whatever it did before the restart
\* and whatever arrived meanwhile: it listens to its own address only, sends
\* nothing old, and has announced what it holds.
SetupClean == SetupAnnounces /\ SetupOwnOnly /\ SetupListens

SetupSpec ==
    SetupInit /\ [][SetupNext]_setup_vars /\ WF_setup_vars(SetupStep \/ set_nrf_left)

\* A set-up ends.  It does not hold: an event between nrf_interrupt_init and
\* set_nrf_left interrupts for ever.
SetupEnds == <>(phase # "setup")

\* The receiving radio of a restarted router listens on no pipe, as node_addr is
\* empty.  It does not hold: nrf_init_router_prx leaves EN_RXADDR as it is.
SetupPipesClosed == phase = "ready" /\ setup = "prx" => chip.EN_RXADDR = {}
=============================================================================
