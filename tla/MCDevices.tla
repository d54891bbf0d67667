----------------------------- MODULE MCDevices ------------------------------
(***************************************************************************)
(* The devices and their queues, of which a behaviour takes one part: the  *)
(* ring buffer, the set-up of a radio, a send that waits, the registration *)
(* at the router, the UART, and the order of start-up.                     *)
(***************************************************************************)
EXTENDS CircularQueue, NrfSetup, NrfSend, NrfRouter, Uart, Boot

VARIABLE part

devVars == <<vars, setup_vars, send_vars, rt_vars, uart_vars, boot_vars, part>>

\* Every part starts; one that does not move has one initial state.
DevInit ==
    /\ part \in {"queue", "setup", "send", "router", "uart", "boot"}
    /\ Init /\ BootInit
    /\ SetupInit
    /\ part # "setup" => setup = "dfs" /\ ~irq_on /\ chip = CHOOSE c \in ChipLeft : TRUE
    /\ SendInit
    /\ part # "send" => how = "poll" /\ ~gpio_irq
    /\ RtInit
    /\ part # "router" => rt_open = {} /\ full_len /\ chosen = CHOOSE c \in [RtNode -> RtAddr] : TRUE
    /\ UartInit
    /\ part # "uart" => ~out_int

DevNext ==
    /\ \/ part = "queue" /\ Next /\ UNCHANGED <<setup_vars, send_vars, rt_vars, uart_vars, boot_vars>>
       \/ part = "setup" /\ SetupNext /\ UNCHANGED <<vars, send_vars, rt_vars, uart_vars, boot_vars>>
       \/ part = "send" /\ SendNext /\ UNCHANGED <<vars, setup_vars, rt_vars, uart_vars, boot_vars>>
       \/ part = "router" /\ RtNext /\ UNCHANGED <<vars, setup_vars, send_vars, uart_vars, boot_vars>>
       \/ part = "uart" /\ UartNext /\ UNCHANGED <<vars, setup_vars, send_vars, rt_vars, boot_vars>>
       \/ part = "boot" /\ BootNext /\ UNCHANGED <<vars, setup_vars, send_vars, rt_vars, uart_vars>>
    /\ UNCHANGED part

\* The fairness of each module, for the part that moves.
DevFairness ==
    /\ WF_vars(part = "queue" /\ (PushWrite \/ PushPublish)) /\ WF_vars(part = "queue" /\ Consume)
    /\ WF_send_vars(part = "send" /\ Transmitted) /\ WF_send_vars(part = "send" /\ IntrHandler)
    /\ SF_send_vars(part = "send" /\ (nrf_get_pkts \/ Load \/ Back \/ WaitSent))
    /\ WF_send_vars(part = "send" /\ Poll)
    /\ WF_rt_vars(part = "router" /\ Router)
    /\ \A n \in RtNode : WF_rt_vars(part = "router" /\ RtNodeStep(n))
    /\ WF_uart_vars(part = "uart" /\ Transmit) /\ WF_uart_vars(part = "uart" /\ Isr)
    /\ WF_uart_vars(part = "uart" /\ UWork)

DevSpec == DevInit /\ [][DevNext]_devVars /\ DevFairness

-----------------------------------------------------------------------------

\* Every device goes on: a byte accepted by the ring buffer is delivered, a send
\* returns, the router ends its phase, a reader of the UART gets its byte and
\* queued output drains.
DevicesGoOn ==
    /\ AcceptedIsDelivered /\ SendReturns /\ RouterEnds
    /\ ReaderGetsByte /\ OutputDrains
=============================================================================
