-------------------------------- MODULE Uart --------------------------------
(***************************************************************************)
(* The mini UART: the polled driver (uart.c), the driver with interrupts   *)
(* (uart-interrupt.c) and the change from one to the other when the        *)
(* threads start and end.  One thread uses it at a time, the owner of the  *)
(* stdio lock.  Bytes are numbered in the order they are typed or printed; *)
(* 0 is a NUL that the driver sends by itself.                             *)
(***************************************************************************)
EXTENDS Naturals, Sequences, FiniteSets

CONSTANTS
    UFifo,        \* bytes the two FIFOs of the UART hold
    UQueue,       \* bytes the stdin and stdout queues hold
    UTyped,       \* bound: bytes typed
    UPrinted      \* bound: bytes printed

VARIABLES
    out_int,      \* USE_OUT_INTERRUPTS
    stage,        \* "boot" (polled), "threads" (interrupts), "reset" or "after" (polled)
    rxf, txf,     \* the FIFOs
    ier,          \* AUX_MU_IER: the interrupts that are on
    getQ, putQ,   \* the queues of stdin and stdout
    upc,          \* step of the thread
    seen,         \* AUX_MU_IER as the thread read it
    isr,          \* step of int_vector_uart_pre_threads
    typed, printed,   \* bytes so far
    taken,        \* bytes the program has read
    shown,        \* bytes sent on the line
    entered       \* history: bytes put into txf since the threads started

uart_vars == <<out_int, stage, rxf, txf, ier, getQ, putQ, upc, seen, isr, typed, printed, taken, shown, entered>>
uart_hist == <<typed, printed, taken>>
uart_dev == <<rxf, txf, shown, entered>>

UartInit ==
    /\ out_int \in BOOLEAN /\ stage = "boot" /\ rxf = <<>> /\ txf = <<>> /\ ier = {}
    /\ getQ = <<>> /\ putQ = <<>> /\ upc = "idle" /\ seen = {} /\ isr = "idle"
    /\ typed = 0 /\ printed = 0 /\ taken = <<>> /\ shown = <<>> /\ entered = {}

-----------------------------------------------------------------------------
(* The device.  Every read of AUX_MU_IO takes a byte out of the receive      *)
(* FIFO, also the reads that uart_get8 and uart_put8 do before they write.  *)

Bytes(q) == {q[i] : i \in 1 .. Len(q)}
ReadIo(f) == IF f = <<>> THEN f ELSE Tail(f)
WriteIo(f, c) == IF Len(f) < UFifo THEN Append(f, c) ELSE f

uart_has_data == rxf # <<>>

\* Mutant: the bit of the receive FIFO is tested.
CanPutWrongBit == uart_has_data

uart_can_put8 == Len(txf) < UFifo

Put(c) ==
    /\ rxf' = ReadIo(rxf) /\ txf' = WriteIo(txf, c)
    /\ entered' = entered \cup (Bytes(txf') \ {0})

\* uart_get8, with Head(rxf) as its result: a second read, and a NUL is sent.
Get ==
    /\ rxf' = ReadIo(ReadIo(rxf)) /\ txf' = WriteIo(txf, 0)
    /\ UNCHANGED entered

\* A byte is typed; one that does not fit is lost.
Type ==
    /\ typed < UTyped /\ stage # "reset"
    /\ typed' = typed + 1 /\ rxf' = WriteIo(rxf, typed')
    /\ UNCHANGED <<out_int, stage, txf, ier, getQ, putQ, upc, seen, isr, printed, taken, shown, entered>>

Transmit ==
    /\ txf # <<>>
    /\ txf' = Tail(txf) /\ shown' = Append(shown, Head(txf))
    /\ UNCHANGED <<out_int, stage, rxf, ier, getQ, putQ, upc, seen, isr, uart_hist, entered>>

RxPending == "rx" \in ier /\ uart_has_data
TxPending == "tx" \in ier /\ uart_can_put8
Interrupted == stage = "threads" /\ (isr # "idle" \/ RxPending \/ TxPending)

-----------------------------------------------------------------------------
(* int_vector_uart_pre_threads. *)

IsrStart ==
    /\ stage = "threads" /\ isr = "idle"
    /\ isr' \in (IF RxPending THEN {"rx"} ELSE {}) \cup (IF TxPending THEN {"tx"} ELSE {})
    /\ UNCHANGED <<out_int, stage, uart_dev, ier, getQ, putQ, upc, seen, uart_hist>>

IsrTx ==
    /\ isr = "tx"
    /\ \/ /\ ~uart_can_put8 /\ isr' = "idle"
          /\ UNCHANGED <<rxf, txf, entered, ier, putQ>>
       \/ /\ uart_can_put8 /\ putQ = <<>>
          /\ ier' = ier \ {"tx"} /\ isr' = "idle"
          /\ UNCHANGED <<rxf, txf, entered, putQ>>
       \/ /\ uart_can_put8 /\ putQ # <<>>
          /\ Put(Head(putQ)) /\ putQ' = Tail(putQ)
          /\ UNCHANGED <<ier, isr>>
    /\ UNCHANGED <<out_int, stage, shown, getQ, upc, seen, uart_hist>>

\* With a full queue the byte stays in the FIFO, and the interrupt comes again.
IsrRx ==
    /\ isr = "rx"
    /\ IF uart_has_data /\ Len(getQ) < UQueue
       THEN getQ' = Append(getQ, Head(rxf)) /\ Get /\ UNCHANGED isr
       ELSE isr' = "idle" /\ UNCHANGED <<getQ, rxf, txf, entered>>
    /\ UNCHANGED <<out_int, stage, shown, ier, putQ, upc, seen, uart_hist>>

Isr == IsrStart \/ IsrTx \/ IsrRx

-----------------------------------------------------------------------------
(* The thread.  AUX_MU_IER is read and written back in two steps. *)

At(step) == upc = step /\ ~Interrupted

ReadIer(from, to) ==
    /\ At(from) /\ seen' = ier /\ upc' = to
    /\ UNCHANGED <<out_int, stage, uart_dev, ier, getQ, putQ, isr, uart_hist>>

uart_disable_interrupt(from, i, to) ==
    /\ At(from) /\ ier' = seen \ {i} /\ upc' = to
    /\ UNCHANGED <<out_int, stage, uart_dev, getQ, putQ, seen, isr, uart_hist>>

uart_enable_interrupt(from, i, to) ==
    /\ At(from) /\ ier' = seen \cup {i} /\ upc' = to
    /\ UNCHANGED <<out_int, stage, uart_dev, getQ, putQ, seen, isr, uart_hist>>

QueuedOutput == out_int /\ stage = "threads"

\* rpi_putchar: uart_put8 tests for space, then reads and writes AUX_MU_IO.
Putchar ==
    /\ At("idle") \/ At("printing")
    /\ stage # "reset" /\ printed < UPrinted
    /\ printed' = printed + 1 /\ upc' = IF QueuedOutput THEN "put_rd" ELSE "can_put"
    /\ UNCHANGED <<out_int, stage, uart_dev, ier, getQ, putQ, seen, isr, typed, taken>>

CanPut ==
    /\ At("can_put") /\ uart_can_put8 /\ upc' = "put"
    /\ UNCHANGED <<out_int, stage, uart_dev, ier, getQ, putQ, seen, isr, uart_hist>>

uart_put8 ==
    /\ At("put") /\ Put(printed) /\ upc' = "idle"
    /\ UNCHANGED <<out_int, stage, shown, ier, getQ, putQ, seen, isr, uart_hist>>

\* Mutant: a byte that does not fit is sent at once.
PushDirect ==
    /\ At("push") /\ upc' = "put_on"
    /\ IF Len(putQ) < UQueue THEN putQ' = Append(putQ, printed) /\ UNCHANGED <<rxf, txf, entered>>
                             ELSE Put(printed) /\ UNCHANGED putQ
    /\ UNCHANGED <<out_int, stage, shown, ier, getQ, seen, isr, uart_hist>>

\* uart_putc_int with the transmit interrupt off; without room the byte is dropped.
PushOut ==
    /\ At("push") /\ upc' = "put_on"
    /\ putQ' = IF Len(putQ) < UQueue THEN Append(putQ, printed) ELSE putQ
    /\ UNCHANGED <<out_int, stage, uart_dev, ier, getQ, seen, isr, uart_hist>>

uart_putc_int ==
    \/ ReadIer("put_rd", "put_off") \/ uart_disable_interrupt("put_off", "tx", "push")
    \/ PushOut
    \/ ReadIer("put_on", "put_en") \/ uart_enable_interrupt("put_en", "tx", "printing")

\* WAIT_STDOUT: the printk returns when the queue is empty.
WaitStdoutDone ==
    /\ At("printing") /\ putQ = <<>> /\ upc' = "idle"
    /\ UNCHANGED <<out_int, stage, uart_dev, ier, getQ, putQ, seen, isr, uart_hist>>

\* uart_int_getchar: uart_getc_int again and again until there is a byte.
Scank ==
    /\ At("idle") /\ stage = "threads" /\ upc' = "get_rd"
    /\ UNCHANGED <<out_int, stage, uart_dev, ier, getQ, putQ, seen, isr, uart_hist>>

PopIn ==
    /\ At("pop")
    /\ IF getQ = <<>> THEN upc' = "get_on" /\ UNCHANGED <<getQ, taken>>
       ELSE upc' = "got_on" /\ getQ' = Tail(getQ) /\ taken' = Append(taken, Head(getQ))
    /\ UNCHANGED <<out_int, stage, uart_dev, ier, putQ, seen, isr, typed, printed>>

uart_getc_int ==
    \/ ReadIer("get_rd", "get_off") \/ uart_disable_interrupt("get_off", "rx", "pop")
    \/ PopIn
    \/ ReadIer("get_on", "get_en") \/ uart_enable_interrupt("get_en", "rx", "get_rd")
    \/ ReadIer("got_on", "got_en") \/ uart_enable_interrupt("got_en", "rx", "end_stdin")

\* The system call at the end of scank runs with interrupts off.
EndStdinCall ==
    /\ At("end_stdin") /\ ier' = ier \ {"rx"} /\ upc' = "idle"
    /\ UNCHANGED <<out_int, stage, uart_dev, getQ, putQ, seen, isr, uart_hist>>

-----------------------------------------------------------------------------
(* From polling to interrupts and back. *)

\* pre_thread_start calls uart_init_int: both FIFOs are cleared.
uart_init_int ==
    /\ stage = "boot" /\ upc = "idle" /\ stage' = "threads"
    /\ rxf' = <<>> /\ txf' = <<>> /\ entered' = {}
    /\ getQ' = <<>> /\ putQ' = <<>> /\ ier' = IF out_int THEN {} ELSE {"tx"}
    /\ UNCHANGED <<out_int, shown, upc, seen, isr, uart_hist>>

\* uart_reset_int_off when the threads have ended: both interrupts off.
uart_reset_int_off ==
    /\ At("idle") /\ stage = "threads" /\ stage' = "reset" /\ ier' = {}
    /\ UNCHANGED <<out_int, uart_dev, getQ, putQ, upc, seen, isr, uart_hist>>

\* uart_disable waits in uart_flush_tx.
uart_tx_is_empty == txf = <<>>

\* uart_disable and uart_init, which clears the FIFOs.
uart_init ==
    /\ stage = "reset" /\ uart_tx_is_empty /\ stage' = "after"
    /\ rxf' = <<>> /\ txf' = <<>>
    /\ UNCHANGED <<out_int, ier, getQ, putQ, upc, seen, isr, uart_hist, shown, entered>>

UThread ==
    \/ Putchar \/ CanPut \/ uart_put8 \/ uart_putc_int \/ WaitStdoutDone
    \/ Scank \/ uart_getc_int \/ EndStdinCall

UartNext == Type \/ Transmit \/ Isr \/ UThread \/ uart_init_int \/ uart_reset_int_off \/ uart_init

\* The transmitter sends, the handler runs to its end, and the program, which
\* need not print or read, finishes what it has started.
UWork == CanPut \/ uart_put8 \/ uart_putc_int \/ WaitStdoutDone \/ uart_getc_int \/ EndStdinCall

-----------------------------------------------------------------------------
(* Properties. *)

Rising(q) == \A i, j \in 1 .. Len(q) : i < j => q[i] < q[j]

\* Bytes go from the line through FIFO, interrupt and queue to the program in
\* the order they were typed, and none twice, whatever is lost on the way.
InputInOrder == Rising(taken \o getQ \o rxf)

\* The same for output, through the queue of the interrupt or polled, whatever
\* NULs the driver sends between the bytes.
OutputInOrder ==
    LET q == shown \o txf \o putQ
    IN  \A i, j \in 1 .. Len(q) : i < j /\ 0 \notin {q[i], q[j]} => q[i] < q[j]

\* When the UART goes back to polling, every byte that entered the transmit
\* FIFO while the threads ran has been sent.
FlushedAtReset == stage = "after" /\ upc = "idle" => entered \subseteq Bytes(shown) \cup Bytes(txf)

\* Both directions keep the order of the bytes through their queues, and the
\* switch between interrupts and polling loses none that was on its way out.
UartRight == InputInOrder /\ OutputInOrder /\ FlushedAtReset

\* The queue is full and the receive interrupt repeats: no thread runs.
Drowned == RxPending /\ Len(getQ) = UQueue

\* A thread that waits for input gets a byte that is there, although the
\* receive interrupt is turned off and on around every look at the queue.
ReaderGetsByte ==
    (upc \in {"get_rd", "get_off", "pop", "get_on", "get_en"} /\ rxf # <<>>)
        ~> (upc \in {"got_on", "got_en", "end_stdin", "idle"} \/ Drowned)

\* Queued output drains: the transmit interrupt is never left off for it.
OutputDrains == putQ # <<>> ~> (putQ = <<>> \/ Drowned)

\* uart_get8 "returns one byte from the rx queue": a step of the receive handler
\* moves bytes from the FIFO to the queue and loses none.  It does not hold: the
\* read before the NUL is written takes the next byte.
InputComplete ==
    [][isr = "rx" /\ typed' = typed => Len(getQ') + Len(rxf') = Len(getQ) + Len(rxf)]_uart_vars

\* A thread with a full stdin queue goes on reading, as the comment "drop data!"
\* has it.  It does not hold: the byte is not dropped and interrupts repeat.
ReaderNotDrowned == Drowned ~> ~Drowned

\* What was printed before the threads start is shown.  It does not hold:
\* uart_init_int clears the FIFO without waiting.
BootOutputShown == stage = "threads" /\ printed = 1 /\ upc = "idle" => 1 \in Bytes(shown) \cup Bytes(txf)

UartSpec ==
    /\ UartInit /\ [][UartNext]_uart_vars
    /\ WF_uart_vars(Transmit) /\ WF_uart_vars(Isr) /\ WF_uart_vars(UWork)
=============================================================================
