-------------------------------- MODULE Boot --------------------------------
(***************************************************************************)
(* Start-up of one Pi: the flags of global.c that keep a device from being *)
(* set up twice, the table of interrupt handlers and the enabling of       *)
(* interrupts.  A program starts masters, chunkservers or clients, before  *)
(* the threads or in one of them, and may start the threads again after    *)
(* they have ended.                                                        *)
(***************************************************************************)
EXTENDS Naturals, FiniteSets

CONSTANTS
    BootServers,  \* bound: servers and clients started
    BootStarts    \* bound: calls of pre_thread_start

VARIABLES
    ready,        \* the flags that are set
    interrupt_on, \* of uart-interrupt.c
    vector,       \* the interrupt vectors are those of the threads
    handler_ptr,  \* interrupts that have a handler
    irq,          \* interrupts that are enabled
    masked,       \* the I bit of the processor
    running,      \* "main", "threads" or "dead" (an assertion failed)
    nic,          \* the radio registered as NRF_LEFT and as NRF_RIGHT, 0 for NULL
    done,         \* how often the card was mounted, the heap and the vectors set up
    starts, servers,
    late          \* history: radios set up after the vectors

boot_vars == <<ready, interrupt_on, vector, handler_ptr, irq, masked, running, nic, done, starts, servers, late>>

Side == {"left", "right"}
Unset(flag) == flag \notin ready

\* _cstart: uart_init; interrupts are off.
BootInit ==
    /\ ready = {"uart"} /\ interrupt_on = FALSE /\ vector = FALSE
    /\ handler_ptr = {} /\ irq = {} /\ masked = TRUE /\ running = "main"
    /\ nic = [s \in Side |-> 0] /\ done = [d \in {"mount", "heap", "vector"} |-> 0]
    /\ starts = 0 /\ servers = 0 /\ late = {}

-----------------------------------------------------------------------------
(* Servers. *)

\* The flags that _kmalloc_init and fs_init find unset, and set.
FoundUnset == {f \in {"kmalloc", "fat32"} : Unset(f)}

\* master_fat32_init and chunkserver_fat32_init; a client has no file system.
fat32_init(has_fs, flags) ==
    /\ ready' = ready \cup flags \cup (IF has_fs THEN {"kmalloc", "fat32"} ELSE {})
    /\ done' = IF has_fs THEN [done EXCEPT !["mount"] = IF "fat32" \in FoundUnset THEN @ + 1 ELSE @,
                                           !["heap"] = IF "kmalloc" \in FoundUnset THEN @ + 1 ELSE @]
               ELSE done

\* dfs_nrf_init turns on the interrupt of the pin; a third radio is NULL.
InitRadio(s, has_fs) ==
    LET n == IF Unset("nrf1") THEN 1 ELSE IF Unset("nrf2") THEN 2 ELSE 0
    IN  /\ nic' = [nic EXCEPT ![s] = n]
        /\ fat32_init(has_fs, IF n = 1 THEN {"nrf1"} ELSE {"nrf1", "nrf2"})
        /\ IF n = 0 THEN UNCHANGED <<handler_ptr, irq, late>>
           ELSE /\ handler_ptr' = handler_ptr \cup {"gpio"} /\ irq' = irq \cup {"gpio"}
                /\ late' = IF vector THEN late \cup {n} ELSE late

\* dfs_init_master, dfs_init_chunkserver (with a file system) or dfs_init_client.
StartServer(s, has_fs) ==
    /\ running \in {"main", "threads"} /\ servers < BootServers
    /\ InitRadio(s, has_fs) /\ servers' = servers + 1
    /\ UNCHANGED <<interrupt_on, vector, masked, running, starts>>

-----------------------------------------------------------------------------
(* Threads. *)

\* Mutant: the vectors are set up at every start.
VecAlways == [irq |-> irq \cap {"timer"}, first |-> 1]

\* Interrupts of the UART and the pins are turned off, the timer's is not.
int_vec_init ==
    IF Unset("int_vector") THEN [irq |-> irq \cap {"timer"}, first |-> 1]
    ELSE [irq |-> irq, first |-> 0]

register_handlers == {"timer", "uart"}

\* uart_init_int returns early only if the interrupts are on.
uart_init_int_enables == Unset("uart") \/ ~interrupt_on

\* timer_interrupt_turnon, then the other devices; the assertions on the mode.
pre_thread_start ==
    /\ running = "main" /\ starts < BootStarts
    /\ LET v == int_vec_init
       IN  /\ irq' = v.irq \cup {"timer"} \cup (IF uart_init_int_enables THEN {"uart"} ELSE {})
           /\ done' = [done EXCEPT !["vector"] = @ + v.first, !["heap"] = IF Unset("kmalloc") THEN @ + 1 ELSE @]
    /\ vector' = TRUE /\ handler_ptr' = handler_ptr \cup register_handlers
    /\ ready' = ready \cup {"int_vector", "uart", "kmalloc"}
    /\ interrupt_on' = (interrupt_on \/ uart_init_int_enables)
    /\ running' = IF masked THEN "threads" ELSE "dead"
    /\ masked' = FALSE /\ starts' = starts + 1
    /\ UNCHANGED <<nic, servers, late>>

\* The last thread has exited: the scheduler runs with interrupts off and
\* uart_reset_int_off goes back to polling.
ThreadsEnd ==
    /\ running = "threads" /\ running' = "main" /\ masked' = TRUE
    /\ interrupt_on' = FALSE
    /\ UNCHANGED <<ready, vector, handler_ptr, irq, nic, done, starts, servers, late>>

BootNext ==
    \/ \E s \in Side, has_fs \in BOOLEAN : StartServer(s, has_fs)
    \/ pre_thread_start \/ ThreadsEnd

-----------------------------------------------------------------------------
(* Properties. *)

\* While threads run, with interrupts on, every interrupt that is enabled goes
\* through the vectors of the threads to a handler, in whatever order servers
\* and threads were started.
HandlersReady == ~masked => vector /\ irq \subseteq handler_ptr

\* The card is mounted, the heap set up and the vectors written once, however
\* many servers share the Pi and however often the threads are started.
SetUpOnce == \A d \in DOMAIN done : done[d] <= 1

\* A radio set up in a thread keeps its interrupt, also when the threads have
\* ended and are started again.
LateRadioHeard == late # {} => "gpio" \in irq

\* In every order of starting servers and threads, nothing is set up twice and
\* no interrupt is enabled that has no handler, or stays off for a late radio.
StartUpSound == HandlersReady /\ SetUpOnce /\ LateRadioHeard

\* Every radio that is registered has its interrupt enabled while threads run.
\* It does not hold: int_vec_init turns it off for radios set up before.
RadioHeard == ~masked /\ (\E s \in Side : nic[s] # 0) => "gpio" \in irq

\* A registered radio stays registered.  It does not hold: a third server on the
\* same side is given NULL and registers that.
RadioKept == [][\A s \in Side : nic[s] # 0 => nic'[s] # 0]_boot_vars

BootSpec == BootInit /\ [][BootNext]_boot_vars
=============================================================================
