---------------------------- MODULE CoopThreads ----------------------------
(***************************************************************************)
(* The thread package without preemption (threads/rpi-thread.c and its     *)
(* context switch).  A thread runs until it yields or exits, so every      *)
(* operation is one step.  Blocks of exited threads are kept on freeq and  *)
(* used again, and with them their stacks and saved contexts.              *)
(***************************************************************************)
EXTENDS Naturals, Sequences, FiniteSets

CONSTANTS
    CoBlock,      \* thread blocks kmalloc can provide, as numbers
    CoForks,      \* bound: calls of rpi_fork
    CoYields      \* bound: calls of rpi_yield

\* Block 0 is the null pointer.
ASSUME CoopAssumption == CoBlock \subseteq Nat \ {0} /\ CoForks \in Nat /\ CoYields \in Nat

VARIABLES
    co_runq, co_freeq,   \* queues of blocks
    co_used,      \* blocks that kmalloc has handed out
    co_cur,       \* cur_thread, 0 before the first start
    co_sched,     \* scheduler_thread, 0 before the first start
    co_tid,       \* tid of each block
    co_ctx,       \* saved context of each block: whose, and where it goes on
    co_next,      \* the next tid
    co_left,      \* forks and yields left
    co_born, co_dead,   \* history: tids forked and exited
    co_waited     \* history: switches each queued block has waited for

co_vars == <<co_runq, co_freeq, co_used, co_cur, co_sched, co_tid, co_ctx, co_next, co_left, co_born, co_dead, co_waited>>

Context(t, where) == [tid |-> t, where |-> where]

CoopInit ==
    /\ co_runq = <<>> /\ co_freeq = <<>> /\ co_used = {} /\ co_cur = 0 /\ co_sched = 0
    /\ co_tid = [b \in CoBlock |-> 0] /\ co_ctx = [b \in CoBlock |-> Context(0, "none")]
    /\ co_next = 1 /\ co_left = [fork |-> CoForks, yield |-> CoYields]
    /\ co_born = {} /\ co_dead = {} /\ co_waited = [b \in CoBlock |-> 0]

\* The caller of rpi_thread_start, not a thread.
InMain == co_cur = co_sched

\* th_alloc: the block freed last, or the next one of kmalloc.
alloc == IF co_freeq # <<>> THEN Head(co_freeq)
         ELSE CHOOSE b \in CoBlock \ co_used : \A c \in CoBlock \ co_used : b <= c
CanAlloc == co_freeq # <<>> \/ co_used # CoBlock

th_alloc(b) ==
    /\ co_freeq' = IF co_freeq # <<>> THEN Tail(co_freeq) ELSE co_freeq
    /\ co_used' = co_used \cup {b}
    /\ co_tid' = [co_tid EXCEPT ![b] = co_next] /\ co_next' = co_next + 1

\* Mutant: the context of the block's last user is kept.
OldContext(b) == IF co_ctx[b].where = "none" THEN Context(co_next, "start") ELSE co_ctx[b]

\* The new stack: saved_sp at its top, with the trampoline as return address.
NewContext(b) == Context(co_next, "start")

rpi_fork ==
    /\ co_left.fork > 0 /\ CanAlloc
    /\ LET b == alloc
       IN  /\ th_alloc(b)
           /\ co_ctx' = [co_ctx EXCEPT ![b] = NewContext(b)]
           /\ co_runq' = Append(co_runq, b)
           /\ co_waited' = [co_waited EXCEPT ![b] = 0]
    /\ co_born' = co_born \cup {co_next} /\ co_left' = [co_left EXCEPT !.fork = @ - 1]
    /\ UNCHANGED <<co_cur, co_sched, co_dead>>

\* Those that still wait after a switch have waited for one more.
Wait(queue) == [b \in CoBlock |-> IF \E i \in 1 .. Len(queue) : queue[i] = b THEN co_waited[b] + 1 ELSE 0]

\* rpi_cswitch: the caller's registers are pushed and its sp is stored.
SaveTo(b) == co_ctx' = [co_ctx EXCEPT ![b] = Context(co_tid[b], "switched")]

QueueBehind(b) == Append(Tail(co_runq), b)

rpi_yield ==
    /\ ~InMain /\ co_runq # <<>> /\ co_left.yield > 0
    /\ co_runq' = QueueBehind(co_cur)
    /\ SaveTo(co_cur) /\ co_cur' = Head(co_runq)
    /\ co_waited' = Wait(co_runq')
    /\ co_left' = [co_left EXCEPT !.yield = @ - 1]
    /\ UNCHANGED <<co_freeq, co_used, co_sched, co_tid, co_next, co_born, co_dead>>

\* rpi_exit: the caller goes on when nobody else is left.
NextThread == IF co_runq = <<>> THEN co_sched ELSE Head(co_runq)

\* The block is freed before the switch away from its stack.
rpi_exit ==
    /\ ~InMain
    /\ co_freeq' = <<co_cur>> \o co_freeq
    /\ co_runq' = IF NextThread = co_sched THEN co_runq ELSE Tail(co_runq)
    /\ SaveTo(co_cur) /\ co_cur' = NextThread
    /\ co_dead' = co_dead \cup {co_tid[co_cur]} /\ co_waited' = Wait(co_runq')
    /\ UNCHANGED <<co_used, co_sched, co_tid, co_next, co_left, co_born>>

\* The first start makes a block for the caller.
rpi_thread_start ==
    /\ InMain /\ co_runq # <<>>
    /\ IF co_sched = 0
       THEN /\ CanAlloc /\ th_alloc(alloc) /\ co_sched' = alloc
            /\ co_ctx' = [co_ctx EXCEPT ![alloc] = Context(co_next, "switched")]
       ELSE UNCHANGED <<co_freeq, co_used, co_tid, co_next, co_sched>> /\ SaveTo(co_sched)
    /\ co_cur' = Head(co_runq) /\ co_runq' = Tail(co_runq)
    /\ co_waited' = Wait(co_runq')
    /\ UNCHANGED <<co_left, co_born, co_dead>>

CoopNext == rpi_fork \/ rpi_yield \/ rpi_exit \/ rpi_thread_start

-----------------------------------------------------------------------------
(* Properties. *)

\* A thread that is switched to goes on with its own context, at its start or
\* where it yielded, never with that of an exited thread whose block it has.
\* The caller of rpi_thread_start goes on only when every thread has exited.
OwnContext ==
    [][/\ co_cur' # co_cur /\ co_cur' # 0
          => co_ctx[co_cur'].tid = co_tid[co_cur'] /\ co_ctx[co_cur'].where # "none"
       /\ ~InMain /\ InMain' => co_born' = co_dead']_co_vars

\* The run queue is fair: a queued thread waits for no more switches than there
\* are threads before it.
FairTurn == \A b \in CoBlock : co_waited[b] < Cardinality(CoBlock)

\* Blocks are never in two places: each is free once, queued once, running, the
\* scheduler's or not handed out yet, and exits and live threads add up to forks.
BlocksExact ==
    LET all == co_runq \o co_freeq IN
    /\ \A i, j \in 1 .. Len(all) : i # j => all[i] # all[j]
    /\ \A i \in 1 .. Len(all) : all[i] \in co_used \ {co_cur, co_sched}
    /\ Cardinality(co_dead) + Len(co_runq) + (IF InMain THEN 0 ELSE 1) = Cardinality(co_born)

CoopSpec == CoopInit /\ [][CoopNext]_co_vars
=============================================================================
