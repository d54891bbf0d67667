-------------------------- MODULE PreemptiveThreads --------------------------
(***************************************************************************)
(* The preemptive scheduler and the stdio lock it hands out                *)
(* (preemptive-threads/preemptive-thread.c, thread-safe-io.c).  Handlers   *)
(* of interrupts and system calls and the scheduler run with interrupts    *)
(* off, so each is one action; a timer interrupt may fall between any two  *)
(* actions of a thread.  Output is polled (USE_OUT_INTERRUPTS is 0), so    *)
(* the stdout queue is always empty, and sys-call.c issues REQUEST_STDOUT  *)
(* for REQUEST_STDIN: no thread ever waits in wait_stdout_thread or        *)
(* wait_stdin_thread.                                                      *)
(***************************************************************************)
EXTENDS Integers, Sequences

CONSTANTS
    ForkOrder,  \* tids of the threads, in the order pre_fork queued them
    MaxOps,     \* bound on the printk and scank calls of a thread
    StdinCap    \* lines the stdin queue holds

ASSUME ThreadAssumption ==
    /\ ForkOrder \in Seq(Nat \ {0})
    /\ \A i, j \in 1 .. Len(ForkOrder) : ForkOrder[i] = ForkOrder[j] => i = j
    /\ MaxOps \in Nat /\ StdinCap \in Nat

Thread == {ForkOrder[i] : i \in 1 .. Len(ForkOrder)}

Scheduler == 0
Returned == -1    \* pre_thread_start has returned

VARIABLES
    runq, blockq,   \* queues of threads
    cur_thread,
    stdio_tid,      \* the lock: 0 when free
    block_reason,
    pc,             \* where each thread is in its code
    ops,            \* stdio calls each thread has started
    stdin           \* lines in the stdin queue

vars == <<runq, blockq, cur_thread, stdio_tid, block_reason, pc, ops, stdin>>

Init ==
    /\ runq = ForkOrder /\ blockq = << >>
    /\ cur_thread = Scheduler /\ stdio_tid = 0
    /\ block_reason = [t \in Thread |-> "NONE"]
    /\ pc = [t \in Thread |-> "ready"]
    /\ ops = [t \in Thread |-> 0]
    /\ stdin = 0

stdio_is_idle(t) == stdio_tid \in {0, t}

-----------------------------------------------------------------------------
(* The scheduler: one pass of the loop of pre_thread_start. *)

\* The threads at the front of blockq that wait for stdio are made runnable
\* when the lock is free.
woken ==
    IF stdio_tid # 0 THEN 0
    ELSE CHOOSE n \in 0 .. Len(blockq) :
             /\ \A i \in 1 .. n : block_reason[blockq[i]] = "STDIO"
             /\ n < Len(blockq) => block_reason[blockq[n + 1]] # "STDIO"

candidates == runq \o SubSeq(blockq, 1, woken)
stillBlocked == SubSeq(blockq, woken + 1, Len(blockq))

Runnable(t) == stdio_is_idle(t) \/ block_reason[t] = "NONE"

\* A thread switched to comes back from the system call that blocked it.
SyscallReturns(p) ==
    CASE p = "wait_print" -> "printing"
      [] p = "wait_scan" -> "scanning"
      [] OTHER -> p

\* Mutant: the lock is not given to the blocked thread that is resumed.
GrantNothing(t) == stdio_tid

\* The thread resumed because of stdio becomes the owner of the lock.
Grant(t) == IF block_reason[t] = "STDIO" THEN t ELSE stdio_tid

\* The first candidate that may run is switched to; those before it are moved
\* to blockq.  If there is none the loop goes round again.
Schedule ==
    /\ cur_thread = Scheduler
    /\ runq # << >> \/ blockq # << >>
    /\ \E k \in 1 .. Len(candidates) + 1 :
        /\ \A j \in 1 .. k - 1 : ~Runnable(candidates[j])
        /\ blockq' = stillBlocked \o SubSeq(candidates, 1, k - 1)
        /\ runq' = SubSeq(candidates, k + 1, Len(candidates))
        /\ IF k <= Len(candidates)
           THEN LET t == candidates[k] IN
                /\ Runnable(t)
                /\ cur_thread' = t /\ stdio_tid' = Grant(t)
                /\ pc' = [pc EXCEPT ![t] = SyscallReturns(@)]
           ELSE UNCHANGED <<cur_thread, stdio_tid, pc>>
    /\ UNCHANGED <<block_reason, ops, stdin>>

Return ==
    /\ cur_thread = Scheduler /\ runq = << >> /\ blockq = << >>
    /\ cur_thread' = Returned
    /\ UNCHANGED <<runq, blockq, stdio_tid, block_reason, pc, ops, stdin>>

-----------------------------------------------------------------------------
(* Interrupts. *)

\* Mutant: the preempted thread is not put back on the run queue.
TimerLosesThread ==
    /\ cur_thread \in Thread
    /\ cur_thread' = Scheduler
    /\ UNCHANGED <<runq, blockq, stdio_tid, block_reason, pc, ops, stdin>>

\* int_vector_pre_threads.
Timer ==
    /\ cur_thread \in Thread
    /\ runq' = Append(runq, cur_thread)
    /\ cur_thread' = Scheduler
    /\ UNCHANGED <<blockq, stdio_tid, block_reason, pc, ops, stdin>>

\* int_vector_uart_pre_threads: a line that does not fit is not taken.  That the
\* interrupt then repeats at once is left to Uart (ReaderNotDrowned).
Receive ==
    /\ cur_thread \in Thread
    /\ stdin' = IF stdin < StdinCap THEN stdin + 1 ELSE stdin
    /\ UNCHANGED <<runq, blockq, cur_thread, stdio_tid, block_reason, pc, ops>>

-----------------------------------------------------------------------------
(* What a thread does when it runs. *)

\* The REQUEST_STDOUT system call; asked is where the thread waits if another
\* thread has stdio, granted where it goes on.
Request(t, asked, granted) ==
    /\ ops' = [ops EXCEPT ![t] = @ + 1]
    /\ block_reason' = [block_reason EXCEPT ![t] = "STDIO"]
    /\ IF stdio_is_idle(t)
       THEN /\ stdio_tid' = t
            /\ pc' = [pc EXCEPT ![t] = granted]
            /\ UNCHANGED <<blockq, cur_thread>>
       ELSE /\ blockq' = Append(blockq, t)
            /\ cur_thread' = Scheduler
            /\ pc' = [pc EXCEPT ![t] = asked]
            /\ UNCHANGED stdio_tid
    /\ UNCHANGED <<runq, stdin>>

\* _thread_safe_printk: the first call, and the one that follows every scank.
Printk(t) ==
    /\ cur_thread = t
    /\ pc[t] = "scanned" \/ (pc[t] = "ready" /\ ops[t] < MaxOps)
    /\ Request(t, "wait_print", "printing")

\* _thread_safe_scank.
Scan(t) ==
    /\ cur_thread = t /\ pc[t] = "ready" /\ ops[t] < MaxOps
    /\ Request(t, "wait_scan", "scanning")

\* Mutant: WAIT_STDOUT does not release the lock.
WaitStdoutKeepsLock(t) ==
    /\ cur_thread = t /\ pc[t] = "printing"
    /\ block_reason' = [block_reason EXCEPT ![t] = "NONE"]
    /\ pc' = [pc EXCEPT ![t] = "ready"]
    /\ UNCHANGED <<runq, blockq, cur_thread, stdio_tid, ops, stdin>>

\* The WAIT_STDOUT system call at the end of a printk.
WaitStdout(t) ==
    /\ cur_thread = t /\ pc[t] = "printing"
    /\ stdio_tid' = 0
    /\ block_reason' = [block_reason EXCEPT ![t] = "NONE"]
    /\ pc' = [pc EXCEPT ![t] = "ready"]
    /\ UNCHANGED <<runq, blockq, cur_thread, ops, stdin>>

\* vscank; with no input it repeats the request, which its owner is granted.
ReadLine(t) ==
    /\ cur_thread = t /\ pc[t] = "scanning" /\ stdin > 0
    /\ stdin' = stdin - 1
    /\ pc' = [pc EXCEPT ![t] = "line_read"]
    /\ UNCHANGED <<runq, blockq, cur_thread, stdio_tid, block_reason, ops>>

\* The END_STDIN system call: it clears the block_reason of
\* wait_stdout_thread, which is NULL, not that of the caller.
EndStdin(t) ==
    /\ cur_thread = t /\ pc[t] = "line_read"
    /\ stdio_tid' = 0
    /\ pc' = [pc EXCEPT ![t] = "scanned"]
    /\ UNCHANGED <<runq, blockq, cur_thread, block_reason, ops, stdin>>

\* pre_exit.
Exit(t) ==
    /\ cur_thread = t /\ pc[t] = "ready"
    /\ pc' = [pc EXCEPT ![t] = "exited"]
    /\ cur_thread' = Scheduler
    /\ UNCHANGED <<runq, blockq, stdio_tid, block_reason, ops, stdin>>

Step(t) == Printk(t) \/ Scan(t) \/ WaitStdout(t) \/ ReadLine(t) \/ EndStdin(t) \/ Exit(t)

Next == Schedule \/ Return \/ Timer \/ Receive \/ \E t \in Thread : Step(t)

\* The scheduler and the timer keep running, somebody types, and a thread that
\* is switched to again and again executes its next instruction at last.
Fairness ==
    /\ WF_vars(Schedule) /\ WF_vars(Return) /\ WF_vars(Timer) /\ SF_vars(Receive)
    /\ \A t \in Thread : SF_vars(Step(t))

Spec == Init /\ [][Next]_vars
FairSpec == Spec /\ Fairness

-----------------------------------------------------------------------------
(* Properties. *)

\* The scheduler's variables have their types.
TypeOK ==
    /\ runq \in Seq(Thread) /\ blockq \in Seq(Thread)
    /\ cur_thread \in Thread \cup {Scheduler, Returned}
    /\ stdio_tid \in Thread \cup {0}
    /\ block_reason \in [Thread -> {"NONE", "STDIO"}]
    /\ pc \in [Thread -> {"ready", "wait_print", "printing", "wait_scan", "scanning",
                          "line_read", "scanned", "exited"}]
    /\ ops \in [Thread -> Nat] /\ stdin \in 0 .. StdinCap

\* How often a thread is held by the scheduler's data.
Places(t) ==
    LET In(q) == {i \in 1 .. Len(q) : q[i] = t} IN
    <<In(runq), In(blockq), IF cur_thread = t THEN {0} ELSE {}>>

\* Every thread that has not exited is in exactly one place, on a queue once
\* or running, and one that has exited is nowhere: no handler loses a thread
\* or queues it twice.
OnePlace ==
    \A t \in Thread :
        LET all == (Places(t)[1] \X {1}) \cup (Places(t)[2] \X {2}) \cup (Places(t)[3] \X {3}) IN
        IF pc[t] = "exited" THEN all = {} ELSE \E p \in all : all = {p}

\* The thread is between the request that gave it stdio and the call that
\* gives stdio back.
Using(t) == pc[t] \in {"printing", "scanning", "line_read"}

\* Two threads never use stdio at once, although the lock changes hands in
\* three places (the request, the release and the scheduler).
StdioExclusive == \A t, u \in Thread : Using(t) /\ Using(u) => t = u

\* All threads run to completion and pre_thread_start returns: nobody waits
\* for stdio for ever.
AllFinish == (cur_thread \in Thread) ~> (cur_thread = Returned)

\* A request for stdio blocks its thread only while another thread uses stdio.
BlockedOnlyIfUsed ==
    [][\A t \in Thread :
           pc[t] \in {"ready", "scanned"} /\ pc'[t] \in {"wait_print", "wait_scan"}
               => \E u \in Thread \ {t} : Using(u)]_vars
=============================================================================
