------------------------------- MODULE RunQueue -------------------------------
(***************************************************************************)
(* The linked queues of thread blocks (libpi/libc/Q.h) under the scheduler *)
(* of preemptive-thread.c.  The timer, pre_exit and the scheduler work on  *)
(* them with interrupts off, in one step each.  pre_fork is thread code:   *)
(* it takes its queue operations one memory access at a time, and when     *)
(* ForkMasked is FALSE the timer may preempt it between any two of them,   *)
(* as it may in the client shell.                                          *)
(***************************************************************************)
EXTENDS Integers, Sequences

CONSTANTS
    Block,       \* the thread blocks kmalloc can provide
    First,       \* the thread forked before pre_thread_start
    Null,
    ForkMasked,  \* pre_fork is called with interrupts off
    MaxForks     \* bound on the calls of pre_fork

ASSUME BlockAssumption ==
    First \in Block /\ Null \notin Block /\ ForkMasked \in BOOLEAN /\ MaxForks \in Nat

Queues == {"runq", "freeq"}

VARIABLES
    head, tail, cnt,  \* the fields of the two Q_t
    next,             \* the link of each block
    rq_cur,       \* Null when the scheduler runs
    rq_pc,               \* where the thread of each block is
    e, n, last,       \* locals of each thread in pre_fork: the new block, a
                      \* count and a tail it has loaded
    forks,
    ready             \* history: the threads waiting to run, oldest first

queue == <<head, tail, cnt, next>>
locals == <<e, n, last>>
rqVars == <<queue, rq_cur, rq_pc, locals, forks, ready>>

RqInit ==
    /\ head = [q \in Queues |-> IF q = "runq" THEN First ELSE Null]
    /\ tail = head
    /\ cnt = [q \in Queues |-> IF q = "runq" THEN 1 ELSE 0]
    /\ next = [b \in Block |-> Null]
    /\ rq_cur = Null
    /\ rq_pc = [b \in Block |-> IF b = First THEN "run" ELSE "unused"]
    /\ e = [b \in Block |-> Null] /\ last = e
    /\ n = [b \in Block |-> 0]
    /\ forks = 0
    /\ ready = <<First>>

-----------------------------------------------------------------------------
(* The queue operations as one step. *)

Q_append(q, b) ==
    /\ cnt' = [cnt EXCEPT ![q] = @ + 1]
    /\ tail' = [tail EXCEPT ![q] = b]
    /\ IF tail[q] = Null
       THEN head' = [head EXCEPT ![q] = b] /\ next' = [next EXCEPT ![b] = Null]
       ELSE next' = [next EXCEPT ![b] = Null, ![tail[q]] = b] /\ UNCHANGED head

\* Mutant: the tail is kept when the last block goes.
PopKeepsTail(q) ==
    /\ cnt' = [cnt EXCEPT ![q] = @ - 1]
    /\ head' = [head EXCEPT ![q] = next[head[q]]]
    /\ UNCHANGED <<tail, next>>

Q_pop(q) ==
    /\ cnt' = [cnt EXCEPT ![q] = @ - 1]
    /\ head' = [head EXCEPT ![q] = next[head[q]]]
    /\ tail' = [tail EXCEPT ![q] = IF next[head[q]] = Null THEN Null ELSE @]
    /\ UNCHANGED next

Q_push(q, b) ==
    /\ cnt' = [cnt EXCEPT ![q] = @ + 1]
    /\ next' = [next EXCEPT ![b] = head[q]]
    /\ head' = [head EXCEPT ![q] = b]
    /\ tail' = [tail EXCEPT ![q] = IF @ = Null THEN b ELSE @]

-----------------------------------------------------------------------------
(* The scheduler, the timer and pre_exit. *)

Dispatch ==
    /\ rq_cur = Null /\ head["runq"] # Null
    /\ rq_cur' = head["runq"]
    /\ ready' = IF ready = << >> THEN ready ELSE Tail(ready)
    /\ Q_pop("runq")
    /\ UNCHANGED <<rq_pc, locals, forks>>

RqTimer ==
    /\ rq_cur # Null
    /\ ForkMasked => rq_pc[rq_cur] = "run"
    /\ Q_append("runq", rq_cur)
    /\ ready' = Append(ready, rq_cur)
    /\ rq_cur' = Null
    /\ UNCHANGED <<rq_pc, locals, forks>>

pre_exit ==
    /\ rq_cur # Null /\ rq_pc[rq_cur] = "run"
    /\ Q_push("freeq", rq_cur)
    /\ rq_pc' = [rq_pc EXCEPT ![rq_cur] = "free"]
    /\ rq_cur' = Null
    /\ UNCHANGED <<locals, forks, ready>>

-----------------------------------------------------------------------------
(* pre_fork, one memory access at a time: th_alloc pops freeq, or calls    *)
(* kmalloc, and the new thread is appended to runq.                        *)

At(p) == rq_cur # Null /\ rq_pc[rq_cur] = p
Goto(p) == rq_pc' = [rq_pc EXCEPT ![rq_cur] = p]
Set(x, q, v) == [x EXCEPT ![q] = v]
new == e[rq_cur]

AllocFresh ==
    /\ At("run") /\ forks < MaxForks /\ head["freeq"] = Null
    /\ \E b \in Block :
        /\ rq_pc[b] = "unused"
        /\ e' = Set(e, rq_cur, b)
        /\ rq_pc' = [rq_pc EXCEPT ![rq_cur] = "append", ![b] = "born"]
    /\ forks' = forks + 1
    /\ UNCHANGED <<queue, rq_cur, n, last, ready>>

AllocFree ==
    /\ At("run") /\ forks < MaxForks /\ head["freeq"] # Null
    /\ e' = Set(e, rq_cur, head["freeq"])
    /\ n' = Set(n, rq_cur, cnt["freeq"])
    /\ Goto("pop_cnt") /\ forks' = forks + 1
    /\ UNCHANGED <<queue, rq_cur, last, ready>>

PopCount ==
    /\ At("pop_cnt") /\ Goto("pop_head")
    /\ cnt' = Set(cnt, "freeq", n[rq_cur] - 1)
    /\ UNCHANGED <<head, tail, next, rq_cur, locals, forks, ready>>

PopHead ==
    /\ At("pop_head") /\ Goto("pop_tail")
    /\ head' = Set(head, "freeq", next[new])
    /\ UNCHANGED <<cnt, tail, next, rq_cur, locals, forks, ready>>

PopTail ==
    /\ At("pop_tail")
    /\ tail' = IF head["freeq"] = Null THEN Set(tail, "freeq", Null) ELSE tail
    /\ rq_pc' = [rq_pc EXCEPT ![rq_cur] = "append", ![new] = "born"]
    /\ UNCHANGED <<cnt, head, next, rq_cur, locals, forks, ready>>

AppendStart ==
    /\ At("append") /\ Goto("app_cnt")
    /\ next' = Set(next, new, Null)
    /\ n' = Set(n, rq_cur, cnt["runq"])
    /\ UNCHANGED <<cnt, head, tail, rq_cur, e, last, forks, ready>>

AppendCount ==
    /\ At("app_cnt")
    /\ cnt' = Set(cnt, "runq", n[rq_cur] + 1)
    /\ last' = Set(last, rq_cur, tail["runq"])
    /\ Goto(IF tail["runq"] = Null THEN "app_first" ELSE "app_next")
    /\ UNCHANGED <<head, tail, next, rq_cur, e, n, forks, ready>>

\* head = tail = e: the tail is stored first.
AppendFirst ==
    /\ At("app_first") /\ Goto("app_head")
    /\ tail' = Set(tail, "runq", new)
    /\ UNCHANGED <<cnt, head, next, rq_cur, locals, forks, ready>>

\* pre_fork returns: the new thread is on the queue.
Forked ==
    /\ rq_pc' = [rq_pc EXCEPT ![rq_cur] = "run", ![new] = "run"]
    /\ ready' = Append(ready, new)

AppendHead ==
    /\ At("app_head") /\ Forked
    /\ head' = Set(head, "runq", new)
    /\ UNCHANGED <<cnt, tail, next, rq_cur, locals, forks>>

AppendNext ==
    /\ At("app_next") /\ Goto("app_tail")
    /\ next' = Set(next, last[rq_cur], new)
    /\ UNCHANGED <<cnt, head, tail, rq_cur, locals, forks, ready>>

AppendTail ==
    /\ At("app_tail") /\ Forked
    /\ tail' = Set(tail, "runq", new)
    /\ UNCHANGED <<cnt, head, next, rq_cur, locals, forks>>

pre_fork ==
    \/ AllocFresh \/ AllocFree \/ PopCount \/ PopHead \/ PopTail
    \/ AppendStart \/ AppendCount
    \/ AppendFirst \/ AppendHead \/ AppendNext \/ AppendTail

RqNext == Dispatch \/ RqTimer \/ pre_exit \/ pre_fork

RqSpec == RqInit /\ [][RqNext]_rqVars

-----------------------------------------------------------------------------
(* Properties. *)

\* The fields of the queues and of the blocks have their types; a count that
\* goes below zero is a wrapped unsigned.
RqTypeOK ==
    LET Ptr == Block \cup {Null} IN
    /\ head \in [Queues -> Ptr] /\ tail \in [Queues -> Ptr] /\ cnt \in [Queues -> Nat]
    /\ next \in [Block -> Ptr] /\ rq_cur \in Ptr
    /\ rq_pc \in [Block -> {"unused", "born", "run", "free", "pop_cnt", "pop_head", "pop_tail",
                         "append", "app_cnt", "app_first", "app_head", "app_next", "app_tail"}]
    /\ e \in [Block -> Ptr] /\ last \in [Block -> Ptr] /\ n \in [Block -> Nat]
    /\ forks \in 0 .. MaxForks /\ ready \in Seq(Block)

\* The queue q, followed from its head, is the list s.
Represents(q, s) ==
    /\ cnt[q] = Len(s)
    /\ head[q] = IF s = << >> THEN Null ELSE s[1]
    /\ tail[q] = IF s = << >> THEN Null ELSE s[Len(s)]
    /\ \A i \in 1 .. Len(s) : next[s[i]] = IF i < Len(s) THEN s[i + 1] ELSE Null

Distinct(s) == \A i, j \in 1 .. Len(s) : s[i] = s[j] => i = j
Quiet == \A b \in Block : rq_pc[b] \in {"unused", "run", "free"}

\* Between calls of pre_fork the run queue is a list of the waiting threads in
\* the order they became ready, and every thread that has been forked and has
\* not exited is running or on it once.
NoThreadLost ==
    Quiet =>
        /\ Represents("runq", ready)
        /\ Distinct(ready)
        /\ {ready[i] : i \in 1 .. Len(ready)} = {b \in Block : rq_pc[b] = "run"} \ {rq_cur}

\* Between calls of pre_fork the free list holds exactly the blocks of the
\* threads that have exited, so th_alloc never hands out a block in use.
FreeListExact ==
    Quiet =>
        \E s \in UNION {[1 .. k -> {b \in Block : rq_pc[b] = "free"}] :
                            k \in {cnt["freeq"]}} :
            /\ Represents("freeq", s) /\ Distinct(s)
            /\ {s[i] : i \in 1 .. Len(s)} = {b \in Block : rq_pc[b] = "free"}

\* When the scheduler finds no head, Q_empty's assertions hold: the count is
\* zero and there is no tail.
EmptyAsserts ==
    rq_cur = Null /\ head["runq"] = Null => cnt["runq"] = 0 /\ tail["runq"] = Null
=============================================================================
