----------------------------- MODULE MCThreads ------------------------------
(***************************************************************************)
(* The thread packages, of which a behaviour takes one part: the preemptive*)
(* scheduler with three threads that contend for stdio, its linked queues  *)
(* of four blocks, the cooperative package, and virtual memory.            *)
(***************************************************************************)
EXTENDS PreemptiveThreads, RunQueue, CoopThreads, Vm

VARIABLE part

MCForkOrder == <<1, 2, 3>>

threadVars == <<vars, rqVars, co_vars, vm_vars, part>>

ThreadsInit ==
    /\ part \in {"stdio", "queues", "coop", "vm"} /\ Init /\ RqInit /\ CoopInit /\ VmInit
    /\ part # "vm" => tlb = NoTlb /\ call.ret = "on"

ThreadsNext ==
    /\ \/ part = "stdio" /\ Next /\ UNCHANGED <<rqVars, co_vars, vm_vars>>
       \/ part = "queues" /\ RqNext /\ UNCHANGED <<vars, co_vars, vm_vars>>
       \/ part = "coop" /\ CoopNext /\ UNCHANGED <<vars, rqVars, vm_vars>>
       \/ part = "vm" /\ VmNext /\ UNCHANGED <<vars, rqVars, co_vars>>
    /\ UNCHANGED part

\* The fairness of PreemptiveThreads and of Vm, each for its part.
ThreadsFairness ==
    /\ WF_vars(part = "stdio" /\ Schedule) /\ WF_vars(part = "stdio" /\ Return)
    /\ WF_vars(part = "stdio" /\ Timer) /\ SF_vars(part = "stdio" /\ Receive)
    /\ \A t \in Thread : SF_vars(part = "stdio" /\ Step(t))
    /\ WF_vm_vars(part = "vm" /\ VmRoutine)

ThreadsSpec == ThreadsInit /\ [][ThreadsNext]_threadVars /\ ThreadsFairness

-----------------------------------------------------------------------------

\* Both thread packages keep their blocks in one place: the linked run queue and
\* free list hold exactly the waiting and the exited threads, the counts agree,
\* and the scheduler's assertions on an empty queue hold.
BlocksSound ==
    /\ TypeOK
    /\ RqTypeOK /\ NoThreadLost /\ FreeListExact /\ EmptyAsserts
    /\ BlocksExact

\* Threads and accesses go on: every thread runs to its end, cooperative ones
\* after a bounded number of switches, and no faulting access is repeated for
\* ever.
RunsOn == AllFinish /\ []FairTurn /\ AccessDone
=============================================================================
