--------------------------- MODULE ThreadsProofs ---------------------------
(***************************************************************************)
(* The thread packages for any number of threads and blocks: no handler    *)
(* loses a thread or queues it twice, and stdio has one user at a time.    *)
(***************************************************************************)
EXTENDS PreemptiveThreads, RunQueueProofs, WellFoundedInduction

USE SMTT(20), ZenonT(20)

-----------------------------------------------------------------------------
(* Queues cut and joined. *)

\* Every set of natural numbers that is not empty has a least element.
LEMMA LeastNat ==
    ASSUME NEW S, S \subseteq Nat, S # {}
    PROVE  \E x \in S : \A y \in S : x <= y
<1> DEFINE R == {ss \in Nat \X Nat : ss[1] < ss[2]}
<1>1. IsWellFoundedOn(R, Nat)
  BY NatLessThanWellFounded DEF OpToRel
<1>2. PICK x \in S : \A y \in S : <<y, x>> \notin R
  <2> HIDE DEF R
  <2> QED BY <1>1, WFMin, Zenon
<1>3. ASSUME NEW y \in S, y < x PROVE <<y, x>> \in R
  BY <1>3
<1>4. \A y \in S : ~(y < x)
  <2> HIDE DEF R
  <2> QED BY <1>2, <1>3, Zenon
<1> QED BY <1>4

\* Two queues without a common thread, one behind the other.
LEMMA JoinQueues ==
    ASSUME NEW T, NEW p \in Seq(T), NEW q \in Seq(T),
           Distinct(p), Distinct(q), Elems(p) \cap Elems(q) = {}
    PROVE  /\ p \o q \in Seq(T) /\ Distinct(p \o q)
           /\ Elems(p \o q) = Elems(p) \cup Elems(q)
<1>1. \A i \in 1 .. Len(p), j \in 1 .. Len(q) : p[i] # q[j]
  BY DEF Elems
<1>2. /\ Len(p \o q) = Len(p) + Len(q) /\ p \o q \in Seq(T)
      /\ \A i \in 1 .. Len(p) + Len(q) :
             (p \o q)[i] = IF i <= Len(p) THEN p[i] ELSE q[i - Len(p)]
  OBVIOUS
<1>3. Len(p) \in Nat /\ Len(q) \in Nat
  OBVIOUS
<1>4. Distinct(p \o q)
  BY <1>1, <1>2, <1>3 DEF Distinct
<1>5. Elems(p \o q) = Elems(p) \cup Elems(q)
  <2>1. ASSUME NEW x \in Elems(p \o q) PROVE x \in Elems(p) \cup Elems(q)
    BY <1>2, <1>3, <2>1 DEF Elems
  <2>2. ASSUME NEW x \in Elems(p) PROVE x \in Elems(p \o q)
    BY <1>2, <1>3, <2>2 DEF Elems
  <2>3. ASSUME NEW x \in Elems(q) PROVE x \in Elems(p \o q)
    <3>1. PICK j \in 1 .. Len(q) : x = q[j]
      BY <2>3 DEF Elems
    <3>2. j + Len(p) \in 1 .. Len(p) + Len(q) /\ (p \o q)[j + Len(p)] = q[j]
      BY <1>2, <1>3
    <3> QED BY <1>2, <3>1, <3>2 DEF Elems
  <2> QED BY <2>1, <2>2, <2>3
<1> QED BY <1>2, <1>4, <1>5

\* A queue cut in two behind its first w threads.
LEMMA CutQueue ==
    ASSUME NEW T, NEW s \in Seq(T), Distinct(s), NEW w \in 0 .. Len(s)
    PROVE  LET a == SubSeq(s, 1, w)
               b == SubSeq(s, w + 1, Len(s))
           IN  /\ a \in Seq(T) /\ b \in Seq(T) /\ Distinct(a) /\ Distinct(b)
               /\ Elems(a) \cap Elems(b) = {} /\ Elems(a) \cup Elems(b) = Elems(s)
<1> DEFINE a == SubSeq(s, 1, w)
           b == SubSeq(s, w + 1, Len(s))
<1>1. a \in Seq(T) /\ Len(a) = w /\ \A i \in 1 .. w : a[i] = s[i]
  OBVIOUS
<1>2. b \in Seq(T) /\ Len(b) = Len(s) - w /\ \A i \in 1 .. Len(s) - w : b[i] = s[w + i]
  <2>1. w + 1 \in 1 .. Len(s) + 1 /\ Len(s) \in w .. Len(s)
    OBVIOUS
  <2> QED BY <2>1
<1> HIDE DEF a, b
<1>3. Distinct(a)
  <2> SUFFICES ASSUME NEW i \in 1 .. Len(a), NEW j \in 1 .. Len(a), a[i] = a[j] PROVE i = j
    BY DEF Distinct
  <2>1. i \in 1 .. Len(s) /\ j \in 1 .. Len(s) /\ s[i] = s[j]
    BY <1>1
  <2> QED BY <2>1 DEF Distinct
<1>9. Distinct(b)
  <2> SUFFICES ASSUME NEW i \in 1 .. Len(b), NEW j \in 1 .. Len(b), b[i] = b[j] PROVE i = j
    BY DEF Distinct
  <2>1. w + i \in 1 .. Len(s) /\ w + j \in 1 .. Len(s) /\ s[w + i] = s[w + j]
    BY <1>2
  <2> QED BY <2>1 DEF Distinct
<1>4. Elems(a) \cap Elems(b) = {}
  <2> SUFFICES ASSUME NEW i \in 1 .. Len(a), NEW j \in 1 .. Len(b), a[i] = b[j] PROVE FALSE
    BY DEF Elems
  <2>1. i \in 1 .. Len(s) /\ w + j \in 1 .. Len(s) /\ i # w + j /\ s[i] = s[w + j]
    BY <1>1, <1>2
  <2> QED BY <2>1 DEF Distinct
<1>5. Elems(a) \subseteq Elems(s) /\ Elems(b) \subseteq Elems(s)
  <2>1. \A i \in 1 .. Len(a) : i \in 1 .. Len(s) /\ a[i] = s[i]
    BY <1>1
  <2>2. \A i \in 1 .. Len(b) : w + i \in 1 .. Len(s) /\ b[i] = s[w + i]
    BY <1>2
  <2> QED BY <2>1, <2>2 DEF Elems
<1>6. ASSUME NEW i \in 1 .. Len(s) PROVE s[i] \in Elems(a) \cup Elems(b)
  <2>1. CASE i <= w
    BY <1>1, <2>1 DEF Elems
  <2>2. CASE i > w
    <3>1. i - w \in 1 .. Len(b) /\ b[i - w] = s[i]
      BY <1>2, <2>2
    <3> QED BY <3>1 DEF Elems
  <2> QED BY <2>1, <2>2
<1>7. Elems(s) \subseteq Elems(a) \cup Elems(b)
  BY <1>6 DEF Elems
<1> QED BY <1>1, <1>2, <1>3, <1>9, <1>4, <1>5, <1>7 DEF a, b

\* One thread taken out of a queue.
LEMMA PickFromQueue ==
    ASSUME NEW T, NEW s \in Seq(T), Distinct(s), NEW k \in 1 .. Len(s)
    PROVE  LET a == SubSeq(s, 1, k - 1)
               b == SubSeq(s, k + 1, Len(s))
           IN  /\ a \in Seq(T) /\ b \in Seq(T) /\ Distinct(a) /\ Distinct(b)
               /\ Elems(a) \cap Elems(b) = {} /\ s[k] \in T
               /\ s[k] \notin Elems(a) \cup Elems(b)
               /\ Elems(a) \cup Elems(b) \cup {s[k]} = Elems(s)
<1> DEFINE a == SubSeq(s, 1, k - 1)
           b == SubSeq(s, k + 1, Len(s))
<1>1. a \in Seq(T) /\ Len(a) = k - 1 /\ \A i \in 1 .. k - 1 : a[i] = s[i]
  OBVIOUS
<1>2. b \in Seq(T) /\ Len(b) = Len(s) - k /\ \A i \in 1 .. Len(s) - k : b[i] = s[k + i]
  <2>1. k + 1 \in 1 .. Len(s) + 1 /\ Len(s) \in k .. Len(s)
    OBVIOUS
  <2> QED BY <2>1
<1>0. s[k] \in T
  OBVIOUS
<1> HIDE DEF a, b
<1>3. Distinct(a)
  <2> SUFFICES ASSUME NEW i \in 1 .. Len(a), NEW j \in 1 .. Len(a), a[i] = a[j] PROVE i = j
    BY DEF Distinct
  <2>1. i \in 1 .. Len(s) /\ j \in 1 .. Len(s) /\ s[i] = s[j]
    BY <1>1
  <2> QED BY <2>1 DEF Distinct
<1>9. Distinct(b)
  <2> SUFFICES ASSUME NEW i \in 1 .. Len(b), NEW j \in 1 .. Len(b), b[i] = b[j] PROVE i = j
    BY DEF Distinct
  <2>1. k + i \in 1 .. Len(s) /\ k + j \in 1 .. Len(s) /\ s[k + i] = s[k + j]
    BY <1>2
  <2> QED BY <2>1 DEF Distinct
<1>4. Elems(a) \cap Elems(b) = {}
  <2> SUFFICES ASSUME NEW i \in 1 .. Len(a), NEW j \in 1 .. Len(b), a[i] = b[j] PROVE FALSE
    BY DEF Elems
  <2>1. i \in 1 .. Len(s) /\ k + j \in 1 .. Len(s) /\ i # k + j /\ s[i] = s[k + j]
    BY <1>1, <1>2
  <2> QED BY <2>1 DEF Distinct
<1>5. Elems(a) \subseteq Elems(s) /\ Elems(b) \subseteq Elems(s) /\ s[k] \in Elems(s)
  <2>1. \A i \in 1 .. Len(a) : i \in 1 .. Len(s) /\ a[i] = s[i]
    BY <1>1
  <2>2. \A i \in 1 .. Len(b) : k + i \in 1 .. Len(s) /\ b[i] = s[k + i]
    BY <1>2
  <2> QED BY <2>1, <2>2 DEF Elems
<1>6. s[k] \notin Elems(a) \cup Elems(b)
  <2>1. ASSUME NEW i \in 1 .. Len(a) PROVE a[i] # s[k]
    <3>1. i \in 1 .. Len(s) /\ i # k /\ a[i] = s[i]
      BY <1>1
    <3> QED BY <3>1 DEF Distinct
  <2>2. ASSUME NEW i \in 1 .. Len(b) PROVE b[i] # s[k]
    <3>1. k + i \in 1 .. Len(s) /\ k + i # k /\ b[i] = s[k + i]
      BY <1>2
    <3> QED BY <3>1 DEF Distinct
  <2> QED BY <2>1, <2>2 DEF Elems
<1>7. ASSUME NEW i \in 1 .. Len(s) PROVE s[i] \in Elems(a) \cup Elems(b) \cup {s[k]}
  <2>1. CASE i < k
    BY <1>1, <2>1 DEF Elems
  <2>2. CASE i > k
    <3>1. i - k \in 1 .. Len(b) /\ b[i - k] = s[i]
      BY <1>2, <2>2
    <3> QED BY <3>1 DEF Elems
  <2> QED BY <2>1, <2>2
<1>8. Elems(s) \subseteq Elems(a) \cup Elems(b) \cup {s[k]}
  BY <1>7 DEF Elems
<1> QED BY <1>0, <1>1, <1>2, <1>3, <1>9, <1>4, <1>5, <1>6, <1>8 DEF a, b

-----------------------------------------------------------------------------
(* The preemptive scheduler. *)

\* Tids are positive: the scheduler and the free lock, both 0, are no threads.
LEMMA ThreadTids == Thread \subseteq Nat \ {0} /\ Scheduler \notin Thread /\ Returned \notin Thread
BY ThreadAssumption DEF Thread, Scheduler, Returned

\* The inner loop of the scheduler stops: at the first thread of blockq that does
\* not wait for stdio, or at the end of the queue.
LEMMA WokenStops ==
    ASSUME TypeOK
    PROVE  woken \in 0 .. Len(blockq)
<1> DEFINE Good(m) == /\ \A i \in 1 .. m : block_reason[blockq[i]] = "STDIO"
                      /\ m < Len(blockq) => block_reason[blockq[m + 1]] # "STDIO"
           S == {m \in 0 .. Len(blockq) : m < Len(blockq) => block_reason[blockq[m + 1]] # "STDIO"}
<1>0. Len(blockq) \in Nat
  BY DEF TypeOK
<1>1. S \subseteq Nat /\ Len(blockq) \in S
  BY <1>0
<1>2. PICK x \in S : \A y \in S : x <= y
  <2> HIDE DEF S
  <2> QED BY <1>1, LeastNat, Zenon
<1>3. ASSUME NEW i \in 1 .. x PROVE block_reason[blockq[i]] = "STDIO"
  <2>1. i - 1 \in 0 .. Len(blockq) /\ i - 1 < Len(blockq) /\ i - 1 < x /\ (i - 1) + 1 = i
    BY <1>0
  <2>2. i - 1 \notin S
    <3> HIDE DEF S
    <3> QED BY <1>1, <1>2, <2>1
  <2> QED BY <2>1, <2>2
<1>4. x \in 0 .. Len(blockq) /\ Good(x)
  BY <1>2, <1>3
<1>5. (CHOOSE m \in 0 .. Len(blockq) : Good(m)) \in 0 .. Len(blockq)
  <2> HIDE DEF Good
  <2> QED BY <1>4
<1> QED BY <1>0, <1>5 DEF woken

\* Every thread that has not exited is on one queue, once, or running.
HeldInv ==
    /\ Distinct(runq) /\ Distinct(blockq) /\ Elems(runq) \cap Elems(blockq) = {}
    /\ cur_thread \notin Elems(runq) \cup Elems(blockq)
    /\ \A t \in Thread :
           pc[t] # "exited" <=> t \in Elems(runq) \cup Elems(blockq) \cup {cur_thread}

\* A pass of the scheduler's loop only moves threads between the queues, and
\* switches to at most one of them, that may run.
LEMMA ScheduleMoves ==
    ASSUME TypeOK, HeldInv, Schedule
    PROVE  /\ runq' \in Seq(Thread) /\ blockq' \in Seq(Thread)
           /\ Distinct(runq') /\ Distinct(blockq') /\ Elems(runq') \cap Elems(blockq') = {}
           /\ cur_thread' \notin Elems(runq') \cup Elems(blockq')
           /\ \/ /\ cur_thread' = Scheduler /\ UNCHANGED <<stdio_tid, pc>>
                 /\ Elems(runq') \cup Elems(blockq') = Elems(runq) \cup Elems(blockq)
              \/ \E t \in Thread :
                    /\ Runnable(t) /\ cur_thread' = t /\ stdio_tid' = Grant(t)
                    /\ pc' = [pc EXCEPT ![t] = SyscallReturns(pc[t])]
                    /\ Elems(runq') \cup Elems(blockq') \cup {t} = Elems(runq) \cup Elems(blockq)
<1> DEFINE pre == SubSeq(blockq, 1, woken)
           rest == stillBlocked
           all == candidates
<1>0. /\ runq \in Seq(Thread) /\ blockq \in Seq(Thread) /\ cur_thread = Scheduler
      /\ Distinct(runq) /\ Distinct(blockq) /\ Elems(runq) \cap Elems(blockq) = {}
      /\ cur_thread \notin Elems(runq) \cup Elems(blockq)
  BY DEF TypeOK, Schedule, HeldInv
<1>1. /\ pre \in Seq(Thread) /\ rest \in Seq(Thread) /\ Distinct(pre) /\ Distinct(rest)
      /\ Elems(pre) \cap Elems(rest) = {} /\ Elems(pre) \cup Elems(rest) = Elems(blockq)
  BY <1>0, WokenStops, CutQueue DEF stillBlocked
<1>2. Elems(runq) \cap Elems(pre) = {}
  BY <1>0, <1>1
<1>3. all \in Seq(Thread) /\ Distinct(all) /\ Elems(all) = Elems(runq) \cup Elems(pre)
  <2>1. all = runq \o pre
    BY DEF candidates
  <2> HIDE DEF pre, all
  <2> QED BY <1>0, <1>1, <1>2, <2>1, JoinQueues
<1>4. Elems(all) \cap Elems(rest) = {} /\ Elems(all) \cup Elems(rest) = Elems(runq) \cup Elems(blockq)
  <2> HIDE DEF pre, rest, all
  <2> QED BY <1>0, <1>1, <1>3
<1>5. PICK k \in 1 .. Len(all) + 1 :
        /\ blockq' = rest \o SubSeq(all, 1, k - 1)
        /\ runq' = SubSeq(all, k + 1, Len(all))
        /\ IF k <= Len(all)
           THEN /\ Runnable(all[k]) /\ cur_thread' = all[k] /\ stdio_tid' = Grant(all[k])
                /\ pc' = [pc EXCEPT ![all[k]] = SyscallReturns(pc[all[k]])]
           ELSE UNCHANGED <<cur_thread, stdio_tid, pc>>
  BY Zenon DEF Schedule
<1> HIDE DEF pre, rest, all
<1>6. CASE k <= Len(all)
  <2> DEFINE a == SubSeq(all, 1, k - 1)
             b == SubSeq(all, k + 1, Len(all))
             t == all[k]
  <2>1. k \in 1 .. Len(all)
    BY <1>6
  <2>2. /\ a \in Seq(Thread) /\ b \in Seq(Thread) /\ Distinct(a) /\ Distinct(b)
        /\ Elems(a) \cap Elems(b) = {} /\ t \in Thread /\ t \notin Elems(a) \cup Elems(b)
        /\ Elems(a) \cup Elems(b) \cup {t} = Elems(all)
    BY <1>3, <2>1, PickFromQueue
  <2>3. /\ blockq' = rest \o a /\ runq' = b /\ Runnable(t) /\ cur_thread' = t /\ stdio_tid' = Grant(t)
        /\ pc' = [pc EXCEPT ![t] = SyscallReturns(pc[t])]
    BY <1>5, <1>6
  <2> HIDE DEF a, b, t
  <2>4. Elems(rest) \cap Elems(a) = {}
    BY <1>4, <2>2
  <2>5. blockq' \in Seq(Thread) /\ Distinct(blockq') /\ Elems(blockq') = Elems(rest) \cup Elems(a)
    BY <1>1, <2>2, <2>3, <2>4, JoinQueues
  <2>6. /\ Elems(runq') \cap Elems(blockq') = {} /\ t \notin Elems(runq') \cup Elems(blockq')
        /\ Elems(runq') \cup Elems(blockq') \cup {t} = Elems(runq) \cup Elems(blockq)
    BY <1>4, <2>2, <2>3, <2>5
  <2> QED BY <2>2, <2>3, <2>5, <2>6, Zenon
<1>7. CASE k > Len(all)
  <2>1. Len(all) \in Nat /\ k = Len(all) + 1
    BY <1>3, <1>7
  <2>2. SubSeq(all, 1, k - 1) = all /\ SubSeq(all, k + 1, Len(all)) = << >>
    <3>1. SubSeq(all, 1, Len(all)) = all /\ SubSeq(all, Len(all) + 2, Len(all)) = << >>
      BY <1>3
    <3> QED BY <2>1, <3>1
  <2>3. blockq' = rest \o all /\ runq' = << >> /\ UNCHANGED <<cur_thread, stdio_tid, pc>>
    BY <1>5, <2>1, <2>2
  <2>4. blockq' \in Seq(Thread) /\ Distinct(blockq') /\ Elems(blockq') = Elems(rest) \cup Elems(all)
    BY <1>1, <1>3, <1>4, <2>3, JoinQueues
  <2>5. runq' \in Seq(Thread) /\ Distinct(runq') /\ Elems(runq') = {}
    BY <2>3 DEF Distinct, Elems
  <2>6. cur_thread' \notin Elems(blockq')
    BY <1>0, <1>4, <2>3, <2>4
  <2> QED BY <1>0, <1>4, <2>3, <2>4, <2>5, <2>6
<1> QED BY <1>3, <1>5, <1>6, <1>7

\* No handler loses a thread or queues it twice, and the scheduler's data keep
\* their types.
THEOREM ThreadsHeld == Spec => [](TypeOK /\ HeldInv)
<1>1. Init => TypeOK /\ HeldInv
  <2> SUFFICES ASSUME Init PROVE TypeOK /\ HeldInv
    OBVIOUS
  <2>1. ForkOrder \in Seq(Thread) /\ Elems(ForkOrder) = Thread /\ Distinct(ForkOrder)
    BY ThreadAssumption DEF Thread, Elems, Distinct
  <2>2. Elems(blockq) = {} /\ Distinct(blockq) /\ blockq \in Seq(Thread)
    BY DEF Init, Elems, Distinct
  <2>3. TypeOK
    BY <2>1, <2>2, ThreadAssumption DEF Init, TypeOK
  <2> QED BY <2>1, <2>2, <2>3, ThreadTids DEF Init, HeldInv
<1>2. TypeOK /\ HeldInv /\ [Next]_vars => TypeOK' /\ HeldInv'
  <2> SUFFICES ASSUME TypeOK, HeldInv, [Next]_vars PROVE TypeOK' /\ HeldInv'
    OBVIOUS
  <2>1. CASE Schedule
    <3>1. /\ runq' \in Seq(Thread) /\ blockq' \in Seq(Thread)
          /\ Distinct(runq') /\ Distinct(blockq') /\ Elems(runq') \cap Elems(blockq') = {}
          /\ cur_thread' \notin Elems(runq') \cup Elems(blockq')
      BY <2>1, ScheduleMoves
    <3>2. cur_thread = Scheduler /\ UNCHANGED <<block_reason, ops, stdin>>
      BY <2>1 DEF Schedule
    <3>3. CASE /\ cur_thread' = Scheduler /\ UNCHANGED <<stdio_tid, pc>>
               /\ Elems(runq') \cup Elems(blockq') = Elems(runq) \cup Elems(blockq)
      BY <3>1, <3>2, <3>3 DEF TypeOK, HeldInv
    <3>4. ASSUME NEW t \in Thread, Runnable(t), cur_thread' = t, stdio_tid' = Grant(t),
                 pc' = [pc EXCEPT ![t] = SyscallReturns(pc[t])],
                 Elems(runq') \cup Elems(blockq') \cup {t} = Elems(runq) \cup Elems(blockq)
          PROVE  TypeOK' /\ HeldInv'
      <4>1. pc \in [Thread -> {"ready", "wait_print", "printing", "wait_scan", "scanning",
                               "line_read", "scanned", "exited"}]
        BY DEF TypeOK
      <4>2. /\ SyscallReturns(pc[t]) \in {"ready", "printing", "scanning", "line_read", "scanned", "exited"}
            /\ SyscallReturns(pc[t]) = "exited" <=> pc[t] = "exited"
        BY <4>1 DEF SyscallReturns
      <4>3. /\ pc' \in [Thread -> {"ready", "wait_print", "printing", "wait_scan", "scanning",
                                   "line_read", "scanned", "exited"}]
            /\ \A u \in Thread : pc'[u] = "exited" <=> pc[u] = "exited"
        BY <3>4, <4>1, <4>2
      <4>4. stdio_tid' \in Thread \cup {0}
        BY <3>4 DEF TypeOK, Grant
      <4>5. TypeOK'
        BY <3>1, <3>2, <3>4, <4>3, <4>4 DEF TypeOK
      <4>6. \A u \in Thread :
               pc'[u] # "exited" <=> u \in Elems(runq') \cup Elems(blockq') \cup {cur_thread'}
        BY <3>2, <3>4, <4>3, ThreadTids DEF HeldInv
      <4> QED BY <3>1, <4>5, <4>6 DEF HeldInv
    <3> QED BY <2>1, <3>3, <3>4, ScheduleMoves
  <2>2. CASE Return
    BY <2>2, ThreadTids DEF Return, TypeOK, HeldInv, Elems
  <2>3. CASE Timer
    <3>1. runq' \in Seq(Thread) /\ Distinct(runq') /\ Elems(runq') = Elems(runq) \cup {cur_thread}
      BY <2>3, QueueThread DEF Timer, TypeOK, HeldInv
    <3>2. cur_thread \in Thread /\ cur_thread' = Scheduler
      BY <2>3 DEF Timer
    <3>3. UNCHANGED <<blockq, stdio_tid, block_reason, pc, ops, stdin>>
      BY <2>3 DEF Timer
    <3>4. TypeOK'
      BY <3>1, <3>2, <3>3 DEF TypeOK
    <3>5. /\ Distinct(blockq') /\ Elems(runq') \cap Elems(blockq') = {}
          /\ cur_thread' \notin Elems(runq') \cup Elems(blockq')
      <4>1. Elems(runq) \cup Elems(blockq) \subseteq Thread
        BY DEF TypeOK, Elems
      <4> QED BY <3>1, <3>2, <3>3, <4>1, ThreadTids DEF HeldInv
    <3>6. \A t \in Thread :
             pc'[t] # "exited" <=> t \in Elems(runq') \cup Elems(blockq') \cup {cur_thread'}
      BY <3>1, <3>2, <3>3, ThreadTids DEF HeldInv
    <3> QED BY <3>1, <3>4, <3>5, <3>6 DEF HeldInv
  <2>4. CASE Receive
    BY <2>4, ThreadAssumption DEF Receive, TypeOK, HeldInv
  <2>5. ASSUME NEW t \in Thread, NEW asked \in {"wait_print", "wait_scan"},
               NEW granted \in {"printing", "scanning"},
               cur_thread = t, pc[t] \in {"ready", "scanned"}, Request(t, asked, granted)
        PROVE  TypeOK' /\ HeldInv'
    <3>1. /\ ops' \in [Thread -> Nat] /\ block_reason' \in [Thread -> {"NONE", "STDIO"}]
          /\ UNCHANGED <<runq, stdin>>
      BY <2>5 DEF Request, TypeOK
    <3>2. /\ pc' \in [Thread -> {"ready", "wait_print", "printing", "wait_scan", "scanning",
                                 "line_read", "scanned", "exited"}]
          /\ \A u \in Thread : pc'[u] = "exited" <=> pc[u] = "exited"
      BY <2>5, Zenon DEF Request, TypeOK
    <3>3. CASE stdio_is_idle(t)
      <4>1. stdio_tid' = t /\ UNCHANGED <<blockq, cur_thread>>
        BY <2>5, <3>3 DEF Request
      <4> QED BY <3>1, <3>2, <4>1 DEF TypeOK, HeldInv
    <3>4. CASE ~stdio_is_idle(t)
      <4>1. blockq' = Append(blockq, t) /\ cur_thread' = Scheduler /\ UNCHANGED stdio_tid
        BY <2>5, <3>4 DEF Request
      <4>2. blockq' \in Seq(Thread) /\ Distinct(blockq') /\ Elems(blockq') = Elems(blockq) \cup {t}
        BY <2>5, <4>1, QueueThread DEF TypeOK, HeldInv
      <4>3. TypeOK'
        BY <3>1, <3>2, <4>1, <4>2 DEF TypeOK
      <4>4. /\ Distinct(runq') /\ Elems(runq') \cap Elems(blockq') = {}
            /\ cur_thread' \notin Elems(runq') \cup Elems(blockq')
        <5>1. Elems(runq) \cup Elems(blockq) \subseteq Thread
          BY DEF TypeOK, Elems
        <5> QED BY <2>5, <3>1, <4>1, <4>2, <5>1, ThreadTids DEF HeldInv
      <4>5. \A u \in Thread :
               pc'[u] # "exited" <=> u \in Elems(runq') \cup Elems(blockq') \cup {cur_thread'}
        BY <2>5, <3>1, <3>2, <4>1, <4>2, ThreadTids DEF HeldInv
      <4> QED BY <4>2, <4>3, <4>4, <4>5 DEF HeldInv
    <3> QED BY <3>3, <3>4
  <2>6. ASSUME NEW t \in Thread, Printk(t) PROVE TypeOK' /\ HeldInv'
    BY <2>5, <2>6 DEF Printk
  <2>7. ASSUME NEW t \in Thread, Scan(t) PROVE TypeOK' /\ HeldInv'
    BY <2>5, <2>7 DEF Scan
  <2>8. ASSUME NEW t \in Thread, WaitStdout(t) PROVE TypeOK' /\ HeldInv'
    BY <2>8 DEF WaitStdout, TypeOK, HeldInv
  <2>9. ASSUME NEW t \in Thread, ReadLine(t) PROVE TypeOK' /\ HeldInv'
    BY <2>9, ThreadAssumption DEF ReadLine, TypeOK, HeldInv
  <2>10. ASSUME NEW t \in Thread, EndStdin(t) PROVE TypeOK' /\ HeldInv'
    BY <2>10 DEF EndStdin, TypeOK, HeldInv
  <2>11. ASSUME NEW t \in Thread, Exit(t) PROVE TypeOK' /\ HeldInv'
    <3>1. /\ pc' \in [Thread -> {"ready", "wait_print", "printing", "wait_scan", "scanning",
                                 "line_read", "scanned", "exited"}]
          /\ \A u \in Thread : pc'[u] = "exited" <=> pc[u] = "exited" \/ u = t
      BY <2>11 DEF Exit, TypeOK
    <3>2. /\ cur_thread = t /\ cur_thread' = Scheduler
          /\ UNCHANGED <<runq, blockq, stdio_tid, block_reason, ops, stdin>>
      BY <2>11 DEF Exit
    <3>3. TypeOK'
      BY <3>1, <3>2 DEF TypeOK
    <3>4. cur_thread' \notin Elems(runq') \cup Elems(blockq')
      <4>1. Elems(runq) \cup Elems(blockq) \subseteq Thread
        BY DEF TypeOK, Elems
      <4> QED BY <3>2, <4>1, ThreadTids
    <3> QED BY <3>1, <3>2, <3>3, <3>4, ThreadTids DEF HeldInv
  <2>12. CASE UNCHANGED vars
    BY <2>12 DEF vars, TypeOK, HeldInv
  <2> QED BY <2>1, <2>2, <2>3, <2>4, <2>6, <2>7, <2>8, <2>9, <2>10, <2>11, <2>12 DEF Next, Step
<1> QED BY <1>1, <1>2, PTL DEF Spec

\* Every thread that has not exited is in exactly one place: the timer, the
\* scheduler, the requests for stdio and pre_exit keep it so in every order.
THEOREM ThreadsOnePlace == Spec => []OnePlace
<1>1. TypeOK /\ HeldInv => OnePlace
  <2> SUFFICES ASSUME TypeOK, HeldInv, NEW t \in Thread
               PROVE  LET all == (Places(t)[1] \X {1}) \cup (Places(t)[2] \X {2}) \cup (Places(t)[3] \X {3})
                      IN  IF pc[t] = "exited" THEN all = {} ELSE \E p \in all : all = {p}
    BY DEF OnePlace
  <2> DEFINE A == {i \in 1 .. Len(runq) : runq[i] = t}
             B == {i \in 1 .. Len(blockq) : blockq[i] = t}
             C == IF cur_thread = t THEN {0} ELSE {}
             all == (A \X {1}) \cup (B \X {2}) \cup (C \X {3})
  <2>1. Places(t)[1] = A /\ Places(t)[2] = B /\ Places(t)[3] = C
    BY DEF Places
  <2>2. /\ A # {} <=> t \in Elems(runq)
        /\ B # {} <=> t \in Elems(blockq)
        /\ C # {} <=> t = cur_thread
    BY DEF Elems
  <2>3. (\A i, j \in A : i = j) /\ (\A i, j \in B : i = j) /\ (\A i, j \in C : i = j)
    BY DEF HeldInv, Distinct
  <2>4. /\ A # {} => B = {} /\ C = {}
        /\ B # {} => C = {}
        /\ pc[t] # "exited" <=> A # {} \/ B # {} \/ C # {}
    BY <2>2 DEF HeldInv
  <2> HIDE DEF A, B, C
  <2>5. CASE pc[t] = "exited"
    BY <2>1, <2>4, <2>5
  <2>6. CASE A # {}
    <3>1. PICK i \in A : A = {i}
      BY <2>3, <2>6
    <3>2. all = {<<i, 1>>}
      BY <2>4, <2>6, <3>1
    <3> QED BY <2>1, <2>4, <2>6, <3>2, Zenon
  <2>7. CASE B # {}
    <3>1. PICK i \in B : B = {i}
      BY <2>3, <2>7
    <3>2. all = {<<i, 2>>}
      BY <2>4, <2>7, <3>1
    <3> QED BY <2>1, <2>4, <2>7, <3>2, Zenon
  <2>8. CASE C # {}
    <3>1. PICK i \in C : C = {i}
      BY <2>3, <2>8
    <3>2. all = {<<i, 3>>}
      BY <2>4, <2>8, <3>1
    <3> QED BY <2>1, <2>4, <2>8, <3>2, Zenon
  <2> QED BY <2>4, <2>5, <2>6, <2>7, <2>8
<1> QED BY <1>1, ThreadsHeld, PTL

\* What makes stdio exclusive: its user has the lock, and a thread that comes
\* back from a system call that blocked it is marked as waiting for stdio.
StdioInv ==
    /\ \A t \in Thread : Using(t) => stdio_tid = t
    /\ \A t \in Thread : pc[t] \in {"wait_print", "wait_scan"} => block_reason[t] = "STDIO"

\* The lock changes hands in the request, the release and the scheduler, and no
\* order of them lets two threads use stdio at once.
THEOREM ThreadsStdioExclusive == Spec => []StdioExclusive
<1>1. Init => StdioInv
  BY DEF Init, StdioInv, Using
<1>2. TypeOK /\ HeldInv /\ StdioInv /\ [Next]_vars => StdioInv'
  <2> SUFFICES ASSUME TypeOK, HeldInv, StdioInv, [Next]_vars PROVE StdioInv'
    OBVIOUS
  <2>1. CASE Schedule
    <3>1. CASE UNCHANGED <<stdio_tid, pc>>
      BY <2>1, <3>1 DEF Schedule, StdioInv, Using
    <3>2. ASSUME NEW t \in Thread, Runnable(t), stdio_tid' = Grant(t),
                 pc' = [pc EXCEPT ![t] = SyscallReturns(pc[t])]
          PROVE  StdioInv'
      <4>1. UNCHANGED block_reason
        BY <2>1 DEF Schedule
      <4>2. \A u \in Thread : u # t => pc'[u] = pc[u]
        BY <3>2 DEF TypeOK
      <4>3. pc'[t] = SyscallReturns(pc[t])
        BY <3>2 DEF TypeOK
      <4>4. CASE block_reason[t] = "STDIO"
        <5>1. stdio_tid \in {0, t} /\ stdio_tid' = t
          BY <3>2, <4>4 DEF Runnable, stdio_is_idle, Grant
        <5> QED BY <4>1, <4>2, <4>3, <4>4, <5>1, ThreadTids DEF StdioInv, Using
      <4>5. CASE block_reason[t] # "STDIO"
        <5>1. stdio_tid' = stdio_tid
          BY <3>2, <4>5 DEF Grant
        <5>2. pc'[t] = pc[t]
          BY <4>3, <4>5 DEF SyscallReturns, StdioInv
        <5> QED BY <4>1, <4>2, <5>1, <5>2 DEF StdioInv, Using
      <4> QED BY <4>4, <4>5
    <3> QED BY <2>1, <3>1, <3>2, ScheduleMoves
  <2>2. CASE Return \/ Timer \/ Receive \/ UNCHANGED vars
    BY <2>2 DEF Return, Timer, Receive, vars, StdioInv, Using
  <2>3. ASSUME NEW t \in Thread, NEW asked \in {"wait_print", "wait_scan"},
               NEW granted \in {"printing", "scanning"}, Request(t, asked, granted)
        PROVE  StdioInv'
    <3>1. /\ block_reason' \in [Thread -> {"NONE", "STDIO"}] /\ block_reason'[t] = "STDIO"
          /\ \A u \in Thread : u # t => block_reason'[u] = block_reason[u]
      BY <2>3 DEF Request, TypeOK
    <3>2. CASE stdio_is_idle(t)
      <4>1. stdio_tid \in {0, t} /\ stdio_tid' = t /\ pc'[t] = granted
        BY <2>3, <3>2 DEF Request, TypeOK, stdio_is_idle
      <4>2. \A u \in Thread : u # t => pc'[u] = pc[u]
        BY <2>3, <3>2 DEF Request, TypeOK
      <4> QED BY <3>1, <4>1, <4>2, ThreadTids DEF StdioInv, Using
    <3>3. CASE ~stdio_is_idle(t)
      <4>1. UNCHANGED stdio_tid /\ pc'[t] = asked
        BY <2>3, <3>3 DEF Request, TypeOK
      <4>2. \A u \in Thread : u # t => pc'[u] = pc[u]
        BY <2>3, <3>3 DEF Request, TypeOK
      <4> QED BY <3>1, <4>1, <4>2 DEF StdioInv, Using
    <3> QED BY <3>2, <3>3
  <2>4. ASSUME NEW t \in Thread, Printk(t) \/ Scan(t) PROVE StdioInv'
    BY <2>3, <2>4 DEF Printk, Scan
  <2>5. ASSUME NEW t \in Thread, WaitStdout(t) PROVE StdioInv'
    BY <2>5 DEF WaitStdout, TypeOK, StdioInv, Using
  <2>6. ASSUME NEW t \in Thread, ReadLine(t) PROVE StdioInv'
    BY <2>6 DEF ReadLine, TypeOK, StdioInv, Using
  <2>7. ASSUME NEW t \in Thread, EndStdin(t) PROVE StdioInv'
    BY <2>7 DEF EndStdin, TypeOK, StdioInv, Using
  <2>8. ASSUME NEW t \in Thread, Exit(t) PROVE StdioInv'
    BY <2>8 DEF Exit, TypeOK, StdioInv, Using
  <2> QED BY <2>1, <2>2, <2>4, <2>5, <2>6, <2>7, <2>8 DEF Next, Step
<1>3. StdioInv => StdioExclusive
  BY DEF StdioInv, StdioExclusive
<1> QED BY <1>1, <1>2, <1>3, ThreadsHeld, PTL DEF Spec
=============================================================================
