------------------------- MODULE CoopThreadsProofs -------------------------
(***************************************************************************)
(* The thread package without preemption for any number of blocks: every   *)
(* block is in one place and holds its own thread.  And what is proved of  *)
(* the thread packages one by one, for the specification of all of them.   *)
(***************************************************************************)
EXTENDS MCThreads, ThreadsProofs, FiniteSetTheorems

USE SMTT(20), ZenonT(20)

-----------------------------------------------------------------------------
(* Threads without preemption. *)

\* The blocks of the threads that have not exited.
Live == Elems(co_runq) \cup IF InMain THEN {} ELSE {co_cur}

CoTypeOK ==
    /\ co_runq \in Seq(CoBlock) /\ co_freeq \in Seq(CoBlock) /\ co_used \subseteq CoBlock
    /\ co_cur \in {0} \cup co_used /\ co_sched \in {0} \cup co_used
    /\ co_tid \in [CoBlock -> Nat]
    /\ co_ctx \in [CoBlock -> [tid : Nat, where : {"none", "start", "switched"}]]
    /\ co_next \in Nat \ {0}
    /\ co_born \subseteq 1 .. co_next - 1 /\ co_dead \subseteq co_born

\* Every block is in one place.
CoBlocksInv ==
    /\ Distinct(co_runq) /\ Distinct(co_freeq) /\ Elems(co_runq) \cap Elems(co_freeq) = {}
    /\ Elems(co_runq) \cup Elems(co_freeq) \subseteq co_used \ {co_cur, co_sched}
    /\ co_sched = 0 <=> co_cur = 0

\* The live blocks carry the tids of the threads that have not exited, each one
\* once, and each block that is not running the context of its thread.
CoTidsInv ==
    /\ \A b \in Live : co_tid[b] \in co_born \ co_dead
    /\ \A b, c \in Live : co_tid[b] = co_tid[c] => b = c
    /\ \A t \in co_born \ co_dead : \E b \in Live : co_tid[b] = t
    /\ \A b \in (Elems(co_runq) \cup {co_sched}) \ {co_cur, 0} :
           co_ctx[b].tid = co_tid[b] /\ co_ctx[b].where # "none"

CoCountInv == Cardinality(co_dead) + Len(co_runq) + (IF InMain THEN 0 ELSE 1) = Cardinality(co_born)

CoopInv == CoTypeOK /\ CoBlocksInv /\ CoTidsInv /\ CoCountInv

\* th_alloc hands out a block that is in no other place.
LEMMA AllocFreeBlock ==
    ASSUME CoTypeOK, CoBlocksInv, CanAlloc, th_alloc(alloc)
    PROVE  /\ alloc \in CoBlock /\ alloc # 0 /\ alloc \notin Elems(co_runq) \cup {co_cur, co_sched}
           /\ co_freeq' \in Seq(CoBlock) /\ Distinct(co_freeq')
           /\ Elems(co_freeq') \subseteq Elems(co_freeq) \ {alloc}
           /\ co_used' = co_used \cup {alloc} /\ co_used' \subseteq CoBlock
           /\ co_tid' \in [CoBlock -> Nat] /\ co_tid'[alloc] = co_next
           /\ \A b \in CoBlock : b # alloc => co_tid'[b] = co_tid[b]
           /\ co_next' = co_next + 1 /\ co_next' \in Nat \ {0}
<1>1. CASE co_freeq # << >>
  <2>1. alloc = co_freeq[1] /\ co_freeq' = Tail(co_freeq)
    BY <1>1 DEF alloc, th_alloc, CoTypeOK
  <2>2. /\ Tail(co_freeq) \in Seq(CoBlock) /\ Distinct(Tail(co_freeq)) /\ co_freeq[1] \in CoBlock
        /\ co_freeq[1] \in Elems(co_freeq) /\ Elems(Tail(co_freeq)) = Elems(co_freeq) \ {co_freeq[1]}
    BY <1>1, TailQueue DEF CoTypeOK, CoBlocksInv
  <2>3. alloc \in CoBlock /\ alloc \in Elems(co_freeq)
    BY <2>1, <2>2
  <2>4. alloc \notin Elems(co_runq) \cup {co_cur, co_sched} /\ alloc # 0
    BY <2>3, CoopAssumption DEF CoBlocksInv
  <2>5. Elems(co_freeq') \subseteq Elems(co_freeq) \ {alloc}
    BY <2>1, <2>2
  <2> HIDE DEF alloc
  <2>6. /\ co_used' = co_used \cup {alloc} /\ co_tid' = [co_tid EXCEPT ![alloc] = co_next]
        /\ co_next' = co_next + 1
    BY DEF th_alloc
  <2> QED BY <2>1, <2>2, <2>3, <2>4, <2>5, <2>6 DEF CoTypeOK
<1>2. CASE co_freeq = << >>
  <2>1. PICK b \in CoBlock \ co_used : \A c \in CoBlock \ co_used : b <= c
    <3>1. CoBlock \ co_used \subseteq Nat /\ CoBlock \ co_used # {}
      BY <1>2, CoopAssumption, Zenon DEF CanAlloc, CoTypeOK
    <3> QED BY <3>1, LeastNat, Zenon
  <2>2. alloc \in CoBlock \ co_used
    BY <1>2, <2>1 DEF alloc
  <2>3. co_freeq' = co_freeq
    BY <1>2 DEF th_alloc
  <2>4. alloc \notin Elems(co_runq) \cup Elems(co_freeq) \cup {co_cur, co_sched} /\ alloc # 0
    BY <2>2, CoopAssumption DEF CoBlocksInv, CoTypeOK
  <2> HIDE DEF alloc
  <2>5. /\ co_used' = co_used \cup {alloc} /\ co_tid' = [co_tid EXCEPT ![alloc] = co_next]
        /\ co_next' = co_next + 1
    BY DEF th_alloc
  <2> QED BY <2>2, <2>3, <2>4, <2>5 DEF CoTypeOK, CoBlocksInv
<1> QED BY <1>1, <1>2

\* The tids are finite in number, and a new member adds one to the count.
LEMMA CountOneMore ==
    ASSUME NEW m \in Nat, NEW S, S \subseteq 1 .. m, NEW x, x \notin S
    PROVE  /\ Cardinality(S) \in Nat /\ Cardinality(S \cup {x}) = Cardinality(S) + 1
<1>1. IsFiniteSet(1 .. m)
  BY FS_Interval
<1>2. IsFiniteSet(S)
  BY <1>1, FS_Subset, Zenon
<1> QED BY <1>2, FS_AddElement, FS_CardinalityType

\* rpi_fork queues a new thread in a block of its own.
LEMMA CoForkKeeps ==
    ASSUME CoopInv, rpi_fork
    PROVE  CoopInv'
<1> DEFINE b == alloc
<1>0. /\ CanAlloc /\ th_alloc(b)
      /\ co_ctx' = [co_ctx EXCEPT ![b] = Context(co_next, "start")]
      /\ co_runq' = Append(co_runq, b)
      /\ co_born' = co_born \cup {co_next} /\ UNCHANGED <<co_cur, co_sched, co_dead>>
  BY DEF rpi_fork, NewContext
<1>1. CoTypeOK /\ CoBlocksInv /\ CoTidsInv /\ CoCountInv
  BY DEF CoopInv
<1>2. /\ b \in CoBlock /\ b # 0 /\ b \notin Elems(co_runq) \cup {co_cur, co_sched}
      /\ co_freeq' \in Seq(CoBlock) /\ Distinct(co_freeq')
      /\ Elems(co_freeq') \subseteq Elems(co_freeq) \ {b}
      /\ co_used' = co_used \cup {b} /\ co_used' \subseteq CoBlock
      /\ co_tid' \in [CoBlock -> Nat] /\ co_tid'[b] = co_next
      /\ \A c \in CoBlock : c # b => co_tid'[c] = co_tid[c]
      /\ co_next' = co_next + 1 /\ co_next' \in Nat \ {0}
  BY <1>0, <1>1, AllocFreeBlock
<1> HIDE DEF b
<1>3. /\ co_runq' \in Seq(CoBlock) /\ Distinct(co_runq')
      /\ Elems(co_runq') = Elems(co_runq) \cup {b}
  BY <1>0, <1>1, <1>2, QueueThread DEF CoTypeOK, CoBlocksInv
<1>4. Elems(co_runq) \subseteq co_used /\ co_used \subseteq CoBlock /\ Live \subseteq co_used
  BY <1>1 DEF CoTypeOK, CoBlocksInv, Live, InMain
<1>5. Live' = Live \cup {b} /\ b \notin Live /\ InMain' = InMain
  BY <1>0, <1>2, <1>3 DEF Live, InMain
<1>6. co_next \notin co_born /\ co_next \notin co_dead
  BY <1>1 DEF CoTypeOK
<1>7. CoTypeOK'
  <2>1. co_ctx' \in [CoBlock -> [tid : Nat, where : {"none", "start", "switched"}]]
    BY <1>0, <1>1, <1>2 DEF CoTypeOK, Context
  <2>2. co_born' \subseteq 1 .. co_next' - 1 /\ co_dead' \subseteq co_born'
    BY <1>0, <1>1, <1>2 DEF CoTypeOK
  <2>3. co_cur' \in {0} \cup co_used' /\ co_sched' \in {0} \cup co_used'
    BY <1>0, <1>1, <1>2 DEF CoTypeOK
  <2> QED BY <1>2, <1>3, <2>1, <2>2, <2>3 DEF CoTypeOK
<1>8. CoBlocksInv'
  BY <1>0, <1>1, <1>2, <1>3 DEF CoBlocksInv
<1>9. CoTidsInv'
  <2>1. \A c \in Live : c \in CoBlock /\ c # b /\ co_tid'[c] = co_tid[c]
    BY <1>2, <1>4, <1>5
  <2>2. co_born' \ co_dead' = (co_born \ co_dead) \cup {co_next}
    BY <1>0, <1>6
  <2>3. \A c \in Live' : co_tid'[c] \in co_born' \ co_dead'
    BY <1>1, <1>2, <1>5, <2>1, <2>2 DEF CoTidsInv
  <2>4. \A c, d \in Live' : co_tid'[c] = co_tid'[d] => c = d
    BY <1>1, <1>2, <1>5, <1>6, <2>1 DEF CoTidsInv
  <2>5. \A t \in co_born' \ co_dead' : \E c \in Live' : co_tid'[c] = t
    BY <1>1, <1>2, <1>5, <2>1, <2>2 DEF CoTidsInv
  <2>6. ASSUME NEW c \in (Elems(co_runq') \cup {co_sched'}) \ {co_cur', 0}
        PROVE  co_ctx'[c].tid = co_tid'[c] /\ co_ctx'[c].where # "none"
    <3>1. CASE c = b
      BY <1>0, <1>1, <1>2, <3>1 DEF Context, CoTypeOK
    <3>2. CASE c # b
      <4>1. c \in (Elems(co_runq) \cup {co_sched}) \ {co_cur, 0} /\ c \in CoBlock
        BY <1>0, <1>1, <1>3, <1>4, <2>6, <3>2 DEF CoTypeOK
      <4>2. co_ctx'[c] = co_ctx[c] /\ co_tid'[c] = co_tid[c]
        BY <1>0, <1>1, <1>2, <3>2, <4>1 DEF CoTypeOK
      <4> QED BY <1>1, <4>1, <4>2 DEF CoTidsInv
    <3> QED BY <3>1, <3>2
  <2> QED BY <2>3, <2>4, <2>5, <2>6 DEF CoTidsInv
<1>10. CoCountInv'
  <2>1. co_born \subseteq 1 .. (co_next - 1) /\ co_next - 1 \in Nat
    BY <1>1 DEF CoTypeOK
  <2>2. Cardinality(co_born') = Cardinality(co_born) + 1
    BY <1>0, <1>6, <2>1, CountOneMore, ZenonT(60)
  <2>3. Len(co_runq') = Len(co_runq) + 1 /\ Len(co_runq) \in Nat
    BY <1>0, <1>1 DEF CoTypeOK
  <2>4. Cardinality(co_dead) \in Nat /\ Cardinality(co_dead') = Cardinality(co_dead)
    BY <1>0, <1>1, <1>6, <2>1, CountOneMore, Zenon DEF CoTypeOK
  <2> QED BY <1>1, <1>5, <2>2, <2>3, <2>4 DEF CoCountInv
<1> QED BY <1>7, <1>8, <1>9, <1>10 DEF CoopInv

\* The queue without its first block.
LEMMA CoTail ==
    ASSUME CoTypeOK, CoBlocksInv, co_runq # << >>
    PROVE  /\ Tail(co_runq) \in Seq(CoBlock) /\ Distinct(Tail(co_runq))
           /\ Head(co_runq) = co_runq[1] /\ Head(co_runq) \in Elems(co_runq)
           /\ Head(co_runq) \in co_used /\ Head(co_runq) \in CoBlock /\ Head(co_runq) # 0
           /\ Head(co_runq) \notin {co_cur, co_sched}
           /\ Elems(Tail(co_runq)) = Elems(co_runq) \ {Head(co_runq)}
           /\ Len(Tail(co_runq)) = Len(co_runq) - 1 /\ Len(co_runq) \in Nat
<1>1. Head(co_runq) = co_runq[1] /\ co_runq \in Seq(CoBlock)
  BY DEF CoTypeOK
<1>2. /\ Tail(co_runq) \in Seq(CoBlock) /\ Distinct(Tail(co_runq)) /\ co_runq[1] \in CoBlock
      /\ co_runq[1] \in Elems(co_runq) /\ Elems(Tail(co_runq)) = Elems(co_runq) \ {co_runq[1]}
  BY <1>1, TailQueue DEF CoBlocksInv
<1>3. Len(Tail(co_runq)) = Len(co_runq) - 1 /\ Len(co_runq) \in Nat
  BY <1>1
<1>4. co_runq[1] \in co_used /\ co_runq[1] \notin {co_cur, co_sched}
  BY <1>2 DEF CoBlocksInv
<1> QED BY <1>1, <1>2, <1>3, <1>4, CoopAssumption

\* A context that is saved is that of its own thread, and no other changes.
LEMMA SavedContext ==
    ASSUME CoTypeOK, NEW b \in CoBlock, SaveTo(b)
    PROVE  /\ co_ctx' \in [CoBlock -> [tid : Nat, where : {"none", "start", "switched"}]]
           /\ co_ctx'[b].tid = co_tid[b] /\ co_ctx'[b].where # "none"
           /\ \A c \in CoBlock : c # b => co_ctx'[c] = co_ctx[c]
<1>1. co_ctx' = [co_ctx EXCEPT ![b] = Context(co_tid[b], "switched")]
  BY DEF SaveTo
<1>2. Context(co_tid[b], "switched") \in [tid : Nat, where : {"none", "start", "switched"}]
  BY DEF CoTypeOK, Context
<1>3. /\ co_ctx' \in [CoBlock -> [tid : Nat, where : {"none", "start", "switched"}]]
      /\ co_ctx'[b] = Context(co_tid[b], "switched")
      /\ \A c \in CoBlock : c # b => co_ctx'[c] = co_ctx[c]
  <2> HIDE DEF Context
  <2> QED BY <1>1, <1>2 DEF CoTypeOK
<1> QED BY <1>3 DEF Context

\* A thread that runs has a block, which is not the scheduler's.
LEMMA CoRunning ==
    ASSUME CoTypeOK, CoBlocksInv, ~InMain
    PROVE  /\ co_cur \in CoBlock /\ co_cur \in co_used /\ co_cur # 0 /\ co_cur # co_sched
           /\ co_sched # 0 /\ co_cur \notin Elems(co_runq) \cup Elems(co_freeq)
           /\ Live = Elems(co_runq) \cup {co_cur}
  BY CoopAssumption DEF CoTypeOK, CoBlocksInv, InMain, Live

\* rpi_yield queues the caller behind the others, with its own context.
LEMMA CoYieldKeeps ==
    ASSUME CoopInv, rpi_yield
    PROVE  CoopInv'
<1>0. /\ ~InMain /\ co_runq # << >> /\ co_runq' = Append(Tail(co_runq), co_cur)
      /\ SaveTo(co_cur) /\ co_cur' = Head(co_runq)
      /\ UNCHANGED <<co_freeq, co_used, co_sched, co_tid, co_next, co_born, co_dead>>
  BY DEF rpi_yield, QueueBehind
<1>1. CoTypeOK /\ CoBlocksInv /\ CoTidsInv /\ CoCountInv
  BY DEF CoopInv
<1> DEFINE h == Head(co_runq)
           q == Tail(co_runq)
<1>2. /\ q \in Seq(CoBlock) /\ Distinct(q) /\ h \in Elems(co_runq) /\ h \in co_used
      /\ h \in CoBlock /\ h # 0 /\ h \notin {co_cur, co_sched}
      /\ Elems(q) = Elems(co_runq) \ {h} /\ Len(q) = Len(co_runq) - 1 /\ Len(co_runq) \in Nat
  BY <1>0, <1>1, CoTail
<1>3. /\ co_cur \in CoBlock /\ co_cur \in co_used /\ co_cur # 0 /\ co_cur # co_sched
      /\ co_sched # 0 /\ co_cur \notin Elems(co_runq) \cup Elems(co_freeq)
      /\ Live = Elems(co_runq) \cup {co_cur}
  BY <1>0, <1>1, CoRunning
<1>4. /\ co_ctx' \in [CoBlock -> [tid : Nat, where : {"none", "start", "switched"}]]
      /\ co_ctx'[co_cur].tid = co_tid[co_cur] /\ co_ctx'[co_cur].where # "none"
      /\ \A c \in CoBlock : c # co_cur => co_ctx'[c] = co_ctx[c]
  BY <1>0, <1>1, <1>3, SavedContext
<1> HIDE DEF h, q
<1>5. co_runq' = Append(q, co_cur) /\ co_cur' = h
  BY <1>0 DEF h, q
<1>6. /\ co_runq' \in Seq(CoBlock) /\ Distinct(co_runq')
      /\ Elems(co_runq') = (Elems(co_runq) \ {h}) \cup {co_cur}
  BY <1>2, <1>3, <1>5, QueueThread
<1>7. ~InMain' /\ Live' = Live
  BY <1>0, <1>2, <1>3, <1>5, <1>6 DEF InMain, Live
<1>8. CoTypeOK'
  BY <1>0, <1>1, <1>2, <1>4, <1>5, <1>6, ZenonT(60) DEF CoTypeOK
<1>9. CoBlocksInv'
  BY <1>0, <1>1, <1>2, <1>3, <1>5, <1>6 DEF CoBlocksInv
<1>10. CoTidsInv'
  <2>1. ASSUME NEW c \in (Elems(co_runq') \cup {co_sched'}) \ {co_cur', 0}
        PROVE  co_ctx'[c].tid = co_tid'[c] /\ co_ctx'[c].where # "none"
    <3>1. CASE c = co_cur
      BY <1>0, <1>4, <3>1
    <3>2. CASE c # co_cur
      <4>1. c \in (Elems(co_runq) \cup {co_sched}) \ {co_cur, 0} /\ c \in CoBlock
        BY <1>0, <1>1, <1>6, <2>1, <3>2 DEF CoTypeOK, CoBlocksInv
      <4>2. co_ctx'[c] = co_ctx[c] /\ co_tid'[c] = co_tid[c]
        BY <1>0, <1>4, <3>2, <4>1
      <4> QED BY <1>1, <4>1, <4>2 DEF CoTidsInv
    <3> QED BY <3>1, <3>2
  <2>2. UNCHANGED <<co_tid, co_born, co_dead>>
    BY <1>0
  <2> QED BY <1>1, <1>7, <2>1, <2>2 DEF CoTidsInv
<1>11. CoCountInv'
  <2>1. Len(co_runq') = Len(co_runq)
    BY <1>2, <1>5
  <2> QED BY <1>0, <1>1, <1>7, <2>1 DEF CoCountInv
<1> QED BY <1>8, <1>9, <1>10, <1>11 DEF CoopInv

\* rpi_exit frees the caller's block and switches to the next thread, or to the
\* caller of rpi_thread_start when none is left.
LEMMA CoExitKeeps ==
    ASSUME CoopInv, rpi_exit
    PROVE  CoopInv' /\ (InMain' => co_born' = co_dead')
<1>0. /\ ~InMain /\ co_freeq' = <<co_cur>> \o co_freeq
      /\ co_runq' = IF NextThread = co_sched THEN co_runq ELSE Tail(co_runq)
      /\ SaveTo(co_cur) /\ co_cur' = NextThread
      /\ co_dead' = co_dead \cup {co_tid[co_cur]}
      /\ UNCHANGED <<co_used, co_sched, co_tid, co_next, co_born>>
  BY DEF rpi_exit
<1>1. CoTypeOK /\ CoBlocksInv /\ CoTidsInv /\ CoCountInv
  BY DEF CoopInv
<1>2. /\ co_cur \in CoBlock /\ co_cur \in co_used /\ co_cur # 0 /\ co_cur # co_sched
      /\ co_sched # 0 /\ co_cur \notin Elems(co_runq) \cup Elems(co_freeq)
      /\ Live = Elems(co_runq) \cup {co_cur}
  BY <1>0, <1>1, CoRunning
<1>3. /\ co_ctx' \in [CoBlock -> [tid : Nat, where : {"none", "start", "switched"}]]
      /\ \A c \in CoBlock : c # co_cur => co_ctx'[c] = co_ctx[c]
  BY <1>0, <1>1, <1>2, SavedContext
<1>4. /\ co_freeq' \in Seq(CoBlock) /\ Distinct(co_freeq')
      /\ Elems(co_freeq') = {co_cur} \cup Elems(co_freeq)
  BY <1>0, <1>1, <1>2, PushThread DEF CoTypeOK, CoBlocksInv
<1>5. /\ co_runq' \in Seq(CoBlock) /\ Distinct(co_runq')
      /\ Elems(co_runq') = Elems(co_runq) \ {co_cur'} /\ Elems(co_runq') \subseteq Elems(co_runq)
      /\ co_cur' \in co_used /\ co_cur' # 0 /\ co_cur' # co_cur
      /\ InMain' <=> co_runq = << >>
      /\ ~InMain' => co_cur' \in Elems(co_runq) /\ Len(co_runq') = Len(co_runq) - 1
      /\ Len(co_runq) \in Nat
  <2>1. CASE co_runq = << >>
    <3>1. co_cur' = co_sched /\ co_runq' = co_runq /\ Elems(co_runq) = {}
      BY <1>0, <2>1 DEF NextThread, Elems
    <3> QED BY <1>0, <1>1, <1>2, <2>1, <3>1 DEF CoTypeOK, CoBlocksInv, InMain
  <2>2. CASE co_runq # << >>
    <3>1. NextThread = Head(co_runq)
      BY <2>2 DEF NextThread
    <3>2. /\ Tail(co_runq) \in Seq(CoBlock) /\ Distinct(Tail(co_runq))
          /\ Head(co_runq) \in Elems(co_runq) /\ Head(co_runq) \in co_used /\ Head(co_runq) # 0
          /\ Head(co_runq) \notin {co_cur, co_sched}
          /\ Elems(Tail(co_runq)) = Elems(co_runq) \ {Head(co_runq)}
          /\ Len(Tail(co_runq)) = Len(co_runq) - 1 /\ Len(co_runq) \in Nat
      BY <1>1, <2>2, CoTail
    <3>3. co_cur' = Head(co_runq) /\ co_runq' = Tail(co_runq)
      BY <1>0, <3>1, <3>2, ZenonT(60)
    <3> QED BY <1>0, <2>2, <3>2, <3>3, ZenonT(60) DEF InMain
  <2> QED BY <2>1, <2>2
<1>6. Live' = Elems(co_runq) /\ Live = Live' \cup {co_cur} /\ co_cur \notin Live'
  <2>1. CASE InMain'
    <3>1. Elems(co_runq') = {} /\ Elems(co_runq) = {}
      BY <1>5, <2>1 DEF Elems
    <3> QED BY <1>2, <2>1, <3>1 DEF Live
  <2>2. CASE ~InMain'
    BY <1>2, <1>5, <2>2 DEF Live
  <2> QED BY <2>1, <2>2
<1>7. co_tid[co_cur] \in co_born \ co_dead
  BY <1>1, <1>2 DEF CoTidsInv
<1>8. CoTypeOK'
  BY <1>0, <1>1, <1>3, <1>4, <1>5, <1>7, ZenonT(60) DEF CoTypeOK
<1>9. CoBlocksInv'
  <2>1. Elems(co_runq') \cap Elems(co_freeq') = {} /\ co_cur' \notin Elems(co_freeq')
    BY <1>0, <1>1, <1>2, <1>4, <1>5 DEF CoBlocksInv, InMain
  <2> QED BY <1>0, <1>1, <1>2, <1>4, <1>5, <2>1 DEF CoBlocksInv
<1>10. CoTidsInv'
  <2>1. ASSUME NEW c \in (Elems(co_runq') \cup {co_sched'}) \ {co_cur', 0}
        PROVE  co_ctx'[c].tid = co_tid'[c] /\ co_ctx'[c].where # "none"
    <3>1. c \in (Elems(co_runq) \cup {co_sched}) \ {co_cur, 0} /\ c \in CoBlock
      BY <1>0, <1>1, <1>2, <1>5, <2>1, ZenonT(60) DEF CoTypeOK, CoBlocksInv
    <3>2. co_ctx'[c] = co_ctx[c] /\ co_tid'[c] = co_tid[c]
      BY <1>0, <1>3, <3>1
    <3> QED BY <1>1, <3>1, <3>2 DEF CoTidsInv
  <2>2. UNCHANGED <<co_tid, co_born>> /\ co_born' \ co_dead' = (co_born \ co_dead) \ {co_tid[co_cur]}
    BY <1>0
  <2>3. \A c \in Live' : co_tid'[c] \in co_born' \ co_dead'
    BY <1>1, <1>2, <1>6, <2>2 DEF CoTidsInv
  <2>4. \A c, d \in Live' : co_tid'[c] = co_tid'[d] => c = d
    BY <1>1, <1>6, <2>2 DEF CoTidsInv
  <2>5. \A t \in co_born' \ co_dead' : \E c \in Live' : co_tid'[c] = t
    BY <1>1, <1>6, <2>2 DEF CoTidsInv
  <2> QED BY <2>1, <2>3, <2>4, <2>5 DEF CoTidsInv
<1>11. CoCountInv'
  <2>1. co_dead \subseteq 1 .. (co_next - 1) /\ co_next - 1 \in Nat
    BY <1>1 DEF CoTypeOK
  <2>2. Cardinality(co_dead') = Cardinality(co_dead) + 1 /\ Cardinality(co_dead) \in Nat
    BY <1>0, <1>7, <2>1, CountOneMore, ZenonT(60)
  <2>3. Cardinality(co_dead) + Len(co_runq) + 1 = Cardinality(co_born)
    BY <1>0, <1>1 DEF CoCountInv
  <2>4. CASE InMain'
    <3>1. Len(co_runq') = 0 /\ Len(co_runq) = 0
      BY <1>0, <1>5, <2>4 DEF NextThread
    <3> QED BY <1>0, <2>2, <2>3, <2>4, <3>1 DEF CoCountInv
  <2>5. CASE ~InMain'
    BY <1>0, <1>5, <2>2, <2>3, <2>5 DEF CoCountInv
  <2> QED BY <2>4, <2>5
<1>12. ASSUME InMain' PROVE co_born' = co_dead'
  <2>1. Live' = {}
    BY <1>5, <1>6, <1>12 DEF Elems
  <2>2. co_born' \ co_dead' = {}
    BY <1>10, <2>1 DEF CoTidsInv
  <2> QED BY <1>8, <2>2, ZenonT(60) DEF CoTypeOK
<1> QED BY <1>8, <1>9, <1>10, <1>11, <1>12 DEF CoopInv
\* rpi_thread_start switches to the first thread, with a block of its own for
\* the caller.
LEMMA CoStartKeeps ==
    ASSUME CoopInv, rpi_thread_start
    PROVE  CoopInv'
<1>0. /\ InMain /\ co_runq # << >> /\ co_cur' = Head(co_runq) /\ co_runq' = Tail(co_runq)
      /\ UNCHANGED <<co_born, co_dead>>
  BY DEF rpi_thread_start
<1>1. CoTypeOK /\ CoBlocksInv /\ CoTidsInv /\ CoCountInv
  BY DEF CoopInv
<1>2. /\ co_runq' \in Seq(CoBlock) /\ Distinct(co_runq') /\ co_cur' \in Elems(co_runq)
      /\ co_cur' \in co_used /\ co_cur' \in CoBlock /\ co_cur' # 0
      /\ co_cur' \notin {co_cur, co_sched}
      /\ Elems(co_runq') = Elems(co_runq) \ {co_cur'} /\ Len(co_runq') = Len(co_runq) - 1
      /\ Len(co_runq) \in Nat
  BY <1>0, <1>1, CoTail
<1>3. Elems(co_runq) \subseteq CoBlock /\ Elems(co_runq) \cap Elems(co_freeq) = {}
  BY <1>1 DEF CoTypeOK, CoBlocksInv
\* What the two ways to have a block for the caller have in common.
<1>4. /\ co_freeq' \in Seq(CoBlock) /\ Distinct(co_freeq')
      /\ Elems(co_freeq') \subseteq Elems(co_freeq) \ {co_sched'}
      /\ co_used \subseteq co_used' /\ co_used' \subseteq CoBlock
      /\ co_sched' \in co_used' /\ co_sched' # 0 /\ co_sched' \notin Elems(co_runq)
      /\ co_tid' \in [CoBlock -> Nat] /\ co_next' \in Nat \ {0} /\ co_next <= co_next'
      /\ co_ctx' \in [CoBlock -> [tid : Nat, where : {"none", "start", "switched"}]]
      /\ co_ctx'[co_sched'].tid = co_tid'[co_sched'] /\ co_ctx'[co_sched'].where # "none"
      /\ \A c \in Elems(co_runq) : co_tid'[c] = co_tid[c] /\ co_ctx'[c] = co_ctx[c]
  <2>1. CASE co_sched = 0
    <3> DEFINE b == alloc
    <3>0. /\ CanAlloc /\ th_alloc(b) /\ co_sched' = b
          /\ co_ctx' = [co_ctx EXCEPT ![b] = Context(co_next, "switched")]
      BY <2>1 DEF rpi_thread_start
    <3>1. /\ b \in CoBlock /\ b # 0 /\ b \notin Elems(co_runq) \cup {co_cur, co_sched}
          /\ co_freeq' \in Seq(CoBlock) /\ Distinct(co_freeq')
          /\ Elems(co_freeq') \subseteq Elems(co_freeq) \ {b}
          /\ co_used' = co_used \cup {b} /\ co_used' \subseteq CoBlock
          /\ co_tid' \in [CoBlock -> Nat] /\ co_tid'[b] = co_next
          /\ \A c \in CoBlock : c # b => co_tid'[c] = co_tid[c]
          /\ co_next' = co_next + 1 /\ co_next' \in Nat \ {0}
      BY <1>1, <3>0, AllocFreeBlock
    <3> HIDE DEF b
    <3>2. co_next \in Nat
      BY <1>1 DEF CoTypeOK
    <3>3. /\ co_ctx' \in [CoBlock -> [tid : Nat, where : {"none", "start", "switched"}]]
          /\ co_ctx'[b] = Context(co_next, "switched")
          /\ \A c \in CoBlock : c # b => co_ctx'[c] = co_ctx[c]
      BY <1>1, <3>0, <3>1, <3>2 DEF CoTypeOK, Context
    <3>4. co_ctx'[b].tid = co_next /\ co_ctx'[b].where # "none"
      BY <3>3 DEF Context
    <3>5. \A c \in Elems(co_runq) : co_tid'[c] = co_tid[c] /\ co_ctx'[c] = co_ctx[c]
      BY <1>3, <3>1, <3>3
    <3> QED BY <3>0, <3>1, <3>2, <3>3, <3>4, <3>5
  <2>2. CASE co_sched # 0
    <3>0. UNCHANGED <<co_freeq, co_used, co_tid, co_next, co_sched>> /\ SaveTo(co_sched)
      BY <2>2 DEF rpi_thread_start
    <3>1. co_sched \in CoBlock /\ co_sched \in co_used /\ co_used \subseteq CoBlock
      BY <1>1, <2>2 DEF CoTypeOK
    <3>2. /\ co_ctx' \in [CoBlock -> [tid : Nat, where : {"none", "start", "switched"}]]
          /\ co_ctx'[co_sched].tid = co_tid[co_sched] /\ co_ctx'[co_sched].where # "none"
          /\ \A c \in CoBlock : c # co_sched => co_ctx'[c] = co_ctx[c]
      BY <1>1, <3>0, <3>1, SavedContext
    <3>3. co_sched \notin Elems(co_runq) \cup Elems(co_freeq) /\ Distinct(co_freeq)
      BY <1>1 DEF CoBlocksInv
    <3>4. /\ co_freeq \in Seq(CoBlock) /\ co_tid \in [CoBlock -> Nat] /\ co_next \in Nat \ {0}
      BY <1>1 DEF CoTypeOK
    <3> QED BY <1>3, <2>2, <3>0, <3>1, <3>2, <3>3, <3>4
  <2> QED BY <2>1, <2>2
<1>5. ~InMain' /\ Live = Elems(co_runq) /\ Live' = Elems(co_runq)
  BY <1>0, <1>2, <1>4 DEF InMain, Live
<1>6. CoTypeOK'
  <2>1. co_born \subseteq 1 .. co_next - 1 /\ co_dead \subseteq co_born /\ co_next \in Nat \ {0}
    BY <1>1 DEF CoTypeOK
  <2>4. co_next \in Nat /\ co_next' \in Nat /\ co_next <= co_next'
    BY <1>4, <2>1
  <2>2. \A x \in 1 .. co_next - 1 : x \in 1 .. co_next' - 1
    <3>1. ASSUME NEW i \in Nat, NEW j \in Nat, i <= j
          PROVE  \A x \in 1 .. i - 1 : x \in 1 .. j - 1
      BY <3>1
    <3> QED BY <2>4, <3>1, Zenon
  <2>3. co_born' \subseteq 1 .. co_next' - 1 /\ co_dead' \subseteq co_born'
    BY <1>0, <2>1, <2>2
  <2> QED BY <1>2, <1>4, <2>3, ZenonT(60) DEF CoTypeOK
<1>7. CoBlocksInv'
  <2>1. Elems(co_runq') \cup Elems(co_freeq') \subseteq co_used
    BY <1>1, <1>2, <1>4 DEF CoBlocksInv
  <2>2. co_cur' \notin Elems(co_freeq') /\ Elems(co_runq') \cap Elems(co_freeq') = {}
    BY <1>2, <1>3, <1>4
  <2> QED BY <1>2, <1>4, <2>1, <2>2 DEF CoBlocksInv
<1>8. CoTidsInv'
  <2>1. ASSUME NEW c \in (Elems(co_runq') \cup {co_sched'}) \ {co_cur', 0}
        PROVE  co_ctx'[c].tid = co_tid'[c] /\ co_ctx'[c].where # "none"
    <3>1. CASE c = co_sched'
      BY <1>4, <3>1
    <3>2. CASE c # co_sched'
      <4>1. c \in (Elems(co_runq) \cup {co_sched}) \ {co_cur, 0} /\ c \in Elems(co_runq)
        BY <1>1, <1>2, <2>1, <3>2 DEF CoBlocksInv
      <4> QED BY <1>1, <1>4, <4>1 DEF CoTidsInv
    <3> QED BY <3>1, <3>2
  <2>2. \A c \in Live' : co_tid'[c] = co_tid[c]
    BY <1>4, <1>5
  <2>3. /\ \A c \in Live' : co_tid'[c] \in co_born' \ co_dead'
        /\ \A c, d \in Live' : co_tid'[c] = co_tid'[d] => c = d
        /\ \A t \in co_born' \ co_dead' : \E c \in Live' : co_tid'[c] = t
    BY <1>0, <1>1, <1>5, <2>2 DEF CoTidsInv
  <2> QED BY <2>1, <2>3 DEF CoTidsInv
<1>9. CoCountInv'
  <2>1. Cardinality(co_dead) + Len(co_runq) + 0 = Cardinality(co_born)
    BY <1>0, <1>1 DEF CoCountInv
  <2>2. Cardinality(co_dead) \in Nat
    <3>1. co_dead \subseteq 1 .. (co_next - 1) /\ co_next - 1 \in Nat /\ co_next \notin co_dead
      BY <1>1 DEF CoTypeOK
    <3> QED BY <3>1, CountOneMore, ZenonT(60)
  <2> QED BY <1>0, <1>2, <1>5, <2>1, <2>2 DEF CoCountInv
<1> QED BY <1>6, <1>7, <1>8, <1>9 DEF CoopInv

\* Without preemption every block stays in one place, and the blocks of the
\* threads that have not exited carry their tids and contexts.
THEOREM CoopThreadsHeld == CoopSpec => []CoopInv
<1>1. CoopInit => CoopInv
  <2> SUFFICES ASSUME CoopInit PROVE CoopInv
    OBVIOUS
  <2>1. CoTypeOK
    BY DEF CoopInit, CoTypeOK, Context
  <2>2. Elems(co_runq) = {} /\ Elems(co_freeq) = {} /\ Live = {} /\ InMain
    BY DEF CoopInit, Elems, Live, InMain
  <2>3. CoBlocksInv
    BY <2>2 DEF CoopInit, CoBlocksInv, Distinct
  <2>4. CoTidsInv
    BY <2>2 DEF CoopInit, CoTidsInv
  <2>5. CoCountInv
    BY <2>2, FS_EmptySet DEF CoopInit, CoCountInv
  <2> QED BY <2>1, <2>3, <2>4, <2>5 DEF CoopInv
<1>2. CoopInv /\ [CoopNext]_co_vars => CoopInv'
  <2> SUFFICES ASSUME CoopInv, [CoopNext]_co_vars PROVE CoopInv'
    OBVIOUS
  <2>1. CASE UNCHANGED co_vars
    BY <2>1 DEF co_vars, CoopInv, CoTypeOK, CoBlocksInv, CoTidsInv, CoCountInv, Live, InMain
  <2> QED BY <2>1, CoForkKeeps, CoYieldKeeps, CoExitKeeps, CoStartKeeps DEF CoopNext
<1> QED BY <1>1, <1>2, PTL DEF CoopSpec

\* rpi_fork, rpi_yield, rpi_exit and rpi_thread_start keep every block free
\* once, queued once, running, the scheduler's or not handed out, and exits and
\* live threads add up to forks.
THEOREM CoopBlocksExact == CoopSpec => []BlocksExact
<1>1. ASSUME CoopInv PROVE BlocksExact
  <2> DEFINE all == co_runq \o co_freeq
  <2>1. CoTypeOK /\ CoBlocksInv /\ CoCountInv
    BY <1>1 DEF CoopInv
  <2>2. /\ all \in Seq(CoBlock) /\ Distinct(all)
        /\ Elems(all) = Elems(co_runq) \cup Elems(co_freeq)
    BY <2>1, JoinQueues DEF CoTypeOK, CoBlocksInv
  <2> HIDE DEF all
  <2>3. \A i, j \in 1 .. Len(all) : i # j => all[i] # all[j]
    BY <2>2 DEF Distinct
  <2>4. \A i \in 1 .. Len(all) : all[i] \in co_used \ {co_cur, co_sched}
    BY <2>1, <2>2, ZenonT(60) DEF CoBlocksInv, Elems
  <2> QED BY <2>1, <2>3, <2>4 DEF BlocksExact, CoCountInv, all
<1> QED BY <1>1, CoopThreadsHeld, PTL

\* rpi_cswitch never goes on with a context that belongs to another thread, and
\* rpi_thread_start returns to its caller only when every thread has exited.
THEOREM CoopOwnContext == CoopSpec => OwnContext
<1> DEFINE Own == /\ co_cur' # co_cur /\ co_cur' # 0
                     => co_ctx[co_cur'].tid = co_tid[co_cur'] /\ co_ctx[co_cur'].where # "none"
                  /\ ~InMain /\ InMain' => co_born' = co_dead'
<1>1. ASSUME CoopInv, CoopInv', [CoopNext]_co_vars PROVE [Own]_co_vars
  <2>1. CoTypeOK /\ CoBlocksInv /\ CoTidsInv
    BY <1>1 DEF CoopInv
  <2>2. ASSUME co_runq # << >>, co_cur' = Head(co_runq)
        PROVE  /\ co_ctx[co_cur'].tid = co_tid[co_cur'] /\ co_ctx[co_cur'].where # "none"
               /\ co_cur' # co_sched
    BY <2>1, <2>2, CoTail DEF CoTidsInv
  <2>3. CASE rpi_fork
    BY <2>3 DEF rpi_fork, InMain
  <2>4. CASE rpi_yield
    BY <2>2, <2>4 DEF rpi_yield, InMain
  <2>5. CASE rpi_exit
    <3>1. ~InMain /\ co_cur' = NextThread
      BY <2>5 DEF rpi_exit
    <3>2. co_sched # 0 /\ co_sched # co_cur
      BY <2>1, <3>1, CoRunning
    <3>3. co_ctx[co_sched].tid = co_tid[co_sched] /\ co_ctx[co_sched].where # "none"
      BY <2>1, <3>2 DEF CoTidsInv
    <3> QED BY <1>1, <2>2, <2>5, <3>1, <3>3, CoExitKeeps DEF NextThread
  <2>6. CASE rpi_thread_start
    BY <2>2, <2>6 DEF rpi_thread_start, InMain
  <2>7. CASE UNCHANGED co_vars
    BY <2>7
  <2> QED BY <1>1, <2>3, <2>4, <2>5, <2>6, <2>7 DEF CoopNext
<1>2. CoopSpec => [][Own]_co_vars
  BY <1>1, CoopThreadsHeld, PTL DEF CoopSpec
<1> QED BY <1>2 DEF OwnContext
-----------------------------------------------------------------------------
(* All the thread packages. *)

\* A behaviour of ThreadsSpec is one of each package.
LEMMA PackagesRun ==
    ThreadsSpec => Spec /\ RqSpec /\ CoopSpec
<1>1. ThreadsInit => Init /\ RqInit /\ CoopInit
  BY DEF ThreadsInit
<1>2. [ThreadsNext]_threadVars => [Next]_vars /\ [RqNext]_rqVars /\ [CoopNext]_co_vars
  BY DEF ThreadsNext, threadVars
<1> QED BY <1>1, <1>2, PTL DEF ThreadsSpec, Spec, RqSpec, CoopSpec

\* When pre_fork is called with interrupts off, both thread packages keep their
\* blocks in one place: the linked lists, the counts and the assertions on an
\* empty queue agree after every step of the timer, of pre_fork, pre_exit and
\* the scheduler, and of rpi_fork, rpi_yield, rpi_exit and rpi_thread_start.
THEOREM ThreadsBlocksSound ==
    ASSUME ForkMasked
    PROVE  ThreadsSpec => []BlocksSound
<1>1. RqSpec => [](RqTypeOK /\ NoThreadLost /\ FreeListExact /\ EmptyAsserts)
  BY ForkMasked, QueuesSound
<1>2. CoopSpec => []BlocksExact
  BY CoopBlocksExact
<1>3. Spec => [](TypeOK /\ HeldInv)
  BY ThreadsHeld
<1> QED BY <1>1, <1>2, <1>3, PackagesRun, PTL DEF BlocksSound
=============================================================================
