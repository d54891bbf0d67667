--------------------------- MODULE RunQueueProofs ---------------------------
(***************************************************************************)
(* The linked run queue and free list for any number of blocks: with       *)
(* interrupts off in pre_fork, the pointers always describe the two lists. *)
(***************************************************************************)
EXTENDS RunQueue, TLAPS

USE SMTT(20), ZenonT(20)

-----------------------------------------------------------------------------
(* Queues as sequences without repetition. *)

Elems(q) == {q[i] : i \in 1 .. Len(q)}

\* A thread put at the end of a queue.
LEMMA QueueThread ==
    ASSUME NEW T, NEW q \in Seq(T), NEW t \in T, Distinct(q), t \notin Elems(q)
    PROVE  /\ Append(q, t) \in Seq(T) /\ Distinct(Append(q, t))
           /\ Elems(Append(q, t)) = Elems(q) \cup {t}
<1> DEFINE a == Append(q, t)
<1>1. /\ a \in Seq(T) /\ Len(a) = Len(q) + 1 /\ a[Len(q) + 1] = t
      /\ \A i \in 1 .. Len(q) : a[i] = q[i]
  OBVIOUS
<1>2. Len(q) \in Nat
  OBVIOUS
<1> HIDE DEF a
<1>3. \A i \in 1 .. Len(a) : i \in 1 .. Len(q) \/ i = Len(q) + 1
  BY <1>1, <1>2
<1>4. Distinct(a)
  BY <1>1, <1>3 DEF Distinct, Elems
<1>5. Elems(a) = Elems(q) \cup {t}
  BY <1>1, <1>2, <1>3 DEF Elems
<1> QED BY <1>1, <1>4, <1>5 DEF a

\* A block put at the front of a queue.
LEMMA PushShape ==
    ASSUME NEW T, NEW s \in Seq(T), NEW b \in T
    PROVE  /\ <<b>> \o s \in Seq(T) /\ Len(<<b>> \o s) = Len(s) + 1 /\ (<<b>> \o s)[1] = b
           /\ \A i \in 1 .. Len(s) : (<<b>> \o s)[i + 1] = s[i]
           /\ <<b>> \o s # << >>
<1> DEFINE p == <<b>> \o s
<1>1. <<b>> \in Seq(T) /\ Len(<<b>>) = 1
  OBVIOUS
<1>2. /\ p \in Seq(T) /\ Len(p) = 1 + Len(s)
      /\ \A i \in 1 .. 1 + Len(s) : p[i] = IF i <= 1 THEN <<b>>[i] ELSE s[i - 1]
  BY <1>1
<1> HIDE DEF p
<1>3. Len(s) \in Nat
  OBVIOUS
<1>4. ASSUME NEW i \in 1 .. Len(s) PROVE p[i + 1] = s[i]
  <2>1. i + 1 \in 1 .. 1 + Len(s) /\ ~(i + 1 <= 1) /\ (i + 1) - 1 = i
    BY <1>3
  <2> QED BY <1>2, <2>1
<1> QED BY <1>2, <1>3, <1>4 DEF p

\* It stays a queue without repetition.
LEMMA PushThread ==
    ASSUME NEW T, NEW s \in Seq(T), NEW b \in T, Distinct(s), b \notin Elems(s)
    PROVE  /\ <<b>> \o s \in Seq(T) /\ Distinct(<<b>> \o s)
           /\ Elems(<<b>> \o s) = {b} \cup Elems(s)
<1> DEFINE p == <<b>> \o s
<1>1. /\ p \in Seq(T) /\ Len(p) = Len(s) + 1 /\ p[1] = b
      /\ \A i \in 1 .. Len(s) : p[i + 1] = s[i]
  BY PushShape
<1> HIDE DEF p
<1>2. Len(s) \in Nat
  OBVIOUS
<1>3. \A i \in 1 .. Len(p) : i = 1 \/ (i - 1 \in 1 .. Len(s) /\ p[i] = s[i - 1])
  <2> SUFFICES ASSUME NEW i \in 1 .. Len(p), i # 1 PROVE i - 1 \in 1 .. Len(s) /\ p[i] = s[i - 1]
    OBVIOUS
  <2>1. i - 1 \in 1 .. Len(s) /\ (i - 1) + 1 = i
    BY <1>1, <1>2
  <2> QED BY <1>1, <2>1
<1>4. Distinct(p)
  <2> SUFFICES ASSUME NEW i \in 1 .. Len(p), NEW j \in 1 .. Len(p), p[i] = p[j] PROVE i = j
    BY DEF Distinct
  <2>1. CASE i = 1 \/ j = 1
    BY <1>1, <1>3, <2>1 DEF Elems
  <2>2. CASE i # 1 /\ j # 1
    <3>1. i - 1 \in 1 .. Len(s) /\ j - 1 \in 1 .. Len(s) /\ s[i - 1] = s[j - 1]
      BY <1>3, <2>2
    <3>2. i - 1 = j - 1
      BY <3>1 DEF Distinct
    <3> QED BY <3>2
  <2> QED BY <2>1, <2>2
<1>5. Elems(p) \subseteq {b} \cup Elems(s)
  <2> SUFFICES ASSUME NEW i \in 1 .. Len(p) PROVE p[i] \in {b} \cup Elems(s)
    BY DEF Elems
  <2>1. CASE i = 1
    BY <1>1, <2>1
  <2>2. CASE i # 1
    <3>1. i - 1 \in 1 .. Len(s) /\ p[i] = s[i - 1]
      BY <1>3, <2>2
    <3> QED BY <3>1 DEF Elems
  <2> QED BY <2>1, <2>2
<1>6. b \in Elems(p)
  BY <1>1, <1>2 DEF Elems
<1>7. ASSUME NEW i \in 1 .. Len(s) PROVE s[i] \in Elems(p)
  <2>1. i + 1 \in 1 .. Len(p) /\ p[i + 1] = s[i]
    BY <1>1, <1>2
  <2> QED BY <2>1 DEF Elems
<1>8. {b} \cup Elems(s) \subseteq Elems(p)
  BY <1>6, <1>7 DEF Elems
<1> QED BY <1>1, <1>4, <1>5, <1>8 DEF p

-----------------------------------------------------------------------------
(* The linked queues. *)

\* The list s is linked through nx from h to t, and c is its length.
Linked(h, t, c, nx, s) ==
    /\ c = Len(s)
    /\ h = IF s = << >> THEN Null ELSE s[1]
    /\ t = IF s = << >> THEN Null ELSE s[Len(s)]
    /\ \A i \in 1 .. Len(s) : nx[s[i]] = IF i < Len(s) THEN s[i + 1] ELSE Null

Ptr == Block \cup {Null}

\* The thread that runs, and where it is in pre_fork.
where == IF rq_cur = Null THEN "run" ELSE rq_pc[rq_cur]
Popping == {"pop_cnt", "pop_head", "pop_tail"}
Appending == {"append", "app_cnt", "app_first", "app_head", "app_next", "app_tail"}

Waiting == {b \in Block : rq_pc[b] = "run"} \ {rq_cur}
Exited == {b \in Block : rq_pc[b] = "free"}

\* With interrupts off in pre_fork, only the thread that runs is inside it, and
\* the block it has taken belongs to nobody else.
ForkInv ==
    /\ \A b \in Block : rq_pc[b] \in Popping \cup Appending => b = rq_cur
    /\ where \in {"run"} \cup Popping \cup Appending
    /\ where \in Appending => new \in Block /\ rq_pc[new] = "born"
    /\ \A b \in Block : rq_pc[b] = "born" => where \in Appending /\ b = new

\* The run queue is the list of the ready threads, up to the assignments of
\* Q_append that pre_fork has still to do.
RunqInv ==
    LET hd == head["runq"]
        tl == tail["runq"]
        ct == cnt["runq"]
    IN  /\ Distinct(ready)
        /\ Elems(ready) = Waiting
        /\ where \in {"run", "append", "app_cnt"} \cup Popping => Linked(hd, tl, ct, next, ready)
        /\ where \in Appending \ {"append"} => next[new] = Null
        /\ where = "app_cnt" => n[rq_cur] = ct
        /\ where \in {"app_first", "app_next"} => Linked(hd, tl, ct - 1, next, ready)
        /\ where = "app_first" => ready = << >>
        /\ where = "app_next" => ready # << >> /\ last[rq_cur] = tl
        /\ where = "app_head" => ready = << >> /\ tl = new /\ ct = 1
        /\ where = "app_tail" => Linked(hd, new, ct, next, Append(ready, new))

\* The free list holds the blocks s of the exited threads, up to the assignments
\* of Q_pop that pre_fork has still to do.
FreeIs(s) ==
    LET hd == head["freeq"]
        tl == tail["freeq"]
        ct == cnt["freeq"]
    IN  /\ Distinct(s) /\ Elems(s) = Exited
        /\ where \notin {"pop_head", "pop_tail"} => Linked(hd, tl, ct, next, s)
        /\ where \in Popping => s # << >> /\ new = s[1]
        /\ where = "pop_cnt" => n[rq_cur] = ct
        /\ where = "pop_head" => Linked(hd, tl, ct + 1, next, s)
        /\ where = "pop_tail" => Linked(s[1], tl, ct + 1, next, s) /\ hd = next[s[1]]

QueuesInv == RqTypeOK /\ ForkInv /\ RunqInv /\ \E s \in Seq(Block) : FreeIs(s)

\* A list is empty exactly if it has no first and no last block.
LEMMA LinkedEmpty ==
    ASSUME NEW h, NEW t, NEW c, NEW nx, NEW s \in Seq(Block), Linked(h, t, c, nx, s)
    PROVE  /\ s = << >> <=> h = Null
           /\ s = << >> <=> t = Null
           /\ s # << >> => h = s[1] /\ h \in Block /\ t = s[Len(s)] /\ t \in Block /\ c >= 1
           /\ c = Len(s) /\ c \in Nat
           /\ s = << >> => c = 0
<1>1. CASE s = << >>
  BY <1>1 DEF Linked
<1>2. CASE s # << >>
  <2>1. Len(s) \in Nat \ {0} /\ s[1] \in Block /\ s[Len(s)] \in Block
    BY <1>2
  <2> QED BY <1>2, <2>1, BlockAssumption DEF Linked
<1> QED BY <1>1, <1>2

\* A list does not depend on the links of other blocks.
LEMMA LinkedFrame ==
    ASSUME NEW h, NEW t, NEW c, NEW nx, NEW mx, NEW s \in Seq(Block),
           Linked(h, t, c, nx, s), \A x \in Elems(s) : mx[x] = nx[x]
    PROVE  Linked(h, t, c, mx, s)
<1>1. \A i \in 1 .. Len(s) : mx[s[i]] = nx[s[i]]
  BY DEF Elems
<1> QED BY <1>1 DEF Linked

\* The last assignments of Q_append: a block without successor becomes the last.
LEMMA LinkedAppend ==
    ASSUME NEW h, NEW t, NEW c, NEW nx \in [Block -> Ptr], NEW s \in Seq(Block), NEW b \in Block,
           Linked(h, t, c, nx, s), Distinct(s), b \notin Elems(s), nx[b] = Null
    PROVE  /\ s = << >> => Linked(b, b, c + 1, nx, Append(s, b))
           /\ s # << >> => Linked(h, b, c + 1, [nx EXCEPT ![t] = b], Append(s, b))
<1> DEFINE a == Append(s, b)
<1>1. /\ a \in Seq(Block) /\ Len(a) = Len(s) + 1 /\ a[Len(s) + 1] = b /\ a # << >>
      /\ \A i \in 1 .. Len(s) : a[i] = s[i]
  OBVIOUS
<1>2. Len(s) \in Nat
  OBVIOUS
<1> HIDE DEF a
<1>3. CASE s = << >>
  <2>1. Len(a) = 1 /\ a[1] = b /\ c = 0
    BY <1>1, <1>3 DEF Linked
  <2> QED BY <1>1, <1>3, <2>1 DEF Linked, a
<1>4. CASE s # << >>
  <2> DEFINE mx == [nx EXCEPT ![t] = b]
  <2>1. Len(s) \in Nat \ {0} /\ t = s[Len(s)] /\ t \in Block /\ h = s[1] /\ c = Len(s)
    BY <1>4 DEF Linked
  <2>2. mx[t] = b /\ \A x \in Block : x # t => mx[x] = nx[x]
    BY <2>1
  <2>3. b # t
    BY <2>1 DEF Elems
  <2> HIDE DEF mx
  <2>4. ASSUME NEW i \in 1 .. Len(a) PROVE mx[a[i]] = IF i < Len(a) THEN a[i + 1] ELSE Null
    <3>1. CASE i = Len(s) + 1
      BY <1>1, <1>2, <2>2, <2>3, <3>1
    <3>2. CASE i = Len(s)
      BY <1>1, <2>1, <2>2, <3>2
    <3>3. CASE i < Len(s)
      <4>1. i \in 1 .. Len(s) /\ i + 1 \in 1 .. Len(s) /\ i # Len(s)
        BY <1>1, <1>2, <3>3
      <4>2. a[i] = s[i] /\ a[i + 1] = s[i + 1] /\ s[i] \in Block
        BY <1>1, <4>1
      <4>3. s[i] # t
        BY <2>1, <4>1 DEF Distinct
      <4>4. nx[s[i]] = s[i + 1]
        BY <3>3, <4>1 DEF Linked
      <4> QED BY <1>1, <2>2, <3>3, <4>1, <4>2, <4>3, <4>4
    <3> QED BY <1>1, <1>2, <3>1, <3>2, <3>3
  <2>5. a[1] = h /\ a[Len(a)] = b /\ c + 1 = Len(a)
    BY <1>1, <2>1
  <2> QED BY <1>1, <1>4, <2>4, <2>5 DEF Linked, a, mx
<1> QED BY <1>3, <1>4

\* Q_pop: the successor of the first block becomes the first.
LEMMA LinkedPop ==
    ASSUME NEW h, NEW t, NEW c, NEW nx, NEW s \in Seq(Block), s # << >>,
           Linked(h, t, c, nx, s)
    PROVE  Linked(nx[h], IF nx[h] = Null THEN Null ELSE t, c - 1, nx, Tail(s))
<1> DEFINE r == Tail(s)
<1>1. /\ r \in Seq(Block) /\ Len(r) = Len(s) - 1
      /\ \A i \in 1 .. Len(s) - 1 : r[i] = s[i + 1]
  OBVIOUS
<1>2. Len(s) \in Nat \ {0} /\ h = s[1] /\ t = s[Len(s)] /\ c = Len(s)
  BY DEF Linked
<1>3. nx[h] = IF Len(s) > 1 THEN s[2] ELSE Null
  BY <1>2 DEF Linked
<1> HIDE DEF r
<1>4. r = << >> <=> Len(s) = 1
  BY <1>1, <1>2
<1>5. CASE Len(s) = 1
  BY <1>1, <1>2, <1>3, <1>4, <1>5 DEF Linked, r
<1>6. CASE Len(s) > 1
  <2>1. s[2] \in Block /\ s[2] # Null
    BY <1>2, <1>6, BlockAssumption
  <2>2. r[1] = s[2] /\ r[Len(r)] = t /\ r # << >>
    BY <1>1, <1>2, <1>4, <1>6
  <2>3. ASSUME NEW i \in 1 .. Len(r) PROVE nx[r[i]] = IF i < Len(r) THEN r[i + 1] ELSE Null
    <3>1. /\ r[i] = s[i + 1] /\ i + 1 \in 1 .. Len(s)
          /\ i < Len(r) <=> i + 1 < Len(s)
          /\ i < Len(r) => r[i + 1] = s[i + 2]
      BY <1>1, <1>2
    <3>2. nx[s[i + 1]] = IF i + 1 < Len(s) THEN s[(i + 1) + 1] ELSE Null
      BY <3>1 DEF Linked
    <3> QED BY <3>1, <3>2
  <2>4. c - 1 = Len(r)
    BY <1>1, <1>2
  <2> QED BY <1>3, <1>6, <2>1, <2>2, <2>3, <2>4 DEF Linked, r
<1> QED BY <1>2, <1>5, <1>6

\* Q_push: the block becomes the first.
LEMMA LinkedPush ==
    ASSUME NEW h, NEW t, NEW c, NEW nx \in [Block -> Ptr], NEW s \in Seq(Block), NEW b \in Block,
           Linked(h, t, c, nx, s), b \notin Elems(s)
    PROVE  Linked(b, IF t = Null THEN b ELSE t, c + 1, [nx EXCEPT ![b] = h], <<b>> \o s)
<1> DEFINE p == <<b>> \o s
           mx == [nx EXCEPT ![b] = h]
<1>1. /\ p \in Seq(Block) /\ Len(p) = Len(s) + 1 /\ p[1] = b /\ p # << >>
      /\ \A i \in 1 .. Len(s) : p[i + 1] = s[i]
  BY PushShape
<1>2. mx[b] = h /\ \A x \in Block : x # b => mx[x] = nx[x]
  OBVIOUS
<1>3. Len(s) \in Nat
  OBVIOUS
<1> HIDE DEF p, mx
<1>4. \A i \in 1 .. Len(s) : s[i] # b /\ s[i] \in Block
  BY DEF Elems
<1>5. ASSUME NEW i \in 1 .. Len(p) PROVE mx[p[i]] = IF i < Len(p) THEN p[i + 1] ELSE Null
  <2>1. CASE i = 1
    <3>1. CASE s = << >>
      BY <1>1, <1>2, <2>1, <3>1 DEF Linked
    <3>2. CASE s # << >>
      <4>1. 1 \in 1 .. Len(s) /\ h = s[1]
        BY <3>2 DEF Linked
      <4> QED BY <1>1, <1>2, <1>3, <2>1, <4>1
    <3> QED BY <3>1, <3>2
  <2>2. CASE i > 1
    <3>1. /\ i - 1 \in 1 .. Len(s) /\ (i - 1) + 1 = i
          /\ i < Len(p) <=> i - 1 < Len(s)
      BY <1>1, <1>3, <2>2
    <3>2. p[i] = s[i - 1]
      BY <1>1, <3>1
    <3>3. i < Len(p) => p[i + 1] = s[i]
      BY <1>1, <1>3, <2>2, <3>1
    <3>4. nx[s[i - 1]] = IF i - 1 < Len(s) THEN s[(i - 1) + 1] ELSE Null
      BY <3>1 DEF Linked
    <3> QED BY <1>2, <1>4, <3>1, <3>2, <3>3, <3>4
  <2> QED BY <2>1, <2>2
<1>6. p[Len(p)] = IF t = Null THEN b ELSE t
  <2>1. CASE s = << >>
    BY <1>1, <2>1 DEF Linked
  <2>2. CASE s # << >>
    <3>1. Len(s) \in 1 .. Len(s) /\ t = s[Len(s)] /\ t \in Block
      BY <2>2 DEF Linked
    <3> QED BY <1>1, <3>1, BlockAssumption
  <2> QED BY <2>1, <2>2
<1>7. c + 1 = Len(p)
  BY <1>1 DEF Linked
<1> QED BY <1>1, <1>5, <1>6, <1>7 DEF Linked, p, mx

\* A step inside pre_fork that moves no block leaves every other thread where
\* it is.
LEMMA GotoKeeps ==
    ASSUME RqTypeOK, ForkInv, rq_cur \in Block, NEW q \in Popping \cup Appending,
           UNCHANGED rq_cur, rq_pc' = [rq_pc EXCEPT ![rq_cur] = q],
           q \in Appending <=> where \in Appending,
           q \in Appending => new' = new
    PROVE  /\ ForkInv' /\ where' = q /\ Waiting' = Waiting /\ Exited' = Exited
           /\ rq_pc' \in [Block -> {"unused", "born", "run", "free"} \cup Popping \cup Appending]
<1>1. rq_pc \in [Block -> {"unused", "born", "run", "free"} \cup Popping \cup Appending]
  BY DEF RqTypeOK, Popping, Appending
<1>2. rq_pc'[rq_cur] = q /\ \A b \in Block : b # rq_cur => rq_pc'[b] = rq_pc[b]
  BY <1>1
<1>3. rq_cur # Null /\ where = rq_pc[rq_cur] /\ where' = q
  BY <1>2, BlockAssumption DEF where
<1>4. where \in {"run"} \cup Popping \cup Appending
  BY DEF ForkInv
<1>5. q \notin {"run", "free", "born"} /\ rq_pc[rq_cur] \notin {"free", "born"}
  BY <1>3, <1>4 DEF Popping, Appending
<1>6. Waiting' = Waiting /\ Exited' = Exited
  BY <1>2, <1>5 DEF Waiting, Exited
<1>7. ForkInv'
  <2>1. \A b \in Block : rq_pc'[b] \in Popping \cup Appending => b = rq_cur'
    BY <1>2 DEF ForkInv
  <2>2. where' \in Appending => new' \in Block /\ rq_pc'[new'] = "born"
    BY <1>2, <1>3, <1>5 DEF ForkInv
  <2>3. \A b \in Block : rq_pc'[b] = "born" => where' \in Appending /\ b = new'
    BY <1>2, <1>3, <1>5 DEF ForkInv
  <2> QED BY <1>3, <2>1, <2>2, <2>3 DEF ForkInv
<1> QED BY <1>1, <1>3, <1>6, <1>7

\* The fields of the queues have their types.
FieldsOK ==
    /\ head \in [Queues -> Ptr] /\ tail \in [Queues -> Ptr] /\ cnt \in [Queues -> Nat]
    /\ next \in [Block -> Ptr]

LocalsOK == e \in [Block -> Ptr] /\ last \in [Block -> Ptr] /\ n \in [Block -> Nat]

PcOK == rq_pc \in [Block -> {"unused", "born", "run", "free"} \cup Popping \cup Appending]

\* The type of the module's state, in parts.
LEMMA TypeParts ==
    RqTypeOK <=> /\ FieldsOK /\ LocalsOK /\ PcOK /\ rq_cur \in Ptr
                 /\ forks \in 0 .. MaxForks /\ ready \in Seq(Block)
BY DEF RqTypeOK, FieldsOK, LocalsOK, PcOK, Ptr, Popping, Appending

\* The same after a step.
LEMMA TypePartsAfter ==
    ASSUME FieldsOK', LocalsOK', PcOK', rq_cur' \in Ptr, forks' \in 0 .. MaxForks, ready' \in Seq(Block)
    PROVE  RqTypeOK'
BY DEF RqTypeOK, FieldsOK, LocalsOK, PcOK, Ptr, Popping, Appending

\* The queue without its first thread.
LEMMA TailQueue ==
    ASSUME NEW T, NEW q \in Seq(T), q # << >>, Distinct(q)
    PROVE  /\ Tail(q) \in Seq(T) /\ Distinct(Tail(q)) /\ q[1] \in T
           /\ q[1] \in Elems(q) /\ Elems(Tail(q)) = Elems(q) \ {q[1]}
<1> DEFINE r == Tail(q)
<1>1. /\ r \in Seq(T) /\ Len(r) = Len(q) - 1 /\ \A i \in 1 .. Len(r) : r[i] = q[i + 1]
      /\ Len(q) \in Nat \ {0}
  OBVIOUS
<1> HIDE DEF r
<1>2. q[1] \in T /\ q[1] \in Elems(q)
  BY <1>1 DEF Elems
<1>3. Distinct(r)
  <2> SUFFICES ASSUME NEW i \in 1 .. Len(r), NEW j \in 1 .. Len(r), r[i] = r[j] PROVE i = j
    BY DEF Distinct
  <2>1. i + 1 \in 1 .. Len(q) /\ j + 1 \in 1 .. Len(q) /\ q[i + 1] = q[j + 1]
    BY <1>1
  <2> QED BY <2>1 DEF Distinct
<1>4. ASSUME NEW i \in 1 .. Len(r) PROVE r[i] \in Elems(q) \ {q[1]}
  <2>1. i + 1 \in 1 .. Len(q) /\ 1 \in 1 .. Len(q) /\ i + 1 # 1 /\ r[i] = q[i + 1]
    BY <1>1
  <2> QED BY <2>1 DEF Distinct, Elems
<1>5. ASSUME NEW i \in 1 .. Len(q), q[i] # q[1] PROVE q[i] \in Elems(r)
  <2>1. i - 1 \in 1 .. Len(r) /\ r[i - 1] = q[i]
    <3>1. i # 1
      BY <1>5
    <3>2. i - 1 \in 1 .. Len(r) /\ (i - 1) + 1 = i
      BY <1>1, <3>1
    <3> QED BY <1>1, <3>2
  <2> QED BY <2>1 DEF Elems
<1>6. Elems(r) = Elems(q) \ {q[1]}
  BY <1>4, <1>5 DEF Elems
<1> QED BY <1>1, <1>2, <1>3, <1>6 DEF r

\* The facts about an undisturbed state that every operation starts from.
LEMMA QueuesAtRest ==
    ASSUME QueuesInv, where = "run"
    PROVE  /\ Linked(head["runq"], tail["runq"], cnt["runq"], next, ready)
           /\ \A b \in Block : rq_pc[b] \in {"unused", "run", "free"}
           /\ Distinct(ready) /\ Elems(ready) = Waiting /\ ready \in Seq(Block)
           /\ \E s \in Seq(Block) :
                 /\ Distinct(s) /\ Elems(s) = Exited
                 /\ Linked(head["freeq"], tail["freeq"], cnt["freeq"], next, s)
<1>1. /\ Linked(head["runq"], tail["runq"], cnt["runq"], next, ready)
      /\ Distinct(ready) /\ Elems(ready) = Waiting
  BY DEF QueuesInv, RunqInv
<1>2. ready \in Seq(Block)
  BY TypeParts DEF QueuesInv
<1>3. \A b \in Block : rq_pc[b] \in {"unused", "run", "free"}
  <2>1. PcOK /\ ForkInv
    BY TypeParts DEF QueuesInv
  <2> SUFFICES ASSUME NEW b \in Block, rq_pc[b] \in {"born"} \cup Popping \cup Appending PROVE FALSE
    BY <2>1, Zenon DEF PcOK
  <2>2. rq_pc[b] # "born"
    BY <2>1 DEF ForkInv, Appending
  <2>3. b = rq_cur /\ rq_pc[b] \in Popping \cup Appending
    BY <2>1, <2>2 DEF ForkInv
  <2>4. rq_pc[b] = "run"
    BY <2>3, BlockAssumption DEF where
  <2> QED BY <2>3, <2>4 DEF Popping, Appending
<1>4. \E s \in Seq(Block) :
        /\ Distinct(s) /\ Elems(s) = Exited
        /\ Linked(head["freeq"], tail["freeq"], cnt["freeq"], next, s)
  BY DEF QueuesInv, FreeIs
<1> QED BY <1>1, <1>2, <1>3, <1>4

\* They are also enough after a step.
LEMMA RestQueues ==
    ASSUME RqTypeOK', where' = "run", \A b \in Block : rq_pc'[b] \in {"unused", "run", "free"},
           Linked(head'["runq"], tail'["runq"], cnt'["runq"], next', ready'),
           Distinct(ready'), Elems(ready') = Waiting',
           NEW s \in Seq(Block), Distinct(s), Elems(s) = Exited',
           Linked(head'["freeq"], tail'["freeq"], cnt'["freeq"], next', s)
    PROVE  QueuesInv'
<1>1. ForkInv'
  BY DEF ForkInv, Popping, Appending
<1>2. RunqInv'
  BY DEF RunqInv, Popping, Appending
<1>3. FreeIs(s)'
  BY DEF FreeIs, Popping
<1> QED BY <1>1, <1>2, <1>3 DEF QueuesInv

\* The scheduler takes the first thread of the run queue.
LEMMA DispatchKeeps ==
    ASSUME QueuesInv, Dispatch
    PROVE  QueuesInv'
<1>0. /\ rq_cur = Null /\ head["runq"] # Null /\ rq_cur' = head["runq"]
      /\ ready' = IF ready = << >> THEN ready ELSE Tail(ready)
      /\ cnt' = [cnt EXCEPT !["runq"] = @ - 1]
      /\ head' = [head EXCEPT !["runq"] = next[head["runq"]]]
      /\ tail' = [tail EXCEPT !["runq"] = IF next[head["runq"]] = Null THEN Null ELSE @]
      /\ UNCHANGED <<next, rq_pc, e, n, last, forks>>
  BY DEF Dispatch, Q_pop, locals
<1>1. where = "run"
  BY <1>0 DEF where
<1>2. /\ FieldsOK /\ LocalsOK /\ PcOK /\ forks \in 0 .. MaxForks
  BY TypeParts DEF QueuesInv
<1>3. /\ Linked(head["runq"], tail["runq"], cnt["runq"], next, ready)
      /\ \A b \in Block : rq_pc[b] \in {"unused", "run", "free"}
      /\ Distinct(ready) /\ Elems(ready) = Waiting /\ ready \in Seq(Block)
  BY <1>1, QueuesAtRest
<1>4. PICK s \in Seq(Block) :
        /\ Distinct(s) /\ Elems(s) = Exited
        /\ Linked(head["freeq"], tail["freeq"], cnt["freeq"], next, s)
  BY <1>1, QueuesAtRest
<1>5. /\ ready # << >> /\ head["runq"] = ready[1] /\ cnt["runq"] >= 1
      /\ ready' = Tail(ready)
  BY <1>0, <1>3, LinkedEmpty
<1>6. /\ ready' \in Seq(Block) /\ Distinct(ready') /\ ready[1] \in Block
      /\ ready[1] \in Elems(ready) /\ Elems(ready') = Elems(ready) \ {ready[1]}
  BY <1>3, <1>5, TailQueue
<1>7. /\ head'["runq"] = next[head["runq"]] /\ head'["freeq"] = head["freeq"]
      /\ tail'["runq"] = (IF next[head["runq"]] = Null THEN Null ELSE tail["runq"])
      /\ tail'["freeq"] = tail["freeq"]
      /\ cnt'["runq"] = cnt["runq"] - 1 /\ cnt'["freeq"] = cnt["freeq"]
  BY <1>0, <1>2 DEF FieldsOK, Queues
<1>8. Linked(head'["runq"], tail'["runq"], cnt'["runq"], next', ready')
  <2>1. Linked(next[head["runq"]], IF next[head["runq"]] = Null THEN Null ELSE tail["runq"],
               cnt["runq"] - 1, next, Tail(ready))
    BY <1>3, <1>5, LinkedPop
  <2> QED BY <1>0, <1>5, <1>7, <2>1
<1>9. FieldsOK'
  <2>1. next[head["runq"]] \in Ptr /\ cnt["runq"] - 1 \in Nat
    BY <1>2, <1>5, <1>6 DEF FieldsOK, Queues, Ptr
  <2> QED BY <1>0, <1>2, <2>1, Zenon DEF FieldsOK, Ptr
<1>10. RqTypeOK'
  <2>1. LocalsOK' /\ PcOK' /\ rq_cur' \in Ptr /\ forks' \in 0 .. MaxForks
    BY <1>0, <1>2, <1>5, <1>6 DEF LocalsOK, PcOK, Ptr
  <2> QED BY <1>6, <1>9, <2>1, TypePartsAfter
<1>11. rq_cur' = ready[1] /\ rq_pc'[rq_cur'] = "run" /\ where' = "run"
  BY <1>0, <1>3, <1>5, <1>6, BlockAssumption DEF where, Waiting
<1>12. Waiting' = Waiting \ {ready[1]} /\ Exited' = Exited
  BY <1>0, <1>11, BlockAssumption DEF Waiting, Exited
<1>13. /\ Elems(ready') = Waiting' /\ Elems(s) = Exited'
       /\ Linked(head'["freeq"], tail'["freeq"], cnt'["freeq"], next', s)
       /\ \A b \in Block : rq_pc'[b] \in {"unused", "run", "free"}
  BY <1>0, <1>3, <1>4, <1>6, <1>7, <1>12
<1> QED BY <1>4, <1>6, <1>8, <1>10, <1>11, <1>13, RestQueues

\* The timer puts the thread that runs at the end of the run queue.
LEMMA RqTimerKeeps ==
    ASSUME QueuesInv, RqTimer, ForkMasked
    PROVE  QueuesInv'
<1>0. /\ rq_cur # Null /\ rq_pc[rq_cur] = "run" /\ rq_cur' = Null
      /\ ready' = Append(ready, rq_cur)
      /\ cnt' = [cnt EXCEPT !["runq"] = @ + 1]
      /\ tail' = [tail EXCEPT !["runq"] = rq_cur]
      /\ IF tail["runq"] = Null
         THEN head' = [head EXCEPT !["runq"] = rq_cur] /\ next' = [next EXCEPT ![rq_cur] = Null]
         ELSE /\ next' = [next EXCEPT ![rq_cur] = Null, ![tail["runq"]] = rq_cur]
              /\ UNCHANGED head
      /\ UNCHANGED <<rq_pc, e, n, last, forks>>
  BY DEF RqTimer, Q_append, locals
<1>1. where = "run"
  BY <1>0 DEF where
<1>2. /\ FieldsOK /\ LocalsOK /\ PcOK /\ forks \in 0 .. MaxForks /\ rq_cur \in Block
  BY <1>0, TypeParts DEF QueuesInv, Ptr
<1>3. /\ Linked(head["runq"], tail["runq"], cnt["runq"], next, ready)
      /\ \A b \in Block : rq_pc[b] \in {"unused", "run", "free"}
      /\ Distinct(ready) /\ Elems(ready) = Waiting /\ ready \in Seq(Block)
  BY <1>1, QueuesAtRest
<1>4. PICK s \in Seq(Block) :
        /\ Distinct(s) /\ Elems(s) = Exited
        /\ Linked(head["freeq"], tail["freeq"], cnt["freeq"], next, s)
  BY <1>1, QueuesAtRest
<1>5. rq_cur \notin Elems(ready) /\ rq_cur \notin Elems(s) /\ Elems(ready) \cap Elems(s) = {}
  BY <1>0, <1>3, <1>4 DEF Waiting, Exited
<1>6. /\ ready' \in Seq(Block) /\ Distinct(ready') /\ Elems(ready') = Elems(ready) \cup {rq_cur}
  BY <1>0, <1>2, <1>3, <1>5, QueueThread
<1> DEFINE nx == [next EXCEPT ![rq_cur] = Null]
<1>7. /\ nx \in [Block -> Ptr] /\ nx[rq_cur] = Null
      /\ \A x \in Block : x # rq_cur => nx[x] = next[x]
  BY <1>2 DEF FieldsOK, Ptr
<1>8. Elems(ready) \subseteq Block /\ Elems(s) \subseteq Block
  BY <1>3, <1>4 DEF Waiting, Exited
<1>9. Linked(head["runq"], tail["runq"], cnt["runq"], nx, ready)
  <2>1. \A x \in Elems(ready) : nx[x] = next[x]
    BY <1>5, <1>7, <1>8
  <2> HIDE DEF nx
  <2> QED BY <1>3, <2>1, LinkedFrame
<1>10. /\ tail'["runq"] = rq_cur /\ tail'["freeq"] = tail["freeq"]
       /\ cnt'["runq"] = cnt["runq"] + 1 /\ cnt'["freeq"] = cnt["freeq"]
       /\ tail' \in [Queues -> Ptr] /\ cnt' \in [Queues -> Nat]
  BY <1>0, <1>2 DEF FieldsOK, Queues, Ptr
<1>11. /\ FieldsOK' /\ head'["freeq"] = head["freeq"]
       /\ Linked(head'["runq"], tail'["runq"], cnt'["runq"], next', ready')
       /\ \A x \in Elems(s) : next'[x] = next[x]
  <2>1. CASE ready = << >>
    <3>1. tail["runq"] = Null
      BY <1>3, <2>1, LinkedEmpty, Zenon
    <3>2. next' = nx /\ head' = [head EXCEPT !["runq"] = rq_cur]
      BY <1>0, <3>1
    <3>3. head'["runq"] = rq_cur /\ head'["freeq"] = head["freeq"] /\ head' \in [Queues -> Ptr]
      BY <1>2, <3>2 DEF FieldsOK, Queues, Ptr
    <3>4. \A x \in Elems(s) : next'[x] = next[x]
      BY <1>5, <1>7, <1>8, <3>2
    <3> HIDE DEF nx
    <3>5. Linked(rq_cur, rq_cur, cnt["runq"] + 1, nx, Append(ready, rq_cur))
      BY <1>2, <1>3, <1>5, <1>7, <1>9, <2>1, LinkedAppend, Zenon
    <3>6. Linked(head'["runq"], tail'["runq"], cnt'["runq"], next', ready')
      BY <1>0, <1>10, <3>2, <3>3, <3>5
    <3>7. FieldsOK'
      BY <1>7, <1>10, <3>2, <3>3 DEF FieldsOK
    <3> QED BY <3>3, <3>4, <3>6, <3>7
  <2>2. CASE ready # << >>
    <3>1. /\ tail["runq"] # Null /\ tail["runq"] \in Block /\ tail["runq"] \in Elems(ready)
      <4>1. tail["runq"] # Null /\ tail["runq"] \in Block /\ tail["runq"] = ready[Len(ready)]
        BY <1>3, <2>2, LinkedEmpty
      <4>2. Len(ready) \in 1 .. Len(ready)
        BY <1>3, <2>2
      <4> QED BY <4>1, <4>2 DEF Elems
    <3>2. next' = [nx EXCEPT ![tail["runq"]] = rq_cur] /\ head' = head
      BY <1>0, <3>1
    <3>3. next' \in [Block -> Ptr] /\ \A x \in Elems(s) : next'[x] = next[x]
      <4>1. \A x \in Elems(s) : x # tail["runq"] /\ x # rq_cur /\ x \in Block
        BY <1>5, <1>8, <3>1
      <4> HIDE DEF nx
      <4> QED BY <1>2, <1>7, <3>2, <4>1, Zenon DEF Ptr
    <3> HIDE DEF nx
    <3>4. Linked(head["runq"], rq_cur, cnt["runq"] + 1, [nx EXCEPT ![tail["runq"]] = rq_cur],
                 Append(ready, rq_cur))
      BY <1>2, <1>3, <1>5, <1>7, <1>9, <2>2, LinkedAppend, Zenon
    <3>5. Linked(head'["runq"], tail'["runq"], cnt'["runq"], next', ready')
      BY <1>0, <1>10, <3>2, <3>4
    <3>6. FieldsOK'
      BY <1>2, <1>10, <3>2, <3>3 DEF FieldsOK
    <3> QED BY <3>2, <3>3, <3>5, <3>6
  <2> QED BY <2>1, <2>2
<1>12. Linked(head'["freeq"], tail'["freeq"], cnt'["freeq"], next', s)
  <2>1. Linked(head["freeq"], tail["freeq"], cnt["freeq"], next', s)
    BY <1>4, <1>11, LinkedFrame
  <2> QED BY <1>10, <1>11, <2>1
<1>13. RqTypeOK'
  <2>1. LocalsOK' /\ PcOK' /\ rq_cur' \in Ptr /\ forks' \in 0 .. MaxForks
    BY <1>0, <1>2 DEF LocalsOK, PcOK, Ptr
  <2> QED BY <1>6, <1>11, <2>1, TypePartsAfter
<1>14. where' = "run" /\ Waiting' = Waiting \cup {rq_cur} /\ Exited' = Exited
  BY <1>0, <1>2, BlockAssumption DEF where, Waiting, Exited
<1>15. /\ Elems(ready') = Waiting' /\ Elems(s) = Exited'
       /\ \A b \in Block : rq_pc'[b] \in {"unused", "run", "free"}
  BY <1>0, <1>3, <1>4, <1>6, <1>14
<1> QED BY <1>4, <1>6, <1>11, <1>12, <1>13, <1>14, <1>15, RestQueues

\* pre_exit puts the block of the thread that runs on the free list.
LEMMA ExitKeeps ==
    ASSUME QueuesInv, pre_exit
    PROVE  QueuesInv'
<1>0. /\ rq_cur # Null /\ rq_pc[rq_cur] = "run" /\ rq_cur' = Null
      /\ cnt' = [cnt EXCEPT !["freeq"] = @ + 1]
      /\ next' = [next EXCEPT ![rq_cur] = head["freeq"]]
      /\ head' = [head EXCEPT !["freeq"] = rq_cur]
      /\ tail' = [tail EXCEPT !["freeq"] = IF @ = Null THEN rq_cur ELSE @]
      /\ rq_pc' = [rq_pc EXCEPT ![rq_cur] = "free"]
      /\ UNCHANGED <<e, n, last, forks, ready>>
  BY DEF pre_exit, Q_push, locals
<1>1. where = "run"
  BY <1>0 DEF where
<1>2. /\ FieldsOK /\ LocalsOK /\ PcOK /\ forks \in 0 .. MaxForks /\ rq_cur \in Block
  BY <1>0, TypeParts DEF QueuesInv, Ptr
<1>3. /\ Linked(head["runq"], tail["runq"], cnt["runq"], next, ready)
      /\ \A b \in Block : rq_pc[b] \in {"unused", "run", "free"}
      /\ Distinct(ready) /\ Elems(ready) = Waiting /\ ready \in Seq(Block)
  BY <1>1, QueuesAtRest
<1>4. PICK s \in Seq(Block) :
        /\ Distinct(s) /\ Elems(s) = Exited
        /\ Linked(head["freeq"], tail["freeq"], cnt["freeq"], next, s)
  BY <1>1, QueuesAtRest
<1>5. rq_cur \notin Elems(ready) /\ rq_cur \notin Elems(s)
  BY <1>0, <1>3, <1>4 DEF Waiting, Exited
<1> DEFINE p == <<rq_cur>> \o s
<1>6. p \in Seq(Block) /\ Distinct(p) /\ Elems(p) = {rq_cur} \cup Elems(s)
  BY <1>2, <1>4, <1>5, PushThread
<1>7. /\ head'["runq"] = head["runq"] /\ head'["freeq"] = rq_cur
      /\ tail'["runq"] = tail["runq"]
      /\ tail'["freeq"] = IF tail["freeq"] = Null THEN rq_cur ELSE tail["freeq"]
      /\ cnt'["runq"] = cnt["runq"] /\ cnt'["freeq"] = cnt["freeq"] + 1
  BY <1>0, <1>2 DEF FieldsOK, Queues
<1>8. FieldsOK'
  BY <1>0, <1>2 DEF FieldsOK, Queues, Ptr
<1>9. Linked(head'["freeq"], tail'["freeq"], cnt'["freeq"], next', p)
  <2>1. Linked(rq_cur, IF tail["freeq"] = Null THEN rq_cur ELSE tail["freeq"], cnt["freeq"] + 1,
               [next EXCEPT ![rq_cur] = head["freeq"]], p)
    BY <1>2, <1>4, <1>5, LinkedPush, Zenon DEF FieldsOK
  <2> QED BY <1>0, <1>7, <2>1
<1>10. Linked(head'["runq"], tail'["runq"], cnt'["runq"], next', ready')
  <2>1. Elems(ready) \subseteq Block
    BY <1>3 DEF Waiting
  <2>2. \A x \in Elems(ready) : next'[x] = next[x]
    BY <1>0, <1>2, <1>5, <2>1 DEF FieldsOK
  <2>3. Linked(head["runq"], tail["runq"], cnt["runq"], next', ready)
    BY <1>3, <2>2, LinkedFrame
  <2> QED BY <1>0, <1>7, <2>3
<1>11. /\ PcOK' /\ rq_pc'[rq_cur] = "free"
       /\ \A b \in Block : b # rq_cur => rq_pc'[b] = rq_pc[b]
  BY <1>0, <1>2 DEF PcOK
<1>12. RqTypeOK'
  <2>1. LocalsOK' /\ rq_cur' \in Ptr /\ forks' \in 0 .. MaxForks /\ ready' \in Seq(Block)
    BY <1>0, <1>2, <1>3 DEF LocalsOK, Ptr
  <2> QED BY <1>8, <1>11, <2>1, TypePartsAfter
<1>13. where' = "run" /\ Waiting' = Waiting /\ Exited' = Exited \cup {rq_cur}
  BY <1>0, <1>2, <1>11, BlockAssumption DEF where, Waiting, Exited
<1>14. /\ Distinct(ready') /\ Elems(ready') = Waiting' /\ Elems(p) = Exited'
       /\ \A b \in Block : rq_pc'[b] \in {"unused", "run", "free"}
  BY <1>0, <1>3, <1>4, <1>6, <1>11, <1>13
<1> HIDE DEF p
<1> QED BY <1>6, <1>9, <1>10, <1>12, <1>13, <1>14, RestQueues

\* th_alloc with an empty free list: kmalloc provides a block.
LEMMA AllocFreshKeeps ==
    ASSUME QueuesInv, AllocFresh
    PROVE  QueuesInv'
<1>0. /\ rq_cur # Null /\ rq_pc[rq_cur] = "run" /\ forks < MaxForks /\ forks' = forks + 1
      /\ UNCHANGED <<head, tail, cnt, next, rq_cur, n, last, ready>>
  BY DEF AllocFresh, At, queue
<1>1. PICK b \in Block : /\ rq_pc[b] = "unused" /\ e' = [e EXCEPT ![rq_cur] = b]
                         /\ rq_pc' = [rq_pc EXCEPT ![rq_cur] = "append", ![b] = "born"]
  BY Zenon DEF AllocFresh, Set
<1>2. where = "run"
  BY <1>0 DEF where
<1>3. FieldsOK /\ LocalsOK /\ PcOK /\ forks \in 0 .. MaxForks /\ rq_cur \in Block
  BY <1>0, TypeParts DEF QueuesInv, Ptr
<1>4. /\ Linked(head["runq"], tail["runq"], cnt["runq"], next, ready)
      /\ \A x \in Block : rq_pc[x] \in {"unused", "run", "free"}
      /\ Distinct(ready) /\ Elems(ready) = Waiting /\ ready \in Seq(Block)
  BY <1>2, QueuesAtRest
<1>5. PICK s \in Seq(Block) :
        /\ Distinct(s) /\ Elems(s) = Exited
        /\ Linked(head["freeq"], tail["freeq"], cnt["freeq"], next, s)
  BY <1>2, QueuesAtRest
<1>6. b # rq_cur
  BY <1>0, <1>1
<1>7. /\ rq_pc'[rq_cur] = "append" /\ rq_pc'[b] = "born"
      /\ \A x \in Block : x # b /\ x # rq_cur => rq_pc'[x] = rq_pc[x]
      /\ PcOK'
  BY <1>1, <1>3, <1>6 DEF PcOK, Appending
<1>8. e' \in [Block -> Ptr] /\ e'[rq_cur] = b
  BY <1>1, <1>3 DEF LocalsOK, Ptr
<1>9. where' = "append" /\ new' = b
  BY <1>0, <1>7, <1>8 DEF where, new
<1>10. Waiting' = Waiting /\ Exited' = Exited
  BY <1>0, <1>1, <1>7, ZenonT(60) DEF Waiting, Exited
<1>11. RqTypeOK'
  <2>1. FieldsOK' /\ LocalsOK' /\ rq_cur' \in Ptr /\ ready' \in Seq(Block)
    BY <1>0, <1>3, <1>4, <1>8 DEF FieldsOK, LocalsOK, Ptr
  <2>2. forks' \in 0 .. MaxForks
    BY <1>0, <1>3, BlockAssumption
  <2> QED BY <1>7, <2>1, <2>2, TypePartsAfter
<1>12. ForkInv'
  <2>1. \A x \in Block : rq_pc'[x] \in Popping \cup Appending => x = rq_cur'
    BY <1>0, <1>4, <1>7 DEF Popping, Appending
  <2>2. \A x \in Block : rq_pc'[x] = "born" => x = b
    BY <1>4, <1>7
  <2> QED BY <1>7, <1>9, <2>1, <2>2 DEF ForkInv, Appending
<1>13. RunqInv'
  BY <1>0, <1>4, <1>9, <1>10 DEF RunqInv, Popping, Appending
<1>14. FreeIs(s)'
  BY <1>0, <1>5, <1>9, <1>10 DEF FreeIs, Popping
<1> QED BY <1>11, <1>12, <1>13, <1>14 DEF QueuesInv

\* The steps of Q_pop on the free list, up to its last one.
LEMMA PopStepsKeep ==
    ASSUME QueuesInv, AllocFree \/ PopCount \/ PopHead
    PROVE  QueuesInv'
<1>1. rq_cur # Null /\ UNCHANGED <<rq_cur, last, ready, next, tail>>
  BY DEF AllocFree, PopCount, PopHead, At, queue, locals
<1>2. /\ FieldsOK /\ LocalsOK /\ PcOK /\ forks \in 0 .. MaxForks /\ rq_cur \in Block
      /\ ready \in Seq(Block)
  BY <1>1, TypeParts DEF QueuesInv, Ptr
<1>3. RqTypeOK /\ ForkInv /\ RunqInv
  BY DEF QueuesInv
<1>4. PICK s \in Seq(Block) : FreeIs(s)
  BY DEF QueuesInv
<1>5. CASE AllocFree
  <2>0. /\ rq_pc[rq_cur] = "run" /\ forks < MaxForks /\ head["freeq"] # Null
        /\ e' = [e EXCEPT ![rq_cur] = head["freeq"]]
        /\ n' = [n EXCEPT ![rq_cur] = cnt["freeq"]]
        /\ rq_pc' = [rq_pc EXCEPT ![rq_cur] = "pop_cnt"] /\ forks' = forks + 1
        /\ UNCHANGED <<head, cnt>>
    BY <1>5 DEF AllocFree, At, Set, Goto, queue
  <2>1. where = "run"
    BY <1>1, <2>0 DEF where
  <2>2. /\ ForkInv' /\ where' = "pop_cnt" /\ Waiting' = Waiting /\ Exited' = Exited /\ PcOK'
    BY <1>1, <1>2, <1>3, <2>0, <2>1, GotoKeeps DEF Popping, Appending, PcOK
  <2>3. Linked(head["freeq"], tail["freeq"], cnt["freeq"], next, s)
    BY <1>4, <2>1 DEF FreeIs
  <2>4. s # << >> /\ head["freeq"] = s[1] /\ head["freeq"] \in Block
    BY <2>0, <2>3, LinkedEmpty
  <2>5. LocalsOK' /\ new' = s[1] /\ n'[rq_cur] = cnt["freeq"]
    BY <1>1, <1>2, <2>0, <2>4 DEF LocalsOK, FieldsOK, Queues, Ptr, new
  <2>6. RqTypeOK'
    <3>1. FieldsOK' /\ rq_cur' \in Ptr /\ forks' \in 0 .. MaxForks /\ ready' \in Seq(Block)
      BY <1>1, <1>2, <2>0, BlockAssumption DEF FieldsOK, Ptr
    <3> QED BY <2>2, <2>5, <3>1, TypePartsAfter
  <2>7. RunqInv'
    BY <1>1, <1>3, <2>0, <2>1, <2>2 DEF RunqInv, Popping, Appending
  <2>8. FreeIs(s)'
    BY <1>1, <1>4, <2>0, <2>2, <2>3, <2>4, <2>5 DEF FreeIs, Popping
  <2> QED BY <2>2, <2>6, <2>7, <2>8 DEF QueuesInv
<1>6. CASE PopCount
  <2>0. /\ rq_pc[rq_cur] = "pop_cnt" /\ rq_pc' = [rq_pc EXCEPT ![rq_cur] = "pop_head"]
        /\ cnt' = [cnt EXCEPT !["freeq"] = n[rq_cur] - 1]
        /\ UNCHANGED <<head, e, n, forks>>
    BY <1>6 DEF PopCount, At, Set, Goto, locals
  <2>1. where = "pop_cnt"
    BY <1>1, <2>0 DEF where
  <2>2. /\ ForkInv' /\ where' = "pop_head" /\ Waiting' = Waiting /\ Exited' = Exited /\ PcOK'
    BY <1>1, <1>2, <1>3, <2>0, <2>1, GotoKeeps DEF Popping, Appending, PcOK
  <2>3. /\ Linked(head["freeq"], tail["freeq"], cnt["freeq"], next, s) /\ s # << >>
        /\ n[rq_cur] = cnt["freeq"] /\ new = s[1]
    BY <1>4, <2>1 DEF FreeIs, Popping
  <2>4. cnt["freeq"] \in Nat /\ cnt["freeq"] >= 1
    BY <2>3, LinkedEmpty
  <2>5. /\ cnt' \in [Queues -> Nat] /\ cnt'["runq"] = cnt["runq"]
        /\ cnt'["freeq"] + 1 = cnt["freeq"]
    BY <1>2, <2>0, <2>3, <2>4 DEF FieldsOK, Queues
  <2>6. RqTypeOK'
    <3>1. /\ FieldsOK' /\ LocalsOK' /\ rq_cur' \in Ptr /\ forks' \in 0 .. MaxForks
          /\ ready' \in Seq(Block)
      BY <1>1, <1>2, <2>0, <2>5 DEF FieldsOK, LocalsOK, Ptr
    <3> QED BY <2>2, <3>1, TypePartsAfter
  <2>7. RunqInv'
    BY <1>1, <1>3, <2>0, <2>1, <2>2, <2>5, SMTT(20) DEF RunqInv, Popping, Appending
  <2>8. FreeIs(s)'
    <3>1. new' = s[1] /\ Linked(head'["freeq"], tail'["freeq"], cnt'["freeq"] + 1, next', s)
      BY <1>1, <2>0, <2>3, <2>5 DEF new
    <3> QED BY <1>4, <2>2, <2>3, <3>1 DEF FreeIs, Popping
  <2> QED BY <2>2, <2>6, <2>7, <2>8 DEF QueuesInv
<1>7. CASE PopHead
  <2>0. /\ rq_pc[rq_cur] = "pop_head" /\ rq_pc' = [rq_pc EXCEPT ![rq_cur] = "pop_tail"]
        /\ head' = [head EXCEPT !["freeq"] = next[new]]
        /\ UNCHANGED <<cnt, e, n, forks>>
    BY <1>7 DEF PopHead, At, Set, Goto, locals
  <2>1. where = "pop_head"
    BY <1>1, <2>0 DEF where
  <2>2. /\ ForkInv' /\ where' = "pop_tail" /\ Waiting' = Waiting /\ Exited' = Exited /\ PcOK'
    BY <1>1, <1>2, <1>3, <2>0, <2>1, GotoKeeps DEF Popping, Appending, PcOK
  <2>3. /\ Linked(head["freeq"], tail["freeq"], cnt["freeq"] + 1, next, s)
        /\ s # << >> /\ new = s[1]
    BY <1>4, <2>1 DEF FreeIs, Popping
  <2>4. head["freeq"] = s[1] /\ s[1] \in Block
    BY <2>3, LinkedEmpty
  <2>5. /\ head' \in [Queues -> Ptr] /\ head'["runq"] = head["runq"]
        /\ head'["freeq"] = next[s[1]]
    BY <1>2, <2>0, <2>3, <2>4 DEF FieldsOK, Queues
  <2>6. RqTypeOK'
    <3>1. /\ FieldsOK' /\ LocalsOK' /\ rq_cur' \in Ptr /\ forks' \in 0 .. MaxForks
          /\ ready' \in Seq(Block)
      BY <1>1, <1>2, <2>0, <2>5 DEF FieldsOK, LocalsOK, Ptr
    <3> QED BY <2>2, <3>1, TypePartsAfter
  <2>7. RunqInv'
    BY <1>1, <1>3, <2>0, <2>1, <2>2, <2>5, SMTT(20) DEF RunqInv, Popping, Appending
  <2>8. FreeIs(s)'
    <3>1. /\ new' = s[1] /\ head'["freeq"] = next'[s[1]]
          /\ Linked(s[1], tail'["freeq"], cnt'["freeq"] + 1, next', s)
      BY <1>1, <2>0, <2>3, <2>4, <2>5 DEF new
    <3> QED BY <1>4, <2>2, <2>3, <3>1 DEF FreeIs, Popping
  <2> QED BY <2>2, <2>6, <2>7, <2>8 DEF QueuesInv
<1> QED BY <1>5, <1>6, <1>7

\* The last step of Q_pop: the block leaves the free list.
LEMMA PopTailKeeps ==
    ASSUME QueuesInv, PopTail
    PROVE  QueuesInv'
<1>0. /\ rq_cur # Null /\ rq_pc[rq_cur] = "pop_tail"
      /\ tail' = IF head["freeq"] = Null THEN [tail EXCEPT !["freeq"] = Null] ELSE tail
      /\ rq_pc' = [rq_pc EXCEPT ![rq_cur] = "append", ![new] = "born"]
      /\ UNCHANGED <<cnt, head, next, rq_cur, e, n, last, forks, ready>>
  BY DEF PopTail, At, Set, locals
<1>1. where = "pop_tail"
  BY <1>0 DEF where
<1>2. /\ FieldsOK /\ LocalsOK /\ PcOK /\ forks \in 0 .. MaxForks /\ rq_cur \in Block
      /\ ready \in Seq(Block)
  BY <1>0, TypeParts DEF QueuesInv, Ptr
<1>3. ForkInv /\ RunqInv
  BY DEF QueuesInv
<1>4. PICK s \in Seq(Block) : FreeIs(s)
  BY DEF QueuesInv
<1>5. /\ Distinct(s) /\ Elems(s) = Exited /\ s # << >> /\ new = s[1]
      /\ Linked(s[1], tail["freeq"], cnt["freeq"] + 1, next, s) /\ head["freeq"] = next[s[1]]
  BY <1>1, <1>4 DEF FreeIs, Popping
<1>6. /\ Tail(s) \in Seq(Block) /\ Distinct(Tail(s)) /\ s[1] \in Block
      /\ s[1] \in Exited /\ Elems(Tail(s)) = Exited \ {s[1]}
  BY <1>5, TailQueue
<1>7. /\ Linked(next[s[1]], IF next[s[1]] = Null THEN Null ELSE tail["freeq"],
                (cnt["freeq"] + 1) - 1, next, Tail(s))
  BY <1>5, LinkedPop
<1>8. rq_pc[new] = "free" /\ new # rq_cur /\ new \in Block
  BY <1>0, <1>5, <1>6 DEF Exited
<1>9. /\ rq_pc'[rq_cur] = "append" /\ rq_pc'[new] = "born"
      /\ \A x \in Block : x # new /\ x # rq_cur => rq_pc'[x] = rq_pc[x]
      /\ PcOK'
  BY <1>0, <1>2, <1>8 DEF PcOK, Appending
<1>10. where' = "append" /\ new' = new
  BY <1>0, <1>9 DEF where, new
<1>11. Waiting' = Waiting /\ Exited' = Exited \ {s[1]}
  BY <1>0, <1>5, <1>8, <1>9, Zenon DEF Waiting, Exited
<1>12. /\ tail' \in [Queues -> Ptr] /\ tail'["runq"] = tail["runq"]
       /\ tail'["freeq"] = IF next[s[1]] = Null THEN Null ELSE tail["freeq"]
  BY <1>0, <1>2, <1>5 DEF FieldsOK, Queues, Ptr
<1>13. RqTypeOK'
  <2>1. /\ FieldsOK' /\ LocalsOK' /\ rq_cur' \in Ptr /\ ready' \in Seq(Block)
        /\ forks' \in 0 .. MaxForks
    BY <1>0, <1>2, <1>12 DEF FieldsOK, LocalsOK, Ptr
  <2> QED BY <1>9, <2>1, TypePartsAfter
<1>14. ForkInv'
  <2>1. \A x \in Block : rq_pc'[x] \in Popping \cup Appending => x = rq_cur'
    BY <1>0, <1>3, <1>9 DEF ForkInv, Popping, Appending
  <2>2. \A x \in Block : rq_pc'[x] = "born" => x = new
    BY <1>1, <1>3, <1>9 DEF ForkInv, Popping, Appending
  <2> QED BY <1>8, <1>9, <1>10, <2>1, <2>2 DEF ForkInv, Appending
<1>15. RunqInv'
  BY <1>0, <1>1, <1>3, <1>10, <1>11, <1>12 DEF RunqInv, Popping, Appending
<1>16. FreeIs(Tail(s))'
  <2>1. cnt["freeq"] \in Nat /\ (cnt["freeq"] + 1) - 1 = cnt["freeq"]
    BY <1>2 DEF FieldsOK, Queues
  <2>2. Linked(head'["freeq"], tail'["freeq"], cnt'["freeq"], next', Tail(s))
    BY <1>0, <1>5, <1>7, <1>12, <2>1
  <2> QED BY <1>6, <1>10, <1>11, <2>2 DEF FreeIs, Popping
<1> QED BY <1>6, <1>13, <1>14, <1>15, <1>16, Zenon DEF QueuesInv

\* The steps of Q_append on the run queue, up to the one that completes it.
LEMMA AppendStepsKeep ==
    ASSUME QueuesInv, AppendStart \/ AppendCount \/ AppendFirst \/ AppendNext
    PROVE  QueuesInv'
<1>1. rq_cur # Null /\ UNCHANGED <<rq_cur, e, forks, ready, head>> /\ where \in Appending
  BY DEF AppendStart, AppendCount, AppendFirst, AppendNext, At, locals, where, Appending
<1>2. /\ FieldsOK /\ LocalsOK /\ PcOK /\ forks \in 0 .. MaxForks /\ rq_cur \in Block
      /\ ready \in Seq(Block)
  BY <1>1, TypeParts DEF QueuesInv, Ptr
<1>3. RqTypeOK /\ ForkInv /\ RunqInv
  BY DEF QueuesInv
<1>4. PICK s \in Seq(Block) : FreeIs(s)
  BY DEF QueuesInv
<1>5. new' = new /\ new \in Block /\ rq_pc[new] = "born"
  BY <1>1, <1>3 DEF new, ForkInv
<1>6. /\ Distinct(ready) /\ Elems(ready) = Waiting /\ Distinct(s) /\ Elems(s) = Exited
      /\ Linked(head["freeq"], tail["freeq"], cnt["freeq"], next, s)
  BY <1>1, <1>3, <1>4 DEF RunqInv, FreeIs, Appending
<1>7. new \notin Elems(ready) /\ new \notin Elems(s) /\ Elems(ready) \cap Elems(s) = {}
  BY <1>5, <1>6 DEF Waiting, Exited
<1>8. ASSUME NEW q \in Appending, rq_pc' = [rq_pc EXCEPT ![rq_cur] = q]
      PROVE  ForkInv' /\ where' = q /\ Waiting' = Waiting /\ Exited' = Exited /\ PcOK'
  BY <1>1, <1>2, <1>3, <1>5, <1>8, GotoKeeps, Zenon DEF PcOK
<1>9. ASSUME FieldsOK', LocalsOK', PcOK' PROVE RqTypeOK'
  BY <1>1, <1>2, <1>9, TypePartsAfter DEF Ptr
<1>10. ASSUME NEW q \in Appending, where' = q, Exited' = Exited,
              Linked(head'["freeq"], tail'["freeq"], cnt'["freeq"], next', s)
       PROVE  FreeIs(s)'
  BY <1>6, <1>10 DEF FreeIs, Appending, Popping
<1>11. CASE AppendStart
  <2>0. /\ rq_pc[rq_cur] = "append" /\ rq_pc' = [rq_pc EXCEPT ![rq_cur] = "app_cnt"]
        /\ next' = [next EXCEPT ![new] = Null] /\ n' = [n EXCEPT ![rq_cur] = cnt["runq"]]
        /\ UNCHANGED <<cnt, tail, last>>
    BY <1>11 DEF AppendStart, At, Set, Goto
  <2>1. where = "append"
    BY <1>1, <2>0 DEF where
  <2>2. /\ ForkInv' /\ where' = "app_cnt" /\ Waiting' = Waiting /\ Exited' = Exited /\ PcOK'
    BY <1>8, <2>0 DEF Appending
  <2>3. /\ next' \in [Block -> Ptr] /\ next'[new] = Null
        /\ \A x \in Block : x # new => next'[x] = next[x]
    BY <1>2, <1>5, <2>0 DEF FieldsOK, Ptr
  <2>4. n' \in [Block -> Nat] /\ n'[rq_cur] = cnt["runq"]
    BY <1>2, <2>0 DEF FieldsOK, LocalsOK, Queues
  <2>5. RqTypeOK'
    <3>1. FieldsOK' /\ LocalsOK'
      BY <1>1, <1>2, <2>0, <2>3, <2>4 DEF FieldsOK, LocalsOK
    <3> QED BY <1>9, <2>2, <3>1
  <2>6. (\A x \in Elems(ready) : next'[x] = next[x]) /\ (\A x \in Elems(s) : next'[x] = next[x])
    BY <1>6, <1>7, <2>3 DEF Waiting, Exited
  <2>7. Linked(head["runq"], tail["runq"], cnt["runq"], next, ready)
    BY <1>3, <2>1 DEF RunqInv
  <2>8. Linked(head["runq"], tail["runq"], cnt["runq"], next', ready)
    BY <1>2, <2>6, <2>7, LinkedFrame
  <2>9. Linked(head["freeq"], tail["freeq"], cnt["freeq"], next', s)
    BY <1>6, <2>6, LinkedFrame, SMTT(20)
  <2>10. RunqInv'
    BY <1>1, <1>5, <1>6, <2>0, <2>2, <2>3, <2>4, <2>8 DEF RunqInv, Appending, Popping
  <2>11. FreeIs(s)'
    BY <1>1, <1>10, <2>0, <2>2, <2>9 DEF Appending
  <2> QED BY <2>2, <2>5, <2>10, <2>11 DEF QueuesInv
<1>12. CASE AppendCount
  <2> DEFINE q == IF tail["runq"] = Null THEN "app_first" ELSE "app_next"
  <2>0. /\ rq_pc[rq_cur] = "app_cnt" /\ rq_pc' = [rq_pc EXCEPT ![rq_cur] = q]
        /\ cnt' = [cnt EXCEPT !["runq"] = n[rq_cur] + 1]
        /\ last' = [last EXCEPT ![rq_cur] = tail["runq"]]
        /\ UNCHANGED <<tail, next, n>>
    BY <1>12 DEF AppendCount, At, Set, Goto
  <2>1. where = "app_cnt"
    BY <1>1, <2>0 DEF where
  <2>2. q \in Appending
    BY DEF Appending
  <2>3. /\ ForkInv' /\ where' = q /\ Waiting' = Waiting /\ Exited' = Exited /\ PcOK'
    <3> HIDE DEF q
    <3> QED BY <1>8, <2>0, <2>2, Zenon
  <2>4. /\ Linked(head["runq"], tail["runq"], cnt["runq"], next, ready)
        /\ n[rq_cur] = cnt["runq"] /\ next[new] = Null
    BY <1>3, <2>1 DEF RunqInv, Appending
  <2>5. cnt["runq"] \in Nat /\ (ready = << >> <=> tail["runq"] = Null)
    BY <1>2, <2>4, LinkedEmpty
  <2>6. /\ cnt' \in [Queues -> Nat] /\ cnt'["freeq"] = cnt["freeq"]
        /\ cnt'["runq"] - 1 = cnt["runq"]
    BY <1>2, <2>0, <2>4, <2>5 DEF FieldsOK, Queues
  <2>7. last' \in [Block -> Ptr] /\ last'[rq_cur] = tail["runq"]
    BY <1>2, <2>0 DEF FieldsOK, LocalsOK, Queues
  <2>8. RqTypeOK'
    <3>1. FieldsOK' /\ LocalsOK'
      BY <1>1, <1>2, <2>0, <2>6, <2>7 DEF FieldsOK, LocalsOK
    <3> QED BY <1>9, <2>3, <3>1
  <2>9. Linked(head'["runq"], tail'["runq"], cnt'["runq"] - 1, next', ready')
    BY <1>1, <2>0, <2>4, <2>6, SMTT(20)
  <2>10. RunqInv'
    <3>1. next'[new'] = Null /\ last'[rq_cur'] = tail'["runq"]
      BY <1>1, <1>5, <2>0, <2>4, <2>7
    <3> QED BY <1>1, <1>6, <2>0, <2>3, <2>5, <2>9, <3>1, SMTT(20) DEF RunqInv, Appending, Popping
  <2>11. FreeIs(s)'
    <3> HIDE DEF q
    <3> QED BY <1>1, <1>6, <1>10, <2>0, <2>2, <2>3, <2>6
  <2> QED BY <2>3, <2>8, <2>10, <2>11 DEF QueuesInv
<1>13. CASE AppendFirst
  <2>0. /\ rq_pc[rq_cur] = "app_first" /\ rq_pc' = [rq_pc EXCEPT ![rq_cur] = "app_head"]
        /\ tail' = [tail EXCEPT !["runq"] = new] /\ UNCHANGED <<cnt, next, n, last>>
    BY <1>13 DEF AppendFirst, At, Set, Goto, locals
  <2>1. where = "app_first"
    BY <1>1, <2>0 DEF where
  <2>2. /\ ForkInv' /\ where' = "app_head" /\ Waiting' = Waiting /\ Exited' = Exited /\ PcOK'
    BY <1>8, <2>0 DEF Appending
  <2>3. /\ Linked(head["runq"], tail["runq"], cnt["runq"] - 1, next, ready)
        /\ ready = << >> /\ next[new] = Null
    BY <1>3, <2>1 DEF RunqInv, Appending
  <2>4. cnt["runq"] - 1 = 0 /\ cnt["runq"] \in Nat
    <3>1. cnt["runq"] \in Nat
      BY <1>2 DEF FieldsOK, Queues
    <3>2. cnt["runq"] - 1 = 0
      BY <2>3 DEF Linked
    <3> QED BY <3>1, <3>2
  <2>5. cnt["runq"] = 1
    BY <2>4
  <2>6. /\ tail' \in [Queues -> Ptr] /\ tail'["freeq"] = tail["freeq"] /\ tail'["runq"] = new
    BY <1>2, <1>5, <2>0 DEF FieldsOK, Queues, Ptr
  <2>7. RqTypeOK'
    <3>1. FieldsOK' /\ LocalsOK'
      BY <1>1, <1>2, <2>0, <2>6 DEF FieldsOK, LocalsOK
    <3> QED BY <1>9, <2>2, <3>1
  <2>8. RunqInv'
    BY <1>1, <1>5, <1>6, <2>0, <2>2, <2>3, <2>5, <2>6 DEF RunqInv, Appending, Popping
  <2>9. FreeIs(s)'
    BY <1>1, <1>6, <1>10, <2>0, <2>2, <2>6 DEF Appending
  <2> QED BY <2>2, <2>7, <2>8, <2>9 DEF QueuesInv
<1>14. CASE AppendNext
  <2>0. /\ rq_pc[rq_cur] = "app_next" /\ rq_pc' = [rq_pc EXCEPT ![rq_cur] = "app_tail"]
        /\ next' = [next EXCEPT ![last[rq_cur]] = new] /\ UNCHANGED <<cnt, tail, n, last>>
    BY <1>14 DEF AppendNext, At, Set, Goto, locals
  <2>1. where = "app_next"
    BY <1>1, <2>0 DEF where
  <2>2. /\ ForkInv' /\ where' = "app_tail" /\ Waiting' = Waiting /\ Exited' = Exited /\ PcOK'
    BY <1>8, <2>0 DEF Appending
  <2>3. /\ Linked(head["runq"], tail["runq"], cnt["runq"] - 1, next, ready)
        /\ ready # << >> /\ last[rq_cur] = tail["runq"] /\ next[new] = Null
    BY <1>3, <2>1 DEF RunqInv, Appending
  <2>4. /\ tail["runq"] = ready[Len(ready)] /\ tail["runq"] \in Block
        /\ cnt["runq"] \in Nat /\ (cnt["runq"] - 1) + 1 = cnt["runq"]
    BY <1>2, <2>3, LinkedEmpty DEF FieldsOK, Queues
  <2>5. tail["runq"] \in Elems(ready)
    BY <1>2, <2>3, <2>4, SMTT(20) DEF Elems
  <2>6. next \in [Block -> Ptr] /\ next' = [next EXCEPT ![tail["runq"]] = new]
    BY <1>2, <2>0, <2>3 DEF FieldsOK
  <2>7. Linked(head["runq"], new, (cnt["runq"] - 1) + 1, [next EXCEPT ![tail["runq"]] = new],
               Append(ready, new))
    BY <1>2, <1>5, <1>6, <1>7, <2>3, <2>6, LinkedAppend, Zenon
  <2>8. Linked(head["runq"], new, cnt["runq"], next', Append(ready, new))
    BY <2>4, <2>6, <2>7, SMTT(20)
  <2>9. next' \in [Block -> Ptr] /\ \A x \in Block : x # tail["runq"] => next'[x] = next[x]
    BY <1>5, <2>4, <2>6 DEF Ptr
  <2>10. new # tail["runq"] /\ \A x \in Elems(s) : next'[x] = next[x]
    BY <1>6, <1>7, <2>5, <2>9 DEF Exited
  <2>11. Linked(head["freeq"], tail["freeq"], cnt["freeq"], next', s)
    BY <1>6, <2>10, LinkedFrame
  <2>12. RqTypeOK'
    <3>1. FieldsOK' /\ LocalsOK'
      BY <1>1, <1>2, <2>0, <2>9, SMTT(20) DEF FieldsOK, LocalsOK
    <3> QED BY <1>9, <2>2, <3>1
  <2>13. RunqInv'
    <3>1. next'[new'] = Null
      BY <1>5, <2>3, <2>9, <2>10
    <3> QED BY <1>1, <1>5, <1>6, <2>0, <2>2, <2>8, <3>1, SMTT(20) DEF RunqInv, Appending, Popping
  <2>14. FreeIs(s)'
    BY <1>1, <1>10, <2>0, <2>2, <2>11 DEF Appending
  <2> QED BY <2>2, <2>12, <2>13, <2>14 DEF QueuesInv
<1> QED BY <1>11, <1>12, <1>13, <1>14

\* The last step of Q_append: the new thread is on the run queue.
LEMMA ForkedKeeps ==
    ASSUME QueuesInv, AppendHead \/ AppendTail
    PROVE  QueuesInv'
<1>0. /\ rq_cur # Null /\ where \in {"app_head", "app_tail"}
      /\ rq_pc' = [rq_pc EXCEPT ![rq_cur] = "run", ![new] = "run"]
      /\ ready' = Append(ready, new)
      /\ UNCHANGED <<cnt, next, rq_cur, e, n, last, forks>>
  BY DEF AppendHead, AppendTail, Forked, At, locals, where
<1>2. /\ FieldsOK /\ LocalsOK /\ PcOK /\ forks \in 0 .. MaxForks /\ rq_cur \in Block
      /\ ready \in Seq(Block)
  BY <1>0, TypeParts DEF QueuesInv, Ptr
<1>3. ForkInv /\ RunqInv
  BY DEF QueuesInv
<1>4. PICK s \in Seq(Block) : FreeIs(s)
  BY DEF QueuesInv
<1>5. new \in Block /\ rq_pc[new] = "born" /\ new # rq_cur
  BY <1>0, <1>3, SMTT(20) DEF ForkInv, Appending, where
<1>6. /\ Distinct(ready) /\ Elems(ready) = Waiting /\ Distinct(s) /\ Elems(s) = Exited
      /\ Linked(head["freeq"], tail["freeq"], cnt["freeq"], next, s) /\ next[new] = Null
  BY <1>0, <1>3, <1>4, ZenonT(60) DEF RunqInv, FreeIs, Appending
<1>7. new \notin Elems(ready)
  BY <1>5, <1>6 DEF Waiting
<1>8. /\ ready' \in Seq(Block) /\ Distinct(ready') /\ Elems(ready') = Waiting \cup {new}
  BY <1>0, <1>2, <1>5, <1>6, <1>7, QueueThread
<1>9. /\ rq_pc'[rq_cur] = "run" /\ rq_pc'[new] = "run"
      /\ \A x \in Block : x # new /\ x # rq_cur => rq_pc'[x] = rq_pc[x]
      /\ PcOK'
  BY <1>0, <1>2, <1>5 DEF PcOK
<1>10. where' = "run" /\ \A x \in Block : rq_pc'[x] \in {"unused", "run", "free"}
  <2>1. where' = "run"
    BY <1>0, <1>9 DEF where
  <2>2. ASSUME NEW x \in Block, x # new, x # rq_cur PROVE rq_pc[x] \in {"unused", "run", "free"}
    BY <1>2, <1>3, <2>2 DEF ForkInv, PcOK
  <2> QED BY <1>9, <2>1, <2>2
<1>11. Waiting' = Waiting \cup {new} /\ Exited' = Exited
  <2>1. rq_pc[rq_cur] \notin {"run", "free"}
    BY <1>0 DEF where
  <2> QED BY <1>0, <1>5, <1>9, <2>1, Zenon DEF Waiting, Exited
<1>12. ASSUME FieldsOK' PROVE RqTypeOK'
  <2>1. LocalsOK' /\ rq_cur' \in Ptr /\ forks' \in 0 .. MaxForks
    BY <1>0, <1>2 DEF LocalsOK, Ptr
  <2> QED BY <1>8, <1>9, <1>12, <2>1, TypePartsAfter
<1>13. CASE AppendHead
  <2>0. /\ rq_pc[rq_cur] = "app_head" /\ head' = [head EXCEPT !["runq"] = new]
        /\ UNCHANGED tail
    BY <1>13 DEF AppendHead, At, Set
  <2>1. where = "app_head"
    BY <1>0, <2>0 DEF where
  <2>2. ready = << >> /\ tail["runq"] = new /\ cnt["runq"] = 1
    BY <1>3, <2>1 DEF RunqInv
  <2>3. /\ head' \in [Queues -> Ptr] /\ head'["runq"] = new /\ head'["freeq"] = head["freeq"]
    BY <1>2, <1>5, <2>0 DEF FieldsOK, Queues, Ptr
  <2>4. RqTypeOK'
    BY <1>0, <1>2, <1>12, <2>0, <2>3 DEF FieldsOK
  <2>5. ready' = <<new>>
    BY <1>0, <2>2
  <2>6. Linked(new, new, 1, next, <<new>>)
    BY <1>6 DEF Linked
  <2>7. Linked(head'["runq"], tail'["runq"], cnt'["runq"], next', ready')
    BY <1>0, <2>0, <2>2, <2>3, <2>5, <2>6
  <2>8. Linked(head'["freeq"], tail'["freeq"], cnt'["freeq"], next', s)
    BY <1>0, <1>6, <2>0, <2>3
  <2> QED BY <1>6, <1>8, <1>10, <1>11, <2>4, <2>7, <2>8, RestQueues
<1>14. CASE AppendTail
  <2>0. /\ rq_pc[rq_cur] = "app_tail" /\ tail' = [tail EXCEPT !["runq"] = new]
        /\ UNCHANGED head
    BY <1>14 DEF AppendTail, At, Set
  <2>1. where = "app_tail"
    BY <1>0, <2>0 DEF where
  <2>2. Linked(head["runq"], new, cnt["runq"], next, Append(ready, new))
    BY <1>3, <2>1 DEF RunqInv
  <2>3. /\ tail' \in [Queues -> Ptr] /\ tail'["runq"] = new /\ tail'["freeq"] = tail["freeq"]
    BY <1>2, <1>5, <2>0 DEF FieldsOK, Queues, Ptr
  <2>4. RqTypeOK'
    BY <1>0, <1>2, <1>12, <2>0, <2>3 DEF FieldsOK
  <2>7. Linked(head'["runq"], tail'["runq"], cnt'["runq"], next', ready')
    BY <1>0, <2>0, <2>2, <2>3
  <2>8. Linked(head'["freeq"], tail'["freeq"], cnt'["freeq"], next', s)
    BY <1>0, <1>6, <2>0, <2>3
  <2> QED BY <1>6, <1>8, <1>10, <1>11, <2>4, <2>7, <2>8, RestQueues
<1> QED BY <1>13, <1>14

\* pre_thread_start has queued the first thread; the free list is empty.
LEMMA QueuesStart ==
    ASSUME RqInit
    PROVE  QueuesInv
<1>1. RqTypeOK
  BY BlockAssumption DEF RqInit, RqTypeOK, Queues
<1>2. where = "run" /\ ForkInv
  BY DEF RqInit, where, ForkInv, Popping, Appending
<1>3. Waiting = {First} /\ Exited = {} /\ ready = <<First>>
  BY BlockAssumption, Zenon DEF RqInit, Waiting, Exited
<1>4. Elems(<<First>>) = {First} /\ Distinct(<<First>>)
  BY DEF Elems, Distinct
<1>5. Linked(head["runq"], tail["runq"], cnt["runq"], next, <<First>>)
  BY BlockAssumption DEF RqInit, Linked, Queues
<1>6. RunqInv
  BY <1>2, <1>3, <1>4, <1>5 DEF RunqInv, Popping, Appending
<1>7. << >> \in Seq(Block) /\ Elems(<< >>) = {} /\ Distinct(<< >>)
  BY DEF Elems, Distinct
<1>8. Linked(head["freeq"], tail["freeq"], cnt["freeq"], next, << >>)
  BY DEF RqInit, Linked, Queues
<1>9. FreeIs(<< >>)
  BY <1>2, <1>3, <1>7, <1>8 DEF FreeIs, Popping
<1> QED BY <1>1, <1>2, <1>6, <1>7, <1>9, Zenon DEF QueuesInv

\* When pre_fork is called with interrupts off, every step of the scheduler, the timer handler, pre_exit and pre_fork keeps the two
\* linked lists equal to the ready threads and to the exited ones, up to the
\* assignments of Q_pop and Q_append that are still to be done.
THEOREM QueuesLinked ==
    ASSUME ForkMasked
    PROVE  RqSpec => []QueuesInv
<1>1. RqInit => QueuesInv
  BY QueuesStart
<1>2. QueuesInv /\ [RqNext]_rqVars => QueuesInv'
  <2> SUFFICES ASSUME QueuesInv, [RqNext]_rqVars PROVE QueuesInv'
    OBVIOUS
  <2>1. CASE UNCHANGED rqVars
    <3>1. /\ UNCHANGED <<head, tail, cnt, next, rq_cur, rq_pc, e, n, last, forks, ready>>
          /\ new' = new /\ where' = where /\ Waiting' = Waiting /\ Exited' = Exited
      BY <2>1 DEF rqVars, queue, locals, new, where, Waiting, Exited
    <3>2. RqTypeOK' /\ ForkInv'
      BY <3>1 DEF QueuesInv, RqTypeOK, ForkInv
    <3>3. RunqInv'
      BY <3>1, ZenonT(60) DEF QueuesInv, RunqInv
    <3>4. \E s \in Seq(Block) : FreeIs(s)'
      BY <3>1, Zenon DEF QueuesInv, FreeIs
    <3> QED BY <3>2, <3>3, <3>4 DEF QueuesInv
  <2> QED BY <2>1, ForkMasked, DispatchKeeps, RqTimerKeeps, ExitKeeps, AllocFreshKeeps,
             PopStepsKeep, PopTailKeeps, AppendStepsKeep, ForkedKeeps DEF RqNext, pre_fork
<1> QED BY <1>1, <1>2, PTL DEF RqSpec

\* Between two calls of pre_fork the lists are complete.
LEMMA QuietQueues ==
    ASSUME QueuesInv
    PROVE  /\ Quiet => where = "run"
           /\ NoThreadLost /\ FreeListExact /\ EmptyAsserts
<1>1. Quiet => where = "run"
  <2> SUFFICES ASSUME Quiet, rq_cur # Null PROVE rq_pc[rq_cur] = "run"
    BY DEF where
  <2>1. rq_cur \in Block
    BY TypeParts DEF QueuesInv, Ptr
  <2> QED BY <2>1 DEF QueuesInv, ForkInv, where, Quiet, Popping, Appending
<1>2. NoThreadLost
  <2> SUFFICES ASSUME Quiet
               PROVE  /\ Represents("runq", ready) /\ Distinct(ready)
                      /\ Elems(ready) = Waiting
    BY DEF NoThreadLost, Elems, Waiting
  <2>1. Linked(head["runq"], tail["runq"], cnt["runq"], next, ready)
    BY <1>1, QueuesAtRest
  <2>2. Represents("runq", ready)
    BY <2>1 DEF Represents, Linked
  <2> QED BY <1>1, <2>2, QueuesAtRest
<1>3. FreeListExact
  <2> SUFFICES ASSUME Quiet
               PROVE  \E s \in [1 .. cnt["freeq"] -> Exited] :
                         Represents("freeq", s) /\ Distinct(s) /\ Elems(s) = Exited
    BY DEF FreeListExact, Elems, Exited
  <2>1. PICK s \in Seq(Block) :
           /\ Distinct(s) /\ Elems(s) = Exited
           /\ Linked(head["freeq"], tail["freeq"], cnt["freeq"], next, s)
    BY <1>1, QueuesAtRest
  <2>2. Represents("freeq", s)
    BY <2>1 DEF Represents, Linked
  <2>3. cnt["freeq"] = Len(s)
    BY <2>1 DEF Linked
  <2>4. s \in [1 .. Len(s) -> Exited]
    BY <2>1 DEF Elems
  <2> QED BY <2>1, <2>2, <2>3, <2>4
<1>4. EmptyAsserts
  <2> SUFFICES ASSUME rq_cur = Null, head["runq"] = Null
               PROVE  cnt["runq"] = 0 /\ tail["runq"] = Null
    BY DEF EmptyAsserts
  <2>1. where = "run"
    BY DEF where
  <2>2. Linked(head["runq"], tail["runq"], cnt["runq"], next, ready) /\ ready \in Seq(Block)
    BY <2>1, QueuesAtRest
  <2> QED BY <2>2, LinkedEmpty
<1> QED BY <1>1, <1>2, <1>3, <1>4

\* When pre_fork is called with interrupts off, no thread is lost and no block is
\* in use twice: between the calls of pre_fork the run queue is the list of the ready
\* threads, the free list holds exactly the blocks of the exited ones, and the
\* assertions of Q_empty hold whenever the scheduler looks at the queue.
THEOREM QueuesSound ==
    ASSUME ForkMasked
    PROVE  RqSpec => [](RqTypeOK /\ NoThreadLost /\ FreeListExact /\ EmptyAsserts)
<1>1. QueuesInv => RqTypeOK /\ NoThreadLost /\ FreeListExact /\ EmptyAsserts
  BY QuietQueues DEF QueuesInv
<1>2. RqSpec => []QueuesInv
  BY ForkMasked, QueuesLinked
<1> QED BY <1>1, <1>2, PTL
=============================================================================
