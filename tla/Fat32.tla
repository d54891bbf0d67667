-------------------------------- MODULE Fat32 --------------------------------
(***************************************************************************)
(* The writing half of the FAT32 driver (fat32/fat32.c) on the files of    *)
(* one directory: fat32_create, fat32_delete, fat32_rename,                *)
(* fat32_truncate and fat32_write with write_cluster_chain.  The FAT is changed in memory and written to the   *)
(* card last; directory entries and data go to the card at once.  Every    *)
(* write to the card is a step of its own, and the power may fail between  *)
(* two steps.  Sizes count clusters, and a cluster's content names the     *)
(* file, the position in it and the write that put it there.               *)
(***************************************************************************)
EXTENDS Integers, FiniteSets

CONSTANTS
    File,           \* names in the directory
    NumClusters,    \* data clusters on the card
    MaxGrow,        \* clusters a write may add to a file
    Shrink,         \* writes shorter than the file: "none", "empty" (to size 0) or "any"
    RenameSelf,     \* a file may be renamed to its own name
    Lengthen,       \* fat32_truncate may be asked for more than the file has
    MaxOps,         \* bound on the operations
    Crashes,        \* the power may fail
    MaxMounts,      \* bound on the restarts after that
    MountInWindow   \* restart also after a failure between directory entry and FAT

ASSUME FatAssumption ==
    /\ NumClusters \in Nat \ {0} /\ MaxGrow \in Nat /\ MaxOps \in Nat /\ MaxMounts \in Nat
    /\ Shrink \in {"none", "empty", "any"} /\ {Crashes, MountInWindow, RenameSelf, Lengthen} \subseteq BOOLEAN

Cluster == 1 .. NumClusters
Free == 0
Last == -1
FatTable == [0 .. NumClusters -> {Last} \cup 0 .. NumClusters]
NoEntry == [start |-> 0, n |-> -1]
NoData == <<>>

VARIABLES
    fat, dfat,       \* the FAT in memory and on the card; entry 0 is reserved
    dirent,          \* the directory on the card: start cluster and size
    data,            \* the data clusters on the card
    pc, cur, dst,    \* operation in progress, its file and the new name
    len, ndata,      \* clusters to be allocated and size in the entry
    cluster, start, count, idx,   \* the variables of write_cluster_chain
    want,            \* history: size and number of the last write of each file
    ops, mounts

op == <<pc, cur, dst, len, ndata, cluster, start, count, idx>>
vars == <<fat, dfat, dirent, data, op, want, ops, mounts>>

Init ==
    /\ fat = [c \in 0 .. NumClusters |-> IF c = 0 THEN Last ELSE Free]
    /\ dfat = fat
    /\ dirent = [f \in File |-> NoEntry]
    /\ data = [c \in Cluster |-> NoData]
    /\ pc = "idle" /\ cur \in {CHOOSE f \in File : TRUE} /\ dst = cur /\ len = 0 /\ ndata = 0
    /\ cluster = 0 /\ start = 0 /\ count = 0 /\ idx = 0
    /\ want = [f \in File |-> [n |-> -1, v |-> 0]]
    /\ ops = 0 /\ mounts = 0

\* The i-th cluster of the chain that starts at s, counting from 0.
Chain(ft, s) ==
    LET p[i \in 0 .. NumClusters + 1] ==
            IF i = 0 THEN s ELSE IF p[i - 1] = Last THEN Last ELSE ft[p[i - 1]]
    IN p

-----------------------------------------------------------------------------
(* fat32_create and fat32_delete *)

\* The entry of an existing file is left as it is.
Create(f) ==
    /\ pc = "idle" /\ ops < MaxOps /\ dirent[f] = NoEntry
    /\ ops' = ops + 1
    /\ dirent' = [dirent EXCEPT ![f] = [start |-> 0, n |-> 0]]
    /\ want' = [want EXCEPT ![f] = [n |-> 0, v |-> ops']]
    /\ UNCHANGED <<fat, dfat, data, op, mounts>>

\* The clusters a chain from s passes through.
Members(ft, s) == IF s = 0 THEN {} ELSE {Chain(ft, s)[i] : i \in 0 .. NumClusters} \ {Last}

\* Mutant: fat32_delete frees the first cluster only.
FreeFirst(ft, s) == IF s = 0 THEN ft ELSE [ft EXCEPT ![s] = Free]

\* The loop of fat32_delete.
FreeChain(ft, s) == [c \in DOMAIN ft |-> IF c \in Members(ft, s) THEN Free ELSE ft[c]]

\* The chain is freed in memory, then the entry is written; the FAT follows.
Delete(f) ==
    /\ pc = "idle" /\ ops < MaxOps /\ dirent[f] # NoEntry
    /\ ops' = ops + 1
    /\ fat' = FreeChain(fat, dirent[f].start)
    /\ dirent' = [dirent EXCEPT ![f] = NoEntry]
    /\ want' = [want EXCEPT ![f] = [n |-> -1, v |-> 0]]
    /\ pc' = "deleted" /\ cur' = f
    /\ UNCHANGED <<dfat, data, dst, len, ndata, cluster, start, count, idx, mounts>>

DeleteFat ==
    /\ pc = "deleted"
    /\ dfat' = fat
    /\ pc' = "idle"
    /\ UNCHANGED <<fat, dirent, data, cur, dst, len, ndata, cluster, start, count, idx, want, ops, mounts>>

-----------------------------------------------------------------------------
(* fat32_write *)

Block == [f |-> cur, i |-> idx + 1, v |-> ops]

Write(f, n) ==
    /\ pc = "idle" /\ ops < MaxOps /\ dirent[f] # NoEntry
    /\ n <= dirent[f].n + MaxGrow /\ (n >= dirent[f].n \/ Shrink = "any" \/ (Shrink = "empty" /\ n = 0))
    /\ ops' = ops + 1
    /\ pc' = "walk" /\ cur' = f /\ len' = n /\ ndata' = n
    /\ cluster' = dirent[f].start /\ start' = dirent[f].start /\ count' = 0 /\ idx' = 0
    /\ UNCHANGED <<fat, dfat, dirent, data, dst, want, mounts>>

\* The first loop of write_cluster_chain, at the end of the chain: ...
WalkEnd ==
    /\ pc = "walk" /\ cluster = 0
    /\ pc' = IF len > 0 THEN "grow" ELSE "dirent"
    /\ UNCHANGED <<fat, dfat, dirent, data, cur, dst, len, ndata, cluster, start, count, idx, want, ops, mounts>>

\* ... at a cluster beyond the new size, which is freed; at the last of them
\* the start cluster is reset, whatever was kept before, ...
WalkFree ==
    /\ pc = "walk" /\ cluster # 0 /\ len <= count
    /\ fat' = [fat EXCEPT ![cluster] = Free]
    /\ count' = count + 1
    /\ IF fat[cluster] = Last
       THEN start' = 0 /\ pc' = "dirent" /\ cluster' = cluster
       ELSE cluster' = fat[cluster] /\ UNCHANGED <<start, pc>>
    /\ UNCHANGED <<dfat, dirent, data, cur, dst, len, ndata, idx, want, ops, mounts>>

\* ... and at a cluster to be written.
WalkWrite ==
    /\ pc = "walk" /\ cluster # 0 /\ len > count
    /\ count' = count + 1 /\ idx' = idx + 1
    /\ data' = [data EXCEPT ![cluster] = Block]
    /\ IF fat[cluster] = Last
       THEN /\ pc' = IF len > count' THEN "grow" ELSE "dirent"
            /\ UNCHANGED <<fat, cluster>>
       ELSE /\ fat' = IF len = count' THEN [fat EXCEPT ![cluster] = Last] ELSE fat
            /\ cluster' = fat[cluster]
            /\ pc' = pc
    /\ UNCHANGED <<dfat, dirent, cur, dst, len, ndata, start, want, ops, mounts>>

FreeClusters == {c \in Cluster : fat[c] = Free}

\* Mutant: find_free_cluster returns the first cluster, free or not.
AnyCluster == CHOOSE c \in Cluster : \A d \in Cluster : c <= d

\* find_free_cluster
FirstFree == CHOOSE c \in FreeClusters : \A d \in FreeClusters : c <= d

\* The second loop: one more cluster.  It is marked used only when it is the
\* last one, or once the next one is linked to it.
Grow ==
    /\ pc = "grow" /\ FreeClusters # {}
    /\ LET linked == IF start = 0 THEN fat ELSE [fat EXCEPT ![cluster] = FirstFree] IN
       fat' = IF len <= idx + 1 THEN [linked EXCEPT ![FirstFree] = Last] ELSE linked
    /\ start' = IF start = 0 THEN FirstFree ELSE start
    /\ cluster' = FirstFree /\ idx' = idx + 1
    /\ data' = [data EXCEPT ![FirstFree] = Block]
    /\ pc' = IF len <= idx' THEN "dirent" ELSE "grow"
    /\ UNCHANGED <<dfat, dirent, cur, dst, len, ndata, count, want, ops, mounts>>

\* "No more clusters on the disk!"
DiskFull ==
    /\ pc = "grow" /\ FreeClusters = {}
    /\ pc' = "down"
    /\ UNCHANGED <<fat, dfat, dirent, data, cur, dst, len, ndata, cluster, start, count, idx, want, ops, mounts>>

WriteDirent ==
    /\ pc = "dirent"
    /\ dirent' = [dirent EXCEPT ![cur] = [start |-> start, n |-> ndata]]
    /\ pc' = "fat"
    /\ UNCHANGED <<fat, dfat, data, cur, dst, len, ndata, cluster, start, count, idx, want, ops, mounts>>

\* Mutant: fat32_write leaves the FAT in memory.
KeepFat ==
    /\ pc = "fat"
    /\ pc' = "verify"
    /\ UNCHANGED <<fat, dfat, dirent, data, cur, dst, len, ndata, cluster, start, count, idx, want, ops, mounts>>

WriteFat ==
    /\ pc = "fat"
    /\ dfat' = fat
    /\ pc' = "verify"
    /\ UNCHANGED <<fat, dirent, data, cur, dst, len, ndata, cluster, start, count, idx, want, ops, mounts>>

\* The demands of verify_write on the FAT.
FatCorrect ==
    LET p == Chain(fat, start) IN
    IF len = 0 THEN start = 0
    ELSE \A i \in 0 .. len - 1 : p[i + 1] # Free /\ (p[i + 1] = Last <=> i = len - 1)

Verify ==
    /\ pc = "verify"
    /\ IF FatCorrect
       THEN pc' = "idle" /\ want' = [want EXCEPT ![cur] = [n |-> len, v |-> ops]]
       ELSE pc' = "down" /\ UNCHANGED want
    /\ UNCHANGED <<fat, dfat, dirent, data, cur, dst, len, ndata, cluster, start, count, idx, ops, mounts>>

-----------------------------------------------------------------------------
(* fat32_rename and fat32_truncate *)

\* An existing file of the new name is deleted first.
Rename(f, g) ==
    /\ pc = "idle" /\ ops < MaxOps /\ dirent[f] # NoEntry /\ (f = g => RenameSelf)
    /\ ops' = ops + 1
    /\ cur' = f /\ dst' = g /\ start' = dirent[f].start /\ ndata' = dirent[f].n
    /\ IF dirent[g] = NoEntry
       THEN pc' = "rename" /\ UNCHANGED <<fat, dirent, want>>
       ELSE /\ fat' = FreeChain(fat, dirent[g].start)
            /\ dirent' = [dirent EXCEPT ![g] = NoEntry]
            /\ want' = IF f = g THEN want ELSE [want EXCEPT ![g] = [n |-> -1, v |-> 0]]
            /\ pc' = "replaced"
    /\ UNCHANGED <<dfat, data, len, cluster, count, idx, mounts>>

ReplacedFat ==
    /\ pc = "replaced"
    /\ dfat' = fat
    /\ pc' = "rename"
    /\ UNCHANGED <<fat, dirent, data, cur, dst, len, ndata, cluster, start, count, idx, want, ops, mounts>>

\* The entry read at the beginning is written with the new name.  The labels
\* of the file's clusters follow the name.
RenameDirent ==
    /\ pc = "rename"
    /\ dirent' = [[dirent EXCEPT ![cur] = NoEntry] EXCEPT ![dst] = [start |-> start, n |-> ndata]]
    /\ want' = [[want EXCEPT ![cur] = [n |-> -1, v |-> 0]] EXCEPT ![dst] = want[cur]]
    /\ data' = [c \in Cluster |-> IF c \in Members(fat, start) THEN [data[c] EXCEPT !.f = dst] ELSE data[c]]
    /\ pc' = "idle" /\ cur' = dst
    /\ UNCHANGED <<fat, dfat, dst, len, ndata, cluster, start, count, idx, ops, mounts>>

\* The file is read, deleted, created again and written with the new length;
\* when that is longer, the size in the entry stays what it was.
Truncate(f, n) ==
    /\ pc = "idle" /\ ops < MaxOps /\ dirent[f] # NoEntry
    /\ n <= MaxGrow /\ (n <= dirent[f].n \/ Lengthen)
    /\ ops' = ops + 1
    /\ fat' = FreeChain(fat, dirent[f].start)
    /\ dirent' = [dirent EXCEPT ![f] = NoEntry]
    /\ want' = [want EXCEPT ![f] = [n |-> -1, v |-> 0]]
    /\ pc' = "cut" /\ cur' = f
    /\ len' = n /\ ndata' = IF n < dirent[f].n THEN n ELSE dirent[f].n
    /\ UNCHANGED <<dfat, data, dst, cluster, start, count, idx, mounts>>

CutFat ==
    /\ pc = "cut"
    /\ dfat' = fat
    /\ pc' = "recreate"
    /\ UNCHANGED <<fat, dirent, data, cur, dst, len, ndata, cluster, start, count, idx, want, ops, mounts>>

Recreate ==
    /\ pc = "recreate"
    /\ dirent' = [dirent EXCEPT ![cur] = [start |-> 0, n |-> 0]]
    /\ want' = [want EXCEPT ![cur] = [n |-> 0, v |-> ops]]
    /\ pc' = "walk" /\ cluster' = 0 /\ start' = 0 /\ count' = 0 /\ idx' = 0
    /\ UNCHANGED <<fat, dfat, data, cur, dst, len, ndata, ops, mounts>>

-----------------------------------------------------------------------------
(* Power failure and restart *)

\* The FAT in memory is lost.  What the interrupted write put into clusters
\* of the file stays; only a write that was verified or about to be counts.
Crash ==
    /\ Crashes /\ pc \notin {"down", "window"}
    /\ want' = CASE pc = "verify" -> [want EXCEPT ![cur] = [n |-> len, v |-> ops]]
                 [] pc \in {"walk", "grow", "dirent", "fat"} -> [want EXCEPT ![cur].v = -1]
                 [] OTHER -> want
    /\ pc' = IF pc \in {"fat", "deleted", "replaced", "cut"} THEN "window" ELSE "down"
    /\ UNCHANGED <<fat, dfat, dirent, data, cur, dst, len, ndata, cluster, start, count, idx, ops, mounts>>

\* fat32_mk reads the FAT from the card.  A full disk leaves a torn file too.
Mount ==
    /\ pc = "down" \/ (pc = "window" /\ MountInWindow)
    /\ mounts < MaxMounts
    /\ mounts' = mounts + 1
    /\ fat' = dfat
    /\ pc' = "idle"
    /\ want' = IF want[cur].n = -1 THEN want ELSE [want EXCEPT ![cur].v = -1]
    /\ UNCHANGED <<dfat, dirent, data, cur, dst, len, ndata, cluster, start, count, idx, ops>>

Next ==
    \/ \E f \in File : Create(f) \/ Delete(f) \/ \E n \in 0 .. NumClusters + 1 : Write(f, n)
    \/ \E f, g \in File : Rename(f, g)
    \/ \E f \in File, n \in 0 .. NumClusters : Truncate(f, n)
    \/ DeleteFat \/ ReplacedFat \/ RenameDirent \/ CutFat \/ Recreate
    \/ WalkEnd \/ WalkFree \/ WalkWrite \/ Grow \/ DiskFull
    \/ WriteDirent \/ WriteFat \/ Verify
    \/ Crash \/ Mount

Spec == Init /\ [][Next]_vars

-----------------------------------------------------------------------------
(* Properties *)

\* The types of the card, the FAT in memory and the operation in progress.
TypeOK ==
    /\ fat \in FatTable /\ dfat \in FatTable
    /\ \A f \in File : dirent[f].start \in 0 .. NumClusters /\ dirent[f].n \in -1 .. NumClusters + 1
    /\ pc \in {"idle", "deleted", "walk", "grow", "dirent", "fat", "verify", "replaced", "rename", "cut",
              "recreate", "down", "window"}
    /\ {cur, dst} \subseteq File /\ start \in 0 .. NumClusters /\ cluster \in 0 .. NumClusters

\* What fat32_read finds for f through the table ft is its last write.
ReadsBack(f, ft) ==
    LET p == Chain(ft, dirent[f].start)
        n == want[f].n IN
    /\ dirent[f].n = n
    /\ IF n <= 0 THEN dirent[f].start = 0
       ELSE /\ p[n] = Last
            /\ \A i \in 0 .. n - 1 :
                /\ p[i] \in Cluster
                /\ data[p[i]].f = f /\ data[p[i]].i = i + 1
                /\ want[f].v # -1 => data[p[i]].v = want[f].v

WriteVerified == pc = "verify" => FatCorrect

\* Between two operations every file reads back as it was last written, in
\* chains of exactly its size that share no cluster: whatever was created,
\* deleted, grown or interrupted before; and what verify_write demands of the
\* table ("FAT incorrect") holds after every write.
ReadBack ==
    /\ pc = "idle" => \A f \in File : ReadsBack(f, fat)
    /\ WriteVerified

\* Between two operations the card has the FAT of the memory, and every
\* cluster it does not call free belongs to a file.
NoLeak ==
    pc = "idle" =>
        /\ dfat = fat
        /\ \A c \in Cluster : fat[c] # Free => \E f \in File : c \in Members(fat, dirent[f].start)

\* A power failure or a full card in the middle of an operation does not touch
\* the files that it is not about: they read back from the card.
OthersIntact == pc \in {"down", "window"} => \A f \in File \ {cur} : ReadsBack(f, dfat)

\* Two files never share a cluster.
NoCrossLink ==
    pc = "idle" => \A f, g \in File :
        f # g => Members(fat, dirent[f].start) \cap Members(fat, dirent[g].start) \cap Cluster = {}
=============================================================================
