------------------------------- MODULE FsApis -------------------------------
(***************************************************************************)
(* Directories: the file system interface of the servers (fat32/fs-apis.c, *)
(* dfs/dfs-master-fat.c) over the directory operations of fat32/fat32.c.   *)
(* A mirror has a current directory and the chain of directories that led  *)
(* to it.  A directory is one cluster of entries; a file has no cluster or *)
(* one (module Fat32 has longer ones, and their contents).                 *)
(*                                                                         *)
(* The FAT is changed in memory and written to the card at the end of an   *)
(* operation, or before the new directory of a mkdir is cleared.  The      *)
(* power may fail between two writes to the card.                          *)
(***************************************************************************)
EXTENDS Fat32Names, FiniteSets

CONSTANTS
    Name,          \* names used by the calls
    Mirror,        \* mirrors registered; the servers register one
    MaxClus,    \* clusters 2 .. MaxClus exist, 2 is the root directory
    Slots,         \* entries in a cluster
    OpDir,         \* directories named by create, delete and write; the master names "."
    Odd,           \* calls nobody should make: "cd_file", "ls_file", "write_dir", "connect_again"
    MaxCalls,      \* bound on the calls
    MaxRemounts,     \* bound on the restarts
    RemountInWindow  \* restart after a failure between the entry of a written file and the FAT

ASSUME FsAssumption ==
    /\ MaxClus \in Nat /\ MaxClus >= 2 /\ Slots \in Nat \ {0}
    /\ MaxCalls \in Nat /\ MaxRemounts \in Nat /\ RemountInWindow \in BOOLEAN
    /\ Odd \subseteq {"cd_file", "ls_file", "write_dir", "connect_again"}

Clus == 2 .. MaxClus
Root == [clus |-> 2, is_dir_p |-> TRUE]       \* fat32_get_root
End == [name |-> << >>, tag |-> "end", is_dir_p |-> FALSE, clus |-> 0]
Deleted == [End EXCEPT !.tag = "deleted"]
Empty == [i \in 1 .. Slots |-> End]
Home == int_to_filename(1, TRUE)              \* the directory of the client

VARIABLES
    alloc, dalloc,     \* clusters in use, in memory and on the card
    dir,           \* the entries in each cluster on the card
    cwd, chain,    \* of each mirror
    fpc, call,     \* step of the call in progress, and what it is about
    connected,     \* the master has handled a connection since it started
    leaky,         \* history: a directory with entries was deleted, or a call interrupted
    calls, remounts

mirrors == <<cwd, chain>>
fsVars == <<alloc, dalloc, dir, mirrors, fpc, call, connected, leaky, calls, remounts>>

NoCall == [op |-> "none"]

FsInit ==
    /\ alloc = {2} /\ dalloc = {2}
    /\ dir = [c \in Clus |-> Empty]
    /\ cwd = [m \in Mirror |-> Root] /\ chain = [m \in Mirror |-> <<Root>>]
    /\ fpc = "idle" /\ call = NoCall
    /\ connected = FALSE /\ leaky = FALSE /\ calls = 0 /\ remounts = 0

-----------------------------------------------------------------------------
(* The directory in cluster c. *)

Used(c) == {i \in 1 .. Slots : dir[c][i].tag = "used"}

\* find_dirent_with_name: the entries that match; the code takes the first.
Found(c, n) == {i \in Used(c) : Matches(dir[c][i].name, n)}
First(S) == CHOOSE i \in S : \A j \in S : i <= j
Dirent(e) == [clus |-> e.clus, is_dir_p |-> e.is_dir_p]     \* dirent_convert

NULL == [clus |-> 0, is_dir_p |-> TRUE]        \* no entry is a directory without a cluster
fat32_stat(c, n) == IF Found(c, n) # {} THEN Dirent(dir[c][First(Found(c, n))]) ELSE NULL

\* The slot fat32_create takes: the first that is deleted or the end.
FreeSlots(c) == {i \in 1 .. Slots : dir[c][i].tag # "used"}

\* "a whole cluster cannot satisfy your needs???": the end is in the last slot.
Full(c) ==
    FreeSlots(c) # {} /\ First(FreeSlots(c)) = Slots /\ dir[c][Slots].tag = "end"

Subdirs(c) == {dir[c][i].clus : i \in {j \in Used(c) : dir[c][j].is_dir_p}}

\* The dirname without a trailing slash.
Strip(d) == IF d # << >> /\ d[Len(d)] = "/" THEN SubSeq(d, 1, Len(d) - 1) ELSE d
Tilde == <<"~">>
Dot == <<".">>
DotDot == <<".", ".">>
IsName(d) == d # << >> /\ Strip(d) \notin {Tilde, Dot, DotDot}

\* The directory that d stands for, and whether there is one; without one the
\* caller gets the current directory.
dirname_to_directory(m, d) ==
    LET s == Strip(d)
        up == Len(chain[m]) - 1
        Result(e, res) == [dir |-> e, res |-> res] IN
    CASE d = << >> \/ s = Dot -> Result(cwd[m], TRUE)
      [] s = Tilde -> Result(Root, TRUE)
      [] s = DotDot -> IF up > 0 THEN Result(chain[m][up], TRUE) ELSE Result(cwd[m], FALSE)
      [] OTHER -> LET e == fat32_stat(cwd[m].clus, s) IN IF e # NULL THEN Result(e, TRUE) ELSE Result(cwd[m], FALSE)

Begin == fpc = "idle" /\ calls < MaxCalls /\ calls' = calls + 1

\* A failed demand or assertion stops the Pi; why is kept for the properties.
Panic(why) ==
    /\ fpc' = "down" /\ call' = [op |-> why]
    /\ UNCHANGED <<alloc, dalloc, dir, mirrors, leaky, remounts>>

\* The bytes of a file are used as directory entries, or the other way round:
\* what happens then depends on them and is not followed.
Astray ==
    /\ fpc' = "astray"
    /\ UNCHANGED <<alloc, dalloc, dir, mirrors, call, leaky, remounts>>

-----------------------------------------------------------------------------
(* fs_changedir and fs_listdir *)

Enter(m, e) ==
    /\ chain' = [chain EXCEPT ![m] = Append(@, e)]
    /\ cwd' = [cwd EXCEPT ![m] = e]


\* What cd does to the mirror.
MoveTo(m, d) ==
    LET r == dirname_to_directory(m, d)
        s == Strip(d) IN
    IF ~r.res \/ s \in {<< >>, Dot} THEN UNCHANGED mirrors
    ELSE IF s = Tilde THEN chain' = [chain EXCEPT ![m] = <<Root>>] /\ cwd' = [cwd EXCEPT ![m] = Root]
    ELSE IF s = DotDot THEN /\ chain' = [chain EXCEPT ![m] = SubSeq(@, 1, Len(@) - 1)]
                            /\ cwd' = [cwd EXCEPT ![m] = r.dir]
    ELSE Enter(m, r.dir)

\* fat32_stat demands that the current directory is one; what it finds may be
\* a file, and the mirror moves there all the same.
fs_changedir(m, d) ==
    /\ Begin
    /\ ~dirname_to_directory(m, d).dir.is_dir_p => "cd_file" \in Odd
    /\ IF IsName(d) /\ ~cwd[m].is_dir_p THEN Panic("not_dir")
       ELSE /\ MoveTo(m, d)
            /\ UNCHANGED <<alloc, dalloc, dir, fpc, call, leaky, remounts>>
    /\ UNCHANGED connected

\* fs_listdir changes nothing; fat32_readdir demands a directory.  For a name
\* that is missing the current directory is listed.
fs_listdir(m, d) ==
    LET r == dirname_to_directory(m, d) IN
    /\ Begin
    /\ ~r.dir.is_dir_p => "ls_file" \in Odd \/ ~cwd[m].is_dir_p
    /\ IF ~r.dir.is_dir_p THEN Panic("not_dir")
       ELSE UNCHANGED <<alloc, dalloc, dir, mirrors, fpc, call, leaky, remounts>>
    /\ UNCHANGED connected

-----------------------------------------------------------------------------
(* fs_create with fat32_create *)

Entry(n, is_dir, c) == [name |-> dirent_set_name(n), tag |-> "used", is_dir_p |-> is_dir, clus |-> c]

\* The entry goes into slot i, and a new end behind it if i was the end.
Put(d, c, i, e) ==
    LET filled == [d[c] EXCEPT ![i] = e] IN
    [d EXCEPT ![c] = IF d[c][i].tag = "end" /\ i < Slots THEN [filled EXCEPT ![i + 1] = End] ELSE filled]

FreeClus == Clus \ (alloc \cup {2})

\* A name that is there already is left as it is, whatever its kind.  The
\* entry is one write and the new end another, which stores what is there
\* already: behind the end there are only ends.
fs_create(m, d, n, is_dir, cd) ==
    LET r == dirname_to_directory(m, d)
        c == r.dir.clus
        f == Found(c, n)
        slot == First(FreeSlots(c)) IN
    /\ r.res /\ is_valid_name(n)
    /\ IF ~r.dir.is_dir_p THEN Astray
       ELSE IF f # {}
       THEN /\ IF cd /\ is_dir THEN Enter(m, Dirent(dir[c][First(f)])) ELSE UNCHANGED mirrors
            /\ UNCHANGED <<alloc, dalloc, dir, fpc, call, leaky, remounts>>
       ELSE IF Full(c) THEN Panic("directory_full")
       ELSE IF ~is_dir
       THEN /\ dir' = Put(dir, c, slot, Entry(n, FALSE, 0))
            /\ UNCHANGED <<alloc, dalloc, mirrors, fpc, call, leaky, remounts>>
       ELSE IF FreeClus = {} THEN Panic("card_full")
       ELSE /\ alloc' = alloc \cup {First(FreeClus)} /\ dalloc' = alloc'
            /\ fpc' = "clear"
            /\ call' = [op |-> "mkdir", m |-> m, c |-> c, i |-> slot, e |-> Entry(n, TRUE, First(FreeClus)), cd |-> cd]
            /\ UNCHANGED <<dir, mirrors, leaky, remounts>>

\* Mutant: a new directory starts with what its cluster held.
NoClear ==
    /\ fpc = "clear"
    /\ fpc' = "entry"
    /\ UNCHANGED <<alloc, dalloc, dir, mirrors, call, connected, leaky, calls, remounts>>

ClearDir ==
    /\ fpc = "clear"
    /\ dir' = [dir EXCEPT ![call.e.clus] = Empty]
    /\ fpc' = "entry"
    /\ UNCHANGED <<alloc, dalloc, mirrors, call, connected, leaky, calls, remounts>>

WriteEntry ==
    /\ fpc = "entry"
    /\ dir' = Put(dir, call.c, call.i, call.e)
    /\ IF call.cd THEN Enter(call.m, Dirent(call.e)) ELSE UNCHANGED mirrors
    /\ fpc' = "idle" /\ call' = NoCall
    /\ UNCHANGED <<alloc, dalloc, connected, leaky, calls, remounts>>

\* master_fat32_create: the handler of DFS_CR makes a directory of every name
\* without a dot.
CreateName(m, d, n) == Begin /\ fs_create(m, d, n, ~HasDot(n), FALSE) /\ UNCHANGED connected

\* master_fat32_client_init, on a connection.
client_init(m) ==
    /\ ~connected \/ "connect_again" \in Odd
    /\ Begin
    /\ connected' = TRUE
    /\ fs_create(m, Tilde, Home, TRUE, TRUE)

-----------------------------------------------------------------------------
(* fs_delete with fat32_delete, fs_write with fat32_write *)

\* The entry is marked on the card and the clusters are freed in memory.  The
\* entries of a directory are not looked at: what they own stays allocated.
fs_delete(m, d, n) ==
    LET r == dirname_to_directory(m, d)
        c == r.dir.clus
        i == First(Found(c, n))
        e == dir[c][i] IN
    /\ Begin
    /\ r.res /\ is_valid_name(n)
    /\ IF ~r.dir.is_dir_p THEN Astray
       ELSE /\ Found(c, n) # {}
            /\ alloc' = alloc \ {e.clus}
            /\ dir' = [dir EXCEPT ![c][i] = Deleted]
            /\ leaky' = (leaky \/ (e.is_dir_p /\ Used(e.clus) # {}))
            /\ fpc' = "sync"
            /\ UNCHANGED <<dalloc, mirrors, call, remounts>>
    /\ UNCHANGED connected

\* What a cluster of data looks like to code that takes it for entries.
Data == [i \in 1 .. Slots |-> [End EXCEPT !.tag = "used"]]

\* At most one cluster of data: the first one is allocated, its content and
\* the entry are written, and then the FAT.
fs_write(m, d, n) ==
    LET r == dirname_to_directory(m, d)
        c == r.dir.clus
        i == First(Found(c, n))
        new == First(FreeClus) IN
    /\ Begin
    /\ r.res
    /\ IF ~r.dir.is_dir_p THEN Panic("not_dir")
       ELSE /\ Found(c, n) # {} /\ (dir[c][i].is_dir_p => "write_dir" \in Odd)
            /\ IF dir[c][i].is_dir_p THEN Astray
               ELSE IF dir[c][i].clus # 0 THEN fpc' = "sync" /\ UNCHANGED <<alloc, dalloc, dir, mirrors, call, leaky, remounts>>
               ELSE IF FreeClus = {} THEN Panic("card_full")
               ELSE /\ alloc' = alloc \cup {new}
                    /\ dir' = [dir EXCEPT ![new] = Data, ![c][i].clus = new]
                    /\ fpc' = "grown"
                    /\ UNCHANGED <<dalloc, mirrors, call, leaky, remounts>>
    /\ UNCHANGED connected

write_fat_to_disk ==
    /\ fpc \in {"sync", "grown"}
    /\ dalloc' = alloc
    /\ fpc' = "idle"
    /\ UNCHANGED <<alloc, dir, mirrors, call, connected, leaky, calls, remounts>>

\* Power failure.  A call that is cut short after its first write may leave a
\* cluster that nobody owns.
PowerFail ==
    /\ fpc \notin {"down", "window", "astray"} /\ remounts < MaxRemounts
    /\ fpc' = IF fpc = "grown" THEN "window" ELSE "down"
    /\ call' = [op |-> "power"]
    /\ leaky' = (leaky \/ fpc \in {"clear", "entry", "sync"})
    /\ UNCHANGED <<alloc, dalloc, dir, mirrors, connected, calls, remounts>>

\* fs_init and register_mirror.
Remount ==
    /\ fpc = "down" \/ (fpc = "window" /\ RemountInWindow)
    /\ remounts < MaxRemounts /\ remounts' = remounts + 1
    /\ alloc' = dalloc
    /\ cwd' = [m \in Mirror |-> Root] /\ chain' = [m \in Mirror |-> <<Root>>]
    /\ fpc' = "idle" /\ call' = NoCall /\ connected' = FALSE
    /\ UNCHANGED <<dalloc, dir, leaky, calls>>

DirArg == Name \cup {Tilde, Dot, DotDot, << >>, Home} \cup {n \o <<"/">> : n \in Name}

FsNext ==
    \/ \E m \in Mirror :
        \/ client_init(m)
        \/ connected /\ \E d \in DirArg : fs_changedir(m, d) \/ fs_listdir(m, d)
        \/ connected /\ \E d \in OpDir, n \in Name \cup {Home} :
            CreateName(m, d, n) \/ fs_delete(m, d, n) \/ fs_write(m, d, n)
    \/ ClearDir \/ WriteEntry \/ write_fat_to_disk \/ PowerFail \/ Remount

FsSpec == FsInit /\ [][FsNext]_fsVars

-----------------------------------------------------------------------------

\* The directories that can be reached from the root.
Reach ==
    LET R[k \in 1 .. MaxClus] == IF k = 1 THEN {2} ELSE R[k - 1] \cup UNION {Subdirs(c) : c \in R[k - 1]} IN
    R[MaxClus]

\* The entries that own a cluster, with their place.
Owners == {e \in Reach \X (1 .. Slots) : e[2] \in Used(e[1]) /\ dir[e[1]][e[2]].clus # 0}
ClusOf(e) == dir[e[1]][e[2]].clus

FsTypeOK ==
    /\ alloc \subseteq Clus /\ dalloc \subseteq Clus
    /\ DOMAIN dir = Clus
    /\ \A c \in Clus, i \in 1 .. Slots : dir[c][i].tag \in {"end", "deleted", "used"}
    /\ fpc \in {"idle", "clear", "entry", "sync", "grown", "down", "window", "astray"}
    /\ calls \in 0 .. MaxCalls /\ remounts \in 0 .. MaxRemounts

\* The tree on the card is sound at every moment, so that a power failure at
\* any step leaves one: each entry's cluster is allocated in the FAT on the
\* card and belongs to no other entry.  Only between the entry of a file and
\* the FAT, when a first cluster is written, it is not.
TreeSound ==
    fpc \notin {"grown", "window"} =>
        \A e \in Owners : ClusOf(e) \in dalloc \ {2} /\ \A o \in Owners : ClusOf(o) = ClusOf(e) => o = e

\* Between calls, memory and card agree and every allocated cluster belongs to
\* an entry, unless a directory was deleted with its entries or a call was cut
\* short.
NoDirLeak ==
    fpc = "idle" => /\ alloc = dalloc
                    /\ ~leaky => alloc = {2} \cup {ClusOf(e) : e \in Owners}

\* Every directory ends: its last slot is never given away, and nothing but
\* ends follows the first end, which is what fat32_create takes for granted
\* when it moves the end.  Needs the cluster of a new directory to be cleared
\* before its entry is written.
EndMarker ==
    \A c \in Reach : /\ dir[c][Slots].tag = "end"
                     /\ \A i \in 1 .. Slots - 1 : dir[c][i].tag = "end" => dir[c][i + 1].tag = "end"

\* No directory has two entries of one name.
UniqueNames ==
    \A c \in Reach : \A i, j \in Used(c) : dir[c][i].name = dir[c][j].name => i = j

\* A power failure at any step leaves a tree: sound clusters, directories that
\* end, and no name twice.
TreeKept == TreeSound /\ EndMarker /\ UniqueNames

\* The chain of a mirror is a path from the root to its current directory on
\* the card, so that cd .. leads to the parent.  For one mirror that connects
\* once and deletes in its own directory, as the master's is meant to be used.
ChainIsPath ==
    fpc \in {"idle", "clear", "entry", "sync", "grown"} =>
        \A m \in Mirror :
            /\ chain[m][1] = Root /\ cwd[m] = chain[m][Len(chain[m])]
            /\ \A k \in 2 .. Len(chain[m]) :
                \E i \in Used(chain[m][k - 1].clus) : Dirent(dir[chain[m][k - 1].clus][i]) = chain[m][k]

\* A call stops the Pi only when a directory or the card is full: the current
\* directory is always one, and no demand on it fails.
StaysUp == fpc = "down" => call.op \in {"directory_full", "card_full", "power"}


=============================================================================
