------------------------------- MODULE MCCard -------------------------------
(***************************************************************************)
(* The SD card in four parts, of which a behaviour takes one: the driver   *)
(* of the card (Emmc), the files of one directory with their clusters      *)
(* (Fat32), the tree of directories (FsApis), and the functions on names   *)
(* and on the layout of the card, each applied once to every argument of   *)
(* a sample.                                                               *)
(***************************************************************************)
EXTENDS Fat32, FsApis, Fat32LongNames, Fat32Volume, Emmc

VARIABLES part, arg, answer

cardVars == <<vars, fsVars, emmc_vars, part, arg, answer>>

-----------------------------------------------------------------------------
(* Samples *)

MCName == {<<"D">>, <<"E">>, <<"F", ".", "T", "X", "T">>}
MCOpDir == {<<".">>}

Rep(c, n) == [i \in 1 .. n |-> c]
Bases == {Rep("A", n) : n \in {1, 2, 7, 8}} \cup {Append(Rep("A", n), "B") : n \in {1, 6, 7}}
Exts == {<< >>, <<".", "A", "A", "A">>, <<".", "A", "A", "B">>}
NameSample ==
    {b \o e : b \in Bases, e \in Exts}
      \cup { << >>, Rep("A", 9), <<"A", ".", "A", "A">>, <<".", "A", "A", "A">>, <<"a">>,
             <<"A", ".", "A", ".", "A", "A", "A">> }
IdSample == (0 .. 12) \cup {99, 100, 101, 110, 1000, 99999999, 100000000}

GoodBoot ==
    [bytes_per_sec |-> 512, nfats |-> 2, sig |-> "AA55", sec_per_cluster |-> 1, reserved_area_nsec |-> 3,
     max_files |-> 0, fs_nsec |-> 0, zero |-> 0, nsec_in_fs |-> 500, nsec_per_fat |-> 1, first_cluster |-> 2,
     info_sec_num |-> 1, backup_boot_loc |-> 6, extended_sig |-> "29"]
Boots ==
    {[GoodBoot EXCEPT !.sec_per_cluster = s, !.nsec_per_fat = n] : s \in {1, 2, 3, 4}, n \in {0, 1}}
      \cup {[GoodBoot EXCEPT !.bytes_per_sec = 1024], [GoodBoot EXCEPT !.nfats = 1], [GoodBoot EXCEPT !.sig = "0"]}
GoodPart == [part_type |-> 12, lba_start |-> 8, nsec |-> 500]
Cards ==
    {[sigval |-> g, part |-> <<p, q, EmptyPart, EmptyPart>>, boot |-> b, info |-> i] :
        g \in {"AA55", "0"}, p \in {GoodPart, [GoodPart EXCEPT !.part_type = 131], EmptyPart},
        q \in {EmptyPart, GoodPart}, b \in Boots,
        i \in {<<"41615252", "61417272", "aa550000">>, <<"0", "0", "0">>}}

Points == {1, 65, 127, 128, 233, 2047, 2048, 8364, 65533, 65536, 119070, 1114111}
LongNames == {[i \in 1 .. n |-> IF i = k THEN 8364 ELSE 64 + i] : n \in {1, 4, 5, 6, 11, 12, 13, 14, 26, 27}, k \in {0, 5}}
Short(lower) == [attr |-> "FAT32_ARCHIVE", reserved0 |-> lower, filename |-> [i \in 1 .. 11 |-> IF i \in 3 .. 8 THEN 32 ELSE 64 + i]]

Arguments ==
    {[fn |-> "lookup", stored |-> s, asked |-> a] : s \in {n \in NameSample : is_valid_name(n)}, a \in NameSample}
      \cup {[fn |-> "chunk", stored |-> i, asked |-> j] : i \in IdSample, j \in IdSample}
      \cup {[fn |-> "mount", card |-> c] : c \in Cards}
      \cup {[fn |-> "first", c |-> c] : c \in {0, 2, 3, Half - 1, Half, Half + 1, Word - 1}}
      \cup {[fn |-> "link", c |-> c] : c \in {2, 3, 128, Top - 17}}
      \cup {[fn |-> "end"], [fn |-> "free"]}
      \cup {[fn |-> "utf8", cp |-> cp] : cp \in Points}
      \cup {[fn |-> "lfn", name |-> n, d |-> Short(l)] : n \in LongNames, l \in {0, 24}}
      \cup {[fn |-> "clock", base |-> b] : b \in 1 .. 60 \cup {80, 320, 325, 1280, 5120}}
      \cup {[fn |-> "short", d |-> Short(l)] : l \in {0, 24}}

\* The functions of the driver on one argument.
Answer(a) ==
    CASE a.fn = "lookup" -> LET raw == dirent_set_name(a.stored) IN <<Matches(raw, a.asked), ReadMatches(raw, a.asked)>>
      [] a.fn = "chunk" ->
            LET n == int_to_filename(a.stored, FALSE)
                o == int_to_filename(a.asked, FALSE) IN
            IF is_valid_name(n) THEN <<Matches(dirent_set_name(n), o), ReadMatches(dirent_set_name(n), o)>> ELSE <<FALSE, FALSE>>
      [] a.fn = "mount" -> fs_init(a.card)
      [] a.fn = "link" -> fat32_fat_entry_type(Link(a.c))
      [] a.fn = "end" -> fat32_fat_entry_type(EndOfChain)
      [] a.fn = "free" -> fat32_fat_entry_type(FreeEntry)
      [] a.fn = "first" -> fat32_cluster_id(hi_start(a.c), lo_start(a.c))
      [] a.fn = "utf8" -> to_cp(to_utf8(a.cp))
      [] a.fn = "lfn" -> fat32_dir_filename(Append(LfnEntries(a.name, lfn_checksum(a.d.filename)), a.d)).name
      [] a.fn = "clock" -> ClockCycles(get_clock_divider(a.base))
      [] a.fn = "short" -> fat32_dir_filename(<<a.d>>).name

-----------------------------------------------------------------------------

Nothing == [fn |-> "none"]

CardInit ==
    /\ Init /\ FsInit /\ EmmcInit
    /\ \/ part \in {"files", "tree", "driver"} /\ arg = Nothing
       \/ part = "functions" /\ arg \in Arguments
    /\ part # "driver" => card.kind = "sdhc"
    /\ answer = Nothing

Apply ==
    /\ answer = Nothing
    /\ answer' = [fn |-> arg.fn, val |-> Answer(arg)]
    /\ UNCHANGED <<vars, fsVars, emmc_vars, part, arg>>

CardNext ==
    \/ part = "files" /\ Next /\ UNCHANGED <<fsVars, emmc_vars, part, arg, answer>>
    \/ part = "tree" /\ FsNext /\ UNCHANGED <<vars, emmc_vars, part, arg, answer>>
    \/ part = "driver" /\ EmmcNext /\ UNCHANGED <<vars, fsVars, part, arg, answer>>
    \/ part = "functions" /\ Apply

CardSpec ==
    /\ CardInit /\ [][CardNext]_cardVars
    /\ WF_emmc_vars(part = "driver" /\ EmmcDriver) /\ WF_emmc_vars(part = "driver" /\ Hardware)

-----------------------------------------------------------------------------

\* A valid name finds the entry stored under it and no other, although the
\* comparison of find_dirent_with_name is made by hand; fat32_read agrees for
\* names with an extension, and never finds one without.
LookupExact ==
    answer.fn = "lookup" /\ is_valid_name(arg.asked) =>
        answer.val = <<arg.asked = arg.stored, arg.asked = arg.stored /\ HasDot(arg.asked)>>

\* Different chunk ids are different files, although the digits are written
\* backwards; only id 0 and ids from 10^8 on have no file of their own.
ChunkFilesDistinct ==
    answer.fn = "chunk" =>
        LET same == arg.stored = arg.asked /\ arg.stored \in 1 .. 99999999 IN answer.val = <<same, same>>

\* Every card that is mounted is laid out soundly, and no card that breaks
\* one of the checks is mounted.
MountedSound ==
    answer.fn = "mount" /\ answer.val.res = "mounted" =>
        /\ VolumeSound(arg.card.part[1].lba_start, arg.card.boot)
        /\ answer.val.fs.n_entries = arg.card.boot.nsec_per_fat * 128
        /\ arg.card.part[1].part_type \in Fat32Types

\* What the driver stores in the FAT and in a directory entry is read back as
\* what was meant: a link, the end of a chain, a free cluster, and a first
\* cluster split into two halves.
FieldsReadBack ==
    /\ answer.fn = "first" => answer.val = arg.c
    /\ answer.fn = "link" => answer.val = "USED_CLUSTER"
    /\ answer.fn = "end" => answer.val = "LAST_CLUSTER"
    /\ answer.fn = "free" => answer.val = "FREE_CLUSTER"

\* The clock of the card is never faster than 50 MHz, and not slower than half of
\* that when the base clock is a multiple of it, as the 250 MHz of the code are.
ClockInRange ==
    answer.fn = "clock" =>
        /\ arg.base <= TARGET_RATE * answer.val
        /\ arg.base % TARGET_RATE = 0 => arg.base * 2 > TARGET_RATE * answer.val

\* Long names written by other systems and every character of theirs are read
\* back.
LongNamesRead ==
    /\ answer.fn = "utf8" => Utf8RoundTrip(arg.cp) /\ answer.val = arg.cp
    /\ answer.fn = "lfn" => LongNameReadBack(arg.name, arg.d)

\* Between calls no cluster is lost, to the files of a directory or to the tree,
\* and memory and card agree.
NothingLost == TypeOK /\ FsTypeOK /\ NoLeak /\ NoDirLeak

\* The conversions between what the servers ask for and what the card holds are
\* right on every argument of the sample: names, chunk ids, the layout, table
\* and directory fields, long names and the clock.
AnswersRight ==
    /\ LookupExact /\ ChunkFilesDistinct /\ MountedSound
    /\ FieldsReadBack /\ LongNamesRead /\ ClockInRange
=============================================================================
