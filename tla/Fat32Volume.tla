---------------------------- MODULE Fat32Volume ----------------------------
(***************************************************************************)
(* Mounting a card (fat32/fat32.c, fat32-helpers.c, mbr.c, mbr-helpers.c,  *)
(* pi-sd.c): the checks of the master boot record, of the boot sector and  *)
(* of the info sector, the places computed from them, the values of FAT    *)
(* entries and the first cluster kept in two halves of a directory entry.  *)
(* A card is a record of the fields that are looked at; places are counted *)
(* in sectors, modulo the word size.                                       *)
(***************************************************************************)
EXTENDS Integers, Sequences

CONSTANTS Word,    \* 2^32: size of an unsigned word
          Half     \* 2^16: size of half a word

ASSUME WordAssumption == Word \in Nat \ {0} /\ Half \in Nat \ {0} /\ Half * Half = Word

Wrap(x) == x % Word
Fat32Types == {11, 12}                                        \* mbr_part_is_fat32
EmptyPart == [part_type |-> 0, lba_start |-> 0, nsec |-> 0]   \* sixteen zero bytes

\* The partition table has one entry, of a FAT32 type.
mbr_check(card) ==
    /\ card.sigval = "AA55"
    /\ card.part[1].part_type \in Fat32Types /\ card.part[1] # EmptyPart
    /\ \A i \in 2 .. 4 : card.part[i] = EmptyPart

\* ((x) & -(x)) == (x): zero passes.
is_pow2(x) == x = 0 \/ \E i \in 0 .. 8 : x = 2 ^ i

fat32_volume_id_check(b) ==
    /\ b.bytes_per_sec = 512 /\ b.nfats = 2 /\ b.sig = "AA55"
    /\ is_pow2(b.sec_per_cluster)
    /\ b.max_files = 0 /\ b.fs_nsec = 0 /\ b.zero = 0 /\ b.nsec_in_fs # 0
    /\ b.info_sec_num = 1 /\ b.backup_boot_loc = 6 /\ b.extended_sig = "29"

fat32_fsinfo_check(info) == info = <<"41615252", "61417272", "aa550000">>

\* The fat32_fs_t that fat32_mk computes.
Geometry(lba_start, b) ==
    LET fat_begin == Wrap(lba_start + b.reserved_area_nsec) IN
    [lba_start |-> lba_start,
     fat_begin_lba |-> fat_begin,
     cluster_begin_lba |-> Wrap(fat_begin + b.nfats * b.nsec_per_fat),
     sectors_per_cluster |-> b.sec_per_cluster,
     root_dir_first_cluster |-> b.first_cluster,
     n_entries |-> Wrap(b.nsec_per_fat * b.bytes_per_sec) \div 4]

Panicked == [res |-> "panic"]

\* The first sector, or an assertion stops the Pi.
mbr_read(card) == IF mbr_check(card) THEN [res |-> "mbr", part |-> card.part] ELSE Panicked

\* fs_init: the card is read and mounted, or an assertion stops the Pi.
fs_init(card) ==
    LET mbr == mbr_read(card) IN
    IF mbr.res = "mbr" /\ fat32_volume_id_check(card.boot) /\ fat32_fsinfo_check(card.info)
    THEN [res |-> "mounted", fs |-> Geometry(mbr.part[1].lba_start, card.boot)]
    ELSE Panicked

cluster_to_lba(fs, c) == Wrap(fs.cluster_begin_lba + (c - 2) * fs.sectors_per_cluster)

\* The sectors of a cluster and those that write_fat_to_disk writes.
ClusterSectors(fs, c) == cluster_to_lba(fs, c) .. cluster_to_lba(fs, c) + fs.sectors_per_cluster - 1
FatSectors(fs) == fs.fat_begin_lba .. fs.fat_begin_lba + (fs.n_entries \div 128) - 1

\* The two halves of the first cluster in an entry, and fat32_cluster_id.
hi_start(c) == (c \div Half) % Half
lo_start(c) == c % Half
fat32_cluster_id(hi, lo) == hi * Half + lo

\* An entry of the FAT is four upper bits, which are not looked at, and a
\* value of 28 bits.
Top == 2 ^ 28
fat32_fat_entry_type(e) ==
    CASE e.x = 0 -> "FREE_CLUSTER"
      [] e.x = 1 -> "RESERVED_CLUSTER"
      [] e.x = Top - 9 -> "BAD_CLUSTER"
      [] e.x \in 2 .. Top - 17 -> "USED_CLUSTER"
      [] e.x \in Top - 16 .. Top - 10 -> "panic"
      [] e.x \in Top - 8 .. Top - 1 -> "LAST_CLUSTER"

\* What the driver stores: a link, the end (0xFFFFFFFF) or zero.
Link(c) == [upper |-> 0, x |-> c]
EndOfChain == [upper |-> 15, x |-> Top - 1]
FreeEntry == [upper |-> 0, x |-> 0]

-----------------------------------------------------------------------------

\* The volume is not larger than what a word can count.
Fits(lba_start, b) ==
    /\ lba_start + b.reserved_area_nsec + b.nfats * b.nsec_per_fat
          + (b.nsec_per_fat * 128) * b.sec_per_cluster < Word
    /\ b.nsec_per_fat * b.bytes_per_sec < Word

\* On a card that is accepted and fits, two clusters share no sector, no
\* cluster reaches into the reserved area or one of the two FATs, and the FAT
\* that is written back is exactly the first one.
VolumeSound(lba_start, b) ==
    LET fs == Geometry(lba_start, b)
        second == lba_start + b.reserved_area_nsec + b.nsec_per_fat IN
    (fat32_volume_id_check(b) /\ Fits(lba_start, b)) =>
        /\ \A c \in 2 .. fs.n_entries - 1 :
            /\ \A s \in ClusterSectors(fs, c) : s >= second + b.nsec_per_fat
            /\ \A d \in 2 .. fs.n_entries - 1 :
                c # d => ClusterSectors(fs, c) \cap ClusterSectors(fs, d) = {}
        /\ FatSectors(fs) = lba_start + b.reserved_area_nsec .. second - 1

\* The clusters of the FAT lie in the volume.  The code never looks at
\* nsec_in_fs, and a FAT may have more entries than the volume has clusters.
ClustersInVolume(lba_start, b) ==
    LET fs == Geometry(lba_start, b) IN
    (fat32_volume_id_check(b) /\ Fits(lba_start, b)) =>
        \A c \in 2 .. fs.n_entries - 1 : \A s \in ClusterSectors(fs, c) : s < lba_start + b.nsec_in_fs

=============================================================================
