--------------------------- MODULE Fat32LongNames ---------------------------
(***************************************************************************)
(* Long file names (fat32/fat32-lfn-helpers.c) and UTF-8                   *)
(* (external-code/unicode-utf8.c).  Characters and bytes are numbers.  A   *)
(* long name is spread over entries of 5 + 6 + 2 characters, the last part *)
(* first, in front of the entry with the short name.  The driver only      *)
(* reads long names; LfnEntries is what other systems write.               *)
(***************************************************************************)
EXTENDS Integers, Sequences

LOCAL INSTANCE SequencesExt

\* The table utf: bits in the first byte, its lead, and the range of code
\* points.  Row 0 is for the following bytes; zero is in its range.
Utf == << [bits |-> 7, lead |-> 0, beg |-> 0, end |-> 127],
          [bits |-> 5, lead |-> 192, beg |-> 128, end |-> 2047],
          [bits |-> 4, lead |-> 224, beg |-> 2048, end |-> 65535],
          [bits |-> 3, lead |-> 240, beg |-> 65536, end |-> 1114111] >>

codepoint_len(cp) ==
    IF cp = 0 THEN 0
    ELSE IF \E n \in 1 .. 4 : cp \in Utf[n].beg .. Utf[n].end
    THEN CHOOSE n \in 1 .. 4 : cp \in Utf[n].beg .. Utf[n].end ELSE -1

utf8_len(ch) ==
    IF ch \in 128 .. 191 THEN 0
    ELSE IF \E n \in 1 .. 4 : ch - (ch % 2 ^ Utf[n].bits) = Utf[n].lead
    THEN CHOOSE n \in 1 .. 4 : ch - (ch % 2 ^ Utf[n].bits) = Utf[n].lead ELSE -1

\* The first byte holds the upper bits, the following ones six bits each.
to_utf8(cp) ==
    LET n == codepoint_len(cp) IN
    [i \in 1 .. n |-> IF i = 1 THEN Utf[n].lead + ((cp \div 64 ^ (n - 1)) % 2 ^ Utf[n].bits)
                      ELSE 128 + ((cp \div 64 ^ (n - i)) % 64)]

to_cp(s) ==
    LET n == utf8_len(s[1])
        part == [i \in 1 .. n |-> (s[i] % 2 ^ (IF i = 1 THEN Utf[n].bits ELSE 6)) * 64 ^ (n - i)] IN
    IF n < 0 THEN 0 ELSE FoldLeft(LAMBDA x, y : x + y, 0, part)

-----------------------------------------------------------------------------
(* Entries *)

LONG == "FAT32_LONG_FILE_NAME"
LastFlag == 64
Pad == 65535

lfn_is_last(seqno) == (seqno \div LastFlag) % 2 = 1
lfn_is_first(seqno) == (IF lfn_is_last(seqno) THEN seqno - LastFlag ELSE seqno) = 1
\* seqno & 0xe5 == 0xe5
lfn_is_deleted(seqno) == \A b \in {0, 2, 5, 6, 7} : (seqno \div 2 ^ b) % 2 = 1

\* Each byte is added to the sum rotated right by one.
lfn_checksum(filename) ==
    FoldLeft(LAMBDA sum, c : ((sum % 2) * 128 + (sum \div 2) + c) % 256, 0, filename)

lfn_terminator(u) == u \in {0, Pad}

\* The characters up to a terminator, in UTF-8.
utf8_append(unicode) ==
    LET stop == {i \in 1 .. Len(unicode) : lfn_terminator(unicode[i])}
        n == IF stop = {} THEN Len(unicode) ELSE (CHOOSE i \in stop : \A j \in stop : i <= j) - 1 IN
    FlattenSeq([i \in 1 .. n |-> to_utf8(unicode[i])])

\* The parts of the last entry come first.
lfn_get_name(s) ==
    FlattenSeq([k \in 1 .. Len(s) |-> LET l == s[Len(s) + 1 - k] IN
        utf8_append(l.name1_5) \o utf8_append(l.name6_11) \o utf8_append(l.name12_13)])

\* The assertions of lfn_print: at most two entries, none deleted, the right
\* checksum in each, the flags of the first and of the last part.
lfn_print(s, cksum) ==
    /\ Len(s) \in 1 .. 2
    /\ \A i \in 1 .. Len(s) : ~lfn_is_deleted(s[i].seqno) /\ s[i].cksum = cksum
    /\ lfn_is_last(s[1].seqno) /\ lfn_is_first(s[Len(s)].seqno)

Lower(c) == IF c \in 65 .. 90 THEN c + 32 ELSE c

\* The short name: spaces of the base are dropped, those of the extension not.
ShortName(d) ==
    LET f == [i \in 1 .. 11 |-> IF d.reserved0 = 24 THEN Lower(d.filename[i]) ELSE d.filename[i]] IN
    SelectSeq(SubSeq(f, 1, 8), LAMBDA c : c # 32) \o <<46>> \o SubSeq(f, 9, 11)

\* The name of the file whose first entry is s[1], and the entry it is in.
fat32_dir_filename(s) ==
    LET others == {i \in 1 .. Len(s) : s[i].attr # LONG}
        cnt == CHOOSE i \in others : \A j \in others : i <= j IN
    IF s[1].attr = LONG THEN [name |-> lfn_get_name(SubSeq(s, 1, cnt - 1)), d |-> cnt]
    ELSE [name |-> ShortName(s[1]), d |-> 1]

-----------------------------------------------------------------------------

\* External: the entries of a long name, as VFAT lays them out.
LfnEntries(name, cksum) ==
    LET n == (Len(name) + 12) \div 13
        Char(i) == IF i <= Len(name) THEN name[i] ELSE IF i = Len(name) + 1 THEN 0 ELSE Pad
        Part(k, from, len) == [i \in 1 .. len |-> Char(13 * (k - 1) + from + i)] IN
    [j \in 1 .. n |-> LET k == n + 1 - j IN
        [attr |-> LONG, cksum |-> cksum, seqno |-> IF k = n THEN k + LastFlag ELSE k,
         name1_5 |-> Part(k, 0, 5), name6_11 |-> Part(k, 5, 6), name12_13 |-> Part(k, 11, 2)]]

\* Every code point but zero survives the encoding and the decoding.
Utf8RoundTrip(cp) == codepoint_len(cp) > 0 /\ to_cp(to_utf8(cp)) = cp

\* A long name written by another system is read back whole, with the short
\* entry behind it, and passes the assertions of lfn_print if it has one or
\* two parts.
LongNameReadBack(name, d) ==
    LET ck == lfn_checksum(d.filename)
        s == LfnEntries(name, ck)
        r == fat32_dir_filename(Append(s, d)) IN
    /\ r.d = Len(s) + 1
    /\ r.name = FlattenSeq([i \in 1 .. Len(name) |-> to_utf8(name[i])])
    /\ Len(name) <= 26 => lfn_print(s, ck)

=============================================================================
