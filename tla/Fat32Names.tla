----------------------------- MODULE Fat32Names -----------------------------
(***************************************************************************)
(* File names (fat32/fat32-helpers.c, libpi/include/dfs-fat32-common.h):   *)
(* which names are valid, how they are kept in the eleven bytes of a       *)
(* directory entry, how two parts of the driver compare them with the name *)
(* asked for, and the names chunkservers make from chunk ids.  A name is   *)
(* the sequence of its characters.                                         *)
(***************************************************************************)
EXTENDS Integers, Sequences

Digit == <<"0", "1", "2", "3", "4", "5", "6", "7", "8", "9">>
Digits == {Digit[i] : i \in 1 .. 10}
Letters == {"A", "B", "C", "D", "E", "F", "G", "H", "I", "J", "K", "L", "M", "N", "O", "P", "Q",
            "R", "S", "T", "U", "V", "W", "X", "Y", "Z"}
Nul == "nul"

HasDot(n) == \E i \in 1 .. Len(n) : n[i] = "."

\* A base of up to eight characters and an extension of none or exactly three.
is_valid_name(n) ==
    LET dot == Len(n) - 3 IN
    IF HasDot(n)
    THEN Len(n) \in 5 .. 12 /\ n[dot] = "." /\ \A i \in 1 .. Len(n) : i = dot \/ n[i] \in Letters \cup Digits
    ELSE Len(n) \in 1 .. 8 /\ \A i \in 1 .. Len(n) : n[i] \in Letters \cup Digits

\* fat32_dirent_set_name: base and extension, each padded with spaces.
dirent_set_name(n) ==
    LET base == IF HasDot(n) THEN Len(n) - 4 ELSE Len(n) IN
    [i \in 1 .. 11 |-> CASE i <= base -> n[i]
                         [] i > 8 /\ HasDot(n) -> n[Len(n) - 11 + i]
                         [] OTHER -> " "]

\* Only the base is trimmed; the dot and the extension are always there.  The
\* name of a valid file never has an empty base, for which the code would
\* store the dot in front of its buffer.
to_8dot3(raw) ==
    LET used == {i \in 1 .. 8 : raw[i] # " "}
        base == IF used = {} THEN 0 ELSE CHOOSE i \in used : \A j \in used : j <= i IN
    SubSeq(raw, 1, base) \o <<".">> \o SubSeq(raw, 9, 11)

\* The comparison of fat32_read: strcmp with the 8.3 form.
ReadMatches(raw, n) == to_8dot3(raw) = n

\* Mutant: a name that is the beginning of the entry's name is taken for it.
PrefixMatches(raw, n) ==
    LET tmp == to_8dot3(raw) IN Len(n) <= Len(tmp) /\ SubSeq(tmp, 1, Len(n)) = n

\* The comparison of find_dirent_with_name (stat, create, delete, rename, write).
Matches(raw, n) ==
    LET tmp == to_8dot3(raw)
        At(i) == IF i <= Len(tmp) THEN tmp[i] ELSE Nul
        idx == Len(n) IN
    /\ \A i \in 1 .. idx : n[i] = At(i)
    /\ IF HasDot(n)
       THEN At(idx + 1) \in {" ", Nul} \/ idx = 11
       ELSE idx >= 10 \/ (At(idx + 1) = "." /\ At(idx + 2) \in {" ", Nul})

\* The loop of int_to_filename: the digits, the last one first, and none for 0.
DigitsOf(n) ==
    IF n = 0 THEN << >>
    ELSE LET w == CHOOSE w \in 1 .. 9 : n < 10 ^ w /\ (w = 1 \/ n >= 10 ^ (w - 1)) IN
         [i \in 1 .. w |-> Digit[1 + ((n \div 10 ^ (i - 1)) % 10)]]

int_to_filename(n, is_dir) == IF is_dir THEN DigitsOf(n) ELSE DigitsOf(n) \o <<".", "T", "X", "T">>

=============================================================================
