------------------------------- MODULE Unreal -------------------------------
(***************************************************************************)
(* Unreal Engine containers (extract/unreal.cpp): the Pak footer is found  *)
(* by one of eight exact layouts counted from the end of the file, an      *)
(* IoStore table of contents is laid out section by section and must agree *)
(* with the partition files beside it.                                     *)
(*                                                                         *)
(* Lengths are in units: every fixed-width element is one unit long, the   *)
(* Pak footers and the table's header a few.  Bytes whose value is only    *)
(* compared with what is required are Booleans.                            *)
(***************************************************************************)
EXTENDS Words

CONSTANTS PakEntryBudget, IoEntryBudget, IoBlockBudget, SignatureBudget

-----------------------------------------------------------------------------
(* Pak.  Two layouts share version 8 at different sizes; one has the field  *)
(* for a frozen index.                                                      *)

kPakProfiles ==
    << [size |-> 2, first |-> 1, last |-> 3, encrypted |-> FALSE, frozen |-> FALSE],
       [size |-> 3, first |-> 8, last |-> 8, encrypted |-> TRUE, frozen |-> FALSE],
       [size |-> 4, first |-> 8, last |-> 8, encrypted |-> TRUE, frozen |-> FALSE],
       [size |-> 5, first |-> 9, last |-> 9, encrypted |-> TRUE, frozen |-> TRUE],
       [size |-> 4, first |-> 10, last |-> 12, encrypted |-> TRUE, frozen |-> FALSE] >>

\* Two secondary indexes behind the primary one, each present or not.
SecondaryFits(x, p, s) ==
    /\ s.len # 0 /\ checked_add(s.off, s.len)
    /\ s.off >= x.off + x.len /\ s.off + s.len <= x.size - p.size
    /\ s.hash_ok

\* A length-prefixed string, narrow or wide, with its terminator.
parse_fstring(x) == x.mount_ok

\* Names of compression methods, zero-padded.
parse_compression_slots(x) == x.slots_ok

\* Version 10 and later: path hashes, secondary indexes, encoded entries.
PathHashIndex(x, p) ==
    /\ \A i \in DOMAIN x.secondary : SecondaryFits(x, p, x.secondary[i])
    /\ ~NeighboursOverlap(x.secondary)
    /\ checked_add(x.encoded, 1) /\ x.encoded + 1 <= x.len
    /\ x.loose <= x.count /\ checked_mul(x.loose, 1) /\ x.loose <= x.len - (x.encoded + 1)

\* The order of the checks decides between PARTIAL and FAILED.
parse_pak_profile(x, p) ==
    LET footer == x.size - p.size
        found == <<range(footer, p.size), range(x.off, x.len)>>
    IN CASE p.encrypted /\ x.flag > 1 -> Failed
         [] x.len = 0 \/ ~checked_add(x.off, x.len) \/ x.off + x.len > footer -> Failed
         [] (p.frozen /\ x.frozen > 1) \/ ~parse_compression_slots(x) -> Failed
         [] OTHER ->
            IF p.encrypted /\ x.flag = 1 THEN Partial(found) ELSE
            IF ~x.hash_ok \/ ~parse_fstring(x) THEN Failed ELSE
            IF x.count > PakEntryBudget THEN Partial(found) ELSE
            IF ~checked_mul(x.count, 1) \/ x.count > x.len THEN Failed ELSE
            IF x.version >= 10 /\ ~PathHashIndex(x, p) THEN Failed ELSE
            IF p.frozen /\ x.frozen = 1 THEN Partial(found)
            ELSE Confirmed(found \o IF x.version >= 10 THEN x.secondary ELSE <<>>)

\* The layouts whose magic stands where they want it.
Magic(x) == {i \in DOMAIN kPakProfiles : kPakProfiles[i].size <= x.size /\ kPakProfiles[i].size \in x.magic}

Versioned(x) ==
    {i \in Magic(x) : x.version \in kPakProfiles[i].first .. kPakProfiles[i].last}

Viable(x) == {i \in Versioned(x) : parse_pak_profile(x, kPakProfiles[i]).state # "FAILED"}

detect_pak(x) ==
    IF Cardinality(Viable(x)) > 1 THEN Partial(<<>>) ELSE
    IF Viable(x) # {} THEN parse_pak_profile(x, kPakProfiles[CHOOSE i \in Viable(x) : TRUE]) ELSE
    IF Versioned(x) # {} THEN Failed ELSE
    IF Magic(x) # {} \/ x.ext THEN Partial(<<>>) ELSE Absent

PakBase ==
    [part |-> "pak", size |-> 9, magic |-> {4}, version |-> 10, flag |-> 0, frozen |-> 0, off |-> 0,
     len |-> 3, slots_ok |-> TRUE, hash_ok |-> TRUE, mount_ok |-> TRUE, count |-> 1, encoded |-> 1,
     loose |-> 1, ext |-> FALSE,
     secondary |-> <<[off |-> 3, len |-> 1, hash_ok |-> TRUE], [off |-> 4, len |-> 1, hash_ok |-> TRUE]>>]

PakAlt ==
    [size |-> {3, 4}, magic |-> {{}, {3}, {3, 4}, {5}, {2}}, version |-> {0, 2, 8, 9, 12},
     flag |-> {1, 2}, frozen |-> {1, 2}, off |-> {3, 7, WordLimit - 2}, len |-> {0, 2, 5, WordLimit - 1},
     slots_ok |-> {FALSE}, hash_ok |-> {FALSE}, mount_ok |-> {FALSE}, ext |-> {TRUE},
     count |-> {3, 4, PakEntryBudget + 1}, encoded |-> {2, 3, WordLimit - 1}, loose |-> {2, WordLimit - 1},
     secondary |-> {<<>>, <<[off |-> 3, len |-> 2, hash_ok |-> TRUE], [off |-> 4, len |-> 1, hash_ok |-> TRUE]>>,
                    <<[off |-> WordLimit - 1, len |-> 3, hash_ok |-> TRUE]>>,
                    <<[off |-> 2, len |-> 1, hash_ok |-> TRUE]>>, <<[off |-> 3, len |-> 1, hash_ok |-> FALSE]>>}]

\* CONFIRMED means: one layout only, its footer at the very end, all ranges
\* inside the file before it and apart from each other.
PakExact(x, r) ==
    r.valid => /\ Cardinality(Versioned(x)) = 1 \/ Cardinality(Viable(x)) = 1
               /\ Disjoint(r.ranges) /\ \E i \in DOMAIN r.ranges : r.ranges[i].off + r.ranges[i].len = x.size

-----------------------------------------------------------------------------
(* IoStore *)

HeaderSize == 1

add_section(cursor, count, size) ==
    IF cursor = Bad \/ ~checked_mul(count, 1) \/ ~checked_add(cursor, count) \/ cursor + count > size
    THEN Bad ELSE cursor + count

\* Chunk identifiers, offsets, perfect-hash seeds and overflow, blocks,
\* methods, signatures, directory index and metadata, one behind the other.
Sections(x) ==
    << x.entries, x.entries, IF x.version >= 4 THEN x.seeds ELSE 0,
       IF x.version >= 5 THEN x.overflow ELSE 0, x.blocks, x.methods,
       IF x.signed THEN 1 + 2 * x.signature + x.blocks ELSE 0, x.directory, x.entries >>

Layout(x) == FoldLeft(LAMBDA c, n : add_section(c, n, x.size), HeaderSize, Sections(x))

BlockRange(x, i) ==
    LET b == x.block[i]
        stored == IF x.encrypted THEN ((b.len + 1) \div 2) * 2 ELSE b.len
    IN [partition |-> b.off \div x.partition_size, off |-> b.off % x.partition_size, len |-> stored]

BlockFits(x, i) ==
    LET r == BlockRange(x, i)
    IN /\ x.block[i].len # 0 /\ x.block[i].plain # 0 /\ x.block[i].plain <= x.block_size
       /\ r.partition < x.partitions
       /\ checked_add(r.off, r.len) /\ r.off + r.len <= x.partition_size

Ranges(x, k) == SelectSeq([i \in 1 .. x.blocks |-> BlockRange(x, i)], LAMBDA r : r.partition = k)

Required(x, k) == LET ends == {r.off + r.len : r \in ToSet(Ranges(x, k))} \cup {0}
                  IN CHOOSE n \in ends : \A e \in ends : e <= n

\* Every partition file is there once, spelt exactly, regular and long enough,
\* and there is none too many.
evaluate_partitions(x) ==
    /\ \A k \in 0 .. x.partitions - 1 :
          k \in DOMAIN x.files /\ x.files[k].regular /\ x.files[k].size >= Required(x, k)
    /\ DOMAIN x.files \subseteq 0 .. x.partitions - 1

TocFails(x) ==
    \/ Layout(x) # x.size
    \/ x.encrypted /\ x.directory % 2 # 0
    \/ \E i, j \in 1 .. x.entries : i # j /\ x.ids[i] = x.ids[j]
    \/ ~checked_mul(x.blocks, x.block_size)
    \/ \E i \in 1 .. x.entries : \/ ~checked_add(x.chunk[i].off, x.chunk[i].len)
                                 \/ x.chunk[i].off + x.chunk[i].len > x.blocks * x.block_size
    \/ \E i \in 1 .. x.blocks : ~BlockFits(x, i)
    \/ \E k \in 0 .. x.partitions - 1 : NeighboursOverlap(Ranges(x, k))

detect_iostore(x) ==
    IF x.version \notin 1 .. 8 THEN Partial(<<>>) ELSE
    IF ~x.header_ok \/ x.partitions = 0 \/ x.partition_size = 0 \/ x.block_size = 0
       \/ (x.version < 4 /\ x.seeds # 0) \/ (x.version < 5 /\ x.overflow # 0) THEN Failed ELSE
    IF x.entries > IoEntryBudget \/ x.blocks > IoBlockBudget THEN Partial(<<range(0, HeaderSize)>>) ELSE
    IF x.signed /\ x.signature > SignatureBudget THEN Partial(<<range(0, HeaderSize)>>) ELSE
    IF TocFails(x) THEN Failed ELSE
    IF ~evaluate_partitions(x) \/ x.encrypted
    THEN Partial(<<range(0, HeaderSize), range(0, Layout(x))>>)
    ELSE Confirmed(<<range(0, HeaderSize), range(0, Layout(x))>>)

IoBase ==
    [part |-> "iostore", size |-> 12, version |-> 5, header_ok |-> TRUE, entries |-> 2, seeds |-> 1,
     overflow |-> 0, blocks |-> 2, methods |-> 0, signed |-> FALSE, signature |-> 0, directory |-> 2,
     encrypted |-> FALSE, ids |-> <<1, 2>>, block_size |-> 2,
     chunk |-> <<[off |-> 0, len |-> 2], [off |-> 2, len |-> 2]>>,
     block |-> <<[off |-> 0, len |-> 2, plain |-> 2], [off |-> 3, len |-> 1, plain |-> 2]>>,
     partitions |-> 2, partition_size |-> 3,
     files |-> (0 :> [regular |-> TRUE, size |-> 2] @@ 1 :> [regular |-> TRUE, size |-> 2])]

IoAlt ==
    [size |-> {11, 13}, version |-> {0, 3, 4, 8, 9}, header_ok |-> {FALSE}, seeds |-> {0, 2},
     overflow |-> {1}, methods |-> {1, WordLimit - 1}, signed |-> {TRUE}, signature |-> {1, SignatureBudget + 1},
     directory |-> {1, 3, WordLimit - 1}, encrypted |-> {TRUE}, ids |-> {<<1, 1>>}, block_size |-> {0, 1, WordLimit},
     chunk |-> {<<[off |-> 0, len |-> 2], [off |-> 3, len |-> 2]>>,
                <<[off |-> WordLimit - 1, len |-> 2], [off |-> 2, len |-> 2]>>},
     block |-> {<<[off |-> 0, len |-> 2, plain |-> 2], [off |-> 1, len |-> 1, plain |-> 2]>>,
                <<[off |-> 0, len |-> 2, plain |-> 2], [off |-> 2, len |-> 2, plain |-> 2]>>,
                <<[off |-> 4, len |-> 1, plain |-> 1], [off |-> 3, len |-> 1, plain |-> 1]>>,
                <<[off |-> 0, len |-> 0, plain |-> 2], [off |-> 6, len |-> 1, plain |-> 1]>>},
     partitions |-> {0, 1}, partition_size |-> {0, 2, 6},
     files |-> {(0 :> [regular |-> TRUE, size |-> 2]),
                (0 :> [regular |-> TRUE, size |-> 2] @@ 1 :> [regular |-> FALSE, size |-> 2]),
                (0 :> [regular |-> TRUE, size |-> 1] @@ 1 :> [regular |-> TRUE, size |-> 2]),
                (0 :> [regular |-> TRUE, size |-> 2] @@ 1 :> [regular |-> TRUE, size |-> 2]
                 @@ 2 :> [regular |-> TRUE, size |-> 2])}]

\* CONFIRMED means: the sections fill the table exactly, and every byte of
\* every block can be read from the partition files, no byte twice.
IoExact(x, r) ==
    r.valid =>
        /\ HeaderSize + FoldLeft(LAMBDA n, s : n + s, 0, Sections(x)) = x.size
        /\ \A i \in 1 .. x.blocks : LET b == BlockRange(x, i)
               IN b.partition \in DOMAIN x.files /\ b.off + b.len <= x.files[b.partition].size
        /\ \A i, j \in 1 .. x.blocks : i # j =>
               LET b == BlockRange(x, i)   c == BlockRange(x, j)
               IN b.partition = c.partition => ~Overlap(b, c)
=============================================================================
