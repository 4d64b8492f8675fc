------------------------------- MODULE Dart --------------------------------
(***************************************************************************)
(* Dart Kernel components, raw snapshots, and ahead-of-time snapshots in   *)
(* ELF files (extract/dart.cpp).  A Kernel file is indexed from its end:   *)
(* nine words, the offsets of the libraries, their number and the size of  *)
(* the file.  For the two formats known in depth every table is parsed as  *)
(* well.                                                                   *)
(*                                                                         *)
(* Sizes and offsets are in bytes.  What a table holds is given with the   *)
(* table; where it holds it follows from the widths of its numbers.  A     *)
(* text is the kinds of its bytes.  Hints of strings, which decide nothing,*)
(* are left out, and so is the limit of 2^32 on the size of a file, which  *)
(* its own word for the size implies.                                      *)
(***************************************************************************)
EXTENDS Words

CONSTANTS kMaxLibraries, kMaxStrings, kMaxStringBytes, kMaxConstants, kMaxCanonicalNames, kMaxPath,
          kMaxSources, kMaxSourceBytes, kMaxLineStarts, MaxDirectString, MaxProblems, kMaxIndexedNodes, kMaxFeatures

\* A byte is named for the first of those that the decoder treats like it, and
\* escape stands for the six letters a lone surrogate is rewritten to.
Need == [a |-> 0, escape |-> 0, c2 |-> 1, e0 |-> 2, e1 |-> 2, ed |-> 2, f0 |-> 3, f1 |-> 3, f4 |-> 3]

Continuations == {"x80", "x90", "xa0"}

\* What would be a character in more bytes than it needs, or none of Unicode.
BadSecond == {<<"e0", "x80">>, <<"e0", "x90">>, <<"f0", "x80">>, <<"f4", "x90">>, <<"f4", "xa0">>}

Continues(seq, b) == IF seq = <<>> THEN b \in DOMAIN Need ELSE b \in Continuations /\ <<Last(seq), b>> \notin BadSecond

Surrogate(seq) == seq[1] = "ed" /\ seq[2] = "xa0"

Complete(acc, seq) ==
    IF Len(seq) <= Need[seq[1]] THEN [acc EXCEPT !.seq = seq]
    ELSE IF Len(seq) = 3 /\ Surrogate(seq) THEN [acc EXCEPT !.seq = <<>>, !.out = Append(@, "escape"), !.escaped = TRUE]
    ELSE [acc EXCEPT !.seq = <<>>, !.out = @ \o seq]

\* WTF-8: lone surrogates are escaped, everything else must be well formed.
decode_kernel_wtf8(t) ==
    LET end == FoldLeft(LAMBDA acc, b : IF acc.ok /\ Continues(acc.seq, b) THEN Complete(acc, Append(acc.seq, b)) ELSE [acc EXCEPT !.ok = FALSE],
                        [ok |-> TRUE, seq |-> <<>>, out |-> <<>>, escaped |-> FALSE], t)
    IN [ok |-> end.ok /\ end.seq = <<>>, text |-> end.out, escaped |-> end.escaped]

ByteSize(t) == SumOver(Len(t), LAMBDA i : IF t[i] = "escape" THEN 6 ELSE 1)

\* A number of at most 30 bits takes one, two or four bytes.
u30(v) == IF v < 128 THEN 1 ELSE IF v < 16384 THEN 2 ELSE 4

AllU30(vs) == SumOver(Len(vs), LAMBDA i : u30(vs[i]))

DirectSize(t) == u30(ByteSize(t)) + ByteSize(t)

read_kernel_direct_string(t) == ByteSize(t) <= MaxDirectString /\ decode_kernel_wtf8(t).ok

Sorted(s) == \A i \in 2 .. Len(s) : s[i - 1] < s[i]

deep_metadata_supported(x) == x.version \in {138, 139}

\* The words of the index, counted from the end.
FixedWords(x) == 9 + Len(x.libraries) + 2

FixedStart(x) == x.size - 4 * FixedWords(x)

Source(x) == x.tables[1]
Constant(x) == x.tables[2]
ConstantIndex(x) == x.tables[3]
Canonical(x) == x.tables[4]
Payloads(x) == x.tables[5]
Strings(x) == x.tables[7]

zero_padding(from, to, zero) == from <= to /\ to - from <= 7 /\ (zero \/ from = to)

\* Tables in the order of the writer, between the header and the index, and the
\* libraries in front of them, the last of which ends where the sources begin.
IndexFits(x) ==
    /\ x.size >= 8 + 4 * 12 /\ x.version \in 1 .. 10000 /\ (deep_metadata_supported(x) => x.hash_ok)
    /\ x.file_size = x.size /\ Len(x.libraries) - 1 <= kMaxLibraries /\ FixedStart(x) >= 8
    /\ x.index >= 8 /\ zero_padding(x.index, FixedStart(x), x.index_zero) /\ x.size % 8 = 0
    /\ \A i \in 1 .. 7 : x.tables[i] >= 8 /\ x.tables[i] <= x.index /\ (i > 1 => x.tables[i] >= x.tables[i - 1])
    /\ \A i \in DOMAIN x.libraries : x.libraries[i] >= 8 /\ x.libraries[i] <= Source(x)
    /\ Sorted(x.libraries) /\ Last(x.libraries) = Source(x)

\* The number of the strings, their ends, and then the strings themselves.
StringData(x) == Strings(x) + u30(Len(x.strings)) + SumOver(Len(x.strings), LAMBDA i : u30(x.strings[i].end))

\* The ends of the strings ascend and the last one is the end of the table.
parse_kernel_string_table(x) ==
    LET ends == [i \in DOMAIN x.strings |-> x.strings[i].end]
    IN /\ Len(x.strings) <= kMaxStrings
       /\ \A i \in DOMAIN ends : ends[i] <= kMaxStringBytes /\ (i > 1 => ends[i - 1] <= ends[i])
       /\ StringData(x) <= x.index /\ (IF ends = <<>> THEN 0 ELSE Last(ends)) = x.index - StringData(x)
       /\ \A i \in DOMAIN x.strings : decode_kernel_wtf8(x.strings[i].text).ok

StringRange(x, i) ==
    LET from == IF i = 1 THEN 0 ELSE x.strings[i - 1].end
    IN range(StringData(x) + from, x.strings[i].end - from)

ConstantRange(x, i) ==
    LET to == IF i < Len(x.constants) THEN x.constants[i + 1].rel ELSE ConstantIndex(x) - Constant(x)
    IN range(Constant(x) + x.constants[i].rel, to - x.constants[i].rel)

\* null has no payload, a Boolean one byte, a string the index of a string; the
\* payloads of fourteen other kinds are not looked at.
PayloadCloses(x, i) ==
    LET c == x.constants[i]   len == ConstantRange(x, i).len
    IN /\ c.tag \in {"null", "bool", "string", "other"}
       /\ c.tag = "null" => len = 1
       /\ c.tag = "bool" => len = 2 /\ c.value \in {0, 1}
       /\ c.tag = "string" => len = 1 + u30(c.value) /\ c.value < Len(x.strings)

\* Constants follow each other from behind their number to their index.
parse_kernel_constant_index(x) ==
    LET n == Len(x.constants)
        rel == [i \in 1 .. n |-> x.constants[i].rel]
    IN /\ n <= kMaxConstants /\ Constant(x) + u30(n) <= ConstantIndex(x)
       /\ Canonical(x) - ConstantIndex(x) = 4 * (n + 1) /\ x.stored_count = n
       /\ \A i \in 1 .. n : rel[i] >= u30(n) /\ rel[i] < ConstantIndex(x) - Constant(x)
       /\ Sorted(rel) /\ (n > 0 => rel[1] = u30(n))
       /\ \A i \in 1 .. n : PayloadCloses(x, i)

CanonicalEnd(x) == Canonical(x) + u30(Len(x.names)) + SumOver(Len(x.names), LAMBDA i : u30(x.names[i].parent) + u30(x.names[i].string))

\* A parent is the root (0) or an earlier name.
parse_kernel_canonical_table(x) ==
    /\ Len(x.names) <= kMaxCanonicalNames
    /\ \A i \in DOMAIN x.names : x.names[i].parent <= i - 1 /\ x.names[i].string < Len(x.strings)
    /\ zero_padding(CanonicalEnd(x), Payloads(x), x.names_zero)

NameSize(x, i) == ByteSize(decode_kernel_wtf8(x.strings[x.names[i].string + 1].text).text)

\* What stands in a path for the names that were cut off.
Ellipsis == 0

\* The path of a name is that of its parent and its own, cut when it is too long.
\* Only the name that was cut is marked, not what is below it.
Child(parent, i, size) ==
    IF parent.size + 2 + size <= kMaxPath THEN [size |-> parent.size + 2 + size, steps |-> Append(parent.steps, i), path_truncated |-> FALSE]
    ELSE [size |-> 5 + (IF parent.size < kMaxPath - 5 THEN parent.size ELSE kMaxPath - 5), steps |-> Append(parent.steps, Ellipsis), path_truncated |-> TRUE]

CanonicalPaths(x) ==
    LET path[i \in DOMAIN x.names] ==
            IF x.names[i].parent = 0 THEN [size |-> NameSize(x, i), steps |-> <<i>>, path_truncated |-> FALSE]
            ELSE Child(path[x.names[i].parent], i, NameSize(x, i))
    IN path

\* URI, code, line starts, import URI and coverage references of one source.
SourceSize(s) ==
    DirectSize(s.uri) + u30(s.code) + s.code + u30(Len(s.lines)) + AllU30(s.lines) + DirectSize(s.import)
    + u30(Len(s.coverage)) + AllU30(s.coverage)

SourceStart(x, i) == Source(x) + 4 + SumOver(i - 1, LAMBDA j : SourceSize(x.sources[j]))

\* The starts of the lines are sums of what is stored and must not wrap around.
SourceFits(x, s) ==
    /\ read_kernel_direct_string(s.uri) /\ read_kernel_direct_string(s.import)
    /\ SumOver(Len(s.lines), LAMBDA i : s.lines[i]) < WordLimit
    /\ Len(s.coverage) <= Len(x.names) /\ \A k \in DOMAIN s.coverage : s.coverage[k] \in 1 .. Len(x.names)

\* Every source has a URI of its own, as decoded; behind the sources stands where
\* each of them begins.
parse_kernel_source_table(x) ==
    LET n == Len(x.sources)
        uri == [i \in 1 .. n |-> decode_kernel_wtf8(x.sources[i].uri).text]
    IN /\ n <= kMaxSources
       /\ SumOver(n, LAMBDA i : x.sources[i].code) <= kMaxSourceBytes
       /\ SumOver(n, LAMBDA i : Len(x.sources[i].lines)) <= kMaxLineStarts
       /\ \A i, j \in 1 .. n : i # j => uri[i] # uri[j]
       /\ \A i \in 1 .. n : SourceFits(x, x.sources[i]) /\ x.starts[i] = SourceStart(x, i)
       /\ SourceStart(x, n + 1) + 4 * n = Constant(x)

\* Tag, name, URI, three offsets, two kinds and flags, and then a body.
ProcedurePrefix(p) == 1 + u30(p.name) + u30(p.uri) + AllU30(p.positions) + 2 + u30(p.flags)

parse_kernel_procedure_prefix(x, p, end) ==
    /\ p.tag_ok /\ p.name \in 1 .. Len(x.names) /\ p.uri < Len(x.sources)
    /\ p.off + ProcedurePrefix(p) < end

OffsetsFit(offs, start, index) == Sorted(offs) /\ \A i \in DOMAIN offs : offs[i] >= start /\ offs[i] <= index

IndexWords(l) == Len(l.classes) + Len(l.procs) + 2

LibraryIndex(x, i) == x.libraries[i + 1] - 4 * IndexWords(x.library[i])

LibraryPrefix(l) ==
    1 + AllU30(l.language) + u30(l.name) + u30(l.string) + u30(l.uri)
    + u30(Len(l.problems)) + SumOver(Len(l.problems), LAMBDA i : DirectSize(l.problems[i]))

\* The index of a library is at its end: where its classes and its procedures
\* begin, and where the last of them ends.
LibraryIndexFits(x, i) ==
    LET l == x.library[i]   start == x.libraries[i]   end == x.libraries[i + 1]   index == LibraryIndex(x, i)
        offs == [k \in DOMAIN l.procs |-> l.procs[k].off]
    IN /\ end - start >= 16 /\ IndexWords(l) <= (end - start) \div 4
       /\ OffsetsFit(l.classes, start, index) /\ OffsetsFit(offs, start, index)
       /\ \A k \in 1 .. Len(l.procs) - 1 : parse_kernel_procedure_prefix(x, l.procs[k], offs[k + 1])

\* Its prefix is at the beginning; the root is the parent of its name.
LibraryFits(x, i) ==
    LET l == x.library[i]
    IN /\ LibraryIndexFits(x, i)
       /\ \A k \in DOMAIN l.language : l.language[k] <= 1000
       /\ l.name \in 1 .. Len(x.names) /\ x.names[l.name].parent = 0
       /\ l.string < Len(x.strings) /\ l.uri < Len(x.sources)
       /\ Len(l.problems) <= MaxProblems /\ \A k \in DOMAIN l.problems : read_kernel_direct_string(l.problems[k])
       /\ x.libraries[i] + LibraryPrefix(l) <= LibraryIndex(x, i)

Indexed(x, i) == SumOver(i, LAMBDA j : Len(x.library[j].classes) + Len(x.library[j].procs) - 2)

parse_kernel_library_prefixes(x) ==
    \A i \in DOMAIN x.library : Indexed(x, i) <= kMaxIndexedNodes /\ LibraryFits(x, i)

parse_kernel_deep_metadata(x) ==
    /\ parse_kernel_string_table(x)
    /\ parse_kernel_constant_index(x)
    /\ parse_kernel_canonical_table(x)
    /\ parse_kernel_source_table(x)
    /\ parse_kernel_library_prefixes(x)

DeepRanges(x) ==
    [i \in DOMAIN x.strings |-> StringRange(x, i)] \o [i \in DOMAIN x.constants |-> ConstantRange(x, i)]
    \o [i \in DOMAIN x.sources |-> range(SourceStart(x, i), SourceSize(x.sources[i]))]
    \o [i \in DOMAIN x.library |-> range(x.libraries[i], x.libraries[i + 1] - x.libraries[i])]

parse_dart_kernel(x) ==
    IF ~x.magic THEN Absent
    ELSE IF ~IndexFits(x) THEN Failed
    ELSE IF ~deep_metadata_supported(x) THEN Confirmed(<<>>)
    ELSE IF parse_kernel_deep_metadata(x) THEN Confirmed(DeepRanges(x)) @@ [paths |-> CanonicalPaths(x)]
    ELSE Failed

kSnapshotHeaderSize == 20

kSnapshotHashSize == 32

\* Words between blanks.
split_features(cs) == {i \in DOMAIN cs : cs[i] # "blank" /\ (i = 1 \/ cs[i - 1] = "blank")}

\* The features, up to a zero that must come before the end and the limit.
Features(x, end) ==
    LET first == x.off + kSnapshotHeaderSize + kSnapshotHashSize
        room == IF end < first + kMaxFeatures + 1 THEN end - first ELSE kMaxFeatures + 1
        stop == FirstWhere(Len(x.chars), LAMBDA i : x.chars[i] \in {"zero", "other"})
    IN IF stop = 0 \/ stop > room \/ x.chars[stop] = "other" THEN <<>> ELSE SubSeq(x.chars, 1, stop - 1)

\* A snapshot is as long as it says plus its magic, within the bytes there are.
\* Its length is signed, which is why no positive one is too large for the magic
\* to be added.
parse_dart_snapshot(x) ==
    LET left == x.size - x.off
        available == IF x.avail = 0 \/ x.avail > left THEN left ELSE x.avail
        length == x.stored + 4
    IN IF x.off > x.size \/ available < 4 \/ ~x.magic THEN Absent
       ELSE IF \/ available < kSnapshotHeaderSize
               \/ x.stored < kSnapshotHeaderSize + kSnapshotHashSize + 1 - 4 \/ length > available
               \/ x.kind \notin 0 .. 5 \/ ~x.hash_ok
               \/ split_features(Features(x, x.off + length)) = {}
       THEN Failed
       ELSE Confirmed(<<range(x.off, length)>>)

-----------------------------------------------------------------------------

\* A file is laid out from what it holds, its libraries behind a header of 18 bytes.
AsciiText == <<"a">>

Cumulative(sizes) == [i \in 1 .. Len(sizes) + 1 |-> SumOver(i - 1, LAMBDA j : sizes[j])]

SizeOfConstant == [null |-> 1, bool |-> 2, string |-> 2, other |-> 3, unknown |-> 1]

LibrarySize(l) == l.body + 4 * IndexWords(l)

Placed(l, at) ==
    [l EXCEPT !.classes = [i \in DOMAIN l.classes |-> l.classes[i] + at], !.procs = [i \in DOMAIN l.procs |-> [l.procs[i] EXCEPT !.off = @ + at]]]

RoundedUp(n) == 8 * ((n + 7) \div 8)

ConstantsOf(c) == Cumulative([i \in DOMAIN c.constants |-> SizeOfConstant[c.constants[i].tag]])

\* The tables behind the libraries, which end at sources.
TablesOf(c, sources) ==
    LET constants == SourceStart([tables |-> <<sources>>, sources |-> c.sources], Len(c.sources) + 1) + 4 * Len(c.sources)
        index == constants + 1 + Last(ConstantsOf(c))
        names == index + 4 * (Len(c.constants) + 1)
        payloads == RoundedUp(CanonicalEnd([tables |-> <<0, 0, 0, names>>, names |-> c.names]))
    IN <<sources, constants, index, names, payloads, payloads + 4, payloads + 8>>

Ends(c) == Tail(Cumulative([i \in DOMAIN c.texts |-> ByteSize(c.texts[i])]))

Assembled(c, at, tables) ==
    LET strings == [i \in DOMAIN c.texts |-> [end |-> Ends(c)[i], text |-> c.texts[i]]]
        index == StringData([tables |-> tables, strings |-> strings]) + (IF c.texts = <<>> THEN 0 ELSE Last(Ends(c)))
        size == RoundedUp(index + 4 * (12 + Len(c.library)))
    IN [part |-> "kernel", size |-> size, magic |-> TRUE, version |-> c.version, hash_ok |-> TRUE, file_size |-> size, index_zero |-> TRUE,
        index |-> index, libraries |-> at, tables |-> tables, strings |-> strings, stored_count |-> Len(c.constants),
        constants |-> [i \in DOMAIN c.constants |-> [rel |-> 1 + ConstantsOf(c)[i], tag |-> c.constants[i].tag, value |-> c.constants[i].value]],
        names |-> c.names, names_zero |-> TRUE, sources |-> c.sources,
        starts |-> [i \in DOMAIN c.sources |-> SourceStart([tables |-> tables, sources |-> c.sources], i)],
        library |-> [i \in DOMAIN c.library |-> Placed(c.library[i], at[i])]]

LibrariesOf(c) == [i \in 1 .. Len(c.library) + 1 |-> 18 + SumOver(i - 1, LAMBDA j : LibrarySize(c.library[j]))]

FileOf(c, at) == Assembled(c, at, TablesOf(c, Last(at)))

KernelFile(c) == FileOf(c, LibrariesOf(c))

Proc(off) == [off |-> off, tag_ok |-> TRUE, name |-> 2, uri |-> 0, positions |-> <<0, 1, 2>>, flags |-> 0]

Lib ==
    [body |-> 19, classes |-> <<7, 9>>, procs |-> <<Proc(9), Proc(19)>>, language |-> <<3, 0>>, name |-> 1, string |-> 0, uri |-> 0, problems |-> <<>>]

Src == [uri |-> AsciiText, code |-> 2, lines |-> <<0, 2>>, import |-> <<>>, coverage |-> <<2>>]

Const(tag, value) == [tag |-> tag, value |-> value]

Name(parent, string) == [parent |-> parent, string |-> string]

Content ==
    [version |-> 138, texts |-> <<AsciiText, <<"ed", "xa0", "x80">>>>, constants |-> <<Const("null", 0), Const("string", 1)>>,
     names |-> <<Name(0, 0), Name(1, 1)>>, sources |-> <<Src>>, library |-> <<Lib>>]

FirstTexts ==
    {<<>>, <<"a", "a">>, <<"c2", "x80">>, <<"c2">>, <<"e0", "x80", "x80">>, <<"e0", "xa0", "x80">>, <<"e1", "x80", "a">>, <<"ed", "x80", "x80">>, <<"f0", "x80", "x80", "x80">>,
     <<"f0", "x90", "x80", "x80">>, <<"f1", "x80", "x80">>, <<"f4", "x80", "xa0", "x90">>, <<"f4", "x90", "x80", "x80">>, <<"x80">>, <<"ff">>, <<"escape">>}

\* Files that hold something else, in at most two of their parts.
ContentAlt ==
    [version |-> {0, 100, 139, 10001},
     texts |-> {<<>>, <<AsciiText>>, <<AsciiText, <<"ed", "xa0", "x80", "ed", "xa0", "x90">>>>, <<AsciiText, AsciiText, AsciiText, AsciiText>>} \cup {<<t, AsciiText>> : t \in FirstTexts},
     constants |-> {<<>>, <<Const("bool", 1), Const("other", 0)>>, <<Const("bool", 2)>>, <<Const("unknown", 0)>>, <<Const("string", 2)>>,
                    <<Const("null", 0), Const("null", 0), Const("null", 0), Const("null", 0)>>},
     names |-> {<<>>, <<Name(1, 0), Name(0, 1)>>, <<Name(0, 2)>>, <<Name(0, 0), Name(0, 0)>>, <<Name(0, 0), Name(1, 1), Name(2, 0)>>,
                <<Name(0, 0), Name(1, 1), Name(2, 1)>>, <<Name(0, 0), Name(1, 0), Name(2, 0), Name(3, 0)>>},
     sources |-> {<<>>, <<[Src EXCEPT !.lines = <<WordLimit - 1, 1>>]>>, <<[Src EXCEPT !.lines = <<WordLimit - 1>>, !.code = 130]>>, <<[Src EXCEPT !.lines = <<0, 0, 0, 0>>]>>,
                  <<Src, [Src EXCEPT !.uri = <<"c2", "xa0">>, !.lines = <<0, 1>>]>>, <<Src, Src>>, <<[Src EXCEPT !.uri = <<"escape">>], [Src EXCEPT !.uri = <<"ed", "xa0", "x90">>]>>,
                  <<[Src EXCEPT !.coverage = <<0>>]>>, <<[Src EXCEPT !.coverage = <<1, 3>>]>>, <<[Src EXCEPT !.coverage = <<1, 1, 1>>]>>, <<[Src EXCEPT !.import = <<"c2", "a">>]>>,
                  <<[Src EXCEPT !.code = 200]>>, <<[Src EXCEPT !.import = <<"escape", "escape">>]>>, <<Src, [Src EXCEPT !.uri = <<>>], [Src EXCEPT !.uri = <<"a", "a">>]>>},
     library |-> {<<>>, <<Lib, Lib>>, <<Lib, [Lib EXCEPT !.classes = <<7, 8, 9>>]>>, <<Lib, Lib, Lib>>, <<[Lib EXCEPT !.classes = <<7, 30>>]>>, <<[Lib EXCEPT !.classes = <<9, 7>>]>>,
                  <<[Lib EXCEPT !.procs = <<Proc(19)>>]>>, <<[Lib EXCEPT !.procs = <<Proc(9), Proc(18)>>]>>, <<[Lib EXCEPT !.procs[1].flags = 200]>>,
                  <<[Lib EXCEPT !.procs[1].flags = 200, !.body = 20, !.procs[2].off = 20]>>, <<[Lib EXCEPT !.procs[1].tag_ok = FALSE]>>, <<[Lib EXCEPT !.procs[1].name = 0]>>,
                  <<[Lib EXCEPT !.procs[1].uri = 1]>>, <<[Lib EXCEPT !.language = <<1001, 0>>]>>, <<[Lib EXCEPT !.name = 2]>>, <<[Lib EXCEPT !.name = 0]>>, <<[Lib EXCEPT !.string = 2]>>,
                  <<[Lib EXCEPT !.uri = 1]>>, <<[Lib EXCEPT !.problems = <<AsciiText, <<>>>>]>>, <<[Lib EXCEPT !.problems = <<<<"ff">>>>]>>,
                  <<[Lib EXCEPT !.problems = <<<<>>, <<>>, <<>>>>]>>, <<[Lib EXCEPT !.problems = <<<<"escape", "escape">>>>]>>,
                  <<[Lib EXCEPT !.body = 7, !.classes = <<7>>, !.procs = <<Proc(7)>>]>>, <<[Lib EXCEPT !.body = 6, !.classes = <<6>>, !.procs = <<Proc(6)>>]>>}]

KernelBase == KernelFile(Content)

\* One word of the file is another.
KernelFaults(x) ==
    {[x EXCEPT !.magic = FALSE], [x EXCEPT !.hash_ok = FALSE], [x EXCEPT !.file_size = @ + 8], [x EXCEPT !.size = @ + 4, !.file_size = @ + 4],
     [x EXCEPT !.size = @ + 8, !.file_size = @ + 8], [x EXCEPT !.index_zero = FALSE], [x EXCEPT !.names_zero = FALSE], [x EXCEPT !.stored_count = 1],
     [x EXCEPT !.index = @ - 1], [x EXCEPT !.index = @ + 8], [x EXCEPT !.size = 48, !.file_size = 48], [x EXCEPT !.libraries[1] = 7],
     [x EXCEPT !.libraries[1] = @ - 4], [x EXCEPT !.libraries[1] = @ + 1], [x EXCEPT !.libraries[1] = @ + 28], [x EXCEPT !.libraries[2] = @ - 1],
     [x EXCEPT !.strings[1].end = @ + 1], [x EXCEPT !.strings[1].end = kMaxStringBytes], [x EXCEPT !.constants[2].rel = 1], [x EXCEPT !.constants[2].rel = 4],
     [x EXCEPT !.constants[1].rel = 2], [x EXCEPT !.starts[1] = @ + 1]}
    \cup {[x EXCEPT !.tables[i] = @ + d] : i \in 1 .. 7, d \in {-8, -1, 1, 8}}

KernelInput(x) ==
    \/ x \in KernelFaults(KernelBase)
    \/ \E c \in Variants(Content, ContentAlt) : x = KernelFile(c)

SnapshotBase ==
    [part |-> "snapshot", size |-> 70, off |-> 2, avail |-> 58, magic |-> TRUE, stored |-> 52, kind |-> 2, hash_ok |-> TRUE,
     chars |-> <<"letter", "blank", "letter", "zero">>]

SnapshotAlt ==
    [size |-> {2, 6, 60, 58}, off |-> {0, 5, 71}, avail |-> {0, 3, 56, 100}, magic |-> {FALSE}, stored |-> {-1, 48, 49, 50, 54, 100},
     kind |-> {-1, 6}, hash_ok |-> {FALSE},
     chars |-> {<<"zero">>, <<"blank", "zero">>, <<"letter", "zero">>, <<"letter", "other">>, <<"letter", "letter", "letter", "letter", "zero">>,
                <<"blank", "blank", "letter", "zero">>, <<"letter">>}]

\* A Kernel file that is confirmed in depth: strings, constants (if there are
\* any) and sources tile their tables without gap, classes and procedures lie in their library behind
\* each other, and a path in which nothing was cut off leads from a root to its name.
KernelExact(x, r) ==
    r.valid /\ deep_metadata_supported(x) =>
        /\ Disjoint(r.ranges)
        /\ x.constants # <<>> => SumOver(Len(x.constants), LAMBDA i : ConstantRange(x, i).len) = ConstantIndex(x) - Constant(x) - u30(Len(x.constants))
        /\ SumOver(Len(x.strings), LAMBDA i : StringRange(x, i).len) = x.index - StringData(x)
        /\ SumOver(Len(x.sources), LAMBDA i : SourceSize(x.sources[i]) + 4) + 4 = Constant(x) - Source(x)
        /\ \A i \in DOMAIN x.library :
              LET l == x.library[i]
              IN /\ \A k \in DOMAIN l.classes : l.classes[k] \in x.libraries[i] .. x.libraries[i + 1] - 16
                 /\ Disjoint([k \in 1 .. Len(l.procs) - 1 |-> range(l.procs[k].off, ProcedurePrefix(l.procs[k]))])
                 /\ \A k \in 1 .. Len(l.procs) - 1 : l.procs[k].off + ProcedurePrefix(l.procs[k]) < x.libraries[i + 1] - 16
        /\ \A i \in DOMAIN x.names :
              LET steps == r.paths[i].steps
              IN /\ x.names[i].parent < i /\ (r.paths[i].size <= kMaxPath \/ Len(steps) = 1)
                 /\ (r.paths[i].path_truncated => Ellipsis \in Range(steps))
                 /\ Ellipsis \notin Range(steps) =>
                       /\ Last(steps) = i /\ x.names[steps[1]].parent = 0
                       /\ \A k \in 2 .. Len(steps) : x.names[steps[k]].parent = steps[k - 1]

\* Snapshot and features lie within the bytes that contain them.
SnapshotExact(x, r) ==
    r.valid => /\ x.avail = 0 \/ x.stored + 4 <= x.avail
               /\ x.off + x.stored + 4 <= x.size
               /\ \E n \in 1 .. kMaxFeatures : /\ n + 1 <= Len(x.chars) /\ x.chars[n + 1] = "zero"
                                               /\ kSnapshotHeaderSize + kSnapshotHashSize + n < x.stored + 4
                                               /\ \A i \in 1 .. n : x.chars[i] \in {"letter", "blank"}

---------------------------------------------------------------------------
(* Ahead-of-time snapshots in ELF files (detect_dart): program headers, the *)
(* dynamic table, the hash tables the loader would use, the symbols of the  *)
(* snapshots and the segments they are in.                                  *)

\* x.segments: [load, flags, off, va, fsz, msz, align_ok].
power_of_two(s) == s.align_ok

SegmentFits(x, s) == power_of_two(s) /\ s.fsz <= s.msz /\ span_in_bounds(x.size, s.off, s.fsz)

Loads(x) == SelectSeq(x.segments, LAMBDA s : s.load)

parse_program_layout(x) ==
    /\ x.headers_ok /\ x.segments # <<>>
    /\ \A i \in DOMAIN x.segments : SegmentFits(x, x.segments[i])
    /\ x.common_agrees /\ Loads(x) # <<>>

NoMap == [ok |-> FALSE, off |-> 0, available |-> 0]

\* The first segment whose file part holds the address.
map_va(x, va) ==
    LET l == Loads(x)
        i == FirstWhere(Len(l), LAMBDA k : va >= l[k].va /\ va - l[k].va < l[k].fsz)
    IN IF i = 0 THEN NoMap
       ELSE [ok |-> TRUE, off |-> l[i].off + (va - l[i].va), available |-> l[i].fsz - (va - l[i].va)]

\* The first segment whose memory holds the range; 0 if there is none.
contained_in_load(x, va, len) ==
    LET l == Loads(x)
    IN FirstWhere(Len(l), LAMBDA k : va >= l[k].va /\ span_in_bounds(l[k].msz, va - l[k].va, len))

Backed(x, va, len) == map_va(x, va).ok /\ len <= map_va(x, va).available

\* The number of symbols a GNU hash table reaches: chains run from a bucket
\* to the first entry with its low bit set.
ChainEnd(x, b) ==
    LET n == Len(x.gnu.chains)
    IN FirstWhere(n, LAMBDA k : k >= b - x.gnu.symoffset + 1 /\ x.gnu.chains[k].last)

gnu_hash_count(x) ==
    LET reach == {x.gnu.symoffset} \cup
                 {ChainEnd(x, b) + x.gnu.symoffset : b \in {c \in ToSet(x.gnu.buckets) : c # 0}}
    IN IF \/ x.gnu.buckets = <<>> \/ ~x.gnu.backed
          \/ \E b \in ToSet(x.gnu.buckets) \ {0} : b < x.gnu.symoffset \/ ChainEnd(x, b) = 0
       THEN Bad ELSE CHOOSE n \in reach : \A m \in reach : m <= n

\* The count comes from the SysV table where there is one, else from the GNU
\* table, which must not reach further.
SymbolCount(x) ==
    IF x.sysv.present THEN Len(x.sysv.chains) ELSE IF x.gnu.present THEN gnu_hash_count(x) ELSE 0

parse_dynamic(x) ==
    /\ Len(SelectSeq(x.segments, LAMBDA s : ~s.load)) = 1
    /\ x.terminated /\ x.tags_ok /\ Backed(x, x.strtab, 1) /\ Backed(x, x.symtab, 1)
    /\ x.sysv.present => x.sysv.backed /\ x.sysv.buckets # <<>> /\ x.sysv.chains # <<>>
    /\ x.gnu.present => gnu_hash_count(x) # Bad /\ (x.sysv.present => gnu_hash_count(x) <= Len(x.sysv.chains))
    /\ SymbolCount(x) > 0 /\ SymbolCount(x) <= map_va(x, x.symtab).available

Snap == [ok |-> TRUE, kind |-> 2, product |-> TRUE, arch |-> {"x64"}, contract |-> 1]

Sym(name, value, len) ==
    [name |-> name, value |-> value, len |-> len, defined |-> TRUE, object |-> TRUE, name_ok |-> TRUE, snapshot |-> Snap]

\* The symbols the table is said to have, each with a name that ends in its
\* string table; index 0 is the null symbol.  What lies behind the symbols of
\* the file reads as symbols of no interest.
parse_dyn_symbols(x) ==
    [i \in 1 .. SymbolCount(x) |-> IF i <= Len(x.symbols) THEN x.symbols[i] ELSE Sym("other", 0, 0)]

Dyn(x, i) == parse_dyn_symbols(x)[i + 1]

NamesEnd(x) == \A s \in ToSet(parse_dyn_symbols(x)) : s.name_ok

Names == <<"data", "text", "vmdata", "vmtext", "isodata", "isotext", "_vmdata", "_vmtext", "_isodata", "_isotext", "build", "bss", "other">>

Underscored == [vmdata |-> "_vmdata", vmtext |-> "_vmtext", isodata |-> "_isodata", isotext |-> "_isotext"]

\* Any function of the name serves as its hash.
elf_sysv_hash(name) == CHOOSE i \in 1 .. Len(Names) : Names[i] = name

\* Walking a chain from its bucket, as many steps as there are entries: what
\* is found under the name must be this symbol.
sysv_hash_resolves(x, t) ==
    LET n == Len(x.sysv.chains)
        syms == parse_dyn_symbols(x)
        b == x.sysv.buckets[1 + (elf_sysv_hash(syms[t + 1].name) % Len(x.sysv.buckets))]
        walk[k \in 0 .. n] == IF k = 0 THEN b
                              ELSE IF walk[k - 1] \in 1 .. n - 1 THEN x.sysv.chains[walk[k - 1] + 1] ELSE 0
        hit == FirstWhere(n, LAMBDA k : walk[k - 1] \notin 1 .. Len(syms) - 1 \/ syms[walk[k - 1] + 1].name = syms[t + 1].name)
    IN hit # 0 /\ walk[hit - 1] = t

gnu_hash_resolves(x, t) ==
    LET syms == parse_dyn_symbols(x)
        name == syms[t + 1].name
        b == x.gnu.buckets[1 + (elf_sysv_hash(name) % Len(x.gnu.buckets))]
        stop == FirstWhere(Len(syms), LAMBDA k :
                    LET idx == b + k - 1
                    IN \/ idx >= Len(syms)
                       \/ syms[idx + 1].name = name /\ x.gnu.chains[idx - x.gnu.symoffset + 1].hash = elf_sysv_hash(name)
                       \/ x.gnu.chains[idx - x.gnu.symoffset + 1].last)
    IN x.gnu.bloom /\ b # 0 /\ b >= x.gnu.symoffset /\ stop # 0 /\ b + stop - 1 = t /\ t < Len(syms)
       /\ x.gnu.chains[t - x.gnu.symoffset + 1].hash = elf_sysv_hash(name)

\* Every hash table there is finds the symbol.
target_hash_resolves(x, t) ==
    /\ x.sysv.present \/ x.gnu.present
    /\ x.sysv.present => sysv_hash_resolves(x, t)
    /\ x.gnu.present => gnu_hash_resolves(x, t)

target_symbol(s) == s.name # "other" /\ s.name # ""

Targets(x) == {i \in 0 .. SymbolCount(x) - 1 : target_symbol(Dyn(x, i))}

\* Flags are those of the segment whose memory holds the symbol, the range is
\* that of the segment whose file part holds its address.
AotPlaced(x, s) ==
    [flags |-> LET i == contained_in_load(x, s.value, s.len) IN Loads(x)[i].flags,
     backed |-> Backed(x, s.value, s.len),
     at |-> range(map_va(x, s.value).off, s.len)]

TargetFits(x, i) ==
    LET s == Dyn(x, i)
    IN /\ \A j \in Targets(x) : j # i => Dyn(x, j).name # s.name
       /\ s.object /\ target_hash_resolves(x, i)
       /\ s.defined /\ s.value # 0 /\ s.len # 0 /\ contained_in_load(x, s.value, s.len) # 0

\* validate_symbol_geometry has placed every target; a role is taken by the
\* plain name before the one with an underscore.
symbol(x, name) == {i \in Targets(x) : Dyn(x, i).name = name}

snapshot_symbol(x, name) == IF symbol(x, name) # {} THEN symbol(x, name) ELSE symbol(x, Underscored[name])

Data(x, role) == LET i == CHOOSE i \in role : TRUE IN AotPlaced(x, Dyn(x, i))

Snapshot(x, role) == LET i == CHOOSE i \in role : TRUE IN Dyn(x, i).snapshot

validate_aot_data_symbol(x, role) ==
    LET p == Data(x, role)
    IN p.backed /\ p.flags = {"R"} /\ Snapshot(x, role).ok /\ Snapshot(x, role).kind \in {2, 3} /\ Snapshot(x, role).product

validate_aot_text_symbol(x, role) == Data(x, role).backed /\ Data(x, role).flags = {"R", "X"}

validate_optional_support_symbols(x) ==
    /\ symbol(x, "build") # {} => Data(x, symbol(x, "build")).backed /\ Data(x, symbol(x, "build")).flags = {"R"}
    /\ symbol(x, "bss") # {} => Data(x, symbol(x, "bss")).flags = {"R", "W"}

\* At most one architecture among the features, and that of the file.
check_architecture_feature(x, roles) ==
    \A role \in roles : Snapshot(x, role).arch \in {{}, {x.arch}}

PairFits(x, d, t) == validate_aot_data_symbol(x, d) /\ validate_aot_text_symbol(x, t)

StandaloneValid(x) ==
    LET d == symbol(x, "data")   t == symbol(x, "text")
    IN d # {} /\ t # {} /\ PairFits(x, d, t) /\ check_architecture_feature(x, {d}) /\ validate_optional_support_symbols(x)

\* Complete pairs for every role that is there, one at least, and the two
\* snapshots agree.
FlutterPairs(x, vd, vt, id, it) ==
    /\ (vd = {}) = (vt = {}) /\ (id = {}) = (it = {}) /\ (vd # {} \/ id # {})
    /\ vd # {} => PairFits(x, vd, vt)
    /\ id # {} => PairFits(x, id, it)
    /\ vd # {} /\ id # {} => Snapshot(x, vd).contract = Snapshot(x, id).contract
    /\ check_architecture_feature(x, {r \in {vd, id} : r # {}})
    /\ validate_optional_support_symbols(x)

FlutterValid(x) ==
    FlutterPairs(x, snapshot_symbol(x, "vmdata"), snapshot_symbol(x, "vmtext"), snapshot_symbol(x, "isodata"), snapshot_symbol(x, "isotext"))

\* Unrelated ELF files are not candidates; a standalone pair that fails is not
\* redeemed by the other kind of pair.
detect_dart(x) ==
    IF \/ ~x.elf \/ ~parse_program_layout(x) \/ ~parse_dynamic(x) \/ ~NamesEnd(x) \/ Targets(x) = {}
    THEN Absent ELSE
    IF ~x.shared \/ \E i \in Targets(x) : ~TargetFits(x, i) THEN Failed ELSE
    IF \/ (symbol(x, "data") \cup symbol(x, "text") # {} /\ StandaloneValid(x))
       \/ (symbol(x, "data") \cup symbol(x, "text") = {} /\ FlutterValid(x))
    THEN Confirmed(SetToSeq({AotPlaced(x, Dyn(x, i)).at : i \in {j \in Targets(x) :
                                 AotPlaced(x, Dyn(x, j)).backed}}))
    ELSE Failed

-----------------------------------------------------------------------------

Seg(load, flags, off, va, fsz, msz) ==
    [load |-> load, flags |-> flags, off |-> off, va |-> va, fsz |-> fsz, msz |-> msz, align_ok |-> TRUE]

NullSym == [Sym("", 0, 0) EXCEPT !.defined = FALSE]

\* One bucket: a SysV chain through all symbols, a GNU chain likewise.
ChainOf(n) == [present |-> TRUE, backed |-> TRUE, buckets |-> <<1>>, chains |-> [i \in 1 .. n |-> IF i \in {1, n} THEN 0 ELSE i]]

GnuOf(syms) ==
    [present |-> TRUE, backed |-> TRUE, bloom |-> TRUE, symoffset |-> 1, buckets |-> <<1>>,
     chains |-> [i \in 1 .. Len(syms) - 1 |-> [hash |-> elf_sysv_hash(syms[i + 1].name), last |-> i = Len(syms) - 1]]]

Flutter == <<NullSym, Sym("vmdata", 1, 2), Sym("vmtext", 11, 2), Sym("isodata", 3, 2), Sym("isotext", 13, 2)>>

Standalone == <<NullSym, Sym("data", 1, 2), Sym("text", 11, 2), Sym("build", 4, 2), Sym("bss", 22, 3)>>

AotBase ==
    [part |-> "aot", size |-> 20, elf |-> TRUE, shared |-> TRUE, headers_ok |-> TRUE, common_agrees |-> TRUE, arch |-> "x64",
     segments |-> <<Seg(TRUE, {"R"}, 0, 1, 8, 8), Seg(TRUE, {"R", "X"}, 8, 11, 6, 6), Seg(TRUE, {"R", "W"}, 14, 21, 1, 5),
                    Seg(FALSE, {"R"}, 15, 30, 3, 3)>>,
     terminated |-> TRUE, tags_ok |-> TRUE, strtab |-> 1, symtab |-> 1, sysv |-> ChainOf(5), gnu |-> GnuOf(Flutter), symbols |-> Flutter]

AotAlt ==
    [size |-> {17, 14}, elf |-> {FALSE}, shared |-> {FALSE}, headers_ok |-> {FALSE}, common_agrees |-> {FALSE}, arch |-> {"arm"},
     segments |-> {<<Seg(TRUE, {"R"}, 0, 1, 8, 8), Seg(TRUE, {"R", "X"}, 8, 11, 6, 6)>>,
                   <<Seg(TRUE, {"R"}, 0, 1, 4, 8), Seg(TRUE, {"R", "X"}, 8, 11, 6, 6), Seg(FALSE, {"R"}, 15, 30, 3, 3)>>,
                   <<Seg(TRUE, {"R"}, 0, 1, 8, 8), Seg(TRUE, {"R", "X", "W"}, 8, 11, 6, 6), Seg(FALSE, {"R"}, 15, 30, 3, 3)>>,
                   <<Seg(TRUE, {"R"}, 0, 1, 8, 8), Seg(TRUE, {"R", "X"}, 8, 11, 2, 6), Seg(FALSE, {"R"}, 15, 30, 3, 3)>>,
                   <<Seg(TRUE, {"R"}, 0, 1, 8, 6), Seg(FALSE, {"R"}, 15, 30, 3, 3)>>},
     terminated |-> {FALSE}, tags_ok |-> {FALSE}, strtab |-> {0, 22}, symtab |-> {6, 22},
     sysv |-> {[ChainOf(5) EXCEPT !.present = FALSE], [ChainOf(5) EXCEPT !.buckets = <<2>>], ChainOf(4), ChainOf(6),
               [ChainOf(5) EXCEPT !.chains = <<0, 2, 1, 4, 0>>], [ChainOf(5) EXCEPT !.chains = <<0, 4, 3, 0, 2>>], [ChainOf(5) EXCEPT !.buckets = <<>>]},
     gnu |-> {[GnuOf(Flutter) EXCEPT !.present = FALSE], [GnuOf(Flutter) EXCEPT !.bloom = FALSE], GnuOf(Standalone),
              [GnuOf(Flutter) EXCEPT !.buckets = <<2>>], [GnuOf(Flutter) EXCEPT !.chains[2].last = TRUE],
              [GnuOf(Flutter) EXCEPT !.chains[4].last = FALSE], [GnuOf(Flutter) EXCEPT !.symoffset = 2]},
     symbols |-> {Standalone, [Flutter EXCEPT ![4] = Sym("_vmdata", 3, 2)], [Flutter EXCEPT ![4] = Sym("vmdata", 3, 2)],
                  [Flutter EXCEPT ![4] = Sym("other", 0, 0), ![5] = Sym("other", 0, 0)], [Flutter EXCEPT ![2].len = 9],
                  [Flutter EXCEPT ![3].value = 22], [Flutter EXCEPT ![4].snapshot.contract = 2], [Flutter EXCEPT ![2].snapshot.product = FALSE],
                  [Flutter EXCEPT ![2].snapshot.arch = {"x64", "arm"}], [Flutter EXCEPT ![4].snapshot.arch = {}],
                  [Flutter EXCEPT ![5].name_ok = FALSE], [Flutter EXCEPT ![5].object = FALSE], [Flutter EXCEPT ![5].defined = FALSE]}]

\* In a file whose segments do not share file or memory, the data and the code
\* of a confirmed snapshot are apart, data is never writable or executable,
\* code never writable, and no other symbol has the name of a target.
AotExact(x, r) ==
    r.valid =>
        /\ \A i, j \in Targets(x) :
              LET p == AotPlaced(x, Dyn(x, i))   q == AotPlaced(x, Dyn(x, j))
              IN /\ p.flags = {"R"} /\ q.flags = {"R", "X"} => p.backed /\ q.backed /\ ~Overlap(p.at, q.at)
                 /\ "W" \in p.flags => Dyn(x, i).name = "bss"
        /\ \A i \in Targets(x) : \A k \in 0 .. SymbolCount(x) - 1 : Dyn(x, k).name = Dyn(x, i).name => k = i
=============================================================================
