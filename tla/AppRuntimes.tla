------------------------------ MODULE AppRuntimes ------------------------------
(***************************************************************************)
(* Files of application runtimes.                                          *)
(*                                                                         *)
(* Hermes bytecode (extract/hermes.cpp): a header with counts, tables one  *)
(* behind the other on aligned offsets, function bodies that may be shared *)
(* but not overlap otherwise, function information, a debug section that   *)
(* must end at the footer, and a hash over everything before it.  Table    *)
(* entries, the footer and the large function header are one unit long,    *)
(* the header two, alignment is to two.  ok says that bytes decode.        *)
(*                                                                         *)
(* V8 code caches (extract/v8_code_cache.cpp): a header of six or seven    *)
(* words in front of a payload that fills the rest of the file.            *)
(*                                                                         *)
(* Flutter asset manifests (extract/flutter.cpp): one value of the         *)
(* StandardMessageCodec, read byte by byte.                                *)
(*                                                                         *)
(* Scripts of an ASAR archive (extract/asar_script.cpp): which native and  *)
(* WebAssembly members a script names in a call.                           *)
(***************************************************************************)
EXTENDS Words, TLC

CONSTANTS kMaxFunctions, kMaxDecodedStringBytes, kMaxOpcodeBytes,
          kMaxCodecNodes, kMaxCodecStringBytes, kMaxCodecDepth,           \* kMaxNodes, kMaxStringBytes, kMaxDepth of the codec
          kScriptCap, kReferenceCap, kScriptBytes, kTotalBytes, InterestingPaths

kHeaderSize == 2

layouts == {89, 96, 98}

PayloadEnd(x) == x.size - 1

align4(n) == n + (n % 2)

segment(cursor, bytes, end) ==
    IF cursor = Bad \/ align4(cursor) + bytes > end THEN Bad ELSE align4(cursor) + bytes

\* Functions, string kinds, identifier hashes, strings, overflow strings,
\* string storage; then buffers, BigInts, RegExps, modules and sources.
Tables(x) ==
    <<Len(x.functions), Len(x.kinds), x.identifiers, Len(x.strings), Len(x.overflow), x.storage>> \o x.rest

\* Where the tables begin: the storage of the strings is the sixth, and the
\* bytecode begins behind the last.
Cursor(x, n) == FoldLeft(LAMBDA c, b : segment(c, b, PayloadEnd(x)), kHeaderSize, SubSeq(Tables(x), 1, n))

Storage(x) == align4(Cursor(x, 5))

BytecodeBegin(x) == Cursor(x, Len(Tables(x)))

HeaderFails(x) ==
    \/ x.size < kHeaderSize + 1 \/ x.length # x.size
    \/ x.functions = <<>> \/ x.global >= Len(x.functions)
    \/ x.identifiers > Len(x.strings) \/ Len(x.overflow) > Len(x.strings)
    \/ ~x.hash_ok

\* The runs of kinds cover the strings exactly.
KindsFail(x) ==
    \/ \E i \in DOMAIN x.kinds : x.kinds[i].count = 0
    \/ SumOver(Len(x.kinds), LAMBDA i : x.kinds[i].count) # Len(x.strings)
    \/ SumOver(Len(x.kinds), LAMBDA i : IF x.kinds[i].ident THEN x.kinds[i].count ELSE 0) # x.identifiers

\* UTF-8 that is not well formed or overlong, UTF-16 with a lone surrogate.
Malformed(s) == ~s.ok

\* An entry of the overflow table is used by one string at most.
StringFails(x, i) ==
    LET s == x.strings[i]
        spilt == s.spill # 0
        e == IF spilt /\ s.spill <= Len(x.overflow) THEN x.overflow[s.spill] ELSE s
    IN \/ spilt /\ s.spill > Len(x.overflow)
       \/ spilt /\ \E j \in 1 .. i - 1 : x.strings[j].spill = s.spill
       \/ ~span_in_bounds(x.storage, e.off, IF s.wide THEN 2 * e.len ELSE e.len)
       \/ Malformed(s)

Decoded(x, i) == IF x.strings[i].spill \in DOMAIN x.overflow THEN x.overflow[x.strings[i].spill].len ELSE x.strings[i].len

Retained(x, i) == SumOver(i, LAMBDA j : Decoded(x, j))

StringsSpent(x, i) == Retained(x, i) > kMaxDecodedStringBytes

NamesRetained(x, i) ==
    Retained(x, Len(x.strings)) + SumOver(i, LAMBDA j : Decoded(x, x.functions[j].name + 1))

FunctionFails(x, i) ==
    LET f == x.functions[i]
    IN \/ f.large # 0 /\ f.large + 1 > PayloadEnd(x)
       \/ f.large # 0 /\ x.version < 98 /\ f.info # f.large
       \/ f.name >= Len(x.strings)

NameSpent(x, i) == NamesRetained(x, i) > kMaxDecodedStringBytes

BodyFails(x, i) ==
    LET f == x.functions[i]
    IN \/ ~checked_add(f.off, f.len) \/ f.off < BytecodeBegin(x) \/ f.off + f.len > PayloadEnd(x)
       \/ f.info # 0 /\ (f.info < BytecodeBegin(x) \/ f.info >= PayloadEnd(x) \/ f.info % 2 # 0)

\* Bodies that do not fit in the budget are not decoded; the smaller ones
\* behind them may still fit.
Decodes(x, n) ==
    FoldLeft(LAMBDA sum, f : IF f.len > kMaxOpcodeBytes - sum THEN sum ELSE sum + f.len, 0, SubSeq(x.functions, 1, n))

Limited(x, n) == \E i \in 1 .. n : x.functions[i].len > kMaxOpcodeBytes - Decodes(x, i - 1)

\* Neighbours in the order of their ranges are disjoint or equal.
BodiesOverlap(x) ==
    LET before(f, g) == f.off < g.off \/ (f.off = g.off /\ f.len < g.len)
        sorted == SortSeq(x.functions, before)
    IN \E i \in 2 .. Len(sorted) :
           /\ sorted[i].off < sorted[i - 1].off + sorted[i - 1].len
           /\ ~(sorted[i].off = sorted[i - 1].off /\ sorted[i].len = sorted[i - 1].len)

BytecodeEnd(x) ==
    LET ends == {f.off + f.len : f \in ToSet(x.functions)} \cup {BytecodeBegin(x)}
    IN CHOOSE e \in ends : \A d \in ends : d <= e

DebugFails(x) ==
    \/ \E i \in DOMAIN x.functions :
          LET f == x.functions[i]
          IN f.info # 0 /\ (f.info < BytecodeEnd(x) \/ f.info >= x.debug \/ (f.large # 0 /\ f.large + 1 > x.debug))
    \/ x.debug = 0 \/ x.debug % 2 # 0 \/ x.debug < BytecodeEnd(x) \/ x.debug + 1 > PayloadEnd(x)
    \/ ~x.monotonic \/ x.debug + 1 + x.debug_size # PayloadEnd(x)

\* Every opcode is known and its operands end within the body.
OpcodesClose(f) == f.ops_ok

\* What a failure is reported as depends on whether the budget of opcodes was
\* spent before it.
FailedOr(limited) == IF limited THEN Partial(<<>>) ELSE Failed

\* Strings, then functions, each in file order: the first that is malformed or
\* spends the budget ends the parse.
Contents(x) ==
    LET s == FirstWhere(Len(x.strings), LAMBDA i : StringFails(x, i) \/ StringsSpent(x, i))
        f == FirstWhere(Len(x.functions), LAMBDA i : FunctionFails(x, i) \/ NameSpent(x, i) \/ BodyFails(x, i))
        bodies == [i \in DOMAIN x.functions |-> range(x.functions[i].off, x.functions[i].len)]
        limited == Limited(x, Len(x.functions))
    IN IF s # 0 THEN (IF StringFails(x, s) THEN Failed ELSE Partial(<<>>)) ELSE
       IF Cardinality({t.spill : t \in ToSet(x.strings)} \ {0}) # Len(x.overflow) THEN Failed ELSE
       IF f # 0 THEN (IF ~FunctionFails(x, f) /\ NameSpent(x, f) THEN Partial(<<>>) ELSE FailedOr(Limited(x, f - 1))) ELSE
       IF BodiesOverlap(x) \/ DebugFails(x) THEN FailedOr(limited) ELSE
       IF limited THEN [Partial(bodies) EXCEPT !.valid = TRUE] ELSE
       IF \E i \in DOMAIN x.functions : ~OpcodesClose(x.functions[i]) THEN Failed
       ELSE Confirmed(bodies \o <<range(Storage(x), x.storage), range(x.debug, 1 + x.debug_size)>>)

parse_hermes_bytecode(x) ==
    IF ~x.magic THEN Absent ELSE
    IF x.version \notin layouts THEN Partial(<<>>) ELSE
    IF HeaderFails(x) THEN Failed ELSE
    IF Len(x.functions) > kMaxFunctions THEN Partial(<<>>) ELSE
    IF BytecodeBegin(x) = Bad \/ KindsFail(x) THEN Failed
    ELSE Contents(x)

-----------------------------------------------------------------------------

Fn(off, len, info, large, name) ==
    [off |-> off, len |-> len, info |-> info, large |-> large, name |-> name, ops_ok |-> TRUE]

Str(off, len, spill) == [off |-> off, len |-> len, spill |-> spill, wide |-> FALSE, ok |-> TRUE]

HermesBase ==
    [part |-> "hermes", size |-> 28, magic |-> TRUE, version |-> 96, length |-> 28, global |-> 0,
     functions |-> <<Fn(14, 2, 18, 0, 0), Fn(16, 1, 0, 0, 1)>>, kinds |-> <<[count |-> 1, ident |-> TRUE], [count |-> 1, ident |-> FALSE]>>,
     identifiers |-> 1, strings |-> <<Str(0, 1, 0), Str(0, 0, 1)>>, overflow |-> <<[off |-> 1, len |-> 1]>>,
     storage |-> 2, rest |-> <<0, 0>>, hash_ok |-> TRUE, debug |-> 20, debug_size |-> 6, monotonic |-> TRUE]

HermesAlt ==
    [size |-> {2, 27}, magic |-> {FALSE}, version |-> {89, 97, 98}, length |-> {27}, global |-> {2},
     functions |-> {<<Fn(14, 2, 18, 0, 0), Fn(15, 1, 0, 0, 1)>>, <<Fn(14, 2, 18, 0, 0), Fn(14, 2, 0, 0, 1)>>,
                    <<Fn(14, 4, 0, 0, 0), Fn(16, 0, 0, 0, 1)>>, <<Fn(14, 2, 18, 18, 0), Fn(16, 1, 0, 0, 1)>>,
                    <<Fn(14, 2, 18, 20, 0), Fn(16, 1, 0, 0, 2)>>, <<Fn(14, kMaxOpcodeBytes + 1, 0, 0, 0)>>,
                    <<Fn(14, kMaxOpcodeBytes + 1, 0, 0, 0), Fn(15, 1, 0, 0, 9)>>,
                    <<Fn(14, 2, 16, 0, 0), Fn(16, 2, 0, 0, 0)>>, <<Fn(12, 2, 0, 0, 0)>>, <<>>,
                    <<Fn(14, 1, 0, 0, 0), Fn(14, 1, 0, 0, 0), Fn(15, 1, 0, 0, 0), Fn(15, 1, 0, 0, 0)>>},
     kinds |-> {<<>>, <<[count |-> 2, ident |-> TRUE]>>, <<[count |-> 0, ident |-> TRUE], [count |-> 2, ident |-> FALSE]>>},
     identifiers |-> {0, 2, 3},
     strings |-> {<<Str(0, 1, 1), Str(0, 0, 1)>>, <<Str(0, 1, 0), Str(0, 0, 2)>>, <<Str(0, 3, 0), Str(0, 0, 1)>>,
                  <<Str(0, 1, 0), [Str(0, 0, 1) EXCEPT !.wide = TRUE]>>, <<[Str(0, 1, 0) EXCEPT !.ok = FALSE], Str(0, 0, 1)>>,
                  <<Str(0, 2, 0), Str(0, 0, 1)>>, <<Str(0, 1, 0), Str(1, 1, 0)>>},
     overflow |-> {<<>>, <<[off |-> 1, len |-> 2]>>, <<[off |-> WordLimit - 1, len |-> 2]>>, <<[off |-> 0, len |-> 2]>>},
     storage |-> {0, 3}, rest |-> {<<1, 1>>, <<20>>}, hash_ok |-> {FALSE},
     debug |-> {0, 16, 21, 22, 27}, debug_size |-> {4, 7}, monotonic |-> {FALSE}]

\* What CONFIRMED promises: bodies, strings and debug data in their own parts of
\* the file; two bodies are the same or apart; the debug data ends at the footer.
HermesExact(x, r) ==
    r.state = "CONFIRMED" =>
        /\ \A i \in DOMAIN x.functions :
              LET f == x.functions[i]
              IN /\ Inside(range(f.off, f.len), x.debug) /\ f.off >= Storage(x) + x.storage
                 /\ f.info # 0 => f.info \in BytecodeEnd(x) .. x.debug - 1
                 /\ \A j \in DOMAIN x.functions :
                       LET g == x.functions[j] IN <<f.off, f.len>> = <<g.off, g.len>> \/ ~Overlap(f, g)
        /\ \A k \in DOMAIN x.overflow : \E i \in DOMAIN x.strings : x.strings[i].spill = k
        /\ x.debug + 1 + x.debug_size = x.size - 1

\* ---------------------------------------------------------------- V8 code caches

kLegacyHeaderSize == 24

kModernHeaderSize == 32

\* The source hash is the length of the source below these bits; WordLimit is
\* 2^29 here, words end at eight times as much.
kWrappedArgumentsBit == WordLimit

kModuleBit == 2 * WordLimit

kLegacyModuleBit == 4 * WordLimit

V8WordLimit == 8 * WordLimit

Bit(word, bit) == (word \div bit) % 2 = 1

\* Of the file only a prefix (held bytes) may be at hand; a size of the file that
\* is not given is that of the prefix.
LogicalSize(x) == IF x.file_size = 0 THEN x.held ELSE x.file_size

u32(x, off) == IF span_in_bounds(x.held, off, 4) /\ off \in DOMAIN x.words THEN x.words[off] ELSE 0

decode_source_hash(hash, modern) ==
    IF modern THEN [length |-> hash % kWrappedArgumentsBit, wrapped |-> Bit(hash, kWrappedArgumentsBit), module |-> Bit(hash, kModuleBit)]
    ELSE [length |-> hash % kLegacyModuleBit, wrapped |-> FALSE, module |-> Bit(hash, kLegacyModuleBit)]

NoCache == [candidate |-> FALSE, valid |-> FALSE, header |-> 0, payload |-> 0, source |-> [length |-> 0, wrapped |-> FALSE, module |-> FALSE]]

legacy_geometry(x) == LogicalSize(x) >= kLegacyHeaderSize /\ u32(x, 16) + kLegacyHeaderSize = LogicalSize(x)

modern_geometry(x) == x.held >= kModernHeaderSize /\ LogicalSize(x) >= kModernHeaderSize /\ u32(x, 20) + kModernHeaderSize = LogicalSize(x)

\* The layout is the one whose payload ends with the file; if both or neither
\* do, there is none.
CacheHeader(x) ==
    LET modern == modern_geometry(x)
        source == decode_source_hash(u32(x, 8), modern)
        payload == u32(x, IF modern THEN 20 ELSE 16)
    IN [candidate |-> TRUE, header |-> IF modern THEN kModernHeaderSize ELSE kLegacyHeaderSize, payload |-> payload, source |-> source,
        valid |-> u32(x, 4) # 0 /\ u32(x, 12) # 0 /\ payload # 0 /\ source.length <= LogicalSize(x)]

parse_v8_code_cache(x) ==
    IF LogicalSize(x) < 4 \/ x.held < 4 \/ ~x.magic THEN NoCache
    ELSE IF LogicalSize(x) >= V8WordLimit \/ x.held < kLegacyHeaderSize \/ legacy_geometry(x) = modern_geometry(x) THEN [NoCache EXCEPT !.candidate = TRUE]
    ELSE CacheHeader(x)

v8_code_cache_finding(info) ==
    info @@ [state |-> CASE ~info.candidate -> "ABSENT" [] info.candidate /\ ~info.valid -> "FAILED" [] OTHER -> "LIKELY",
             ranges |-> IF info.valid THEN <<range(info.header, info.payload)>> ELSE <<>>]

V8CodeCache(x) == v8_code_cache_finding(parse_v8_code_cache(x))

\* ---------------------------------------------------------------- the message codec

\* A string is a sequence of bytes.  Where a sequence of bytes is well-formed
\* UTF-8 from: the lead byte says how many follow, the code point is checked.
Lead(c) == CASE c < 128 -> 1 [] c \div 32 = 6 -> 2 [] c \div 16 = 14 -> 3 [] c \div 8 = 30 -> 4 [] OTHER -> 0

CodePoint(s, i, n) ==
    FoldLeft(LAMBDA cp, k : cp * 64 + (s[k] % 64), s[i] % (CASE n = 2 -> 32 [] n = 3 -> 16 [] OTHER -> 8), [k \in 1 .. n - 1 |-> i + k])

SequenceFails(s, i, n) ==
    \/ n = 0 \/ i + n - 1 > Len(s)
    \/ \E k \in i + 1 .. i + n - 1 : s[k] \div 64 # 2
    \/ n = 2 /\ s[i] % 32 < 2
    \/ n = 4 /\ s[i] % 8 > 4
    \/ n > 1 /\ LET cp == CodePoint(s, i, n)
                IN (n = 3 /\ cp < 2048) \/ (n = 4 /\ cp < 65536) \/ cp \in 55296 .. 57343 \/ cp > 1114111

valid_utf8(s) ==
    LET walk == FoldLeft(LAMBDA i, k : IF i = Bad \/ i > Len(s) THEN i ELSE IF SequenceFails(s, i, Lead(s[i])) THEN Bad ELSE i + Lead(s[i]),
                         1, [k \in DOMAIN s |-> k])
    IN walk # Bad

\* The decoder: where it is, what it has spent, what it has read last.
DecoderStart == [pos |-> 0, nodes |-> 0, strings |-> 0, ok |-> TRUE, value |-> <<>>]

Broken(s) == [s EXCEPT !.ok = FALSE]

Fits(d, s, n) == n <= Len(d) - s.pos

\* To the next multiple of n, over zeros.
align(d, s, n) ==
    LET aligned == ((s.pos + n - 1) \div n) * n
    IN IF ~s.ok \/ aligned > Len(d) \/ \E p \in s.pos + 1 .. aligned : d[p] # 0 THEN Broken(s) ELSE [s EXCEPT !.pos = aligned]

\* n bytes are the value.
Take(d, s, n) == IF ~s.ok \/ ~Fits(d, s, n) THEN Broken(s) ELSE [s EXCEPT !.pos = @ + n, !.value = SubSeq(d, s.pos + 1, s.pos + n)]

Aligned(d, s, n) == Take(d, align(d, s, n), n)

LittleEndian(bytes) == FoldRight(LAMBDA b, n : n * 256 + b, bytes, 0)

Number(s) == IF s.ok THEN [s EXCEPT !.value = LittleEndian(s.value)] ELSE s

\* A size is one byte, or two behind 254, or four behind 255.
SizeFrom(d, first) ==
    IF first.ok /\ first.value >= 254 THEN Number(Aligned(d, first, IF first.value = 254 THEN 2 ELSE 4)) ELSE first

codec_size(d, s) == SizeFrom(d, Number(Take(d, s, 1)))

StringOf(text, kind) ==
    IF ~text.ok \/ ~valid_utf8(text.value) THEN Broken(text)
    ELSE [text EXCEPT !.strings = @ + Len(text.value), !.value = [kind |-> kind, string |-> text.value]]

StringBytes(d, n) == IF ~n.ok \/ n.value > kMaxCodecStringBytes - n.strings THEN Broken(n) ELSE Take(d, n, n.value)

codec_string(d, s, kind) == StringOf(StringBytes(d, codec_size(d, s)), kind)

\* Eight bytes as a floating-point number: what the schema asks of one.
DoubleOf(b) ==
    [kind |-> "double", finite |-> ~(b[8] % 128 = 127 /\ b[7] >= 240), positive |-> b[8] < 128 /\ \E k \in 1 .. 8 : b[k] # 0]

codec_double(bits) == IF ~bits.ok \/ ~DoubleOf(bits.value).finite THEN Broken(bits) ELSE [bits EXCEPT !.value = DoubleOf(bits.value)]

typed_list(d, body, width) ==
    IF ~body.ok \/ body.value > (Len(d) - body.pos) \div width THEN Broken(body)
    ELSE [body EXCEPT !.pos = @ + body.value * width, !.value = [kind |-> "typed"]]

byte_list(d, n) == IF ~n.ok \/ ~Fits(d, n, n.value) THEN Broken(n) ELSE [n EXCEPT !.pos = @ + n.value, !.value = [kind |-> "bytes"]]

Leaf(s, kind) == IF s.ok THEN [s EXCEPT !.value = [kind |-> kind]] ELSE s

RECURSIVE read_value(_, _, _)

\* An item behind those that were read.
AddItem(t, u) == IF u.ok THEN [u EXCEPT !.value = Append(t.value, @)] ELSE u

\* The items of a list or a map, one behind the other, as one sequence.
read_items(d, n, each, depth) ==
    FoldLeft(LAMBDA t, k : IF t.ok THEN AddItem(t, read_value(d, t, depth + 1)) ELSE t,
             [n EXCEPT !.value = <<>>], [k \in 1 .. n.value * each |-> k])

read_collection(d, n, each, depth) ==
    IF ~n.ok \/ n.value * each > kMaxCodecNodes - n.nodes THEN Broken(n) ELSE read_items(d, n, each, depth)

Collected(s, kind) == IF s.ok THEN [s EXCEPT !.value = [kind |-> kind, items |-> @]] ELSE s

\* What follows the tag of a value.
read_tagged(d, tag, depth) ==
    CASE ~tag.ok -> tag
      [] tag.ok /\ tag.value \in {0, 1, 2} -> Leaf(tag, IF tag.value = 0 THEN "null" ELSE "boolean")
      [] tag.ok /\ tag.value \in {3, 4} -> Leaf(Aligned(d, tag, IF tag.value = 3 THEN 4 ELSE 8), "integer")
      [] tag.ok /\ tag.value \in {5, 7} -> codec_string(d, tag, IF tag.value = 5 THEN "large" ELSE "string")
      [] tag.ok /\ tag.value = 6 -> codec_double(Aligned(d, tag, 8))
      [] tag.ok /\ tag.value = 8 -> byte_list(d, codec_size(d, tag))
      [] tag.ok /\ tag.value \in {9, 10, 11, 14} ->
           LET width == IF tag.value \in {9, 14} THEN 4 ELSE 8 IN typed_list(d, align(d, codec_size(d, tag), width), width)
      [] tag.ok /\ tag.value \in {12, 13} ->
           Collected(read_collection(d, codec_size(d, tag), tag.value - 11, depth), IF tag.value = 12 THEN "list" ELSE "map")
      [] OTHER -> Broken(tag)

read_value(d, s, depth) ==
    IF depth > kMaxCodecDepth \/ s.nodes + 1 > kMaxCodecNodes THEN Broken(s)
    ELSE read_tagged(d, Number(Take(d, [s EXCEPT !.nodes = @ + 1], 1)), depth)

\* ---------------------------------------------------------------- asset manifests

MapKeys(v) == [k \in 1 .. Len(v.items) \div 2 |-> v.items[2 * k - 1]]

MapValues(v) == [k \in 1 .. Len(v.items) \div 2 |-> v.items[2 * k]]

NamedString(v) == v.kind = "string" /\ v.string # <<>>

scalar_metadata(v) == v.kind \in {"null", "boolean", "integer", "double", "string"}

Ascii == [asset |-> <<97, 115, 115, 101, 116>>, dpr |-> <<100, 112, 114>>]

PairFails(key, value) ==
    CASE key = Ascii.asset -> ~NamedString(value)
      [] key = Ascii.dpr -> ~(value.kind = "null" \/ (value.kind = "double" /\ value.finite /\ value.positive))
      [] OTHER -> ~scalar_metadata(value)

Distinct(seq) == Cardinality(Range(seq)) = Len(seq)

MetadataFails(v) ==
    LET keys == MapKeys(v)
        strings == [k \in DOMAIN keys |-> keys[k].string]
    IN \/ \E k \in DOMAIN keys : ~NamedString(keys[k])
       \/ ~Distinct(strings) \/ Ascii.asset \notin Range(strings)
       \/ \E k \in DOMAIN keys : PairFails(strings[k], MapValues(v)[k])

VariantFails(v) == ~NamedString(v) /\ ~(v.kind = "map" /\ ~MetadataFails(v))

VariantAsset(v) ==
    IF v.kind = "string" THEN v.string
    ELSE LET k == CHOOSE k \in DOMAIN MapKeys(v) : MapKeys(v)[k].string = Ascii.asset IN MapValues(v)[k].string

EntryFails(key, value) ==
    \/ ~NamedString(key) \/ value.kind # "list" \/ value.items = <<>>
    \/ \E k \in DOMAIN value.items : VariantFails(value.items[k])
    \/ ~Distinct([k \in DOMAIN value.items |-> VariantAsset(value.items[k])])

AssetEntry(key, value) == [key |-> key.string, assets |-> [k \in DOMAIN value.items |-> VariantAsset(value.items[k])]]

NoManifest == [state |-> "ABSENT", valid |-> FALSE, ranges |-> <<>>, error |-> "none", entries |-> <<>>, legacy |-> FALSE, modern |-> FALSE]

Manifest(root) ==
    LET keys == MapKeys(root)
        lists == MapValues(root)
        variants == UNION {Range(lists[k].items) : k \in DOMAIN lists}
    IN IF root.kind # "map" \/ (\E k \in DOMAIN keys : EntryFails(keys[k], lists[k])) \/ ~Distinct([k \in DOMAIN keys |-> keys[k].string])
       THEN [NoManifest EXCEPT !.state = "FAILED", !.error = "schema"]
       ELSE [NoManifest EXCEPT !.state = IF keys = <<>> THEN "STRUCTURE_VALID_EMPTY" ELSE "CONFIRMED", !.valid = TRUE, !.entries = [k \in DOMAIN keys |-> AssetEntry(keys[k], lists[k])],
             !.legacy = \E v \in variants : v.kind = "string", !.modern = \E v \in variants : v.kind = "map"]

\* Nothing may follow the value.
AfterDecoding(x, root) ==
    IF ~root.ok \/ root.pos # Len(x.bytes) THEN [NoManifest EXCEPT !.state = "FAILED", !.error = "codec"] ELSE Manifest(root.value)

parse_flutter_asset_manifest(x) ==
    IF x.bytes = <<>> \/ x.bytes[1] # 13 THEN NoManifest ELSE AfterDecoding(x, read_value(x.bytes, DecoderStart, 0))

\* ---------------------------------------------------------------- scripts in an archive

\* Text is a sequence of characters; names and path members are one character
\* each where nothing looks inside them.
Spaces == {" ", "\n"}

Punctuation == {"'", "\"", "backtick", "/", "*", "\\", "[", "]", "(", ")", "=", ";", ",", "."} \cup Spaces

WordLike(c) == c \notin Punctuation

\* Behind which characters a slash begins a regular expression.
Operators == {"=", "(", "[", "{", ",", ":", ";", "!", "?", "&", "|", "+", "-", "*", "%", "^", "~", "<", ">"}

regex_start(text, at) ==
    LET before == {k \in 1 .. at - 1 : text[k] \notin Spaces}
    IN before = {} \/ text[Max(before)] \in Operators

Quotes == ("'" :> "Single") @@ ("\"" :> "Double") @@ ("backtick" :> "Template")

After(text, i) == IF i < Len(text) THEN text[i + 1] ELSE "end"

\* One character of the scanner: skip is set while the second character of a
\* comment's mark is passed over.
JsCode(text, s, i) ==
    LET c == text[i]
    IN CASE c = "/" /\ After(text, i) = "/" -> [s EXCEPT !.state = "LineComment", !.skip = TRUE]
         [] c = "/" /\ After(text, i) = "*" -> [s EXCEPT !.state = "BlockComment", !.skip = TRUE]
         [] c = "/" /\ After(text, i) \notin {"/", "*"} /\ regex_start(text, i) -> [s EXCEPT !.state = "Regex"]
         [] c \in DOMAIN Quotes -> [s EXCEPT !.state = Quotes[c]]
         [] OTHER -> s

JsQuoted(s, c) ==
    CASE s.escaped -> [s EXCEPT !.escaped = FALSE]
      [] ~s.escaped /\ c = "\\" -> [s EXCEPT !.escaped = TRUE]
      [] ~s.escaped /\ s.state = "Regex" /\ c = "[" -> [s EXCEPT !.state = "RegexClass"]
      [] ~s.escaped /\ s.state = "RegexClass" /\ c = "]" -> [s EXCEPT !.state = "Regex"]
      [] ~s.escaped /\ s.state = "Regex" /\ c = "/" -> [s EXCEPT !.state = "Code"]
      [] ~s.escaped /\ c \in DOMAIN Quotes /\ s.state = Quotes[c] -> [s EXCEPT !.state = "Code"]
      [] OTHER -> s

JsStep(text, s, i) ==
    LET c == text[i]
    IN IF s.skip THEN [s EXCEPT !.skip = FALSE]
       ELSE CASE s.state = "Code" -> JsCode(text, s, i)
              [] s.state = "LineComment" -> IF c = "\n" THEN [s EXCEPT !.state = "Code"] ELSE s
              [] s.state = "BlockComment" -> IF c = "*" /\ After(text, i) = "/" THEN [s EXCEPT !.state = "Code", !.skip = TRUE] ELSE s
              [] OTHER -> JsQuoted(s, c)

js_code_position(text, target) ==
    FoldLeft(LAMBDA s, i : JsStep(text, s, i), [state |-> "Code", escaped |-> FALSE, skip |-> FALSE], [i \in 1 .. target - 1 |-> i]).state = "Code"

\* The first character from i on that is no space; behind the text if none is.
PastSpaces(text, i) == Min({k \in i .. Len(text) : text[k] \notin Spaces} \cup {Len(text) + 1})

At(text, i) == IF i \in DOMAIN text THEN text[i] ELSE "end"

Unescaped == ("n" :> "\n") @@ ("r" :> "\r") @@ ("t" :> "\t") @@ [c \in {"\\", "'", "\"", "/"} |-> c]

\* A literal from its first character to its quote: what it says and where it
\* ends, 0 if it does not.
LiteralStep(text, quote, s, i) ==
    LET c == text[i]
    IN CASE s.done -> s
         [] ~s.done /\ s.escaped -> IF c \in DOMAIN Unescaped THEN [s EXCEPT !.escaped = FALSE, !.value = Append(@, Unescaped[c])] ELSE [s EXCEPT !.done = TRUE]
         [] ~s.done /\ ~s.escaped /\ c = quote -> [s EXCEPT !.done = TRUE, !.end = i]
         [] ~s.done /\ ~s.escaped /\ c # quote /\ c = "\\" -> [s EXCEPT !.escaped = TRUE]
         [] ~s.done /\ ~s.escaped /\ c # quote /\ c = "\n" -> [s EXCEPT !.done = TRUE]
         [] OTHER -> [s EXCEPT !.value = Append(@, c)]

Literal(text, first) ==
    FoldLeft(LAMBDA s, i : LiteralStep(text, text[first], s, i), [value |-> <<>>, end |-> 0, done |-> FALSE, escaped |-> FALSE],
             [k \in 1 .. Len(text) - first |-> first + k])

Occurs(text, token, at) == at + Len(token) - 1 <= Len(text) /\ SubSeq(text, at, at + Len(token) - 1) = token

\* The only argument of a call, if it is a literal.
direct_call_literal(text, at, token) ==
    LET end == at + Len(token)
        open == PastSpaces(text, end)
        first == PastSpaces(text, open + 1)
        literal == Literal(text, first)
        before == At(text, at - 1)
        after == At(text, end)
        called == /\ before = "end" \/ ~(WordLike(before) \/ before = ".")
                  /\ after = "end" \/ ~WordLike(after)
                  /\ At(text, open) = "(" /\ At(text, first) \in {"'", "\""}
    IN IF js_code_position(text, at) /\ called /\ literal.end # 0 /\ At(text, PastSpaces(text, literal.end + 1)) = ")"
       THEN {literal.value} ELSE {}

\* The characters between the slashes.
Split(ref) == FoldLeft(LAMBDA ps, c : IF c = "/" THEN Append(ps, <<>>) ELSE Append(Front(ps), Append(Last(ps), c)), <<<<>>>>, ref)

Outside == <<<<"..">>>>

\* A part of a path more: it may not lead out of the archive, nor name a drive.
AddPart(parts, part) ==
    CASE parts = Outside \/ part \in {<<>>, <<".">>} -> parts
      [] parts # Outside /\ part = <<"..">> -> IF parts = <<>> THEN Outside ELSE Front(parts)
      [] parts # Outside /\ "c:" \in Range(part) -> Outside
      [] OTHER -> Append(parts, part)

resolve_member(source, ref) ==
    LET parts == FoldLeft(AddPart, Front(source), Split(ref))
    IN IF ref = <<>> \/ ref[1] = "/" \/ "\\" \in Range(ref) \/ parts \in {<<>>, Outside} THEN {} ELSE {parts}

Calls == <<<<"fetch">>, <<"fs.readFileSync">>, <<"require">>, <<"import">>, <<"WebAssembly.instantiate", "Streaming">>, <<"WebAssembly.instantiate">>>>

\* What the suffix of a path says, whatever its case.
Suffix == (<<"a.wasm">> :> "wasm") @@ (<<"A.WASM">> :> "wasm") @@ (<<"b.node">> :> "native") @@ (<<"main.js">> :> "script") @@ (<<"lib.MJS">> :> "script")

SuffixOf(path) == IF Last(path) \in DOMAIN Suffix THEN Suffix[Last(path)] ELSE "other"

\* The first file of the archive at a path.
find_file(x, path) == FirstWhere(Len(x.entries), LAMBDA k : x.entries[k].kind = "file" /\ x.entries[k].path = path)

promote(paths, path) ==
    CASE path \in Range(paths) -> paths
      [] path \notin Range(paths) /\ Len(paths) >= InterestingPaths -> Append(Front(paths), path)
      [] OTHER -> Append(paths, path)

Reference(x, source, call, at) ==
    LET paths == UNION {resolve_member(source.path, literal) : literal \in direct_call_literal(source.text, at, call)}
        named == {x.entries[k].path : k \in {find_file(x, p) : p \in paths} \ {0}}
    IN {<<source.path, p, call>> : p \in {p \in named \ {source.path} : SuffixOf(p) \in {"wasm", "native"}}}

\* At most one reference for a source, a target and a call.
AddReference(s, refs) ==
    IF refs \subseteq Range(s.references) \/ Len(s.references) >= kReferenceCap THEN s
    ELSE LET ref == CHOOSE ref \in refs : TRUE
         IN [s EXCEPT !.references = Append(@, ref), !.interesting = promote(promote(@, ref[1]), ref[2])]

ScanCall(x, s, source, call) ==
    FoldLeft(LAMBDA t, at : AddReference(t, Reference(x, source, call, at)), s, SelectSeq([at \in DOMAIN source.text |-> at], LAMBDA at : Occurs(source.text, call, at)))

Unreadable(x, s, e) ==
    \/ s.scripts >= kScriptCap \/ s.bytes >= kTotalBytes \/ e.size > kScriptBytes
    \/ ~checked_add(x.data_offset, e.off) \/ ~span_in_bounds(x.size, x.data_offset + e.off, e.size)

ScanScript(x, s, e) ==
    CASE e.kind # "file" \/ e.unpacked \/ SuffixOf(e.path) # "script" -> s
      [] e.kind = "file" /\ ~e.unpacked /\ SuffixOf(e.path) = "script" /\ Unreadable(x, s, e) -> [s EXCEPT !.limited = TRUE]
      [] OTHER -> FoldLeft(LAMBDA t, call : ScanCall(x, t, e, call),
                           [s EXCEPT !.scripts = @ + 1, !.bytes = @ + e.size, !.ranges = Append(@, range(x.data_offset + e.off, e.size))], Calls)

analyze_asar_script_references(x) ==
    LET s == FoldLeft(LAMBDA t, e : ScanScript(x, t, e),
                      [scripts |-> 0, bytes |-> 0, references |-> <<>>, interesting |-> x.interesting, limited |-> FALSE, ranges |-> <<>>], x.entries)
    IN [s EXCEPT !.limited = @ \/ s.scripts >= kScriptCap \/ s.bytes >= kTotalBytes \/ Len(s.references) >= kReferenceCap] @@ [state |-> "SCANNED", valid |-> TRUE]

\* ---------------------------------------------------------------- caches: inputs and reference

V8Words(version, hash, flags, w16, w20) == (4 :> version) @@ (8 :> hash) @@ (12 :> flags) @@ (16 :> w16) @@ (20 :> w20) @@ (24 :> 7)

V8Base == [part |-> "v8cache", size |-> 42, held |-> 42, file_size |-> 0, magic |-> TRUE, words |-> V8Words(1, 5, 2, 18, 3)]

V8Hashes == {0, 42, 43, kWrappedArgumentsBit + 5, kModuleBit, kLegacyModuleBit + 5}

V8Headers == {V8Words(v, h, f, w16, w20) : v \in {0, 1}, h \in V8Hashes, f \in {0, 2}, w16 \in {0, 6, 18}, w20 \in {0, 10, 18}}

\* Whole files, one whose header fits both layouts among them, and prefixes of
\* files that may be too large.
V8Input(x) ==
    \/ \E size \in {3, 23, 24, 30, 32, 42, 50}, magic \in BOOLEAN, words \in V8Headers :
          x = [V8Base EXCEPT !.size = size, !.held = size, !.magic = magic, !.words = words]
    \/ \E size \in {42, WordLimit + 42, V8WordLimit + 42}, held \in {3, 20, 24, 32, 40}, h \in V8Hashes, header \in {24, 32} :
          x = [V8Base EXCEPT !.size = size, !.held = held, !.file_size = size, !.words = V8Words(1, h, 2, IF header = 24 THEN size - 24 ELSE 1, IF header = 32 THEN size - 32 ELSE 1)]

\* A cache is likely if exactly one header ends where its payload, which is not
\* empty, has the rest of the file; in the newer one two more bits of the hash
\* are flags and no length.
V8Exact(x, r) ==
    LET field == (24 :> 16) @@ (32 :> 20)
        headers == {h \in {24, 32} : h <= x.held /\ x.words[field[h]] = x.size - h}
        length(h) == IF h = 32 THEN x.words[8] % WordLimit ELSE x.words[8] % (4 * WordLimit)
        good == {h \in headers : headers = {h} /\ x.words[4] # 0 /\ x.words[12] # 0 /\ h < x.size /\ length(h) <= x.size}
    IN /\ (r.state = "LIKELY") <=> (x.magic /\ x.size < 8 * WordLimit /\ good # {})
       /\ r.state = "LIKELY" => \A h \in good : r.ranges = <<range(h, x.size - h)>> /\ r.source.length = length(h)
       /\ r.state = "ABSENT" <=> ~x.magic \/ x.held < 4

\* ---------------------------------------------------------------- manifests: inputs and reference

Node(tag, bytes, items) == [tag |-> tag, bytes |-> bytes, items |-> items, form |-> 1]

Text(bytes) == Node(7, bytes, <<>>)

ListOf(items) == Node(12, <<>>, items)

MapOf(items) == Node(13, <<>>, items)

Pad(d, n, fill) == d \o [k \in 1 .. (n - (Len(d) % n)) % n |-> fill]

PutSize(d, n, form, fill) ==
    CASE form = 1 -> Append(d, n)
      [] form = 2 -> Pad(Append(d, 254), 2, fill) \o <<n % 256, n \div 256>>
      [] OTHER -> Pad(Append(d, 255), 4, fill) \o <<n % 256, n \div 256, 0, 0>>

RECURSIVE Put(_, _, _)

\* The encoding of a tree behind what is there, with a filling for the gaps.
Put(d, v, fill) ==
    LET e == Append(d, v.tag)
    IN CASE v.tag \in {5, 7, 8} -> PutSize(e, Len(v.bytes), v.form, fill) \o v.bytes
         [] v.tag \in {3, 4, 6} -> Pad(e, IF v.tag = 3 THEN 4 ELSE 8, fill) \o v.bytes
         [] v.tag \in {9, 14} -> Pad(PutSize(e, Len(v.bytes) \div 4, v.form, fill), 4, fill) \o v.bytes
         [] v.tag \in {10, 11} -> Pad(PutSize(e, Len(v.bytes) \div 8, v.form, fill), 8, fill) \o v.bytes
         [] v.tag \in {12, 13} -> FoldLeft(LAMBDA f, w : Put(f, w, fill), PutSize(e, Len(v.items) \div (v.tag - 11), v.form, fill), v.items)
         [] OTHER -> e

DoubleNode(low, high, top) == Node(6, <<low, 0, 0, 0, 0, 0, high, top>>, <<>>)

MetaValues ==
    {Node(tag, <<>>, <<>>) : tag \in {0, 1, 2, 15}} \cup {Node(3, <<1, 0, 0, 0>>, <<>>), Node(4, <<1, 0, 0, 0, 0, 0, 0, 128>>, <<>>), Node(5, <<57>>, <<>>), Node(8, <<1, 2>>, <<>>)}
    \cup {Node(tag, <<1, 0, 0, 0, 0, 0, 0, 0>>, <<>>) : tag \in {9, 10, 11, 14}} \cup {Text(<<98>>), Text(<<>>), ListOf(<<>>), ListOf(<<Node(0, <<>>, <<>>)>>)}
    \cup {DoubleNode(low, high, top) : low \in {0, 1}, high \in {0, 239, 240}, top \in {0, 63, 127, 128, 255}}

Asset(v) == <<Text(Ascii.asset), v>>

VariantNodes ==
    {Text(<<97>>), Text(<<>>), Node(0, <<>>, <<>>), MapOf(<<>>), MapOf(Asset(Text(<<97>>)) \o Asset(Text(<<98>>)))} \cup {MapOf(Asset(v)) : v \in MetaValues}
    \cup {MapOf(Asset(Text(<<98>>)) \o <<key, v>>) : key \in {Text(Ascii.dpr), Text(<<120>>)}, v \in MetaValues}
    \cup {MapOf(Asset(Text(<<98>>)) \o <<Node(0, <<>>, <<>>), Text(<<>>)>>), MapOf(Asset(Text(<<98>>)) \o <<Text(<<>>), Text(<<>>)>>), MapOf(<<Text(Ascii.dpr), Node(0, <<>>, <<>>)>>)}

Forms(tree) == {[tree EXCEPT !.form = f] : f \in {1, 2, 4}}

LeadBytes == {0, 127, 128, 191, 192, 193, 194, 223, 224, 225, 236, 237, 238, 239, 240, 241, 243, 244, 245, 247, 248, 255}

NextBytes == {127, 128, 143, 144, 159, 160, 191, 192}

\* The encoding, that with another filling, and some that end too early or late.
EncodingOf(x, tree) ==
    LET whole == Put(<<>>, tree, 0)
    IN \E bytes \in {whole, Put(<<>>, tree, 1), Front(whole), Append(whole, 0), <<>>} : x = [part |-> "assets", size |-> Len(bytes), tree |-> tree, bytes |-> bytes]

OneAsset(key, list) == MapOf(<<key, list>>)

Key == Text(<<107>>)

AssetInput(x) ==
    \/ \E c \in LeadBytes, d \in NextBytes, tail \in {<<>>, <<128>>, <<191, 128>>, <<65>>} : EncodingOf(x, OneAsset(Text(<<c, d>> \o tail), ListOf(<<Text(<<97>>)>>)))
    \/ \E c \in LeadBytes : EncodingOf(x, OneAsset(Text(<<c>>), ListOf(<<Text(<<97>>)>>)))
    \/ \E v \in VariantNodes, more \in {<<>>, <<Text(<<97>>)>>, <<MapOf(Asset(Text(<<98>>)))>>} : EncodingOf(x, OneAsset(Key, ListOf(<<v>> \o more)))
    \/ \E a, b \in {Key, Text(<<108>>), Text(<<>>), Node(5, <<107>>, <<>>)} : EncodingOf(x, MapOf(<<a, ListOf(<<Text(<<97>>)>>), b, ListOf(<<Text(<<97>>)>>)>>))
    \/ \E t \in {MapOf(<<>>), ListOf(<<>>), OneAsset(Key, ListOf(<<>>)), OneAsset(Key, MapOf(<<>>))} : \E tree \in Forms(t) : EncodingOf(x, tree)
    \/ \E s \in Forms(Text(<<97, 98>>)) : EncodingOf(x, OneAsset(Key, ListOf(<<s>>)))

\* RFC 3629: what may follow what.
Utf8Rows ==
    LET tail == 128 .. 191
    IN {<<0 .. 127>>, <<194 .. 223, tail>>, <<{224}, 160 .. 191, tail>>, <<(225 .. 239) \ {237}, tail, tail>>, <<{237}, 128 .. 159, tail>>,
        <<{240}, 144 .. 191, tail, tail>>, <<241 .. 243, tail, tail, tail>>, <<{244}, 128 .. 143, tail, tail>>}

WellFormed(s) ==
    LET starts == Closure({1}, LAMBDA i : {i + Len(row) : row \in {row \in Utf8Rows : i + Len(row) - 1 <= Len(s) /\ \A k \in DOMAIN row : s[i + k - 1] \in row[k]}}, Len(s))
    IN Len(s) + 1 \in starts

RECURSIVE Flat(_)

Flat(v) == <<v>> \o FlattenSeq([k \in DOMAIN v.items |-> Flat(v.items[k])])

RECURSIVE Height(_)

Height(v) == IF v.items = <<>> THEN 0 ELSE 1 + Max({Height(w) : w \in Range(v.items)})

Finite(v) == v.tag = 6 => ~(v.bytes[8] \in {127, 255} /\ v.bytes[7] \div 16 = 15)

Encodes(x) ==
    LET nodes == Flat(x.tree)
        text == SelectSeq(nodes, LAMBDA v : v.tag \in {5, 7})
    IN /\ x.bytes = Put(<<>>, x.tree, 0)
       /\ Len(nodes) <= kMaxCodecNodes /\ Height(x.tree) <= kMaxCodecDepth /\ SumOver(Len(text), LAMBDA k : Len(text[k].bytes)) <= kMaxCodecStringBytes
       /\ \A v \in Range(nodes) : v.tag <= 14 /\ Finite(v) /\ (v.tag \in {5, 7} => WellFormed(v.bytes))

PairsOf(v) == {<<v.items[2 * k - 1], v.items[2 * k]>> : k \in 1 .. Len(v.items) \div 2}

\* The assets a node of a list of variants may stand for: none if it is no
\* variant.
VariantOf(v) ==
    LET strings == {p \in PairsOf(v) : p[1].tag = 7 /\ p[1].bytes # <<>>}
        value(name) == {p[2] : p \in {p \in strings : p[1].bytes = name}}
        above(w) == w.tag = 6 /\ w.bytes[8] < 128 /\ w.bytes # <<0, 0, 0, 0, 0, 0, 0, 0>>
    IN IF v.tag = 7 THEN {v.bytes} \ {<<>>}
       ELSE IF /\ v.tag = 13 /\ Cardinality({p[1] : p \in strings}) = Len(v.items) \div 2
               /\ \A w \in value(Ascii.dpr) : w.tag = 0 \/ above(w)
               /\ \A p \in strings : p[1].bytes \in {Ascii.asset, Ascii.dpr} \/ p[2].tag \in {0, 1, 2, 3, 4, 6, 7}
            THEN {w.bytes : w \in {w \in value(Ascii.asset) : w.tag = 7 /\ w.bytes # <<>>}} ELSE {}

\* A manifest is valid if it is the one encoding of a map from different names
\* to lists of different assets; what is listed is what was encoded.
AssetsExact(x, r) ==
    LET entry(p) == /\ p[1].tag = 7 /\ p[1].bytes # <<>> /\ p[2].tag = 12 /\ p[2].items # <<>>
                    /\ Cardinality(UNION {VariantOf(v) : v \in Range(p[2].items)}) = Len(p[2].items)
        keys == {p[1].bytes : p \in PairsOf(x.tree)}
        fits == x.tree.tag = 13 /\ (\A p \in PairsOf(x.tree) : entry(p)) /\ Cardinality(keys) = Len(x.tree.items) \div 2
    IN /\ r.valid <=> (Encodes(x) /\ fits)
       /\ r.error = "codec" => ~Encodes(x)
       /\ r.valid => /\ Range(r.entries) = {[key |-> p[1].bytes, assets |-> [k \in DOMAIN p[2].items |-> CHOOSE a \in VariantOf(p[2].items[k]) : TRUE]] : p \in PairsOf(x.tree)}
                     /\ r.legacy <=> \E p \in PairsOf(x.tree) : \E v \in Range(p[2].items) : v.tag = 7

\* ---------------------------------------------------------------- scripts: inputs and reference

\* A statement: what stands around the call, within its brackets and behind it;
\* real says whether it is a call of that function with that one argument.
Wrap(pre, mid, inner, outer, post, real) == [pre |-> pre, mid |-> mid, inner |-> inner, outer |-> outer, post |-> post, real |-> real]

Around(pre, post, real) == Wrap(pre, <<>>, <<>>, <<>>, post, real)

PlainCall == Around(<<>>, <<";">>, TRUE)

Wraps ==
    {PlainCall, Wrap(<<" ">>, <<" ">>, <<"\n">>, <<" ">>, <<";">>, TRUE), Around(<<"x", "=">>, <<";">>, TRUE),
     Around(<<"x", ".">>, <<";">>, FALSE), Around(<<"pre">>, <<";">>, FALSE), Wrap(<<>>, <<"d">>, <<>>, <<>>, <<";">>, FALSE),
     Around(<<"/", "/">>, <<"\n">>, FALSE), Around(<<"/", "/", "'", "\n">>, <<";">>, TRUE),
     Around(<<"/", "*">>, <<"*", "/">>, FALSE), Around(<<"/", "*", "/">>, <<"*", "/">>, FALSE), Around(<<"/", "*", "'", "*", "*", "/">>, <<";">>, TRUE),
     Around(<<"\"">>, <<"\"", ";">>, FALSE), Around(<<"backtick">>, <<"backtick", ";">>, FALSE), Around(<<"'", "\\", "'", "'", ";">>, <<";">>, TRUE),
     Around(<<"=", "/", "'", "/", ";">>, <<";">>, TRUE), Around(<<"=", " ", "/", "[", "/", "'", "]", "/", ";">>, <<";">>, TRUE),
     Around(<<"=", "/", "\\", "/">>, <<"/", ";">>, FALSE), Around(<<"x", "/", "y", ";">>, <<"/", "x", ";">>, TRUE),
     Wrap(<<>>, <<>>, <<>>, <<",", "x">>, <<";">>, FALSE), Wrap(<<>>, <<>>, <<"x", ",">>, <<>>, <<";">>, FALSE)}

\* A literal, and the members of the archive it denotes in a script at its root
\* and in one below lib.
Lit(text, root, lib) == [text |-> text, root |-> root, lib |-> lib]

Lits ==
    {Lit(<<"a.wasm">>, {<<"a.wasm">>}, {<<"lib", "a.wasm">>}), Lit(<<".", "/", "b.node">>, {<<"b.node">>}, {}), Lit(<<"..", "/", "b.node">>, {}, {<<"b.node">>}),
     Lit(<<"lib", "/", "..", "/", "/", "b.node">>, {<<"b.node">>}, {}), Lit(<<"lib", "\\", "/", "a.wasm">>, {<<"lib", "a.wasm">>}, {}),
     Lit(<<"A.WASM">>, {<<"A.WASM">>}, {}), Lit(<<"/", "a.wasm">>, {}, {}), Lit(<<"c:", "/", "a.wasm">>, {}, {}), Lit(<<"main.js">>, {}, {}), Lit(<<>>, {}, {}),
     Lit(<<"n.bin">>, {}, {}), Lit(<<"\\", "\\", "a.wasm">>, {}, {}), Lit(<<"\\", "x", "a.wasm">>, {}, {}), Lit(<<"\n", "a.wasm">>, {}, {}), Lit(<<"\\", "n", "a.wasm">>, {}, {}),
     Lit(<<"..", "/", "..", "/", "b.node">>, {}, {}), Lit(<<"\\", "'", "a.wasm">>, {}, {})}

Statement(w, call, lit, quote) == [wrap |-> w, call |-> call, lit |-> lit, quote |-> quote]

StatementText(t) ==
    t.wrap.pre \o t.call \o t.wrap.mid \o <<"(">> \o t.wrap.inner \o <<t.quote>> \o t.lit.text \o <<t.quote>> \o t.wrap.outer \o <<")">> \o t.wrap.post

Plainly(call) == Statement(PlainCall, call, CHOOSE lit \in Lits : lit.text = <<"a.wasm">>, "'")

PathOf(names) == [k \in DOMAIN names |-> <<names[k]>>]

Script(path, off, size, statements) ==
    [path |-> PathOf(path), kind |-> "file", off |-> off, size |-> size, unpacked |-> FALSE, statements |-> statements, text |-> FlattenSeq([k \in DOMAIN statements |-> StatementText(statements[k])])]

Member(path) == Script(path, 0, 0, <<>>)

Members == <<Member(<<"a.wasm">>), Member(<<"b.node">>), Member(<<"A.WASM">>), Member(<<"lib", "a.wasm">>), Member(<<"n.bin">>)>>

Archive(scripts, interesting) == [part |-> "asarjs", size |-> 20, data_offset |-> 4, interesting |-> [k \in DOMAIN interesting |-> PathOf(interesting[k])], entries |-> scripts \o Members]

Main(statements) == Script(<<"main.js">>, 0, 2, statements)

Lib(statements) == Script(<<"lib", "lib.MJS">>, 2, 1, statements)

TwoCalls == <<Plainly(<<"require">>), Statement(PlainCall, <<"fetch">>, CHOOSE lit \in Lits : lit.text = <<".", "/", "b.node">>, "\"")>>

Uneven == {[Main(TwoCalls) EXCEPT !.kind = "link"], [Main(TwoCalls) EXCEPT !.unpacked = TRUE], [Main(TwoCalls) EXCEPT !.size = kScriptBytes + 1], [Main(TwoCalls) EXCEPT !.off = 15],
           [Main(TwoCalls) EXCEPT !.off = WordLimit - 2], Main(TwoCalls), [Main(TwoCalls) EXCEPT !.path = PathOf(<<"n.bin">>)]}

AsarInput(x) ==
    \/ \E w \in Wraps, call \in Range(Calls), lit \in Lits : x = Archive(<<Main(<<Statement(w, call, lit, "'")>>)>>, <<>>)
    \/ \E lit \in Lits, quote \in {"'", "\""} : x = Archive(<<Lib(<<Statement(PlainCall, <<"require">>, lit, quote)>>)>>, <<<<"b.node">>>>)
    \/ \E v, w \in Wraps : x = Archive(<<Main(<<Statement(v, <<"require">>, Plainly(<<"fetch">>).lit, "'"), Statement(w, <<"require">>, TwoCalls[2].lit, "'")>>)>>, <<>>)
    \/ \E e \in Uneven, f \in Uneven, paths \in {<<>>, <<<<"n.bin">>>>, <<<<"main.js">>, <<"n.bin">>, <<"lib", "a.wasm">>>>} :
          x = Archive(<<e, Lib(<<Plainly(<<"import">>)>>), f>>, paths)

Denoted(e, t) == {PathOf(p) : p \in IF e.path[1] = <<"lib">> THEN t.lit.lib ELSE t.lit.root}

\* Every reference is a call a script makes; without the limits, every call is
\* there, once.  The paths that were interesting before remain, but for the last.
AsarExact(x, r) ==
    LET scripts == {e \in Range(x.entries) : e.kind = "file" /\ ~e.unpacked /\ e.text # <<>> /\ Last(e.path) # <<"n.bin">>}
        calls(e) == {t \in Range(e.statements) : t.wrap.real}
        made == UNION {UNION {{<<e.path, p, t.call>> : p \in Denoted(e, t)} : t \in calls(e)} : e \in scripts}
        named == UNION {{ref[1], ref[2]} : ref \in Range(r.references)}
        kept == SubSeq(x.interesting, 1, Min({Len(x.interesting), InterestingPaths - 1}))
    IN /\ Range(r.references) \subseteq made /\ Len(r.references) = Cardinality(Range(r.references)) /\ Len(r.references) <= kReferenceCap
       /\ ~r.limited => Range(r.references) = made
       /\ Len(r.ranges) <= kScriptCap /\ (\A e \in scripts : e.size > kScriptBytes => range(x.data_offset + e.off, e.size) \notin Range(r.ranges))
       /\ IsPrefix(kept, r.interesting) /\ Len(r.interesting) <= InterestingPaths /\ Range(r.interesting) \subseteq Range(x.interesting) \cup named
       /\ Len(r.interesting) < InterestingPaths => named \subseteq Range(r.interesting)
=============================================================================
