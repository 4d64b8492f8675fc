----------------------------- MODULE GdVariants -----------------------------
(***************************************************************************)
(* Constants and names of compiled scripts (core/gdscript_buffer.cpp): the *)
(* structural decoders of the Variant encodings of Godot 4, 3 and 2, the   *)
(* bounded summaries that are shown of a constant, and the two encodings   *)
(* of identifiers.                                                         *)
(*                                                                         *)
(* Everything in an encoded constant is padded to four bytes, so a stream  *)
(* is a sequence of 32-bit cells and a size in bytes.  A header is its     *)
(* type + 64 * (bits 16 to 19) + 1024 if another bit is set; TopBit stands *)
(* for bit 31.  A cell BadText is no part of a UTF-8 text, NulEnd ends in  *)
(* a NUL.  A printed number, a type's name and a mark are one unit of a    *)
(* summary, a text one for each of its bytes.                              *)
(***************************************************************************)
EXTENDS Words, Bitwise

CONSTANTS kMaxTableCount, kMaxVariantDepth, kMaxVariantNodes,
          SummaryCap, SummaryDepth, SummaryItems

TopBit == 4096

AllBits == 2 * TopBit - 1

BadText == -7

NulEnd == -8

TypeBits == 64

OtherBits == 1024

\* ---------------------------------------------------------------- the cursor

Cell(x, o) == IF o \div 4 + 1 \in DOMAIN x.cells THEN x.cells[o \div 4 + 1] ELSE 0

u32(x, o) == IF o + 4 > x.size THEN 0 ELSE Cell(x, o)

take(x, p, n) == IF p = Bad \/ n > x.size - p THEN Bad ELSE p + n

Pad(n) == (4 - (n % 4)) % 4

\* A text somewhere in the stream.
Text(x, p, n) == \A o \in p .. p + n - 1 : Cell(x, o) # BadText

variant_string(x, p) ==
    LET n == u32(x, p)   q == take(x, p, 4)
    IN IF q = Bad \/ n < 0 \/ n > x.size - q \/ ~Text(x, q, n) THEN Bad ELSE take(x, q + n, Pad(n))

\* An item of a string array of Godot 2 brings its NUL along.
godot2_string_array_item(x, p) ==
    LET n == u32(x, p)   q == take(x, p, 4)
    IN IF q = Bad \/ n <= 0 \/ n > x.size - q THEN Bad
       ELSE IF Cell(x, q + n - 1) # NulEnd \/ ~Text(x, q, n - 1) THEN Bad ELSE take(x, q + n, Pad(n))

Times(n, p, Step(_)) == FoldLeft(LAMBDA q, i : IF q = Bad THEN Bad ELSE Step(q), p, [i \in 1 .. n |-> i])

\* A count, and that many items.
Counted(x, p) == IF take(x, p, 4) = Bad \/ u32(x, p) \notin 0 .. kMaxTableCount THEN Bad ELSE u32(x, p)

Strings(x, p) == IF Counted(x, p) = Bad THEN Bad ELSE Times(u32(x, p), p + 4, LAMBDA q : variant_string(x, q))

Godot2Strings(x, p) == IF Counted(x, p) = Bad THEN Bad ELSE Times(u32(x, p), p + 4, LAMBDA q : godot2_string_array_item(x, q))

Packed(x, p, item) == IF Counted(x, p) = Bad THEN Bad ELSE take(x, p + 4, u32(x, p) * item)

\* A count of bytes has no limit but the stream.
ByteArray(x, p) ==
    LET n == u32(x, p)   q == take(x, p, 4)
    IN IF q = Bad \/ n < 0 \/ n > x.size - q THEN Bad ELSE take(x, q + n, Pad(n))

\* The head of a node path: how many texts follow, names first, and whether a
\* property is one more of them.
PathHead(x, p) ==
    LET names == u32(x, p) - TopBit
        flags == u32(x, p + 8)
        subnames == u32(x, p + 4) + IF (flags \div 2) % 2 = 1 THEN 1 ELSE 0
    IN IF take(x, p, 12) = Bad \/ names < 0 \/ flags \notin 0 .. 3 \/ u32(x, p + 4) \notin 0 .. AllBits \/ names + subnames > kMaxTableCount
       THEN [at |-> Bad, names |-> 0, total |-> 0]
       ELSE [at |-> p + 12, names |-> names, total |-> names + subnames]

NodePath(x, p) == LET h == PathHead(x, p) IN IF h.at = Bad THEN Bad ELSE Times(h.total, h.at, LAMBDA q : variant_string(x, q))

\* ---------------------------------------------------------------- Godot 4

kVariantMax == 39

Type(header) == header % TypeBits

Flags(header) == header \div TypeBits

IsWide(header) == Flags(header) % 2 = 1

MayBeWide == {2, 3, 5, 7, 9, 11, 12, 14, 15, 16, 17, 18, 19, 24, 35, 36, 38}

Allowed(type) == IF type \in MayBeWide THEN 0 .. 1 ELSE CASE type = 27 -> 0 .. 15 [] type = 28 -> 0 .. 3 [] OTHER -> {0}

FixedBytes ==
    <<4, 4, 4, 0, 8, 8, 16, 16, 12, 12, 24, 16, 16, 16, 16, 24, 36, 48, 64, 16>>

ItemBytes == (30 :> 4) @@ (31 :> 8) @@ (32 :> 4) @@ (33 :> 8) @@ (35 :> 8) @@ (36 :> 12) @@ (37 :> 16) @@ (38 :> 16)

container_type(x, p, kind) ==
    CASE kind = 0 -> p
      [] kind = 1 -> IF u32(x, p) \in 0 .. kVariantMax - 1 THEN take(x, p, 4) ELSE Bad
      [] OTHER -> variant_string(x, p)

\* What a value that is no container leaves the cursor at.
Value(x, p, type, wide) ==
    LET factor == IF wide THEN 2 ELSE 1
    IN CASE type \in {0, 25} -> p
         [] type \in {4, 21} -> variant_string(x, p)
         [] type = 22 -> NodePath(x, p)
         [] type = 23 -> take(x, p, 8)
         [] type = 24 -> IF wide THEN take(x, p, 8) ELSE Bad
         [] type = 26 -> take(x, variant_string(x, p), 8)
         [] type = 29 -> ByteArray(x, p)
         [] type = 34 -> Strings(x, p)
         [] type \in DOMAIN ItemBytes -> Packed(x, p, ItemBytes[type] * factor)
         [] OTHER -> take(x, p, FixedBytes[type] * factor)

Leaf(at) == [at |-> at, parts |-> 0]

\* A container's values follow its count, whose top bit is something else.
Container(x, p, each) ==
    IF p = Bad \/ take(x, p, 4) = Bad \/ u32(x, p) \notin 0 .. AllBits \/ u32(x, p) % TopBit > kMaxTableCount THEN Leaf(Bad)
    ELSE [at |-> p + 4, parts |-> each * (u32(x, p) % TopBit)]

Typed(x, p, key, value) ==
    LET q == container_type(x, p, key) IN IF q = Bad THEN Bad ELSE container_type(x, q, value)

Godot4Parts(x, p) ==
    LET h == u32(x, p)
    IN IF take(x, p, 4) = Bad \/ h < 0 \/ Type(h) >= kVariantMax \/ Flags(h) \notin Allowed(Type(h)) THEN Leaf(Bad)
       ELSE CASE Type(h) = 27 -> Container(x, Typed(x, p + 4, Flags(h) % 4, Flags(h) \div 4), 2)
              [] Type(h) = 28 -> Container(x, container_type(x, p + 4, Flags(h)), 1)
              [] OTHER -> Leaf(Value(x, p + 4, Type(h), IsWide(h)))

\* ---------------------------------------------------------------- Godot 3 and 2

LegacyBytes == <<4, 4, 4, 0, 8, 16, 12, 24, 16, 16, 24, 36, 48, 16>>

LegacyValue(x, p, type, wide) ==
    CASE type \in {0, 16} -> p
      [] type = 4 -> variant_string(x, p)
      [] type = 15 -> NodePath(x, p)
      [] type = 17 -> IF wide THEN take(x, p, 8) ELSE Bad
      [] type = 20 -> ByteArray(x, p)
      [] type \in {21, 22} -> Packed(x, p, 4)
      [] type = 23 -> Strings(x, p)
      [] type \in 24 .. 26 -> Packed(x, p, 4 * (type - 22))
      [] OTHER -> take(x, p, LegacyBytes[type] * IF wide THEN 2 ELSE 1)

LegacyParts(x, p) ==
    LET h == u32(x, p)
    IN IF take(x, p, 4) = Bad \/ h < 0 \/ Type(h) >= 27 \/ Flags(h) \notin IF Type(h) \in {2, 3, 17} THEN 0 .. 1 ELSE {0} THEN Leaf(Bad)
       ELSE CASE Type(h) = 18 -> Container(x, p + 4, 2)
              [] Type(h) = 19 -> Container(x, p + 4, 1)
              [] OTHER -> Leaf(LegacyValue(x, p + 4, Type(h), IsWide(h)))

kGodot2ImageFormatMax == 23

\* The format, three cells that are not looked at, and the padded pixels.
Image(x, p) ==
    IF take(x, p, 20) = Bad \/ u32(x, p) \notin 0 .. kGodot2ImageFormatMax - 1 \/ u32(x, p + 16) \notin 0 .. TopBit - 1 THEN Bad
    ELSE take(x, take(x, p + 20, u32(x, p + 16)), Pad(u32(x, p + 16)))

EventBytes(event) == CASE event \in {1, 4} -> 20 [] event \in {3, 5, 6} -> 16 [] OTHER -> 12

\* The length an event declares counts from its own beginning.
InputEvent(x, p) ==
    IF take(x, p, 12) = Bad \/ u32(x, p) \notin 0 .. 8 \/ u32(x, p + 8) # EventBytes(u32(x, p)) THEN Bad ELSE take(x, p, u32(x, p + 8))

Godot2Value(x, p, type) ==
    CASE type \in {0, 17, 18} -> p
      [] type = 4 -> variant_string(x, p)
      [] type = 15 -> Image(x, p)
      [] type = 16 -> NodePath(x, p)
      [] type = 19 -> InputEvent(x, p)
      [] type = 22 -> ByteArray(x, p)
      [] type \in {23, 24} -> Packed(x, p, 4)
      [] type = 25 -> Godot2Strings(x, p)
      [] type \in 26 .. 28 -> Packed(x, p, 4 * (type - 24))
      [] OTHER -> take(x, p, LegacyBytes[type])

Godot2Parts(x, p) ==
    LET type == u32(x, p)
    IN IF take(x, p, 4) = Bad \/ type \notin 0 .. 28 THEN Leaf(Bad)
       ELSE CASE type = 20 -> Container(x, p + 4, 2)
              [] type = 21 -> Container(x, p + 4, 1)
              [] OTHER -> Leaf(Godot2Value(x, p + 4, type))

Parts(x, p) == CASE x.version = 4 -> Godot4Parts(x, p) [] x.version = 3 -> LegacyParts(x, p) [] OTHER -> Godot2Parts(x, p)

\* One value with all its parts, the values seen before counted in.
variant(x, from, seen) ==
    LET v[p \in 0 .. x.size, depth \in 0 .. kMaxVariantDepth + 1, nodes \in 0 .. kMaxVariantNodes] ==
            LET whole(value) ==
                    IF depth > kMaxVariantDepth \/ nodes = kMaxVariantNodes \/ value.at = Bad THEN [pos |-> Bad, nodes |-> nodes]
                    ELSE FoldLeft(LAMBDA c, i : IF c.pos = Bad THEN c ELSE v[c.pos, depth + 1, c.nodes],
                                  [pos |-> value.at, nodes |-> nodes + 1], [i \in 1 .. value.parts |-> i])
            IN whole(Parts(x, p))
    IN v[from, 0, seen]

\* The constants of a buffer, one after the other; a span starts at its header.
Constants(x) ==
    LET read(c, v) == [pos |-> v.pos, nodes |-> v.nodes, spans |-> Append(c.spans, [from |-> c.pos, to |-> v.pos])]
    IN FoldLeft(LAMBDA c, i : IF c.pos = Bad THEN c ELSE read(c, variant(x, c.pos, c.nodes)),
                [pos |-> 0, nodes |-> 0, spans |-> <<>>], [i \in 1 .. x.count |-> i])

\* ---------------------------------------------------------------- summaries

NoSummary == [shown |-> FALSE, len |-> 0, complete |-> FALSE]

Summary(len, complete) == [shown |-> TRUE, len |-> len, complete |-> complete]

\* What no longer fits is cut and marked.
append_summary(out, n) ==
    IF out.len + n <= SummaryCap THEN [out EXCEPT !.len = @ + n] ELSE [out EXCEPT !.len = Max({@, SummaryCap}) + 1, !.complete = FALSE]

WasCut(out) == out.len > SummaryCap

TextSummary(e, p) ==
    LET n == u32(e, p + 4)
    IN IF take(e, p, 8) = Bad \/ n \notin 0 .. e.size - p - 8 THEN NoSummary ELSE Summary(IF n <= SummaryCap THEN n ELSE SummaryCap + 1, n <= SummaryCap)

\* The numbers of a value and the bytes of each.
Lanes == (2 :> 1) @@ (3 :> 1) @@ (5 :> 2) @@ (6 :> 2) @@ (7 :> 4) @@ (8 :> 4) @@ (9 :> 3) @@ (10 :> 3) @@ (11 :> 6) @@ (12 :> 4)
         @@ (13 :> 4) @@ (14 :> 4) @@ (15 :> 4) @@ (16 :> 6) @@ (17 :> 9) @@ (18 :> 12) @@ (19 :> 16) @@ (20 :> 4)

NumberSummary(e, p, type, wide) ==
    IF take(e, p, 4 + Lanes[type] * IF wide THEN 8 ELSE 4) = Bad THEN NoSummary ELSE Summary(Lanes[type], TRUE)

\* The texts of a node path with the marks between them, until one is cut.
PathSummary(e, p) ==
    LET head == PathHead(e, p + 4)
        piece(s, i) ==
            LET q == variant_string(e, s.pos)
            IN IF s.pos = Bad \/ WasCut(s.out) THEN s
               ELSE IF q = Bad THEN [s EXCEPT !.pos = Bad]
               ELSE [pos |-> q, out |-> append_summary(s.out, u32(e, s.pos) + IF i = 1 /\ i <= head.names THEN 0 ELSE 1)]
        all == FoldLeft(piece, [pos |-> head.at, out |-> Summary(u32(e, p + 12) % 2, TRUE)], [i \in 1 .. head.total |-> i])
    IN IF all.pos = Bad THEN NoSummary ELSE [all.out EXCEPT !.complete = @ /\ all.pos = e.size]

\* Of a value in a container its type is shown, and its own summary if there is one.
summary_atom(s, next, inner) ==
    IF next = Bad THEN [s EXCEPT !.pos = Bad] ELSE [pos |-> next, units |-> s.units + 1 + inner.len, complete |-> s.complete /\ inner.complete]

Atom(e, s, depth, summary) ==
    LET upto(next) == summary_atom(s, next, summary[s.pos, next, depth + 1])
    IN IF s.pos = Bad THEN s ELSE upto(variant(e, s.pos, 0).pos)

\* An entry is one value or a key and a value, with the marks between them.
Entry(e, s, i, each, depth, summary) ==
    LET add(both) == [pos |-> both.pos,
                      out |-> append_summary([s.out EXCEPT !.complete = both.complete], both.units + Min({i - 1, 1}) + each - 1)]
    IN IF s.pos = Bad \/ WasCut(s.out) THEN s
       ELSE add(FoldLeft(LAMBDA t, k : Atom(e, t, depth, summary), [pos |-> s.pos, units |-> 0, complete |-> s.out.complete], [k \in 1 .. each |-> k]))

\* A container is shown up to a depth, a number of entries and a length.
ContainerSummary(e, value, each, depth, summary) ==
    LET count == value.parts \div each
        limit == Min({count, SummaryItems})
        more(out) == IF count > limit THEN [append_summary(out, 1) EXCEPT !.complete = FALSE] ELSE out
        close(all) ==
            IF all.pos = Bad THEN NoSummary
            ELSE [append_summary(more(all.out), 1) EXCEPT !.complete = @ /\ (count <= limit => all.pos = e.size)]
    IN IF value.at = Bad THEN NoSummary
       ELSE IF depth >= SummaryDepth THEN Summary(1, FALSE)
       ELSE close(FoldLeft(LAMBDA s, i : Entry(e, s, i, each, depth, summary), [pos |-> value.at, out |-> Summary(1, TRUE)], [i \in 1 .. limit |-> i]))

CountSummary(e, p, complete) == IF take(e, p, 8) = Bad THEN NoSummary ELSE Summary(1, complete)

constant_summary(x, from, to) ==
    LET s[p \in 0 .. x.size, end \in 0 .. x.size, depth \in 0 .. SummaryDepth] ==
            LET e == [x EXCEPT !.size = end]
                h == u32(e, p)
                type == Type(h)
            IN CASE take(e, p, 4) = Bad -> NoSummary
                 [] type = 0 -> Summary(1, TRUE)
                 [] type = 1 -> CountSummary(e, p, TRUE)
                 [] type \in {4, 21} -> TextSummary(e, p)
                 [] type = 22 -> PathSummary(e, p)
                 [] type \in DOMAIN Lanes -> NumberSummary(e, p, type, type # 20 /\ IsWide(h))
                 [] type \in {27, 28} -> ContainerSummary(e, Parts(e, p), IF type = 27 THEN 2 ELSE 1, depth, s)
                 [] type \in 29 .. 38 -> CountSummary(e, p, u32(e, p + 4) = 0)
                 [] OTHER -> NoSummary
    IN s[from, to, 0]

\* Of the old encodings only plain values are shown.
legacy_constant_summary(x, from, to) ==
    LET e == [x EXCEPT !.size = to]
        h == u32(e, from)
        type == Type(h)
    IN CASE take(e, from, 4) = Bad -> NoSummary
         [] type = 0 -> Summary(1, TRUE)
         [] type = 1 -> CountSummary(e, from, TRUE)
         [] type \in {2, 3} -> NumberSummary(e, from, type, IsWide(h))
         [] type = 4 -> TextSummary(e, from)
         [] type \in 18 .. 26 -> CountSummary(e, from, FALSE)
         [] OTHER -> NoSummary

godot2_constant_summary(x, from, to) ==
    LET e == [x EXCEPT !.size = to]
        type == u32(e, from)
    IN CASE take(e, from, 4) = Bad -> NoSummary
         [] type = 0 -> Summary(1, TRUE)
         [] type = 1 -> CountSummary(e, from, TRUE)
         [] type \in {2, 3} -> NumberSummary(e, from, type, FALSE)
         [] type = 4 -> TextSummary(e, from)
         [] type \in 20 .. 28 -> CountSummary(e, from, FALSE)
         [] OTHER -> NoSummary

SummaryOf(x, span) ==
    CASE x.version = 4 -> constant_summary(x, span.from, span.to)
      [] x.version = 3 -> legacy_constant_summary(x, span.from, span.to)
      [] OTHER -> godot2_constant_summary(x, span.from, span.to)

Spanned(x, c) ==
    IF c.pos = Bad THEN Failed
    ELSE Confirmed([i \in DOMAIN c.spans |-> range(c.spans[i].from, c.spans[i].to - c.spans[i].from)])
         @@ [nodes |-> c.nodes, summaries |-> [i \in DOMAIN c.spans |-> SummaryOf(x, c.spans[i])]]

ScriptConstants(x) == Spanned(x, Constants(x))

\* ---------------------------------------------------------------- names

Key == 182

Unmasked(b) == b ^^ Key

\* The bytes of a text, one after the other: what is still expected of a
\* character, its value so far and its shortest form.
Lead(b) ==
    CASE b < 128 -> [more |-> 0, cp |-> b, least |-> 0]
      [] b \in 192 .. 223 -> [more |-> IF b % 32 < 2 THEN Bad ELSE 1, cp |-> b % 32, least |-> 0]
      [] b \in 224 .. 239 -> [more |-> 2, cp |-> b % 16, least |-> 2048]
      [] b \in 240 .. 247 -> [more |-> IF b % 8 > 4 THEN Bad ELSE 3, cp |-> b % 8, least |-> 65536]
      [] OTHER -> [more |-> Bad, cp |-> 0, least |-> 0]

IsScalar(cp) == cp <= 1114111 /\ cp \notin 55296 .. 57343

Continue(s, b) ==
    LET t == [s EXCEPT !.more = @ - 1, !.cp = @ * 64 + (b % 64)]
    IN IF b \notin 128 .. 191 \/ (t.more = 0 /\ (t.cp < t.least \/ ~IsScalar(t.cp))) THEN [s EXCEPT !.more = Bad] ELSE t

valid_utf8(bytes) ==
    FoldLeft(LAMBDA s, b : CASE s.more = Bad -> s [] s.more = 0 -> Lead(b) [] OTHER -> Continue(s, b), Lead(0), bytes).more = 0

\* The bytes of one character.
append_utf8(cp) ==
    CASE cp <= 127 -> <<cp>>
      [] cp \in 128 .. 2047 -> <<192 + (cp \div 64), 128 + (cp % 64)>>
      [] cp \in 2048 .. 65535 -> <<224 + (cp \div 4096), 128 + ((cp \div 64) % 64), 128 + (cp % 64)>>
      [] OTHER -> <<240 + (cp \div 262144), 128 + ((cp \div 4096) % 64), 128 + ((cp \div 64) % 64), 128 + (cp % 64)>>

\* A character of a name of Godot 4, four masked bytes; Bad if it is too large.
Scalar(bytes, i) ==
    LET b == [k \in 1 .. 4 |-> Unmasked(bytes[4 * (i - 1) + k])]
    IN IF b[4] # 0 \/ b[3] > 16 THEN Bad ELSE b[1] + (256 * b[2]) + (65536 * b[3])

Named(text) == [state |-> "CONFIRMED", valid |-> TRUE, ranges |-> <<>>, text |-> text]

decoded_identifier(x) ==
    LET cps == IF x.declared > kMaxTableCount \/ x.declared * 4 > Len(x.bytes) THEN <<Bad>> ELSE [i \in 1 .. x.declared |-> Scalar(x.bytes, i)]
    IN IF \E i \in DOMAIN cps : cps[i] = Bad \/ ~IsScalar(cps[i]) THEN Failed ELSE Named(FlattenSeq([i \in DOMAIN cps |-> append_utf8(cps[i])]))

\* A name of the old versions is filled up with at least one NUL.
legacy_identifier(x) ==
    LET decoded == [i \in 1 .. x.declared |-> Unmasked(x.bytes[i])]
        nul == FirstWhere(Len(decoded), LAMBDA i : decoded[i] = 0)
        text == SubSeq(decoded, 1, nul - 1)
    IN IF x.declared < 4 \/ x.declared > kMaxTableCount \/ x.declared % 4 # 0 \/ x.declared > Len(x.bytes) THEN Failed
       ELSE IF nul <= 1 \/ (\E i \in nul .. Len(decoded) : decoded[i] # 0) \/ ~valid_utf8(text) THEN Failed
       ELSE Named(text)

ScriptName(x) == IF x.version = 4 THEN decoded_identifier(x) ELSE legacy_identifier(x)

\* ---------------------------------------------------------------- inputs

\* A value as the engine writes it, its parts not included: cells, the number of
\* parts, and what a reader of a summary sees of it (never: not all of it).
Node(cells, parts, units) == [cells |-> cells, parts |-> parts, units |-> units, text |-> FALSE, never |-> FALSE, bad |-> FALSE]

Never(node) == [node EXCEPT !.never = TRUE]

AsText(node) == [node EXCEPT !.text = TRUE]

Spoiled(node) == [node EXCEPT !.bad = TRUE]

Cells(n) == [i \in 1 .. n |-> 1]

Padded(n) == Cells((n + 3) \div 4)

\* Types of a fixed size: how many cells, and how many if it is wide.
Sized(version) ==
    IF version = 4
    THEN {<<0, 0, 0>>, <<1, 1, 0>>, <<2, 1, 2>>, <<3, 1, 2>>, <<5, 2, 4>>, <<6, 2, 0>>, <<7, 4, 8>>, <<8, 4, 0>>, <<9, 3, 6>>, <<10, 3, 0>>, <<11, 6, 12>>, <<12, 4, 8>>,
          <<13, 4, 0>>, <<14, 4, 8>>, <<15, 4, 8>>, <<16, 6, 12>>, <<17, 9, 18>>, <<18, 12, 24>>, <<19, 16, 32>>, <<20, 4, 0>>}
    ELSE {<<0, 0, 0>>, <<1, 1, 0>>, <<2, 1, IF version = 3 THEN 2 ELSE 0>>, <<3, 1, IF version = 3 THEN 2 ELSE 0>>}

\* Types of a fixed size that are not shown.
Hidden(version) ==
    CASE version = 4 -> {<<23, 2, 0>>, <<25, 0, 0>>}
      [] version = 3 -> {<<5, 2, 0>>, <<6, 4, 0>>, <<7, 3, 0>>, <<8, 6, 0>>, <<9, 4, 0>>, <<10, 4, 0>>, <<11, 6, 0>>, <<12, 9, 0>>, <<13, 12, 0>>, <<14, 4, 0>>, <<16, 0, 0>>}
      [] OTHER -> {<<5, 2, 0>>, <<6, 4, 0>>, <<7, 3, 0>>, <<8, 6, 0>>, <<9, 4, 0>>, <<10, 4, 0>>, <<11, 6, 0>>, <<12, 9, 0>>, <<13, 12, 0>>, <<14, 4, 0>>, <<17, 0, 0>>, <<18, 0, 0>>}

\* Arrays of plain numbers: cells of an item, and of a wide one.
Arrays(version) ==
    CASE version = 4 -> {<<30, 1, 0>>, <<31, 2, 0>>, <<32, 1, 0>>, <<33, 2, 0>>, <<35, 2, 4>>, <<36, 3, 6>>, <<37, 4, 0>>, <<38, 4, 8>>}
      [] version = 3 -> {<<21, 1, 0>>, <<22, 1, 0>>, <<24, 2, 0>>, <<25, 3, 0>>, <<26, 4, 0>>}
      [] OTHER -> {<<23, 1, 0>>, <<24, 1, 0>>, <<26, 2, 0>>, <<27, 3, 0>>, <<28, 4, 0>>}

\* The other types of a version; an object is written by its number only.
Types(version) ==
    CASE version = 4 -> [texts |-> {4, 21}, path |-> 22, dictionary |-> 27, array |-> 28, bytes |-> 29, strings |-> 34, end |-> 39]
      [] version = 3 -> [texts |-> {4}, path |-> 15, dictionary |-> 18, array |-> 19, bytes |-> 20, strings |-> 23, end |-> 27]
      [] OTHER -> [texts |-> {4}, path |-> 16, dictionary |-> 20, array |-> 21, bytes |-> 22, strings |-> 25, end |-> 29]

Headed(type, wide, cells) == Node(<<type + IF wide THEN TypeBits ELSE 0>> \o cells, 0, 1)

TextOf(type, n) == AsText([Headed(type, FALSE, <<n>> \o Padded(n)) EXCEPT !.units = n])

\* A path of one-byte texts.
PathOf(version, names, subnames, flags) ==
    LET all == names + subnames + flags \div 2
        node == Headed(Types(version).path, FALSE, <<TopBit + names, subnames, flags>> \o FlattenSeq([i \in 1 .. all |-> <<1, 1>>]))
    IN AsText([node EXCEPT !.units = (flags % 2) + (2 * all) - Min({names, 1}), !.bad = all > kMaxTableCount, !.never = version # 4])

\* An array of what it is said to hold, a dictionary of n entries.
ArrayOf(version, kind, declared, n) ==
    [Node(<<Types(version).array + TypeBits * kind>> \o declared \o <<n>>, n, IF n = 0 THEN 2 ELSE (2 * n) + 1) EXCEPT !.never = version # 4 \/ n > SummaryItems, !.bad = n > kMaxTableCount]

DictionaryOf(version, kinds, declared, n) ==
    [Node(<<Types(version).dictionary + TypeBits * kinds>> \o declared \o <<n>>, 2 * n, IF n = 0 THEN 2 ELSE (4 * n) + 1) EXCEPT !.never = version # 4 \/ n > SummaryItems, !.bad = n > kMaxTableCount]

Fixed(version) ==
    LET both == UNION {{Never(Headed(t[1], FALSE, Cells(t[2])))} : t \in Hidden(version)}
        shown(t) == IF t[2] = 0 THEN 1 ELSE t[2]
    IN both \cup {[Headed(t[1], FALSE, Cells(t[2])) EXCEPT !.units = shown(t)] : t \in Sized(version)}
            \cup {[Headed(t[1], TRUE, Cells(t[3])) EXCEPT !.units = shown(t)] : t \in {s \in Sized(version) : s[3] # 0}}
            \cup {Spoiled(Headed(t[1], TRUE, Cells(2 * t[2]))) : t \in {s \in Sized(version) \cup Hidden(version) : s[3] = 0}}

\* Arrays of numbers, bytes and texts, with a count that is the last allowed.
Filled(version) ==
    LET whole(t, n, wide) == [Headed(t[1], wide, <<n>> \o Cells(n * IF wide THEN t[3] ELSE t[2])) EXCEPT !.never = version # 4 \/ n # 0, !.bad = n > kMaxTableCount \/ (wide /\ t[3] = 0)]
        bytes(n) == [Headed(Types(version).bytes, FALSE, <<n>> \o Padded(n)) EXCEPT !.never = version # 4 \/ n # 0]
        nul == IF version = 2 THEN <<4, NulEnd>> ELSE <<4, 1>>
        items(n) == [Headed(Types(version).strings, FALSE, <<n>> \o FlattenSeq([i \in 1 .. n |-> nul])) EXCEPT !.never = version # 4 \/ n # 0, !.bad = n > kMaxTableCount]
    IN UNION {{whole(t, n, wide) : n \in {0, 1, kMaxTableCount, kMaxTableCount + 1}, wide \in BOOLEAN} : t \in Arrays(version)}
       \cup {bytes(n) : n \in {0, 1, 4, 5}} \cup {items(n) : n \in {0, 2, kMaxTableCount, kMaxTableCount + 1}}

\* Texts that are none, and what no version writes.
Wrong(version) ==
    LET broken(node, i) == Spoiled([node EXCEPT !.cells[i] = BadText])
        text == TextOf(4, 5)
    IN {broken(text, 3), broken(text, 4), broken(PathOf(version, 1, 0, 0), 6), Spoiled([PathOf(version, 1, 0, 0) EXCEPT !.cells[2] = 1]),
        Spoiled([PathOf(version, 1, 0, 0) EXCEPT !.cells[4] = 4]), Spoiled([PathOf(version, 1, 0, 0) EXCEPT !.cells[3] = AllBits, !.cells[4] = 2]),
        Spoiled(Headed(Types(version).end, FALSE, Cells(4))), Spoiled([text EXCEPT !.cells[1] = @ + OtherBits]),
        Spoiled([Headed(Types(version).strings, FALSE, <<1, 4, 1>>) EXCEPT !.cells[4] = IF version = 2 THEN 1 ELSE BadText])}

\* What only one version has.
Special(version) ==
    CASE version = 4 -> {Never(Headed(24, TRUE, Cells(2))), Spoiled(Headed(24, FALSE, Cells(1))), Never(Headed(26, FALSE, <<2, 1, 1, 1>>)),
                         Spoiled(ArrayOf(4, 1, <<39>>, 0)), Spoiled(ArrayOf(4, 2, <<1, BadText>>, 0)), Spoiled(ArrayOf(4, 4, <<>>, 0)), Spoiled(DictionaryOf(4, 16, <<>>, 0))}
                        \cup {ArrayOf(4, k, IF k = 1 THEN <<38>> ELSE <<1, 1>>, 0) : k \in 1 .. 3}
                        \cup {DictionaryOf(4, k + 4 * v, (CASE k = 0 -> <<>> [] k = 1 -> <<0>> [] OTHER -> <<1, 1>>) \o (CASE v = 0 -> <<>> [] v = 1 -> <<7>> [] OTHER -> <<5, 1, 1>>), 0) : k, v \in 0 .. 3}
      [] version = 3 -> {Never(Headed(17, TRUE, Cells(2))), Spoiled(Headed(17, FALSE, Cells(1))), Spoiled(ArrayOf(3, 1, <<1>>, 0))}
      [] OTHER -> {Never(Headed(15, FALSE, <<f, 1, 1, 1, n>> \o Padded(n))) : f \in {0, 22}, n \in {0, 3, 4}} \cup {Spoiled(Headed(15, FALSE, <<23, 1, 1, 1, 1, 1>>)), Spoiled(Headed(25, FALSE, <<1, 0>>))}
                  \cup {Never(Headed(19, FALSE, <<v, 0, 4 * n>> \o Cells(n - 3))) : <<v, n>> \in {<<0, 3>>, <<1, 5>>, <<2, 3>>, <<3, 4>>, <<4, 5>>, <<5, 4>>, <<6, 4>>, <<7, 3>>, <<8, 3>>}}
                  \cup {Spoiled(Headed(19, FALSE, <<v, 0, 4 * n>> \o Cells(n - 3))) : <<v, n>> \in {<<0, 4>>, <<1, 4>>, <<9, 3>>}}

Paths(version) == {PathOf(version, n, m, f) : n \in 0 .. 3, m \in {0, 1, kMaxTableCount - 3, kMaxTableCount - 2}, f \in 0 .. 3}

Singles(version) == Fixed(version) \cup Filled(version) \cup Wrong(version) \cup Special(version) \cup Paths(version)
                    \cup {TextOf(t, n) : t \in Types(version).texts, n \in {0, 1, 4, SummaryCap, SummaryCap + 1}}

\* Values for containers.
Marked(node) == [node EXCEPT !.cells[2] = @ + TopBit]

Some(version) ==
    {Headed(0, FALSE, <<>>), TextOf(4, 3), ArrayOf(version, 0, <<>>, 0), ArrayOf(version, 0, <<>>, 1), ArrayOf(version, 0, <<>>, 2), Marked(DictionaryOf(version, 0, <<>>, 1))}

Script(version, nodes, count, cut) ==
    LET cells == FlattenSeq([i \in DOMAIN nodes |-> nodes[i].cells])
    IN [part |-> "gdvalue", version |-> version, nodes |-> nodes, cells |-> cells, size |-> 4 * Len(cells) - cut, count |-> count]

Nested == [i \in 1 .. 3 |-> ArrayOf(4, 0, <<>>, 1)]

Entries(n) == <<ArrayOf(4, 0, <<>>, n)>> \o [i \in 1 .. n |-> Headed(0, FALSE, <<>>)]

ValueInput(x) ==
    \/ \E version \in {2, 3, 4}, cut \in {0, 1, 4} : \E node \in Singles(version) : x = Script(version, <<node>>, 1, cut)
    \/ \E version \in {2, 3, 4}, count \in {1, 2} : \E n \in IF version = 4 THEN 2 .. 4 ELSE 2 .. 3 : \E nodes \in [1 .. n -> Some(version)] : x = Script(version, nodes, count, 0)
    \/ \E node \in {m \in Singles(4) : Len(m.cells) < 12} : \/ x = Script(4, <<ArrayOf(4, 0, <<>>, 1), node>>, 1, 0)
                                                            \/ x = Script(4, <<ArrayOf(4, 0, <<>>, 2), node, TextOf(4, 3)>>, 1, 0)
                                                            \/ x = Script(4, <<DictionaryOf(4, 0, <<>>, 1), TextOf(4, 3), node>>, 1, 0)
    \/ \E n \in 1 .. 6 : x = Script(4, Entries(n), 1, 0)
    \/ \E n \in 2 .. 5 : x = Script(4, [Entries(n) EXCEPT ![2] = TextOf(4, SummaryCap)], 1, 0)
    \/ \E n \in 0 .. SummaryCap : x = Script(4, <<ArrayOf(4, 0, <<>>, 2), TextOf(4, n), TextOf(4, 3)>>, 1, 0)
    \/ \E last \in Some(4) : x = Script(4, Nested \o <<last, Headed(0, FALSE, <<>>)>>, 1, 0)

\* Characters at the limits of the forms, and beside them.
LeadBytes == {0, 65, 127, 128, 191, 192, 193, 194, 223, 224, 225, 237, 238, 239, 240, 241, 243, 244, 245, 248, 255}

NextBytes == {65, 127, 128, 143, 144, 159, 160, 191, 192}

NameBytes == {<<>>} \cup {<<a>> : a \in LeadBytes} \cup {<<a, b>> : a \in LeadBytes, b \in NextBytes}
             \cup {<<a, b, c>> : a \in LeadBytes, b \in NextBytes, c \in {65, 128, 191, 224}} \cup {<<a, b, c, d>> : a \in {224, 239, 240, 244, 245}, b \in NextBytes, c \in {128, 191}, d \in {65, 127, 128, 191, 194}}

\* The mask of the engine.
EngineMask == 182

Masked(bytes) == [i \in DOMAIN bytes |-> bytes[i] ^^ EngineMask]

Word(cp) == <<cp % 256, (cp \div 256) % 256, (cp \div 65536) % 256, 0>>

CodePoints == {0, 65, 127, 128, 2047, 2048, 55295, 55296, 57343, 57344, 65535, 65536, 1114111, 1114112}

OldName(text, zeros, declared) ==
    [part |-> "gdname", size |-> 99, version |-> 3, declared |-> declared, bytes |-> Masked(text \o [i \in 1 .. zeros |-> 0])]

NameInput(x) ==
    \/ \E text \in NameBytes : x = OldName(text, 4 - (Len(text) % 4), 4 * (1 + (Len(text) \div 4)))
    \/ \E text \in {<<>>, <<65>>, <<195, 164>>, <<65, 0, 65>>, <<65, 65, 65, 65>>}, zeros \in 0 .. 5, declared \in {0, 3, 4, 5, 8, 12} : x = OldName(text, zeros, declared)
    \/ \E a, b \in CodePoints, top \in {0, 1}, declared \in {0, 1, 2, 3} :
         x = [part |-> "gdname", size |-> 99, version |-> 4, declared |-> declared, bytes |-> Masked(Word(a) \o [Word(b) EXCEPT ![4] = top])]
    \/ \E n \in {kMaxTableCount, kMaxTableCount + 1} :
         x = [part |-> "gdname", size |-> 99, version |-> 4, declared |-> n, bytes |-> Masked(FlattenSeq([i \in 1 .. n |-> Word(65)]))]

\* ---------------------------------------------------------------- reference

\* The last node of the tree that begins with a node, 0 if the stream ends first.
LastOf(ns, j) == FirstWhere(Len(ns), LAMBDA k : k >= j /\ SumOver(k - j + 1, LAMBDA i : ns[j + i - 1].parts - 1) = -1)

Height(ns, j, i) == Cardinality({k \in j .. i - 1 : LastOf(ns, k) >= i})

\* The trees one after the other.
Trees(ns, count) ==
    FoldLeft(LAMBDA ts, i : LET first == IF ts = <<>> THEN 1 ELSE ts[Len(ts)].last + 1
                                last == IF ts # <<>> /\ ts[Len(ts)].last = 0 THEN 0 ELSE LastOf(ns, first)
                            IN Append(ts, [first |-> first, last |-> last]), <<>>, [i \in 1 .. count |-> i])

CellsOf(ns, first, last) == SumOver(last - first + 1, LAMBDA i : Len(ns[first + i - 1].cells))

WellWritten(x, ts) ==
    /\ \A t \in Range(ts) : t.last # 0 /\ \A i \in t.first .. t.last : ~x.nodes[i].bad /\ Height(x.nodes, t.first, i) <= kMaxVariantDepth
    /\ ts[Len(ts)].last <= kMaxVariantNodes
    /\ 4 * CellsOf(x.nodes, 1, ts[Len(ts)].last) <= x.size

IsContainer(node) == node.parts # 0 \/ Type(node.cells[1]) \in {27, 28}

\* All of a constant is shown if nothing in it is too deep, too many, too long or
\* of a kind that is not shown.
IsShown(ns, t) ==
    /\ \A i \in t.first .. t.last : ~ns[i].never /\ (IsContainer(ns[i]) => Height(ns, t.first, i) < SummaryDepth)
    /\ IsContainer(ns[t.first]) \/ ns[t.first].text => SumOver(t.last - t.first + 1, LAMBDA i : ns[t.first + i - 1].units) <= SummaryCap

\* What the engine writes is read to its end, everything else is refused, a summary
\* that is said to be complete shows all of the constant, and none grows with the
\* constant: at most an entry that was cut and two marks are over the limit.
ValueExact(x, r) ==
    LET ts == Trees(x.nodes, x.count)
    IN /\ r.valid <=> WellWritten(x, ts)
       /\ r.valid => /\ r.nodes = ts[Len(ts)].last
                     /\ r.ranges = [i \in DOMAIN ts |-> range(4 * CellsOf(x.nodes, 1, ts[i].first - 1), 4 * CellsOf(x.nodes, ts[i].first, ts[i].last))]
                     /\ \A i \in DOMAIN ts : /\ r.summaries[i].complete <=> IsShown(x.nodes, ts[i])
                                            /\ r.summaries[i].len <= SummaryCap + 3

\* The well-formed characters of Unicode, by their first two bytes.
Character(b) ==
    /\ \A i \in 2 .. Len(b) : b[i] \in 128 .. 191
    /\ CASE Len(b) = 1 -> b[1] < 128
         [] Len(b) = 2 -> b[1] \in 194 .. 223
         [] Len(b) = 3 -> b[1] \in 224 .. 239 /\ (b[1] = 224 => b[2] >= 160) /\ (b[1] = 237 => b[2] < 160)
         [] OTHER -> b[1] \in 240 .. 244 /\ (b[1] = 240 => b[2] >= 144) /\ (b[1] = 244 => b[2] < 144)

WellFormed(text) ==
    LET next(i) == {k \in i + 1 .. Len(text) + 1 : k - i <= 4 /\ Character(SubSeq(text, i, k - 1))} IN Len(text) + 1 \in Closure({1}, next, Len(text))

CodePoint(b) ==
    CASE Len(b) = 1 -> b[1]
      [] Len(b) = 2 -> (b[1] - 192) * 64 + b[2] - 128
      [] Len(b) = 3 -> ((b[1] - 224) * 64 + b[2] - 128) * 64 + b[3] - 128
      [] OTHER -> (((b[1] - 240) * 64 + b[2] - 128) * 64 + b[3] - 128) * 64 + b[4] - 128

\* The bytes after the mask is taken off.
Plain(x) == Masked(x.bytes)

NulFilled(d, text) == \E n \in 1 .. Len(d) - 1 : text = SubSeq(d, 1, n) /\ (\A i \in 1 .. n : d[i] # 0) /\ \A i \in n + 1 .. Len(d) : d[i] = 0

\* The scalars of a masked name.
Scalars(x) == [i \in 1 .. x.declared |-> LET w == SubSeq(Plain(x), 4 * i - 3, 4 * i) IN IF w[4] # 0 THEN Bad ELSE (w[3] * 256 + w[2]) * 256 + w[1]]

\* Each character stands in the text in its shortest form.
Spells(text, cps) ==
    LET width(cp) == Cardinality({l \in {-1, 127, 2047, 65535} : cp > l})
        from(i) == SumOver(i, LAMBDA j : width(cps[j]))
    IN /\ Len(text) = from(Len(cps))
       /\ \A i \in DOMAIN cps : LET b == SubSeq(text, from(i - 1) + 1, from(i)) IN Character(b) /\ CodePoint(b) = cps[i]

\* A name is a text that encodes the characters of the script, whatever the
\* encoding it had there.
NameExact(x, r) ==
    IF x.version = 4
    THEN LET fits == x.declared <= kMaxTableCount /\ 4 * x.declared <= Len(x.bytes)
             scalars == fits /\ \A cp \in Range(Scalars(x)) : cp \in 0 .. 55295 \/ cp \in 57344 .. 1114111
         IN (r.valid <=> scalars) /\ (r.valid => Spells(r.text, Scalars(x)))
    ELSE LET d == SubSeq(Plain(x), 1, x.declared)
             fits == x.declared \in 4 .. Min({kMaxTableCount, Len(x.bytes)}) /\ x.declared % 4 = 0
         IN /\ r.valid => fits /\ NulFilled(d, r.text) /\ WellFormed(r.text)
            /\ ~r.valid => ~(fits /\ \E n \in 1 .. Len(d) - 1 : NulFilled(d, SubSeq(d, 1, n)) /\ WellFormed(SubSeq(d, 1, n)))
=============================================================================
