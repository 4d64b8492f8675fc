------------------------------ MODULE GdScript ------------------------------
(***************************************************************************)
(* Compiled scripts of Godot (core/gdscript_buffer.cpp): validation of the *)
(* official token buffers, inference of the record widths of a modified    *)
(* one, and the analysis that reads the buffer again with the layout that  *)
(* was confirmed.  Versions 10 and 13 have a layout of their own.          *)
(*                                                                         *)
(* The tables in front of the tail are given by their sizes, the tail is a *)
(* sequence of cells.  A cell holds 16 * data + 8 (if wide) + type.  A     *)
(* narrow token of version 101 is one cell, a wide one is followed by a    *)
(* cell with its line; of the old versions the second cell is the data.    *)
(***************************************************************************)
EXTENDS Words

CONSTANTS kMaxTableCount, kMaxVariantDepth, kMaxVariantNodes, max_decompressed_size

\* Names (types 1 and 2 of the source) are type 1 here, literals (3) type 2.
tokenizer_profile(version) ==
    CASE version = 100 -> [header |-> 5, max |-> 5, error |-> 3]
      [] version = 101 -> [header |-> 4, max |-> 6, error |-> 4]

\* The enumeration keyword moved all later tokens by one.
godot2_token_profile_from_eof(type) ==
    CASE type = 5 -> [max |-> 7, error |-> 4, eof |-> 5, cursor |-> 6, newline |-> 3]
      [] type = 6 -> [max |-> 8, error |-> 5, eof |-> 6, cursor |-> 7, newline |-> 4]
      [] OTHER -> [max |-> 0, error |-> 0, eof |-> 0, cursor |-> 0, newline |-> 0]

\* A constant is the tree of its parts, each named by the way to it.
FitsIn(c, nodes) ==
    /\ \A p \in c.tree : Len(p) <= kMaxVariantDepth
    /\ nodes + Cardinality(c.tree) <= kMaxVariantNodes
    /\ c.types_ok

\* Identifiers, then constants; the nodes of all constants are counted together.
\* The end of the tables, or Bad.
parse_layout_prefix(x, header) ==
    LET counts_ok == /\ Len(x.ids) <= kMaxTableCount /\ Len(x.consts) <= kMaxTableCount
                     /\ x.tokens <= kMaxTableCount /\ x.lines <= x.tokens
        nodes(k) == SumOver(k, LAMBDA i : Cardinality(x.consts[i].tree))
        size == header + SumOver(Len(x.ids), LAMBDA i : 1 + x.ids[i].len) + SumOver(Len(x.consts), LAMBDA i : x.consts[i].len)
    IN IF /\ counts_ok /\ \A i \in DOMAIN x.ids : x.ids[i].text /\ \A k \in DOMAIN x.consts : FitsIn(x.consts[k], nodes(k - 1))
          /\ size <= x.payload
       THEN size ELSE Bad

Type(v) == v % 8

Wide(v) == (v \div 8) % 2 = 1

Data(v) == v \div 16

\* A line map: pairs of a token and a value, no token twice.
MapOk(map, tokens) ==
    /\ \A i \in DOMAIN map : map[i][1] < tokens
    /\ \A i, j \in DOMAIN map : i < j => map[i][1] # map[j][1]

Pairs(tail, from, n) == [i \in 1 .. n |-> <<tail[from + 2 * i - 1], tail[from + 2 * i]>>]

\* The tokens one after the other; at is Bad once one does not fit.
OfficialTokens(tail, from, n) ==
    FoldLeft(LAMBDA s, i :
                IF s.at = Bad \/ s.at >= Len(tail) THEN [s EXCEPT !.at = Bad]
                ELSE LET v == tail[s.at + 1] IN
                     IF Wide(v) THEN IF s.at + 2 > Len(tail) THEN [s EXCEPT !.at = Bad]
                                     ELSE [at |-> s.at + 2, list |-> Append(s.list, [wide |-> TRUE, type |-> Type(v), data |-> Data(v), line |-> tail[s.at + 2]])]
                     ELSE [at |-> s.at + 1, list |-> Append(s.list, [wide |-> FALSE, type |-> Type(v), data |-> 0, line |-> Data(v)])],
             [at |-> from, list |-> <<>>], [i \in 1 .. n |-> i])

\* A token that refers to a table says where, another says nothing.
Reference(x, t, error) ==
    CASE t.type = 1 -> t.wide /\ t.data < Len(x.ids)
      [] t.type \in {2, error} -> t.wide /\ t.data < Len(x.consts)
      [] OTHER -> t.data = 0

OfficialTail(x, profile) ==
    LET n == x.lines
        lines == Pairs(x.tail, 0, n)   columns == Pairs(x.tail, 2 * n, n)
        toks == OfficialTokens(x.tail, 4 * n, x.tokens)
    IN /\ Len(x.tail) >= 4 * n
       /\ MapOk(lines, x.tokens) /\ MapOk(columns, x.tokens)
       /\ {l[1] : l \in Range(lines)} = {c[1] : c \in Range(columns)}
       /\ toks.at = Len(x.tail)
       /\ \A i \in DOMAIN toks.list :
            /\ toks.list[i].type < profile.max /\ Reference(x, toks.list[i], profile.error)
            /\ \A l \in Range(lines) : l[1] = i - 1 => l[2] = toks.list[i].line

\* A compressed payload is one frame that gives exactly the declared size.
Decompresses(x) ==
    x.declared # 0 => x.declared <= max_decompressed_size /\ x.frame_ok /\ x.output = x.declared

validate_contents(x) == parse_layout_prefix(x, tokenizer_profile(x.version).header) # Bad /\ OfficialTail(x, tokenizer_profile(x.version))

\* The old tail: the map ascends and begins with the first token, wide tokens are
\* those that need it.
LegacyTokens(tail, from, n) ==
    FoldLeft(LAMBDA s, i :
                IF s.at = Bad \/ s.at >= Len(tail) THEN [s EXCEPT !.at = Bad]
                ELSE LET v == tail[s.at + 1] IN
                     IF ~Wide(v) THEN [at |-> s.at + 1, list |-> Append(s.list, [wide |-> FALSE, type |-> Type(v), data |-> 0])]
                     ELSE IF s.at + 2 > Len(tail) \/ tail[s.at + 2] = 0 THEN [s EXCEPT !.at = Bad]
                     ELSE [at |-> s.at + 2, list |-> Append(s.list, [wide |-> TRUE, type |-> Type(v), data |-> tail[s.at + 2]])],
             [at |-> from, list |-> <<>>], [i \in 1 .. n |-> i])

parse_legacy_tail(x) ==
    LET map == Pairs(x.tail, 0, x.lines)
    IN /\ Len(x.tail) >= 2 * x.lines
       /\ MapOk(map, x.tokens) /\ \E i \in DOMAIN map : map[i][1] = 0
       /\ \A i \in 2 .. Len(map) : map[i][1] > map[i - 1][1] /\ map[i][2] >= map[i - 1][2]
       /\ LegacyTokens(x.tail, 2 * x.lines, x.tokens).at = Len(x.tail)

validate_legacy_token_semantics(x, toks, sem) ==
    \A i \in DOMAIN toks :
        /\ toks[i].type < sem.max /\ toks[i].type \notin {sem.error, sem.cursor}
        /\ CASE toks[i].type = 1 -> toks[i].data < Len(x.ids)
             [] toks[i].type = 2 -> toks[i].data < Len(x.consts)
             [] toks[i].type = sem.newline -> TRUE
             [] OTHER -> toks[i].data = 0
        /\ (i = Len(toks)) = (toks[i].type = sem.eof)

Semantics(x, toks) == godot2_token_profile_from_eof(IF x.version = 13 THEN 5 ELSE Last(toks).type)

validate_legacy(x) ==
    LET toks == LegacyTokens(x.tail, 2 * x.lines, x.tokens).list
    IN /\ x.tokens > 0 /\ x.lines > 0 /\ parse_layout_prefix(x, 4) # Bad
       /\ parse_legacy_tail(x) /\ validate_legacy_token_semantics(x, toks, Semantics(x, toks))

exact_official_v101_tail_geometry(x) == Len(x.tail) >= 4 * x.lines /\ OfficialTokens(x.tail, 4 * x.lines, x.tokens).at = Len(x.tail)

\* The records of a layout: a map entry has a token, a line and what else fits
\* in, a token has its word and perhaps a line.
FixedRecords(tail, from, n, width) == [i \in 1 .. n |-> SubSeq(tail, from + (i - 1) * width + 1, from + i * width)]

FixedTokens(x, tw, lw) ==
    LET recs == FixedRecords(x.tail, x.lines * lw, x.tokens, tw)
    IN [i \in DOMAIN recs |-> [wide |-> TRUE, type |-> recs[i][1] % 16, data |-> Data(recs[i][1]), line |-> IF tw = 2 THEN recs[i][2] ELSE Bad]]

\* Types out of the known domain are custom tokens and not looked into.
evaluate_fixed_layout(x, tw, lw) ==
    LET map == FixedRecords(x.tail, 0, x.lines, lw)
        toks == FixedTokens(x, tw, lw)
    IN /\ x.lines * lw + x.tokens * tw = Len(x.tail)
       /\ MapOk(map, x.tokens)
       /\ \A i \in DOMAIN toks :
            /\ toks[i].type < tokenizer_profile(101).max => Reference(x, toks[i], tokenizer_profile(101).error)
            /\ tw = 2 => \A l \in Range(map) : l[1] = i - 1 => l[2] = toks[i].line

Layouts_Widest(x) == {w \in {2} \X {2, 3, 4} : evaluate_fixed_layout(x, w[1], w[2])}

Layouts(x) == {w \in {1, 2} \X {2, 3, 4} : evaluate_fixed_layout(x, w[1], w[2])}

\* A buffer whose tail has the official geometry is not given another one.
infer_gdscript_layout(x) ==
    LET official == IF x.version \in {10, 13} THEN validate_legacy(x)
                    ELSE x.version \in {100, 101} /\ Decompresses(x) /\ validate_contents(x)
        ls == Layouts(x)
    IN IF ~x.magic THEN [state |-> "FAILED", layout |-> <<>>]
       ELSE IF official THEN [state |-> "CONFIRMED", layout |-> <<>>]
       ELSE IF x.version # 101 \/ ~Decompresses(x) \/ parse_layout_prefix(x, 4) = Bad \/ exact_official_v101_tail_geometry(x) \/ ls = {}
       THEN [state |-> "FAILED", layout |-> <<>>]
       ELSE IF Cardinality(ls) > 1 THEN [state |-> "AMBIGUOUS", layout |-> <<>>]
       ELSE [state |-> "CONFIRMED", layout |-> CHOOSE w \in ls : TRUE]

\* The line of a token: its own, or what the map says of it; of the old versions
\* that of the last entry not behind it.
EffectiveLine(map, i) == LET S == {l \in Range(map) : l[1] <= i - 1} IN (CHOOSE l \in S : \A k \in S : k[1] <= l[1])[2]

MappedLine(map, t, i) == IF t.line # Bad \/ ~\E l \in Range(map) : l[1] = i - 1 THEN t.line ELSE (CHOOSE l \in Range(map) : l[1] = i - 1)[2]

Buffer(x, w, map, raw) ==
    LET line(i) == IF x.version \in {10, 13} THEN EffectiveLine(map, i) ELSE MappedLine(map, raw[i], i)
    IN Confirmed(<<range(parse_layout_prefix(x, IF x.version = 100 THEN 5 ELSE 4), Len(x.tail))>>)
       @@ [layout |-> w, map |-> map, tokens |-> [i \in DOMAIN raw |-> raw[i] @@ [at |-> line(i)]]]

WithLayout(x, inferred) ==
    LET w == inferred.layout
        map == IF w = <<>> THEN Pairs(x.tail, 0, x.lines) ELSE FixedRecords(x.tail, 0, x.lines, w[2])
        raw == IF x.version \in {10, 13} THEN LegacyTokens(x.tail, 2 * x.lines, x.tokens).list
               ELSE IF w = <<>> THEN OfficialTokens(x.tail, 4 * x.lines, x.tokens).list ELSE FixedTokens(x, w[1], w[2])
    IN IF inferred.state = "FAILED" THEN Failed
       ELSE IF inferred.state = "AMBIGUOUS" THEN Partial(<<>>)
       ELSE Buffer(x, w, map, raw)

analyze_gdscript_buffer(x) == WithLayout(x, infer_gdscript_layout(x))

\* Calls of the base class's methods: one class is extended at the top, and the
\* call is in a block of a named function and in no block of a class.
Extends(toks) ==
    LET depth(i) == FoldLeft(LAMBDA d, t : IF t = "INDENT" THEN d + 1 ELSE IF t = "DEDENT" /\ d > 0 THEN d - 1 ELSE d, 0, SubSeq(toks, 1, i))
        class(i) == \E j \in 1 .. i - 1 : toks[j] = "CLASS" /\ \A k \in j .. i : toks[k] # "NEWLINE"
    IN {i \in DOMAIN toks : /\ toks[i] = "EXTENDS" /\ depth(i) = 0 /\ ~class(i)
                            /\ i < Len(toks) /\ toks[i + 1] = "IDENTIFIER" /\ (i + 2 <= Len(toks) => toks[i + 2] \in {"NEWLINE", "EOF"})}

\* What kind of block the indentation opens is left by the line before it.
Blocks(s, toks, i) ==
    LET t == toks[i]
    IN CASE t = "DEDENT" -> [s EXCEPT !.blocks = IF @ = <<>> THEN @ ELSE Front(@)]
         [] t = "INDENT" -> [s EXCEPT !.blocks = Append(@, s.pending), !.pending = "other"]
         [] t = "NEWLINE" -> [s EXCEPT !.pending = IF s.class THEN "class" ELSE IF s.func THEN "function" ELSE "other", !.class = FALSE, !.func = FALSE]
         [] OTHER -> LET u == [s EXCEPT !.class = @ \/ t = "CLASS", !.func = @ \/ (t = "FUNC" /\ i < Len(toks) /\ toks[i + 1] = "IDENTIFIER")]
                     IN IF /\ t = "SUPER" /\ "class" \notin Range(s.blocks) /\ "function" \in Range(s.blocks)
                           /\ i + 3 <= Len(toks) /\ SubSeq(toks, i + 1, i + 3) = <<"PERIOD", "IDENTIFIER", "OPEN">>
                        THEN [u EXCEPT !.calls = @ \cup {i}] ELSE u

native_super_calls(x) ==
    LET toks == x.toks
        s == FoldLeft(LAMBDA acc, i : Blocks(acc, toks, i), [blocks |-> <<>>, pending |-> "other", class |-> FALSE, func |-> FALSE, calls |-> {}],
                      [i \in DOMAIN toks |-> i])
    IN Confirmed(<<>>) @@ [calls |-> IF Cardinality(Extends(toks)) = 1 THEN s.calls ELSE {}]

GdBase ==
    [part |-> "gdscript", size |-> 40, magic |-> TRUE, version |-> 101, declared |-> 0, frame_ok |-> TRUE, output |-> 0, payload |-> 30,
     ids |-> <<[len |-> 1, text |-> TRUE]>>, consts |-> <<[tree |-> {<<>>}, types_ok |-> TRUE, len |-> 2]>>,
     lines |-> 1, tokens |-> 2, tail |-> <<0, 1, 0, 2, 16, 9, 3>>]

GdAlt ==
    [magic |-> {FALSE}, version |-> {10, 13, 99, 100}, declared |-> {5, 20}, output |-> {5}, frame_ok |-> {FALSE}, payload |-> {7, 8},
     ids |-> {<<>>, <<[len |-> 1, text |-> FALSE]>>, <<[len |-> 9, text |-> TRUE], [len |-> 12, text |-> TRUE]>>},
     consts |-> {<<>>, <<[tree |-> {<<>>, <<1>>, <<2>>, <<2, 1>>}, types_ok |-> TRUE, len |-> 5]>>,
                 <<[tree |-> {<<>>, <<1>>}, types_ok |-> TRUE, len |-> 3], [tree |-> {<<>>, <<1>>}, types_ok |-> TRUE, len |-> 3]>>,
                 <<[tree |-> {<<>>}, types_ok |-> FALSE, len |-> 2]>>},
     lines |-> {0, 2, 3}, tokens |-> {1, 3, 4}]

\* Tails of every length that some layout has, over cells that are tokens, map
\* entries and lines at the same time.
GdTails == UNION {[1 .. n -> {0, 1, 9}] : n \in 4 .. 6} \cup [1 .. 7 -> {1, 9}] \cup [1 .. 8 -> {0, 9}]

LegacyTails == {<<0, 1>> \o t : t \in UNION {[1 .. n -> {0, 1, 2, 5, 6, 9}] : n \in 2 .. 4}} \cup {<<1, 0, 0, 5>>, <<0, 1, 11, 1, 5>>, <<0, 1, 11, 0, 5>>}

GdInput(x) ==
    \/ IsVariant(x, GdBase, GdAlt)
    \/ \E t \in GdTails : x = [GdBase EXCEPT !.tail = t]
    \/ \E t \in LegacyTails, v \in {10, 13} : x = [GdBase EXCEPT !.tail = t, !.version = v]
    \/ \E t \in {<<0, 1, 1, 2, 0, 0>>, <<1, 2, 0, 1, 0, 0>>, <<0, 1, 0, 1, 0, 0>>, <<0, 1, 1, 2, 1, 0, 0, 0, 16, 32>>} :
         x = [GdBase EXCEPT !.lines = 2, !.tokens = 2, !.tail = t]

CallInputs ==
    LET line == {<<"CLASS", "IDENTIFIER", "NEWLINE", "INDENT">>, <<"FUNC", "IDENTIFIER", "NEWLINE", "INDENT">>, <<"IF", "NEWLINE", "INDENT">>,
                 <<"SUPER", "PERIOD", "IDENTIFIER", "OPEN", "NEWLINE">>, <<"DEDENT">>, <<"EXTENDS", "IDENTIFIER", "NEWLINE">>}
    IN {[part |-> "gdcalls", size |-> 0, toks |-> <<"EXTENDS", "IDENTIFIER", "NEWLINE">> \o FlattenSeq(ls)] : ls \in UNION {[1 .. n -> line] : n \in 1 .. 4}}

\* A confirmed buffer is its analysis: written back in the layout reported, the
\* tokens and the map give the tail; with another layout the tail means nothing,
\* and a buffer of the old versions has one token set.
GdExact(x, r) ==
    LET official(t) == IF t.wide THEN <<16 * t.data + 8 + t.type, t.line>> ELSE <<16 * t.line + t.type>>
        legacy(t) == IF t.wide THEN <<8 + t.type, t.data>> ELSE <<t.type>>
        fixed(t) == IF r.layout[1] = 2 THEN <<16 * t.data + t.type, t.line>> ELSE <<16 * t.data + t.type>>
        write(f(_)) == FlattenSeq([i \in DOMAIN r.tokens |-> f(r.tokens[i])])
        map == FlattenSeq(r.map)
    IN r.state = "CONFIRMED" =>
         /\ Len(r.tokens) = x.tokens /\ Len(r.map) = x.lines
         /\ CASE x.version \in {10, 13} -> x.tail = map \o write(legacy)
              [] r.layout = <<>> -> x.tail = map \o SubSeq(x.tail, 2 * x.lines + 1, 4 * x.lines) \o write(official)
              [] OTHER -> x.tail = map \o write(fixed)
         /\ \A l \in Range(r.map) : r.tokens[l[1] + 1].at = l[2]
         /\ r.layout # <<>> => \A w \in {1, 2} \X {2, 3, 4} : evaluate_fixed_layout(x, w[1], w[2]) => w = r.layout
         /\ x.version = 10 => LET v == {k \in {5, 6} : validate_legacy_token_semantics(x, r.tokens, godot2_token_profile_from_eof(k))} IN Cardinality(v) = 1
         /\ \A i \in DOMAIN r.tokens : r.tokens[i].type = 1 => r.tokens[i].data < Len(x.ids)

\* Where a call is: the blocks that are open there, each known by the line in
\* front of its indentation.
CallsExact(x, r) ==
    LET t == x.toks
        open(j, i) == /\ t[j] = "INDENT" /\ j < i
                      /\ \A k \in j + 1 .. i : Cardinality({m \in j .. k : t[m] = "INDENT"}) > Cardinality({m \in j .. k : t[m] = "DEDENT"})
        opener(j) == {m \in 1 .. j - 2 : \A k \in m .. j - 2 : t[k] \notin {"NEWLINE", "INDENT", "DEDENT"}}
        inside(i, word) == \E j \in DOMAIN t : open(j, i) /\ \E m \in opener(j) : t[m] = word
    IN r.state # "NOT_RUN" =>
         r.calls = IF Cardinality({i \in DOMAIN t : t[i] = "EXTENDS" /\ ~\E j \in DOMAIN t : open(j, i)}) # 1 THEN {}
                   ELSE {i \in DOMAIN t : t[i] = "SUPER" /\ inside(i, "FUNC") /\ ~inside(i, "CLASS")}
=============================================================================
