------------------------------- MODULE GodotPck -------------------------------
(***************************************************************************)
(* Packs of Godot (extract/godot.cpp): the search for the header, the      *)
(* directory, the keys found in a native image and their validation by     *)
(* what they decrypt, the extraction, and the same for a pack that lies    *)
(* beside the image.  At the end the recognizer of script sources and the  *)
(* reader of the legacy configuration.                                     *)
(*                                                                         *)
(* Units: the fixed header is two long, every later field one, the         *)
(* reserved words two, an entry of the directory two, the head of an       *)
(* encrypted stream one.  A stream decrypts under its own key only, unless *)
(* it is empty: then nothing depends on the key.                           *)
(***************************************************************************)
EXTENDS Words

CONSTANTS kMaxEntries, kMaxDistinctKeyCandidates, kMaxProbeEntries, kMaxScriptValidations,
          kMaxEncryptedFileProbes, kMaxStream, max_output_bytes, max_output_files, kMaxStringArray

NoKey == 0

NoPack == [valid |-> FALSE, validated |-> FALSE, modified |-> FALSE, off |-> 0, enc |-> FALSE, count |-> 0, entries |-> <<>>]

decrypt_stream(x, at, s, key) ==
    /\ at + 1 <= x.size /\ s.len <= kMaxStream
    /\ at + 1 + 2 * ((s.len + 1) \div 2) <= x.size
    /\ s.md5 /\ (s.len = 0 \/ s.key = key)

Ordinary(e) == ~e.removal /\ ~e.delta

\* The directory gives the offset from the base of the files since version 2.
Placed(h, base, e) == [e EXCEPT !.off = IF h.ver >= 2 THEN base + e.off ELSE e.off]

parse_entries(x, h, p, space, base) ==
    /\ h.count <= kMaxEntries /\ h.count <= Len(h.entries)
    /\ span_in_bounds(space, p, 2 * h.count)
    /\ \A i \in 1 .. h.count :
          LET e == h.entries[i]
          IN /\ e.path # "" /\ (h.ver >= 2 => checked_add(base, e.off))
             /\ Ordinary(e) /\ ~e.enc => span_in_bounds(x.size, Placed(h, base, e).off, e.size)

\* What stands in front of the directory: its place, or Bad.
Directory(x, off, h) ==
    LET fits(p, n) == span_in_bounds(x.size, p, n)
        p == off + 2 + IF h.ver >= 2 THEN 1 ELSE 0
        salt == IF h.sparse /\ h.enc /\ h.ver = 4 THEN 1 ELSE 0
    IN IF ~fits(off, 2) \/ h.ver > 4 \/ ~h.engine \/ (h.ver >= 2 /\ (~fits(off + 2, 1) \/ ~h.flags_ok)) THEN Bad ELSE
       IF h.ver \in {3, 4}
       THEN IF ~fits(p, 1) \/ ~checked_add(h.dir, off) \/ ~fits(p + 1, salt) \/ h.dir + off = 0 \/ ~fits(h.dir + off, 1)
            THEN Bad ELSE h.dir + off
       ELSE IF ~fits(p, 2) \/ ~fits(p + 2, 1) THEN Bad ELSE p + 2

parse_at(x, off, allow_bad_magic, key) ==
    IF off \notin DOMAIN x.packs THEN NoPack ELSE
    LET h == x.packs[off]
        moved == h.ver \in {3, 4} \/ (h.ver = 2 /\ h.rel)
        base == IF h.ver < 2 THEN 0 ELSE IF moved THEN h.base + off ELSE h.base
        p == Directory(x, off, h)
        pack == [valid |-> TRUE, validated |-> TRUE, modified |-> ~h.magic, off |-> off, enc |-> h.enc, count |-> h.count,
                 entries |-> [i \in 1 .. h.count |-> Placed(h, base, h.entries[i])]]
    IN CASE ~h.magic /\ ~allow_bad_magic -> NoPack
         [] (moved /\ ~checked_add(h.base, off)) \/ p = Bad -> NoPack
         [] h.count > kMaxEntries \/ (h.count > 0 /\ h.ver >= 2 /\ base >= x.size) -> NoPack
         [] OTHER ->
            IF ~h.enc THEN IF parse_entries(x, h, p + 1, x.size, base) THEN pack ELSE NoPack ELSE
            IF key = NoKey THEN [pack EXCEPT !.validated = FALSE, !.entries = <<>>] ELSE
            IF decrypt_stream(x, p + 1, h.stream, key) /\ parse_entries(x, h, 0, h.stream.len, base) THEN pack ELSE NoPack

-----------------------------------------------------------------------------
(* Keys: 32 bytes of data that code near one of the anchors loads.          *)

Usable(c) == c.data /\ c.value # NoKey

\* Coordinates of a value already kept are added to it; the first new value
\* beyond the budget ends the search.
key_candidates(x) ==
    LET add(s, c) ==
            IF s.exhausted \/ ~Usable(c) THEN s ELSE
            IF \E i \in DOMAIN s.kept : s.kept[i].value = c.value
            THEN [s EXCEPT !.kept = [i \in DOMAIN s.kept |-> IF s.kept[i].value = c.value
                      THEN [s.kept[i] EXCEPT !.vas = @ \cup {c.va}] ELSE s.kept[i]]] ELSE
            IF Len(s.kept) >= kMaxDistinctKeyCandidates THEN [s EXCEPT !.exhausted = TRUE]
            ELSE [s EXCEPT !.kept = Append(@, [value |-> c.value, vas |-> {c.va}])]
    IN IF x.pe64 THEN FoldLeft(add, [kept |-> <<>>, exhausted |-> FALSE], x.coords)
       ELSE [kept |-> <<>>, exhausted |-> FALSE]

decrypt_pck_entry_verified(x, e, key) ==
    /\ e.enc /\ Ordinary(e) /\ decrypt_stream(x, e.off, e.stream, key)
    /\ e.stream.len = e.size /\ e.md5

encrypted_script(e) == e.enc /\ Ordinary(e) /\ e.script

encrypted_other(e) == e.enc /\ Ordinary(e) /\ ~e.script

ScriptConfirmed(x, e, key) == decrypt_pck_entry_verified(x, e, key) /\ e.stream.text

validate_encrypted_scripts(x, entries, key) ==
    LET scripts == SelectSeq(entries, encrypted_script)
        n == IF Len(scripts) < kMaxScriptValidations THEN Len(scripts) ELSE kMaxScriptValidations
    IN \E i \in 1 .. n : ScriptConfirmed(x, scripts[i], key)

First(n, s) == SubSeq(s, 1, IF Len(s) < n THEN Len(s) ELSE n)

\* Scripts are probed first.
Probes(pack) == First(kMaxProbeEntries, SelectSeq(pack.entries, encrypted_script) \o SelectSeq(pack.entries, encrypted_other))

Opens(x, pack, key) ==
    IF pack.enc THEN parse_at(x, pack.off, pack.modified, key).validated
    ELSE \E e \in ToSet(Probes(pack)) : decrypt_pck_entry_verified(x, e, key)

\* The size in front of the last magic leads back to the start.
TrailerPack(x) ==
    IF x.trailer = Bad \/ x.trailer > x.size - 1 THEN NoPack ELSE parse_at(x, x.size - 1 - x.trailer, FALSE, NoKey)

\* The trailer names the start; else the first pack that validates, else the
\* first that may be one; else headers without the magic.
FindPack(x) ==
    LET trailer == TrailerPack(x)
        plain(o) == parse_at(x, o, FALSE, NoKey)
        offs == {o \in DOMAIN x.packs : x.packs[o].magic}
        first(S) == CHOOSE o \in S : \A q \in S : o <= q
        good == {o \in offs : plain(o).validated}
        fair == {o \in offs : plain(o).valid}
        mutated == {o \in DOMAIN x.packs : o > 0 /\ o % 2 = 0 /\ o + 4 < x.size /\ x.packs[o].ascii /\ parse_at(x, o, TRUE, NoKey).validated}
    IN IF trailer.validated THEN trailer ELSE
       IF good # {} THEN plain(first(good)) ELSE
       IF fair # {} THEN plain(first(fair)) ELSE
       IF parse_at(x, 0, TRUE, NoKey).validated THEN parse_at(x, 0, TRUE, NoKey) ELSE
       IF x.pe64 /\ x.anchored /\ mutated # {} THEN parse_at(x, first(mutated), TRUE, NoKey) ELSE NoPack

NoKeyInfo == [found |-> FALSE, value |-> NoKey, confirmed |-> FALSE, script |-> FALSE]

\* The finding when one key is confirmed: an encrypted directory is read with it.
KeyConfirmed(x, pack, key) == [pack |-> pack, key |-> [found |-> TRUE, value |-> key, confirmed |-> TRUE, script |-> validate_encrypted_scripts(x, pack.entries, key)]]

\* One value only may open the pack, and all values must have been tried.
WithMatches(x, pack, c, matches) ==
    IF Len(matches) = 1 /\ ~c.exhausted
    THEN KeyConfirmed(x, IF pack.enc THEN parse_at(x, pack.off, pack.modified, matches[1].value) ELSE pack, matches[1].value)
    ELSE [pack |-> pack, key |-> IF c.kept = <<>> THEN NoKeyInfo ELSE [NoKeyInfo EXCEPT !.found = TRUE, !.value = c.kept[1].value]]

WithKeys(x, pack, c) ==
    WithMatches(x, pack, c, IF pack.enc /\ pack.count = 0 THEN <<>> ELSE SelectSeq(c.kept, LAMBDA k : Opens(x, pack, k.value)))

WithPack(x, pack) ==
    IF ~pack.valid \/ ~(pack.enc \/ \E e \in ToSet(pack.entries) : e.enc) THEN [pack |-> pack, key |-> NoKeyInfo]
    ELSE WithKeys(x, pack, key_candidates(x))

detect_godot(x) == WithPack(x, FindPack(x))

-----------------------------------------------------------------------------
(* Extraction.  The budget is compared with the size the directory gives;   *)
(* what is added is the length of what was written.                         *)

\* The core in the order of its importance, which core gives: scripts, the
\* project, descriptors, native libraries.
Selected(entries, core_only) ==
    LET all == SelectSeq(entries, LAMBDA e : Ordinary(e) /\ (core_only => e.core > 0))
    IN IF core_only THEN SortSeq(all, LAMBDA a, b : a.core > b.core) ELSE all

Nothing == [files |-> <<>>, bytes |-> 0, exhausted |-> FALSE, success |-> FALSE]

extract_godot(x, found, core_only) ==
    IF found.pack.entries = <<>> THEN Nothing ELSE
    LET step(s, e) ==
            LET len == IF e.enc THEN e.stream.len ELSE e.size
            IN CASE Len(s.files) >= max_output_files \/ e.size > (max_output_bytes - s.bytes) % WordLimit -> [s EXCEPT !.exhausted = TRUE]
                 [] e.enc /\ ~(found.key.confirmed /\ decrypt_stream(x, e.off, e.stream, found.key.value)) -> s
                 [] ~e.enc /\ e.off + e.size > x.size -> s
                 [] ~e.safe \/ e.path \in x.unwritable -> s
                 [] OTHER -> [s EXCEPT !.files = Append(@, e), !.bytes = @ + len]
        done == FoldLeft(step, Nothing, Selected(found.pack.entries, core_only))
    IN [done EXCEPT !.success = IF core_only THEN done.files # <<>> \/ Selected(found.pack.entries, TRUE) = <<>>
                                ELSE done.files # <<>> /\ ~done.exhausted]

PackFinding(x, found) ==
    LET plain == SelectSeq(found.pack.entries, LAMBDA e : Ordinary(e) /\ ~e.enc)
    IN [state |-> IF found.pack.validated THEN "CONFIRMED" ELSE IF found.pack.valid THEN "LIKELY" ELSE "FAILED",
        valid |-> found.pack.validated,
        ranges |-> [i \in DOMAIN plain |-> range(plain[i].off, plain[i].size)],
        key |-> found.key,
        all |-> extract_godot(x, found, FALSE), core |-> extract_godot(x, found, TRUE)]

GodotPackage(x) == PackFinding(x, detect_godot(x))

-----------------------------------------------------------------------------
(* A pack beside the image: every candidate is tried on its own, and the    *)
(* results are reduced.                                                     *)

validated_pck_payload(x, e, key) ==
    /\ Ordinary(e) /\ e.size <= kMaxStream
    /\ IF e.enc THEN decrypt_pck_entry_verified(x, e, key) ELSE span_in_bounds(x.size, e.off, e.size) /\ e.md5

\* The pack as the key shows it.
Opened(x, key) ==
    LET plain == parse_at(x, 0, FALSE, NoKey) IN IF plain.enc THEN parse_at(x, 0, FALSE, key) ELSE plain

\* Does the candidate open the directory, or else one of the first children?
Validates(x, key, plain, pack) ==
    IF plain.enc THEN plain.count # 0 /\ pack.validated
    ELSE LET probes == First(kMaxEncryptedFileProbes, SelectSeq(pack.entries, LAMBDA e : e.enc /\ Ordinary(e)))
         IN pack.validated /\ \E e \in ToSet(probes) : decrypt_pck_entry_verified(x, e, key)

validate_godot_key_candidate_against_pck(x, key) == Validates(x, key, parse_at(x, 0, FALSE, NoKey), Opened(x, key))

\* Values that validate, the places each is stored at, and what was not tried.
Reduced(c, matches) ==
    [unique |-> Len(matches) = 1,
     value |-> IF Len(matches) = 1 THEN matches[1].value ELSE NoKey,
     resolved |-> Len(matches) = 1 /\ ~c.exhausted /\ Cardinality(matches[1].vas) = 1]

reduce_godot_external_pck_validations(x) ==
    LET c == key_candidates(x)
    IN Reduced(c, SelectSeq(c.kept, LAMBDA k : validate_godot_key_candidate_against_pck(x, k.value)))

\* The decisive children, each authenticated, no two at the same place
\* whatever the case of their names, none over something that exists.
materialize_godot_external_pck_core(x, v) ==
    LET step(s, e) ==
            CASE ~Ordinary(e) \/ e.core = 0 -> s
              [] Len(s.files) >= max_output_files \/ e.size > (max_output_bytes - s.bytes) % WordLimit -> [s EXCEPT !.exhausted = TRUE]
              [] ~validated_pck_payload(x, e, v.value) \/ ~e.safe \/ e.fold \in s.folds -> s
              [] e.parent \in {f.path : f \in ToSet(s.files)} \cup x.unwritable \/ e.path \in x.unwritable ->
                 [s EXCEPT !.folds = @ \cup {e.fold}]
              [] OTHER -> [s EXCEPT !.folds = @ \cup {e.fold}, !.files = Append(@, e), !.bytes = @ + e.size]
    IN IF ~v.resolved \/ ~v.unique THEN [files |-> <<>>, bytes |-> 0, exhausted |-> FALSE, folds |-> {}]
       ELSE FoldLeft(step, [files |-> <<>>, bytes |-> 0, exhausted |-> FALSE, folds |-> {}], Opened(x, v.value).entries)

ExternalFinding(x, valid, v, out) ==
    [state |-> IF v.resolved THEN "RESOLVED" ELSE IF valid THEN "UNRESOLVED" ELSE "FAILED", valid |-> v.resolved,
     ranges |-> <<>>, value |-> v.value,
     script |-> v.resolved /\ validate_encrypted_scripts(x, Opened(x, v.value).entries, v.value), files |-> out.files, bytes |-> out.bytes,
     success |-> out.files # <<>> /\ ~out.exhausted]

Materialized(x, valid, v) == ExternalFinding(x, valid, v, materialize_godot_external_pck_core(x, v))

ExternalPack(x) ==
    LET valid == parse_at(x, 0, FALSE, NoKey).valid
    IN Materialized(x, valid, IF valid THEN reduce_godot_external_pck_validations(x) ELSE [unique |-> FALSE, value |-> NoKey, resolved |-> FALSE])

-----------------------------------------------------------------------------
(* Script sources: strings and comments are skipped, brackets must nest,    *)
(* and some line must begin a class, some line declare a member.  A symbol  *)
(* stands for a piece of text; "'''" is a triple quote.                     *)

Brackets == [open |-> {"(", "["}, close |-> {")", "]"}]

Matches(o, c) == <<o, c>> \in {<<"(", ")">>, <<"[", "]">>}

EndLine(s) ==
    [s EXCEPT !.line = <<>>, !.lines = @ + (IF s.line = <<>> THEN 0 ELSE 1),
              !.anchor = @ \/ (s.line # <<>> /\ s.line[1] = "extends"),
              !.decl = @ \/ (s.line # <<>> /\ s.line[1] = "func")]

gdscript_symbol(s, c) ==
    CASE ~s.ok -> s
      [] s.mode = "comment" -> IF c = "\n" THEN [EndLine(s) EXCEPT !.mode = "code"] ELSE s
      [] s.mode = "triple" -> IF c = "'''" THEN [s EXCEPT !.mode = "code"] ELSE IF c = "\n" THEN EndLine(s) ELSE s
      [] s.mode = "escape" -> IF c = "\n" THEN [s EXCEPT !.ok = FALSE] ELSE [s EXCEPT !.mode = "string"]
      [] s.mode = "string" ->
         CASE c = "\n" -> [s EXCEPT !.ok = FALSE] [] c = "\\" -> [s EXCEPT !.mode = "escape"]
           [] c = "'" -> [s EXCEPT !.mode = "code"] [] OTHER -> s
      [] c = "#" -> [s EXCEPT !.mode = "comment"]
      [] c = "'" -> [s EXCEPT !.mode = "string", !.line = Append(@, "S")]
      [] c = "'''" -> [s EXCEPT !.mode = "triple", !.line = Append(@, "S")]
      [] c = "\n" -> EndLine(s)
      [] c \in Brackets.open -> [s EXCEPT !.open = Append(@, c), !.line = Append(@, c)]
      [] c \in Brackets.close -> IF s.open = <<>> \/ ~Matches(s.open[Len(s.open)], c) THEN [s EXCEPT !.ok = FALSE]
                                 ELSE [s EXCEPT !.open = Front(@), !.line = Append(@, c)]
      [] OTHER -> [s EXCEPT !.line = Append(@, c)]

gdscript_source_structure(x) ==
    LET start == [ok |-> TRUE, mode |-> "code", open |-> <<>>, line |-> <<>>, lines |-> 0, anchor |-> FALSE, decl |-> FALSE]
        end == FoldLeft(gdscript_symbol, start, Append(x.text, "\n"))
    IN IF end.ok /\ end.mode = "code" /\ end.open = <<>> /\ end.lines >= 2 /\ end.anchor /\ end.decl
       THEN Confirmed(<<>>) ELSE Failed

-----------------------------------------------------------------------------
(* The legacy configuration: keys and values one behind the other.  A       *)
(* property is one unit, its key and its value as long as they say.         *)

SafeText(v) == v.type = "string" /\ v.safe

decode(v) ==
    CASE v.type = "fixed" -> v.len = 1
      [] v.type = "string" -> v.len = 2 /\ v.utf8
      [] v.type = "strings" -> v.len = 1 + Len(v.list) /\ Len(v.list) <= kMaxStringArray /\ v.utf8
      [] OTHER -> FALSE

PropertyOk(x, i) ==
    LET p == x.props[i]
    IN CASE p.key \in {"name"} -> p.value.type = "string"
         [] p.key \in {"scene", "icon"} -> SafeText(p.value)
         [] p.key = "remap" -> p.value.type = "strings" /\ Len(p.value.list) % 2 = 0
         [] p.key \in {"autoload/A", "autoload/B"} -> SafeText(p.value)
         [] OTHER -> TRUE

\* The last remap list counts; there is only one, because keys are distinct.
Remaps(x) == FoldLeft(LAMBDA r, p : IF p.key = "remap" THEN p.value.list ELSE r, <<>>, First(x.count, x.props))

parse_godot_legacy_engine_config(x) ==
    LET n == x.count
        flat == Remaps(x)
    IN IF /\ n <= kMaxEntries /\ n <= Len(x.props)
          /\ \A i \in 1 .. n : decode(x.props[i].value) /\ PropertyOk(x, i)
          /\ \A i, j \in 1 .. n : i # j => x.props[i].key # x.props[j].key
          /\ 2 + SumOver(n, LAMBDA i : 2 + x.props[i].value.len) = x.size
          /\ \A i \in DOMAIN flat : flat[i].safe
          /\ \A i, j \in DOMAIN flat : i % 2 = 1 /\ j % 2 = 1 /\ i # j => flat[i].name # flat[j].name
       THEN Confirmed(<<range(0, x.size)>>) ELSE Failed

-----------------------------------------------------------------------------
(* Inputs *)

Entry(path, off, size) ==
    [path |-> path, fold |-> path, parent |-> "root", off |-> off, size |-> size, enc |-> FALSE, removal |-> FALSE,
     delta |-> FALSE, md5 |-> TRUE, script |-> FALSE, core |-> 1, safe |-> TRUE,
     stream |-> [key |-> 1, len |-> size, md5 |-> TRUE, text |-> TRUE]]

Header ==
    [magic |-> TRUE, ascii |-> TRUE, ver |-> 2, engine |-> TRUE, flags_ok |-> TRUE, enc |-> FALSE, rel |-> TRUE,
     sparse |-> FALSE, base |-> 12, dir |-> 5, count |-> 3, stream |-> [key |-> 1, len |-> 6, md5 |-> TRUE],
     entries |-> << Entry("project", 0, 1),
                    [Entry("script", 1, 2) EXCEPT !.enc = TRUE, !.script = TRUE, !.core = 2],
                    [Entry("image", 4, 1) EXCEPT !.enc = TRUE, !.core = 0] >>]

\* The directory of an encrypted pack needs room of its own.
EncHeader == [Header EXCEPT !.enc = TRUE, !.base = 13, !.entries = First(2, Header.entries), !.count = 2,
                            !.stream.len = 4]

HeaderAlt ==
    [magic |-> {FALSE}, ascii |-> {FALSE}, ver |-> {0, 1, 3, 4, 5}, engine |-> {FALSE}, flags_ok |-> {FALSE},
     rel |-> {FALSE}, sparse |-> {TRUE}, base |-> {11, 13, 20, WordLimit - 1}, dir |-> {0, 4, 19, WordLimit - 1},
     count |-> {0, 1, 4}]

One(x, alt) == {[x EXCEPT ![f] = v] : <<f, v>> \in UNION {{f} \X alt[f] : f \in DOMAIN alt}}

EntryAlt ==
    [path |-> {"", "project"}, off |-> {0, 3, 8, WordLimit - 20}, size |-> {0, 3, WordLimit - 1}, enc |-> {TRUE, FALSE},
     removal |-> {TRUE}, delta |-> {TRUE}, md5 |-> {FALSE}, script |-> {TRUE}, core |-> {0, 3}, safe |-> {FALSE},
     fold |-> {"project"}, parent |-> {"project"},
     stream |-> {[key |-> 2, len |-> 1, md5 |-> TRUE, text |-> TRUE], [key |-> 2, len |-> 2, md5 |-> TRUE, text |-> TRUE],
                 [key |-> 1, len |-> 4, md5 |-> TRUE, text |-> TRUE], [key |-> 1, len |-> 2, md5 |-> FALSE, text |-> TRUE],
                 [key |-> 1, len |-> 0, md5 |-> TRUE, text |-> TRUE], [key |-> 1, len |-> 2, md5 |-> TRUE, text |-> FALSE]}]

\* An encrypted entry far outside the file is not among them: its bounds are
\* compared after a sum that may wrap around.
Near(e) == e.enc => e.off < WordLimit - 30

EntryVariants(h) ==
    {[h EXCEPT !.entries[ie[1]] = ie[2]] :
         ie \in UNION {{i} \X {f \in One(h.entries[i], EntryAlt) : Near(f)} : i \in DOMAIN h.entries}}

HeaderVariants ==
    Variants(Header, HeaderAlt) \cup EntryVariants(Header) \cup One(EncHeader, HeaderAlt) \cup EntryVariants(EncHeader) \cup {EncHeader}
    \cup {[EncHeader EXCEPT !.stream = s] : s \in {[key |-> 2, len |-> 4, md5 |-> TRUE], [key |-> 1, len |-> 3, md5 |-> TRUE],
                                                   [key |-> 1, len |-> 5, md5 |-> FALSE]}}

Coord(value, va) == [value |-> value, va |-> va, data |-> TRUE]

Coords ==
    { <<Coord(1, 1), Coord(2, 2)>>, <<Coord(3, 3), Coord(1, 1)>>, <<>>, <<Coord(1, 1), Coord(1, 2)>>,
      <<Coord(3, 3), Coord(1, 1), Coord(2, 2)>>, <<Coord(0, 3), [Coord(2, 2) EXCEPT !.data = FALSE], Coord(1, 1)>> }

PckBase ==
    [part |-> "pck", size |-> 20, packs |-> (0 :> Header), trailer |-> Bad, pe64 |-> TRUE, anchored |-> TRUE,
     coords |-> <<Coord(1, 1)>>, unwritable |-> {}]

PckInput(x) ==
    \/ \E part \in {"pck", "pckext"}, h \in HeaderVariants, c \in Coords : x = [PckBase EXCEPT !.part = part, !.packs = (0 :> h), !.coords = c]
    \/ \E o \in {1, 2}, h \in One(Header, HeaderAlt), t \in {Bad, 19, 20, 30}, a \in BOOLEAN :
         x = [PckBase EXCEPT !.packs = (o :> h), !.size = 22, !.trailer = t, !.anchored = a]
    \/ \E g \in {EncHeader, [Header EXCEPT !.magic = FALSE], [Header EXCEPT !.count = 4]},
           h \in {Header, [Header EXCEPT !.magic = FALSE], EncHeader}, t \in {Bad, 19} :
         x = [PckBase EXCEPT !.packs = (0 :> g @@ 2 :> h), !.size = 22, !.trailer = t]
    \/ \E part \in {"pck", "pckext"}, u \in {{"script"}, {"root"}, {"project", "script"}}, b \in BOOLEAN :
         x = [PckBase EXCEPT !.part = part, !.unwritable = u, !.pe64 = b]

TextInputs ==
    LET Symbols == {"(", ")", "]", "'", "'''", "#", "\\", "\n", "extends"}
        Body(a, b, c) == <<"extends", "x">> \o a \o <<"\n", "func">> \o b \o <<"(", ")">> \o c
        Tiny == {<<>>} \cup {<<s>> : s \in Symbols}
        Small == Tiny \cup {<<s, t>> : s \in Symbols, t \in Symbols}
    IN {[part |-> "gdsource", size |-> 1, text |-> t] :
            t \in {Body(a, b, <<>>) : a \in Tiny, b \in Tiny} \cup {Body(a, <<>>, c) : a \in Tiny, c \in Small}
                  \cup {<<"#">> \o Body(a, <<>>, c) : a \in Tiny, c \in Tiny}}

Value(type, len) == [type |-> type, len |-> len, utf8 |-> TRUE, safe |-> TRUE, list |-> <<>>]

Name(n) == [name |-> n, safe |-> TRUE]

CfgBase ==
    [part |-> "enginecfg", size |-> 15, count |-> 3,
     props |-> << [key |-> "scene", value |-> Value("string", 2)], [key |-> "autoload/A", value |-> Value("string", 2)],
                  [key |-> "remap", value |-> [Value("strings", 3) EXCEPT !.list = <<Name("a"), Name("b")>>]] >>]

CfgAlt ==
    [size |-> {13, 14, 17, 19}, count |-> {0, 2, 4},
     props |-> {[CfgBase.props EXCEPT ![i].key = k] : i \in 1 .. 3, k \in {"scene", "name", "other", "autoload/B", "remap"}}
               \cup {[CfgBase.props EXCEPT ![1].value = v] : v \in {Value("fixed", 1), Value("fixed", 2), Value("object", 2),
                        [Value("string", 2) EXCEPT !.safe = FALSE], [Value("string", 2) EXCEPT !.utf8 = FALSE]}}
               \cup {[CfgBase.props EXCEPT ![3].value = [Value("strings", 1 + Len(l)) EXCEPT !.list = l]] :
                        l \in {<<Name("a")>>, <<Name("a"), Name("b"), Name("a"), Name("c")>>,
                               <<Name("a"), Name("b"), Name("c"), Name("b")>>,
                               <<Name("a"), [Name("b") EXCEPT !.safe = FALSE]>>, [i \in 1 .. kMaxStringArray + 1 |-> Name("a")]}}]

-----------------------------------------------------------------------------
(* What the results mean *)

Values(x) == {c.value : c \in {d \in ToSet(x.coords) : Usable(d)}}

\* A stream that is not empty tells keys apart.
Telling(x) == \A o \in DOMAIN x.packs : \A e \in ToSet(x.packs[o].entries) : e.enc => e.stream.len > 0

Agreeing(x) == \A o \in DOMAIN x.packs : \A e \in ToSet(x.packs[o].entries) : e.enc => e.stream.len = e.size

\* A confirmed key is the only one of all values in the image that opens the
\* pack; what is extracted stays in the budget and was encrypted under it.
PckExact(x, r) ==
    r.state # "NOT_RUN" =>
    LET pack == FindPack(x)
        writes(out) == /\ Agreeing(x) => out.bytes <= max_output_bytes
                       /\ Len(out.files) <= max_output_files
                       /\ \A e \in ToSet(out.files) : e.enc => r.key.confirmed /\ (e.stream.len = 0 \/ e.stream.key = r.key.value)
    IN /\ r.key.confirmed /\ Telling(x) => {v \in Values(x) : Opens(x, pack, v)} = {r.key.value}
       /\ r.key.script => r.key.confirmed
       /\ writes(r.all) /\ writes(r.core)
       /\ \A i, j \in DOMAIN r.core.files : i < j => r.core.files[i].core >= r.core.files[j].core

\* A resolved key is stored at one place and no other value validates; every
\* child written is what the directory says, and no two share a place.
ExternalExact(x, r) ==
    /\ r.valid => /\ Cardinality({c.va : c \in {d \in ToSet(x.coords) : Usable(d) /\ d.value = r.value}}) = 1
                  /\ {v \in Values(x) : validate_godot_key_candidate_against_pck(x, v)} = {r.value}
                  /\ FoldLeft(LAMBDA n, e : n + e.size, 0, r.files) = r.bytes /\ r.bytes <= max_output_bytes
                  /\ \A i, j \in DOMAIN r.files : i # j => r.files[i].fold # r.files[j].fold
                  /\ \A e \in ToSet(r.files) : e.md5 /\ e.safe /\ (e.enc /\ e.size > 0 => e.stream.key = r.value)
    /\ r.state # "NOT_RUN" /\ ~r.valid => r.files = <<>>

Depth(t, n) == Cardinality({i \in 1 .. n : t[i] \in Brackets.open}) - Cardinality({i \in 1 .. n : t[i] \in Brackets.close})

\* Brackets nest: every one has its partner, of its own kind.
Balanced(t) ==
    /\ \A n \in DOMAIN t : Depth(t, n) >= 0
    /\ Depth(t, Len(t)) = 0
    /\ \A i \in DOMAIN t : t[i] \in Brackets.open =>
          LET after == {j \in i + 1 .. Len(t) : Depth(t, j) = Depth(t, i - 1)}
          IN \E j \in after : (\A k \in after : j <= k) /\ Matches(t[i], t[j])

Uncommented(t) ==
    LET keep == {i \in DOMAIN t : ~\E j \in 1 .. i : t[j] = "#" /\ \A k \in j .. i : t[k] # "\n"}
    IN FoldLeft(LAMBDA s, i : IF i \in keep THEN Append(s, t[i]) ELSE s, <<>>, [i \in DOMAIN t |-> i])

\* Comments never count, and in plain code the brackets decide.
SourceExact(x, r) ==
    LET plain == ToSet(x.text) \cap {"'", "'''", "\\"} = {}
        u == Uncommented(x.text)
        begins(w) == \E i \in DOMAIN u : u[i] = w /\ (i = 1 \/ u[i - 1] = "\n")
    IN r.state # "NOT_RUN" /\ plain => (r.valid <=> Balanced(u) /\ begins("extends") /\ begins("func"))

\* All of the file is properties, and every remapped source has one target.
ConfigExact(x, r) ==
    r.valid => LET flat == Remaps(x)
               IN /\ 2 + SumOver(x.count, LAMBDA i : 2 + x.props[i].value.len) = x.size
                  /\ Len(flat) % 2 = 0 /\ \A i, j \in DOMAIN flat : i % 2 = 1 /\ j % 2 = 1 /\ flat[i].name = flat[j].name => i = j
=============================================================================
