-------------------------- MODULE AndroidResources --------------------------
(***************************************************************************)
(* The chunked parts of an APK (extract/apk.cpp): the binary manifest      *)
(* (AxmlParser), the resource table (ArscParser) with the resolution of    *)
(* references into it, and the signing block in front of the central       *)
(* directory.                                                              *)
(*                                                                         *)
(* Sizes and offsets are in bytes.  A file is its chunks in order, each    *)
(* with its header and size as the file has them.  A text is what it       *)
(* means (name), whether it is a whole class name or one to be completed   *)
(* (form), and the kinds of its characters; the length of a text takes one *)
(* byte, or one unit of two.  Anomalies, which change no decision, are     *)
(* left out.                                                               *)
(***************************************************************************)
EXTENDS Words

CONSTANTS kMaxPoolStrings, kMaxEntryCount, kMaxSpecEntries, kMaxPackageName, kMaxDepth

\* The parts of a file one after the other fill it.
Start(root, chunks, i) == root + SumOver(i - 1, LAMBDA j : chunks[j].size)

Fills(root, chunks, end) ==
    /\ \A i \in DOMAIN chunks :
          LET left == end - Start(root, chunks, i)
          IN left >= 8 /\ chunks[i].hs >= 8 /\ chunks[i].size >= chunks[i].hs /\ chunks[i].size <= left
    /\ Start(root, chunks, Len(chunks) + 1) = end

\* A character takes one to four bytes, and one unit or a pair of them.
Width8 == [ascii |-> 1, latin |-> 2, wide |-> 3, astral |-> 4, overlong |-> 2, lone |-> 3]

Units(t) == SumOver(Len(t.points), LAMBDA i : IF t.points[i] = "astral" THEN 2 ELSE 1)

\* Neither encoding has a surrogate without its partner, nor one character in
\* more bytes than it needs.
well_formed(t) == \A i \in DOMAIN t.points : t.points[i] \notin {"overlong", "lone"}

EncodedLength(p, t) == IF p.utf8 THEN SumOver(Len(t.points), LAMBDA i : Width8[t.points[i]]) ELSE 2 * Units(t)

\* A string has its lengths, its text and a zero in front of the styles.
StringFits(p, t) ==
    LET end == IF p.styles_start # 0 THEN p.styles_start ELSE p.size
        zero == p.start + t.rel + 2 + EncodedLength(p, t)
    IN /\ t.rel < p.size - p.start /\ p.start + t.rel < end
       /\ zero + (IF p.utf8 THEN 1 ELSE 2) <= end
       /\ t.zero /\ well_formed(t)

PoolHeader(p, limit) ==
    /\ p.type = "pool" /\ p.hs >= 28 /\ p.size >= p.hs /\ p.size <= limit
    /\ Len(p.strings) <= kMaxPoolStrings /\ p.styles <= kMaxPoolStrings
    /\ 4 * (Len(p.strings) + p.styles) <= p.size - p.hs

PoolStrings(p) ==
    /\ p.start >= p.hs + 4 * (Len(p.strings) + p.styles) /\ p.start < p.size
    /\ p.styles_start # 0 => p.styles_start >= p.start /\ p.styles_start < p.size
    /\ \A i \in DOMAIN p.strings : StringFits(p, p.strings[i])

\* A pool of the table may be empty and then needs no place for its strings.
pool(p, limit) ==
    /\ PoolHeader(p, limit)
    /\ IF Len(p.strings) + p.styles = 0 THEN p.start = 0 \/ p.start >= p.hs ELSE PoolStrings(p)

\* The manifest's parser compares the two lengths of a UTF-8 string as well.
parse_string_pool(p) ==
    /\ PoolHeader(p, p.size) /\ PoolStrings(p)
    /\ p.utf8 => \A i \in DOMAIN p.strings : p.strings[i].units = Units(p.strings[i])

None == 0

Empty == [name |-> "", form |-> "full"]

\* The strings of the only pool; indices count from one.
Strings(x) ==
    LET i == FirstWhere(Len(x.chunks), LAMBDA k : x.chunks[k].type = "pool")
    IN IF i = 0 THEN <<>> ELSE x.chunks[i].strings

str(ss, i) == IF i = None THEN Empty ELSE ss[i]

attr(ss, a) ==
    /\ a.ns \in {None} \cup DOMAIN ss /\ a.name \in DOMAIN ss /\ a.raw \in {None} \cup DOMAIN ss
    /\ a.header_ok /\ (a.type = "string" => a.data \in DOMAIN ss)

\* Attributes lie in their element and no two are called the same.
Attributes(ss, c) ==
    /\ c.attribute_size >= 20 /\ c.special <= Len(c.attrs)
    /\ c.attribute_start >= 20 /\ c.hs + c.attribute_start + c.attribute_size * Len(c.attrs) <= c.size
    /\ \A i \in DOMAIN c.attrs : attr(ss, c.attrs[i])
    /\ \A i, j \in DOMAIN c.attrs : i < j =>
          <<str(ss, c.attrs[i].ns).name, ss[c.attrs[i].name].name>> # <<str(ss, c.attrs[j].ns).name, ss[c.attrs[j].name].name>>

Named(ss, c, ns, name) == SelectSeq(c.attrs, LAMBDA a : str(ss, a.ns).name = ns /\ ss[a.name].name = name)

find_plain_attr(ss, c, name) == Named(ss, c, "", name)

find_android_attr(ss, c, name) == Named(ss, c, "android", name)

\* A value that is there and is a string, a number, a truth value or a reference
\* to a resource; else what was known before.
Literal(ss, found, before) == IF found # <<>> /\ found[1].type = "string" THEN ss[found[1].data].name ELSE before

Integer(found, before) == IF found # <<>> /\ found[1].type \in {"dec", "hex"} THEN found[1].data ELSE before

Truth(found, before) ==
    IF found # <<>> /\ found[1].type = "bool" THEN (IF found[1].data = 0 THEN 0 ELSE 1) ELSE before

Referred(found, before) == IF found # <<>> /\ found[1].type \in {"reference", "dynamic"} THEN found[1].data ELSE before

\* A class name with a leading point or without any is one of the package.
qualify(package, t) == IF t.name = "" \/ package = "" \/ t.form = "full" THEN <<t.name>> ELSE <<package, t.name>>

ClassName(ss, package, found, before) ==
    IF found # <<>> /\ found[1].type = "string" THEN qualify(package, ss[found[1].data]) ELSE before

NoInfo ==
    [package |-> "", version |-> Bad, min_sdk |-> Bad, target_sdk |-> Bad, application |-> <<>>,
     debuggable |-> Bad, reference |-> <<>>, permissions |-> {}, components |-> <<>>]

Component(ss, info, c, kind) ==
    [kind |-> kind, name |-> ClassName(ss, info.package, find_android_attr(ss, c, "name"), <<>>),
     process |-> Literal(ss, find_android_attr(ss, c, "process"), ""),
     exported |-> Truth(find_android_attr(ss, c, "exported"), Bad),
     reference |-> Referred(find_android_attr(ss, c, "exported"), <<>>)]

AppComponents == {"activity", "activity-alias", "service", "receiver", "provider"}

PermissionTags == {"uses-permission", "uses-permission-sdk-23", "uses-permission-sdk-m"}

\* What an element says of the package, by its tag and the tag of its parent.
ElementInfo(ss, info, c, tag, parent) ==
    CASE tag = "manifest" ->
           [info EXCEPT !.package = Literal(ss, find_plain_attr(ss, c, "package"), @),
                        !.version = Integer(find_android_attr(ss, c, "versionCode"), @)]
      [] tag = "uses-sdk" /\ parent = "manifest" ->
           [info EXCEPT !.min_sdk = Integer(find_android_attr(ss, c, "minSdkVersion"), @),
                        !.target_sdk = Integer(find_android_attr(ss, c, "targetSdkVersion"), @)]
      [] tag = "application" /\ parent = "manifest" ->
           [info EXCEPT !.application = ClassName(ss, info.package, find_android_attr(ss, c, "name"), @),
                        !.debuggable = Truth(find_android_attr(ss, c, "debuggable"), @),
                        !.reference = Referred(find_android_attr(ss, c, "debuggable"), @)]
      [] tag \in PermissionTags /\ parent = "manifest" ->
           [info EXCEPT !.permissions = @ \cup ({Literal(ss, find_android_attr(ss, c, "name"), "")} \ {""})]
      [] (tag = "instrumentation" /\ parent = "manifest") \/ (tag \in AppComponents /\ parent = "application") ->
           [info EXCEPT !.components = Append(@, Component(ss, info, c, tag))]
      [] OTHER -> info

\* There is one root, the manifest, and no manifest below it.
consume_element(ss, s, c, tag) ==
    LET parent == IF s.stack = <<>> THEN "" ELSE Last(s.stack)
    IN IF (s.stack = <<>> /\ (s.root \/ tag # "manifest")) \/ (tag = "manifest" /\ parent # "")
       THEN [s EXCEPT !.ok = FALSE]
       ELSE [s EXCEPT !.root = TRUE, !.info = ElementInfo(ss, s.info, c, tag, parent), !.stack = Append(@, tag)]

parse_start_element(ss, s, c) ==
    IF \/ ~s.pool \/ s.closed \/ c.hs < 16 \/ c.size < c.hs + 20
       \/ c.tag \notin DOMAIN ss \/ ~Attributes(ss, c)
    THEN [s EXCEPT !.ok = FALSE]
    ELSE consume_element(ss, s, c, ss[c.tag].name)

parse_end_element(ss, s, c) ==
    IF \/ ~s.pool \/ c.hs < 16 \/ c.size < c.hs + 8 \/ c.tag \notin DOMAIN ss
       \/ s.stack = <<>> \/ Last(s.stack) # ss[c.tag].name
    THEN [s EXCEPT !.ok = FALSE]
    ELSE [s EXCEPT !.stack = Front(@), !.closed = Len(s.stack) = 1]

\* A name that an element cites must have been read.
Known(ss, s, i) == s.pool /\ i \in DOMAIN ss

ParseChunk(ss, s, c) ==
    CASE ~s.ok -> s
      [] c.type = "pool" -> [s EXCEPT !.ok = ~s.pool /\ parse_string_pool(c), !.pool = TRUE]
      [] c.type = "resource_map" -> [s EXCEPT !.ok = s.pool /\ c.hs = 8 /\ (c.size - c.hs) % 4 = 0 /\ ~s.map, !.map = TRUE]
      [] c.type = "start" -> parse_start_element(ss, s, c)
      [] c.type = "end" -> parse_end_element(ss, s, c)
      [] c.type = "namespace" ->
           [s EXCEPT !.ok = c.hs >= 16 /\ c.size >= c.hs + 8 /\ \A i \in {c.prefix, c.uri} : i = None \/ Known(ss, s, i)]
      [] c.type = "cdata" -> [s EXCEPT !.ok = c.hs >= 16 /\ c.size >= c.hs + 12 /\ Known(ss, s, c.tag) /\ c.header_ok]
      [] OTHER -> [s EXCEPT !.ok = FALSE]

ParseChunks(ss, chunks) ==
    FoldLeft(LAMBDA acc, c : ParseChunk(ss, acc, c),
             [ok |-> TRUE, pool |-> FALSE, map |-> FALSE, root |-> FALSE, closed |-> FALSE, stack |-> <<>>, info |-> NoInfo], chunks)

\* The manifest is complete when its root has been closed.
Document(x, s) ==
    IF ~Fills(8, x.chunks, x.size) \/ ~s.ok \/ ~(s.pool /\ s.root /\ s.closed /\ s.stack = <<>>) THEN Failed
    ELSE Confirmed([i \in DOMAIN x.chunks |-> range(Start(8, x.chunks, i), x.chunks[i].size)]) @@ [info |-> s.info]

parse_binary_manifest(x) ==
    IF x.size < 8 \/ ~x.magic THEN Absent
    ELSE IF x.hs # 8 \/ x.stored # x.size THEN Failed
    ELSE Document(x, ParseChunks(Strings(x), x.chunks))

\* A string value is an index into the pool of the whole table.
compact_value_ok(global, v) == v.type = "string" => v.data \in 1 .. global

\* A value at an offset of its type, which ends with the type.
validate_value(global, t, at, v) == at + 8 <= t.size /\ v.ok /\ compact_value_ok(global, v)

\* An entry is compact, or simple with one value behind its header, or complex
\* with a map of values; the key of a complex one is not looked at.
parse_entry(global, keys, t, e) ==
    LET at == t.entries_start + e.off
    IN /\ e.off <= t.size - t.entries_start /\ at + 8 <= t.size
       /\ IF e.compact THEN ~e.complex /\ compact_value_ok(global, e.value)
          ELSE /\ e.size >= 8 /\ at + e.size <= t.size
               /\ IF e.complex
                  THEN /\ e.size >= 16 /\ Len(e.map) <= kMaxEntryCount /\ 12 * Len(e.map) <= t.size - (at + e.size)
                       /\ \A k \in DOMAIN e.map : validate_value(global, t, at + e.size + 12 * (k - 1) + 4, e.map[k])
                  ELSE validate_value(global, t, at + e.size, e.value)
       /\ ~e.complex => e.key \in 1 .. keys

\* Only a header of 288 bytes has room for the offset of the type identifiers.
type_id_offset(p) == IF p.hs >= 288 THEN p.type_offset ELSE 0

resid(p, t, k) == <<p.id, t.id + type_id_offset(p), k>>

\* A sparse type says of each entry which one it is, in the others its place does.
EntryIndex(t, i) == IF t.sparse THEN t.entries[i].index ELSE i - 1

Present(t) == {i \in DOMAIN t.entries : t.entries[i].off # Bad}

SpecsOf(p, id) == {i \in DOMAIN p.children : p.children[i].type = "spec" /\ p.children[i].id = id}

default_config(t) == t.config_zero \/ t.config_size = 4

IndexBytes(t) == (IF ~t.sparse /\ t.offset16 THEN 2 ELSE 4) * Len(t.entries)

TypeHeader(p, t, types) ==
    /\ t.hs >= 24 /\ t.size >= t.hs /\ t.id # 0 /\ t.reserved_ok
    /\ t.config_size >= 4 /\ 20 + t.config_size <= t.hs /\ Len(t.entries) <= kMaxEntryCount
    /\ t.id + type_id_offset(p) <= 255 /\ t.id <= types /\ SpecsOf(p, t.id) # {}
    /\ IndexBytes(t) <= t.size - t.hs /\ t.entries_start >= t.hs + IndexBytes(t) /\ t.entries_start <= t.size

\* The entries are those its specification counts, in a sparse type some of them.
CountedBy(t, count) ==
    IF ~t.sparse THEN Len(t.entries) = count
    ELSE /\ Len(t.entries) <= count /\ Present(t) = DOMAIN t.entries
         /\ \A i \in DOMAIN t.entries : t.entries[i].index < count /\ (i > 1 => t.entries[i].index > t.entries[i - 1].index)

parse_type(p, t, global, types, keys) ==
    /\ TypeHeader(p, t, types)
    /\ \A i \in SpecsOf(p, t.id) : CountedBy(t, p.children[i].count)
    /\ \A i \in Present(t) : parse_entry(global, keys, t, t.entries[i])

\* The simple values of the default configuration, in the order they are read.
Scalars(t) == SetToSortSeq({i \in Present(t) : ~t.entries[i].complex}, <)

Scalar(p, t, i) == [id |-> resid(p, t, EntryIndex(t, i)), type |-> t.entries[i].value.type, data |-> t.entries[i].value.data]

StoredOf(p, t, scalars) == [k \in DOMAIN scalars |-> Scalar(p, t, scalars[k])]

Stored(p) ==
    FoldLeft(LAMBDA acc, t : IF t.type = "type" /\ default_config(t) THEN acc \o StoredOf(p, t, Scalars(t)) ELSE acc, <<>>, p.children)

Defaults(x) == FoldLeft(LAMBDA acc, c : IF c.type = "package" THEN acc \o Stored(c) ELSE acc, <<>>, x.chunks)

\* The name ends within its field and is a text that is not empty.
package_name(p) == p.name_units \in 1 .. kMaxPackageName - 1 /\ p.name_ok

\* The pools of the types and of the keys are found by their offsets.
PoolAt(p, off) ==
    {i \in DOMAIN p.children : p.children[i].type = "pool" /\ Start(p.hs, p.children, i) = off /\ pool(p.children[i], p.size - off)}

CountAt(p, off) == LET i == CHOOSE i \in PoolAt(p, off) : TRUE IN Len(p.children[i].strings)

parse_spec(p, i, types) ==
    LET c == p.children[i]
    IN /\ c.hs = 16 /\ c.size >= 16 /\ c.reserved_ok /\ c.id \in 1 .. types
       /\ c.count <= kMaxSpecEntries /\ 4 * c.count = c.size - 16
       /\ SpecsOf(p, c.id) = {i}

\* All specifications are read before the first type; other chunks are passed over.
PackageChildren(p, global, types, keys) ==
    /\ Fills(p.hs, p.children, p.size)
    /\ \A i \in DOMAIN p.children : p.children[i].type = "spec" => parse_spec(p, i, types)
    /\ \A i \in DOMAIN p.children : p.children[i].type = "type" => parse_type(p, p.children[i], global, types, keys)

parse_package(p, global) ==
    /\ p.hs >= 284 /\ p.size >= p.hs /\ p.id \in 1 .. 255 /\ package_name(p)
    /\ \A off \in {p.type_strings, p.key_strings} : off >= p.hs /\ off < p.size /\ PoolAt(p, off) # {}
    /\ PackageChildren(p, global, CountAt(p, p.type_strings), CountAt(p, p.key_strings))

Packages(x) == {i \in DOMAIN x.chunks : x.chunks[i].type = "package"}

\* One pool of strings, then packages, as many as there are said to be; no
\* resource has two default values.
TableFits(x) ==
    /\ x.hs = 12 /\ x.stored = x.size /\ x.declared \in 1 .. 255
    /\ Fills(12, x.chunks, x.size) /\ x.chunks # <<>> /\ pool(x.chunks[1], x.size - 12)
    /\ \A i \in 2 .. Len(x.chunks) : x.chunks[i].type = "package" /\ parse_package(x.chunks[i], Len(x.chunks[1].strings))
    /\ Cardinality(Packages(x)) = x.declared
    /\ \A i, j \in DOMAIN Defaults(x) : i < j => Defaults(x)[i].id # Defaults(x)[j].id

parse_resource_table(x) ==
    IF x.size < 12 \/ ~x.magic THEN Absent
    ELSE IF TableFits(x) THEN Confirmed([i \in DOMAIN x.chunks |-> range(Start(12, x.chunks, i), x.chunks[i].size)])
    ELSE Failed

\* References are followed until something else is found, but not for ever.
resolve_default_resource(defaults, id) ==
    LET at(i) == {d \in Range(defaults) : d.id = i}
        walk[k \in 0 .. kMaxDepth] ==
            IF k = 0 THEN at(id)
            ELSE IF walk[k - 1] = {} THEN {}
            ELSE LET d == CHOOSE d \in walk[k - 1] : TRUE IN IF d.type \in {"reference", "dynamic"} THEN at(d.data) ELSE {d}
    IN {d \in walk[kMaxDepth - 1] : d.type \notin {"reference", "dynamic"}}

\* What the manifest says of debugging once the table is there: a reference
\* that leads to a truth value is taken for it, else what was known stays.
resolve_manifest_resources(info, valid, defaults) ==
    LET found == resolve_default_resource(defaults, info.reference)
    IN IF valid /\ info.reference # <<>> THEN Truth(SetToSeq(found), info.debuggable) ELSE info.debuggable

WithDebuggable(x, r) ==
    r @@ [debuggable |-> resolve_manifest_resources([debuggable |-> Bad, reference |-> x.asked], r.valid, IF r.valid THEN Defaults(x) ELSE <<>>)]

ResourceTable(x) == WithDebuggable(x, parse_resource_table(x))

\* Lengths stand on both sides of the pairs, which fill what is between them;
\* a pair has an identifier of four bytes and a value.
PairAt(x, i) == SumOver(i - 1, LAMBDA j : 8 + x.pairs[j].size)

PairsFit(x, first, end) ==
    /\ \A i \in DOMAIN x.pairs :
          LET at == first + PairAt(x, i)
          IN at < end /\ end - at >= 8 /\ x.pairs[i].size >= 4 /\ x.pairs[i].size <= end - (at + 8)
    /\ first + PairAt(x, Len(x.pairs) + 1) = end

parse_signing_block(x) ==
    IF x.directory < 24 \/ x.directory > x.size \/ ~x.magic THEN Absent
    ELSE IF /\ x.footer >= 24 /\ x.footer <= x.directory - 8 /\ x.header = x.footer
            /\ PairsFit(x, x.directory - x.footer, x.directory - 24)
    THEN Confirmed(<<range(x.directory - (x.footer + 8), x.footer + 8)>>) @@ [schemes |-> {x.pairs[i].id : i \in DOMAIN x.pairs}]
    ELSE Failed

-----------------------------------------------------------------------------

Text(name) == [name |-> name, form |-> "full", points |-> <<"ascii">>, units |-> 1, rel |-> 0, zero |-> TRUE]

\* Strings one after the other, each with its lengths and its zero.
Laid(utf8, texts) ==
    LET size == [i \in DOMAIN texts |-> EncodedLength([utf8 |-> utf8], texts[i]) + (IF utf8 THEN 3 ELSE 4)]
    IN [i \in DOMAIN texts |-> [texts[i] EXCEPT !.rel = SumOver(i - 1, LAMBDA j : size[j])]]

Pool(utf8, texts) ==
    [type |-> "pool", hs |-> 28, size |-> 28 + 12 * Len(texts), start |-> IF texts = <<>> THEN 0 ELSE 28 + 4 * Len(texts),
     utf8 |-> utf8, styles |-> 0, styles_start |-> 0, strings |-> Laid(utf8, texts)]

Vocabulary == <<"manifest", "application", "activity", "android", "name", "debuggable", "package", "org", "Main", "uses-permission",
             "exported", "other">>

Texts == [k \in 1 .. 12 |-> IF k = 9 THEN [Text("Main") EXCEPT !.form = "relative", !.points = <<"latin", "wide">>, !.units = 2]
                            ELSE Text(Vocabulary[k])]

Attr(ns, name, type, data) ==
    [ns |-> ns, name |-> name, raw |-> None, header_ok |-> TRUE, type |-> type, data |-> data]

Node(type, tag, attrs) ==
    [type |-> type, hs |-> 16, size |-> 36 + 20 * Len(attrs), tag |-> tag, prefix |-> tag, uri |-> 4, header_ok |-> TRUE,
     attribute_start |-> 20, attribute_size |-> 20, special |-> 0, attrs |-> attrs]

Namespace == Node("namespace", None, <<>>)

Opened ==
    [k \in 1 .. 3 |-> Node("start", k, CASE k = 1 -> <<Attr(None, 7, "string", 8)>>
                                         [] k = 2 -> <<Attr(4, 5, "string", 9), Attr(4, 6, "bool", 1)>>
                                         [] k = 3 -> <<Attr(4, 5, "string", 9), Attr(4, 11, "reference", <<1, 1, 0>>)>>)]

Close(tag) == Node("end", tag, <<>>)

Map == [Node("resource_map", None, <<>>) EXCEPT !.hs = 8, !.size = 16]

Permission == Node("start", 10, <<Attr(4, 5, "string", 12)>>)

\* The manifest with its application, one activity and one permission.
Plain ==
    <<Pool(TRUE, Texts), Map, Namespace, Opened[1], Permission, Close(10), Opened[2], Opened[3], Close(3), Close(2), Namespace, Close(1)>>

Manifest(chunks) ==
    LET size == Start(8, chunks, Len(chunks) + 1)
    IN [part |-> "axml", magic |-> TRUE, hs |-> 8, size |-> size, stored |-> size, chunks |-> chunks]

Nodes(es) == [i \in DOMAIN es |-> IF es[i] > 0 THEN Opened[es[i]] ELSE Close(-es[i])]

\* One chunk of the plain manifest is another.
FaultyNodes ==
    {<<1, Pool(FALSE, Texts)>>, <<1, Pool(TRUE, Texts \o <<Text("more")>>)>>, <<1, Opened[1]>>, <<2, Pool(TRUE, Texts)>>,
     <<2, [Map EXCEPT !.size = 18]>>, <<3, Map>>, <<3, [Namespace EXCEPT !.uri = 13]>>, <<3, [Namespace EXCEPT !.size = 20]>>,
     <<3, Node("cdata", 13, <<>>)>>, <<5, [Permission EXCEPT !.attribute_size = 21]>>, <<5, [Permission EXCEPT !.attribute_start = 16]>>,
     <<5, [Permission EXCEPT !.special = 2]>>, <<5, [Permission EXCEPT !.hs = 12]>>, <<5, [Permission EXCEPT !.size = 58]>>,
     <<6, [Close(10) EXCEPT !.size = 20]>>, <<7, Node("start", 2, <<Attr(4, 6, "dynamic", <<1, 1, 1>>)>>)>>,
     <<7, Node("start", 2, <<Attr(4, 6, "bool", 0), Attr(None, 6, "bool", 1)>>)>>, <<7, Node("start", 2, <<Attr(4, 6, "bool", 0), Attr(4, 6, "bool", 1)>>)>>,
     <<7, Node("start", 2, <<Attr(None, 6, "bool", 1), Attr(4, 5, "dec", 1)>>)>>, <<8, Node("start", 3, <<Attr(4, 5, "string", 12)>>)>>,
     <<8, Node("start", 3, <<Attr(4, 5, "string", 13)>>)>>, <<9, Node("other", None, <<>>)>>}

FaultyTexts ==
    {[Texts[9] EXCEPT !.units = 1], [Texts[9] EXCEPT !.zero = FALSE], [Texts[9] EXCEPT !.points = <<"astral">>],
     [Texts[9] EXCEPT !.points = <<"lone">>], [Texts[9] EXCEPT !.points = <<"overlong">>, !.units = 1], [Texts[9] EXCEPT !.name = "name"]}

AxmlFaults(m) ==
    {[m EXCEPT !.magic = FALSE], [m EXCEPT !.size = 4], [m EXCEPT !.stored = @ + 1], [m EXCEPT !.hs = 12], Manifest(Tail(m.chunks)), Manifest(Front(m.chunks)),
     [m EXCEPT !.chunks[1].strings[12].rel = 120], [m EXCEPT !.chunks[1].styles = 1, !.chunks[1].styles_start = 100],
     [m EXCEPT !.chunks[1].start = 72], [m EXCEPT !.chunks[1].size = 90]}

\* Elements of the three tags, opened and closed in any order.
AxmlInputs ==
    {Manifest(Plain), Manifest(<<Pool(TRUE, Texts)>> \o Nodes(<<1, 2, 3, -3, 3, -3, -2, 3, -3, -1>>))} \cup AxmlFaults(Manifest(Plain))
    \cup {Manifest([Plain EXCEPT ![f[1]] = f[2]]) : f \in FaultyNodes}
    \cup {Manifest([Plain EXCEPT ![1] = Pool(utf8, [Texts EXCEPT ![9] = t])]) : t \in FaultyTexts, utf8 \in BOOLEAN}
    \cup {Manifest(<<Pool(TRUE, Texts)>> \o Nodes(es)) : es \in UNION {[1 .. n -> {1, 2, -1, -2}] : n \in 2 .. 4}}
    \cup {Manifest(<<Pool(TRUE, Texts), Opened[1]>> \o Nodes(es) \o <<Close(1)>>) : es \in UNION {[1 .. n -> {2, 3, -2, -3}] : n \in 2 .. 4}}

ResValue(type, data) == [ok |-> TRUE, type |-> type, data |-> data]

Entry(index, off, type, data) ==
    [index |-> index, off |-> off, size |-> 8, compact |-> FALSE, complex |-> FALSE, key |-> 1, value |-> ResValue(type, data), map |-> <<>>]

\* Two entries of sixteen bytes at most, behind the index.
Type(id, sparse, default, entries) ==
    [type |-> "type", hs |-> 28, size |-> 28 + 4 * Len(entries) + 32, id |-> id, reserved_ok |-> TRUE, sparse |-> sparse, offset16 |-> FALSE,
     config_size |-> 8, config_zero |-> default, entries_start |-> 28 + 4 * Len(entries), entries |-> entries]

TypeSpec(id, count) == [type |-> "spec", hs |-> 16, size |-> 16 + 4 * count, id |-> id, count |-> count, reserved_ok |-> TRUE]

PackagePools == <<Pool(TRUE, <<Text("bool"), Text("string")>>), Pool(FALSE, <<Text("k")>>)>>

Package(id, offset, children) ==
    LET hs == IF offset = 0 THEN 284 ELSE 288
        all == PackagePools \o children
    IN [type |-> "package", hs |-> hs, size |-> Start(hs, all, Len(all) + 1), id |-> id, type_offset |-> offset, name_units |-> 1, name_ok |-> TRUE,
        type_strings |-> hs, key_strings |-> Start(hs, all, 2), children |-> all]

Table(packages) ==
    LET chunks == <<Pool(TRUE, <<Text("s")>>)>> \o packages
        size == Start(12, chunks, Len(chunks) + 1)
    IN [part |-> "arsc", magic |-> TRUE, hs |-> 12, size |-> size, stored |-> size, declared |-> Len(packages),
        asked |-> <<1, 1, 0>>, chunks |-> chunks]

EntrySets ==
    {<<Entry(0, 0, "bool", 1), Entry(1, 16, "reference", <<1, 1, 0>>)>>, <<Entry(0, 0, "reference", <<1, 1, 1>>), Entry(1, 16, "bool", 0)>>,
     <<Entry(0, 0, "dynamic", <<1, 2, 0>>), Entry(1, 20, "reference", <<1, 1, 0>>)>>, <<Entry(1, 0, "string", 1), Entry(0, 16, "string", 2)>>,
     <<Entry(0, Bad, "bool", 1), Entry(1, 28, "bool", 1)>>, <<Entry(0, 0, "bool", 1)>>, <<Entry(3, 0, "bool", 1)>>,
     <<[Entry(0, 0, "bool", 1) EXCEPT !.compact = TRUE], [Entry(1, 28, "string", 2) EXCEPT !.compact = TRUE]>>,
     <<[Entry(0, 0, "bool", 1) EXCEPT !.complex = TRUE, !.size = 16, !.map = <<ResValue("bool", 1)>>], [Entry(1, 24, "bool", 0) EXCEPT !.compact = TRUE]>>,
     <<[Entry(0, 0, "bool", 1) EXCEPT !.complex = TRUE, !.size = 16, !.key = 2], [Entry(1, 16, "bool", 0) EXCEPT !.key = 2]>>}

Plainest == Table(<<Package(1, 0, <<TypeSpec(1, 2), Type(1, FALSE, TRUE, <<Entry(0, 0, "bool", 1), Entry(1, 16, "bool", 1)>>)>>)>>)

ArscFaults(t) ==
    {[t EXCEPT !.magic = FALSE], [t EXCEPT !.stored = 0], [t EXCEPT !.declared = 0], [t EXCEPT !.declared = 2],
     [t EXCEPT !.chunks[1].start = 20], [t EXCEPT !.chunks[1].strings = <<>>], [t EXCEPT !.chunks[1].strings = <<>>, !.chunks[1].start = 0],
     [t EXCEPT !.chunks[2].name_units = 0], [t EXCEPT !.chunks[2].name_units = kMaxPackageName], [t EXCEPT !.chunks[2].name_ok = FALSE],
     [t EXCEPT !.chunks[2].type_strings = 280], [t EXCEPT !.chunks[2].key_strings = 288], [t EXCEPT !.chunks[2].hs = 280],
     [t EXCEPT !.chunks[2].children[3].count = 1], [t EXCEPT !.chunks[2].children[3].reserved_ok = FALSE],
     [t EXCEPT !.chunks[2].children[3].type = "other"], [t EXCEPT !.chunks[2].children[4].type = "other"],
     [t EXCEPT !.chunks[2].children[4].reserved_ok = FALSE], [t EXCEPT !.chunks[2].children[4].config_size = 12],
     [t EXCEPT !.chunks[2].children[4].config_size = 4, !.chunks[2].children[4].config_zero = FALSE],
     [t EXCEPT !.chunks[2].children[4].entries_start = 34], [t EXCEPT !.chunks[2].children[4].offset16 = TRUE, !.chunks[2].children[4].entries_start = 32],
     [t EXCEPT !.chunks[2].children[4].entries[1].value.ok = FALSE], [t EXCEPT !.chunks[2].children[4].entries[1].size = 7],
     [t EXCEPT !.chunks[2].children[4].entries[1].complex = TRUE], [t EXCEPT !.chunks[2].children[4].entries[1].complex = TRUE, !.chunks[2].children[4].entries[1].compact = TRUE]}

\* A second type is a configuration of the first, another type, or one that
\* an offset makes the same; two packages may share an identifier.
ArscInput(x) ==
    \/ x \in ArscFaults(Plainest)
    \/ \E a, b \in EntrySets, sparse, default \in BOOLEAN, t \in {1, 2}, o \in {0, 1} :
         x = Table(<<Package(1, o, <<TypeSpec(1, 2), Type(1, sparse, TRUE, a), TypeSpec(2, 2), Type(t, FALSE, default, b)>>)>>)
    \/ \E a \in EntrySets, i \in {0, 1}, j \in {1, 2}, k \in {1, 2, 3} :
         x = Table(<<Package(i, 0, <<Type(1, FALSE, TRUE, a), TypeSpec(1, 2)>>), Package(j, 0, <<TypeSpec(k, 2), Type(k, FALSE, TRUE, a)>>)>>)
    \/ \E a \in EntrySets : x = Table(<<Package(1, 0, <<TypeSpec(1, 2), TypeSpec(1, 2), Type(1, FALSE, TRUE, a)>>)>>)

SigningBase ==
    [part |-> "signing", size |-> 120, magic |-> TRUE, directory |-> 100, footer |-> 52, header |-> 52,
     pairs |-> <<[id |-> 2, size |-> 8], [id |-> 3, size |-> 4]>>]

SigningAlt ==
    [size |-> {99}, magic |-> {FALSE}, directory |-> {23, 24, 52, 60}, footer |-> {23, 24, 36, 48, 92, 93}, header |-> {24, 60, 92},
     pairs |-> {<<>>, <<[id |-> 2, size |-> 20]>>, <<[id |-> 2, size |-> 8], [id |-> 2, size |-> 3]>>, <<[id |-> 2, size |-> 4]>>,
                <<[id |-> 2, size |-> 8], [id |-> 2, size |-> 5]>>, <<[id |-> 2, size |-> 8], [id |-> 3, size |-> 4], [id |-> 2, size |-> 4]>>}]

\* In a document taken for complete every element is closed by an end of its own
\* tag, the last opened is the first closed, and what is said of the package comes
\* from elements at their place: permissions and what is said of debugging from
\* below the manifest, components from below an application, in their order.
AxmlExact(x, r) ==
    LET cs == x.chunks
        ss == Strings(x)
        depth == [i \in 0 .. Len(cs) |-> SumOver(i, LAMBDA j : CASE cs[j].type = "start" -> 1 [] cs[j].type = "end" -> -1 [] OTHER -> 0)]
        starts == {i \in DOMAIN cs : cs[i].type = "start"}
        opener(i) == CHOOSE j \in 1 .. i : j \in starts /\ depth[j] = depth[i] + 1 /\ \A k \in j .. i - 1 : depth[k] > depth[i]
        tag(i) == ss[cs[i].tag].name
        below(i, name) == \E j \in 1 .. i - 1 : j \in starts /\ tag(j) = name /\ depth[j] = depth[i] - 1 /\ \A k \in j .. i : depth[k] >= depth[j]
        says(i, name) == {a \in Range(cs[i].attrs) : a.ns = 4 /\ ss[a.name].name = name}
        components == {i \in starts : tag(i) \in AppComponents /\ below(i, "application")}
    IN r.valid =>
         /\ depth[Len(cs)] = 0 /\ \A i \in DOMAIN cs : depth[i] >= 0
         /\ \A i \in DOMAIN cs : cs[i].type = "end" => tag(opener(i)) = tag(i)
         /\ Cardinality({i \in DOMAIN cs : cs[i].type = "end" /\ depth[i] = 0}) = 1
         /\ r.info.debuggable # Bad => \E i \in starts : tag(i) = "application" /\ below(i, "manifest") /\ depth[i] = 2
                                          /\ \E a \in says(i, "debuggable") : a.type = "bool" /\ a.data = r.info.debuggable
         /\ r.info.permissions = {ss[a.data].name : a \in UNION {says(i, "name") : i \in {j \in starts : tag(j) \in PermissionTags /\ below(j, "manifest")}}}
         /\ Len(r.info.components) = Cardinality(components)
         /\ \A k \in DOMAIN r.info.components :
               LET i == SetToSortSeq(components, <)[k]   c == r.info.components[k]
               IN c.kind = tag(i) /\ \A a \in says(i, "name") : a.type = "string" => Last(c.name) = ss[a.data].name

\* A resource has one default value and a specification that counts it, and a
\* resolved reference is the end of its chain.
ArscExact(x, r) ==
    r.valid =>
        LET ds == Range(Defaults(x))
            next == [i \in {d.id : d \in ds} |-> LET d == CHOOSE d \in ds : d.id = i IN IF d.type \in {"reference", "dynamic"} THEN d.data ELSE i]
            Ends(i) == {j \in DOMAIN next : next[j] = j /\ \E path \in UNION {[1 .. n -> DOMAIN next] : n \in 1 .. kMaxDepth} :
                                 path[1] = i /\ path[Len(path)] = j /\ \A k \in 2 .. Len(path) : path[k] = next[path[k - 1]]}
        IN /\ Cardinality({d.id : d \in ds}) = Len(Defaults(x))
           /\ \A d \in ds : \E p \in Range(Tail(x.chunks)) :
                 p.id = d.id[1] /\ \E c \in Range(p.children) : c.type = "spec" /\ c.id + p.type_offset = d.id[2] /\ d.id[3] < c.count
           /\ r.debuggable # Bad => \E d \in ds : d.id \in Ends(x.asked) /\ d.type = "bool" /\ d.data = r.debuggable
           /\ \A d \in ds : d.id \in Ends(x.asked) /\ d.type = "bool" => r.debuggable = d.data

\* The pairs fill the block, which ends where the directory begins.
SigningExact(x, r) ==
    r.valid => /\ r.ranges[1].off + r.ranges[1].len = x.directory
               /\ SumOver(Len(x.pairs), LAMBDA j : x.pairs[j].size + 8) + 32 = r.ranges[1].len
=============================================================================
