-------------------------------- MODULE Dex --------------------------------
(***************************************************************************)
(* DEX files (extract/android.cpp, class DexParser).  The parser goes      *)
(* through header, map, identifier tables and class definitions in a fixed *)
(* order and gives the file up at the first thing that is wrong; only a    *)
(* file that passes every stage is CONFIRMED.                              *)
(*                                                                         *)
(* One unit stands for a table entry, a list or a header word; aligned     *)
(* means even.  Indices start at 1 and 0 is kNoIndex.  A string carries    *)
(* what its bytes decode to: its place in the order of strings, the        *)
(* descriptor it spells and the name shown for that.                       *)
(***************************************************************************)
EXTENDS Words

CONSTANTS kMaxNesting,
          kMaxMethodCodeUnits, kMaxAggregateCodeUnits, kMaxLibraryLoads, max_facts

Fixed == <<"strings", "types", "protos", "fields", "methods", "classes">>

HeaderSize == 2

fixed_item_size(type) ==
    CASE type = "header" -> HeaderSize
      [] type \in Range(Fixed) \cup {"call_sites", "handles"} -> 1
      [] OTHER -> 0

Aligned(off) == off % 2 = 0

fixed_alignment(type, off) ==
    type \notin {"string_data", "class_data", "debug", "encoded"} => Aligned(off)

need(x, off, len) == span_in_bounds(x.size, off, len) /\ span_in_bounds(x.container, off, len)

\* The shared container of v041 has no data section of its own.
in_data(x, off) ==
    IF x.v41 THEN off < x.container
    ELSE x.data.len # 0 /\ off >= x.data.off /\ off < x.data.off + x.data.len

check_table(x, t) ==
    IF t.count = 0 THEN t.off = 0 ELSE t.off # 0 /\ Aligned(t.off) /\ need(x, t.off, t.count)

parse_magic_and_header(x) ==
    /\ x.version_ok /\ x.file_size >= HeaderSize
    /\ IF x.v41 THEN x.container >= x.file_size /\ x.container <= x.size
       ELSE /\ x.file_size = x.size /\ x.container = x.file_size
            /\ Aligned(x.data.len)
            /\ IF x.data.len # 0 THEN Aligned(x.data.off) /\ need(x, x.data.off, x.data.len) ELSE x.data.off = 0
    /\ x.map_off # 0 /\ Aligned(x.map_off) /\ in_data(x, x.map_off)
    /\ x.tables["classes"].count <= x.tables["types"].count
    /\ \A s \in Range(Fixed) : check_table(x, x.tables[s])

\* 0 when the map has no entry of the type.
map_item(x, type) == FirstWhere(Len(x.map), LAMBDA i : x.map[i].type = type)

MapEnd(x, m) ==
    m.off + (IF m.type = "map" THEN 1 + Len(x.map) ELSE fixed_item_size(m.type) * m.size)

require_map_matches(x, s) ==
    LET i == map_item(x, s)   t == x.tables[s]
    IN IF t.count = 0 THEN i = 0 ELSE i # 0 /\ x.map[i].size = t.count /\ x.map[i].off = t.off

\* Neighbours are compared only where the first has a known size.
parse_map(x) ==
    /\ need(x, x.map_off, 1) /\ Len(x.map) \in 1 .. x.container - x.map_off - 1
    /\ \A i \in DOMAIN x.map :
         LET m == x.map[i]
         IN /\ m.size # 0 /\ \A j \in 1 .. i - 1 : x.map[j].type # m.type
            /\ i > 1 => m.off > x.map[i - 1].off
            /\ m.off < x.container /\ fixed_alignment(m.type, m.off)
            /\ fixed_item_size(m.type) # 0 => need(x, m.off, fixed_item_size(m.type) * m.size)
            /\ m.type = "map" => m.size = 1 /\ m.off = x.map_off /\ need(x, m.off, 1 + Len(x.map))
    /\ LET h == map_item(x, "header") IN h # 0 /\ x.map[h].size = 1 /\ x.map[h].off = 0
    /\ \A s \in Range(Fixed) : require_map_matches(x, s)
    /\ \A i \in 1 .. Len(x.map) - 1 :
         MapEnd(x, x.map[i]) > x.map[i].off => MapEnd(x, x.map[i]) <= x.map[i + 1].off

\* Lexicographic order, as the comparisons of pairs, arrays and vectors give it.
Before(a, b) ==
    \/ \E i \in 1 .. Len(a) : i <= Len(b) /\ a[i] < b[i] /\ \A j \in 1 .. i - 1 : a[j] = b[j]
    \/ Len(a) < Len(b) /\ \A j \in 1 .. Len(a) : a[j] = b[j]

Ascending(s) == \A i \in 2 .. Len(s) : Before(s[i - 1], s[i])

\* Bytes that are MUTF-8 and as many units as declared, in ascending order.
parse_strings(x) ==
    LET i == map_item(x, "string_data")
    IN /\ \A k \in DOMAIN x.strings : x.strings[k].off # 0 /\ in_data(x, x.strings[k].off) /\ x.strings[k].mutf8
       /\ Ascending([k \in DOMAIN x.strings |-> <<x.strings[k].units>>])
       /\ x.strings # <<>> => i # 0 /\ x.map[i].size = Len(x.strings)

descriptor_name(x, t) == x.strings[x.types[t]]

Kind(x, t) == descriptor_name(x, t).kind

is_class_descriptor(x, t) == Kind(x, t) = "class"

parse_types(x) ==
    /\ \A t \in DOMAIN x.types : x.types[t] \in DOMAIN x.strings /\ Kind(x, t) # "none"
    /\ Ascending([t \in DOMAIN x.types |-> <<x.types[t]>>])

TypeList(x, off) == IF off = 0 THEN <<>> ELSE x.lists[off]

parse_type_list(x, off) ==
    off # 0 => /\ in_data(x, off) /\ Aligned(off) /\ need(x, off, 1)
               /\ off \in DOMAIN x.lists /\ Len(x.lists[off]) <= x.container - off - 1
               /\ \A i \in DOMAIN x.lists[off] : x.lists[off][i] \in DOMAIN x.types /\ Kind(x, x.lists[off][i]) # "void"

\* Sorted by return type and parameters, and no two read the same.
parse_protos(x) ==
    LET Shown(t) == descriptor_name(x, t).shown
        signature(p) == <<Shown(p.ret), [i \in DOMAIN TypeList(x, p.params) |-> Shown(TypeList(x, p.params)[i])]>>
    IN /\ \A i \in DOMAIN x.protos :
            LET p == x.protos[i] IN p.ret \in DOMAIN x.types /\ parse_type_list(x, p.params) /\ p.shorty
       /\ Ascending([i \in DOMAIN x.protos |-> <<x.protos[i].ret>> \o TypeList(x, x.protos[i].params)])
       /\ \A i, j \in DOMAIN x.protos : i < j => signature(x.protos[i]) # signature(x.protos[j])

parse_fields(x) ==
    /\ \A i \in DOMAIN x.fields :
         LET f == x.fields[i]
         IN /\ f.cls \in DOMAIN x.types /\ f.typ \in DOMAIN x.types /\ f.name \in DOMAIN x.strings
            /\ is_class_descriptor(x, f.cls) /\ Kind(x, f.typ) # "void"
    /\ Ascending([i \in DOMAIN x.fields |-> <<x.fields[i].cls, x.fields[i].name, x.fields[i].typ>>])

parse_methods(x) ==
    /\ \A i \in DOMAIN x.methods :
         LET m == x.methods[i]
         IN /\ m.cls \in DOMAIN x.types /\ m.proto \in DOMAIN x.protos /\ m.name \in DOMAIN x.strings
            /\ Kind(x, m.cls) \in {"class", "array"}
    /\ Ascending([i \in DOMAIN x.methods |-> <<x.methods[i].cls, x.methods[i].name, x.methods[i].proto>>])

\* An index is into the table its type names; an array is entered twice per
\* level, once for the array and once for the value.
parse_encoded_value(x, v) ==
    /\ 2 * v.nest + 1 <= kMaxNesting
    /\ CASE v.type = "handle" -> v.index \in DOMAIN x.handles
         [] v.type = "string" -> v.index \in DOMAIN x.strings
         [] v.type = "proto" -> v.index \in DOMAIN x.protos
         [] v.type = "scalar" -> TRUE
         [] OTHER -> FALSE

parse_encoded_array_item(x, off) ==
    in_data(x, off) /\ off \in DOMAIN x.arrays /\ \A i \in DOMAIN x.arrays[off] : parse_encoded_value(x, x.arrays[off][i])

parse_method_handles(x) ==
    map_item(x, "handles") # 0 =>
        /\ x.recent
        /\ \A i \in DOMAIN x.handles :
             LET h == x.handles[i]
             IN h.target \in IF h.field THEN DOMAIN x.fields ELSE DOMAIN x.methods

\* The bootstrap handle, the name and the type come first.
parse_call_sites(x) ==
    map_item(x, "call_sites") # 0 =>
        /\ x.recent /\ Ascending([i \in DOMAIN x.call_sites |-> <<x.call_sites[i]>>])
        /\ \A i \in DOMAIN x.call_sites :
             LET vs == x.arrays[x.call_sites[i]]
                 h == x.handles[vs[1].index]
             IN /\ parse_encoded_array_item(x, x.call_sites[i]) /\ Len(vs) >= 3
                /\ vs[1].type = "handle" /\ vs[2].type = "string" /\ vs[3].type = "proto"
                /\ ~h.field /\ descriptor_name(x, x.protos[x.methods[h.target].proto].ret).shown = "CallSite"

\* Longs and doubles take two words, and the receiver one.
parameter_word_count(x, proto, static) ==
    LET ps == TypeList(x, x.protos[proto].params)
    IN (IF static THEN 0 ELSE 1) + SumOver(Len(ps), LAMBDA i : IF Kind(x, ps[i]) = "wide" THEN 2 ELSE 1)

\* The address register may reach the end of the code, a position may not.
parse_debug_info(x, c, proto) ==
    LET step(s, o) ==
            CASE ~s.ok -> s
              [] o.op = "advance_pc" -> [s EXCEPT !.pc = @ + o.n, !.ok = s.pc + o.n <= c.insns]
              [] o.op = "advance_line" -> [s EXCEPT !.line = @ + o.n, !.ok = s.line + o.n >= 0]
              [] o.op = "local" -> [s EXCEPT !.ok = o.n < c.regs]
              [] o.op = "position" -> [s EXCEPT !.pc = @ + o.n, !.line = @ + o.line,
                                                !.ok = (s.pc + o.n < c.insns \/ c.insns = 0) /\ s.line + o.line >= 0]
              [] OTHER -> [s EXCEPT !.ok = FALSE]
    IN c.debug # 0 =>
          /\ in_data(x, c.debug) /\ c.params = Len(TypeList(x, x.protos[proto].params))
          /\ FoldLeft(step, [pc |-> 0, line |-> c.line, ok |-> TRUE], c.ops).ok

HandlerLength(h) == 1 + 2 * h.typed + (IF h.all THEN 1 ELSE 0)

\* Handlers follow their number; each starts where the one before it ends.
handler_starts(c) == {1 + SumOver(k - 1, LAMBDA i : HandlerLength(c.handlers[i])) : k \in DOMAIN c.handlers}

parse_code_item(x, m) ==
    LET c == x.code[m.code]
    IN /\ Aligned(m.code) /\ in_data(x, m.code) /\ need(x, m.code, 1)
       /\ c.regs >= c.ins /\ c.ins = parameter_word_count(x, x.methods[m.idx].proto, m.static)
       /\ need(x, m.code + 1, c.insns)
       /\ \A i \in DOMAIN c.tries :
            /\ c.tries[i].count # 0 /\ c.tries[i].start + c.tries[i].count <= c.insns
            /\ i > 1 => c.tries[i].start >= c.tries[i - 1].start + c.tries[i - 1].count
            /\ c.tries[i].handler \in handler_starts(c)
       /\ c.tries # <<>> => /\ c.handlers # <<>>
                            /\ \A i \in DOMAIN c.handlers :
                                 c.handlers[i].typed <= Len(x.types) /\ c.handlers[i].at < c.insns
       /\ parse_debug_info(x, c, x.methods[m.idx].proto)

\* The members a list of differences stands for.
Members(list) == [i \in DOMAIN list |-> SumOver(i, LAMBDA j : list[j].diff)]

ListFits(list, cls, owners) ==
    \A i \in DOMAIN list : /\ i > 1 => list[i].diff # 0
                           /\ Members(list)[i] \in DOMAIN owners /\ owners[Members(list)[i]].cls = cls

\* All members of a class in the order they are read.
FieldsOf(x, c) == LET d == x.class_data[c.data] IN Members(d.static_fields) \o Members(d.instance_fields)

MethodsOf(x, c) ==
    LET d == x.class_data[c.data]
        Of(list) == [i \in DOMAIN list |-> list[i] @@ [idx |-> Members(list)[i]]]
    IN Of(d.direct) \o Of(d.virtual)

parse_class_data(x, c) ==
    c.data # 0 =>
        LET d == x.class_data[c.data]
        IN /\ in_data(x, c.data)
           /\ Len(d.static_fields) + Len(d.instance_fields) <= Len(x.fields)
           /\ Len(d.direct) + Len(d.virtual) <= Len(x.methods)
           /\ \A l \in {d.static_fields, d.instance_fields} : ListFits(l, c.cls, x.fields)
           /\ \A l \in {d.direct, d.virtual} : ListFits(l, c.cls, x.methods)
           /\ \A i \in DOMAIN MethodsOf(x, c) :
                LET m == MethodsOf(x, c)[i]
                IN (m.code = 0) = m.codeless /\ (m.code # 0 => parse_code_item(x, m))

WithData(x) == SelectSeq(x.classes, LAMBDA c : c.data # 0)

AllFields(x) == FlattenSeq([i \in DOMAIN WithData(x) |-> FieldsOf(x, WithData(x)[i])])

AllMethods(x) == FlattenSeq([i \in DOMAIN WithData(x) |-> MethodsOf(x, WithData(x)[i])])

NoRepeat(s) == \A i, j \in DOMAIN s : i < j => s[i] # s[j]

CodeOffsets(x) == SelectSeq([i \in DOMAIN AllMethods(x) |-> AllMethods(x)[i].code], LAMBDA o : o # 0)

\* A superclass or interface defined here is defined earlier.
Ordered(x, i, t) == \A j \in DOMAIN x.classes : x.classes[j].cls = t => j < i

parse_classes(x) ==
    /\ \A i \in DOMAIN x.classes :
         LET c == x.classes[i]
         IN /\ c.cls \in DOMAIN x.types /\ is_class_descriptor(x, c.cls)
            /\ c.super # 0 => c.super \in DOMAIN x.types /\ is_class_descriptor(x, c.super) /\ c.super # c.cls
            /\ parse_type_list(x, c.interfaces)
            /\ \A t \in Range(TypeList(x, c.interfaces)) : is_class_descriptor(x, t) /\ Ordered(x, i, t)
            /\ Ordered(x, i, c.super)
            /\ parse_class_data(x, c)
            /\ c.statics # 0 => /\ parse_encoded_array_item(x, c.statics)
                                /\ Len(x.arrays[c.statics]) <= IF c.data = 0 THEN 0 ELSE Len(x.class_data[c.data].static_fields)
    /\ NoRepeat([i \in DOMAIN x.classes |-> x.classes[i].cls])
    /\ NoRepeat(SelectSeq([i \in DOMAIN x.classes |-> x.classes[i].data], LAMBDA d : d # 0))
    /\ NoRepeat(AllFields(x))
    /\ NoRepeat([i \in DOMAIN AllMethods(x) |-> AllMethods(x)[i].idx])
    /\ NoRepeat(CodeOffsets(x))

\* The offsets of a kind that the parser has met.
Met(x, type) ==
    CASE type = "type_list" -> ({p.params : p \in Range(x.protos)} \cup {c.interfaces : c \in Range(x.classes)}) \ {0}
      [] type = "class_data" -> {c.data : c \in Range(x.classes)} \ {0}
      [] type = "code" -> Range(CodeOffsets(x))
      [] type = "debug" -> {x.code[o].debug : o \in Range(CodeOffsets(x))} \ {0}
      [] type = "encoded" -> ({c.statics : c \in Range(x.classes)} \ {0})
                             \cup (IF map_item(x, "call_sites") = 0 THEN {} ELSE Range(x.call_sites))

require_dynamic_map_count(x, type, actual) ==
    LET i == map_item(x, type) IN IF actual = 0 THEN i = 0 ELSE i # 0 /\ x.map[i].size = actual

validate_map_dynamic_counts(x) ==
    \A type \in {"type_list", "class_data", "code", "debug", "encoded"} :
        require_dynamic_map_count(x, type, Cardinality(Met(x, type)))

\* A checksum that does not match is an anomaly, not a failure.
run(x) ==
    /\ parse_magic_and_header(x) /\ parse_map(x) /\ parse_strings(x) /\ parse_types(x)
    /\ parse_protos(x) /\ parse_fields(x) /\ parse_methods(x)
    /\ parse_method_handles(x) /\ parse_call_sites(x) /\ parse_classes(x)
    /\ validate_map_dynamic_counts(x)

dex_finding(x) ==
    IF ~x.magic THEN Absent
    ELSE IF ~run(x) THEN Failed
    ELSE Confirmed([i \in DOMAIN CodeOffsets(x) |-> range(CodeOffsets(x)[i] + 1, x.code[CodeOffsets(x)[i]].insns)])

Item(type, size, off) == [type |-> type, size |-> size, off |-> off]

DexMap == <<Item("header", 1, 0), Item("strings", 6, 2), Item("types", 5, 8), Item("protos", 2, 14),
            Item("fields", 1, 16), Item("methods", 3, 18), Item("classes", 2, 22), Item("call_sites", 1, 24),
            Item("handles", 1, 26), Item("map", 1, 28), Item("type_list", 2, 46), Item("class_data", 2, 50),
            Item("code", 2, 56), Item("debug", 1, 66), Item("encoded", 2, 70), Item("string_data", 6, 76)>>

DexString(i, kind, shown) == [off |-> 75 + i, units |-> i, mutf8 |-> TRUE, kind |-> kind, shown |-> shown]

DexStrings == <<DexString(1, "class", "A"), DexString(2, "class", "B"), DexString(3, "class", "CallSite"),
                DexString(4, "void", "void"), DexString(5, "wide", "long"), DexString(6, "none", "")>>

Method(diff, code) == [diff |-> diff, codeless |-> code = 0, code |-> code, static |-> FALSE]

ClassData(fields, methods) ==
    [static_fields |-> fields, instance_fields |-> <<>>, direct |-> methods, virtual |-> <<>>]

Try(start, count, handler) == [start |-> start, count |-> count, handler |-> handler]

Handler(typed, all, at) == [typed |-> typed, all |-> all, at |-> at]

Value(type, index) == [type |-> type, index |-> index, nest |-> 0]

Op(op, n, line) == [op |-> op, n |-> n, line |-> line]

Code == [regs |-> 2, ins |-> 1, insns |-> 3, params |-> 0, debug |-> 0, line |-> 1, ops |-> <<>>,
         tries |-> <<>>, handlers |-> <<>>]

Guarded == [Code EXCEPT !.tries = <<Try(0, 1, 1), Try(1, 2, 4)>>, !.debug = 66,
                        !.handlers = <<Handler(1, FALSE, 1), Handler(0, TRUE, 2)>>,
                        !.ops = <<Op("position", 2, 0), Op("advance_pc", 1, 0)>>]

Class(cls, super, interfaces, data, statics) ==
    [cls |-> cls, super |-> super, interfaces |-> interfaces, data |-> data, statics |-> statics]

DexBase ==
    [part |-> "dex", size |-> 84, magic |-> TRUE, version_ok |-> TRUE, v41 |-> FALSE, recent |-> TRUE,
     file_size |-> 84, container |-> 84, data |-> range(28, 56), map_off |-> 28, map |-> DexMap,
     tables |-> [s \in Range(Fixed) |-> LET i == CHOOSE i \in DOMAIN DexMap : DexMap[i].type = s
                                        IN [count |-> DexMap[i].size, off |-> DexMap[i].off]],
     strings |-> DexStrings, types |-> <<1, 2, 3, 4, 5>>, lists |-> (46 :> <<5>> @@ 48 :> <<1>>),
     protos |-> <<[ret |-> 3, params |-> 46, shorty |-> TRUE], [ret |-> 4, params |-> 0, shorty |-> TRUE]>>,
     fields |-> <<[cls |-> 1, typ |-> 5, name |-> 6]>>,
     methods |-> <<[cls |-> 1, proto |-> 1, name |-> 6], [cls |-> 1, proto |-> 2, name |-> 6], [cls |-> 2, proto |-> 2, name |-> 6]>>,
     handles |-> <<[field |-> FALSE, target |-> 1]>>, call_sites |-> <<70>>,
     arrays |-> (70 :> <<Value("handle", 1), Value("string", 6), Value("proto", 2)>> @@ 74 :> <<Value("scalar", 0)>>),
     classes |-> <<Class(1, 0, 0, 50, 74), Class(2, 1, 48, 52, 0)>>,
     class_data |-> (50 :> ClassData(<<[diff |-> 1]>>, <<Method(1, 0), Method(1, 56)>>) @@ 52 :> ClassData(<<>>, <<Method(3, 62)>>)),
     code |-> (56 :> Guarded @@ 62 :> Code)]

WithMap(i, item) == [DexMap EXCEPT ![i] = item]

WithCode(c) == 56 :> c @@ 62 :> Code

DexAlt ==
    [magic |-> {FALSE}, version_ok |-> {FALSE}, v41 |-> {TRUE}, recent |-> {FALSE}, size |-> {83, 86}, container |-> {64},
     data |-> {range(28, 57), range(28, 58), range(50, 34), range(30, 54)}, map_off |-> {0, 29, 26},
     map |-> {WithMap(3, Item("types", 7, 8)), WithMap(4, Item("protos", 2, 12)), WithMap(11, Item("type_list", 2, 44)),
              WithMap(11, Item("type_list", 1, 46)), WithMap(13, Item("code", 1, 56)), WithMap(16, Item("encoded", 6, 76)),
              WithMap(14, Item("debug", 2, 66)), SubSeq(DexMap, 1, 15)},
     tables |-> {[DexBase.tables EXCEPT !["types"] = [count |-> 7, off |-> 8]],
                 [DexBase.tables EXCEPT !["classes"] = [count |-> 0, off |-> 0]]},
     strings |-> {[DexStrings EXCEPT ![2].units = 1], [DexStrings EXCEPT ![2].shown = "A"], [DexStrings EXCEPT ![1].kind = "array"],
                  [DexStrings EXCEPT ![6].off = 20], [DexStrings EXCEPT ![5].kind = "word"]},
     types |-> {<<1, 2, 3, 5, 4>>, <<1, 2, 3, 4, 6>>}, lists |-> {(46 :> <<4>> @@ 48 :> <<1>>), (46 :> <<5>> @@ 48 :> <<2>>), (46 :> <<5>> @@ 48 :> <<5>>)},
     fields |-> {<<[cls |-> 2, typ |-> 5, name |-> 6]>>, <<[cls |-> 1, typ |-> 4, name |-> 6]>>},
     methods |-> {[DexBase.methods EXCEPT ![2].cls = 2], [DexBase.methods EXCEPT ![3].proto = 1], [DexBase.methods EXCEPT ![2].proto = 1]},
     handles |-> {<<[field |-> TRUE, target |-> 1]>>, <<[field |-> FALSE, target |-> 2]>>},
     arrays |-> {[DexBase.arrays EXCEPT ![74] = Append(@, Value("scalar", 0))], [DexBase.arrays EXCEPT ![70][2] = Value("proto", 1)],
                 [DexBase.arrays EXCEPT ![74][1].nest = 2], [DexBase.arrays EXCEPT ![74][1].nest = 1]},
     classes |-> {<<Class(1, 2, 0, 50, 74), Class(2, 1, 48, 52, 0)>>, <<Class(1, 0, 48, 50, 74), Class(2, 0, 0, 52, 0)>>,
                  <<Class(2, 0, 0, 52, 0), Class(1, 2, 48, 50, 74)>>, <<Class(1, 0, 0, 50, 74), Class(2, 1, 48, 50, 0)>>,
                  <<Class(1, 0, 0, 50, 0), Class(2, 1, 0, 52, 0)>>},
     class_data |-> {[DexBase.class_data EXCEPT ![50].virtual = <<Method(1, 0)>>], [DexBase.class_data EXCEPT ![52].direct = <<Method(3, 56)>>],
                     [DexBase.class_data EXCEPT ![50].direct[2].diff = 0], [DexBase.class_data EXCEPT ![52].direct[1].static = TRUE],
                     [DexBase.class_data EXCEPT ![50].direct = <<Method(1, 0)>>]},
     code |-> {WithCode(Code), WithCode([Guarded EXCEPT !.insns = 30]), WithCode([Guarded EXCEPT !.tries[2].start = 0]),
               WithCode([Guarded EXCEPT !.tries[2].handler = 3]), WithCode([Guarded EXCEPT !.insns = 2]),
               WithCode([Guarded EXCEPT !.ops[1].n = 3]), WithCode([Guarded EXCEPT !.ops[2].n = 2]), WithCode([Guarded EXCEPT !.ins = 2]),
               WithCode([Guarded EXCEPT !.handlers[1].all = TRUE])}]

\* What the maps of a confirmed file are used for, said of the file as a whole:
\* tables apart, inheritance without cycles, every member with one definition
\* in its own class, no code shared, every protected range within its code and
\* protected once, and the map an exact census.
DexExact(x, r) ==
    r.valid =>
        /\ Disjoint([i \in DOMAIN x.map |-> range(x.map[i].off, MapEnd(x, x.map[i]) - x.map[i].off)])
        /\ \A S \in SUBSET {c.cls : c \in Range(x.classes)} :
              S # {} => \E c \in Range(x.classes) :
                           c.cls \in S /\ c.super \notin S /\ Range(TypeList(x, c.interfaces)) \cap S = {}
        /\ \A f \in DOMAIN x.fields :
              Cardinality({<<c, i>> \in Range(x.classes) \X DOMAIN x.fields :
                            c.data # 0 /\ i \in DOMAIN FieldsOf(x, c) /\ FieldsOf(x, c)[i] = f}) <= 1
        /\ \A c \in Range(x.classes) : c.data # 0 => \A f \in Range(FieldsOf(x, c)) : x.fields[f].cls = c.cls
        /\ Cardinality({q.off : q \in Range(r.ranges)}) = Len(r.ranges)
        /\ \A o \in Range(CodeOffsets(x)) :
              \A pc \in 0 .. x.size : Cardinality({i \in DOMAIN x.code[o].tries :
                  pc \in x.code[o].tries[i].start .. x.code[o].tries[i].start + x.code[o].tries[i].count - 1})
                     <= IF pc < x.code[o].insns THEN 1 ELSE 0
        /\ \A type \in {"type_list", "class_data", "code", "debug", "encoded"} :
              Cardinality(Met(x, type)) = SumOver(Len(x.map), LAMBDA i : IF x.map[i].type = type THEN x.map[i].size ELSE 0)

---------------------------------------------------------------------------
(***************************************************************************)
(* What the parser reads out of instruction streams: the calls of          *)
(* System.loadLibrary whose argument is a constant (build_jni_surfaces),   *)
(* and the code the runtime enters by itself, class initialisers and       *)
(* bootstraps (build_implicit).  A method is the sequence of its           *)
(* instructions, one of its registers is followed.  Branch targets are     *)
(* given by pc.                                                            *)
(***************************************************************************)

Units(ins) == SumOver(Len(ins), LAMBDA i : ins[i].width)

PcOf(ins, i) == SumOver(i - 1, LAMBDA j : ins[j].width)

\* A stream is decoded to its end or not at all.
Decodes(code) ==
    /\ \A i \in DOMAIN code.ins : code.ins[i].op # "unknown"
    /\ Units(code.ins) = code.units

Ends == {"return", "throw"}

\* Targets are instructions, never payloads or the middle of something.
add_target(ins, pc) == {i \in DOMAIN ins : PcOf(ins, i) = pc /\ ins[i].op # "payload"}

\* The edges out of an instruction; a branch to nowhere has an empty target.
edges(ins, i) ==
    LET x == ins[i]
        next == IF i < Len(ins) THEN {add_target(ins, PcOf(ins, i) + x.width)} ELSE {}
    IN CASE x.op \in Ends \cup {"payload"} -> {}
         [] x.op = "goto" -> {add_target(ins, x.to)}
         [] x.op = "if" -> next \cup {add_target(ins, x.to)}
         [] OTHER -> next

\* Switches are not followed, a branch to itself and a fall into a payload are refused.
Supported(ins) ==
    \A i \in DOMAIN ins :
        /\ ins[i].op # "switch" /\ {} \notin edges(ins, i)
        /\ ins[i].op \in {"goto", "if"} => ins[i].to # PcOf(ins, i)

Successors(ins, i) == UNION edges(ins, i)

reachable(ins) == Closure({1} \cap DOMAIN ins, LAMBDA i : Successors(ins, i), Len(ins))

predecessors(ins, i) == {j \in DOMAIN ins : i \in Successors(ins, j)}

\* A reachable call with one argument, whose only predecessor is the constant
\* right in front of it, loaded into the argument's register.
LoadAt(ins, i) ==
    /\ ins[i].op = "load" /\ i \in reachable(ins) /\ i > 1
    /\ predecessors(ins, i) = {i - 1} /\ i - 1 \in reachable(ins)
    /\ ins[i - 1].op = "const" /\ ins[i - 1].reg = ins[i].reg

\* Methods too large for what is left of the budget are passed over.
FoundIn(code) == SetToSortSeq({i \in DOMAIN code.ins : LoadAt(code.ins, i)}, <)

WithLoads(s, code, found) ==
    LET kept == SubSeq(found, 1, IF Len(found) < kMaxLibraryLoads - Len(s.loads) THEN Len(found) ELSE kMaxLibraryLoads - Len(s.loads))
    IN [units |-> s.units + code.units, complete |-> s.complete /\ kept = found,
        loads |-> s.loads \o [k \in DOMAIN kept |-> [code |-> code, at |-> kept[k], str |-> code.ins[kept[k] - 1].str]]]

ScanCode(s, code) ==
    IF code.units > kMaxMethodCodeUnits \/ s.units > kMaxAggregateCodeUnits - code.units THEN [s EXCEPT !.complete = FALSE]
    ELSE IF ~Decodes(code) \/ ~Supported(code.ins) THEN [s EXCEPT !.complete = FALSE, !.units = @ + code.units]
    ELSE WithLoads(s, code, FoundIn(code))

Scan(x) == FoldLeft(ScanCode, [units |-> 0, complete |-> TRUE, loads |-> <<>>], x.codes)

LoadRange(l) == range(l.code.off + PcOf(l.code.ins, l.at), l.code.ins[l.at].width)

Surfaces(s) ==
    LET rs == [k \in DOMAIN s.loads |-> LoadRange(s.loads[k])] IN IF s.complete THEN Confirmed(rs) ELSE Partial(rs)

build_jni_surfaces(x) == Surfaces(Scan(x))

\* How far the decoder of build_implicit gets; it leaves the rest of a stream.
DecodedPrefix(code) ==
    LET stop == FirstWhere(Len(code.ins), LAMBDA i : code.ins[i].op = "unknown" \/ PcOf(code.ins, i) + code.ins[i].width > code.units)
    IN IF stop = 0 THEN code.ins ELSE SubSeq(code.ins, 1, stop - 1)

Uses(x) ==
    FoldLeft(LAMBDA acc, c : acc \o SelectSeq(DecodedPrefix(c), LAMBDA i : i.op = "custom" /\ i.site \in DOMAIN x.sites), <<>>, x.codes)

TargetUses(x, site) == Cardinality({k \in DOMAIN Uses(x) : x.sites[Uses(x)[k].site].target = x.sites[site].target})

\* A bootstrap that is not the platform's and governs most of the uses.
Elevated(x, site) ==
    LET n == TargetUses(x, site)   all == Len(Uses(x))
    IN ~x.sites[site].standard /\ n >= 2 /\ (n >= 4 \/ (all >= 2 /\ n * 100 >= all * 75))

Kept(f) == SubSeq(f, 1, IF Len(f) <= max_facts THEN Len(f) ELSE max_facts)

\* Initialisers, then each call site at its first use, then the uses, each of
\* which names the fact of its call site (0 when the budget cut that off).
Facts(x) ==
    LET clinit == [k \in 1 .. Cardinality({c \in DOMAIN x.codes : x.codes[c].clinit}) |-> [kind |-> "clinit", site |-> 0]]
        uses == Uses(x)
        firsts == SelectSeq([k \in DOMAIN uses |-> [kind |-> IF \E j \in 1 .. k - 1 : uses[j].site = uses[k].site THEN "again" ELSE "site",
                                                   site |-> uses[k].site]], LAMBDA f : f.kind = "site")
        early == Kept(clinit \o firsts)
        depends(s) == FirstWhere(Len(early), LAMBDA i : early[i].kind = "site" /\ early[i].site = s)
    IN [all |-> early \o [k \in DOMAIN uses |-> [kind |-> "use", site |-> uses[k].site, depends |-> depends(uses[k].site),
                                                 elevated |-> Elevated(x, uses[k].site)]],
        cut |-> Len(clinit) + Len(firsts) > max_facts]

Implicit(x, f) ==
    LET partial == f.cut \/ Len(f.all) > max_facts
                   \/ \E c \in Range(x.codes) : DecodedPrefix(c) # c.ins \/ \E i \in Range(DecodedPrefix(c)) : i.op = "custom" /\ i.site \notin DOMAIN x.sites
    IN [facts |-> Kept(f.all), state |-> IF partial THEN "PARTIAL" ELSE IF f.all = <<>> THEN "NOT_PRESENT" ELSE "RESOLVED"]

build_implicit(x) == Implicit(x, Facts(x))

parse_code(x) == build_jni_surfaces(x) @@ [implicit |-> build_implicit(x)]

Ins(op, width) == [op |-> op, width |-> width, reg |-> 0, str |-> 0, to |-> 0, site |-> 0]

Const(reg, str) == [Ins("const", 2) EXCEPT !.reg = reg, !.str = str]

Load(reg) == [Ins("load", 3) EXCEPT !.reg = reg]

Branch(op, to) == [Ins(op, 2) EXCEPT !.to = to]

Custom(site) == [Ins("custom", 3) EXCEPT !.site = site]

Stream(off, ins) == [off |-> off, units |-> Units(ins), ins |-> ins, clinit |-> FALSE, handlers |-> {}]

Straight == <<Const(0, 1), Load(0), Ins("return", 1)>>

CodeBase ==
    [part |-> "code", size |-> 40, sites |-> <<[target |-> 1, standard |-> FALSE], [target |-> 2, standard |-> TRUE]>>,
     codes |-> <<Stream(0, Straight), Stream(10, <<Custom(1), Custom(1), Ins("return", 1)>>)>>]

Streams ==
    {<<Const(0, 1), Branch("if", 6), Const(0, 2), Load(0), Ins("return", 1)>>,
     <<Branch("if", 4), Const(0, 1), Load(0), Ins("return", 1)>>,
     <<Branch("goto", 4), Const(0, 1), Load(0), Ins("return", 1)>>,
     <<Const(0, 1), Const(1, 2), Load(0), Load(1), Ins("return", 1)>>,
     <<Const(0, 1), Load(0), Branch("goto", 0)>>,
     <<Const(0, 1), Load(0), Branch("if", 2), Ins("return", 1)>>,
     <<Branch("goto", 0), Ins("return", 1)>>,
     <<Const(0, 1), Load(0), Branch("goto", 3)>>,
     <<Ins("unknown", 1), Custom(1)>>, <<Ins("switch", 3), Ins("return", 1)>>,
     <<Custom(2), Custom(3), Ins("return", 1)>>, <<Custom(1), Custom(2), Custom(2), Ins("payload", 1)>>,
     <<Ins("return", 1), Ins("payload", 4)>>, <<Ins("other", 1), Ins("payload", 2)>>}

\* Over every pair of streams, and with a declared length that does not fit.
CodeInputs ==
    {[CodeBase EXCEPT !.codes = <<[Stream(0, a) EXCEPT !.clinit = init, !.units = @ + more], Stream(16, b)>>] :
        a \in Streams \cup {Straight}, b \in Streams \cup {Straight}, init \in BOOLEAN, more \in {-1, 0}}

\* The same with a handler that covers the first instruction.
HandlerInputs ==
    {[CodeBase EXCEPT !.codes = <<[Stream(0, s) EXCEPT !.handlers = {[covers |-> 1, enters |-> i]}]>>] :
        s \in Streams \cup {Straight}, i \in 2 .. 3}

\* What can be in a register when an instruction is reached: 0 is whatever the
\* method was entered with.  An instruction that throws leaves it alone.
Values(code, reg) ==
    LET ins == code.ins
        after(i, v) == IF ins[i].op = "const" /\ ins[i].reg = reg THEN ins[i].str ELSE v
        next(s) == {<<j, after(s[1], s[2])>> : j \in Successors(ins, s[1])}
                   \cup {<<h.enters, s[2]>> : h \in {h \in code.handlers : h.covers = s[1]}}
    IN Closure({<<1, 0>>}, next, 2 * Len(ins))

\* The string reported with a call is its argument on every path to it.
LoadsExact(x) ==
    \A l \in Range(Scan(x).loads) : {v[2] : v \in {v \in Values(l.code, l.code.ins[l.at].reg) : v[1] = l.at}} = {l.str}

\* A complete scan has decoded every stream; a use depends on the fact of its own
\* call site; what the budget or the decoder left out shows in the state.
CodeExact(x, r) ==
    r.state # "NOT_RUN" =>
        /\ (\A c \in Range(x.codes) : c.handlers = {}) => LoadsExact(x)
        /\ r.state = "CONFIRMED" => \A c \in Range(x.codes) : c.units = Units(c.ins) /\ \A i \in DOMAIN c.ins : c.ins[i].op \notin {"unknown", "switch"}
        /\ \A i \in DOMAIN r.implicit.facts :
              LET f == r.implicit.facts[i]
              IN f.kind = "use" => IF f.depends = 0 THEN r.implicit.state = "PARTIAL"
                                   ELSE f.depends < i /\ r.implicit.facts[f.depends].kind = "site" /\ r.implicit.facts[f.depends].site = f.site
        /\ Len(r.implicit.facts) <= max_facts
        /\ r.implicit.state = "NOT_PRESENT" => \A c \in Range(x.codes) : \A i \in Range(c.ins) : i.op # "custom"
=============================================================================
