----------------------------- MODULE MachoSwift -----------------------------
(***************************************************************************)
(* The Swift metadata of a Mach-O slice (formats/macho_swift.cpp): type    *)
(* records point to type descriptors, those to their module through a      *)
(* chain of parents, to their name and to a field descriptor.  All         *)
(* pointers are relative in the address space, all reads are in the file,  *)
(* and parts of the file may be encrypted.                                 *)
(*                                                                         *)
(* Units: a 32-bit word or a character of a string is one long.  x.rel     *)
(* holds the words read as pointers (x.tag their low bits), x.kind the     *)
(* context flags, x.head the fixed part of the field descriptors, x.text   *)
(* the strings.                                                            *)
(***************************************************************************)
EXTENDS Words

CONSTANTS kMaxTypes, kMaxFieldDescriptors, kMaxFields, kMaxPointers, kMaxStrings, kMaxStringBytes, kMaxString, kMaxContextDepth

\* What the parser has used up and whether it had to leave something out.
Fresh == [ptr |-> 0, str |-> 0, bytes |-> 0, desc |-> 0, recs |-> 0, types |-> 0, partial |-> FALSE, limited |-> FALSE]

partial(s) == [s EXCEPT !.partial = TRUE]

over_budget(s) == [s EXCEPT !.partial = TRUE, !.limited = TRUE]

local_offset(x, at, need) == at >= x.base /\ span_in_bounds(x.len, at - x.base, need)

section_for_file(x, at, need) ==
    FirstWhere(Len(x.sections), LAMBDA i : LET c == x.sections[i] IN ~c.zero /\ at >= c.off /\ span_in_bounds(c.size, at - c.off, need))

encrypted(x, at, size) ==
    x.crypt.on /\ size # 0 /\ x.crypt.size # 0
    /\ (checked_add(at, size) /\ checked_add(x.crypt.off, x.crypt.size) => Overlap(range(at, size), range(x.crypt.off, x.crypt.size)))

section_encrypted(x, c) == encrypted(x, c.off, c.size)

Mapped(x, at, n) ==
    LET c == x.sections[n]
    IN IF n = 0 \/ ~checked_add(c.addr, at - c.off) THEN Bad ELSE c.addr + (at - c.off)

file_to_va(x, at) == Mapped(x, at, section_for_file(x, at, 1))

\* Only the first section that holds the address counts.
va_to_file(x, va) ==
    LET n == FirstWhere(Len(x.sections), LAMBDA i : LET c == x.sections[i] IN ~c.zero /\ va >= c.addr /\ span_in_bounds(c.size, va - c.addr, 1))
        at == x.sections[n].off + (va - x.sections[n].addr)
    IN IF n = 0 \/ at >= WordLimit \/ ~local_offset(x, at, 1) THEN Bad ELSE at

read_abs(x, at) == ~encrypted(x, at, 1) /\ local_offset(x, at, 1) /\ section_for_file(x, at, 1) # 0

In(f, at, default) == IF at \in DOMAIN f THEN f[at] ELSE default

\* A pointer: Bad when it cannot be followed, 0 when it is null.
target_from(x, s, field, nullable, from) ==
    LET t == [s EXCEPT !.ptr = @ + 1]
        rel == In(x.rel, field, 0)
        to == va_to_file(x, from + rel)
    IN CASE s.ptr >= kMaxPointers -> [s |-> over_budget(s), to |-> Bad]
         [] ~read_abs(x, field) -> [s |-> partial(t), to |-> Bad]
         [] nullable /\ rel = 0 -> [s |-> t, to |-> 0]
         [] from = Bad \/ from + rel < 0 \/ from + rel >= WordLimit \/ to = Bad -> [s |-> partial(t), to |-> Bad]
         [] OTHER -> [s |-> t, to |-> to]

relative_target(x, s, field, nullable) == target_from(x, s, field, nullable, file_to_va(x, field))

NoText == [name |-> <<>>, len |-> 0, good |-> TRUE]

\* The string at a place, which must end within its section and the budgets.
text_in(x, s, at, mangled, n) ==
    LET c == x.sections[n]
        available == c.size - (at - c.off)
        bounded == IF available < kMaxString + 1 THEN available ELSE kMaxString + 1
        t == In(x.text, at, NoText)
    IN CASE n = 0 \/ section_encrypted(x, c) -> [s |-> partial(s), ok |-> FALSE]
         [] s.str >= kMaxStrings -> [s |-> over_budget(s), ok |-> FALSE]
         [] ~local_offset(x, at, bounded) \/ t.len >= bounded \/ ~t.good \/ (mangled /\ t.len = 0) -> [s |-> partial(s), ok |-> FALSE]
         [] s.bytes > kMaxStringBytes - (t.len + 1) -> [s |-> over_budget(s), ok |-> FALSE]
         [] OTHER -> [s |-> [s EXCEPT !.str = @ + 1, !.bytes = @ + t.len + 1], ok |-> TRUE]

text_at(x, s, at, mangled) == text_in(x, s, at, mangled, section_for_file(x, at, 1))

string_at(x, p) ==
    LET t == text_at(x, p.s, p.to, FALSE)
        name == In(x.text, p.to, NoText).name
    IN CASE p.to = Bad -> [s |-> p.s, ok |-> FALSE, name |-> <<>>]
         [] p.to = 0 -> [s |-> p.s, ok |-> TRUE, name |-> <<>>]
         [] t.ok /\ name = <<>> -> [s |-> partial(t.s), ok |-> FALSE, name |-> <<>>]
         [] OTHER -> [s |-> t.s, ok |-> t.ok, name |-> name]

string_from_pointer(x, s, field) == string_at(x, relative_target(x, s, field, FALSE))

mangled_at(x, p) == IF p.to \in {Bad, 0} THEN [s |-> p.s, ok |-> p.to = 0] ELSE text_at(x, p.s, p.to, TRUE)

mangled_from_pointer(x, s, field) == mangled_at(x, relative_target(x, s, field, TRUE))

-----------------------------------------------------------------------------
(* Field descriptors *)

\* One record of a descriptor: a bad one makes the descriptor useless, the
\* others are still read.
FieldNamed(d, ok, name) ==
    [d EXCEPT !.s = [name.s EXCEPT !.recs = @ + 1], !.ok = @ /\ ok /\ name.ok,
              !.fields = IF ok /\ name.ok THEN Append(@, name.name) ELSE @]

FieldTyped(x, d, record, ok, type) == FieldNamed(d, ok /\ type.ok, string_from_pointer(x, type.s, record + 2))

read_field(x, d, record) ==
    LET ok == read_abs(x, record)
    IN FieldTyped(x, d, record, ok, mangled_from_pointer(x, IF ok THEN d.s ELSE partial(d.s), record + 1))

Stop(st, s) == [st EXCEPT !.s = s, !.done = TRUE, !.whole = FALSE]

\* The names of a descriptor, then its records.
DescriptorNames(x, at, a) ==
    LET b == mangled_from_pointer(x, a.s, at + 1) IN [s |-> b.s, ok |-> a.ok /\ b.ok, fields |-> <<>>]

DescriptorBody(x, st, h) ==
    FoldLeft(LAMBDA d, i : read_field(x, d, st.at + 4 + (i - 1) * h.stride),
             DescriptorNames(x, st.at, mangled_from_pointer(x, st.s, st.at)), [i \in 1 .. h.count |-> i])

Described(st, h, d) ==
    LET len == 4 + h.count * h.stride
    IN [st EXCEPT !.s = [d.s EXCEPT !.desc = @ + 1], !.at = @ + len,
                  !.found = IF d.ok THEN @ @@ (st.at :> [kind |-> h.kind, fields |-> d.fields, len |-> len]) ELSE @]

\* The descriptor at the cursor.
read_descriptor(x, st, end) ==
    LET at == st.at
        h == In(x.head, at, [kind |-> 0, stride |-> 0, count |-> 0])
    IN CASE st.done -> st
         [] at >= end -> [st EXCEPT !.done = TRUE]
         [] st.s.desc >= kMaxFieldDescriptors -> Stop(st, over_budget(st.s))
         [] end - at < 4 \/ ~read_abs(x, at + 2) \/ ~read_abs(x, at + 3) \/ h.stride < 3 -> Stop(st, partial(st.s))
         [] h.count > kMaxFields - st.s.recs -> Stop(st, over_budget(st.s))
         [] h.count * h.stride > end - at - 4 -> Stop(st, partial(st.s))
         [] h.kind > 7 -> [st EXCEPT !.s = [partial(@) EXCEPT !.desc = @ + 1, !.recs = @ + h.count], !.at = @ + 4 + h.count * h.stride]
         [] OTHER -> Described(st, h, DescriptorBody(x, st, h))

AllDescriptors(st) == [s |-> st.s, found |-> st.found, whole |-> st.whole /\ ~st.s.limited]

parse_field_descriptors(x, s, c) ==
    IF ~checked_add(c.off, c.size) THEN [s |-> partial(s), found |-> <<>>, whole |-> FALSE]
    ELSE AllDescriptors(FoldLeft(LAMBDA st, i : read_descriptor(x, st, c.off + c.size),
                                 [s |-> s, at |-> c.off, found |-> <<>>, done |-> FALSE, whole |-> TRUE],
                                 [i \in 1 .. kMaxFieldDescriptors + 1 |-> i]))

-----------------------------------------------------------------------------
(* Types *)

\* One step up the chain of contexts: to the module, or to the parent.
AtModule(m, name) == [m EXCEPT !.s = name.s, !.done = TRUE, !.ok = name.ok, !.name = name.name]

AtParent(m, up) == [m EXCEPT !.s = up.s, !.done = up.to = Bad, !.at = up.to, !.seen = @ \cup {m.at}]

climb(x, m) ==
    LET at == m.at
        end(s) == [m EXCEPT !.s = s, !.done = TRUE]
    IN CASE m.done -> m
         [] at \in m.seen \/ ~read_abs(x, at) -> end(partial(m.s))
         [] In(x.kind, at, "other") = "module" -> AtModule(m, string_from_pointer(x, m.s, at + 2))
         [] ~read_abs(x, at + 1) \/ (In(x.rel, at + 1, 0) = 0 /\ In(x.tag, at + 1, 0) = 0) \/ In(x.tag, at + 1, 0) % 2 = 1 -> end(partial(m.s))
         [] OTHER -> AtParent(m, relative_target(x, m.s, at + 1, FALSE))

WithinBudget(m) == IF m.done THEN m ELSE [m EXCEPT !.s = over_budget(@)]

module_for_type(x, s, type) ==
    WithinBudget(FoldLeft(LAMBDA acc, i : climb(x, acc),
                          [s |-> s, at |-> type, seen |-> {}, done |-> FALSE, ok |-> FALSE, name |-> <<>>], [i \in 1 .. kMaxContextDepth |-> i]))

KindMatches(kind, d) == \/ kind = "class" /\ d = 1
                        \/ kind = "struct" /\ d = 0
                        \/ kind = "enum" /\ d \in {2, 3}

\* What makes two types the same: the module's name with the type's name
\* behind it.
Relation(module, name) == module \o name

\* One type record, followed to its context, its module, its name and its
\* field descriptor; each of them may be the last.
WithFields(x, found, acc, type, f) ==
    LET d == found[f.to]
    IN CASE f.to \in {Bad, 0} -> [acc EXCEPT !.s = f.s]
         [] f.to \notin DOMAIN found -> [acc EXCEPT !.s = partial(f.s)]
         [] d.fields = <<>> -> [acc EXCEPT !.s = f.s]
         [] ~KindMatches(x.kind[type.at], d.kind) \/ Relation(type.module, type.name) \in acc.relations -> [acc EXCEPT !.s = partial(f.s)]
         [] OTHER -> [acc EXCEPT !.s = f.s, !.relations = @ \cup {Relation(type.module, type.name)},
                                 !.list = Append(@, type @@ [desc |-> f.to, len |-> d.len])]

WithName(x, found, acc, at, module, n) ==
    IF ~n.ok THEN [acc EXCEPT !.s = n.s]
    ELSE WithFields(x, found, acc, [at |-> at, module |-> module, name |-> n.name], relative_target(x, n.s, at + 4, TRUE))

WithModule(x, found, acc, at, m) ==
    IF ~m.ok THEN [acc EXCEPT !.s = m.s] ELSE WithName(x, found, acc, at, m.name, string_from_pointer(x, m.s, at + 2))

WithContext(x, found, acc, p) ==
    LET reached == [acc EXCEPT !.targets = @ \cup {p.to}]
    IN CASE p.to = Bad -> [acc EXCEPT !.s = p.s]
         [] p.to \in acc.targets -> [acc EXCEPT !.s = partial(p.s)]
         [] ~read_abs(x, p.to) \/ In(x.kind, p.to, "other") \notin {"class", "struct", "enum"} -> [reached EXCEPT !.s = partial(p.s)]
         [] OTHER -> WithModule(x, found, reached, p.to, module_for_type(x, p.s, p.to))

read_type(x, found, acc, record) ==
    LET s == [acc.s EXCEPT !.types = @ + 1]
    IN IF ~read_abs(x, record) \/ In(x.tag, record, 0) # 0 THEN [acc EXCEPT !.s = partial(s)]
       ELSE WithContext(x, found, acc, relative_target(x, s, record, FALSE))

parse_types(x, found, acc, c) ==
    IF c.ragged THEN [acc EXCEPT !.s = partial(@)] ELSE
    IF c.size > kMaxTypes - acc.s.types THEN [acc EXCEPT !.s = over_budget(@)] ELSE
    FoldLeft(LAMBDA a, i : read_type(x, found, a, c.off + i - 1), acc, [i \in 1 .. c.size |-> i])

sections_named(x, name) == SelectSeq(x.sections, LAMBDA c : c.name = name)

Presence(p) == [state |-> "PRESENCE", valid |-> FALSE, ranges |-> <<>>, partial |-> p, types |-> <<>>]

Structured(acc) ==
    IF acc.list = <<>> THEN Presence(TRUE)
    ELSE [state |-> "STRUCTURED", valid |-> TRUE, partial |-> acc.s.partial, types |-> acc.list,
          ranges |-> FlattenSeq([i \in DOMAIN acc.list |-> LET t == acc.list[i] IN <<range(t.at, 5), range(t.desc, t.len)>>])]

TypesOf(x, types, fields) ==
    LET one(acc, c) == IF section_encrypted(x, c) THEN [acc EXCEPT !.s = partial(@)] ELSE parse_types(x, fields.found, acc, c)
    IN IF ~fields.whole THEN Presence(fields.s.partial)
       ELSE Structured(FoldLeft(one, [s |-> fields.s, targets |-> {}, relations |-> {}, list |-> <<>>], types))

\* Presence of Swift sections, and the types when all of it can be followed.
analyze_macho_swift(x) ==
    LET swift == {i \in DOMAIN x.sections : x.sections[i].name # "other"}
        start == IF \E i \in swift : section_encrypted(x, x.sections[i]) THEN partial(Fresh) ELSE Fresh
        fieldmd == sections_named(x, "fieldmd")
        types == sections_named(x, "types")
    IN CASE swift = {} -> [Presence(FALSE) EXCEPT !.state = "ABSENT"]
         [] types = <<>> -> Presence(start.partial \/ Len(fieldmd) > 1)
         [] Len(fieldmd) # 1 \/ section_encrypted(x, fieldmd[1]) -> Presence(TRUE)
         [] OTHER -> TypesOf(x, types, parse_field_descriptors(x, start, fieldmd[1]))

-----------------------------------------------------------------------------
(* Inputs *)

Section(name, addr, off, size) == [name |-> name, addr |-> addr, off |-> off, size |-> size, zero |-> FALSE, ragged |-> FALSE]

SwiftSections == <<Section("types", 10, 2, 2), Section("other", 12, 4, 16), Section("fieldmd", 28, 20, 14), Section("other", 46, 34, 15)>>

\* Two types with their modules at 4, 9, 14 and 17, their field descriptors at
\* 20 and 27, five strings from 34.
Links == (2 :> 4) @@ (3 :> 9) @@ (5 :> 14) @@ (6 :> 34) @@ (8 :> 20) @@ (10 :> 17) @@ (11 :> 37) @@ (13 :> 27) @@ (16 :> 40) @@ (19 :> 46)
         @@ (26 :> 43) @@ (32 :> 37) @@ (33 :> 43)

Text(name) == [name |-> name, len |-> Len(name), good |-> TRUE]

SwiftText == 34 :> Text(<<"a">>) @@ 37 :> Text(<<"b">>) @@ 40 :> Text(<<"m">>) @@ 43 :> Text(<<"f">>) @@ 46 :> Text(<<"n">>)

Address(at) == IF at >= 34 THEN at + 12 ELSE at + 8

Follow(links) == [at \in DOMAIN links |-> Address(links[at]) - Address(at)]

SwiftBase ==
    [part |-> "swift", size |-> 49, base |-> 1, len |-> 48, sections |-> SwiftSections, crypt |-> [on |-> FALSE, off |-> 0, size |-> 0],
     rel |-> Follow(Links), tag |-> <<>>, kind |-> (4 :> "class" @@ 9 :> "enum" @@ 14 :> "module" @@ 17 :> "module"),
     head |-> (20 :> [kind |-> 1, stride |-> 3, count |-> 1] @@ 27 :> [kind |-> 2, stride |-> 3, count |-> 1]), text |-> SwiftText]

SwiftAlt ==
    [len |-> {1, 18, 36, 44, 46, 47},
     crypt |-> {[on |-> TRUE, off |-> c[1], size |-> c[2]] : c \in {<<2, 1>>, <<3, 1>>, <<4, 0>>, <<9, 1>>, <<12, 2>>, <<20, 2>>, <<34, 1>>, <<44, 1>>, <<48, 1>>, <<0, 2>>, <<10, 60>>}},
     sections |-> {[SwiftSections EXCEPT ![n] = c] : <<n, c>> \in
                       {1} \X {Section("types", 10, 2, 1), Section("types", 10, 2, 3), Section("types", 10, 2, 4), Section("types", 30, 2, 2), [SwiftSections[1] EXCEPT !.ragged = TRUE], Section("other", 10, 2, 2)}
                       \cup {3} \X {Section("fieldmd", 28, 20, 7), Section("fieldmd", 28, 20, 13), Section("fieldmd", 28, 20, 9), Section("fieldmd", 28, 20, 10), Section("fieldmd", 28, 20, 18), Section("other", 28, 20, 14), [SwiftSections[3] EXCEPT !.zero = TRUE]}
                       \cup {4} \X {[SwiftSections[4] EXCEPT !.zero = TRUE], Section("fieldmd", 46, 34, 15), Section("other", 46, 34, 7), Section("other", 12, 34, 15), Section("other", 63, 34, 15)}}
                 \cup {SwiftSections \o <<Section("types", 10, 2, 1)>>, <<Section("types", 12, 4, 1)>> \o SwiftSections, <<>>},
     rel |-> {Follow((at :> to) @@ Links) : <<at, to>> \in ({2} \X {3, 9, 14, 0}) \cup (3 .. 3) \X {4, 60} \cup {5} \X {4, 9, 19, 2} \cup {10} \X {4, 14, 9}
                                            \cup {6, 16} \X {6, 35, 37, 48} \cup {8} \X {8, 21, 27} \cup {13} \X {20, 24} \cup {20, 21, 27} \X {34, 36, 48} \cup {26, 33} \X {26, 38}}
             \cup {[Follow(Links) EXCEPT ![at] = 0] : at \in {5, 8, 13, 26, 32}} \cup {[Follow(Links) EXCEPT ![6] = -40]},
     tag |-> {(2 :> 1), (3 :> 2), (5 :> 1), (10 :> 2)},
     kind |-> {[SwiftBase.kind EXCEPT ![at] = k] : <<at, k>> \in {4, 9} \X {"struct", "module", "other"} \cup {14} \X {"other", "class"}},
     head |-> {[SwiftBase.head EXCEPT ![at][c[1]] = c[2]] : <<at, c>> \in {20, 27} \X ({"kind"} \X {0, 3, 8} \cup {"stride"} \X {2, 4} \cup {"count"} \X {0, 2, 4})},
     text |-> {[SwiftText EXCEPT ![at] = t] : <<at, t>> \in {34, 37, 40, 43} \X {Text(<<"b">>), Text(<<>>), Text(<<"a", "b">>), Text(<<"a", "b", "a">>), [Text(<<"a">>) EXCEPT !.good = FALSE]}}
              \cup {34 :> Text(<<"n", "b">>) @@ 37 :> Text(<<"b">>) @@ 40 :> Text(<<"m">>) @@ 46 :> Text(<<"m", "n">>) @@ SwiftText,
                    34 :> Text(<<"b">>) @@ 46 :> Text(<<"m">>) @@ SwiftText}]

-----------------------------------------------------------------------------
(* What the results mean *)

\* A pointer leads from one place to another: some sections give both places
\* addresses at the pointer's distance, and none of it is encrypted.
Leads(x, at, to) ==
    /\ ~encrypted(x, at, 1)
    /\ \E c, d \in {x.sections[i] : i \in DOMAIN x.sections} :
          /\ ~c.zero /\ ~d.zero /\ at - c.off \in 0 .. c.size - 1 /\ to - d.off \in 0 .. d.size - 1
          /\ d.addr + (to - d.off) = c.addr + (at - c.off) + In(x.rel, at, 0)

Named(x, at, name) == \E to \in DOMAIN x.text \cup {0} : Leads(x, at, to) /\ ~encrypted(x, to, Len(name) + 1)
                                                         /\ In(x.text, to, NoText).name = name

\* Where descriptors begin when the section is walked from its start.
DescriptorStarts(x) ==
    LET next(at) == IF at \in DOMAIN x.head THEN {at + 4 + x.head[at].count * x.head[at].stride} ELSE {}
    IN Closure({x.sections[i].off : i \in {i \in DOMAIN x.sections : x.sections[i].name = "fieldmd"}}, next, kMaxFieldDescriptors)

TypeRecords(x) == UNION {x.sections[i].off .. x.sections[i].off + x.sections[i].size - 1 : i \in {i \in DOMAIN x.sections : x.sections[i].name = "types"}}

\* Every type that is published is what a direct type record points to; its
\* parents lead to the module it names, its field pointer to the start of a
\* descriptor of its kind, each of whose fields has a name; no descriptor and
\* no pair of names occurs twice.  When nothing is said to be missing, every
\* record with fields has its type.
SwiftExact(x, r) ==
    r.valid =>
        LET up(at) == {to \in DOMAIN x.kind : Leads(x, at + 1, to) /\ x.kind[at] # "module"}
            exact(t) ==
                /\ \E record \in TypeRecords(x) : Leads(x, record, t.at) /\ In(x.tag, record, 0) = 0
                /\ \E at \in Closure({t.at}, up, kMaxContextDepth) : x.kind[at] = "module" /\ Named(x, at + 2, t.module)
                /\ Named(x, t.at + 2, t.name) /\ Leads(x, t.at + 4, t.desc) /\ t.desc \in DescriptorStarts(x)
                /\ KindMatches(x.kind[t.at], x.head[t.desc].kind) /\ x.head[t.desc].count > 0 /\ t.len = 4 + x.head[t.desc].count * x.head[t.desc].stride
                /\ \A i \in 1 .. x.head[t.desc].count : \E name \in {n.name : n \in {x.text[at] : at \in DOMAIN x.text}} : name # <<>> /\ Named(x, t.desc + 4 + (i - 1) * x.head[t.desc].stride + 2, name)
            fielded(record) == \E at \in DOMAIN x.kind, d \in DOMAIN x.head : Leads(x, record, at) /\ Leads(x, at + 4, d) /\ In(x.rel, at + 4, 0) # 0 /\ x.head[d].count > 0
        IN /\ \A i \in DOMAIN r.types : exact(r.types[i])
           /\ \A i, j \in DOMAIN r.types : i # j => r.types[i].at # r.types[j].at /\ <<r.types[i].module, r.types[i].name>> # <<r.types[j].module, r.types[j].name>>
           /\ ~r.partial => Len(r.types) = Cardinality({record \in TypeRecords(x) : fielded(record)})
=============================================================================
