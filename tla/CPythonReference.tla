-------------------------- MODULE CPythonReference --------------------------
(***************************************************************************)
(* A CPython runtime image next to the official one of its version         *)
(* (reference/cpython.cpp, cpython_opcode.cpp, cpython_probe.cpp): whether *)
(* the build is comparable at all, which functions, which parts of .text   *)
(* and which slots of the opcode table differ, what the target's own       *)
(* compiler emits, which frozen modules are stock, and how far the stock   *)
(* model may be trusted after all that (cpython_model_trust.cpp).          *)
(*                                                                         *)
(* A hash stands for what it is taken of.  One release has a reference: a  *)
(* few functions of two blocks, a .text of five bytes, six opcodes.  How   *)
(* the table is found in the evaluator is left out, and so are the         *)
(* branches into new code, which only serve as evidence.                   *)
(***************************************************************************)
EXTENDS Words, ModelTrust

CONSTANTS kCPythonTextBlockSize, kShallowBlocks, kMinTable, kMinHandlers, kStrayEntries, kMaxOpcodes, kMaxFrozenCandidates

Release == "3.12.1"

References == {<<Release, "amd64">>}

\* The blocks of the reference functions; the first three are the shallow ones.
shallow_names == {"PyObject_Call", "PyImport_ImportModule", "Py_Initialize"}

RefBlocks == [f \in shallow_names \cup {"PyErr_Occurred", "PyLong_FromLong", "PyUnicode_FromString"} |->
                IF f = "PyErr_Occurred" THEN <<"a", "a">> ELSE <<"a", "b">>]

RefExports == DOMAIN RefBlocks \cup {"_PyEval_EvalFrameDefault", "PyList_New"}

RefText == <<1, 2, 3, 4, 5>>

RefSections == [s \in {".text", ".rdata"} |-> IF s = ".text" THEN [vsize |-> 5, raw |-> 6] ELSE [vsize |-> 4, raw |-> 4]]

\* Opcodes four and five share a handler, two and six a fingerprint, and the
\* handler of the third is not fingerprinted (0).
RefTable == <<[rva |-> "hA", signature |-> 11], [rva |-> "hB", signature |-> 12], [rva |-> "hC", signature |-> 0],
              [rva |-> "hD", signature |-> 14], [rva |-> "hD", signature |-> 14], [rva |-> "hE", signature |-> 12]>>

RefProbe == [p \in {"module", "module.f"} |-> IF p = "module" THEN <<<<1, 0>>, <<2, 5>>, <<1, 7>>>> ELSE <<<<3, 0>>>>]

RefFrozen == [m \in {"zipimport", "os", "site"} |-> [raw |-> <<m, "code", "layout">>, semantic |-> <<m, "code">>]]

Percent(n, d) == (100 * n) \div d

\* Twice the median, so that it stays a number.
Median2(scores) ==
    LET s == SortSeq(scores, LAMBDA p, q : p < q)   n == Len(s)
    IN IF n % 2 = 1 THEN 2 * s[(n + 1) \div 2] ELSE s[n \div 2] + s[(n \div 2) + 1]

---------------------------------------------------------------------------
(* Functions.  x.exports are the exported names, x.blocks[f] the blocks     *)
(* that decode from the start of f.                                         *)

Probed(x) == {f \in DOMAIN RefBlocks \cap x.exports : x.blocks[f] # <<>>}

Occurrences(s, b) == Cardinality({i \in DOMAIN s : s[i] = b})

\* Of a few blocks of the target, those the reference has at all.
ShallowCoverage(blocks, ref) ==
    LET few == SubSeq(blocks, 1, kShallowBlocks)
    IN Percent(Cardinality({i \in DOMAIN few : few[i] \in ToSet(ref)}), Len(few))

\* Of the blocks of the reference, those the target has as often.
compare_semantic_cfg(blocks, ref) ==
    Percent(FoldSet(LAMBDA b, n : n + (LET p == Occurrences(blocks, b)   q == Occurrences(ref, b) IN IF p < q THEN p ELSE q), 0, ToSet(ref)), Len(ref))

DeepCoverage(x, f) == IF x.blocks[f] = RefBlocks[f] THEN 100 ELSE compare_semantic_cfg(x.blocks[f], RefBlocks[f])

Scores(set, score(_)) == FoldSet(LAMBDA f, s : Append(s, score(f)), <<>>, set)

Semantics(status, states) == [status |-> status, functions |-> states]

semantic_compare(x, version) ==
    LET shallow == Scores(Probed(x) \cap shallow_names, LAMBDA f : ShallowCoverage(x.blocks[f], RefBlocks[f]))
        deep == Scores(Probed(x), LAMBDA f : DeepCoverage(x, f))
        comparable == Len(deep) >= 5 /\ Median2(deep) >= 150
        State(f) == IF x.blocks[f] = RefBlocks[f] THEN "REFERENCE_MATCH" ELSE IF comparable THEN "MODIFIED_CANDIDATE" ELSE "INCOMPARABLE_PROBE"
    IN IF <<version, x.machine>> \notin References THEN Semantics("NO_SEMANTIC_REFERENCE", <<>>)
       ELSE IF Len(shallow) >= 3 /\ Median2(shallow) < 100
       THEN Semantics("BUILD_INCOMPARABLE", [f \in Probed(x) \cap shallow_names |-> "INCOMPARABLE_SHALLOW_PROBE"])
       ELSE IF deep = <<>> THEN Semantics("NO_USABLE_PROBES", <<>>)
       ELSE Semantics(IF comparable THEN "COMPARABLE" ELSE "BUILD_INCOMPARABLE", [f \in Probed(x) |-> State(f)])

---------------------------------------------------------------------------
(* .text, chunk by chunk at the same place.  x.text is what the file has of *)
(* it, which may be less than the section says.                             *)

Region(kind, section, at, len) == [kind |-> kind, section |-> section, at |-> at, len |-> len]

\* Two regions of one kind that touch become one.
push_region(rs, r) ==
    IF r.len = 0 THEN rs
    ELSE IF rs # <<>> /\ Last(rs).kind = r.kind /\ Last(rs).section = r.section /\ Last(rs).at + Last(rs).len = r.at
    THEN Append(Front(rs), [Last(rs) EXCEPT !.len = @ + r.len])
    ELSE Append(rs, r)

Least(a, b) == IF a < b THEN a ELSE b

\* The bytes of a chunk, and the region it gives.
ChunkRegion(x, meaningful, rel) ==
    LET full == Least(kCPythonTextBlockSize, Len(RefText) - rel)
        len == Least(full, meaningful - rel)
    IN IF rel >= meaningful THEN Region("MISSING_OFFICIAL_TEXT", ".text", rel, full)
       ELSE IF rel + len > Len(x.text) THEN Region("MISSING_OFFICIAL_TEXT", ".text", rel, len)
       ELSE IF len = full /\ SubSeq(x.text, rel + 1, rel + len) = SubSeq(RefText, rel + 1, rel + full) THEN Region("MATCHED", ".text", rel, 0)
       ELSE Region("PATCHED_TEXT_CHUNK", ".text", rel, len)

Chunks == (Len(RefText) + kCPythonTextBlockSize - 1) \div kCPythonTextBlockSize

\* A section that may be executed and that the reference does not have.
NewSections(x) == SelectSeq(x.sections, LAMBDA s : s.exec /\ s.name # ".text" /\ s.name \notin DOMAIN RefSections)

TextRegions(x, s) ==
    LET meaningful == Least(s.vsize, s.raw)
        chunks == FoldLeft(LAMBDA rs, i : push_region(rs, ChunkRegion(x, meaningful, (i - 1) * kCPythonTextBlockSize)), <<>>, [i \in 1 .. Chunks |-> i])
        tail == IF meaningful > Len(RefText)
                THEN push_region(chunks, Region("NEW_EXECUTABLE_TAIL", ".text", Len(RefText), meaningful - Len(RefText))) ELSE chunks
    IN FoldLeft(LAMBDA rs, n : Append(rs, Region("NEW_EXECUTABLE_SECTION", n.name, 0, IF n.vsize > n.raw THEN n.vsize ELSE n.raw)), tail, NewSections(x))

Text(status, regions) == [status |-> status, regions |-> regions]

compare_text_regions(x, semantic) ==
    LET i == FirstWhere(Len(x.sections), LAMBDA k : x.sections[k].name = ".text")
        Compared(regions) == Text(IF regions = <<>> THEN "MATCH" ELSE "DIFF", regions)
    IN IF semantic = "REFERENCE_MATCH" THEN Text("MATCH", <<>>)
       ELSE IF semantic # "COMPARABLE" THEN Text(IF semantic = "BUILD_INCOMPARABLE" THEN "SKIPPED_INCOMPARABLE" ELSE "NO_REFERENCE", <<>>)
       ELSE IF i = 0 THEN Text("DIFF", <<Region("MISSING_TEXT", ".text", 0, Len(RefText))>>)
       ELSE Compared(TextRegions(x, x.sections[i]))

---------------------------------------------------------------------------
(* The opcode table.  x.tables are the tables the evaluator may load, with  *)
(* their first opcode and their handlers; x.signature has the handlers that *)
(* are code and what they are fingerprinted as (0 if that fails).           *)

Handlers(t) == {t.handlers[i] : i \in DOMAIN t.handlers}

validate_table(x, t) ==
    LET n == Len(t.handlers)
    IN /\ n >= kMinTable /\ t.first + n <= kMaxOpcodes
       /\ Cardinality({i \in DOMAIN t.handlers : t.handlers[i] \in DOMAIN x.signature}) + kStrayEntries >= n
       /\ Cardinality(Handlers(t) \cap DOMAIN x.signature) >= kMinHandlers

NoTable == [first |-> 0, handlers |-> <<>>]

\* The longest table, then the one with most handlers, then the first.
BestTable(x) ==
    FoldLeft(LAMBDA best, t : IF /\ validate_table(x, t)
                                 /\ \/ Len(t.handlers) > Len(best.handlers)
                                    \/ /\ Len(t.handlers) = Len(best.handlers)
                                       /\ Cardinality(Handlers(t) \cap DOMAIN x.signature) > Cardinality(Handlers(best) \cap DOMAIN x.signature)
                              THEN t ELSE best, NoTable, x.tables)

recover_cpython_dispatch(x, fingerprint) ==
    LET t == IF x.machine = "amd64" /\ "_PyEval_EvalFrameDefault" \in x.exports THEN BestTable(x) ELSE NoTable
    IN [first |-> t.first,
        entries |-> [i \in DOMAIN t.handlers |->
                       [opcode |-> t.first + i - 1, handler |-> t.handlers[i],
                        hash |-> IF fingerprint /\ t.handlers[i] \in DOMAIN x.signature THEN x.signature[t.handlers[i]] ELSE 0]]]

RefOpcodes == DOMAIN RefTable

Fits(o, e) == RefTable[o].signature \in {0, e.hash}

\* What one slot says: its own handler, the handler of others, or code like
\* that of one handler of the reference.
Mapping(e) ==
    LET at == {o \in RefOpcodes : RefTable[o].rva = e.handler}
        like == {o \in RefOpcodes : e.hash # 0 /\ RefTable[o].signature = e.hash}
        M(state, refs) == [opcode |-> e.opcode, state |-> state, refs |-> refs]
    IN IF e.opcode \in at THEN M(IF Fits(e.opcode, e) THEN "SLOT_MATCH" ELSE "HANDLER_MODIFIED_CANDIDATE", at)
       ELSE IF at # {} THEN M(IF \E o \in at : Fits(o, e) THEN "PERMUTED" ELSE "PERMUTED_HANDLER_MODIFIED", at)
       ELSE IF like = {} THEN M("UNMAPPED", {})
       ELSE IF Cardinality({RefTable[o].rva : o \in like}) # 1 THEN M("AMBIGUOUS_SEMANTIC", like)
       ELSE M(IF e.opcode \in like THEN "SEMANTIC_SLOT_MATCH" ELSE "SEMANTIC_PERMUTED", like)

In(maps, states) == Cardinality({i \in DOMAIN maps : maps[i].state \in states})

DispatchStatus(maps, same_shape) ==
    LET slots == In(maps, {"SLOT_MATCH", "SEMANTIC_SLOT_MATCH"})
        modified == In(maps, {"HANDLER_MODIFIED_CANDIDATE", "PERMUTED_HANDLER_MODIFIED"})
        permuted == In(maps, {"PERMUTED", "PERMUTED_HANDLER_MODIFIED", "SEMANTIC_PERMUTED"})
    IN IF same_shape /\ slots = Len(RefTable) /\ modified = 0 THEN "REFERENCE_MATCH"
       ELSE IF modified # 0 THEN IF permuted # 0 THEN "OPCODE_AND_HANDLER_MODIFIED" ELSE "HANDLER_MODIFIED"
       ELSE IF permuted # 0 /\ In(maps, {"AMBIGUOUS_SEMANTIC", "UNMAPPED"}) = 0 /\ same_shape THEN "OPCODE_PERMUTATION"
       ELSE "PARTIAL_OPCODE_MAPPING"

Dispatch(table, status, maps) == [first |-> table.first, entries |-> table.entries, status |-> status, mappings |-> maps]

SameTable(table) == table.first = 1 /\ Len(table.entries) = Len(RefTable)

Mapped(table, maps) == Dispatch(table, DispatchStatus(maps, SameTable(table)), maps)

ComparedTable(table, known, comparable, exact) ==
    IF table.entries = <<>> THEN Dispatch(table, "", <<>>)
    ELSE IF ~known THEN Dispatch(table, "TABLE_RECOVERED_NO_REFERENCE", <<>>)
    ELSE IF exact /\ SameTable(table) THEN Dispatch(table, "REFERENCE_MATCH", <<>>)
    ELSE IF ~comparable THEN Dispatch(table, "TABLE_RECOVERED_BUILD_INCOMPARABLE", <<>>)
    ELSE Mapped(table, [i \in DOMAIN table.entries |-> Mapping(table.entries[i])])

analyze_cpython_dispatch(x, version, comparable, exact) ==
    ComparedTable(recover_cpython_dispatch(x, comparable /\ ~exact), <<version, x.machine>> \in References, comparable, exact)

---------------------------------------------------------------------------
(* What the compiler of the target makes of known sources, code unit by     *)
(* code unit: <<opcode, argument>>.                                         *)

Probe(state, pairs) == [state |-> state, mappings |-> pairs]

\* The opcodes that stand in the same place, target first.
Pairs(codes) == UNION {{<<codes[i].code[j][1], RefProbe[codes[i].path][j][1]>> : j \in DOMAIN codes[i].code} : i \in DOMAIN codes}

\* Every code object once, as long as the official one, with its arguments.
SameShape(codes) ==
    /\ \A i, j \in DOMAIN codes : codes[i].path = codes[j].path => i = j
    /\ Len(codes) = Cardinality(DOMAIN RefProbe)
    /\ \A i \in DOMAIN codes : codes[i].path \in DOMAIN RefProbe /\ Len(codes[i].code) = Len(RefProbe[codes[i].path])
    /\ \A i \in DOMAIN codes : \A j \in DOMAIN codes[i].code : codes[i].code[j][2] = RefProbe[codes[i].path][j][2]

compare_cpython_compiler_probe(version, codes) ==
    LET pairs == Pairs(codes)
    IN IF version # Release THEN Probe("NO_REFERENCE", {})
       ELSE IF ~SameShape(codes) \/ (\E p, q \in pairs : p # q /\ (p[1] = q[1] \/ p[2] = q[2])) THEN Probe("COMPILER_DIFFERENT", {})
       ELSE Probe(IF \E p \in pairs : p[1] # p[2] THEN "OPCODE_PERMUTATION_RECOVERED" ELSE "REFERENCE_MATCH", pairs)

run_cpython_compiler_probe_for_input(x, version) ==
    IF x.probe.run = "done" THEN compare_cpython_compiler_probe(version, x.probe.codes)
    ELSE Probe(IF x.probe.run = "failed" THEN "FAILED" ELSE "", {})

---------------------------------------------------------------------------
(* The image as a whole.  x.sections have names, sizes and whether they may *)
(* be executed; x.elsewhere says that a byte differs where nothing else     *)
(* looks.                                                                   *)

Official == [machine |-> "amd64", py_version |-> Release, embedded |-> "", exports |-> RefExports, blocks |-> RefBlocks,
             sections |-> <<[name |-> ".text", vsize |-> 5, raw |-> 6, exec |-> TRUE], [name |-> ".rdata", vsize |-> 4, raw |-> 4, exec |-> FALSE]>>,
             text |-> Append(RefText, 0),
             tables |-> <<[first |-> 1, handlers |-> [o \in DOMAIN RefTable |-> RefTable[o].rva]]>>,
             signature |-> [h \in {"hA", "hB", "hC", "hD", "hE", "hX", "hY"} |->
                              CASE h \in {"hA", "hX"} -> 11 [] h \in {"hB", "hE"} -> 12 [] h = "hC" -> 13 [] h = "hD" -> 14 [] OTHER -> 19],
             frozen |-> [i \in 1 .. 2 |-> LET m == <<"zipimport", "os">>[i] IN
                           [name |-> m, state |-> "RAW_MARSHAL", raw |-> RefFrozen[m].raw, semantic |-> RefFrozen[m].semantic, at |-> 10 * i, size |-> 8]]]

sha256_matches(x) == ~x.elsewhere /\ \A f \in DOMAIN Official : x[f] = Official[f]

\* The exported number where there is one, else the first text like a version.
Version(x) == IF x.py_version \in {"none", "unreadable"} THEN x.embedded ELSE x.py_version

SizesOf(x, name) ==
    LET i == FirstWhere(Len(x.sections), LAMBDA k : x.sections[k].name = name)
    IN IF i = 0 THEN [vsize |-> 0, raw |-> 0] ELSE [vsize |-> x.sections[i].vsize, raw |-> x.sections[i].raw]

SectionDiffs(x) ==
    {n \in {x.sections[i].name : i \in DOMAIN x.sections} \cup DOMAIN RefSections :
        SizesOf(x, n) # IF n \in DOMAIN RefSections THEN RefSections[n] ELSE [vsize |-> 0, raw |-> 0]}

Info(x, version, status, semantic, text, dispatch) ==
    [valid |-> TRUE, version |-> version, status |-> status, semantic |-> semantic.status, functions |-> semantic.functions,
     text |-> text.status, regions |-> text.regions, dispatch |-> dispatch,
     sections |-> IF status = "DIFFERS_FROM_OFFICIAL_REFERENCE" THEN SectionDiffs(x) ELSE {},
     exports |-> IF status = "DIFFERS_FROM_OFFICIAL_REFERENCE" THEN <<x.exports \ RefExports, RefExports \ x.exports>> ELSE <<{}, {}>>,
     probe |-> run_cpython_compiler_probe_for_input(x, version)]

NoInfo == [valid |-> FALSE, version |-> "", status |-> "", semantic |-> "", functions |-> <<>>, text |-> "", regions |-> <<>>,
           dispatch |-> Dispatch([first |-> 0, entries |-> <<>>], "", <<>>), sections |-> {}, exports |-> <<{}, {}>>, probe |-> Probe("", {})]

\* An image with the bytes of the reference is compared no further.
ComparedInfo(x, version, semantic) ==
    Info(x, version, "DIFFERS_FROM_OFFICIAL_REFERENCE", semantic, compare_text_regions(x, semantic.status),
         analyze_cpython_dispatch(x, version, semantic.status \in {"COMPARABLE", "REFERENCE_MATCH"}, FALSE))

detect_cpython(x) ==
    LET version == Version(x)
    IN IF ~x.pe_valid \/ x.api_hits < 5 \/ x.py_names < 100 THEN NoInfo
       ELSE IF <<version, x.machine>> \notin References
       THEN Info(x, version, "NO_EXACT_REFERENCE", Semantics("", <<>>), Text("", <<>>), analyze_cpython_dispatch(x, version, FALSE, FALSE))
       ELSE IF sha256_matches(x)
       THEN Info(x, version, "REFERENCE_MATCH", Semantics("REFERENCE_MATCH", <<>>), Text("MATCH", <<>>), analyze_cpython_dispatch(x, version, TRUE, TRUE))
       ELSE ComparedInfo(x, version, semantic_compare(x, version))

Functional(pairs) == [t \in {p[1] : p \in pairs} |-> (CHOOSE p \in pairs : p[1] = t)[2]]

\* What one mapping says of its opcode: the official one, if there is just one.
OfficialOpcode(m) ==
    IF m.state \in {"SLOT_MATCH", "SEMANTIC_SLOT_MATCH"} THEN {<<m.opcode, m.opcode>>}
    ELSE IF m.state \in {"PERMUTED", "SEMANTIC_PERMUTED"} /\ Cardinality(m.refs) = 1 THEN {m.opcode} \X m.refs
    ELSE {}

DispatchPairs(d) ==
    IF d.status = "REFERENCE_MATCH" THEN {<<d.entries[i].opcode, d.entries[i].opcode>> : i \in DOMAIN d.entries}
    ELSE IF d.status = "OPCODE_PERMUTATION" THEN UNION {OfficialOpcode(d.mappings[i]) : i \in DOMAIN d.mappings}
    ELSE {}

\* From the opcodes of the target to the official ones; the compiler is only
\* asked when the table says nothing.
cpython_validated_opcode_map(c) ==
    LET pairs == DispatchPairs(c.dispatch)
    IN IF pairs # {} THEN [source |-> "dispatch", map |-> Functional(pairs)]
       ELSE IF c.probe.state \in {"REFERENCE_MATCH", "OPCODE_PERMUTATION_RECOVERED"} /\ c.probe.mappings # {}
       THEN [source |-> "compiler_probe", map |-> Functional(c.probe.mappings)]
       ELSE [source |-> "", map |-> <<>>]

\* What the finding holds against the image.
cpython_finding(c) ==
    [functions |-> {f \in DOMAIN c.functions : c.functions[f] = "MODIFIED_CANDIDATE"},
     regions |-> {c.regions[i] : i \in {j \in DOMAIN c.regions : c.regions[j].kind \in {"NEW_EXECUTABLE_TAIL", "NEW_EXECUTABLE_SECTION"}}},
     opcodes |-> {c.dispatch.mappings[i].opcode : i \in
                    {j \in DOMAIN c.dispatch.mappings : c.dispatch.status # "REFERENCE_MATCH" /\ c.dispatch.mappings[j].state # "SLOT_MATCH"}}]

---------------------------------------------------------------------------
(* Frozen modules.  The reference of a version is only asked about an image *)
(* that is official or comparable.                                          *)

FrozenGate(c) ==
    IF ~c.valid THEN "UNAVAILABLE_NO_CPYTHON"
    ELSE IF c.status \in {"", "NO_EXACT_REFERENCE"} THEN "UNAVAILABLE_NO_EXACT_REFERENCE"
    ELSE IF c.status = "REFERENCE_MATCH" THEN "REFERENCE_READY_EXACT"
    ELSE IF c.semantic = "COMPARABLE" THEN "REFERENCE_READY_SEMANTIC_COMPARABLE"
    ELSE IF c.semantic = "BUILD_INCOMPARABLE" THEN "UNAVAILABLE_BUILD_INCOMPARABLE"
    ELSE IF c.semantic = "NO_USABLE_PROBES" THEN "UNAVAILABLE_NO_USABLE_PROBES"
    ELSE "UNAVAILABLE_REFERENCE_NOT_COMPARABLE"

Allowed(gate) == gate \in {"REFERENCE_READY_EXACT", "REFERENCE_READY_SEMANTIC_COMPARABLE"}

Compared(m) ==
    LET Says(reference, mode) == m @@ [reference |-> reference, mode |-> mode]
    IN IF m.state = "DEEP_FROZEN_STATIC_CODE_OBJECT" THEN Says("UNAVAILABLE_DEEP_FROZEN_OBJECT_GRAPH", "")
       ELSE IF m.state # "RAW_MARSHAL" THEN Says("UNAVAILABLE_MODULE_NOT_RECOVERED", "")
       ELSE IF m.name \notin DOMAIN RefFrozen THEN Says("NO_REFERENCE", "")
       ELSE IF m.raw = RefFrozen[m.name].raw THEN Says("REFERENCE_MATCH", "EXACT")
       ELSE IF m.semantic = RefFrozen[m.name].semantic THEN Says("REFERENCE_MATCH", "SEMANTIC")
       ELSE Says("REFERENCE_DIFF", "DIFFERENT")

\* What the parser of the tables leaves when nothing is compared.
Uncompared(m) ==
    m @@ [mode |-> "",
          reference |-> CASE m.state = "DEEP_FROZEN_STATIC_CODE_OBJECT" -> "UNAVAILABLE_DEEP_FROZEN_OBJECT_GRAPH"
                          [] m.state = "UNAVAILABLE" -> "UNAVAILABLE_MODULE_NOT_RECOVERED"
                          [] OTHER -> "NOT_CHECKED"]

\* Without a runtime of a known version the tables are not parsed.  A
\* malformed module is one whose marshal cannot be read.
apply_cpython_frozen_reference_if_comparable(x, c) ==
    IF ~c.valid \/ c.version = "" \/ x.machine # "amd64" THEN <<>>
    ELSE [i \in DOMAIN x.frozen |-> IF Allowed(FrozenGate(c)) THEN Compared(x.frozen[i]) ELSE Uncompared(x.frozen[i])]

build_cpython_frozen_priority(x, frozen) ==
    LET all == SortSeq(SelectSeq(frozen, LAMBDA m : m.state = "RAW_MARSHAL" /\ m.mode = "DIFFERENT" /\ m.size # 0 /\ m.at # 0),
                       LAMBDA m, n : m.at < n.at)
    IN [mismatches |-> Len(all), candidates |-> SubSeq(all, 1, Least(kMaxFrozenCandidates, Len(all))),
        preferred |-> IF all # <<>> THEN "FROZEN_REFERENCE_DIFF" ELSE IF x.user_payload THEN "PYINSTALLER_USER_PAYLOAD" ELSE "NONE"]

---------------------------------------------------------------------------
(* Six planes of evidence, each about a scope of its own.                   *)

PlaneFact(scope, level, reference, semantic, complete) ==
    [scope |-> scope, model |-> "stock-cpython", level |-> level, reference |-> reference, semantic |-> semantic,
     relation |-> "NONE", complete |-> complete]

Unavailable(scope) == {PlaneFact(scope, 0, "REFERENCE_UNAVAILABLE", "UNRESOLVED", FALSE)}

NotComparable(scope, level) == {PlaneFact(scope, level, "NOT_APPLICABLE", "UNRESOLVED", FALSE)}

Stock(scope, level) == {PlaneFact(scope, level, "EXACT_MATCH", "STOCK_CONFIRMED", TRUE)}

Compatible(scope) == {PlaneFact(scope, ExactKnownGoodReference, "SEMANTIC_MATCH", "STOCK_COMPATIBLE_PARTIAL", FALSE)}

Modified(scope, level) == {PlaneFact(scope, level, "EXACT_DIFFERENCE", "MODIFIED_UNRESOLVED", FALSE)}

Recovered(scope, level) == {PlaneFact(scope, level, "EXACT_DIFFERENCE", "EXACT_DELTA_RECOVERED", TRUE)}

\* A byte that differs proves no change of behaviour.
ImagePlane(c) ==
    LET scope == "cpython.runtime_image"
    IN IF c.status = "REFERENCE_MATCH" THEN Stock(scope, ExactKnownGoodReference)
       ELSE IF c.status = "NO_EXACT_REFERENCE" THEN Unavailable(scope)
       ELSE {PlaneFact(scope, ExactKnownGoodReference, "EXACT_DIFFERENCE", "UNRESOLVED", FALSE)}

FunctionPlane(c) ==
    LET scope == "cpython.native_function_semantics"
    IN IF c.semantic = "" THEN {}
       ELSE IF c.semantic = "REFERENCE_MATCH" THEN Stock(scope, ExactKnownGoodReference)
       ELSE IF c.semantic = "NO_SEMANTIC_REFERENCE" THEN Unavailable(scope)
       ELSE IF c.semantic # "COMPARABLE" THEN NotComparable(scope, ExactKnownGoodReference)
       ELSE IF \E f \in DOMAIN c.functions : c.functions[f] = "MODIFIED_CANDIDATE" THEN Modified(scope, ExactKnownGoodReference)
       ELSE Compatible(scope)

TextPlane(c) ==
    LET scope == "cpython.native_text"
    IN IF c.text = "" THEN {}
       ELSE IF c.text = "MATCH" THEN Stock(scope, ExactKnownGoodReference)
       ELSE IF c.text = "DIFF" THEN Modified(scope, ExactKnownGoodReference)
       ELSE IF c.text = "NO_REFERENCE" THEN Unavailable(scope)
       ELSE NotComparable(scope, ExactKnownGoodReference)

\* A permuted table is only recovered if there is a map at all.
DispatchPlane(c) ==
    LET scope == "cpython.opcode_dispatch_semantics"
        s == c.dispatch.status
    IN IF s = "" THEN {}
       ELSE IF s = "REFERENCE_MATCH" THEN Stock(scope, ExactKnownGoodReference)
       ELSE IF s = "OPCODE_PERMUTATION" /\ cpython_validated_opcode_map(c).source # "" THEN Recovered(scope, ExactKnownGoodReference)
       ELSE IF s \in {"OPCODE_PERMUTATION", "HANDLER_MODIFIED", "OPCODE_AND_HANDLER_MODIFIED", "PARTIAL_OPCODE_MAPPING"}
       THEN Modified(scope, ExactKnownGoodReference)
       ELSE IF s = "TABLE_RECOVERED_NO_REFERENCE" THEN Unavailable(scope)
       ELSE NotComparable(scope, ExactKnownGoodReference)

\* An oracle for chosen inputs is never evidence about the runtime itself.
ProbePlane(c) ==
    LET scope == "cpython.compiler_probe_output"
        s == c.probe.state
    IN IF s = "" THEN {}
       ELSE IF s = "REFERENCE_MATCH" THEN Stock(scope, ChosenInputOracle)
       ELSE IF s = "OPCODE_PERMUTATION_RECOVERED" THEN Recovered("cpython.compiler_probe_observed_opcode_semantics", ChosenInputOracle)
       ELSE IF s = "COMPILER_DIFFERENT" THEN Modified(scope, ChosenInputOracle)
       ELSE IF s = "NO_REFERENCE" THEN Unavailable(scope)
       ELSE NotComparable(scope, ChosenInputOracle)

FrozenPlane(m) ==
    IF m.reference = "" THEN {}
    ELSE IF m.reference = "REFERENCE_MATCH"
    THEN IF m.mode = "EXACT" THEN Stock(m.name, ExactKnownGoodReference) ELSE Compatible(m.name)
    ELSE IF m.reference = "REFERENCE_DIFF" THEN Modified(m.name, ExactKnownGoodReference)
    ELSE IF m.reference = "NO_REFERENCE" THEN Unavailable(m.name)
    ELSE NotComparable(m.name, ExactKnownGoodReference)

build_cpython_model_trust(c, frozen) ==
    build_model_trust_report(
        IF ~c.valid THEN {}
        ELSE ImagePlane(c) \cup FunctionPlane(c) \cup TextPlane(c) \cup DispatchPlane(c) \cup ProbePlane(c)
             \cup UNION {FrozenPlane(frozen[i]) : i \in DOMAIN frozen})

CPythonFinding(x, c, frozen) ==
    [state |-> IF c.valid THEN "CONFIRMED" ELSE "FAILED", valid |-> c.valid, ranges |-> <<>>, info |-> c,
     finding |-> cpython_finding(c), opcodes |-> cpython_validated_opcode_map(c), frozen |-> frozen,
     priority |-> build_cpython_frozen_priority(x, frozen), trust |-> build_cpython_model_trust(c, frozen)]

WithInfo(x, c) == CPythonFinding(x, c, apply_cpython_frozen_reference_if_comparable(x, c))

analyze_cpython_static(x) == WithInfo(x, detect_cpython(x))

---------------------------------------------------------------------------
(* Inputs: the official image with a byte changed elsewhere, and images     *)
(* that differ in functions, in .text, in the table, or in two other ways.  *)

CpBase == Official @@ [part |-> "cpython", pe_valid |-> TRUE, api_hits |-> 9, py_names |-> 100, elsewhere |-> TRUE,
                       user_payload |-> FALSE, probe |-> [run |-> "no", codes |-> <<>>]]

Code(path, units) == [path |-> path, code |-> units]

Done(first, second) == [run |-> "done", codes |-> <<Code("module", first), Code("module.f", second)>>]

Frozen(change) == [i \in DOMAIN Official.frozen |-> IF i = 2 THEN change @@ Official.frozen[i] ELSE Official.frozen[i]]

CpAlt ==
    [pe_valid |-> {FALSE}, api_hits |-> {5, 4}, py_names |-> {99}, elsewhere |-> {FALSE}, user_payload |-> {TRUE}, machine |-> {"x86"},
     py_version |-> {"none", "unreadable", "3.12.2"}, embedded |-> {Release, "3.12.2"},
     exports |-> {RefExports \ {"PyErr_Occurred"}, RefExports \ {"PyErr_Occurred", "PyLong_FromLong"}, RefExports \ shallow_names,
                  RefExports \ DOMAIN RefBlocks, RefExports \ {"_PyEval_EvalFrameDefault"}, RefExports \cup {"PyExtra_Hook"}},
     blocks |-> {[RefBlocks EXCEPT !["PyErr_Occurred"] = <<"a">>], [RefBlocks EXCEPT !["PyErr_Occurred"] = <<"a", "a", "c">>],
                 [f \in DOMAIN RefBlocks |-> <<"c", "d">>]},
     text |-> {<<1, 2, 9, 4, 5, 0>>, <<1, 2, 3>>},
     sections |-> {<<>>, [Official.sections EXCEPT ![2].raw = 8]},
     tables |-> {<<>>, Append(Official.tables, [first |-> 1, handlers |-> [i \in 1 .. 7 |-> "hA"]]),
                 <<[first |-> 0, handlers |-> <<"hA", "hA", "hB", "hC", "hD", "hD", "hE">>], [first |-> 1, handlers |-> Official.tables[1].handlers]>>,
                 <<[first |-> 1, handlers |-> <<"hA", "hB", "hC">>]>>},
     signature |-> {[Official.signature EXCEPT !["hA"] = 19], [Official.signature EXCEPT !["hC"] = 0]},
     frozen |-> {<<>>, Frozen([raw |-> <<"os", "code", "other">>]), Frozen([raw |-> <<"os", "new">>, semantic |-> <<"os", "new">>]),
                 Frozen([raw |-> <<"os", "new">>, semantic |-> <<"os", "new">>, at |-> 5]), Frozen([state |-> "DEEP_FROZEN_STATIC_CODE_OBJECT"]),
                 Frozen([state |-> "UNAVAILABLE"]), Frozen([state |-> "MALFORMED"]), Frozen([name |-> "custom"])},
     probe |-> {Done(RefProbe["module"], RefProbe["module.f"]), Done(<<<<2, 0>>, <<1, 5>>, <<2, 7>>>>, <<<<3, 0>>>>),
                Done(<<<<2, 0>>, <<1, 5>>, <<1, 7>>>>, <<<<3, 0>>>>), Done(<<<<1, 0>>, <<3, 5>>, <<1, 7>>>>, <<<<3, 0>>>>),
                Done(RefProbe["module"], <<<<3, 1>>>>), Done(RefProbe["module"], <<>>),
                [run |-> "done", codes |-> <<Code("module", RefProbe["module"]), Code("module", RefProbe["module"])>>],
                [run |-> "done", codes |-> <<Code("module", RefProbe["module"])>>], [run |-> "failed", codes |-> <<>>]}]

FunctionInputs ==
    LET Kinds == {<<"a", "b">>, <<"a", "c">>, <<"c", "d">>, <<>>}
    IN {[CpBase EXCEPT !.blocks = b] : b \in {k \in [DOMAIN RefBlocks -> Kinds] : k["PyLong_FromLong"] = k["PyUnicode_FromString"]}}

TextInputs ==
    LET Sections(v, r) == {<<[name |-> ".text", vsize |-> v, raw |-> r, exec |-> TRUE]>> \o more :
                              more \in {<<>>, <<[name |-> ".new", vsize |-> 2, raw |-> 1, exec |-> TRUE]>>, <<[name |-> ".rdata", vsize |-> 4, raw |-> 4, exec |-> TRUE]>>}}
    IN {[CpBase EXCEPT !.text = t, !.sections = s] :
            t \in {RefText, <<1, 9, 3, 4, 5, 0>>, <<1, 2, 3, 9, 5>>, <<1, 9, 3, 9, 5>>, <<9, 2, 3, 4, 9, 7>>, <<1, 2, 3>>, <<1, 2, 3, 4, 5, 7, 8, 0>>},
            s \in UNION {Sections(v, r) : v \in {3, 4, 5, 7}, r \in {2, 4, 6, 8}}}

TableInputs ==
    {[CpBase EXCEPT !.tables[1].handlers[i] = g, !.tables[1].handlers[j] = h, !.signature = s] :
        i \in DOMAIN RefTable, j \in DOMAIN RefTable, g \in {"hA", "hB", "hD", "hE", "hX", "data"}, h \in {"hA", "hB", "hC", "hX", "hY"},
        s \in {Official.signature, [Official.signature EXCEPT !["hA"] = 19]}}

CpInputs == FunctionInputs \cup TextInputs \cup TableInputs

CpInput(x) == x \in CpInputs \/ IsVariant(x, CpBase, CpAlt)

---------------------------------------------------------------------------

\* The byte at this place is not the official one.
Differs(x, i) == i > Len(RefText) \/ x.text[i] # RefText[i]

\* All differing bytes are in a region, and no chunk that is whole and equal is.
RegionsExact(x, c) ==
    LET s == SizesOf(x, ".text")
        seen == 1 .. Least(Least(s.vsize, s.raw), Len(x.text))
        In_(i) == \E k \in DOMAIN c.regions : LET r == c.regions[k] IN r.section = ".text" /\ r.at < i /\ i <= r.at + r.len
        chunk(i) == {j \in 1 .. Len(RefText) : (j - 1) \div kCPythonTextBlockSize = (i - 1) \div kCPythonTextBlockSize}
    IN /\ \A i \in seen : Differs(x, i) => In_(i)
       /\ \A i \in seen : i <= Len(RefText) /\ chunk(i) \subseteq seen /\ (\A j \in chunk(i) : ~Differs(x, j)) => ~In_(i)

\* The target runs in this slot what the release runs there.
SameHandler(x, e, o) ==
    LET fingerprint == IF e.handler \in DOMAIN x.signature THEN x.signature[e.handler] ELSE 0
    IN \/ e.handler = RefTable[o].rva /\ RefTable[o].signature \in {0, fingerprint}
       \/ fingerprint # 0 /\ fingerprint = RefTable[o].signature

\* A difference is found where there is one, whatever calls the build stock has
\* the very bytes, and an opcode is renamed to one with the same handler (or the
\* one the official compiler emits in that place).
CPythonExact(x, r) ==
    LET c == r.info
        map == r.opcodes.map
        guidance == r.trust.guidance
        stock == sha256_matches(x)
        near == {f \in Probed(x) : 4 * Cardinality({i \in DOMAIN RefBlocks[f] : RefBlocks[f][i] \in ToSet(x.blocks[f])}) >= 3 * Len(RefBlocks[f])}
    IN r.valid =>
        /\ c.text = "MATCH" => SizesOf(x, ".text").vsize = Len(RefText) /\ SubSeq(x.text, 1, Len(RefText)) = RefText
                            /\ \A i \in DOMAIN x.sections : x.sections[i].exec => x.sections[i].name \in DOMAIN RefSections
        /\ c.text = "DIFF" => RegionsExact(x, c)
        /\ r.finding.functions # {} => /\ \A f \in r.finding.functions : x.blocks[f] # RefBlocks[f]
                                       /\ Cardinality(Probed(x)) >= 5 /\ 2 * Cardinality(near) >= Cardinality(Probed(x))
        /\ r.opcodes.source = "dispatch" =>
              \A i \in DOMAIN c.dispatch.entries : LET e == c.dispatch.entries[i] IN e.opcode \in DOMAIN map => SameHandler(x, e, map[e.opcode])
        /\ r.opcodes.source = "compiler_probe" =>
              \A i \in DOMAIN x.probe.codes : LET k == x.probe.codes[i] IN
                  \A j \in DOMAIN k.code : map[k.code[j][1]] = RefProbe[k.path][j][1]
        /\ \A i \in DOMAIN r.frozen : r.frozen[i].mode # "" => Version(x) = Release
        /\ guidance \in {"STOCK_MODEL_SAFE", "EXACT_MODIFIED_SEMANTICS"} => stock /\ \A i \in DOMAIN r.frozen : r.frozen[i].mode = "EXACT"
        /\ stock /\ x.probe.run = "no" => guidance = "STOCK_MODEL_SAFE"
        /\ guidance = "STOCK_MODEL_SAFE" /\ x.probe.run = "done" =>
              \A i \in DOMAIN x.probe.codes : x.probe.codes[i].code = RefProbe[x.probe.codes[i].path]
        /\ \/ r.finding.functions # {}
           \/ c.text = "DIFF"
           \/ In(c.dispatch.mappings, {"HANDLER_MODIFIED_CANDIDATE", "PERMUTED_HANDLER_MODIFIED", "UNMAPPED", "AMBIGUOUS_SEMANTIC"}) > 0
           \/ r.priority.mismatches > 0
           => guidance = "UNRESOLVED_MODIFIED_RUNTIME"

---------------------------------------------------------------------------
(* Trust on its own: two facts about one or two scopes, and one delta.      *)

Evidence == {<<"UNRESOLVED", "NOT_APPLICABLE", FALSE>>, <<"UNRESOLVED", "REFERENCE_UNAVAILABLE", FALSE>>, <<"MODEL_ONLY", "NOT_APPLICABLE", FALSE>>,
             <<"STOCK_COMPATIBLE_PARTIAL", "SEMANTIC_MATCH", FALSE>>, <<"STOCK_CONFIRMED", "EXACT_MATCH", FALSE>>, <<"STOCK_CONFIRMED", "EXACT_MATCH", TRUE>>,
             <<"MODIFIED_UNRESOLVED", "EXACT_DIFFERENCE", FALSE>>, <<"EXACT_DELTA_RECOVERED", "EXACT_DIFFERENCE", TRUE>>}

Facts(scopes, levels) ==
    {[scope |-> s, model |-> "m", level |-> n, reference |-> e[2], semantic |-> e[1], relation |-> r, complete |-> e[3]] :
        s \in scopes, n \in levels, e \in Evidence, r \in Relations}

TrustInput(x) ==
    \E f \in Facts({"a"}, {0, OfflineModel, ExactKnownGoodReference}), g \in Facts({"a", "b", ""}, {0, ExactKnownGoodReference}) :
        x = [part |-> "trust", facts |-> {f, g}]

Trusted(x) == [state |-> "REPORTED", valid |-> TRUE, ranges |-> <<>>, trust |-> build_model_trust_report(x.facts)]

\* What is said of a model rests on the strongest evidence of its scope: there
\* it is contradicted, supported or modified, and weaker evidence could be left
\* away.  Guidance promises for all scopes what holds for each of them.
TrustExact(x, r) ==
    LET as == r.trust.assessments
        Of(a) == {f \in x.facts : f.scope = a.scope}
        Top(a) == {f \in Of(a) : \A g \in Of(a) : g.level <= f.level}
        Says(a, states) == \E f \in Top(a) : f.semantic \in states
        all == {a.state : a \in as}
    IN /\ {a.scope : a \in as} = {f.scope : f \in x.facts} \ {""}
       /\ \A a, b \in as : a.scope = b.scope => a = b
       /\ \A a \in as : a.state = assess_group(Top(a))
       /\ \A a \in as : a.state = "STOCK_MODEL_SAFE" =>
             /\ \E f \in Top(a) : f.semantic = "STOCK_CONFIRMED" /\ f.complete
             /\ ~Says(a, {"MODIFIED_UNRESOLVED", "EXACT_DELTA_RECOVERED"})
       /\ \A a \in as : a.state = "EXACT_MODIFIED_SEMANTICS" =>
             Says(a, {"EXACT_DELTA_RECOVERED"}) /\ ~Says(a, {"STOCK_CONFIRMED", "STOCK_COMPATIBLE_PARTIAL", "MODIFIED_UNRESOLVED"})
       /\ \A a \in as : (\E f \in Top(a) : f.relation = "CONTRADICTS_MODEL" /\ f.level > 0) =>
             a.state = IF (\E f \in Top(a) : f.relation = "SUPPORTS_MODEL") \/ Says(a, {"STOCK_CONFIRMED", "STOCK_COMPATIBLE_PARTIAL", "MODEL_ONLY"})
                       THEN "EVIDENCE_CONFLICT_UNRESOLVED" ELSE "STATIC_MODEL_CONTRADICTED"
       /\ r.trust.guidance = "STOCK_MODEL_SAFE" <=> all = {"STOCK_MODEL_SAFE"}
       /\ r.trust.guidance = "EXACT_MODIFIED_SEMANTICS" <=> "EXACT_MODIFIED_SEMANTICS" \in all /\ all \subseteq {"STOCK_MODEL_SAFE", "EXACT_MODIFIED_SEMANTICS"}
       /\ r.trust.guidance = "STATIC_MODEL_CONTRADICTED" <=> "STATIC_MODEL_CONTRADICTED" \in all

Identity == [exact_bytes |-> TRUE, artifact_id |-> TRUE, sha256 |-> TRUE]

Unidentified == {[Identity EXCEPT !.exact_bytes = FALSE], [Identity EXCEPT !.sha256 = FALSE]}

DeltaBase ==
    [part |-> "delta", scope |-> "a", model |-> "m", reference |-> Identity, reference_auth |-> "ExactKnownGoodReference", reference_authentication |-> TRUE,
     modified_artifact |-> Identity, modification_proven |-> TRUE, delta_items |-> 1, delta_completeness |-> "CompleteForDeclaredScope",
     recoverability |-> "Declarative", payload |-> Identity, payload_relation |-> "RuntimeConsumesPayload", payload_relation_evidence |-> TRUE,
     application_proof |-> "ExactTransformClosure", application_evidence |-> TRUE, evidence_ceiling |-> ExactKnownGoodReference,
     native_contradiction |-> FALSE, native_contradiction_evidence |-> FALSE, native_contradiction_level |-> OriginalNativeResult]

DeltaAlt ==
    [scope |-> {""}, model |-> {""}, reference |-> Unidentified, reference_auth |-> {"None", "IdentityOnly"}, reference_authentication |-> {FALSE},
     modified_artifact |-> Unidentified, modification_proven |-> {FALSE}, delta_items |-> {0}, delta_completeness |-> {"None", "Partial"},
     recoverability |-> {"Unknown", "NativeRuntimeOracle", "VmExecution", "SemanticsTooGeneral", "BoundedStructural"}, payload |-> Unidentified,
     payload_relation |-> {"SameBundleOnly", "WrapperInvocation"}, payload_relation_evidence |-> {FALSE}, application_proof |-> {"RelationOnly", "NativeOracle"},
     application_evidence |-> {FALSE}, evidence_ceiling |-> {ChosenInputOracle, 6}, native_contradiction |-> {TRUE},
     native_contradiction_evidence |-> {TRUE}, native_contradiction_level |-> {OfflineModel, ExactKnownGoodReference}]

DeltaReport(x) ==
    [state |-> assess_semantic_delta(x).classification, valid |-> assess_semantic_delta(x).valid, ranges |-> <<>>,
     delta |-> assess_semantic_delta(x), trust |-> build_model_trust_report(model_trust_facts_from_semantic_delta(x))]

\* Semantics are only called exact for a delta that was recovered exactly, a
\* proven modification that was not recovered leaves the runtime unresolved, and
\* a stronger native result prevails.
DeltaExact(x, r) ==
    LET modified == ExactReference(x) /\ x.modification_proven
    IN /\ r.trust.guidance = "EXACT_MODIFIED_SEMANTICS" <=> r.state = "EXACT_DECLARATIVE_DELTA"
       /\ r.state = "EXACT_DECLARATIVE_DELTA" => modified /\ r.delta.payload_applicable /\ r.delta.scope_complete /\ ~x.native_contradiction
       /\ r.valid /\ x.native_contradiction =>
             r.trust.guidance = IF modified /\ x.native_contradiction_level < ExactKnownGoodReference THEN "UNRESOLVED_MODIFIED_RUNTIME" ELSE "STATIC_MODEL_CONTRADICTED"
       /\ r.valid /\ modified /\ ~x.native_contradiction => r.trust.guidance \in {"EXACT_MODIFIED_SEMANTICS", "UNRESOLVED_MODIFIED_RUNTIME"}
       /\ ~r.valid => r.trust.assessments = {}
=============================================================================
