------------------------------ MODULE PyInstaller ------------------------------
(***************************************************************************)
(* Archives of PyInstaller (extract/pyinstaller.cpp and                    *)
(* pyinstaller_reference.cpp): the search for the cookie and its table of  *)
(* contents, the table of an embedded PYZ, the comparison of the bootstrap *)
(* modules with those of known releases, and the extraction within limits. *)
(*                                                                         *)
(* Units: a cookie is two long, an entry of the table at least one, the    *)
(* head of a compiled module one, an inventory one.                        *)
(***************************************************************************)
EXTENDS Words

CONSTANTS kMaxTail, kMaxEntryLength, kMaxMember

COOKIE_SIZE == 2

-----------------------------------------------------------------------------
(* The cookie and the table.                                                *)

sane_type(t) == t \in {"s", "m", "z", "b", "d", "o"}

entry_ok(c, e) ==
    /\ e.el \in 1 .. kMaxEntryLength /\ e.flag <= 1 /\ sane_type(e.type) /\ e.name_ok
    /\ e.off <= c.al /\ e.off + e.cs <= c.al

\* The entries that fill the table exactly, or none.
parse_toc(c) ==
    LET upto(n) == SumOver(n, LAMBDA i : c.toc[i].el)
        n == FirstWhere(Len(c.toc), LAMBDA k : ~entry_ok(c, c.toc[k]) \/ upto(k) >= c.tl)
    IN IF c.tl >= 1 /\ n > 0 /\ entry_ok(c, c.toc[n]) /\ upto(n) = c.tl THEN SubSeq(c.toc, 1, n) ELSE <<>>

NoArchive == [state |-> "FAILED", valid |-> FALSE, ranges |-> <<>>, standard |-> FALSE, cookie |-> Bad, start |-> 0, entries |-> <<>>]

cookie_at(x, pos, require_magic) ==
    LET c == x.cookies[pos]
        start == pos + COOKIE_SIZE - c.al
        found == parse_toc(c)
    IN IF \/ pos + COOKIE_SIZE > x.size \/ (require_magic /\ ~c.magic)
          \/ c.al < COOKIE_SIZE \/ c.al > pos + COOKIE_SIZE \/ c.tl < 1 \/ c.to >= c.al
          \/ c.to + c.tl > c.al - COOKIE_SIZE \/ ~c.version \/ Len(found) < 2
       THEN NoArchive
       ELSE [state |-> "CONFIRMED", valid |-> TRUE, ranges |-> <<range(start, c.al)>>, standard |-> require_magic,
             cookie |-> pos, start |-> start, entries |-> found]

\* The first cookie that reads counts.
detect_pyinstaller_First(x) ==
    LET good == {p \in DOMAIN x.cookies : cookie_at(x, p, FALSE).valid}
    IN IF good = {} THEN NoArchive ELSE cookie_at(x, CHOOSE p \in good : \A q \in good : p <= q, FALSE)

\* With the magic the last one counts, without it the one with most entries.
detect_pyinstaller(x) ==
    LET at(p, m) == cookie_at(x, p, m)
        standard == {p \in DOMAIN x.cookies : at(p, TRUE).valid}
        begin == IF x.size > kMaxTail THEN x.size - kMaxTail ELSE 0
        other == {p \in DOMAIN x.cookies : p >= begin /\ at(p, FALSE).valid}
        better(p, q) == Len(at(p, FALSE).entries) > Len(at(q, FALSE).entries)
    IN IF standard # {} THEN at(CHOOSE p \in standard : \A q \in standard : q <= p, TRUE) ELSE
       IF other = {} THEN NoArchive
       ELSE at(CHOOSE p \in other : \A q \in other : q # p => better(p, q) \/ (~better(q, p) /\ p < q), FALSE)

-----------------------------------------------------------------------------
(* The table of a PYZ is a marshalled object: a list of pairs or a          *)
(* dictionary.  The reader keeps the objects it makes in a heap, the ones   *)
(* marked for later reference in a list, and the open containers.           *)

Obj(k, v) == [k |-> k, v |-> v, seq |-> <<>>]

Start == [heap |-> <<>>, refs |-> <<>>, open |-> <<>>, root |-> 0, fail |-> FALSE]

\* Open containers that wait for more; those full at the end of the list are
\* complete, and so is what they were in.
Waiting(open) ==
    LET n == Cardinality({i \in DOMAIN open : \E j \in i .. Len(open) : open[j].left # 0})
    IN SubSeq(open, 1, n)

\* An object goes into the innermost open container.  A null where a key
\* should be ends a dictionary.
Deliver(s, id) ==
    LET k == Len(s.open)
        top == s.open[k]
        ends == top.dict /\ Len(s.heap[top.id].seq) % 2 = 0 /\ s.heap[id].k = "null"
    IN IF k = 0 THEN [s EXCEPT !.root = id] ELSE
       IF ends THEN [s EXCEPT !.open[k].left = 0]
       ELSE [s EXCEPT !.heap[top.id].seq = Append(@, id), !.open[k].left = @ - 1]

ReadObject(s, t) ==
    LET id == Len(s.heap) + 1
        made == [s EXCEPT !.heap = Append(@, Obj(t.t, t.v)), !.refs = IF t.flag THEN Append(@, id) ELSE @]
        opened == [Deliver(made, id) EXCEPT !.open = Append(@, [id |-> id, dict |-> t.t = "dict", left |-> IF t.t = "dict" THEN Bad ELSE t.v])]
        named == IF t.flag THEN [made EXCEPT !.heap[id] = Obj("none", 0)] ELSE s
        next == CASE t.t = "bad" -> [s EXCEPT !.fail = TRUE]
                  [] t.t = "ref" -> IF t.v < Len(named.refs) THEN Deliver(named, named.refs[t.v + 1]) ELSE [s EXCEPT !.fail = TRUE]
                  [] t.t \in {"seq", "dict"} -> opened
                  [] OTHER -> Deliver(made, id)
    IN IF s.fail \/ (s.root # 0 /\ s.open = <<>>) THEN s ELSE [next EXCEPT !.open = Waiting(@)]

\* Offsets and lengths are cut to the width of the table's fields.
tuple_entry(h, name, v) ==
    LET f == h[v].seq
        ok == /\ h[name].k = "str" /\ h[v].k = "seq" /\ Len(f) >= 3
              /\ \A i \in 1 .. 3 : h[f[i]].k = "int" /\ (i > 1 => h[f[i]].v >= 0)
    IN IF ~ok THEN <<>>
       ELSE <<[name |-> h[name].v, type |-> h[f[1]].v, off |-> h[f[2]].v % WordLimit, len |-> h[f[3]].v % WordLimit]>>

Concat(ss) == FoldLeft(LAMBDA s, t : s \o t, <<>>, ss)

TocOf(heap, root) ==
    LET at(k) == heap[root.seq[k]]
        pairs == IF root.k = "seq"
                 THEN [k \in DOMAIN root.seq |-> IF at(k).k = "seq" /\ Len(at(k).seq) = 2 THEN at(k).seq ELSE <<>>]
                 ELSE [k \in 1 .. Len(root.seq) \div 2 |-> <<root.seq[2 * k - 1], root.seq[2 * k]>>]
    IN IF root.k \notin {"seq", "dict"} THEN <<>>
       ELSE Concat([k \in DOMAIN pairs |-> IF pairs[k] = <<>> THEN <<>> ELSE tuple_entry(heap, pairs[k][1], pairs[k][2])])

TocRead(s) == IF s.fail \/ s.root = 0 \/ s.open # <<>> THEN <<>> ELSE TocOf(s.heap, s.heap[s.root])

parse_pyz_toc(z) == IF ~z.magic \/ z.toc >= z.size THEN <<>> ELSE TocRead(FoldLeft(ReadObject, Start, z.tokens))

\* What lies in a range of a PYZ: the length of what it decompresses to.
zlib_dec_unknown(z, e, limit) ==
    LET at == <<e.off, e.len>>
        n == z.stored[at]
        most == IF limit < kMaxMember THEN limit ELSE kMaxMember
    IN IF most = 0 THEN [ok |-> FALSE, limit |-> TRUE, size |-> 0] ELSE
       IF at \notin DOMAIN z.stored THEN [ok |-> FALSE, limit |-> FALSE, size |-> 0]
       ELSE [ok |-> n <= most, limit |-> n > most, size |-> n]

PyzMemberBytes(x, found) ==
    LET e == found[1]
        data == zlib_dec_unknown(x, e, x.limit)
    IN IF Len(found) # 1 \/ ~span_in_bounds(x.size, e.off, e.len) \/ ~data.ok THEN Failed @@ [size |-> 0]
       ELSE Confirmed(<<range(e.off, e.len)>>) @@ [size |-> data.size]

pyinstaller_pyz_member_bytes(x) == PyzMemberBytes(x, SelectSeq(parse_pyz_toc(x), LAMBDA e : e.name = x.name))

-----------------------------------------------------------------------------
(* The bootstrap modules.  A payload is a source, compiled with or without  *)
(* other debug data, by the official compiler or by one that numbers the    *)
(* opcodes in another way.                                                  *)

kLegacyRequired == <<"pyimod01_os_path", "pyimod02_archive", "pyimod03_importers", "pyimod04_ctypes">>

kModernRequired == <<"pyimod01_archive", "pyimod02_importers", "pyimod03_ctypes">>

kModernWindowsOptional == "pyimod04_pywin32"

\* A catalogue like the generated one: a release has one source generation
\* for each component, and a generation may stand in two rows.
Generation(g, c, lo, hi, rs) == [gen |-> g, comp |-> c, min |-> lo, max |-> hi, releases |-> rs]

kPyInstallerLoaderGenerations ==
    << Generation("L", "LEGACY_CORE", 1, 2, {"r0"}), Generation("A", "MODERN_CORE", 1, 2, {"r1", "r2"}),
       Generation("A", "MODERN_CORE", 1, 3, {"r4"}), Generation("B", "MODERN_CORE", 2, 3, {"r3"}),
       Generation("W", "WINDOWS_EXTENSION", 1, 2, {"r1"}), Generation("V", "WINDOWS_EXTENSION", 1, 3, {"r2", "r3", "r4"}) >>

reference_component_for_module(mod) ==
    CASE mod \in ToSet(kLegacyRequired) -> "LEGACY_CORE" [] mod \in ToSet(kModernRequired) -> "MODERN_CORE"
      [] mod = kModernWindowsOptional -> "WINDOWS_EXTENSION" [] OTHER -> ""

reference_generation_for_label(label, comp) ==
    LET n == FirstWhere(Len(kPyInstallerLoaderGenerations),
                        LAMBDA i : kPyInstallerLoaderGenerations[i].comp = comp /\ label \in kPyInstallerLoaderGenerations[i].releases)
    IN IF n = 0 THEN "" ELSE kPyInstallerLoaderGenerations[n].gen

\* Releases of one generation share the source of a module; a module may also
\* be the same in two generations.
Source(rel, mod) ==
    LET g == reference_generation_for_label(rel, reference_component_for_module(mod))
    IN IF g = "" THEN "none" ELSE IF g = "B" /\ mod # "pyimod02_importers" THEN "A" ELSE g

Releases == {"r0", "r1", "r2", "r3", "r4"}

exact_labels(mod, p) ==
    {rel \in {"r0", "r1", "r3"} : Source(rel, mod) = p.source /\ ~p.debug /\ ~p.permuted}

semantic_labels(mod, source, permuted) == {rel \in Releases : Source(rel, mod) = source /\ ~permuted}

Match(mod, state, labels, refs) ==
    LET comp == reference_component_for_module(mod)
    IN [name |-> mod, state |-> state, labels |-> labels, ref |-> refs, comp |-> comp,
        gens |-> IF comp = "" THEN {} ELSE {reference_generation_for_label(l, comp) : l \in labels} \ {""}]

\* The first entry of the name is compared: as it is, with the opcodes put
\* back in order, or by its meaning.
compare_module(x, mod) ==
    LET p == x.entries[FirstWhere(Len(x.entries), LAMBDA i : x.entries[i].name = mod)]
        refs == x.minor \in x.minors
        exact == IF refs THEN exact_labels(mod, p) ELSE {}
        norm == IF refs /\ x.map /\ p.permuted THEN semantic_labels(mod, p.source, FALSE) ELSE {}
        sem == IF refs THEN semantic_labels(mod, p.source, p.permuted) ELSE {}
    IN CASE ~p.ok -> Match(mod, "EXTRACT_FAILED", {}, refs)
         [] exact # {} -> Match(mod, "EXACT_MATCH", exact, refs)
         [] norm # {} /\ p.parses -> Match(mod, "OPCODE_NORMALIZED_SEMANTIC_MATCH", norm, refs)
         [] ~p.parses -> Match(mod, "SEMANTIC_PARSE_FAILED", {}, refs)
         [] sem # {} -> Match(mod, "SEMANTIC_MATCH", sem, refs)
         [] OTHER -> Match(mod, IF refs THEN "DIFFERENT" ELSE "NO_REFERENCE", {}, refs)

matched(mm) == mm.state \in {"EXACT_MATCH", "SEMANTIC_MATCH", "OPCODE_NORMALIZED_SEMANTIC_MATCH"}

releases_for_component_generation(comp, gen, minors) ==
    UNION {r.releases : r \in {g \in ToSet(kPyInstallerLoaderGenerations) :
                                  g.comp = comp /\ g.gen = gen /\ \A n \in minors : n \in g.min .. g.max}}

mode_for(ms) ==
    LET of(s) == {mm \in ms : mm.state = s}
        norm == of("OPCODE_NORMALIZED_SEMANTIC_MATCH")
    IN CASE ms = {} -> "" [] norm = ms -> "OPCODE_NORMALIZED" [] norm # {} -> "MIXED_OPCODE_NORMALIZED"
         [] of("EXACT_MATCH") = ms -> "EXACT" [] of("SEMANTIC_MATCH") = ms -> "SEMANTIC" [] OTHER -> "MIXED"

Common(sets) == {e \in UNION sets : \A s \in sets : e \in s}

Boot(status, profile) ==
    [status |-> status, profile |-> profile, gen |-> "", win |-> "", candidates |-> {}, source |-> {}, labels |-> {}, mode |-> ""]

NoMatch(ms, status) == IF \E mm \in ms : mm.ref THEN status ELSE "NO_REFERENCE"

\* Three modules that share a label count in part; without a complete profile
\* every module but struct is looked at.
PartialMatch(profile, ms) ==
    LET good == {mm \in ms : matched(mm)}
        common == Common({mm.labels : mm \in good})
    IN IF Cardinality(good) >= 3 /\ common # {}
       THEN [Boot("PARTIAL_REFERENCE_MATCH", profile) EXCEPT !.labels = common, !.mode = mode_for(good)]
       ELSE Boot(NoMatch(ms, "REFERENCE_DIFF"), profile)

core_result(x, profile, comp, ms) ==
    LET gens == Common({mm.gens : mm \in ms})
        gen == CHOOSE g \in gens : TRUE
        candidates == releases_for_component_generation(comp, gen, {x.minor})
    IN IF Cardinality(gens) # 1 THEN Boot("REFERENCE_DIFF", profile)
       ELSE [status |-> IF candidates = {} THEN "REFERENCE_COMPATIBILITY_CONFLICT" ELSE "REFERENCE_MATCH", profile |-> profile, gen |-> gen,
             win |-> "", candidates |-> candidates, source |-> releases_for_component_generation(comp, gen, {}),
             labels |-> Common({mm.labels : mm \in ms}), mode |-> mode_for(ms)]

apply_windows_extension(x, core, w, ms) ==
    LET gen == CHOOSE g \in w.gens : TRUE
        source == core.source \cap releases_for_component_generation("WINDOWS_EXTENSION", gen, {})
        candidates == core.candidates \cap releases_for_component_generation("WINDOWS_EXTENSION", gen, {x.minor})
    IN IF Cardinality(w.gens) # 1 THEN [core EXCEPT !.status = "REFERENCE_METADATA_CONFLICT"]
       ELSE [core EXCEPT !.win = gen, !.source = source, !.candidates = candidates, !.labels = @ \cap w.labels, !.mode = mode_for(ms \cup {w}),
                         !.status = CASE source = {} -> "REFERENCE_DIFF" [] candidates = {} -> "REFERENCE_COMPATIBILITY_CONFLICT" [] OTHER -> @]

finalize_pyinstaller_bootstrap_reference(x, ms, names) ==
    LET legacy == ToSet(kLegacyRequired) \subseteq names
        modern == ToSet(kModernRequired) \subseteq names
        profile == IF legacy THEN "LEGACY_4X" ELSE "MODERN_5X_6X"
        required == {mm \in ms : mm.name \in ToSet(IF legacy THEN kLegacyRequired ELSE kModernRequired)}
        good == {mm \in required : matched(mm)}
        core == core_result(x, profile, IF legacy THEN "LEGACY_CORE" ELSE "MODERN_CORE", required)
        w == CHOOSE mm \in ms : mm.name = kModernWindowsOptional
    IN CASE legacy /\ modern -> Boot("REFERENCE_PROFILE_AMBIGUOUS", "AMBIGUOUS")
         [] ~legacy /\ ~modern -> PartialMatch("UNRESOLVED", {mm \in ms : mm.name # "struct"})
         [] \E mm \in good : mm.gens = {} -> Boot("REFERENCE_METADATA_CONFLICT", profile)
         [] good # required -> PartialMatch(profile, required)
         [] core.status # "REFERENCE_MATCH" \/ legacy \/ kModernWindowsOptional \notin names -> core
         [] ~matched(w) -> [core EXCEPT !.status = IF w.ref THEN "REFERENCE_DIFF" ELSE "PARTIAL_REFERENCE_MATCH"]
         [] OTHER -> apply_windows_extension(x, core, w, required)

kBootstrapModules == {"struct", kModernWindowsOptional} \cup ToSet(kLegacyRequired) \cup ToSet(kModernRequired)

BootFinding(boot) ==
    boot @@ [ranges |-> <<>>, valid |-> boot.status = "REFERENCE_MATCH",
             state |-> CASE boot.status = "REFERENCE_MATCH" -> "CONFIRMED" [] boot.status = "PARTIAL_REFERENCE_MATCH" -> "LIKELY" [] OTHER -> "SUSPECTED"]

analyze_pyinstaller_bootstrap(x) ==
    LET names == {x.entries[i].name : i \in DOMAIN x.entries}
    IN BootFinding(finalize_pyinstaller_bootstrap_reference(x, {compare_module(x, n) : n \in kBootstrapModules \cap names}, names))

-----------------------------------------------------------------------------
(* The extraction.  An output has a key (its path in lower case), a length, *)
(* a source and the form of the code in it.                                 *)

outer_role(x, e) ==
    CASE e.type \in {"s", "m"} -> e.kind [] e.type = "z" -> "pyz_archive" [] e.name = x.library -> "runtime_binary" [] OTHER -> "bulk"

outer_score(x, e) ==
    LET role == outer_role(x, e)
    IN CASE role = "user" -> 1000 [] role = "pyz_archive" -> 900 [] role = "bootstrap" -> 350
         [] role = "runtime_hook" -> 300 [] role = "runtime_binary" -> 100 [] OTHER -> 10

pyz_score(z) == CASE z.name = "main" -> 1200 [] z.kind = "user" -> 900 [] z.kind = "bootstrap" -> 200 [] OTHER -> 100

\* A stable sort by score, and by name where the scores are equal.
ByScore(s, score) ==
    LET before(i, j) == score[i] > score[j] \/ (score[i] = score[j] /\ s[i].rank < s[j].rank)
        place(i) == Cardinality({j \in DOMAIN s : before(j, i) \/ (~before(i, j) /\ j <= i)})
    IN [k \in DOMAIN s |-> s[CHOOSE i \in DOMAIN s : place(i) = k]]

Output(key, size, source, form) == [key |-> key, size |-> size, source |-> source, form |-> form]

remaining_bytes(x, s) == IF s.bytes < x.max_bytes THEN x.max_bytes - s.bytes ELSE 0

note_omitted(s, source) == [s EXCEPT !.exhausted = TRUE, !.omitted = @ \cup {source}, !.ok = FALSE]

\* A name is claimed even if what follows fails.
write_budgeted(x, s, o) ==
    LET claimed == [s EXCEPT !.claimed = @ \cup {o.key}]
    IN IF o.key \in s.claimed THEN [s EXCEPT !.ok = FALSE] ELSE
       IF o.size > remaining_bytes(x, s) \/ Len(s.files) >= x.max_files THEN note_omitted(claimed, o.source) ELSE
       IF o.key \in x.blocked THEN [claimed EXCEPT !.ok = FALSE]
       ELSE [claimed EXCEPT !.bytes = @ + o.size, !.files = Append(@, o), !.ok = TRUE]

\* With a proven map of the opcodes the code is written in the official form,
\* after the form it came in if the two differ.
write_code(x, s, dir, low, c, magic) ==
    LET head == IF magic = "none" THEN 0 ELSE 1
        suffix == IF magic = "none" THEN ".marshal" ELSE ".pyc"
        as(tail, size, form) == Output(<<dir, low, tail>>, size, c.name, form)
        differs == c.changed \/ magic = "modified"
        kept == IF differs
                THEN write_budgeted(x, s, as(IF magic = "none" THEN ".target.marshal" ELSE ".target.pyc", c.size + head, "target"))
                ELSE [s EXCEPT !.ok = TRUE]
    IN IF x.normalize /\ x.official /\ c.normal
       THEN IF kept.ok THEN write_budgeted(x, kept, as(".pyc", c.size + 1, "normalized")) ELSE kept
       ELSE write_budgeted(x, s, as(suffix, c.size + head, "target"))

Member(x, s, e, z) ==
    LET data == zlib_dec_unknown(e.pyz, z, remaining_bytes(x, s))
        low == <<z.low, z.type>>
    IN IF ~span_in_bounds(e.pyz.size, z.off, z.len) \/ ~z.safe THEN s ELSE
       IF data.limit THEN note_omitted(s, z.name) ELSE
       IF ~data.ok THEN write_budgeted(x, s, Output(<<z.kind, low, ".encrypted">>, z.len, z.name, "raw"))
       ELSE write_code(x, s, z.kind, low, [z EXCEPT !.size = data.size], e.pyz.pyc)

Pyz(x, s, e) ==
    LET wrote == write_budgeted(x, s, Output(<<"PYZ", e.low, "">>, e.pyz.size, e.name, "raw"))
        inv == IF s.inventory THEN <<"PYZ", e.low, ".inventory">> ELSE <<"PYZ", "inventory", "">>
        listed == write_budgeted(x, wrote, Output(inv, 1, "inventory", "raw"))
        known == [listed EXCEPT !.inventory = @ \/ listed.ok]
    IN IF ~wrote.ok \/ ~e.pyz.toc_ok THEN wrote
       ELSE FoldLeft(LAMBDA t, z : Member(x, t, e, z), known, ByScore(e.pyz.members, [i \in DOMAIN e.pyz.members |-> pyz_score(e.pyz.members[i])]))

\* The length of the content of an entry, Bad if it cannot be had.
Payload(e) == IF e.flag = 0 THEN e.cs ELSE IF e.us = 0 THEN 0 ELSE IF e.real = Bad \/ e.real > e.us THEN Bad ELSE e.real

Entry(x, s, e, magic) ==
    LET n == Payload(e)
        role == outer_role(x, e)
        dir == CASE role = "user" -> "python/user" [] role = "bootstrap" -> "python/bootstrap" [] role = "runtime_hook" -> "python/runtime"
                 [] role = "runtime_binary" -> "runtime" [] OTHER -> "bulk"
    IN IF e.flag = 1 /\ e.us > x.max_bytes THEN note_omitted(s, e.name) ELSE
       IF ~e.safe THEN s ELSE
       IF n = Bad THEN IF x.full THEN write_budgeted(x, s, Output(<<"bulk", e.low, ".compressed">>, e.cs, e.name, "raw")) ELSE s ELSE
       IF e.type \in {"s", "m"} THEN write_code(x, s, dir, e.low, [e EXCEPT !.size = n], magic) ELSE
       IF e.type = "z" THEN Pyz(x, s, e) ELSE
       IF x.full THEN write_budgeted(x, s, Output(<<dir, e.low, "">>, n, e.name, "raw")) ELSE s

Selected(x, e) == e.type \notin {"d", "o"} /\ (x.full \/ outer_role(x, e) \in {"user", "bootstrap", "runtime_hook", "pyz_archive"})

extract_pyinstaller(x) ==
    LET first == FirstWhere(Len(x.entries), LAMBDA i : LET e == x.entries[i] IN
                    e.type = "z" /\ (e.flag = 1 => e.us <= x.max_bytes) /\ Payload(e) # Bad /\ e.pyz.pyc # "none")
        magic == IF first = 0 THEN "none" ELSE x.entries[first].pyz.pyc
        start == [claimed |-> {}, bytes |-> 0, files |-> <<>>, omitted |-> {}, exhausted |-> FALSE, inventory |-> FALSE, ok |-> TRUE]
        chosen == SelectSeq(x.entries, LAMBDA e : Selected(x, e))
        end == FoldLeft(LAMBDA s, e : Entry(x, s, e, magic),
                        write_budgeted(x, start, Output(<<"", "inventory", "">>, 1, "inventory", "raw")),
                        ByScore(chosen, [i \in DOMAIN chosen |-> outer_score(x, chosen[i])]))
        success == end.files # <<>> /\ (~x.full \/ ~end.exhausted)
    IN [state |-> IF success THEN "EXTRACTED" ELSE "FAILED", valid |-> success, ranges |-> <<>>, files |-> end.files, bytes |-> end.bytes,
        omitted |-> end.omitted, exhausted |-> end.exhausted]

-----------------------------------------------------------------------------
(* Inputs *)

Toc(type, off, cs) == [el |-> 1, off |-> off, cs |-> cs, flag |-> 0, type |-> type, name_ok |-> TRUE]

Table == <<Toc("s", 0, 3), Toc("z", 3, 2), Toc("b", 5, 2)>>

CookieBase == [magic |-> TRUE, al |-> 12, to |-> 7, tl |-> 3, version |-> TRUE, toc |-> Table]

CookieAlt ==
    [magic |-> {FALSE}, version |-> {FALSE}, al |-> {0, 1, 2, 11, 13, 63}, to |-> {0, 6, 8, 9, 12}, tl |-> {0, 1, 2, 4, 5},
     toc |-> {[Table EXCEPT ![2][f] = v] : <<f, v>> \in
                  {"el"} \X {0, 2, 3, kMaxEntryLength + 1} \cup {"off"} \X {11, 13} \cup {"cs"} \X {9, 10, 63}
                  \cup {<<"flag", 2>>, <<"type", "?">>, <<"name_ok", FALSE>>}}]

Others == {CookieBase, [CookieBase EXCEPT !.version = FALSE], [CookieBase EXCEPT !.magic = FALSE],
           [CookieBase EXCEPT !.al = 13], [CookieBase EXCEPT !.magic = FALSE, !.tl = 2], [CookieBase EXCEPT !.magic = FALSE, !.tl = 4, !.toc = Append(@, Toc("b", 0, 1))]}

ArchiveInput(x) ==
    \E n \in {12, 15}, at \in {3, 10}, c \in Variants(CookieBase, CookieAlt), o \in Others :
      x = [part |-> "carchive", size |-> n, cookies |-> [p \in {at, 13} |-> IF p = at THEN c ELSE o]]

Token(t, v) == [t |-> t, v |-> v, flag |-> FALSE]

Item(name, off, len) == [name |-> name, type |-> 0, off |-> off, len |-> len]

ItemTokens(list, e) ==
    (IF list THEN <<Token("seq", 2)>> ELSE <<>>)
    \o <<Token("str", e.name), Token("seq", 3), Token("int", e.type), Token("int", e.off), Token("int", e.len)>>

Marshalled(list, items) ==
    <<IF list THEN Token("seq", Len(items)) ELSE Token("dict", 0)>> \o Concat([k \in DOMAIN items |-> ItemTokens(list, items[k])])
    \o IF list THEN <<>> ELSE <<Token("null", 0)>>

\* The last item is the first one again, by reference.
Shared(list, items) ==
    LET m == Marshalled(list, items)
        at == IF list THEN 2 ELSE 3
        n == IF list THEN Len(m) ELSE Len(m) - 1
    IN SubSeq([m EXCEPT ![at].flag = TRUE, ![1].v = Len(items) + 1], 1, n)
       \o (IF list THEN <<>> ELSE <<Token("str", "c")>>) \o <<Token("ref", 0)>> \o SubSeq(m, n + 1, Len(m))

PyzBase(list, items) ==
    [part |-> "pyz", size |-> 9, magic |-> TRUE, toc |-> 6, tokens |-> Marshalled(list, items), list |-> list, items |-> items, intact |-> TRUE,
     name |-> "a", limit |-> 3, stored |-> (<<2, 2>> :> 3 @@ <<4, 2>> :> 1 @@ <<0, 9>> :> 2)]

ItemLists ==
    {<<i, j>> : i \in {Item("a", 2, 2)}, j \in {Item("b", 4, 2), Item("a", 4, 2), Item("a", 2, 2), Item("b", 8, 2)}}
    \cup {<<Item("a", o, l)>> : o \in {0, 2, 4, 8, 63, 66, Bad}, l \in {2, 9, 60, 66, Bad}}

PyzInputs ==
    UNION { LET x == PyzBase(list, items)
                damaged(ts) == [x EXCEPT !.tokens = ts, !.intact = FALSE]
                t == x.tokens
            IN {x, [x EXCEPT !.limit = 0], [x EXCEPT !.limit = 2], [x EXCEPT !.magic = FALSE], [x EXCEPT !.toc = 9], [x EXCEPT !.name = "b"],
                [x EXCEPT !.tokens = Shared(list, items), !.items = Append(items, [items[1] EXCEPT !.name = IF list THEN @ ELSE "c"])]}
               \cup {damaged(SubSeq(t, 1, n - 1) \o SubSeq(t, n + 1, Len(t))) : n \in DOMAIN t}
               \cup {damaged([t EXCEPT ![n] = u]) : n \in DOMAIN t,
                        u \in {Token("none", 0), Token("null", 0), Token("bad", 0), Token("ref", 0), Token("seq", 1), [Token("ref", 0) EXCEPT !.flag = TRUE]}}
            : list \in BOOLEAN, items \in ItemLists }

BootEntry(name, source) == [name |-> name, ok |-> TRUE, source |-> source, debug |-> FALSE, permuted |-> FALSE, parses |-> TRUE]

Modern(g) == [i \in 1 .. 3 |-> BootEntry(kModernRequired[i], g)]

BootBase(es) == [part |-> "pyboot", size |-> 1, entries |-> es, minor |-> 2, minors |-> {1, 2, 3}, map |-> FALSE]

Payloads(e) ==
    {[e EXCEPT !.source = g] : g \in {"A", "B", "V", "W", "L", "other"}}
    \cup {[e EXCEPT !.debug = TRUE], [e EXCEPT !.permuted = TRUE], [e EXCEPT !.debug = TRUE, !.permuted = TRUE], [e EXCEPT !.debug = TRUE, !.parses = FALSE], [e EXCEPT !.ok = FALSE]}

EntryLists ==
    LET win(g) == BootEntry(kModernWindowsOptional, g)
        legacy == [i \in 1 .. 4 |-> BootEntry(kLegacyRequired[i], "L")]
        full == Append(Modern("A"), win("V"))
    IN {[full EXCEPT ![i] = p, ![j] = q] : <<i, p, j, q>> \in UNION {{<<i, p, j, q>> : p \in Payloads(full[i]), q \in Payloads(full[j])} : i, j \in 1 .. 4}}
       \cup {[[i \in 1 .. 4 |-> BootEntry(full[i].name, IF i = 4 THEN w ELSE IF i = 2 THEN g ELSE "A")] EXCEPT ![k].debug = TRUE] :
                 k \in 1 .. 4, w \in {"W", "V"}, g \in {"A", "B"}}
       \cup {[legacy EXCEPT ![i] = p] : i \in 1 .. 4, p \in UNION {Payloads(legacy[k]) : k \in 1 .. 4}}
       \cup {Modern("A") \o legacy, SubSeq(legacy, 1, 3), SubSeq(full, 2, 4), <<BootEntry("struct", "none")>> \o full, <<>>}

BootInput(x) ==
    \E es \in EntryLists, n \in {1, 2, 3}, mapped \in BOOLEAN, ms \in {{1, 2, 3}, {1}} : x = [BootBase(es) EXCEPT !.minor = n, !.map = mapped, !.minors = ms]

Code(name, low, kind, rank) == [name |-> name, low |-> low, kind |-> kind, rank |-> rank, safe |-> TRUE, normal |-> TRUE, changed |-> FALSE, size |-> 0]

ZMember(name, kind, off, rank) == Code(name, name, kind, rank) @@ [off |-> off, len |-> 1, type |-> 0]

ZArchive == [size |-> 3, toc_ok |-> TRUE, pyc |-> "official", stored |-> (<<1, 1>> :> 1 @@ <<2, 1>> :> 2),
             members |-> <<ZMember("os", "stdlib", 2, 2), ZMember("main", "user", 1, 1)>>]

XEntry(name, type, kind, rank, n) == Code(name, name, kind, rank) @@ [type |-> type, cs |-> n, us |-> n, real |-> n, flag |-> 1, pyz |-> ZArchive]

XEntries == << XEntry("lib", "b", "", 5, 1), XEntry("data", "b", "", 4, 1), XEntry("boot", "m", "bootstrap", 2, 1), XEntry("out", "z", "", 6, 3), XEntry("app", "s", "user", 1, 1) >>

ExtractBase ==
    [part |-> "pyextract", size |-> 1, entries |-> XEntries, library |-> "lib", full |-> TRUE, max_bytes |-> 20, max_files |-> 12,
     normalize |-> FALSE, official |-> TRUE, blocked |-> {}]

Entry1(i, f, v) == [XEntries EXCEPT ![i][f] = v]

ExtractAlt ==
    [full |-> {FALSE}, max_bytes |-> 0 .. 16, max_files |-> 0 .. 11, normalize |-> {TRUE}, official |-> {FALSE},
     blocked |-> {{<<"python/user", "app", ".pyc">>}, {<<"PYZ", "inventory", "">>}, {<<"user", <<"main", 0>>, ".target.pyc">>}},
     entries |-> {Entry1(i, f, FALSE) : i \in {1, 4, 5}, f \in {"safe"}} \cup {Entry1(i, "real", v) : i \in 1 .. 5, v \in {Bad, 4}} \cup {Entry1(i, "us", v) : i \in 1 .. 5, v \in {0, 21}}
                 \cup {Entry1(i, "flag", 0) : i \in 1 .. 5} \cup {Entry1(2, "low", "lib"), Entry1(1, "type", "d"), Entry1(5, "changed", TRUE), Entry1(5, "normal", FALSE), Entry1(3, "changed", TRUE)}
                 \cup {[XEntries EXCEPT ![4].pyz = z] : z \in {[ZArchive EXCEPT !.toc_ok = FALSE], [ZArchive EXCEPT !.toc_ok = FALSE, !.pyc = "none"], [ZArchive EXCEPT !.pyc = "modified"],
                           [ZArchive EXCEPT !.members[1].changed = TRUE], [ZArchive EXCEPT !.members[2].changed = TRUE], [ZArchive EXCEPT !.members[2].off = 3],
                           [ZArchive EXCEPT !.members[2].low = "os", !.members[2].kind = "stdlib"], [ZArchive EXCEPT !.members[2].safe = FALSE],
                           [ZArchive EXCEPT !.stored = (<<2, 1>> :> 2)]}}
                 \cup {Append(XEntries, [XEntry("out2", "z", "", 7, 3) EXCEPT !.pyz.members = <<>>, !.pyz.pyc = p]) : p \in {"official", "modified"}}
                 \cup {Append(XEntries, [XEntry("App", "s", "user", 0, 1) EXCEPT !.low = "app"]), <<>>}]

-----------------------------------------------------------------------------
(* What the results mean *)

\* An archive lies in the file, before or at the end of its cookie; its table
\* and its entries lie in it, the table before the cookie.  A cookie with the
\* magic comes first, and none behind the one chosen is good.
ArchiveExact(x, r) ==
    r.valid =>
        LET c == x.cookies[r.cookie]
            end == r.cookie + COOKIE_SIZE
            good(p, m) == cookie_at(x, p, m).valid
        IN /\ r.start + c.al = end /\ r.start + c.to + c.tl <= r.cookie /\ SumOver(Len(r.entries), LAMBDA i : r.entries[i].el) = c.tl
           /\ \A i \in DOMAIN r.entries : r.start + r.entries[i].off + r.entries[i].cs <= end /\ end <= x.size
           /\ \A p \in DOMAIN x.cookies : good(p, TRUE) => r.standard /\ p <= r.cookie
           /\ ~r.standard => \A p \in DOMAIN x.cookies : good(p, FALSE) => Len(cookie_at(x, p, FALSE).entries) <= Len(r.entries) \/ p < x.size - kMaxTail

\* What is read back from a marshalled table are its items, and a member is
\* given out only if one item has its name.
PyzExact(x, r) ==
    LET shown == SelectSeq(x.items, LAMBDA e : e.off >= 0 /\ e.len >= 0)
        cut == [k \in DOMAIN shown |-> [shown[k] EXCEPT !.off = @ % WordLimit, !.len = @ % WordLimit]]
    IN /\ x.intact /\ x.magic /\ x.toc < x.size => parse_pyz_toc(x) = cut
       /\ r.valid => r.size <= x.limit /\ (x.intact => Cardinality({k \in DOMAIN shown : shown[k].name = x.name}) = 1)

\* A confirmed bootstrap is, module by module, the source of every release
\* that is named, and each of them runs on the interpreter of the archive.
BootExact(x, r) ==
    r.state = "CONFIRMED" =>
        /\ r.candidates # {}
        /\ \A rel \in r.candidates : \A i \in DOMAIN x.entries :
              LET e == x.entries[i]
                  required == e.name \in ToSet(IF r.profile = "LEGACY_4X" THEN kLegacyRequired ELSE Append(kModernRequired, kModernWindowsOptional))
              IN required => /\ Source(rel, e.name) = e.source /\ (e.permuted => x.map) /\ e.ok
                             /\ \E g \in ToSet(kPyInstallerLoaderGenerations) :
                                    g.comp = reference_component_for_module(e.name) /\ rel \in g.releases /\ x.minor \in g.min .. g.max

\* The extraction stays within its limits and writes no name twice; code in
\* the official form has the form it came in beside it if they differ; scripts
\* come before archives and those before the rest; and a full extraction that
\* succeeds has left out no entry it could have written.
ExtractExact(x, r) ==
    r.state # "NOT_RUN" =>
        LET entry(n) == SelectSeq(x.entries, LAMBDA e : e.name = n)
            members == Concat([k \in DOMAIN x.entries |-> IF x.entries[k].type = "z" THEN x.entries[k].pyz.members ELSE <<>>])
            codes == x.entries \o members
            modified(n) == \E e \in ToSet(x.entries) : e.type = "z" /\ e.pyz.pyc = "modified" /\ \E z \in ToSet(e.pyz.members) : z.name = n
            clean(e) == e.safe /\ (\A k \in x.blocked : k[2] # e.low) /\ Cardinality({i \in DOMAIN x.entries : x.entries[i].low = e.low}) = 1
            score(f) == IF entry(f.source) = <<>> THEN Bad ELSE outer_score(x, entry(f.source)[1])
        IN /\ r.bytes = SumOver(Len(r.files), LAMBDA i : r.files[i].size) /\ r.bytes <= x.max_bytes /\ Len(r.files) <= x.max_files
           /\ \A i, j \in DOMAIN r.files : r.files[i].key = r.files[j].key => i = j
           /\ \A i \in DOMAIN r.files : r.files[i].form = "normalized" =>
                 /\ x.normalize /\ x.official
                 /\ (\E c \in ToSet(codes) : c.name = r.files[i].source /\ c.changed) \/ modified(r.files[i].source) =>
                       \E j \in 1 .. i - 1 : r.files[j].source = r.files[i].source /\ r.files[j].form = "target"
           /\ \A i, j \in DOMAIN r.files : i < j /\ score(r.files[i]) # Bad /\ score(r.files[j]) # Bad => score(r.files[i]) >= score(r.files[j])
           /\ x.full /\ r.valid => \A e \in ToSet(x.entries) :
                 e.type \notin {"d", "o"} /\ clean(e) => \E i \in DOMAIN r.files : r.files[i].source = e.name
=============================================================================
