-------------------------------- MODULE Apk --------------------------------
(***************************************************************************)
(* Detection of an Android package and extraction of its entries           *)
(* (extract/apk.cpp): the central directory is read entry by entry, deep   *)
(* analyses of entries draw on budgets shared by all of them, a path that  *)
(* occurs twice is withdrawn after the first one has been analysed, and    *)
(* the evidence of all entries is related at the end (detect_apk).  Then   *)
(* entries are chosen and written (extract_apk).                           *)
(*                                                                         *)
(* A path is the sequence of its components in lower case, with whether it *)
(* is spelled as Android spells it.  What the parsers of other modules say *)
(* of an entry is part of the entry.                                       *)
(***************************************************************************)
EXTENDS Words

CONSTANTS kMaxHermesProbeEntries, kMaxHermesProbeBytes, kMaxDexDeepEntryBytes, kMaxDexDeepTotalBytes, kMaxDexDeepEntries,
          kMaxNativeDeepEntryBytes, kMaxNativeDeepTotalBytes, kMaxUnityMetadataParses, kMaxUnityMetadataParseBytes, kMaxUnityMetadataBytes,
          kMaxManifestBytes, kMaxResourceTableBytes, kMaxGodotLegacyConfigBytes, kMaxRootFileBytes,
          kMaxJniEvidence, kMaxRelations,
          kMaxInstructions, kMaxRows, kMaxEvidence

windows_reserved_component(part) == part \in {"", "con"}

safe_relative_name(e) ==
    ~e.control /\ e.path # <<>> /\ \A i \in DOMAIN e.path : e.path[i] \notin {".", ".."} /\ ~windows_reserved_component(e.path[i])

is_dex_name(e) == e.exact /\ e.path \in {<<"classes.dex">>, <<"classes2.dex">>}

is_native_library_path(e) == e.exact /\ Len(e.path) = 3 /\ e.path[1] = "lib"

is_manifest(e) == e.exact /\ e.path = <<"androidmanifest.xml">>

is_resources(e) == e.exact /\ e.path = <<"resources.arsc">>

\* These two are compared without regard to case.
is_unity_il2cpp_metadata_resource_path(e) == e.path = <<"assets", "managed", "metadata", "global-metadata.dat">>

is_godot_legacy_engine_config_resource_path(e) == e.path = <<"assets", "engine.cfb">>

is_nested_archive(e) == Last(e.path) = "inner.apk"

has_analysis_extension(e) == Last(e.path) = "data.json"

analysis_priority_for(e) ==
    CASE is_manifest(e) \/ is_resources(e) -> 0
      [] is_dex_name(e) -> 100
      [] is_native_library_path(e) \/ is_nested_archive(e) -> 95
      [] is_godot_legacy_engine_config_resource_path(e) -> 92
      [] is_unity_il2cpp_metadata_resource_path(e) -> 90
      [] e.exact /\ Len(e.path) > 2 /\ e.path[1] = "res" /\ e.path[2] \in {"raw", "xml"} -> 80
      [] e.path[1] = "assets" /\ has_analysis_extension(e) -> 75
      [] e.exact /\ Len(e.path) > 2 /\ e.path[1] = "meta-inf" /\ e.path[2] = "services" /\ has_analysis_extension(e) -> 65
      [] Len(e.path) = 1 /\ has_analysis_extension(e) /\ e.size <= kMaxRootFileBytes -> 60
      [] OTHER -> 0

\* The local header repeats the central one; sizes and checksum only when they do
\* not follow the data.
LocalMatches(e) ==
    /\ e.local.name = e.path /\ e.local.flags = e.flags /\ e.local.method = e.method
    /\ "descriptor" \notin e.flags => e.local.crc = e.crc /\ e.local.size \in {e.size, Bad}

GeometryOk(x, e) ==
    /\ e.central < x.size /\ e.local.off < x.size /\ e.data <= x.size /\ e.comp <= x.size - e.data
    /\ LocalMatches(e)
    /\ e.supported /\ ~e.encrypted /\ ~e.dir => e.headers_valid

Regular(e) == ~e.dir /\ safe_relative_name(e) /\ ~e.symlink /\ ~e.encrypted /\ e.supported

\* The bytes of an entry are there when they are few enough and the checksum holds.
entry_full_bounded(e, max) == e.size <= max /\ ~e.dir /\ ~e.encrypted /\ e.supported /\ e.crc_ok

\* An entry of the same path is withdrawn together with this one.
Withdraw(s, e) ==
    LET first == FirstWhere(Len(s.entries), LAMBDA i : safe_relative_name(s.entries[i].e) /\ s.entries[i].e.path = e.path)
        p == s.entries[first]
    IN IF ~safe_relative_name(e) \/ first = 0 THEN [s EXCEPT !.dup = FALSE]
       ELSE [s EXCEPT !.dup = TRUE, !.entries[first].duplicate = TRUE, !.entries[first].priority = 0,
                      !.duplicates = @ + (IF p.duplicate THEN 1 ELSE 2),
                      !.bytes = IF ~p.duplicate /\ Regular(p.e) THEN @ - p.e.size ELSE @,
                      !.files = IF ~p.duplicate /\ Regular(p.e) THEN @ - 1 ELSE @]

New(s, e) ==
    [e |-> e, duplicate |-> s.dup, priority |-> IF Regular(e) /\ ~s.dup THEN analysis_priority_for(e) ELSE 0,
     hermes |-> FALSE, dex |-> "NOT_ATTEMPTED", native |-> "NOT_ATTEMPTED", unity |-> FALSE, limited |-> FALSE]

\* The record of the entry that is being read.
Put(s, n) == [s EXCEPT !.new = n]

HermesProbe(s, e) ==
    LET fits == e.size <= kMaxHermesProbeBytes - s.hermes_bytes
        valid == entry_full_bounded(e, kMaxHermesProbeBytes)
    IN IF ~Regular(e) \/ s.dup THEN s
       ELSE IF s.hermes_probes >= kMaxHermesProbeEntries THEN [s EXCEPT !.hermes_exhausted = TRUE]
       ELSE IF ~e.hermes THEN [s EXCEPT !.hermes_probes = @ + 1]
       ELSE IF ~fits THEN [s EXCEPT !.hermes_probes = @ + 1, !.hermes_exhausted = TRUE, !.new.priority = 0]
       ELSE [s EXCEPT !.hermes_probes = @ + 1, !.hermes_bytes = IF valid THEN @ + e.size ELSE @, !.new.hermes = valid,
                      !.new.priority = IF ~valid THEN 0 ELSE IF @ > 99 THEN @ ELSE 99]

\* A later manifest or table replaces what was read of an earlier one.
Documents(s, e) ==
    [s EXCEPT !.manifest = IF is_manifest(e) /\ ~e.dir /\ e.head /\ entry_full_bounded(e, kMaxManifestBytes) THEN e.content_valid ELSE @,
              !.table = IF is_resources(e) /\ ~e.dir /\ e.head /\ entry_full_bounded(e, kMaxResourceTableBytes) THEN e.content_valid ELSE @]

\* The part of a list of evidence that fits under the budget.
Fit(have, more) == SubSeq(more, 1, IF kMaxJniEvidence - Len(have) < Len(more) THEN kMaxJniEvidence - Len(have) ELSE Len(more))

Labelled(e, list) == [k \in DOMAIN list |-> [entry |-> e.path, item |-> list[k]]]

\* The budget is taken before the entry has been read.
DexDeep(s, e) ==
    LET d == Labelled(e, e.declares)   l == Labelled(e, e.loads)
        whole == Fit(s.declarations, d) = d /\ Fit(s.loads, l) = l
        t == [s EXCEPT !.dex_left = @ - e.size, !.dex_count = @ + 1]
    IN IF ~(is_dex_name(e) /\ ~e.dir /\ e.head /\ Regular(e) /\ ~s.dup) THEN s
       ELSE IF e.size > kMaxDexDeepEntryBytes \/ e.size > s.dex_left \/ s.dex_count >= kMaxDexDeepEntries
       THEN [s EXCEPT !.new.dex = "SKIPPED_BUDGET"]
       ELSE IF ~entry_full_bounded(e, kMaxDexDeepEntryBytes) THEN [t EXCEPT !.new.dex = "FAILED_EXTRACTION"]
       ELSE IF ~e.content_valid THEN [t EXCEPT !.new.dex = "FAILED_DEX"]
       ELSE [t EXCEPT !.declarations = @ \o Fit(@, d), !.loads = @ \o Fit(@, l),
                      !.new.dex = IF e.complete /\ whole THEN "DEX_VALID" ELSE "PARTIAL"]

\* Registrations are looked for where the machine is the one the path names.
NativeDeep(s, e) ==
    LET x == [k \in DOMAIN e.exports |-> [entry |-> e.path, item |-> e.exports[k], abi_ok |-> e.abi_ok]]
        r == IF e.abi_ok THEN Labelled(e, e.registers) ELSE <<>>
        t == [s EXCEPT !.native_left = @ - e.size]
    IN IF ~(is_native_library_path(e) /\ ~e.dir /\ e.head /\ Regular(e) /\ ~s.dup) THEN s
       ELSE IF e.size > kMaxNativeDeepEntryBytes \/ e.size > s.native_left THEN [s EXCEPT !.new.native = "SKIPPED_BUDGET"]
       ELSE IF ~entry_full_bounded(e, kMaxNativeDeepEntryBytes) THEN [t EXCEPT !.new.native = "FAILED_EXTRACTION"]
       ELSE IF ~e.content_valid THEN [t EXCEPT !.new.native = "FAILED_ELF"]
       ELSE [t EXCEPT !.exports = @ \o Fit(@, x), !.registrations = @ \o Fit(@, r), !.new.native = "ELF_VALID",
                      !.new.limited = Fit(s.exports, x) # x \/ Fit(s.registrations, r) # r]

UnityMetadata(s, e) ==
    LET t == [s EXCEPT !.unity_count = @ + 1, !.unity_bytes = @ + e.size]
    IN IF ~(is_unity_il2cpp_metadata_resource_path(e) /\ Regular(e) /\ ~s.dup) THEN s
       ELSE IF s.unity_count >= kMaxUnityMetadataParses \/ e.size > kMaxUnityMetadataParseBytes - s.unity_bytes
          \/ e.size > kMaxUnityMetadataBytes
       THEN [s EXCEPT !.new.priority = 0]
       ELSE IF ~entry_full_bounded(e, kMaxUnityMetadataBytes) \/ ~e.content_valid THEN [t EXCEPT !.new.priority = 0]
       ELSE [t EXCEPT !.new.unity = TRUE]

\* Sums are checked before they are formed.
Account(s, e) ==
    IF ~checked_add(s.total, e.size) \/ (Regular(e) /\ ~s.dup /\ ~checked_add(s.bytes, e.size)) THEN [s EXCEPT !.error = TRUE]
    ELSE [s EXCEPT !.total = @ + e.size, !.entries = Append(@, s.new),
                   !.bytes = IF Regular(e) /\ ~s.dup THEN @ + e.size ELSE @,
                   !.files = IF Regular(e) /\ ~s.dup THEN @ + 1 ELSE @]

\* One turn of the loop over the central directory; an error ends it.
ReadEntry(x, s, e) ==
    IF s.error THEN s
    ELSE IF ~GeometryOk(x, e) THEN [s EXCEPT !.error = TRUE]
    ELSE LET w == Withdraw(s, e)
             probed == HermesProbe(Put(w, New(w, e)), e)
         IN Account(UnityMetadata(NativeDeep(DexDeep(Documents(probed, e), e), e), e), e)

Start ==
    [entries |-> <<>>, error |-> FALSE, dup |-> FALSE, new |-> 0, duplicates |-> 0, bytes |-> 0, files |-> 0, total |-> 0,
     hermes_probes |-> 0, hermes_bytes |-> 0, hermes_exhausted |-> FALSE, manifest |-> FALSE, table |-> FALSE,
     dex_left |-> kMaxDexDeepTotalBytes, dex_count |-> 0, native_left |-> kMaxNativeDeepTotalBytes, unity_count |-> 0, unity_bytes |-> 0,
     declarations |-> <<>>, loads |-> <<>>, exports |-> <<>>, registrations |-> <<>>]

\* The old engine configuration: when there is just one, the main scene and the
\* scripts it names are given a priority, when it cannot be read it loses its own.
GodotConfig(entries) ==
    LET C == {i \in DOMAIN entries : is_godot_legacy_engine_config_resource_path(entries[i].e) /\ ~entries[i].duplicate /\ Regular(entries[i].e)}
        i == CHOOSE i \in C : TRUE
        read == entry_full_bounded(entries[i].e, kMaxGodotLegacyConfigBytes) /\ entries[i].e.content_valid
        wanted(n) == IF n.duplicate \/ ~Regular(n.e) THEN 0 ELSE IF n.e.path \in entries[i].e.main THEN 89 ELSE IF n.e.path \in entries[i].e.names THEN 88 ELSE 0
    IN IF Cardinality(C) # 1 THEN entries
       ELSE IF ~read THEN [entries EXCEPT ![i].priority = 0]
       ELSE [k \in DOMAIN entries |->
               IF entries[k].priority < wanted(entries[k]) THEN [entries[k] EXCEPT !.priority = wanted(entries[k])] ELSE entries[k]]

Candidates(entries) == {i \in DOMAIN entries : Regular(entries[i].e) /\ ~entries[i].duplicate /\ entries[i].priority # 0}

eligible_dex_entry(entries, path) ==
    \E i \in DOMAIN entries : /\ entries[i].e.path = path /\ is_dex_name(entries[i].e) /\ ~entries[i].duplicate
                              /\ entries[i].e.head /\ entries[i].dex \in {"DEX_VALID", "PARTIAL"}

eligible_native_entry(entries, path) ==
    \E i \in DOMAIN entries : /\ entries[i].e.path = path /\ is_native_library_path(entries[i].e) /\ ~entries[i].duplicate
                              /\ entries[i].e.head /\ entries[i].native = "ELF_VALID"

Libraries(entries) == {i \in DOMAIN entries : is_native_library_path(entries[i].e) /\ ~entries[i].duplicate /\ entries[i].e.head}

\* An entry whose evidence is missing or cut off.
PartialEntry(n) ==
    \/ n.duplicate /\ (is_dex_name(n.e) \/ is_native_library_path(n.e))
    \/ ~n.duplicate /\ n.dex \in {"PARTIAL", "SKIPPED_BUDGET", "FAILED_EXTRACTION", "FAILED_DEX"}
    \/ ~n.duplicate /\ is_native_library_path(n.e) /\ n.e.head
       /\ (n.native \in {"SKIPPED_BUDGET", "FAILED_EXTRACTION", "FAILED_ELF"} \/ (n.native = "ELF_VALID" /\ ~n.e.complete) \/ n.limited)

Relation(kind, dex, native, item) == [kind |-> kind, dex |-> dex, native |-> native, item |-> item]

\* Which export a declaration is bound to: the long name, or the short one when
\* the class declares the method once.
jni_symbol_names(d, sym, overloaded) ==
    /\ d.ascii /\ <<sym.cls, sym.name>> = <<d.cls, d.name>>
    /\ sym.sig = d.sig \/ (sym.sig = "none" /\ ~overloaded)

Relations(s, entries) ==
    LET packaged == [k \in 1 .. Cardinality(Libraries(entries)) |->
                       Relation("PACKAGED", <<>>, entries[SetToSortSeq(Libraries(entries), <)[k]].e.path, <<>>)]
        loads == SelectSeq(s.loads, LAMBDA l : eligible_dex_entry(entries, l.entry))
        referenced(l) == SelectSeq([k \in DOMAIN packaged |-> Relation("REFERENCED", l.entry, packaged[k].native, l.item)],
                                   LAMBDA r : r.native[3] = l.item)
        declared == SelectSeq(s.declarations, LAMBDA d : eligible_dex_entry(entries, d.entry))
        overloaded(d) == Cardinality({k \in DOMAIN declared : declared[k].item.cls = d.item.cls /\ declared[k].item.name = d.item.name}) > 1
        exported(d) == SelectSeq(s.exports, LAMBDA x : eligible_native_entry(entries, x.entry) /\ x.abi_ok /\ jni_symbol_names(d.item, x.item, overloaded(d)))
        registered(d) == SelectSeq(s.registrations, LAMBDA r : /\ eligible_native_entry(entries, r.entry) /\ r.item.fde
                                      /\ <<r.item.cls, r.item.name, r.item.sig>> = <<d.item.cls, d.item.name, d.item.sig>>)
        of(d) == <<Relation("DECLARED", d.entry, <<>>, d.item)>>
                 \o [k \in DOMAIN exported(d) |-> Relation("EXPORTED", d.entry, exported(d)[k].entry, [decl |-> d.item, sym |-> exported(d)[k].item])]
                 \o [k \in DOMAIN registered(d) |-> Relation("REGISTERED", d.entry, registered(d)[k].entry, registered(d)[k].item)]
        all == packaged \o FlattenSeq([k \in DOMAIN loads |-> referenced(loads[k])]) \o FlattenSeq([k \in DOMAIN declared |-> of(declared[k])])
        partial == \/ \E i \in DOMAIN entries : PartialEntry(entries[i])
                   \/ \E k \in DOMAIN declared : ~declared[k].item.ascii
                   \/ Len(all) > kMaxRelations
    IN [list |-> SubSeq(all, 1, IF Len(all) > kMaxRelations THEN kMaxRelations ELSE Len(all)),
        state |-> IF partial THEN "PARTIAL" ELSE IF all = <<>> THEN "NOT_PRESENT" ELSE "RESOLVED"]

\* Paths that decide about the package count only if they are unique.
UniqueValid(entries, path, parsed, right) ==
    LET S == {i \in DOMAIN entries : safe_relative_name(entries[i].e) /\ entries[i].e.path = path}
    IN /\ Cardinality(S) = 1
       /\ \A i \in S : ~entries[i].duplicate /\ i \in right /\ entries[i].e.head /\ entry_full_bounded(entries[i].e, entries[i].e.size) /\ parsed

NoPackage == [entries |-> <<>>, relations |-> [list |-> <<>>, state |-> "NOT_PRESENT"], bytes |-> 0, files |-> 0, duplicates |-> 0, hermes_count |-> 0, zip |-> FALSE]

PackageFinding(s, entries) ==
    LET manifest == UniqueValid(entries, <<"androidmanifest.xml">>, s.manifest, {i \in DOMAIN entries : is_manifest(entries[i].e)})
        payload == \/ UniqueValid(entries, <<"resources.arsc">>, s.table, {i \in DOMAIN entries : is_resources(entries[i].e)})
                   \/ Libraries(entries) # {}
                   \/ \E i \in DOMAIN entries : is_dex_name(entries[i].e) /\ ~entries[i].duplicate /\ entries[i].e.head
    IN (IF manifest /\ payload THEN Confirmed([i \in DOMAIN entries |-> range(entries[i].e.data, entries[i].e.comp)]) ELSE Failed)
       @@ [entries |-> entries, relations |-> Relations(s, entries), bytes |-> s.bytes, files |-> s.files, duplicates |-> s.duplicates,
           hermes_count |-> Cardinality({i \in DOMAIN entries : ~entries[i].duplicate /\ entries[i].hermes}), zip |-> TRUE]

WithEntries(x, s) ==
    IF ~x.zip_ok \/ s.error THEN Failed @@ [NoPackage EXCEPT !.zip = x.zip_ok] ELSE PackageFinding(s, GodotConfig(s.entries))

detect_apk(x) ==
    IF ~x.magic THEN Absent @@ NoPackage ELSE WithEntries(x, FoldLeft(LAMBDA acc, e : ReadEntry(x, acc, e), Start, x.entries))

\* Higher priorities first, then archive order; what does not fit is passed over.
Choose(entries, S, max_bytes, max_files) ==
    LET order == SetToSortSeq(S, LAMBDA i, j : entries[i].priority > entries[j].priority \/ (entries[i].priority = entries[j].priority /\ i < j))
    IN FoldLeft(LAMBDA acc, i : IF Len(acc.chosen) >= max_files \/ entries[i].e.size > max_bytes - acc.bytes THEN acc
                                ELSE [chosen |-> Append(acc.chosen, i), bytes |-> acc.bytes + entries[i].e.size],
                [chosen |-> <<>>, bytes |-> 0], order)

\* An entry is written to a temporary file that is renamed; what is there under the
\* temporary name goes first, an entry written before included.
Temporary(path) == [path EXCEPT ![Len(path)] = @ \o ".auto-refirst-part"]

Written(entries, chosen) ==
    FoldLeft(LAMBDA kept, i : {j \in kept : entries[j].e.path # Temporary(entries[i].e.path)} \cup {i}, {}, chosen)

\* An entry that cannot be written takes the whole directory with it.
extract_apk(x, info) ==
    LET hermes_only == x.analysis_only /\ ~info.valid /\ info.zip /\ info.hermes_count # 0
        all == {i \in DOMAIN info.entries : Regular(info.entries[i].e) /\ ~info.entries[i].duplicate}
        wanted == IF ~x.analysis_only THEN all
                  ELSE IF hermes_only THEN {i \in all : info.entries[i].hermes} ELSE Candidates(info.entries)
        chosen == IF x.analysis_only THEN Choose(info.entries, wanted, x.max_bytes, x.max_files).chosen ELSE SetToSortSeq(all, <)
        refused == [success |-> FALSE, files |-> <<>>, kept |-> {}, exhausted |-> TRUE, directory |-> "untouched"]
    IN IF ~info.valid /\ ~hermes_only THEN [refused EXCEPT !.exhausted = FALSE]
       ELSE IF ~x.analysis_only /\ (info.bytes > x.max_bytes \/ info.files > x.max_files) THEN refused
       ELSE IF x.analysis_only /\ chosen = <<>> /\ wanted # {} THEN refused
       ELSE IF x.write_fails \/ \E k \in DOMAIN chosen : ~info.entries[chosen[k]].e.crc_ok
       THEN [refused EXCEPT !.exhausted = Len(chosen) # Cardinality(wanted), !.directory = "removed"]
       ELSE [success |-> TRUE, files |-> chosen, kept |-> Written(info.entries, chosen), exhausted |-> Len(chosen) # Cardinality(wanted), directory |-> "filled"]

Extracted(x, info) == info @@ [extract |-> extract_apk(x, info)]

AndroidPackage(x) == Extracted(x, detect_apk(x))

\* An entry of a package; an entry that cannot be read has no header either.
Member(path, size) ==
    [path |-> path, exact |-> TRUE, control |-> FALSE, dir |-> FALSE, symlink |-> FALSE, encrypted |-> FALSE, supported |-> TRUE,
     size |-> size, comp |-> 1, central |-> 9, data |-> 2, flags |-> {}, method |-> 8, crc |-> 7, crc_ok |-> TRUE, headers_valid |-> TRUE,
     local |-> [off |-> 1, name |-> path, flags |-> {}, method |-> 8, crc |-> 7, size |-> size],
     head |-> TRUE, content_valid |-> TRUE, complete |-> TRUE, hermes |-> FALSE, names |-> {}, main |-> {},
     declares |-> <<>>, loads |-> <<>>, exports |-> <<>>, registers |-> <<>>, abi_ok |-> TRUE]

Native(cls, sig) == [cls |-> cls, name |-> "f", sig |-> sig, ascii |-> TRUE, fde |-> TRUE]

ManifestXml == Member(<<"androidmanifest.xml">>, 1)

Classes(n, declares) == [Member(<<IF n = 1 THEN "classes.dex" ELSE "classes2.dex">>, 2) EXCEPT !.declares = declares, !.loads = <<"a">>]

Library(exports) == [Member(<<"lib", "x86", "a">>, 2) EXCEPT !.exports = exports, !.registers = <<Native("C", "I")>>]

Members ==
    LET dex == Classes(1, <<Native("C", "I")>>)
        lib == Library(<<Native("C", "none"), Native("C", "I")>>)
    IN {ManifestXml, [ManifestXml EXCEPT !.exact = FALSE], [ManifestXml EXCEPT !.content_valid = FALSE],
        dex, Classes(1, <<Native("C", "I"), Native("C", "J")>>), Classes(2, <<Native("C", "J")>>), Classes(2, <<[Native("D", "I") EXCEPT !.ascii = FALSE]>>),
        [dex EXCEPT !.size = 3, !.local.size = 3], [dex EXCEPT !.content_valid = FALSE], [dex EXCEPT !.crc_ok = FALSE],
        lib, [lib EXCEPT !.abi_ok = FALSE], [lib EXCEPT !.size = 4, !.local.size = 4], [Library(<<Native("C", "none")>>) EXCEPT !.registers = <<>>],
        [Member(<<"lib", "arm", "a">>, 2) EXCEPT !.exports = <<Native("C", "J"), Native("C", "I")>>, !.complete = FALSE],
        Member(<<"resources.arsc">>, 1), Member(<<"assets", "managed", "metadata", "global-metadata.dat">>, 2),
        [Member(<<"assets", "engine.cfb">>, 1) EXCEPT !.main = {<<"assets", "main.scn">>}, !.names = {<<"assets", "main.scn">>, <<"index">>}], Member(<<"assets", "main.scn">>, 1),
        [Member(<<"index">>, 3) EXCEPT !.hermes = TRUE], [Member(<<"data.json">>, 5) EXCEPT !.hermes = TRUE],
        Member(<<"..", "x">>, 1), [Member(<<"lib">>, 1) EXCEPT !.symlink = TRUE], [dex EXCEPT !.dir = TRUE, !.head = FALSE],
        [Member(<<"assets", "data.json">>, 2) EXCEPT !.local.crc = 6], [Member(<<"assets", "data.json">>, 2) EXCEPT !.local.crc = 6, !.flags = {"descriptor"}, !.local.flags = {"descriptor"}],
        Member(<<"assets", "data.json">>, WordLimit - 2),
        Member(<<"androidmanifest.xml">>, 2), Member(<<"resources.arsc">>, 2), Member(<<"assets", "managed", "metadata", "global-metadata.dat">>, 3),
        Member(<<"res", "raw", "x">>, 1), Member(<<"meta-inf", "services", "data.json">>, 1), Member(<<"data.json">>, 2),
        Member(<<"data.json.auto-refirst-part">>, 1)}

ApkBase ==
    [part |-> "apk", size |-> 12, magic |-> TRUE, zip_ok |-> TRUE, entries |-> <<ManifestXml, Classes(1, <<Native("C", "I")>>), Library(<<Native("C", "none")>>)>>,
     analysis_only |-> TRUE, max_bytes |-> 6, max_files |-> 2, write_fails |-> FALSE]

\* A manifest, a class file and a library with up to three more entries, and
\* packages of any three entries.
ApkInput(x) ==
    \/ \E a, b \in Members, c \in {Classes(1, <<Native("C", "I")>>), Library(<<Native("C", "none")>>)}, o \in BOOLEAN :
         x = [ApkBase EXCEPT !.entries = <<ManifestXml, a, b, c>>, !.analysis_only = o, !.max_bytes = IF o THEN 6 ELSE 12, !.max_files = IF o THEN 2 ELSE 4]
    \/ \E a, b \in Members, o \in BOOLEAN : x = [ApkBase EXCEPT !.entries = <<a, b, ManifestXml>>, !.analysis_only = o]
    \/ \E a, b \in Members : x = [ApkBase EXCEPT !.entries = <<a, a, a, b>>]
    \/ IsVariant(x, ApkBase, [magic |-> {FALSE}, zip_ok |-> {FALSE}, analysis_only |-> {FALSE}, max_bytes |-> {0, 2, 5}, max_files |-> {0, 1, 3}, write_fails |-> {TRUE}])

\* Of what the package is said to be:
\*  - the counts are those of the entries that are left, however often and in
\*    whatever order paths were repeated;
\*  - a package is confirmed by one manifest and by something else that is there once;
\*  - relations are between entries that are there once, a short name is used for a
\*    method declared once, and what was left out shows in their state;
\*  - what is written was chosen, fits the budget, and is all or nothing; and it
\*    stays, unless an entry is called like the temporary file of another.
ApkExact(x, r) ==
    LET es == x.entries
        same(i) == {j \in DOMAIN es : safe_relative_name(es[j]) /\ es[j].path = es[i].path}
        once(path) == Cardinality({j \in DOMAIN es : safe_relative_name(es[j]) /\ es[j].path = path}) = 1
        left == {i \in DOMAIN es : Regular(es[i]) /\ same(i) = {i}}
        bytes(S) == SumOver(Len(es), LAMBDA i : IF i \in S THEN es[i].size ELSE 0)
        rel == r.relations.list
    IN r.state \notin {"NOT_RUN", "ABSENT"} /\ r.entries # <<>> =>
         /\ r.bytes = bytes(left) /\ r.files = Cardinality(left)
         /\ r.duplicates = Cardinality({i \in DOMAIN es : safe_relative_name(es[i]) /\ same(i) # {i}})
         /\ r.valid => /\ \E i \in DOMAIN es : same(i) = {i} /\ is_manifest(es[i]) /\ es[i].content_valid
                       /\ \E i \in DOMAIN es : same(i) = {i} /\ ~is_manifest(es[i]) /\ es[i].head
         /\ \A k \in DOMAIN rel :
              /\ rel[k].dex # <<>> => once(rel[k].dex)
              /\ rel[k].native # <<>> => once(rel[k].native)
              /\ rel[k].kind = "EXPORTED" /\ rel[k].item.sym.sig = "none" /\ r.relations.state = "RESOLVED" =>
                   Cardinality({<<i, d>> \in (DOMAIN es) \X (1 .. 3) : /\ i \in left /\ d \in DOMAIN es[i].declares
                                   /\ es[i].declares[d].cls = rel[k].item.decl.cls /\ es[i].declares[d].name = rel[k].item.decl.name}) = 1
         /\ r.relations.state = "RESOLVED" =>
              \A i \in left : /\ is_dex_name(es[i]) /\ es[i].head => es[i].content_valid /\ es[i].crc_ok
                              /\ is_native_library_path(es[i]) /\ es[i].head => es[i].content_valid /\ es[i].complete
         /\ bytes({i \in DOMAIN es : r.entries[i].dex \notin {"NOT_ATTEMPTED", "SKIPPED_BUDGET"}}) <= kMaxDexDeepTotalBytes
         /\ bytes({i \in DOMAIN es : r.entries[i].native \notin {"NOT_ATTEMPTED", "SKIPPED_BUDGET"}}) <= kMaxNativeDeepTotalBytes
         /\ r.extract.success => /\ bytes(Range(r.extract.files)) <= x.max_bytes /\ Len(r.extract.files) <= x.max_files
                                 /\ Range(r.extract.files) \subseteq left
                                 /\ \A i \in Range(r.extract.files) : es[i].crc_ok
                                 /\ \A i \in Range(r.extract.files) \ r.extract.kept :
                                      \E j \in Range(r.extract.files) : es[i].path = Temporary(es[j].path)
                                 /\ ~r.extract.exhausted /\ ~x.analysis_only => Range(r.extract.files) = left
         /\ ~r.extract.success => r.extract.files = <<>> /\ r.extract.directory # "filled"

---------------------------------------------------------------------------
(***************************************************************************)
(* Recovery of JNI registrations from the code of JNI_OnLoad: a call of    *)
(* RegisterNatives whose class, method table and count are literals, for   *)
(* x86-64 and for AArch64.  The value of a register is taken from the last *)
(* instruction in front of the call that writes it, which must dominate    *)
(* the call.  An instruction is one unit; registers are named for the      *)
(* argument they carry: cls, tab (the methods), num, env (the function     *)
(* table) and res.                                                         *)
(***************************************************************************)

Calls == {"find", "register", "call"}

Targets(ins, i) == IF ins[i].to \in DOMAIN ins THEN {ins[i].to} ELSE {}

FallsThrough(ins, i) == IF i < Len(ins) THEN {i + 1} ELSE {}

\* An indirect jump has no edges in the x86-64 graph and ends the other one; only
\* there may a call be the last instruction.
FlowComplete(x) ==
    LET ins == x.ins
    IN /\ ins # <<>>
       /\ \A i \in DOMAIN ins :
            CASE ins[i].op = "ret" -> TRUE
              [] ins[i].op = "indirect" -> x.arch = "x86_64"
              [] ins[i].op = "goto" -> Targets(ins, i) # {}
              [] ins[i].op = "if" -> Targets(ins, i) # {} /\ FallsThrough(ins, i) # {}
              [] OTHER -> FallsThrough(ins, i) # {} \/ (x.arch = "x86_64" /\ ins[i].op \in Calls)

Edges(x, i) ==
    CASE x.ins[i].op \in {"ret", "indirect"} -> {}
      [] x.ins[i].op = "goto" -> Targets(x.ins, i)
      [] x.ins[i].op = "if" -> Targets(x.ins, i) \cup FallsThrough(x.ins, i)
      [] OTHER -> FallsThrough(x.ins, i)

\* The instructions reached without passing the blocked one.
ReachedAvoiding(x, blocked) ==
    Closure({1}, LAMBDA i : Edges(x, i) \ {blocked}, Len(x.ins))

reachable(x) == ReachedAvoiding(x, 0)

jni_dominates(x, blocker, target) ==
    /\ blocker \in reachable(x) /\ target \in reachable(x)
    /\ blocker = 1 \/ blocker = target \/ target \notin ReachedAvoiding(x, blocker)

Writes(ins, i, reg) == ins[i].op \in {"literal", "table", "move", "other"} /\ ins[i].reg = reg

\* 0 when there is none.  On AArch64 a call in between has lost the register.
jni_last_writer(x, before, reg) ==
    LET W == {i \in 1 .. before - 1 : Writes(x.ins, i, reg)}
        C == {i \in 1 .. before - 1 : x.ins[i].op \in Calls}
        last(S) == IF S = {} THEN 0 ELSE CHOOSE i \in S : \A j \in S : j <= i
    IN IF x.arch = "aarch64" /\ last(C) > last(W) THEN 0 ELSE last(W)

\* The function table of an interface call is loaded from the environment.
interface_call(x, i, op) ==
    /\ x.ins[i].op = op
    /\ LET t == jni_last_writer(x, i, "env") IN t # 0 /\ x.ins[t].op = "table"

\* On x86-64 the class is moved right after the call that found it, on AArch64
\* the nearest earlier call counts.
find_call(x, w) ==
    IF x.arch = "x86_64" THEN IF w > 1 /\ interface_call(x, w - 1, "find") THEN w - 1 ELSE 0
    ELSE LET C == {i \in 1 .. w - 1 : i \in reachable(x) /\ interface_call(x, i, "find")}
         IN IF C = {} THEN 0 ELSE CHOOSE i \in C : \A j \in C : j <= i

\* Who wrote the arguments of the call, and of the call that found the class.
RegistrationBy(x, call, tab, num, cls, find, lit) ==
    LET required == {tab, num, cls, jni_last_writer(x, call, "env"), find, jni_last_writer(x, find, "env"), lit}
    IN [ok |-> /\ interface_call(x, call, "register") /\ call \in reachable(x)
               /\ tab # 0 /\ num # 0 /\ cls # 0 /\ x.ins[cls].op = "move" /\ find # 0 /\ lit # 0
               /\ \A w \in required : jni_dominates(x, w, call)
               /\ x.arch = "aarch64" => jni_dominates(x, lit, find)
               /\ \A w \in {tab, num, lit} : x.ins[w].op = "literal"
               /\ x.ins[num].val # 0,
        tab |-> IF tab = 0 THEN 0 ELSE x.ins[tab].val, num |-> IF num = 0 THEN 0 ELSE x.ins[num].val,
        lit |-> IF lit = 0 THEN 0 ELSE x.ins[lit].val]

WithFind(x, call, cls, find) ==
    RegistrationBy(x, call, jni_last_writer(x, call, "tab"), jni_last_writer(x, call, "num"), cls, find,
                   IF find = 0 THEN 0 ELSE jni_last_writer(x, find, "cls"))

WithClass(x, call, cls) == WithFind(x, call, cls, IF cls = 0 THEN 0 ELSE find_call(x, cls))

Registration(x, call) == WithClass(x, call, jni_last_writer(x, call, "cls"))

\* Rows are read until one is not a row; text that is not modified UTF-8 also
\* limits the result.
RowsRead(x, r) ==
    LET rows == x.tables[r.tab]
        stop == FirstWhere(r.num, LAMBDA i : i > Len(rows) \/ rows[i] # "row")
    IN [n |-> IF stop = 0 THEN r.num ELSE stop - 1,
        limited |-> stop # 0 /\ stop <= Len(rows) /\ rows[stop] = "bad_text"]

AddRows(s, call, r, read) ==
    LET room == kMaxEvidence - Len(s.rows)
    IN [rows |-> s.rows \o [i \in 1 .. (IF read.n <= room THEN read.n ELSE room) |-> [call |-> call, cls |-> r.lit, tab |-> r.tab, row |-> i]],
        limited |-> s.limited \/ read.limited \/ read.n > room, done |-> read.n > room]

AddRegistration(x, s, call, r) ==
    IF s.done \/ ~r.ok THEN s
    ELSE IF r.num > kMaxRows \/ x.names[r.lit] = "bad_text" THEN [s EXCEPT !.limited = TRUE]
    ELSE IF x.names[r.lit] = "bad_name" THEN s
    ELSE AddRows(s, call, r, RowsRead(x, r))

AddCall(x, s, call) == AddRegistration(x, s, call, Registration(x, call))

\* Without a symbol, its frame or a complete graph there is nothing to say.
NativesFinding(s) == (IF s.limited THEN Partial(<<>>) ELSE IF s.rows = <<>> THEN Absent ELSE Confirmed(<<>>)) @@ [rows |-> s.rows]

recover_register_natives(x) ==
    LET none == [rows |-> <<>>, limited |-> FALSE, done |-> FALSE]
    IN NativesFinding(IF ~x.elf_ok \/ ~x.onload THEN none
                      ELSE IF Len(x.ins) > kMaxInstructions THEN [none EXCEPT !.limited = TRUE]
                      ELSE IF ~FlowComplete(x) THEN none
                      ELSE FoldLeft(LAMBDA acc, call : AddCall(x, acc, call), none, [i \in DOMAIN x.ins |-> i]))

Op(op) == [op |-> op, reg |-> "none", val |-> 0, to |-> 0]

Literal(reg, val) == [Op("literal") EXCEPT !.reg = reg, !.val = val]

TableLoad == [Op("table") EXCEPT !.reg = "env"]

Move == [Op("move") EXCEPT !.reg = "cls"]

Jump(op, to) == [Op(op) EXCEPT !.to = to]

\* Find the class, then register; with the table loaded again after the call.
Usual == <<TableLoad, Literal("cls", 1), Op("find"), Move, TableLoad, Literal("tab", 1), Literal("num", 2), Op("register"), Op("ret")>>

NativeBase ==
    [part |-> "natives", size |-> 0, arch |-> "x86_64", elf_ok |-> TRUE, onload |-> TRUE, ins |-> Usual,
     names |-> <<"name", "name">>, tables |-> <<<<"row", "row">>, <<"row", "row", "row", "row">>>>]

\* The usual code with one instruction replaced, one inserted and jumps over it.
NativeInputs ==
    LET base == {[NativeBase EXCEPT !.arch = a] : a \in {"x86_64", "aarch64"}}
        edits == {Literal("tab", 2), Literal("num", 3), Literal("num", 4), Literal("cls", 2), Op("call"), Op("ret"), Op("indirect"),
                  [Op("other") EXCEPT !.reg = "env"], [Op("other") EXCEPT !.reg = "tab"]} \cup {Jump(o, t) : o \in {"goto", "if"}, t \in {1, 4, 6, 8, 10}}
        streams == {[Usual EXCEPT ![i] = e] : i \in DOMAIN Usual, e \in edits}
                   \cup {InsertAt(Usual, i, e) : i \in DOMAIN Usual, e \in edits}
                   \cup {<<TableLoad, Literal("cls", 1), Literal("tab", 1), Literal("num", 2), Op("find"), Move, TableLoad, Op("register"), Op("ret")>>}
    IN {[b EXCEPT !.ins = s] : b \in base, s \in streams \cup {Usual}}
       \cup {[b EXCEPT !.names = n] : b \in base, n \in {<<"bad_text", "name">>, <<"bad_name", "name">>}}
       \cup {[b EXCEPT !.tables = <<t, t>>] : b \in base, t \in {<<"row">>, <<"row", "bad_text">>, <<"row", "bad">>}}
       \cup {[b EXCEPT !.elf_ok = FALSE] : b \in base} \cup {[b EXCEPT !.onload = FALSE] : b \in base}
       \cup {[b EXCEPT !.ins = Usual \o <<Op("ret"), Op("ret"), Op("ret")>>] : b \in base}
       \cup {[b EXCEPT !.ins = Front(Usual) \o Tail(Usual)] : b \in base}

\* The registers when an instruction is reached.  A call leaves its result and
\* spoils the rest (0).
States(x) ==
    LET after(s) ==
            LET i == x.ins[s.at]
            IN CASE i.op = "literal" -> [s EXCEPT ![i.reg] = i.val]
                 [] i.op = "move" -> [s EXCEPT !.cls = s.res]
                 [] i.op = "other" -> [s EXCEPT ![i.reg] = 0]
                 [] i.op \in Calls -> [s EXCEPT !.res = IF i.op = "find" THEN s.cls ELSE 0, !.cls = 0, !.tab = 0, !.num = 0]
                 [] OTHER -> s
        next(s) == {[after(s) EXCEPT !.at = j] : j \in Edges(x, s.at)}
    IN Closure({[at |-> 1, cls |-> 0, tab |-> 0, num |-> 0, res |-> 0, env |-> 0]}, next, Len(x.ins))

Forward(x) == \A i \in DOMAIN x.ins : x.ins[i].op \in {"goto", "if"} => x.ins[i].to > i

\* No call comes between a literal or a found class and its use: the scan does not
\* look for one on x86-64, and on AArch64 not between FindClass and the move.
Kept(x) ==
    \A i, j \in DOMAIN x.ins :
        i > j /\ x.ins[i].op \in Calls =>
            IF x.arch = "x86_64" THEN x.ins[j].op = "literal" => x.ins[j].reg = "cls"
            ELSE x.ins[j].op = "find" => \A k \in DOMAIN x.ins : x.ins[k].op = "move" => k < i

\* What is reported of a call is in its registers on every path to it, when no
\* jump goes back and no call separates a literal from its use; rows belong to
\* a table within its budget, and a cut shows in the state.
NativesExact(x, r) ==
    r.state # "NOT_RUN" =>
        /\ r.rows # <<>> /\ Forward(x) /\ Kept(x) =>
              \A s \in States(x) : \A k \in DOMAIN r.rows :
                  s.at = r.rows[k].call => s.cls = r.rows[k].cls /\ s.tab = r.rows[k].tab /\ s.num >= r.rows[k].row
        /\ \A k \in DOMAIN r.rows : x.tables[r.rows[k].tab][r.rows[k].row] = "row" /\ r.rows[k].row <= kMaxRows
        /\ Len(r.rows) <= kMaxEvidence
        /\ r.state = "ABSENT" => r.rows = <<>>
=============================================================================
