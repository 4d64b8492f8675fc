------------------------------ MODULE PeSurfaces ------------------------------
(***************************************************************************)
(* Readings of a PE image that point somewhere: code that writes slots of  *)
(* the import table or executable bytes (detect/native_hook_surface.cpp),  *)
(* images made to be loaded by something else than the system loader       *)
(* (detect/pe_loader_surface.cpp), the native part of a .NET image         *)
(* (extract/readytorun.cpp), the methods and calls that lead out of its    *)
(* managed part (extract/dotnet_boundary.cpp), and the tail of the         *)
(* registration of Unity metadata (extract/unity_registration_profile.cpp).*)
(*                                                                         *)
(* What can be decoded at an offset of the file is given (code): the       *)
(* length of an instruction, whether it transfers control, and its memory  *)
(* operands.  The sites that are named are addresses, not file offsets.    *)
(***************************************************************************)
EXTENDS Words, TLC

CONSTANTS MaxFunctionBytes,   \* length of a function that is decoded
          MaxDecoded,         \* instructions decoded of a function
          kMaxHookFunctions,  \* functions inspected
          kMaxSites,          \* addresses and names listed
          kMaxBlocks,         \* blocks of base relocations read
          EntryWindow,        \* bytes read behind the entry point
          LowImports,         \* imports that count as few
          kMaxApis,           \* resolver functions listed
          kMaxSections,       \* sections of the native part
          kRangeCap,          \* and those a finding names
          kMaxAlwaysInit,     \* usages initialised with a Unity image
          kDependencyCap, kBridgeMethodCap, kMethodRanges   \* calls, methods and ranges listed of a .NET image

\* Words of 32 bits end here.
RvaLimit == 255

ImageBase == 100

LowerNames == ("KERNEL32.dll" :> "kernel32.dll") @@ ("LoadLibraryA" :> "loadlibrarya") @@ ("GetProcAddress" :> "getprocaddress") @@ ("VirtualProtect" :> "virtualprotect")
              @@ ("VirtualFree" :> "virtualfree") @@ (".TEXT" :> ".text")

lower_ascii(name) == IF name \in DOMAIN LowerNames THEN LowerNames[name] ELSE name

\* ---------------------------------------------------------------- the image

Span(s) == IF s.vsize > s.raw THEN s.vsize ELSE s.raw

Holds(s, rva) == s.rva <= rva /\ rva < s.rva + Span(s)

\* The first section that holds an address.
SectionOf(x, rva) == FirstWhere(Len(x.sections), LAMBDA k : Holds(x.sections[k], rva))

Backed(x, s, rva) == IF rva - s.rva < s.raw /\ s.at + rva - s.rva < x.size THEN s.at + rva - s.rva ELSE Bad

\* Where an address is in the file: the first section that holds it decides.
rva_offset(x, rva) ==
    IF rva < x.headers /\ rva < x.size THEN rva
    ELSE IF SectionOf(x, rva) = 0 THEN Bad
    ELSE Backed(x, x.sections[SectionOf(x, rva)], rva)

executable_rva(x, rva) == SectionOf(x, rva) # 0 /\ x.sections[SectionOf(x, rva)].exec

\* ---------------------------------------------------------------- decoding

Undecodable == [len |-> 0, op |-> "bad", mem |-> <<>>]

Code(x, off) == IF off - x.code_at + 1 \in DOMAIN x.code THEN x.code[off - x.code_at + 1] ELSE [len |-> 1, op |-> "other", mem |-> <<>>]

\* An instruction that would be longer than what is left is none.
decode_one(x, rva, limit) ==
    LET off == rva_offset(x, rva)
        i == IF off = Bad THEN Undecodable ELSE Code(x, off)
    IN IF i.len > limit \/ off + i.len > x.size THEN Undecodable ELSE i

DecodeNext(x, s, end) ==
    LET i == decode_one(x, s.cursor, end - s.cursor)
    IN IF s.cursor >= end \/ i.len = 0 THEN s
       ELSE [cursor |-> s.cursor + i.len, out |-> Append(s.out, i @@ [rva |-> s.cursor])]

\* Decoding stops at what is no instruction and keeps what came before.
decode_range(x, begin, end) ==
    IF end <= begin \/ end - begin > MaxFunctionBytes THEN <<>>
    ELSE FoldLeft(LAMBDA s, n : DecodeNext(x, s, end), [cursor |-> begin, out |-> <<>>], [n \in 1 .. MaxDecoded |-> n]).out

\* Without function boundaries: from the entry point to the end of what its
\* executable section has in the file, a window at most; Bad if there is none.
entry_window(x) ==
    LET k == FirstWhere(Len(x.sections), LAMBDA n : x.sections[n].exec /\ Holds(x.sections[n], x.entry))
        s == x.sections[k]
        delta == x.entry - s.rva
        bounded == Min({s.raw - delta, EntryWindow, x.size - (s.at + delta)})
    IN IF x.entry = 0 \/ k = 0 THEN Bad
       ELSE IF delta >= s.raw \/ s.at + delta >= x.size \/ x.entry + bounded > RvaLimit THEN Bad
       ELSE x.entry + bounded

\* The address an operand stands for; registers and indices are not followed.
OperandVa(x, i, m) ==
    IF m.index \/ ~m.disp_present THEN Bad
    ELSE IF m.base = "rip" /\ x.pe64 THEN ImageBase + i.rva + i.len + m.disp
    ELSE IF m.base = "none" THEN m.disp ELSE Bad

\* That of the first operand that stands for an address in the image.
memory_rva(x, i) ==
    LET k == FirstWhere(Len(i.mem), LAMBDA n : OperandVa(x, i, i.mem[n]) \in ImageBase .. ImageBase + RvaLimit)
    IN IF k = 0 THEN Bad ELSE OperandVa(x, i, i.mem[k]) - ImageBase

\* ---------------------------------------------------------------- import slots

import_label(m, f) == [module |-> m.module, name |-> IF f.by_ordinal THEN "#ordinal" ELSE f.name]

ModuleSlots(x, m) ==
    LET stride == IF x.pe64 THEN 8 ELSE 4
        fits == {n \in DOMAIN m.functions : m.iat # 0 /\ m.iat + (n - 1) * stride <= RvaLimit}
    IN [slot \in {m.iat + (n - 1) * stride : n \in fits} |-> import_label(m, m.functions[((slot - m.iat) \div stride) + 1])]

\* A slot that two tables share belongs to the first.
import_slots(x) == FoldLeft(LAMBDA slots, m : slots @@ ModuleSlots(x, m), <<>>, x.imports)

bridge_api(name) ==
    lower_ascii(name) \in {"virtualprotect", "virtualprotectex", "ntprotectvirtualmemory", "zwprotectvirtualmemory", "writeprocessmemory", "ntwritevirtualmemory",
                           "zwwritevirtualmemory", "getprocaddress", "ldrgetprocedureaddress", "flushinstructioncache", "loadlibrarya", "loadlibraryw"}

\* ---------------------------------------------------------------- one function

NoHit == [iat_writes |-> <<>>, iat_targets |-> {}, executable_writes |-> <<>>, bridge_apis |-> {}, bridge_rvas |-> <<>>]

Writes(hit) == hit.iat_writes # <<>> \/ hit.executable_writes # <<>>

\* Every memory operand of an instruction counts, for the address memory_rva has.
InspectOperand(x, slots, hit, i, m, target) ==
    CASE m.writes /\ target \in DOMAIN slots -> [hit EXCEPT !.iat_writes = Append(@, i.rva), !.iat_targets = @ \cup {slots[target]}]
      [] m.writes /\ target \notin DOMAIN slots /\ target # Bad /\ executable_rva(x, target) -> [hit EXCEPT !.executable_writes = Append(@, i.rva)]
      [] ~m.writes /\ i.op \in {"call", "jmp"} /\ target \in DOMAIN slots /\ bridge_api(slots[target].name) ->
           [hit EXCEPT !.bridge_rvas = Append(@, i.rva), !.bridge_apis = @ \cup {slots[target].name}]
      [] OTHER -> hit

InspectInstruction(x, slots, hit, i) == FoldLeft(LAMBDA h, m : InspectOperand(x, slots, h, i, m, memory_rva(x, i)), hit, i.mem)

inspect_function(x, slots, begin, end) ==
    IF DOMAIN slots = {} THEN NoHit
    ELSE FoldLeft(LAMBDA h, i : InspectInstruction(x, slots, h, i), NoHit, decode_range(x, begin, end))

\* ---------------------------------------------------------------- the hook surface

NoHooks == [candidate |-> FALSE, entry_window |-> FALSE, function_count |-> 0, iat_write_count |-> 0, executable_write_count |-> 0, bridge_call_count |-> 0,
            iat_targets |-> <<>>, bridge_apis |-> <<>>, write_rvas |-> <<>>, bridge_call_rvas |-> <<>>, state |-> "none", variant |-> "none"]

AtMost(seq, n) == SubSeq(seq, 1, Min({Len(seq), n}))

\* Lists are cut, counts are not; names are listed once.
AddNew(seq, names) == AtMost(seq \o SetToSeq(names \ Range(seq)), kMaxSites)

AddHit(out, hit) ==
    [out EXCEPT !.iat_write_count = @ + Len(hit.iat_writes), !.executable_write_count = @ + Len(hit.executable_writes), !.bridge_call_count = @ + Len(hit.bridge_rvas),
                !.write_rvas = AtMost(@ \o hit.iat_writes \o hit.executable_writes, kMaxSites), !.bridge_call_rvas = AtMost(@ \o hit.bridge_rvas, kMaxSites),
                !.iat_targets = AddNew(@, hit.iat_targets), !.bridge_apis = AddNew(@, hit.bridge_apis)]

Variant(out) ==
    IF out.iat_write_count # 0 /\ out.executable_write_count # 0 /\ out.bridge_call_count # 0 THEN "iat-and-executable-write-with-loader-bridge"
    ELSE (IF out.iat_write_count # 0 THEN "iat-slot-write" ELSE "executable-range-write") \o (IF out.bridge_call_count # 0 THEN "-with-loader-bridge" ELSE "")

Judged(out) ==
    IF out.iat_write_count = 0 /\ out.executable_write_count = 0 THEN out
    ELSE [out EXCEPT !.candidate = TRUE, !.variant = Variant(out), !.state = IF out.bridge_call_count # 0 THEN "LIKELY" ELSE "SUSPECTED"]

Collected(out, hits) == Judged(FoldLeft(AddHit, out, SelectSeq(hits, Writes)))

\* The functions of the exception directory, or else one window at the entry.
analyze_native_hook_surface(x) ==
    LET slots == import_slots(x)
        fs == AtMost(SelectSeq(x.runtime, LAMBDA f : f.end > f.begin), kMaxHookFunctions)
        end == entry_window(x)
    IN CASE ~x.valid \/ x.imports = <<>> \/ x.size = 0 -> NoHooks
         [] x.valid /\ x.imports # <<>> /\ x.size # 0 ->
              IF x.runtime # <<>> THEN Collected([NoHooks EXCEPT !.function_count = Len(fs)], [n \in DOMAIN fs |-> inspect_function(x, slots, fs[n].begin, fs[n].end)])
              ELSE IF end = Bad THEN NoHooks
              ELSE Collected([NoHooks EXCEPT !.function_count = 1, !.entry_window = TRUE], <<inspect_function(x, slots, x.entry, end)>>)

PatchScope(info) ==
    IF info.iat_write_count = 0 THEN "EXECUTABLE_RANGE" ELSE IF info.executable_write_count = 0 THEN "IAT_SLOT" ELSE "IAT_AND_EXECUTABLE_RANGE"

native_hook_surface_finding(info) ==
    info @@ [valid |-> info.candidate, ranges |-> <<>>, patch_scope |-> IF info.candidate THEN PatchScope(info) ELSE "none",
             sites |-> IF info.candidate THEN info.write_rvas \o info.bridge_call_rvas ELSE <<>>]

HookSurface(x) == native_hook_surface_finding(analyze_native_hook_surface(x))

\* ---------------------------------------------------------------- the loader surface

resolver_api(name) ==
    lower_ascii(name) \in {"loadlibrarya", "loadlibraryw", "loadlibraryexa", "loadlibraryexw", "getprocaddress", "ldrloaddll", "ldrgetprocedureaddress", "virtualalloc",
                           "virtualallocex", "virtualprotect", "virtualprotectex", "virtualfree", "ntallocatevirtualmemory", "ntprotectvirtualmemory"}

\* Names that begin like the usual code section are usual.
ordinary_code_section(name) == lower_ascii(name) \in {".text", ".text1", "code"}

le32(x, off) == IF off + 4 <= x.size /\ off \in DOMAIN x.words THEN x.words[off] ELSE 0

Refused(s) == [s EXCEPT !.refused = TRUE]

\* One block: its size is even, holds its header and does not leave the directory.
ReadBlock(x, s, end) ==
    LET size == le32(x, s.cursor + 4)
    IN IF s.refused \/ s.cursor >= end THEN s
       ELSE IF end - s.cursor < 8 \/ size < 8 \/ size % 2 = 1 \/ size > end - s.cursor THEN Refused(s)
       ELSE [s EXCEPT !.blocks = @ + 1, !.entries = @ + (size - 8) \div 2, !.cursor = @ + size, !.refused = s.blocks + 1 > kMaxBlocks]

\* Blocks read before a refusal stay counted.
validate_relocations(x) ==
    LET r == x.relocations
        start == rva_offset(x, r.rva)
        s == FoldLeft(LAMBDA t, n : ReadBlock(x, t, start + r.size), [cursor |-> start, blocks |-> 0, entries |-> 0, refused |-> FALSE], [n \in 1 .. kMaxBlocks + 1 |-> n])
    IN IF ~r.present \/ start = Bad \/ r.size < 8 \/ r.size > x.size - start THEN [valid |-> FALSE, blocks |-> 0, entries |-> 0]
       ELSE [valid |-> ~s.refused /\ s.blocks # 0 /\ s.cursor = start + r.size, blocks |-> s.blocks, entries |-> s.entries]

Resolvers(m) == SelectSeq(m.functions, LAMBDA f : ~f.by_ordinal /\ f.name # "" /\ resolver_api(f.name))

Sizes(seqs) == FoldLeft(LAMBDA n, s : n + Len(s), 0, seqs)

NoLoader == [candidate |-> FALSE, state |-> "ABSENT", variant |-> "none", categories |-> 0, import_functions |-> 0, resolver_api_count |-> 0, resolver_module_count |-> 0,
             resolver_apis |-> <<>>, geometry |-> FALSE, blocks |-> 0, entries |-> 0, altered_entry |-> FALSE, writable_entry |-> FALSE, valid |-> FALSE, ranges |-> <<>>]

\* What the loader would be told of the image.
LoaderFacts(x) ==
    LET found == [n \in DOMAIN x.imports |-> Resolvers(x.imports[n])]
        geometry == validate_relocations(x)
        k == SectionOf(x, x.entry)
        wx == k # 0 /\ x.sections[k].exec /\ x.sections[k].writable
        labels == FlattenSeq([n \in DOMAIN found |-> [j \in DOMAIN found[n] |-> <<x.imports[n].module, found[n][j].name>>]])
    IN [NoLoader EXCEPT !.import_functions = Sizes([n \in DOMAIN x.imports |-> x.imports[n].functions]), !.resolver_api_count = Sizes(found),
                        !.resolver_module_count = Cardinality({lower_ascii(x.imports[n].module) : n \in {m \in DOMAIN found : found[m] # <<>>}}),
                        !.resolver_apis = AtMost(labels, kMaxApis), !.geometry = geometry.valid, !.blocks = geometry.blocks, !.entries = geometry.entries,
                        !.writable_entry = wx, !.altered_entry = wx \/ (k # 0 /\ ~ordinary_code_section(x.sections[k].name))]

\* Resolver functions or code before the entry, together with facts that say how
\* the image is to be mapped; a relocation directory alone says nothing.
Candidate(x, f) ==
    \/ f.resolver_api_count # 0 /\ f.geometry /\ f.import_functions <= LowImports
    \/ x.tls # 0 /\ f.altered_entry /\ (f.geometry \/ f.resolver_api_count # 0)

Categories(x, f) ==
    Cardinality({n \in 1 .. 5 : <<f.resolver_api_count # 0, f.geometry, x.tls # 0, f.altered_entry, f.import_functions <= LowImports>>[n]})

JudgedLoader(x, f) ==
    LET candidate == Candidate(x, f)
        n == Categories(x, f)
    IN [f EXCEPT !.candidate = candidate, !.valid = candidate, !.categories = n,
                 !.state = IF ~candidate THEN "ABSENT" ELSE IF n >= 4 /\ (x.tls # 0 \/ f.writable_entry) THEN "LIKELY" ELSE "SUSPECTED",
                 !.variant = IF ~candidate THEN "none" ELSE IF x.tls # 0 /\ f.altered_entry /\ x.relocations.present THEN "tls-altered-entry-relocation-surface"
                             ELSE "resolver-relocation-low-import-surface"]

analyze_pe_loader_surface(x) == IF ~x.valid THEN NoLoader ELSE JudgedLoader(x, LoaderFacts(x))

\* The addresses a reader is pointed to.
pe_loader_surface_finding(x, info) ==
    info @@ [sites |-> (IF x.entry # 0 THEN {x.entry} ELSE {}) \cup (IF info.geometry THEN {x.relocations.rva} ELSE {})]

LoaderSurface(x) == pe_loader_surface_finding(x, analyze_pe_loader_surface(x))

\* ---------------------------------------------------------------- inputs

Mem(base, disp, writes) == [base |-> base, index |-> FALSE, disp_present |-> TRUE, disp |-> disp, writes |-> writes]

At(rva, writes) == Mem("none", ImageBase + rva, writes)

Through(base, writes) == [Mem(base, 0, writes) EXCEPT !.disp_present = FALSE]

Ins(len, op, mem) == [len |-> len, op |-> op, mem |-> mem]

Plain == Ins(1, "other", <<>>)

Put(rva) == Ins(1, "other", <<At(rva, TRUE)>>)

CallAt(rva) == Ins(1, "call", <<At(rva, FALSE)>>)

CodeAlts == {Put(48), Put(44), Put(52), Put(12), Put(32), Put(72), CallAt(56), CallAt(48), Ins(1, "jmp", <<At(40, FALSE)>>), Ins(1, "other", <<At(40, FALSE)>>), Ins(1, "call", <<[At(40, FALSE) EXCEPT !.index = TRUE]>>),
             Ins(1, "other", <<Mem("rip", 28, TRUE)>>), Ins(2, "other", <<Mem("rip", 24, TRUE)>>), Ins(1, "other", <<Mem("rip", -120, TRUE)>>), Ins(1, "other", <<Through("reg", TRUE), Through("reg", FALSE)>>),
             Ins(3, "other", <<At(40, TRUE)>>), Undecodable}

PairAlts == {Put(40), Put(14), CallAt(40), Undecodable}

Function(name) == [name |-> name, by_ordinal |-> FALSE]

Ordinal == [name |-> "", by_ordinal |-> TRUE]

Kernel(iat) == [module |-> "KERNEL32.dll", iat |-> iat, functions |-> <<Function("VirtualProtect"), Ordinal, Function("GetTickCount")>>]

Text == [name |-> ".text", rva |-> 10, vsize |-> 20, raw |-> 20, at |-> 30, exec |-> TRUE, writable |-> FALSE]

Data == [name |-> ".data", rva |-> 40, vsize |-> 40, raw |-> 30, at |-> 52, exec |-> FALSE, writable |-> TRUE]

HookBase == [part |-> "hooks", size |-> 90, valid |-> TRUE, pe64 |-> TRUE, headers |-> 5, entry |-> 12, imports |-> <<Kernel(40)>>, sections |-> <<Text, Data>>,
             runtime |-> <<[begin |-> 10, end |-> 14], [begin |-> 14, end |-> 17]>>, code_at |-> 30, code |-> <<Put(40), CallAt(40), Plain, Put(12), Put(48), Plain, CallAt(40)>>]

HookAlt == [valid |-> {FALSE}, size |-> {0, 31, 36}, pe64 |-> {FALSE}, headers |-> {0, 12, 90}, entry |-> {0, 10, 16, 29, 40},
            imports |-> {<<>>, <<Kernel(0)>>, <<Kernel(240), Kernel(40)>>, <<Kernel(48), Kernel(40)>>, <<[Kernel(40) EXCEPT !.functions = <<>>]>>},
            sections |-> {<<>>, <<[Text EXCEPT !.raw = 4], Data>>, <<[Text EXCEPT !.exec = FALSE], Data>>, <<[Data EXCEPT !.rva = 20, !.vsize = 10, !.raw = 3], Text, Data>>, <<[Text EXCEPT !.at = 95], Data>>},
            runtime |-> {<<>>, <<[begin |-> 14, end |-> 14]>>, <<[begin |-> 17, end |-> 14], [begin |-> 11, end |-> 13]>>, <<[begin |-> 10, end |-> 14], [begin |-> 10, end |-> 14]>>,
                         [n \in 1 .. 4 |-> [begin |-> 9 + n, end |-> 10 + n]], <<[begin |-> 10, end |-> 28]>>, <<[begin |-> 10, end |-> 19]>>},
            code |-> {<<Put(40), Put(40), Put(48), Put(12), Put(12)>>, <<CallAt(40), CallAt(40), CallAt(40), Plain, Put(22), CallAt(40)>>, <<CallAt(48), Put(22), Plain>>}]

Block(size, n) == (24 + 8 * n) :> size

LoaderBase == [part |-> "loader", size |-> 80, valid |-> TRUE, headers |-> 40, entry |-> 45, tls |-> 1, sections |-> <<[Text EXCEPT !.rva = 45, !.name = ".UPX0"]>>,
               imports |-> <<[module |-> "KERNEL32.dll", functions |-> <<Function("LoadLibraryA"), Ordinal>>], [module |-> "kernel32.dll", functions |-> <<Function("GetProcAddress"), Function("GetTickCount")>>]>>,
               relocations |-> [present |-> TRUE, rva |-> 20, size |-> 20], words |-> (24 :> 12) @@ (36 :> 8)]

LoaderAlt == [valid |-> {FALSE}, size |-> {0, 30, 40}, headers |-> {0, 20}, entry |-> {0, 50, 70}, tls |-> {0, 3},
              sections |-> {<<>>, <<[Text EXCEPT !.rva = 45]>>, <<[Text EXCEPT !.rva = 45, !.name = ".TEXT"]>>, <<[Text EXCEPT !.rva = 45, !.writable = TRUE]>>, <<[Data EXCEPT !.rva = 20], [Text EXCEPT !.rva = 45]>>,
                            <<[Text EXCEPT !.rva = 45, !.name = ".UPX0", !.exec = FALSE, !.writable = TRUE]>>},
              imports |-> {<<>>, <<[module |-> "USER32.dll", functions |-> <<Function("MessageBoxA"), Ordinal>>]>>,
                           <<[module |-> "KERNEL32.dll", functions |-> <<Function("VirtualFree"), Function("VirtualProtect"), Function("GetTickCount"), Function("Sleep"), Function("ExitProcess")>>]>>},
              relocations |-> {[present |-> FALSE, rva |-> 0, size |-> 0], [present |-> TRUE, rva |-> 20, size |-> 8], [present |-> TRUE, rva |-> 20, size |-> 12], [present |-> TRUE, rva |-> 20, size |-> 7],
                               [present |-> TRUE, rva |-> 20, size |-> 21], [present |-> TRUE, rva |-> 20, size |-> 28], [present |-> TRUE, rva |-> 20, size |-> 61], [present |-> TRUE, rva |-> 200, size |-> 20]},
              words |-> {24 :> 20, (24 :> 8) @@ (32 :> 12), (24 :> 8) @@ (32 :> 8) @@ (40 :> 8), (24 :> 8) @@ (32 :> 8) @@ (40 :> 12), (24 :> 12) @@ (36 :> 10), (24 :> 13) @@ (37 :> 8), (24 :> 6) @@ (30 :> 8), (24 :> 12) @@ (36 :> 0), <<>>}]

SurfaceInput(x) ==
    \/ IsVariant(x, HookBase, HookAlt)
    \/ \E n, m \in DOMAIN HookBase.code, i \in CodeAlts, j \in PairAlts, pe64 \in BOOLEAN : x = [HookBase EXCEPT !.code[n] = i, !.code[m] = j, !.pe64 = pe64]

\* ---------------------------------------------------------------- reference

\* Bytes of the file in an executable section.
InCode(x, a) == \E s \in Range(x.sections) : s.exec /\ a - s.rva \in 0 .. s.raw - 1 /\ s.at + a - s.rva < x.size

\* The functions that are looked at, or the window behind the entry.
Looked(x) ==
    LET fs == SelectSeq(x.runtime, LAMBDA f : f.begin < f.end)
    IN IF x.runtime # <<>> THEN {fs[n] : n \in {m \in DOMAIN fs : m <= kMaxHookFunctions}}
       ELSE LET ends == {e \in x.entry + 1 .. x.entry + EntryWindow : \A a \in x.entry .. e - 1 : InCode(x, a)}
            IN IF x.entry = 0 \/ ends = {} THEN {} ELSE {[begin |-> x.entry, end |-> Max(ends)]}

\* The addresses where the instructions of a function begin: one after the other
\* until something is no instruction or would run over the end.
Starts(x, f) ==
    LET len(a) == Code(x, rva_offset(x, a)).len
        fits(a) == a < f.end /\ rva_offset(x, a) # Bad /\ len(a) # 0 /\ a + len(a) <= f.end /\ rva_offset(x, a) + len(a) <= x.size
        next(a) == IF fits(a) THEN {a + len(a)} ELSE {}
    IN IF f.end - f.begin > MaxFunctionBytes THEN {} ELSE {a \in Closure({f.begin}, next, MaxDecoded - 1) : fits(a)}

Image(x, a, op) == IF op.base = "none" THEN op.disp - ImageBase ELSE a + Code(x, rva_offset(x, a)).len + op.disp

\* The operands of the instruction at an address that stand for an address in
\* the image, written or read.
Operands(x, a, writes) ==
    {Image(x, a, op) : op \in {o \in Range(Code(x, rva_offset(x, a)).mem) : o.writes = writes /\ o.disp_present /\ ~o.index /\ (o.base = "none" \/ (o.base = "rip" /\ x.pe64))}} \cap 0 .. RvaLimit

\* The entry of the import tables an address is a slot of, the first that has it.
SlotNames(x, a) ==
    LET ptr == IF x.pe64 THEN 8 ELSE 4
        k == FirstWhere(Len(x.imports), LAMBDA n : x.imports[n].iat # 0 /\ a \in {x.imports[n].iat + ptr * j : j \in 0 .. Len(x.imports[n].functions) - 1})
    IN IF k = 0 THEN {} ELSE {x.imports[k].functions[(a - x.imports[k].iat) \div ptr + 1]}

SlotWrites(x, starts) == {a \in starts : \E t \in Operands(x, a, TRUE) : SlotNames(x, t) # {}}

CodeWrites(x, starts) == {a \in starts : \E t \in Operands(x, a, TRUE) : SlotNames(x, t) = {} /\ \E s \in Range(x.sections) : s.exec /\ Holds(s, t) /\ ~\E o \in Range(x.sections) : Holds(o, t) /\ ~o.exec}

Bridges(x, starts) ==
    {a \in starts : Code(x, rva_offset(x, a)).op \in {"call", "jmp"} /\ \E t \in Operands(x, a, FALSE) : \E g \in SlotNames(x, t) : ~g.by_ordinal /\ bridge_api(g.name)}

HasSlots(x) == \E m \in Range(x.imports) : m.iat # 0 /\ m.functions # <<>>

Found(x, starts) == [slots |-> SlotWrites(x, starts), codes |-> CodeWrites(x, starts), bridges |-> Bridges(x, starts)]

\* A call that reaches a loader function counts only together with a write in
\* its function.
Recorded(founds) ==
    LET writing == {h \in founds : h.slots \cup h.codes # {}}
    IN [slots |-> UNION {h.slots : h \in writing}, codes |-> UNION {h.codes : h \in writing}, bridges |-> UNION {h.bridges : h \in writing}]

\* The addresses of the instructions are what is counted, each in one function;
\* the lists are parts of the same sets, whole if they are not cut.
HooksAre(x, r, h) ==
    LET writes == h.slots \cup h.codes
        once == IsInjective(SelectSeq(x.runtime, LAMBDA f : f.begin < f.end))
    IN /\ r.candidate <=> writes # {}
       /\ r.state = IF writes = {} THEN "none" ELSE IF h.bridges # {} THEN "LIKELY" ELSE "SUSPECTED"
       /\ Range(r.sites) \subseteq writes \cup h.bridges
       /\ r.candidate /\ once => /\ r.iat_write_count = Cardinality(h.slots) /\ r.executable_write_count = Cardinality(h.codes) /\ r.bridge_call_count = Cardinality(h.bridges)
                                 /\ (r.iat_write_count + r.executable_write_count <= kMaxSites => Range(r.write_rvas) = writes)
                                 /\ Len(r.write_rvas) = Min({kMaxSites, Cardinality(h.slots) + Cardinality(h.codes)})
       /\ r.entry_window => x.runtime = <<>>

\* The surface is what a reading of the functions from their beginnings finds.
HookExact(x, r) == HooksAre(x, r, Recorded({Found(x, Starts(x, f)) : f \in IF x.valid /\ x.size # 0 /\ HasSlots(x) THEN Looked(x) ELSE {}}))

\* The ends of blocks that follow each other from the beginning of the directory.
Cuts(x, start, end) ==
    LET size(a) == le32(x, a + 4)
        next(a) == IF a + 8 <= end /\ size(a) >= 8 /\ size(a) % 2 = 0 /\ a + size(a) <= end THEN {a + size(a)} ELSE {}
    IN Closure({start}, next, x.size)

\* The geometry is valid if blocks tile the directory: then what is not header is
\* entries.  Relocations alone, or a resolver import alone, are no candidate, and
\* of four facts only those with code before or in the entry count as likely.
LoaderExact(x, r) ==
    LET start == rva_offset(x, x.relocations.rva)
        end == start + x.relocations.size
        cuts == Cuts(x, start, end)
        tiled == x.valid /\ x.relocations.present /\ start # Bad /\ end <= x.size /\ x.relocations.size >= 8 /\ end \in cuts /\ Cardinality(cuts) - 1 <= kMaxBlocks
        named == {f \in UNION {Range(m.functions) : m \in Range(x.imports)} : f.name \in {"LoadLibraryA", "GetProcAddress", "VirtualProtect", "VirtualFree"}}
    IN /\ r.geometry <=> tiled
       /\ r.geometry => r.blocks = Cardinality(cuts) - 1 /\ 2 * r.entries = x.relocations.size - 8 * r.blocks
       /\ r.candidate => x.valid /\ (named # {} \/ x.tls # 0) /\ (r.geometry \/ r.altered_entry)
       /\ r.state = "LIKELY" => r.candidate /\ (x.tls # 0 \/ r.writable_entry) /\ Cardinality({n \in 1 .. 3 : <<named # {}, tiled, r.altered_entry>>[n]}) >= 2
       /\ r.resolver_module_count <= r.resolver_api_count /\ r.resolver_api_count <= r.import_functions
---------------------------------------------------------------------------
(* The native part of a .NET image: its header is looked for in the         *)
(* directory of the CLI header, then behind an export, then by its          *)
(* signature; the sections it lists must be sorted, backed by the file and  *)
(* disjoint.  The CLI header is two long, the fixed part of the header and  *)
(* a row of its table one.                                                  *)

\* The first place in the file that backs a range of addresses, or Bad.
rva_to_file(x, rva, size) ==
    LET fits(s) == /\ rva >= s.rva /\ rva - s.rva <= s.raw /\ size <= s.raw - (rva - s.rva)
                   /\ checked_add(s.off, rva - s.rva) /\ span_in_bounds(x.size, s.off + (rva - s.rva), size)
        n == FirstWhere(Len(x.sections), LAMBDA i : fits(x.sections[i]))
    IN IF size = 0 THEN Bad ELSE
       IF rva < x.headers /\ rva + size <= x.headers /\ span_in_bounds(x.size, rva, size) THEN rva ELSE
       IF n = 0 THEN Bad ELSE x.sections[n].off + (rva - x.sections[n].rva)

NoHeader(error) == [at |-> Bad, room |-> 0, source |-> "", error |-> error]

Located(at, room, source) == [at |-> at, room |-> room, source |-> source, error |-> FALSE]

managed_native_location(x) ==
    LET cli == rva_to_file(x, x.clr.rva, 1)
        at == rva_to_file(x, x.clr.native, 1)
    IN CASE ~x.clr.present -> NoHeader(FALSE)
         [] cli = Bad \/ ~span_in_bounds(x.size, cli, 2) -> NoHeader(TRUE)
         [] x.clr.native = 0 /\ x.clr.size = 0 -> NoHeader(FALSE)
         [] x.clr.native = 0 \/ x.clr.size = 0 \/ at = Bad -> NoHeader(TRUE)
         [] OTHER -> Located(at, x.clr.size, "CLI")

export_location(x) ==
    LET n == FirstWhere(Len(x.exports), LAMBDA i : x.exports[i].header /\ ~x.exports[i].forwarded /\ x.exports[i].rva # 0)
        at == rva_to_file(x, x.exports[n].rva, 1)
    IN IF n = 0 THEN NoHeader(FALSE) ELSE IF at = Bad THEN NoHeader(TRUE) ELSE Located(at, 0, "EXPORT")

InImage(x, o) == \E i \in DOMAIN x.sections : o >= x.sections[i].off /\ o - x.sections[i].off < x.sections[i].raw

unique_magic_location(x) ==
    LET found == {o \in DOMAIN x.heads : x.heads[o].magic /\ o < x.size /\ InImage(x, o)}
    IN IF ~x.clr.present \/ Cardinality(found) # 1 THEN NoHeader(FALSE) ELSE Located(CHOOSE o \in found : TRUE, 0, "SCAN")

\* A place that is wrong ends the search, a place that is not there does not.
OrElse(a, b) == IF a.at # Bad \/ a.error THEN a ELSE b

Location(x) == OrElse(managed_native_location(x), OrElse(export_location(x), unique_magic_location(x)))

HeaderAt(x, loc) ==
    LET h == x.heads[loc.at]
        rows == h.rows
        off(i) == rva_to_file(x, rows[i].rva, rows[i].size)
        ranges == [i \in 1 .. h.count |-> range(off(i), rows[i].size)]
        good == /\ span_in_bounds(x.size, loc.at, 1) /\ h.magic /\ h.major /\ h.count \in 1 .. kMaxSections
                /\ span_in_bounds(x.size, loc.at, 1 + h.count) /\ (loc.room # 0 => 1 + h.count <= loc.room)
                /\ \A i \in 1 .. h.count : off(i) # Bad /\ (i > 1 => rows[i].type > rows[i - 1].type)
                /\ ~NeighboursOverlap(ranges)
    IN CASE loc.at = Bad -> IF loc.error THEN Failed ELSE Absent
         [] loc.at \notin DOMAIN x.heads -> Failed
         [] ~good -> Failed
         [] OTHER -> [state |-> IF loc.source = "SCAN" THEN "LIKELY" ELSE "CONFIRMED", valid |-> TRUE,
                      ranges |-> <<range(loc.at, 1 + h.count)>> \o ranges]

detect_ready_to_run(x) == HeaderAt(x, Location(x))

\* The finding names the header and the first of the sections only.
ready_to_run_finding(info) ==
    IF info.valid /\ Len(info.ranges) > 1 + kRangeCap THEN [info EXCEPT !.ranges = SubSeq(@, 1, 1 + kRangeCap)] ELSE info

-----------------------------------------------------------------------------
(* Inputs *)

Row(type, rva, size) == [type |-> type, rva |-> rva, size |-> size]

RtrHead == [magic |-> TRUE, major |-> TRUE, count |-> 2, rows |-> <<Row(1, 9, 2), Row(2, 16, 2), Row(3, 18, 1), Row(4, 7, 1)>>]

Sec(rva, off, raw) == [rva |-> rva, off |-> off, raw |-> raw]

R2rBase ==
    [part |-> "r2r", size |-> 16, headers |-> 2, sections |-> <<Sec(4, 2, 8), Sec(16, 10, 4)>>,
     clr |-> [present |-> TRUE, rva |-> 4, native |-> 5, size |-> 3], exports |-> <<[header |-> TRUE, forwarded |-> FALSE, rva |-> 5]>>,
     heads |-> (3 :> RtrHead)]

R2rAlt ==
    [size |-> {5, 6, 8, 12, 13}, headers |-> {0, 8, 20}, sections |-> {<<Sec(4, 2, 8)>>, <<Sec(4, 2, 3), Sec(16, 10, 4)>>, <<Sec(16, 8, 4), Sec(4, 2, 8)>>, <<Sec(4, 2, 8), Sec(16, 63, 4)>>, <<>>},
     clr |-> {[R2rBase.clr EXCEPT ![f] = v] : <<f, v>> \in {"rva"} \X {0, 1, 9, 11, 12, 20} \cup {"native"} \X {0, 6, 12} \cup {"size"} \X {0, 2, 9} \cup {<<"present", FALSE>>}}
             \cup {[R2rBase.clr EXCEPT !.native = 0, !.size = 0]},
     exports |-> {<<>>, <<[header |-> TRUE, forwarded |-> TRUE, rva |-> 6]>>, <<[header |-> TRUE, forwarded |-> FALSE, rva |-> 14]>>, <<[header |-> TRUE, forwarded |-> FALSE, rva |-> 6]>>, <<[header |-> FALSE, forwarded |-> FALSE, rva |-> 5]>>},
     heads |-> {(3 :> [RtrHead EXCEPT ![f] = v]) : <<f, v>> \in {"count"} \X {0, 1, 3, kMaxSections + 1} \cup {<<"magic", FALSE>>, <<"major", FALSE>>}}
               \cup {(3 :> [RtrHead EXCEPT !.rows[2] = r]) : r \in {Row(1, 16, 2), Row(2, 10, 1), Row(2, 16, 0), Row(2, 16, 5), Row(2, 19, 2), Row(2, 30, 1), Row(2, 0, 1), Row(2, 16, 63)}}
               \cup {(3 :> RtrHead @@ 12 :> RtrHead), (3 :> RtrHead @@ 4 :> [RtrHead EXCEPT !.count = 1]), (1 :> RtrHead), <<>>}]

-----------------------------------------------------------------------------
(* What the results mean *)

\* The sections of a valid header lie one behind the other in parts of the
\* image, at the distance of their addresses, and do not overlap.  Only a
\* header that the image points to is confirmed; one found by its signature is
\* the only one in the image.
R2rExact(x, r) ==
    r.valid =>
        LET h == x.heads[r.ranges[1].off]
            backed(row, f) == \/ f.off = row.rva /\ row.rva + row.size <= x.headers
                              \/ \E i \in DOMAIN x.sections : LET s == x.sections[i] IN
                                    f.off - s.off = row.rva - s.rva /\ row.rva >= s.rva /\ row.rva + row.size <= s.rva + s.raw
        IN /\ Len(r.ranges) - 1 = IF h.count > kRangeCap THEN kRangeCap ELSE h.count
           /\ \A i \in 1 .. Len(r.ranges) - 1 : backed(h.rows[i], r.ranges[i + 1])
           /\ Disjoint(Tail(r.ranges)) /\ \A i, j \in 1 .. h.count : i < j => h.rows[i].type < h.rows[j].type
           /\ r.state = "CONFIRMED" => \E rva \in {x.clr.native} \cup {x.exports[i].rva : i \in DOMAIN x.exports} : rva_to_file(x, rva, 1) = r.ranges[1].off
           /\ r.state = "LIKELY" => \A o \in DOMAIN x.heads : x.heads[o].magic /\ InImage(x, o) /\ o < x.size => o = r.ranges[1].off

\* ---------------------------------------------------------------- the tail of a Unity registration

ChannelRank == [a |-> 0, b |-> 1, c |-> 2, f |-> 3, p |-> 4, x |-> 5]

\* A version of the engine is <<major, minor, patch, channel, number>>.
unity_version_at_least(v, w) ==
    LET part(u, i) == IF i = 4 THEN ChannelRank[u[4]] ELSE u[i]
        k == FirstWhere(5, LAMBDA i : part(v, i) # part(w, i))
    IN k = 0 \/ part(v, k) > part(w, k)

\* What the engine's version says of the layout; versions 106 and 107 only, and
\* only if the version is known.
unity_metadata_registration_engine_hint(version, engine) ==
    IF version \notin {106, 107} \/ engine = <<>> THEN "none"
    ELSE IF unity_version_at_least(engine, IF version = 106 THEN <<6000, 6, 0, "a", 6>> ELSE <<6000, 6, 0, "a", 0>>) THEN "106.1" ELSE "106"

Layout(state, variant, roles, always) == [state |-> state, variant |-> variant, roles |-> roles, always |-> always]

Unsettled(state) == Layout(state, "106|106.1", 8, FALSE)

decide_unity_metadata_registration_profile(version, tail, hint) ==
    CASE version \notin 23 .. 108 -> Layout("UNSUPPORTED", "none", 0, FALSE)
      [] version = 108 -> Layout("RESOLVED", "108", 7, TRUE)
      [] version \in 23 .. 105 -> Layout("RESOLVED", "declared", 8, FALSE)
      [] version \in {106, 107} /\ hint = "106" -> IF tail = "StrongExtended" THEN Unsettled("CONFLICT") ELSE Layout("RESOLVED", "106", 8, FALSE)
      [] version \in {106, 107} /\ hint = "106.1" -> IF tail \in {"StrongExtended", "ZeroPair"} THEN Layout("RESOLVED", "106.1", 9, TRUE) ELSE Unsettled("INVALID")
      [] OTHER -> CASE tail = "NotFileBacked" -> Layout("RESOLVED", "106", 8, FALSE)
                    [] tail = "StrongExtended" -> Layout("RESOLVED", "106.1", 9, TRUE)
                    [] OTHER -> Unsettled("AMBIGUOUS")

\* An encoded usage: three bits of kind, the index, and a low bit that is set.
UsageKindUnit == 64

UsageLimit == 8 * UsageKindUnit

decode_unity_metadata_usage(e) ==
    LET raw == e \div UsageKindUnit
    IN [kind |-> IF raw > 1 THEN raw + 1 ELSE raw, index |-> (e % UsageKindUnit) \div 2, valid |-> e % 2 = 1 /\ raw # 0 /\ raw <= 6]

unity_validate_1061_always_init_encoded_slots(encoded, types) ==
    encoded # <<>> /\ \A e \in Range(encoded) : LET u == decode_unity_metadata_usage(e) IN u.valid /\ u.kind = 1 /\ u.index < types

read_qword(x, off) == IF span_in_bounds(x.size, off, 8) /\ off \in DOMAIN x.qwords THEN x.qwords[off] ELSE 0

mapped_offset(x, va) ==
    LET r == va - ImageBase
    IN IF r < 0 THEN Bad
       ELSE IF r < x.headers THEN (IF r < x.size THEN r ELSE Bad)
       ELSE IF SectionOf(x, r) = 0 THEN Bad ELSE Backed(x, x.sections[SectionOf(x, r)], r)

\* The first section that has the first byte in the file has to have them all.
mapped_span_local(x, va, size) ==
    LET r == va - ImageBase
        k == FirstWhere(Len(x.sections), LAMBDA n : r - x.sections[n].rva \in 0 .. x.sections[n].raw - 1)
        delta == r - x.sections[k].rva
    IN /\ r >= 0
       /\ IF r < x.headers THEN span_in_bounds(x.size, r, size) /\ size <= x.headers - r
          ELSE k # 0 /\ size <= x.sections[k].raw - delta /\ span_in_bounds(x.size, x.sections[k].at + delta, size)

\* A slot is aligned storage in a writable section, not yet initialised.
SlotOffset(x, va) ==
    LET k == SectionOf(x, va - ImageBase)
        at == mapped_offset(x, va)
    IN IF va % 8 # 0 \/ k = 0 \/ ~mapped_span_local(x, va, 8) \/ at = Bad THEN Bad
       ELSE IF ~x.sections[k].writable \/ read_qword(x, at) >= UsageLimit THEN Bad ELSE at

TailEvidence(evidence, ranges) == [evidence |-> evidence, ranges |-> ranges]

SlotEvidence(x, slots) ==
    IF Bad \in Range(slots) \/ ~unity_validate_1061_always_init_encoded_slots([i \in DOMAIN slots |-> read_qword(x, slots[i])], x.types) THEN TailEvidence("Unresolved", <<>>)
    ELSE TailEvidence("StrongExtended", [i \in DOMAIN slots |-> range(slots[i], 8)])

\* A count and a pointer to as many pointers to slots.
PairEvidence(x, count, pointer) ==
    LET table == mapped_offset(x, pointer)
    IN CASE count = 0 /\ pointer = 0 -> TailEvidence("ZeroPair", <<>>)
         [] count \in 1 .. kMaxAlwaysInit /\ pointer # 0 /\ mapped_span_local(x, pointer, count * 8) /\ table # Bad ->
              SlotEvidence(x, [i \in 1 .. count |-> SlotOffset(x, read_qword(x, table + (i - 1) * 8))])
         [] OTHER -> TailEvidence("Unresolved", <<>>)

probe_unity_metadata_registration_tail(x) ==
    LET at == mapped_offset(x, x.tail)
    IN IF ~mapped_span_local(x, x.tail, 16) THEN TailEvidence("NotFileBacked", <<>>)
       ELSE IF at = Bad THEN TailEvidence("Unresolved", <<>>) ELSE PairEvidence(x, read_qword(x, at), read_qword(x, at + 8))

Settled(layout) == layout @@ [valid |-> layout.state = "RESOLVED"]

LayoutFrom(x, tail) ==
    Settled(tail @@ decide_unity_metadata_registration_profile(x.version, tail.evidence, unity_metadata_registration_engine_hint(x.version, x.engine)))

\* The tail is looked at for the two versions that may have one.
RegistrationLayout(x) ==
    LayoutFrom(x, IF x.version \in {106, 107} THEN probe_unity_metadata_registration_tail(x) ELSE TailEvidence("NotApplicable", <<>>))

\* ---------------------------------------------------------------- the boundary of a .NET image

\* Names of modules that load the runtime itself.
loader_module(name) == lower_ascii(name) \in {"mscoree.dll", "mscoree", "clr.dll", "coreclr.dll", "hostfxr.dll", "hostpolicy.dll"}

\* A range within what its section has in the file; headers are no section.
range_file_backed(x, rva, size) ==
    LET start == rva_offset(x, rva)
        k == SectionOf(x, rva)
        delta == rva - x.sections[k].rva
    IN IF start = Bad \/ k = 0 THEN Bad
       ELSE IF size > x.size - start \/ delta > x.sections[k].raw \/ size > x.sections[k].raw - delta THEN Bad ELSE start

NoBoundary ==
    [dependencies |-> 0, bridges |-> <<>>, truncated |-> FALSE, pinvoke |-> 0, suspicious |-> 0, unmapped |-> 0, geometry |-> 0, zero |-> 0,
     native |-> 0, runtime |-> 0, ranges |-> <<>>]

add_dependency(s) == IF s.dependencies >= kDependencyCap THEN [s EXCEPT !.truncated = TRUE] ELSE [s EXCEPT !.dependencies = @ + 1]

AddBridge(s, state) == IF Len(s.bridges) >= kBridgeMethodCap THEN [s EXCEPT !.truncated = TRUE] ELSE [s EXCEPT !.bridges = Append(@, state)]

AddRange(s, at) == IF Len(s.ranges) >= kMethodRanges THEN s ELSE [s EXCEPT !.ranges = Append(@, range(at, 1))]

\* What the declaration says: imported from where, implemented how.
Declared(s, m) ==
    LET t == [s EXCEPT !.pinvoke = @ + (IF m.pinvoke THEN 1 ELSE 0), !.native = @ + (IF m.impl = 1 THEN 1 ELSE 0), !.runtime = @ + (IF m.impl = 3 THEN 1 ELSE 0)]
    IN IF m.pinvoke /\ m.module THEN add_dependency(t) ELSE t

ExternallyDefined(m) == m.pinvoke \/ m.abstract \/ m.internal \/ m.impl = 3

\* What became of its body; a range is kept only with a bridge that is.
Body(x, s, m) ==
    LET at == rva_offset(x, m.rva)
        bridged == AddBridge(s, IF at = Bad THEN "METHOD_RVA_UNMAPPED" ELSE "METHOD_BODY_GEOMETRY_INVALID")
    IN CASE m.rva = 0 /\ ~ExternallyDefined(m) /\ m.impl \in {0, 2} -> [AddBridge(s, "METHOD_RVA_ABSENT_SUSPICIOUS") EXCEPT !.suspicious = @ + 1]
         [] m.rva # 0 /\ ~m.backed /\ at = Bad -> [bridged EXCEPT !.unmapped = @ + 1]
         [] m.rva # 0 /\ ~m.backed /\ at # Bad -> [(IF Len(s.bridges) < kBridgeMethodCap THEN AddRange(bridged, at) ELSE bridged) EXCEPT !.geometry = @ + 1]
         [] m.rva # 0 /\ m.backed /\ m.code = 0 -> [s EXCEPT !.zero = @ + 1]
         [] OTHER -> s

NativeFunctions(x) == SelectSeq(x.imports, LAMBDA i : i.module # "" /\ ~loader_module(i.module))

ImportCount(x) == SumOver(Len(NativeFunctions(x)), LAMBDA k : NativeFunctions(x)[k].functions)

\* The header is read again once its range has been checked.
ClrWord(x, at, off, parsed) == IF at # Bad /\ x.clr.size >= 24 /\ at + 24 <= x.size THEN le32(x, at + off) ELSE parsed

Judgement(state, kind) == [state |-> state, kind |-> kind, valid |-> state \in {"CONFIRMED", "LIKELY"}]

JudgedBoundary(x, s, at, native, entry) ==
    CASE at = Bad -> Judgement("FAILED", "UNRESOLVED_BOUNDARY")
      [] at # Bad /\ native -> Judgement(IF rva_offset(x, entry) # Bad /\ executable_rva(x, entry) /\ x.dotnet THEN "CONFIRMED" ELSE "PARTIAL", "MIXED_NATIVE_MANAGED_BOUNDARY")
      [] at # Bad /\ ~native /\ x.dotnet /\ (s.pinvoke # 0 \/ NativeFunctions(x) # <<>> \/ x.exports # 0) -> Judgement("LIKELY", "MANAGED_NATIVE_DEPENDENCY_SURFACE")
      [] at # Bad /\ ~native /\ x.dotnet /\ s.pinvoke = 0 /\ NativeFunctions(x) = <<>> /\ x.exports = 0 -> Judgement("CONFIRMED", "MANAGED_ONLY_STATIC_SURFACE")
      [] OTHER -> Judgement("PARTIAL", "UNRESOLVED_BOUNDARY")

PlaceRange(off, len) == IF off = Bad THEN <<>> ELSE <<range(off, len)>>

\* The methods, then the imports, each in its order.
Counted(x, found) ==
    LET methods == FoldLeft(LAMBDA s, m : Body(x, Declared(s, m), m), [NoBoundary EXCEPT !.ranges = found], x.methods)
    IN FoldLeft(LAMBDA s, k : add_dependency(s), methods, [k \in 1 .. ImportCount(x) |-> k])

BoundaryFrom(x, at, native, entry) ==
    LET s == Counted(x, PlaceRange(at, x.clr.size) \o PlaceRange(rva_offset(x, x.entry), 1) \o (IF native THEN PlaceRange(rva_offset(x, entry), 1) ELSE <<>>))
    IN s @@ JudgedBoundary(x, s, at, native, entry)

HeaderOfClr(x, at) == BoundaryFrom(x, at, (ClrWord(x, at, 16, x.flags) \div 16) % 2 = 1, ClrWord(x, at, 20, x.native))

analyze_dotnet_boundary(x) ==
    IF ~x.valid \/ ~x.clr.present THEN NoBoundary @@ Judgement("ABSENT", "none") ELSE HeaderOfClr(x, range_file_backed(x, x.clr.rva, x.clr.size))

\* ---------------------------------------------------------------- their inputs and references

Storage(writable, rva, raw, at) == [name |-> ".data", rva |-> rva, vsize |-> raw, raw |-> raw, at |-> at, exec |-> FALSE, writable |-> writable]

Usage(kind, index, low) == kind * 64 + index * 2 + low

\* The pair at 24, the table at 40, the slots in the section behind.
Qwords(count, pointer, first, second, one, two) ==
    (24 :> count) @@ (32 :> pointer) @@ (40 :> first) @@ (48 :> second) @@ (80 :> one) @@ (88 :> two)

TailWords == Qwords(2, 140, 184, 192, Usage(1, 2, 1), Usage(1, 0, 1))

UnityBase ==
    [part |-> "unityreg", size |-> 96, headers |-> 8, version |-> 106, engine |-> <<>>, types |-> 3, tail |-> 124,
     sections |-> <<Storage(FALSE, 20, 36, 20), Storage(TRUE, 84, 16, 80)>>, qwords |-> TailWords]

UnityAlt ==
    [size |-> {30, 39, 52, 95}, version |-> {22, 23, 105, 107, 108, 109},
     engine |-> {<<6000, 6, 0, "a", 6>>, <<6000, 6, 0, "a", 5>>, <<6000, 6, 0, "b", 1>>, <<6000, 5, 9, "f", 9>>, <<6000, 6, 1, "a", 0>>, <<2022, 9, 0, "x", 9>>, <<6001, 0, 0, "a", 0>>},
     types |-> {0, 2}, tail |-> {0, 99, 104, 140, 148, 184, 250}, headers |-> {24, 48, 60},
     sections |-> {<<Storage(TRUE, 20, 36, 20)>>, <<Storage(FALSE, 20, 36, 20), Storage(FALSE, 84, 16, 80)>>, <<[Storage(FALSE, 16, 4, 0) EXCEPT !.vsize = 80], Storage(FALSE, 20, 36, 20), Storage(TRUE, 84, 16, 80)>>,
                   <<Storage(FALSE, 20, 36, 20), [Storage(TRUE, 80, 2, 60) EXCEPT !.vsize = 30], Storage(TRUE, 84, 16, 80)>>, <<Storage(FALSE, 20, 36, 20), Storage(TRUE, 84, 15, 80)>>},
     qwords |-> {Qwords(0, 0, 0, 0, 0, 0), Qwords(0, 140, 184, 192, 65, 65), Qwords(2, 0, 184, 192, 65, 65), Qwords(kMaxAlwaysInit + 1, 140, 184, 192, 65, 65), Qwords(1, 140, 184, 0, 65, 0),
                 Qwords(2, 156, 184, 192, 65, 65), Qwords(2, 144, 184, 192, 65, 65)}
                \cup {Qwords(2, 140, 184, slot, Usage(1, 2, 1), Usage(1, 0, 1)) : slot \in {0, 188, 136, 200}}
                \cup {Qwords(2, 140, 184, 192, Usage(1, 2, 1), e) : e \in {0, Usage(1, 3, 1), Usage(1, 1, 0), Usage(2, 0, 1), Usage(0, 0, 1), Usage(7, 0, 1), Usage(8, 0, 1) + 65}}]

\* Where the bytes of an address are: the headers, or the section that holds it.
FileBytes(x, va, size) ==
    LET r == va - ImageBase
        k == SectionOf(x, r)
        at == IF r < x.headers THEN r ELSE r - x.sections[k].rva + x.sections[k].at
        room == IF r < x.headers THEN x.headers ELSE x.sections[k].at + x.sections[k].raw
    IN IF r >= 0 /\ (r < x.headers \/ k # 0) THEN {o \in {at} : o + size <= Min({room, x.size})} ELSE {}

\* The rest of the file is zero.
Stored(x, o) == IF o \in DOMAIN x.qwords THEN x.qwords[o] ELSE 0

NinthPair(x) == {<<Stored(x, o), Stored(x, o + 8)>> : o \in FileBytes(x, x.tail, 16)}

\* A slot holds what the runtime takes for a type of the file.
GoodSlot(x, va) ==
    /\ va % 8 = 0 /\ \E k \in DOMAIN x.sections : Holds(x.sections[k], va - ImageBase) /\ x.sections[k].writable /\ k = SectionOf(x, va - ImageBase)
    /\ \E o \in FileBytes(x, va, 8) : Stored(x, o) \in {2 * i + 65 : i \in 0 .. x.types - 1}

StrongTail(x) ==
    \E p \in NinthPair(x) : \E o \in FileBytes(x, p[2], 8 * p[1]) :
        /\ p[1] \in 1 .. kMaxAlwaysInit
        /\ \A i \in 0 .. p[1] - 1 : GoodSlot(x, Stored(x, o + 8 * i))

\* The engine has the longer layout from 6000.6.0a6 on, in metadata of version
\* 107 from any 6000.6 on.
EngineExtends(x) ==
    LET v == x.engine
    IN v # <<>> /\ \/ v[1] > 6000 \/ (v[1] = 6000 /\ v[2] > 6)
                   \/ v[1] = 6000 /\ v[2] = 6 /\ (x.version = 107 \/ v[3] > 0 \/ v[4] # "a" \/ v[5] >= 6)

\* A ninth pair is taken for one only if its slots or the engine say so, and
\* nothing is settled where they disagree.
UnityExact(x, r) ==
    LET open == x.version \in {106, 107}
        strong == StrongTail(x)
        zero == <<0, 0>> \in NinthPair(x)
    IN /\ open => (r.evidence = "StrongExtended" <=> strong) /\ (r.evidence = "ZeroPair" => zero)
       /\ open /\ r.state = "RESOLVED" /\ r.variant = "106.1" => r.roles = 9 /\ r.always /\ (strong \/ (zero /\ EngineExtends(x)))
       /\ open /\ r.state = "RESOLVED" /\ r.variant = "106" => r.roles = 8 /\ ~r.always /\ ~strong /\ ~EngineExtends(x)
       /\ open /\ strong /\ x.engine # <<>> => r.state = IF EngineExtends(x) THEN "RESOLVED" ELSE "CONFLICT"
       /\ r.state # "RESOLVED" => ~r.always
       /\ ~open => r.state = (IF x.version \in 23 .. 108 THEN "RESOLVED" ELSE "UNSUPPORTED") /\ r.roles = (CASE x.version = 108 -> 7 [] x.version \in 23 .. 105 -> 8 [] OTHER -> 0)

Method(rva, backed, code) == [rva |-> rva, backed |-> backed, code |-> code, pinvoke |-> FALSE, module |-> FALSE, abstract |-> FALSE, internal |-> FALSE, impl |-> 0]

Stub(impl) == [Method(0, FALSE, 0) EXCEPT !.impl = impl]

Invoke(module) == [Method(0, FALSE, 0) EXCEPT !.pinvoke = TRUE, !.module = module]

ClrHeader(flags, entry) == (46 :> flags) @@ (50 :> entry)

ClrBase ==
    [part |-> "clr", size |-> 80, valid |-> TRUE, headers |-> 8, entry |-> 12, clr |-> [present |-> TRUE, rva |-> 10, size |-> 24],
     sections |-> <<[Text EXCEPT !.vsize = 40, !.raw = 40]>>, words |-> ClrHeader(16, 40), flags |-> 0, native |-> 0, dotnet |-> TRUE,
     methods |-> <<Method(20, TRUE, 4), Invoke(TRUE)>>, imports |-> <<>>, exports |-> 0]

ClrAlt ==
    [size |-> {35, 53, 60}, valid |-> {FALSE}, headers |-> {12, 30}, entry |-> {0, 9, 49, 60}, flags |-> {16}, native |-> {40}, dotnet |-> {FALSE},
     clr |-> {[present |-> FALSE, rva |-> 10, size |-> 24], [present |-> TRUE, rva |-> 10, size |-> 8], [present |-> TRUE, rva |-> 30, size |-> 24], [present |-> TRUE, rva |-> 4, size |-> 2], [present |-> TRUE, rva |-> 60, size |-> 2]},
     words |-> {ClrHeader(0, 40), ClrHeader(15, 40), ClrHeader(16, 70), ClrHeader(48, 4)},
     sections |-> {<<[Text EXCEPT !.vsize = 60, !.raw = 30]>>, <<[Text EXCEPT !.vsize = 40, !.raw = 40, !.exec = FALSE]>>, <<>>},
     methods |-> {<<>>, <<Stub(0), Stub(2), Stub(1), Stub(3)>>, <<[Stub(0) EXCEPT !.abstract = TRUE], [Stub(0) EXCEPT !.internal = TRUE], Invoke(FALSE)>>,
                  <<Method(20, FALSE, 0), Method(70, FALSE, 0), Method(20, TRUE, 0)>>, <<Method(20, FALSE, 0), Stub(0), Method(60, FALSE, 0), Method(49, FALSE, 0)>>,
                  <<Invoke(TRUE), Invoke(TRUE), [Invoke(TRUE) EXCEPT !.rva = 70]>>, <<Method(20, FALSE, 0), Method(21, FALSE, 0), Method(22, FALSE, 0)>>},
     imports |-> {<<[module |-> "mscoree.dll", functions |-> 2]>>, <<[module |-> "KERNEL32.dll", functions |-> 2]>>, <<[module |-> "user.dll", functions |-> 0]>>, <<[module |-> "", functions |-> 1]>>},
     exports |-> {1}]

\* A mixed image is confirmed only if the header, read from the file, sends the
\* runtime to executable bytes of the file; each method counts once, for what is
\* wrong with it, and what was left out is said to be.
ClrExact(x, r) ==
    LET runs == x.valid /\ x.clr.present
        holder(a) == {s \in Range(x.sections) : Holds(s, a)}
        byte(a) == {o \in {IF a < x.headers /\ a < x.size THEN a ELSE s.at + a - s.rva : s \in holder(a)} \cup (IF a < x.headers THEN {a} ELSE {}) :
                       o < x.size /\ ((o = a /\ a < x.headers) \/ \E s \in holder(a) : a - s.rva < s.raw)}
        header == {o \in byte(x.clr.rva) : o + x.clr.size <= x.size /\ \E s \in holder(x.clr.rva) : x.clr.rva - s.rva + x.clr.size <= s.raw}
        flags == {IF x.clr.size >= 24 THEN le32(x, o + 16) ELSE x.flags : o \in header}
        entries == {IF x.clr.size >= 24 THEN le32(x, o + 20) ELSE x.native : o \in header}
        count(P(_)) == Cardinality({i \in DOMAIN x.methods : P(x.methods[i])})
        bodyless(m) == m.rva = 0 /\ ~m.pinvoke /\ ~m.abstract /\ ~m.internal /\ m.impl \in {0, 2}
        lost(m) == m.rva # 0 /\ ~m.backed
        calls == count(LAMBDA m : m.pinvoke /\ m.module) + SumOver(Len(x.imports), LAMBDA i : IF x.imports[i].module \in {"KERNEL32.dll", "user.dll"} THEN x.imports[i].functions ELSE 0)
        bridges == count(LAMBDA m : bodyless(m) \/ lost(m))
    IN /\ r.state = "CONFIRMED" /\ r.kind = "MIXED_NATIVE_MANAGED_BOUNDARY" <=>
              runs /\ x.dotnet /\ (\E f \in flags : f \div 16 \in {1, 3}) /\ \E a \in entries : byte(a) # {} /\ \E s \in holder(a) : s.exec
       /\ runs => /\ r.suspicious = count(bodyless) /\ r.geometry = count(LAMBDA m : lost(m) /\ byte(m.rva) # {}) /\ r.unmapped = count(LAMBDA m : lost(m) /\ byte(m.rva) = {})
                  /\ Len(r.bridges) = Min({bridges, kBridgeMethodCap}) /\ r.dependencies = Min({calls, kDependencyCap})
                  /\ r.truncated <=> (bridges > kBridgeMethodCap \/ calls > kDependencyCap)
                  /\ r.state = "FAILED" <=> header = {}
                  /\ r.kind = "MANAGED_ONLY_STATIC_SURFACE" => calls = 0 /\ x.exports = 0 /\ ~\E m \in Range(x.methods) : m.pinvoke
================================================================================
