------------------------------ MODULE GdExtension ------------------------------
(***************************************************************************)
(* Native extensions of Godot (core/gdextension.cpp) and their links to    *)
(* scripts (analyze_godot_gdextensions in extract/godot.cpp): the          *)
(* descriptor, the trace of the native code that finds the registered      *)
(* classes and methods, the bundle of a descriptor with its libraries, and *)
(* the calls of scripts that lead to one registration.                     *)
(*                                                                         *)
(* Code is a sequence of instructions without jumps, as the trace reads    *)
(* it.  A constant is the text or the function it points to.  A record of  *)
(* a method has six cells: name, data, callback, pointer callback, flags,  *)
(* number of arguments.                                                    *)
(***************************************************************************)
EXTENDS Words

CONSTANTS kMaxCallDepth, kMinResolved, kMaxDescriptors, kMaxScripts, kMaxScriptBytes

Put(f, k, v) == [j \in DOMAIN f \cup {k} |-> IF j = k THEN v ELSE f[j]]

Get(f, k, none) == IF k \in DOMAIN f THEN f[k] ELSE none

Unknown == [kind |-> "unknown", v |-> ""]

Const(v) == [kind |-> "const", v |-> v]

Number(v) == [kind |-> "number", v |-> v]

Stack(v) == [kind |-> "stack", v |-> v]

Proc(v) == [kind |-> "proc", v |-> v]

Volatile == {"rcx", "rdx", "r8"}

NoPending == [api |-> "", reg |-> ""]

Registers == Volatile \cup {"rax", "rbx"}

Apis == {"string_name", "class", "method", "version"}

-----------------------------------------------------------------------------
(* The descriptor, line by line.  Lines of other sections are not read.     *)

descriptor_line(s, l) ==
    CASE s.error -> s
      [] l.kind = "section" -> IF l.ok THEN [s EXCEPT !.section = l.key] ELSE [s EXCEPT !.error = TRUE]
      [] s.section \notin {"configuration", "libraries"} -> s
      [] ~l.assigns -> [s EXCEPT !.error = TRUE]
      [] s.section = "libraries" ->
         IF ~l.ok \/ l.key \in {d.feature : d \in ToSet(s.libraries)} THEN [s EXCEPT !.error = TRUE]
         ELSE [s EXCEPT !.libraries = Append(@, [feature |-> l.key, path |-> l.value])]
      [] l.key = "entry_symbol" ->
         IF s.entry # "" \/ ~l.ok THEN [s EXCEPT !.error = TRUE] ELSE [s EXCEPT !.entry = l.value]
      [] l.key \in {"compatibility_minimum", "reloadable"} -> [s EXCEPT !.error = ~l.ok]
      [] OTHER -> s

parse_gdextension_descriptor(lines) ==
    LET end == FoldLeft(descriptor_line, [section |-> "", entry |-> "", libraries |-> <<>>, error |-> FALSE], lines)
    IN [valid |-> ~end.error /\ end.entry # "" /\ end.libraries # <<>>, entry |-> end.entry, libraries |-> end.libraries]

\* A feature names a system, an architecture, both or neither.
pe64_x64_feature_compatible(f) == f \in {"any", "windows", "x86_64", "windows.x86_64"}

-----------------------------------------------------------------------------
(* The trace of one function.                                               *)

name_for(s, v) == IF v.kind = "stack" THEN Get(s.names, v.v, "") ELSE ""

pointer(s, c) == LET v == Get(s.mem, c, Unknown) IN IF v.kind \in {"const", "number", "stack"} THEN v ELSE Unknown

\* A small number: a constant stored there, or what a vector store cleared.
scalar(s, c) ==
    LET v == Get(s.mem, c, Unknown)
    IN CASE v.kind = "number" -> v.v [] v.kind = "const" -> Bad [] c \in s.zero -> 0 [] OTHER -> Bad

executable_va(x, v) == v.kind = "const" /\ v.v \in DOMAIN x.code

\* Does a callback call through its first argument?
callback_forwards_first_arg(x, v) ==
    LET step(s, i) ==
            CASE i.op = "mov" -> [s EXCEPT !.first = IF i.s \in s.first THEN @ \cup {i.d} ELSE @ \ {i.d}]
              [] i.op \in {"lea", "imm", "num", "get", "load"} -> [s EXCEPT !.first = @ \ {i.d}]
              [] i.op = "callr" -> [hit |-> s.hit \/ i.s \in s.first, first |-> s.first \ (Volatile \cup {"rax"})]
              [] i.op \in {"callg", "call"} -> [s EXCEPT !.first = @ \ (Volatile \cup {"rax"})]
              [] OTHER -> s
    IN v.kind = "const" /\ v.v \in DOMAIN x.code
       /\ FoldLeft(step, [hit |-> FALSE, first |-> {"rcx"}], x.code[v.v]).hit

MethodInfo(x, s) ==
    LET r8 == s.regs["r8"]
        b == r8.v
        field(n) == IF r8.kind = "stack" THEN pointer(s, b + n) ELSE Unknown
        number(n) == IF r8.kind = "stack" THEN scalar(s, b + n) ELSE Bad
        class == name_for(s, s.regs["rdx"])
        method == name_for(s, field(0))
        core == /\ class # "" /\ method # "" /\ number(4) \in 0 .. 1 /\ number(5) # Bad
                /\ executable_va(x, field(2)) /\ executable_va(x, field(3))
        bridge == core /\ executable_va(x, field(1))
                  /\ (callback_forwards_first_arg(x, field(2)) \/ callback_forwards_first_arg(x, field(3)))
    IN [class |-> class, method |-> method, flags |-> number(4), target |-> IF bridge THEN field(1).v ELSE "",
        state |-> IF bridge THEN "BOUNDED" ELSE IF core THEN "EXACT" ELSE "UNRESOLVED"]

ClassInfo(s) ==
    LET class == name_for(s, s.regs["rdx"])
        base == name_for(s, s.regs["r8"])
    IN [class |-> class, state |-> IF class # "" /\ base # "" THEN "EXACT" ELSE "UNRESOLVED"]

\* After a call the arguments are gone, and the result with them.
AfterCall(s, rax) ==
    [s EXCEPT !.regs = [r \in Registers |-> IF r \in Volatile THEN Unknown ELSE IF r = "rax" THEN rax ELSE @[r]]]

Call(x, s, i, slots, resolving) ==
    LET target == CASE i.op = "callr" -> s.regs[i.s]
                    [] i.op = "callg" -> IF i.c \in DOMAIN slots THEN Proc(slots[i.c]) ELSE Unknown
                    [] OTHER -> Unknown
        rcx == s.regs["rcx"]   rdx == s.regs["rdx"]
        is(api) == target.kind = "proc" /\ target.v = api
    IN CASE resolving /\ target.kind = "unknown" /\ i.op = "callr" /\ rcx.kind = "const" /\ rcx.v \in Apis ->
              AfterCall([s EXCEPT !.pending = [api |-> rcx.v, reg |-> i.s]], Proc(rcx.v))
         [] is("string_name") ->
              AfterCall(IF rcx.kind = "stack" /\ rdx.kind = "const" THEN [s EXCEPT !.names = Put(@, rcx.v, rdx.v)] ELSE s, Unknown)
         [] ~resolving /\ is("class") -> AfterCall([s EXCEPT !.classes = Append(@, ClassInfo(s))], Unknown)
         [] ~resolving /\ is("method") -> AfterCall([s EXCEPT !.methods = Append(@, MethodInfo(x, s))], Unknown)
         [] OTHER -> AfterCall(s, Unknown)

Set(s, d, v) == [s EXCEPT !.regs[d] = v]

trace_instruction(x, s, i, slots, resolving) ==
    CASE i.op = "imm" -> Set(s, i.d, Const(i.c))
      [] i.op = "num" -> Set(s, i.d, Number(i.c))
      [] i.op = "lea" -> Set(s, i.d, Stack(s.bias + i.c))
      [] i.op = "mov" -> Set(s, i.d, s.regs[i.s])
      [] i.op = "get" -> Set(s, i.d, IF i.c \in DOMAIN slots THEN Proc(slots[i.c]) ELSE Unknown)
      [] i.op = "load" -> Set(s, i.d, Get(s.mem, s.bias + i.c, Unknown))
      [] i.op = "store" -> [s EXCEPT !.mem = Put(@, s.bias + i.c, s.regs[i.s])]
      [] i.op = "clear" -> [s EXCEPT !.zero = @ \cup (s.bias + i.c .. s.bias + i.c + 1)]
      [] i.op = "sub" -> [s EXCEPT !.bias = @ - i.c]
      [] i.op = "put" -> IF s.pending # NoPending /\ s.regs[i.s].kind = "proc" /\ s.regs[i.s].v = s.pending.api
                         THEN [s EXCEPT !.resolver = Append(@, [api |-> s.pending.api, reg |-> s.pending.reg, slot |-> i.c]),
                                        !.pending = NoPending]
                         ELSE s
      [] OTHER -> Call(x, s, i, slots, resolving)

trace_function(x, f, slots, resolving) ==
    FoldLeft(LAMBDA s, i : trace_instruction(x, s, i, slots, resolving),
             [regs |-> [r \in Registers |-> Unknown], mem |-> <<>>, names |-> <<>>, zero |-> {}, bias |-> 0,
              pending |-> NoPending, resolver |-> <<>>, classes |-> <<>>, methods |-> <<>>], x.code[f])

-----------------------------------------------------------------------------
(* The image: the resolver is the one place, reached from the entry, where  *)
(* enough functions of the engine are asked for through one register.       *)

Callees(x, f) == {i.c : i \in {j \in ToSet(x.code[f]) : j.op = "call"}} \cap DOMAIN x.code

reachable_functions(x, entry) == Closure({entry}, LAMBDA f : Callees(x, f), kMaxCallDepth)

Resolvers(x, entry) ==
    LET seen(f) == trace_function(x, f, <<>>, TRUE).resolver
        of(f, r) == SelectSeq(seen(f), LAMBDA o : o.reg = r)
    IN {c \in {[func |-> f, obs |-> of(f, r)] : f \in reachable_functions(x, entry), r \in Registers} :
            /\ Cardinality({o.api : o \in ToSet(c.obs)}) >= kMinResolved
            /\ Cardinality({o.slot : o \in ToSet(c.obs)}) >= kMinResolved}

Native(state) == [state |-> state, slots |-> <<>>, classes |-> <<>>, methods |-> <<>>]

FlatMap(S, g(_)) == FoldLeft(LAMBDA s, f : s \o g(f), <<>>, S)

TracedNative(traces, slots, methods) ==
    LET has(state) == \E i \in DOMAIN methods : methods[i].state = state
    IN [state |-> IF has("BOUNDED") THEN "BOUNDED" ELSE IF has("EXACT") THEN "EXACT" ELSE "UNRESOLVED",
        slots |-> slots, classes |-> FlatMap(traces, LAMBDA t : t.classes), methods |-> methods]

WithTraces(slots, traces) == TracedNative(traces, slots, FlatMap(traces, LAMBDA t : t.methods))

WithSlots(x, slots) == WithTraces(slots, [k \in DOMAIN x.order |-> trace_function(x, x.order[k], slots, FALSE)])

\* What the one resolver stored: the last store to a slot names its function.
WithStores(x, obs) ==
    LET twice == \E o, q \in ToSet(obs) : o.api = q.api /\ o.slot # q.slot
        last(g) == CHOOSE i \in DOMAIN obs : obs[i].slot = g /\ \A j \in DOMAIN obs : obs[j].slot = g => j <= i
    IN IF twice \/ \A o \in ToSet(obs) : o.api # "method" THEN Native("UNRESOLVED")
       ELSE WithSlots(x, [g \in {o.slot : o \in ToSet(obs)} |-> obs[last(g)].api])

WithResolvers(x, resolvers) ==
    IF Cardinality(resolvers) # 1 THEN Native("UNRESOLVED")
    ELSE WithStores(x, SelectSeq((CHOOSE c \in resolvers : TRUE).obs, LAMBDA o : o.slot \in x.writable))

analyze_gdextension_pe(x, entry) ==
    IF x.exports # 1 \/ entry \notin DOMAIN x.code THEN Native("FAILED") ELSE WithResolvers(x, Resolvers(x, entry))

\* Every library the descriptor declares, if exactly one validated child has
\* its path, is an image for this machine and of a feature that fits.
LibraryState(x, d) ==
    LET children == {c \in x.children : c.path = d.path}
        good == {c \in children : c.validated}
    IN CASE children = {} -> "MISSING" [] good = {} -> "UNVALIDATED" [] Cardinality(good) # 1 -> "AMBIGUOUS"
         [] \E c \in good : c.format # "pe64" -> "UNSUPPORTED"
         [] ~pe64_x64_feature_compatible(d.feature) -> "MISMATCH"
         [] OTHER -> "ANALYZED"

Bundle(analyzed, native) ==
    [state |-> IF analyzed /\ native.state # "FAILED" THEN native.state ELSE "UNRESOLVED", valid |-> TRUE, ranges |-> <<>>,
     native |-> IF analyzed THEN native ELSE Native("FAILED")]

analyze_gdextension_pck_bundle(x) ==
    LET desc == parse_gdextension_descriptor(x.lines)
        states == {LibraryState(x, l) : l \in ToSet(desc.libraries)}
    IN IF ~desc.valid \/ states \cap {"UNSUPPORTED", "MISMATCH", "ANALYZED"} = {} THEN Failed @@ [native |-> Native("FAILED")]
       ELSE Bundle("ANALYZED" \in states, analyze_gdextension_pe(x, desc.entry))

-----------------------------------------------------------------------------
(* Links from scripts.                                                      *)

\* The settings, one behind the other; a target that begins with a star is a
\* singleton.
project_binary_context(p) ==
    LET ok(e) == e.key_ok /\ (e.autoload => e.name # "" /\ e.string)
    IN [complete |-> p.ecfg /\ p.count = Len(p.settings) /\ \A i \in DOMAIN p.settings : ok(p.settings[i]),
        autoloads |-> {e.name : e \in {s \in ToSet(p.settings) : s.autoload /\ s.star}}]

Limited(x) ==
    \/ x.descriptors > kMaxDescriptors \/ Len(x.scripts) > kMaxScripts
    \/ SumOver(Len(x.scripts), LAMBDA i : x.scripts[i].size) > kMaxScriptBytes

ScriptRead(s) == s.compiled /\ s.validated /\ s.analysis

context_complete(x) ==
    /\ ~Limited(x) /\ Len(x.projects) = 1 /\ x.projects[1].validated /\ project_binary_context(x.projects[1]).complete
    /\ \A i \in DOMAIN x.scripts : ScriptRead(x.scripts[i])

\* A method is a match if its library registers the class once, exactly, and
\* the method is not static.
RegistrationMatches(x, call) ==
    {<<l, k>> \in UNION {{l} \X DOMAIN x.libs[l].methods : l \in DOMAIN x.libs} :
        LET lib == x.libs[l]   mth == lib.methods[k]
        IN /\ lib.valid
           /\ Cardinality({c \in DOMAIN lib.classes : lib.classes[c].state = "EXACT" /\ lib.classes[c].class = call.class}) = 1
           /\ mth.class = call.class /\ mth.method = call.method /\ mth.state \in {"EXACT", "BOUNDED"} /\ mth.flags = 0}

analyze_godot_gdextensions(x) ==
    LET calls == FlatMap(x.scripts, LAMBDA s : IF ScriptRead(s) THEN s.calls ELSE <<>>)
        globals == UNION {x.scripts[i].class_names : i \in DOMAIN x.scripts}
        autoloads == project_binary_context(x.projects[1]).autoloads
        linked(c) == c.class \notin globals \cup autoloads /\ Cardinality(RegistrationMatches(x, c)) = 1
    IN [state |-> IF context_complete(x) THEN "EXACT" ELSE "PARTIAL", valid |-> context_complete(x), ranges |-> <<>>,
        links |-> IF context_complete(x) THEN SelectSeq(calls, linked) ELSE <<>>]

-----------------------------------------------------------------------------
(* Inputs *)

I(op, d, s, c) == [op |-> op, d |-> d, s |-> s, c |-> c]

\* Asks for a function of the engine and keeps the answer.
Ask(api, slot) == <<I("imm", "rcx", "", api), I("callr", "", "rbx", ""), I("put", "", "rax", slot)>>

Naming(cell, text) == <<I("lea", "rcx", "", cell), I("imm", "rdx", "", text), I("callg", "", "", 1)>>

InitCode == <<I("mov", "rbx", "rcx", "")>> \o Ask("string_name", 1) \o Ask("class", 2) \o Ask("method", 3) \o <<I("call", "", "", "reg")>>

RegCode ==
    <<I("sub", "", "", 9)>> \o Naming(0, "Node") \o Naming(1, "run") \o Naming(2, "Base")
    \o << I("lea", "rdx", "", 0), I("lea", "r8", "", 2), I("callg", "", "", 2),
          I("lea", "rax", "", 1), I("store", "", "rax", 3), I("imm", "rax", "", "impl"), I("store", "", "rax", 4),
          I("imm", "rax", "", "cb"), I("store", "", "rax", 5), I("store", "", "rax", 6), I("clear", "", "", 7),
          I("lea", "rdx", "", 0), I("lea", "r8", "", 3), I("callg", "", "", 3) >>

Line(kind, key, value) == [kind |-> kind, key |-> key, value |-> value, ok |-> TRUE, assigns |-> TRUE]

Lines ==
    << Line("section", "configuration", ""), Line("assign", "entry_symbol", "init"), Line("assign", "reloadable", "true"),
       Line("section", "libraries", ""), Line("assign", "windows.x86_64", "a.dll"), Line("assign", "linux", "a.so") >>

Child(path) == [path |-> path, validated |-> TRUE, format |-> "pe64", n |-> 1]

ExtBase ==
    [part |-> "gdext", size |-> 1, lines |-> Lines, children |-> {Child("a.dll")}, exports |-> 1, order |-> <<"init", "reg">>,
     writable |-> {1, 2, 3, 4},
     code |-> ("init" :> InitCode @@ "reg" :> RegCode @@ "impl" :> <<>> @@
               "cb" :> <<I("mov", "rbx", "rcx", ""), I("callg", "", "", 4), I("callr", "", "rbx", "")>>)]

Without(s, n) == SubSeq(s, 1, n - 1) \o SubSeq(s, n + 1, Len(s))

With(s, n, i) == SubSeq(s, 1, n) \o <<i>> \o SubSeq(s, n + 1, Len(s))

Extras == { I("imm", "rdx", "", "Other"), I("num", "rax", "", 1), I("store", "", "rax", 3), I("store", "", "rcx", 7), I("store", "", "rdx", 5),
            I("call", "", "", "impl"), I("get", "rbx", "", 3), I("callr", "", "rbx", ""), I("lea", "r8", "", 2),
            I("load", "rdx", "", 3), I("mov", "rdx", "rcx", ""), I("sub", "", "", 1), I("callg", "", "", 2) }

\* The code with one instruction less, or one more.
CodeVariants(f) ==
    {Without(f, n) : n \in DOMAIN f} \cup {With(f, n, i) : n \in DOMAIN f, i \in Extras}

ExtInputs ==
    {[ExtBase EXCEPT !.code["reg"] = f] : f \in CodeVariants(RegCode)}
    \cup {[ExtBase EXCEPT !.code["init"] = f] : f \in {Without(InitCode, n) : n \in DOMAIN InitCode}
              \cup {InitCode \o Ask("method", 4), InitCode \o Ask("version", 3), InitCode \o Ask("version", 9)}}
    \cup {[ExtBase EXCEPT !.code["cb"] = f] : f \in CodeVariants(ExtBase.code["cb"])}
    \cup {[ExtBase EXCEPT !.code = @ @@ ("other" :> InitCode), !.code["reg"] = Append(@, I("call", "", "", "other"))]}
    \cup Variants(ExtBase,
           [exports |-> {0, 2}, writable |-> {{1, 2}, {2, 3}},
            children |-> {{}, {Child("b.dll")}, {[Child("a.dll") EXCEPT !.validated = FALSE]}, {[Child("a.dll") EXCEPT !.format = "pe32"]},
                          {Child("a.dll"), [Child("a.dll") EXCEPT !.n = 2]}, {Child("a.so")}},
            lines |-> {Without(Lines, n) : n \in DOMAIN Lines}
                      \cup {[Lines EXCEPT ![n].ok = FALSE] : n \in DOMAIN Lines} \cup {[Lines EXCEPT ![n].assigns = FALSE] : n \in DOMAIN Lines}
                      \cup {Lines \o <<Lines[5]>>, <<Lines[2]>> \o Lines, Lines \o <<Lines[1], Lines[2]>>,
                            [Lines EXCEPT ![4].key = "icons"], [Lines EXCEPT ![5].key = "macos"]}])

Script(name) ==
    [compiled |-> TRUE, validated |-> TRUE, analysis |-> TRUE, size |-> 1, class_names |-> {}, calls |-> <<[class |-> "Node", method |-> name]>>]

Setting(name) == [key_ok |-> TRUE, autoload |-> TRUE, name |-> name, string |-> TRUE, star |-> TRUE]

Project(n) == [validated |-> TRUE, ecfg |-> TRUE, count |-> n, settings |-> <<Setting("Game")>>]

Lib == [valid |-> TRUE, classes |-> <<[class |-> "Node", state |-> "EXACT"]>>,
        methods |-> <<[class |-> "Node", method |-> "run", state |-> "EXACT", flags |-> 0],
                      [class |-> "Node", method |-> "stop", state |-> "BOUNDED", flags |-> 0]>>]

LinkBase ==
    [part |-> "gdlink", size |-> 1, descriptors |-> 1, projects |-> <<Project(1)>>, libs |-> <<Lib>>,
     scripts |-> <<Script("run"), Script("stop")>>]

LinkAlt ==
    [descriptors |-> {kMaxDescriptors, kMaxDescriptors + 1},
     projects |-> {<<>>, <<Project(1), Project(1)>>, <<Project(2)>>, <<[Project(1) EXCEPT !.validated = FALSE]>>, <<[Project(1) EXCEPT !.ecfg = FALSE]>>,
                   <<[Project(1) EXCEPT !.settings = <<Setting("Node")>>]>>,
                   <<[Project(1) EXCEPT !.settings = <<[Setting("Node") EXCEPT !.star = FALSE]>>]>>,
                   <<[Project(1) EXCEPT !.settings = <<[Setting("Node") EXCEPT !.string = FALSE]>>]>>},
     libs |-> {<<Lib, Lib>>, <<>>, <<[Lib EXCEPT !.valid = FALSE]>>, <<Lib, [Lib EXCEPT !.methods = <<>>]>>,
               <<[Lib EXCEPT !.classes = @ \o @]>>, <<[Lib EXCEPT !.classes[1].state = "UNRESOLVED"]>>}
              \cup {<<[Lib EXCEPT !.methods[1] = mm]>> : mm \in {[Lib.methods[1] EXCEPT !.state = "UNRESOLVED"],
                        [Lib.methods[1] EXCEPT !.flags = 1], [Lib.methods[1] EXCEPT !.method = "stop"], [Lib.methods[1] EXCEPT !.class = "Base"]}},
     scripts |-> {<<Script("run"), [Script("stop") EXCEPT ![f] = FALSE]>> : f \in {"compiled", "validated", "analysis"}}
                 \cup {<<Script("run"), [Script("stop") EXCEPT !.class_names = {"Node"}]>>, <<Script("run"), [Script("stop") EXCEPT !.size = kMaxScriptBytes]>>,
                       <<Script("run"), Script("run"), Script("run")>>, <<Script("none"), [Script("run") EXCEPT !.class_names = {"Base"}]>>}]

-----------------------------------------------------------------------------
(* What the results mean *)

Calls == {"callr", "callg", "call"}

LastOf(S) == CHOOSE n \in S : \A k \in S : k <= n

BiasAt(f, n) == -SumOver(n - 1, LAMBDA j : IF f[j].op = "sub" THEN f[j].c ELSE 0)

\* Who wrote a register, or a cell of the stack, last before n.
RegWriters(f, n, r) ==
    {j \in 1 .. n - 1 : \/ f[j].op \in {"imm", "num", "lea", "mov", "get", "load"} /\ f[j].d = r
                        \/ f[j].op \in Calls /\ r \in Volatile \cup {"rax"}}

CellWriters(f, n, a) ==
    {j \in 1 .. n - 1 : \/ f[j].op = "store" /\ BiasAt(f, j) + f[j].c = a
                        \/ f[j].op = "clear" /\ a \in BiasAt(f, j) + f[j].c .. BiasAt(f, j) + f[j].c + 1}

\* What a register really holds before instruction n of a function.
Holds(f, slots) ==
    LET val[n \in 1 .. Len(f) + 1, r \in Registers] ==
            LET W == RegWriters(f, n, r)
                i == f[LastOf(W)]
            IN CASE W = {} -> Unknown
                 [] i.op = "imm" -> Const(i.c) [] i.op = "num" -> Number(i.c)
                 [] i.op = "lea" -> Stack(BiasAt(f, LastOf(W)) + i.c)
                 [] i.op = "mov" -> val[LastOf(W), i.s]
                 [] i.op = "get" -> IF i.c \in DOMAIN slots THEN Proc(slots[i.c]) ELSE Unknown
                 [] i.op = "load" -> LET C == CellWriters(f, LastOf(W), BiasAt(f, LastOf(W)) + i.c)
                                     IN IF C = {} THEN Unknown ELSE
                                        IF f[LastOf(C)].op = "clear" THEN Number(0) ELSE val[LastOf(C), f[LastOf(C)].s]
                 [] OTHER -> Unknown
    IN val

Cell(f, val, n, a) ==
    LET C == CellWriters(f, n, a)
    IN IF C = {} THEN Unknown ELSE IF f[LastOf(C)].op = "clear" THEN Number(0) ELSE val[LastOf(C), f[LastOf(C)].s]

\* Functions of the engine called at n.
CalledAt(f, val, n, slots, api) ==
    \/ f[n].op = "callg" /\ f[n].c \in DOMAIN slots /\ slots[f[n].c] = api
    \/ f[n].op = "callr" /\ val[n, f[n].s].kind = "proc" /\ val[n, f[n].s].v = api

NamesAt(f, val, n, slots, v) ==
    LET made == {j \in 1 .. n - 1 : CalledAt(f, val, j, slots, "string_name") /\ val[j, "rcx"].kind = "stack" /\ v.kind = "stack"
                                    /\ val[j, "rcx"].v = v.v /\ val[j, "rdx"].kind = "const"}
    IN IF made = {} THEN "" ELSE val[LastOf(made), "rdx"].v

\* Nothing is stored over a name or over cleared cells, and nothing cleared
\* that was stored: the trace would keep what was there.
Kept(f, val, slots) ==
    /\ \A j \in DOMAIN f : f[j].op = "store" =>
          LET a == BiasAt(f, j) + f[j].c
          IN /\ ~\E k \in 1 .. j - 1 : val[k, "rcx"].kind = "stack" /\ val[k, "rcx"].v = a /\ CalledAt(f, val, k, slots, "string_name")
             /\ \A k \in CellWriters(f, j, a) : f[k].op # "clear"
    /\ \A j, k \in DOMAIN f : j < k /\ f[j].op = "store" /\ f[k].op = "clear" =>
          BiasAt(f, j) + f[j].c \notin BiasAt(f, k) + f[k].c .. BiasAt(f, k) + f[k].c + 1

\* A function registers a method of its class, by name, with a callback that is
\* what the result says.
RegisteredIn(f, val, slots, mth) ==
    \E n \in DOMAIN f :
      /\ CalledAt(f, val, n, slots, "method") /\ val[n, "r8"].kind = "stack"
      /\ NamesAt(f, val, n, slots, val[n, "rdx"]) = mth.class
      /\ NamesAt(f, val, n, slots, Cell(f, val, n, val[n, "r8"].v)) = mth.method
      /\ \A c \in 2 .. 3 : Cell(f, val, n, val[n, "r8"].v + c).kind = "const"
      /\ mth.state = "BOUNDED" => Cell(f, val, n, val[n, "r8"].v + 1) = Const(mth.target)

\* Every registration reported as exact is made by the code: at some call of
\* the method function the class, the method and the callbacks are these.
ExtensionExact(x, r) ==
    r.valid => \A k \in DOMAIN r.native.methods :
        LET mth == r.native.methods[k]
            slots == r.native.slots
        IN mth.state # "UNRESOLVED" /\ (\A g \in ToSet(x.order) : Kept(x.code[g], Holds(x.code[g], slots), slots)) =>
           \E g \in ToSet(x.order) : RegisteredIn(x.code[g], Holds(x.code[g], slots), slots, mth)

\* A link has one registration in the whole pack, and no script or singleton
\* of the project can stand for the class instead.
LinkExact(x, r) ==
    r.state # "NOT_RUN" => \A k \in DOMAIN r.links :
        LET c == r.links[k]
        IN /\ \A i \in DOMAIN x.scripts : ScriptRead(x.scripts[i]) /\ c.class \notin x.scripts[i].class_names
           /\ Len(x.projects) = 1 /\ \A e \in ToSet(x.projects[1].settings) : ~(e.autoload /\ e.star /\ e.name = c.class)
           /\ Cardinality({<<l, n>> \in UNION {{l} \X DOMAIN x.libs[l].methods : l \in DOMAIN x.libs} :
                   x.libs[l].methods[n].class = c.class /\ x.libs[l].methods[n].method = c.method}) >= 1
           /\ \E l \in DOMAIN x.libs : x.libs[l].valid /\ \E n \in DOMAIN x.libs[l].methods :
                   x.libs[l].methods[n].class = c.class /\ x.libs[l].methods[n].method = c.method /\ x.libs[l].methods[n].flags = 0
=============================================================================
