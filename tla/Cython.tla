-------------------------------- MODULE Cython --------------------------------
(***************************************************************************)
(* What a Cython module binds when it is executed                          *)
(* (extract/cpython_cython.cpp): functions that are made from method       *)
(* definitions and set in the module's dictionary, static types that are   *)
(* made ready and set as attributes, and methods set in a type's           *)
(* dictionary, all read from x86-64 code of functions with known bounds.   *)
(*                                                                         *)
(* A function is a sequence of instructions without jumps (the source      *)
(* reads them in order of address whatever the jumps are); a static        *)
(* address is a small number.  Instructions:                               *)
(*   mov dst, src | lea dst, static | load dst, [static] | store [static], *)
(*   src | spill slot, src | fill dst, slot | get dst, [src + off] | put   *)
(*   [dst + off], src | add dst, off | call import or body | other dst     *)
(***************************************************************************)
EXTENDS Words, TLC

CONSTANT kMaxDirectHelpers, kMaxTypeMethods

Volatile == {"rax", "rcx", "rdx", "r8"}

Registers == Volatile \cup {"rbx"}

Unknown == [k |-> "?", v |-> 0]

V(k, v) == [k |-> k, v |-> v]

Writes == {"mov", "lea", "load", "fill", "get", "add", "other"}

\* The function called, when it is one of the image: import thunks are resolved.
import_at(i) == IF i.op = "call" THEN i.imp ELSE "none"

direct_target(i) == IF i.op = "call" /\ i.imp = "none" THEN i.v ELSE 0

\* ---------------------------------------------------------------- backwards

\* Where the value of a register before instruction `at` comes from: the writers
\* are followed through registers and frame slots until something names it.
origin_before(f, at, start) ==
    LET stop(s, o) == [s EXCEPT !.done = TRUE, !.origin = o]
        back(i, z, s) ==
          IF s.done THEN s
          ELSE IF s.cur \notin Registers
          THEN IF i.op = "spill" /\ i.dst = s.cur THEN [s EXCEPT !.cur = i.src] ELSE s
          ELSE IF i.op = "call" /\ s.cur = "rax" THEN stop(s, V("call", z))
          ELSE IF i.op = "call" THEN IF s.cur \in Volatile THEN stop(s, Unknown) ELSE s
          ELSE IF i.op \notin Writes \/ i.dst # s.cur THEN s
          ELSE CASE i.op \in {"mov", "fill"} -> [s EXCEPT !.cur = i.src]
                 [] i.op = "load" -> stop(s, V("global", i.v))
                 [] i.op = "lea" -> stop(s, V("static", i.v))
                 [] OTHER -> stop(s, Unknown)
        walk[z \in 0 .. at] == IF z = 0 THEN [cur |-> start, done |-> FALSE, origin |-> Unknown]
                               ELSE back(f[at - z], at - z, walk[z - 1])
    IN walk[at - 1].origin

memory_static_target(i) == IF i.op = "store" THEN i.v ELSE Bad

\* Any earlier store will do.
global_is_module_dict(f, before, g) ==
    \E z \in 1 .. before - 1 :
        /\ memory_static_target(f[z]) = g
        /\ LET o == origin_before(f, z, f[z].src) IN o.k = "call" /\ f[o.v].imp = "PyModule_GetDict"

is_module_dict_origin(f, before, o) ==
    \/ o.k = "call" /\ f[o.v].imp = "PyModule_GetDict"
    \/ o.k = "global" /\ global_is_module_dict(f, before, o.v)

\* ---------------------------------------------------------------- forwards

AfterCall(reg) == [r \in Registers |-> IF r \in Volatile THEN Unknown ELSE reg[r]]

Static(v) == V("static", v)

\* A pointer to something, moved by constants.
Shift(kind, b, off) == IF b.k = kind THEN V(kind, b.v + off) ELSE Unknown

\* One instruction of a forward reading: what registers and the frame hold.  A
\* reading says whether it follows static addresses, which kind of pointer it lets
\* an addition move, and which cells behind a pointer it knows.
Step(s, i, statics, moved, cells) ==
    CASE i.op = "spill" -> [s EXCEPT !.slot = s.reg[i.src]]
      [] i.op = "mov" -> [s EXCEPT !.reg[i.dst] = s.reg[i.src]]
      [] i.op = "fill" -> [s EXCEPT !.reg[i.dst] = s.slot]
      [] i.op = "lea" -> [s EXCEPT !.reg[i.dst] = IF statics THEN Static(i.v) ELSE Unknown]
      [] i.op = "get" -> [s EXCEPT !.reg[i.dst] = LET at == V(s.reg[i.src].k, s.reg[i.src].v + i.v) IN IF at \in DOMAIN cells THEN cells[at] ELSE Unknown]
      [] i.op = "add" -> [s EXCEPT !.reg[i.dst] = Shift(moved, s.reg[i.dst], i.v)]
      [] i.op \in {"load", "other"} -> [s EXCEPT !.reg[i.dst] = Unknown]
      [] i.op = "call" -> [s EXCEPT !.reg = AfterCall(@)]
      [] OTHER -> s

\* The states before every instruction (and after the last one).
Reading(f, reg0, statics, moved, cells) ==
    LET at[z \in 1 .. Len(f) + 1] ==
          IF z = 1 THEN [reg |-> [r \in Registers |-> IF r \in DOMAIN reg0 THEN reg0[r] ELSE Unknown], slot |-> Unknown]
          ELSE Step(at[z - 1], f[z - 1], statics, moved, cells)
    IN at

\* Does a function, or one it calls with the pointer in an argument, read the
\* 32-bit flags at offset 0x10 of the record it is given?
FlagsAt == 2

tainted_methoddef_read(x, target) ==
    LET at(f, r) == Reading(f, r :> V("record", 0), FALSE, "record", <<>>)
        reads(f, r) == \E z \in DOMAIN f : /\ f[z].op = "get" /\ f[z].narrow
                                           /\ LET b == at(f, r)[z].reg[f[z].src] IN b.k = "record" /\ b.v + f[z].v = FlagsAt
        body == x.bodies[target]
    IN \/ reads(body, "rcx")
       \/ \E z \in DOMAIN body : /\ direct_target(body[z]) # 0
                                 /\ \E r \in {"rcx", "rdx", "r8"} :
                                       at(body, "rcx")[z].reg[r].k = "record" /\ reads(x.bodies[direct_target(body[z])], r)

local_constructor_consumes_methoddef(x, target) == tainted_methoddef_read(x, target)

\* The last known value stored in every global, with the place of the store.
StaticsStored(f, at) ==
    LET stores == {z \in DOMAIN f : f[z].op = "store" /\ at[z].reg[f[z].src].k = "static"}
        last(g) == CHOOSE z \in stores : f[z].v = g /\ \A y \in stores : f[y].v = g => y <= z
    IN [g \in {f[z].v : z \in stores} |-> [value |-> at[last(g)].reg[f[last(g)].src].v, at |-> last(g)]]

static_globals(f) ==
    StaticsStored(f, Reading([z \in DOMAIN f |-> IF f[z].op = "fill" THEN [f[z] EXCEPT !.op = "other"] ELSE f[z]], <<>>, TRUE, "none", <<>>))

origin_static(o, globals, before) ==
    IF o.k = "static" THEN o.v
    ELSE IF o.k = "global" /\ o.v \in DOMAIN globals /\ globals[o.v].at < before THEN globals[o.v].value ELSE Bad

\* Does a function hand its first argument to the import?
wrapper_passes_rcx_to_import(x, target, imp) ==
    LET f == x.bodies[target]
        at == Reading(f, "rcx" :> V("arg", 0), FALSE, "none", <<>>)
    IN \E z \in DOMAIN f : import_at(f[z]) = imp /\ at[z].reg["rcx"].k = "arg"

\* A method definition and a type in the data of the image; the rest of the
\* numbers are no such records.
parse_method(x, m) == m \in x.methods

parse_method_table(t) == t.terminated /\ t.count < kMaxTypeMethods

parse_static_type(x, t) == t \in DOMAIN x.types /\ x.types[t].sized /\ x.types[t].named /\ parse_method_table(x.types[t].table)

\* Types made ready and set as attributes by a function that gets the module's
\* state: the field a type is stored in stands for the type.
recover_module_state_types(x, body) ==
    LET f == x.bodies[body]
        cells(s) == [p \in {V("state", o) : o \in DOMAIN s.fields} |-> s.fields[p.v]]
        at[z \in 1 .. Len(f) + 1] ==
          IF z = 1 THEN [reg |-> [r \in Registers |-> IF r = "rcx" THEN V("state", 0) ELSE Unknown], slot |-> Unknown,
                         fields |-> <<>>, ready |-> {}, where |-> <<>>, out |-> {}]
          ELSE LET s == at[z - 1]  i == f[z - 1]
                   isReady == \/ import_at(i) = "PyType_Ready"
                              \/ direct_target(i) # 0 /\ wrapper_passes_rcx_to_import(x, direct_target(i), "PyType_Ready")
                   rcx == s.reg["rcx"]  r8 == s.reg["r8"]
                   made == IF isReady /\ rcx.k = "static" /\ parse_static_type(x, rcx.v) THEN {rcx.v} ELSE {}
                   bound == IF import_at(i) = "PyObject_SetAttr" /\ r8.k = "static" /\ r8.v \in s.ready /\ \A o \in s.out : o.type # r8.v
                            THEN {[type |-> r8.v, field |-> IF r8.v \in DOMAIN s.where THEN s.where[r8.v] ELSE Bad, body |-> body, at |-> z - 1]} ELSE {}
                   put == i.op = "put" /\ s.reg[i.dst].k = "state"
                   off == IF put THEN s.reg[i.dst].v + i.v ELSE 0
                   value == IF put THEN s.reg[i.src] ELSE Unknown
                   t == [s EXCEPT !.ready = @ \cup made, !.out = @ \cup bound,
                                  !.fields = IF put THEN (off :> value) @@ @ ELSE @,
                                  !.where = IF put /\ value.k = "static" THEN (value.v :> off) @@ @ ELSE @]
               IN Step(t, i, TRUE, "state", cells(s))
    IN at[Len(f) + 1].out

\* A helper that sets its third argument under its second in the dictionary of
\* its first, a type, and then says so.
DictAt == 8

type_dict_helper_semantics(x, target) ==
    LET f == x.bodies[target]
        at == Reading(f, ("rcx" :> V("type", 0)) @@ ("rdx" :> V("key", 0)) @@ ("r8" :> V("value", 0)), FALSE, "type",
                      V("type", DictAt) :> V("dict", 0))
        sets(z) == import_at(f[z]) = "PyDict_SetItem" /\ at[z].reg["rcx"].k = "dict" /\ at[z].reg["rdx"].k = "key" /\ at[z].reg["r8"].k = "value"
        says(z) == import_at(f[z]) = "PyType_Modified" /\ at[z].reg["rcx"] = V("type", 0)
    IN \E y, z \in DOMAIN f : y < z /\ sets(y) /\ says(z)

\* The static argument of the first call of every body.
FirstBases(f, at) ==
    LET known(t) == {z \in DOMAIN f : direct_target(f[z]) = t /\ at[z].reg["rcx"].k = "static"}
    IN [t \in {direct_target(f[z]) : z \in DOMAIN f} \ {0} |->
          IF known(t) = {} THEN Bad ELSE at[CHOOSE z \in known(t) : \A y \in known(t) : z <= y].reg["rcx"].v]

direct_call_static_rcx_bases(f) == FirstBases(f, Reading(f, <<>>, TRUE, "static", <<>>))

\* ---------------------------------------------------------------- the analysis

Constructors == {"PyCMethod_New", "PyCFunction_New"}

\* The method definition behind a value that is set at `at`; Bad if it is none.
MethodBehind(x, method) == IF method.k = "static" /\ parse_method(x, method.v) THEN method.v ELSE Bad

MadeFrom(x, f, value) ==
    LET made == value.k = "call" /\ (\/ f[value.v].imp \in Constructors
                                     \/ f[value.v].imp = "none" /\ local_constructor_consumes_methoddef(x, f[value.v].v))
    IN IF made THEN MethodBehind(x, origin_before(f, value.v, "rcx")) ELSE Bad

ConstructedFrom(x, f, at) == MadeFrom(x, f, origin_before(f, at, "r8"))

runtime_functions(x, f) ==
    {[method |-> ConstructedFrom(x, f, at), bind |-> at] :
        at \in {z \in DOMAIN f : /\ import_at(f[z]) = "PyDict_SetItem"
                                 /\ is_module_dict_origin(f, z, origin_before(f, z, "rcx"))
                                 /\ ConstructedFrom(x, f, z) # Bad}}

\* The function itself and the first so many it calls.
bodies(f) ==
    LET called == SelectSeq(f, LAMBDA i : direct_target(i) # 0)
        seen[z \in 0 .. Len(called)] == IF z = 0 THEN {1} ELSE IF Cardinality(seen[z - 1]) < kMaxDirectHelpers + 1
                                                              THEN seen[z - 1] \cup {called[z].v} ELSE seen[z - 1]
    IN seen[Len(called)]

TypesWith(x, f, globals) ==
    LET arg(z, r) == origin_static(origin_before(f, z, r), globals, z)
    IN {arg(z, "rcx") : z \in {z \in DOMAIN f : /\ import_at(f[z]) = "PyType_Ready" /\ parse_static_type(x, arg(z, "rcx"))
                                                /\ \E y \in z + 1 .. Len(f) : import_at(f[y]) = "PyObject_SetAttr" /\ arg(y, "r8") = arg(z, "rcx")}}

direct_types(x, body) == TypesWith(x, x.bodies[body], static_globals(x.bodies[body]))

\* Storage slots that hold a recovered type.
StateFields(state, bases) == {<<bases[r.body] + r.field, r.type>> : r \in {r \in state : r.field # Bad /\ r.body \in DOMAIN bases /\ bases[r.body] # Bad}}

StoredTypes(globals) == {<<g, globals[g].value>> : g \in DOMAIN globals}

type_for_storage(x, f, known, state) ==
    {s \in UNION {StoredTypes(static_globals(x.bodies[b])) : b \in bodies(f)} : s[2] \in known} \cup StateFields(state, direct_call_static_rcx_bases(f))

type_methods(x, f, known, storage) ==
    LET type(o) == IF o.k = "static" /\ o.v \in known THEN {o.v} ELSE IF o.k = "global" THEN {s[2] : s \in {s \in storage : s[1] = o.v}} ELSE {}
        calls == {z \in DOMAIN f : direct_target(f[z]) # 0 /\ type_dict_helper_semantics(x, f[z].v) /\ ConstructedFrom(x, f, z) # Bad}
    IN UNION {{[type |-> t, method |-> ConstructedFrom(x, f, z), bind |-> z] : t \in type(origin_before(f, z, "rcx"))} : z \in calls}

Related(x, functions, types, methods) ==
    IF functions = {} /\ types = {} THEN [Absent EXCEPT !.state = "NO_GENERATED_RELATIONS"]
    ELSE [state |-> IF x.markers THEN "CONFIRMED" ELSE "STRUCTURAL_RELATIONS", valid |-> x.markers, ranges |-> <<>>,
          functions |-> functions, types |-> types, methods |-> methods]

WithTypes(x, state, types) ==
    LET f == x.bodies[1] IN Related(x, runtime_functions(x, f), types, type_methods(x, f, types, type_for_storage(x, f, types, state)))

WithStateTypes(x, state) == WithTypes(x, state, UNION {direct_types(x, b) : b \in bodies(x.bodies[1])} \cup {r.type : r \in state})

analyze_cpython_cython(x) ==
    IF ~x.valid \/ x.modules # 1 THEN Absent
    ELSE IF ~x.exec THEN [Absent EXCEPT !.state = "NO_PEP489_EXEC"]
    ELSE WithStateTypes(x, UNION {recover_module_state_types(x, b) : b \in bodies(x.bodies[1])})

\* ---------------------------------------------------------------- inputs

I(op, dst, src, v) == [op |-> op, dst |-> dst, src |-> src, v |-> v, imp |-> "none", narrow |-> FALSE]

Import(name) == [I("call", "none", "none", 0) EXCEPT !.imp = name]

Call(body) == I("call", "none", "none", body)

\* Addresses: two records, two types, the module's state with a field, a global.
M1 == 1
M2 == 2
T1 == 11
T2 == 12
StateBase == 20
G == 30

Root ==
    <<Import("PyModule_GetDict"), I("store", "none", "rax", G),
      I("lea", "rcx", "none", StateBase), Call(2),
      I("lea", "rcx", "none", M1), Call(4), I("mov", "r8", "rax", 0), I("load", "rcx", "none", G), Import("PyDict_SetItem"),
      I("lea", "rcx", "none", M2), Import("PyCMethod_New"), I("mov", "r8", "rax", 0), I("load", "rcx", "none", StateBase + 1), Call(3)>>

TypeInit ==
    <<I("mov", "rbx", "rcx", 0), I("lea", "rcx", "none", T1), I("put", "rbx", "rcx", 1), Call(5),
      I("get", "r8", "rbx", 1), Import("PyObject_SetAttr")>>

DictHelper ==
    <<I("mov", "rbx", "rcx", 0), I("get", "rcx", "rbx", DictAt), Import("PyDict_SetItem"), I("mov", "rcx", "rbx", 0), Import("PyType_Modified")>>

Constructor == <<I("add", "rcx", "none", 1), [I("get", "rax", "rcx", 1) EXCEPT !.narrow = TRUE]>>

ReadyWrapper == <<I("spill", "slot", "rcx", 0), I("other", "rcx", "none", 0), I("fill", "rcx", "slot", 0), Import("PyType_Ready")>>

CyBase ==
    [part |-> "cython", size |-> 0, valid |-> TRUE, modules |-> 1, exec |-> TRUE, markers |-> TRUE,
     bodies |-> <<Root, TypeInit, DictHelper, Constructor, ReadyWrapper>>,
     methods |-> {M1, M2},
     types |-> [t \in {T1, T2} |-> [sized |-> TRUE, named |-> TRUE, table |-> [terminated |-> TRUE, count |-> 1]]]]

\* One instruction more, one less, or one replaced, anywhere.
Words1 ==
    {I("lea", "rcx", "none", M2), I("lea", "rcx", "none", T2), I("lea", "r8", "none", T1), I("mov", "rbx", "rax", 0), I("mov", "rcx", "rbx", 0),
     I("mov", "r8", "rbx", 0), I("spill", "slot", "rax", 0), I("fill", "r8", "slot", 0), I("fill", "rcx", "slot", 0), I("store", "none", "rbx", G),
     I("store", "none", "rcx", StateBase + 1), I("load", "rcx", "none", G), I("add", "rcx", "none", 1), I("other", "r8", "none", 0),
     I("put", "rbx", "r8", 1), Import("PyType_Ready"), Import("Py_Other"), Import("PyObject_SetAttr"), Call(4)}

Edits(f) ==
    {SubSeq(f, 1, z - 1) \o <<w>> \o SubSeq(f, z, Len(f)) : z \in 1 .. Len(f) + 1, w \in Words1}
    \cup {SubSeq(f, 1, z - 1) \o SubSeq(f, z + 1, Len(f)) : z \in DOMAIN f}
    \cup {[f EXCEPT ![z] = w] : z \in DOMAIN f, w \in Words1}

CyInput(x) ==
    \/ \E g \in Edits(Root) : x = [CyBase EXCEPT !.bodies[1] = g]
    \/ \E b \in 2 .. 5 : \E g \in Edits(CyBase.bodies[b]) : x = [CyBase EXCEPT !.bodies[b] = g]
    \/ IsVariant(x, CyBase, [valid |-> {FALSE}, modules |-> {0, 2}, exec |-> {FALSE}, markers |-> {FALSE}, methods |-> {{M1}, {}},
                           types |-> {[CyBase.types EXCEPT ![T1][a] = FALSE] : a \in {"sized", "named"}}
                                     \cup {[CyBase.types EXCEPT ![T1].table = c] : c \in {[terminated |-> FALSE, count |-> 1], [terminated |-> TRUE, count |-> kMaxTypeMethods]}}])

\* ---------------------------------------------------------------- reference

\* What really happens when the functions run, with the convention that a callee
\* keeps rbx and may destroy the rest.
Mem(s, a) == IF a \in DOMAIN s.mem THEN s.mem[a] ELSE Unknown

Address(b, off) == IF b.k = "static" THEN b.v + off ELSE Bad

ReadReal(s, b, off) == IF b.k = "static" /\ b.v \in {T1, T2} /\ off = DictAt THEN V("typedict", b.v) ELSE Mem(s, Address(b, off))

Execute(s, i, at) ==
    CASE i.op = "mov" -> [s EXCEPT !.reg[i.dst] = s.reg[i.src]]
      [] i.op = "lea" -> [s EXCEPT !.reg[i.dst] = V("static", i.v)]
      [] i.op = "load" -> [s EXCEPT !.reg[i.dst] = Mem(s, i.v)]
      [] i.op = "store" -> [s EXCEPT !.mem = (i.v :> s.reg[i.src]) @@ @]
      [] i.op = "spill" -> [s EXCEPT !.slot = s.reg[i.src]]
      [] i.op = "fill" -> [s EXCEPT !.reg[i.dst] = s.slot]
      [] i.op = "get" -> [s EXCEPT !.reg[i.dst] = ReadReal(s, s.reg[i.src], i.v)]
      [] i.op = "put" -> [s EXCEPT !.mem = (Address(s.reg[i.dst], i.v) :> s.reg[i.src]) @@ @]
      [] i.op = "add" -> [s EXCEPT !.reg[i.dst] = IF @.k = "static" THEN V("static", @.v + i.v) ELSE Unknown]
      [] i.op = "other" -> [s EXCEPT !.reg[i.dst] = Unknown]
      [] OTHER ->
           LET rcx == s.reg["rcx"]  r8 == s.reg["r8"]
               result == CASE i.imp = "PyModule_GetDict" -> V("dict", 0)
                           [] i.imp \in Constructors \cup {"none"} /\ rcx.k = "static" -> V("object", rcx.v)
                           [] OTHER -> Unknown
               happens == CASE i.imp = "PyDict_SetItem" /\ rcx.k = "dict" /\ r8.k = "object" -> {<<"function", r8.v, at>>}
                            [] i.imp = "PyDict_SetItem" /\ rcx.k = "typedict" /\ r8.k = "object" -> {<<"method", rcx.v, r8.v>>}
                            [] i.imp = "PyType_Ready" -> {<<"ready", rcx.v>>}
                            [] i.imp = "PyObject_SetAttr" -> {<<"attribute", r8.v>>}
                            [] OTHER -> {}
           IN [s EXCEPT !.reg = [r \in Registers |-> IF r = "rax" THEN result ELSE IF r = "rbx" THEN s.reg[r] ELSE Unknown],
                        !.events = @ \cup happens]

\* Calls nest three deep: the root calls a body, which calls a wrapper.
RunBody(x, b, s0, Nested(_, _)) ==
    LET f == x.bodies[b]
        at[z \in 1 .. Len(f) + 1] ==
          IF z = 1 THEN [s0 EXCEPT !.slot = Unknown]
          ELSE LET s == at[z - 1]  i == f[z - 1] IN
               IF direct_target(i) = 0 THEN Execute(s, i, z - 1)
               ELSE LET n == Nested(i.v, s) IN [Execute(s, i, z - 1) EXCEPT !.mem = n.mem, !.events = n.events]
    IN at[Len(f) + 1]

Events(x) ==
    LET leaf(b, s) == s
        third(b, s) == RunBody(x, b, s, leaf)
        second(b, s) == RunBody(x, b, s, third)
        start == [reg |-> [r \in Registers |-> Unknown], slot |-> Unknown, mem |-> <<>>, events |-> {}]
    IN RunBody(x, 1, start, second).events

\* Cells the analysis takes for constant are written once.
Settled(x) ==
    \A a \in {G, StateBase + 1} :
        Cardinality({<<b, z>> \in (1 .. Len(x.bodies)) \X (1 .. 20) : z \in DOMAIN x.bodies[b]
                        /\ \/ x.bodies[b][z].op = "store" /\ x.bodies[b][z].v = a
                           \/ x.bodies[b][z].op = "put" /\ a = StateBase + 1}) <= 1

\* Every binding reported is one that running the code makes: the function or
\* method really ends up in that dictionary, the type is made ready and bound.
CyExact(x, r) ==
    r.state \in {"CONFIRMED", "STRUCTURAL_RELATIONS"} /\ Settled(x) =>
        LET e == Events(x) IN
        /\ \A g \in r.functions : <<"function", g.method, g.bind>> \in e
        /\ \A t \in r.types : <<"ready", t>> \in e /\ <<"attribute", t>> \in e
        /\ \A g \in r.methods : <<"method", g.type, g.method>> \in e
===============================================================================
