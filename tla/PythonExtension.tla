--------------------------- MODULE PythonExtension ---------------------------
(***************************************************************************)
(* Extension modules of CPython in a Windows image                         *)
(* (extract/cpython_extension.cpp): the init function of a module is       *)
(* followed to the call that registers a module definition, and the        *)
(* definition with its methods and slots is validated.  Init functions are *)
(* exported ones and those of an init table.                               *)
(*                                                                         *)
(* A pointer is what it points to: "null", "code", "data", "bss" (mapped,  *)
(* but not in the file) or "out" of the image.                             *)
(***************************************************************************)
EXTENDS Words

CONSTANTS kMaxInitInstructions, kMaxBackwardInstructions, kMaxMethods, kMaxSlots, kMaxInittab, kMaxModuleSize

va_image_rva(p) == p \in {"code", "data", "bss"}

va_file_rva(p) == p \in {"code", "data"}

exec_file_rva(p) == p = "code"

\* Only visible operands are looked at: an instruction that writes the register
\* without naming it ("hidden") is passed over.
writes_reg(i, reg) == i.reg = reg /\ i.op # "hidden"

\* What the last writer of the register among the instructions before says,
\* through moves between registers; Bad if none does.  A number moved into a part
\* of the register ("low") is taken for the whole.
ValueBefore(prior, start, ops) ==
    LET s == FoldRight(LAMBDA i, acc : IF acc.done \/ ~writes_reg(i, acc.cur) THEN acc
                                       ELSE IF i.op = "mov" THEN [acc EXCEPT !.cur = i.from]
                                       ELSE [acc EXCEPT !.done = TRUE, !.value = IF i.op \in ops THEN i.value ELSE Bad],
                       prior, [cur |-> start, done |-> FALSE, value |-> Bad])
    IN s.value

pointer_before(prior) == ValueBefore(prior, "rcx", {"lea"})

scalar_before(prior) == ValueBefore(prior, "rdx", {"imm", "low"})

\* The call or jump that registers a definition, if its arguments are known.
Contract(i, prior) ==
    LET d == pointer_before(prior)  v == scalar_before(prior)
    IN IF d = Bad \/ (i.api = "Create2" /\ v \notin {3, 1013}) THEN {}
       ELSE {[moduledef |-> d, version |-> IF i.api = "Create2" THEN v ELSE 0, api |-> i.api]}

Last192(prior) == IF Len(prior) > kMaxBackwardInstructions THEN Tail(prior) ELSE prior

AfterCall_Keeps(prior) == prior

\* Calls may destroy the arguments: nothing that was known before one counts
\* after it.
AfterCall(prior) == <<>>

\* Only forward, and every address once: with what the first way there knows.
enqueue(s, f, at, prior) ==
    IF at > Len(f) \/ at \in s.scheduled THEN s
    ELSE [s EXCEPT !.scheduled = @ \cup {at}, !.todo = Append(@, [at |-> at, prior |-> prior])]

\* One instruction; cur is 0 between two pieces of work.
Decode(s, f) ==
    LET i == f[s.cur]
        known == i.op \in {"call", "jmp"} /\ i.api # "none"
        c == IF known THEN Contract(i, s.prior) ELSE {}
        t == [s EXCEPT !.decoded = @ + 1]
        forward(u) == IF i.to > s.cur THEN enqueue(u, f, i.to, s.prior) ELSE u
    IN CASE i.op = "bad" -> [t EXCEPT !.over = TRUE]
         [] known /\ c # {} -> [t EXCEPT !.over = TRUE, !.found = c]
         [] i.op = "jmp" /\ known -> [t EXCEPT !.over = TRUE]
         [] i.op = "call" -> [t EXCEPT !.prior = AfterCall(@), !.cur = @ + 1]
         [] i.op = "jcc" -> enqueue(forward([t EXCEPT !.cur = 0]), f, s.cur + 1, s.prior)
         [] i.op = "jmp" -> forward([t EXCEPT !.cur = 0])
         [] i.op = "ret" -> [t EXCEPT !.cur = 0]
         [] OTHER -> [t EXCEPT !.prior = Last192(Append(@, i)), !.cur = @ + 1]

find_init_contract(f) ==
    LET step[k \in 0 .. 3 * kMaxInitInstructions] ==
          IF k = 0 THEN [cur |-> 0, prior |-> <<>>, todo |-> <<[at |-> 1, prior |-> <<>>]>>, scheduled |-> {1}, decoded |-> 0, over |-> FALSE, found |-> {}]
          ELSE LET s == step[k - 1] IN
               IF s.over \/ s.decoded >= kMaxInitInstructions THEN s
               ELSE IF s.cur = 0 \/ s.cur > Len(f)
               THEN IF s.todo = <<>> THEN [s EXCEPT !.over = TRUE]
                    ELSE [s EXCEPT !.cur = Head(s.todo).at, !.prior = Head(s.todo).prior, !.todo = Tail(@)]
               ELSE Decode(s, f)
    IN step[3 * kMaxInitInstructions].found

\* A table of records with a terminator, in a file that may end before it; the
\* reader gives up after so many records.
Terminated(t, max) == t.end = "terminator" /\ Len(t.rows) < max

MethodOk(r) == va_file_rva(r.name) /\ r.text /\ exec_file_rva(r.callback) /\ r.flags_ok /\ r.doc \in {"null", "code", "data"}

parse_methods(t) ==
    CASE t.ptr = "null" -> "NONE"
      [] t.ptr = "out" -> "REJECTED"
      [] t.ptr = "bss" -> "PARTIAL"
      [] OTHER -> IF Terminated(t, kMaxMethods) /\ \A i \in DOMAIN t.rows : MethodOk(t.rows[i]) THEN "CONFIRMED" ELSE "REJECTED"

SlotOk(r) ==
    CASE r.id \in {1, 2} -> exec_file_rva(r.ptr)
      [] r.id = 3 -> r.value <= 2
      [] r.id = 4 -> r.value <= 1
      [] OTHER -> r.id > 0

parse_slots(t) ==
    CASE t.ptr = "null" -> "NONE"
      [] t.ptr = "out" -> "REJECTED"
      [] t.ptr = "bss" -> "PARTIAL"
      [] OTHER -> IF ~Terminated(t, kMaxSlots) \/ \E i \in DOMAIN t.rows : ~SlotOk(t.rows[i]) THEN "REJECTED"
                  ELSE IF \E i \in DOMAIN t.rows : t.rows[i].id > 4 THEN "PARTIAL" ELSE "CONFIRMED"

\* The definition behind the pointer: data of the file that is not code.
parse_module(d, api) ==
    LET methods == parse_methods(d.methods)  slots == parse_slots(d.slots)
    IN IF \/ d.at # "data" \/ ~va_file_rva(d.name) \/ ~d.text \/ d.size < -1 \/ d.size > kMaxModuleSize \/ d.doc \notin {"null", "code", "data"}
          \/ d.callbacks \cap {"data", "bss", "out"} # {}
          \/ (api = "Create2" /\ d.slots.ptr # "null") \/ (d.slots.ptr # "null" /\ d.size < 0)
          \/ "REJECTED" \in {methods, slots}
       THEN "REJECTED" ELSE IF "PARTIAL" \in {methods, slots} THEN "PARTIAL" ELSE "CONFIRMED"

\* What comes of an init function.
Registered(x, c) ==
    LET k == CHOOSE k \in c : TRUE
    IN IF c = {} THEN [state |-> "REJECTED", contract |-> c] ELSE [state |-> parse_module(x.defs[k.moduledef], k.api), contract |-> c]

Registration(x, f) == Registered(x, find_init_contract(f))

Export(x, e) ==
    IF e.forwarder \/ ~exec_file_rva(e.at) \/ ~e.name_ok THEN [state |-> "REJECTED", contract |-> {}] ELSE Registration(x, x.inits[e.init])

\* An entry without a function is one of a module built in elsewhere.  The first
\* malformed entry ends the reading, what was read before stays.
EntryOk(e) == va_file_rva(e.name) /\ e.text /\ e.at \in {"null", "code"}

Inittab(x) ==
    LET t == x.inittab
        read == SubSeq(t.rows, 1, IF Len(t.rows) < kMaxInittab THEN Len(t.rows) ELSE kMaxInittab)
        bad == FirstWhere(Len(read), LAMBDA i : ~EntryOk(read[i]))
    IN IF t.ptr = "absent" THEN [state |-> "NOT_PRESENT", rows |-> <<>>]
       ELSE IF ~va_file_rva(t.ptr) THEN [state |-> "REJECTED", rows |-> <<>>]
       ELSE IF bad # 0 THEN [state |-> "REJECTED", rows |-> SubSeq(read, 1, bad - 1)]
       ELSE [state |-> IF Terminated(t, kMaxInittab) THEN "CONFIRMED" ELSE "REJECTED", rows |-> read]

ExtensionFinding(tab, exports, all) ==
    LET states == {all[i].state : i \in DOMAIN all}
        modules == {i \in DOMAIN all : all[i].state \in {"CONFIRMED", "PARTIAL"}}
        ok == modules # {} \/ tab.state = "CONFIRMED"
        partial == states \cap {"REJECTED", "PARTIAL"} # {} \/ tab.state = "REJECTED"
    IN [state |-> IF ok THEN IF partial THEN "PARTIAL" ELSE "CONFIRMED"
                  ELSE IF exports \/ tab.state = "REJECTED" THEN "REJECTED" ELSE "NO_REGISTRATION",
        valid |-> ok, ranges |-> <<>>, all |-> all, modules |-> modules]

WithInittab(x, tab) ==
    LET exports == [i \in DOMAIN x.exports |-> Export(x, x.exports[i])]
        entries == [i \in DOMAIN tab.rows |-> IF tab.rows[i].at = "null" THEN [state |-> "NULL", contract |-> {}] ELSE Registration(x, x.inits[tab.rows[i].init])]
    IN ExtensionFinding(tab, x.exports # <<>>, exports \o entries)

analyze_cpython_extension(x) == IF ~x.valid THEN Absent ELSE WithInittab(x, Inittab(x))

\* ---------------------------------------------------------------- inputs

I(op, reg, from, value, to, api) == [op |-> op, reg |-> reg, from |-> from, value |-> value, to |-> to, api |-> api]

Lea(r, d) == I("lea", r, "none", d, 0, "none")

Imm(v) == I("imm", "rdx", "none", v, 0, "none")

Mov(r, q) == I("mov", r, q, 0, 0, "none")

Transfer(op, api) == I(op, "rax", "none", 0, 0, api)

Go(op, to) == I(op, "none", "none", 0, to, "none")

Inits ==
    LET words == {Lea("rcx", 1), Lea("rbx", 2), Mov("rcx", "rbx"), Imm(3), Transfer("call", "none"), Go("jcc", 4), Go("jmp", 1), Go("bad", 0)}
    IN {body \o <<Transfer(op, api), Go("ret", 0)>> : body \in UNION {[1 .. n -> words] : n \in 1 .. 3}, op \in {"call", "jmp"}, api \in {"Create2", "Init"}}

\* The version may also be written in part, or by an instruction that does not
\* name the register.
PartWritten ==
    LET words == {Lea("rcx", 1), Imm(3), I("low", "rdx", "none", 3, 0, "none"), I("hidden", "rdx", "none", 0, 0, "none")}
    IN {body \o <<Transfer("call", "Create2"), Go("ret", 0)>> : body \in UNION {[1 .. n -> words] : n \in 1 .. 3}}

GoodInit == <<Lea("rcx", 1), Transfer("jmp", "Init")>>

Table(p, rows, end) == [ptr |-> p, rows |-> rows, end |-> end]

Def == [at |-> "data", name |-> "data", text |-> TRUE, size |-> 0, doc |-> "null", callbacks |-> {"null", "code"},
        methods |-> Table("data", <<[name |-> "data", text |-> TRUE, callback |-> "code", flags_ok |-> TRUE, doc |-> "null"]>>, "terminator"),
        slots |-> Table("data", <<[id |-> 2, ptr |-> "code", value |-> 0]>>, "terminator")]

Method(f, v) == [Def.methods EXCEPT !.rows[1][f] = v]

Slot(id, p, v) == Table("data", <<[id |-> id, ptr |-> p, value |-> v]>>, "terminator")

DefAlt ==
    [at |-> {"bss", "code"}, name |-> {"null", "bss"}, text |-> {FALSE}, size |-> {-2, -1, kMaxModuleSize, kMaxModuleSize + 1}, doc |-> {"data", "bss"}, callbacks |-> {{"data"}},
     methods |-> {Table(p, <<>>, "terminator") : p \in {"null", "out", "bss"}} \cup {Method("callback", "data"), Method("flags_ok", FALSE), Method("name", "bss")}
                 \cup {Table("data", Def.methods.rows, "truncated"), Table("data", [i \in 1 .. kMaxMethods |-> Def.methods.rows[1]], "terminator")},
     slots |-> {Table(p, <<>>, "terminator") : p \in {"null", "out", "bss"}} \cup {Slot(1, "data", 0), Slot(3, "null", 3), Slot(4, "null", 1), Slot(5, "null", 0), Slot(-1, "null", 0)}]

ExtBase(f, d) ==
    [part |-> "pyext", size |-> 0, valid |-> TRUE, exports |-> <<[forwarder |-> FALSE, at |-> "code", name_ok |-> TRUE, init |-> 1]>>,
     inits |-> <<f, GoodInit>>, defs |-> <<d, Def>>, inittab |-> Table("absent", <<>>, "terminator")]

Entry(n, t, a) == [name |-> n, text |-> t, at |-> a, init |-> 2]

PyInputs ==
    {ExtBase(f, Def) : f \in Inits \cup PartWritten} \cup {ExtBase(GoodInit, d) : d \in Variants(Def, DefAlt)}
    \cup {[ExtBase(<<Lea("rcx", 1), Imm(3), Transfer("call", "Create2")>>, d) EXCEPT !.exports = <<>>, !.inittab = Table("data", <<[Entry("data", TRUE, "code") EXCEPT !.init = 1]>>, "terminator")]
             : d \in {Def, [Def EXCEPT !.slots = Table("null", <<>>, "terminator")]}}
    \cup Variants(ExtBase(GoodInit, Def),
                  [valid |-> {FALSE},
                   exports |-> {<<>>} \cup {<<ExtBase(GoodInit, Def).exports[1], [forwarder |-> a, at |-> b, name_ok |-> c, init |-> 2]>> : a \in BOOLEAN, b \in {"code", "bss"}, c \in BOOLEAN},
                   inits |-> {<<<<Go("ret", 0)>>, GoodInit>>, <<GoodInit, <<Go("ret", 0)>>>>},
                   inittab |-> {Table(p, rows, e) : p \in {"data", "bss"}, e \in {"terminator", "truncated"},
                                    rows \in {<<>>, <<Entry("data", TRUE, "code")>>, <<Entry("data", TRUE, "null")>>, <<Entry("data", TRUE, "code"), Entry("data", TRUE, "bss")>>,
                                              <<Entry("null", TRUE, "code"), Entry("data", TRUE, "code")>>, [i \in 1 .. kMaxInittab |-> Entry("data", TRUE, "code")]}}])

\* ---------------------------------------------------------------- reference

\* All that can hold in the registers wherever execution gets.
States(f) ==
    LET write(s, i) ==
          CASE i.op = "lea" \/ i.op = "imm" -> [s EXCEPT ![i.reg] = i.value]
            [] i.op \in {"low", "hidden"} -> [s EXCEPT ![i.reg] = Bad]
            [] i.op = "mov" -> [s EXCEPT ![i.reg] = s[i.from]]
            [] i.op = "call" -> [s EXCEPT !.rcx = Bad, !.rdx = Bad]
            [] OTHER -> s
        next(s) == IF s.pc > Len(f) \/ f[s.pc].op \in {"ret", "bad"} THEN {}
                   ELSE LET i == f[s.pc] IN
                        (IF i.op = "jmp" THEN {} ELSE {[write(s, i) EXCEPT !.pc = @ + 1]}) \cup (IF i.op \in {"jmp", "jcc"} /\ i.to > 0 THEN {[s EXCEPT !.pc = i.to]} ELSE {})
    IN Closure({[pc |-> 1, rcx |-> Bad, rdx |-> Bad, rbx |-> Bad]}, next, 8)

\* The register is only written whole and by name.
Explicit(f) == \A k \in DOMAIN f : f[k].op \notin {"low", "hidden"}

\* The definition taken is one that some run of the init function registers, with
\* the version it gives when that is written explicitly; every registration found is a module or makes the finding
\* partial, and a confirmed finding has no loose end.
PyExact(x, r) ==
    r.state \in {"CONFIRMED", "PARTIAL"} =>
        /\ \A j \in DOMAIN x.exports : \A c \in r.all[j].contract :
             LET f == x.inits[x.exports[j].init] IN
             \E s \in States(f) : /\ s.pc <= Len(f) /\ f[s.pc].api = c.api /\ s.rcx = c.moduledef
                                  /\ c.api = "Create2" /\ Explicit(f) => s.rdx = c.version
        /\ r.state = "CONFIRMED" => /\ \A i \in DOMAIN r.all : r.all[i].state \in {"CONFIRMED", "NULL"}
                                    /\ x.inittab.ptr # "absent" => Len(r.all) = Len(x.exports) + Len(x.inittab.rows)
                                    /\ \A i \in r.modules : \A c \in r.all[i].contract : LET d == x.defs[c.moduledef] IN
                                         /\ d.size \in -1 .. kMaxModuleSize
                                         /\ c.api = "Create2" => d.slots.ptr = "null"
                                         /\ \A k \in DOMAIN d.methods.rows : d.methods.rows[k].callback = "code"
=============================================================================
