----------------------------- MODULE PeExceptions -----------------------------
(***************************************************************************)
(* Exceptional control flow of an x64 PE image (core/exception_flow.cpp):  *)
(* who registers a vectored handler or an unhandled filter, which trap or  *)
(* RaiseException runs under it, and whether the handler resumes elsewhere *)
(* by writing CONTEXT.Rip and returning EXCEPTION_CONTINUE_EXECUTION.      *)
(*                                                                         *)
(* The file is given by what stands at its offsets (Instruction, Pointer,  *)
(* UnwindInfo, SehEntry); an instruction takes one byte and carries the    *)
(* address its relative operand stands for.  rax, rcx, rdx and r9 stand    *)
(* for the registers a call destroys, rbx for those it keeps.              *)
(***************************************************************************)
EXTENDS Words, TLC

CONSTANTS max_facts,         \* facts kept
          TraceSteps,        \* instructions an argument is traced back over
          ChainHops,         \* chained UNWIND_INFO records followed
          MaxFunctionBytes,  \* length of a function that is decoded
          MaxDecoded,        \* instructions decoded of a function
          MaxSehCount        \* entries of a SafeSEH table

\* Addresses relative to the image, and the words of 32 bits, end here.
RvaLimit == 255

ImageBase == 100

AMD64 == 34404

I386 == 332

\* The displacement of Rip in a CONTEXT.
Rip == 248

Volatile == {"rax", "rcx", "rdx", "r9"}

Registers == Volatile \cup {"rbx", "none"}

\* ---------------------------------------------------------------- the image

Larger(a, b) == IF a > b THEN a ELSE b

InSection(s, rva) == s.rva <= rva /\ rva < s.rva + Larger(s.vsize, s.raw)

\* The offset of an address in the file, Bad if it has none: the headers are
\* mapped as they are, and the first section that holds the address decides,
\* unless its bytes would lie behind the end of the file.
pe_rva_off(x, rva) ==
    LET ss == SelectSeq(x.sections, LAMBDA s : InSection(s, rva) /\ (rva - s.rva >= s.raw \/ s.at + rva - s.rva < x.size))
    IN IF rva < x.headers /\ rva < x.size THEN rva
       ELSE IF ss = <<>> \/ rva - ss[1].rva >= ss[1].raw THEN Bad
       ELSE ss[1].at + rva - ss[1].rva

pe_executable_rva(x, rva) == \E s \in Range(x.sections) : s.exec /\ InSection(s, rva)

\* An address in memory as an address in the image.
ToRva(va) == IF va < ImageBase \/ va - ImageBase > RvaLimit THEN Bad ELSE va - ImageBase

\* What stands in the file: instructions, a pointer, unwind records and the
\* table of safe handlers.
Instruction(x, off) ==
    LET k == (off - 2) \div 10
        n == ((off - 2) % 10) + 1
    IN IF k \in DOMAIN x.functions /\ n \in DOMAIN x.functions[k] THEN x.functions[k][n] ELSE [op |-> "int3", reg |-> "none", base |-> "none", disp |-> 0, imm |-> 0]

Pointer(x, off) == IF off = 60 THEN x.cell ELSE 0

UnwindInfo(x, off) == x.unwinds[IF ((off - 120) \div 20) + 1 \in DOMAIN x.unwinds THEN ((off - 120) \div 20) + 1 ELSE 1]

SehEntry(x, off) == IF ((off - 90) \div 4) + 1 \in DOMAIN x.handlers THEN x.handlers[((off - 90) \div 4) + 1] ELSE 0

pe_decode_one(x, rva) ==
    LET o == pe_rva_off(x, rva)
        i == IF o = Bad THEN [op |-> "bad", reg |-> "none", base |-> "none", disp |-> 0, imm |-> 0] ELSE Instruction(x, o)
    IN i @@ [rva |-> rva]

\* The entry of the exception directory an address belongs to, 0 if it belongs to
\* none.
pe_runtime_func(x, rva) == FirstWhere(Len(x.runtime), LAMBDA k : x.runtime[k].begin <= rva /\ rva < x.runtime[k].end)

\* The entry that begins at an address.
Entry(x, rva) == LET k == pe_runtime_func(x, rva) IN IF k # 0 /\ x.runtime[k].begin = rva THEN k ELSE 0

\* A function is decoded to its last byte, or there is nothing of it.
pe_decode_range(x, f) ==
    LET n == f.end - f.begin
        ins == SelectSeq([i \in 1 .. n |-> pe_decode_one(x, f.begin + i - 1)], LAMBDA i : i.op # "bad")
    IN IF f.end = 0 \/ n <= 0 \/ n > MaxFunctionBytes \/ n > MaxDecoded \/ Len(ins) # n THEN <<>> ELSE ins

\* The address a relative operand stands for.
pe_rel_target(i) == IF i.op \in {"call", "jmp", "jcc"} /\ i.imm \in 0 .. RvaLimit THEN i.imm ELSE Bad

pe_rip_mem_rva(i) == IF i.op \in {"callm", "jmpm", "movm"} /\ i.imm \in 0 .. RvaLimit THEN i.imm ELSE Bad

IsCall(i) == i.op \in {"call", "callm", "callr"}

IsJump(i) == i.op \in {"jmp", "jmpm"}

ins_writes_reg(i, r) == i.reg = r /\ i.op \in {"mov", "const", "const32", "movm", "lea", "leam", "add", "sub", "xor", "load"}

Writer(i) == \E r \in Registers : ins_writes_reg(i, r)

\* ---------------------------------------------------------------- API calls

Interesting == {"AddVectoredExceptionHandler", "RemoveVectoredExceptionHandler", "SetUnhandledExceptionFilter", "RaiseException", "SetThreadContext"}

\* The slots of the import tables that belong to the functions looked for.
pe_named_iat(x, wanted) ==
    LET of(m) == {<<(m.iat_rva + (i - 1) * 8) % (RvaLimit + 1), m.functions[i].name>> : i \in {j \in DOMAIN m.functions : ~m.functions[j].by_ordinal /\ m.functions[j].name \in wanted}}
        es == UNION {of(m) : m \in Range(x.imports)}
    IN [slot \in {e[1] : e \in es} |-> (CHOOSE e \in es : e[1] = slot)[2]]

\* Jumps through one of the slots, anywhere in a function that is decoded.
Thunks(bodies, iat) ==
    LET js == {i \in UNION {Range(bodies[k]) : k \in DOMAIN bodies} : IsJump(i) /\ pe_rip_mem_rva(i) \in DOMAIN iat}
    IN [rva \in {j.rva : j \in js} |-> (CHOOSE j \in js : j.rva = rva).imm]

JumpSlot(i, iat) == IF pe_rip_mem_rva(i) \in DOMAIN iat THEN i.imm ELSE 0

\* The thunk a targeted call leads to: one instruction without effect may stand
\* before the jump.
pe_targeted_import_thunk_slot(x, rva, iat) ==
    LET i == pe_decode_one(x, rva)
        j == pe_decode_one(x, rva + 1)
    IN IF IsJump(i) THEN JumpSlot(i, iat)
       ELSE IF i.op \in {"endbr", "nop"} /\ rva < RvaLimit /\ IsJump(j) THEN JumpSlot(j, iat)
       ELSE 0

\* The slot a transfer goes through, 0 if it is none of those looked for.
Transfer(x, i, aliases, iat, thunks, targeted) ==
    CASE pe_rip_mem_rva(i) \in DOMAIN iat /\ (IsCall(i) \/ IsJump(i)) -> i.imm
      [] pe_rel_target(i) # Bad /\ (IsCall(i) \/ IsJump(i)) ->
           IF targeted THEN pe_targeted_import_thunk_slot(x, i.imm, iat) ELSE IF i.imm \in DOMAIN thunks THEN thunks[i.imm] ELSE 0
      [] i.op = "callr" -> aliases[i.reg]
      [] OTHER -> 0

\* Slots in registers are followed in the order of the addresses; only a call
\* that was recognized takes them out of the registers a call destroys.
AliasWrite(i, aliases, iat) ==
    IF ~Writer(i) THEN aliases
    ELSE [aliases EXCEPT ![i.reg] = IF i.op = "mov" THEN aliases[i.base] ELSE IF i.op = "movm" /\ i.imm \in DOMAIN iat THEN i.imm ELSE 0]

Scan(s, f, i, iat, written, slot) ==
    LET found == slot # 0 /\ i.rva \notin s.seen
    IN [aliases |-> IF found /\ IsCall(i) THEN [r \in Registers |-> IF r \in Volatile THEN 0 ELSE written[r]] ELSE written,
        seen |-> IF found THEN s.seen \cup {i.rva} ELSE s.seen,
        out |-> IF found THEN Append(s.out, [name |-> iat[slot], func_begin |-> f.begin, func_end |-> f.end, callsite |-> i.rva, call |-> IsCall(i)]) ELSE s.out]

CallsIn(x, s, f, ins, iat, thunks, targeted) ==
    FoldLeft(LAMBDA t, i : Scan(t, f, i, iat, AliasWrite(i, t.aliases, iat), Transfer(x, i, t.aliases, iat, thunks, targeted)),
             [s EXCEPT !.aliases = [r \in Registers |-> 0]], ins)

Fresh == [aliases |-> <<>>, seen |-> {}, out |-> <<>>]

Earlier(a, b) == a.func_begin < b.func_begin \/ (a.func_begin = b.func_begin /\ a.callsite < b.callsite)

ApiCalls(x, bodies, iat, thunks) ==
    SortSeq(FoldLeft(LAMBDA s, k : CallsIn(x, s, x.runtime[k], bodies[k], iat, thunks, FALSE), Fresh, [k \in DOMAIN bodies |-> k]).out, Earlier)

ApiCallsThrough(x, bodies, iat) == ApiCalls(x, bodies, iat, Thunks(bodies, iat))

Bodies(x) == FoldLeft(LAMBDA bodies, f : Append(bodies, pe_decode_range(x, f)), <<>>, x.runtime)

pe_api_calls(x) == ApiCallsThrough(x, Bodies(x), pe_named_iat(x, Interesting))

pe_targeted_calls_in_function(x, f, wanted) ==
    LET iat == pe_named_iat(x, {wanted})
    IN IF DOMAIN iat = {} THEN <<>> ELSE CallsIn(x, Fresh, f, pe_decode_range(x, f), iat, <<>>, TRUE).out

Ends(s, v) == [s EXCEPT !.done = TRUE, !.value = v]

\* An immediate of 32 bits is extended by its sign in a register of 64.
Extended(i) == IF i.op = "const32" /\ i.imm > RvaLimit \div 2 THEN i.imm - (RvaLimit + 1) ELSE i.imm

\* What an instruction puts into the register that holds a pointer: a value, or
\* another register and an addend.
ReadPointer(x, s, i) ==
    LET off == pe_rva_off(x, i.imm)
    IN CASE i.op \in {"const", "const32"} -> Ends(s, ToRva(Extended(i) + s.add))
         [] i.op = "movm" /\ pe_rip_mem_rva(i) # Bad -> Ends(s, IF off = Bad \/ off + 8 > x.size THEN Bad ELSE ToRva(Pointer(x, off) + s.add))
         [] i.op = "leam" -> Ends(s, IF i.imm + s.add \in 0 .. RvaLimit THEN i.imm + s.add ELSE Bad)
         [] i.op = "lea" /\ i.base # "none" -> [s EXCEPT !.cur = i.base, !.add = @ + i.disp]
         [] i.op = "add" -> [s EXCEPT !.add = @ + i.imm]
         [] i.op = "sub" -> [s EXCEPT !.add = @ - i.imm]
         [] OTHER -> Ends(s, Bad)

ReadScalar(s, i) == Ends(s, IF i.op \in {"const", "const32"} THEN i.imm ELSE IF i.op = "xor" /\ i.base = s.cur THEN 0 ELSE Bad)

\* An argument is traced back from the call, instruction by instruction; a call
\* that may have changed its register ends the search.
Back(x, s, i, pointer) ==
    IF s.done THEN s
    ELSE IF IsCall(i) /\ s.cur \in Volatile THEN Ends(s, Bad)
    ELSE IF ~ins_writes_reg(i, s.cur) THEN s
    ELSE IF i.op = "mov" THEN [s EXCEPT !.cur = i.base]
    ELSE IF pointer THEN ReadPointer(x, s, i) ELSE ReadScalar(s, i)

Trace(x, c, reg, pointer) ==
    LET ins == pe_decode_range(x, [begin |-> c.func_begin, end |-> c.func_end])
        before == SelectSeq(ins, LAMBDA i : i.rva < c.callsite /\ i.rva >= c.callsite - TraceSteps)
    IN FoldLeft(LAMBDA s, i : Back(x, s, i, pointer), [cur |-> reg, add |-> 0, done |-> FALSE, value |-> Bad], Reverse(before)).value

pe_pointer_arg(x, c, reg) == Trace(x, c, reg, TRUE)

pe_scalar_arg(x, c, reg) == Trace(x, c, reg, FALSE)

\* ---------------------------------------------------------------- the graph of a function

By(g, rva) == {n \in DOMAIN g : g[n].rva = rva}

Edges(g, n) ==
    LET fall == {n + 1} \cap DOMAIN g
    IN CASE g[n].op = "ret" -> {}
         [] IsJump(g[n]) -> By(g, pe_rel_target(g[n]))
         [] g[n].op = "jcc" -> By(g, pe_rel_target(g[n])) \cup fall
         [] OTHER -> fall

pe_reachable(g, start, blocked) ==
    LET next(n) == Edges(g, n) \ blocked IN IF start \in blocked THEN {} ELSE Closure({start} \cap DOMAIN g, next, Len(g))

pe_dominates(g, dom, n) == n \in pe_reachable(g, 1, {}) /\ (dom = 1 \/ n \notin pe_reachable(g, 1, {dom}))

\* A barrier that the registration reaches and that reaches the trigger.
pe_barrier_between(g, reg, trigger, barriers) ==
    \E b \in UNION {By(g, rva) : rva \in barriers} : b \in pe_reachable(g, reg, {}) /\ trigger \in pe_reachable(g, b, {})

pe_same_basic_block(g, first, last) ==
    /\ first < last
    /\ {g[n].rva : n \in first + 1 .. last} \cap {pe_rel_target(g[n]) : n \in {m \in DOMAIN g : g[m].op \in {"jmp", "jcc"}}} = {}
    /\ \A n \in first .. last - 1 : ~IsCall(g[n]) /\ ~IsJump(g[n]) /\ g[n].op \notin {"jcc", "ret"}

Traps == {"int3", "int1", "ud2", "int2d"}

\* ---------------------------------------------------------------- unwind information

\* The bytes of a record before its handler or the record it is chained to.
Extra(u) == ((4 + u.count * 2 + 3) \div 4) * 4

Chained(u) == (u.flags \div 4) % 2 = 1

Handled(u) == u.flags % 4 # 0

\* A record that does not fit, has no known version, or is both chained and
\* handled.
Malformed(u, off, size) ==
    \/ u.version \notin {1, 2} \/ Extra(u) > size - off
    \/ Chained(u) /\ (Handled(u) \/ Extra(u) + 12 > size - off)
    \/ ~Chained(u) /\ Handled(u) /\ (Extra(u) + 4 > size - off \/ u.value = 0)

Hop(x, s) ==
    LET off == pe_rva_off(x, s.at)
        u == UnwindInfo(x, off)
    IN CASE s.done -> s
         [] ~s.done /\ (s.at = 0 \/ s.at \in s.seen \/ off = Bad \/ off + 4 > x.size) -> [s EXCEPT !.done = TRUE, !.error = TRUE]
         [] OTHER -> IF Malformed(u, off, x.size) THEN [s EXCEPT !.done = TRUE, !.error = TRUE]
                     ELSE IF Chained(u) THEN [s EXCEPT !.at = u.value, !.seen = @ \cup {s.at}]
                     ELSE [s EXCEPT !.done = TRUE, !.handler = IF Handled(u) THEN u.value ELSE Bad]

\* The handler at the end of a chain of records, and whether the chain is in
\* order; a chain that is too long is not.
pe_unwind_handler(x, unwind) ==
    LET s == FoldLeft(LAMBDA t, h : Hop(x, t), [at |-> unwind, seen |-> {}, done |-> FALSE, error |-> FALSE, handler |-> Bad], [h \in 1 .. ChainHops |-> h])
    IN [handler |-> s.handler, error |-> s.error \/ ~s.done]

\* ---------------------------------------------------------------- facts

Fact(mechanism, kind, state, priority) ==
    [mechanism |-> mechanism, kind |-> kind, state |-> state, priority |-> priority, func |-> 0, site |-> Bad, trigger |-> Bad, handler |-> Bad, landing |-> Bad]

Levels == ("CONTEXT_PC_REWRITE_CONFIRMED" :> 4) @@ ("TRIGGER_HANDLER_CORRELATED" :> 3) @@ ("REGISTRATION_HANDLER_EXACT" :> 1)

Level(state) == IF state \in DOMAIN Levels THEN Levels[state] ELSE 0

exceptional_add(out, f) ==
    IF Len(out.facts) >= max_facts THEN [out EXCEPT !.limited = TRUE]
    ELSE [out EXCEPT !.facts = Append(@, f @@ [level |-> Level(f.state)]), !.count[f.priority] = @ + 1]

AddAll(out, fs) == FoldLeft(exceptional_add, out, fs)

exceptional_finish(out) ==
    [state |-> IF out.limited THEN "PARTIAL" ELSE IF out.facts # <<>> THEN "RESOLVED" ELSE "NOT_PRESENT", valid |-> TRUE, ranges |-> <<>>, facts |-> out.facts, count |-> out.count]

\* Handlers of the unwind information, once for each function and handler; a
\* record out of order makes the result partial.
UnwindFact(x, s, rf, u) ==
    LET f == [Fact("PE_X64_UNWIND_HANDLER", "POTENTIAL_EXCEPTION_IN_PROTECTED_RANGE", "EXACT_METADATA", "INFORMATIONAL") EXCEPT !.func = rf.begin, !.handler = u.handler]
        id == <<rf.begin, rf.end, u.handler>>
    IN IF u.error THEN [s EXCEPT !.out.limited = TRUE]
       ELSE IF u.handler = Bad \/ ~pe_executable_rva(x, u.handler) \/ id \in s.seen THEN s
       ELSE [seen |-> s.seen \cup {id}, out |-> exceptional_add(s.out, f)]

UnwindFacts(x, out) ==
    FoldLeft(LAMBDA s, rf : UnwindFact(x, s, rf, pe_unwind_handler(x, rf.unwind)), [seen |-> {}, out |-> out], x.runtime).out

\* The table of safe handlers of a 32-bit image.
SafeSehFacts(x, out) ==
    LET load == x.load
        off == pe_rva_off(x, ToRva(load.seh_table))
        hs == SelectSeq([i \in 1 .. load.seh_count |-> SehEntry(x, off + (i - 1) * 4)], LAMBDA h : h # 0 /\ pe_executable_rva(x, h))
    IN CASE ~load.present \/ load.seh_table = 0 \/ load.seh_count = 0 -> out
         [] load.present /\ load.seh_table # 0 /\ load.seh_count # 0 ->
              IF load.seh_count > MaxSehCount \/ ToRva(load.seh_table) = Bad \/ off = Bad \/ load.seh_count > (x.size - off) \div 4 THEN [out EXCEPT !.limited = TRUE]
              ELSE AddAll(out, [n \in DOMAIN hs |-> [Fact("SAFESEH", "POTENTIAL_X86_SEH_DISPATCH", "EXACT_METADATA", "INFORMATIONAL") EXCEPT !.handler = hs[n]]])

GuardFacts(x, out) ==
    IF x.load.present /\ x.load.guard THEN exceptional_add(out, Fact("EH_CONTINUATION_METADATA", "METADATA_PRESENT", "REFUSED", "INFORMATIONAL")) ELSE out

MechanismOf(c) == IF c.name = "AddVectoredExceptionHandler" THEN "VEH" ELSE "UNHANDLED_EXCEPTION_FILTER"

Registering == {"AddVectoredExceptionHandler", "SetUnhandledExceptionFilter"}

\* The calls that register a handler, with the handler they are given.
Registered(x, calls) ==
    LET cs == SelectSeq(calls, LAMBDA c : c.name \in Registering)
    IN [n \in DOMAIN cs |-> cs[n] @@ [handler |-> pe_pointer_arg(x, cs[n], IF cs[n].name = "AddVectoredExceptionHandler" THEN "rdx" ELSE "rcx")]]

Exact(x, rs) == SelectSeq(rs, LAMBDA r : r.handler # Bad /\ pe_executable_rva(x, r.handler))

RegistrationFact(x, r) ==
    IF Exact(x, <<r>>) = <<>> THEN [Fact(MechanismOf(r), "HANDLER_REGISTRATION", "REFUSED", "INFORMATIONAL") EXCEPT !.site = r.callsite]
    ELSE [Fact(MechanismOf(r), "HANDLER_REGISTRATION", "REGISTRATION_HANDLER_EXACT", "REVIEW") EXCEPT !.func = r.func_begin, !.site = r.callsite, !.handler = r.handler]

\* What takes a registration back: any removal of a vectored handler, another
\* filter.
Barriers(calls, r) ==
    {c.callsite : c \in {d \in Range(calls) : d.func_begin = r.func_begin
                                        /\ IF MechanismOf(r) = "VEH" THEN d.name = "RemoveVectoredExceptionHandler"
                                           ELSE d.name = "SetUnhandledExceptionFilter" /\ d.callsite # r.callsite}}

\* The traps and raised exceptions of a function, by address.
TriggersOf(g, calls, r) ==
    LET raised == {c.callsite : c \in {d \in Range(calls) : d.func_begin = r.func_begin /\ d.name = "RaiseException" /\ d.call}}
    IN SelectSeq([n \in DOMAIN g |-> n], LAMBDA n : g[n].op \in Traps \/ g[n].rva \in raised)

TriggerFact(g, n, r) ==
    [Fact(MechanismOf(r), IF g[n].op \in Traps THEN g[n].op ELSE "RAISE_EXCEPTION", "TRIGGER_HANDLER_CORRELATED", IF MechanismOf(r) = "VEH" THEN "HIGH" ELSE "REVIEW")
     EXCEPT !.func = r.func_begin, !.site = r.callsite, !.trigger = g[n].rva, !.handler = r.handler]

\* Those that are reached only through a registration nothing takes back in
\* between.
TriggersUnder(g, ri, barriers, ts) ==
    SelectSeq(ts, LAMBDA n : /\ n # ri /\ pe_dominates(g, ri, n) /\ n \in pe_reachable(g, ri, {})
                             /\ ~pe_barrier_between(g, ri, n, barriers))

TriggerFacts(g, calls, r) ==
    LET ns == UNION {Range(TriggersUnder(g, ri, Barriers(calls, r), TriggersOf(g, calls, r))) : ri \in By(g, r.callsite)}
        sorted == SetToSortSeq(ns, <)
    IN [m \in DOMAIN sorted |-> TriggerFact(g, sorted[m], r)]

Triggers(x, calls, r) == IF ~r.call THEN <<>> ELSE TriggerFacts(pe_decode_range(x, [begin |-> r.func_begin, end |-> r.func_end]), calls, r)

\* ---------------------------------------------------------------- the handler

LastWriter(g, n, r) ==
    LET ws == {m \in 1 .. n - 1 : ins_writes_reg(g[m], r)} IN IF ws = {} THEN 0 ELSE Max(ws)

\* Every return that is reached gives EXCEPTION_CONTINUE_EXECUTION, which the
\* block it stands in loads; the low 32 bits count.
LoadsContinue(g, w, n) == w # 0 /\ pe_same_basic_block(g, w, n) /\ g[w].op \in {"const", "const32"} /\ g[w].imm % (RvaLimit + 1) = RvaLimit

pe_continue_execution_returns(g) ==
    LET rets == {n \in DOMAIN g : g[n].op = "ret" /\ n \in pe_reachable(g, 1, {})}
    IN rets # {} /\ \A n \in rets : LoadsContinue(g, LastWriter(g, n, "rax"), n)

\* A write of CONTEXT.Rip through a register that the same block loaded from
\* EXCEPTION_POINTERS.ContextRecord.
FromContextRecord(g, d, n) == d # 0 /\ pe_same_basic_block(g, d, n) /\ g[d].op = "load" /\ g[d].base = "rcx" /\ g[d].disp = 8

WritesContext(g, n) == g[n].op \in {"store", "addm"} /\ g[n].disp = Rip /\ g[n].base # "none" /\ FromContextRecord(g, LastWriter(g, n, g[n].base), n)

Evidence(x, g, n) ==
    LET target == IF n # 0 /\ g[n].op = "store" /\ g[n].reg = "none" THEN ToRva(g[n].imm) ELSE Bad
    IN [pc_write |-> n # 0, resume_proven |-> n # 0 /\ pe_continue_execution_returns(g), exact_target |-> IF target # Bad /\ pe_executable_rva(x, target) THEN target ELSE Bad]

EvidenceIn(x, g) == Evidence(x, g, FirstWhere(Len(g), LAMBDA m : WritesContext(g, m)))

pe_handler_context_evidence(x, handler) ==
    LET k == Entry(x, handler) IN EvidenceIn(x, IF k = 0 THEN <<>> ELSE pe_decode_range(x, x.runtime[k]))

\* The last trigger found for a registration says under what the handler runs.
Linked(facts, r) ==
    SelectLastInSeq(facts, LAMBDA f : f.mechanism = MechanismOf(r) /\ f.state = "TRIGGER_HANDLER_CORRELATED" /\ f.handler = r.handler /\ f.site = r.callsite)

\* A call of SetThreadContext in the handler is never taken for a redirection.
SetsThreadContext(x, calls, r) ==
    LET k == Entry(x, r.handler) IN k # 0 /\ \E c \in Range(calls) : c.name = "SetThreadContext" /\ c.func_begin = x.runtime[k].begin

ContextFact(facts, r, ev, linked, sets) ==
    LET confirmed == ev.pc_write /\ ev.resume_proven
        high == confirmed /\ linked # 0 /\ MechanismOf(r) = "VEH"
        f == Fact(MechanismOf(r) \o "_CONTEXT_RESUME", IF linked # 0 THEN facts[linked].kind ELSE "REGISTERED_HANDLER_CONTEXT",
                  IF confirmed THEN "CONTEXT_PC_REWRITE_CONFIRMED" ELSE "CONTEXT_CONTROL_CAPABILITY", IF high THEN "HIGH" ELSE "REVIEW")
    IN [f EXCEPT !.func = IF linked # 0 THEN facts[linked].func ELSE 0, !.site = r.callsite, !.handler = r.handler, !.trigger = IF linked # 0 THEN facts[linked].trigger ELSE Bad,
                 !.landing = IF confirmed THEN ev.exact_target ELSE Bad] @@ [refused |-> ~confirmed /\ sets]

HandlerFact(x, calls, out, r) ==
    exceptional_add(out, ContextFact(out.facts, r, pe_handler_context_evidence(x, r.handler), Linked(out.facts, r), SetsThreadContext(x, calls, r)))

FactsOf(x, calls, rs, exact, out) ==
    LET registered == AddAll(out, [n \in DOMAIN rs |-> RegistrationFact(x, rs[n])])
        triggered == AddAll(registered, FlattenSeq([n \in DOMAIN exact |-> Triggers(x, calls, exact[n])]))
    IN FoldLeft(LAMBDA s, r : HandlerFact(x, calls, s, r), triggered, exact)

RegistrationFacts(x, calls, rs, out) == FactsOf(x, calls, rs, Exact(x, rs), out)

CodeFacts(x, calls, out) == RegistrationFacts(x, calls, Registered(x, calls), out)

IsX64(x) == x.pe64 /\ x.machine = AMD64

WithCode(x, out) == IF IsX64(x) THEN CodeFacts(x, pe_api_calls(x), out) ELSE out

Metadata(x, out) == CASE IsX64(x) -> UnwindFacts(x, out) [] ~x.pe64 /\ x.machine = I386 -> SafeSehFacts(x, out) [] OTHER -> out

analyze_pe_exception_flow(x) ==
    LET none == [facts |-> <<>>, limited |-> FALSE, count |-> [p \in {"HIGH", "REVIEW", "INFORMATIONAL"} |-> 0]]
    IN exceptional_finish(IF x.machine \notin {AMD64, I386} THEN [none EXCEPT !.limited = TRUE] ELSE WithCode(x, GuardFacts(x, Metadata(x, none))))

\* ---------------------------------------------------------------- composition

pe_exec_allocation_protection(p) == p \in {16, 32, 64, 128}

\* The function of a TLS callback allocates executable memory.
Allocates(x, calls) == \E c \in Range(calls) : pe_exec_allocation_protection(pe_scalar_arg(x, c, "r9"))

pe_tls_contains_exec_allocation(x, cb) ==
    LET k == IF ToRva(cb.target) = Bad THEN 0 ELSE Entry(x, ToRva(cb.target))
    IN k # 0 /\ Allocates(x, pe_targeted_calls_in_function(x, x.runtime[k], "VirtualAlloc"))

\* A callback before the entry that allocates executable memory, together with a
\* handler: a surface to be reviewed, of high priority when a trigger is known.
Surface(x, ex) ==
    LET allocates == \E cb \in Range(x.tls) : cb.backed /\ pe_tls_contains_exec_allocation(x, cb)
        registered(f) == f.mechanism \in {"VEH", "UNHANDLED_EXCEPTION_FILTER"} /\ f.handler # Bad /\ f.site # Bad
        strong == \E f \in Range(ex.facts) : registered(f) /\ f.priority = "HIGH" /\ f.trigger # Bad
        reg == \E f \in Range(ex.facts) : registered(f) /\ f.state = "REGISTRATION_HANDLER_EXACT"
    IN IF DOMAIN pe_named_iat(x, Registering) = {} \/ ~allocates THEN "none" ELSE IF strong THEN "HIGH" ELSE IF reg THEN "REVIEW" ELSE "none"

WithSurface(x, ex) == ex @@ [surface |-> IF IsX64(x) THEN Surface(x, ex) ELSE "none"]

NotPresent == [state |-> "NOT_PRESENT", valid |-> FALSE, ranges |-> <<>>, facts |-> <<>>, surface |-> "none"]

PeExceptionFlow(x) == IF ~x.valid THEN NotPresent ELSE WithSurface(x, analyze_pe_exception_flow(x))

\* ---------------------------------------------------------------- inputs

I(op, reg, base, disp, imm) == [op |-> op, reg |-> reg, base |-> base, disp |-> disp, imm |-> imm]

Op(op) == I(op, "none", "none", 0, 0)

To(op, target) == I(op, "none", "none", 0, target)

Set(op, reg, v) == I(op, reg, "none", 0, v)

Mov(reg, base) == I("mov", reg, base, 0, 0)

Load(reg, base, disp) == I("load", reg, base, disp, 0)

Store(base, v) == I("store", "none", base, Rip, v)

\* Slots of the import table, and the data cell.
AddSlot == 80

RemoveSlot == 88

FilterSlot == 96

RaiseSlot == 104

AllocSlot == 120

CellRva == 70

Import(names) == [iat_rva |-> 80, functions |-> [i \in DOMAIN names |-> [name |-> names[i], by_ordinal |-> FALSE]]]

Kernel32 == Import(<<"AddVectoredExceptionHandler", "RemoveVectoredExceptionHandler", "SetUnhandledExceptionFilter", "RaiseException", "SetThreadContext", "VirtualAlloc">>)

Installs == <<Set("leam", "rdx", 20), Op("nop"), To("callm", AddSlot), Op("nop"), Op("int3"), Op("nop"), Op("ret")>>

InstallsBoth == <<Set("leam", "rdx", 20), To("callm", AddSlot), Set("leam", "rcx", 20), To("callm", FilterSlot), Op("ud2"), To("callm", RaiseSlot), Op("ret")>>

InstallsTwice == <<Set("leam", "rcx", 20), To("callm", FilterSlot), Set("leam", "rcx", 20), To("callm", FilterSlot), Op("int3"), Op("ret")>>

InstallsByRegister == <<Set("movm", "rax", AddSlot), Set("leam", "rbx", 20), Mov("rdx", "rbx"), Set("callr", "rax", 0), Mov("rdx", "rbx"), Set("callr", "rax", 0), Op("int3"), Op("ret")>>

InstallsOther == [InstallsByRegister EXCEPT ![4] = Set("const", "rax", 0)]

InstallsBySum == <<Set("const32", "rbx", 110), Set("sub", "rbx", 1), I("lea", "rdx", "rbx", 11, 0), To("callm", AddSlot), Op("int3"), Op("ret")>>

Handles == <<Load("rax", "rcx", 8), Store("rax", 130), Op("nop"), Op("nop"), Set("const", "rax", -1), Op("ret")>>

Protects == <<Set("const", "r9", 64), Op("nop"), To("callm", AllocSlot), Op("ret")>>

Jumps == <<Op("endbr"), To("jmpm", RemoveSlot), Op("endbr"), To("jmpm", AllocSlot)>>

InstallAlts == {Mov("rdx", "rbx"), Set("const", "rdx", 120), Set("const", "rdx", 50), Set("const32", "rdx", 135), Set("const", "rdx", 356), Set("movm", "rdx", CellRva), Set("stm", "none", CellRva), I("lea", "rdx", "rbx", 1, 0),
                Set("add", "rdx", 1), Set("sub", "rdx", 1), Set("leam", "rbx", 20), Set("leam", "rdx", 75), Set("leam", "rcx", 20), Set("movm", "rax", AddSlot), Set("movm", "rax", RemoveSlot), Set("callr", "rax", 0),
                To("callm", RemoveSlot), To("callm", FilterSlot), To("callm", RaiseSlot), To("call", 30), To("call", 40), To("call", 41), To("jmpm", AddSlot), To("jcc", 12), To("jcc", 14), To("jmp", 11), Op("ret"), Op("bad")}

HandleAlts == {Mov("rcx", "rbx"), Mov("rbx", "rax"), Load("rbx", "rcx", 8), Load("rax", "rbx", 8), Store("rbx", 130), Store("rax", 175), Store("rcx", 130), I("addm", "none", "rax", Rip, 1), Set("const", "rax", 0),
               Set("const32", "rax", 255), Set("const", "rax", -1), Set("xor", "rbx", 0), To("jcc", 22), To("jcc", 24), To("jcc", 25), To("jmp", 23), To("call", 30), To("callm", 112), Op("ret"), Op("bad")}

AllocateAlts == {Set("const", "r9", 4), I("xor", "r9", "r9", 0, 0), Mov("r9", "rbx"), Set("const", "rbx", 64), To("callm", RaiseSlot), To("call", 42), To("call", 43), To("jcc", 32), To("jmp", 32)}

Unwind(flags, value) == [version |-> 1, flags |-> flags, count |-> 3, value |-> value]

\* The exception directory of four functions.
Directory(fs) == [k \in DOMAIN fs |-> [begin |-> 10 * k, end |-> 10 * k + Len(fs[k]), unwind |-> IF k < 3 THEN 110 + 20 * k ELSE 170]]

NoLoad == [present |-> FALSE, seh_table |-> 0, seh_count |-> 0, guard |-> FALSE]

Program == <<Installs, Handles, Protects, Jumps>>

PeBase == [part |-> "pe", size |-> 180, valid |-> TRUE, pe64 |-> TRUE, machine |-> AMD64, headers |-> 5, imports |-> <<Kernel32>>, cell |-> 120, functions |-> Program, runtime |-> Directory(Program),
           sections |-> <<[rva |-> 10, vsize |-> 50, raw |-> 50, at |-> 12, exec |-> TRUE], [rva |-> 70, vsize |-> 60, raw |-> 60, at |-> 60, exec |-> FALSE], [rva |-> 130, vsize |-> 40, raw |-> 60, at |-> 120, exec |-> FALSE]>>,
           unwinds |-> <<Unwind(4, 150), Unwind(4, 170), Unwind(0, 0)>>, load |-> NoLoad, handlers |-> <<20, 0, 75, 21>>, tls |-> <<[target |-> 130, backed |-> TRUE]>>]

Load32(table, count) == [present |-> TRUE, seh_table |-> table, seh_count |-> count, guard |-> FALSE]

PeAlt == [valid |-> {FALSE}, pe64 |-> {FALSE}, machine |-> {I386, 0}, cell |-> {90, 21}, headers |-> {0, 22, 45}, size |-> {0, 45, 67, 105, 150, 175},
          imports |-> {<<>>, <<[Kernel32 EXCEPT !.functions[1].by_ordinal = TRUE]>>, <<[Kernel32 EXCEPT !.functions[1].name = "none", !.functions[3].name = "none"]>>, <<[Kernel32 EXCEPT !.functions[6].name = "none"]>>,
                       <<Import(<<"GetTickCount", "AddVectoredExceptionHandler">>), [Kernel32 EXCEPT !.iat_rva = 96]>>},
          sections |-> {[PeBase.sections EXCEPT ![1].raw = 25], [PeBase.sections EXCEPT ![1].exec = FALSE], [PeBase.sections EXCEPT ![1].at = 176], [PeBase.sections EXCEPT ![3].raw = 20],
                        <<[rva |-> 20, vsize |-> 10, raw |-> 10, at |-> 22, exec |-> FALSE]>> \o PeBase.sections, <<[rva |-> 20, vsize |-> 10, raw |-> 10, at |-> 200, exec |-> FALSE]>> \o PeBase.sections},
          unwinds |-> {<<Unwind(4, 150), Unwind(4, 170), Unwind(1, 20)>>, <<Unwind(4, 150), Unwind(4, 130), Unwind(0, 0)>>, <<Unwind(2, 21), Unwind(1, 75), [Unwind(0, 0) EXCEPT !.version = 3]>>,
                       <<Unwind(1, 0), Unwind(12, 170), [Unwind(3, 20) EXCEPT !.version = 2]>>, <<Unwind(5, 20), Unwind(0, 0), [Unwind(1, 20) EXCEPT !.count = 9]>>},
          load |-> {Load32(200, 4), Load32(200, 5), Load32(200, 24), Load32(90, 1), Load32(200, 0), [Load32(0, 1) EXCEPT !.guard = TRUE]},
          tls |-> {<<>>, <<[target |-> 131, backed |-> TRUE], [target |-> 130, backed |-> TRUE]>>, <<[target |-> 130, backed |-> FALSE]>>, <<[target |-> 30, backed |-> TRUE]>>},
          runtime |-> {SubSeq(Directory(Program), 1, 1), Reverse(Directory(Program)), [Directory(Program) EXCEPT ![1].end = 10], [Directory(Program) EXCEPT ![1].end = 18], [Directory(Program) EXCEPT ![2].end = 35],
                       Append(Directory(Program), [begin |-> 12, end |-> 17, unwind |-> 130]), <<[begin |-> 10, end |-> 17, unwind |-> 170]>> \o Directory(Program)}]

\* A function with one or two of its instructions replaced, one of them by a
\* branch, a return or a copy of a register.
IsEdited(x, k, alts) ==
    \E n, m \in DOMAIN PeBase.functions[k], i \in alts, j \in {a \in alts : a.op \in {"mov", "jcc", "ret"}} :
      x = [PeBase EXCEPT !.functions[k] = [@ EXCEPT ![n] = i, ![m] = j]]

PeInput(x) ==
    \/ IsEdited(x, 1, InstallAlts)
    \/ IsEdited(x, 2, HandleAlts)
    \/ IsEdited(x, 3, AllocateAlts)
    \/ IsVariant(x, PeBase, PeAlt)
    \/ \E f \in {InstallsBoth, InstallsTwice, InstallsByRegister, InstallsOther, InstallsBySum, [Installs EXCEPT ![1] = Set("leam", "rcx", 20), ![3] = To("callm", FilterSlot)]}, cell \in {120, 90} :
         x = [PeBase EXCEPT !.functions[1] = f, !.runtime = Directory([Program EXCEPT ![1] = f]), !.cell = cell]

\* ---------------------------------------------------------------- reference

Num(v) == [kind |-> "number", value |-> v]

Api(s) == [kind |-> "api", value |-> s]

Pointers == [kind |-> "pointers", value |-> 0]

Context == [kind |-> "context", value |-> 0]

Other == [kind |-> "other", value |-> 0]

Plus(v, d) == IF v.kind = "number" THEN Num(v.value + d) ELSE IF d = 0 THEN v ELSE Other

\* The name of the imported function at a slot.
Imported(x, slot) ==
    LET iat == pe_named_iat(x, {f.name : f \in UNION {Range(m.functions) : m \in Range(x.imports)}}) IN IF slot \in DOMAIN iat THEN iat[slot] ELSE "none"

Value(x, s, i) ==
    CASE i.op = "mov" -> s.regs[i.base]
      [] i.op \in {"const", "const32"} -> Num(Extended(i))
      [] i.op = "movm" -> IF i.imm = CellRva THEN s.cell ELSE Api(i.imm)
      [] i.op = "leam" -> Num(ImageBase + i.imm)
      [] i.op = "lea" -> Plus(s.regs[i.base], i.disp)
      [] i.op = "add" -> Plus(s.regs[i.reg], i.imm)
      [] i.op = "sub" -> Plus(s.regs[i.reg], -i.imm)
      [] i.op = "xor" -> IF i.base = i.reg THEN Num(0) ELSE Other
      [] OTHER -> IF s.regs[i.base] = Pointers /\ i.disp = 8 THEN Context ELSE Other

\* The slot a thunk jumps through, after its ENDBR64.
ThunkSlot(x, first) ==
    LET thunk == IF first.op = "endbr" THEN pe_decode_one(x, first.rva + 1) ELSE first IN IF thunk.op = "jmpm" THEN thunk.imm ELSE 0

\* The imported function a transfer ends in, when the instruction is executed.
Reaches(x, s, i) ==
    LET slot == CASE i.op \in {"callm", "jmpm"} -> i.imm
                  [] i.op \in {"call", "jmp"} -> ThunkSlot(x, pe_decode_one(x, i.imm))
                  [] i.op = "callr" -> IF s.regs[i.reg].kind = "api" THEN s.regs[i.reg].value ELSE 0
                  [] OTHER -> 0
    IN Imported(x, slot)

\* One instruction of a function: the registers, the data cell, what is written
\* to Rip and the registrations in force.
Executed(x, s, i, api) ==
    LET regs == IF IsCall(i) THEN [r \in Registers |-> IF r \in Volatile THEN Other ELSE s.regs[r]] ELSE IF Writer(i) THEN [s.regs EXCEPT ![i.reg] = Value(x, s, i)] ELSE s.regs
        context == i.op \in {"store", "addm"} /\ i.disp = Rip /\ s.regs[i.base] = Context
    IN [s EXCEPT !.regs = regs, !.cell = IF i.op = "stm" THEN Other ELSE @,
                 !.rip = IF ~context THEN @ ELSE IF i.op = "store" /\ i.reg = "none" THEN Num(i.imm) ELSE Other, !.writes = IF context /\ @ < 2 THEN @ + 1 ELSE @,
                 !.veh = CASE api = "AddVectoredExceptionHandler" -> @ \cup {i.rva} [] api = "RemoveVectoredExceptionHandler" -> {} [] OTHER -> @,
                 !.filter = IF api = "SetUnhandledExceptionFilter" THEN i.rva ELSE @]

\* Every state a function passes through from its entry.
Walk(x, g) ==
    LET start == [pc |-> 1, regs |-> [r \in Registers |-> IF r = "rcx" THEN Pointers ELSE Other], cell |-> Num(x.cell), rip |-> Other, writes |-> 0, veh |-> {}, filter |-> 0]
        next(s) == {[Executed(x, s, g[s.pc], Reaches(x, s, g[s.pc])) EXCEPT !.pc = n] : n \in Edges(g, s.pc)}
    IN Closure({start}, next, Len(g) + 4)

InForce(s, f) == IF f.mechanism = "VEH" THEN f.site \in s.veh ELSE s.filter = f.site

\* Every call leads to one of the functions looked for, and no thunk begins with
\* an instruction of its own: only the scan for one function
\* (pe_targeted_calls_in_function) recognizes those.
Recognized(x, g) ==
    \A i \in Range(g) :
      /\ i.op \in {"call", "jmp"} => pe_decode_one(x, i.imm).op # "endbr"
      /\ i.op = "call" => pe_decode_one(x, i.imm).op = "jmpm"

\* Nothing before the instruction jumps or returns, and nothing jumps back over it.
Straight(g, n) ==
    \A m \in DOMAIN g :
      /\ g[m].op \in {"jmp", "jmpm", "jcc", "ret"} => m > n
      /\ g[m].op \in {"jmp", "jcc"} => g[m].imm > g[n].rva

Mechanism(api) == IF api \in Registering THEN MechanismOf([name |-> api]) ELSE "none"

RegistrationHolds(x, f, g, walk, n) ==
    Straight(g, n) => \A s \in {t \in walk : t.pc = n} :
      /\ "stm" \notin {i.op : i \in Range(g)} => s.regs[IF f.mechanism = "VEH" THEN "rdx" ELSE "rcx"] = Num(ImageBase + f.handler)
      /\ Recognized(x, g) => f.mechanism = Mechanism(Reaches(x, s, g[n]))

TriggerHolds(x, f, g, walk) == Recognized(x, g) => \A s \in {t \in walk : g[t.pc].rva = f.trigger} : InForce(s, f)

ContextHolds(x, f, g, rets) ==
    /\ \A s \in rets : s.regs["rax"].kind = "number" /\ s.regs["rax"].value % (RvaLimit + 1) = RvaLimit
    /\ Straight(g, Len(g) - 1) => \A s \in rets : s.writes > 0 /\ (f.landing # Bad /\ s.writes = 1 => s.rip = Num(ImageBase + f.landing))

\* A directory whose entries do not share bytes.
Disjunct(x) == \A j, k \in DOMAIN x.runtime : j < k => x.runtime[j].end <= x.runtime[k].begin \/ x.runtime[k].end <= x.runtime[j].begin

FactHolds(x, f, g, walk) ==
    /\ f.state = "REGISTRATION_HANDLER_EXACT" => \A n \in By(g, f.site) : RegistrationHolds(x, f, g, walk, n)
    /\ f.state = "TRIGGER_HANDLER_CORRELATED" => TriggerHolds(x, f, g, walk)

HandlerHolds(x, f, g, walk) == f.state = "CONTEXT_PC_REWRITE_CONFIRMED" => ContextHolds(x, f, g, {s \in walk : g[s.pc].op = "ret"})

\* The function at an address and every state it passes through.
Walked(x, g) == [code |-> g, walk |-> IF g = <<>> THEN {} ELSE Walk(x, g)]

\* What a fact says of its function, and of its handler.
FactIs(x, f, k, w) ==
    /\ k = Entry(x, f.func) => FactHolds(x, f, w.code, w.walk)
    /\ k = Entry(x, f.handler) => HandlerHolds(x, f, w.code, w.walk)

PeExact(x, r) ==
    r.valid /\ Disjunct(x) => \A f \in Range(r.facts) : \A k \in {Entry(x, f.func), Entry(x, f.handler)} :
      FactIs(x, f, k, Walked(x, IF k = 0 THEN <<>> ELSE pe_decode_range(x, x.runtime[k])))
=============================================================================
