---------------------------- MODULE ControlRecords ----------------------------
(***************************************************************************)
(* Tables of records with code pointers and the functions that dispatch    *)
(* through them (detect/control_record.cpp).  A function is followed once  *)
(* from its first to its last instruction with the register values known;  *)
(* its indirect calls, strides and loop limits propose a table, and the    *)
(* table counts when its records are as many as the function dispatches.   *)
(*                                                                         *)
(* Addresses, offsets and strides are in units of eight bytes.  The memory *)
(* says what a word points to: "code" directly, "reloc" by a relocation,   *)
(* "import" to a symbol of another file, "text" to a printable string.     *)
(***************************************************************************)
EXTENDS Words

CONSTANTS MAX_RECORD_STRIDE, MAX_RECORD_COUNT, MAX_CANDIDATE_EVALUATIONS, MAX_INDIRECT_CALLS_PER_FUNCTION

Add(v, d) == (v + d + WordLimit) % WordLimit

nonexec_file_backed(x, va, n) == x.lo <= va /\ va + n <= x.hi

executable_pointer_at(x, va) == va \in DOMAIN x.mem /\ x.mem[va] \in {"code", "reloc"}

printable_string_pointer_at(x, va) == va \in DOMAIN x.mem /\ x.mem[va] = "text"

\* rax stands for the registers a call destroys, rbx for those it keeps.
Unknown == [rax |-> Bad, rbx |-> Bad]

memory_address(i, regs) == IF i.base = "rip" THEN i.disp ELSE IF regs[i.base] = Bad THEN Bad ELSE Add(regs[i.base], i.disp)

apply_register_write(i, regs) ==
    CASE i.op = "set" -> [regs EXCEPT ![i.reg] = i.imm]
      [] i.op = "add" -> [regs EXCEPT ![i.reg] = IF @ = Bad THEN Bad ELSE Add(@, i.imm)]
      [] i.op = "load" -> [regs EXCEPT ![i.reg] = Bad]
      [] i.op \in {"call", "direct"} -> [regs EXCEPT !.rax = Bad]
      [] OTHER -> regs

Magnitude(d) == IF d < 0 THEN -d ELSE d

\* A load remembers where the value comes from; comparing it makes the field one
\* that decides.  A branch on zero right behind an update belongs to it.
Inspect(x, s, i, at) ==
    LET slot == memory_address(i, s.regs)
        dispatch == i.op = "call" /\ slot # Bad /\ executable_pointer_at(x, slot)
        room == Len(s.calls) < MAX_INDIRECT_CALLS_PER_FUNCTION
        update == i.op = "add" /\ Magnitude(i.imm) \in 2 .. MAX_RECORD_STRIDE
        marked == IF i.op \in {"jz", "jnz"} /\ s.previous THEN [s.strides EXCEPT ![Len(s.strides)].zero = TRUE] ELSE s.strides
    IN [s EXCEPT
          !.back = @ \/ (i.op \in {"jz", "jnz", "jmp"} /\ i.to < at),
          !.strides = IF update THEN Append(marked, [reg |-> i.reg, delta |-> i.imm, before |-> s.regs[i.reg], zero |-> FALSE]) ELSE marked,
          !.previous = update,
          !.limits = IF i.op = "cmp" THEN @ \cup {<<i.reg, i.imm>>} ELSE @,
          !.calls = IF dispatch /\ room THEN Append(@, [slot |-> slot, base |-> i.base]) ELSE @,
          !.limited = @ \/ (dispatch /\ ~room),
          !.hints = IF dispatch /\ i.base # "rip" /\ nonexec_file_backed(x, s.regs[i.base], 1) THEN @ \cup {s.regs[i.base]} ELSE @,
          !.scalars = @ \cup (IF i.op = "load" /\ slot # Bad THEN {[slot |-> slot, control |-> FALSE]} ELSE {})
                        \cup (IF i.op = "cmp" /\ s.origins[i.reg] # Bad THEN {[slot |-> s.origins[i.reg], control |-> TRUE]} ELSE {}),
          !.origins = IF i.op \in {"set", "add", "load"} THEN [@ EXCEPT ![i.reg] = IF i.op = "load" THEN slot ELSE Bad]
                      ELSE IF i.op \in {"call", "direct"} THEN [@ EXCEPT !.rax = Bad] ELSE @,
          !.regs = apply_register_write(i, @)]

inspect_consumer(x, f) ==
    FoldLeft(LAMBDA s, n : Inspect(x, s, f[n], n),
             [regs |-> Unknown, origins |-> Unknown, calls |-> <<>>, scalars |-> {}, strides |-> <<>>, limits |-> {}, hints |-> {},
              back |-> FALSE, previous |-> FALSE, limited |-> FALSE], [n \in DOMAIN f |-> n])

record_has_fields(x, base, fields) == \A off \in fields : executable_pointer_at(x, base + off)

common_executable_fields(x, base, stride) ==
    {off \in 0 .. stride - 1 : \A n \in 0 .. 3 : executable_pointer_at(x, base + n * stride + off)}

IsRecord(x, base, stride, fields) == base >= 0 /\ nonexec_file_backed(x, base, stride) /\ record_has_fields(x, base, fields)

\* The records before the seed and those from the first on, as far as they go.
Back(x, seed, stride, fields) ==
    CHOOSE k \in 0 .. MAX_RECORD_COUNT :
        /\ \A j \in 1 .. k : IsRecord(x, seed - j * stride, stride, fields)
        /\ k = MAX_RECORD_COUNT \/ ~IsRecord(x, seed - (k + 1) * stride, stride, fields)

Count(x, base, stride, fields) ==
    CHOOSE n \in 0 .. MAX_RECORD_COUNT :
        /\ \A j \in 0 .. n - 1 : IsRecord(x, base + j * stride, stride, fields)
        /\ n = MAX_RECORD_COUNT \/ ~IsRecord(x, base + n * stride, stride, fields)

mutability(x, base, size) ==
    IF x.relro.off <= base /\ base + size <= x.relro.off + x.relro.len THEN "PT_GNU_RELRO"
    ELSE IF x.writable THEN "WRITABLE_PT_LOAD" ELSE "READ_ONLY_PT_LOAD"

\* The table a seed proposes, at most one.
evaluate_candidate(x, c, seed, stride, profile) ==
    LET fields == common_executable_fields(x, seed, stride)
        base == seed - Back(x, seed, stride, fields) * stride
        count == Count(x, base, stride, fields)
        size == count * stride
        inside(slot) == base <= slot /\ slot < base + size
        strings == {off \in 0 .. stride - 1 : off \notin fields /\ \A n \in 0 .. count - 1 : printable_string_pointer_at(x, base + n * stride + off)}
        scalars == {(s.slot - base) % stride : s \in {q \in c.scalars : inside(q.slot)}} \ (fields \cup strings)
    IN IF /\ nonexec_file_backed(x, seed, 4 * stride) /\ fields # {} /\ count >= 4
          /\ \A i \in DOMAIN c.calls : inside(c.calls[i].slot) /\ (c.calls[i].slot - base) % stride \in fields
       THEN {[base |-> base, stride |-> stride, count |-> count, fields |-> fields, strings |-> strings,
              control |-> {(s.slot - base) % stride : s \in {q \in c.scalars : q.control /\ inside(q.slot)}} \cap scalars, scalars |-> scalars,
              profile |-> profile, mutability |-> mutability(x, base, size),
              score |-> Len(c.calls) * 10000 + count * 100 + Cardinality(strings) * 500 + Cardinality(fields) * 100 + Cardinality(scalars) * 20
                        + (IF base \in c.hints THEN 1000 ELSE 0) + 8 * (MAX_RECORD_STRIDE - (CHOOSE f \in fields : \A g \in fields : f <= g))]}
       ELSE {}

loop_strides(c) ==
    IF c.back THEN {Magnitude(u.delta) : u \in {v \in Range(c.strides) : \E i \in DOMAIN c.calls : c.calls[i].base = v.reg}} ELSE {}

\* The distances are unsigned: a counter may run from below zero up to it.
loop_count_hints(c, stride) ==
    LET us == {u \in Range(c.strides) : Magnitude(u.delta) = stride /\ u.before # Bad}
        distance(u, limit) == IF u.delta > 0 THEN Add(limit, -u.before) ELSE Add(u.before, -limit)
        ds == UNION {{distance(u, l[2]) : l \in {m \in c.limits : m[1] = u.reg}} \cup (IF u.zero THEN {distance(u, 0)} ELSE {}) : u \in us}
    IN {d \div stride : d \in {e \in ds : e % stride = 0}} \cap 4 .. MAX_RECORD_COUNT

PerField(c, q, off) == Cardinality({i \in DOMAIN c.calls : (c.calls[i].slot - q.base) % q.stride = off})

profile_count_exact(c, q) ==
    IF q.profile = "LOOP" THEN q.count \in loop_count_hints(c, q.stride)
    ELSE (\E off \in q.fields : PerField(c, q, off) = q.count) /\ \A off \in q.fields : PerField(c, q, off) <= q.count

unrolled_strides(c) ==
    IF Len(c.calls) < 4 THEN {}
    ELSE {s \in 2 .. MAX_RECORD_STRIDE : \E r \in 0 .. s - 1 : Cardinality({i \in DOMAIN c.calls : c.calls[i].slot % s = r}) >= 4}

\* One evaluation per stride, call and field, in this order.
Trials(c, strides, profile) ==
    FlattenSeq([k \in 1 .. Cardinality(strides) |->
        LET s == SetToSortSeq(strides, <)[k]
        IN FlattenSeq([i \in DOMAIN c.calls |-> [f \in 1 .. s |-> [seed |-> c.calls[i].slot - (f - 1), stride |-> s, profile |-> profile]]])])

Better(p, q) == p.score > q.score \/ (p.score = q.score /\ (p.stride < q.stride \/ (p.stride = q.stride /\ p.base <= q.base)))

Best(qs) == IF qs = {} THEN {} ELSE {CHOOSE q \in qs : \A p \in qs : Better(q, p)}

\* The evaluation that finds the budget spent is counted too.
try_profile(x, c, strides, profile, evaluations) ==
    LET ts == Trials(c, strides, profile)
        left == MAX_CANDIDATE_EVALUATIONS - evaluations
        done == IF Len(ts) <= left THEN Len(ts) ELSE IF left > 0 THEN left ELSE 0
        qs == UNION {{q \in evaluate_candidate(x, c, ts[i].seed, ts[i].stride, ts[i].profile) : profile_count_exact(c, q)} : i \in {j \in 1 .. done : ts[j].seed >= 0}}
    IN [complete |-> done = Len(ts), evaluations |-> evaluations + done + IF done < Len(ts) THEN 1 ELSE 0,
        best |-> Best(qs)]

OrUnrolled(x, c, loops) ==
    IF ~loops.complete \/ loops.best # {} THEN loops
    ELSE try_profile(x, c, unrolled_strides(c), "UNROLLED", loops.evaluations)

best_table(x, c, evaluations) == OrUnrolled(x, c, try_profile(x, c, loop_strides(c), "LOOP", evaluations))

WithTable(s, n, c, t) ==
    LET spent == t.evaluations >= MAX_CANDIDATE_EVALUATIONS
    IN [s EXCEPT !.evaluations = t.evaluations, !.limited = @ \/ c.limited \/ spent, !.stop = spent,
                 !.rejected = @ + IF t.best = {} THEN 1 ELSE 0,
                 !.tables = @ \o SetToSeq({q @@ [function |-> n] : q \in t.best})]

Consumer(x, s, n, c) ==
    IF c.calls = <<>> THEN [s EXCEPT !.limited = @ \/ c.limited] ELSE WithTable(s, n, c, best_table(x, c, s.evaluations))

Function(x, s, n) == IF s.stop THEN s ELSE Consumer(x, s, n, inspect_consumer(x, x.functions[n]))

Tables(x, s) ==
    [state |-> IF s.limited THEN "PARTIAL" ELSE IF s.tables # <<>> THEN "RESOLVED" ELSE "ABSENT", valid |-> TRUE,
     ranges |-> [i \in DOMAIN s.tables |-> range(s.tables[i].base - x.lo, s.tables[i].stride * s.tables[i].count)], tables |-> s.tables]

detect_control_records(x) ==
    IF ~x.valid THEN Absent
    ELSE IF ~x.x86_64 \/ ~x.unwind \/ x.functions = <<>> THEN [state |-> "UNSUPPORTED", valid |-> FALSE, ranges |-> <<>>]
    ELSE Tables(x, FoldLeft(LAMBDA s, n : Function(x, s, n),
                            [evaluations |-> 0, limited |-> FALSE, stop |-> FALSE, rejected |-> 0, tables |-> <<>>], [n \in DOMAIN x.functions |-> n]))

\* ---------------------------------------------------------------- inputs

I(op, reg, imm, base, disp, to) == [op |-> op, reg |-> reg, imm |-> imm, base |-> base, disp |-> disp, to |-> to]

Set(r, v) == I("set", r, v, "rip", 0, 0)

Call(b, d) == I("call", "rax", 0, b, d, 0)

\* A loop over n records: the cursor in a register, or a counter that runs from
\* -n * stride to 0 beside a fixed address; ended by a comparison or by zero.
Loop(r, from, disp, stride, n, ending, body) ==
    <<Set(r, from)>> \o body \o <<Call(r, disp), I("add", r, stride, "rip", 0, 0)>>
    \o (IF ending = "cmp" THEN <<I("cmp", r, Add(from, n * stride), "rip", 0, 0)>> ELSE <<>>) \o <<I("jnz", "rax", 0, "rip", 0, 2)>>

Loops ==
    {Loop(r, 10, d, s, n, "cmp", b) : r \in {"rax", "rbx"}, d \in {0, 1}, s \in {2, 3}, n \in 3 .. 7,
        b \in {<<>>, <<I("load", "rax", 0, "rbx", 1, 0), I("cmp", "rax", 1, "rip", 0, 0)>>}}
    \cup {Loop("rbx", (WordLimit - s * n) % WordLimit, 10 + s * n + d, s, n, e, <<>>) : d \in {0, 1}, s \in {2, 3}, n \in 4 .. 5, e \in {"cmp", "zero"}}
    \cup {Loop("rbx", 10 + 2 * n - 2, 0, -2, n, "cmp", <<>>) : n \in 4 .. 5}

Unrolled == {[i \in 1 .. n |-> Call("rip", 10 + s * (i - 1) + IF i = odd THEN 1 ELSE 0)] : s \in {2, 3}, n \in 3 .. 5, odd \in {0, 2}}

\* A run of records, perhaps with one more pointer at either end.
Memories ==
    LET cell(l, a, k, pre, post) == [v \in 8 .. 29 |->
            IF v \in a .. a + k * Len(l) - 1 THEN l[((v - a) % Len(l)) + 1]
            ELSE IF (v = a - Len(l) /\ pre) \/ (v = a + k * Len(l) /\ post) THEN "code" ELSE "import"]
    IN {cell(l, a, k, pre, post) : l \in {<<"code", "text">>, <<"reloc", "none">>, <<"none", "code">>, <<"code", "reloc">>, <<"code", "text", "none">>},
            a \in {10}, k \in 4 .. 6, pre \in BOOLEAN, post \in BOOLEAN}

Base(mem, fs) == [part |-> "control", size |-> 22, lo |-> 8, hi |-> 30, valid |-> TRUE, x86_64 |-> TRUE, unwind |-> TRUE, writable |-> TRUE,
                  relro |-> range(8, 4), mem |-> mem, functions |-> fs]

ControlInput(x) ==
    \/ \E m \in Memories, f \in Loops \cup Unrolled : x = Base(m, <<f>>)
    \/ \E m \in {q \in Memories : q[8] = "import"}, f \in {<<I("direct", "rax", 0, "rip", 0, 0)>>, Loop("rbx", 10, 0, 2, 4, "cmp", <<>>)}, g \in Unrolled :
         x = Base(m, <<f, g>>)
    \/ \E m \in {q \in Memories : q[10] = "code" /\ q[8] = "import"} :
         IsVariant(x, Base(m, <<Loop("rbx", 10, 0, 2, 4, "cmp", <<>>)>>),
                   [valid |-> {FALSE}, x86_64 |-> {FALSE}, unwind |-> {FALSE}, writable |-> {FALSE}, relro |-> {range(8, 22)}, hi |-> {17, 19}])

\* ---------------------------------------------------------------- reference

\* What the function does when it runs: the slots it dispatches through, until it
\* returns or does something that is not known.
Execute(f) ==
    LET step[k \in 0 .. 40] ==
          IF k = 0 THEN [pc |-> 1, regs |-> Unknown, zero |-> FALSE, slots |-> <<>>, clean |-> TRUE]
          ELSE LET s == step[k - 1] IN
               IF s.pc > Len(f) \/ ~s.clean THEN s
               ELSE LET i == f[s.pc]
                        slot == memory_address(i, s.regs)
                    IN [s EXCEPT
                          !.pc = IF (i.op = "jnz" /\ ~s.zero) \/ (i.op = "jz" /\ s.zero) THEN i.to ELSE @ + 1,
                          !.zero = IF i.op = "add" THEN Add(s.regs[i.reg], i.imm) = 0 ELSE IF i.op = "cmp" THEN s.regs[i.reg] = i.imm ELSE @,
                          !.slots = IF i.op = "call" THEN Append(@, slot) ELSE @,
                          !.clean = ~((i.op \in {"add", "cmp"} /\ s.regs[i.reg] = Bad /\ i.op # "cmp") \/ (i.op \in {"call", "load"} /\ slot = Bad)),
                          !.regs = apply_register_write(i, @)]
        last == step[40]
    IN [last EXCEPT !.clean = @ /\ last.pc > Len(f)]

\* A table reported for a function is the one it dispatches through: when the
\* function runs, it calls one field of every record, and nothing outside, unless
\* calls were left out (then the finding is partial).  A scan
\* that ends at the limit has not seen the end of the table.
ControlExact(x, r) ==
    r.state = "RESOLVED" => \A k \in DOMAIN r.tables :
        LET t == r.tables[k]
            e == Execute(x.functions[t.function])
            slots == Range(e.slots)
            column(off) == {t.base + j * t.stride + off : j \in 0 .. t.count - 1}
        IN t.count < MAX_RECORD_COUNT /\ e.clean /\ IsInjective(e.slots) /\ (\A s \in slots : executable_pointer_at(x, s)) =>
             /\ \E off \in t.fields : column(off) \subseteq slots
             /\ slots \subseteq UNION {column(off) : off \in t.fields}
=============================================================================
