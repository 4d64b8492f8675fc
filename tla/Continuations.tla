---------------------------- MODULE Continuations ----------------------------
(***************************************************************************)
(* C++20 coroutines in an ELF file (detect/continuation.cpp).  A function  *)
(* that allocates a frame and stores two code pointers in it is a creator; *)
(* the first pointer must lead to a function that resumes (it dispatches   *)
(* on a field of the frame, writes it and clears the first pointer in the  *)
(* end), the second to one that destroys the frame.                        *)
(*                                                                         *)
(* Functions are straight lines of instructions.  rax and rdi stand for    *)
(* the registers a call destroys, rbx for those it keeps; the frame comes  *)
(* in rdi.  A store of width 8 is one of a pointer, one of width 4 of a    *)
(* state.                                                                  *)
(***************************************************************************)
EXTENDS Words, TLC

Registers == {"rax", "rbx", "rdi"}

Unknown == [kind |-> "unknown", value |-> 0]

Constant(v) == [kind |-> "constant", value |-> v]

Allocation(n) == [kind |-> "allocation", value |-> n]

clear_call_clobbers(regs) == [regs EXCEPT !.rax = Unknown, !.rdi = Unknown]

apply_register_write(i, regs) ==
    CASE i.op = "const" -> [regs EXCEPT ![i.reg] = Constant(i.imm)]
      [] i.op = "mov" -> [regs EXCEPT ![i.reg] = regs[i.base]]
      [] i.op = "lea" -> [regs EXCEPT ![i.reg] = IF regs[i.base].kind = "constant" THEN Constant(regs[i.base].value + i.disp)
                                               ELSE IF i.disp # 0 THEN Unknown ELSE regs[i.base]]
      [] i.op \in {"load", "add"} -> [regs EXCEPT ![i.reg] = Unknown]
      [] OTHER -> regs

\* The value a store writes: an immediate, or a register that is known.
Stored(i, regs) == IF i.reg = "none" THEN i.imm ELSE IF regs[i.reg].kind = "constant" THEN regs[i.reg].value ELSE Bad

IsFunction(x, v) == v \in DOMAIN x.functions

\* The pointers stored at 0 and at 8 of an allocation; once both are there, the
\* candidate is complete and later stores do not count.
Creator(x, s, n, f) ==
    LET i == f[n]
        base == s.regs[i.base]
        v == Stored(i, s.regs)
        hit == i.op = "store" /\ base.kind = "allocation" /\ i.disp \in {0, 8} /\ base.value \in DOMAIN s.pending /\ IsFunction(x, v)
        c == IF hit THEN [s.pending[base.value] EXCEPT ![IF i.disp = 0 THEN "resume" ELSE "destroy"] = v] ELSE [resume |-> 0, destroy |-> 0]
    IN IF i.op = "alloc"
       THEN [s EXCEPT !.regs = [clear_call_clobbers(@) EXCEPT !.rax = Allocation(n)],
                      !.pending = (n :> [site |-> n, resume |-> 0, destroy |-> 0,
                                         frame |-> IF s.regs.rdi.kind = "constant" /\ s.regs.rdi.value >= 16 THEN s.regs.rdi.value ELSE 0]) @@ @]
       ELSE IF i.op \in {"call", "free"} THEN [s EXCEPT !.regs = clear_call_clobbers(@)]
       ELSE [s EXCEPT !.regs = apply_register_write(i, @),
                      !.out = IF hit /\ c.resume # 0 /\ c.destroy # 0 THEN Append(@, c) ELSE @,
                      !.pending = IF ~hit THEN @ ELSE IF c.resume # 0 /\ c.destroy # 0 THEN [a \in DOMAIN @ \ {base.value} |-> @[a]] ELSE [@ EXCEPT ![base.value] = c]]

creator_candidates(x, f) ==
    FoldLeft(LAMBDA s, n : Creator(x, s, n, f), [regs |-> [r \in Registers \cup {"none"} |-> Unknown], pending |-> <<>>, out |-> <<>>], [n \in DOMAIN f |-> n]).out

\* A kept register that is given rdi anywhere near the beginning is taken for the
\* frame all the way.
stable_frame_aliases(f) == IF \E i \in Range(f) : i.op = "mov" /\ i.reg = "rbx" /\ i.base = "rdi" THEN {"rbx"} ELSE {}

Aliases0(f) == [r \in Registers \cup {"none"} |-> IF r = "rdi" \/ r \in stable_frame_aliases(f) THEN 0 ELSE Bad]

apply_frame_alias_write(i, al) ==
    LET kept(v) == IF v >= 0 THEN v ELSE Bad
    IN CASE i.op \in {"mov", "lea"} -> [al EXCEPT ![i.reg] = IF al[i.base] = Bad THEN Bad ELSE kept(al[i.base] + i.disp)]
         [] i.op = "add" -> [al EXCEPT ![i.reg] = IF @ = Bad THEN Bad ELSE kept(@ + i.imm)]
         [] i.op \in {"const", "load"} -> [al EXCEPT ![i.reg] = Bad]
         [] OTHER -> al

clear_frame_call_clobbers(al) == [al EXCEPT !.rax = Bad, !.rdi = Bad]

Walk(f, al, i) ==
    LET called == IF i.op \in {"call", "free", "alloc"} THEN clear_frame_call_clobbers(al) ELSE al
        written == apply_frame_alias_write(i, called)
    IN [r \in DOMAIN al |-> IF r \in stable_frame_aliases(f) THEN 0 ELSE written[r]]

\* What is known of the aliases before each instruction.
AliasesAt(f) ==
    LET al[n \in 1 .. Len(f) + 1] == IF n = 1 THEN Aliases0(f) ELSE Walk(f, al[n - 1], f[n - 1]) IN al

frame_memory_offset(i, al) == IF i.op \in {"load", "store", "or", "cmpm"} /\ al[i.base] # Bad /\ al[i.base] + i.disp >= 0 THEN al[i.base] + i.disp ELSE Bad

\* The frame field a register's value comes from, before each instruction.
OriginsAt(f) ==
    LET al == AliasesAt(f)
        field(n) == LET d == frame_memory_offset(f[n], al[n]) IN IF d >= 16 /\ f[n].width = 4 THEN d ELSE Bad
        og[n \in 1 .. Len(f) + 1] ==
          IF n = 1 THEN [r \in Registers \cup {"none"} |-> Bad]
          ELSE LET i == f[n - 1] o == og[n - 1]
               IN CASE i.op = "load" -> [o EXCEPT ![i.reg] = IF field(n - 1) # Bad THEN field(n - 1) ELSE o[i.base]]
                    [] i.op \in {"mov", "lea"} -> [o EXCEPT ![i.reg] = o[i.base]]
                    [] i.op = "const" -> [o EXCEPT ![i.reg] = Bad]
                    [] i.op \in {"call", "free", "alloc"} -> [o EXCEPT !.rax = Bad, !.rdi = Bad]
                    [] OTHER -> o
    IN og

\* The field the most accesses agree on, the first of equals.
ResumeField(f, at, fields, score) ==
    LET clears == \E n \in DOMAIN f : f[n].op = "store" /\ at[n] = 0 /\ f[n].width = 8 /\ f[n].reg = "none" /\ f[n].imm = 0
        state == CHOOSE d \in fields : \A k \in fields : score[k] < score[d] \/ (score[k] = score[d] /\ d <= k)
    IN IF fields = {} \/ ~clears THEN [valid |-> FALSE, state |-> 0, sites |-> {}]
       ELSE [valid |-> TRUE, state |-> state, sites |-> {n \in DOMAIN f : f[n].op = "store" /\ at[n] = state}]

\* The fields of the frame that are read, written and decide where to go on.
ResumeAt(f, at, og) ==
    LET narrow(n) == at[n] >= 16 /\ f[n].width = 4
        reads(d) == {n \in DOMAIN f : narrow(n) /\ at[n] = d /\ f[n].op \in {"load", "cmpm", "or"}}
        writes(d) == {n \in DOMAIN f : narrow(n) /\ at[n] = d /\ f[n].op \in {"store", "or"}}
        drivers == {og[n][f[n].reg] : n \in {k \in DOMAIN f : f[k].op \in {"cmp", "ijmp"}}} \cup {at[n] : n \in {k \in DOMAIN f : f[k].op = "cmpm" /\ narrow(k)}}
        fields == {d \in drivers \ {Bad} : reads(d) # {} /\ writes(d) # {}}
    IN ResumeField(f, at, fields, [d \in fields |-> Cardinality(reads(d)) + Cardinality(writes(d))])

OffsetsOf(f, al) == [n \in DOMAIN f |-> frame_memory_offset(f[n], al[n])]

verify_resume(f) == ResumeAt(f, OffsetsOf(f, AliasesAt(f)), OriginsAt(f))

verify_destroy(f, resume, state) ==
    LET al == AliasesAt(f)
        bit == \E n \in DOMAIN f : f[n].op = "or" /\ frame_memory_offset(f[n], al[n]) = state /\ f[n].imm % 2 = 1
        transfers == \E n \in DOMAIN f : f[n].op = "jmp" /\ f[n].imm = resume
        frees == {n \in DOMAIN f : f[n].op = "free" /\ al[n].rdi = 0}
    IN IF bit /\ transfers THEN "gcc" ELSE IF Cardinality(frees) = 1 THEN "clang" ELSE "none"

Continued(x, cs, resume) ==
    LET first(k) == \A j \in 1 .. k - 1 : <<cs[j].creator, cs[j].resume, cs[j].destroy>> # <<cs[k].creator, cs[k].resume, cs[k].destroy>>
        profile(k) == verify_destroy(x.functions[cs[k].destroy], cs[k].resume, resume[k].state)
        ok == {k \in DOMAIN cs : first(k) /\ resume[k].valid /\ profile(k) # "none"}
    IN [state |-> IF ok # {} THEN "RESOLVED" ELSE "NOT_PRESENT", valid |-> TRUE, ranges |-> <<>>,
        entries |-> {cs[k] @@ [field |-> resume[k].state, sites |-> resume[k].sites, profile |-> profile(k)] : k \in ok}]

WithCandidates(x, cs) == Continued(x, cs, [k \in DOMAIN cs |-> verify_resume(x.functions[cs[k].resume])])

CreatedBy(n, cs) == [k \in DOMAIN cs |-> cs[k] @@ [creator |-> n]]

detect_cpp20_continuations(x) ==
    IF ~x.valid THEN Absent
    ELSE IF ~x.x86_64 \/ ~x.unwind THEN [state |-> "UNSUPPORTED", valid |-> FALSE, ranges |-> <<>>]
    ELSE WithCandidates(x, FlattenSeq([n \in DOMAIN x.functions |-> CreatedBy(n, creator_candidates(x, x.functions[n]))]))

\* ---------------------------------------------------------------- inputs

I(op, reg, base, disp, imm, width) == [op |-> op, reg |-> reg, base |-> base, disp |-> disp, imm |-> imm, width |-> width]

Op(op) == I(op, "none", "none", 0, 0, 0)

Mov(r, q) == I("mov", r, q, 0, 0, 8)

Const(r, v) == I("const", r, "none", 0, v, 8)

Store(b, d, v, w) == I("store", "none", b, d, v, w)

Load(r, b, d) == I("load", r, b, d, 0, 4)

CreatorBase == <<Const("rdi", 24), Op("alloc"), Const("rdi", 2), I("store", "rdi", "rax", 0, 0, 8), Store("rax", 8, 3, 8)>>

ResumeBase == <<Mov("rbx", "rdi"), Load("rax", "rbx", 16), I("cmp", "rax", "none", 0, 1, 4), Store("rbx", 16, 2, 4), Op("call"), Store("rbx", 0, 0, 8)>>

DestroyBase == <<Mov("rbx", "rdi"), Op("call"), Mov("rdi", "rbx"), Op("free")>>

At(f, alts) == LET one(g) == {[g EXCEPT ![n] = i] : n \in DOMAIN g, i \in alts} IN {f} \cup one(f) \cup UNION {one(g) : g \in one(f)}

Creators == At(CreatorBase, {Op("call"), Op("alloc"), Mov("rbx", "rax"), Const("rdi", 3), Const("rax", 2), Store("rbx", 0, 2, 8), Store("rax", 0, 3, 8), Store("rax", 0, 0, 8),
                             I("lea", "rdi", "rdi", 1, 0, 8), I("store", "rdi", "rax", 8, 0, 8)})

Resumes == At(ResumeBase, {Op("call"), Mov("rdi", "rbx"), Const("rbx", 5), Const("rdi", 5), Store("rdi", 16, 4, 4), Store("rbx", 20, 1, 4), I("add", "rdi", "none", 0, 4, 8),
                           I("cmpm", "none", "rbx", 20, 0, 4), Load("rax", "rdi", 20), I("ijmp", "rax", "none", 0, 0, 8), Store("rdi", 0, 0, 8)})

Destroys == At(DestroyBase, {Op("call"), Op("free"), Const("rdi", 0), I("lea", "rdi", "rbx", 8, 0, 8), I("or", "none", "rbx", 16, 1, 4), I("or", "none", "rdi", 20, 1, 4), I("jmp", "none", "none", 0, 2, 0)})

ContBase == [part |-> "coroutine", size |-> 0, valid |-> TRUE, x86_64 |-> TRUE, unwind |-> TRUE, functions |-> <<CreatorBase, ResumeBase, DestroyBase>>]

ContInput(x) ==
    \/ \E f \in Creators : x = [ContBase EXCEPT !.functions[1] = f]
    \/ \E f \in Resumes : x = [ContBase EXCEPT !.functions[2] = f]
    \/ \E f \in Destroys : x = [ContBase EXCEPT !.functions[3] = f]
    \/ IsVariant(x, ContBase, [valid |-> {FALSE}, x86_64 |-> {FALSE}, unwind |-> {FALSE}])

\* ---------------------------------------------------------------- reference

\* Where each register points to when the function runs: the object and the
\* distance from its beginning.  Object 0 is the frame passed in.
PointsAt(f, entry) ==
    LET nowhere == [obj |-> Bad, off |-> 0]
        p[n \in 1 .. Len(f) + 1] ==
          IF n = 1 THEN [r \in Registers \cup {"none"} |-> IF r = "rdi" /\ entry THEN [obj |-> 0, off |-> 0] ELSE nowhere]
          ELSE LET i == f[n - 1]  q == p[n - 1]
               IN CASE i.op \in {"mov", "lea"} -> [q EXCEPT ![i.reg] = [q[i.base] EXCEPT !.off = @ + i.disp]]
                    [] i.op = "add" -> [q EXCEPT ![i.reg].off = @ + i.imm]
                    [] i.op \in {"const", "load"} -> [q EXCEPT ![i.reg] = nowhere]
                    [] i.op = "alloc" -> [q EXCEPT !.rdi = nowhere, !.rax = [obj |-> n - 1, off |-> 0]]
                    [] i.op \in {"call", "free"} -> [q EXCEPT !.rdi = nowhere, !.rax = nowhere]
                    [] OTHER -> q
    IN p

\* Compilers give the kept register the frame once, before they use it.
Orderly(f) ==
    LET moves == {n \in DOMAIN f : f[n].reg = "rbx" /\ f[n].op \in {"mov", "lea", "const", "load", "add"}}
    IN \A n \in DOMAIN f : n \in moves \/ f[n].base = "rbx" =>
         \E k \in moves : moves = {k} /\ k <= n /\ f[k].op = "mov" /\ f[k].base = "rdi" /\ PointsAt(f, TRUE)[k].rdi = [obj |-> 0, off |-> 0]

\* The pointers reported are stored into one and the same allocation, the writes
\* of the state are writes of that field of the frame, and what is freed is the
\* frame.
ContExact(x, r) ==
    r.state = "RESOLVED" => \A e \in r.entries :
        LET c == x.functions[e.creator]  f == x.functions[e.resume]  d == x.functions[e.destroy]
            pc == PointsAt(c, FALSE)  pf == PointsAt(f, TRUE)  pd == PointsAt(d, TRUE)
            stores(off) == {n \in DOMAIN c : c[n].op = "store" /\ pc[n][c[n].base].obj = e.site /\ pc[n][c[n].base].off + c[n].disp = off}
        IN /\ \E n \in stores(0), k \in stores(8) : (c[n].reg = "none" => c[n].imm = e.resume) /\ (c[k].reg = "none" => c[k].imm = e.destroy)
           /\ Orderly(f) => e.sites = {n \in DOMAIN f : f[n].op = "store" /\ pf[n][f[n].base] = [obj |-> 0, off |-> e.field - f[n].disp]}
           /\ Orderly(d) /\ e.profile = "clang" => Cardinality({n \in DOMAIN d : d[n].op = "free" /\ pd[n].rdi = [obj |-> 0, off |-> 0]}) = 1
=============================================================================
