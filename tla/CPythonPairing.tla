--------------------------- MODULE CPythonPairing ---------------------------
(***************************************************************************)
(* A CPython 3.8 whose opcodes were renumbered, inside a PyInstaller       *)
(* archive: the numbers recovered from its own compiled opcode module      *)
(* (reference/cpython_opcode_module.cpp), the choice of a reference        *)
(* (reference/reference_registry.cpp), and the pairing that closes only if *)
(* code that must run before the application has its published meaning     *)
(* under these numbers (reference/cpython_reference_pairing.cpp).          *)
(*                                                                         *)
(* Code is a sequence of units, an opcode and an argument below ByteBase.  *)
(* A marshalled module is the sequence of its opcodes, a hash is what was  *)
(* hashed.                                                                 *)
(***************************************************************************)
EXTENDS Words, ModelTrust

CONSTANTS kMinHelperCalls,   \* registrations the bootstrap takes, and names of a source
          ByteBase           \* values of a byte

\* The named opcodes of the release.
Stock == "LOAD_NAME" :> 1 @@ "LOAD_CONST" :> 2 @@ "CALL_FUNCTION" :> 3 @@ "POP_TOP" :> 4 @@ "STORE_NAME" :> 5 @@ "DELETE_NAME" :> 6
         @@ "EXTENDED_ARG" :> 7 @@ "JUMP_FORWARD" :> 8 @@ "RETURN_VALUE" :> 9

helpers == {"def_op", "name_op", "jrel_op", "jabs_op"}

\* A relation that pairs each name with one number and each number with one name.
OneToOne(pairs) == \A p, q \in pairs : (p[1] = q[1]) <=> (p[2] = q[2])

---------------------------------------------------------------------------
(* The source of the opcode module: its lines that define a number.         *)

Required == {"POP_TOP", "STORE_NAME", "LOAD_CONST", "LOAD_NAME", "CALL_FUNCTION", "EXTENDED_ARG"}

opcode_definition_line(l) == l.helper \in helpers /\ l.quoted /\ l.value \in 0 .. ByteBase - 1

NoSource == [valid |-> FALSE, definitions |-> {}]

parse_cpython_opcode_source_reference(lines) ==
    LET defined == {<<l.name, l.value>> : l \in {k \in lines : opcode_definition_line(k)}}
    IN IF ~OneToOne(defined) \/ ~(Required \subseteq {p[1] : p \in defined}) \/ Cardinality(defined) < kMinHelperCalls THEN NoSource
       ELSE [valid |-> TRUE, definitions |-> defined]

---------------------------------------------------------------------------
(* The compiled module.  Constants and names are counted from zero.         *)

NoName == ""

name_at(root, i) == IF i + 1 \in DOMAIN root.names THEN root.names[i + 1] ELSE NoName

Constant(root, i) == IF i + 1 \in DOMAIN root.constants THEN root.constants[i + 1] ELSE [kind |-> "Other", text |-> "", number |-> 0]

\* A helper, the name of an opcode and a number.
Registers(root, names, h, n, v) ==
    name_at(root, h) \in helpers /\ Constant(root, n).kind = "String" /\ Constant(root, n).text \in names /\ Constant(root, v).kind = "Integer"

Registered(root, n, v) == <<Constant(root, n).text, Constant(root, v).number>>

\* Five units that look like a registration, whatever their opcodes are.
RawCalls(root, names) ==
    LET c == root.code
        Looks(i) == /\ c[i + 1][1] = c[i + 2][1] /\ c[i + 3][2] = 2
                    /\ Registers(root, names, c[i][2], c[i + 1][2], c[i + 2][2])
                    /\ Constant(root, c[i + 2][2]).number \in 0 .. ByteBase - 1
    IN {[at |-> i, key |-> <<c[i][1], c[i + 1][1], c[i + 3][1], c[i + 4][1]>>, pair |-> Registered(root, c[i + 1][2], c[i + 2][2])] :
            i \in {j \in 1 .. Len(c) - 4 : Looks(j)}}

role_names == <<"LOAD_NAME", "LOAD_CONST", "CALL_FUNCTION", "POP_TOP">>

\* The roles that the registrations themselves do not confirm.
Missing(key, observed) == {r \in 1 .. 4 : <<role_names[r], key[r]>> \notin observed}

Bootstraps(key, calls) ==
    LET observed == {c.pair : c \in calls}
        missing == Missing(key, observed)
    IN /\ Cardinality(calls) >= kMinHelperCalls
       /\ \A r, s \in 1 .. 4 : r # s => key[r] # key[s]
       /\ OneToOne(observed)
       /\ Cardinality(missing) <= 1
       /\ \A r \in missing, p \in observed : p[2] = key[r] => p[1] = role_names[r]
       /\ {"EXTENDED_ARG", "STORE_NAME", "DELETE_NAME"} \subseteq {p[1] : p \in observed}

\* The instructions, arguments extended; a number without a name stays without.
Undecodable == [ok |-> FALSE, code |-> <<>>]

DecodeUnit(names, s, u) ==
    LET name == IF \E p \in names : p[2] = u[1] THEN (CHOOSE p \in names : p[2] = u[1])[1] ELSE NoName
    IN IF ~s.ok THEN s
       ELSE IF name = "EXTENDED_ARG"
       THEN IF s.ext >= ByteBase * ByteBase * ByteBase THEN [s EXCEPT !.ok = FALSE] ELSE [s EXCEPT !.ext = (@ + u[2]) * ByteBase]
       ELSE [s EXCEPT !.ext = 0, !.code = Append(@, [op |-> name, arg |-> IF name = NoName THEN u[2] ELSE s.ext + u[2]])]

Decoded(root, names) ==
    LET end == FoldLeft(LAMBDA s, u : DecodeUnit(names, s, u), [ok |-> TRUE, ext |-> 0, code |-> <<>>], root.code)
    IN IF end.ok /\ end.ext = 0 THEN [ok |-> TRUE, code |-> end.code] ELSE Undecodable

\* The places at which instructions with these opcodes follow each other.
Windows(d, ops) == {i \in 1 .. Len(d) - Len(ops) + 1 : \A k \in DOMAIN ops : d[i + k - 1].op = ops[k]}

DirectCalls(root, d, names) ==
    {Registered(root, d[i + 1].arg, d[i + 2].arg) :
        i \in {j \in Windows(d, <<"LOAD_NAME", "LOAD_CONST", "LOAD_CONST", "CALL_FUNCTION", "POP_TOP">>) :
                  d[j + 3].arg = 2 /\ Registers(root, names, d[j].arg, d[j + 1].arg, d[j + 2].arg)}}

jump_names == {"JUMP_FORWARD", "FOR_ITER"}

direct_producer(d, i) == i = 1 \/ d[i - 1].op \notin jump_names \cup {NoName}

\* A name that is stored, loaded and deleted once in the whole module.
UsedOnce(root, d, name) ==
    name # NoName /\ \A op \in {"STORE_NAME", "LOAD_NAME", "DELETE_NAME"} :
        Cardinality({i \in DOMAIN d : d[i].op = op /\ name_at(root, d[i].arg) = name}) = 1

\* The helper goes through a name of its own.
AliasCalls(root, d, names) ==
    LET ops == <<"LOAD_NAME", "STORE_NAME", "LOAD_NAME", "LOAD_CONST", "LOAD_CONST", "CALL_FUNCTION", "POP_TOP", "DELETE_NAME">>
        Is(i) == /\ direct_producer(d, i) /\ d[i + 5].arg = 2
                 /\ Registers(root, names, d[i].arg, d[i + 3].arg, d[i + 4].arg)
                 /\ name_at(root, d[i + 1].arg) = name_at(root, d[i + 2].arg) /\ name_at(root, d[i + 1].arg) = name_at(root, d[i + 7].arg)
                 /\ UsedOnce(root, d, name_at(root, d[i + 1].arg))
    IN {Registered(root, d[i + 3].arg, d[i + 4].arg) : i \in {j \in Windows(d, ops) : Is(j)}}

\* The number goes through a name of its own.
IntegerCalls(root, d, names) ==
    LET ops == <<"LOAD_CONST", "STORE_NAME", "LOAD_NAME", "LOAD_CONST", "LOAD_NAME", "CALL_FUNCTION", "POP_TOP", "DELETE_NAME">>
        Is(i) == /\ direct_producer(d, i) /\ d[i + 5].arg = 2
                 /\ Registers(root, names, d[i + 2].arg, d[i + 3].arg, d[i].arg) /\ Constant(root, d[i].arg).number \in 0 .. ByteBase - 1
                 /\ name_at(root, d[i + 1].arg) = name_at(root, d[i + 4].arg) /\ name_at(root, d[i + 1].arg) = name_at(root, d[i + 7].arg)
                 /\ UsedOnce(root, d, name_at(root, d[i + 1].arg))
    IN {Registered(root, d[i + 3].arg, d[i].arg) : i \in {j \in Windows(d, ops) : Is(j)}}

transfers_control == {"JUMP_FORWARD", "FOR_ITER", "RETURN_VALUE"}

\* From the definition of the last helper to the deletion of the first one all
\* opcodes are known and control goes straight on.
RegionCloses(root, names) ==
    LET Named(n) == (CHOOSE p \in names : p[1] = n)[2]
        Places(op, arg) == {i \in DOMAIN root.code : root.code[i][1] = Named(op) /\ name_at(root, root.code[i][2]) = arg}
        begins == Places("STORE_NAME", "jabs_op")
        ends == Places("DELETE_NAME", "def_op")
    IN /\ Cardinality(begins) = 1 /\ Cardinality(ends) = 1
       /\ \A b \in begins, e \in ends :
             b < e /\ \A i \in b + 1 .. e - 1 : \E p \in names : p[2] = root.code[i][1] /\ p[1] \notin transfers_control

Delta(state, pairs, ref) ==
    [state |-> state, valid |-> state \in {"COMPLETE_NAMED_OPCODE_PERMUTATION", "REFERENCE_MATCH"}, ranges |-> <<>>, pairs |-> pairs,
     changed |-> Cardinality(pairs \ ref.definitions)]

\* All that was validated, and the role taken for granted in the beginning.
Concluded(root, ref, validated, provisional) ==
    LET names == {p[1] : p \in ref.definitions}
        pairs == validated \cup provisional
    IN IF ~OneToOne(pairs) \/ \E p \in pairs : p[2] \notin 0 .. ByteBase - 1 THEN Delta("UNRESOLVED", {}, ref)
       ELSE IF {p[1] : p \in validated} # names THEN Delta("INCOMPLETE_HELPER_CALL_VALIDATION", {}, ref)
       ELSE IF ~RegionCloses(root, pairs) THEN Delta("UNRESOLVED", {}, ref)
       ELSE Delta(IF pairs = ref.definitions THEN "REFERENCE_MATCH" ELSE "COMPLETE_NAMED_OPCODE_PERMUTATION", pairs, ref)

Recovered(root, ref, seed, known, d) ==
    LET names == {p[1] : p \in ref.definitions}
    IN IF ~OneToOne(known) \/ ~d.ok THEN Delta("UNRESOLVED", {}, ref)
       ELSE Concluded(root, ref, seed \cup DirectCalls(root, d.code, names) \cup AliasCalls(root, d.code, names) \cup IntegerCalls(root, d.code, names), known)

\* The one group of registrations that explains itself.
Seeded(root, ref, calls) ==
    LET keys == {k \in {c.key : c \in calls} : Bootstraps(k, {c \in calls : c.key = k})}
        key == CHOOSE k \in keys : TRUE
        seed == {c.pair : c \in {b \in calls : b.key = key}}
        known == seed \cup {<<role_names[r], key[r]>> : r \in Missing(key, seed)}
    IN IF Cardinality(keys) # 1 THEN Delta("UNRESOLVED", {}, ref) ELSE Recovered(root, ref, seed, known, Decoded(root, known))

recover_cpython38_opcode_module_delta(root, ref) ==
    IF ~ref.valid THEN Delta("NO_EXACT_REFERENCE", {}, ref)
    ELSE IF ~root.valid THEN Delta("MARSHAL_UNAVAILABLE", {}, ref)
    ELSE IF root.code = <<>> \/ root.odd THEN Delta("UNRESOLVED", {}, ref)
    ELSE Seeded(root, ref, RawCalls(root, {p[1] : p \in ref.definitions}))

---------------------------------------------------------------------------
(* Opcode modules: one statement for each named opcode, under the numbers   *)
(* the runtime really has, and what running the module registers.           *)

opnames == <<"LOAD_NAME", "LOAD_CONST", "CALL_FUNCTION", "POP_TOP", "STORE_NAME", "DELETE_NAME", "EXTENDED_ARG", "JUMP_FORWARD", "RETURN_VALUE">>

Unallocated == ByteBase - 1   \* no opcode has this number

Integers == ByteBase - Len(opnames) - 1   \* the integers among the constants

Text(t) == [kind |-> "String", text |-> t, number |-> 0]

Integer(n) == [kind |-> "Integer", text |-> "", number |-> n]

Function == [kind |-> "Other", text |-> "jabs_op", number |-> 0]

\* Each constant is there twice: in order, and backwards where one unit does
\* not reach.
Constants ==
    LET once == [i \in 1 .. Len(opnames) |-> Text(opnames[i])] \o [i \in 1 .. Integers |-> Integer(i - 1)] \o <<Function>>
    IN once \o Reverse(once)

Names == <<"def_op", "name_op", "jrel_op", "jabs_op", "tmp">>

NameAt == [n \in ToSet(Names) |-> (CHOOSE i \in DOMAIN Names : Names[i] = n) - 1]

TextAt(name) == Stock[name] - 1

IntegerAt(n) == Len(opnames) + n

FunctionAt == ByteBase - 1

\* The statement that registers a name, in one of its forms.
Statement(map, name, value, form) ==
    LET U(op, arg) == <<map[op], arg>>
        helper == NameAt[Names[1 + (Stock[name] % 4)]]
        tmp == NameAt["tmp"]
        call == <<U("CALL_FUNCTION", 2), U("POP_TOP", 0)>>
        direct == <<U("LOAD_NAME", helper), U("LOAD_CONST", TextAt(name)), U("LOAD_CONST", IntegerAt(value))>> \o call
    IN CASE form = "direct" -> direct
         [] form = "twice" -> direct \o <<direct[1], direct[2], U("LOAD_CONST", IntegerAt((value + 1) % Integers))>> \o call
         [] form = "alias" -> <<direct[1], U("STORE_NAME", tmp), U("LOAD_NAME", tmp), direct[2], direct[3]>> \o call \o <<U("DELETE_NAME", tmp)>>
         [] form = "integer" -> <<direct[3], U("STORE_NAME", tmp), direct[1], direct[2], U("LOAD_NAME", tmp)>> \o call \o <<U("DELETE_NAME", tmp)>>
         [] form = "far" -> <<direct[1], U("EXTENDED_ARG", 1), U("LOAD_CONST", ByteBase - 1 - TextAt(name)), direct[3]>> \o call
         [] form = "one" -> <<direct[1], direct[2], direct[3], U("CALL_FUNCTION", 1), U("POP_TOP", 0)>>
         [] OTHER -> <<>>

\* The last helper is defined, the names are registered, the helpers deleted.
Body(x) ==
    <<<<x.map["LOAD_CONST"], FunctionAt>>, <<x.map["STORE_NAME"], NameAt["jabs_op"]>>>>
    \o FlattenSeq([i \in DOMAIN opnames |-> Statement(x.map, opnames[i], x.claims[opnames[i]], x.forms[opnames[i]])])
    \o <<<<x.map["DELETE_NAME"], NameAt["def_op"]>>>>

Kinds == {"skip", "return", "unknown", "define", "cleanup", "store_tmp", "load_tmp", "ext0", "ext1"}

Inserted(map, kind) ==
    CASE kind = "skip" -> <<<<map["JUMP_FORWARD"], 5>>>>
      [] kind = "return" -> <<<<map["RETURN_VALUE"], 0>>>>
      [] kind = "unknown" -> <<<<Unallocated, 0>>>>
      [] kind = "define" -> <<<<map["LOAD_CONST"], FunctionAt>>, <<map["STORE_NAME"], NameAt["jabs_op"]>>>>
      [] kind = "cleanup" -> <<<<map["DELETE_NAME"], NameAt["def_op"]>>>>
      [] kind = "store_tmp" -> <<<<map["LOAD_CONST"], 0>>, <<map["STORE_NAME"], NameAt["tmp"]>>>>
      [] kind = "load_tmp" -> <<<<map["LOAD_NAME"], NameAt["tmp"]>>, <<map["POP_TOP"], 0>>>>
      [] kind = "ext0" -> <<<<map["EXTENDED_ARG"], 0>>>>
      [] OTHER -> <<<<map["EXTENDED_ARG"], 1>>>>

Root(x, body) ==
    [valid |-> x.marshal = "whole", odd |-> x.marshal = "odd",
     code |-> IF x.at = 0 THEN body ELSE SubSeq(body, 1, x.at) \o Inserted(x.map, x.kind) \o SubSeq(body, x.at + 1, Len(body)),
     constants |-> Constants, names |-> Names]

Line(name) == [helper |-> "def_op", quoted |-> TRUE, name |-> name, value |-> Stock[name]]

\* The published source, or one in which one line is another.
SourceLines(source) == {Line(n) : n \in DOMAIN Stock \ {source.name}} \cup {l \in {source} : l.name # NoName}

RefOf(source) == parse_cpython_opcode_source_reference(SourceLines(source))

Published == [helper |-> "", quoted |-> FALSE, name |-> NoName, value |-> 0]

OpBase(map) ==
    [part |-> "opmodule", map |-> map, claims |-> map, forms |-> [n \in DOMAIN Stock |-> "direct"], at |-> 0, kind |-> "", marshal |-> "whole", source |-> Published]

Exchange(map, m, n) == [map EXCEPT ![m] = map[n], ![n] = map[m]]

Rotated == [n \in DOMAIN Stock |-> 1 + (Stock[n] % Len(opnames))]

Maps ==
    {Stock, Rotated, [n \in DOMAIN Stock |-> Stock[n] + 10], Exchange(Stock, "LOAD_NAME", "POP_TOP"),
     Exchange(Stock, "JUMP_FORWARD", "STORE_NAME")}

Forms == {"twice", "alias", "integer", "far", "one", "none"}

Sources == {[Line(n) EXCEPT !.value = v] : n \in {"POP_TOP", "JUMP_FORWARD"}, v \in {4, 8, 20, ByteBase}}
           \cup {[Line("JUMP_FORWARD") EXCEPT !.quoted = FALSE], [Line("LOAD_NAME") EXCEPT !.helper = "other"]}

\* One or two statements in another form, something put between two units, a
\* number that is not the one the runtime has, another source, a broken marshal.
OpModuleInput(x) ==
    \E map \in Maps :
        \/ \E n \in DOMAIN Stock, f \in Forms : x = [OpBase(map) EXCEPT !.forms[n] = f]
        \/ \E n, k \in DOMAIN Stock, f, g \in {"alias", "integer"} : x = [OpBase(map) EXCEPT !.forms[n] = f, !.forms[k] = g]
        \/ \E kind \in Kinds, f \in {"direct", "alias", "integer"} :
              /\ map \in {Stock, Rotated} /\ (f = "direct" \/ kind \in {"skip", "store_tmp", "load_tmp"})
              /\ \E at \in 2 .. Len(Body([OpBase(map) EXCEPT !.forms["POP_TOP"] = f])) : x = [OpBase(map) EXCEPT !.at = at, !.kind = kind, !.forms["POP_TOP"] = f]
        \/ \E m, n \in DOMAIN Stock : x = [OpBase(map) EXCEPT !.claims = Exchange(map, m, n)]
        \/ \E m \in DOMAIN Stock, v \in {0, 20} : x = [OpBase(map) EXCEPT !.claims[m] = v]
        \/ \E l \in Sources : x = [OpBase(map) EXCEPT !.source = l]
        \/ \E m \in {"odd", "broken"} : x = [OpBase(map) EXCEPT !.marshal = m]

RecoveredModule(x) == recover_cpython38_opcode_module_delta(Root(x, Body(x)), RefOf(x.source))

\* Running the module: a value is a constant or a helper; an error ends it as well.
Pop(s, n) == SubSeq(s, 1, Len(s) - n)

RunUnit(map, s, u) ==
    LET ops == {n \in DOMAIN map : map[n] = u[1]}
        op == IF ops = {} THEN NoName ELSE CHOOSE n \in ops : TRUE
        arg == s.ext + u[2]
        name == IF arg + 1 \in DOMAIN Names THEN Names[arg + 1] ELSE NoName
        top == Len(s.stack)
        Go(stack) == [s EXCEPT !.stack = stack, !.ext = 0]
        Stop == [s EXCEPT !.stop = TRUE, !.raised = op # "RETURN_VALUE"]
        taken == IF op \in {"POP_TOP", "STORE_NAME"} THEN 1 ELSE IF op = "CALL_FUNCTION" THEN arg + 1 ELSE 0
        called == s.stack[top - arg]
    IN IF s.stop THEN s
       ELSE IF s.skip > 0 THEN [s EXCEPT !.skip = @ - 1]
       ELSE IF op \in {NoName, "RETURN_VALUE"} \/ top < taken THEN Stop
       ELSE CASE op = "EXTENDED_ARG" -> [s EXCEPT !.ext = arg * ByteBase]
              [] op = "JUMP_FORWARD" -> [s EXCEPT !.skip = arg, !.ext = 0]
              [] op = "LOAD_CONST" -> IF arg + 1 \in DOMAIN Constants THEN Go(Append(s.stack, Constants[arg + 1])) ELSE Stop
              [] op = "LOAD_NAME" -> IF name \in DOMAIN s.env THEN Go(Append(s.stack, s.env[name])) ELSE Stop
              [] op = "POP_TOP" -> Go(Pop(s.stack, 1))
              [] op = "STORE_NAME" -> [Go(Pop(s.stack, 1)) EXCEPT !.env = (name :> s.stack[top]) @@ @]
              [] op = "DELETE_NAME" ->
                   IF name \in DOMAIN s.env THEN [Go(s.stack) EXCEPT !.env = [n \in DOMAIN s.env \ {name} |-> s.env[n]]] ELSE Stop
              [] OTHER ->
                   IF arg > 2 \/ called.kind # "Other" THEN Stop
                   ELSE [Go(Append(Pop(s.stack, arg + 1), Text(""))) EXCEPT
                            !.done = @ \cup {p \in {<<s.stack[top - 1].text, s.stack[top].number>>} : arg = 2}]

\* What has been registered when the module ends, and whether it ends by an error.
Executed(x, code) ==
    FoldLeft(LAMBDA s, u : RunUnit(x.map, s, u),
             [stop |-> FALSE, raised |-> FALSE, skip |-> 0, ext |-> 0, stack |-> <<>>, env |-> [n \in {"def_op", "name_op", "jrel_op"} |-> Function], done |-> {}], code)

\* The numbers of a module that is taken for complete are those that running it
\* registers, all of them, whatever is put between its statements; the opcodes
\* by which it was read are those the runtime has; and a module that registers
\* its names one by one, as it is published, is always read, one of them through
\* a name of its own or with far constants included.
OpModuleExact(x, r) ==
    LET roles == {"LOAD_NAME", "LOAD_CONST", "CALL_FUNCTION", "POP_TOP", "STORE_NAME", "DELETE_NAME"}
        ref == RefOf(x.source)
        run == Executed(x, Root(x, Body(x)).code)
    IN /\ r.valid => /\ {p[1] : p \in r.pairs} = {p[1] : p \in ref.definitions} /\ OneToOne(r.pairs)
                     /\ \A p \in r.pairs : p[1] \in roles => p[2] = x.map[p[1]]
                     /\ x.claims = x.map /\ ~run.raised => r.pairs = {p \in run.done : p[1] \in {q[1] : q \in ref.definitions}}
                     /\ (r.state = "REFERENCE_MATCH" <=> r.changed = 0) /\ (r.changed = 0 <=> r.pairs = ref.definitions)
       /\ (\E n \in DOMAIN Stock \ {"EXTENDED_ARG", "STORE_NAME", "DELETE_NAME"}, f \in {"direct", "alias", "integer", "far"} :
              x = [OpBase(x.map) EXCEPT !.forms[n] = f])
          => r.valid /\ (r.changed = 0 <=> x.map = Stock)

---------------------------------------------------------------------------
(* The registry of references.                                              *)

\* The one entry of the product, everything that identifies the release in one.
CPython385 ==
    [release |-> "CPython v3.8.5", ecosystem |-> "CPython", version |-> <<3, 8, 5>>, reference_artifact_kind |-> "Lib/opcode.py",
     semantic_scope |-> "cpython.opcode_module_named_semantics", python_minor |-> 38, pyc_magic |-> "3413",
     requires_exact_runtime_version |-> TRUE, requires_pyc_magic |-> TRUE, semantic_items |-> {<<n, Stock[n]>> : n \in DOMAIN Stock}]

reference_registry == <<CPython385>>

\* No entry but the generated one is taken for authentic.
reference_registry_entry_authenticated(e) == e = CPython385

AllZero == "0"

Admissible(e, q) ==
    /\ e.ecosystem = q.ecosystem /\ e.version = q.version
    /\ e.reference_artifact_kind = q.reference_artifact_kind /\ e.semantic_scope = q.semantic_scope
    /\ e.requires_exact_runtime_version => q.runtime_identity_exact
    /\ q.python_minor # 0 /\ e.python_minor # 0 => q.python_minor = e.python_minor
    /\ e.requires_pyc_magic => e.pyc_magic # AllZero /\ q.pyc_magic = e.pyc_magic
    /\ reference_registry_entry_authenticated(e)

NoVersion == <<>>

Selection(state, valid, entry) == [state |-> state, valid |-> valid, ranges |-> <<>>, selected |-> entry]

select_reference(registry, q) ==
    LET admissible == {i \in DOMAIN registry : Admissible(registry[i], q)}
        Without(state) == Selection(state, FALSE, 0)
    IN IF q.runtime_identity_conflict THEN Without("CONFLICT")
       ELSE IF q.ecosystem = "" \/ q.version = NoVersion \/ q.reference_artifact_kind = "" \/ q.semantic_scope = "" THEN Without("UNRESOLVED")
       ELSE IF admissible = {} THEN Without(IF q.runtime_identity_exact THEN "NO_REFERENCE" ELSE "UNRESOLVED")
       ELSE IF Cardinality(admissible) # 1 THEN Without("UNRESOLVED")
       ELSE Selection("REFERENCE_MATCH", TRUE, CHOOSE i \in admissible : TRUE)

Request(version, minor, magic, scope) ==
    [ecosystem |-> "CPython", version |-> version, reference_artifact_kind |-> "Lib/opcode.py", semantic_scope |-> scope,
     python_minor |-> minor, pyc_magic |-> magic, runtime_identity_exact |-> TRUE, runtime_identity_conflict |-> FALSE]

SelectBase ==
    Request(<<3, 8, 5>>, 38, "3413", "cpython.opcode_module_named_semantics") @@ [part |-> "select", registry |-> reference_registry]

Altered(e) ==
    {e, [e EXCEPT !.release = "other"], [e EXCEPT !.version = <<3, 8, 6>>], [e EXCEPT !.python_minor = 0], [e EXCEPT !.pyc_magic = AllZero],
     [e EXCEPT !.requires_exact_runtime_version = FALSE], [e EXCEPT !.requires_pyc_magic = FALSE], [e EXCEPT !.semantic_items = {}]}

SelectAlt ==
    [ecosystem |-> {"", "PyPy"}, version |-> {NoVersion, <<3, 8, 6>>}, reference_artifact_kind |-> {""}, semantic_scope |-> {"", "other"},
     python_minor |-> {0, 39}, pyc_magic |-> {"none", AllZero, "3425"}, runtime_identity_exact |-> {FALSE}, runtime_identity_conflict |-> {TRUE},
     registry |-> {<<>>} \cup {<<a>> : a \in Altered(CPython385)} \cup {<<a, b>> : a, b \in Altered(CPython385)}]

Selected(x) == select_reference(x.registry, x)

\* The entry that is selected is the authentic one, the only copy of it, and
\* asked for by an exact and uncontested identity, magic number included.
SelectExact(x, r) ==
    /\ r.valid => /\ x.registry[r.selected] = CPython385
                  /\ x.runtime_identity_exact /\ ~x.runtime_identity_conflict
                  /\ x.version = <<3, 8, 5>> /\ x.pyc_magic = "3413" /\ x.python_minor \in {0, 38}
    /\ x = [SelectBase EXCEPT !.registry = x.registry]
         => (r.valid <=> Cardinality({i \in DOMAIN x.registry : x.registry[i] = CPython385}) = 1)

---------------------------------------------------------------------------
(* Pairing an application with the reference.                                *)

Digits == <<"0", "1", "2", "3", "4", "5", "6", "7", "8", "9">>

IsDigit(c) == c \in ToSet(Digits)

DigitOf(c) == (CHOOSE i \in DOMAIN Digits : Digits[i] = c) - 1

VersionText(v) == <<Digits[v[1] + 1], ".", Digits[v[2] + 1], ".", Digits[v[3] + 1]>>

\* Where the digits from p on end, and their value.
DigitsEnd(d, p) == p + SumOver(Len(d) - p + 1, LAMBDA k : IF \A j \in p .. p + k - 1 : IsDigit(d[j]) THEN 1 ELSE 0)

NumberOf(d, first, end) == FoldLeft(LAMBDA n, c : 10 * n + DigitOf(c), 0, SubSeq(d, first, end - 1))

terminators == {"nul", " ", "cr", "lf", "-", "+"}

\* Versions that stand in a text: one digit, a dot, a number, a dot, a number,
\* and nothing that carries on.
exact_patch_versions(d) ==
    LET minor(i) == DigitsEnd(d, i + 2)
        micro(i) == DigitsEnd(d, minor(i) + 1)
        Reads(i) ==
            /\ IsDigit(d[i]) /\ d[i + 1] = "." /\ DigitOf(d[i]) = 3
            /\ minor(i) > i + 2 /\ minor(i) <= Len(d) /\ d[minor(i)] = "."
            /\ micro(i) > minor(i) + 1
            /\ NumberOf(d, i + 2, minor(i)) <= 99 /\ NumberOf(d, minor(i) + 1, micro(i)) <= 999
            /\ micro(i) <= Len(d) => d[micro(i)] \in terminators
    IN {<<3, NumberOf(d, i + 2, minor(i)), NumberOf(d, minor(i) + 1, micro(i))>> : i \in {j \in 1 .. Len(d) - 5 : Reads(j)}}

NoText == <<>>

\* A value of the version resource, up to the end of its record and its own
\* length; one that is empty or not plain text is missing.
pe_version_string(v) ==
    LET limit == IF v.room < v.value_length THEN v.room ELSE v.value_length
        text == SubSeq(v.text, 1, limit)
        nuls == {i \in DOMAIN text : text[i] = "nul"}
        plain == IF nuls = {} THEN text ELSE SubSeq(text, 1, (CHOOSE i \in nuls : \A j \in nuls : i <= j) - 1)
    IN IF ~v.found \/ v.type # 1 \/ v.value_length = 0 \/ \E i \in DOMAIN plain : plain[i] = "wide" THEN NoText ELSE plain

Named(x, name, types) == {i \in DOMAIN x.entries : x.entries[i].name = name /\ x.entries[i].type \in types}

OfType(x, type) == {i \in DOMAIN x.entries : x.entries[i].type = type}

Users(x) == {i \in OfType(x, "s") : x.entries[i].role = "user"}

Only(s) == CHOOSE i \in s : TRUE

\* The code of an application whose bootloader is a published one: these run
\* before it, as they were published.
Witnesses ==
    [pyimod01_os_path |-> [type |-> "m", code |-> <<"LOAD_CONST", "STORE_NAME", "RETURN_VALUE">>],
     pyimod02_archive |-> [type |-> "m", code |-> <<"LOAD_NAME", "CALL_FUNCTION", "POP_TOP", "RETURN_VALUE">>],
     pyimod03_importers |-> [type |-> "m", code |-> <<"LOAD_CONST", "STORE_NAME", "DELETE_NAME">>],
     pyiboot01_bootstrap |-> [type |-> "s", code |-> <<"LOAD_NAME", "POP_TOP">>]]

\* The module without the header its type has.
bootstrap_marshal(e, magic) == IF e.type = "s" \/ e.header = magic THEN e.code ELSE NoText

\* An opcode without a counterpart cannot be written.
remap_python_marshal_opcodes(code, pairs) ==
    IF \A i \in DOMAIN code : \E p \in pairs : p[2] = code[i]
    THEN [i \in DOMAIN code |-> (CHOOSE p \in pairs : p[2] = code[i])[1]]
    ELSE NoText

WitnessMatches(x, pairs, magic, w) ==
    LET at == Named(x, w, {Witnesses[w].type})
        e == x.entries[Only(at)]
        code == bootstrap_marshal(e, magic)
    IN Cardinality(at) = 1 /\ e.readable /\ code # NoText /\ remap_python_marshal_opcodes(code, pairs) = Witnesses[w].code

\* The native evidence names another opcode for the same number.
maps_contradict(native, pairs) == \E p \in pairs, q \in native : p[2] = q[2] /\ p[1] # q[1]

\* All that says which release the runtime is says the same.
RuntimeIdentified(x, e) ==
    LET Says(key) == pe_version_string(x.runtime.info[key])
    IN /\ \A key \in DOMAIN x.runtime.info : Says(key) # NoText
       /\ exact_patch_versions(x.runtime.text) = {x.version}
       /\ Says("FileVersion") = VersionText(x.version) /\ Says("ProductVersion") = VersionText(x.version)
       /\ Says("OriginalFilename") = <<e.name>>
       /\ x.version_hex = x.version /\ x.version_hex[1] * 10 + x.version_hex[2] = x.python_version

PairingGate ==
    {"exact_runtime_reference_selection", "exact_reference_authenticated", "target_semantic_artifact_exact", "matcher_complete",
     "exact_payload_binding", "exact_application_proof", "ambiguity_closed"}

cpython_reference_pairing_gate(closed, native_contradiction) == PairingGate \subseteq closed /\ ~native_contradiction

Scope == "cpython.opcode_module_named_semantics"

stock_trust(model) ==
    build_model_trust_report({[scope |-> Scope, model |-> model, level |-> ExactKnownGoodReference, reference |-> "SEMANTIC_MATCH",
                               semantic |-> "STOCK_CONFIRMED", relation |-> "SUPPORTS_MODEL", complete |-> TRUE]})

Exact == [artifact_id |-> TRUE, sha256 |-> TRUE, exact_bytes |-> TRUE]

\* The evidence of the pairing, when everything else has been closed.
DeltaEvidence(model, delta, contradiction) ==
    [scope |-> Scope, model |-> model, reference |-> Exact, reference_auth |-> "ExactKnownGoodReference", reference_authentication |-> TRUE,
     modified_artifact |-> Exact, modification_proven |-> TRUE, delta_items |-> delta.changed, delta_completeness |-> "CompleteForDeclaredScope",
     recoverability |-> "Declarative", payload |-> Exact, payload_relation |-> "RuntimeConsumesPayload", payload_relation_evidence |-> TRUE,
     application_proof |-> "ExactTransformClosure", application_evidence |-> TRUE, evidence_ceiling |-> ExactKnownGoodReference,
     native_contradiction |-> contradiction, native_contradiction_evidence |-> contradiction, native_contradiction_level |-> OriginalNativeResult]

Paired(state, delta, normalized, guidance) ==
    [state |-> state, valid |-> state \in {"REFERENCE_MATCH", "EXACT_DECLARATIVE_DELTA"}, ranges |-> <<>>,
     pairs |-> delta.pairs, payload |-> normalized, guidance |-> guidance]

Unpaired == Paired("UNRESOLVED", [pairs |-> {}], NoText, "UNRESOLVED_SEMANTICS")

\* The witnesses have the meaning they must have; the payload follows.
Closed(x, delta) ==
    LET model == "cpython:3.8.5"
        contradiction == maps_contradict(x.native, delta.pairs)
        user == x.entries[Only(Users(x))]
        normalized == remap_python_marshal_opcodes(user.code, delta.pairs)
        evidence == DeltaEvidence(model, delta, contradiction)
    IN IF Cardinality(Users(x)) # 1 \/ ~user.readable \/ normalized = NoText THEN Unpaired
       ELSE IF ~cpython_reference_pairing_gate(PairingGate, contradiction) THEN Unpaired
       ELSE IF delta.changed = 0 THEN Paired("REFERENCE_MATCH", delta, normalized, stock_trust(model).guidance)
       ELSE IF ~exact_delta_for_scope(assess_semantic_delta(evidence)) THEN Unpaired
       ELSE Paired("EXACT_DECLARATIVE_DELTA", delta, normalized, build_model_trust_report(model_trust_facts_from_semantic_delta(evidence)).guidance)

OuterText == "bootloader of v4.1"

\* A complete map, a published bootloader and all the code that must run first.
Applied(x, delta) ==
    IF ~delta.valid \/ x.outer_text # OuterText \/ x.outer_machine # "x86" \/ x.python_version # 38 THEN Unpaired
    ELSE IF \E w \in DOMAIN Witnesses : ~WitnessMatches(x, delta.pairs, x.opcode.magic, w) THEN Unpaired
    ELSE Closed(x, delta)

OpcodeDelta(x) ==
    LET o == [OpBase(x.map) EXCEPT !.claims = x.claims]
    IN recover_cpython38_opcode_module_delta(Root(o, Body(o)), [valid |-> TRUE, definitions |-> CPython385.semantic_items])

pair_cpython_pyinstaller_reference(x) ==
    LET at == Named(x, x.python_library, {"b", "m", "s", "z"})
        e == x.entries[Only(at)]
        z == OfType(x, "z")
        q == Request(x.version, x.python_version, x.opcode.magic, Scope)
    IN IF ~x.runtime_valid \/ \A i \in DOMAIN reference_registry : reference_registry[i].version # x.version THEN [Unpaired EXCEPT !.state = "ABSENT"]
       ELSE IF ~x.archive_valid \/ ~x.outer_valid THEN Unpaired
       ELSE IF x.python_library = NoName \/ Cardinality(at) # 1 THEN Unpaired
       ELSE IF ~e.readable \/ x.runtime_sha # x.runtime.sha \/ x.runtime_source # e.name \/ ~x.runtime.pe THEN Unpaired
       ELSE IF ~RuntimeIdentified(x, e) THEN Unpaired
       ELSE IF Cardinality(z) # 1 \/ (\E i \in z : ~x.entries[i].readable) \/ x.opcode.members # 1 THEN Unpaired
       ELSE IF ~select_reference(reference_registry, q).valid THEN Unpaired
       ELSE Applied(x, OpcodeDelta(x))

\* Applications: the code of every entry is under the numbers of the runtime.
Under(map, code) == [i \in DOMAIN code |-> map[code[i]]]

Entry(name, type, code) == [name |-> name, type |-> type, header |-> "3413", readable |-> TRUE, role |-> "other", code |-> code]

Program == <<"LOAD_CONST", "POP_TOP", "LOAD_NAME", "RETURN_VALUE">>

ApplicationEntries(map, program) ==
    <<Entry("python38.dll", "b", <<>>), Entry("PYZ-00.pyz", "z", <<>>)>>
    \o [i \in 1 .. 4 |-> LET w == <<"pyimod01_os_path", "pyimod02_archive", "pyimod03_importers", "pyiboot01_bootstrap">>[i]
                         IN Entry(w, Witnesses[w].type, Under(map, Witnesses[w].code))]
    \o <<[Entry("main", "s", Under(map, program)) EXCEPT !.role = "user"]>>

Value(text) == [found |-> TRUE, type |-> 1, value_length |-> Len(text) + 1, room |-> Len(text) + 2, text |-> text \o <<"nul", "x">>]

Runtime385 ==
    [sha |-> "a", pe |-> TRUE, text |-> <<"x">> \o VersionText(<<3, 8, 5>>) \o <<"nul", "x">>,
     info |-> [FileVersion |-> Value(VersionText(<<3, 8, 5>>)), ProductVersion |-> Value(VersionText(<<3, 8, 5>>)), OriginalFilename |-> Value(<<"python38.dll">>)]]

PairBase(map) ==
    [part |-> "pairing", map |-> map, claims |-> map, entries |-> ApplicationEntries(map, Program), runtime |-> Runtime385,
     runtime_valid |-> TRUE, version |-> <<3, 8, 5>>, version_hex |-> <<3, 8, 5>>, python_version |-> 38, runtime_sha |-> "a",
     runtime_source |-> "python38.dll", archive_valid |-> TRUE, outer_valid |-> TRUE, python_library |-> "python38.dll",
     outer_text |-> OuterText, outer_machine |-> "x86", opcode |-> [members |-> 1, magic |-> "3413"], native |-> {}]

Without(s, i) == SubSeq(s, 1, i - 1) \o SubSeq(s, i + 1, Len(s))

OtherEntries(map) ==
    LET all == ApplicationEntries(map, Program)
        wrong == Under(map, <<"LOAD_CONST", "LOAD_CONST", "RETURN_VALUE">>)
    IN UNION {{Without(all, i), Append(all, all[i]), [all EXCEPT ![i].readable = FALSE], [all EXCEPT ![i].type = "x"]} : i \in DOMAIN all}
       \cup UNION {{[all EXCEPT ![i].header = "3425"], [all EXCEPT ![i].code = wrong], [all EXCEPT ![i].code = <<Unallocated>>]} : i \in 3 .. 7}
       \cup {ApplicationEntries(map, <<"LOAD_CONST", "JUMP_FORWARD", "RETURN_VALUE">>), [all EXCEPT ![7].role = "other"], [all EXCEPT ![1].name = "python39.dll"]}

OtherRuntimes ==
    {[Runtime385 EXCEPT !.sha = "b"], [Runtime385 EXCEPT !.pe = FALSE]}
    \cup {[Runtime385 EXCEPT !.text = t] :
            t \in {<<"x", "x", "x">>, VersionText(<<3, 8, 5>>), Runtime385.text \o VersionText(<<3, 9, 1>>) \o <<" ">>, <<"1">> \o Tail(Runtime385.text),
                   VersionText(<<3, 8, 5>>) \o <<"1", "nul">>, VersionText(<<3, 8, 5>>) \o <<".", "1", "nul">>, VersionText(<<2, 8, 5>>) \o Runtime385.text,
                   VersionText(<<3, 8, 5>>) \o <<"x", "nul">>}}
    \cup {[Runtime385 EXCEPT !.info[key] = v] :
            key \in DOMAIN Runtime385.info,
            v \in {[Value(VersionText(<<3, 8, 5>>)) EXCEPT !.found = FALSE], [Value(VersionText(<<3, 8, 5>>)) EXCEPT !.type = 0], Value(VersionText(<<3, 8, 6>>)),
                   [Value(VersionText(<<3, 8, 5>>)) EXCEPT !.room = 3], [Value(VersionText(<<3, 8, 5>>)) EXCEPT !.text[2] = "wide"], Value(<<>>)}}

PairAlt(map) ==
    [claims |-> {Exchange(map, m, n) : m \in {"DELETE_NAME"}, n \in {"STORE_NAME", "JUMP_FORWARD", "EXTENDED_ARG"}}
                \cup {Exchange(map, "JUMP_FORWARD", "RETURN_VALUE"), Exchange(map, "JUMP_FORWARD", "EXTENDED_ARG")},
     entries |-> OtherEntries(map), runtime |-> OtherRuntimes,
     runtime_valid |-> {FALSE}, version |-> {<<3, 8, 6>>}, version_hex |-> {<<3, 8, 6>>, <<3, 9, 5>>}, python_version |-> {37}, runtime_sha |-> {"b"},
     runtime_source |-> {"other"}, archive_valid |-> {FALSE}, outer_valid |-> {FALSE}, python_library |-> {NoName, "python39.dll"},
     outer_text |-> {"none", "other"}, outer_machine |-> {"x64"}, opcode |-> {[members |-> n, magic |-> "3413"] : n \in {0, 2}} \cup {[members |-> 1, magic |-> "3425"]},
     native |-> {{<<"POP_TOP", map["POP_TOP"]>>}, {<<"POP_TOP", map["LOAD_NAME"]>>}}]

PairInput(x) == \E map \in {Stock, Rotated} : IsVariant(x, PairBase(map), PairAlt(map))

\* What the runtime does with code: the opcode each number has in it.
Meaning(map, code) == remap_python_marshal_opcodes(code, {<<n, map[n]>> : n \in DOMAIN map})

\* A pairing that closes has one runtime, identified as 3.8.5 by everything that
\* names a version, one archive and one script.  If what the runtime runs first
\* really is the published code, then each opcode of that code was recovered as
\* the one the runtime has, and a script made of them is normalized to what the
\* runtime does; no native evidence is against it; the model is called exact
\* when numbers changed and safe when none did.
PairExact(x, r) ==
    LET First(w) == x.entries[Only(Named(x, w, {Witnesses[w].type}))].code
        published == \A w \in DOMAIN Witnesses : Meaning(x.map, First(w)) = Witnesses[w].code
        used == UNION {ToSet(Witnesses[w].code) : w \in DOMAIN Witnesses}
        script == x.entries[Only(Users(x))].code
        Stands(v, after) == \E i \in 1 .. Len(x.runtime.text) - 5 : SubSeq(x.runtime.text, i, i + 5) \in {VersionText(v) \o <<c>> : c \in after}
    IN /\ r.valid =>
             /\ Cardinality(Named(x, "python38.dll", {"b"})) = 1 /\ Cardinality(OfType(x, "z")) = 1 /\ Cardinality(Users(x)) = 1
             /\ x.runtime_sha = x.runtime.sha /\ x.version = <<3, 8, 5>> /\ x.version_hex = x.version
             /\ \A key \in {"FileVersion", "ProductVersion"} : SubSeq(x.runtime.info[key].text, 1, 5) = VersionText(<<3, 8, 5>>)
             /\ Stands(<<3, 8, 5>>, terminators) /\ ~Stands(<<3, 9, 1>>, terminators)
             /\ r.payload # NoText
             /\ published => /\ \A p \in r.pairs : p[1] \in used => p[2] = x.map[p[1]]
                             /\ ToSet(Meaning(x.map, script)) \subseteq used => r.payload = Meaning(x.map, script)
             /\ \A p \in x.native, q \in r.pairs : p[2] = q[2] => p[1] = q[1]
             /\ r.state = "REFERENCE_MATCH" => r.pairs = {<<n, Stock[n]>> : n \in DOMAIN Stock}
             /\ r.guidance = IF r.state = "REFERENCE_MATCH" THEN "STOCK_MODEL_SAFE" ELSE "EXACT_MODIFIED_SEMANTICS"
       /\ ~r.valid => r.guidance = "UNRESOLVED_SEMANTICS"
       /\ x = PairBase(x.map) => r.valid /\ (r.state = "REFERENCE_MATCH" <=> x.map = Stock)
=============================================================================
