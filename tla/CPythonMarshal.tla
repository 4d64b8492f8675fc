--------------------------- MODULE CPythonMarshal ---------------------------
(***************************************************************************)
(* Serialized CPython code (formats/python_marshal.cpp): the reader, the   *)
(* hash of what a code object means, the exchange of its opcodes; .pyc     *)
(* files (formats/python_bytecode.cpp) and the tables of frozen modules in *)
(* a runtime image (extract/cpython_frozen.cpp).                           *)
(*                                                                         *)
(* A tag, a length, an integer, a digit and a byte of a string are a cell  *)
(* each, whatever their width.  In an image a field of a record is a cell, *)
(* a name and a marshalled module are kept at their place.                 *)
(***************************************************************************)
EXTENDS Words

CONSTANTS kMaxMarshalDepth, kMaxFrozenTables, kMaxFrozenEntries, kMaxFrozenName, kMaxFrozenBlob, kMaxGetterBytes, kMaxGetterInstructions,
          kPy311CodeAdaptiveOffset, kMaxPy311CodeUnits

\* Tags are their letters in ASCII; 128 more and the object can be referred to.
FLAG_REF == 128

Atoms == 48 :> "NullTag" @@ 78 :> "None" @@ 70 :> "False" @@ 84 :> "True" @@ 83 :> "StopIter" @@ 46 :> "Ellipsis"

\* Numbers of fixed size but the plain integer, and strings with their length.
Fixed == 73 :> "Int" @@ 103 :> "Float" @@ 121 :> "Complex"

Strings == 115 :> "Bytes" @@ 116 :> "String" @@ 117 :> "String" @@ 97 :> "String" @@ 65 :> "String" @@ 122 :> "String" @@ 90 :> "String" @@ 102 :> "Float"

Sequences_ == 41 :> "Tuple" @@ 40 :> "Tuple" @@ 91 :> "List" @@ 60 :> "Set" @@ 62 :> "FrozenSet"

TYPE_INT == 105
TYPE_LONG == 108
TYPE_COMPLEX == 120
TYPE_REF == 114
TYPE_DICT == 123
TYPE_SLICE == 58
TYPE_CODE == 99

Kinds == <<"NullTag", "None", "False", "True", "StopIter", "Ellipsis", "Int", "Long", "Float", "Complex", "Bytes", "String",
           "Tuple", "List", "Dict", "Set", "FrozenSet", "Slice", "Code">>

KindNo == [k \in ToSet(Kinds) |-> (CHOOSE i \in DOMAIN Kinds : Kinds[i] = k) - 1]

Min_(a, b) == IF a < b THEN a ELSE b

---------------------------------------------------------------------------
(* The reader.  Nodes are kept by number, since a reference gives the node  *)
(* itself; r.n is the one just read, 0 after a failure.                     *)

Reader == [p |-> 0, nodes |-> <<>>, refs |-> <<>>, ranges |-> <<>>, codes |-> 0, n |-> 0]

Fail(r) == [r EXCEPT !.n = 0]

Left(d, r) == Len(d) - r.p

\* A length or an index; where the bytes end it reads as zero.
Word(d, r) == IF Left(d, r) = 0 THEN 0 ELSE d[r.p + 1]

Past(d, r) == IF Left(d, r) = 0 THEN r ELSE [r EXCEPT !.p = @ + 1]

reserve_node(r, k, ref) ==
    LET n == Len(r.nodes) + 1
    IN [r EXCEPT !.nodes = Append(@, [k |-> k, iv |-> 0, blob |-> <<>>, at |-> 0, seq |-> <<>>]),
                 !.refs = IF ref THEN Append(@, n) ELSE @, !.codes = IF k = "Code" THEN @ + 1 ELSE @, !.n = n]

\* The next cells are the content of the node.
Take(d, r, len) ==
    IF r.n = 0 \/ len < 0 \/ len > Left(d, r) THEN Fail(r)
    ELSE [r EXCEPT !.nodes[r.n].blob = @ \o SubSeq(d, r.p + 1, r.p + len), !.nodes[r.n].at = r.p, !.p = @ + len]

Counted(d, r) == IF r.n = 0 THEN r ELSE Take(d, Past(d, r), Word(d, r))

Number(d, r) == IF Left(d, r) = 0 THEN Fail(r) ELSE [r EXCEPT !.nodes[r.n].iv = d[r.p + 1], !.p = @ + 1]

\* The sign of a long counts its digits.
Digits(d, r) == IF r.n = 0 THEN r ELSE LET n == r.nodes[r.n].iv IN Take(d, r, IF n < 0 THEN -n ELSE n)

\* The two parts of a complex number, with a mark between them.
Parts(d, r) == LET first == Counted(d, r) IN IF first.n = 0 THEN first ELSE Counted(d, [first EXCEPT !.nodes[first.n].blob = Append(@, 0)])

Refer(d, r, ref) ==
    LET i == Word(d, r) + 1
    IN IF ref \/ i \notin DOMAIN r.refs THEN Fail(r) ELSE [Past(d, r) EXCEPT !.n = r.refs[i]]

Attach(r, into) == IF r.n = 0 THEN r ELSE [r EXCEPT !.nodes[into].seq = Append(@, r.n), !.n = into]

\* Up to Python 3.10 a code object has its number of locals and three tuples of
\* names, later one tuple with kinds, a qualified name and an exception table.
Numbers(minor) == IF minor <= 10 THEN 6 ELSE 5

Tables(minor) == IF minor <= 10 THEN 1 ELSE 2

RECURSIVE obj(_, _, _, _), Pairs(_, _, _, _)

Objects(d, minor, depth, count, r) ==
    IF r.n = 0 \/ count < 0 THEN Fail(r)
    ELSE FoldLeft(LAMBDA s, i : IF s.n = 0 THEN s ELSE Attach(obj(d, minor, depth + 1, s), r.n), r, [i \in 1 .. Min_(count, Left(d, r) + 1) |-> i])

\* The bytecode of a code object is listed once, however often it is referred to.
Listed(r) ==
    LET c == r.nodes[r.nodes[r.n].seq[1]]
        place == range(c.at, Len(c.blob))
    IN IF c.k = "Bytes" /\ place \notin ToSet(r.ranges) THEN [r EXCEPT !.ranges = Append(@, place)] ELSE r

parse_code(d, minor, depth, r) ==
    LET head == Objects(d, minor, depth, 8, Take(d, r, Numbers(minor)))
        whole == Objects(d, minor, depth, Tables(minor), IF Left(d, head) = 0 THEN Fail(head) ELSE [head EXCEPT !.p = @ + 1])
    IN IF whole.n = 0 THEN whole ELSE Listed(whole)

\* Keys and values up to the null object.
Pairs(d, minor, depth, r) ==
    LET k == obj(d, minor, depth + 1, r)
        v == obj(d, minor, depth + 1, k)
    IN IF k.n = 0 THEN k
       ELSE IF k.nodes[k.n].k = "NullTag" THEN [k EXCEPT !.n = r.n]
       ELSE IF v.n = 0 THEN v
       ELSE Pairs(d, minor, depth, [v EXCEPT !.nodes[r.n].seq = @ \o <<k.n, v.n>>, !.n = r.n])

obj(d, minor, depth, r) ==
    LET cell == d[r.p + 1]
        tag == cell % FLAG_REF
        New(k) == reserve_node([r EXCEPT !.p = @ + 1], k, cell >= FLAG_REF)
        More(k) == Objects(d, minor, depth, Word(d, New(k)), Past(d, New(k)))
    IN IF depth > kMaxMarshalDepth \/ Left(d, r) = 0 THEN Fail(r)
       ELSE IF tag \in DOMAIN Atoms THEN New(Atoms[tag])
       ELSE IF tag = TYPE_INT THEN Number(d, New("Int"))
       ELSE IF tag \in DOMAIN Fixed THEN Take(d, New(Fixed[tag]), 1)
       ELSE IF tag = TYPE_LONG THEN Digits(d, Number(d, New("Long")))
       ELSE IF tag \in DOMAIN Strings THEN Counted(d, New(Strings[tag]))
       ELSE IF tag = TYPE_COMPLEX THEN Parts(d, New("Complex"))
       ELSE IF tag = TYPE_REF THEN Refer(d, [r EXCEPT !.p = @ + 1], cell >= FLAG_REF)
       ELSE IF tag \in DOMAIN Sequences_ THEN More(Sequences_[tag])
       ELSE IF tag = TYPE_DICT THEN Pairs(d, minor, depth, New("Dict"))
       ELSE IF tag = TYPE_SLICE /\ minor >= 14 THEN Objects(d, minor, depth, 3, New("Slice"))
       ELSE IF tag = TYPE_CODE THEN parse_code(d, minor, depth, New("Code"))
       ELSE Fail(r)

---------------------------------------------------------------------------
(* What an object means: references resolved, sets in one order, without    *)
(* file name and lines.  (A set that contains itself has no end here.)      *)

RECURSIVE canon(_, _, _)

byte_less(a, b) ==
    LET i == FirstWhere(Min_(Len(a), Len(b)), LAMBDA k : a[k] # b[k])
    IN IF i # 0 THEN a[i] < b[i] ELSE Len(a) < Len(b)

put_blob(b) == <<Len(b)>> \o b

\* The numbers and the members of a code object that count, in their order.
Numbers_(c) == IF Len(c.blob) = 6 THEN c.blob ELSE SubSeq(c.blob, 1, 3) \o <<0>> \o SubSeq(c.blob, 4, 5)

Meaning(c) == IF Len(c.seq) = 9 THEN <<1, 2, 3, 4, 5, 6, 8>> ELSE <<1, 2, 3, 4, 5, 7, 8, 10>>

canon(nodes, n, active) ==
    LET c == nodes[n]
        Every(members) == FlattenSeq([i \in DOMAIN members |-> canon(nodes, members[i], active \cup {n})])
        each == [i \in DOMAIN c.seq |-> canon(nodes, c.seq[i], {})]
        Body == CASE c.k \in {"Int", "Long"} -> <<c.iv>> \o put_blob(c.blob)
                  [] c.k \in {"Float", "Complex", "Bytes", "String"} -> put_blob(c.blob)
                  [] c.k \in {"Tuple", "List", "Slice", "Dict"} -> <<Len(c.seq)>> \o Every(c.seq)
                  [] c.k \in {"Set", "FrozenSet"} ->
                        LET sorted == SortSeq(each, byte_less) IN <<Len(c.seq)>> \o FlattenSeq([i \in DOMAIN sorted |-> put_blob(sorted[i])])
                  [] c.k = "Code" -> Numbers_(c) \o Every([i \in DOMAIN Meaning(c) |-> c.seq[Meaning(c)[i]]])
                  [] OTHER -> <<>>
    IN IF n \in active THEN <<254>> ELSE <<KindNo[c.k]>> \o Body

minor_from_version(v) == IF v >= 300 THEN v % 100 ELSE IF v >= 30 THEN v % 10 ELSE v

NoMarshal == [valid |-> FALSE, hash |-> <<>>, ranges |-> <<>>, codes |-> 0, root |-> 0, nodes |-> <<>>]

\* One code object and nothing behind it.
Whole(d, r) ==
    IF r.n = 0 \/ r.p # Len(d) THEN NoMarshal
    ELSE IF r.nodes[r.n].k # "Code" THEN NoMarshal
    ELSE [valid |-> TRUE, hash |-> canon(r.nodes, r.n, {}), ranges |-> r.ranges, codes |-> r.codes, root |-> r.n, nodes |-> r.nodes]

semantic_hash_python_marshal(d, version) ==
    IF minor_from_version(version) \notin 8 .. 14 THEN NoMarshal
    ELSE Whole(d, obj(d, minor_from_version(version), 0, Reader))

Scalar(c) == [kind |-> IF c.k \in {"Int", "String"} THEN c.k ELSE "Other", integer |-> IF c.k = "Int" THEN c.iv ELSE 0, text |-> IF c.k = "String" THEN c.blob ELSE <<>>]

NoRoot == [valid |-> FALSE, code |-> <<>>, constants |-> <<>>, names |-> <<>>]

RootOf(m) ==
    LET Member(i) == m.nodes[m.nodes[m.root].seq[i]]
        Members(i) == [k \in DOMAIN Member(i).seq |-> m.nodes[Member(i).seq[k]]]
    IN IF ~m.valid THEN NoRoot
       ELSE IF Member(1).k # "Bytes" \/ Member(2).k # "Tuple" \/ Member(3).k # "Tuple" THEN NoRoot
       ELSE IF \E k \in DOMAIN Members(3) : Members(3)[k].k # "String" THEN NoRoot
       ELSE [valid |-> TRUE, code |-> Member(1).blob, constants |-> [k \in DOMAIN Members(2) |-> Scalar(Members(2)[k])],
             names |-> [k \in DOMAIN Members(3) |-> Members(3)[k].blob]]

inspect_python_marshal_root_code(d, version) == RootOf(semantic_hash_python_marshal(d, version))

---------------------------------------------------------------------------
(* The opcodes of all code objects replaced, each where it stands.          *)

\* The opcodes of a range are its first, third, ... cells.
InUnit(place, i) == place.off < i /\ i <= place.off + place.len /\ (i - place.off) % 2 = 1

NoRewrite == [valid |-> FALSE, changed |-> FALSE, bytes |-> <<>>, units |-> 0]

Exchanged(bytes, place, map) == [i \in DOMAIN bytes |-> IF InUnit(place, i) /\ bytes[i] \in DOMAIN map THEN map[bytes[i]] ELSE bytes[i]]

\* The result must read as the original did.
Verified(d, bytes, m, verify) ==
    IF ~verify.valid \/ verify.codes # m.codes \/ Len(verify.ranges) # Len(m.ranges) THEN NoRewrite
    ELSE [valid |-> TRUE, changed |-> bytes # d, bytes |-> bytes, units |-> FoldLeft(LAMBDA n, place : n + place.len \div 2, 0, m.ranges)]

Rewritten(d, m, version, map) ==
    LET bytes == FoldLeft(LAMBDA b, place : Exchanged(b, place, map), d, m.ranges)
        Unmapped(place) == \E i \in DOMAIN d : InUnit(place, i) /\ d[i] \notin DOMAIN map
    IN IF ~m.valid \/ \E k \in DOMAIN m.ranges : m.ranges[k].len % 2 = 1 \/ Unmapped(m.ranges[k]) THEN NoRewrite
       ELSE Verified(d, bytes, m, semantic_hash_python_marshal(bytes, version))

remap_python_marshal_opcodes(d, version, map) == Rewritten(d, semantic_hash_python_marshal(d, version), version, map)

---------------------------------------------------------------------------
(* A .pyc file: four words of header, the first one the magic number.       *)

kMagicRegistry == 3413 :> 8 @@ 3425 :> 9 @@ 3439 :> 10 @@ 3495 :> 11 @@ 3531 :> 12 @@ 3571 :> 13 @@ 3627 :> 14

HeaderSize == 16

identify_cpython_pyc_magic(x) == x.size >= 4 /\ x.crlf /\ x.magic \in DOMAIN kMagicRegistry

HeaderKind(flags) ==
    CASE flags = 0 -> "TIMESTAMP" [] flags = 1 -> "PEP552_HASH_UNCHECKED" [] flags = 2 -> "TIMESTAMP_NONCANONICAL_CHECK_SOURCE_BIT"
      [] OTHER -> "PEP552_HASH_CHECKED"

\* How often each opcode stands in the listed bytecode; odd ranges are left out.
Inventory(d, m) ==
    LET At(op) == {<<k, i>> \in (DOMAIN m.ranges) \X (DOMAIN d) : m.ranges[k].len % 2 = 0 /\ InUnit(m.ranges[k], i) /\ d[i] = op}
    IN [op \in {o \in ToSet(d) : At(o) # {}} |-> Cardinality(At(op))]

Bytecode(x, m, root) ==
    IF ~m.valid \/ ~root.valid THEN Failed
    ELSE Confirmed(<<range(0, HeaderSize), range(HeaderSize, x.size - HeaderSize)>>
                   \o [k \in DOMAIN m.ranges |-> range(HeaderSize + m.ranges[k].off, m.ranges[k].len)])
         @@ [hash |-> m.hash, header |-> HeaderKind(x.flags), root |-> root, codes |-> m.codes, counts |-> Inventory(x.payload, m),
             complete |-> \A k \in DOMAIN m.ranges : m.ranges[k].len % 2 = 0]

\* A file that is neither named .pyc nor begins like one is none.
detect_python_bytecode(x) ==
    IF ~x.filename_hint /\ ~identify_cpython_pyc_magic(x) THEN Absent
    ELSE IF ~identify_cpython_pyc_magic(x) \/ x.size < HeaderSize \/ x.flags \notin 0 .. 3 THEN Failed
    ELSE LET version == 300 + kMagicRegistry[x.magic]
         IN Bytecode(x, semantic_hash_python_marshal(x.payload, version), inspect_python_marshal_root_code(x.payload, version))

---------------------------------------------------------------------------
(* Inputs: what a compiler writes, field by field; the constants in several *)
(* encodings of the same meaning.                                           *)

Blob_(tag, cells) == <<tag, Len(cells)>> \o cells

Const(sem, n, cells) == [sem |-> sem, n |-> n, cells |-> cells]

\* Bytecode, where it can be referred to, has the first number.
CodeCells(x, body, consts, line, name) ==
    <<99>> \o (IF x.writer <= 10 THEN <<0, 0, 0, 1, x.stack, 64>> ELSE <<0, 0, 0, x.stack, 64>>)
    \o body \o consts \o x.names \o (IF x.writer <= 10 THEN <<41, 0, 41, 0, 41, 0>> ELSE <<41, 0, 115, 0>>)
    \o Blob_(122, x.file) \o name \o (IF x.writer <= 10 THEN <<>> ELSE name) \o <<line>> \o Blob_(115, x.table)
    \o (IF x.writer <= 10 THEN <<>> ELSE Blob_(115, x.handlers))

Body(x) == Blob_(x.body_tag + (IF x.shared THEN FLAG_REF ELSE 0), x.body)

\* A function in the constants, with bytecode of its own or that of the module.
Consts(x) ==
    LET inner == CodeCells(x, IF x.shared THEN <<114, 0>> ELSE Blob_(x.body_tag, x.body), <<41, 0>>, 7, Blob_(122, <<5>>))
    IN IF x.const.sem = "function" THEN <<41, 1>> \o inner ELSE <<41, x.const.n>> \o x.const.cells

Complete(x) == CodeCells(x, Body(x), Consts(x), x.line, Blob_(x.name_tag, x.name))

Written(x) == LET all == Complete(x) IN SubSeq(all, 1, Len(all) - x.cut) \o x.extra

\* The file x describes.
Pyc(x) == x @@ [payload |-> IF x.header < HeaderSize THEN <<>> ELSE Written(x), size |-> x.header + IF x.header < HeaderSize THEN 0 ELSE Len(Written(x))]

PycBase == [part |-> "pyc", filename_hint |-> TRUE, crlf |-> TRUE, magic |-> 3413, flags |-> 0, header |-> 16, writer |-> 8, stack |-> 2, body |-> <<1, 0, 2, 5>>,
            body_tag |-> 115, const |-> Const("none", 1, <<78>>), names |-> <<41, 1, 90, 1, 3>>, file |-> <<4>>, name |-> <<5>>, name_tag |-> 122, line |-> 1,
            table |-> <<6>>, handlers |-> <<>>, shared |-> FALSE, cut |-> 0, extra |-> <<>>, map |-> 1 :> 2 @@ 2 :> 1]

ConstForms ==
    {Const("text", 1, <<122, 1, 7>>), Const("text", 1, <<117, 1, 7>>), Const("twice", 2, <<122, 1, 7, 122, 1, 7>>), Const("twice", 2, <<122 + FLAG_REF, 1, 7, 114, 0>>),
     Const("pair", 3, <<122, 1, 7, 122, 1, 8, 122, 1, 8>>), Const("pair", 3, <<122 + FLAG_REF, 1, 7, 122 + FLAG_REF, 1, 8, 114, 1>>), Const("textint", 2, <<122, 1, 7, 105, 3>>), Const("set", 1, <<62, 2, 105, 1, 105, 2>>), Const("set", 1, <<62, 2, 105, 2, 105, 1>>),
     Const("set3", 1, <<62, 2, 105, 1, 105, 3>>), Const("mutable", 1, <<60, 2, 105, 1, 105, 2>>), Const("dict", 1, <<123, 105, 1, 105, 2, 48>>),
     Const("list", 1, <<91, 1, 105, 1>>), Const("tuple", 1, <<41, 1, 105, 1>>), Const("tuple", 1, <<40, 1, 105, 1>>), Const("slice", 1, <<58, 78, 78, 78>>),
     Const("long", 1, <<108, 2, 5, 6>>), Const("negative", 1, <<108, -2, 5, 6>>), Const("float", 1, <<103, 9>>), Const("old_float", 1, <<102, 2, 4, 9>>),
     Const("complex", 1, <<121, 9>>), Const("old_complex", 1, <<120, 1, 4, 1, 9>>), Const("loop", 1, <<91 + FLAG_REF, 1, 114, 0>>), Const("true", 1, <<84>>),
     Const("bad", 1, <<114, 9>>), Const("bad", 1, <<114 + FLAG_REF, 0>>), Const("bad", 1, <<40, -1>>), Const("bad", 1, <<33>>), Const("bad", 1, <<122, 99>>),
     Const("bad", 1, <<108, 99>>), Const("deep", 1, <<41, 1, 41, 1, 41, 1, 41, 1, 78>>), Const("deeper", 1, <<41, 1, 41, 1, 41, 1, 41, 1, 41, 1, 78>>),
     Const("function", 1, <<>>)}

PycAlt ==
    [filename_hint |-> {FALSE}, crlf |-> {FALSE}, magic |-> {3412, 3439, 3495, 3627}, flags |-> {1, 2, 3, 4}, header |-> {3, 15}, writer |-> {11, 14}, stack |-> {3},
     body |-> {<<1, 0>>, <<2, 0, 2, 5>>, <<1, 0, 2>>, <<3, 1>>, <<>>}, body_tag |-> {117}, const |-> ConstForms, names |-> {<<41, 1, 90, 1, 4>>, <<41, 1, 105, 3>>, <<91, 0>>},
     file |-> {<<>>, <<9>>}, name |-> {<<6>>}, name_tag |-> {65, 117}, line |-> {2}, table |-> {<<>>, <<7, 7>>}, handlers |-> {<<8>>}, shared |-> {TRUE},
     cut |-> {1, 2, 3, 9, 40}, extra |-> {<<0>>, <<78, 78>>}, map |-> {1 :> 1 @@ 2 :> 2, 1 :> 2, 1 :> 2 @@ 2 :> 3 @@ 3 :> 1}]

\* Functions, and files of the later layout, are varied in one more field.
PycBases ==
    {[PycBase EXCEPT !.const = Const("function", 1, <<>>)], [PycBase EXCEPT !.const = Const("function", 1, <<>>), !.shared = TRUE],
     [PycBase EXCEPT !.magic = 3627, !.writer = 14]}

\* References by number count from an object of the constants.
PycInput(x, part) ==
    /\ \E base \in {PycBase} \cup PycBases : \E f, g \in DOMAIN PycAlt : \E v \in PycAlt[f], w \in PycAlt[g] :
          /\ base = PycBase \/ (f = g /\ v = w)
          /\ x = Pyc([base EXCEPT !.part = part, ![f] = v, ![g] = w])
    /\ ~(x.shared /\ 114 \in ToSet(x.const.cells))

---------------------------------------------------------------------------

Version_(x) == 300 + kMagicRegistry[x.magic]

\* The same meaning, written plainly.
Plain(x) ==
    LET form == CHOOSE c \in ConstForms \cup {PycBase.const} : c.sem = x.const.sem
    IN Complete([x EXCEPT !.const = form, !.file = <<>>, !.line = 0, !.table = <<>>, !.name_tag = 122, !.shared = FALSE])

Meant(x) == <<x.writer, x.stack, x.body, x.const.sem, x.names, x.name, IF x.writer > 10 THEN x.handlers ELSE <<>>>>

\* The last string of a code object, whose length is not missed.
LastString(x) == 1 + Len(IF x.writer <= 10 THEN x.table ELSE x.handlers)

\* A file that is read has been written completely (up to the length of its
\* last string), the hash depends on its meaning and on nothing else, and an
\* opcode is counted where it stands.  (A file cut off and continued may be
\* another complete one.)
PycExact(x, r) ==
    r.valid /\ (x.cut = 0 \/ x.extra = <<>>) =>
        /\ x.payload = Complete(x) \/ x.payload = SubSeq(Complete(x), 1, Len(Complete(x)) - LastString(x))
        /\ x.payload = Complete(x) => r.hash = semantic_hash_python_marshal(Plain(x), Version_(x)).hash
        /\ x.payload = Complete(x) /\ x.writer = 8 /\ Meant(x) # Meant(PycBase) => r.hash # semantic_hash_python_marshal(Complete(PycBase), 308).hash
        /\ r.complete <=> Len(x.body) % 2 = 0
        /\ r.complete => \A op \in 1 .. 3 :
              (IF op \in DOMAIN r.counts THEN r.counts[op] ELSE 0)
                  = (IF x.const.sem = "function" /\ ~x.shared THEN 2 ELSE 1) * Cardinality({i \in DOMAIN x.body : i % 2 = 1 /\ x.body[i] = op})

RewriteResult(m) == [state |-> IF m.valid THEN "NORMALIZED" ELSE "FAILED", valid |-> m.valid, ranges |-> <<>>, rewrite |-> m]

Rewrite(x) == RewriteResult(remap_python_marshal_opcodes(x.payload, IF x.magic \in DOMAIN kMagicRegistry THEN Version_(x) ELSE 307, x.map))

\* Every opcode is exchanged once, in whatever number of code objects it is
\* used, and nothing else changes.
RewriteExact(x, r) ==
    LET body == [i \in DOMAIN x.body |-> IF i % 2 = 1 THEN x.map[x.body[i]] ELSE x.body[i]]
        written == x.body_tag = 117
        known == Len(x.body) % 2 = 0 /\ \A i \in DOMAIN x.body : i % 2 = 1 => x.body[i] \in DOMAIN x.map
    IN x.payload = Complete(x) /\ ~written =>
          /\ r.valid => known /\ r.rewrite.bytes = Complete([x EXCEPT !.body = body])
          /\ known /\ semantic_hash_python_marshal(x.payload, IF x.magic \in DOMAIN kMagicRegistry THEN Version_(x) ELSE 307).valid => r.valid

---------------------------------------------------------------------------
(* Frozen modules.  A table is a pointer to records of name, code, size,    *)
(* and in later versions package flag and getter, up to an empty one.       *)

InSection(s, rva) == s.rva <= rva /\ rva < s.rva + (IF s.vsize > s.raw_size THEN s.vsize ELSE s.raw_size)

FirstOf(sections) == IF sections = <<>> THEN {} ELSE {Head(sections)}

\* The first section in which the address lies and of which this holds.
SectionAt(x, rva, Has(_)) == FirstOf(SelectSeq(x.sections, LAMBDA s : InSection(s, rva) /\ Has(s)))

OffIn(rva, hits) ==
    IF hits = {} THEN Bad
    ELSE CHOOSE off \in {IF rva - s.rva >= s.raw_size THEN Bad ELSE s.raw_offset + rva - s.rva : s \in hits} : TRUE

\* A section whose bytes lie behind the end of the file is passed over.
rva_off(x, rva) ==
    LET Here(s) == rva - s.rva >= s.raw_size \/ s.raw_offset + rva - s.rva < Len(x.file)
    IN IF rva < x.headers_size /\ rva < Len(x.file) THEN rva ELSE OffIn(rva, SectionAt(x, rva, Here))

exec_rva(x, rva) == \E s \in SectionAt(x, rva, LAMBDA t : TRUE) : s.exec

FileBacked(x, rva) == rva_off(x, rva) # Bad

exec_file_rva(x, rva) == exec_rva(x, rva) /\ FileBacked(x, rva)

va_rva(x, va) == IF va < x.image_base \/ ~FileBacked(x, va - x.image_base) THEN Bad ELSE va - x.image_base

read_rva(x, rva) == x.file[rva_off(x, rva) + 1]

NameFrom(x, off, n) == IF n = 0 THEN <<>> ELSE IF x.file[off + n] # 0 THEN <<>> ELSE SubSeq(x.file, off + 1, off + n - 1)

\* A name ends with a zero within its limit and is printable; none otherwise.
cstr(x, rva) ==
    LET off == rva_off(x, rva)
    IN IF off = Bad THEN <<>> ELSE NameFrom(x, off, FirstWhere(Min_(kMaxFrozenName, Len(x.file) - off), LAMBDA k : x.file[off + k] \notin 32 .. 126))

table_pointer(x, ex) ==
    IF ex.forwarded \/ exec_rva(x, ex.rva) \/ ~FileBacked(x, ex.rva) THEN Bad ELSE va_rva(x, read_rva(x, ex.rva))

RECURSIVE Getter(_, _, _, _, _), Rows(_, _, _, _)

\* What an instruction leaves in rax, which is returned.
Loaded(x, i, rax) ==
    CASE i.op = "lea" -> IF FileBacked(x, i.arg) THEN i.arg ELSE Bad
      [] i.op = "movi" -> va_rva(x, i.arg)
      [] i.op = "load" -> IF FileBacked(x, i.arg) THEN va_rva(x, read_rva(x, i.arg)) ELSE Bad
      [] OTHER -> rax

Getter(x, start, cur, n, rax) ==
    IF n = kMaxGetterInstructions \/ cur >= start + kMaxGetterBytes \/ ~FileBacked(x, cur) \/ cur \notin DOMAIN x.code THEN Bad
    ELSE LET i == x.code[cur]
             value == Loaded(x, i, rax)
         IN IF i.op \in {"branches", "writes_rax"} \/ (i.op \in {"lea", "movi", "load"} /\ value = Bad) THEN Bad
            ELSE IF i.op = "ret" THEN rax
            ELSE Getter(x, start, cur + i.len, n + 1, value)

py311_getter_value(x, rva) == IF exec_file_rva(x, rva) THEN Getter(x, rva, rva, 0, Bad) ELSE Bad

FrozenModule(name, state, at) == [name |-> name, state |-> state, at |-> at]

Malformed(name) == FrozenModule(name, "MALFORMED", range(0, 0))

\* A deep-frozen module is a code object in the image, with the type and the
\* number of units in its header.
CodeObject(x, name, obj_rva) ==
    LET units == read_rva(x, obj_rva + 2)
        ao == rva_off(x, obj_rva + kPy311CodeAdaptiveOffset)
    IN IF obj_rva = Bad THEN Malformed(name)
       ELSE IF exec_rva(x, obj_rva) \/ ~FileBacked(x, obj_rva + 1) \/ ~FileBacked(x, obj_rva + 2) THEN Malformed(name)
       ELSE IF va_rva(x, read_rva(x, obj_rva + 1)) # x.exports["PyCode_Type"].rva THEN Malformed(name)
       ELSE IF units \notin 0 .. kMaxPy311CodeUnits \/ ao = Bad THEN Malformed(name)
       ELSE IF 2 * units > Len(x.file) - ao THEN Malformed(name)
       ELSE FrozenModule(name, "DEEP_FROZEN_STATIC_CODE_OBJECT", range(ao, 2 * units))

fill_py311_deep(x, name, getter) == CodeObject(x, name, py311_getter_value(x, getter))

fill_raw(x, name, code_va, size) ==
    LET co == rva_off(x, va_rva(x, code_va))
    IN IF size <= 0 \/ size > kMaxFrozenBlob \/ va_rva(x, code_va) = Bad THEN Malformed(name)
       ELSE IF size > Len(x.file) - co THEN Malformed(name)
       ELSE IF ~semantic_hash_python_marshal(SubSeq(x.file, co + 1, co + size), 300 + x.minor).valid THEN Malformed(name)
       ELSE FrozenModule(name, "RAW_MARSHAL", range(co, size))

FieldsOf(minor) == IF minor <= 10 THEN 3 ELSE IF minor <= 12 THEN 5 ELSE 4

IntMin == -WordLimit

Abs_(n) == IF n < 0 THEN -n ELSE n

FrozenEntry(x, name, f) ==
    LET getter == va_rva(x, f[5])
    IN IF x.minor <= 10 THEN IF f[3] = IntMin THEN Malformed(name) ELSE fill_raw(x, name, f[2], Abs_(f[3]))
       ELSE IF f[4] \notin {0, 1} THEN Malformed(name)
       ELSE IF f[5] # 0 /\ (getter = Bad \/ ~exec_file_rva(x, getter)) THEN Malformed(name)
       ELSE IF f[2] # 0 \/ f[3] # 0 THEN IF f[2] = 0 \/ f[3] <= 0 THEN Malformed(name) ELSE fill_raw(x, name, f[2], f[3])
       ELSE IF x.minor = 11 /\ f[5] # 0 THEN fill_py311_deep(x, name, getter)
       ELSE FrozenModule(name, "UNAVAILABLE", range(0, 0))

Recovered(m) == m.state \in {"RAW_MARSHAL", "DEEP_FROZEN_STATIC_CODE_OBJECT"}

FrozenTable(rva, state, modules) == [rva |-> rva, state |-> state, modules |-> modules]

\* The records from the i-th on.  A rejected table keeps what was read of it.
Rows(x, table, i, modules) ==
    LET record == table + (i - 1) * FieldsOf(x.minor)
        f == [k \in 1 .. 5 |-> IF k <= FieldsOf(x.minor) THEN read_rva(x, record + k - 1) ELSE 0]
        name == cstr(x, va_rva(x, f[1]))
    IN IF i > kMaxFrozenEntries \/ \E k \in 1 .. FieldsOf(x.minor) : ~FileBacked(x, record + k - 1) THEN FrozenTable(table, "REJECTED", modules)
       ELSE IF f[1] = 0 THEN
            FrozenTable(table, IF \E k \in 2 .. 5 : f[k] # 0 THEN "REJECTED" ELSE IF \A k \in DOMAIN modules : Recovered(modules[k]) THEN "CONFIRMED" ELSE "PARTIAL", modules)
       ELSE IF va_rva(x, f[1]) = Bad THEN FrozenTable(table, "REJECTED", modules)
       ELSE IF name = <<>> THEN FrozenTable(table, "REJECTED", modules)
       ELSE Rows(x, table, i + 1, Append(modules, FrozenEntry(x, name, f)))

TableFrom(x, table) == IF table = Bad THEN FrozenTable(0, "REJECTED", <<>>) ELSE Rows(x, table, 1, <<>>)

parse_table(x, ex) == TableFrom(x, table_pointer(x, ex))

\* A table of the application's own counts unless it is empty.
Custom(x) == FileBacked(x, x.exports["PyImport_FrozenModules"].rva) /\ read_rva(x, x.exports["PyImport_FrozenModules"].rva) # 0

TableNames(x) ==
    IF x.minor <= 10 THEN <<"PyImport_FrozenModules">>
    ELSE <<"_PyImport_FrozenBootstrap", "_PyImport_FrozenStdlib", "_PyImport_FrozenTest", "PyImport_FrozenModules">>

FrozenExports(x) == SelectSeq(TableNames(x), LAMBDA n : n \in DOMAIN x.exports /\ (n = "PyImport_FrozenModules" /\ x.minor > 10 => Custom(x)))

PyCodeType(x) ==
    "PyCode_Type" \in DOMAIN x.exports /\ LET t == x.exports["PyCode_Type"] IN ~t.forwarded /\ ~exec_rva(x, t.rva) /\ FileBacked(x, t.rva)

\* Two exports may give the same table.
Kept(tables) == FoldLeft(LAMBDA kept, t : IF t.rva # 0 /\ \E k \in DOMAIN kept : kept[k].rva = t.rva THEN kept ELSE Append(kept, t), <<>>, tables)

FrozenResult(state, tables) ==
    LET modules == FlattenSeq([k \in DOMAIN tables |-> tables[k].modules])
        Count(states) == Len(SelectSeq(modules, LAMBDA m : m.state \in states))
    IN [state |-> state, valid |-> state \in {"CONFIRMED", "PARTIAL"}, tables |-> tables, ranges |-> [k \in DOMAIN modules |-> modules[k].at],
        raw |-> Count({"RAW_MARSHAL"}), deep |-> Count({"DEEP_FROZEN_STATIC_CODE_OBJECT"}), unavailable |-> Count({"UNAVAILABLE", "MALFORMED"})]

FrozenOf(tables) ==
    LET states == {tables[k].state : k \in DOMAIN tables}
    IN FrozenResult(IF states = {"REJECTED"} THEN "REJECTED" ELSE IF states = {"CONFIRMED"} THEN "CONFIRMED" ELSE "PARTIAL", tables)

analyze_cpython_frozen(x) ==
    IF ~x.valid THEN FrozenResult("NO_FROZEN_EXPORTS", <<>>)
    ELSE IF x.minor \notin 8 .. 14 THEN FrozenResult("REJECTED", <<>>)
    ELSE IF FrozenExports(x) = <<>> THEN FrozenResult("NO_FROZEN_EXPORTS", <<>>)
    ELSE IF Len(FrozenExports(x)) > kMaxFrozenTables \/ (x.minor = 11 /\ ~PyCodeType(x)) THEN FrozenResult("REJECTED", <<>>)
    ELSE FrozenOf(Kept([k \in DOMAIN FrozenExports(x) |-> parse_table(x, x.exports[FrozenExports(x)[k]])]))

---------------------------------------------------------------------------
(* An image: four pointers, two tables of up to four records, a name, a     *)
(* code object, a pointer to it, a marshalled module, and the getters in a  *)
(* section of their own.  What points somewhere names the place.            *)

Module_(minor) == Complete([PycBase EXCEPT !.writer = minor])

Places(minor) ==
    "pointers" :> 8 @@ "A" :> 12 @@ "B" :> 32 @@ "name" :> 52 @@ "object" :> 55 @@ "type" :> 62 @@ "slot" :> 63 @@ "module" :> 64
    @@ "getters" :> 64 + Len(Module_(minor)) @@ "nowhere" :> 200

ImageBase == 100

\* The cells of a table, which nothing sensible follows.
TableCells(x, rows, VA(_)) ==
    LET Cells(row) == SubSeq(<<VA(row.name), VA(row.code), row.size, row.package, VA(row.getter)>>, 1, FieldsOf(x.minor))
        cells == FlattenSeq([i \in DOMAIN rows |-> Cells(rows[i])])
    IN [i \in 1 .. 20 |-> IF i <= Len(cells) THEN cells[i] ELSE 7]

Image(x) ==
    LET at == Places(x.minor)
        VA(place) == IF place = "null" THEN 0 ELSE ImageBase + at[place]
        names == <<"_PyImport_FrozenBootstrap", "_PyImport_FrozenStdlib", "_PyImport_FrozenTest", "PyImport_FrozenModules", "PyCode_Type">>
        RvaOf(k) == IF k = 5 THEN at[x.type_export] ELSE at["pointers"] + k - 1
        data == [k \in 1 .. 4 |-> VA(x.pointers[k])] \o TableCells(x, x.rowsA, VA) \o TableCells(x, x.rowsB, VA) \o x.name
                \o <<1, VA(x.type), x.units, 5, 0, 6, 0>> \o <<0, VA("object")>> \o Module_(x.minor)
        file == <<0, 0, 0, 0>> \o data \o <<0, 0, 0, 0, 0, 0>>
        section == [rva |-> 8, vsize |-> Len(data), raw_offset |-> 4, raw_size |-> Len(data), exec |-> x.data_exec]
        text == [rva |-> at["getters"], vsize |-> 6, raw_offset |-> 4 + Len(data), raw_size |-> x.text_backed, exec |-> x.text_exec]
    IN x @@ [file |-> SubSeq(file, 1, Len(file) - x.missing), size |-> Len(file) - x.missing, headers_size |-> 4, image_base |-> ImageBase, sections |-> <<section, text>>,
             exports |-> [n \in {names[k] : k \in x.exported} |-> LET k == CHOOSE j \in 1 .. 5 : names[j] = n IN [rva |-> RvaOf(k), forwarded |-> k \in x.forwarded]],
             code |-> [r \in {at["getters"] + i - 1 : i \in DOMAIN x.getter} |-> LET i == x.getter[r - at["getters"] + 1]
                        IN [op |-> i[1], len |-> 1, arg |-> IF i[1] = "movi" THEN VA(i[2]) ELSE at[i[2]]]]]

Row(name, code, size, package, getter) == [name |-> name, code |-> code, size |-> size, package |-> package, getter |-> getter]

RawRow(minor) == Row("name", "module", Len(Module_(minor)), 0, "null")

DeepRow == Row("name", "null", 0, 0, "getters")

LastRow == Row("null", "null", 0, 0, "null")

Ret == <<"ret", "name">>

FrozenBase(minor) ==
    [part |-> "frozen", valid |-> TRUE, minor |-> minor, exported |-> 1 .. 5, forwarded |-> {}, pointers |-> <<"A", "B", "B", IF minor <= 10 THEN "A" ELSE "null">>,
     rowsA |-> <<RawRow(minor), IF minor = 11 THEN DeepRow ELSE RawRow(minor), LastRow>>, rowsB |-> <<RawRow(minor), LastRow>>, name |-> <<97, 98, 0>>,
     type |-> "type", type_export |-> "type", units |-> 1, getter |-> <<<<"lea", "object">>, Ret>>, data_exec |-> FALSE, text_exec |-> TRUE, text_backed |-> 6, missing |-> 0]

FrozenAlt(minor) ==
    LET raw == RawRow(minor)
        After(row) == <<row, LastRow>>
    IN [valid |-> {FALSE}, exported |-> {{}, {4, 5}, {1, 2, 3, 4}}, forwarded |-> {{1}, {4}, {5}},
        pointers |-> {<<"A", "B", "B", "A">>, <<"null", "B", "A", "null">>, <<"A", "nowhere", "A", "nowhere">>, <<"getters", "A", "B", "getters">>},
        rowsA |-> {<<>>, <<LastRow>>, <<raw, raw, raw, LastRow>>, <<raw>>, <<raw, [LastRow EXCEPT !.size = 1]>>, <<[LastRow EXCEPT !.getter = "getters"]>>}
                  \cup {After(row) : row \in {[raw EXCEPT !.size = v] : v \in {0, -1, IntMin, raw.size - 1, raw.size + 1, -raw.size, 99}}}
                  \cup {After([raw EXCEPT !.package = 1]), After([raw EXCEPT !.package = 2]), After([raw EXCEPT !.code = "null"]), After([raw EXCEPT !.code = "nowhere"]),
                        After([raw EXCEPT !.code = "name"]), After([raw EXCEPT !.name = "nowhere"]), After([raw EXCEPT !.getter = "getters"]), After([raw EXCEPT !.getter = "name"]),
                        After([DeepRow EXCEPT !.getter = "null"]), <<DeepRow, [DeepRow EXCEPT !.getter = "null"], raw, LastRow>>, <<[raw EXCEPT !.package = 2], DeepRow, LastRow>>},
        rowsB |-> {<<LastRow>>, <<DeepRow, LastRow>>, <<raw>>}, name |-> {<<0, 0, 0>>, <<97, 98, 99>>, <<97, 7, 0>>}, type |-> {"null", "name"}, type_export |-> {"name", "getters"},
        units |-> {-1, 0, 2, 3}, data_exec |-> {TRUE}, text_exec |-> {FALSE}, text_backed |-> {0, 1}, missing |-> {6, 7, 50},
        getter |-> {<<<<"movi", "object">>, Ret>>, <<<<"load", "slot">>, Ret>>, <<Ret>>, <<<<"lea", "object">>, <<"branches", "name">>, Ret>>, <<<<"lea", "object">>, <<"writes_rax", "name">>, Ret>>,
                    <<<<"lea", "type">>, Ret>>, <<<<"lea", "getters">>, Ret>>, <<<<"lea", "nowhere">>, Ret>>, <<<<"load", "nowhere">>, Ret>>, <<<<"load", "A">>, Ret>>,
                    <<<<"lea", "object">>, <<"nop", "name">>, <<"nop", "name">>, Ret>>, <<<<"lea", "object">>, <<"nop", "name">>, <<"nop", "name">>, <<"nop", "name">>, Ret>>, <<<<"lea", "object">>>>}]

FrozenInput(x) ==
    \E minor \in {8, 11, 13} : \E f, g \in DOMAIN FrozenAlt(minor) : \E v \in FrozenAlt(minor)[f], w \in FrozenAlt(minor)[g] :
        /\ minor = 11 \/ (f = g /\ v = w)
        /\ x = Image([FrozenBase(minor) EXCEPT ![f] = v, ![g] = w])

Shortened(minor) == SubSeq(Module_(minor), 1, Len(Module_(minor)) - LastString([PycBase EXCEPT !.writer = minor]))

\* The records of a table up to the empty one.
Written_(rows) == SubSeq(rows, 1, FirstWhere(Len(rows), LAMBDA i : rows[i].name = "null") - 1)

\* (Zeros are an empty table, wherever they are.)
\* Every module of a confirmed runtime has been found where it is: each table
\* once, however many exports give it, whatever its records are, and a module
\* either as a complete marshalled object or as a code object with its code.
FrozenExact(x, r) ==
    /\ x = Image(FrozenBase(x.minor)) => r.state = "CONFIRMED"
    /\ LET At(t) == CHOOSE p \in DOMAIN Places(x.minor) : Places(x.minor)[p] = t.rva
           RowsAt(p) == IF p = "A" THEN x.rowsA ELSE IF p = "B" THEN x.rowsB ELSE <<LastRow>>
           named == {x.pointers[k] : k \in (IF x.minor > 10 THEN 1 .. 4 ELSE {4}) \cap x.exported} \ {"null"}
       IN r.valid =>
           /\ \A i, j \in DOMAIN r.tables : i # j => r.tables[i].rva = 0 \/ r.tables[i].rva # r.tables[j].rva
           /\ r.raw + r.deep + r.unavailable = Len(r.ranges)
           /\ r.state = "CONFIRMED" =>
                 /\ named = {At(r.tables[k]) : k \in DOMAIN r.tables}
                 /\ r.unavailable = 0
                 /\ \A k \in DOMAIN r.tables : LET all == RowsAt(At(r.tables[k]))
                                                    rows == Written_(all) IN
                       /\ Len(r.tables[k].modules) = Len(rows) /\ Len(rows) < kMaxFrozenEntries
                       /\ all[Len(rows) + 1] = [LastRow EXCEPT !.getter = IF FieldsOf(x.minor) = 5 THEN "null" ELSE all[Len(rows) + 1].getter]
                       /\ \A i \in DOMAIN rows : LET m == r.tables[k].modules[i]
                                                     found == SubSeq(x.file, m.at.off + 1, m.at.off + m.at.len) IN
                             /\ m.name = <<97, 98>>
                             /\ rows[i].code = "module" => m.state = "RAW_MARSHAL" /\ found \in {Module_(x.minor), Shortened(x.minor)}
                             /\ rows[i].code # "module" => m.state # "RAW_MARSHAL" /\ found = SubSeq(<<5, 0, 6, 0>>, 1, 2 * x.units)
                                                        /\ \A j \in DOMAIN x.getter : x.getter[j][1] \notin {"branches", "writes_rax"}

=============================================================================
