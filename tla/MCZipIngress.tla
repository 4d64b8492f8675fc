---------------------------- MODULE MCZipIngress ----------------------------
(* A small instance of ZipIngress for TLC. *)
EXTENDS ZipIngress

Names == {<<"a">>, <<"A">>, <<"b", "/", "a">>, <<"b", "\\", "A">>, <<"b">>, <<"b", "/">>,
          <<"..", "/", "a">>, <<"con">>, <<"u">>, <<"/", "a">>}

File(n) == [name |-> n, kind |-> "file", size |-> 1, packed |-> 1, agrees |-> TRUE]

Odd == {[File(<<"a">>) EXCEPT !.kind = k] : k \in {"dir", "link", "special", "encrypted", "unsupported"}}
       \cup {[File(<<"a">>) EXCEPT !.size = 3], [File(<<"a">>) EXCEPT !.packed = 0],
             [File(<<"a">>) EXCEPT !.agrees = FALSE],
             [File(<<"b", "/", "/">>) EXCEPT !.kind = "dir"]}

\* Names of the first member's and of a folded temporary file.
PartNames == {<<"a", ".part", "|">>, <<"A", ".part", "|">>}

\* Pairs and triples of ordinary files of all names, and one odd member beside one.
MCArchives ==
    {<<File(n), File(m)>> : n, m \in Names}
    \cup {<<File(<<"a">>), File(n)>> : n \in PartNames}
    \cup {<<o, File(n)>> : o \in Odd, n \in {<<"A">>, <<"a">>, <<"b">>}}
    \cup {<<File(n), File(m), File(k)>> : n, m, k \in {<<"a">>, <<"A">>}}
    \cup {<<File(<<"a">>), File(<<"a">>), File(<<"b">>), File(<<"A">>)>>}
=============================================================================
