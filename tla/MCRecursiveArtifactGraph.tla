---------------------- MODULE MCRecursiveArtifactGraph ----------------------
(* Three contents, one of them twice as large as the others, one of each     *)
(* kind; one file is given, or two copies of it, or two different ones, or   *)
(* too many.  "c" only occurs packed in another file; the extractors of "a"  *)
(* may pass over members.                                                    *)
EXTENDS RecursiveArtifactGraph

MCContents == {"a", "b", "c"}

MCSizeOf == [c \in MCContents |-> IF c = "c" THEN 2 ELSE 1]

MCKindOf == [c \in MCContents |->
    CASE c = "a" -> "dotnet" [] c = "b" -> "container" [] c = "c" -> "other"]

MCSelective == {"a"}

MCRootLists == {<<"a">>, <<"b">>, <<"a", "a">>, <<"a", "b">>, <<"b", "a", "b", "a", "a">>}
=============================================================================
