----------------------------- MODULE MCGuiQueue -----------------------------
(* Up to three rows; the program is opened with none, one or two paths.      *)
EXTENDS GuiQueue

MCStartupPaths == {<<>>, <<"a">>, <<"a", "b">>}
=============================================================================
