-------------------------- MODULE MCDe4dotAdapter --------------------------
(* The adapter on files of up to three chunks, one more than it reads.     *)
EXTENDS De4dotAdapter

MCTarget == <<"a", "b">>

MCContents == {MCTarget, <<"b", "a">>, <<"a", "b", "a">>}
=============================================================================
