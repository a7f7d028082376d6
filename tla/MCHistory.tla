----------------------------- MODULE MCHistory ------------------------------
(* Values of the constants of History for TLC. *)
EXTENDS History

SomeLines == {<<>>, <<"a">>, <<"b">>, <<"c">>, <<"a", "b">>}
SomeHistories == {<<>>, <<"a", "b">>, <<"b", "c", "a">>}
Secrets == {<<"c">>}
Kept(row) == row
=============================================================================
