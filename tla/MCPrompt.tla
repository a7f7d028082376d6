---------------------------- MODULE MCPrompt --------------------------------
(* Values of the constants of Redisplay for TLC. *)
EXTENDS Redisplay

Characters == {"a", "x", "é", "+", "*", "<", ">", "BS", "CR", "NL", "NUL", "ESC", "START", "END",
               "[", "]", ";", "1", "m", "s", "r"}

Smcup == <<"ESC", "s">>
Rmcup == <<"ESC", "r", "r">>

(* Two letters, so that a few pieces fill more than a row; each character    *)
(* with an effect; a colour; the codes of the alternate screen.              *)
AllPieces == {<<"a", "é">>, <<"BS">>, <<"CR">>, <<"NL">>, <<"NUL">>, <<"a", "ESC", "[", "m">>,
              Smcup, Rmcup}
Prompts == {<<>>, <<"a", "é">>, <<"a", "ESC", "[", "m">>}
=============================================================================
