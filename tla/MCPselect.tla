----------------------------- MODULE MCPselect -----------------------------
(* Values of the constants of Pselect for TLC: signals of the three kinds    *)
(* that the main loop reacts to.                                             *)
EXTENDS Pselect

SomeSignals == {"CHLD", "WINCH", "INT"}
=============================================================================
