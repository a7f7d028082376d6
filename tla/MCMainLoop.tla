----------------------------- MODULE MCMainLoop -----------------------------
(* Values of the constants of MainLoop for TLC. *)
EXTENDS MainLoop

NoText == <<>>

(* What the -P option puts on the input line: a letter the user never types. *)
OneLetter == <<-50>>
=============================================================================
