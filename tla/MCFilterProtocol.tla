-------------------------- MODULE MCFilterProtocol --------------------------
(* Values of the constants of FilterProtocol for TLC. *)
EXTENDS FilterProtocol

(* A filter with a handler for prompts, and one that handles signals too. *)
Both == {{"PROMPT"}, {"PROMPT", "SIGNAL"}}
PromptsOnly == {{"PROMPT"}}
=============================================================================
