----------------------------- MODULE LineRelay ------------------------------
(***************************************************************************)
(* What rlwrap promises about the user's input, to a command that reads      *)
(* lines: every line is passed on once, in the order of typing, but only     *)
(* when it has been finished by a return. Whatever else happens (output of   *)
(* the command, signals, ...) must not show here.                            *)
(***************************************************************************)
EXTENDS Integers, Sequences

CONSTANTS
  NL,     \* the character that ends a line
  Given   \* what is on the first line from the start

VARIABLES
  editing,  \* typed, and still to be edited or finished
  accepted, \* whole lines, or what is left of them, on their way to the command
  received  \* what the command has got

vars == <<editing, accepted, received>>

Init == editing = Given /\ accepted = <<>> /\ received = <<>>

Front(s, n) == SubSeq(s, 1, n)
Rest(s, n)  == SubSeq(s, n + 1, Len(s))

(* Position n of s is in its first line. *)
InFirstLine(s, n) == n \in 1 .. Len(s) /\ \A i \in 1 .. n - 1 : s[i] # NL

Type ==
  /\ editing' # <<>> /\ editing' = Append(editing, editing'[Len(editing')])
  /\ UNCHANGED <<accepted, received>>

(* The first line, and no less, is accepted. *)
Accept ==
  /\ \E n \in 1 .. Len(editing) :
       /\ InFirstLine(editing, n) /\ editing[n] = NL
       /\ accepted' = accepted \o Front(editing, n)
       /\ editing' = Rest(editing, n)
  /\ UNCHANGED received

(* The command gets a line, or a part of one, but never more than that. *)
Deliver ==
  /\ \E n \in 1 .. Len(accepted) :
       /\ InFirstLine(accepted, n)
       /\ received' = received \o Front(accepted, n)
       /\ accepted' = Rest(accepted, n)
  /\ UNCHANGED editing

Next == Type \/ Accept \/ Deliver

Spec == Init /\ [][Next]_vars
=============================================================================
