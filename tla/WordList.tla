------------------------------ MODULE WordList ------------------------------
(***************************************************************************)
(* What rlwrap promises about completion words: a set of words, in which no *)
(* two are the same as far as completion is concerned, and, when the user   *)
(* asks for completions, the words that begin with what has been typed and   *)
(* the file names that do, in alphabetical order, each of them once, whatever *)
(* happens to the set while the user goes through them. File names are       *)
(* case-sensitive, also with the -i option (src/doc/rlwrap.man.in:85-86).    *)
(***************************************************************************)
EXTENDS Integers, Sequences, FiniteSets, SequencesExt

CONSTANTS
  Lines,               \* lines of words that may be added or removed together
  Files,               \* the file names in the directory, in the directory's order
  Typed,            \* what the user may have typed
  Answers,             \* what a filter may make of the completions: sequences of words
  Precedes(_, _, _),   \* the order of words; the first argument is "case sensitive"
  Begins(_, _, _),     \* the third argument begins with the second
  Nothing              \* no word

VARIABLES
  case_sensitive,
  words,     \* the completion words
  offers,    \* completions that the user has not been offered yet
  offered    \* what has been offered last, or Nothing

vars == <<case_sensitive, words, offers, offered>>

Same(v, w) == ~Precedes(case_sensitive, v, w) /\ ~Precedes(case_sensitive, w, v)

(* A word that is there already stays as it is. *)
With(set, w) == IF \E v \in set : Same(v, w) THEN set ELSE set \cup {w}
Without(set, w) == {v \in set : ~Same(v, w)}
WithAll(set, seq) == FoldLeft(With, set, seq)

(* Names that differ in nothing but case are in the order they have with it. *)
Before(v, w) ==
  Precedes(case_sensitive, v, w) \/ (Same(v, w) /\ Precedes(TRUE, v, w))

Sorted(set) ==
  [i \in 1 .. Cardinality(set) |->
     CHOOSE w \in set : Cardinality({v \in set : Before(v, w)}) = i - 1]

Init ==
  /\ case_sensitive = TRUE /\ words = {}
  /\ offers = <<>> /\ offered = Nothing

(* Case can be ignored from the start only. *)
IgnoreCase ==
  /\ words = {} /\ case_sensitive' = FALSE
  /\ UNCHANGED <<words, offers, offered>>

AddLine(line) ==
  /\ UNCHANGED <<case_sensitive, offers, offered>>
  /\ words' = WithAll(words, line)

RemoveLine(line) ==
  /\ UNCHANGED <<case_sensitive, offers, offered>>
  /\ words' = FoldLeft(Without, words, line)

Offer(list) ==
  /\ UNCHANGED <<case_sensitive, words>>
  /\ offered' = IF list = <<>> THEN Nothing ELSE Head(list)
  /\ offers'  = IF list = <<>> THEN <<>> ELSE Tail(list)

FoundWords(prefix)        == {w \in words : Begins(case_sensitive, prefix, w)}
FoundFiles(prefix, files) == {f \in ToSet(files) : Begins(TRUE, prefix, f)}

(* A file name is another completion than a word that is spelt differently. *)
Ask(prefix, files) == Offer(Sorted(FoundWords(prefix) \cup FoundFiles(prefix, files)))

(* A filter is asked, and puts what it likes in the place of the completions. *)
AskFilter == Offer(<<>>)
FilterAnswers(answer) == Offer(Sorted(WithAll({}, answer)))

OfferNext == Offer(offers)

Next ==
  \/ IgnoreCase \/ AskFilter \/ OfferNext
  \/ \E line \in Lines : AddLine(line) \/ RemoveLine(line)
  \/ \E prefix \in Typed, files \in {<<>>, Files} : Ask(prefix, files)
  \/ \E answer \in Answers : FilterAnswers(SelectSeq(answer, LAMBDA w : w # <<>>))

Spec == Init /\ [][Next]_vars
=============================================================================
