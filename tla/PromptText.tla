----------------------------- MODULE PromptText -----------------------------
(***************************************************************************)
(* The text of the prompt, character by character (src/src/string_utils.c,  *)
(* and process_new_output(), cook_prompt_if_necessary() and the functions    *)
(* around them in readline.c): how the command's output, which is read in    *)
(* blocks that may end anywhere, becomes a prompt; how rlwrap keeps track of *)
(* the alternate screen; and how it works out, from that text alone, where   *)
(* on the terminal the prompt begins. MainLoop has the same functions with    *)
(* the text abstracted away.                                                 *)
(*                                                                         *)
(* A character is a string; "BS", "CR", "NL", "NUL" and "ESC" are the ones   *)
(* with an effect, "START" and "END" readline's RL_PROMPT_*_IGNORE.          *)
(***************************************************************************)
EXTENDS Integers, Sequences, SequencesExt

CONSTANTS
  NULL,
  Char,            \* the characters
  Pieces,          \* what the command writes at a time
  MaxPieces,       \* bound: how often it writes
  smcup, rmcup,    \* its codes for entering and leaving the alternate screen
  Widths,          \* of the terminal
  Modes            \* options: subset of {"plain", "aware", "bleach", "coloured"} (-A, -A!, -p)

VARIABLES
  mode,
  ws_col,                \* of winsize
  written,               \* how often the command has written (bound)
  alternate,             \* which screen it is on
  pty,                   \* what it has written and rlwrap has not read
  still_unchecked,       \* the last bytes of output that were searched for codes
  screen_is_alternate,
  raw_prompt, cooked_prompt

textVars == <<mode, ws_col, written, alternate, pty, still_unchecked, screen_is_alternate,
              raw_prompt, cooked_prompt>>

Larger(i, j) == IF i > j THEN i ELSE j

From(s, i) == SubSeq(s, i, Len(s))

(* strstr(): where code first occurs in s, 0 if it does not. *)
strstr(s, code) ==
  LET at == {i \in 1..Len(s) - Len(code) + 1 : SubSeq(s, i, i + Len(code) - 1) = code}
  IN  IF at = {} THEN 0 ELSE CHOOSE i \in at : \A j \in at : i <= j

-----------------------------------------------------------------------------
remove_padding(s) ==
  LET copied[n \in 0..Len(s)] ==
        IF n = 0 THEN <<>>
        ELSE IF s[n] = "NUL" THEN copied[n - 1] ELSE Append(copied[n - 1], s[n])
  IN  copied[Len(s)]

(* From its k-th character on, text agrees with code, as far as both go. *)
AgreesFrom(text, k, code) ==
  \A n \in 1..Len(code) : k + n - 1 <= Len(text) => text[k + n - 1] = code[n]

Text == Seq(Char)

(* The terminal's codes can be told from each other and from other output:   *)
(* what a program writes at a time, if not a code, neither has a code in it   *)
(* nor ends with the first part of one. (Padding is not part of a code.)      *)
ASSUME CodesAssumption ==
  /\ Pieces \subseteq Text /\ smcup # rmcup
  /\ \A code \in {smcup, rmcup} :
       /\ code \in Text \ {<<>>} /\ remove_padding(code) = code
       /\ \A piece \in Pieces \cup {smcup, rmcup} :
            \A k \in 1..Len(remove_padding(piece)) :
              AgreesFrom(remove_padding(piece), k, code) => k = 1 /\ piece = code

WithoutLast(s) == IF s = <<>> THEN <<>> ELSE Front(s)

\* Mutant: codes are not skipped.
UnwrittenInCode(copy) == WithoutLast(copy)

(* Where the code begins that ends at p, both counted from 0. *)
CodeStart(copy, p) ==
  CHOOSE q \in 0..p : /\ q = 0 \/ copy[q + 1] = "START"
                      /\ \A r \in q + 1..p : copy[r + 1] # "START"

(* What is left of the copy when a backspace takes away its last character,  *)
(* and the invisible codes before that.                                     *)
Unwritten(copy) ==
  LET SkipCode[p \in 0..Len(copy) - 1] ==
        IF p = 0 \/ copy[p + 1] # "END" THEN p
        ELSE IF CodeStart(copy, p) = 0 THEN 0 ELSE SkipCode[CodeStart(copy, p) - 1]
  IN  IF copy = <<>> THEN <<>> ELSE SubSeq(copy, 1, SkipCode[Len(copy) - 1])

unbackspace(s) ==
  LET copy[n \in 0..Len(s)] ==
        IF n = 0 \/ s[n] = "CR" THEN <<>>
        ELSE IF s[n] = "BS" THEN Unwritten(copy[n - 1]) ELSE Append(copy[n - 1], s[n])
  IN  copy[Len(s)]

-----------------------------------------------------------------------------
Digits == {";", "1"}

(* The first place from i on that holds none of chars. *)
PastAll(s, i, chars) ==
  CHOOSE j \in i..Len(s) + 1 : /\ \A k \in i..j - 1 : s[k] \in chars
                               /\ j > Len(s) \/ s[j] \notin chars

IsSequenceAt(s, i, brackets) == i < Len(s) /\ s[i] = "ESC" /\ s[i + 1] \in brackets

(* A copy of s in which the length[i] characters from i on, if any, have been *)
(* replaced by by[i].                                                        *)
Replaced(s, length, by) ==
  LET copy[n \in 0..Len(s)] ==
        IF n = 0 THEN [text |-> <<>>, upto |-> 0]
        ELSE LET before == copy[n - 1]
             IN  IF n <= before.upto THEN before
                 ELSE IF length[n] = 0 THEN [text |-> Append(before.text, s[n]), upto |-> n]
                 ELSE [text |-> before.text \o by[n], upto |-> n + length[n] - 1]
  IN  copy[Len(s)].text

SetOff(code) == <<"START">> \o code \o <<"END">>

InvisibleAt(s, i) ==
  IF IsSequenceAt(s, i, {"[", "]"}) THEN PastAll(s, PastAll(s, i + 2, Digits), {"m"}) - i ELSE 0

(* mark_invisible(): sets off what looks like a colour code between START    *)
(* and END, unless that has been done by protect_or_cleanup().               *)
mark_invisible(s) ==
  LET length == [i \in 1..Len(s) |-> InvisibleAt(s, i)]
  IN  IF Contains(s, "START") THEN s
      ELSE Replaced(s, length, [i \in 1..Len(s) |-> SetOff(SubSeq(s, i, i + length[i] - 1))])

(* The cells with c, a visible character, written into the next one; or what  *)
(* is left of them when c goes back.                                         *)
Filled(cells, c) ==
  IF c = "CR" THEN <<>> ELSE IF c = "BS" THEN WithoutLast(cells) ELSE Append(cells, c)

(* The cells that colourless_strlen() fills, one for each visible character. *)
Cells(s) ==
  LET copied[n \in 0..Len(s)] ==
        IF n = 0 THEN [visible |-> TRUE, cells |-> <<>>]
        ELSE LET before == copied[n - 1]
             IN  IF s[n] \in {"START", "END"} THEN [before EXCEPT !.visible = s[n] = "END"]
                 ELSE IF ~before.visible THEN before
                 ELSE [before EXCEPT !.cells = Filled(@, s[n])]
  IN  copied[Len(s)].cells

\* Mutant: the length of the string as it is.
strlen(s) == Len(s)

colourless_strlen(s) == Len(Cells(s))

colourless_strlen_unmarked(s) == colourless_strlen(mark_invisible(s))

-----------------------------------------------------------------------------
(* The regular expressions of protect_or_cleanup(): the length of the match  *)
(* at i, 0 if there is none.                                                *)
ColourCodeAt(s, i) ==
  IF ~IsSequenceAt(s, i, {"["}) THEN 0
  ELSE LET j == PastAll(s, i + 2, Digits)
       IN  IF j <= Len(s) /\ s[j] = "m" THEN j - i + 1 ELSE 0

ProtectedAt(s, i, keep_colours) ==
  IF i < Len(s) /\ s[i] = "ESC" /\ s[i + 1] = "ESC" THEN 2
  ELSE IF keep_colours THEN ColourCodeAt(s, i) ELSE 0

Unprintable == {"BS", "CR", "NL", "NUL", "ESC", "START", "END"}

ASSUME CharAssumption == Unprintable \cup Digits \cup {"[", "]", "m"} \subseteq Char

UnwantedAt(s, i) ==
  LET past == IF IsSequenceAt(s, i, {"["}) THEN PastAll(s, i + 2, Digits) ELSE i + 1
  IN  IF s[i] # "ESC" \/ past > Len(s) \/ s[past] \in Unprintable THEN 0 ELSE past - i + 1

(* What stands between START and END, from i on, and its length.              *)
IgnoredAt(s, i) ==
  LET ends == {j \in i + 1..Len(s) : s[j] = "END" /\ \A k \in i + 1..j - 1 : s[k] # "END"}
  IN  IF s[i] = "START" /\ ends # {} THEN (CHOOSE j \in ends : TRUE) - i + 1 ELSE 0

(* Every match is replaced, except between START and END.                     *)
replace_special(s, length, by) ==
  LET ignored == [i \in 1..Len(s) |-> IgnoredAt(s, i)]
  IN  Replaced(s, [i \in 1..Len(s) |-> IF ignored[i] > 0 THEN ignored[i] ELSE length[i]],
                  [i \in 1..Len(s) |-> IF ignored[i] > 0 THEN SubSeq(s, i, i + ignored[i] - 1)
                                       ELSE by[i]])

protect_or_cleanup(s) ==
  LET protected == [i \in 1..Len(s) |-> ProtectedAt(s, i, mode # "bleach")]
      result1 == replace_special(s, protected,
                   [i \in 1..Len(s) |-> SetOff(SubSeq(s, i, i + protected[i] - 1))])
  IN  replace_special(result1, [i \in 1..Len(result1) |-> UnwantedAt(result1, i)],
                               [i \in 1..Len(result1) |-> <<>>])

-----------------------------------------------------------------------------
(* check_cupcodes(): of the first smcup and the first rmcup that are left,   *)
(* the later one decides, until there are none.                             *)
SearchCodes(s, before) ==
  LET Found[i \in 1..Len(s) + 1] ==
        LET rm == strstr(From(s, i), rmcup)
            sm == strstr(From(s, i), smcup)
        IN  [screen \in BOOLEAN |->
               IF rm = sm THEN screen
               ELSE IF rm > sm THEN Found[i + rm - 1 + Len(rmcup)][FALSE]
               ELSE Found[i + sm - 1 + Len(smcup)][TRUE]]
  IN  Found[1][before]

\* Mutant: nothing is kept.
NoTail(s) == <<>>

(* The end of the output, which might be the beginning of a code. *)
LastBytes(s) == From(s, Larger(0, Len(s) - Larger(Len(smcup), Len(rmcup))) + 1)

check_cupcodes(buf) ==
  /\ screen_is_alternate' = SearchCodes(still_unchecked \o buf, screen_is_alternate)
  /\ still_unchecked' = LastBytes(still_unchecked \o buf)

-----------------------------------------------------------------------------
AfterLastNL(s) ==
  LET ends == {i \in 1..Len(s) : s[i] = "NL"}
  IN  IF ends = {} THEN s ELSE From(s, (CHOOSE i \in ends : \A j \in ends : j <= i) + 1)

process_new_output(buf) == AfterLastNL(raw_prompt \o buf)

(* What is left of the raw prompt after the code that leaves the alternate   *)
(* screen (the first one in it, not the last).                              *)
NonRubbish(s) == IF strstr(s, rmcup) = 0 THEN s ELSE From(s, strstr(s, rmcup) + Len(rmcup))

colour_start == <<"ESC", "[", "1", ";", "1", "m">>
colour_end == <<"ESC", "[", "1", "m">>

colourise(prompt) ==
  IF Contains(prompt, "ESC") \/ Contains(prompt, "START") THEN prompt
  ELSE colour_start \o prompt \o colour_end

slightly_cooked(prompt) ==
  unbackspace(IF mode \in {"aware", "bleach"} THEN protect_or_cleanup(NonRubbish(prompt))
              ELSE NonRubbish(prompt))

Cooked(prompt) ==
  IF mode = "coloured" THEN colourise(slightly_cooked(prompt)) ELSE slightly_cooked(prompt)

(* How many rows move_cursor_to_start_of_prompt() goes up (its integer        *)
(* division rounds towards zero), with cursor 1 past the prompt or not.      *)
RowsUp(prompt, curpos) ==
  LET len == colourless_strlen_unmarked(prompt)
  IN  IF len + curpos = 0 THEN 0 ELSE (len + curpos - 1) \div ws_col

-----------------------------------------------------------------------------
(* The command. *)
Writes(piece) ==
  /\ written < MaxPieces
  /\ written' = written + 1
  /\ pty' = pty \o piece
  /\ alternate' = (CASE piece = smcup -> TRUE [] piece = rmcup -> FALSE [] OTHER -> alternate)
  /\ UNCHANGED <<mode, ws_col, still_unchecked, screen_is_alternate, raw_prompt, cooked_prompt>>

(* main_loop() reads what there is, or the part of it that fits; in direct     *)
(* mode (skip_rlwrap(), with -N) the prompt is left alone.                   *)
ReadBlockOf(n) ==
  LET buf == remove_padding(SubSeq(pty, 1, n)) IN
  /\ pty' = From(pty, n + 1)
  /\ check_cupcodes(buf)
  /\ raw_prompt' = IF screen_is_alternate' THEN raw_prompt ELSE process_new_output(buf)
  /\ UNCHANGED <<mode, ws_col, written, alternate>>

ReadBlock(n) ==
  /\ ReadBlockOf(n)
  /\ cooked_prompt' = IF screen_is_alternate' THEN cooked_prompt ELSE NULL

TextInit ==
  /\ mode \in Modes /\ ws_col \in Widths
  /\ written = 0 /\ alternate = FALSE /\ pty = <<>>
  /\ still_unchecked = <<>> /\ screen_is_alternate = FALSE
  /\ raw_prompt = <<>> /\ cooked_prompt = NULL

-----------------------------------------------------------------------------
(* A terminal, as far as the properties need one: where the cursor is after  *)
(* text has been written from the beginning of a row, and whether the text    *)
(* is one for which rlwrap's reckoning can be right: its only codes are      *)
(* complete colour codes, and backspaces and carriage returns stay within    *)
(* the first row (a terminal does not go back to the row before).            *)
IsColour(s, i, j) ==
  /\ i + 1 < j /\ s[i] = "ESC" /\ s[i + 1] = "[" /\ s[j] = "m"
  /\ \A k \in i + 2..j - 1 : s[k] \in Digits

OnlyColours(s) ==
  \A i \in 1..Len(s) : s[i] = "ESC" => \E j \in i..Len(s) : IsColour(s, i, j)

InColour(s) ==
  {k \in 1..Len(s) : \E i \in 1..k : s[i] = "ESC" /\ \E j \in k..Len(s) : IsColour(s, i, j)}

AfterWriting(s) ==
  LET unseen == InColour(s) \cup {k \in 1..Len(s) : s[k] \in {"START", "END"}}
      t[n \in 0..Len(s)] ==
        IF n = 0 THEN [row |-> 0, col |-> 0, one_row |-> TRUE]
        ELSE LET before == t[n - 1]
             IN  IF n \in unseen THEN before
                 ELSE IF s[n] = "CR"
                   THEN [before EXCEPT !.col = 0, !.one_row = @ /\ before.row = 0]
                 ELSE IF s[n] = "BS"
                   THEN [before EXCEPT !.col = Larger(0, @ - 1),
                                       !.one_row = @ /\ before.row = 0 /\ before.col < ws_col]
                 ELSE IF before.col = ws_col
                   THEN [before EXCEPT !.row = @ + 1, !.col = 1]
                 ELSE [before EXCEPT !.col = @ + 1]
  IN  t[Len(s)]

ShownPrompt == IF cooked_prompt = NULL THEN raw_prompt ELSE cooked_prompt

(* When all output has been read, rlwrap knows which screen the command is   *)
(* on, in whatever blocks the codes arrived (check_cupcodes()).              *)
AlternateScreenKnown == pty = <<>> => screen_is_alternate = alternate

(* move_cursor_to_start_of_prompt() goes to the row in which the terminal has *)
(* the beginning of the prompt, raw or cooked, with and without a letter that *)
(* the user has typed after it.                                             *)
PromptStartFound ==
  LET after == AfterWriting(ShownPrompt) IN
  OnlyColours(ShownPrompt) /\ after.one_row =>
    /\ RowsUp(ShownPrompt, 0) = after.row
    /\ RowsUp(ShownPrompt, 1) = AfterWriting(Append(ShownPrompt, "a")).row

(* Cooking keeps the text of a prompt: protecting, cleaning, unbackspacing    *)
(* and colouring leave just the characters that colourless_strlen() finds in  *)
(* the raw prompt, which has its own idea of backspaces. (Without -A rlwrap   *)
(* is not meant to understand colours in a prompt.)                         *)
TextKept ==
  cooked_prompt # NULL /\ OnlyColours(raw_prompt)
    /\ (mode \in {"aware", "bleach"} \/ ~Contains(raw_prompt, "ESC")) =>
      Cells(mark_invisible(cooked_prompt)) = Cells(mark_invisible(raw_prompt))
=============================================================================
