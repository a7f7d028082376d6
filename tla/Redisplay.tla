------------------------------ MODULE Redisplay ------------------------------
(***************************************************************************)
(* my_homegrown_redisplay() (src/src/readline.c), which shows passwords as   *)
(* stars, and every line when rlwrap has been configured with                *)
(* HOMEGROWN_REDISPLAY: it shows prompt and line in one row of the terminal,  *)
(* scrolls them sideways, and prints nothing if it thinks that the row is as  *)
(* it should be already. The prompt is the one of PromptText; the line        *)
(* is edited by readline, which calls rlwrap back after every key.           *)
(***************************************************************************)
EXTENDS PromptText

CONSTANTS
  EditedPrompts,    \* bound: the (raw) prompts after which the user types,
  MaxEdited,        \* ... if the command has not written more often than this,
                    \* which it then does once more, at most
  Letters, MaxLine, \* bound: what the user types, and how much
  term_cursor_hpos  \* the terminal can put the cursor into a given column

VARIABLES
  within_line_edit,
  rl_line_buffer, rl_point,
  hide_passwords,   \* ~redisplay, from mirror_slaves_echo_mode()
  display           \* the row on the terminal, and what the function remembers

displayVars == <<within_line_edit, rl_line_buffer, rl_point, hide_passwords, display>>

vars == <<textVars, displayVars>>

(* A wide character is two bytes, the second of which takes no column. *)
Wide == {"é"}

(* A terminal of one column is too narrow for my_homegrown_redisplay().        *)
ASSUME RedisplayAssumption ==
  /\ {"<", ">", "*", "+"} \subseteq Char /\ NULL \notin Text
  /\ Widths \subseteq Nat \ {0, 1}
  /\ Letters \subseteq Char \ (Wide \cup {"+"})

Smaller(i, j) == IF i < j THEN i ELSE j

-----------------------------------------------------------------------------
(* colourless_strlen()'s copy_without_ignore_markers, in bytes. *)
Bytes(cells) ==
  LET copy[n \in 0..Len(cells)] ==
        IF n = 0 THEN <<>>
        ELSE copy[n - 1] \o (IF cells[n] \in Wide THEN <<cells[n], "+">> ELSE <<cells[n]>>)
  IN  copy[Len(cells)]

Columns(bytes) == Cardinality({i \in 1..Len(bytes) : bytes[i] # "+"})

prompt_without_ignore_markers ==
  Bytes(Cells(mark_invisible(IF cooked_prompt = NULL THEN <<>> ELSE cooked_prompt)))

PromptPlusLine(prompt, line, hide) ==
  prompt \o (IF hide THEN [i \in 1..Len(line) |-> "*"] ELSE line)

\* Mutant: the cursor may fall off the left edge.
VirtualStartToRight(d, width, promptlen, invisible, curpos, total) ==
  LET before == IF d.line_start > promptlen THEN d.line_start ELSE invisible
  IN  IF curpos - before > width - d.line_extends_right THEN curpos - width + 2 ELSE before

(* Where the displayed part of the line begins: it jumps when the cursor would *)
(* fall off either edge, and never begins within the prompt.                 *)
VirtualStart(d, width, promptlen, invisible, curpos, total) ==
  LET skip == Larger(1, Smaller(width \div 5, 10))
      before == IF d.line_start > promptlen THEN d.line_start ELSE invisible
  IN  IF curpos - before > width - d.line_extends_right
      THEN curpos - width + d.line_extends_right + skip
      ELSE IF curpos >= before + d.line_extends_left THEN before
      ELSE IF curpos = total THEN Larger(0, total - width)
      ELSE curpos - d.line_extends_left - skip

(* The row, and the columns written to it, after clear_line(), cr() and        *)
(* writing new_line; or as it was.                                          *)
Printed(d, new_line) ==
  IF term_cursor_hpos /\ d.previous_line = new_line THEN d
  ELSE [d EXCEPT !.row = new_line, !.foreign = FALSE,
                 !.cursor = Columns(new_line),
                 !.previous_line = IF term_cursor_hpos THEN new_line ELSE @]

my_homegrown_redisplay(old, prompt, line, point, hide) ==
  LET width == ws_col
      d == IF point = 0 THEN [old EXCEPT !.line_start = 0] ELSE old
      promptlen == Len(prompt)
      invisible == promptlen - Columns(prompt)
      whole == PromptPlusLine(prompt, line, hide)
      total == Len(whole)
      curpos == promptlen + point
      v == VirtualStart(d, width, promptlen, invisible, curpos, total)
      vlinestart == IF v <= invisible THEN invisible ELSE Larger(v, promptlen)
      line_start == IF v <= invisible THEN 0 ELSE vlinestart
      printwidth == IF line_start > 0 THEN width ELSE width + invisible
      printed_length == Smaller(printwidth, total - line_start)
      extends_left == IF line_start > 0 THEN 1 ELSE 0
      extends_right == IF total - vlinestart > width THEN 1 ELSE 0
      new_line == [i \in 1..printed_length |->
                     IF extends_right = 1 /\ i = printwidth THEN ">"
                     ELSE IF extends_left = 1 /\ i = 1 THEN "<"
                     ELSE whole[line_start + i]]
      p == Printed(d, new_line)
      new_curpos == curpos - vlinestart
  IN  [p EXCEPT
        !.line_start = line_start,
        !.line_extends_left = extends_left, !.line_extends_right = extends_right,
        !.cursor = IF term_cursor_hpos THEN new_curpos
                   ELSE Larger(0, @ - Larger(0, printed_length - vlinestart - new_curpos)),
        !.asserted = /\ @ /\ (d.line_start = 0 \/ d.line_start >= promptlen)
                     /\ 0 <= line_start /\ line_start <= curpos
                     /\ curpos <= line_start + printed_length
                     /\ line_start + printed_length <= total]

(* my_redisplay(), in a build with HOMEGROWN_REDISPLAY. *)
my_redisplay(d, line, point) ==
  my_homegrown_redisplay(d, prompt_without_ignore_markers, line, point, hide_passwords)

-----------------------------------------------------------------------------
Edited == within_line_edit /\ raw_prompt \in EditedPrompts /\ written <= MaxEdited

(* After a key readline calls rl_redisplay_function. *)
Key(line, point) ==
  /\ Edited
  /\ rl_line_buffer' = line /\ rl_point' = point
  /\ display' = my_redisplay(display, line, point)
  /\ UNCHANGED <<textVars, within_line_edit, hide_passwords>>

self_insert(c) ==
  /\ Len(rl_line_buffer) < MaxLine
  /\ Key(InsertAt(rl_line_buffer, rl_point + 1, c), rl_point + 1)

rubout ==
  /\ rl_point > 0
  /\ Key(RemoveAt(rl_line_buffer, rl_point), rl_point - 1)

backward_char == rl_point > 0 /\ Key(rl_line_buffer, rl_point - 1)
forward_char == rl_point < Len(rl_line_buffer) /\ Key(rl_line_buffer, rl_point + 1)
beginning_of_line == Key(rl_line_buffer, 0)
end_of_line == Key(rl_line_buffer, Len(rl_line_buffer))
unix_line_discard == Key(From(rl_line_buffer, rl_point + 1), 0)

(* restore_rl_state(): installing the handler shows the empty line, then       *)
(* readline itself (rl_redisplay(), not rl_redisplay_function) shows what      *)
(* had been typed before.                                                   *)
Restored(d, prompt, input, point, hide) ==
  LET cleared == [d EXCEPT !.row = <<>>, !.cursor = 0]
      empty == my_homegrown_redisplay(cleared, prompt, <<>>, 0, hide)
  IN  [empty EXCEPT !.row = prompt, !.cursor = Columns(prompt),
                       !.foreign = input # <<>> \/ Columns(prompt) >= ws_col]

restore_rl_state(d, input, point) ==
  /\ \E prompt \in {Bytes(Cells(mark_invisible(cooked_prompt')))} :
       display' = Restored(d, prompt, input, point, hide_passwords')
  /\ rl_line_buffer' = input /\ rl_point' = point

StartEdit ==
  /\ ~within_line_edit /\ ~screen_is_alternate
  /\ cooked_prompt' = Cooked(raw_prompt)
  /\ within_line_edit' = TRUE /\ hide_passwords' \in BOOLEAN
  /\ restore_rl_state(display, <<>>, 0)
  /\ UNCHANGED <<mode, ws_col, written, alternate, pty, still_unchecked, screen_is_alternate, raw_prompt>>

(* Output of the command while the user is editing: save_rl_state() clears and *)
(* redisplays the line before it takes readline's handler away.              *)
ReadWithinEdit(n) ==
  LET saved == my_redisplay(display, <<>>, 0) IN
  /\ Edited
  /\ ReadBlockOf(n)
  /\ IF screen_is_alternate' THEN UNCHANGED <<cooked_prompt, displayVars>>
     ELSE /\ cooked_prompt' = Cooked(raw_prompt')
          /\ hide_passwords' \in BOOLEAN
          /\ restore_rl_state(saved, rl_line_buffer, rl_point)
          /\ UNCHANGED within_line_edit

(* my_accept_line(), and what line_handler() leaves on the row. *)
AcceptLine ==
  LET accepted == my_redisplay(display, rl_line_buffer, 0) IN
  /\ Edited
  /\ display' = my_redisplay(accepted, <<>>, 0)
  /\ rl_line_buffer' = <<>> /\ rl_point' = 0
  /\ within_line_edit' = FALSE /\ hide_passwords' = FALSE
  /\ raw_prompt' = <<>> /\ cooked_prompt' = NULL
  /\ UNCHANGED <<mode, ws_col, written, alternate, pty, still_unchecked, screen_is_alternate>>

(* adapt_tty_winsize() wipes the row and has readline show it again. *)
Resize(width) ==
  /\ Edited
  /\ width # ws_col /\ ws_col' = width
  /\ display' = [display EXCEPT !.foreign = TRUE]
  /\ UNCHANGED <<mode, written, alternate, pty, still_unchecked, screen_is_alternate, raw_prompt,
                 cooked_prompt, within_line_edit, rl_line_buffer, rl_point, hide_passwords>>

EmptyRow ==
  [line_start |-> 0, line_extends_left |-> 0, line_extends_right |-> 0, previous_line |-> NULL,
   row |-> <<>>, cursor |-> 0, foreign |-> FALSE, asserted |-> TRUE]

Init ==
  /\ TextInit
  /\ within_line_edit = FALSE /\ hide_passwords = FALSE
  /\ rl_line_buffer = <<>> /\ rl_point = 0
  /\ display = EmptyRow

EditKey ==
  \/ \E c \in Letters : self_insert(c)
  \/ rubout \/ backward_char \/ forward_char
  \/ beginning_of_line \/ end_of_line \/ unix_line_discard

Next ==
  \/ \E piece \in Pieces : /\ Writes(piece) /\ UNCHANGED displayVars
                           /\ within_line_edit => written <= MaxEdited
  \/ \E n \in 1..Len(pty) : ~within_line_edit /\ ReadBlock(n) /\ UNCHANGED displayVars
  \/ \E n \in 1..Len(pty) : ReadWithinEdit(n)
  \/ StartEdit \/ EditKey \/ AcceptLine
  \/ \E width \in Widths : Resize(width)

Spec == Init /\ [][Next]_vars

-----------------------------------------------------------------------------
(* What the comment in my_homegrown_redisplay() promises after it: each      *)
(* character on the row is the one of prompt and line that belongs there, but *)
(* for a '<' or '>' where there is more; the row is full, or shows the end;   *)
(* the cursor is on the row, at rl_point; and no assertion has failed.        *)
LineIsShown ==
  within_line_edit /\ ~display.foreign =>
    LET prompt == prompt_without_ignore_markers
        whole == PromptPlusLine(prompt, rl_line_buffer, hide_passwords)
        s == display.line_start
        row == display.row
    IN  /\ \A k \in 1..Len(row) :
             \/ row[k] = whole[s + k]
             \/ k = 1 /\ row[k] = "<" /\ s > 0
             \/ k = Len(row) /\ row[k] = ">" /\ s + k < Len(whole)
        /\ s + Len(row) = Len(whole) \/ Columns(row) = ws_col
        /\ display.cursor = Columns(SubSeq(whole, s + 1, Len(prompt) + rl_point))
        /\ display.cursor \in 0..ws_col
        /\ display.asserted
=============================================================================
