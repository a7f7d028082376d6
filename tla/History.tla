------------------------------ MODULE History --------------------------------
(***************************************************************************)
(* The input history (src/src/readline.c: line_handler(), my_add_history(),  *)
(* my_operate_and_get_next(), handle_hotkey2(); main.c: the history file).   *)
(* The list itself is readline's, which keeps the last histsize entries      *)
(* under two numberings: physical offsets from 0, and logical ones from      *)
(* history_base, which grows with every entry that is dropped at the front.  *)
(*                                                                         *)
(* A line is a sequence of rows (more than one when pasted), an entry of the *)
(* history is one row.                                                      *)
(***************************************************************************)
EXTENDS Integers, Sequences, SequencesExt

CONSTANTS
  NULL,
  Rows,              \* what the user types, and finds in the history
  Lines,             \* bound: the lines made of them, <<>> among them
  Histories,         \* bound: what the history file may contain at first
  Sizes,             \* histsize (-s)
  MaxBase,           \* bound on history_base
  ForgetRegexp,      \* the lines that match it (-g)
  filters_history(_) \* what the filter makes of a row (TAG_HISTORY): it empties none

EMPTY == ""

ASSUME RowsAssumption ==
  /\ EMPTY \notin Rows /\ NULL \notin Rows /\ NULL \notin Int
  /\ Lines \subseteq Seq(Rows) /\ Histories \subseteq Seq(Rows)
  /\ \A row \in Rows : filters_history(row) \in Rows
  /\ Sizes \subseteq Nat

KEEP_ALL_DOUBLES == 0
ELIMINATE_SUCCESIVE_DOUBLES == 1
ELIMINATE_ALL_DOUBLES == 2

VARIABLES
  history_duplicate_avoidance_policy, histsize, write_histfile,  \* options
  history,          \* readline's list: its entries, and history_base
  where,            \* history_offset: the entry on the input line, or past the end
  rl_line_buffer,
  within_line_edit, \* readline's handler is installed
  saved_offset,     \* what operate-and-get-next leaves for the startup hook
  histfile,
  recent,           \* what the history should be
  expected          \* the row that should be fetched next

options == <<history_duplicate_avoidance_policy, histsize, write_histfile>>
vars == <<options, history, where, rl_line_buffer, within_line_edit, saved_offset, histfile,
          recent, expected>>

-----------------------------------------------------------------------------
(* readline's history library. *)
LastRows(n, rows) == SubSeq(rows, IF Len(rows) > n THEN Len(rows) - n + 1 ELSE 1, Len(rows))

history_length(h) == Len(h.list)

EmptyHistory == [list |-> <<>>, base |-> 1]

add_history(h, row) ==
  IF Len(h.list) < histsize THEN [h EXCEPT !.list = Append(@, row)]
  ELSE IF histsize = 0 THEN h
  ELSE [list |-> Append(Tail(h.list), row), base |-> h.base + 1]

(* By logical offset ... *)
PhysicalOffset(h, i) == IF i \in 0..Len(h.list) - 1 THEN h.list[i + 1] ELSE NULL
history_get(h, i) == PhysicalOffset(h, i - h.base)

(* ... and by physical offset. *)
remove_history(h, i) == [h EXCEPT !.list = RemoveAt(@, i + 1)]

(* Rows, one after the other, to an empty history. *)
HistoryOf(rows) ==
  LET read[n \in 0..Len(rows)] ==
        IF n = 0 THEN EmptyHistory ELSE add_history(read[n - 1], rows[n])
  IN  read[Len(rows)]

(* Without those that are equal to row. *)
Without(rows, row) ==
  LET rest[i \in 1..Len(rows) + 1] ==
        IF i > Len(rows) THEN <<>>
        ELSE IF rows[i] = row THEN rest[i + 1] ELSE <<rows[i]>> \o rest[i + 1]
  IN  rest[1]

read_history(rows) == HistoryOf(Without(rows, EMPTY))

-----------------------------------------------------------------------------
\* Mutant: the entry is looked up by its physical offset.
RemoveIfEqualHere(h, row, here) ==
  IF history_get(h, here) = row THEN remove_history(h, here) ELSE h

RemoveIfEqual(h, row, here) ==
  IF history_get(h, h.base + here) = row THEN remove_history(h, here) ELSE h

(* The rows of one accepted line, in turn: equal entries within lookback are *)
(* removed, from the end to the beginning.                                  *)
AddRow(h, row) ==
  LET length == history_length(h)
      lookback == CASE history_duplicate_avoidance_policy = KEEP_ALL_DOUBLES -> 0
                    [] history_duplicate_avoidance_policy = ELIMINATE_SUCCESIVE_DOUBLES ->
                         IF length > 0 THEN 1 ELSE 0
                    [] OTHER -> length
      compared[count \in 0..lookback] ==
        IF count = 0 THEN h ELSE RemoveIfEqual(compared[count - 1], row, length - count)
  IN  add_history(compared[lookback], row)

my_add_history(h, line) ==
  LET added[n \in 0..Len(line)] ==
        IF n = 0 THEN h ELSE AddRow(added[n - 1], filters_history(line[n]))
  IN  added[Len(line)]

\* Mutant: also when positions may change under operate-and-get-next.
AlwaysExtended(invoked_by_operate_and_get_next) == TRUE

history_can_safely_be_extended(invoked_by_operate_and_get_next) ==
  \/ ~invoked_by_operate_and_get_next
  \/ history_duplicate_avoidance_policy # ELIMINATE_ALL_DOUBLES

(* Which lines line_handler() remembers; redisplay is off for a password. *)
IsRemembered(line, redisplay, forget_line, invoked_by_operate_and_get_next) ==
  /\ line # <<>> /\ redisplay /\ ~forget_line /\ line \notin ForgetRegexp
  /\ history_can_safely_be_extended(invoked_by_operate_and_get_next)

(* The same history as it is meant: the last histsize rows, without the       *)
(* doubles that -D does not want.                                           *)
Remember(rows, row) ==
  LET rest == CASE history_duplicate_avoidance_policy = KEEP_ALL_DOUBLES -> rows
                [] history_duplicate_avoidance_policy = ELIMINATE_SUCCESIVE_DOUBLES ->
                     IF rows # <<>> /\ Last(rows) = row THEN Front(rows) ELSE rows
                [] OTHER -> Without(rows, row)
  IN  LastRows(histsize, Append(rest, row))

RememberAll(rows, line) ==
  LET remembered[n \in 0..Len(line)] ==
        IF n = 0 THEN rows ELSE Remember(remembered[n - 1], filters_history(line[n]))
  IN  remembered[Len(line)]

line_handler(h, rows, line, remembered) ==
  /\ history' = IF remembered THEN my_add_history(h, line) ELSE h
  /\ recent' = IF remembered THEN RememberAll(rows, line) ELSE rows
  /\ history'.base <= MaxBase
  /\ rl_line_buffer' = <<>> /\ within_line_edit' = FALSE
  /\ UNCHANGED <<options, where, histfile>>

-----------------------------------------------------------------------------
(* Keys. *)
LineOf(row) == IF row = EMPTY THEN <<>> ELSE <<row>>

my_accept_line(redisplay, forget_line) ==
  /\ within_line_edit
  /\ line_handler(history, recent, rl_line_buffer,
                  IsRemembered(rl_line_buffer, redisplay, forget_line, FALSE))
  /\ UNCHANGED <<saved_offset, expected>>

(* rl_operate_and_get_next() notes where the next entry is, line_handler()    *)
(* then works on the history.                                               *)
my_operate_and_get_next ==
  /\ within_line_edit
  /\ saved_offset' = where + history.base + 1
  /\ expected' = IF where < history_length(history) - 1 /\ Len(rl_line_buffer) <= 1
                 THEN PhysicalOffset(history, where + 1) ELSE NULL
  /\ line_handler(history, recent, rl_line_buffer,
                  IsRemembered(rl_line_buffer, TRUE, FALSE, TRUE))

(* Typing, or pasting, a line over the present one. *)
Types(line) ==
  /\ within_line_edit /\ rl_line_buffer' = line
  /\ UNCHANGED <<options, history, where, within_line_edit, saved_offset, histfile, recent, expected>>

(* From a line that has not been edited (readline keeps edits of an entry). *)
MoveTo(i) ==
  /\ within_line_edit /\ i \in 0..history_length(history)
  /\ where < history_length(history) => rl_line_buffer = LineOf(PhysicalOffset(history, where))
  /\ where' = i
  /\ rl_line_buffer' = IF i = history_length(history) THEN <<>> ELSE LineOf(PhysicalOffset(history, i))
  /\ UNCHANGED <<options, history, within_line_edit, saved_offset, histfile, recent, expected>>

previous_history == MoveTo(where - 1)
next_history == MoveTo(where + 1)

(* handle_hotkey2(): the filter may delete the entries with one row and move *)
(* the position, and it may have the new line accepted at once. The list is  *)
(* read anew if the filter has changed either. It leaves at least one entry  *)
(* (see the README for what happens if it leaves none).                      *)
Hotkey(row, new_histpos, new_line, rl_done) ==
  LET new_history == Without(history.list, row)
      rewritten == new_history # history.list \/ new_histpos # where
      h == IF rewritten THEN HistoryOf(new_history) ELSE history
  IN  /\ within_line_edit /\ new_history # <<>>
      /\ new_histpos \in 0..Len(new_history)
      /\ IF rl_done
         THEN line_handler(h, new_history, new_line, IsRemembered(new_line, TRUE, FALSE, FALSE))
         ELSE /\ history' = h /\ recent' = new_history
              /\ where' = new_histpos /\ rl_line_buffer' = new_line
              /\ UNCHANGED <<options, within_line_edit, histfile>>
      /\ UNCHANGED <<saved_offset, expected>>

-----------------------------------------------------------------------------
(* rl_callback_handler_install(): using_history(), and the startup hook. *)
StartEdit ==
  LET length == history_length(history)
      count == length - (saved_offset - history.base)
      at == IF saved_offset = NULL \/ count <= 0 THEN length
            ELSE IF count > length THEN 0 ELSE length - count
  IN  /\ ~within_line_edit
      /\ within_line_edit' = TRUE
      /\ where' = at /\ saved_offset' = NULL
      /\ rl_line_buffer' = IF at = length THEN <<>> ELSE LineOf(PhysicalOffset(history, at))
      /\ expected' = IF expected # NULL /\ rl_line_buffer' = LineOf(expected) THEN NULL ELSE expected
      /\ UNCHANGED <<options, history, histfile, recent>>

(* Output of the command during an edit: the handler is removed and installed *)
(* again, which moves the position to the end; the line stays.               *)
Output ==
  /\ within_line_edit /\ where' = history_length(history)
  /\ UNCHANGED <<options, history, rl_line_buffer, within_line_edit, saved_offset, histfile,
                 recent, expected>>

(* cleanup_rlwrap_and_exit(), or a death without it; and the next start. *)
WritesHistory == write_histfile /\ (histsize = 0 \/ \E i \in DOMAIN history.list : history.list[i] # EMPTY)

Restart(killed) ==
  LET file == IF ~killed /\ WritesHistory THEN history.list ELSE histfile IN
  /\ histfile' = file
  /\ history' = read_history(file)
  /\ recent' = IF killed \/ ~write_histfile THEN LastRows(histsize, histfile) ELSE recent
  /\ where' = history_length(history')
  /\ rl_line_buffer' = <<>> /\ within_line_edit' = FALSE
  /\ saved_offset' = NULL /\ expected' = NULL
  /\ UNCHANGED options

Init ==
  /\ history_duplicate_avoidance_policy \in 0..2
  /\ histsize \in Sizes /\ write_histfile \in BOOLEAN
  /\ histfile \in Histories /\ recent = LastRows(histsize, histfile)
  /\ history = read_history(histfile)
  /\ where = history_length(history)
  /\ rl_line_buffer = <<>> /\ within_line_edit = FALSE
  /\ saved_offset = NULL /\ expected = NULL

Next ==
  \/ \E line \in Lines : Types(line)
  \/ \E redisplay, forget_line \in BOOLEAN : my_accept_line(redisplay, forget_line)
  \/ my_operate_and_get_next
  \/ previous_history \/ next_history
  \/ \E row \in Rows, i \in 0..histsize, line \in Lines, done \in BOOLEAN : Hotkey(row, i, line, done)
  \/ StartEdit \/ Output
  \/ \E killed \in BOOLEAN : Restart(killed)

Spec == Init /\ [][Next]_vars

-----------------------------------------------------------------------------
(* The history is what the user has entered of late, as -s, -D, -g and the    *)
(* filter have it, whatever is removed, dropped at the front, deleted by a    *)
(* hotkey or carried over in the file from one session to the next.          *)
HistoryIsRecentInput == history.list = recent

(* After operate-and-get-next the new input line is the row that followed the *)
(* accepted one in the history, though the history has changed meanwhile.    *)
NextLineFetched == expected # NULL => ~within_line_edit
=============================================================================
