------------------------------ MODULE MainLoop ------------------------------
(***************************************************************************)
(* rlwrap's main loop (src/src/main.c), the saving and restoring of         *)
(* readline's state around the client's output (src/src/readline.c) and the *)
(* signal handlers that run while the loop waits in select()                *)
(* (src/src/signals.c), without a filter.                                   *)
(*                                                                         *)
(* Three actors share the state: rlwrap, the wrapped command behind its pty *)
(* (the "client"), and the user at the keyboard. All signals are blocked    *)
(* except inside my_pselect(), so every pass through the loop, and every    *)
(* signal handler, is one step here; what other actors do in between shows  *)
(* up in pty_out, typed and client before the next step.                    *)
(*                                                                         *)
(* Text is a sequence of characters. A character is a number: every one the *)
(* client prints and every key the user types is a fresh number, so that    *)
(* the properties can follow each single one; NL and EOFCHAR are the two    *)
(* with a meaning of their own. The terminal is wide enough for every row.  *)
(***************************************************************************)
EXTENDS Integers, Sequences

CONSTANTS
  NULL,           \* a cooked_prompt that has not been computed yet
  ImpatientModes, \* the values of impatient_prompt to consider (a negative -w: FALSE)
  ClientModes,    \* line disciplines the client may choose
  Signals,        \* the signals the user may send
  UserKeys,       \* the kinds of keys the user may press
  always_readline, \* the -a option: use readline whatever the line discipline is
  PreGiven,       \* the -P option: initial contents of the input line, or <<>>
  MaxOut,         \* bound: number of characters the client prints
  MaxKeys,        \* bound: number of keys the user presses
  MaxSignals,     \* bound: number of signals the user sends
  MaxModes        \* bound: number of times the client changes its line discipline

NL      == 0      \* newline
EOFCHAR == -1     \* the client's VEOF character, usually CTRL-D
LEFT    == -2     \* a cursor key that readline handles without changing the line
PWPROMPT == -3    \* the one character of the client's password prompt

Char == Int
Text == Seq(Char)

ASSUME MainLoopAssumption ==
  /\ NULL \notin Text
  /\ ImpatientModes \in SUBSET BOOLEAN
  /\ ClientModes \in SUBSET {"echo", "noecho", "raw"}
  /\ Signals \in SUBSET {"INT", "WINCH", "TSTP"}
  /\ UserKeys \in SUBSET {"letter", "return", "eof", "left"}
  /\ ~({"eof", "left"} \subseteq UserKeys) \* EOF is only pressed at the end of a line
  /\ PreGiven \in Text /\ \A i \in 1 .. Len(PreGiven) : PreGiven[i] \in -99 .. -4
  /\ always_readline \in BOOLEAN /\ (PreGiven # <<>> => always_readline)
  /\ MaxOut \in Nat /\ MaxKeys \in Nat /\ MaxSignals \in Nat /\ MaxModes \in Nat

VARIABLES
  impatient_prompt, \* the default: show the raw prompt before it is cooked
  pc,               \* where rlwrap is: "select", "write", "stopped", "exited", "failed"
  ui,               \* readline's state, saved_rl_state, and what the terminal shows
  output_queue,     \* input waiting to be written to the client's pty
  command_is_dead,  \* SIGCHLD for the client has been handled
  seen_EOF,         \* main_loop(): one read of the pty has failed already
  history,          \* the lines readline remembers
  client,           \* [running, tty_open, mode, asked]: the client, its side of the pty
  pty_out,          \* printed by the client (or echoed) and not yet read by rlwrap
  pty_in,           \* everything written to the client so far
  typed,            \* keys pressed and not yet read by rlwrap
  printed,          \* how many characters the client has printed
  keys,             \* every key the user has pressed
  signalled,        \* how many signals the user has sent
  modes,            \* how many times the client has changed its line discipline
  heard,            \* everything rlwrap has read from the pty
  let_go,           \* characters rlwrap no longer tracks, on the terminal when it let go
  lost              \* characters rlwrap has dropped before they were on the terminal

loopVars  == <<output_queue, seen_EOF, history, heard, let_go, lost>>
worldVars == <<client, pty_out, pty_in, typed, printed, keys, signalled, modes>>
vars == <<impatient_prompt, pc, ui, command_is_dead, loopVars, worldVars>>

-----------------------------------------------------------------------------
(* Text *)

(* Position of the last newline in s, 0 if there is none (strrchr). *)
LastNL(s) ==
  LET isLast(i) == s[i] = NL /\ \A j \in (i + 1) .. Len(s) : s[j] # NL
  IN  IF \E i \in 1 .. Len(s) : isLast(i)
      THEN CHOOSE i \in 1 .. Len(s) : isLast(i)
      ELSE 0

UpToLastNL(s)  == SubSeq(s, 1, LastNL(s))
AfterLastNL(s) == SubSeq(s, LastNL(s) + 1, Len(s))
HasNL(s)       == \E i \in 1 .. Len(s) : s[i] = NL
CharsOf(s)     == {s[i] : i \in 1 .. Len(s)}

InsertAt(s, p, c) == SubSeq(s, 1, p) \o <<c>> \o SubSeq(s, p + 1, Len(s))

-----------------------------------------------------------------------------
(* The functions of readline.c, as functions from one state of the user     *)
(* interface to the next. The fields of ui are                              *)
(*   input_buffer, point, raw_prompt, cooked_prompt, already_saved          *)
(*                         saved_rl_state                                   *)
(*   line, rl_point        readline's own line buffer and cursor            *)
(*   handler               readline's callback handler is installed         *)
(*   within_line_edit, prompt_is_still_uncooked, redisplay,                 *)
(*   we_just_got_a_signal_or_EOF                                            *)
(*                         the globals of that name                         *)
(*   scrolled, row         what the terminal shows: the finished lines, and *)
(*                         the row the cursor is on up to the cursor, less  *)
(*                         the user's unaccepted input, which readline      *)
(*                         paints after it                                  *)

InitialUi ==
  [input_buffer |-> PreGiven, point |-> Len(PreGiven), raw_prompt |-> <<>>,
   cooked_prompt |-> NULL, already_saved |-> FALSE,
   line |-> <<>>, rl_point |-> 0, handler |-> FALSE,
   within_line_edit |-> FALSE, prompt_is_still_uncooked |-> TRUE,
   redisplay |-> TRUE, we_just_got_a_signal_or_EOF |-> FALSE,
   scrolled |-> <<>>, row |-> <<>>]

(* The characters the terminal shows. *)
OnTerminal(u) == CharsOf(u.scrolled) \cup CharsOf(u.row)

(* Write s at the cursor. *)
my_putstr(u, s) ==
  LET whole == u.row \o s
  IN  [u EXCEPT !.scrolled = @ \o UpToLastNL(whole), !.row = AfterLastNL(whole)]

\* Mutant: a prompt that is not cooked yet is never erased.
NoEraseBeforeCooking(u) == IF u.prompt_is_still_uncooked THEN u ELSE [u EXCEPT !.row = <<>>]

move_cursor_to_start_of_prompt(u) ==
  IF u.prompt_is_still_uncooked /\ ~impatient_prompt THEN u
  ELSE [u EXCEPT !.row = <<>>]

(* There is no prompt regexp and no filter that could refuse the prompt. *)
cook_prompt_if_necessary(u) ==
  IF u.cooked_prompt # NULL THEN u
  ELSE [u EXCEPT !.cooked_prompt = u.raw_prompt]

(* Sample the client's ECHO flag, unless the client is known to be dead. *)
mirror_slaves_echo_mode(u) ==
  IF command_is_dead THEN u
  ELSE [u EXCEPT !.redisplay = always_readline \/ client.mode = "echo"]

\* Mutant: the cursor is not saved.
CursorNotSaved(u) ==
  [u EXCEPT !.input_buffer = u.line, !.point = 0, !.line = <<>>,
            !.already_saved = TRUE, !.rl_point = 0, !.handler = FALSE]

save_rl_state(u) ==
  LET kept == [u EXCEPT !.input_buffer = u.line, !.point = u.rl_point, !.line = <<>>]
  IN  IF u.already_saved THEN kept
      ELSE [kept EXCEPT !.already_saved = TRUE, !.rl_point = 0, !.handler = FALSE]

\* Mutant: the saved state is not marked as restored.
StillMarkedSaved(u) ==
  LET v == mirror_slaves_echo_mode(
             cook_prompt_if_necessary(move_cursor_to_start_of_prompt(u)))
  IN  [v EXCEPT !.row = @ \o v.cooked_prompt, !.handler = TRUE, !.line = v.input_buffer,
                !.rl_point = v.point, !.prompt_is_still_uncooked = FALSE]

restore_rl_state(u) ==
  LET v == mirror_slaves_echo_mode(
             cook_prompt_if_necessary(move_cursor_to_start_of_prompt(u)))
  IN  [v EXCEPT !.row = @ \o v.cooked_prompt,  \* readline paints the prompt
                !.handler = TRUE, !.line = v.input_buffer, !.rl_point = v.point,
                !.already_saved = FALSE, !.prompt_is_still_uncooked = FALSE]

start_line_edit(u) == restore_rl_state([u EXCEPT !.within_line_edit = TRUE])

\* Mutant: the old cooked prompt is kept.
StaleCookedPrompt(u, buf) == [u EXCEPT !.raw_prompt = AfterLastNL(u.raw_prompt \o buf)]

\* Mutant: an unfinished prompt is replaced instead of extended.
PromptReplaced(u, buf) == [u EXCEPT !.raw_prompt = AfterLastNL(buf), !.cooked_prompt = NULL]

(* The client's raw prompt after it has printed buf: what follows the last   *)
(* newline. The cooked prompt no longer belongs to it.                       *)
process_new_output(u, buf) ==
  [u EXCEPT !.raw_prompt = AfterLastNL(u.raw_prompt \o buf), !.cooked_prompt = NULL]

skip_rlwrap == ~always_readline /\ ~command_is_dead /\ client.mode = "raw"

-----------------------------------------------------------------------------
(* What the client prints reaches the terminal (main_loop(), "read pty"). *)

(* Direct mode: the client's bytes go to the terminal as they are. *)
pass_output_through(u, buf) == my_putstr(u, buf)

leave_prompt_alone(u, buf) ==
  \/ u.raw_prompt = <<>>
  \/ u.prompt_is_still_uncooked
  \/ command_is_dead
  \/ u.we_just_got_a_signal_or_EOF /\ HasNL(buf)

(* After a signal the prompt that is left standing is no longer reprinted. *)
forgets_prompt(u, buf) == leave_prompt_alone(u, buf) /\ u.we_just_got_a_signal_or_EOF

show_output(u, buf) ==
  LET leave    == leave_prompt_alone(u, buf)
      v        == IF ~leave THEN move_cursor_to_start_of_prompt(u)
                  ELSE IF forgets_prompt(u, buf) THEN [u EXCEPT !.raw_prompt = <<>>]
                  ELSE u
      complete == UpToLastNL(v.raw_prompt \o buf)
      shown    == IF ~impatient_prompt THEN complete
                  ELSE IF leave THEN buf ELSE v.raw_prompt \o buf
  IN  [my_putstr(process_new_output(v, buf), shown)
         EXCEPT !.prompt_is_still_uncooked = TRUE]

handle_output(u, buf) ==
  LET edit   == u.within_line_edit
      before == IF edit THEN save_rl_state(u) ELSE u
      after  == show_output(before, buf)
  IN  IF edit THEN restore_rl_state(after) ELSE after

(* pty_out holds something, so select() reports the pty as readable, and the *)
(* loop does not look at the keyboard before it has dealt with it.           *)
ReadPty ==
  /\ pc = "select" /\ pty_out # <<>>
  /\ pty_out' = <<>>
  /\ heard' = heard \o pty_out
  /\ IF skip_rlwrap
     THEN /\ ui' = pass_output_through(ui, pty_out)
          /\ let_go' = let_go \cup CharsOf(pty_out) /\ UNCHANGED lost
     ELSE /\ ui' = handle_output(ui, pty_out)
          /\ LET forgotten == IF forgets_prompt(ui, pty_out) THEN CharsOf(ui.raw_prompt) ELSE {}
             IN  /\ let_go' = let_go \cup (forgotten \cap OnTerminal(ui))
                 /\ lost' = lost \cup (forgotten \ OnTerminal(ui))
  /\ UNCHANGED <<impatient_prompt, pc, command_is_dead, output_queue, seen_EOF,
                 history, client, pty_in, typed, printed, keys, signalled, modes>>

(* Nobody holds the client's side of the pty open any more. On Linux read()  *)
(* fails: the first time, the loop waits for SIGCHLD; if the command still   *)
(* has not been reaped at the second failure, rlwrap gives up with an error. *)
(* Where read() returns 0 instead, rlwrap exits as for a dead command.       *)
ReadPtyFails ==
  /\ pc = "select" /\ pty_out = <<>> /\ ~client.tty_open
  /\ \/ command_is_dead /\ pc' = "exited" /\ UNCHANGED seen_EOF
     \/ ~command_is_dead /\ ~seen_EOF /\ seen_EOF' = TRUE /\ UNCHANGED pc
     \/ ~command_is_dead /\ seen_EOF /\ pc' = "failed" /\ UNCHANGED seen_EOF
     \/ ~command_is_dead /\ pc' = "exited" /\ UNCHANGED seen_EOF  \* nread == 0
  /\ UNCHANGED <<impatient_prompt, ui, command_is_dead, output_queue,
                 history, heard, let_go, lost, worldVars>>

-----------------------------------------------------------------------------
(* What the user types reaches the client (main_loop(), "read stdin"). *)

\* Mutant: the saved input buffer is not emptied.
OldInputKept(u) ==
  [u EXCEPT !.line = <<>>, !.rl_point = 0, !.within_line_edit = FALSE,
            !.handler = FALSE, !.raw_prompt = <<>>, !.cooked_prompt = NULL,
            !.already_saved = TRUE, !.redisplay = TRUE]

(* readline has collected a whole line: send it to the client, and forget    *)
(* the prompt and the line buffer.                                           *)
line_handler(u) ==
  [u EXCEPT !.line = <<>>, !.rl_point = 0, !.within_line_edit = FALSE,
            !.handler = FALSE, !.input_buffer = <<>>, !.point = 0,
            !.raw_prompt = <<>>, !.cooked_prompt = NULL,
            !.already_saved = TRUE, !.redisplay = TRUE]

\* Mutant: passwords are remembered as well.
EverythingRemembered(u) == IF u.line # <<>> THEN Append(history, u.line) ELSE history

remembered(u) == IF u.line # <<>> /\ u.redisplay THEN Append(history, u.line) ELSE history

accept_line(u) ==
  /\ ui' = line_handler(u)
  /\ output_queue' = output_queue \o u.line \o <<NL>>
  /\ history' = remembered(u)
  /\ let_go' = let_go \cup (CharsOf(u.raw_prompt) \cap OnTerminal(u))

(* rl_callback_read_char() on an ordinary key. *)
self_insert(u, key) ==
  [u EXCEPT !.line = InsertAt(u.line, u.rl_point, key), !.rl_point = @ + 1]

backward_char(u) == [u EXCEPT !.rl_point = IF @ > 0 THEN @ - 1 ELSE 0]

send_EOF(u) ==
  /\ output_queue' = Append(output_queue, EOFCHAR)
  /\ ui' = [u EXCEPT !.we_just_got_a_signal_or_EOF = TRUE]

(* A key for readline. With text in the line, readline itself handles the    *)
(* EOF character, by ringing the bell (the cursor is at the end: see         *)
(* MainLoopAssumption).                                                      *)
edit_key(u, key) ==
  \/ key = NL /\ accept_line(u)
  \/ key = EOFCHAR /\ u.line = <<>> /\ send_EOF(u)
     /\ UNCHANGED <<history, let_go>>
  \/ /\ ui' = CASE key = EOFCHAR -> u
                [] key = LEFT -> backward_char(u)
                [] OTHER -> self_insert(u, key)
     /\ key # NL /\ ~(key = EOFCHAR /\ u.line = <<>>)
     /\ UNCHANGED <<output_queue, history, let_go>>

\* Mutant: the queue counts as empty until it holds a whole line.
WaitForNewline == HasNL(output_queue)

output_queue_is_nonempty == output_queue # <<>>

(* One byte from the keyboard, when the pty has nothing to say. If the queue *)
(* held something when select() was called, and the pty had room for it, its *)
(* turn comes next.                                                          *)
ReadStdin ==
  /\ pc = "select" /\ pty_out = <<>> /\ client.tty_open /\ typed # <<>>
  /\ typed' = Tail(typed)
  /\ IF skip_rlwrap
     THEN /\ pty_in' = Append(pty_in, Head(typed))
          /\ UNCHANGED <<ui, output_queue, history, let_go>>
     ELSE /\ edit_key(IF ui.within_line_edit THEN ui ELSE start_line_edit(ui), Head(typed))
          /\ UNCHANGED pty_in
  /\ pc' \in IF output_queue_is_nonempty THEN {"write", "select"} ELSE {"select"}
  /\ UNCHANGED <<impatient_prompt, command_is_dead, seen_EOF, heard, lost, client,
                 pty_out, printed, keys, signalled, modes>>

-----------------------------------------------------------------------------
(* The output queue reaches the pty (main_loop(), "write pty"). *)

(* How many characters write() may take: all it is offered, which is one     *)
(* line at most, or less.                                                    *)
how_much ==
  {n \in 1 .. Len(output_queue) : \A i \in 1 .. n - 1 : output_queue[i] # NL}

\* Mutant: what write() did not take is dropped.
PartialWriteLosesRest ==
  IF client.tty_open
  THEN \E n \in how_much :
         LET sent == SubSeq(output_queue, 1, n)
         IN  /\ output_queue' = <<>>
             /\ pty_in' = pty_in \o sent
             /\ pty_out' = IF client.mode = "echo" THEN pty_out \o sent ELSE pty_out
             /\ pc' = "select"
  ELSE pc' = "failed" /\ UNCHANGED <<output_queue, pty_in, pty_out>>

(* The pty's line discipline echoes what arrives. Without a client's side    *)
(* the write fails.                                                          *)
flush_output_queue ==
  IF client.tty_open
  THEN \E n \in how_much :
         LET sent == SubSeq(output_queue, 1, n)
         IN  /\ output_queue' = SubSeq(output_queue, n + 1, Len(output_queue))
             /\ pty_in' = pty_in \o sent
             /\ pty_out' = IF client.mode = "echo" THEN pty_out \o sent ELSE pty_out
             /\ pc' = "select"
  ELSE pc' = "failed" /\ UNCHANGED <<output_queue, pty_in, pty_out>>

(* Either in the pass that has just read a key, or in one of its own. *)
WritePty ==
  /\ \/ pc = "write"
     \/ pc = "select" /\ pty_out = <<>> /\ client.tty_open /\ typed = <<>>
  /\ output_queue_is_nonempty
  /\ flush_output_queue
  /\ UNCHANGED <<impatient_prompt, ui, command_is_dead, seen_EOF, history,
                 heard, let_go, lost, client, typed, printed, keys, signalled, modes>>

-----------------------------------------------------------------------------
(* select() times out. *)

\* Mutants: select() waits for ever when the command is dead, or before cooking.
NoTimeoutWhenDead    == ui.prompt_is_still_uncooked
NoTimeoutForCooking  == command_is_dead

TimeoutIsSet == command_is_dead \/ ui.prompt_is_still_uncooked

(* If the queue holds anything, the client's pty has no room for it now. *)
NothingReady == pty_out = <<>> /\ client.tty_open /\ typed = <<>>

\* Mutant: a signal makes the prompt count as cooked.
SignalCooks(u) ==
  IF u.we_just_got_a_signal_or_EOF
  THEN [u EXCEPT !.we_just_got_a_signal_or_EOF = FALSE, !.prompt_is_still_uncooked = FALSE]
  ELSE IF skip_rlwrap
  THEN [u EXCEPT !.prompt_is_still_uncooked = FALSE]
  ELSE start_line_edit(u)

(* Time to cook the prompt. *)
cooking_time(u) ==
  IF u.we_just_got_a_signal_or_EOF
  THEN [u EXCEPT !.we_just_got_a_signal_or_EOF = FALSE]
  ELSE IF skip_rlwrap
  THEN [u EXCEPT !.prompt_is_still_uncooked = FALSE]
  ELSE start_line_edit(u)

Timeout ==
  /\ pc = "select" /\ NothingReady /\ TimeoutIsSet
  /\ \/ command_is_dead /\ pc' = "exited" /\ UNCHANGED ui
     \/ ~command_is_dead /\ ui' = cooking_time(ui) /\ UNCHANGED pc
  /\ UNCHANGED <<impatient_prompt, command_is_dead, loopVars, worldVars>>

-----------------------------------------------------------------------------
(* Signal handlers, which run while the loop is in select(). *)

(* pass_on_signal(), for a signal that has no effect on rlwrap itself. What  *)
(* the client does about it are steps of the client.                         *)
PassOnSignal ==
  /\ pc = "select" /\ "INT" \in Signals /\ signalled < MaxSignals
  /\ signalled' = signalled + 1
  /\ ui' = [ui EXCEPT !.we_just_got_a_signal_or_EOF = @ \/ ~command_is_dead]
  /\ UNCHANGED <<impatient_prompt, pc, command_is_dead, loopVars, client, pty_out,
                 pty_in, typed, printed, keys, modes>>

\* Mutant: the cooked prompt is repainted although readline is not active.
RepaintAlways(u) == IF skip_rlwrap THEN u ELSE [u EXCEPT !.row = u.cooked_prompt]

(* adapt_tty_winsize(): wipe the row; if readline is active, repaint it, if  *)
(* not, let the main loop start a line edit (received_WINCH).                *)
adapt_tty_winsize(u) ==
  LET wiped == [u EXCEPT !.row = <<>>]
  IN  IF u.within_line_edit THEN [wiped EXCEPT !.row = u.cooked_prompt]
      ELSE IF skip_rlwrap THEN u
      ELSE start_line_edit(wiped)

(* The terminal has got a new size. With -a the signal is not passed on.     *)
(* Where no edit is going on, the handler notes received_WINCH only, and the *)
(* loop starts the edit on its way back to select(): one step here, as no    *)
(* key and no output is read in between. Winsize has two, and the handlers   *)
(* that may run between them in the same call of my_pselect().               *)
WindowChanges ==
  /\ pc = "select" /\ "WINCH" \in Signals /\ signalled < MaxSignals
  /\ signalled' = signalled + 1
  /\ ui' = adapt_tty_winsize(
             [ui EXCEPT !.we_just_got_a_signal_or_EOF =
                          @ \/ (~command_is_dead /\ ~always_readline)])
  /\ UNCHANGED <<impatient_prompt, pc, command_is_dead, loopVars, client, pty_out,
                 pty_in, typed, printed, keys, modes>>

(* handle_sigTSTP() up to the moment rlwrap is suspended ... *)
Suspend ==
  /\ pc = "select" /\ "TSTP" \in Signals /\ signalled < MaxSignals
  /\ signalled' = signalled + 1
  /\ pc' = "stopped"
  /\ ui' = IF ui.within_line_edit THEN save_rl_state(ui) ELSE ui
  /\ UNCHANGED <<impatient_prompt, command_is_dead, loopVars, client, pty_out,
                 pty_in, typed, printed, keys, modes>>

(* ... and from there on. The shell has used the terminal in the meantime:   *)
(* rlwrap starts on a row of its own.                                        *)
woken_up(u) ==
  LET fresh == [u EXCEPT !.scrolled = @ \o Append(u.row, NL), !.row = <<>>]
  IN  IF u.within_line_edit THEN restore_rl_state(fresh)
      ELSE IF skip_rlwrap THEN fresh
      ELSE LET v == cook_prompt_if_necessary(move_cursor_to_start_of_prompt(fresh))
           IN  my_putstr(v, v.cooked_prompt)

(* SIGCONT is among the signals that are passed on: its handler runs first,  *)
(* while all signals are unblocked. The window may have got another size     *)
(* while rlwrap was stopped. (A SIGCHLD in between is a ChildDied before or  *)
(* after this step.)                                                         *)
Resume ==
  /\ pc = "stopped" /\ pc' = "select"
  /\ \E resized \in BOOLEAN :
       /\ resized => "WINCH" \in Signals
       /\ ui' = LET v == woken_up([ui EXCEPT !.we_just_got_a_signal_or_EOF =
                                                 @ \/ ~command_is_dead])
                IN  IF resized THEN adapt_tty_winsize(v) ELSE v
  /\ UNCHANGED <<impatient_prompt, command_is_dead, loopVars, worldVars>>

\* Mutant: rlwrap exits as soon as the command has died.
ExitAtOnce ==
  /\ pc \in {"select", "stopped"} /\ ~client.running /\ ~command_is_dead
  /\ command_is_dead' = TRUE /\ pc' = "exited"
  /\ UNCHANGED <<impatient_prompt, ui, loopVars, worldVars>>

(* SIGCHLD: child_died() reaps the command, also when it interrupts a        *)
(* handle_sigTSTP() that has unblocked all signals to be suspended.          *)
ChildDied ==
  /\ pc \in {"select", "stopped"} /\ ~client.running /\ ~command_is_dead
  /\ command_is_dead' = TRUE
  /\ UNCHANGED <<impatient_prompt, pc, ui, loopVars, worldVars>>

-----------------------------------------------------------------------------
(* The client, as rlwrap sees it: it prints, changes its line discipline,    *)
(* closes its side of the pty (a grandchild may keep it open longer than the *)
(* client itself) and exits, in any order and at any time.                   *)

(* The password the client has asked for, if any, has reached it. *)
Answered == client.asked = 0 \/ (\E i \in 1 .. Len(pty_in) : i >= client.asked /\ pty_in[i] = NL)

ClientPrints ==
  /\ client.tty_open /\ printed < MaxOut /\ pc \notin {"exited", "failed"}
  /\ \E c \in {printed + 1, NL} : pty_out' = Append(pty_out, c)
  /\ printed' = printed + 1
  /\ UNCHANGED <<impatient_prompt, pc, ui, command_is_dead, loopVars, client, pty_in,
                 typed, keys, signalled, modes>>

(* getpass(): the echo is off before the prompt appears, and stays off until *)
(* a line has been read. No complete line has been typed ahead.              *)
ClientAsksPassword ==
  /\ client.tty_open /\ client.mode = "noecho" /\ Answered
  /\ printed < MaxOut /\ pc \notin {"exited", "failed"}
  /\ NL \notin CharsOf(typed) \cup CharsOf(output_queue)
  /\ pty_out' = Append(pty_out, PWPROMPT)
  /\ client' = [client EXCEPT !.asked = Len(pty_in) + 1]
  /\ printed' = printed + 1
  /\ UNCHANGED <<impatient_prompt, pc, ui, command_is_dead, loopVars, pty_in, typed,
                 keys, signalled, modes>>

ClientSetsMode ==
  /\ client.tty_open /\ modes < MaxModes /\ Answered /\ pc \notin {"exited", "failed"}
  /\ \E m \in ClientModes \ {client.mode} : client' = [client EXCEPT !.mode = m]
  /\ modes' = modes + 1
  /\ UNCHANGED <<impatient_prompt, pc, ui, command_is_dead, loopVars, pty_out, pty_in,
                 typed, printed, keys, signalled>>

ClientClosesTty ==
  /\ client.tty_open /\ pc \notin {"exited", "failed"}
  /\ client' = [client EXCEPT !.tty_open = FALSE]
  /\ UNCHANGED <<impatient_prompt, pc, ui, command_is_dead, loopVars, pty_out, pty_in,
                 typed, printed, keys, signalled, modes>>

ClientExits ==
  /\ client.running /\ pc \notin {"exited", "failed"}
  /\ client' = [client EXCEPT !.running = FALSE]
  /\ UNCHANGED <<impatient_prompt, pc, ui, command_is_dead, loopVars, pty_out, pty_in,
                 typed, printed, keys, signalled, modes>>

-----------------------------------------------------------------------------
(* The user. Letters are numbered from 100, those of a password from -100    *)
(* down. (What -P puts on the line has numbers in between.)                  *)

(* The user sees a password prompt and has not answered it yet. *)
SeesPasswordPrompt ==
  PWPROMPT \in CharsOf(ui.row) \cap CharsOf(ui.raw_prompt) /\ NL \notin CharsOf(typed)

KeyFor(kind) ==
  CASE kind = "letter" -> IF SeesPasswordPrompt THEN -(100 + Len(keys)) ELSE 100 + Len(keys)
    [] kind = "return" -> NL
    [] kind = "eof"    -> EOFCHAR
    [] kind = "left"   -> LEFT

UserType ==
  /\ Len(keys) < MaxKeys /\ pc \notin {"stopped", "exited", "failed"}
  /\ \E kind \in UserKeys : /\ typed' = Append(typed, KeyFor(kind))
                             /\ keys' = Append(keys, KeyFor(kind))
  /\ UNCHANGED <<impatient_prompt, pc, ui, command_is_dead, loopVars, client, pty_out,
                 pty_in, printed, signalled, modes>>

(* End of file on the keyboard: the terminal has gone. *)
HangUp ==
  /\ pc = "select" /\ pty_out = <<>> /\ client.tty_open /\ typed = <<>>
  /\ pc' = "exited"
  /\ UNCHANGED <<impatient_prompt, ui, command_is_dead, loopVars, worldVars>>

-----------------------------------------------------------------------------
Init ==
  /\ impatient_prompt \in ImpatientModes
  /\ pc = "select"
  /\ ui = InitialUi
  /\ output_queue = <<>> /\ command_is_dead = FALSE /\ seen_EOF = FALSE
  /\ history = <<>> /\ heard = <<>> /\ let_go = {} /\ lost = {}
  /\ \E m \in ClientModes :
       client = [running |-> TRUE, tty_open |-> TRUE, mode |-> m, asked |-> 0]
  /\ pty_out = <<>> /\ pty_in = <<>> /\ typed = <<>>
  /\ printed = 0 /\ keys = <<>> /\ signalled = 0 /\ modes = 0

Handlers == PassOnSignal \/ WindowChanges \/ Suspend \/ Resume \/ ChildDied
Loop     == ReadPty \/ ReadPtyFails \/ ReadStdin \/ WritePty \/ Timeout
World    == ClientPrints \/ ClientAsksPassword \/ ClientSetsMode \/ ClientClosesTty
            \/ ClientExits \/ UserType \/ HangUp

Next == Loop \/ Handlers \/ World

Spec == Init /\ [][Next]_vars

-----------------------------------------------------------------------------
(* Type invariant. *)
UiType ==
  [input_buffer : Text, point : Nat, raw_prompt : Text,
   cooked_prompt : Text \cup {NULL}, already_saved : BOOLEAN,
   line : Text, rl_point : Nat, handler : BOOLEAN,
   within_line_edit : BOOLEAN, prompt_is_still_uncooked : BOOLEAN,
   redisplay : BOOLEAN, we_just_got_a_signal_or_EOF : BOOLEAN,
   scrolled : Text, row : Text]

TypeOK ==
  /\ impatient_prompt \in BOOLEAN
  /\ pc \in {"select", "write", "stopped", "exited", "failed"}
  /\ ui \in UiType
  /\ output_queue \in Text
  /\ command_is_dead \in BOOLEAN /\ seen_EOF \in BOOLEAN
  /\ history \in Seq(Text)
  /\ client \in [running : BOOLEAN, tty_open : BOOLEAN,
                 mode : {"echo", "noecho", "raw"}, asked : Nat]
  /\ pty_out \in Text /\ pty_in \in Text /\ typed \in Text
  /\ printed \in Nat /\ keys \in Text /\ signalled \in Nat /\ modes \in Nat
  /\ heard \in Text /\ let_go \in SUBSET Char /\ lost \in SUBSET Char

(* Readline's handler is installed exactly when a line edit is in progress,  *)
(* unless rlwrap is suspended: readline aborts when it is given a key        *)
(* without a handler, and a handler left installed after a line was accepted *)
(* would put the next prompt in the wrong place.                             *)
HandlerMatchesEdit == ui.handler <=> ui.within_line_edit /\ pc # "stopped"

(* While a line is edited, the prompt readline shows is the cooked form of   *)
(* what the client printed after its last newline: it is never stale, never  *)
(* NULL, and not waiting to be cooked.                                       *)
PromptIsCurrent ==
  /\ ui.cooked_prompt \in {NULL, ui.raw_prompt}
  /\ ui.within_line_edit => ui.cooked_prompt # NULL /\ ~ui.prompt_is_still_uncooked

(* What is being edited has not been saved already: save_rl_state() would    *)
(* leave readline's handler installed (already_saved).                       *)
SavedOnce == pc # "stopped" /\ ui.within_line_edit => ~ui.already_saved

(* The cursor is within the line, or just behind it.                         *)
CursorInLine ==
  ui.rl_point \in 0 .. Len(ui.line) /\ ui.point \in 0 .. Len(ui.input_buffer)

(* The inductive invariant of the line editor: each of its parts needs the   *)
(* others to be preserved. (A WINCH paints cooked_prompt, so it has to be    *)
(* text; the handler is removed by save_rl_state() if nothing is saved yet.) *)
EditorInv == TypeOK /\ HandlerMatchesEdit /\ PromptIsCurrent /\ SavedOnce /\ CursorInLine

(* A prompt that still has to be cooked is not forgotten: the flag that      *)
(* makes the loop time out and cook it is set.                               *)
CookingIsPending ==
  ui.raw_prompt # <<>> /\ ui.cooked_prompt = NULL => ui.prompt_is_still_uncooked

Shown == ui.scrolled \o ui.row

(* Any two characters of s, newlines apart, can be found in h in this order. *)
InOrder(s, h) ==
  \A i, j \in 1 .. Len(s) :
    i < j /\ NL \notin {s[i], s[j]} =>
      \E a, b \in 1 .. Len(h) : a < b /\ h[a] = s[i] /\ h[b] = s[j]

(* The terminal shows the client's output (and the echo of the user's input) *)
(* in the order in which it was read, each character as often as it was      *)
(* read: saving, erasing and reprinting the prompt around output that        *)
(* arrives during a line edit never duplicates or swaps text. (In patient    *)
(* mode a prompt that has been cooked is printed again if more of it arrives *)
(* when the command is dead.)                                                *)
ShownOnceInOrder ==
  impatient_prompt \/ ~command_is_dead => InOrder(Shown, heard)

(* The user has sent a signal, or an end of file from the keyboard. *)
Interrupted == signalled > 0 \/ EOFCHAR \in CharsOf(keys)

(* What the client said is on the terminal, or was there when rlwrap stopped *)
(* tracking it (its line was accepted, a signal interrupted it), or is the   *)
(* prompt that patient mode still holds back. There is one exception: if     *)
(* more output comes while patient mode holds back a prompt, and there has   *)
(* been a signal or an end of file, main_loop() drops the prompt "to prevent *)
(* reprinting" what has not been printed. So nothing is lost without one of  *)
(* these, and nothing at all in impatient mode, rlwrap's default.            *)
NothingLost ==
  /\ \A c \in CharsOf(heard) \ (let_go \cup lost) :
       \/ c \in CharsOf(Shown)
       \/ ~impatient_prompt /\ ui.prompt_is_still_uncooked /\ c \in CharsOf(ui.raw_prompt)
  /\ lost # {} => ~impatient_prompt /\ Interrupted

(* When rlwrap exits because the command has died, the user has seen all it  *)
(* said ("so that we will see childs good-bye talk", child_died()).          *)
GoodbyeIsShown ==
  pc = "exited" /\ command_is_dead =>
    CharsOf(heard \o pty_out) \ let_go \subseteq CharsOf(Shown)

(* The same, when prompts are shown before they are cooked.                  *)
ImpatientGoodbyeIsShown == impatient_prompt => GoodbyeIsShown

(* The line being edited, wherever it is kept at the moment. *)
EditedLine ==
  IF ui.handler THEN <<ui.line, ui.rl_point>> ELSE <<ui.input_buffer, ui.point>>

(* Only a key changes the line the user is editing, and its cursor: output   *)
(* of the client, signals, a change of the window's size and being suspended *)
(* all leave them alone.                                                     *)
EditSurvives ==
  [][typed' = typed \/ Len(typed') > Len(typed) => EditedLine' = EditedLine]_vars

IsLetter(c) == c >= 100 \/ c <= -100

(* Every letter the user has typed is waiting to be read, in the edited      *)
(* line, in the queue, or written to the client, and in one of them only.    *)
EveryKeyInOnePlace ==
  LET places == EditedLine[1] \o output_queue \o pty_in \o typed
  IN  /\ \A i, j \in 1 .. Len(places) :
            places[i] = places[j] => i = j \/ ~IsLetter(places[i])
      /\ \A i \in 1 .. Len(keys) : IsLetter(keys[i]) => keys[i] \in CharsOf(places)

(* Where every line goes through readline and is typed from left to right,   *)
(* rlwrap relays lines as LineRelay says: the client gets what the -P option *)
(* gave and what was typed, once, in that order, line by line, and nothing   *)
(* of a line before it is finished (line_handler(), flush_output_queue()).   *)
Relay ==
  INSTANCE LineRelay WITH
    Given    <- PreGiven,
    editing  <- EditedLine[1] \o typed,
    accepted <- output_queue,
    received <- pty_in

ImplementsLineRelay == Relay!Spec

(* No character of a password gets into the history, as long as the client   *)
(* lives and rlwrap looks at the client's ECHO flag.                         *)
PasswordsForgotten ==
  ~command_is_dead /\ ~always_readline =>
    \A i \in 1 .. Len(history) : \A c \in CharsOf(history[i]) : c > -100

-----------------------------------------------------------------------------
(* The loop can take a step: a signal aside, select() has something to       *)
(* report or is going to time out. This is ENABLED <<Loop>>_vars, spelt out  *)
(* because TLC takes very long to evaluate that.                             *)
CanStep ==
  \/ pc = "write"
  \/ pc = "select" /\ (~NothingReady \/ output_queue_is_nonempty \/ TimeoutIsSet)

(* Fairness: rlwrap is not kept from running for ever (weak fairness of      *)
(* Loop), the kernel delivers SIGCHLD, and a suspended rlwrap is resumed.    *)
(* The client and the user owe nothing.                                      *)
LoopIsFair == []<>(~CanStep) \/ []<><<Loop>>_vars

FairSpec == Spec /\ LoopIsFair /\ WF_vars(ChildDied) /\ WF_vars(Resume)

Gone == pc \in {"exited", "failed"}

(* When the command dies, rlwrap exits, even if a grandchild keeps the pty   *)
(* open and whatever is still queued, half cooked or being typed.            *)
RlwrapFollowsCommand == ~client.running ~> Gone

(* A prompt is cooked in the end: a signal postpones that, and does not      *)
(* cancel it.                                                                *)
PromptIsCooked == ui.prompt_is_still_uncooked ~> ~ui.prompt_is_still_uncooked \/ Gone

(* What was typed reaches readline, and what was accepted reaches the client.*)
InputGetsThrough == typed \o output_queue # <<>> ~> typed \o output_queue = <<>> \/ Gone
=============================================================================
