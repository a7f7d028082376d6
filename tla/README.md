# Verification of rlwrap

rlwrap gives any command line editing: it runs the command behind a pseudo
terminal, shows what the command prints, recognises its prompts, lets the user
edit the input with GNU readline, and sends finished lines on. This directory
holds TLA+ models of the parts of rlwrap where the order of events matters,
TLC runs that check them on small instances, and proofs checked by TLAPS.

## Inventory: the parts of the system

| part | code | state | operations | interacts with |
|---|---|---|---|---|
| main loop | `main.c` | `within_line_edit`, `prompt_is_still_uncooked`, `we_just_got_a_signal_or_EOF`, `output_queue` | one pass: select, read pty, read stdin, write pty, time-out | everything |
| readline interface | `readline.c` | `saved_rl_state`, readline's own line and handler, history | save/restore around output, cook the prompt, accept a line, hotkeys, redisplay | called by the loop and by readline (callbacks) |
| signal handling | `signals.c` | `command_is_dead`, `received_WINCH`, deferred window size | handlers, run only while the loop is in `my_pselect()` | shares the loop's globals |
| pty | `pty.c` | cached terminal settings | senses raw/echo mode of the command | the kernel's line discipline |
| filter protocol | `filter.c`, `utils.c`, `filters/` | pipes, filter's pid, interests | exchange one tagged message, handle out-of-band messages, filter's death | called from the loop, readline callbacks *and* signal handlers |
| waiting | `utils.c` | the self-made `pselect()` and its global time-out | unblock, select, block | signal handlers zero its time-out |
| completion | `completion.c/.rb` | a red-black tree of words | insert, find, iterate | readline |
| history | `readline.c`, `main.c` | readline's list, the history file | add a line, operate and get next, rewriting by a filter | readline, filter |
| strings | `string_utils.c`, `multibyte.c` | the tail of the output that was searched for codes | unbackspace, colour codes, lengths on the screen, search and replace, message fields | all |
| terminal | `term.c` | capabilities | cursor moves | readline interface |
| start and exit | `main.c` | exit status | fork, options, clean up | signals |

How they interact: one thread runs `main_loop()`, which calls readline with what
it reads from the user and is called back by it (`line_handler()`). Signals are
blocked except in `my_pselect()`, while rlwrap is suspended and during an
exchange with the filter; handlers work on the same global variables as the
loop, which the models treat accordingly: no locks, but atomic stretches
between two system calls.

What makes each part correct:

- *main loop and readline interface*: what the command says appears once and in
  order whatever the user is doing; the line being edited survives; readline's
  handler is there exactly when it is needed; what is typed reaches the command
  once and in order; no password in the history; rlwrap ends when the command does.
- *waiting*: no signal is missed between looking at the globals and going to sleep.
- *filter protocol*: every exchange ends, with the answer that belongs to it,
  or with the error the filter has sent.
- *signals and exit*: a new window size reaches the command, whatever it is
  interleaved with, and signals do not chase each other;
  exit status and terminal settings are right in whatever order commands and
  filters die.
- *completion*: whatever the trees go through, the user sees a sorted list without
  doubles.
- *history*: the last lines that were entered, without the doubles that are not
  wanted, over sessions.
- *strings, terminal, redisplay*: rlwrap knows from the text alone which screen the
  command uses, where its prompt begins, and what is on the row.

Hard behaviours: output of the command that arrives while the user edits;
signals between any two passes; the death of the command with output and input
under way; a command that changes its line discipline; partial writes; a filter
that is consulted from signal handlers. `PROJECT.json` lists them, each at its
line, under "hazards", with the properties that cover them.

## Plan

Done, in this order:

1. `MainLoop`, the core, with `MainLoopProofs`.
2. `AtomicWait` (abstract) and `Pselect`, which implements it, with `PselectProofs`.
   `MainLoop` uses the abstract view: a handler runs only when the loop waits.
3. `FilterProtocol`, rlwrap and its filter, with `FilterProofs`.
4. `LineRelay` (abstract), which `MainLoop` implements; that is proved in `MainLoopProofs`, too.
5. `Winsize`, the way of a new window size to the command, with `WinsizeProofs`.
6. `RedBlack`, the trees; `Completion`, which uses them; `WordList` (abstract), which
   `Completion` implements.
7. `PromptText`, the text of the prompt; `Redisplay`, which extends it with an edited line;
   `PromptProofs` and `TextProofs`.
8. `History`, with `HistoryProofs`.
9. `Exit`, with `ExitProofs`.

Not done: the parts of the loop that `MainLoop` leaves out (multi-line editing, one-shot
mode, the order of input in direct mode), and proofs about `Completion`, whose trees would
have to be something else than RECURSIVE operators.

## The modules

### MainLoop

`pc` tells which part of a pass is next: `"select"` (waiting), `"write"` (the
pty may still have to be written), `"stopped"`, `"exited"`, `"failed"`. All that
`main.c` and `readline.c` keep about the terminal is one record `ui`, whose
fields have the names of the code's variables: `within_line_edit`,
`prompt_is_still_uncooked`, `saved_rl_state.{raw_prompt, cooked_prompt,
input_buffer, point, already_saved}`, readline's own `line`, `rl_point` and
`handler`; besides there is what the terminal shows, `scrolled` and `row`. Helpers
such as `process_new_output(u, ...)`, `save_rl_state(u)`, `restore_rl_state(u)`
map one such record to the next, as the C functions do by side effect, so that an
action reads like the branch of `main_loop()` it stands for:

| action | code |
|---|---|
| `ReadPty`, `ReadPtyFails` | output of the command, its end (main.c:443-566) |
| `ReadStdin`, `HangUp` | a key in an edit, starting an edit, direct mode, EOF (570-628) |
| `WritePty` | `flush_output_queue()`, at most a line, perhaps in part (630-640) |
| `Timeout` | cook the prompt, start an edit with `-a`, exit when the command is dead (380-421) |
| `PassOnSignal`, `WindowChanges`, `Suspend`, `Resume`, `ChildDied` | the handlers (signals.c) |
| `Client...`, `UserType` | the command and the user |

Text is a sequence of numbers: 0 is a newline, each other character is a number
of its own, so that loss, duplication and swaps are visible. Letters the user types
are numbered from 100, those of a password (typed after the user has seen the
prompt for it) from -100 downwards; what `-P` puts on the line has numbers in between.
The terminal is a row and what has scrolled away.

Sources of uncertainty: output comes in any portions; a write may be partial;
signals come whenever the loop waits; a grandchild may keep the pty open; echo of
the client's tty includes the EOF character or not (systems differ). A full pty is
taken to be read by the command eventually.

When rlwrap forgets a prompt, two history variables tell what became of its text: `let_go` has
what the terminal was showing by then, `lost` what it was not. `NothingLost` is about all
other text, and says when there may be any lost: in patient mode, and after a signal or an
end of file only (see Findings).

`Resume` includes the handler of the SIGCONT that wakes rlwrap up, which runs before
`handle_sigTSTP()` goes on, and a size that has changed while rlwrap was stopped. `WindowChanges`
takes the handler and the start of an edit by the loop (`received_WINCH`, main.c:367-372)
together, as nothing is read in between; `Winsize` has them apart.

`MaxOut` bounds the output, so that a command that prints for ever does not occur. As the loop
turns to the keyboard only when there is no output (main.c:565), such a command would starve it;
`InputGetsThrough` says nothing about that, it is about the queue and partial writes.

Left out: prompt regexps, polling (`-W`), `ignore_queued_input`, one-shot mode,
the filter's part in the loop, completion, multi-line editing, the file behind
the history, colours.

Runs:

- `dialogue` (2.1 million states): in impatient mode, the default, and in patient mode (a
  negative `-w`, main.c:931-936); three characters of output, two keys, one signal (INT or
  WINCH), `-a` and `-P`.
- `modes` (4.5 million): three line disciplines with one change, suspension and window
  change, letters and cursor-left.
- `mainloop_live` (216 thousand): liveness, two signals, no letters.

Three characters of output are needed for a prompt, its extension by later
output and a newline between them, the case in which prompts are erased,
extended and reprinted; two keys, for a line that is accepted while another
key waits, or a letter with the cursor moved before it; one signal is enough to
meet every state of the loop, as handlers do not nest; one mode change, to enter
and (with the initial mode free) to leave every mode.

Fairness (`FairSpec`): rlwrap itself runs (`LoopIsFair`; it is weak fairness of
the loop's part of `Next`, with the enabling condition `CanStep` spelt out); the
kernel delivers SIGCHLD; a suspended rlwrap is resumed. Nothing is assumed of the
command or the user.

### LineRelay

What the main loop does to the user's input, seen from outside: `editing` (typed
and not finished), `accepted` (finished lines that wait), `received`. A line
moves from the first to the second as a whole, and from there to the command
in order and never more than a line at once. `MainLoop` maps `editing` to the
edited line, wherever it is kept (`EditedLine`: readline's buffer, or
`saved_rl_state.input_buffer` while output is shown or no edit is going on),
followed by the keys not yet read; `accepted` to `output_queue`, and `received` to
`pty_in`. Run `dialogue` checks it (`ImplementsLineRelay`).

It does not hold in raw mode (keys go straight to the pty), and not with cursor
keys or an EOF character, which `LineRelay` does not know; run `modes` checks for these
that no key is lost or doubled (`EveryKeyInOnePlace`).

### AtomicWait and Pselect

`AtomicWait` is what the loop needs of `pselect()`: it goes to sleep only if no
handler has run since the call began, and a handler that runs ends the sleep.
`Pselect` is `my_pselect()` with each point at which a handler may run as a
step of its own, also the one between the evaluation of `select()`'s arguments
(`PassTimeout`) and the kernel's copy of the time-out (`StartSelect`). It implements
`AtomicWait` (run `pselect`, all three signals, all three time-outs, up to four deliveries, 10606
states; and a proof) but for one moment, `TooLate`: the loop is idle, so that the NULL pointer
has been passed on, and the handler runs before `select()` begins. `ImplementsAtomicWait` has
that one step (`SleepsTooLate`) as an exception, see Findings.

### FilterProtocol

`frames` is the stack of calls of `pass_through_filter()`: a call from the main
loop, the call for the filter's interests within it, and calls from signal
handlers that interrupted them. A message travels as two items, tag and rest
(length and text), as it is written and read by separate system calls; texts are
numbers of calls, so that an answer shows whose it is. `unblocked` stands for the
signal mask, with what the kernel and `block_all_signals()` do to it. The filter
is the `run()` of the two libraries: it reads a message, may send out-of-band
messages, answers, and may die at any moment; or it could not be started (then
`spawn_filter()`'s child sends the error and waits 100 seconds: `"sorry"`).

The alarm that ends the patience of `read_patiently2()` after a second is
left to chance: whenever a handler returns, rlwrap may give up (`"user
interrupt"`). `PipeSize` is 6 items, so that signal messages always fit; a
real pipe holds 64 K, far more than a few such messages.

Runs: `filter` (463 thousand states; five calls, two interrupting signals, one
out-of-band message; filters with and without a signal handler), and
`python_reject`, see Findings. Two interrupts are the least for a
handler within a handler's exchange; five calls, for a nested call, its request
for interests and a later call that would get a left-over answer. Fairness: rlwrap goes on with
a call (it is one thread), and the filter with a message it has got, which is
what the documentation demands of filters ("if the filter hangs, rlwrap does
the same"). `CallEnds` leaves out one case: without a signal handler, a filter may be sent
a signal's message between the parts of another (`"garbled"`), and both sides then
wait; the code leaves it to the user to interrupt once more. Length and text of a message are
written by separate calls (filter.c:341-344) and are one item here: nothing in rlwrap or the filter
looks at the one without the other.

### Winsize

A chain of copies: the size of the terminal (`tty`), what rlwrap knows (`winsize`),
the command's pty (`pty`), what the command works with (`command.size`).
`adapt_tty_winsize()` moves a new size along the chain; it is an operator here,
as three callers use it and do different things with its result:

| action | code |
|---|---|
| `WindowChanges`, `PassOn` | the SIGWINCH handler, up to and after the second call of `dont_wrap_command_waits()` (signals.c:330) |
| `AcceptLine` | `line_handler()` makes good what was put off (readline.c:274-278) |
| `Suspend`, `Resume` | `handle_sigTSTP()`; in direct mode it returns before it looks at the size (signals.c:230) |
| `StartEditAfterWINCH`, `StartEdit` | the loop paints the prompt that the handler has erased (main.c:367) |
| `Resize`, `CommandAdapts`, ... | the user and the command, at any moment, also between the handler's steps |

What is sent as SIGWINCH is pending at most once (`winch`, `command.winch`). The
kernel signals the processes behind a pty whose size is set to another value;
rlwrap then sends the same signal again, which the model keeps. A command may
set its own window size in turn, and on some systems that signals rlwrap: the
loop the comment at signals.c:266 is afraid of. `MainLoop`'s `WindowChanges` has
the handler's effect on what is displayed, `Winsize` its effect on the sizes;
they share `within_line_edit` and `received_WINCH`. Signals that arrive while
`handle_sigTSTP()` has all of them unblocked (signals.c:205-212) come before or after `Resume` here,
not within it: SIGCONT has no effect on sizes.

Run `winsize` (110 thousand states; every value of `-a` and `-N`, three sizes,
three changes, two changes of the command's mode or wait status): three changes
are one during the handler, one while it is pending (which are coalesced) and one
while rlwrap is stopped. `missed` remembers the one case in which the code
overlooks a change, so that the properties can leave out that case and no other.
Fairness: handlers and loop run, rlwrap is resumed, the command handles its
signals; the loop's turn is assumed strongly fair, as it comes after every
handler and a user may suspend rlwrap over and over. Nothing is assumed of user or
command otherwise. Run `deferred_size`: see Findings.

### RedBlack, Completion and WordList

`RedBlack` is the trees of `completion.c` on the memory they live in: every node
with its pointers to children and parent, and the one sentinel (`RBNULL`) that all
trees share and that a deletion writes to. The C functions are operators from
memory to memory; the code has each balancing step twice, left and right, here
the side is a parameter. Allocation takes the first free node.

`Completion` is what happens to the two trees: the list of words (options `-i` and
`-f`, completion file, history, `-r`, words a filter adds and removes, also while it
is asked about a completion) and the scratch tree of `my_completion_function()`, in
which completions are sorted, replaced by the filter's answer, and which is read
by a pointer that survives between calls. `WordList` says what all this is for,
without trees: a set of words, and a sorted list of those that match. The mapping
reads the trees: `words` are the keys of the one, `offers` what is still to be read
from the other. `WordList` promises, as the manual does, that file names are case-sensitive in
any case; that a file name gets lost with `-i` if another completion differs from it in
case only (`FileNameIsLost`) is an exception in `ImplementsWordList`, see Findings.

| action | code |
|---|---|
| `OptionI`, `OptionF`, `Start` | options (main.c:867-880) and initialisation |
| `FeedLine`, `RemoveWords` | `feed_line_into_completion_list()`, `remove_word_from_completions()` |
| `FirstCompletion`, `FilteredCompletion`, `FilterMesses`, `NextCompletion` | `my_completion_function()`, split at the call of the filter |

Run `completion` (about 35 thousand states): six words of one or two letters, upper
and lower case, in any order of insertion and deletion. Six keys are enough for
every case of the repairs, on both sides. A `VIEW` takes states for the same that
differ in the addresses of nodes only; it does not tell which freed node the
sentinel's parent was, so that the number of states depends a little on the order
of the search. `cmp`, which `_lookup()` does not initialise, is a parameter of the
look-up; `LookupsFindTheirKeys` tries both signs.

### PromptText and Redisplay

Here text is made of characters, as it is the text that can go wrong. A
wide letter stands for all characters of more than one byte, a few names for the
control characters, and three pieces for the terminal's codes. `PromptText` has
`check_cupcodes()`, `process_new_output()`, the cooking of a prompt with all it calls
(`protect_or_cleanup()`, `unbackspace()`, `mark_invisible()`, `colourise()`), and
`colourless_strlen()`, from which `move_cursor_to_start_of_prompt()` works out how many
rows to go up (`RowsUp`). Of the codes to return from an alternate screen, rmcup and rmkx
(readline.c:998), only the first is modelled, and the regexp for unwanted codes
(string_utils.c:1290-1294) without intermediate bytes and ranges of final bytes: the pieces of
text have no such codes. The properties compare this with a small terminal
(`AfterWriting`), which is not rlwrap's.

`Redisplay` adds a line that is edited after such a prompt, and
`my_homegrown_redisplay()`, which shows passwords, and every line in a build with
HOMEGROWN_REDISPLAY (the one modelled). What the function keeps in static
variables and what is on the terminal's row are one record, `display`.
`foreign` marks a row that readline has painted itself; the property waits for the
next key then. `asserted` remembers whether any assertion in the function has failed, ever.
`RedisplayAssumption` asks for two columns at least: see Findings.

| action | code |
|---|---|
| `Writes`, `ReadBlock`, `ReadWithinEdit` | output, read in blocks that end anywhere |
| `StartEdit`, `AcceptLine` | cooking time; `my_accept_line()`, `line_handler()` |
| `self_insert`, `rubout`, ... | readline's commands, each with a redisplay |
| `Resize` | `adapt_tty_winsize()`, `wipe_textarea()` |

Run `prompt` (236 thousand states): any three pieces of output, of eight; terminals
of three and four columns; `-A`, `-A!` and `-p`; lines of up to four letters after
three prompts. Three pieces are one before, one within and one after a code or a
backspace; lines of four letters are longer than a row of three, so that there
may be more text at both ends. The terminal can position its cursor in a column
(`term_cursor_hpos`): without it the code is wrong, see Findings.

### History

readline's list under its two numberings, physical offsets and logical ones that start at
`history_base`; `my_add_history()`, which uses both; `rl_operate_and_get_next()`, which
keeps a position over an accepted line; the rewriting of the history by a hotkey's filter;
the file, over restarts and deaths. `recent` is the same history as it is meant, a
sequence of the last lines, and `expected` the line that should come next.

| action | code |
|---|---|
| `Types`, `previous_history`, `next_history` | readline's commands |
| `my_accept_line` | also `my_accept_line_and_forget()`, and passwords; `line_handler()` |
| `my_operate_and_get_next`, `StartEdit` | readline.c:340-355; the startup hook |
| `Hotkey` | `handle_hotkey2()` |
| `Output` | output during an edit |
| `Restart` | `cleanup_rlwrap_and_exit()`, or no clean-up, and `init_rlwrap()` |

Run `history` (48 thousand states): three rows and a pasted line of two, each `-D`, sizes 0, 2 and
3, with and without writing. A history of two is the least in which an entry is
dropped while another one is found to be a double; `history_base` goes up to three, so
that the numberings differ by more than one.

### Exit

How rlwrap starts and ends. `command` and `filter` are processes with the states the
kernel gives them (running, exiting, zombie, reaped); `tty` tells whether anyone holds the
command's terminal; `pending` is the set of signals that have been sent and not been
handled, so that two SIGCHLDs are one. `pc` runs through the loop (`"select"`,
`"wait"`) and the steps of `cleanup_rlwrap_and_exit()`, in which signals are not
blocked: a handler may run between any two, call clean-up again, or stop rlwrap.

| action | code |
|---|---|
| `fork_child`, `spawn_filter` | `main()` |
| `filters_last_words`, `FilterFails`, `read_pty`, `WaitForSIGCHLD`, `Timeout`, `StdinEOF` | all the ways out of `main_loop()` |
| `close_logfile`, `Nap`, `kill_filter`, `RestoreTerminal`, `ExitOrSuicide`, `suicide_by` | the steps of clean-up |
| `SIGCHLD`, `pass_on_signal`, `handle_sigTSTP`, `DefaultAction`, `ProgramError` | signals, with a handler and without |
| `Command...`, `TerminalLetGo`, `FilterDies`, `Signal` | command, filter and others |

Run `exit` (469 thousand states): four exit statuses, three signals from outside besides
SIGCHLDs; three are one to begin cleaning up, one to begin it anew and one to crash in it. The
code's naps (10 and 50 ms) are taken to be long enough for a command that is
exiting to become a zombie, which no code can guarantee. A crash within a handler,
debug builds, signals before `main()` has installed the handlers and those that
arrive within an exchange with the filter (`FilterProtocol` has them) are left out.
A double `fclose()` of the log file, which is undefined, either does no harm or
aborts. What the properties except is what the code does not promise: a
command that closes its terminal and lives on, one that outlives rlwrap, and an end by a signal
without handler.

## What is proved

All proofs hold for every value of the constants, under the assumptions named in
the modules.

`MainLoopProofs`: `EditorInv` is inductive (`EditorInvariant`), from which
`TypeCorrect`, `PromptAlwaysCurrent` and, as a property
of steps, `EditAlwaysSurvives` follow. None of these is inductive by itself. A
window change repaints `cooked_prompt`, which must not be NULL, so
`HandlerMatchesEdit` (a part of `EditorInv`) needs `PromptIsCurrent`; `save_rl_state()` removes the
handler only if nothing is saved already, so it needs `SavedOnce`; that the
cursor is restored where it was needs `CursorInLine`. The proof has a lemma for
each helper on the record `ui` (what it keeps of the parts of the invariant), a
lemma for each action, and one step per action in the final theorem.

The client's text, in the same module. The invariants are about what the terminal shows
and the prompt together, as saving and restoring the edited line moves text from one to the other:

- `TextInv` says, of every character that was read and neither let go nor lost with its prompt: it
  is on a finished line or in `raw_prompt` (`Kept`); the prompt is on the terminal while readline
  is active, and otherwise unless patient mode holds it back (`PromptVisible`); and it is not
  held back for ever, as its cooking is due (`CookingIsDue`). From it, `CookingAlwaysPending` and
  `GoodbyeIsSeen`.
- `InterruptInv`: nothing is lost in impatient mode, nor before there has been a signal or an end
  of file, which alone set `we_just_got_a_signal_or_EOF`. `NothingIsLost` follows from the two.
- `OrderInv` says that the terminal, and the terminal with the present row replaced
  by the prompt, show characters in the order in which they were read (`InOrder`);
  in patient mode, as long as the prompt is uncooked, both row and prompt after it.
  `ShownInOrder` is about the first part; without the others it is not inductive, as
  the row is erased and written anew from the prompt.

What they assume is what the code needs. `NeverDirect` (`-a`, or no raw mode): on
the time-out in direct mode, the loop takes the flag `prompt_is_still_uncooked` away
without cooking anything, so that a prompt may stay uncooked, and in patient mode
unseen; and what is shown directly may overtake a prompt that is held back, or belong
to a prompt that is shown again. In impatient mode, the default, a prompt is always shown first, so
`NothingIsLost` needs it in patient mode only, `CookingAlwaysPending` in both, and `GoodbyeIsSeen` in
neither. `ShownInOrder` leaves out suspension as well: after it the prompt is
printed once more, on a new row. That the command is not dead, in patient mode, is part of the
property itself.

The user's input, again in this module:

- `PasswordInv`: from the moment a password prompt is on its way to the moment the line
  is accepted, the client's echo is off, no newline is ahead of the password in queue or
  keyboard buffer, and the edit in progress is a hidden one. `PasswordsAreForgotten`
  follows; by itself it is about the history only.
- `KeysInv`: edited line, `output_queue`, the client's input and the keys not yet
  read share no letter, hold none twice, and together hold all that were typed; and
  no number exceeds those given out, so that the next letter is new. `NoKeyIsLost` states the
  same of the four as one text. Here and for `PasswordInv` no line discipline is excluded.
- `MainLoopImplementsLineRelay`: `MainLoop` refines `LineRelay`
  if the command never uses raw mode (or `-a` is given) and only letters and returns are
  typed (`LineByLine`). The invariant `RelayInv` adds to `EditorInv` that the
  edited line holds no newline and that the cursor is at its end: only then is a
  key that is inserted the last of the line, and the line that is accepted the first
  of what was typed. For all steps but reading a key, `EditorInv` already gives that the
  edited line stays as it is, so that only reading (`ReadStdinRelays`), typing and
  writing need an argument about sequences.

`FilterProofs`: calls of `pass_through_filter()` lie on each other, as handlers make
calls of their own between any two system calls of an interrupted one.

- `StackInvariant`: what may lie on what (`Nested`), who may be interrupted (`Blocked`), that
  the last words of a dead filter are shown by the last call (`LastWords`), and how deep
  the stack gets (`DepthOK`). `TypeInvariant` is part of it.
- `FilterInvariant`: the pipe from the filter holds messages of two items each (`Paired`); and
  of the messages that only one call at a time can be about, those on their way are about the call that
  waits, once, and are in one place: in the pipe to the filter, with it, or in the pipe
  from it (`OneAtATime`). What may have come between the two items of such a message is
  the work of `Begun`, `Cut`, `Complete` and `Answered`. `TheRightAnswer`,
  `EachSignalByItself` and `ErrorsAreShown` follow.
- `SyncInvariant` counts, as messages about signals need not be answered to the
  call that sent them: messages that have been begun and answers still in the pipe are as many as calls
  that wait. `NothingLeftOver` follows: where nobody waits, nothing is on its way.

Except for `StackInvariant` and `TypeInvariant` they assume that the filter answers each message once (`~rejects_twice`), which
Python filters do not; `python_reject` shows that `AnswersMatch` then does not hold.

`PromptProofs`: `ScreenInv` is inductive (`ScreenInvariant`): of the bytes rlwrap has kept,
the last code, if there is one, says what rlwrap knows already; these bytes and those that are
not yet read, without padding, tell it the rest; and no code has been begun that
is not complete. `AlternateScreenAlwaysKnown` is the case with nothing to read. Four lemmas
carry the steps: `SearchDecides`, that the search (a recursive function, unfolded by induction
on numbers) ends with the last code; `ReadingDecides`, that the bytes `LastBytes`
keeps are enough for a code that is cut in two, and do no harm when they hold a whole code, which is
then found again; `WritingDecides`, for the command; and `PaddingOfPieces`, that padding
may be removed before or after text is cut. `CodesAssumption` says what they need of
terminal and command: text that is not a code neither holds one nor ends with the beginning of one,
and codes do not begin within codes. Without it no program could do what `check_cupcodes()` does.

In the same module, `RowInvariant` and `LineIsAlwaysShown`, about `Redisplay`. `RowInv` says that
`line_start`, which the function keeps from one call to the next, is 0 or lies past the
prompt that is being edited after: its first assertion. It holds although the prompt changes
during an edit, as `save_rl_state()` and `restore_rl_state()` redisplay with the cursor at the
beginning, which resets `line_start`. `CursorIsOnRow` is the arithmetic (a prompt and line of
any length, a terminal of two columns or more): wherever the row begins, the cursor is on it, and it is full or
shows the end. `Redisplayed` puts this together with what is printed, and with the shortcut that prints
nothing: `RowShown` adds to `LineIsShown` that `previous_line` is what is on the row, unless readline
has painted it. The rest is that text stays text (`CookedType`, with a lemma for every
loop of `PromptText`: `ReplacedLoop`, `CellsLoop`, `UnwrittenSkips`, `UnbackspaceLoop`). `LineIsAlwaysShown` assumes
that the terminal can put the cursor into a column (`term_cursor_hpos`), and `PromptFits`: no wide character of
a prompt lies past the columns a row shows when the line goes on to the right. It holds
throughout run `prompt`; without it `LineIsShown` is false (see Findings).

`TextProofs`, which extends it: `PromptStartAlwaysFound` and `TextAlwaysKept`, about the text of a prompt of
any length. The state is the smaller part: by `CookedInvariant` the cooked prompt is always
`Cooked(raw_prompt)`. The rest is about the loops that scan a text, two or
three at a time, each step of one against a step of the other:

- A text is `Neat` if START, END and ESC stand only at colour codes that have been set off.
  `mark_invisible()` leaves it alone (`NeatMarked`); `unbackspace()`, which rubs out codes
  whole, leaves it neat and with the cells that `colourless_strlen()` counts
  (`UnbackspaceNeat`); and these are the cells of the characters that a terminal shows
  (`NeatFills`).
- `protect_or_cleanup()` makes a text neat if each ESC in it begins a code that is complete
  (`CodesProtected`: the first pass sets colours off, the second removes what is left), and
  keeps its cells if they are all colours (`ColoursProtected`). Likewise `mark_invisible()`
  for colours that have not been set off (`CodesMarked`), and `colourise()` (`PaintedCells`).
- The terminal has its cursor as many cells from the beginning of the prompt as
  `colourless_strlen()` counts, as long as backspaces stay within the first row
  (`CursorPlaced`); so the integer division of `move_cursor_to_start_of_prompt()` gives the
  row, also when the last column has just been filled (`RowsRight`).

Their hypotheses, `CodesAreWhole` and `CodesAreColours`, leave out prompts for which the
properties are false in this code: one with readline's own marks in it (`Unmarked`); one
with a colour code that is not set off and runs into an "m" (`CodesEnd`); with `-A`, one in
which a code is cut off (`Complete`; for both see Findings); and, for the text, one with the
code that leaves the alternate screen, as what stands before that is removed on purpose. They
are asked of the one state in which the property is, not of those before it. In run `prompt`
they hold wherever the properties say anything: TLC finds that the premise of each implies them.

`HistoryProofs`: `HistInv` is inductive (`HistoryInvariant`). Its parts say that the list is
`recent` and not longer than `histsize` (`ListIsRight`), that the file holds rows only if the list does
(`FileIsRight`; otherwise a session that writes nothing would leave an old history behind),
what the input line may be (`LineIsRight`), and that the offset noted by
operate-and-get-next is that of the row to come (`Fetching`). `HistoryAlwaysRecent` and
`NextLineAlwaysFetched` follow. The loops of the code are recursive functions, and each has a
lemma that unfolds it, by induction on numbers: `Reading`, `Sifting`, `Comparisons`, `AddingALine`.
What carries the proof is `AddingARow`: with each policy the loop in `my_add_history()`, which
removes entries by physical offset and finds them by logical offset from the end to the beginning, leaves
just the rows that are not doubles, in their order; and `NextStays`, that the next entry keeps its
logical offset when a row is added, whether an entry is dropped at the front
or a double at the end. `RowsAssumption` excludes empty rows, and a filter that makes a row
empty: readline does not read an empty entry back from the file.

`WinsizeProofs`: `WinsizeInv` is inductive (`WinsizeInvariant`): each link of the
chain of sizes holds, or a signal that mends it is pending. `NoResizeOverlooked`
follows; by itself it is not inductive, as it says nothing while signals are under
way. What `adapt_tty_winsize()` contributes is one lemma for its three callers.

`PselectProofs`: with `Base` and `Short`, which say what a handler that has run leaves
behind at each point of the call, `HandlersAlwaysNoticed`, `HandlersCutWaitShort`
and the refinement `PselectImplementsAtomicWait`, for every time-out, NULL included. The
last two except the moment `TooLate`, in which they do not hold (see Findings).

`ExitProofs`: `ExitInv` is inductive (`ExitInvariant`): what rlwrap has noted
(`commands_exit_status`, `seen_EOF`, the filter's death) is true of the processes, or a SIGCHLD that will tell it is
pending (`CommandKnown`, `TerminalKnown`, `CleanUpKnows`), and from `tcsetattr()` to the
end only a stop changes the terminal (`TerminalIsLast`). `StatusIsPassedOn` and `TerminalIsTidy` follow.

Before it was proved, each of these invariants was checked by TLC as an invariant of
the module's run. Text is of any length in all of them: that a text has a last
newline is an argument by the greatest element of a set of numbers, for which the
library's well-founded minimum is enough.

Only model-checked:

- liveness (`RlwrapFollowsCommand`, `PromptIsCooked`, `InputGetsThrough`,
  `CallEnds`, `SignalsSettle`, `CommandLearnsSize`, `PromptComesBack`), as fairness and
  ENABLED are out of the prover's reach;
- `Completion` (`RedBlackTrees`, `LookupsFindTheirKeys`, and that it implements `WordList`):
  its trees are RECURSIVE operators, which the prover cannot take.

## Findings

Disagreements of the code with its documentation that a run shows (TLC must find it
violated):

- `python_reject` / `AnswersMatch`: a Python filter that rejects a prompt answers
  twice, as `next` does nothing in Python (rlwrapfilter.py:632). With
  `rejects_twice = FALSE`, as in the Perl library, `AnswersMatch` holds (run `filter`).
- `deferred_size` / `DeferredSizeIsPassedOn`: with `--always-readline` a change of
  size is put off until a line is accepted, and then `adapt_tty_winsize()`
  (readline.c:275) finds that nothing has changed, as the call that put it off has
  stored the new size already. The command gets a SIGWINCH, but never the size.

Met on the way, and either part of the models as the code has it, or excepted from
the properties; without a run of their own:

- *main loop*: in patient mode an unfinished last line of a dying command is never
  shown (`ImpatientGoodbyeIsShown` holds in impatient mode, the default, only), though
  `child_died()` stays "so that we will see childs good-bye talk" (signals.c:389). Patient mode also
  loses the beginning of a line: if "hel" is held back, a signal comes, and then "lo" with
  a newline, the "hel" is thrown away, as if it had been displayed, and only "lo" appears
  (main.c:509-522; `lost` in `NothingLost`). And if the command goes raw while text is held back, the
  time-out takes it for cooked without showing it (excepted by `NeverDirect`; in impatient
  mode the text has been shown).
- *waiting*: `zero_select_timeout()` (utils.c:68-73) comes too late for a `select()` that has
  already been given the NULL pointer and does not wait yet: an idle rlwrap (main.c:344) then
  sleeps on after a signal (`TooLate`, `SleepsTooLate` in `Pselect`).
- *filter*: a filter without a signal handler is consulted about signals, as the test
  is `tag < MAX_INTERESTING_TAG` (filter.c:222), and that is itself the tag of signals.
  `user_frustration_signals` has no 0 at its end (filter.c:214), which
  `unblock_signals()` looks for.
- *window size*: after a suspension in direct mode a change of size is overlooked
  (`missed` in `Winsize`, signals.c:230); `kill(-command_pid, SIGWINCH)` with
  `command_pid` 0 signals rlwrap's own process group (readline.c:276).
- *completion*: with `-i`, a file name that differs from a word in case only is not
  offered, though "filename completion is always case-sensitive, even with the
  -i option" (rlwrap.man.in:85-86): the scratch tree takes them for the same (completion.c:1596;
  `FileNameIsLost`, `OfferWithoutIt` in `Completion`).
- *prompt*: with `-p`, `mark_invisible()` takes a visible "m" at the beginning of a
  prompt for the end of a code and does not count it, as it copies any number of m
  (string_utils.c:750; its comment at 696 has `m?`; `CodesEnd`, the runs have no such prompt);
  with `-A`, a colour code with a backspace in it is neither protected nor removed, but
  `unbackspace()` makes a whole code of it, which is counted as text if the prompt has
  another, protected one (`Complete`);
  `cook_prompt_if_necessary()` cuts at the first rmcup, where its comment says the last
  (readline.c:1015); `wipe_textarea()` measures a prompt that has not been marked
  (signals.c:343).
- *redisplay*: without `term_cursor_hpos` the cursor is put in the wrong column when
  the line is scrolled (readline.c:525; the comment at 484-491 has it right);
  `previous_line` is not forgotten when readline repaints the row; on a terminal of one
  column the row begins past the cursor, and an assertion fails; when a prompt with wide
  characters goes on past the row, its bytes are cut at a number of columns, and the row
  is not full, or its last character is half a one (`PromptFits`).
- *history*: the filter gets the history with a newline at the end, and its empty answer
  adds an empty entry (RlwrapFilter.pm:659-668), so that deleting everything leaves one
  entry, which is not written: at the next start the old history is back. Output during
  an edit moves the position to the end, so that operate-and-get-next then does not "fetch
  the next line relative to the current line" (rlwrap.man.in:396). With `-D 2` it does not
  remember the line, which the page says in other words ("Don't use this").
- *exit*: SIGHUP is not forwarded (signals.c:100; rlwrap.man.in:441 lists it); a
  stop after clean-up has restored the terminal sets it up again (`late` in `Exit`);
  `kill_filter()`'s assertion fails when the filter's SIGCHLD comes just before it;
  the log file may be closed twice (utils.c:455).

## Not modelled

Option parsing, opening of ptys (`ptytty.c`), look-up of terminal capabilities,
the debugging malloc, logging and the wording of messages: input and output
without a protocol, or tables. Editing in an external editor, and `search_and_replace()`,
which serves it. The alarm behind the filter protocol's patience, and pipelines of
filters, which are filters themselves. The wait channel (`dont_wrap_command_waits()`)
is a value that changes at will. The example filters are examples; the protocol takes
any filter. `PROJECT.json` gives the reason for each under "components".

## Checking

    tlc -config dialogue.cfg MCMainLoop      # likewise for the other .cfg files
    tlapm MainLoopProofs.tla                 # likewise PselectProofs, WinsizeProofs, FilterProofs,
                                             # PromptProofs, TextProofs, HistoryProofs, ExitProofs

"mutants" in `PROJECT.json` names, for each property, a plausible slip in the
code (an operator marked `Mutant` next to the one it would replace) that violates it.
