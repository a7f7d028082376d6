------------------------------- MODULE Winsize -------------------------------
(***************************************************************************)
(* How a new size of the terminal reaches the command: adapt_tty_winsize()  *)
(* and its three callers, the SIGWINCH handler, the SIGTSTP handler when    *)
(* rlwrap wakes up (src/src/signals.c) and line_handler()                   *)
(* (src/src/readline.c), which is to make good what --always-readline has    *)
(* put off.                                                                *)
(*                                                                         *)
(* SIGWINCH is blocked but in select(), and pending at most once. Terminal, *)
(* command and user go on while a handler runs, so that the handler is two  *)
(* steps: look at the sizes, and pass the signal on.                       *)
(***************************************************************************)
EXTENDS Naturals

CONSTANTS
  Sizes,       \* sizes a terminal may have
  MaxResizes,  \* bound: number of times the user resizes the terminal
  MaxChanges   \* bound: number of times the command changes its mode or wait status

ASSUME WinsizeAssumption ==
  /\ Sizes \subseteq Nat \ {0}
  /\ MaxResizes \in Nat /\ MaxChanges \in Nat

VARIABLES
  always_readline,               \* option -a
  commands_children_not_wrapped, \* option -N
  pc,               \* "select", "pass_on" (in the handler), "stopped", "exited"
  tty,              \* the size of rlwrap's terminal
  winsize,          \* the global: the size rlwrap knows of
  pty,              \* the size of the command's pty
  command,          \* [alive, pid, size, winch, raw, waits]: see TypeOK
  deferred,         \* deferred_adapt_commands_window_size
  within_line_edit,
  received_WINCH,
  erased,           \* the prompt has been wiped and not painted again
  winch,            \* SIGWINCH is pending for rlwrap
  missed,           \* rlwrap has ignored a new size on waking up
  resizes, changes  \* counters for the bounds

options == <<always_readline, commands_children_not_wrapped>>
counters == <<resizes, changes>>
vars == <<options, pc, tty, winsize, pty, command, deferred, within_line_edit,
          received_WINCH, erased, winch, missed, counters>>

-----------------------------------------------------------------------------
(* The command waits for a child of its own (or uses the alternate screen), *)
(* as seen from its wait channel at this moment.                           *)
dont_wrap_command_waits ==
  commands_children_not_wrapped /\ (~command.pid \/ command.waits)

skip_rlwrap ==
  \/ dont_wrap_command_waits
  \/ ~always_readline /\ command.pid /\ command.raw

Changed == tty # winsize

\* Mutant: the new size is always kept until a line is accepted.
AlwaysDefers == Changed /\ ~dont_wrap_command_waits

Defers == Changed /\ always_readline /\ ~dont_wrap_command_waits

(* Outside a line edit the prompt is wiped, and painted when the loop has    *)
(* seen received_WINCH; within one, readline paints it at once.             *)
Wipes == Changed /\ ~within_line_edit /\ ~skip_rlwrap

(* adapt_tty_winsize(), less what its callers do with "deferred". The kernel *)
(* signals the processes behind a pty whose size changes; killed says that  *)
(* rlwrap does so as well.                                                 *)
adapt_tty_winsize(killed) ==
  /\ winsize' = tty
  /\ pty' = IF Changed /\ ~Defers THEN tty ELSE pty
  /\ received_WINCH' = (received_WINCH \/ Wipes)
  /\ erased' = (erased \/ Wipes)
  /\ missed' = FALSE
  /\ command' = [command EXCEPT !.winch = @ \/ killed \/ pty' # pty]

-----------------------------------------------------------------------------
(* rlwrap *)

\* Mutant: SIGWINCH is passed on also if the size has not changed.
HandleAndPassOn ==
  /\ pc = "select" /\ winch
  /\ adapt_tty_winsize(FALSE)
  /\ deferred' = (deferred \/ Defers)
  /\ winch' = FALSE
  /\ pc' = "pass_on"
  /\ UNCHANGED <<options, tty, within_line_edit, counters>>

(* The handler of SIGWINCH. *)
WindowChanges ==
  /\ pc = "select" /\ winch
  /\ adapt_tty_winsize(FALSE)
  /\ deferred' = (deferred \/ Defers)
  /\ winch' = FALSE
  /\ pc' = IF Changed THEN "pass_on" ELSE "select"
  /\ UNCHANGED <<options, tty, within_line_edit, counters>>

(* Its end: whether the command waits is asked a second time. *)
PassOn ==
  /\ pc = "pass_on"
  /\ command' = [command EXCEPT !.winch =
                   @ \/ (command.pid /\ (~always_readline \/ dont_wrap_command_waits))]
  /\ pc' = "select"
  /\ UNCHANGED <<options, tty, winsize, pty, deferred, within_line_edit, received_WINCH,
                 erased, winch, missed, counters>>

\* Mutant: no line edit is started if the command has gone to direct mode meanwhile.
StartEditIfWrapped ==
  /\ pc = "select" /\ received_WINCH
  /\ received_WINCH' = FALSE
  /\ within_line_edit' = (within_line_edit \/ ~skip_rlwrap)
  /\ erased' = (erased /\ skip_rlwrap)
  /\ UNCHANGED <<options, pc, tty, winsize, pty, command, deferred, winch, missed, counters>>

(* After select(), before anything else: the handler wants a line edit. It   *)
(* is started even if the command has gone to direct mode meanwhile.        *)
StartEditAfterWINCH ==
  /\ pc = "select" /\ received_WINCH
  /\ within_line_edit' = TRUE /\ received_WINCH' = FALSE /\ erased' = FALSE
  /\ UNCHANGED <<options, pc, tty, winsize, pty, command, deferred, winch, missed, counters>>

(* A key is typed, or a prompt is cooked. *)
StartEdit ==
  /\ pc = "select" /\ ~received_WINCH
  /\ ~within_line_edit /\ ~skip_rlwrap
  /\ within_line_edit' = TRUE /\ erased' = FALSE
  /\ UNCHANGED <<options, pc, tty, winsize, pty, command, deferred, received_WINCH, winch,
                 missed, counters>>

(* The user accepts the line. If the command is dead and buried, kill(-0)    *)
(* reaches rlwrap's own process group instead.                             *)
AcceptLine ==
  /\ pc = "select" /\ ~received_WINCH
  /\ within_line_edit /\ ~skip_rlwrap
  /\ within_line_edit' = FALSE
  /\ IF deferred
     THEN /\ adapt_tty_winsize(command.pid)
          /\ winch' = (winch \/ ~command.pid)
          /\ deferred' = FALSE
     ELSE UNCHANGED <<winsize, pty, received_WINCH, erased, missed, command, winch, deferred>>
  /\ UNCHANGED <<options, pc, tty, counters>>

(* SIGTSTP. A pending SIGWINCH is let in before rlwrap goes to sleep. *)
Suspend ==
  /\ pc = "select" /\ ~winch
  /\ pc' = "stopped"
  /\ UNCHANGED <<options, tty, winsize, pty, command, deferred, within_line_edit,
                 received_WINCH, erased, winch, missed, counters>>

\* Mutant: the window size is not looked at when rlwrap wakes up.
ResumeAsBefore ==
  /\ pc = "stopped"
  /\ pc' = "select"
  /\ UNCHANGED <<options, tty, winsize, pty, command, deferred, within_line_edit,
                 received_WINCH, erased, winch, missed, counters>>

(* In direct mode the handler returns early, without a look at the size. *)
Resume ==
  /\ pc = "stopped"
  /\ pc' = "select"
  /\ IF ~within_line_edit /\ skip_rlwrap
     THEN /\ missed' = (missed \/ Changed)
          /\ UNCHANGED <<winsize, pty, command, deferred, received_WINCH, erased>>
     ELSE /\ adapt_tty_winsize(FALSE)
          /\ deferred' = (deferred \/ Defers)
  /\ UNCHANGED <<options, tty, within_line_edit, winch, counters>>

ChildDied ==
  /\ pc = "select" /\ command.pid /\ ~command.alive
  /\ command' = [command EXCEPT !.pid = FALSE]
  /\ UNCHANGED <<options, pc, tty, winsize, pty, deferred, within_line_edit,
                 received_WINCH, erased, winch, missed, counters>>

Exit ==
  /\ pc = "select" /\ ~received_WINCH /\ ~command.alive
  /\ pc' = "exited"
  /\ UNCHANGED <<options, tty, winsize, pty, command, deferred, within_line_edit,
                 received_WINCH, erased, winch, missed, counters>>

Rlwrap ==
  \/ WindowChanges \/ PassOn \/ StartEditAfterWINCH \/ StartEdit \/ AcceptLine
  \/ Suspend \/ Resume \/ ChildDied \/ Exit

-----------------------------------------------------------------------------
(* The user and the command *)

(* A suspended rlwrap is not in the terminal's foreground and gets no signal. *)
Resize ==
  /\ pc # "exited" /\ resizes < MaxResizes
  /\ tty' \in Sizes \ {tty}
  /\ winch' = (winch \/ pc # "stopped")
  /\ resizes' = resizes + 1
  /\ UNCHANGED <<options, pc, winsize, pty, command, deferred, within_line_edit,
                 received_WINCH, erased, missed, changes>>

(* The command looks at its size. Some then set it as well, which on some    *)
(* systems sends rlwrap a SIGWINCH (signals.c:266).                         *)
CommandAdapts ==
  /\ pc # "exited" /\ command.alive /\ command.winch
  /\ command' = [command EXCEPT !.size = pty, !.winch = FALSE]
  /\ winch' \in {winch, pc # "stopped"}
  /\ UNCHANGED <<options, pc, tty, winsize, pty, deferred, within_line_edit,
                 received_WINCH, erased, missed, counters>>

CommandChanges ==
  /\ pc # "exited" /\ command.alive /\ changes < MaxChanges
  /\ \/ command' = [command EXCEPT !.raw = ~@]
     \/ command' = [command EXCEPT !.waits = ~@]
  /\ changes' = changes + 1
  /\ UNCHANGED <<options, pc, tty, winsize, pty, deferred, within_line_edit,
                 received_WINCH, erased, winch, missed, resizes>>

CommandExits ==
  /\ pc # "exited" /\ command.alive
  /\ command' = [command EXCEPT !.alive = FALSE]
  /\ UNCHANGED <<options, pc, tty, winsize, pty, deferred, within_line_edit,
                 received_WINCH, erased, winch, missed, counters>>

(* init_terminal() asks for the size before my_pty_fork() gives it to the pty. *)
Init ==
  /\ always_readline \in BOOLEAN /\ commands_children_not_wrapped \in BOOLEAN
  /\ pc = "select"
  /\ tty \in Sizes /\ winsize = tty /\ pty = winsize
  /\ command = [alive |-> TRUE, pid |-> TRUE, size |-> pty, winch |-> FALSE,
                raw |-> FALSE, waits |-> FALSE]
  /\ deferred = FALSE /\ within_line_edit = FALSE /\ received_WINCH = FALSE
  /\ erased = FALSE /\ winch = FALSE /\ missed = FALSE
  /\ resizes = 0 /\ changes = 0

World == Resize \/ CommandAdapts \/ CommandChanges \/ CommandExits

Next == Rlwrap \/ World

Spec == Init /\ [][Next]_vars

(* rlwrap's handlers and its loop run, rlwrap is resumed, and the command   *)
(* handles its signals; nobody need type, resize or exit. The loop gets its *)
(* turn whenever a handler has run, so not even a user who suspends rlwrap  *)
(* again and again can keep it from running.                               *)
FairSpec ==
  /\ Spec
  /\ WF_vars(WindowChanges) /\ WF_vars(PassOn) /\ SF_vars(StartEditAfterWINCH)
  /\ WF_vars(Resume) /\ WF_vars(CommandAdapts)

-----------------------------------------------------------------------------
TypeOK ==
  /\ always_readline \in BOOLEAN /\ commands_children_not_wrapped \in BOOLEAN
  /\ pc \in {"select", "pass_on", "stopped", "exited"}
  /\ tty \in Sizes /\ winsize \in Sizes /\ pty \in Sizes
  /\ command \in [alive : BOOLEAN, \* it runs
                  pid   : BOOLEAN, \* command_pid is not 0: it has not been waited for
                  size  : Sizes,   \* the size it works with
                  winch : BOOLEAN, \* SIGWINCH is pending for it
                  raw   : BOOLEAN, \* it wants single keys
                  waits : BOOLEAN] \* it waits for a child, or uses the alternate screen
  /\ deferred \in BOOLEAN /\ within_line_edit \in BOOLEAN
  /\ received_WINCH \in BOOLEAN /\ erased \in BOOLEAN
  /\ winch \in BOOLEAN /\ missed \in BOOLEAN
  /\ resizes \in 0 .. MaxResizes /\ changes \in 0 .. MaxChanges

(* The links of the chain from the terminal to the command. *)
RlwrapKnows == tty = winsize \/ winch \/ missed \/ pc \in {"stopped", "exited"}
PtyAdapted  == pty = winsize \/ always_readline
CommandTold == pty = command.size \/ command.winch

Quiet == ~winch /\ ~command.winch /\ pc = "select"

(* Without --always-readline no change of size is overlooked, however the   *)
(* changes, the signals they coalesce to and a suspension are interleaved:  *)
(* when no SIGWINCH is under way the command works with the size of the     *)
(* terminal. The exception is a change while rlwrap was suspended in direct *)
(* mode, as handle_sigTSTP() then returns before adapt_tty_winsize().       *)
NoResizeOverlooked ==
  Quiet /\ ~missed /\ ~always_readline => command.size = tty

(* The inductive form of the same: every link of the chain holds, or a      *)
(* signal that mends it is under way. A wiped prompt waits for the loop.    *)
WinsizeInv ==
  /\ TypeOK
  /\ RlwrapKnows /\ PtyAdapted /\ CommandTold
  /\ erased => received_WINCH

(* "We get a SIGWINCH again, thus getting stuck in a loop" (signals.c:266)   *)
(* does not happen: a command that sets its window size itself and thereby  *)
(* signals rlwrap is not signalled in return.                              *)
SignalsSettle == <>[](pc = "exited" \/ (~winch /\ pc # "pass_on"))

(* The command learns of the last change of size. *)
CommandLearnsSize ==
  <>[](\/ command.size = tty
       \/ always_readline \/ missed
       \/ ~command.alive \/ pc = "exited")

(* A prompt wiped by a handler is painted again. *)
PromptComesBack == erased ~> (~erased \/ pc = "exited")

(* "Whether we have to adapt clients winsize when accepting a line" (about   *)
(* deferred_adapt_commands_window_size, signals.c:27): once that has been   *)
(* done, the command's pty has the size of the terminal. It has not: to     *)
(* adapt_tty_winsize() the size has not changed since it was put off.      *)
DeferredSizeIsPassedOn ==
  [][deferred /\ ~deferred' /\ command.alive => pty' = winsize']_vars
=============================================================================
