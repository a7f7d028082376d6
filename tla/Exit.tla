-------------------------------- MODULE Exit ---------------------------------
(***************************************************************************)
(* How rlwrap starts, notices that command or filter has died, and ends:    *)
(* main(), fork_child() and cleanup_rlwrap_and_exit() (src/src/main.c), the  *)
(* signal handlers and suicide_by() (src/src/signals.c), spawn_filter() and  *)
(* kill_filter() (src/src/filter.c), myerror(FATAL) (src/src/utils.c).       *)
(*                                                                         *)
(* Signals are blocked but inside my_pselect() (which handles all that are  *)
(* pending before it reports anything to read) and in the clean-up. There   *)
(* they are handled as soon as they arrive, so a step of rlwrap needs that  *)
(* none is pending. A handler runs with every signal blocked: one step.     *)
(* A dying command closes its terminal before it becomes a zombie;          *)
(* ASSUMPTION (of the code too): it does so within the naps it is granted.  *)
(***************************************************************************)
EXTENDS Naturals, FiniteSets

CONSTANTS
  Statuses,    \* how a command may end: values of its exit status
  MaxSignals   \* bound: number of signals rlwrap gets from others

\* "killed" is any status of a command that was ended by a signal.
ASSUME StatusAssumption == {"exit_0", "exit_1", "killed"} \subseteq Statuses
ASSUME BoundAssumption == MaxSignals \in Nat

VARIABLES
  eof,       \* what read() on an abandoned pty gives: "zero" or "EIO"
  pc,        \* where rlwrap is: see Unblocked
  status,    \* argument of cleanup_rlwrap_and_exit()
  command,   \* [state: "none" "runs" "exiting" "zombie" "reaped", status]
  tty,       \* the command's terminal: "open", "closed", "abandoned" (by a living command)
  filter,    \* "none" "runs" "sorry" (exec failed) "zombie" "buried" "reaped"
  commands_exit_status,
  seen_EOF, log_fp, terminal, pending,
  error,     \* why cleaning up began: "none" "start" "filter" "pty" "crash"
  outlived,  \* the command was not yet dying when cleaning up began
  late,      \* rlwrap was stopped after it had restored the terminal
  ended,     \* what rlwrap's parent sees: NULL, a status or "signal"
  signals    \* counter for the bound

system == <<eof, command, tty>>
vars == <<eof, pc, status, command, tty, filter, commands_exit_status, seen_EOF,
          log_fp, terminal, pending, error, outlived, late, ended, signals>>

-----------------------------------------------------------------------------
command_pid == command.state \in {"runs", "exiting", "zombie"}
command_is_dead == command.state = "reaped"
\* kill_filter() may bury a zombie itself, and leaves filter_pid alone.
filter_pid == filter \in {"runs", "sorry", "zombie", "buried"}
filter_is_dead == filter = "reaped"

Unblocked == {"select", "cleanup", "nap", "kill_filter", "terminal", "exit", "suicide"}
Undisturbed == pending = {}
Alive == pc # "gone"
\* The assumption on naps: a command that is exiting now is a zombie then.
Napped == command.state # "exiting"

(* rlwrap's own end, as its parent sees it. *)
Gone(how) == pc' = "gone" /\ ended' = how

(* myerror(FATAL) and cleanup_rlwrap_and_exit(), which a handler may call   *)
(* while it is running already.                                            *)
cleanup_rlwrap_and_exit(s, why) ==
  /\ pc' = "cleanup" /\ status' = s
  /\ error' = IF error = "none" THEN why ELSE error
  /\ outlived' = (outlived \/ (error = "none" /\ pc \notin Unblocked \ {"select"}
                               /\ command.state \in {"none", "runs"}))

\* Mutant: the terminal is left as it is.
PoliteExcuse == terminal' = terminal /\ Gone("exit_1") /\ error' = "crash"

handle_program_error_signal ==
  terminal' = "saved" /\ Gone("exit_1") /\ error' = "crash"

-----------------------------------------------------------------------------
(* Start-up. Without a filter, "none" is the spawned one.                   *)
fork_child ==
  /\ pc = "fork"
  /\ \/ /\ command' = [command EXCEPT !.state = "runs"] /\ pc' = "spawn"
        /\ UNCHANGED <<status, error, outlived>>
     \/ cleanup_rlwrap_and_exit("exit_1", "start") /\ UNCHANGED command
  /\ UNCHANGED <<eof, tty, filter, commands_exit_status, seen_EOF, log_fp, terminal,
                 pending, late, ended, signals>>

spawn_filter ==
  /\ pc = "spawn"
  /\ terminal' = "cbreak"
  /\ \/ filter' \in {"none", "runs", "sorry"} /\ pc' = "select"
        /\ UNCHANGED <<status, error, outlived>>
     \/ cleanup_rlwrap_and_exit("exit_1", "start") /\ UNCHANGED filter
  /\ UNCHANGED <<system, commands_exit_status, seen_EOF, log_fp, pending, late, ended, signals>>

-----------------------------------------------------------------------------
(* What main_loop() does when my_pselect() returns with nothing handled.    *)
Selected == pc = "select" /\ Undisturbed

LoopSteps == UNCHANGED <<system, filter, commands_exit_status, log_fp, terminal,
                         pending, late, ended, signals>>

filters_last_words ==
  /\ pc = "select" /\ filter_is_dead
  /\ cleanup_rlwrap_and_exit("exit_1", "filter")
  /\ LoopSteps /\ UNCHANGED seen_EOF

\* A text goes through a filter that cannot answer.
FilterFails ==
  /\ Selected /\ filter \in {"sorry", "zombie"}
  /\ cleanup_rlwrap_and_exit("exit_1", "filter")
  /\ LoopSteps /\ UNCHANGED seen_EOF

read_pty ==
  /\ Selected /\ ~filter_is_dead /\ tty # "open"
  /\ \/ /\ command_is_dead \/ eof = "zero"
        /\ cleanup_rlwrap_and_exit("exit_0", "none") /\ UNCHANGED seen_EOF
     \/ /\ ~command_is_dead /\ eof = "EIO" /\ ~seen_EOF
        /\ seen_EOF' = TRUE /\ pc' = "wait" /\ UNCHANGED <<status, error, outlived>>
     \/ /\ command_pid /\ eof = "EIO" /\ seen_EOF
        /\ cleanup_rlwrap_and_exit("exit_1", "pty") /\ UNCHANGED seen_EOF
  /\ LoopSteps

\* mymicrosleep(50), with signals still blocked.
WaitForSIGCHLD ==
  /\ pc = "wait" /\ Napped
  /\ pc' = "select"
  /\ LoopSteps /\ UNCHANGED <<status, seen_EOF, error, outlived>>

\* Someone else holds the dead command's terminal: time-out.
Timeout ==
  /\ Selected /\ ~filter_is_dead /\ command_is_dead /\ tty = "open"
  /\ cleanup_rlwrap_and_exit("exit_0", "none")
  /\ LoopSteps /\ UNCHANGED seen_EOF

StdinEOF ==
  /\ Selected /\ ~filter_is_dead
  /\ cleanup_rlwrap_and_exit("exit_0", "none")
  /\ LoopSteps /\ UNCHANGED seen_EOF

-----------------------------------------------------------------------------
(* cleanup_rlwrap_and_exit(), where signals are handled between the steps.  *)
Cleaning == UNCHANGED <<system, commands_exit_status, seen_EOF, outlived, late, signals>>

(* close_logfile() leaves log_fp alone: a second fclose() is undefined, and *)
(* may be harmless or abort().                                             *)
close_logfile ==
  /\ pc = "cleanup" /\ Undisturbed
  /\ \/ pc' = "nap" /\ log_fp' = (IF log_fp = "open" THEN "closed" ELSE log_fp)
        /\ UNCHANGED <<terminal, ended, error>>
     \/ log_fp = "closed" /\ handle_program_error_signal /\ UNCHANGED log_fp
  /\ Cleaning /\ UNCHANGED <<status, filter, pending>>

Nap ==
  /\ pc = "nap" /\ Undisturbed /\ Napped
  /\ pc' = IF filter_pid THEN "kill_filter" ELSE "terminal"
  /\ Cleaning
  /\ UNCHANGED <<status, filter, log_fp, terminal, pending, error, ended>>

(* Its assertion is about filter_pid, which a handler may have reset.       *)
kill_filter ==
  /\ pc = "kill_filter" /\ Undisturbed
  /\ \/ /\ ~filter_pid /\ handle_program_error_signal
        /\ UNCHANGED <<filter, pending>>
     \/ /\ filter \in {"runs", "sorry"}
        /\ filter' = "zombie" /\ pending' = {"CHLD"} /\ pc' = "terminal"
        /\ UNCHANGED <<terminal, error, ended>>
     \/ /\ filter \in {"zombie", "buried"}
        /\ filter' = "buried" /\ pc' = "terminal"
        /\ UNCHANGED <<terminal, error, ended, pending>>
  /\ Cleaning /\ UNCHANGED <<status, log_fp>>

RestoreTerminal ==
  /\ pc = "terminal" /\ Undisturbed
  /\ terminal' = "saved" /\ pc' = "exit"
  /\ Cleaning /\ UNCHANGED <<status, filter, log_fp, pending, error, ended>>

ExitOrSuicide ==
  /\ pc = "exit" /\ Undisturbed
  /\ IF status # "exit_0" THEN Gone(status)
     ELSE IF commands_exit_status = "killed" THEN pc' = "suicide" /\ UNCHANGED ended
     ELSE Gone(commands_exit_status)
  /\ Cleaning /\ UNCHANGED <<status, filter, log_fp, terminal, pending, error>>

suicide_by ==
  /\ pc = "suicide" /\ Undisturbed
  /\ Gone("killed")
  /\ Cleaning /\ UNCHANGED <<status, filter, log_fp, terminal, pending, error>>

-----------------------------------------------------------------------------
(* Handlers. One SIGCHLD, one child: the other may have died as well.       *)
Reap ==
  /\ command' = [command EXCEPT !.state = "reaped"]
  /\ commands_exit_status' = command.status
  /\ UNCHANGED filter

ReapFilter == filter' = "reaped" /\ UNCHANGED <<command, commands_exit_status>>

\* Mutant: the filter is looked at first.
FilterFirst ==
  CASE filter \in {"zombie", "buried"} -> ReapFilter
    [] filter \notin {"zombie", "buried"} /\ command.state = "zombie" -> Reap
    [] OTHER -> UNCHANGED <<command, filter, commands_exit_status>>

child_died ==
  CASE command.state = "zombie" -> Reap
    [] command.state # "zombie" /\ filter \in {"zombie", "buried"} -> ReapFilter
    [] OTHER -> UNCHANGED <<command, filter, commands_exit_status>>

Handled(sig) == pending' = pending \ {sig} /\ UNCHANGED <<eof, tty, seen_EOF, log_fp, signals>>

SIGCHLD ==
  /\ "CHLD" \in pending /\ pc \in Unblocked /\ Handled("CHLD")
  /\ IF pc = "suicide" THEN UNCHANGED <<command, filter, commands_exit_status>> ELSE child_died
  /\ UNCHANGED <<pc, status, terminal, error, outlived, late, ended>>

\* SIGINT stands for every signal that is passed on, after a look at the filter.
pass_on_signal ==
  /\ "INT" \in pending /\ pc \in Unblocked \ {"suicide"} /\ Handled("INT")
  /\ \/ filter # "zombie" /\ filter # "sorry" /\ filter # "buried"
        /\ UNCHANGED <<pc, status, error, outlived>>
     \/ filter \in {"sorry", "zombie", "buried"} /\ cleanup_rlwrap_and_exit("exit_1", "filter")
  /\ UNCHANGED <<command, filter, commands_exit_status, terminal, late, ended>>

\* Stopped and woken up: the terminal is set up again (set_echo()).
handle_sigTSTP ==
  /\ "TSTP" \in pending /\ pc \in Unblocked /\ Handled("TSTP")
  /\ IF pc = "suicide" THEN UNCHANGED <<terminal, late>>
     ELSE terminal' = "cbreak" /\ late' = (late \/ pc = "exit")
  /\ UNCHANGED <<pc, status, command, filter, commands_exit_status, error, outlived, ended>>

\* No handler: SIGHUP always, the others when suicide_by() has uninstalled them.
DefaultAction ==
  /\ pc \in Unblocked
  /\ \E sig \in pending : /\ sig = "HUP" \/ (pc = "suicide" /\ sig = "INT")
                          /\ Handled(sig)
  /\ Gone("signal")
  /\ UNCHANGED <<status, command, filter, commands_exit_status, terminal, error, outlived, late>>

\* SIGSEGV, SIGABRT, ...: never blocked.
ProgramError ==
  /\ pc \in (Unblocked \ {"suicide"}) \cup {"spawn", "wait"} /\ signals < MaxSignals
  /\ signals' = signals + 1
  /\ handle_program_error_signal
  /\ UNCHANGED <<system, status, filter, commands_exit_status, seen_EOF, log_fp,
                 pending, outlived, late>>

-----------------------------------------------------------------------------
(* Command, filter, user and the others.                                    *)
Outside == UNCHANGED <<eof, pc, status, commands_exit_status, seen_EOF, log_fp, terminal,
                       error, outlived, late, ended>>

\* The command closes its terminal and lives on.
CommandLetsGo ==
  /\ Alive /\ command.state = "runs" /\ tty = "open" /\ tty' = "abandoned"
  /\ Outside /\ UNCHANGED <<command, filter, pending, signals>>

CommandExits ==
  /\ Alive /\ command.state = "runs"
  /\ \E s \in Statuses : command' = [state |-> "exiting", status |-> s]
  /\ tty' \in IF tty = "open" THEN {"open", "closed"} ELSE {tty}
  /\ Outside /\ UNCHANGED <<filter, pending, signals>>

CommandIsZombie ==
  /\ Alive /\ command.state = "exiting"
  /\ command' = [command EXCEPT !.state = "zombie"]
  /\ pending' = pending \cup {"CHLD"}
  /\ Outside /\ UNCHANGED <<tty, filter, signals>>

\* The last process that held the dead command's terminal is gone.
TerminalLetGo ==
  /\ Alive /\ command.state \in {"exiting", "zombie", "reaped"} /\ tty = "open"
  /\ tty' = "closed"
  /\ Outside /\ UNCHANGED <<command, filter, pending, signals>>

FilterDies ==
  /\ Alive /\ filter \in {"runs", "sorry"}
  /\ filter' = "zombie" /\ pending' = pending \cup {"CHLD"}
  /\ Outside /\ UNCHANGED <<command, tty, signals>>

Signal ==
  /\ Alive /\ pc # "fork" /\ signals < MaxSignals
  /\ \E sig \in {"INT", "TSTP", "HUP"} \ pending : pending' = pending \cup {sig}
  /\ signals' = signals + 1
  /\ Outside /\ UNCHANGED <<command, tty, filter>>

-----------------------------------------------------------------------------
Init ==
  /\ eof \in {"zero", "EIO"}
  /\ pc = "fork" /\ status = "exit_0"
  /\ command = [state |-> "none", status |-> "exit_0"] /\ tty = "open"
  /\ filter = "none" /\ commands_exit_status = "exit_0"
  /\ seen_EOF = FALSE /\ log_fp \in {"none", "open"}
  /\ terminal = "saved" /\ pending = {}
  /\ error = "none" /\ outlived = FALSE /\ late = FALSE
  /\ ended = "not_yet" /\ signals = 0

Next ==
  \/ fork_child \/ spawn_filter
  \/ filters_last_words \/ FilterFails \/ read_pty \/ WaitForSIGCHLD \/ Timeout \/ StdinEOF
  \/ close_logfile \/ Nap \/ kill_filter \/ RestoreTerminal \/ ExitOrSuicide \/ suicide_by
  \/ SIGCHLD \/ pass_on_signal \/ handle_sigTSTP \/ DefaultAction \/ ProgramError
  \/ CommandLetsGo \/ CommandExits \/ CommandIsZombie \/ TerminalLetGo \/ FilterDies \/ Signal

Spec == Init /\ [][Next]_vars

-----------------------------------------------------------------------------
(* When rlwrap ends of itself, and not because it was told to, because it   *)
(* failed to start, or because of its filter, its parent sees how the       *)
(* command ended, in whatever order SIGCHLDs, the end of its output and     *)
(* other signals arrive (propagate command's exit status, make rlwrap's     *)
(* parent believe rlwrap was killed by it: src/src/main.c:1114-1122).       *)
(* Excepted are a command that closed its terminal and lived on, which      *)
(* rlwrap complains about, and one that outlives rlwrap.                    *)
ExitStatusIsCommands ==
  (/\ pc = "gone" /\ ended # "signal" /\ error \in {"none", "pty"}
   /\ tty # "abandoned" /\ ~outlived)
    => ended = command.status

(* However rlwrap ends, also when a handler, a failed assertion or a crash  *)
(* cuts the clean-up short, the user's terminal is as it was ("leave the    *)
(* terminal in a tidy state", src/src/signals.c:405). Excepted are a signal *)
(* that ends rlwrap by its default action, and a stop after the clean-up's  *)
(* own tcsetattr().                                                        *)
TerminalRestored ==
  (pc = "gone" /\ ended # "signal" /\ ~late) => terminal = "saved"
=============================================================================
