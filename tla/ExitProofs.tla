----------------------------- MODULE ExitProofs ------------------------------
(***************************************************************************)
(* Proofs about Exit, for every set of exit statuses and every number of    *)
(* signals: rlwrap ends with its command's status, and the terminal is       *)
(* restored.                                                               *)
(***************************************************************************)
EXTENDS Exit, TLAPS

Dying == {"exiting", "zombie", "reaped"}
Dead == {"zombie", "reaped"}
CleaningUp == {"cleanup", "nap", "kill_filter", "terminal", "exit", "suicide"}
AfterNap == CleaningUp \ {"cleanup", "nap"}

FlagsOK == seen_EOF \in BOOLEAN /\ outlived \in BOOLEAN /\ late \in BOOLEAN

TypeOK ==
  /\ FlagsOK
  /\ eof \in {"zero", "EIO"}
  /\ pc \in {"fork", "spawn", "select", "wait", "gone"} \cup CleaningUp
  /\ status \in {"exit_0", "exit_1"}
  /\ command \in [state : {"none", "runs"} \cup Dying, status : Statuses]
  /\ tty \in {"open", "closed", "abandoned"}
  /\ filter \in {"none", "runs", "sorry", "zombie", "buried", "reaped"}
  /\ commands_exit_status \in Statuses
  /\ log_fp \in {"none", "open", "closed"}
  /\ terminal \in {"saved", "cbreak"}
  /\ pending \subseteq {"CHLD", "INT", "TSTP", "HUP"}
  /\ error \in {"none", "start", "filter", "pty", "crash"}
  /\ ended \in Statuses \cup {"not_yet", "signal"}
  /\ signals \in 0 .. MaxSignals

(* What rlwrap has noted of its command is true, and it has heard of its     *)
(* death or is about to: until suicide_by(), no SIGCHLD is lost.            *)
CommandKnown ==
  /\ pc = "fork" => command.state = "none"
  /\ commands_exit_status = IF command.state = "reaped" THEN command.status ELSE "exit_0"
  /\ (command.state = "zombie" /\ pc \notin {"suicide", "gone"}) => "CHLD" \in pending

(* A terminal that is closed was closed by a dying command; after the second *)
(* wait for SIGCHLD it is dead, so only one that lives on is complained of. *)
TerminalKnown ==
  /\ tty = "closed" => command.state \in Dying
  /\ seen_EOF => /\ tty # "open"
                 /\ (tty = "closed" /\ pc \notin {"wait", "gone"}) => command.state \in Dead
  /\ error = "pty" => tty = "abandoned"

(* Cleaning up for no error means: status 0, and a command that is dying, or *)
(* dead once rlwrap has taken its nap.                                      *)
CleanUpKnows ==
  /\ (pc \in CleaningUp /\ error = "none") => status = "exit_0"
  /\ (pc \in CleaningUp /\ error = "none" /\ ~outlived) => command.state \in Dying
  /\ (pc \in AfterNap /\ error = "none" /\ ~outlived) => command.state \in Dead
  /\ pc = "suicide" => status = "exit_0" /\ commands_exit_status = "killed"

(* From tcsetattr() to the end only a stop can change the terminal again. *)
TerminalIsLast == (pc \in {"exit", "suicide"} /\ ~late) => terminal = "saved"

ExitInv ==
  /\ TypeOK /\ CommandKnown /\ TerminalKnown /\ CleanUpKnows /\ TerminalIsLast
  /\ ExitStatusIsCommands /\ TerminalRestored

(* The command's death, its last output, other signals and the clean-up may *)
(* come in any order: what rlwrap has noted and what it has put right stays *)
(* true of the command and of the terminal (main.c, signals.c).             *)
THEOREM ExitInvariant == Spec => []ExitInv
<1>1. Init => ExitInv
  <2> SUFFICES ASSUME Init PROVE ExitInv
    OBVIOUS
  <2>1. FlagsOK
    BY Zenon DEF Init, FlagsOK
  <2>2. TypeOK
    BY <2>1, StatusAssumption, BoundAssumption
    DEF Init, TypeOK, Dying, CleaningUp, StatusAssumption, BoundAssumption
  <2>3. CommandKnown /\ TerminalKnown /\ CleanUpKnows /\ TerminalIsLast
    BY DEF Init, CommandKnown, TerminalKnown, CleanUpKnows, TerminalIsLast, CleaningUp, AfterNap
  <2>4. ExitStatusIsCommands /\ TerminalRestored
    BY DEF Init, ExitStatusIsCommands, TerminalRestored
  <2> QED BY <2>2, <2>3, <2>4 DEF ExitInv
<1>2. ExitInv /\ [Next]_vars => ExitInv'
  <2> SUFFICES ASSUME ExitInv, [Next]_vars PROVE ExitInv'
    OBVIOUS
  <2> USE StatusAssumption, BoundAssumption
      DEF StatusAssumption, BoundAssumption, ExitInv, Dying, Dead, CleaningUp, AfterNap
  <2>1. CASE fork_child
    <3>1. FlagsOK'
      BY <2>1, Zenon DEF fork_child, cleanup_rlwrap_and_exit, Unblocked, TypeOK, FlagsOK
    <3>2. TypeOK'
      BY <2>1, <3>1 DEF fork_child, cleanup_rlwrap_and_exit, Unblocked, TypeOK
    <3>3. /\ CommandKnown' /\ TerminalKnown' /\ CleanUpKnows' /\ TerminalIsLast'
          /\ ExitStatusIsCommands' /\ TerminalRestored'
      BY <2>1 DEF fork_child, cleanup_rlwrap_and_exit, Unblocked, TypeOK, CommandKnown,
         TerminalKnown, CleanUpKnows, TerminalIsLast, ExitStatusIsCommands,
         TerminalRestored
    <3> QED BY <3>2, <3>3
  <2>2. CASE spawn_filter
    <3>1. FlagsOK'
      BY <2>2, Zenon DEF spawn_filter, cleanup_rlwrap_and_exit, Unblocked, system,
         TypeOK, FlagsOK
    <3>2. TypeOK'
      BY <2>2, <3>1 DEF spawn_filter, cleanup_rlwrap_and_exit, Unblocked, system, TypeOK
    <3>3. /\ CommandKnown' /\ TerminalKnown' /\ CleanUpKnows' /\ TerminalIsLast'
          /\ ExitStatusIsCommands' /\ TerminalRestored'
      BY <2>2 DEF spawn_filter, cleanup_rlwrap_and_exit, Unblocked, system, TypeOK,
         CommandKnown, TerminalKnown, CleanUpKnows, TerminalIsLast,
         ExitStatusIsCommands, TerminalRestored
    <3> QED BY <3>2, <3>3
  <2>3. CASE filters_last_words
    <3>1. FlagsOK'
      BY <2>3, Zenon DEF filters_last_words, filter_is_dead, cleanup_rlwrap_and_exit,
         Unblocked, LoopSteps, system, TypeOK, FlagsOK
    <3>2. TypeOK'
      BY <2>3, <3>1 DEF filters_last_words, filter_is_dead, cleanup_rlwrap_and_exit,
         Unblocked, LoopSteps, system, TypeOK
    <3>3. /\ CommandKnown' /\ TerminalKnown' /\ CleanUpKnows' /\ TerminalIsLast'
          /\ ExitStatusIsCommands' /\ TerminalRestored'
      BY <2>3 DEF filters_last_words, filter_is_dead, cleanup_rlwrap_and_exit,
         Unblocked, LoopSteps, system, TypeOK, CommandKnown, TerminalKnown,
         CleanUpKnows, TerminalIsLast, ExitStatusIsCommands, TerminalRestored
    <3> QED BY <3>2, <3>3
  <2>4. CASE FilterFails
    <3>1. FlagsOK'
      BY <2>4, Zenon DEF FilterFails, Selected, Undisturbed, cleanup_rlwrap_and_exit,
         Unblocked, LoopSteps, system, TypeOK, FlagsOK
    <3>2. TypeOK'
      BY <2>4, <3>1 DEF FilterFails, Selected, Undisturbed, cleanup_rlwrap_and_exit,
         Unblocked, LoopSteps, system, TypeOK
    <3>3. /\ CommandKnown' /\ TerminalKnown' /\ CleanUpKnows' /\ TerminalIsLast'
          /\ ExitStatusIsCommands' /\ TerminalRestored'
      BY <2>4 DEF FilterFails, Selected, Undisturbed, cleanup_rlwrap_and_exit,
         Unblocked, LoopSteps, system, TypeOK, CommandKnown, TerminalKnown,
         CleanUpKnows, TerminalIsLast, ExitStatusIsCommands, TerminalRestored
    <3> QED BY <3>2, <3>3
  <2>5. CASE read_pty
    <3>1. FlagsOK'
      BY <2>5, Zenon DEF read_pty, Selected, Undisturbed, filter_is_dead,
         command_is_dead, cleanup_rlwrap_and_exit, Unblocked, command_pid, LoopSteps,
         system, TypeOK, FlagsOK
    <3>2. TypeOK'
      BY <2>5, <3>1 DEF read_pty, Selected, Undisturbed, filter_is_dead,
         command_is_dead, cleanup_rlwrap_and_exit, Unblocked, command_pid, LoopSteps,
         system, TypeOK
    <3>3. CommandKnown'
      BY <2>5 DEF read_pty, Selected, Undisturbed, filter_is_dead, command_is_dead,
         cleanup_rlwrap_and_exit, Unblocked, command_pid, LoopSteps, system, TypeOK,
         CommandKnown
    <3>4. TerminalKnown'
      BY <2>5 DEF read_pty, Selected, Undisturbed, filter_is_dead, command_is_dead,
         cleanup_rlwrap_and_exit, Unblocked, command_pid, LoopSteps, system, TypeOK,
         CommandKnown, TerminalKnown
    <3>5. CleanUpKnows' /\ TerminalIsLast'
      BY <2>5 DEF read_pty, Selected, Undisturbed, filter_is_dead, command_is_dead,
         cleanup_rlwrap_and_exit, Unblocked, command_pid, LoopSteps, system, TypeOK,
         CommandKnown, CleanUpKnows, TerminalIsLast
    <3>6. ExitStatusIsCommands' /\ TerminalRestored'
      BY <2>5 DEF read_pty, Selected, Undisturbed, filter_is_dead, command_is_dead,
         cleanup_rlwrap_and_exit, Unblocked, command_pid, LoopSteps, system, TypeOK,
         CommandKnown, TerminalKnown, CleanUpKnows, TerminalIsLast,
         ExitStatusIsCommands, TerminalRestored
    <3> QED BY <3>2, <3>3, <3>4, <3>5, <3>6
  <2>6. CASE WaitForSIGCHLD
    <3>1. FlagsOK'
      BY <2>6, Zenon DEF WaitForSIGCHLD, Napped, LoopSteps, system, TypeOK, FlagsOK
    <3>2. TypeOK'
      BY <2>6, <3>1 DEF WaitForSIGCHLD, Napped, LoopSteps, system, TypeOK
    <3>3. /\ CommandKnown' /\ TerminalKnown' /\ CleanUpKnows' /\ TerminalIsLast'
          /\ ExitStatusIsCommands' /\ TerminalRestored'
      BY <2>6 DEF WaitForSIGCHLD, Napped, LoopSteps, system, TypeOK, CommandKnown,
         TerminalKnown, CleanUpKnows, TerminalIsLast, ExitStatusIsCommands,
         TerminalRestored
    <3> QED BY <3>2, <3>3
  <2>7. CASE Timeout
    <3>1. FlagsOK'
      BY <2>7, Zenon DEF Timeout, Selected, Undisturbed, filter_is_dead,
         command_is_dead, cleanup_rlwrap_and_exit, Unblocked, LoopSteps, system, TypeOK,
         FlagsOK
    <3>2. TypeOK'
      BY <2>7, <3>1 DEF Timeout, Selected, Undisturbed, filter_is_dead, command_is_dead,
         cleanup_rlwrap_and_exit, Unblocked, LoopSteps, system, TypeOK
    <3>3. /\ CommandKnown' /\ TerminalKnown' /\ CleanUpKnows' /\ TerminalIsLast'
          /\ ExitStatusIsCommands' /\ TerminalRestored'
      BY <2>7 DEF Timeout, Selected, Undisturbed, filter_is_dead, command_is_dead,
         cleanup_rlwrap_and_exit, Unblocked, LoopSteps, system, TypeOK, CommandKnown,
         TerminalKnown, CleanUpKnows, TerminalIsLast, ExitStatusIsCommands,
         TerminalRestored
    <3> QED BY <3>2, <3>3
  <2>8. CASE StdinEOF
    <3>1. FlagsOK'
      BY <2>8, Zenon DEF StdinEOF, Selected, Undisturbed, filter_is_dead,
         cleanup_rlwrap_and_exit, Unblocked, LoopSteps, system, TypeOK, FlagsOK
    <3>2. TypeOK'
      BY <2>8, <3>1 DEF StdinEOF, Selected, Undisturbed, filter_is_dead,
         cleanup_rlwrap_and_exit, Unblocked, LoopSteps, system, TypeOK
    <3>3. /\ CommandKnown' /\ TerminalKnown' /\ CleanUpKnows' /\ TerminalIsLast'
          /\ ExitStatusIsCommands' /\ TerminalRestored'
      BY <2>8 DEF StdinEOF, Selected, Undisturbed, filter_is_dead,
         cleanup_rlwrap_and_exit, Unblocked, LoopSteps, system, TypeOK, CommandKnown,
         TerminalKnown, CleanUpKnows, TerminalIsLast, ExitStatusIsCommands,
         TerminalRestored
    <3> QED BY <3>2, <3>3
  <2>9. CASE close_logfile
    <3>1. FlagsOK'
      BY <2>9, Zenon DEF close_logfile, Undisturbed, handle_program_error_signal, Gone,
         Cleaning, system, TypeOK, FlagsOK
    <3>2. TypeOK'
      BY <2>9, <3>1 DEF close_logfile, Undisturbed, handle_program_error_signal, Gone,
         Cleaning, system, TypeOK
    <3>3. /\ CommandKnown' /\ TerminalKnown' /\ CleanUpKnows' /\ TerminalIsLast'
          /\ ExitStatusIsCommands' /\ TerminalRestored'
      BY <2>9 DEF close_logfile, Undisturbed, handle_program_error_signal, Gone,
         Cleaning, system, TypeOK, CommandKnown, TerminalKnown, CleanUpKnows,
         TerminalIsLast, ExitStatusIsCommands, TerminalRestored
    <3> QED BY <3>2, <3>3
  <2>10. CASE Nap
    <3>1. FlagsOK'
      BY <2>10, Zenon DEF Nap, Undisturbed, Napped, filter_pid, Cleaning, system,
         TypeOK, FlagsOK
    <3>2. TypeOK'
      BY <2>10, <3>1 DEF Nap, Undisturbed, Napped, filter_pid, Cleaning, system, TypeOK
    <3>3. /\ CommandKnown' /\ TerminalKnown' /\ CleanUpKnows' /\ TerminalIsLast'
          /\ ExitStatusIsCommands' /\ TerminalRestored'
      BY <2>10 DEF Nap, Undisturbed, Napped, filter_pid, Cleaning, system, TypeOK,
         CommandKnown, TerminalKnown, CleanUpKnows, TerminalIsLast,
         ExitStatusIsCommands, TerminalRestored
    <3> QED BY <3>2, <3>3
  <2>11. CASE kill_filter
    <3>1. FlagsOK'
      BY <2>11, Zenon DEF kill_filter, Undisturbed, filter_pid,
         handle_program_error_signal, Gone, Cleaning, system, TypeOK, FlagsOK
    <3>2. TypeOK'
      BY <2>11, <3>1 DEF kill_filter, Undisturbed, filter_pid,
         handle_program_error_signal, Gone, Cleaning, system, TypeOK
    <3>3. /\ CommandKnown' /\ TerminalKnown' /\ CleanUpKnows' /\ TerminalIsLast'
          /\ ExitStatusIsCommands' /\ TerminalRestored'
      BY <2>11 DEF kill_filter, Undisturbed, filter_pid, handle_program_error_signal,
         Gone, Cleaning, system, TypeOK, CommandKnown, TerminalKnown, CleanUpKnows,
         TerminalIsLast, ExitStatusIsCommands, TerminalRestored
    <3> QED BY <3>2, <3>3
  <2>12. CASE RestoreTerminal
    <3>1. FlagsOK'
      BY <2>12, Zenon DEF RestoreTerminal, Undisturbed, Cleaning, system, TypeOK,
         FlagsOK
    <3>2. TypeOK'
      BY <2>12, <3>1 DEF RestoreTerminal, Undisturbed, Cleaning, system, TypeOK
    <3>3. /\ CommandKnown' /\ TerminalKnown' /\ CleanUpKnows' /\ TerminalIsLast'
          /\ ExitStatusIsCommands' /\ TerminalRestored'
      BY <2>12 DEF RestoreTerminal, Undisturbed, Cleaning, system, TypeOK, CommandKnown,
         TerminalKnown, CleanUpKnows, TerminalIsLast, ExitStatusIsCommands,
         TerminalRestored
    <3> QED BY <3>2, <3>3
  <2>13. CASE ExitOrSuicide
    <3>1. FlagsOK'
      BY <2>13, Zenon DEF ExitOrSuicide, Undisturbed, Gone, Cleaning, system, TypeOK,
         FlagsOK
    <3>2. TypeOK'
      BY <2>13, <3>1 DEF ExitOrSuicide, Undisturbed, Gone, Cleaning, system, TypeOK
    <3>3. /\ CommandKnown' /\ TerminalKnown' /\ CleanUpKnows' /\ TerminalIsLast'
          /\ ExitStatusIsCommands' /\ TerminalRestored'
      BY <2>13 DEF ExitOrSuicide, Undisturbed, Gone, Cleaning, system, TypeOK,
         CommandKnown, TerminalKnown, CleanUpKnows, TerminalIsLast,
         ExitStatusIsCommands, TerminalRestored
    <3> QED BY <3>2, <3>3
  <2>14. CASE suicide_by
    <3>1. FlagsOK'
      BY <2>14, Zenon DEF suicide_by, Undisturbed, Gone, Cleaning, system, TypeOK,
         FlagsOK
    <3>2. TypeOK'
      BY <2>14, <3>1 DEF suicide_by, Undisturbed, Gone, Cleaning, system, TypeOK
    <3>3. /\ CommandKnown' /\ TerminalKnown' /\ CleanUpKnows' /\ TerminalIsLast'
          /\ ExitStatusIsCommands' /\ TerminalRestored'
      BY <2>14 DEF suicide_by, Undisturbed, Gone, Cleaning, system, TypeOK,
         CommandKnown, TerminalKnown, CleanUpKnows, TerminalIsLast,
         ExitStatusIsCommands, TerminalRestored
    <3> QED BY <3>2, <3>3
  <2>15. CASE SIGCHLD
    <3>1. FlagsOK'
      BY <2>15, Zenon DEF SIGCHLD, Unblocked, Handled, child_died, Reap, ReapFilter,
         TypeOK, FlagsOK
    <3>2. TypeOK'
      BY <2>15, <3>1 DEF SIGCHLD, Unblocked, Handled, child_died, Reap, ReapFilter,
         TypeOK
    <3>3. /\ CommandKnown' /\ TerminalKnown' /\ CleanUpKnows' /\ TerminalIsLast'
          /\ ExitStatusIsCommands' /\ TerminalRestored'
      BY <2>15 DEF SIGCHLD, Unblocked, Handled, child_died, Reap, ReapFilter, TypeOK,
         CommandKnown, TerminalKnown, CleanUpKnows, TerminalIsLast,
         ExitStatusIsCommands, TerminalRestored
    <3> QED BY <3>2, <3>3
  <2>16. CASE pass_on_signal
    <3>1. FlagsOK'
      BY <2>16, Zenon DEF pass_on_signal, Unblocked, Handled, cleanup_rlwrap_and_exit,
         TypeOK, FlagsOK
    <3>2. TypeOK'
      BY <2>16, <3>1 DEF pass_on_signal, Unblocked, Handled, cleanup_rlwrap_and_exit,
         TypeOK
    <3>3. /\ CommandKnown' /\ TerminalKnown' /\ CleanUpKnows' /\ TerminalIsLast'
          /\ ExitStatusIsCommands' /\ TerminalRestored'
      BY <2>16 DEF pass_on_signal, Unblocked, Handled, cleanup_rlwrap_and_exit, TypeOK,
         CommandKnown, TerminalKnown, CleanUpKnows, TerminalIsLast,
         ExitStatusIsCommands, TerminalRestored
    <3> QED BY <3>2, <3>3
  <2>17. CASE handle_sigTSTP
    <3>1. FlagsOK'
      BY <2>17, Zenon DEF handle_sigTSTP, Unblocked, Handled, TypeOK, FlagsOK
    <3>2. TypeOK'
      BY <2>17, <3>1 DEF handle_sigTSTP, Unblocked, Handled, TypeOK
    <3>3. CommandKnown'
      BY <2>17 DEF handle_sigTSTP, Unblocked, Handled, TypeOK, CommandKnown
    <3>4. TerminalKnown'
      BY <2>17 DEF handle_sigTSTP, Unblocked, Handled, TypeOK, CommandKnown,
         TerminalKnown
    <3>5. CleanUpKnows' /\ TerminalIsLast'
      BY <2>17 DEF handle_sigTSTP, Unblocked, Handled, TypeOK, CommandKnown,
         CleanUpKnows, TerminalIsLast
    <3>6. ExitStatusIsCommands' /\ TerminalRestored'
      BY <2>17 DEF handle_sigTSTP, Unblocked, Handled, TypeOK, CommandKnown,
         TerminalKnown, CleanUpKnows, TerminalIsLast, ExitStatusIsCommands,
         TerminalRestored
    <3> QED BY <3>2, <3>3, <3>4, <3>5, <3>6
  <2>18. CASE DefaultAction
    <3>1. FlagsOK'
      BY <2>18, Zenon DEF DefaultAction, Unblocked, Handled, Gone, TypeOK, FlagsOK
    <3>2. TypeOK'
      BY <2>18, <3>1 DEF DefaultAction, Unblocked, Handled, Gone, TypeOK
    <3>3. /\ CommandKnown' /\ TerminalKnown' /\ CleanUpKnows' /\ TerminalIsLast'
          /\ ExitStatusIsCommands' /\ TerminalRestored'
      BY <2>18 DEF DefaultAction, Unblocked, Handled, Gone, TypeOK, CommandKnown,
         TerminalKnown, CleanUpKnows, TerminalIsLast, ExitStatusIsCommands,
         TerminalRestored
    <3> QED BY <3>2, <3>3
  <2>19. CASE ProgramError
    <3>1. FlagsOK'
      BY <2>19, Zenon DEF ProgramError, Unblocked, handle_program_error_signal, Gone,
         system, TypeOK, FlagsOK
    <3>2. TypeOK'
      BY <2>19, <3>1 DEF ProgramError, Unblocked, handle_program_error_signal, Gone,
         system, TypeOK
    <3>3. /\ CommandKnown' /\ TerminalKnown' /\ CleanUpKnows' /\ TerminalIsLast'
          /\ ExitStatusIsCommands' /\ TerminalRestored'
      BY <2>19 DEF ProgramError, Unblocked, handle_program_error_signal, Gone, system,
         TypeOK, CommandKnown, TerminalKnown, CleanUpKnows, TerminalIsLast,
         ExitStatusIsCommands, TerminalRestored
    <3> QED BY <3>2, <3>3
  <2>20. CASE CommandLetsGo
    <3>1. FlagsOK'
      BY <2>20, Zenon DEF CommandLetsGo, Alive, Outside, TypeOK, FlagsOK
    <3>2. TypeOK'
      BY <2>20, <3>1 DEF CommandLetsGo, Alive, Outside, TypeOK
    <3>3. /\ CommandKnown' /\ TerminalKnown' /\ CleanUpKnows' /\ TerminalIsLast'
          /\ ExitStatusIsCommands' /\ TerminalRestored'
      BY <2>20 DEF CommandLetsGo, Alive, Outside, TypeOK, CommandKnown, TerminalKnown,
         CleanUpKnows, TerminalIsLast, ExitStatusIsCommands, TerminalRestored
    <3> QED BY <3>2, <3>3
  <2>21. CASE CommandExits
    <3>1. FlagsOK'
      BY <2>21, Zenon DEF CommandExits, Alive, Outside, TypeOK, FlagsOK
    <3>2. TypeOK'
      BY <2>21, <3>1 DEF CommandExits, Alive, Outside, TypeOK
    <3>3. /\ CommandKnown' /\ TerminalKnown' /\ CleanUpKnows' /\ TerminalIsLast'
          /\ ExitStatusIsCommands' /\ TerminalRestored'
      BY <2>21 DEF CommandExits, Alive, Outside, TypeOK, CommandKnown, TerminalKnown,
         CleanUpKnows, TerminalIsLast, ExitStatusIsCommands, TerminalRestored
    <3> QED BY <3>2, <3>3
  <2>22. CASE CommandIsZombie
    <3>1. FlagsOK'
      BY <2>22, Zenon DEF CommandIsZombie, Alive, Outside, TypeOK, FlagsOK
    <3>2. TypeOK'
      BY <2>22, <3>1 DEF CommandIsZombie, Alive, Outside, TypeOK
    <3>3. /\ CommandKnown' /\ TerminalKnown' /\ CleanUpKnows' /\ TerminalIsLast'
          /\ ExitStatusIsCommands' /\ TerminalRestored'
      BY <2>22 DEF CommandIsZombie, Alive, Outside, TypeOK, CommandKnown, TerminalKnown,
         CleanUpKnows, TerminalIsLast, ExitStatusIsCommands, TerminalRestored
    <3> QED BY <3>2, <3>3
  <2>23. CASE TerminalLetGo
    <3>1. FlagsOK'
      BY <2>23, Zenon DEF TerminalLetGo, Alive, Outside, TypeOK, FlagsOK
    <3>2. TypeOK'
      BY <2>23, <3>1 DEF TerminalLetGo, Alive, Outside, TypeOK
    <3>3. /\ CommandKnown' /\ TerminalKnown' /\ CleanUpKnows' /\ TerminalIsLast'
          /\ ExitStatusIsCommands' /\ TerminalRestored'
      BY <2>23 DEF TerminalLetGo, Alive, Outside, TypeOK, CommandKnown, TerminalKnown,
         CleanUpKnows, TerminalIsLast, ExitStatusIsCommands, TerminalRestored
    <3> QED BY <3>2, <3>3
  <2>24. CASE FilterDies
    <3>1. FlagsOK'
      BY <2>24, Zenon DEF FilterDies, Alive, Outside, TypeOK, FlagsOK
    <3>2. TypeOK'
      BY <2>24, <3>1 DEF FilterDies, Alive, Outside, TypeOK
    <3>3. /\ CommandKnown' /\ TerminalKnown' /\ CleanUpKnows' /\ TerminalIsLast'
          /\ ExitStatusIsCommands' /\ TerminalRestored'
      BY <2>24 DEF FilterDies, Alive, Outside, TypeOK, CommandKnown, TerminalKnown,
         CleanUpKnows, TerminalIsLast, ExitStatusIsCommands, TerminalRestored
    <3> QED BY <3>2, <3>3
  <2>25. CASE Signal
    <3>1. FlagsOK'
      BY <2>25, Zenon DEF Signal, Alive, Outside, TypeOK, FlagsOK
    <3>2. TypeOK'
      BY <2>25, <3>1 DEF Signal, Alive, Outside, TypeOK
    <3>3. /\ CommandKnown' /\ TerminalKnown' /\ CleanUpKnows' /\ TerminalIsLast'
          /\ ExitStatusIsCommands' /\ TerminalRestored'
      BY <2>25 DEF Signal, Alive, Outside, TypeOK, CommandKnown, TerminalKnown,
         CleanUpKnows, TerminalIsLast, ExitStatusIsCommands, TerminalRestored
    <3> QED BY <3>2, <3>3
  <2>26. CASE UNCHANGED vars
    <3>1. FlagsOK'
      BY <2>26, Zenon DEF vars, TypeOK, FlagsOK
    <3>2. TypeOK'
      BY <2>26, <3>1 DEF vars, TypeOK
    <3>3. /\ CommandKnown' /\ TerminalKnown' /\ CleanUpKnows' /\ TerminalIsLast'
          /\ ExitStatusIsCommands' /\ TerminalRestored'
      BY <2>26 DEF vars, TypeOK, CommandKnown, TerminalKnown, CleanUpKnows,
         TerminalIsLast, ExitStatusIsCommands, TerminalRestored
    <3> QED BY <3>2, <3>3
  <2> QED
    BY <2>1, <2>2, <2>3, <2>4, <2>5, <2>6, <2>7, <2>8, <2>9, <2>10, <2>11, <2>12, <2>13,
       <2>14, <2>15, <2>16, <2>17, <2>18, <2>19, <2>20, <2>21, <2>22, <2>23, <2>24,
       <2>25, <2>26 DEF Next
<1> QED BY <1>1, <1>2, PTL DEF Spec

(* When rlwrap ends of itself its parent sees how the command ended, in     *)
(* whatever order SIGCHLDs, the end of the output and other signals arrive  *)
(* (src/src/main.c:1114-1122).                                             *)
THEOREM StatusIsPassedOn == Spec => []ExitStatusIsCommands
<1>1. ExitInv => ExitStatusIsCommands
  BY DEF ExitInv
<1> QED BY <1>1, ExitInvariant, PTL

(* The user's terminal is as it was, however rlwrap ends, but by a default  *)
(* action or when it is stopped after its own tcsetattr() (signals.c:405).  *)
THEOREM TerminalIsTidy == Spec => []TerminalRestored
<1>1. ExitInv => TerminalRestored
  BY DEF ExitInv
<1> QED BY <1>1, ExitInvariant, PTL
=============================================================================
