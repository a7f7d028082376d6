---------------------------- MODULE WinsizeProofs ----------------------------
(* Proofs about Winsize, for every value of its constants. *)
EXTENDS Winsize, TLAPS

USE DEF options, counters

(* What adapt_tty_winsize() does to the invariant, whoever calls it. *)
LEMMA AdaptKeepsInv ==
  ASSUME WinsizeInv, NEW killed \in BOOLEAN, adapt_tty_winsize(killed)
  PROVE  /\ winsize' \in Sizes /\ pty' \in Sizes
         /\ winsize' = tty /\ missed' = FALSE
         /\ pty' = winsize' \/ always_readline
         /\ command' \in [alive : BOOLEAN, pid : BOOLEAN, size : Sizes,
                          winch : BOOLEAN, raw : BOOLEAN, waits : BOOLEAN]
         /\ pty' = command'.size \/ command'.winch
         /\ received_WINCH' \in BOOLEAN /\ erased' \in BOOLEAN
         /\ erased' => received_WINCH'
<1>1. command \in [alive : BOOLEAN, pid : BOOLEAN, size : Sizes,
                   winch : BOOLEAN, raw : BOOLEAN, waits : BOOLEAN]
  BY DEF WinsizeInv, TypeOK
<1>2. pty' \in Sizes /\ winsize' \in Sizes /\ winsize' = tty /\ missed' = FALSE
  BY DEF WinsizeInv, TypeOK, adapt_tty_winsize
<1>3. pty' = winsize' \/ always_readline
  BY DEF WinsizeInv, PtyAdapted, adapt_tty_winsize, Changed, Defers
<1>4. command' = [command EXCEPT !.winch = @ \/ killed \/ pty' # pty]
  BY DEF adapt_tty_winsize
<1>5. command'.size = command.size /\ command'.winch = (command.winch \/ killed \/ pty' # pty)
  BY <1>1, <1>4
<1>6. command' \in [alive : BOOLEAN, pid : BOOLEAN, size : Sizes,
                    winch : BOOLEAN, raw : BOOLEAN, waits : BOOLEAN]
  BY <1>1, <1>4
<1>7. pty' = command'.size \/ command'.winch
  BY <1>5 DEF WinsizeInv, CommandTold
<1>8. Wipes \in BOOLEAN
  BY DEF Wipes, Changed, WinsizeInv, TypeOK
<1>9. /\ received_WINCH' \in BOOLEAN /\ erased' \in BOOLEAN
      /\ erased' => received_WINCH'
  BY <1>8 DEF adapt_tty_winsize, WinsizeInv, TypeOK
<1> QED BY <1>2, <1>3, <1>6, <1>7, <1>9

(* An action that keeps sizes, command and prompt keeps most of the invariant. *)
LEMMA Untouched ==
  ASSUME WinsizeInv,
         UNCHANGED <<options, tty, winsize, pty, command, deferred, within_line_edit,
                     received_WINCH, erased, missed, counters>>,
         pc' \in {"select", "pass_on", "stopped", "exited"},
         winch' \in BOOLEAN,
         RlwrapKnows'
  PROVE  WinsizeInv'
BY DEF WinsizeInv, TypeOK, RlwrapKnows, PtyAdapted, CommandTold

(* The chain from the terminal to the command is never broken: every link   *)
(* holds, or a signal that mends it is pending (signals.c, readline.c:274). *)
THEOREM WinsizeInvariant == Spec => []WinsizeInv
<1>1. Init => WinsizeInv
  <2> SUFFICES ASSUME Init PROVE WinsizeInv
    OBVIOUS
  <2>1. command \in [alive : BOOLEAN, pid : BOOLEAN, size : Sizes,
                     winch : BOOLEAN, raw : BOOLEAN, waits : BOOLEAN]
        /\ pty = command.size
    BY DEF Init
  <2>2. resizes \in 0 .. MaxResizes /\ changes \in 0 .. MaxChanges
    BY WinsizeAssumption DEF Init, WinsizeAssumption
  <2> QED BY <2>1, <2>2 DEF Init, WinsizeInv, TypeOK, RlwrapKnows, PtyAdapted, CommandTold
<1>2. WinsizeInv /\ [Next]_vars => WinsizeInv'
  <2> SUFFICES ASSUME WinsizeInv, [Next]_vars PROVE WinsizeInv'
    OBVIOUS
  <2> USE DEF WinsizeInv
  <2>1. CASE WindowChanges
    <3>1. adapt_tty_winsize(FALSE) /\ UNCHANGED <<options, tty, within_line_edit, counters>>
      BY <2>1 DEF WindowChanges
    <3>2. deferred' \in BOOLEAN /\ winch' \in BOOLEAN /\ pc' \in {"select", "pass_on"}
      BY <2>1 DEF WindowChanges, TypeOK, Defers, Changed
    <3> QED BY <3>1, <3>2, AdaptKeepsInv DEF TypeOK, RlwrapKnows, PtyAdapted, CommandTold
  <2>2. CASE PassOn
    <3> DEFINE told == command.winch \/ (command.pid /\ (~always_readline \/ dont_wrap_command_waits))
    <3>1. command' = [command EXCEPT !.winch = told]
      BY <2>2 DEF PassOn
    <3>2. told \in BOOLEAN
      BY DEF TypeOK, dont_wrap_command_waits
    <3>3. command' \in [alive : BOOLEAN, pid : BOOLEAN, size : Sizes,
                        winch : BOOLEAN, raw : BOOLEAN, waits : BOOLEAN]
      BY <3>1, <3>2 DEF TypeOK
    <3>4. command'.size = command.size /\ (command.winch => command'.winch)
      BY <3>1, <3>2 DEF TypeOK
    <3>5. UNCHANGED <<options, tty, winsize, pty, deferred, within_line_edit, received_WINCH,
                      erased, winch, missed, counters>> /\ pc = "pass_on" /\ pc' = "select"
      BY <2>2 DEF PassOn
    <3> QED BY <3>3, <3>4, <3>5 DEF TypeOK, RlwrapKnows, PtyAdapted, CommandTold
  <2>3. CASE StartEditAfterWINCH
    BY <2>3 DEF StartEditAfterWINCH, TypeOK, RlwrapKnows, PtyAdapted, CommandTold
  <2>4. CASE StartEdit
    BY <2>4 DEF StartEdit, TypeOK, RlwrapKnows, PtyAdapted, CommandTold
  <2>5. CASE AcceptLine
    <3>1. UNCHANGED <<options, pc, tty, counters>> /\ within_line_edit' = FALSE
      BY <2>5 DEF AcceptLine
    <3>2. CASE deferred
      <4>1. adapt_tty_winsize(command.pid) /\ winch' = (winch \/ ~command.pid) /\ deferred' = FALSE
        BY <2>5, <3>2 DEF AcceptLine
      <4>2. command.pid \in BOOLEAN
        BY DEF TypeOK
      <4>3. winch' \in BOOLEAN
        BY <4>1, <4>2 DEF TypeOK
      <4> QED BY <3>1, <4>1, <4>2, <4>3, AdaptKeepsInv
              DEF TypeOK, RlwrapKnows, PtyAdapted, CommandTold
    <3>3. CASE ~deferred
      <4>1. UNCHANGED <<winsize, pty, received_WINCH, erased, missed, command, winch, deferred>>
        BY <2>5, <3>3 DEF AcceptLine
      <4>2. TypeOK'
        <5>1. within_line_edit' \in BOOLEAN /\ winch' \in BOOLEAN /\ missed' \in BOOLEAN
          BY <3>1, <4>1, Zenon DEF TypeOK
        <5>2. deferred' \in BOOLEAN /\ received_WINCH' \in BOOLEAN /\ erased' \in BOOLEAN
          BY <3>1, <4>1, Zenon DEF TypeOK
        <5> QED BY <3>1, <4>1, <5>1, <5>2 DEF TypeOK
      <4>3. RlwrapKnows' /\ PtyAdapted' /\ CommandTold' /\ (erased' => received_WINCH')
        BY <3>1, <4>1 DEF RlwrapKnows, PtyAdapted, CommandTold
      <4> QED BY <4>2, <4>3
    <3> QED BY <3>2, <3>3
  <2>6. CASE Suspend
    BY <2>6, Untouched DEF Suspend, TypeOK, RlwrapKnows
  <2>7. CASE Resume
    <3>1. pc' = "select" /\ UNCHANGED <<options, tty, within_line_edit, winch, counters>>
      BY <2>7 DEF Resume
    <3>2. CASE ~within_line_edit /\ skip_rlwrap
      <4>1. /\ missed' = (missed \/ Changed)
            /\ UNCHANGED <<winsize, pty, command, deferred, received_WINCH, erased>>
        BY <2>7, <3>2 DEF Resume
      <4>2. Changed \in BOOLEAN /\ missed' \in BOOLEAN /\ RlwrapKnows'
        BY <3>1, <4>1 DEF TypeOK, Changed, RlwrapKnows
      <4> QED BY <3>1, <4>1, <4>2 DEF TypeOK, PtyAdapted, CommandTold
    <3>3. CASE ~(~within_line_edit /\ skip_rlwrap)
      <4>1. adapt_tty_winsize(FALSE) /\ deferred' = (deferred \/ Defers)
        BY <2>7, <3>3 DEF Resume
      <4>2. deferred' \in BOOLEAN
        BY <4>1 DEF TypeOK, Defers, Changed
      <4> QED BY <3>1, <4>1, <4>2, AdaptKeepsInv DEF TypeOK, RlwrapKnows, PtyAdapted, CommandTold
    <3> QED BY <3>2, <3>3
  <2>8. CASE ChildDied
    BY <2>8 DEF ChildDied, TypeOK, RlwrapKnows, PtyAdapted, CommandTold
  <2>9. CASE Exit
    BY <2>9, Untouched DEF Exit, TypeOK, RlwrapKnows
  <2>10. CASE Resize
    <3>1. resizes' \in 0 .. MaxResizes /\ changes' \in 0 .. MaxChanges
      BY <2>10, WinsizeAssumption DEF Resize, TypeOK, WinsizeAssumption
    <3>2. tty' \in Sizes /\ winch' \in BOOLEAN /\ RlwrapKnows'
      BY <2>10 DEF Resize, TypeOK, RlwrapKnows
    <3> QED BY <2>10, <3>1, <3>2 DEF Resize, TypeOK, PtyAdapted, CommandTold
  <2>11. CASE CommandAdapts
    BY <2>11, ZenonT(40) DEF CommandAdapts, TypeOK, RlwrapKnows, PtyAdapted, CommandTold
  <2>12. CASE CommandChanges
    <3>1. resizes' \in 0 .. MaxResizes /\ changes' \in 0 .. MaxChanges
      BY <2>12, WinsizeAssumption DEF CommandChanges, TypeOK, WinsizeAssumption
    <3>2. /\ command' \in [alive : BOOLEAN, pid : BOOLEAN, size : Sizes,
                            winch : BOOLEAN, raw : BOOLEAN, waits : BOOLEAN]
          /\ command'.size = command.size /\ command'.winch = command.winch
      BY <2>12 DEF CommandChanges, TypeOK
    <3> QED BY <2>12, <3>1, <3>2 DEF CommandChanges, TypeOK, RlwrapKnows, PtyAdapted, CommandTold
  <2>13. CASE CommandExits
    BY <2>13, ZenonT(40) DEF CommandExits, TypeOK, RlwrapKnows, PtyAdapted, CommandTold
  <2>14. CASE UNCHANGED vars
    BY <2>14, Untouched DEF vars, TypeOK, RlwrapKnows
  <2> QED BY <2>1, <2>2, <2>3, <2>4, <2>5, <2>6, <2>7, <2>8, <2>9, <2>10, <2>11, <2>12,
             <2>13, <2>14 DEF Next, Rlwrap, World
<1> QED BY <1>1, <1>2, PTL DEF Spec

(* When no SIGWINCH is under way, the command works with the terminal's      *)
(* size, unless --always-readline puts it off or rlwrap has slept through   *)
(* the change in direct mode (signals.c:230).                               *)
THEOREM NoResizeEverOverlooked == Spec => []NoResizeOverlooked
<1>1. WinsizeInv => NoResizeOverlooked
  BY DEF WinsizeInv, RlwrapKnows, PtyAdapted, CommandTold, NoResizeOverlooked, Quiet
<1> QED BY <1>1, WinsizeInvariant, PTL
=============================================================================
