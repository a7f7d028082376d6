------------------------------ MODULE Pselect ------------------------------
(***************************************************************************)
(* my_pselect() and zero_select_timeout() (src/src/utils.c) as they are      *)
(* compiled without HAVE_REAL_PSELECT, which is everywhere: signals are      *)
(* unblocked, select() is called, signals are blocked again, and a handler   *)
(* may run between any two of these. Every handler calls                     *)
(* zero_select_timeout().                                                    *)
(*                                                                         *)
(* The call of select() is two steps: the program reads the pointer          *)
(* pmy_select_timeout_tv to pass it, and then the kernel reads what it       *)
(* points to.                                                                *)
(***************************************************************************)
EXTENDS Integers

CONSTANTS
  Signals,    \* the signals that have a handler
  Timeouts,   \* the time-outs the main loop asks for
  MaxSignals  \* bound: how many signals are sent

(* The main loop's time-outs: {0,0}, wait_a_little, and a NULL pointer. *)
ASSUME PselectAssumption ==
  Timeouts \subseteq {"immediately", "a little", "forever"} /\ MaxSignals \in Nat

VARIABLES
  pc,             \* "caller", "entered", "unblocked", "calling", "asleep", "returned"
  pmy_select_timeout_tv, \* "NULL" or "tv", the latter pointing to ...
  my_select_timeout_tv,  \* "immediately" or "a little"
  timeoutptr,     \* what select() gets passed
  kernel_timeout, \* how long the kernel is going to wait
  signal_handled,
  retval,         \* of select(): "EINTR", "ready", "timeout"
  outcome,        \* of my_pselect()
  pending,        \* signals sent and not yet handled
  sent,           \* how many have been sent
  ready,          \* one of the file descriptors is ready
  first_handled   \* history variable: pc when the first handler of this call ran, or "none"

vars == <<pc, pmy_select_timeout_tv, my_select_timeout_tv, timeoutptr, kernel_timeout,
          signal_handled, retval, outcome, pending, sent, ready, first_handled>>

-----------------------------------------------------------------------------
(* The conversion of the caller's time-out, with all signals blocked. *)
Enter ==
  /\ pc = "caller" /\ pc' = "entered"
  /\ \E t \in Timeouts :
       IF t = "forever"
       THEN pmy_select_timeout_tv' = "NULL" /\ UNCHANGED my_select_timeout_tv
       ELSE pmy_select_timeout_tv' = "tv" /\ my_select_timeout_tv' = t
  /\ signal_handled' = FALSE /\ first_handled' = "none"
  /\ UNCHANGED <<timeoutptr, kernel_timeout, retval, outcome, pending, sent, ready>>

Unblock ==
  /\ pc = "entered" /\ pc' = "unblocked"
  /\ UNCHANGED <<pmy_select_timeout_tv, my_select_timeout_tv, timeoutptr, kernel_timeout,
                 signal_handled, retval, outcome, pending, sent, ready, first_handled>>

(* The handlers of what was pending run before sigprocmask() returns. Then   *)
(* the arguments of select() are evaluated ...                               *)
PassTimeout ==
  /\ pc = "unblocked" /\ pending = {} /\ pc' = "calling"
  /\ timeoutptr' = pmy_select_timeout_tv
  /\ UNCHANGED <<pmy_select_timeout_tv, my_select_timeout_tv, kernel_timeout,
                 signal_handled, retval, outcome, pending, sent, ready, first_handled>>

\* Mutant: the time-out is copied to the caller's own variable before the call.
WithoutIndirection == kernel_timeout' = "a little"

(* ... and the kernel copies the time-out. *)
copied_timeout ==
  kernel_timeout' = IF timeoutptr = "NULL" THEN "forever" ELSE my_select_timeout_tv

StartSelect ==
  /\ pc = "calling" /\ pc' = "asleep"
  /\ copied_timeout
  /\ UNCHANGED <<pmy_select_timeout_tv, my_select_timeout_tv, timeoutptr,
                 signal_handled, retval, outcome, pending, sent, ready, first_handled>>

SelectReturns ==
  /\ pc = "asleep" /\ pc' = "returned"
  /\ \/ ready /\ retval' = "ready"
     \/ ~ready /\ kernel_timeout # "forever" /\ retval' = "timeout"
  /\ UNCHANGED <<pmy_select_timeout_tv, my_select_timeout_tv, timeoutptr, kernel_timeout,
                 signal_handled, outcome, pending, sent, ready, first_handled>>

\* Mutant: what select() says is passed on, whatever has been handled.
RetvalOnly == outcome' = retval

result ==
  outcome' = IF signal_handled /\ retval # "EINTR" THEN "EINTR" ELSE retval

(* Signals are blocked again, and the caller told. If something is ready the *)
(* main loop deals with it.                                                  *)
Return ==
  /\ pc = "returned" /\ pc' = "caller"
  /\ result
  /\ ready' = IF outcome' = "ready" THEN FALSE ELSE ready
  /\ UNCHANGED <<pmy_select_timeout_tv, my_select_timeout_tv, timeoutptr, kernel_timeout,
                 signal_handled, retval, pending, sent, first_handled>>

-----------------------------------------------------------------------------
\* Mutant: the time-out is set to zero, and a NULL pointer left alone.
NullStaysNull ==
  /\ my_select_timeout_tv' = "immediately" /\ signal_handled' = TRUE
  /\ UNCHANGED pmy_select_timeout_tv

zero_select_timeout ==
  /\ my_select_timeout_tv' = "immediately"
  /\ pmy_select_timeout_tv' = "tv"
  /\ signal_handled' = TRUE

(* A handler runs. If the kernel is waiting, it gives up. *)
Handler ==
  /\ pc \in {"unblocked", "calling", "asleep", "returned"}
  /\ \E s \in pending : pending' = pending \ {s}
  /\ zero_select_timeout
  /\ first_handled' = IF signal_handled THEN first_handled ELSE pc
  /\ IF pc = "asleep" THEN pc' = "returned" /\ retval' = "EINTR" ELSE UNCHANGED <<pc, retval>>
  /\ UNCHANGED <<timeoutptr, kernel_timeout, outcome, sent, ready>>

-----------------------------------------------------------------------------
Send ==
  /\ sent < MaxSignals /\ sent' = sent + 1
  /\ \E s \in Signals : pending' = pending \cup {s}
  /\ UNCHANGED <<pc, pmy_select_timeout_tv, my_select_timeout_tv, timeoutptr,
                 kernel_timeout, signal_handled, retval, outcome, ready, first_handled>>

BecomesReady ==
  /\ ~ready /\ ready' = TRUE
  /\ UNCHANGED <<pc, pmy_select_timeout_tv, my_select_timeout_tv, timeoutptr,
                 kernel_timeout, signal_handled, retval, outcome, pending, sent, first_handled>>

-----------------------------------------------------------------------------
Init ==
  /\ pc = "caller" /\ pmy_select_timeout_tv = "NULL"
  /\ my_select_timeout_tv = "immediately" /\ timeoutptr = "NULL"
  /\ kernel_timeout = "immediately" /\ signal_handled = FALSE
  /\ retval = "timeout" /\ outcome = "timeout"
  /\ pending = {} /\ sent = 0 /\ ready = FALSE /\ first_handled = "none"

Call == Enter \/ Unblock \/ PassTimeout \/ StartSelect \/ SelectReturns \/ Return
Next == Call \/ Handler \/ Send \/ BecomesReady

Spec == Init /\ [][Next]_vars

-----------------------------------------------------------------------------
(* Type invariant. *)
TypeOK ==
  /\ pc \in {"caller", "entered", "unblocked", "calling", "asleep", "returned"}
  /\ pmy_select_timeout_tv \in {"NULL", "tv"} /\ timeoutptr \in {"NULL", "tv"}
  /\ my_select_timeout_tv \in {"immediately", "a little"}
  /\ kernel_timeout \in {"immediately", "a little", "forever"}
  /\ signal_handled \in BOOLEAN
  /\ retval \in {"EINTR", "ready", "timeout"} /\ outcome \in {"EINTR", "ready", "timeout"}
  /\ pending \subseteq Signals /\ sent \in Nat /\ ready \in BOOLEAN
  /\ first_handled \in {"none", "unblocked", "calling", "asleep", "returned"}

(* The main loop is told that a handler has run, and only then: it has to    *)
(* look again at what the handlers set (command_is_dead, received_WINCH)     *)
(* before it computes its next time-out.                                     *)
HandlersAreNoticed == pc = "caller" => (outcome = "EINTR" <=> signal_handled)

(* The one moment for which zero_select_timeout() comes too late: select()    *)
(* has got a NULL pointer already (until_hell_freezes), and does not wait    *)
(* yet. With any other time-out the kernel still finds the zero.             *)
TooLate == timeoutptr = "NULL" /\ first_handled = "calling"

(* A handler that runs before select() has started keeps it from waiting,    *)
(* for every time-out, also for NULL if it runs before the pointer has been  *)
(* passed on. This is the purpose of zero_select_timeout().                  *)
SignalCutsWaitShort ==
  signal_handled /\ pc = "asleep" /\ ~TooLate => kernel_timeout = "immediately"

(* my_pselect() behaves as an atomic pselect() would, in every step but one: *)
(* it goes to sleep after a handler that has come too late.                  *)
Atomic ==
  INSTANCE AtomicWait WITH
    phase <- CASE pc = "caller" -> "out"
               [] pc = "asleep" /\ kernel_timeout # "immediately" -> "asleep"
               [] OTHER -> "in",
    interrupted <- signal_handled

SleepsTooLate == StartSelect /\ TooLate

ImplementsAtomicWait == Atomic!Init /\ [][Atomic!Next \/ SleepsTooLate]_(Atomic!vars)
=============================================================================
