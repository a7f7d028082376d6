--------------------------- MODULE PselectProofs ---------------------------
(* Proofs about my_pselect(), for every set of signals and of time-outs.     *)
EXTENDS Pselect, TLAPS

-----------------------------------------------------------------------------
(* A handler that has run, by the step at which it is looked at: select()    *)
(* was interrupted by it, or it will be seen in signal_handled.              *)
InterruptedByHandler == pc = "returned" /\ retval = "EINTR" => signal_handled

HandlerCleared == pc = "entered" => ~signal_handled

(* From the unblocking until select() has started, signal_handled is set     *)
(* only with the time-out at zero, ...                                       *)
TimeoutIsZeroed ==
  pc \in {"unblocked", "calling"} /\ signal_handled => my_select_timeout_tv = "immediately"

(* ... and the pointer select() gets is not NULL, unless it was passed on    *)
(* before the handler ran.                                                   *)
PointerIsReady ==
  /\ pc = "unblocked" /\ signal_handled => pmy_select_timeout_tv = "tv"
  /\ pc = "calling" /\ signal_handled => timeoutptr = "tv" \/ TooLate

Base == TypeOK /\ HandlersAreNoticed /\ InterruptedByHandler
Short == PointerIsReady /\ HandlerCleared /\ TimeoutIsZeroed /\ SignalCutsWaitShort

LEMMA InitBase == Init => Base
<1> SUFFICES ASSUME Init PROVE Base
  OBVIOUS
<1>1. TypeOK
  BY DEF Init, TypeOK
<1>2. HandlersAreNoticed /\ InterruptedByHandler
  <2>1. pc = "caller" /\ outcome = "timeout" /\ signal_handled = FALSE
    BY DEF Init
  <2>2. "caller" # "returned" /\ "timeout" # "EINTR"
    OBVIOUS
  <2> QED
    BY <2>1, <2>2, Zenon DEF HandlersAreNoticed, InterruptedByHandler
<1> QED
  BY <1>1, <1>2 DEF Base

LEMMA NextTypeOK == TypeOK /\ [Next]_vars => TypeOK'
<1> SUFFICES ASSUME TypeOK, [Next]_vars PROVE TypeOK'
  OBVIOUS
<1>1. CASE Send
  <2>1. sent \in Nat /\ pending \subseteq Signals
    BY DEF TypeOK
  <2>2. sent' \in Nat
    BY <1>1, <2>1 DEF Send
  <2>3. pending' \subseteq Signals
    BY <1>1, <2>1 DEF Send
  <2>4. /\ UNCHANGED <<pc, pmy_select_timeout_tv, my_select_timeout_tv, timeoutptr>>
        /\ UNCHANGED <<kernel_timeout, signal_handled, retval, outcome, ready, first_handled>>
    BY <1>1 DEF Send
  <2> QED
    BY <2>2, <2>3, <2>4, ZenonT(60) DEF TypeOK
<1>2. CASE Enter
  BY <1>2, PselectAssumption DEF Enter, TypeOK
<1>3. CASE Unblock \/ PassTimeout
  BY <1>3 DEF Unblock, PassTimeout, TypeOK
<1>4. CASE StartSelect
  BY <1>4 DEF StartSelect, copied_timeout, TypeOK
<1>5. CASE SelectReturns
  BY <1>5 DEF SelectReturns, TypeOK
<1>6. CASE Return
  BY <1>6 DEF Return, result, TypeOK
<1>7. CASE Handler
  BY <1>7 DEF Handler, zero_select_timeout, TypeOK
<1>8. CASE BecomesReady
  <2>1. ready' \in BOOLEAN
    BY <1>8 DEF BecomesReady
  <2>2. /\ UNCHANGED <<pc, pmy_select_timeout_tv, my_select_timeout_tv, timeoutptr>>
        /\ UNCHANGED <<kernel_timeout, signal_handled, retval, outcome, pending, sent>>
        /\ UNCHANGED first_handled
    BY <1>8 DEF BecomesReady
  <2> QED
    BY <2>1, <2>2, ZenonT(60) DEF TypeOK
<1>9. CASE UNCHANGED vars
  BY <1>9, ZenonT(60) DEF vars, TypeOK
<1> QED
  BY <1>1, <1>2, <1>3, <1>4, <1>5, <1>6, <1>7, <1>8, <1>9 DEF Next, Call

LEMMA NextBase == Base /\ [Next]_vars => Base'
<1> SUFFICES ASSUME Base, [Next]_vars PROVE Base'
  OBVIOUS
<1>1. TypeOK'
  BY NextTypeOK DEF Base
<1>2. HandlersAreNoticed' /\ InterruptedByHandler'
  <2>1. /\ HandlersAreNoticed /\ InterruptedByHandler
        /\ signal_handled \in BOOLEAN
    BY DEF Base, TypeOK
  <2> USE <2>1 DEF HandlersAreNoticed, InterruptedByHandler
  <2>2. CASE Enter
    BY <2>2 DEF Enter
  <2>3. CASE Unblock \/ PassTimeout \/ StartSelect
    BY <2>3 DEF Unblock, PassTimeout, StartSelect
  <2>4. CASE SelectReturns
    BY <2>4 DEF SelectReturns
  <2>5. CASE Return
    BY <2>5 DEF Return, result
  <2>6. CASE Handler
    BY <2>6 DEF Handler, zero_select_timeout
  <2>7. CASE Send \/ BecomesReady
    BY <2>7 DEF Send, BecomesReady
  <2>8. CASE UNCHANGED vars
    BY <2>8 DEF vars
  <2> QED
    BY <2>2, <2>3, <2>4, <2>5, <2>6, <2>7, <2>8 DEF Next, Call
<1> QED
  BY <1>1, <1>2 DEF Base

LEMMA InitShort == Init => Short
BY DEF Init, Short, PointerIsReady, HandlerCleared, TimeoutIsZeroed, SignalCutsWaitShort,
       TooLate

LEMMA NextShort == Base /\ Short /\ [Next]_vars => Short'
<1> SUFFICES ASSUME Base, Short, [Next]_vars PROVE Short'
  OBVIOUS
<1> USE DEF Base, TypeOK, Short, PointerIsReady, HandlerCleared, TimeoutIsZeroed,
            SignalCutsWaitShort, TooLate
<1>1. CASE Enter
  BY <1>1 DEF Enter
<1>2. CASE Unblock
  BY <1>2 DEF Unblock
<1>3. CASE PassTimeout
  BY <1>3 DEF PassTimeout
<1>4. CASE StartSelect
  BY <1>4 DEF StartSelect, copied_timeout
<1>5. CASE SelectReturns \/ Return
  BY <1>5 DEF SelectReturns, Return
<1>6. CASE Handler
  BY <1>6 DEF Handler, zero_select_timeout
<1>7. CASE Send
  BY <1>7 DEF Send
<1>9. CASE BecomesReady
  BY <1>9 DEF BecomesReady
<1>8. CASE UNCHANGED vars
  BY <1>8 DEF vars
<1> QED
  BY <1>1, <1>2, <1>3, <1>4, <1>5, <1>6, <1>7, <1>8, <1>9 DEF Next, Call

-----------------------------------------------------------------------------
(* The caller of my_pselect() is told that a handler has run, and only then, *)
(* whatever the time-outs are (errno = EINTR at the end of my_pselect()).    *)
THEOREM HandlersAlwaysNoticed == Spec => []HandlersAreNoticed
<1>1. Init => Base
  BY InitBase
<1>2. Base /\ [Next]_vars => Base'
  BY NextBase
<1>3. Base => HandlersAreNoticed
  BY DEF Base
<1> QED
  BY <1>1, <1>2, <1>3, PTL DEF Spec

(* Whatever the time-out is, NULL included, a handler that runs before        *)
(* select() waits keeps it from waiting, except in the one moment in which   *)
(* the NULL has been passed on already: the trick with zero_select_timeout() *)
(* works as far as it can (my_pselect()).                                    *)
THEOREM HandlersCutWaitShort == Spec => []SignalCutsWaitShort
<1>1. Init => Base /\ Short
  BY InitBase, InitShort
<1>2. Base /\ Short /\ [Next]_vars => (Base /\ Short)'
  BY NextBase, NextShort
<1>3. Short => SignalCutsWaitShort
  BY DEF Short
<1> QED
  BY <1>1, <1>2, <1>3, PTL DEF Spec

(* my_pselect(), called with any time-outs, implements the atomic pselect()  *)
(* that the main loop was written for, but for the step in which it goes to  *)
(* sleep after a handler that has come too late.                             *)
THEOREM PselectImplementsAtomicWait == Spec => ImplementsAtomicWait
<1>1. Init => Atomic!Init
  BY DEF Init, Atomic!Init
<1>2. ASSUME Base, Short, [Next]_vars
      PROVE  [Atomic!Next \/ SleepsTooLate]_(Atomic!vars)
  <2> USE <1>2 DEF Base, TypeOK, Atomic!Next, Atomic!vars, Atomic!Send, Atomic!Call,
            Atomic!Handle, Atomic!Sleep, Atomic!Wake, Atomic!Return
  <2>1. CASE Enter
    BY <2>1 DEF Enter
  <2>2. CASE Unblock \/ PassTimeout \/ BecomesReady
    BY <2>2 DEF Unblock, PassTimeout, BecomesReady
  <2>3. CASE StartSelect /\ ~TooLate
    <3>1. kernel_timeout' # "immediately" => ~signal_handled
      BY <2>3 DEF StartSelect, copied_timeout, Short, PointerIsReady, TimeoutIsZeroed
    <3> QED
      BY <2>3, <3>1 DEF StartSelect
  <2>4. CASE SelectReturns
    BY <2>4 DEF SelectReturns
  <2>5. CASE Return
    BY <2>5 DEF Return, result, InterruptedByHandler
  <2>6. CASE Handler
    BY <2>6 DEF Handler, zero_select_timeout
  <2>7. CASE Send
    BY <2>7 DEF Send
  <2>8. CASE UNCHANGED vars
    BY <2>8 DEF vars
  <2>9. CASE StartSelect /\ TooLate
    BY <2>9 DEF SleepsTooLate
  <2> QED
    BY <2>1, <2>2, <2>3, <2>4, <2>5, <2>6, <2>7, <2>8, <2>9 DEF Next, Call
<1>3. Init => Base /\ Short
  BY InitBase, InitShort
<1>4. Base /\ Short /\ [Next]_vars => (Base /\ Short)'
  BY NextBase, NextShort
<1> QED
  BY <1>1, <1>2, <1>3, <1>4, PTL DEF Spec, ImplementsAtomicWait
=============================================================================
