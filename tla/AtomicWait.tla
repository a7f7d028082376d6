----------------------------- MODULE AtomicWait -----------------------------
(***************************************************************************)
(* What rlwrap's main loop expects of my_pselect() (src/src/utils.c): the    *)
(* promise of the POSIX pselect(). Signals are let in only during the call;  *)
(* once a handler has run the call does not go to sleep any more, and then,  *)
(* and only then, it fails with EINTR.                                       *)
(***************************************************************************)
CONSTANT Signals

VARIABLES
  phase,       \* "out": signals blocked, "in": let in, "asleep": waiting
  interrupted, \* a signal handler has run during this call
  pending,     \* signals sent and not yet handled
  outcome      \* of the last call: "EINTR", "ready", "timeout"

vars == <<phase, interrupted, pending, outcome>>

Init == phase = "out" /\ interrupted = FALSE /\ pending = {} /\ outcome = "timeout"

Send ==
  /\ \E s \in Signals : pending' = pending \cup {s}
  /\ UNCHANGED <<phase, interrupted, outcome>>

Call ==
  /\ phase = "out" /\ phase' = "in" /\ interrupted' = FALSE
  /\ UNCHANGED <<pending, outcome>>

(* A handler runs, and wakes up the call. *)
Handle ==
  /\ phase # "out" /\ phase' = "in" /\ interrupted' = TRUE
  /\ \E s \in pending : pending' = pending \ {s}
  /\ UNCHANGED outcome

Sleep ==
  /\ phase = "in" /\ ~interrupted /\ phase' = "asleep"
  /\ UNCHANGED <<interrupted, pending, outcome>>

Wake ==
  /\ phase = "asleep" /\ phase' = "in"
  /\ UNCHANGED <<interrupted, pending, outcome>>

Return ==
  /\ phase = "in" /\ phase' = "out"
  /\ outcome' \in IF interrupted THEN {"EINTR"} ELSE {"ready", "timeout"}
  /\ UNCHANGED <<interrupted, pending>>

Next == Send \/ Call \/ Handle \/ Sleep \/ Wake \/ Return

Spec == Init /\ [][Next]_vars
=============================================================================
