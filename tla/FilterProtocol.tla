--------------------------- MODULE FilterProtocol ---------------------------
(***************************************************************************)
(* The conversation of rlwrap with its filter (src/src/filter.c,             *)
(* read_patiently2() and write_patiently2() of src/src/utils.c) over two     *)
(* pipes, and the filter's side of it (src/filters/rlwrapfilter.py and       *)
(* RlwrapFilter.pm).                                                         *)
(*                                                                         *)
(* rlwrap sends one message at a time and waits for the answer, but a signal *)
(* handler that runs while it does so talks to the filter as well. The calls *)
(* of pass_through_filter() that are in progress form a stack, frames, of    *)
(* which only the last one runs.                                             *)
(*                                                                         *)
(* A message is two items, its tag and the rest (length and text): rlwrap    *)
(* writes and reads them by separate system calls, between which a signal    *)
(* may come. The text is abstracted to the number of the call it belongs to. *)
(***************************************************************************)
EXTENDS Integers, Sequences

CONSTANTS
  Tags,           \* INPUT, OUTPUT, ...: the messages rlwrap sends of its own accord
  InterestSets,   \* what the filter may have handlers for
  rejects_twice,  \* the filter uses rlwrapfilter.py (see FilterRejectsPrompt)
  PipeSize,       \* how many items a pipe holds
  MaxCalls,       \* bound: number of calls of pass_through_filter()
  MaxInterrupts,  \* bound: number of signals that interrupt a call
  MaxOob          \* bound: number of out of band messages

OutOfBand == {"OUTPUT_OUT_OF_BAND", "ERROR"}
WHAT == "WHAT_ARE_YOUR_INTERESTS"

ASSUME FilterAssumption ==
  /\ Tags \subseteq {"INPUT", "OUTPUT", "HISTORY", "COMPLETION", "PROMPT", "HOTKEY"}
  /\ InterestSets \subseteq SUBSET (Tags \cup {"SIGNAL"})
  /\ rejects_twice \in BOOLEAN
  /\ PipeSize \in Nat \ {0} /\ MaxCalls \in Nat /\ MaxInterrupts \in Nat /\ MaxOob \in Nat

VARIABLES
  status,       \* "running", or the error with which rlwrap has ended
  frames,       \* calls in progress: [tag, id, at, handler]
  unblocked,    \* user_frustration_signals are not blocked
  interests,    \* those of the filter (its handlers)
  interests_known, \* filter_is_interested_in() has asked for them
  filter_pid,   \* FALSE: the death of the filter has been noticed
  to_filter,    \* items in rlwrap's pipe to the filter
  from_filter,  \* items in the filter's pipe to rlwrap
  filter,       \* [state, tag, id]: what the filter is doing, and for which message
  calls,        \* how many calls have been made
  interrupts,   \* how many calls a signal has interrupted
  oob,          \* how many out of band messages have been sent
  answered      \* the calls that have got an answer: [tag, id, answer]

rlwrapVars == <<status, frames, unblocked, interests_known, filter_pid, calls,
                interrupts, answered>>
filterVars == <<filter, oob>>
vars == <<rlwrapVars, filterVars, interests, to_filter, from_filter>>

Item(part, tag, id) == [part |-> part, tag |-> tag, id |-> id]

-----------------------------------------------------------------------------
(* The stack of calls. *)
Top == frames[Len(frames)]
At(place) == status = "running" /\ frames # <<>> /\ Top.at = place
GoTo(place) == frames' = [frames EXCEPT ![Len(frames)].at = place]
Below == SubSeq(frames, 1, Len(frames) - 1)

Push(tag, handler) ==
  /\ frames' = Append(frames, [tag |-> tag, id |-> calls + 1, at |-> "start",
                               handler |-> handler])
  /\ calls' = calls + 1

(* myerror(FATAL, ...) *)
Fail(error) == status' = error /\ UNCHANGED <<frames, unblocked>>

(* The call returns. When a handler returns, the signals are as they were    *)
(* when it interrupted rlwrap, unblocked; the system call it interrupted is  *)
(* tried again, unless it has been waiting for more than a second.           *)
Return ==
  /\ frames' = Below
  /\ unblocked' = Top.handler
  /\ status' \in IF Top.handler THEN {"running", "user_interrupt"} ELSE {"running"}

-----------------------------------------------------------------------------
(* rlwrap: pass_through_filter() *)

(* Signals that come while rlwrap is in select() are calls like the others.  *)
Call ==
  /\ status = "running" /\ frames = <<>> /\ filter_pid /\ calls < MaxCalls
  /\ \E tag \in Tags \cup {"SIGNAL"} : Push(tag, FALSE)
  /\ UNCHANGED <<status, unblocked, interests_known, filter_pid, interrupts, answered,
                 filterVars, interests, to_filter, from_filter>>

(* The filter is asked at all (tag < MAX_INTERESTING_TAG). *)
is_consulted(tag) == tag \in {"SIGNAL", WHAT} \/ tag \in interests

\* Mutant: the question for the interests is itself preceded by that question.
AskWhileAsking ==
  /\ At("start") /\ ~interests_known
  /\ Push(WHAT, FALSE)
  /\ UNCHANGED <<status, unblocked, interests_known, filter_pid, interrupts, answered,
                 filterVars, interests, to_filter, from_filter>>

(* The interests are asked for first, by a call within the call. *)
AskInterests ==
  /\ At("start") /\ Top.tag # WHAT /\ ~interests_known
  /\ Push(WHAT, FALSE)
  /\ UNCHANGED <<status, unblocked, interests_known, filter_pid, interrupts, answered,
                 filterVars, interests, to_filter, from_filter>>

NotInterested ==
  /\ At("start") /\ interests_known /\ ~is_consulted(Top.tag)
  /\ Return
  /\ UNCHANGED <<interests_known, filter_pid, calls, interrupts, answered,
                 filterVars, interests, to_filter, from_filter>>

\* Mutant: signals are unblocked even if the filter handles them.
UnblockAlways == unblocked' = TRUE

allow_interrupts ==
  unblocked' = (Top.tag = WHAT \/ "SIGNAL" \notin interests \/ unblocked)

StartExchange ==
  /\ At("start") /\ (Top.tag = WHAT \/ interests_known) /\ is_consulted(Top.tag)
  /\ allow_interrupts
  /\ GoTo("write_tag")
  /\ UNCHANGED <<status, interests_known, filter_pid, calls, interrupts, answered,
                 filterVars, interests, to_filter, from_filter>>

(* write_message(): nobody reads the pipe of a dead filter (EPIPE). *)
Write(item, next) ==
  /\ IF filter.state = "dead"
     THEN Fail("error_writing") /\ UNCHANGED to_filter
     ELSE /\ Len(to_filter) < PipeSize /\ to_filter' = Append(to_filter, item)
          /\ GoTo(next) /\ UNCHANGED <<status, unblocked>>
  /\ UNCHANGED <<interests_known, filter_pid, calls, interrupts, answered,
                 filterVars, interests, from_filter>>

WriteTag  == At("write_tag") /\ Write(Item("tag", Top.tag, Top.id), "write_rest")
WriteRest == At("write_rest") /\ Write(Item("rest", Top.tag, Top.id), "read_tag")

\* Mutant: any answer will do.
AnyTag(tag) == "read_rest"

\* Mutant: out of band messages are not expected.
InBandOnly(tag) == IF tag = Top.tag THEN "read_rest" ELSE "mismatch"

after_tag(tag) ==
  IF tag \in OutOfBand THEN "read_oob" ELSE IF tag = Top.tag THEN "read_rest" ELSE "mismatch"

(* read_from_filter(), up to the check of the tag. read_patiently2() blocks  *)
(* the signals again.                                                        *)
ReadTag ==
  /\ At("read_tag") /\ from_filter # <<>>
  /\ from_filter' = Tail(from_filter)
  /\ IF after_tag(Head(from_filter).tag) = "mismatch"
     THEN Fail("tag_mismatch")
     ELSE GoTo(after_tag(Head(from_filter).tag)) /\ unblocked' = FALSE /\ UNCHANGED status
  /\ UNCHANGED <<interests_known, filter_pid, calls, interrupts, answered,
                 filterVars, interests, to_filter>>

\* Mutant: after an out of band message nothing more is read.
StopAtOutOfBand ==
  /\ At("read_oob") /\ from_filter # <<>>
  /\ from_filter' = Tail(from_filter)
  /\ IF Head(from_filter).tag = "ERROR" THEN Fail("filter_error") ELSE Return
  /\ UNCHANGED <<interests_known, filter_pid, calls, interrupts, answered,
                 filterVars, interests, to_filter>>

(* read_tagless() and handle_out_of_band(): then the next tag is read. *)
ReadOutOfBand ==
  /\ At("read_oob") /\ from_filter # <<>>
  /\ from_filter' = Tail(from_filter)
  /\ IF Head(from_filter).tag = "ERROR" THEN Fail("filter_error")
     ELSE GoTo("read_tag") /\ UNCHANGED <<status, unblocked>>
  /\ UNCHANGED <<interests_known, filter_pid, calls, interrupts, answered,
                 filterVars, interests, to_filter>>

(* read_tagless(): the answer. *)
ReadAnswer ==
  /\ At("read_rest") /\ from_filter # <<>>
  /\ from_filter' = Tail(from_filter)
  /\ answered' = answered \cup
       {[tag |-> Top.tag, id |-> Top.id, answer |-> Head(from_filter).id]}
  /\ interests_known' = (interests_known \/ Top.tag = WHAT)
  /\ Return
  /\ UNCHANGED <<filter_pid, calls, interrupts, filterVars, interests, to_filter>>

\* Mutant: at the end of file rlwrap goes on reading.
ReadAgain == UNCHANGED <<status, frames, unblocked>>

at_end_of_file == Fail("EOF")

ReadEOF ==
  /\ (At("read_tag") \/ At("read_oob") \/ At("read_rest"))
  /\ from_filter = <<>> /\ filter.state = "dead"
  /\ at_end_of_file
  /\ UNCHANGED <<interests_known, filter_pid, calls, interrupts, answered,
                 filterVars, interests, to_filter, from_filter>>

(* pass_on_signal() interrupts a system call (or comes between two). All     *)
(* signals are blocked in a handler, until pass_through_filter() allows some *)
(* of them again.                                                            *)
Interrupt ==
  /\ status = "running" /\ frames # <<>> /\ unblocked /\ interrupts < MaxInterrupts
  /\ interrupts' = interrupts + 1
  /\ Push("SIGNAL", TRUE) /\ unblocked' = FALSE
  /\ UNCHANGED <<status, interests_known, filter_pid, answered,
                 filterVars, interests, to_filter, from_filter>>

(* child_died() in select(), and filters_last_words() in the main loop, which *)
(* reads until there is an error or nothing left.                            *)
FilterHasDied ==
  /\ status = "running" /\ frames = <<>> /\ filter.state = "dead"
  /\ filter_pid' = FALSE
  /\ frames' = <<[tag |-> "OUTPUT", id |-> 0, at |-> "read_tag", handler |-> FALSE]>>
  /\ UNCHANGED <<status, unblocked, interests_known, calls, interrupts, answered,
                 filterVars, interests, to_filter, from_filter>>

-----------------------------------------------------------------------------
(* The filter: read_message(), the handlers, write_message(). *)

(* What the filter takes for the length and the text of the message may be   *)
(* the tag of another one: it then waits for text that does not come.        *)
FilterReads ==
  /\ filter.state \in {"idle", "reading"} /\ to_filter # <<>>
  /\ to_filter' = Tail(to_filter)
  /\ LET item == Head(to_filter)
     IN  filter' = CASE filter.state = "idle" ->
                          [state |-> "reading", tag |-> item.tag, id |-> item.id]
                     [] filter.state = "reading" /\ item.part = "rest" ->
                          [filter EXCEPT !.state = "handling"]
                     [] OTHER -> [filter EXCEPT !.state = "garbled"]
  /\ UNCHANGED <<rlwrapVars, oob, interests, from_filter>>

FilterSends(item, state) ==
  /\ Len(from_filter) < PipeSize
  /\ from_filter' = Append(from_filter, item)
  /\ filter' = [filter EXCEPT !.state = state]
  /\ UNCHANGED <<rlwrapVars, interests, to_filter>>

(* Each handler may send out of band messages before it returns. *)
FilterSendsOob ==
  \/ /\ filter.state = "handling" /\ oob < MaxOob /\ oob' = oob + 1
     /\ \E tag \in OutOfBand : FilterSends(Item("tag", tag, 0), tag)
  \/ /\ filter.state \in OutOfBand /\ UNCHANGED oob
     /\ FilterSends(Item("rest", filter.state, 0), "handling")

FilterAnswers ==
  /\ UNCHANGED oob
  /\ \/ /\ filter.state \in {"handling", "again"}
        /\ FilterSends(Item("tag", filter.tag, filter.id), "answering")
     \/ /\ filter.state = "answering"
        /\ FilterSends(Item("rest", filter.tag, filter.id), "idle")
     \/ /\ filter.state = "rejecting"
        /\ FilterSends(Item("tag", filter.tag, filter.id), "rejected")
     \/ /\ filter.state = "rejected"
        /\ FilterSends(Item("rest", filter.tag, filter.id),
                       IF rejects_twice THEN "again" ELSE "idle")

(* The filter does not take an empty prompt for a prompt, and answers        *)
(* REJECT_PROMPT. In perl, that is all ("next"). The python version goes on  *)
(* to handle the message, and answers a second time.                         *)
FilterRejectsPrompt ==
  /\ filter.state = "handling" /\ filter.tag = "PROMPT"
  /\ filter' = [filter EXCEPT !.state = "rejecting"]
  /\ UNCHANGED <<rlwrapVars, oob, interests, to_filter, from_filter>>

(* execv() fails: the child sends an error message on behalf of the filter,  *)
(* and then waits long enough for rlwrap to go away.                         *)
FilterExecFails ==
  /\ filter.state = "idle" /\ calls = 0 /\ PipeSize >= 2 /\ from_filter = <<>>
  /\ from_filter' = <<Item("tag", "ERROR", 0), Item("rest", "ERROR", 0)>>
  /\ filter' = [filter EXCEPT !.state = "sorry"]
  /\ UNCHANGED <<rlwrapVars, oob, interests, to_filter>>

FilterDies ==
  /\ filter.state \notin {"dead", "sorry"}
  /\ filter' = [filter EXCEPT !.state = "dead"]
  /\ UNCHANGED <<rlwrapVars, oob, interests, to_filter, from_filter>>

-----------------------------------------------------------------------------
Init ==
  /\ status = "running" /\ frames = <<>> /\ unblocked = FALSE
  /\ interests \in InterestSets /\ interests_known = FALSE /\ filter_pid = TRUE
  /\ to_filter = <<>> /\ from_filter = <<>>
  /\ filter = [state |-> "idle", tag |-> WHAT, id |-> 0]
  /\ calls = 0 /\ interrupts = 0 /\ oob = 0 /\ answered = {}

Rlwrap == Call \/ AskInterests \/ NotInterested \/ StartExchange \/ WriteTag \/ WriteRest
          \/ ReadTag \/ ReadOutOfBand \/ ReadAnswer \/ ReadEOF \/ Interrupt \/ FilterHasDied
Filter == FilterReads \/ FilterSendsOob \/ FilterAnswers \/ FilterRejectsPrompt
          \/ FilterExecFails \/ FilterDies

Next == Rlwrap \/ Filter

Spec == Init /\ [][Next]_vars

(* Fairness: rlwrap goes on with a call that is in progress, and the filter  *)
(* with a message it has got. Neither signals nor new calls have to come.    *)
RlwrapGoesOn == Rlwrap /\ (frames # <<>> \/ filter.state = "dead") /\ UNCHANGED interrupts
FilterGoesOn == FilterReads \/ FilterSendsOob \/ FilterAnswers

FairSpec == Spec /\ WF_vars(RlwrapGoesOn) /\ WF_vars(FilterGoesOn)

-----------------------------------------------------------------------------
Tag == Tags \cup {"SIGNAL", WHAT}

ItemType == [part : {"tag", "rest"}, tag : Tag \cup OutOfBand, id : Nat]

FrameType == [tag : Tag \cup {"OUTPUT"}, id : Nat, handler : BOOLEAN,
              at : {"start", "write_tag", "write_rest", "read_tag", "read_oob", "read_rest"}]

(* Type invariant, and the depth of the stack: the call for the interests,   *)
(* which pass_through_filter() makes from within itself, is made only once   *)
(* for each call of main loop or signal handler.                             *)
TypeOK ==
  /\ status \in {"running", "error_writing", "tag_mismatch", "filter_error", "EOF",
                 "user_interrupt"}
  /\ frames \in Seq(FrameType)
  /\ Len(frames) <= 2 * (1 + interrupts)
  /\ unblocked \in BOOLEAN /\ interests \subseteq Tag
  /\ interests_known \in BOOLEAN /\ filter_pid \in BOOLEAN
  /\ to_filter \in Seq(ItemType) /\ from_filter \in Seq(ItemType)
  /\ Len(to_filter) <= PipeSize /\ Len(from_filter) <= PipeSize
  /\ filter \in [state : {"idle", "reading", "handling", "answering", "rejecting", "rejected",
                          "again", "garbled", "sorry", "dead"} \cup OutOfBand,
                 tag : Tag \cup OutOfBand, id : Nat]
  /\ calls \in Nat /\ interrupts \in Nat /\ oob \in Nat
  /\ answered \subseteq [tag : Tag \cup {"OUTPUT"}, id : Nat, answer : Nat]

(* What rlwrap takes for the filter's answer to a message is the answer to   *)
(* that message, even if signal handlers have talked to the filter meanwhile.*)
AnswersMatch == \A a \in answered : a.tag \in Tags /\ a.id > 0 => a.answer = a.id

(* A filter that handles signals is told about each one by itself: no signal *)
(* gets the answer that belongs to another one.                              *)
SignalsMatch ==
  "SIGNAL" \in interests => \A a \in answered : a.tag = "SIGNAL" => a.answer = a.id

(* Between two calls nothing is left in the pipes, and the filter is waiting *)
(* for the next message.                                                     *)
InSync ==
  status = "running" /\ frames = <<>> /\ filter.state \notin {"dead", "sorry"} =>
    to_filter = <<>> /\ from_filter = <<>> /\ filter.state = "idle"

(* The error message with which a filter takes its leave is shown: rlwrap    *)
(* does not fail for another reason while the message waits to be read       *)
(* (unless a signal has interrupted a call).                                 *)
ErrorNotLost ==
  interrupts = 0 /\ status \notin {"running", "filter_error"} =>
    \A i \in 1 .. Len(from_filter) : from_filter[i].tag # "ERROR"

(* Every call comes to an end, also if the filter dies: rlwrap and the       *)
(* filter never wait for each other, except when a signal came between the   *)
(* parts of a message and the filter got two messages in one.                *)
CallEnds == frames # <<>> ~> frames = <<>> \/ status # "running" \/ filter.state = "garbled"
=============================================================================
