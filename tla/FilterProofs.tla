---------------------------- MODULE FilterProofs -----------------------------
(***************************************************************************)
(* Proofs about FilterProtocol, for all tags, sets of interests, sizes of     *)
(* pipes, and numbers of calls, interrupts and out of band messages. First    *)
(* the calls of pass_through_filter(), which lie on each other: the type      *)
(* invariant with the bound on their number, and what each of them may be     *)
(* doing. Then: from a filter that answers each message once rlwrap gets the *)
(* answers to its own questions, whatever signals come; and between two calls *)
(* nothing is left in the pipes: each answer that is still to come has a call *)
(* that waits for it, they are counted.                                       *)
(***************************************************************************)
EXTENDS FilterProtocol, SequenceTheorems, FiniteSetTheorems, TLAPS

Places == {"start", "write_tag", "write_rest", "read_tag", "read_oob", "read_rest"}

-----------------------------------------------------------------------------
(* The stack of calls. *)

(* Only the first call is about a text. A call lies on another one because   *)
(* it asks for the interests that one needs, or because a signal has come    *)
(* while that one could be interrupted.                                      *)
Interruptible == {"write_tag", "write_rest", "read_tag"}

Nested ==
  \A i \in 1 .. Len(frames) :
    IF i = 1 THEN ~frames[i].handler
    ELSE IF frames[i].handler
    THEN frames[i].tag = "SIGNAL" /\ frames[i - 1].at \in Interruptible /\ interrupts > 0
    ELSE frames[i].tag = WHAT /\ frames[i - 1].at = "start"

(* A call with number 0 shows the last words of a dead filter. *)
LastWords ==
  \A i \in 1 .. Len(frames) :
    /\ frames[i].id <= calls
    /\ frames[i].id > 0 => frames[i].tag \in Tag
    /\ frames[i].id = 0 => /\ i = Len(frames) /\ ~unblocked /\ filter.state = "dead"
                           /\ frames[i].tag = "OUTPUT"
                           /\ frames[i].at \in {"read_tag", "read_oob", "read_rest"}

(* A filter that handles signals is interrupted by none, except while it is  *)
(* asked for its interests.                                                  *)
BlockedWhenHandled(i) ==
  frames[i].tag = WHAT \/ ("SIGNAL" \notin interests /\ interests_known)

Blocked ==
  /\ unblocked => frames # <<>> /\ Top.at \in Interruptible /\ BlockedWhenHandled(Len(frames))
  /\ \A i \in 1 .. Len(frames) - 1 : frames[i].at # "start" => BlockedWhenHandled(i)

(* The depth of the stack. *)
DepthOK ==
  /\ Len(frames) <= 2 * (1 + interrupts)
  /\ frames # <<>> /\ Top.tag # WHAT => Len(frames) <= 2 * interrupts + 1

StackInv == Nested /\ LastWords /\ Blocked /\ DepthOK

-----------------------------------------------------------------------------
(* What the operations on the stack do to each call. *)

LEMMA PushEffect ==
  ASSUME frames \in Seq(FrameType), calls \in Nat,
         NEW tag \in Tag, NEW handler \in BOOLEAN, Push(tag, handler)
  PROVE  /\ frames' \in Seq(FrameType) /\ frames' # <<>> /\ Len(frames') = Len(frames) + 1
         /\ \A i \in 1 .. Len(frames) : frames'[i] = frames[i]
         /\ frames'[Len(frames) + 1] = [tag |-> tag, id |-> calls + 1, at |-> "start",
                                        handler |-> handler]
         /\ calls' = calls + 1
<1> DEFINE f == [tag |-> tag, id |-> calls + 1, at |-> "start", handler |-> handler]
<1>1. f \in FrameType
  BY DEF FrameType
<1>2. frames' = Append(frames, f) /\ calls' = calls + 1
  BY DEF Push
<1> QED BY <1>1, <1>2, AppendProperties

LEMMA GoToEffect ==
  ASSUME frames \in Seq(FrameType), frames # <<>>, NEW place \in Places, GoTo(place)
  PROVE  /\ frames' \in Seq(FrameType) /\ frames' # <<>> /\ Len(frames') = Len(frames)
         /\ \A i \in 1 .. Len(frames) :
              /\ i # Len(frames) => frames'[i] = frames[i]
              /\ frames'[i].tag = frames[i].tag /\ frames'[i].id = frames[i].id
              /\ frames'[i].handler = frames[i].handler
         /\ Top'.at = place
<1> DEFINE n == Len(frames)
           f == [frames[n] EXCEPT !.at = place]
<1>1. n \in 1 .. n /\ n \in Nat
  BY EmptySeq, LenProperties
<1>2. frames[n] \in FrameType
  BY <1>1, ElementOfSeq
<1>3. f \in FrameType /\ f.at = place /\ f.tag = frames[n].tag /\ f.id = frames[n].id
      /\ f.handler = frames[n].handler
  BY <1>2 DEF FrameType, Places
<1>4. frames' = [frames EXCEPT ![n] = f]
  BY DEF GoTo
<1>5. /\ frames' \in Seq(FrameType) /\ Len(frames') = n
      /\ \A i \in 1 .. n : frames'[i] = IF i = n THEN f ELSE frames[i]
  BY <1>1, <1>3, <1>4, ExceptSeq
<1>6. frames' # <<>>
  BY <1>1, <1>5, EmptySeq
<1> QED BY <1>1, <1>3, <1>5, <1>6 DEF Top

LEMMA BelowEffect ==
  ASSUME frames \in Seq(FrameType), frames # <<>>
  PROVE  /\ Below \in Seq(FrameType) /\ Len(Below) = Len(frames) - 1
         /\ \A i \in 1 .. Len(frames) - 1 : Below[i] = frames[i]
<1>1. Len(frames) \in Nat \ {0}
  BY EmptySeq
<1>2. \A i \in 1 .. Len(frames) - 1 : frames[i] \in FrameType
  BY <1>1, ElementOfSeq
<1> DEFINE n == Len(frames) - 1
<1>3. /\ SubSeq(frames, 1, n) \in Seq(FrameType)
      /\ Len(SubSeq(frames, 1, n)) = IF 1 <= n THEN n - 1 + 1 ELSE 0
      /\ \A i \in 1 .. n - 1 + 1 : SubSeq(frames, 1, n)[i] = frames[1 + i - 1]
  <2>1. 1 \in Int /\ n \in Int
    BY <1>1
  <2> QED BY <2>1, <1>2, SubSeqProperties
<1>4. ASSUME NEW i \in 1 .. n PROVE Below[i] = frames[i]
  <2>1. i \in 1 .. n - 1 + 1 /\ 1 + i - 1 = i
    BY <1>1
  <2> QED BY <2>1, <1>3 DEF Below
<1>5. Below = SubSeq(frames, 1, n)
  BY DEF Below
<1>6. Below \in Seq(FrameType)
  BY <1>3, <1>5
<1>7. Len(Below) = IF 1 <= n THEN n - 1 + 1 ELSE 0
  BY <1>3, <1>5
<1>8. Len(Below) = n
  BY <1>1, <1>7
<1> QED BY <1>4, <1>6, <1>8

LEMMA SomeFrames ==
  ASSUME TypeOK
  PROVE  /\ frames \in Seq(FrameType) /\ Len(frames) \in Nat
         /\ frames # <<>> <=> Len(frames) \in 1 .. Len(frames)
         /\ frames # <<>> => Len(frames) > 0 /\ Top \in FrameType
         /\ \A i \in 1 .. Len(frames) : frames[i] \in FrameType
<1>1. frames \in Seq(FrameType)
  BY DEF TypeOK
<1>2. Len(frames) \in Nat /\ (frames # <<>> <=> Len(frames) # 0)
  BY <1>1, LenProperties, EmptySeq
<1>3. \A i \in 1 .. Len(frames) : frames[i] \in FrameType
  BY <1>1, ElementOfSeq
<1>4. frames # <<>> <=> Len(frames) \in 1 .. Len(frames)
  BY <1>2
<1> QED BY <1>1, <1>2, <1>3, <1>4 DEF Top

-----------------------------------------------------------------------------
(* What each kind of operation keeps. *)

LEMMA SameKeepsStack ==
  ASSUME TypeOK, StackInv, UNCHANGED <<frames, unblocked, interests, calls, interrupts>>,
         interests_known => interests_known',
         filter.state = "dead" => filter'.state = "dead"
  PROVE  StackInv'
<1>1. Nested' /\ DepthOK'
  BY DEF StackInv, Nested, DepthOK, Top
<1>2. LastWords'
  BY DEF StackInv, LastWords
<1>3. Blocked'
  BY DEF StackInv, Blocked, BlockedWhenHandled, Top
<1> QED BY <1>1, <1>2, <1>3 DEF StackInv

LEMMA GoToKeepsStack ==
  ASSUME TypeOK, StackInv, frames # <<>>, NEW place \in Places \ {"start"}, GoTo(place),
         UNCHANGED <<interests, interests_known, calls, interrupts, filter>>,
         unblocked' => place \in Interruptible /\ BlockedWhenHandled(Len(frames)),
         Top.id = 0 => place \in {"read_tag", "read_oob", "read_rest"} /\ ~unblocked'
  PROVE  StackInv'
<1> DEFINE n == Len(frames)
<1>1. n \in Nat /\ n \in 1 .. n
  BY SomeFrames
<1>2. /\ frames' # <<>> /\ Len(frames') = n
      /\ \A i \in 1 .. n :
           /\ i # n => frames'[i] = frames[i]
           /\ frames'[i].tag = frames[i].tag /\ frames'[i].id = frames[i].id
           /\ frames'[i].handler = frames[i].handler
      /\ Top'.at = place /\ frames'[n].at = place /\ Top'.tag = Top.tag
  <2>1. frames \in Seq(FrameType)
    BY DEF TypeOK
  <2> QED BY <1>1, <2>1, GoToEffect DEF Top
<1>3. Nested'
  BY <1>1, <1>2 DEF StackInv, Nested
<1>4. LastWords'
  BY <1>1, <1>2 DEF StackInv, LastWords, Top
<1>5. Blocked'
  BY <1>1, <1>2 DEF StackInv, Blocked, BlockedWhenHandled, Top
<1>6. DepthOK'
  BY <1>1, <1>2 DEF StackInv, DepthOK
<1> QED BY <1>3, <1>4, <1>5, <1>6 DEF StackInv

LEMMA ReturnKeepsStack ==
  ASSUME TypeOK, StackInv, frames # <<>>, Return,
         UNCHANGED <<interests, calls, interrupts, filter>>,
         interests_known => interests_known'
  PROVE  StackInv'
<1> DEFINE n == Len(frames)
<1>1. n \in Nat /\ n \in 1 .. n /\ n - 1 \in Nat
  BY SomeFrames
<1>2. /\ Len(frames') = n - 1 /\ frames' \in Seq(FrameType)
      /\ \A i \in 1 .. n - 1 : frames'[i] = frames[i]
  BY BelowEffect DEF Return, TypeOK
<1>3. frames' # <<>> => n - 1 \in 1 .. n - 1 /\ Top' = frames[n - 1]
  BY <1>1, <1>2, EmptySeq DEF Top
<1>4. interrupts \in Nat
  BY DEF TypeOK
<1>5. Nested'
  BY <1>1, <1>2 DEF StackInv, Nested
<1>6. Blocked'
  <2>1. unblocked' => Top.handler
    BY DEF Return
  <2>2. Top.handler => n # 1 /\ n - 1 \in 1 .. n - 1 /\ frames[n - 1].at \in Interruptible
    BY <1>1 DEF StackInv, Nested, Top
  <2>3. Top.handler => BlockedWhenHandled(n - 1)
    BY <1>1, <2>2 DEF StackInv, Blocked, Interruptible
  <2>4. unblocked' => frames' # <<>>
    BY <1>1, <1>2, <2>1, <2>2, EmptySeq
  <2> QED BY <1>1, <1>2, <1>3, <2>1, <2>2, <2>3, <2>4 DEF StackInv, Blocked, BlockedWhenHandled
<1>7. LastWords'
  BY <1>1, <1>2 DEF StackInv, LastWords
<1>8. DepthOK'
  BY <1>1, <1>2, <1>3, <1>4 DEF StackInv, DepthOK
<1> QED BY <1>5, <1>6, <1>7, <1>8 DEF StackInv

-----------------------------------------------------------------------------
(* Types *)

Flags == unblocked \in BOOLEAN /\ interests_known \in BOOLEAN /\ filter_pid \in BOOLEAN

FilterStates ==
  {"idle", "reading", "handling", "answering", "rejecting", "rejected", "again", "garbled",
   "sorry", "dead"} \cup OutOfBand

(* TypeOK without the flags, in parts. *)
RlwrapTypes ==
  /\ status \in {"running", "error_writing", "tag_mismatch", "filter_error", "EOF",
                 "user_interrupt"}
  /\ interests \subseteq Tag /\ calls \in Nat /\ interrupts \in Nat
  /\ answered \subseteq [tag : Tag \cup {"OUTPUT"}, id : Nat, answer : Nat]

FilterTypes ==
  /\ filter \in [state : FilterStates, tag : Tag \cup OutOfBand, id : Nat]
  /\ oob \in Nat

PipeTypes ==
  /\ to_filter \in Seq(ItemType) /\ Len(to_filter) <= PipeSize
  /\ from_filter \in Seq(ItemType) /\ Len(from_filter) <= PipeSize

LEMMA TypeParts ==
  TypeOK <=> /\ Flags /\ RlwrapTypes /\ FilterTypes /\ PipeTypes
             /\ frames \in Seq(FrameType) /\ Len(frames) <= 2 * (1 + interrupts)
BY Zenon DEF TypeOK, Flags, RlwrapTypes, FilterTypes, PipeTypes, FilterStates

(* A pipe that is read or written. *)
LEMMA Reading ==
  ASSUME NEW pipe \in Seq(ItemType), pipe # <<>>, Len(pipe) <= PipeSize
  PROVE  /\ Head(pipe) \in ItemType /\ Head(pipe) = pipe[1] /\ Len(pipe) \in Nat /\ Len(pipe) > 0
         /\ Tail(pipe) \in Seq(ItemType) /\ Len(Tail(pipe)) = Len(pipe) - 1
         /\ Len(Tail(pipe)) <= PipeSize
         /\ \A p \in 1 .. Len(pipe) - 1 : Tail(pipe)[p] = pipe[p + 1]
<1>1. Len(pipe) \in Nat \ {0}
  BY EmptySeq
<1>2. /\ Head(pipe) \in ItemType /\ Tail(pipe) \in Seq(ItemType)
      /\ Len(Tail(pipe)) = Len(pipe) - 1
      /\ \A p \in 1 .. Len(Tail(pipe)) : Tail(pipe)[p] = pipe[p + 1]
  BY HeadTailProperties
<1>3. Head(pipe) = pipe[1]
  OBVIOUS
<1>4. Len(Tail(pipe)) <= PipeSize
  BY <1>1, <1>2, FilterAssumption DEF FilterAssumption
<1> QED BY <1>1, <1>2, <1>3, <1>4

LEMMA Writing ==
  ASSUME NEW pipe \in Seq(ItemType), NEW item \in ItemType, Len(pipe) < PipeSize
  PROVE  /\ Append(pipe, item) \in Seq(ItemType) /\ Len(Append(pipe, item)) <= PipeSize
         /\ Append(pipe, item) # <<>> /\ Len(pipe) \in Nat
         /\ Len(Append(pipe, item)) = Len(pipe) + 1
         /\ \A p \in 1 .. Len(pipe) : Append(pipe, item)[p] = pipe[p]
         /\ Append(pipe, item)[Len(pipe) + 1] = item
<1>1. Len(pipe) \in Nat
  BY LenProperties
<1>2. /\ Append(pipe, item) \in Seq(ItemType) /\ Append(pipe, item) # <<>>
      /\ Len(Append(pipe, item)) = Len(pipe) + 1
      /\ \A p \in 1 .. Len(pipe) : Append(pipe, item)[p] = pipe[p]
      /\ Append(pipe, item)[Len(pipe) + 1] = item
  BY AppendProperties
<1>3. Len(Append(pipe, item)) <= PipeSize
  BY <1>1, <1>2, FilterAssumption DEF FilterAssumption
<1> QED BY <1>1, <1>2, <1>3

LEMMA FrameParts ==
  ASSUME NEW f \in FrameType
  PROVE  /\ f.tag \in Tag \cup {"OUTPUT"} /\ f.id \in Nat /\ f.handler \in BOOLEAN
         /\ f.at \in Places
BY DEF FrameType, Places

LEMMA ItemParts ==
  ASSUME NEW i \in ItemType
  PROVE  i.part \in {"tag", "rest"} /\ i.tag \in Tag \cup OutOfBand /\ i.id \in Nat
BY DEF ItemType

(* The frame of a new call. *)
LEMMA PushKeepsStack ==
  ASSUME TypeOK, StackInv, NEW tag \in Tag, NEW handler \in BOOLEAN, Push(tag, handler),
         UNCHANGED <<interests, interests_known, filter>>, ~unblocked',
         interrupts' \in Nat, interrupts' >= interrupts,
         frames = <<>> => ~handler,
         frames # <<>> /\ handler => tag = "SIGNAL" /\ unblocked /\ interrupts' > interrupts,
         frames # <<>> /\ ~handler => tag = WHAT /\ Top.at = "start" /\ Top.tag # WHAT
  PROVE  frames' \in Seq(FrameType) /\ StackInv'
<1> DEFINE n == Len(frames)
           f == [tag |-> tag, id |-> calls + 1, at |-> "start", handler |-> handler]
<1>1. n \in Nat /\ (frames # <<>> => n > 0 /\ n \in 1 .. n) /\ (frames = <<>> => n = 0)
  BY SomeFrames, EmptySeq
<1>2. /\ frames' \in Seq(FrameType) /\ frames' # <<>> /\ Len(frames') = n + 1
      /\ \A i \in 1 .. n : frames'[i] = frames[i]
      /\ frames'[n + 1] = f /\ calls' = calls + 1
  BY PushEffect DEF TypeOK
<1>3. calls \in Nat /\ interrupts \in Nat
  BY DEF TypeOK
<1>4. Top' = f
  BY <1>2 DEF Top
<1>5. ~handler \/ (unblocked /\ n > 0)
  BY <1>1
<1>6. Nested'
  <2>1. CASE frames = <<>>
    BY <1>1, <1>2, <2>1 DEF Nested
  <2>2. CASE frames # <<>> /\ handler
    <3>1. frames[n].at \in Interruptible /\ interrupts' > 0
      BY <1>1, <1>3, <2>2 DEF StackInv, Blocked, Top
    <3>2. f.handler /\ f.tag = "SIGNAL"
      BY <2>2
    <3>3. interrupts' > 0
      BY <1>3, <2>2
    <3>5. ASSUME NEW i \in 1 .. n + 1
          PROVE  IF i = 1 THEN ~frames'[i].handler
                 ELSE IF frames'[i].handler
                 THEN /\ frames'[i].tag = "SIGNAL" /\ frames'[i - 1].at \in Interruptible
                      /\ interrupts' > 0
                 ELSE frames'[i].tag = WHAT /\ frames'[i - 1].at = "start"
      <4>1. CASE i = n + 1
        <5>1. i # 1 /\ i - 1 = n /\ frames'[i] = f /\ frames'[i - 1] = frames[n]
          BY <1>1, <1>2, <2>2, <4>1
        <5> QED BY <3>1, <3>2, <3>3, <5>1
      <4>2. CASE i # n + 1
        <5>1. i \in 1 .. n /\ (i # 1 => i - 1 \in 1 .. n)
          BY <1>1, <4>2
        <5> QED BY <1>2, <3>3, <5>1 DEF StackInv, Nested
      <4> QED BY <4>1, <4>2
    <3> QED BY <1>2, <3>5 DEF Nested
  <2>3. CASE frames # <<>> /\ ~handler
    BY <1>1, <1>2, <1>3, <2>3 DEF StackInv, Nested, Top
  <2> QED BY <2>1, <2>2, <2>3
<1>7. LastWords'
  <2>1. frames # <<>> => frames[n].id # 0
    BY <1>1 DEF StackInv, LastWords, Top
  <2>2. \A i \in 1 .. n : frames[i].id \in Nat
    BY SomeFrames DEF FrameType
  <2> QED BY <1>1, <1>2, <1>3, <2>1, <2>2 DEF StackInv, LastWords
<1>8. Blocked'
  <2>1. frames # <<>> /\ frames[n].at # "start" => BlockedWhenHandled(n)
    BY <1>1 DEF StackInv, Blocked, Top
  <2> QED BY <1>1, <1>2, <2>1 DEF StackInv, Blocked, BlockedWhenHandled
<1>9. DepthOK'
  BY <1>1, <1>2, <1>3, <1>4 DEF StackInv, DepthOK
<1> QED BY <1>2, <1>6, <1>7, <1>8, <1>9 DEF StackInv

LEMMA TypesAgain ==
  ASSUME Flags', RlwrapTypes', FilterTypes', PipeTypes', frames' \in Seq(FrameType), StackInv'
  PROVE  TypeOK' /\ StackInv'
<1>1. Len(frames') <= 2 * (1 + interrupts')
  BY Zenon DEF StackInv, DepthOK
<1> QED BY <1>1, Zenon
        DEF TypeOK, Flags, RlwrapTypes, FilterTypes, PipeTypes, FilterStates

(* Every call is of one of the types, the depth of the stack is bounded by   *)
(* the number of interrupts, and only what can be interrupted is.            *)
THEOREM StackInvariant == Spec => [](TypeOK /\ StackInv)
<1>1. Init => TypeOK /\ StackInv
  <2> SUFFICES ASSUME Init PROVE TypeOK /\ StackInv
    OBVIOUS
  <2>1. Flags
    BY Zenon DEF Init, Flags
  <2>2. Len(frames) = 0 /\ frames \in Seq(FrameType) /\ frames = <<>>
    BY EmptySeq DEF Init
  <2>3. PipeTypes
    BY EmptySeq, FilterAssumption DEF Init, PipeTypes, FilterAssumption
  <2>4. RlwrapTypes /\ FilterTypes
    BY FilterAssumption DEF Init, RlwrapTypes, FilterTypes, FilterStates, FilterAssumption, Tag
  <2>5. Len(frames) <= 2 * (1 + interrupts)
    BY <2>2 DEF Init
  <2>6. Nested /\ LastWords /\ Blocked /\ DepthOK
    BY <2>2 DEF Init, Nested, LastWords, Blocked, DepthOK
  <2> QED BY <2>1, <2>2, <2>3, <2>4, <2>5, <2>6, TypeParts DEF StackInv
<1>2. TypeOK /\ StackInv /\ [Next]_vars => (TypeOK /\ StackInv)'
  <2> SUFFICES ASSUME TypeOK, StackInv, [Next]_vars PROVE TypeOK' /\ StackInv'
    OBVIOUS
  <2>a. /\ Flags /\ RlwrapTypes /\ FilterTypes /\ PipeTypes /\ frames \in Seq(FrameType)
        /\ Len(frames) \in Nat /\ Len(frames) <= 2 * (1 + interrupts)
    BY TypeParts, SomeFrames
  <2>b. frames # <<>> => /\ Top \in FrameType /\ Len(frames) \in 1 .. Len(frames)
                         /\ Top = frames[Len(frames)]
    BY SomeFrames DEF Top
  <2>1. CASE Call
    <3>1. Flags'
      BY <2>a, <2>1, Zenon DEF Call, filterVars, Flags
    <3>2. RlwrapTypes'
      BY <2>a, <2>b, <2>1, PushEffect DEF Call, filterVars, RlwrapTypes, Push
    <3>3. FilterTypes'
      BY <2>a, <2>1 DEF Call, filterVars, FilterTypes, FilterStates
    <3>4. PipeTypes'
      BY <2>a, <2>b, <2>1 DEF Call, filterVars, PipeTypes
    <3>5. frames' \in Seq(FrameType) /\ StackInv'
      <4>1. PICK tag \in Tags \cup {"SIGNAL"} : Push(tag, FALSE)
        BY <2>1 DEF Call
      <4>2. tag \in Tag /\ frames = <<>>
        BY <2>1 DEF Call, Tag
      <4>3. ~unblocked' /\ UNCHANGED <<interests, interests_known, filter, interrupts>>
        BY <4>2, <2>1 DEF Call, filterVars, StackInv, Blocked
      <4>4. interrupts' \in Nat /\ interrupts' >= interrupts
        BY <2>a, <4>3 DEF RlwrapTypes
      <4> QED BY <4>1, <4>2, <4>3, <4>4, PushKeepsStack
    <3> QED BY <3>1, <3>2, <3>3, <3>4, <3>5, TypesAgain
  <2>2. CASE AskInterests
    <3>1. Flags'
      BY <2>a, <2>2, Zenon DEF AskInterests, filterVars, At, Flags
    <3>2. RlwrapTypes'
      BY <2>a, <2>b, <2>2, PushEffect DEF AskInterests, filterVars, At, RlwrapTypes, Push
    <3>3. FilterTypes'
      BY <2>a, <2>2 DEF AskInterests, filterVars, At, FilterTypes, FilterStates
    <3>4. PipeTypes'
      BY <2>a, <2>b, <2>2 DEF AskInterests, filterVars, At, PipeTypes
    <3>5. frames' \in Seq(FrameType) /\ StackInv'
      <4>1. Push(WHAT, FALSE) /\ WHAT \in Tag
        BY <2>2 DEF AskInterests, Tag
      <4>2. frames # <<>> /\ Top.at = "start" /\ Top.tag # WHAT
        BY <2>2 DEF AskInterests, At
      <4>3. ~unblocked' /\ UNCHANGED <<interests, interests_known, filter, interrupts>>
        BY <4>2, <2>2 DEF AskInterests, filterVars, StackInv, Blocked, Interruptible
      <4>4. interrupts' \in Nat /\ interrupts' >= interrupts
        BY <2>a, <4>3 DEF RlwrapTypes
      <4> QED BY <4>1, <4>2, <4>3, <4>4, PushKeepsStack
    <3> QED BY <3>1, <3>2, <3>3, <3>4, <3>5, TypesAgain
  <2>3. CASE NotInterested
    <3>1. Flags'
      <4>1. Top.handler \in BOOLEAN
        BY <2>a, <2>b, <2>3 DEF NotInterested, At, FrameType
      <4> QED BY <2>a, <4>1, <2>3, Zenon DEF NotInterested, Return, Flags
    <3>2. RlwrapTypes'
      BY <2>a, <2>b, <2>3 DEF NotInterested, Return, filterVars, At, RlwrapTypes
    <3>3. FilterTypes'
      BY <2>a, <2>3 DEF NotInterested, Return, filterVars, At, FilterTypes, FilterStates
    <3>4. PipeTypes'
      BY <2>a, <2>b, <2>3 DEF NotInterested, Return, filterVars, At, PipeTypes
    <3>5. frames' \in Seq(FrameType) /\ StackInv'
      BY <2>a, <2>3, ReturnKeepsStack, BelowEffect DEF NotInterested, Return, filterVars, At
    <3> QED BY <3>1, <3>2, <3>3, <3>4, <3>5, TypesAgain
  <2>4. CASE StartExchange
    <3>1. Flags'
      BY <2>a, <2>4, Zenon DEF StartExchange, allow_interrupts, filterVars, At, Flags
    <3>2. RlwrapTypes'
      BY <2>a, <2>b, <2>4 DEF StartExchange, allow_interrupts, filterVars, At, RlwrapTypes
    <3>3. FilterTypes'
      BY <2>a, <2>4 DEF StartExchange, allow_interrupts, filterVars, At, FilterTypes, FilterStates
    <3>4. PipeTypes'
      BY <2>a, <2>b, <2>4 DEF StartExchange, allow_interrupts, filterVars, At, PipeTypes
    <3>5. frames' \in Seq(FrameType) /\ StackInv'
      <4>1. /\ frames # <<>> /\ Top.at = "start" /\ GoTo("write_tag")
            /\ UNCHANGED <<interests, interests_known, calls, interrupts, filter>>
            /\ Top.tag = WHAT \/ interests_known
        BY <2>4 DEF StartExchange, At, filterVars
      <4>2. ~unblocked
        BY <4>1 DEF StackInv, Blocked, Interruptible
      <4>3. unblocked' => BlockedWhenHandled(Len(frames))
        BY <4>1, <4>2, <2>4 DEF StartExchange, allow_interrupts, BlockedWhenHandled, Top
      <4>4. Top.id # 0
        BY <2>b, <4>1 DEF StackInv, LastWords
      <4> QED BY <2>a, <4>1, <4>3, <4>4, GoToKeepsStack, GoToEffect DEF Places, Interruptible
    <3> QED BY <3>1, <3>2, <3>3, <3>4, <3>5, TypesAgain
  <2>5. CASE WriteTag
    <3>1. Flags'
      BY <2>a, <2>5, Zenon DEF WriteTag, Write, Fail, filterVars, At, Flags
    <3>2. RlwrapTypes'
      BY <2>a, <2>b, <2>5 DEF WriteTag, Write, Fail, filterVars, At, RlwrapTypes
    <3>3. FilterTypes'
      BY <2>a, <2>5 DEF WriteTag, Write, Fail, filterVars, At, FilterTypes, FilterStates
    <3>4. PipeTypes'
      <4>1. CASE filter.state = "dead"
        BY <2>a, <2>5, <4>1 DEF WriteTag, Write, PipeTypes
      <4>2. CASE filter.state # "dead"
        <5>1. /\ Len(to_filter) < PipeSize /\ UNCHANGED from_filter
              /\ to_filter' = Append(to_filter, Item("tag", Top.tag, Top.id))
          BY <2>5, <4>2 DEF WriteTag, Write
        <5>2. Top.tag \in Tag /\ Top.id \in Nat
          BY <2>b, <2>5 DEF WriteTag, At, StackInv, LastWords, FrameType
        <5>3. Item("tag", Top.tag, Top.id) \in ItemType
          BY <5>2 DEF Item, ItemType
        <5> QED BY <2>a, <5>1, <5>3, Writing DEF PipeTypes
      <4> QED BY <4>1, <4>2
    <3>5. frames' \in Seq(FrameType) /\ StackInv'
      <4>1. CASE filter.state = "dead"
        BY <2>a, <2>5, <4>1, SameKeepsStack DEF WriteTag, Write, Fail, filterVars
      <4>2. CASE filter.state # "dead"
        <5>1. /\ frames # <<>> /\ GoTo("write_rest") /\ Top.at \in Interruptible
              /\ UNCHANGED <<unblocked, interests, interests_known, calls, interrupts, filter>>
          BY <2>5, <4>2 DEF WriteTag, At, Write, filterVars, Interruptible
        <5>2. Top.id # 0
          BY <2>b, <5>1, <2>5 DEF WriteTag, At, StackInv, LastWords
        <5>3. unblocked => BlockedWhenHandled(Len(frames))
          BY DEF StackInv, Blocked
        <5> QED BY <2>a, <5>1, <5>2, <5>3, GoToKeepsStack, GoToEffect DEF Places, Interruptible
      <4> QED BY <4>1, <4>2
    <3> QED BY <3>1, <3>2, <3>3, <3>4, <3>5, TypesAgain
  <2>6. CASE WriteRest
    <3>1. Flags'
      BY <2>a, <2>6, Zenon DEF WriteRest, Write, Fail, filterVars, At, Flags
    <3>2. RlwrapTypes'
      BY <2>a, <2>b, <2>6 DEF WriteRest, Write, Fail, filterVars, At, RlwrapTypes
    <3>3. FilterTypes'
      BY <2>a, <2>6 DEF WriteRest, Write, Fail, filterVars, At, FilterTypes, FilterStates
    <3>4. PipeTypes'
      <4>1. CASE filter.state = "dead"
        BY <2>a, <2>6, <4>1 DEF WriteRest, Write, PipeTypes
      <4>2. CASE filter.state # "dead"
        <5>1. /\ Len(to_filter) < PipeSize /\ UNCHANGED from_filter
              /\ to_filter' = Append(to_filter, Item("rest", Top.tag, Top.id))
          BY <2>6, <4>2 DEF WriteRest, Write
        <5>2. Top.tag \in Tag /\ Top.id \in Nat
          BY <2>b, <2>6 DEF WriteRest, At, StackInv, LastWords, FrameType
        <5>3. Item("rest", Top.tag, Top.id) \in ItemType
          BY <5>2 DEF Item, ItemType
        <5> QED BY <2>a, <5>1, <5>3, Writing DEF PipeTypes
      <4> QED BY <4>1, <4>2
    <3>5. frames' \in Seq(FrameType) /\ StackInv'
      <4>1. CASE filter.state = "dead"
        BY <2>a, <2>6, <4>1, SameKeepsStack DEF WriteRest, Write, Fail, filterVars
      <4>2. CASE filter.state # "dead"
        <5>1. /\ frames # <<>> /\ GoTo("read_tag") /\ Top.at \in Interruptible
              /\ UNCHANGED <<unblocked, interests, interests_known, calls, interrupts, filter>>
          BY <2>6, <4>2 DEF WriteRest, At, Write, filterVars, Interruptible
        <5>2. Top.id # 0
          BY <2>b, <5>1, <2>6 DEF WriteRest, At, StackInv, LastWords
        <5>3. unblocked => BlockedWhenHandled(Len(frames))
          BY DEF StackInv, Blocked
        <5> QED BY <2>a, <5>1, <5>2, <5>3, GoToKeepsStack, GoToEffect DEF Places, Interruptible
      <4> QED BY <4>1, <4>2
    <3> QED BY <3>1, <3>2, <3>3, <3>4, <3>5, TypesAgain
  <2>7. CASE ReadTag
    <3>1. Flags'
      BY <2>a, <2>7, Zenon DEF ReadTag, Fail, filterVars, At, Flags
    <3>2. RlwrapTypes'
      BY <2>a, <2>b, <2>7 DEF ReadTag, Fail, filterVars, At, RlwrapTypes
    <3>3. FilterTypes'
      BY <2>a, <2>7 DEF ReadTag, Fail, filterVars, At, FilterTypes, FilterStates
    <3>4. PipeTypes'
      <4>1. from_filter # <<>> /\ from_filter' = Tail(from_filter) /\ UNCHANGED to_filter
        BY <2>7 DEF ReadTag
      <4> QED BY <2>a, <4>1, Reading DEF PipeTypes
    <3>5. frames' \in Seq(FrameType) /\ StackInv'
      <4> DEFINE place == after_tag(Head(from_filter).tag)
      <4>1. CASE place = "mismatch"
        BY <2>a, <2>7, <4>1, SameKeepsStack DEF ReadTag, Fail, filterVars
      <4>2. CASE place # "mismatch"
        <5>1. /\ frames # <<>> /\ GoTo(place) /\ ~unblocked'
              /\ UNCHANGED <<interests, interests_known, calls, interrupts, filter>>
          BY <2>7, <4>2 DEF ReadTag, At, filterVars
        <5>2. place \in {"read_oob", "read_rest"}
          BY <4>2 DEF after_tag
        <5> QED BY <2>a, <5>1, <5>2, GoToKeepsStack, GoToEffect DEF Places
      <4> QED BY <4>1, <4>2
    <3> QED BY <3>1, <3>2, <3>3, <3>4, <3>5, TypesAgain
  <2>8. CASE ReadOutOfBand
    <3>1. Flags'
      BY <2>a, <2>8, Zenon DEF ReadOutOfBand, Fail, filterVars, At, Flags
    <3>2. RlwrapTypes'
      BY <2>a, <2>b, <2>8 DEF ReadOutOfBand, Fail, filterVars, At, RlwrapTypes
    <3>3. FilterTypes'
      BY <2>a, <2>8 DEF ReadOutOfBand, Fail, filterVars, At, FilterTypes, FilterStates
    <3>4. PipeTypes'
      <4>1. from_filter # <<>> /\ from_filter' = Tail(from_filter) /\ UNCHANGED to_filter
        BY <2>8 DEF ReadOutOfBand
      <4> QED BY <2>a, <4>1, Reading DEF PipeTypes
    <3>5. frames' \in Seq(FrameType) /\ StackInv'
      <4>1. CASE Head(from_filter).tag = "ERROR"
        BY <2>a, <2>8, <4>1, SameKeepsStack DEF ReadOutOfBand, Fail, filterVars
      <4>2. CASE Head(from_filter).tag # "ERROR"
        <5>1. /\ frames # <<>> /\ GoTo("read_tag") /\ Top.at = "read_oob"
              /\ UNCHANGED <<unblocked, interests, interests_known, calls, interrupts, filter>>
          BY <2>8, <4>2 DEF ReadOutOfBand, At, filterVars
        <5>2. ~unblocked
          BY <5>1 DEF StackInv, Blocked, Interruptible
        <5> QED BY <2>a, <5>1, <5>2, GoToKeepsStack, GoToEffect DEF Places
      <4> QED BY <4>1, <4>2
    <3> QED BY <3>1, <3>2, <3>3, <3>4, <3>5, TypesAgain
  <2>9. CASE ReadAnswer
    <3>1. Flags'
      <4>1. Top.handler \in BOOLEAN
        BY <2>a, <2>b, <2>9 DEF ReadAnswer, At, FrameType
      <4>2. interests_known' \in BOOLEAN
        BY <2>a, <2>9 DEF ReadAnswer, Flags
      <4> QED BY <2>a, <4>1, <4>2, <2>9, Zenon DEF ReadAnswer, Return, Flags
    <3>2. RlwrapTypes'
      <4>1. frames # <<>> /\ from_filter # <<>>
        BY <2>9 DEF ReadAnswer, At
      <4>2. Top.tag \in Tag \cup {"OUTPUT"} /\ Top.id \in Nat
        BY <2>b, <4>1 DEF FrameType
      <4>3. Head(from_filter).id \in Nat
        BY <2>a, <4>1, Reading, ItemParts DEF PipeTypes
      <4>4. answered' \subseteq [tag : Tag \cup {"OUTPUT"}, id : Nat, answer : Nat]
        BY <2>a, <4>2, <4>3, <2>9 DEF ReadAnswer, RlwrapTypes
      <4> QED BY <2>a, <4>4, <2>9 DEF ReadAnswer, Return, RlwrapTypes
    <3>3. FilterTypes'
      BY <2>a, <2>9 DEF ReadAnswer, Return, filterVars, At, FilterTypes, FilterStates
    <3>4. PipeTypes'
      <4>1. from_filter # <<>> /\ from_filter' = Tail(from_filter) /\ UNCHANGED to_filter
        BY <2>9 DEF ReadAnswer
      <4> QED BY <2>a, <4>1, Reading DEF PipeTypes
    <3>5. frames' \in Seq(FrameType) /\ StackInv'
      BY <2>a, <2>9, ReturnKeepsStack, BelowEffect DEF ReadAnswer, Return, filterVars, At
    <3> QED BY <3>1, <3>2, <3>3, <3>4, <3>5, TypesAgain
  <2>10. CASE ReadEOF
    <3>1. Flags'
      BY <2>a, <2>10, Zenon DEF ReadEOF, at_end_of_file, Fail, filterVars, At, Flags
    <3>2. RlwrapTypes'
      BY <2>a, <2>b, <2>10 DEF ReadEOF, at_end_of_file, Fail, filterVars, At, RlwrapTypes
    <3>3. FilterTypes'
      BY <2>a, <2>10 DEF ReadEOF, at_end_of_file, Fail, filterVars, At, FilterTypes, FilterStates
    <3>4. PipeTypes'
      BY <2>a, <2>b, <2>10 DEF ReadEOF, at_end_of_file, Fail, filterVars, At, PipeTypes
    <3>5. frames' \in Seq(FrameType) /\ StackInv'
      BY <2>a, <2>10, SameKeepsStack DEF ReadEOF, at_end_of_file, Fail, filterVars, At, OutOfBand
    <3> QED BY <3>1, <3>2, <3>3, <3>4, <3>5, TypesAgain
  <2>11. CASE Interrupt
    <3>1. Flags'
      BY <2>a, <2>11, Zenon DEF Interrupt, filterVars, Flags
    <3>2. RlwrapTypes'
      BY <2>a, <2>b, <2>11, PushEffect DEF Interrupt, filterVars, RlwrapTypes, Push
    <3>3. FilterTypes'
      BY <2>a, <2>11 DEF Interrupt, filterVars, FilterTypes, FilterStates
    <3>4. PipeTypes'
      BY <2>a, <2>b, <2>11 DEF Interrupt, filterVars, PipeTypes
    <3>5. frames' \in Seq(FrameType) /\ StackInv'
      <4>1. Push("SIGNAL", TRUE) /\ "SIGNAL" \in Tag
        BY <2>11 DEF Interrupt, Tag
      <4>2. frames # <<>> /\ unblocked /\ ~unblocked' /\ interrupts' = interrupts + 1
            /\ UNCHANGED <<interests, interests_known, filter>>
        BY <2>11 DEF Interrupt, filterVars
      <4>3. interrupts \in Nat
        BY <2>a DEF RlwrapTypes
      <4>4. interrupts' \in Nat /\ interrupts' >= interrupts /\ interrupts' > interrupts
        BY <4>2, <4>3
      <4> QED BY <4>1, <4>2, <4>4, PushKeepsStack
    <3> QED BY <3>1, <3>2, <3>3, <3>4, <3>5, TypesAgain
  <2>12. CASE FilterHasDied
    <3>1. Flags'
      BY <2>a, <2>12, Zenon DEF FilterHasDied, filterVars, Flags
    <3>2. RlwrapTypes'
      BY <2>a, <2>b, <2>12 DEF FilterHasDied, filterVars, RlwrapTypes
    <3>3. FilterTypes'
      BY <2>a, <2>12 DEF FilterHasDied, filterVars, FilterTypes, FilterStates
    <3>4. PipeTypes'
      BY <2>a, <2>b, <2>12 DEF FilterHasDied, filterVars, PipeTypes
    <3>5. frames' \in Seq(FrameType) /\ StackInv'
      <4> DEFINE f == [tag |-> "OUTPUT", id |-> 0, at |-> "read_tag", handler |-> FALSE]
      <4>1. frames' = <<f>> /\ frames = <<>> /\ filter'.state = "dead"
            /\ UNCHANGED <<unblocked, interests, interests_known, calls, interrupts>>
        BY <2>12 DEF FilterHasDied, filterVars
      <4>2. f \in FrameType
        BY DEF FrameType
      <4>3. frames' \in Seq(FrameType) /\ Len(frames') = 1 /\ frames'[1] = f /\ frames' # <<>>
        BY <4>1, <4>2
      <4>4. ~unblocked /\ calls \in Nat /\ interrupts \in Nat
        BY <2>a, <4>1 DEF StackInv, Blocked, RlwrapTypes
      <4>5. Nested' /\ LastWords' /\ Blocked' /\ DepthOK'
        BY <4>1, <4>3, <4>4 DEF Nested, LastWords, Blocked, DepthOK, Top
      <4> QED BY <4>3, <4>5 DEF StackInv
    <3> QED BY <3>1, <3>2, <3>3, <3>4, <3>5, TypesAgain
  <2>13. CASE FilterReads
    <3>1. Flags'
      BY <2>a, <2>13, Zenon DEF FilterReads, rlwrapVars, Flags
    <3>2. RlwrapTypes'
      BY <2>a, <2>b, <2>13 DEF FilterReads, rlwrapVars, RlwrapTypes
    <3>3. FilterTypes'
      <4>1. Head(to_filter) \in ItemType
        BY <2>a, <2>13, Reading DEF FilterReads, PipeTypes
      <4>2. Head(to_filter).tag \in Tag \cup OutOfBand /\ Head(to_filter).id \in Nat
        BY <4>1, ItemParts
      <4> QED BY <2>a, <4>2, <2>13 DEF FilterReads, FilterTypes, FilterStates
    <3>4. PipeTypes'
      <4>1. to_filter # <<>> /\ to_filter' = Tail(to_filter) /\ UNCHANGED from_filter
        BY <2>13 DEF FilterReads
      <4> QED BY <2>a, <4>1, Reading DEF PipeTypes
    <3>5. frames' \in Seq(FrameType) /\ StackInv'
      BY <2>a, <2>13, SameKeepsStack DEF FilterReads, rlwrapVars, OutOfBand
    <3> QED BY <3>1, <3>2, <3>3, <3>4, <3>5, TypesAgain
  <2>14. CASE FilterSendsOob
    <3>1. Flags'
      BY <2>a, <2>14, Zenon DEF FilterSendsOob, FilterSends, rlwrapVars, Flags
    <3>2. RlwrapTypes'
      BY <2>a, <2>b, <2>14 DEF FilterSendsOob, FilterSends, rlwrapVars, RlwrapTypes
    <3>3. FilterTypes'
      BY <2>a, <2>14 DEF FilterSendsOob, FilterSends, rlwrapVars, FilterTypes, FilterStates
    <3>4. PipeTypes'
      <4>1. PICK item \in ItemType : /\ Len(from_filter) < PipeSize
                                   /\ from_filter' = Append(from_filter, item)
                                   /\ UNCHANGED to_filter
        BY <2>a, <2>14 DEF FilterSendsOob, FilterSends, Item, ItemType, OutOfBand, FilterTypes
      <4> QED BY <2>a, <4>1, Writing DEF PipeTypes
    <3>5. frames' \in Seq(FrameType) /\ StackInv'
      BY <2>a, <2>14, SameKeepsStack DEF FilterSendsOob, FilterSends, rlwrapVars, OutOfBand
    <3> QED BY <3>1, <3>2, <3>3, <3>4, <3>5, TypesAgain
  <2>15. CASE FilterAnswers
    <3>1. Flags'
      BY <2>a, <2>15, Zenon DEF FilterAnswers, FilterSends, rlwrapVars, Flags
    <3>2. RlwrapTypes'
      BY <2>a, <2>b, <2>15 DEF FilterAnswers, FilterSends, rlwrapVars, RlwrapTypes
    <3>3. FilterTypes'
      BY <2>a, <2>15 DEF FilterAnswers, FilterSends, rlwrapVars, FilterTypes, FilterStates
    <3>4. PipeTypes'
      <4>1. PICK item \in ItemType : /\ Len(from_filter) < PipeSize
                                   /\ from_filter' = Append(from_filter, item)
                                   /\ UNCHANGED to_filter
        BY <2>a, <2>15 DEF FilterAnswers, FilterSends, Item, ItemType, OutOfBand, FilterTypes
      <4> QED BY <2>a, <4>1, Writing DEF PipeTypes
    <3>5. frames' \in Seq(FrameType) /\ StackInv'
      BY <2>a, <2>15, SameKeepsStack DEF FilterAnswers, FilterSends, rlwrapVars, OutOfBand
    <3> QED BY <3>1, <3>2, <3>3, <3>4, <3>5, TypesAgain
  <2>16. CASE FilterRejectsPrompt
    <3>1. Flags'
      BY <2>a, <2>16, Zenon DEF FilterRejectsPrompt, rlwrapVars, Flags
    <3>2. RlwrapTypes'
      BY <2>a, <2>b, <2>16 DEF FilterRejectsPrompt, rlwrapVars, RlwrapTypes
    <3>3. FilterTypes'
      BY <2>a, <2>16 DEF FilterRejectsPrompt, rlwrapVars, FilterTypes, FilterStates
    <3>4. PipeTypes'
      BY <2>a, <2>b, <2>16 DEF FilterRejectsPrompt, rlwrapVars, PipeTypes
    <3>5. frames' \in Seq(FrameType) /\ StackInv'
      BY <2>a, <2>16, SameKeepsStack DEF FilterRejectsPrompt, rlwrapVars, OutOfBand
    <3> QED BY <3>1, <3>2, <3>3, <3>4, <3>5, TypesAgain
  <2>17. CASE FilterExecFails
    <3>1. Flags'
      BY <2>a, <2>17, Zenon DEF FilterExecFails, rlwrapVars, Flags
    <3>2. RlwrapTypes'
      BY <2>a, <2>b, <2>17 DEF FilterExecFails, rlwrapVars, RlwrapTypes
    <3>3. FilterTypes'
      BY <2>a, <2>17 DEF FilterExecFails, rlwrapVars, FilterTypes, FilterStates
    <3>4. PipeTypes'
      <4> DEFINE e == Item("tag", "ERROR", 0)
                 r == Item("rest", "ERROR", 0)
      <4>1. from_filter' = <<e, r>> /\ UNCHANGED to_filter /\ PipeSize >= 2
        BY <2>17 DEF FilterExecFails
      <4>2. e \in ItemType /\ r \in ItemType
        BY DEF Item, ItemType, OutOfBand
      <4>3. from_filter' \in Seq(ItemType) /\ Len(from_filter') = 2
        BY <4>1, <4>2
      <4> QED BY <2>a, <4>1, <4>3 DEF PipeTypes
    <3>5. frames' \in Seq(FrameType) /\ StackInv'
      BY <2>a, <2>17, SameKeepsStack DEF FilterExecFails, rlwrapVars, OutOfBand
    <3> QED BY <3>1, <3>2, <3>3, <3>4, <3>5, TypesAgain
  <2>18. CASE FilterDies
    <3>1. Flags'
      BY <2>a, <2>18, Zenon DEF FilterDies, rlwrapVars, Flags
    <3>2. RlwrapTypes'
      BY <2>a, <2>b, <2>18 DEF FilterDies, rlwrapVars, RlwrapTypes
    <3>3. FilterTypes'
      BY <2>a, <2>18 DEF FilterDies, rlwrapVars, FilterTypes, FilterStates
    <3>4. PipeTypes'
      BY <2>a, <2>b, <2>18 DEF FilterDies, rlwrapVars, PipeTypes
    <3>5. frames' \in Seq(FrameType) /\ StackInv'
      BY <2>a, <2>18, SameKeepsStack DEF FilterDies, rlwrapVars, OutOfBand
    <3> QED BY <3>1, <3>2, <3>3, <3>4, <3>5, TypesAgain
  <2>19. CASE UNCHANGED vars
    <3>1. Flags'
      BY <2>a, <2>19, Zenon DEF vars, rlwrapVars, Flags
    <3>2. RlwrapTypes' /\ FilterTypes' /\ PipeTypes' /\ frames' \in Seq(FrameType)
      BY <2>a, <2>19 DEF vars, rlwrapVars, filterVars, RlwrapTypes, FilterTypes, PipeTypes
    <3>3. StackInv'
      BY <2>19, SameKeepsStack DEF vars, rlwrapVars, filterVars
    <3> QED BY <3>1, <3>2, <3>3, TypesAgain
  <2> QED
    BY <2>1, <2>2, <2>3, <2>4, <2>5, <2>6, <2>7, <2>8, <2>9, <2>10, <2>11, <2>12, <2>13,
       <2>14, <2>15, <2>16, <2>17, <2>18, <2>19 DEF Next, Rlwrap, Filter
<1> QED BY <1>1, <1>2, PTL DEF Spec

(* pass_through_filter() calls itself, to ask for the filter's interests, at *)
(* most once for each call of main loop or signal handler.                   *)
THEOREM TypeInvariant == Spec => []TypeOK
BY StackInvariant, PTL

-----------------------------------------------------------------------------
(* What the filter sends is a series of messages of two items each, of which *)
(* rlwrap may have read, and the filter may have written, the first one only.*)
Sending == {"answering", "rejected"} \cup OutOfBand
Midway == frames # <<>> /\ Top.at \in {"read_oob", "read_rest"}

Matches(tag) == IF Top.at = "read_oob" THEN tag \in OutOfBand ELSE tag = Top.tag

SentTag == IF filter.state \in OutOfBand THEN filter.state ELSE filter.tag
SentId == IF filter.state \in OutOfBand THEN 0 ELSE filter.id

Paired ==
  /\ \A p \in 1 .. Len(from_filter) - 1 :
       /\ from_filter[p].part = "tag" <=> from_filter[p + 1].part = "rest"
       /\ from_filter[p].part = "tag" => /\ from_filter[p + 1].tag = from_filter[p].tag
                                         /\ from_filter[p + 1].id = from_filter[p].id
  /\ from_filter # <<>> => /\ Midway <=> from_filter[1].part = "rest"
                           /\ Midway => Matches(from_filter[1].tag)
  /\ filter.state # "dead" =>
       LET n == Len(from_filter)
       IN  IF from_filter = <<>>
           THEN /\ Midway <=> filter.state \in Sending
                /\ Midway => Matches(SentTag)
           ELSE /\ from_filter[n].part = "tag" <=> filter.state \in Sending
                /\ filter.state \in Sending =>
                     from_filter[n].tag = SentTag /\ from_filter[n].id = SentId

-----------------------------------------------------------------------------
(* Of some messages there is never more than one on its way: those about     *)
(* texts; if the filter handles signals, those about signals; before the     *)
(* first interrupt, all. Theirs is the holder's.                            *)
Exclusive ==
  Tags \cup (IF "SIGNAL" \in interests \/ interrupts = 0 THEN {"SIGNAL"} ELSE {})
       \cup (IF interrupts = 0 THEN {WHAT} ELSE {})

InFlight(f) == f.id > 0 /\ f.at \in {"write_rest", "read_tag", "read_oob", "read_rest"}
Holders == {i \in 1 .. Len(frames) : frames[i].tag \in Exclusive /\ InFlight(frames[i])}

Finished == {"idle", "garbled", "sorry", "dead"}
(* The filter is at work on such a message. *)
Occupied == filter.tag \in Exclusive /\ filter.state \notin Finished
Own(item) == item.tag \in Exclusive

NothingOnItsWay ==
  /\ ~Occupied
  /\ \A p \in 1 .. Len(to_filter) : ~Own(to_filter[p])
  /\ \A p \in 1 .. Len(from_filter) : ~Own(from_filter[p])

(* All there is on its way is about the call f, once. *)
OnlyAbout(f) ==
  /\ Occupied => filter.tag = f.tag /\ filter.id = f.id
  /\ \A p \in 1 .. Len(to_filter) : Own(to_filter[p]) =>
       to_filter[p].tag = f.tag /\ to_filter[p].id = f.id
  /\ \A p \in 1 .. Len(from_filter) : Own(from_filter[p]) =>
       from_filter[p].tag = f.tag /\ from_filter[p].id = f.id
  /\ \A p, q \in 1 .. Len(to_filter) :
       Own(to_filter[p]) /\ Own(to_filter[q]) /\ to_filter[p].part = to_filter[q].part => p = q
  /\ \A p, q \in 1 .. Len(from_filter) :
       Own(from_filter[p]) /\ Own(from_filter[q]) /\ from_filter[p].part = from_filter[q].part
         => p = q

(* It is in one place: before the filter, with it, or behind it. *)
InOnePlace ==
  /\ Occupied => \A p \in 1 .. Len(from_filter) : Own(from_filter[p]) =>
       /\ from_filter[p].part = "tag" /\ filter.state \in {"answering", "rejected"}
  /\ (\/ Occupied /\ filter.state # "reading"
      \/ \E p \in 1 .. Len(from_filter) : Own(from_filter[p]))
       => \A p \in 1 .. Len(to_filter) : ~Own(to_filter[p])
  /\ Occupied => \A p \in 1 .. Len(to_filter) : Own(to_filter[p]) => to_filter[p].part = "rest"

(* What comes after its tag is its rest, or (if a signal came between) the   *)
(* tag of another message.                                                  *)
Begun ==   \* the rest has not been written yet
  /\ \A p \in 1 .. Len(from_filter) : ~Own(from_filter[p])
  /\ \A p \in 1 .. Len(to_filter) : Own(to_filter[p]) => to_filter[p].part = "tag"
  /\ \A p \in 1 .. Len(to_filter) - 1 : Own(to_filter[p]) => to_filter[p + 1].part = "tag"
  /\ Occupied => filter.state = "reading" /\ (to_filter # <<>> => to_filter[1].part = "tag")
  /\ \/ filter.state \in {"garbled", "sorry", "dead"} \/ Occupied
     \/ \E p \in 1 .. Len(to_filter) : Own(to_filter[p])

Cut(i) ==  \* another message has been begun since
  (\E j \in i + 1 .. Len(frames) : frames[j].at \notin {"start", "write_tag"}) =>
    /\ to_filter # <<>> => ~Own(to_filter[Len(to_filter)])
    /\ Occupied => to_filter # <<>>

Follows(item) == item.part = "rest" => Own(item)
Complete ==
  /\ \A p \in 1 .. Len(to_filter) : Own(to_filter[p]) /\ to_filter[p].part = "tag" =>
       p < Len(to_filter) /\ Follows(to_filter[p + 1])
  /\ Occupied /\ filter.state = "reading" => to_filter # <<>> /\ Follows(to_filter[1])
  /\ \A p \in 1 .. Len(to_filter) : Own(to_filter[p]) /\ to_filter[p].part = "rest" =>
       \/ filter.state \in {"garbled", "sorry", "dead"} \/ Occupied
       \/ \E q \in 1 .. p - 1 : Own(to_filter[q])

Answered ==  \* the tag of the answer has been read
  /\ \A p \in 1 .. Len(to_filter) : ~Own(to_filter[p])
  /\ \A p \in 1 .. Len(from_filter) : Own(from_filter[p]) => p = 1 /\ ~Occupied
  /\ Occupied => filter.state \in {"answering", "rejected"}

Journey(i) ==
  /\ \A j \in Holders : j = i
  /\ OnlyAbout(frames[i]) /\ InOnePlace
  /\ frames[i].at = "write_rest" => Begun /\ Cut(i)
  /\ frames[i].at \in {"read_tag", "read_oob"} => Complete
  /\ frames[i].at = "read_rest" => Answered

OneAtATime ==
  /\ Holders = {} => NothingOnItsWay
  /\ \A i \in Holders : Journey(i)

-----------------------------------------------------------------------------
(* As long as no signal has interrupted a call, out of band messages come    *)
(* before the answer, and there is no other reason to fail than that the     *)
(* filter has died, or has sent an error message.                            *)
Uninterrupted ==
  interrupts = 0 =>
    /\ \A p \in 1 .. Len(from_filter) : from_filter[p].tag \in OutOfBand =>
         \/ filter.state = "sorry"
         \/ /\ \E i \in Holders : frames[i].at \in {"read_tag", "read_oob"}
            /\ \A q \in 1 .. p : ~Own(from_filter[q])
    /\ filter.state = "sorry" => \A p \in 1 .. Len(from_filter) : from_filter[p].tag = "ERROR"

RunningInv == Paired /\ OneAtATime /\ Uninterrupted

Items ==
  /\ \A p \in 1 .. Len(to_filter) : to_filter[p].tag \in Tag
  /\ filter.tag \in Tag /\ filter.state # "again"

DiesOnly ==
  interrupts = 0 /\ status \notin {"running", "filter_error"} =>
    /\ filter.state = "dead"
    /\ \A p \in 1 .. Len(from_filter) : from_filter[p].tag # "ERROR"

FilterInv ==
  /\ Items /\ (status = "running" => RunningInv) /\ DiesOnly
  /\ AnswersMatch /\ SignalsMatch

-----------------------------------------------------------------------------
LEMMA Typed ==
  ASSUME TypeOK, StackInv
  PROVE  /\ Len(frames) \in Nat /\ Len(to_filter) \in Nat /\ Len(from_filter) \in Nat
         /\ frames # <<>> <=> Len(frames) > 0
         /\ to_filter # <<>> <=> Len(to_filter) > 0
         /\ from_filter # <<>> <=> Len(from_filter) > 0
         /\ to_filter \in Seq(ItemType) /\ from_filter \in Seq(ItemType)
         /\ Len(to_filter) <= PipeSize /\ Len(from_filter) <= PipeSize
         /\ \A i \in 1 .. Len(frames) :
              /\ frames[i].tag \in Tag \cup {"OUTPUT"} /\ frames[i].id \in Nat
              /\ frames[i].at \in Places
         /\ \A p \in 1 .. Len(to_filter) :
              to_filter[p].part \in {"tag", "rest"} /\ to_filter[p].tag \in Tag \cup OutOfBand
         /\ \A p \in 1 .. Len(from_filter) :
              from_filter[p].part \in {"tag", "rest"} /\ from_filter[p].tag \in Tag \cup OutOfBand
         /\ interrupts \in Nat /\ filter.state \in FilterStates
<1>1. /\ to_filter \in Seq(ItemType) /\ from_filter \in Seq(ItemType)
      /\ Len(to_filter) <= PipeSize /\ Len(from_filter) <= PipeSize /\ interrupts \in Nat
      /\ filter.state \in FilterStates
  BY DEF TypeOK, FilterStates
<1>2. Len(to_filter) \in Nat /\ Len(from_filter) \in Nat
  BY <1>1, LenProperties
<1>3. (to_filter # <<>> <=> Len(to_filter) > 0) /\ (from_filter # <<>> <=> Len(from_filter) > 0)
  BY <1>1, <1>2, EmptySeq
<1>4. /\ \A p \in 1 .. Len(to_filter) : to_filter[p] \in ItemType
      /\ \A p \in 1 .. Len(from_filter) : from_filter[p] \in ItemType
  BY <1>1, ElementOfSeq
<1>5. Len(frames) \in Nat /\ (frames # <<>> <=> Len(frames) > 0)
      /\ \A i \in 1 .. Len(frames) : frames[i] \in FrameType
  BY SomeFrames
<1> QED BY <1>1, <1>2, <1>3, <1>4, <1>5, FrameParts, ItemParts

(* Exclusive tags are tags of messages, never of out of band ones. *)
LEMMA TagFacts ==
  /\ "OUTPUT_OUT_OF_BAND" \notin Tag /\ "ERROR" \notin Tag /\ Exclusive \subseteq Tag
  /\ "SIGNAL" \notin Tags /\ WHAT \notin Tags /\ WHAT # "SIGNAL" /\ Tags \subseteq Exclusive
BY FilterAssumption DEF FilterAssumption, Tag, WHAT, Exclusive

(* There is at most one call with an exclusive message on its way: on top of *)
(* the others, or at the bottom.                                            *)
LEMMA HoldersPlace ==
  ASSUME TypeOK, StackInv, NEW i \in Holders
  PROVE  i = Len(frames) \/ (i = 1 /\ interrupts > 0 /\ frames[i].tag \in Tags)
<1>1. i \in 1 .. Len(frames) /\ frames[i].tag \in Exclusive /\ frames[i].at # "start"
  BY DEF Holders, InFlight
<1>2. Len(frames) \in Nat /\ interrupts \in Nat
  BY Typed
<1>3. SUFFICES ASSUME i # Len(frames) PROVE i = 1 /\ interrupts > 0 /\ frames[i].tag \in Tags
  OBVIOUS
<1>4. i \in 1 .. Len(frames) - 1 /\ i + 1 \in 1 .. Len(frames) /\ i + 1 # 1 /\ (i + 1) - 1 = i
  BY <1>1, <1>2, <1>3
<1>5. frames[i].tag = WHAT \/ "SIGNAL" \notin interests
  BY <1>1, <1>4 DEF StackInv, Blocked, BlockedWhenHandled
<1>6. interrupts > 0
  BY <1>1, <1>4 DEF StackInv, Nested
<1>7. frames[i].tag \in Tags
  BY <1>1, <1>5, <1>6, TagFacts DEF Exclusive
<1>8. i = 1
  BY <1>1, <1>7, TagFacts DEF StackInv, Nested
<1> QED BY <1>6, <1>7, <1>8

-----------------------------------------------------------------------------
(* Operations that only push a call, pop one that has not begun to talk to   *)
(* the filter, or let the top one begin: what is on its way stays so.        *)

(* The first n calls stay as they are; those above them send nothing.        *)
SameUpTo(n) ==
  /\ n <= Len(frames) /\ n <= Len(frames')
  /\ \A i \in 1 .. n : frames'[i] = frames[i]
  /\ \A i \in n + 1 .. Len(frames) : ~InFlight(frames[i])
  /\ \A i \in n + 1 .. Len(frames') :
       ~InFlight(frames'[i]) /\ (n = 0 \/ frames'[i].at \in {"start", "write_tag"})

PipesSame == UNCHANGED <<to_filter, from_filter, filter, interests>>

LEMMA ExclusiveShrinks ==
  ASSUME UNCHANGED interests, interrupts \in Nat, interrupts' \in Nat, interrupts' >= interrupts
  PROVE  Exclusive' \subseteq Exclusive /\ (interrupts' = interrupts => Exclusive' = Exclusive)
BY DEF Exclusive

LEMMA StackOnlyKeepsOneAtATime ==
  ASSUME TypeOK, StackInv, TypeOK', StackInv', OneAtATime, PipesSame,
         interrupts' >= interrupts, NEW n \in Nat, SameUpTo(n)
  PROVE  OneAtATime'
<1>1. /\ Len(frames) \in Nat /\ Len(frames') \in Nat /\ interrupts \in Nat /\ interrupts' \in Nat
  <2>1. Len(frames) \in Nat /\ interrupts \in Nat
    BY SomeFrames DEF TypeOK
  <2>2. Len(frames') \in Nat /\ interrupts' \in Nat
    BY SomeFrames DEF TypeOK
  <2> QED BY <2>1, <2>2
<1>2. Exclusive' \subseteq Exclusive
  BY <1>1, ExclusiveShrinks DEF PipesSame
<1>3. Holders' \subseteq Holders /\ \A i \in Holders' : i \in 1 .. n /\ frames'[i] = frames[i]
  BY <1>1, <1>2 DEF Holders, SameUpTo, InFlight
<1>4. \A i \in Holders : i \in 1 .. n /\ frames'[i] = frames[i]
                         /\ (frames[i].tag \in Exclusive' => i \in Holders')
  BY <1>1 DEF Holders, SameUpTo, InFlight
<1>5. Occupied' => Occupied
  BY <1>2 DEF PipesSame, Occupied
<1>6. CASE Holders = {}
  BY <1>2, <1>3, <1>5, <1>6 DEF OneAtATime, NothingOnItsWay, PipesSame, Own
<1>7. CASE Holders # {}
  <2>1. PICK i \in Holders : TRUE
    BY <1>7
  <2>2. Journey(i)
    BY DEF OneAtATime
  <2>3. i \in 1 .. n /\ frames'[i] = frames[i] /\ frames[i].tag \in Exclusive
    BY <1>4 DEF Holders
  <2>4. CASE frames[i].tag \notin Exclusive'
    <3>1. Holders' = {}
      BY <1>3, <2>2, <2>3, <2>4 DEF Journey, Holders
    <3>2. NothingOnItsWay'
      BY <1>2, <1>5, <2>2, <2>4 DEF Journey, OnlyAbout, NothingOnItsWay, PipesSame, Own, Occupied
    <3> QED BY <3>1, <3>2 DEF OneAtATime
  <2>5. CASE frames[i].tag \in Exclusive'
    <3>1. Holders' = {i}
      BY <1>3, <1>4, <2>2, <2>5 DEF Journey
    <3>2. OnlyAbout(frames[i])'
      BY <1>2, <1>5, <2>2, <2>3 DEF Journey, OnlyAbout, PipesSame, Own
    <3>3. /\ \A p \in 1 .. Len(to_filter) : Own(to_filter[p]) <=> to_filter[p].tag \in Exclusive'
          /\ \A p \in 1 .. Len(from_filter) :
               Own(from_filter[p]) <=> from_filter[p].tag \in Exclusive'
          /\ Occupied <=> Occupied'
      BY <1>2, <1>5, <2>2, <2>3, <2>5 DEF Journey, OnlyAbout, PipesSame, Own, Occupied
    <3>4. InOnePlace'
      BY <2>2, <3>3 DEF Journey, InOnePlace, PipesSame, Own
    <3>5. frames[i].at = "write_rest" => Begun' /\ Cut(i)'
      <4>1. SUFFICES ASSUME Begun, Cut(i) PROVE Begun' /\ Cut(i)'
        BY <2>2 DEF Journey
      <4>2. Begun'
        BY <3>3, <4>1 DEF Begun, PipesSame, Own
      <4>3. (\E j \in i + 1 .. Len(frames') : frames'[j].at \notin {"start", "write_tag"})
              => (\E j \in i + 1 .. Len(frames) : frames[j].at \notin {"start", "write_tag"})
        BY <1>1, <2>3 DEF SameUpTo
      <4>4. to_filter # <<>> => Len(to_filter) \in 1 .. Len(to_filter)
        BY Typed
      <4> QED BY <3>3, <4>1, <4>2, <4>3, <4>4 DEF Cut, PipesSame, Own
    <3>6. Complete => Complete'
      <4>1. \A p \in 1 .. Len(to_filter) - 1 :
              to_filter[p + 1].tag \in Exclusive <=> to_filter[p + 1].tag \in Exclusive'
        BY Typed, <3>3 DEF Own
      <4>2. to_filter # <<>> => 1 \in 1 .. Len(to_filter)
        BY Typed
      <4>3. \A p \in 1 .. Len(to_filter) : \A q \in 1 .. p - 1 : q \in 1 .. Len(to_filter)
        BY Typed
      <4>4. to_filter' = to_filter /\ filter' = filter
        BY DEF PipesSame
      <4>5. \A p \in 1 .. Len(to_filter) - 1 : Follows(to_filter[p + 1]) => Follows(to_filter[p + 1])'
        BY <4>1, <4>4 DEF Follows, Own
      <4>6. to_filter # <<>> /\ Follows(to_filter[1]) => Follows(to_filter[1])'
        BY <3>3, <4>2, <4>4 DEF Follows, Own
      <4>7. \A p \in 1 .. Len(to_filter) : p < Len(to_filter) => p \in 1 .. Len(to_filter) - 1
        BY Typed
      <4> QED BY <3>3, <4>3, <4>4, <4>5, <4>6, <4>7 DEF Complete, Own
    <3>7. Answered => Answered'
      BY <3>3 DEF Answered, PipesSame, Own
    <3>8. Journey(i)'
      BY <2>2, <2>3, <3>1, <3>2, <3>4, <3>5, <3>6, <3>7 DEF Journey
    <3> QED BY <3>1, <3>8 DEF OneAtATime
  <2> QED BY <2>4, <2>5
<1> QED BY <1>6, <1>7

(* What is assumed of a step, and what it keeps. *)
Invs == TypeOK /\ StackInv /\ TypeOK' /\ StackInv' /\ FilterInv

StackOnly(n) ==
  /\ PipesSame /\ SameUpTo(n) /\ ~Midway /\ ~Midway'
  /\ UNCHANGED answered /\ interrupts' >= interrupts
  /\ status = "running" /\ (status' = "running" \/ interrupts' > 0)

LEMMA StackOnlyKeepsInv ==
  ASSUME Invs, NEW n \in Nat, StackOnly(n)
  PROVE  FilterInv'
<1>0. /\ PipesSame /\ interrupts' >= interrupts /\ SameUpTo(n) /\ ~Midway /\ ~Midway'
      /\ UNCHANGED answered /\ status = "running" /\ (status' = "running" \/ interrupts' > 0)
      /\ TypeOK /\ StackInv /\ TypeOK' /\ StackInv' /\ FilterInv
  BY DEF StackOnly, Invs
<1>1. Paired /\ OneAtATime /\ Uninterrupted
  BY <1>0 DEF FilterInv, RunningInv
<1>2. OneAtATime'
  BY <1>0, <1>1, StackOnlyKeepsOneAtATime
<1>3. Paired'
  <2>1. \A tag : Midway => Matches(tag)
    BY <1>0
  <2> QED BY <1>0, <1>1 DEF Paired, PipesSame, SentTag, SentId
<1>4. /\ Len(frames) \in Nat /\ Len(frames') \in Nat /\ interrupts \in Nat /\ interrupts' \in Nat
  <2>1. Len(frames) \in Nat /\ interrupts \in Nat
    BY <1>0, SomeFrames DEF TypeOK
  <2>2. Len(frames') \in Nat /\ interrupts' \in Nat
    BY <1>0, SomeFrames DEF TypeOK
  <2> QED BY <2>1, <2>2
<1>5. Uninterrupted'
  <2>1. SUFFICES ASSUME interrupts' = 0 PROVE Uninterrupted'
    BY DEF Uninterrupted
  <2>2. interrupts = 0 /\ Exclusive' = Exclusive
    BY <1>0, <1>4, <2>1, ExclusiveShrinks DEF PipesSame
  <2>3. \A i \in Holders : i \in Holders' /\ frames'[i] = frames[i]
    BY <1>0, <1>4, <2>2 DEF Holders, SameUpTo, InFlight
  <2> QED BY <1>0, <1>1, <2>2, <2>3 DEF Uninterrupted, PipesSame, Own
<1>6. Items' /\ AnswersMatch' /\ SignalsMatch'
  BY <1>0 DEF FilterInv, Items, AnswersMatch, SignalsMatch, PipesSame
<1>7. DiesOnly'
  BY <1>0, <1>4 DEF DiesOnly
<1> QED BY <1>1, <1>2, <1>3, <1>5, <1>6, <1>7 DEF FilterInv, RunningInv

LEMMA CallIsStackOnly ==
  ASSUME Invs, Call
  PROVE  \E k \in Nat : StackOnly(k)
<1>1. /\ status = "running" /\ frames = <<>> /\ PipesSame
      /\ UNCHANGED <<status, answered, interrupts>>
  BY DEF Call, PipesSame, filterVars
<1>2. PICK tag \in Tags \cup {"SIGNAL"} : Push(tag, FALSE)
  BY DEF Call
<1>3. tag \in Tag /\ calls \in Nat /\ frames \in Seq(FrameType) /\ interrupts \in Nat
  BY DEF Tag, Invs, TypeOK
<1>4. /\ Len(frames) = 0 /\ Len(frames') = 1 /\ frames' # <<>> /\ frames'[1].at = "start"
  <2>1. /\ Len(frames') = Len(frames) + 1 /\ frames' # <<>>
        /\ \A i \in 1 .. Len(frames) : frames'[i] = frames[i]
        /\ frames'[Len(frames) + 1] = [tag |-> tag, id |-> calls + 1, at |-> "start",
                                       handler |-> FALSE]
    BY <1>1, <1>2, <1>3, PushEffect
  <2> QED BY <1>1, <2>1, EmptySeq
<1>5. SameUpTo(0) /\ ~Midway /\ ~Midway'
  BY <1>1, <1>4 DEF SameUpTo, Midway, InFlight, Top
<1> QED BY <1>1, <1>3, <1>5 DEF StackOnly

LEMMA AskInterestsIsStackOnly ==
  ASSUME Invs, AskInterests
  PROVE  \E k \in Nat : StackOnly(k)
<1> DEFINE n == Len(frames)
<1>1. /\ status = "running" /\ Top.at = "start" /\ PipesSame
      /\ UNCHANGED <<status, answered, interrupts>> /\ Push(WHAT, FALSE)
  BY DEF AskInterests, At, PipesSame, filterVars
<1>2. WHAT \in Tag /\ calls \in Nat /\ frames \in Seq(FrameType) /\ interrupts \in Nat /\ n \in Nat
  BY SomeFrames DEF Tag, Invs, TypeOK
<1>3. /\ Len(frames') = n + 1 /\ frames' # <<>> /\ frames'[n + 1].at = "start"
      /\ \A i \in 1 .. n : frames'[i] = frames[i]
  <2>1. /\ Len(frames') = Len(frames) + 1 /\ frames' # <<>>
        /\ \A i \in 1 .. Len(frames) : frames'[i] = frames[i]
        /\ frames'[Len(frames) + 1] = [tag |-> WHAT, id |-> calls + 1, at |-> "start",
                                       handler |-> FALSE]
    BY <1>1, <1>2, PushEffect
  <2> QED BY <1>1, <2>1
<1>4. SameUpTo(n) /\ ~Midway /\ ~Midway'
  BY <1>1, <1>2, <1>3 DEF SameUpTo, Midway, InFlight, Top
<1> QED BY <1>1, <1>2, <1>4 DEF StackOnly

LEMMA InterruptIsStackOnly ==
  ASSUME Invs, Interrupt
  PROVE  \E k \in Nat : StackOnly(k)
<1> DEFINE n == Len(frames)
<1>1. /\ status = "running" /\ frames # <<>> /\ unblocked /\ PipesSame
      /\ UNCHANGED <<status, answered>> /\ interrupts' = interrupts + 1 /\ Push("SIGNAL", TRUE)
  BY DEF Interrupt, PipesSame, filterVars
<1>2. /\ "SIGNAL" \in Tag /\ calls \in Nat /\ frames \in Seq(FrameType) /\ interrupts \in Nat
      /\ n \in Nat
  BY SomeFrames DEF Tag, Invs, TypeOK
<1>3. /\ Len(frames') = n + 1 /\ frames' # <<>> /\ frames'[n + 1].at = "start"
      /\ \A i \in 1 .. n : frames'[i] = frames[i]
  <2>1. /\ Len(frames') = Len(frames) + 1 /\ frames' # <<>>
        /\ \A i \in 1 .. Len(frames) : frames'[i] = frames[i]
        /\ frames'[Len(frames) + 1] = [tag |-> "SIGNAL", id |-> calls + 1, at |-> "start",
                                       handler |-> TRUE]
    BY <1>1, <1>2, PushEffect
  <2> QED BY <1>1, <2>1
<1>4. Top.at \in Interruptible
  BY <1>1 DEF Invs, StackInv, Blocked
<1>5. SameUpTo(n) /\ ~Midway /\ ~Midway'
  BY <1>1, <1>2, <1>3, <1>4 DEF SameUpTo, Midway, InFlight, Top, Interruptible
<1> QED BY <1>1, <1>2, <1>5 DEF StackOnly

LEMMA NotInterestedIsStackOnly ==
  ASSUME Invs, NotInterested
  PROVE  \E k \in Nat : StackOnly(k)
<1> DEFINE n == Len(frames) - 1
<1>1. /\ status = "running" /\ frames # <<>> /\ Top.at = "start" /\ PipesSame
      /\ UNCHANGED <<answered, interrupts>> /\ Return
  BY DEF NotInterested, At, PipesSame, filterVars
<1>2. frames \in Seq(FrameType) /\ interrupts \in Nat /\ n \in Nat /\ n + 1 = Len(frames)
      /\ Top = frames[n + 1]
  BY <1>1, SomeFrames DEF Invs, TypeOK, Top
<1>3. /\ Len(frames') = n /\ frames' \in Seq(FrameType)
      /\ \A i \in 1 .. n : frames'[i] = frames[i]
  BY <1>1, <1>2, BelowEffect DEF Return
<1>4. SameUpTo(n)
  BY <1>1, <1>2, <1>3 DEF SameUpTo, InFlight
<1>5. ~Midway /\ ~Midway'
  <2>1. SUFFICES ASSUME frames' # <<>> PROVE frames[n].at \notin {"read_oob", "read_rest"}
    BY <1>1, <1>2, <1>3, EmptySeq DEF Midway, Top
  <2>2. n + 1 \in 1 .. Len(frames) /\ n + 1 # 1 /\ (n + 1) - 1 = n
    BY <1>2, <1>3, <2>1, EmptySeq
  <2> QED BY <2>2 DEF Invs, StackInv, Nested, Interruptible
<1>6. status' = "running" \/ interrupts' > 0
  <2>1. Top.handler => interrupts > 0
    BY <1>2 DEF Invs, StackInv, Nested
  <2> QED BY <1>1, <2>1 DEF Return
<1> QED BY <1>1, <1>2, <1>4, <1>5, <1>6 DEF StackOnly

LEMMA StartExchangeIsStackOnly ==
  ASSUME Invs, StartExchange
  PROVE  \E k \in Nat : StackOnly(k)
<1> DEFINE n == Len(frames) - 1
<1>1. /\ status = "running" /\ frames # <<>> /\ Top.at = "start" /\ PipesSame
      /\ UNCHANGED <<status, answered, interrupts>> /\ GoTo("write_tag")
  BY DEF StartExchange, At, PipesSame, filterVars
<1>2. frames \in Seq(FrameType) /\ interrupts \in Nat /\ n \in Nat /\ n + 1 = Len(frames)
      /\ Top = frames[n + 1]
  BY <1>1, SomeFrames DEF Invs, TypeOK, Top
<1>3. /\ Len(frames') = n + 1 /\ frames' # <<>> /\ Top'.at = "write_tag"
      /\ \A i \in 1 .. n : frames'[i] = frames[i]
  <2>1. /\ Len(frames') = Len(frames) /\ frames' # <<>> /\ Top'.at = "write_tag"
        /\ \A i \in 1 .. Len(frames) : i # Len(frames) => frames'[i] = frames[i]
    BY <1>1, <1>2, GoToEffect DEF Places
  <2>2. \A i \in 1 .. n : i \in 1 .. Len(frames) /\ i # Len(frames)
    <3>1. n \in Nat /\ Len(frames) = n + 1
      BY <1>2
    <3> HIDE DEF n
    <3> QED BY <3>1
  <2>3. \A i \in 1 .. n : frames'[i] = frames[i]
    BY <2>1, <2>2
  <2>4. Len(frames') = n + 1
    BY <1>2, <2>1
  <2> QED BY <2>1, <2>3, <2>4
<1>4. SameUpTo(n) /\ ~Midway /\ ~Midway'
  BY <1>1, <1>2, <1>3 DEF SameUpTo, InFlight, Midway, Top
<1> QED BY <1>1, <1>2, <1>4 DEF StackOnly

LEMMA FilterHasDiedIsStackOnly ==
  ASSUME Invs, FilterHasDied
  PROVE  \E k \in Nat : StackOnly(k)
<1> DEFINE f == [tag |-> "OUTPUT", id |-> 0, at |-> "read_tag", handler |-> FALSE]
<1>1. /\ status = "running" /\ frames = <<>> /\ PipesSame /\ frames' = <<f>>
      /\ UNCHANGED <<status, answered, interrupts>>
  BY DEF FilterHasDied, PipesSame, filterVars
<1>2. /\ Len(frames) = 0 /\ Len(frames') = 1 /\ frames' # <<>> /\ frames'[1] = f
      /\ interrupts \in Nat
  BY <1>1 DEF Invs, TypeOK
<1>3. SameUpTo(0) /\ ~Midway /\ ~Midway'
  BY <1>1, <1>2 DEF SameUpTo, Midway, InFlight, Top
<1> QED BY <1>1, <1>2, <1>3 DEF StackOnly

-----------------------------------------------------------------------------
(* Writing. *)

LEMMA FailKeepsInv ==
  ASSUME Invs, UNCHANGED <<answered, interests, interrupts, filter>>, status' # "running", Items',
         interrupts = 0 => \/ status' = "filter_error"
                           \/ /\ filter.state = "dead"
                              /\ \A p \in 1 .. Len(from_filter') : from_filter'[p].tag # "ERROR"
  PROVE  FilterInv'
BY DEF Invs, FilterInv, DiesOnly, AnswersMatch, SignalsMatch

(* Only the last call, when it waits, can have got an error message. *)
LEMMA NoError ==
  ASSUME Invs, status = "running", interrupts = 0, filter.state = "dead",
         frames # <<>> => Top.at \notin {"read_tag", "read_oob"} \/ Top.id = 0
  PROVE  \A p \in 1 .. Len(from_filter) : from_filter[p].tag \notin OutOfBand
<1>1. SUFFICES ASSUME NEW p \in 1 .. Len(from_filter), from_filter[p].tag \in OutOfBand PROVE FALSE
  OBVIOUS
<1>2. PICK i \in Holders : frames[i].at \in {"read_tag", "read_oob"}
  BY <1>1 DEF Invs, FilterInv, RunningInv, Uninterrupted
<1>3. i = Len(frames)
  BY HoldersPlace DEF Invs
<1>4. frames # <<>> /\ frames[i] = Top /\ frames[i].id # 0
  BY <1>3, Typed DEF Holders, InFlight, Top, Invs
<1> QED BY <1>2, <1>4

LEMMA WriteEffect ==
  ASSUME Invs, NEW part \in {"tag", "rest"}, NEW place \in {"write_rest", "read_tag"},
         frames # <<>>, Top.at \in {"write_tag", "write_rest"}, filter.state # "dead",
         Write(Item(part, Top.tag, Top.id), place)
  PROVE  /\ UNCHANGED <<from_filter, filter, interests, answered, interrupts, status>>
         /\ to_filter' # <<>> /\ Len(to_filter') = Len(to_filter) + 1
         /\ \A p \in 1 .. Len(to_filter) : to_filter'[p] = to_filter[p]
         /\ to_filter'[Len(to_filter) + 1] = [part |-> part, tag |-> Top.tag, id |-> Top.id]
         /\ Top.tag \in Tag /\ Top.id > 0
         /\ Len(frames') = Len(frames) /\ frames' # <<>>
         /\ \A i \in 1 .. Len(frames) :
              /\ i # Len(frames) => frames'[i] = frames[i]
              /\ frames'[i].tag = frames[i].tag /\ frames'[i].id = frames[i].id
         /\ frames'[Len(frames)].at = place
<1> DEFINE item == Item(part, Top.tag, Top.id)
<1>1. /\ Len(to_filter) < PipeSize /\ to_filter' = Append(to_filter, item) /\ GoTo(place)
      /\ UNCHANGED <<from_filter, filter, interests, answered, interrupts, status>>
  BY DEF Write, filterVars
<1>2. Len(frames) \in 1 .. Len(frames) /\ Top = frames[Len(frames)] /\ frames \in Seq(FrameType)
  BY SomeFrames DEF Top, Invs
<1>3. Top.tag \in Tag /\ Top.id > 0
  <2>1. Top.id # 0
    BY <1>2 DEF Invs, StackInv, LastWords
  <2>2. Top.id \in Nat
    BY <1>2, Typed DEF Invs
  <2> QED BY <1>2, <2>1, <2>2 DEF Invs, StackInv, LastWords
<1>4. item \in ItemType
  BY <1>3, <1>2, Typed DEF Item, ItemType, Invs
<1>5. to_filter \in Seq(ItemType)
  BY Typed DEF Invs
<1>6. /\ to_filter' # <<>> /\ Len(to_filter') = Len(to_filter) + 1
      /\ \A p \in 1 .. Len(to_filter) : to_filter'[p] = to_filter[p]
      /\ to_filter'[Len(to_filter) + 1] = item
  BY <1>1, <1>4, <1>5, Writing
<1>7. /\ Len(frames') = Len(frames) /\ frames' # <<>> /\ Top'.at = place
      /\ \A i \in 1 .. Len(frames) :
           /\ i # Len(frames) => frames'[i] = frames[i]
           /\ frames'[i].tag = frames[i].tag /\ frames'[i].id = frames[i].id
  BY <1>1, <1>2, GoToEffect DEF Places
<1>8. frames'[Len(frames)].at = place
  BY <1>7 DEF Top
<1> QED BY <1>1, <1>3, <1>6, <1>7, <1>8 DEF Item

(* The rest of the invariant, once the message written is in its place. *)
LEMMA WriteKeepsRest ==
  ASSUME Invs, NEW part \in {"tag", "rest"}, NEW place \in {"write_rest", "read_tag"},
         frames # <<>>, Top.at \in {"write_tag", "write_rest"}, filter.state # "dead",
         status = "running", Write(Item(part, Top.tag, Top.id), place), OneAtATime'
  PROVE  FilterInv'
<1> DEFINE n == Len(frames)
<1>1. /\ UNCHANGED <<from_filter, filter, interests, answered, interrupts, status>>
      /\ Len(to_filter') = Len(to_filter) + 1
      /\ \A p \in 1 .. Len(to_filter) : to_filter'[p] = to_filter[p]
      /\ to_filter'[Len(to_filter) + 1].tag \in Tag
  BY WriteEffect
<1>2. Len(frames') = n /\ frames' # <<>>
      /\ \A i \in 1 .. n : i # n => frames'[i] = frames[i]
  BY WriteEffect
<1>3. n \in 1 .. n /\ n \in Nat /\ Top = frames[n] /\ frames'[n].at = place /\ Top' = frames'[n]
      /\ Len(to_filter) \in Nat
  BY <1>2, WriteEffect, SomeFrames, Typed DEF Top, Invs
<1>4. Paired'
  <2>1. ~Midway /\ ~Midway'
    BY <1>3 DEF Midway
  <2>2. \A tag : Midway => Matches(tag)
    BY <2>1
  <2> QED BY <1>1, <2>1, <2>2 DEF Invs, FilterInv, RunningInv, Paired, SentTag, SentId
<1>5. Uninterrupted'
  <2>1. Exclusive' = Exclusive
    BY <1>1 DEF Exclusive
  <2>2. \A i \in Holders : frames[i].at \in {"read_tag", "read_oob"} =>
          i \in Holders' /\ frames'[i] = frames[i]
    BY <1>2, <1>3, <2>1 DEF Holders, InFlight
  <2> QED BY <1>1, <2>1, <2>2 DEF Invs, FilterInv, RunningInv, Uninterrupted, Own
<1>6. Items'
  BY <1>1, <1>3 DEF Invs, FilterInv, Items
<1> QED BY <1>1, <1>4, <1>5, <1>6
        DEF Invs, FilterInv, RunningInv, DiesOnly, AnswersMatch, SignalsMatch

(* A call that has sent nothing yet and is about to send an exclusive message *)
(* is the only one.                                                         *)
LEMMA NoOtherHolder ==
  ASSUME Invs, frames # <<>>, Top.at = "write_tag", Top.tag \in Exclusive
  PROVE  Holders = {}
<1> DEFINE n == Len(frames)
<1>1. n \in Nat /\ n \in 1 .. n /\ Top = frames[n] /\ interrupts \in Nat
  BY SomeFrames, Typed DEF Top, Invs
<1>2. SUFFICES ASSUME NEW i \in Holders PROVE FALSE
  OBVIOUS
<1>3. i \in 1 .. n /\ i # n /\ frames[i].at # "start"
  BY <1>1 DEF Holders, InFlight
<1>4. i = 1 /\ interrupts > 0 /\ frames[i].tag \in Tags
  BY <1>3, HoldersPlace DEF Invs
<1>5. 1 \in 1 .. n - 1 /\ n # 1
  <2>1. n \in Nat /\ 1 \in 1 .. n /\ 1 # n
    BY <1>1, <1>3, <1>4
  <2> HIDE DEF n
  <2> QED BY <2>1
<1>6. "SIGNAL" \notin interests
  BY <1>3, <1>4, <1>5, TagFacts DEF Invs, StackInv, Blocked, BlockedWhenHandled
<1>7. Top.tag \in Tags
  BY <1>1, <1>4, <1>6 DEF Exclusive
<1>8. Top.tag \in {"SIGNAL", WHAT}
  BY <1>1, <1>5 DEF Invs, StackInv, Nested
<1> QED BY <1>7, <1>8, TagFacts

(* An item of a message that is not about the call that waits.               *)
LEMMA OtherItemKeepsComplete ==
  ASSUME NEW m \in Nat, m = Len(to_filter), to_filter # <<>> <=> m > 0,
         to_filter' # <<>>, Len(to_filter') = m + 1,
         \A p \in 1 .. m : to_filter'[p] = to_filter[p],
         to_filter'[m + 1].tag \notin Exclusive,
         Exclusive' = Exclusive, Occupied' <=> Occupied, UNCHANGED filter, Complete
  PROVE  Complete'
<1>1. \A p \in 1 .. m + 1 : to_filter'[p].tag \in Exclusive =>
        p \in 1 .. m /\ to_filter'[p] = to_filter[p]
  OBVIOUS
<1>2. ASSUME NEW p \in 1 .. m + 1, to_filter'[p].tag \in Exclusive, to_filter'[p].part = "tag"
      PROVE  p < m + 1 /\ (to_filter'[p + 1].part = "rest" => to_filter'[p + 1].tag \in Exclusive)
  <2>1. p \in 1 .. m /\ to_filter'[p] = to_filter[p] /\ Own(to_filter[p])
    BY <1>1, <1>2 DEF Own
  <2>2. p < m /\ Follows(to_filter[p + 1])
    BY <1>2, <2>1 DEF Complete
  <2>3. p + 1 \in 1 .. m /\ to_filter'[p + 1] = to_filter[p + 1]
    BY <2>1, <2>2
  <2> QED BY <2>1, <2>2, <2>3 DEF Follows, Own
<1>3. ASSUME Occupied, filter.state = "reading"
      PROVE  to_filter'[1].part = "rest" => to_filter'[1].tag \in Exclusive
  <2>1. m > 0 /\ Follows(to_filter[1])
    BY <1>3 DEF Complete
  <2>2. to_filter'[1] = to_filter[1]
    BY <2>1
  <2> QED BY <2>1, <2>2 DEF Follows, Own
<1>4. ASSUME NEW p \in 1 .. m + 1, to_filter'[p].tag \in Exclusive, to_filter'[p].part = "rest",
             filter.state \notin {"garbled", "sorry", "dead"}, ~Occupied
      PROVE  \E q \in 1 .. p - 1 : to_filter'[q].tag \in Exclusive
  <2>1. p \in 1 .. m /\ to_filter'[p] = to_filter[p] /\ Own(to_filter[p])
    BY <1>1, <1>4 DEF Own
  <2>2. PICK q \in 1 .. p - 1 : Own(to_filter[q])
    BY <1>4, <2>1 DEF Complete
  <2>3. to_filter'[q] = to_filter[q]
    BY <2>1, <2>2
  <2> QED BY <2>2, <2>3 DEF Own
<1> QED BY <1>2, <1>3, <1>4 DEF Complete, Follows, Own

LEMMA WriteTagOneAtATime ==
  ASSUME Invs, frames # <<>>, Top.at = "write_tag", filter.state # "dead",
         status = "running", Write(Item("tag", Top.tag, Top.id), "write_rest")
  PROVE  OneAtATime'
<1>0. PICK n \in Nat, m \in Nat : n = Len(frames) /\ m = Len(to_filter)
  BY Typed DEF Invs
<1>1. /\ UNCHANGED <<from_filter, filter, interests, interrupts>>
      /\ to_filter' # <<>> /\ Len(to_filter') = m + 1
      /\ \A p \in 1 .. m : to_filter'[p] = to_filter[p]
      /\ to_filter'[m + 1].part = "tag" /\ to_filter'[m + 1].tag = Top.tag
      /\ to_filter'[m + 1].id = Top.id
  BY <1>0, WriteEffect
<1>2. /\ Len(frames') = n /\ Top.id > 0
      /\ \A i \in 1 .. n : i # n => frames'[i] = frames[i]
      /\ frames'[n].at = "write_rest" /\ frames'[n].tag = Top.tag /\ frames'[n].id = Top.id
  BY <1>0, WriteEffect, SomeFrames DEF Top, Invs
<1>3. /\ n \in 1 .. n /\ Top = frames[n] /\ n = Len(frames)
      /\ m = Len(to_filter) /\ (to_filter # <<>> <=> m > 0)
  BY <1>0, SomeFrames, Typed DEF Top, Invs
<1>4. Exclusive' = Exclusive
  BY <1>1 DEF Exclusive
<1>5. Occupied' <=> Occupied
  BY <1>1, <1>4 DEF Occupied
<1>6. OneAtATime
  BY DEF Invs, FilterInv, RunningInv
<1>7. CASE Top.tag \in Exclusive
  <2>1. Holders = {} /\ NothingOnItsWay
    BY <1>6, <1>7, NoOtherHolder DEF OneAtATime
  <2>2. Holders' = {n}
    BY <1>2, <1>3, <1>4, <1>7, <2>1 DEF Holders, InFlight
  <2>3. OnlyAbout(frames[n])'
    <3>1. ~Occupied' /\ \A p \in 1 .. Len(from_filter') : from_filter'[p].tag \notin Exclusive
      BY <1>1, <1>5, <2>1 DEF NothingOnItsWay, Own
    <3>2. \A p \in 1 .. m + 1 : to_filter'[p].tag \in Exclusive => p = m + 1
      <4>1. \A p \in 1 .. m + 1 : p \in 1 .. m \/ p = m + 1
        BY <1>3
      <4> QED BY <1>1, <1>3, <2>1, <4>1 DEF NothingOnItsWay, Own
    <3> QED BY <1>1, <1>2, <1>4, <3>1, <3>2 DEF OnlyAbout, Own
  <2>4. InOnePlace'
    BY <1>1, <1>3, <1>4, <1>5, <2>1 DEF NothingOnItsWay, InOnePlace, Own
  <2>5. Begun'
    BY <1>1, <1>3, <1>4, <1>5, <1>7, <2>1 DEF NothingOnItsWay, Begun, Own
  <2>6. Cut(n)'
    BY <1>2, <1>3 DEF Cut
  <2>7. Journey(n)'
    BY <1>2, <2>2, <2>3, <2>4, <2>5, <2>6 DEF Journey
  <2>8. Holders' # {} /\ \A i \in Holders' : i = n
    BY <2>2
  <2> QED BY <2>7, <2>8 DEF OneAtATime
<1>8. CASE Top.tag \notin Exclusive
  <2>0. \A p \in 1 .. m + 1 : to_filter'[p].tag \in Exclusive =>
          p \in 1 .. m /\ to_filter'[p] = to_filter[p]
    BY <1>1, <1>3, <1>8
  <2>1. Holders' = Holders /\ \A i \in Holders : i \in 1 .. n /\ i # n /\ frames'[i] = frames[i]
    BY <1>2, <1>3, <1>4, <1>8 DEF Holders, InFlight
  <2>2. NothingOnItsWay => NothingOnItsWay'
    BY <1>1, <1>3, <1>4, <1>5, <1>8 DEF NothingOnItsWay, Own
  <2>3. ASSUME NEW i \in Holders PROVE Journey(i)'
    <3>1. Journey(i) /\ i \in 1 .. n /\ i # n /\ frames'[i] = frames[i]
      BY <1>6, <2>1 DEF OneAtATime
    <3>2. OnlyAbout(frames[i])'
      <4>1. OnlyAbout(frames[i])
        BY <3>1 DEF Journey
      <4>2. \A p \in 1 .. m + 1 : to_filter'[p].tag \in Exclusive =>
              to_filter'[p].tag = frames[i].tag /\ to_filter'[p].id = frames[i].id
        BY <1>3, <2>0, <4>1 DEF OnlyAbout, Own
      <4>3. ASSUME NEW p \in 1 .. m + 1, NEW q \in 1 .. m + 1,
                   to_filter'[p].tag \in Exclusive, to_filter'[q].tag \in Exclusive,
                   to_filter'[p].part = to_filter'[q].part
            PROVE  p = q
        <5>1. /\ p \in 1 .. m /\ to_filter'[p] = to_filter[p] /\ Own(to_filter[p])
              /\ q \in 1 .. m /\ to_filter'[q] = to_filter[q] /\ Own(to_filter[q])
          BY <2>0, <4>3 DEF Own
        <5> QED BY <1>3, <4>1, <4>3, <5>1 DEF OnlyAbout
      <4> QED BY <1>1, <1>3, <1>4, <1>5, <3>1, <4>1, <4>2, <4>3 DEF OnlyAbout, Own
    <3>3. InOnePlace'
      BY <1>1, <1>3, <1>4, <1>5, <2>0, <3>1 DEF Journey, InOnePlace, Own
    <3>4. frames[i].at = "write_rest" => Begun' /\ Cut(i)'
      <4>1. SUFFICES ASSUME Begun, Cut(i) PROVE Begun' /\ Cut(i)'
        BY <3>1 DEF Journey
      <4>2. \A p \in 1 .. m : p = m \/ (p \in 1 .. m - 1 /\ p + 1 \in 1 .. m)
        BY <1>3
      <4>3. Begun'
        <5>1. \A p \in 1 .. m + 1 : to_filter'[p].tag \in Exclusive => to_filter'[p].part = "tag"
          BY <1>3, <2>0, <4>1 DEF Begun, Own
        <5>2. \A p \in 1 .. m : to_filter'[p].tag \in Exclusive => to_filter'[p + 1].part = "tag"
          BY <1>1, <1>3, <4>1, <4>2 DEF Begun, Own
        <5>3. Occupied => filter.state = "reading" /\ to_filter'[1].part = "tag"
          BY <1>1, <1>3, <4>1 DEF Begun
        <5>4. (\E p \in 1 .. m : Own(to_filter[p]))
                 => \E p \in 1 .. m + 1 : to_filter'[p].tag \in Exclusive
          BY <1>1, <1>3 DEF Own
        <5>5. (m + 1) - 1 = m
          BY <1>3
        <5> QED BY <1>1, <1>3, <1>4, <1>5, <4>1, <5>1, <5>2, <5>3, <5>4, <5>5 DEF Begun, Own
      <4>4. Cut(i)'
        BY <1>1, <1>3, <1>4, <1>5, <1>8, <3>1, <4>1 DEF Cut, Own
      <4> QED BY <4>3, <4>4
    <3>5. frames[i].at \in {"read_tag", "read_oob"} => Complete'
      <4>1. SUFFICES ASSUME Complete PROVE Complete'
        BY <3>1 DEF Journey
      <4>2. to_filter'[m + 1].tag \notin Exclusive /\ UNCHANGED filter
        BY <1>1, <1>8
      <4> QED BY <1>1, <1>3, <1>4, <1>5, <4>1, <4>2, OtherItemKeepsComplete
    <3>6. frames[i].at = "read_rest" => Answered'
      BY <1>1, <1>3, <1>4, <1>5, <1>8, <3>1 DEF Journey, Answered, Own
    <3> QED BY <2>1, <3>1, <3>2, <3>3, <3>4, <3>5, <3>6 DEF Journey
  <2> QED BY <1>6, <2>1, <2>2, <2>3 DEF OneAtATime
<1> QED BY <1>7, <1>8

LEMMA WriteRestOneAtATime ==
  ASSUME Invs, frames # <<>>, Top.at = "write_rest", filter.state # "dead",
         status = "running", Write(Item("rest", Top.tag, Top.id), "read_tag")
  PROVE  OneAtATime'
<1>0. PICK n \in Nat, m \in Nat : n = Len(frames) /\ m = Len(to_filter)
  BY Typed DEF Invs
<1>1. /\ UNCHANGED <<from_filter, filter, interests, interrupts>>
      /\ to_filter' # <<>> /\ Len(to_filter') = m + 1
      /\ \A p \in 1 .. m : to_filter'[p] = to_filter[p]
      /\ to_filter'[m + 1].part = "rest" /\ to_filter'[m + 1].tag = Top.tag
      /\ to_filter'[m + 1].id = Top.id
  BY <1>0, WriteEffect
<1>2. /\ Len(frames') = n /\ Top.id > 0
      /\ \A i \in 1 .. n : i # n => frames'[i] = frames[i]
      /\ frames'[n].at = "read_tag" /\ frames'[n].tag = Top.tag /\ frames'[n].id = Top.id
  BY <1>0, WriteEffect, SomeFrames DEF Top, Invs
<1>3. /\ n \in 1 .. n /\ Top = frames[n] /\ n = Len(frames)
      /\ m = Len(to_filter) /\ (to_filter # <<>> <=> m > 0)
  BY <1>0, SomeFrames, Typed DEF Top, Invs
<1>4. Exclusive' = Exclusive
  BY <1>1 DEF Exclusive
<1>5. Occupied' <=> Occupied
  BY <1>1, <1>4 DEF Occupied
<1>6. OneAtATime
  BY DEF Invs, FilterInv, RunningInv
<1>7. CASE Top.tag \in Exclusive
  <2>1. n \in Holders
    BY <1>2, <1>3, <1>7 DEF Holders, InFlight
  <2>2. Journey(n) /\ Begun
    BY <1>3, <1>6, <2>1 DEF OneAtATime, Journey
  <2>3. Holders' = {n}
    BY <1>2, <1>3, <1>4, <1>7, <2>2 DEF Holders, InFlight, Journey
  <2>4. OnlyAbout(frames[n])'
    <3>1. OnlyAbout(frames[n]) /\ (\A p \in 1 .. m : Own(to_filter[p]) => to_filter[p].part = "tag")
      BY <1>3, <2>2 DEF Journey, Begun
    <3>2. \A p \in 1 .. m + 1 : p \in 1 .. m \/ p = m + 1
      BY <1>3
    <3>3. \A p \in 1 .. m + 1 : to_filter'[p].tag \in Exclusive =>
            to_filter'[p].tag = Top.tag /\ to_filter'[p].id = Top.id
      BY <1>1, <1>3, <3>1, <3>2 DEF OnlyAbout, Own
    <3>4. ASSUME NEW p \in 1 .. m + 1, NEW q \in 1 .. m + 1,
                 to_filter'[p].tag \in Exclusive, to_filter'[q].tag \in Exclusive,
                 to_filter'[p].part = to_filter'[q].part
          PROVE  p = q
      <4>1. CASE p = m + 1 \/ q = m + 1
        BY <1>1, <3>1, <3>2, <3>4, <4>1 DEF Own
      <4>2. CASE p \in 1 .. m /\ q \in 1 .. m
        BY <1>1, <1>3, <3>1, <3>4, <4>2 DEF OnlyAbout, Own
      <4> QED BY <3>2, <4>1, <4>2
    <3> QED BY <1>1, <1>2, <1>3, <1>4, <1>5, <3>1, <3>3, <3>4 DEF OnlyAbout, Own
  <2>5. InOnePlace'
    BY <1>1, <1>3, <1>4, <1>5, <2>2 DEF Journey, InOnePlace, Begun, Own
  <2>6. Complete'
    <3>1. \A p \in 1 .. m + 1 : p = m + 1 \/ (p \in 1 .. m /\ p + 1 \in 1 .. m + 1)
      BY <1>3
    <3>2. \A p \in 1 .. m : p = m \/ (p \in 1 .. m - 1 /\ p + 1 \in 1 .. m)
      BY <1>3
    <3>3. \A p \in 1 .. m + 1 : to_filter'[p].tag \in Exclusive /\ to_filter'[p].part = "tag" =>
            p < m + 1 /\ Follows(to_filter[p + 1])'
      BY <1>1, <1>3, <1>4, <1>7, <2>2, <3>1, <3>2 DEF Begun, Follows, Own
    <3>4. Occupied /\ filter.state = "reading" => Follows(to_filter[1])'
      BY <1>1, <1>3, <1>4, <1>7, <2>2 DEF Begun, Follows, Own
    <3>5. \A p \in 1 .. m + 1 : to_filter'[p].tag \in Exclusive /\ to_filter'[p].part = "rest" =>
            \/ filter.state \in {"garbled", "sorry", "dead"} \/ Occupied
            \/ \E q \in 1 .. p - 1 : to_filter'[q].tag \in Exclusive
      BY <1>1, <1>3, <2>2, <3>1 DEF Begun, Own
    <3> QED BY <1>1, <1>3, <1>4, <1>5, <3>3, <3>4, <3>5 DEF Complete, Own
  <2>7. Journey(n)'
    BY <1>2, <2>3, <2>4, <2>5, <2>6 DEF Journey
  <2>8. Holders' # {} /\ \A i \in Holders' : i = n
    BY <2>3
  <2> QED BY <2>7, <2>8 DEF OneAtATime
<1>8. CASE Top.tag \notin Exclusive
  <2>0. \A p \in 1 .. m + 1 : to_filter'[p].tag \in Exclusive =>
          p \in 1 .. m /\ to_filter'[p] = to_filter[p]
    BY <1>1, <1>3, <1>8
  <2>1. Holders' = Holders /\ \A i \in Holders : i \in 1 .. n /\ i # n /\ frames'[i] = frames[i]
    BY <1>2, <1>3, <1>4, <1>8 DEF Holders, InFlight
  <2>2. NothingOnItsWay => NothingOnItsWay'
    BY <1>1, <1>3, <1>4, <1>5, <1>8 DEF NothingOnItsWay, Own
  <2>3. ASSUME NEW i \in Holders PROVE Journey(i)'
    <3>1. Journey(i) /\ i \in 1 .. n /\ i # n /\ frames'[i] = frames[i]
      BY <1>6, <2>1 DEF OneAtATime
    <3>2. OnlyAbout(frames[i])'
      <4>1. OnlyAbout(frames[i])
        BY <3>1 DEF Journey
      <4>2. \A p \in 1 .. m + 1 : to_filter'[p].tag \in Exclusive =>
              to_filter'[p].tag = frames[i].tag /\ to_filter'[p].id = frames[i].id
        BY <1>3, <2>0, <4>1 DEF OnlyAbout, Own
      <4>3. ASSUME NEW p \in 1 .. m + 1, NEW q \in 1 .. m + 1,
                   to_filter'[p].tag \in Exclusive, to_filter'[q].tag \in Exclusive,
                   to_filter'[p].part = to_filter'[q].part
            PROVE  p = q
        <5>1. /\ p \in 1 .. m /\ to_filter'[p] = to_filter[p] /\ Own(to_filter[p])
              /\ q \in 1 .. m /\ to_filter'[q] = to_filter[q] /\ Own(to_filter[q])
          BY <2>0, <4>3 DEF Own
        <5> QED BY <1>3, <4>1, <4>3, <5>1 DEF OnlyAbout
      <4> QED BY <1>1, <1>3, <1>4, <1>5, <3>1, <4>1, <4>2, <4>3 DEF OnlyAbout, Own
    <3>3. InOnePlace'
      BY <1>1, <1>3, <1>4, <1>5, <2>0, <3>1 DEF Journey, InOnePlace, Own
    <3>4. frames[i].at = "write_rest" => Begun' /\ Cut(i)'
      <4>1. SUFFICES ASSUME Begun, Cut(i) PROVE Begun' /\ Cut(i)'
        BY <3>1 DEF Journey
      <4>2. (m > 0 => ~Own(to_filter[m])) /\ (Occupied => m > 0)
        BY <1>3, <3>1, <4>1 DEF Cut
      <4>3. Begun'
        <5>1. \A p \in 1 .. m + 1 : to_filter'[p].tag \in Exclusive => to_filter'[p].part = "tag"
          BY <1>3, <2>0, <4>1 DEF Begun, Own
        <5>2. \A p \in 1 .. m : to_filter'[p].tag \in Exclusive => to_filter'[p + 1].part = "tag"
          <6>1. \A p \in 1 .. m : p = m \/ (p \in 1 .. m - 1 /\ p + 1 \in 1 .. m)
            BY <1>3
          <6> QED BY <1>1, <1>3, <4>1, <4>2, <6>1 DEF Begun, Own
        <5>3. Occupied => filter.state = "reading" /\ to_filter'[1].part = "tag"
          BY <1>1, <1>3, <4>1, <4>2 DEF Begun
        <5>4. (\E p \in 1 .. m : Own(to_filter[p]))
                 => \E p \in 1 .. m + 1 : to_filter'[p].tag \in Exclusive
          BY <1>1, <1>3 DEF Own
        <5>5. (m + 1) - 1 = m
          BY <1>3
        <5> QED BY <1>1, <1>3, <1>4, <1>5, <4>1, <5>1, <5>2, <5>3, <5>4, <5>5 DEF Begun, Own
      <4>4. Cut(i)'
        BY <1>1, <1>3, <1>4, <1>5, <1>8, <4>1 DEF Cut, Own
      <4> QED BY <4>3, <4>4
    <3>5. frames[i].at \in {"read_tag", "read_oob"} => Complete'
      <4>1. SUFFICES ASSUME Complete PROVE Complete'
        BY <3>1 DEF Journey
      <4>2. to_filter'[m + 1].tag \notin Exclusive /\ UNCHANGED filter
        BY <1>1, <1>8
      <4> QED BY <1>1, <1>3, <1>4, <1>5, <4>1, <4>2, OtherItemKeepsComplete
    <3>6. frames[i].at = "read_rest" => Answered'
      BY <1>1, <1>3, <1>4, <1>5, <1>8, <3>1 DEF Journey, Answered, Own
    <3> QED BY <2>1, <3>1, <3>2, <3>3, <3>4, <3>5, <3>6 DEF Journey
  <2> QED BY <1>6, <2>1, <2>2, <2>3 DEF OneAtATime
<1> QED BY <1>7, <1>8

LEMMA WriteTagKeepsInv ==
  ASSUME Invs, WriteTag
  PROVE  FilterInv'
<1>1. /\ status = "running" /\ frames # <<>> /\ Top.at = "write_tag"
      /\ Write(Item("tag", Top.tag, Top.id), "write_rest")
  BY DEF WriteTag, At
<1>2. CASE filter.state = "dead"
  <2>1. /\ UNCHANGED <<answered, interests, interrupts, filter, to_filter, from_filter>>
        /\ status' # "running"
    BY <1>1, <1>2 DEF Write, Fail, filterVars
  <2>2. Items'
    BY <2>1 DEF Invs, FilterInv, Items
  <2>3. interrupts = 0 => \A p \in 1 .. Len(from_filter') : from_filter'[p].tag # "ERROR"
    BY <1>1, <1>2, <2>1, NoError DEF OutOfBand
  <2> QED BY <1>2, <2>1, <2>2, <2>3, FailKeepsInv
<1>3. CASE filter.state # "dead"
  BY <1>1, <1>3, WriteTagOneAtATime, WriteKeepsRest
<1> QED BY <1>2, <1>3

LEMMA WriteRestKeepsInv ==
  ASSUME Invs, WriteRest
  PROVE  FilterInv'
<1>1. /\ status = "running" /\ frames # <<>> /\ Top.at = "write_rest"
      /\ Write(Item("rest", Top.tag, Top.id), "read_tag")
  BY DEF WriteRest, At
<1>2. CASE filter.state = "dead"
  <2>1. /\ UNCHANGED <<answered, interests, interrupts, filter, to_filter, from_filter>>
        /\ status' # "running"
    BY <1>1, <1>2 DEF Write, Fail, filterVars
  <2>2. Items'
    BY <2>1 DEF Invs, FilterInv, Items
  <2>3. interrupts = 0 => \A p \in 1 .. Len(from_filter') : from_filter'[p].tag # "ERROR"
    BY <1>1, <1>2, <2>1, NoError DEF OutOfBand
  <2> QED BY <1>2, <2>1, <2>2, <2>3, FailKeepsInv
<1>3. CASE filter.state # "dead"
  BY <1>1, <1>3, WriteRestOneAtATime, WriteKeepsRest
<1> QED BY <1>2, <1>3

-----------------------------------------------------------------------------
(* Reading. *)

LEMMA ReadEffect ==
  ASSUME TypeOK, from_filter # <<>>, from_filter' = Tail(from_filter), NEW k, k = Len(from_filter)
  PROVE  /\ k \in Nat /\ k > 0 /\ Head(from_filter) = from_filter[1]
         /\ Len(from_filter') = k - 1 /\ (from_filter' # <<>> <=> k > 1)
         /\ \A p \in 1 .. k - 1 : from_filter'[p] = from_filter[p + 1]
         /\ from_filter[1].tag \in Tag \cup OutOfBand
         /\ from_filter[1].part \in {"tag", "rest"}
<1>1. from_filter \in Seq(ItemType) /\ Len(from_filter) <= PipeSize
  BY DEF TypeOK
<1>2. /\ Head(from_filter) \in ItemType /\ Head(from_filter) = from_filter[1]
      /\ Len(from_filter) \in Nat /\ Len(from_filter) > 0
      /\ from_filter' \in Seq(ItemType) /\ Len(from_filter') = Len(from_filter) - 1
      /\ \A p \in 1 .. Len(from_filter) - 1 : from_filter'[p] = from_filter[p + 1]
  BY <1>1, Reading
<1>3. from_filter' # <<>> <=> Len(from_filter') # 0
  BY <1>2, EmptySeq
<1> QED BY <1>2, <1>3, ItemParts

LEMMA ReadKeepsPaired ==
  ASSUME Invs, status = "running", from_filter # <<>>, from_filter' = Tail(from_filter),
         UNCHANGED filter, Midway' <=> ~Midway,
         NEW tag, tag = from_filter[1].tag, Midway' => Matches(tag)'
  PROVE  Paired'
<1>0. PICK k : k = Len(from_filter)
  OBVIOUS
<1>1. /\ k \in Nat /\ k > 0 /\ k = Len(from_filter)
      /\ Len(from_filter') = k - 1 /\ (from_filter' # <<>> <=> k > 1)
      /\ \A p \in 1 .. k - 1 : from_filter'[p] = from_filter[p + 1]
      /\ from_filter[1].part \in {"tag", "rest"}
  BY <1>0, ReadEffect DEF Invs
<1>2. Paired
  BY DEF Invs, FilterInv, RunningInv
<1>3. \A p \in 1 .. k - 1 :
        /\ from_filter[p].part = "tag" <=> from_filter[p + 1].part = "rest"
        /\ from_filter[p].part = "tag" => /\ from_filter[p + 1].tag = from_filter[p].tag
                                          /\ from_filter[p + 1].id = from_filter[p].id
  BY <1>1, <1>2 DEF Paired
<1>4. Midway <=> from_filter[1].part = "rest"
  BY <1>2 DEF Paired
<1>5. \A p \in 1 .. (k - 1) - 1 :
        /\ from_filter'[p].part = "tag" <=> from_filter'[p + 1].part = "rest"
        /\ from_filter'[p].part = "tag" => /\ from_filter'[p + 1].tag = from_filter'[p].tag
                                           /\ from_filter'[p + 1].id = from_filter'[p].id
  <2>1. \A p \in 1 .. (k - 1) - 1 : p \in 1 .. k - 1 /\ p + 1 \in 1 .. k - 1
    BY <1>1
  <2> QED BY <1>1, <1>3, <2>1
<1>6. from_filter' # <<>> => /\ Midway' <=> from_filter'[1].part = "rest"
                             /\ Midway' => from_filter'[1].tag = tag
  <2>1. from_filter' # <<>> => 1 \in 1 .. k - 1 /\ 1 + 1 = 2
    BY <1>1
  <2>2. from_filter' # <<>> => from_filter'[1] = from_filter[2]
    BY <1>1, <2>1
  <2> QED BY <1>1, <1>3, <1>4, <2>1, <2>2
<1>7. filter.state # "dead" =>
        /\ from_filter[k].part = "tag" <=> filter.state \in Sending
        /\ filter.state \in Sending => from_filter[k].tag = SentTag /\ from_filter[k].id = SentId
  BY <1>1, <1>2 DEF Paired
<1>8. filter.state # "dead" =>
        IF from_filter' = <<>>
        THEN /\ Midway' <=> filter.state \in Sending
             /\ Midway' => SentTag = tag
        ELSE /\ from_filter'[k - 1].part = "tag" <=> filter.state \in Sending
             /\ filter.state \in Sending =>
                  from_filter'[k - 1].tag = SentTag /\ from_filter'[k - 1].id = SentId
  <2>1. CASE from_filter' = <<>>
    BY <1>1, <1>4, <1>7, <2>1
  <2>2. CASE from_filter' # <<>>
    <3>1. k - 1 \in 1 .. k - 1 /\ (k - 1) + 1 = k
      BY <1>1, <2>2
    <3>2. from_filter'[k - 1] = from_filter[k]
      BY <1>1, <3>1
    <3> QED BY <1>7, <2>2, <3>2
  <2> QED BY <2>1, <2>2
<1>9. SentTag' = SentTag /\ SentId' = SentId
  BY DEF SentTag, SentId
<1> QED BY <1>1, <1>5, <1>6, <1>8, <1>9 DEF Paired

(* What is read is not about an exclusive message, and the holder (if any)   *)
(* is where it was, or has gone on with an out of band message.              *)
LEMMA ReadOtherOneAtATime ==
  ASSUME Invs, status = "running", from_filter # <<>>, from_filter' = Tail(from_filter),
         UNCHANGED <<to_filter, filter, interests, interrupts>>, ~Own(from_filter[1]),
         \A i \in Holders : i \in 1 .. Len(frames'),
         \A i \in 1 .. Len(frames') :
           /\ i \in 1 .. Len(frames)
           /\ frames'[i].tag = frames[i].tag /\ frames'[i].id = frames[i].id
           /\ \/ frames'[i].at = frames[i].at
              \/ {frames[i].at, frames'[i].at} \subseteq {"read_tag", "read_oob"}
              \/ /\ frames[i].tag \notin Exclusive
                 /\ {frames[i].at, frames'[i].at} \cap {"start", "write_tag"} = {}
  PROVE  OneAtATime' /\ Holders' = Holders
<1>0. PICK k : k = Len(from_filter)
  OBVIOUS
<1>1. /\ k \in Nat /\ k > 0 /\ k = Len(from_filter)
      /\ Len(from_filter') = k - 1
      /\ \A p \in 1 .. k - 1 : from_filter'[p] = from_filter[p + 1]
  BY <1>0, ReadEffect DEF Invs
<1>2. OneAtATime
  BY DEF Invs, FilterInv, RunningInv
<1>3. Exclusive' = Exclusive
  BY DEF Exclusive
<1>4. Occupied' <=> Occupied
  BY <1>3 DEF Occupied
<1>5. \A p \in 1 .. k - 1 : p + 1 \in 1 .. k /\ from_filter'[p] = from_filter[p + 1]
  BY <1>1
<1>6. Holders' = Holders
  BY <1>3 DEF Holders, InFlight
<1>7. NothingOnItsWay => NothingOnItsWay'
  BY <1>1, <1>3, <1>4, <1>5 DEF NothingOnItsWay, Own
<1>8. ASSUME NEW i \in Holders PROVE Journey(i)'
  <2>1. Journey(i)
    BY <1>2 DEF OneAtATime
  <2>2. /\ i \in 1 .. Len(frames') /\ i \in 1 .. Len(frames) /\ frames[i].tag \in Exclusive
        /\ frames'[i].tag = frames[i].tag /\ frames'[i].id = frames[i].id
        /\ \/ frames'[i].at = frames[i].at
           \/ {frames[i].at, frames'[i].at} \subseteq {"read_tag", "read_oob"}
    BY DEF Holders
  <2>3. OnlyAbout(frames[i])'
    <3>1. OnlyAbout(frames[i])
      BY <2>1 DEF Journey
    <3>2. \A p \in 1 .. k - 1 : from_filter'[p].tag \in Exclusive =>
            from_filter'[p].tag = frames[i].tag /\ from_filter'[p].id = frames[i].id
      BY <1>1, <1>5, <3>1 DEF OnlyAbout, Own
    <3>3. ASSUME NEW p \in 1 .. k - 1, NEW q \in 1 .. k - 1,
                 from_filter'[p].tag \in Exclusive, from_filter'[q].tag \in Exclusive,
                 from_filter'[p].part = from_filter'[q].part
          PROVE  p = q
      <4>1. /\ p + 1 \in 1 .. k /\ from_filter'[p] = from_filter[p + 1]
            /\ q + 1 \in 1 .. k /\ from_filter'[q] = from_filter[q + 1]
        BY <1>5
      <4>2. p + 1 = q + 1
        BY <1>1, <3>1, <3>3, <4>1 DEF OnlyAbout, Own
      <4> QED BY <1>1, <4>2
    <3> QED BY <1>1, <1>3, <1>4, <2>2, <3>1, <3>2, <3>3 DEF OnlyAbout, Own
  <2>4. InOnePlace'
    BY <1>1, <1>3, <1>4, <1>5, <2>1 DEF Journey, InOnePlace, Own
  <2>5. frames[i].at = "write_rest" => Begun' /\ Cut(i)'
    <3>1. SUFFICES ASSUME Begun, Cut(i) PROVE Begun' /\ Cut(i)'
      BY <2>1 DEF Journey
    <3>2. Begun'
      BY <1>1, <1>3, <1>4, <1>5, <3>1 DEF Begun, Own
    <3>3. (\E j \in i + 1 .. Len(frames') : frames'[j].at \notin {"start", "write_tag"})
            => (\E j \in i + 1 .. Len(frames) : frames[j].at \notin {"start", "write_tag"})
      <4>1. SUFFICES ASSUME NEW j \in i + 1 .. Len(frames'),
                            frames'[j].at \notin {"start", "write_tag"}
                     PROVE  /\ j \in i + 1 .. Len(frames)
                            /\ frames[j].at \notin {"start", "write_tag"}
        OBVIOUS
      <4>2. Len(frames) \in Nat /\ Len(frames') \in Nat
        BY SomeFrames DEF Invs, TypeOK
      <4>3. j \in 1 .. Len(frames')
        BY <2>2, <4>2
      <4>4. j \in 1 .. Len(frames) /\ j \in i + 1 .. Len(frames)
        BY <2>2, <4>1, <4>2, <4>3
      <4>5. \/ frames'[j].at = frames[j].at
            \/ {frames[j].at, frames'[j].at} \subseteq {"read_tag", "read_oob"}
            \/ {frames[j].at, frames'[j].at} \cap {"start", "write_tag"} = {}
        BY <4>3
      <4> QED BY <4>1, <4>4, <4>5
    <3> QED BY <1>3, <1>4, <3>1, <3>2, <3>3 DEF Cut, Own
  <2>6. Complete => Complete'
    BY <1>3, <1>4 DEF Complete, Follows, Own
  <2>7. Answered => Answered'
    <3>1. SUFFICES ASSUME Answered PROVE Answered'
      OBVIOUS
    <3>2. \A p \in 1 .. k - 1 : from_filter'[p].tag \notin Exclusive
      <4>1. SUFFICES ASSUME NEW p \in 1 .. k - 1, from_filter'[p].tag \in Exclusive PROVE FALSE
        OBVIOUS
      <4>2. p + 1 \in 1 .. k /\ Own(from_filter[p + 1]) /\ p + 1 # 1
        BY <1>1, <1>5, <4>1 DEF Own
      <4> QED BY <1>1, <3>1, <4>2 DEF Answered
    <3> QED BY <1>1, <1>3, <1>4, <3>1, <3>2 DEF Answered, Own
  <2> QED BY <1>6, <2>1, <2>2, <2>3, <2>4, <2>5, <2>6, <2>7 DEF Journey
<1> QED BY <1>2, <1>6, <1>7, <1>8 DEF OneAtATime

(* The last call's message, when that is exclusive, is the only one on its   *)
(* way: as only calls with a number get an answer to an exclusive one.       *)
LEMMA OwnIsTops ==
  ASSUME Invs, status = "running", frames # <<>>, Top.at \in {"read_tag", "read_rest"},
         Top.tag \in Exclusive, NEW p \in 1 .. Len(from_filter), Own(from_filter[p])
  PROVE  /\ Len(frames) \in Holders /\ Journey(Len(frames))
         /\ from_filter[p].tag = Top.tag /\ from_filter[p].id = Top.id /\ Top.id > 0
<1> DEFINE n == Len(frames)
<1>1. n \in Nat /\ n \in 1 .. n /\ Top = frames[n] /\ Top.id \in Nat
  BY SomeFrames, FrameParts DEF Invs, Top
<1>2. OneAtATime
  BY DEF Invs, FilterInv, RunningInv
<1>3. PICK i \in Holders : TRUE
  BY <1>2 DEF OneAtATime, NothingOnItsWay
<1>4. Journey(i) /\ OnlyAbout(frames[i])
  BY <1>2 DEF OneAtATime, Journey
<1>5. ASSUME i # n PROVE FALSE
  <2>1. i \in 1 .. n /\ i = 1 /\ frames[i].tag \in Tags /\ n # 1
    BY <1>3, <1>5, HoldersPlace DEF Invs, Holders
  <2>2. n # 1 /\ 1 \in 1 .. n - 1
    <3>1. n \in Nat /\ 1 \in 1 .. n /\ n # 1
      BY <1>1, <2>1
    <3> HIDE DEF n
    <3> QED BY <3>1
  <2>3. Top.tag \in {"SIGNAL", WHAT}
    BY <1>1, <2>2 DEF Invs, StackInv, Nested
  <2>4. frames[1].at # "start"
    BY <1>3, <2>1 DEF Holders, InFlight
  <2>5. Top.tag # "OUTPUT"
    BY <2>3 DEF WHAT
  <2>6. Top.id # 0
    BY <1>1, <2>5 DEF Invs, StackInv, LastWords
  <2>7. n \in Holders
    BY <1>1, <2>6 DEF Holders, InFlight
  <2> QED BY <1>4, <1>5, <2>7 DEF Journey
<1>6. i = n
  BY <1>5
<1>7. Top.id > 0
  BY <1>1, <1>6 DEF Holders, InFlight
<1> QED BY <1>1, <1>3, <1>4, <1>6, <1>7 DEF OnlyAbout

LEMMA ReadTagKeepsInv ==
  ASSUME Invs, ReadTag
  PROVE  FilterInv'
<1>0. PICK n, k, tag : /\ n \in Nat /\ n = Len(frames) /\ k = Len(from_filter)
                       /\ tag = from_filter[1].tag
  BY Typed DEF Invs
<1>1. /\ status = "running" /\ frames # <<>> /\ Top.at = "read_tag"
      /\ from_filter # <<>> /\ from_filter' = Tail(from_filter)
      /\ UNCHANGED <<interests, interrupts, answered, filter, to_filter>>
  BY DEF ReadTag, At, filterVars
<1>2. /\ k \in Nat /\ k > 0 /\ k = Len(from_filter) /\ Head(from_filter) = from_filter[1]
      /\ Len(from_filter') = k - 1
      /\ \A p \in 1 .. k - 1 : from_filter'[p] = from_filter[p + 1]
      /\ tag \in Tag \cup OutOfBand /\ from_filter[1].part \in {"tag", "rest"}
  BY <1>0, <1>1, ReadEffect DEF Invs
<1>3. n \in 1 .. n /\ n = Len(frames) /\ Top = frames[n] /\ interrupts \in Nat /\ 1 \in 1 .. k
  BY <1>0, <1>1, <1>2, SomeFrames, Typed DEF Top, Invs
<1>4. Items' /\ AnswersMatch' /\ SignalsMatch'
  BY <1>1 DEF Invs, FilterInv, Items, AnswersMatch, SignalsMatch
<1>5. Paired /\ OneAtATime /\ Uninterrupted
  BY <1>1 DEF Invs, FilterInv, RunningInv
<1>6. from_filter[1].part = "tag"
  BY <1>1, <1>2, <1>5 DEF Paired, Midway
<1>7. Exclusive' = Exclusive
  BY <1>1 DEF Exclusive
<1>8. CASE after_tag(tag) = "mismatch"
  <2>1. status' # "running" /\ tag \in Tag /\ tag # Top.tag
    BY <1>0, <1>2, <1>8 DEF ReadTag, Fail, after_tag
  <2>2. interrupts # 0
    <3>1. SUFFICES ASSUME interrupts = 0 PROVE FALSE
      OBVIOUS
    <3>2. Own(from_filter[1])
      BY <1>0, <2>1, <3>1 DEF Own, Exclusive, Tag
    <3>3. PICK i \in Holders : TRUE
      BY <1>0, <1>3, <1>5, <3>2 DEF OneAtATime, NothingOnItsWay
    <3>4. i = n
      BY <1>3, <3>1, <3>3, HoldersPlace DEF Invs
    <3> QED BY <1>0, <1>3, <1>5, <2>1, <3>2, <3>3, <3>4 DEF OneAtATime, Journey, OnlyAbout
  <2> QED BY <1>1, <1>4, <2>1, <2>2, FailKeepsInv
<1>9. CASE after_tag(tag) # "mismatch"
  <2> DEFINE place == after_tag(tag)
  <2>1. status' = "running" /\ GoTo(place) /\ place \in {"read_oob", "read_rest"}
    BY <1>0, <1>1, <1>2, <1>9 DEF ReadTag, after_tag
  <2>2. /\ Len(frames') = n /\ frames' # <<>> /\ Top'.at = place /\ Top' = frames'[n]
        /\ \A i \in 1 .. n : /\ i # n => frames'[i] = frames[i]
                             /\ frames'[i].tag = frames[i].tag /\ frames'[i].id = frames[i].id
    <3>1. frames \in Seq(FrameType) /\ place \in Places
      BY <2>1 DEF Invs, TypeOK, Places
    <3>2. /\ Len(frames') = Len(frames) /\ frames' # <<>> /\ Top'.at = place
          /\ \A i \in 1 .. Len(frames) :
               /\ i # Len(frames) => frames'[i] = frames[i]
               /\ frames'[i].tag = frames[i].tag /\ frames'[i].id = frames[i].id
      BY <1>1, <2>1, <3>1, GoToEffect
    <3> HIDE DEF place
    <3> QED BY <1>0, <3>2 DEF Top
  <2>3. Paired'
    <3>1. Midway' /\ ~Midway
      BY <1>1, <2>1, <2>2 DEF Midway
    <3>2. Matches(tag)'
      BY <1>3, <1>9, <2>2 DEF Matches, after_tag, OutOfBand
    <3> QED BY <1>0, <1>1, <3>1, <3>2, ReadKeepsPaired
  <2>4. OneAtATime' /\ (place = "read_oob" => Holders' = Holders)
    <3>1. CASE tag \notin Exclusive
      <4>1. \A i \in Holders : i \in 1 .. Len(frames')
        BY <1>3, <2>2 DEF Holders
      <4>2. frames[n].at = "read_tag" /\ frames'[n].at = place
            /\ (place = "read_oob" \/ frames[n].tag \notin Exclusive)
        BY <1>1, <1>3, <2>1, <2>2, <3>1 DEF after_tag
      <4>3. \A i \in 1 .. n :
              \/ frames'[i].at = frames[i].at
              \/ {frames[i].at, frames'[i].at} \subseteq {"read_tag", "read_oob"}
              \/ /\ frames[i].tag \notin Exclusive
                 /\ {frames[i].at, frames'[i].at} \cap {"start", "write_tag"} = {}
        BY <2>1, <2>2, <4>2
      <4> HIDE DEF place
      <4> QED BY <1>0, <1>1, <2>2, <3>1, <4>1, <4>3, ReadOtherOneAtATime DEF Own
    <3>2. CASE tag \in Exclusive
      <4>1. tag = Top.tag /\ place = "read_rest" /\ Own(from_filter[1])
        BY <1>0, <1>9, <2>1, <3>2, TagFacts DEF after_tag, Own, OutOfBand
      <4>2. n \in Holders /\ Journey(n)
        BY <1>1, <1>3, <3>2, <4>1, OwnIsTops
      <4>3. Holders' = {n} /\ frames'[n].at = "read_rest"
        BY <1>3, <1>7, <2>2, <4>1, <4>2 DEF Holders, InFlight, Journey
      <4>4. OnlyAbout(frames[n]) /\ InOnePlace
        BY <4>2 DEF Journey
      <4>5. \A p \in 1 .. k - 1 : p + 1 \in 1 .. k /\ from_filter'[p] = from_filter[p + 1]
        BY <1>2
      <4>6. Occupied' <=> Occupied
        BY <1>1, <1>7 DEF Occupied
      <4>7. OnlyAbout(frames[n])'
        <5>1. \A p \in 1 .. k - 1 : from_filter'[p].tag \in Exclusive =>
                from_filter'[p].tag = frames[n].tag /\ from_filter'[p].id = frames[n].id
          <6>1. \A p \in 1 .. k : from_filter[p].tag \in Exclusive =>
                  from_filter[p].tag = frames[n].tag /\ from_filter[p].id = frames[n].id
            BY <1>2, <4>4 DEF OnlyAbout, Own
          <6> HIDE DEF place
          <6> QED BY <4>5, <6>1
        <5>2. ASSUME NEW p \in 1 .. k - 1, NEW q \in 1 .. k - 1,
                     from_filter'[p].tag \in Exclusive, from_filter'[q].tag \in Exclusive,
                     from_filter'[p].part = from_filter'[q].part
              PROVE  p = q
          <6>1. /\ p + 1 \in 1 .. k /\ from_filter'[p] = from_filter[p + 1]
                /\ q + 1 \in 1 .. k /\ from_filter'[q] = from_filter[q + 1]
            BY <4>5
          <6>2. p + 1 = q + 1
            BY <1>2, <4>4, <5>2, <6>1 DEF OnlyAbout, Own
          <6> QED BY <1>2, <6>2
        <5> QED BY <1>1, <1>2, <1>3, <1>7, <2>2, <4>4, <4>6, <5>1, <5>2 DEF OnlyAbout, Own
      <4>8. InOnePlace'
        BY <1>1, <1>2, <1>7, <4>4, <4>5, <4>6 DEF InOnePlace, Own
      <4>9. Answered'
        <5>1. \A p \in 1 .. Len(to_filter) : ~Own(to_filter[p])
          BY <1>2, <1>3, <4>1, <4>4 DEF InOnePlace
        <5>2. Occupied => filter.state \in {"answering", "rejected"}
          BY <1>2, <1>3, <4>1, <4>4 DEF InOnePlace
        <5>3. ASSUME NEW p \in 1 .. k - 1, from_filter'[p].tag \in Exclusive
              PROVE  p = 1 /\ ~Occupied
          <6>1. p + 1 \in 1 .. k /\ Own(from_filter[p + 1]) /\ p + 1 # 1
            BY <1>2, <4>5, <5>3 DEF Own
          <6>2. from_filter[p + 1].part # "tag"
            BY <1>2, <1>3, <1>6, <4>1, <4>4, <6>1 DEF OnlyAbout
          <6>3. ~Occupied
            BY <1>2, <4>4, <6>1, <6>2 DEF InOnePlace
          <6>4. 1 + 1 \in 1 .. k /\ 1 \in 1 .. k - 1
            BY <1>2, <6>1
          <6>5. from_filter[1 + 1].part = "rest" /\ from_filter[1 + 1].tag = tag
            BY <1>0, <1>2, <1>5, <1>6, <6>4 DEF Paired
          <6>6. from_filter[p + 1].part = "rest"
            BY <1>2, <6>1, <6>2, Typed DEF Invs
          <6>7. p + 1 = 1 + 1
            BY <1>2, <3>2, <4>4, <6>1, <6>4, <6>5, <6>6 DEF OnlyAbout, Own
          <6> QED BY <1>2, <6>3, <6>7
        <5> QED BY <1>1, <1>2, <1>7, <4>6, <5>1, <5>2, <5>3 DEF Answered, Own
      <4>10. Journey(n)'
        BY <1>3, <2>2, <4>3, <4>7, <4>8, <4>9 DEF Journey
      <4>11. Holders' # {} /\ \A i \in Holders' : i = n
        BY <4>3
      <4> QED BY <4>1, <4>10, <4>11 DEF OneAtATime
    <3> QED BY <3>1, <3>2
  <2>5. Uninterrupted'
    <3>1. SUFFICES ASSUME interrupts = 0 PROVE Uninterrupted'
      BY <1>1 DEF Uninterrupted
    <3>2. \A p \in 1 .. k - 1 : p + 1 \in 1 .. k /\ from_filter'[p] = from_filter[p + 1]
      BY <1>2
    <3>3. filter.state = "sorry" => \A p \in 1 .. k - 1 : from_filter'[p].tag = "ERROR"
      BY <1>2, <1>5, <3>1, <3>2 DEF Uninterrupted
    <3>4. ASSUME NEW p \in 1 .. k - 1, from_filter'[p].tag \in OutOfBand, filter.state # "sorry"
          PROVE  /\ \E i \in Holders' : frames'[i].at \in {"read_tag", "read_oob"}
                 /\ \A q \in 1 .. p : from_filter'[q].tag \notin Exclusive
      <4>1. /\ \E i \in Holders : frames[i].at \in {"read_tag", "read_oob"}
            /\ \A q \in 1 .. p + 1 : ~Own(from_filter[q])
        BY <1>2, <1>5, <3>1, <3>2, <3>4 DEF Uninterrupted
      <4>2. PICK i \in Holders : frames[i].at \in {"read_tag", "read_oob"}
        BY <4>1
      <4>3. i = n
        BY <1>3, <3>1, HoldersPlace DEF Invs
      <4>4. tag \notin Exclusive
        <5>1. 1 \in 1 .. p + 1
          OBVIOUS
        <5> QED BY <1>0, <4>1, <5>1 DEF Own
      <4>5. place = "read_oob"
        BY <1>3, <1>9, <4>2, <4>3, <4>4 DEF after_tag, Holders
      <4>6. n \in Holders' /\ frames'[n].at = "read_oob"
        BY <2>2, <2>4, <4>2, <4>3, <4>5
      <4>7. \A q \in 1 .. p : from_filter'[q].tag \notin Exclusive
        <5>1. \A q \in 1 .. p : q \in 1 .. k - 1 /\ q + 1 \in 1 .. p + 1
          BY <1>2
        <5> QED BY <3>2, <4>1, <5>1 DEF Own
      <4> QED BY <4>6, <4>7
    <3> QED BY <1>1, <1>2, <1>7, <3>3, <3>4 DEF Uninterrupted, Own
  <2>6. DiesOnly'
    BY <2>1 DEF DiesOnly
  <2> QED BY <1>4, <2>3, <2>4, <2>5, <2>6 DEF FilterInv, RunningInv
<1> QED BY <1>8, <1>9

LEMMA ReadOutOfBandKeepsInv ==
  ASSUME Invs, ReadOutOfBand
  PROVE  FilterInv'
<1>0. PICK n, k, tag : /\ n \in Nat /\ n = Len(frames) /\ k = Len(from_filter)
                       /\ tag = from_filter[1].tag
  BY Typed DEF Invs
<1>1. /\ status = "running" /\ frames # <<>> /\ Top.at = "read_oob"
      /\ from_filter # <<>> /\ from_filter' = Tail(from_filter)
      /\ UNCHANGED <<interests, interrupts, answered, filter, to_filter>>
  BY DEF ReadOutOfBand, At, filterVars
<1>2. /\ k \in Nat /\ k > 0 /\ k = Len(from_filter) /\ Head(from_filter) = from_filter[1]
      /\ Len(from_filter') = k - 1
      /\ \A p \in 1 .. k - 1 : from_filter'[p] = from_filter[p + 1]
  BY <1>0, <1>1, ReadEffect DEF Invs
<1>3. n \in 1 .. n /\ n = Len(frames) /\ Top = frames[n] /\ interrupts \in Nat /\ 1 \in 1 .. k
  BY <1>0, <1>1, <1>2, SomeFrames, Typed DEF Top, Invs
<1>4. Items' /\ AnswersMatch' /\ SignalsMatch'
  BY <1>1 DEF Invs, FilterInv, Items, AnswersMatch, SignalsMatch
<1>5. Paired /\ OneAtATime /\ Uninterrupted
  BY <1>1 DEF Invs, FilterInv, RunningInv
<1>6. tag \in OutOfBand /\ tag \notin Exclusive
  BY <1>0, <1>1, <1>5, TagFacts DEF Paired, Midway, Matches, OutOfBand
<1>7. Exclusive' = Exclusive
  BY <1>1 DEF Exclusive
<1>8. CASE tag = "ERROR"
  <2>1. status' = "filter_error"
    BY <1>0, <1>2, <1>8 DEF ReadOutOfBand, Fail
  <2> QED BY <1>1, <1>4, <2>1, FailKeepsInv
<1>9. CASE tag # "ERROR"
  <2>1. status' = "running" /\ GoTo("read_tag")
    BY <1>0, <1>1, <1>2, <1>9 DEF ReadOutOfBand
  <2>2. /\ Len(frames') = n /\ frames' # <<>> /\ frames'[n].at = "read_tag" /\ Top' = frames'[n]
        /\ \A i \in 1 .. n : /\ i # n => frames'[i] = frames[i]
                             /\ frames'[i].tag = frames[i].tag /\ frames'[i].id = frames[i].id
    <3>1. frames \in Seq(FrameType)
      BY DEF Invs, TypeOK
    <3>2. /\ Len(frames') = Len(frames) /\ frames' # <<>> /\ Top'.at = "read_tag"
          /\ \A i \in 1 .. Len(frames) :
               /\ i # Len(frames) => frames'[i] = frames[i]
               /\ frames'[i].tag = frames[i].tag /\ frames'[i].id = frames[i].id
      BY <1>1, <2>1, <3>1, GoToEffect DEF Places
    <3> QED BY <1>0, <3>2 DEF Top
  <2>3. Paired'
    <3>1. ~Midway' /\ Midway
      BY <1>1, <2>1, <2>2 DEF Midway
    <3> QED BY <1>0, <1>1, <3>1, ReadKeepsPaired
  <2>4. OneAtATime' /\ Holders' = Holders
    <3>1. \A i \in Holders : i \in 1 .. Len(frames')
      BY <1>3, <2>2 DEF Holders
    <3>2. frames[n].at = "read_oob"
      BY <1>1, <1>3
    <3>3. \A i \in 1 .. n :
            \/ frames'[i].at = frames[i].at
            \/ {frames[i].at, frames'[i].at} \subseteq {"read_tag", "read_oob"}
      BY <2>2, <3>2
    <3> QED BY <1>0, <1>1, <1>6, <2>2, <3>1, <3>3, ReadOtherOneAtATime DEF Own
  <2>5. Uninterrupted'
    <3>1. SUFFICES ASSUME interrupts = 0 PROVE Uninterrupted'
      BY <1>1 DEF Uninterrupted
    <3>2. \A p \in 1 .. k - 1 : p + 1 \in 1 .. k /\ from_filter'[p] = from_filter[p + 1]
      BY <1>2
    <3>3. filter.state = "sorry" => \A p \in 1 .. k - 1 : from_filter'[p].tag = "ERROR"
      BY <1>2, <1>5, <3>1, <3>2 DEF Uninterrupted
    <3>4. ASSUME NEW p \in 1 .. k - 1, from_filter'[p].tag \in OutOfBand, filter.state # "sorry"
          PROVE  /\ \E i \in Holders' : frames'[i].at \in {"read_tag", "read_oob"}
                 /\ \A q \in 1 .. p : from_filter'[q].tag \notin Exclusive
      <4>1. /\ \E i \in Holders : frames[i].at \in {"read_tag", "read_oob"}
            /\ \A q \in 1 .. p + 1 : ~Own(from_filter[q])
        BY <1>2, <1>5, <3>1, <3>2, <3>4 DEF Uninterrupted
      <4>2. PICK i \in Holders : frames[i].at \in {"read_tag", "read_oob"}
        BY <4>1
      <4>3. i = n
        BY <1>3, <3>1, HoldersPlace DEF Invs
      <4>6. n \in Holders' /\ frames'[n].at = "read_tag"
        BY <2>2, <2>4, <4>2, <4>3
      <4>7. \A q \in 1 .. p : from_filter'[q].tag \notin Exclusive
        <5>1. \A q \in 1 .. p : q \in 1 .. k - 1 /\ q + 1 \in 1 .. p + 1
          BY <1>2
        <5> QED BY <3>2, <4>1, <5>1 DEF Own
      <4> QED BY <4>6, <4>7
    <3> QED BY <1>1, <1>2, <1>7, <3>3, <3>4 DEF Uninterrupted, Own
  <2>6. DiesOnly'
    BY <2>1 DEF DiesOnly
  <2> QED BY <1>4, <2>3, <2>4, <2>5, <2>6 DEF FilterInv, RunningInv
<1> QED BY <1>8, <1>9

LEMMA ReadAnswerKeepsInv ==
  ASSUME Invs, ReadAnswer
  PROVE  FilterInv'
<1>0. PICK n, k, tag, a :
        /\ n \in Nat /\ n = Len(frames) /\ k = Len(from_filter) /\ tag = from_filter[1].tag
        /\ a = [tag |-> Top.tag, id |-> Top.id, answer |-> from_filter[1].id]
  BY Typed DEF Invs
<1>1. /\ status = "running" /\ frames # <<>> /\ Top.at = "read_rest" /\ Return
      /\ from_filter # <<>> /\ from_filter' = Tail(from_filter)
      /\ UNCHANGED <<interests, interrupts, filter, to_filter>>
      /\ answered' = answered \cup
           {[tag |-> Top.tag, id |-> Top.id, answer |-> Head(from_filter).id]}
  BY DEF ReadAnswer, At, filterVars
<1>2. /\ k \in Nat /\ k > 0 /\ k = Len(from_filter) /\ Head(from_filter) = from_filter[1]
      /\ Len(from_filter') = k - 1
      /\ \A p \in 1 .. k - 1 : from_filter'[p] = from_filter[p + 1]
  BY <1>0, <1>1, ReadEffect DEF Invs
<1>3. n \in 1 .. n /\ n = Len(frames) /\ Top = frames[n] /\ interrupts \in Nat /\ 1 \in 1 .. k
  BY <1>0, <1>1, <1>2, SomeFrames, Typed DEF Top, Invs
<1>4. answered' = answered \cup {a}
  BY <1>0, <1>1, <1>2
<1>5. Paired /\ OneAtATime /\ Uninterrupted
  BY <1>1 DEF Invs, FilterInv, RunningInv
<1>6. tag = Top.tag
  BY <1>0, <1>1, <1>5 DEF Paired, Midway, Matches
<1>7. Exclusive' = Exclusive
  BY <1>1 DEF Exclusive
<1>8. tag \in Exclusive => n \in Holders /\ Journey(n) /\ a.answer = a.id /\ Top.id > 0
  BY <1>0, <1>1, <1>2, <1>3, <1>6, OwnIsTops DEF Own
<1>9. AnswersMatch' /\ SignalsMatch'
  <2>1. a.tag = tag /\ Tags \subseteq Exclusive
    BY <1>0, <1>6, TagFacts
  <2>2. AnswersMatch'
    BY <1>4, <1>8, <2>1 DEF Invs, FilterInv, AnswersMatch
  <2>3. "SIGNAL" \in interests => "SIGNAL" \in Exclusive
    BY DEF Exclusive
  <2>4. SignalsMatch'
    BY <1>1, <1>4, <1>8, <2>1, <2>3 DEF Invs, FilterInv, SignalsMatch
  <2> QED BY <2>2, <2>4
<1>10. Items'
  BY <1>1 DEF Invs, FilterInv, Items
<1>11. DiesOnly'
  <2>1. Top.handler => interrupts # 0
    BY <1>3 DEF Invs, StackInv, Nested
  <2> QED BY <1>1, <2>1 DEF Return, DiesOnly
<1>12. /\ Len(frames') = n - 1
       /\ \A i \in 1 .. n - 1 : frames'[i] = frames[i]
  <2>1. frames \in Seq(FrameType)
    BY DEF Invs, TypeOK
  <2> QED BY <1>0, <1>1, <2>1, BelowEffect DEF Return
<1>13. frames' # <<>> => n - 1 \in 1 .. n - 1 /\ n \in 1 .. n /\ n # 1 /\ Top' = frames[n - 1]
  <2>1. frames' # <<>> => n - 1 \in 1 .. n - 1
    BY <1>0, <1>12, SomeFrames DEF Invs
  <2> QED BY <1>0, <1>12, <2>1 DEF Top
<1>14. Paired'
  <2>1. Midway
    BY <1>1 DEF Midway
  <2>2. frames' # <<>> => Top'.at \in Interruptible \cup {"start"}
    BY <1>3, <1>13 DEF Invs, StackInv, Nested
  <2>3. ~Midway'
    BY <2>2 DEF Midway, Interruptible
  <2> QED BY <1>0, <1>1, <2>1, <2>3, ReadKeepsPaired
<1>15. \A p \in 1 .. k - 1 : p + 1 \in 1 .. k /\ p + 1 # 1 /\ from_filter'[p] = from_filter[p + 1]
  BY <1>2
<1>16. OneAtATime'
  <2>1. CASE tag \notin Exclusive
    <3>1. \A i \in Holders : i \in 1 .. n - 1
      BY <1>0, <1>3, <1>6, <2>1 DEF Holders
    <3>2. \A i \in 1 .. n - 1 : i \in 1 .. n
      BY <1>0
    <3> QED BY <1>0, <1>1, <1>12, <2>1, <3>1, <3>2, ReadOtherOneAtATime DEF Own
  <2>2. CASE tag \in Exclusive
    <3>1. Answered /\ \A j \in Holders : j = n
      BY <1>1, <1>3, <1>8, <2>2 DEF Journey
    <3>2. Holders' = {}
      <4>1. \A i \in 1 .. n - 1 : i \in 1 .. n /\ i # n
        BY <1>0
      <4> QED BY <1>3, <1>7, <1>12, <3>1, <4>1 DEF Holders, InFlight
    <3>3. NothingOnItsWay'
      BY <1>0, <1>1, <1>2, <1>3, <1>7, <1>15, <2>2, <3>1
         DEF Answered, NothingOnItsWay, Occupied, Own
    <3> QED BY <3>2, <3>3 DEF OneAtATime
  <2> QED BY <2>1, <2>2
<1>17. Uninterrupted'
  <2>1. SUFFICES ASSUME interrupts = 0 PROVE Uninterrupted'
    BY <1>1 DEF Uninterrupted
  <2>2. filter.state = "sorry" => \A p \in 1 .. k - 1 : from_filter'[p].tag = "ERROR"
    BY <1>2, <1>5, <1>15, <2>1 DEF Uninterrupted
  <2>3. ASSUME NEW p \in 1 .. k - 1, from_filter'[p].tag \in OutOfBand, filter.state # "sorry"
        PROVE  FALSE
    <3>1. PICK i \in Holders : frames[i].at \in {"read_tag", "read_oob"}
      BY <1>2, <1>5, <1>15, <2>1, <2>3 DEF Uninterrupted
    <3>2. i = n
      BY <1>3, <2>1, HoldersPlace DEF Invs
    <3> QED BY <1>1, <1>3, <3>1, <3>2
  <2> QED BY <1>1, <1>2, <2>2, <2>3 DEF Uninterrupted
<1> QED BY <1>9, <1>10, <1>11, <1>14, <1>16, <1>17 DEF FilterInv, RunningInv

LEMMA ReadEOFKeepsInv ==
  ASSUME Invs, ReadEOF
  PROVE  FilterInv'
<1>1. /\ status' # "running" /\ filter.state = "dead" /\ from_filter = <<>>
      /\ UNCHANGED <<interests, interrupts, answered, filter, to_filter, from_filter>>
  BY DEF ReadEOF, at_end_of_file, Fail, filterVars
<1>2. \A p \in 1 .. Len(from_filter') : from_filter'[p].tag # "ERROR"
  BY <1>1
<1>3. Items'
  BY <1>1 DEF Invs, FilterInv, Items
<1> QED BY <1>1, <1>2, <1>3, FailKeepsInv

-----------------------------------------------------------------------------
(* The filter. *)

LEMMA FilterStepKeepsInv ==
  ASSUME Invs, UNCHANGED <<rlwrapVars, interests>>, filter.state # "dead", Items',
         status = "running" => RunningInv'
  PROVE  FilterInv'
BY DEF Invs, FilterInv, DiesOnly, AnswersMatch, SignalsMatch, rlwrapVars

LEMMA FilterGoesTo ==
  ASSUME TypeOK, NEW s, filter' = [filter EXCEPT !.state = s]
  PROVE  filter'.state = s /\ filter'.tag = filter.tag /\ filter'.id = filter.id
BY DEF TypeOK

LEMMA HoldersStay ==
  ASSUME UNCHANGED <<rlwrapVars, interests>>
  PROVE  Exclusive' = Exclusive /\ Holders' = Holders /\ UNCHANGED <<frames, status, interrupts>>
         /\ Midway' = Midway
<1>1. UNCHANGED <<frames, interrupts, interests, status>>
  BY DEF rlwrapVars
<1>2. Exclusive' = Exclusive
  BY <1>1 DEF Exclusive
<1> QED BY <1>1, <1>2 DEF Holders, InFlight, Midway, Top

(* The filter has read all of the message it is at work on: it is the        *)
(* holder's, who waits for the answer, and is nowhere else.                  *)
LEMMA BusyFilter ==
  ASSUME Invs, status = "running", Occupied, filter.state # "reading"
  PROVE  \E i \in Holders :
           /\ Journey(i) /\ filter.tag = frames[i].tag /\ filter.id = frames[i].id
           /\ frames[i].at \in {"read_tag", "read_oob", "read_rest"}
           /\ \A p \in 1 .. Len(to_filter) : ~Own(to_filter[p])
           /\ \A p \in 1 .. Len(from_filter) : Own(from_filter[p]) => from_filter[p].part = "tag"
           /\ filter.state \notin {"answering", "rejected"} =>
                /\ frames[i].at \in {"read_tag", "read_oob"}
                /\ \A p \in 1 .. Len(from_filter) : ~Own(from_filter[p])
           /\ frames[i].at = "read_rest" => from_filter = <<>>
<1>1. Paired /\ OneAtATime
  BY DEF Invs, FilterInv, RunningInv
<1>2. PICK i \in Holders : TRUE
  BY <1>1 DEF OneAtATime, NothingOnItsWay
<1>3. Journey(i) /\ OnlyAbout(frames[i]) /\ InOnePlace
  BY <1>1 DEF OneAtATime, Journey
<1>4. frames[i].at # "write_rest"
  BY <1>3 DEF Journey, Begun
<1>5. frames[i].at \in {"read_tag", "read_oob", "read_rest"} /\ frames[i].tag \in Exclusive
  BY <1>2, <1>4 DEF Holders, InFlight
<1>6. filter.state \notin {"answering", "rejected"} => frames[i].at # "read_rest"
  BY <1>3 DEF Journey, Answered
<1>7. ASSUME frames[i].at = "read_rest", from_filter # <<>> PROVE FALSE
  <2>1. Len(frames) \in Nat /\ i \in 1 .. Len(frames)
    BY Typed DEF Invs, Holders
  <2>2. i = Len(frames)
    <3>1. SUFFICES ASSUME i # Len(frames) PROVE FALSE
      OBVIOUS
    <3>2. i + 1 \in 1 .. Len(frames) /\ i + 1 # 1 /\ (i + 1) - 1 = i
      BY <2>1, <3>1
    <3> QED BY <1>7, <3>2 DEF Invs, StackInv, Nested, Interruptible
  <2>3. Top = frames[i] /\ frames # <<>>
    BY <2>1, <2>2, Typed DEF Top, Invs
  <2>4. Own(from_filter[1])
    BY <1>1, <1>5, <1>7, <2>3 DEF Paired, Midway, Matches, Own
  <2>5. 1 \in 1 .. Len(from_filter)
    BY <1>7, Typed DEF Invs
  <2> QED BY <1>3, <1>7, <2>4, <2>5 DEF Journey, Answered
<1> QED BY <1>3, <1>5, <1>6, <1>7 DEF OnlyAbout, InOnePlace

LEMMA SendEffect ==
  ASSUME Invs, NEW item \in ItemType, NEW s, FilterSends(item, s), NEW k, k = Len(from_filter)
  PROVE  /\ k \in Nat /\ Len(from_filter') = k + 1 /\ from_filter' # <<>>
         /\ \A p \in 1 .. k : from_filter'[p] = from_filter[p]
         /\ from_filter'[k + 1] = item /\ (from_filter = <<>> <=> k = 0)
         /\ filter'.state = s /\ filter'.tag = filter.tag /\ filter'.id = filter.id
         /\ UNCHANGED <<rlwrapVars, interests, to_filter>>
<1>1. from_filter \in Seq(ItemType) /\ Len(from_filter) < PipeSize
      /\ from_filter' = Append(from_filter, item) /\ UNCHANGED <<rlwrapVars, interests, to_filter>>
      /\ filter' = [filter EXCEPT !.state = s]
  BY DEF FilterSends, Invs, TypeOK
<1>2. filter'.state = s /\ filter'.tag = filter.tag /\ filter'.id = filter.id
  BY <1>1, FilterGoesTo DEF Invs
<1>3. from_filter = <<>> <=> Len(from_filter) = 0
  BY <1>1, EmptySeq
<1> QED BY <1>1, <1>2, <1>3, Writing

LEMMA SendKeepsPaired ==
  ASSUME Invs, status = "running", NEW item \in ItemType, NEW s, s # "dead",
         FilterSends(item, s), filter.state # "dead",
         \/ /\ item.part = "tag" /\ filter.state \notin Sending /\ s \in Sending
            /\ item.tag = SentTag' /\ item.id = SentId'
         \/ /\ item.part = "rest" /\ filter.state \in Sending /\ s \notin Sending
            /\ item.tag = SentTag /\ item.id = SentId
  PROVE  Paired'
<1>0. PICK k : k = Len(from_filter)
  OBVIOUS
<1>1. /\ k \in Nat /\ k = Len(from_filter) /\ Len(from_filter') = k + 1 /\ from_filter' # <<>>
      /\ \A p \in 1 .. k : from_filter'[p] = from_filter[p]
      /\ from_filter'[k + 1] = item /\ (from_filter = <<>> <=> k = 0)
      /\ filter'.state = s
  BY <1>0, SendEffect
<1>2. UNCHANGED <<frames, status>> /\ Midway' = Midway
  BY <1>0, SendEffect, HoldersStay
<1>3. \A tag : Matches(tag)' <=> Matches(tag)
  BY <1>2 DEF Matches, Top
<1>4. Paired
  BY DEF Invs, FilterInv, RunningInv
<1>5. (k + 1) - 1 = k /\ (k > 0 => k \in 1 .. k /\ 1 \in 1 .. k)
  BY <1>1
<1>6. \A p \in 1 .. k : p = k \/ (p \in 1 .. k - 1 /\ p + 1 \in 1 .. k)
  BY <1>1
<1>7. k > 0 => /\ from_filter[k].part = "tag" <=> item.part = "rest"
               /\ from_filter[k].part = "tag" => /\ item.tag = from_filter[k].tag
                                                 /\ item.id = from_filter[k].id
  BY <1>1, <1>4 DEF Paired
<1>8. \A p \in 1 .. k :
        /\ from_filter'[p].part = "tag" <=> from_filter'[p + 1].part = "rest"
        /\ from_filter'[p].part = "tag" => /\ from_filter'[p + 1].tag = from_filter'[p].tag
                                           /\ from_filter'[p + 1].id = from_filter'[p].id
  BY <1>1, <1>4, <1>5, <1>6, <1>7 DEF Paired
<1>9. /\ Midway <=> from_filter'[1].part = "rest"
      /\ Midway => Matches(from_filter'[1].tag)
  <2>1. CASE k = 0
    BY <1>1, <1>4, <2>1 DEF Paired
  <2>2. CASE k > 0
    BY <1>1, <1>4, <1>5, <2>2 DEF Paired
  <2> QED BY <1>1, <2>1, <2>2
<1>10. /\ item.part = "tag" <=> s \in Sending
       /\ s \in Sending => item.tag = SentTag' /\ item.id = SentId'
  OBVIOUS
<1>11. PICK tag : tag = from_filter'[1].tag
  OBVIOUS
<1>12. Midway' => Matches(tag)'
  BY <1>2, <1>3, <1>9, <1>11
<1> QED BY <1>1, <1>2, <1>5, <1>8, <1>9, <1>10, <1>11, <1>12 DEF Paired

(* What is sent is not about an exclusive message. *)
LEMMA SendOtherOneAtATime ==
  ASSUME Invs, status = "running", NEW item \in ItemType, NEW s, FilterSends(item, s),
         ~Own(item), filter.state \notin Finished \cup {"reading"},
         Occupied =>
           {filter.state, s} \cap (Finished \cup {"reading", "answering", "rejected"}) = {}
  PROVE  OneAtATime'
<1>0. PICK k : k = Len(from_filter)
  OBVIOUS
<1>1. /\ k \in Nat /\ k = Len(from_filter) /\ Len(from_filter') = k + 1
      /\ \A p \in 1 .. k : from_filter'[p] = from_filter[p]
      /\ from_filter'[k + 1] = item
      /\ filter'.state = s /\ filter'.tag = filter.tag /\ filter'.id = filter.id
      /\ UNCHANGED <<rlwrapVars, interests, to_filter>>
  BY <1>0, SendEffect
<1>2. UNCHANGED frames /\ Exclusive' = Exclusive /\ Holders' = Holders
  BY <1>1, HoldersStay
<1>3. OneAtATime
  BY DEF Invs, FilterInv, RunningInv
<1>4. Occupied' <=> Occupied
  BY <1>1, <1>2 DEF Occupied
<1>5. \A p \in 1 .. k + 1 : from_filter'[p].tag \in Exclusive =>
        p \in 1 .. k /\ from_filter'[p] = from_filter[p] /\ Own(from_filter[p])
  <2>1. \A p \in 1 .. k + 1 : p = k + 1 \/ p \in 1 .. k
    BY <1>1
  <2> QED BY <1>1, <2>1 DEF Own
<1>6. CASE Holders = {}
  BY <1>1, <1>2, <1>3, <1>4, <1>5, <1>6 DEF OneAtATime, NothingOnItsWay, Own
<1>7. ASSUME NEW i \in Holders PROVE Journey(i)'
  <2>1. Journey(i) /\ OnlyAbout(frames[i]) /\ InOnePlace
    BY <1>3 DEF OneAtATime, Journey
  <2>2. OnlyAbout(frames[i])'
    <3>1. \A p \in 1 .. k + 1 : from_filter'[p].tag \in Exclusive =>
            from_filter'[p].tag = frames[i].tag /\ from_filter'[p].id = frames[i].id
      BY <1>1, <1>5, <2>1 DEF OnlyAbout
    <3>2. ASSUME NEW p \in 1 .. k + 1, NEW q \in 1 .. k + 1,
                 from_filter'[p].tag \in Exclusive, from_filter'[q].tag \in Exclusive,
                 from_filter'[p].part = from_filter'[q].part
          PROVE  p = q
      BY <1>1, <1>5, <2>1, <3>2 DEF OnlyAbout
    <3> QED BY <1>1, <1>2, <1>4, <2>1, <3>1, <3>2 DEF OnlyAbout, Own
  <2>3. InOnePlace'
    BY <1>1, <1>2, <1>4, <1>5, <2>1 DEF InOnePlace, Own
  <2>4. frames[i].at = "write_rest" => Begun' /\ Cut(i)'
    <3>1. SUFFICES ASSUME Begun, Cut(i) PROVE Begun' /\ Cut(i)'
      BY <2>1 DEF Journey
    <3>2. ~Occupied /\ \E p \in 1 .. Len(to_filter) : Own(to_filter[p])
      BY <3>1 DEF Begun, Finished
    <3> QED BY <1>1, <1>2, <1>4, <1>5, <3>1, <3>2 DEF Begun, Cut, Own
  <2>5. frames[i].at \in {"read_tag", "read_oob"} => Complete'
    <3>1. SUFFICES ASSUME Complete PROVE Complete'
      BY <2>1 DEF Journey
    <3>2. \/ Occupied
          \/ \A p \in 1 .. Len(to_filter) : Own(to_filter[p]) /\ to_filter[p].part = "rest" =>
               \E q \in 1 .. p - 1 : Own(to_filter[q])
      BY <3>1 DEF Complete, Finished
    <3> QED BY <1>1, <1>2, <1>4, <3>1, <3>2 DEF Complete, Follows, Own
  <2>6. frames[i].at = "read_rest" => Answered'
    <3>1. SUFFICES ASSUME Answered PROVE Answered'
      BY <2>1 DEF Journey
    <3> QED BY <1>1, <1>2, <1>4, <1>5, <3>1 DEF Answered, Own
  <2> QED BY <1>2, <2>1, <2>2, <2>3, <2>4, <2>5, <2>6 DEF Journey
<1> QED BY <1>2, <1>6, <1>7 DEF OneAtATime

(* The answer to an exclusive message. *)
LEMMA SendOwnOneAtATime ==
  ASSUME Invs, status = "running", NEW item \in ItemType, NEW s, FilterSends(item, s), Occupied,
         item.tag = filter.tag, item.id = filter.id,
         \/ /\ item.part = "tag" /\ s \in {"answering", "rejected"}
            /\ filter.state \in {"handling", "rejecting"}
         \/ /\ item.part = "rest" /\ s = "idle" /\ filter.state \in {"answering", "rejected"}
  PROVE  OneAtATime'
<1>0. PICK k : k = Len(from_filter)
  OBVIOUS
<1>1. /\ k \in Nat /\ k = Len(from_filter) /\ Len(from_filter') = k + 1
      /\ \A p \in 1 .. k : from_filter'[p] = from_filter[p]
      /\ from_filter'[k + 1] = item /\ (from_filter = <<>> <=> k = 0)
      /\ filter'.state = s /\ filter'.tag = filter.tag /\ filter'.id = filter.id
      /\ UNCHANGED <<rlwrapVars, interests, to_filter>>
  BY <1>0, SendEffect
<1>2. UNCHANGED frames /\ Exclusive' = Exclusive /\ Holders' = Holders
  BY <1>1, HoldersStay
<1>3. OneAtATime
  BY DEF Invs, FilterInv, RunningInv
<1>4. PICK i \in Holders :
           /\ Journey(i) /\ filter.tag = frames[i].tag /\ filter.id = frames[i].id
           /\ frames[i].at \in {"read_tag", "read_oob", "read_rest"}
           /\ \A p \in 1 .. Len(to_filter) : ~Own(to_filter[p])
           /\ \A p \in 1 .. Len(from_filter) : Own(from_filter[p]) => from_filter[p].part = "tag"
           /\ filter.state \notin {"answering", "rejected"} =>
                /\ frames[i].at \in {"read_tag", "read_oob"}
                /\ \A p \in 1 .. Len(from_filter) : ~Own(from_filter[p])
           /\ frames[i].at = "read_rest" => from_filter = <<>>
  BY BusyFilter
<1>5. Holders # {} /\ \A j \in Holders : j = i
  BY <1>4 DEF Journey
<1>6. Occupied' <=> s # "idle"
  BY <1>1, <1>2 DEF Occupied, Finished
<1>7. \A p \in 1 .. k + 1 : p = k + 1 \/ p \in 1 .. k
  BY <1>1
<1>8. /\ OnlyAbout(frames[i])
      /\ \A p \in 1 .. k : Own(from_filter[p]) => from_filter[p].part # item.part
  BY <1>1, <1>4 DEF Journey
<1>9. OnlyAbout(frames[i])'
  <2>1. \A p \in 1 .. k + 1 : from_filter'[p].tag \in Exclusive =>
          from_filter'[p].tag = frames[i].tag /\ from_filter'[p].id = frames[i].id
    BY <1>1, <1>4, <1>7, <1>8 DEF OnlyAbout, Own
  <2>2. ASSUME NEW p \in 1 .. k + 1, NEW q \in 1 .. k + 1,
               from_filter'[p].tag \in Exclusive, from_filter'[q].tag \in Exclusive,
               from_filter'[p].part = from_filter'[q].part
        PROVE  p = q
    <3>1. CASE p = k + 1 \/ q = k + 1
      BY <1>1, <1>7, <1>8, <2>2, <3>1 DEF Own
    <3>2. CASE p \in 1 .. k /\ q \in 1 .. k
      BY <1>1, <1>8, <2>2, <3>2 DEF OnlyAbout, Own
    <3> QED BY <1>7, <3>1, <3>2
  <2> QED BY <1>1, <1>2, <1>4, <1>8, <2>1, <2>2 DEF OnlyAbout, Own
<1>10. InOnePlace'
  <2>1. s # "idle" => \A p \in 1 .. k + 1 : from_filter'[p].tag \in Exclusive =>
          from_filter'[p].part = "tag" /\ s \in {"answering", "rejected"}
    BY <1>1, <1>4, <1>7 DEF Own
  <2> QED BY <1>1, <1>2, <1>4, <1>6, <2>1 DEF InOnePlace, Own
<1>11. frames[i].at \in {"read_tag", "read_oob"} => Complete'
  BY <1>1, <1>2, <1>4 DEF Complete, Own
<1>12. frames[i].at = "read_rest" => Answered'
  BY <1>1, <1>2, <1>4, <1>6 DEF Answered, Own
<1>13. Journey(i)'
  BY <1>2, <1>4, <1>5, <1>9, <1>10, <1>11, <1>12 DEF Journey
<1> QED BY <1>2, <1>5, <1>13 DEF OneAtATime

LEMMA SendKeepsUninterrupted ==
  ASSUME Invs, status = "running", NEW item \in ItemType, NEW s, FilterSends(item, s),
         {filter.state, s} \cap {"sorry"} = {},
         item.tag \in OutOfBand =>
           filter.state \notin Finished \cup {"reading", "answering", "rejected"}
  PROVE  Uninterrupted'
<1>0. PICK k : k = Len(from_filter)
  OBVIOUS
<1>1. /\ k \in Nat /\ k = Len(from_filter) /\ Len(from_filter') = k + 1
      /\ \A p \in 1 .. k : from_filter'[p] = from_filter[p]
      /\ from_filter'[k + 1] = item /\ filter'.state = s
      /\ UNCHANGED <<rlwrapVars, interests, to_filter>>
  BY <1>0, SendEffect
<1>2. UNCHANGED <<frames, interrupts>> /\ Exclusive' = Exclusive /\ Holders' = Holders
  BY <1>1, HoldersStay
<1>3. SUFFICES ASSUME interrupts = 0, NEW p \in 1 .. k + 1, from_filter'[p].tag \in OutOfBand
               PROVE  /\ \E i \in Holders : frames[i].at \in {"read_tag", "read_oob"}
                      /\ \A q \in 1 .. p : from_filter'[q].tag \notin Exclusive
  BY <1>1, <1>2 DEF Uninterrupted, Own
<1>4. CASE p \in 1 .. k
  <2>1. /\ \E i \in Holders : frames[i].at \in {"read_tag", "read_oob"}
        /\ \A q \in 1 .. p : ~Own(from_filter[q])
    BY <1>1, <1>3, <1>4 DEF Invs, FilterInv, RunningInv, Uninterrupted
  <2>2. \A q \in 1 .. p : q \in 1 .. k
    BY <1>1, <1>4
  <2> QED BY <1>1, <2>1, <2>2 DEF Own
<1>5. CASE p = k + 1
  <2>1. filter.state \notin Finished \cup {"reading", "answering", "rejected"}
    BY <1>1, <1>3, <1>5
  <2>2. filter.tag \in Exclusive
    BY <1>3 DEF Invs, FilterInv, Items, Tag, Exclusive
  <2>3. /\ \E i \in Holders : frames[i].at \in {"read_tag", "read_oob"}
        /\ \A q \in 1 .. Len(from_filter) : ~Own(from_filter[q])
    BY <2>1, <2>2, BusyFilter DEF Occupied
  <2>4. \A q \in 1 .. p : q = k + 1 \/ q \in 1 .. k
    BY <1>1, <1>5
  <2>5. item.tag \notin Exclusive
    BY <1>1, <1>3, <1>5, TagFacts DEF OutOfBand
  <2> QED BY <1>1, <2>3, <2>4, <2>5 DEF Own
<1>6. p \in 1 .. k \/ p = k + 1
  BY <1>1
<1> QED BY <1>4, <1>5, <1>6

LEMMA FilterSendsOobKeepsInv ==
  ASSUME Invs, FilterSendsOob
  PROVE  FilterInv'
<1>1. PICK part, tag, s :
        /\ part \in {"tag", "rest"} /\ tag \in OutOfBand
        /\ FilterSends(Item(part, tag, 0), s)
        /\ \/ part = "tag" /\ filter.state = "handling" /\ s = tag
           \/ part = "rest" /\ filter.state = tag /\ s = "handling"
  BY DEF FilterSendsOob
<1> DEFINE item == Item(part, tag, 0)
<1>2. item \in ItemType /\ item.part = part /\ item.tag = tag /\ item.id = 0
  BY <1>1 DEF Item, ItemType
<1>3. /\ filter'.state = s /\ filter'.tag = filter.tag
      /\ UNCHANGED <<rlwrapVars, interests, to_filter>>
  BY <1>1, <1>2, SendEffect
<1>4. Items'
  BY <1>1, <1>3 DEF Invs, FilterInv, Items, OutOfBand
<1>5. filter.state \notin Finished \cup {"reading", "answering", "rejected", "dead", "sorry"}
      /\ s \notin Finished \cup {"reading", "answering", "rejected", "dead", "sorry"}
  BY <1>1 DEF Finished, OutOfBand
<1>6. ASSUME status = "running" PROVE RunningInv'
  <2>1. Paired'
    <3>1. \/ /\ part = "tag" /\ filter.state \notin Sending /\ s \in Sending
             /\ tag = SentTag' /\ 0 = SentId'
          \/ /\ part = "rest" /\ filter.state \in Sending /\ s \notin Sending
             /\ tag = SentTag /\ 0 = SentId
      BY <1>1, <1>3 DEF Sending, OutOfBand, SentTag, SentId
    <3> QED BY <1>1, <1>2, <1>5, <1>6, <3>1, SendKeepsPaired
  <2>2. OneAtATime'
    <3>1. ~Own(item)
      BY <1>1, <1>2, TagFacts DEF Own, OutOfBand
    <3> HIDE DEF item
    <3>2. FilterSends(item, s)
      BY <1>1 DEF item
    <3> QED BY <1>2, <1>5, <1>6, <3>1, <3>2, SendOtherOneAtATime
  <2>3. Uninterrupted'
    BY <1>1, <1>2, <1>5, <1>6, SendKeepsUninterrupted
  <2> QED BY <2>1, <2>2, <2>3 DEF RunningInv
<1> QED BY <1>3, <1>4, <1>5, <1>6, FilterStepKeepsInv

LEMMA FilterAnswersKeepsInv ==
  ASSUME Invs, ~rejects_twice, FilterAnswers
  PROVE  FilterInv'
<1>1. PICK part, s :
        /\ part \in {"tag", "rest"}
        /\ FilterSends(Item(part, filter.tag, filter.id), s)
        /\ \/ /\ part = "tag" /\ s \in {"answering", "rejected"}
              /\ filter.state \in {"handling", "rejecting"}
           \/ part = "rest" /\ s = "idle" /\ filter.state \in {"answering", "rejected"}
  BY DEF FilterAnswers, Invs, FilterInv, Items
<1>2. PICK item : item = Item(part, filter.tag, filter.id)
  OBVIOUS
<1>3. /\ item \in ItemType /\ item.part = part /\ item.tag = filter.tag /\ item.id = filter.id
      /\ item.tag \in Tag /\ FilterSends(item, s)
  BY <1>1, <1>2 DEF Item, ItemType, Invs, TypeOK, FilterInv, Items
<1>4. /\ filter'.state = s /\ filter'.tag = filter.tag /\ filter'.id = filter.id
      /\ UNCHANGED <<rlwrapVars, interests, to_filter>>
  BY <1>3, SendEffect
<1>5. Items'
  BY <1>1, <1>4 DEF Invs, FilterInv, Items
<1>6. ASSUME status = "running" PROVE RunningInv'
  <2>1. Paired'
    <3>1. \/ /\ part = "tag" /\ filter.state \notin Sending /\ s \in Sending
             /\ item.tag = SentTag' /\ item.id = SentId'
          \/ /\ part = "rest" /\ filter.state \in Sending /\ s \notin Sending
             /\ item.tag = SentTag /\ item.id = SentId
      BY <1>1, <1>3, <1>4 DEF Sending, OutOfBand, SentTag, SentId
    <3> QED BY <1>1, <1>3, <1>6, <3>1, SendKeepsPaired
  <2>2. OneAtATime'
    <3>1. CASE item.tag \in Exclusive
      <4>1. Occupied
        BY <1>1, <1>3, <3>1 DEF Occupied, Finished
      <4> QED BY <1>1, <1>3, <1>6, <4>1, SendOwnOneAtATime
    <3>2. CASE item.tag \notin Exclusive
      <4>1. ~Occupied /\ ~Own(item) /\ filter.state \notin Finished \cup {"reading"}
        BY <1>1, <1>3, <3>2 DEF Occupied, Own, Finished
      <4> QED BY <1>3, <1>6, <4>1, SendOtherOneAtATime
    <3> QED BY <3>1, <3>2
  <2>3. Uninterrupted'
    <3>1. item.tag \notin OutOfBand
      BY <1>3, TagFacts DEF OutOfBand
    <3> QED BY <1>1, <1>3, <1>6, <3>1, SendKeepsUninterrupted
  <2> QED BY <2>1, <2>2, <2>3 DEF RunningInv
<1> QED BY <1>1, <1>4, <1>5, <1>6, FilterStepKeepsInv

LEMMA FilterRejectsPromptKeepsInv ==
  ASSUME Invs, FilterRejectsPrompt
  PROVE  FilterInv'
<1>1. /\ filter.state = "handling" /\ filter'.state = "rejecting"
      /\ filter'.tag = filter.tag /\ filter'.id = filter.id
      /\ UNCHANGED <<rlwrapVars, interests, to_filter, from_filter>>
  BY FilterGoesTo DEF FilterRejectsPrompt, Invs
<1>2. /\ UNCHANGED <<frames, interrupts>> /\ Exclusive' = Exclusive /\ Holders' = Holders
      /\ Midway' = Midway
  BY <1>1, HoldersStay
<1>3. Items'
  BY <1>1 DEF Invs, FilterInv, Items
<1>4. ASSUME status = "running" PROVE RunningInv'
  <2>1. Paired /\ OneAtATime /\ Uninterrupted
    BY <1>4 DEF Invs, FilterInv, RunningInv
  <2>2. Paired'
    <3>1. filter.state \notin Sending /\ filter'.state \notin Sending
      BY <1>1 DEF Sending, OutOfBand
    <3>2. \A tag : Matches(tag)' <=> Matches(tag)
      BY <1>2 DEF Matches, Top
    <3>3. PICK tag : tag = from_filter[1].tag
      OBVIOUS
    <3>4. from_filter # <<>> /\ Midway => Matches(tag)'
      BY <2>1, <3>2, <3>3 DEF Paired
    <3> QED BY <1>1, <1>2, <2>1, <3>1, <3>3, <3>4 DEF Paired
  <2>3. OneAtATime'
    <3>1. Occupied' <=> Occupied
      BY <1>1, <1>2 DEF Occupied, Finished
    <3>2. CASE Occupied
      <4>1. PICK i \in Holders :
              /\ Journey(i) /\ frames[i].at \in {"read_tag", "read_oob"}
              /\ \A p \in 1 .. Len(to_filter) : ~Own(to_filter[p])
              /\ \A p \in 1 .. Len(from_filter) : ~Own(from_filter[p])
        BY <1>1, <1>4, <3>2, BusyFilter
      <4>2. OnlyAbout(frames[i])' /\ InOnePlace' /\ Complete'
        BY <1>1, <1>2, <3>1, <4>1 DEF Journey, OnlyAbout, InOnePlace, Complete, Own
      <4>3. Journey(i)'
        BY <1>2, <4>1, <4>2 DEF Journey
      <4>4. Holders # {} /\ \A j \in Holders : j = i
        BY <4>1 DEF Journey
      <4> QED BY <1>2, <4>3, <4>4 DEF OneAtATime
    <3>3. CASE ~Occupied
      <4>1. NothingOnItsWay => NothingOnItsWay'
        BY <1>1, <1>2, <3>1 DEF NothingOnItsWay, Own
      <4>2. ASSUME NEW i \in Holders PROVE Journey(i)'
        <5>1. Journey(i)
          BY <2>1 DEF OneAtATime
        <5>2. OnlyAbout(frames[i])' /\ InOnePlace'
          BY <1>1, <1>2, <3>1, <3>3, <5>1 DEF Journey, OnlyAbout, InOnePlace, Own
        <5>3. Begun /\ Cut(i) => Begun' /\ Cut(i)'
          BY <1>1, <1>2, <3>1, <3>3 DEF Begun, Cut, Own
        <5>4. Complete => Complete'
          BY <1>1, <1>2, <3>1, <3>3 DEF Complete, Follows, Own
        <5>5. Answered => Answered'
          BY <1>1, <1>2, <3>1, <3>3 DEF Answered, Own
        <5> QED BY <1>2, <5>1, <5>2, <5>3, <5>4, <5>5 DEF Journey
      <4> QED BY <1>2, <2>1, <4>1, <4>2 DEF OneAtATime
    <3> QED BY <3>2, <3>3
  <2>4. Uninterrupted'
    BY <1>1, <1>2, <2>1 DEF Uninterrupted, Own
  <2> QED BY <2>2, <2>3, <2>4 DEF RunningInv
<1> QED BY <1>1, <1>3, <1>4, FilterStepKeepsInv

LEMMA FilterExecFailsKeepsInv ==
  ASSUME Invs, FilterExecFails
  PROVE  FilterInv'
<1>1. /\ filter.state = "idle" /\ filter'.state = "sorry" /\ calls = 0
      /\ filter'.tag = filter.tag /\ from_filter = <<>>
      /\ from_filter' = <<Item("tag", "ERROR", 0), Item("rest", "ERROR", 0)>>
      /\ UNCHANGED <<rlwrapVars, interests, to_filter>>
  BY FilterGoesTo DEF FilterExecFails, Invs
<1>2. /\ UNCHANGED <<frames, interrupts>> /\ Exclusive' = Exclusive /\ Holders' = Holders
      /\ Midway' = Midway
  BY <1>1, HoldersStay
<1>3. Items'
  BY <1>1 DEF Invs, FilterInv, Items
<1>4. frames = <<>>
  <2>1. SUFFICES ASSUME frames # <<>> PROVE FALSE
    OBVIOUS
  <2>2. 1 \in 1 .. Len(frames) /\ frames[1].id \in Nat
    BY <2>1, Typed DEF Invs
  <2>3. frames[1].id = 0
    BY <1>1, <2>2 DEF Invs, StackInv, LastWords
  <2> QED BY <1>1, <2>2, <2>3 DEF Invs, StackInv, LastWords
<1>5. /\ Len(from_filter') = 2 /\ from_filter' # <<>>
      /\ from_filter'[1].part = "tag" /\ from_filter'[1].tag = "ERROR" /\ from_filter'[1].id = 0
      /\ from_filter'[2].part = "rest" /\ from_filter'[2].tag = "ERROR" /\ from_filter'[2].id = 0
  BY <1>1 DEF Item
<1>6. \A p \in 1 .. 2 : p = 1 \/ p = 2
  OBVIOUS
<1>7. ASSUME status = "running" PROVE RunningInv'
  <2>1. Paired'
    BY <1>1, <1>2, <1>4, <1>5 DEF Paired, Midway, Sending, OutOfBand
  <2>2. Holders = {}
    BY <1>4, Typed DEF Invs, Holders
  <2>3. NothingOnItsWay
    BY <1>7, <2>2 DEF Invs, FilterInv, RunningInv, OneAtATime
  <2>4. NothingOnItsWay'
    <3>1. ~Occupied'
      BY <1>1 DEF Occupied, Finished
    <3>2. "ERROR" \notin Exclusive
      BY TagFacts
    <3> QED BY <1>1, <1>2, <1>5, <1>6, <2>3, <3>1, <3>2 DEF NothingOnItsWay, Own
  <2>5. OneAtATime'
    BY <1>2, <2>2, <2>4 DEF OneAtATime
  <2>6. Uninterrupted'
    BY <1>1, <1>5, <1>6 DEF Uninterrupted
  <2> QED BY <2>1, <2>5, <2>6 DEF RunningInv
<1>8. filter.state # "dead"
  BY <1>1
<1> QED BY <1>1, <1>3, <1>7, <1>8, FilterStepKeepsInv

LEMMA FilterDiesKeepsInv ==
  ASSUME Invs, FilterDies
  PROVE  FilterInv'
<1>1. /\ filter.state \notin {"dead", "sorry"} /\ filter'.state = "dead"
      /\ filter'.tag = filter.tag
      /\ UNCHANGED <<rlwrapVars, interests, to_filter, from_filter>>
  BY FilterGoesTo DEF FilterDies, Invs
<1>2. /\ UNCHANGED <<frames, interrupts>> /\ Exclusive' = Exclusive /\ Holders' = Holders
      /\ Midway' = Midway
  BY <1>1, HoldersStay
<1>3. Items'
  BY <1>1 DEF Invs, FilterInv, Items
<1>4. ~Occupied'
  BY <1>1 DEF Occupied, Finished
<1>5. ASSUME status = "running" PROVE RunningInv'
  <2>1. Paired /\ OneAtATime /\ Uninterrupted
    BY <1>5 DEF Invs, FilterInv, RunningInv
  <2>2. Paired'
    <3>1. \A tag : Matches(tag)' <=> Matches(tag)
      BY <1>2 DEF Matches, Top
    <3>2. PICK tag : tag = from_filter[1].tag
      OBVIOUS
    <3>3. from_filter # <<>> /\ Midway => Matches(tag)'
      BY <2>1, <3>1, <3>2 DEF Paired
    <3> QED BY <1>1, <1>2, <2>1, <3>2, <3>3 DEF Paired
  <2>3. OneAtATime'
    <3>1. NothingOnItsWay => NothingOnItsWay'
      BY <1>1, <1>2, <1>4 DEF NothingOnItsWay, Own
    <3>2. ASSUME NEW i \in Holders PROVE Journey(i)'
      <4>1. Journey(i)
        BY <2>1 DEF OneAtATime
      <4>2. OnlyAbout(frames[i])'
        BY <1>1, <1>2, <1>4, <4>1 DEF Journey, OnlyAbout, Own
      <4>3. InOnePlace'
        BY <1>1, <1>2, <1>4, <4>1 DEF Journey, InOnePlace, Own
      <4>4. Begun /\ Cut(i) => Begun' /\ Cut(i)'
        BY <1>1, <1>2, <1>4 DEF Begun, Cut, Own
      <4>5. Complete => Complete'
        BY <1>1, <1>2, <1>4 DEF Complete, Follows, Own
      <4>6. Answered => Answered'
        BY <1>1, <1>2, <1>4 DEF Answered, Own
      <4> QED BY <1>2, <4>1, <4>2, <4>3, <4>4, <4>5, <4>6 DEF Journey
    <3> QED BY <1>2, <2>1, <3>1, <3>2 DEF OneAtATime
  <2>4. Uninterrupted'
    BY <1>1, <1>2, <2>1 DEF Uninterrupted, Own
  <2> QED BY <2>2, <2>3, <2>4 DEF RunningInv
<1>6. filter.state # "dead"
  BY <1>1
<1> QED BY <1>1, <1>3, <1>5, <1>6, FilterStepKeepsInv

LEMMA FilterReadsEffect ==
  ASSUME Invs, FilterReads, NEW m, m = Len(to_filter)
  PROVE  /\ m \in Nat /\ m > 0 /\ Len(to_filter') = m - 1 /\ (to_filter' # <<>> <=> m > 1)
         /\ \A p \in 1 .. m - 1 : p + 1 \in 1 .. m /\ to_filter'[p] = to_filter[p + 1]
         /\ to_filter[1].tag \in Tag /\ to_filter[1].part \in {"tag", "rest"}
         /\ UNCHANGED <<rlwrapVars, interests, from_filter>>
         /\ \/ /\ filter.state = "idle" /\ filter'.state = "reading"
               /\ filter'.tag = to_filter[1].tag /\ filter'.id = to_filter[1].id
            \/ /\ filter.state = "reading" /\ filter'.tag = filter.tag /\ filter'.id = filter.id
               /\ \/ to_filter[1].part = "rest" /\ filter'.state = "handling"
                  \/ to_filter[1].part = "tag" /\ filter'.state = "garbled"
<1>1. /\ to_filter \in Seq(ItemType) /\ to_filter # <<>> /\ Len(to_filter) <= PipeSize
      /\ to_filter' = Tail(to_filter) /\ filter.state \in {"idle", "reading"}
      /\ UNCHANGED <<rlwrapVars, interests, from_filter>>
  BY DEF FilterReads, Invs, TypeOK
<1>2. /\ Head(to_filter) = to_filter[1] /\ Len(to_filter) \in Nat /\ Len(to_filter) > 0
      /\ to_filter' \in Seq(ItemType) /\ Len(to_filter') = Len(to_filter) - 1
      /\ \A p \in 1 .. Len(to_filter) - 1 : to_filter'[p] = to_filter[p + 1]
      /\ Head(to_filter) \in ItemType
  BY <1>1, Reading
<1>3. to_filter' # <<>> <=> Len(to_filter') # 0
  BY <1>2, EmptySeq
<1>4. to_filter[1].tag \in Tag /\ to_filter[1].part \in {"tag", "rest"}
  <2>1. 1 \in 1 .. Len(to_filter)
    BY <1>2
  <2> QED BY <1>2, <2>1, ItemParts DEF Invs, FilterInv, Items
<1>5. filter' = CASE filter.state = "idle" ->
                       [state |-> "reading", tag |-> to_filter[1].tag, id |-> to_filter[1].id]
                  [] filter.state = "reading" /\ to_filter[1].part = "rest" ->
                       [filter EXCEPT !.state = "handling"]
                  [] OTHER -> [filter EXCEPT !.state = "garbled"]
  BY <1>2 DEF FilterReads
<1>6. \/ /\ filter.state = "idle" /\ filter'.state = "reading"
         /\ filter'.tag = to_filter[1].tag /\ filter'.id = to_filter[1].id
      \/ /\ filter.state = "reading" /\ filter'.tag = filter.tag /\ filter'.id = filter.id
         /\ \/ to_filter[1].part = "rest" /\ filter'.state = "handling"
            \/ to_filter[1].part = "tag" /\ filter'.state = "garbled"
  <2>1. CASE filter.state = "idle"
    BY <1>5, <2>1
  <2>2. CASE filter.state = "reading" /\ to_filter[1].part = "rest"
    <3>1. filter' = [filter EXCEPT !.state = "handling"]
      BY <1>5, <2>2
    <3> QED BY <2>2, <3>1, FilterGoesTo DEF Invs
  <2>3. CASE filter.state = "reading" /\ to_filter[1].part # "rest"
    <3>1. filter' = [filter EXCEPT !.state = "garbled"]
      BY <1>5, <2>3
    <3> QED BY <1>4, <2>3, <3>1, FilterGoesTo DEF Invs
  <2> QED BY <1>1, <2>1, <2>2, <2>3
<1> QED BY <1>1, <1>2, <1>3, <1>4, <1>6

(* What of the exclusive messages is left in the pipe to the filter. *)
LEMMA RestOfPipe ==
  ASSUME Invs, FilterReads, NEW f, OnlyAbout(f), NEW m, m = Len(to_filter)
  PROVE  /\ \A p \in 1 .. m - 1 : to_filter'[p].tag \in Exclusive =>
              to_filter'[p].tag = f.tag /\ to_filter'[p].id = f.id
         /\ \A p, q \in 1 .. m - 1 :
              to_filter'[p].tag \in Exclusive /\ to_filter'[q].tag \in Exclusive
                /\ to_filter'[p].part = to_filter'[q].part => p = q
         /\ Own(to_filter[1]) => \A p \in 1 .. m - 1 : to_filter'[p].tag \in Exclusive =>
              to_filter'[p].part # to_filter[1].part
<1>1. /\ m \in Nat /\ m > 0
      /\ \A p \in 1 .. m - 1 : p + 1 \in 1 .. m /\ to_filter'[p] = to_filter[p + 1]
  BY FilterReadsEffect
<1>2. \A p \in 1 .. m - 1 : to_filter'[p].tag \in Exclusive =>
        to_filter'[p].tag = f.tag /\ to_filter'[p].id = f.id
  BY <1>1 DEF OnlyAbout, Own
<1>3. ASSUME NEW p \in 1 .. m - 1, NEW q \in 1 .. m - 1,
             to_filter'[p].tag \in Exclusive, to_filter'[q].tag \in Exclusive,
             to_filter'[p].part = to_filter'[q].part
      PROVE  p = q
  <2>1. /\ p + 1 \in 1 .. m /\ to_filter'[p] = to_filter[p + 1]
        /\ q + 1 \in 1 .. m /\ to_filter'[q] = to_filter[q + 1]
    BY <1>1
  <2>2. p + 1 = q + 1
    BY <1>3, <2>1 DEF OnlyAbout, Own
  <2> QED BY <1>1, <2>2
<1>4. ASSUME Own(to_filter[1]), NEW p \in 1 .. m - 1, to_filter'[p].tag \in Exclusive,
             to_filter'[p].part = to_filter[1].part
      PROVE  FALSE
  <2>1. p + 1 \in 1 .. m /\ to_filter'[p] = to_filter[p + 1] /\ 1 \in 1 .. m /\ p + 1 # 1
    BY <1>1
  <2> QED BY <1>4, <2>1 DEF OnlyAbout, Own
<1>5. \A p, q \in 1 .. m - 1 :
        to_filter'[p].tag \in Exclusive /\ to_filter'[q].tag \in Exclusive
          /\ to_filter'[p].part = to_filter'[q].part => p = q
  <2> SUFFICES ASSUME NEW p \in 1 .. m - 1, NEW q \in 1 .. m - 1,
                      to_filter'[p].tag \in Exclusive, to_filter'[q].tag \in Exclusive,
                      to_filter'[p].part = to_filter'[q].part
               PROVE  p = q
    OBVIOUS
  <2> QED BY <1>3
<1>6. Own(to_filter[1]) => \A p \in 1 .. m - 1 : to_filter'[p].tag \in Exclusive =>
        to_filter'[p].part # to_filter[1].part
  BY <1>4
<1> QED BY <1>2, <1>5, <1>6

(* The filter begins to read an exclusive message: with its tag. *)
LEMMA FilterReadsTag ==
  ASSUME Invs, FilterReads, status = "running", filter.state = "idle", Own(to_filter[1])
  PROVE  OneAtATime'
<1>0. PICK m : m = Len(to_filter)
  OBVIOUS
<1>1. /\ m \in Nat /\ m > 0 /\ m = Len(to_filter) /\ Len(to_filter') = m - 1
      /\ (to_filter' # <<>> <=> m > 1)
      /\ \A p \in 1 .. m - 1 : p + 1 \in 1 .. m /\ to_filter'[p] = to_filter[p + 1]
      /\ to_filter[1].part \in {"tag", "rest"}
      /\ UNCHANGED <<rlwrapVars, interests, from_filter>>
      /\ filter'.state = "reading" /\ filter'.tag = to_filter[1].tag
      /\ filter'.id = to_filter[1].id
  BY <1>0, FilterReadsEffect
<1>2. UNCHANGED frames /\ Exclusive' = Exclusive /\ Holders' = Holders
  BY <1>1, HoldersStay
<1>3. OneAtATime /\ 1 \in 1 .. m
  BY <1>1 DEF Invs, FilterInv, RunningInv
<1>4. ~Occupied /\ Occupied'
  BY <1>1, <1>2 DEF Occupied, Own, Finished
<1>5. PICK i \in Holders : TRUE
  BY <1>1, <1>3 DEF OneAtATime, NothingOnItsWay
<1>6. Journey(i) /\ OnlyAbout(frames[i]) /\ InOnePlace
  BY <1>3 DEF OneAtATime, Journey
<1>7. to_filter[1].part = "tag"
  <2>1. SUFFICES ASSUME to_filter[1].part = "rest" PROVE FALSE
    BY <1>1
  <2>2. ~Complete
    <3>1. ~\E q \in 1 .. 1 - 1 : Own(to_filter[q])
      OBVIOUS
    <3> QED BY <1>1, <1>3, <1>4, <2>1, <3>1 DEF Complete
  <2>3. ~Begun /\ ~Answered
    BY <1>1, <1>3, <2>1 DEF Begun, Answered
  <2> QED BY <1>5, <1>6, <2>2, <2>3 DEF Journey, Holders, InFlight
<1>8. \A p \in 1 .. Len(from_filter) : ~Own(from_filter[p])
  BY <1>1, <1>3, <1>6 DEF InOnePlace
<1>9. /\ \A p \in 1 .. m - 1 : to_filter'[p].tag \in Exclusive =>
           to_filter'[p].tag = frames[i].tag /\ to_filter'[p].id = frames[i].id
      /\ \A p, q \in 1 .. m - 1 :
           to_filter'[p].tag \in Exclusive /\ to_filter'[q].tag \in Exclusive
             /\ to_filter'[p].part = to_filter'[q].part => p = q
      /\ \A p \in 1 .. m - 1 : to_filter'[p].tag \in Exclusive => to_filter'[p].part # "tag"
  BY <1>0, <1>6, <1>7, RestOfPipe
<1>10. \A p \in 1 .. m - 1 : to_filter'[p].tag \in Exclusive => to_filter'[p].part = "rest"
  BY <1>1, <1>9, Typed DEF Invs
<1>11. OnlyAbout(frames[i])'
  <2>1. filter'.tag = frames[i].tag /\ filter'.id = frames[i].id
    BY <1>1, <1>3, <1>6 DEF OnlyAbout
  <2> QED BY <1>1, <1>2, <1>8, <1>9, <2>1 DEF OnlyAbout, Own
<1>12. InOnePlace'
  BY <1>1, <1>2, <1>8, <1>10 DEF InOnePlace, Own
<1>13. frames[i].at = "write_rest" => Begun' /\ Cut(i)'
  <2>1. SUFFICES ASSUME Begun, Cut(i) PROVE Begun' /\ Cut(i)'
    BY <1>6 DEF Journey
  <2>2. \A p \in 1 .. m - 1 : to_filter'[p].tag \notin Exclusive
    BY <1>1, <1>9, <2>1 DEF Begun, Own
  <2>3. m > 1 => 1 \in 1 .. m - 1 /\ to_filter'[1] = to_filter[1 + 1]
    BY <1>1
  <2>4. m > 1 => to_filter'[1].part = "tag"
    BY <1>1, <2>1, <2>3 DEF Begun
  <2>5. Begun'
    <3>1. \A p \in 1 .. (m - 1) - 1 : p \in 1 .. m - 1
      BY <1>1
    <3> QED BY <1>1, <1>2, <1>4, <1>8, <2>2, <2>4, <3>1 DEF Begun, Own
  <2>6. (\E j \in i + 1 .. Len(frames) : frames[j].at \notin {"start", "write_tag"}) =>
          ~Own(to_filter[m])
    BY <1>1, <1>3, <2>1, Typed DEF Cut, Invs
  <2>7. (\E j \in i + 1 .. Len(frames) : frames[j].at \notin {"start", "write_tag"}) => m > 1
    BY <1>1, <2>6
  <2>8. m > 1 => m - 1 \in 1 .. m - 1
    BY <1>1
  <2>9. Cut(i)'
    BY <1>1, <1>2, <2>2, <2>7, <2>8 DEF Cut, Own
  <2> QED BY <2>5, <2>9
<1>14. frames[i].at \in {"read_tag", "read_oob"} => Complete'
  <2>1. SUFFICES ASSUME Complete PROVE Complete'
    BY <1>6 DEF Journey
  <2>2. 1 < m /\ Follows(to_filter[1 + 1])
    BY <1>1, <1>3, <1>7, <2>1 DEF Complete
  <2>3. to_filter'[1] = to_filter[1 + 1]
    BY <1>1, <2>2
  <2>4. Follows(to_filter[1])'
    BY <1>2, <2>2, <2>3 DEF Follows, Own
  <2> QED BY <1>1, <1>2, <1>4, <1>9, <2>2, <2>4 DEF Complete, Own
<1>15. frames[i].at # "read_rest"
  BY <1>1, <1>3, <1>6 DEF Journey, Answered
<1>16. Holders # {} /\ \A j \in Holders : j = i
  BY <1>5, <1>6 DEF Journey
<1>17. Journey(i)'
  BY <1>2, <1>11, <1>12, <1>13, <1>14, <1>15, <1>16 DEF Journey
<1> QED BY <1>2, <1>16, <1>17 DEF OneAtATime

(* The filter reads the rest of an exclusive message. *)
LEMMA FilterReadsRest ==
  ASSUME Invs, FilterReads, status = "running", Occupied, to_filter[1].part = "rest"
  PROVE  OneAtATime'
<1>0. PICK m : m = Len(to_filter)
  OBVIOUS
<1>1. /\ m \in Nat /\ m > 0 /\ m = Len(to_filter) /\ Len(to_filter') = m - 1
      /\ (to_filter' # <<>> <=> m > 1)
      /\ \A p \in 1 .. m - 1 : p + 1 \in 1 .. m /\ to_filter'[p] = to_filter[p + 1]
      /\ UNCHANGED <<rlwrapVars, interests, from_filter>>
      /\ filter.state = "reading" /\ filter'.state = "handling"
      /\ filter'.tag = filter.tag /\ filter'.id = filter.id
  BY <1>0, FilterReadsEffect DEF Occupied, Finished
<1>2. UNCHANGED frames /\ Exclusive' = Exclusive /\ Holders' = Holders
  BY <1>1, HoldersStay
<1>3. OneAtATime /\ 1 \in 1 .. m
  BY <1>1 DEF Invs, FilterInv, RunningInv
<1>4. Occupied'
  BY <1>1, <1>2 DEF Occupied, Finished
<1>5. PICK i \in Holders : TRUE
  BY <1>3 DEF OneAtATime, NothingOnItsWay
<1>6. Journey(i) /\ OnlyAbout(frames[i]) /\ InOnePlace
  BY <1>3 DEF OneAtATime, Journey
<1>7. frames[i].at # "write_rest" /\ frames[i].at # "read_rest"
  BY <1>1, <1>6 DEF Journey, Begun, Answered
<1>8. Complete
  BY <1>5, <1>6, <1>7 DEF Journey, Holders, InFlight
<1>9. Own(to_filter[1])
  BY <1>1, <1>8 DEF Complete, Follows
<1>10. /\ \A p \in 1 .. m - 1 : to_filter'[p].tag \in Exclusive => to_filter'[p].part # "rest"
  BY <1>0, <1>6, <1>9, RestOfPipe
<1>11. \A p \in 1 .. m - 1 : to_filter'[p].tag \notin Exclusive
  <2>1. \A p \in 1 .. m - 1 : to_filter'[p].tag \in Exclusive => to_filter'[p].part = "rest"
    BY <1>1, <1>6 DEF InOnePlace, Own
  <2> QED BY <1>10, <2>1
<1>12. \A p \in 1 .. Len(from_filter) : ~Own(from_filter[p])
  BY <1>1, <1>6 DEF InOnePlace
<1>13. OnlyAbout(frames[i])' /\ InOnePlace' /\ Complete'
  BY <1>1, <1>2, <1>4, <1>6, <1>11, <1>12 DEF OnlyAbout, InOnePlace, Complete, Own
<1>14. Holders # {} /\ \A j \in Holders : j = i
  BY <1>5, <1>6 DEF Journey
<1>15. Journey(i)'
  BY <1>2, <1>7, <1>13, <1>14 DEF Journey
<1> QED BY <1>2, <1>14, <1>15 DEF OneAtATime

(* The filter takes a tag for the rest of a message, or what it reads is not *)
(* about an exclusive message.                                              *)
LEMMA FilterReadsOther ==
  ASSUME Invs, FilterReads, status = "running",
         \/ filter'.state = "garbled"
         \/ ~Occupied /\ (filter.state = "idle" => ~Own(to_filter[1]))
  PROVE  OneAtATime'
<1>0. PICK m : m = Len(to_filter)
  OBVIOUS
<1>1. /\ m \in Nat /\ m > 0 /\ m = Len(to_filter) /\ Len(to_filter') = m - 1
      /\ (to_filter' # <<>> <=> m > 1)
      /\ \A p \in 1 .. m - 1 : p + 1 \in 1 .. m /\ to_filter'[p] = to_filter[p + 1]
      /\ UNCHANGED <<rlwrapVars, interests, from_filter>>
      /\ \/ /\ filter.state = "idle" /\ filter'.state = "reading"
            /\ filter'.tag = to_filter[1].tag /\ filter'.id = to_filter[1].id
         \/ /\ filter.state = "reading" /\ filter'.tag = filter.tag /\ filter'.id = filter.id
            /\ \/ to_filter[1].part = "rest" /\ filter'.state = "handling"
               \/ to_filter[1].part = "tag" /\ filter'.state = "garbled"
  BY <1>0, FilterReadsEffect
<1>2. UNCHANGED frames /\ Exclusive' = Exclusive /\ Holders' = Holders
  BY <1>1, HoldersStay
<1>3. OneAtATime /\ 1 \in 1 .. m
  BY <1>1 DEF Invs, FilterInv, RunningInv
<1>4. ~Occupied'
  BY <1>1, <1>2 DEF Occupied, Finished, Own
<1>5. NothingOnItsWay => NothingOnItsWay'
  BY <1>1, <1>2, <1>4 DEF NothingOnItsWay, Own
<1>6. ASSUME NEW i \in Holders PROVE Journey(i)'
  <2>1. Journey(i) /\ OnlyAbout(frames[i]) /\ InOnePlace
    BY <1>3 DEF OneAtATime, Journey
  <2>2. OnlyAbout(frames[i])'
    <3>1. /\ \A p \in 1 .. m - 1 : to_filter'[p].tag \in Exclusive =>
               to_filter'[p].tag = frames[i].tag /\ to_filter'[p].id = frames[i].id
          /\ \A p, q \in 1 .. m - 1 :
               to_filter'[p].tag \in Exclusive /\ to_filter'[q].tag \in Exclusive
                 /\ to_filter'[p].part = to_filter'[q].part => p = q
      BY <1>0, <2>1, RestOfPipe
    <3> QED BY <1>1, <1>2, <1>4, <2>1, <3>1 DEF OnlyAbout, Own
  <2>3. InOnePlace'
    BY <1>1, <1>2, <1>4, <2>1 DEF InOnePlace, Own
  <2>4. filter'.state # "garbled" => filter.state \notin {"garbled", "sorry", "dead"} /\ ~Occupied
    BY <1>1
  <2>5. frames[i].at = "write_rest" => Begun' /\ Cut(i)'
    <3>1. SUFFICES ASSUME Begun, Cut(i) PROVE Begun' /\ Cut(i)'
      BY <2>1 DEF Journey
    <3>2. filter'.state # "garbled" => \E p \in 1 .. m : p # 1 /\ Own(to_filter[p])
      <4>1. SUFFICES ASSUME filter'.state # "garbled"
                     PROVE  \E p \in 1 .. m : p # 1 /\ Own(to_filter[p])
        OBVIOUS
      <4>2. PICK p \in 1 .. m : Own(to_filter[p])
        BY <1>1, <2>4, <3>1, <4>1 DEF Begun
      <4>3. ~Own(to_filter[1])
        BY <1>1, <1>3, <2>4, <3>1, <4>1 DEF Begun
      <4> QED BY <4>2, <4>3
    <3>3. filter'.state # "garbled" => \E p \in 1 .. m - 1 : to_filter'[p].tag \in Exclusive
      <4>1. SUFFICES ASSUME filter'.state # "garbled"
                     PROVE  \E p \in 1 .. m - 1 : to_filter'[p].tag \in Exclusive
        OBVIOUS
      <4>2. PICK p \in 1 .. m : p # 1 /\ Own(to_filter[p])
        BY <3>2, <4>1
      <4>3. p - 1 \in 1 .. m - 1 /\ (p - 1) + 1 = p
        BY <1>1, <4>2
      <4>4. to_filter'[p - 1].tag \in Exclusive
        BY <1>1, <4>2, <4>3 DEF Own
      <4> QED BY <4>3, <4>4
    <3>4. /\ \A p \in 1 .. m - 1 : to_filter'[p].tag \in Exclusive => to_filter'[p].part = "tag"
          /\ \A p \in 1 .. Len(from_filter) : from_filter[p].tag \notin Exclusive
      BY <1>1, <3>1 DEF Begun, Own
    <3>5. \A p \in 1 .. (m - 1) - 1 : to_filter'[p].tag \in Exclusive =>
            to_filter'[p + 1].part = "tag"
      <4>1. \A p \in 1 .. (m - 1) - 1 :
              p \in 1 .. m - 1 /\ p + 1 \in 1 .. m - 1 /\ p + 1 \in 1 .. m
        BY <1>1
      <4> QED BY <1>1, <3>1, <4>1 DEF Begun, Own
    <3>6. Begun'
      BY <1>1, <1>2, <1>4, <3>3, <3>4, <3>5 DEF Begun, Own
    <3>7. m > 1 => m - 1 \in 1 .. m - 1 /\ (m - 1) + 1 = m
      BY <1>1
    <3>8. m > 1 => to_filter'[m - 1] = to_filter[m]
      BY <1>1, <3>7
    <3>9. to_filter # <<>>
      BY <1>1, Typed DEF Invs
    <3>10. Cut(i)'
      BY <1>1, <1>2, <1>4, <3>1, <3>8, <3>9 DEF Cut, Own
    <3> QED BY <3>6, <3>10
  <2>6. frames[i].at \in {"read_tag", "read_oob"} => Complete'
    <3>1. SUFFICES ASSUME Complete PROVE Complete'
      BY <2>1 DEF Journey
    <3>2. ASSUME NEW p \in 1 .. m - 1, to_filter'[p].tag \in Exclusive,
                 to_filter'[p].part = "tag"
          PROVE  p < m - 1 /\ Follows(to_filter[p + 1])'
      <4>1. p + 1 \in 1 .. m /\ to_filter'[p] = to_filter[p + 1]
        BY <1>1
      <4>2. p + 1 < m /\ Follows(to_filter[(p + 1) + 1])
        BY <1>1, <3>1, <3>2, <4>1 DEF Complete, Own
      <4>3. p + 1 \in 1 .. m - 1 /\ p < m - 1
        BY <1>1, <4>2
      <4>4. to_filter'[p + 1] = to_filter[(p + 1) + 1]
        BY <1>1, <4>3
      <4> QED BY <1>2, <4>2, <4>3, <4>4 DEF Follows, Own
    <3>3. ASSUME NEW p \in 1 .. m - 1, to_filter'[p].tag \in Exclusive,
                 to_filter'[p].part = "rest", filter'.state # "garbled"
          PROVE  \E q \in 1 .. p - 1 : to_filter'[q].tag \in Exclusive
      <4>1. p + 1 \in 1 .. m /\ to_filter'[p] = to_filter[p + 1]
        BY <1>1
      <4>2. filter.state \notin {"garbled", "sorry", "dead"} /\ ~Occupied
        BY <2>4, <3>3
      <4>3. \E q \in 1 .. (p + 1) - 1 : Own(to_filter[q])
        BY <1>1, <3>1, <3>3, <4>1, <4>2 DEF Complete, Own
      <4>4. PICK q \in 1 .. p : Own(to_filter[q])
        BY <4>3
      <4>5. ~Own(to_filter[1])
        <5>1. SUFFICES ASSUME Own(to_filter[1]) PROVE FALSE
          OBVIOUS
        <5>2. to_filter[1].part = "rest"
          BY <1>1, <3>3, <5>1
        <5>3. ~\E r \in 1 .. 1 - 1 : Own(to_filter[r])
          OBVIOUS
        <5> QED BY <1>1, <1>3, <3>1, <4>2, <5>1, <5>2, <5>3 DEF Complete
      <4>6. q # 1
        BY <4>4, <4>5
      <4>7. q - 1 \in 1 .. p - 1 /\ q - 1 \in 1 .. m - 1 /\ (q - 1) + 1 = q
        BY <1>1, <4>4, <4>6
      <4>8. to_filter'[q - 1].tag \in Exclusive
        BY <1>1, <4>4, <4>7 DEF Own
      <4> QED BY <4>7, <4>8
    <3> QED BY <1>1, <1>2, <1>4, <3>2, <3>3 DEF Complete, Own
  <2>7. frames[i].at = "read_rest" => Answered'
    <3>1. SUFFICES ASSUME Answered PROVE Answered'
      BY <2>1 DEF Journey
    <3> QED BY <1>1, <1>2, <1>4, <3>1 DEF Answered, Own
  <2> QED BY <1>2, <2>1, <2>2, <2>3, <2>5, <2>6, <2>7 DEF Journey
<1> QED BY <1>2, <1>3, <1>5, <1>6 DEF OneAtATime

LEMMA FilterReadsKeepsInv ==
  ASSUME Invs, FilterReads
  PROVE  FilterInv'
<1>0. PICK m : m = Len(to_filter)
  OBVIOUS
<1>1. /\ m \in Nat /\ m > 0 /\ m = Len(to_filter) /\ Len(to_filter') = m - 1
      /\ \A p \in 1 .. m - 1 : p + 1 \in 1 .. m /\ to_filter'[p] = to_filter[p + 1]
      /\ to_filter[1].tag \in Tag /\ to_filter[1].part \in {"tag", "rest"}
      /\ UNCHANGED <<rlwrapVars, interests, from_filter>>
      /\ \/ /\ filter.state = "idle" /\ filter'.state = "reading"
            /\ filter'.tag = to_filter[1].tag
         \/ /\ filter.state = "reading" /\ filter'.tag = filter.tag
            /\ \/ to_filter[1].part = "rest" /\ filter'.state = "handling"
               \/ to_filter[1].part = "tag" /\ filter'.state = "garbled"
  BY <1>0, FilterReadsEffect
<1>2. /\ UNCHANGED <<frames, interrupts>> /\ Exclusive' = Exclusive /\ Holders' = Holders
      /\ Midway' = Midway
  BY <1>1, HoldersStay
<1>3. Items'
  BY <1>1 DEF Invs, FilterInv, Items
<1>4. ASSUME status = "running" PROVE RunningInv'
  <2>1. Paired /\ Uninterrupted
    BY <1>4 DEF Invs, FilterInv, RunningInv
  <2>2. Paired'
    <3>1. filter.state \notin Sending /\ filter'.state \notin Sending
      BY <1>1 DEF Sending, OutOfBand
    <3>2. \A tag : Matches(tag)' <=> Matches(tag)
      BY <1>2 DEF Matches, Top
    <3>3. PICK tag : tag = from_filter[1].tag
      OBVIOUS
    <3>4. from_filter # <<>> /\ Midway => Matches(tag)'
      BY <2>1, <3>2, <3>3 DEF Paired
    <3> QED BY <1>1, <1>2, <2>1, <3>1, <3>3, <3>4 DEF Paired
  <2>3. OneAtATime'
    <3>1. CASE filter.state = "idle" /\ Own(to_filter[1])
      BY <1>4, <3>1, FilterReadsTag
    <3>2. CASE Occupied /\ to_filter[1].part = "rest"
      BY <1>4, <3>2, FilterReadsRest
    <3>3. CASE \/ filter'.state = "garbled"
               \/ ~Occupied /\ (filter.state = "idle" => ~Own(to_filter[1]))
      BY <1>4, <3>3, FilterReadsOther
    <3>4. filter.state = "idle" => ~Occupied
      BY DEF Occupied, Finished
    <3> QED BY <1>1, <3>1, <3>2, <3>3, <3>4
  <2>4. Uninterrupted'
    BY <1>1, <1>2, <2>1 DEF Uninterrupted, Own
  <2> QED BY <2>2, <2>3, <2>4 DEF RunningInv
<1>5. filter.state # "dead"
  BY <1>1
<1> QED BY <1>1, <1>3, <1>4, <1>5, FilterStepKeepsInv

LEMMA UnchangedKeepsInv ==
  ASSUME FilterInv, UNCHANGED vars
  PROVE  FilterInv'
<1>1. /\ UNCHANGED <<frames, status, interrupts, interests, answered>>
      /\ UNCHANGED <<filter, to_filter, from_filter>>
  BY DEF vars, rlwrapVars, filterVars
<1>2. /\ Exclusive' = Exclusive /\ Holders' = Holders /\ Midway' = Midway
      /\ Occupied' = Occupied /\ NothingOnItsWay' = NothingOnItsWay
      /\ InOnePlace' = InOnePlace /\ Begun' = Begun /\ Complete' = Complete
      /\ Answered' = Answered
  BY <1>1 DEF Exclusive, Holders, InFlight, Midway, Top, Occupied, NothingOnItsWay, InOnePlace,
              Begun, Complete, Answered, Own, Follows
<1>3. \A i \in Holders : Journey(i) => Journey(i)'
  BY <1>1, <1>2 DEF Journey, OnlyAbout, Cut, Own, Holders, Occupied, Exclusive
<1>4. OneAtATime => OneAtATime'
  BY <1>2, <1>3 DEF OneAtATime
<1>5. Paired => Paired'
  BY <1>1 DEF Paired, Midway, Matches, SentTag, SentId, Top
<1>6. Uninterrupted => Uninterrupted'
  BY <1>1, <1>2 DEF Uninterrupted, Own
<1> QED BY <1>1, <1>4, <1>5, <1>6
        DEF FilterInv, RunningInv, Items, DiesOnly, AnswersMatch, SignalsMatch

-----------------------------------------------------------------------------
(* FilterInv is inductive, together with the type invariant and what is      *)
(* known of the stack of calls, if the filter answers each message once:     *)
(* which a filter in python that uses rlwrapfilter.py does not always do.    *)
LEMMA FilterInvInductive ==
  ASSUME ~rejects_twice
  PROVE  /\ Init => FilterInv
         /\ Invs /\ [Next]_vars => FilterInv'
<1>1. ASSUME Init PROVE FilterInv
  <2>1. /\ status = "running" /\ frames = <<>> /\ to_filter = <<>> /\ from_filter = <<>>
        /\ filter.state = "idle" /\ filter.tag = WHAT /\ answered = {}
    BY <1>1 DEF Init
  <2>2. Len(frames) = 0 /\ Len(to_filter) = 0 /\ Len(from_filter) = 0
    BY <2>1
  <2>3. Holders = {} /\ NothingOnItsWay
    BY <2>1, <2>2 DEF Holders, NothingOnItsWay, Occupied, Finished
  <2>4. Paired
    BY <2>1, <2>2 DEF Paired, Midway, Sending, OutOfBand
  <2>5. Uninterrupted
    BY <2>1, <2>2 DEF Uninterrupted
  <2>6. Items
    BY <2>1, <2>2 DEF Items, Tag
  <2> QED BY <2>1, <2>3, <2>4, <2>5, <2>6
          DEF FilterInv, RunningInv, OneAtATime, DiesOnly, AnswersMatch, SignalsMatch
<1>2. ASSUME Invs, [Next]_vars PROVE FilterInv'
  <2>1. CASE Call
    BY <1>2, <2>1, CallIsStackOnly, StackOnlyKeepsInv
  <2>2. CASE AskInterests
    BY <1>2, <2>2, AskInterestsIsStackOnly, StackOnlyKeepsInv
  <2>3. CASE NotInterested
    BY <1>2, <2>3, NotInterestedIsStackOnly, StackOnlyKeepsInv
  <2>4. CASE StartExchange
    BY <1>2, <2>4, StartExchangeIsStackOnly, StackOnlyKeepsInv
  <2>5. CASE WriteTag
    BY <1>2, <2>5, WriteTagKeepsInv
  <2>6. CASE WriteRest
    BY <1>2, <2>6, WriteRestKeepsInv
  <2>7. CASE ReadTag
    BY <1>2, <2>7, ReadTagKeepsInv
  <2>8. CASE ReadOutOfBand
    BY <1>2, <2>8, ReadOutOfBandKeepsInv
  <2>9. CASE ReadAnswer
    BY <1>2, <2>9, ReadAnswerKeepsInv
  <2>10. CASE ReadEOF
    BY <1>2, <2>10, ReadEOFKeepsInv
  <2>11. CASE Interrupt
    BY <1>2, <2>11, InterruptIsStackOnly, StackOnlyKeepsInv
  <2>12. CASE FilterHasDied
    BY <1>2, <2>12, FilterHasDiedIsStackOnly, StackOnlyKeepsInv
  <2>13. CASE FilterReads
    BY <1>2, <2>13, FilterReadsKeepsInv
  <2>14. CASE FilterSendsOob
    BY <1>2, <2>14, FilterSendsOobKeepsInv
  <2>15. CASE FilterAnswers
    BY <1>2, <2>15, FilterAnswersKeepsInv
  <2>16. CASE FilterRejectsPrompt
    BY <1>2, <2>16, FilterRejectsPromptKeepsInv
  <2>17. CASE FilterExecFails
    BY <1>2, <2>17, FilterExecFailsKeepsInv
  <2>18. CASE FilterDies
    BY <1>2, <2>18, FilterDiesKeepsInv
  <2>19. CASE UNCHANGED vars
    BY <1>2, <2>19, UnchangedKeepsInv DEF Invs
  <2> QED BY <1>2, <2>1, <2>2, <2>3, <2>4, <2>5, <2>6, <2>7, <2>8, <2>9, <2>10, <2>11, <2>12,
             <2>13, <2>14, <2>15, <2>16, <2>17, <2>18, <2>19 DEF Next, Rlwrap, Filter
<1> QED BY <1>1, <1>2

(* What is on its way between rlwrap and a filter that answers each message  *)
(* once.                                                                    *)
THEOREM FilterInvariant ==
  ASSUME ~rejects_twice
  PROVE  Spec => []FilterInv
<1>1. Init => FilterInv
  BY FilterInvInductive
<1>2. TypeOK /\ StackInv /\ (TypeOK /\ StackInv)' /\ FilterInv /\ [Next]_vars => FilterInv'
  BY FilterInvInductive DEF Invs
<1> QED BY <1>1, <1>2, StackInvariant, PTL DEF Spec

(* What rlwrap takes for the answer to a message about a text (a line of     *)
(* input, a prompt, a completion...) is the answer to that very message: the *)
(* signals that pass_through_filter() lets through between its system calls, *)
(* and the messages their handlers exchange with the filter, do not change   *)
(* that.                                                                    *)
THEOREM TheRightAnswer ==
  ASSUME ~rejects_twice
  PROVE  Spec => []AnswersMatch
<1>1. FilterInv => AnswersMatch
  BY DEF FilterInv
<1> QED BY <1>1, FilterInvariant, PTL

(* A filter that has asked for signals is told about each one of them by     *)
(* itself, as pass_through_filter() then keeps them blocked.                 *)
THEOREM EachSignalByItself ==
  ASSUME ~rejects_twice
  PROVE  Spec => []SignalsMatch
<1>1. FilterInv => SignalsMatch
  BY DEF FilterInv
<1> QED BY <1>1, FilterInvariant, PTL

(* As long as no signal interrupts a call, rlwrap stops only because the     *)
(* filter has died, or has sent an error message: and that is not left       *)
(* unread.                                                                  *)
THEOREM ErrorsAreShown ==
  ASSUME ~rejects_twice
  PROVE  Spec => []ErrorNotLost
<1>1. FilterInv => ErrorNotLost
  BY DEF FilterInv, DiesOnly, ErrorNotLost
<1> QED BY <1>1, FilterInvariant, PTL

-----------------------------------------------------------------------------
(* How many elements of a sequence are in a set. *)
Count(s, S) == Cardinality({p \in 1 .. Len(s) : s[p] \in S})
One(x, S) == IF x \in S THEN 1 ELSE 0

LEMMA CountFinite ==
  ASSUME NEW s, Len(s) \in Nat, NEW S
  PROVE  IsFiniteSet({p \in 1 .. Len(s) : s[p] \in S}) /\ Count(s, S) \in Nat
<1>1. IsFiniteSet(1 .. Len(s))
  BY FS_Interval
<1>2. {p \in 1 .. Len(s) : s[p] \in S} \in SUBSET (1 .. Len(s))
  OBVIOUS
<1>3. IsFiniteSet({p \in 1 .. Len(s) : s[p] \in S})
  BY <1>1, <1>2, FS_Subset
<1> QED BY <1>3, FS_CardinalityType DEF Count

LEMMA CountNone ==
  ASSUME NEW s, Len(s) \in Nat, NEW S
  PROVE  Count(s, S) = 0 <=> \A p \in 1 .. Len(s) : s[p] \notin S
<1> DEFINE C == {p \in 1 .. Len(s) : s[p] \in S}
<1>1. IsFiniteSet(C)
  BY CountFinite
<1>2. Cardinality(C) = 0 <=> C = {}
  BY <1>1, FS_EmptySet
<1>3. C = {} <=> \A p \in 1 .. Len(s) : s[p] \notin S
  OBVIOUS
<1> QED BY <1>2, <1>3 DEF Count

(* Two sequences of the same length. *)
LEMMA CountSame ==
  ASSUME NEW s, NEW t, NEW S, Len(s) = Len(t),
         \A p \in 1 .. Len(s) : s[p] \in S <=> t[p] \in S
  PROVE  Count(s, S) = Count(t, S)
<1>1. {p \in 1 .. Len(s) : s[p] \in S} = {p \in 1 .. Len(t) : t[p] \in S}
  OBVIOUS
<1> QED BY <1>1 DEF Count

(* The last element counts, or does not. *)
LEMMA CountLast ==
  ASSUME NEW s, NEW t, NEW S, Len(s) \in Nat, Len(t) \in Nat, Len(t) = Len(s) + 1,
         \A p \in 1 .. Len(s) : t[p] = s[p]
  PROVE  Count(t, S) = Count(s, S) + One(t[Len(t)], S)
<1>0. PICK n \in Nat : n = Len(s) /\ n + 1 = Len(t)
  OBVIOUS
<1> DEFINE A == {p \in 1 .. n : s[p] \in S}
           B == {p \in 1 .. n + 1 : t[p] \in S}
<1>1. IsFiniteSet(A) /\ Cardinality(A) \in Nat /\ Count(s, S) = Cardinality(A)
      /\ Count(t, S) = Cardinality(B)
  BY <1>0, CountFinite DEF Count
<1>2. n + 1 \notin A /\ \A p \in 1 .. n + 1 : p = n + 1 \/ p \in 1 .. n
  OBVIOUS
<1>3. CASE t[n + 1] \in S
  <2>1. B = A \cup {n + 1}
    <3>1. \A p \in B : p \in A \cup {n + 1}
      BY <1>0, <1>2
    <3>2. \A p \in A \cup {n + 1} : p \in B
      BY <1>0, <1>3
    <3> QED BY <3>1, <3>2
  <2>2. Cardinality(A \cup {n + 1}) = Cardinality(A) + 1
    BY <1>1, <1>2, FS_AddElement
  <2>3. One(t[Len(t)], S) = 1
    BY <1>0, <1>3 DEF One
  <2> QED BY <1>1, <2>1, <2>2, <2>3
<1>4. CASE t[n + 1] \notin S
  <2>1. \A p \in B : p \in A
    BY <1>0, <1>2, <1>4
  <2>2. \A p \in A : p \in B
    BY <1>0
  <2>3. B = A
    BY <2>1, <2>2
  <2>4. One(t[Len(t)], S) = 0
    BY <1>0, <1>4 DEF One
  <2>5. Count(t, S) = Count(s, S) /\ Count(s, S) \in Nat
    BY <1>1, <2>3
  <2> QED BY <2>4, <2>5
<1> QED BY <1>3, <1>4

(* Two sequences that differ in their last elements only. *)
LEMMA CountReplace ==
  ASSUME NEW s, NEW t, NEW S, Len(s) \in Nat \ {0}, Len(t) = Len(s),
         \A p \in 1 .. Len(s) : p # Len(s) => t[p] = s[p]
  PROVE  Count(t, S) + One(s[Len(s)], S) = Count(s, S) + One(t[Len(s)], S)
<1>0. PICK n \in Nat \ {0} : n = Len(s) /\ n = Len(t)
  OBVIOUS
<1> DEFINE u == [p \in 1 .. n - 1 |-> s[p]]
<1>1. Len(u) = n - 1 /\ \A p \in 1 .. n - 1 : u[p] = s[p]
  OBVIOUS
<1>2. \A p \in 1 .. n - 1 : p \in 1 .. n /\ p # n
  OBVIOUS
<1>3. \A p \in 1 .. n - 1 : s[p] = u[p] /\ t[p] = u[p]
  BY <1>0, <1>1, <1>2
<1>4. Len(u) \in Nat /\ Len(u) + 1 = n
  BY <1>1
<1> HIDE DEF u
<1>5. Count(s, S) = Count(u, S) + One(s[n], S)
  BY <1>0, <1>1, <1>3, <1>4, CountLast
<1>6. Count(t, S) = Count(u, S) + One(t[n], S)
  BY <1>0, <1>1, <1>3, <1>4, CountLast
<1>7. Count(u, S) \in Nat /\ One(s[n], S) \in Nat /\ One(t[n], S) \in Nat
  BY <1>4, CountFinite DEF One
<1> QED BY <1>0, <1>5, <1>6, <1>7

(* The first element is taken away. *)
LEMMA CountFirst ==
  ASSUME NEW s, NEW t, NEW S, Len(s) \in Nat \ {0}, Len(t) = Len(s) - 1,
         \A p \in 1 .. Len(s) - 1 : t[p] = s[p + 1]
  PROVE  Count(s, S) = Count(t, S) + One(s[1], S)
<1>0. PICK n \in Nat : n = Len(t) /\ n + 1 = Len(s)
  OBVIOUS
<1> DEFINE A == {p \in 1 .. n : t[p] \in S}
           B == {p \in 2 .. n + 1 : s[p] \in S}
           C == {p \in 1 .. n + 1 : s[p] \in S}
           f == [p \in A |-> p + 1]
<1>1. IsFiniteSet(A) /\ Count(t, S) = Cardinality(A) /\ Count(s, S) = Cardinality(C)
  BY <1>0, CountFinite DEF Count
<1>2. \A p \in 1 .. n : t[p] = s[p + 1] /\ p + 1 \in 2 .. n + 1
  BY <1>0
<1>3. f \in [A -> B]
  BY <1>2
<1>4. \A p, q \in A : f[p] = f[q] => p = q
  OBVIOUS
<1>5. ASSUME NEW q \in B PROVE \E p \in A : f[p] = q
  <2>1. q - 1 \in 1 .. n /\ (q - 1) + 1 = q
    OBVIOUS
  <2>2. q - 1 \in A
    BY <1>2, <2>1
  <2> QED BY <2>1, <2>2
<1>6. f \in Bijection(A, B)
  BY <1>3, <1>4, <1>5 DEF Bijection, Injection, Surjection, IsInjective
<1>7. IsFiniteSet(B) /\ Cardinality(B) = Cardinality(A)
  BY <1>1, <1>6, FS_Bijection DEF ExistsBijection
<1>8. 1 \notin B /\ \A p \in 1 .. n + 1 : p = 1 \/ p \in 2 .. n + 1
  OBVIOUS
<1>9. CASE s[1] \in S
  <2>1. \A p \in C : p \in B \cup {1}
    BY <1>8
  <2>2. \A p \in B \cup {1} : p \in C
    BY <1>9
  <2>3. C = B \cup {1}
    BY <2>1, <2>2
  <2>4. Cardinality(B \cup {1}) = Cardinality(B) + 1
    BY <1>7, <1>8, FS_AddElement
  <2>5. One(s[1], S) = 1
    BY <1>9 DEF One
  <2> QED BY <1>1, <1>7, <2>3, <2>4, <2>5
<1>10. CASE s[1] \notin S
  <2>1. \A p \in C : p \in B
    BY <1>8, <1>10
  <2>2. \A p \in B : p \in C
    OBVIOUS
  <2>3. C = B
    BY <2>1, <2>2
  <2>4. One(s[1], S) = 0 /\ Cardinality(A) \in Nat
    BY <1>1, <1>10, FS_CardinalityType DEF One
  <2>5. Count(s, S) = Count(t, S) /\ Count(t, S) \in Nat
    BY <1>1, <1>7, <2>3, <2>4
  <2> QED BY <2>4, <2>5
<1> QED BY <1>9, <1>10

(* Two sequences that agree up to a place beyond which nothing counts. *)
LEMMA CountPrefix ==
  ASSUME NEW s, NEW t, NEW S, NEW n \in Nat, Len(s) \in Nat, Len(t) \in Nat,
         n <= Len(s), n <= Len(t), \A p \in 1 .. n : s[p] \in S <=> t[p] \in S,
         \A p \in n + 1 .. Len(s) : s[p] \notin S, \A p \in n + 1 .. Len(t) : t[p] \notin S
  PROVE  Count(s, S) = Count(t, S)
<1>1. \A p \in 1 .. Len(s) : p \in 1 .. n \/ p \in n + 1 .. Len(s)
  OBVIOUS
<1>2. \A p \in 1 .. Len(t) : p \in 1 .. n \/ p \in n + 1 .. Len(t)
  OBVIOUS
<1>3. \A p \in 1 .. n : p \in 1 .. Len(s) /\ p \in 1 .. Len(t)
  OBVIOUS
<1>4. {p \in 1 .. Len(s) : s[p] \in S} = {p \in 1 .. Len(t) : t[p] \in S}
  BY <1>1, <1>2, <1>3
<1> QED BY <1>4 DEF Count

-----------------------------------------------------------------------------
(* Each message that has been begun belongs to a call that is in progress:   *)
(* it is in the pipe to the filter, or the filter is at work on it, or its   *)
(* answer is in the pipe from the filter. When the filter has taken the tag  *)
(* of one message for the rest of another, it never becomes idle again.      *)
Waiting == {f \in FrameType : InFlight(f)}
TagItems == {item \in ItemType : item.part = "tag"}
AnswerRests == {item \in ItemType : item.part = "rest" /\ item.tag \in Tag}

Waiters == Count(frames, Waiting)
Questions == Count(to_filter, TagItems)
Answers == Count(from_filter, AnswerRests)
Busy == IF filter.state = "idle" THEN 0 ELSE 1

(* The item at place q is a tag; before the first place, what the filter has *)
(* read last.                                                               *)
Opened(q) == IF q = 0 THEN filter.state = "reading" ELSE to_filter[q].part = "tag"
(* Before place n there are two tags, one after the other.                   *)
Clash(n) == \E q \in 0 .. n - 2 : Opened(q) /\ to_filter[q + 1].part = "tag"

(* A message is a tag and its rest, except when a signal came between them:  *)
(* then the tag of another message follows.                                  *)
RestsFit ==
  /\ \A p \in 1 .. Len(to_filter) : to_filter[p].part = "rest" => Opened(p - 1) \/ Clash(p)
  /\ \A i \in 1 .. Len(frames) : frames[i].at = "write_rest" =>
       \/ Clash(Len(to_filter) + 1)
       \/ /\ Opened(Len(to_filter))
          /\ \A j \in i + 1 .. Len(frames) : frames[j].at \in {"start", "write_tag"}

Balanced ==
  IF filter.state = "garbled" THEN Waiters >= 1 + Answers
  ELSE RestsFit /\ Waiters = Questions + Busy + Answers

(* An out of band message is followed by an answer. *)
LastIsAnswer ==
  filter.state \in {"idle", "reading", "garbled"} /\ from_filter # <<>> =>
    from_filter[Len(from_filter)].tag \notin OutOfBand

Alive == status = "running" /\ filter.state \notin {"dead", "sorry"}
SyncInv == Alive => Balanced /\ LastIsAnswer

LEMMA CountsAreNumbers ==
  ASSUME TypeOK, StackInv
  PROVE  Waiters \in Nat /\ Questions \in Nat /\ Answers \in Nat /\ Busy \in {0, 1}
BY Typed, CountFinite DEF Waiters, Questions, Answers, Busy

LEMMA InSets ==
  ASSUME TypeOK, StackInv
  PROVE  /\ \A i \in 1 .. Len(frames) : frames[i] \in Waiting <=> InFlight(frames[i])
         /\ \A p \in 1 .. Len(to_filter) : to_filter[p] \in TagItems <=> to_filter[p].part = "tag"
         /\ \A p \in 1 .. Len(from_filter) : from_filter[p] \in AnswerRests <=>
              from_filter[p].part = "rest" /\ from_filter[p].tag \in Tag
<1>1. \A i \in 1 .. Len(frames) : frames[i] \in FrameType
  BY SomeFrames
<1>2. to_filter \in Seq(ItemType) /\ from_filter \in Seq(ItemType)
  BY Typed
<1>3. /\ \A p \in 1 .. Len(to_filter) : to_filter[p] \in ItemType
      /\ \A p \in 1 .. Len(from_filter) : from_filter[p] \in ItemType
  BY <1>2, ElementOfSeq
<1> QED BY <1>1, <1>3 DEF Waiting, TagItems, AnswerRests

(* What has been proved of a step so far. *)
Known == Invs /\ FilterInv' /\ SyncInv

(* While the filter lives, every call has a number. *)
LEMMA Numbered ==
  ASSUME StackInv, filter.state # "dead"
  PROVE  \A i \in 1 .. Len(frames) : frames[i].id # 0
BY DEF StackInv, LastWords

LEMMA StackOnlyKeepsSync ==
  ASSUME Known, NEW n \in Nat, StackOnly(n)
  PROVE  SyncInv'
<1>1. SUFFICES ASSUME Alive' PROVE Balanced' /\ LastIsAnswer'
  BY DEF SyncInv
<1>2. /\ UNCHANGED <<to_filter, from_filter, filter>> /\ SameUpTo(n)
      /\ TypeOK /\ StackInv /\ TypeOK' /\ StackInv'
  BY DEF StackOnly, Known, Invs, PipesSame
<1>3. Alive /\ Balanced /\ LastIsAnswer
  BY <1>1, <1>2 DEF Known, SyncInv, Alive, StackOnly
<1>4. Len(frames) \in Nat /\ Len(frames') \in Nat /\ filter.state # "dead"
  BY <1>2, <1>3, SomeFrames DEF Alive, TypeOK
<1>5. /\ \A i \in 1 .. Len(frames) : frames[i].id > 0 /\ frames[i].at \in Places
      /\ \A i \in 1 .. Len(frames') : frames'[i].id > 0 /\ frames'[i].at \in Places
  <2>1. \A i \in 1 .. Len(frames) : frames[i].id > 0 /\ frames[i].at \in Places
    BY <1>2, <1>4, Numbered, Typed
  <2>2. \A i \in 1 .. Len(frames') : frames'[i].id # 0
    BY <1>2, <1>4 DEF StackInv, LastWords
  <2>3. \A i \in 1 .. Len(frames') : frames'[i] \in FrameType
    BY <1>2, ElementOfSeq DEF TypeOK
  <2> QED BY <2>1, <2>2, <2>3, FrameParts
<1>6. /\ \A i \in n + 1 .. Len(frames) : frames[i].at \in {"start", "write_tag"}
      /\ \A i \in n + 1 .. Len(frames') : frames'[i].at \in {"start", "write_tag"}
  BY <1>2, <1>4, <1>5 DEF SameUpTo, InFlight, Places
<1>7. Waiters' = Waiters
  <2>1. /\ n <= Len(frames) /\ n <= Len(frames') /\ \A i \in 1 .. n : frames'[i] = frames[i]
        /\ \A i \in n + 1 .. Len(frames) : frames[i] \notin Waiting
        /\ \A i \in n + 1 .. Len(frames') : frames'[i] \notin Waiting
    BY <1>2 DEF SameUpTo, Waiting
  <2> QED BY <1>4, <2>1, CountPrefix DEF Waiters, Waiting, InFlight
<1>8. Questions' = Questions /\ Answers' = Answers /\ Busy' = Busy
  BY <1>2 DEF Questions, Answers, Busy
<1>9. RestsFit => RestsFit'
  <2>1. SUFFICES ASSUME RestsFit PROVE RestsFit'
    OBVIOUS
  <2>2. /\ \A q : Opened(q)' <=> Opened(q)
        /\ \A p : Clash(p)' <=> Clash(p)
    BY <1>2 DEF Opened, Clash
  <2>3. ASSUME NEW i \in 1 .. Len(frames'), frames'[i].at = "write_rest"
        PROVE  \/ Clash(Len(to_filter) + 1)
               \/ /\ Opened(Len(to_filter))
                  /\ \A j \in i + 1 .. Len(frames') : frames'[j].at \in {"start", "write_tag"}
    <3>1. i \in 1 .. n
      <4>1. i \in 1 .. n \/ i \in n + 1 .. Len(frames')
        BY <1>4
      <4> QED BY <1>6, <2>3, <4>1
    <3>2. i \in 1 .. Len(frames) /\ frames[i].at = "write_rest"
      BY <1>2, <1>4, <2>3, <3>1 DEF SameUpTo
    <3>3. (\A j \in i + 1 .. Len(frames) : frames[j].at \in {"start", "write_tag"})
            => (\A j \in i + 1 .. Len(frames') : frames'[j].at \in {"start", "write_tag"})
      <4>1. SUFFICES ASSUME \A j \in i + 1 .. Len(frames) : frames[j].at \in {"start", "write_tag"},
                            NEW j \in i + 1 .. Len(frames')
                     PROVE  frames'[j].at \in {"start", "write_tag"}
        OBVIOUS
      <4>2. j \in i + 1 .. n \/ j \in n + 1 .. Len(frames')
        BY <1>4, <3>1
      <4>3. CASE j \in i + 1 .. n
        <5>1. j \in 1 .. n /\ j \in i + 1 .. Len(frames)
          BY <1>2, <1>4, <3>1, <4>3 DEF SameUpTo
        <5> QED BY <1>2, <4>1, <5>1 DEF SameUpTo
      <4>4. CASE j \in n + 1 .. Len(frames')
        BY <1>6, <4>4
      <4> QED BY <4>2, <4>3, <4>4
    <3> QED BY <2>1, <3>2, <3>3 DEF RestsFit
  <2>4. \A p \in 1 .. Len(to_filter') : to_filter'[p].part = "rest" => Opened(p - 1)' \/ Clash(p)'
    BY <1>2, <2>1 DEF RestsFit, Opened, Clash
  <2>5. /\ Clash(Len(to_filter) + 1) => Clash(Len(to_filter) + 1)'
        /\ Opened(Len(to_filter)) => Opened(Len(to_filter))'
    BY <1>2 DEF Opened, Clash
  <2> QED BY <1>2, <2>3, <2>4, <2>5 DEF RestsFit
<1>10. Balanced' /\ LastIsAnswer'
  BY <1>2, <1>3, <1>7, <1>8, <1>9 DEF Balanced, LastIsAnswer
<1> QED BY <1>10

LEMMA AppendKeepsClash ==
  ASSUME NEW m \in Nat, \A p \in 1 .. m : to_filter'[p] = to_filter[p], UNCHANGED filter
  PROVE  /\ \A q \in 0 .. m : Opened(q)' <=> Opened(q)
         /\ \A p \in 1 .. m + 1 : Clash(p) <=> Clash(p)'
         /\ Clash(m + 1) => Clash(m + 2)'
         /\ Opened(m) /\ to_filter'[m + 1].part = "tag" => Clash(m + 2)'
<1>1. \A q \in 0 .. m : Opened(q)' <=> Opened(q)
  BY DEF Opened
<1>2. ASSUME NEW p \in 1 .. m + 1
      PROVE  Clash(p) <=> Clash(p)'
  <2>1. \A q \in 0 .. p - 2 : q \in 0 .. m /\ q + 1 \in 1 .. m
    OBVIOUS
  <2> QED BY <1>1, <2>1 DEF Clash
<1>3. Clash(m + 1) => Clash(m + 2)'
  <2>1. SUFFICES ASSUME NEW q \in 0 .. (m + 1) - 2, Opened(q), to_filter[q + 1].part = "tag"
                 PROVE  Clash(m + 2)'
    BY DEF Clash
  <2>2. q \in 0 .. m /\ q + 1 \in 1 .. m /\ q \in 0 .. (m + 2) - 2
    OBVIOUS
  <2> QED BY <1>1, <2>1, <2>2 DEF Clash
<1>4. Opened(m) /\ to_filter'[m + 1].part = "tag" => Clash(m + 2)'
  <2>1. m \in 0 .. (m + 2) - 2
    OBVIOUS
  <2> QED BY <1>1, <2>1 DEF Clash
<1>5. \A p \in 1 .. m + 1 : Clash(p) <=> Clash(p)'
  BY <1>2
<1> QED BY <1>1, <1>3, <1>4, <1>5

LEMMA WriteTagKeepsSync ==
  ASSUME Known, WriteTag
  PROVE  SyncInv'
<1>1. SUFFICES ASSUME Alive' PROVE Balanced' /\ LastIsAnswer'
  BY DEF SyncInv
<1>2. /\ frames # <<>> /\ Top.at = "write_tag" /\ status = "running" /\ filter.state # "dead"
      /\ Write(Item("tag", Top.tag, Top.id), "write_rest")
  BY <1>1 DEF WriteTag, At, Write, Fail, Alive
<1>0. PICK n, m : n = Len(frames) /\ m = Len(to_filter)
  OBVIOUS
<1>3. /\ n \in Nat /\ m \in Nat /\ n \in 1 .. n /\ n = Len(frames) /\ m = Len(to_filter)
      /\ Top = frames[n]
  BY <1>0, <1>2, Typed, SomeFrames DEF Known, Invs, Top
<1>4. /\ UNCHANGED <<from_filter, filter, status>>
      /\ to_filter' # <<>> /\ Len(to_filter') = m + 1
      /\ \A p \in 1 .. m : to_filter'[p] = to_filter[p]
      /\ to_filter'[m + 1].part = "tag" /\ Top.id > 0
      /\ Len(frames') = n
      /\ \A i \in 1 .. n : i # n => frames'[i] = frames[i]
      /\ frames'[n].at = "write_rest" /\ frames'[n].id = Top.id
  BY <1>0, <1>2, <1>3, WriteEffect DEF Known
<1>5. Alive /\ Balanced /\ LastIsAnswer
  BY <1>1, <1>4 DEF Known, SyncInv, Alive
<1>6. TypeOK /\ StackInv /\ TypeOK' /\ StackInv'
  BY DEF Known, Invs
<1>7. Waiters' = Waiters + 1
  <2>1. frames'[n] \in Waiting /\ frames[n] \notin Waiting
    <3>1. frames'[n] \in FrameType
      BY <1>3, <1>4, <1>6, ElementOfSeq DEF TypeOK
    <3> QED BY <1>2, <1>3, <1>4, <3>1 DEF Waiting, InFlight
  <2>2. Count(frames', Waiting) + One(frames[n], Waiting)
          = Count(frames, Waiting) + One(frames'[n], Waiting)
    BY <1>3, <1>4, CountReplace
  <2>3. One(frames[n], Waiting) = 0 /\ One(frames'[n], Waiting) = 1
    BY <2>1 DEF One
  <2>4. Count(frames', Waiting) \in Nat /\ Count(frames, Waiting) \in Nat
    BY <1>3, <1>4, CountFinite
  <2>5. Waiters' = Count(frames', Waiting)
    BY DEF Waiters, Waiting, InFlight
  <2> QED BY <2>2, <2>3, <2>4, <2>5 DEF Waiters
<1>8. Questions' = Questions + 1
  <2>1. to_filter'[m + 1] \in TagItems
    <3>1. to_filter' \in Seq(ItemType) /\ m + 1 \in 1 .. Len(to_filter')
      BY <1>3, <1>4, <1>6 DEF TypeOK
    <3>2. to_filter'[m + 1] \in ItemType
      BY <3>1, ElementOfSeq
    <3> QED BY <1>4, <3>2 DEF TagItems
  <2>2. Count(to_filter', TagItems) = Count(to_filter, TagItems) + One(to_filter'[m + 1], TagItems)
    BY <1>3, <1>4, CountLast
  <2>3. One(to_filter'[m + 1], TagItems) = 1
    BY <2>1 DEF One
  <2>4. Questions' = Count(to_filter', TagItems)
    BY DEF Questions, TagItems
  <2> QED BY <2>2, <2>3, <2>4 DEF Questions
<1>9. Answers' = Answers /\ Busy' = Busy
  BY <1>4 DEF Answers, Busy
<1>10. RestsFit => RestsFit'
  <2>1. SUFFICES ASSUME RestsFit PROVE RestsFit'
    OBVIOUS
  <2>2. /\ \A q \in 0 .. m : Opened(q)' <=> Opened(q)
        /\ \A p \in 1 .. m + 1 : Clash(p) <=> Clash(p)'
        /\ Clash(m + 1) => Clash(m + 2)'
        /\ Opened(m) /\ to_filter'[m + 1].part = "tag" => Clash(m + 2)'
    BY <1>3, <1>4, AppendKeepsClash
  <2>3. ASSUME NEW p \in 1 .. m + 1, to_filter'[p].part = "rest"
        PROVE  Opened(p - 1)' \/ Clash(p)'
    <3>1. p \in 1 .. m /\ p - 1 \in 0 .. m /\ to_filter'[p] = to_filter[p]
      <4>1. p # m + 1
        BY <1>4, <2>3
      <4>2. p \in 1 .. m /\ p - 1 \in 0 .. m
        BY <1>3, <4>1
      <4> QED BY <1>4, <4>2
    <3> QED BY <1>3, <2>1, <2>2, <2>3, <3>1 DEF RestsFit
  <2>4. ASSUME NEW i \in 1 .. n, frames'[i].at = "write_rest"
        PROVE  \/ Clash(m + 2)'
               \/ /\ Opened(m + 1)'
                  /\ \A j \in i + 1 .. n : frames'[j].at \in {"start", "write_tag"}
    <3>1. CASE i = n
      BY <1>3, <1>4, <3>1 DEF Opened
    <3>2. CASE i # n
      BY <1>3, <1>4, <2>1, <2>2, <2>4, <3>2 DEF RestsFit
    <3> QED BY <3>1, <3>2
  <2>5. (m + 1) + 1 = m + 2
    BY <1>3
  <2> QED BY <1>4, <2>3, <2>4, <2>5 DEF RestsFit
<1>11. Waiters \in Nat /\ Questions \in Nat /\ Answers \in Nat /\ Busy \in {0, 1}
  BY <1>6, CountsAreNumbers
<1>12. Balanced' /\ LastIsAnswer'
  BY <1>4, <1>5, <1>7, <1>8, <1>9, <1>10, <1>11 DEF Balanced, LastIsAnswer
<1> QED BY <1>12

LEMMA WriteRestKeepsSync ==
  ASSUME Known, WriteRest
  PROVE  SyncInv'
<1>1. SUFFICES ASSUME Alive' PROVE Balanced' /\ LastIsAnswer'
  BY DEF SyncInv
<1>2. /\ frames # <<>> /\ Top.at = "write_rest" /\ status = "running" /\ filter.state # "dead"
      /\ Write(Item("rest", Top.tag, Top.id), "read_tag")
  BY <1>1 DEF WriteRest, At, Write, Fail, Alive
<1>0. PICK n, m : n = Len(frames) /\ m = Len(to_filter)
  OBVIOUS
<1>3. /\ n \in Nat /\ m \in Nat /\ n \in 1 .. n /\ n = Len(frames) /\ m = Len(to_filter)
      /\ Top = frames[n]
  BY <1>0, <1>2, Typed, SomeFrames DEF Known, Invs, Top
<1>4. /\ UNCHANGED <<from_filter, filter, status>>
      /\ to_filter' # <<>> /\ Len(to_filter') = m + 1
      /\ \A p \in 1 .. m : to_filter'[p] = to_filter[p]
      /\ to_filter'[m + 1].part = "rest" /\ Top.id > 0
      /\ Len(frames') = n
      /\ \A i \in 1 .. n : i # n => frames'[i] = frames[i]
      /\ frames'[n].at = "read_tag" /\ frames'[n].id = Top.id
  BY <1>0, <1>2, <1>3, WriteEffect DEF Known
<1>5. Alive /\ Balanced /\ LastIsAnswer
  BY <1>1, <1>4 DEF Known, SyncInv, Alive
<1>6. TypeOK /\ StackInv /\ TypeOK' /\ StackInv'
  BY DEF Known, Invs
<1>7. Waiters' = Waiters
  <2>1. frames'[n] \in Waiting /\ frames[n] \in Waiting
    <3>1. frames'[n] \in FrameType /\ frames[n] \in FrameType
      BY <1>3, <1>4, <1>6, ElementOfSeq DEF TypeOK
    <3> QED BY <1>2, <1>3, <1>4, <3>1 DEF Waiting, InFlight
  <2>2. Count(frames', Waiting) = Count(frames, Waiting)
    BY <1>3, <1>4, <2>1, CountSame
  <2>3. Waiters' = Count(frames', Waiting)
    BY DEF Waiters, Waiting, InFlight
  <2> QED BY <2>2, <2>3 DEF Waiters
<1>8. Questions' = Questions
  <2>1. to_filter'[m + 1] \notin TagItems
    BY <1>4 DEF TagItems
  <2>2. Count(to_filter', TagItems) = Count(to_filter, TagItems) + One(to_filter'[m + 1], TagItems)
    BY <1>3, <1>4, CountLast
  <2>3. One(to_filter'[m + 1], TagItems) = 0 /\ Count(to_filter, TagItems) \in Nat
    BY <1>3, <2>1, CountFinite DEF One
  <2>4. Questions' = Count(to_filter', TagItems)
    BY DEF Questions, TagItems
  <2> QED BY <2>2, <2>3, <2>4 DEF Questions
<1>9. Answers' = Answers /\ Busy' = Busy
  BY <1>4 DEF Answers, Busy
<1>10. RestsFit => RestsFit'
  <2>1. SUFFICES ASSUME RestsFit PROVE RestsFit'
    OBVIOUS
  <2>2. /\ \A q \in 0 .. m : Opened(q)' <=> Opened(q)
        /\ \A p \in 1 .. m + 1 : Clash(p) <=> Clash(p)'
        /\ Clash(m + 1) => Clash(m + 2)'
    BY <1>3, <1>4, AppendKeepsClash
  <2>3. Opened(m) \/ Clash(m + 1)
    BY <1>2, <1>3, <2>1 DEF RestsFit
  <2>4. ASSUME NEW p \in 1 .. m + 1, to_filter'[p].part = "rest"
        PROVE  Opened(p - 1)' \/ Clash(p)'
    <3>1. CASE p = m + 1
      <4>1. p - 1 = m /\ m \in 0 .. m /\ m + 1 \in 1 .. m + 1
        BY <1>3, <3>1
      <4> QED BY <2>2, <2>3, <3>1, <4>1
    <3>2. CASE p # m + 1
      <4>1. p \in 1 .. m /\ p - 1 \in 0 .. m
        BY <1>3, <3>2
      <4> QED BY <1>3, <1>4, <2>1, <2>2, <2>4, <4>1 DEF RestsFit
    <3> QED BY <3>1, <3>2
  <2>5. ASSUME NEW i \in 1 .. n, frames'[i].at = "write_rest"
        PROVE  Clash(m + 2)'
    <3>1. i # n /\ frames[i].at = "write_rest" /\ n \in i + 1 .. n
      BY <1>3, <1>4, <2>5
    <3>2. Clash(m + 1)
      BY <1>2, <1>3, <2>1, <3>1 DEF RestsFit
    <3> QED BY <2>2, <3>2
  <2>6. (m + 1) + 1 = m + 2
    BY <1>3
  <2> QED BY <1>4, <2>4, <2>5, <2>6 DEF RestsFit
<1>11. Balanced' /\ LastIsAnswer'
  BY <1>4, <1>5, <1>7, <1>8, <1>9, <1>10 DEF Balanced, LastIsAnswer
<1> QED BY <1>11

-----------------------------------------------------------------------------
(* rlwrap reads: what it has read is gone from the pipe. *)
Reads == {"read_tag", "read_oob", "read_rest"}

LEMMA TakeAnswer ==
  ASSUME Known, from_filter # <<>>, from_filter' = Tail(from_filter), UNCHANGED filter
  PROVE  /\ Answers = Answers' + One(from_filter[1], AnswerRests)
         /\ LastIsAnswer => LastIsAnswer'
<1>0. PICK k : k = Len(from_filter)
  OBVIOUS
<1>1. /\ k \in Nat \ {0} /\ k = Len(from_filter)
      /\ Len(from_filter') = k - 1 /\ (from_filter' # <<>> <=> k > 1)
      /\ \A p \in 1 .. k - 1 : from_filter'[p] = from_filter[p + 1]
  BY <1>0, ReadEffect DEF Known, Invs
<1>2. Count(from_filter, AnswerRests) = Count(from_filter', AnswerRests)
                                          + One(from_filter[1], AnswerRests)
  BY <1>1, CountFirst
<1>3. Answers' = Count(from_filter', AnswerRests)
  BY DEF Answers, AnswerRests
<1>4. LastIsAnswer => LastIsAnswer'
  <2>1. SUFFICES ASSUME LastIsAnswer, k > 1 PROVE from_filter'[k - 1] = from_filter[k]
    BY <1>1 DEF LastIsAnswer
  <2>2. k - 1 \in 1 .. k - 1 /\ (k - 1) + 1 = k
    BY <1>1, <2>1
  <2> QED BY <1>1, <2>2
<1> QED BY <1>2, <1>3, <1>4 DEF Answers

(* The last call reads: any other one that has not written its rest has been *)
(* interrupted between the parts of its message.                             *)
LEMMA ReaderKeepsRests ==
  ASSUME Known, RestsFit, UNCHANGED <<to_filter, filter>>,
         NEW n \in Nat \ {0}, n = Len(frames), frames[n].at \in Reads,
         NEW l \in Nat, l = Len(frames'), l <= n,
         \A i \in 1 .. l : i # n => frames'[i] = frames[i],
         l = n => frames'[n].at \in Reads
  PROVE  RestsFit'
<1>1. /\ \A q : Opened(q)' <=> Opened(q)
      /\ \A p : Clash(p)' <=> Clash(p)
  BY DEF Opened, Clash
<1>2. ASSUME NEW i \in 1 .. l, frames'[i].at = "write_rest"
      PROVE  Clash(Len(to_filter) + 1)
  <2>1. i # n
    BY <1>2 DEF Reads
  <2>2. i \in 1 .. n /\ n \in i + 1 .. n /\ frames[i].at = "write_rest"
    BY <1>2, <2>1
  <2>3. frames[n].at \notin {"start", "write_tag"}
    BY DEF Reads
  <2> QED BY <2>2, <2>3 DEF RestsFit
<1>3. \A p \in 1 .. Len(to_filter') : to_filter'[p].part = "rest" => Opened(p - 1)' \/ Clash(p)'
  BY <1>1 DEF RestsFit
<1>4. Clash(Len(to_filter) + 1) => Clash(Len(to_filter) + 1)'
  BY <1>1
<1> QED BY <1>2, <1>3, <1>4 DEF RestsFit

LEMMA GoOnReading ==
  ASSUME Known, status = "running", frames # <<>>, Top.at \in Reads,
         from_filter # <<>>, from_filter' = Tail(from_filter), UNCHANGED <<to_filter, filter>>,
         NEW place \in Reads, GoTo(place), from_filter[1] \notin AnswerRests
  PROVE  SyncInv'
<1>1. SUFFICES ASSUME Alive' PROVE Balanced' /\ LastIsAnswer'
  BY DEF SyncInv
<1>2. Alive /\ Balanced /\ LastIsAnswer
  BY <1>1 DEF Known, SyncInv, Alive
<1>0. PICK n : n = Len(frames)
  OBVIOUS
<1>3. /\ n \in Nat \ {0} /\ n \in 1 .. n /\ n = Len(frames) /\ Top = frames[n]
      /\ frames \in Seq(FrameType)
  BY <1>0, SomeFrames DEF Known, Invs, Top
<1>4. /\ frames' # <<>> /\ Len(frames') = n /\ frames'[n].at = place
      /\ \A i \in 1 .. n : i # n => frames'[i] = frames[i]
      /\ frames'[n].id = frames[n].id
  <2>1. /\ frames' # <<>> /\ Len(frames') = Len(frames) /\ Top'.at = place
        /\ \A i \in 1 .. Len(frames) : /\ i # Len(frames) => frames'[i] = frames[i]
                                       /\ frames'[i].id = frames[i].id
    BY <1>3, GoToEffect DEF Reads, Places
  <2> QED BY <1>3, <2>1 DEF Top
<1>5. Waiters' = Waiters
  <2>1. frames'[n] \in FrameType /\ frames[n] \in FrameType
    BY <1>3, <1>4, ElementOfSeq DEF Known, Invs, TypeOK
  <2>2. frames[n].id # 0 /\ frames[n].id \in Nat
    BY <1>2, <1>3, <2>1, Numbered, FrameParts DEF Known, Invs, Alive
  <2>3. frames'[n] \in Waiting /\ frames[n] \in Waiting
    BY <1>3, <1>4, <2>1, <2>2 DEF Waiting, InFlight, Reads
  <2>4. Count(frames', Waiting) = Count(frames, Waiting)
    BY <1>3, <1>4, <2>3, CountSame
  <2>5. Waiters' = Count(frames', Waiting)
    BY DEF Waiters, Waiting, InFlight
  <2> QED BY <2>4, <2>5 DEF Waiters
<1>6. Questions' = Questions /\ Busy' = Busy
  BY DEF Questions, Busy
<1>7. Answers' = Answers /\ LastIsAnswer'
  <2>1. /\ Answers = Answers' + One(from_filter[1], AnswerRests)
        /\ LastIsAnswer'
    BY <1>2, TakeAnswer
  <2>2. Answers' \in Nat
    <3>1. Answers' = Count(from_filter', AnswerRests)
      BY DEF Answers, AnswerRests
    <3>2. Len(from_filter') \in Nat
      BY LenProperties DEF Known, Invs, TypeOK
    <3> QED BY <3>1, <3>2, CountFinite
  <2>3. One(from_filter[1], AnswerRests) = 0
    BY DEF One
  <2>4. Answers' = Answers
    BY <2>1, <2>2, <2>3 DEF Answers
  <2> QED BY <2>1, <2>4
<1>8. RestsFit => RestsFit'
  BY <1>3, <1>4, ReaderKeepsRests
<1>9. Balanced'
  BY <1>2, <1>5, <1>6, <1>7, <1>8 DEF Balanced
<1> QED BY <1>7, <1>9

LEMMA ReadTagKeepsSync ==
  ASSUME Known, ReadTag
  PROVE  SyncInv'
<1>1. SUFFICES ASSUME Alive' PROVE SyncInv'
  BY DEF SyncInv
<1>2. /\ status = "running" /\ frames # <<>> /\ Top.at = "read_tag"
      /\ from_filter # <<>> /\ from_filter' = Tail(from_filter)
      /\ UNCHANGED <<filter, to_filter>>
  BY DEF ReadTag, At, filterVars
<1>3. PICK place : GoTo(place) /\ place = after_tag(Head(from_filter).tag) /\ place # "mismatch"
  BY <1>1, <1>2 DEF ReadTag, Fail, Alive
<1>4. place \in Reads /\ Top.at \in Reads
  BY <1>2, <1>3 DEF after_tag, Reads
<1>5. from_filter[1].part # "rest"
  BY <1>2 DEF Known, Invs, FilterInv, RunningInv, Paired, Midway
<1> QED BY <1>2, <1>3, <1>4, <1>5, GoOnReading DEF AnswerRests

LEMMA ReadOutOfBandKeepsSync ==
  ASSUME Known, ReadOutOfBand
  PROVE  SyncInv'
<1>1. SUFFICES ASSUME Alive' PROVE SyncInv'
  BY DEF SyncInv
<1>2. /\ status = "running" /\ frames # <<>> /\ Top.at = "read_oob"
      /\ from_filter # <<>> /\ from_filter' = Tail(from_filter)
      /\ UNCHANGED <<filter, to_filter>>
  BY DEF ReadOutOfBand, At, filterVars
<1>3. GoTo("read_tag")
  BY <1>1, <1>2 DEF ReadOutOfBand, Fail, Alive
<1>4. "read_tag" \in Reads /\ Top.at \in Reads
  BY <1>2 DEF Reads
<1>5. from_filter[1].tag \in OutOfBand
  BY <1>2 DEF Known, Invs, FilterInv, RunningInv, Paired, Midway, Matches
<1>6. from_filter[1] \notin AnswerRests
  BY <1>5, TagFacts DEF AnswerRests, OutOfBand
<1> QED BY <1>2, <1>3, <1>4, <1>6, GoOnReading

LEMMA ReadAnswerKeepsSync ==
  ASSUME Known, ReadAnswer
  PROVE  SyncInv'
<1>1. SUFFICES ASSUME Alive' PROVE Balanced' /\ LastIsAnswer'
  BY DEF SyncInv
<1>2. /\ status = "running" /\ frames # <<>> /\ Top.at = "read_rest" /\ Return
      /\ from_filter # <<>> /\ from_filter' = Tail(from_filter)
      /\ UNCHANGED <<filter, to_filter>>
  BY DEF ReadAnswer, At, filterVars
<1>3. Alive /\ Balanced /\ LastIsAnswer
  BY <1>1, <1>2 DEF Known, SyncInv, Alive
<1>0. PICK n : n = Len(frames)
  OBVIOUS
<1>4. /\ n \in Nat \ {0} /\ n \in 1 .. n /\ n = Len(frames) /\ Top = frames[n]
      /\ frames \in Seq(FrameType) /\ frames[n] \in FrameType
  BY <1>0, <1>2, SomeFrames DEF Known, Invs, Top
<1>5. /\ Len(frames') = n - 1 /\ n - 1 \in Nat
      /\ \A i \in 1 .. n - 1 : frames'[i] = frames[i]
  BY <1>2, <1>4, BelowEffect DEF Return
<1>6. Waiters = Waiters' + 1 /\ Waiters' \in Nat
  <2>1. frames[n].id # 0 /\ frames[n].id \in Nat
    BY <1>3, <1>4, Numbered, FrameParts DEF Known, Invs, Alive
  <2>2. frames[n] \in Waiting
    BY <1>2, <1>4, <2>1 DEF Waiting, InFlight
  <2>3. Count(frames, Waiting) = Count(frames', Waiting) + One(frames[n], Waiting)
    <3>1. n = (n - 1) + 1 /\ \A i \in 1 .. n - 1 : frames[i] = frames'[i]
      BY <1>4, <1>5
    <3> QED BY <1>4, <1>5, <3>1, CountLast
  <2>4. Waiters' = Count(frames', Waiting)
    BY DEF Waiters, Waiting, InFlight
  <2>5. Count(frames', Waiting) \in Nat
    BY <1>5, CountFinite
  <2> QED BY <2>2, <2>3, <2>4, <2>5 DEF Waiters, One
<1>7. Questions' = Questions /\ Busy' = Busy
  BY <1>2 DEF Questions, Busy
<1>8. Answers = Answers' + 1 /\ LastIsAnswer' /\ Answers' \in Nat
  <2>1. /\ Answers = Answers' + One(from_filter[1], AnswerRests)
        /\ LastIsAnswer'
    BY <1>2, <1>3, TakeAnswer
  <2>2. Answers' \in Nat
    <3>1. Answers' = Count(from_filter', AnswerRests)
      BY DEF Answers, AnswerRests
    <3>2. Len(from_filter') \in Nat
      BY LenProperties DEF Known, Invs, TypeOK
    <3> QED BY <3>1, <3>2, CountFinite
  <2>3. from_filter[1] \in AnswerRests
    <3>1. from_filter[1].part = "rest" /\ from_filter[1].tag = Top.tag
      BY <1>2 DEF Known, Invs, FilterInv, RunningInv, Paired, Midway, Matches
    <3>2. Top.tag \in Tag
      <4>1. frames[n].id # 0 /\ frames[n].id \in Nat
        BY <1>3, <1>4, Numbered, FrameParts DEF Known, Invs, Alive
      <4> QED BY <1>4, <4>1 DEF Known, Invs, StackInv, LastWords
    <3>3. 1 \in 1 .. Len(from_filter)
      BY <1>2, Typed DEF Known, Invs
    <3> QED BY <3>1, <3>2, <3>3, InSets DEF Known, Invs
  <2> QED BY <2>1, <2>2, <2>3 DEF One
<1>9. RestsFit => RestsFit'
  <2>1. n - 1 <= n /\ n - 1 # n /\ frames[n].at \in Reads
    BY <1>2, <1>4 DEF Reads
  <2> QED BY <1>2, <1>4, <1>5, <2>1, ReaderKeepsRests
<1>10. Questions \in Nat /\ Busy \in {0, 1}
  BY CountsAreNumbers DEF Known, Invs
<1>11. Balanced'
  <2>1. CASE filter.state = "garbled"
    <3>1. Waiters >= 1 + Answers
      BY <1>3, <2>1 DEF Balanced
    <3>2. Waiters' >= 1 + Answers'
      BY <1>6, <1>8, <3>1 DEF Waiters, Answers
    <3> QED BY <1>2, <2>1, <3>2 DEF Balanced
  <2>2. CASE filter.state # "garbled"
    <3>1. RestsFit /\ Waiters = Questions + Busy + Answers
      BY <1>3, <2>2 DEF Balanced
    <3>2. Waiters' = Questions' + Busy' + Answers'
      BY <1>6, <1>7, <1>8, <1>10, <3>1 DEF Waiters, Questions, Busy, Answers
    <3> QED BY <1>2, <1>9, <2>2, <3>1, <3>2 DEF Balanced
  <2> QED BY <2>1, <2>2
<1> QED BY <1>8, <1>11

-----------------------------------------------------------------------------
(* The filter reads: there is no rest that is not preceded by a tag, so that *)
(* it takes a tag for the beginning of a message.                            *)
LEMMA RestsMoveUp ==
  ASSUME Known, FilterReads, RestsFit, filter'.state # "garbled"
  PROVE  RestsFit' /\ (filter.state = "idle" => to_filter[1].part = "tag")
<1>0. PICK m : m = Len(to_filter)
  OBVIOUS
<1>1. /\ m \in Nat /\ m > 0 /\ m = Len(to_filter) /\ Len(to_filter') = m - 1
      /\ \A p \in 1 .. m - 1 : p + 1 \in 1 .. m /\ to_filter'[p] = to_filter[p + 1]
      /\ to_filter[1].part \in {"tag", "rest"}
      /\ UNCHANGED rlwrapVars
      /\ \/ filter.state = "idle" /\ filter'.state = "reading"
         \/ /\ filter.state = "reading" /\ filter'.state = "handling"
            /\ to_filter[1].part = "rest"
  BY <1>0, FilterReadsEffect DEF Known
<1>2. UNCHANGED frames
  BY <1>1 DEF rlwrapVars
<1>3. filter.state = "idle" => to_filter[1].part = "tag"
  <2>1. ~Clash(1) /\ 1 \in 1 .. m
    BY <1>1 DEF Clash
  <2> QED BY <1>1, <2>1 DEF RestsFit, Opened
<1>4. ASSUME NEW q \in 0 .. m - 1
      PROVE  Opened(q)' <=> Opened(q + 1)
  <2>1. CASE q = 0
    BY <1>1, <1>3, <2>1 DEF Opened
  <2>2. CASE q # 0
    <3>1. q \in 1 .. m - 1 /\ q + 1 # 0
      BY <2>2
    <3> QED BY <1>1, <2>2, <3>1 DEF Opened
  <2> QED BY <2>1, <2>2
<1>5. ASSUME NEW p \in 1 .. m, Clash(p + 1)
      PROVE  Clash(p)'
  <2>1. PICK q \in 0 .. p - 1 : Opened(q) /\ to_filter[q + 1].part = "tag"
    <3>1. (p + 1) - 2 = p - 1
      OBVIOUS
    <3> QED BY <1>5, <3>1 DEF Clash
  <2>2. q # 0
    BY <1>1, <2>1 DEF Opened
  <2>3. /\ q - 1 \in 0 .. p - 2 /\ q - 1 \in 0 .. m - 1 /\ (q - 1) + 1 = q /\ q \in 1 .. m - 1
    BY <1>1, <2>2
  <2>4. Opened(q - 1)' /\ to_filter'[q].part = "tag"
    BY <1>1, <1>4, <2>1, <2>3
  <2> QED BY <2>3, <2>4 DEF Clash
<1>6. ASSUME NEW p \in 1 .. m - 1, to_filter'[p].part = "rest"
      PROVE  Opened(p - 1)' \/ Clash(p)'
  <2>1. p + 1 \in 1 .. m /\ (p + 1) - 1 = p /\ p \in 1 .. m
        /\ p - 1 \in 0 .. m - 1 /\ (p - 1) + 1 = p
    BY <1>1
  <2>2. Opened(p) \/ Clash(p + 1)
    BY <1>1, <1>6, <2>1 DEF RestsFit
  <2> QED BY <1>4, <1>5, <2>1, <2>2
<1>7. ASSUME NEW i \in 1 .. Len(frames), frames[i].at = "write_rest"
      PROVE  \/ Clash((m - 1) + 1)'
             \/ /\ Opened(m - 1)'
                /\ \A j \in i + 1 .. Len(frames) : frames[j].at \in {"start", "write_tag"}
  <2>1. m \in 1 .. m /\ m - 1 \in 0 .. m - 1 /\ (m - 1) + 1 = m
    BY <1>1
  <2>2. \/ Clash(m + 1)
        \/ /\ Opened(m)
           /\ \A j \in i + 1 .. Len(frames) : frames[j].at \in {"start", "write_tag"}
    BY <1>1, <1>7 DEF RestsFit
  <2> QED BY <1>4, <1>5, <2>1, <2>2
<1>8. RestsFit'
  BY <1>1, <1>2, <1>6, <1>7 DEF RestsFit
<1> QED BY <1>3, <1>8

LEMMA FilterReadsKeepsSync ==
  ASSUME Known, FilterReads
  PROVE  SyncInv'
<1>1. SUFFICES ASSUME Alive' PROVE Balanced' /\ LastIsAnswer'
  BY DEF SyncInv
<1>0. PICK m : m = Len(to_filter)
  OBVIOUS
<1>2. /\ m \in Nat \ {0} /\ m = Len(to_filter) /\ Len(to_filter') = m - 1
      /\ \A p \in 1 .. m - 1 : to_filter'[p] = to_filter[p + 1]
      /\ to_filter[1].part \in {"tag", "rest"}
      /\ UNCHANGED rlwrapVars /\ UNCHANGED from_filter
      /\ \/ filter.state = "idle" /\ filter'.state = "reading"
         \/ /\ filter.state = "reading" /\ filter'.state = "handling"
            /\ to_filter[1].part = "rest"
         \/ /\ filter.state = "reading" /\ filter'.state = "garbled"
            /\ to_filter[1].part = "tag"
  BY <1>0, FilterReadsEffect DEF Known
<1>3. UNCHANGED <<frames, status>>
  BY <1>2 DEF rlwrapVars
<1>4. Alive /\ RestsFit /\ Waiters = Questions + Busy + Answers /\ LastIsAnswer
  BY <1>1, <1>2, <1>3 DEF Known, SyncInv, Alive, Balanced
<1>5. LastIsAnswer'
  BY <1>2, <1>4 DEF LastIsAnswer
<1>6. Waiters' = Waiters /\ Answers' = Answers
  BY <1>2, <1>3 DEF Waiters, Waiting, InFlight, Answers, AnswerRests
<1>7. /\ Questions = Questions' + One(to_filter[1], TagItems)
      /\ Questions' \in Nat
  <2>1. Count(to_filter, TagItems) = Count(to_filter', TagItems) + One(to_filter[1], TagItems)
    BY <1>2, CountFirst
  <2>2. Questions' = Count(to_filter', TagItems)
    BY DEF Questions, TagItems
  <2>3. Count(to_filter', TagItems) \in Nat
    <3>1. Len(to_filter') \in Nat
      BY <1>2
    <3> QED BY <3>1, CountFinite
  <2> QED BY <2>1, <2>2, <2>3 DEF Questions
<1>8. One(to_filter[1], TagItems) = IF to_filter[1].part = "tag" THEN 1 ELSE 0
  <2>1. 1 \in 1 .. Len(to_filter)
    BY <1>2
  <2> QED BY <2>1, InSets DEF Known, Invs, One
<1>9. Answers \in Nat /\ Waiters \in Nat
  BY CountsAreNumbers DEF Known, Invs
<1>10. CASE filter'.state = "garbled"
  <2>1. Questions = Questions' + 1 /\ Busy = 1
    BY <1>2, <1>7, <1>8, <1>10 DEF Busy
  <2>2. Waiters >= 1 + Answers
    BY <1>4, <1>7, <1>9, <2>1 DEF Questions
  <2>3. Waiters' >= 1 + Answers'
    BY <1>6, <2>2
  <2> QED BY <1>5, <1>10, <2>3 DEF Balanced
<1>11. CASE filter'.state # "garbled"
  <2>1. RestsFit' /\ (filter.state = "idle" => to_filter[1].part = "tag")
    BY <1>4, <1>11, RestsMoveUp
  <2>2. Questions' + Busy' = Questions + Busy
    <3>1. CASE filter.state = "idle"
      <4>1. Questions = Questions' + 1 /\ Busy = 0 /\ Busy' = 1
        BY <1>2, <1>7, <1>8, <2>1, <3>1 DEF Busy
      <4> QED BY <1>7, <4>1 DEF Questions
    <3>2. CASE filter.state # "idle"
      <4>1. Questions = Questions' + 0 /\ Busy = 1 /\ Busy' = 1
        BY <1>2, <1>7, <1>8, <1>11, <3>2 DEF Busy
      <4> QED BY <1>7, <4>1 DEF Questions
    <3> QED BY <3>1, <3>2
  <2>3. Waiters' = Questions' + Busy' + Answers'
    BY <1>4, <1>6, <2>2
  <2> QED BY <1>5, <1>11, <2>1, <2>3 DEF Balanced
<1> QED BY <1>10, <1>11

-----------------------------------------------------------------------------
(* The filter sends: a call is answered when the filter has become idle.     *)
LEMMA SameQuestions ==
  ASSUME UNCHANGED <<frames, to_filter>>, filter.state = "reading" <=> filter'.state = "reading"
  PROVE  Waiters' = Waiters /\ Questions' = Questions /\ (RestsFit => RestsFit')
<1>1. /\ \A q : Opened(q)' <=> Opened(q)
      /\ \A p : Clash(p)' <=> Clash(p)
  BY DEF Opened, Clash
<1>2. RestsFit => RestsFit'
  <2>1. SUFFICES ASSUME RestsFit PROVE RestsFit'
    OBVIOUS
  <2>2. \A p \in 1 .. Len(to_filter') : to_filter'[p].part = "rest" => Opened(p - 1)' \/ Clash(p)'
    BY <1>1, <2>1 DEF RestsFit
  <2>3. \A i \in 1 .. Len(frames') : frames'[i].at = "write_rest" =>
          \/ Clash(Len(to_filter) + 1)'
          \/ /\ Opened(Len(to_filter))'
             /\ \A j \in i + 1 .. Len(frames') : frames'[j].at \in {"start", "write_tag"}
    BY <1>1, <2>1 DEF RestsFit
  <2> QED BY <2>2, <2>3 DEF RestsFit
<1>3. Waiters' = Waiters /\ Questions' = Questions
  BY DEF Waiters, Waiting, InFlight, Questions, TagItems
<1> QED BY <1>2, <1>3

LEMMA SendAddsAnswer ==
  ASSUME Known, NEW item \in ItemType, NEW s, FilterSends(item, s)
  PROVE  /\ Answers' = Answers + (IF item.part = "rest" /\ item.tag \in Tag THEN 1 ELSE 0)
         /\ from_filter' # <<>> /\ from_filter'[Len(from_filter')] = item
         /\ filter'.state = s /\ UNCHANGED <<frames, status, to_filter>>
<1>0. PICK k : k = Len(from_filter)
  OBVIOUS
<1>1. /\ k \in Nat /\ k = Len(from_filter) /\ Len(from_filter') = k + 1 /\ from_filter' # <<>>
      /\ \A p \in 1 .. k : from_filter'[p] = from_filter[p]
      /\ from_filter'[k + 1] = item /\ filter'.state = s
      /\ UNCHANGED <<rlwrapVars, to_filter>>
  BY <1>0, SendEffect DEF Known
<1>2. UNCHANGED <<frames, status>>
  BY <1>1 DEF rlwrapVars
<1>3. Count(from_filter', AnswerRests) = Count(from_filter, AnswerRests) + One(item, AnswerRests)
  BY <1>1, CountLast
<1>4. One(item, AnswerRests) = IF item.part = "rest" /\ item.tag \in Tag THEN 1 ELSE 0
  BY DEF One, AnswerRests
<1>5. Answers' = Count(from_filter', AnswerRests)
  BY DEF Answers, AnswerRests
<1> QED BY <1>1, <1>2, <1>3, <1>4, <1>5 DEF Answers

LEMMA FilterSendsOobKeepsSync ==
  ASSUME Known, FilterSendsOob
  PROVE  SyncInv'
<1>1. SUFFICES ASSUME Alive' PROVE Balanced' /\ LastIsAnswer'
  BY DEF SyncInv
<1>2. PICK part, tag, s :
        /\ part \in {"tag", "rest"} /\ tag \in OutOfBand
        /\ FilterSends(Item(part, tag, 0), s)
        /\ \/ filter.state = "handling" /\ s = tag
           \/ filter.state = tag /\ s = "handling"
  BY DEF FilterSendsOob
<1>3. PICK item : item = Item(part, tag, 0)
  OBVIOUS
<1>4. item \in ItemType /\ item.tag \notin Tag /\ FilterSends(item, s)
  BY <1>2, <1>3, TagFacts DEF Item, ItemType, OutOfBand
<1>5. Answers \in Nat
  BY CountsAreNumbers DEF Known, Invs
<1>6. Answers' = Answers /\ filter'.state = s /\ UNCHANGED <<frames, status, to_filter>>
  <2>1. Answers' = Answers + 0
    BY <1>4, SendAddsAnswer
  <2>2. Answers' = Answers
    BY <1>5, <2>1 DEF Answers
  <2> QED BY <1>4, <2>2, SendAddsAnswer
<1>7. /\ filter.state \notin {"idle", "reading", "garbled", "dead", "sorry"}
      /\ filter'.state \notin {"idle", "reading", "garbled", "dead", "sorry"}
  BY <1>2, <1>6 DEF OutOfBand
<1>8. Alive /\ RestsFit /\ Waiters = Questions + Busy + Answers
  BY <1>1, <1>6, <1>7 DEF Known, SyncInv, Alive, Balanced
<1>9. Waiters' = Waiters /\ Questions' = Questions /\ RestsFit' /\ Busy' = Busy
  BY <1>6, <1>7, <1>8, SameQuestions DEF Busy
<1> QED BY <1>6, <1>7, <1>8, <1>9 DEF Balanced, LastIsAnswer

LEMMA FilterAnswersKeepsSync ==
  ASSUME Known, ~rejects_twice, FilterAnswers
  PROVE  SyncInv'
<1>1. SUFFICES ASSUME Alive' PROVE Balanced' /\ LastIsAnswer'
  BY DEF SyncInv
<1>2. PICK part, s :
        /\ part \in {"tag", "rest"}
        /\ FilterSends(Item(part, filter.tag, filter.id), s)
        /\ \/ /\ part = "tag" /\ s \in {"answering", "rejected"}
              /\ filter.state \in {"handling", "rejecting"}
           \/ part = "rest" /\ s = "idle" /\ filter.state \in {"answering", "rejected"}
  BY DEF FilterAnswers, Known, Invs, FilterInv, Items
<1>3. PICK item : item = Item(part, filter.tag, filter.id)
  OBVIOUS
<1>4. /\ item \in ItemType /\ item.part = part /\ item.tag \in Tag /\ FilterSends(item, s)
  BY <1>2, <1>3 DEF Item, ItemType, Known, Invs, TypeOK, FilterInv, Items
<1>5. /\ Answers' = Answers + (IF part = "rest" THEN 1 ELSE 0)
      /\ from_filter' # <<>> /\ from_filter'[Len(from_filter')] = item
      /\ filter'.state = s /\ UNCHANGED <<frames, status, to_filter>>
  BY <1>4, SendAddsAnswer
<1>6. filter.state \notin {"idle", "reading", "garbled", "dead", "sorry"} /\ s # "reading"
  BY <1>2
<1>7. Alive /\ RestsFit /\ Waiters = Questions + Busy + Answers
  BY <1>1, <1>5, <1>6 DEF Known, SyncInv, Alive, Balanced
<1>8. Waiters' = Waiters /\ Questions' = Questions /\ RestsFit'
  BY <1>5, <1>6, <1>7, SameQuestions
<1>9. Waiters \in Nat /\ Questions \in Nat /\ Answers \in Nat
  BY CountsAreNumbers DEF Known, Invs
<1>10. Waiters' = Questions' + Busy' + Answers'
  <2>1. CASE part = "tag"
    <3>1. Answers' = Answers + 0 /\ Busy' = Busy
      BY <1>2, <1>5, <1>6, <2>1 DEF Busy
    <3>2. Answers' = Answers
      BY <1>9, <3>1 DEF Answers
    <3> QED BY <1>7, <1>8, <3>1, <3>2
  <2>2. CASE part = "rest"
    <3>1. Answers' = Answers + 1 /\ Busy = 1 /\ Busy' = 0
      BY <1>2, <1>5, <1>6, <2>2 DEF Busy
    <3> QED BY <1>7, <1>8, <1>9, <3>1 DEF Waiters, Questions, Answers
  <2> QED BY <1>2, <2>1, <2>2
<1>11. LastIsAnswer'
  <2>1. item.tag \notin OutOfBand
    BY <1>4, TagFacts DEF OutOfBand
  <2> QED BY <1>5, <2>1 DEF LastIsAnswer
<1>12. filter'.state # "garbled"
  BY <1>2, <1>5
<1> QED BY <1>8, <1>10, <1>11, <1>12 DEF Balanced

LEMMA FilterRejectsPromptKeepsSync ==
  ASSUME Known, FilterRejectsPrompt
  PROVE  SyncInv'
<1>1. SUFFICES ASSUME Alive' PROVE Balanced' /\ LastIsAnswer'
  BY DEF SyncInv
<1>2. /\ filter.state = "handling" /\ UNCHANGED <<rlwrapVars, to_filter, from_filter>>
      /\ filter' = [filter EXCEPT !.state = "rejecting"]
  BY DEF FilterRejectsPrompt
<1>3. UNCHANGED <<frames, status>> /\ filter'.state = "rejecting"
  BY <1>2, FilterGoesTo DEF rlwrapVars, Known, Invs
<1>4. Alive /\ RestsFit /\ Waiters = Questions + Busy + Answers
  BY <1>1, <1>2, <1>3 DEF Known, SyncInv, Alive, Balanced
<1>5. Waiters' = Waiters /\ Questions' = Questions /\ RestsFit'
  BY <1>2, <1>3, <1>4, SameQuestions
<1>6. Answers' = Answers /\ Busy' = Busy
  BY <1>2, <1>3 DEF Answers, AnswerRests, Busy
<1> QED BY <1>2, <1>3, <1>4, <1>5, <1>6 DEF Balanced, LastIsAnswer

LEMMA FilterLeavesKeepsSync ==
  ASSUME Known, FilterExecFails \/ FilterDies
  PROVE  SyncInv'
<1>1. PICK s \in {"sorry", "dead"} : filter' = [filter EXCEPT !.state = s]
  BY DEF FilterExecFails, FilterDies
<1>2. filter'.state = s
  BY <1>1, FilterGoesTo DEF Known, Invs
<1> QED BY <1>1, <1>2 DEF SyncInv, Alive

LEMMA UnchangedKeepsSync ==
  ASSUME Known, UNCHANGED vars
  PROVE  SyncInv'
<1>1. UNCHANGED <<frames, status, filter, to_filter, from_filter>>
  BY DEF vars, rlwrapVars, filterVars
<1>2. Waiters' = Waiters /\ Questions' = Questions /\ (RestsFit => RestsFit')
  BY <1>1, SameQuestions
<1>3. Answers' = Answers /\ Busy' = Busy
  BY <1>1 DEF Answers, AnswerRests, Busy
<1> QED BY <1>1, <1>2, <1>3 DEF Known, SyncInv, Alive, Balanced, LastIsAnswer

-----------------------------------------------------------------------------
LEMMA ReadEOFKeepsSync ==
  ASSUME ReadEOF
  PROVE  SyncInv'
BY DEF ReadEOF, at_end_of_file, Fail, SyncInv, Alive

LEMMA StartsInSync ==
  ASSUME Init
  PROVE  SyncInv
<1>1. /\ frames = <<>> /\ to_filter = <<>> /\ from_filter = <<>> /\ filter.state = "idle"
      /\ Len(frames) = 0 /\ Len(to_filter) = 0 /\ Len(from_filter) = 0
  BY DEF Init
<1>2. Waiters = 0 /\ Questions = 0 /\ Answers = 0
  BY <1>1, CountNone DEF Waiters, Questions, Answers
<1>3. Busy = 0 /\ RestsFit
  BY <1>1 DEF Busy, RestsFit
<1> QED BY <1>1, <1>2, <1>3 DEF SyncInv, Balanced, LastIsAnswer

(* SyncInv is inductive, together with what has been proved before. *)
LEMMA SyncInvInductive ==
  ASSUME ~rejects_twice, Known, [Next]_vars
  PROVE  SyncInv'
<1>0. Invs
  BY DEF Known
<1>1. CASE Call
  BY <1>0, <1>1, CallIsStackOnly, StackOnlyKeepsSync
<1>2. CASE AskInterests
  BY <1>0, <1>2, AskInterestsIsStackOnly, StackOnlyKeepsSync
<1>3. CASE NotInterested
  BY <1>0, <1>3, NotInterestedIsStackOnly, StackOnlyKeepsSync
<1>4. CASE StartExchange
  BY <1>0, <1>4, StartExchangeIsStackOnly, StackOnlyKeepsSync
<1>5. CASE WriteTag
  BY <1>5, WriteTagKeepsSync
<1>6. CASE WriteRest
  BY <1>6, WriteRestKeepsSync
<1>7. CASE ReadTag
  BY <1>7, ReadTagKeepsSync
<1>8. CASE ReadOutOfBand
  BY <1>8, ReadOutOfBandKeepsSync
<1>9. CASE ReadAnswer
  BY <1>9, ReadAnswerKeepsSync
<1>10. CASE ReadEOF
  BY <1>10, ReadEOFKeepsSync
<1>11. CASE Interrupt
  BY <1>0, <1>11, InterruptIsStackOnly, StackOnlyKeepsSync
<1>12. CASE FilterHasDied
  BY <1>0, <1>12, FilterHasDiedIsStackOnly, StackOnlyKeepsSync
<1>13. CASE FilterReads
  BY <1>13, FilterReadsKeepsSync
<1>14. CASE FilterSendsOob
  BY <1>14, FilterSendsOobKeepsSync
<1>15. CASE FilterAnswers
  BY <1>15, FilterAnswersKeepsSync
<1>16. CASE FilterRejectsPrompt
  BY <1>16, FilterRejectsPromptKeepsSync
<1>17. CASE FilterExecFails \/ FilterDies
  BY <1>17, FilterLeavesKeepsSync
<1>18. CASE UNCHANGED vars
  BY <1>18, UnchangedKeepsSync
<1> QED BY <1>1, <1>2, <1>3, <1>4, <1>5, <1>6, <1>7, <1>8, <1>9, <1>10, <1>11, <1>12,
           <1>13, <1>14, <1>15, <1>16, <1>17, <1>18 DEF Next, Rlwrap, Filter

(* Each call that has begun to write its message waits for an answer that is *)
(* still to come, and none is waited for twice: as long as the filter lives, *)
(* and answers each message once.                                            *)
THEOREM SyncInvariant ==
  ASSUME ~rejects_twice
  PROVE  Spec => []SyncInv
<1>1. Init => SyncInv
  BY StartsInSync
<1>2. TypeOK /\ StackInv /\ (TypeOK /\ StackInv)' /\ FilterInv /\ FilterInv' => Invs /\ FilterInv'
  BY DEF Invs
<1>3. Invs /\ FilterInv' /\ SyncInv /\ [Next]_vars => SyncInv'
  BY SyncInvInductive DEF Known
<1> QED BY <1>1, <1>2, <1>3, StackInvariant, FilterInvariant, PTL DEF Spec

(* No call: nobody waits, so nothing is in the pipes. *)
LEMMA NobodyWaits ==
  ASSUME TypeOK, StackInv, FilterInv, SyncInv
  PROVE  InSync
<1>1. SUFFICES ASSUME status = "running", frames = <<>>, filter.state \notin {"dead", "sorry"}
               PROVE  to_filter = <<>> /\ from_filter = <<>> /\ filter.state = "idle"
  BY DEF InSync
<1>2. Balanced /\ LastIsAnswer /\ Paired
  BY <1>1 DEF SyncInv, Alive, FilterInv, RunningInv
<1>3. Waiters = 0
  <2>1. Len(frames) = 0
    BY <1>1
  <2> QED BY <2>1, CountNone DEF Waiters
<1>4. Questions \in Nat /\ Answers \in Nat /\ Busy \in {0, 1}
  BY CountsAreNumbers
<1>5. filter.state # "garbled"
  BY <1>2, <1>3, <1>4 DEF Balanced
<1>6. Questions = 0 /\ Answers = 0 /\ Busy = 0 /\ RestsFit
  BY <1>2, <1>3, <1>4, <1>5 DEF Balanced
<1>7. filter.state = "idle"
  BY <1>6 DEF Busy
<1>0. PICK m, k : m = Len(to_filter) /\ k = Len(from_filter)
  OBVIOUS
<1>8. /\ m \in Nat /\ m = Len(to_filter) /\ (to_filter # <<>> <=> m > 0)
      /\ k \in Nat /\ k = Len(from_filter) /\ (from_filter # <<>> <=> k > 0)
  BY <1>0, Typed
<1>9. to_filter = <<>>
  <2>1. SUFFICES ASSUME 1 \in 1 .. m PROVE FALSE
    BY <1>8
  <2>2. to_filter[1] \notin TagItems
    BY <1>6, <1>8, <2>1, CountNone DEF Questions
  <2>3. to_filter[1].part = "rest"
    BY <1>8, <2>1, <2>2, InSets, Typed
  <2> QED BY <1>6, <1>7, <1>8, <2>1, <2>3 DEF RestsFit, Opened, Clash
<1>10. from_filter = <<>>
  <2>1. SUFFICES ASSUME k > 0, k \in 1 .. k PROVE FALSE
    BY <1>8
  <2>2. from_filter[k] \notin AnswerRests
    BY <1>6, <1>8, <2>1, CountNone DEF Answers
  <2>3. from_filter[k].part = "rest"
    <3>1. filter.state \notin Sending
      BY <1>7 DEF Sending, OutOfBand
    <3>2. from_filter[k].part # "tag"
      BY <1>2, <1>7, <1>8, <2>1, <3>1 DEF Paired
    <3> QED BY <1>8, <2>1, <3>2, Typed
  <2>4. from_filter[k].tag \in OutOfBand
    <3>1. from_filter[k].tag \notin Tag
      BY <1>8, <2>1, <2>2, <2>3, InSets
    <3> QED BY <1>8, <2>1, <3>1, Typed
  <2> QED BY <1>2, <1>7, <1>8, <2>1, <2>4 DEF LastIsAnswer
<1> QED BY <1>7, <1>9, <1>10

(* Between two calls of pass_through_filter() the pipes are empty, and the   *)
(* filter waits for the next message: no answer is left over for the wrong   *)
(* question, though a signal may come between the parts of any message.      *)
THEOREM NothingLeftOver ==
  ASSUME ~rejects_twice
  PROVE  Spec => []InSync
<1>1. TypeOK /\ StackInv /\ FilterInv /\ SyncInv => InSync
  BY NobodyWaits
<1> QED BY <1>1, StackInvariant, FilterInvariant, SyncInvariant, PTL
=============================================================================
